SPECIFICATION TableSpec
CONSTANTS
    c1 = c1
    c2 = c2
    v1 = v1
    v2 = v2
    null = null
    bad = bad
    Col = {c1, c2}
    Value = {v1, v2, null}
    Predicates <- MCPredicates
    Batches <- MCBatches
    Malformed = bad
    MaxRows = 3
INVARIANTS
    TableTypeOK
    Aligned
    IndexExact
    SelectAgrees
