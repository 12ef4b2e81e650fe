SPECIFICATION FairSpec
CONSTANTS
    Row = {r1, r2, r3, r4}
    CoreCounts = {2}
    ChunkSize = 2
INVARIANT EachRowOnce
