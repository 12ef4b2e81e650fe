SPECIFICATION Spec
CONSTANTS
    t1 = t1
    t2 = t2
    single = single
    join = join
    Nobody = Nobody
    Client = {c1}
    MaxQueries = 2
    Table = {t1, t2}
    Sql = {single, join}
    From <- MCFrom
    Indexed = {single}
    Capacity = 1
    MaxRequests = 3
INVARIANT CacheFresh
\* Users may send no more statements.
CHECK_DEADLOCK FALSE
