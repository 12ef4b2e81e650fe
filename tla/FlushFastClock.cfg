SPECIFICATION Spec
CONSTANTS
    r1 = r1
    r2 = r2
    r3 = r3
    r4 = r4
    Row = {r1, r2, r3}
    Poison = {}
    SmallBatch = 2
    SizeLimit = 3
    Offsets <- MCOffsets
    Ticks = {0, 1}
    SnapTicks = {0, 1}
    Faults = {}
    MaxFaults = 0
    MaxSnapshots = 2
SYMMETRY MCSymmetry
INVARIANT DurableStaysVisible
