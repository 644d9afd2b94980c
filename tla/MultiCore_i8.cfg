\* An int8 matmul on two cores, two column tiles, one fault.
SPECIFICATION McSpec
CONSTANTS
    Cores = 2
    Kinds = {"i8"}
    Widths = {2}
    Slices = {1, 2}
    RECOV_MAX = 1
    MaxFaults = 1
CHECK_DEADLOCK FALSE
INVARIANTS
    CompleteIsLanded
