\* Three cores, two or four tiles, two K-slices, three faults.  Chains of up to four
\* tasks in chunks of two, with and without a reserve, two faults, every wait free to
\* run out.  A context of two cores in two domains: two dropped rounds, or a failed
\* allocation.  Weights of up to three K-slices and two N-slices, packed for either
\* SoC, in a large or a small window, one of them dumped at a time, and a K/V pair of
\* two keys.
SPECIFICATION MCSpec
CONSTANTS
    Cores = 3
    Kinds = {"f16", "f16contig", "i8stream"}
    Widths = {2, 4}
    Slices = {1, 2}
    RECOV_MAX = 2
    MaxFaults = 3
    Users = {"queue", "chain", "pc"}
    MaxTasks = 4
    ChunkMax = {2}
    Reserve = {0, 5}
    HEADROOM = 2
    MaxRuns = 2
    MaxErrors = 2
    NDom = 2
    NCore = 2
    Sizes = {2}
    I4_TMO = 1
    MM_TMO = 3
    MaxTrouble = 2
    T = 2
    KS = 8
    KTILE = 0
    NMAX <- NMaxOf
    Here = "rk3588"
    PAGE = 16
    BF_MOD = 4
    BF_MAX = 12
    BF_PACK = 13
    CHUNK = 64
    Ceilings = {200, 400}
    Shapes <- PkShapes
    KvShape <- PkKv
    Keys = {7, 9}
    Versions = {1}
    Refills = {2}
    MAX_FILES = 1
    Objs <- PkObjs
CHECK_DEADLOCK FALSE
INVARIANTS
    CompleteIsLanded
    Lockstep
    DropMarked
    NeverTorn
    NothingLost
    CountIsLanded
    ScratchExact
    SubmitsComplete
    SwitchReaped
    LayoutExact
    BuffersExact
PROPERTY
    DriverReturns
