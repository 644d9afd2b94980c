\* Spine: two units, DAGs of two ops, run twice.  Context pool: four threads, three
\* jobs.  Process pool: two callers, up to three threads, two calls each.
\* Fused chains: two calls of one chain or two on two cores, and one op of another
\* kind or one fault.
SPECIFICATION MCSpec
CONSTANTS
    NU = 2
    NOPS = 2
    MaxRuns = 2
    NeedCpu = TRUE
    pool_n = 4
    MaxJobs = 3
    Callers = {c1, c2}
    NoCaller = NoCaller
    POOL_MAX = 3
    Lengths = {0, 1, 2, 4}
    MaxCalls = 2
    FCores = 2
    Entrypoints = {"ffn", "rr_biased"}
    Curves = {"flat", "steep"}
    OpLists = {"short", "long"}
    Length <- FusedLength
    MaxChains = 2
    MaxFused = 2
    MaxEvents = 1
CHECK_DEADLOCK FALSE
INVARIANTS
    DepsRespected
    ResultsExact
    JobComplete
    EachIndexOnce
    FusedExact
PROPERTY
    ExecutorsReturn
