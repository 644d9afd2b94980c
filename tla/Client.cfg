\* Two clients spawn daemons, which are killed at any system call or reaped.
\* A client of a ring of three slots, with counters that overflow.
SPECIFICATION MCSpec
CONSTANTS
    Daemons = {d1, d2}
    Procs = {c1, c2}
    Inodes = {n1, n2}
    None = None
    Stale = Stale
    Producers = {c1}
    RingWeights = {1}
    Inputs = {1}
    NSLOTS = 3
    CTR = 6
INVARIANTS
    CrashSafe
    SubscribersServed
PROPERTY
    ClientsServed
