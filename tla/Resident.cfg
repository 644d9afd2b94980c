\* Tables: two slots, tables of two weights, three weight objects, two kv handles.
\* Stream: two descriptors, two weights, two domains of three buffers.
\* Ring: one client, three slots in flight, counters that overflow.
\* Pool: three entries of one or two buffers in a window of three, shared with others.
\* Sequences of up to three ops with two groups, one submit going wrong.
SPECIFICATION MCSpec
CONSTANTS
    W = {w1, w2, w3}
    KV = {k1, k2}
    MAX_CLIENTS = 2
    MAX_WEIGHTS = 2
    MaxWid = 4
    NFD = 2
    NW = 2
    NDOM = 2
    CEIL = 3
    Producers = {c1}
    RingWeights = {1}
    Inputs = {1, 2}
    NSLOTS = 3
    CTR = 6
    Entries = {e1, e2, e3}
    NoEntry = NoEntry
    Bufs = {1, 2}
    WINDOW = 3
    MaxOther = 2
    MaxClock = 3
    OpCount = 3
    Caps = {2, 4}
    SeqCores = 2
    GroupIds = {0, 1, 2}
    Entry = {"seq", "chain"}
    MaxRefused = 1
INVARIANTS
    WeightsExact
    InSync
    NoLostCall
    FdsExact
    IovaExact
    RingExact
    PoolExact
    SeqExact
    GroupsWhole
