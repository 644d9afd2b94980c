\* Two clients, one kv handle: the first leaves, another connects.
SPECIFICATION TabSpec
CONSTANTS
    W = {w1, w2, w3, w4}
    KV = {k1, k2}
    MAX_CLIENTS = 2
    MAX_WEIGHTS = 2
    MaxWid = 3
INVARIANT KvExact
