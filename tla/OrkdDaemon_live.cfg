\* Two clients of equal priority, a queue of two items, runs of two quanta.
SPECIFICATION FairSpec
CONSTANTS
    p1 = p1
    p2 = p2
    p3 = p3
    Peers = {p1, p2}
    NoPeer = NoPeer
    MAX_CLIENTS = 2
    MAX_WEIGHTS = 1
    NDOM = 1
    QMAX = 2
    QUANTUM = 1
    PER_CLIENT_DOM = FALSE
    Ops = {"PACK", "RUN", "CHAIN", "PING", "SDP"}
    Rows = {2}
    Prios = {0}
    MaxWid = 1
PROPERTIES
    CallsReturn
    DeadClientReclaimed
    RefinesRpc
