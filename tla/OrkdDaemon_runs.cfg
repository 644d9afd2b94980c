\* Two clients, each in its own domain, runs of two quanta at two priorities.
SPECIFICATION Spec
CONSTANTS
    p1 = p1
    p2 = p2
    p3 = p3
    Peers = {p1, p2}
    NoPeer = NoPeer
    MAX_CLIENTS = 2
    MAX_WEIGHTS = 1
    NDOM = 3
    QMAX = 2
    QUANTUM = 1
    PER_CLIENT_DOM = TRUE
    Ops = {"PACK", "FREE", "RUN"}
    Rows = {2}
    Prios = {0, 1}
    MaxWid = 1
INVARIANTS TypeOK WorkIsOwed RequestConserved
SYMMETRY PeerSymmetry
