\* Three clients and two slots: refusals, compaction, automatic and requested domains.
SPECIFICATION Spec
CONSTANTS
    p1 = p1
    p2 = p2
    p3 = p3
    Peers = {p1, p2, p3}
    NoPeer = NoPeer
    MAX_CLIENTS = 2
    MAX_WEIGHTS = 1
    NDOM = 2
    QMAX = 1
    QUANTUM = 1
    PER_CLIENT_DOM = TRUE
    Ops = {"DOM_REQ", "DOM_REL"}
    Rows = {1}
    Prios = {0}
    MaxWid = 1
INVARIANTS
    ConnectionsAgree
    NoBlockingRead
    RefsExact
    DomainsExact
SYMMETRY PeerSymmetry
