\* A third daemon starts while the first one is leaving.
SPECIFICATION LifeSpec
CONSTANTS
    Daemons = {d1, d2, d3}
    Procs = {c1, c2}
    Inodes = {n1, n2, n3}
    None = None
    Stale = Stale
INVARIANT SingleOwner
