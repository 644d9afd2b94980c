\* One shape, room for everything, every gate of the environment either way.
SPECIFICATION PkSpec
CONSTANTS
    T = 2
    KS = 4
    KTILE = 0
    NMAX <- NMaxOf
    Here = "rk3588"
    PAGE = 16
    BF_MOD = 4
    BF_MAX = 4
    BF_PACK = 4
    CHUNK = 64
    Ceilings = {400}
    Shapes <- PkShapes
    KvShape <- PkKv
    Keys = {1}
    Versions = {1}
    Refills = {2}
    MAX_FILES = 1
    Objs <- PkObjs
INVARIANT ImportServed
