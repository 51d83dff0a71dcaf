CONSTANTS
    NULL = NULL
    END = END
    d1 = d1
    d2 = d2
    d3 = d3
    DataIds = {d1, d2, d3}
    Byte = {0, 1}
    Block = 2
    IovLimit = 1
    CountMod = 65536
    Inputs <- ShortWrites
    MaxFile = 3
    MaxHeld = 1
    MayFail = FALSE
    StatFails = {}
    Usage = {"remap_shared"}
SPECIFICATION Spec
INVARIANT MappingsOutlivePages
SYMMETRY Perms
