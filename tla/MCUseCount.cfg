CONSTANTS
    NULL = NULL
    b1 = b1
    b2 = b2
    p1 = p1
    p2 = p2
    p3 = p3
    p4 = p4
    d1 = d1
    d2 = d2
    d3 = d3
    Buffers = {b1, b2}
    PageIds = {p1, p2, p3, p4}
    DataIds = {d1, d2, d3}
    Byte = {0}
    UseCountMod = 3
    Strategy <- ShareAlways
    Ops = {"write_data", "write_buffer", "seek"}
    Inputs <- Lengths2
    Junk = {0}
    MaxLen = 1
    MaxSize = 3
    MayFail = FALSE
    Usage = {}
SPECIFICATION Spec
INVARIANTS RegionsOutlivePages
SYMMETRY Perms
