CONSTANTS
    NULL = NULL
    b1 = b1
    b2 = b2
    p1 = p1
    p2 = p2
    p3 = p3
    p4 = p4
    d1 = d1
    d2 = d2
    d3 = d3
    Buffers = {b1, b2}
    PageIds = {p1, p2, p3}
    DataIds = {d1, d2}
    Byte = {0}
    UseCountMod = 65536
    Strategy <- CutAndClone
    Ops = {"seek", "insert_data", "insert_buffer", "write_data", "overwrite_buffer"}
    Inputs <- Lengths2
    Junk = {0}
    MaxLen = 2
    MaxSize = 2
    MayFail = FALSE
    Usage = {"split_at_end", "self_source", "misaligned"}
SPECIFICATION FairSpec
INVARIANTS RefCountExact ListsIntact SizeMatchesPages PageSizeRespected
PROPERTIES CallsReturn
CHECK_DEADLOCK FALSE
