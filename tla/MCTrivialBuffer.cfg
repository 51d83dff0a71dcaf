CONSTANTS
    NULL = NULL
    b1 = b1
    b2 = b2
    p1 = p1
    p2 = p2
    p3 = p3
    p4 = p4
    d1 = d1
    d2 = d2
    d3 = d3
    Buffers = {b1, b2}
    PageIds = {p1, p2, p3, p4}
    DataIds = {d1, d2, d3}
    Byte = {0}
    UseCountMod = 65536
    Strategy <- ShareAndCopy
    Ops = {"extend", "reserve", "rewind", "seek", "trim", "insert_data", "insert_data_ref", "insert_buffer", "write_data", "write_data_ref", "write_buffer", "overwrite_data", "overwrite_buffer", "read_data", "clear", "destroy"}
    Inputs <- Lengths3
    Junk = {0}
    MaxLen = 3
    MaxSize = 3
    MayFail = TRUE
    Usage = {}
SPECIFICATION Spec
INVARIANTS TypeOK RefCountExact WindowsInBounds ListsIntact SizeMatchesPages NoEmptyPages NoFault PageSizeRespected
SYMMETRY Perms
