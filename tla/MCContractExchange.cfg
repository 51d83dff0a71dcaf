CONSTANTS
    NULL = NULL
    b1 = b1
    b2 = b2
    p1 = p1
    p2 = p2
    p3 = p3
    p4 = p4
    d1 = d1
    d2 = d2
    d3 = d3
    Buffers = {b1, b2}
    PageIds = {p1, p2, p3}
    DataIds = {d1, d2, d3}
    Byte = {0, 1, 2}
    UseCountMod = 65536
    Strategy <- ShareAndCopy
    Ops = {"seek", "insert_data", "insert_buffer", "write_data_ref", "write_buffer", "overwrite_data", "overwrite_buffer", "destroy"}
    Inputs <- TwoBytes
    Junk = {0}
    MaxLen = 2
    MaxSize = 3
    MayFail = FALSE
    Usage = {}
SPECIFICATION CSpec
PROPERTIES ImplementsByteQueue IteratorsStayValid OthersUntouched ReferencedNeverWritten
SYMMETRY Perms3
