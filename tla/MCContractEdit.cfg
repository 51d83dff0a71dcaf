CONSTANTS
    NULL = NULL
    b1 = b1
    b2 = b2
    p1 = p1
    p2 = p2
    p3 = p3
    p4 = p4
    d1 = d1
    d2 = d2
    d3 = d3
    Buffers = {b1}
    PageIds = {p1, p2, p3, p4}
    DataIds = {d1, d2, d3}
    Byte = {0, 1, 2, 3}
    UseCountMod = 65536
    Strategy <- CutAtTwo
    Ops = {"extend", "rewind", "seek", "trim", "insert_data", "insert_data_ref", "write_data", "overwrite_data", "read_data", "clear"}
    Inputs <- ThreeBytes
    Junk = {0}
    MaxLen = 3
    MaxSize = 5
    MayFail = FALSE
    Usage = {}
SPECIFICATION CSpec
PROPERTIES ImplementsByteQueue IteratorsStayValid ShortOnlyOnFailure
SYMMETRY Perms4
