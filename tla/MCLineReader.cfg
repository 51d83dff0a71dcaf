CONSTANTS
    NULL = NULL
    b1 = b1
    p1 = p1
    p2 = p2
    p3 = p3
    d1 = d1
    d2 = d2
    r1 = r1
    r2 = r2
    Buffers = {b1}
    PageIds = {p1, p2, p3}
    DataIds = {d1, d2}
    Readers = {r1, r2}
    LF = 10
    CR = 13
    MaxLine = 2
    SizeMod = 16
    Byte = {10, 13, 97}
    UseCountMod = 65536
    Strategy <- PagesOfTwo
    Ops = {"write_data", "insert_data"}
    Inputs <- Text
    Junk = {97}
    MaxLen = 2
    MaxSize = 3
    MayFail = FALSE
    Usage = {}
SPECIFICATION LSpec
INVARIANTS LTypeOK SearchKeepsItsPlace FoundLinesAreRight BytesInOrder
PROPERTIES SearchIsComplete SeekTakesLine
SYMMETRY Perms
