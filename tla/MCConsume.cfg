CONSTANTS
    NULL = NULL
    b1 = b1
    p1 = p1
    p2 = p2
    p3 = p3
    d1 = d1
    d2 = d2
    d3 = d3
    r1 = r1
    r2 = r2
    Buffers = {b1}
    PageIds = {p1, p2, p3}
    DataIds = {d1, d2, d3}
    Readers = {r1}
    ReaderUsage = {}
    Byte = {1, 2}
    UseCountMod = 65536
    Strategy <- PagesOfTwo
    Ops = {"write_data", "seek"}
    Inputs <- TwoBytes
    Junk = {1}
    MaxLen = 2
    MaxSize = 4
    MayFail = FALSE
    Usage = {}
SPECIFICATION RSpec
PROPERTY ConsumesWhatIsAsked
SYMMETRY Perms1
