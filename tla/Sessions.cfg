CONSTANTS
    Workers = {w1, w2}
    Clients = {c1, c2}
    Ids = {i1, i2, i3}
    NoClient = NoClient
    NoId = NoId
    MaxConnections = 1
    CountMod = 8
    MaxChunks = 2
    MaxStarts = 1
    Env = {"accept_error", "wait_error", "read_error", "write_error", "peer_gone"}
SPECIFICATION Spec
SYMMETRY Symmetry
INVARIANTS OneListener GeneratorExclusive PromiseKept UniqueIds
INVARIANTS OneContinuation CapturesValid ActiveIdsExact AssertHolds NoInsertUnderSharedLock EchoComplete CountTracksSessions
PROPERTIES BufferStable IsEchoService
