CONSTANTS
    Workers = {w1, w2}
    Clients = {c1}
    Ids = {i1, i2}
    NoClient = NoClient
    NoId = NoId
    MaxConnections = 1
    CountMod = 8
    MaxChunks = 1
    MaxStarts = 1
    Env = {"handshake_error"}
SPECIFICATION Spec
INVARIANTS CountTracksSessions
