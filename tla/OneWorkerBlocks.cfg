CONSTANTS
    Workers = {w1}
    Clients = {c1}
    Ids = {i1, i2}
    NoClient = NoClient
    NoId = NoId
    MaxConnections = 1
    CountMod = 8
    MaxChunks = 1
    MaxStarts = 1
    Env = {}
SPECIFICATION FairSpec
PROPERTIES AcceptUnblocks
CHECK_DEADLOCK FALSE
