CONSTANTS
    Workers = {w1, w2}
    Clients = {c1}
    Ids = {i1, i2}
    NoClient = NoClient
    NoId = NoId
    MaxConnections = 1
    CountMod = 8
    MaxChunks = 0
    MaxStarts = 1
    Env = {"accept_error"}
SPECIFICATION FairSpec
PROPERTIES ServesEveryone
