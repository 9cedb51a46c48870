CONSTANTS
    Workers = {w1, w2}
    Clients = {c1, c2}
    Ids = {i1, i2, i3}
    NoClient = NoClient
    NoId = NoId
    MaxConnections = 0
    CountMod = 8
    MaxChunks = 0
    MaxStarts = 1
    Env = {}
SPECIFICATION FairSpec
PROPERTIES ServesEveryone
