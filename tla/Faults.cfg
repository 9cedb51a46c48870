CONSTANTS
    Workers = {w1, w2}
    Clients = {c1}
    Ids = {i1, i2}
    NoClient = NoClient
    NoId = NoId
    MaxConnections = 0
    CountMod = 8
    MaxChunks = 1
    MaxStarts = 2
    Env = {"shutdown", "bad_certs", "port_in_use", "accept_error", "handshake_error",
           "wait_error", "read_error", "write_error", "peer_gone"}
SPECIFICATION FairSpec
INVARIANTS TypeOK NoSpin
PROPERTIES NothingServedAgain OnlyIdTaskBlocksJoin AcceptUnblocks SessionEnds
CHECK_DEADLOCK FALSE
