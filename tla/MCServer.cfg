CONSTANTS
    Clients = {c1, c2}
    OutBufSize = 1
    Policies = {"drop", "kick"}
    MaxFrames = 2
    MaxClients = 1
    BatchSize = 2
    NoConn = NoConn
INIT Init
NEXT Next
SYMMETRY Symmetry
INVARIANTS TypeOK MaxClientsRespected DeliveryOrdered NoOrphanInHub CountersBalance ShutdownComplete NoLeakedConnection
\* After cancellation and the last connection every goroutine has returned.
CHECK_DEADLOCK FALSE
