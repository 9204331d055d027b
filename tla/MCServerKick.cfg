CONSTANTS
    Clients = {c1}
    OutBufSize = 1
    Policies = {"kick"}
    MaxFrames = 3
    MaxClients = 0
    BatchSize = 1
    NoConn = NoConn
SPECIFICATION Spec
PROPERTIES KickClosesConnection
\* After cancellation and the last connection every goroutine has returned.
CHECK_DEADLOCK FALSE
