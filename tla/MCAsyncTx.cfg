\* Two client readers, two callers of Close, a channel of two frames.
CONSTANTS
    Senders = {s1, s2}
    Closers = {k1, k2}
    Buf = 2
    MaxSends = 2
    NoOne = NoOne
SPECIFICATION Spec
INVARIANTS TypeOK NoPanic FifoFunnel HonestResult
PROPERTIES QuietAfterClose SendReturns CloseReturns AcceptedIsProcessed ImplementsSink
\* After Close and the last bounded call every goroutine has returned.
CHECK_DEADLOCK FALSE
