\* A connection of each kind, one chunk per buffer, two chunks to send at most:
\* a send blocks and the end of a connection waits for the kernel.
CONSTANTS
    c1 = c1
    c2 = c2
    Conns = {c1, c2}
    Dialing = {c1}
    Timers = {t1, t2}
    Nil = Nil
    Space = 1
    MaxInp <- MCMaxInp
    MaxOut = 2
    Handshake = 2
    Room = 1
    MaxRecords = 2
    MaxData = 2
SPECIFICATION MCSpec
INVARIANTS DeletionsListed WaitersCounted ClosedAfterSent OutputHasReason
PROPERTIES EventuallyServed EventuallyRead
CHECK_DEADLOCK FALSE
