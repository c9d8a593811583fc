\* The TLS connection alone.
CONSTANTS
    c1 = c1
    c2 = c2
    Conns = {c1, c2}
    Dialing = {c1}
    Timers = {t1, t2}
    Nil = Nil
    Space = 1
    MaxInp <- MCMaxInp
    MaxOut = 2
    Handshake = 2
    Room = 1
    MaxRecords = 2
    MaxData = 2
SPECIFICATION MCSslSpec
PROPERTY EventuallyWritten
CHECK_DEADLOCK FALSE
