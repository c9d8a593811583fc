SPECIFICATION Spec
CONSTANTS
    Queues = {q1, q2}
    Strings = {s1, s2}
    Ids = {1, 2, 3}
    DefaultSize = 2
    MaxBytes = 3
    MaxUse = 2
    Careful = TRUE
    Null = Null
    Junk = Junk
    Sets = {p1, p2}
    Devices = {d1}
    Numbers = {0, 1, 2, 3, 4, 5}
    CounterSize = 3
    BaseSize = 2
    DateSize = 8
    Bases = {0, 1}
    MaxClock = 3
    Tasks = {t1, t2, t3}
    RingSize = 5
    MaxDelay = 2
    MaxLate = 2
    MaxTime = 11
    Users = {u, v}
    MaxRequests = 4
    MaxStarts = 3
    Variables = {x, y}
    Callbacks = {f, g}
    MaxChanges = 4
    MaxSubmit = 5
SYMMETRY Alike
INVARIANTS
    StructuresSound
    IntervalsApart
    IdsUnique
    CallbacksDue
    ServerGets
PROPERTIES
    ImplementsByteQueue
    ImplementsPatchSets
    ImplementsAgenda
    UsersKept
CHECK_DEADLOCK FALSE
