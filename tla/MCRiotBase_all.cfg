CONSTANTS
    Who <- MCWho
    Width = 65536
    MaxLen = 3
    MaxPatch = 2
    Clients <- MCClients
    PacketSizes = {1, 2, 3, 16}
    MaxFrame = 40
    LengthWidth = 65536
    OneByte = 5
    TwoBytes = 12
    OtherDevs <- MCOtherDevs
    Rooms = {0, 1, 4}
    MaxRelays = 2
    Addrs = {a1, a2}
    NoAddr = noAddr
    SocketRoom = 2
    MaxDatagrams = 3
    Names <- MCNames
    Zone <- MCZone
    Server = a1
    Nums = {1, 2}
    MaxQueries = 4
    MaxAddresses = 2
    Mails <- MCMails
    Items = {x, y}
    Raw = raw
    ItemSize = 3
    MaxItems = 4
    Nodes = {n1, n2, n3, n4}
    Null = null
    ChunkSize = 7
    BlockSizes = {2, 3, 4, 7}
    MaxChunks = 2
    Machines = {1, 2, 3}
    Sessions <- MCSessions
    MaxDate = 1
    Sides = {p1, p2}
    MaxCommands = 2
    Parts <- MCParts
    Tried <- MCTried
SPECIFICATION MCSpec
INVARIANTS
    Converge ClientsAgree FormatsRight ContainersSound
    LookupsServed MailRight CommandsReach
CHECK_DEADLOCK FALSE
