SPECIFICATION Spec
CONSTANTS
    Checked = {"timer", "service", "watch", "tree", "pointer", "storage", "signal",
        "process", "application", "stream", "server", "udp", "websocket", "congested", "foreign", "frame", "key",
        "browser", "http"}
    None = None
    Addresses = {"a1", "a2"}
    Timers = {"t1", "t2"}
    TimerLoops = {"l1"}
    TimerStrands = {"s1"}
    MaxTimerGen = 2
    MaxTimerPosts = 2
    TreeAddresses = {1, 2, 3, 4}
    MaxListed = 3
    Holders = {"h1", "h2"}
    MaxNodes = 3
    Threads = {"t1", "t2"}
    Storages = {"s1", "s2"}
    MaxIds = 3
    MaxValues = 3
    Main = "t1"
    DriverOwners = {"o1", "o2"}
    MaxTasks = 3
    MaxChildren = 2
    MaxConnections = 2
    MaxQueue = 1
    MaxPosts = 1
    MaxGen = 3
    MaxClients = 3
    MaxListens = 2
    UdpCallers = {1, 2}
    MaxDatagrams = 2
    MaxBinds = 3
    MaxSends = 1
INVARIANT TimersFire
INVARIANT WatchesHold
INVARIANT NodesAccounted
INVARIANT HandlesAreSafe
INVARIANT EmissionsInOrder
INVARIANT ProcessesReaped
INVARIANT ApplicationOrdered
INVARIANT SocketsFollowTheirState
INVARIANT WebSocketsAgree
INVARIANT WireFormatsAgree
PROPERTY CallbacksRunAtHome
PROPERTY HttpFlushed
CHECK_DEADLOCK FALSE
