SPECIFICATION Spec
CONSTANTS
    Checked = {"file", "ini", "cli", "database", "tablemodel", "rows", "columns",
        "snmp", "traps", "pages", "popups", "radio", "inputs", "geometry",
        "tree", "trace", "serve", "sample", "memory"}
    None = None
    Idle = Idle
    NaN = NaN
    MaxResultRows = 1
    MaxOutages = 2
    TableKeys = {"k1", "k2", "k3"}
    TableValues = {"a", "b"}
    MaxFailures = 2
    Pages = {"p1", "p2", "p3"}
    MaxTabs = 3
    PopupWindows = {"w1"}
    PopupBoxes = {"b1", "b2"}
    Buttons = {"b1", "b2", "b3", "b4"}
    IntSize = 4
    InitialCapacity = 3
    Margin = 1
    MaxText = 6
INVARIANT SettingsFaithful
INVARIANT DataAccounted
INVARIANT ViewsConsistent
INVARIANT SnmpAnswered
INVARIANT ControlsConsistent
INVARIANT SpaceIsShared
INVARIANT FramesDraw
INVARIANT ProfilerExact
PROPERTY IndexesStayInPlace
CHECK_DEADLOCK FALSE
