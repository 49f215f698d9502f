\* The parts that stand for themselves.  A closed storage and a session without
\* logind stop, and so does a part none of whose bounds lets it go on.  The states
\* from which the dash views are known to go wrong (Disturbed) are not left.
SPECIFICATION PartsSpec
CONSTANTS
    Layouts = {"vertical", "horizontal", "organic"}
    MostRows <- MCMostRows
    RowSizes = {1, 2}
    ViewWidths <- MCViewWidths
    RowSpacing = 0
    ColumnSpacing = 0
    ShownTops <- MCShownTops
    ShownHeight = 2
    Buffer = 1
    Values = {a, b}
    MaxSource = 4
    NoLimit = NoLimit
    Limits <- MCLimits
    Blank = Blank
    IndicatorFiles <- MCIndicatorFiles
    Directories = {1, 2}
    Profiles = {"phone", "desktop"}
    PositionIn <- MCPositionIn
    MostMenus = 4
    Menus = {m1, m2}
    NoMenu = NoMenu
    MostMenuRows = 2
    MostDepth = 3
    States = {on, off}
    NoState = NoState
    MostSignals = 2
    Orientations = {p, q, r}
    Portrait = p
    DevicePaths = {event0, event1, mouse0, input0}
    EventPaths = {event0, event1}
    InputPaths = {input0}
    MostDevices = 3
    Quiet = 3
    Targets = {left, right}
    NoTarget = NoTarget
    Windows = {w, x}
    Geometries = {g, h}
    NoGeometry = NoGeometry
    MostQueries = 2
    MostCalls = 2
    FirstScreen = s
    Screens = {s, t, u}
    MostNotices = 3
CHECK_DEADLOCK FALSE
CONSTRAINT Undisturbed
INVARIANTS DashPageFilled ViewFollowsProxy IndicatorsFollowFiles
INVARIANTS ShownMenusAreCurrent SessionFollowed
INVARIANTS DevicesAreListed InputIsRead
INVARIANTS GeometryKept MonitorSeesService ScreensServed
PROPERTIES RowsStayHome IndicatorsStaySorted NoMenuLeftOut
