SPECIFICATION Spec
CONSTANTS
    mail = mail
    maps = maps
    AppIds = {mail, maps}
    SessionLists <- MCSessionLists
    Users = {alice, bob}
    Custom = {FailedLogins}
    Builtin = {BackgroundFile}
    Settable = {FailedLogins}
    LauncherItems = LauncherItems
    Values = {low, high}
    MaxMessages = 4
SYMMETRY Symmetry
CHECK_DEADLOCK FALSE
INVARIANTS CacheCatchesUp GreeterShowsSentItems
