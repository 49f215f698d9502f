SPECIFICATION Spec
CONSTANTS
    mail = mail
    maps = maps
    dash = dash
    AppIds = {mail, maps, dash}
    Dash = dash
    NoApp = NoApp
    Removable = {maps}
    Emblems = {maps}
    ForeignLists <- MCForeignLists
CHECK_DEADLOCK FALSE
INVARIANT StoredAppsArePinned
