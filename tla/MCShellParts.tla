---------------------------- MODULE MCShellParts ----------------------------
(* Parts of the shell that share nothing: a behaviour is one of one part, which *)
(* the initial state picks, and the others stay in one of their initial states. *)
EXTENDS DashViews, ProxyModels, Indicators, IndicatorMenus, Session, InputDevices,
        ShellServices

CONSTANT FirstScreen  \* of the states in which the screens stay

MCMostRows == [vertical |-> 4, horizontal |-> 4, organic |-> 8]
MCViewWidths == [vertical |-> {1, 2}, horizontal |-> {2, 3}, organic |-> {1, 2}]
MCShownTops == {0, 1, 4}
MCLimits == {NoLimit, 0, 1, 2, 3}
MCIndicatorFiles == {<<1, "a">>, <<1, "b">>, <<2, "b">>, <<2, "c">>}
MCPositionIn ==
    [f \in IndicatorFiles |-> [p \in Profiles |->
        CASE p = "phone" -> IF f = <<2, "b">> \/ f = <<2, "c">> THEN 2 ELSE 1
          [] p = "desktop" -> IF f[2] = "c" THEN 0 ELSE 1]]

VARIABLE part

Parts ==
    {"views", "proxy", "indicators", "activator", "stack", "rootState", "session",
     "orientation", "devices", "homeKey", "watcher", "storage", "dashLink", "screens"}

PartsInit ==
    /\ part \in Parts
    /\ DashViewInit
    /\ part # "views" => dash.layout = "vertical" /\ dash.width = 1
    /\ ProxyInit
    /\ IndicatorsInit
    /\ part # "indicators" => indicators.disk = {} /\ indicators.profile = "phone"
    /\ ActivatorInit
    /\ StackInit
    /\ RootInit
    /\ SessionInit
    /\ OrientationInit
    /\ part # "orientation" => orientation.physical = Portrait /\ ~orientation.setting
    /\ DevicesInit
    /\ part # "devices" => devices.plugged = {}
    /\ HomeKeyInit
    /\ WatcherInit
    /\ part # "watcher" => ~watcher.adapted
    /\ StorageInit
    /\ part # "storage" => \A w \in Windows : storage.rows[w] = NoGeometry
    /\ DashLinkInit
    /\ part # "dashLink" => ~dashLink.registered
    /\ ScreensInit
    /\ part # "screens" => screens.list = <<FirstScreen>>

\* A step of one part, with the others unchanged.
PartsNext ==
    \/ /\ part = "views" /\ DashViewNext
       /\ UNCHANGED <<part, proxyVars, indicators, activator, menuStack,
                      rootState, session, orientation, devices, homeKey, watcher,
                      storage, dashLink, screens>>
    \/ /\ part = "proxy" /\ ProxyNext
       /\ UNCHANGED <<part, dash, indicators, activator, menuStack, rootState,
                      session, orientation, devices, homeKey, watcher, storage,
                      dashLink, screens>>
    \/ /\ part = "indicators" /\ IndicatorsNext
       /\ UNCHANGED <<part, dash, proxyVars, activator, menuStack, rootState,
                      session, orientation, devices, homeKey, watcher, storage,
                      dashLink, screens>>
    \/ /\ part = "activator" /\ ActivatorNext
       /\ UNCHANGED <<part, dash, proxyVars, indicators, menuStack, rootState,
                      session, orientation, devices, homeKey, watcher, storage,
                      dashLink, screens>>
    \/ /\ part = "stack" /\ StackNext
       /\ UNCHANGED <<part, dash, proxyVars, indicators, activator, rootState,
                      session, orientation, devices, homeKey, watcher, storage,
                      dashLink, screens>>
    \/ /\ part = "rootState" /\ RootNext
       /\ UNCHANGED <<part, dash, proxyVars, indicators, activator, menuStack,
                      session, orientation, devices, homeKey, watcher, storage,
                      dashLink, screens>>
    \/ /\ part = "session" /\ SessionNext
       /\ UNCHANGED <<part, dash, proxyVars, indicators, activator, menuStack,
                      rootState, orientation, devices, homeKey, watcher, storage,
                      dashLink, screens>>
    \/ /\ part = "orientation" /\ OrientationNext
       /\ UNCHANGED <<part, dash, proxyVars, indicators, activator, menuStack,
                      rootState, session, devices, homeKey, watcher, storage,
                      dashLink, screens>>
    \/ /\ part = "devices" /\ DevicesNext
       /\ UNCHANGED <<part, dash, proxyVars, indicators, activator, menuStack,
                      rootState, session, orientation, homeKey, watcher, storage,
                      dashLink, screens>>
    \/ /\ part = "homeKey" /\ HomeKeyNext
       /\ UNCHANGED <<part, dash, proxyVars, indicators, activator, menuStack,
                      rootState, session, orientation, devices, watcher, storage,
                      dashLink, screens>>
    \/ /\ part = "watcher" /\ WatcherNext
       /\ UNCHANGED <<part, dash, proxyVars, indicators, activator, menuStack,
                      rootState, session, orientation, devices, homeKey, storage,
                      dashLink, screens>>
    \/ /\ part = "storage" /\ StorageNext
       /\ UNCHANGED <<part, dash, proxyVars, indicators, activator, menuStack,
                      rootState, session, orientation, devices, homeKey, watcher,
                      dashLink, screens>>
    \/ /\ part = "dashLink" /\ DashLinkNext
       /\ UNCHANGED <<part, dash, proxyVars, indicators, activator, menuStack,
                      rootState, session, orientation, devices, homeKey, watcher,
                      storage, screens>>
    \/ /\ part = "screens" /\ ScreensNext
       /\ UNCHANGED <<part, dash, proxyVars, indicators, activator, menuStack,
                      rootState, session, orientation, devices, homeKey, watcher,
                      storage, dashLink>>

partsVars ==
    <<part, dash, proxyVars, indicators, activator, menuStack, rootState, session,
      orientation, devices, homeKey, watcher, storage, dashLink, screens>>

PartsSpec == PartsInit /\ [][PartsNext]_partsVars

\* What happens after a state from which a view goes wrong is not looked at.
Undisturbed == AtHome(dash) /\ ~Disturbed(dash)

=============================================================================
