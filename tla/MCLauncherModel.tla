--------------------------- MODULE MCLauncherModel ---------------------------
(* The launcher with the constants TLC gives it. *)
EXTENDS LauncherModel, TLC

CONSTANTS mail, maps, dash

Entry(form, a) == [form |-> form, app |-> a]

MCForeignLists == {
    <<Entry("appid", mail)>>,
    <<Entry("other", mail), Entry("application", maps), Entry("appid", mail)>>}

=============================================================================
