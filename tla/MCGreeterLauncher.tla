-------------------------- MODULE MCGreeterLauncher --------------------------
(* The greeter's user data with the constants TLC gives it.  Users are       *)
(* symmetric, and so are the values of a property.                         *)
EXTENDS GreeterLauncher, TLC

CONSTANTS mail, maps

Symmetry == Permutations(Users) \cup Permutations(Values)

App(a, pinned, running) == [id |-> a, pinned |-> pinned, running |-> running]

MCSessionLists == {
    <<App(mail, TRUE, FALSE), App(maps, TRUE, FALSE)>>,
    <<App(maps, FALSE, TRUE), App(mail, TRUE, TRUE)>>,
    <<App(maps, TRUE, FALSE)>>}

=============================================================================
