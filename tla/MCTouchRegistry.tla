--------------------------- MODULE MCTouchRegistry ---------------------------
(* The registry with the constants TLC gives it.  The view leaves out events,  *)
(* which no action reads.                                                      *)
EXTENDS TouchRegistry, TLC

CONSTANTS i1, i2, t1, t2

\* Two fingers, one on both items and one beside the first of them.
Overlapping == t1 :> {i1, i2} @@ t2 :> {i2}
WithoutEvents == <<registryVars, alive, down, offered, arrivals, view>>

=============================================================================
