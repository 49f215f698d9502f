----------------------------- MODULE MCTouchGate -----------------------------
(* The gate with the constants TLC gives it.                               *)
EXTENDS TouchGate

=============================================================================
