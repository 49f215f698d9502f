----------------------------- MODULE MCDragArea -----------------------------
(* The drag area with the constants TLC gives it.  Touches are symmetric.  *)
EXTENDS DragArea, TLC

Symmetry == Permutations(TouchIds)

=============================================================================
