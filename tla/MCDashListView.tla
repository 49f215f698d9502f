--------------------------- MODULE MCDashListView ---------------------------
(* The list with the constants TLC gives it.  Rows of one section that do    *)
(* not expand are symmetric.                                                  *)
EXTENDS DashListView, TLC

CONSTANTS chess, cards, dice, editor

MCSection == [r \in Rows |-> IF r = editor THEN "tools" ELSE "games"]
MCInitialRows == <<chess, editor>>
MCSteps == {-2, 2}
Symmetry == Permutations({chess, cards, dice})

\* What goes on after the list has lost its order is not followed.
StillInOrder == InOrder(view)

\* Bound: the fourth row takes the place of an expanded row, of the higher header and
\* of an animation, and the third of two of them; a step there is checked, and not
\* followed.
Count(conditions) == Cardinality({c \in DOMAIN conditions : conditions[c]})
FewAtOnce ==
    Len(view.rows) + Count(<<tall # {}, view.headerImplicit # MinHeader, view.anim # "none">>) <= 4

=============================================================================
