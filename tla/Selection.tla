------------------------------ MODULE Selection ------------------------------
(***************************************************************************)
(* Selecting from a sequence, as the loops of this code do that go through *)
(* a list and leave entries out.  It is SelectSeq with the selection given *)
(* as a set of positions: SelectSeq takes an operator, and no fact about   *)
(* it is within reach of the provers.                                      *)
(***************************************************************************)
EXTENDS Naturals, Sequences

\* The elements of s at the positions in K, in their order.
Kept(s, K) ==
    LET upTo[i \in 0..Len(s)] ==
            IF i = 0 THEN <<>>
            ELSE IF i \in K THEN Append(upTo[i - 1], s[i]) ELSE upTo[i - 1]
    IN  upTo[Len(s)]

=============================================================================
