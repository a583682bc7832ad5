---------------------------- MODULE ErisedViewMC ----------------------------
(* A small text for ErisedView, another program, and what caveat runs with. *)
EXTENDS ErisedView

\* 4, 4, 2, 2: instructions of both sizes, side by side.
Text == <<4, 0, 4, 0, 2, 2>>
TheDec  == [x \in 0 .. 5 |-> Text[x + 1]]
TheElf  == [base |-> 4, parcels |-> 6]
TheElfs == {TheElf, [base |-> 4, parcels |-> 3]}
=============================================================================
