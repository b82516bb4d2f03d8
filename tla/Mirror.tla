------------------------------- MODULE Mirror -------------------------------
(* What a driver promises: the bar shows the compositor as it is, except for *)
(* a while after a change.  The two never change in one step: every change   *)
(* of what is to be shown leaves something to be read, the bar only stops    *)
(* being behind in a step that leaves it right, and it does not stay behind. *)

VARIABLES
  truth,    \* what there is to show
  shown,    \* what is shown
  behind    \* is there anything left to read

vars == <<truth, shown, behind>>

Init == behind = TRUE

\* The compositor changes
Changes == truth' # truth /\ behind' /\ UNCHANGED shown

\* The bar reads, and has read all or not
Reads == (behind' \/ shown' = truth) /\ UNCHANGED truth

Spec == Init /\ [][Changes \/ Reads]_vars /\ []<>~behind
=============================================================================
