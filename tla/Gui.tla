--------------------------------- MODULE Gui ---------------------------------
(* The bar's windows: hiding and what holds it open (Hiding), its place on   *)
(* the outputs (Outputs) and the window switcher (Switching).  All of it is  *)
(* run by main's loop and has no state in common but a bar's visibility,     *)
(* which each of the two models changes by itself: one of them is looked at  *)
(* at a time (who).                                                          *)
EXTENDS Naturals

CONSTANTS
  Popups, Autoclose, MaxActs,             \* of Hiding
  Ports, Output, Targets, MaxMoves,       \* of Outputs
  Wins, Hidden, Ticks, MaxPresses         \* of Switching

ASSUME GuiAssumption ==
  /\ Autoclose \subseteq Popups /\ {"bar", "menu", "item"} \cap Popups = {}
  /\ Output \in Ports /\ Targets \subseteq Ports /\ "none" \notin Ports
  /\ Ticks \in Nat \ {0, 1} /\ Hidden \subseteq Wins /\ "none" \notin Wins

VARIABLES
  who,
  g,       \* what the one that is looked at knows
  steps    \* how many events it has had

Hd == INSTANCE Hiding WITH h <- g, acts <- steps
Out == INSTANCE Outputs WITH o <- g, moves <- steps
Sw == INSTANCE Switching WITH w <- g, presses <- steps

vars == <<who, g, steps>>

Init ==
  \/ who = "hiding"  /\ Hd!Init
  \/ who = "outputs" /\ Out!Init
  \/ who = "switcher" /\ Sw!Init

\* What goes on by itself; and what the user, the applications and the outputs do
Works ==
  /\ UNCHANGED who
  /\ \/ who = "hiding"  /\ Hd!Works
     \/ who = "outputs" /\ Out!Works
     \/ who = "switcher" /\ Sw!Works
Acts ==
  /\ UNCHANGED who
  /\ \/ who = "hiding"  /\ Hd!Acts
     \/ who = "outputs" /\ Out!Acts
     \/ who = "switcher" /\ Sw!Acts

\* The loop dispatches what is due, and the compositor does as it is told
Spec == Init /\ [][Works \/ Acts]_vars
FairSpec == Spec /\ WF_vars(Works)

----------------------------------------------------------------------------
(* Properties, of each part in its module *)

\* Every variable keeps its type.
TypeOK ==
  CASE who = "hiding" -> Hd!TypeOK
    [] who = "outputs" -> Out!TypeOK
    [] who = "switcher" -> Sw!TypeOK

\* A bar does not hide under the pointer, a drag or what is open on it: its timer
\* is tried again as long as window_ref_check finds something (bar_sensor_hide).
HeldOpen ==
  /\ [](who = "hiding" => Hd!Held)
  /\ [][who = "hiding" => Hd!StaysOpen]_vars

\* A bar with a sensor hides when it is left, is shown when it is entered, and each
\* bar comes to be as visible as it was set.
BarSettles ==
  /\ (who = "hiding" /\ Hd!Left) ~> (who = "hiding" => ~Hd!StillLeft)
  /\ (who = "hiding" /\ Hd!Entered) ~> (who = "hiding" => ~Hd!StillEntered)
  /\ (who = "hiding" /\ Hd!SetHidden) ~> (who = "hiding" => ~Hd!StillSetHidden)
  /\ (who = "hiding" /\ Hd!SetShown) ~> (who = "hiding" => ~Hd!StillSetShown)

\* doc/sfwbar.rst, bar: a bar goes to the output it is assigned to, and mirrors
\* are on the others that match; no output ever has two windows of the bar.
Placed ==
  /\ [](who = "outputs" => Out!OneEach /\ (Out!Told => Out!OnOutputs))
  /\ <>[](who = "outputs" => Out!OnOutputs)

\* The window that gets the focus is the one that was drawn as chosen, and presses
\* one way come to all windows before they come to one again.
SwitcherTakes == [][who = "switcher" => Sw!TakesShown /\ Sw!NoneSkipped]_vars
=============================================================================
