----------------------------- MODULE Switching -----------------------------
(* The window switcher (gui/switcher.c, gui/switcheritem.c) on the list of   *)
(* windows (wintree.c).                                                      *)
(*                                                                           *)
(* Each press of its key, a signal or a trigger, chooses the next or the     *)
(* previous window and starts a countdown; each tick shows the choice, and   *)
(* the last one has the compositor focus it.  Windows come, go and take the  *)
(* focus meanwhile.  A window's address is not used again.                   *)
EXTENDS Naturals, Sequences, SequencesExt

CONSTANTS
  Wins, Hidden,   \* the windows, and those that the switcher's filter leaves out
  Ticks,          \* ticks from a press to the end
  MaxPresses      \* bound on what the user does

VARIABLES w, presses

At(l, win) == SelectInSeq(l, LAMBDA v : v = win)

----------------------------------------------------------------------------
(* wintree.c, as far as the switcher sees it *)

wintree_from_id(x, id) == IF id \in Range(x.list) THEN id ELSE "none"

\* The list is turned until the focused window is first
wintree_set_focus(x, id) ==
  [x EXCEPT !.wt_focus = id,
            !.list = IF x.wt_focus = id \/ id \notin Range(@) THEN @
                     ELSE SubSeq(@, At(@, id), Len(@)) \o SubSeq(@, 1, At(@, id) - 1),
            !.fresh = @ \/ id # x.wt_focus]

wintree_window_append(x, id) ==
  [x EXCEPT !.list = Append(@, id), !.items = [i \in DOMAIN @ \cup {id} |->
                                                IF i = id THEN FALSE ELSE @[i]], !.fresh = TRUE]

\* Faulty variant of wintree_window_delete: the item stays.
wintree_window_delete_kept(x, id) ==
  [x EXCEPT !.list = SelectSeq(@, LAMBDA v : v # id), !.fresh = TRUE]

\* The item goes with the window; the switcher's choice stays (dangling)
wintree_window_delete(x, id) ==
  [x EXCEPT !.list = SelectSeq(@, LAMBDA v : v # id),
            !.items = [i \in DOMAIN @ \ {id} |-> @[i]], !.fresh = TRUE]

----------------------------------------------------------------------------
(* The switcher *)

filter_window_check(win) == win \notin Hidden

switcher_is_focused(x, win) == x.focus = win

\* Neighbours in the list of windows to choose from; from nowhere, its ends
Next_(l, win) == LET i == At(l, win) IN IF i = 0 \/ i = Len(l) THEN l[1] ELSE l[i + 1]
Previous(l, win) == LET i == At(l, win) IN IF i \in {0, 1} THEN l[Len(l)] ELSE l[i - 1]

\* Faulty variant of switcher_event: each press starts at the focused window.
switcher_event_over(x, dir) ==
  LET list == SelectSeq(x.list, filter_window_check)
      focus == wintree_from_id(x, x.wt_focus)
  IN [x EXCEPT !.counter = Ticks,
               !.focus = IF list = <<>> THEN focus
                         ELSE IF dir = "forward" THEN Next_(list, focus) ELSE Previous(list, focus)]

switcher_event(x, dir) ==
  LET focus == IF x.counter < 1 \/ x.focus = "none" THEN wintree_from_id(x, x.wt_focus) ELSE x.focus
      list == SelectSeq(x.list, filter_window_check)
  IN [x EXCEPT !.counter = Ticks,
               !.focus = IF list = <<>> THEN focus
                         ELSE IF dir = "forward" THEN Next_(list, focus) ELSE Previous(list, focus)]

\* Every item is drawn anew: is it the one that is chosen
switcher_item_update(x) == [i \in DOMAIN x.items |-> switcher_is_focused(x, i)]

\* The choice is read, whether its window is there or not (stray)
switcher_update(x) ==
  IF x.counter <= 0 THEN x
  ELSE LET read == [x EXCEPT !.counter = @ - 1,
                             !.stray = @ \/ x.focus \notin {"none"} \cup Range(x.list)]
       IN IF read.counter > 0
          THEN [read EXCEPT !.items = switcher_item_update(x), !.shown = TRUE]
          ELSE [read EXCEPT !.shown = FALSE, !.asked = Append(@, x.focus)]

----------------------------------------------------------------------------
(* items: the items, drawn as the chosen one or not; shown: is the switcher  *)
(* on the screen; asked: the windows that the compositor is asked to focus;  *)
(* fresh, past, way: has the list changed since the last press, what was     *)
(* chosen since then, and in which direction; again: has the last press come *)
(* to a window that was chosen before                                        *)

Init ==
  /\ presses = 0
  /\ \E l \in UNION {SetToSeqs(s) : s \in SUBSET Wins} :
       \E id \in {"none"} \cup Range(l) :
         w = [list |-> l, wt_focus |-> id, items |-> [i \in Range(l) |-> FALSE], counter |-> 0,
              focus |-> "none", shown |-> FALSE, asked |-> <<>>, stray |-> FALSE, fresh |-> FALSE,
              past |-> {}, again |-> FALSE, way |-> "none", gone |-> {}]

Press(dir) ==
  LET y == switcher_event(w, dir)
      goes_on == w.counter > 0 /\ ~w.fresh /\ w.way = dir
  IN w' = [y EXCEPT !.fresh = FALSE, !.way = dir,
                    !.again = goes_on /\ y.focus \in w.past,
                    !.past = IF goes_on /\ y.focus \notin @ THEN @ \cup {y.focus} ELSE {y.focus}]

\* The compositor focuses what it is asked to, and tells
Focuses ==
  /\ w.asked # <<>>
  /\ w' = LET y == [w EXCEPT !.asked = Tail(@)] IN
          IF Head(w.asked) \in Range(w.list) THEN wintree_set_focus(y, Head(w.asked)) ELSE y

Works == UNCHANGED presses /\ ((w.counter > 0 /\ w' = switcher_update(w)) \/ Focuses)

Acts ==
  /\ presses < MaxPresses /\ presses' = presses + 1
  /\ \/ \E dir \in {"forward", "back"} : Press(dir)
     \/ \E id \in Wins \ (Range(w.list) \cup w.gone) : w' = wintree_window_append(w, id)
     \/ \E id \in Range(w.list) : w' = [wintree_window_delete(w, id) EXCEPT !.gone = @ \cup {id}]
     \/ \E id \in {"none"} \cup Range(w.list) : id # w.wt_focus /\ w' = wintree_set_focus(w, id)

----------------------------------------------------------------------------
(* Properties *)

\* Every variable keeps its type; the items are those of the windows.
TypeOK ==
  /\ presses \in 0..MaxPresses
  /\ w.counter \in 0..Ticks /\ Range(w.list) \subseteq Wins /\ DOMAIN w.items = Range(w.list)
  /\ w.focus \in Wins \cup {"none"}

Choosable == {win \in Range(w.list) : filter_window_check(win)}

\* The window that is focused in the end is the one that was shown as chosen.
TakesShown ==
  Len(w'.asked) > Len(w.asked) /\ ~w'.stray =>
    /\ Last(w'.asked) \in {"none"} \cup Range(w'.list)
    /\ {i \in DOMAIN w.items : w.items[i]} = {Last(w'.asked)} \ {"none"}

\* Presses one way come to each window before they come to one again.
NoneSkipped == w'.again /\ ~w.again /\ Choosable # {} => w.past = Choosable
============================================================================
