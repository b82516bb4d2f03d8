------------------------------- MODULE Hiding -------------------------------
(* A bar that hides itself, and what holds it open: the pointer, drags, the  *)
(* pop-ups and menus opened from it (gui/bar.c, window.c, gui/popup.c,       *)
(* gui/menu.c).                                                              *)
(*                                                                           *)
(* A window keeps a list of what holds it; when the last one lets go its     *)
(* unref function runs: a bar starts to wait for hiding, a pop-up catches up *)
(* with a change of its size.  GTK's revealer, its grabs and its crossing    *)
(* events are external: a revealer that slides tells when it is done, one    *)
(* that does not, or is not on the screen, tells at once; a menu's or an     *)
(* autoclose pop-up's grab may swallow a crossing.  The sensor is set when   *)
(* the bar is configured and stays.                                          *)
EXTENDS Naturals, FiniteSetsExt

CONSTANTS
  Popups, Autoclose,   \* the pop-ups, and those that close with a click elsewhere
  MaxActs              \* bound on what the user does

VARIABLES h, acts

Windows == {"bar"} \cup Popups
Holders == Windows \cup {"menu", "item"}

RECURSIVE window_unref(_, _, _)
RECURSIVE set_reveal_child(_, _)

----------------------------------------------------------------------------
(* The bar *)

\* Nothing is started to hide a bar that was not shown by its sensor, nor while the
\* sensor is blocked: it stays (odd)
bar_sensor_unref_event(x) ==
  IF x.sensor /\ x.sensor_state /\ ~x.sensor_block
  THEN [x EXCEPT !.sensor_handle = IF @ = "none" THEN "live" ELSE @]
  ELSE [x EXCEPT !.odd = @ \/ (x.sensor /\ x.reveal)]

\* The window is unmapped: it does not hold itself any more
Unmap(x) == IF ~x.mapped THEN x ELSE window_unref([x EXCEPT !.mapped = FALSE], "bar", "bar")

bar_sensor_hide_complete(x) ==
  IF ~x.watch \/ x.reveal THEN x
  ELSE [x EXCEPT !.child = "sensor", !.sensor_state = FALSE, !.watch = FALSE]

\* child-revealed is notified: the handlers in the order in which they are connected
bar_revealer_notify(x) ==
  LET held == IF x.reveal THEN [x EXCEPT !.refs["bar"] = @ \cup {"bar"}] ELSE x
  IN bar_sensor_hide_complete(
       IF ~x.reveal /\ ~x.visible THEN Unmap(held)
       ELSE IF x.reveal /\ ~x.visible /\ ~x.visible_by_mod THEN set_reveal_child(held, FALSE)
       ELSE held)

\* GTK: does the revealer slide
Slides(x) == x.slide /\ x.mapped /\ x.child = "ebox"

set_reveal_child(x, on) ==
  IF x.reveal = on THEN x
  ELSE IF Slides(x) THEN [x EXCEPT !.reveal = on, !.moving = TRUE]
  ELSE bar_revealer_notify([x EXCEPT !.reveal = on])

bar_reveal(x) ==
  set_reveal_child([set_reveal_child(x, FALSE) EXCEPT !.mapped = TRUE, !.slide = x.transition], TRUE)

bar_sensor_show_bar(x) ==
  bar_reveal([x EXCEPT !.show_handle = FALSE, !.sensor_state = TRUE, !.sensor_block = TRUE,
                       !.idles = @ + 1, !.watch = FALSE, !.child = "ebox"])

\* The timer's callback: tried again while something holds the bar.  Where the bar was
\* hidden otherwise the timer ends and its handle is kept, as if it went on (odd)
bar_sensor_hide(x) ==
  IF x.child = "sensor" THEN [x EXCEPT !.sensor_handle = "stale", !.odd = TRUE]
  ELSE IF x.refs["bar"] # {} THEN x
  ELSE [set_reveal_child(x, FALSE) EXCEPT
          !.sensor_block = TRUE, !.idles = @ + 1, !.watch = TRUE, !.sensor_handle = "none"]

bar_sensor_unblock_cb(x) == [x EXCEPT !.sensor_block = FALSE, !.idles = @ - 1]

bar_enter_handle(x) ==
  IF ~x.sensor \/ x.sensor_block THEN x
  ELSE [x EXCEPT !.sensor_handle = "none", !.show_handle = TRUE]

bar_leave_handle(x) == window_unref([x EXCEPT !.show_handle = FALSE], "bar", "bar")

\* A drag from elsewhere comes over the bar's own ground or over one of its widgets
bar_drag_ref(x, part) ==
  [(IF x.drags = {} THEN bar_enter_handle(x) ELSE x) EXCEPT !.drags = @ \cup {part}]
bar_drag_unref(x, part) ==
  LET left == [x EXCEPT !.drags = @ \ {part}]
  IN IF left.drags = {} THEN [left EXCEPT !.leaves = @ + 1] ELSE left

bar_set_visibility(x, how) ==
  LET set == [x EXCEPT !.visible = CASE how = "t" -> ~@ [] how = "h" -> FALSE
                                     [] how \in {"x", "v"} -> @ [] OTHER -> TRUE,
                       !.visible_by_mod = (how = "v")]
      visible == set.visible \/ set.visible_by_mod
  IN IF ~visible /\ set.reveal THEN set_reveal_child(set, FALSE)
     ELSE IF visible /\ ~set.reveal THEN bar_reveal(set) ELSE set

\* A bar with a sensor is revealed when it is made, and hidden as the sensor is set
bar_set_sensor(x) ==
  LET set == window_unref([x EXCEPT !.sensor = TRUE], "bar", "bar")
  IN [bar_sensor_hide(set) EXCEPT !.sensor_block = FALSE]

----------------------------------------------------------------------------
(* Windows, pop-ups and the menu *)

Over(x) == x.inside \/ x.drags # {}

window_ref(x, w, ref) ==
  [x EXCEPT !.refs[w] = @ \cup {ref}, !.unmap[ref] = @ \cup {w}]

\* A widget is unmapped: what it has ever held is let go.  A pop-up is told so later
Hide(x, ref) ==
  IF ref \notin x.shown THEN x
  ELSE FoldSet(LAMBDA w, y : window_unref(y, ref, w),
               [x EXCEPT !.shown = @ \ {ref}, !.withdrawn = @ \cup ({ref} \cap Popups)], x.unmap[ref])

popup_popdown(x, p) ==
  IF x.refs[p] # {} THEN x
  ELSE LET window == x.from[p]
           let_go == window_unref(Hide(x, p), p, window)
       IN IF p \in Autoclose THEN window_unref(let_go, window, window) ELSE let_go

\* ... and again, as GDK has told it that it is withdrawn: what it was opened from does
\* not hold itself any more, though the pointer may have come to it since
popup_state_cb(x, p) ==
  popup_popdown([x EXCEPT !.withdrawn = @ \ {p},
                          !.odd = @ \/ (Over(x) /\ (p \in Autoclose \/ x.show_handle \/ x.moving))], p)

\* A pop-up that is shown is realized anew, and not told any more of what was before.
\* The other pop-ups are closed unless something holds them
popup_show(x, w, p) ==
  LET alone == FoldSet(LAMBDA o, y : popup_popdown(y, o), x, (x.shown \cap Popups) \ {p})
      held == window_ref(alone, w, p)
  IN [held EXCEPT !.shown = @ \cup {p}, !.withdrawn = @ \ {p}, !.from[p] = w]

\* Faulty variant of popup_trigger: the pop-up is shown without holding the window that
\* it is opened from.
popup_trigger_unheld(x, w, p) ==
  IF p \in x.shown THEN popup_popdown(x, p)
  ELSE [popup_show(x, w, p) EXCEPT !.refs[w] = @ \ {p}]

popup_trigger(x, w, p) == IF p \in x.shown THEN popup_popdown(x, p) ELSE popup_show(x, w, p)

\* A pop-up whose contents take another size is shown again, when nothing holds it
popup_resize_maybe(x, p) ==
  IF p \notin x.shown \cap x.resized \/ x.refs[p] # {} THEN x
  ELSE popup_show(Hide([x EXCEPT !.resized = @ \ {p}], p), x.from[p], p)

window_unref(x, ref, w) ==
  LET left == [x EXCEPT !.refs[w] = @ \ {ref}]
  IN IF left.refs[w] # {} THEN left
     ELSE IF w = "bar" THEN bar_sensor_unref_event(left) ELSE popup_resize_maybe(left, w)

menu_popup(x, w) == [window_ref(x, w, "menu") EXCEPT !.shown = @ \cup {"menu"}, !.from["menu"] = w]

\* Faulty variant of menu_unmap_cb: only the window's hold of itself is let go.
menu_unmap_cb_held(x) ==
  LET w == x.from["menu"] IN window_unref([x EXCEPT !.shown = @ \ {"menu"}], w, w)

\* The window does not hold itself any more either: the leave event may be missed
menu_unmap_cb(x) ==
  LET w == x.from["menu"] IN window_unref(window_unref(Hide(x, "menu"), "menu", w), w, w)

Leaves(x) == bar_leave_handle([x EXCEPT !.odd = @ \/ (x.moving /\ x.reveal)])

\* The window of an autoclose pop-up lets go of itself, wherever the pointer is, and a
\* bar that is still being shown does not hold itself yet as its pop-up closes
Own(x) == [x EXCEPT !.odd = @ \/ (Over(x) /\ (x.shown \cap Autoclose # {} \/ x.show_handle \/ x.moving))]

----------------------------------------------------------------------------
(* inside: is the pointer on the bar or on its sensor; odd: what the bar     *)
(* believes of the pointer is not so, see below                              *)

\* idles, leaves: idle callbacks to clear the block, to leave; watch: is
\* bar_sensor_hide_complete connected; unmap: whose windows a widget's unmap signal
\* lets go; withdrawn: the pop-ups that are to be told that they were hidden
New(transition) ==
  [sensor |-> FALSE, transition |-> transition, visible |-> TRUE, visible_by_mod |-> FALSE,
   mapped |-> TRUE, reveal |-> TRUE, slide |-> FALSE, moving |-> FALSE, child |-> "ebox",
   watch |-> FALSE, sensor_state |-> FALSE, sensor_block |-> FALSE, sensor_handle |-> "none",
   show_handle |-> FALSE, idles |-> 0, leaves |-> 0, drags |-> {},
   refs |-> [w \in Windows |-> IF w = "bar" THEN {"bar"} ELSE {}],
   unmap |-> [r \in Holders |-> {}], from |-> [r \in Popups \cup {"menu"} |-> "bar"],
   shown |-> {}, withdrawn |-> {}, resized |-> {}, inside |-> FALSE, odd |-> FALSE]

Init ==
  /\ acts = 0
  /\ h \in {New(FALSE)} \cup {bar_set_sensor(New(t)) : t \in BOOLEAN}

\* What is open on window w
Open(x, w) == {p \in x.shown : x.from[p] = w} \cup (x.refs[w] \cap {"item"})
Grabbed(x) == x.shown \cap (Autoclose \cup {"menu"}) # {}

Works ==
  /\ UNCHANGED acts
  /\ \/ h.show_handle /\ h' = bar_sensor_show_bar(h)
     \/ h.sensor_handle = "live" /\ h' = bar_sensor_hide(h)
     \/ h.idles > 0 /\ h' = bar_sensor_unblock_cb(h)
     \/ h.leaves > 0 /\ h' = Leaves([h EXCEPT !.leaves = @ - 1, !.odd = @ \/ Over(h)])
     \/ \E p \in h.withdrawn : h' = popup_state_cb(h, p)
     \/ h.moving /\ h' = bar_revealer_notify([h EXCEPT !.moving = FALSE])

\* The pointer comes and goes; odd: it is not known, or found out too late.  A crossing
\* while the sensor is blocked is not looked at; a pointer that leaves before the bar
\* is revealed leaves a bar that holds itself
Enters(x) == bar_enter_handle([x EXCEPT !.odd = x.sensor_block])
Told == IF Grabbed(h) THEN BOOLEAN ELSE {TRUE}

PointerEnters ==
  /\ ~h.inside /\ h.drags = {} /\ "item" \notin h.refs["bar"] /\ h.mapped
  /\ \E told \in Told :
       h' = IF told THEN Enters([h EXCEPT !.inside = TRUE])
            ELSE [h EXCEPT !.inside = TRUE, !.odd = TRUE]
PointerLeaves ==
  /\ h.inside
  /\ \E told \in Told :
       h' = IF told THEN Leaves([h EXCEPT !.inside = FALSE])
            ELSE [h EXCEPT !.inside = FALSE, !.odd = TRUE]

\* A drag over one part of the bar, from one to the other, and away
DragMoves(part) ==
  /\ ~h.inside /\ part \notin h.drags /\ h.mapped
  /\ part = "widget" => "item" \notin h.refs["bar"]
  /\ LET over == bar_drag_ref(IF h.drags = {} THEN [h EXCEPT !.odd = h.sensor_block] ELSE h, part)
     IN h' = FoldSet(LAMBDA o, x : bar_drag_unref(x, o), over, h.drags)
DragLeaves == \E part \in h.drags : h' = bar_drag_unref(h, part)

\* An item of the bar's is dragged: the pointer's focus goes with it
DragBegins ==
  /\ h.inside /\ h.reveal /\ ~Grabbed(h) /\ "item" \notin h.refs["bar"]
  /\ h' = Leaves(window_ref([h EXCEPT !.inside = FALSE], "bar", "item"))
DragEnds ==
  /\ "item" \in h.refs["bar"] /\ h.drags = {}
  /\ h' = window_unref(h, "item", "bar")

\* Is window w there to be clicked in
There(w) == IF w = "bar" THEN h.mapped /\ h.reveal ELSE w \in h.shown

PopupTriggered(w, p) == There(w) /\ "menu" \notin h.shown /\ h' = popup_trigger(Own(h), w, p)
PopupClicked(p) == p \in h.shown /\ "menu" \notin h.shown /\ h' = popup_popdown(Own(h), p)
PopupResized(p) == p \in h.shown \ h.resized /\ h' = popup_resize_maybe([Own(h) EXCEPT !.resized = @ \cup {p}], p)
MenuOpens(w) == There(w) /\ "menu" \notin h.shown /\ h' = menu_popup(h, w)
MenuCloses == "menu" \in h.shown /\ h' = menu_unmap_cb([h EXCEPT !.odd = @ \/ Over(h)])

\* A bar with a sensor that is shown without it stays until the pointer has been there
SetVisibility(how) == h' = bar_set_visibility([h EXCEPT !.odd = TRUE], how)

Acts ==
  /\ acts < MaxActs /\ acts' = acts + 1
  /\ \/ PointerEnters \/ PointerLeaves
     \/ \E part \in {"bar", "widget"} : DragMoves(part)
     \/ DragLeaves \/ DragBegins \/ DragEnds
     \/ \E w \in Windows, p \in Popups : PopupTriggered(w, p)
     \/ \E p \in Popups : PopupClicked(p) \/ PopupResized(p)
     \/ \E w \in Windows : MenuOpens(w)
     \/ MenuCloses
     \/ \E how \in {"t", "h", "s", "x", "v"} : SetVisibility(how)

----------------------------------------------------------------------------
(* Properties *)

\* Every variable keeps its type; no callback is left behind in numbers.
TypeOK ==
  /\ acts \in 0..MaxActs
  /\ h.refs \in [Windows -> SUBSET Holders] /\ h.unmap \in [Holders -> SUBSET Windows]
  /\ h.shown \subseteq Popups \cup {"menu"} /\ h.resized \cup h.withdrawn \subseteq Popups
  /\ h.sensor_handle \in {"none", "live", "stale"} /\ h.child \in {"ebox", "sensor"}
  /\ h.idles \in 0..MaxActs + 3 /\ h.leaves \in 0..MaxActs

\* What is open is held by where it was opened from, until it closes.
Held == \A r \in h.shown : r \in h.refs[h.from[r]]

\* A bar that is revealed goes on being so while something is open on it or
\* the pointer or a drag is over it, unless it is set to be hidden.
Needed(x) == Open(x, "bar") # {} \/ (Over(x) /\ ~x.odd /\ ~x.show_handle)
StaysOpen == h.reveal /\ ~h'.reveal => ~Needed(h') \/ ~h'.visible

\* The bar is left with nothing open on it, or entered, and stays so.
Away == ~h.odd /\ ~Over(h) /\ h.leaves = 0 /\ Open(h, "bar") = {}
Left == h.sensor /\ Away
StillLeft == Away /\ h.reveal
Entered == h.sensor /\ h.visible /\ Over(h) /\ ~h.odd
StillEntered == Over(h) /\ ~h.odd /\ ~(h.reveal /\ h.child = "ebox")

\* The bar is set to be hidden, or shown, and is not yet.
SetHidden == ~h.visible /\ ~h.visible_by_mod
StillSetHidden == SetHidden /\ h.reveal
SetShown == ~h.sensor /\ ~SetHidden
StillSetShown == ~SetHidden /\ ~h.reveal
============================================================================
