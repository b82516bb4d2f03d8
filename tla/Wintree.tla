------------------------------ MODULE Wintree ------------------------------
(***************************************************************************)
(* The window list of the bar (src/src/wintree.c) and the taskbar that     *)
(* mirrors it (src/src/gui/taskbarshell.c, taskbaritem.c), on top of the   *)
(* workspace table.  As in Workspace, every function is an operator from   *)
(* the state before the call to the state after it.  The state is a        *)
(* record, the "book" of the bar:                                          *)
(*                                                                         *)
(*   t        the workspace table                                          *)
(*   wlist    wt_list, turned to the last focused window                  *)
(*   wfocus   wt_focus: a window id, which need not be in the list         *)
(*   wws      the workspace pointer of each window_t                       *)
(*   wstate   the state bits of each window_t                              *)
(*   buttons  the windows the taskbar has a button for                     *)
(*   wdirty   the windows whose buttons are marked invalid                 *)
(*   wdrawn   what each button shows                                       *)
(*                                                                         *)
(* Titles, application ids, outputs and window pins are left out.          *)
(***************************************************************************)
EXTENDS Workspace

CONSTANT Wins    \* window ids given by the compositor, never reused

WinFlags == {"minimized", "maximized", "urgent"}
WinViews == [state : SUBSET WinFlags, focused : BOOLEAN]

Book ==
  [t : Table, wlist : Seq(Wins), wfocus : Wins \cup {Nil},
   wws : [Wins -> Slots \cup {Nil}], wstate : [Wins -> SUBSET WinFlags],
   buttons : SUBSET Wins, wdirty : SUBSET Wins, wdrawn : [Wins -> WinViews]]

NoView == [state |-> {}, focused |-> FALSE]

EmptyBook ==
  [t |-> EmptyTable, wlist |-> <<>>, wfocus |-> Nil, wws |-> [w \in Wins |-> Nil],
   wstate |-> [w \in Wins |-> {}], buttons |-> {}, wdirty |-> {},
   wdrawn |-> [w \in Wins |-> NoView]]

Listed(b) == Range(b.wlist)

----------------------------------------------------------------------------
(* The taskbar *)

\* What taskbar_item_update shows of window w
WinView(b, w) == [state |-> b.wstate[w], focused |-> b.wfocus = w]

\* flow_grid_update of the taskbar and of the pagers: a published workspace
\* has marked every window's button as well
RedrawAll(b) ==
  LET due == (IF b.t.told THEN Listed(b) ELSE b.wdirty) \cap b.buttons
  IN  [b EXCEPT !.t = Redraw(@), !.wdirty = {},
                !.wdrawn = [w \in Wins |-> IF w \in due THEN WinView(b, w) ELSE @[w]]]

\* window_new, window_destroy and window_invalidate callbacks
CallWinNew(b, w) == [b EXCEPT !.buttons = @ \cup {w}, !.wdirty = @ \cup {w}]
CallWinDestroy(b, w) == [b EXCEPT !.buttons = @ \ {w}, !.wdirty = @ \ {w},
                                  !.wdrawn[w] = NoView]
WinCommit(b, w) == IF w \in Listed(b) THEN [b EXCEPT !.wdirty = @ \cup {w}] ELSE b

----------------------------------------------------------------------------
(* wintree.c *)

\* The list from w on, and then what was before it
FromFirst(l, w) ==
  LET i == SelectInSeq(l, LAMBDA v : v = w) IN SubSeq(l, i, Len(l)) \o SubSeq(l, 1, i - 1)

\* Faulty variant of SetFocus: the old focus is not published
SetFocusSilent(b, w) ==
  IF b.wfocus = w THEN b
  ELSE LET c == [b EXCEPT !.wfocus = w]
       IN  IF w \notin Listed(b) THEN c
           ELSE WinCommit([c EXCEPT !.wlist = FromFirst(@, w)], w)

\* Faulty variant of SetFocus: the focus is recorded among the state bits
SetFocusMarks(b, w) ==
  IF b.wfocus = w THEN b
  ELSE LET c == [WinCommit(b, b.wfocus) EXCEPT !.wfocus = w]
       IN  IF w \notin Listed(b) THEN c
           ELSE [c EXCEPT !.wlist = FromFirst(@, w), !.wstate[w] = @ \cup {"focused"}]

\* wintree_set_focus: the list is turned until the focused window is first
SetFocus(b, w) ==
  IF b.wfocus = w THEN b
  ELSE LET c == [WinCommit(b, b.wfocus) EXCEPT !.wfocus = w]
       IN  IF w \notin Listed(b) THEN c
           ELSE WinCommit([c EXCEPT !.wlist = FromFirst(@, w)], w)

\* wintree_window_append, then wintree_set_app_id, which creates the button
Append_(b, w) == CallWinNew([b EXCEPT !.wlist = Append(@, w), !.wstate[w] = {},
                                      !.wws[w] = Nil], w)

\* wintree_set_workspace.  The old workspace is unreferenced by its present id.
SetWorkspace(b, w, i) ==
  LET s == FromId(b.t, i)
      d == CallWinDestroy(b, w)
      u == IF b.wws[w] = Nil THEN d ELSE [d EXCEPT !.t = Release(@, b.wws[w])]
  IN  IF w \notin Listed(b) \/ s = Nil \/ b.wws[w] = s THEN b
      ELSE CallWinNew([u EXCEPT !.t = Ref(@, i), !.wws[w] = s], w)

\* wintree_window_delete; wt_focus keeps the id of the closed window
Delete(b, w) ==
  LET d == CallWinDestroy([b EXCEPT !.wlist = RemoveFirst(@, w)], w)
      u == IF b.wws[w] = Nil THEN d ELSE [d EXCEPT !.t = Release(@, b.wws[w])]
  IN  IF w \notin Listed(b) THEN b
      ELSE [u EXCEPT !.wws[w] = Nil, !.wstate[w] = {}]

=============================================================================
