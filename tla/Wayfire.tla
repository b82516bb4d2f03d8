------------------------------ MODULE Wayfire ------------------------------
(***************************************************************************)
(* The Wayfire driver (src/src/ipc/wayfire.c): the workspaces are the      *)
(* cells of a grid, here one row, that are always there, and a window is   *)
(* where its geometry, told relative to the cell that is shown, puts it.   *)
(* A minimized window stays where it is.  Nothing that the driver does to  *)
(* a workspace is committed, so that no focus is recorded and every cell   *)
(* that has been shown keeps the focused flag; what the driver keeps right *)
(* is which cell is visible.                                               *)
(***************************************************************************)
EXTENDS Driver

----------------------------------------------------------------------------
(* The events *)

View_(k, w) == [win |-> w, rel |-> k.at[w] - k.focus, activated |-> w = k.kfocus,
                hid |-> w \in k.hidden, full |-> w \in k.full]
ViewEvent(kind, k, w) == [kind |-> kind, view |-> View_(k, w)]

\* The geometries of all windows change as the shown cell does
Geometries(k) == [j \in 1..Cardinality(Mapped(k)) |->
                    ViewEvent("view-geometry-changed", k, Ascending(Mapped(k))[j])]

WayfireHeard(k, m) ==
  CASE m.kind = "workspace" /\ m.change = "focus" -> {<<[kind |-> "wset-workspace-changed", x |-> m.id]>> \o Geometries(k),
                                                      Geometries(k) \o <<[kind |-> "wset-workspace-changed", x |-> m.id]>>}
    [] m.kind = "workspace" /\ m.change # "focus" -> {<<>>}
    [] m.kind = "window" /\ m.change = "new" -> {<<ViewEvent("view-mapped", k, m.win)>>}
    [] m.kind = "window" /\ m.change = "close" -> {<<[kind |-> "view-unmapped", view |-> [win |-> m.win]]>>}
    [] m.kind = "window" /\ m.change = "move" -> {<<ViewEvent("view-geometry-changed", k, m.win)>>}
    [] m.kind = "window" /\ m.change = "focus" -> {<<ViewEvent("view-focused", k, m.win)>>}
    [] m.kind = "window" /\ m.change = "hidden" -> {<<ViewEvent("view-minimized", k, m.win)>>}
    [] m.kind = "window" /\ m.change = "fullscreen_mode" -> {<<ViewEvent("view-fullscreen", k, m.win)>>}
    [] m.kind = "window" /\ m.change = "urgent" -> {<<>>}

\* One choice for each event
WayfireTold(r) ==
  {FlattenSeq(s) : s \in {s \in [DOMAIN r[2] -> UNION {WayfireHeard(r[1], r[2][j]) : j \in DOMAIN r[2]}] :
                            \A j \in DOMAIN r[2] : s[j] \in WayfireHeard(r[1], r[2][j])}}

----------------------------------------------------------------------------
(* The handlers, on the book x and the driver's data e *)

\* wayfire_ipc_window_workspace_track
Track(x, e, v) == SetWorkspace(x, v.win, v.rel + e.x)

\* wayfire_ipc_window_new
WindowNew(x, e, v) ==
  LET a == Append_(x, v.win)
      f == IF v.activated THEN SetFocus(a, v.win) ELSE a
  IN  Track(SetBit(SetBit(f, v.win, "minimized", v.hid), v.win, "maximized", v.full), e, v)

\* wayfire_ipc_workspace_set_visible
SetVisible(t, x) ==
  [t EXCEPT !.state = [s \in Slots |-> IF t.id[s] \in Ids
                                       THEN WithBit(@[s], "visible", t.id[s] = x) ELSE @[s]]]

\* wayfire_ipc_workspace_changed: every window is where it was, relative to the new cell
WorkspaceChanged(x, e, new) ==
  LET u == [x EXCEPT !.t = SetVisible(ChangeFocus(@, new), new)]
  IN  FoldLeft(LAMBDA y, w : SetWorkspace(y, w, e.at[w] + new), u, Ascending(Listed(x)))

\* wayfire_ipc_event
WayfireHandle(x, e, m) ==
  CASE m.kind = "view-mapped" -> WindowNew(x, e, m.view)
    [] m.kind = "view-unmapped" -> Delete(x, m.view.win)
    [] m.kind = "view-focused" -> SetFocus(x, m.view.win)
    [] m.kind = "view-geometry-changed" -> Track(x, e, m.view)
    [] m.kind = "view-minimized" -> SetBit(x, m.view.win, "minimized", m.view.hid)
    [] m.kind = "view-fullscreen" -> SetBit(x, m.view.win, "maximized", m.view.full)
    [] m.kind = "wset-workspace-changed" -> WorkspaceChanged(x, e, m.x)

\* What it keeps: the column that is shown, and each window's relative to it
WayfireData(e, m) ==
  CASE m.kind = "wset-workspace-changed" -> [e EXCEPT !.x = m.x]
    [] m.kind \in {"view-mapped", "view-geometry-changed"} -> [e EXCEPT !.at[m.view.win] = m.view.rel]
    [] OTHER -> e

WayfireReads ==
  /\ q # <<>>
  /\ Reads(WayfireHandle(b, d, Head(q)), WayfireData(d, Head(q)), <<>>)

----------------------------------------------------------------------------
(* wayfire_ipc_init *)

WayfireInit == StartAs("wayfire", "grid", "wsets")

\* wayfire_ipc_wset_new: the cells, row by row; the focused output is not known yet.
\* Their names are made by the driver, so that no pin has the name of one.
Wsets ==
  /\ Starts("wsets", "views")
  /\ LET cell(t, i) == LET u == New(t, i)
                           v == SetName(u, FromId(u, i), c.name[i])
                       IN  IF i = c.focus THEN SetVisible(v, i) ELSE v
     IN  b' = [b EXCEPT !.t = FoldLeft(cell, @, Ascending(Live(c)))]
  /\ d' = [d EXCEPT !.x = c.focus]
  /\ UNCHANGED q

\* wayfire_ipc_set_focused_output, then wayfire_ipc_window_new for each view; then
\* the events are asked for
Views_ ==
  /\ Starts("views", "config")
  /\ LET f == [b EXCEPT !.t = ChangeFocus(@, d.x)]
     IN  b' = FoldLeft(LAMBDA x, w : WindowNew(x, d, View_(c, w)), f, Ascending(Mapped(c)))
  /\ d' = [d EXCEPT !.at = [w \in Wins |-> IF w \in Mapped(c) THEN c.at[w] - c.focus ELSE 0]]
  /\ UNCHANGED q

WayfireStarts == Wsets \/ Views_

----------------------------------------------------------------------------
(* The bar's commands: wayfire_ipc_minimize and the others *)

WayfireMinimize(w)   == {<<b, <<Command("hide", w)>> >>}
WayfireUnminimize(w) == {<<b, <<Command("unhide", w)>> >>}
WayfireMaximize(w)   == {<<b, <<[op |-> "full", win |-> w, on |-> "maximized" \notin b.wstate[w]]>> >>}
WayfireFocus(w)      == {<<b, <<Command("focus", w)>> >>}
WayfireClose(w)      == {<<b, <<Command("close", w)>> >>}

\* wayfire_ipc_move_to: the geometry is made from the bar's column, and is where the
\* compositor puts the window relative to its own
WayfireMoveTo(w, s)  == {<<b, <<[op |-> "place", win |-> w, rel |-> b.t.id[s] - d.x]>> >>}
WayfireSetWorkspace(s) == {<<b, <<[op |-> "activate", id |-> b.t.id[s]]>> >>}

\* The cell that is shown is the one that is marked visible
VisibleMirrored == {s \in Members(b.t) : "visible" \in b.t.state[s]} = {FromId(b.t, c.focus)}

=============================================================================
