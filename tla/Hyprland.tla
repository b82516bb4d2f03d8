------------------------------ MODULE Hyprland ------------------------------
(***************************************************************************)
(* The Hyprland driver (src/src/ipc/hyprland.c): events come over one      *)
(* socket; the answers to requests, made over connections of their own     *)
(* while the bar waits, tell the compositor's present state, which may be  *)
(* ahead of the events.                                                    *)
(***************************************************************************)
EXTENDS Driver

Special == -99    \* the workspace of minimized windows

----------------------------------------------------------------------------
(* The events, from the compositor's *)

WhereId(k, w) == IF k.at[w] = Scratch THEN Special ELSE k.at[w]

Heard(k, m) ==
  CASE m.kind = "workspace" /\ m.change = "init"   -> <<[kind |-> "createworkspacev2", id |-> m.id, name |-> m.name]>>
    [] m.kind = "workspace" /\ m.change = "focus"  -> <<[kind |-> "workspacev2", id |-> m.id]>>
    [] m.kind = "workspace" /\ m.change = "empty"  -> <<[kind |-> "destroyworkspacev2", id |-> m.id]>>
    [] m.kind = "workspace" /\ m.change = "urgent" -> <<>>
    [] m.kind = "window" /\ m.change = "new"   -> <<[kind |-> "openwindow", win |-> m.win]>>
    [] m.kind = "window" /\ m.change = "close" -> <<[kind |-> "closewindow", win |-> m.win]>>
    [] m.kind = "window" /\ m.change = "move"  ->
         <<[kind |-> "movewindowv2", win |-> m.win, id |-> WhereId(k, m.win)]>>
    [] m.kind = "window" /\ m.change = "focus" -> <<[kind |-> "activewindowv2", win |-> m.win]>>
    [] m.kind = "window" /\ m.change = "fullscreen_mode" -> <<[kind |-> "fullscreen", on |-> m.full]>>
    [] m.kind = "window" /\ m.change = "urgent" ->
         IF m.urgent THEN <<[kind |-> "urgent", win |-> m.win]>> ELSE <<>>

HyprTold(r) == {FlattenSeq([j \in DOMAIN r[2] |-> Heard(r[1], r[2][j])])}

----------------------------------------------------------------------------
(* The handlers *)

\* hypr_ipc_handle_window, from the clients of compositor k.  A workspace that the
\* bar has not been told of yet is not taken.
HandleWindow(x, k, w) ==
  LET a == IF w \in Listed(x) THEN x
           ELSE IF k.kfocus = w THEN SetFocus(Append_(x, w), w) ELSE Append_(x, w)
  IN  IF k.at[w] = Scratch THEN SetBit(a, w, "minimized", TRUE)
      ELSE SetWorkspace(SetBit(a, w, "minimized", FALSE), w, k.at[w])

\* hypr_ipc_get_clients: all of them, or the one that is asked for
GetClients(x, k, W) == FoldLeft(LAMBDA y, w : HandleWindow(y, k, w), x, Ascending(W \cap Mapped(k)))

\* The workspace of a window takes or drops the urgent flag; what was waiting to be
\* published is
MarkWorkspace(x, w, on) ==
  IF x.wws[w] = Nil THEN x
  ELSE [x EXCEPT !.t = Commit([@ EXCEPT !.state[x.wws[w]] = WithBit(@, "urgent", on)], x.wws[w])]

\* hypr_ipc_handle_focus, hypr_ipc_handle_urgent
HandleFocus(x, w) ==
  IF w \notin Listed(x) THEN x
  ELSE MarkWorkspace(WinCommit(SetBit(SetFocus(x, w), w, "urgent", FALSE), w), w, FALSE)
HandleUrgent(x, w) ==
  IF w \notin Listed(x) THEN x
  ELSE MarkWorkspace(WinCommit(SetBit(x, w, "urgent", TRUE), w), w, TRUE)

\* hypr_ipc_track_workspace
TrackWorkspace(x, w, i) ==
  WinCommit(IF i < 0 THEN SetBit(x, w, "minimized", TRUE)
            ELSE SetWorkspace(SetBit(x, w, "minimized", FALSE), w, i), w)

\* hypr_ipc_workspace_new, hypr_ipc_pager_populate: nothing is published
MakeWorkspace(t, i, n) == LET u == New(t, i) IN SetName(u, FromId(u, i), n)
MakeKnownOnly(t, i, n) == IF FromId(t, i) = Nil THEN MakeWorkspace(t, i, n) ELSE t

\* Faulty variant: the window is looked for among those that are known
HyprHandleNoOpen(x, k, m) ==
  CASE m.kind = "openwindow" -> GetClients(x, k, {m.win} \cap Listed(x))
    [] m.kind = "closewindow" -> Delete(x, m.win)
    [] m.kind = "activewindowv2" -> HandleFocus(x, m.win)
    [] m.kind = "movewindowv2" -> TrackWorkspace(x, m.win, m.id)
    [] m.kind = "createworkspacev2" -> [x EXCEPT !.t = MakeWorkspace(@, m.id, m.name)]
    [] m.kind = "destroyworkspacev2" -> [x EXCEPT !.t = Unref(@, m.id)]
    [] m.kind = "workspacev2" -> [x EXCEPT !.t = ChangeFocus(@, m.id)]
    [] m.kind = "urgent" -> HandleUrgent(x, m.win)
    [] m.kind = "fullscreen" -> SetBit(x, x.wfocus, "maximized", m.on)

\* hypr_ipc_event.  A full screen is taken for that of the focused window
\* (hypr_ipc_set_maximized).
HyprHandle(x, k, m) ==
  CASE m.kind = "openwindow" -> GetClients(x, k, {m.win})
    [] m.kind = "closewindow" -> Delete(x, m.win)
    [] m.kind = "activewindowv2" -> HandleFocus(x, m.win)
    [] m.kind = "movewindowv2" -> TrackWorkspace(x, m.win, m.id)
    [] m.kind = "createworkspacev2" -> [x EXCEPT !.t = MakeWorkspace(@, m.id, m.name)]
    [] m.kind = "destroyworkspacev2" -> [x EXCEPT !.t = Unref(@, m.id)]
    [] m.kind = "workspacev2" -> [x EXCEPT !.t = ChangeFocus(@, m.id)]
    [] m.kind = "urgent" -> HandleUrgent(x, m.win)
    [] m.kind = "fullscreen" -> SetBit(x, x.wfocus, "maximized", m.on)

----------------------------------------------------------------------------
(* hypr_ipc_init *)

HyprInit == StartAs("hyprland", "numbers", "clients")

Clients ==
  /\ Starts("clients", "populate")
  /\ b' = GetClients(b, c, Wins)
  /\ UNCHANGED <<d, q>>

\* hypr_ipc_pager_populate, after the events have been connected to
PagerPopulate ==
  /\ Starts("populate", "config")
  /\ LET made == FoldLeft(LAMBDA t, i : MakeKnownOnly(t, i, c.name[i]), b.t, Ascending(Live(c)))
     IN  b' = [b EXCEPT !.t = ChangeFocus(made, c.focus)]
  /\ UNCHANGED <<d, q>>

HyprStarts == Clients \/ PagerPopulate

HyprReads ==
  /\ q # <<>>
  /\ Reads(HyprHandle(b, c, Head(q)), d, <<>>)

----------------------------------------------------------------------------
(* The bar's commands *)

\* hypr_ipc_minimize: the window is put on the workspace of the active window, to
\* come back to it
HyprMinimize(w) ==
  LET i == IF Disown \/ c.kfocus = Nil THEN Nil ELSE WhereId(c, c.kfocus)
  IN  {<<SetWorkspace(b, w, i), <<Command("scratch", w)>> >>}

\* hypr_ipc_unminimize: without a workspace to come back to, to the focused one
HyprUnminimize(w) ==
  LET s == IF b.wws[w] # Nil THEN b.wws[w] ELSE b.t.focus
  IN  {<<b, IF s = Nil THEN <<>> ELSE <<CommandTo("move", w, b.t.name[s])>> >>}

\* hypr_ipc_maximize, hypr_ipc_unmaximize: the compositor toggles its active window
HyprFullscreen(w) ==
  {<<SetFocus(SetFocus(b, w), b.wfocus), <<[op |-> "fullscreen"]>> >>}

\* hypr_ipc_focus
HyprFocus(w) ==
  LET back == IF "minimized" \in b.wstate[w] THEN HyprUnminimize(w) ELSE {<<b, <<>> >>}
  IN  {<<b, r[2] \o <<Command("focus", w)>> >> : r \in back}

\* hypr_ipc_close
HyprClose(w) == {<<b, <<Command("close", w)>> >>}

\* hypr_ipc_set_workspace, which asks for the present name
HyprSetWorkspace(s) ==
  {<<b, <<CommandTo("switch", Nil, IF b.t.id[s] \in Live(c) THEN c.name[b.t.id[s]]
                                   ELSE b.t.name[s])>> >>}
\* hypr_ipc_move_to, which the focus follows
HyprMoveTo(w, s) == {<<b, <<CommandTo("move", w, b.t.name[s]), Command("focus", w)>> >>}

\* A workspace that is gone and that the table still has: a minimized window
\* remembers it, or the event has not been read.  If it comes back under its number,
\* workspace_new may find the old one and not count it, so that it goes too early
\* (a client's answer, ahead of the events, already refers to it): the runs leave
\* this out.
Revives(n) ==
  /\ Number[n] \notin Live(c)
  /\ \/ FromId(b.t, Number[n]) # Nil
     \/ \E j \in DOMAIN q : q[j].kind = "destroyworkspacev2" /\ q[j].id = Number[n]

\* There is a window in a workspace unless it was there before the workspaces were known
HyprPlaces == \A w \in Mapped(c) : c.at[w] # Scratch =>
                b.wws[w] \in {FromId(b.t, c.at[w])} \cup (IF w \in DOMAIN InitAt THEN {Nil} ELSE {})

=============================================================================
