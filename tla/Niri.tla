-------------------------------- MODULE Niri --------------------------------
(***************************************************************************)
(* The Niri driver (src/src/ipc/niri.c): one stream of events, the first   *)
(* of which tell the present state; all workspaces are told whenever one   *)
(* comes or goes.  Windows cannot be minimized, and pins are not shown     *)
(* (get_can_create) until a workspace takes them over.                     *)
(***************************************************************************)
EXTENDS Driver

----------------------------------------------------------------------------
(* The events *)

NiriWorkspaces(k) ==
  [kind |-> "WorkspacesChanged",
   list |-> [j \in 1..Cardinality(Live(k)) |->
               LET i == Ascending(Live(k))[j]
               IN  [id |-> i, name |-> k.name[i], focused |-> i = k.focus,
                    urgent |-> WsUrgent(k, i)]]]
NiriWindow(k, w) ==
  [kind |-> "WindowOpenedOrChanged", win |-> w, id |-> k.at[w], focused |-> w = k.kfocus,
   urgent |-> w \in k.urgent]
NiriAll(k) ==
  <<NiriWorkspaces(k)>>
  \o [j \in 1..Cardinality(Mapped(k)) |-> NiriWindow(k, Ascending(Mapped(k))[j])]

\* What is told when the compositor goes from j to k: the workspaces, the windows
\* that came or changed, the focus, the windows that went
NiriTold(j, k) ==
  LET came == {w \in Mapped(k) : j.at[w] # k.at[w]}
      gone == Mapped(j) \ Mapped(k)
  IN  (IF j.name # k.name THEN <<NiriWorkspaces(k)>>
       ELSE IF j.focus # k.focus THEN <<[kind |-> "WorkspaceActivated", id |-> k.focus]>>
       ELSE <<>>)
      \o [n \in 1..Cardinality(came) |-> NiriWindow(k, Ascending(came)[n])]
      \o (IF j.kfocus # k.kfocus THEN <<[kind |-> "WindowFocusChanged", win |-> k.kfocus]>>
          ELSE <<>>)
      \o [n \in 1..Cardinality(gone) |-> [kind |-> "WindowClosed", win |-> Ascending(gone)[n]]]

----------------------------------------------------------------------------
(* The handlers *)

\* Faulty variant: a workspace that is told again is counted again
NiriWorkspaceCounts(t, m) ==
  LET u == IF FromId(t, m.id) = Nil
           THEN LET v == New(t, m.id) IN SetName(v, FromId(v, m.id), m.name)
           ELSE Ref(t, m.id)
      f == IF m.focused THEN ChangeFocus(u, m.id) ELSE u
      v == ModState(ModState(f, m.id, "urgent", m.urgent), m.id, "visible", m.focused)
  IN  Commit(v, FromId(v, m.id))

\* niri_ipc_workspace_handle.  One that is known is "referenced" by its pointer,
\* which is no workspace's id: one that was there is still counted once, and a pin
\* that is taken over not at all.
NiriWorkspace(t, m) ==
  LET found == IF FromId(t, m.id) # Nil THEN FromId(t, m.id) ELSE FromName(t, m.name)
      u == IF found = Nil THEN LET v == New(t, m.id) IN SetName(v, FromId(v, m.id), m.name)
           ELSE [TakeOver(t, found, m.id) EXCEPT
                  !.uncounted = IF FromId(t, m.id) = Nil THEN @ \cup {found} ELSE @]
      f == IF m.focused THEN ChangeFocus(u, m.id) ELSE u
      v == ModState(ModState(f, m.id, "urgent", m.urgent), m.id, "visible", m.focused)
  IN  Commit(v, FromId(v, m.id))

\* niri_ipc_workspaces_changed_handle: the ids that are no longer told are dropped
NiriList(known, told) == SelectSeq(known, LAMBDA i : i \in told)
                         \o Ascending(told \ Range(known))
NiriTable(t, known, list) ==
  LET told == {list[j].id : j \in DOMAIN list}
  IN  FoldLeft(Unref, FoldLeft(NiriWorkspace, t, list), SelectSeq(known, LAMBDA i : i \notin told))

\* niri_ipc_workspace_activated
NiriActivated(t, i) ==
  IF FromId(t, i) = Nil THEN t ELSE LET u == ChangeFocus(t, i) IN Commit(u, FromId(u, i))

\* niri_ipc_window_handle: appended, which makes no second entry, given an app_id
\* and a float state, which are published
NiriWindowHandle(x, m) ==
  LET a == WinCommit(IF m.win \in Listed(x) THEN CallWinNew(x, m.win) ELSE Append_(x, m.win), m.win)
      p == SetWorkspace(SetBit(a, m.win, "urgent", m.urgent), m.win, m.id)
  IN  IF m.focused THEN SetFocus(p, m.win) ELSE p

\* niri_ipc_event
NiriHandle(x, m) ==
  CASE m.kind = "WorkspacesChanged" -> [x EXCEPT !.t = NiriTable(@, d.list, m.list)]
    [] m.kind = "WorkspaceActivated" -> [x EXCEPT !.t = NiriActivated(@, m.id)]
    [] m.kind = "WindowOpenedOrChanged" -> NiriWindowHandle(x, m)
    [] m.kind = "WindowFocusChanged" -> SetFocus(x, m.win)
    [] m.kind = "WindowClosed" -> Delete(x, m.win)

NiriReads ==
  /\ q # <<>>
  /\ LET m == Head(q)
         ids == {m.list[j].id : j \in DOMAIN m.list}
     IN  Reads(NiriHandle(b, m),
               IF m.kind = "WorkspacesChanged" THEN [d EXCEPT !.list = NiriList(@, ids)] ELSE d,
               <<>>)

----------------------------------------------------------------------------
(* niri_ipc_init: the stream starts with all there is *)

NiriInit == StartAs("niri", "nodes", "stream")

NiriStarts ==
  /\ Starts("stream", "config")
  /\ q' = NiriAll(c)
  /\ UNCHANGED <<b, d>>

----------------------------------------------------------------------------
(* The bar's commands *)

\* niri_ipc_maximize: the driver is not told that a window is maximized, so that it
\* never asks for the way back (niri_ipc_unmaximize)
NiriMaximize(w) == {<<b, IF "maximized" \in b.wstate[w] THEN <<>> ELSE <<Command("toggle", w)>> >>}
NiriClose(w) == {<<b, <<Command("close", w)>> >>}

NiriSetWorkspace(s) == {<<b, <<[op |-> "activate", id |-> b.t.id[s]]>> >>}
NiriFocus(w) == {<<b, <<Command("focus", w)>> >>}
NiriMoveTo(w, s) == {<<b, <<[op |-> "send", win |-> w, id |-> b.t.id[s]]>> >>}

=============================================================================
