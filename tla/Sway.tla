-------------------------------- MODULE Sway --------------------------------
(***************************************************************************)
(* The Sway driver (src/src/ipc/sway.c), over one i3-ipc connection.       *)
(*                                                                         *)
(* The compositor sends an event for each change, in order, and answers    *)
(* each GET_TREE request with the tree as it is when it reads the request. *)
(* Answers and events share the connection, so that the bar reads one FIFO *)
(* stream (q) and writes another one (out): tree requests and commands.    *)
(* The windows of a tree are visited in the order of their ids.            *)
(***************************************************************************)
EXTENDS Driver

GetTree == [op |-> "tree"]

----------------------------------------------------------------------------
(* The handlers, as operators on the bar's state *)

\* sway_ipc_workspace_new: a workspace that has the name already, a pin, is
\* taken over.  The reference is taken on its old id, before it gets the new one: the first
\* pin of the list has that id as well.
WorkspaceNew(t, m, visible) ==
  LET found == IF FromId(t, m.id) # Nil THEN FromId(t, m.id) ELSE FromName(t, m.name)
      made  == New(t, m.id)
      ws    == IF found # Nil THEN found ELSE FromId(made, m.id)
      u == IF found = Nil THEN SetName(made, ws, m.name)
           ELSE LET r == FromId(t, t.id[found])
                IN  [TakeOver(Ref(t, t.id[found]), found, m.id) EXCEPT
                       !.uncounted = IF r = found THEN @ ELSE @ \cup {r, found}]
      f == IF m.focused THEN ChangeFocus(u, m.id) ELSE u
      v == ModState(ModState(f, m.id, "urgent", m.urgent), m.id, "visible", visible)
  IN  Commit(v, ws)

\* Faulty variant: the change is made but not committed
WorkspaceEventNoCommit(t, m) ==
  CASE m.change = "empty"  -> Unref(t, m.id)
    [] m.change = "init"   -> WorkspaceNew(t, m, FALSE)
    [] m.change = "focus"  -> ChangeFocus(t, m.id)
    [] m.change = "urgent" -> ModState(t, m.id, "urgent", m.urgent)

\* sway_ipc_workspace_event
WorkspaceEvent(t, m) ==
  LET u == CASE m.change = "empty"  -> Unref(t, m.id)
             [] m.change = "init"   -> WorkspaceNew(t, m, FALSE)
             [] m.change = "focus"  -> ChangeFocus(t, m.id)
             [] m.change = "urgent" -> ModState(t, m.id, "urgent", m.urgent)
  IN  Commit(u, FromId(u, m.id))

\* Where sway_window_handle puts window w
Place(x, w, parent) == IF parent = ScratchName THEN x
                       ELSE SetWorkspace(x, w, IdFromName(x.t, parent))

\* The state bits of window w in a tree
TreeBits(bits, w, m) ==
  WithBit(WithBit(WithBit(bits, "maximized", w \in m.full), "urgent", w \in m.urgent),
          "minimized", m.parent[w] = ScratchName)

\* sway_window_handle
WindowHandle(x, w, m) ==
  LET a == IF w \in Listed(x) THEN x ELSE Place(Append_(x, w), w, m.parent[w])
      f == IF m.focused = w THEN SetFocus(a, w) ELSE a
      g == Place([f EXCEPT !.wstate[w] = TreeBits(@, w, m)], w, m.parent[w])
  IN  IF TreeBits(a.wstate[w], w, m) # a.wstate[w] THEN WinCommit(g, w) ELSE g

\* sway_traverse_tree
TraverseTree(x, m) ==
  FoldLeft(LAMBDA y, w : WindowHandle(y, w, m), x, Ascending(DOMAIN m.parent))

\* sway_ipc_window_event.  The new bits of a window are not committed.
WindowEvent(x, m) ==
  CASE m.change = "close" -> Delete(x, m.win)
    [] m.change = "focus" -> SetFocus(x, m.win)
    [] m.change = "fullscreen_mode" -> SetBit(x, m.win, "maximized", m.full)
    [] m.change = "urgent" -> SetBit(x, m.win, "urgent", m.urgent)
    [] OTHER -> x

\* Faulty variant: an answer is taken for an event that asks for the tree
AsksTreeAgain(m) == m.kind = "tree" \/ m.change \in {"new", "focus", "move"}

\* The events after which the driver asks for the tree
AsksTree(m) == m.kind = "window" /\ m.change \in {"new", "focus", "move"}

----------------------------------------------------------------------------
(* sway_ipc_init *)

SwayInit == StartAs("sway", "nodes", "workspaces")

\* sway_ipc_workspace_populate: the workspaces as they are now
Populate ==
  /\ Starts("workspaces", "tree")
  /\ b' = [b EXCEPT !.t = FoldLeft(LAMBDA t, i : WorkspaceNew(t, WsEvent("init", c, i), c.focus = i),
                                   @, Ascending(Live(c)))]
  /\ UNCHANGED <<d, q>>

\* The tree as it is now; then the events are subscribed to
FirstTree ==
  /\ Starts("tree", "config")
  /\ b' = TraverseTree(b, Tree(c))
  /\ UNCHANGED <<d, q>>

SwayStarts == Populate \/ FirstTree

\* sway_ipc_event
Handle ==
  /\ q # <<>>
  /\ LET m == Head(q) IN
     Reads(CASE m.kind = "workspace" -> [b EXCEPT !.t = WorkspaceEvent(@, m)]
             [] m.kind = "window" -> WindowEvent(b, m)
             [] m.kind = "tree" -> TraverseTree(b, m),
           d, IF AsksTree(m) THEN <<GetTree>> ELSE <<>>)

----------------------------------------------------------------------------
(* The bar's commands, as pairs of the bar's state and what is sent *)

\* sway_ipc_minimize
Minimize(w) ==
  {<<IF Disown THEN SetWorkspace(b, w, Nil) ELSE b, <<Command("scratch", w)>> >>}

\* Where the bar remembers window w to be, if it does
Remembered(w) ==
  IF b.wws[w] = Nil THEN <<>> ELSE <<CommandTo("move", w, b.t.name[b.wws[w]])>>

\* sway_ipc_unminimize: back to the workspace the bar remembers
Unminimize(w) ==
  {<<b, IF b.wws[w] # Nil THEN Remembered(w) ELSE <<Command("focus", w)>> >>}

\* sway_ipc_focus: a window that floats is moved first
Focus(w) == {<<b, first \o <<Command("focus", w)>> >> : first \in {<<>>, Remembered(w)}}

\* sway_ipc_close
Close(w) == {<<b, <<Command("close", w)>> >>}

\* sway_ipc_set_workspace, sway_ipc_move_to
SetWorkspaceOf(s) == {<<b, <<CommandTo("switch", Nil, b.t.name[s])>> >>}
MoveTo(w, s) == {<<b, <<CommandTo("move", w, b.t.name[s])>> >>}

=============================================================================
