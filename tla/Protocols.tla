----------------------------- MODULE Protocols -----------------------------
(***************************************************************************)
(* The drivers of the Wayland protocols, which run when no compositor of   *)
(* the other drivers is found: ext-workspace (src/src/ipc/ext-workspace.c) *)
(* or cosmic-workspaces (cosmic-workspaces.c) for the workspaces, and      *)
(* wlr-foreign-toplevel-management (foreign-toplevel.c) for the windows,   *)
(* which have no workspace.  Changes of workspaces are published by the    *)
(* "done" event that ends them.  A pin can be clicked: its workspace is    *)
(* asked for, and gone to as it turns up under its name.                   *)
(***************************************************************************)
EXTENDS Driver

----------------------------------------------------------------------------
(* The events *)

WsState(k, i)  == [kind |-> "state", id |-> i, focused |-> i = k.focus, urgent |-> WsUrgent(k, i)]
TopState(k, w) == [kind |-> "toplevel_state", win |-> w, activated |-> w = k.kfocus,
                   hid |-> w \in k.hidden, full |-> w \in k.full]

\* A new workspace; its name may come before or after what it can do
NewWs(k, i, first) ==
  LET name == [kind |-> "name", id |-> i, name |-> k.name[i]]
      caps == [kind |-> "capabilities", id |-> i]
  IN  <<[kind |-> "workspace", id |-> i]>>
      \o (IF first = "name" THEN <<name, caps>> ELSE <<caps, name>>) \o <<WsState(k, i)>>

Each(S, f(_)) == FlattenSeq([n \in 1..Cardinality(S) |-> f(Ascending(S)[n])])

\* What is told when the compositor goes from j to k.  A workspace that goes is said to
\* have lost the focus first, in a batch of its own or in the one in which it goes.
\* (Nothing said of it comes to the same: its removal resets what was read since the
\* last "done".)
Telling(j, k, first, parting) ==
  LET new   == Live(k) \ Live(j)
      gone  == Live(j) \ Live(k)
      same(i) == (i = j.focus) = (i = k.focus) /\ WsUrgent(j, i) = WsUrgent(k, i)
      other == {i \in Live(j) : ~same(i)}
      batch(events) == IF events = <<>> THEN <<>> ELSE Append(events, [kind |-> "done"])
      opened == Mapped(k) \ Mapped(j)
      closed == Mapped(j) \ Mapped(k)
      like(w) == TopState(j, w) = TopState(k, w)
      turned == {w \in Mapped(j) \cap Mapped(k) : ~like(w)}
      changes == Each(new, LAMBDA i : NewWs(k, i, first)) \o Each(other, LAMBDA i : <<WsState(k, i)>>)
      removes == Each(gone, LAMBDA i : <<[kind |-> "removed", id |-> i]>>)
  IN  (IF parting = "apart" THEN batch(changes) \o batch(removes) ELSE batch(changes \o removes))
      \o Each(opened, LAMBDA w : <<[kind |-> "toplevel", win |-> w], [kind |-> "app_id", win |-> w],
                                   TopState(k, w)>>)
      \o Each(turned, LAMBDA w : <<TopState(k, w)>>)
      \o Each(closed, LAMBDA w : <<[kind |-> "closed", win |-> w]>>)

\* What may be told.  The order of a name only matters to a workspace that is asked
\* for when it is read, or that a freed wish may be read as: of the first ones, only
\* to those that are pinned.
ProtocolTold(j, k) ==
  LET new     == {k.name[i] : i \in Live(k) \ Live(j)}
      unasked == IF Live(j) = {} THEN Names \ Pinned ELSE {}
  IN  {Telling(j, k, first, parting) :
         first   \in {"name"} \cup (IF new \subseteq unasked THEN {} ELSE {"capabilities"}),
         parting \in {"apart"} \cup (IF Live(j) \subseteq Live(k) THEN {} ELSE {"together"})}

----------------------------------------------------------------------------
(* The handlers *)

\* workspace_mod_state as cosmic-workspaces calls it, with the mask for the value
ModStateMask(t, i, flag, on) ==
  LET s == FromId(t, i)
  IN  IF s = Nil \/ t.state[s] = (IF on THEN {flag} ELSE {}) THEN t
      ELSE [t EXCEPT !.state[s] = IF on THEN @ \cup {flag, "invalid"}
                                        ELSE (@ \ {flag}) \cup {"invalid"}]
Mod(t, i, flag, on) == IF who = "cosmic" THEN ModStateMask(t, i, flag, on) ELSE ModState(t, i, flag, on)

\* ew_workspace_handle_state, cw_workspace_handle_state; none is hidden
HandleState(t, m) ==
  Mod(Mod(Mod(t, m.id, "focused", m.focused), m.id, "urgent", m.urgent), m.id, "visible", TRUE)

\* The listeners of ext_workspace_handle_v1, and ew_workspace_manager_handle_done
TableHandle(t, m) ==
  CASE m.kind = "workspace" -> Mod(New(t, m.id), m.id, "visible", TRUE)
    [] m.kind = "name" -> SetName(t, FromId(t, m.id), m.name)
    [] m.kind = "capabilities" -> [t EXCEPT !.state[FromId(t, m.id)] = @ \cup {"invalid"}]
    [] m.kind = "state" -> HandleState(t, m)
    [] m.kind = "removed" -> Unref(t, m.id)
    [] m.kind = "done" -> FoldLeft(Commit, t, t.list)

\* toplevel_handle_state: nothing is published but the focus
ToplevelState(x, m) ==
  LET u == IF m.win \in Listed(x)
           THEN [x EXCEPT !.wstate[m.win] = (IF m.hid THEN {"minimized"} ELSE {})
                                            \cup (IF m.full THEN {"maximized"} ELSE {})]
           ELSE x
  IN  IF m.win \notin Listed(x) THEN x
      ELSE IF m.activated THEN SetFocus(u, m.win)
      ELSE IF x.wfocus = m.win THEN SetFocus(u, Nil) ELSE u

\* The listeners of zwlr_foreign_toplevel_handle_v1: the button comes with the app_id
ProtocolHandle(x, m) ==
  CASE m.kind \in {"workspace", "name", "capabilities", "state", "removed", "done"} ->
         [x EXCEPT !.t = TableHandle(@, m)]
    [] m.kind = "toplevel" -> [x EXCEPT !.wlist = Append(@, m.win), !.wstate[m.win] = {}, !.wws[m.win] = Nil]
    [] m.kind = "app_id" -> WinCommit(CallWinNew(x, m.win), m.win)
    [] m.kind = "toplevel_state" -> ToplevelState(x, m)
    [] m.kind = "closed" -> Delete(x, m.win)

\* ew_set_workspace: a workspace that cannot be activated is left
Activate(e, i, n) ==
  IF i = PinId THEN <<CommandTo("create", Nil, n)>>
  ELSE IF i \in e.able THEN <<[op |-> "activate", id |-> i]>> ELSE <<>>

\* g_list_find_custom: where name n is found among the wishes, 0 for nowhere.  A string
\* that was freed may read as the name that is looked for or as another.
Found(wishes, n) ==
  {j \in DOMAIN wishes : wishes[j] \in {n, Nil} /\ \A i \in 1..(j - 1) : wishes[i] # n}
  \cup (IF n \in Range(wishes) THEN {} ELSE {0})

\* ew_workspace_handle_name: one that was asked for is gone to.  Its wish is freed but
\* stays in the list: g_list_remove is given the node and not its data.
ProtocolReads ==
  /\ q # <<>>
  /\ LET m == Head(q) IN
       IF m.kind # "name"
       THEN Reads(ProtocolHandle(b, m),
                  IF m.kind = "capabilities" THEN [d EXCEPT !.able = @ \cup {m.id}] ELSE d, <<>>)
       ELSE \E j \in Found(d.wishes, m.name) :
              Reads(ProtocolHandle(b, m),
                    IF j = 0 THEN d ELSE [d EXCEPT !.wishes[j] = Nil],
                    IF j = 0 THEN <<>> ELSE Activate(d, m.id, m.name))

----------------------------------------------------------------------------
(* ew_init, cw_init, foreign_toplevel_init: the objects are announced when bound *)

ProtocolInit == StartAs("ext", "nodes", "bind") \/ StartAs("cosmic", "nodes", "bind")

NoWorld == [c EXCEPT !.name = [i \in Ids |-> NoName], !.at = [w \in Wins |-> Unmapped], !.kfocus = Nil]

ProtocolStarts ==
  /\ Starts("bind", "config")
  /\ q' \in ProtocolTold(NoWorld, c)
  /\ UNCHANGED <<b, d>>

----------------------------------------------------------------------------
(* The bar's commands *)

\* A click on a button of the pager, which may be a pin
ProtocolSetWorkspace(s) ==
  {<<b, Activate(d, b.t.id[s], b.t.name[s])>>}
ProtocolWishes(s) == IF b.t.id[s] = PinId THEN <<b.t.name[s]>> ELSE <<>>

ProtocolMinimize(w)   == {<<b, <<Command("hide", w)>> >>}
ProtocolUnminimize(w) == {<<b, <<Command("unhide", w)>> >>}
ProtocolMaximize(w)   == {<<b, <<[op |-> "full", win |-> w, on |-> "maximized" \notin b.wstate[w]]>> >>}
ProtocolFocus(w)      == {<<b, <<Command("unhide", w), Command("focus", w)>> >>}
ProtocolClose(w)      == {<<b, <<Command("close", w)>> >>}

=============================================================================
