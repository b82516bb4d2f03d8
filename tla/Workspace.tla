----------------------------- MODULE Workspace -----------------------------
(***************************************************************************)
(* The workspace table of the bar (src/src/workspace.c) and the pagers     *)
(* that mirror it (src/src/gui/pager.c, pageritem.c).                      *)
(*                                                                         *)
(* Every function of workspace.c is an operator from the table before the  *)
(* call to the table after it, so that a compositor driver's handler is    *)
(* the composition of the calls it makes.  A table is a record:            *)
(*                                                                         *)
(*   list    the GList of workspaces: a sequence of heap slots             *)
(*   id, name, state, refs   the fields of the workspace_t in each slot    *)
(*   focus   the slot of the focused workspace, or Nil                     *)
(*   pins    global_pins                                                   *)
(*   ppins   for each pager, the names it pins                             *)
(*   items   for each pager, the slots it holds a button for               *)
(*   dirty   slots whose buttons are marked invalid                        *)
(*   told    has a workspace_invalidate callback been made since then      *)
(*   drawn   for each pager and slot, what the button shows                *)
(*   create  workspace_get_can_create, which is the driver's                *)
(*                                                                         *)
(* Three fields are no state of the program but its history, for the       *)
(* properties to name what has gone wrong by then:                         *)
(*                                                                         *)
(*   lost       for each pager, the slots whose button it dropped as they  *)
(*              turned back into pins                                      *)
(*   undrawn    slots that turned into a pin, or from one into a           *)
(*              workspace, and were not drawn since                        *)
(*   uncounted  slots that a reference was meant for that they did not     *)
(*              get, or that got one meant for another                     *)
(*                                                                         *)
(* A slot is the address of a workspace_t: it keeps its identity when the  *)
(* workspace's id or name changes, and is reused after it is freed.  The   *)
(* pagers are called back synchronously, in the middle of each operation;  *)
(* their buttons are drawn by a timer that may run between two handlers.   *)
(***************************************************************************)
EXTENDS Integers, Sequences, FiniteSets, SequencesExt

CONSTANTS
  Slots,      \* addresses of workspace_t objects, an interval 1..n
  Nil,        \* the NULL pointer
  Ids,        \* workspace ids given by the compositor
  PinId,      \* PAGER_PIN_ID, the id of a pin without a workspace
  Names,      \* workspace names
  NoName,     \* the name of a workspace_t that has none yet
  Pagers      \* the pager widgets

ASSUME SlotsAssumption == Slots \subseteq Nat /\ Nil \notin Slots
ASSUME IdsAssumption == PinId \notin Ids
ASSUME NamesAssumption == NoName \notin Names

Flags == {"focused", "visible", "urgent", "invalid"}
Views == [name : Names \cup {NoName}, state : SUBSET Flags, active : BOOLEAN]

Table ==
  [list : Seq(Slots), id : [Slots -> Ids \cup {PinId}],
   name : [Slots -> Names \cup {NoName}], state : [Slots -> SUBSET Flags],
   refs : [Slots -> Int], focus : Slots \cup {Nil}, pins : SUBSET Names,
   ppins : [Pagers -> SUBSET Names], items : [Pagers -> SUBSET Slots],
   dirty : SUBSET Slots, told : BOOLEAN, drawn : [Pagers -> [Slots -> Views]],
   create : BOOLEAN, lost : [Pagers -> SUBSET Slots], undrawn : SUBSET Slots,
   uncounted : SUBSET Slots]

Blank == [name |-> NoName, state |-> {}, active |-> FALSE]

EmptyTable ==
  [list |-> <<>>, id |-> [s \in Slots |-> PinId], name |-> [s \in Slots |-> NoName],
   state |-> [s \in Slots |-> {}], refs |-> [s \in Slots |-> 0], focus |-> Nil,
   pins |-> {}, ppins |-> [g \in Pagers |-> {}], items |-> [g \in Pagers |-> {}],
   dirty |-> {}, told |-> FALSE, drawn |-> [g \in Pagers |-> [s \in Slots |-> Blank]],
   create |-> TRUE, lost |-> [g \in Pagers |-> {}], undrawn |-> {}, uncounted |-> {}]

----------------------------------------------------------------------------
(* The list and the heap *)

Members(t) == Range(t.list)

\* The first workspace of the list whose slot is in S
FirstOf(t, S) == LET k == SelectInSeq(t.list, LAMBDA s : s \in S)
                 IN  IF k = 0 THEN Nil ELSE t.list[k]

FromId(t, i)   == FirstOf(t, {s \in Slots : t.id[s] = i})
FromName(t, n) == FirstOf(t, {s \in Slots : t.name[s] = n})

\* workspace_id_from_name; NULL is no workspace's id
IdFromName(t, n) == LET s == FromName(t, n) IN IF s = Nil THEN Nil ELSE t.id[s]

\* g_malloc0: the lowest address that is not in use
Fresh(t) == Min(Slots \ Members(t))

\* Fill a fresh slot
Entry(t, s, i, n) ==
  [t EXCEPT !.id[s] = i, !.name[s] = n, !.state[s] = {}, !.refs[s] = 0]

----------------------------------------------------------------------------
(* The pagers *)

\* What pager_item_update shows of slot s in pager g.  A pin is active only in
\* the pagers that pin it, and where the driver can create its workspace.
View(t, g, s) == [name |-> t.name[s], state |-> t.state[s] \ {"invalid"},
                  active |-> t.id[s] # PinId \/ (t.create /\ t.name[s] \in t.ppins[g])]

\* flow_grid_update, on its timer: the buttons marked invalid are drawn again
Redraw(t) ==
  [t EXCEPT !.dirty = {}, !.told = FALSE, !.undrawn = @ \ t.dirty,
            !.drawn = [g \in Pagers |-> [s \in Slots |->
                         IF s \in t.dirty \cap t.items[g] THEN View(t, g, s)
                         ELSE @[g][s]]]]

\* workspace_new: every pager adds a button (pager_item_new)
CallNew(t, s) == [t EXCEPT !.items = [g \in Pagers |-> @[g] \cup {s}],
                           !.dirty = @ \cup {s}]

\* workspace_invalidate: every pager marks its button (pager_invalidate_item)
\* and the taskbar all of its own (taskbar_shell_ws_invalidate)
CallInvalidate(t, s) == [t EXCEPT !.dirty = @ \cup {s}, !.told = TRUE]

\* workspace_destroy: a pager drops its button unless it pins that name
\* (pager_destroy_item)
CallDestroy(t, s) ==
  LET items == [g \in Pagers |-> IF t.name[s] \in t.ppins[g] THEN t.items[g]
                                 ELSE t.items[g] \ {s}]
  IN  [t EXCEPT !.items = items,
                !.drawn = [g \in Pagers |->
                   IF s \in items[g] THEN @[g] ELSE [@[g] EXCEPT ![s] = Blank]]]

----------------------------------------------------------------------------
(* workspace.c *)

\* workspace_ref
Ref(t, i) == LET s == FromId(t, i)
             IN  IF s = Nil THEN t ELSE [t EXCEPT !.refs[s] = @ + 1]

\* g_free: the slot's fields are nobody's any more
Free(t, s) == [t EXCEPT !.list = RemoveFirst(@, s), !.dirty = @ \ {s}, !.id[s] = PinId,
                        !.name[s] = NoName, !.state[s] = {}, !.refs[s] = 0,
                        !.lost = [g \in Pagers |-> @[g] \ {s}], !.undrawn = @ \ {s},
                        !.uncounted = @ \ {s}]

\* The workspace in s turns back into a pin: the pagers that do not pin its name drop
\* their buttons, and those of the others are not drawn again
TurnBack(t, s) ==
  LET u == CallDestroy([t EXCEPT !.id[s] = PinId, !.state[s] = {}], s)
  IN  [u EXCEPT !.lost = [g \in Pagers |-> @[g] \cup (t.items[g] \ u.items[g])],
                !.undrawn = @ \cup {s}]

\* Faulty variant of Unref: a pinned workspace is freed like any other
UnrefForgetsPin(t, i) ==
  LET s == FromId(t, i)
      d == [t EXCEPT !.refs[s] = @ - 1]
      e == [d EXCEPT !.focus = IF @ = s THEN Nil ELSE @]
  IN  IF s = Nil THEN t
      ELSE IF d.refs[s] # 0 THEN d
      ELSE Free(CallDestroy(e, s), s)

\* workspace_unref: the last reference frees the workspace, or turns it back
\* into a pin if its name is pinned
Unref(t, i) ==
  LET s == FromId(t, i)
      d == [t EXCEPT !.refs[s] = @ - 1]
      e == [d EXCEPT !.focus = IF @ = s THEN Nil ELSE @]
  IN  IF s = Nil THEN t
      ELSE IF d.refs[s] # 0 THEN d
      ELSE IF t.name[s] \in t.pins
           THEN TurnBack(e, s)
           ELSE Free(CallDestroy(e, s), s)

\* The reference on the workspace in s is given up by its present id, which is that
\* of the first pin if it has become one
Release(t, s) ==
  LET r == FromId(t, t.id[s])
      u == Unref(t, t.id[s])
  IN  IF r = s THEN u ELSE [u EXCEPT !.uncounted = @ \cup {r, s}]

\* The pin in s is taken over for workspace i
TakeOver(t, s, i) ==
  [t EXCEPT !.id[s] = i, !.undrawn = IF t.id[s] = PinId THEN @ \cup {s} ELSE @]

\* workspace_pin_remove: the name is cleared first, so that no pager keeps it
PinRemove(t, n) ==
  LET s == FirstOf(t, {r \in Slots : t.name[r] = n /\ t.id[r] = PinId})
  IN  IF s = Nil THEN t
      ELSE Free(CallDestroy([t EXCEPT !.name[s] = NoName], s), s)

\* workspace_pin_restore: prepend a pin unless a workspace has that name
PinRestore(t, n) ==
  IF FromName(t, n) # Nil \/ n \notin t.pins THEN t
  ELSE LET s == Fresh(t)
       IN  CallNew([Entry(t, s, PinId, n) EXCEPT !.list = <<s>> \o @], s)

\* workspace_pin_add
PinAdd(t, n) == IF n \in t.pins THEN t
                ELSE PinRestore([t EXCEPT !.pins = @ \cup {n}], n)

\* pager_add_pins, for one name of its list
PagerAddPin(t, g, n) == IF n \in t.ppins[g] THEN t
                        ELSE PinAdd([t EXCEPT !.ppins[g] = @ \cup {n}], n)

\* workspace_commit: only a workspace marked invalid is published
Commit(t, s) ==
  IF s = Nil \/ "invalid" \notin t.state[s] THEN t
  ELSE CallInvalidate([t EXCEPT !.state[s] = @ \ {"invalid"},
                                !.focus = IF "focused" \in t.state[s] THEN s ELSE @], s)

\* workspace_mod_state.  The test (state & WS_STATE_ALL) == on compares the
\* bits with 0 or 1, and WS_STATE_FOCUSED is 1: a clean workspace that has the
\* focus and nothing else does not take another flag.
ModState(t, i, flag, on) ==
  LET s == FromId(t, i)
  IN  IF s = Nil \/ t.state[s] = (IF on THEN {"focused"} ELSE {}) THEN t
      ELSE [t EXCEPT !.state[s] = IF on THEN @ \cup {flag, "invalid"}
                                        ELSE (@ \ {flag}) \cup {"invalid"}]

\* workspace_change_focus: the old focus is published, the new one only marked
ChangeFocus(t, i) ==
  IF t.focus # Nil /\ t.id[t.focus] = i THEN t
  ELSE LET u == IF t.focus = Nil THEN t
                ELSE Commit(ModState(t, t.id[t.focus], "focused", FALSE), t.focus)
       IN  ModState(u, i, "focused", TRUE)

\* workspace_set_name: take over the pin of the new name and bring back the pin
\* of the old one
SetName(t, s, n) ==
  IF t.name[s] = n THEN t
  ELSE PinRestore([PinRemove(t, n) EXCEPT !.name[s] = n,
                                          !.state[s] = @ \cup {"invalid"}], t.name[s])

\* workspace_new: append a workspace with one reference unless the id is known
New(t, i) ==
  IF FromId(t, i) # Nil THEN t
  ELSE LET s == Fresh(t)
       IN  CallNew(Ref([Entry(t, s, i, NoName) EXCEPT !.list = Append(@, s)], i), s)

=============================================================================
