------------------------------ MODULE Ncenter ------------------------------
(* The notification centre (modules/ncenter.c): the list of notifications    *)
(* that clients ask for over the bus, replace and close, that time out and   *)
(* that the user closes, and the rows of the pop-up, grouped by application  *)
(* (config/ncenter.widget).                                                  *)
(*                                                                           *)
(* Here q holds the clients' calls and out what they are sent.  A            *)
(* notification's text stands for all that is shown of it.  Icons in a cache *)
(* and the launch token of an action are left out.                           *)
EXTENDS Plugin

CONSTANTS Apps,   \* names of applications
          Timing  \* bound: those whose notifications may expire

----------------------------------------------------------------------------
(* The clients: the notifications that are open as far as they know, and the *)
(* ids that they were ever given, each with its application                  *)

Note(app, text) == [app |-> app, text |-> text]

Asks(c) ==
  /\ steps < MaxSteps /\ steps' = steps + 1
  /\ q' = Append(q, c) /\ UNCHANGED <<s, m, out, trig, rows>>

\* Notify: a new notification (id 0), or one in the place of another, which may
\* be closed by now; timed: does it expire
Notifies(app, id, timed) ==
  /\ id # 0 => id \in DOMAIN s.given /\ s.given[id] = app
  /\ timed => app \in Timing
  /\ Asks([k |-> "notify", id |-> id, app |-> app, text |-> steps + 1, timed |-> timed])

Closes(id) == id \in DOMAIN s.given /\ Asks([k |-> "close", id |-> id])

\* A client reads a reply or a signal
Hears ==
  /\ out # <<>> /\ out' = Tail(out)
  /\ LET msg == Head(out)
     IN  s' = CASE msg.k = "id" ->
                     [s EXCEPT !.open = With(@, msg.id, Note(msg.app, msg.text)),
                               !.given = With(@, msg.id, msg.app)]
                [] msg.k = "closed" -> [s EXCEPT !.open = Restrict(@, DOMAIN @ \ {msg.id})]
                [] OTHER -> s
  /\ UNCHANGED <<m, q, trig, rows, steps>>

----------------------------------------------------------------------------
(* The plug-in *)

\* notif_list, in which alloc tells a notification from one that had its id, and
\* timeout_handle is the last timer that it was given; the timers that run, each
\* with the notification that it was started for.  Both are named after the text
\* of the call that made them.  collided: was an id ever given out that
\* a client held; stray: did a timer fire that its notification had lost track of
New == [list |-> <<>>, expanded_group |-> "none", dn_id_counter |-> 1,
        timers |-> <<>>, collided |-> FALSE, stray |-> FALSE, emit |-> <<>>, out |-> <<>>]

Ids(x) == {n.id : n \in Range(x.list)}
\* The places of an application's notifications
Members(x, app) == {i \in DOMAIN x.list : x.list[i].app = app}

\* dn_notification_lookup: the first with the id
Lookup(x, id) == SelectInSeq(x.list, LAMBDA n : n.id = id)

\* trigger_emit("notification-group")
Regroup(x) == Emit(x, Trigger("notification-group", 0))

\* Faulty variant of Close: the group of the closed notification stays expanded
CloseKeepsGroup(x, id) ==
  LET n == x.list[Lookup(x, id)]
      y == IF Lookup(x, id) = 0 THEN x
           ELSE Send([x EXCEPT !.list = RemoveAt(@, Lookup(x, id)),
                               !.timers = Restrict(@, DOMAIN @ \ {n.timeout_handle})],
                     [k |-> "closed", id |-> id])
  IN  Regroup(Emit(y, Trigger("notification-removed", id)))

\* dn_notification_close and dn_notification_free
Close(x, id) ==
  LET n == x.list[Lookup(x, id)]
      y == [x EXCEPT !.list = RemoveAt(@, Lookup(x, id)),
                     !.timers = Restrict(@, DOMAIN @ \ {n.timeout_handle})]
      z == IF Lookup(x, id) = 0 THEN x
           ELSE Send(IF n.app = x.expanded_group /\ Members(y, n.app) = {}
                     THEN [y EXCEPT !.expanded_group = "none"] ELSE y,
                     [k |-> "closed", id |-> id])
  IN  Regroup(Emit(z, Trigger("notification-removed", id)))

\* dn_notification_parse, Notify.  A replaced notification's timer goes on, but
\* its handle is lost to that of the new one.
Parse(x, c) ==
  LET at == Lookup(x, c.id)
      id == IF c.id = 0 THEN x.dn_id_counter ELSE c.id
      old == IF at = 0 THEN [alloc |-> c.text, timeout_handle |-> 0] ELSE x.list[at]
      n == [id |-> id, app |-> c.app, text |-> c.text, alloc |-> old.alloc,
            timeout_handle |-> IF c.timed THEN c.text ELSE old.timeout_handle]
      y == [x EXCEPT !.list = IF at = 0 THEN Append(@, n) ELSE [@ EXCEPT ![at] = n],
                     !.dn_id_counter = IF c.id = 0 THEN @ + 1 ELSE @,
                     !.timers = IF c.timed THEN With(@, c.text, n.alloc) ELSE @,
                     !.collided = @ \/ (c.id = 0 /\ id \in DOMAIN s.given)]
      update == [t |-> "notification-updated", of |-> id, v |-> Note(c.app, c.text)]
  IN  Send(Regroup(Emit(y, update)), [k |-> "id", id |-> id, app |-> c.app, text |-> c.text])

\* dn_iface_method
Method(x, c) == IF c.k = "notify" THEN Parse(x, c) ELSE Close(x, c.id)
ReadsCall == q # <<>> /\ q' = Tail(q) /\ DoesInTurn(Method(m, Head(q))) /\ UNCHANGED <<s, rows, steps>>

\* dn_timeout: a timer fires.  Its notification may be freed, or have a newer
\* timer; what becomes of freed memory is not followed.
Timeout(h) ==
  /\ LET at == SelectInSeq(m.list, LAMBDA n : n.alloc = m.timers[h])
         fired == [m EXCEPT !.timers = Restrict(@, DOMAIN @ \ {h})]
     IN  IF at # 0 /\ m.list[at].timeout_handle = h
         THEN DoesInTurn(Close([fired EXCEPT !.list[at].timeout_handle = 0], m.list[at].id))
         ELSE DoesInTurn([fired EXCEPT !.stray = TRUE])
  /\ UNCHANGED <<s, q, rows, steps>>

\* What the user may do with a row: its notification may be closed by then
UserDoes(handled) ==
  /\ steps < MaxSteps /\ steps' = steps + 1
  /\ DoesInTurn(handled) /\ UNCHANGED <<s, q, rows>>

\* dn_notification_expand, _collapse, _close, _action
UserExpands(id) ==
  /\ id \in DOMAIN rows.row /\ Lookup(m, id) # 0
  /\ UserDoes(Regroup([m EXCEPT !.expanded_group = m.list[Lookup(m, id)].app]))
UserCollapses == rows.active # "none" /\ UserDoes(Regroup([m EXCEPT !.expanded_group = "none"]))
UserCloses(id) == id \in DOMAIN rows.row /\ UserDoes(Close(m, id))
UserActs(id) == id \in DOMAIN rows.row /\ UserDoes(Send(m, [k |-> "action", id |-> id]))

\* dn_group_func
Group(x, id) ==
  LET at == Lookup(x, id)
      same == Members(x, x.list[at].app)
  IN  CASE at = 0 -> "hidden"
        [] at # 0 /\ x.list[at].app = x.expanded_group -> "visible"
        [] at # 0 /\ x.list[at].app # x.expanded_group /\ Cardinality(same) = 1 -> "sole"
        [] OTHER -> IF \A i \in same : at <= i THEN "header" ELSE "hidden"

\* dn_count_func, for a row
Count(x, id) == IF Lookup(x, id) = 0 THEN 0 ELSE Cardinality(Members(x, x.list[Lookup(x, id)].app))

Row(x, id, note) == [note |-> note, group |-> Group(x, id), count |-> Count(x, id)]

\* XNotificationUpdate, XNotificationRemove, and what depends on the groups
Handles ==
  LET t == Head(trig)
  IN  Shows(CASE t.t = "notification-updated" -> [rows EXCEPT !.row = With(@, t.of, Row(m, t.of, t.v))]
              [] t.t = "notification-removed" -> [rows EXCEPT !.row = Restrict(@, DOMAIN @ \ {t.of})]
              [] t.t = "notification-group" ->
                   [row |-> [id \in DOMAIN rows.row |-> Row(m, id, rows.row[id].note)],
                    active |-> m.expanded_group, count |-> Len(m.list)])

----------------------------------------------------------------------------

\* A client may hold an id that an earlier run of the bar gave it
Init ==
  /\ \E ids \in SUBSET {1} : s = [open |-> <<>>, given |-> [id \in ids |-> CHOOSE app \in Apps : TRUE]]
  /\ m = New /\ q = <<>> /\ out = <<>> /\ trig = <<>>
  /\ rows = [row |-> <<>>, active |-> "none", count |-> 0]
  /\ steps = 0

\* A message is read, a trigger handled; what else goes on by itself; and what the
\* user and the world may do, as long as what follows is followed
Turns == ReadsCall \/ Handles
Works == Hears \/ \E h \in DOMAIN m.timers : Timeout(h)
Acts ==
  /\ ~m.collided /\ ~m.stray
  /\ \/ \E app \in Apps, id \in {0} \cup DOMAIN s.given, timed \in BOOLEAN : Notifies(app, id, timed)
     \/ \E id \in DOMAIN s.given : Closes(id)
     \/ \E id \in DOMAIN rows.row : UserExpands(id) \/ UserCloses(id) \/ UserActs(id)
     \/ UserCollapses

----------------------------------------------------------------------------
(* Properties *)

Quiet == Idle /\ m.timers = <<>>

\* Every variable keeps its type; nothing waits within a handler.
TypeOK ==
  /\ DOMAIN s.open \subseteq DOMAIN s.given /\ Range(s.given) \subseteq Apps
  /\ m.expanded_group \in Apps \cup {"none"} /\ m.emit = <<>> /\ m.out = <<>>
  /\ \A n \in Range(m.list) : n.app \in Apps /\ n.alloc \in 1..steps /\ n.timeout_handle \in 0..steps
  /\ steps \in 0..MaxSteps

\* doc/sfwbar-ncenter.rst, the triggers: with nothing under way there is a row
\* for each notification of the list, with its last contents, and its group is
\* drawn as the list and the expanded group have it: one row stands for each
\* group that is not expanded, no group without members is, and the clients
\* know which of their notifications are open.  Not so once an id was given out
\* twice, to a new notification and to one that is older than the bar, or after a
\* timer fired whose handle was lost when its notification was replaced.
NotificationsShown ==
  Idle /\ ~m.collided /\ ~m.stray =>
    /\ DOMAIN rows.row = Ids(m) /\ Len(m.list) = Cardinality(Ids(m))
    /\ \A n \in Range(m.list) : rows.row[n.id] = Row(m, n.id, Note(n.app, n.text))
    /\ rows.active = m.expanded_group /\ rows.count = Len(m.list)
    /\ \A app \in {n.app : n \in Range(m.list)} :
         app = m.expanded_group \/ \E n \in Range(m.list) : n.app = app /\ rows.row[n.id].group # "hidden"
    /\ m.expanded_group = "none" \/ Members(m, m.expanded_group) # {}
    /\ s.open = [id \in Ids(m) |-> rows.row[id].note]
=============================================================================
