------------------------------- MODULE Bluez -------------------------------
(* The Bluetooth plug-in (modules/bluez.c): the table of devices that it     *)
(* keeps of the bluez service's objects, the calls that it makes for the     *)
(* user, and the rows of the pop-up (config/bluez-popup.widget).             *)
(*                                                                           *)
(* A call that is cancelled, or that times out, is completed on the module   *)
(* thread at some later time and its reply is dropped.  There is one         *)
(* adapter.  Names, classes and the powered and discoverable switches are    *)
(* left out, and so is the empty row that a device leaves in one section     *)
(* when its labels move to the other.                                        *)
EXTENDS Plugin

CONSTANT Devs  \* object paths of devices; a path is used again after removal

----------------------------------------------------------------------------
(* The service *)

\* inst: which of its instances; match: is the plug-in subscribed to this one;
\* work: calls that take time; crossed: was a request for all objects, meant for
\* an instance, ever answered by another; parted: did a device ever lose one of
\* its other interfaces
ServiceUp(dev) == [up |-> TRUE, inst |-> 1, match |-> FALSE, dev |-> dev, discovering |-> FALSE,
                   work |-> {}, crossed |-> FALSE, parted |-> FALSE]
Absent == [there |-> FALSE, paired |-> FALSE, trusted |-> FALSE, connected |-> FALSE]

Reply(c, ok) == [k |-> "reply", id |-> c.id, ok |-> ok]
Props(k, v, d) == Change(k, d, v.dev[d])
Scans(v) == [k |-> "adapter", discovering |-> v.discovering]
Objects(v) == [k |-> "objects", dev |-> [d \in {e \in Devs : v.dev[e].there} |-> v.dev[d]]]

\* The service reads a call; a pairing and a connection take time
Answers(c) ==
  CASE ~s.up -> UNCHANGED s /\ q' = IF c.id = 0 THEN q ELSE Append(q, Reply(c, FALSE))
    [] s.up /\ c.op = "match"   -> s' = [s EXCEPT !.match = @ \/ c.inst = s.inst] /\ UNCHANGED q
    [] s.up /\ c.op = "objects" ->
         Emits([s EXCEPT !.crossed = @ \/ c.inst # s.inst], <<>>, <<Objects(s)>>)
    [] s.up /\ c.op = "getall"  -> Emits(s, <<>>, <<Scans(s)>>)
    [] s.up /\ c.op \in {"pair", "connect"} -> s' = [s EXCEPT !.work = @ \cup {c}] /\ UNCHANGED q
    [] s.up /\ c.op \in {"trust", "disconnect"} /\ s.dev[c.dev].there ->
         LET v == IF c.op = "trust" THEN [s EXCEPT !.dev[c.dev].trusted = TRUE]
                  ELSE [s EXCEPT !.dev[c.dev].connected = FALSE]
         IN  Emits(v, <<Props("changed", v, c.dev)>>, <<Reply(c, TRUE)>>)
    [] s.up /\ c.op = "remove" /\ s.dev[c.dev].there ->
         Emits([s EXCEPT !.dev[c.dev] = Absent], <<Signal("removed", c.dev)>>, <<>>)
    [] s.up /\ c.op = "start" ->
         LET v == [s EXCEPT !.discovering = TRUE] IN Emits(v, <<Scans(v)>>, <<Reply(c, ~s.discovering)>>)
    [] s.up /\ c.op = "stop" ->
         LET v == [s EXCEPT !.discovering = FALSE] IN Emits(v, <<Scans(v)>>, <<>>)
    [] OTHER -> Emits(s, <<>>, IF c.id = 0 THEN <<>> ELSE <<Reply(c, FALSE)>>)

Serves ==
  /\ out # <<>> /\ out' = Tail(out)
  /\ Answers(Head(out))
  /\ UNCHANGED <<m, trig, rows, steps>>

\* A pairing or a connection ends, one way or the other
Finishes(c, ok) ==
  /\ LET done == [s EXCEPT !.work = @ \ {c}]
         v == IF c.op = "pair" THEN [done EXCEPT !.dev[c.dev].paired = TRUE]
              ELSE [done EXCEPT !.dev[c.dev].connected = TRUE]
     IN  IF ok /\ s.dev[c.dev].there
         THEN Emits(v, <<Props("changed", v, c.dev)>>, <<Reply(c, TRUE)>>)
         ELSE Emits(done, <<>>, <<Reply(c, FALSE)>>)
  /\ UNCHANGED <<m, out, trig, rows, steps>>

DeviceAppears(d) ==
  /\ s.up /\ ~s.dev[d].there
  /\ LET v == [s EXCEPT !.dev[d] = [Absent EXCEPT !.there = TRUE]]
     IN  Happens(v, <<Props("added", v, d)>>)
DeviceGoes(d) ==
  /\ s.up /\ s.dev[d].there
  /\ Happens([s EXCEPT !.dev[d] = Absent], <<Signal("removed", d)>>)
LinkLost(d) ==
  /\ s.up /\ s.dev[d].connected
  /\ LET v == [s EXCEPT !.dev[d].connected = FALSE] IN Happens(v, <<Props("changed", v, d)>>)
\* InterfacesRemoved for the device's path, without org.bluez.Device1
PartGoes(d) ==
  /\ s.up /\ s.dev[d].there
  /\ Happens([s EXCEPT !.parted = TRUE], <<Signal("removed", d)>>)

\* The service exits: the bus answers the calls that it had; then it starts again
ServiceExits ==
  /\ s.up /\ steps < MaxSteps /\ steps' = steps + 1
  /\ s' = [s EXCEPT !.up = FALSE, !.inst = @ + 1, !.match = FALSE, !.work = {}, !.discovering = FALSE,
                    !.dev = [d \in Devs |-> [@[d] EXCEPT !.connected = FALSE]]]
  /\ q' = q \o <<[k |-> "gone"]>> \o LET order == SetToSeq(s.work)
                                       IN  [i \in DOMAIN order |-> Reply(order[i], FALSE)]
  /\ UNCHANGED <<m, out, trig, rows>>
ServiceStarts ==
  /\ ~s.up
  /\ s' = [s EXCEPT !.up = TRUE] /\ q' = Append(q, [k |-> "appeared", inst |-> s.inst])
  /\ UNCHANGED <<m, out, trig, rows, steps>>

----------------------------------------------------------------------------
(* The plug-in *)

\* devices, each with the number of its allocation; adapters' only element or
\* none, and the number of its allocation; timeout_handle: the adapters whose
\* scan is to be stopped; calls that wait, by their number; cancelled: those to be
\* completed with an error; stray: was a callback ever given a freed device
New == [dev |-> <<>>, allocs |-> 0, adapter |-> "none", adapters |-> 1, timeout_handle |-> {},
        calls |-> <<>>, cancelled |-> {}, next |-> 1, stray |-> FALSE, emit |-> <<>>, out |-> <<>>]

Conf(x, d) == Emit(x, Trigger("bluez-conf", d))
AdapterConf(x) == Emit(x, Trigger("bluez-adapter", "adapter"))

\* A call whose reply nobody waits for, and one with a callback for the device
Tell(x, op, d) == Send(x, [op |-> op, dev |-> d, id |-> 0])
Call(x, op, d) ==
  Send([x EXCEPT !.next = @ + 1,
                 !.calls = (x.next :> [op |-> op, dev |-> d,
                                       of |-> IF op = "start" THEN x.adapters ELSE x.dev[d].alloc]) @@ @],
       [op |-> op, dev |-> d, id |-> x.next])

\* bz_device_free: the device's calls are cancelled
Free(x, d) ==
  LET own == {i \in DOMAIN x.calls : x.calls[i].op # "start" /\ x.calls[i].of = x.dev[d].alloc}
  IN  Emit([x EXCEPT !.dev = Restrict(@, DOMAIN @ \ {d}), !.cancelled = @ \cup own],
           Trigger("bluez-conf-removed", d))

\* bz_connect
Connect(x, d) ==
  Call(IF x.dev[d].connecting THEN x ELSE Conf([x EXCEPT !.dev[d].connecting = TRUE], d), "connect", d)

\* bz_trust
Trust(x, d) == IF x.dev[d].trusted THEN Connect(x, d) ELSE Call(x, "trust", d)

\* bz_pair
Pair(x, d) ==
  LET y == Conf([x EXCEPT !.dev[d].connecting = TRUE], d)
  IN  IF x.dev[d].paired THEN Trust(y, d) ELSE Call(y, "pair", d)

NotConnecting(x, d) == Conf([x EXCEPT !.dev[d].connecting = FALSE], d)

\* Faulty variant of Completed: a pairing that fails leaves the device connecting
CompletedQuietly(x, c, ok) ==
  CASE c.op = "start"   -> IF ok THEN [x EXCEPT !.timeout_handle = @ \cup {c.of}] ELSE x
    [] c.op = "connect" -> NotConnecting(x, c.dev)
    [] c.op = "trust"   -> IF ok THEN Connect(x, c.dev) ELSE NotConnecting(x, c.dev)
    [] c.op = "pair"    -> IF ok THEN Trust(x, c.dev) ELSE x
    [] OTHER            -> x

\* bz_scan_cb, bz_disconnect_cb, bz_connect_cb, bz_trust_cb, bz_pair_cb
Completed(x, c, ok) ==
  CASE c.op = "start"   -> IF ok THEN [x EXCEPT !.timeout_handle = @ \cup {c.of}] ELSE x
    [] c.op = "connect" -> NotConnecting(x, c.dev)
    [] c.op = "trust"   -> IF ok THEN Connect(x, c.dev) ELSE NotConnecting(x, c.dev)
    [] c.op = "pair"    -> IF ok THEN Trust(x, c.dev) ELSE NotConnecting(x, c.dev)
    [] OTHER            -> x

\* The callback of call i is run.  Those of "connect", "trust" and "pair" use the
\* device even if it is freed; what becomes of freed memory is not followed.
Completes(x, i, ok) ==
  LET c == x.calls[i]
      y == [x EXCEPT !.calls = Restrict(@, DOMAIN @ \ {i}), !.cancelled = @ \ {i}]
      freed == c.op # "start" /\ ~(c.dev \in DOMAIN x.dev /\ x.dev[c.dev].alloc = c.of)
  IN  IF freed THEN [y EXCEPT !.stray = @ \/ c.op # "disconnect"] ELSE Completed(y, c, ok)

\* bz_device_properties
WithProps(x, d, v) ==
  [x EXCEPT !.dev[d].paired = v.paired, !.dev[d].trusted = v.trusted, !.dev[d].connected = v.connected]

\* bz_device_handle
DeviceHandle(x, d, v) ==
  LET fresh == [alloc |-> x.allocs, connecting |-> FALSE,
                paired |-> FALSE, trusted |-> FALSE, connected |-> FALSE]
      y == IF d \in DOMAIN x.dev THEN x
           ELSE [x EXCEPT !.dev = (d :> fresh) @@ @, !.allocs = @ + 1]
  IN  Conf(WithProps(y, d, v), d)

\* bz_device_changed
DeviceChanged(x, d, v) ==
  IF d \notin DOMAIN x.dev \/ WithProps(x, d, v) = x THEN x ELSE Conf(WithProps(x, d, v), d)

\* bz_device_removed, whichever of the object's interfaces are removed
DeviceRemoved(x, d) == IF d \in DOMAIN x.dev THEN Free(x, d) ELSE x

\* bz_adapter_handle
AdapterHandle(x) ==
  IF x.adapter # "none" THEN x ELSE AdapterConf(Tell([x EXCEPT !.adapter = "idle"], "getall", "adapter"))

\* bz_adapter_update
AdapterUpdate(x, discovering) ==
  IF x.adapter = "none" THEN x
  ELSE AdapterConf([x EXCEPT !.adapter = IF discovering THEN "discovering" ELSE "idle"])

\* bz_name_appeared_cb: subscribes to the owner's signals, and asks whoever has
\* the name for its objects
NameAppeared(x, inst) ==
  Send(Send(x, [op |-> "match", id |-> 0, inst |-> inst]), [op |-> "objects", id |-> 0, inst |-> inst])

\* bz_name_disappeared_cb: the adapter is forgotten, not freed, and its timer
\* stays
NameDisappeared(x) == [FoldLeft(Free, x, SetToSeq(DOMAIN x.dev)) EXCEPT
                          !.adapter = "none", !.adapters = @ + 1]

\* bz_init_cb
ObjectsHandle(x, dev) ==
  AdapterHandle(FoldLeft(LAMBDA y, d : DeviceHandle(y, d, dev[d]), x, SetToSeq(DOMAIN dev)))

Handled(x, msg) ==
  CASE msg.k = "appeared" -> NameAppeared(x, msg.inst)
    [] msg.k = "gone"     -> NameDisappeared(x)
    [] msg.k = "reply"    -> IF msg.id \in DOMAIN x.calls \ x.cancelled
                             THEN Completes(x, msg.id, msg.ok) ELSE x
    [] msg.k = "objects"  -> ObjectsHandle(x, msg.dev)
    [] msg.k = "added"    -> DeviceHandle(x, msg.of, msg.v)
    [] msg.k = "changed"  -> DeviceChanged(x, msg.of, msg.v)
    [] msg.k = "removed"  -> DeviceRemoved(x, msg.of)
    [] msg.k = "adapter"  -> AdapterUpdate(x, msg.discovering)

\* A cancelled call is completed
Cancels(i) == Does(Completes(m, i, FALSE)) /\ UNCHANGED <<s, q, rows, steps>>

\* A pairing or a connection takes longer than a call may take
TimesOut(i) ==
  /\ steps < MaxSteps /\ steps' = steps + 1
  /\ m.calls[i].op \in {"pair", "connect"}
  /\ Does(Completes(m, i, FALSE)) /\ UNCHANGED <<s, q, rows>>

\* bz_scan_stop
ScanStops(a) ==
  /\ Does(Tell([m EXCEPT !.timeout_handle = @ \ {a}], "stop", "adapter")) /\ UNCHANGED <<s, q, rows, steps>>

\* bz_action_pair, bz_action_connect, bz_action_disconnect, bz_action_remove
UserPairs(d)    == d \in DOMAIN m.dev /\ User(Pair(m, d))
UserConnects(d) == d \in DOMAIN m.dev /\ ~m.dev[d].connected /\ User(Connect(m, d))
UserDisconnects(d) == d \in DOMAIN m.dev /\ m.dev[d].connected /\ User(Call(m, "disconnect", d))
UserRemoves(d) ==
  d \in DOMAIN m.dev /\ m.adapter # "none" /\ User(Tell(Tell(m, "remove", d), "untrust", d))
\* bz_action_scan
UserScans == m.adapter # "none" /\ m.adapters \notin m.timeout_handle /\ User(Call(m, "start", "adapter"))

\* What bz_expr_device tells a row
Row(x, d) == IF d \in DOMAIN x.dev THEN {f \in {"paired", "connected", "connecting"} : x.dev[d][f]}
             ELSE {"blank"}

\* XBluezUpdate, XBluezRemove, the button
Handles ==
  LET t == Head(trig)
  IN  Shows(CASE t.t = "bluez-conf" -> [rows EXCEPT !.dev = (t.of :> Row(m, t.of)) @@ @]
              [] t.t = "bluez-conf-removed" -> [rows EXCEPT !.dev = Restrict(@, DOMAIN @ \ {t.of})]
              [] t.t = "bluez-adapter" -> [rows EXCEPT !.button = m.adapter])

----------------------------------------------------------------------------

\* How far the service may have got with a device
Stages == LET seen == [Absent EXCEPT !.there = TRUE]
              paired == [seen EXCEPT !.paired = TRUE]
              trusted == [paired EXCEPT !.trusted = TRUE]
          IN  {Absent, seen, paired, trusted, [trusted EXCEPT !.connected = TRUE]}

Init ==
  /\ \E dev \in [Devs -> Stages] : s = ServiceUp(dev)
  /\ m = New /\ q = <<[k |-> "appeared", inst |-> 1]>> /\ out = <<>>
  /\ trig = <<>> /\ rows = [dev |-> <<>>, button |-> "none"]
  /\ steps = 0

\* A message is read, a trigger handled; what else goes on by itself; and what the
\* user and the world may do
Turns == Reads(Handled(m, Head(q))) \/ Handles
Works ==
  \/ Serves \/ ServiceStarts
  \/ \E c \in s.work, ok \in BOOLEAN : Finishes(c, ok)
  \/ \E i \in m.cancelled : Cancels(i)
  \/ \E a \in m.timeout_handle : ScanStops(a)
Acts ==
  \/ ServiceExits \/ UserScans
  \/ \E i \in DOMAIN m.calls \ m.cancelled : TimesOut(i)
  \/ \E d \in Devs : \/ DeviceAppears(d) \/ DeviceGoes(d) \/ LinkLost(d) \/ PartGoes(d)
                     \/ UserPairs(d) \/ UserConnects(d) \/ UserDisconnects(d) \/ UserRemoves(d)
Next == Turns \/ Works \/ Acts

----------------------------------------------------------------------------
(* Properties *)

Quiet == s.up /\ s.work = {} /\ Idle /\ m.cancelled = {} /\ m.timeout_handle = {}

\* Every variable keeps its type; nothing waits within a handler.
TypeOK ==
  /\ DOMAIN s.dev = Devs /\ DOMAIN m.dev \subseteq Devs /\ DOMAIN rows.dev \subseteq Devs
  /\ m.adapter \in {"none", "idle", "discovering"} /\ m.emit = <<>> /\ m.out = <<>>
  /\ m.cancelled \subseteq DOMAIN m.calls
  /\ steps \in 0..MaxSteps

\* doc/sfwbar-bluez.rst, bluez-conf: "emitted when a new bluetooth device is
\* discovered or properties of a device are changed": at rest there is a row
\* for each of the service's devices, which shows it as it is and not as
\* connecting, and the button shows that no scan is under way.  Not so after a
\* callback was given a freed device, after a device lost another interface, or
\* after a restarted service answered a request meant for the one before.
ShownAsIs ==
  Quiet /\ ~m.stray /\ ~s.crossed /\ ~s.parted =>
    /\ DOMAIN rows.dev = {d \in Devs : s.dev[d].there}
    /\ \A d \in DOMAIN rows.dev :
         rows.dev[d] = {f \in {"paired", "connected"} : s.dev[d][f]}
    /\ rows.button = "idle" /\ ~s.discovering
=============================================================================
