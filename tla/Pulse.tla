------------------------------- MODULE Pulse -------------------------------
(* The PulseAudio plug-in (modules/pulsectl.c): the connection to the        *)
(* server, the lists of sinks and of clients (sink inputs) that it keeps     *)
(* from what it is told, the volume and the default that the user sets, and  *)
(* the rows of the pop-up (config/volume-popup.widget).                      *)
(*                                                                           *)
(* An index is not used again by the server.  Sources, channels, the move of *)
(* a client to a sink and the properties that are only passed on are left    *)
(* out; a client's name stands for its description.                          *)
EXTENDS Plugin

CONSTANTS
  Sinks, Clients,  \* indices
  Top              \* the highest volume

Devices == Sinks \cup Clients

----------------------------------------------------------------------------
(* The server *)

\* linked: is the plug-in connected; match: is it subscribed to changes; dev: "later" and "gone" are
\* the stages before and after a device is there; untold: what changed, or came,
\* without a message that makes the plug-in ask
ServerUp(dev, default) ==
  [up |-> TRUE, linked |-> FALSE, match |-> FALSE, dev |-> dev, default |-> default, untold |-> {}]
Here(v) == {d \in Devices : v.dev[d].is = "there"}
Untold(v, what) == [v EXCEPT !.untold = @ \cup {what}]

\* The server is changed in what, which is an event of the subscription
Changes(v, what) == IF v = s THEN s ELSE IF s.match THEN [v EXCEPT !.untold = @ \ {what}] ELSE Untold(v, what)
EventOf(v, what) == IF v = s THEN <<>> ELSE <<Signal("change", what)>>

Info(v, some) == [k |-> "info", dev |-> [d \in some \cap Here(v) |-> [vol |-> v.dev[d].vol, mute |-> v.dev[d].mute]]]

Sets(v, what) == Emits(Changes(v, what), EventOf(v, what), <<>>)

Answers(c) ==
  CASE ~s.linked -> UNCHANGED <<s, q>>
    [] s.linked /\ c.op = "subscribe" -> s' = [s EXCEPT !.match = TRUE] /\ UNCHANGED q
    [] s.linked /\ c.op = "server" ->
         Emits([s EXCEPT !.untold = @ \ {"server"}], <<>>, <<[k |-> "server", default |-> s.default]>>)
    [] s.linked /\ c.op = "info" -> Emits([s EXCEPT !.untold = @ \ (c.some \cap Here(s))], <<>>, <<Info(s, c.some)>>)
    [] s.linked /\ c.op = "name" -> Emits(s, <<>>, IF c.of \in Here(s) THEN <<Signal("name", c.of)>> ELSE <<>>)
    [] s.linked /\ c.op = "volume" /\ c.of \in Here(s) -> Sets([s EXCEPT !.dev[c.of].vol = c.v], c.of)
    [] s.linked /\ c.op = "mute" /\ c.of \in Here(s) -> Sets([s EXCEPT !.dev[c.of].mute = c.v], c.of)
    [] s.linked /\ c.op = "default" /\ c.of \in Here(s) -> Sets([s EXCEPT !.default = c.of], "server")
    [] OTHER -> UNCHANGED <<s, q>>

Serves ==
  /\ out # <<>> /\ out' = Tail(out)
  /\ Answers(Head(out))
  /\ UNCHANGED <<m, trig, rows, steps>>

Appears(d) ==
  /\ s.up /\ s.dev[d].is = "later"
  /\ Happens(Untold([s EXCEPT !.dev[d].is = "there"], d), <<Signal("new", d)>>)
Goes(d) ==
  /\ s.up /\ d \in Here(s) /\ d # s.default
  /\ LET v == [s EXCEPT !.dev[d].is = "gone"]
     IN  Happens(Changes(v, d), <<Signal("remove", d)>>)
TurnedTo(d, vol) ==
  /\ s.up /\ d \in Here(s) /\ vol # s.dev[d].vol
  /\ LET v == [s EXCEPT !.dev[d].vol = vol] IN Happens(Changes(v, d), EventOf(v, d))
DefaultTo(d) ==
  /\ s.up /\ d \in Here(s) \cap Sinks /\ d # s.default
  /\ LET v == [s EXCEPT !.default = d] IN Happens(Changes(v, "server"), EventOf(v, "server"))
Exits ==
  /\ s.up /\ steps < MaxSteps /\ steps' = steps + 1
  /\ s' = [s EXCEPT !.up = FALSE, !.linked = FALSE, !.match = FALSE]
  /\ q' = IF s.linked THEN Append(q, [k |-> "failed"]) ELSE q
  /\ out' = <<>>
  /\ UNCHANGED <<m, trig, rows>>
Restarts == ~s.up /\ s' = [s EXCEPT !.up = TRUE] /\ UNCHANGED <<m, q, out, trig, rows, steps>>

----------------------------------------------------------------------------
(* The plug-in *)

\* ctx: is there a context (pctx); retry: the timer that connects; posts: what the
\* main thread is asked; active: the interface's flag; calls: activations and
\* deactivations that wait for the module thread; funcs: are Volume() and
\* VolumeCtl() defined; the lists of sinks and clients; default_device,
\* default_control and whether the user chose the latter (fixed); unsaid: was a
\* device removed since "volume" was last emitted; stray: was a freed context used
New == [ctx |-> FALSE, retry |-> TRUE, posts |-> <<>>, active |-> FALSE, calls |-> <<>>,
        funcs |-> FALSE, dev |-> <<>>, device |-> "none", control |-> "none", fixed |-> FALSE,
        unsaid |-> FALSE, stray |-> FALSE, emit |-> <<>>, out |-> <<>>]

Volume(x) == [Emit(x, Trigger("volume", "all")) EXCEPT !.unsaid = FALSE]
Conf(x, d) == Emit(x, Trigger("volume-conf", d))

\* A request; the context may be freed
Request(x, c) == IF x.ctx THEN Send(x, c) ELSE [x EXCEPT !.stray = TRUE]
Ask(x, op, o) == Request(x, [op |-> op, of |-> o])
List(x, some) == Request(x, [op |-> "info", some |-> some])
Set(x, op, d, v) == Request(x, [op |-> op, of |-> d, v |-> v])

\* pulse_remove_device
RemoveDevice(x, d) ==
  IF d \notin DOMAIN x.dev THEN x
  ELSE Emit([x EXCEPT !.dev = Restrict(@, DOMAIN @ \ {d}), !.unsaid = TRUE],
            Trigger("volume-conf-removed", d))

\* pulse_sink_cb, pulse_sink_input_cb
DeviceCb(x, d, v) ==
  LET new == d \notin DOMAIN x.dev
      named == ~new /\ x.dev[d].named
      y == [x EXCEPT !.dev = (d :> [vol |-> v.vol, mute |-> v.mute, named |-> named]) @@ @]
  IN  IF d \in Sinks THEN Volume(IF new THEN Conf(y, d) ELSE y)
      ELSE Ask(IF new THEN Conf(Volume(y), d) ELSE Volume(y), "name", d)

InfoCb(x, dev) == FoldLeft(LAMBDA y, d : DeviceCb(y, d, dev[d]), x, SetToSeq(DOMAIN dev))

\* pulse_client_cb
ClientCb(x, d) ==
  IF d \in DOMAIN x.dev /\ ~x.dev[d].named THEN Volume([x EXCEPT !.dev[d].named = TRUE]) ELSE x

\* pulse_set_default_control
SetDefaultControl(x, d, fixed) ==
  IF ~fixed /\ x.fixed THEN x ELSE Volume([x EXCEPT !.control = d, !.fixed = fixed])

\* pulse_server_cb
ServerCb(x, default) ==
  LET y == SetDefaultControl([x EXCEPT !.device = default], default, FALSE)
  IN  List(List(y, Sinks), Clients)

\* pulse_subscribe_cb: what is new is not asked for
SubscribeCb(x, msg) ==
  CASE msg.k = "remove" -> RemoveDevice(x, msg.of)
    [] msg.k = "new" -> x
    [] msg.k = "change" -> IF msg.of = "server" THEN Ask(x, "server", "server") ELSE List(x, {msg.of})

\* pulse_state_cb
StateCb(x, state) ==
  IF state = "ready"
  THEN [Ask(x, "server", "server") EXCEPT !.posts = Append(@, "activate")]
  ELSE Volume([x EXCEPT !.posts = Append(@, "deactivate"), !.retry = TRUE, !.ctx = FALSE])

Handled(x, msg) ==
  CASE msg.k \in {"ready", "failed"} -> StateCb(x, msg.k)
    [] msg.k = "server" -> ServerCb(x, msg.default)
    [] msg.k = "info" -> InfoCb(x, msg.dev)
    [] msg.k = "name" -> ClientCb(x, msg.of)
    [] msg.k \in {"new", "change", "remove"} -> SubscribeCb(x, msg)
ReadsMessage == q # <<>> /\ q' = Tail(q) /\ DoesInTurn(Handled(m, Head(q))) /\ UNCHANGED <<s, rows, steps>>

\* pulse_connect_try: while the interface is active, or there is no server, it is
\* tried again later.  The main thread is taken to do what it was asked within the
\* second that the timer waits; a deactivation that still waits is run before the
\* server can answer.
ConnectTry ==
  /\ m.retry /\ ~m.active /\ m.posts = <<>> /\ m.calls = <<>> /\ s.up
  /\ m' = [m EXCEPT !.retry = FALSE, !.ctx = TRUE]
  /\ s' = [s EXCEPT !.linked = TRUE, !.untold = {}] /\ q' = Append(q, [k |-> "ready"])
  /\ UNCHANGED <<out, trig, rows, steps>>

\* module_interface_activate_impl, module_interface_deactivate_impl, on main
Arbitrates ==
  /\ m.posts # <<>>
  /\ LET on == Head(m.posts) = "activate"
     IN  m' = [m EXCEPT !.posts = Tail(@), !.active = on,
                        !.calls = IF on # m.active THEN Append(@, on) ELSE @]
  /\ UNCHANGED <<s, q, out, trig, rows, steps>>

\* pulse_activate, pulse_deactivate
Activate(x) == Volume(Ask([x EXCEPT !.funcs = TRUE], "subscribe", "server"))
Deactivate(x) == [FoldLeft(RemoveDevice, x, SetToSeq(DOMAIN x.dev)) EXCEPT !.funcs = FALSE]
Called ==
  /\ m.calls # <<>>
  /\ LET x == [m EXCEPT !.calls = Tail(@)]
     IN  DoesInTurn(IF Head(m.calls) THEN Activate(x) ELSE Deactivate(x))
  /\ UNCHANGED <<s, q, rows, steps>>

\* VolumeCtl() for a row; pulse_volume_adjust goes from what the list has, and
\* changes it there
UserDoes(d, handled) ==
  /\ m.funcs /\ d \in DOMAIN rows.dev \cap DOMAIN m.dev
  /\ steps < MaxSteps /\ steps' = steps + 1
  /\ DoesInTurn(handled) /\ UNCHANGED <<s, q, rows>>
VolumeAdjust(d, delta) ==
  LET vol == IF delta > 0 THEN Min({m.dev[d].vol + delta, Top}) ELSE Max({m.dev[d].vol + delta, 0})
  IN  UserDoes(d, Set([m EXCEPT !.dev[d].vol = vol], "volume", d, vol))
MuteAdjust(d) == UserDoes(d, Set(m, "mute", d, 1 - m.dev[d].mute))
SetDefault(d) == d \in Sinks /\ UserDoes(d, Ask(m, "default", d))
SetControl(d) == d \in Sinks /\ UserDoes(d, SetDefaultControl(m, d, TRUE))

\* pulse_volume_func, for a row, the button and the sections' titles
NA == -1
Row(x, d) ==
  IF ~x.funcs \/ d \notin DOMAIN x.dev THEN [vol |-> NA, mute |-> 0, default |-> FALSE, named |-> FALSE]
  ELSE [vol |-> x.dev[d].vol, mute |-> x.dev[d].mute, default |-> d = x.device, named |-> x.dev[d].named]
Count(x, some) == IF x.funcs THEN Cardinality(DOMAIN x.dev \cap some) ELSE NA

\* What depends on "volume"
Widgets(x, dev) ==
  [dev |-> [d \in dev |-> Row(x, d)], button |-> Row(x, x.control).vol,
   sinks |-> Count(x, Sinks), clients |-> Count(x, Clients)]

\* XVolumeChannelHandler, XVolumeChannelRemove
Handles ==
  LET t == Head(trig)
  IN  Shows(CASE t.t = "volume" -> Widgets(m, DOMAIN rows.dev)
              [] t.t = "volume-conf" -> [rows EXCEPT !.dev = (t.of :> Row(m, t.of)) @@ @]
              [] t.t = "volume-conf-removed" -> [rows EXCEPT !.dev = Restrict(@, DOMAIN @ \ {t.of})])

----------------------------------------------------------------------------

\* There is a sink, and another is there or a client comes
Init ==
  /\ LET default == CHOOSE d \in Sinks : TRUE
     IN  \E other \in Devices \ {default} :
           LET is(d) == CASE d = default -> "there"
                          [] d # default /\ d = other -> IF d \in Sinks THEN "there" ELSE "later"
                          [] OTHER -> "gone"
           IN  s = ServerUp([d \in Devices |-> [is |-> is(d), vol |-> 1, mute |-> 0]], default)
  /\ m = New /\ q = <<>> /\ out = <<>>
  /\ trig = <<>> /\ rows = [dev |-> <<>>, button |-> NA, sinks |-> NA, clients |-> NA]
  /\ steps = 0

\* A message is read, a trigger handled; what else goes on by itself; and what the
\* user and the world may do
Turns == ReadsMessage \/ Handles
Works == Serves \/ Restarts \/ ConnectTry \/ Arbitrates \/ Called
Acts ==
  \/ Exits
  \/ \E d \in Devices : Appears(d) \/ Goes(d) \/ MuteAdjust(d) \/ SetDefault(d) \/ SetControl(d) \/ DefaultTo(d)
  \/ \E d \in Devices, vol \in 0..Top : TurnedTo(d, vol)
  \/ \E d \in Devices, delta \in {1, -1} : VolumeAdjust(d, delta)

----------------------------------------------------------------------------
(* Properties *)

Quiet == s.up /\ Idle /\ m.ctx /\ m.posts = <<>> /\ m.calls = <<>>

\* Every variable keeps its type; nothing waits within a handler.
TypeOK ==
  /\ DOMAIN s.dev = Devices /\ DOMAIN m.dev \subseteq Devices /\ DOMAIN rows.dev \subseteq Devices
  /\ \A d \in DOMAIN m.dev : m.dev[d].vol \in 0..Top
  /\ m.emit = <<>> /\ m.out = <<>> /\ steps \in 0..MaxSteps

\* doc/sfwbar-volume.rst, the triggers: with nothing under way there is a row for
\* each sink and client of the server, which shows its volume, whether it is
\* mute, the default or named, and the sections' counts are those of the rows.
\* Left out are what changed without a message that makes the plug-in ask
\* (untold): what is new until it changes, and what changed between the answers
\* to the first requests and the subscription; and the counts after a removal,
\* which does not emit "volume" (unsaid).  Not so after a freed context was used.
MixerShown ==
  Quiet /\ ~m.stray =>
    /\ DOMAIN rows.dev \ s.untold = Here(s) \ s.untold
    /\ \A d \in DOMAIN rows.dev \ s.untold :
         /\ rows.dev[d].vol = s.dev[d].vol /\ rows.dev[d].mute = s.dev[d].mute
         /\ rows.dev[d].named = (d \in Clients)
         /\ "server" \notin s.untold => rows.dev[d].default = (d = s.default)
    /\ m.unsaid \/ (rows.sinks = Cardinality(DOMAIN rows.dev \cap Sinks)
                    /\ rows.clients = Cardinality(DOMAIN rows.dev \cap Clients))
    /\ m.control \in DOMAIN rows.dev => rows.button = rows.dev[m.control].vol
=============================================================================
