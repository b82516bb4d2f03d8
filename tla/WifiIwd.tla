------------------------------ MODULE WifiIwd ------------------------------
(* The IWD plug-in (modules/wifi-iwd.c): its tables of networks, known       *)
(* networks and the wireless device, scans and strengths, connections and    *)
(* the passphrases that the daemon asks for, and what the pop-up shows of them.  *)
(*                                                                           *)
(* There is one device, and IWD is the only provider of the "wifi"           *)
(* interface: it is activated when its daemon appears.  Names, types, the    *)
(* strength of the connection and the other kinds of secrets are left out.   *)
EXTENDS Plugin

CONSTANTS
  Nets,    \* networks, none of them called "none"
  Levels   \* signal strengths, none of them 0

----------------------------------------------------------------------------
(* The daemon *)

\* conn: the network it is connected to; target: the one it connects to; asking:
\* its request for a passphrase, 0 if none; given: does it have one; agent: whom
\* it may ask is known; scanned: did a scan begin and end since the plug-in was
\* subscribed; heard: did the one under way so begin; crossed: was a request for
\* all objects, or to be asked, ever read by another instance than the one that
\* it was meant for
ServiceUp(net, conn) ==
  [up |-> TRUE, inst |-> 1, match |-> FALSE, net |-> net, conn |-> conn, scanning |-> FALSE,
   target |-> "none", asking |-> 0, asked |-> 0, given |-> FALSE, agent |-> FALSE,
   scanned |-> FALSE, heard |-> FALSE, crossed |-> FALSE]

There(v) == {n \in Nets : v.net[n].there}
Props(v, n) == [known |-> v.net[n].known, connected |-> v.conn = n]
Network(v, n) == Change("network", n, Props(v, n))
Station(v) == Change("station", "device", [conn |-> v.conn, scanning |-> v.scanning])
Known(v, n) == Signal(IF v.net[n].known THEN "known" ELSE "unknown", n)
Done(n) == Signal("connect", n)

Objects(v) == [k |-> "objects", inst |-> v.inst, v |-> [conn |-> v.conn, scanning |-> v.scanning],
               net |-> [n \in There(v) |-> Props(v, n)], known |-> {n \in Nets : v.net[n].known}]

Scanning(v) == [v EXCEPT !.scanning = TRUE, !.heard = v.match]

\* It leaves the network that it is connected to
Leaves(v) == [v EXCEPT !.conn = "none"]
LeftSignals(v) == IF v.conn = "none" THEN <<>> ELSE <<Network(Leaves(v), v.conn), Station(Leaves(v))>>

\* The daemon reads a call
Answers(c) ==
  CASE c.op = "match" -> s' = [s EXCEPT !.match = s.up /\ (@ \/ c.inst = s.inst)] /\ UNCHANGED q
    [] c.op = "objects" -> Emits([s EXCEPT !.crossed = @ \/ c.inst # s.inst], <<>>,
                                 IF s.up THEN <<Objects(s)>> ELSE <<>>)
    [] c.op = "agent" ->
         s' = [s EXCEPT !.agent = s.up, !.crossed = @ \/ c.inst # s.inst] /\ UNCHANGED q
    [] c.op = "levels"  -> Emits(s, <<>>, IF s.up THEN <<[k |-> "levels", net |-> [n \in There(s) |-> s.net[n].level]]>>
                                          ELSE <<>>)
    [] c.op = "scan" -> IF s.up /\ ~s.scanning THEN Emits(Scanning(s), <<Station(Scanning(s))>>, <<>>)
                        ELSE UNCHANGED <<s, q>>
    [] c.op = "connect" ->
         IF s.up /\ s.net[c.of].there /\ s.target = "none" /\ s.conn # c.of
         THEN s' = [s EXCEPT !.target = c.of, !.given = FALSE] /\ UNCHANGED q
         ELSE Emits(s, <<>>, <<Done(c.of)>>)
    [] c.op = "disconnect" -> Emits(Leaves(s), LeftSignals(s), <<>>)
    [] c.op = "forget" ->
         LET v == [s EXCEPT !.net[c.of].known = FALSE]
             w == IF s.conn = c.of THEN Leaves(v) ELSE v
         IN  Emits(w, (IF s.conn = c.of THEN LeftSignals(v) ELSE <<>>)
                        \o <<Known(v, c.of)>> \o (IF v.net[c.of].there THEN <<Network(w, c.of)>> ELSE <<>>), <<>>)
    [] c.op = "secret" ->
         IF s.up /\ c.id = s.asking
         THEN IF c.ok THEN s' = [s EXCEPT !.asking = 0, !.given = TRUE] /\ UNCHANGED q
              ELSE Emits([s EXCEPT !.asking = 0, !.target = "none"], <<>>, <<Done(s.target)>>)
         ELSE UNCHANGED <<s, q>>

Serves ==
  /\ out # <<>> /\ out' = Tail(out)
  /\ Answers(Head(out))
  /\ UNCHANGED <<m, trig, rows, steps>>

ByItself(v, signals, replies) == Emits(v, signals, replies) /\ UNCHANGED <<m, out, trig, rows, steps>>

\* It needs the passphrase of a network that it does not know
Asks ==
  /\ s.target # "none" /\ ~s.net[s.target].known /\ ~s.given /\ s.agent /\ s.asking = 0
  /\ LET v == [s EXCEPT !.asking = s.asked + 1, !.asked = @ + 1]
     IN  ByItself(v, <<>>, <<[k |-> "ask", of |-> s.target, id |-> v.asking]>>)

\* A connection is made, or is not
Connects(ok) ==
  /\ s.target # "none" /\ s.asking = 0
  /\ IF s.net[s.target].known \/ s.given THEN TRUE ELSE ~ok /\ ~s.agent
  /\ LET n == s.target
         over == [s EXCEPT !.target = "none"]
         v == [over EXCEPT !.conn = n, !.net[n].known = TRUE]
     IN  IF ok THEN ByItself(v, LeftSignals(over) \o <<Known(v, n), Network(v, n), Station(v)>>, <<Done(n)>>)
         ELSE ByItself(over, <<>>, <<Done(n)>>)

\* A scan ends; the networks that it did not find are gone, unless in use
ScanEnds(there, level) ==
  /\ s.scanning /\ {s.conn, s.target} \ {"none"} \subseteq there
  /\ LET v == [s EXCEPT !.scanning = FALSE, !.scanned = @ \/ s.heard,
                        !.net = [n \in Nets |-> [@[n] EXCEPT !.there = n \in there, !.level = level]]]
         signals(ns, k) == LET order == SetToSeq(ns)
                           IN  [i \in DOMAIN order |-> Change(k, order[i], Props(v, order[i]))]
     IN  ByItself(v, signals(There(s) \ there, "removed") \o signals(there \ There(s), "added")
                       \o <<Station(v)>>, <<>>)

\* ... and it scans from time to time
ScanStarts ==
  /\ s.up /\ ~s.scanning
  /\ Happens(Scanning(s), <<Station(Scanning(s))>>)

\* It no longer wants the passphrase
GivesUp ==
  /\ s.asking # 0 /\ steps < MaxSteps /\ steps' = steps + 1
  /\ Emits([s EXCEPT !.asking = 0, !.target = "none"], <<>>, <<[k |-> "cancel"], Done(s.target)>>)
  /\ UNCHANGED <<m, out, trig, rows>>

LinkLost == s.conn # "none" /\ Happens(Leaves(s), LeftSignals(s))

\* The daemon exits, and starts again with the networks that it then finds
Exits ==
  /\ s.up /\ steps < MaxSteps /\ steps' = steps + 1
  /\ s' = [s EXCEPT !.up = FALSE, !.inst = @ + 1, !.match = FALSE, !.conn = "none", !.scanning = FALSE,
                    !.target = "none", !.asking = 0, !.agent = FALSE, !.scanned = FALSE, !.heard = FALSE]
  /\ q' = q \o <<[k |-> "gone"]>> \o (IF s.target = "none" THEN <<>> ELSE <<Done(s.target)>>)
  /\ UNCHANGED <<m, out, trig, rows>>
Starts(there) ==
  /\ ~s.up
  /\ s' = [s EXCEPT !.up = TRUE, !.net = [n \in Nets |-> [@[n] EXCEPT !.there = n \in there]]]
  /\ q' = Append(q, [k |-> "appeared", inst |-> s.inst])
  /\ UNCHANGED <<m, out, trig, rows, steps>>

----------------------------------------------------------------------------
(* The plug-in *)

\* active: are its functions there; device: its conn_net and scanning, if any;
\* net: iw_networks, ssid says whether there is a name; known: the
\* iw_known_networks; inv: iw_secret_inv, the request's number
NoDevice == [conn |-> "no device", scanning |-> FALSE]
New == [active |-> FALSE, device |-> NoDevice, net |-> <<>>, known |-> {}, inv |-> 0,
        emit |-> <<>>, out |-> <<>>]

Conf(x, n) == Emit(x, Trigger("wifi-conf", n))

\* iw_activate: subscribes to the owner's signals, and asks whoever has the name
Activate(x, inst) ==
  Send(Send([x EXCEPT !.active = TRUE], [op |-> "match", inst |-> inst]), [op |-> "objects", inst |-> inst])

\* iw_deactivate, which says nothing of the networks that it forgets
Deactivate(x) == [x EXCEPT !.active = FALSE, !.device = NoDevice, !.net = <<>>, !.known = {}]

\* iw_device_handle and iw_station_handle
StationHandle(x, v) ==
  LET y == [x EXCEPT !.device = v]
  IN  IF x.device.scanning /\ ~v.scanning
      THEN Send(Emit(y, Trigger("wifi-scan-complete", "button")), [op |-> "levels"]) ELSE y

\* iw_network_handle; named: is the name among the properties
NetworkHandle(x, n, v, named) ==
  LET old == IF n \in DOMAIN x.net THEN x.net[n]
             ELSE [ssid |-> FALSE, known |-> FALSE, connected |-> FALSE, level |-> 0]
      new == [old EXCEPT !.ssid = @ \/ named, !.known = v.known, !.connected = v.connected]
      y == [x EXCEPT !.net = (n :> new) @@ @]
  IN  IF new = old THEN y ELSE Conf(y, n)

\* iw_object_removed_cb, iw_network_remove
NetworkRemove(x, n) ==
  IF n \notin DOMAIN x.net THEN x
  ELSE Emit([x EXCEPT !.net = Restrict(@, DOMAIN @ \ {n})], Trigger("wifi-conf-removed", n))

\* iw_network_strength_cb
StrengthCb(x, level) ==
  LET news == {n \in DOMAIN x.net \cap DOMAIN level : x.net[n].level # level[n]}
      y == [x EXCEPT !.net = [n \in DOMAIN @ |-> IF n \in news THEN [@[n] EXCEPT !.level = level[n]] ELSE @[n]]]
  IN  FoldLeft(Conf, y, SetToSeq(news))

\* iw_init_cb, which also registers the agent.  When the plug-in is not active
\* there is no table, and what is put into it is lost.
ObjectsHandle(x, msg) ==
  LET y == Send(StationHandle(x, msg.v), [op |-> "agent", inst |-> msg.inst])
      nets == SetToSeq(DOMAIN msg.net)
  IN  IF ~x.active THEN FoldLeft(Conf, y, nets)
      ELSE FoldLeft(LAMBDA z, n : NetworkHandle(z, n, msg.net[n], TRUE),
                    [y EXCEPT !.known = @ \cup msg.known], nets)

\* iw_agent_method, iw_secret_agent_new
SecretAgentNew(x, n, id) ==
  IF n \notin DOMAIN x.net THEN x ELSE Emit([x EXCEPT !.inv = id], Prompt(n, id))
SecretCancel(x) == Emit([x EXCEPT !.inv = 0], Trigger("wifi-secret-cancel", "dialog"))

Handled(x, msg) ==
  CASE msg.k = "appeared" -> Activate(x, msg.inst)
    [] msg.k = "gone"     -> Deactivate(x)
    [] msg.k = "objects"  -> ObjectsHandle(x, msg)
    [] msg.k = "station"  -> StationHandle(x, msg.v)
    [] msg.k = "network"  -> NetworkHandle(x, msg.of, msg.v, FALSE)
    [] msg.k = "added"    -> NetworkHandle(x, msg.of, msg.v, TRUE)
    [] msg.k = "removed"  -> NetworkRemove(x, msg.of)
    [] msg.k = "known"    -> [x EXCEPT !.known = @ \cup {msg.of}]
    [] msg.k = "unknown"  -> [x EXCEPT !.known = @ \ {msg.of}]
    [] msg.k = "levels"   -> StrengthCb(x, msg.net)
    [] msg.k = "connect"  -> IF msg.of \in DOMAIN x.net THEN Conf(x, msg.of) ELSE x
    [] msg.k = "ask"      -> SecretAgentNew(x, msg.of, msg.id)
    [] msg.k = "cancel"   -> SecretCancel(x)

\* iw_network_disconnect
Disconnect(x, n) == IF x.device.conn = n THEN Send(x, [op |-> "disconnect"]) ELSE x

\* iw_network_forget
Forget(x, n) ==
  IF n \notin DOMAIN x.net THEN x
  ELSE Disconnect(IF x.net[n].known /\ n \in x.known THEN Send(x, [op |-> "forget", of |-> n]) ELSE x, n)

----------------------------------------------------------------------------
(* The pop-up *)

\* iw_expr_get: what WifiGet() says of a network that has a name
Info(x) == [n \in {n \in DOMAIN x.net : x.net[n].ssid} |-> x.net[n]]

\* iw_action_scan, iw_scan_start
UserScans ==
  /\ m.active /\ m.device # NoDevice /\ ~m.device.scanning
  /\ User(Send(Emit(m, Trigger("wifi-scan", "button")), [op |-> "scan"]))

\* iw_network_connect
Connect(n) == m.active /\ WifiConnects(n, Send(m, [op |-> "connect", of |-> n]))

\* iw_action_disconnect, iw_action_forget
UserDisconnects(n) == m.device.conn = n /\ User(Disconnect(m, n))
UserForgets(n) == n \in DOMAIN m.net /\ User(Forget(m, n))

\* The dialog's buttons: iw_action_secret
UserAnswers(ok) ==
  /\ rows.dialog # "none" /\ rows' = [rows EXCEPT !.dialog = "none"]
  /\ IF m.active /\ m.inv # 0
     THEN Does(Send([m EXCEPT !.inv = 0], [op |-> "secret", id |-> m.inv, ok |-> ok]))
     ELSE UNCHANGED <<m, out, trig>>
  /\ UNCHANGED <<s, q, steps>>

----------------------------------------------------------------------------

\* The networks are alike: it is enough that the first one is there, or connected
Init ==
  /\ \E there \in {{}, {CHOOSE n \in Nets : TRUE}, Nets}, known \in {{}, Nets}, level \in Levels,
        conn \in {CHOOSE n \in Nets : TRUE, "none"} :
       /\ conn \in (there \cap known) \cup {"none"}
       /\ s = ServiceUp([n \in Nets |-> [there |-> n \in there, known |-> n \in known, level |-> level]], conn)
  /\ m = New /\ q = <<[k |-> "appeared", inst |-> 1]>> /\ out = <<>>
  /\ trig = <<>> /\ rows = WifiBlank
  /\ steps = 0

\* A message is read, a trigger handled; what else goes on by itself; and what the
\* user and the world may do
Turns == Reads(Handled(m, Head(q))) \/ WifiHandles(Info(m))
Works ==
  \/ Serves \/ Asks
  \/ \E ok \in BOOLEAN : Connects(ok)
  \/ \E there \in SUBSET Nets, level \in Levels : ScanEnds(there, level)
  \/ \E there \in SUBSET Nets : Starts(there)
Acts ==
  \/ ScanStarts \/ GivesUp \/ LinkLost \/ Exits \/ UserScans
  \/ \E n \in Nets : Connect(n) \/ UserDisconnects(n) \/ UserForgets(n)
  \/ \E ok \in BOOLEAN : UserAnswers(ok)
Next == Turns \/ Works \/ Acts

----------------------------------------------------------------------------
(* Properties *)

\* At rest the daemon may still wait for a passphrase
Quiet == s.up /\ ~s.scanning /\ (s.target = "none" \/ s.asking # 0) /\ Idle

\* Every variable keeps its type; nothing waits within a handler.
TypeOK ==
  /\ DOMAIN s.net = Nets /\ s.conn \in Nets \cup {"none"} /\ s.target \in Nets \cup {"none"}
  /\ DOMAIN m.net \subseteq Nets /\ m.known \subseteq Nets /\ m.emit = <<>> /\ m.out = <<>>
  /\ DOMAIN rows.row \subseteq Nets \X BOOLEAN /\ rows.dialog \in Nets \cup {"none"}
  /\ steps \in 0..MaxSteps

\* doc/sfwbar-wifi.rst, wifi-conf: "emitted when a new wireless network is
\* discovered or properties of a network have changed": at rest each network
\* that the daemon sees has a row where it belongs, which shows whether it is
\* connected and not that it is connecting, and once a scan has ended its
\* strength; a network that is gone has none, unless it went while the daemon
\* was away.  The button does not say "Scanning ...", and a request for a
\* passphrase has its dialog.
ShownAsIs ==
  Quiet /\ ~s.crossed =>
    /\ \A n \in There(s) :
         LET row == rows.row[<<n, s.net[n].known>>]
         IN  /\ <<n, s.net[n].known>> \in WifiRows(n)
             /\ row.connected = (s.conn = n)
             /\ s.target # n => row.note = "type"
             /\ s.scanned => row.level = s.net[n].level
    /\ s.inst = 1 => \A n \in Nets \ There(s) : WifiRows(n) = {}
    /\ s.inst = 1 \/ s.scanned => rows.scan = "Scan"
    /\ s.asking # 0 => rows.dialog = s.target /\ m.inv = s.asking
=============================================================================
