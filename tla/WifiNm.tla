------------------------------- MODULE WifiNm -------------------------------
(* The NetworkManager plug-in (modules/wifi-nm.c): access points and the     *)
(* networks that they make up, connections, the one that is active, and the  *)
(* passphrases that the service asks for, with what the pop-up shows.        *)
(*                                                                           *)
(* There is one wireless device, which keeps its path, a network has at most *)
(* one connection, named after it, and is told by its name alone.  Strengths *)
(* are counted in tens of a percent: smaller changes are not passed on.  The *)
(* threshold of the strength is never set and is 0.  An old connection is    *)
(* removed before a new one has an access point.  The button that scans is   *)
(* left out.                                                                 *)
EXTENDS Plugin

CONSTANTS
  NetOf,   \* the network of each access point
  Tens     \* strengths, none of them 0

Aps == DOMAIN NetOf
Ssids == Range(NetOf)
MaxOf(S) == CHOOSE x \in S \cup {0} : \A y \in S : y <= x

----------------------------------------------------------------------------
(* The service *)

\* inst: which run; aps: those there, with their strengths; conns: networks that
\* have a connection; act: the active connection, if any (id), with its access point;
\* need: does it need a passphrase; asking: its request for one, 0 if none; olds: those
\* of connections that ended meanwhile, not cancelled yet; agent: whom it may ask is
\* known; crossed: as for IWD
NoAct == [id |-> 0, net |-> "none", ap |-> "/"]
ServiceUp(aps, conns, act) ==
  [up |-> TRUE, inst |-> 1, match |-> FALSE, aps |-> aps, conns |-> conns, act |-> act, last |-> act.id,
   need |-> FALSE, asking |-> 0, olds |-> {}, agent |-> FALSE, crossed |-> FALSE]

NetsThere(v) == {NetOf[a] : a \in DOMAIN v.aps}
Active(v) == [k |-> "active", id |-> v.act.id, ap |-> v.act.ap]
Ends(v) == [v EXCEPT !.act = NoAct, !.need = FALSE, !.asking = 0,
                     !.olds = @ \cup IF v.asking = 0 THEN {} ELSE {[of |-> v.act.net, id |-> v.asking]}]
EndSignals(v) == IF v.act.id = 0 THEN <<>> ELSE <<[k |-> "inactive", id |-> v.act.id]>>

Objects(v) == [k |-> "objects", inst |-> v.inst, aps |-> v.aps, conns |-> v.conns, act |-> v.act]

\* A connection to a network is activated, made if it must be
Activates(n, made) ==
  IF ~s.up \/ n \notin NetsThere(s) \/ (~made /\ n \notin s.conns) THEN UNCHANGED <<s, q>>
  ELSE LET v == [Ends(s) EXCEPT !.act = [id |-> s.last + 1, net |-> n, ap |-> "/"], !.last = @ + 1,
                                !.conns = @ \cup {n}, !.need = made]
       IN  Emits(v, (IF n \in s.conns THEN <<>> ELSE <<Signal("conn", n)>>)
                      \o EndSignals(s) \o <<Active(v)>>, <<>>)

\* The service reads a call
Answers(c) ==
  CASE c.op = "match" -> s' = [s EXCEPT !.match = s.up /\ (@ \/ c.inst = s.inst)] /\ UNCHANGED q
    [] c.op = "objects" -> Emits([s EXCEPT !.crossed = @ \/ c.inst # s.inst], <<>>,
                                 IF s.up THEN <<Objects(s)>> ELSE <<>>)
    [] c.op = "agent" -> s' = [s EXCEPT !.agent = s.up] /\ UNCHANGED q
    [] c.op = "settings" -> Emits(s, <<>>, IF s.up /\ c.of \in s.conns THEN <<Signal("settings", c.of)>> ELSE <<>>)
    [] c.op \in {"activate", "add"} -> Activates(c.of, c.op = "add")
    [] c.op = "deactivate" -> IF s.act.id # c.id THEN UNCHANGED <<s, q>> ELSE Emits(Ends(s), EndSignals(s), <<>>)
    [] c.op = "delete" ->
         LET v == [s EXCEPT !.conns = @ \ {c.of}]
         IN  IF ~s.up \/ c.of \notin s.conns THEN UNCHANGED <<s, q>>
             ELSE IF s.act.net = c.of THEN Emits(Ends(v), EndSignals(s) \o <<Signal("noconn", c.of)>>, <<>>)
             ELSE Emits(v, <<Signal("noconn", c.of)>>, <<>>)
    [] c.op = "secret" ->
         IF ~s.up \/ s.asking # c.id
         THEN s' = [s EXCEPT !.olds = {r \in @ : r.id # c.id}] /\ UNCHANGED q
         ELSE IF c.ok THEN s' = [s EXCEPT !.asking = 0, !.need = FALSE] /\ UNCHANGED q
         ELSE Emits(Ends([s EXCEPT !.asking = 0]), EndSignals(s), <<>>)

Serves ==
  /\ out # <<>> /\ out' = Tail(out)
  /\ Answers(Head(out))
  /\ UNCHANGED <<m, trig, rows, steps>>

ByItself(v, signals, replies) == Emits(v, signals, replies) /\ UNCHANGED <<m, out, trig, rows, steps>>

\* It asks for the passphrase, once at a time for a connection, finds the access
\* point, or fails
Asks ==
  /\ s.need /\ s.agent /\ s.asking = 0
  /\ LET again == {r \in s.olds : r.of = s.act.net}
     IN  ByItself([s EXCEPT !.asking = s.act.id, !.olds = @ \ again], <<>>,
                  (IF again = {} THEN <<>> ELSE <<Signal("cancel", s.act.net)>>)
                    \o <<[k |-> "ask", of |-> s.act.net, id |-> s.act.id]>>)
Connects(a) ==
  /\ s.act.id # 0 /\ s.act.ap = "/" /\ ~s.need /\ a \in DOMAIN s.aps /\ NetOf[a] = s.act.net
  /\ LET v == [s EXCEPT !.act.ap = a] IN ByItself(v, <<Active(v)>>, <<>>)
Fails ==
  /\ s.act.id # 0 /\ s.act.ap = "/" /\ s.asking = 0 /\ ~(s.need /\ s.agent)
  /\ ByItself(Ends(s), EndSignals(s), <<>>)

ApHeard(a, ten) ==
  /\ s.up /\ IF a \in DOMAIN s.aps THEN s.aps[a] # ten ELSE ten = MaxOf(Tens)
  /\ LET v == [s EXCEPT !.aps = (a :> ten) @@ @]
     IN  Happens(v, <<Change(IF a \in DOMAIN s.aps THEN "ap" ELSE "newap", a, ten)>>)
ApLost(a) ==
  /\ s.up /\ a \in DOMAIN s.aps /\ a # s.act.ap
  /\ LET v == [s EXCEPT !.aps = Restrict(@, DOMAIN @ \ {a})]
     IN  s.act.net \in NetsThere(v) \cup {"none"} /\ Happens(v, <<Signal("noap", a)>>)
LinkLost == s.act.ap # "/" /\ Happens(Ends(s), EndSignals(s))
Roams(a) ==
  /\ s.act.ap # "/" /\ a \in DOMAIN s.aps /\ NetOf[a] = s.act.net /\ a # s.act.ap
  /\ LET v == [s EXCEPT !.act.ap = a] IN Happens(v, <<Active(v)>>)
GivesUp ==
  /\ s.asking # 0 /\ steps < MaxSteps /\ steps' = steps + 1
  /\ Emits(Ends([s EXCEPT !.asking = 0]), <<>>,
           <<Signal("cancel", s.act.net)>> \o (IF s.match THEN EndSignals(s) ELSE <<>>))
  /\ UNCHANGED <<m, out, trig, rows>>
\* ... what it asked for a connection that has ended, whatever it asks for by now
Cancels ==
  \E r \in s.olds : ByItself([s EXCEPT !.olds = @ \ {r}], <<>>, <<Signal("cancel", r.of)>>)

\* The service exits, and starts again with the access points that it then finds
Exits ==
  /\ s.up /\ steps < MaxSteps /\ steps' = steps + 1
  /\ s' = [Ends(s) EXCEPT !.up = FALSE, !.inst = @ + 1, !.match = FALSE, !.agent = FALSE,
                       !.olds = {}]
  /\ q' = Append(q, [k |-> "gone"])
  /\ UNCHANGED <<m, out, trig, rows>>
Starts(aps) ==
  /\ ~s.up
  /\ s' = [s EXCEPT !.up = TRUE, !.aps = Restrict(@, aps)]
  /\ q' = Append(q, [k |-> "appeared", inst |-> s.inst])
  /\ UNCHANGED <<m, out, trig, rows, steps>>

----------------------------------------------------------------------------
(* The plug-in *)

\* active: are its functions there; nodes: ap_nodes; nets: apoint_list, node is
\* active_node; acts: active_list; conns: conn_list; inv, path: nm_secret_inv,
\* nm_secret_path; secrets.  left: networks that were left, and weak, that lost an
\* access point, without a trigger since; unasked: is there no dialog
\* for the request whose turn it is; stray: was something freed kept
New == [active |-> FALSE, nodes |-> <<>>, nets |-> <<>>, acts |-> <<>>, conns |-> {}, inv |-> 0,
        path |-> "none", secrets |-> <<>>, left |-> {}, weak |-> {}, unasked |-> FALSE,
        stray |-> FALSE, emit |-> <<>>, out |-> <<>>]

NodesOf(x, n) == {a \in DOMAIN x.nodes : NetOf[a] = n}
Strongest(x, n) == MaxOf({x.nodes[a].strength : a \in NodesOf(x, n)})

\* nm_apoint_update
ApointUpdate(x, n) ==
  IF x.nets[n].visible THEN [Emit(x, Trigger("wifi-conf", n)) EXCEPT !.left = @ \ {n}]
  ELSE Emit(x, Trigger("wifi-conf-removed", n))

\* nm_apoint_ssid_update
SsidUpdate(x, n) ==
  IF n \in DOMAIN x.nets THEN ApointUpdate([x EXCEPT !.nets[n].conn = n \in x.conns], n) ELSE x

\* nm_ap_node_active_update, and whether it changed anything
NodeActive(x, a) ==
  LET id == MaxOf({i \in DOMAIN x.acts : x.acts[i].ap = a})
      n == NetOf[a]
      y == [x EXCEPT !.nodes[a].active = id]
  IN  IF id # 0 THEN [y EXCEPT !.nets[n].node = a, !.acts[id].net = n]
      ELSE IF x.nets[n].node = a THEN [y EXCEPT !.nets[n].node = "none"] ELSE y

\* nm_ap_node_handle
NodeHandle(x, a, strength) ==
  LET n == NetOf[a]
      none == [strength |-> 0, node |-> "none", conn |-> FALSE, visible |-> FALSE]
      known == a \in DOMAIN x.nodes
      y == IF known THEN x
           ELSE SsidUpdate([x EXCEPT !.nodes = (a :> [strength |-> 0, active |-> 0]) @@ @,
                                     !.nets = @ @@ (n :> none)], n)
      z == [NodeActive(y, a) EXCEPT !.nodes[a].strength = strength]
      w == [z EXCEPT !.nets[n].strength = Strongest(z, n), !.nets[n].visible = TRUE, !.weak = @ \ {n}]
      change == ~known \/ NodeActive(y, a) # y \/ y.nets[n].strength # Strongest(z, n)
  IN  IF change THEN ApointUpdate(w, n) ELSE w

\* nm_ap_node_free: the strength of what is left of the network stays
NodeFree(x, a) ==
  IF a \notin DOMAIN x.nodes THEN x
  ELSE LET n == NetOf[a]
           y == IF x.nets[n].node # a THEN x
                ELSE [x EXCEPT !.acts[x.nodes[a].active].net = "none", !.nets[n].node = "none"]
           z == [y EXCEPT !.nodes = Restrict(@, DOMAIN @ \ {a})]
       IN  IF NodesOf(z, n) # {} THEN [z EXCEPT !.weak = @ \cup {n}]
           ELSE Emit([z EXCEPT !.nets = Restrict(@, DOMAIN @ \ {n})], Trigger("wifi-conf-removed", n))

\* nm_active_handle
ActiveHandle(x, id, ap) ==
  LET y == [x EXCEPT !.acts = @ @@ (id :> [ap |-> "none", net |-> "none"])]
      z == [y EXCEPT !.acts[id].ap = ap]
      w == IF ap \in DOMAIN x.nodes THEN NodeActive(z, ap) ELSE z
  IN  IF y.acts[id].ap = ap THEN y
      ELSE IF w # z /\ w.acts[id].net # "none" THEN ApointUpdate(w, w.acts[id].net) ELSE w

\* nm_active_free, which emits nothing
ActiveFree(x, id) ==
  IF id \notin DOMAIN x.acts THEN x
  ELSE LET n == x.acts[id].net
           y == [x EXCEPT !.acts = Restrict(@, DOMAIN @ \ {id})]
       IN  IF n = "none" THEN y
           ELSE LET z == [y EXCEPT !.nets[n].node = "none", !.left = @ \cup {n}]
                IN  IF y.nets[n].node = "none" THEN z ELSE [z EXCEPT !.nodes[y.nets[n].node].active = 0]

\* nm_conn_handle_cb.  The key of the table belongs to the connection that is
\* freed when another takes its place.
ConnHandle(x, n) == SsidUpdate([x EXCEPT !.conns = @ \cup {n}, !.stray = @ \/ n \in x.conns], n)

\* nm_conn_free
ConnFree(x, n) == IF n \in x.conns THEN SsidUpdate([x EXCEPT !.conns = @ \ {n}], n) ELSE x

\* nm_object_list_cb, nm_object_handle
ObjectsHandle(x, msg) ==
  LET y == FoldLeft(LAMBDA z, a : NodeHandle(z, a, msg.aps[a]), x, SetToSeq(DOMAIN msg.aps))
      z == FoldLeft(LAMBDA u, n : Send(u, [op |-> "settings", of |-> n]), y, SetToSeq(msg.conns))
  IN  Send(IF msg.act.id = 0 THEN z ELSE ActiveHandle(z, msg.act.id, msg.act.ap), [op |-> "agent"])

\* nm_activate, nm_deactivate
Activate(x, inst) ==
  Send(Send([x EXCEPT !.active = TRUE], [op |-> "match", inst |-> inst]), [op |-> "objects", inst |-> inst])
Deactivate(x) ==
  LET y == FoldLeft(ActiveFree, x, SetToSeq(DOMAIN x.acts))
      z == FoldLeft(ConnFree, y, SetToSeq(x.conns))
  IN  [FoldLeft(NodeFree, z, SetToSeq(DOMAIN x.nodes)) EXCEPT !.active = FALSE]

\* nm_secret_agent_emit
SecretEmit(x) ==
  IF x.secrets = <<>> THEN x
  ELSE LET c == Head(x.secrets)
           y == [x EXCEPT !.secrets = Tail(@), !.inv = c.id, !.path = c.of, !.unasked = c.of \notin x.conns]
       IN  IF c.of \in x.conns THEN Emit(y, Prompt(c.of, c.id)) ELSE y

\* nm_secret_agent_new
SecretNew(x, n, id) ==
  LET y == [x EXCEPT !.secrets = Append(@, [of |-> n, id |-> id])]
  IN  IF x.inv = 0 THEN SecretEmit(y) ELSE y

\* nm_secret_agent_cancel, which closes the dialog whatever it is for, and does not
\* emit the next request
SecretCancel(x, n) ==
  LET at == SelectInSeq(x.secrets, LAMBDA c : c.of = n)
      y == IF x.path = n THEN [x EXCEPT !.path = "none", !.inv = 0]
           ELSE IF at # 0 THEN [x EXCEPT !.secrets = RemoveAt(@, at)] ELSE x
  IN  Emit([y EXCEPT !.unasked = y.inv # 0 \/ y.secrets # <<>>], Trigger("wifi-secret-cancel", "dialog"))

\* nm_object_changed, nm_object_new, nm_object_removed, nm_secret_agent_method
Handled(x, msg) ==
  CASE msg.k = "appeared" -> Activate(x, msg.inst)
    [] msg.k = "gone"     -> Deactivate(x)
    [] msg.k = "objects"  -> ObjectsHandle(x, msg)
    [] msg.k = "newap"    -> NodeHandle(x, msg.of, msg.v)
    [] msg.k = "ap"       -> IF msg.of \in DOMAIN x.nodes THEN NodeHandle(x, msg.of, msg.v) ELSE x
    [] msg.k = "noap"     -> NodeFree(x, msg.of)
    [] msg.k = "active"   -> ActiveHandle(x, msg.id, msg.ap)
    [] msg.k = "inactive" -> ActiveFree(x, msg.id)
    [] msg.k = "conn"     -> Send(x, [op |-> "settings", of |-> msg.of])
    [] msg.k = "settings" -> ConnHandle(x, msg.of)
    [] msg.k = "noconn"   -> ConnFree(x, msg.of)
    [] msg.k = "ask"      -> SecretNew(x, msg.of, msg.id)
    [] msg.k = "cancel"   -> SecretCancel(x, msg.of)

\* nm_conn_new
ConnNew(n) ==
  /\ n \in DOMAIN m.nets
  /\ WifiConnects(n, Send(m, [op |-> IF m.nets[n].conn THEN "activate" ELSE "add", of |-> n]))

\* nm_active_disconnect, nm_action_forget
Disconnect(n) ==
  /\ n \in DOMAIN m.nets /\ m.nets[n].node # "none"
  /\ User(Send(m, [op |-> "deactivate", id |-> m.nodes[m.nets[n].node].active]))
Forget(n) == n \in DOMAIN m.nets /\ n \in m.conns /\ User(Send(m, [op |-> "delete", of |-> n]))

\* nm_action_secret
Secret(ok) ==
  /\ rows.dialog # "none" /\ rows' = [rows EXCEPT !.dialog = "none"]
  /\ IF ~m.active THEN UNCHANGED <<m, out, trig>>
     ELSE LET x == IF m.inv = 0 THEN m ELSE Send(m, [op |-> "secret", id |-> m.inv, ok |-> ok])
          IN  Does(SecretEmit([x EXCEPT !.inv = 0, !.path = "none", !.unasked = FALSE]))
  /\ UNCHANGED <<s, q, steps>>

\* nm_ap_get_info
Info(x) == [n \in DOMAIN x.nets |-> [known |-> x.nets[n].conn, connected |-> x.nets[n].node # "none",
                                     level |-> x.nets[n].strength]]

----------------------------------------------------------------------------

\* An access point is away; another is in use, or no network is known
Init ==
  /\ \E away \in Aps, used \in BOOLEAN :
       LET ap == CHOOSE a \in Aps : TRUE
       IN  /\ away # ap
           /\ s = ServiceUp([a \in Aps \ {away} |-> MaxOf(Tens)], IF used THEN Ssids ELSE {},
                            IF used THEN [id |-> 1, net |-> NetOf[ap], ap |-> ap] ELSE NoAct)
  /\ m = New /\ q = <<[k |-> "appeared", inst |-> 1]>> /\ out = <<>>
  /\ trig = <<>> /\ rows = WifiBlank
  /\ steps = 0

\* A message is read, a trigger handled; what else goes on by itself; and what the
\* user and the world may do
Turns == Reads(Handled(m, Head(q))) \/ WifiHandles(Info(m))
Works ==
  \/ Serves \/ Asks \/ Fails
  \/ \E a \in Aps : Connects(a)
  \/ \E gone \in DOMAIN s.aps \cup {"none"} : Starts(DOMAIN s.aps \ {gone})
Acts ==
  \/ GivesUp \/ Cancels \/ LinkLost \/ Exits
  \/ \E a \in Aps : ApLost(a) \/ Roams(a) \/ \E ten \in Tens : ApHeard(a, ten)
  \/ \E n \in Ssids : ConnNew(n) \/ Disconnect(n) \/ Forget(n)
  \/ \E ok \in BOOLEAN : Secret(ok)

----------------------------------------------------------------------------
(* Properties *)

\* At rest the service may still wait for a passphrase
Quiet == s.up /\ (s.act.ap # "/" \/ s.act.id = 0 \/ s.asking # 0) /\ Idle

\* Every variable keeps its type; nothing waits within a handler.
TypeOK ==
  /\ DOMAIN s.aps \subseteq Aps /\ s.conns \subseteq Ssids /\ s.act.net \in Ssids \cup {"none"}
  /\ DOMAIN m.nodes \subseteq Aps /\ m.conns \subseteq Ssids /\ m.emit = <<>> /\ m.out = <<>>
  /\ DOMAIN rows.row \subseteq Ssids \X BOOLEAN /\ rows.dialog \in Ssids \cup {"none"}
  /\ steps \in 0..MaxSteps

\* A network is listed as long as it has an access point; the one that is in use
\* has a connection and is the one that the connection knows: what nm_ap_node_free and
\* nm_active_free follow is there.
Linked ==
  /\ DOMAIN m.nets = {NetOf[a] : a \in DOMAIN m.nodes}
  /\ \A n \in DOMAIN m.nets :
       LET a == m.nets[n].node
       IN  a # "none" => /\ a \in DOMAIN m.nodes /\ m.nodes[a].active \in DOMAIN m.acts
                         /\ m.acts[m.nodes[a].active].net = n
  /\ \A id \in DOMAIN m.acts : m.acts[id].net \in DOMAIN m.nets \cup {"none"}

\* doc/sfwbar-wifi.rst, wifi-conf: at rest each network that the service sees has a
\* row where it belongs, which shows whether it is connected and its strength, a
\* network that is gone has none, and a request for a passphrase has its dialog or
\* waits for the one that has it.  Left out are a network that was left, or lost an
\* access point, without a trigger since; requests of an earlier run; a request whose
\* turn has come that has no dialog as it came before its connection's settings, or
\* as another was cancelled, which closes the dialog and leaves what waits waiting;
\* and all after a request for all objects was answered by another run, or a
\* connection that was freed is kept.
ShownAsIs ==
  /\ Linked
  /\ Quiet /\ ~s.crossed /\ ~m.stray =>
       /\ \A n \in NetsThere(s) :
            LET row == rows.row[<<n, n \in s.conns>>]
            IN  /\ <<n, n \in s.conns>> \in WifiRows(n)
                /\ n \notin m.left => row.connected = (s.act.ap \in Aps /\ s.act.net = n)
                /\ n \notin m.weak => row.level = MaxOf({s.aps[a] : a \in {b \in DOMAIN s.aps : NetOf[b] = n}})
       /\ \A n \in Ssids \ NetsThere(s) : WifiRows(n) = {}
       /\ s.asking # 0 /\ s.inst = 1 =>
            \/ m.inv = s.asking /\ (m.unasked \/ rows.dialog = s.act.net)
            \/ /\ [of |-> s.act.net, id |-> s.asking] \in Range(m.secrets)
               /\ m.unasked \/ (m.inv # 0 /\ rows.dialog = m.path)
=============================================================================
