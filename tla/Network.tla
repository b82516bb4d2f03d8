------------------------------ MODULE Network ------------------------------
(* The network plug-in (modules/network.c, its Linux part): the interfaces   *)
(* that it lists from what rtnetlink tells it, the one of the default route, *)
(* the sample of its traffic that each poll allows, and the widgets that     *)
(* show them.                                                                *)
(*                                                                           *)
(* out holds the requests for all routes, which are made 100 ms after the    *)
(* last change of a route.  An interface has at most one default route, and  *)
(* goes with its address.  Addresses are told apart by a number; gateways,   *)
(* masks, IPv6 and the signal are left out.                                  *)
EXTENDS Plugin

CONSTANTS
  Ifaces,  \* names
  Wrap     \* a counter of bytes is kept modulo this

None == "none"

----------------------------------------------------------------------------
(* The kernel: the interfaces with a default route, the best first; the      *)
(* address of each, 0 for none; the wireless network of each; all bytes ever *)
(* received; large: is the reply to a request for all routes sent in two     *)
(* datagrams, of which the second has no default route; lone: was there a    *)
(* change of an address without one of the routes                            *)

Kernel(large) ==
  [match |-> TRUE, routes |-> <<>>, ip |-> [i \in Ifaces |-> 0], essid |-> [i \in Ifaces |-> 0],
   total |-> 0, large |-> large, lone |-> FALSE]

RouteEvent == Signal("route", None)

Dump == <<[k |-> "dump", routes |-> s.routes]>> \o (IF s.large THEN <<[k |-> "dump", routes |-> <<>>]>> ELSE <<>>)
Serves ==
  /\ out # <<>> /\ out' = Tail(out)
  /\ Emits(s, <<>>, Dump)
  /\ UNCHANGED <<m, trig, rows, steps>>

\* An interface gets an address, a default route that is the best or the worst,
\* and loses the route, or the address and with it the route
AddressGained(i) == s.ip[i] = 0 /\ Happens([s EXCEPT !.ip[i] = steps + 1], <<Signal("newaddr", i)>>)
RouteAdded(i, best) ==
  /\ s.ip[i] # 0 /\ i \notin Range(s.routes)
  /\ Happens([s EXCEPT !.routes = IF best THEN <<i>> \o @ ELSE Append(@, i)], <<RouteEvent>>)
RouteDeleted(i) ==
  i \in Range(s.routes) /\ Happens([s EXCEPT !.routes = SelectSeq(@, LAMBDA r : r # i)], <<RouteEvent>>)
AddressLost(i) ==
  /\ s.ip[i] # 0
  /\ Happens([s EXCEPT !.ip[i] = 0, !.routes = SelectSeq(@, LAMBDA r : r # i)],
             <<Signal("deladdr", i)>> \o IF i \in Range(s.routes) THEN <<RouteEvent>> ELSE <<>>)
\* ... loses another address that it has
SecondaryLost(i) ==
  s.ip[i] # 0 /\ Happens([s EXCEPT !.lone = @ \/ i \in Range(s.routes)], <<Signal("deladdr", i)>>)
Roams(i) == Happens([s EXCEPT !.essid[i] = 1 - @], <<Signal("newlink", i)>>)
Receives(bytes) == Happens([s EXCEPT !.total = @ + bytes], <<>>)

----------------------------------------------------------------------------
(* The plug-in *)

\* iface_list; route; net_timeout: does the timer run
New == [list |-> <<>>, route |-> None, net_timeout |-> FALSE, emit |-> <<>>, out |-> <<>>]

\* rx and prx with, of either, all bytes received by then
Sample == [rx |-> 0, at |-> 0, prx |-> 0, pat |-> 0]
Iface(i) == [name |-> i, ip |-> 0, essid |-> None, invalid |-> FALSE, sample |-> Sample]

At(x, i) == SelectInSeq(x.list, LAMBDA f : f.name = i)
Changed(x) == Emit(x, Trigger("network", "all"))

\* net_iface_get
IfaceGet(x, i) == IF At(x, i) = 0 THEN [x EXCEPT !.list = <<Iface(i)>> \o @] ELSE x

\* net_iface_unref, iface_free: the first of the list takes the place of the
\* default route's interface, whether it has a route or not
IfaceUnref(x, i) ==
  IF At(x, i) = 0 THEN x
  ELSE LET list == RemoveAt(x.list, At(x, i))
           next == IF list = <<>> THEN None ELSE Head(list).name
       IN  Changed([x EXCEPT !.list = list, !.route = IF @ = i THEN next ELSE @])

\* net_update_essid
UpdateEssid(x, i) ==
  IF At(x, i) = 0 \/ x.list[At(x, i)].essid = ToString(s.essid[i]) THEN x
  ELSE Changed([x EXCEPT !.list[At(x, i)].essid = ToString(s.essid[i])])

\* net_update_ifaddrs: an interface without an address keeps the one it had
UpdateIfaddrs(x) ==
  [x EXCEPT !.list = [k \in DOMAIN @ |-> [@[k] EXCEPT !.ip = IF s.ip[x.list[k].name] = 0 THEN @
                                                           ELSE s.ip[x.list[k].name]]]]

\* net_iface_update
IfaceUpdate(x, i) == Changed([UpdateIfaddrs(UpdateEssid(IfaceGet(x, i), i)) EXCEPT !.route = i])

\* net_rt_parse: the first default route of a datagram is taken, and one without
\* a default route clears it
Parse(x, msg) ==
  CASE msg.k = "deladdr" -> IfaceUnref(x, msg.of)
    [] msg.k = "newlink" -> UpdateEssid(x, msg.of)
    [] msg.k = "route" -> [x EXCEPT !.net_timeout = TRUE]
    [] msg.k = "dump" /\ msg.routes # <<>> -> IfaceUpdate(x, Head(msg.routes))
    [] msg.k = "dump" /\ msg.routes = <<>> -> Changed([x EXCEPT !.route = None])
    [] OTHER -> x

ReadsMessage == q # <<>> /\ q' = Tail(q) /\ DoesInTurn(Parse(m, Head(q))) /\ UNCHANGED <<s, rows, steps>>

\* net_rt_request_src, on main: a change of a route starts the timer again
RequestSrc ==
  /\ m.net_timeout
  /\ DoesInTurn(Send([m EXCEPT !.net_timeout = FALSE], "getroute"))
  /\ UNCHANGED <<s, q, rows, steps>>

\* sfwbar_module_invalidate
Invalidate ==
  /\ steps < MaxSteps /\ steps' = steps + 1
  /\ m' = [m EXCEPT !.list = [k \in DOMAIN @ |-> [@[k] EXCEPT !.invalid = TRUE]]]
  /\ UNCHANGED <<s, q, out, trig, rows>>

\* net_update_traffic
UpdateTraffic(f) ==
  IF ~f.invalid THEN f
  ELSE [f EXCEPT !.sample = [rx |-> s.total % Wrap, at |-> s.total, prx |-> @.rx, pat |-> @.at],
                 !.invalid = FALSE]

\* network_func_netstat, "rxrate": what was received, and what it stands for
Rate(f) == [diff |-> (f.sample.rx - f.sample.prx) % Wrap, moved |-> f.sample.at - f.sample.pat]
PollsRate ==
  /\ m.route # None /\ m.list[At(m, m.route)].invalid
  /\ LET k == At(m, m.route)
         f == UpdateTraffic(m.list[k])
     IN  m' = [m EXCEPT !.list[k] = f] /\ rows' = [rows EXCEPT !.rate = Rate(f)]
  /\ UNCHANGED <<s, q, out, trig, steps>>

\* network_func_netinfo without an interface, for the widgets that depend on
\* "network"
NetInfo(x) ==
  IF x.route = None THEN [interface |-> None, ip |-> 0, essid |-> None]
  ELSE LET f == x.list[At(x, x.route)] IN [interface |-> f.name, ip |-> f.ip, essid |-> f.essid]
Handles == Shows([rows EXCEPT !.info = NetInfo(m)])

----------------------------------------------------------------------------

Init ==
  /\ \E large \in BOOLEAN : s = Kernel(large)
  /\ m = New /\ q = <<>> /\ out = <<"getroute">> /\ trig = <<>>
  /\ rows = [info |-> NetInfo(New), rate |-> [diff |-> 0, moved |-> 0]]
  /\ steps = 0

\* A message is read, a trigger handled; what else goes on by itself; and what the
\* user and the world may do
Turns == ReadsMessage \/ Handles
Works == Serves \/ RequestSrc \/ PollsRate
Acts ==
  \/ \E i \in Ifaces : \/ AddressGained(i) \/ RouteDeleted(i) \/ AddressLost(i) \/ SecondaryLost(i)
                       \/ Roams(i) \/ \E best \in BOOLEAN : RouteAdded(i, best)
  \/ \E bytes \in 1..(Wrap - 1) : Receives(bytes)
  \/ Invalidate

----------------------------------------------------------------------------
(* Properties *)

Quiet == Idle /\ ~m.net_timeout

\* Every variable keeps its type, the interface of the default route is listed;
\* nothing waits within a handler.
TypeOK ==
  /\ Range(s.routes) \subseteq {i \in Ifaces : s.ip[i] # 0}
  /\ m.route # None => At(m, m.route) # 0
  /\ Cardinality({f.name : f \in Range(m.list)}) = Len(m.list)
  /\ m.emit = <<>> /\ m.out = <<>> /\ steps \in 0..MaxSteps

\* doc/sfwbar-network.rst: NetInfo() without an interface is about the one of the
\* default gateway, and "network" is emitted whenever its properties change: with
\* nothing under way the widgets show the best default route's interface, its
\* address and its wireless network, or none.  Not so where the routes take two
\* datagrams, and once the interface lost an address but not the route.  A rate is
\* that of what was received between the last two samples, whether the counter
\* wrapped or not.
RouteShown ==
  /\ Quiet /\ ~s.large /\ ~s.lone =>
       rows.info = IF s.routes = <<>> THEN NetInfo(New)
                   ELSE [interface |-> Head(s.routes), ip |-> s.ip[Head(s.routes)],
                         essid |-> ToString(s.essid[Head(s.routes)])]
  /\ rows.rate.moved < Wrap => rows.rate.diff = rows.rate.moved
=============================================================================
