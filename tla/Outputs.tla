------------------------------ MODULE Outputs ------------------------------
(* A bar and its mirrors on the outputs (gui/bar.c, gui/monitor.c).          *)
(*                                                                           *)
(* Outputs come and go; GDK knows an output before its name is told, and a   *)
(* connector that is plugged in again is another output.  Each change has    *)
(* the bar look at all outputs when main is idle, again and again until all  *)
(* names are known.  The surface of a window on an output that goes is       *)
(* closed by the compositor, before or after main is told: a mirror goes     *)
(* with it, a bar looks for another output.  The mirrors' targets are set    *)
(* when the bar is configured and stay; nothing slides.                      *)
EXTENDS Naturals, Sequences, SequencesExt

CONSTANTS
  Ports,      \* the connectors
  Output,     \* the one that the bar is assigned to
  Targets,    \* those that the mirrors' patterns match
  MaxMoves    \* bound on the changes of the outputs and of the visibility

VARIABLES o, moves

None == [id |-> 0, port |-> "none"]

\* The name of an output, when it has been told
monitor_get_name(x, mon) == IF mon.id \in x.named THEN mon.port ELSE "none"

xdg_output_check(x) == \A i \in DOMAIN x.mons : monitor_get_name(x, x.mons[i]) # "none"

monitor_from_name(x, name) ==
  LET found == SelectSeq(x.mons, LAMBDA mon : monitor_get_name(x, mon) = name)
  IN IF found = <<>> THEN None ELSE found[1]

\* Does a name match a pattern, and none that is ruled out
bar_mirror_check(name) == name \in Targets

\* A mirror is made as a bar that is seen, and told only then that its bar is not (late)
bar_mirror(x, mon) ==
  [on |-> mon, mapped |-> TRUE, reveal |-> TRUE, visible |-> x.bar.visible, late |-> ~x.bar.visible]

\* The bar's output; without it, the first one unless the bar is static
Belongs(x) ==
  LET match == monitor_from_name(x, Output)
  IN IF match = None /\ x.jump /\ x.mons # <<>> THEN x.mons[1] ELSE match

Moved(x) ==
  LET mon == Belongs(x)
  IN IF x.bar.on = mon THEN x
     ELSE [x EXCEPT !.bar.on = mon, !.bar.late = FALSE,
                    !.bar.mapped = IF x.bar.visible THEN mon # None ELSE @]

\* Faulty variant of MadeRoom: the mirror stays.
MadeRoom_kept(x) == x

\* One mirror at the bar's new output goes
MadeRoom(x) ==
  LET at == SelectInSeq(x.mirrors, LAMBDA w : w.on = x.bar.on)
  IN IF at = 0 THEN x ELSE [x EXCEPT !.mirrors = RemoveAt(@, at)]

\* Each output that a mirror is for gets one, unless a window of the bar is there
Mirrored(x) ==
  LET Free(mon) == mon # x.bar.on /\ \A i \in DOMAIN x.mirrors : x.mirrors[i].on # mon
      new == SelectSeq(x.mons, LAMBDA mon : Free(mon) /\ bar_mirror_check(monitor_get_name(x, mon)))
  IN [x EXCEPT !.mirrors = Reverse([i \in DOMAIN new |-> bar_mirror(x, new[i])]) \o @]

bar_update_monitor(x) ==
  IF xdg_output_check(x) THEN Mirrored(MadeRoom(Moved(x))) ELSE x

\* The surface of a window on an output that went is closed
bar_on_delete(x, id) ==
  LET left == [x EXCEPT !.mirrors = SelectSeq(@, LAMBDA w : w.on.id # id)]
  IN IF x.bar.on.id = id THEN bar_update_monitor(left) ELSE left

\* bar_reveal shows the window wherever it is (late: a static bar without an output)
Toggled(w) ==
  [w EXCEPT !.visible = ~@, !.reveal = ~w.visible, !.mapped = ~w.visible,
            !.late = ~w.visible /\ w.on = None]

bar_visibility_toggle_all(x) ==
  [x EXCEPT !.bar = Toggled(@), !.mirrors = [i \in DOMAIN @ |-> Toggled(@[i])]]

----------------------------------------------------------------------------
(* mons: the outputs, named: those whose name was told; pending: is the bar  *)
(* to look at them; closing: the outputs that went with windows on them      *)

monitor_added_cb(x, port) ==
  [x EXCEPT !.mons = Append(@, [id |-> x.next, port |-> port]), !.next = @ + 1, !.pending = TRUE]

monitor_removed_cb(x, mon) ==
  [x EXCEPT !.mons = SelectSeq(@, LAMBDA other : other # mon), !.pending = TRUE,
            !.closing = IF x.bar.on = mon \/ \E i \in DOMAIN x.mirrors : x.mirrors[i].on = mon
                        THEN @ \cup {mon.id} ELSE @]

monitor_handle_name(x, mon) == [x EXCEPT !.named = @ \cup {mon.id}]

\* The bar is made on some output and is told where it belongs
Configured(ports, jump) ==
  LET mons == [i \in DOMAIN ports |-> [id |-> i, port |-> ports[i]]]
  IN bar_update_monitor(
       [mons |-> mons, named |-> DOMAIN ports, next |-> Len(ports) + 1, pending |-> FALSE,
        closing |-> {}, jump |-> jump, mirrors |-> <<>>,
        bar |-> [on |-> mons[1], mapped |-> TRUE, reveal |-> TRUE, visible |-> TRUE, late |-> FALSE]])

Init ==
  /\ moves = 0
  /\ \E ports \in UNION {SetToSeqs(s) : s \in SUBSET Ports \ {{}}}, jump \in BOOLEAN :
       o = Configured(ports, jump)

Works ==
  /\ UNCHANGED moves
  /\ \/ o.pending /\ o' = [bar_update_monitor(o) EXCEPT !.pending = ~xdg_output_check(o)]
     \/ \E id \in o.closing : o' = bar_on_delete([o EXCEPT !.closing = @ \ {id}], id)
     \/ \E mon \in Range(o.mons) : mon.id \notin o.named /\ o' = monitor_handle_name(o, mon)

Acts ==
  /\ moves < MaxMoves /\ moves' = moves + 1
  /\ \/ \E port \in Ports : (\A mon \in Range(o.mons) : mon.port # port) /\ o' = monitor_added_cb(o, port)
     \/ \E mon \in Range(o.mons) : o' = monitor_removed_cb(o, mon)
     \/ o' = bar_visibility_toggle_all(o)

----------------------------------------------------------------------------
(* Properties *)

\* Every variable keeps its type.
TypeOK ==
  /\ moves \in 0..MaxMoves
  /\ \A i \in DOMAIN o.mons : o.mons[i].port \in Ports /\ o.mons[i].id \in 1..o.next - 1
  /\ o.named \subseteq 1..o.next - 1 /\ o.closing \subseteq 1..o.next - 1

\* Is a window seen if it is meant to be, and where there is an output for it
Seen(w) == ~w.late => (w.mapped /\ w.reveal <=> w.visible /\ w.on # None)

\* The bar is where it belongs, and each of the other outputs that its mirrors are for
\* has one
OnOutputs ==
  /\ o.bar.on = Belongs(o) /\ Seen(o.bar)
  /\ \A i \in DOMAIN o.mirrors : Seen(o.mirrors[i]) /\ o.mirrors[i].visible = o.bar.visible
  /\ {o.mirrors[i].on : i \in DOMAIN o.mirrors} =
       {mon \in Range(o.mons) : mon.port \in Targets} \ {o.bar.on}

\* No output ever has two windows of the bar
OneEach ==
  \A i \in DOMAIN o.mirrors :
    /\ \A j \in DOMAIN o.mirrors : o.mirrors[i].on = o.mirrors[j].on => i = j
    /\ o.mirrors[i].on # o.bar.on

\* Does the bar know of all changes
Told == ~o.pending /\ o.closing = {}
============================================================================
