------------------------------- MODULE Plugin -------------------------------
(* What the plug-ins that show a D-Bus service have in common: the messages  *)
(* each way, the module thread, and the triggers, which are handled one by   *)
(* one on another thread by functions that read the plug-in's table as it is *)
(* by then (src/trigger.c, src/module.c).                                    *)
(*                                                                           *)
(* The module thread reads signals and replies in the order in which the     *)
(* service sent them.                                                        *)
EXTENDS Integers, SequencesExt, FiniteSets

CONSTANT MaxSteps  \* bound on what the user, the world and the service do

VARIABLES
  s,      \* the service
  m,      \* the plug-in; emit, out: what a handler causes
  q,      \* from the service to the plug-in
  out,    \* from the plug-in to the service
  trig,   \* triggers that wait for their turn, each with what it is about
  rows,   \* what the handlers of the triggers last made the bar show
  steps

vars == <<s, m, q, out, trig, rows, steps>>

\* A table with the entry v for x
With(f, x, v) == [y \in {x} \cup DOMAIN f |-> IF y = x THEN v ELSE f[y]]

Signal(k, o) == [k |-> k, of |-> o]
Change(k, o, v) == [k |-> k, of |-> o, v |-> v]

\* The service goes on as v and sends signals, which pass if there is a
\* subscription, and then replies
Emits(v, signals, replies) ==
  /\ s' = v
  /\ q' = q \o (IF s.match THEN signals ELSE <<>>) \o replies

\* Something happens to the service, by itself
Happens(v, signals) ==
  /\ steps < MaxSteps /\ steps' = steps + 1
  /\ Emits(v, signals, <<>>)
  /\ UNCHANGED <<m, out, trig, rows>>

----------------------------------------------------------------------------

\* A handler emits a trigger, makes a call
Emit(x, t) == [x EXCEPT !.emit = Append(@, t)]
Send(x, c) == [x EXCEPT !.out = Append(@, c)]

Trigger(t, o) == [t |-> t, of |-> o]

\* trigger_emit_with_data.  A trigger like the last one of the same object that
\* still waits would only have the same read again, and is left out.
Queue(ts, t) ==
  LET k == SelectLastInSeq(ts, LAMBDA u : u.of = t.of)
  IN  IF k # 0 /\ ts[k] = t THEN ts ELSE Append(ts, t)

\* The module thread has run a handler that leaves the triggers ts waiting
Ran(x, ts) ==
  /\ m' = [x EXCEPT !.out = <<>>, !.emit = <<>>]
  /\ out' = out \o x.out
  /\ trig' = ts
Does(handled) == \E x \in {handled} : Ran(x, FoldLeft(Queue, trig, x.emit))
\* ... which emits the one trigger t
Rings(handled, t) == \E x \in {handled} : Ran(x, Queue(trig, t))

\* ... for triggers whose functions read the whole table: one like the last that
\* waits is left out
QueueInTurn(ts, t) == IF ts # <<>> /\ Last(ts) = t THEN ts ELSE Append(ts, t)
DoesInTurn(handled) == \E x \in {handled} : Ran(x, FoldLeft(QueueInTurn, trig, x.emit))

\* ... for a message, for the user
Reads(handled) == q # <<>> /\ q' = Tail(q) /\ Does(handled) /\ UNCHANGED <<s, rows, steps>>
User(x) ==
  /\ steps < MaxSteps /\ steps' = steps + 1
  /\ Does(x) /\ UNCHANGED <<s, q, rows>>

\* trigger_emit_in_main_context, trigger_action_cb: the oldest trigger's
\* function leaves the rows so
Shows(r) ==
  /\ trig # <<>> /\ trig' = Tail(trig) /\ rows' = r
  /\ UNCHANGED <<s, m, q, out, steps>>

\* The module thread and main go on reading messages and handling triggers
MessageTaken == q # <<>> /\ q' = Tail(q)
TriggerTaken == trig # <<>> /\ trig' = Tail(trig)

\* Nothing is under way between the service and the rows
Idle == q = <<>> /\ out = <<>> /\ trig = <<>>

----------------------------------------------------------------------------
(* The pop-up of the "wifi" interface (config/wifi.widget) and its dialog    *)
(* (config/wifi-secret.widget), which IWD and NetworkManager share: rows     *)
(* under "Known networks" and "Other networks", the button and the dialog.   *)
(*                                                                           *)
(* info: of each network that WifiGet() has a name for, whether it is known, *)
(* connected, and its level.                                                 *)

\* The trigger of a request for a passphrase, one for each
Prompt(n, id) == [t |-> "wifi-secret", of |-> "dialog", net |-> n, id |-> id]

WifiRows(n) == DOMAIN rows.row \cap {<<n, TRUE>>, <<n, FALSE>>}

\* XWifiUpdate.  The row's icon and labels are moved to the section where the
\* network belongs; a row that it had in the other one stays there, empty.
WifiUpdated(info, n) ==
  IF n \notin DOMAIN info THEN rows
  ELSE [rows EXCEPT !.row = (<<n, info[n].known>> :> [connected |-> info[n].connected,
                                                      level |-> info[n].level, note |-> "type"])
                            @@ [r \in WifiRows(n) |-> [connected |-> FALSE, level |-> 0, note |-> "empty"]]
                            @@ @]

\* XWifiUpdate, XWifiRemove, the button, WifiSecretPrompt
WifiHandles(info) ==
  LET t == Head(trig)
  IN  Shows(CASE t.t = "wifi-conf" -> WifiUpdated(info, t.of)
              [] t.t = "wifi-conf-removed" -> [rows EXCEPT !.row = Restrict(@, DOMAIN @ \ WifiRows(t.of))]
              [] t.t = "wifi-scan" -> [rows EXCEPT !.scan = "Scanning ..."]
              [] t.t = "wifi-scan-complete" -> [rows EXCEPT !.scan = "Scan"]
              [] t.t = "wifi-secret" -> [rows EXCEPT !.dialog = t.net]
              [] t.t = "wifi-secret-cancel" -> [rows EXCEPT !.dialog = "none"])

\* XWifiConnect: the row says so until the network is next updated
WifiConnects(n, handled) ==
  /\ \E r \in WifiRows(n) : rows.row[r].note # "empty"
  /\ steps < MaxSteps /\ steps' = steps + 1
  /\ rows' = [rows EXCEPT !.row = [r \in DOMAIN @ |-> IF r \in WifiRows(n) /\ @[r].note # "empty"
                                                     THEN [@[r] EXCEPT !.note = "connecting"] ELSE @[r]]]
  /\ Does(handled) /\ UNCHANGED <<s, q>>

WifiBlank == [row |-> <<>>, scan |-> "Scan", dialog |-> "none"]
=============================================================================
