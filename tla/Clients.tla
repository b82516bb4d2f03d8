------------------------------ MODULE Clients ------------------------------
(* A client source (client.c, mpd.c): a socket, a program or the Music       *)
(* Player Daemon, whose lines are matched as they arrive, which is asked     *)
(* for more if it is the daemon, and to which the bar connects again, after  *)
(* a second, when the connection is lost.                                    *)
(*                                                                           *)
(* All of it runs on the main thread.  A message (m.link is "closed" as      *)
(* soon as the service has closed) is one line with a value, or without; the *)
(* handler reads all that has come.  What is written once the service has    *)
(* closed is lost without a word: the channel is buffered, and whether it    *)
(* could be flushed is not looked at (mpd.c:65-76, client.c:228-229).        *)
EXTENDS Plugin

CONSTANTS Songs, Nil

Kinds == {"socket", "exec", "mpd"}
Links == {"down", "wait", "trying", "up", "closed"}

\* s: the service's value; is it there; does the daemon wait in "idle", and has it
\* a change to tell; the commands it has run
\* m: link, client->in and the source that is to make it; val, shown by the variable;
\* idle, commands, of MpdState; the number of commands so far; and, for the properties:
\* cut, lost: was the connection lost before the answer to a question, before a
\* command was read, or was one written to a connection that was closed
\* (the values are alike)
Init ==
  /\ s = [val |-> CHOOSE v \in Songs : TRUE, up |-> TRUE, waits |-> FALSE, pending |-> FALSE, ran |-> <<>>]
  /\ \E k \in Kinds :
       m = [kind |-> k, link |-> "trying", val |-> Nil, idle |-> FALSE, commands |-> <<>>, n |-> 0,
            cut |-> FALSE, lost |-> FALSE, out |-> <<>>, emit |-> <<>>]
  /\ q = <<>> /\ out = <<>> /\ trig = <<>> /\ rows = Nil /\ steps = 0

Line(k) == [k |-> k]
Song(v) == [k |-> "song", val |-> v]
Cmd(n) == [k |-> "cmd", n |-> n]
IsMpd == m.kind = "mpd"

----------------------------------------------------------------------------
(* The service *)

\* The commands and questions that the service has not read are gone
Unread(x) == [x EXCEPT !.lost = @ \/ \E i \in DOMAIN out : out[i].k = "cmd"]

\* The value changes; who waits is told, or who is connected once it waits
Changed(t, v) ==
  IF ~IsMpd THEN [t EXCEPT !.val = v]
  ELSE [t EXCEPT !.val = v, !.waits = FALSE, !.pending = m.link = "up" /\ ~t.waits]
Told(t, v) == IF m.link # "up" \/ (IsMpd /\ ~t.waits) THEN <<>>
              ELSE IF IsMpd THEN <<Line("changed")>> ELSE <<Song(v)>>

\* The service reads a command; one that it must not get while it waits makes
\* the daemon close the connection
Serves ==
  /\ m.link = "up" /\ out # <<>>
  /\ LET r == Head(out)
         answers(t, lines) == s' = t /\ q' = q \o lines /\ out' = Tail(out) /\ UNCHANGED m
     IN  IF s.waits /\ r.k # "noidle"
         THEN m' = [Unread(m) EXCEPT !.link = "closed"] /\ out' = <<>> /\ UNCHANGED <<s, q>>
         ELSE CASE r.k = "noidle" ->
                     answers([s EXCEPT !.waits = FALSE], IF s.waits THEN <<Line("ok")>> ELSE <<>>)
                [] r.k = "idle" ->
                     answers([s EXCEPT !.waits = ~s.pending, !.pending = FALSE],
                             IF s.pending THEN <<Line("changed")>> ELSE <<>>)
                [] r.k = "status" -> answers(s, <<Line("status")>>)
                [] r.k = "currentsong" -> answers(s, <<Song(s.val)>>)
                [] r.k = "cmd" ->
                     \E v \in Songs \ {s.val} :
                       answers([Changed(s, v) EXCEPT !.ran = Append(@, r.n)],
                               IF IsMpd THEN <<Line("ok")>> ELSE Told(s, v))
  /\ UNCHANGED <<trig, rows, steps>>

\* It changes by itself, it ends, it is started
ServiceChanges ==
  /\ steps < MaxSteps /\ steps' = steps + 1 /\ s.up
  /\ \E v \in Songs \ {s.val} : s' = Changed(s, v) /\ q' = q \o Told(s, v)
  /\ UNCHANGED <<m, out, trig, rows>>
ServiceStops ==
  /\ steps < MaxSteps /\ steps' = steps + 1 /\ s.up
  /\ s' = [s EXCEPT !.up = FALSE, !.waits = FALSE, !.pending = FALSE]
  /\ IF m.link = "up" THEN m' = [Unread(m) EXCEPT !.link = "closed"] /\ out' = <<>>
     ELSE UNCHANGED <<m, out>>
  /\ UNCHANGED <<q, trig, rows>>
ServiceStarts ==
  /\ ~s.up /\ s' = [s EXCEPT !.up = TRUE]
  /\ UNCHANGED <<m, q, out, trig, rows, steps>>

----------------------------------------------------------------------------
(* The bar *)

\* client_reconnect: what is on its way is given up, and the connection made again
\* after a second
Reconnected(x) == [Unread(x) EXCEPT !.link = "wait", !.cut = @ \/ (IsMpd /\ x.idle)]
Reconnect ==
  /\ m' = Reconnected(m) /\ q' = <<>> /\ out' = <<>>
  /\ s' = [s EXCEPT !.waits = FALSE, !.pending = FALSE]
  /\ UNCHANGED <<trig, rows>>

\* client_socket_connect, client_mpd_connect, once the second is over
Connect ==
  /\ m.link = "wait" /\ m' = [m EXCEPT !.link = "trying"]
  /\ UNCHANGED <<s, q, out, trig, rows, steps>>

\* client_subscribe if the service is there: it greets
Attempt(failed) ==
  /\ m.link = "trying"
  /\ m' = [m EXCEPT !.link = IF s.up THEN "up" ELSE failed]
  /\ q' = IF ~s.up THEN <<>> ELSE IF IsMpd THEN <<Line("greeting")>> ELSE <<Song(s.val)>>
  /\ UNCHANGED <<s, out, trig, rows, steps>>

\* client_socket_connect_cb; client_exec_connect, which does not try again
\* what cannot be started
Connected == m.kind # "exec" /\ Attempt("wait")
Started == m.kind = "exec" /\ Attempt("down")

\* scanner_source_update by way of client_source_update: the variable has the value
\* of the last line that matches
Consumed(x, lines) ==
  LET k == SelectLastInSeq(lines, LAMBDA l : l.k = "song")
  IN  IF k = 0 THEN x ELSE [x EXCEPT !.val = lines[k].val]

\* client_mpd_respond: the next command, or in turn the questions and "idle"; they are
\* taken for written even when the service has closed
Responded(x) ==
  LET written(r) == IF x.link = "up" THEN r ELSE <<>>
  IN  IF x.commands # <<>>
      THEN [x EXCEPT !.out = written(<<Cmd(Head(x.commands))>>), !.commands = Tail(@),
                     !.lost = @ \/ x.link = "closed"]
      ELSE [x EXCEPT !.idle = ~@,
                     !.out = written(IF x.idle THEN <<Line("idle")>>
                                     ELSE <<Line("status"), Line("currentsong")>>)]

\* client_event: lines have come, as many as there are by now; the condition may
\* be older than the service's end, which it then does not tell of
Receives ==
  /\ q # <<>> /\ m.link \in {"up", "closed"}
  /\ \E k \in 1..Len(q) :
       LET x == Consumed(m, SubSeq(q, 1, k))
       IN  /\ q' = SubSeq(q, k + 1, Len(q))
           /\ Rings(IF IsMpd THEN Responded(x) ELSE x, Trigger("client", "client"))
  /\ UNCHANGED <<s, rows, steps>>

\* ... the service has closed: what it had sent is not read
HangUp == m.link = "closed" /\ Reconnect /\ UNCHANGED steps

\* ... the first line has only come in part, which is taken for an error
HalfRead ==
  /\ m.link = "up" /\ q # <<>>
  /\ steps < MaxSteps /\ steps' = steps + 1
  /\ Reconnect

\* mpd_action_cmd, client_send: dropped without a channel, lost in one that is closed
Asked(x, what) ==
  /\ steps < MaxSteps /\ steps' = steps + 1
  /\ m.link \in {"up", "closed"}
  /\ m' = [x EXCEPT !.n = @ + 1]
  /\ out' = IF m.link = "up" THEN Append(out, what) ELSE out
  /\ UNCHANGED <<s, q, trig, rows>>
Command ==
  IsMpd /\ Asked([m EXCEPT !.commands = Append(@, m.n + 1), !.idle = FALSE], Line("noidle"))
ClientSend == ~IsMpd /\ Asked([m EXCEPT !.lost = @ \/ m.link = "closed"], Cmd(m.n + 1))

\* The trigger's functions read the variable
Show == Shows(m.val)

Turns == Receives \/ Show
Works == Serves \/ Connect \/ Connected \/ Started \/ HangUp
Acts == ServiceChanges \/ ServiceStops \/ ServiceStarts \/ HalfRead \/ Command \/ ClientSend

----------------------------------------------------------------------------
(* Properties *)

\* Every variable keeps its type.
TypeOK ==
  /\ s \in [val : Songs, up : BOOLEAN, waits : BOOLEAN, pending : BOOLEAN, ran : Seq(Nat)]
  /\ m \in [kind : Kinds, link : Links, val : Songs \cup {Nil}, idle : BOOLEAN,
            commands : Seq(Nat), n : Nat, cut : BOOLEAN, lost : BOOLEAN,
            out : {<<>>}, emit : {<<>>}]
  /\ q \in Seq([k : {"greeting", "ok", "changed", "status"}] \cup [k : {"song"}, val : Songs])
  /\ out \in Seq([k : {"status", "currentsong", "idle", "noidle"}] \cup [k : {"cmd"}, n : Nat])
  /\ trig \in Seq([t : {"client"}, of : {"client"}])
  /\ rows \in Songs \cup {Nil} /\ steps \in 0..MaxSteps

\* The client waits for a line, and has its connection if the service is there
Quiet ==
  Idle /\ (s.up => m.link \in IF m.kind = "exec" THEN {"up", "down"} ELSE {"up"})

\* At rest the bar shows the service's value, if no connection was lost between the
\* daemon's question and its answer.
ShownAsIs == Quiet /\ ~m.cut /\ m.link = "up" => m.val = s.val /\ rows = s.val

\* The user's commands are run in order and once, and at rest all have been unless one
\* was on its way when a connection was lost, or written to one that was closed: the
\* others wait for the next connection.
CommandsRun ==
  /\ \A i, j \in DOMAIN s.ran : i < j => s.ran[i] < s.ran[j]
  /\ Quiet /\ ~m.lost /\ m.link = "up" => m.commands = <<>> /\ Len(s.ran) = m.n
=============================================================================
