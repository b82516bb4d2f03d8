----------------------------- MODULE MpdSession -----------------------------
(* The Music Player Daemon plug-in (modules/mpd.c) and the server it is      *)
(* connected to: a queue of commands, of which one at a time is with the     *)
(* server, and the "idle" command that waits for the server's changes.       *)
(*                                                                           *)
(* All of the plug-in runs on the module thread.  The connection is a stream *)
(* each way; the plug-in reads the lines that are there, and anything may    *)
(* happen before the next one arrives.  A cover's chunk arrives in one       *)
(* piece.  There is one server, behind a socket whose end the plug-in is     *)
(* told of (G_IO_HUP, as for a local socket), and MpdServer() is not called. *)
EXTENDS Integers, SequencesExt, FiniteSets

CONSTANTS
  Songs,
  Artist,      \* of each song, or Nil if it has no such tag
  Embedded,    \* how many chunks the picture in the song's file has, 0 if none
  Folder,      \* ... and the one in its directory
  Nil,
  MaxChanges,  \* bound on what others make the server do
  MaxCmds,     \* bound on the user's commands
  MaxDrops     \* bound on how often the connection is lost

VARIABLES
  \* the server
  song,     \* the song that it plays
  idle,     \* does this client wait in "idle"
  pending,  \* changes that this client has not been told of
  \* the connection
  link,     \* "down", "up", or "closed" by the server
  req, rep, \* the lines on their way to the server and to the plug-in
  \* the plug-in
  m,        \* its variables, see New
  \* counters and history
  changes, cmds, drops,
  done,        \* the user's commands that the server has run
  interrupted  \* was a connection ever lost with commands waiting or a cover under way

serverVars == <<song, idle, pending>>
counters == <<changes, cmds, drops>>
vars == <<serverVars, link, req, rep, m, counters, done, interrupted>>

Art == {"readpicture", "albumart"}
Subsystems == {"player", "playlist"}

\* A command, the file and the offset if it has some, the user's by its number
Cmd(c) == [c |-> c]
ArtCmd(c, file, offset) == [c |-> c, file |-> file, offset |-> offset]
Next_(n) == [c |-> "next", n |-> n]
Idle == Cmd("idle")
NoIdle == Cmd("noidle")

\* A line of a reply to a command
Ok(c) == [l |-> "OK", of |-> c]
Ack(c) == [l |-> "ACK", of |-> c]
Changed(what) == [l |-> "changed", of |-> "idle", what |-> what]
Status(s) == [l |-> "status", of |-> "status", song |-> s]
Tags(s) == [l |-> "tags", of |-> "currentsong", song |-> s]
Picture(c, file, offset, total) ==
  [l |-> "picture", of |-> c, file |-> file, offset |-> offset, total |-> total]

----------------------------------------------------------------------------
(* The server *)

\* The answer to a command for a picture of so many chunks
PictureReply(r, total, none) ==
  (IF total = 0 THEN <<>> ELSE <<Picture(r.c, r.file, r.offset, total)>>)
    \o <<IF total = 0 THEN none ELSE Ok(r.c)>>

ChangedReply(what) == [i \in DOMAIN what |-> Changed(what[i])] \o <<Ok("idle")>>
InOrder(what) ==
  (IF "playlist" \in what THEN <<"playlist">> ELSE <<>>) \o (IF "player" \in what THEN <<"player">> ELSE <<>>)

\* What the server does about a change of the subsystems
Notifies(what, answer) ==
  IF idle THEN idle' = FALSE /\ pending' = {} /\ rep' = rep \o answer \o ChangedReply(InOrder(what))
  ELSE idle' = idle /\ pending' = pending \cup what /\ rep' = rep \o answer

\* The server reads a command; one it must not get while it waits makes it
\* close the connection
Serves ==
  /\ link = "up" /\ req # <<>>
  /\ LET r == Head(req)
         answers(lines) == rep' = rep \o lines /\ UNCHANGED <<serverVars, link, done>>
     IN  /\ IF idle /\ r.c # "noidle"
            THEN link' = "closed" /\ UNCHANGED <<serverVars, rep, done>>
            ELSE CASE r.c = "noidle" ->
                        /\ rep' = IF idle THEN Append(rep, Ok("idle")) ELSE rep
                        /\ idle' = FALSE /\ UNCHANGED <<song, pending, link, done>>
                   [] r.c = "idle" ->
                        /\ IF pending = {} THEN idle' = TRUE /\ UNCHANGED <<pending, rep>>
                           ELSE pending' = {} /\ rep' = rep \o ChangedReply(InOrder(pending)) /\ idle' = FALSE
                        /\ UNCHANGED <<song, link, done>>
                   [] r.c = "next" ->
                        /\ song' \in Songs \ {song}
                        /\ Notifies({"player"}, <<Ok("next")>>)
                        /\ done' = Append(done, r.n) /\ UNCHANGED link
                   [] r.c = "status" -> answers(<<Status(song), Ok("status")>>)
                   [] r.c = "currentsong" -> answers(<<Tags(song), Ok("currentsong")>>)
                   [] r.c = "readpicture" -> answers(PictureReply(r, Embedded[r.file], Ok(r.c)))
                   [] r.c = "albumart" -> answers(PictureReply(r, Folder[r.file], Ack(r.c)))
                   [] r.c = "clearerror" -> answers(<<Ok(r.c)>>)
         /\ req' = Tail(req)
  /\ UNCHANGED <<m, counters, interrupted>>

\* Another client changes the song or the playlist
ServerChanges(what) ==
  /\ changes < MaxChanges /\ changes' = changes + 1
  /\ song' \in IF what = "player" THEN Songs \ {song} ELSE {song}
  /\ Notifies({what}, <<>>)
  /\ UNCHANGED <<link, req, m, cmds, drops, done, interrupted>>

----------------------------------------------------------------------------
(* The plug-in's commands *)

\* queue, current, tags: mpd_cmd_queue, mpd_cmd_current, mpd_song_current; player:
\* mpd_state; art, total, received, loader, cover: mpd_art_cmd, mpd_cover_*; shown:
\* the tags at the last "mpd" trigger; out: what is written to the channel
New == [queue |-> <<>>, current |-> Nil, player |-> Nil, tags |-> [file |-> Nil, artist |-> Nil],
        art |-> "readpicture", total |-> 0, received |-> 0, loader |-> <<>>, cover |-> Nil,
        shown |-> [player |-> Nil, file |-> Nil, artist |-> Nil], out |-> <<>>]

\* Faulty variant of CmdAppend: an "idle" that waits stays in front
CmdAppendBehind(s, cmd) ==
  [s EXCEPT !.queue = Append(@, cmd),
            !.out = IF s.current = "idle" THEN Append(@, NoIdle) ELSE @]

\* mpd_cmd_append; mpd_cmd_remove finds at most one "idle" (TypeOK)
CmdAppend(s, cmd) ==
  [s EXCEPT !.queue = Append(RemoveFirst(@, Idle), cmd),
            !.out = IF s.current = "idle" THEN Append(@, NoIdle) ELSE @]

\* mpd_cmd_cover
CmdCover(s, offset, cmd) ==
  LET t == IF offset = 0 THEN [s EXCEPT !.art = cmd, !.total = 0, !.received = 0, !.loader = <<>>]
           ELSE [s EXCEPT !.art = cmd]
  IN  IF t.tags.file = Nil THEN t ELSE CmdAppend(t, ArtCmd(cmd, t.tags.file, offset))

\* mpd_idle_handle
IdleHandle(s, what) ==
  LET t == IF what = "player" THEN CmdAppend(CmdAppend(s, Cmd("status")), Cmd("currentsong")) ELSE s
  IN  [t EXCEPT !.current = Nil]

\* mpd_tag_handle of each of the song's tags, the file's first: a tag that is
\* not in the reply keeps its value
TagHandle(s, of) ==
  LET filed == IF s.tags.file = of THEN s ELSE CmdCover([s EXCEPT !.tags.file = of], 0, "readpicture")
  IN  IF Artist[of] = Nil THEN filed ELSE [filed EXCEPT !.tags.artist = Artist[of]]

\* mpd_cover_handle: the loader makes a picture of what it was given if these
\* are the chunks of one file
CoverHandle(s, line) ==
  LET sized == IF s.total # 0 /\ s.total # line.total THEN CmdCover(s, 0, s.art)
               ELSE [s EXCEPT !.total = line.total]
      t == [sized EXCEPT !.received = @ + 1, !.loader = Append(@, <<line.file, line.offset>>)]
      whole == t.loader = [i \in 1..t.total |-> <<line.file, i - 1>>]
  IN  IF t.received >= t.total
      THEN [t EXCEPT !.cover = IF whole THEN line.file ELSE Nil, !.loader = <<>>]
      ELSE CmdCover(t, t.received, t.art)

\* Faulty variant of Completed: a cover that is not found is asked for again
CompletedAgain(s) ==
  IF s.current \in Art /\ s.received = 0 THEN CmdCover(s, 0, "albumart")
  ELSE [s EXCEPT !.shown = [player |-> s.player, file |-> s.tags.file, artist |-> s.tags.artist]]

\* Faulty variant of Completed: the directory is not looked in for a cover
CompletedAtOnce(s) ==
  [s EXCEPT !.shown = [player |-> s.player, file |-> s.tags.file, artist |-> s.tags.artist]]

\* mpd_ok_handle, what the end of a reply causes
Completed(s) ==
  IF s.current = "readpicture" /\ s.received = 0 THEN CmdCover(s, 0, "albumart")
  ELSE [s EXCEPT !.shown = [player |-> s.player, file |-> s.tags.file, artist |-> s.tags.artist]]

\* mpd_ok_handle, the next command
SendNext(s) ==
  LET t == [s EXCEPT !.current = Nil,
                     !.queue = IF @ = <<>> THEN <<Cmd("status"), Cmd("currentsong"), Idle>> ELSE @]
  IN  [t EXCEPT !.queue = Tail(@), !.current = Head(t.queue).c, !.out = Append(@, Head(t.queue))]

\* Faulty variant of ErrorHandle: the command is over, too
ErrorHandleNext(s) == SendNext([s EXCEPT !.out = Append(@, Cmd("clearerror"))])

\* mpd_error_handle: the answer to "clearerror" completes the command
ErrorHandle(s) == [s EXCEPT !.out = Append(@, Cmd("clearerror"))]

\* mpd_event, for a line; a line that is no answer to the current command is
\* never read (InPhase)
Handled(s, line) ==
  CASE line.l = "changed" -> IF s.current = "idle" THEN IdleHandle(s, line.what) ELSE s
    [] line.l = "status"  -> IF s.current = "status" THEN [s EXCEPT !.player = line.song] ELSE s
    [] line.l = "tags"    -> IF s.current = "currentsong" THEN TagHandle(s, line.song) ELSE s
    [] line.l = "picture" -> IF s.current \in Art THEN CoverHandle(s, line) ELSE s
    [] line.l = "OK"      -> SendNext(Completed(s))
    [] line.l = "ACK"     -> ErrorHandle(s)

\* Writing to a connection that the server has closed has no effect
Write(s, sent) == m' = [s EXCEPT !.out = <<>>] /\ req' = IF link = "up" THEN sent \o s.out ELSE sent

Reads ==
  /\ link = "up" /\ rep # <<>>
  /\ rep' = Tail(rep)
  /\ Write(Handled(m, Head(rep)), req)
  /\ UNCHANGED <<serverVars, link, counters, done, interrupted>>

\* mpd_func_cmd
UserCommands ==
  /\ cmds < MaxCmds /\ cmds' = cmds + 1
  /\ Write(CmdAppend(m, Next_(cmds + 1)), req)
  /\ UNCHANGED <<serverVars, link, rep, changes, drops, done, interrupted>>

----------------------------------------------------------------------------
(* The connection *)

\* The server or the network closes the connection: what was under way is lost
Drops ==
  /\ link = "up" /\ drops < MaxDrops /\ drops' = drops + 1
  /\ link' = "closed" /\ req' = <<>> /\ rep' = <<>>
  /\ interrupted' = (interrupted \/ m.queue # <<>> \/ m.current \in Art)
  /\ UNCHANGED <<serverVars, m, changes, cmds, done>>

\* mpd_event sees the end of the connection, mpd_reconnect makes another one
Reconnects ==
  /\ link = "closed" /\ link' = "down"
  /\ req' = <<>> /\ rep' = <<>>
  /\ UNCHANGED <<serverVars, m, counters, done, interrupted>>

\* mpd_connect, mpd_connect_cb, and the server's greeting
Connects ==
  /\ link = "down" /\ link' = "up"
  /\ idle' = FALSE /\ pending' = {}
  /\ LET s == CmdAppend(CmdAppend(m, Cmd("status")), Cmd("currentsong"))
     IN  m' = [s EXCEPT !.current = "init", !.out = <<>>] /\ req' = s.out
  /\ rep' = <<Ok("init")>>
  /\ UNCHANGED <<song, counters, done, interrupted>>

Init ==
  /\ song \in Songs /\ idle = FALSE /\ pending = {}
  /\ link = "down" /\ req = <<>> /\ rep = <<>>
  /\ m = New
  /\ changes = 0 /\ cmds = 0 /\ drops = 0
  /\ done = <<>> /\ interrupted = FALSE

\* The server, the module thread and its timer; the user and the world
Works == Serves \/ Reads \/ Reconnects \/ Connects
Acts == UserCommands \/ Drops \/ \E what \in Subsystems : ServerChanges(what)
Next == Works \/ Acts

----------------------------------------------------------------------------
(* Properties *)

Names == {"idle", "status", "currentsong", "next", "clearerror", "noidle"} \cup Art

\* Every variable keeps its type, and "idle" only waits behind everything else.
TypeOK ==
  /\ song \in Songs /\ idle \in BOOLEAN /\ pending \subseteq Subsystems
  /\ link \in {"down", "up", "closed"} /\ interrupted \in BOOLEAN
  /\ m.current \in Names \cup {"init", Nil} /\ m.out = <<>>
  /\ m.received \in Nat /\ m.total \in Nat /\ m.cover \in Songs \cup {Nil}
  /\ \A i \in DOMAIN m.queue : m.queue[i].c \in Names /\ (m.queue[i].c = "idle" => i = Len(m.queue))

\* A reply carries nothing that says what it answers: every line that is read
\* must be one of the reply to mpd_cmd_current, whatever was appended meanwhile
\* and however many times the connection was lost.
InPhase ==
  link = "up" /\ rep # <<>> =>
    LET of == Head(rep).of IN of = m.current \/ of = "clearerror" \/ (of = "idle" /\ m.current = Nil)

\* Nothing but "noidle" is ever sent to a server that waits in "idle", which
\* would close the connection.
IdleIsRespected == link = "up" /\ idle /\ req # <<>> => Head(req).c = "noidle"

Quiet == link = "up" /\ req = <<>> /\ rep = <<>> /\ idle

\* The user's commands are run in order and none of them twice, and once nothing
\* is under way none is left but those that were lost with a connection.
CommandsRun ==
  /\ \A i, j \in DOMAIN done : i < j => done[i] < done[j]
  /\ Quiet => m.queue = <<>> /\ (drops = 0 => Len(done) = cmds)

\* doc/sfwbar-mpd.rst, mpd: "Emitted whenever the state of the MPD server
\* changes."  Once nothing is under way, what was there at the last trigger is
\* the song that the server plays and each tag it has; a tag it does not have
\* may be an earlier song's.
SongShown ==
  Quiet => /\ m.shown.player = song /\ m.shown.file = song
           /\ Artist[song] # Nil => m.shown.artist = Artist[song]

\* mpd_cover_handle: once nothing is under way the cover is that of the song if
\* it has one, unless a connection was ever lost with commands waiting: they are
\* kept, and a second "currentsong" that is sent before a cover command of an
\* earlier song makes the loader mix two pictures.
CoverShown ==
  Quiet /\ ~interrupted /\ (Embedded[song] > 0 \/ Folder[song] > 0) => m.cover = song
=============================================================================
