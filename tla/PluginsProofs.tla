--------------------------- MODULE PluginsProofs ---------------------------
(* What is proved of each plug-in by itself (MpdProofs, OnePluginProofs)     *)
(* holds where the plug-ins are side by side (Plugins).                      *)
(* Those proofs know the definitions of a plug-in under their own name (P,   *)
(* A, A!Cl, A!Nt), so that the first lemmas say that a step here (Mpd, Snd,  *)
(* Cl, Nc) is a step there.  The inductive invariant is that of the plug-in  *)
(* that is looked at (who), which never changes.                             *)
EXTENDS Plugins, TLAPS

P == INSTANCE MpdProofs
A == INSTANCE OnePluginProofs WITH MaxSteps <- MaxTurns

----------------------------------------------------------------------------
(* The Music Player Daemon *)

\* The session begins.
LEMMA MpdInit ==
  Mpd!Init => P!Init
BY Zenon DEF
  Mpd!Init, P!Init, Mpd!New, P!New

\* The server reads a command, sees a change.
LEMMA MpdServes ==
  Mpd!Serves => P!Serves
BY Zenon DEF
  Mpd!Serves, P!Serves, Mpd!counters, P!counters, Mpd!PictureReply, P!PictureReply, Mpd!Picture,
  P!Picture, Mpd!Ack, P!Ack, Mpd!Status, P!Status, Mpd!Tags, P!Tags, Mpd!Ok, P!Ok, Mpd!Changed,
  P!Changed, Mpd!ChangedReply, P!ChangedReply, Mpd!InOrder, P!InOrder, Mpd!Notifies, P!Notifies,
  Mpd!serverVars, P!serverVars

LEMMA MpdChanges ==
  (\E what \in Mpd!Subsystems : Mpd!ServerChanges(what))
    => \E what \in P!Subsystems : P!ServerChanges(what)
BY Zenon DEF
  Mpd!ServerChanges, P!ServerChanges, Mpd!Subsystems, P!Subsystems, Mpd!Ok, P!Ok, Mpd!Changed,
  P!Changed, Mpd!ChangedReply, P!ChangedReply, Mpd!InOrder, P!InOrder, Mpd!Notifies, P!Notifies,
  Mpd!serverVars, P!serverVars

\* A command is queued, one for a cover, too.
LEMMA MpdAppends ==
  \A x, c : Mpd!CmdAppend(x, c) = P!CmdAppend(x, c)
BY Zenon DEF
  Mpd!CmdAppend, P!CmdAppend, Mpd!RemoveFirst, P!RemoveFirst, Mpd!RemoveAt, P!RemoveAt,
  Mpd!SelectInSeq, P!SelectInSeq, Mpd!Min, P!Min, Mpd!Cmd, P!Cmd, Mpd!Idle, P!Idle, Mpd!NoIdle,
  P!NoIdle

LEMMA MpdCovers ==
  \A x, o, c : Mpd!CmdCover(x, o, c) = P!CmdCover(x, o, c)
BY MpdAppends DEF
  Mpd!CmdCover, P!CmdCover, Mpd!ArtCmd, P!ArtCmd, Mpd!Art, P!Art

\* A chunk of a cover is handled.
LEMMA MpdCoverHandle == \A x, l : Mpd!CoverHandle(x, l) = P!CoverHandle(x, l)
<1> TAKE x, l
<1> DEFINE
      sized == IF x.total # 0 /\ x.total # l.total THEN Mpd!CmdCover(x, 0, x.art)
               ELSE [x EXCEPT !.total = l.total]
      t == [sized EXCEPT !.received = @ + 1, !.loader = Append(@, <<l.file, l.offset>>)]
      whole == t.loader = [i \in 1..t.total |-> <<l.file, i - 1>>]
<1>1. sized = IF x.total # 0 /\ x.total # l.total THEN P!CmdCover(x, 0, x.art)
              ELSE [x EXCEPT !.total = l.total]
  BY MpdCovers
<1> HIDE DEF sized
<1>2. Mpd!CmdCover(t, t.received, t.art) = P!CmdCover(t, t.received, t.art)
  BY MpdCovers, Zenon
<1>3. Mpd!CoverHandle(x, l) =
        IF t.received >= t.total
        THEN [t EXCEPT !.cover = IF whole THEN l.file ELSE Nil, !.loader = <<>>]
        ELSE Mpd!CmdCover(t, t.received, t.art)
  BY Zenon DEF sized, Mpd!CoverHandle
<1>4. P!CoverHandle(x, l) =
        IF t.received >= t.total
        THEN [t EXCEPT !.cover = IF whole THEN l.file ELSE Nil, !.loader = <<>>]
        ELSE P!CmdCover(t, t.received, t.art)
  <2> DEFINE
        first == IF x.total # 0 /\ x.total # l.total THEN P!CmdCover(x, 0, x.art)
                 ELSE [x EXCEPT !.total = l.total]
        u == [first EXCEPT !.received = @ + 1, !.loader = Append(@, <<l.file, l.offset>>)]
        all == u.loader = [i \in 1..u.total |-> <<l.file, i - 1>>]
  <2>1. P!CoverHandle(x, l) =
          IF u.received >= u.total
          THEN [u EXCEPT !.cover = IF all THEN l.file ELSE Nil, !.loader = <<>>]
          ELSE P!CmdCover(u, u.received, u.art)
    BY Zenon DEF P!CoverHandle
  <2> HIDE DEF first
  <2>2. first = sized
    BY <1>1 DEF first
  <2> QED BY <2>1, <2>2
<1> HIDE DEF t, whole
<1> QED BY <1>2, <1>3, <1>4

\* So are the other lines, and the end of a reply.
LEMMA MpdIdleHandle ==
  \A x, w : Mpd!IdleHandle(x, w) = P!IdleHandle(x, w)
BY MpdAppends, MpdCovers DEF
  Mpd!IdleHandle, P!IdleHandle, Mpd!Cmd, P!Cmd, Mpd!Idle, P!Idle

LEMMA MpdTagHandle ==
  \A x, f : Mpd!TagHandle(x, f) = P!TagHandle(x, f)
BY MpdAppends, MpdCovers DEF
  Mpd!TagHandle, P!TagHandle, Mpd!Cmd, P!Cmd, Mpd!Idle, P!Idle

LEMMA MpdSendNext ==
  \A x : Mpd!SendNext(x) = P!SendNext(x)
BY MpdAppends, MpdCovers DEF
  Mpd!SendNext, P!SendNext, Mpd!Cmd, P!Cmd, Mpd!Idle, P!Idle

LEMMA MpdCompleted ==
  \A x : Mpd!Completed(x) = P!Completed(x)
BY MpdAppends, MpdCovers DEF
  Mpd!Completed, P!Completed, Mpd!Cmd, P!Cmd, Mpd!Idle, P!Idle

LEMMA MpdErrorHandle ==
  \A x : Mpd!ErrorHandle(x) = P!ErrorHandle(x)
BY MpdAppends, MpdCovers DEF
  Mpd!ErrorHandle, P!ErrorHandle, Mpd!Cmd, P!Cmd, Mpd!Idle, P!Idle

\* The plug-in reads a line.
LEMMA MpdHandled ==
  \A x, l : Mpd!Handled(x, l) = P!Handled(x, l)
BY MpdCoverHandle, MpdIdleHandle, MpdTagHandle, MpdSendNext, MpdCompleted, MpdErrorHandle DEF
  Mpd!Handled, P!Handled, Mpd!Art, P!Art

LEMMA MpdReads ==
  Mpd!Reads => P!Reads
BY MpdHandled DEF
  Mpd!Reads, P!Reads, Mpd!counters, P!counters, Mpd!serverVars, P!serverVars, Mpd!Write, P!Write

\* The user gives a command.
LEMMA MpdCommands ==
  Mpd!UserCommands => P!UserCommands
BY MpdAppends DEF
  Mpd!UserCommands, P!UserCommands, Mpd!Write, P!Write, Mpd!Next_, P!Next_, Mpd!serverVars,
  P!serverVars

\* The connection is lost, and made again.
LEMMA MpdConnection ==
  Mpd!Drops \/ Mpd!Reconnects \/ Mpd!Connects => P!Drops \/ P!Reconnects \/ P!Connects
BY MpdAppends DEF
  Mpd!Drops, P!Drops, Mpd!Reconnects, P!Reconnects, Mpd!Connects, P!Connects, Mpd!counters,
  P!counters, Mpd!serverVars, P!serverVars, Mpd!Ok, P!Ok, Mpd!Art, P!Art, Mpd!Cmd, P!Cmd

\* Every step of the session is one that was proved about.
LEMMA MpdSteps == Mpd!Works \/ Mpd!Acts => P!Next
BY MpdServes, MpdReads, MpdConnection, MpdCommands, MpdChanges
DEF Mpd!Works, Mpd!Acts, P!Next, P!Works, P!Acts

\* What was proved is what is meant here.
LEMMA MpdMeans ==
  P!TypeOK /\ P!InPhase /\ P!IdleIsRespected /\ P!CommandsRun /\ P!SongShown /\ P!CoverShown
    => /\ Mpd!TypeOK /\ Mpd!InPhase /\ Mpd!IdleIsRespected
       /\ Mpd!CommandsRun /\ Mpd!SongShown /\ Mpd!CoverShown
BY Zenon DEF
  Mpd!TypeOK, P!TypeOK, Mpd!InPhase, P!InPhase, Mpd!IdleIsRespected, P!IdleIsRespected,
  Mpd!CommandsRun, P!CommandsRun, Mpd!SongShown, P!SongShown, Mpd!CoverShown, P!CoverShown,
  Mpd!Quiet, P!Quiet, Mpd!Subsystems, P!Subsystems, Mpd!Names, P!Names, Mpd!Art, P!Art

----------------------------------------------------------------------------
(* The client sources *)

\* The client starts.
LEMMA ClientInit ==
  Cl!Init => A!Cl!Init
BY Zenon DEF
  Cl!Init, A!Cl!Init, Cl!Kinds, A!Cl!Kinds

\* The service reads, the client reads.
LEMMA ClientServes ==
  Cl!Serves => A!Cl!Serves
BY Zenon DEF
  Cl!Serves, A!Cl!Serves, Cl!Unread, A!Cl!Unread, Cl!Line, A!Cl!Line, Cl!Song, A!Cl!Song, Cl!Changed,
  A!Cl!Changed, Cl!IsMpd, A!Cl!IsMpd, Cl!Told, A!Cl!Told

LEMMA ClientReceives ==
  Cl!Receives => A!Cl!Receives
BY Zenon DEF
  Cl!Receives, A!Cl!Receives, Cl!Consumed, A!Cl!Consumed, Cl!SelectLastInSeq, A!Cl!SelectLastInSeq, Cl!Max,
  A!Cl!Max, Cl!Rings, A!Cl!Rings, Cl!Ran, A!Cl!Ran, Cl!Queue, A!Cl!Queue, Cl!Responded, A!Cl!Responded,
  Cl!Trigger, A!Cl!Trigger, Cl!IsMpd, A!Cl!IsMpd, Cl!Line, A!Cl!Line, Cl!Cmd, A!Cl!Cmd

\* The trigger is handled, the connection made and made again.
LEMMA ClientConnects ==
  Cl!Show \/ Cl!Connect \/ Cl!Connected \/ Cl!Started \/ Cl!HangUp
    => A!Cl!Show \/ A!Cl!Connect \/ A!Cl!Connected \/ A!Cl!Started \/ A!Cl!HangUp
BY Zenon DEF
  Cl!Show, A!Cl!Show, Cl!Shows, A!Cl!Shows, Cl!Connect, A!Cl!Connect, Cl!Connected, A!Cl!Connected, Cl!Started,
  A!Cl!Started, Cl!Attempt, A!Cl!Attempt, Cl!HangUp, A!Cl!HangUp, Cl!Reconnect, A!Cl!Reconnect, Cl!Reconnected,
  A!Cl!Reconnected, Cl!Unread, A!Cl!Unread, Cl!IsMpd, A!Cl!IsMpd, Cl!Line, A!Cl!Line, Cl!Song, A!Cl!Song

\* The user and the world act.
LEMMA ClientActs ==
  Cl!Acts => A!Cl!Acts
BY Zenon DEF
  Cl!Acts, A!Cl!Acts, Cl!ServiceChanges, A!Cl!ServiceChanges, Cl!ServiceStops, A!Cl!ServiceStops,
  Cl!ServiceStarts, A!Cl!ServiceStarts, Cl!HalfRead, A!Cl!HalfRead, Cl!Command, A!Cl!Command, Cl!ClientSend,
  A!Cl!ClientSend, Cl!Asked, A!Cl!Asked, Cl!Changed, A!Cl!Changed, Cl!Told, A!Cl!Told, Cl!Reconnect,
  A!Cl!Reconnect, Cl!Reconnected, A!Cl!Reconnected, Cl!Unread, A!Cl!Unread, Cl!IsMpd, A!Cl!IsMpd, Cl!Line,
  A!Cl!Line, Cl!Song, A!Cl!Song, Cl!Cmd, A!Cl!Cmd

\* Every step of the client is one that was proved about.
LEMMA ClientSteps == Cl!Turns \/ Cl!Works \/ Cl!Acts => A!Cl!Turns \/ A!Cl!Works \/ A!Cl!Acts
BY ClientServes, ClientReceives, ClientConnects, ClientActs
DEF Cl!Turns, Cl!Works, A!Cl!Turns, A!Cl!Works

\* What was proved is what is meant here.
LEMMA ClientMeans ==
  A!Cl!TypeOK /\ A!Cl!CommandsRun /\ A!Cl!ShownAsIs => Cl!TypeOK /\ Cl!CommandsRun /\ Cl!ShownAsIs
BY Zenon DEF
  Cl!TypeOK, A!Cl!TypeOK, Cl!CommandsRun, A!Cl!CommandsRun, Cl!ShownAsIs, A!Cl!ShownAsIs, Cl!Quiet, A!Cl!Quiet,
  Cl!Idle, A!Cl!Idle, Cl!Kinds, A!Cl!Kinds, Cl!Links, A!Cl!Links, Cl!IsMpd, A!Cl!IsMpd

----------------------------------------------------------------------------
(* The notification centre *)

\* It starts.
LEMMA NotesInit == Nc!Init => A!Nt!Init
BY Zenon DEF Nc!Init, A!Nt!Init, Nc!New, A!Nt!New

\* What is read of the list
LEMMA NotesLookup == \A x, id : Nc!Lookup(x, id) = A!Nt!Lookup(x, id)
BY Zenon DEF Nc!Lookup, A!Nt!Lookup, Nc!SelectInSeq, A!Nt!SelectInSeq, Nc!Min, A!Nt!Min

LEMMA NotesMembers == \A x, app : Nc!Members(x, app) = A!Nt!Members(x, app)
BY Zenon DEF Nc!Members, A!Nt!Members

LEMMA NotesCounted == \A S : Nc!Cardinality(S) = A!Nt!Cardinality(S)
BY Zenon DEF Nc!Cardinality, A!Nt!Cardinality

LEMMA NotesRow == \A x, id, note : Nc!Row(x, id, note) = A!Nt!Row(x, id, note)
<1>1. \A x, id : Nc!Group(x, id) = A!Nt!Group(x, id)
  BY NotesLookup, NotesMembers, NotesCounted DEF Nc!Group, A!Nt!Group
<1>2. \A x, id : Nc!Count(x, id) = A!Nt!Count(x, id)
  BY NotesLookup, NotesMembers, NotesCounted DEF Nc!Count, A!Nt!Count
<1> QED BY <1>1, <1>2, Zenon DEF Nc!Row, A!Nt!Row

\* What the handlers make of it
LEMMA NotesSent ==
  /\ \A x, t : Nc!Emit(x, t) = A!Nt!Emit(x, t)
  /\ \A x, c : Nc!Send(x, c) = A!Nt!Send(x, c)
  /\ \A t, o : Nc!Trigger(t, o) = A!Nt!Trigger(t, o)
  /\ \A x : Nc!Regroup(x) = A!Nt!Regroup(x)
BY Zenon DEF Nc!Emit, A!Nt!Emit, Nc!Send, A!Nt!Send, Nc!Trigger, A!Nt!Trigger, Nc!Regroup, A!Nt!Regroup

LEMMA NotesTables ==
  /\ \A f, x, v : Nc!With(f, x, v) = A!Nt!With(f, x, v)
  /\ \A f, S : Nc!Restrict(f, S) = A!Nt!Restrict(f, S)
  /\ \A l, i : Nc!RemoveAt(l, i) = A!Nt!RemoveAt(l, i)
  /\ \A app, text : Nc!Note(app, text) = A!Nt!Note(app, text)
BY Zenon DEF
  Nc!With, A!Nt!With, Nc!Restrict, A!Nt!Restrict, Nc!RemoveAt, A!Nt!RemoveAt, Nc!Note, A!Nt!Note

LEMMA NotesClose == \A x, id : Nc!Close(x, id) = A!Nt!Close(x, id)
<1> TAKE x, id
<1> DEFINE at == Nc!Lookup(x, id)
           n == x.list[at]
           y == [x EXCEPT !.list = Nc!RemoveAt(@, at),
                          !.timers = Nc!Restrict(@, DOMAIN @ \ {n.timeout_handle})]
           z == IF at = 0 THEN x
                ELSE Nc!Send(IF n.app = x.expanded_group /\ Nc!Members(y, n.app) = {}
                             THEN [y EXCEPT !.expanded_group = "none"] ELSE y,
                             [k |-> "closed", id |-> id])
           at2 == A!Nt!Lookup(x, id)
           n2 == x.list[at2]
           y2 == [x EXCEPT !.list = A!Nt!RemoveAt(@, at2),
                           !.timers = A!Nt!Restrict(@, DOMAIN @ \ {n2.timeout_handle})]
           z2 == IF at2 = 0 THEN x
                 ELSE A!Nt!Send(IF n2.app = x.expanded_group /\ A!Nt!Members(y2, n2.app) = {}
                             THEN [y2 EXCEPT !.expanded_group = "none"] ELSE y2,
                             [k |-> "closed", id |-> id])
<1>1. Nc!Close(x, id) = Nc!Regroup(Nc!Emit(z, Nc!Trigger("notification-removed", id)))
  BY Zenon DEF Nc!Close
<1>2. A!Nt!Close(x, id) = A!Nt!Regroup(A!Nt!Emit(z2, A!Nt!Trigger("notification-removed", id)))
  BY Zenon DEF A!Nt!Close
<1>3. at = at2
  BY NotesLookup, Zenon
<1> HIDE DEF at, at2
<1>4. n = n2
  BY <1>3
<1> HIDE DEF n, n2
<1>5. y = y2
  BY <1>3, <1>4, NotesTables
<1> HIDE DEF y, y2
<1>6. z = z2
  BY <1>3, <1>4, <1>5, NotesMembers, NotesSent
<1> HIDE DEF z, z2
<1> QED BY <1>1, <1>2, <1>6, NotesSent, Zenon

LEMMA NotesParse == \A x, c : Nc!Parse(x, c) = A!Nt!Parse(x, c)
<1> TAKE x, c
<1> DEFINE id == IF c.id = 0 THEN x.dn_id_counter ELSE c.id
           Old(at) == IF at = 0 THEN [alloc |-> c.text, timeout_handle |-> 0] ELSE x.list[at]
           Item(at) == [id |-> id, app |-> c.app, text |-> c.text, alloc |-> Old(at).alloc,
                        timeout_handle |-> IF c.timed THEN c.text ELSE Old(at).timeout_handle]
           Kept(at, timers) ==
             [x EXCEPT !.list = IF at = 0 THEN Append(@, Item(at)) ELSE [@ EXCEPT ![at] = Item(at)],
                       !.dn_id_counter = IF c.id = 0 THEN @ + 1 ELSE @,
                       !.timers = IF c.timed THEN timers ELSE @,
                       !.collided = @ \/ (c.id = 0 /\ id \in DOMAIN s.given)]
           y == Kept(Nc!Lookup(x, c.id), Nc!With(x.timers, c.text, Item(Nc!Lookup(x, c.id)).alloc))
           y2 == Kept(A!Nt!Lookup(x, c.id), A!Nt!With(x.timers, c.text, Item(A!Nt!Lookup(x, c.id)).alloc))
           reply == [k |-> "id", id |-> id, app |-> c.app, text |-> c.text]
<1>1. Nc!Parse(x, c) =
        Nc!Send(Nc!Regroup(Nc!Emit(y, [t |-> "notification-updated", of |-> id, v |-> Nc!Note(c.app, c.text)])),
                reply)
  BY Zenon DEF Nc!Parse
<1>2. A!Nt!Parse(x, c) =
        A!Nt!Send(A!Nt!Regroup(A!Nt!Emit(y2, [t |-> "notification-updated", of |-> id, v |-> A!Nt!Note(c.app, c.text)])),
               reply)
  BY Zenon DEF A!Nt!Parse
<1> HIDE DEF Kept, Item
<1>3. y = y2
  BY NotesLookup, NotesTables, Zenon
<1> HIDE DEF y, y2, id, reply
<1> QED BY <1>1, <1>2, <1>3, NotesSent, NotesTables, Zenon

LEMMA NotesDoes == \A x : Nc!DoesInTurn(x) => A!Nt!DoesInTurn(x)
BY Zenon DEF
  Nc!DoesInTurn, A!Nt!DoesInTurn, Nc!Ran, A!Nt!Ran, Nc!FoldLeft, A!Nt!FoldLeft, Nc!QueueInTurn,
  A!Nt!QueueInTurn, Nc!Last, A!Nt!Last, Nc!MapThenFoldSet, A!Nt!MapThenFoldSet, Nc!Max, A!Nt!Max

\* The plug-in reads a call, its timers fire, its triggers are handled, and a client
\* reads what it is sent.
LEMMA NotesReads == Nc!ReadsCall => A!Nt!ReadsCall
BY NotesClose, NotesParse, NotesDoes DEF
  Nc!ReadsCall, A!Nt!ReadsCall, Nc!Method, A!Nt!Method

LEMMA NotesTimeout == \A h : Nc!Timeout(h) => A!Nt!Timeout(h)
BY NotesClose, NotesDoes, NotesTables DEF
  Nc!Timeout, A!Nt!Timeout, Nc!SelectInSeq, A!Nt!SelectInSeq, Nc!Min, A!Nt!Min

LEMMA NotesHandles == Nc!Handles => A!Nt!Handles
BY NotesRow, NotesTables DEF Nc!Handles, A!Nt!Handles, Nc!Shows, A!Nt!Shows

LEMMA NotesHears == Nc!Hears => A!Nt!Hears
BY NotesTables DEF Nc!Hears, A!Nt!Hears

\* A client calls, the user acts.
LEMMA NotesActs == Nc!Acts => A!Nt!Acts
<1>1. \A app, id, timed : Nc!Notifies(app, id, timed) => A!Nt!Notifies(app, id, timed)
  BY Zenon DEF Nc!Notifies, A!Nt!Notifies, Nc!Asks, A!Nt!Asks
<1>2. \A id : Nc!Closes(id) => A!Nt!Closes(id)
  BY Zenon DEF Nc!Closes, A!Nt!Closes, Nc!Asks, A!Nt!Asks
<1>3. \A x : Nc!UserDoes(x) => A!Nt!UserDoes(x)
  BY NotesDoes, Zenon DEF Nc!UserDoes, A!Nt!UserDoes
<1>4. \A id : Nc!UserExpands(id) => A!Nt!UserExpands(id)
  BY <1>3, NotesLookup, NotesSent DEF Nc!UserExpands, A!Nt!UserExpands
<1>5. \A id : Nc!UserCloses(id) => A!Nt!UserCloses(id)
  BY <1>3, NotesClose DEF Nc!UserCloses, A!Nt!UserCloses
<1>6. \A id : Nc!UserActs(id) => A!Nt!UserActs(id)
  BY <1>3, NotesSent DEF Nc!UserActs, A!Nt!UserActs
<1>7. Nc!UserCollapses => A!Nt!UserCollapses
  BY <1>3, NotesSent DEF Nc!UserCollapses, A!Nt!UserCollapses
<1> QED BY <1>1, <1>2, <1>4, <1>5, <1>6, <1>7, Zenon DEF Nc!Acts, A!Nt!Acts

\* Every step of the notification centre is one that was proved about.
LEMMA NotesSteps == Nc!Turns \/ Nc!Works \/ Nc!Acts => A!Nt!Turns \/ A!Nt!Works \/ A!Nt!Acts
BY NotesReads, NotesTimeout, NotesHandles, NotesHears, NotesActs, Zenon
DEF Nc!Turns, Nc!Works, A!Nt!Turns, A!Nt!Works

\* What was proved is what is meant here.
LEMMA NotesMean == A!Nt!TypeOK /\ A!Nt!NotificationsShown => Nc!TypeOK /\ Nc!NotificationsShown
<1>1. A!Nt!TypeOK => Nc!TypeOK
  BY Zenon DEF Nc!TypeOK, A!Nt!TypeOK, Nc!Range, A!Nt!Range
<1>2. \A x : Nc!Ids(x) = A!Nt!Ids(x)
  BY Zenon DEF Nc!Ids, A!Nt!Ids, Nc!Range, A!Nt!Range
<1>3. A!Nt!NotificationsShown => Nc!NotificationsShown
  BY <1>2, NotesRow, NotesMembers, NotesTables, NotesCounted DEF
    Nc!NotificationsShown, A!Nt!NotificationsShown, Nc!Idle, A!Nt!Idle, Nc!Range, A!Nt!Range
<1> QED BY <1>1, <1>3

----------------------------------------------------------------------------
(* ALSA *)

\* It starts.
LEMMA CardInit == Snd!Init => A!Init
BY Zenon DEF Snd!Init, A!Init, Snd!Card, A!Card, Snd!Channels, A!Channels, Snd!Volumes, A!Volumes,
  Snd!New, A!New

\* The levels
LEMMA CardReads ==
  /\ Snd!Names = A!Names /\ Snd!Main = A!Main /\ Snd!Hw = A!Hw
  /\ Snd!Channels = A!Channels /\ Snd!Volumes = A!Volumes
  /\ \A v : Snd!Controls(v) = A!Controls(v)
  /\ \A a, b : Snd!Quotient(a, b) = A!Quotient(a, b)
  /\ \A f : Snd!Range(f) = A!Range(f)
BY Zenon DEF
  Snd!Names, A!Names, Snd!Main, A!Main, Snd!Hw, A!Hw, Snd!Channels, A!Channels, Snd!Volumes, A!Volumes,
  Snd!Controls, A!Controls, Snd!Quotient, A!Quotient, Snd!Range, A!Range

LEMMA CardNumbers ==
  /\ \A level : Snd!AvgGet(level) = A!AvgGet(level)
  /\ \A n : Snd!Clamp(n) = A!Clamp(n)
  /\ \A percent : Snd!StepsOf(percent) = A!StepsOf(percent)
  /\ \A S : Snd!Max(S) = A!Max(S) /\ Snd!Min(S) = A!Min(S)
BY CardReads, Zenon DEF
  Snd!AvgGet, A!AvgGet, Snd!Clamp, A!Clamp, Snd!StepsOf, A!StepsOf, Snd!Max, A!Max, Snd!Min, A!Min

LEMMA CardDelta ==
  \A sign, percent, level : Snd!VolumeDelta(sign, percent, level) = A!VolumeDelta(sign, percent, level)
BY CardNumbers DEF Snd!VolumeDelta, A!VolumeDelta

LEMMA CardIsMeant == \A sign, percent, from : Snd!Meant(sign, percent, from) = A!Meant(sign, percent, from)
<1>1. \A n, percent : Snd!Distance(n, percent) = A!Distance(n, percent)
  BY Zenon DEF Snd!Distance, A!Distance, Snd!Abs, A!Abs
<1>2. Snd!Volumes = A!Volumes
  BY CardReads
<1> TAKE sign, percent, from
<1> DEFINE
  nearest == {n \in A!Volumes : \A k \in A!Volumes : A!Distance(n - Lo, percent) <= A!Distance(k - Lo, percent)}
  nearest2 == {n \in Snd!Volumes : \A k \in Snd!Volumes : Snd!Distance(n - Lo, percent) <= Snd!Distance(k - Lo, percent)}
  above == {n \in A!Volumes : n > from /\ A!Distance(n - from, percent) <= 100}
  above2 == {n \in Snd!Volumes : n > from /\ Snd!Distance(n - from, percent) <= 100}
  below == {n \in A!Volumes : n < from /\ A!Distance(from - n, percent) <= 100}
  below2 == {n \in Snd!Volumes : n < from /\ Snd!Distance(from - n, percent) <= 100}
<1>3. nearest2 = nearest
  BY <1>1, <1>2, Zenon
<1>4. above2 = above
  BY <1>1, <1>2, Zenon
<1>5. below2 = below
  BY <1>1, <1>2, Zenon
<1>6. A!Meant(sign, percent, from)
        = CASE sign = "=" -> nearest [] sign = "+" -> above [] sign = "-" -> below
  BY Zenon DEF A!Meant
<1>7. Snd!Meant(sign, percent, from)
        = CASE sign = "=" -> nearest2 [] sign = "+" -> above2 [] sign = "-" -> below2
  BY Zenon DEF Snd!Meant
<1> HIDE DEF nearest, nearest2, above, above2, below, below2
<1> QED BY <1>3, <1>4, <1>5, <1>6, <1>7

\* What is to be read, and shown
LEMMA CardReadable == \A v, open : Snd!Readable(v, open) = A!Readable(v, open)
BY CardReads, Zenon DEF Snd!Readable, A!Readable

LEMMA CardTriggers ==
  /\ \A x, t : Snd!Emit(x, t) = A!Emit(x, t)
  /\ \A t, o : Snd!Trigger(t, o) = A!Trigger(t, o)
  /\ \A x : Snd!Volume(x) = A!Volume(x)
  /\ \A f, x, v : Snd!With(f, x, v) = A!With(f, x, v)
  /\ \A f, S : Snd!Restrict(f, S) = A!Restrict(f, S)
BY Zenon DEF
  Snd!Emit, A!Emit, Snd!Trigger, A!Trigger, Snd!Volume, A!Volume, Snd!With, A!With, Snd!Restrict, A!Restrict

LEMMA CardRow == \A x, name : Snd!Row(x, name) = A!Row(x, name)
BY CardNumbers, Zenon DEF Snd!Row, A!Row

LEMMA CardDoes == \A x : Snd!DoesInTurn(x) => A!DoesInTurn(x)
BY Zenon DEF
  Snd!DoesInTurn, A!DoesInTurn, Snd!Ran, A!Ran, Snd!FoldLeft, A!FoldLeft, Snd!QueueInTurn,
  A!QueueInTurn, Snd!Last, A!Last, Snd!MapThenFoldSet, A!MapThenFoldSet, Snd!Max, A!Max

\* The mixers are opened and closed.
LEMMA CardSeen == \A x : Snd!Seen(x) = A!Seen(x)
BY Zenon DEF Snd!Seen, A!Seen, Snd!Restrict, A!Restrict

LEMMA CardSubscribes == \A x, name, seen : Snd!Subscribe(x, name, seen) = A!Subscribe(x, name, seen)
<1> TAKE x, name, seen
<1> DEFINE
  Y(controls) == [x EXCEPT !.src = [n \in DOMAIN @ \cup {name} |-> IF n = name THEN controls ELSE @[n]],
                           !.default_name = IF @ = "none" THEN name ELSE @,
                           !.again = @ \/ name \in DOMAIN x.src]
  E == [x EXCEPT !.early = @ \/ x.chosen]
<1>1. A!Subscribe(x, name, seen)
        = IF ~x.active THEN A!Emit(E, A!Trigger("volume-conf-removed", name))
          ELSE IF name \in DOMAIN seen.src
               THEN A!Emit(A!Emit(Y(A!Controls(s)), A!Trigger("volume-conf", name)),
                           A!Trigger("volume-conf-removed", name))
               ELSE A!Emit(Y(A!Controls(s)), A!Trigger("volume-conf", name))
  BY Zenon DEF A!Subscribe
<1>2. Snd!Subscribe(x, name, seen)
        = IF ~x.active THEN Snd!Emit(E, Snd!Trigger("volume-conf-removed", name))
          ELSE IF name \in DOMAIN seen.src
               THEN Snd!Emit(Snd!Emit(Y(Snd!Controls(s)), Snd!Trigger("volume-conf", name)),
                             Snd!Trigger("volume-conf-removed", name))
               ELSE Snd!Emit(Y(Snd!Controls(s)), Snd!Trigger("volume-conf", name))
  BY Zenon DEF Snd!Subscribe
<1> HIDE DEF Y, E
<1>3. Snd!Controls(s) = A!Controls(s) /\ \A k : Snd!Trigger(k, name) = A!Trigger(k, name)
  BY CardReads, CardTriggers, Zenon
<1>4. \A y, t : Snd!Emit(y, t) = A!Emit(y, t)
  BY CardTriggers, Zenon
<1>5. Snd!Emit(E, Snd!Trigger("volume-conf-removed", name)) = A!Emit(E, A!Trigger("volume-conf-removed", name))
  BY <1>3, <1>4, Zenon
<1>6. Y(Snd!Controls(s)) = Y(A!Controls(s))
  BY <1>3, Zenon
<1>7. Snd!Emit(Y(Snd!Controls(s)), Snd!Trigger("volume-conf", name))
        = A!Emit(Y(A!Controls(s)), A!Trigger("volume-conf", name))
  BY <1>3, <1>4, <1>6, Zenon
<1>8. Snd!Emit(Snd!Emit(Y(Snd!Controls(s)), Snd!Trigger("volume-conf", name)), Snd!Trigger("volume-conf-removed", name))
        = A!Emit(A!Emit(Y(A!Controls(s)), A!Trigger("volume-conf", name)), A!Trigger("volume-conf-removed", name))
  BY <1>3, <1>4, <1>7, Zenon
<1>9. CASE ~x.active
  <2>1. A!Subscribe(x, name, seen) = A!Emit(E, A!Trigger("volume-conf-removed", name))
    BY <1>1, <1>9, Zenon
  <2>2. Snd!Subscribe(x, name, seen) = Snd!Emit(E, Snd!Trigger("volume-conf-removed", name))
    BY <1>2, <1>9, Zenon
  <2> QED BY <2>1, <2>2, <1>5, Zenon
<1>10. CASE x.active /\ name \in DOMAIN seen.src
  <2>1. A!Subscribe(x, name, seen)
          = A!Emit(A!Emit(Y(A!Controls(s)), A!Trigger("volume-conf", name)), A!Trigger("volume-conf-removed", name))
    BY <1>1, <1>10, Zenon
  <2>2. Snd!Subscribe(x, name, seen)
          = Snd!Emit(Snd!Emit(Y(Snd!Controls(s)), Snd!Trigger("volume-conf", name)),
                     Snd!Trigger("volume-conf-removed", name))
    BY <1>2, <1>10, Zenon
  <2> QED BY <2>1, <2>2, <1>8, Zenon
<1>11. CASE x.active /\ name \notin DOMAIN seen.src
  <2>1. A!Subscribe(x, name, seen) = A!Emit(Y(A!Controls(s)), A!Trigger("volume-conf", name))
    BY <1>1, <1>11, Zenon
  <2>2. Snd!Subscribe(x, name, seen) = Snd!Emit(Y(Snd!Controls(s)), Snd!Trigger("volume-conf", name))
    BY <1>2, <1>11, Zenon
  <2> QED BY <2>1, <2>2, <1>7, Zenon
<1> QED BY <1>9, <1>10, <1>11, Zenon

LEMMA CardFinalizes == \A x, name : Snd!Finalize(x, name) = A!Finalize(x, name)
BY CardTriggers, Zenon DEF Snd!Finalize, A!Finalize

LEMMA CardCalls ==
  /\ \A x : Snd!Activate(x) = A!Activate(x)
  /\ \A x : Snd!Deactivate(x) = A!Deactivate(x)
BY CardReads, CardFinalizes DEF Snd!Activate, A!Activate, Snd!Deactivate, A!Deactivate

LEMMA CardWorks == Snd!Works => A!Works
<1>1. Snd!Selects => A!Selects
  BY Zenon DEF Snd!Selects, A!Selects
<1>2. Snd!SetsFlag => A!SetsFlag
  BY Zenon DEF Snd!SetsFlag, A!SetsFlag
<1>3. Snd!SubscribesAll => A!SubscribesAll
  <2> DEFINE z == [m EXCEPT !.idles = @ - 1]
  <2>1. ASSUME NEW seen
        PROVE  Snd!Volume(Snd!Subscribe(Snd!Subscribe(z, Snd!Main, seen), Snd!Hw, seen))
                 = A!Volume(A!Subscribe(A!Subscribe(z, A!Main, seen), A!Hw, seen))
    <3> HIDE DEF z
    <3> QED BY CardReads, CardSubscribes, CardTriggers, Zenon
  <2>2. ASSUME NEW seen,
               Snd!DoesInTurn(Snd!Volume(Snd!Subscribe(Snd!Subscribe(z, Snd!Main, seen), Snd!Hw, seen)))
        PROVE  A!DoesInTurn(A!Volume(A!Subscribe(A!Subscribe(z, A!Main, seen), A!Hw, seen)))
    <3> HIDE DEF z
    <3> QED BY <2>1, <2>2, CardDoes, Zenon
  <2> QED BY <2>2, CardSeen, Zenon DEF Snd!SubscribesAll, A!SubscribesAll
<1>4. Snd!Called => A!Called
  BY CardCalls, CardDoes DEF Snd!Called, A!Called
<1> QED BY <1>1, <1>2, <1>3, <1>4, Zenon DEF Snd!Works, A!Works

\* A descriptor is readable, a trigger is handled.
LEMMA CardTurns == Snd!Turns => A!Turns
<1>1. Snd!Dispatches => A!Dispatches
  BY CardReads, CardTriggers, CardDoes DEF Snd!Dispatches, A!Dispatches
<1>2. \A t, x : Snd!RowsAfter(t, x) = A!RowsAfter(t, x)
  BY CardRow, CardTriggers DEF Snd!RowsAfter, A!RowsAfter
<1>3. Snd!Handles => A!Handles
  <2>1. \A r : Snd!Shows(r) <=> A!Shows(r)
    BY Zenon DEF Snd!Shows, A!Shows
  <2> QED BY <1>2, <2>1, CardSeen, Zenon DEF Snd!Handles, A!Handles
<1> QED BY <1>1, <1>3, Zenon DEF Snd!Turns, A!Turns

\* The user, or somebody else, sets the levels, and PulseAudio comes and goes.
LEMMA CardActs == Snd!Acts => A!Acts
<1>1. Snd!OtherTurns => A!OtherTurns
  BY Zenon DEF Snd!OtherTurns, A!OtherTurns
<1>2. \A level : Snd!SetByOthers(level) => A!SetByOthers(level)
  BY CardReads, CardReadable, Zenon DEF Snd!SetByOthers, A!SetByOthers
<1>3. \A name, v, own : Snd!UserDoes(name, v, own) => A!UserDoes(name, v, own)
  BY CardReadable, CardTriggers, CardDoes DEF Snd!UserDoes, A!UserDoes
<1>4. \A name : Snd!MuteSet(name) => A!MuteSet(name)
  BY <1>3, Zenon DEF Snd!MuteSet, A!MuteSet
<1>5. \A name : Snd!DefaultSet(name) => A!DefaultSet(name)
  BY CardTriggers, CardDoes DEF Snd!DefaultSet, A!DefaultSet
<1>6. \A name, sign, percent : Snd!VolumeSet(name, sign, percent) => A!VolumeSet(name, sign, percent)
  <2> TAKE name, sign, percent
  <2> DEFINE
    own == m.src[name]
    delta == A!VolumeDelta(sign, percent, own.level)
    delta2 == Snd!VolumeDelta(sign, percent, own.level)
    level == [c \in A!Channels |-> A!Clamp(own.level[c] + delta)]
    level2 == [c \in Snd!Channels |-> Snd!Clamp(own.level[c] + delta2)]
    clear == own.level = s.level /\ \A c \in A!Channels : level[c] = own.level[c] + delta
    clear2 == own.level = s.level /\ \A c \in Snd!Channels : level2[c] = own.level[c] + delta2
    meant == IF clear THEN A!Meant(sign, percent, A!AvgGet(s.level)) ELSE A!Volumes
    meant2 == IF clear2 THEN Snd!Meant(sign, percent, Snd!AvgGet(s.level)) ELSE Snd!Volumes
  <2>1. A!VolumeSet(name, sign, percent)
          = A!UserDoes(name, [s EXCEPT !.level = level, !.meant = meant], [own EXCEPT !.level = level])
    BY Zenon DEF A!VolumeSet
  <2>2. Snd!VolumeSet(name, sign, percent)
          = Snd!UserDoes(name, [s EXCEPT !.level = level2, !.meant = meant2], [own EXCEPT !.level = level2])
    BY Zenon DEF Snd!VolumeSet
  <2>3. delta2 = delta
    BY CardDelta, Zenon
  <2> HIDE DEF delta, delta2, own
  <2>4. level2 = level
    BY <2>3, CardReads, CardNumbers, Zenon
  <2> HIDE DEF level, level2
  <2>5. clear2 <=> clear
    BY <2>3, <2>4, CardReads, Zenon
  <2> HIDE DEF clear, clear2
  <2>6. meant2 = meant
    BY <2>5, CardReads, CardNumbers, CardIsMeant, Zenon
  <2> HIDE DEF meant, meant2
  <2> QED BY <1>3, <2>1, <2>2, <2>4, <2>6, Zenon
<1> QED BY <1>1, <1>2, <1>4, <1>5, <1>6, Zenon DEF Snd!Acts, A!Acts

\* Every step of the plug-in is one that was proved about.
LEMMA CardSteps == Snd!Turns \/ Snd!Works \/ Snd!Acts => A!Turns \/ A!Works \/ A!Acts
BY CardTurns, CardWorks, CardActs

\* What was proved is what is meant here.
LEMMA CardMeans ==
  /\ A!TypeOK => Snd!TypeOK
  /\ A!CardShown => Snd!CardShown
  /\ A!CopiesFollow => Snd!CopiesFollow
  /\ A!LevelAsMeant => Snd!LevelAsMeant
<1>1. A!TypeOK => Snd!TypeOK
  BY CardReads DEF Snd!TypeOK, A!TypeOK
<1>2. A!CardShown => Snd!CardShown
  BY CardReads, CardNumbers DEF Snd!CardShown, A!CardShown, Snd!Quiet, A!Quiet, Snd!Idle, A!Idle
<1>3. A!CopiesFollow => Snd!CopiesFollow
  BY CardReads DEF Snd!CopiesFollow, A!CopiesFollow
<1>4. A!LevelAsMeant => Snd!LevelAsMeant
  BY CardNumbers, Zenon DEF Snd!LevelAsMeant, A!LevelAsMeant
<1> QED BY <1>1, <1>2, <1>3, <1>4

----------------------------------------------------------------------------
(* Side by side *)

MpdInv == P!Session /\ P!InOrderAll /\ P!Known /\ P!Covered
CardInv == A!ShownInv /\ (A!PercentAssumption => A!LevelAsMeant)
IInv ==
  /\ who = "mpd" => MpdInv
  /\ who = "client" => A!ClientInv
  /\ who = "ncenter" => A!NotesInv
  /\ who = "alsa" => CardInv

\* What is assumed of the constants here is what those proofs assume.
LEMMA Assumptions ==
  /\ P!SongsAssumption /\ A!ClientsAllowed /\ A!NotesAllowed
  /\ A!RangeAssumption /\ MaxTurns \in Nat
<1>1. Mpd!Names = P!Names
  BY Zenon DEF Mpd!Names, P!Names, Mpd!Art, P!Art
<1>2. P!SongsAssumption
  BY <1>1, SongsAssumption, NilAssumption, Zenon DEF P!SongsAssumption, SongsAssumption, NilAssumption
<1>3. A!ClientsAllowed
  BY SongsAssumption, ClientsAssumption, Zenon DEF A!ClientsAllowed, SongsAssumption, ClientsAssumption
<1>4. A!NotesAllowed
  BY AppsAssumption, Zenon DEF A!NotesAllowed, AppsAssumption
<1>5. A!RangeAssumption /\ MaxTurns \in Nat
  BY MixersAssumption, Zenon DEF A!RangeAssumption, MixersAssumption
<1> QED BY <1>2, <1>3, <1>4, <1>5

\* The invariant of the plug-in that is looked at holds at first,
LEMMA InitIInv == Init => IInv
<1> SUFFICES ASSUME Init PROVE IInv
  OBVIOUS
<1>1. ASSUME who = "mpd" PROVE MpdInv
  <2>1. P!Init
    BY <1>1, MpdInit DEF Init
  <2> QED BY <2>1, Assumptions, P!InitSession, P!InitInOrder, P!InitKnown, P!InitCovered DEF MpdInv
<1>2. ASSUME who = "client" PROVE A!ClientInv
  <2>1. A!Cl!Init
    BY <1>2, ClientInit DEF Init
  <2> QED BY <2>1, Assumptions, A!InitClient
<1>3. ASSUME who = "ncenter" PROVE A!NotesInv
  <2>1. A!Nt!Init
    BY <1>3, NotesInit DEF Init
  <2> QED BY <2>1, Assumptions, A!NotesInitKeeps
<1>4. ASSUME who = "alsa" PROVE CardInv
  <2>1. A!Init
    BY <1>4, CardInit DEF Init
  <2>2. A!ShownInv
    BY <2>1, Assumptions, A!InitKeeps, A!InitShown, Zenon DEF A!ShownInv
  <2>3. A!PercentAssumption => A!LevelAsMeant
    BY <2>1, Assumptions, A!InitMeant, Zenon
  <2> QED BY <2>2, <2>3 DEF CardInv
<1> QED BY <1>1, <1>2, <1>3, <1>4 DEF IInv

\* ... and every step of whichever plug-in keeps it.
LEMMA NextIInv == IInv /\ [Turns \/ Works \/ Acts]_allVars => IInv'
<1> SUFFICES ASSUME IInv, [Turns \/ Works \/ Acts]_allVars PROVE IInv'
  OBVIOUS
<1>1. who' = who
  BY DEF Turns, Works, Acts, allVars
<1>2. ASSUME who = "mpd" PROVE MpdInv'
  <2>1. Mpd!Works \/ Mpd!Acts \/ UNCHANGED allVars
    BY <1>2 DEF Turns, Works, Acts
  <2>2. UNCHANGED allVars => UNCHANGED P!vars
    BY DEF allVars, mpdVars, P!vars, P!serverVars, P!counters
  <2>3. [P!Next]_(P!vars)
    BY <2>1, <2>2, MpdSteps
  <2>4. P!Session /\ P!InOrderAll /\ P!Known /\ P!Covered
    BY <1>2 DEF IInv, MpdInv
  <2>5. P!Session'
    BY <2>3, <2>4, Assumptions, P!NextSession
  <2>6. P!InOrderAll' /\ P!Known' /\ P!Covered'
    BY <2>3, <2>4, <2>5, Assumptions, P!NextInOrder, P!NextKnown, P!NextCovered
  <2> QED BY <2>5, <2>6 DEF MpdInv
<1>3. ASSUME who = "client" PROVE A!ClientInv'
  <2>1. Cl!Turns \/ Cl!Works \/ Cl!Acts \/ UNCHANGED allVars
    BY <1>3 DEF Turns, Works, Acts
  <2>2. UNCHANGED allVars => UNCHANGED A!Cl!vars
    BY DEF allVars, busVars, A!Cl!vars
  <2>3. [A!Cl!Turns \/ A!Cl!Works \/ A!Cl!Acts]_(A!Cl!vars)
    BY <2>1, <2>2, ClientSteps
  <2> QED BY <1>3, <2>3, Assumptions, A!NextClient DEF IInv
<1>4. ASSUME who = "ncenter" PROVE A!NotesInv'
  <2>1. Nc!Turns \/ Nc!Works \/ Nc!Acts \/ UNCHANGED allVars
    BY <1>4 DEF Turns, Works, Acts
  <2>2. UNCHANGED allVars => UNCHANGED A!Nt!vars
    BY DEF allVars, busVars, A!Nt!vars
  <2>3. [A!Nt!Turns \/ A!Nt!Works \/ A!Nt!Acts]_(A!Nt!vars)
    BY <2>1, <2>2, NotesSteps
  <2>4. A!NotesInv
    BY <1>4 DEF IInv
  <2> QED BY <2>3, <2>4, Assumptions, A!NotesNextKeeps
<1>5. ASSUME who = "alsa" PROVE CardInv'
  <2>1. Snd!Turns \/ Snd!Works \/ Snd!Acts \/ UNCHANGED allVars
    BY <1>5 DEF Turns, Works, Acts
  <2>2. UNCHANGED allVars => UNCHANGED A!vars
    BY DEF allVars, busVars, A!vars
  <2>3. [A!Turns \/ A!Works \/ A!Acts]_(A!vars)
    BY <2>1, <2>2, CardSteps
  <2>4. A!ShownInv /\ (A!PercentAssumption => A!LevelAsMeant)
    BY <1>5 DEF IInv, CardInv
  <2>5. A!ShownInv'
    BY <2>3, <2>4, Assumptions, A!NextShown, Zenon
  <2>6. A!PercentAssumption => A!LevelAsMeant'
    <3>1. A!PercentAssumption => A!MeantInv
      BY <2>4, Zenon DEF A!ShownInv, A!MeantInv
    <3> QED BY <2>3, <3>1, Assumptions, A!NextKeepsMeant, Zenon
  <2>7. A!PercentAssumption' <=> A!PercentAssumption
    BY Zenon DEF A!PercentAssumption
  <2> QED BY <2>5, <2>6, <2>7, Zenon DEF CardInv
<1> QED BY <1>1, <1>2, <1>3, <1>4, <1>5 DEF IInv

\* It says what is asked of the Music Player Daemon plug-in, of the client sources, of
\* the notification centre and of ALSA.
LEMMA Means ==
  ASSUME IInv
  PROVE  /\ who = "mpd" => /\ Mpd!TypeOK /\ Mpd!InPhase /\ Mpd!IdleIsRespected
                           /\ Mpd!CommandsRun /\ Mpd!SongShown /\ Mpd!CoverShown
         /\ who = "client" => Cl!TypeOK /\ Cl!CommandsRun /\ Cl!ShownAsIs
         /\ who = "ncenter" => Nc!TypeOK /\ Nc!NotificationsShown
         /\ who = "alsa" => /\ Snd!TypeOK /\ Snd!CardShown /\ Snd!CopiesFollow
                            /\ A!PercentAssumption => Snd!LevelAsMeant
<1>1. ASSUME who = "mpd"
      PROVE  P!TypeOK /\ P!InPhase /\ P!IdleIsRespected /\ P!CommandsRun /\ P!SongShown /\ P!CoverShown
  BY <1>1, Assumptions, P!SessionMeans, P!OrderMeans, P!CoverMeans DEF IInv, MpdInv
<1>2. ASSUME who = "client" PROVE A!Cl!TypeOK /\ A!Cl!CommandsRun /\ A!Cl!ShownAsIs
  <2>1. A!ClientInv
    BY <1>2 DEF IInv
  <2>2. A!Cl!TypeOK
    BY <2>1, Zenon DEF A!ClientInv, A!Stands
  <2> QED BY <2>1, <2>2, A!FollowsMeans, A!InTurnMeans
<1>3. ASSUME who = "ncenter" PROVE A!Nt!TypeOK /\ A!Nt!NotificationsShown
  <2>1. A!NotesInv
    BY <1>3 DEF IInv
  <2> QED BY <2>1, A!Rest, A!Typed
<1>4. ASSUME who = "alsa"
      PROVE  A!TypeOK /\ A!CardShown /\ A!CopiesFollow /\ (A!PercentAssumption => A!LevelAsMeant)
  <2>1. A!ShownInv /\ (A!PercentAssumption => A!LevelAsMeant)
    BY <1>4 DEF IInv, CardInv
  <2>2. A!CopiesFollow
    BY <2>1, Zenon DEF A!ShownInv, A!IInv
  <2> QED BY <2>1, <2>2, A!AtRest, A!ShownTyped
<1> QED BY <1>1, <1>2, <1>3, <1>4, MpdMeans, ClientMeans, NotesMean, CardMeans

LEMMA Invariant == Spec => []IInv
BY InitIInv, NextIInv, PTL DEF Spec

\* Replies and commands stay in step, nothing but "noidle" is sent to a server that
\* waits in "idle", and the user's commands are run in order and once, by a daemon
\* as by any client's service: at rest all of them were, but for those that a client
\* lost with its connection or wrote to one that the service had closed.
THEOREM AllCommandsRun == Spec => []CommandsRun
<1>1. IInv => CommandsRun
  BY Means DEF CommandsRun
<1> QED BY <1>1, Invariant, PTL

\* The song, its tags and its cover that the bar shows at rest are the server's.
THEOREM TheSongIsShown == Spec => []SongShown
<1>1. IInv => SongShown
  BY Means DEF SongShown
<1> QED BY <1>1, Invariant, PTL

\* At rest, the notification centre's rows, their groups and the clients agree with
\* the list of notifications, unless an id was given out twice or a lost timer fired.
THEOREM TheNotesAreShown == Spec => []NotificationsShown
<1>1. IInv => NotificationsShown
  BY Means DEF NotificationsShown
<1> QED BY <1>1, Invariant, PTL

\* The rows of the volume control are there at rest if and only if ALSA is the provider
\* (unless its mixers bailed out although it was chosen, or were opened twice), each
\* shows the card's volume and switch, the copy that the next change starts from is the
\* card's or is about to be renewed, and the level is one that the user can have meant,
\* where the lowest level is 0 and the percentages are up to 100; so MixerShown holds
\* whichever plug-in is looked at, PulseAudio excepted.
THEOREM TheCardIsShown ==
  ASSUME A!PercentAssumption PROVE Spec => [](who # "pulse" => MixerShown)
<1>1. IInv => (who # "pulse" => MixerShown)
  BY Means DEF MixerShown
<1> QED BY <1>1, Invariant, PTL

\* What a client shows at rest is its service's value, and the types are kept there, by
\* the daemon's plug-in, by the notification centre and by ALSA.
THEOREM ClientsShown ==
  Spec => [](/\ who = "client" => ShownAsIs
             /\ who \in {"mpd", "client", "ncenter", "alsa"} => TypeOK)
<1>1. IInv => /\ who = "client" => ShownAsIs
              /\ who \in {"mpd", "client", "ncenter", "alsa"} => TypeOK
  BY Means DEF ShownAsIs, TypeOK
<1> QED BY <1>1, Invariant, PTL
=============================================================================
