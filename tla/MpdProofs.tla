----------------------------- MODULE MpdProofs -----------------------------
(* Proofs about the Music Player Daemon plug-in (MpdSession), for any songs,  *)
(* pictures and bounds.  The inductive invariant has four parts:             *)
(*   Session     types, and where the plug-in and the server stand: one      *)
(*               command at a time is under way, the lines on their way are  *)
(*               those of its reply, in order (AskedOnce, Answers), and a    *)
(*               wait that is to end ends (Busy, Noticed);                   *)
(*   InOrderAll  where each of the user's commands is between the queue and  *)
(*               the server;                                                 *)
(*   Known       what the plug-in shows of the song is current, or what      *)
(*               will make it so is on its way (Refill, KnownOf);            *)
(*   Covered     so for the picture: the chunks that were received are the   *)
(*               first ones of the song's, or the next command or line is    *)
(*               about the chunk that follows (InHand, UnderWay).            *)
EXTENDS MpdSession, SequenceTheorems, TLAPS

Spec == Init /\ [][Next]_vars

SongsAssumption ==
  /\ Nil \notin Songs /\ Nil \notin Names \cup {"init"}
  /\ Embedded \in [Songs -> Nat] /\ Folder \in [Songs -> Nat]

Waiting == [c : {"status", "currentsong", "idle"}] \cup [c : Art, file : Songs, offset : Nat]
             \cup [c : {"next"}, n : Nat]
Commands == Waiting \cup [c : {"noidle", "clearerror"}]
Artists == {Artist[x] : x \in Songs} \cup {Nil}
Lines == [l : {"OK"}, of : Names \cup {"init"}] \cup [l : {"ACK"}, of : {"albumart"}]
           \cup [l : {"changed"}, of : {"idle"}, what : Subsystems]
           \cup [l : {"status"}, of : {"status"}, song : Songs]
           \cup [l : {"tags"}, of : {"currentsong"}, song : Songs]
           \cup [l : {"picture"}, of : Art, file : Songs, offset : Nat, total : Nat]
Variables ==
  [queue : Seq(Waiting), current : Names \cup {"init", Nil}, player : Songs \cup {Nil},
   tags : [file : Songs \cup {Nil}, artist : Artists], art : Art, total : Nat, received : Nat,
   loader : Seq(Songs \X Nat), cover : Songs \cup {Nil},
   shown : [player : Songs \cup {Nil}, file : Songs \cup {Nil}, artist : Artists],
   out : Seq(Commands)]

IdleLast(queue) == \A i \in DOMAIN queue : queue[i].c = "idle" => i = Len(queue)

Types ==
  /\ song \in Songs /\ idle \in BOOLEAN /\ pending \subseteq Subsystems
  /\ link \in {"down", "up", "closed"} /\ interrupted \in BOOLEAN
  /\ req \in Seq(Commands) /\ rep \in Seq(Lines)
  /\ m \in Variables /\ m.out = <<>> /\ IdleLast(m.queue)
  /\ changes \in Nat /\ cmds \in Nat /\ drops \in Nat /\ done \in Seq(Nat)

\* The queue r is q without "idle", and the command cmd
Appended(q, r, cmd) ==
  /\ r # <<>> /\ Len(r) <= Len(q) + 1 /\ r[Len(r)] = cmd
  /\ \A i \in DOMAIN q : q[i].c # "idle" => i < Len(r)
  /\ \A i \in DOMAIN r : i # Len(r) => i \in DOMAIN q /\ r[i] = q[i] /\ q[i].c # "idle"

\* A set of integers has one smallest element
LEMMA MinIs == ASSUME NEW T, NEW x \in T, T \subseteq Int, \A y \in T : x <= y PROVE Min(T) = x
<1>1. x \in T /\ \A y \in T : x <= y
  OBVIOUS
<1>2. \A z \in T : (\A y \in T : z <= y) => z = x
  OBVIOUS
<1> QED BY <1>1, <1>2 DEF Min

\* list_remove of "idle" takes the last command of the queue, if it is "idle"
LEMMA RemovesIdle ==
  ASSUME NEW q \in Seq(Waiting), IdleLast(q)
  PROVE  RemoveFirst(q, Idle) = IF q # <<>> /\ q[Len(q)].c = "idle" THEN SubSeq(q, 1, Len(q) - 1) ELSE q
<1>1. \A i \in DOMAIN q : q[i].c = "idle" <=> q[i] = Idle
  BY DEF Waiting, Idle, Cmd, Art
<1>2. CASE q # <<>> /\ q[Len(q)].c = "idle"
  <2> DEFINE T == {i \in 1..Len(q) : q[i] = Idle}
  <2>1. Len(q) \in T
    BY <1>1, <1>2
  <2>2. \A i \in T : i = Len(q)
    BY <1>1, <1>2 DEF IdleLast
  <2>3. Min(T) = Len(q)
    <3>1. T \subseteq Int /\ \A y \in T : Len(q) <= y
      BY <2>2
    <3> HIDE DEF T
    <3> QED BY <2>1, <3>1, MinIs
  <2>4. SelectInSeq(q, LAMBDA v : v = Idle) = Len(q)
    BY <2>1, <2>3 DEF SelectInSeq
  <2>5. RemoveFirst(q, Idle) = SubSeq(q, 1, Len(q) - 1) \o SubSeq(q, Len(q) + 1, Len(q))
    BY <2>1, <2>4 DEF RemoveFirst, RemoveAt
  <2>6. SubSeq(q, Len(q) + 1, Len(q)) = <<>> /\ SubSeq(q, 1, Len(q) - 1) \in Seq(Waiting)
    BY SubSeqProperties
  <2> QED BY <1>2, <2>5, <2>6
<1>3. CASE q = <<>> \/ q[Len(q)].c # "idle"
  <2>1. ~ \E i \in 1..Len(q) : q[i] = Idle
    BY <1>1, <1>3 DEF IdleLast
  <2> QED BY <1>3, <2>1 DEF RemoveFirst
<1> QED BY <1>2, <1>3

\* mpd_cmd_append: the command comes last, after those that were there but "idle"
LEMMA Appends ==
  ASSUME NEW s \in Variables, IdleLast(s.queue), NEW cmd \in Waiting
  PROVE  LET t == CmdAppend(s, cmd)
         IN  /\ t \in Variables /\ IdleLast(t.queue) /\ Appended(s.queue, t.queue, cmd)
             /\ t = [s EXCEPT !.queue = t.queue, !.out = t.out]
             /\ t.out = IF s.current = "idle" THEN Append(s.out, NoIdle) ELSE s.out
<1> DEFINE q == s.queue
           r == RemoveFirst(q, Idle)
<1>1. q \in Seq(Waiting) /\ s.out \in Seq(Commands) /\ NoIdle \in Commands
  BY DEF Variables, Commands, NoIdle, Cmd
<1>2. r = IF q # <<>> /\ q[Len(q)].c = "idle" THEN SubSeq(q, 1, Len(q) - 1) ELSE q
  BY <1>1, RemovesIdle
<1>3. /\ r \in Seq(Waiting) /\ Len(r) <= Len(q)
      /\ \A i \in DOMAIN r : i \in DOMAIN q /\ r[i] = q[i] /\ q[i].c # "idle"
      /\ \A i \in DOMAIN q : q[i].c # "idle" => i \in DOMAIN r
  <2>1. CASE q # <<>> /\ q[Len(q)].c = "idle"
    <3>1. r = SubSeq(q, 1, Len(q) - 1)
      BY <1>2, <2>1
    <3>2. Len(q) \in Nat \ {0}
      BY <1>1, <2>1
    <3>3. r \in Seq(Waiting) /\ Len(r) = Len(q) - 1 /\ \A i \in 1..Len(q)-1 : r[i] = q[i]
      BY <1>1, <3>1, <3>2
    <3>4. \A i \in DOMAIN q : q[i].c = "idle" => i = Len(q)
      BY DEF IdleLast
    <3>5. DOMAIN q = 1..Len(q) /\ DOMAIN r = 1..Len(q) - 1
      BY <1>1, <3>3
    <3> HIDE DEF q, r
    <3> QED BY <2>1, <3>2, <3>3, <3>4, <3>5
  <2>2. CASE q = <<>> \/ q[Len(q)].c # "idle"
    <3>1. r = q
      BY <1>2, <2>2
    <3>2. \A i \in DOMAIN q : q[i].c # "idle"
      BY <1>1, <2>2 DEF IdleLast
    <3> QED BY <1>1, <3>1, <3>2
  <2> QED BY <2>1, <2>2
<1> DEFINE t == CmdAppend(s, cmd)
<1>4. /\ t.queue = Append(r, cmd)
      /\ t.out = IF s.current = "idle" THEN Append(s.out, NoIdle) ELSE s.out
      /\ t = [s EXCEPT !.queue = t.queue, !.out = t.out]
  BY DEF CmdAppend, Variables
<1> HIDE DEF r, t
<1>5. t.queue \in Seq(Waiting) /\ t.out \in Seq(Commands)
  BY <1>1, <1>3, <1>4
<1>6. t \in Variables
  BY <1>4, <1>5 DEF Variables
<1>7. Len(t.queue) = Len(r) + 1 /\ t.queue[Len(r) + 1] = cmd /\ \A i \in DOMAIN r : t.queue[i] = r[i]
  BY <1>3, <1>4
<1>8. Appended(q, t.queue, cmd)
  BY <1>1, <1>3, <1>5, <1>7 DEF Appended
<1>9. IdleLast(t.queue)
  BY <1>3, <1>5, <1>7 DEF IdleLast
<1> QED BY <1>4, <1>6, <1>8, <1>9 DEF t

\* The queue r has the user's commands of q, and is q unless "idle" was removed
Kept(q, r) ==
  /\ \A i \in DOMAIN r : r[i].c = "next" => i \in DOMAIN q /\ q[i] = r[i]
  /\ \A i \in DOMAIN q : q[i].c = "next" => i \in DOMAIN r /\ r[i] = q[i]
  /\ r = q \/ \A i \in DOMAIN r : r[i].c # "idle"

\* The plug-in's variables t, when s was no wait for the server's changes, after a
\* handler that sends nothing
Stays(s, t) ==
  /\ t \in Variables /\ IdleLast(t.queue)
  /\ t.current = s.current /\ t.out = s.out /\ Kept(s.queue, t.queue)

\* What is appended leaves the user's commands where they are
LEMMA AppendedKept ==
  ASSUME NEW q \in Seq(Waiting), NEW r \in Seq(Waiting), NEW cmd \in Waiting,
         cmd.c \notin {"next", "idle"}, Appended(q, r, cmd)
  PROVE  Kept(q, r)
<1>1. Len(r) \in DOMAIN r /\ DOMAIN r = 1..Len(r) /\ DOMAIN q = 1..Len(q) /\ Len(r) \in Nat
  BY DEF Appended
<1>2. \A i \in DOMAIN r : r[i].c # "idle" /\ (r[i].c = "next" => i \in DOMAIN q /\ q[i] = r[i])
  BY <1>1 DEF Appended
<1>3. \A i \in DOMAIN q : q[i].c = "next" => i \in DOMAIN r /\ r[i] = q[i]
  <2> SUFFICES ASSUME NEW i \in DOMAIN q, q[i].c = "next" PROVE i \in DOMAIN r /\ r[i] = q[i]
    OBVIOUS
  <2>1. i < Len(r)
    BY DEF Appended
  <2> QED BY <1>1, <2>1 DEF Appended
<1> QED BY <1>2, <1>3 DEF Kept

\* mpd_cmd_cover: a request for a chunk of the song's picture comes last
LEMMA Covers ==
  ASSUME NEW s \in Variables, IdleLast(s.queue), s.current # "idle",
         NEW offset \in Nat, NEW cmd \in Art
  PROVE  LET t == CmdCover(s, offset, cmd)
         IN  /\ Stays(s, t) /\ t.art = cmd
             /\ t.player = s.player /\ t.tags = s.tags /\ t.cover = s.cover /\ t.shown = s.shown
             /\ t.total = IF offset = 0 THEN 0 ELSE s.total
             /\ t.received = IF offset = 0 THEN 0 ELSE s.received
             /\ t.loader = IF offset = 0 THEN <<>> ELSE s.loader
             /\ IF s.tags.file = Nil THEN t.queue = s.queue
                ELSE Appended(s.queue, t.queue, ArtCmd(cmd, s.tags.file, offset))
<1> DEFINE u == IF offset = 0 THEN [s EXCEPT !.art = cmd, !.total = 0, !.received = 0, !.loader = <<>>]
                ELSE [s EXCEPT !.art = cmd]
           a == ArtCmd(cmd, s.tags.file, offset)
           t == CmdCover(s, offset, cmd)
<1>1. /\ u \in Variables /\ u.queue = s.queue /\ u.current = s.current /\ u.out = s.out /\ u.art = cmd
      /\ u.player = s.player /\ u.tags = s.tags /\ u.cover = s.cover /\ u.shown = s.shown
      /\ u.total = IF offset = 0 THEN 0 ELSE s.total
      /\ u.received = IF offset = 0 THEN 0 ELSE s.received
      /\ u.loader = IF offset = 0 THEN <<>> ELSE s.loader
  <2>1. <<>> \in Seq(Songs \X Nat)
    OBVIOUS
  <2> QED BY <2>1 DEF Variables
<1>2. t = IF u.tags.file = Nil THEN u ELSE CmdAppend(u, ArtCmd(cmd, u.tags.file, offset))
  BY DEF CmdCover
<1> HIDE DEF u, t
<1>3. CASE s.tags.file = Nil
  <2>1. t = u
    BY <1>1, <1>2, <1>3
  <2>2. Kept(s.queue, t.queue)
    BY <1>1, <2>1 DEF Kept
  <2> QED BY <1>1, <1>3, <2>1, <2>2 DEF Stays, t
<1>4. CASE s.tags.file # Nil
  <2>1. s.tags.file \in Songs
    BY <1>4 DEF Variables
  <2>2. a \in Waiting /\ a.c \notin {"next", "idle"}
    BY <2>1 DEF Waiting, ArtCmd, Art
  <2>3. t = CmdAppend(u, a)
    BY <1>1, <1>2, <1>4
  <2> HIDE DEF a
  <2>4. /\ t \in Variables /\ IdleLast(t.queue) /\ Appended(u.queue, t.queue, a)
        /\ t = [u EXCEPT !.queue = t.queue, !.out = t.out] /\ t.out = u.out
    BY <1>1, <2>2, <2>3, Appends
  <2>5. /\ t.current = u.current /\ t.player = u.player /\ t.tags = u.tags /\ t.cover = u.cover
        /\ t.art = u.art /\ t.shown = u.shown /\ t.total = u.total /\ t.received = u.received /\ t.loader = u.loader
    BY <1>1, <2>4 DEF Variables
  <2>6. s.queue \in Seq(Waiting) /\ t.queue \in Seq(Waiting)
    BY <2>4 DEF Variables
  <2>7. Kept(s.queue, t.queue)
    BY <1>1, <2>2, <2>4, <2>6, AppendedKept
  <2> QED BY <1>1, <1>4, <2>4, <2>5, <2>7 DEF Stays, t, a
<1> QED BY <1>3, <1>4

\* Handlers that send nothing, one after the other, send nothing
LEMMA StaysAgain ==
  ASSUME NEW s \in Variables, NEW t, NEW u, Stays(s, t), Stays(t, u)
  PROVE  Stays(s, u)
<1>1. Kept(s.queue, t.queue) /\ Kept(t.queue, u.queue)
  BY DEF Stays
<1>2. Kept(s.queue, u.queue)
  BY <1>1 DEF Kept
<1> QED BY <1>2 DEF Stays

\* mpd_tag_handle
LEMMA TagsHandled ==
  ASSUME NEW s \in Variables, IdleLast(s.queue), s.current # "idle", NEW of \in Songs, Nil \notin Songs
  PROVE  LET t == TagHandle(s, of)
         IN  /\ Stays(s, t)
             /\ t.player = s.player /\ t.cover = s.cover /\ t.shown = s.shown
             /\ t.tags.file = of /\ (Artist[of] # Nil => t.tags.artist = Artist[of])
             /\ IF s.tags.file = of
                THEN /\ t.queue = s.queue /\ t.total = s.total
                     /\ t.received = s.received /\ t.loader = s.loader
                ELSE /\ t.total = 0 /\ t.received = 0 /\ t.loader = <<>> /\ t.art = "readpicture"
                     /\ Appended(s.queue, t.queue, ArtCmd("readpicture", of, 0))
<1> DEFINE u == [s EXCEPT !.tags.file = of]
           filed == IF s.tags.file = of THEN s ELSE CmdCover(u, 0, "readpicture")
           t == TagHandle(s, of)
<1>1. /\ u \in Variables /\ u.queue = s.queue /\ u.current = s.current /\ u.out = s.out
      /\ u.player = s.player /\ u.cover = s.cover /\ u.shown = s.shown
      /\ u.tags.file = of /\ u.tags.artist = s.tags.artist
  BY DEF Variables
<1>2. t = IF Artist[of] = Nil THEN filed ELSE [filed EXCEPT !.tags.artist = Artist[of]]
  BY DEF TagHandle
<1> HIDE DEF u, t
<1>3. /\ Stays(s, filed) /\ filed.player = s.player /\ filed.cover = s.cover /\ filed.shown = s.shown
      /\ filed.tags.file = of
      /\ IF s.tags.file = of
         THEN /\ filed.queue = s.queue /\ filed.total = s.total
              /\ filed.received = s.received /\ filed.loader = s.loader
         ELSE /\ filed.total = 0 /\ filed.received = 0 /\ filed.loader = <<>> /\ filed.art = "readpicture"
              /\ Appended(s.queue, filed.queue, ArtCmd("readpicture", of, 0))
  <2>1. CASE s.tags.file = of
    BY <2>1 DEF Stays, Kept
  <2>2. CASE s.tags.file # of
    <3> DEFINE v == CmdCover(u, 0, "readpicture")
    <3>1. filed = v
      BY <2>2
    <3>2. "readpicture" \in Art /\ 0 \in Nat
      BY DEF Art
    <3>3. /\ Stays(u, v) /\ v.player = u.player /\ v.tags = u.tags /\ v.cover = u.cover
          /\ v.shown = u.shown /\ v.total = 0 /\ v.received = 0 /\ v.loader = <<>> /\ v.art = "readpicture"
          /\ IF u.tags.file = Nil THEN v.queue = u.queue
             ELSE Appended(u.queue, v.queue, ArtCmd("readpicture", u.tags.file, 0))
      BY <1>1, <3>2, Covers
    <3> HIDE DEF v, filed
    <3> QED BY <1>1, <2>2, <3>1, <3>3 DEF Stays
  <2> QED BY <2>1, <2>2
<1>4. Artist[of] \in Artists
  BY DEF Artists
<1> HIDE DEF filed
<1>5. filed \in Variables
  BY <1>3 DEF Stays
<1>6. /\ t \in Variables /\ t.queue = filed.queue /\ t.current = filed.current /\ t.out = filed.out
      /\ t.player = filed.player /\ t.cover = filed.cover /\ t.shown = filed.shown
      /\ t.tags.file = filed.tags.file /\ t.total = filed.total /\ t.received = filed.received
      /\ t.loader = filed.loader /\ t.art = filed.art /\ (Artist[of] # Nil => t.tags.artist = Artist[of])
  BY <1>2, <1>4, <1>5 DEF Variables
<1> QED BY <1>3, <1>6 DEF Stays, t

\* mpd_cover_handle, for any chunk; and for the next chunk of the picture that is loaded
LEMMA ChunksHandled ==
  ASSUME NEW s \in Variables, IdleLast(s.queue), s.current # "idle",
         NEW line \in Lines, line.l = "picture"
  PROVE  LET t == CoverHandle(s, line)
         IN  /\ Stays(s, t) /\ t.player = s.player /\ t.tags = s.tags /\ t.shown = s.shown
             /\ s.total \in {0, line.total} =>
                /\ t.total = line.total /\ t.received = s.received + 1
                /\ IF t.received >= line.total
                   THEN /\ t.queue = s.queue
                        /\ Append(s.loader, <<line.file, line.offset>>)
                             = [i \in 1..line.total |-> <<line.file, i - 1>>] => t.cover = line.file
                   ELSE /\ t.loader = Append(s.loader, <<line.file, line.offset>>) /\ t.cover = s.cover
                        /\ t.art = s.art
                        /\ IF s.tags.file = Nil THEN t.queue = s.queue
                           ELSE Appended(s.queue, t.queue, ArtCmd(s.art, s.tags.file, t.received))
<1> DEFINE sized == IF s.total # 0 /\ s.total # line.total THEN CmdCover(s, 0, s.art)
                    ELSE [s EXCEPT !.total = line.total]
           u == [sized EXCEPT !.received = @ + 1, !.loader = Append(@, <<line.file, line.offset>>)]
           whole == u.loader = [i \in 1..u.total |-> <<line.file, i - 1>>]
           done_ == [u EXCEPT !.cover = IF whole THEN line.file ELSE Nil, !.loader = <<>>]
           more == CmdCover(u, u.received, u.art)
           t == CoverHandle(s, line)
<1>1. line.file \in Songs /\ line.offset \in Nat /\ line.total \in Nat
  BY DEF Lines
<1>2. s.art \in Art /\ 0 \in Nat
  BY DEF Variables
<1>3. /\ Stays(s, sized) /\ sized.player = s.player /\ sized.tags = s.tags /\ sized.shown = s.shown
      /\ s.total \in {0, line.total} =>
            /\ sized.total = line.total /\ sized.received = s.received /\ sized.loader = s.loader
            /\ sized.queue = s.queue /\ sized.cover = s.cover /\ sized.art = s.art
  <2>1. CASE s.total # 0 /\ s.total # line.total
    <3>1. sized = CmdCover(s, 0, s.art)
      BY <2>1
    <3> HIDE DEF sized
    <3> QED BY <1>2, <2>1, <3>1, Covers
  <2>2. CASE s.total \in {0, line.total}
    <3>1. sized = [s EXCEPT !.total = line.total]
      BY <2>2
    <3> HIDE DEF sized
    <3>2. /\ sized \in Variables /\ sized.queue = s.queue /\ sized.current = s.current /\ sized.out = s.out
          /\ sized.player = s.player /\ sized.tags = s.tags /\ sized.shown = s.shown
          /\ sized.total = line.total /\ sized.received = s.received /\ sized.loader = s.loader
          /\ sized.cover = s.cover /\ sized.art = s.art
      BY <1>1, <3>1 DEF Variables
    <3> QED BY <3>2 DEF Stays, Kept
  <2> QED BY <2>1, <2>2
<1> HIDE DEF sized
<1>4. sized \in Variables /\ IdleLast(sized.queue)
  BY <1>3 DEF Stays
<1>5. /\ u \in Variables /\ u.queue = sized.queue /\ u.current = sized.current /\ u.out = sized.out
      /\ u.player = sized.player /\ u.tags = sized.tags /\ u.shown = sized.shown /\ u.cover = sized.cover
      /\ u.total = sized.total /\ u.received = sized.received + 1 /\ u.art = sized.art
      /\ u.loader = Append(sized.loader, <<line.file, line.offset>>)
  <2>1. Append(sized.loader, <<line.file, line.offset>>) \in Seq(Songs \X Nat)
    BY <1>1, <1>4 DEF Variables
  <2>2. sized.received + 1 \in Nat
    BY <1>4 DEF Variables
  <2> QED BY <1>4, <2>1, <2>2 DEF Variables
<1> HIDE DEF u
<1>6. t = IF u.received >= u.total THEN done_ ELSE more
  BY DEF CoverHandle, u, sized
<1> HIDE DEF t
<1>7. Stays(s, u)
  BY <1>3, <1>5 DEF Stays
<1>8. u.received \in Nat /\ u.total \in Nat /\ u.art \in Art
  BY <1>5 DEF Variables
<1>9. CASE u.received >= u.total
  <2>1. t = done_
    BY <1>6, <1>9
  <2>2. /\ t \in Variables /\ t.queue = u.queue /\ t.current = u.current /\ t.out = u.out
        /\ t.player = u.player /\ t.tags = u.tags /\ t.shown = u.shown
        /\ t.total = u.total /\ t.received = u.received
        /\ whole => t.cover = line.file
    <3>1. <<>> \in Seq(Songs \X Nat) /\ (IF whole THEN line.file ELSE Nil) \in Songs \cup {Nil}
      BY <1>1
    <3> HIDE DEF whole
    <3> QED BY <1>5, <2>1, <3>1, ZenonT(40) DEF Variables
  <2>3. Stays(s, t)
    BY <1>7, <2>2 DEF Stays
  <2> QED BY <1>3, <1>5, <1>9, <2>2, <2>3, ZenonT(40) DEF t
<1>10. CASE ~ u.received >= u.total
  <2>1. t = more
    BY <1>6, <1>10
  <2>2. u.received # 0
    <3>1. sized.received \in Nat
      BY <1>4 DEF Variables
    <3> QED BY <1>5, <3>1
  <2>3. /\ Stays(u, t) /\ t.player = u.player /\ t.tags = u.tags /\ t.cover = u.cover
        /\ t.shown = u.shown /\ t.total = u.total /\ t.received = u.received /\ t.loader = u.loader
        /\ t.art = u.art
        /\ IF u.tags.file = Nil THEN t.queue = u.queue
           ELSE Appended(u.queue, t.queue, ArtCmd(u.art, u.tags.file, u.received))
    <3>1. u.current # "idle" /\ IdleLast(u.queue)
      BY <1>7 DEF Stays
    <3> HIDE DEF more
    <3> QED BY <1>5, <1>8, <2>1, <2>2, <3>1, Covers DEF more
  <2>4. Stays(s, t)
    BY <1>7, <2>3, StaysAgain
  <2> QED BY <1>3, <1>5, <1>10, <2>3, <2>4 DEF t
<1> QED BY <1>9, <1>10

\* mpd_idle_handle
LEMMA IdleHandled ==
  ASSUME NEW s \in Variables, IdleLast(s.queue), s.out = <<>>, s.current = "idle", NEW what
  PROVE  LET t == IdleHandle(s, what)
         IN  /\ t \in Variables /\ IdleLast(t.queue) /\ Kept(s.queue, t.queue)
             /\ t.current = Nil /\ \A i \in DOMAIN t.out : t.out[i] = NoIdle
             /\ t = [s EXCEPT !.queue = t.queue, !.current = Nil, !.out = t.out]
             /\ IF what = "player"
                THEN \E q \in Seq(Waiting) : /\ Appended(s.queue, q, Cmd("status"))
                                             /\ Appended(q, t.queue, Cmd("currentsong"))
                ELSE t.queue = s.queue
<1> DEFINE u == CmdAppend(s, Cmd("status"))
           v == CmdAppend(u, Cmd("currentsong"))
           w == IF what = "player" THEN v ELSE s
           t == IdleHandle(s, what)
<1>1. t = [w EXCEPT !.current = Nil]
  BY DEF IdleHandle
<1> HIDE DEF t
<1>2. CASE what = "player"
  <2>1. /\ Cmd("status") \in Waiting /\ Cmd("currentsong") \in Waiting
        /\ Cmd("status").c \notin {"next", "idle"} /\ Cmd("currentsong").c \notin {"next", "idle"}
    BY DEF Cmd, Waiting
  <2>2. /\ u \in Variables /\ IdleLast(u.queue) /\ Appended(s.queue, u.queue, Cmd("status"))
        /\ u = [s EXCEPT !.queue = u.queue, !.out = u.out] /\ u.out = Append(s.out, NoIdle)
    BY <2>1, Appends
  <2> HIDE DEF u
  <2>3. u.current = "idle"
    BY <2>2 DEF Variables
  <2>4. /\ v \in Variables /\ IdleLast(v.queue) /\ Appended(u.queue, v.queue, Cmd("currentsong"))
        /\ v = [u EXCEPT !.queue = v.queue, !.out = v.out] /\ v.out = Append(u.out, NoIdle)
    BY <2>1, <2>2, <2>3, Appends
  <2> HIDE DEF v
  <2>5. v = [s EXCEPT !.queue = v.queue, !.out = v.out]
    BY <2>2, <2>4 DEF Variables
  <2>6. /\ t \in Variables /\ t.queue = v.queue /\ t.out = v.out /\ t.current = Nil
        /\ t = [s EXCEPT !.queue = t.queue, !.current = Nil, !.out = t.out]
    BY <1>1, <1>2, <2>4, <2>5 DEF Variables
  <2>7. v.out = Append(Append(<<>>, NoIdle), NoIdle)
    BY <2>2, <2>4
  <2>8. \A i \in DOMAIN v.out : v.out[i] = NoIdle
    <3> DEFINE x == NoIdle
    <3>1. \A i \in DOMAIN Append(Append(<<>>, x), x) : Append(Append(<<>>, x), x)[i] = x
      <4> HIDE DEF x
      <4>1. <<>> \in Seq({x}) /\ x \in {x}
        OBVIOUS
      <4>2. Append(Append(<<>>, x), x) \in Seq({x})
        BY <4>1
      <4> QED BY <4>2
    <3> QED BY <2>7, <3>1
  <2>9. s.queue \in Seq(Waiting) /\ u.queue \in Seq(Waiting) /\ v.queue \in Seq(Waiting)
    BY <2>2, <2>4 DEF Variables
  <2>10. Kept(s.queue, u.queue) /\ Kept(u.queue, v.queue)
    BY <2>1, <2>2, <2>4, <2>9, AppendedKept
  <2>11. Kept(s.queue, v.queue)
    BY <2>10 DEF Kept
  <2>12. \E q \in Seq(Waiting) : Appended(s.queue, q, Cmd("status")) /\ Appended(q, t.queue, Cmd("currentsong"))
    BY <2>2, <2>4, <2>6, <2>9
  <2>13. /\ t \in Variables /\ IdleLast(t.queue) /\ Kept(s.queue, t.queue)
         /\ t.current = Nil /\ \A i \in DOMAIN t.out : t.out[i] = NoIdle
         /\ t = [s EXCEPT !.queue = t.queue, !.current = Nil, !.out = t.out]
    BY <2>4, <2>6, <2>8, <2>11
  <2> QED BY <1>2, <2>12, <2>13 DEF t
<1>3. CASE what # "player"
  <2>1. t = [s EXCEPT !.current = Nil]
    BY <1>1, <1>3
  <2>2. /\ t \in Variables /\ t.queue = s.queue /\ t.out = s.out /\ t.current = Nil
        /\ t = [s EXCEPT !.queue = t.queue, !.current = Nil, !.out = t.out]
    BY <2>1 DEF Variables
  <2>3. Kept(s.queue, t.queue)
    BY <2>2 DEF Kept
  <2> QED BY <1>3, <2>2, <2>3 DEF t
<1> QED BY <1>2, <1>3

\* A sequence of three
LEMMA Three ==
  ASSUME NEW S, NEW a \in S, NEW b \in S, NEW c \in S
  PROVE  /\ <<a, b, c>> \in Seq(S) /\ <<a, b, c>> # <<>> /\ Len(<<a, b, c>>) = 3
         /\ <<a, b, c>>[1] = a /\ <<a, b, c>>[2] = b /\ <<a, b, c>>[3] = c
         /\ Head(<<a, b, c>>) = a /\ Tail(<<a, b, c>>) = <<b, c>>
OBVIOUS

\* The next command is that at the head of q
Sends(q, s, t) ==
  /\ q # <<>> /\ t.current = Head(q).c /\ t.queue = Tail(q) /\ t.out = <<Head(q)>>
  /\ t = [s EXCEPT !.current = t.current, !.queue = t.queue, !.out = t.out]

\* mpd_ok_handle, the next command
LEMMA NextSent ==
  ASSUME NEW s \in Variables, IdleLast(s.queue), s.out = <<>>
  PROVE  LET t == SendNext(s)
             q == IF s.queue = <<>> THEN <<Cmd("status"), Cmd("currentsong"), Idle>> ELSE s.queue
         IN  /\ t \in Variables /\ IdleLast(t.queue) /\ Sends(q, s, t)
             /\ Head(q) \in Waiting /\ (Head(q).c = "idle" => t.queue = <<>>)
<1> DEFINE q == IF s.queue = <<>> THEN <<Cmd("status"), Cmd("currentsong"), Idle>> ELSE s.queue
           u == [s EXCEPT !.current = Nil, !.queue = q]
           t == SendNext(s)
<1>1. Cmd("status") \in Waiting /\ Cmd("currentsong") \in Waiting /\ Idle \in Waiting
  BY DEF Cmd, Idle, Waiting
<1>2. q \in Seq(Waiting) /\ q # <<>> /\ IdleLast(q)
  <2>1. CASE s.queue = <<>>
    <3>1. q = <<Cmd("status"), Cmd("currentsong"), Idle>>
      BY <2>1
    <3> HIDE DEF q
    <3>2. /\ q \in Seq(Waiting) /\ Len(q) = 3 /\ q # <<>>
          /\ q[1] = Cmd("status") /\ q[2] = Cmd("currentsong")
      BY <1>1, <3>1, Three
    <3>3. q[1].c = "status" /\ q[2].c = "currentsong"
      BY <3>2 DEF Cmd
    <3>4. \A i \in DOMAIN q : q[i].c = "idle" => i = Len(q)
      <4>1. \A i \in DOMAIN q : i \in {1, 2, 3}
        BY <3>2
      <4> QED BY <3>2, <3>3, <4>1
    <3> QED BY <3>2, <3>4 DEF IdleLast
  <2>2. CASE s.queue # <<>>
    BY <2>2 DEF Variables
  <2> QED BY <2>1, <2>2
<1>3. u.queue = q /\ t = [u EXCEPT !.queue = Tail(@), !.current = Head(u.queue).c, !.out = Append(@, Head(u.queue))]
  BY DEF SendNext, Variables
<1> HIDE DEF q, t
<1>4. Head(q) \in Waiting /\ Tail(q) \in Seq(Waiting)
  BY <1>2
<1>5. Head(q).c \in Names
  BY <1>4 DEF Waiting, Names, Art
<1>6. Append(<<>>, Head(q)) = <<Head(q)>> /\ <<Head(q)>> \in Seq(Commands)
  <2>1. Head(q) \in Commands
    BY <1>4 DEF Commands
  <2> QED BY <2>1
<1>7. t = [s EXCEPT !.current = Head(q).c, !.queue = Tail(q), !.out = <<Head(q)>>]
  BY <1>3, <1>6 DEF Variables
<1>8. /\ t \in Variables /\ t.queue = Tail(q) /\ t.current = Head(q).c /\ t.out = <<Head(q)>>
      /\ t = [s EXCEPT !.current = t.current, !.queue = t.queue, !.out = t.out]
  BY <1>4, <1>5, <1>6, <1>7 DEF Variables
<1>9. IdleLast(Tail(q)) /\ (Head(q).c = "idle" => Tail(q) = <<>>)
  BY <1>2 DEF IdleLast
<1> QED BY <1>2, <1>4, <1>8, <1>9 DEF Sends, q, t

\* mpd_ok_handle, before the next command
LEMMA Completes ==
  ASSUME NEW s \in Variables, IdleLast(s.queue)
  PROVE  LET t == Completed(s)
         IN  /\ Stays(s, t) /\ t.player = s.player /\ t.tags = s.tags /\ t.cover = s.cover
             /\ IF s.current = "readpicture" /\ s.received = 0
                THEN /\ t.total = 0 /\ t.received = 0 /\ t.loader = <<>> /\ t.shown = s.shown
                     /\ t.art = "albumart"
                     /\ IF s.tags.file = Nil THEN t.queue = s.queue
                        ELSE Appended(s.queue, t.queue, ArtCmd("albumart", s.tags.file, 0))
                ELSE /\ t.total = s.total /\ t.received = s.received /\ t.loader = s.loader
                     /\ t.queue = s.queue /\ t.art = s.art
                     /\ t.shown = [player |-> s.player, file |-> s.tags.file, artist |-> s.tags.artist]
<1> DEFINE t == Completed(s)
<1>1. CASE s.current = "readpicture" /\ s.received = 0
  <2>1. t = CmdCover(s, 0, "albumart")
    BY <1>1 DEF Completed
  <2>2. "albumart" \in Art /\ 0 \in Nat
    BY DEF Art
  <2> HIDE DEF t
  <2>3. /\ Stays(s, t) /\ t.player = s.player /\ t.tags = s.tags /\ t.cover = s.cover
        /\ t.total = 0 /\ t.received = 0 /\ t.loader = <<>> /\ t.shown = s.shown /\ t.art = "albumart"
        /\ IF s.tags.file = Nil THEN t.queue = s.queue
           ELSE Appended(s.queue, t.queue, ArtCmd("albumart", s.tags.file, 0))
    BY <1>1, <2>1, <2>2, Covers, SMTT(30)
  <2> QED BY <1>1, <2>3 DEF t
<1>2. CASE ~(s.current = "readpicture" /\ s.received = 0)
  <2> DEFINE shown == [player |-> s.player, file |-> s.tags.file, artist |-> s.tags.artist]
  <2>1. t = [s EXCEPT !.shown = shown]
    BY <1>2 DEF Completed
  <2> HIDE DEF t
  <2>2. /\ t \in Variables /\ t.queue = s.queue /\ t.current = s.current /\ t.out = s.out
        /\ t.player = s.player /\ t.tags = s.tags /\ t.cover = s.cover /\ t.total = s.total
        /\ t.received = s.received /\ t.loader = s.loader /\ t.art = s.art /\ t.shown = shown
    BY <2>1 DEF Variables
  <2> QED BY <1>2, <2>2 DEF Stays, Kept, t
<1> QED BY <1>1, <1>2

----------------------------------------------------------------------------
(* Commands and replies *)

\* The lines p are all of what is left of a reply, to the command current if it is
\* one that the plug-in knows of
Answer(p, current) ==
  \A i \in DOMAIN p :
    /\ p[i].l \in {"OK", "ACK"} <=> i = Len(p)
    /\ \/ p[i].of = current
       \/ p[i].of = "clearerror" /\ p[i].l = "OK" /\ current = "albumart"
       \/ p[i].of = "idle" /\ current = Nil

\* Nothing is on its way to a server that is not connected.
NoLink == link # "up" => req = <<>>
\* One command at a time is with the server, besides "noidle", which only follows "idle"
\* or is left from it.
AskedOnce ==
  link = "up" =>
    \A i \in DOMAIN req : req[i].c # "noidle" =>
      /\ rep = <<>> /\ ~idle
      /\ req[i].c = m.current \/ (req[i].c = "clearerror" /\ m.current = "albumart")
      /\ \A j \in DOMAIN req : req[j].c # "noidle" => j = i
      /\ m.current # "idle" => i = Len(req)
\* It is answered in full before the server waits.
Answers == link = "up" => (rep # <<>> => ~idle) /\ Answer(rep, m.current)
\* The plug-in's state says what is under way.
Busy ==
  link = "up" =>
    /\ idle => m.current = "idle"
    /\ idle \/ rep # <<>> \/ \E i \in DOMAIN req : req[i].c # "noidle"
\* When there is more to do, a "noidle" follows the "idle".
Noticed ==
  link = "up" /\ m.current = "idle" /\ m.queue # <<>> =>
    /\ \A i \in DOMAIN req : req[i].c = "idle" => i < Len(req)
    /\ idle => req # <<>>

Session == Types /\ NoLink /\ AskedOnce /\ Answers /\ Busy /\ Noticed

\* What the server reads next, when it may
LEMMA NextRead ==
  ASSUME Session, link = "up", req # <<>>
  PROVE  /\ Head(req) \in Commands /\ Tail(req) \in Seq(Commands)
         /\ Head(req) = req[1] /\ Len(Tail(req)) = Len(req) - 1 /\ Len(req) \in Nat
         /\ \A i \in DOMAIN Tail(req) : i + 1 \in DOMAIN req /\ Tail(req)[i] = req[i + 1]
         /\ Head(req).c # "noidle" =>
              /\ rep = <<>> /\ ~idle
              /\ Head(req).c = m.current \/ (Head(req).c = "clearerror" /\ m.current = "albumart")
              /\ \A i \in DOMAIN Tail(req) : Tail(req)[i].c = "noidle"
<1>1. /\ Head(req) \in Commands /\ Tail(req) \in Seq(Commands)
      /\ Head(req) = req[1] /\ Len(Tail(req)) = Len(req) - 1 /\ Len(req) \in Nat /\ 1 \in DOMAIN req
      /\ \A i \in DOMAIN Tail(req) : i + 1 \in DOMAIN req /\ Tail(req)[i] = req[i + 1] /\ i + 1 # 1
  BY DEF Session, Types
<1>2. ASSUME Head(req).c # "noidle"
      PROVE  /\ rep = <<>> /\ ~idle
             /\ Head(req).c = m.current \/ (Head(req).c = "clearerror" /\ m.current = "albumart")
             /\ \A i \in DOMAIN Tail(req) : Tail(req)[i].c = "noidle"
  BY <1>1, <1>2 DEF Session, AskedOnce
<1> QED BY <1>1, <1>2

\* What the server's answer to a command leaves
LEMMA Answered ==
  ASSUME Session, link = "up", req # <<>>, Head(req).c # "noidle", Types',
         req' = Tail(req), UNCHANGED <<m, link>>,
         \/ ~idle' /\ rep' # <<>> /\ Answer(rep', m.current)
         \/ idle' /\ rep' = <<>> /\ Head(req).c = "idle"
  PROVE  Session'
<1>1. \A i \in DOMAIN req' : req'[i].c = "noidle"
  BY NextRead
<1>2. AskedOnce' /\ NoLink'
  BY <1>1 DEF AskedOnce, NoLink
<1>3. Answers'
  BY DEF Answers, Answer
<1>4. Head(req).c = "idle" => m.current = "idle"
  BY NextRead
<1>5. Busy'
  BY <1>4 DEF Busy
<1>6. Noticed'
  <2> SUFFICES ASSUME idle', m.current = "idle", m.queue # <<>> PROVE req' # <<>>
    BY <1>1 DEF Noticed
  <2>1. Head(req).c = "idle"
    OBVIOUS
  <2>2. 1 \in DOMAIN req /\ req[1].c = "idle" /\ Len(req) \in Nat /\ Len(Tail(req)) = Len(req) - 1
    BY <2>1, NextRead DEF Session, Types
  <2>3. 1 < Len(req)
    BY <2>2 DEF Session, Noticed
  <2>4. Len(req') # 0
    BY <2>2, <2>3
  <2> QED BY <2>4
<1> QED BY <1>2, <1>3, <1>5, <1>6 DEF Session

\* A reply of a line and its end
LEMMA TwoLines ==
  ASSUME NEW a \in Lines, NEW b \in Lines, NEW current,
         a.l \notin {"OK", "ACK"}, b.l \in {"OK", "ACK"}, a.of = current, b.of = current
  PROVE  <<a, b>> \in Seq(Lines) /\ <<a, b>> # <<>> /\ Answer(<<a, b>>, current)
<1> DEFINE p == <<a, b>>
<1>1. p \in Seq(Lines) /\ p # <<>> /\ Len(p) = 2 /\ p[1] = a /\ p[2] = b
  OBVIOUS
<1> HIDE DEF p
<1>2. \A i \in DOMAIN p : i \in {1, 2}
  BY <1>1
<1>3. Answer(p, current)
  BY <1>1, <1>2 DEF Answer
<1> QED BY <1>1, <1>3 DEF p

\* A reply that is an end only
LEMMA OneLine ==
  ASSUME NEW a \in Lines, NEW current, a.l \in {"OK", "ACK"},
         a.of = current \/ (a.of = "clearerror" /\ a.l = "OK" /\ current = "albumart")
  PROVE  <<a>> \in Seq(Lines) /\ <<a>> # <<>> /\ Answer(<<a>>, current)
<1> DEFINE p == <<a>>
<1>1. p \in Seq(Lines) /\ p # <<>> /\ Len(p) = 1 /\ p[1] = a
  OBVIOUS
<1> HIDE DEF p
<1>2. \A i \in DOMAIN p : i = 1
  BY <1>1
<1>3. Answer(p, current)
  BY <1>1, <1>2 DEF Answer
<1> QED BY <1>1, <1>3 DEF p

\* What the server's lines are
LEMMA LinesAre ==
  /\ \A c \in Names \cup {"init"} : Ok(c) \in Lines /\ Ok(c).l = "OK" /\ Ok(c).of = c
  /\ Ack("albumart") \in Lines /\ Ack("albumart").l = "ACK" /\ Ack("albumart").of = "albumart"
  /\ \A w \in Subsystems : Changed(w) \in Lines /\ Changed(w).l = "changed" /\ Changed(w).of = "idle"
  /\ \A x \in Songs : /\ Status(x) \in Lines /\ Status(x).l = "status" /\ Status(x).of = "status"
                      /\ Tags(x) \in Lines /\ Tags(x).l = "tags" /\ Tags(x).of = "currentsong"
                      /\ Status(x).song = x /\ Tags(x).song = x
  /\ \A c \in Art, x \in Songs, o \in Nat, n \in Nat :
        /\ Picture(c, x, o, n) \in Lines /\ Picture(c, x, o, n).l = "picture" /\ Picture(c, x, o, n).of = c
        /\ Picture(c, x, o, n).file = x /\ Picture(c, x, o, n).offset = o /\ Picture(c, x, o, n).total = n
BY DEF Lines, Ok, Ack, Changed, Status, Tags, Picture

\* The reply to "idle"
LEMMA ChangesTold ==
  ASSUME NEW what \in SUBSET Subsystems
  PROVE  LET p == ChangedReply(InOrder(what))
         IN  /\ p \in Seq(Lines) /\ p # <<>> /\ Answer(p, "idle")
             /\ \A i \in DOMAIN p : p[i].l \notin {"status", "tags", "picture", "ACK"} /\ p[i].of = "idle"
<1> DEFINE w == InOrder(what)
           c == [i \in DOMAIN w |-> Changed(w[i])]
           p == c \o <<Ok("idle")>>
<1>1. w \in Seq(Subsystems)
  <2>1. "playlist" \in Subsystems /\ "player" \in Subsystems
    BY DEF Subsystems
  <2>2. \A x \in Subsystems : <<x>> \in Seq(Subsystems)
    OBVIOUS
  <2> QED BY <2>1, <2>2 DEF InOrder
<1> HIDE DEF w
<1>2. c \in Seq(Lines) /\ Len(c) = Len(w) /\ \A i \in DOMAIN c : c[i].l = "changed" /\ c[i].of = "idle"
  <2>1. Len(w) \in Nat /\ DOMAIN w = 1..Len(w) /\ \A i \in 1..Len(w) : w[i] \in Subsystems
    BY <1>1
  <2>2. \A i \in 1..Len(w) : Changed(w[i]) \in Lines /\ Changed(w[i]).l = "changed" /\ Changed(w[i]).of = "idle"
    BY <2>1, LinesAre
  <2> QED BY <2>1, <2>2
<1> HIDE DEF c
<1>3. Ok("idle") \in Lines /\ Ok("idle").l = "OK" /\ Ok("idle").of = "idle"
  BY LinesAre DEF Names
<1> DEFINE x == Ok("idle")
<1> HIDE DEF x
<1>4. <<x>> \in Seq(Lines) /\ Len(<<x>>) = 1 /\ <<x>>[1] = x
  BY <1>3 DEF x
<1>5. p \in Seq(Lines) /\ Len(p) = Len(c) + 1 /\ p[Len(c) + 1] = x /\ \A i \in DOMAIN c : p[i] = c[i]
  BY <1>2, <1>4 DEF x
<1> HIDE DEF p
<1>6. p # <<>> /\ Len(c) \in Nat /\ DOMAIN c = 1..Len(c)
  BY <1>2, <1>5
<1>7. \A i \in DOMAIN p : i \in DOMAIN c \/ i = Len(p)
  BY <1>5, <1>6
<1>8. \A i \in DOMAIN p : /\ p[i].l \in {"OK", "ACK"} <=> i = Len(p)
                          /\ p[i].of = "idle" /\ p[i].l \in {"changed", "OK"}
  BY <1>2, <1>3, <1>5, <1>6, <1>7 DEF x
<1> QED BY <1>5, <1>6, <1>8 DEF Answer, ChangedReply, p, c, w, x

\* The server's steps, one by one
LEMMA Served ==
  ASSUME Session, Serves
  PROVE  LET r == Head(req)
         IN  /\ link = "up" /\ req # <<>> /\ req' = Tail(req)
             /\ UNCHANGED <<m, link, changes, cmds, drops, interrupted>>
             /\ \/ /\ r.c = "noidle" /\ rep' = (IF idle THEN <<Ok("idle")>> ELSE rep)
                   /\ idle' = FALSE /\ UNCHANGED <<song, pending, done>>
                \/ /\ r.c = "idle" /\ pending = {} /\ idle' = TRUE /\ UNCHANGED <<song, pending, rep, done>>
                \/ /\ r.c = "idle" /\ pending # {} /\ rep' = ChangedReply(InOrder(pending))
                   /\ idle' = FALSE /\ pending' = {} /\ UNCHANGED <<song, done>>
                \/ /\ r.c = "next" /\ rep' = <<Ok("next")>> /\ idle' = FALSE
                   /\ song' \in Songs /\ pending' = pending \cup {"player"}
                   /\ r.n \in Nat /\ done' = Append(done, r.n)
                \/ /\ r.c = "status" /\ rep' = <<Status(song), Ok("status")>>
                   /\ UNCHANGED <<serverVars, done>>
                \/ /\ r.c = "currentsong" /\ rep' = <<Tags(song), Ok("currentsong")>>
                   /\ UNCHANGED <<serverVars, done>>
                \/ /\ r.c = "readpicture" /\ rep' = PictureReply(r, Embedded[r.file], Ok(r.c))
                   /\ r.file \in Songs /\ r.offset \in Nat /\ UNCHANGED <<serverVars, done>>
                \/ /\ r.c = "albumart" /\ rep' = PictureReply(r, Folder[r.file], Ack(r.c))
                   /\ r.file \in Songs /\ r.offset \in Nat /\ UNCHANGED <<serverVars, done>>
                \/ /\ r.c = "clearerror" /\ rep' = <<Ok("clearerror")>>
                   /\ UNCHANGED <<serverVars, done>>
<1> DEFINE r == Head(req)
<1>1. link = "up" /\ req # <<>> /\ req' = Tail(req) /\ UNCHANGED <<m, changes, cmds, drops, interrupted>>
  BY DEF Serves, counters
<1>2. r \in Commands /\ (r.c # "noidle" => rep = <<>> /\ ~idle)
  BY <1>1, NextRead
<1>3. rep \in Seq(Lines) /\ idle \in BOOLEAN /\ (idle => rep = <<>>)
  BY <1>1 DEF Session, Types, Answers
<1>4. r.c \in {"noidle", "idle", "next", "status", "currentsong", "readpicture", "albumart", "clearerror"}
  BY <1>2 DEF Commands, Waiting, Art
<1>5. r.c \in Art => r.file \in Songs /\ r.offset \in Nat
  BY <1>2 DEF Commands, Waiting, Art
<1>6. r.c = "next" => r.n \in Nat
  BY <1>2 DEF Commands, Waiting, Art
<1> HIDE DEF r
<1>7. \A a : <<>> \o <<a>> = <<a>> /\ Append(<<>>, a) = <<a>>
  OBVIOUS
<1>8. \A a, b : <<>> \o <<a, b>> = <<a, b>>
  OBVIOUS
<1>9. ~(idle /\ r.c # "noidle")
  BY <1>2
<1>10. CASE r.c = "noidle"
  <2>1. /\ rep' = IF idle THEN Append(rep, Ok("idle")) ELSE rep
        /\ idle' = FALSE /\ UNCHANGED <<song, pending, link, done>>
    BY <1>9, <1>10 DEF Serves, r
  <2> QED BY <1>1, <1>3, <1>7, <1>10, <2>1 DEF r
<1>11. CASE r.c = "idle"
  <2>1. /\ IF pending = {} THEN idle' = TRUE /\ UNCHANGED <<pending, rep>>
           ELSE pending' = {} /\ rep' = rep \o ChangedReply(InOrder(pending)) /\ idle' = FALSE
        /\ UNCHANGED <<song, link, done>>
    BY <1>9, <1>11 DEF Serves, r
  <2>2. pending # {} => rep' = ChangedReply(InOrder(pending))
    <3>1. ChangedReply(InOrder(pending)) \in Seq(Lines)
      BY ChangesTold DEF Session, Types
    <3> QED BY <1>2, <1>11, <2>1, <3>1
  <2> QED BY <1>1, <1>11, <2>1, <2>2 DEF r
<1>12. CASE r.c = "next"
  <2>1. /\ song' \in Songs \ {song} /\ Notifies({"player"}, <<Ok("next")>>)
        /\ done' = Append(done, r.n) /\ UNCHANGED link
    BY <1>9, <1>12 DEF Serves, r
  <2>2. idle' = FALSE /\ pending' = pending \cup {"player"} /\ rep' = <<Ok("next")>>
    BY <1>2, <1>3, <1>7, <1>12, <2>1 DEF Notifies
  <2> QED BY <1>1, <1>6, <1>12, <2>1, <2>2 DEF r
<1>13. CASE r.c = "status"
  <2>1. rep' = rep \o <<Status(song), Ok("status")>> /\ UNCHANGED <<serverVars, link, done>>
    BY <1>9, <1>13 DEF Serves, r
  <2> QED BY <1>1, <1>2, <1>8, <1>13, <2>1 DEF r
<1>14. CASE r.c = "currentsong"
  <2>1. rep' = rep \o <<Tags(song), Ok("currentsong")>> /\ UNCHANGED <<serverVars, link, done>>
    BY <1>9, <1>14 DEF Serves, r
  <2> QED BY <1>1, <1>2, <1>8, <1>14, <2>1 DEF r
<1>15. \A a, n : LET p == PictureReply(r, n, a) IN <<>> \o p = p
  <2> SUFFICES ASSUME NEW a, NEW n PROVE <<>> \o PictureReply(r, n, a) = PictureReply(r, n, a)
    OBVIOUS
  <2>1. \A x, y : <<>> \o (<<x>> \o <<y>>) = <<x>> \o <<y>> /\ <<>> \o (<<>> \o <<y>>) = <<>> \o <<y>>
    OBVIOUS
  <2> QED BY <2>1 DEF PictureReply
<1>16. CASE r.c = "readpicture"
  <2>1. rep' = rep \o PictureReply(r, Embedded[r.file], Ok(r.c)) /\ UNCHANGED <<serverVars, link, done>>
    BY <1>9, <1>16 DEF Serves, r
  <2> QED BY <1>1, <1>2, <1>5, <1>15, <1>16, <2>1 DEF r, Art
<1>17. CASE r.c = "albumart"
  <2>1. rep' = rep \o PictureReply(r, Folder[r.file], Ack(r.c)) /\ UNCHANGED <<serverVars, link, done>>
    BY <1>9, <1>17 DEF Serves, r
  <2> QED BY <1>1, <1>2, <1>5, <1>15, <1>17, <2>1 DEF r, Art
<1>18. CASE r.c = "clearerror"
  <2>1. rep' = rep \o <<Ok(r.c)>> /\ UNCHANGED <<serverVars, link, done>>
    BY <1>9, <1>18 DEF Serves, r
  <2> QED BY <1>1, <1>2, <1>7, <1>18, <2>1 DEF r
<1> QED BY <1>4, <1>10, <1>11, <1>12, <1>13, <1>14, <1>16, <1>17, <1>18 DEF r

\* The reply to a request for a chunk, of a picture of n chunks
LEMMA PictureLines ==
  ASSUME NEW r, r.c \in Art, r.file \in Songs, r.offset \in Nat, NEW n \in Nat, NEW none
  PROVE  PictureReply(r, n, none) = IF n = 0 THEN <<none>>
                                    ELSE <<Picture(r.c, r.file, r.offset, n), Ok(r.c)>>
<1>1. \A a, b : <<>> \o <<b>> = <<b>> /\ <<a>> \o <<b>> = <<a, b>>
  <2> SUFFICES ASSUME NEW a, NEW b PROVE <<>> \o <<b>> = <<b>> /\ <<a>> \o <<b>> = <<a, b>>
    OBVIOUS
  <2>1. <<>> \o <<b>> = <<b>>
    OBVIOUS
  <2>2. /\ <<a>> \o <<b>> \in Seq({a, b}) /\ Len(<<a>> \o <<b>>) = 2
        /\ (<<a>> \o <<b>>)[1] = a /\ (<<a>> \o <<b>>)[2] = b
    OBVIOUS
  <2>3. <<a>> \o <<b>> = <<a, b>>
    <3> DEFINE x == <<a>> \o <<b>>
               y == <<a, b>>
    <3>1. y \in Seq({a, b}) /\ Len(y) = 2 /\ y[1] = a /\ y[2] = b
      OBVIOUS
    <3>2. x \in Seq({a, b}) /\ Len(x) = 2 /\ x[1] = a /\ x[2] = b
      BY <2>2
    <3> HIDE DEF x, y
    <3>3. \A i \in 1..Len(x) : x[i] = y[i]
      <4>1. \A i \in 1..Len(x) : i \in {1, 2}
        BY <3>2
      <4> QED BY <3>1, <3>2, <4>1
    <3>4. x = y
      BY <3>1, <3>2, <3>3, SeqEqual
    <3> QED BY <3>4 DEF x, y
  <2> QED BY <2>1, <2>3
<1> QED BY <1>1 DEF PictureReply

\* What the server says is a reply to the command that it was asked
LEMMA ServedLines ==
  ASSUME SongsAssumption, Session, Serves
  PROVE  /\ rep' \in Seq(Lines)
         /\ Head(req).c \notin {"noidle", "idle"} =>
              ~idle' /\ rep' # <<>> /\ Answer(rep', m.current)
         /\ Head(req).c = "idle" =>
              \/ ~idle' /\ rep' # <<>> /\ Answer(rep', m.current)
              \/ idle' /\ rep' = <<>>
         /\ Head(req).c = "noidle" /\ idle => rep' # <<>> /\ Answer(rep', "idle")
<1> DEFINE r == Head(req)
<1>1. link = "up" /\ req # <<>>
  BY Served
<1>2. r.c # "noidle" => /\ rep = <<>> /\ ~idle
                        /\ r.c = m.current \/ (r.c = "clearerror" /\ m.current = "albumart")
  BY <1>1, NextRead
<1>3. song \in Songs /\ pending \subseteq Subsystems /\ rep \in Seq(Lines)
  BY DEF Session, Types
<1>4. CASE r.c = "noidle"
  <2>1. rep' = IF idle THEN <<Ok("idle")>> ELSE rep
    BY <1>4, Served
  <2>2. Ok("idle") \in Lines /\ Ok("idle").l = "OK" /\ Ok("idle").of = "idle"
    BY LinesAre DEF Names
  <2>3. <<Ok("idle")>> \in Seq(Lines) /\ <<Ok("idle")>> # <<>> /\ Answer(<<Ok("idle")>>, "idle")
    BY <2>2, OneLine
  <2> QED BY <1>3, <1>4, <2>1, <2>3
<1>5. CASE r.c = "idle"
  <2>1. m.current = "idle"
    BY <1>2, <1>5
  <2>2. \/ idle' = TRUE /\ rep' = rep
        \/ idle' = FALSE /\ rep' = ChangedReply(InOrder(pending))
    BY <1>5, Served
  <2> QED BY <1>2, <1>3, <1>5, <2>1, <2>2, ChangesTold
<1>6. CASE r.c \in {"next", "clearerror"}
  <2>1. rep' = <<Ok(r.c)>> /\ ~idle'
    <3>1. rep' = <<Ok(r.c)>> /\ (idle' = FALSE \/ UNCHANGED serverVars)
      BY <1>6, Served
    <3> HIDE DEF r
    <3> QED BY <1>2, <1>6, <3>1 DEF serverVars
  <2>2. Ok(r.c) \in Lines /\ Ok(r.c).l = "OK" /\ Ok(r.c).of = r.c
    BY <1>6, LinesAre DEF Names
  <2>3. r.c = m.current \/ (r.c = "clearerror" /\ m.current = "albumart")
    BY <1>2, <1>6
  <2> HIDE DEF r
  <2>4. <<Ok(r.c)>> \in Seq(Lines) /\ <<Ok(r.c)>> # <<>> /\ Answer(<<Ok(r.c)>>, m.current)
    BY <2>2, <2>3, OneLine
  <2> QED BY <1>6, <2>1, <2>4 DEF r
<1>7. CASE r.c \in {"status", "currentsong"}
  <2> DEFINE a == IF r.c = "status" THEN Status(song) ELSE Tags(song)
  <2>1. rep' = <<a, Ok(r.c)>> /\ ~idle'
    <3>1. rep' = <<a, Ok(r.c)>> /\ UNCHANGED serverVars
      BY <1>7, Served
    <3> HIDE DEF r
    <3> QED BY <1>2, <1>7, <3>1 DEF serverVars
  <2>2. /\ a \in Lines /\ a.l \notin {"OK", "ACK"} /\ a.of = r.c
        /\ Ok(r.c) \in Lines /\ Ok(r.c).l = "OK" /\ Ok(r.c).of = r.c
    BY <1>3, <1>7, LinesAre DEF Names
  <2>3. r.c = m.current
    BY <1>2, <1>7
  <2> HIDE DEF r, a
  <2>4. <<a, Ok(r.c)>> \in Seq(Lines) /\ <<a, Ok(r.c)>> # <<>> /\ Answer(<<a, Ok(r.c)>>, m.current)
    BY <2>2, <2>3, TwoLines
  <2> QED BY <1>7, <2>1, <2>4 DEF r
<1>8. CASE r.c \in Art
  <2> DEFINE n == IF r.c = "readpicture" THEN Embedded[r.file] ELSE Folder[r.file]
             none == IF r.c = "readpicture" THEN Ok(r.c) ELSE Ack(r.c)
             a == Picture(r.c, r.file, r.offset, n)
  <2>1. rep' = PictureReply(r, n, none) /\ ~idle' /\ r.file \in Songs /\ r.offset \in Nat
    <3>1. /\ rep' = PictureReply(r, n, none) /\ r.file \in Songs /\ r.offset \in Nat
          /\ UNCHANGED serverVars
      BY <1>8, Served DEF Art
    <3> HIDE DEF r, n, none
    <3> QED BY <1>2, <1>8, <3>1 DEF serverVars, Art
  <2>2. n \in Nat
    BY <2>1 DEF SongsAssumption
  <2>3. /\ none \in Lines /\ none.l \in {"OK", "ACK"} /\ none.of = r.c
        /\ Ok(r.c) \in Lines /\ Ok(r.c).l = "OK" /\ Ok(r.c).of = r.c
    BY <1>8, LinesAre DEF Names, Art
  <2>4. r.c = m.current
    BY <1>2, <1>8 DEF Art
  <2> HIDE DEF r, n, none
  <2>5. rep' = IF n = 0 THEN <<none>> ELSE <<a, Ok(r.c)>>
    BY <1>8, <2>1, <2>2, PictureLines
  <2>6. a \in Lines /\ a.l = "picture" /\ a.of = r.c
    BY <1>8, <2>1, <2>2, LinesAre
  <2> HIDE DEF a
  <2>7. <<none>> \in Seq(Lines) /\ <<none>> # <<>> /\ Answer(<<none>>, m.current)
    BY <2>3, <2>4, OneLine
  <2>8. <<a, Ok(r.c)>> \in Seq(Lines) /\ <<a, Ok(r.c)>> # <<>> /\ Answer(<<a, Ok(r.c)>>, m.current)
    BY <2>3, <2>4, <2>6, TwoLines
  <2>9. r.c \notin {"noidle", "idle"}
    BY <1>8 DEF Art
  <2> QED BY <2>1, <2>5, <2>7, <2>8, <2>9 DEF r
<1> QED
  <2>1. r.c \in {"noidle", "idle", "next", "clearerror", "status", "currentsong"} \cup Art
    BY Served DEF Art
  <2> QED BY <2>1, <1>4, <1>5, <1>6, <1>7, <1>8

\* The server's step
LEMMA ServesSession ==
  ASSUME SongsAssumption, Session, Serves
  PROVE  Session'
<1> DEFINE r == Head(req)
<1>1. link = "up" /\ req # <<>> /\ req' = Tail(req) /\ UNCHANGED <<m, link, changes, cmds, drops, interrupted>>
  BY Served
<1>2. Types'
  <2>1. Tail(req) \in Seq(Commands)
    BY <1>1, NextRead
  <2>2. rep' \in Seq(Lines)
    BY ServedLines
  <2>3. song' \in Songs /\ idle' \in BOOLEAN /\ pending' \subseteq Subsystems /\ done' \in Seq(Nat)
    <3>1. song \in Songs /\ idle \in BOOLEAN /\ pending \subseteq Subsystems /\ done \in Seq(Nat)
      BY DEF Session, Types
    <3>2. /\ song' \in Songs
          /\ idle' \in {TRUE, FALSE, idle}
          /\ pending' \in {pending, {}, pending \cup {"player"}}
          /\ done' = done \/ (r.n \in Nat /\ done' = Append(done, r.n))
      BY <3>1, Served DEF serverVars
    <3> HIDE DEF r
    <3>3. done' \in Seq(Nat)
      BY <3>1, <3>2
    <3> QED BY <3>1, <3>2, <3>3 DEF Subsystems
  <2> QED BY <1>1, <2>1, <2>2, <2>3 DEF Session, Types
<1>3. CASE r.c # "noidle"
  <2>1. \/ ~idle' /\ rep' # <<>> /\ Answer(rep', m.current)
        \/ idle' /\ rep' = <<>> /\ r.c = "idle"
    BY <1>3, ServedLines
  <2> HIDE DEF r
  <2>2. Head(req).c # "noidle" /\ UNCHANGED <<m, link>>
    BY <1>1, <1>3 DEF r
  <2> QED BY <1>1, <1>2, <2>1, <2>2, Answered DEF r
<1>4. CASE r.c = "noidle"
  <2>1. rep' = (IF idle THEN <<Ok("idle")>> ELSE rep) /\ idle' = FALSE
    BY <1>4, Served
  <2>2. /\ r = req[1] /\ Len(req') = Len(req) - 1 /\ Len(req) \in Nat /\ req' \in Seq(Commands)
        /\ \A i \in DOMAIN req' : i + 1 \in DOMAIN req /\ req'[i] = req[i + 1]
    BY <1>1, NextRead
  <2>3. \A i \in DOMAIN req : i # 1 => i - 1 \in DOMAIN req' /\ req'[i - 1] = req[i]
    <3>1. DOMAIN req = 1..Len(req) /\ DOMAIN req' = 1..Len(req')
      BY <2>2 DEF Session, Types
    <3> QED BY <2>2, <3>1
  <2>4. \A i \in DOMAIN req : req[i].c # "noidle" => ~idle
    BY <1>1 DEF Session, AskedOnce
  <2>5. \A i \in DOMAIN req' : req'[i].c # "noidle" => ~idle
    BY <2>2, <2>4
  <2>6. NoLink' /\ AskedOnce'
    <3>1. ASSUME NEW i \in DOMAIN req', req'[i].c # "noidle"
          PROVE  /\ rep' = <<>> /\ ~idle'
                 /\ req'[i].c = m'.current \/ (req'[i].c = "clearerror" /\ m'.current = "albumart")
                 /\ \A j \in DOMAIN req' : req'[j].c # "noidle" => j = i
                 /\ m'.current # "idle" => i = Len(req')
      <4>1. i + 1 \in DOMAIN req /\ req[i + 1].c # "noidle" /\ req[i + 1] = req'[i] /\ i \in Nat
        BY <2>2, <3>1
      <4>2. /\ rep = <<>> /\ ~idle
            /\ req[i + 1].c = m.current \/ (req[i + 1].c = "clearerror" /\ m.current = "albumart")
            /\ \A j \in DOMAIN req : req[j].c # "noidle" => j = i + 1
            /\ m.current # "idle" => i + 1 = Len(req)
        BY <1>1, <4>1 DEF Session, AskedOnce
      <4>3. \A j \in DOMAIN req' : req'[j].c # "noidle" => j = i
        <5> SUFFICES ASSUME NEW j \in DOMAIN req', req'[j].c # "noidle" PROVE j = i
          OBVIOUS
        <5>1. j + 1 \in DOMAIN req /\ req[j + 1].c # "noidle" /\ j \in Nat
          BY <2>2
        <5>2. j + 1 = i + 1
          BY <4>2, <5>1
        <5> QED BY <4>1, <5>1, <5>2
      <4> QED BY <1>1, <2>1, <2>2, <4>1, <4>2, <4>3
    <3> QED BY <1>1, <3>1 DEF NoLink, AskedOnce
  <2>7. Answers'
    <3>1. CASE idle
      <4>1. m.current = "idle"
        BY <1>1, <3>1 DEF Session, Busy
      <4>2. Answer(rep', "idle")
        BY <1>4, <3>1, ServedLines
      <4> QED BY <1>1, <2>1, <4>1, <4>2 DEF Answers, Answer
    <3>2. CASE ~idle
      BY <1>1, <2>1, <3>2 DEF Session, Answers, Answer
    <3> QED BY <3>1, <3>2
  <2>8. Busy'
    <3>1. CASE idle
      <4>1. rep' # <<>>
        BY <1>4, <3>1, ServedLines
      <4> QED BY <2>1, <4>1 DEF Busy
    <3>2. CASE ~idle /\ rep = <<>>
      <4>1. PICK i \in DOMAIN req : req[i].c # "noidle"
        BY <1>1, <3>2 DEF Session, Busy
      <4>2. i # 1
        BY <1>4, <2>2, <4>1
      <4> QED BY <2>1, <2>3, <4>1, <4>2 DEF Busy
    <3>3. CASE ~idle /\ rep # <<>>
      BY <2>1, <3>3 DEF Busy
    <3> QED BY <3>1, <3>2, <3>3
  <2>9. Noticed'
    <3> SUFFICES ASSUME m.current = "idle", m.queue # <<>>, NEW i \in DOMAIN req', req'[i].c = "idle"
                 PROVE  i < Len(req')
      BY <1>1, <2>1 DEF Noticed
    <3>1. i + 1 \in DOMAIN req /\ req[i + 1].c = "idle" /\ i \in Nat
      BY <2>2
    <3>2. i + 1 < Len(req)
      BY <1>1, <3>1 DEF Session, Noticed
    <3> QED BY <2>2, <3>1, <3>2
  <2> QED BY <1>2, <2>6, <2>7, <2>8, <2>9 DEF Session
<1> QED BY <1>3, <1>4

\* Lines written after others
LEMMA WrittenAfter ==
  ASSUME NEW r \in Seq(Commands), NEW o \in Seq(Commands)
  PROVE  /\ r \o o \in Seq(Commands) /\ Len(r \o o) = Len(r) + Len(o)
         /\ \A i \in DOMAIN r : i \in DOMAIN (r \o o) /\ (r \o o)[i] = r[i]
         /\ \A i \in DOMAIN o : Len(r) + i \in DOMAIN (r \o o) /\ (r \o o)[Len(r) + i] = o[i]
         /\ \A i \in DOMAIN (r \o o) :
              \/ i \in DOMAIN r
              \/ i > Len(r) /\ i - Len(r) \in DOMAIN o /\ (r \o o)[i] = o[i - Len(r)]
<1>1. /\ r \o o \in Seq(Commands) /\ Len(r \o o) = Len(r) + Len(o)
      /\ Len(r) \in Nat /\ Len(o) \in Nat /\ DOMAIN r = 1..Len(r) /\ DOMAIN o = 1..Len(o)
      /\ DOMAIN (r \o o) = 1..(Len(r) + Len(o))
      /\ \A i \in 1..(Len(r) + Len(o)) : (r \o o)[i] = IF i <= Len(r) THEN r[i] ELSE o[i - Len(r)]
  BY ConcatProperties
<1>2. \A i \in DOMAIN r : i \in DOMAIN (r \o o) /\ (r \o o)[i] = r[i]
  BY <1>1
<1>3. \A i \in DOMAIN o : Len(r) + i \in DOMAIN (r \o o) /\ (r \o o)[Len(r) + i] = o[i]
  BY <1>1
<1>4. \A i \in DOMAIN (r \o o) :
        \/ i \in DOMAIN r
        \/ i > Len(r) /\ i - Len(r) \in DOMAIN o /\ (r \o o)[i] = o[i - Len(r)]
  BY <1>1
<1> QED BY <1>1, <1>2, <1>3, <1>4

\* What the plug-in's steps write to the server and keep
LEMMA WritesTyped ==
  ASSUME NEW t \in Variables, NEW sent \in Seq(Commands), Write(t, sent)
  PROVE  /\ m' = [t EXCEPT !.out = <<>>] /\ m' \in Variables /\ m'.out = <<>>
         /\ m'.queue = t.queue /\ m'.current = t.current /\ m'.player = t.player /\ m'.tags = t.tags
         /\ m'.art = t.art /\ m'.total = t.total /\ m'.received = t.received /\ m'.loader = t.loader
         /\ m'.cover = t.cover /\ m'.shown = t.shown
         /\ req' = IF link = "up" THEN sent \o t.out ELSE sent
         /\ req' \in Seq(Commands)
<1>1. m' = [t EXCEPT !.out = <<>>] /\ req' = IF link = "up" THEN sent \o t.out ELSE sent
  BY DEF Write
<1>2. t.out \in Seq(Commands) /\ <<>> \in Seq(Commands)
  BY DEF Variables
<1>3. req' \in Seq(Commands)
  BY <1>1, <1>2
<1> QED BY <1>1, <1>2, <1>3 DEF Variables

\* The line that is read is one of the answer to the plug-in's command
LEMMA LineRead ==
  ASSUME SongsAssumption, Session, link = "up", rep # <<>>
  PROVE  LET line == Head(rep)
         IN  /\ line \in Lines /\ Tail(rep) \in Seq(Lines) /\ ~idle
             /\ line.l \in {"OK", "ACK"} <=> Tail(rep) = <<>>
             /\ Answer(Tail(rep), m.current) /\ (line.l = "changed" => Answer(Tail(rep), Nil))
             /\ line.of = m.current \/ line.of = "clearerror" \/ (line.of = "idle" /\ m.current = Nil)
             /\ line.l = "changed" => m.current \in {"idle", Nil} /\ line.what \in Subsystems
             /\ line.l = "status" => m.current = "status" /\ line.song \in Songs
             /\ line.l = "tags" => m.current = "currentsong" /\ line.song \in Songs
             /\ line.l = "picture" => m.current \in Art /\ line.of = m.current
             /\ line.l = "ACK" => m.current = "albumart"
             /\ line.l \in {"changed", "status", "tags", "picture", "OK", "ACK"}
             /\ \A i \in DOMAIN req : req[i].c = "noidle"
             /\ \A i \in DOMAIN Tail(rep) : Tail(rep)[i] = rep[i + 1] /\ i + 1 \in DOMAIN rep
<1> DEFINE line == Head(rep)
           rest == Tail(rep)
<1>1. /\ rep \in Seq(Lines) /\ line \in Lines /\ line = rep[1] /\ 1 \in DOMAIN rep
      /\ rest \in Seq(Lines) /\ Len(rest) = Len(rep) - 1 /\ Len(rep) \in Nat
      /\ \A i \in DOMAIN rest : rest[i] = rep[i + 1] /\ i + 1 \in DOMAIN rep
  BY DEF Session, Types
<1>2. ~idle /\ Answer(rep, m.current) /\ \A i \in DOMAIN req : req[i].c = "noidle"
  BY DEF Session, Answers, AskedOnce
<1> HIDE DEF line, rest
<1>3. /\ line.l \in {"OK", "ACK"} <=> 1 = Len(rep)
      /\ \/ line.of = m.current
         \/ line.of = "clearerror" /\ line.l = "OK" /\ m.current = "albumart"
         \/ line.of = "idle" /\ m.current = Nil
  BY <1>1, <1>2 DEF Answer
<1>4. line.l \in {"OK", "ACK"} <=> rest = <<>>
  BY <1>1, <1>3
<1>5. \A i \in DOMAIN rest : i + 1 = Len(rep) <=> i = Len(rest)
  BY <1>1
<1>6. Answer(rest, m.current)
  BY <1>1, <1>2, <1>5 DEF Answer
<1>7. /\ line.l = "changed" => line.of = "idle" /\ line.what \in Subsystems
      /\ line.l = "status" => line.of = "status" /\ line.song \in Songs
      /\ line.l = "tags" => line.of = "currentsong" /\ line.song \in Songs
      /\ line.l = "picture" => line.of \in Art
      /\ line.l = "ACK" => line.of = "albumart"
      /\ line.l \in {"changed", "status", "tags", "picture", "OK", "ACK"}
  BY <1>1 DEF Lines
<1>8. line.l = "changed" => m.current \in {"idle", Nil}
  BY <1>3, <1>7
<1>9. /\ line.l = "status" => m.current = "status"
      /\ line.l = "tags" => m.current = "currentsong"
      /\ line.l = "picture" => m.current \in Art /\ line.of = m.current
      /\ line.l = "ACK" => m.current = "albumart"
  BY <1>3, <1>7 DEF Art
<1>10. ASSUME line.l = "changed" PROVE Answer(rest, Nil)
  <2>1. m.current \in {"idle", Nil} /\ Nil # "albumart"
    BY <1>8, <1>10 DEF SongsAssumption, Names, Art
  <2> QED BY <1>6, <2>1 DEF Answer
<1> QED BY <1>1, <1>2, <1>3, <1>4, <1>6, <1>7, <1>8, <1>9, <1>10 DEF line, rest

\* What the plug-in makes of a line that does not end the reply: its command stays,
\* or is none after a change that ends the wait
LEMMA LineHandled ==
  ASSUME SongsAssumption, Session, link = "up", rep # <<>>, Head(rep).l \notin {"OK", "ACK"}
  PROVE  LET line == Head(rep)
             t == Handled(m, line)
         IN  /\ t \in Variables /\ IdleLast(t.queue) /\ Kept(m.queue, t.queue)
             /\ \A i \in DOMAIN t.out : t.out[i] = NoIdle
             /\ IF line.l = "changed" THEN t.current = Nil ELSE t.current = m.current /\ t.out = <<>>
<1> DEFINE line == Head(rep)
           t == Handled(m, line)
<1>1. /\ line \in Lines
      /\ line.l = "changed" => m.current \in {"idle", Nil}
      /\ line.l = "status" => m.current = "status" /\ line.song \in Songs
      /\ line.l = "tags" => m.current = "currentsong" /\ line.song \in Songs
      /\ line.l = "picture" => m.current \in Art
      /\ line.l \in {"changed", "status", "tags", "picture"}
  BY LineRead
<1>2. m \in Variables /\ IdleLast(m.queue) /\ m.out = <<>>
  BY DEF Session, Types
<1>3. Nil # "idle" /\ Nil \notin Songs
  BY DEF SongsAssumption, Names
<1>4. \A i \in DOMAIN <<>> : <<>>[i] = NoIdle
  OBVIOUS
<1> HIDE DEF line
<1>5. CASE line.l = "changed"
  <2>1. CASE m.current = "idle"
    <3>1. t = IdleHandle(m, line.what)
      BY <1>5, <2>1 DEF Handled
    <3> HIDE DEF t
    <3>2. /\ t \in Variables /\ IdleLast(t.queue) /\ Kept(m.queue, t.queue)
          /\ t.current = Nil /\ \A i \in DOMAIN t.out : t.out[i] = NoIdle
      <4>1. \A w : LET x == IdleHandle(m, w)
                   IN  /\ x \in Variables /\ IdleLast(x.queue) /\ Kept(m.queue, x.queue)
                       /\ x.current = Nil /\ \A i \in DOMAIN x.out : x.out[i] = NoIdle
        BY <1>2, <2>1, IdleHandled, ZenonT(60)
      <4> QED BY <3>1, <4>1, ZenonT(60)
    <3> QED BY <1>5, <3>2 DEF line, t
  <2>2. CASE m.current = Nil
    <3>1. t = m
      BY <1>3, <1>5, <2>2 DEF Handled
    <3> HIDE DEF t
    <3> QED BY <1>2, <1>4, <1>5, <2>2, <3>1 DEF Kept, line, t
  <2> QED BY <1>1, <1>5, <2>1, <2>2
<1>6. CASE line.l = "status"
  <2>1. t = [m EXCEPT !.player = line.song]
    BY <1>1, <1>6 DEF Handled
  <2> HIDE DEF t
  <2>2. t \in Variables /\ t.queue = m.queue /\ t.current = m.current /\ t.out = m.out
    BY <1>1, <1>2, <1>6, <2>1 DEF Variables
  <2> QED BY <1>2, <1>4, <1>6, <2>2 DEF Kept, line, t
<1>7. CASE line.l = "tags"
  <2>1. t = TagHandle(m, line.song)
    BY <1>1, <1>7 DEF Handled
  <2> HIDE DEF t
  <2>2. Stays(m, t)
    BY <1>1, <1>2, <1>3, <1>7, <2>1, TagsHandled
  <2> QED BY <1>2, <1>4, <1>7, <2>2 DEF Stays, line, t
<1>8. CASE line.l = "picture"
  <2>1. t = CoverHandle(m, line)
    BY <1>1, <1>8 DEF Handled
  <2> HIDE DEF t
  <2>2. m.current # "idle"
    BY <1>1, <1>8 DEF Art
  <2>3. Stays(m, t)
    BY <1>1, <1>2, <1>8, <2>1, <2>2, ChunksHandled
  <2> QED BY <1>2, <1>4, <1>8, <2>3 DEF Stays, line, t
<1> QED BY <1>1, <1>5, <1>6, <1>7, <1>8 DEF line

\* The end of a reply: what completes the command (u) and the next command (t)
LEMMA EndHandled ==
  ASSUME SongsAssumption, Session, link = "up", rep # <<>>, Head(rep).l = "OK"
  PROVE  LET u == Completed(m)
             q == IF u.queue = <<>> THEN <<Cmd("status"), Cmd("currentsong"), Idle>> ELSE u.queue
             t == Handled(m, Head(rep))
         IN  /\ u \in Variables /\ IdleLast(u.queue) /\ Kept(m.queue, u.queue)
             /\ t \in Variables /\ IdleLast(t.queue) /\ Sends(q, u, t) /\ q \in Seq(Waiting)
             /\ Head(q) \in Waiting /\ (Head(q).c = "idle" => t.queue = <<>>)
<1> DEFINE u == Completed(m)
           q == IF u.queue = <<>> THEN <<Cmd("status"), Cmd("currentsong"), Idle>> ELSE u.queue
           t == Handled(m, Head(rep))
<1>1. m \in Variables /\ IdleLast(m.queue) /\ m.out = <<>>
  BY DEF Session, Types
<1>2. Stays(m, u)
  BY <1>1, Completes
<1>3. t = SendNext(u)
  BY DEF Handled
<1> HIDE DEF u
<1>4. u \in Variables /\ IdleLast(u.queue) /\ u.out = <<>> /\ Kept(m.queue, u.queue)
  BY <1>1, <1>2 DEF Stays
<1> HIDE DEF t
<1>5. /\ t \in Variables /\ IdleLast(t.queue) /\ Sends(q, u, t)
      /\ Head(q) \in Waiting /\ (Head(q).c = "idle" => t.queue = <<>>)
  BY <1>3, <1>4, NextSent
<1>6. q \in Seq(Waiting)
  <2>1. Cmd("status") \in Waiting /\ Cmd("currentsong") \in Waiting /\ Idle \in Waiting
    BY DEF Cmd, Idle, Waiting
  <2>2. <<Cmd("status"), Cmd("currentsong"), Idle>> \in Seq(Waiting)
    BY <2>1, Three
  <2>3. u.queue \in Seq(Waiting)
    BY <1>4 DEF Variables
  <2> QED BY <2>2, <2>3
<1> QED BY <1>4, <1>5, <1>6 DEF u, t

\* What the plug-in reads and makes of it
LEMMA ReadsSession ==
  ASSUME SongsAssumption, Session, Reads
  PROVE  Session'
<1> DEFINE line == Head(rep)
           t == Handled(m, line)
<1>1. /\ link = "up" /\ rep # <<>> /\ rep' = Tail(rep) /\ Write(t, req)
      /\ UNCHANGED <<song, idle, pending, link, changes, cmds, drops, done, interrupted>>
  BY DEF Reads, serverVars, counters
<1>2. /\ line \in Lines /\ rep' \in Seq(Lines) /\ ~idle'
      /\ line.l \in {"OK", "ACK"} <=> rep' = <<>>
      /\ Answer(rep', m.current) /\ (line.l = "changed" => Answer(rep', Nil))
      /\ line.l = "ACK" => m.current = "albumart"
      /\ \A i \in DOMAIN req : req[i].c = "noidle"
  BY <1>1, LineRead
<1>3. m \in Variables /\ IdleLast(m.queue) /\ m.out = <<>> /\ req \in Seq(Commands)
  BY DEF Session, Types
<1> HIDE DEF line
<1>4. ASSUME t \in Variables, IdleLast(t.queue)
      PROVE  /\ Types' /\ NoLink' /\ m'.queue = t.queue /\ m'.current = t.current /\ req' = req \o t.out
             /\ t.out \in Seq(Commands)
  <2> HIDE DEF t
  <2>1. /\ m' \in Variables /\ m'.out = <<>> /\ m'.queue = t.queue /\ m'.current = t.current
        /\ req' = req \o t.out /\ req' \in Seq(Commands)
    BY <1>1, <1>3, <1>4, WritesTyped
  <2>2. t.out \in Seq(Commands)
    BY <1>4 DEF Variables
  <2> QED BY <1>1, <1>2, <1>4, <2>1, <2>2 DEF Session, Types, NoLink
<1>5. CASE line.l \notin {"OK", "ACK"}
  <2>1. /\ t \in Variables /\ IdleLast(t.queue) /\ \A i \in DOMAIN t.out : t.out[i] = NoIdle
        /\ IF line.l = "changed" THEN t.current = Nil ELSE t.current = m.current /\ t.out = <<>>
    BY <1>1, <1>5, LineHandled DEF line
  <2> HIDE DEF t
  <2>2. /\ Types' /\ NoLink' /\ m'.current = t.current /\ req' = req \o t.out /\ t.out \in Seq(Commands)
    BY <1>4, <2>1 DEF t
  <2>3. \A i \in DOMAIN req' : req'[i].c = "noidle"
    <3>1. \A i \in DOMAIN t.out : t.out[i].c = "noidle"
      BY <2>1 DEF NoIdle, Cmd
    <3> QED BY <1>2, <1>3, <2>2, <3>1, WrittenAfter
  <2>4. AskedOnce'
    BY <2>3 DEF AskedOnce
  <2>5. Answer(rep', m'.current)
    BY <1>2, <2>1, <2>2
  <2>6. rep' # <<>>
    BY <1>2, <1>5
  <2>7. Answers' /\ Busy'
    BY <1>1, <1>2, <2>5, <2>6 DEF Answers, Busy, Answer
  <2>8. Noticed'
    BY <1>2, <2>3 DEF Noticed
  <2> QED BY <2>2, <2>4, <2>7, <2>8 DEF Session
<1>6. ASSUME t \in Variables, IdleLast(t.queue), NEW x \in Commands, t.out = <<x>>, rep' = <<>>,
             x.c = t.current \/ (x.c = "clearerror" /\ t.current = "albumart"),
             x.c # "noidle", x.c = "idle" => t.queue = <<>>
      PROVE  Session'
  <2> HIDE DEF t
  <2>1. /\ Types' /\ NoLink' /\ m'.queue = t.queue /\ m'.current = t.current
        /\ req' = req \o t.out /\ t.out \in Seq(Commands)
    BY <1>4, <1>6 DEF t
  <2>2. /\ Len(req') = Len(req) + 1 /\ Len(req) \in Nat /\ req' \in Seq(Commands)
        /\ Len(req') \in DOMAIN req' /\ req'[Len(req')] = x
        /\ \A i \in DOMAIN req' : i # Len(req') => req'[i].c = "noidle"
    <3>1. <<x>> \in Seq(Commands) /\ DOMAIN <<x>> = {1} /\ <<x>>[1] = x /\ Len(<<x>>) = 1
      BY <1>6
    <3>2. /\ req' \in Seq(Commands) /\ Len(req') = Len(req) + 1 /\ Len(req) \in Nat
          /\ Len(req) + 1 \in DOMAIN req' /\ req'[Len(req) + 1] = x
          /\ \A i \in DOMAIN req' : (i \in DOMAIN req /\ req'[i] = req[i]) \/ i - Len(req) = 1
      <4>1. /\ req' \in Seq(Commands) /\ Len(req') = Len(req) + Len(<<x>>)
            /\ \A i \in DOMAIN req : i \in DOMAIN req' /\ req'[i] = req[i]
            /\ \A i \in DOMAIN <<x>> : Len(req) + i \in DOMAIN req' /\ req'[Len(req) + i] = <<x>>[i]
            /\ \A i \in DOMAIN req' :
                 i \in DOMAIN req \/ (i > Len(req) /\ i - Len(req) \in DOMAIN <<x>>)
        BY <1>3, <1>6, <2>1, <3>1, WrittenAfter
      <4> QED BY <1>3, <3>1, <4>1
    <3>3. \A i \in DOMAIN req' : i \in Nat
      BY <3>2
    <3> QED BY <1>2, <3>2, <3>3
  <2>3. Answers'
    BY <1>2, <1>6 DEF Answers, Answer
  <2>4. AskedOnce'
    BY <1>2, <1>6, <2>1, <2>2 DEF AskedOnce
  <2>5. Busy'
    BY <1>2, <1>6, <2>2 DEF Busy
  <2>6. Noticed'
    <3>1. CASE x.c = "idle"
      BY <1>6, <2>1, <3>1 DEF Noticed
    <3>2. CASE x.c # "idle"
      <4>1. t.current # "idle"
        BY <1>6, <3>2
      <4> QED BY <2>1, <4>1 DEF Noticed
    <3> QED BY <3>1, <3>2
  <2> QED BY <2>1, <2>3, <2>4, <2>5, <2>6 DEF Session
<1>7. CASE line.l = "OK"
  <2> DEFINE u == Completed(m)
             q == IF u.queue = <<>> THEN <<Cmd("status"), Cmd("currentsong"), Idle>> ELSE u.queue
  <2>1. /\ t \in Variables /\ IdleLast(t.queue) /\ Sends(q, u, t)
        /\ Head(q) \in Waiting /\ (Head(q).c = "idle" => t.queue = <<>>)
    BY <1>1, <1>7, EndHandled DEF line
  <2> HIDE DEF t, q, u
  <2>2. t.out = <<Head(q)>> /\ t.current = Head(q).c
    BY <2>1 DEF Sends
  <2>3. Head(q) \in Commands /\ Head(q).c # "noidle"
    BY <2>1 DEF Commands, Waiting, Art
  <2> QED BY <1>2, <1>6, <1>7, <2>1, <2>2, <2>3
<1>8. CASE line.l = "ACK"
  <2>1. t = ErrorHandle(m)
    BY <1>8 DEF Handled
  <2> HIDE DEF t
  <2>2. Cmd("clearerror") \in Commands /\ Cmd("clearerror").c = "clearerror"
    BY DEF Cmd, Commands
  <2>3. t = [m EXCEPT !.out = <<Cmd("clearerror")>>]
    <3>1. \A x : Append(<<>>, x) = <<x>>
      OBVIOUS
    <3> QED BY <1>3, <2>1, <3>1 DEF ErrorHandle, Variables
  <2>4. t \in Variables /\ t.queue = m.queue /\ t.current = m.current /\ t.out = <<Cmd("clearerror")>>
    <3>1. <<Cmd("clearerror")>> \in Seq(Commands)
      BY <2>2
    <3> QED BY <1>3, <2>3, <3>1 DEF Variables
  <2> QED BY <1>2, <1>3, <1>6, <1>8, <2>2, <2>4
<1> QED
  <2>1. line.l \in {"OK", "ACK"} \/ line.l \notin {"OK", "ACK"}
    OBVIOUS
  <2> QED BY <1>5, <1>7, <1>8, <2>1

\* The song changes, or the playlist
LEMMA ChangesSession ==
  ASSUME Session, NEW what \in Subsystems, ServerChanges(what)
  PROVE  Session'
<1>1. /\ song' \in Songs /\ changes' \in Nat
      /\ UNCHANGED <<link, req, m, cmds, drops, done, interrupted>>
      /\ Notifies({what}, <<>>)
  BY DEF ServerChanges, Session, Types
<1>2. {what} \in SUBSET Subsystems /\ rep \in Seq(Lines) /\ idle \in BOOLEAN /\ pending \subseteq Subsystems
  BY DEF Session, Types
<1>3. CASE idle
  <2> DEFINE p == ChangedReply(InOrder({what}))
  <2>1. p \in Seq(Lines) /\ p # <<>> /\ Answer(p, "idle")
    BY <1>2, ChangesTold
  <2>2. idle' = FALSE /\ pending' = {} /\ rep' = rep \o <<>> \o p
    BY <1>1, <1>3 DEF Notifies
  <2> HIDE DEF p
  <2>3. rep' \in Seq(Lines)
    BY <1>2, <2>1, <2>2
  <2>4. Types'
    BY <1>1, <2>2, <2>3 DEF Session, Types
  <2>5. CASE link = "up"
    <3>1. rep = <<>> /\ m.current = "idle" /\ \A i \in DOMAIN req : req[i].c = "noidle"
      BY <1>3, <2>5 DEF Session, Answers, Busy, AskedOnce
    <3>2. rep' = p
      BY <2>1, <2>2, <3>1
    <3>3. Answers' /\ Busy'
      BY <1>1, <2>1, <2>2, <3>1, <3>2 DEF Answers, Busy, Answer
    <3>4. AskedOnce' /\ Noticed' /\ NoLink'
      BY <1>1, <2>2, <2>5, <3>1 DEF AskedOnce, Noticed, NoLink
    <3> QED BY <2>4, <3>3, <3>4 DEF Session
  <2>6. CASE link # "up"
    BY <1>1, <2>4, <2>6 DEF Session, NoLink, AskedOnce, Answers, Busy, Noticed
  <2> QED BY <2>5, <2>6
<1>4. CASE ~idle
  <2>1. idle' = idle /\ pending' = pending \cup {what} /\ rep' = rep \o <<>>
    BY <1>1, <1>4 DEF Notifies
  <2>2. rep' = rep
    BY <1>2, <2>1
  <2>3. Types'
    BY <1>1, <1>2, <2>1, <2>2 DEF Session, Types
  <2>4. NoLink' /\ AskedOnce' /\ Busy' /\ Noticed'
    BY <1>1, <2>1, <2>2 DEF Session, NoLink, AskedOnce, Busy, Noticed
  <2>5. Answers'
    BY <1>1, <2>1, <2>2 DEF Session, Answers, Answer
  <2> QED BY <2>3, <2>4, <2>5 DEF Session
<1> QED BY <1>3, <1>4

\* What mpd_func_cmd leaves
LEMMA UserCommanded ==
  ASSUME Session, UserCommands
  PROVE  LET t == CmdAppend(m, Next_(cmds + 1))
         IN  /\ t \in Variables /\ IdleLast(t.queue) /\ Appended(m.queue, t.queue, Next_(cmds + 1))
             /\ t = [m EXCEPT !.queue = t.queue, !.out = t.out]
             /\ m'.queue = t.queue /\ m' = [m EXCEPT !.queue = t.queue] /\ m' \in Variables /\ m'.out = <<>>
             /\ req' \in Seq(Commands) /\ cmds' = cmds + 1
             /\ IF link = "up" /\ m.current = "idle" THEN req' = Append(req, NoIdle) ELSE req' = req
             /\ UNCHANGED <<song, idle, pending, link, rep, changes, drops, done, interrupted>>
<1> DEFINE cmd == Next_(cmds + 1)
           t == CmdAppend(m, cmd)
<1>1. m \in Variables /\ IdleLast(m.queue) /\ m.out = <<>> /\ cmds + 1 \in Nat /\ req \in Seq(Commands)
  BY DEF Session, Types
<1>2. cmd \in Waiting
  BY <1>1 DEF Waiting, Next_
<1>3. /\ cmds' = cmds + 1 /\ Write(t, req)
      /\ UNCHANGED <<song, idle, pending, link, rep, changes, drops, done, interrupted>>
  BY DEF UserCommands, serverVars
<1> HIDE DEF cmd
<1>4. /\ t \in Variables /\ IdleLast(t.queue) /\ Appended(m.queue, t.queue, cmd)
      /\ t = [m EXCEPT !.queue = t.queue, !.out = t.out]
      /\ t.out = IF m.current = "idle" THEN Append(<<>>, NoIdle) ELSE <<>>
  BY <1>1, <1>2, Appends
<1> HIDE DEF t
<1>5. /\ m' \in Variables /\ m'.out = <<>> /\ m'.queue = t.queue /\ m' = [t EXCEPT !.out = <<>>]
      /\ req' = (IF link = "up" THEN req \o t.out ELSE req) /\ req' \in Seq(Commands)
  BY <1>1, <1>3, <1>4, WritesTyped
<1>6. m' = [m EXCEPT !.queue = t.queue]
  BY <1>1, <1>4, <1>5 DEF Variables
<1>7. IF link = "up" /\ m.current = "idle" THEN req' = Append(req, NoIdle) ELSE req' = req
  <2>1. req \o <<>> = req /\ req \o Append(<<>>, NoIdle) = Append(req, NoIdle)
    <3>1. NoIdle \in Commands
      BY DEF NoIdle, Cmd, Commands
    <3> DEFINE x == NoIdle
    <3> HIDE DEF x
    <3>2. x \in Commands
      BY <3>1 DEF x
    <3>3. req \o <<>> = req
      BY <1>1
    <3>4. Append(<<>>, x) = <<x>> /\ req \o <<x>> = Append(req, x)
      BY <1>1, <3>2, AppendIsConcat
    <3> QED BY <3>3, <3>4 DEF x
  <2> QED BY <1>4, <1>5, <2>1
<1> QED BY <1>3, <1>4, <1>5, <1>6, <1>7 DEF t, cmd

\* mpd_next and the like
LEMMA UserSession ==
  ASSUME Session, UserCommands
  PROVE  Session'
<1> DEFINE t == CmdAppend(m, Next_(cmds + 1))
<1>1. /\ t \in Variables /\ IdleLast(t.queue) /\ t.queue # <<>>
      /\ m'.queue = t.queue /\ m' = [m EXCEPT !.queue = t.queue] /\ m' \in Variables /\ m'.out = <<>>
      /\ req' \in Seq(Commands) /\ cmds' = cmds + 1
      /\ IF link = "up" /\ m.current = "idle" THEN req' = Append(req, NoIdle) ELSE req' = req
      /\ UNCHANGED <<song, idle, pending, link, rep, changes, drops, done, interrupted>>
  BY UserCommanded DEF Appended
<1> HIDE DEF t
<1>2. m \in Variables /\ req \in Seq(Commands) /\ cmds \in Nat
  BY DEF Session, Types
<1>3. m'.current = m.current
  BY <1>1, <1>2 DEF Variables
<1>4. Types'
  BY <1>1, <1>2 DEF Session, Types
<1>5. CASE link = "up" /\ m.current = "idle"
  <2>1. /\ Len(req') = Len(req) + 1 /\ Len(req) \in Nat /\ req' # <<>>
        /\ \A i \in DOMAIN req : i \in DOMAIN req' /\ req'[i] = req[i] /\ i <= Len(req)
        /\ \A i \in DOMAIN req' : i \in DOMAIN req \/ (i = Len(req) + 1 /\ req'[i].c = "noidle")
    <3>1. req' = Append(req, NoIdle) /\ NoIdle \in Commands /\ NoIdle.c = "noidle"
      BY <1>1, <1>5 DEF NoIdle, Cmd, Commands
    <3> DEFINE x == NoIdle
    <3> HIDE DEF x
    <3>2. req' = Append(req, x) /\ x \in Commands /\ x.c = "noidle"
      BY <3>1 DEF x
    <3> QED BY <1>2, <3>2
  <2>2. AskedOnce'
    BY <1>1, <1>3, <1>5, <2>1 DEF Session, AskedOnce
  <2>3. Busy' /\ NoLink'
    BY <1>1, <1>3, <1>5, <2>1 DEF Session, Busy, NoLink
  <2>4. Answers'
    BY <1>1, <1>3 DEF Session, Answers, Answer
  <2>5. Noticed'
    <3>1. \A i \in DOMAIN req' : req'[i].c = "idle" => i < Len(req')
      BY <2>1
    <3> QED BY <2>1, <3>1 DEF Noticed
  <2> QED BY <1>4, <2>2, <2>3, <2>4, <2>5 DEF Session
<1>6. CASE ~(link = "up" /\ m.current = "idle")
  <2>1. req' = req
    BY <1>1, <1>6
  <2>2. Answers'
    BY <1>1, <1>3 DEF Session, Answers, Answer
  <2> QED BY <1>1, <1>3, <1>4, <1>6, <2>1, <2>2 DEF Session, NoLink, AskedOnce, Busy, Noticed
<1> QED BY <1>5, <1>6

\* What a new connection starts with
LEMMA Connected ==
  ASSUME SongsAssumption, Session, Connects
  PROVE  /\ link = "down" /\ link' = "up" /\ idle' = FALSE /\ pending' = {} /\ rep' = <<Ok("init")>>
         /\ UNCHANGED <<song, changes, cmds, drops, done, interrupted>>
         /\ m' \in Variables /\ m'.out = <<>> /\ m'.current = "init" /\ IdleLast(m'.queue)
         /\ m' = [m EXCEPT !.queue = m'.queue, !.current = "init"]
         /\ \E q \in Seq(Waiting) :
              Appended(m.queue, q, Cmd("status")) /\ Appended(q, m'.queue, Cmd("currentsong"))
         /\ Kept(m.queue, m'.queue)
         /\ req' \in Seq(Commands) /\ \A i \in DOMAIN req' : req'[i].c = "noidle"
<1> DEFINE u == CmdAppend(m, Cmd("status"))
           v == CmdAppend(u, Cmd("currentsong"))
<1>1. m \in Variables /\ IdleLast(m.queue) /\ m.out = <<>>
  BY DEF Session, Types
<1>2. /\ Cmd("status") \in Waiting /\ Cmd("status").c \notin {"next", "idle"}
      /\ Cmd("currentsong") \in Waiting /\ Cmd("currentsong").c \notin {"next", "idle"}
  BY DEF Cmd, Waiting
<1>3. /\ link = "down" /\ link' = "up" /\ idle' = FALSE /\ pending' = {} /\ rep' = <<Ok("init")>>
      /\ UNCHANGED <<song, changes, cmds, drops, done, interrupted>>
      /\ m' = [v EXCEPT !.current = "init", !.out = <<>>] /\ req' = v.out
  BY DEF Connects, counters
<1>4. /\ u \in Variables /\ IdleLast(u.queue) /\ Appended(m.queue, u.queue, Cmd("status"))
      /\ u = [m EXCEPT !.queue = u.queue, !.out = u.out]
      /\ u.out = IF m.current = "idle" THEN Append(m.out, NoIdle) ELSE m.out
  BY <1>1, <1>2, Appends
<1> HIDE DEF u
<1>5. /\ v \in Variables /\ IdleLast(v.queue) /\ Appended(u.queue, v.queue, Cmd("currentsong"))
      /\ v = [u EXCEPT !.queue = v.queue, !.out = v.out]
      /\ v.out = IF u.current = "idle" THEN Append(u.out, NoIdle) ELSE u.out
  BY <1>2, <1>4, Appends
<1> HIDE DEF v
<1>6. /\ m' \in Variables /\ m'.out = <<>> /\ m'.current = "init" /\ m'.queue = v.queue
      /\ m' = [m EXCEPT !.queue = m'.queue, !.current = "init"]
  <2>1. <<>> \in Seq(Commands) /\ "init" \in Names \cup {"init", Nil}
    OBVIOUS
  <2>2. v = [m EXCEPT !.queue = v.queue, !.out = v.out]
    BY <1>1, <1>4, <1>5 DEF Variables
  <2>3. v.queue \in Seq(Waiting)
    BY <1>5 DEF Variables
  <2>4. m' = [m EXCEPT !.queue = v.queue, !.current = "init"]
    BY <1>1, <1>3, <2>2, <2>3 DEF Variables
  <2>5. m' \in Variables /\ m'.out = m.out /\ m'.current = "init" /\ m'.queue = v.queue
    BY <1>1, <2>1, <2>3, <2>4 DEF Variables
  <2> QED BY <1>1, <2>4, <2>5
<1>7. m.queue \in Seq(Waiting) /\ u.queue \in Seq(Waiting) /\ v.queue \in Seq(Waiting)
  BY <1>1, <1>4, <1>5 DEF Variables
<1>8. Kept(m.queue, m'.queue)
  <2>1. Kept(m.queue, u.queue) /\ Kept(u.queue, v.queue)
    BY <1>2, <1>4, <1>5, <1>7, AppendedKept
  <2> QED BY <1>6, <2>1 DEF Kept
<1>9. req' \in Seq(Commands) /\ \A i \in DOMAIN req' : req'[i].c = "noidle"
  <2> DEFINE x == NoIdle
  <2>1. x \in Commands /\ x.c = "noidle"
    BY DEF NoIdle, Cmd, Commands
  <2> HIDE DEF x
  <2>2. v.out \in {<<>>, Append(<<>>, x), Append(Append(<<>>, x), x)}
    BY <1>1, <1>4, <1>5 DEF x
  <2>3. v.out \in Seq({x})
    <3>1. <<>> \in Seq({x}) /\ x \in {x}
      OBVIOUS
    <3>2. Append(<<>>, x) \in Seq({x})
      BY <3>1
    <3>3. Append(Append(<<>>, x), x) \in Seq({x})
      BY <3>2
    <3> QED BY <2>2, <3>1, <3>2, <3>3
  <2>4. v.out \in Seq(Commands)
    BY <1>5 DEF Variables
  <2> QED BY <1>3, <2>1, <2>3, <2>4
<1> QED BY <1>3, <1>4, <1>5, <1>6, <1>7, <1>8, <1>9

\* The connection is lost and made again
LEMMA LinkSession ==
  ASSUME SongsAssumption, Session, Drops \/ Reconnects \/ Connects
  PROVE  Session'
<1>1. CASE Drops
  <2>1. /\ link' = "closed" /\ req' = <<>> /\ rep' = <<>> /\ drops' = drops + 1
        /\ interrupted' \in BOOLEAN
        /\ UNCHANGED <<song, idle, pending, m, changes, cmds, done>>
    BY <1>1 DEF Drops, serverVars
  <2>2. Types'
    BY <2>1 DEF Session, Types
  <2> QED BY <2>1, <2>2 DEF Session, NoLink, AskedOnce, Answers, Busy, Noticed
<1>2. CASE Reconnects
  <2>1. /\ link' = "down" /\ req' = <<>> /\ rep' = <<>>
        /\ UNCHANGED <<song, idle, pending, m, changes, cmds, drops, done, interrupted>>
    BY <1>2 DEF Reconnects, serverVars, counters
  <2>2. Types'
    BY <2>1 DEF Session, Types
  <2> QED BY <2>1, <2>2 DEF Session, NoLink, AskedOnce, Answers, Busy, Noticed
<1>3. CASE Connects
  <2>1. /\ link' = "up" /\ idle' = FALSE /\ pending' = {} /\ rep' = <<Ok("init")>>
        /\ UNCHANGED <<song, changes, cmds, drops, done, interrupted>>
        /\ m' \in Variables /\ m'.out = <<>> /\ m'.current = "init" /\ IdleLast(m'.queue)
        /\ req' \in Seq(Commands) /\ \A i \in DOMAIN req' : req'[i].c = "noidle"
    BY <1>3, Connected
  <2>2. Ok("init") \in Lines /\ Ok("init").l = "OK" /\ Ok("init").of = "init"
    BY LinesAre
  <2>3. rep' \in Seq(Lines) /\ rep' # <<>> /\ Answer(rep', "init")
    BY <2>1, <2>2, OneLine
  <2>4. Types'
    BY <2>1, <2>3 DEF Session, Types
  <2>5. Answers'
    BY <2>1, <2>3 DEF Answers, Answer
  <2>6. NoLink' /\ AskedOnce' /\ Busy' /\ Noticed'
    BY <2>1, <2>3 DEF NoLink, AskedOnce, Busy, Noticed
  <2> QED BY <2>4, <2>5, <2>6 DEF Session
<1> QED BY <1>1, <1>2, <1>3

\* The plug-in starts with no connection
LEMMA InitSession == ASSUME SongsAssumption, Init PROVE Session
<1>1. New \in Variables /\ New.out = <<>> /\ New.queue = <<>>
  <2>1. /\ <<>> \in Seq(Waiting) /\ <<>> \in Seq(Songs \X Nat) /\ <<>> \in Seq(Commands)
        /\ "readpicture" \in Art /\ Nil \in Artists /\ 0 \in Nat
    BY DEF Art, Artists
  <2> QED BY <2>1 DEF New, Variables
<1>2. IdleLast(<<>>)
  BY DEF IdleLast
<1>3. Types
  <2>1. <<>> \in Seq(Commands) /\ <<>> \in Seq(Lines) /\ <<>> \in Seq(Nat)
    OBVIOUS
  <2> QED BY <1>1, <1>2, <2>1 DEF Init, Types
<1> QED BY <1>3 DEF Init, Session, NoLink, AskedOnce, Answers, Busy, Noticed

\* Every step keeps Session
LEMMA NextSession == ASSUME SongsAssumption, Session, [Next]_vars PROVE Session'
<1>1. CASE Serves
  BY <1>1, ServesSession
<1>2. CASE Reads
  BY <1>2, ReadsSession
<1>3. CASE Drops \/ Reconnects \/ Connects
  BY <1>3, LinkSession
<1>4. CASE UserCommands
  BY <1>4, UserSession
<1>5. ASSUME NEW what \in Subsystems, ServerChanges(what) PROVE Session'
  BY <1>5, ChangesSession
<1>6. CASE UNCHANGED vars
  <2>1. UNCHANGED <<song, idle, pending, link, req, rep, m, changes, cmds, drops, done, interrupted>>
    BY <1>6 DEF vars, serverVars, counters
  <2> QED BY <2>1 DEF Session, Types, NoLink, AskedOnce, Answers, Answer, Busy, Noticed, IdleLast
<1> QED BY <1>1, <1>2, <1>3, <1>4, <1>5, <1>6 DEF Next, Works, Acts

----------------------------------------------------------------------------
(* The user's commands *)

\* The commands d that have been run, r that are with the server and q that wait are n
\* in all, in order
InTurn(d, r, q, n) ==
  /\ \A i \in DOMAIN d : d[i] \in 1..n /\ \A j \in DOMAIN d : i < j => d[i] < d[j]
  /\ \A i \in DOMAIN r : r[i].c = "next" =>
       /\ r[i].n \in 1..n /\ \A j \in DOMAIN d : d[j] < r[i].n
       /\ \A j \in DOMAIN q : q[j].c = "next" => r[i].n < q[j].n
  /\ \A i \in DOMAIN q : q[i].c = "next" =>
       /\ q[i].n \in 1..n /\ \A j \in DOMAIN d : d[j] < q[i].n
       /\ \A j \in DOMAIN q : i < j /\ q[j].c = "next" => q[i].n < q[j].n

\* ... and none of them is lost
AllThere(d, r, q, n) ==
  /\ \A i \in DOMAIN d : d[i] = i
  /\ \A k \in Len(d) + 1 .. n :
       \/ \E i \in DOMAIN r : r[i] = Next_(k)
       \/ \E i \in DOMAIN q : q[i] = Next_(k)

InOrderAll == InTurn(done, req, m.queue, cmds) /\ (drops = 0 => AllThere(done, req, m.queue, cmds))

NoNext(r) == \A i \in DOMAIN r : r[i].c # "next"

\* Of the commands, the user's are told by their numbers
LEMMA NextIs ==
  /\ \A k : Next_(k).c = "next" /\ Next_(k).n = k
  /\ \A x \in Commands : x.c = "next" => x = Next_(x.n) /\ x.n \in Nat
  /\ Waiting \subseteq Commands
BY DEF Next_, Commands, Waiting, Art

\* Commands stay in order when nothing is done about them
LEMMA InTurnKept ==
  ASSUME NEW d, NEW r, NEW r2, NEW q, NEW q2, NEW n, NoNext(r2), Kept(q, q2), InTurn(d, r, q, n)
  PROVE  InTurn(d, r2, q2, n)
BY DEF NoNext, Kept, InTurn

\* ... and none is lost
LEMMA AllThereKept ==
  ASSUME NEW d, NEW r, NEW r2, NEW q, NEW q2, NEW n, NoNext(r), Kept(q, q2), AllThere(d, r, q, n)
  PROVE  AllThere(d, r2, q2, n)
<1>1. \A i \in DOMAIN r : \A k : r[i] # Next_(k)
  BY NextIs DEF NoNext
<1> QED BY <1>1, NextIs DEF Kept, AllThere

\* A command goes to the server, with which none is
LEMMA SentInTurn ==
  ASSUME NEW d \in Seq(Nat), NEW r, NEW q \in Seq(Waiting), NEW n \in Nat, NEW r2, q # <<>>,
         NoNext(r), InTurn(d, r, q, n),
         \A i \in DOMAIN r2 : r2[i].c = "next" => r2[i] = Head(q),
         \E i \in DOMAIN r2 : r2[i] = Head(q)
  PROVE  /\ InTurn(d, r2, Tail(q), n)
         /\ AllThere(d, r, q, n) => AllThere(d, r2, Tail(q), n)
<1>1. /\ Head(q) = q[1] /\ 1 \in DOMAIN q /\ Len(Tail(q)) = Len(q) - 1 /\ Tail(q) \in Seq(Waiting)
      /\ \A i \in DOMAIN Tail(q) : i + 1 \in DOMAIN q /\ Tail(q)[i] = q[i + 1] /\ i \in Nat /\ 1 < i + 1
      /\ \A i \in DOMAIN q : i # 1 => i - 1 \in DOMAIN Tail(q) /\ Tail(q)[i - 1] = q[i]
  <2>1. Len(q) \in Nat /\ DOMAIN q = 1..Len(q) /\ Len(q) >= 1 /\ Head(q) = q[1]
    OBVIOUS
  <2>2. /\ Tail(q) \in Seq(Waiting) /\ Len(Tail(q)) = Len(q) - 1
        /\ \A i \in 1..Len(q) - 1 : Tail(q)[i] = q[i + 1]
    BY HeadTailProperties
  <2> QED BY <2>1, <2>2
<1>2. InTurn(d, r2, Tail(q), n)
  <2>1. \A i \in DOMAIN r2 : r2[i].c = "next" =>
          /\ r2[i].n \in 1..n /\ \A j \in DOMAIN d : d[j] < r2[i].n
          /\ \A j \in DOMAIN Tail(q) : Tail(q)[j].c = "next" => r2[i].n < Tail(q)[j].n
    BY <1>1 DEF InTurn
  <2>2. ASSUME NEW i \in DOMAIN Tail(q), Tail(q)[i].c = "next"
        PROVE  /\ Tail(q)[i].n \in 1..n /\ \A j \in DOMAIN d : d[j] < Tail(q)[i].n
               /\ \A j \in DOMAIN Tail(q) :
                    i < j /\ Tail(q)[j].c = "next" => Tail(q)[i].n < Tail(q)[j].n
    <3>1. i + 1 \in DOMAIN q /\ Tail(q)[i] = q[i + 1]
      BY <1>1
    <3>2. /\ q[i + 1].n \in 1..n /\ \A j \in DOMAIN d : d[j] < q[i + 1].n
          /\ \A j \in DOMAIN q : i + 1 < j /\ q[j].c = "next" => q[i + 1].n < q[j].n
      BY <2>2, <3>1 DEF InTurn
    <3>3. \A j \in DOMAIN Tail(q) : i < j => i + 1 < j + 1
      BY <1>1
    <3> QED BY <1>1, <3>1, <3>2, <3>3
  <2> QED BY <2>1, <2>2 DEF InTurn
<1>3. ASSUME AllThere(d, r, q, n) PROVE AllThere(d, r2, Tail(q), n)
  <2> SUFFICES ASSUME NEW k \in Len(d) + 1 .. n
               PROVE  \/ \E i \in DOMAIN r2 : r2[i] = Next_(k)
                      \/ \E i \in DOMAIN Tail(q) : Tail(q)[i] = Next_(k)
    BY <1>3 DEF AllThere
  <2>1. \E i \in DOMAIN q : q[i] = Next_(k)
    BY <1>3, NextIs DEF AllThere, NoNext
  <2>2. PICK i \in DOMAIN q : q[i] = Next_(k)
    BY <2>1
  <2> QED BY <1>1, <2>2
<1> QED BY <1>2, <1>3

\* The server has run the command that was with it
LEMMA RunInTurn ==
  ASSUME NEW d \in Seq(Nat), NEW r, NEW q, NEW n \in Nat, NEW x \in Commands, NEW r2,
         x.c = "next", \E i \in DOMAIN r : r[i] = x,
         \A i \in DOMAIN r : r[i].c = "next" => r[i] = x,
         NoNext(r2), InTurn(d, r, q, n)
  PROVE  /\ InTurn(Append(d, x.n), r2, q, n)
         /\ AllThere(d, r, q, n) => AllThere(Append(d, x.n), r2, q, n)
<1> DEFINE e == Append(d, x.n)
<1>1. x = Next_(x.n) /\ x.n \in Nat
  BY NextIs
<1>2. /\ e \in Seq(Nat) /\ Len(e) = Len(d) + 1 /\ Len(d) \in Nat /\ e[Len(d) + 1] = x.n
      /\ \A i \in DOMAIN d : e[i] = d[i] /\ i \in Nat /\ i <= Len(d) /\ i >= 1
      /\ \A i \in DOMAIN e : i \in DOMAIN d \/ i = Len(d) + 1
  BY <1>1
<1>3. /\ x.n \in 1..n /\ \A j \in DOMAIN d : d[j] < x.n
      /\ \A j \in DOMAIN q : q[j].c = "next" => x.n < q[j].n
  BY DEF InTurn
<1> HIDE DEF e
<1>4. \A i \in DOMAIN e : e[i] \in 1..n /\ \A j \in DOMAIN e : i < j => e[i] < e[j]
  BY <1>2, <1>3, SMTT(30) DEF InTurn
<1>5. \A i \in DOMAIN q : q[i].c = "next" => \A j \in DOMAIN e : e[j] < q[i].n
  <2> SUFFICES ASSUME NEW i \in DOMAIN q, q[i].c = "next", NEW j \in DOMAIN e PROVE e[j] < q[i].n
    OBVIOUS
  <2>1. (\A k \in DOMAIN d : d[k] < q[i].n) /\ x.n < q[i].n
    BY <1>3 DEF InTurn
  <2> QED BY <1>2, <2>1
<1>6. InTurn(e, r2, q, n)
  BY <1>4, <1>5 DEF InTurn, NoNext
<1>7. ASSUME AllThere(d, r, q, n) PROVE AllThere(e, r2, q, n)
  <2>1. x.n = Len(d) + 1
    <3>1. x.n > Len(d)
      <4>1. CASE Len(d) = 0
        BY <1>3, <4>1
      <4>2. CASE Len(d) # 0
        <5>1. Len(d) \in DOMAIN d
          BY <1>2, <4>2
        <5>2. d[Len(d)] = Len(d)
          BY <1>7, <5>1 DEF AllThere
        <5> QED BY <1>1, <1>2, <1>3, <5>1, <5>2
      <4> QED BY <4>1, <4>2
    <3>2. CASE x.n > Len(d) + 1
      <4>1. Len(d) + 1 \in Len(d) + 1 .. n
        BY <1>2, <1>3, <3>2
      <4>2. \/ \E i \in DOMAIN r : r[i] = Next_(Len(d) + 1)
            \/ \E i \in DOMAIN q : q[i] = Next_(Len(d) + 1)
        BY <1>7, <4>1 DEF AllThere
      <4>3. CASE \E i \in DOMAIN r : r[i] = Next_(Len(d) + 1)
        BY <1>2, <3>2, <4>3, NextIs
      <4>4. CASE \E i \in DOMAIN q : q[i] = Next_(Len(d) + 1)
        <5>1. x.n < Len(d) + 1
          BY <1>3, <4>4, NextIs
        <5> QED BY <1>1, <1>2, <3>2, <5>1
      <4> QED BY <4>2, <4>3, <4>4
    <3> QED BY <1>1, <1>2, <3>1, <3>2
  <2>2. \A i \in DOMAIN e : e[i] = i
    BY <1>2, <1>7, <2>1 DEF AllThere
  <2>3. ASSUME NEW k \in Len(e) + 1 .. n
        PROVE  \E i \in DOMAIN q : q[i] = Next_(k)
    <3>1. k \in Len(d) + 1 .. n /\ k # x.n
      BY <1>2, <2>1
    <3>2. \/ \E i \in DOMAIN r : r[i] = Next_(k)
          \/ \E i \in DOMAIN q : q[i] = Next_(k)
      BY <1>7, <3>1 DEF AllThere
    <3>3. ASSUME NEW i \in DOMAIN r, r[i] = Next_(k) PROVE FALSE
      <4>1. r[i] = x
        BY <3>3, NextIs
      <4> QED BY <3>1, <3>3, <4>1, NextIs
    <3> QED BY <3>2, <3>3
  <2> QED BY <2>2, <2>3 DEF AllThere
<1> QED BY <1>6, <1>7 DEF e

\* Another command is appended
LEMMA AppendedInTurn ==
  ASSUME NEW d \in Seq(Nat), NEW r, NEW q \in Seq(Waiting), NEW q2 \in Seq(Waiting), NEW r2, NEW n \in Nat,
         Appended(q, q2, Next_(n + 1)), InTurn(d, r, q, n),
         \A i \in DOMAIN r2 : r2[i].c = "next" => i \in DOMAIN r /\ r2[i] = r[i],
         \A i \in DOMAIN r : i \in DOMAIN r2 /\ r2[i] = r[i]
  PROVE  /\ InTurn(d, r2, q2, n + 1)
         /\ AllThere(d, r, q, n) => AllThere(d, r2, q2, n + 1)
<1> DEFINE last == Len(q2)
<1>1. /\ last \in DOMAIN q2 /\ q2[last].c = "next" /\ q2[last].n = n + 1 /\ q2[last] = Next_(n + 1)
      /\ \A i \in DOMAIN q2 : i # last => i \in DOMAIN q /\ q2[i] = q[i] /\ i < last /\ i \in Nat
      /\ \A i \in DOMAIN q : q[i].c = "next" => i \in DOMAIN q2 /\ q2[i] = q[i]
  <2>1. /\ q2 # <<>> /\ q2[last] = Next_(n + 1)
        /\ \A i \in DOMAIN q : q[i].c # "idle" => i < last
        /\ \A i \in DOMAIN q2 : i # last => i \in DOMAIN q /\ q2[i] = q[i]
    BY DEF Appended
  <2>2. last \in Nat /\ last >= 1 /\ DOMAIN q2 = 1..last /\ DOMAIN q = 1..Len(q) /\ Len(q) \in Nat
    BY <2>1
  <2>3. \A i \in DOMAIN q : q[i].c = "next" => i \in DOMAIN q2 /\ i # last
    BY <2>1, <2>2
  <2> QED BY <2>1, <2>2, <2>3, NextIs
<1> HIDE DEF last
<1>2. \A i \in DOMAIN d : d[i] \in 1..n
  BY DEF InTurn
<1>3. \A k \in 1..n : k \in 1..n + 1 /\ k < n + 1
  OBVIOUS
<1>4. ASSUME NEW i \in DOMAIN q2, q2[i].c = "next"
      PROVE  /\ q2[i].n \in 1..n + 1 /\ \A j \in DOMAIN d : d[j] < q2[i].n
             /\ \A j \in DOMAIN q2 : i < j /\ q2[j].c = "next" => q2[i].n < q2[j].n
  <2>1. CASE i = last
    <3>1. \A j \in DOMAIN q2 : ~(i < j)
      <4> SUFFICES ASSUME NEW j \in DOMAIN q2, i < j PROVE FALSE
        OBVIOUS
      <4>1. j \in Nat /\ i \in Nat
        OBVIOUS
      <4>2. j = last \/ j < last
        BY <1>1
      <4> QED BY <2>1, <4>1, <4>2
    <3> QED BY <1>1, <1>2, <1>3, <2>1, <3>1
  <2>2. CASE i # last
    <3>1. i \in DOMAIN q /\ q2[i] = q[i]
      BY <1>1, <2>2
    <3>2. /\ q[i].n \in 1..n /\ \A j \in DOMAIN d : d[j] < q[i].n
          /\ \A j \in DOMAIN q : i < j /\ q[j].c = "next" => q[i].n < q[j].n
      BY <1>4, <3>1 DEF InTurn
    <3> QED BY <1>1, <1>3, <3>1, <3>2
  <2> QED BY <2>1, <2>2
<1>5. ASSUME NEW i \in DOMAIN r2, r2[i].c = "next"
      PROVE  /\ r2[i].n \in 1..n + 1 /\ \A j \in DOMAIN d : d[j] < r2[i].n
             /\ \A j \in DOMAIN q2 : q2[j].c = "next" => r2[i].n < q2[j].n
  <2>1. i \in DOMAIN r /\ r2[i] = r[i]
    BY <1>5
  <2>2. /\ r[i].n \in 1..n /\ \A j \in DOMAIN d : d[j] < r[i].n
        /\ \A j \in DOMAIN q : q[j].c = "next" => r[i].n < q[j].n
    BY <1>5, <2>1 DEF InTurn
  <2> QED BY <1>1, <1>3, <2>1, <2>2
<1>6. InTurn(d, r2, q2, n + 1)
  <2>1. \A i \in DOMAIN d : d[i] \in 1..n + 1 /\ \A j \in DOMAIN d : i < j => d[i] < d[j]
    BY <1>3 DEF InTurn
  <2> QED BY <1>4, <1>5, <2>1 DEF InTurn
<1>7. ASSUME AllThere(d, r, q, n) PROVE AllThere(d, r2, q2, n + 1)
  <2> SUFFICES ASSUME NEW k \in Len(d) + 1 .. n + 1
               PROVE  \/ \E i \in DOMAIN r2 : r2[i] = Next_(k)
                      \/ \E i \in DOMAIN q2 : q2[i] = Next_(k)
    BY <1>7 DEF AllThere
  <2>1. CASE k = n + 1
    BY <1>1, <2>1
  <2>2. CASE k # n + 1
    <3>1. k \in Len(d) + 1 .. n
      BY <2>2
    <3>2. \/ \E i \in DOMAIN r : r[i] = Next_(k)
          \/ \E i \in DOMAIN q : q[i] = Next_(k)
      BY <1>7, <3>1 DEF AllThere
    <3> QED BY <1>1, <3>2, NextIs
  <2> QED BY <2>1, <2>2
<1> QED BY <1>6, <1>7

\* Every step keeps the user's commands in order
LEMMA NextInOrder ==
  ASSUME SongsAssumption, Session, Session', InOrderAll, [Next]_vars
  PROVE  InOrderAll'
<1>1. /\ m \in Variables /\ m.queue \in Seq(Waiting) /\ req \in Seq(Commands) /\ done \in Seq(Nat)
      /\ cmds \in Nat /\ drops \in Nat /\ rep \in Seq(Lines)
  BY DEF Session, Types, Variables
<1>2. CASE Serves
  <2> DEFINE r == Head(req)
  <2>1. link = "up" /\ req # <<>> /\ req' = Tail(req) /\ UNCHANGED <<m, cmds, drops>>
    BY <1>2, Served
  <2>2. /\ r \in Commands /\ r = req[1] /\ 1 \in DOMAIN req
        /\ \A i \in DOMAIN req' : i + 1 \in DOMAIN req /\ req'[i] = req[i + 1]
        /\ r.c # "noidle" => \A i \in DOMAIN req' : req'[i].c = "noidle"
    BY <1>1, <2>1, NextRead
  <2>3. CASE r.c = "next"
    <3>1. done' = Append(done, r.n)
      BY <1>2, <2>3, Served
    <3>2. \A i \in DOMAIN req : req[i].c = "next" => req[i] = r
      <4>1. \A i, j \in DOMAIN req : req[i].c = "next" /\ req[j].c = "next" => i = j
        BY <2>1 DEF Session, AskedOnce
      <4> QED BY <2>2, <2>3, <4>1
    <3>3. NoNext(req')
      BY <2>2, <2>3 DEF NoNext
    <3>4. \E i \in DOMAIN req : req[i] = r
      BY <2>2
    <3> HIDE DEF r
    <3>5. /\ InTurn(Append(done, r.n), req', m.queue, cmds)
          /\ AllThere(done, req, m.queue, cmds) => AllThere(Append(done, r.n), req', m.queue, cmds)
      BY <1>1, <2>2, <2>3, <3>2, <3>3, <3>4, RunInTurn DEF InOrderAll
    <3> QED BY <2>1, <3>1, <3>5 DEF InOrderAll
  <2>4. CASE r.c # "next"
    <3>1. done' = done
      BY <1>2, <2>4, Served
    <3>2. \A i \in DOMAIN req' : \E j \in DOMAIN req : req'[i] = req[j]
      BY <2>2
    <3>3. \A i \in DOMAIN req : req[i].c = "next" => \E j \in DOMAIN req' : req'[j] = req[i]
      <4>1. \A i \in DOMAIN req : i # 1 => i - 1 \in DOMAIN req' /\ req'[i - 1] = req[i]
        <5>1. Len(req) \in Nat /\ DOMAIN req = 1..Len(req) /\ DOMAIN req' = 1..Len(req')
              /\ Len(req') = Len(req) - 1 /\ \A i \in 1..Len(req') : req'[i] = req[i + 1]
          BY <1>1, <2>1
        <5> QED BY <5>1
      <4> QED BY <2>2, <2>4, <4>1
    <3>4. InTurn(done, req', m.queue, cmds)
      BY <3>2 DEF InOrderAll, InTurn
    <3>5. AllThere(done, req, m.queue, cmds) => AllThere(done, req', m.queue, cmds)
      <4> SUFFICES ASSUME AllThere(done, req, m.queue, cmds),
                          NEW k \in Len(done) + 1 .. cmds
                   PROVE  \/ \E i \in DOMAIN req' : req'[i] = Next_(k)
                          \/ \E i \in DOMAIN m.queue : m.queue[i] = Next_(k)
        BY DEF AllThere
      <4>1. \/ \E i \in DOMAIN req : req[i] = Next_(k)
            \/ \E i \in DOMAIN m.queue : m.queue[i] = Next_(k)
        BY DEF AllThere
      <4> QED BY <3>3, <4>1, NextIs
    <3> QED BY <2>1, <3>1, <3>4, <3>5 DEF InOrderAll
  <2> QED BY <2>3, <2>4
<1>3. CASE Reads
  <2> DEFINE line == Head(rep)
             t == Handled(m, line)
  <2>1. /\ link = "up" /\ rep # <<>> /\ Write(t, req) /\ UNCHANGED <<link, cmds, drops, done>>
    BY <1>3 DEF Reads, counters
  <2>2. (\A i \in DOMAIN req : req[i].c = "noidle") /\ line.l \in {"changed", "status", "tags", "picture", "OK", "ACK"}
    BY <2>1, LineRead
  <2>3. NoNext(req)
    BY <2>2 DEF NoNext
  <2>4. ASSUME t \in Variables
        PROVE  /\ m'.queue = t.queue /\ req' = req \o t.out /\ t.out \in Seq(Commands)
               /\ (\A i \in DOMAIN t.out : t.out[i].c # "next") => NoNext(req')
    <3> HIDE DEF t
    <3>1. m'.queue = t.queue /\ req' = req \o t.out
      BY <1>1, <2>1, <2>4, WritesTyped
    <3>2. t.out \in Seq(Commands)
      BY <2>4 DEF Variables
    <3>3. ASSUME \A i \in DOMAIN t.out : t.out[i].c # "next" PROVE NoNext(req')
      BY <1>1, <2>3, <3>1, <3>2, <3>3, WrittenAfter DEF NoNext
    <3> QED BY <3>1, <3>2, <3>3
  <2>5. CASE line.l \notin {"OK", "ACK"}
    <3>1. /\ t \in Variables /\ Kept(m.queue, t.queue) /\ \A i \in DOMAIN t.out : t.out[i] = NoIdle
          /\ line.l # "changed" => t.out = <<>>
      BY <2>1, <2>5, LineHandled
    <3> HIDE DEF t, line
    <3>2. m'.queue = t.queue /\ NoNext(req')
      BY <2>4, <3>1 DEF NoIdle, Cmd, t
    <3>3. InTurn(done, req', t.queue, cmds)
      BY <3>1, <3>2, InTurnKept DEF InOrderAll
    <3>4. AllThere(done, req, m.queue, cmds) => AllThere(done, req', t.queue, cmds)
      BY <2>3, <3>1, AllThereKept
    <3> QED BY <2>1, <3>2, <3>3, <3>4 DEF InOrderAll
  <2>6. CASE line.l = "OK"
    <3> DEFINE u == Completed(m)
               q == IF u.queue = <<>> THEN <<Cmd("status"), Cmd("currentsong"), Idle>> ELSE u.queue
    <3>1. /\ Kept(m.queue, u.queue) /\ t \in Variables /\ Sends(q, u, t)
          /\ q \in Seq(Waiting) /\ Head(q) \in Waiting /\ u \in Variables
      BY <2>1, <2>6, EndHandled
    <3>2. InTurn(done, req, u.queue, cmds)
      BY <2>3, <3>1, InTurnKept DEF InOrderAll
    <3>3. AllThere(done, req, m.queue, cmds) => AllThere(done, req, u.queue, cmds)
      BY <2>3, <3>1, AllThereKept
    <3>4. /\ \A i \in DOMAIN q : q[i].c = "next" => i \in DOMAIN u.queue /\ u.queue[i] = q[i]
          /\ \A i \in DOMAIN u.queue : u.queue[i].c = "next" => i \in DOMAIN q /\ q[i] = u.queue[i]
      <4>1. CASE u.queue = <<>>
        <5>1. q = <<Cmd("status"), Cmd("currentsong"), Idle>>
          BY <4>1
        <5> HIDE DEF q, u
        <5>2. /\ Cmd("status") \in Waiting /\ Cmd("currentsong") \in Waiting /\ Idle \in Waiting
              /\ Cmd("status").c # "next" /\ Cmd("currentsong").c # "next" /\ Idle.c # "next"
          BY DEF Cmd, Idle, Waiting
        <5>3. Len(q) = 3 /\ q[1] = Cmd("status") /\ q[2] = Cmd("currentsong") /\ q[3] = Idle
          BY <5>1, <5>2, Three
        <5>4. \A i \in DOMAIN q : i \in {1, 2, 3}
          BY <3>1, <5>3
        <5>5. \A i \in DOMAIN q : q[i].c # "next"
          BY <5>2, <5>3, <5>4
        <5>6. \A i \in DOMAIN u.queue : FALSE
          BY <4>1, <3>1 DEF u
        <5> QED BY <5>5, <5>6
      <4>2. CASE u.queue # <<>>
        <5>1. q = u.queue
          BY <4>2
        <5> HIDE DEF q, u
        <5> QED BY <5>1
      <4> QED BY <4>1, <4>2
    <3> HIDE DEF t, line, u, q
    <3>5. InTurn(done, req, q, cmds)
      BY <3>2, <3>4 DEF InTurn
    <3>6. AllThere(done, req, u.queue, cmds) => AllThere(done, req, q, cmds)
      BY <3>4, NextIs DEF AllThere
    <3>7. q # <<>> /\ t.queue = Tail(q) /\ t.out = <<Head(q)>>
      BY <3>1 DEF Sends
    <3>8. m'.queue = Tail(q) /\ req' = req \o t.out /\ t.out \in Seq(Commands)
      BY <2>4, <3>1, <3>7 DEF t
    <3>9. /\ \A i \in DOMAIN req' : req'[i].c = "next" => req'[i] = Head(q)
          /\ \E i \in DOMAIN req' : req'[i] = Head(q)
      <4> DEFINE x == Head(q)
      <4>1. DOMAIN <<x>> = {1} /\ <<x>>[1] = x
        OBVIOUS
      <4> HIDE DEF x
      <4>2. DOMAIN t.out = {1} /\ t.out[1] = x
        BY <3>7, <4>1 DEF x
      <4>3. /\ \A i \in DOMAIN t.out : Len(req) + i \in DOMAIN req' /\ req'[Len(req) + i] = t.out[i]
            /\ \A i \in DOMAIN req' :
                 \/ i \in DOMAIN req /\ req'[i] = req[i]
                 \/ i - Len(req) \in DOMAIN t.out /\ req'[i] = t.out[i - Len(req)]
        BY <1>1, <3>8, WrittenAfter
      <4>4. \A i \in DOMAIN req' : req'[i].c = "next" => req'[i] = x
        BY <2>3, <4>2, <4>3 DEF NoNext
      <4>5. Len(req) + 1 \in DOMAIN req' /\ req'[Len(req) + 1] = x
        BY <4>2, <4>3
      <4> QED BY <4>4, <4>5 DEF x
    <3>10. /\ InTurn(done, req', Tail(q), cmds)
           /\ AllThere(done, req, q, cmds) => AllThere(done, req', Tail(q), cmds)
      BY <1>1, <2>3, <3>1, <3>5, <3>7, <3>9, SentInTurn
    <3> QED BY <2>1, <3>3, <3>6, <3>8, <3>10 DEF InOrderAll
  <2>7. CASE line.l = "ACK"
    <3>1. t = [m EXCEPT !.out = Append(@, Cmd("clearerror"))]
      BY <2>7 DEF Handled, ErrorHandle
    <3> HIDE DEF t
    <3> DEFINE x == Cmd("clearerror")
    <3>2. x \in Commands /\ x.c # "next"
      BY DEF Cmd, Commands
    <3> HIDE DEF x
    <3>3. m.out = <<>> /\ Append(<<>>, x) = <<x>> /\ <<x>> \in Seq(Commands) /\ DOMAIN <<x>> = {1} /\ <<x>>[1] = x
      BY <3>2 DEF Session, Types
    <3>4. t \in Variables /\ t.queue = m.queue /\ t.out = <<x>>
      BY <1>1, <3>1, <3>3 DEF Variables, x
    <3>5. m'.queue = m.queue /\ NoNext(req')
      <4>1. \A i \in DOMAIN t.out : t.out[i].c # "next"
        BY <3>2, <3>3, <3>4
      <4> QED BY <2>4, <3>4, <4>1 DEF t
    <3>6. Kept(m.queue, m.queue)
      BY DEF Kept
    <3>7. InTurn(done, req', m.queue, cmds)
      BY <3>5, <3>6, InTurnKept DEF InOrderAll
    <3>8. AllThere(done, req, m.queue, cmds) => AllThere(done, req', m.queue, cmds)
      BY <2>3, <3>6, AllThereKept
    <3> QED BY <2>1, <3>5, <3>7, <3>8 DEF InOrderAll
  <2> QED BY <2>2, <2>5, <2>6, <2>7
<1>4. CASE UserCommands
  <2> DEFINE q == CmdAppend(m, Next_(cmds + 1)).queue
  <2>1. /\ q \in Seq(Waiting) /\ Appended(m.queue, q, Next_(cmds + 1)) /\ m'.queue = q
        /\ cmds' = cmds + 1 /\ UNCHANGED <<drops, done>>
        /\ IF link = "up" /\ m.current = "idle" THEN req' = Append(req, NoIdle) ELSE req' = req
    <3>1. CmdAppend(m, Next_(cmds + 1)) \in Variables
      BY <1>4, UserCommanded
    <3>2. q \in Seq(Waiting)
      BY <3>1 DEF Variables
    <3> QED BY <1>4, <3>2, UserCommanded
  <2> HIDE DEF q
  <2>2. /\ \A i \in DOMAIN req' : req'[i].c = "next" => i \in DOMAIN req /\ req'[i] = req[i]
        /\ \A i \in DOMAIN req : i \in DOMAIN req' /\ req'[i] = req[i]
    <3> DEFINE x == NoIdle
    <3>1. x.c # "next" /\ x \in Commands
      BY DEF NoIdle, Cmd, Commands
    <3> HIDE DEF x
    <3>2. CASE req' = req
      BY <3>2
    <3>3. CASE req' = Append(req, x)
      <4>1. req \in Seq(Commands)
        BY <1>1 DEF Session, Types
      <4>2. /\ Len(req') = Len(req) + 1 /\ req'[Len(req) + 1] = x
            /\ \A i \in DOMAIN req : req'[i] = req[i]
            /\ DOMAIN req' = 1..Len(req')
        BY <3>1, <3>3, <4>1
      <4>3. \A i \in DOMAIN req' : i \in DOMAIN req \/ i = Len(req) + 1
        BY <4>1, <4>2
      <4> QED BY <3>1, <4>1, <4>2, <4>3
    <3> QED BY <2>1, <3>2, <3>3 DEF x
  <2>3. /\ InTurn(done, req', q, cmds + 1)
        /\ AllThere(done, req, m.queue, cmds) => AllThere(done, req', q, cmds + 1)
    BY <1>1, <2>1, <2>2, AppendedInTurn DEF InOrderAll
  <2> QED BY <2>1, <2>3 DEF InOrderAll
<1>5. CASE Drops
  <2>1. req' = <<>> /\ drops' # 0 /\ UNCHANGED <<m, cmds, done>>
    BY <1>1, <1>5 DEF Drops
  <2> QED BY <2>1 DEF InOrderAll, InTurn
<1>6. CASE Reconnects
  <2>1. req' = req /\ UNCHANGED <<m, cmds, drops, done>>
    BY <1>6 DEF Reconnects, Session, NoLink, counters
  <2> QED BY <2>1 DEF InOrderAll, InTurn, AllThere
<1>7. CASE Connects
  <2>1. /\ req = <<>> /\ UNCHANGED <<cmds, drops, done>> /\ Kept(m.queue, m'.queue)
        /\ \A i \in DOMAIN req' : req'[i].c = "noidle"
    BY <1>7, Connected DEF Session, NoLink
  <2>2. NoNext(req) /\ NoNext(req')
    BY <2>1 DEF NoNext
  <2>3. InTurn(done, req', m'.queue, cmds)
    BY <2>1, <2>2, InTurnKept DEF InOrderAll
  <2>4. AllThere(done, req, m.queue, cmds) => AllThere(done, req', m'.queue, cmds)
    BY <2>1, <2>2, AllThereKept
  <2> QED BY <2>1, <2>3, <2>4 DEF InOrderAll
<1>8. ASSUME NEW what \in Subsystems, ServerChanges(what) PROVE InOrderAll'
  <2>1. UNCHANGED <<req, m, cmds, drops, done>>
    BY <1>8 DEF ServerChanges
  <2> QED BY <2>1 DEF InOrderAll, InTurn, AllThere
<1>9. CASE UNCHANGED vars
  <2>1. UNCHANGED <<req, m, cmds, drops, done>>
    BY <1>9 DEF vars, counters
  <2> QED BY <2>1 DEF InOrderAll, InTurn, AllThere
<1> QED BY <1>2, <1>3, <1>4, <1>5, <1>6, <1>7, <1>8, <1>9 DEF Next, Works, Acts

\* There are none at first
LEMMA InitInOrder == ASSUME SongsAssumption, Init PROVE InOrderAll
<1>1. req = <<>> /\ done = <<>> /\ m.queue = <<>> /\ cmds = 0
  BY DEF Init, New
<1> QED BY <1>1 DEF InOrderAll, InTurn, AllThere

----------------------------------------------------------------------------
(* The theorems *)

\* What Session says of the properties
LEMMA SessionMeans ==
  ASSUME SongsAssumption, Session
  PROVE  TypeOK /\ InPhase /\ IdleIsRespected
<1>1. TypeOK
  <2>1. \A x \in Waiting : x.c \in Names
    BY DEF Waiting, Names, Art
  <2>2. m.queue \in Seq(Waiting) /\ \A i \in DOMAIN m.queue : m.queue[i] \in Waiting
    BY DEF Session, Types, Variables
  <2>3. \A i \in DOMAIN m.queue : m.queue[i].c \in Names /\ (m.queue[i].c = "idle" => i = Len(m.queue))
    BY <2>1, <2>2 DEF Session, Types, IdleLast
  <2>4. /\ m.current \in Names \cup {"init", Nil} /\ m.out = <<>>
        /\ m.received \in Nat /\ m.total \in Nat /\ m.cover \in Songs \cup {Nil}
    BY DEF Session, Types, Variables
  <2> QED BY <2>3, <2>4 DEF TypeOK, Session, Types
<1>2. InPhase
  <2> SUFFICES ASSUME link = "up", rep # <<>>
               PROVE  LET of == Head(rep).of
                      IN  of = m.current \/ of = "clearerror" \/ (of = "idle" /\ m.current = Nil)
    BY DEF InPhase
  <2>1. 1 \in DOMAIN rep /\ Head(rep) = rep[1]
    BY DEF Session, Types
  <2> QED BY <2>1 DEF Session, Answers, Answer
<1>3. IdleIsRespected
  <2> SUFFICES ASSUME link = "up", idle, req # <<>>, Head(req).c # "noidle" PROVE FALSE
    BY DEF IdleIsRespected
  <2> QED BY NextRead
<1> QED BY <1>1, <1>2, <1>3

\* What the order of the user's commands says of what has been run
LEMMA OrderMeans ==
  ASSUME SongsAssumption, Session, InOrderAll
  PROVE  CommandsRun
<1>1. \A i, j \in DOMAIN done : i < j => done[i] < done[j]
  BY DEF InOrderAll, InTurn
<1>2. ASSUME Quiet PROVE m.queue = <<>>
  BY <1>2 DEF Quiet, Session, Busy, Noticed
<1>3. ASSUME Quiet, drops = 0 PROVE Len(done) = cmds
  <2>1. done \in Seq(Nat) /\ cmds \in Nat /\ Len(done) \in Nat
    BY DEF Session, Types
  <2>2. m.queue = <<>> /\ req = <<>>
    BY <1>2, <1>3 DEF Quiet
  <2>3. \A k \in Len(done) + 1 .. cmds : FALSE
    BY <1>3, <2>2 DEF InOrderAll, AllThere
  <2>4. \A i \in DOMAIN done : i \in 1..cmds
    BY <1>3 DEF InOrderAll, InTurn, AllThere
  <2>5. Len(done) <= cmds
    <3>1. CASE Len(done) = 0
      BY <2>1, <3>1
    <3>2. CASE Len(done) # 0
      <4>1. Len(done) \in DOMAIN done
        BY <2>1, <3>2
      <4> QED BY <2>1, <2>4, <4>1
    <3> QED BY <3>1, <3>2
  <2>6. cmds <= Len(done)
    BY <2>1, <2>3
  <2> QED BY <2>1, <2>5, <2>6
<1> QED BY <1>1, <1>2, <1>3 DEF CommandsRun

\* Every variable keeps its type, whatever the server, the user and the connection do.
THEOREM Typed == ASSUME SongsAssumption PROVE Spec => []TypeOK
<1>1. Init => Session
  BY InitSession
<1>2. Session /\ [Next]_vars => Session'
  BY NextSession
<1>3. Session => TypeOK
  BY SessionMeans
<1> QED BY <1>1, <1>2, <1>3, PTL DEF Spec

\* mpd_channel_cb takes every line for part of the reply to the command that it
\* answers: replies and commands stay in step.
THEOREM AnswersInPhase == ASSUME SongsAssumption PROVE Spec => []InPhase
<1>1. Init => Session
  BY InitSession
<1>2. Session /\ [Next]_vars => Session'
  BY NextSession
<1>3. Session => InPhase
  BY SessionMeans
<1> QED BY <1>1, <1>2, <1>3, PTL DEF Spec

\* While the server waits in "idle", nothing but "noidle" is sent to it.
THEOREM OnlyNoidle == ASSUME SongsAssumption PROVE Spec => []IdleIsRespected
<1>1. Init => Session
  BY InitSession
<1>2. Session /\ [Next]_vars => Session'
  BY NextSession
<1>3. Session => IdleIsRespected
  BY SessionMeans
<1> QED BY <1>1, <1>2, <1>3, PTL DEF Spec

\* The user's commands (mpd_cmd_append) are run in order and once, and all of them
\* by the time that the plug-in rests, if no connection was lost.
THEOREM RunInOrder == ASSUME SongsAssumption PROVE Spec => []CommandsRun
<1>1. Init => Session /\ InOrderAll
  BY InitSession, InitInOrder
<1>2. Session /\ InOrderAll /\ [Next]_vars => (Session /\ InOrderAll)'
  BY NextSession, NextInOrder
<1>3. Session /\ InOrderAll => CommandsRun
  BY OrderMeans
<1> QED BY <1>1, <1>2, <1>3, PTL DEF Spec

----------------------------------------------------------------------------
(* The song *)

IdleIn(q) == \E i \in DOMAIN q : q[i].c = "idle"

\* The plug-in makes the server wait only after it has asked for the status and the song
Refill ==
  IdleIn(m.queue) => \/ m.current = "status" /\ m.queue = <<Cmd("currentsong"), Idle>>
                     \/ m.current = "currentsong" /\ m.queue = <<Idle>>

\* The song s's tags, each that it has
TagsOf(tags, s) == tags.file = s /\ (Artist[s] # Nil => tags.artist = Artist[s])

\* The end of a reply is there to be read
Ends(p) == p # <<>> /\ p[1].l = "OK"

\* What is on its way is true of the song s, and so is what the plug-in has read since
\* the last "status"
KnownOf(s, waits, p, r, v) ==
  /\ \A i \in DOMAIN p : p[i].l \in {"status", "tags"} => p[i].song = s
  /\ IdleIn(v.queue) /\ v.current = "status" /\ Ends(p) => v.player = s
  /\ IdleIn(v.queue) /\ v.current = "currentsong" => v.player = s /\ (Ends(p) => TagsOf(v.tags, s))
  /\ waits \/ IdleIn(r) => TagsOf(v.tags, s) /\ v.shown.player = s /\ TagsOf(v.shown, s)

\* Unless the plug-in is still to be told of another song
Known ==
  /\ Refill
  /\ link = "up" => /\ idle => pending = {}
                    /\ "player" \notin pending => KnownOf(song, idle, rep, req, m)

\* A reply is read but for its end
LEMMA LinesKnown ==
  ASSUME SongsAssumption, Session, Known, Session', Reads, Head(rep).l # "OK"
  PROVE  Known'
<1> DEFINE line == Head(rep)
           t == Handled(m, line)
<1>1. /\ link = "up" /\ rep # <<>> /\ rep' = Tail(rep) /\ Write(t, req)
      /\ UNCHANGED <<song, idle, pending, link, changes, cmds, drops, done, interrupted>>
  BY DEF Reads, serverVars, counters
<1>2. /\ line \in Lines /\ ~idle
      /\ line.l \in {"OK", "ACK"} <=> rep' = <<>>
      /\ line.l = "changed" => m.current \in {"idle", Nil}
      /\ line.l = "status" => m.current = "status" /\ line.song \in Songs
      /\ line.l = "tags" => m.current = "currentsong" /\ line.song \in Songs
      /\ line.l = "picture" => m.current \in Art /\ line.of = m.current
      /\ line.l = "ACK" => m.current = "albumart"
      /\ line.l \in {"changed", "status", "tags", "picture", "ACK"}
      /\ \A i \in DOMAIN req : req[i].c = "noidle"
      /\ \A i \in DOMAIN rep' : rep'[i] = rep[i + 1] /\ i + 1 \in DOMAIN rep
  BY <1>1, LineRead
<1>3. m \in Variables /\ IdleLast(m.queue) /\ m.out = <<>> /\ req \in Seq(Commands)
  BY DEF Session, Types
<1>4. 1 \in DOMAIN rep /\ line = rep[1]
  BY <1>1 DEF Session, Types
<1> HIDE DEF line
<1>5. /\ t \in Variables /\ Kept(m.queue, t.queue) /\ \A i \in DOMAIN t.out : t.out[i].c # "idle"
      /\ IF line.l = "changed" THEN t.current = Nil ELSE t.current = m.current
  <2>1. CASE line.l = "ACK"
    <3> DEFINE x == Cmd("clearerror")
    <3>1. t = [m EXCEPT !.out = Append(@, x)]
      BY <2>1 DEF Handled, ErrorHandle
    <3> HIDE DEF t
    <3>2. x \in Commands /\ x.c # "idle"
      BY DEF Cmd, Commands
    <3> HIDE DEF x
    <3>3. m.out = <<>> /\ Append(<<>>, x) = <<x>> /\ <<x>> \in Seq(Commands) /\ DOMAIN <<x>> = {1} /\ <<x>>[1] = x
      BY <1>3, <3>2
    <3>4. t \in Variables /\ t.queue = m.queue /\ t.out = <<x>> /\ t.current = m.current
      BY <1>3, <3>1, <3>3 DEF Variables
    <3> QED BY <2>1, <3>2, <3>3, <3>4 DEF Kept
  <2>2. CASE line.l # "ACK"
    <3>1. /\ t \in Variables /\ Kept(m.queue, t.queue) /\ \A i \in DOMAIN t.out : t.out[i] = NoIdle
          /\ IF line.l = "changed" THEN t.current = Nil ELSE t.current = m.current
      BY <1>1, <1>2, <2>2, LineHandled DEF line
    <3> QED BY <3>1 DEF NoIdle, Cmd
  <2> QED BY <2>1, <2>2
<1>6. /\ m'.queue = t.queue /\ m'.current = t.current /\ m'.player = t.player /\ m'.tags = t.tags
      /\ ~IdleIn(req')
  <2> HIDE DEF t
  <2>1. /\ m'.queue = t.queue /\ m'.current = t.current /\ m'.player = t.player /\ m'.tags = t.tags
        /\ req' = req \o t.out
    BY <1>1, <1>3, <1>5, WritesTyped
  <2>2. t.out \in Seq(Commands)
    BY <1>5 DEF Variables
  <2>3. \A i \in DOMAIN req' : req'[i].c # "idle"
    BY <1>2, <1>3, <1>5, <2>1, <2>2, WrittenAfter
  <2> QED BY <2>1, <2>3 DEF IdleIn
<1>7. IdleIn(t.queue) => t.queue = m.queue /\ IdleIn(m.queue)
  BY <1>5 DEF Kept, IdleIn
<1>8. IdleIn(m.queue) => line.l \in {"status", "tags"} /\ t.current = m.current
  <2>1. IdleIn(m.queue) => m.current \in {"status", "currentsong"}
    BY DEF Known, Refill
  <2> QED BY <1>2, <1>5, <2>1 DEF Art, SongsAssumption, Names
<1>9. Refill'
  BY <1>6, <1>7, <1>8 DEF Known, Refill
<1>10. ASSUME "player" \notin pending PROVE KnownOf(song, idle, rep', req', m')
  <2>1. KnownOf(song, idle, rep, req, m)
    BY <1>1, <1>10 DEF Known
  <2>2. \A i \in DOMAIN rep' : rep'[i].l \in {"status", "tags"} => rep'[i].song = song
    BY <1>2, <2>1 DEF KnownOf
  <2>3. line.l \in {"status", "tags"} => line.song = song
    BY <1>4, <2>1 DEF KnownOf
  <2>4. line.l = "status" => t.player = song
    <3>1. line.l = "status" => t = [m EXCEPT !.player = line.song]
      BY <1>2 DEF Handled
    <3> HIDE DEF t
    <3> QED BY <1>3, <2>3, <3>1 DEF Variables
  <2>5. line.l = "tags" => t.player = m.player /\ TagsOf(t.tags, song)
    <3> SUFFICES ASSUME line.l = "tags" PROVE t.player = m.player /\ TagsOf(t.tags, song)
      OBVIOUS
    <3>1. t = TagHandle(m, song) /\ m.current # "idle" /\ song \in Songs
      BY <1>2, <2>3 DEF Handled
    <3> HIDE DEF t
    <3>2. /\ t.player = m.player
          /\ t.tags.file = song /\ (Artist[song] # Nil => t.tags.artist = Artist[song])
      BY <1>3, <3>1, TagsHandled DEF SongsAssumption
    <3> QED BY <3>2 DEF TagsOf
  <2> HIDE DEF t
  <2>6. IdleIn(m'.queue) /\ m'.current = "status" /\ Ends(rep') => m'.player = song
    BY <1>2, <1>6, <1>7, <1>8, <2>4
  <2>7. IdleIn(m'.queue) /\ m'.current = "currentsong" =>
          m'.player = song /\ (Ends(rep') => TagsOf(m'.tags, song))
    <3> SUFFICES ASSUME IdleIn(m'.queue), m'.current = "currentsong"
                 PROVE  m'.player = song /\ TagsOf(m'.tags, song)
      OBVIOUS
    <3>1. line.l = "tags" /\ m.current = "currentsong" /\ IdleIn(m.queue)
      BY <1>2, <1>6, <1>7, <1>8
    <3>2. m.player = song
      BY <2>1, <3>1 DEF KnownOf
    <3> QED BY <1>6, <2>5, <3>1, <3>2
  <2> QED BY <1>2, <1>6, <2>2, <2>6, <2>7 DEF KnownOf
<1> QED BY <1>1, <1>2, <1>9, <1>10 DEF Known

\* ... and its end: what the next command is
LEMMA EndKnown ==
  ASSUME SongsAssumption, Session, Known, Session', Reads, Head(rep).l = "OK"
  PROVE  Known'
<1> DEFINE line == Head(rep)
           t == Handled(m, line)
           u == Completed(m)
           q == IF u.queue = <<>> THEN <<Cmd("status"), Cmd("currentsong"), Idle>> ELSE u.queue
<1>1. /\ link = "up" /\ rep # <<>> /\ rep' = Tail(rep) /\ Write(t, req)
      /\ UNCHANGED <<song, idle, pending, link>>
  BY DEF Reads, serverVars
<1>2. /\ ~idle /\ rep' = <<>> /\ (line.of = m.current \/ line.of = "clearerror" \/ line.of = "idle")
      /\ \A i \in DOMAIN req : req[i].c = "noidle"
  BY <1>1, LineRead
<1>3. m \in Variables /\ IdleLast(m.queue) /\ m.out = <<>> /\ req \in Seq(Commands)
  BY DEF Session, Types
<1>4. /\ u \in Variables /\ Kept(m.queue, u.queue) /\ t \in Variables /\ Sends(q, u, t)
      /\ q \in Seq(Waiting) /\ Head(q) \in Waiting
  BY <1>1, EndHandled
<1>5. /\ u.player = m.player /\ u.tags = m.tags
      /\ m.current # "readpicture" =>
           u.shown = [player |-> m.player, file |-> m.tags.file, artist |-> m.tags.artist]
  <2> HIDE DEF u
  <2>1. /\ u.player = m.player /\ u.tags = m.tags
        /\ ~(m.current = "readpicture" /\ m.received = 0) =>
             u.shown = [player |-> m.player, file |-> m.tags.file, artist |-> m.tags.artist]
    BY <1>3, Completes DEF u
  <2> QED BY <2>1
<1>6. Ends(rep)
  BY <1>1 DEF Ends, Session, Types
\* "idle" waits in q because it did before, or because nothing did
<1>7. IdleIn(q) => \/ q = <<Cmd("status"), Cmd("currentsong"), Idle>>
                   \/ q = m.queue /\ IdleIn(m.queue)
  <2>1. CASE u.queue = <<>>
    BY <2>1
  <2>2. CASE u.queue # <<>>
    <3>1. q = u.queue
      BY <2>2
    <3> HIDE DEF q, u
    <3> QED BY <1>4, <3>1 DEF Kept, IdleIn
  <2> QED BY <2>1, <2>2
<1> HIDE DEF line, t, u, q
<1>8. /\ m'.queue = Tail(q) /\ m'.current = Head(q).c /\ m'.player = m.player /\ m'.tags = m.tags
      /\ m'.shown = u.shown
      /\ req' = req \o <<Head(q)>>
  <2>1. /\ t.queue = Tail(q) /\ t.current = Head(q).c /\ t.player = u.player /\ t.tags = u.tags
        /\ t.shown = u.shown /\ t.out = <<Head(q)>>
    BY <1>4 DEF Sends, Variables
  <2>2. /\ m'.queue = t.queue /\ m'.current = t.current /\ m'.player = t.player /\ m'.tags = t.tags
        /\ m'.shown = t.shown /\ req' = req \o t.out
    BY <1>1, <1>3, <1>4, WritesTyped
  <2> QED BY <1>5, <2>1, <2>2
<1>9. IdleIn(req') => Head(q) = Idle
  <2> DEFINE x == Head(q)
  <2>1. x \in Commands /\ (x.c = "idle" => x = Idle)
    BY <1>4 DEF Commands, Waiting, Idle, Cmd, Art
  <2> HIDE DEF x
  <2>2. <<x>> \in Seq(Commands) /\ DOMAIN <<x>> = {1} /\ <<x>>[1] = x
    BY <2>1
  <2>3. req' = req \o <<x>>
    BY <1>8 DEF x
  <2>4. \A i \in DOMAIN req' : req'[i].c = "idle" => x = Idle
    BY <1>2, <1>3, <2>1, <2>2, <2>3, WrittenAfter
  <2> QED BY <2>4 DEF IdleIn, x
<1>10. /\ Idle \in Waiting /\ Cmd("status") \in Waiting /\ Cmd("currentsong") \in Waiting
       /\ Idle.c = "idle" /\ Cmd("status").c = "status" /\ Cmd("currentsong").c = "currentsong"
  BY DEF Idle, Cmd, Waiting
<1>11. q # <<>> /\ (Head(q) = Idle => IdleIn(q)) /\ (IdleIn(Tail(q)) => IdleIn(q))
  <2>1. q # <<>>
    BY <1>4 DEF Sends
  <2>2. /\ 1 \in DOMAIN q /\ Head(q) = q[1]
        /\ \A i \in DOMAIN Tail(q) : i + 1 \in DOMAIN q /\ Tail(q)[i] = q[i + 1]
    BY <1>4, <2>1
  <2>3. Head(q) = Idle => IdleIn(q)
    BY <1>10, <2>2 DEF IdleIn
  <2>4. IdleIn(Tail(q)) => IdleIn(q)
    BY <2>2 DEF IdleIn
  <2> QED BY <2>1, <2>3, <2>4
\* The three times that "idle" is in q
<1>12. IdleIn(q) =>
         \/ Head(q) = Cmd("status") /\ Tail(q) = <<Cmd("currentsong"), Idle>>
         \/ m.current = "status" /\ Head(q) = Cmd("currentsong") /\ Tail(q) = <<Idle>> /\ IdleIn(m.queue)
         \/ m.current = "currentsong" /\ Head(q) = Idle /\ Tail(q) = <<>> /\ IdleIn(m.queue)
  <2> DEFINE a == Cmd("status")
             b == Cmd("currentsong")
             c == Idle
  <2>1. a \in Waiting /\ b \in Waiting /\ c \in Waiting
    BY <1>10
  <2>2. IdleIn(q) =>
          \/ q = <<a, b, c>>
          \/ m.current = "status" /\ q = <<b, c>> /\ IdleIn(m.queue)
          \/ m.current = "currentsong" /\ q = <<c>> /\ IdleIn(m.queue)
    BY <1>7 DEF Known, Refill
  <2> HIDE DEF a, b, c
  <2>3. /\ Head(<<a, b, c>>) = a /\ Tail(<<a, b, c>>) = <<b, c>>
        /\ Head(<<b, c>>) = b /\ Tail(<<b, c>>) = <<c>>
        /\ Head(<<c>>) = c /\ Tail(<<c>>) = <<>>
    BY <2>1
  <2>4. IdleIn(q) =>
          \/ Head(q) = a /\ Tail(q) = <<b, c>>
          \/ m.current = "status" /\ Head(q) = b /\ Tail(q) = <<c>> /\ IdleIn(m.queue)
          \/ m.current = "currentsong" /\ Head(q) = c /\ Tail(q) = <<>> /\ IdleIn(m.queue)
    BY <2>2, <2>3
  <2> QED BY <2>4 DEF a, b, c
<1>13. ~IdleIn(<<>>)
  BY DEF IdleIn
<1>14. Refill'
  BY <1>8, <1>10, <1>11, <1>12, <1>13 DEF Refill
<1>15. ASSUME "player" \notin pending PROVE KnownOf(song, idle, rep', req', m')
  <2>1. KnownOf(song, idle, rep, req, m)
    BY <1>1, <1>15 DEF Known
  <2>2. rep' = <<>> /\ ~Ends(rep')
    BY <1>2 DEF Ends
  <2>3. IdleIn(m'.queue) /\ m'.current = "currentsong" => m'.player = song
    <3> SUFFICES ASSUME IdleIn(m'.queue), m'.current = "currentsong" PROVE m.player = song
      BY <1>8
    <3>1. m.current = "status" /\ IdleIn(m.queue)
      BY <1>8, <1>10, <1>11, <1>12, <1>13
    <3> QED BY <1>6, <2>1, <3>1 DEF KnownOf
  <2>4. IdleIn(req') => TagsOf(m'.tags, song) /\ m'.shown.player = song /\ TagsOf(m'.shown, song)
    <3> SUFFICES ASSUME IdleIn(req')
                 PROVE  TagsOf(m'.tags, song) /\ m'.shown.player = song /\ TagsOf(m'.shown, song)
      OBVIOUS
    <3>1. m.current = "currentsong" /\ IdleIn(m.queue)
      BY <1>9, <1>10, <1>11, <1>12
    <3>2. m.player = song /\ TagsOf(m.tags, song)
      BY <1>6, <2>1, <3>1 DEF KnownOf
    <3>3. m'.shown = [player |-> m.player, file |-> m.tags.file, artist |-> m.tags.artist]
      BY <1>5, <1>8, <3>1
    <3> QED BY <1>8, <3>2, <3>3 DEF TagsOf
  <2> QED BY <1>2, <2>2, <2>3, <2>4 DEF KnownOf
<1> QED BY <1>1, <1>2, <1>14, <1>15 DEF Known

\* The server's step
LEMMA ServedKnown ==
  ASSUME SongsAssumption, Session, Known, Serves
  PROVE  Known'
<1> DEFINE r == Head(req)
<1>1. link = "up" /\ req # <<>> /\ req' = Tail(req) /\ UNCHANGED <<m, link>>
  BY Served
<1>2. /\ r = req[1] /\ 1 \in DOMAIN req
      /\ \A i \in DOMAIN req' : i + 1 \in DOMAIN req /\ req'[i] = req[i + 1]
      /\ r.c # "noidle" =>
           /\ rep = <<>> /\ ~idle
           /\ r.c = m.current \/ (r.c = "clearerror" /\ m.current = "albumart")
           /\ \A i \in DOMAIN req' : req'[i].c = "noidle"
  <2>1. 1 \in DOMAIN req
    BY <1>1 DEF Session, Types
  <2> QED BY <1>1, <2>1, NextRead
<1>3. IdleIn(req') => IdleIn(req) /\ r.c = "noidle"
  BY <1>2 DEF IdleIn
<1>4. Refill'
  BY <1>1 DEF Known, Refill
<1>5. song \in Songs /\ idle \in BOOLEAN /\ rep \in Seq(Lines) /\ pending \in SUBSET Subsystems /\ Names \cap {Nil} = {}
  BY DEF Session, Types, SongsAssumption
<1>6. (idle => pending = {}) /\ ("player" \notin pending => KnownOf(song, idle, rep, req, m))
  BY <1>1 DEF Known
\* Whatever is answered but the status and the tags
<1>7. ASSUME song' = song, ~idle', pending' = pending, ~IdleIn(req'),
             \A i \in DOMAIN rep' : rep'[i].l \notin {"status", "tags"},
             m.current \notin {"status", "currentsong"} \/ ~Ends(rep')
      PROVE  Known'
  <2>1. "player" \notin pending => KnownOf(song, idle', rep', req', m)
    BY <1>6, <1>7 DEF KnownOf
  <2> QED BY <1>1, <1>4, <1>7, <2>1 DEF Known
<1>8. CASE r.c = "noidle" /\ idle
  <2>1. /\ rep' = <<Ok("idle")>> /\ idle' = FALSE /\ UNCHANGED <<song, pending, done>>
    BY <1>8, Served
  <2>2. m.current = "idle" /\ pending = {}
    BY <1>1, <1>6, <1>8 DEF Session, Busy
  <2>3. \A i \in DOMAIN rep' : rep'[i].l \notin {"status", "tags"}
    <3>1. rep' \in Seq(Lines) /\ DOMAIN rep' = {1} /\ rep'[1] = Ok("idle")
      BY <2>1, ServedLines
    <3> QED BY <3>1 DEF Ok
  <2>4. ~IdleIn(req)
    BY <1>1, <1>8 DEF IdleIn, Session, AskedOnce
  <2> QED BY <1>3, <1>7, <2>1, <2>2, <2>3, <2>4
<1>9. CASE r.c = "noidle" /\ ~idle
  <2>1. /\ rep' = rep /\ idle' = FALSE /\ UNCHANGED <<song, pending>>
    BY <1>9, Served
  <2>2. "player" \notin pending => KnownOf(song, idle', rep', req', m)
    BY <1>3, <1>6, <1>9, <2>1 DEF KnownOf
  <2> QED BY <1>1, <1>4, <2>1, <2>2 DEF Known
<1>10. CASE r.c = "idle" /\ pending = {}
  <2>1. idle' = TRUE /\ UNCHANGED <<song, pending, rep>>
    BY <1>10, Served
  <2>2. IdleIn(req)
    BY <1>2, <1>10 DEF IdleIn
  <2>3. KnownOf(song, idle', rep', req', m)
    BY <1>6, <1>10, <2>1, <2>2 DEF KnownOf
  <2> QED BY <1>1, <1>4, <1>10, <2>1, <2>3 DEF Known
<1>11. CASE r.c = "idle" /\ pending # {}
  <2>1. /\ rep' = ChangedReply(InOrder(pending)) /\ idle' = FALSE /\ pending' = {} /\ UNCHANGED <<song, done>>
    BY <1>11, Served
  <2>2. \A i \in DOMAIN rep' : rep'[i].l \notin {"status", "tags"}
    BY <1>5, <2>1, ChangesTold
  <2>3. m.current = "idle"
    BY <1>2, <1>11
  <2>4. KnownOf(song', idle', rep', req', m)
    BY <1>2, <1>11, <2>1, <2>2, <2>3 DEF KnownOf, IdleIn
  <2> QED BY <1>1, <1>4, <2>1, <2>4 DEF Known
<1>12. CASE r.c = "next"
  <2>1. /\ idle' = FALSE /\ pending' = pending \cup {"player"}
    BY <1>12, Served
  <2> QED BY <1>1, <1>4, <2>1 DEF Known
<1>13. CASE r.c \in {"status", "currentsong"}
  <2> DEFINE a == IF r.c = "status" THEN Status(song) ELSE Tags(song)
             b == Ok(r.c)
  <2>1. rep' = <<a, b>> /\ UNCHANGED <<song, idle, pending>>
    <3>1. rep' = (IF r.c = "status" THEN <<Status(song), Ok("status")>> ELSE <<Tags(song), Ok("currentsong")>>)
          /\ UNCHANGED <<song, idle, pending>>
      BY <1>13, Served DEF serverVars
    <3> QED BY <1>13, <3>1
  <2>2. a \in Lines /\ b \in Lines /\ a.l # "OK" /\ a.song = song /\ b.l = "OK"
    BY <1>5, <1>13, LinesAre DEF Names
  <2> HIDE DEF a, b
  <2>3. rep' # <<>> /\ DOMAIN rep' = {1, 2} /\ rep'[1] = a /\ rep'[2] = b
    BY <2>1, <2>2
  <2>4. ~Ends(rep') /\ \A i \in DOMAIN rep' : rep'[i].l \in {"status", "tags"} => rep'[i].song = song
    BY <2>2, <2>3 DEF Ends
  <2>5. ~idle /\ ~IdleIn(req')
    BY <1>2, <1>3, <1>13
  <2>6. "player" \notin pending => KnownOf(song, idle, rep', req', m)
    BY <1>6, <2>4, <2>5 DEF KnownOf
  <2> QED BY <1>1, <1>4, <2>1, <2>5, <2>6 DEF Known
<1>14. CASE r.c \in Art
  <2> DEFINE n == IF r.c = "readpicture" THEN Embedded[r.file] ELSE Folder[r.file]
             none == IF r.c = "readpicture" THEN Ok(r.c) ELSE Ack(r.c)
             a == Picture(r.c, r.file, r.offset, n)
             b == Ok(r.c)
  <2>1. rep' = PictureReply(r, n, none) /\ r.file \in Songs /\ r.offset \in Nat /\ UNCHANGED <<song, idle, pending>>
    <3>1. CASE r.c = "readpicture"
      BY <3>1, Served DEF serverVars
    <3>2. CASE r.c = "albumart"
      BY <3>2, Served DEF serverVars
    <3> QED BY <1>14, <3>1, <3>2 DEF Art
  <2>2. n \in Nat
    BY <1>14, <2>1 DEF SongsAssumption
  <2>3. /\ a \in Lines /\ b \in Lines /\ none \in Lines
        /\ a.l = "picture" /\ b.l = "OK" /\ none.l \in {"OK", "ACK"}
    BY <1>14, <2>1, <2>2, LinesAre DEF Art, Names
  <2>4. rep' = IF n = 0 THEN <<none>> ELSE <<a, b>>
    BY <1>14, <2>1, <2>2, PictureLines
  <2> HIDE DEF n, none, a, b
  <2>5. \A i \in DOMAIN rep' : rep'[i].l \notin {"status", "tags"}
    <3>1. CASE n = 0
      <4>1. DOMAIN rep' = {1} /\ rep'[1] = none
        BY <2>3, <2>4, <3>1
      <4> QED BY <2>3, <4>1
    <3>2. CASE n # 0
      <4>1. DOMAIN rep' = {1, 2} /\ rep'[1] = a /\ rep'[2] = b
        BY <2>3, <2>4, <3>2
      <4> QED BY <2>3, <4>1
    <3> QED BY <3>1, <3>2
  <2>6. m.current \notin {"status", "currentsong"}
    BY <1>2, <1>14 DEF Art
  <2>7. r.c # "noidle"
    BY <1>14 DEF Art
  <2>8. ~idle /\ ~IdleIn(req')
    BY <1>2, <1>3, <2>7
  <2> QED BY <1>7, <2>1, <2>5, <2>6, <2>8
<1>15. CASE r.c = "clearerror"
  <2>1. rep' = <<Ok("clearerror")>> /\ UNCHANGED <<song, idle, pending>>
    BY <1>15, Served DEF serverVars
  <2>2. \A i \in DOMAIN rep' : rep'[i].l \notin {"status", "tags"}
    <3>1. rep' \in Seq(Lines) /\ DOMAIN rep' = {1} /\ rep'[1] = Ok("clearerror")
      BY <2>1, ServedLines
    <3> QED BY <3>1 DEF Ok
  <2>3. m.current \in {"clearerror", "albumart"}
    BY <1>2, <1>15
  <2>4. ~idle /\ ~IdleIn(req')
    BY <1>2, <1>3, <1>15
  <2> QED BY <1>7, <2>1, <2>2, <2>3, <2>4
<1>16. r.c \in {"noidle", "idle", "next", "status", "currentsong", "clearerror"} \cup Art
  BY Served DEF Art
<1> QED BY <1>8, <1>9, <1>10, <1>11, <1>12, <1>13, <1>14, <1>15, <1>16

\* The song changes, or the playlist
LEMMA ChangesKnown ==
  ASSUME Session, Known, NEW what \in Subsystems, ServerChanges(what)
  PROVE  Known'
<1>1. /\ UNCHANGED <<link, req, m>> /\ Notifies({what}, <<>>)
      /\ what # "player" => song' = song
  BY DEF ServerChanges, Subsystems
<1>2. {what} \in SUBSET Subsystems /\ rep \in Seq(Lines)
  BY DEF Session, Types
<1>3. Refill'
  BY <1>1 DEF Known, Refill
<1>4. CASE link # "up"
  BY <1>1, <1>3, <1>4 DEF Known
<1>5. CASE link = "up" /\ idle
  <2> DEFINE p == ChangedReply(InOrder({what}))
  <2>1. p \in Seq(Lines) /\ \A i \in DOMAIN p : p[i].l \notin {"status", "tags"}
    BY <1>2, ChangesTold
  <2>2. idle' = FALSE /\ pending' = {} /\ rep' = rep \o <<>> \o p
    BY <1>1, <1>5 DEF Notifies
  <2> HIDE DEF p
  <2>3. rep = <<>> /\ m.current = "idle" /\ ~IdleIn(req)
    BY <1>5 DEF Session, Answers, Busy, AskedOnce, IdleIn
  <2>4. rep' = p
    BY <2>1, <2>2, <2>3
  <2>5. KnownOf(song', idle', rep', req', m)
    BY <1>1, <2>1, <2>2, <2>3, <2>4 DEF KnownOf
  <2> QED BY <1>1, <1>3, <2>2, <2>5 DEF Known
<1>6. CASE link = "up" /\ ~idle
  <2>1. idle' = idle /\ pending' = pending \cup {what} /\ rep' = rep \o <<>>
    BY <1>1, <1>6 DEF Notifies
  <2>2. rep' = rep
    BY <1>2, <2>1
  <2> QED BY <1>1, <1>3, <1>6, <2>1, <2>2 DEF Known
<1> QED BY <1>4, <1>5, <1>6

\* The user's commands, and what happens to the connection
LEMMA OthersKnown ==
  ASSUME SongsAssumption, Session, Known, UserCommands \/ Drops \/ Reconnects \/ Connects
  PROVE  Known'
<1>1. CASE UserCommands
  <2> DEFINE cmd == Next_(cmds + 1)
             q == CmdAppend(m, cmd).queue
  <2>1. /\ Appended(m.queue, q, cmd) /\ m' = [m EXCEPT !.queue = q] /\ q \in Seq(Waiting)
        /\ IF link = "up" /\ m.current = "idle" THEN req' = Append(req, NoIdle) ELSE req' = req
        /\ UNCHANGED <<song, idle, pending, link, rep>>
    <3> DEFINE t == CmdAppend(m, cmd)
    <3>1. /\ t \in Variables /\ Appended(m.queue, t.queue, cmd) /\ m' = [m EXCEPT !.queue = t.queue]
          /\ IF link = "up" /\ m.current = "idle" THEN req' = Append(req, NoIdle) ELSE req' = req
          /\ UNCHANGED <<song, idle, pending, link, rep>>
      BY <1>1, UserCommanded
    <3> HIDE DEF t
    <3>2. t.queue \in Seq(Waiting)
      BY <3>1 DEF Variables
    <3> QED BY <3>1, <3>2 DEF t
  <2>2. cmd.c # "idle"
    BY DEF Next_
  <2> HIDE DEF cmd, q
  <2>3. ~IdleIn(q)
    BY <2>1, <2>2 DEF Appended, IdleIn
  <2>4. /\ m'.queue = q /\ m'.current = m.current /\ m'.player = m.player /\ m'.tags = m.tags
        /\ m'.shown = m.shown
    BY <2>1 DEF Session, Types, Variables
  <2>5. IdleIn(req') => IdleIn(req)
    <3>1. req \in Seq(Commands) /\ NoIdle \in Commands /\ NoIdle.c # "idle"
      BY DEF Session, Types, NoIdle, Cmd, Commands
    <3>2. CASE req' = Append(req, NoIdle)
      <4>1. \A i \in DOMAIN req' : (i \in DOMAIN req /\ req'[i] = req[i]) \/ req'[i] = NoIdle
        BY <3>1, <3>2
      <4> QED BY <3>1, <4>1 DEF IdleIn
    <3> QED BY <2>1, <3>2
  <2>6. "player" \notin pending /\ link = "up" => KnownOf(song, idle, rep, req', m')
    BY <2>3, <2>4, <2>5 DEF Known, KnownOf
  <2> QED BY <2>1, <2>3, <2>4, <2>6 DEF Known, Refill
<1>2. CASE Drops \/ Reconnects
  BY <1>2 DEF Drops, Reconnects, Known, Refill
<1>3. CASE Connects
  <2>1. /\ idle' = FALSE /\ pending' = {} /\ rep' = <<Ok("init")>> /\ m'.current = "init"
        /\ m' \in Variables /\ \A i \in DOMAIN req' : req'[i].c = "noidle"
    BY <1>3, Connected
  <2>2. PICK q \in Seq(Waiting) : Appended(q, m'.queue, Cmd("currentsong"))
    BY <1>3, Connected
  <2>3. ~IdleIn(m'.queue)
    BY <2>2 DEF Appended, IdleIn, Cmd
  <2>4. ~IdleIn(req')
    BY <2>1 DEF IdleIn
  <2>5. \A i \in DOMAIN rep' : rep'[i].l \notin {"status", "tags"}
    <3> DEFINE x == Ok("init")
    <3>1. x \in Lines /\ x.l = "OK"
      BY LinesAre
    <3> HIDE DEF x
    <3>2. DOMAIN <<x>> = {1} /\ <<x>>[1] = x
      BY <3>1
    <3> QED BY <2>1, <3>1, <3>2 DEF x
  <2>6. KnownOf(song', idle', rep', req', m')
    BY <2>1, <2>3, <2>4, <2>5 DEF KnownOf
  <2> QED BY <2>1, <2>3, <2>6 DEF Known, Refill
<1> QED BY <1>1, <1>2, <1>3

\* Without a connection nothing is shown
LEMMA InitKnown == ASSUME SongsAssumption, Init PROVE Known
BY DEF Init, New, Known, Refill, IdleIn

\* Every step keeps Known
LEMMA NextKnown ==
  ASSUME SongsAssumption, Session, Known, [Next]_vars
  PROVE  Known'
<1>1. CASE Serves
  BY <1>1, ServedKnown
<1>2. CASE Reads
  BY <1>2, NextSession, LinesKnown, EndKnown
<1>3. CASE UserCommands \/ Drops \/ Reconnects \/ Connects
  BY <1>3, OthersKnown
<1>4. ASSUME NEW what \in Subsystems, ServerChanges(what) PROVE Known'
  BY <1>4, ChangesKnown
<1>5. CASE UNCHANGED vars
  <2>1. UNCHANGED <<song, idle, pending, link, req, rep, m>>
    BY <1>5 DEF vars, serverVars
  <2> QED BY <2>1 DEF Known, Refill, KnownOf
<1> QED BY <1>1, <1>2, <1>3, <1>4, <1>5 DEF Next, Works, Acts

\* At rest the song and the tags at the last trigger are those of the server.
THEOREM SongIsShown == ASSUME SongsAssumption PROVE Spec => []SongShown
<1>1. Init => Session /\ Known
  BY InitSession, InitKnown
<1>2. Session /\ Known /\ [Next]_vars => (Session /\ Known)'
  BY NextSession, NextKnown
<1>3. Session /\ Known => SongShown
  BY DEF Known, KnownOf, SongShown, Quiet, TagsOf
<1> QED BY <1>1, <1>2, <1>3, PTL DEF Spec

----------------------------------------------------------------------------
(* The cover *)

Tasks == Art \cup {"currentsong"}
HasArt(q) == \E i \in DOMAIN q : q[i].c \in Art
HasSong(q) == \E i \in DOMAIN q : q[i].c = "currentsong"
OneTask(q) == \A i, j \in DOMAIN q : q[i].c \in Tasks /\ q[j].c \in Tasks => i = j
OnlyNext(q) == \A i \in DOMAIN q : q[i].c = "next"
HasChunk(p) == \E i \in DOMAIN p : p[i].l = "picture"

Chunks(c, file) == IF c = "readpicture" THEN Embedded[file] ELSE Folder[file]
HasPicture(file) == Embedded[file] > 0 \/ Folder[file] > 0

\* The chunk asked for is the next one of the song's picture: what the loader was given
\* is all before it
Fits(v, c, file, offset) ==
  /\ file = v.tags.file /\ v.received = offset /\ v.art = c
  /\ v.loader = [i \in 1..offset |-> <<file, i - 1>>]
  /\ IF offset = 0 THEN v.total = 0 ELSE v.total = Chunks(c, file) /\ offset < v.total
  /\ c = "albumart" => Embedded[file] = 0
FitIn(v, q) == \A i \in DOMAIN q : q[i].c \in Art => Fits(v, q[i].c, q[i].file, q[i].offset)

\* The cover is that of the song
Settled(v) == v.tags.file # Nil /\ HasPicture(v.tags.file) => v.cover = v.tags.file

\* The last answer to a cover command was read
Tried(v) ==
  IF v.received = 0
  THEN ~HasArt(v.queue) /\ Chunks(v.current, v.tags.file) = 0
       /\ (v.current = "albumart" => Embedded[v.tags.file] = 0)
  ELSE HasArt(v.queue) \/ v.cover = v.tags.file

\* At most one command that the cover depends on waits
InHand(up, p, v) ==
  /\ OneTask(v.queue) /\ FitIn(v, v.queue)
  /\ ~up \/ v.current = "idle" => OnlyNext(v.queue)
  /\ v.current \in Art => up /\ v.tags.file # Nil
  /\ up /\ v.current \in Tasks => ~HasSong(v.queue)
  /\ up /\ v.current = "currentsong" /\ ~Ends(p) => ~HasArt(v.queue)
  /\ ~HasArt(v.queue) /\ v.current \notin Art => Settled(v)

\* ... and none, while one is with the server
UnderWay(r, p, v) ==
  /\ FitIn(v, r) /\ (HasArt(r) => ~HasArt(v.queue))
  /\ \A i \in DOMAIN p : p[i].l \in {"tags", "picture"} => i = 1
  /\ \A i \in DOMAIN p : p[i].l = "picture" =>
       /\ ~HasArt(v.queue) /\ Fits(v, p[i].of, p[i].file, p[i].offset)
       /\ p[i].total = Chunks(p[i].of, p[i].file) /\ p[i].offset < p[i].total
  /\ v.current \in Art /\ ~HasArt(r) /\ ~HasChunk(p) => Tried(v)

Covered == ~interrupted => InHand(link = "up", rep, m) /\ (link = "up" => UnderWay(req, rep, m))

Same(v, w) ==
  /\ w.queue = v.queue /\ w.current = v.current /\ w.tags = v.tags /\ w.art = v.art /\ w.total = v.total
  /\ w.received = v.received /\ w.loader = v.loader /\ w.cover = v.cover

\* Covered is about the part of the variables that Same compares
LEMMA SameCovered ==
  ASSUME NEW v, NEW w, Same(v, w), NEW up, NEW r, NEW p
  PROVE  /\ InHand(up, p, v) => InHand(up, p, w)
         /\ UnderWay(r, p, v) => UnderWay(r, p, w)
BY DEF Same, InHand, UnderWay, FitIn, Fits, Settled, Tried

\* A command is appended to the queue
LEMMA TaskAppended ==
  ASSUME NEW q \in Seq(Waiting), NEW r \in Seq(Waiting), NEW cmd \in Waiting, cmd.c # "idle", Appended(q, r, cmd)
  PROVE  /\ HasArt(r) <=> HasArt(q) \/ cmd.c \in Art
         /\ HasSong(r) <=> HasSong(q) \/ cmd.c = "currentsong"
         /\ OnlyNext(q) /\ cmd.c = "next" => OnlyNext(r)
         /\ OneTask(q) /\ (cmd.c \in Tasks => ~HasArt(q) /\ ~HasSong(q)) => OneTask(r)
         /\ \A v : FitIn(v, q) /\ (cmd.c \in Art => Fits(v, cmd.c, cmd.file, cmd.offset)) => FitIn(v, r)
<1>1. Len(r) \in DOMAIN r /\ r[Len(r)] = cmd
  BY DEF Appended
<1>2. \A i \in DOMAIN r : i = Len(r) \/ (i \in DOMAIN q /\ r[i] = q[i])
  BY DEF Appended
<1>3. \A i \in DOMAIN q : q[i].c # "idle" => i \in DOMAIN r /\ i # Len(r) /\ r[i] = q[i]
  <2>1. \A i \in DOMAIN q : q[i].c # "idle" => i \in DOMAIN r /\ i # Len(r)
    BY DEF Appended
  <2> QED BY <2>1 DEF Appended
<1>4. HasArt(r) <=> HasArt(q) \/ cmd.c \in Art
  <2>1. \A i \in DOMAIN q : q[i].c \in Art => q[i].c # "idle"
    BY DEF Art
  <2> QED BY <1>1, <1>2, <1>3, <2>1 DEF HasArt
<1>5. HasSong(r) <=> HasSong(q) \/ cmd.c = "currentsong"
  BY <1>1, <1>2, <1>3 DEF HasSong
<1>6. OnlyNext(q) /\ cmd.c = "next" => OnlyNext(r)
  BY <1>1, <1>2 DEF OnlyNext
<1>7. OneTask(q) /\ (cmd.c \in Tasks => ~HasArt(q) /\ ~HasSong(q)) => OneTask(r)
  <2> SUFFICES ASSUME OneTask(q), cmd.c \in Tasks => ~HasArt(q) /\ ~HasSong(q),
                      NEW i \in DOMAIN r, NEW j \in DOMAIN r, r[i].c \in Tasks, r[j].c \in Tasks
               PROVE  i = j
    BY DEF OneTask
  <2>1. CASE cmd.c \in Tasks
    <3>1. \A k \in DOMAIN q : q[k].c \notin Tasks
      BY <2>1 DEF HasArt, HasSong, Tasks
    <3> QED BY <1>2, <3>1
  <2>2. CASE cmd.c \notin Tasks
    <3>1. i # Len(r) /\ j # Len(r)
      BY <1>1, <2>2
    <3> QED BY <1>2, <3>1 DEF OneTask
  <2> QED BY <2>1, <2>2
<1>8. ASSUME NEW v, FitIn(v, q), cmd.c \in Art => Fits(v, cmd.c, cmd.file, cmd.offset) PROVE FitIn(v, r)
  BY <1>1, <1>2, <1>8 DEF FitIn
<1> QED BY <1>4, <1>5, <1>6, <1>7, <1>8

\* What is left of a reply when its first line was read
LEMMA RestRead ==
  ASSUME SongsAssumption, Session, Session', Reads, UnderWay(req, rep, m)
  PROVE  /\ link = "up" /\ rep # <<>> /\ rep' = Tail(rep) /\ Write(Handled(m, Head(rep)), req)
         /\ UNCHANGED <<link, interrupted>>
         /\ 1 \in DOMAIN rep /\ Head(rep) = rep[1] /\ ~HasArt(req)
         /\ \A i \in DOMAIN rep' : rep'[i].l \notin {"tags", "picture"}
         /\ m \in Variables /\ IdleLast(m.queue) /\ req \in Seq(Commands) /\ m.queue \in Seq(Waiting)
<1>1. /\ link = "up" /\ rep # <<>> /\ rep' = Tail(rep) /\ Write(Handled(m, Head(rep)), req)
      /\ UNCHANGED <<link, interrupted>>
  BY DEF Reads
<1>2. 1 \in DOMAIN rep /\ Head(rep) = rep[1]
  BY <1>1 DEF Session, Types
<1>3. /\ \A i \in DOMAIN req : req[i].c = "noidle"
      /\ \A i \in DOMAIN rep' : rep'[i] = rep[i + 1] /\ i + 1 \in DOMAIN rep
  BY <1>1, LineRead
<1>4. \A i \in DOMAIN rep' : i + 1 # 1
  BY DEF Session, Types
<1>5. \A i \in DOMAIN rep' : rep'[i].l \notin {"tags", "picture"}
  BY <1>3, <1>4 DEF UnderWay
<1>6. ~HasArt(req)
  BY <1>3 DEF HasArt, Art
<1>7. m \in Variables /\ IdleLast(m.queue) /\ req \in Seq(Commands) /\ m.queue \in Seq(Waiting)
  BY DEF Session, Types, Variables
<1> QED BY <1>1, <1>2, <1>5, <1>6, <1>7

\* It is enough to know the plug-in's variables after the handler
LEMMA HandledCovers ==
  ASSUME SongsAssumption, Session, Session', Reads, UnderWay(req, rep, m), NEW t \in Variables,
         t = Handled(m, Head(rep)), ~HasArt(t.out), InHand(TRUE, rep', t), t.current \in Art => Tried(t)
  PROVE  Covered'
<1>1. /\ link = "up" /\ link' = link /\ ~HasArt(req) /\ req \in Seq(Commands) /\ Write(t, req)
      /\ \A i \in DOMAIN rep' : rep'[i].l \notin {"tags", "picture"}
  BY RestRead
<1>2. Same(t, m') /\ req' = req \o t.out
  BY <1>1, WritesTyped DEF Same
<1>3. ~HasArt(req')
  <2>1. t.out \in Seq(Commands)
    BY DEF Variables
  <2>2. \A i \in DOMAIN req' : req'[i].c \notin Art
    BY <1>1, <1>2, <2>1, WrittenAfter DEF HasArt
  <2> QED BY <2>2 DEF HasArt
<1>4. UnderWay(req', rep', t)
  BY <1>1, <1>3 DEF UnderWay, FitIn, HasArt
<1> QED BY <1>1, <1>2, <1>4, SameCovered DEF Covered

\* Nothing but the user's commands waits
LEMMA OnlyNextWaits ==
  ASSUME NEW q, OnlyNext(q) PROVE ~HasArt(q) /\ ~HasSong(q) /\ OneTask(q) /\ \A v : FitIn(v, q)
<1>1. \A i \in DOMAIN q : q[i].c \notin Art /\ q[i].c # "currentsong"
  BY DEF OnlyNext, Art
<1> QED BY <1>1 DEF HasArt, HasSong, OneTask, Tasks, FitIn

\* Two commands that are no cover commands are appended when only the user's wait
LEMMA StatusAppended ==
  ASSUME NEW s \in Variables, OnlyNext(s.queue), NEW t \in Variables,
         \E q \in Seq(Waiting) : Appended(s.queue, q, Cmd("status")) /\ Appended(q, t.queue, Cmd("currentsong"))
  PROVE  ~HasArt(t.queue) /\ OneTask(t.queue) /\ \A v : FitIn(v, t.queue)
<1> DEFINE a == Cmd("status")
           b == Cmd("currentsong")
<1>1. a \in Waiting /\ b \in Waiting /\ a.c = "status" /\ b.c = "currentsong"
  BY DEF Cmd, Waiting
<1> HIDE DEF a, b
<1>2. PICK q \in Seq(Waiting) : Appended(s.queue, q, a) /\ Appended(q, t.queue, b)
  BY DEF a, b
<1>3. s.queue \in Seq(Waiting) /\ t.queue \in Seq(Waiting)
  BY DEF Variables
<1>4. ~HasArt(s.queue) /\ ~HasSong(s.queue) /\ OneTask(s.queue) /\ \A v : FitIn(v, s.queue)
  BY OnlyNextWaits
<1>5. "status" \notin Tasks /\ "currentsong" \notin Art /\ "status" \notin Art
  BY DEF Tasks, Art
<1>6. ~HasArt(q) /\ ~HasSong(q) /\ OneTask(q) /\ \A v : FitIn(v, q)
  BY <1>1, <1>2, <1>3, <1>4, <1>5, TaskAppended
<1> QED BY <1>1, <1>2, <1>3, <1>5, <1>6, TaskAppended

\* A line of the reply to "idle" is read
LEMMA ChangedCovered ==
  ASSUME SongsAssumption, Session, Session', Reads, ~interrupted, Covered, Head(rep).l = "changed"
  PROVE  Covered'
<1> DEFINE line == Head(rep)
           t == Handled(m, line)
<1>1. link = "up" /\ InHand(TRUE, rep, m) /\ UnderWay(req, rep, m)
  BY DEF Covered, Reads
<1>2. m \in Variables /\ IdleLast(m.queue) /\ rep # <<>> /\ rep' = Tail(rep) /\ m.out = <<>>
  BY <1>1, RestRead DEF Session, Types
<1>3. m.current \in {"idle", Nil}
  BY <1>1, <1>2, LineRead
<1>4. t = IF m.current = "idle" THEN IdleHandle(m, line.what) ELSE m
  BY DEF Handled
<1>5. Nil \notin Tasks /\ Nil # "idle" /\ "idle" \notin Tasks
  BY DEF SongsAssumption, Names, Tasks, Art
<1> HIDE DEF t, line
<1>6. CASE m.current = "idle"
  <2>1. /\ t \in Variables /\ t.current = Nil /\ \A i \in DOMAIN t.out : t.out[i] = NoIdle
        /\ t = [m EXCEPT !.queue = t.queue, !.current = Nil, !.out = t.out]
        /\ IF line.what = "player"
           THEN \E q \in Seq(Waiting) : /\ Appended(m.queue, q, Cmd("status"))
                                        /\ Appended(q, t.queue, Cmd("currentsong"))
           ELSE t.queue = m.queue
    <3>1. \A w : LET x == IdleHandle(m, w)
                 IN  /\ x \in Variables /\ IdleLast(x.queue) /\ Kept(m.queue, x.queue)
                     /\ x.current = Nil /\ \A i \in DOMAIN x.out : x.out[i] = NoIdle
                     /\ x = [m EXCEPT !.queue = x.queue, !.current = Nil, !.out = x.out]
                     /\ IF w = "player"
                        THEN \E q \in Seq(Waiting) : /\ Appended(m.queue, q, Cmd("status"))
                                                     /\ Appended(q, x.queue, Cmd("currentsong"))
                        ELSE x.queue = m.queue
      BY <1>2, <1>6, IdleHandled, Zenon
    <3>2. t = IdleHandle(m, line.what)
      BY <1>4, <1>6
    <3> QED BY <3>1, <3>2, Zenon
  <2>2. OnlyNext(m.queue) /\ ~HasArt(m.queue)
    BY <1>1, <1>6, OnlyNextWaits DEF InHand
  <2>3. ~HasArt(t.queue) /\ OneTask(t.queue) /\ FitIn(t, t.queue)
    BY <1>2, <2>1, <2>2, OnlyNextWaits, StatusAppended
  <2>4. t.tags = m.tags /\ t.cover = m.cover
    BY <1>2, <2>1 DEF Variables
  <2>5. Settled(t)
    BY <1>1, <1>5, <1>6, <2>2, <2>4 DEF InHand, Settled, Tasks
  <2>6. InHand(TRUE, rep', t)
    BY <1>5, <2>1, <2>3, <2>5 DEF InHand, Tasks
  <2>7. ~HasArt(t.out)
    BY <2>1 DEF HasArt, NoIdle, Cmd, Art
  <2> QED BY <1>1, <1>5, <2>1, <2>6, <2>7, HandledCovers DEF t, line, Tasks
<1>7. CASE m.current = Nil
  <2>1. t = m /\ ~HasArt(m.out)
    BY <1>2, <1>4, <1>5, <1>7 DEF HasArt
  <2>2. InHand(TRUE, rep', t)
    BY <1>1, <1>5, <1>7, <2>1 DEF InHand, Tasks
  <2> QED BY <1>1, <1>2, <1>5, <1>7, <2>1, <2>2, HandledCovers DEF t, line, Tasks
<1> QED BY <1>3, <1>6, <1>7

\* A line of the reply to "status"
LEMMA StatusCovered ==
  ASSUME SongsAssumption, Session, Session', Reads, ~interrupted, Covered, Head(rep).l = "status"
  PROVE  Covered'
<1> DEFINE line == Head(rep)
           t == Handled(m, line)
<1>1. link = "up" /\ InHand(TRUE, rep, m) /\ UnderWay(req, rep, m)
  BY DEF Covered, Reads
<1>2. m \in Variables /\ rep # <<>> /\ m.out = <<>>
  BY <1>1, RestRead DEF Session, Types
<1>3. m.current = "status" /\ line.song \in Songs
  BY <1>1, <1>2, LineRead
<1>4. t = [m EXCEPT !.player = line.song]
  BY <1>3 DEF Handled
<1> HIDE DEF t, line
<1>5. t \in Variables /\ Same(m, t) /\ t.out = <<>>
  BY <1>2, <1>3, <1>4 DEF Variables, Same
<1>6. InHand(TRUE, rep', m)
  BY <1>1, <1>3 DEF InHand
<1>7. InHand(TRUE, rep', t)
  BY <1>5, <1>6, SameCovered
<1>8. t.current \notin Art /\ ~HasArt(t.out)
  BY <1>3, <1>5 DEF Same, HasArt, Art
<1> QED BY <1>1, <1>5, <1>7, <1>8, HandledCovers DEF t, line

\* A line of the reply to "currentsong"
LEMMA TagsCovered ==
  ASSUME SongsAssumption, Session, Session', Reads, ~interrupted, Covered, Head(rep).l = "tags"
  PROVE  Covered'
<1> DEFINE line == Head(rep)
           t == Handled(m, line)
<1>1. link = "up" /\ InHand(TRUE, rep, m) /\ UnderWay(req, rep, m)
  BY DEF Covered, Reads
<1>2. /\ m \in Variables /\ IdleLast(m.queue) /\ rep # <<>> /\ rep' = Tail(rep) /\ m.out = <<>>
      /\ m.queue \in Seq(Waiting) /\ line = rep[1]
      /\ \A i \in DOMAIN rep' : rep'[i].l \notin {"tags", "picture"}
  BY <1>1, RestRead DEF Session, Types
<1>3. m.current = "currentsong" /\ line.song \in Songs /\ rep' # <<>> /\ Answer(rep', "currentsong") /\ rep' \in Seq(Lines)
  BY <1>1, <1>2, LineRead
<1>4. t = TagHandle(m, line.song)
  BY <1>3 DEF Handled
<1> DEFINE of == line.song
           cmd == ArtCmd("readpicture", of, 0)
<1>5. cmd \in Waiting /\ cmd.c = "readpicture" /\ cmd.file = of /\ cmd.offset = 0
  BY <1>3 DEF ArtCmd, Waiting, Art
<1> HIDE DEF t, line, cmd
<1>6. /\ t \in Variables /\ t.current = "currentsong" /\ t.out = <<>> /\ t.cover = m.cover /\ t.tags.file = of
      /\ IF m.tags.file = of
         THEN t.queue = m.queue
         ELSE /\ t.total = 0 /\ t.received = 0 /\ t.loader = <<>> /\ t.art = "readpicture"
              /\ Appended(m.queue, t.queue, cmd)
  BY <1>2, <1>3, <1>4, TagsHandled DEF SongsAssumption, Stays, cmd
<1>7. ~HasArt(m.queue) /\ ~HasSong(m.queue) /\ OneTask(m.queue) /\ Settled(m)
  <2>1. ~Ends(rep)
    BY <1>2 DEF Ends, line
  <2> QED BY <1>1, <1>3, <2>1 DEF InHand, Tasks, Art
<1>8. Ends(rep')
  <2>1. 1 \in DOMAIN rep' /\ rep'[1] \in Lines
    BY <1>3
  <2>2. rep'[1].l \notin {"tags", "picture"} /\ rep'[1].of = "currentsong"
    <3>1. \/ rep'[1].of = "currentsong" \/ "currentsong" = "albumart" \/ "currentsong" = Nil
      BY <1>3, <2>1 DEF Answer
    <3>2. "currentsong" # Nil
      BY DEF SongsAssumption, Names
    <3> QED BY <1>2, <2>1, <3>1, <3>2
  <2>3. rep'[1].l = "OK"
    BY <2>1, <2>2 DEF Lines
  <2> QED BY <1>3, <2>3 DEF Ends
<1>9. t.current \notin Art /\ t.current # "idle" /\ ~HasArt(t.out) /\ t.queue \in Seq(Waiting)
  BY <1>6 DEF Art, HasArt, Variables
<1>10. CASE m.tags.file = of
  <2>1. ~HasArt(t.queue) /\ ~HasSong(t.queue) /\ OneTask(t.queue) /\ Settled(t)
    BY <1>6, <1>7, <1>10 DEF Settled
  <2>2. FitIn(t, t.queue)
    BY <2>1 DEF FitIn, HasArt
  <2>3. InHand(TRUE, rep', t)
    BY <1>8, <1>9, <2>1, <2>2 DEF InHand
  <2> QED BY <1>1, <1>6, <1>9, <2>3, HandledCovers DEF t, line
<1>11. CASE m.tags.file # of
  <2>1. cmd.c \in Art /\ cmd.c # "idle" /\ cmd.c # "currentsong"
    BY <1>5 DEF Art
  <2>2. Fits(t, cmd.c, cmd.file, cmd.offset)
    <3>1. <<>> = [i \in 1..0 |-> <<of, i - 1>>]
      OBVIOUS
    <3> QED BY <1>5, <1>6, <1>11, <3>1 DEF Fits
  <2>3. FitIn(t, m.queue)
    BY <1>7 DEF FitIn, HasArt
  <2>4. HasArt(t.queue) /\ ~HasSong(t.queue) /\ OneTask(t.queue) /\ FitIn(t, t.queue)
    BY <1>2, <1>5, <1>6, <1>7, <1>9, <1>11, <2>1, <2>2, <2>3, TaskAppended
  <2>5. InHand(TRUE, rep', t)
    BY <1>8, <1>9, <2>4 DEF InHand
  <2> QED BY <1>1, <1>6, <1>9, <2>5, HandledCovers DEF t, line
<1> QED BY <1>10, <1>11

\* A chunk of a picture
LEMMA PictureCovered ==
  ASSUME SongsAssumption, Session, Session', Reads, ~interrupted, Covered, Head(rep).l = "picture"
  PROVE  Covered'
<1> DEFINE line == Head(rep)
           t == Handled(m, line)
           n == line.offset
           file == line.file
<1>1. link = "up" /\ InHand(TRUE, rep, m) /\ UnderWay(req, rep, m)
  BY DEF Covered, Reads
<1>2. /\ m \in Variables /\ IdleLast(m.queue) /\ rep # <<>> /\ m.out = <<>>
      /\ m.queue \in Seq(Waiting) /\ line = rep[1] /\ 1 \in DOMAIN rep
  BY <1>1, RestRead DEF Session, Types
<1>3. m.current \in Art /\ line.of = m.current /\ line \in Lines
  BY <1>1, <1>2, LineRead
<1>4. /\ ~HasArt(m.queue) /\ Fits(m, m.current, file, n)
      /\ line.total = Chunks(m.current, file) /\ n < line.total
  BY <1>1, <1>2, <1>3 DEF UnderWay
<1>5. t = CoverHandle(m, line) /\ m.current # "idle"
  BY <1>3 DEF Handled, Art
<1>6. n \in Nat /\ line.total \in Nat /\ file \in Songs
  BY <1>3 DEF Lines
<1>7. /\ m.tags.file = file /\ m.received = n /\ m.art = m.current /\ m.total \in {0, line.total}
      /\ m.loader = [i \in 1..n |-> <<file, i - 1>>]
  BY <1>4 DEF Fits
<1> HIDE DEF t, line
<1>8. /\ Stays(m, t) /\ t.tags = m.tags /\ t.total = line.total /\ t.received = n + 1
      /\ IF n + 1 >= line.total
         THEN /\ t.queue = m.queue
              /\ Append(m.loader, <<file, n>>) = [i \in 1..line.total |-> <<file, i - 1>>] => t.cover = file
         ELSE /\ t.loader = Append(m.loader, <<file, n>>) /\ t.art = m.current
              /\ IF file = Nil THEN t.queue = m.queue
                 ELSE Appended(m.queue, t.queue, ArtCmd(m.current, file, n + 1))
  <2>1. LET x == CoverHandle(m, line)
        IN  /\ Stays(m, x) /\ x.player = m.player /\ x.tags = m.tags /\ x.shown = m.shown
            /\ m.total \in {0, line.total} =>
               /\ x.total = line.total /\ x.received = m.received + 1
               /\ IF x.received >= line.total
                  THEN /\ x.queue = m.queue
                       /\ Append(m.loader, <<line.file, line.offset>>)
                            = [i \in 1..line.total |-> <<line.file, i - 1>>] => x.cover = line.file
                  ELSE /\ x.loader = Append(m.loader, <<line.file, line.offset>>) /\ x.cover = m.cover
                       /\ x.art = m.art
                       /\ IF m.tags.file = Nil THEN x.queue = m.queue
                          ELSE Appended(m.queue, x.queue, ArtCmd(m.art, m.tags.file, x.received))
    <3>1. line.l = "picture"
      BY DEF line
    <3> QED BY <1>2, <1>3, <1>5, <3>1, ChunksHandled
  <2> QED BY <1>5, <1>7, <2>1
<1>9. t \in Variables /\ t.current = m.current /\ t.out = <<>>
  BY <1>2, <1>8 DEF Stays
<1>10. Append(m.loader, <<file, n>>) = [i \in 1..n + 1 |-> <<file, i - 1>>]
  <2> DEFINE l == [i \in 1..n |-> <<file, i - 1>>]
             x == <<file, n>>
             k == [i \in 1..n + 1 |-> <<file, i - 1>>]
  <2>1. l \in Seq(Songs \X Nat) /\ Len(l) = n /\ x \in Songs \X Nat
    BY <1>6
  <2>2. Append(l, x) \in Seq(Songs \X Nat) /\ Len(Append(l, x)) = n + 1
    BY <2>1
  <2>3. k \in Seq(Songs \X Nat) /\ Len(k) = n + 1
    BY <1>6
  <2>4. \A i \in 1..n + 1 : Append(l, x)[i] = k[i]
    <3> SUFFICES ASSUME NEW i \in 1..n + 1 PROVE Append(l, x)[i] = k[i]
      OBVIOUS
    <3>1. k[i] = <<file, i - 1>>
      OBVIOUS
    <3>2. CASE i = n + 1
      <4>1. k[i] = x
        BY <1>6, <3>1, <3>2
      <4> HIDE DEF l, x, k
      <4> QED BY <2>1, <3>2, <4>1
    <3>3. CASE i # n + 1
      <4>1. i \in 1..n /\ l[i] = <<file, i - 1>>
        BY <1>6, <3>3
      <4>2. l[i] = k[i]
        BY <3>1, <4>1
      <4> HIDE DEF l, x, k
      <4>3. Append(l, x)[i] = l[i]
        BY <2>1, <4>1
      <4> QED BY <4>2, <4>3
    <3> QED BY <3>2, <3>3
  <2> HIDE DEF l, x, k
  <2>5. Append(l, x) = k
    BY <1>6, <2>2, <2>3, <2>4, SeqEqual
  <2> QED BY <1>7, <2>5 DEF l, x, k
<1>11. /\ ~HasSong(m.queue) /\ OneTask(m.queue) /\ m.tags.file # Nil
       /\ t.current \in Art /\ t.current # "idle" /\ t.current # "currentsong" /\ ~HasArt(t.out)
  BY <1>1, <1>3, <1>9 DEF InHand, Tasks, Art, HasArt
<1>12. t.received # 0
  BY <1>6, <1>8
<1>13. CASE n + 1 >= line.total
  <2>1. line.total = n + 1
    BY <1>4, <1>6, <1>13
  <2>2. t.queue = m.queue /\ t.cover = file
    BY <1>8, <1>10, <1>13, <2>1
  <2>3. FitIn(t, t.queue)
    BY <1>4, <2>2 DEF FitIn, HasArt
  <2>4. InHand(TRUE, rep', t)
    BY <1>8, <1>11, <2>2, <2>3 DEF InHand
  <2>5. Tried(t)
    BY <1>7, <1>8, <1>12, <2>2 DEF Tried
  <2> QED BY <1>1, <1>9, <1>11, <2>4, <2>5, HandledCovers DEF t, line
<1>14. CASE ~(n + 1 >= line.total)
  <2> DEFINE cmd == ArtCmd(m.current, file, n + 1)
  <2>1. cmd \in Waiting /\ cmd.c = m.current /\ cmd.file = file /\ cmd.offset = n + 1
    BY <1>3, <1>6 DEF ArtCmd, Waiting
  <2>2. /\ t.loader = [i \in 1..n + 1 |-> <<file, i - 1>>] /\ t.art = m.current
        /\ Appended(m.queue, t.queue, cmd)
    BY <1>7, <1>8, <1>10, <1>11, <1>14
  <2> HIDE DEF cmd
  <2>3. n + 1 # 0 /\ n + 1 < line.total
    BY <1>6, <1>14
  <2>4. Fits(t, cmd.c, cmd.file, cmd.offset)
    BY <1>4, <1>7, <1>8, <2>1, <2>2, <2>3 DEF Fits
  <2>5. FitIn(t, m.queue) /\ cmd.c # "idle" /\ cmd.c # "currentsong" /\ cmd.c \in Art
    BY <1>3, <1>4, <2>1 DEF FitIn, HasArt, Art
  <2>6. t.queue \in Seq(Waiting)
    BY <1>9 DEF Variables
  <2>7. HasArt(t.queue) /\ ~HasSong(t.queue) /\ OneTask(t.queue) /\ FitIn(t, t.queue)
    BY <1>2, <1>4, <1>11, <2>1, <2>2, <2>4, <2>5, <2>6, TaskAppended
  <2>8. InHand(TRUE, rep', t)
    BY <1>8, <1>11, <2>7 DEF InHand
  <2>9. Tried(t)
    BY <1>12, <2>7 DEF Tried
  <2> QED BY <1>1, <1>9, <1>11, <2>8, <2>9, HandledCovers DEF t, line
<1> QED BY <1>13, <1>14

\* There is no picture in the file, or in the directory
LEMMA AckCovered ==
  ASSUME SongsAssumption, Session, Session', Reads, ~interrupted, Covered, Head(rep).l = "ACK"
  PROVE  Covered'
<1> DEFINE t == Handled(m, Head(rep))
           x == Cmd("clearerror")
<1>1. link = "up" /\ InHand(TRUE, rep, m) /\ UnderWay(req, rep, m)
  BY DEF Covered, Reads
<1>2. m \in Variables /\ rep # <<>> /\ rep' = Tail(rep) /\ m.out = <<>> /\ Head(rep) = rep[1] /\ 1 \in DOMAIN rep
      /\ ~HasArt(req)
  BY <1>1, RestRead DEF Session, Types
<1>3. m.current = "albumart" /\ Tail(rep) = <<>>
  BY <1>1, <1>2, LineRead
<1>4. t = [m EXCEPT !.out = Append(@, x)]
  BY DEF Handled, ErrorHandle
<1> HIDE DEF t
<1>5. x \in Commands /\ x.c = "clearerror"
  BY DEF Cmd, Commands
<1> HIDE DEF x
<1>6. Append(<<>>, x) = <<x>> /\ <<x>> \in Seq(Commands) /\ DOMAIN <<x>> = {1} /\ <<x>>[1] = x
  BY <1>5
<1>7. t \in Variables /\ Same(m, t) /\ t.out = <<x>>
  BY <1>2, <1>4, <1>6 DEF Variables, Same
<1>8. ~HasArt(t.out)
  BY <1>5, <1>6, <1>7 DEF HasArt, Art
<1>9. \A i \in DOMAIN rep : i = 1
  <2>1. rep[1].l = "ACK" /\ 1 = Len(rep)
    BY <1>1, <1>2 DEF Session, Answers, Answer
  <2> QED BY <2>1 DEF Session, Types
<1>10. ~HasChunk(rep)
  BY <1>2, <1>9 DEF HasChunk
<1>11. Tried(m) /\ InHand(TRUE, rep', m)
  BY <1>1, <1>2, <1>3, <1>10 DEF UnderWay, InHand, Art
<1>12. Tried(t) /\ InHand(TRUE, rep', t)
  <2>1. InHand(TRUE, rep', t)
    BY <1>7, <1>11, SameCovered
  <2>2. Tried(t)
    BY <1>7, <1>11 DEF Same, Tried
  <2> QED BY <2>1, <2>2
<1> QED BY <1>1, <1>7, <1>8, <1>12, HandledCovers DEF t

\* What waits, and how far the cover is, when a command is over
LEMMA CompletedCovers ==
  ASSUME SongsAssumption, Session, Session', Reads, ~interrupted, Covered, Head(rep).l = "OK"
  PROVE  LET u == Completed(m)
         IN  OneTask(u.queue) /\ FitIn(u, u.queue) /\ (~HasArt(u.queue) => Settled(u))
<1> DEFINE u == Completed(m)
<1>1. link = "up" /\ InHand(TRUE, rep, m) /\ UnderWay(req, rep, m)
  BY DEF Covered, Reads
<1>2. /\ m \in Variables /\ IdleLast(m.queue) /\ rep # <<>> /\ m.out = <<>>
      /\ m.queue \in Seq(Waiting) /\ Head(rep) = rep[1] /\ 1 \in DOMAIN rep /\ ~HasArt(req)
  BY <1>1, RestRead DEF Session, Types
<1>3. ~HasChunk(rep)
  <2>1. rep[1].l = "OK" /\ 1 = Len(rep)
    BY <1>1, <1>2 DEF Session, Answers, Answer
  <2>2. \A i \in DOMAIN rep : i = 1
    BY <2>1 DEF Session, Types
  <2> QED BY <2>1, <2>2 DEF HasChunk
<1>4. m.current \in Art => Tried(m) /\ m.tags.file # Nil /\ ~HasSong(m.queue)
  BY <1>1, <1>2, <1>3 DEF UnderWay, InHand, Tasks
<1>5. /\ Stays(m, u) /\ u.tags = m.tags /\ u.cover = m.cover
      /\ IF m.current = "readpicture" /\ m.received = 0
         THEN /\ u.total = 0 /\ u.received = 0 /\ u.loader = <<>> /\ u.art = "albumart"
              /\ IF m.tags.file = Nil THEN u.queue = m.queue
                 ELSE Appended(m.queue, u.queue, ArtCmd("albumart", m.tags.file, 0))
         ELSE /\ u.total = m.total /\ u.received = m.received /\ u.loader = m.loader
              /\ u.queue = m.queue /\ u.art = m.art
  <2> HIDE DEF u
  <2> QED BY <1>2, Completes DEF u
<1> HIDE DEF u
<1>6. u.queue \in Seq(Waiting)
  BY <1>5 DEF Stays, Variables
<1>7. CASE m.current = "readpicture" /\ m.received = 0
  <2> DEFINE cmd == ArtCmd("albumart", m.tags.file, 0)
  <2>1. m.current \in Art /\ m.tags.file \in Songs
    <3>1. m.current \in Art
      BY <1>7 DEF Art
    <3>2. m.tags.file # Nil
      BY <1>4, <3>1
    <3> QED BY <1>2, <3>1, <3>2 DEF Variables
  <2>2. cmd \in Waiting /\ cmd.c = "albumart" /\ cmd.file = m.tags.file /\ cmd.offset = 0
    BY <2>1 DEF ArtCmd, Waiting, Art
  <2>3. ~HasArt(m.queue) /\ Embedded[m.tags.file] = 0
    BY <1>4, <1>7, <2>1 DEF Tried, Chunks
  <2>4. Appended(m.queue, u.queue, cmd)
    BY <1>4, <1>5, <1>7, <2>1
  <2> HIDE DEF cmd
  <2>5. Fits(u, cmd.c, cmd.file, cmd.offset)
    <3>1. \A file : <<>> = [i \in 1..0 |-> <<file, i - 1>>]
      OBVIOUS
    <3> QED BY <1>5, <1>7, <2>2, <2>3, <3>1 DEF Fits
  <2>6. FitIn(u, m.queue) /\ OneTask(m.queue) /\ cmd.c \in Art /\ cmd.c # "idle" /\ ~HasSong(m.queue)
    BY <1>1, <1>4, <2>1, <2>2, <2>3 DEF FitIn, HasArt, InHand, Art
  <2>7. OneTask(u.queue) /\ FitIn(u, u.queue) /\ HasArt(u.queue)
    BY <1>2, <1>6, <2>2, <2>3, <2>4, <2>5, <2>6, TaskAppended
  <2> QED BY <2>7 DEF u
<1>8. CASE ~(m.current = "readpicture" /\ m.received = 0)
  <2>1. OneTask(u.queue) /\ FitIn(u, u.queue)
    <3>1. OneTask(m.queue) /\ FitIn(m, m.queue)
      BY <1>1 DEF InHand
    <3>2. /\ u.total = m.total /\ u.received = m.received /\ u.loader = m.loader
          /\ u.queue = m.queue /\ u.art = m.art /\ u.tags = m.tags
      BY <1>5, <1>8
    <3>3. \A c, file, offset : Fits(m, c, file, offset) => Fits(u, c, file, offset)
      BY <3>2 DEF Fits
    <3> HIDE DEF Fits
    <3> QED BY <3>1, <3>2, <3>3 DEF FitIn
  <2>2. ~HasArt(u.queue) => Settled(u)
    <3> SUFFICES ASSUME ~HasArt(m.queue) PROVE Settled(m)
      BY <1>5, <1>8 DEF Settled
    <3>1. CASE m.current \notin Art
      BY <1>1, <3>1 DEF InHand
    <3>2. CASE m.current \in Art /\ m.received = 0
      <4>1. m.current = "albumart"
        BY <1>8, <3>2 DEF Art
      <4>2. Folder[m.tags.file] = 0 /\ Embedded[m.tags.file] = 0
        BY <1>4, <3>2, <4>1 DEF Tried, Chunks
      <4> QED BY <4>2 DEF Settled, HasPicture
    <3>3. CASE m.current \in Art /\ m.received # 0
      BY <1>4, <3>3 DEF Tried, Settled
    <3> QED BY <3>1, <3>2, <3>3
  <2> QED BY <2>1, <2>2 DEF u
<1> QED BY <1>7, <1>8

\* The end of a reply, and with it the next command
LEMMA EndCovered ==
  ASSUME SongsAssumption, Session, Session', Reads, ~interrupted, Covered, Head(rep).l = "OK"
  PROVE  Covered'
<1> DEFINE line == Head(rep)
           t == Handled(m, line)
           u == Completed(m)
           q == IF u.queue = <<>> THEN <<Cmd("status"), Cmd("currentsong"), Idle>> ELSE u.queue
<1>1. /\ link = "up" /\ InHand(TRUE, rep, m) /\ UnderWay(req, rep, m)
      /\ rep # <<>> /\ rep' = Tail(rep) /\ Write(t, req) /\ UNCHANGED <<link, interrupted>>
  BY DEF Covered, Reads
<1>2. /\ rep' = <<>> /\ ~HasArt(req) /\ req \in Seq(Commands)
  BY <1>1, LineRead, RestRead
<1>3. /\ u \in Variables /\ t \in Variables /\ Sends(q, u, t) /\ q \in Seq(Waiting) /\ Head(q) \in Waiting
      /\ Head(q).c = "idle" => t.queue = <<>>
  BY <1>1, EndHandled
<1>4. OneTask(u.queue) /\ FitIn(u, u.queue) /\ (~HasArt(u.queue) => Settled(u))
  BY CompletedCovers
<1>5. OneTask(q) /\ FitIn(u, q) /\ (~HasArt(q) => Settled(u))
  <2>1. CASE u.queue = <<>>
    <3> DEFINE a == Cmd("status")
               b == Cmd("currentsong")
               c == Idle
    <3>1. q = <<a, b, c>>
      BY <2>1
    <3>2. /\ a \in Waiting /\ b \in Waiting /\ c \in Waiting
          /\ a.c = "status" /\ b.c = "currentsong" /\ c.c = "idle"
      BY DEF Cmd, Idle, Waiting
    <3> HIDE DEF a, b, c, q
    <3>3. Len(q) = 3 /\ q[1] = a /\ q[2] = b /\ q[3] = c
      BY <3>1, <3>2, Three
    <3>4. \A i \in DOMAIN q : i \in {1, 2, 3}
      BY <1>3, <3>3
    <3>5. \A i \in DOMAIN q : q[i].c \notin Art /\ (q[i].c \in Tasks => i = 2)
      BY <3>2, <3>3, <3>4 DEF Tasks, Art
    <3>6. ~HasArt(u.queue)
      BY <2>1 DEF HasArt
    <3> QED BY <1>4, <3>5, <3>6 DEF OneTask, FitIn
  <2>2. CASE u.queue # <<>>
    <3>1. q = u.queue
      BY <2>2
    <3> HIDE DEF u, q
    <3> QED BY <1>4, <3>1
  <2> QED BY <2>1, <2>2
<1> DEFINE x == Head(q)
<1> HIDE DEF t, line, u, q
<1>6. q # <<>> /\ t.current = x.c /\ t.queue = Tail(q) /\ t.out = <<x>>
  BY <1>3 DEF Sends
<1>7. /\ t.tags = u.tags /\ t.cover = u.cover /\ t.art = u.art /\ t.total = u.total
      /\ t.received = u.received /\ t.loader = u.loader
  BY <1>3 DEF Sends, Variables
<1>8. /\ 1 \in DOMAIN q /\ x = q[1]
      /\ \A i \in DOMAIN t.queue : i + 1 \in DOMAIN q /\ t.queue[i] = q[i + 1] /\ i + 1 # 1 /\ i \in Nat
      /\ \A i \in DOMAIN q : i # 1 => i - 1 \in DOMAIN t.queue /\ t.queue[i - 1] = q[i]
  <2>1. Len(q) \in Nat \ {0} /\ Len(t.queue) = Len(q) - 1 /\ DOMAIN q = 1..Len(q) /\ DOMAIN t.queue = 1..Len(t.queue)
    BY <1>3, <1>6
  <2>2. x = q[1] /\ \A i \in 1..Len(q) - 1 : t.queue[i] = q[i + 1]
    BY <1>3, <1>6
  <2> DEFINE p == t.queue
             n == Len(q)
  <2> HIDE DEF x, p, n
  <2>3. /\ n \in Nat \ {0} /\ Len(p) = n - 1 /\ DOMAIN q = 1..n /\ DOMAIN p = 1..n - 1
        /\ x = q[1] /\ \A i \in 1..n - 1 : p[i] = q[i + 1]
    BY <2>1, <2>2 DEF p, n
  <2>4. \A i \in DOMAIN p : i + 1 \in DOMAIN q /\ p[i] = q[i + 1] /\ i + 1 # 1 /\ i \in Nat
    BY <2>3
  <2>5. ASSUME NEW i \in DOMAIN q, i # 1 PROVE i - 1 \in DOMAIN p /\ p[i - 1] = q[i]
    <3>1. i \in 1..n
      BY <2>3
    <3>2. i - 1 \in 1..n - 1 /\ (i - 1) + 1 = i
      <4> HIDE DEF n
      <4>1. n \in Nat
        BY <2>3
      <4> QED BY <2>5, <3>1, <4>1
    <3> QED BY <2>3, <3>2
  <2>6. 1 \in DOMAIN q /\ x = q[1]
    BY <2>3
  <2> QED BY <2>4, <2>5, <2>6 DEF p
<1> HIDE DEF x
<1>9. x \in Waiting
  BY <1>3 DEF x
<1>10. x.c \in Tasks => ~HasArt(t.queue) /\ ~HasSong(t.queue)
  <2> SUFFICES ASSUME x.c \in Tasks, NEW i \in DOMAIN t.queue, t.queue[i].c \in Tasks PROVE FALSE
    BY DEF HasArt, HasSong, Tasks
  <2>1. i + 1 \in DOMAIN q /\ q[i + 1].c \in Tasks /\ i + 1 # 1
    BY <1>8
  <2> QED BY <1>5, <1>8, <2>1 DEF OneTask
<1>11. OneTask(t.queue) /\ FitIn(t, t.queue) /\ FitIn(t, q)
  <2>1. FitIn(t, q)
    BY <1>5, <1>7 DEF FitIn, Fits
  <2>2. FitIn(t, t.queue)
    BY <1>8, <2>1 DEF FitIn
  <2>3. OneTask(t.queue)
    <3> SUFFICES ASSUME NEW i \in DOMAIN t.queue, NEW j \in DOMAIN t.queue,
                        t.queue[i].c \in Tasks, t.queue[j].c \in Tasks
                 PROVE  i = j
      BY DEF OneTask
    <3>1. i + 1 = j + 1
      BY <1>5, <1>8 DEF OneTask
    <3> QED BY <1>8, <3>1
  <2> QED BY <2>1, <2>2, <2>3
<1>12. x.c \in Art => Fits(t, x.c, x.file, x.offset) /\ t.tags.file # Nil
  <2> SUFFICES ASSUME x.c \in Art PROVE Fits(t, x.c, x.file, x.offset) /\ t.tags.file # Nil
    OBVIOUS
  <2>1. Fits(t, x.c, x.file, x.offset)
    BY <1>8, <1>11 DEF FitIn
  <2>2. x.file \in Songs
    BY <1>9 DEF Waiting, Art
  <2> QED BY <2>1, <2>2 DEF Fits, SongsAssumption
<1>13. ~HasArt(t.queue) /\ x.c \notin Art => Settled(t)
  <2> SUFFICES ASSUME ~HasArt(t.queue), x.c \notin Art PROVE Settled(t)
    OBVIOUS
  <2>1. ~HasArt(q)
    BY <1>8 DEF HasArt
  <2> QED BY <1>5, <1>7, <2>1 DEF Settled
<1>14. InHand(TRUE, rep', t)
  <2>1. x.c = "idle" => OnlyNext(t.queue)
    BY <1>3 DEF OnlyNext, x
  <2>2. x.c \in Art => x.c \in Tasks
    BY DEF Tasks
  <2>3. x.c = "currentsong" => x.c \in Tasks
    BY DEF Tasks
  <2> QED BY <1>6, <1>10, <1>11, <1>12, <1>13, <2>1, <2>2, <2>3 DEF InHand
<1>15. Same(t, m') /\ req' = req \o <<x>>
  BY <1>1, <1>2, <1>3, <1>6, WritesTyped DEF Same
<1>16. /\ \A i \in DOMAIN req' : req'[i].c \in Art => req'[i] = x
       /\ HasArt(req') <=> x.c \in Art
  <2>1. <<x>> \in Seq(Commands) /\ DOMAIN <<x>> = {1} /\ <<x>>[1] = x
    BY <1>9 DEF Commands
  <2>2. /\ \A i \in DOMAIN req' : (i \in DOMAIN req /\ req'[i] = req[i]) \/ req'[i] = x
        /\ Len(req) + 1 \in DOMAIN req' /\ req'[Len(req) + 1] = x
    <3>1. /\ \A i \in DOMAIN req : i \in DOMAIN req' /\ req'[i] = req[i]
          /\ \A i \in DOMAIN <<x>> : Len(req) + i \in DOMAIN req' /\ req'[Len(req) + i] = <<x>>[i]
          /\ \A i \in DOMAIN req' :
               \/ i \in DOMAIN req
               \/ i > Len(req) /\ i - Len(req) \in DOMAIN <<x>> /\ req'[i] = <<x>>[i - Len(req)]
      BY <1>2, <1>15, <2>1, WrittenAfter
    <3> QED BY <2>1, <3>1
  <2>3. \A i \in DOMAIN req' : req'[i].c \in Art => req'[i] = x
    BY <1>2, <2>2 DEF HasArt
  <2> QED BY <2>2, <2>3 DEF HasArt
<1>17. UnderWay(req', rep', t)
  <2>1. FitIn(t, req') /\ (HasArt(req') => ~HasArt(t.queue))
    BY <1>10, <1>12, <1>16 DEF FitIn, Tasks
  <2> QED BY <1>2, <1>6, <1>16, <2>1 DEF UnderWay
<1> QED BY <1>1, <1>14, <1>15, <1>17, SameCovered DEF Covered

\* The server's step
LEMMA ServedCovered ==
  ASSUME SongsAssumption, Session, Covered, Serves
  PROVE  Covered'
<1> SUFFICES ASSUME ~interrupted' PROVE Covered'
  BY DEF Covered
<1> DEFINE r == Head(req)
<1>1. link = "up" /\ req # <<>> /\ req' = Tail(req) /\ UNCHANGED <<m, link, interrupted>>
  BY Served
<1>2. InHand(TRUE, rep, m) /\ UnderWay(req, rep, m)
  BY <1>1 DEF Covered
<1>3. /\ r = req[1] /\ 1 \in DOMAIN req
      /\ \A i \in DOMAIN req' : i + 1 \in DOMAIN req /\ req'[i] = req[i + 1]
      /\ \A i \in DOMAIN req : i # 1 => i - 1 \in DOMAIN req' /\ req'[i - 1] = req[i]
      /\ r.c # "noidle" =>
           /\ rep = <<>> /\ ~idle
           /\ r.c = m.current \/ (r.c = "clearerror" /\ m.current = "albumart")
           /\ \A i \in DOMAIN req' : req'[i].c = "noidle"
  <2>1. 1 \in DOMAIN req /\ req \in Seq(Commands) /\ req' \in Seq(Commands) /\ Len(req') = Len(req) - 1
    BY <1>1, NextRead DEF Session, Types
  <2>2. /\ r = req[1]
        /\ \A i \in DOMAIN req' : i + 1 \in DOMAIN req /\ req'[i] = req[i + 1]
        /\ r.c # "noidle" =>
             /\ rep = <<>> /\ ~idle
             /\ r.c = m.current \/ (r.c = "clearerror" /\ m.current = "albumart")
             /\ \A i \in DOMAIN req' : req'[i].c = "noidle"
    BY <1>1, NextRead
  <2>3. ASSUME NEW i \in DOMAIN req, i # 1 PROVE i - 1 \in DOMAIN req' /\ req'[i - 1] = req[i]
    <3>1. i - 1 \in DOMAIN req' /\ (i - 1) + 1 = i
      BY <2>1, <2>3
    <3> QED BY <2>2, <3>1
  <2> QED BY <2>1, <2>2, <2>3
<1>4. FitIn(m, req') /\ (HasArt(req') => ~HasArt(m.queue))
  BY <1>2, <1>3 DEF UnderWay, FitIn, HasArt
<1> HIDE DEF r
\* An answer that is nothing to the cover
<1>5. ASSUME r.c \notin Art, m.current = "currentsong" /\ ~Ends(rep') => ~HasArt(m.queue),
             \A i \in DOMAIN rep' : rep'[i].l # "picture" /\ (rep'[i].l = "tags" => i = 1),
             m.current \in Art => rep = <<>> \/ rep' = rep
      PROVE  Covered'
  <2>1. InHand(TRUE, rep', m)
    BY <1>2, <1>5 DEF InHand
  <2>2. m.current \in Art /\ ~HasArt(req') /\ ~HasChunk(rep') => Tried(m)
    <3> SUFFICES ASSUME m.current \in Art, ~HasArt(req') PROVE Tried(m)
      OBVIOUS
    <3>1. ~HasArt(req)
      BY <1>3, <1>5 DEF HasArt
    <3>2. ~HasChunk(rep)
      BY <1>5 DEF HasChunk
    <3> QED BY <1>2, <3>1, <3>2 DEF UnderWay
  <2>3. UnderWay(req', rep', m)
    BY <1>4, <1>5, <2>2 DEF UnderWay
  <2> QED BY <1>1, <2>1, <2>3 DEF Covered
<1>6. CASE r.c = "noidle" /\ ~idle
  <2>1. rep' = rep
    BY <1>6, Served DEF r
  <2>2. InHand(TRUE, rep', m) /\ UnderWay(req', rep', m)
    <3>1. HasArt(req') <=> HasArt(req)
      BY <1>3, <1>6 DEF HasArt, Art
    <3> QED BY <1>2, <1>4, <2>1, <3>1 DEF UnderWay
  <2> QED BY <1>1, <2>2 DEF Covered
<1>7. CASE (r.c = "noidle" /\ idle) \/ r.c = "next" \/ r.c = "clearerror"
  <2>1. PICK c \in Names : rep' = <<Ok(c)>>
    BY <1>7, Served DEF r, Names
  <2>2. Ok(c) \in Lines /\ Ok(c).l = "OK"
    BY LinesAre
  <2> DEFINE a == Ok(c)
  <2> HIDE DEF a
  <2>3. DOMAIN rep' = {1} /\ rep'[1] = a
    BY <2>1, <2>2 DEF a
  <2>4. m.current # "currentsong" /\ r.c \notin Art /\ (m.current \in Art => rep = <<>>)
    <3>1. CASE r.c = "noidle" /\ idle
      <4>1. m.current = "idle"
        BY <1>1, <3>1 DEF Session, Busy
      <4> QED BY <3>1, <4>1 DEF Art
    <3>2. CASE r.c # "noidle"
      BY <1>3, <1>7, <3>2 DEF Art
    <3> QED BY <1>7, <3>1, <3>2
  <2> QED BY <1>5, <2>2, <2>3, <2>4 DEF a
<1>8. CASE r.c = "idle"
  <2>1. m.current = "idle" /\ rep = <<>> /\ pending \in SUBSET Subsystems
    BY <1>3, <1>8 DEF Session, Types
  <2>2. rep' = rep \/ rep' = ChangedReply(InOrder(pending))
    BY <1>8, Served DEF r
  <2>3. \A i \in DOMAIN rep' : rep'[i].l \notin {"picture", "tags"}
    <3>1. CASE rep' = rep
      BY <2>1, <3>1
    <3>2. CASE rep' = ChangedReply(InOrder(pending))
      BY <2>1, <3>2, ChangesTold
    <3> QED BY <2>2, <3>1, <3>2
  <2> QED BY <1>5, <1>8, <2>1, <2>3 DEF Art
<1>9. CASE r.c \in {"status", "currentsong"}
  <2> DEFINE a == IF r.c = "status" THEN Status(song) ELSE Tags(song)
             b == Ok(r.c)
  <2>1. rep' = <<a, b>>
    <3>1. rep' = (IF r.c = "status" THEN <<Status(song), Ok("status")>> ELSE <<Tags(song), Ok("currentsong")>>)
      BY <1>9, Served DEF r
    <3> QED BY <1>9, <3>1
  <2>2. a \in Lines /\ b \in Lines /\ a.l \notin {"OK", "picture"} /\ b.l = "OK"
    <3>1. song \in Songs
      BY DEF Session, Types
    <3> QED BY <1>9, <3>1, LinesAre DEF Names
  <2> HIDE DEF a, b
  <2>3. DOMAIN rep' = {1, 2} /\ rep'[1] = a /\ rep'[2] = b
    BY <2>1, <2>2
  <2>4. m.current = "currentsong" => ~HasArt(m.queue)
    <3>1. ~Ends(rep)
      BY <1>3, <1>9 DEF Ends
    <3> QED BY <1>2, <3>1 DEF InHand
  <2>5. r.c \notin Art /\ rep = <<>>
    BY <1>3, <1>9 DEF Art
  <2> QED BY <1>5, <2>2, <2>3, <2>4, <2>5
<1>10. CASE r.c \in Art
  <2> DEFINE n == Chunks(r.c, r.file)
             none == IF r.c = "readpicture" THEN Ok(r.c) ELSE Ack(r.c)
             a == Picture(r.c, r.file, r.offset, n)
             b == Ok(r.c)
  <2>1. rep' = PictureReply(r, n, none) /\ r.file \in Songs /\ r.offset \in Nat
    <3>1. CASE r.c = "readpicture"
      BY <3>1, Served DEF Chunks, r
    <3>2. CASE r.c = "albumart"
      BY <3>2, Served DEF Chunks, r
    <3> QED BY <1>10, <3>1, <3>2 DEF Art
  <2>2. n \in Nat
    BY <1>10, <2>1 DEF SongsAssumption, Chunks
  <2>3. /\ a \in Lines /\ b \in Lines /\ none \in Lines
        /\ a.l = "picture" /\ b.l = "OK" /\ none.l \in {"OK", "ACK"}
        /\ a.of = r.c /\ a.file = r.file /\ a.offset = r.offset /\ a.total = n
    BY <1>10, <2>1, <2>2, LinesAre DEF Art, Names
  <2>4. rep' = IF n = 0 THEN <<none>> ELSE <<a, b>>
    BY <1>10, <2>1, <2>2, PictureLines
  <2>5. ~HasArt(m.queue) /\ Fits(m, r.c, r.file, r.offset) /\ m.current = r.c
    BY <1>2, <1>3, <1>10 DEF UnderWay, FitIn, HasArt, Art
  <2>6. InHand(TRUE, rep', m)
    BY <1>2, <1>10, <2>5 DEF InHand, Art
  <2>7. FitIn(m, req') /\ ~HasArt(req')
    BY <1>3, <1>4, <1>10 DEF HasArt, Art
  <2>8. UnderWay(req', rep', m)
    <3>1. CASE n = 0
      <4> HIDE DEF a, b, none
      <4>1. DOMAIN rep' = {1} /\ rep'[1] = none
        BY <2>3, <2>4, <3>1
      <4>2. Tried(m)
        <5>1. r.offset = 0
          BY <2>1, <2>5, <3>1 DEF Fits
        <5> QED BY <2>5, <3>1, <5>1 DEF Fits, Tried
      <4> QED BY <2>3, <2>7, <4>1, <4>2 DEF UnderWay
    <3>2. CASE n # 0
      <4>1. r.offset < n
        <5> HIDE DEF n
        <5>1. r.offset # 0 => m.total = n /\ r.offset < m.total
          BY <2>5 DEF Fits, n
        <5> QED BY <2>1, <2>2, <3>2, <5>1
      <4> HIDE DEF a, b, none
      <4>2. DOMAIN rep' = {1, 2} /\ rep'[1] = a /\ rep'[2] = b
        BY <2>3, <2>4, <3>2
      <4>3. HasChunk(rep')
        BY <2>3, <4>2 DEF HasChunk
      <4> QED BY <2>3, <2>5, <2>7, <4>1, <4>2, <4>3 DEF UnderWay
    <3> QED BY <3>1, <3>2
  <2> QED BY <1>1, <2>6, <2>8 DEF Covered
<1>11. r.c \in {"noidle", "idle", "next", "status", "currentsong", "clearerror"} \cup Art
  BY Served DEF Art, r
<1> QED BY <1>6, <1>7, <1>8, <1>9, <1>10, <1>11

\* The user's commands
LEMMA UserCovered ==
  ASSUME SongsAssumption, Session, Covered, UserCommands
  PROVE  Covered'
<1> DEFINE cmd == Next_(cmds + 1)
           q == CmdAppend(m, cmd).queue
<1>1. /\ Appended(m.queue, q, cmd) /\ m' = [m EXCEPT !.queue = q] /\ q \in Seq(Waiting)
      /\ IF link = "up" /\ m.current = "idle" THEN req' = Append(req, NoIdle) ELSE req' = req
      /\ UNCHANGED <<link, rep, interrupted>>
  <2> DEFINE t == CmdAppend(m, cmd)
  <2>1. /\ t \in Variables /\ Appended(m.queue, t.queue, cmd) /\ m' = [m EXCEPT !.queue = t.queue]
        /\ IF link = "up" /\ m.current = "idle" THEN req' = Append(req, NoIdle) ELSE req' = req
        /\ UNCHANGED <<link, rep, interrupted>>
    BY UserCommanded
  <2> HIDE DEF t
  <2>2. t.queue \in Seq(Waiting)
    BY <2>1 DEF Variables
  <2> QED BY <2>1, <2>2 DEF t
<1>2. cmd \in Waiting /\ cmd.c = "next" /\ m.queue \in Seq(Waiting)
  BY DEF Next_, Waiting, Session, Types, Variables
<1> HIDE DEF cmd, q
<1>3. cmd.c \notin Tasks /\ cmd.c \notin Art /\ cmd.c # "idle" /\ cmd.c # "currentsong"
  BY <1>2 DEF Tasks, Art
<1>4. /\ m'.queue = q /\ m'.current = m.current /\ m'.tags = m.tags /\ m'.art = m.art /\ m'.total = m.total
      /\ m'.received = m.received /\ m'.loader = m.loader /\ m'.cover = m.cover
  BY <1>1 DEF Session, Types, Variables
<1>5. /\ HasArt(q) <=> HasArt(m.queue)
      /\ HasSong(q) <=> HasSong(m.queue)
      /\ OnlyNext(m.queue) => OnlyNext(q)
      /\ OneTask(m.queue) => OneTask(q)
      /\ \A v : FitIn(v, m.queue) => FitIn(v, q)
  BY <1>1, <1>2, <1>3, TaskAppended
<1>6. \A r : FitIn(m, r) => FitIn(m', r)
  BY <1>4 DEF FitIn, Fits
<1>7. ASSUME ~interrupted PROVE InHand(link = "up", rep, m')
  <2>1. InHand(link = "up", rep, m)
    BY <1>7 DEF Covered
  <2> QED BY <1>4, <1>5, <1>6, <2>1 DEF InHand, Settled
<1>8. \A i \in DOMAIN req' : (i \in DOMAIN req /\ req'[i] = req[i]) \/ req'[i].c \notin Art
  <2> DEFINE x == NoIdle
  <2>1. x.c \notin Art /\ x \in Commands /\ req \in Seq(Commands)
    BY DEF NoIdle, Cmd, Commands, Art, Session, Types
  <2> HIDE DEF x
  <2>2. \A i \in DOMAIN Append(req, x) : (i \in DOMAIN req /\ Append(req, x)[i] = req[i]) \/ Append(req, x)[i] = x
    BY <2>1
  <2> QED BY <1>1, <2>1, <2>2 DEF x
<1>9. ASSUME ~interrupted, link = "up" PROVE UnderWay(req', rep, m')
  <2>1. UnderWay(req, rep, m)
    BY <1>9 DEF Covered
  <2>2. FitIn(m, req')
    BY <1>8, <2>1 DEF UnderWay, FitIn
  <2>3. HasArt(req') => HasArt(req)
    BY <1>8 DEF HasArt
  <2>4. \A c, file, offset : Fits(m, c, file, offset) => Fits(m', c, file, offset)
    BY <1>4 DEF Fits
  <2>5. Tried(m) => Tried(m')
    BY <1>4, <1>5 DEF Tried
  <2>6. HasArt(req) => HasArt(req')
    <3>1. CASE req' = req
      BY <3>1
    <3>2. CASE req' # req
      <4>1. m.current = "idle"
        BY <1>1, <3>2
      <4>2. \A i \in DOMAIN req : req[i].c \notin Art
        BY <1>9, <4>1 DEF Session, AskedOnce, Art
      <4> QED BY <4>2 DEF HasArt
    <3> QED BY <3>1, <3>2
  <2> QED BY <1>4, <1>5, <1>6, <2>1, <2>2, <2>3, <2>4, <2>5, <2>6 DEF UnderWay
<1> QED BY <1>1, <1>7, <1>9 DEF Covered

\* What happens to the connection
LEMMA LinkCovered ==
  ASSUME SongsAssumption, Session, Covered, Drops \/ Reconnects \/ Connects
  PROVE  Covered'
<1> SUFFICES ASSUME ~interrupted' PROVE Covered'
  BY DEF Covered
<1>1. CASE Drops
  <2>1. /\ ~interrupted /\ m.queue = <<>> /\ m.current \notin Art /\ m' = m
        /\ link = "up" /\ link' = "closed"
    BY <1>1 DEF Drops
  <2>2. OnlyNext(m.queue)
    BY <2>1 DEF OnlyNext
  <2>3. InHand(FALSE, rep', m)
    BY <2>1, <2>2 DEF Covered, InHand
  <2> QED BY <2>1, <2>3 DEF Covered
<1>2. CASE Reconnects
  <2>1. ~interrupted /\ m' = m /\ link = "closed" /\ link' = "down"
    BY <1>2 DEF Reconnects
  <2>2. InHand(FALSE, rep', m)
    BY <2>1 DEF Covered, InHand
  <2> QED BY <2>1, <2>2 DEF Covered
<1>3. CASE Connects
  <2>1. /\ link = "down" /\ link' = "up" /\ rep' = <<Ok("init")>> /\ ~interrupted
        /\ m' \in Variables /\ m'.current = "init"
        /\ m' = [m EXCEPT !.queue = m'.queue, !.current = "init"]
        /\ \A i \in DOMAIN req' : req'[i].c = "noidle"
    BY <1>3, Connected
  <2>2. m \in Variables /\ OnlyNext(m.queue) /\ ~HasArt(m.queue) /\ m.current \notin Art /\ Settled(m)
    <3>1. m \in Variables /\ OnlyNext(m.queue) /\ m.current \notin Art
      BY <2>1 DEF Session, Types, Covered, InHand
    <3>2. ~HasArt(m.queue)
      BY <3>1, OnlyNextWaits
    <3> QED BY <2>1, <3>1, <3>2 DEF Covered, InHand
  <2>3. \E q \in Seq(Waiting) :
          Appended(m.queue, q, Cmd("status")) /\ Appended(q, m'.queue, Cmd("currentsong"))
    BY <1>3, Connected
  <2>4. ~HasArt(m'.queue) /\ OneTask(m'.queue) /\ FitIn(m', m'.queue)
    BY <2>1, <2>2, <2>3, StatusAppended
  <2>5. m'.tags = m.tags /\ m'.cover = m.cover
    BY <2>1, <2>2 DEF Variables
  <2>6. InHand(TRUE, rep', m')
    <3>1. Settled(m')
      BY <2>2, <2>5 DEF Settled
    <3> QED BY <2>1, <2>4, <3>1 DEF InHand, Tasks, Art
  <2>7. UnderWay(req', rep', m')
    <3>1. ~HasArt(req') /\ FitIn(m', req')
      BY <2>1 DEF HasArt, FitIn, Art
    <3> DEFINE x == Ok("init")
    <3>2. x \in Lines /\ x.l = "OK"
      BY LinesAre
    <3> HIDE DEF x
    <3>3. DOMAIN rep' = {1} /\ rep'[1] = x
      BY <2>1, <3>2 DEF x
    <3> QED BY <2>1, <3>1, <3>2, <3>3 DEF UnderWay, Art
  <2> QED BY <2>1, <2>6, <2>7 DEF Covered
<1> QED BY <1>1, <1>2, <1>3

\* The song changes, or the playlist
LEMMA ChangesCovered ==
  ASSUME Session, Covered, NEW what \in Subsystems, ServerChanges(what)
  PROVE  Covered'
<1>1. UNCHANGED <<link, req, m, interrupted>> /\ Notifies({what}, <<>>)
  BY DEF ServerChanges
<1>2. {what} \in SUBSET Subsystems /\ rep \in Seq(Lines)
  BY DEF Session, Types
<1>3. CASE link # "up"
  BY <1>1, <1>3 DEF Covered, InHand
<1>4. CASE link = "up" /\ idle
  <2> DEFINE p == ChangedReply(InOrder({what}))
  <2>1. p \in Seq(Lines) /\ \A i \in DOMAIN p : p[i].l \notin {"tags", "picture"}
    BY <1>2, ChangesTold
  <2>2. rep' = rep \o <<>> \o p
    BY <1>1, <1>4 DEF Notifies
  <2> HIDE DEF p
  <2>3. rep = <<>> /\ m.current = "idle"
    BY <1>4 DEF Session, Answers, Busy
  <2>4. rep' = p
    BY <2>1, <2>2, <2>3
  <2>5. ~interrupted => InHand(TRUE, rep', m) /\ UnderWay(req, rep', m)
    BY <1>4, <2>1, <2>3, <2>4 DEF Covered, InHand, UnderWay, Art
  <2> QED BY <1>1, <1>4, <2>5 DEF Covered
<1>5. CASE link = "up" /\ ~idle
  <2>1. rep' = rep \o <<>>
    BY <1>1, <1>5 DEF Notifies
  <2>2. rep' = rep
    BY <1>2, <2>1
  <2> QED BY <1>1, <2>2 DEF Covered
<1> QED BY <1>3, <1>4, <1>5

\* There is no picture at first
LEMMA InitCovered == ASSUME SongsAssumption, Init PROVE Covered
<1>1. m = New /\ link = "down"
  BY DEF Init
<1>2. OnlyNext(New.queue) /\ New.current \notin Art /\ Settled(New)
  BY DEF New, OnlyNext, Settled, SongsAssumption, Names
<1>3. InHand(FALSE, rep, New)
  BY <1>2, OnlyNextWaits DEF InHand
<1> QED BY <1>1, <1>3 DEF Covered

\* Every step keeps Covered
LEMMA NextCovered ==
  ASSUME SongsAssumption, Session, Covered, [Next]_vars
  PROVE  Covered'
<1>1. CASE Serves
  BY <1>1, ServedCovered
<1>2. CASE Reads
  <2>1. CASE interrupted
    BY <1>2, <2>1 DEF Reads, Covered
  <2>2. CASE ~interrupted
    <3>1. Session' /\ Head(rep).l \in {"changed", "status", "tags", "picture", "OK", "ACK"}
      BY <1>2, NextSession, LineRead DEF Reads, Next, Works
    <3> QED BY <1>2, <2>2, <3>1, ChangedCovered, StatusCovered, TagsCovered, PictureCovered, EndCovered, AckCovered
  <2> QED BY <2>1, <2>2
<1>3. CASE UserCommands
  BY <1>3, UserCovered
<1>4. CASE Drops \/ Reconnects \/ Connects
  BY <1>4, LinkCovered
<1>5. ASSUME NEW what \in Subsystems, ServerChanges(what) PROVE Covered'
  BY <1>5, ChangesCovered
<1>6. CASE UNCHANGED vars
  <2>1. UNCHANGED <<link, req, rep, m, interrupted>>
    BY <1>6 DEF vars
  <2> QED BY <2>1 DEF Covered
<1> QED BY <1>1, <1>2, <1>3, <1>4, <1>5, <1>6 DEF Next, Works, Acts

\* At rest nothing is on its way, so that what is covered is there
LEMMA CoverMeans ==
  ASSUME SongsAssumption, Session, Known, Covered
  PROVE  SongShown /\ CoverShown
<1>1. SongShown
  BY DEF Known, KnownOf, SongShown, Quiet, TagsOf
<1>2. CoverShown
  <2> SUFFICES ASSUME Quiet, ~interrupted, Embedded[song] > 0 \/ Folder[song] > 0 PROVE m.cover = song
    BY DEF CoverShown
  <2>1. m.current = "idle" /\ m.tags.file = song
    BY DEF Quiet, Session, Busy, Known, KnownOf, TagsOf
  <2>2. OnlyNext(m.queue) /\ (~HasArt(m.queue) /\ m.current \notin Art => Settled(m))
    BY <2>1 DEF Covered, InHand
  <2>3. ~HasArt(m.queue) /\ m.current \notin Art
    BY <2>1, <2>2, OnlyNextWaits DEF Art
  <2>4. song # Nil
    BY DEF Session, Types, SongsAssumption
  <2> QED BY <2>1, <2>2, <2>3, <2>4 DEF Settled, HasPicture
<1> QED BY <1>1, <1>2

\* At rest the cover is the picture of the song that plays, from whichever of its
\* two places, put together from its chunks in order (mpd_cover_handle).
THEOREM CoverIsShown == ASSUME SongsAssumption PROVE Spec => [](SongShown /\ CoverShown)
<1>1. Init => Session /\ Known /\ Covered
  BY InitSession, InitKnown, InitCovered
<1>2. Session /\ Known /\ Covered /\ [Next]_vars => (Session /\ Known /\ Covered)'
  BY NextSession, NextKnown, NextCovered
<1>3. Session /\ Known /\ Covered => SongShown /\ CoverShown
  BY CoverMeans
<1> QED BY <1>1, <1>2, <1>3, PTL DEF Spec
=============================================================================
