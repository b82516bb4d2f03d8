-------------------------------- MODULE Alsa --------------------------------
(* The ALSA plug-in (modules/alsactl.c): its mixers of the default device    *)
(* and of the card, what the user sets, and the rows of the pop-up           *)
(* (config/volume-popup.widget).  It provides the volume control as long as  *)
(* PulseAudio, which is asked first, does not.                               *)
(*                                                                           *)
(* The default device is the card, and the card has one element with a       *)
(* switch and two channels.  Each mixer keeps a copy of the levels, which it *)
(* renews when its descriptor is readable; q holds the mixers with one that  *)
(* is.  The copies are read on the module thread and renewed on main, without *)
(* a lock; here each takes a step.  Capture is left out: VolumeCtl() and     *)
(* Volume() take "source" for "sink".                                        *)
EXTENDS Plugin

CONSTANTS
  Lo, Hi,    \* the range of a level
  Percents   \* what the user asks for

Channels == {"left", "right"}
Main == "default"  \* the mixers' names, in the order in which they are opened
Hw == "hw:0"
Names == {Main, Hw}

----------------------------------------------------------------------------
(* The card: the levels, the switch, whether PulseAudio is ready, and what   *)
(* levels the user can have meant if nothing happened since                  *)

Volumes == Lo..Hi
Card == [level |-> [c \in Channels |-> IF c = "left" THEN Hi - 1 ELSE Hi - 2], mute |-> 0,
         other |-> FALSE, meant |-> Volumes]
Controls(v) == [level |-> v.level, mute |-> v.mute]

\* All mixers are told of a change
Readable(v, open) ==
  LET told(name) == IF name \in open \ Range(q) THEN <<name>> ELSE <<>>
  IN  IF Controls(v) = Controls(s) THEN q ELSE q \o told(Main) \o told(Hw)

SetByOthers(level) ==
  /\ steps < MaxSteps /\ steps' = steps + 1
  /\ s' = [s EXCEPT !.level = [c \in Channels |-> level], !.meant = Volumes]
  /\ q' = Readable(s', DOMAIN m.src)
  /\ UNCHANGED <<m, out, trig, rows>>

\* PulseAudio comes, or goes
OtherTurns ==
  /\ steps < MaxSteps /\ steps' = steps + 1
  /\ s' = [s EXCEPT !.other = ~@] /\ m' = [m EXCEPT !.posts = Append(@, "select")]
  /\ UNCHANGED <<q, out, trig, rows>>

----------------------------------------------------------------------------
(* The plug-in *)

\* posts: what main is to look at; chosen: is the plug-in the provider by main's
\* reckoning, flag: what main is about to write to the interface's active flag;
\* calls: activations and deactivations that wait for the module thread; idles:
\* subscriptions that wait for it to be idle; the mixers' copies; default_name;
\* early: did the mixers bail out because the flag was not the one that main chose;
\* again: were they opened while others of their names were in the table, whose keys
\* were freed with those
New == [posts |-> <<"select">>, chosen |-> FALSE, flag |-> <<>>, active |-> FALSE, calls |-> <<>>,
        idles |-> 0, funcs |-> FALSE, src |-> <<>>, default_name |-> "none", early |-> FALSE,
        again |-> FALSE, emit |-> <<>>, out |-> <<>>]

Volume(x) == Emit(x, Trigger("volume", "all"))

\* module_interface_select, on main: the callback is posted, then the flag is set
Selects ==
  /\ m.posts # <<>> /\ m.flag = <<>>
  /\ LET on == ~s.other
         y == [m EXCEPT !.posts = Tail(@)]
     IN  m' = IF on = m.chosen THEN y
              ELSE [y EXCEPT !.chosen = on, !.flag = <<on>>, !.calls = Append(@, on)]
  /\ UNCHANGED <<s, q, out, trig, rows, steps>>
SetsFlag ==
  /\ m.flag # <<>>
  /\ m' = [m EXCEPT !.active = Head(m.flag), !.flag = <<>>]
  /\ UNCHANGED <<s, q, out, trig, rows, steps>>

\* The plug-in as lookups in the table see it: a key that was freed may not be found
Seen(x) ==
  IF x.again THEN {[x EXCEPT !.src = Restrict(@, names)] : names \in SUBSET DOMAIN x.src} ELSE {x}

\* alsa_source_subscribe, alsa_iface_advertise; a source that is given up is
\* announced as removed, and so is one that is found in the table and that the new
\* one takes the place of, after the new one was announced
Subscribe(x, name, seen) ==
  LET y == [x EXCEPT !.src = [n \in DOMAIN @ \cup {name} |-> IF n = name THEN Controls(s) ELSE @[n]],
                     !.default_name = IF @ = "none" THEN name ELSE @,
                     !.again = @ \/ name \in DOMAIN x.src]
      z == Emit(y, Trigger("volume-conf", name))
  IN  IF ~x.active THEN Emit([x EXCEPT !.early = @ \/ x.chosen], Trigger("volume-conf-removed", name))
      ELSE IF name \in DOMAIN seen.src THEN Emit(z, Trigger("volume-conf-removed", name)) ELSE z

\* alsa_source_subscribe_all; the new mixers have nothing to be read yet
SubscribesAll ==
  /\ m.idles > 0 /\ m.calls = <<>>
  /\ \E seen \in Seen(m) :
       DoesInTurn(Volume(Subscribe(Subscribe([m EXCEPT !.idles = @ - 1], Main, seen), Hw, seen)))
  /\ q' = (IF m.active THEN <<>> ELSE q) /\ UNCHANGED <<s, rows, steps>>

\* alsa_source_finalize
Finalize(x, name) ==
  IF name \notin DOMAIN x.src THEN x
  ELSE Emit([x EXCEPT !.src = Restrict(@, DOMAIN @ \ {name})], Trigger("volume-conf-removed", name))

\* alsa_activate, alsa_deactivate, which clears the interface's flag itself
Activate(x) == [x EXCEPT !.funcs = TRUE, !.idles = @ + 1]
Deactivate(x) == [Finalize(Finalize(x, Main), Hw) EXCEPT
                     !.default_name = "none", !.funcs = FALSE, !.active = FALSE, !.again = FALSE]
Called ==
  /\ m.calls # <<>>
  /\ LET x == [m EXCEPT !.calls = Tail(@)]
     IN  DoesInTurn(IF Head(m.calls) THEN Activate(x) ELSE Deactivate(x))
  /\ q' = (IF Head(m.calls) THEN q ELSE <<>>) /\ UNCHANGED <<s, rows, steps>>

\* alsa_source_dispatch
Dispatches ==
  /\ q # <<>> /\ q' = Tail(q)
  /\ DoesInTurn(Volume([m EXCEPT !.src[Head(q)] = Controls(s)]))
  /\ UNCHANGED <<s, rows, steps>>

----------------------------------------------------------------------------
(* What the user sets *)

Clamp(n) == Max({Lo, Min({n, Hi})})

Abs(n) == IF n < 0 THEN -n ELSE n

\* C's division
Quotient(a, b) == IF a < 0 THEN -((-a) \div b) ELSE a \div b

\* alsa_volume_avg_get, and alsa_volume_get, whose way to a percentage and back in
\* doubles is taken as exact
AvgGet(level) == Quotient(level["left"] + level["right"], 2)

\* The number of steps of a percentage, in alsa_volume_set
StepsOf(percent) == Quotient(percent * (Hi - Lo) + IF percent < 0 THEN -50 ELSE 50, 100)

\* Faulty variant of VolumeDelta: a small change is rounded to none
VolumeDeltaRounded(sign, percent, level) ==
  CASE sign = "+" -> StepsOf(percent)
    [] sign = "-" -> StepsOf(-percent)
    [] sign = "=" -> StepsOf(percent) - AvgGet(level)

\* alsa_volume_set: by at least one step, or to a level, from which the lowest
\* level is not taken into account
VolumeDelta(sign, percent, level) ==
  CASE sign = "+" -> Max({1, StepsOf(percent)})
    [] sign = "-" -> Min({-1, StepsOf(-percent)})
    [] sign = "=" -> StepsOf(percent) - AvgGet(level)

\* What the documentation says of it, where the level is from
Distance(n, percent) == Abs(100 * n - percent * (Hi - Lo))
Meant(sign, percent, from) ==
  CASE sign = "=" -> {n \in Volumes : \A k \in Volumes : Distance(n - Lo, percent) <= Distance(k - Lo, percent)}
    [] sign = "+" -> {n \in Volumes : n > from /\ Distance(n - from, percent) <= 100}
    [] sign = "-" -> {n \in Volumes : n < from /\ Distance(from - n, percent) <= 100}

\* alsa_action_volumectl for a row: the mixer, if it is found, goes from its copy,
\* which it changes along with the card
UserDoes(name, v, own) ==
  /\ m.funcs /\ name \in DOMAIN rows \cap DOMAIN m.src
  /\ steps < MaxSteps /\ steps' = steps + 1
  /\ s' = v /\ q' = Readable(v, DOMAIN m.src)
  /\ DoesInTurn(Volume([m EXCEPT !.src[name] = own]))
  /\ UNCHANGED rows
VolumeSet(name, sign, percent) ==
  LET own == m.src[name]
      delta == VolumeDelta(sign, percent, own.level)
      level == [c \in Channels |-> Clamp(own.level[c] + delta)]
      clear == own.level = s.level /\ \A c \in Channels : level[c] = own.level[c] + delta
      meant == IF clear THEN Meant(sign, percent, AvgGet(s.level)) ELSE Volumes
  IN  UserDoes(name, [s EXCEPT !.level = level, !.meant = meant], [own EXCEPT !.level = level])
MuteSet(name) ==
  LET mute == 1 - m.src[name].mute
  IN  UserDoes(name, [s EXCEPT !.mute = mute], [m.src[name] EXCEPT !.mute = mute])
\* alsa_default_set
DefaultSet(name) ==
  /\ m.funcs /\ name \in DOMAIN rows
  /\ steps < MaxSteps /\ steps' = steps + 1
  /\ DoesInTurn(Volume([m EXCEPT !.default_name = name])) /\ UNCHANGED <<s, q, rows>>

\* alsa_func_volume, for a row
Row(x, name) ==
  IF ~x.funcs \/ name \notin DOMAIN x.src THEN [avg |-> Lo - 1, mute |-> 0, default |-> FALSE]
  ELSE [avg |-> AvgGet(x.src[name].level), mute |-> x.src[name].mute, default |-> name = x.default_name]

\* XVolumeChannelHandler, XVolumeChannelRemove, and what depends on "volume"
RowsAfter(t, x) ==
  CASE t.t = "volume" -> [name \in DOMAIN rows |-> Row(x, name)]
    [] t.t = "volume-conf" -> With(rows, t.of, Row(x, t.of))
    [] t.t = "volume-conf-removed" -> Restrict(rows, DOMAIN rows \ {t.of})
Handles == \E seen \in Seen(m) : Shows(RowsAfter(Head(trig), seen))

----------------------------------------------------------------------------

Init ==
  /\ \E other \in BOOLEAN : s = [Card EXCEPT !.other = other]
  /\ m = New /\ q = <<>> /\ out = <<>> /\ trig = <<>> /\ rows = <<>>
  /\ steps = 0

\* A message is read, a trigger handled; what else goes on by itself; and what the
\* user and the world may do
Turns == Dispatches \/ Handles
Works == Selects \/ SetsFlag \/ SubscribesAll \/ Called
Acts ==
  \/ OtherTurns
  \/ \E level \in Lo..Hi : SetByOthers(level)
  \/ \E name \in DOMAIN m.src : MuteSet(name) \/ DefaultSet(name)
  \/ \E name \in DOMAIN m.src, sign \in {"+", "-", "="}, percent \in Percents : VolumeSet(name, sign, percent)

----------------------------------------------------------------------------
(* Properties *)

Quiet == Idle /\ m.posts = <<>> /\ m.flag = <<>> /\ m.calls = <<>> /\ m.idles = 0

\* Every variable keeps its type; nothing waits within a handler.
TypeOK ==
  /\ DOMAIN m.src \subseteq Names /\ DOMAIN rows \subseteq Names
  /\ Range(q) \subseteq DOMAIN m.src
  /\ \A v \in {s.level} \cup {m.src[name].level : name \in DOMAIN m.src} : v \in [Channels -> Volumes]
  /\ m.emit = <<>> /\ m.out = <<>> /\ steps \in 0..MaxSteps

\* doc/sfwbar-volume.rst: with nothing under way there are rows if, and only if,
\* the plug-in is the provider, each shows the card's volume and switch, one of
\* them is the default.  Not so once the mixers bailed out although the plug-in was
\* chosen: main sets the flag after it posts the activation, and a deactivation
\* that is run late clears it for the activation that follows.  Nor, until the next
\* deactivation, when two activations waited and the mixers were opened twice: what
\* the second ones take the place of is announced as removed after they are new.
CardShown ==
  Quiet /\ ~m.early /\ ~m.again =>
    /\ DOMAIN rows = IF s.other THEN {} ELSE Names
    /\ \A name \in DOMAIN rows :
         rows[name] = [avg |-> AvgGet(s.level), mute |-> s.mute, default |-> name = m.default_name]
    /\ s.other \/ m.default_name \in DOMAIN rows

\* A mixer's copy of the levels and the switch, from which the next change starts, is
\* the card's, or the mixer's descriptor is readable and the copy is renewed.
CopiesFollow ==
  \A name \in DOMAIN m.src : m.src[name] = Controls(s) \/ name \in Range(q)

\* doc/sfwbar-volume.rst: the level is one that the user can have meant last, by a
\* percentage of the range that is rounded to the card's steps; a change by a small
\* percentage is not lost.  It holds of a range that starts at 0 only: "=" leaves Lo
\* out of account (alsactl.c:431), and misses by as much as that is.
LevelAsMeant == AvgGet(s.level) \in s.meant
=============================================================================
