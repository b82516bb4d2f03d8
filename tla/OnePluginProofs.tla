-------------------------- MODULE OnePluginProofs --------------------------
(* Proofs about plug-ins that have the variables of Plugin, each alone: in   *)
(* Plugins it is one of several, of which one runs.                          *)
(*                                                                           *)
(* What Alsa keeps for any range of levels, any percentages and any number   *)
(* of turns: levels stay in the card's range, the copies of the mixers       *)
(* follow the card, the level is one that the user can have meant, and the   *)
(* rows at rest show the card.  The client sources (Clients) and the         *)
(* notification centre (Ncenter) are proved about in the last two parts.     *)
EXTENDS Alsa, FiniteSetTheorems, SequenceTheorems, WellFoundedInduction, TLAPS

Spec == Init /\ [][Turns \/ Works \/ Acts]_vars

\* The card has at least three levels, and the user asks for whole percentages.
RangeAssumption == Lo \in Int /\ Hi \in Int /\ Lo + 2 <= Hi /\ Percents \subseteq Int
\* The lowest level is 0, which alsa_volume_set relies on; the user asks for
\* percentages up to the whole range.
PercentAssumption == Lo = 0 /\ Hi \in Nat /\ Percents \subseteq 0..100

----------------------------------------------------------------------------
(* Arithmetic *)

LEMMA Min2 == ASSUME NEW a \in Int, NEW b \in Int PROVE Min({a, b}) = IF a <= b THEN a ELSE b
<1> DEFINE v == IF a <= b THEN a ELSE b
<1>1. v \in {a, b} /\ \A y \in {a, b} : v <= y
  OBVIOUS
<1>2. \A x \in {a, b} : (\A y \in {a, b} : x <= y) => x = v
  OBVIOUS
<1> QED BY <1>1, <1>2 DEF Min

LEMMA Max2 == ASSUME NEW a \in Int, NEW b \in Int PROVE Max({a, b}) = IF a >= b THEN a ELSE b
<1> DEFINE v == IF a >= b THEN a ELSE b
<1>1. v \in {a, b} /\ \A y \in {a, b} : v >= y
  OBVIOUS
<1>2. \A x \in {a, b} : (\A y \in {a, b} : x >= y) => x = v
  OBVIOUS
<1> QED BY <1>1, <1>2 DEF Max

\* CLAMP
LEMMA ClampInRange == ASSUME RangeAssumption, NEW n \in Int
                      PROVE Clamp(n) \in Volumes
<1> DEFINE least == IF n <= Hi THEN n ELSE Hi
<1>1. Min({n, Hi}) = least /\ least \in Int
  BY Min2 DEF RangeAssumption
<1>2. Max({Lo, least}) = IF Lo >= least THEN Lo ELSE least
  BY <1>1, Max2 DEF RangeAssumption
<1> HIDE DEF least
<1>3. Clamp(n) = IF Lo >= least THEN Lo ELSE least
  BY <1>1, <1>2 DEF Clamp
<1> QED BY <1>1, <1>3 DEF least, Volumes, RangeAssumption

\* The average of two levels moves along with both of them.
LEMMA AverageShifts ==
  ASSUME NEW l \in Nat, NEW r \in Nat, NEW d \in Int, l + d \in Nat, r + d \in Nat
  PROVE  Quotient((l + d) + (r + d), 2) = Quotient(l + r, 2) + d
<1>1. (l + d) + (r + d) >= 0 /\ l + r >= 0 /\ (l + d) + (r + d) = (l + r) + 2 * d
  OBVIOUS
<1>2. ((l + r) + 2 * d) \div 2 = (l + r) \div 2 + d
  BY <1>1
<1> QED BY <1>1, <1>2 DEF Quotient

\* The number of steps of a percentage p of the range, p * (Hi - Lo) being w.
LEMMA StepsOfUp ==
  ASSUME NEW w \in Nat
  PROVE  /\ (w + 50) \div 100 \in Nat
         /\ 100 * ((w + 50) \div 100) - w <= 50
         /\ w - 100 * ((w + 50) \div 100) < 50
OBVIOUS

LEMMA AverageInRange ==
  ASSUME PercentAssumption, NEW level \in [Channels -> Volumes]
  PROVE  AvgGet(level) \in Volumes
<1> DEFINE l == level["left"]
           r == level["right"]
<1>1. l \in Nat /\ r \in Nat /\ l <= Hi /\ r <= Hi
  BY DEF PercentAssumption, Channels, Volumes
<1> HIDE DEF l, r
<1>2. (l + r) \div 2 \in Nat /\ (l + r) \div 2 <= Hi
  BY <1>1 DEF PercentAssumption
<1>3. Quotient(l + r, 2) = (l + r) \div 2
  BY <1>1 DEF Quotient
<1> QED BY <1>2, <1>3 DEF AvgGet, l, r, Volumes, PercentAssumption

\* alsa_volume_set: a change that no channel's range cuts off leaves the average where
\* the documentation says, to the nearest step, and by at least one.
LEMMA SetAsMeant ==
  ASSUME PercentAssumption,
         NEW percent \in 0..100, NEW sign \in {"+", "-", "="},
         NEW level \in [Channels -> Volumes], NEW new \in [Channels -> Volumes],
         \A c \in Channels : new[c] = level[c] + VolumeDelta(sign, percent, level)
  PROVE  AvgGet(new) \in Meant(sign, percent, AvgGet(level))
<1> DEFINE w == percent * (Hi - Lo)
           n == (w + 50) \div 100
           d == VolumeDelta(sign, percent, level)
           from == AvgGet(level)
<1>1. w \in Nat /\ (-percent) * (Hi - Lo) = -w /\ (percent = 0 => w = 0)
  BY DEF PercentAssumption
<1>2. n \in Nat /\ 100 * n - w <= 50 /\ w - 100 * n < 50
  BY <1>1, StepsOfUp
<1>3. StepsOf(percent) = n
  BY <1>1 DEF StepsOf, Quotient
<1>4. StepsOf(-percent) = -n
  <2>1. CASE percent = 0
    <3>1. -percent = 0 /\ n = 0
      <4>1. w = 0
        BY <1>1, <2>1
      <4>2. n = 50 \div 100
        BY <4>1
      <4>3. 50 \div 100 = 0
        OBVIOUS
      <4>4. -percent = 0
        <5>1. -percent = 0 - percent
          OBVIOUS
        <5> QED BY <2>1, <5>1
      <4> QED BY <4>2, <4>3, <4>4
    <3>2. StepsOf(-percent) = Quotient(0 * (Hi - Lo) + 50, 100)
      BY <3>1 DEF StepsOf
    <3>3. 0 * (Hi - Lo) + 50 = 50
      BY DEF PercentAssumption
    <3> QED BY <3>1, <3>2, <3>3 DEF Quotient
  <2>2. CASE percent # 0
    <3>1. -percent < 0
      BY <2>2
    <3>2. StepsOf(-percent) = Quotient(-w + (-50), 100)
      BY <1>1, <3>1 DEF StepsOf
    <3>3. -w + (-50) < 0 /\ -(-w + (-50)) = w + 50
      BY <1>1
    <3> QED BY <3>2, <3>3 DEF Quotient
  <2> QED BY <2>1, <2>2
<1>5. from \in Volumes /\ AvgGet(new) \in Volumes
  BY AverageInRange
<1> HIDE DEF n
<1>6. d = CASE sign = "+" -> IF n <= 1 THEN 1 ELSE n
            [] sign = "-" -> IF n <= 1 THEN -1 ELSE -n
            [] sign = "=" -> n - from
  <2>1. Max({1, n}) = IF n <= 1 THEN 1 ELSE n
    BY <1>2, Max2
  <2>2. Min({-1, -n}) = IF n <= 1 THEN -1 ELSE -n
    <3>1. -n \in Int /\ (-1 <= -n <=> n <= 1)
      BY <1>2
    <3> QED BY <3>1, Min2
  <2>3. d = CASE sign = "+" -> Max({1, n}) [] sign = "-" -> Min({-1, -n}) [] sign = "=" -> n - from
    BY <1>3, <1>4 DEF VolumeDelta
  <2> HIDE DEF d, from
  <2> QED BY <2>1, <2>2, <2>3
<1>7. d \in Int
  <2>1. from \in Int
    BY <1>5 DEF Volumes, PercentAssumption
  <2> QED BY <1>2, <1>6, <2>1
<1>8. AvgGet(new) = from + d
  <2>1. /\ level["left"] \in Nat /\ level["right"] \in Nat
        /\ new["left"] \in Nat /\ new["right"] \in Nat
    BY DEF Channels, Volumes, PercentAssumption
  <2>2. new["left"] = level["left"] + d /\ new["right"] = level["right"] + d
    BY DEF Channels
  <2> HIDE DEF d
  <2> QED BY <1>7, <2>1, <2>2, AverageShifts DEF AvgGet
<1> HIDE DEF d, from, w
<1>9. from \in Int /\ Lo = 0 /\ Hi \in Nat
  BY <1>5 DEF Volumes, PercentAssumption
<1>10. \A k \in Int : Distance(k, percent) = IF 100 * k < w THEN w - 100 * k ELSE 100 * k - w
  BY <1>1 DEF Distance, Abs, w, PercentAssumption
<1>11. CASE sign = "="
  <2>1. AvgGet(new) = n
    BY <1>2, <1>6, <1>8, <1>9, <1>11
  <2>2. \A k \in Int : Distance(n, percent) <= Distance(k, percent)
    BY <1>1, <1>2, <1>10
  <2> QED BY <1>2, <1>5, <1>9, <1>11, <2>1, <2>2 DEF Meant, Volumes
<1>12. CASE sign = "+"
  <2>1. d \in Int /\ d >= 1 /\ d = IF n <= 1 THEN 1 ELSE n
    BY <1>2, <1>6, <1>12
  <2>2. from + d > from /\ (from + d) - from = d
    BY <1>9, <2>1
  <2>3. Distance(d, percent) <= 100
    BY <1>1, <1>2, <1>10, <2>1
  <2> QED BY <1>5, <1>8, <1>12, <2>2, <2>3 DEF Meant, from
<1>13. CASE sign = "-"
  <2>1. d \in Int /\ d <= -1 /\ -d = IF n <= 1 THEN 1 ELSE n
    BY <1>2, <1>6, <1>13
  <2>2. from + d < from /\ from - (from + d) = -d
    BY <1>9, <2>1
  <2>3. Distance(-d, percent) <= 100
    BY <1>1, <1>2, <1>10, <2>1
  <2> QED BY <1>5, <1>8, <1>13, <2>2, <2>3 DEF Meant, from
<1> QED BY <1>11, <1>12, <1>13

----------------------------------------------------------------------------
(* The inductive invariant *)

Levels == [Channels -> Volumes]
Copies == [level : Levels, mute : {0, 1}]
Cards == [level : Levels, mute : {0, 1}, other : BOOLEAN, meant : SUBSET Volumes]
Kinds == {"volume", "volume-conf", "volume-conf-removed"}
Triggers == [t : Kinds, of : Names \cup {"all"}]

\* The plug-in between its handlers and within one
Mixers == [posts : Seq({"select"}), chosen : BOOLEAN, flag : Seq(BOOLEAN), active : BOOLEAN,
           calls : Seq(BOOLEAN), idles : Nat, funcs : BOOLEAN,
           src : UNION {[names -> Copies] : names \in SUBSET Names},
           default_name : Names \cup {"none"}, early : BOOLEAN, again : BOOLEAN,
           emit : Seq(Triggers), out : {<<>>}]

TypeInv == s \in Cards /\ m \in Mixers /\ q \in Seq(Names)
IInv == TypeInv /\ CopiesFollow
\* ... with what the user can have meant
MeantInv == IInv /\ LevelAsMeant

\* Where a handler leaves the mixers' copies as they are, or empties their table, or
\* renews some, and what it leaves to be read
LEMMA Done ==
  ASSUME NEW x \in Mixers, DoesInTurn(x)
  PROVE  m' \in Mixers /\ m'.src = x.src
<1>1. m' = [x EXCEPT !.out = <<>>, !.emit = <<>>]
  BY Zenon DEF DoesInTurn, Ran
<1>2. <<>> \in Seq(Triggers)
  OBVIOUS
<1> QED BY <1>1, <1>2 DEF Mixers

LEMMA Emitted ==
  ASSUME NEW x \in Mixers, NEW t \in Kinds, NEW o \in Names \cup {"all"}
  PROVE  /\ Emit(x, Trigger(t, o)) \in Mixers /\ Emit(x, Trigger(t, o)).src = x.src
         /\ Emit(x, Trigger(t, o)).active = x.active
<1>1. Trigger(t, o) \in Triggers
  BY DEF Trigger, Triggers
<1>2. Append(x.emit, Trigger(t, o)) \in Seq(Triggers)
  BY <1>1, AppendProperties DEF Mixers
<1> QED BY <1>2 DEF Emit, Mixers

LEMMA VolumeEmitted == ASSUME NEW x \in Mixers PROVE Volume(x) \in Mixers /\ Volume(x).src = x.src
BY Emitted DEF Volume, Kinds

\* A function whose domain is a set of names
LEMMA Table == ASSUME NEW f PROVE
  f \in UNION {[names -> Copies] : names \in SUBSET Names} <=>
    f \in [DOMAIN f -> Copies] /\ DOMAIN f \subseteq Names
OBVIOUS

LEMMA ControlsOfCard == ASSUME NEW v \in Cards
  PROVE Controls(v) \in Copies /\ Controls(v).level = v.level /\ Controls(v).mute = v.mute
BY DEF Controls, Copies, Cards

LEMMA Subscribed ==
  ASSUME NEW x \in Mixers, NEW name \in Names, NEW seen, s \in Cards
  PROVE  /\ Subscribe(x, name, seen) \in Mixers /\ Subscribe(x, name, seen).active = x.active
         /\ \/ ~x.active /\ Subscribe(x, name, seen).src = x.src
            \/ x.active /\ Subscribe(x, name, seen).src = [n \in DOMAIN x.src \cup {name} |->
                                                             IF n = name THEN Controls(s) ELSE x.src[n]]
<1>1. CASE ~x.active
  <2> DEFINE y == [x EXCEPT !.early = @ \/ x.chosen]
  <2>1. y \in Mixers /\ y.src = x.src /\ y.active = x.active
    BY DEF Mixers
  <2>2. Subscribe(x, name, seen) = Emit(y, Trigger("volume-conf-removed", name))
    BY <1>1 DEF Subscribe
  <2> HIDE DEF y
  <2> QED BY <1>1, <2>1, <2>2, Emitted DEF Kinds
<1>2. CASE x.active
  <2> DEFINE f == [n \in DOMAIN x.src \cup {name} |-> IF n = name THEN Controls(s) ELSE x.src[n]]
             y == [x EXCEPT !.src = f, !.default_name = IF @ = "none" THEN name ELSE @,
                            !.again = @ \/ name \in DOMAIN x.src]
             z == Emit(y, Trigger("volume-conf", name))
  <2>1. x.src \in [DOMAIN x.src -> Copies] /\ DOMAIN x.src \subseteq Names
    BY Table DEF Mixers
  <2>2. f \in UNION {[names -> Copies] : names \in SUBSET Names}
    BY <2>1, Table, ControlsOfCard
  <2>3. Subscribe(x, name, seen) = IF name \in DOMAIN seen.src THEN Emit(z, Trigger("volume-conf-removed", name))
                                   ELSE z
    BY <1>2 DEF Subscribe
  <2> HIDE DEF f
  <2>4. y \in Mixers /\ y.src = f /\ y.active = x.active
    BY <2>2 DEF Mixers
  <2> HIDE DEF y
  <2>5. z \in Mixers /\ z.src = f /\ z.active = x.active
    BY <2>4, Emitted DEF Kinds
  <2> HIDE DEF z
  <2>6. Emit(z, Trigger("volume-conf-removed", name)) \in Mixers
        /\ Emit(z, Trigger("volume-conf-removed", name)).src = f
        /\ Emit(z, Trigger("volume-conf-removed", name)).active = x.active
    BY <2>5, Emitted DEF Kinds
  <2> QED BY <1>2, <2>3, <2>5, <2>6 DEF f
<1> QED BY <1>1, <1>2

LEMMA Finalized ==
  ASSUME NEW x \in Mixers, NEW name \in Names
  PROVE  /\ Finalize(x, name) \in Mixers
         /\ DOMAIN Finalize(x, name).src = DOMAIN x.src \ {name}
<1>1. CASE name \notin DOMAIN x.src
  BY <1>1 DEF Finalize
<1>2. CASE name \in DOMAIN x.src
  <2> DEFINE f == Restrict(x.src, DOMAIN x.src \ {name})
             y == [x EXCEPT !.src = f]
  <2>1. x.src \in [DOMAIN x.src -> Copies] /\ DOMAIN x.src \subseteq Names
    BY Table DEF Mixers
  <2>2. f \in UNION {[names -> Copies] : names \in SUBSET Names} /\ DOMAIN f = DOMAIN x.src \ {name}
    BY <2>1, Table DEF Restrict
  <2>3. Finalize(x, name) = Emit(y, Trigger("volume-conf-removed", name))
    BY <1>2 DEF Finalize
  <2> HIDE DEF f
  <2>4. y \in Mixers /\ y.src = f
    BY <2>2 DEF Mixers
  <2> HIDE DEF y
  <2> QED BY <2>2, <2>3, <2>4, Emitted DEF Kinds
<1> QED BY <1>1, <1>2

LEMMA RangeOfTail ==
  ASSUME NEW names, NEW ns \in Seq(names), ns # <<>>
  PROVE  /\ Tail(ns) \in Seq(names) /\ Head(ns) \in names
         /\ \A n \in Range(ns) : n = Head(ns) \/ n \in Range(Tail(ns))
<1>1. Tail(ns) \in Seq(names) /\ Head(ns) \in names
  BY HeadTailProperties
<1>2. ASSUME NEW i \in 1..Len(ns), i # 1
      PROVE  i - 1 \in 1..Len(Tail(ns)) /\ ns[i] = Tail(ns)[i - 1]
  <2>1. i - 1 \in 1..Len(ns) - 1 /\ (i - 1) + 1 = i
    BY <1>2, LenProperties
  <2>2. Len(Tail(ns)) = Len(ns) - 1 /\ \A j \in 1..Len(Tail(ns)) : Tail(ns)[j] = ns[j + 1]
    BY HeadTailProperties
  <2> QED BY <2>1, <2>2
<1>3. ns[1] = Head(ns)
  OBVIOUS
<1>4. Range(ns) = {ns[i] : i \in 1..Len(ns)} /\ Range(Tail(ns)) = {Tail(ns)[i] : i \in 1..Len(Tail(ns))}
  BY <1>1, RangeEquality
<1> QED BY <1>1, <1>2, <1>3, <1>4

\* Every open mixer can be read once the card's levels or its switch have changed.
LEMMA ReadableCovers ==
  ASSUME q \in Seq(Names), NEW v, NEW open \in SUBSET Names
  PROVE  /\ Readable(v, open) \in Seq(Names)
         /\ Range(q) \subseteq Range(Readable(v, open))
         /\ Controls(v) # Controls(s) => open \subseteq Range(Readable(v, open))
<1> DEFINE told(name) == IF name \in open \ Range(q) THEN <<name>> ELSE <<>>
<1>1. Main \in Names /\ Hw \in Names /\ \A name \in Names : name = Main \/ name = Hw
  BY DEF Names
<1>2. \A name \in Names : told(name) \in Seq(Names)
  OBVIOUS
<1>3. \A name \in Names : name \in open \ Range(q) => name \in Range(told(name))
  <2> SUFFICES ASSUME NEW name \in open \ Range(q) PROVE name \in Range(<<name>>)
    OBVIOUS
  <2>1. Range(<<name>>) = {<<name>>[i] : i \in 1..Len(<<name>>)}
    BY RangeEquality, <<name>> \in Seq(Names)
  <2> QED BY <2>1
<1> HIDE DEF told
<1>4. q \o told(Main) \in Seq(Names) /\ (q \o told(Main)) \o told(Hw) \in Seq(Names)
  BY <1>1, <1>2, ConcatProperties
<1>5. Range((q \o told(Main)) \o told(Hw)) = (Range(q) \cup Range(told(Main))) \cup Range(told(Hw))
  <2> DEFINE a == told(Main)
             b == told(Hw)
             c == q \o a
  <2>1. a \in Seq(Names) /\ b \in Seq(Names) /\ c \in Seq(Names)
    BY <1>1, <1>2, <1>4
  <2>2. Range(q \o a) = Range(q) \cup Range(a)
    <3> HIDE DEF a
    <3> QED BY <2>1, RangeConcatenation
  <2>3. Range(c \o b) = Range(c) \cup Range(b)
    <3> HIDE DEF b, c
    <3> QED BY <2>1, RangeConcatenation
  <2> QED BY <2>2, <2>3
<1>6. Readable(v, open) = IF Controls(v) = Controls(s) THEN q ELSE (q \o told(Main)) \o told(Hw)
  BY DEF Readable, told
<1> QED BY <1>1, <1>3, <1>4, <1>5, <1>6

LEMMA TableOfMixers == m \in Mixers => m.src \in [DOMAIN m.src -> Copies] /\ DOMAIN m.src \subseteq Names
BY Table DEF Mixers

\* The card becomes v by what is done to the mixer whose copy becomes own
LEMMA UserKeeps ==
  ASSUME IInv, NEW name \in DOMAIN m.src, NEW v \in Cards, NEW own \in Copies,
         UserDoes(name, v, own), m.src[name] = Controls(s) => own = Controls(v)
  PROVE  IInv' /\ s' = v
<1> DEFINE f == [m.src EXCEPT ![name] = own]
           x == [m EXCEPT !.src[name] = own]
<1>1. m.src \in [DOMAIN m.src -> Copies] /\ DOMAIN m.src \subseteq Names /\ q \in Seq(Names)
  BY TableOfMixers DEF IInv, TypeInv
<1>2. x \in Mixers /\ x.src = f
  <2>1. f \in UNION {[names -> Copies] : names \in SUBSET Names}
    BY <1>1, Table
  <2>2. x = [m EXCEPT !.src = f]
    BY DEF IInv, TypeInv, Mixers
  <2> HIDE DEF f, x
  <2> QED BY <2>1, <2>2 DEF IInv, TypeInv, Mixers
<1>3. s' = v /\ q' = Readable(v, DOMAIN m.src) /\ DoesInTurn(Volume(x))
  BY DEF UserDoes
<1> HIDE DEF x
<1>4. m' \in Mixers /\ m'.src = f
  BY <1>2, <1>3, VolumeEmitted, Done
<1>5. /\ q' \in Seq(Names) /\ Range(q) \subseteq Range(q')
      /\ Controls(v) # Controls(s) => DOMAIN m.src \subseteq Range(q')
  BY <1>1, <1>3, ReadableCovers
<1>6. \A n \in DOMAIN m.src : f[n] = Controls(v) \/ n \in Range(q')
  <2>1. \A n \in DOMAIN m.src : m.src[n] = Controls(s) \/ n \in Range(q)
    BY DEF IInv, CopiesFollow
  <2> QED BY <1>1, <1>5, <2>1
<1>7. Controls(v) = Controls(s')
  BY <1>3
<1>8. Controls(s)' = Controls(s')
  BY DEF Controls
<1> QED BY <1>1, <1>3, <1>4, <1>5, <1>6, <1>7, <1>8 DEF IInv, TypeInv, CopiesFollow

LEMMA DeltaIsInt ==
  ASSUME RangeAssumption, NEW percent \in Percents, NEW sign \in {"+", "-", "="}, NEW level \in Levels
  PROVE  VolumeDelta(sign, percent, level) \in Int
<1>1. \A a \in Int, b \in {2, 100} : Quotient(a, b) \in Int
  BY DEF Quotient
<1>2. \A p \in Int : StepsOf(p) \in Int
  <2> SUFFICES ASSUME NEW p \in Int PROVE StepsOf(p) \in Int
    OBVIOUS
  <2>1. p * (Hi - Lo) \in Int
    BY DEF RangeAssumption
  <2> QED BY <1>1, <2>1 DEF StepsOf
<1>3. AvgGet(level) \in Int
  <2>1. level["left"] \in Int /\ level["right"] \in Int
    BY DEF Levels, Channels, Volumes, RangeAssumption
  <2> QED BY <1>1, <2>1 DEF AvgGet
<1>4. percent \in Int /\ -percent \in Int
  BY DEF RangeAssumption
<1>5. Max({1, StepsOf(percent)}) \in Int /\ Min({-1, StepsOf(-percent)}) \in Int
  BY <1>2, <1>4, Max2, Min2
<1> QED BY <1>2, <1>3, <1>4, <1>5 DEF VolumeDelta

LEMMA InitKeeps == RangeAssumption /\ Init => IInv
<1> SUFFICES ASSUME RangeAssumption, Init PROVE IInv
  OBVIOUS
<1>1. s \in Cards
  <2>1. Hi - 1 \in Volumes /\ Hi - 2 \in Volumes
    BY DEF RangeAssumption, Volumes
  <2> QED BY <2>1 DEF Init, Card, Cards, Levels
<1>2. m \in Mixers /\ DOMAIN m.src = {}
  <2>1. <<>> \in UNION {[names -> Copies] : names \in SUBSET Names} /\ DOMAIN <<>> = {}
    <3>1. <<>> \in [{} -> Copies]
      OBVIOUS
    <3> QED BY <3>1
  <2>2. <<"select">> \in Seq({"select"})
    OBVIOUS
  <2> QED BY <2>1, <2>2 DEF Init, New, Mixers
<1>3. q \in Seq(Names)
  BY DEF Init
<1> QED BY <1>1, <1>2, <1>3 DEF IInv, TypeInv, CopiesFollow

\* A step that leaves the copies, the card's levels and switch and what is to be read
LEMMA SameCopies ==
  ASSUME IInv, m' \in Mixers, m'.src = m.src, q' = q, s' \in Cards,
         s'.level = s.level, s'.mute = s.mute
  PROVE  IInv'
<1>1. Controls(s)' = Controls(s)
  BY DEF Controls
<1> QED BY <1>1 DEF IInv, TypeInv, CopiesFollow

\* main looks at the providers, or sets the flag that it has chosen
LEMMA SelectsKeeps == ASSUME IInv, Selects PROVE IInv' /\ UNCHANGED s
<1> DEFINE y == [m EXCEPT !.posts = Tail(@)]
           on == ~s.other
<1>1. m \in Mixers /\ s \in Cards /\ m.posts # <<>>
  BY DEF IInv, TypeInv, Selects
<1>2. Tail(m.posts) \in Seq({"select"}) /\ <<on>> \in Seq(BOOLEAN) /\ Append(m.calls, on) \in Seq(BOOLEAN)
  <2>1. m.posts \in Seq({"select"}) /\ m.calls \in Seq(BOOLEAN) /\ on \in BOOLEAN
    BY <1>1 DEF Mixers, Cards
  <2> HIDE DEF on
  <2>2. Tail(m.posts) \in Seq({"select"})
    BY <1>1, <2>1, HeadTailProperties
  <2> QED BY <2>1, <2>2, AppendProperties
<1>3. m' = IF on = m.chosen THEN y
           ELSE [y EXCEPT !.chosen = on, !.flag = <<on>>, !.calls = Append(@, on)]
  BY DEF Selects
<1>4. m' \in Mixers /\ m'.src = m.src
  <2>1. y \in Mixers /\ y.src = m.src /\ y.calls = m.calls
    BY <1>1, <1>2 DEF Mixers
  <2>2. on \in BOOLEAN
    BY <1>1 DEF Cards
  <2> HIDE DEF y, on
  <2> QED BY <1>2, <1>3, <2>1, <2>2 DEF Mixers
<1> QED BY <1>1, <1>4, SameCopies DEF Selects

LEMMA SetsFlagKeeps == ASSUME IInv, SetsFlag PROVE IInv' /\ UNCHANGED s
<1>1. m \in Mixers /\ s \in Cards /\ m.flag # <<>> /\ m.flag \in Seq(BOOLEAN)
  BY DEF IInv, TypeInv, SetsFlag, Mixers
<1>2. PICK flag \in BOOLEAN : flag = Head(m.flag)
  BY <1>1, HeadTailProperties
<1>3. m' = [m EXCEPT !.active = flag, !.flag = <<>>]
  BY <1>2 DEF SetsFlag
<1>4. m' \in Mixers /\ m'.src = m.src
  <2>1. <<>> \in Seq(BOOLEAN)
    OBVIOUS
  <2> QED BY <1>1, <1>3, <2>1 DEF Mixers
<1> QED BY <1>1, <1>4, SameCopies DEF SetsFlag

\* The mixers are opened, one after the other
LEMMA SubscribesAllKeeps == ASSUME IInv, SubscribesAll PROVE IInv' /\ UNCHANGED s
<1>1. m \in Mixers /\ s \in Cards /\ q \in Seq(Names) /\ Main \in Names /\ Hw \in Names
  BY DEF IInv, TypeInv, Names
<1>2. PICK seen \in Seen(m) : DoesInTurn(Volume(Subscribe(Subscribe([m EXCEPT !.idles = @ - 1], Main, seen), Hw, seen)))
  BY Zenon DEF SubscribesAll
<1> DEFINE x == [m EXCEPT !.idles = @ - 1]
           y == Subscribe(x, Main, seen)
           z == Subscribe(y, Hw, seen)
<1>3. DoesInTurn(Volume(z)) /\ s' = s /\ q' = IF m.active THEN <<>> ELSE q
  BY <1>2, Zenon DEF SubscribesAll
<1>4. x \in Mixers /\ x.src = m.src /\ x.active = m.active
  <2>1. m.idles > 0
    BY DEF SubscribesAll
  <2>2. m.idles - 1 \in Nat
    BY <1>1, <2>1 DEF Mixers
  <2> QED BY <1>1, <2>2 DEF Mixers
<1> HIDE DEF x
<1>5. y \in Mixers /\ y.active = m.active
      /\ \/ ~m.active /\ y.src = m.src
         \/ m.active /\ y.src = [n \in DOMAIN m.src \cup {Main} |-> IF n = Main THEN Controls(s) ELSE m.src[n]]
  <2>1. /\ y \in Mixers /\ y.active = x.active
        /\ \/ ~x.active /\ y.src = x.src
           \/ x.active /\ y.src = [n \in DOMAIN x.src \cup {Main} |-> IF n = Main THEN Controls(s) ELSE x.src[n]]
    BY <1>1, <1>4, Subscribed
  <2> HIDE DEF y
  <2> QED BY <1>4, <2>1
<1> HIDE DEF y
<1>6. z \in Mixers
      /\ \/ ~m.active /\ z.src = y.src
         \/ m.active /\ z.src = [n \in DOMAIN y.src \cup {Hw} |-> IF n = Hw THEN Controls(s) ELSE y.src[n]]
  <2>1. /\ z \in Mixers
        /\ \/ ~y.active /\ z.src = y.src
           \/ y.active /\ z.src = [n \in DOMAIN y.src \cup {Hw} |-> IF n = Hw THEN Controls(s) ELSE y.src[n]]
    BY <1>1, <1>5, Subscribed
  <2> HIDE DEF z
  <2> QED BY <1>5, <2>1
<1> HIDE DEF z
<1>7. m' \in Mixers /\ m'.src = z.src
  BY <1>3, <1>6, VolumeEmitted, Done
<1>8. \A n \in DOMAIN z.src : z.src[n] = Controls(s) \/ n \in Range(q')
  <2>1. CASE ~m.active
    BY <1>3, <1>5, <1>6, <2>1 DEF IInv, CopiesFollow
  <2>2. CASE m.active
    <3>1. \A n \in DOMAIN m.src : n = Main \/ n = Hw
      BY <1>1, TableOfMixers DEF Names
    <3> QED BY <1>5, <1>6, <2>2, <3>1
  <2> QED BY <2>1, <2>2
<1>9. Controls(s)' = Controls(s) /\ q' \in Seq(Names)
  <2>1. <<>> \in Seq(Names)
    OBVIOUS
  <2> QED BY <1>1, <1>3, <2>1 DEF Controls
<1> QED BY <1>1, <1>3, <1>7, <1>8, <1>9 DEF IInv, TypeInv, CopiesFollow

\* The module thread runs a callback of the interface
LEMMA CalledKeeps == ASSUME IInv, Called PROVE IInv' /\ UNCHANGED s
<1> DEFINE x == [m EXCEPT !.calls = Tail(@)]
<1>1. m \in Mixers /\ s \in Cards /\ q \in Seq(Names) /\ Main \in Names /\ Hw \in Names
  BY DEF IInv, TypeInv, Names
<1>2. x \in Mixers /\ x.src = m.src
  <2>1. Tail(m.calls) \in Seq(BOOLEAN)
    BY <1>1, HeadTailProperties DEF Mixers, Called
  <2> QED BY <1>1, <2>1 DEF Mixers
<1>3. CASE Head(m.calls)
  <2>1. DoesInTurn(Activate(x)) /\ q' = q /\ s' = s
    BY <1>3 DEF Called
  <2> HIDE DEF x
  <2>2. Activate(x) \in Mixers /\ Activate(x).src = m.src
    <3> DEFINE k == x.idles + 1
    <3>1. k \in Nat /\ Activate(x) = [x EXCEPT !.funcs = TRUE, !.idles = k]
      BY <1>2 DEF Activate, Mixers
    <3> HIDE DEF k
    <3> QED BY <1>2, <3>1 DEF Mixers
  <2>3. m' \in Mixers /\ m'.src = m.src
    BY <2>1, <2>2, Done
  <2> QED BY <1>1, <2>1, <2>3, SameCopies
<1>4. CASE ~Head(m.calls)
  <2>1. DoesInTurn(Deactivate(x)) /\ q' = <<>> /\ s' = s
    BY <1>4 DEF Called
  <2> HIDE DEF x
  <2> DEFINE y == Finalize(x, Main)
             z == Finalize(y, Hw)
  <2>2. DOMAIN x.src \subseteq Names
    BY <1>1, <1>2, TableOfMixers
  <2>3. y \in Mixers /\ DOMAIN y.src = DOMAIN x.src \ {Main}
    BY <1>1, <1>2, Finalized
  <2>4. z \in Mixers /\ DOMAIN z.src = DOMAIN y.src \ {Hw}
    <3> HIDE DEF y
    <3> QED BY <1>1, <2>3, Finalized
  <2>5. DOMAIN z.src = {}
    BY <2>2, <2>3, <2>4 DEF Names
  <2>6. Deactivate(x) = [z EXCEPT !.default_name = "none", !.funcs = FALSE, !.active = FALSE, !.again = FALSE]
    BY DEF Deactivate
  <2> HIDE DEF y, z
  <2>7. Deactivate(x) \in Mixers /\ DOMAIN Deactivate(x).src = {}
    BY <2>4, <2>5, <2>6 DEF Mixers
  <2>8. m' \in Mixers /\ DOMAIN m'.src = {}
    BY <2>1, <2>7, Done
  <2> QED BY <1>1, <2>1, <2>8 DEF IInv, TypeInv, CopiesFollow
<1> QED BY <1>2, <1>3, <1>4 DEF Called

\* A mixer's descriptor is readable
LEMMA DispatchesKeeps == ASSUME IInv, Dispatches PROVE IInv' /\ UNCHANGED s
<1> DEFINE name == Head(q)
           f == [m.src EXCEPT ![name] = Controls(s)]
           x == [m EXCEPT !.src[name] = Controls(s)]
<1>1. m \in Mixers /\ s \in Cards /\ q \in Seq(Names) /\ q # <<>>
  BY DEF IInv, TypeInv, Dispatches
<1>2. m.src \in [DOMAIN m.src -> Copies] /\ DOMAIN m.src \subseteq Names
  BY <1>1, TableOfMixers
<1>3. x \in Mixers /\ x.src = f
  <2>1. f \in UNION {[names -> Copies] : names \in SUBSET Names}
    <3>1. Controls(s) \in Copies
      BY <1>1, ControlsOfCard
    <3> QED BY <1>2, <3>1, Table
  <2>2. x = [m EXCEPT !.src = f]
    BY <1>1 DEF Mixers
  <2> HIDE DEF f, x
  <2> QED BY <1>1, <2>1, <2>2 DEF Mixers
<1>4. DoesInTurn(Volume(x)) /\ q' = Tail(q) /\ s' = s
  BY DEF Dispatches
<1> HIDE DEF x
<1>5. m' \in Mixers /\ m'.src = f
  BY <1>3, <1>4, VolumeEmitted, Done
<1>6. q' \in Seq(Names) /\ \A n \in Range(q) : n = name \/ n \in Range(q')
  BY <1>1, <1>4, RangeOfTail
<1> HIDE DEF name
<1>7. \A n \in DOMAIN m.src : f[n] = Controls(s) \/ n \in Range(q')
  <2>1. \A n \in DOMAIN m.src : m.src[n] = Controls(s) \/ n \in Range(q)
    BY DEF IInv, CopiesFollow
  <2> QED BY <1>2, <1>6, <2>1
<1>8. Controls(s)' = Controls(s) /\ DOMAIN f = DOMAIN m.src
  BY <1>4 DEF Controls
<1> QED BY <1>1, <1>4, <1>5, <1>6, <1>7, <1>8 DEF IInv, TypeInv, CopiesFollow

\* Somebody else sets the card's levels
LEMMA SetByOthersKeeps ==
  ASSUME IInv, NEW level \in Lo..Hi, SetByOthers(level)
  PROVE  IInv' /\ s'.level = [c \in Channels |-> level] /\ s'.meant = Volumes
<1> DEFINE v == [s EXCEPT !.level = [c \in Channels |-> level], !.meant = Volumes]
<1>1. m \in Mixers /\ s \in Cards /\ q \in Seq(Names) /\ DOMAIN m.src \subseteq Names
  BY TableOfMixers DEF IInv, TypeInv
<1>2. v \in Cards /\ v.level = [c \in Channels |-> level] /\ v.meant = Volumes
  <2>1. [c \in Channels |-> level] \in Levels
    BY DEF Levels, Volumes
  <2> QED BY <1>1, <2>1 DEF Cards
<1>3. s' = v /\ q' = Readable(s', DOMAIN m.src) /\ m' = m
  BY DEF SetByOthers
<1> HIDE DEF v
<1>4. q' = Readable(v, DOMAIN m.src)
  BY <1>3
<1>5. /\ q' \in Seq(Names) /\ Range(q) \subseteq Range(q')
      /\ Controls(v) # Controls(s) => DOMAIN m.src \subseteq Range(q')
  BY <1>1, <1>4, ReadableCovers
<1>6. \A n \in DOMAIN m.src : m.src[n] = Controls(v) \/ n \in Range(q')
  <2>1. \A n \in DOMAIN m.src : m.src[n] = Controls(s) \/ n \in Range(q)
    BY DEF IInv, CopiesFollow
  <2> QED BY <1>5, <2>1
<1>7. Controls(s)' = Controls(v)
  BY <1>3 DEF Controls
<1> QED BY <1>1, <1>2, <1>3, <1>5, <1>6, <1>7 DEF IInv, TypeInv, CopiesFollow

LEMMA OtherTurnsKeeps ==
  ASSUME IInv, OtherTurns PROVE IInv' /\ s'.level = s.level /\ s'.meant = s.meant
<1>1. m \in Mixers /\ s \in Cards /\ m.posts \in Seq({"select"})
  BY DEF IInv, TypeInv, Mixers
<1>2. Append(m.posts, "select") \in Seq({"select"})
  BY <1>1, AppendProperties
<1>3. m' \in Mixers /\ m'.src = m.src
  BY <1>1, <1>2 DEF OtherTurns, Mixers
<1>4. s' \in Cards /\ s'.level = s.level /\ s'.meant = s.meant /\ s'.mute = s.mute
  BY <1>1 DEF OtherTurns, Cards
<1> QED BY <1>3, <1>4, SameCopies DEF OtherTurns

\* The user mutes a mixer, or lets it sound
LEMMA MuteSetKeeps ==
  ASSUME IInv, NEW name \in DOMAIN m.src, MuteSet(name)
  PROVE  /\ IInv' /\ s'.level = s.level /\ s'.meant = s.meant
         /\ \E v \in Cards, own \in Copies : v.other = s.other /\ UserDoes(name, v, own)
<1> DEFINE mute == 1 - m.src[name].mute
           v == [s EXCEPT !.mute = mute]
           own == [m.src[name] EXCEPT !.mute = mute]
<1>1. m \in Mixers /\ s \in Cards /\ m.src[name] \in Copies
  BY TableOfMixers DEF IInv, TypeInv
<1>2. mute \in {0, 1}
  BY <1>1 DEF Copies
<1>3. UserDoes(name, v, own)
  BY DEF MuteSet
<1> HIDE DEF mute
<1>4. v \in Cards /\ v.level = s.level /\ v.meant = s.meant /\ v.mute = mute /\ v.other = s.other
      /\ own \in Copies
  BY <1>1, <1>2 DEF Cards, Copies
<1>5. m.src[name] = Controls(s) => own = Controls(v)
  BY <1>1 DEF Controls, Copies, Cards
<1> HIDE DEF v, own
<1> QED BY <1>3, <1>4, <1>5, UserKeeps

LEMMA DefaultSetKeeps == ASSUME IInv, NEW name \in DOMAIN m.src, DefaultSet(name) PROVE IInv' /\ UNCHANGED s
<1> DEFINE x == [m EXCEPT !.default_name = name]
<1>1. m \in Mixers /\ s \in Cards /\ name \in Names
  BY TableOfMixers DEF IInv, TypeInv
<1>2. x \in Mixers /\ x.src = m.src
  BY <1>1 DEF Mixers
<1>3. DoesInTurn(Volume(x)) /\ q' = q /\ s' = s
  BY DEF DefaultSet
<1> HIDE DEF x
<1>4. m' \in Mixers /\ m'.src = m.src
  BY <1>2, <1>3, VolumeEmitted, Done
<1> QED BY <1>1, <1>3, <1>4, SameCopies

\* The user sets a mixer's levels
LEMMA VolumeSetKeeps ==
  ASSUME IInv, RangeAssumption, NEW name \in DOMAIN m.src, NEW sign \in {"+", "-", "="},
         NEW percent \in Percents, VolumeSet(name, sign, percent)
  PROVE  /\ IInv'
         /\ \E v \in Cards, own \in Copies : v.other = s.other /\ UserDoes(name, v, own)
         /\ \/ s'.meant = Volumes
            \/ /\ s'.meant = Meant(sign, percent, AvgGet(s.level))
               /\ \A c \in Channels : s'.level[c] = s.level[c] + VolumeDelta(sign, percent, s.level)
<1> DEFINE own == m.src[name]
           delta == VolumeDelta(sign, percent, own.level)
           level == [c \in Channels |-> Clamp(own.level[c] + delta)]
           clear == own.level = s.level /\ \A c \in Channels : level[c] = own.level[c] + delta
           meant == IF clear THEN Meant(sign, percent, AvgGet(s.level)) ELSE Volumes
           v == [s EXCEPT !.level = level, !.meant = meant]
           set == [own EXCEPT !.level = level]
<1>1. m \in Mixers /\ s \in Cards /\ own \in Copies /\ own.level \in Levels
  BY TableOfMixers DEF IInv, TypeInv, Copies
<1>2. UserDoes(name, v, set)
  BY DEF VolumeSet
<1>3. level \in Levels
  <2>1. delta \in Int
    BY <1>1, DeltaIsInt
  <2> HIDE DEF delta
  <2>2. \A c \in Channels : own.level[c] + delta \in Int
    <3>1. \A c \in Channels : own.level[c] \in Int
      BY <1>1 DEF Levels, Volumes, RangeAssumption
    <3> HIDE DEF own
    <3> QED BY <2>1, <3>1
  <2>3. \A c \in Channels : Clamp(own.level[c] + delta) \in Volumes
    BY <2>2, ClampInRange
  <2> QED BY <2>3 DEF Levels
<1>4. meant \in SUBSET Volumes
  BY DEF Meant
<1>5. clear => \A c \in Channels : level[c] = s.level[c] + VolumeDelta(sign, percent, s.level)
  OBVIOUS
<1>6. meant = Volumes \/ (clear /\ meant = Meant(sign, percent, AvgGet(s.level)))
  OBVIOUS
<1> HIDE DEF level, meant, clear, own
<1>7. /\ v \in Cards /\ v.level = level /\ v.meant = meant /\ v.mute = s.mute /\ v.other = s.other
      /\ set \in Copies /\ set.level = level /\ set.mute = own.mute
  BY <1>1, <1>3, <1>4 DEF Cards, Copies
<1>8. own = Controls(s) => set = Controls(v)
  BY <1>1, <1>7 DEF Controls, Copies, Cards
<1> HIDE DEF v, set
<1>9. IInv' /\ s' = v
  BY <1>2, <1>7, <1>8, UserKeeps DEF own
<1>10. \E w \in Cards, o \in Copies : w.other = s.other /\ UserDoes(name, w, o)
  BY <1>2, <1>7, Zenon
<1> QED BY <1>5, <1>6, <1>7, <1>9, <1>10

\* What the handlers of the triggers leave as it is, and what no step changes
LEMMA HandlesKeeps == ASSUME IInv, Handles PROVE IInv' /\ UNCHANGED s
<1>1. UNCHANGED <<s, m, q>>
  BY DEF Handles, Shows
<1> QED BY <1>1, SameCopies DEF IInv, TypeInv

LEMMA StutterKeeps == ASSUME IInv, UNCHANGED vars PROVE IInv' /\ UNCHANGED s
<1>1. UNCHANGED <<s, m, q>>
  BY DEF vars
<1> QED BY <1>1, SameCopies DEF IInv, TypeInv

LEMMA NextKeeps == ASSUME RangeAssumption, IInv, [Turns \/ Works \/ Acts]_vars PROVE IInv'
<1>1. CASE Turns
  BY <1>1, DispatchesKeeps, HandlesKeeps DEF Turns
<1>2. CASE Works
  BY <1>2, SelectsKeeps, SetsFlagKeeps, SubscribesAllKeeps, CalledKeeps DEF Works
<1>3. CASE Acts
  <2>1. CASE OtherTurns
    BY <2>1, OtherTurnsKeeps
  <2>2. CASE \E level \in Lo..Hi : SetByOthers(level)
    BY <2>2, SetByOthersKeeps
  <2>3. CASE \E name \in DOMAIN m.src : MuteSet(name) \/ DefaultSet(name)
    BY <2>3, MuteSetKeeps, DefaultSetKeeps
  <2>4. CASE \E name \in DOMAIN m.src, sign \in {"+", "-", "="}, percent \in Percents :
               VolumeSet(name, sign, percent)
    BY <2>4, VolumeSetKeeps
  <2> QED BY <1>3, <2>1, <2>2, <2>3, <2>4 DEF Acts
<1>4. CASE UNCHANGED vars
  BY <1>4, StutterKeeps
<1> QED BY <1>1, <1>2, <1>3, <1>4

\* alsa_volume_set keeps the average where the user can have meant it, and nothing
\* else moves it unless others set it.
LEMMA NextKeepsMeant ==
  ASSUME RangeAssumption, PercentAssumption, MeantInv, [Turns \/ Works \/ Acts]_vars
  PROVE  LevelAsMeant'
<1>1. IInv /\ AvgGet(s.level) \in s.meant /\ IInv'
  BY NextKeeps DEF MeantInv, LevelAsMeant
<1>2. s.level \in Levels /\ s'.level \in Levels
  BY <1>1 DEF IInv, TypeInv, Cards
<1>3. AvgGet(s'.level) \in Volumes
  BY <1>2, AverageInRange DEF Levels
<1>4. SUFFICES AvgGet(s'.level) \in s'.meant
  BY DEF LevelAsMeant, AvgGet
<1>5. CASE s'.level = s.level /\ s'.meant = s.meant
  BY <1>1, <1>5
<1>6. CASE s'.meant = Volumes
  BY <1>3, <1>6
<1>7. ASSUME NEW name \in DOMAIN m.src, NEW sign \in {"+", "-", "="}, NEW percent \in Percents,
             VolumeSet(name, sign, percent)
      PROVE  AvgGet(s'.level) \in s'.meant
  <2>1. CASE s'.meant = Volumes
    BY <1>6, <2>1
  <2>2. CASE /\ s'.meant = Meant(sign, percent, AvgGet(s.level))
             /\ \A c \in Channels : s'.level[c] = s.level[c] + VolumeDelta(sign, percent, s.level)
    <3>1. percent \in 0..100
      BY DEF PercentAssumption
    <3>2. PICK old \in [Channels -> Volumes] : old = s.level
      BY <1>2 DEF Levels
    <3>3. PICK new \in [Channels -> Volumes] : new = s'.level
      BY <1>2 DEF Levels
    <3>4. \A c \in Channels : new[c] = old[c] + VolumeDelta(sign, percent, old)
      BY <2>2, <3>2, <3>3
    <3>5. AvgGet(new) \in Meant(sign, percent, AvgGet(old))
      BY <3>1, <3>4, SetAsMeant
    <3> QED BY <2>2, <3>2, <3>3, <3>5
  <2> QED BY <1>1, <1>7, <2>1, <2>2, VolumeSetKeeps
<1>8. CASE Turns \/ Works \/ UNCHANGED vars
  <2>1. UNCHANGED s
    BY <1>1, <1>8, DispatchesKeeps, HandlesKeeps, SelectsKeeps, SetsFlagKeeps, SubscribesAllKeeps,
       CalledKeeps, StutterKeeps DEF Turns, Works
  <2> QED BY <1>5, <2>1
<1>9. CASE Acts
  <2>1. CASE OtherTurns
    BY <1>1, <1>5, <2>1, OtherTurnsKeeps
  <2>2. CASE \E level \in Lo..Hi : SetByOthers(level)
    BY <1>1, <1>6, <2>2, SetByOthersKeeps
  <2>3. CASE \E name \in DOMAIN m.src : MuteSet(name) \/ DefaultSet(name)
    BY <1>1, <1>5, <2>3, MuteSetKeeps, DefaultSetKeeps
  <2>4. CASE \E name \in DOMAIN m.src, sign \in {"+", "-", "="}, percent \in Percents :
               VolumeSet(name, sign, percent)
    BY <1>7, <2>4
  <2> QED BY <1>9, <2>1, <2>2, <2>3, <2>4 DEF Acts
<1> QED BY <1>8, <1>9

LEMMA InitMeant == ASSUME RangeAssumption, PercentAssumption, Init PROVE LevelAsMeant
<1>1. s.level \in Levels /\ s.meant = Volumes
  BY InitKeeps DEF IInv, TypeInv, Cards, Init, Card
<1> QED BY <1>1, AverageInRange DEF Levels, LevelAsMeant

----------------------------------------------------------------------------
(* The triggers of a handler: five at most, taken one after another *)

LEMMA MaxOfFive == /\ \A x \in SUBSET {1} : x # {} => Max(x) = 1
                   /\ \A x \in SUBSET {1, 2} : 2 \in x => Max(x) = 2
                   /\ \A x \in SUBSET {1, 2, 3} : 3 \in x => Max(x) = 3
                   /\ \A x \in SUBSET {1, 2, 3, 4} : 4 \in x => Max(x) = 4
                   /\ \A x \in SUBSET {1, 2, 3, 4, 5} : 5 \in x => Max(x) = 5
<1> DEFINE Greatest(x, n) == n \in x /\ \A y \in x : n >= y
<1>1. ASSUME NEW x \in SUBSET {1, 2, 3, 4, 5}, NEW n \in {1, 2, 3, 4, 5}, Greatest(x, n) PROVE Max(x) = n
  <2>1. \A k \in x : (\A y \in x : k >= y) => k = n
    BY <1>1
  <2> QED BY <1>1, <2>1 DEF Max
<1>2. \A x \in SUBSET {1} : x # {} => Greatest(x, 1)
  <2> SUFFICES ASSUME NEW x \in SUBSET {1}, x # {} PROVE Greatest(x, 1)
    BY Zenon
  <2>1. x = {1}
    OBVIOUS
  <2> QED BY <2>1
<1>3. \A x \in SUBSET {1, 2} : 2 \in x => Greatest(x, 2)
  OBVIOUS
<1>4. \A x \in SUBSET {1, 2, 3} : 3 \in x => Greatest(x, 3)
  OBVIOUS
<1>5. \A x \in SUBSET {1, 2, 3, 4} : 4 \in x => Greatest(x, 4)
  OBVIOUS
<1>6. \A x \in SUBSET {1, 2, 3, 4, 5} : 5 \in x => Greatest(x, 5)
  OBVIOUS
<1> HIDE DEF Greatest
<1> QED BY <1>1, <1>2, <1>3, <1>4, <1>5, <1>6

\* The fold of QueueInTurn over the triggers of a handler, by the set of those taken
FoldOf(ts, e, f) ==
  f = [x \in SUBSET DOMAIN e |-> IF x = {} THEN ts ELSE QueueInTurn(f[x \ {Max(x)}], e[Max(x)])]
Queued(ts, e) == FoldLeft(QueueInTurn, ts, e)

\* Of five, those in x
UpToFive == {1, 2, 3, 4, 5}
Rung(ts, e, x, i) == IF i \in x THEN QueueInTurn(ts, e[i]) ELSE ts
Rungs(ts, e, x) == Rung(Rung(Rung(Rung(Rung(ts, e, x, 1), e, x, 2), e, x, 3), e, x, 4), e, x, 5)

LEMMA RungsOut == ASSUME NEW ts, NEW e, NEW x \in SUBSET UpToFive, x # {}
                  PROVE  /\ x \ {Max(x)} \in SUBSET UpToFive /\ Max(x) \in x
                         /\ Rungs(ts, e, x) = QueueInTurn(Rungs(ts, e, x \ {Max(x)}), e[Max(x)])
<1>0. PICK k \in UpToFive : k \in x /\ Max(x) = k /\ \A i \in UpToFive : i > k => i \notin x
  <2>1. CASE 5 \in x
    BY <2>1, MaxOfFive DEF UpToFive
  <2>2. CASE 5 \notin x /\ 4 \in x
    BY <2>2, MaxOfFive DEF UpToFive
  <2>3. CASE 5 \notin x /\ 4 \notin x /\ 3 \in x
    BY <2>3, MaxOfFive DEF UpToFive
  <2>4. CASE 5 \notin x /\ 4 \notin x /\ 3 \notin x /\ 2 \in x
    BY <2>4, MaxOfFive DEF UpToFive
  <2>5. CASE x = {1}
    BY <2>5, MaxOfFive DEF UpToFive
  <2> QED BY <2>1, <2>2, <2>3, <2>4, <2>5 DEF UpToFive
<1> DEFINE y == x \ {k}
<1>1. y \in SUBSET UpToFive
  OBVIOUS
<1>2. /\ \A i \in UpToFive : i # k => (i \in y <=> i \in x)
      /\ k \notin y /\ \A i \in UpToFive : i > k => i \notin x /\ i \notin y
  BY <1>0
<1> HIDE DEF y
<1>3. Rungs(ts, e, x) = QueueInTurn(Rungs(ts, e, y), e[k])
  <2>1. CASE k = 5
    <3>1. /\ 1 \in y <=> 1 \in x
          /\ 2 \in y <=> 2 \in x
          /\ 3 \in y <=> 3 \in x
          /\ 4 \in y <=> 4 \in x
          /\ 5 \notin y /\ 5 \in x
      BY <1>0, <1>2, <2>1 DEF UpToFive
    <3> QED BY <2>1, <3>1, Zenon DEF Rungs, Rung
  <2>2. CASE k = 4
    <3>1. /\ 1 \in y <=> 1 \in x
          /\ 2 \in y <=> 2 \in x
          /\ 3 \in y <=> 3 \in x
          /\ 4 \notin y /\ 4 \in x /\ 5 \notin x /\ 5 \notin y
      BY <1>0, <1>2, <2>2 DEF UpToFive
    <3> QED BY <2>2, <3>1, Zenon DEF Rungs, Rung
  <2>3. CASE k = 3
    <3>1. /\ 1 \in y <=> 1 \in x
          /\ 2 \in y <=> 2 \in x
          /\ 3 \notin y /\ 3 \in x /\ 4 \notin x /\ 4 \notin y /\ 5 \notin x /\ 5 \notin y
      BY <1>0, <1>2, <2>3 DEF UpToFive
    <3> QED BY <2>3, <3>1, Zenon DEF Rungs, Rung
  <2>4. CASE k = 2
    <3>1. /\ 1 \in y <=> 1 \in x
          /\ 2 \notin y /\ 2 \in x /\ 3 \notin x /\ 3 \notin y
          /\ 4 \notin x /\ 4 \notin y /\ 5 \notin x /\ 5 \notin y
      BY <1>0, <1>2, <2>4 DEF UpToFive
    <3> QED BY <2>4, <3>1, Zenon DEF Rungs, Rung
  <2>5. CASE k = 1
    <3>1. /\ 1 \notin y /\ 1 \in x /\ 2 \notin x /\ 2 \notin y /\ 3 \notin x /\ 3 \notin y
          /\ 4 \notin x /\ 4 \notin y /\ 5 \notin x /\ 5 \notin y
      BY <1>0, <1>2, <2>5 DEF UpToFive
    <3> QED BY <2>5, <3>1, Zenon DEF Rungs, Rung
  <2> QED BY <2>1, <2>2, <2>3, <2>4, <2>5 DEF UpToFive
<1> QED BY <1>0, <1>1, <1>3 DEF y

LEMMA QueuedUpToFive ==
  ASSUME NEW ts, NEW e, DOMAIN e \in SUBSET UpToFive
  PROVE  Queued(ts, e) = Rungs(ts, e, DOMAIN e)
<1> DEFINE g == [x \in SUBSET DOMAIN e |-> Rungs(ts, e, x)]
           Step(f, x) == IF x = {} THEN ts ELSE QueueInTurn(f[x \ {Max(x)}], e[Max(x)])
<1>1. Rungs(ts, e, {}) = ts
  BY Zenon DEF Rungs, Rung
<1>2. FoldOf(ts, e, g)
  <2>1. ASSUME NEW x \in SUBSET DOMAIN e PROVE g[x] = Step(g, x)
    <3>1. CASE x = {}
      BY <1>1, <3>1, Zenon
    <3>2. CASE x # {}
      <4>1. x \ {Max(x)} \in SUBSET DOMAIN e
        OBVIOUS
      <4>2. Rungs(ts, e, x) = QueueInTurn(Rungs(ts, e, x \ {Max(x)}), e[Max(x)])
        BY <3>2, RungsOut
      <4> QED BY <3>2, <4>1, <4>2, Zenon
    <3> QED BY <3>1, <3>2
  <2>2. g = [x \in SUBSET DOMAIN e |-> Step(g, x)]
    <3>1. g = [x \in SUBSET DOMAIN e |-> g[x]]
      BY Zenon
    <3> HIDE DEF g, Step
    <3> QED BY <2>1, <3>1
  <2> QED BY <2>2, Zenon DEF FoldOf
<1> DEFINE h == CHOOSE f : FoldOf(ts, e, f)
<1>3. FoldOf(ts, e, h)
  BY <1>2, Zenon
<1>4. Queued(ts, e) = h[DOMAIN e]
  BY Zenon DEF Queued, FoldLeft, MapThenFoldSet, FoldOf
<1> HIDE DEF h, g
<1>5. \A x \in SUBSET DOMAIN e : h[x] = Step(h, x)
  BY <1>3, Zenon DEF FoldOf
<1>6. ASSUME NEW x \in SUBSET DOMAIN e, x # {}, h[x \ {Max(x)}] = Rungs(ts, e, x \ {Max(x)})
      PROVE  h[x] = Rungs(ts, e, x)
  <2>1. x \in SUBSET UpToFive
    OBVIOUS
  <2>2. Rungs(ts, e, x) = QueueInTurn(Rungs(ts, e, x \ {Max(x)}), e[Max(x)])
    BY <1>6, <2>1, RungsOut
  <2> QED BY <1>5, <1>6, <2>2, Zenon
<1>7. h[{}] = Rungs(ts, e, {})
  BY <1>1, <1>5, Zenon
<1>8. ASSUME NEW x \in SUBSET DOMAIN e, x \subseteq {1} PROVE h[x] = Rungs(ts, e, x)
  <2>1. x = {} \/ (x # {} /\ x \ {Max(x)} = {})
    BY <1>8, MaxOfFive
  <2> QED BY <1>6, <1>7, <2>1, Zenon
<1>9. ASSUME NEW x \in SUBSET DOMAIN e, x \subseteq {1, 2} PROVE h[x] = Rungs(ts, e, x)
  <2>1. x \subseteq {1} \/ (x # {} /\ x \ {Max(x)} \subseteq {1} /\ x \ {Max(x)} \in SUBSET DOMAIN e)
    BY <1>9, MaxOfFive
  <2> QED BY <1>6, <1>8, <2>1, Zenon
<1>10. ASSUME NEW x \in SUBSET DOMAIN e, x \subseteq {1, 2, 3} PROVE h[x] = Rungs(ts, e, x)
  <2>1. x \subseteq {1, 2} \/ (x # {} /\ x \ {Max(x)} \subseteq {1, 2} /\ x \ {Max(x)} \in SUBSET DOMAIN e)
    BY <1>10, MaxOfFive
  <2> QED BY <1>6, <1>9, <2>1, Zenon
<1>11. ASSUME NEW x \in SUBSET DOMAIN e, x \subseteq {1, 2, 3, 4} PROVE h[x] = Rungs(ts, e, x)
  <2>1. x \subseteq {1, 2, 3} \/ (x # {} /\ x \ {Max(x)} \subseteq {1, 2, 3} /\ x \ {Max(x)} \in SUBSET DOMAIN e)
    BY <1>11, MaxOfFive
  <2> QED BY <1>6, <1>10, <2>1, Zenon
<1>12. ASSUME NEW x \in SUBSET DOMAIN e PROVE h[x] = Rungs(ts, e, x)
  <2>1. x \subseteq {1, 2, 3, 4} \/ (x # {} /\ x \ {Max(x)} \subseteq {1, 2, 3, 4} /\ x \ {Max(x)} \in SUBSET DOMAIN e)
    BY <1>12, MaxOfFive DEF UpToFive
  <2> QED BY <1>6, <1>11, <2>1, Zenon
<1> QED BY <1>4, <1>12, Zenon

----------------------------------------------------------------------------
(* What the triggers that wait will make of a row *)

Told == {Trigger("volume", "all")} \cup
        {Trigger(k, name) : k \in {"volume-conf", "volume-conf-removed"}, name \in Names}
TriggerSeqs == Seq(Told)

\* Is none of them for the row of name, or is the last that is of the kind k
NoneFor(ts, name) == \A i \in 1..Len(ts) : ts[i].of # name
LastFor(ts, name, k) ==
  \E i \in 1..Len(ts) : /\ ts[i].of = name /\ ts[i].t = k
                        /\ \A j \in 1..Len(ts) : j > i => ts[j].of # name

\* The row will be there, will not be there, will be read again
Comes(ts, r, name) == LastFor(ts, name, "volume-conf") \/ (NoneFor(ts, name) /\ name \in r)
Goes(ts, r, name) == LastFor(ts, name, "volume-conf-removed") \/ (NoneFor(ts, name) /\ name \notin r)
Renewed(ts, name) == \E i \in 1..Len(ts) : ts[i].of = name \/ ts[i].of = "all"

LEMMA ToldIs ==
  ASSUME NEW t \in Told
  PROVE  /\ \/ t.t = "volume" /\ t.of = "all"
            \/ t.t = "volume-conf" /\ t.of \in Names
            \/ t.t = "volume-conf-removed" /\ t.of \in Names
         /\ t.of = "all" => t.t = "volume"
BY DEF Told, Trigger, Names, Main, Hw

\* One more trigger
LEMMA OneMore ==
  ASSUME NEW ts \in TriggerSeqs, NEW t \in Told
  PROVE  LET us == QueueInTurn(ts, t)
         IN  /\ us \in TriggerSeqs
             /\ LastFor(us, t.of, t.t) /\ \A name : t.of \in {name, "all"} => Renewed(us, name)
             /\ \A name : Renewed(ts, name) => Renewed(us, name)
             /\ \A name, k : t.of # name /\ LastFor(ts, name, k) => LastFor(us, name, k)
             /\ \A name : t.of # name /\ NoneFor(ts, name) => NoneFor(us, name)
<1> DEFINE us == QueueInTurn(ts, t)
           n == Len(ts)
<1>1. n \in Nat /\ ts \in Seq(Told) /\ (ts # <<>> => n > 0)
  BY DEF TriggerSeqs
<1>2. CASE us = ts /\ n > 0 /\ ts[n] = t
  <2>1. n \in 1..Len(ts) /\ \A j \in 1..Len(ts) : ~(j > n)
    BY <1>1, <1>2
  <2> HIDE DEF n, us
  <2>2. LastFor(ts, t.of, t.t)
    BY <1>2, <2>1, Zenon DEF LastFor
  <2>3. \A name : t.of \in {name, "all"} => Renewed(ts, name)
    BY <1>2, <2>1 DEF Renewed
  <2> QED BY <1>2, <2>2, <2>3 DEF us
<1>3. CASE us = Append(ts, t)
  <2>1. /\ us \in Seq(Told) /\ Len(us) = n + 1 /\ us[n + 1] = t
        /\ \A i \in 1..n : us[i] = ts[i]
    BY <1>1, <1>3, AppendProperties
  <2>2. /\ n + 1 \in 1..Len(us) /\ (\A j \in 1..Len(us) : ~(j > n + 1))
        /\ \A i \in 1..n : i \in 1..Len(us)
        /\ \A i \in 1..Len(us) : i \in 1..n \/ i = n + 1
    BY <1>1, <2>1
  <2> HIDE DEF us
  <2>3. LastFor(us, t.of, t.t)
    BY <2>1, <2>2, Zenon DEF LastFor
  <2>4. \A name : t.of \in {name, "all"} => Renewed(us, name)
    BY <2>1, <2>2 DEF Renewed
  <2>5. \A name : Renewed(ts, name) => Renewed(us, name)
    BY <2>1, <2>2 DEF Renewed, n
  <2>6. ASSUME NEW name, NEW k, t.of # name, LastFor(ts, name, k) PROVE LastFor(us, name, k)
    <3>1. PICK i \in 1..n : /\ ts[i].of = name /\ ts[i].t = k
                            /\ \A j \in 1..n : j > i => ts[j].of # name
      BY <2>6, Zenon DEF LastFor, n
    <3>2. us[i].of = name /\ us[i].t = k /\ \A j \in 1..Len(us) : j > i => us[j].of # name
      BY <2>1, <2>2, <2>6, <3>1, Zenon
    <3> QED BY <2>2, <3>2, Zenon DEF LastFor
  <2>7. \A name : t.of # name /\ NoneFor(ts, name) => NoneFor(us, name)
    BY <2>1, <2>2, Zenon DEF NoneFor, n
  <2> QED BY <2>1, <2>3, <2>4, <2>5, <2>6, <2>7, Zenon DEF us, TriggerSeqs
<1>4. us = Append(ts, t) \/ (us = ts /\ ts # <<>> /\ Last(ts) = t)
  BY DEF QueueInTurn
<1>5. Last(ts) = ts[n]
  BY DEF Last
<1> QED BY <1>1, <1>2, <1>3, <1>4, <1>5

LEMMA StillComes ==
  ASSUME NEW ts \in TriggerSeqs, NEW t \in Told, NEW r, NEW name, t.of # name
  PROVE  /\ Comes(ts, r, name) => Comes(QueueInTurn(ts, t), r, name)
         /\ Goes(ts, r, name) => Goes(QueueInTurn(ts, t), r, name)
BY OneMore, Zenon DEF Comes, Goes

\* The oldest trigger is taken
LEMMA OneLess ==
  ASSUME NEW ts \in TriggerSeqs, ts # <<>>
  PROVE  /\ Head(ts) \in Told /\ Tail(ts) \in TriggerSeqs
         /\ \A name : NoneFor(ts, name) => NoneFor(Tail(ts), name) /\ Head(ts).of # name
         /\ \A name, k : LastFor(ts, name, k) =>
              \/ LastFor(Tail(ts), name, k)
              \/ Head(ts).of = name /\ Head(ts).t = k /\ NoneFor(Tail(ts), name)
         /\ \A name : Renewed(ts, name) =>
              Renewed(Tail(ts), name) \/ Head(ts).of = name \/ Head(ts).of = "all"
<1> DEFINE us == Tail(ts)
           n == Len(us)
           t == Head(ts)
<1>1. /\ us \in Seq(Told) /\ n \in Nat /\ Len(ts) = n + 1 /\ t \in Told /\ t = ts[1]
      /\ \A i \in 1..n : us[i] = ts[i + 1]
  BY HeadTailProperties DEF TriggerSeqs
<1>2. /\ 1 \in 1..Len(ts)
      /\ \A i \in 1..n : i + 1 \in 1..Len(ts)
      /\ \A i \in 1..Len(ts) : i = 1 \/ (i - 1 \in 1..n /\ us[i - 1] = ts[i])
      /\ \A i \in 1..n : i + 1 > 1
  <2>1. \A i \in 1..Len(ts) : i = 1 \/ (i - 1 \in 1..n /\ (i - 1) + 1 = i)
    BY <1>1
  <2> HIDE DEF us, n, t
  <2>2. \A i \in 1..Len(ts) : i = 1 \/ (i - 1 \in 1..n /\ us[i - 1] = ts[i])
    <3> SUFFICES ASSUME NEW i \in 1..Len(ts), i # 1 PROVE i - 1 \in 1..n /\ us[i - 1] = ts[i]
      BY Zenon
    <3>1. i - 1 \in 1..n /\ (i - 1) + 1 = i
      BY <2>1
    <3>2. us[i - 1] = ts[(i - 1) + 1]
      BY <1>1, <3>1, Zenon
    <3> QED BY <3>1, <3>2
  <2> QED BY <1>1, <2>2
<1> HIDE DEF us, n, t
<1>3. \A name : NoneFor(ts, name) => NoneFor(us, name) /\ t.of # name
  BY <1>1, <1>2, Zenon DEF NoneFor, n
<1>4. ASSUME NEW name, NEW k, LastFor(ts, name, k)
      PROVE  LastFor(us, name, k) \/ (t.of = name /\ t.t = k /\ NoneFor(us, name))
  <2>1. PICK i \in 1..Len(ts) : /\ ts[i].of = name /\ ts[i].t = k
                                /\ \A j \in 1..Len(ts) : j > i => ts[j].of # name
    BY <1>4, Zenon DEF LastFor
  <2>2. CASE i = 1
    <3>1. \A j \in 1..n : j + 1 \in 1..Len(ts) /\ j + 1 > i
      BY <1>2, <2>2
    <3>2. \A j \in 1..n : us[j].of # name
      BY <1>1, <2>1, <3>1, Zenon
    <3> QED BY <1>1, <2>1, <2>2, <3>2, Zenon DEF NoneFor, n
  <2>3. CASE i # 1
    <3>1. i - 1 \in 1..n /\ us[i - 1] = ts[i]
      BY <1>2, <2>3, Zenon
    <3>2. \A j \in 1..n : j > i - 1 => j + 1 > i
      BY <1>1, <3>1
    <3>3. \A j \in 1..n : j > i - 1 => us[j].of # name
      BY <1>1, <1>2, <2>1, <3>2, Zenon
    <3> QED BY <2>1, <3>1, <3>3, Zenon DEF LastFor, n
  <2> QED BY <2>2, <2>3
<1>5. \A name : Renewed(ts, name) => Renewed(us, name) \/ t.of = name \/ t.of = "all"
  BY <1>1, <1>2, Zenon DEF Renewed, n
<1> QED BY <1>1, <1>3, <1>4, <1>5, Zenon DEF us, t, TriggerSeqs

----------------------------------------------------------------------------
(* The invariant of the rows *)

\* The callbacks that wait turn the functions on and off in turn, and leave them as
\* main has chosen
Linked(funcs, calls, chosen) ==
  /\ calls = <<>> => funcs = chosen
  /\ calls # <<>> => calls[1] # funcs /\ calls[Len(calls)] = chosen
  /\ \A i \in 1..Len(calls) - 1 : calls[i + 1] # calls[i]

\* main's choice follows PulseAudio, and the flag and the callbacks follow the choice;
\* the mixers are there only with the functions, and, once they were looked for, with
\* one of them as the default
ChoiceInv ==
  /\ m.posts = <<>> => m.chosen = ~s.other
  /\ m.flag = <<>> \/ m.flag = <<m.chosen>>
  /\ Linked(m.funcs, m.calls, m.chosen)
  /\ m.calls = <<>> /\ ~m.chosen => ~m.active
  /\ m.calls = <<>> /\ DOMAIN m.src # {} => m.active
MixersInv ==
  /\ m.emit = <<>> /\ steps \in 0..MaxSteps
  /\ ~m.funcs => DOMAIN m.src = {} /\ m.default_name = "none"
  /\ DOMAIN m.src # {} => m.default_name # "none"
  /\ ~m.early /\ m.funcs /\ m.idles = 0 => DOMAIN m.src = Names
  /\ Range(q) \subseteq DOMAIN m.src

\* Each row comes or goes with its mixer, and is as the plug-in x has it or is about to
\* be read again.  While the mixers were opened twice, no more than that a row without a
\* mixer goes is known.
RowsOf(ts, r, x) ==
  /\ ts \in TriggerSeqs /\ DOMAIN r \subseteq Names
  /\ \A name \in Names : IF name \in DOMAIN x.src THEN x.again \/ Comes(ts, DOMAIN r, name)
                         ELSE Goes(ts, DOMAIN r, name)
  /\ \A name \in DOMAIN r :
       name \in DOMAIN x.src => x.again \/ r[name] = Row(x, name) \/ Renewed(ts, name)
RowsInv == RowsOf(trig, rows, m)

ShownInv == IInv /\ ChoiceInv /\ MixersInv /\ RowsInv

LEMMA LinkedFirst ==
  ASSUME NEW funcs \in BOOLEAN, NEW calls \in Seq(BOOLEAN), NEW chosen \in BOOLEAN,
         Linked(funcs, calls, chosen), NEW on \in BOOLEAN, on # chosen
  PROVE  Linked(funcs, Append(calls, on), on)
<1> DEFINE n == Len(calls)
           c == Append(calls, on)
<1>1. /\ n \in Nat /\ c \in Seq(BOOLEAN) /\ c # <<>> /\ Len(c) = n + 1 /\ c[n + 1] = on
      /\ \A i \in 1..n : c[i] = calls[i]
      /\ calls = <<>> <=> n = 0
  BY AppendProperties
<1> HIDE DEF c, n
<1>2. /\ n = 0 => on # funcs
      /\ n # 0 => calls[1] # funcs /\ calls[n] = chosen
      /\ \A i \in 1..n - 1 : calls[i + 1] # calls[i]
  BY <1>1 DEF Linked, n
<1>3. c[1] # funcs
  BY <1>1, <1>2
<1>4. \A i \in 1..n : c[i + 1] # c[i]
  BY <1>1, <1>2
<1>5. c[Len(c)] = on /\ Len(c) - 1 = n
  BY <1>1
<1> QED BY <1>1, <1>3, <1>4, <1>5, Zenon DEF Linked, c

LEMMA LinkedNext ==
  ASSUME NEW funcs, NEW calls \in Seq(BOOLEAN), NEW chosen, Linked(funcs, calls, chosen), calls # <<>>
  PROVE  Head(calls) # funcs /\ Linked(Head(calls), Tail(calls), chosen)
<1> DEFINE n == Len(calls)
           c == Tail(calls)
<1>1. /\ n \in Nat /\ n > 0 /\ c \in Seq(BOOLEAN) /\ Len(c) = n - 1 /\ Head(calls) = calls[1]
      /\ \A i \in 1..n - 1 : c[i] = calls[i + 1]
      /\ c = <<>> <=> n = 1
  <2>1. n \in Nat /\ n > 0 /\ Head(calls) = calls[1]
    OBVIOUS
  <2>2. c \in Seq(BOOLEAN) /\ Len(c) = n - 1 /\ \A i \in 1..Len(c) : c[i] = calls[i + 1]
    BY HeadTailProperties
  <2>3. c = <<>> <=> Len(c) = 0
    <3> HIDE DEF c
    <3> QED BY <2>2
  <2> HIDE DEF c, n
  <2> QED BY <2>1, <2>2, <2>3
<1> HIDE DEF c, n
<1>2. calls[1] # funcs /\ calls[n] = chosen /\ \A i \in 1..n - 1 : calls[i + 1] # calls[i]
  BY Zenon DEF Linked, n
<1>3. n # 1 => c[1] # calls[1] /\ c[Len(c)] = chosen
  BY <1>1, <1>2
<1>4. \A i \in 1..Len(c) - 1 : c[i + 1] # c[i]
  BY <1>1, <1>2
<1> QED BY <1>1, <1>2, <1>3, <1>4 DEF Linked, c

\* A step that leaves the mixers, the triggers and the rows
LEMMA RowsStay ==
  ASSUME RowsInv, trig' = trig, rows' = rows, DOMAIN m'.src = DOMAIN m.src, m'.again = m.again,
         \A name \in DOMAIN m.src : Row(m', name) = Row(m, name)
  PROVE  RowsInv'
<1>1. RowsOf(trig, rows, m')
  BY Zenon DEF RowsInv, RowsOf
<1> QED BY <1>1, Zenon DEF RowsInv

LEMMA SameRow ==
  ASSUME NEW x, NEW y, y.funcs = x.funcs, y.src = x.src, y.default_name = x.default_name
  PROVE  \A name : Row(y, name) = Row(x, name)
BY DEF Row

LEMMA SameRows ==
  ASSUME RowsInv, trig' = trig, rows' = rows,
         m'.funcs = m.funcs, m'.src = m.src, m'.default_name = m.default_name, m'.again = m.again
  PROVE  RowsInv'
<1>1. \A name : Row(m', name) = Row(m, name)
  BY SameRow
<1> QED BY <1>1, RowsStay

\* A handler that tells of a change of the volume, and leaves the set of the mixers
LEMMA RowsRenewed ==
  ASSUME RowsInv, trig' = QueueInTurn(trig, Trigger("volume", "all")), rows' = rows,
         DOMAIN m'.src = DOMAIN m.src, m'.again = m.again
  PROVE  RowsInv'
<1> DEFINE t == Trigger("volume", "all")
           us == QueueInTurn(trig, t)
<1>1. trig \in TriggerSeqs /\ DOMAIN rows \subseteq Names
  BY Zenon DEF RowsInv, RowsOf
<1>2. t \in Told /\ t.of = "all" /\ \A name \in Names : t.of # name
  BY DEF Told, Trigger, Names, Main, Hw
<1> HIDE DEF t
<1>3. us \in TriggerSeqs /\ \A name : Renewed(us, name)
  BY <1>1, <1>2, OneMore
<1>4. \A name \in Names : /\ Comes(trig, DOMAIN rows, name) => Comes(us, DOMAIN rows, name)
                          /\ Goes(trig, DOMAIN rows, name) => Goes(us, DOMAIN rows, name)
  BY <1>1, <1>2, StillComes
<1> HIDE DEF us
<1>5. RowsOf(us, rows, m')
  BY <1>1, <1>3, <1>4, Zenon DEF RowsInv, RowsOf
<1>6. us = trig'
  BY DEF us, t
<1> QED BY <1>5, <1>6, Zenon DEF RowsInv

LEMMA InitShown == ASSUME Init, MaxSteps \in Nat PROVE ChoiceInv /\ MixersInv /\ RowsInv
<1>1. /\ m.posts = <<"select">> /\ ~m.chosen /\ m.flag = <<>> /\ ~m.active /\ m.calls = <<>> /\ ~m.funcs
      /\ m.src = <<>> /\ m.default_name = "none" /\ m.emit = <<>>
  BY DEF Init, New
<1>2. <<"select">> # <<>> /\ DOMAIN <<>> = {} /\ Len(<<>>) = 0 /\ Range(<<>>) = {}
  BY DEF Range
<1>3. m.funcs = FALSE /\ m.chosen = FALSE
  BY DEF Init, New
<1>4. Linked(m.funcs, m.calls, m.chosen)
  <2>1. Linked(FALSE, <<>>, FALSE)
    BY <1>2 DEF Linked
  <2> QED BY <1>1, <1>3, <2>1
<1>5. ChoiceInv
  BY <1>1, <1>2, <1>4 DEF ChoiceInv
<1>6. MixersInv
  BY <1>1, <1>2 DEF MixersInv, Init
<1>7. <<>> \in TriggerSeqs
  BY DEF TriggerSeqs
<1>8. \A name : NoneFor(<<>>, name)
  BY <1>2 DEF NoneFor
<1>9. RowsOf(<<>>, <<>>, m)
  BY <1>1, <1>2, <1>7, <1>8 DEF RowsOf, Goes
<1> QED BY <1>5, <1>6, <1>9 DEF RowsInv, Init

LEMMA SelectsShown == ASSUME ShownInv, Selects PROVE ChoiceInv' /\ MixersInv' /\ RowsInv'
<1> DEFINE y == [m EXCEPT !.posts = Tail(@)]
           on == ~s.other
<1>1. m \in Mixers /\ s \in Cards /\ m.flag = <<>> /\ s' = s /\ q' = q /\ steps' = steps
  BY DEF ShownInv, IInv, TypeInv, Selects
<1>2. on \in BOOLEAN /\ m.chosen \in BOOLEAN /\ m.funcs \in BOOLEAN /\ m.calls \in Seq(BOOLEAN)
  BY <1>1 DEF Cards, Mixers
<1>3. m' = IF on = m.chosen THEN y
           ELSE [y EXCEPT !.chosen = on, !.flag = <<on>>, !.calls = Append(@, on)]
  BY DEF Selects
<1>4. /\ m'.funcs = m.funcs /\ m'.src = m.src /\ m'.default_name = m.default_name /\ m'.emit = m.emit
      /\ m'.early = m.early /\ m'.again = m.again /\ m'.idles = m.idles /\ m'.active = m.active
  <2> HIDE DEF on
  <2> QED BY <1>1, <1>3 DEF Mixers
<1>5. \/ m'.chosen = m.chosen /\ on = m.chosen /\ m'.flag = m.flag /\ m'.calls = m.calls
      \/ m'.chosen = on /\ on # m.chosen /\ m'.flag = <<on>> /\ m'.calls = Append(m.calls, on)
  <2> HIDE DEF on
  <2> QED BY <1>1, <1>3 DEF Mixers
<1> HIDE DEF y
<1>6. m'.chosen = on /\ (m'.flag = <<>> \/ m'.flag = <<m'.chosen>>)
  <2> HIDE DEF on
  <2> QED BY <1>1, <1>5
<1>7. Linked(m'.funcs, m'.calls, m'.chosen)
  <2>1. Linked(m.funcs, m.calls, m.chosen)
    BY DEF ShownInv, ChoiceInv
  <2> HIDE DEF on
  <2> QED BY <1>2, <1>4, <1>5, <2>1, LinkedFirst
<1>8. m'.calls = <<>> => m'.calls = m.calls /\ m'.chosen = m.chosen
  <2>1. Append(m.calls, on) # <<>>
    BY <1>2, AppendProperties
  <2> HIDE DEF on
  <2> QED BY <1>5, <2>1
<1>9. ChoiceInv'
  <2>1. m'.chosen = ~s'.other
    BY <1>1, <1>6
  <2> HIDE DEF on
  <2> QED BY <1>4, <1>6, <1>7, <1>8, <2>1 DEF ShownInv, ChoiceInv
<1>10. MixersInv'
  BY <1>1, <1>4 DEF ShownInv, MixersInv
<1>11. RowsInv'
  <2>1. RowsInv /\ trig' = trig /\ rows' = rows
    BY DEF ShownInv, Selects
  <2> QED BY <1>4, <2>1, SameRows
<1> QED BY <1>9, <1>10, <1>11

LEMMA SetsFlagShown == ASSUME ShownInv, SetsFlag PROVE ChoiceInv' /\ MixersInv' /\ RowsInv'
<1>1. m \in Mixers /\ m.flag = <<m.chosen>> /\ s' = s /\ q' = q /\ steps' = steps
  BY DEF ShownInv, IInv, TypeInv, SetsFlag, ChoiceInv
<1>2. Head(m.flag) = m.chosen
  BY <1>1
<1>3. m' = [m EXCEPT !.active = m.chosen, !.flag = <<>>]
  BY <1>2 DEF SetsFlag
<1>4. /\ m'.funcs = m.funcs /\ m'.src = m.src /\ m'.default_name = m.default_name /\ m'.emit = m.emit
      /\ m'.early = m.early /\ m'.again = m.again /\ m'.idles = m.idles /\ m'.active = m.chosen
      /\ m'.chosen = m.chosen /\ m'.flag = <<>> /\ m'.calls = m.calls /\ m'.posts = m.posts
  BY <1>1, <1>3 DEF Mixers
<1>5. m.calls = <<>> /\ DOMAIN m.src # {} => m.chosen
  BY DEF ShownInv, ChoiceInv, MixersInv, Linked
<1>6. ChoiceInv'
  BY <1>1, <1>4, <1>5 DEF ShownInv, ChoiceInv
<1>7. MixersInv'
  BY <1>1, <1>4 DEF ShownInv, MixersInv
<1>8. RowsInv'
  <2>1. RowsInv /\ trig' = trig /\ rows' = rows
    BY DEF ShownInv, SetsFlag
  <2> QED BY <1>4, <2>1, SameRows
<1> QED BY <1>6, <1>7, <1>8

LEMMA OtherTurnsShown == ASSUME ShownInv, MaxSteps \in Nat, OtherTurns PROVE ChoiceInv' /\ MixersInv' /\ RowsInv'
<1>1. m \in Mixers /\ s \in Cards /\ q' = q /\ steps' \in 0..MaxSteps
  BY DEF ShownInv, IInv, TypeInv, OtherTurns, MixersInv
<1>2. m' = [m EXCEPT !.posts = Append(m.posts, "select")]
  BY DEF OtherTurns
<1>3. m'.posts # <<>>
  <2>1. m.posts \in Seq({"select"})
    BY <1>1 DEF Mixers
  <2>2. m'.posts = Append(m.posts, "select")
    BY <1>1, <1>2 DEF Mixers
  <2> QED BY <2>1, <2>2, AppendProperties
<1>4. /\ m'.funcs = m.funcs /\ m'.src = m.src /\ m'.default_name = m.default_name /\ m'.emit = m.emit
      /\ m'.early = m.early /\ m'.again = m.again /\ m'.idles = m.idles /\ m'.active = m.active
      /\ m'.chosen = m.chosen /\ m'.flag = m.flag /\ m'.calls = m.calls
  BY <1>1, <1>2 DEF Mixers
<1>5. ChoiceInv'
  BY <1>3, <1>4 DEF ShownInv, ChoiceInv
<1>6. MixersInv'
  BY <1>1, <1>4 DEF ShownInv, MixersInv
<1>7. RowsInv'
  <2>1. RowsInv /\ trig' = trig /\ rows' = rows
    BY DEF ShownInv, OtherTurns
  <2> QED BY <1>4, <2>1, SameRows
<1> QED BY <1>5, <1>6, <1>7

\* What is to be read is of a mixer that is open.
LEMMA ReadableOpen ==
  ASSUME q \in Seq(Names), NEW v, NEW open \in SUBSET Names, Range(q) \subseteq open
  PROVE  Range(Readable(v, open)) \subseteq open
<1> DEFINE told(name) == IF name \in open \ Range(q) THEN <<name>> ELSE <<>>
<1>1. Main \in Names /\ Hw \in Names
  BY DEF Names
<1>2. \A name \in Names : told(name) \in Seq(Names) /\ Range(told(name)) \subseteq open
  <2> SUFFICES ASSUME NEW name \in Names PROVE told(name) \in Seq(Names) /\ Range(told(name)) \subseteq open
    OBVIOUS
  <2>1. told(name) \in Seq(Names)
    OBVIOUS
  <2>2. Range(<<name>>) = {name} /\ Range(<<>>) = {}
    BY DEF Range
  <2> QED BY <2>1, <2>2
<1> HIDE DEF told
<1>3. q \o told(Main) \in Seq(Names)
  BY <1>1, <1>2, ConcatProperties
<1>4. Range(q \o told(Main)) = Range(q) \cup Range(told(Main))
  BY <1>1, <1>2, RangeConcatenation
<1>5. Range((q \o told(Main)) \o told(Hw)) = Range(q \o told(Main)) \cup Range(told(Hw))
  <2> DEFINE b == told(Hw)
             c == q \o told(Main)
  <2>1. b \in Seq(Names) /\ c \in Seq(Names)
    BY <1>1, <1>2, <1>3
  <2> HIDE DEF b, c
  <2>2. Range(c \o b) = Range(c) \cup Range(b)
    BY <2>1, RangeConcatenation
  <2> QED BY <2>2 DEF b, c
<1>6. Readable(v, open) = IF Controls(v) = Controls(s) THEN q ELSE (q \o told(Main)) \o told(Hw)
  BY DEF Readable, told
<1> QED BY <1>1, <1>2, <1>4, <1>5, <1>6

LEMMA SetByOthersShown ==
  ASSUME ShownInv, MaxSteps \in Nat, NEW level \in Lo..Hi, SetByOthers(level)
  PROVE  ChoiceInv' /\ MixersInv' /\ RowsInv'
<1>1. m \in Mixers /\ s \in Cards /\ q \in Seq(Names) /\ m' = m /\ steps' \in 0..MaxSteps
      /\ DOMAIN m.src \in SUBSET Names /\ Range(q) \subseteq DOMAIN m.src
  BY TableOfMixers DEF ShownInv, IInv, TypeInv, SetByOthers, MixersInv
<1>2. s'.other = s.other
  BY <1>1 DEF SetByOthers, Cards
<1>3. Range(q') \subseteq DOMAIN m.src
  <2>1. q' = Readable(s', DOMAIN m.src)
    BY DEF SetByOthers
  <2> QED BY <1>1, <2>1, ReadableOpen
<1>4. ChoiceInv'
  BY <1>1, <1>2 DEF ShownInv, ChoiceInv
<1>5. MixersInv'
  BY <1>1, <1>3 DEF ShownInv, MixersInv
<1>6. RowsInv'
  <2>1. RowsInv /\ trig' = trig /\ rows' = rows
    BY DEF ShownInv, SetByOthers
  <2> QED BY <1>1, <2>1, SameRows
<1> QED BY <1>4, <1>5, <1>6

\* A handler has run and leaves the mixers as in x
AsIn(x) ==
  /\ m'.posts = x.posts /\ m'.chosen = x.chosen /\ m'.flag = x.flag /\ m'.active = x.active
  /\ m'.calls = x.calls /\ m'.idles = x.idles /\ m'.funcs = x.funcs /\ m'.src = x.src
  /\ m'.default_name = x.default_name /\ m'.early = x.early /\ m'.again = x.again
  /\ m'.emit = <<>>

LEMMA HandlerRan ==
  ASSUME NEW x \in Mixers, DoesInTurn(x)
  PROVE  AsIn(x) /\ trig' = Queued(trig, x.emit)
<1>1. m' = [x EXCEPT !.out = <<>>, !.emit = <<>>]
  BY Zenon DEF DoesInTurn, Ran
<1>2. AsIn(x)
  BY <1>1 DEF Mixers, AsIn
<1>3. trig' = Queued(trig, x.emit)
  BY Zenon DEF DoesInTurn, Ran, Queued
<1> QED BY <1>2, <1>3

LEMMA EmitFields ==
  ASSUME NEW x \in Mixers, NEW t
  PROVE  LET y == Emit(x, t)
         IN  /\ y.posts = x.posts /\ y.chosen = x.chosen /\ y.flag = x.flag /\ y.active = x.active
             /\ y.calls = x.calls /\ y.idles = x.idles /\ y.funcs = x.funcs /\ y.src = x.src
             /\ y.default_name = x.default_name /\ y.early = x.early /\ y.again = x.again
             /\ y.emit = Append(x.emit, t)
<1> DEFINE e == Append(x.emit, t)
<1>1. Emit(x, t) = [x EXCEPT !.emit = e]
  BY DEF Emit
<1> HIDE DEF e
<1>2. Emit(x, t).emit = e
  BY <1>1 DEF Mixers
<1> QED BY <1>1, <1>2 DEF Mixers, e

LEMMA OneQueued == ASSUME NEW ts, NEW t PROVE Queued(ts, <<t>>) = QueueInTurn(ts, t)
<1>1. DOMAIN <<t>> = {1} /\ <<t>>[1] = t /\ {1} \in SUBSET UpToFive
  BY DEF UpToFive
<1>2. 1 \in {1} /\ 2 \notin {1} /\ 3 \notin {1} /\ 4 \notin {1} /\ 5 \notin {1}
  OBVIOUS
<1>3. Queued(ts, <<t>>) = Rungs(ts, <<t>>, {1})
  BY <1>1, QueuedUpToFive
<1>4. Rungs(ts, <<t>>, {1}) = QueueInTurn(ts, <<t>>[1])
  BY <1>2, Zenon DEF Rungs, Rung
<1> QED BY <1>1, <1>3, <1>4

\* A handler that only tells of a change of the volume
LEMMA VolumeTold ==
  ASSUME NEW x \in Mixers, x.emit = <<>>, DoesInTurn(Volume(x))
  PROVE  AsIn(x) /\ trig' = QueueInTurn(trig, Trigger("volume", "all"))
<1> DEFINE t == Trigger("volume", "all")
           y == Volume(x)
<1>1. y \in Mixers
  BY VolumeEmitted
<1>2. Append(<<>>, t) = <<t>>
  <2> HIDE DEF t
  <2> QED OBVIOUS
<1>3. y.emit = <<t>>
  <2>1. y.emit = Append(x.emit, t)
    BY EmitFields DEF Volume
  <2> QED BY <1>2, <2>1
<1>4. AsIn(y) /\ trig' = Queued(trig, y.emit)
  BY <1>1, HandlerRan
<1>5. AsIn(x)
  <2>1. /\ y.posts = x.posts /\ y.chosen = x.chosen /\ y.flag = x.flag /\ y.active = x.active
        /\ y.calls = x.calls /\ y.idles = x.idles /\ y.funcs = x.funcs /\ y.src = x.src
        /\ y.default_name = x.default_name /\ y.early = x.early /\ y.again = x.again
    BY EmitFields DEF Volume
  <2> HIDE DEF y
  <2> QED BY <1>4, <2>1 DEF AsIn
<1>6. trig' = QueueInTurn(trig, t)
  <2> HIDE DEF t, y
  <2> QED BY <1>3, <1>4, OneQueued
<1> QED BY <1>5, <1>6

\* ... and leaves everything but the copies and the default
LEMMA VolumeToldShown ==
  ASSUME ShownInv, NEW x \in Mixers, DoesInTurn(Volume(x)), x.emit = <<>>,
         x.posts = m.posts, x.chosen = m.chosen, x.flag = m.flag, x.active = m.active,
         x.calls = m.calls, x.idles = m.idles, x.funcs = m.funcs, x.early = m.early,
         x.again = m.again, DOMAIN x.src = DOMAIN m.src,
         x.default_name = m.default_name \/ (x.default_name \in Names /\ m.funcs),
         s'.other = s.other, Range(q') \subseteq DOMAIN m.src, steps' \in 0..MaxSteps, rows' = rows
  PROVE  ChoiceInv' /\ MixersInv' /\ RowsInv'
<1>1. AsIn(x) /\ trig' = QueueInTurn(trig, Trigger("volume", "all"))
  BY VolumeTold
<1>2. /\ m'.posts = m.posts /\ m'.chosen = m.chosen /\ m'.flag = m.flag /\ m'.active = m.active
      /\ m'.calls = m.calls /\ m'.idles = m.idles /\ m'.funcs = m.funcs /\ m'.early = m.early
      /\ DOMAIN m'.src = DOMAIN m.src /\ m'.default_name = x.default_name /\ m'.emit = <<>>
      /\ m'.again = m.again
  BY <1>1 DEF AsIn
<1>3. ChoiceInv'
  BY <1>2 DEF ShownInv, ChoiceInv
<1>4. "none" \notin Names
  BY DEF Names, Main, Hw
<1>5. MixersInv'
  BY <1>2, <1>4 DEF ShownInv, MixersInv
<1>6. RowsInv'
  BY <1>1, <1>2, RowsRenewed DEF ShownInv
<1> QED BY <1>3, <1>5, <1>6

LEMMA TailInRange == ASSUME NEW ns \in Seq(Names), ns # <<>> PROVE Range(Tail(ns)) \subseteq Range(ns)
<1>1. /\ Tail(ns) \in Seq(Names) /\ Len(Tail(ns)) = Len(ns) - 1
      /\ \A i \in 1..Len(Tail(ns)) : Tail(ns)[i] = ns[i + 1]
  BY HeadTailProperties
<1>2. Range(ns) = {ns[i] : i \in 1..Len(ns)} /\ Range(Tail(ns)) = {Tail(ns)[i] : i \in 1..Len(Tail(ns))}
  BY <1>1, RangeEquality
<1>3. \A i \in 1..Len(Tail(ns)) : i + 1 \in 1..Len(ns)
  BY <1>1
<1> QED BY <1>1, <1>2, <1>3

LEMMA DispatchesShown == ASSUME ShownInv, Dispatches PROVE ChoiceInv' /\ MixersInv' /\ RowsInv'
<1> DEFINE name == Head(q)
           f == [m.src EXCEPT ![name] = Controls(s)]
           x == [m EXCEPT !.src[name] = Controls(s)]
<1>1. m \in Mixers /\ s \in Cards /\ q \in Seq(Names) /\ q # <<>>
  BY DEF ShownInv, IInv, TypeInv, Dispatches
<1>2. m.src \in [DOMAIN m.src -> Copies] /\ DOMAIN m.src \subseteq Names
  BY <1>1, TableOfMixers
<1>3. x = [m EXCEPT !.src = f] /\ DOMAIN f = DOMAIN m.src
  BY <1>1 DEF Mixers
<1>4. f \in UNION {[names -> Copies] : names \in SUBSET Names}
  <2>1. Controls(s) \in Copies
    BY <1>1, ControlsOfCard
  <2> QED BY <1>2, <2>1, Table
<1>5. DoesInTurn(Volume(x)) /\ q' = Tail(q) /\ s' = s /\ steps' = steps /\ rows' = rows
  BY DEF Dispatches
<1>6. Range(q') \subseteq DOMAIN m.src
  <2>1. Range(Tail(q)) \subseteq Range(q)
    BY <1>1, TailInRange
  <2> QED BY <1>5, <2>1 DEF ShownInv, MixersInv
<1> HIDE DEF x, f
<1>7. /\ x \in Mixers /\ x.emit = m.emit /\ x.posts = m.posts /\ x.chosen = m.chosen /\ x.flag = m.flag
      /\ x.active = m.active /\ x.calls = m.calls /\ x.idles = m.idles /\ x.funcs = m.funcs
      /\ x.early = m.early /\ x.again = m.again /\ x.default_name = m.default_name /\ x.src = f
  BY <1>1, <1>3, <1>4 DEF Mixers
<1>8. m.emit = <<>> /\ steps' \in 0..MaxSteps
  BY <1>5 DEF ShownInv, MixersInv
<1> QED BY <1>3, <1>5, <1>6, <1>7, <1>8, VolumeToldShown

LEMMA UserDoesShown ==
  ASSUME ShownInv, MaxSteps \in Nat, NEW name \in DOMAIN m.src, NEW v \in Cards, v.other = s.other,
         NEW own \in Copies, UserDoes(name, v, own)
  PROVE  ChoiceInv' /\ MixersInv' /\ RowsInv'
<1> DEFINE f == [m.src EXCEPT ![name] = own]
           x == [m EXCEPT !.src[name] = own]
<1>1. m \in Mixers /\ q \in Seq(Names)
  BY DEF ShownInv, IInv, TypeInv
<1>2. m.src \in [DOMAIN m.src -> Copies] /\ DOMAIN m.src \in SUBSET Names
  BY <1>1, TableOfMixers
<1>3. x = [m EXCEPT !.src = f] /\ DOMAIN f = DOMAIN m.src
  BY <1>1 DEF Mixers
<1>4. f \in UNION {[names -> Copies] : names \in SUBSET Names}
  BY <1>2, Table
<1>5. DoesInTurn(Volume(x)) /\ q' = Readable(v, DOMAIN m.src) /\ s' = v /\ rows' = rows
  BY DEF UserDoes
<1>6. Range(q') \subseteq DOMAIN m.src
  BY <1>1, <1>2, <1>5, ReadableOpen DEF ShownInv, MixersInv
<1> HIDE DEF x, f
<1>7. /\ x \in Mixers /\ x.emit = m.emit /\ x.posts = m.posts /\ x.chosen = m.chosen /\ x.flag = m.flag
      /\ x.active = m.active /\ x.calls = m.calls /\ x.idles = m.idles /\ x.funcs = m.funcs
      /\ x.early = m.early /\ x.again = m.again /\ x.default_name = m.default_name /\ x.src = f
  BY <1>1, <1>3, <1>4 DEF Mixers
<1>8. m.emit = <<>> /\ steps' \in 0..MaxSteps
  BY DEF ShownInv, MixersInv, UserDoes
<1> QED BY <1>3, <1>5, <1>6, <1>7, <1>8, VolumeToldShown

LEMMA DefaultSetShown ==
  ASSUME ShownInv, MaxSteps \in Nat, NEW name \in DOMAIN m.src, DefaultSet(name)
  PROVE  ChoiceInv' /\ MixersInv' /\ RowsInv'
<1> DEFINE x == [m EXCEPT !.default_name = name]
<1>1. m \in Mixers /\ name \in Names /\ m.funcs
  BY TableOfMixers DEF ShownInv, IInv, TypeInv, DefaultSet
<1>2. DoesInTurn(Volume(x)) /\ q' = q /\ s' = s /\ rows' = rows
  BY DEF DefaultSet
<1>3. /\ x \in Mixers /\ x.emit = m.emit /\ x.posts = m.posts /\ x.chosen = m.chosen /\ x.flag = m.flag
      /\ x.active = m.active /\ x.calls = m.calls /\ x.idles = m.idles /\ x.funcs = m.funcs
      /\ x.early = m.early /\ x.again = m.again /\ x.default_name = name /\ x.src = m.src
  BY <1>1 DEF Mixers
<1>4. m.emit = <<>> /\ steps' \in 0..MaxSteps /\ Range(q) \subseteq DOMAIN m.src
  BY DEF ShownInv, MixersInv, DefaultSet
<1> HIDE DEF x
<1> QED BY <1>1, <1>2, <1>3, <1>4, VolumeToldShown

LEMMA NoneQueued == ASSUME NEW ts PROVE Queued(ts, <<>>) = ts
<1>1. DOMAIN <<>> = {} /\ {} \in SUBSET UpToFive
  OBVIOUS
<1>2. 1 \notin {} /\ 2 \notin {} /\ 3 \notin {} /\ 4 \notin {} /\ 5 \notin {}
  OBVIOUS
<1>3. Queued(ts, <<>>) = Rungs(ts, <<>>, {})
  BY <1>1, QueuedUpToFive
<1>4. Rungs(ts, <<>>, {}) = ts
  BY <1>2, Zenon DEF Rungs, Rung
<1> QED BY <1>3, <1>4

LEMMA TwoQueued ==
  ASSUME NEW ts, NEW a, NEW b PROVE Queued(ts, <<a, b>>) = QueueInTurn(QueueInTurn(ts, a), b)
<1> DEFINE e == <<a, b>>
<1>1. DOMAIN e = {1, 2} /\ e[1] = a /\ e[2] = b /\ {1, 2} \in SUBSET UpToFive
  BY DEF UpToFive
<1>2. 1 \in {1, 2} /\ 2 \in {1, 2} /\ 3 \notin {1, 2} /\ 4 \notin {1, 2} /\ 5 \notin {1, 2}
  OBVIOUS
<1> HIDE DEF e
<1>3. Queued(ts, e) = Rungs(ts, e, {1, 2})
  BY <1>1, QueuedUpToFive
<1>4. Rungs(ts, e, {1, 2}) = QueueInTurn(QueueInTurn(ts, e[1]), e[2])
  BY <1>2, Zenon DEF Rungs, Rung
<1> QED BY <1>1, <1>3, <1>4 DEF e

LEMMA ThreeQueued ==
  ASSUME NEW ts, NEW a, NEW b, NEW c
  PROVE  Queued(ts, <<a, b, c>>) = QueueInTurn(QueueInTurn(QueueInTurn(ts, a), b), c)
<1> DEFINE e == <<a, b, c>>
<1>1. DOMAIN e = {1, 2, 3} /\ e[1] = a /\ e[2] = b /\ e[3] = c /\ {1, 2, 3} \in SUBSET UpToFive
  BY DEF UpToFive
<1>2. 1 \in {1, 2, 3} /\ 2 \in {1, 2, 3} /\ 3 \in {1, 2, 3} /\ 4 \notin {1, 2, 3} /\ 5 \notin {1, 2, 3}
  OBVIOUS
<1> HIDE DEF e
<1>3. Queued(ts, e) = Rungs(ts, e, {1, 2, 3})
  BY <1>1, QueuedUpToFive
<1>4. Rungs(ts, e, {1, 2, 3}) = QueueInTurn(QueueInTurn(QueueInTurn(ts, e[1]), e[2]), e[3])
  BY <1>2, Zenon DEF Rungs, Rung
<1> QED BY <1>1, <1>3, <1>4 DEF e

LEMMA Appended ==
  ASSUME NEW a, NEW b, NEW c
  PROVE  Append(<<>>, a) = <<a>> /\ Append(<<a>>, b) = <<a, b>> /\ Append(<<a, b>>, c) = <<a, b, c>>
<1> DEFINE S == {a, b, c}
<1>1. a \in S /\ b \in S /\ c \in S
  OBVIOUS
<1> HIDE DEF S
<1>2. <<>> \in Seq(S) /\ <<a>> \in Seq(S) /\ <<a, b>> \in Seq(S)
  BY <1>1
<1>3. Append(<<>>, a) = <<a>>
  OBVIOUS
<1>4. Append(<<a>>, b) = <<a, b>>
  <2> DEFINE l == Append(<<a>>, b)
             r == <<a, b>>
  <2>1. l \in Seq(S) /\ Len(l) = 2 /\ l[1] = a /\ l[2] = b
    BY <1>1, <1>2
  <2>2. r \in Seq(S) /\ Len(r) = 2 /\ r[1] = a /\ r[2] = b
    BY <1>1
  <2> HIDE DEF l, r
  <2>3. \A i \in 1..Len(l) : l[i] = r[i]
    BY <2>1, <2>2
  <2> QED BY <2>1, <2>2, <2>3, SeqEqual DEF l, r
<1>5. Append(<<a, b>>, c) = <<a, b, c>>
  <2> DEFINE l == Append(<<a, b>>, c)
             r == <<a, b, c>>
  <2>1. l \in Seq(S) /\ Len(l) = 3 /\ l[1] = a /\ l[2] = b /\ l[3] = c
    BY <1>1, <1>2
  <2>2. r \in Seq(S) /\ Len(r) = 3 /\ r[1] = a /\ r[2] = b /\ r[3] = c
    BY <1>1
  <2> HIDE DEF l, r
  <2>3. \A i \in 1..Len(l) : l[i] = r[i]
    BY <2>1, <2>2
  <2> QED BY <2>1, <2>2, <2>3, SeqEqual DEF l, r
<1> QED BY <1>3, <1>4, <1>5

\* The next callback that waits is run
CalledTo(on) == Called /\ Head(m.calls) = on

\* The interface's functions are turned on
LEMMA ActivateShown ==
  ASSUME ShownInv, CalledTo(TRUE) PROVE ChoiceInv' /\ MixersInv' /\ RowsInv'
<1> DEFINE x == [m EXCEPT !.calls = Tail(@)]
           k == m.idles + 1
           y == Activate(x)
<1>1. m \in Mixers /\ m.calls # <<>> /\ m.calls \in Seq(BOOLEAN) /\ m.emit = <<>>
  BY DEF ShownInv, IInv, TypeInv, CalledTo, Called, Mixers, MixersInv
<1>2. Head(m.calls) = TRUE
  BY DEF CalledTo
<1>3. TRUE # m.funcs /\ Linked(TRUE, Tail(m.calls), m.chosen)
  <2>1. Linked(m.funcs, m.calls, m.chosen)
    BY DEF ShownInv, ChoiceInv
  <2> QED BY <1>1, <1>2, <2>1, LinkedNext
<1>4. ~m.funcs /\ DOMAIN m.src = {} /\ m.default_name = "none" /\ k \in Nat /\ k # 0
  <2>1. m.funcs \in BOOLEAN /\ m.idles \in Nat
    BY <1>1 DEF Mixers
  <2>2. ~m.funcs
    BY <1>3, <2>1
  <2>3. k \in Nat /\ k # 0
    <3>1. \A j \in Nat : j + 1 \in Nat /\ j + 1 # 0
      OBVIOUS
    <3> QED BY <2>1, <3>1, Zenon
  <2> QED BY <2>2, <2>3 DEF ShownInv, MixersInv
<1>5. DoesInTurn(y) /\ q' = q /\ s' = s /\ rows' = rows /\ steps' = steps
  BY DEF CalledTo, Called
<1>6. y = [m EXCEPT !.calls = Tail(m.calls), !.funcs = TRUE, !.idles = k] /\ Tail(m.calls) \in Seq(BOOLEAN)
  <2>1. y = [x EXCEPT !.funcs = TRUE, !.idles = x.idles + 1]
    BY DEF Activate
  <2>2. x.idles = m.idles
    BY <1>1 DEF Mixers
  <2>3. Tail(m.calls) \in Seq(BOOLEAN)
    BY <1>1, HeadTailProperties
  <2> HIDE DEF y
  <2> QED BY <1>1, <2>1, <2>2, <2>3 DEF Mixers
<1> HIDE DEF x, y, k
<1>7. /\ y \in Mixers /\ y.emit = <<>> /\ y.posts = m.posts /\ y.chosen = m.chosen /\ y.flag = m.flag
      /\ y.active = m.active /\ y.calls = Tail(m.calls) /\ y.idles = k /\ y.funcs = TRUE
      /\ y.early = m.early /\ y.again = m.again /\ y.default_name = "none" /\ y.src = m.src
  BY <1>1, <1>4, <1>6 DEF Mixers
<1>8. AsIn(y) /\ trig' = trig
  <2>1. AsIn(y) /\ trig' = Queued(trig, y.emit)
    BY <1>5, <1>7, HandlerRan, Zenon
  <2> QED BY <1>7, <2>1, NoneQueued
<1>9. /\ m'.posts = m.posts /\ m'.chosen = m.chosen /\ m'.flag = m.flag
      /\ m'.active = m.active /\ m'.calls = Tail(m.calls) /\ m'.idles = k /\ m'.funcs = TRUE
      /\ m'.early = m.early /\ m'.again = m.again /\ m'.default_name = "none" /\ m'.src = m.src
      /\ m'.emit = <<>>
  BY <1>7, <1>8 DEF AsIn
<1>10. Tail(m.calls) = <<>> => m.chosen = TRUE
  BY <1>3 DEF Linked
<1>11. ChoiceInv'
  BY <1>3, <1>4, <1>5, <1>9, <1>10 DEF ShownInv, ChoiceInv
<1>12. MixersInv'
  BY <1>4, <1>5, <1>9 DEF ShownInv, MixersInv
<1>13. RowsInv'
  BY <1>4, <1>5, <1>8, <1>9, RowsStay DEF ShownInv
<1> QED BY <1>11, <1>12, <1>13

\* A source is closed: its row is told to go
Removed(name) == Trigger("volume-conf-removed", name)
Rang(ts, rings, t) == IF rings THEN QueueInTurn(ts, t) ELSE ts

LEMMA RemovedGoes ==
  ASSUME NEW ts \in TriggerSeqs, NEW name \in Names, NEW rings \in BOOLEAN, NEW r
  PROVE  LET us == Rang(ts, rings, Removed(name))
         IN  /\ us \in TriggerSeqs
             /\ \A n : n # name /\ Goes(ts, r, n) => Goes(us, r, n)
             /\ rings \/ Goes(ts, r, name) => Goes(us, r, name)
<1> DEFINE t == Removed(name)
           us == QueueInTurn(ts, t)
<1>1. t \in Told /\ t.of = name /\ t.t = "volume-conf-removed"
  BY DEF Told, Removed, Trigger
<1> HIDE DEF t
<1>2. us \in TriggerSeqs /\ LastFor(us, name, "volume-conf-removed")
  <2>1. us \in TriggerSeqs /\ LastFor(us, t.of, t.t)
    BY <1>1, OneMore
  <2> HIDE DEF us
  <2> QED BY <1>1, <2>1
<1>3. \A n : n # name /\ Goes(ts, r, n) => Goes(us, r, n)
  BY <1>1, StillComes
<1>4. Goes(us, r, name)
  BY <1>2, Zenon DEF Goes
<1> HIDE DEF us
<1>5. Rang(ts, rings, t) = IF rings THEN us ELSE ts
  BY Zenon DEF Rang, us
<1> QED BY <1>2, <1>3, <1>4, <1>5 DEF t

LEMMA FinalizeFields ==
  ASSUME NEW x \in Mixers, NEW name \in Names
  PROVE  LET y == Finalize(x, name)
         IN  /\ y.posts = x.posts /\ y.chosen = x.chosen /\ y.flag = x.flag /\ y.active = x.active
             /\ y.calls = x.calls /\ y.idles = x.idles /\ y.funcs = x.funcs
             /\ y.default_name = x.default_name /\ y.early = x.early
             /\ y.emit = IF name \in DOMAIN x.src THEN Append(x.emit, Removed(name)) ELSE x.emit
<1>1. CASE name \notin DOMAIN x.src
  BY <1>1 DEF Finalize
<1>2. CASE name \in DOMAIN x.src
  <2> DEFINE f == Restrict(x.src, DOMAIN x.src \ {name})
             w == [x EXCEPT !.src = f]
             y == Finalize(x, name)
  <2>1. x.src \in [DOMAIN x.src -> Copies] /\ DOMAIN x.src \subseteq Names
    BY Table DEF Mixers
  <2>2. f \in UNION {[names -> Copies] : names \in SUBSET Names}
    BY <2>1, Table DEF Restrict
  <2>3. y = Emit(w, Removed(name))
    BY <1>2 DEF Finalize, Removed
  <2> HIDE DEF f
  <2>4. /\ w \in Mixers /\ w.posts = x.posts /\ w.chosen = x.chosen /\ w.flag = x.flag
        /\ w.active = x.active /\ w.calls = x.calls /\ w.idles = x.idles /\ w.funcs = x.funcs
        /\ w.default_name = x.default_name /\ w.early = x.early /\ w.emit = x.emit
    BY <2>2 DEF Mixers
  <2> HIDE DEF w, y
  <2>5. /\ y.posts = w.posts /\ y.chosen = w.chosen /\ y.flag = w.flag /\ y.active = w.active
        /\ y.calls = w.calls /\ y.idles = w.idles /\ y.funcs = w.funcs
        /\ y.default_name = w.default_name /\ y.early = w.early /\ y.emit = Append(w.emit, Removed(name))
    BY <2>3, <2>4, EmitFields
  <2> QED BY <1>2, <2>4, <2>5 DEF y
<1> QED BY <1>1, <1>2

\* ... and off
LEMMA DeactivateShown ==
  ASSUME ShownInv, CalledTo(FALSE) PROVE ChoiceInv' /\ MixersInv' /\ RowsInv'
<1> DEFINE x == [m EXCEPT !.calls = Tail(@)]
           y == Finalize(x, Main)
           z == Finalize(y, Hw)
           w == Deactivate(x)
           one == Rang(trig, Main \in DOMAIN m.src, Removed(Main))
           two == Rang(one, Hw \in DOMAIN m.src, Removed(Hw))
<1>1. /\ m \in Mixers /\ m.calls # <<>> /\ m.calls \in Seq(BOOLEAN) /\ m.emit = <<>>
      /\ Main \in Names /\ Hw \in Names /\ Main # Hw /\ \A n \in Names : n = Main \/ n = Hw
      /\ DOMAIN m.src \subseteq Names /\ trig \in TriggerSeqs
  BY TableOfMixers DEF ShownInv, IInv, TypeInv, CalledTo, Called, Mixers, MixersInv, Names, Main, Hw, RowsInv, RowsOf
<1>2. Head(m.calls) = FALSE
  BY DEF CalledTo
<1>3. Linked(FALSE, Tail(m.calls), m.chosen)
  <2>1. Linked(m.funcs, m.calls, m.chosen)
    BY DEF ShownInv, ChoiceInv
  <2> QED BY <1>1, <1>2, <2>1, LinkedNext
<1>4. DoesInTurn(w) /\ q' = <<>> /\ s' = s /\ rows' = rows /\ steps' = steps
  BY DEF CalledTo, Called
<1>5. w = [z EXCEPT !.default_name = "none", !.funcs = FALSE, !.active = FALSE, !.again = FALSE]
  BY DEF Deactivate
<1>6. /\ x \in Mixers /\ x.posts = m.posts /\ x.chosen = m.chosen /\ x.flag = m.flag
      /\ x.calls = Tail(m.calls) /\ x.idles = m.idles /\ x.early = m.early /\ x.emit = <<>> /\ x.src = m.src
  <2>1. Tail(m.calls) \in Seq(BOOLEAN)
    BY <1>1, HeadTailProperties
  <2> QED BY <1>1, <2>1 DEF Mixers
<1> HIDE DEF x, w
<1>7. /\ y \in Mixers /\ y.posts = m.posts /\ y.chosen = m.chosen /\ y.flag = m.flag
      /\ y.calls = Tail(m.calls) /\ y.idles = m.idles /\ y.early = m.early
      /\ y.emit = IF Main \in DOMAIN m.src THEN Append(<<>>, Removed(Main)) ELSE <<>>
      /\ DOMAIN y.src = DOMAIN m.src \ {Main}
  <2>1. /\ y \in Mixers /\ y.posts = x.posts /\ y.chosen = x.chosen /\ y.flag = x.flag
        /\ y.calls = x.calls /\ y.idles = x.idles /\ y.early = x.early
        /\ y.emit = IF Main \in DOMAIN x.src THEN Append(x.emit, Removed(Main)) ELSE x.emit
        /\ DOMAIN y.src = DOMAIN x.src \ {Main}
    BY <1>1, <1>6, Finalized, FinalizeFields
  <2> HIDE DEF y, z, one, two
  <2> QED BY <1>6, <2>1
<1> HIDE DEF y
<1>8. /\ z \in Mixers /\ z.posts = m.posts /\ z.chosen = m.chosen /\ z.flag = m.flag
      /\ z.calls = Tail(m.calls) /\ z.idles = m.idles /\ z.early = m.early
      /\ z.emit = IF Hw \in DOMAIN m.src THEN Append(y.emit, Removed(Hw)) ELSE y.emit
      /\ DOMAIN z.src = {}
  <2>1. Hw \in DOMAIN y.src <=> Hw \in DOMAIN m.src
    BY <1>1, <1>7
  <2>2. /\ z \in Mixers /\ z.posts = y.posts /\ z.chosen = y.chosen /\ z.flag = y.flag
        /\ z.calls = y.calls /\ z.idles = y.idles /\ z.early = y.early
        /\ z.emit = IF Hw \in DOMAIN y.src THEN Append(y.emit, Removed(Hw)) ELSE y.emit
        /\ DOMAIN z.src = DOMAIN y.src \ {Hw}
    BY <1>1, <1>7, Finalized, FinalizeFields
  <2>3. DOMAIN y.src \ {Hw} = {}
    BY <1>1, <1>7
  <2> HIDE DEF z
  <2> QED BY <1>7, <2>1, <2>2, <2>3
<1> HIDE DEF z
<1>9. /\ w \in Mixers /\ w.posts = m.posts /\ w.chosen = m.chosen /\ w.flag = m.flag
      /\ w.calls = Tail(m.calls) /\ w.idles = m.idles /\ w.early = m.early /\ w.emit = z.emit
      /\ DOMAIN w.src = {} /\ w.funcs = FALSE /\ w.active = FALSE /\ w.default_name = "none"
  BY <1>5, <1>8 DEF Mixers
<1>10. AsIn(w) /\ trig' = Queued(trig, z.emit)
  <2>1. AsIn(w) /\ trig' = Queued(trig, w.emit)
    BY <1>4, <1>9, HandlerRan, Zenon
  <2> QED BY <1>9, <2>1
<1>11. /\ m'.posts = m.posts /\ m'.chosen = m.chosen /\ m'.flag = m.flag
       /\ m'.active = FALSE /\ m'.calls = Tail(m.calls) /\ m'.idles = m.idles /\ m'.funcs = FALSE
       /\ m'.early = m.early /\ m'.default_name = "none" /\ DOMAIN m'.src = {} /\ m'.emit = <<>>
  BY <1>9, <1>10 DEF AsIn
<1>12. ChoiceInv'
  BY <1>3, <1>4, <1>11 DEF ShownInv, ChoiceInv
<1>13. MixersInv'
  <2>1. Range(<<>>) = {}
    BY DEF Range
  <2> QED BY <1>4, <1>11, <2>1 DEF ShownInv, MixersInv
<1>14. trig' = two
  <2> DEFINE a == Removed(Main)
             b == Removed(Hw)
  <2>1. Append(<<>>, a) = <<a>> /\ Append(<<>>, b) = <<b>> /\ Append(<<a>>, b) = <<a, b>>
    BY Appended
  <2> HIDE DEF a, b
  <2>2. CASE Main \in DOMAIN m.src /\ Hw \in DOMAIN m.src
    <3>1. z.emit = <<a, b>>
      BY <1>7, <1>8, <2>1, <2>2 DEF a, b
    <3>2. two = QueueInTurn(QueueInTurn(trig, a), b)
      BY <2>2, Zenon DEF Rang, a, b
    <3> HIDE DEF two
    <3> QED BY <1>10, <3>1, <3>2, TwoQueued
  <2>3. CASE Main \in DOMAIN m.src /\ Hw \notin DOMAIN m.src
    <3>1. z.emit = <<a>>
      BY <1>7, <1>8, <2>1, <2>3 DEF a, b
    <3>2. two = QueueInTurn(trig, a)
      BY <2>3, Zenon DEF Rang, a, b
    <3> HIDE DEF two
    <3> QED BY <1>10, <3>1, <3>2, OneQueued
  <2>4. CASE Main \notin DOMAIN m.src /\ Hw \in DOMAIN m.src
    <3>1. z.emit = <<b>>
      BY <1>7, <1>8, <2>1, <2>4 DEF a, b
    <3>2. two = QueueInTurn(trig, b)
      BY <2>4, Zenon DEF Rang, a, b
    <3> HIDE DEF two
    <3> QED BY <1>10, <3>1, <3>2, OneQueued
  <2>5. CASE Main \notin DOMAIN m.src /\ Hw \notin DOMAIN m.src
    <3>1. z.emit = <<>>
      BY <1>7, <1>8, <2>5
    <3>2. two = trig
      BY <2>5, Zenon DEF Rang
    <3> HIDE DEF two
    <3> QED BY <1>10, <3>1, <3>2, NoneQueued
  <2> QED BY <2>2, <2>3, <2>4, <2>5
<1>15. \A n \in Names : n \notin DOMAIN m.src => Goes(trig, DOMAIN rows, n)
  BY Zenon DEF ShownInv, RowsInv, RowsOf
<1>16. /\ one \in TriggerSeqs /\ Goes(one, DOMAIN rows, Main)
       /\ Goes(trig, DOMAIN rows, Hw) => Goes(one, DOMAIN rows, Hw)
  <2>1. (Main \in DOMAIN m.src) \in BOOLEAN
    OBVIOUS
  <2> QED BY <1>1, <1>15, <2>1, RemovedGoes
<1> HIDE DEF one
<1>17. two \in TriggerSeqs /\ Goes(two, DOMAIN rows, Main) /\ Goes(two, DOMAIN rows, Hw)
  <2>1. (Hw \in DOMAIN m.src) \in BOOLEAN
    OBVIOUS
  <2> QED BY <1>1, <1>15, <1>16, <2>1, RemovedGoes
<1> HIDE DEF two
<1>18. RowsOf(two, rows, m')
  <2>1. \A n \in Names : Goes(two, DOMAIN rows, n)
    BY <1>1, <1>17
  <2>2. DOMAIN rows \subseteq Names
    BY Zenon DEF ShownInv, RowsInv, RowsOf
  <2> QED BY <1>11, <1>17, <2>1, <2>2 DEF RowsOf
<1> QED BY <1>4, <1>12, <1>13, <1>14, <1>18 DEF RowsInv

\* A source is opened, or bails out: its row is told to come, or to go
Opened(x, name) == Trigger(IF x.active THEN "volume-conf" ELSE "volume-conf-removed", name)

LEMMA SubscribeFields ==
  ASSUME NEW x \in Mixers, NEW name \in Names, NEW seen, s \in Cards
  PROVE  LET y == Subscribe(x, name, seen)
             e == Append(x.emit, Opened(x, name))
         IN  /\ y.posts = x.posts /\ y.chosen = x.chosen /\ y.flag = x.flag /\ y.active = x.active
             /\ y.calls = x.calls /\ y.idles = x.idles /\ y.funcs = x.funcs
             /\ y.emit = e \/ y.emit = Append(e, Removed(name))
             /\ ~x.active \/ name \notin DOMAIN seen.src => y.emit = e
             /\ x.active => /\ DOMAIN y.src = DOMAIN x.src \cup {name} /\ y.early = x.early
                            /\ y.default_name # "none" /\ y.again = (x.again \/ name \in DOMAIN x.src)
             /\ ~x.active => /\ y.src = x.src /\ y.early = (x.early \/ x.chosen)
                             /\ y.default_name = x.default_name /\ y.again = x.again
<1>0. name # "none"
  BY DEF Names, Main, Hw
<1>1. CASE ~x.active
  <2> DEFINE w == [x EXCEPT !.early = @ \/ x.chosen]
             y == Subscribe(x, name, seen)
  <2>1. /\ w \in Mixers /\ w.posts = x.posts /\ w.chosen = x.chosen /\ w.flag = x.flag
        /\ w.active = x.active /\ w.calls = x.calls /\ w.idles = x.idles /\ w.funcs = x.funcs
        /\ w.default_name = x.default_name /\ w.early = (x.early \/ x.chosen) /\ w.emit = x.emit
        /\ w.src = x.src /\ w.again = x.again
    BY DEF Mixers
  <2>2. y = Emit(w, Opened(x, name))
    BY <1>1 DEF Subscribe, Opened
  <2> HIDE DEF w, y
  <2>3. /\ y.posts = w.posts /\ y.chosen = w.chosen /\ y.flag = w.flag /\ y.active = w.active
        /\ y.calls = w.calls /\ y.idles = w.idles /\ y.funcs = w.funcs /\ y.src = w.src
        /\ y.default_name = w.default_name /\ y.early = w.early /\ y.again = w.again
        /\ y.emit = Append(w.emit, Opened(x, name))
    BY <2>1, <2>2, EmitFields
  <2> QED BY <1>1, <2>1, <2>3 DEF y
<1>2. CASE x.active
  <2> DEFINE f == [n \in DOMAIN x.src \cup {name} |-> IF n = name THEN Controls(s) ELSE x.src[n]]
             d == IF x.default_name = "none" THEN name ELSE x.default_name
             g == x.again \/ name \in DOMAIN x.src
             w == [x EXCEPT !.src = f, !.default_name = d, !.again = g]
             z == Emit(w, Opened(x, name))
             v == Emit(z, Removed(name))
             y == Subscribe(x, name, seen)
  <2>1. x.src \in [DOMAIN x.src -> Copies] /\ DOMAIN x.src \subseteq Names
    BY Table DEF Mixers
  <2>2. f \in UNION {[names -> Copies] : names \in SUBSET Names} /\ DOMAIN f = DOMAIN x.src \cup {name}
    BY <2>1, Table, ControlsOfCard
  <2>3. y = IF name \in DOMAIN seen.src THEN v ELSE z
    <3>1. Opened(x, name) = Trigger("volume-conf", name)
      BY <1>2, Zenon DEF Opened
    <3> DEFINE k == [x EXCEPT !.src = [n \in DOMAIN @ \cup {name} |-> IF n = name THEN Controls(s) ELSE @[n]],
                              !.default_name = IF @ = "none" THEN name ELSE @,
                              !.again = @ \/ name \in DOMAIN x.src]
               l == Emit(k, Trigger("volume-conf", name))
    <3>2. y = IF name \in DOMAIN seen.src THEN Emit(l, Trigger("volume-conf-removed", name)) ELSE l
      BY <1>2 DEF Subscribe
    <3>3. k = w
      BY Zenon
    <3> HIDE DEF k, w
    <3> QED BY <3>1, <3>2, <3>3, Zenon DEF Removed
  <2>4. d \in Names /\ d # "none" /\ g \in BOOLEAN
    BY <1>0 DEF Mixers
  <2>5. g = (x.again \/ name \in DOMAIN x.src)
    OBVIOUS
  <2> HIDE DEF f, d, g
  <2>6. /\ w \in Mixers /\ w.posts = x.posts /\ w.chosen = x.chosen /\ w.flag = x.flag
        /\ w.active = x.active /\ w.calls = x.calls /\ w.idles = x.idles /\ w.funcs = x.funcs
        /\ w.default_name = d /\ w.early = x.early /\ w.emit = x.emit /\ w.src = f /\ w.again = g
    BY <2>2, <2>4 DEF Mixers
  <2> HIDE DEF w, y
  <2>7. /\ z.posts = w.posts /\ z.chosen = w.chosen /\ z.flag = w.flag /\ z.active = w.active
        /\ z.calls = w.calls /\ z.idles = w.idles /\ z.funcs = w.funcs /\ z.src = w.src
        /\ z.default_name = w.default_name /\ z.early = w.early /\ z.again = w.again
        /\ z.emit = Append(w.emit, Opened(x, name))
    BY <2>6, EmitFields
  <2>8. z \in Mixers
    BY <1>2, <2>6, Emitted DEF Opened, Kinds
  <2> HIDE DEF z
  <2>9. /\ v.posts = z.posts /\ v.chosen = z.chosen /\ v.flag = z.flag /\ v.active = z.active
        /\ v.calls = z.calls /\ v.idles = z.idles /\ v.funcs = z.funcs /\ v.src = z.src
        /\ v.default_name = z.default_name /\ v.early = z.early /\ v.again = z.again
        /\ v.emit = Append(z.emit, Removed(name))
    BY <2>8, EmitFields
  <2> HIDE DEF v
  <2>10. CASE name \in DOMAIN seen.src
    <3>1. y = v
      BY <2>3, <2>10
    <3> QED BY <1>2, <2>2, <2>4, <2>5, <2>6, <2>7, <2>9, <2>10, <3>1 DEF y
  <2>11. CASE name \notin DOMAIN seen.src
    <3>1. y = z
      BY <2>3, <2>11
    <3> QED BY <1>2, <2>2, <2>4, <2>5, <2>6, <2>7, <3>1 DEF y
  <2> QED BY <2>10, <2>11
<1> QED BY <1>1, <1>2

LEMMA CalledShown == ASSUME ShownInv, Called PROVE ChoiceInv' /\ MixersInv' /\ RowsInv'
<1>1. Head(m.calls) \in BOOLEAN
  <2>1. m.calls \in Seq(BOOLEAN) /\ m.calls # <<>>
    BY DEF ShownInv, IInv, TypeInv, Mixers, Called
  <2> QED BY <2>1, HeadTailProperties
<1>2. CalledTo(TRUE) \/ CalledTo(FALSE)
  <2>1. PICK on \in BOOLEAN : on = Head(m.calls)
    BY <1>1, Zenon
  <2>2. CalledTo(on)
    BY <2>1, Zenon DEF CalledTo
  <2>3. on = TRUE \/ on = FALSE
    BY Zenon
  <2> QED BY <2>2, <2>3
<1> QED BY <1>2, ActivateShown, DeactivateShown

\* A row is told to come, or to go
LEMMA OpenedTells ==
  ASSUME NEW ts \in TriggerSeqs, NEW name \in Names, NEW x, NEW r
  PROVE  LET us == QueueInTurn(ts, Opened(x, name))
         IN  /\ us \in TriggerSeqs
             /\ x.active => Comes(us, r, name)
             /\ ~x.active => Goes(us, r, name)
             /\ \A n : n # name => /\ Comes(ts, r, n) => Comes(us, r, n)
                                   /\ Goes(ts, r, n) => Goes(us, r, n)
<1> DEFINE t == Opened(x, name)
           us == QueueInTurn(ts, t)
<1>1. t \in Told /\ t.of = name
  BY DEF Told, Opened, Trigger
<1>2. x.active => t.t = "volume-conf"
  BY DEF Opened, Trigger
<1>3. ~x.active => t.t = "volume-conf-removed"
  BY DEF Opened, Trigger
<1> HIDE DEF t
<1>4. us \in TriggerSeqs /\ LastFor(us, name, t.t)
  <2>1. us \in TriggerSeqs /\ LastFor(us, t.of, t.t)
    BY <1>1, OneMore
  <2> HIDE DEF us
  <2> QED BY <1>1, <2>1
<1>5. \A n : n # name => /\ Comes(ts, r, n) => Comes(us, r, n)
                         /\ Goes(ts, r, n) => Goes(us, r, n)
  BY <1>1, StillComes
<1> HIDE DEF us
<1>6. x.active => Comes(us, r, name)
  BY <1>2, <1>4 DEF Comes
<1>7. ~x.active => Goes(us, r, name)
  BY <1>3, <1>4 DEF Goes
<1> QED BY <1>4, <1>5, <1>6, <1>7 DEF us, t

\* The triggers of a handler are of the kinds that are told
LEMMA ToldStay ==
  ASSUME NEW ts \in TriggerSeqs, NEW e \in Seq(Told), Len(e) <= 5
  PROVE  Queued(ts, e) \in TriggerSeqs
<1>1. DOMAIN e \in SUBSET UpToFive /\ \A i \in DOMAIN e : e[i] \in Told
  BY DEF UpToFive
<1>2. ASSUME NEW us \in TriggerSeqs, NEW i PROVE Rung(us, e, DOMAIN e, i) \in TriggerSeqs
  <2>1. CASE i \in DOMAIN e
    <3>1. QueueInTurn(us, e[i]) \in TriggerSeqs
      BY <1>1, <2>1, OneMore
    <3> QED BY <2>1, <3>1, Zenon DEF Rung
  <2>2. CASE i \notin DOMAIN e
    BY <2>2, Zenon DEF Rung
  <2> QED BY <2>1, <2>2
<1>3. Queued(ts, e) = Rungs(ts, e, DOMAIN e)
  BY <1>1, QueuedUpToFive
<1>4. Rungs(ts, e, DOMAIN e) \in TriggerSeqs
  BY <1>2, Zenon DEF Rungs
<1> QED BY <1>3, <1>4

\* A source is opened: its triggers
LEMMA SubscribeTells ==
  ASSUME NEW x \in Mixers, NEW name \in Names, NEW seen, s \in Cards, NEW k \in Nat,
         x.emit \in Seq(Told), Len(x.emit) <= k
  PROVE  Subscribe(x, name, seen).emit \in Seq(Told) /\ Len(Subscribe(x, name, seen).emit) <= k + 2
<1> DEFINE o == Opened(x, name)
           d == Removed(name)
           e == Append(x.emit, o)
           y == Subscribe(x, name, seen)
<1>1. o \in Told /\ d \in Told
  BY DEF Told, Opened, Removed
<1>2. y.emit = e \/ y.emit = Append(e, d)
  BY SubscribeFields
<1> HIDE DEF o, d, y
<1>3. e \in Seq(Told) /\ Len(e) = Len(x.emit) + 1
  BY <1>1, AppendProperties
<1> HIDE DEF e
<1>4. Append(e, d) \in Seq(Told) /\ Len(Append(e, d)) = Len(e) + 1
  BY <1>1, <1>3, AppendProperties
<1>5. Len(x.emit) \in Nat
  OBVIOUS
<1>6. Len(e) <= k + 2 /\ Len(Append(e, d)) <= k + 2
  BY <1>3, <1>4, <1>5
<1>7. y.emit \in Seq(Told) /\ Len(y.emit) <= k + 2
  BY <1>2, <1>3, <1>4, <1>6
<1> QED BY <1>7 DEF y

LEMMA SubscribesAllShown == ASSUME ShownInv, SubscribesAll PROVE ChoiceInv' /\ MixersInv' /\ RowsInv'
<1>1. /\ m \in Mixers /\ s \in Cards /\ m.calls = <<>> /\ m.emit = <<>> /\ m.active \in BOOLEAN
      /\ Main \in Names /\ Hw \in Names /\ Main # Hw /\ Names = {Main, Hw} /\ DOMAIN m.src \subseteq Names
      /\ trig \in TriggerSeqs /\ DOMAIN rows \subseteq Names
  BY TableOfMixers
     DEF ShownInv, IInv, TypeInv, SubscribesAll, Mixers, MixersInv, Names, Main, Hw, RowsInv, RowsOf
<1>0. PICK seen \in Seen(m) : DoesInTurn(Volume(Subscribe(Subscribe([m EXCEPT !.idles = @ - 1], Main, seen), Hw, seen)))
  BY Zenon DEF SubscribesAll
<1> DEFINE x == [m EXCEPT !.idles = @ - 1]
           y == Subscribe(x, Main, seen)
           z == Subscribe(y, Hw, seen)
           w == Volume(z)
           a == Opened(m, Main)
           b == Opened(m, Hw)
           c == Trigger("volume", "all")
           sole == ~m.active \/ (seen = m /\ DOMAIN m.src = {})
<1>2. DoesInTurn(w) /\ q' = (IF m.active THEN <<>> ELSE q) /\ s' = s /\ rows' = rows /\ steps' = steps
  BY <1>0, Zenon DEF SubscribesAll
<1>3. /\ x \in Mixers /\ x.posts = m.posts /\ x.chosen = m.chosen /\ x.flag = m.flag /\ x.active = m.active
      /\ x.calls = <<>> /\ x.funcs = m.funcs /\ x.early = m.early /\ x.emit = <<>> /\ x.src = m.src
      /\ x.default_name = m.default_name /\ x.again = m.again
  <2>1. m.idles > 0
    BY DEF SubscribesAll
  <2>2. m.idles - 1 \in Nat
    BY <1>1, <2>1 DEF Mixers
  <2> QED BY <1>1, <2>2 DEF Mixers
<1> HIDE DEF a, b, c, x, y, z, w
<1>4. /\ y \in Mixers /\ y.posts = m.posts /\ y.chosen = m.chosen /\ y.flag = m.flag /\ y.active = m.active
      /\ y.calls = <<>> /\ y.funcs = m.funcs
      /\ sole => y.emit = Append(<<>>, a)
      /\ m.active => /\ DOMAIN y.src = DOMAIN m.src \cup {Main} /\ y.early = m.early
                     /\ y.default_name # "none" /\ y.again = (m.again \/ Main \in DOMAIN m.src)
      /\ ~m.active => /\ y.src = m.src /\ y.early = (m.early \/ m.chosen)
                      /\ y.default_name = m.default_name
  <2>1. Opened(x, Main) = a
    BY <1>3 DEF Opened, a
  <2>2. y \in Mixers
    BY <1>1, <1>3, Subscribed DEF y
  <2>3. /\ y.posts = x.posts /\ y.chosen = x.chosen /\ y.flag = x.flag /\ y.active = x.active
        /\ y.calls = x.calls /\ y.funcs = x.funcs
        /\ ~x.active \/ Main \notin DOMAIN seen.src => y.emit = Append(x.emit, Opened(x, Main))
        /\ x.active => /\ DOMAIN y.src = DOMAIN x.src \cup {Main} /\ y.early = x.early
                       /\ y.default_name # "none" /\ y.again = (x.again \/ Main \in DOMAIN x.src)
        /\ ~x.active => /\ y.src = x.src /\ y.early = (x.early \/ x.chosen)
                        /\ y.default_name = x.default_name
    BY <1>1, <1>3, SubscribeFields DEF y
  <2>4. sole => ~x.active \/ Main \notin DOMAIN seen.src
    BY <1>3
  <2> HIDE DEF sole
  <2> QED BY <1>3, <2>1, <2>2, <2>3, <2>4
<1>5. /\ z \in Mixers /\ z.posts = m.posts /\ z.chosen = m.chosen /\ z.flag = m.flag /\ z.active = m.active
      /\ z.calls = <<>> /\ z.funcs = m.funcs
      /\ sole => z.emit = Append(Append(<<>>, a), b)
      /\ m.active => /\ DOMAIN z.src = Names /\ z.early = m.early /\ z.default_name # "none"
                     /\ z.again = (m.again \/ Main \in DOMAIN m.src \/ Hw \in DOMAIN m.src)
      /\ ~m.active => /\ z.src = m.src /\ z.early = (m.early \/ m.chosen)
                      /\ z.default_name = m.default_name
  <2>1. Opened(y, Hw) = b
    BY <1>4 DEF Opened, b
  <2>2. z \in Mixers
    BY <1>1, <1>4, Subscribed DEF z
  <2>3. /\ z.posts = y.posts /\ z.chosen = y.chosen /\ z.flag = y.flag /\ z.active = y.active
        /\ z.calls = y.calls /\ z.funcs = y.funcs
        /\ ~y.active \/ Hw \notin DOMAIN seen.src => z.emit = Append(y.emit, Opened(y, Hw))
        /\ y.active => /\ DOMAIN z.src = DOMAIN y.src \cup {Hw} /\ z.early = y.early
                       /\ z.default_name # "none" /\ z.again = (y.again \/ Hw \in DOMAIN y.src)
        /\ ~y.active => /\ z.src = y.src /\ z.early = (y.early \/ y.chosen)
                        /\ z.default_name = y.default_name
    BY <1>1, <1>4, SubscribeFields DEF z
  <2>4. m.active => DOMAIN z.src = Names /\ (Hw \in DOMAIN y.src <=> Hw \in DOMAIN m.src)
    BY <1>1, <1>4, <2>3
  <2>5. sole => ~y.active \/ Hw \notin DOMAIN seen.src
    BY <1>4
  <2> HIDE DEF sole
  <2>6. sole => z.emit = Append(Append(<<>>, a), b)
    BY <1>4, <2>1, <2>3, <2>5
  <2>7. ~m.active => /\ z.src = m.src /\ z.early = (m.early \/ m.chosen)
                     /\ z.default_name = m.default_name
    BY <1>4, <2>3
  <2>8. m.active => z.again = (m.again \/ Main \in DOMAIN m.src \/ Hw \in DOMAIN m.src)
    BY <1>4, <2>3, <2>4
  <2> QED BY <1>4, <2>2, <2>3, <2>4, <2>6, <2>7, <2>8
<1>6. /\ w \in Mixers /\ w.emit = Append(z.emit, c)
      /\ w.posts = z.posts /\ w.chosen = z.chosen /\ w.flag = z.flag /\ w.active = z.active
      /\ w.calls = z.calls /\ w.idles = z.idles /\ w.funcs = z.funcs /\ w.src = z.src
      /\ w.default_name = z.default_name /\ w.early = z.early /\ w.again = z.again
  BY <1>5, VolumeEmitted, EmitFields DEF Volume, c, w
<1>7. AsIn(w) /\ trig' = Queued(trig, w.emit)
  BY <1>2, <1>6, HandlerRan, Zenon
<1>8. sole => trig' = QueueInTurn(QueueInTurn(QueueInTurn(trig, a), b), c)
  <2> SUFFICES ASSUME sole PROVE trig' = QueueInTurn(QueueInTurn(QueueInTurn(trig, a), b), c)
    BY Zenon
  <2> HIDE DEF sole
  <2>1. z.emit = <<a, b>>
    BY <1>5, Appended
  <2>2. w.emit = <<a, b, c>>
    BY <1>6, <2>1, Appended
  <2> QED BY <1>7, <2>2, ThreeQueued
<1>9. /\ m'.posts = m.posts /\ m'.chosen = m.chosen /\ m'.flag = m.flag /\ m'.active = m.active
      /\ m'.calls = <<>> /\ m'.funcs = m.funcs /\ m'.emit = <<>>
      /\ m.active => /\ DOMAIN m'.src = Names /\ m'.early = m.early /\ m'.default_name # "none"
                     /\ m'.again = (m.again \/ Main \in DOMAIN m.src \/ Hw \in DOMAIN m.src)
      /\ ~m.active => /\ m'.src = m.src /\ m'.early = (m.early \/ m.chosen)
                      /\ m'.default_name = m.default_name
  BY <1>5, <1>6, <1>7 DEF AsIn
<1>10. /\ m.funcs = m.chosen /\ (m.active => m.chosen) /\ (~m.active => DOMAIN m.src = {})
  BY <1>1 DEF ShownInv, ChoiceInv, Linked
<1>11. ChoiceInv'
  BY <1>1, <1>2, <1>9, <1>10 DEF ShownInv, ChoiceInv
<1>12. MixersInv'
  <2>1. m.chosen \in BOOLEAN /\ m.funcs \in BOOLEAN
    BY <1>1 DEF Mixers
  <2>2. m.active => m.funcs
    BY <1>10
  <2>3. ~m'.funcs => DOMAIN m'.src = {} /\ m'.default_name = "none"
    BY <1>9, <2>2 DEF ShownInv, MixersInv
  <2>4. DOMAIN m'.src # {} => m'.default_name # "none"
    BY <1>9, <1>10
  <2>5. ~m'.early /\ m'.funcs => DOMAIN m'.src = Names
    BY <1>9, <1>10
  <2>6. Range(q') \subseteq DOMAIN m'.src
    <3>1. Range(<<>>) = {}
      BY DEF Range
    <3>2. m.active => q' = <<>>
      BY <1>2
    <3>3. ~m.active => q' = q /\ DOMAIN m'.src = DOMAIN m.src
      BY <1>2, <1>9
    <3> QED BY <1>1, <3>1, <3>2, <3>3 DEF ShownInv, MixersInv
  <2>7. steps \in 0..MaxSteps
    BY DEF ShownInv, MixersInv
  <2> QED BY <1>2, <1>9, <2>3, <2>4, <2>5, <2>6, <2>7 DEF MixersInv
<1> DEFINE one == QueueInTurn(trig, a)
           two == QueueInTurn(one, b)
           three == QueueInTurn(two, c)
           r == DOMAIN rows
<1>13. /\ one \in TriggerSeqs
       /\ m.active => Comes(one, r, Main)
       /\ ~m.active => Goes(one, r, Main)
  BY <1>1, OpenedTells DEF a
<1> HIDE DEF one
<1>14. /\ two \in TriggerSeqs
       /\ m.active => Comes(two, r, Main) /\ Comes(two, r, Hw)
       /\ ~m.active => Goes(two, r, Main) /\ Goes(two, r, Hw)
  BY <1>1, <1>13, OpenedTells DEF b
<1> HIDE DEF two
<1>15. c \in Told /\ c.of = "all" /\ \A n \in Names : c.of # n
  BY DEF Told, Trigger, Names, Main, Hw, c
<1>16. /\ three \in TriggerSeqs /\ \A n : Renewed(three, n)
       /\ m.active => Comes(three, r, Main) /\ Comes(three, r, Hw)
       /\ ~m.active => Goes(three, r, Main) /\ Goes(three, r, Hw)
  <2>1. three \in TriggerSeqs /\ \A n : Renewed(three, n)
    BY <1>14, <1>15, OneMore
  <2>2. \A n \in Names : /\ Comes(two, r, n) => Comes(three, r, n)
                         /\ Goes(two, r, n) => Goes(three, r, n)
    BY <1>14, <1>15, StillComes
  <2> HIDE DEF three
  <2> QED BY <1>1, <1>14, <2>1, <2>2
<1> HIDE DEF three
<1>17. \A n \in Names : IF n \in DOMAIN m'.src THEN Comes(three, r, n) ELSE Goes(three, r, n)
  BY <1>1, <1>9, <1>10, <1>16
<1>18. CASE sole
  <2>1. RowsOf(three, rows, m')
    BY <1>1, <1>16, <1>17, Zenon DEF RowsOf
  <2> HIDE DEF sole
  <2>2. trig' = three
    BY <1>8, <1>18, Zenon DEF one, two, three
  <2> QED BY <1>2, <1>11, <1>12, <2>1, <2>2 DEF RowsInv
<1>19. CASE ~sole
  <2>1. m.active /\ m'.again
    <3>1. m.active
      BY <1>19
    <3>2. CASE m.again
      BY <1>9, <3>1, <3>2
    <3>3. CASE ~m.again
      <4>1. seen = m
        BY <3>3 DEF Seen
      <4>2. Main \in DOMAIN m.src \/ Hw \in DOMAIN m.src
        BY <1>1, <1>19, <3>1, <4>1
      <4> QED BY <1>9, <3>1, <4>2
    <3> QED BY <3>1, <3>2, <3>3
  <2> HIDE DEF sole
  <2>2. y.emit \in Seq(Told) /\ Len(y.emit) <= 2
    <3>1. x.emit \in Seq(Told) /\ Len(x.emit) <= 0
      BY <1>3
    <3>2. y.emit \in Seq(Told) /\ Len(y.emit) <= 0 + 2
      BY <1>1, <1>3, <3>1, SubscribeTells DEF y
    <3> QED BY <3>2
  <2>3. z.emit \in Seq(Told) /\ Len(z.emit) <= 4
    <3>1. z.emit \in Seq(Told) /\ Len(z.emit) <= 2 + 2
      BY <1>1, <1>4, <2>2, SubscribeTells DEF z
    <3> QED BY <3>1
  <2>4. w.emit \in Seq(Told) /\ Len(w.emit) <= 5
    <3>1. Append(z.emit, c) \in Seq(Told) /\ Len(Append(z.emit, c)) = Len(z.emit) + 1 /\ Len(z.emit) \in Nat
      BY <1>15, <2>3, AppendProperties
    <3> QED BY <1>6, <2>3, <3>1
  <2>5. trig' \in TriggerSeqs
    BY <1>1, <1>7, <2>4, ToldStay
  <2>6. RowsOf(trig', rows, m')
    BY <1>1, <1>9, <2>1, <2>5, Zenon DEF RowsOf
  <2> QED BY <1>2, <1>11, <1>12, <2>6 DEF RowsInv
<1> QED BY <1>18, <1>19

\* The oldest trigger is handled
LEMMA HandlesShown == ASSUME ShownInv, Handles PROVE ChoiceInv' /\ MixersInv' /\ RowsInv'
<1>0. PICK seen \in Seen(m) : Shows(RowsAfter(Head(trig), seen))
  BY Zenon DEF Handles
<1> DEFINE t == Head(trig)
           ts == Tail(trig)
           r == RowsAfter(t, seen)
           names == DOMAIN rows
<1>1. /\ trig \in TriggerSeqs /\ trig # <<>> /\ names \subseteq Names
      /\ trig' = ts /\ rows' = r /\ m' = m /\ s' = s /\ q' = q /\ steps' = steps
  BY <1>0 DEF ShownInv, RowsInv, RowsOf, Shows
<1>2. ChoiceInv' /\ MixersInv'
  BY <1>1 DEF ShownInv, ChoiceInv, MixersInv
<1>3. /\ t \in Told /\ ts \in TriggerSeqs
      /\ \A n : NoneFor(trig, n) => NoneFor(ts, n) /\ t.of # n
      /\ \A n, k : LastFor(trig, n, k) =>
           LastFor(ts, n, k) \/ (t.of = n /\ t.t = k /\ NoneFor(ts, n))
      /\ \A n : Renewed(trig, n) => Renewed(ts, n) \/ t.of = n \/ t.of = "all"
  BY <1>1, OneLess
<1>4. /\ \A n \in Names : IF n \in DOMAIN m.src THEN m.again \/ Comes(trig, names, n) ELSE Goes(trig, names, n)
      /\ \A n \in names : n \in DOMAIN m.src => m.again \/ rows[n] = Row(m, n) \/ Renewed(trig, n)
  BY Zenon DEF ShownInv, RowsInv, RowsOf
<1>5. /\ \/ t.t = "volume" /\ t.of = "all"
         \/ t.t = "volume-conf" /\ t.of \in Names
         \/ t.t = "volume-conf-removed" /\ t.of \in Names
      /\ t.of = "all" => t.t = "volume"
      /\ "all" \notin Names
  BY <1>3, ToldIs DEF Names, Main, Hw
<1>6. r = CASE t.t = "volume" -> [n \in names |-> Row(seen, n)]
            [] t.t = "volume-conf" -> With(rows, t.of, Row(seen, t.of))
            [] t.t = "volume-conf-removed" -> Restrict(rows, names \ {t.of})
  BY Zenon DEF RowsAfter
<1> HIDE DEF t, ts, r
\* The set of the rows
<1>7. DOMAIN r = IF t.t = "volume-conf" THEN names \cup {t.of}
                 ELSE IF t.t = "volume-conf-removed" THEN names \ {t.of} ELSE names
  BY <1>5, <1>6 DEF With, Restrict
<1>8. ASSUME NEW n \in Names PROVE (Comes(trig, names, n) => Comes(ts, DOMAIN r, n)) /\ (Goes(trig, names, n) => Goes(ts, DOMAIN r, n))
  <2>1. CASE t.of # n
    <3>1. n \in DOMAIN r <=> n \in names
      BY <1>7, <2>1
    <3> QED BY <1>3, <2>1, <3>1, Zenon DEF Comes, Goes
  <2>2. CASE t.of = n
    <3>1. t.t = "volume-conf" \/ t.t = "volume-conf-removed"
      BY <1>5, <2>2
    <3>2. ~NoneFor(trig, n)
      BY <1>3, <2>2, Zenon
    <3>3. t.t = "volume-conf" => n \in DOMAIN r
      BY <1>7, <2>2
    <3>4. t.t = "volume-conf-removed" => n \notin DOMAIN r
      BY <1>7, <2>2
    <3>5. Comes(trig, names, n) => Comes(ts, DOMAIN r, n)
      BY <1>3, <3>2, <3>3, Zenon DEF Comes
    <3>6. Goes(trig, names, n) => Goes(ts, DOMAIN r, n)
      BY <1>3, <3>2, <3>4, Zenon DEF Goes
    <3> QED BY <3>5, <3>6
  <2> QED BY <2>1, <2>2
<1>9. ASSUME NEW n \in DOMAIN r, n \in DOMAIN m.src, ~m.again PROVE r[n] = Row(m, n) \/ Renewed(ts, n)
  <2>0. seen = m
    BY <1>9 DEF Seen
  <2>1. CASE t.t = "volume"
    <3>1. r = [k \in names |-> Row(m, k)]
      BY <1>6, <2>0, <2>1
    <3> QED BY <1>9, <3>1
  <2>2. CASE t.t = "volume-conf"
    <3>1. r = [k \in {t.of} \cup names |-> IF k = t.of THEN Row(m, t.of) ELSE rows[k]]
      <4>1. r = With(rows, t.of, Row(m, t.of))
        BY <1>6, <2>0, <2>2
      <4> QED BY <4>1, Zenon DEF With
    <3>2. CASE n = t.of
      BY <3>1, <3>2
    <3>3. CASE n # t.of
      <4>1. n \in names /\ r[n] = rows[n]
        BY <1>9, <3>1, <3>3
      <4>2. t.of # "all"
        BY <1>5, <2>2
      <4> QED BY <1>3, <1>4, <1>9, <3>3, <4>1, <4>2, Zenon
    <3> QED BY <3>2, <3>3
  <2>3. CASE t.t = "volume-conf-removed"
    <3>1. r = [k \in names \ {t.of} |-> rows[k]]
      <4>1. r = Restrict(rows, names \ {t.of})
        BY <1>6, <2>3
      <4> QED BY <4>1, Zenon DEF Restrict
    <3>2. n \in names /\ n # t.of /\ r[n] = rows[n]
      BY <1>9, <3>1
    <3>3. t.of # "all"
      BY <1>5, <2>3
    <3> QED BY <1>3, <1>4, <1>9, <3>2, <3>3, Zenon
  <2> QED BY <1>5, <2>1, <2>2, <2>3
<1>10. DOMAIN r \subseteq Names
  BY <1>1, <1>5, <1>7
<1>11. \A n \in Names : IF n \in DOMAIN m.src THEN m.again \/ Comes(ts, DOMAIN r, n)
                          ELSE Goes(ts, DOMAIN r, n)
  BY <1>4, <1>8, Zenon
<1>12. RowsOf(ts, r, m)
  BY <1>3, <1>9, <1>10, <1>11, Zenon DEF RowsOf
<1>13. RowsOf(trig', rows', m')
  BY <1>1, <1>12
<1> QED BY <1>2, <1>13, Zenon DEF RowsInv

LEMMA StutterShown == ASSUME ShownInv, UNCHANGED vars PROVE ChoiceInv' /\ MixersInv' /\ RowsInv'
<1>1. m' = m /\ s' = s /\ q' = q /\ trig' = trig /\ rows' = rows /\ steps' = steps
  BY DEF vars
<1>2. ChoiceInv' /\ MixersInv'
  BY <1>1 DEF ShownInv, ChoiceInv, MixersInv
<1>3. RowsOf(trig', rows', m')
  BY <1>1 DEF ShownInv, RowsInv
<1> QED BY <1>2, <1>3, Zenon DEF RowsInv

LEMMA ActsShown ==
  ASSUME RangeAssumption, MaxSteps \in Nat, ShownInv, Acts PROVE ChoiceInv' /\ MixersInv' /\ RowsInv'
<1>1. IInv
  BY DEF ShownInv
<1>2. ASSUME NEW name \in DOMAIN m.src, NEW v \in Cards, v.other = s.other, NEW own \in Copies,
             UserDoes(name, v, own)
      PROVE  ChoiceInv' /\ MixersInv' /\ RowsInv'
  BY <1>2, UserDoesShown
<1>3. CASE OtherTurns
  BY <1>3, OtherTurnsShown
<1>4. CASE \E level \in Lo..Hi : SetByOthers(level)
  BY <1>4, SetByOthersShown
<1>5. ASSUME NEW name \in DOMAIN m.src, MuteSet(name) PROVE ChoiceInv' /\ MixersInv' /\ RowsInv'
  <2>1. \E v \in Cards, own \in Copies : v.other = s.other /\ UserDoes(name, v, own)
    BY <1>1, <1>5, MuteSetKeeps
  <2> QED BY <1>2, <2>1, Zenon
<1>6. CASE \E name \in DOMAIN m.src : MuteSet(name) \/ DefaultSet(name)
  BY <1>5, <1>6, DefaultSetShown
<1>7. CASE \E name \in DOMAIN m.src, sign \in {"+", "-", "="}, percent \in Percents :
             VolumeSet(name, sign, percent)
  <2>1. PICK name \in DOMAIN m.src, sign \in {"+", "-", "="}, percent \in Percents :
               VolumeSet(name, sign, percent)
    BY <1>7
  <2>2. \E v \in Cards, own \in Copies : v.other = s.other /\ UserDoes(name, v, own)
    BY <1>1, <2>1, VolumeSetKeeps
  <2> QED BY <1>2, <2>2, Zenon
<1> QED BY <1>3, <1>4, <1>6, <1>7 DEF Acts

LEMMA NextShown ==
  ASSUME RangeAssumption, MaxSteps \in Nat, ShownInv, [Turns \/ Works \/ Acts]_vars PROVE ShownInv'
<1>1. IInv'
  BY NextKeeps DEF ShownInv
<1>2. CASE Turns
  BY <1>1, <1>2, DispatchesShown, HandlesShown DEF Turns, ShownInv
<1>3. CASE Works
  BY <1>1, <1>3, SelectsShown, SetsFlagShown, SubscribesAllShown, CalledShown DEF Works, ShownInv
<1>4. CASE Acts
  BY <1>1, <1>4, ActsShown DEF ShownInv
<1>5. CASE UNCHANGED vars
  BY <1>1, <1>5, StutterShown DEF ShownInv
<1> QED BY <1>2, <1>3, <1>4, <1>5

\* With nothing under way main's choice is carried out, the mixers were looked for and
\* each row was read after the last change.
LEMMA AtRest == ASSUME ShownInv PROVE CardShown
<1> SUFFICES ASSUME Quiet, ~m.early, ~m.again
    PROVE  /\ DOMAIN rows = IF s.other THEN {} ELSE Names
           /\ \A name \in DOMAIN rows :
                rows[name] = [avg |-> AvgGet(s.level), mute |-> s.mute, default |-> name = m.default_name]
           /\ s.other \/ m.default_name \in DOMAIN rows
  BY DEF CardShown
<1>1. /\ q = <<>> /\ trig = <<>> /\ m.posts = <<>> /\ m.flag = <<>> /\ m.calls = <<>> /\ m.idles = 0
      /\ Len(trig) = 0 /\ m \in Mixers /\ s \in Cards /\ DOMAIN rows \subseteq Names
  BY DEF Quiet, Idle, ShownInv, IInv, TypeInv, RowsInv, RowsOf
<1>2. /\ m.funcs \in BOOLEAN /\ s.other \in BOOLEAN /\ m.default_name \in Names \cup {"none"}
      /\ DOMAIN m.src \subseteq Names
  BY <1>1, TableOfMixers DEF Mixers, Cards
<1>3. (m.funcs <=> ~s.other) /\ (m.funcs => DOMAIN m.src = Names) /\ (~m.funcs => DOMAIN m.src = {})
  BY <1>1, <1>2 DEF ShownInv, ChoiceInv, MixersInv, Linked
<1>4. \A name \in Names : name \in DOMAIN rows <=> name \in DOMAIN m.src
  <2>1. \A name : ~LastFor(trig, name, "volume-conf") /\ ~LastFor(trig, name, "volume-conf-removed")
    BY <1>1 DEF LastFor
  <2> QED BY <2>1, Zenon DEF ShownInv, RowsInv, RowsOf, Comes, Goes
<1>5. DOMAIN rows = DOMAIN m.src
  BY <1>1, <1>2, <1>4
<1>6. ASSUME NEW name \in DOMAIN rows
      PROVE  rows[name] = [avg |-> AvgGet(s.level), mute |-> s.mute, default |-> name = m.default_name]
  <2>1. ~Renewed(trig, name)
    BY <1>1 DEF Renewed
  <2>2. rows[name] = Row(m, name)
    BY <1>5, <2>1, Zenon DEF ShownInv, RowsInv, RowsOf
  <2>3. m.src[name] = Controls(s)
    <3>1. Range(q) = {}
      BY <1>1 DEF Range
    <3> QED BY <1>5, <3>1 DEF ShownInv, IInv, CopiesFollow
  <2>4. m.src[name].level = s.level /\ m.src[name].mute = s.mute
    BY <1>1, <2>3, ControlsOfCard
  <2>5. m.funcs /\ name \in DOMAIN m.src
    BY <1>3, <1>5
  <2>6. Row(m, name) = [avg |-> AvgGet(m.src[name].level), mute |-> m.src[name].mute,
                        default |-> name = m.default_name]
    BY <2>5, Zenon DEF Row
  <2> QED BY <2>2, <2>4, <2>6
<1>7. ~s.other => m.default_name \in DOMAIN rows
  <2>1. Names # {}
    BY DEF Names
  <2> QED BY <1>2, <1>3, <1>5, <2>1 DEF ShownInv, MixersInv
<1> QED BY <1>3, <1>5, <1>6, <1>7

LEMMA ShownTyped == ASSUME ShownInv PROVE TypeOK
<1>1. m \in Mixers /\ s \in Cards /\ DOMAIN rows \subseteq Names
  BY DEF ShownInv, IInv, TypeInv, RowsInv, RowsOf
<1>2. m.src \in [DOMAIN m.src -> Copies] /\ DOMAIN m.src \subseteq Names /\ m.out = <<>>
  BY <1>1, TableOfMixers DEF Mixers
<1>3. s.level \in Levels /\ \A name \in DOMAIN m.src : m.src[name].level \in Levels
  BY <1>1, <1>2 DEF Cards, Copies
<1>4. \A v \in {s.level} \cup {m.src[name].level : name \in DOMAIN m.src} : v \in [Channels -> Volumes]
  BY <1>3 DEF Levels
<1> QED BY <1>1, <1>2, <1>4 DEF TypeOK, ShownInv, MixersInv

----------------------------------------------------------------------------
(* What holds in every execution *)

\* A copy from which the user's next change starts is the card's levels and switch, or
\* its mixer is about to be told that they have changed, whatever others do meanwhile
\* and whenever the provider changes.
THEOREM CopiesAreFollowed == ASSUME RangeAssumption PROVE Spec => []CopiesFollow
<1>1. Init => IInv
  BY InitKeeps
<1>2. IInv /\ [Turns \/ Works \/ Acts]_vars => IInv'
  BY NextKeeps
<1>3. IInv => CopiesFollow
  BY DEF IInv
<1> QED BY <1>1, <1>2, <1>3, PTL DEF Spec

\* The levels of the card and of the mixers' copies never leave the card's range.
LevelsInRange ==
  /\ s.level \in Levels
  /\ \A name \in DOMAIN m.src : m.src[name].level \in Levels

THEOREM LevelsKeptInRange == ASSUME RangeAssumption PROVE Spec => []LevelsInRange
<1>1. Init => IInv
  BY InitKeeps
<1>2. IInv /\ [Turns \/ Works \/ Acts]_vars => IInv'
  BY NextKeeps
<1>3. IInv => LevelsInRange
  BY TableOfMixers DEF IInv, TypeInv, Cards, Copies, LevelsInRange
<1> QED BY <1>1, <1>2, <1>3, PTL DEF Spec

\* A percentage moves the volume to the nearest step of any range from 0, a relative one
\* by at least a step in the direction that is asked for and to within a step of it.
THEOREM LevelIsAsMeant ==
  ASSUME RangeAssumption, PercentAssumption PROVE Spec => []LevelAsMeant
<1>1. Init => MeantInv
  BY InitKeeps, InitMeant DEF MeantInv
<1>2. MeantInv /\ [Turns \/ Works \/ Acts]_vars => MeantInv'
  BY NextKeeps, NextKeepsMeant DEF MeantInv
<1>3. MeantInv => LevelAsMeant
  BY DEF MeantInv
<1> QED BY <1>1, <1>2, <1>3, PTL DEF Spec

\* With nothing under way, rows are there if and only if the plug-in is the provider,
\* each with the card's volume and switch and one the default, unless the mixers bailed
\* out although the plug-in was chosen, or were opened twice since it last was not.
THEOREM CardIsShown ==
  ASSUME RangeAssumption, MaxSteps \in Nat PROVE Spec => [](CardShown /\ TypeOK)
<1>1. Init => ShownInv
  BY InitKeeps, InitShown DEF ShownInv
<1>2. ShownInv /\ [Turns \/ Works \/ Acts]_vars => ShownInv'
  BY NextShown
<1>3. ShownInv => CardShown /\ TypeOK
  BY AtRest, ShownTyped
<1> QED BY <1>1, <1>2, <1>3, PTL DEF Spec

----------------------------------------------------------------------------
(* Client sources (Clients), which have the plug-ins' variables too, for any *)
(* values and any number of calls, changes and losses of the connection.     *)
(* The inductive invariant:                                                  *)
(*   Stands   types, and what the state of the connection says;              *)
(*   Listens  a daemon that does not wait has something to read or to be     *)
(*            read, and one that waits is told of the user's commands;       *)
(*   InTurn   the user's commands are run, sent and kept in order; none of   *)
(*            them is lost but with a connection, or to a closed one;        *)
(*   Follows  the variable is right, or what makes it right is under way;    *)
(*   Shown    so are the rows, or a trigger waits.                           *)

CONSTANTS Songs, Nil, MaxCalls

Cl == INSTANCE Clients WITH MaxSteps <- MaxCalls

ClientSpec == Cl!Init /\ [][Cl!Turns \/ Cl!Works \/ Cl!Acts]_(Cl!vars)

ClientsAllowed == Songs # {} /\ Nil \notin Songs /\ MaxCalls \in Nat

ClientLines == [k : {"greeting", "ok", "changed", "status"}] \cup [k : {"song"}, val : Songs]
ClientRequests == [k : {"status", "currentsong", "idle", "noidle"}] \cup [k : {"cmd"}, n : Nat]
ServiceStates == [val : Songs, up : BOOLEAN, waits : BOOLEAN, pending : BOOLEAN, ran : Seq(Nat)]
ClientStates ==
  [kind : Cl!Kinds, link : Cl!Links, val : Songs \cup {Nil}, idle : BOOLEAN, commands : Seq(Nat), n : Nat,
   cut : BOOLEAN, lost : BOOLEAN, out : {<<>>}, emit : {<<>>}]

Away == m.link \in {"down", "wait", "trying"}

Stands ==
  /\ Cl!TypeOK
  /\ ~Cl!IsMpd => m.commands = <<>> /\ ~m.idle /\ \A i \in DOMAIN out : out[i].k = "cmd"
  /\ m.idle => m.commands = <<>>
  /\ Away => q = <<>> /\ ~s.waits /\ (m.cut \/ ~m.idle)
  /\ m.link # "up" => out = <<>>

NoIdleIn(r) == \E i \in DOMAIN r : r[i].k = "noidle"
Listens ==
  Cl!IsMpd /\ m.link = "up" =>
    /\ IF s.waits THEN ~s.pending /\ (m.commands = <<>> \/ NoIdleIn(out))
       ELSE q # <<>> \/ \E i \in DOMAIN out : out[i].k # "noidle"
    /\ \A i \in DOMAIN out : out[i].k = "idle" =>
         m.commands = <<>> \/ \E j \in DOMAIN out : i < j /\ out[j].k = "noidle"

\* The commands d were run, those of r sent, c are kept, of n
InOrder(d, r, c, n) ==
  /\ \A i \in DOMAIN d : d[i] \in 1..n /\ \A j \in DOMAIN d : i < j => d[i] < d[j]
  /\ \A i \in DOMAIN r : r[i].k = "cmd" =>
       /\ r[i].n \in 1..n /\ \A j \in DOMAIN d : d[j] < r[i].n
       /\ \A j \in DOMAIN r : i < j /\ r[j].k = "cmd" => r[i].n < r[j].n
       /\ \A j \in DOMAIN c : r[i].n < c[j]
  /\ \A i \in DOMAIN c :
       /\ c[i] \in 1..n /\ \A j \in DOMAIN d : d[j] < c[i]
       /\ \A j \in DOMAIN c : i < j => c[i] < c[j]
AllThere(d, r, c, n) ==
  /\ \A i \in DOMAIN d : d[i] = i
  /\ \A k \in Len(d) + 1 .. n : (\E i \in DOMAIN r : r[i] = Cl!Cmd(k)) \/ \E i \in DOMAIN c : c[i] = k
InTurn ==
  /\ InOrder(s.ran, out, m.commands, m.n)
  /\ ~m.lost => AllThere(s.ran, out, m.commands, m.n)

\* The last song of p is v
LastIs(p, v) == \E i \in DOMAIN p : p[i] = Cl!Song(v) /\ \A j \in DOMAIN p : i < j => p[j].k # "song"
HasKind(r, k) == \E i \in DOMAIN r : r[i].k = k

\* The question is still to be read, with no wait after it, or was answered, and no
\* wait follows
AskedFor ==
  \/ \E i \in DOMAIN out : out[i].k = "currentsong" /\ \A j \in DOMAIN out : i < j => out[j].k # "idle"
  \/ ~HasKind(out, "idle") /\ ~s.waits /\ HasKind(q, "song") /\ (s.pending \/ LastIs(q, s.val))

Follows ==
  m.link = "up" /\ ~m.cut =>
    /\ ~Cl!IsMpd => /\ \A i \in DOMAIN q : q[i].k = "song"
                 /\ IF q = <<>> THEN m.val = s.val ELSE q[Len(q)] = Cl!Song(s.val)
    /\ Cl!IsMpd /\ m.idle => AskedFor
    /\ Cl!IsMpd /\ ~m.idle => m.val = s.val \/ s.pending \/ q # <<>>
                             \/ HasKind(out, "currentsong") \/ HasKind(out, "cmd")

Shown == trig = <<>> => rows = m.val

ClientInv == Stands /\ Listens /\ InTurn /\ Follows /\ Shown

\* The first state stands.
LEMMA InitStands == ASSUME ClientsAllowed, Cl!Init PROVE Stands
<1>1. (CHOOSE v \in Songs : TRUE) \in Songs
  BY DEF ClientsAllowed
<1> QED BY <1>1 DEF Cl!Init, Stands, Cl!TypeOK, ClientsAllowed, Away, Cl!Kinds, Cl!Links, Cl!IsMpd

----------------------------------------------------------------------------
(* What the steps do *)

\* Only these of the service's variables change
Serviced(v, waits, waiting, ran) ==
  s' = [val |-> v, up |-> s.up, waits |-> waits, pending |-> waiting, ran |-> ran]

\* The service reads the oldest request r, and answers
Reply(r) ==
  \/ /\ r.k = "noidle" /\ Serviced(s.val, FALSE, s.pending, s.ran)
     /\ q' = IF s.waits THEN Append(q, Cl!Line("ok")) ELSE q
  \/ /\ r.k = "idle" /\ ~s.waits /\ Serviced(s.val, ~s.pending, FALSE, s.ran)
     /\ q' = IF s.pending THEN Append(q, Cl!Line("changed")) ELSE q
  \/ r.k = "status" /\ ~s.waits /\ s' = s /\ q' = Append(q, Cl!Line("status"))
  \/ r.k = "currentsong" /\ ~s.waits /\ s' = s /\ q' = Append(q, Cl!Song(s.val))
  \/ /\ r.k = "cmd" /\ ~s.waits
     /\ \E v \in Songs \ {s.val} :
          \/ Cl!IsMpd /\ Serviced(v, FALSE, TRUE, Append(s.ran, r.n)) /\ q' = Append(q, Cl!Line("ok"))
          \/ ~Cl!IsMpd /\ Serviced(v, s.waits, s.pending, Append(s.ran, r.n)) /\ q' = Append(q, Cl!Song(v))

\* ... or closes the connection
Closes(r) ==
  /\ s.waits /\ r.k # "noidle" /\ out' = <<>> /\ UNCHANGED <<s, q>>
  /\ m' = [m EXCEPT !.link = "closed", !.lost = @ \/ \E i \in DOMAIN out : out[i].k = "cmd"]

\* A request that the service reads has one of these effects.
LEMMA Served ==
  ASSUME Cl!TypeOK, Cl!Serves
  PROVE  /\ m.link = "up" /\ out # <<>> /\ UNCHANGED <<trig, rows, steps>>
         /\ Head(out) \in ClientRequests /\ Head(out) = out[1]
         /\ Closes(Head(out)) \/ (Reply(Head(out)) /\ out' = Tail(out) /\ UNCHANGED m)
<1> DEFINE r == Head(out)
<1>1. m.link = "up" /\ out # <<>> /\ UNCHANGED <<trig, rows, steps>>
  BY DEF Cl!Serves
<1>2. out \in Seq(ClientRequests) /\ s \in ServiceStates /\ q \in Seq(ClientLines) /\ m \in ClientStates
  BY DEF Cl!TypeOK, ClientRequests, ServiceStates, ClientLines, ClientStates
<1>3. r \in ClientRequests /\ r = out[1]
  BY <1>1, <1>2
<1>4. r.k \in {"status", "currentsong", "idle", "noidle", "cmd"}
  BY <1>3 DEF ClientRequests
<1>5. \A x : q \o <<x>> = Append(q, x)
  BY <1>2
<1>6. q \o <<>> = q
  BY <1>2
<1>7. CASE s.waits /\ r.k # "noidle"
  <2>1. m' = [Cl!Unread(m) EXCEPT !.link = "closed"] /\ out' = <<>> /\ UNCHANGED <<s, q>>
    <3>1. s.waits \in BOOLEAN
      BY <1>2 DEF ServiceStates
    <3> QED BY <1>7, <3>1, Zenon DEF Cl!Serves
  <2>2. m' = [m EXCEPT !.link = "closed", !.lost = @ \/ \E i \in DOMAIN out : out[i].k = "cmd"]
    BY <1>2, <2>1 DEF Cl!Unread, ClientStates
  <2> QED BY <1>1, <1>3, <1>7, <2>1, <2>2 DEF Closes
<1>8. CASE r.k = "noidle"
  <2>1. /\ s' = [s EXCEPT !.waits = FALSE] /\ q' = q \o (IF s.waits THEN <<Cl!Line("ok")>> ELSE <<>>)
        /\ out' = Tail(out) /\ UNCHANGED m
    BY <1>8 DEF Cl!Serves
  <2>2. Serviced(s.val, FALSE, s.pending, s.ran)
    BY <1>2, <2>1 DEF Serviced, ServiceStates
  <2> QED BY <1>1, <1>3, <1>5, <1>6, <1>8, <2>1, <2>2 DEF Reply
<1>9. CASE r.k = "idle" /\ ~s.waits
  <2>1. /\ s' = [s EXCEPT !.waits = ~s.pending, !.pending = FALSE]
        /\ q' = q \o (IF s.pending THEN <<Cl!Line("changed")>> ELSE <<>>)
        /\ out' = Tail(out) /\ UNCHANGED m
    BY <1>9 DEF Cl!Serves
  <2>2. Serviced(s.val, ~s.pending, FALSE, s.ran)
    BY <1>2, <2>1 DEF Serviced, ServiceStates
  <2> QED BY <1>1, <1>3, <1>5, <1>6, <1>9, <2>1, <2>2 DEF Reply
<1>10. CASE r.k = "status" /\ ~s.waits
  BY <1>1, <1>3, <1>5, <1>10 DEF Cl!Serves, Reply
<1>11. CASE r.k = "currentsong" /\ ~s.waits
  BY <1>1, <1>3, <1>5, <1>11 DEF Cl!Serves, Reply
<1>12. CASE r.k = "cmd" /\ ~s.waits
  <2>1. /\ out' = Tail(out) /\ UNCHANGED m
        /\ \E v \in Songs \ {s.val} :
             /\ s' = [Cl!Changed(s, v) EXCEPT !.ran = Append(@, r.n)]
             /\ q' = q \o (IF Cl!IsMpd THEN <<Cl!Line("ok")>> ELSE Cl!Told(s, v))
    BY <1>12 DEF Cl!Serves
  <2>2. PICK v \in Songs \ {s.val} : /\ s' = [Cl!Changed(s, v) EXCEPT !.ran = Append(@, r.n)]
                                     /\ q' = q \o (IF Cl!IsMpd THEN <<Cl!Line("ok")>> ELSE Cl!Told(s, v))
    BY <2>1
  <2>3. CASE Cl!IsMpd
    <3>1. Serviced(v, FALSE, TRUE, Append(s.ran, r.n))
      BY <1>1, <1>2, <1>12, <2>2, <2>3 DEF Serviced, ServiceStates, Cl!Changed
    <3> QED BY <1>1, <1>3, <1>5, <1>12, <2>1, <2>2, <2>3, <3>1 DEF Reply
  <2>4. CASE ~Cl!IsMpd
    <3>1. Serviced(v, s.waits, s.pending, Append(s.ran, r.n))
      BY <1>1, <1>2, <2>2, <2>4 DEF Serviced, ServiceStates, Cl!Changed
    <3>2. q' = Append(q, Cl!Song(v))
      BY <1>1, <1>5, <2>2, <2>4 DEF Cl!Told
    <3> QED BY <1>1, <1>3, <1>12, <2>1, <2>2, <2>4, <3>1, <3>2 DEF Reply
  <2> QED BY <2>3, <2>4
<1> QED BY <1>4, <1>7, <1>8, <1>9, <1>10, <1>11, <1>12

\* Nothing but the first is taken.
LEMMA TailOf ==
  ASSUME NEW S, NEW p \in Seq(S), p # <<>>
  PROVE  /\ Tail(p) \in Seq(S) /\ Len(p) \in Nat \ {0} /\ Len(Tail(p)) = Len(p) - 1
         /\ Head(p) = p[1] /\ Head(p) \in S
         /\ \A i \in DOMAIN Tail(p) : i \in Nat /\ i + 1 \in DOMAIN p /\ Tail(p)[i] = p[i + 1]
         /\ \A i \in DOMAIN p : i \in Nat /\ (i = 1 \/ (i - 1 \in DOMAIN Tail(p) /\ Tail(p)[i - 1] = p[i]))
OBVIOUS

\* Nothing but one is added, at the end.
LEMMA LineAdded ==
  ASSUME NEW S, NEW p \in Seq(S), NEW x \in S
  PROVE  /\ Append(p, x) \in Seq(S) /\ Append(p, x) # <<>> /\ Len(p) \in Nat
         /\ Len(Append(p, x)) = Len(p) + 1 /\ Append(p, x)[Len(p) + 1] = x
         /\ Len(p) + 1 \in DOMAIN Append(p, x)
         /\ \A i \in DOMAIN p : i \in DOMAIN Append(p, x) /\ i < Len(p) + 1 /\ Append(p, x)[i] = p[i]
         /\ \A i \in DOMAIN Append(p, x) : i \in Nat /\ (i = Len(p) + 1 \/ i \in DOMAIN p)
OBVIOUS

\* The lines and requests are what they look like.
LEMMA LinesAre ==
  /\ \A l \in {"greeting", "ok", "changed", "status"} : Cl!Line(l) \in ClientLines /\ Cl!Line(l).k = l
  /\ \A v \in Songs : Cl!Song(v) \in ClientLines /\ Cl!Song(v).k = "song" /\ Cl!Song(v).val = v
  /\ \A l \in {"status", "currentsong", "idle", "noidle"} : Cl!Line(l) \in ClientRequests /\ Cl!Line(l).k = l
  /\ \A n \in Nat : Cl!Cmd(n) \in ClientRequests /\ Cl!Cmd(n).k = "cmd" /\ Cl!Cmd(n).n = n
BY DEF Cl!Line, Cl!Song, Cl!Cmd, ClientLines, ClientRequests

\* A connection that the daemon closes leaves a state that stands.
LEMMA ClosedStands ==
  ASSUME Stands, m.link = "up", out # <<>>, UNCHANGED <<trig, rows, steps>>, Closes(Head(out))
  PROVE  Stands' /\ m'.link = "closed" /\ Cl!IsMpd' = Cl!IsMpd
<1>1. /\ s' = s /\ q' = q /\ out' = <<>> /\ trig' = trig /\ rows' = rows /\ steps' = steps
      /\ m' = [m EXCEPT !.link = "closed", !.lost = @ \/ \E i \in DOMAIN out : out[i].k = "cmd"]
  BY DEF Closes
<1>2. m \in ClientStates
  BY DEF Stands, Cl!TypeOK, ClientStates
<1>3. /\ m' \in ClientStates /\ m'.link = "closed" /\ m'.kind = m.kind /\ m'.idle = m.idle
      /\ m'.commands = m.commands
  BY <1>1, <1>2 DEF ClientStates, Cl!Links
<1>4. Cl!TypeOK'
  BY <1>1, <1>3 DEF Stands, Cl!TypeOK, ClientStates
<1>5. Cl!IsMpd' = Cl!IsMpd
  BY <1>3 DEF Cl!IsMpd
<1> QED BY <1>1, <1>3, <1>4, <1>5 DEF Stands, Away

\* A request that is read leaves a state that stands,
LEMMA ServesStands ==
  ASSUME Stands, Cl!Serves
  PROVE  Stands' /\ Cl!IsMpd' = Cl!IsMpd
<1>1. /\ m.link = "up" /\ out # <<>> /\ UNCHANGED <<trig, rows, steps>>
      /\ Head(out) \in ClientRequests /\ Head(out) = out[1]
      /\ Closes(Head(out)) \/ (Reply(Head(out)) /\ out' = Tail(out) /\ UNCHANGED m)
  BY Served DEF Stands
<1>2. CASE Closes(Head(out))
  BY <1>1, <1>2, ClosedStands
<1>3. CASE Reply(Head(out)) /\ out' = Tail(out) /\ UNCHANGED m
  <2> DEFINE r == Head(out)
  <2>1. s \in ServiceStates /\ q \in Seq(ClientLines) /\ out \in Seq(ClientRequests)
    BY DEF Stands, Cl!TypeOK, ServiceStates, ClientLines, ClientRequests
  <2>2. s.val \in Songs /\ s.pending \in BOOLEAN /\ s.waits \in BOOLEAN /\ s.ran \in Seq(Nat) /\ s.up \in BOOLEAN
    BY <2>1 DEF ServiceStates
  <2>3. s' \in ServiceStates
    <3>1. r.k = "cmd" => r.n \in Nat
      BY <1>1 DEF ClientRequests
    <3>2. r.k = "cmd" => Append(s.ran, r.n) \in Seq(Nat)
      BY <2>2, <3>1
    <3> HIDE DEF r
    <3>3. \A v \in Songs, w \in BOOLEAN, p \in BOOLEAN, ran \in Seq(Nat) :
            Serviced(v, w, p, ran) => s' \in ServiceStates
      BY <2>2 DEF Serviced, ServiceStates
    <3>4. (~s.pending) \in BOOLEAN /\ TRUE \in BOOLEAN /\ FALSE \in BOOLEAN
      OBVIOUS
    <3> HIDE DEF Serviced, ServiceStates
    <3> QED BY <1>3, <2>1, <2>2, <3>2, <3>3, <3>4, Zenon DEF Reply, r
  <2>4. q' \in Seq(ClientLines)
    <3>1. \A x \in ClientLines : Append(q, x) \in Seq(ClientLines)
      BY <2>1
    <3> QED BY <1>3, <2>1, <2>2, <3>1, LinesAre DEF Reply
  <2>5. out' \in Seq(ClientRequests) /\ \A i \in DOMAIN out' : i + 1 \in DOMAIN out /\ out'[i] = out[i + 1]
    BY <1>1, <1>3, <2>1, TailOf
  <2>6. Cl!TypeOK'
    BY <1>1, <1>3, <2>3, <2>4, <2>5 DEF Stands, Cl!TypeOK, ServiceStates, ClientLines, ClientRequests
  <2>7. Cl!IsMpd' = Cl!IsMpd /\ ~Away'
    BY <1>1, <1>3 DEF Cl!IsMpd, Away
  <2> QED BY <1>1, <1>3, <2>5, <2>6, <2>7 DEF Stands
<1> QED BY <1>1, <1>2, <1>3

\* ... in which the daemon waits only for what will come,
LEMMA ServesListens ==
  ASSUME Stands, Listens, Cl!Serves
  PROVE  Listens'
<1>1. /\ m.link = "up" /\ out # <<>>
      /\ Head(out) \in ClientRequests /\ Head(out) = out[1]
      /\ Closes(Head(out)) \/ (Reply(Head(out)) /\ out' = Tail(out) /\ UNCHANGED m)
  BY Served DEF Stands
<1>2. CASE Closes(Head(out))
  <2>1. m'.link = "closed"
    BY <1>1, <1>2, ClosedStands, Served DEF Stands
  <2> QED BY <2>1 DEF Listens
<1>3. CASE Reply(Head(out)) /\ out' = Tail(out) /\ UNCHANGED m
  <2> SUFFICES ASSUME Cl!IsMpd
               PROVE  /\ IF s'.waits THEN ~s'.pending /\ (m.commands = <<>> \/ NoIdleIn(out'))
                         ELSE q' # <<>> \/ \E i \in DOMAIN out' : out'[i].k # "noidle"
                      /\ \A i \in DOMAIN out' : out'[i].k = "idle" =>
                           m.commands = <<>> \/ \E j \in DOMAIN out' : i < j /\ out'[j].k = "noidle"
    BY <1>3 DEF Listens, NoIdleIn, Cl!IsMpd
  <2> DEFINE r == Head(out)
  <2>1. s \in ServiceStates /\ q \in Seq(ClientLines) /\ out \in Seq(ClientRequests)
    BY DEF Stands, Cl!TypeOK, ServiceStates, ClientLines, ClientRequests
  <2>2. s.waits \in BOOLEAN /\ s.pending \in BOOLEAN
    BY <2>1 DEF ServiceStates
  <2>3. /\ \A i \in DOMAIN out' : i \in Nat /\ i + 1 \in DOMAIN out /\ out'[i] = out[i + 1]
        /\ \A i \in DOMAIN out : i \in Nat /\ (i = 1 \/ (i - 1 \in DOMAIN out' /\ out'[i - 1] = out[i]))
        /\ 1 \in DOMAIN out
    BY <1>1, <1>3, <2>1, TailOf
  <2>4. /\ IF s.waits THEN ~s.pending /\ (m.commands = <<>> \/ NoIdleIn(out))
           ELSE q # <<>> \/ \E i \in DOMAIN out : out[i].k # "noidle"
        /\ \A i \in DOMAIN out : out[i].k = "idle" =>
             m.commands = <<>> \/ \E j \in DOMAIN out : i < j /\ out[j].k = "noidle"
    BY <1>1 DEF Listens
  <2>5. \A i \in DOMAIN out' : out'[i].k = "idle" =>
           m.commands = <<>> \/ \E j \in DOMAIN out' : i < j /\ out'[j].k = "noidle"
    <3> SUFFICES ASSUME NEW i \in DOMAIN out', out'[i].k = "idle", m.commands # <<>>
                 PROVE  \E j \in DOMAIN out' : i < j /\ out'[j].k = "noidle"
      OBVIOUS
    <3>1. i \in Nat /\ i + 1 \in DOMAIN out /\ out[i + 1].k = "idle"
      BY <2>3
    <3>2. PICK j \in DOMAIN out : i + 1 < j /\ out[j].k = "noidle"
      BY <2>4, <3>1
    <3>3. j \in Nat /\ j - 1 \in DOMAIN out' /\ out'[j - 1] = out[j]
      BY <2>3, <3>1, <3>2
    <3> QED BY <3>1, <3>2, <3>3
  <2>6. \A x : Append(q, x) # <<>>
    BY <2>1
  <2>7. CASE s'.waits
    <3>1. r.k = "idle" /\ s'.pending = FALSE
      BY <1>3, <2>2, <2>7 DEF Reply, Serviced
    <3>2. m.commands = <<>> \/ \E j \in DOMAIN out : 1 < j /\ out[j].k = "noidle"
      BY <1>1, <2>3, <2>4, <3>1
    <3>3. m.commands = <<>> \/ NoIdleIn(out')
      BY <2>3, <3>2 DEF NoIdleIn
    <3> QED BY <2>5, <2>7, <3>1, <3>3
  <2>8. CASE ~s'.waits
    <3>1. q' # <<>> \/ (r.k = "noidle" /\ ~s.waits /\ q' = q)
      <4>1. CASE r.k = "noidle"
        BY <1>3, <2>6, <4>1 DEF Reply
      <4>2. CASE r.k = "idle"
        <5>1. s'.waits = ~s.pending /\ q' = IF s.pending THEN Append(q, Cl!Line("changed")) ELSE q
          BY <1>3, <4>2 DEF Reply, Serviced
        <5> QED BY <2>6, <2>8, <5>1
      <4>3. CASE r.k \notin {"noidle", "idle"}
        BY <1>3, <2>6, <4>3 DEF Reply
      <4> QED BY <4>1, <4>2, <4>3
    <3>2. q' # <<>> \/ \E i \in DOMAIN out' : out'[i].k # "noidle"
      BY <1>1, <2>3, <2>4, <3>1
    <3> QED BY <2>5, <2>8, <3>2
  <2> QED BY <2>7, <2>8
<1> QED BY <1>1, <1>2, <1>3

\* How the commands that were run, sent and kept compare after a reply
LEMMA ServesInTurn ==
  ASSUME Stands, InTurn, Cl!Serves
  PROVE  InTurn'
<1>1. /\ m.link = "up" /\ out # <<>>
      /\ Head(out) \in ClientRequests /\ Head(out) = out[1]
      /\ Closes(Head(out)) \/ (Reply(Head(out)) /\ out' = Tail(out) /\ UNCHANGED m)
  BY Served DEF Stands
<1> DEFINE d == s.ran
           c == m.commands
           n == m.n
<1>2. d \in Seq(Nat) /\ c \in Seq(Nat) /\ n \in Nat /\ out \in Seq(ClientRequests) /\ m \in ClientStates
  BY DEF Stands, Cl!TypeOK, ClientRequests, ClientStates
<1>3. InOrder(d, out, c, n) /\ (~m.lost => AllThere(d, out, c, n))
  BY DEF InTurn
<1>4. CASE Closes(Head(out))
  <2>1. /\ s' = s /\ out' = <<>>
        /\ m' = [m EXCEPT !.link = "closed", !.lost = @ \/ \E i \in DOMAIN out : out[i].k = "cmd"]
    BY <1>4 DEF Closes
  <2>2. /\ m'.commands = m.commands /\ m'.n = m.n
        /\ ~m'.lost => ~m.lost /\ \A i \in DOMAIN out : out[i].k # "cmd"
    BY <1>2, <2>1 DEF ClientStates
  <2>3. InOrder(d, <<>>, c, n)
    BY <1>3 DEF InOrder
  <2>4. ~m'.lost => AllThere(d, <<>>, c, n)
    BY <1>3, <2>2 DEF AllThere, Cl!Cmd
  <2> HIDE DEF d, c, n
  <2>5. s'.ran = d /\ m'.commands = c /\ m'.n = n /\ out' = <<>>
    BY <2>1, <2>2 DEF d, c, n
  <2> QED BY <2>3, <2>4, <2>5 DEF InTurn
<1>5. CASE Reply(Head(out)) /\ out' = Tail(out) /\ UNCHANGED m
  <2> DEFINE r == Head(out)
             p == Tail(out)
  <2>1. /\ \A i \in DOMAIN p : i \in Nat /\ i + 1 \in DOMAIN out /\ p[i] = out[i + 1]
        /\ \A i \in DOMAIN out : i \in Nat /\ (i = 1 \/ (i - 1 \in DOMAIN p /\ p[i - 1] = out[i]))
        /\ 1 \in DOMAIN out
    BY <1>1, <1>2, TailOf
  <2>2. CASE r.k # "cmd"
    <3>1. s'.ran = d
      BY <1>5, <2>2 DEF Reply, Serviced
    <3>2. InOrder(d, p, c, n)
      BY <1>3, <2>1 DEF InOrder
    <3>3. ASSUME AllThere(d, out, c, n) PROVE AllThere(d, p, c, n)
      <4>1. \A k : out[1] # Cl!Cmd(k)
        BY <1>1, <2>2 DEF Cl!Cmd
      <4> HIDE DEF d, c, n, p
      <4> QED BY <2>1, <3>3, <4>1 DEF AllThere
    <3> QED BY <1>3, <1>5, <3>1, <3>2, <3>3 DEF InTurn
  <2>3. CASE r.k = "cmd"
    <3> DEFINE e == Append(d, r.n)
    <3>1. s'.ran = e
      BY <1>5, <2>3 DEF Reply, Serviced
    <3>2. r.n \in 1..n /\ r = Cl!Cmd(r.n)
      <4>1. r \in [k : {"cmd"}, n : Nat]
        BY <1>1, <2>3 DEF ClientRequests
      <4> QED BY <1>1, <1>3, <2>1, <2>3, <4>1 DEF InOrder, Cl!Cmd
    <3>3. /\ \A i \in DOMAIN d : i \in Nat /\ i \in DOMAIN e /\ i < Len(d) + 1 /\ e[i] = d[i]
          /\ Len(d) \in Nat /\ Len(e) = Len(d) + 1 /\ e[Len(d) + 1] = r.n /\ Len(d) + 1 \in DOMAIN e
          /\ \A i \in DOMAIN e : i \in Nat /\ (i = Len(d) + 1 \/ i \in DOMAIN d)
      <4>1. d \in Seq(Nat) /\ r.n \in Nat
        BY <1>2, <3>2
      <4>2. \A f \in Seq(Nat), x \in Nat :
              /\ \A i \in DOMAIN f : /\ i \in Nat /\ i \in DOMAIN Append(f, x) /\ i < Len(f) + 1
                                     /\ Append(f, x)[i] = f[i]
              /\ Len(f) \in Nat /\ Len(Append(f, x)) = Len(f) + 1 /\ Append(f, x)[Len(f) + 1] = x
              /\ Len(f) + 1 \in DOMAIN Append(f, x)
              /\ \A i \in DOMAIN Append(f, x) : i \in Nat /\ (i = Len(f) + 1 \/ i \in DOMAIN f)
        OBVIOUS
      <4> QED BY <4>1, <4>2, Zenon
    <3>4. InOrder(e, p, c, n)
      BY <1>1, <1>3, <2>1, <2>3, <3>2, <3>3 DEF InOrder
    <3>5. ASSUME AllThere(d, out, c, n) PROVE AllThere(e, p, c, n)
      <4>1. Len(d) \in Nat /\ r.n \in Nat /\ n \in Nat
        BY <1>2, <3>2
      <4>2. r.n = Len(d) + 1
        <5>1. \A k : Cl!Cmd(k).n = k /\ Cl!Cmd(k).k = "cmd"
          BY DEF Cl!Cmd
        <5>2. \A i \in DOMAIN d : d[i] = i /\ i < r.n
          BY <1>1, <1>3, <2>1, <2>3, <3>5 DEF AllThere, InOrder
        <5>3. Len(d) < r.n
          BY <1>2, <3>2, <5>2
        <5>4. Len(d) + 1 \in Len(d) + 1 .. n
          BY <3>2, <4>1, <5>3
        <5>5. CASE \E i \in DOMAIN out : out[i] = Cl!Cmd(Len(d) + 1)
          <6>1. PICK i \in DOMAIN out : out[i] = Cl!Cmd(Len(d) + 1)
            BY <5>5
          <6>2. CASE i = 1
            BY <1>1, <5>1, <6>1, <6>2
          <6>3. CASE i # 1
            <7>1. 1 < i
              BY <1>2, <6>3
            <7>2. r.n < Len(d) + 1
              BY <1>1, <1>3, <2>1, <2>3, <5>1, <6>1, <7>1 DEF InOrder
            <7> QED BY <4>1, <5>3, <7>2
          <6> QED BY <6>2, <6>3
        <5>6. CASE \E i \in DOMAIN c : c[i] = Len(d) + 1
          <6>1. r.n < Len(d) + 1
            BY <1>1, <1>3, <2>1, <2>3, <5>6 DEF InOrder
          <6> QED BY <4>1, <5>3, <6>1
        <5> HIDE DEF d, c, n, r
        <5> QED BY <3>5, <5>4, <5>5, <5>6 DEF AllThere
      <4>3. \A i \in DOMAIN e : e[i] = i
        BY <3>3, <3>5, <4>2 DEF AllThere
      <4>4. ASSUME NEW k \in Len(e) + 1 .. n
            PROVE  (\E i \in DOMAIN p : p[i] = Cl!Cmd(k)) \/ \E i \in DOMAIN c : c[i] = k
        <5>1. k \in Len(d) + 1 .. n /\ k # r.n
          BY <3>3, <4>1, <4>2, <4>4
        <5>2. out[1] # Cl!Cmd(k)
          BY <1>1, <3>2, <5>1 DEF Cl!Cmd
        <5> HIDE DEF d, c, n, r, p, e
        <5> QED BY <2>1, <3>5, <5>1, <5>2 DEF AllThere
      <4> HIDE DEF d, c, n, p, e
      <4> QED BY <4>3, <4>4 DEF AllThere
    <3> HIDE DEF e
    <3> QED BY <1>3, <1>5, <3>1, <3>4, <3>5 DEF InTurn
  <2> QED BY <2>2, <2>3
<1> QED BY <1>1, <1>4, <1>5

\* A line that is added keeps what came before it.
LEMMA SongsAdded ==
  ASSUME NEW p \in Seq(ClientLines), NEW x \in ClientLines
  PROVE  /\ \A k : HasKind(p, k) => HasKind(Append(p, x), k)
         /\ HasKind(Append(p, x), x.k)
         /\ \A v : x = Cl!Song(v) => LastIs(Append(p, x), v)
         /\ \A v : x.k # "song" /\ LastIs(p, v) => LastIs(Append(p, x), v)
<1> DEFINE r == Append(p, x)
<1>1. /\ Len(p) \in Nat /\ r[Len(p) + 1] = x /\ Len(p) + 1 \in DOMAIN r
      /\ \A i \in DOMAIN p : i \in DOMAIN r /\ i < Len(p) + 1 /\ r[i] = p[i]
      /\ \A i \in DOMAIN r : i \in Nat /\ (i = Len(p) + 1 \/ i \in DOMAIN p)
  BY LineAdded
<1> HIDE DEF r
<1>2. \A k : HasKind(p, k) => HasKind(r, k)
  BY <1>1 DEF HasKind
<1>3. HasKind(r, x.k)
  BY <1>1 DEF HasKind
<1>4. \A v : x = Cl!Song(v) => LastIs(r, v)
  BY <1>1 DEF LastIs
<1>5. \A v : x.k # "song" /\ LastIs(p, v) => LastIs(r, v)
  BY <1>1 DEF LastIs
<1> QED BY <1>2, <1>3, <1>4, <1>5 DEF r

\* ... and the variable is right or about to be,
LEMMA ServesFollows ==
  ASSUME Stands, Follows, Cl!Serves
  PROVE  Follows'
<1>1. /\ m.link = "up" /\ out # <<>>
      /\ Head(out) \in ClientRequests /\ Head(out) = out[1]
      /\ Closes(Head(out)) \/ (Reply(Head(out)) /\ out' = Tail(out) /\ UNCHANGED m)
  BY Served DEF Stands
<1>2. CASE Closes(Head(out))
  <2>1. m'.link = "closed"
    BY <1>1, <1>2, ClosedStands, Served DEF Stands
  <2> QED BY <2>1 DEF Follows
<1>3. CASE Reply(Head(out)) /\ out' = Tail(out) /\ UNCHANGED m
  <2> DEFINE r == Head(out)
  <2>1. s \in ServiceStates /\ q \in Seq(ClientLines) /\ out \in Seq(ClientRequests)
    BY DEF Stands, Cl!TypeOK, ServiceStates, ClientLines, ClientRequests
  <2>2. s.waits \in BOOLEAN /\ s.pending \in BOOLEAN /\ s.val \in Songs
    BY <2>1 DEF ServiceStates
  <2>3. /\ \A i \in DOMAIN out' : i \in Nat /\ i + 1 \in DOMAIN out /\ out'[i] = out[i + 1]
        /\ \A i \in DOMAIN out : i \in Nat /\ (i = 1 \/ (i - 1 \in DOMAIN out' /\ out'[i - 1] = out[i]))
        /\ 1 \in DOMAIN out
    BY <1>1, <1>3, <2>1, TailOf
  <2>4. \A k : HasKind(out, k) => r.k = k \/ HasKind(out', k)
    BY <1>1, <2>3 DEF HasKind
  <2>5. \A k : HasKind(out', k) => HasKind(out, k)
    BY <2>3 DEF HasKind
  <2>6. \A x : Append(q, x) # <<>>
    BY <2>1
  <2> SUFFICES ASSUME ~m.cut
               PROVE  /\ ~Cl!IsMpd => /\ \A i \in DOMAIN q' : q'[i].k = "song"
                                   /\ IF q' = <<>> THEN m.val = s'.val ELSE q'[Len(q')] = Cl!Song(s'.val)
                      /\ Cl!IsMpd /\ m.idle => AskedFor'
                      /\ Cl!IsMpd /\ ~m.idle => m.val = s'.val \/ s'.pending \/ q' # <<>>
                                               \/ HasKind(out', "currentsong") \/ HasKind(out', "cmd")
    <3> HIDE DEF r
    <3> QED BY <1>3 DEF Follows, Cl!IsMpd, HasKind
  <2>7. ASSUME ~Cl!IsMpd
        PROVE  /\ \A i \in DOMAIN q' : q'[i].k = "song"
               /\ IF q' = <<>> THEN m.val = s'.val ELSE q'[Len(q')] = Cl!Song(s'.val)
    <3>1. r.k = "cmd"
      BY <1>1, <2>3, <2>7 DEF Stands
    <3>2. PICK v \in Songs : q' = Append(q, Cl!Song(v)) /\ s'.val = v
      BY <1>3, <2>7, <3>1 DEF Reply, Serviced
    <3>3. \A i \in DOMAIN q : q[i].k = "song"
      BY <1>1, <2>7 DEF Follows
    <3>4. Cl!Song(v) \in ClientLines /\ Cl!Song(v).k = "song"
      BY LinesAre
    <3> QED BY <2>1, <3>2, <3>3, <3>4, LineAdded
  <2>8. ASSUME Cl!IsMpd, m.idle PROVE AskedFor'
    <3>1. AskedFor
      BY <1>1, <2>8 DEF Follows
    <3>2. CASE \E i \in DOMAIN out : out[i].k = "currentsong" /\ \A j \in DOMAIN out : i < j => out[j].k # "idle"
      <4>1. PICK i \in DOMAIN out : out[i].k = "currentsong" /\ \A j \in DOMAIN out : i < j => out[j].k # "idle"
        BY <3>2
      <4>2. CASE i = 1
        <5>1. s' = s /\ q' = Append(q, Cl!Song(s.val)) /\ ~s.waits
          BY <1>1, <1>3, <4>1, <4>2 DEF Reply
        <5>2. LastIs(q', s.val) /\ HasKind(q', "song")
          BY <2>1, <2>2, <5>1, SongsAdded, LinesAre
        <5>3. ~HasKind(out', "idle")
          BY <2>3, <4>1, <4>2 DEF HasKind
        <5> QED BY <5>1, <5>2, <5>3 DEF AskedFor, HasKind, LastIs
      <4>3. CASE i # 1
        BY <2>3, <4>1, <4>3 DEF AskedFor
      <4> QED BY <4>2, <4>3
    <3>3. CASE ~HasKind(out, "idle") /\ ~s.waits /\ HasKind(q, "song") /\ (s.pending \/ LastIs(q, s.val))
      <4>1. r.k # "idle" /\ ~HasKind(out', "idle")
        BY <1>1, <2>3, <2>5, <3>3 DEF HasKind
      <4>2. \A l \in {"ok", "status"} : Cl!Line(l) \in ClientLines /\ Cl!Line(l).k # "song"
        BY LinesAre
      <4>3. ~s'.waits /\ HasKind(q', "song") /\ (s'.pending \/ LastIs(q', s'.val))
        <5>1. CASE r.k = "noidle"
          <6>1. ~s'.waits /\ s'.pending = s.pending /\ s'.val = s.val /\ q' = q
            BY <1>3, <3>3, <5>1 DEF Reply, Serviced
          <6> QED BY <3>3, <6>1
        <5>2. CASE r.k = "status"
          <6>1. s' = s /\ q' = Append(q, Cl!Line("status"))
            BY <1>3, <5>2 DEF Reply
          <6> QED BY <2>1, <3>3, <4>2, <6>1, SongsAdded
        <5>3. CASE r.k = "currentsong"
          <6>1. s' = s /\ q' = Append(q, Cl!Song(s.val))
            BY <1>3, <5>3 DEF Reply
          <6> QED BY <2>1, <2>2, <3>3, <6>1, SongsAdded, LinesAre
        <5>4. CASE r.k = "cmd"
          <6>1. ~s'.waits /\ s'.pending /\ q' = Append(q, Cl!Line("ok"))
            BY <1>3, <2>8, <5>4 DEF Reply, Serviced
          <6> QED BY <2>1, <3>3, <4>2, <6>1, SongsAdded
        <5> QED BY <1>1, <4>1, <5>1, <5>2, <5>3, <5>4 DEF ClientRequests
      <4> QED BY <4>1, <4>3 DEF AskedFor, HasKind, LastIs
    <3> QED BY <3>1, <3>2, <3>3 DEF AskedFor
  <2>9. ASSUME Cl!IsMpd, ~m.idle
        PROVE  m.val = s'.val \/ s'.pending \/ q' # <<>> \/ HasKind(out', "currentsong") \/ HasKind(out', "cmd")
    <3>1. m.val = s.val \/ s.pending \/ q # <<>> \/ HasKind(out, "currentsong") \/ HasKind(out, "cmd")
      BY <1>1, <2>9 DEF Follows
    <3>2. CASE r.k = "noidle"
      <4>1. s'.pending = s.pending /\ s'.val = s.val /\ (q' = q \/ q' # <<>>)
        BY <1>3, <2>6, <3>2 DEF Reply, Serviced
      <4> QED BY <2>4, <3>1, <3>2, <4>1
    <3>3. CASE r.k = "idle"
      <4>1. s'.val = s.val /\ (q' # <<>> \/ (q' = q /\ ~s.pending))
        BY <1>3, <2>6, <3>3 DEF Reply, Serviced
      <4> QED BY <2>4, <3>1, <3>3, <4>1
    <3>4. CASE r.k \notin {"noidle", "idle"}
      <4>1. q' # <<>>
        BY <1>3, <2>6, <3>4 DEF Reply
      <4> QED BY <4>1
    <3> QED BY <3>2, <3>3, <3>4
  <2> QED BY <2>7, <2>8, <2>9
<1> QED BY <1>1, <1>2, <1>3

\* ... and the rows show the variable or a trigger waits.
LEMMA ServesShown ==
  ASSUME Stands, Shown, Cl!Serves
  PROVE  Shown'
<1>1. /\ UNCHANGED <<trig, rows, steps>>
      /\ Closes(Head(out)) \/ (Reply(Head(out)) /\ out' = Tail(out) /\ UNCHANGED m)
  BY Served DEF Stands
<1>2. m \in ClientStates
  BY DEF Stands, Cl!TypeOK, ClientStates
<1>3. m'.val = m.val
  BY <1>1, <1>2 DEF Closes, ClientStates
<1> QED BY <1>1, <1>3 DEF Shown

----------------------------------------------------------------------------
(* Lines are read *)

\* Some numbers up to n have a greatest
LEMMA MaxIs ==
  ASSUME NEW n \in Nat, NEW T, T \subseteq 1..n, T # {}
  PROVE  Cl!Max(T) \in T /\ \A y \in T : y <= Cl!Max(T)
<1> DEFINE U == {n - i : i \in T}
<1>1. U \subseteq Nat /\ U # {}
  <2>1. \A i \in T : n - i \in Nat
    OBVIOUS
  <2>2. PICK i \in T : TRUE
    OBVIOUS
  <2>3. n - i \in U
    BY <2>2
  <2> QED BY <2>1, <2>3
<1>2. PICK u \in U : \A w \in U : <<w, u>> \notin OpToRel(<, Nat)
  <2> HIDE DEF U
  <2> QED BY <1>1, WFMin, NatLessThanWellFounded
<1>3. \A w \in U : ~(w < u)
  BY <1>1, <1>2 DEF OpToRel
<1>4. PICK x \in T : u = n - x
  OBVIOUS
<1>5. \A y \in T : y <= x
  <2> SUFFICES ASSUME NEW y \in T PROVE y <= x
    OBVIOUS
  <2>1. n - y \in U /\ x \in Nat /\ y \in Nat /\ n \in Nat
    BY <1>4
  <2> QED BY <1>3, <1>4, <2>1
<1> QED BY <1>4, <1>5 DEF Cl!Max

\* The variable takes the value of the last song of the lines, and keeps its own
\* if there is none
LEMMA Consumes ==
  ASSUME NEW x \in ClientStates, NEW p \in Seq(ClientLines)
  PROVE  LET y == Cl!Consumed(x, p)
         IN  /\ y \in ClientStates /\ y = [x EXCEPT !.val = y.val]
             /\ ~HasKind(p, "song") => y.val = x.val
             /\ \A v : LastIs(p, v) => y.val = v
<1> DEFINE I == {i \in 1..Len(p) : p[i].k = "song"}
           y == Cl!Consumed(x, p)
<1>1. Len(p) \in Nat /\ I \subseteq 1..Len(p) /\ DOMAIN p = 1..Len(p)
  OBVIOUS
<1>2. CASE I = {}
  <2>1. Cl!SelectLastInSeq(p, LAMBDA l : l.k = "song") = 0
    BY <1>2 DEF Cl!SelectLastInSeq
  <2>2. y = x
    BY <2>1 DEF Cl!Consumed
  <2>3. x = [x EXCEPT !.val = x.val]
    BY DEF ClientStates
  <2>4. \A i \in DOMAIN p : p[i].k # "song"
    BY <1>1, <1>2
  <2>5. \A v : ~LastIs(p, v)
    BY <2>4 DEF LastIs, Cl!Song
  <2> QED BY <2>2, <2>3, <2>5
<1>3. CASE I # {}
  <2> DEFINE k == Cl!Max(I)
  <2>1. k \in I /\ \A i \in I : i <= k
    <3> HIDE DEF I
    <3> QED BY <1>1, <1>3, MaxIs
  <2>2. Cl!SelectLastInSeq(p, LAMBDA l : l.k = "song") = k
    BY <1>3 DEF Cl!SelectLastInSeq
  <2>3. k # 0 /\ k \in DOMAIN p /\ p[k].k = "song"
    BY <2>1
  <2> HIDE DEF k
  <2>4. y = [x EXCEPT !.val = p[k].val]
    BY <2>2, <2>3 DEF Cl!Consumed
  <2>5. p[k] \in ClientLines /\ p[k].val \in Songs
    <3>1. p[k] \in ClientLines
      BY <2>3
    <3> QED BY <2>3, <3>1 DEF ClientLines
  <2>6. y.val = p[k].val /\ y \in ClientStates
    BY <2>4, <2>5 DEF ClientStates
  <2>7. HasKind(p, "song")
    BY <2>3 DEF HasKind
  <2>8. ASSUME NEW v, LastIs(p, v) PROVE y.val = v
    <3>1. PICK i \in DOMAIN p : p[i] = Cl!Song(v) /\ \A j \in DOMAIN p : i < j => p[j].k # "song"
      BY <2>8 DEF LastIs
    <3>2. i \in I
      BY <1>1, <3>1 DEF Cl!Song
    <3>3. i = k
      BY <1>1, <2>1, <2>3, <3>1, <3>2
    <3> QED BY <2>6, <3>1, <3>3 DEF Cl!Song
  <2> QED BY <2>4, <2>6, <2>7, <2>8
<1> QED BY <1>2, <1>3

\* A trigger that rings waits for its turn
LEMMA ClientRung ==
  ASSUME NEW p \in Seq([t : {"client"}, of : {"client"}])
  PROVE  /\ Cl!Queue(p, Cl!Trigger("client", "client")) \in Seq([t : {"client"}, of : {"client"}])
         /\ Cl!Queue(p, Cl!Trigger("client", "client")) # <<>>
<1> DEFINE t == Cl!Trigger("client", "client")
           k == Cl!SelectLastInSeq(p, LAMBDA u : u.of = t.of)
<1>1. t \in [t : {"client"}, of : {"client"}]
  BY DEF Cl!Trigger
<1>2. Cl!Queue(p, t) = IF k # 0 /\ p[k] = t THEN p ELSE Append(p, t)
  BY DEF Cl!Queue
<1>3. p = <<>> => k = 0
  BY DEF Cl!SelectLastInSeq
<1> HIDE DEF k, t
<1>4. Cl!Queue(p, t) = p \/ Cl!Queue(p, t) = Append(p, t)
  BY <1>2
<1>5. Cl!Queue(p, t) = p => p # <<>>
  BY <1>2, <1>3, <1>1
<1>6. Append(p, t) \in Seq([t : {"client"}, of : {"client"}]) /\ Append(p, t) # <<>>
  BY <1>1
<1>7. Cl!Queue(p, t) \in Seq([t : {"client"}, of : {"client"}]) /\ Cl!Queue(p, t) # <<>>
  BY <1>4, <1>5, <1>6
<1> QED BY <1>7 DEF t

\* The lines up to k are read, and the variable has the value w
Takes(k, w) ==
  /\ q # <<>> /\ UNCHANGED <<s, rows, steps>>
  /\ \A v : LastIs(SubSeq(q, 1, k), v) => w = v
\* ... after which what the daemon is sent is lost, for the connection is closed
Loses(k, w) ==
  /\ q' = SubSeq(q, k + 1, Len(q)) /\ trig' # <<>> /\ trig' \in Seq([t : {"client"}, of : {"client"}])
  /\ Cl!IsMpd /\ m.link = "closed" /\ out' = out
  /\ \/ m.commands # <<>> /\ m' = [m EXCEPT !.val = w, !.commands = Tail(m.commands), !.lost = TRUE]
     \/ m.commands = <<>> /\ m' = [m EXCEPT !.val = w, !.idle = ~m.idle]
\* ... and the daemon is sent a command, or "idle", or the questions
Answers(k, w) ==
  /\ q' = SubSeq(q, k + 1, Len(q)) /\ trig' # <<>> /\ trig' \in Seq([t : {"client"}, of : {"client"}])
  /\ \/ ~Cl!IsMpd /\ m.link \in {"up", "closed"} /\ m' = [m EXCEPT !.val = w] /\ out' = out
     \/ /\ Cl!IsMpd /\ m.link = "up"
        /\ \/ /\ m.commands # <<>> /\ m' = [m EXCEPT !.val = w, !.commands = Tail(m.commands)]
              /\ out' = Append(out, Cl!Cmd(Head(m.commands)))
           \/ /\ m.commands = <<>> /\ m.idle /\ m' = [m EXCEPT !.val = w, !.idle = FALSE]
              /\ out' = Append(out, Cl!Line("idle"))
           \/ /\ m.commands = <<>> /\ ~m.idle /\ m' = [m EXCEPT !.val = w, !.idle = TRUE]
              /\ out' = Append(Append(out, Cl!Line("status")), Cl!Line("currentsong"))

\* Lines that are read have one of these effects.
LEMMA Received ==
  ASSUME Stands, Cl!Receives
  PROVE  \E k \in 1..Len(q), w \in Songs \cup {Nil} : Takes(k, w) /\ (Loses(k, w) \/ Answers(k, w))
<1>1. /\ m \in ClientStates /\ q \in Seq(ClientLines) /\ out \in Seq(ClientRequests)
      /\ trig \in Seq([t : {"client"}, of : {"client"}])
  BY DEF Stands, Cl!TypeOK, ClientLines, ClientRequests, ClientStates
<1>2. q # <<>> /\ m.link \in {"up", "closed"} /\ UNCHANGED <<s, rows, steps>>
  BY DEF Cl!Receives
<1>3. PICK k \in 1..Len(q) :
        LET x == Cl!Consumed(m, SubSeq(q, 1, k))
        IN  /\ q' = SubSeq(q, k + 1, Len(q))
            /\ Cl!Rings(IF Cl!IsMpd THEN Cl!Responded(x) ELSE x, Cl!Trigger("client", "client"))
  BY DEF Cl!Receives
<1> DEFINE x == Cl!Consumed(m, SubSeq(q, 1, k))
           w == x.val
<1>4. SubSeq(q, 1, k) \in Seq(ClientLines)
  BY <1>1, <1>3, SubSeqProperties
<1>5. x \in ClientStates /\ x = [m EXCEPT !.val = w] /\ \A v : LastIs(SubSeq(q, 1, k), v) => w = v
  BY <1>1, <1>4, Consumes
<1> HIDE DEF x
<1>6. /\ w \in Songs \cup {Nil} /\ x.commands = m.commands /\ x.idle = m.idle /\ x.link = m.link
      /\ x.out = <<>> /\ x.emit = <<>>
  BY <1>1, <1>5 DEF ClientStates
<1>7. Takes(k, w)
  BY <1>2, <1>5 DEF Takes
<1> DEFINE y == IF Cl!IsMpd THEN Cl!Responded(x) ELSE x
<1>8. q' = SubSeq(q, k + 1, Len(q)) /\ Cl!Rings(y, Cl!Trigger("client", "client"))
  BY <1>3 DEF x
<1>9. /\ m' = [y EXCEPT !.out = <<>>, !.emit = <<>>] /\ out' = out \o y.out
      /\ trig' = Cl!Queue(trig, Cl!Trigger("client", "client"))
  BY <1>8 DEF Cl!Rings, Cl!Ran
<1>10. trig' # <<>> /\ trig' \in Seq([t : {"client"}, of : {"client"}])
  BY <1>1, <1>9, ClientRung
<1>11. out \o <<>> = out
  BY <1>1
<1>12. CASE ~Cl!IsMpd
  <2>1. m' = x /\ out' = out
    <3>1. m' = [x EXCEPT !.out = <<>>, !.emit = <<>>] /\ out' = out \o x.out
      BY <1>9, <1>12
    <3> HIDE DEF w, y
    <3>2. m' = x
      BY <1>5, <1>6, <3>1 DEF ClientStates
    <3> QED BY <1>1, <1>6, <3>1, <3>2
  <2>2. m' = [m EXCEPT !.val = w]
    BY <1>5, <2>1
  <2> HIDE DEF w, y
  <2>3. Answers(k, w)
    BY <1>2, <1>8, <1>10, <1>12, <2>1, <2>2 DEF Answers
  <2> QED BY <1>6, <1>7, <2>3
<1>13. CASE Cl!IsMpd /\ m.commands # <<>>
  <2>1. y = [x EXCEPT !.out = IF x.link = "up" THEN <<Cl!Cmd(Head(x.commands))>> ELSE <<>>,
                      !.commands = Tail(@), !.lost = @ \/ x.link = "closed"]
    BY <1>6, <1>13 DEF Cl!Responded
  <2> HIDE DEF y
  <2>2. y.out = IF m.link = "up" THEN <<Cl!Cmd(Head(m.commands))>> ELSE <<>>
    BY <1>5, <1>6, <2>1 DEF ClientStates
  <2>3. m' = [m EXCEPT !.val = w, !.commands = Tail(m.commands), !.lost = @ \/ m.link = "closed"]
    BY <1>1, <1>5, <1>6, <1>9, <2>1 DEF ClientStates
  <2> HIDE DEF w
  <2>4. CASE m.link = "up"
    <3>1. out' = Append(out, Cl!Cmd(Head(m.commands)))
      BY <1>1, <1>9, <2>2, <2>4
    <3>2. m' = [m EXCEPT !.val = w, !.commands = Tail(m.commands)]
      BY <1>1, <2>3, <2>4 DEF ClientStates
    <3>3. Answers(k, w)
      BY <1>8, <1>10, <1>13, <2>4, <3>1, <3>2 DEF Answers
    <3> QED BY <1>6, <1>7, <3>3
  <2>5. CASE m.link = "closed"
    <3>1. out' = out
      BY <1>9, <1>11, <2>2, <2>5
    <3>2. m' = [m EXCEPT !.val = w, !.commands = Tail(m.commands), !.lost = TRUE]
      BY <1>1, <2>3, <2>5 DEF ClientStates
    <3>3. Loses(k, w)
      BY <1>8, <1>10, <1>13, <2>5, <3>1, <3>2 DEF Loses
    <3> QED BY <1>6, <1>7, <3>3
  <2> QED BY <1>2, <2>4, <2>5
<1>14. CASE Cl!IsMpd /\ m.commands = <<>>
  <2> DEFINE z == IF m.idle THEN <<Cl!Line("idle")>> ELSE <<Cl!Line("status"), Cl!Line("currentsong")>>
  <2>1. y = [x EXCEPT !.idle = ~@,
                      !.out = IF x.link = "up" THEN IF x.idle THEN <<Cl!Line("idle")>>
                                                    ELSE <<Cl!Line("status"), Cl!Line("currentsong")>>
                              ELSE <<>>]
    BY <1>6, <1>14 DEF Cl!Responded
  <2> HIDE DEF y
  <2>2. y.out = IF m.link = "up" THEN z ELSE <<>>
    BY <1>5, <1>6, <2>1 DEF ClientStates
  <2>3. m' = [m EXCEPT !.val = w, !.idle = ~m.idle]
    BY <1>1, <1>5, <1>6, <1>9, <2>1 DEF ClientStates
  <2> HIDE DEF w
  <2>4. CASE m.link = "up"
    <3>1. out' = IF m.idle THEN Append(out, Cl!Line("idle"))
                 ELSE Append(Append(out, Cl!Line("status")), Cl!Line("currentsong"))
      BY <1>1, <1>9, <2>2, <2>4
    <3>2. m.idle \in BOOLEAN
      BY <1>1 DEF ClientStates
    <3>3. Answers(k, w)
      BY <1>8, <1>10, <1>14, <2>3, <2>4, <3>1, <3>2 DEF Answers
    <3> QED BY <1>6, <1>7, <3>3
  <2>5. CASE m.link = "closed"
    <3>1. out' = out
      BY <1>9, <1>11, <2>2, <2>5
    <3>2. Loses(k, w)
      BY <1>8, <1>10, <1>14, <2>3, <2>5, <3>1 DEF Loses
    <3> QED BY <1>6, <1>7, <3>2
  <2> QED BY <1>2, <2>4, <2>5
<1> QED BY <1>12, <1>13, <1>14

\* Lines that are read leave a state that stands,
LEMMA ReceivesStands ==
  ASSUME Stands, Cl!Receives
  PROVE  Stands' /\ Cl!IsMpd' = Cl!IsMpd
<1>1. PICK k \in 1..Len(q), w \in Songs \cup {Nil} : Takes(k, w) /\ (Loses(k, w) \/ Answers(k, w))
  BY Received
<1>2. /\ m \in ClientStates /\ q \in Seq(ClientLines) /\ out \in Seq(ClientRequests) /\ m.commands \in Seq(Nat)
      /\ trig \in Seq([t : {"client"}, of : {"client"}])
  BY DEF Stands, Cl!TypeOK, ClientLines, ClientRequests, ClientStates
<1>3. m' \in ClientStates /\ m'.kind = m.kind /\ m'.link = m.link /\ m.link \in {"up", "closed"}
  <2>1. m.commands # <<>> => Tail(m.commands) \in Seq(Nat)
    BY <1>2
  <2> QED BY <1>1, <1>2, <2>1 DEF Loses, Answers, ClientStates
<1>4. Cl!IsMpd' = Cl!IsMpd /\ ~Away'
  BY <1>3 DEF Cl!IsMpd, Away
<1>5. q' \in Seq(ClientLines)
  <2>1. k + 1 \in Int /\ Len(q) \in Int
    BY <1>2
  <2>2. SubSeq(q, k + 1, Len(q)) \in Seq(ClientLines)
    BY <1>2, <2>1, SubSeqProperties
  <2>3. q' = <<>> \/ q' = SubSeq(q, k + 1, Len(q))
    BY <1>1, Zenon DEF Loses, Answers
  <2> HIDE DEF ClientLines
  <2>4. <<>> \in Seq(ClientLines)
    OBVIOUS
  <2> QED BY <2>2, <2>3, <2>4, Zenon
<1>6. out' \in Seq(ClientRequests)
  <2>1. m.commands # <<>> => Cl!Cmd(Head(m.commands)) \in ClientRequests
    BY <1>2, LinesAre
  <2>2. \A l \in {"status", "currentsong", "idle"} : Cl!Line(l) \in ClientRequests
    BY LinesAre
  <2>3. \A p \in Seq(ClientRequests), x \in ClientRequests : Append(p, x) \in Seq(ClientRequests)
    OBVIOUS
  <2>4. \/ out' = out
        \/ m.commands # <<>> /\ out' = Append(out, Cl!Cmd(Head(m.commands)))
        \/ out' = Append(out, Cl!Line("idle"))
        \/ out' = Append(Append(out, Cl!Line("status")), Cl!Line("currentsong"))
    BY <1>1, Zenon DEF Loses, Answers
  <2> HIDE DEF ClientRequests
  <2> QED BY <1>2, <2>1, <2>2, <2>3, <2>4
<1>7. trig' \in Seq([t : {"client"}, of : {"client"}])
  BY <1>1, <1>2 DEF Loses, Answers
<1>8. s' = s /\ rows' = rows /\ steps' = steps
  BY <1>1 DEF Takes
<1>9. Cl!TypeOK'
  BY <1>3, <1>5, <1>6, <1>7, <1>8 DEF Stands, Cl!TypeOK, ClientStates, ClientLines, ClientRequests
<1>10. ~Cl!IsMpd => m'.commands = <<>> /\ ~m'.idle /\ \A i \in DOMAIN out' : out'[i].k = "cmd"
  BY <1>1, <1>2 DEF Stands, Loses, Answers, ClientStates
<1>11. m'.idle => m'.commands = <<>>
  BY <1>1, <1>2 DEF Stands, Loses, Answers, ClientStates
<1>12. m'.link # "up" => out' = <<>>
  BY <1>1, <1>3 DEF Stands, Loses, Answers
<1> QED BY <1>4, <1>9, <1>10, <1>11, <1>12 DEF Stands

\* ... in which a trigger waits to show the variable,
LEMMA ReceivesShown ==
  ASSUME Stands, Cl!Receives
  PROVE  Shown'
<1>1. PICK k \in 1..Len(q), w \in Songs \cup {Nil} : Takes(k, w) /\ (Loses(k, w) \/ Answers(k, w))
  BY Received
<1>2. m \in ClientStates
  BY DEF Stands, Cl!TypeOK, ClientStates
<1>3. trig' # <<>>
  BY <1>1 DEF Loses, Answers
<1> QED BY <1>3 DEF Shown

\* ... and the daemon, if it waits, is told of the commands,
LEMMA ReceivesListens ==
  ASSUME Stands, Listens, Cl!Receives
  PROVE  Listens'
<1>1. PICK k \in 1..Len(q), w \in Songs \cup {Nil} : Takes(k, w) /\ (Loses(k, w) \/ Answers(k, w))
  BY Received
<1>2. /\ m \in ClientStates /\ out \in Seq(ClientRequests) /\ m.commands \in Seq(Nat) /\ s.waits \in BOOLEAN
  BY DEF Stands, Cl!TypeOK, ClientRequests, ClientStates
<1> SUFFICES ASSUME Cl!IsMpd', m'.link = "up"
             PROVE  /\ IF s'.waits THEN ~s'.pending /\ (m'.commands = <<>> \/ NoIdleIn(out'))
                       ELSE q' # <<>> \/ \E i \in DOMAIN out' : out'[i].k # "noidle"
                    /\ \A i \in DOMAIN out' : out'[i].k = "idle" =>
                         m'.commands = <<>> \/ \E j \in DOMAIN out' : i < j /\ out'[j].k = "noidle"
  BY DEF Listens, NoIdleIn
<1>3. Cl!IsMpd /\ m.link = "up" /\ s' = s /\ Answers(k, w)
  BY <1>1, <1>2, ReceivesStands DEF Takes, Loses, Answers, ClientStates
<1>4. /\ IF s.waits THEN ~s.pending /\ (m.commands = <<>> \/ NoIdleIn(out))
         ELSE q # <<>> \/ \E i \in DOMAIN out : out[i].k # "noidle"
      /\ \A i \in DOMAIN out : out[i].k = "idle" =>
           m.commands = <<>> \/ \E j \in DOMAIN out : i < j /\ out[j].k = "noidle"
  BY <1>3 DEF Listens
<1>5. CASE m.commands # <<>>
  <2> DEFINE x == Cl!Cmd(Head(m.commands))
  <2>1. out' = Append(out, x)
    BY <1>3, <1>5 DEF Answers
  <2>2. x \in ClientRequests /\ x.k = "cmd"
    BY <1>2, <1>5, LinesAre
  <2> HIDE DEF x
  <2>3. /\ Len(out) \in Nat /\ out'[Len(out) + 1] = x /\ Len(out) + 1 \in DOMAIN out'
        /\ \A i \in DOMAIN out : i \in DOMAIN out' /\ i < Len(out) + 1 /\ out'[i] = out[i]
        /\ \A i \in DOMAIN out' : i \in Nat /\ (i = Len(out) + 1 \/ i \in DOMAIN out)
    BY <1>2, <2>1, <2>2, LineAdded
  <2>4. s'.waits => ~s'.pending /\ NoIdleIn(out')
    BY <1>3, <1>4, <1>5, <2>3 DEF NoIdleIn
  <2>5. \E i \in DOMAIN out' : out'[i].k # "noidle"
    BY <2>2, <2>3
  <2>6. \A i \in DOMAIN out' : out'[i].k = "idle" => \E j \in DOMAIN out' : i < j /\ out'[j].k = "noidle"
    BY <1>4, <1>5, <2>2, <2>3
  <2> QED BY <2>4, <2>5, <2>6
<1>6. CASE m.commands = <<>>
  <2>1. m'.commands = <<>>
    BY <1>2, <1>3, <1>6 DEF Answers, ClientStates
  <2>2. \E p \in Seq(ClientRequests), x \in ClientRequests : out' = Append(p, x) /\ x.k # "noidle"
    <3>1. \A l \in {"status", "currentsong", "idle"} : Cl!Line(l) \in ClientRequests /\ Cl!Line(l).k # "noidle"
      BY LinesAre
    <3>2. Append(out, Cl!Line("status")) \in Seq(ClientRequests)
      BY <1>2, <3>1
    <3>3. out' = Append(out, Cl!Line("idle")) \/ out' = Append(Append(out, Cl!Line("status")), Cl!Line("currentsong"))
      BY <1>3, <1>6, Zenon DEF Answers
    <3> HIDE DEF ClientRequests
    <3> QED BY <1>2, <3>1, <3>2, <3>3
  <2>3. \E i \in DOMAIN out' : out'[i].k # "noidle"
    BY <2>2, LineAdded
  <2> QED BY <1>3, <1>4, <2>1, <2>3
<1> QED BY <1>5, <1>6

\* A request that is no command does not come between them
LEMMA OtherInTurn ==
  ASSUME NEW d \in Seq(Nat), NEW r \in Seq(ClientRequests), NEW c \in Seq(Nat), NEW n \in Nat,
         NEW x \in ClientRequests, x.k # "cmd"
  PROVE  /\ InOrder(d, r, c, n) => InOrder(d, Append(r, x), c, n)
         /\ AllThere(d, r, c, n) => AllThere(d, Append(r, x), c, n)
<1> DEFINE p == Append(r, x)
<1>1. /\ Len(r) \in Nat /\ p[Len(r) + 1] = x /\ Len(r) + 1 \in DOMAIN p
      /\ \A i \in DOMAIN r : i \in DOMAIN p /\ i < Len(r) + 1 /\ p[i] = r[i]
      /\ \A i \in DOMAIN p : i \in Nat /\ (i = Len(r) + 1 \/ i \in DOMAIN r)
  BY LineAdded
<1> HIDE DEF p
<1>2. InOrder(d, r, c, n) => InOrder(d, p, c, n)
  BY <1>1 DEF InOrder
<1>3. AllThere(d, r, c, n) => AllThere(d, p, c, n)
  BY <1>1 DEF AllThere
<1> QED BY <1>2, <1>3 DEF p

\* The first of those that are kept is sent last
LEMMA SentInTurn ==
  ASSUME NEW d \in Seq(Nat), NEW r \in Seq(ClientRequests), NEW c \in Seq(Nat), NEW n \in Nat, c # <<>>
  PROVE  /\ InOrder(d, r, c, n) => InOrder(d, Append(r, Cl!Cmd(Head(c))), Tail(c), n)
         /\ AllThere(d, r, c, n) => AllThere(d, Append(r, Cl!Cmd(Head(c))), Tail(c), n)
<1> DEFINE x == Cl!Cmd(Head(c))
           p == Append(r, x)
           b == Tail(c)
<1>1. /\ Head(c) = c[1] /\ Head(c) \in Nat /\ 1 \in DOMAIN c
      /\ \A i \in DOMAIN b : i \in Nat /\ i + 1 \in DOMAIN c /\ b[i] = c[i + 1]
      /\ \A i \in DOMAIN c : i \in Nat /\ (i = 1 \/ (i - 1 \in DOMAIN b /\ b[i - 1] = c[i]))
  <2>1. \A z : z = Tail(c) =>
          /\ Head(c) = c[1] /\ Head(c) \in Nat /\ 1 \in DOMAIN c
          /\ \A i \in DOMAIN z : i \in Nat /\ i + 1 \in DOMAIN c /\ z[i] = c[i + 1]
          /\ \A i \in DOMAIN c : i \in Nat /\ (i = 1 \/ (i - 1 \in DOMAIN z /\ z[i - 1] = c[i]))
    BY TailOf
  <2> QED BY <2>1, Zenon
<1>2. x \in ClientRequests /\ x.k = "cmd" /\ x.n = c[1]
  BY <1>1, LinesAre
<1>3. /\ Len(r) \in Nat /\ p[Len(r) + 1] = x /\ Len(r) + 1 \in DOMAIN p
      /\ \A i \in DOMAIN r : i \in DOMAIN p /\ i < Len(r) + 1 /\ p[i] = r[i]
      /\ \A i \in DOMAIN p : i \in Nat /\ (i = Len(r) + 1 \/ i \in DOMAIN r)
  BY <1>2, LineAdded
<1>4. x = Cl!Cmd(c[1])
  BY <1>1
<1> HIDE DEF p, x, b
<1>5. InOrder(d, r, c, n) => InOrder(d, p, b, n)
  <2> SUFFICES ASSUME InOrder(d, r, c, n) PROVE InOrder(d, p, b, n)
    OBVIOUS
  <2>1. \A i \in DOMAIN d : d[i] \in 1..n /\ \A j \in DOMAIN d : i < j => d[i] < d[j]
    BY DEF InOrder
  <2>2. ASSUME NEW i \in DOMAIN p, p[i].k = "cmd"
        PROVE  /\ p[i].n \in 1..n /\ \A j \in DOMAIN d : d[j] < p[i].n
               /\ \A j \in DOMAIN p : i < j /\ p[j].k = "cmd" => p[i].n < p[j].n
               /\ \A j \in DOMAIN b : p[i].n < b[j]
    <3>1. CASE i = Len(r) + 1
      <4>1. p[i] = x /\ x.n = c[1]
        BY <1>2, <1>3, <3>1
      <4>2. c[1] \in 1..n /\ (\A j \in DOMAIN d : d[j] < c[1]) /\ \A j \in DOMAIN c : 1 < j => c[1] < c[j]
        BY <1>1 DEF InOrder
      <4>3. \A j \in DOMAIN b : c[1] < b[j]
        <5> TAKE j \in DOMAIN b
        <5>1. j \in Nat /\ j + 1 \in DOMAIN c /\ b[j] = c[j + 1]
          BY <1>1
        <5>2. j # 0
          <6> USE DEF b
          <6> QED OBVIOUS
        <5> QED BY <4>2, <5>1, <5>2
      <4>4. \A j \in DOMAIN p : ~(i < j)
        BY <1>3, <3>1
      <4> QED BY <4>1, <4>2, <4>3, <4>4
    <3>2. CASE i \in DOMAIN r
      BY <1>1, <1>2, <1>3, <2>2, <3>2 DEF InOrder
    <3> QED BY <1>3, <3>1, <3>2
  <2>3. ASSUME NEW i \in DOMAIN b
        PROVE  /\ b[i] \in 1..n /\ \A j \in DOMAIN d : d[j] < b[i]
               /\ \A j \in DOMAIN b : i < j => b[i] < b[j]
    BY <1>1 DEF InOrder
  <2> QED BY <2>1, <2>2, <2>3 DEF InOrder
<1>6. AllThere(d, r, c, n) => AllThere(d, p, b, n)
  <2> SUFFICES ASSUME AllThere(d, r, c, n), NEW k \in Len(d) + 1 .. n
               PROVE  (\E i \in DOMAIN p : p[i] = Cl!Cmd(k)) \/ \E i \in DOMAIN b : b[i] = k
    BY DEF AllThere
  <2>1. (\E i \in DOMAIN r : r[i] = Cl!Cmd(k)) \/ \E i \in DOMAIN c : c[i] = k
    BY DEF AllThere
  <2>2. CASE \E i \in DOMAIN r : r[i] = Cl!Cmd(k)
    BY <1>3, <2>2
  <2>3. CASE \E i \in DOMAIN c : c[i] = k
    <3>1. PICK i \in DOMAIN c : c[i] = k
      BY <2>3
    <3>2. CASE i = 1
      BY <1>3, <1>4, <3>1, <3>2
    <3>3. CASE i # 1
      BY <1>1, <3>1, <3>3
    <3> QED BY <3>2, <3>3
  <2> QED BY <2>1, <2>2, <2>3
<1> QED BY <1>5, <1>6 DEF p, x, b

\* ... and is taken from them when the connection is closed
LEMMA LostInTurn ==
  ASSUME NEW d \in Seq(Nat), NEW r \in Seq(ClientRequests), NEW c \in Seq(Nat), NEW n \in Nat, c # <<>>,
         InOrder(d, r, c, n)
  PROVE  InOrder(d, r, Tail(c), n)
<1> DEFINE b == Tail(c)
<1>1. \A i \in DOMAIN b : i \in Nat /\ i + 1 \in DOMAIN c /\ b[i] = c[i + 1]
  <2>1. \A z : z = Tail(c) => \A i \in DOMAIN z : i \in Nat /\ i + 1 \in DOMAIN c /\ z[i] = c[i + 1]
    BY TailOf
  <2> QED BY <2>1, Zenon
<1> HIDE DEF b
<1>2. \A i \in DOMAIN d : d[i] \in 1..n /\ \A j \in DOMAIN d : i < j => d[i] < d[j]
  BY DEF InOrder
<1>3. ASSUME NEW i \in DOMAIN r, r[i].k = "cmd"
      PROVE  /\ r[i].n \in 1..n /\ \A j \in DOMAIN d : d[j] < r[i].n
             /\ \A j \in DOMAIN r : i < j /\ r[j].k = "cmd" => r[i].n < r[j].n
             /\ \A j \in DOMAIN b : r[i].n < b[j]
  BY <1>1, <1>3 DEF InOrder
<1>4. ASSUME NEW i \in DOMAIN b
      PROVE  /\ b[i] \in 1..n /\ \A j \in DOMAIN d : d[j] < b[i]
             /\ \A j \in DOMAIN b : i < j => b[i] < b[j]
  BY <1>1 DEF InOrder
<1>5. InOrder(d, r, b, n)
  BY <1>2, <1>3, <1>4 DEF InOrder
<1> QED BY <1>5 DEF b

\* ... which are sent in their order,
LEMMA ReceivesInTurn ==
  ASSUME Stands, InTurn, Cl!Receives
  PROVE  InTurn'
<1>1. PICK k \in 1..Len(q), w \in Songs \cup {Nil} : Takes(k, w) /\ (Loses(k, w) \/ Answers(k, w))
  BY Received
<1> DEFINE d == s.ran
           c == m.commands
           n == m.n
<1>2. d \in Seq(Nat) /\ c \in Seq(Nat) /\ n \in Nat /\ out \in Seq(ClientRequests) /\ m \in ClientStates
  BY DEF Stands, Cl!TypeOK, ClientRequests, ClientStates
<1>3. m'.n = n /\ s'.ran = d /\ (m'.lost \/ ~m.lost)
  BY <1>1, <1>2 DEF Takes, Loses, Answers, ClientStates
<1>4. \A l \in {"status", "currentsong", "idle"} : Cl!Line(l) \in ClientRequests /\ Cl!Line(l).k # "cmd"
  BY LinesAre
<1>5. CASE out' = out /\ m'.commands = c
  BY <1>3, <1>5 DEF InTurn
<1>6. CASE m.commands # <<>> /\ out' = Append(out, Cl!Cmd(Head(c))) /\ m'.commands = Tail(c)
  <2>1. /\ InOrder(d, out, c, n) => InOrder(d, out', m'.commands, n)
        /\ AllThere(d, out, c, n) => AllThere(d, out', m'.commands, n)
    <3> HIDE DEF d, n
    <3> QED BY <1>2, <1>6, SentInTurn
  <2> QED BY <1>3, <2>1 DEF InTurn
<1>7. CASE out' = Append(out, Cl!Line("idle")) /\ m'.commands = c
  <2>1. /\ InOrder(d, out, c, n) => InOrder(d, out', m'.commands, n)
        /\ AllThere(d, out, c, n) => AllThere(d, out', m'.commands, n)
    <3> HIDE DEF d, n, c
    <3> QED BY <1>2, <1>4, <1>7, OtherInTurn
  <2> QED BY <1>3, <2>1 DEF InTurn
<1>8. CASE out' = Append(Append(out, Cl!Line("status")), Cl!Line("currentsong")) /\ m'.commands = c
  <2> DEFINE p == Append(out, Cl!Line("status"))
  <2>1. p \in Seq(ClientRequests)
    BY <1>2, <1>4
  <2>2. /\ InOrder(d, out, c, n) => InOrder(d, p, c, n)
        /\ AllThere(d, out, c, n) => AllThere(d, p, c, n)
    <3> HIDE DEF d, n, c
    <3> QED BY <1>2, <1>4, OtherInTurn
  <2>3. /\ InOrder(d, p, c, n) => InOrder(d, out', m'.commands, n)
        /\ AllThere(d, p, c, n) => AllThere(d, out', m'.commands, n)
    <3> HIDE DEF d, n, c
    <3>1. out' = Append(p, Cl!Line("currentsong")) /\ m'.commands = c
      BY <1>8
    <3> HIDE DEF p
    <3> QED BY <1>2, <1>4, <2>1, <3>1, OtherInTurn
  <2> QED BY <1>3, <2>2, <2>3 DEF InTurn
<1>9. CASE m.commands # <<>> /\ out' = out /\ m'.commands = Tail(c) /\ m'.lost
  <2>1. InOrder(d, out, c, n)
    BY DEF InTurn
  <2>2. InOrder(d, out', m'.commands, n)
    <3> HIDE DEF d, n
    <3> QED BY <1>2, <1>9, <2>1, LostInTurn
  <2> QED BY <1>3, <1>9, <2>2 DEF InTurn
<1>10. \/ out' = out /\ m'.commands = c
       \/ m.commands # <<>> /\ out' = out /\ m'.commands = Tail(c) /\ m'.lost
       \/ m.commands # <<>> /\ out' = Append(out, Cl!Cmd(Head(c))) /\ m'.commands = Tail(c)
       \/ out' = Append(out, Cl!Line("idle")) /\ m'.commands = c
       \/ out' = Append(Append(out, Cl!Line("status")), Cl!Line("currentsong")) /\ m'.commands = c
  <2>1. CASE Loses(k, w)
    BY <1>2, <2>1 DEF Loses, ClientStates
  <2>2. CASE Answers(k, w)
    BY <1>2, <2>2 DEF Answers, ClientStates
  <2> QED BY <1>1, <2>1, <2>2
<1> QED BY <1>5, <1>6, <1>7, <1>8, <1>9, <1>10

\* What comes after the first k
LEMMA After ==
  ASSUME NEW S, NEW p \in Seq(S), NEW k \in 1..Len(p), NEW b, b = SubSeq(p, k + 1, Len(p))
  PROVE  b \in Seq(S) /\ Len(b) = Len(p) - k /\ \A i \in 1..Len(p) - k : b[i] = p[k + i]
<1> DEFINE c == SubSeq(p, k + 1, Len(p))
<1>1. k + 1 \in Int /\ Len(p) \in Int /\ Len(p) \in Nat /\ k \in Nat /\ k <= Len(p)
  OBVIOUS
<1>2. \A i \in k + 1 .. Len(p) : p[i] \in S
  OBVIOUS
<1>3. /\ c \in Seq(S) /\ Len(c) = IF k + 1 <= Len(p) THEN Len(p) - (k + 1) + 1 ELSE 0
      /\ \A i \in 1 .. Len(p) - (k + 1) + 1 : c[i] = p[k + 1 + i - 1]
  BY <1>1, <1>2, SubSeqProperties
<1>4. /\ b \in Seq(S) /\ Len(b) = IF k + 1 <= Len(p) THEN Len(p) - (k + 1) + 1 ELSE 0
      /\ \A i \in 1 .. Len(p) - (k + 1) + 1 : b[i] = p[k + 1 + i - 1]
  BY <1>3, Zenon
<1>5. Len(b) = Len(p) - k
  BY <1>1, <1>4
<1> QED BY <1>1, <1>4, <1>5

\* The lines up to k, and those after it
LEMMA Parted ==
  ASSUME NEW S, NEW p \in Seq(S), NEW k \in 1..Len(p)
  PROVE  \A b \in Seq(S) : Len(b) = Len(p) - k /\ (\A i \in 1..Len(p) - k : b[i] = p[k + i]) =>
           /\ b = <<>> => k = Len(p)
           /\ b # <<>> => b[Len(b)] = p[Len(p)]
           /\ \A i \in DOMAIN b : \E j \in DOMAIN p : b[i] = p[j]
<1> TAKE b \in Seq(S)
<1> HAVE Len(b) = Len(p) - k /\ \A i \in 1..Len(p) - k : b[i] = p[k + i]
<1>1. Len(p) \in Nat /\ k \in Nat /\ k <= Len(p) /\ k >= 1 /\ DOMAIN p = 1..Len(p)
  OBVIOUS
<1>2. b \in Seq(S) /\ Len(b) = Len(p) - k /\ \A i \in 1..Len(p) - k : b[i] = p[k + i]
  OBVIOUS
<1>3. ASSUME b = <<>> PROVE k = Len(p)
  BY <1>1, <1>2, <1>3
<1>4. ASSUME b # <<>> PROVE b[Len(b)] = p[Len(p)]
  <2>1. Len(b) # 0 /\ Len(b) \in Nat
    BY <1>2, <1>4
  <2>2. Len(b) \in 1..Len(p) - k /\ k + Len(b) = Len(p)
    BY <1>1, <1>2, <2>1
  <2> QED BY <1>2, <2>2
<1>5. \A i \in DOMAIN b : \E j \in DOMAIN p : b[i] = p[j]
  <2> TAKE i \in DOMAIN b
  <2>1. i \in 1..Len(b)
    BY <1>2
  <2>2. b[i] = p[k + i] /\ k + i \in DOMAIN p
    BY <1>1, <1>2, <2>1
  <2> QED BY <2>2
<1> QED BY <1>3, <1>4, <1>5

\* ... and the variable is right or about to be.
LEMMA ReceivesFollows ==
  ASSUME Stands, Follows, Cl!Receives
  PROVE  Follows'
<1>1. PICK k \in 1..Len(q), w \in Songs \cup {Nil} : Takes(k, w) /\ (Loses(k, w) \/ Answers(k, w))
  BY Received
<1>2. /\ m \in ClientStates /\ out \in Seq(ClientRequests) /\ q \in Seq(ClientLines) /\ q # <<>>
      /\ s.val \in Songs
  BY <1>1 DEF Stands, Cl!TypeOK, ClientRequests, ClientStates, ClientLines, Takes
<1> SUFFICES ASSUME m'.link = "up", ~m'.cut
             PROVE  /\ ~Cl!IsMpd' => /\ \A i \in DOMAIN q' : q'[i].k = "song"
                                  /\ IF q' = <<>> THEN m'.val = s'.val ELSE q'[Len(q')] = Cl!Song(s'.val)
                    /\ Cl!IsMpd' /\ m'.idle => AskedFor'
                    /\ Cl!IsMpd' /\ ~m'.idle => m'.val = s'.val \/ s'.pending \/ q' # <<>>
                                               \/ HasKind(out', "currentsong") \/ HasKind(out', "cmd")
  BY DEF Follows, HasKind
<1>3. /\ m.link = "up" /\ s' = s /\ Answers(k, w) /\ m'.val = w /\ ~m.cut /\ Cl!IsMpd' = Cl!IsMpd
      /\ q' = SubSeq(q, k + 1, Len(q))
  BY <1>1, <1>2, ReceivesStands DEF Takes, Loses, Answers, ClientStates
<1>4. \A v : LastIs(SubSeq(q, 1, k), v) => w = v
  BY <1>1 DEF Takes
<1>5. /\ q' = <<>> => SubSeq(q, 1, k) = q
      /\ q' # <<>> => q'[Len(q')] = q[Len(q)]
      /\ \A i \in DOMAIN q' : \E j \in DOMAIN q : q'[i] = q[j]
  <2>1. k \in 1..Len(q)
    OBVIOUS
  <2> HIDE DEF ClientLines
  <2>2. \A b : b = SubSeq(q, k + 1, Len(q)) =>
          b \in Seq(ClientLines) /\ Len(b) = Len(q) - k /\ \A i \in 1..Len(q) - k : b[i] = q[k + i]
    BY <1>2, <2>1, After
  <2>3. \A b \in Seq(ClientLines) :
          Len(b) = Len(q) - k /\ (\A i \in 1..Len(q) - k : b[i] = q[k + i]) =>
          /\ b = <<>> => k = Len(q)
          /\ b # <<>> => b[Len(b)] = q[Len(q)]
          /\ \A i \in DOMAIN b : \E j \in DOMAIN q : b[i] = q[j]
    <3>1. q \in Seq(ClientLines)
      BY <1>2
    <3> QED BY <2>1, <3>1, Parted
  <2>4. q' = SubSeq(q, k + 1, Len(q))
    BY <1>3
  <2>5. q' \in Seq(ClientLines) /\ Len(q') = Len(q) - k /\ \A i \in 1..Len(q) - k : q'[i] = q[k + i]
    BY <2>2, <2>4, Zenon
  <2>6. /\ q' = <<>> => k = Len(q)
        /\ q' # <<>> => q'[Len(q')] = q[Len(q)]
        /\ \A i \in DOMAIN q' : \E j \in DOMAIN q : q'[i] = q[j]
    BY <2>3, <2>5, Zenon
  <2>7. SubSeq(q, 1, Len(q)) = q
    BY <1>2
  <2> QED BY <2>6, <2>7, Zenon
<1>6. ASSUME ~Cl!IsMpd
      PROVE  /\ \A i \in DOMAIN q' : q'[i].k = "song"
             /\ IF q' = <<>> THEN m'.val = s'.val ELSE q'[Len(q')] = Cl!Song(s'.val)
  <2>1. /\ \A i \in DOMAIN q : q[i].k = "song"
        /\ q[Len(q)] = Cl!Song(s.val)
    BY <1>2, <1>3, <1>6 DEF Follows
  <2>2. LastIs(q, s.val)
    BY <1>2, <2>1 DEF LastIs
  <2> QED BY <1>3, <1>4, <1>5, <2>1, <2>2
<1>7. ASSUME Cl!IsMpd, m'.idle PROVE AskedFor'
  <2>1. out' = Append(Append(out, Cl!Line("status")), Cl!Line("currentsong"))
    BY <1>2, <1>3, <1>7 DEF Answers, ClientStates, Stands
  <2>2. Append(out, Cl!Line("status")) \in Seq(ClientRequests) /\ Cl!Line("currentsong") \in ClientRequests
        /\ Cl!Line("currentsong").k = "currentsong"
    BY <1>2, LinesAre
  <2>3. \E i \in DOMAIN out' : out'[i].k = "currentsong" /\ \A j \in DOMAIN out' : ~(i < j)
    <3> DEFINE p == Append(out, Cl!Line("status"))
               x == Cl!Line("currentsong")
    <3>1. out' = Append(p, x) /\ p \in Seq(ClientRequests) /\ x \in ClientRequests /\ x.k = "currentsong"
      BY <2>1, <2>2
    <3> HIDE DEF p, x
    <3>2. /\ Len(p) \in Nat /\ Append(p, x)[Len(p) + 1] = x /\ Len(p) + 1 \in DOMAIN Append(p, x)
          /\ \A i \in DOMAIN p : i < Len(p) + 1
          /\ \A i \in DOMAIN Append(p, x) : i \in Nat /\ (i = Len(p) + 1 \/ i \in DOMAIN p)
      BY <3>1, LineAdded
    <3> QED BY <3>1, <3>2
  <2> QED BY <2>3 DEF AskedFor
<1>8. ASSUME Cl!IsMpd, ~m'.idle
      PROVE  m'.val = s'.val \/ s'.pending \/ q' # <<>>
               \/ HasKind(out', "currentsong") \/ HasKind(out', "cmd")
  <2>1. CASE m.commands # <<>> /\ out' = Append(out, Cl!Cmd(Head(m.commands)))
    <3> DEFINE x == Cl!Cmd(Head(m.commands))
    <3>1. m.commands \in Seq(Nat)
      BY <1>2 DEF ClientStates
    <3>2. x \in ClientRequests /\ x.k = "cmd"
      BY <2>1, <3>1, LinesAre
    <3> HIDE DEF x
    <3>3. out' = Append(out, x)
      BY <2>1 DEF x
    <3> QED BY <1>2, <3>2, <3>3, LineAdded DEF HasKind
  <2>2. CASE m.idle /\ out' = Append(out, Cl!Line("idle"))
    <3>1. AskedFor
      BY <1>3, <1>8, <2>2 DEF Follows
    <3>2. Cl!Line("idle") \in ClientRequests
      BY LinesAre
    <3>3. CASE \E i \in DOMAIN out : out[i].k = "currentsong"
      BY <1>2, <2>2, <3>2, <3>3, LineAdded DEF HasKind
    <3>4. CASE s.pending \/ LastIs(q, s.val)
      BY <1>3, <1>4, <1>5, <3>4
    <3> QED BY <3>1, <3>3, <3>4 DEF AskedFor
  <2>3. \/ m.commands # <<>> /\ out' = Append(out, Cl!Cmd(Head(m.commands)))
        \/ m.idle /\ out' = Append(out, Cl!Line("idle"))
    BY <1>2, <1>3, <1>8 DEF Answers, ClientStates
  <2> QED BY <2>1, <2>2, <2>3
<1> QED BY <1>3, <1>6, <1>7, <1>8

----------------------------------------------------------------------------
(* The other steps *)

\* What is dropped is no longer in the way
LEMMA DropsInTurn ==
  ASSUME NEW d, NEW r, NEW c, NEW n
  PROVE  /\ InOrder(d, r, c, n) => InOrder(d, <<>>, c, n)
         /\ AllThere(d, r, c, n) /\ (\A i \in DOMAIN r : r[i].k # "cmd") => AllThere(d, <<>>, c, n)
BY DEF InOrder, AllThere, Cl!Cmd

\* A new command has the greatest number, whether it is kept, sent or lost
LEMMA NewInTurn ==
  ASSUME NEW d \in Seq(Nat), NEW r \in Seq(ClientRequests), NEW c \in Seq(Nat), NEW n \in Nat,
         InOrder(d, r, c, n)
  PROVE  /\ InOrder(d, r, c, n + 1)
         /\ InOrder(d, r, Append(c, n + 1), n + 1)
         /\ AllThere(d, r, c, n) => AllThere(d, r, Append(c, n + 1), n + 1)
         /\ c = <<>> => InOrder(d, Append(r, Cl!Cmd(n + 1)), c, n + 1)
         /\ c = <<>> /\ AllThere(d, r, c, n) => AllThere(d, Append(r, Cl!Cmd(n + 1)), c, n + 1)
<1> DEFINE x == Cl!Cmd(n + 1)
           b == Append(c, n + 1)
           p == Append(r, x)
<1>1. n + 1 \in Nat /\ \A i \in 1..n : i \in Nat /\ i < n + 1 /\ i \in 1..n + 1
  OBVIOUS
<1>2. /\ Len(c) \in Nat /\ b[Len(c) + 1] = n + 1 /\ Len(c) + 1 \in DOMAIN b
      /\ \A i \in DOMAIN c : i \in Nat /\ i \in DOMAIN b /\ i < Len(c) + 1 /\ b[i] = c[i]
      /\ \A i \in DOMAIN b : i \in Nat /\ (i = Len(c) + 1 \/ i \in DOMAIN c)
  BY <1>1
<1>3. x \in ClientRequests /\ x.k = "cmd" /\ x.n = n + 1 /\ x = Cl!Cmd(n + 1)
  BY <1>1, LinesAre
<1> HIDE DEF x, b
<1>4. /\ Len(r) \in Nat /\ p[Len(r) + 1] = x /\ Len(r) + 1 \in DOMAIN p
      /\ \A i \in DOMAIN r : i \in Nat /\ i \in DOMAIN p /\ i < Len(r) + 1 /\ p[i] = r[i]
      /\ \A i \in DOMAIN p : i \in Nat /\ (i = Len(r) + 1 \/ i \in DOMAIN r)
  BY <1>3, LineAdded
<1> HIDE DEF p
<1>5. /\ \A i \in DOMAIN d : d[i] \in 1..n /\ \A j \in DOMAIN d : i < j => d[i] < d[j]
      /\ \A i \in DOMAIN r : r[i].k = "cmd" =>
           /\ r[i].n \in 1..n /\ \A j \in DOMAIN d : d[j] < r[i].n
           /\ \A j \in DOMAIN r : i < j /\ r[j].k = "cmd" => r[i].n < r[j].n
           /\ \A j \in DOMAIN c : r[i].n < c[j]
      /\ \A i \in DOMAIN c :
           /\ c[i] \in 1..n /\ \A j \in DOMAIN d : d[j] < c[i]
           /\ \A j \in DOMAIN c : i < j => c[i] < c[j]
  BY DEF InOrder
<1>6. InOrder(d, r, c, n + 1)
  BY <1>1, <1>5 DEF InOrder
<1>7. InOrder(d, r, b, n + 1)
  <2>1. \A i \in DOMAIN r : r[i].k = "cmd" => \A j \in DOMAIN b : r[i].n < b[j]
    BY <1>1, <1>2, <1>5
  <2>2. ASSUME NEW i \in DOMAIN b
        PROVE  /\ b[i] \in 1..n + 1 /\ \A j \in DOMAIN d : d[j] < b[i]
               /\ \A j \in DOMAIN b : i < j => b[i] < b[j]
    <3>1. CASE i = Len(c) + 1
      <4>1. b[i] = n + 1 /\ \A j \in DOMAIN b : ~(i < j)
        <5>1. b[i] = n + 1
          BY <1>2, <3>1, Zenon
        <5>2. \A j \in DOMAIN b : j \in Nat /\ (j = i \/ j < i)
          BY <1>2, <3>1, Zenon
        <5>3. i \in Nat
          BY <1>2, <3>1
        <5>4. \A j \in Nat : j = i \/ j < i => ~(i < j)
          BY <5>3
        <5> QED BY <5>1, <5>2, <5>4, Zenon
      <4>2. \A j \in DOMAIN d : d[j] < n + 1
        BY <1>1, <1>5
      <4> QED BY <1>1, <4>1, <4>2
    <3>2. CASE i \in DOMAIN c
      <4>1. b[i] = c[i] /\ c[i] \in 1..n
        BY <1>2, <1>5, <3>2
      <4>2. ASSUME NEW j \in DOMAIN b, i < j PROVE b[i] < b[j]
        BY <1>1, <1>2, <1>5, <3>2, <4>1, <4>2
      <4> QED BY <1>1, <1>5, <3>2, <4>1, <4>2
    <3> QED BY <1>2, <3>1, <3>2
  <2> QED BY <1>1, <1>5, <2>1, <2>2 DEF InOrder
<1>8. \A k \in Len(d) + 1 .. n + 1 : k = n + 1 \/ k \in Len(d) + 1 .. n
  OBVIOUS
<1>9. AllThere(d, r, c, n) => AllThere(d, r, b, n + 1)
  BY <1>2, <1>8 DEF AllThere
<1>10. c = <<>> => InOrder(d, p, c, n + 1)
  <2> SUFFICES ASSUME c = <<>> PROVE InOrder(d, p, c, n + 1)
    OBVIOUS
  <2>1. ASSUME NEW i \in DOMAIN p, p[i].k = "cmd"
        PROVE  /\ p[i].n \in 1..n + 1 /\ \A j \in DOMAIN d : d[j] < p[i].n
               /\ \A j \in DOMAIN p : i < j /\ p[j].k = "cmd" => p[i].n < p[j].n
    <3>1. CASE i = Len(r) + 1
      BY <1>1, <1>3, <1>4, <1>5, <3>1
    <3>2. CASE i \in DOMAIN r
      BY <1>1, <1>3, <1>4, <1>5, <2>1, <3>2
    <3> QED BY <1>4, <3>1, <3>2
  <2> QED BY <1>1, <1>5, <2>1 DEF InOrder
<1>11. c = <<>> /\ AllThere(d, r, c, n) => AllThere(d, p, c, n + 1)
  BY <1>3, <1>4, <1>8 DEF AllThere
<1> QED BY <1>6, <1>7, <1>9, <1>10, <1>11 DEF x, b, p

\* The trigger shows the variable.
LEMMA ShowKeeps == ASSUME ClientInv, Cl!Show PROVE ClientInv'
<1>1. trig # <<>> /\ trig' = Tail(trig) /\ rows' = m.val /\ UNCHANGED <<s, m, q, out, steps>>
  BY DEF Cl!Show, Cl!Shows
<1>2. trig \in Seq([t : {"client"}, of : {"client"}]) /\ m.val \in Songs \cup {Nil}
  BY DEF ClientInv, Stands, Cl!TypeOK
<1>3. trig' \in Seq([t : {"client"}, of : {"client"}])
  BY <1>1, <1>2
<1>4. Stands'
  BY <1>1, <1>2, <1>3 DEF ClientInv, Stands, Cl!TypeOK, Away, Cl!IsMpd
<1>5. Listens' /\ InTurn' /\ Follows'
  BY <1>1 DEF ClientInv, Listens, InTurn, Follows, AskedFor, HasKind, LastIs, NoIdleIn, Cl!IsMpd
<1>6. Shown'
  BY <1>1 DEF Shown
<1> QED BY <1>4, <1>5, <1>6 DEF ClientInv

\* The second is over, and the connection is tried.
LEMMA ConnectKeeps == ASSUME ClientInv, Cl!Connect PROVE ClientInv'
<1>1. m.link = "wait" /\ m' = [m EXCEPT !.link = "trying"] /\ UNCHANGED <<s, q, out, trig, rows, steps>>
  BY DEF Cl!Connect
<1>2. m \in ClientStates
  BY DEF ClientInv, Stands, Cl!TypeOK, ClientStates
<1>3. /\ m' \in ClientStates /\ m'.link = "trying" /\ m'.kind = m.kind /\ m'.val = m.val /\ m'.idle = m.idle
      /\ m'.commands = m.commands /\ m'.n = m.n /\ m'.cut = m.cut /\ m'.lost = m.lost
  BY <1>1, <1>2 DEF ClientStates, Cl!Links
<1>4. Stands'
  BY <1>1, <1>3 DEF ClientInv, Stands, Cl!TypeOK, Away, Cl!IsMpd, ClientStates
<1>5. Listens' /\ Follows'
  BY <1>3 DEF Listens, Follows
<1>6. InTurn' /\ Shown'
  BY <1>1, <1>3 DEF ClientInv, InTurn, Shown
<1> QED BY <1>4, <1>5, <1>6 DEF ClientInv

\* It is made, or not.
LEMMA AttemptKeeps == ASSUME ClientInv, NEW failed \in {"wait", "down"}, Cl!Attempt(failed) PROVE ClientInv'
<1>1. /\ m.link = "trying" /\ m' = [m EXCEPT !.link = IF s.up THEN "up" ELSE failed]
      /\ q' = IF ~s.up THEN <<>> ELSE IF Cl!IsMpd THEN <<Cl!Line("greeting")>> ELSE <<Cl!Song(s.val)>>
      /\ UNCHANGED <<s, out, trig, rows, steps>>
  BY DEF Cl!Attempt
<1>2. m \in ClientStates /\ s.val \in Songs
  BY DEF ClientInv, Stands, Cl!TypeOK, ClientStates
<1>3. /\ m' \in ClientStates /\ m'.link = (IF s.up THEN "up" ELSE failed)
      /\ m'.kind = m.kind /\ m'.val = m.val /\ m'.idle = m.idle
      /\ m'.commands = m.commands /\ m'.n = m.n /\ m'.cut = m.cut /\ m'.lost = m.lost
  BY <1>1, <1>2 DEF ClientStates, Cl!Links
<1>4. q = <<>> /\ ~s.waits /\ (m.cut \/ ~m.idle) /\ out = <<>>
  BY <1>1 DEF ClientInv, Stands, Away
<1>5. Cl!Line("greeting") \in ClientLines /\ Cl!Song(s.val) \in ClientLines /\ Cl!Song(s.val).k = "song"
  BY <1>2, LinesAre
<1>6. q' \in Seq(ClientLines)
  BY <1>1, <1>5
<1>7. Stands'
  BY <1>1, <1>3, <1>4, <1>6 DEF ClientInv, Stands, Cl!TypeOK, Away, Cl!IsMpd, ClientStates, ClientLines
<1>8. Listens'
  BY <1>1, <1>3, <1>4 DEF Listens
<1>9. Follows'
  BY <1>1, <1>3, <1>4, <1>5 DEF Follows, Cl!IsMpd
<1>10. InTurn' /\ Shown'
  BY <1>1, <1>3 DEF ClientInv, InTurn, Shown
<1> QED BY <1>7, <1>8, <1>9, <1>10 DEF ClientInv

\* It is given up, with all that was on its way.
LEMMA ReconnectKeeps ==
  ASSUME ClientInv, m.link \in {"up", "closed"}, Cl!Reconnect, steps' \in 0..MaxCalls
  PROVE  ClientInv'
<1>1. /\ m' = Cl!Reconnected(m) /\ q' = <<>> /\ out' = <<>>
      /\ s' = [s EXCEPT !.waits = FALSE, !.pending = FALSE] /\ UNCHANGED <<trig, rows>>
  BY DEF Cl!Reconnect
<1>2. m \in ClientStates /\ s \in ServiceStates
  BY DEF ClientInv, Stands, Cl!TypeOK, ClientStates, ServiceStates
<1>3. /\ m' \in ClientStates /\ m'.link = "wait" /\ m'.kind = m.kind /\ m'.val = m.val /\ m'.idle = m.idle
      /\ m'.commands = m.commands /\ m'.n = m.n /\ m'.cut = (m.cut \/ (Cl!IsMpd /\ m.idle))
      /\ m'.lost = (m.lost \/ \E i \in DOMAIN out : out[i].k = "cmd")
  BY <1>1, <1>2 DEF Cl!Reconnected, Cl!Unread, ClientStates, Cl!Links
<1>4. s' \in ServiceStates /\ ~s'.waits /\ s'.ran = s.ran
  BY <1>1, <1>2 DEF ServiceStates
<1>5. Stands'
  BY <1>1, <1>3, <1>4 DEF ClientInv, Stands, Cl!TypeOK, Away, Cl!IsMpd, ClientStates, ServiceStates
<1>6. Listens' /\ Follows'
  BY <1>3 DEF Listens, Follows
<1>7. InTurn'
  <2>1. InOrder(s.ran, out, m.commands, m.n) /\ (~m.lost => AllThere(s.ran, out, m.commands, m.n))
    BY DEF ClientInv, InTurn
  <2>2. InOrder(s.ran, <<>>, m.commands, m.n) /\ (~m'.lost => AllThere(s.ran, <<>>, m.commands, m.n))
    BY <1>3, <2>1, DropsInTurn
  <2> QED BY <1>1, <1>3, <1>4, <2>2 DEF InTurn
<1>8. Shown'
  BY <1>1, <1>3 DEF ClientInv, Shown
<1> QED BY <1>5, <1>6, <1>7, <1>8 DEF ClientInv

\* The value changes.
LEMMA ServiceChangesKeeps == ASSUME ClientsAllowed, ClientInv, Cl!ServiceChanges PROVE ClientInv'
<1>1. steps' = steps + 1 /\ steps < MaxCalls /\ UNCHANGED <<m, out, trig, rows>>
  BY DEF Cl!ServiceChanges
<1>2. PICK v \in Songs : s' = Cl!Changed(s, v) /\ q' = q \o Cl!Told(s, v)
  BY DEF Cl!ServiceChanges
<1>3. /\ s \in ServiceStates /\ q \in Seq(ClientLines) /\ s.waits \in BOOLEAN /\ steps \in 0..MaxCalls
      /\ out \in Seq(ClientRequests)
  BY DEF ClientInv, Stands, Cl!TypeOK, ServiceStates, ClientLines, ClientRequests
<1>4. /\ s' \in ServiceStates /\ s'.val = v /\ s'.ran = s.ran
      /\ s'.waits = (s.waits /\ ~Cl!IsMpd)
      /\ Cl!IsMpd => s'.pending = (m.link = "up" /\ ~s.waits)
  BY <1>2, <1>3 DEF Cl!Changed, ServiceStates
<1>5. q' = IF m.link # "up" \/ (Cl!IsMpd /\ ~s.waits) THEN q
           ELSE IF Cl!IsMpd THEN Append(q, Cl!Line("changed")) ELSE Append(q, Cl!Song(v))
  BY <1>2, <1>3 DEF Cl!Told
<1>6. Cl!Line("changed") \in ClientLines /\ Cl!Song(v) \in ClientLines /\ Cl!Song(v).k = "song"
  BY LinesAre
<1>7. q' \in Seq(ClientLines)
  BY <1>3, <1>5, <1>6
<1>8. Stands'
  <2>1. steps' \in 0..MaxCalls
    BY <1>1, <1>3 DEF ClientsAllowed
  <2>2. Cl!TypeOK'
    BY <1>1, <1>4, <1>7, <2>1 DEF ClientInv, Stands, Cl!TypeOK, ServiceStates, ClientLines
  <2> QED BY <1>1, <1>4, <1>5, <2>2 DEF ClientInv, Stands, Away, Cl!IsMpd
<1>9. Listens'
  <2> SUFFICES ASSUME Cl!IsMpd, m.link = "up" PROVE Listens'
    BY <1>1 DEF Listens, Cl!IsMpd
  <2>1. ~s'.waits
    BY <1>4
  <2>2. s.waits => q' # <<>>
    BY <1>3, <1>5
  <2>3. ~s.waits => q' = q
    BY <1>5
  <2> QED BY <1>1, <2>1, <2>2, <2>3 DEF ClientInv, Listens
<1>10. Follows'
  <2> SUFFICES ASSUME m.link = "up", ~m.cut PROVE Follows'
    BY <1>1 DEF Follows
  <2>1. CASE ~Cl!IsMpd
    <3>1. q' = Append(q, Cl!Song(v)) /\ s'.val = v
      BY <1>4, <1>5, <2>1
    <3>2. \A i \in DOMAIN q : q[i].k = "song"
      BY <2>1 DEF ClientInv, Follows
    <3>3. /\ \A i \in DOMAIN q' : q'[i].k = "song"
          /\ q' # <<>> /\ q'[Len(q')] = Cl!Song(s'.val)
      BY <1>3, <1>6, <3>1, <3>2, LineAdded
    <3> QED BY <1>1, <2>1, <3>3 DEF Follows, Cl!IsMpd
  <2>2. CASE Cl!IsMpd /\ m.idle
    <3>1. AskedFor
      BY <2>2 DEF ClientInv, Follows
    <3>2. CASE \E i \in DOMAIN out : out[i].k = "currentsong" /\ \A j \in DOMAIN out : i < j => out[j].k # "idle"
      BY <1>1, <2>2, <3>2 DEF Follows, AskedFor, Cl!IsMpd
    <3>3. CASE ~HasKind(out, "idle") /\ ~s.waits /\ HasKind(q, "song")
      <4>1. ~s'.waits /\ s'.pending /\ q' = q
        BY <1>4, <1>5, <2>2, <3>3
      <4> QED BY <1>1, <2>2, <3>3, <4>1 DEF Follows, AskedFor, Cl!IsMpd, HasKind
    <3> QED BY <3>1, <3>2, <3>3 DEF AskedFor
  <2>3. CASE Cl!IsMpd /\ ~m.idle
    <3>1. q' # <<>> \/ s'.pending
      <4>1. CASE s.waits
        <5>1. q' = Append(q, Cl!Line("changed"))
          BY <1>5, <2>3, <4>1
        <5> QED BY <1>3, <1>6, <5>1, LineAdded
      <4>2. CASE ~s.waits
        BY <1>4, <2>3, <4>2
      <4> QED BY <4>1, <4>2
    <3> QED BY <1>1, <2>3, <3>1 DEF Follows, Cl!IsMpd
  <2> QED BY <2>1, <2>2, <2>3
<1>11. InTurn' /\ Shown'
  BY <1>1, <1>4 DEF ClientInv, InTurn, Shown
<1> QED BY <1>8, <1>9, <1>10, <1>11 DEF ClientInv

\* The service ends.
LEMMA ServiceStopsKeeps == ASSUME ClientsAllowed, ClientInv, Cl!ServiceStops PROVE ClientInv'
<1>1. /\ steps' = steps + 1 /\ steps < MaxCalls /\ UNCHANGED <<q, trig, rows>>
      /\ s' = [s EXCEPT !.up = FALSE, !.waits = FALSE, !.pending = FALSE]
      /\ IF m.link = "up" THEN m' = [Cl!Unread(m) EXCEPT !.link = "closed"] /\ out' = <<>>
         ELSE UNCHANGED <<m, out>>
  BY DEF Cl!ServiceStops
<1>2. m \in ClientStates /\ s \in ServiceStates /\ steps \in 0..MaxCalls /\ out \in Seq(ClientRequests)
  BY DEF ClientInv, Stands, Cl!TypeOK, ClientStates, ServiceStates, ClientRequests
<1>3. s' \in ServiceStates /\ ~s'.waits /\ s'.ran = s.ran
  BY <1>1, <1>2 DEF ServiceStates
<1>4. steps' \in 0..MaxCalls
  BY <1>1, <1>2 DEF ClientsAllowed
<1>5. CASE m.link = "up"
  <2>1. /\ m' \in ClientStates /\ m'.link = "closed" /\ m'.kind = m.kind /\ m'.val = m.val /\ m'.idle = m.idle
        /\ m'.commands = m.commands /\ m'.n = m.n /\ m'.cut = m.cut
        /\ m'.lost = (m.lost \/ \E i \in DOMAIN out : out[i].k = "cmd")
    <3>1. m' = [Cl!Unread(m) EXCEPT !.link = "closed"]
      BY <1>1, <1>5
    <3> QED BY <1>2, <3>1 DEF Cl!Unread, ClientStates, Cl!Links
  <2>2. out' = <<>>
    BY <1>1, <1>5
  <2>3. Stands'
    <3>1. Cl!TypeOK'
      BY <1>1, <1>3, <1>4, <2>1, <2>2 DEF ClientInv, Stands, Cl!TypeOK, ClientStates, ServiceStates
    <3> QED BY <2>1, <2>2, <3>1 DEF ClientInv, Stands, Away, Cl!IsMpd
  <2>4. Listens' /\ Follows'
    BY <2>1 DEF Listens, Follows
  <2>5. InTurn'
    <3>1. InOrder(s.ran, out, m.commands, m.n) /\ (~m.lost => AllThere(s.ran, out, m.commands, m.n))
      BY DEF ClientInv, InTurn
    <3>2. InOrder(s.ran, <<>>, m.commands, m.n) /\ (~m'.lost => AllThere(s.ran, <<>>, m.commands, m.n))
      BY <2>1, <3>1, DropsInTurn
    <3> QED BY <1>3, <2>1, <2>2, <3>2 DEF InTurn
  <2>6. Shown'
    BY <1>1, <2>1 DEF ClientInv, Shown
  <2> QED BY <2>3, <2>4, <2>5, <2>6 DEF ClientInv
<1>6. CASE m.link # "up"
  <2>1. UNCHANGED <<m, out>>
    BY <1>1, <1>6
  <2>2. Stands'
    BY <1>1, <1>3, <1>4, <2>1 DEF ClientInv, Stands, Cl!TypeOK, ServiceStates, Away, Cl!IsMpd
  <2>3. Listens' /\ Follows'
    BY <1>6, <2>1 DEF Listens, Follows
  <2>4. InTurn' /\ Shown'
    BY <1>1, <1>3, <2>1 DEF ClientInv, InTurn, Shown
  <2> QED BY <2>2, <2>3, <2>4 DEF ClientInv
<1> QED BY <1>5, <1>6

\* The service is started.
LEMMA ServiceStartsKeeps == ASSUME ClientInv, Cl!ServiceStarts PROVE ClientInv'
<1>1. s' = [s EXCEPT !.up = TRUE] /\ UNCHANGED <<m, q, out, trig, rows, steps>>
  BY DEF Cl!ServiceStarts
<1>2. s \in ServiceStates
  BY DEF ClientInv, Stands, Cl!TypeOK, ServiceStates
<1>3. s' \in ServiceStates /\ s'.val = s.val /\ s'.waits = s.waits /\ s'.pending = s.pending /\ s'.ran = s.ran
  BY <1>1, <1>2 DEF ServiceStates
<1>4. Stands'
  BY <1>1, <1>3 DEF ClientInv, Stands, Cl!TypeOK, ServiceStates, Away, Cl!IsMpd
<1>5. Listens' /\ InTurn' /\ Shown'
  BY <1>1, <1>3 DEF ClientInv, Listens, InTurn, NoIdleIn, Cl!IsMpd, Shown
<1>6. Follows'
  BY <1>1, <1>3 DEF ClientInv, Follows, AskedFor, HasKind, LastIs, Cl!IsMpd
<1> QED BY <1>4, <1>5, <1>6 DEF ClientInv

\* The user gives the daemon a command, which stops its waiting.
LEMMA CommandKeeps == ASSUME ClientsAllowed, ClientInv, Cl!Command PROVE ClientInv'
<1>1. /\ Cl!IsMpd /\ m.link \in {"up", "closed"} /\ steps < MaxCalls /\ steps' = steps + 1
      /\ m' = [[m EXCEPT !.commands = Append(@, m.n + 1), !.idle = FALSE] EXCEPT !.n = @ + 1]
      /\ out' = (IF m.link = "up" THEN Append(out, Cl!Line("noidle")) ELSE out)
      /\ UNCHANGED <<s, q, trig, rows>>
  BY DEF Cl!Command, Cl!Asked
<1>2. /\ m \in ClientStates /\ s \in ServiceStates /\ steps \in 0..MaxCalls /\ out \in Seq(ClientRequests)
      /\ m.commands \in Seq(Nat) /\ m.n \in Nat /\ s.ran \in Seq(Nat)
  BY DEF ClientInv, Stands, Cl!TypeOK, ClientStates, ServiceStates, ClientRequests
<1>3. m.n + 1 \in Nat /\ Append(m.commands, m.n + 1) \in Seq(Nat)
  BY <1>2
<1>4. /\ m' \in ClientStates /\ m'.link = m.link /\ m'.kind = m.kind /\ m'.val = m.val /\ m'.idle = FALSE
      /\ m'.commands = Append(m.commands, m.n + 1) /\ m'.n = m.n + 1 /\ m'.cut = m.cut
      /\ m'.lost = m.lost
  BY <1>1, <1>2, <1>3 DEF ClientStates
<1> DEFINE x == Cl!Line("noidle")
<1>5. x \in ClientRequests /\ x.k = "noidle"
  BY LinesAre
<1> HIDE DEF x
<1>6. /\ Len(out) \in Nat /\ Append(out, x)[Len(out) + 1] = x /\ Len(out) + 1 \in DOMAIN Append(out, x)
      /\ \A i \in DOMAIN out : i \in DOMAIN Append(out, x) /\ i < Len(out) + 1 /\ Append(out, x)[i] = out[i]
      /\ \A i \in DOMAIN Append(out, x) : i \in Nat /\ (i = Len(out) + 1 \/ i \in DOMAIN out)
      /\ Append(out, x) \in Seq(ClientRequests)
  BY <1>2, <1>5, LineAdded
<1>7. out' = IF m.link = "up" THEN Append(out, x) ELSE out
  BY <1>1 DEF x
<1>8. Stands'
  <2>1. out' \in Seq(ClientRequests)
    BY <1>2, <1>6, <1>7
  <2>3. steps' \in 0..MaxCalls
    BY <1>1, <1>2 DEF ClientsAllowed
  <2>2. Cl!TypeOK'
    BY <1>1, <1>4, <2>1, <2>3 DEF ClientInv, Stands, Cl!TypeOK, ClientStates, ClientRequests
  <2> QED BY <1>1, <1>4, <1>7, <2>2 DEF ClientInv, Stands, Away, Cl!IsMpd
<1>9. Listens'
  <2> SUFFICES ASSUME m.link = "up" PROVE Listens'
    BY <1>4 DEF Listens
  <2>1. out' = Append(out, x)
    BY <1>7
  <2>2. NoIdleIn(out')
    BY <1>5, <1>6, <2>1 DEF NoIdleIn
  <2>3. \A i \in DOMAIN out' : out'[i].k = "idle" => \E j \in DOMAIN out' : i < j /\ out'[j].k = "noidle"
    BY <1>5, <1>6, <2>1
  <2>4. IF s.waits THEN ~s.pending ELSE q # <<>> \/ \E i \in DOMAIN out : out[i].k # "noidle"
    BY <1>1 DEF ClientInv, Listens
  <2>5. (\E i \in DOMAIN out : out[i].k # "noidle") => \E i \in DOMAIN out' : out'[i].k # "noidle"
    BY <1>6, <2>1
  <2>6. s' = s /\ q' = q
    BY <1>1
  <2> HIDE DEF NoIdleIn
  <2> QED BY <2>2, <2>3, <2>4, <2>5, <2>6 DEF Listens
<1>10. InTurn'
  <2> DEFINE d == s.ran
             c == m.commands
             n == m.n
  <2>1. InOrder(d, out, c, n) /\ (~m.lost => AllThere(d, out, c, n))
    BY DEF ClientInv, InTurn
  <2>2. InOrder(d, out', c, n) /\ (~m.lost => AllThere(d, out', c, n)) /\ out' \in Seq(ClientRequests)
    <3> HIDE DEF d, c, n
    <3>1. d \in Seq(Nat) /\ c \in Seq(Nat) /\ n \in Nat
      BY <1>2 DEF d, c, n
    <3> QED BY <1>2, <1>5, <1>6, <1>7, <2>1, <3>1, OtherInTurn
  <2>3. InOrder(d, out', Append(c, n + 1), n + 1) /\ (~m.lost => AllThere(d, out', Append(c, n + 1), n + 1))
    <3> HIDE DEF d, c, n
    <3>1. d \in Seq(Nat) /\ c \in Seq(Nat) /\ n \in Nat
      BY <1>2 DEF d, c, n
    <3> QED BY <2>2, <3>1, NewInTurn
  <2>4. m'.commands = Append(c, n + 1) /\ m'.n = n + 1 /\ m'.lost = m.lost /\ s'.ran = d
    BY <1>1, <1>4
  <2> HIDE DEF d, c, n
  <2> QED BY <2>3, <2>4 DEF InTurn
<1>11. Follows'
  <2> SUFFICES ASSUME m.link = "up", ~m.cut
               PROVE  m.val = s.val \/ s.pending \/ q # <<>>
                        \/ HasKind(out', "currentsong") \/ HasKind(out', "cmd")
    BY <1>1, <1>4 DEF Follows, Cl!IsMpd, HasKind
  <2>1. \A k : HasKind(out, k) => HasKind(out', k)
    BY <1>6, <1>7 DEF HasKind
  <2>2. CASE m.idle
    <3>1. AskedFor
      BY <1>1, <2>2 DEF ClientInv, Follows
    <3>2. HasKind(out, "currentsong") \/ s.pending \/ LastIs(q, s.val)
      BY <3>1 DEF AskedFor, HasKind
    <3>3. LastIs(q, s.val) => q # <<>>
      BY DEF LastIs
    <3> QED BY <2>1, <3>2, <3>3
  <2>3. CASE ~m.idle
    <3>1. m.val = s.val \/ s.pending \/ q # <<>> \/ HasKind(out, "currentsong") \/ HasKind(out, "cmd")
      BY <1>1, <2>3 DEF ClientInv, Follows
    <3> QED BY <2>1, <3>1
  <2> QED BY <2>2, <2>3
<1>12. Shown'
  BY <1>1, <1>4 DEF ClientInv, Shown
<1> QED BY <1>8, <1>9, <1>10, <1>11, <1>12 DEF ClientInv

\* The user sends a line to a service that is no daemon.
LEMMA ClientSendKeeps == ASSUME ClientsAllowed, ClientInv, Cl!ClientSend PROVE ClientInv'
<1> DEFINE x == Cl!Cmd(m.n + 1)
<1>1. /\ ~Cl!IsMpd /\ m.link \in {"up", "closed"} /\ steps < MaxCalls /\ steps' = steps + 1
      /\ m' = [[m EXCEPT !.lost = @ \/ m.link = "closed"] EXCEPT !.n = @ + 1]
      /\ out' = (IF m.link = "up" THEN Append(out, x) ELSE out)
      /\ UNCHANGED <<s, q, trig, rows>>
  BY DEF Cl!ClientSend, Cl!Asked
<1>2. /\ m \in ClientStates /\ steps \in 0..MaxCalls /\ out \in Seq(ClientRequests)
      /\ m.n \in Nat /\ m.n + 1 \in Nat /\ s.ran \in Seq(Nat)
  BY DEF ClientInv, Stands, Cl!TypeOK, ClientStates, ServiceStates, ClientRequests
<1>3. /\ m' \in ClientStates /\ m'.link = m.link /\ m'.kind = m.kind /\ m'.val = m.val /\ m'.idle = m.idle
      /\ m'.commands = m.commands /\ m'.n = m.n + 1 /\ m'.cut = m.cut
      /\ m'.lost = (m.lost \/ m.link = "closed")
  BY <1>1, <1>2 DEF ClientStates
<1>4. m.commands = <<>> /\ ~m.idle /\ \A i \in DOMAIN out : out[i].k = "cmd"
  BY <1>1 DEF ClientInv, Stands
<1>5. x \in ClientRequests /\ x.k = "cmd"
  BY <1>2, LinesAre
<1>6. /\ Append(out, x)[Len(out) + 1] = x
      /\ \A i \in DOMAIN out : Append(out, x)[i] = out[i]
      /\ \A i \in DOMAIN Append(out, x) : i = Len(out) + 1 \/ i \in DOMAIN out
      /\ Append(out, x) \in Seq(ClientRequests)
  <2> HIDE DEF x
  <2> QED BY <1>2, <1>5, LineAdded
<1>7. Stands'
  <2>1. out' \in Seq(ClientRequests)
    BY <1>1, <1>2, <1>6
  <2>2. steps' \in 0..MaxCalls
    BY <1>1, <1>2 DEF ClientsAllowed
  <2>3. Cl!TypeOK'
    BY <1>1, <1>3, <2>1, <2>2 DEF ClientInv, Stands, Cl!TypeOK, ClientStates, ClientRequests
  <2>4. \A i \in DOMAIN out' : out'[i].k = "cmd"
    <3> HIDE DEF x
    <3> QED BY <1>1, <1>4, <1>5, <1>6
  <2>5. ~Away' /\ m'.commands = <<>> /\ ~m'.idle /\ Cl!IsMpd' = Cl!IsMpd /\ (m'.link # "up" => out' = <<>>)
    BY <1>1, <1>3, <1>4 DEF ClientInv, Stands, Away, Cl!IsMpd
  <2> QED BY <2>3, <2>4, <2>5 DEF Stands
<1>8. Listens' /\ Follows'
  BY <1>1, <1>3 DEF ClientInv, Listens, Follows, Cl!IsMpd
<1>9. InTurn'
  <2> DEFINE d == s.ran
             c == m.commands
             n == m.n
  <2>1. InOrder(d, out, c, n) /\ (~m.lost => AllThere(d, out, c, n))
    BY DEF ClientInv, InTurn
  <2>2. d \in Seq(Nat) /\ c \in Seq(Nat) /\ n \in Nat /\ c = <<>> /\ x = Cl!Cmd(n + 1)
    BY <1>2, <1>4 DEF ClientStates
  <2>3. s'.ran = d /\ m'.commands = c /\ m'.n = n + 1 /\ m'.lost = (m.lost \/ m.link = "closed")
        /\ m.link \in {"up", "closed"} /\ out' = (IF m.link = "up" THEN Append(out, x) ELSE out)
    BY <1>1, <1>3
  <2> HIDE DEF d, c, n, x
  <2>4. /\ InOrder(d, out, c, n + 1)
        /\ c = <<>> => InOrder(d, Append(out, Cl!Cmd(n + 1)), c, n + 1)
        /\ c = <<>> /\ AllThere(d, out, c, n) => AllThere(d, Append(out, Cl!Cmd(n + 1)), c, n + 1)
    BY <1>2, <2>1, <2>2, NewInTurn
  <2> QED BY <2>1, <2>2, <2>3, <2>4 DEF InTurn
<1>10. Shown'
  BY <1>1, <1>3 DEF ClientInv, Shown
<1> QED BY <1>7, <1>8, <1>9, <1>10 DEF ClientInv

----------------------------------------------------------------------------
(* The theorems *)

\* The inductive invariant holds at first.
LEMMA InitClient == ASSUME ClientsAllowed, Cl!Init PROVE ClientInv
<1>1. Stands
  BY InitStands
<1>2. Listens /\ Follows
  BY DEF Cl!Init, Listens, Follows
<1>3. InTurn
  BY DEF Cl!Init, InTurn, InOrder, AllThere
<1>4. Shown
  BY DEF Cl!Init, Shown
<1> QED BY <1>1, <1>2, <1>3, <1>4 DEF ClientInv

\* Every step keeps it.
LEMMA NextClient ==
  ASSUME ClientsAllowed, ClientInv, [Cl!Turns \/ Cl!Works \/ Cl!Acts]_(Cl!vars)
  PROVE  ClientInv'
<1>1. CASE Cl!Receives
  BY <1>1, ReceivesStands, ReceivesListens, ReceivesInTurn, ReceivesFollows, ReceivesShown DEF ClientInv
<1>2. CASE Cl!Show
  BY <1>2, ShowKeeps
<1>3. CASE Cl!Serves
  BY <1>3, ServesStands, ServesListens, ServesInTurn, ServesFollows, ServesShown DEF ClientInv
<1>4. CASE Cl!Connect
  BY <1>4, ConnectKeeps
<1>5. CASE Cl!Connected
  BY <1>5, AttemptKeeps DEF Cl!Connected
<1>6. CASE Cl!Started
  BY <1>6, AttemptKeeps DEF Cl!Started
<1>7. CASE Cl!HangUp
  <2>1. m.link \in {"up", "closed"} /\ Cl!Reconnect /\ steps' = steps
    BY <1>7 DEF Cl!HangUp
  <2>2. steps' \in 0..MaxCalls
    BY <2>1 DEF ClientInv, Stands, Cl!TypeOK
  <2> QED BY <2>1, <2>2, ReconnectKeeps
<1>8. CASE Cl!HalfRead
  <2>1. m.link \in {"up", "closed"} /\ Cl!Reconnect /\ steps' = steps + 1 /\ steps < MaxCalls
    BY <1>8 DEF Cl!HalfRead
  <2>2. steps' \in 0..MaxCalls
    BY <2>1 DEF ClientInv, Stands, Cl!TypeOK, ClientsAllowed
  <2> QED BY <2>1, <2>2, ReconnectKeeps
<1>9. CASE Cl!ServiceChanges
  BY <1>9, ServiceChangesKeeps
<1>10. CASE Cl!ServiceStops
  BY <1>10, ServiceStopsKeeps
<1>11. CASE Cl!ServiceStarts
  BY <1>11, ServiceStartsKeeps
<1>12. CASE Cl!Command
  BY <1>12, CommandKeeps
<1>13. CASE Cl!ClientSend
  BY <1>13, ClientSendKeeps
<1>14. CASE UNCHANGED Cl!vars
  <2>1. s' = s /\ m' = m /\ q' = q /\ out' = out /\ trig' = trig /\ rows' = rows /\ steps' = steps
    BY <1>14 DEF Cl!vars
  <2>2. Stands'
    BY <2>1 DEF ClientInv, Stands, Cl!TypeOK, Away, Cl!IsMpd
  <2>3. Listens' /\ InTurn' /\ Shown'
    BY <2>1 DEF ClientInv, Listens, NoIdleIn, InTurn, Shown, Cl!IsMpd
  <2>4. Follows'
    BY <2>1 DEF ClientInv, Follows, AskedFor, HasKind, LastIs, Cl!IsMpd
  <2> QED BY <2>2, <2>3, <2>4 DEF ClientInv
<1> QED BY <1>1, <1>2, <1>3, <1>4, <1>5, <1>6, <1>7, <1>8, <1>9, <1>10, <1>11, <1>12, <1>13, <1>14
        DEF Cl!Turns, Cl!Works, Cl!Acts

\* At rest with a connection the daemon waits, for nothing
LEMMA ClientAtRest ==
  ASSUME ClientInv, Cl!Quiet, m.link = "up"
  PROVE  /\ q = <<>> /\ out = <<>> /\ trig = <<>> /\ m.commands = <<>>
         /\ Cl!IsMpd => s.waits /\ ~s.pending
<1>1. q = <<>> /\ out = <<>> /\ trig = <<>>
  BY DEF Cl!Quiet, Cl!Idle
<1>2. CASE Cl!IsMpd
  BY <1>1, <1>2 DEF ClientInv, Listens, NoIdleIn
<1>3. CASE ~Cl!IsMpd
  BY <1>1, <1>3 DEF ClientInv, Stands
<1> QED BY <1>1, <1>2, <1>3

\* A variable that follows is right at rest.
LEMMA FollowsMeans == ClientInv => Cl!ShownAsIs
<1> SUFFICES ASSUME ClientInv, Cl!Quiet, ~m.cut, m.link = "up"
             PROVE  m.val = s.val /\ rows = s.val
  BY DEF Cl!ShownAsIs
<1>1. /\ q = <<>> /\ out = <<>> /\ trig = <<>>
      /\ Cl!IsMpd => s.waits /\ ~s.pending
  BY ClientAtRest
<1>2. ~Cl!IsMpd => m.val = s.val
  BY <1>1 DEF ClientInv, Follows
<1>3. Cl!IsMpd /\ m.idle => FALSE
  BY <1>1 DEF ClientInv, Follows, AskedFor
<1>4. Cl!IsMpd /\ ~m.idle => m.val = s.val
  BY <1>1 DEF ClientInv, Follows, HasKind
<1>5. rows = m.val
  BY <1>1 DEF ClientInv, Shown
<1> QED BY <1>2, <1>3, <1>4, <1>5

\* Commands in turn were all run, at rest.
LEMMA InTurnMeans == ClientInv => Cl!CommandsRun
<1> SUFFICES ASSUME ClientInv PROVE Cl!CommandsRun
  OBVIOUS
<1>1. \A i, j \in DOMAIN s.ran : i < j => s.ran[i] < s.ran[j]
  BY DEF ClientInv, InTurn, InOrder
<1>2. ASSUME Cl!Quiet, ~m.lost, m.link = "up"
      PROVE  m.commands = <<>> /\ Len(s.ran) = m.n
  <2> DEFINE d == s.ran
             n == m.n
  <2>1. out = <<>> /\ m.commands = <<>>
    BY <1>2, ClientAtRest
  <2>2. InOrder(d, <<>>, <<>>, n) /\ AllThere(d, <<>>, <<>>, n)
    BY <1>2, <2>1 DEF ClientInv, InTurn
  <2>3. d \in Seq(Nat) /\ n \in Nat
    BY DEF ClientInv, Stands, Cl!TypeOK
  <2> HIDE DEF d, n
  <2>4. Len(d) \in Nat /\ DOMAIN d = 1..Len(d)
    BY <2>3
  <2>5. ~(n < Len(d))
    <3> SUFFICES ASSUME n < Len(d) PROVE FALSE
      OBVIOUS
    <3>1. Len(d) \in DOMAIN d
      BY <2>3, <2>4
    <3>2. d[Len(d)] = Len(d) /\ d[Len(d)] \in 1..n
      BY <2>2, <3>1 DEF InOrder, AllThere
    <3> QED BY <2>3, <2>4, <3>2
  <2>6. ~(Len(d) < n)
    <3> SUFFICES ASSUME Len(d) < n PROVE FALSE
      OBVIOUS
    <3>1. n \in Len(d) + 1 .. n
      BY <2>3, <2>4
    <3> QED BY <2>2, <3>1 DEF AllThere
  <2>7. Len(d) = n
    <3>1. \A a, b \in Nat : ~(a < b) /\ ~(b < a) => a = b
      OBVIOUS
    <3> QED BY <2>3, <2>4, <2>5, <2>6, <3>1, Zenon
  <2> QED BY <2>1, <2>7 DEF d, n
<1> QED BY <1>1, <1>2 DEF Cl!CommandsRun

\* The inductive invariant holds in every state.
LEMMA ClientInvariant == ASSUME ClientsAllowed PROVE ClientSpec => []ClientInv
<1>1. Cl!Init => ClientInv
  BY InitClient
<1>2. ClientInv /\ [Cl!Turns \/ Cl!Works \/ Cl!Acts]_(Cl!vars) => ClientInv'
  BY NextClient
<1> QED BY <1>1, <1>2, PTL DEF ClientSpec

\* The types of all variables are kept, of any kind of client.
THEOREM ClientTyped == ASSUME ClientsAllowed PROVE ClientSpec => []Cl!TypeOK
<1>1. ClientInv => Cl!TypeOK
  BY DEF ClientInv, Stands
<1> QED BY <1>1, ClientInvariant, PTL

\* Whatever the order of changes, ends of the service, half-read lines, clicks and
\* timers: at rest with a connection the bar shows the service's value, if no
\* connection was lost between the daemon's question and its answer.
THEOREM ValueIsShown == ASSUME ClientsAllowed PROVE ClientSpec => []Cl!ShownAsIs
<1>1. ClientInv => Cl!ShownAsIs
  BY FollowsMeans
<1> QED BY <1>1, ClientInvariant, PTL

\* The user's commands are run in the order in which they were given, each at most
\* once, and at rest all of them were if none was lost with a connection, or written to
\* one that the service had closed.
THEOREM RunInOrder == ASSUME ClientsAllowed PROVE ClientSpec => []Cl!CommandsRun
<1>1. ClientInv => Cl!CommandsRun
  BY InTurnMeans
<1> QED BY <1>1, ClientInvariant, PTL

----------------------------------------------------------------------------
(* The notification centre (Ncenter), for any applications and any number of *)
(* acts: at rest the rows, their groups and the clients agree with the list  *)
(* of notifications, unless an id was given out twice.                       *)

CONSTANTS Apps, Timing, MaxNotes

Nt == INSTANCE Ncenter WITH MaxSteps <- MaxNotes

NotesSpec == Nt!Init /\ [][Nt!Turns \/ Nt!Works \/ Nt!Acts]_(Nt!vars)

\* There is an application, and none has the name that stands for no group.
NotesAllowed == Apps # {} /\ "none" \notin Apps /\ MaxNotes \in Nat

----------------------------------------------------------------------------
(* The triggers of a handler: two at most, taken one after another *)

LEMMA MaxOne == ASSUME NEW a \in Int PROVE Nt!Max({a}) = a
BY DEF Nt!Max
LEMMA MaxTwo == Nt!Max({1, 2}) = 2
<1>1. 2 \in {1, 2} /\ \A y \in {1, 2} : 2 >= y
  OBVIOUS
<1>2. \A x \in {1, 2} : (\A y \in {1, 2} : x >= y) => x = 2
  OBVIOUS
<1> QED BY <1>1, <1>2 DEF Nt!Max

\* The fold of QueueInTurn over the triggers of a handler, step by step
NotesFoldOf(ts, e, f) ==
  f = [x \in SUBSET DOMAIN e |-> IF x = {} THEN ts ELSE Nt!QueueInTurn(f[x \ {Nt!Max(x)}], e[Nt!Max(x)])]

NotesRung(ts, e) == Nt!FoldLeft(Nt!QueueInTurn, ts, e)

LEMMA FoldIs ==
  ASSUME NEW ts, NEW e, NEW g, NotesFoldOf(ts, e, g)
  PROVE  \E h : NotesFoldOf(ts, e, h) /\ NotesRung(ts, e) = h[DOMAIN e]
<1> DEFINE h == CHOOSE f : NotesFoldOf(ts, e, f)
<1>1. NotesFoldOf(ts, e, h)
  BY Zenon
<1>2. NotesRung(ts, e) = h[DOMAIN e]
  BY Zenon DEF NotesRung, Nt!FoldLeft, Nt!MapThenFoldSet, NotesFoldOf
<1> QED BY <1>1, <1>2, Zenon

LEMMA FoldNone == ASSUME NEW ts PROVE NotesRung(ts, <<>>) = ts
<1> DEFINE g == [x \in {{}} |-> ts]
<1>0. SUBSET DOMAIN <<>> = {{}}
  OBVIOUS
<1>1. NotesFoldOf(ts, <<>>, g)
  BY <1>0 DEF NotesFoldOf
<1>2. PICK h : NotesFoldOf(ts, <<>>, h) /\ NotesRung(ts, <<>>) = h[DOMAIN <<>>]
  BY <1>1, FoldIs, Zenon
<1>3. h[{}] = ts
  BY <1>0, <1>2 DEF NotesFoldOf
<1> QED BY <1>0, <1>2, <1>3

LEMMA FoldOne == ASSUME NEW ts, NEW a PROVE NotesRung(ts, <<a>>) = Nt!QueueInTurn(ts, a)
<1> DEFINE g == [x \in {{}, {1}} |-> IF x = {} THEN ts ELSE Nt!QueueInTurn(ts, a)]
<1>0. SUBSET DOMAIN <<a>> = {{}, {1}} /\ <<a>>[1] = a /\ {1} # {} /\ DOMAIN <<a>> = {1}
  OBVIOUS
<1>m. {1} \ {Nt!Max({1})} = {} /\ Nt!Max({1}) = 1
  BY MaxOne
<1>1. NotesFoldOf(ts, <<a>>, g)
  <2>1. g[{}] = ts /\ g[{1}] = Nt!QueueInTurn(ts, a)
    BY <1>0, Zenon
  <2>2. \A x \in {{}, {1}} : g[x] = IF x = {} THEN ts ELSE Nt!QueueInTurn(g[x \ {Nt!Max(x)}], <<a>>[Nt!Max(x)])
    BY <1>0, <1>m, <2>1, Zenon
  <2>3. g = [x \in {{}, {1}} |-> IF x = {} THEN ts ELSE Nt!QueueInTurn(g[x \ {Nt!Max(x)}], <<a>>[Nt!Max(x)])]
    BY <2>2
  <2> QED BY <1>0, <2>3, Zenon DEF NotesFoldOf
<1>2. PICK h : NotesFoldOf(ts, <<a>>, h) /\ NotesRung(ts, <<a>>) = h[DOMAIN <<a>>]
  BY <1>1, FoldIs, Zenon
<1>3. \A x \in {{}, {1}} : h[x] = IF x = {} THEN ts ELSE Nt!QueueInTurn(h[x \ {Nt!Max(x)}], <<a>>[Nt!Max(x)])
  BY <1>0, <1>2, Zenon DEF NotesFoldOf
<1>4. h[{}] = ts
  BY <1>3, Zenon
<1>5. h[{1}] = Nt!QueueInTurn(h[{1} \ {Nt!Max({1})}], <<a>>[Nt!Max({1})])
  BY <1>0, <1>3, Zenon
<1>6. h[{1}] = Nt!QueueInTurn(ts, a)
  BY <1>0, <1>m, <1>4, <1>5, Zenon
<1> QED BY <1>0, <1>2, <1>6, Zenon

LEMMA FoldTwo ==
  ASSUME NEW ts, NEW a, NEW b, NEW e, e = <<a, b>>
  PROVE  NotesRung(ts, e) = Nt!QueueInTurn(Nt!QueueInTurn(ts, a), b)
<1> DEFINE one == Nt!QueueInTurn(ts, a)
           two == Nt!QueueInTurn(one, b)
           D == {{}, {1}, {2}, {1, 2}}
           g == [x \in D |-> IF x = {} THEN ts ELSE IF x = {1} THEN one
                             ELSE IF x = {2} THEN Nt!QueueInTurn(ts, b) ELSE two]
<1>0. /\ SUBSET {1, 2} = D /\ DOMAIN e = {1, 2} /\ e[1] = a /\ e[2] = b
      /\ {1} # {} /\ {2} # {} /\ {1, 2} # {} /\ {1} # {2} /\ {1, 2} # {1} /\ {1, 2} # {2}
  OBVIOUS
<1>m. /\ Nt!Max({1}) = 1 /\ {1} \ {1} = {} /\ Nt!Max({2}) = 2 /\ {2} \ {2} = {}
      /\ Nt!Max({1, 2}) = 2 /\ {1, 2} \ {2} = {1}
  BY MaxOne, MaxTwo
<1>1. NotesFoldOf(ts, e, g)
  <2>1. g[{}] = ts /\ g[{1}] = one /\ g[{2}] = Nt!QueueInTurn(ts, b) /\ g[{1, 2}] = two
    BY <1>0, Zenon
  <2> HIDE DEF g
  <2>2. \A x \in D : g[x] = IF x = {} THEN ts ELSE Nt!QueueInTurn(g[x \ {Nt!Max(x)}], e[Nt!Max(x)])
    BY <1>0, <1>m, <2>1, Zenon
  <2>3. g = [x \in D |-> IF x = {} THEN ts ELSE Nt!QueueInTurn(g[x \ {Nt!Max(x)}], e[Nt!Max(x)])]
    BY <2>2 DEF g
  <2> QED BY <1>0, <2>3, Zenon DEF NotesFoldOf
<1>2. PICK h : NotesFoldOf(ts, e, h) /\ NotesRung(ts, e) = h[DOMAIN e]
  BY <1>1, FoldIs, Zenon
<1>3. \A x \in D : h[x] = IF x = {} THEN ts ELSE Nt!QueueInTurn(h[x \ {Nt!Max(x)}], e[Nt!Max(x)])
  BY <1>0, <1>2, Zenon DEF NotesFoldOf
<1>4. h[{}] = ts
  BY <1>3, Zenon
<1>5. h[{1}] = one
  BY <1>0, <1>m, <1>3, <1>4, Zenon
<1>6. h[{1, 2}] = two
  BY <1>0, <1>m, <1>3, <1>5, Zenon
<1> QED BY <1>0, <1>2, <1>6, Zenon
----------------------------------------------------------------------------
(* The invariant *)

Ids_ == Nat \ {0}
Notes == [app : Apps, text : Nat]
Items == [id : Ids_, app : Apps, text : Nat, alloc : Nat, timeout_handle : Nat]
Timers == UNION {[h -> Nat] : h \in SUBSET Nat}
Variables ==
  [list : Seq(Items), expanded_group : Apps \cup {"none"}, dn_id_counter : Ids_, timers : Timers,
   collided : BOOLEAN, stray : BOOLEAN, emit : {<<>>}, out : {<<>>}]
Calls == [k : {"notify"}, id : Nat, app : Apps, text : Nat, timed : BOOLEAN] \cup [k : {"close"}, id : Ids_]
Messages ==
  [k : {"id"}, id : Ids_, app : Apps, text : Nat] \cup [k : {"closed", "action"}, id : Ids_]
Regrouped == Nt!Trigger("notification-group", 0)
NotesTriggers ==
  [t : {"notification-updated"}, of : Ids_, v : Notes] \cup [t : {"notification-removed"}, of : Ids_]
    \cup {Regrouped}

IsTable(f) == f = [x \in DOMAIN f |-> f[x]]

Types ==
  /\ s = [open |-> s.open, given |-> s.given] /\ IsTable(s.open) /\ IsTable(s.given)
  /\ DOMAIN s.open \subseteq DOMAIN s.given /\ DOMAIN s.given \subseteq Ids_
  /\ \A id \in DOMAIN s.given : s.given[id] \in Apps
  /\ m \in Variables /\ q \in Seq(Calls) /\ out \in Seq(Messages) /\ trig \in Seq(NotesTriggers)
  /\ rows = [row |-> rows.row, active |-> rows.active, count |-> rows.count]
  /\ IsTable(rows.row) /\ DOMAIN rows.row \subseteq Ids_
  /\ \A id \in DOMAIN rows.row :
       rows.row[id] = [note |-> rows.row[id].note, group |-> rows.row[id].group, count |-> rows.row[id].count]
  /\ steps \in 0..MaxNotes

\* A notification's memory and its timers are named after calls that were made
Dated ==
  /\ \A i \in DOMAIN m.list : m.list[i].alloc \in 1..steps /\ m.list[i].timeout_handle \in 0..steps
  /\ \A i \in DOMAIN q : q[i].k = "notify" => q[i].text \in 1..steps

\* A client calls for ids that it was given, and for notifications of its own
Asked == \A i \in DOMAIN q : q[i].id # 0 => q[i].id \in DOMAIN s.given
OwnCalls == \A i \in DOMAIN q : q[i].k = "notify" /\ q[i].id # 0 => q[i].app = s.given[q[i].id]

\* No two notifications have the same id, and a new one would have another
Apart(l) == \A i, j \in DOMAIN l : l[i].id = l[j].id => i = j
Unused(x, c, id) == id < x.dn_id_counter \/ id \in DOMAIN c.given
Fresh(x, ms, c) ==
  /\ \A i \in DOMAIN x.list : Unused(x, c, x.list[i].id)
  /\ \A i \in DOMAIN ms : ms[i].k = "id" => Unused(x, c, ms[i].id)

\* An id belongs to one application, as far as the list, the clients and the replies
\* say
Owns(x, ms, c, app, id) ==
  \/ id \in DOMAIN c.given /\ c.given[id] = app
  \/ \E i \in DOMAIN x.list : x.list[i].id = id /\ x.list[i].app = app
  \/ \E i \in DOMAIN ms : ms[i].k = "id" /\ ms[i].id = id /\ ms[i].app = app
OneOwner(x, ms, c) == \A id \in Ids_, a, b \in Apps : Owns(x, ms, c, a, id) /\ Owns(x, ms, c, b, id) => a = b

\* What a trigger and a message say of which notification
Entry(id, on, note) == [id |-> id, on |-> on, note |-> note]
Blank == Entry(0, FALSE, "none")
OfTrigger(t) ==
  IF t.t = "notification-updated" THEN Entry(t.of, TRUE, t.v)
  ELSE IF t.t = "notification-removed" THEN Entry(t.of, FALSE, "none") ELSE Blank
OfMessage(x) ==
  IF x.k = "id" THEN Entry(x.id, TRUE, Nt!Note(x.app, x.text))
  ELSE IF x.k = "closed" THEN Entry(x.id, FALSE, "none") ELSE Blank
TriggerLog(ts) == [k \in DOMAIN ts |-> OfTrigger(ts[k])]
MessageLog(ms) == [k \in DOMAIN ms |-> OfMessage(ms[k])]

\* That is true of a list
IsSo(l, id, on, note) ==
  /\ on <=> \E i \in DOMAIN l : l[i].id = id
  /\ \A i \in DOMAIN l : l[i].id = id => note = Nt!Note(l[i].app, l[i].text)
\* The table t, once the entries of the log e have been read, is the list's
Tells(e, t, l) ==
  \A id \in Ids_ :
    \/ \E k \in DOMAIN e :
         /\ e[k].id = id /\ \A j \in DOMAIN e : k < j => e[j].id # id
         /\ IsSo(l, id, e[k].on, e[k].note)
    \/ (\A k \in DOMAIN e : e[k].id # id) /\ IsSo(l, id, id \in DOMAIN t, t[id])
RowTable == [id \in DOMAIN rows.row |-> rows.row[id].note]

\* Rows are drawn anew after all that changes a group
Drawn ==
  IF trig = <<>>
  THEN /\ rows.active = m.expanded_group /\ rows.count = Len(m.list)
       /\ \A id \in DOMAIN rows.row : rows.row[id] = Nt!Row(m, id, rows.row[id].note)
  ELSE Nt!Last(trig) = Regrouped

\* No group without members is expanded
Expanded(x) == x.expanded_group = "none" \/ \E i \in DOMAIN x.list : x.list[i].app = x.expanded_group

\* The plug-in as x, the triggers ts, the messages ms, the clients c and the rows t fit
Fit(x, ts, ms, c, t) ==
  /\ Apart(x.list) /\ Fresh(x, ms, c) /\ OneOwner(x, ms, c) /\ Expanded(x)
  /\ Tells(TriggerLog(ts), t, x.list)
  /\ Tells(MessageLog(ms), c.open, x.list)
Good == OwnCalls /\ Fit(m, trig, out, s, RowTable)

NotesInv == Types /\ Dated /\ Asked /\ Drawn /\ (~m.collided => Good)

----------------------------------------------------------------------------
(* The list *)

\* Some natural numbers have a least
LEMMA Least ==
  ASSUME NEW T, T \subseteq Nat, T # {}
  PROVE  Nt!Min(T) \in T /\ \A y \in T : Nt!Min(T) <= y
<1>1. PICK x \in T : \A w \in T : <<w, x>> \notin OpToRel(<, Nat)
  BY WFMin, NatLessThanWellFounded
<1>2. \A y \in T : x <= y
  <2>1. ASSUME NEW y \in T PROVE ~(y < x)
    <3>1. y \in Nat /\ x \in Nat /\ <<y, x>> \in Nat \X Nat /\ <<y, x>> \notin OpToRel(<, Nat)
      BY <1>1
    <3> QED BY <3>1 DEF OpToRel
  <2> QED BY <2>1
<1> QED BY <1>1, <1>2 DEF Nt!Min

\* dn_notification_lookup finds the first with the id
LEMMA Found ==
  ASSUME NEW x, x.list \in Seq(Items), NEW id
  PROVE  LET at == Nt!Lookup(x, id)
         IN  /\ at = 0 => \A i \in DOMAIN x.list : x.list[i].id # id
             /\ at # 0 => /\ at \in DOMAIN x.list /\ x.list[at].id = id
                          /\ \A i \in DOMAIN x.list : x.list[i].id = id => at <= i
<1> DEFINE I == {i \in 1..Len(x.list) : x.list[i].id = id}
<1>1. Nt!Lookup(x, id) = IF I # {} THEN Nt!Min(I) ELSE 0
  BY Zenon DEF Nt!Lookup, Nt!SelectInSeq
<1>2. DOMAIN x.list = 1..Len(x.list) /\ I \subseteq Nat /\ 0 \notin I
  OBVIOUS
<1>3. CASE I = {}
  BY <1>1, <1>2, <1>3
<1>4. CASE I # {}
  <2>1. Nt!Min(I) \in I /\ \A y \in I : Nt!Min(I) <= y
    <3> HIDE DEF I
    <3> QED BY <1>2, <1>4, Least
  <2>2. Nt!Lookup(x, id) = Nt!Min(I) /\ Nt!Lookup(x, id) # 0
    BY <1>1, <1>2, <1>4, <2>1
  <2> QED BY <1>2, <2>1, <2>2
<1> QED BY <1>3, <1>4

LEMMA Joined ==
  ASSUME NEW a \in Seq(Items), NEW b \in Seq(Items)
  PROVE  /\ a \o b \in Seq(Items) /\ Len(a \o b) = Len(a) + Len(b)
         /\ \A i \in 1..Len(a) + Len(b) : (a \o b)[i] = IF i <= Len(a) THEN a[i] ELSE b[i - Len(a)]
BY ConcatProperties

\* The list r is l without what is at one place
Without(l, r, at) ==
  /\ Len(r) = Len(l) - 1
  /\ \A i \in DOMAIN r : r[i] = IF i < at THEN l[i] ELSE l[i + 1]

LEMMA NotesRemoved ==
  ASSUME NEW l \in Seq(Items), NEW at \in DOMAIN l
  PROVE  Nt!RemoveAt(l, at) \in Seq(Items) /\ Without(l, Nt!RemoveAt(l, at), at)
<1>1. Len(l) \in Nat /\ at \in 1..Len(l)
  OBVIOUS
<1> DEFINE a == SubSeq(l, 1, at - 1)
           b == SubSeq(l, at + 1, Len(l))
<1>2. /\ a \in Seq(Items) /\ Len(a) = at - 1 /\ \A i \in 1..Len(a) : a[i] = l[i]
      /\ b \in Seq(Items) /\ Len(b) = Len(l) - at /\ \A i \in 1..Len(b) : b[i] = l[i + at]
  <2>1. a \in Seq(Items) /\ Len(a) = at - 1 /\ \A i \in 1..Len(a) : a[i] = l[i]
    BY <1>1, SubSeqProperties
  <2>2. b \in Seq(Items) /\ Len(b) = Len(l) - at /\ \A i \in 1..Len(b) : b[i] = l[i + at]
    BY <1>1, SubSeqProperties
  <2> QED BY <2>1, <2>2
<1>3. Nt!RemoveAt(l, at) = a \o b
  BY Zenon DEF Nt!RemoveAt
<1> HIDE DEF a, b
<1>4. /\ a \o b \in Seq(Items) /\ Len(a \o b) = Len(l) - 1
      /\ \A i \in 1..(Len(l) - 1) : (a \o b)[i] = IF i < at THEN l[i] ELSE l[i + 1]
  <2>2. /\ Len(a \o b) = Len(a) + Len(b) /\ a \o b \in Seq(Items)
        /\ \A i \in 1..Len(a) + Len(b) : (a \o b)[i] = IF i <= Len(a) THEN a[i] ELSE b[i - Len(a)]
    BY <1>2, Joined, Zenon
  <2>3. ASSUME NEW i \in 1..(Len(l) - 1) PROVE (a \o b)[i] = IF i < at THEN l[i] ELSE l[i + 1]
    <3>1. i \in 1..Len(a) + Len(b)
      BY <1>1, <1>2
    <3>2. CASE i < at
      <4>1. i <= Len(a) /\ i \in 1..Len(a)
        BY <1>1, <1>2, <3>2
      <4> QED BY <1>2, <2>2, <3>1, <3>2, <4>1
    <3>3. CASE ~(i < at)
      <4>1. ~(i <= Len(a)) /\ i - Len(a) \in 1..Len(b) /\ (i - Len(a)) + at = i + 1
        BY <1>1, <1>2, <3>3
      <4>2. (a \o b)[i] = b[i - Len(a)]
        BY <2>2, <3>1, <4>1
      <4> QED BY <1>2, <3>3, <4>1, <4>2
    <3> QED BY <3>2, <3>3
  <2>4. Len(a) + Len(b) = Len(l) - 1
    BY <1>1, <1>2
  <2> QED BY <2>2, <2>3, <2>4, Zenon
<1> DEFINE r == Nt!RemoveAt(l, at)
<1>5. /\ r \in Seq(Items) /\ Len(r) = Len(l) - 1
      /\ \A i \in 1..(Len(l) - 1) : r[i] = IF i < at THEN l[i] ELSE l[i + 1]
  BY <1>3, <1>4, Zenon
<1> HIDE DEF r
<1>6. DOMAIN r = 1..(Len(l) - 1)
  BY <1>5
<1>7. Without(l, r, at)
  BY <1>5, <1>6, Zenon DEF Without
<1> QED BY <1>5, <1>7, Zenon DEF r

\* What else is in the list stays
LEMMA WithoutIs ==
  ASSUME NEW l \in Seq(Items), NEW r \in Seq(Items), NEW at \in DOMAIN l, Without(l, r, at)
  PROVE  /\ \A i \in DOMAIN r : \E j \in DOMAIN l : j # at /\ r[i] = l[j]
         /\ \A j \in DOMAIN l : j # at => \E i \in DOMAIN r : r[i] = l[j]
         /\ \A i, j \in DOMAIN r : r[i].id = r[j].id /\ i # j =>
              \E k, n \in DOMAIN l : k # n /\ l[k].id = l[n].id
<1>1. Len(l) \in Nat /\ DOMAIN l = 1..Len(l) /\ at \in 1..Len(l) /\ DOMAIN r = 1..(Len(l) - 1)
  BY DEF Without
<1>2. \A i \in DOMAIN r : r[i] = IF i < at THEN l[i] ELSE l[i + 1]
  BY DEF Without
<1> DEFINE old(i) == IF i < at THEN i ELSE i + 1
<1>3. \A i \in DOMAIN r : old(i) \in DOMAIN l /\ old(i) # at /\ r[i] = l[old(i)]
  BY <1>1, <1>2
<1>4. \A i, j \in DOMAIN r : i # j => old(i) # old(j)
  BY <1>1
<1>5. \A j \in DOMAIN l : j # at => \E i \in DOMAIN r : old(i) = j
  <2> SUFFICES ASSUME NEW j \in DOMAIN l, j # at PROVE \E i \in DOMAIN r : old(i) = j
    OBVIOUS
  <2>1. CASE j < at
    BY <1>1, <2>1
  <2>2. CASE j > at
    <3>1. j - 1 \in DOMAIN r /\ old(j - 1) = j
      BY <1>1, <2>2
    <3> QED BY <3>1
  <2> QED BY <1>1, <2>1, <2>2
<1> HIDE DEF old
<1> QED BY <1>3, <1>4, <1>5

----------------------------------------------------------------------------
(* Logs *)

\* Of the other notifications the lists say the same
Others(l, r, id) ==
  /\ \A i \in DOMAIN l : l[i].id # id =>
       \E j \in DOMAIN r : r[j].id = l[i].id /\ r[j].app = l[i].app /\ r[j].text = l[i].text
  /\ \A j \in DOMAIN r : r[j].id # id =>
       \E i \in DOMAIN l : r[j].id = l[i].id /\ r[j].app = l[i].app /\ r[j].text = l[i].text

LEMMA OthersSo ==
  ASSUME NEW l, NEW r, NEW id, Others(l, r, id)
  PROVE  \A other, on, note : other # id /\ IsSo(l, other, on, note) => IsSo(r, other, on, note)
<1> SUFFICES ASSUME NEW other, other # id, NEW on, NEW note, IsSo(l, other, on, note)
             PROVE  IsSo(r, other, on, note)
  BY Zenon
<1>1. (\E i \in DOMAIN l : l[i].id = other) <=> (\E j \in DOMAIN r : r[j].id = other)
  <2>1. ASSUME NEW i \in DOMAIN l, l[i].id = other PROVE \E j \in DOMAIN r : r[j].id = other
    <3>1. l[i].id # id
      BY <2>1
    <3>2. PICK j \in DOMAIN r : r[j].id = l[i].id
      BY <3>1, Zenon DEF Others
    <3> QED BY <2>1, <3>2
  <2>2. ASSUME NEW j \in DOMAIN r, r[j].id = other PROVE \E i \in DOMAIN l : l[i].id = other
    <3>1. r[j].id # id
      BY <2>2
    <3>2. PICK i \in DOMAIN l : r[j].id = l[i].id
      BY <3>1, Zenon DEF Others
    <3> QED BY <2>2, <3>2
  <2> QED BY <2>1, <2>2, Zenon
<1>2. ASSUME NEW j \in DOMAIN r, r[j].id = other PROVE note = Nt!Note(r[j].app, r[j].text)
  <2>1. PICK i \in DOMAIN l : r[j].id = l[i].id /\ r[j].app = l[i].app /\ r[j].text = l[i].text
    BY <1>2, Zenon DEF Others
  <2>2. note = Nt!Note(l[i].app, l[i].text)
    BY <1>2, <2>1, Zenon DEF IsSo
  <2> QED BY <2>1, <2>2, Zenon
<1> QED BY <1>1, <1>2, Zenon DEF IsSo

\* The log f is e, news of the notification id, and what is about none
LEMMA NewsTells ==
  ASSUME NEW n \in Nat, NEW d \in Nat, d >= n + 1, NEW e, NEW f, DOMAIN e = 1..n, DOMAIN f = 1..d,
         \A k \in 1..n : f[k] = e[k], NEW id \in Ids_, f[n + 1].id = id,
         \A k \in 1..d : k > n + 1 => f[k].id \notin Ids_,
         NEW t, NEW l, NEW r, Tells(e, t, l), Others(l, r, id), IsSo(r, id, f[n + 1].on, f[n + 1].note)
  PROVE  Tells(f, t, r)
<1>1. n + 1 \in DOMAIN f /\ \A j \in DOMAIN f : n + 1 < j => f[j].id # id
  BY DEF Ids_
<1>2. ASSUME NEW k \in DOMAIN e PROVE k \in DOMAIN f /\ f[k] = e[k] /\ k < n + 1
  OBVIOUS
<1>3. ASSUME NEW j \in DOMAIN f, NEW other \in Ids_, other # id, f[j].id = other
      PROVE  j \in DOMAIN e /\ f[j] = e[j]
  <2>1. CASE j <= n
    BY <1>3, <2>1
  <2>2. CASE j = n + 1
    BY <1>3, <2>2
  <2>3. CASE j > n + 1
    BY <1>3, <2>3
  <2> QED BY <1>3, <2>1, <2>2, <2>3
<1>a. \A other, on, note : other # id /\ IsSo(l, other, on, note) => IsSo(r, other, on, note)
  BY OthersSo, Zenon
<1> SUFFICES ASSUME NEW other \in Ids_
      PROVE  \/ \E k \in DOMAIN f :
                  /\ f[k].id = other /\ \A j \in DOMAIN f : k < j => f[j].id # other
                  /\ IsSo(r, other, f[k].on, f[k].note)
             \/ (\A k \in DOMAIN f : f[k].id # other) /\ IsSo(r, other, other \in DOMAIN t, t[other])
  BY Zenon DEF Tells
<1>0. CASE other = id
  BY <1>0, <1>1, Zenon
<1>4. CASE other # id
  <2>5. CASE \E k \in DOMAIN e :
               /\ e[k].id = other /\ \A j \in DOMAIN e : k < j => e[j].id # other
               /\ IsSo(l, other, e[k].on, e[k].note)
    <3>1. PICK k \in DOMAIN e :
               /\ e[k].id = other /\ \A j \in DOMAIN e : k < j => e[j].id # other
               /\ IsSo(l, other, e[k].on, e[k].note)
      BY <2>5, Zenon
    <3>2. k \in DOMAIN f /\ f[k] = e[k]
      BY <1>2
    <3>3. \A j \in DOMAIN f : k < j => f[j].id # other
      BY <1>3, <1>4, <3>1, Zenon
    <3>4. IsSo(r, other, f[k].on, f[k].note)
      <4>1. IsSo(l, other, f[k].on, f[k].note)
        BY <3>1, <3>2, Zenon
      <4> QED BY <1>4, <1>a, <4>1, Zenon
    <3> QED BY <3>1, <3>2, <3>3, <3>4, Zenon
  <2>6. CASE (\A k \in DOMAIN e : e[k].id # other) /\ IsSo(l, other, other \in DOMAIN t, t[other])
    <3>1. \A k \in DOMAIN f : f[k].id # other
      BY <1>3, <1>4, <2>6, Zenon
    <3>2. IsSo(r, other, other \in DOMAIN t, t[other])
      BY <1>4, <1>a, <2>6, Zenon
    <3> QED BY <3>1, <3>2
  <2>7. \/ \E k \in DOMAIN e :
             /\ e[k].id = other /\ \A j \in DOMAIN e : k < j => e[j].id # other
             /\ IsSo(l, other, e[k].on, e[k].note)
        \/ (\A k \in DOMAIN e : e[k].id # other) /\ IsSo(l, other, other \in DOMAIN t, t[other])
    BY Zenon DEF Tells
  <2> QED BY <2>5, <2>6, <2>7, Zenon
<1> QED BY <1>0, <1>4

\* The log f is e, and what is about no notification
LEMMA BlankTells ==
  ASSUME NEW n \in Nat, NEW d \in Nat, d >= n, NEW e, NEW f, DOMAIN e = 1..n, DOMAIN f = 1..d,
         \A k \in 1..n : f[k] = e[k], \A k \in 1..d : k > n => f[k].id \notin Ids_,
         NEW t, NEW l, Tells(e, t, l)
  PROVE  Tells(f, t, l)
<1>1. \A k \in DOMAIN e : k \in DOMAIN f /\ f[k] = e[k]
  OBVIOUS
<1>2. \A j \in DOMAIN f : f[j].id \in Ids_ => j \in DOMAIN e /\ f[j] = e[j]
  OBVIOUS
<1> SUFFICES ASSUME NEW id \in Ids_
    PROVE  \/ \E k \in DOMAIN f :
                /\ f[k].id = id /\ \A j \in DOMAIN f : k < j => f[j].id # id
                /\ IsSo(l, id, f[k].on, f[k].note)
           \/ (\A k \in DOMAIN f : f[k].id # id) /\ IsSo(l, id, id \in DOMAIN t, t[id])
  BY Zenon DEF Tells
<1>3. \/ \E k \in DOMAIN e :
           /\ e[k].id = id /\ \A j \in DOMAIN e : k < j => e[j].id # id
           /\ IsSo(l, id, e[k].on, e[k].note)
      \/ (\A k \in DOMAIN e : e[k].id # id) /\ IsSo(l, id, id \in DOMAIN t, t[id])
  BY Zenon DEF Tells
<1> QED BY <1>1, <1>2, <1>3, Zenon

\* The log f is e without its first entry, which has been read: it made t into u
ReadInto(e, f, t, u) ==
  /\ \E n \in Nat : /\ DOMAIN e = 1..n + 1 /\ DOMAIN f = 1..n
                    /\ \A k \in 1..n : f[k] = e[k + 1]
  /\ \A id \in Ids_ : id # e[1].id =>
       (id \in DOMAIN u <=> id \in DOMAIN t) /\ (id \in DOMAIN t => u[id] = t[id])
  /\ e[1].id \in Ids_ => (e[1].id \in DOMAIN u <=> e[1].on) /\ (e[1].on => u[e[1].id] = e[1].note)

LEMMA ReadTells ==
  ASSUME NEW e, NEW f, NEW t, NEW u, NEW l, ReadInto(e, f, t, u), Tells(e, t, l)
  PROVE  Tells(f, u, l)
<1>. PICK n \in Nat : /\ DOMAIN e = 1..n + 1 /\ DOMAIN f = 1..n
                      /\ \A k \in 1..n : f[k] = e[k + 1]
  BY Zenon DEF ReadInto
<1>5. /\ \A id \in Ids_ : id # e[1].id =>
           (id \in DOMAIN u <=> id \in DOMAIN t) /\ (id \in DOMAIN t => u[id] = t[id])
      /\ e[1].id \in Ids_ => (e[1].id \in DOMAIN u <=> e[1].on) /\ (e[1].on => u[e[1].id] = e[1].note)
  BY Zenon DEF ReadInto
<1>1. \A k \in DOMAIN f : k + 1 \in DOMAIN e /\ f[k] = e[k + 1]
  OBVIOUS
<1>2. \A k \in DOMAIN e : k # 1 => k - 1 \in DOMAIN f /\ f[k - 1] = e[k]
  OBVIOUS
<1> SUFFICES ASSUME NEW id \in Ids_
    PROVE  \/ \E k \in DOMAIN f :
                /\ f[k].id = id /\ \A j \in DOMAIN f : k < j => f[j].id # id
                /\ IsSo(l, id, f[k].on, f[k].note)
           \/ (\A k \in DOMAIN f : f[k].id # id) /\ IsSo(l, id, id \in DOMAIN u, u[id])
  BY Zenon DEF Tells
<1>3. CASE \E k \in DOMAIN e :
             /\ e[k].id = id /\ \A j \in DOMAIN e : k < j => e[j].id # id
             /\ IsSo(l, id, e[k].on, e[k].note)
  <2>1. PICK k \in DOMAIN e :
             /\ e[k].id = id /\ \A j \in DOMAIN e : k < j => e[j].id # id
             /\ IsSo(l, id, e[k].on, e[k].note)
    BY <1>3, Zenon
  <2>2. CASE k # 1
    <3>1. k - 1 \in DOMAIN f /\ f[k - 1] = e[k]
      BY <1>2, <2>2
    <3>2. \A j \in DOMAIN f : k - 1 < j => f[j].id # id
      <4> SUFFICES ASSUME NEW j \in DOMAIN f, k - 1 < j PROVE f[j].id # id
        OBVIOUS
      <4>1. j + 1 \in DOMAIN e /\ k < j + 1
        BY <1>1
      <4>2. e[j + 1].id # id
        BY <2>1, <4>1
      <4> QED BY <1>1, <4>2
    <3> QED BY <2>1, <3>1, <3>2, Zenon
  <2>3. CASE k = 1
    <3>1. \A j \in DOMAIN f : f[j].id # id
      <4> SUFFICES ASSUME NEW j \in DOMAIN f PROVE f[j].id # id
        OBVIOUS
      <4>1. j + 1 \in DOMAIN e /\ k < j + 1
        BY <1>1, <2>3
      <4>2. e[j + 1].id # id
        BY <2>1, <4>1
      <4> QED BY <1>1, <4>2
    <3>2. e[1].id = id /\ IsSo(l, id, e[1].on, e[1].note)
      BY <2>1, <2>3, Zenon
    <3>3. (id \in DOMAIN u <=> e[1].on) /\ (e[1].on => u[id] = e[1].note)
      BY <1>5, <3>2, Zenon
    <3>4. IsSo(l, id, id \in DOMAIN u, u[id])
      BY <3>2, <3>3, Zenon DEF IsSo
    <3> QED BY <3>1, <3>4
  <2> QED BY <2>2, <2>3
<1>4. CASE (\A k \in DOMAIN e : e[k].id # id) /\ IsSo(l, id, id \in DOMAIN t, t[id])
  <2>1. \A k \in DOMAIN f : f[k].id # id
    BY <1>1, <1>4, Zenon
  <2>2. 1 \in DOMAIN e /\ e[1].id # id
    BY <1>4
  <2>3. (id \in DOMAIN u <=> id \in DOMAIN t) /\ (id \in DOMAIN t => u[id] = t[id])
    BY <1>5, <2>2, Zenon
  <2>4. IsSo(l, id, id \in DOMAIN u, u[id])
    BY <1>4, <2>3, Zenon DEF IsSo
  <2> QED BY <2>1, <2>4
<1> QED BY <1>3, <1>4, Zenon DEF Tells

----------------------------------------------------------------------------
(* What the handlers do *)

LEMMA TimersLeft ==
  ASSUME NEW f \in Timers, NEW h PROVE Nt!Restrict(f, DOMAIN f \ {h}) \in Timers
<1>1. PICK d \in SUBSET Nat : f \in [d -> Nat]
  BY DEF Timers
<1>2. Nt!Restrict(f, d \ {h}) \in [d \ {h} -> Nat] /\ DOMAIN f = d
  BY <1>1 DEF Nt!Restrict
<1> QED BY <1>1, <1>2 DEF Timers

LEMMA TimerAdded ==
  ASSUME NEW f \in Timers, NEW h \in Nat, NEW n \in Nat PROVE Nt!With(f, h, n) \in Timers
<1>1. PICK d \in SUBSET Nat : f \in [d -> Nat]
  BY DEF Timers
<1>2. Nt!With(f, h, n) \in [{h} \cup d -> Nat] /\ {h} \cup d \in SUBSET Nat
  BY <1>1 DEF Nt!With
<1> QED BY <1>2 DEF Timers

LEMMA Two == ASSUME NEW a, NEW b PROVE Append(<<a>>, b) = <<a, b>>
<1> DEFINE w == Append(<<a>>, b)
           e == <<a, b>>
<1>1. <<a>> \in Seq({a, b}) /\ b \in {a, b}
  OBVIOUS
<1>2. w \in Seq({a, b}) /\ Len(w) = 2 /\ w[1] = a /\ w[2] = b
  BY <1>1
<1>3. e \in Seq({a, b}) /\ Len(e) = 2 /\ e[1] = a /\ e[2] = b
  OBVIOUS
<1> HIDE DEF w, e
<1>4. w = e
  BY <1>2, <1>3, SeqEqual
<1> QED BY <1>4 DEF w, e

\* A handler that emits two triggers, sends a message
LEMMA EmitsTwo ==
  ASSUME NEW z, "emit" \in DOMAIN z, z.emit = <<>>, NEW a, NEW b
  PROVE  Nt!Emit(Nt!Emit(z, a), b) = [z EXCEPT !.emit = <<a, b>>]
<1>1. Nt!Emit(z, a) = [z EXCEPT !.emit = <<a>>]
  BY DEF Nt!Emit
<1>2. DOMAIN Nt!Emit(z, a) = DOMAIN z /\ Nt!Emit(z, a).emit = <<a>>
  BY <1>1
<1>3. Nt!Emit(Nt!Emit(z, a), b) = [Nt!Emit(z, a) EXCEPT !.emit = <<a, b>>]
  <2> DEFINE w == Nt!Emit(z, a)
  <2>1. Nt!Emit(w, b) = [w EXCEPT !.emit = Append(w.emit, b)]
    BY Zenon DEF Nt!Emit
  <2>2. w.emit = <<a>>
    BY <1>2
  <2>3. Append(<<a>>, b) = <<a, b>>
    BY Two, Zenon
  <2> QED BY <2>1, <2>2, <2>3, Zenon
<1> QED BY <1>1, <1>3

LEMMA SendsOne ==
  ASSUME NEW z, z.out = <<>>, NEW c PROVE Nt!Send(z, c) = [z EXCEPT !.out = <<c>>]
BY DEF Nt!Send

\* The notification id is closed if there is one: y is x after that
IsClosed(x, id, y) ==
  /\ y.emit = <<Nt!Trigger("notification-removed", id), Regrouped>> /\ y.timers \in Timers
  /\ y = [x EXCEPT !.list = y.list, !.timers = y.timers, !.expanded_group = y.expanded_group,
                   !.out = y.out, !.emit = y.emit]
  /\ \/ /\ \A i \in DOMAIN x.list : x.list[i].id # id
        /\ y.list = x.list /\ y.out = <<>> /\ y.expanded_group = x.expanded_group
     \/ \E at \in DOMAIN x.list :
          /\ x.list[at].id = id /\ y.list \in Seq(Items) /\ Without(x.list, y.list, at)
          /\ y.out = <<[k |-> "closed", id |-> id]>>
          /\ y.expanded_group = IF /\ x.list[at].app = x.expanded_group
                                   /\ \A i \in DOMAIN y.list : y.list[i].app # x.expanded_group
                                THEN "none" ELSE x.expanded_group

LEMMA Closing ==
  ASSUME NEW x \in Variables, NEW id \in Ids_, NEW y, y = Nt!Close(x, id)
  PROVE  IsClosed(x, id, y)
<1> DEFINE at == Nt!Lookup(x, id)
           n == x.list[at]
           list == Nt!RemoveAt(x.list, at)
           timers == Nt!Restrict(x.timers, DOMAIN x.timers \ {n.timeout_handle})
           u == [x EXCEPT !.list = list, !.timers = timers]
           v == IF n.app = x.expanded_group /\ Nt!Members(u, n.app) = {} THEN [u EXCEPT !.expanded_group = "none"] ELSE u
           msg == [k |-> "closed", id |-> id]
           z == IF at = 0 THEN x ELSE Nt!Send(v, msg)
           tr == Nt!Trigger("notification-removed", id)
<1>1. y = Nt!Regroup(Nt!Emit(z, tr))
  BY Zenon DEF Nt!Close
<1>2. /\ x.list \in Seq(Items) /\ x.emit = <<>> /\ x.out = <<>> /\ x.timers \in Timers
      /\ DOMAIN x = {"list", "expanded_group", "dn_id_counter", "timers", "collided", "stray", "emit", "out"}
  BY DEF Variables
<1>3. "emit" \in DOMAIN z /\ z.emit = <<>> => y = [z EXCEPT !.emit = <<tr, Regrouped>>]
  <2>1. y = Nt!Emit(Nt!Emit(z, tr), Regrouped)
    BY <1>1, Zenon DEF Nt!Regroup, Regrouped
  <2> HIDE DEF z, tr
  <2> QED BY <2>1, EmitsTwo
<1>4. CASE at = 0
  <2>1. \A i \in DOMAIN x.list : x.list[i].id # id
    BY <1>2, <1>4, Found
  <2>2. z = x
    BY <1>4
  <2> HIDE DEF at, z
  <2> HIDE DEF tr
  <2>3. y = [x EXCEPT !.emit = y.emit] /\ y.emit = <<tr, Regrouped>>
    BY <1>2, <1>3, <2>2
  <2>4. /\ y.list = x.list /\ y.timers = x.timers /\ y.expanded_group = x.expanded_group /\ y.out = <<>>
        /\ y = [x EXCEPT !.list = y.list, !.timers = y.timers, !.expanded_group = y.expanded_group,
                         !.out = y.out, !.emit = y.emit]
    BY <1>2, <2>3 DEF Variables
  <2> QED BY <1>2, <2>1, <2>3, <2>4 DEF tr, IsClosed
<1>5. CASE at # 0
  <2>1. at \in DOMAIN x.list /\ x.list[at].id = id
    BY <1>2, <1>5, Found
  <2>2. list \in Seq(Items) /\ Without(x.list, list, at)
    BY <1>2, <2>1, NotesRemoved
  <2>3. timers \in Timers
    BY <1>2, TimersLeft
  <2>4. Nt!Members(u, n.app) = {i \in DOMAIN list : list[i].app = n.app}
    BY <1>2 DEF Nt!Members
  <2> DEFINE empty == n.app = x.expanded_group /\ \A i \in DOMAIN list : list[i].app # x.expanded_group
             group == IF empty THEN "none" ELSE x.expanded_group
  <2>5. v = [x EXCEPT !.list = list, !.timers = timers, !.expanded_group = group]
    <3>1. empty <=> n.app = x.expanded_group /\ Nt!Members(u, n.app) = {}
      BY <2>4
    <3>2. CASE empty
      <4>1. v = [u EXCEPT !.expanded_group = "none"]
        BY <3>1, <3>2, Zenon
      <4> HIDE DEF v, list, timers, empty
      <4> QED BY <1>2, <3>2, <4>1
    <3>3. CASE ~empty
      <4>1. v = u
        BY <3>1, <3>3, Zenon
      <4> HIDE DEF v, list, timers, empty
      <4> QED BY <1>2, <3>3, <4>1 DEF Variables
    <3> QED BY <3>2, <3>3
  <2>6. z = Nt!Send(v, msg)
    BY <1>5
  <2> HIDE DEF at, z, list, timers, v, empty, u, n, group, msg, tr
  <2>7. z = [x EXCEPT !.list = list, !.timers = timers, !.expanded_group = group, !.out = <<msg>>]
    <3>1. v.out = <<>> /\ DOMAIN v = DOMAIN x
      BY <1>2, <2>5
    <3>2. z = [v EXCEPT !.out = <<msg>>]
      BY <2>6, <3>1, SendsOne
    <3> QED BY <1>2, <2>5, <3>2
  <2>8. z.emit = <<>> /\ DOMAIN z = DOMAIN x
    BY <1>2, <2>7
  <2>9. /\ y.list = list /\ y.timers = timers /\ y.expanded_group = group /\ y.out = <<msg>>
        /\ y.emit = <<tr, Regrouped>>
        /\ y = [x EXCEPT !.list = y.list, !.timers = y.timers, !.expanded_group = y.expanded_group,
                         !.out = y.out, !.emit = y.emit]
    BY <1>2, <1>3, <2>7, <2>8
  <2>10. y.expanded_group = IF /\ x.list[at].app = x.expanded_group
                               /\ \A i \in DOMAIN y.list : y.list[i].app # x.expanded_group
                            THEN "none" ELSE x.expanded_group
    BY <2>9, Zenon DEF group, empty, n
  <2> QED BY <2>1, <2>2, <2>3, <2>9, <2>10 DEF tr, msg, IsClosed
<1> QED BY <1>4, <1>5

\* The triggers are taken in turn, after one that has all rows drawn
LEMMA TwoRung ==
  ASSUME trig \in Seq(NotesTriggers), trig # <<>> => Nt!Last(trig) = Regrouped, NEW a \in NotesTriggers, a # Regrouped,
         NEW e, e = <<a, Regrouped>>
  PROVE  NotesRung(trig, e) = Append(Append(trig, a), Regrouped)
<1> DEFINE one == Append(trig, a)
<1>1. Nt!QueueInTurn(trig, a) = one
  BY Zenon DEF Nt!QueueInTurn
<1>2. one # <<>> /\ Nt!Last(one) = a
  <2>1. Len(one) = Len(trig) + 1 /\ Len(trig) \in Nat /\ one[Len(trig) + 1] = a /\ one \in Seq(NotesTriggers)
    OBVIOUS
  <2> HIDE DEF one
  <2> QED BY <2>1 DEF Nt!Last
<1> HIDE DEF one
<1>3. Nt!QueueInTurn(one, Regrouped) = Append(one, Regrouped)
  BY <1>2, Zenon DEF Nt!QueueInTurn
<1>4. NotesRung(trig, e) = Nt!QueueInTurn(Nt!QueueInTurn(trig, a), Regrouped)
  BY FoldTwo
<1> QED BY <1>1, <1>3, <1>4, Zenon DEF one

LEMMA OneRung ==
  ASSUME trig # <<>> => Nt!Last(trig) = Regrouped
  PROVE  NotesRung(trig, <<Regrouped>>) = IF trig = <<>> THEN Append(trig, Regrouped) ELSE trig
<1>1. Nt!QueueInTurn(trig, Regrouped) = IF trig = <<>> THEN Append(trig, Regrouped) ELSE trig
  BY Zenon DEF Nt!QueueInTurn
<1>2. NotesRung(trig, <<Regrouped>>) = Nt!QueueInTurn(trig, Regrouped)
  BY FoldOne, Zenon
<1> QED BY <1>1, <1>2, Zenon

\* A handler has run
LEMMA NotesDone ==
  ASSUME NEW x, Nt!DoesInTurn(x)
  PROVE  /\ m' = [x EXCEPT !.out = <<>>, !.emit = <<>>] /\ out' = out \o x.out
         /\ trig' = NotesRung(trig, x.emit)
BY Zenon DEF Nt!DoesInTurn, Nt!Ran, NotesRung


\* The triggers that wait after a handler tell of its list
LEMMA TriggersTell ==
  ASSUME NEW ts \in Seq(NotesTriggers), NEW a \in NotesTriggers, OfTrigger(a).id \in Ids_, NEW t, NEW l, NEW r,
         Tells(TriggerLog(ts), t, l), Others(l, r, OfTrigger(a).id),
         IsSo(r, OfTrigger(a).id, OfTrigger(a).on, OfTrigger(a).note)
  PROVE  Tells(TriggerLog(Append(Append(ts, a), Regrouped)), t, r)
<1> DEFINE n == Len(ts)
           us == Append(Append(ts, a), Regrouped)
           e == TriggerLog(ts)
           f == TriggerLog(us)
<1>1. n \in Nat /\ DOMAIN ts = 1..n /\ DOMAIN us = 1..n + 2 /\ us[n + 1] = a /\ us[n + 2] = Regrouped
      /\ \A k \in 1..n : us[k] = ts[k]
  <2>1. Regrouped \in NotesTriggers
    BY Zenon DEF NotesTriggers
  <2> HIDE DEF Regrouped
  <2> QED BY <2>1
<1>2. OfTrigger(Regrouped).id \notin Ids_
  BY DEF OfTrigger, Regrouped, Nt!Trigger, Blank, Entry, Ids_
<1> HIDE DEF us, n
<1>3. /\ DOMAIN e = 1..n /\ DOMAIN f = 1..n + 2 /\ \A k \in 1..n + 2 : f[k] = OfTrigger(us[k])
      /\ \A k \in 1..n : f[k] = e[k]
  <2>1. \A k \in 1..n : k \in 1..n + 2
    BY <1>1
  <2> QED BY <1>1, <2>1, Zenon DEF TriggerLog
<1> HIDE DEF e, f
<1>4. f[n + 1] = OfTrigger(a) /\ \A k \in 1..n + 2 : k > n + 1 => f[k].id \notin Ids_
  <2>1. n + 1 \in 1..n + 2 /\ n + 2 \in 1..n + 2 /\ \A k \in 1..n + 2 : k > n + 1 => k = n + 2
    BY <1>1
  <2>2. f[n + 1] = OfTrigger(a) /\ f[n + 2] = OfTrigger(Regrouped)
    BY <1>1, <1>3, <2>1, Zenon
  <2> QED BY <1>2, <2>1, <2>2, Zenon
<1>5. Tells(e, t, l)
  BY Zenon DEF e
<1>6. n + 2 \in Nat /\ n + 2 >= n + 1
  BY <1>1
<1>7. Tells(f, t, r)
  BY <1>1, <1>3, <1>4, <1>5, <1>6, NewsTells
<1> QED BY <1>7, Zenon DEF f, us

LEMMA RegroupTells ==
  ASSUME NEW ts \in Seq(NotesTriggers), NEW t, NEW l, Tells(TriggerLog(ts), t, l)
  PROVE  Tells(TriggerLog(Append(ts, Regrouped)), t, l)
<1> DEFINE n == Len(ts)
           us == Append(ts, Regrouped)
           e == TriggerLog(ts)
           f == TriggerLog(us)
<1>1. n \in Nat /\ DOMAIN ts = 1..n /\ DOMAIN us = 1..n + 1 /\ us[n + 1] = Regrouped
      /\ \A k \in 1..n : us[k] = ts[k]
  <2>1. Regrouped \in NotesTriggers
    BY Zenon DEF NotesTriggers
  <2> HIDE DEF Regrouped
  <2> QED BY <2>1
<1>2. OfTrigger(Regrouped).id \notin Ids_
  BY DEF OfTrigger, Regrouped, Nt!Trigger, Blank, Entry, Ids_
<1> HIDE DEF us, n
<1>3. /\ DOMAIN e = 1..n /\ DOMAIN f = 1..n + 1 /\ \A k \in 1..n + 1 : f[k] = OfTrigger(us[k])
      /\ \A k \in 1..n : f[k] = e[k]
  <2>1. \A k \in 1..n : k \in 1..n + 1
    BY <1>1
  <2> QED BY <1>1, <2>1, Zenon DEF TriggerLog
<1> HIDE DEF e, f
<1>4. \A k \in 1..n + 1 : k > n => f[k].id \notin Ids_
  <2>1. n + 1 \in 1..n + 1 /\ \A k \in 1..n + 1 : k > n => k = n + 1
    BY <1>1
  <2>2. f[n + 1] = OfTrigger(Regrouped)
    BY <1>1, <1>3, <2>1, Zenon
  <2> QED BY <1>2, <2>1, <2>2, Zenon
<1>5. Tells(e, t, l)
  BY Zenon DEF e
<1>6. n + 1 \in Nat /\ n + 1 >= n
  BY <1>1
<1>7. Tells(f, t, l)
  BY <1>1, <1>3, <1>4, <1>5, <1>6, BlankTells
<1> QED BY <1>7, Zenon DEF f, us

\* ... as do the messages
LEMMA MessagesTell ==
  ASSUME NEW ms \in Seq(Messages), NEW a \in Messages, NEW t, NEW l, NEW r, Tells(MessageLog(ms), t, l),
         \/ /\ OfMessage(a).id \in Ids_ /\ Others(l, r, OfMessage(a).id)
            /\ IsSo(r, OfMessage(a).id, OfMessage(a).on, OfMessage(a).note)
         \/ OfMessage(a).id \notin Ids_ /\ r = l
  PROVE  Tells(MessageLog(ms \o <<a>>), t, r)
<1> DEFINE n == Len(ms)
           us == ms \o <<a>>
           e == MessageLog(ms)
           f == MessageLog(us)
<1>1. n \in Nat /\ DOMAIN ms = 1..n /\ DOMAIN us = 1..n + 1 /\ us[n + 1] = a
      /\ \A k \in 1..n : us[k] = ms[k]
  OBVIOUS
<1> HIDE DEF us, n
<1>3. /\ DOMAIN e = 1..n /\ DOMAIN f = 1..n + 1 /\ \A k \in 1..n + 1 : f[k] = OfMessage(us[k])
      /\ \A k \in 1..n : f[k] = e[k]
  <2>1. \A k \in 1..n : k \in 1..n + 1
    BY <1>1
  <2> QED BY <1>1, <2>1, Zenon DEF MessageLog
<1> HIDE DEF e, f
<1>4. n + 1 \in 1..n + 1 /\ \A k \in 1..n + 1 : k > n => k = n + 1
  BY <1>1
<1>2. f[n + 1] = OfMessage(a)
  BY <1>1, <1>3, <1>4, Zenon
<1>5. Tells(e, t, l)
  BY Zenon DEF e
<1>6. n + 1 \in Nat /\ n + 1 >= n /\ n + 1 >= n + 1 /\ \A k \in 1..n + 1 : ~(k > n + 1)
  BY <1>1
<1>7. Tells(f, t, r)
  <2>1. CASE OfMessage(a).id \in Ids_ /\ Others(l, r, OfMessage(a).id)
             /\ IsSo(r, OfMessage(a).id, OfMessage(a).on, OfMessage(a).note)
    BY <1>1, <1>2, <1>3, <1>5, <1>6, <2>1, NewsTells
  <2>2. CASE OfMessage(a).id \notin Ids_ /\ r = l
    <3>1. \A k \in 1..n + 1 : k > n => f[k].id \notin Ids_
      BY <1>2, <1>4, <2>2, Zenon
    <3>2. Tells(f, t, l)
      BY <1>1, <1>3, <1>5, <1>6, <3>1, BlankTells
    <3> QED BY <2>2, <3>2
  <2> QED BY <2>1, <2>2
<1> QED BY <1>7, Zenon DEF f, us

----------------------------------------------------------------------------
(* What fits goes on fitting *)

\* There is nothing in the list y, among the messages us, that was not in x, in ms
NothingNew(x, y) ==
  \A j \in DOMAIN y : \E i \in DOMAIN x : y[j].id = x[i].id /\ y[j].app = x[i].app
NoReply(ms, us) == \A j \in DOMAIN us : us[j].k = "id" => \E i \in DOMAIN ms : us[j] = ms[i]

LEMMA OwnersKept ==
  ASSUME NEW x, NEW y, NEW ms, NEW us, NEW c, Fresh(x, ms, c), OneOwner(x, ms, c),
         y.dn_id_counter = x.dn_id_counter,
         NothingNew(x.list, y.list), NoReply(ms, us)
  PROVE  Fresh(y, us, c) /\ OneOwner(y, us, c)
<1>0. /\ \A j \in DOMAIN y.list : \E i \in DOMAIN x.list :
           y.list[j].id = x.list[i].id /\ y.list[j].app = x.list[i].app
      /\ \A j \in DOMAIN us : us[j].k = "id" => \E i \in DOMAIN ms : us[j] = ms[i]
  BY Zenon DEF NothingNew, NoReply
<1>1. \A id : Unused(x, c, id) => Unused(y, c, id)
  BY DEF Unused
<1>2. Fresh(y, us, c)
  <2>1. ASSUME NEW j \in DOMAIN y.list PROVE Unused(y, c, y.list[j].id)
    <3>1. PICK i \in DOMAIN x.list : y.list[j].id = x.list[i].id
      BY <1>0, Zenon
    <3>2. Unused(x, c, x.list[i].id)
      BY Zenon DEF Fresh
    <3> QED BY <1>1, <3>1, <3>2, Zenon
  <2>2. ASSUME NEW j \in DOMAIN us, us[j].k = "id" PROVE Unused(y, c, us[j].id)
    <3>1. PICK i \in DOMAIN ms : us[j] = ms[i]
      BY <1>0, <2>2, Zenon
    <3>2. ms[i].k = "id"
      BY <2>2, <3>1, Zenon
    <3>3. Unused(x, c, ms[i].id)
      BY <3>2, Zenon DEF Fresh
    <3> QED BY <1>1, <3>1, <3>3, Zenon
  <2> QED BY <2>1, <2>2, Zenon DEF Fresh
<1>3. \A id, a : Owns(y, us, c, a, id) => Owns(x, ms, c, a, id)
  <2> SUFFICES ASSUME NEW id, NEW a, Owns(y, us, c, a, id) PROVE Owns(x, ms, c, a, id)
    BY Zenon
  <2>1. CASE id \in DOMAIN c.given /\ c.given[id] = a
    BY <2>1, Zenon DEF Owns
  <2>2. CASE \E i \in DOMAIN y.list : y.list[i].id = id /\ y.list[i].app = a
    BY <1>0, <2>2, Zenon DEF Owns
  <2>3. CASE \E i \in DOMAIN us : us[i].k = "id" /\ us[i].id = id /\ us[i].app = a
    <3>1. PICK j \in DOMAIN us : us[j].k = "id" /\ us[j].id = id /\ us[j].app = a
      BY <2>3, Zenon
    <3>2. PICK i \in DOMAIN ms : us[j] = ms[i]
      BY <1>0, <3>1, Zenon
    <3>3. ms[i].k = "id" /\ ms[i].id = id /\ ms[i].app = a
      BY <3>1, <3>2, Zenon
    <3> QED BY <3>3, Zenon DEF Owns
  <2> QED BY <2>1, <2>2, <2>3, Zenon DEF Owns
<1>4. OneOwner(y, us, c)
  BY <1>3, Zenon DEF OneOwner
<1> QED BY <1>2, <1>4

\* A notification is closed
LEMMA ClosingFits ==
  ASSUME NEW x \in Variables, NEW id \in Ids_, NEW y, IsClosed(x, id, y),
         NEW ts \in Seq(NotesTriggers), NEW ms \in Seq(Messages), NEW c, NEW t, Fit(x, ts, ms, c, t)
  PROVE  Fit(y, Append(Append(ts, Nt!Trigger("notification-removed", id)), Regrouped), ms \o y.out, c, t)
<1> DEFINE tr == Nt!Trigger("notification-removed", id)
           msg == [k |-> "closed", id |-> id]
<1>1. /\ y.dn_id_counter = x.dn_id_counter
      /\ \/ /\ \A i \in DOMAIN x.list : x.list[i].id # id
            /\ y.list = x.list /\ y.out = <<>> /\ y.expanded_group = x.expanded_group
         \/ \E at \in DOMAIN x.list :
              /\ x.list[at].id = id /\ y.list \in Seq(Items) /\ Without(x.list, y.list, at)
              /\ y.out = <<msg>>
              /\ y.expanded_group = IF /\ x.list[at].app = x.expanded_group
                                       /\ \A i \in DOMAIN y.list : y.list[i].app # x.expanded_group
                                    THEN "none" ELSE x.expanded_group
  <2>1. y = [x EXCEPT !.list = y.list, !.timers = y.timers, !.expanded_group = y.expanded_group,
                      !.out = y.out, !.emit = y.emit]
    BY Zenon DEF IsClosed
  <2>2. y.dn_id_counter = x.dn_id_counter
    BY <2>1 DEF Variables
  <2> QED BY <2>2, Zenon DEF IsClosed
<1>2. x.list \in Seq(Items)
  BY DEF Variables
<1>3. tr \in NotesTriggers /\ OfTrigger(tr) = Entry(id, FALSE, "none")
  BY DEF Nt!Trigger, NotesTriggers, OfTrigger
<1>4. msg \in Messages /\ OfMessage(msg) = Entry(id, FALSE, "none") /\ msg.k # "id"
  BY DEF Messages, OfMessage
<1>5. Entry(id, FALSE, "none").id = id /\ Entry(id, FALSE, "none").on = FALSE /\ Entry(id, FALSE, "none").note = "none"
  BY DEF Entry
<1>6. /\ Apart(x.list) /\ Fresh(x, ms, c) /\ OneOwner(x, ms, c) /\ Expanded(x)
      /\ Tells(TriggerLog(ts), t, x.list) /\ Tells(MessageLog(ms), c.open, x.list)
  BY Zenon DEF Fit
<1> DEFINE us == Append(Append(ts, tr), Regrouped)
<1>7. CASE /\ \A i \in DOMAIN x.list : x.list[i].id # id
           /\ y.list = x.list /\ y.out = <<>> /\ y.expanded_group = x.expanded_group
  <2>a. NothingNew(x.list, y.list) /\ NoReply(ms, ms)
    BY <1>7, Zenon DEF NothingNew, NoReply
  <2>1. ms \o y.out = ms
    BY <1>7
  <2>2. Fresh(y, ms, c) /\ OneOwner(y, ms, c)
    BY <1>1, <1>6, <2>a, OwnersKept, Zenon
  <2>3. Others(x.list, x.list, id) /\ IsSo(x.list, id, FALSE, "none")
    BY <1>7, Zenon DEF Others, IsSo
  <2>4. Tells(TriggerLog(us), t, x.list)
    BY <1>3, <1>5, <1>6, <2>3, TriggersTell
  <2>5. Expanded(y)
    BY <1>6, <1>7, Zenon DEF Expanded
  <2> QED BY <1>6, <1>7, <2>1, <2>2, <2>4, <2>5, Zenon DEF Fit
<1>8. CASE \E at \in DOMAIN x.list :
             /\ x.list[at].id = id /\ y.list \in Seq(Items) /\ Without(x.list, y.list, at)
             /\ y.out = <<msg>>
             /\ y.expanded_group = IF /\ x.list[at].app = x.expanded_group
                                      /\ \A i \in DOMAIN y.list : y.list[i].app # x.expanded_group
                                   THEN "none" ELSE x.expanded_group
  <2> PICK at \in DOMAIN x.list :
             /\ x.list[at].id = id /\ y.list \in Seq(Items) /\ Without(x.list, y.list, at)
             /\ y.out = <<msg>>
             /\ y.expanded_group = IF /\ x.list[at].app = x.expanded_group
                                      /\ \A i \in DOMAIN y.list : y.list[i].app # x.expanded_group
                                   THEN "none" ELSE x.expanded_group
    BY <1>8, Zenon
  <2> DEFINE l == x.list
             r == y.list
  <2>1. /\ \A i \in DOMAIN r : \E j \in DOMAIN l : j # at /\ r[i] = l[j]
        /\ \A j \in DOMAIN l : j # at => \E i \in DOMAIN r : r[i] = l[j]
        /\ \A i, j \in DOMAIN r : r[i].id = r[j].id /\ i # j =>
             \E k, n \in DOMAIN l : k # n /\ l[k].id = l[n].id
    BY <1>2, WithoutIs, Zenon
  <2>2. Apart(r)
    BY <1>6, <2>1, Zenon DEF Apart
  <2>3. Others(l, r, id)
    BY <2>1, Zenon DEF Others
  <2>4. ASSUME NEW i \in DOMAIN r PROVE r[i].id # id
    <3>1. PICK j \in DOMAIN l : j # at /\ r[i] = l[j]
      BY <2>1, Zenon
    <3>2. l[j].id # l[at].id
      BY <1>6, <3>1, Zenon DEF Apart
    <3> QED BY <3>1, <3>2
  <2>5. IsSo(r, id, FALSE, "none")
    BY <2>4, Zenon DEF IsSo
  <2>6. Tells(TriggerLog(us), t, r)
    BY <1>3, <1>5, <1>6, <2>3, <2>5, TriggersTell
  <2>7. Tells(MessageLog(ms \o <<msg>>), c.open, r)
    BY <1>4, <1>5, <1>6, <2>3, <2>5, MessagesTell
  <2>8. NoReply(ms, ms \o <<msg>>)
    <3> DEFINE w == ms \o <<msg>>
    <3>1. DOMAIN w = 1..Len(ms) + 1 /\ Len(ms) \in Nat /\ DOMAIN ms = 1..Len(ms)
          /\ w[Len(ms) + 1] = msg /\ \A i \in 1..Len(ms) : w[i] = ms[i]
      BY <1>4
    <3> HIDE DEF msg, w
    <3>2. ASSUME NEW j \in DOMAIN w, w[j].k = "id" PROVE \E i \in DOMAIN ms : w[j] = ms[i]
      <4>1. j # Len(ms) + 1
        BY <1>4, <3>1, <3>2
      <4>2. j \in 1..Len(ms)
        BY <3>1, <4>1
      <4> QED BY <3>1, <4>2
    <3> QED BY <3>2, Zenon DEF w, NoReply
  <2>9. NothingNew(l, r)
    BY <2>1, Zenon DEF NothingNew
  <2>10. Fresh(y, ms \o <<msg>>, c) /\ OneOwner(y, ms \o <<msg>>, c)
    BY <1>1, <1>6, <2>8, <2>9, OwnersKept, Zenon
  <2>11. Expanded(y)
    <3>1. CASE y.expanded_group = "none"
      BY <3>1 DEF Expanded
    <3>2. CASE y.expanded_group # "none"
      <4>1. y.expanded_group = x.expanded_group
        BY <3>2
      <4>2. PICK i \in DOMAIN l : l[i].app = x.expanded_group
        BY <1>6, <3>2, <4>1, Zenon DEF Expanded
      <4>3. CASE i = at
        <5>1. \E j \in DOMAIN r : r[j].app = x.expanded_group
          BY <3>2, <4>2, <4>3
        <5> QED BY <4>1, <5>1, Zenon DEF Expanded
      <4>4. CASE i # at
        <5>1. PICK j \in DOMAIN r : r[j] = l[i]
          BY <2>1, <4>4, Zenon
        <5>2. r[j].app = y.expanded_group
          BY <4>1, <4>2, <5>1, Zenon
        <5> QED BY <5>2, Zenon DEF Expanded
      <4> QED BY <4>3, <4>4
    <3> QED BY <3>1, <3>2
  <2> QED BY <2>2, <2>6, <2>7, <2>10, <2>11, Zenon DEF Fit
<1> QED BY <1>1, <1>7, <1>8, Zenon

----------------------------------------------------------------------------
(* Notify *)

IdFor(x, c) == IF c.id = 0 THEN x.dn_id_counter ELSE c.id
Updated(id, note) == [t |-> "notification-updated", of |-> id, v |-> note]

\* The call c is taken: y is x after that, n the notification that is made
IsParsed(x, c, y, n) ==
  /\ y.emit = <<Updated(IdFor(x, c), Nt!Note(c.app, c.text)), Regrouped>> /\ y.timers \in Timers
  /\ y.out = <<[k |-> "id", id |-> IdFor(x, c), app |-> c.app, text |-> c.text]>>
  /\ y = [x EXCEPT !.list = y.list, !.timers = y.timers, !.dn_id_counter = y.dn_id_counter,
                   !.collided = y.collided, !.out = y.out, !.emit = y.emit]
  /\ y.collided = (x.collided \/ (c.id = 0 /\ IdFor(x, c) \in DOMAIN s.given))
  /\ y.dn_id_counter = IF c.id = 0 THEN x.dn_id_counter + 1 ELSE x.dn_id_counter
  /\ n \in Items /\ n.id = IdFor(x, c) /\ n.app = c.app /\ n.text = c.text
  /\ \/ /\ \A i \in DOMAIN x.list : x.list[i].id # c.id
        /\ y.list = Append(x.list, n) /\ n.alloc = c.text /\ n.timeout_handle \in {0, c.text}
     \/ \E at \in DOMAIN x.list :
          /\ x.list[at].id = c.id /\ y.list = [x.list EXCEPT ![at] = n]
          /\ n.alloc = x.list[at].alloc /\ n.timeout_handle \in {x.list[at].timeout_handle, c.text}

LEMMA Parsing ==
  ASSUME NEW x \in Variables, NEW c \in [k : {"notify"}, id : Nat, app : Apps, text : Nat, timed : BOOLEAN],
         NEW y, y = Nt!Parse(x, c)
  PROVE  \E n : IsParsed(x, c, y, n)
<1> DEFINE at == Nt!Lookup(x, c.id)
           id == IF c.id = 0 THEN x.dn_id_counter ELSE c.id
           old == IF at = 0 THEN [alloc |-> c.text, timeout_handle |-> 0] ELSE x.list[at]
           n == [id |-> id, app |-> c.app, text |-> c.text, alloc |-> old.alloc,
                 timeout_handle |-> IF c.timed THEN c.text ELSE old.timeout_handle]
           list == IF at = 0 THEN Append(x.list, n) ELSE [x.list EXCEPT ![at] = n]
           count == IF c.id = 0 THEN x.dn_id_counter + 1 ELSE x.dn_id_counter
           timers == IF c.timed THEN Nt!With(x.timers, c.text, n.alloc) ELSE x.timers
           collided == x.collided \/ (c.id = 0 /\ id \in DOMAIN s.given)
           u == [x EXCEPT !.list = list, !.dn_id_counter = count, !.timers = timers, !.collided = collided]
           tr == [t |-> "notification-updated", of |-> id, v |-> Nt!Note(c.app, c.text)]
           msg == [k |-> "id", id |-> id, app |-> c.app, text |-> c.text]
<1>1. y = Nt!Send(Nt!Regroup(Nt!Emit(u, tr)), msg)
  BY Zenon DEF Nt!Parse
<1>2. /\ x.list \in Seq(Items) /\ x.emit = <<>> /\ x.out = <<>> /\ x.timers \in Timers
      /\ x.dn_id_counter \in Ids_
      /\ DOMAIN x = {"list", "expanded_group", "dn_id_counter", "timers", "collided", "stray", "emit", "out"}
  BY DEF Variables
<1>3. c.id \in Nat /\ c.app \in Apps /\ c.text \in Nat /\ c.timed \in BOOLEAN
  OBVIOUS
<1>4. id = IdFor(x, c) /\ id \in Ids_
  BY <1>2, <1>3 DEF IdFor, Ids_
<1> HIDE DEF at, id
<1>5. /\ at = 0 => \A i \in DOMAIN x.list : x.list[i].id # c.id
      /\ at # 0 => at \in DOMAIN x.list /\ x.list[at].id = c.id
  BY <1>2, Found, Zenon DEF at
<1>6. old.alloc \in Nat /\ old.timeout_handle \in Nat
  <2>1. CASE at = 0
    BY <1>3, <2>1
  <2>2. CASE at # 0
    <3>1. x.list[at] \in Items
      BY <1>2, <1>5, <2>2
    <3> QED BY <2>2, <3>1 DEF Items
  <2> QED BY <2>1, <2>2
<1>7. /\ n \in Items /\ n.id = id /\ n.app = c.app /\ n.text = c.text /\ n.alloc = old.alloc
      /\ n.timeout_handle \in {old.timeout_handle, c.text}
  <2> HIDE DEF old
  <2> QED BY <1>3, <1>4, <1>6 DEF Items
<1>8. \/ /\ \A i \in DOMAIN x.list : x.list[i].id # c.id
         /\ list = Append(x.list, n) /\ n.alloc = c.text /\ n.timeout_handle \in {0, c.text}
      \/ /\ at \in DOMAIN x.list /\ x.list[at].id = c.id /\ list = [x.list EXCEPT ![at] = n]
         /\ n.alloc = x.list[at].alloc /\ n.timeout_handle \in {x.list[at].timeout_handle, c.text}
  <2> HIDE DEF n
  <2>1. CASE at = 0
    BY <1>5, <1>7, <2>1
  <2>2. CASE at # 0
    BY <1>5, <1>7, <2>2
  <2> QED BY <2>1, <2>2
<1>9. timers \in Timers
  <2>1. n.alloc \in Nat
    BY <1>6, <1>7
  <2> HIDE DEF n
  <2>2. Nt!With(x.timers, c.text, n.alloc) \in Timers
    BY <1>2, <1>3, <2>1, TimerAdded
  <2> QED BY <1>2, <2>2
<1> HIDE DEF n, old, list, timers, collided, count, tr, msg
<1>10. y = [x EXCEPT !.list = list, !.dn_id_counter = count, !.timers = timers, !.collided = collided,
                     !.emit = <<tr, Regrouped>>, !.out = <<msg>>]
  <2> DEFINE w == [u EXCEPT !.emit = <<tr, Regrouped>>]
  <2>1. "emit" \in DOMAIN u /\ u.emit = <<>> /\ u.out = <<>> /\ DOMAIN u = DOMAIN x
    BY <1>2
  <2>2. Nt!Emit(Nt!Emit(u, tr), Regrouped) = w
    <3> HIDE DEF u
    <3> QED BY <2>1, EmitsTwo
  <2>3. y = Nt!Send(w, msg)
    <3>1. Nt!Regroup(Nt!Emit(u, tr)) = Nt!Emit(Nt!Emit(u, tr), Regrouped)
      BY Zenon DEF Nt!Regroup, Regrouped
    <3> HIDE DEF u, w
    <3> QED BY <1>1, <2>2, <3>1
  <2>4. w.out = <<>>
    <3> HIDE DEF u
    <3> QED BY <2>1
  <2>5. y = [w EXCEPT !.out = <<msg>>]
    <3> HIDE DEF w
    <3> QED BY <2>3, <2>4, SendsOne
  <2>6. w = [x EXCEPT !.list = list, !.dn_id_counter = count, !.timers = timers, !.collided = collided,
                      !.emit = <<tr, Regrouped>>]
    BY <1>2
  <2> HIDE DEF w
  <2> QED BY <1>2, <2>5, <2>6
<1>11. /\ y.list = list /\ y.dn_id_counter = count /\ y.timers = timers /\ y.collided = collided
       /\ y.emit = <<tr, Regrouped>> /\ y.out = <<msg>>
       /\ y = [x EXCEPT !.list = y.list, !.timers = y.timers, !.dn_id_counter = y.dn_id_counter,
                        !.collided = y.collided, !.out = y.out, !.emit = y.emit]
  BY <1>2, <1>10
<1>12. /\ tr = Updated(IdFor(x, c), Nt!Note(c.app, c.text))
       /\ msg = [k |-> "id", id |-> IdFor(x, c), app |-> c.app, text |-> c.text]
       /\ collided = (x.collided \/ (c.id = 0 /\ IdFor(x, c) \in DOMAIN s.given))
       /\ count = IF c.id = 0 THEN x.dn_id_counter + 1 ELSE x.dn_id_counter
  BY <1>4, Zenon DEF tr, msg, collided, count, Updated
<1>13. \/ /\ \A i \in DOMAIN x.list : x.list[i].id # c.id
          /\ y.list = Append(x.list, n) /\ n.alloc = c.text /\ n.timeout_handle \in {0, c.text}
       \/ \E a \in DOMAIN x.list :
            /\ x.list[a].id = c.id /\ y.list = [x.list EXCEPT ![a] = n]
            /\ n.alloc = x.list[a].alloc /\ n.timeout_handle \in {x.list[a].timeout_handle, c.text}
  BY <1>8, <1>11, Zenon
<1>14. IsParsed(x, c, y, n)
  BY <1>4, <1>7, <1>9, <1>11, <1>12, <1>13, Zenon DEF IsParsed
<1> QED BY <1>14, Zenon

LEMMA ParsingFits ==
  ASSUME NEW x \in Variables, NEW c \in [k : {"notify"}, id : Nat, app : Apps, text : Nat, timed : BOOLEAN],
         c.id # 0 => c.id \in DOMAIN s.given /\ s.given[c.id] = c.app,
         NEW y, NEW n, IsParsed(x, c, y, n), ~y.collided,
         NEW ts \in Seq(NotesTriggers), NEW ms \in Seq(Messages), NEW t, Fit(x, ts, ms, s, t)
  PROVE  Fit(y, Append(Append(ts, Updated(IdFor(x, c), Nt!Note(c.app, c.text))), Regrouped), ms \o y.out, s, t)
<1> DEFINE id == IdFor(x, c)
           l == x.list
           r == y.list
           tr == Updated(id, Nt!Note(c.app, c.text))
           msg == [k |-> "id", id |-> id, app |-> c.app, text |-> c.text]
           us == Append(Append(ts, tr), Regrouped)
           ws == ms \o <<msg>>
<1>1. /\ y.out = <<msg>> /\ y.collided = (x.collided \/ (c.id = 0 /\ id \in DOMAIN s.given))
      /\ y.dn_id_counter = IF c.id = 0 THEN x.dn_id_counter + 1 ELSE x.dn_id_counter
      /\ n \in Items /\ n.id = id /\ n.app = c.app /\ n.text = c.text
      /\ \/ (\A i \in DOMAIN l : l[i].id # c.id) /\ r = Append(l, n)
         \/ \E at \in DOMAIN l : l[at].id = c.id /\ r = [l EXCEPT ![at] = n]
  BY Zenon DEF IsParsed
<1>2. y.expanded_group = x.expanded_group
  <2>1. y = [x EXCEPT !.list = y.list, !.timers = y.timers, !.dn_id_counter = y.dn_id_counter,
                      !.collided = y.collided, !.out = y.out, !.emit = y.emit]
    BY Zenon DEF IsParsed
  <2> QED BY <2>1 DEF Variables
<1>3. /\ l \in Seq(Items) /\ x.dn_id_counter \in Nat /\ x.dn_id_counter # 0
      /\ c.id \in Nat /\ c.app \in Apps /\ c.text \in Nat
  BY DEF Variables, Ids_
<1>4. \A i \in DOMAIN l : l[i] \in Items /\ l[i].id \in Nat /\ l[i].id # 0 /\ l[i].app \in Apps
  <2> HIDE DEF l
  <2>1. \A i \in DOMAIN l : l[i] \in Items
    BY <1>3
  <2> QED BY <2>1 DEF Items, Ids_
<1>5. id \in Ids_ /\ (c.id = 0 => id = x.dn_id_counter) /\ (c.id # 0 => id = c.id)
  BY <1>3 DEF IdFor, Ids_
<1>6. c.id = 0 => id \notin DOMAIN s.given
  BY <1>1
<1>7. /\ Apart(l) /\ Fresh(x, ms, s) /\ OneOwner(x, ms, s) /\ Expanded(x)
      /\ Tells(TriggerLog(ts), t, l) /\ Tells(MessageLog(ms), s.open, l)
  BY Zenon DEF Fit
<1> HIDE DEF id, l, r, ws, us
<1>8. ~Unused(x, s, id) \/ c.id # 0
  BY <1>3, <1>5, <1>6 DEF Unused
<1>9. \A b \in Apps : Owns(x, ms, s, b, id) => b = c.app
  <2>1. CASE c.id # 0
    <3>1. Owns(x, ms, s, c.app, id)
      BY <1>5, <2>1, Zenon DEF Owns
    <3> QED BY <1>3, <1>5, <1>7, <3>1, Zenon DEF OneOwner
  <2>2. CASE c.id = 0
    <3>1. \A i \in DOMAIN l : l[i].id # id
      BY <1>7, <1>8, <2>2, Zenon DEF Fresh, l
    <3>2. \A i \in DOMAIN ms : ms[i].k = "id" => ms[i].id # id
      BY <1>7, <1>8, <2>2, Zenon DEF Fresh
    <3>3. id \notin DOMAIN s.given
      BY <1>6, <2>2
    <3> QED BY <3>1, <3>2, <3>3, Zenon DEF Owns, l
  <2> QED BY <2>1, <2>2
<1>10. /\ Apart(r) /\ Others(l, r, id) /\ IsSo(r, id, TRUE, Nt!Note(c.app, c.text))
       /\ \A j \in DOMAIN r : r[j] = n \/ \E i \in DOMAIN l : r[j] = l[i]
       /\ \A i \in DOMAIN l : \E j \in DOMAIN r : r[j].app = l[i].app
  <2>1. CASE (\A i \in DOMAIN l : l[i].id # c.id) /\ r = Append(l, n)
    <3>1. \A i \in DOMAIN l : l[i].id # id
      <4>1. CASE c.id # 0
        BY <1>5, <2>1, <4>1
      <4>2. CASE c.id = 0
        BY <1>7, <1>8, <4>2, Zenon DEF Fresh, l
      <4> QED BY <4>1, <4>2
    <3>2. /\ Len(l) \in Nat /\ DOMAIN l = 1..Len(l) /\ DOMAIN r = 1..Len(l) + 1
          /\ r[Len(l) + 1] = n /\ \A i \in 1..Len(l) : r[i] = l[i]
      BY <1>1, <1>3, <2>1
    <3>3. /\ \A i \in DOMAIN l : i \in DOMAIN r /\ r[i] = l[i]
          /\ \A j \in DOMAIN r : j = Len(l) + 1 \/ (j \in DOMAIN l /\ r[j] = l[j])
          /\ Len(l) + 1 \in DOMAIN r
      BY <3>2
    <3> DEFINE top == Len(l) + 1
    <3>4. r[top] = n /\ n.id = id /\ n.app = c.app /\ n.text = c.text
      BY <1>1, <3>2
    <3> HIDE DEF top
    <3>5. /\ \A i \in DOMAIN l : i \in DOMAIN r /\ r[i] = l[i]
          /\ \A j \in DOMAIN r : j = top \/ (j \in DOMAIN l /\ r[j] = l[j])
          /\ top \in DOMAIN r
      BY <3>3, Zenon DEF top
    <3>6. Apart(r)
      <4> SUFFICES ASSUME NEW i \in DOMAIN r, NEW j \in DOMAIN r, r[i].id = r[j].id PROVE i = j
        BY Zenon DEF Apart
      <4>1. CASE i = top /\ j # top
        BY <3>1, <3>4, <3>5, <4>1, Zenon
      <4>2. CASE i # top /\ j = top
        BY <3>1, <3>4, <3>5, <4>2, Zenon
      <4>3. CASE i # top /\ j # top
        BY <1>7, <3>5, <4>3, Zenon DEF Apart
      <4> QED BY <4>1, <4>2, <4>3
    <3>7. Others(l, r, id)
      <4>1. ASSUME NEW i \in DOMAIN l
            PROVE \E j \in DOMAIN r : r[j].id = l[i].id /\ r[j].app = l[i].app /\ r[j].text = l[i].text
        BY <3>5, Zenon
      <4>2. ASSUME NEW j \in DOMAIN r, r[j].id # id
            PROVE \E i \in DOMAIN l : r[j].id = l[i].id /\ r[j].app = l[i].app /\ r[j].text = l[i].text
        <5>1. j \in DOMAIN l /\ r[j] = l[j]
          BY <3>4, <3>5, <4>2, Zenon
        <5> QED BY <5>1, Zenon
      <4> QED BY <4>1, <4>2, Zenon DEF Others
    <3>8. IsSo(r, id, TRUE, Nt!Note(c.app, c.text))
      <4>1. \A j \in DOMAIN r : r[j].id = id => j = top
        BY <3>1, <3>5, Zenon
      <4> QED BY <3>4, <3>5, <4>1, Zenon DEF IsSo
    <3> QED BY <3>4, <3>5, <3>6, <3>7, <3>8, Zenon
  <2>2. CASE \E at \in DOMAIN l : l[at].id = c.id /\ r = [l EXCEPT ![at] = n]
    <3> PICK at \in DOMAIN l : l[at].id = c.id /\ r = [l EXCEPT ![at] = n]
      BY <2>2
    <3>1. c.id # 0 /\ l[at].id = id
      BY <1>4, <1>5
    <3>2. DOMAIN r = DOMAIN l /\ r[at] = n /\ \A i \in DOMAIN l : i # at => r[i] = l[i]
      BY <1>3
    <3>3. n.id = id /\ n.app = c.app /\ n.text = c.text /\ l[at].app = c.app
      <4>1. Owns(x, ms, s, l[at].app, id)
        BY <3>1, Zenon DEF Owns, l
      <4> QED BY <1>1, <1>4, <1>9, <4>1
    <3>4. Apart(r)
      <4>1. \A i \in DOMAIN l : r[i].id = l[i].id
        BY <3>1, <3>2, <3>3
      <4>2. \A i, j \in DOMAIN l : l[i].id = l[j].id => i = j
        BY <1>7, Zenon DEF Apart
      <4> QED BY <3>2, <4>1, <4>2 DEF Apart
    <3>5. Others(l, r, id)
      <4>1. ASSUME NEW i \in DOMAIN l, l[i].id # id
            PROVE \E j \in DOMAIN r : r[j].id = l[i].id /\ r[j].app = l[i].app /\ r[j].text = l[i].text
        BY <3>1, <3>2, <4>1, Zenon
      <4>2. ASSUME NEW j \in DOMAIN r, r[j].id # id
            PROVE \E i \in DOMAIN l : r[j].id = l[i].id /\ r[j].app = l[i].app /\ r[j].text = l[i].text
        <5>1. j \in DOMAIN l /\ r[j] = l[j]
          BY <3>2, <3>3, <4>2
        <5> QED BY <5>1, Zenon
      <4> QED BY <4>1, <4>2, Zenon DEF Others
    <3>6. IsSo(r, id, TRUE, Nt!Note(c.app, c.text))
      <4>1. \A j \in DOMAIN r : r[j].id = id => j = at
        <5> SUFFICES ASSUME NEW j \in DOMAIN r, r[j].id = id, j # at PROVE FALSE
          OBVIOUS
        <5>1. j \in DOMAIN l /\ l[j].id = l[at].id
          BY <3>1, <3>2
        <5> QED BY <1>7, <5>1 DEF Apart
      <4> QED BY <3>2, <3>3, <4>1, Zenon DEF IsSo
    <3>7. \A j \in DOMAIN r : r[j] = n \/ \E i \in DOMAIN l : r[j] = l[i]
      BY <3>2, Zenon
    <3>8. \A i \in DOMAIN l : \E j \in DOMAIN r : r[j].app = l[i].app
      BY <3>2, <3>3, Zenon
    <3> QED BY <3>4, <3>5, <3>6, <3>7, <3>8, Zenon
  <2>3. \/ (\A i \in DOMAIN l : l[i].id # c.id) /\ r = Append(l, n)
        \/ \E at \in DOMAIN l : l[at].id = c.id /\ r = [l EXCEPT ![at] = n]
    BY <1>1, Zenon DEF l, r
  <2> QED BY <2>1, <2>2, <2>3, Zenon
<1>11. tr \in NotesTriggers /\ OfTrigger(tr) = Entry(id, TRUE, Nt!Note(c.app, c.text))
  BY <1>3, <1>5 DEF Updated, NotesTriggers, OfTrigger, Notes, Nt!Note
<1>12. msg \in Messages /\ OfMessage(msg) = Entry(id, TRUE, Nt!Note(c.app, c.text))
  BY <1>3, <1>5 DEF Messages, OfMessage
<1>13. /\ Entry(id, TRUE, Nt!Note(c.app, c.text)).id = id /\ Entry(id, TRUE, Nt!Note(c.app, c.text)).on = TRUE
       /\ Entry(id, TRUE, Nt!Note(c.app, c.text)).note = Nt!Note(c.app, c.text)
  BY DEF Entry
<1>14. Tells(TriggerLog(us), t, r)
  <2> HIDE DEF tr
  <2> QED BY <1>5, <1>7, <1>10, <1>11, <1>13, TriggersTell DEF us
<1>15. Tells(MessageLog(ws), s.open, r)
  <2> HIDE DEF msg
  <2> QED BY <1>5, <1>7, <1>10, <1>12, <1>13, MessagesTell DEF ws
<1>16. \A j \in DOMAIN ws : ws[j] = msg \/ \E i \in DOMAIN ms : ws[j] = ms[i]
  <2> HIDE DEF msg
  <2>1. DOMAIN ws = 1..Len(ms) + 1 /\ Len(ms) \in Nat /\ DOMAIN ms = 1..Len(ms)
        /\ ws[Len(ms) + 1] = msg /\ \A i \in 1..Len(ms) : ws[i] = ms[i]
    BY <1>12 DEF ws
  <2>2. \A j \in 1..Len(ms) + 1 : j = Len(ms) + 1 \/ j \in 1..Len(ms)
    BY <2>1
  <2> QED BY <2>1, <2>2, Zenon
<1>17. Fresh(y, ws, s)
  <2>1. \A j \in Nat : Unused(x, s, j) => Unused(y, s, j)
    BY <1>1, <1>3 DEF Unused
  <2>2. Unused(y, s, id)
    BY <1>1, <1>3, <1>5 DEF Unused
  <2>3. ASSUME NEW j \in DOMAIN r PROVE Unused(y, s, r[j].id)
    <3>1. CASE r[j] = n
      BY <1>1, <2>2, <3>1
    <3>2. CASE \E i \in DOMAIN l : r[j] = l[i]
      <4>1. PICK i \in DOMAIN l : r[j] = l[i]
        BY <3>2
      <4>2. Unused(x, s, l[i].id)
        BY <1>7, Zenon DEF Fresh, l
      <4> QED BY <1>4, <2>1, <4>1, <4>2, Zenon
    <3> QED BY <1>10, <3>1, <3>2, Zenon
  <2>4. ASSUME NEW j \in DOMAIN ws, ws[j].k = "id" PROVE Unused(y, s, ws[j].id)
    <3>1. CASE ws[j] = msg
      BY <2>2, <3>1
    <3>2. CASE \E i \in DOMAIN ms : ws[j] = ms[i]
      <4>1. PICK i \in DOMAIN ms : ws[j] = ms[i]
        BY <3>2
      <4>2. Unused(x, s, ms[i].id)
        BY <1>7, <2>4, <4>1, Zenon DEF Fresh
      <4>3. ms[i].id \in Nat
        <5>1. ms[i] \in Messages
          OBVIOUS
        <5> QED BY <5>1 DEF Messages, Ids_
      <4> QED BY <2>1, <4>1, <4>2, <4>3, Zenon
    <3> QED BY <1>16, <3>1, <3>2, Zenon
  <2> QED BY <2>3, <2>4, Zenon DEF Fresh, r
<1>18. OneOwner(y, ws, s)
  <2>1. \A j \in Ids_, a \in Apps : Owns(y, ws, s, a, j) => Owns(x, ms, s, a, j) \/ (j = id /\ a = c.app)
    <3> SUFFICES ASSUME NEW j \in Ids_, NEW a \in Apps, Owns(y, ws, s, a, j)
                 PROVE  Owns(x, ms, s, a, j) \/ (j = id /\ a = c.app)
      BY Zenon
    <3>1. CASE j \in DOMAIN s.given /\ s.given[j] = a
      BY <3>1, Zenon DEF Owns
    <3>2. CASE \E i \in DOMAIN r : r[i].id = j /\ r[i].app = a
      <4>1. PICK i \in DOMAIN r : r[i].id = j /\ r[i].app = a
        BY <3>2
      <4>2. CASE r[i] = n
        BY <1>1, <4>1, <4>2
      <4>3. CASE \E k \in DOMAIN l : r[i] = l[k]
        BY <4>1, <4>3, Zenon DEF Owns, l
      <4> QED BY <1>10, <4>2, <4>3, Zenon
    <3>3. CASE \E i \in DOMAIN ws : ws[i].k = "id" /\ ws[i].id = j /\ ws[i].app = a
      <4>1. PICK i \in DOMAIN ws : ws[i].k = "id" /\ ws[i].id = j /\ ws[i].app = a
        BY <3>3
      <4>2. CASE ws[i] = msg
        BY <4>1, <4>2
      <4>3. CASE \E k \in DOMAIN ms : ws[i] = ms[k]
        BY <4>1, <4>3, Zenon DEF Owns
      <4> QED BY <1>16, <4>2, <4>3, Zenon
    <3> QED BY <3>1, <3>2, <3>3, Zenon DEF Owns, r
  <2>2. ASSUME NEW j \in Ids_, NEW a \in Apps, NEW b \in Apps, Owns(y, ws, s, a, j), Owns(y, ws, s, b, j)
        PROVE  a = b
    <3>1. Owns(x, ms, s, a, j) \/ (j = id /\ a = c.app)
      BY <2>1, <2>2, Zenon
    <3>2. Owns(x, ms, s, b, j) \/ (j = id /\ b = c.app)
      BY <2>1, <2>2, Zenon
    <3>3. CASE j = id
      <4>1. a = c.app /\ b = c.app
        BY <1>9, <3>1, <3>2, <3>3, Zenon
      <4> QED BY <4>1
    <3>4. CASE j # id
      BY <1>7, <3>1, <3>2, <3>4, Zenon DEF OneOwner
    <3> QED BY <3>3, <3>4
  <2> QED BY <2>2, Zenon DEF OneOwner
<1>19. Expanded(y)
  BY <1>2, <1>7, <1>10, Zenon DEF Expanded, l, r
<1> QED BY <1>1, <1>10, <1>14, <1>15, <1>17, <1>18, <1>19, Zenon DEF Fit, id, r, us, ws

----------------------------------------------------------------------------
(* The invariant is kept *)

LEMMA NotesTailOf ==
  ASSUME NEW S, NEW w \in Seq(S), w # <<>>
  PROVE  /\ Tail(w) \in Seq(S) /\ Len(w) \in Nat /\ DOMAIN w = 1..Len(w) /\ Head(w) = w[1] /\ 1 \in DOMAIN w
         /\ Len(w) = Len(Tail(w)) + 1 /\ DOMAIN Tail(w) = 1..Len(Tail(w)) /\ Len(Tail(w)) \in Nat
         /\ \A k \in DOMAIN Tail(w) : k + 1 \in DOMAIN w /\ Tail(w)[k] = w[k + 1]
OBVIOUS

\* What the clients' calls keep while the clients wait
CallsAre(calls, given, now) ==
  /\ \A i \in DOMAIN calls : calls[i].k = "notify" => calls[i].text \in 1..now
  /\ \A i \in DOMAIN calls : calls[i].id # 0 => calls[i].id \in DOMAIN given
CallsOwn(calls, given) ==
  \A i \in DOMAIN calls : calls[i].k = "notify" /\ calls[i].id # 0 => calls[i].app = given[calls[i].id]

LEMMA CallsTaken ==
  ASSUME NEW w \in Seq(Calls), NEW v, v = w \/ (w # <<>> /\ v = Tail(w)),
         NEW given, NEW now \in Nat, NEW then \in Nat, now <= then, CallsAre(w, given, now)
  PROVE  v \in Seq(Calls) /\ CallsAre(v, given, then) /\ (CallsOwn(w, given) => CallsOwn(v, given))
<1>1. v \in Seq(Calls) /\ \A i \in DOMAIN v : \E j \in DOMAIN w : v[i] = w[j]
  <2>1. CASE v = w
    BY <2>1
  <2>2. CASE w # <<>> /\ v = Tail(w)
    BY <2>2, NotesTailOf, Zenon
  <2> QED BY <2>1, <2>2
<1>2. CallsAre(v, given, then)
  <2>1. ASSUME NEW i \in DOMAIN v, v[i].k = "notify" PROVE v[i].text \in 1..then
    <3>1. PICK j \in DOMAIN w : v[i] = w[j]
      BY <1>1, Zenon
    <3>2. v[i].text \in 1..now
      BY <2>1, <3>1, Zenon DEF CallsAre
    <3> QED BY <3>2
  <2>2. ASSUME NEW i \in DOMAIN v, v[i].id # 0 PROVE v[i].id \in DOMAIN given
    <3>1. PICK j \in DOMAIN w : v[i] = w[j]
      BY <1>1, Zenon
    <3> QED BY <2>2, <3>1, Zenon DEF CallsAre
  <2> QED BY <2>1, <2>2, Zenon DEF CallsAre
<1>3. CallsOwn(w, given) => CallsOwn(v, given)
  <2> SUFFICES ASSUME CallsOwn(w, given), NEW i \in DOMAIN v, v[i].k = "notify", v[i].id # 0
               PROVE  v[i].app = given[v[i].id]
    BY Zenon DEF CallsOwn
  <2>1. PICK j \in DOMAIN w : v[i] = w[j]
    BY <1>1, Zenon
  <2> QED BY <2>1, Zenon DEF CallsOwn
<1> QED BY <1>1, <1>2, <1>3

\* A list whose memory is as old as the calls
ListDated(l, now) == \A i \in DOMAIN l : l[i].alloc \in 1..now /\ l[i].timeout_handle \in 0..now

\* What a handler of a call or of a timer has to see to
LEMMA HandlerKeeps ==
  ASSUME NotesAllowed, NotesInv, UNCHANGED <<s, rows>>, q' = q \/ (q # <<>> /\ q' = Tail(q)),
         steps' \in Nat, steps <= steps', steps' <= MaxNotes,
         m' \in Variables, out' \in Seq(Messages), trig' \in Seq(NotesTriggers), Drawn',
         ListDated(m'.list, steps'),
         ~m'.collided => ~m.collided /\ Fit(m', trig', out', s, RowTable)
  PROVE  NotesInv'
<1>1. steps \in Nat /\ q \in Seq(Calls) /\ CallsAre(q, s.given, steps)
  <2>1. steps \in 0..MaxNotes /\ q \in Seq(Calls)
    BY Zenon DEF NotesInv, Types
  <2>2. CallsAre(q, s.given, steps)
    BY Zenon DEF NotesInv, Dated, Asked, CallsAre
  <2> QED BY <2>1, <2>2
<1>2. q' \in Seq(Calls) /\ CallsAre(q', s.given, steps') /\ (CallsOwn(q, s.given) => CallsOwn(q', s.given))
  BY <1>1, CallsTaken
<1>3. Types'
  <2>1. steps' \in 0..MaxNotes
    BY DEF NotesAllowed
  <2>2. s' = s /\ rows' = rows
    OBVIOUS
  <2>3. /\ s = [open |-> s.open, given |-> s.given] /\ IsTable(s.open) /\ IsTable(s.given)
        /\ DOMAIN s.open \subseteq DOMAIN s.given /\ DOMAIN s.given \subseteq Ids_
        /\ \A id \in DOMAIN s.given : s.given[id] \in Apps
        /\ rows = [row |-> rows.row, active |-> rows.active, count |-> rows.count]
        /\ IsTable(rows.row) /\ DOMAIN rows.row \subseteq Ids_
        /\ \A id \in DOMAIN rows.row :
             rows.row[id] = [note |-> rows.row[id].note, group |-> rows.row[id].group, count |-> rows.row[id].count]
    BY Zenon DEF NotesInv, Types
  <2> QED BY <1>2, <2>1, <2>2, <2>3, Zenon DEF Types
<1>4. Dated' /\ Asked'
  <2>1. s'.given = s.given
    OBVIOUS
  <2> QED BY <1>2, <2>1, Zenon DEF Dated, Asked, CallsAre, ListDated
<1>5. ~m'.collided => Good'
  <2> SUFFICES ASSUME ~m'.collided PROVE Good'
    OBVIOUS
  <2>1. CallsOwn(q, s.given)
    BY Zenon DEF NotesInv, Good, OwnCalls, CallsOwn
  <2>2. OwnCalls'
    <3>1. s'.given = s.given
      OBVIOUS
    <3> QED BY <1>2, <2>1, <3>1, Zenon DEF OwnCalls, CallsOwn
  <2>3. Fit(m', trig', out', s', RowTable')
    <3>1. s' = s /\ RowTable' = RowTable
      BY DEF RowTable
    <3> QED BY <3>1
  <2> QED BY <2>2, <2>3 DEF Good
<1> QED BY <1>3, <1>4, <1>5 DEF NotesInv

\* Fit is about the list, the expanded group and the counter
LEMMA SameFit ==
  ASSUME NEW x, NEW y, NEW ts, NEW ms, NEW c, NEW t, Fit(y, ts, ms, c, t),
         x.list = y.list, x.expanded_group = y.expanded_group, x.dn_id_counter = y.dn_id_counter
  PROVE  Fit(x, ts, ms, c, t)
<1>1. \A id : Unused(y, c, id) => Unused(x, c, id)
  BY DEF Unused
<1>2. \A a, id : Owns(x, ms, c, a, id) => Owns(y, ms, c, a, id)
  BY Zenon DEF Owns
<1>3. Fresh(x, ms, c)
  BY <1>1, Zenon DEF Fresh, Fit
<1>4. OneOwner(x, ms, c)
  BY <1>2, Zenon DEF OneOwner, Fit
<1>5. Expanded(x)
  BY Zenon DEF Expanded, Fit
<1> QED BY <1>3, <1>4, <1>5, Zenon DEF Fit

\* The triggers that wait end with one that has all rows drawn
TrigEnds == trig \in Seq(NotesTriggers) /\ (trig # <<>> => Nt!Last(trig) = Regrouped)

LEMMA EndsSo == ASSUME NotesInv PROVE TrigEnds
BY Zenon DEF NotesInv, Types, Drawn, TrigEnds

LEMMA RungSo ==
  ASSUME TrigEnds, NEW a \in NotesTriggers, a # Regrouped, NEW e, e = <<a, Regrouped>>, trig' = NotesRung(trig, e)
  PROVE  /\ trig' = Append(Append(trig, a), Regrouped) /\ trig' \in Seq(NotesTriggers)
         /\ trig' # <<>> /\ Nt!Last(trig') = Regrouped
<1>1. trig' = Append(Append(trig, a), Regrouped)
  BY TwoRung DEF TrigEnds
<1> DEFINE one == Append(trig, a)
<1>2. one \in Seq(NotesTriggers) /\ Regrouped \in NotesTriggers
  BY DEF TrigEnds, NotesTriggers
<1> HIDE DEF one
<1> DEFINE two == Append(one, Regrouped)
<1>3. /\ two \in Seq(NotesTriggers) /\ Len(two) = Len(one) + 1 /\ Len(one) \in Nat
      /\ two[Len(one) + 1] = Regrouped
  <2> HIDE DEF Regrouped
  <2> QED BY <1>2
<1> HIDE DEF two
<1>4. two # <<>> /\ Nt!Last(two) = Regrouped
  BY <1>3 DEF Nt!Last
<1> QED BY <1>1, <1>3, <1>4, Zenon DEF one, two

LEMMA CloseKeeps ==
  ASSUME NotesAllowed, NotesInv, NEW x \in Variables, NEW id \in Ids_, Nt!DoesInTurn(Nt!Close(x, id)),
         UNCHANGED <<s, rows>>, q' = q \/ (q # <<>> /\ q' = Tail(q)),
         steps' \in Nat, steps <= steps', steps' <= MaxNotes, ListDated(x.list, steps'),
         ~x.collided => ~m.collided /\ Fit(x, trig, out, s, RowTable)
  PROVE  NotesInv'
<1> DEFINE y == Nt!Close(x, id)
           tr == Nt!Trigger("notification-removed", id)
           msg == [k |-> "closed", id |-> id]
<1>1. IsClosed(x, id, y)
  BY Closing
<1>2. m' = [y EXCEPT !.out = <<>>, !.emit = <<>>] /\ out' = out \o y.out /\ trig' = NotesRung(trig, y.emit)
  BY NotesDone, Zenon
<1> HIDE DEF y
<1>3. TrigEnds /\ out \in Seq(Messages)
  BY EndsSo, Zenon DEF NotesInv, Types
<1>4. /\ y.emit = <<tr, Regrouped>> /\ y.timers \in Timers
      /\ y = [x EXCEPT !.list = y.list, !.timers = y.timers, !.expanded_group = y.expanded_group,
                       !.out = y.out, !.emit = y.emit]
      /\ \/ /\ \A i \in DOMAIN x.list : x.list[i].id # id
            /\ y.list = x.list /\ y.out = <<>> /\ y.expanded_group = x.expanded_group
         \/ \E at \in DOMAIN x.list :
              /\ x.list[at].id = id /\ y.list \in Seq(Items) /\ Without(x.list, y.list, at)
              /\ y.out = <<msg>>
              /\ y.expanded_group = IF /\ x.list[at].app = x.expanded_group
                                       /\ \A i \in DOMAIN y.list : y.list[i].app # x.expanded_group
                                    THEN "none" ELSE x.expanded_group
  BY <1>1, Zenon DEF IsClosed
<1>5. tr \in NotesTriggers /\ tr # Regrouped /\ msg \in Messages
  BY DEF Nt!Trigger, NotesTriggers, Regrouped, Messages
<1>6. /\ trig' = Append(Append(trig, tr), Regrouped) /\ trig' \in Seq(NotesTriggers)
      /\ trig' # <<>> /\ Nt!Last(trig') = Regrouped
  <2> HIDE DEF tr
  <2> QED BY <1>2, <1>3, <1>4, <1>5, RungSo
<1>7. x.list \in Seq(Items) /\ x.expanded_group \in Apps \cup {"none"}
  BY DEF Variables
<1>8. y.list \in Seq(Items) /\ y.expanded_group \in Apps \cup {"none"} /\ out' \in Seq(Messages)
  <2>1. CASE y.list = x.list /\ y.out = <<>> /\ y.expanded_group = x.expanded_group
    BY <1>2, <1>3, <1>7, <2>1
  <2>2. CASE \E at \in DOMAIN x.list :
              /\ x.list[at].id = id /\ y.list \in Seq(Items) /\ Without(x.list, y.list, at)
              /\ y.out = <<msg>>
              /\ y.expanded_group = IF /\ x.list[at].app = x.expanded_group
                                       /\ \A i \in DOMAIN y.list : y.list[i].app # x.expanded_group
                                    THEN "none" ELSE x.expanded_group
    <3>1. y.list \in Seq(Items) /\ y.out = <<msg>> /\ y.expanded_group \in {"none", x.expanded_group}
      BY <2>2
    <3> HIDE DEF msg
    <3> QED BY <1>2, <1>3, <1>5, <1>7, <3>1
  <2> QED BY <1>4, <2>1, <2>2, Zenon
<1>9. ListDated(y.list, steps')
  <2> SUFFICES ASSUME NEW j \in DOMAIN y.list
               PROVE  y.list[j].alloc \in 1..steps' /\ y.list[j].timeout_handle \in 0..steps'
    BY Zenon DEF ListDated
  <2>1. \E i \in DOMAIN x.list : y.list[j] = x.list[i]
    <3>1. CASE y.list = x.list
      BY <3>1, Zenon
    <3>2. CASE \E at \in DOMAIN x.list : Without(x.list, y.list, at)
      <4>1. PICK at \in DOMAIN x.list : Without(x.list, y.list, at)
        BY <3>2
      <4>2. \A i \in DOMAIN y.list : \E k \in DOMAIN x.list : k # at /\ y.list[i] = x.list[k]
        BY <1>7, <1>8, <4>1, WithoutIs
      <4> QED BY <4>2, Zenon
    <3> QED BY <1>4, <3>1, <3>2, Zenon
  <2> QED BY <2>1, Zenon DEF ListDated
<1>10. m' = [x EXCEPT !.list = y.list, !.timers = y.timers, !.expanded_group = y.expanded_group]
  <2>1. m' = [x EXCEPT !.list = y.list, !.timers = y.timers, !.expanded_group = y.expanded_group,
                       !.out = <<>>, !.emit = <<>>]
    BY <1>2, <1>4 DEF Variables
  <2>2. x.out = <<>> /\ x.emit = <<>>
    BY DEF Variables
  <2> QED BY <2>1, <2>2 DEF Variables
<1>11. m' \in Variables
  BY <1>4, <1>8, <1>10 DEF Variables
<1>12. /\ m'.list = y.list /\ m'.collided = x.collided /\ m'.expanded_group = y.expanded_group
       /\ m'.dn_id_counter = x.dn_id_counter /\ y.dn_id_counter = x.dn_id_counter
  BY <1>4, <1>10 DEF Variables
<1>13. ~m'.collided => ~m.collided /\ Fit(m', trig', out', s, RowTable)
  <2> SUFFICES ASSUME ~x.collided PROVE ~m.collided /\ Fit(m', trig', out', s, RowTable)
    BY <1>12
  <2>1. ~m.collided /\ Fit(x, trig, out, s, RowTable)
    OBVIOUS
  <2>2. Fit(y, trig', out', s, RowTable)
    <3>1. Fit(y, Append(Append(trig, tr), Regrouped), out \o y.out, s, RowTable)
      BY <1>1, <1>3, <2>1, ClosingFits DEF TrigEnds
    <3> QED BY <1>2, <1>6, <3>1, Zenon
  <2>3. Fit(m', trig', out', s, RowTable)
    BY <1>12, <2>2, SameFit
  <2> QED BY <2>1, <2>3
<1>14. Drawn'
  BY <1>6 DEF Drawn
<1>15. ListDated(m'.list, steps')
  BY <1>9, <1>12
<1> QED BY <1>6, <1>8, <1>11, <1>13, <1>14, <1>15, HandlerKeeps, Zenon

LEMMA ParseKeeps ==
  ASSUME NotesAllowed, NotesInv, q # <<>>, q' = Tail(q), Head(q).k = "notify",
         Nt!DoesInTurn(Nt!Parse(m, Head(q))), UNCHANGED <<s, rows, steps>>
  PROVE  NotesInv'
<1> DEFINE c == Head(q)
           y == Nt!Parse(m, c)
           tr == Updated(IdFor(m, c), Nt!Note(c.app, c.text))
           msg == [k |-> "id", id |-> IdFor(m, c), app |-> c.app, text |-> c.text]
<1>1. /\ m \in Variables /\ q \in Seq(Calls) /\ out \in Seq(Messages) /\ TrigEnds
      /\ steps \in Nat /\ steps <= MaxNotes /\ MaxNotes \in Nat
  <2>1. m \in Variables /\ q \in Seq(Calls) /\ out \in Seq(Messages) /\ TrigEnds /\ steps \in 0..MaxNotes
    BY EndsSo, Zenon DEF NotesInv, Types
  <2> QED BY <2>1 DEF NotesAllowed
<1>2. c \in Calls /\ 1 \in DOMAIN q /\ c = q[1]
  BY <1>1
<1>3. c \in [k : {"notify"}, id : Nat, app : Apps, text : Nat, timed : BOOLEAN]
  <2>1. c.k = "notify"
    OBVIOUS
  <2> HIDE DEF c
  <2> QED BY <1>2, <2>1 DEF Calls
<1>4. PICK n : IsParsed(m, c, y, n)
  BY <1>1, <1>3, Parsing
<1>5. m' = [y EXCEPT !.out = <<>>, !.emit = <<>>] /\ out' = out \o y.out /\ trig' = NotesRung(trig, y.emit)
  BY NotesDone, Zenon
<1>6. c.text \in 1..steps /\ (c.id # 0 => c.id \in DOMAIN s.given)
  <2>1. c.k = "notify"
    OBVIOUS
  <2> HIDE DEF c
  <2> QED BY <1>2, <2>1, Zenon DEF NotesInv, Dated, Asked
<1> HIDE DEF y, c
<1>7. /\ y.emit = <<tr, Regrouped>> /\ y.timers \in Timers /\ y.out = <<msg>>
      /\ y = [m EXCEPT !.list = y.list, !.timers = y.timers, !.dn_id_counter = y.dn_id_counter,
                       !.collided = y.collided, !.out = y.out, !.emit = y.emit]
      /\ y.collided = (m.collided \/ (c.id = 0 /\ IdFor(m, c) \in DOMAIN s.given))
      /\ y.dn_id_counter = IF c.id = 0 THEN m.dn_id_counter + 1 ELSE m.dn_id_counter
      /\ n \in Items
      /\ \/ /\ \A i \in DOMAIN m.list : m.list[i].id # c.id
            /\ y.list = Append(m.list, n) /\ n.alloc = c.text /\ n.timeout_handle \in {0, c.text}
         \/ \E at \in DOMAIN m.list :
              /\ m.list[at].id = c.id /\ y.list = [m.list EXCEPT ![at] = n]
              /\ n.alloc = m.list[at].alloc /\ n.timeout_handle \in {m.list[at].timeout_handle, c.text}
  BY <1>4, Zenon DEF IsParsed
<1>8. m.list \in Seq(Items) /\ m.dn_id_counter \in Nat \ {0} /\ m.collided \in BOOLEAN
  BY <1>1 DEF Variables, Ids_
<1>9. c.id \in Nat /\ c.app \in Apps /\ c.text \in Nat /\ IdFor(m, c) \in Ids_
  BY <1>3, <1>8 DEF IdFor, Ids_
<1>10. tr \in NotesTriggers /\ tr # Regrouped /\ msg \in Messages
  BY <1>9 DEF Updated, NotesTriggers, Notes, Nt!Note, Messages, Regrouped, Nt!Trigger
<1>11. /\ trig' = Append(Append(trig, tr), Regrouped) /\ trig' \in Seq(NotesTriggers)
       /\ trig' # <<>> /\ Nt!Last(trig') = Regrouped
  <2> HIDE DEF tr
  <2> QED BY <1>1, <1>5, <1>7, <1>10, RungSo
<1>12. out' \in Seq(Messages)
  <2> HIDE DEF msg
  <2> QED BY <1>1, <1>5, <1>7, <1>10
<1>13. ListDated(m.list, steps)
  BY Zenon DEF NotesInv, Dated, ListDated
<1>14. y.list \in Seq(Items) /\ ListDated(y.list, steps)
  <2>1. CASE /\ y.list = Append(m.list, n) /\ n.alloc = c.text /\ n.timeout_handle \in {0, c.text}
    <3>1. n.alloc \in 1..steps /\ n.timeout_handle \in 0..steps
      BY <1>1, <1>6, <2>1
    <3>2. /\ y.list \in Seq(Items) /\ DOMAIN y.list = 1..Len(m.list) + 1 /\ Len(m.list) \in Nat
          /\ y.list[Len(m.list) + 1] = n /\ \A i \in 1..Len(m.list) : y.list[i] = m.list[i]
          /\ DOMAIN m.list = 1..Len(m.list)
      BY <1>7, <1>8, <2>1
    <3>3. \A i \in DOMAIN y.list : y.list[i] = n \/ (i \in DOMAIN m.list /\ y.list[i] = m.list[i])
      BY <3>2
    <3> QED BY <1>13, <3>1, <3>2, <3>3, Zenon DEF ListDated
  <2>2. CASE \E at \in DOMAIN m.list :
               /\ y.list = [m.list EXCEPT ![at] = n]
               /\ n.alloc = m.list[at].alloc /\ n.timeout_handle \in {m.list[at].timeout_handle, c.text}
    <3> PICK at \in DOMAIN m.list :
               /\ y.list = [m.list EXCEPT ![at] = n]
               /\ n.alloc = m.list[at].alloc /\ n.timeout_handle \in {m.list[at].timeout_handle, c.text}
      BY <2>2
    <3>0. m.list[at].alloc \in 1..steps /\ m.list[at].timeout_handle \in 0..steps
      BY <1>13, Zenon DEF ListDated
    <3>1. n.alloc \in 1..steps /\ n.timeout_handle \in 0..steps
      BY <1>1, <1>6, <3>0
    <3>2. /\ y.list \in Seq(Items) /\ DOMAIN y.list = DOMAIN m.list
          /\ \A i \in DOMAIN y.list : y.list[i] = IF i = at THEN n ELSE m.list[i]
      BY <1>7, <1>8
    <3>3. \A i \in DOMAIN y.list : y.list[i] = n \/ (i \in DOMAIN m.list /\ y.list[i] = m.list[i])
      BY <3>2
    <3> QED BY <1>13, <3>1, <3>2, <3>3, Zenon DEF ListDated
  <2> QED BY <1>7, <2>1, <2>2, Zenon
<1>15. m' = [m EXCEPT !.list = y.list, !.timers = y.timers, !.dn_id_counter = y.dn_id_counter,
                      !.collided = y.collided]
  <2>1. m' = [m EXCEPT !.list = y.list, !.timers = y.timers, !.dn_id_counter = y.dn_id_counter,
                       !.collided = y.collided, !.out = <<>>, !.emit = <<>>]
    BY <1>1, <1>5, <1>7 DEF Variables
  <2>2. m.out = <<>> /\ m.emit = <<>>
    BY <1>1 DEF Variables
  <2> QED BY <1>1, <2>1, <2>2 DEF Variables
<1>16. m' \in Variables
  <2>1. y.dn_id_counter \in Ids_ /\ y.collided \in BOOLEAN
    BY <1>7, <1>8 DEF Ids_
  <2> QED BY <1>1, <1>7, <1>14, <1>15, <2>1 DEF Variables
<1>17. /\ m'.list = y.list /\ m'.collided = y.collided /\ m'.expanded_group = y.expanded_group
       /\ m'.dn_id_counter = y.dn_id_counter
  BY <1>1, <1>7, <1>15 DEF Variables
<1>18. ~m'.collided => ~m.collided /\ Fit(m', trig', out', s, RowTable)
  <2> SUFFICES ASSUME ~y.collided PROVE ~m.collided /\ Fit(m', trig', out', s, RowTable)
    BY <1>17
  <2>1. ~m.collided
    BY <1>7
  <2>2. OwnCalls /\ Fit(m, trig, out, s, RowTable)
    BY <2>1, Zenon DEF NotesInv, Good
  <2>3. c.id # 0 => c.id \in DOMAIN s.given /\ s.given[c.id] = c.app
    <3>1. c.k = "notify"
      BY DEF c
    <3> QED BY <1>2, <1>6, <2>2, <3>1, Zenon DEF OwnCalls
  <2>4. Fit(y, Append(Append(trig, tr), Regrouped), out \o y.out, s, RowTable)
    BY <1>1, <1>3, <1>4, <2>2, <2>3, ParsingFits DEF TrigEnds
  <2>5. Fit(y, trig', out', s, RowTable)
    BY <1>5, <1>11, <2>4, Zenon
  <2>6. Fit(m', trig', out', s, RowTable)
    BY <1>17, <2>5, SameFit
  <2> QED BY <2>1, <2>6
<1>19. Drawn'
  BY <1>11 DEF Drawn
<1>20. ListDated(m'.list, steps') /\ steps' \in Nat /\ steps <= steps' /\ steps' <= MaxNotes
  BY <1>1, <1>14, <1>17
<1> QED BY <1>11, <1>12, <1>16, <1>18, <1>19, <1>20, HandlerKeeps, Zenon

\* Another group is expanded, or none
LEMMA RegroupKeeps ==
  ASSUME NotesAllowed, NotesInv, NEW app \in Apps \cup {"none"},
         app = "none" \/ \E i \in DOMAIN m.list : m.list[i].app = app,
         Nt!UserDoes(Nt!Regroup([m EXCEPT !.expanded_group = app]))
  PROVE  NotesInv'
<1> DEFINE x == [m EXCEPT !.expanded_group = app]
           y == Nt!Regroup(x)
<1>1. /\ m \in Variables /\ out \in Seq(Messages) /\ TrigEnds /\ steps \in 0..MaxNotes
  BY EndsSo, Zenon DEF NotesInv, Types
<1>2. /\ steps' = steps + 1 /\ steps < MaxNotes /\ UNCHANGED <<s, q, rows>> /\ Nt!DoesInTurn(y)
  BY Zenon DEF Nt!UserDoes
<1>3. m' = [y EXCEPT !.out = <<>>, !.emit = <<>>] /\ out' = out \o y.out /\ trig' = NotesRung(trig, y.emit)
  BY <1>2, NotesDone, Zenon
<1>4. x.emit = <<>> /\ x.out = <<>> /\ x \in Variables
  BY <1>1 DEF Variables
<1>5. y = [x EXCEPT !.emit = <<Regrouped>>]
  <2>1. y = [x EXCEPT !.emit = Append(@, Regrouped)]
    BY Zenon DEF Nt!Regroup, Nt!Emit, Regrouped
  <2> HIDE DEF x, y
  <2> QED BY <1>4, <2>1
<1>6. m' = x /\ out' = out /\ trig' = NotesRung(trig, <<Regrouped>>)
  <2>1. y.emit = <<Regrouped>> /\ y.out = <<>>
    <3> HIDE DEF x
    <3> QED BY <1>4, <1>5 DEF Variables
  <2>2. m' = x
    <3> HIDE DEF x, y
    <3> QED BY <1>3, <1>4, <1>5 DEF Variables
  <2> HIDE DEF x, y
  <2>3. out' = out
    BY <1>1, <1>3, <2>1
  <2>4. trig' = NotesRung(trig, <<Regrouped>>)
    BY <1>3, <2>1, Zenon
  <2> QED BY <2>2, <2>3, <2>4
<1>7. trig' = IF trig = <<>> THEN Append(trig, Regrouped) ELSE trig
  BY <1>1, <1>6, OneRung DEF TrigEnds
<1>8. trig' \in Seq(NotesTriggers) /\ trig' # <<>> /\ Nt!Last(trig') = Regrouped
  <2>1. CASE trig = <<>>
    <3>1. Regrouped \in NotesTriggers /\ trig' = <<Regrouped>>
      BY <1>7, <2>1 DEF NotesTriggers
    <3> QED BY <3>1 DEF Nt!Last
  <2>2. CASE trig # <<>>
    BY <1>1, <1>7, <2>2 DEF TrigEnds
  <2> QED BY <2>1, <2>2
<1>9. /\ x.list = m.list /\ x.collided = m.collided /\ x.expanded_group = app /\ x.dn_id_counter = m.dn_id_counter
  BY <1>1 DEF Variables
<1> HIDE DEF x, y
<1>10. ListDated(m'.list, steps')
  <2>1. ListDated(m.list, steps)
    BY Zenon DEF NotesInv, Dated, ListDated
  <2>2. \A n \in 1..steps : n \in 1..steps'
    BY <1>1, <1>2
  <2>3. \A n \in 0..steps : n \in 0..steps'
    BY <1>1, <1>2
  <2> QED BY <1>6, <1>9, <2>1, <2>2, <2>3, Zenon DEF ListDated
<1>11. ~m'.collided => ~m.collided /\ Fit(m', trig', out', s, RowTable)
  <2> SUFFICES ASSUME ~m.collided PROVE Fit(m', trig', out', s, RowTable)
    BY <1>6, <1>9
  <2>1. Fit(m, trig, out, s, RowTable)
    BY Zenon DEF NotesInv, Good
  <2>2. Tells(TriggerLog(trig'), RowTable, m.list)
    <3>1. Tells(TriggerLog(trig), RowTable, m.list)
      BY <2>1, Zenon DEF Fit
    <3>2. CASE trig = <<>>
      BY <1>1, <1>7, <3>1, <3>2, RegroupTells DEF TrigEnds
    <3>3. CASE trig # <<>>
      BY <1>7, <3>1, <3>3, Zenon
    <3> QED BY <3>2, <3>3
  <2>3. Expanded(x)
    BY <1>9, Zenon DEF Expanded
  <2>4. Fresh(x, out, s) /\ OneOwner(x, out, s)
    <3>1. NothingNew(m.list, x.list) /\ NoReply(out, out)
      BY <1>9, Zenon DEF NothingNew, NoReply
    <3>2. Fresh(m, out, s) /\ OneOwner(m, out, s)
      BY <2>1, Zenon DEF Fit
    <3> QED BY <1>9, <3>1, <3>2, OwnersKept
  <2>5. Fit(x, trig', out, s, RowTable)
    BY <1>9, <2>1, <2>2, <2>3, <2>4, Zenon DEF Fit
  <2> QED BY <1>6, <2>5
<1>12. Drawn'
  BY <1>8 DEF Drawn
<1>13. m' \in Variables /\ out' \in Seq(Messages) /\ steps' \in Nat /\ steps <= steps' /\ steps' <= MaxNotes
  BY <1>1, <1>2, <1>4, <1>6 DEF NotesAllowed
<1> QED BY <1>2, <1>8, <1>10, <1>11, <1>12, <1>13, HandlerKeeps, Zenon

LEMMA ExpandsKeeps == ASSUME NotesAllowed, NotesInv, NEW id, Nt!UserExpands(id) PROVE NotesInv'
<1> DEFINE at == Nt!Lookup(m, id)
<1>1. m.list \in Seq(Items)
  BY DEF NotesInv, Types, Variables
<1>2. at # 0 /\ Nt!UserDoes(Nt!Regroup([m EXCEPT !.expanded_group = m.list[at].app]))
  BY Zenon DEF Nt!UserExpands
<1>3. at \in DOMAIN m.list
  BY <1>1, <1>2, Found, Zenon
<1> HIDE DEF at
<1>4. m.list[at].app \in Apps
  <2>1. m.list[at] \in Items
    BY <1>1, <1>3
  <2> QED BY <2>1 DEF Items
<1>5. \E i \in DOMAIN m.list : m.list[i].app = m.list[at].app
  BY <1>3, Zenon
<1> DEFINE app == m.list[at].app
<1>6. app \in Apps \cup {"none"} /\ \E i \in DOMAIN m.list : m.list[i].app = app
  BY <1>4, <1>5
<1>7. Nt!UserDoes(Nt!Regroup([m EXCEPT !.expanded_group = app]))
  BY <1>2, Zenon
<1> HIDE DEF app
<1> QED BY <1>6, <1>7, RegroupKeeps

LEMMA CollapsesKeeps == ASSUME NotesAllowed, NotesInv, Nt!UserCollapses PROVE NotesInv'
<1>1. Nt!UserDoes(Nt!Regroup([m EXCEPT !.expanded_group = "none"]))
  BY Zenon DEF Nt!UserCollapses
<1> DEFINE app == "none"
<1>2. app \in Apps \cup {"none"} /\ app = "none" /\ Nt!UserDoes(Nt!Regroup([m EXCEPT !.expanded_group = app]))
  BY <1>1
<1> HIDE DEF app
<1> QED BY <1>2, RegroupKeeps

\* What leaves the list, the groups and the triggers as they are
LEMMA DrawnStill ==
  ASSUME NotesInv, m'.list = m.list, m'.expanded_group = m.expanded_group, trig' = trig, rows' = rows
  PROVE  Drawn'
<1>1. CASE trig # <<>>
  BY <1>1, Zenon DEF NotesInv, Drawn
<1>2. CASE trig = <<>>
  <2>1. rows.active = m.expanded_group /\ rows.count = Len(m.list)
        /\ \A id \in DOMAIN rows.row : rows.row[id] = Nt!Row(m, id, rows.row[id].note)
    BY <1>2, Zenon DEF NotesInv, Drawn
  <2>2. \A id, note : Nt!Row(m', id, note) = Nt!Row(m, id, note)
    BY Zenon DEF Nt!Row, Nt!Group, Nt!Count, Nt!Lookup, Nt!Members
  <2> QED BY <1>2, <2>1, <2>2, Zenon DEF Drawn
<1> QED BY <1>1, <1>2

LEMMA ActsKeeps == ASSUME NotesAllowed, NotesInv, NEW id, Nt!UserActs(id) PROVE NotesInv'
<1> DEFINE msg == [k |-> "action", id |-> id]
           y == Nt!Send(m, msg)
<1>1. /\ m \in Variables /\ out \in Seq(Messages) /\ TrigEnds /\ steps \in 0..MaxNotes
      /\ DOMAIN rows.row \subseteq Ids_
  BY EndsSo, Zenon DEF NotesInv, Types
<1>2. /\ steps' = steps + 1 /\ steps < MaxNotes /\ UNCHANGED <<s, q, rows>> /\ Nt!DoesInTurn(y)
      /\ id \in DOMAIN rows.row
  BY Zenon DEF Nt!UserDoes, Nt!UserActs
<1>3. m' = [y EXCEPT !.out = <<>>, !.emit = <<>>] /\ out' = out \o y.out /\ trig' = NotesRung(trig, y.emit)
  BY <1>2, NotesDone, Zenon
<1>4. msg \in Messages /\ msg.k # "id" /\ OfMessage(msg).id \notin Ids_
  BY <1>1, <1>2 DEF Messages, OfMessage, Blank, Entry, Ids_
<1> HIDE DEF msg
<1>5. m' = m /\ out' = out \o <<msg>> /\ trig' = NotesRung(trig, <<>>)
  <2>1. m.emit = <<>> /\ m.out = <<>>
    BY <1>1 DEF Variables
  <2>2. y = [m EXCEPT !.out = <<msg>>]
    BY <2>1, SendsOne
  <2>3. y.emit = <<>> /\ y.out = <<msg>>
    BY <1>1, <2>1, <2>2 DEF Variables
  <2>4. m' = m
    <3> HIDE DEF y
    <3> QED BY <1>1, <1>3, <2>1, <2>2 DEF Variables
  <2> QED BY <1>3, <2>3, <2>4
<1>6. trig' = trig
  BY <1>5, FoldNone
<1>7. out' \in Seq(Messages)
  BY <1>1, <1>4, <1>5
<1>8. Drawn'
  BY <1>2, <1>5, <1>6, DrawnStill
<1>9. ListDated(m'.list, steps')
  <2>1. ListDated(m.list, steps)
    BY Zenon DEF NotesInv, Dated, ListDated
  <2>2. \A n \in 1..steps : n \in 1..steps'
    BY <1>1, <1>2
  <2>3. \A n \in 0..steps : n \in 0..steps'
    BY <1>1, <1>2
  <2> QED BY <1>5, <2>1, <2>2, <2>3, Zenon DEF ListDated
<1>10. ~m'.collided => ~m.collided /\ Fit(m', trig', out', s, RowTable)
  <2> SUFFICES ASSUME ~m.collided PROVE Fit(m', trig', out', s, RowTable)
    BY <1>5
  <2>1. Fit(m, trig, out, s, RowTable)
    BY Zenon DEF NotesInv, Good
  <2>2. Tells(MessageLog(out'), s.open, m.list)
    BY <1>1, <1>4, <1>5, <2>1, MessagesTell DEF Fit
  <2>3. NoReply(out, out')
    <3>1. /\ DOMAIN out' = 1..Len(out) + 1 /\ Len(out) \in Nat /\ DOMAIN out = 1..Len(out)
          /\ out'[Len(out) + 1] = msg /\ \A i \in 1..Len(out) : out'[i] = out[i]
      BY <1>1, <1>4, <1>5
    <3>2. \A j \in 1..Len(out) + 1 : j = Len(out) + 1 \/ j \in 1..Len(out)
      BY <3>1
    <3> QED BY <1>4, <3>1, <3>2, Zenon DEF NoReply
  <2>4. NothingNew(m.list, m.list)
    BY Zenon DEF NothingNew
  <2>5. Fresh(m, out, s) /\ OneOwner(m, out, s)
    BY <2>1, Zenon DEF Fit
  <2>6. Fresh(m, out', s) /\ OneOwner(m, out', s)
    BY <2>3, <2>4, <2>5, OwnersKept
  <2>7. Fit(m, trig, out', s, RowTable)
    BY <2>1, <2>2, <2>6, Zenon DEF Fit
  <2> QED BY <1>5, <1>6, <2>7
<1>11. /\ m' \in Variables /\ trig' \in Seq(NotesTriggers)
       /\ steps' \in Nat /\ steps <= steps' /\ steps' <= MaxNotes
  BY <1>1, <1>2, <1>5, <1>6 DEF NotesAllowed, TrigEnds
<1> QED BY <1>2, <1>7, <1>8, <1>9, <1>10, <1>11, HandlerKeeps, Zenon

LEMMA UserClosesKeeps == ASSUME NotesAllowed, NotesInv, NEW id, Nt!UserCloses(id) PROVE NotesInv'
<1>1. /\ m \in Variables /\ steps \in 0..MaxNotes /\ DOMAIN rows.row \subseteq Ids_
  BY Zenon DEF NotesInv, Types
<1>2. /\ steps' = steps + 1 /\ steps < MaxNotes /\ UNCHANGED <<s, q, rows>> /\ Nt!DoesInTurn(Nt!Close(m, id))
      /\ id \in DOMAIN rows.row
  BY Zenon DEF Nt!UserDoes, Nt!UserCloses
<1>3. ListDated(m.list, steps')
  <2>1. ListDated(m.list, steps)
    BY Zenon DEF NotesInv, Dated, ListDated
  <2>2. \A n \in 1..steps : n \in 1..steps'
    BY <1>1, <1>2
  <2>3. \A n \in 0..steps : n \in 0..steps'
    BY <1>1, <1>2
  <2> QED BY <2>1, <2>2, <2>3, Zenon DEF ListDated
<1>4. ~m.collided => Fit(m, trig, out, s, RowTable)
  BY Zenon DEF NotesInv, Good
<1>5. id \in Ids_ /\ steps' \in Nat /\ steps <= steps' /\ steps' <= MaxNotes
  BY <1>1, <1>2 DEF NotesAllowed
<1> QED BY <1>1, <1>2, <1>3, <1>4, <1>5, CloseKeeps, Zenon

LEMMA ReadsCallKeeps == ASSUME NotesAllowed, NotesInv, Nt!ReadsCall PROVE NotesInv'
<1>1. /\ q # <<>> /\ q' = Tail(q) /\ Nt!DoesInTurn(Nt!Method(m, Head(q))) /\ UNCHANGED <<s, rows, steps>>
  BY Zenon DEF Nt!ReadsCall
<1>2. CASE Head(q).k = "notify"
  <2>1. Nt!DoesInTurn(Nt!Parse(m, Head(q)))
    BY <1>1, <1>2, Zenon DEF Nt!Method
  <2> QED BY <1>1, <1>2, <2>1, ParseKeeps, Zenon
<1>3. CASE Head(q).k # "notify"
  <2>1. Nt!DoesInTurn(Nt!Close(m, Head(q).id))
    BY <1>1, <1>3, Zenon DEF Nt!Method
  <2>2. /\ m \in Variables /\ steps \in 0..MaxNotes /\ q \in Seq(Calls)
    BY Zenon DEF NotesInv, Types
  <2>3. Head(q).id \in Ids_
    <3>1. Head(q) \in Calls
      BY <1>1, <2>2
    <3> QED BY <1>3, <3>1 DEF Calls
  <2>4. ListDated(m.list, steps')
    <3>1. steps' = steps
      BY <1>1
    <3> QED BY <3>1, Zenon DEF NotesInv, Dated, ListDated
  <2>5. ~m.collided => Fit(m, trig, out, s, RowTable)
    BY Zenon DEF NotesInv, Good
  <2>6. steps' \in Nat /\ steps <= steps' /\ steps' <= MaxNotes /\ UNCHANGED <<s, rows>>
    BY <1>1, <2>2 DEF NotesAllowed
  <2> QED BY <1>1, <2>1, <2>2, <2>3, <2>4, <2>5, <2>6, CloseKeeps, Zenon
<1> QED BY <1>2, <1>3

\* A timer's notification is looked for by its memory
TimedAt(l, a) == Nt!SelectInSeq(l, LAMBDA n : n.alloc = a)

LEMMA FoundTimed == ASSUME NEW l \in Seq(Items), NEW a PROVE TimedAt(l, a) # 0 => TimedAt(l, a) \in DOMAIN l
<1> DEFINE I == {i \in 1..Len(l) : l[i].alloc = a}
           at == TimedAt(l, a)
<1>1. at = IF I # {} THEN Nt!Min(I) ELSE 0
  BY Zenon DEF Nt!SelectInSeq, TimedAt
<1>2. DOMAIN l = 1..Len(l) /\ I \subseteq Nat
  OBVIOUS
<1>3. I # {} => Nt!Min(I) \in I
  <2> HIDE DEF I
  <2> QED BY <1>2, Least
<1> HIDE DEF at
<1>4. at # 0 => at \in DOMAIN l
  BY <1>1, <1>2, <1>3
<1> QED BY <1>4 DEF at

\* Lists that differ in their timers only
Alike(l, r) ==
  /\ DOMAIN r = DOMAIN l
  /\ \A i \in DOMAIN l : r[i].id = l[i].id /\ r[i].app = l[i].app /\ r[i].text = l[i].text

LEMMA AlikeFits ==
  ASSUME NEW x, NEW y, NEW ts, NEW ms, NEW c, NEW t, Fit(y, ts, ms, c, t), Alike(y.list, x.list),
         x.expanded_group = y.expanded_group, x.dn_id_counter = y.dn_id_counter
  PROVE  Fit(x, ts, ms, c, t)
<1> DEFINE l == y.list
           r == x.list
<1>0. DOMAIN r = DOMAIN l /\ \A i \in DOMAIN l : r[i].id = l[i].id /\ r[i].app = l[i].app /\ r[i].text = l[i].text
  BY Zenon DEF Alike
<1>f. /\ Apart(l) /\ Fresh(y, ms, c) /\ OneOwner(y, ms, c) /\ Expanded(y)
      /\ Tells(TriggerLog(ts), t, l) /\ Tells(MessageLog(ms), c.open, l)
  BY Zenon DEF Fit
<1>1. NothingNew(l, r) /\ NoReply(ms, ms)
  BY <1>0, Zenon DEF NothingNew, NoReply
<1>2. Fresh(x, ms, c) /\ OneOwner(x, ms, c)
  BY <1>1, <1>f, OwnersKept
<1>3. Expanded(x)
  <2>1. CASE x.expanded_group = "none"
    BY <2>1, Zenon DEF Expanded
  <2>2. CASE \E i \in DOMAIN l : l[i].app = x.expanded_group
    <3>1. PICK i \in DOMAIN l : l[i].app = x.expanded_group
      BY <2>2
    <3>2. i \in DOMAIN r /\ r[i].app = x.expanded_group
      BY <1>0, <3>1
    <3> QED BY <3>2, Zenon DEF Expanded
  <2> QED BY <1>f, <2>1, <2>2, Zenon DEF Expanded
<1>4. \A id, on, note : IsSo(l, id, on, note) => IsSo(r, id, on, note)
  <2> SUFFICES ASSUME NEW id, NEW on, NEW note, IsSo(l, id, on, note) PROVE IsSo(r, id, on, note)
    BY Zenon
  <2>1. (\E i \in DOMAIN l : l[i].id = id) <=> (\E i \in DOMAIN r : r[i].id = id)
    BY <1>0
  <2>2. ASSUME NEW i \in DOMAIN r, r[i].id = id PROVE note = Nt!Note(r[i].app, r[i].text)
    <3>1. i \in DOMAIN l /\ l[i].id = id
      BY <1>0, <2>2
    <3>2. note = Nt!Note(l[i].app, l[i].text)
      BY <3>1, Zenon DEF IsSo
    <3> QED BY <1>0, <3>1, <3>2
  <2> QED BY <2>1, <2>2, Zenon DEF IsSo
<1>5. \A e, tab : Tells(e, tab, l) => Tells(e, tab, r)
  BY <1>4, Zenon DEF Tells
<1>6. Apart(r)
  <2> SUFFICES ASSUME NEW i \in DOMAIN r, NEW j \in DOMAIN r, r[i].id = r[j].id PROVE i = j
    BY Zenon DEF Apart
  <2>1. i \in DOMAIN l /\ j \in DOMAIN l /\ l[i].id = l[j].id
    BY <1>0
  <2> QED BY <1>f, <2>1, Zenon DEF Apart
<1> QED BY <1>2, <1>3, <1>5, <1>6, <1>f, Zenon DEF Fit

LEMMA TimeoutKeeps == ASSUME NotesAllowed, NotesInv, NEW h \in DOMAIN m.timers, Nt!Timeout(h) PROVE NotesInv'
<1> DEFINE at == TimedAt(m.list, m.timers[h])
           timers == Nt!Restrict(m.timers, DOMAIN m.timers \ {h})
           fired == [m EXCEPT !.timers = timers]
<1>1. /\ m \in Variables /\ out \in Seq(Messages) /\ TrigEnds /\ steps \in 0..MaxNotes
  BY EndsSo, Zenon DEF NotesInv, Types
<1>2. /\ IF at # 0 /\ m.list[at].timeout_handle = h
         THEN Nt!DoesInTurn(Nt!Close([fired EXCEPT !.list[at].timeout_handle = 0], m.list[at].id))
         ELSE Nt!DoesInTurn([fired EXCEPT !.stray = TRUE])
      /\ UNCHANGED <<s, q, rows, steps>>
  BY Zenon DEF Nt!Timeout, TimedAt
<1>3. m.list \in Seq(Items) /\ m.timers \in Timers
  BY <1>1 DEF Variables
<1>4. at # 0 => at \in DOMAIN m.list
  BY <1>3, FoundTimed
<1>5. timers \in Timers
  BY <1>3, TimersLeft
<1> HIDE DEF at, timers
<1>6. ListDated(m.list, steps) /\ (~m.collided => Fit(m, trig, out, s, RowTable))
  BY Zenon DEF NotesInv, Dated, ListDated, Good
<1>7. CASE at # 0 /\ m.list[at].timeout_handle = h
  <2> DEFINE x == [fired EXCEPT !.list[at].timeout_handle = 0]
             id == m.list[at].id
  <2>1. at \in DOMAIN m.list /\ Nt!DoesInTurn(Nt!Close(x, id))
    BY <1>2, <1>4, <1>7
  <2> DEFINE n == [m.list[at] EXCEPT !.timeout_handle = 0]
             l == [m.list EXCEPT ![at] = n]
  <2>2. m.list[at] \in Items /\ id \in Ids_
    <3>1. m.list[at] \in Items
      BY <1>3, <2>1
    <3> QED BY <3>1 DEF Items
  <2>3. /\ n \in Items /\ n.id = m.list[at].id /\ n.app = m.list[at].app /\ n.text = m.list[at].text
        /\ n.alloc = m.list[at].alloc /\ n.timeout_handle = 0
    BY <2>2 DEF Items
  <2>4. x = [m EXCEPT !.timers = timers, !.list = l]
    BY <1>1 DEF Variables
  <2> HIDE DEF n, id
  <2>5. /\ l \in Seq(Items) /\ DOMAIN l = DOMAIN m.list
        /\ \A i \in DOMAIN l : l[i] = IF i = at THEN n ELSE m.list[i]
    BY <1>3, <2>1, <2>3
  <2> HIDE DEF l, x
  <2>6. x \in Variables /\ x.list = l /\ x.expanded_group = m.expanded_group
        /\ x.dn_id_counter = m.dn_id_counter /\ x.collided = m.collided
    BY <1>1, <1>5, <2>4, <2>5 DEF Variables
  <2>7. Alike(m.list, l)
    BY <2>3, <2>5, Zenon DEF Alike
  <2>8. ListDated(l, steps)
    <3> SUFFICES ASSUME NEW i \in DOMAIN l
                 PROVE  l[i].alloc \in 1..steps /\ l[i].timeout_handle \in 0..steps
      BY Zenon DEF ListDated
    <3>1. m.list[i].alloc \in 1..steps /\ m.list[i].timeout_handle \in 0..steps
      BY <1>6, <2>5, Zenon DEF ListDated
    <3>2. CASE i = at
      BY <1>1, <2>3, <2>5, <3>1, <3>2
    <3>3. CASE i # at
      BY <2>5, <3>1, <3>3
    <3> QED BY <3>2, <3>3
  <2>9. ~x.collided => ~m.collided /\ Fit(x, trig, out, s, RowTable)
    BY <1>6, <2>6, <2>7, AlikeFits
  <2>10. /\ steps' \in Nat /\ steps <= steps' /\ steps' <= MaxNotes /\ UNCHANGED <<s, rows>> /\ q' = q
         /\ ListDated(x.list, steps')
    BY <1>1, <1>2, <2>6, <2>8 DEF NotesAllowed
  <2> QED BY <2>1, <2>2, <2>6, <2>9, <2>10, CloseKeeps, Zenon DEF id
<1>8. CASE ~(at # 0 /\ m.list[at].timeout_handle = h)
  <2> DEFINE x == [fired EXCEPT !.stray = TRUE]
  <2>1. Nt!DoesInTurn(x)
    BY <1>2, <1>8
  <2>2. m' = [x EXCEPT !.out = <<>>, !.emit = <<>>] /\ out' = out \o x.out /\ trig' = NotesRung(trig, x.emit)
    BY <2>1, NotesDone, Zenon
  <2>3. /\ x \in Variables /\ x.list = m.list /\ x.expanded_group = m.expanded_group
        /\ x.dn_id_counter = m.dn_id_counter /\ x.collided = m.collided
    BY <1>1, <1>5 DEF Variables
  <2> HIDE DEF x
  <2>4. x.emit = <<>> /\ x.out = <<>>
    BY <2>3 DEF Variables
  <2>5. m' = x
    BY <2>2, <2>3, <2>4 DEF Variables
  <2>6. out' = out
    BY <1>1, <2>2, <2>4
  <2>7. trig' = trig
    BY <2>2, <2>4, FoldNone, Zenon
  <2>8. Drawn'
    BY <1>2, <2>3, <2>5, <2>7, DrawnStill
  <2>9. ~m'.collided => ~m.collided /\ Fit(m', trig', out', s, RowTable)
    BY <1>6, <2>3, <2>5, <2>6, <2>7, SameFit
  <2>10. /\ steps' \in Nat /\ steps <= steps' /\ steps' <= MaxNotes /\ UNCHANGED <<s, rows>> /\ q' = q
         /\ ListDated(m'.list, steps') /\ m' \in Variables /\ out' \in Seq(Messages) /\ trig' \in Seq(NotesTriggers)
    BY <1>1, <1>2, <1>6, <2>3, <2>5, <2>6, <2>7 DEF NotesAllowed, TrigEnds
  <2> QED BY <2>8, <2>9, <2>10, HandlerKeeps, Zenon
<1> QED BY <1>7, <1>8

\* The clients' calls
LEMMA AsksKeeps ==
  ASSUME NotesAllowed, NotesInv, NEW c \in Calls, Nt!Asks(c), c.k = "notify" => c.text = steps + 1,
         c.id # 0 => c.id \in DOMAIN s.given, c.k = "notify" /\ c.id # 0 => c.app = s.given[c.id]
  PROVE  NotesInv'
<1>1. /\ q \in Seq(Calls) /\ steps \in 0..MaxNotes /\ MaxNotes \in Nat
  BY Zenon DEF NotesInv, Types, NotesAllowed
<1>2. /\ steps' = steps + 1 /\ steps < MaxNotes /\ q' = Append(q, c) /\ UNCHANGED <<s, m, out, trig, rows>>
  BY Zenon DEF Nt!Asks
<1>3. /\ q' \in Seq(Calls) /\ \A i \in DOMAIN q' : q'[i] = c \/ (i \in DOMAIN q /\ q'[i] = q[i])
  <2>1. /\ q' \in Seq(Calls) /\ DOMAIN q' = 1..Len(q) + 1 /\ Len(q) \in Nat /\ DOMAIN q = 1..Len(q)
        /\ q'[Len(q) + 1] = c /\ \A i \in 1..Len(q) : q'[i] = q[i]
    BY <1>1, <1>2
  <2> QED BY <2>1
<1>4. steps' \in 0..MaxNotes /\ \A k \in 1..steps : k \in 1..steps'
  BY <1>1, <1>2
<1>5. \A k \in 0..steps : k \in 0..steps'
  BY <1>1, <1>2
<1>6. Types'
  BY <1>2, <1>3, <1>4 DEF NotesInv, Types, IsTable
<1>7. Dated'
  <2>1. ASSUME NEW i \in DOMAIN m.list
        PROVE  m.list[i].alloc \in 1..steps' /\ m.list[i].timeout_handle \in 0..steps'
    BY <1>4, <1>5, Zenon DEF NotesInv, Dated
  <2>2. ASSUME NEW i \in DOMAIN q', q'[i].k = "notify" PROVE q'[i].text \in 1..steps'
    <3>1. CASE q'[i] = c
      BY <1>1, <1>2, <2>2, <3>1
    <3>2. CASE i \in DOMAIN q /\ q'[i] = q[i]
      BY <1>4, <2>2, <3>2, Zenon DEF NotesInv, Dated
    <3> QED BY <1>3, <3>1, <3>2, Zenon
  <2>3. m' = m
    BY <1>2
  <2> QED BY <2>1, <2>2, <2>3, Zenon DEF Dated
<1>8. Asked'
  <2>1. ASSUME NEW i \in DOMAIN q', q'[i].id # 0 PROVE q'[i].id \in DOMAIN s.given
    <3>1. CASE q'[i] = c
      BY <2>1, <3>1
    <3>2. CASE i \in DOMAIN q /\ q'[i] = q[i]
      BY <2>1, <3>2, Zenon DEF NotesInv, Asked
    <3> QED BY <1>3, <3>1, <3>2, Zenon
  <2>2. s' = s
    BY <1>2
  <2> QED BY <2>1, <2>2, Zenon DEF Asked
<1>9. Drawn'
  BY <1>2, DrawnStill
<1>10. ~m.collided => Good'
  <2> SUFFICES ASSUME ~m.collided PROVE Good'
    OBVIOUS
  <2>1. OwnCalls /\ Fit(m, trig, out, s, RowTable)
    BY Zenon DEF NotesInv, Good
  <2>2. OwnCalls'
    <3>1. ASSUME NEW i \in DOMAIN q', q'[i].k = "notify", q'[i].id # 0
          PROVE  q'[i].app = s.given[q'[i].id]
      <4>1. CASE q'[i] = c
        BY <3>1, <4>1
      <4>2. CASE i \in DOMAIN q /\ q'[i] = q[i]
        BY <2>1, <3>1, <4>2, Zenon DEF OwnCalls
      <4> QED BY <1>3, <4>1, <4>2, Zenon
    <3>2. s' = s
      BY <1>2
    <3> QED BY <3>1, <3>2, Zenon DEF OwnCalls
  <2>3. Fit(m', trig', out', s', RowTable')
    <3>1. RowTable' = RowTable
      BY <1>2 DEF RowTable
    <3> QED BY <1>2, <2>1, <3>1
  <2> QED BY <2>2, <2>3 DEF Good
<1> QED BY <1>2, <1>6, <1>7, <1>8, <1>9, <1>10 DEF NotesInv

LEMMA NotifiesKeeps ==
  ASSUME NotesAllowed, NotesInv, NEW app \in Apps, NEW id \in {0} \cup DOMAIN s.given, NEW timed \in BOOLEAN,
         Nt!Notifies(app, id, timed)
  PROVE  NotesInv'
<1> DEFINE c == [k |-> "notify", id |-> id, app |-> app, text |-> steps + 1, timed |-> timed]
<1>1. Nt!Asks(c) /\ (id # 0 => id \in DOMAIN s.given /\ s.given[id] = app)
  BY Zenon DEF Nt!Notifies
<1>2. DOMAIN s.given \subseteq Ids_ /\ steps \in 0..MaxNotes /\ MaxNotes \in Nat
  BY Zenon DEF NotesInv, Types, NotesAllowed
<1>3. c \in Calls /\ c.text = steps + 1 /\ c.id = id /\ c.app = app
  BY <1>2 DEF Calls, Ids_
<1> HIDE DEF c
<1> QED BY <1>1, <1>3, AsksKeeps

LEMMA ClosesKeeps == ASSUME NotesAllowed, NotesInv, NEW id, Nt!Closes(id) PROVE NotesInv'
<1> DEFINE c == [k |-> "close", id |-> id]
<1>1. Nt!Asks(c) /\ id \in DOMAIN s.given
  BY Zenon DEF Nt!Closes
<1>2. DOMAIN s.given \subseteq Ids_
  BY Zenon DEF NotesInv, Types
<1>3. c \in Calls /\ c.k # "notify" /\ c.id = id
  BY <1>1, <1>2 DEF Calls
<1> HIDE DEF c
<1> QED BY <1>1, <1>3, AsksKeeps

\* A client reads what it is sent
LEMMA HearsKeeps == ASSUME NotesAllowed, NotesInv, Nt!Hears PROVE NotesInv'
<1> DEFINE msg == Head(out)
<1>1. /\ out # <<>> /\ out' = Tail(out) /\ UNCHANGED <<m, q, trig, rows, steps>>
      /\ s' = CASE msg.k = "id" ->
                     [s EXCEPT !.open = Nt!With(@, msg.id, Nt!Note(msg.app, msg.text)),
                               !.given = Nt!With(@, msg.id, msg.app)]
                [] msg.k = "closed" -> [s EXCEPT !.open = Nt!Restrict(@, DOMAIN @ \ {msg.id})]
                [] OTHER -> s
  BY Zenon DEF Nt!Hears
<1>2. out \in Seq(Messages) /\ Types
  BY Zenon DEF NotesInv, Types
<1>3. /\ out' \in Seq(Messages) /\ Len(out) \in Nat /\ DOMAIN out = 1..Len(out) /\ msg = out[1] /\ 1 \in DOMAIN out
      /\ Len(out) = Len(out') + 1 /\ DOMAIN out' = 1..Len(out') /\ Len(out') \in Nat
      /\ \A k \in DOMAIN out' : k + 1 \in DOMAIN out /\ out'[k] = out[k + 1]
  BY <1>1, <1>2, NotesTailOf
<1>4. msg \in Messages
  BY <1>2, <1>3
<1> HIDE DEF msg
<1>5. /\ msg.id \in Ids_ /\ msg.k \in {"id", "closed", "action"} /\ (msg.k = "id" => msg.app \in Apps)
  BY <1>4 DEF Messages
<1>6. /\ s = [open |-> s.open, given |-> s.given] /\ IsTable(s.open) /\ IsTable(s.given)
      /\ DOMAIN s.open \subseteq DOMAIN s.given /\ DOMAIN s.given \subseteq Ids_
      /\ \A id \in DOMAIN s.given : s.given[id] \in Apps
  BY <1>2, Zenon DEF Types
<1> DEFINE new == msg.k = "id"
           e1 == OfMessage(msg)
\* the clients after that
<1>7. /\ s' = [open |-> s'.open, given |-> s'.given] /\ IsTable(s'.open) /\ IsTable(s'.given)
      /\ DOMAIN s'.open \subseteq DOMAIN s'.given
      /\ DOMAIN s'.given = IF new THEN {msg.id} \cup DOMAIN s.given ELSE DOMAIN s.given
      /\ \A id \in DOMAIN s'.given : s'.given[id] = IF new /\ id = msg.id THEN msg.app ELSE s.given[id]
      /\ \A id \in Ids_ : id # e1.id =>
           (id \in DOMAIN s'.open <=> id \in DOMAIN s.open) /\ (id \in DOMAIN s.open => s'.open[id] = s.open[id])
      /\ e1.id \in Ids_ => (e1.id \in DOMAIN s'.open <=> e1.on) /\ (e1.on => s'.open[e1.id] = e1.note)
  <2>1. CASE msg.k = "id"
    <3>1. s' = [s EXCEPT !.open = Nt!With(s.open, msg.id, Nt!Note(msg.app, msg.text)),
                         !.given = Nt!With(s.given, msg.id, msg.app)]
      BY <1>1, <2>1
    <3> DEFINE open == Nt!With(s.open, msg.id, Nt!Note(msg.app, msg.text))
               given == Nt!With(s.given, msg.id, msg.app)
    <3>2. /\ IsTable(open) /\ DOMAIN open = {msg.id} \cup DOMAIN s.open
          /\ open[msg.id] = Nt!Note(msg.app, msg.text)
          /\ \A id \in DOMAIN s.open : id # msg.id => open[id] = s.open[id]
      BY DEF Nt!With, IsTable
    <3>3. /\ IsTable(given) /\ DOMAIN given = {msg.id} \cup DOMAIN s.given /\ given[msg.id] = msg.app
          /\ \A id \in DOMAIN s.given : id # msg.id => given[id] = s.given[id]
      BY DEF Nt!With, IsTable
    <3>4. e1.id = msg.id /\ e1.on = TRUE /\ e1.note = Nt!Note(msg.app, msg.text)
      BY <2>1 DEF OfMessage, Entry
    <3> HIDE DEF open, given
    <3>5. s' = [open |-> open, given |-> given]
      BY <1>6, <3>1 DEF open, given
    <3>6. s'.open = open /\ s'.given = given
      BY <3>5
    <3>7. s' = [open |-> s'.open, given |-> s'.given]
      BY <3>5, <3>6
    <3> HIDE DEF e1
    <3> QED BY <1>6, <2>1, <3>2, <3>3, <3>4, <3>6, <3>7
  <2>2. CASE msg.k = "closed"
    <3> DEFINE open == Nt!Restrict(s.open, DOMAIN s.open \ {msg.id})
    <3>1. s' = [s EXCEPT !.open = open]
      BY <1>1, <2>2
    <3>2. /\ IsTable(open) /\ DOMAIN open = DOMAIN s.open \ {msg.id}
          /\ \A id \in DOMAIN s.open : id # msg.id => open[id] = s.open[id]
      BY DEF Nt!Restrict, IsTable
    <3>4. e1.id = msg.id /\ e1.on = FALSE
      BY <2>2 DEF OfMessage, Entry
    <3> HIDE DEF open
    <3>5. s' = [open |-> open, given |-> s.given]
      BY <1>6, <3>1
    <3>6. s'.open = open /\ s'.given = s.given
      BY <3>5
    <3>7. s' = [open |-> s'.open, given |-> s'.given]
      BY <3>5, <3>6
    <3> HIDE DEF e1
    <3> QED BY <1>6, <2>2, <3>2, <3>4, <3>6, <3>7
  <2>3. CASE msg.k = "action"
    <3>1. s' = s
      BY <1>1, <2>3
    <3>2. e1.id \notin Ids_
      BY <2>3 DEF OfMessage, Blank, Entry, Ids_
    <3> HIDE DEF e1
    <3> QED BY <1>6, <2>3, <3>1, <3>2
  <2> QED BY <1>5, <2>1, <2>2, <2>3
<1> HIDE DEF e1
<1>8. DOMAIN s.given \subseteq DOMAIN s'.given
  BY <1>7
<1>9. Types'
  <2>1. DOMAIN s'.given \subseteq Ids_ /\ \A id \in DOMAIN s'.given : s'.given[id] \in Apps
    BY <1>5, <1>6, <1>7
  <2>2. m' = m /\ q' = q /\ trig' = trig /\ rows' = rows /\ steps' = steps
    BY <1>1
  <2>3. /\ m \in Variables /\ q \in Seq(Calls) /\ trig \in Seq(NotesTriggers)
        /\ rows = [row |-> rows.row, active |-> rows.active, count |-> rows.count]
        /\ IsTable(rows.row) /\ DOMAIN rows.row \subseteq Ids_
        /\ \A id \in DOMAIN rows.row :
             rows.row[id] = [note |-> rows.row[id].note, group |-> rows.row[id].group, count |-> rows.row[id].count]
        /\ steps \in 0..MaxNotes
    BY <1>2, Zenon DEF Types
  <2> QED BY <1>3, <1>7, <2>1, <2>2, <2>3, Zenon DEF Types
<1>10. Dated'
  BY <1>1, Zenon DEF NotesInv, Dated
<1>11. Asked'
  <2>1. q' = q
    BY <1>1
  <2>2. \A i \in DOMAIN q : q[i].id # 0 => q[i].id \in DOMAIN s.given
    BY Zenon DEF NotesInv, Asked
  <2> QED BY <1>8, <2>1, <2>2 DEF Asked
<1>12. Drawn'
  BY <1>1, DrawnStill
<1>13. ~m.collided => Good'
  <2> SUFFICES ASSUME ~m.collided PROVE Good'
    OBVIOUS
  <2>1. /\ OwnCalls /\ Apart(m.list) /\ Fresh(m, out, s) /\ OneOwner(m, out, s) /\ Expanded(m)
        /\ Tells(TriggerLog(trig), RowTable, m.list) /\ Tells(MessageLog(out), s.open, m.list)
    BY Zenon DEF NotesInv, Good, Fit
  <2>2. m' = m /\ q' = q /\ trig' = trig /\ RowTable' = RowTable
    BY <1>1 DEF RowTable
  <2>3. new => Owns(m, out, s, msg.app, msg.id)
    BY <1>3, Zenon DEF Owns
  <2>4. Fresh(m, out', s')
    <3>1. \A id : Unused(m, s, id) => Unused(m, s', id)
      BY <1>8 DEF Unused
    <3>2. \A i \in DOMAIN out' : \E j \in DOMAIN out : out'[i] = out[j]
      BY <1>3, Zenon
    <3>3. ASSUME NEW i \in DOMAIN out', out'[i].k = "id" PROVE Unused(m, s, out'[i].id)
      <4>1. PICK j \in DOMAIN out : out'[i] = out[j]
        BY <3>2, Zenon
      <4> QED BY <2>1, <3>3, <4>1, Zenon DEF Fresh
    <3> QED BY <2>1, <3>1, <3>3, Zenon DEF Fresh
  <2>5. OneOwner(m, out', s')
    <3>1. \A id, a : Owns(m, out', s', a, id) => Owns(m, out, s, a, id)
      <4> SUFFICES ASSUME NEW id, NEW a, Owns(m, out', s', a, id) PROVE Owns(m, out, s, a, id)
        BY Zenon
      <4>1. CASE id \in DOMAIN s'.given /\ s'.given[id] = a
        <5>1. CASE new /\ id = msg.id
          <6>1. a = msg.app
            BY <1>7, <4>1, <5>1
          <6> QED BY <2>3, <5>1, <6>1, Zenon
        <5>2. CASE ~(new /\ id = msg.id)
          <6>1. id \in DOMAIN s.given /\ s.given[id] = a
            BY <1>7, <4>1, <5>2
          <6> QED BY <6>1, Zenon DEF Owns
        <5> QED BY <5>1, <5>2
      <4>2. CASE \E i \in DOMAIN m.list : m.list[i].id = id /\ m.list[i].app = a
        BY <4>2, Zenon DEF Owns
      <4>3. CASE \E i \in DOMAIN out' : out'[i].k = "id" /\ out'[i].id = id /\ out'[i].app = a
        <5>1. PICK i \in DOMAIN out' : out'[i].k = "id" /\ out'[i].id = id /\ out'[i].app = a
          BY <4>3
        <5>2. i + 1 \in DOMAIN out /\ out'[i] = out[i + 1]
          BY <1>3
        <5> DEFINE j == i + 1
        <5>3. j \in DOMAIN out /\ out[j].k = "id" /\ out[j].id = id /\ out[j].app = a
          BY <5>1, <5>2
        <5> HIDE DEF j
        <5> QED BY <5>3, Zenon DEF Owns
      <4> QED BY <4>1, <4>2, <4>3, Zenon DEF Owns
    <3> QED BY <2>1, <3>1, Zenon DEF OneOwner
  <2>6. Tells(MessageLog(out'), s'.open, m.list)
    <3> DEFINE e == MessageLog(out)
               f == MessageLog(out')
    <3>1. /\ DOMAIN e = DOMAIN out /\ DOMAIN f = DOMAIN out' /\ e[1] = e1
          /\ \A k \in DOMAIN out : e[k] = OfMessage(out[k])
          /\ \A k \in DOMAIN out' : f[k] = OfMessage(out'[k])
      BY <1>3, Zenon DEF MessageLog, e1
    <3>2. \A k \in 1..Len(out') : f[k] = e[k + 1]
      BY <1>3, <3>1, Zenon
    <3>3. Tells(e, s.open, m.list)
      BY <2>1, Zenon
    <3> HIDE DEF e, f
    <3>4. \E n \in Nat : /\ DOMAIN e = 1..n + 1 /\ DOMAIN f = 1..n
                         /\ \A k \in 1..n : f[k] = e[k + 1]
      <4>1. Len(out') \in Nat /\ DOMAIN out = 1..Len(out') + 1 /\ DOMAIN out' = 1..Len(out')
        BY <1>3
      <4> QED BY <3>1, <3>2, <4>1, Zenon
    <3>5. ReadInto(e, f, s.open, s'.open)
      BY <1>7, <3>1, <3>4, Zenon DEF ReadInto
    <3>6. Tells(f, s'.open, m.list)
      BY <3>3, <3>5, ReadTells, Zenon
    <3> QED BY <3>6, Zenon DEF f
  <2>7. Fit(m', trig', out', s', RowTable')
    BY <2>1, <2>2, <2>4, <2>5, <2>6, Zenon DEF Fit
  <2>8. OwnCalls'
    <3>1. ASSUME NEW i \in DOMAIN q, q[i].k = "notify", q[i].id # 0 PROVE q[i].app = s'.given[q[i].id]
      <4>1. q[i].id \in DOMAIN s.given /\ q[i].app = s.given[q[i].id]
        BY <2>1, <3>1, Zenon DEF OwnCalls, NotesInv, Asked
      <4>2. CASE new /\ q[i].id = msg.id
        <5>1. Owns(m, out, s, q[i].app, msg.id)
          BY <4>1, <4>2, Zenon DEF Owns
        <5>2. q[i].app \in Apps
          BY <1>6, <4>1
        <5>3. q[i].app = msg.app
          BY <1>5, <2>1, <2>3, <4>2, <5>1, <5>2, Zenon DEF OneOwner
        <5> QED BY <1>7, <1>8, <4>1, <4>2, <5>3
      <4>3. CASE ~(new /\ q[i].id = msg.id)
        BY <1>7, <1>8, <4>1, <4>3
      <4> QED BY <4>2, <4>3
    <3> QED BY <2>2, <3>1, Zenon DEF OwnCalls
  <2> QED BY <2>7, <2>8 DEF Good
<1> QED BY <1>1, <1>9, <1>10, <1>11, <1>12, <1>13 DEF NotesInv

\* A trigger's function is run
LEMMA NotesHandlesKeeps == ASSUME NotesAllowed, NotesInv, Nt!Handles PROVE NotesInv'
<1> DEFINE t == Head(trig)
           updated == [rows EXCEPT !.row = Nt!With(rows.row, t.of, Nt!Row(m, t.of, t.v))]
           removed == [rows EXCEPT !.row = Nt!Restrict(rows.row, DOMAIN rows.row \ {t.of})]
           redrawn == [row |-> [id \in DOMAIN rows.row |-> Nt!Row(m, id, rows.row[id].note)],
                       active |-> m.expanded_group, count |-> Len(m.list)]
<1>1. /\ trig # <<>> /\ trig' = Tail(trig) /\ UNCHANGED <<s, m, q, out, steps>>
      /\ rows' = CASE t.t = "notification-updated" -> updated
                   [] t.t = "notification-removed" -> removed
                   [] t.t = "notification-group" -> redrawn
  BY Zenon DEF Nt!Handles, Nt!Shows
<1>2. trig \in Seq(NotesTriggers) /\ Types
  BY Zenon DEF NotesInv, Types
<1>3. /\ trig' \in Seq(NotesTriggers) /\ Len(trig) \in Nat /\ DOMAIN trig = 1..Len(trig) /\ t = trig[1]
      /\ 1 \in DOMAIN trig /\ Len(trig) = Len(trig') + 1 /\ DOMAIN trig' = 1..Len(trig') /\ Len(trig') \in Nat
      /\ \A k \in DOMAIN trig' : k + 1 \in DOMAIN trig /\ trig'[k] = trig[k + 1]
  BY <1>1, <1>2, NotesTailOf
<1>4. t \in NotesTriggers
  BY <1>2, <1>3
<1>5. /\ rows = [row |-> rows.row, active |-> rows.active, count |-> rows.count]
      /\ IsTable(rows.row) /\ DOMAIN rows.row \subseteq Ids_
      /\ \A id \in DOMAIN rows.row :
           rows.row[id] = [note |-> rows.row[id].note, group |-> rows.row[id].group, count |-> rows.row[id].count]
  BY <1>2, Zenon DEF Types
<1> HIDE DEF t
<1>6. \A id, note : Nt!Row(m, id, note) = [note |-> note, group |-> Nt!Group(m, id), count |-> Nt!Count(m, id)]
  BY Zenon DEF Nt!Row
<1> DEFINE e1 == OfTrigger(t)
<1>7. /\ rows' = [row |-> rows'.row, active |-> rows'.active, count |-> rows'.count]
      /\ IsTable(rows'.row) /\ DOMAIN rows'.row \subseteq Ids_
      /\ \A id \in DOMAIN rows'.row :
           rows'.row[id] = [note |-> rows'.row[id].note, group |-> rows'.row[id].group, count |-> rows'.row[id].count]
      /\ \A id \in Ids_ : id # e1.id =>
           /\ id \in DOMAIN rows'.row <=> id \in DOMAIN rows.row
           /\ id \in DOMAIN rows.row => rows'.row[id].note = rows.row[id].note
      /\ e1.id \in Ids_ => /\ e1.id \in DOMAIN rows'.row <=> e1.on
                           /\ e1.on => rows'.row[e1.id].note = e1.note
      /\ t = Regrouped =>
           /\ rows'.active = m.expanded_group /\ rows'.count = Len(m.list)
           /\ \A id \in DOMAIN rows'.row : rows'.row[id] = Nt!Row(m, id, rows'.row[id].note)
  <2>1. CASE t \in [t : {"notification-updated"}, of : Ids_, v : Notes]
    <3>1. t.t = "notification-updated" /\ t.of \in Ids_ /\ t # Regrouped
      BY <2>1 DEF Regrouped, Nt!Trigger
    <3>2. rows' = updated
      BY <1>1, <3>1
    <3>3. e1.id = t.of /\ e1.on = TRUE /\ e1.note = t.v
      BY <3>1 DEF OfTrigger, Entry
    <3> DEFINE new == Nt!Row(m, t.of, t.v)
               tab == Nt!With(rows.row, t.of, new)
    <3>4. new = [note |-> new.note, group |-> new.group, count |-> new.count] /\ new.note = t.v
      <4>1. new = [note |-> t.v, group |-> Nt!Group(m, t.of), count |-> Nt!Count(m, t.of)]
        BY <1>6, Zenon
      <4> HIDE DEF new
      <4> QED BY <4>1
    <3> HIDE DEF new
    <3>5. /\ IsTable(tab) /\ DOMAIN tab = {t.of} \cup DOMAIN rows.row /\ tab[t.of] = new
          /\ \A id \in DOMAIN rows.row : id # t.of => tab[id] = rows.row[id]
      BY DEF Nt!With, IsTable
    <3>6. rows' = [rows EXCEPT !.row = tab]
      BY <3>2, Zenon DEF new
    <3> HIDE DEF tab, updated, e1
    <3>7. rows' = [row |-> tab, active |-> rows.active, count |-> rows.count]
      BY <1>5, <3>6
    <3>8. rows'.row = tab /\ rows' = [row |-> rows'.row, active |-> rows'.active, count |-> rows'.count]
      BY <3>7
    <3>9. \A id \in DOMAIN tab : (id = t.of /\ tab[id] = new) \/ (id \in DOMAIN rows.row /\ tab[id] = rows.row[id])
      BY <3>5
    <3>10. \A id \in DOMAIN tab : tab[id] = [note |-> tab[id].note, group |-> tab[id].group, count |-> tab[id].count]
      <4> SUFFICES ASSUME NEW id \in DOMAIN tab
                   PROVE tab[id] = [note |-> tab[id].note, group |-> tab[id].group, count |-> tab[id].count]
        OBVIOUS
      <4>1. CASE tab[id] = new
        BY <3>4, <4>1
      <4>2. CASE id \in DOMAIN rows.row /\ tab[id] = rows.row[id]
        BY <1>5, <4>2, Zenon
      <4> QED BY <3>9, <4>1, <4>2
    <3> QED BY <1>5, <3>1, <3>3, <3>4, <3>5, <3>8, <3>10
  <2>2. CASE t \in [t : {"notification-removed"}, of : Ids_]
    <3>1. t.t = "notification-removed" /\ t.of \in Ids_ /\ t # Regrouped
      BY <2>2 DEF Regrouped, Nt!Trigger
    <3>2. rows' = removed
      BY <1>1, <3>1
    <3>3. e1.id = t.of /\ e1.on = FALSE
      BY <3>1 DEF OfTrigger, Entry
    <3> DEFINE tab == Nt!Restrict(rows.row, DOMAIN rows.row \ {t.of})
    <3>5. /\ IsTable(tab) /\ DOMAIN tab = DOMAIN rows.row \ {t.of}
          /\ \A id \in DOMAIN rows.row : id # t.of => tab[id] = rows.row[id]
      BY DEF Nt!Restrict, IsTable
    <3>6. rows' = [rows EXCEPT !.row = tab]
      BY <3>2, Zenon
    <3> HIDE DEF tab, removed, e1
    <3>7. rows' = [row |-> tab, active |-> rows.active, count |-> rows.count]
      BY <1>5, <3>6
    <3>8. rows'.row = tab /\ rows' = [row |-> rows'.row, active |-> rows'.active, count |-> rows'.count]
      BY <3>7
    <3>9. \A id \in DOMAIN tab : tab[id] = [note |-> tab[id].note, group |-> tab[id].group, count |-> tab[id].count]
      <4> SUFFICES ASSUME NEW id \in DOMAIN tab
                   PROVE tab[id] = [note |-> tab[id].note, group |-> tab[id].group, count |-> tab[id].count]
        OBVIOUS
      <4>1. id \in DOMAIN rows.row /\ tab[id] = rows.row[id]
        BY <3>5
      <4> QED BY <1>5, <4>1, Zenon
    <3> QED BY <1>5, <3>1, <3>3, <3>5, <3>8, <3>9
  <2>3. CASE t = Regrouped
    <3>1. t.t = "notification-group"
      BY <2>3 DEF Regrouped, Nt!Trigger
    <3>2. rows' = redrawn
      BY <1>1, <3>1
    <3>3. e1.id \notin Ids_
      BY <3>1 DEF OfTrigger, Blank, Entry, Ids_
    <3> DEFINE tab == [id \in DOMAIN rows.row |-> Nt!Row(m, id, rows.row[id].note)]
    <3>4. /\ IsTable(tab) /\ DOMAIN tab = DOMAIN rows.row
          /\ \A id \in DOMAIN rows.row : tab[id] = Nt!Row(m, id, rows.row[id].note)
      BY DEF IsTable
    <3>5. /\ rows'.row = tab /\ rows'.active = m.expanded_group /\ rows'.count = Len(m.list)
          /\ rows' = [row |-> rows'.row, active |-> rows'.active, count |-> rows'.count]
      <4> HIDE DEF tab
      <4>1. rows' = [row |-> tab, active |-> m.expanded_group, count |-> Len(m.list)]
        BY <3>2, Zenon DEF tab
      <4> QED BY <4>1
    <3> HIDE DEF tab, redrawn, e1
    <3>6. \A id \in DOMAIN tab : tab[id].note = rows.row[id].note
      BY <1>6, <3>4
    <3>7. \A id \in DOMAIN tab : tab[id] = [note |-> tab[id].note, group |-> tab[id].group, count |-> tab[id].count]
      BY <1>6, <3>4
    <3>8. \A id \in DOMAIN tab : tab[id] = Nt!Row(m, id, tab[id].note)
      BY <3>4, <3>6
    <3> QED BY <1>5, <3>3, <3>4, <3>5, <3>6, <3>7, <3>8
  <2> QED BY <1>4, <2>1, <2>2, <2>3 DEF NotesTriggers
<1> HIDE DEF e1, updated, removed, redrawn
<1>8. Types'
  <2>1. s' = s /\ m' = m /\ q' = q /\ out' = out /\ steps' = steps
    BY <1>1
  <2>2. /\ s = [open |-> s.open, given |-> s.given] /\ IsTable(s.open) /\ IsTable(s.given)
        /\ DOMAIN s.open \subseteq DOMAIN s.given /\ DOMAIN s.given \subseteq Ids_
        /\ \A id \in DOMAIN s.given : s.given[id] \in Apps
        /\ m \in Variables /\ q \in Seq(Calls) /\ out \in Seq(Messages) /\ steps \in 0..MaxNotes
    BY <1>2, Zenon DEF Types
  <2> QED BY <1>3, <1>7, <2>1, <2>2, Zenon DEF Types
<1>9. Dated' /\ Asked'
  BY <1>1, Zenon DEF NotesInv, Dated, Asked
<1>10. Drawn'
  <2>1. CASE trig' = <<>>
    <3>1. Len(trig) = 1
      BY <1>3, <2>1
    <3>2. t = Regrouped
      <4>1. Nt!Last(trig) = Regrouped
        BY <1>1, Zenon DEF NotesInv, Drawn
      <4> QED BY <1>3, <3>1, <4>1 DEF Nt!Last
    <3> QED BY <1>1, <1>7, <2>1, <3>2 DEF Drawn
  <2>2. CASE trig' # <<>>
    <3>1. Len(trig') # 0
      BY <1>3, <2>2
    <3>2. Nt!Last(trig') = trig'[Len(trig')] /\ Nt!Last(trig) = trig[Len(trig)]
      BY DEF Nt!Last
    <3>3. Nt!Last(trig') = Nt!Last(trig)
      BY <1>3, <3>1, <3>2
    <3>4. Nt!Last(trig) = Regrouped
      BY <1>1, Zenon DEF NotesInv, Drawn
    <3> QED BY <2>2, <3>3, <3>4 DEF Drawn
  <2> QED BY <2>1, <2>2
<1>11. ~m.collided => Good'
  <2> SUFFICES ASSUME ~m.collided PROVE Good'
    OBVIOUS
  <2>1. OwnCalls /\ Fit(m, trig, out, s, RowTable)
    BY Zenon DEF NotesInv, Good
  <2>2. s' = s /\ m' = m /\ q' = q /\ out' = out
    BY <1>1
  <2>3. Tells(TriggerLog(trig'), RowTable', m.list)
    <3> DEFINE e == TriggerLog(trig)
               f == TriggerLog(trig')
               now == RowTable'
    <3>1. /\ DOMAIN e = DOMAIN trig /\ DOMAIN f = DOMAIN trig' /\ e[1] = e1
          /\ \A k \in DOMAIN trig : e[k] = OfTrigger(trig[k])
          /\ \A k \in DOMAIN trig' : f[k] = OfTrigger(trig'[k])
      BY <1>3, Zenon DEF TriggerLog, e1
    <3>2. \A k \in 1..Len(trig') : f[k] = e[k + 1]
      BY <1>3, <3>1, Zenon
    <3>3. Tells(e, RowTable, m.list)
      BY <2>1, Zenon DEF Fit
    <3>4. /\ DOMAIN now = DOMAIN rows'.row /\ \A id \in DOMAIN rows'.row : now[id] = rows'.row[id].note
          /\ DOMAIN RowTable = DOMAIN rows.row /\ \A id \in DOMAIN rows.row : RowTable[id] = rows.row[id].note
      BY DEF RowTable
    <3> HIDE DEF e, f, now
    <3>5. \A id \in Ids_ : id # e1.id =>
           (id \in DOMAIN now <=> id \in DOMAIN RowTable) /\ (id \in DOMAIN RowTable => now[id] = RowTable[id])
      BY <1>7, <3>4
    <3>6. e1.id \in Ids_ => (e1.id \in DOMAIN now <=> e1.on) /\ (e1.on => now[e1.id] = e1.note)
      BY <1>7, <3>4
    <3>7. DOMAIN e = 1..Len(trig') + 1 /\ DOMAIN f = 1..Len(trig') /\ Len(trig') \in Nat /\ e[1] = e1
      BY <1>3, <3>1
    <3>8. /\ \A id \in Ids_ : id # e[1].id =>
               (id \in DOMAIN now <=> id \in DOMAIN RowTable) /\ (id \in DOMAIN RowTable => now[id] = RowTable[id])
          /\ e[1].id \in Ids_ => (e[1].id \in DOMAIN now <=> e[1].on) /\ (e[1].on => now[e[1].id] = e[1].note)
      BY <3>5, <3>6, <3>7, Zenon
    <3>9. Tells(f, now, m.list)
      <4> DEFINE n == Len(trig')
      <4>1. DOMAIN e = 1..n + 1 /\ DOMAIN f = 1..n /\ n \in Nat /\ \A k \in 1..n : f[k] = e[k + 1]
        BY <3>2, <3>7
      <4> DEFINE was == RowTable
      <4>2. /\ Tells(e, was, m.list)
            /\ \A id \in Ids_ : id # e[1].id =>
                 (id \in DOMAIN now <=> id \in DOMAIN was) /\ (id \in DOMAIN was => now[id] = was[id])
            /\ e[1].id \in Ids_ => (e[1].id \in DOMAIN now <=> e[1].on) /\ (e[1].on => now[e[1].id] = e[1].note)
        BY <3>3, <3>8, Zenon
      <4>3. ReadInto(e, f, was, now)
        <5> HIDE DEF n, was
        <5> QED BY <4>1, <4>2, Zenon DEF ReadInto
      <4> QED BY <4>2, <4>3, ReadTells, Zenon
    <3> QED BY <3>9, Zenon DEF f, now
  <2>4. Fit(m', trig', out', s', RowTable')
    BY <2>1, <2>2, <2>3, Zenon DEF Fit
  <2>5. OwnCalls'
    BY <2>1, <2>2, Zenon DEF OwnCalls
  <2> QED BY <2>4, <2>5 DEF Good
<1> QED BY <1>1, <1>8, <1>9, <1>10, <1>11 DEF NotesInv

LEMMA NotesInitKeeps == ASSUME NotesAllowed, Nt!Init PROVE NotesInv
<1>1. PICK ids \in SUBSET {1} : s = [open |-> <<>>, given |-> [id \in ids |-> CHOOSE app \in Apps : TRUE]]
  BY Zenon DEF Nt!Init
<1>2. /\ m = Nt!New /\ q = <<>> /\ out = <<>> /\ trig = <<>>
      /\ rows = [row |-> <<>>, active |-> "none", count |-> 0] /\ steps = 0
  BY Zenon DEF Nt!Init
<1>3. (CHOOSE app \in Apps : TRUE) \in Apps
  BY DEF NotesAllowed
<1> DEFINE first == CHOOSE app \in Apps : TRUE
           given == [id \in ids |-> first]
<1>4. s.open = <<>> /\ s.given = given /\ s = [open |-> <<>>, given |-> given]
  BY <1>1
<1> HIDE DEF first
<1>5. IsTable(<<>>) /\ DOMAIN <<>> = {}
  BY DEF IsTable
<1>6. IsTable(given) /\ DOMAIN given = ids /\ \A id \in ids : given[id] = first
  BY DEF IsTable
<1> HIDE DEF given
<1>7. Nt!New \in Variables
  <2>1. <<>> \in Timers
    <3>1. <<>> \in [{} -> Nat]
      BY DEF Timers
    <3> QED BY <3>1 DEF Timers
  <2> QED BY <2>1 DEF Nt!New, Variables, Ids_
<1>8. Types
  <2>1. DOMAIN s.given \subseteq Ids_
    BY <1>4, <1>6 DEF Ids_
  <2>2. \A id \in DOMAIN s.given : s.given[id] \in Apps
    BY <1>3, <1>4, <1>6 DEF first
  <2>3. steps \in 0..MaxNotes
    BY <1>2 DEF NotesAllowed
  <2>4. rows.row = <<>> /\ rows = [row |-> rows.row, active |-> rows.active, count |-> rows.count]
    BY <1>2
  <2>5. s = [open |-> s.open, given |-> s.given] /\ IsTable(s.open) /\ IsTable(s.given)
        /\ DOMAIN s.open \subseteq DOMAIN s.given
    BY <1>4, <1>5, <1>6
  <2> QED BY <1>2, <1>5, <1>7, <2>1, <2>2, <2>3, <2>4, <2>5 DEF Types
<1>9. m.list = <<>> /\ DOMAIN m.list = {} /\ m.expanded_group = "none" /\ DOMAIN q = {} /\ DOMAIN out = {}
      /\ DOMAIN trig = {} /\ DOMAIN s.open = {} /\ rows.row = <<>> /\ DOMAIN rows.row = {}
      /\ rows.active = "none" /\ rows.count = 0 /\ Len(m.list) = 0
  BY <1>2, <1>4 DEF Nt!New
<1>10. Dated /\ Asked /\ Drawn
  BY <1>2, <1>9 DEF Dated, Asked, Drawn
<1>11. Good
  <2>1. OwnCalls /\ Apart(m.list) /\ Fresh(m, out, s) /\ Expanded(m)
    BY <1>9 DEF OwnCalls, Apart, Fresh, Expanded
  <2>2. OneOwner(m, out, s)
    BY <1>9, Zenon DEF OneOwner, Owns
  <2>3. \A id, on, note : on = FALSE => IsSo(m.list, id, on, note)
    BY <1>9 DEF IsSo
  <2>4. DOMAIN RowTable = {} /\ DOMAIN TriggerLog(trig) = {} /\ DOMAIN MessageLog(out) = {}
    BY <1>9 DEF RowTable, TriggerLog, MessageLog
  <2>5. \A e, tab : DOMAIN e = {} /\ DOMAIN tab = {} => Tells(e, tab, m.list)
    <3> SUFFICES ASSUME NEW e, NEW tab, DOMAIN e = {}, DOMAIN tab = {} PROVE Tells(e, tab, m.list)
      OBVIOUS
    <3>1. ASSUME NEW id \in Ids_
          PROVE  (\A k \in DOMAIN e : e[k].id # id) /\ IsSo(m.list, id, id \in DOMAIN tab, tab[id])
      <4>1. (id \in DOMAIN tab) = FALSE
        OBVIOUS
      <4> QED BY <2>3, <4>1
    <3> QED BY <3>1, Zenon DEF Tells
  <2>6. Tells(TriggerLog(trig), RowTable, m.list) /\ Tells(MessageLog(out), s.open, m.list)
    BY <1>9, <2>4, <2>5, Zenon
  <2> QED BY <2>1, <2>2, <2>6 DEF Good, Fit
<1> QED BY <1>8, <1>10, <1>11 DEF NotesInv

LEMMA NotesNextKeeps == ASSUME NotesAllowed, NotesInv, [Nt!Turns \/ Nt!Works \/ Nt!Acts]_(Nt!vars) PROVE NotesInv'
<1>1. CASE Nt!ReadsCall
  BY <1>1, ReadsCallKeeps
<1>2. CASE Nt!Handles
  BY <1>2, NotesHandlesKeeps
<1>3. CASE Nt!Hears
  BY <1>3, HearsKeeps
<1>4. CASE \E h \in DOMAIN m.timers : Nt!Timeout(h)
  BY <1>4, TimeoutKeeps
<1>5. CASE \E app \in Apps, id \in {0} \cup DOMAIN s.given, timed \in BOOLEAN : Nt!Notifies(app, id, timed)
  BY <1>5, NotifiesKeeps
<1>6. CASE \E id \in DOMAIN s.given : Nt!Closes(id)
  BY <1>6, ClosesKeeps
<1>7. CASE \E id \in DOMAIN rows.row : Nt!UserExpands(id) \/ Nt!UserCloses(id) \/ Nt!UserActs(id)
  BY <1>7, ExpandsKeeps, UserClosesKeeps, ActsKeeps
<1>8. CASE Nt!UserCollapses
  BY <1>8, CollapsesKeeps
<1>9. CASE UNCHANGED Nt!vars
  <2>1. UNCHANGED <<s, m, q, out, trig, rows, steps>>
    BY <1>9 DEF Nt!vars
  <2> QED BY <2>1, Zenon DEF NotesInv, Types, Dated, Asked, Drawn, Good, OwnCalls, RowTable
<1> QED BY <1>1, <1>2, <1>3, <1>4, <1>5, <1>6, <1>7, <1>8, <1>9, Zenon DEF Nt!Turns, Nt!Works, Nt!Acts

----------------------------------------------------------------------------
(* What the invariant says *)

\* A notification's id leads back to its place
LEMMA LookedUp ==
  ASSUME NotesInv, Apart(m.list), NEW i \in DOMAIN m.list PROVE Nt!Lookup(m, m.list[i].id) = i /\ i # 0
<1>1. m.list \in Seq(Items)
  BY DEF NotesInv, Types, Variables
<1> DEFINE at == Nt!Lookup(m, m.list[i].id)
<1>2. at # 0 /\ at \in DOMAIN m.list /\ m.list[at].id = m.list[i].id
  BY <1>1, Found, Zenon
<1> HIDE DEF at
<1>3. at = i
  BY <1>2, Zenon DEF Apart
<1> QED BY <1>2, <1>3 DEF at

\* One row is drawn for a group that is not expanded
LEMMA GroupDrawn ==
  ASSUME NotesInv, Apart(m.list), NEW app, app # m.expanded_group, Nt!Members(m, app) # {}
  PROVE  \E i \in DOMAIN m.list : m.list[i].app = app /\ Nt!Group(m, m.list[i].id) # "hidden"
<1>1. m.list \in Seq(Items)
  BY DEF NotesInv, Types, Variables
<1> DEFINE same == Nt!Members(m, app)
           k == Nt!Min(same)
<1>2. same = {i \in DOMAIN m.list : m.list[i].app = app}
  BY Zenon DEF Nt!Members
<1>3. same \subseteq Nat /\ same # {}
  BY <1>1, <1>2
<1>4. k \in same /\ \A i \in same : k <= i
  <2> HIDE DEF same
  <2> QED BY <1>3, Least
<1>5. k \in DOMAIN m.list /\ m.list[k].app = app
  BY <1>2, <1>4
<1> HIDE DEF k
<1> DEFINE id == m.list[k].id
<1>6. Nt!Lookup(m, id) = k /\ k # 0
  BY <1>5, LookedUp
<1> HIDE DEF id
<1>7. Nt!Group(m, id) = CASE k = 0 -> "hidden"
        [] k # 0 /\ app = m.expanded_group -> "visible"
        [] k # 0 /\ app # m.expanded_group /\ Nt!Cardinality(same) = 1 -> "sole"
        [] OTHER -> IF \A i \in same : k <= i THEN "header" ELSE "hidden"
  BY <1>5, <1>6, Zenon DEF Nt!Group
<1>8. Nt!Group(m, id) # "hidden"
  <2> HIDE DEF same
  <2>1. CASE Nt!Cardinality(same) = 1
    BY <1>6, <1>7, <2>1
  <2>2. CASE Nt!Cardinality(same) # 1
    BY <1>4, <1>6, <1>7, <2>2
  <2> QED BY <2>1, <2>2
<1> QED BY <1>5, <1>8, Zenon DEF id

LEMMA Counting == \A S : Nt!Cardinality(S) = Cardinality(S)
BY Zenon DEF Nt!Cardinality, Cardinality

LEMMA ListCounted ==
  ASSUME m.list \in Seq(Items), Apart(m.list) PROVE Len(m.list) = Cardinality(Nt!Ids(m))
<1> DEFINE l == m.list
           f == [i \in 1..Len(l) |-> l[i].id]
<1>1. Len(l) \in Nat /\ DOMAIN l = 1..Len(l)
  OBVIOUS
<1>2. \A id : id \in Nt!Ids(m) <=> \E i \in DOMAIN l : id = l[i].id
  BY Zenon DEF Nt!Ids, Nt!Range
<1> HIDE DEF l
<1>3. f \in [1..Len(l) -> Nt!Ids(m)]
  BY <1>1, <1>2
<1>4. \A a, b \in 1..Len(l) : f[a] = f[b] => a = b
  BY <1>1 DEF Apart, l
<1>5. \A id \in Nt!Ids(m) : \E i \in 1..Len(l) : f[i] = id
  BY <1>1, <1>2
<1> HIDE DEF f
<1>6. IsInjective(f)
  BY <1>3, <1>4 DEF IsInjective
<1>7. f \in Bijection(1..Len(l), Nt!Ids(m))
  BY <1>3, <1>5, <1>6, Zenon DEF Bijection, Injection, Surjection
<1>8. ExistsBijection(1..Len(l), Nt!Ids(m))
  BY <1>7 DEF ExistsBijection
<1> QED BY <1>1, <1>8, FS_CountingElements DEF l

LEMMA Rest == ASSUME NotesInv PROVE Nt!NotificationsShown
<1> SUFFICES ASSUME Nt!Idle, ~m.collided
             PROVE  /\ DOMAIN rows.row = Nt!Ids(m) /\ Len(m.list) = Nt!Cardinality(Nt!Ids(m))
                    /\ \A n \in Nt!Range(m.list) : rows.row[n.id] = Nt!Row(m, n.id, Nt!Note(n.app, n.text))
                    /\ rows.active = m.expanded_group /\ rows.count = Len(m.list)
                    /\ \A app \in {n.app : n \in Nt!Range(m.list)} :
                         \/ app = m.expanded_group
                         \/ \E n \in Nt!Range(m.list) : n.app = app /\ rows.row[n.id].group # "hidden"
                    /\ m.expanded_group = "none" \/ Nt!Members(m, m.expanded_group) # {}
                    /\ s.open = [id \in Nt!Ids(m) |-> rows.row[id].note]
  BY Zenon DEF Nt!NotificationsShown
<1> DEFINE l == m.list
<1>1. q = <<>> /\ out = <<>> /\ trig = <<>>
  BY DEF Nt!Idle
<1>2. /\ l \in Seq(Items) /\ IsTable(s.open) /\ DOMAIN s.open \subseteq DOMAIN s.given
      /\ DOMAIN s.given \subseteq Ids_ /\ DOMAIN rows.row \subseteq Ids_
  <2>1. m \in Variables
    BY Zenon DEF NotesInv, Types
  <2>2. l \in Seq(Items)
    BY <2>1 DEF Variables
  <2> QED BY <2>2, Zenon DEF NotesInv, Types
<1>3. /\ Apart(l) /\ Expanded(m) /\ Tells(TriggerLog(<<>>), RowTable, l) /\ Tells(MessageLog(<<>>), s.open, l)
  BY <1>1, Zenon DEF NotesInv, Good, Fit
<1>4. /\ rows.active = m.expanded_group /\ rows.count = Len(l)
      /\ \A id \in DOMAIN rows.row : rows.row[id] = Nt!Row(m, id, rows.row[id].note)
  BY <1>1, Zenon DEF NotesInv, Drawn
<1>5. DOMAIN TriggerLog(<<>>) = {} /\ DOMAIN MessageLog(<<>>) = {}
  BY DEF TriggerLog, MessageLog
<1>6. \A id : id \in Nt!Ids(m) <=> \E i \in DOMAIN l : id = l[i].id
  BY Zenon DEF Nt!Ids, Nt!Range
<1>7. \A n : n \in Nt!Range(l) <=> \E i \in DOMAIN l : n = l[i]
  BY Zenon DEF Nt!Range
<1> HIDE DEF l
<1>8. /\ \A id \in Ids_ : IsSo(l, id, id \in DOMAIN RowTable, RowTable[id])
      /\ \A id \in Ids_ : IsSo(l, id, id \in DOMAIN s.open, s.open[id])
  BY <1>3, <1>5 DEF Tells
<1>9. \A i \in DOMAIN l : l[i].id \in Ids_
  <2>1. \A i \in DOMAIN l : l[i] \in Items
    BY <1>2
  <2> QED BY <2>1 DEF Items
<1>10. /\ DOMAIN RowTable = DOMAIN rows.row /\ \A id \in DOMAIN rows.row : RowTable[id] = rows.row[id].note
  BY DEF RowTable
<1>11. \A id \in Ids_ : (id \in DOMAIN rows.row <=> id \in Nt!Ids(m)) /\ (id \in DOMAIN s.open <=> id \in Nt!Ids(m))
  <2> SUFFICES ASSUME NEW id \in Ids_
               PROVE  (id \in DOMAIN rows.row <=> id \in Nt!Ids(m)) /\ (id \in DOMAIN s.open <=> id \in Nt!Ids(m))
    OBVIOUS
  <2>1. (\E i \in DOMAIN l : l[i].id = id) <=> id \in Nt!Ids(m)
    BY <1>6
  <2>2. id \in DOMAIN RowTable <=> \E i \in DOMAIN l : l[i].id = id
    BY <1>8, Zenon DEF IsSo
  <2>3. id \in DOMAIN s.open <=> \E i \in DOMAIN l : l[i].id = id
    BY <1>8, Zenon DEF IsSo
  <2> QED BY <1>10, <2>1, <2>2, <2>3
<1>12. DOMAIN rows.row = Nt!Ids(m) /\ DOMAIN s.open = Nt!Ids(m)
  <2>1. Nt!Ids(m) \subseteq Ids_
    BY <1>6, <1>9
  <2>2. DOMAIN s.open \subseteq Ids_ /\ DOMAIN rows.row \subseteq Ids_
    BY <1>2
  <2> QED BY <1>11, <2>1, <2>2
<1>13. \A i \in DOMAIN l :
         /\ rows.row[l[i].id] = Nt!Row(m, l[i].id, Nt!Note(l[i].app, l[i].text))
         /\ s.open[l[i].id] = rows.row[l[i].id].note
  <2> SUFFICES ASSUME NEW i \in DOMAIN l
               PROVE  /\ rows.row[l[i].id] = Nt!Row(m, l[i].id, Nt!Note(l[i].app, l[i].text))
                      /\ s.open[l[i].id] = rows.row[l[i].id].note
    OBVIOUS
  <2> DEFINE id == l[i].id
  <2>1. id \in Ids_ /\ id \in DOMAIN rows.row
    BY <1>6, <1>9, <1>12
  <2>2. RowTable[id] = Nt!Note(l[i].app, l[i].text) /\ s.open[id] = Nt!Note(l[i].app, l[i].text)
    <3>1. \A x, on, note : IsSo(l, x, on, note) => (l[i].id = x => note = Nt!Note(l[i].app, l[i].text))
      BY Zenon DEF IsSo
    <3>2. IsSo(l, id, id \in DOMAIN RowTable, RowTable[id]) /\ IsSo(l, id, id \in DOMAIN s.open, s.open[id])
      BY <1>8, <2>1, Zenon
    <3> QED BY <3>1, <3>2, Zenon
  <2>3. rows.row[id].note = Nt!Note(l[i].app, l[i].text)
    BY <1>10, <2>1, <2>2
  <2> HIDE DEF id
  <2>4. rows.row[id] = Nt!Row(m, id, rows.row[id].note)
    BY <1>4, <2>1
  <2> QED BY <2>2, <2>3, <2>4 DEF id
<1>14. \A n \in Nt!Range(m.list) : rows.row[n.id] = Nt!Row(m, n.id, Nt!Note(n.app, n.text))
  BY <1>7, <1>13 DEF l
<1>15. ASSUME NEW app \in {n.app : n \in Nt!Range(m.list)}, app # m.expanded_group
       PROVE  \E n \in Nt!Range(m.list) : n.app = app /\ rows.row[n.id].group # "hidden"
  <2>1. PICK k \in DOMAIN l : app = l[k].app
    BY <1>7 DEF l
  <2>2. Nt!Members(m, app) # {}
    BY <2>1 DEF Nt!Members, l
  <2>3. PICK i \in DOMAIN l : l[i].app = app /\ Nt!Group(m, l[i].id) # "hidden"
    BY <1>3, <1>15, <2>2, GroupDrawn, Zenon DEF l
  <2>4. rows.row[l[i].id] = Nt!Row(m, l[i].id, Nt!Note(l[i].app, l[i].text))
    BY <1>13
  <2>5. Nt!Row(m, l[i].id, Nt!Note(l[i].app, l[i].text)).group = Nt!Group(m, l[i].id)
    BY DEF Nt!Row
  <2>6. l[i] \in Nt!Range(m.list)
    BY <1>7 DEF l
  <2> QED BY <2>3, <2>4, <2>5, <2>6
<1>16. m.expanded_group = "none" \/ Nt!Members(m, m.expanded_group) # {}
  BY <1>3 DEF Expanded, Nt!Members
<1>17. s.open = [id \in Nt!Ids(m) |-> rows.row[id].note]
  <2>1. s.open = [id \in Nt!Ids(m) |-> s.open[id]]
    BY <1>2, <1>12 DEF IsTable
  <2>2. \A id \in Nt!Ids(m) : s.open[id] = rows.row[id].note
    BY <1>6, <1>13
  <2> QED BY <2>1, <2>2
<1>18. Len(m.list) = Nt!Cardinality(Nt!Ids(m))
  BY <1>2, <1>3, ListCounted, Counting DEF l
<1> QED BY <1>4, <1>12, <1>14, <1>15, <1>16, <1>17, <1>18, Zenon DEF l

LEMMA Typed == ASSUME NotesInv PROVE Nt!TypeOK
<1>1. Types /\ Dated
  BY Zenon DEF NotesInv
<1>2. /\ DOMAIN s.open \subseteq DOMAIN s.given /\ \A id \in DOMAIN s.given : s.given[id] \in Apps
      /\ m \in Variables /\ steps \in 0..MaxNotes
  BY <1>1, Zenon DEF Types
<1>3. Nt!Range(s.given) \subseteq Apps
  BY <1>2 DEF Nt!Range
<1>4. m.expanded_group \in Apps \cup {"none"} /\ m.emit = <<>> /\ m.out = <<>> /\ m.list \in Seq(Items)
  BY <1>2 DEF Variables
<1>5. ASSUME NEW n \in Nt!Range(m.list)
      PROVE  n.app \in Apps /\ n.alloc \in 1..steps /\ n.timeout_handle \in 0..steps
  <2>1. PICK i \in DOMAIN m.list : n = m.list[i]
    BY DEF Nt!Range
  <2>2. n \in Items
    BY <1>4, <2>1
  <2>3. n.alloc \in 1..steps /\ n.timeout_handle \in 0..steps
    BY <1>1, <2>1, Zenon DEF Dated
  <2> QED BY <2>2, <2>3 DEF Items
<1> QED BY <1>2, <1>3, <1>4, <1>5 DEF Nt!TypeOK

\* Whatever clients ask for, whatever times out and whatever the user does, and in
\* which order what they cause is read (modules/ncenter.c, config/ncenter.widget):
\* once nothing is under way each notification has its row, with its last contents
\* and drawn as its group demands, and the clients know of what is open.
THEOREM NotesAreShown == ASSUME NotesAllowed PROVE NotesSpec => []Nt!NotificationsShown
<1>1. Nt!Init => NotesInv
  BY NotesInitKeeps
<1>2. NotesInv /\ [Nt!Turns \/ Nt!Works \/ Nt!Acts]_(Nt!vars) => NotesInv'
  BY NotesNextKeeps
<1>3. NotesInv => Nt!NotificationsShown
  BY Rest
<1> QED BY <1>1, <1>2, <1>3, PTL DEF NotesSpec

\* Everything keeps its type, and a notification's memory and timer are never
\* newer than the calls that were made.
THEOREM NotesAreTyped == ASSUME NotesAllowed PROVE NotesSpec => []Nt!TypeOK
<1>1. Nt!Init => NotesInv
  BY NotesInitKeeps
<1>2. NotesInv /\ [Nt!Turns \/ Nt!Works \/ Nt!Acts]_(Nt!vars) => NotesInv'
  BY NotesNextKeeps
<1>3. NotesInv => Nt!TypeOK
  BY Typed
<1> QED BY <1>1, <1>2, <1>3, PTL DEF NotesSpec
=============================================================================
