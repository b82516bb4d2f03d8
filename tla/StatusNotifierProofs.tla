------------------------ MODULE StatusNotifierProofs ------------------------
(***************************************************************************)
(* Proofs about StatusNotifier, for any applications, properties and        *)
(* layouts and any number of changes: the types with what ties the host's   *)
(* list, its items, the icons and the calls together, what the menus show,  *)
(* and that an answer finds its item.                                       *)
(*                                                                          *)
(* The first parts are about sequences: a sum over one, the messages of one *)
(* that are in a set, what an inbox is after a step (Sends) and the order   *)
(* of those in it.  A step is then looked at as a handler from a state to a *)
(* state of items, icons and calls (States), as the actions are written.    *)
(***************************************************************************)
EXTENDS StatusNotifier, WellFoundedInduction, FiniteSetTheorems, TLAPS

\* A set of numbers has a least one, and what holds of 0 and of the next one of each
\* holds of all.
LEMMA Least ==
  ASSUME NEW T \in SUBSET Nat, T # {}
  PROVE  \E n \in T : \A k \in T : ~(k < n)
<1>1. \E x \in T : \A y \in T : ~(<<y, x>> \in OpToRel(<, Nat))
  BY NatLessThanWellFounded, WFMin
<1>2. PICK x \in T : \A y \in T : ~(<<y, x>> \in OpToRel(<, Nat))
  BY <1>1
<1>3. \A y \in T : ~(y < x)
  BY <1>2 DEF OpToRel
<1> QED BY <1>3

LEMMA Induction ==
  ASSUME NEW S, 0 \in S, \A n \in Nat : n \in S => n + 1 \in S
  PROVE  \A n \in Nat : n \in S
<1> SUFFICES ASSUME ~(\A n \in Nat : n \in S) PROVE FALSE
  OBVIOUS
<1> DEFINE T == {n \in Nat : n \notin S}
<1>1. T \in SUBSET Nat /\ T # {}
  OBVIOUS
<1>2. PICK n \in T : \A k \in T : ~(k < n)
  BY <1>1, Least
<1>3. n # 0 /\ n - 1 \in Nat /\ n - 1 \in T
  BY SMT
<1> QED BY <1>2, <1>3

LEMMA MaxOf ==
  ASSUME NEW n \in Nat, NEW x \in SUBSET (1..n + 1), n + 1 \in x
  PROVE  Max(x) = n + 1
<1>1. \A y \in x : n + 1 >= y
  OBVIOUS
<1>2. \A z \in x : (\A y \in x : z >= y) => z = n + 1
  OBVIOUS
<1> QED BY <1>1, <1>2, Zenon DEF Max

\* A function that is defined by recursion on a number
Recursive(f, d, g, N) == f = [n \in 0..N |-> IF n = 0 THEN d ELSE g[n][f[n - 1]]]

LEMMA Recursion ==
  ASSUME NEW D, NEW d \in D, NEW N \in Nat, NEW g \in [1..N -> [D -> D]]
  PROVE  \E f \in [0..N -> D] : Recursive(f, d, g, N)
<1> DEFINE Good(k) == \E f \in [0..k -> D] : f[0] = d /\ \A n \in 1..k : f[n] = g[n][f[n - 1]]
           S == {k \in Nat : k <= N => Good(k)}
<1>1. 0 \in S
  <2>1. [n \in 0..0 |-> d] \in [0..0 -> D] /\ [n \in 0..0 |-> d][0] = d
    OBVIOUS
  <2>2. 1..0 = {}
    OBVIOUS
  <2>3. Good(0)
    BY <2>1, <2>2
  <2> QED BY <2>3
<1>2. ASSUME NEW k \in Nat, k \in S PROVE k + 1 \in S
  <2> SUFFICES ASSUME k + 1 <= N PROVE Good(k + 1)
    OBVIOUS
  <2>1. PICK f \in [0..k -> D] : f[0] = d /\ \A n \in 1..k : f[n] = g[n][f[n - 1]]
    BY <1>2
  <2> DEFINE v == g[k + 1][f[k]]
             h == [n \in 0..k + 1 |-> IF n = k + 1 THEN v ELSE f[n]]
  <2>2. v \in D
    <3>1. k \in 0..k /\ k + 1 \in 1..N
      OBVIOUS
    <3>2. f[k] \in D /\ g[k + 1] \in [D -> D]
      BY <3>1
    <3> QED BY <3>2
  <2> HIDE DEF v
  <2>3. h \in [0..k + 1 -> D] /\ h[0] = d /\ h[k + 1] = v
    BY <2>1, <2>2
  <2>4. \A n \in 0..k : h[n] = f[n]
    OBVIOUS
  <2>5. ASSUME NEW n \in 1..k + 1 PROVE h[n] = g[n][h[n - 1]]
    <3>1. CASE n = k + 1
      <4>1. n - 1 = k /\ k \in 0..k
        BY <3>1
      <4>2. h[n - 1] = f[k]
        BY <2>4, <4>1
      <4> QED BY <2>3, <3>1, <4>2 DEF v
    <3>2. CASE n # k + 1
      <4>1. n \in 1..k /\ n \in 0..k /\ n - 1 \in 0..k
        BY <3>2
      <4>2. h[n] = f[n] /\ h[n - 1] = f[n - 1]
        BY <2>4, <4>1
      <4> QED BY <2>1, <4>1, <4>2
    <3> QED BY <3>1, <3>2
  <2> HIDE DEF h
  <2> QED BY <2>3, <2>5
<1> HIDE DEF S
<1>3. \A k \in Nat : k \in S
  BY <1>1, <1>2, Induction
<1>4. Good(N)
  BY <1>3 DEF S
<1>5. PICK f \in [0..N -> D] : f[0] = d /\ \A n \in 1..N : f[n] = g[n][f[n - 1]]
  BY <1>4
<1>6. \A n \in 0..N : f[n] = IF n = 0 THEN d ELSE g[n][f[n - 1]]
  BY <1>5
<1>7. Recursive(f, d, g, N)
  BY <1>6 DEF Recursive
<1> QED BY <1>7

\* The fold of a sequence: by the set of the places that are taken, the last one
\* first
Folded(f, d, g, N) ==
  \A x \in SUBSET (1..N) : f[x] = IF x = {} THEN d ELSE g[Max(x)][f[x \ {Max(x)}]]

LEMMA Folding ==
  ASSUME NEW D, NEW d \in D, NEW N \in Nat, NEW g \in [1..N -> [D -> D]]
  PROVE  \E f \in [SUBSET (1..N) -> D] : Folded(f, d, g, N)
<1> DEFINE Fits(f, x) == f[x] = IF x = {} THEN d ELSE g[Max(x)][f[x \ {Max(x)}]]
           Good(k) == \E f \in [SUBSET (1..k) -> D] : \A x \in SUBSET (1..k) : Fits(f, x)
           S == {k \in Nat : k <= N => Good(k)}
<1>1. 0 \in S
  <2> DEFINE f == [x \in SUBSET (1..0) |-> d]
  <2>1. SUBSET (1..0) = {{}}
    OBVIOUS
  <2>2. f \in [SUBSET (1..0) -> D] /\ f[{}] = d
    BY <2>1
  <2>3. \A x \in SUBSET (1..0) : Fits(f, x)
    BY <2>1, <2>2, Zenon
  <2>4. Good(0)
    BY <2>2, <2>3, Zenon
  <2> QED BY <2>4
<1>2. ASSUME NEW k \in Nat, k \in S PROVE k + 1 \in S
  <2>0. k <= N => Good(k)
    BY <1>2, Zenon
  <2> HIDE DEF Good
  <2> SUFFICES ASSUME k + 1 <= N PROVE Good(k + 1)
    OBVIOUS
  <2>a. Good(k)
    BY <2>0
  <2>1. PICK f \in [SUBSET (1..k) -> D] : \A x \in SUBSET (1..k) : Fits(f, x)
    BY <2>a, Zenon DEF Good
  <2> HIDE DEF S
  <2> DEFINE h == [x \in SUBSET (1..k + 1) |->
                     IF k + 1 \in x THEN g[k + 1][f[x \ {k + 1}]] ELSE f[x]]
  <2>2. \A x \in SUBSET (1..k + 1) : x \ {k + 1} \in SUBSET (1..k) /\ (k + 1 \notin x => x \in SUBSET (1..k))
    OBVIOUS
  <2>3. g[k + 1] \in [D -> D]
    OBVIOUS
  <2>4. h \in [SUBSET (1..k + 1) -> D]
    <3>1. ASSUME NEW x \in SUBSET (1..k + 1)
          PROVE  (IF k + 1 \in x THEN g[k + 1][f[x \ {k + 1}]] ELSE f[x]) \in D
      BY <2>2, <2>3, Zenon
    <3> QED BY <3>1
  <2>5. \A x \in SUBSET (1..k) : x \in SUBSET (1..k + 1) /\ k + 1 \notin x
    OBVIOUS
  <2>6. \A x \in SUBSET (1..k) : h[x] = f[x]
    BY <2>5, Zenon
  <2>7. ASSUME NEW x \in SUBSET (1..k + 1) PROVE Fits(h, x)
    <3>1. CASE k + 1 \in x
      <4>1. Max(x) = k + 1 /\ x # {}
        BY <3>1, MaxOf
      <4>2. h[x] = g[k + 1][f[x \ {k + 1}]] /\ h[x \ {k + 1}] = f[x \ {k + 1}]
        BY <2>2, <2>6, <3>1, Zenon
      <4> QED BY <4>1, <4>2, Zenon
    <3>2. CASE k + 1 \notin x
      <4>1. x \in SUBSET (1..k) /\ h[x] = f[x]
        BY <2>2, <2>6, <3>2
      <4>2. x \ {Max(x)} \in SUBSET (1..k)
        BY <4>1
      <4>3. h[x \ {Max(x)}] = f[x \ {Max(x)}]
        BY <2>6, <4>2
      <4>4. Fits(f, x)
        BY <2>1, <4>1
      <4> QED BY <4>1, <4>3, <4>4, Zenon
    <3> QED BY <3>1, <3>2
  <2> HIDE DEF h, Fits
  <2> QED BY <2>4, <2>7 DEF Good
<1> HIDE DEF S, Good
<1>3. \A k \in Nat : k \in S
  BY <1>1, <1>2, Induction
<1>4. Good(N)
  BY <1>3 DEF S
<1> QED BY <1>4, Zenon DEF Good, Folded

----------------------------------------------------------------------------
(* Sequences *)

\* What is in a sequence after one more, or without its first one
LEMMA InType == ASSUME NEW X, NEW e \in Seq(X) PROVE ToSet(e) \subseteq X
BY DEF ToSet

LEMMA SameSequence ==
  ASSUME NEW X, NEW d \in Seq(X), NEW e \in Seq(X), Len(d) = Len(e), \A n \in 1..Len(d) : d[n] = e[n]
  PROVE  d = e
OBVIOUS

LEMMA ConcatLength ==
  ASSUME NEW X, NEW d \in Seq(X), NEW e \in Seq(X)
  PROVE  d \o e \in Seq(X) /\ Len(d \o e) = Len(d) + Len(e)
OBVIOUS

LEMMA InOne == ASSUME NEW x PROVE ToSet(<<x>>) = {x}
BY DEF ToSet

LEMMA InNone == ToSet(<<>>) = {}
BY DEF ToSet

LEMMA InAppend ==
  ASSUME NEW X, NEW e \in Seq(X), NEW x \in X
  PROVE  Append(e, x) \in Seq(X) /\ ToSet(Append(e, x)) = ToSet(e) \cup {x}
<1>1. DOMAIN Append(e, x) = DOMAIN e \cup {Len(e) + 1} /\ Append(e, x)[Len(e) + 1] = x
  OBVIOUS
<1>2. \A n \in DOMAIN e : Append(e, x)[n] = e[n]
  OBVIOUS
<1> QED BY <1>1, <1>2 DEF ToSet

LEMMA InConcat ==
  ASSUME NEW X, NEW d \in Seq(X), NEW e \in Seq(X)
  PROVE  d \o e \in Seq(X) /\ ToSet(d \o e) = ToSet(d) \cup ToSet(e)
<1> DEFINE c == d \o e
<1>1. Len(c) = Len(d) + Len(e) /\ c \in Seq(X) /\ DOMAIN c = 1..Len(c)
  OBVIOUS
<1>2. \A n \in DOMAIN d : n \in DOMAIN c /\ c[n] = d[n]
  OBVIOUS
<1>3. \A n \in DOMAIN e : Len(d) + n \in DOMAIN c /\ c[Len(d) + n] = e[n]
  OBVIOUS
<1>4. \A n \in DOMAIN c : n \in DOMAIN d \/ \E k \in DOMAIN e : n = Len(d) + k
  <2> SUFFICES ASSUME NEW n \in DOMAIN c, n \notin DOMAIN d PROVE \E k \in DOMAIN e : n = Len(d) + k
    OBVIOUS
  <2>1. n - Len(d) \in DOMAIN e /\ n = Len(d) + (n - Len(d))
    BY <1>1
  <2> QED BY <2>1
<1> HIDE DEF c
<1>5. ToSet(c) \subseteq ToSet(d) \cup ToSet(e)
  BY <1>2, <1>3, <1>4 DEF ToSet
<1>6. ToSet(d) \subseteq ToSet(c) /\ ToSet(e) \subseteq ToSet(c)
  BY <1>2, <1>3 DEF ToSet
<1> QED BY <1>1, <1>5, <1>6 DEF c

LEMMA InTail ==
  ASSUME NEW X, NEW e \in Seq(X), e # <<>>
  PROVE  /\ Tail(e) \in Seq(X) /\ Head(e) \in X
         /\ ToSet(e) = {Head(e)} \cup ToSet(Tail(e))
         /\ e = <<Head(e)>> \o Tail(e)
<1>1. Tail(e) \in Seq(X) /\ Head(e) \in X /\ Head(e) = e[1] /\ 1 \in DOMAIN e
  OBVIOUS
<1>2. e = <<Head(e)>> \o Tail(e)
  OBVIOUS
<1>3. <<Head(e)>> \in Seq(X)
  BY <1>1
<1>4. ToSet(<<Head(e)>> \o Tail(e)) = ToSet(<<Head(e)>>) \cup ToSet(Tail(e))
  BY <1>1, <1>3, InConcat
<1> QED BY <1>1, <1>2, <1>4, InOne

\* The elements that are in S
ThoseOf(e, S, f) ==
  f = [n \in 0..Len(e) |-> IF n = 0 THEN <<>> ELSE IF e[n] \in S THEN Append(f[n - 1], e[n]) ELSE f[n - 1]]

LEMMA ThoseAre ==
  ASSUME NEW X, NEW e \in Seq(X), NEW S
  PROVE  \E f : ThoseOf(e, S, f) /\ Those(e, S) = f[Len(e)]
<1> DEFINE g == [n \in 1..Len(e) |-> [x \in Seq(X) |-> IF e[n] \in S THEN Append(x, e[n]) ELSE x]]
<1>1. g \in [1..Len(e) -> [Seq(X) -> Seq(X)]] /\ <<>> \in Seq(X) /\ Len(e) \in Nat
  OBVIOUS
<1> HIDE DEF g
<1>2. PICK f \in [0..Len(e) -> Seq(X)] : Recursive(f, <<>>, g, Len(e))
  BY <1>1, Recursion, Zenon
<1>3. ASSUME NEW n \in 0..Len(e)
      PROVE  f[n] = IF n = 0 THEN <<>> ELSE IF e[n] \in S THEN Append(f[n - 1], e[n]) ELSE f[n - 1]
  <2>1. CASE n = 0
    BY <1>2, <2>1 DEF Recursive
  <2>2. CASE n # 0
    <3>1. n \in 1..Len(e) /\ n - 1 \in 0..Len(e)
      BY <2>2
    <3>2. f[n - 1] \in Seq(X) /\ f[n] = g[n][f[n - 1]]
      BY <1>2, <2>2, <3>1 DEF Recursive
    <3> QED BY <2>2, <3>1, <3>2 DEF g
  <2> QED BY <2>1, <2>2
<1>4. ThoseOf(e, S, f)
  <2>1. f = [n \in 0..Len(e) |-> f[n]]
    OBVIOUS
  <2> QED BY <1>3, <2>1 DEF ThoseOf
<1> DEFINE h == CHOOSE x : ThoseOf(e, S, x)
<1>5. ThoseOf(e, S, h)
  BY <1>4, Zenon
<1>6. Those(e, S) = h[Len(e)]
  BY Zenon DEF Those, ThoseOf
<1> QED BY <1>5, <1>6, Zenon

LEMMA ThoseIn ==
  ASSUME NEW X, NEW e \in Seq(X), NEW S
  PROVE  Those(e, S) \in Seq(X) /\ ToSet(Those(e, S)) = ToSet(e) \cap S
<1>1. PICK f : ThoseOf(e, S, f) /\ Those(e, S) = f[Len(e)]
  BY ThoseAre, Zenon
<1> DEFINE Good(n) == f[n] \in Seq(X) /\ ToSet(f[n]) = {e[k] : k \in 1..n} \cap S
           T == {n \in Nat : n <= Len(e) => Good(n)}
<1>2. 0 \in T
  <2>1. f[0] = <<>>
    BY <1>1 DEF ThoseOf
  <2>2. {e[k] : k \in 1..0} = {}
    OBVIOUS
  <2>3. Good(0)
    BY <2>1, <2>2, InNone
  <2> QED BY <2>3
<1>3. ASSUME NEW n \in Nat, n \in T PROVE n + 1 \in T
  <2> SUFFICES ASSUME n + 1 <= Len(e) PROVE Good(n + 1)
    OBVIOUS
  <2>1. Good(n) /\ e[n + 1] \in X
    BY <1>3
  <2>2. f[n + 1] = IF e[n + 1] \in S THEN Append(f[n], e[n + 1]) ELSE f[n]
    <3>1. n + 1 \in 0..Len(e) /\ n + 1 # 0 /\ (n + 1) - 1 = n
      OBVIOUS
    <3> QED BY <1>1, <3>1 DEF ThoseOf
  <2>3. {e[k] : k \in 1..n + 1} = {e[k] : k \in 1..n} \cup {e[n + 1]}
    OBVIOUS
  <2>4. ToSet(Append(f[n], e[n + 1])) = ToSet(f[n]) \cup {e[n + 1]} /\ Append(f[n], e[n + 1]) \in Seq(X)
    BY <2>1, InAppend
  <2> QED BY <2>1, <2>2, <2>3, <2>4
<1> HIDE DEF T
<1>4. \A n \in Nat : n \in T
  BY <1>2, <1>3, Induction
<1>5. Good(Len(e))
  <2> HIDE DEF Good
  <2>1. Len(e) \in Nat
    OBVIOUS
  <2> QED BY <1>4, <2>1 DEF T
<1>6. ToSet(e) = {e[k] : k \in 1..Len(e)}
  BY DEF ToSet
<1> QED BY <1>1, <1>5, <1>6

----------------------------------------------------------------------------
(* Order *)

\* Every one of S is before every one of T
AllBefore(b, S, T) == \A n, p \in DOMAIN b : b[n] \in S /\ b[p] \in T => n < p
\* There is one of T, and none of S after it
Sealed(b, S, T) == \E n \in DOMAIN b : b[n] \in T /\ \A p \in DOMAIN b : b[p] \in S => p <= n
Once(b, x) == \A n, p \in DOMAIN b : b[n] = x /\ b[p] = x => n = p

LEMMA BeforeEmpty ==
  ASSUME NEW b, NEW S, NEW T, ToSet(b) \cap S = {} \/ ToSet(b) \cap T = {}
  PROVE  AllBefore(b, S, T)
BY DEF AllBefore, ToSet

LEMMA BeforeTail ==
  ASSUME NEW X, NEW b \in Seq(X), b # <<>>, NEW S, NEW T, AllBefore(b, S, T)
  PROVE  AllBefore(Tail(b), S, T) /\ (Head(b) \in T => ToSet(b) \cap S = {})
<1>1. \A n \in DOMAIN Tail(b) : n + 1 \in DOMAIN b /\ Tail(b)[n] = b[n + 1] /\ n \in Nat
  OBVIOUS
<1>2. Head(b) = b[1] /\ 1 \in DOMAIN b /\ \A n \in DOMAIN b : ~(n < 1)
  OBVIOUS
<1>3. AllBefore(Tail(b), S, T)
  <2> SUFFICES ASSUME NEW n \in DOMAIN Tail(b), NEW p \in DOMAIN Tail(b), Tail(b)[n] \in S, Tail(b)[p] \in T
               PROVE  n < p
    BY DEF AllBefore
  <2>1. n + 1 < p + 1
    BY <1>1 DEF AllBefore
  <2> QED BY <1>1, <2>1
<1> QED BY <1>2, <1>3 DEF AllBefore, ToSet

LEMMA Places ==
  ASSUME NEW X, NEW d \in Seq(X), NEW e \in Seq(X)
  PROVE  /\ \A n \in DOMAIN (d \o e) : n \in Nat
         /\ \A n \in DOMAIN (d \o e) : n <= Len(d) => n \in DOMAIN d /\ (d \o e)[n] = d[n]
         /\ \A n \in DOMAIN (d \o e) :
              ~(n <= Len(d)) => n - Len(d) \in DOMAIN e /\ (d \o e)[n] = e[n - Len(d)]
         /\ \A n \in DOMAIN d : n \in DOMAIN (d \o e) /\ n <= Len(d) /\ (d \o e)[n] = d[n]
         /\ \A n \in DOMAIN e : /\ Len(d) + n \in DOMAIN (d \o e) /\ ~(Len(d) + n <= Len(d))
                                /\ (d \o e)[Len(d) + n] = e[n]
OBVIOUS

LEMMA BeforeConcat ==
  ASSUME NEW X, NEW d \in Seq(X), NEW e \in Seq(X), NEW S, NEW T,
         AllBefore(d, S, T), AllBefore(e, S, T), ToSet(d) \cap T = {} \/ ToSet(e) \cap S = {}
  PROVE  AllBefore(d \o e, S, T)
<1> SUFFICES ASSUME NEW n \in DOMAIN (d \o e), NEW p \in DOMAIN (d \o e),
                    (d \o e)[n] \in S, (d \o e)[p] \in T
             PROVE  n < p
  BY DEF AllBefore
<1>0. n \in Nat /\ p \in Nat /\ Len(d) \in Nat
  BY Places
<1>1. CASE n <= Len(d) /\ p <= Len(d)
  <2>1. n \in DOMAIN d /\ p \in DOMAIN d /\ d[n] \in S /\ d[p] \in T
    BY <1>1, Places
  <2> QED BY <2>1 DEF AllBefore
<1>2. CASE n <= Len(d) /\ ~(p <= Len(d))
  BY <1>0, <1>2
<1>3. CASE ~(n <= Len(d)) /\ p <= Len(d)
  <2>1. n - Len(d) \in DOMAIN e /\ p \in DOMAIN d /\ e[n - Len(d)] \in S /\ d[p] \in T
    BY <1>3, Places
  <2> QED BY <2>1 DEF ToSet
<1>4. CASE ~(n <= Len(d)) /\ ~(p <= Len(d))
  <2>1. /\ n - Len(d) \in DOMAIN e /\ p - Len(d) \in DOMAIN e
        /\ e[n - Len(d)] \in S /\ e[p - Len(d)] \in T
    BY <1>4, Places
  <2>2. n - Len(d) < p - Len(d)
    BY <2>1, Zenon DEF AllBefore
  <2> QED BY <1>0, <2>2
<1> QED BY <1>1, <1>2, <1>3, <1>4

LEMMA SealedTail ==
  ASSUME NEW X, NEW b \in Seq(X), b # <<>>, NEW S, NEW T, Sealed(b, S, T)
  PROVE  \/ Sealed(Tail(b), S, T)
         \/ Head(b) \in T /\ ToSet(Tail(b)) \cap S = {}
<1>1. PICK n \in DOMAIN b : b[n] \in T /\ \A p \in DOMAIN b : b[p] \in S => p <= n
  BY DEF Sealed
<1>2. \A p \in DOMAIN Tail(b) : p + 1 \in DOMAIN b /\ Tail(b)[p] = b[p + 1] /\ p \in Nat /\ 1 <= p
  OBVIOUS
<1>3. CASE n = 1
  <2>1. Head(b) \in T
    BY <1>1, <1>3
  <2>2. \A p \in DOMAIN Tail(b) : Tail(b)[p] \notin S
    <3> SUFFICES ASSUME NEW p \in DOMAIN Tail(b), Tail(b)[p] \in S PROVE FALSE
      OBVIOUS
    <3>1. p + 1 <= 1
      BY <1>1, <1>2, <1>3
    <3> QED BY <1>2, <3>1
  <2> QED BY <2>1, <2>2 DEF ToSet
<1>4. CASE n # 1
  <2>1. n - 1 \in DOMAIN Tail(b) /\ Tail(b)[n - 1] = b[n] /\ n \in Nat
    BY <1>4
  <2>2. \A p \in DOMAIN Tail(b) : Tail(b)[p] \in S => p <= n - 1
    <3> SUFFICES ASSUME NEW p \in DOMAIN Tail(b), Tail(b)[p] \in S PROVE p <= n - 1
      OBVIOUS
    <3>1. p + 1 <= n
      BY <1>1, <1>2
    <3> QED BY <1>2, <2>1, <3>1
  <2>3. Tail(b)[n - 1] \in T
    BY <1>1, <2>1
  <2> QED BY <2>1, <2>2, <2>3, Zenon DEF Sealed
<1> QED BY <1>3, <1>4

LEMMA SealedConcat ==
  ASSUME NEW X, NEW d \in Seq(X), NEW e \in Seq(X), NEW S, NEW T,
         (Sealed(d, S, T) /\ ToSet(e) \cap S = {}) \/ Sealed(e, S, T)
  PROVE  Sealed(d \o e, S, T)
<1>0. Len(d) \in Nat
  OBVIOUS
<1>1. CASE Sealed(d, S, T) /\ ToSet(e) \cap S = {}
  <2>1. PICK n \in DOMAIN d : d[n] \in T /\ \A p \in DOMAIN d : d[p] \in S => p <= n
    BY <1>1 DEF Sealed
  <2>2. n \in DOMAIN (d \o e) /\ (d \o e)[n] \in T
    BY <2>1, Places
  <2>3. ASSUME NEW p \in DOMAIN (d \o e), (d \o e)[p] \in S PROVE p <= n
    <3>1. p <= Len(d)
      <4> SUFFICES ASSUME ~(p <= Len(d)) PROVE FALSE
        OBVIOUS
      <4>1. p - Len(d) \in DOMAIN e /\ e[p - Len(d)] \in S
        BY <2>3, Places
      <4> QED BY <1>1, <4>1 DEF ToSet
    <3>2. p \in DOMAIN d /\ d[p] \in S
      BY <2>3, <3>1, Places
    <3> QED BY <2>1, <3>2
  <2> QED BY <2>2, <2>3, Zenon DEF Sealed
<1>2. CASE Sealed(e, S, T)
  <2>1. PICK n \in DOMAIN e : e[n] \in T /\ \A p \in DOMAIN e : e[p] \in S => p <= n
    BY <1>2 DEF Sealed
  <2>2. Len(d) + n \in DOMAIN (d \o e) /\ (d \o e)[Len(d) + n] \in T /\ n \in Nat /\ 0 < n
    BY <2>1, Places
  <2>3. ASSUME NEW p \in DOMAIN (d \o e), (d \o e)[p] \in S PROVE p <= Len(d) + n
    <3>0. p \in Nat
      BY Places
    <3>1. CASE p <= Len(d)
      BY <1>0, <2>2, <3>0, <3>1
    <3>2. CASE ~(p <= Len(d))
      <4>1. p - Len(d) \in DOMAIN e /\ e[p - Len(d)] \in S
        BY <2>3, <3>2, Places
      <4>2. p - Len(d) <= n
        BY <2>1, <4>1, Zenon
      <4> QED BY <1>0, <2>2, <3>0, <4>2
    <3> QED BY <3>1, <3>2
  <2> QED BY <2>2, <2>3, Zenon DEF Sealed
<1> QED BY <1>1, <1>2

LEMMA SealedOne == ASSUME NEW S, NEW T, NEW x \in T PROVE Sealed(<<x>>, S, T)
BY DEF Sealed

LEMMA SealedIn == ASSUME NEW b, NEW S, NEW T, Sealed(b, S, T) PROVE ToSet(b) \cap T # {}
BY DEF Sealed, ToSet

LEMMA OnceTail ==
  ASSUME NEW X, NEW b \in Seq(X), b # <<>>, NEW x, Once(b, x)
  PROVE  Once(Tail(b), x) /\ (Head(b) = x => x \notin ToSet(Tail(b)))
<1>1. \A n \in DOMAIN Tail(b) : n + 1 \in DOMAIN b /\ Tail(b)[n] = b[n + 1] /\ n \in Nat /\ n + 1 # 1
  OBVIOUS
<1>2. Head(b) = b[1] /\ 1 \in DOMAIN b
  OBVIOUS
<1>3. Once(Tail(b), x)
  <2> SUFFICES ASSUME NEW n \in DOMAIN Tail(b), NEW p \in DOMAIN Tail(b), Tail(b)[n] = x, Tail(b)[p] = x
               PROVE  n = p
    BY DEF Once
  <2>1. n + 1 = p + 1
    BY <1>1 DEF Once
  <2> QED BY <1>1, <2>1
<1>4. ASSUME Head(b) = x, NEW p \in DOMAIN Tail(b), Tail(b)[p] = x PROVE FALSE
  <2>1. p + 1 = 1
    BY <1>1, <1>2, <1>4 DEF Once
  <2> QED BY <1>1, <2>1
<1> QED BY <1>3, <1>4 DEF ToSet

LEMMA OnceConcat ==
  ASSUME NEW X, NEW d \in Seq(X), NEW e \in Seq(X), NEW x,
         x \notin ToSet(e) /\ Once(d, x)
  PROVE  Once(d \o e, x)
<1> SUFFICES ASSUME NEW n \in DOMAIN (d \o e), NEW p \in DOMAIN (d \o e), (d \o e)[n] = x, (d \o e)[p] = x
             PROVE  n = p
  BY DEF Once
<1>1. \A k \in DOMAIN (d \o e) : (d \o e)[k] = x => k \in DOMAIN d /\ d[k] = x
  <2> SUFFICES ASSUME NEW k \in DOMAIN (d \o e), (d \o e)[k] = x, ~(k <= Len(d)) PROVE FALSE
    BY Places
  <2>1. k - Len(d) \in DOMAIN e /\ e[k - Len(d)] = x
    BY Places
  <2> QED BY <2>1 DEF ToSet
<1> QED BY <1>1 DEF Once

LEMMA OnceNew ==
  ASSUME NEW X, NEW d \in Seq(X), NEW x \in X, x \notin ToSet(d)
  PROVE  Once(Append(d, x), x)
<1> SUFFICES ASSUME NEW n \in DOMAIN Append(d, x), Append(d, x)[n] = x PROVE n = Len(d) + 1
  BY DEF Once
<1>1. n \in 1..Len(d) => Append(d, x)[n] = d[n]
  OBVIOUS
<1> QED BY <1>1 DEF ToSet

LEMMA OnceNone == ASSUME NEW b, NEW x, x \notin ToSet(b) PROVE Once(b, x)
BY DEF Once, ToSet

----------------------------------------------------------------------------
(* Counting *)

SumOf(c, f) == f = [n \in 0..Len(c) |-> IF n = 0 THEN 0 ELSE f[n - 1] + c[n]]

LEMMA SumIs ==
  ASSUME NEW c \in Seq(Nat)
  PROVE  \E f : /\ SumOf(c, f) /\ Total(c) = f[Len(c)]
                /\ f[0] = 0 /\ \A n \in Nat : n + 1 <= Len(c) => f[n + 1] = f[n] + c[n + 1]
                /\ \A n \in Nat : n <= Len(c) => f[n] \in Nat
<1> DEFINE g == [n \in 1..Len(c) |-> [x \in Nat |-> x + c[n]]]
<1>1. g \in [1..Len(c) -> [Nat -> Nat]] /\ 0 \in Nat /\ Len(c) \in Nat
  OBVIOUS
<1> HIDE DEF g
<1>2. PICK f \in [0..Len(c) -> Nat] : Recursive(f, 0, g, Len(c))
  BY <1>1, Recursion, Zenon
<1>3. ASSUME NEW n \in 0..Len(c) PROVE f[n] = IF n = 0 THEN 0 ELSE f[n - 1] + c[n]
  <2>1. CASE n = 0
    BY <1>2, <2>1 DEF Recursive
  <2>2. CASE n # 0
    <3>1. n \in 1..Len(c) /\ n - 1 \in 0..Len(c)
      BY <2>2
    <3>2. f[n - 1] \in Nat /\ f[n] = g[n][f[n - 1]]
      BY <1>2, <2>2, <3>1 DEF Recursive
    <3> QED BY <2>2, <3>1, <3>2 DEF g
  <2> QED BY <2>1, <2>2
<1>4. SumOf(c, f)
  <2>1. f = [n \in 0..Len(c) |-> f[n]]
    OBVIOUS
  <2> QED BY <1>3, <2>1 DEF SumOf
<1> DEFINE h == CHOOSE x : SumOf(c, x)
<1>5. SumOf(c, h)
  BY <1>4, Zenon
<1>6. Total(c) = h[Len(c)]
  BY Zenon DEF Total, SumOf
<1> HIDE DEF h
<1>7. h[0] = 0 /\ \A n \in Nat : n + 1 <= Len(c) => h[n + 1] = h[n] + c[n + 1]
  <2>1. 0 \in 0..Len(c)
    OBVIOUS
  <2>2. ASSUME NEW n \in Nat, n + 1 <= Len(c) PROVE h[n + 1] = h[n] + c[n + 1]
    <3>1. n + 1 \in 0..Len(c) /\ n + 1 # 0 /\ (n + 1) - 1 = n
      BY <2>2
    <3> QED BY <1>5, <3>1 DEF SumOf
  <2> QED BY <1>5, <2>1, <2>2 DEF SumOf
<1> DEFINE T == {n \in Nat : n <= Len(c) => h[n] \in Nat}
<1>8. 0 \in T
  BY <1>7
<1>9. \A n \in Nat : n \in T => n + 1 \in T
  <2> SUFFICES ASSUME NEW n \in Nat, n \in T, n + 1 <= Len(c) PROVE h[n + 1] \in Nat
    OBVIOUS
  <2>1. h[n] \in Nat /\ c[n + 1] \in Nat
    OBVIOUS
  <2> QED BY <1>7, <2>1
<1>10. \A n \in Nat : n \in T
  <2> HIDE DEF T
  <2> QED BY <1>8, <1>9, Induction
<1> QED BY <1>5, <1>6, <1>7, <1>10

LEMMA SumConcat ==
  ASSUME NEW c \in Seq(Nat), NEW d \in Seq(Nat)
  PROVE  Total(c) \in Nat /\ Total(d) \in Nat /\ Total(c \o d) = Total(c) + Total(d)
<1> DEFINE e == c \o d
<1>0. e \in Seq(Nat) /\ Len(e) = Len(c) + Len(d) /\ Len(c) \in Nat /\ Len(d) \in Nat
  OBVIOUS
<1>a. \A n \in Nat : n + 1 <= Len(c) => e[n + 1] = c[n + 1]
  OBVIOUS
<1>b. \A n \in Nat : n + 1 <= Len(d) => e[Len(c) + (n + 1)] = d[n + 1]
  OBVIOUS
<1> HIDE DEF e
<1>1. PICK f : /\ Total(c) = f[Len(c)]
               /\ f[0] = 0 /\ \A n \in Nat : n + 1 <= Len(c) => f[n + 1] = f[n] + c[n + 1]
               /\ \A n \in Nat : n <= Len(c) => f[n] \in Nat
  BY SumIs, Zenon
<1>2. PICK g : /\ Total(d) = g[Len(d)]
               /\ g[0] = 0 /\ \A n \in Nat : n + 1 <= Len(d) => g[n + 1] = g[n] + d[n + 1]
               /\ \A n \in Nat : n <= Len(d) => g[n] \in Nat
  BY SumIs, Zenon
<1>3. PICK h : /\ Total(e) = h[Len(e)]
               /\ h[0] = 0 /\ \A n \in Nat : n + 1 <= Len(e) => h[n + 1] = h[n] + e[n + 1]
               /\ \A n \in Nat : n <= Len(e) => h[n] \in Nat
  BY <1>0, SumIs, Zenon
<1> DEFINE T == {n \in Nat : n <= Len(c) => h[n] = f[n]}
           U == {n \in Nat : n <= Len(d) => h[Len(c) + n] = f[Len(c)] + g[n]}
<1>4. \A n \in Nat : n \in T
  <2>1. 0 \in T
    BY <1>1, <1>3
  <2>2. ASSUME NEW n \in Nat, n \in T PROVE n + 1 \in T
    <3> SUFFICES ASSUME n + 1 <= Len(c) PROVE h[n + 1] = f[n + 1]
      OBVIOUS
    <3>1. h[n] = f[n] /\ n + 1 <= Len(e)
      BY <1>0, <2>2
    <3> QED BY <1>1, <1>3, <1>a, <3>1
  <2> HIDE DEF T
  <2> QED BY <2>1, <2>2, Induction
<1>5. h[Len(c)] = f[Len(c)]
  BY <1>0, <1>4
<1>6. \A n \in Nat : n \in U
  <2>1. 0 \in U
    <3>1. Len(c) + 0 = Len(c) /\ f[Len(c)] \in Nat
      BY <1>0, <1>1
    <3> QED BY <1>0, <1>2, <1>5, <3>1
  <2>2. ASSUME NEW n \in Nat, n \in U PROVE n + 1 \in U
    <3> SUFFICES ASSUME n + 1 <= Len(d) PROVE h[Len(c) + (n + 1)] = f[Len(c)] + g[n + 1]
      OBVIOUS
    <3>1. h[Len(c) + n] = f[Len(c)] + g[n]
      BY <2>2
    <3>2. Len(c) + n \in Nat /\ (Len(c) + n) + 1 <= Len(e) /\ (Len(c) + n) + 1 = Len(c) + (n + 1)
      BY <1>0
    <3>3. h[Len(c) + (n + 1)] = h[Len(c) + n] + d[n + 1]
      BY <1>3, <1>b, <3>2
    <3>4. d[n + 1] \in Nat /\ g[n] \in Nat /\ f[Len(c)] \in Nat
      <4>1. n + 1 \in DOMAIN d /\ n <= Len(d)
        BY <1>0
      <4>2. d[n + 1] \in Nat
        BY <4>1
      <4>3. g[n] \in Nat
        BY <1>2, <4>1
      <4>4. f[Len(c)] \in Nat
        BY <1>0, <1>1
      <4> QED BY <4>2, <4>3, <4>4
    <3>5. g[n + 1] = g[n] + d[n + 1]
      BY <1>2
    <3> QED BY <3>1, <3>3, <3>4, <3>5
  <2> HIDE DEF U
  <2> QED BY <2>1, <2>2, Induction
<1>7. h[Len(c) + Len(d)] = f[Len(c)] + g[Len(d)]
  BY <1>0, <1>6
<1> QED BY <1>0, <1>1, <1>2, <1>3, <1>7 DEF e

LEMMA SumOne == ASSUME NEW n \in Nat PROVE Total(<<n>>) = n
<1>1. <<n>> \in Seq(Nat) /\ Len(<<n>>) = 1 /\ <<n>>[1] = n /\ 0 \in Nat /\ 0 + 1 = 1
  OBVIOUS
<1>2. PICK f : /\ Total(<<n>>) = f[1]
               /\ f[0] = 0 /\ \A k \in Nat : k + 1 <= 1 => f[k + 1] = f[k] + <<n>>[k + 1]
  BY <1>1, SumIs
<1>3. f[0 + 1] = f[0] + <<n>>[0 + 1]
  BY <1>2
<1> QED BY <1>1, <1>2, <1>3

LEMMA SumZero == ASSUME NEW c \in Seq(Nat), \A n \in DOMAIN c : c[n] = 0 PROVE Total(c) = 0
<1>1. PICK f : /\ Total(c) = f[Len(c)]
               /\ f[0] = 0 /\ \A n \in Nat : n + 1 <= Len(c) => f[n + 1] = f[n] + c[n + 1]
  BY SumIs, Zenon
<1> DEFINE T == {n \in Nat : n <= Len(c) => f[n] = 0}
<1>2. \A n \in Nat : n \in T
  <2>1. 0 \in T
    BY <1>1
  <2>2. ASSUME NEW n \in Nat, n \in T PROVE n + 1 \in T
    <3> SUFFICES ASSUME n + 1 <= Len(c) PROVE f[n + 1] = 0
      OBVIOUS
    <3>1. f[n] = 0 /\ c[n + 1] = 0
      BY <2>2
    <3> QED BY <1>1, <3>1
  <2> HIDE DEF T
  <2> QED BY <2>1, <2>2, Induction
<1> QED BY <1>1, <1>2

\* What a message, or a call, counts for
Weight(x, k, i) == IF x.k = k /\ x.i = i THEN Cardinality(x.ps) ELSE 0
Weights(e, k, i) == [n \in DOMAIN e |-> Weight(e[n], k, i)]
Sized(X, k) == \A x \in X : x.k = k => Cardinality(x.ps) \in Nat

LEMMA WeightsAre ==
  ASSUME NEW X, NEW k, NEW i, NEW e \in Seq(X), Sized(X, k)
  PROVE  /\ Weights(e, k, i) \in Seq(Nat) /\ Len(Weights(e, k, i)) = Len(e)
         /\ Counted(e, k, i) = Total(Weights(e, k, i)) /\ Counted(e, k, i) \in Nat
<1>1. \A n \in DOMAIN e : Weight(e[n], k, i) \in Nat
  <2> SUFFICES ASSUME NEW n \in DOMAIN e PROVE Weight(e[n], k, i) \in Nat
    OBVIOUS
  <2>1. e[n] \in X
    OBVIOUS
  <2> QED BY <2>1 DEF Weight, Sized
<1>2. Weights(e, k, i) \in Seq(Nat) /\ Len(Weights(e, k, i)) = Len(e)
  BY <1>1 DEF Weights
<1>3. Counted(e, k, i) = Total(Weights(e, k, i))
  BY Zenon DEF Counted, Weights, Weight
<1>4. Total(Weights(e, k, i)) \in Nat
  BY <1>2, SumConcat
<1> QED BY <1>2, <1>3, <1>4

LEMMA CountedConcat ==
  ASSUME NEW X, NEW k, NEW i, NEW d \in Seq(X), NEW e \in Seq(X), Sized(X, k)
  PROVE  Counted(d \o e, k, i) = Counted(d, k, i) + Counted(e, k, i)
<1>1. d \o e \in Seq(X)
  OBVIOUS
<1>2. /\ Weights(d, k, i) \in Seq(Nat) /\ Len(Weights(d, k, i)) = Len(d)
      /\ Weights(e, k, i) \in Seq(Nat) /\ Len(Weights(e, k, i)) = Len(e)
  BY WeightsAre
<1>3. Weights(d \o e, k, i) = Weights(d, k, i) \o Weights(e, k, i)
  <2> DEFINE v == Weights(d, k, i)  w == Weights(e, k, i)  u == Weights(d \o e, k, i)
  <2>1. DOMAIN u = 1..Len(d) + Len(e) /\ DOMAIN (v \o w) = 1..Len(d) + Len(e)
    BY <1>2 DEF Weights
  <2>2. ASSUME NEW n \in 1..Len(d) + Len(e) PROVE u[n] = (v \o w)[n]
    <3>1. u[n] = Weight((d \o e)[n], k, i)
      BY <2>1 DEF Weights
    <3>2. CASE n <= Len(d)
      <4>1. (d \o e)[n] = d[n] /\ (v \o w)[n] = v[n]
        BY <1>2, <3>2
      <4>2. v[n] = Weight(d[n], k, i)
        BY <3>2 DEF Weights
      <4> QED BY <3>1, <4>1, <4>2
    <3>3. CASE ~(n <= Len(d))
      <4>1. (d \o e)[n] = e[n - Len(d)] /\ (v \o w)[n] = w[n - Len(d)]
        BY <1>2, <3>3
      <4>2. w[n - Len(d)] = Weight(e[n - Len(d)], k, i)
        BY <3>3 DEF Weights
      <4> QED BY <3>1, <4>1, <4>2
    <3> QED BY <3>2, <3>3
  <2>3. u \in Seq(Nat) /\ v \o w \in Seq(Nat) /\ Len(u) = Len(d) + Len(e) /\ Len(v \o w) = Len(d) + Len(e)
    <3>1. u \in Seq(Nat) /\ Len(u) = Len(d \o e)
      <4> DEFINE c == d \o e
      <4>1. c \in Seq(X)
        BY <1>1
      <4> HIDE DEF c
      <4>2. Weights(c, k, i) \in Seq(Nat) /\ Len(Weights(c, k, i)) = Len(c)
        BY <4>1, WeightsAre
      <4> QED BY <4>2 DEF c
    <3>2. Len(d \o e) = Len(d) + Len(e)
      OBVIOUS
    <3>3. v \o w \in Seq(Nat) /\ Len(v \o w) = Len(d) + Len(e)
      <4> HIDE DEF v, w
      <4>1. v \in Seq(Nat) /\ Len(v) = Len(d) /\ w \in Seq(Nat) /\ Len(w) = Len(e)
        BY <1>2 DEF v, w
      <4>2. v \o w \in Seq(Nat) /\ Len(v \o w) = Len(v) + Len(w)
        BY <4>1, ConcatLength, Zenon
      <4> QED BY <4>1, <4>2, Zenon
    <3> HIDE DEF u, v, w
    <3> QED BY <3>1, <3>2, <3>3
  <2>4. u = v \o w
    <3> HIDE DEF u, v, w
    <3> QED BY <2>2, <2>3, SameSequence
  <2> QED BY <2>4 DEF u, v, w
<1>4. Total(Weights(d, k, i) \o Weights(e, k, i)) = Total(Weights(d, k, i)) + Total(Weights(e, k, i))
  BY <1>2, SumConcat
<1>5. /\ Counted(d, k, i) = Total(Weights(d, k, i)) /\ Counted(e, k, i) = Total(Weights(e, k, i))
      /\ Counted(d \o e, k, i) = Total(Weights(d \o e, k, i))
  BY <1>1, WeightsAre, Zenon
<1> QED BY <1>3, <1>4, <1>5

LEMMA CountedOne ==
  ASSUME NEW X, NEW k, NEW i, NEW x \in X, Sized(X, k)
  PROVE  Counted(<<x>>, k, i) = Weight(x, k, i) /\ Weight(x, k, i) \in Nat
<1>1. <<x>> \in Seq(X)
  OBVIOUS
<1>2. Weights(<<x>>, k, i) = <<Weight(x, k, i)>>
  <2>1. DOMAIN <<x>> = 1..1 /\ <<x>>[1] = x
    OBVIOUS
  <2> HIDE DEF Weight
  <2>2. Weights(<<x>>, k, i) = [n \in 1..1 |-> Weight(<<x>>[n], k, i)]
    BY <2>1, Zenon DEF Weights
  <2>3. [n \in 1..1 |-> Weight(<<x>>[n], k, i)] = <<Weight(x, k, i)>>
    BY <2>1
  <2> QED BY <2>2, <2>3
<1>3. Weight(x, k, i) \in Nat
  BY DEF Weight, Sized
<1>4. Counted(<<x>>, k, i) = Total(Weights(<<x>>, k, i))
  BY <1>1, WeightsAre, Zenon
<1> QED BY <1>2, <1>3, <1>4, SumOne

LEMMA CountedNone ==
  ASSUME NEW X, NEW k, NEW i, NEW e \in Seq(X), Sized(X, k), \A x \in ToSet(e) : ~(x.k = k /\ x.i = i)
  PROVE  Counted(e, k, i) = 0
<1>1. \A n \in DOMAIN e : Weights(e, k, i)[n] = 0
  BY DEF Weights, Weight, ToSet
<1>2. Weights(e, k, i) \in Seq(Nat) /\ Counted(e, k, i) = Total(Weights(e, k, i))
  BY WeightsAre, Zenon
<1>3. DOMAIN Weights(e, k, i) = DOMAIN e
  BY DEF Weights
<1> QED BY <1>1, <1>2, <1>3, SumZero

LEMMA CountedAlike ==
  ASSUME NEW d, NEW e, NEW k, NEW l, NEW i, DOMAIN d = DOMAIN e,
         \A n \in DOMAIN d : Weight(d[n], k, i) = Weight(e[n], l, i)
  PROVE  Counted(d, k, i) = Counted(e, l, i)
<1>1. Weights(d, k, i) = Weights(e, l, i)
  BY DEF Weights
<1> QED BY <1>1, Zenon DEF Counted, Weights, Weight

LEMMA CountedThose ==
  ASSUME NEW X, NEW k, NEW i, NEW e \in Seq(X), NEW S, Sized(X, k),
         \A x \in ToSet(e) : x.k = k /\ x.i = i => x \in S
  PROVE  Counted(Those(e, S), k, i) = Counted(e, k, i)
<1>1. PICK f : ThoseOf(e, S, f) /\ Those(e, S) = f[Len(e)]
  BY ThoseAre, Zenon
<1> DEFINE w == Weights(e, k, i)
<1>a. w \in Seq(Nat) /\ Len(w) = Len(e) /\ Counted(e, k, i) = Total(w)
  BY WeightsAre
<1>2. PICK g : /\ Total(w) = g[Len(w)]
               /\ g[0] = 0 /\ \A n \in Nat : n + 1 <= Len(w) => g[n + 1] = g[n] + w[n + 1]
               /\ \A n \in Nat : n <= Len(w) => g[n] \in Nat
  BY <1>a, SumIs, Zenon
<1> DEFINE Good(n) == f[n] \in Seq(X) /\ Counted(f[n], k, i) = g[n]
           T == {n \in Nat : n <= Len(e) => Good(n)}
<1>3. 0 \in T
  <2>1. f[0] = <<>>
    BY <1>1 DEF ThoseOf
  <2>2. <<>> \in Seq(X) /\ \A x \in ToSet(<<>>) : ~(x.k = k /\ x.i = i)
    BY InNone
  <2>3. Counted(<<>>, k, i) = 0
    BY <2>2, CountedNone
  <2>4. Good(0)
    BY <1>2, <2>1, <2>2, <2>3
  <2> QED BY <2>4
<1>4. ASSUME NEW n \in Nat, n \in T PROVE n + 1 \in T
  <2> SUFFICES ASSUME n + 1 <= Len(e) PROVE Good(n + 1)
    OBVIOUS
  <2>1. f[n] \in Seq(X) /\ Counted(f[n], k, i) = g[n] /\ g[n] \in Nat
    BY <1>4, <1>2, <1>a
  <2>2. e[n + 1] \in X /\ n + 1 \in DOMAIN e
    OBVIOUS
  <2>3. f[n + 1] = IF e[n + 1] \in S THEN Append(f[n], e[n + 1]) ELSE f[n]
    <3>1. n + 1 \in 0..Len(e) /\ n + 1 # 0 /\ (n + 1) - 1 = n
      OBVIOUS
    <3> QED BY <1>1, <3>1 DEF ThoseOf
  <2>4. g[n + 1] = g[n] + Weight(e[n + 1], k, i)
    BY <1>2, <1>a, <2>2 DEF Weights
  <2>5. CASE e[n + 1] \in S
    <3>1. Append(f[n], e[n + 1]) = f[n] \o <<e[n + 1]>> /\ <<e[n + 1]>> \in Seq(X)
      BY <2>1, <2>2
    <3>2. Counted(f[n] \o <<e[n + 1]>>, k, i) = Counted(f[n], k, i) + Counted(<<e[n + 1]>>, k, i)
      <4> DEFINE a == f[n]  b == <<e[n + 1]>>
      <4>1. a \in Seq(X) /\ b \in Seq(X)
        BY <2>1, <3>1
      <4> HIDE DEF a, b
      <4>2. Counted(a \o b, k, i) = Counted(a, k, i) + Counted(b, k, i)
        BY <4>1, CountedConcat
      <4> QED BY <4>2 DEF a, b
    <3>3. Counted(<<e[n + 1]>>, k, i) = Weight(e[n + 1], k, i)
      BY <2>2, CountedOne
    <3>4. f[n] \o <<e[n + 1]>> \in Seq(X)
      BY <2>1, <3>1
    <3> QED BY <2>1, <2>3, <2>4, <2>5, <3>1, <3>2, <3>3, <3>4
  <2>6. CASE e[n + 1] \notin S
    <3>1. Weight(e[n + 1], k, i) = 0
      BY <2>2, <2>6 DEF Weight, ToSet
    <3> QED BY <2>1, <2>3, <2>4, <2>6, <3>1
  <2> QED BY <2>5, <2>6
<1> HIDE DEF T
<1>5. \A n \in Nat : n \in T
  BY <1>3, <1>4, Induction
<1>6. Good(Len(e))
  <2> HIDE DEF Good
  <2>1. Len(e) \in Nat
    OBVIOUS
  <2> QED BY <1>5, <2>1 DEF T
<1> QED BY <1>1, <1>2, <1>6, <1>a

----------------------------------------------------------------------------
(* The widgets of a menu *)

LEMMA MinIn == ASSUME NEW T \in SUBSET Nat, T # {} PROVE Min(T) \in T
<1>1. PICK n \in T : \A k \in T : ~(k < n)
  BY Least
<1>2. \A k \in T : n <= k
  BY <1>1
<1> QED BY <1>2, Zenon DEF Min

LEMMA MaxIn == ASSUME NEW N \in Nat, NEW T \in SUBSET (1..N), T # {} PROVE Max(T) \in T
<1> DEFINE U == {N - k : k \in T}
<1>1. U \in SUBSET Nat /\ U # {}
  <2>1. \A k \in T : N - k \in Nat
    OBVIOUS
  <2> QED BY <2>1
<1>2. PICK u \in U : \A k \in U : ~(k < u)
  BY <1>1, Least
<1>3. PICK n \in T : u = N - n
  OBVIOUS
<1>4. \A k \in T : n >= k
  <2> SUFFICES ASSUME NEW k \in T PROVE n >= k
    OBVIOUS
  <2>1. N - k \in U
    OBVIOUS
  <2>2. ~(N - k < N - n)
    BY <1>2, <1>3, <2>1
  <2> QED BY <2>2
<1> QED BY <1>4, Zenon DEF Max

LEMMA Split ==
  ASSUME NEW X, NEW e \in Seq(X), NEW k \in 1..Len(e) + 1
  PROVE  /\ SubSeq(e, 1, k - 1) \in Seq(X) /\ SubSeq(e, k, Len(e)) \in Seq(X)
         /\ ToSet(SubSeq(e, 1, k - 1)) \cup ToSet(SubSeq(e, k, Len(e))) = ToSet(e)
<1> DEFINE a == SubSeq(e, 1, k - 1)  b == SubSeq(e, k, Len(e))
<1>1. a \in Seq(X) /\ b \in Seq(X)
  OBVIOUS
<1>2. \A n \in DOMAIN a : n \in DOMAIN e /\ a[n] = e[n]
  OBVIOUS
<1>3. \A n \in DOMAIN b : n + k - 1 \in DOMAIN e /\ b[n] = e[n + k - 1]
  OBVIOUS
<1>4. \A n \in DOMAIN e : \/ n \in DOMAIN a /\ a[n] = e[n]
                          \/ n - k + 1 \in DOMAIN b /\ b[n - k + 1] = e[n]
  OBVIOUS
<1> HIDE DEF a, b
<1>5. ToSet(a) \cup ToSet(b) = ToSet(e)
  BY <1>2, <1>3, <1>4 DEF ToSet
<1> QED BY <1>1, <1>5 DEF a, b

LEMMA InsertKeeps ==
  ASSUME NEW c \in Seq(Entries), NEW x \in Entries
  PROVE  Insert(c, x) \in Seq(Entries) /\ ToSet(Insert(c, x)) = ToSet(c) \cup {x}
<1> DEFINE I == {i \in 1..Len(c) : c[i].id >= x.id}
           at == IF I # {} THEN Min(I) ELSE 0
<1>1. Insert(c, x) = IF at = 0 THEN Append(c, x) ELSE InsertAt(c, at, x)
  BY Zenon DEF Insert, SelectInSeq
<1>2. CASE at = 0
  <2>1. Insert(c, x) = Append(c, x)
    BY <1>1, <1>2, Zenon
  <2>2. Append(c, x) \in Seq(Entries) /\ ToSet(Append(c, x)) = ToSet(c) \cup {x}
    BY InAppend
  <2> QED BY <2>1, <2>2
<1>3. CASE at # 0
  <2>1. at \in 1..Len(c) + 1
    <3>1. I \in SUBSET Nat /\ I # {} /\ I \subseteq 1..Len(c)
      BY <1>3
    <3>2. at \in I
      BY <3>1, MinIn
    <3> HIDE DEF at
    <3> QED BY <3>1, <3>2
  <2> HIDE DEF at
  <2> DEFINE a == SubSeq(c, 1, at - 1)  b == SubSeq(c, at, Len(c))
  <2>2. a \in Seq(Entries) /\ b \in Seq(Entries) /\ ToSet(a) \cup ToSet(b) = ToSet(c)
    BY <2>1, Split
  <2> DEFINE o == <<x>>
  <2>3. o \in Seq(Entries) /\ ToSet(o) = {x}
    BY InOne
  <2> HIDE DEF a, b, o
  <2> DEFINE y == a \o o
  <2>4. y \in Seq(Entries) /\ ToSet(y) = ToSet(a) \cup {x}
    BY <2>2, <2>3, InConcat
  <2> HIDE DEF y
  <2>5. y \o b \in Seq(Entries) /\ ToSet(y \o b) = ToSet(y) \cup ToSet(b)
    BY <2>2, <2>4, InConcat
  <2>6. Insert(c, x) = y \o b
    BY <1>1, <1>3, Zenon DEF InsertAt, a, b, o, y
  <2> QED BY <2>2, <2>4, <2>5, <2>6
<1> QED BY <1>2, <1>3

InsertsOf(c, e, f) ==
  f = [x \in SUBSET DOMAIN e |-> IF x = {} THEN c ELSE Insert(f[x \ {Max(x)}], e[Max(x)])]
Inserts(c, e) == FoldLeft(Insert, c, e)

LEMMA InsertsAre ==
  ASSUME NEW c \in Seq(Entries), NEW e \in Seq(Entries)
  PROVE  \E f : InsertsOf(c, e, f) /\ Inserts(c, e) = f[DOMAIN e]
<1> DEFINE g == [n \in 1..Len(e) |-> [x \in Seq(Entries) |-> Insert(x, e[n])]]
<1>1. g \in [1..Len(e) -> [Seq(Entries) -> Seq(Entries)]] /\ Len(e) \in Nat
  <2>1. \A n \in 1..Len(e) : e[n] \in Entries
    OBVIOUS
  <2>2. \A n \in 1..Len(e), x \in Seq(Entries) : Insert(x, e[n]) \in Seq(Entries)
    BY <2>1, InsertKeeps
  <2>3. ASSUME NEW n \in 1..Len(e) PROVE [x \in Seq(Entries) |-> Insert(x, e[n])] \in [Seq(Entries) -> Seq(Entries)]
    BY <2>2
  <2>4. Len(e) \in Nat
    OBVIOUS
  <2> QED BY <2>3, <2>4, Zenon
<1> HIDE DEF g
<1>2. PICK f \in [SUBSET (1..Len(e)) -> Seq(Entries)] : Folded(f, c, g, Len(e))
  BY <1>1, Folding, Zenon
<1>3. ASSUME NEW x \in SUBSET (1..Len(e)), x # {}
      PROVE  g[Max(x)][f[x \ {Max(x)}]] = Insert(f[x \ {Max(x)}], e[Max(x)])
  <2>1. Max(x) \in 1..Len(e)
    BY <1>1, <1>3, MaxIn
  <2>2. f[x \ {Max(x)}] \in Seq(Entries)
    OBVIOUS
  <2> QED BY <2>1, <2>2 DEF g
<1>4. \A x \in SUBSET (1..Len(e)) : f[x] = IF x = {} THEN c ELSE Insert(f[x \ {Max(x)}], e[Max(x)])
  BY <1>2, <1>3, Zenon DEF Folded
<1>5. DOMAIN e = 1..Len(e)
  OBVIOUS
<1>6. InsertsOf(c, e, f)
  <2>1. f = [x \in SUBSET (1..Len(e)) |-> f[x]]
    BY Zenon
  <2>2. f = [x \in SUBSET (1..Len(e)) |-> IF x = {} THEN c ELSE Insert(f[x \ {Max(x)}], e[Max(x)])]
    BY <1>4, <2>1, Zenon
  <2> QED BY <1>5, <2>2, Zenon DEF InsertsOf
<1> DEFINE h == CHOOSE x : InsertsOf(c, e, x)
<1>7. InsertsOf(c, e, h)
  BY <1>6, Zenon
<1>8. Inserts(c, e) = h[DOMAIN e]
  BY Zenon DEF Inserts, FoldLeft, MapThenFoldSet, InsertsOf
<1> QED BY <1>7, <1>8, Zenon

LEMMA InsertsKeep ==
  ASSUME NEW c \in Seq(Entries), NEW e \in Seq(Entries)
  PROVE  Inserts(c, e) \in Seq(Entries) /\ ToSet(Inserts(c, e)) = ToSet(c) \cup ToSet(e)
<1>1. PICK f : InsertsOf(c, e, f) /\ Inserts(c, e) = f[DOMAIN e]
  BY InsertsAre, Zenon
<1>0. DOMAIN e = 1..Len(e) /\ Len(e) \in Nat
  OBVIOUS
<1> DEFINE Good(n) == f[1..n] \in Seq(Entries) /\ ToSet(f[1..n]) = ToSet(c) \cup {e[k] : k \in 1..n}
           T == {n \in Nat : n <= Len(e) => Good(n)}
<1>2. 0 \in T
  <2>1. 1..0 = {} /\ {} \in SUBSET DOMAIN e
    OBVIOUS
  <2>2. f[1..0] = c
    BY <1>1, <2>1, Zenon DEF InsertsOf
  <2>3. {e[k] : k \in 1..0} = {}
    BY <2>1
  <2>4. Good(0)
    BY <2>2, <2>3
  <2> QED BY <2>4
<1>3. ASSUME NEW n \in Nat, n \in T PROVE n + 1 \in T
  <2> SUFFICES ASSUME n + 1 <= Len(e) PROVE Good(n + 1)
    OBVIOUS
  <2>1. f[1..n] \in Seq(Entries) /\ ToSet(f[1..n]) = ToSet(c) \cup {e[k] : k \in 1..n} /\ e[n + 1] \in Entries
    BY <1>3
  <2>2. 1..n + 1 \in SUBSET DOMAIN e /\ 1..n + 1 # {} /\ (1..n + 1) \ {n + 1} = 1..n
    <3>1. (1..n + 1) \ {n + 1} = 1..n
      OBVIOUS
    <3>2. n + 1 \in 1..n + 1 /\ \A k \in 1..n + 1 : k \in 1..Len(e)
      OBVIOUS
    <3> QED BY <1>0, <3>1, <3>2, Zenon
  <2>3. Max(1..n + 1) = n + 1
    BY MaxOf
  <2>4. f[1..n + 1] = Insert(f[1..n], e[n + 1])
    BY <1>1, <2>2, <2>3, Zenon DEF InsertsOf
  <2>5. {e[k] : k \in 1..n + 1} = {e[k] : k \in 1..n} \cup {e[n + 1]}
    OBVIOUS
  <2>6. /\ Insert(f[1..n], e[n + 1]) \in Seq(Entries)
        /\ ToSet(Insert(f[1..n], e[n + 1])) = ToSet(f[1..n]) \cup {e[n + 1]}
    BY <2>1, InsertKeeps, Zenon
  <2> QED BY <2>1, <2>4, <2>5, <2>6
<1> HIDE DEF T
<1>4. \A n \in Nat : n \in T
  BY <1>2, <1>3, Induction
<1>5. Good(Len(e))
  <2> HIDE DEF Good
  <2> QED BY <1>0, <1>4 DEF T
<1>6. ToSet(e) = {e[k] : k \in 1..Len(e)}
  BY DEF ToSet
<1> QED BY <1>0, <1>1, <1>5, <1>6

LEMMA AmongIn ==
  ASSUME NEW e \in Seq(Entries), NEW ids
  PROVE  Among(e, ids) \in Seq(Entries) /\ ToSet(Among(e, ids)) = {x \in ToSet(e) : x.id \in ids}
<1> DEFINE S == {x \in ToSet(e) : x.id \in ids}
<1>1. Those(e, S) \in Seq(Entries) /\ ToSet(Those(e, S)) = ToSet(e) \cap S
  <2> HIDE DEF S
  <2> QED BY ThoseIn
<1> QED BY <1>1 DEF Among

\* A level of a menu is given the items of the layout, whatever it held.
LEMMA ReconcileShows ==
  ASSUME NEW c \in Seq(Entries), NEW e \in Seq(Entries), OwnIds(e)
  PROVE  Reconcile(c, e) \in Seq(Entries) /\ ToSet(Reconcile(c, e)) = ToSet(e)
<1> DEFINE kept == Among(c, IdsOf(e))
           updated == [i \in DOMAIN kept |-> [kept[i] EXCEPT !.label = LabelOf(e, kept[i].id)]]
           new == Among(e, IdsOf(e) \ IdsOf(c))
<1>0. Reconcile(c, e) = Inserts(updated, new)
  BY Zenon DEF Reconcile, Inserts
<1>1. kept \in Seq(Entries) /\ ToSet(kept) = {x \in ToSet(c) : x.id \in IdsOf(e)}
  BY AmongIn, Zenon
<1>2. new \in Seq(Entries) /\ ToSet(new) = {x \in ToSet(e) : x.id \in IdsOf(e) \ IdsOf(c)}
  BY AmongIn, Zenon
<1> HIDE DEF kept, new
<1>a. ToSet(e) \subseteq Entries /\ ToSet(c) \subseteq Entries
  BY InType
<1>b. \A x, y \in ToSet(e) : x.id = y.id => x = y
  BY DEF ToSet, OwnIds
<1>3. ASSUME NEW n \in DOMAIN kept
      PROVE  \E x \in ToSet(e) : x.id = kept[n].id /\ [kept[n] EXCEPT !.label = LabelOf(e, kept[n].id)] = x
  <2>1. kept[n] \in Entries /\ kept[n].id \in IdsOf(e)
    BY <1>1 DEF ToSet
  <2>2. PICK x \in ToSet(e) : x.id = kept[n].id
    BY <2>1 DEF IdsOf
  <2> DEFINE o == CHOOSE item \in ToSet(e) : item.id = kept[n].id
  <2>3. o \in ToSet(e) /\ o.id = kept[n].id
    BY <2>2, Zenon
  <2>4. LabelOf(e, kept[n].id) = o.label
    BY Zenon DEF LabelOf
  <2> HIDE DEF o
  <2>5. o \in Entries
    BY <1>a, <2>3
  <2>6. [kept[n] EXCEPT !.label = o.label] = o
    BY <2>1, <2>3, <2>5 DEF Entries
  <2> QED BY <2>3, <2>4, <2>6
<1>4. updated \in Seq(Entries) /\ Len(updated) = Len(kept)
  <2>1. \A n \in DOMAIN kept : updated[n] \in Entries
    BY <1>3, <1>a
  <2> QED BY <1>1, <2>1
<1>5. ToSet(updated) = {x \in ToSet(e) : x.id \in IdsOf(c)}
  <2>1. ASSUME NEW n \in DOMAIN kept PROVE updated[n] \in {x \in ToSet(e) : x.id \in IdsOf(c)}
    <3>1. kept[n].id \in IdsOf(c)
      BY <1>1 DEF IdsOf, ToSet
    <3> QED BY <1>3, <3>1
  <2>2. ASSUME NEW x \in ToSet(e), x.id \in IdsOf(c) PROVE \E n \in DOMAIN kept : updated[n] = x
    <3>1. PICK y \in ToSet(c) : y.id = x.id
      BY <2>2 DEF IdsOf
    <3>2. y \in ToSet(kept)
      BY <1>1, <3>1 DEF IdsOf
    <3>3. PICK n \in DOMAIN kept : kept[n] = y
      BY <3>2 DEF ToSet
    <3>4. PICK z \in ToSet(e) : z.id = kept[n].id /\ updated[n] = z
      BY <1>3
    <3> QED BY <1>b, <3>1, <3>3, <3>4
  <2>3. DOMAIN updated = DOMAIN kept
    OBVIOUS
  <2> HIDE DEF updated
  <2> QED BY <2>1, <2>2, <2>3 DEF ToSet
<1> HIDE DEF updated
<1>6. Inserts(updated, new) \in Seq(Entries) /\ ToSet(Inserts(updated, new)) = ToSet(updated) \cup ToSet(new)
  BY <1>2, <1>4, InsertsKeep
<1>7. \A x \in ToSet(e) : x.id \in IdsOf(e)
  BY DEF IdsOf
<1> QED BY <1>0, <1>2, <1>5, <1>6, <1>7

----------------------------------------------------------------------------
(* Types *)

Signals == {"NewTitle", "NewStatus", "NewIcon", "NewAttentionIcon"}
Nodes == {"root", "sub"}
Answers == [Props -> Values] \cup {Failed}
Shows == [Props -> Values \cup {Unset}]
MenuLayouts ==
  {l \in [rev : Nat \ {0}, root : Seq(Entries), sub : Seq(Entries)] : OwnIds(l.root) /\ OwnIds(l.sub)}

Told(a, x) == [k |-> "signal", a |-> a, s |-> x]
Plain == [k : {"vanished", "appeared", "name lost", "get list"}, a : {Nobody}]
About == [k : {"register", "registered", "gone", "unregistered", "layout updated"}, a : Apps]
ListReplies == [k : {"list"}, uids : SUBSET Apps]
PropReplies == [k : {"prop"}, i : Nat, ps : SUBSET Props, values : Answers]
SignalsSent == [k : {"signal"}, a : Apps, s : Signals]
LayoutReplies == [k : {"layout"}, i : Nat, node : Nodes, layout : MenuLayouts]
ShowReplies == [k : {"about to show"}, i : Nat, node : Nodes, refresh : BOOLEAN]
Messages ==
  Plain \cup About \cup ListReplies \cup PropReplies \cup SignalsSent \cup LayoutReplies \cup ShowReplies
Gets == [k : {"get"}, i : Nat, ps : SUBSET Props]
MenuCalls == [k : {"layout", "about to show"}, i : Nat, node : Nodes]
Calls == Gets \cup MenuCalls

MenuSet == [there : BOOLEAN, rev : Nat, root : Seq(Entries), sub : Seq(Entries),
            suppress : BOOLEAN, timed : BOOLEAN, lost : BOOLEAN]
ItemSet == [uid : Apps, live : BOOLEAN, ref : Int, values : Shows, menu : MenuSet]
Children == [i : Nat, invalid : BOOLEAN, shown : {View(v) : v \in Shows}]
States == [sni : Seq(ItemSet), tray : Seq(Children), invalid : BOOLEAN, box : Seq(Messages),
           calls : [Apps -> Seq(Calls)]]

Now == Items(inbox)
BusTypes ==
  /\ owner \in {Bar, Other, Nobody} /\ queued \in BOOLEAN /\ epoch \in Nat
  /\ other \in {"out", "in", "gone"} /\ theirs \subseteq Apps /\ alive \subseteq Apps
  /\ reg \in [Apps -> Nat] /\ prop \in [Apps -> [Props -> Values]] /\ layout \in [Apps -> MenuLayouts]
  /\ changes \in Nat /\ missed \subseteq Apps /\ regid \in BOOLEAN /\ watched \subseteq Apps /\ subs \in Nat
Types == BusTypes /\ Now \in States

Kinds(ks) == {x \in Messages : x.k \in ks}

\* Without one of K, or with none of them more
Sends(b, c, K) ==
  \E d, e \in Seq(Messages) :
    /\ c = d \o e /\ ToSet(e) \cap K = {}
    /\ d = b \/ (b # <<>> /\ Head(b) \notin K /\ d = Tail(b))

LEMMA MessageTypes ==
  /\ \A k \in {"vanished", "appeared", "name lost", "get list"} :
       Msg(k, Nobody) \in Messages /\ Msg(k, Nobody).k = k
  /\ \A k \in {"register", "registered", "gone", "unregistered", "layout updated"}, a \in Apps :
       Msg(k, a) \in Messages /\ Msg(k, a).k = k /\ Msg(k, a).a = a
  /\ \A u \in SUBSET Apps : List(u) \in Messages /\ List(u).k = "list" /\ List(u).uids = u
  /\ \A i \in Nat, ps \in SUBSET Props, v \in Answers :
       /\ PropReply(i, ps, v) \in Messages /\ PropReply(i, ps, v).k = "prop" /\ PropReply(i, ps, v).i = i
       /\ PropReply(i, ps, v).ps = ps /\ PropReply(i, ps, v).values = v
  /\ \A a \in Apps, x \in Signals :
       Told(a, x) \in Messages /\ Told(a, x).k = "signal" /\ Told(a, x).a = a /\ Told(a, x).s = x
  /\ \A i \in Nat, n \in Nodes, l \in MenuLayouts :
       /\ LayoutReply(i, n, l) \in Messages /\ LayoutReply(i, n, l).k = "layout"
       /\ LayoutReply(i, n, l).i = i /\ LayoutReply(i, n, l).layout = l /\ LayoutReply(i, n, l).node = n
  /\ \A i \in Nat, n \in Nodes, r \in BOOLEAN :
       /\ AboutReply(i, n, r) \in Messages /\ AboutReply(i, n, r).k = "about to show"
       /\ AboutReply(i, n, r).i = i /\ AboutReply(i, n, r).node = n
<1>0. /\ \A k, a : Msg(k, a).k = k /\ Msg(k, a).a = a
      /\ \A u : List(u).k = "list" /\ List(u).uids = u
      /\ \A i, ps, v : /\ PropReply(i, ps, v).k = "prop" /\ PropReply(i, ps, v).i = i
                       /\ PropReply(i, ps, v).ps = ps /\ PropReply(i, ps, v).values = v
      /\ \A a, x : Told(a, x).k = "signal" /\ Told(a, x).a = a /\ Told(a, x).s = x
      /\ \A i, n, l : /\ LayoutReply(i, n, l).k = "layout" /\ LayoutReply(i, n, l).i = i
                      /\ LayoutReply(i, n, l).layout = l /\ LayoutReply(i, n, l).node = n
      /\ \A i, n, r : /\ AboutReply(i, n, r).k = "about to show" /\ AboutReply(i, n, r).i = i
                      /\ AboutReply(i, n, r).node = n
  BY DEF Msg, List, PropReply, Told, LayoutReply, AboutReply
<1>1. \A k \in {"vanished", "appeared", "name lost", "get list"} :
        Msg(k, Nobody) \in Messages /\ Msg(k, Nobody).k = k
  BY <1>0 DEF Messages, Plain, Msg
<1>2. \A k \in {"register", "registered", "gone", "unregistered", "layout updated"}, a \in Apps :
        Msg(k, a) \in Messages /\ Msg(k, a).k = k /\ Msg(k, a).a = a
  BY <1>0 DEF Messages, About, Msg
<1>3. \A u \in SUBSET Apps : List(u) \in Messages /\ List(u).k = "list" /\ List(u).uids = u
  BY <1>0 DEF Messages, ListReplies, List
<1>4. \A i \in Nat, ps \in SUBSET Props, v \in Answers :
        /\ PropReply(i, ps, v) \in Messages /\ PropReply(i, ps, v).k = "prop" /\ PropReply(i, ps, v).i = i
        /\ PropReply(i, ps, v).ps = ps /\ PropReply(i, ps, v).values = v
  BY <1>0 DEF Messages, PropReplies, PropReply
<1>5. \A a \in Apps, x \in Signals :
        Told(a, x) \in Messages /\ Told(a, x).k = "signal" /\ Told(a, x).a = a /\ Told(a, x).s = x
  BY <1>0 DEF Messages, SignalsSent, Told
<1>6. \A i \in Nat, n \in Nodes, l \in MenuLayouts :
        /\ LayoutReply(i, n, l) \in Messages /\ LayoutReply(i, n, l).k = "layout"
        /\ LayoutReply(i, n, l).i = i /\ LayoutReply(i, n, l).layout = l /\ LayoutReply(i, n, l).node = n
  BY <1>0 DEF Messages, LayoutReplies, LayoutReply
<1>7. \A i \in Nat, n \in Nodes, r \in BOOLEAN :
        /\ AboutReply(i, n, r) \in Messages /\ AboutReply(i, n, r).k = "about to show"
        /\ AboutReply(i, n, r).i = i /\ AboutReply(i, n, r).node = n
  BY <1>0 DEF Messages, ShowReplies, AboutReply
<1> QED BY <1>1, <1>2, <1>3, <1>4, <1>5, <1>6, <1>7

LEMMA MessageKinds ==
  ASSUME NEW x \in Messages
  PROVE  \/ x.k \in {"vanished", "appeared", "name lost", "get list"} /\ x = Msg(x.k, Nobody)
         \/ /\ x.k \in {"register", "registered", "gone", "unregistered", "layout updated"}
            /\ x.a \in Apps /\ x = Msg(x.k, x.a)
         \/ x.k = "list" /\ x.uids \in SUBSET Apps /\ x = List(x.uids)
         \/ /\ x.k = "prop" /\ x.i \in Nat /\ x.ps \in SUBSET Props /\ x.values \in Answers
            /\ x = PropReply(x.i, x.ps, x.values)
         \/ x.k = "signal" /\ x.a \in Apps /\ x.s \in Signals /\ x = Told(x.a, x.s)
         \/ x.k = "layout" /\ x.i \in Nat /\ x.node \in Nodes /\ x.layout \in MenuLayouts
         \/ x.k = "about to show" /\ x.i \in Nat /\ x.node \in Nodes /\ x.refresh \in BOOLEAN
<1>1. CASE x \in Plain
  BY <1>1 DEF Plain, Msg
<1>2. CASE x \in About
  BY <1>2 DEF About, Msg
<1>3. CASE x \in ListReplies
  BY <1>3 DEF ListReplies, List
<1>4. CASE x \in PropReplies
  BY <1>4 DEF PropReplies, PropReply
<1>5. CASE x \in SignalsSent
  BY <1>5 DEF SignalsSent, Told
<1>6. CASE x \in LayoutReplies
  BY <1>6 DEF LayoutReplies
<1>7. CASE x \in ShowReplies
  BY <1>7 DEF ShowReplies
<1> QED BY <1>1, <1>2, <1>3, <1>4, <1>5, <1>6, <1>7, Zenon DEF Messages

LEMMA CallKinds ==
  /\ \A x \in Calls : 
       (x.k = "get" /\ x.i \in Nat /\ x.ps \in SUBSET Props /\ x = Get(x.i, x.ps)) \/
       (x.k \in {"layout", "about to show"} /\ x.i \in Nat /\ x.node \in Nodes)
  /\ \A i \in Nat, ps \in SUBSET Props :
       Get(i, ps) \in Calls /\ Get(i, ps).k = "get" /\ Get(i, ps).i = i /\ Get(i, ps).ps = ps
  /\ \A k \in {"layout", "about to show"}, i \in Nat, n \in Nodes :
       MenuCall(k, i, n) \in Calls /\ MenuCall(k, i, n).k = k /\ MenuCall(k, i, n).i = i
<1>0. /\ \A i, ps : Get(i, ps).k = "get" /\ Get(i, ps).i = i /\ Get(i, ps).ps = ps
      /\ \A k, i, n : MenuCall(k, i, n).k = k /\ MenuCall(k, i, n).i = i /\ MenuCall(k, i, n).node = n
  BY DEF Get, MenuCall
<1>1. ASSUME NEW x \in Gets PROVE x.k = "get" /\ x.i \in Nat /\ x.ps \in SUBSET Props /\ x = Get(x.i, x.ps)
  BY <1>1 DEF Gets, Get
<1>2. ASSUME NEW x \in MenuCalls
      PROVE  x.k \in {"layout", "about to show"} /\ x.i \in Nat /\ x.node \in Nodes
  BY <1>2 DEF MenuCalls
<1>3. \A i \in Nat, ps \in SUBSET Props :
        Get(i, ps) \in Calls /\ Get(i, ps).k = "get" /\ Get(i, ps).i = i /\ Get(i, ps).ps = ps
  BY DEF Calls, Gets, Get
<1>4. \A k \in {"layout", "about to show"}, i \in Nat, n \in Nodes :
        MenuCall(k, i, n) \in Calls /\ MenuCall(k, i, n).k = k /\ MenuCall(k, i, n).i = i
  BY DEF Calls, MenuCalls, MenuCall
<1>5. \A x \in Calls : 
       (x.k = "get" /\ x.i \in Nat /\ x.ps \in SUBSET Props /\ x = Get(x.i, x.ps)) \/
       (x.k \in {"layout", "about to show"} /\ x.i \in Nat /\ x.node \in Nodes)
  <2> TAKE x \in Calls
  <2>1. x \in Gets \/ x \in MenuCalls
    BY Zenon DEF Calls
  <2> QED BY <1>1, <1>2, <2>1, Zenon
<1> QED BY <1>3, <1>4, <1>5

LEMMA GetKind ==
  ASSUME NEW i \in Nat, NEW ps \in SUBSET Props
  PROVE  Get(i, ps) \in Calls /\ Get(i, ps).k = "get" /\ Get(i, ps).i = i /\ Get(i, ps).ps = ps
BY DEF Calls, Gets, Get

\* What was there, and is of K, is there in its order.
LEMMA SendsIn ==
  ASSUME NEW b \in Seq(Messages), NEW c, NEW K, Sends(b, c, K)
  PROVE  c \in Seq(Messages) /\ \A x \in K : x \in ToSet(c) <=> x \in ToSet(b)
<1>1. PICK d \in Seq(Messages), e \in Seq(Messages) :
        /\ c = d \o e /\ ToSet(e) \cap K = {}
        /\ d = b \/ (b # <<>> /\ Head(b) \notin K /\ d = Tail(b))
  BY DEF Sends
<1>2. c \in Seq(Messages) /\ ToSet(c) = ToSet(d) \cup ToSet(e)
  BY <1>1, InConcat
<1>3. \A x \in K : x \in ToSet(d) <=> x \in ToSet(b)
  <2>1. CASE d = b
    BY <2>1
  <2>2. CASE b # <<>> /\ Head(b) \notin K /\ d = Tail(b)
    <3>1. ToSet(b) = {Head(b)} \cup ToSet(Tail(b))
      BY <2>2, InTail, Zenon
    <3> QED BY <2>2, <3>1, Zenon
  <2> QED BY <1>1, <2>1, <2>2
<1> QED BY <1>1, <1>2, <1>3

LEMMA SendsBefore ==
  ASSUME NEW b \in Seq(Messages), NEW c, NEW K, NEW S \in SUBSET K, NEW T,
         Sends(b, c, K), AllBefore(b, S, T), ToSet(c) \cap T \subseteq K
  PROVE  AllBefore(c, S, T)
<1>1. PICK d \in Seq(Messages), e \in Seq(Messages) :
        /\ c = d \o e /\ ToSet(e) \cap K = {}
        /\ d = b \/ (b # <<>> /\ Head(b) \notin K /\ d = Tail(b))
  BY DEF Sends
<1>2. AllBefore(d, S, T)
  <2>1. CASE d = b
    BY <2>1
  <2>2. CASE b # <<>> /\ Head(b) \notin K /\ d = Tail(b)
    <3>1. AllBefore(Tail(b), S, T)
      BY <2>2, BeforeTail, Zenon
    <3> QED BY <2>2, <3>1
  <2> QED BY <1>1, <2>1, <2>2
<1>3. AllBefore(e, S, T)
  <2>1. ToSet(e) \cap S = {}
    BY <1>1
  <2> QED BY <2>1, BeforeEmpty
<1>4. ToSet(e) \cap S = {}
  BY <1>1
<1> QED BY <1>1, <1>2, <1>3, <1>4, BeforeConcat

LEMMA SendsSealed ==
  ASSUME NEW b \in Seq(Messages), NEW c, NEW K, NEW S \in SUBSET K, NEW T \in SUBSET K,
         Sends(b, c, K), Sealed(b, S, T)
  PROVE  Sealed(c, S, T)
<1>1. PICK d \in Seq(Messages), e \in Seq(Messages) :
        /\ c = d \o e /\ ToSet(e) \cap K = {}
        /\ d = b \/ (b # <<>> /\ Head(b) \notin K /\ d = Tail(b))
  BY DEF Sends
<1>2. Sealed(d, S, T)
  <2>1. CASE d = b
    BY <2>1
  <2>2. CASE b # <<>> /\ Head(b) \notin K /\ d = Tail(b)
    <3>1. \/ Sealed(Tail(b), S, T)
          \/ Head(b) \in T /\ ToSet(Tail(b)) \cap S = {}
      BY <2>2, SealedTail, Zenon
    <3> QED BY <2>2, <3>1
  <2> QED BY <1>1, <2>1, <2>2
<1>3. ToSet(e) \cap S = {}
  BY <1>1
<1> QED BY <1>1, <1>2, <1>3, SealedConcat

LEMMA SendsOnce ==
  ASSUME NEW b \in Seq(Messages), NEW c, NEW K, NEW x \in K, Sends(b, c, K), Once(b, x)
  PROVE  Once(c, x)
<1>1. PICK d \in Seq(Messages), e \in Seq(Messages) :
        /\ c = d \o e /\ ToSet(e) \cap K = {}
        /\ d = b \/ (b # <<>> /\ Head(b) \notin K /\ d = Tail(b))
  BY DEF Sends
<1>2. Once(d, x)
  BY <1>1, OnceTail
<1>3. x \notin ToSet(e)
  BY <1>1
<1> QED BY <1>1, <1>2, <1>3, OnceConcat

LEMMA MessagesSized == Sized(Messages, "prop") /\ Sized(Calls, "get")
<1>1. \A ps \in SUBSET Props : Cardinality(ps) \in Nat
  BY PropsAssumption, FS_Subset, FS_CardinalityType
<1>2. \A x \in Messages : x.k = "prop" => x.ps \in SUBSET Props
  BY MessageKinds
<1>3. \A x \in Calls : x.k = "get" => x.ps \in SUBSET Props
  BY CallKinds
<1> QED BY <1>1, <1>2, <1>3, Zenon DEF Sized

LEMMA SendsCounted ==
  ASSUME NEW b \in Seq(Messages), NEW c, NEW K, NEW i, Kinds({"prop"}) \subseteq K, Sends(b, c, K)
  PROVE  Counted(c, "prop", i) = Counted(b, "prop", i) /\ Counted(b, "prop", i) \in Nat
<1>1. PICK d \in Seq(Messages), e \in Seq(Messages) :
        /\ c = d \o e /\ ToSet(e) \cap K = {}
        /\ d = b \/ (b # <<>> /\ Head(b) \notin K /\ d = Tail(b))
  BY DEF Sends
<1>2. \A x \in Messages : x \notin K => ~(x.k = "prop" /\ x.i = i)
  BY DEF Kinds
<1>3. Counted(e, "prop", i) = 0
  <2>1. ToSet(e) \subseteq Messages
    BY InType
  <2>2. \A x \in ToSet(e) : ~(x.k = "prop" /\ x.i = i)
    BY <1>1, <1>2, <2>1
  <2> QED BY <2>2, CountedNone, MessagesSized
<1>a. \A o \in Seq(Messages) : Counted(o \o d, "prop", i) = Counted(o, "prop", i) + Counted(d, "prop", i)
  BY CountedConcat, MessagesSized
<1>4. Counted(d, "prop", i) = Counted(b, "prop", i)
  <2> SUFFICES ASSUME b # <<>>, Head(b) \notin K, d = Tail(b) PROVE Counted(d, "prop", i) = Counted(b, "prop", i)
    BY <1>1
  <2>1. PICK h \in Messages, o \in Seq(Messages) : h = Head(b) /\ o = <<h>> /\ b = o \o d
    <3>1. Head(b) \in Messages /\ b = <<Head(b)>> \o Tail(b)
      BY InTail
    <3>2. <<Head(b)>> \in Seq(Messages)
      BY <3>1
    <3> QED BY <3>1, <3>2, Zenon
  <2>2. ToSet(o) = {h}
    BY <2>1, InOne
  <2>3. ~(h.k = "prop" /\ h.i = i)
    BY <1>2, <2>1
  <2>4. Counted(o, "prop", i) = 0
    BY <2>2, <2>3, CountedNone, MessagesSized
  <2>5. Counted(b, "prop", i) = Counted(o, "prop", i) + Counted(d, "prop", i)
    BY <1>a, <2>1, Zenon
  <2>6. Counted(d, "prop", i) \in Nat
    BY MessagesSized, WeightsAre
  <2> QED BY <2>1, <2>4, <2>5, <2>6
<1>5. Counted(c, "prop", i) = Counted(d, "prop", i) + Counted(e, "prop", i)
  BY <1>1, CountedConcat, MessagesSized
<1>6. Counted(b, "prop", i) \in Nat
  BY MessagesSized, WeightsAre
<1> QED BY <1>3, <1>4, <1>5, <1>6

----------------------------------------------------------------------------
(* What the handlers do *)

LiveSet(s) == {i \in DOMAIN s.sni : s.sni[i].live = TRUE}

\* What a call c of a's makes of the messages and the calls
Sent(c, box, calls, a, r) ==
  /\ c.calls \in [Apps -> Seq(Calls)] /\ c.box \in Seq(Messages)
  /\ a \in alive => c.box = box /\ c.calls[a] = Append(calls[a], r)
  /\ \A b \in Apps : b # a => c.calls[b] = calls[b]
  /\ a \notin alive =>
       /\ c.calls = calls
       /\ c.box = IF r.k = "get" THEN Append(box, PropReply(r.i, r.ps, Failed)) ELSE box

LEMMA CallSends ==
  ASSUME NEW box \in Seq(Messages), NEW calls \in [Apps -> Seq(Calls)], NEW a \in Apps, NEW r \in Calls
  PROVE  Sent(Call(box, calls, a, r), box, calls, a, r)
<1>1. CASE a \in alive
  BY <1>1 DEF Call, Up, Sent
<1>2. CASE a \notin alive
  <2>1. Call(box, calls, a, r) = [box |-> IF r.k = "get" THEN Append(box, PropReply(r.i, r.ps, Failed)) ELSE box,
                                  calls |-> calls]
    BY <1>2 DEF Call, Up
  <2>2. r.k = "get" => PropReply(r.i, r.ps, Failed) \in Messages
    <3>1. Failed \in Answers
      BY DEF Answers
    <3> QED BY <3>1, CallKinds, MessageTypes
  <2>3. (IF r.k = "get" THEN Append(box, PropReply(r.i, r.ps, Failed)) ELSE box) \in Seq(Messages)
    BY <2>2
  <2> QED BY <1>2, <2>1, <2>3 DEF Sent
<1> QED BY <1>1, <1>2

LEMMA NoneSet == [p \in Props |-> Unset] \in Shows
BY DEF Shows

LEMMA ViewIn == ASSUME NEW v \in Shows PROVE View(v) \in {View(w) : w \in Shows}
OBVIOUS

LEMMA NewItemIn == ASSUME NEW a \in Apps PROVE NewItem(a) \in ItemSet
<1>1. Cardinality(Props) \in Nat
  BY PropsAssumption, FS_CardinalityType
<1>2. NoMenu \in MenuSet
  BY DEF NoMenu, MenuSet
<1> QED BY <1>1, <1>2, NoneSet DEF NewItem, ItemSet

\* The first child of an item
LEMMA FirstIn == ASSUME NEW js \in SUBSET Nat, js # {} PROVE FirstOf(js) \in js
<1>1. PICK j \in js : \A k \in js : j <= k
  BY Least
<1> QED BY <1>1 DEF FirstOf

LEMMA StateFields ==
  ASSUME NEW s \in States
  PROVE  /\ s.sni \in Seq(ItemSet) /\ s.tray \in Seq(Children) /\ s.invalid \in BOOLEAN
         /\ s.box \in Seq(Messages) /\ s.calls \in [Apps -> Seq(Calls)]
BY DEF States

LEMMA ItemFields ==
  ASSUME NEW s \in States, NEW i \in DOMAIN s.sni
  PROVE  /\ s.sni[i] \in ItemSet /\ s.sni[i].uid \in Apps /\ s.sni[i].live \in BOOLEAN /\ s.sni[i].ref \in Int
         /\ s.sni[i].values \in Shows /\ s.sni[i].menu \in MenuSet /\ i \in Nat
<1>1. s.sni \in Seq(ItemSet)
  BY StateFields
<1>2. s.sni[i] \in ItemSet /\ i \in Nat
  BY <1>1
<1> QED BY <1>2 DEF ItemSet

\* sni_host_item_new
LEMMA NewAre ==
  ASSUME NEW s \in States, NEW a \in Apps, ~Known(s, a)
  PROVE  LET t == ItemNew(s, a)  i == Len(s.sni) + 1 IN
         /\ t \in States
         /\ t.sni = Append(s.sni, NewItem(a)) /\ t.tray = Append(s.tray, Child(i)) /\ t.invalid = TRUE
         /\ \A b \in Apps : b # a => t.calls[b] = s.calls[b]
         /\ a \in alive => t.box = s.box /\ t.calls[a] = Append(s.calls[a], Get(i, Props))
         /\ a \notin alive => t.calls = s.calls /\ t.box = Append(s.box, PropReply(i, Props, Failed))
<1> DEFINE i == Len(s.sni) + 1
           sent == GetProps(s.box, s.calls, i, a, Props)
           t == ItemNew(s, a)
<1>1. t = [sni |-> Append(s.sni, NewItem(a)), tray |-> Append(s.tray, Child(i)), invalid |-> TRUE,
           box |-> sent.box, calls |-> sent.calls]
  BY DEF ItemNew
<1>2. s.sni \in Seq(ItemSet) /\ s.tray \in Seq(Children) /\ s.box \in Seq(Messages) /\ s.calls \in [Apps -> Seq(Calls)]
  BY StateFields
<1>3. i \in Nat
  BY <1>2
<1> DEFINE r == Get(i, Props)
<1>r. r \in Calls /\ r.k = "get" /\ r.i = i /\ r.ps = Props
  <2> HIDE DEF i
  <2>1. Props \in SUBSET Props
    OBVIOUS
  <2> QED BY <1>3, <2>1, GetKind, Zenon
<1>4. sent = Call(s.box, s.calls, a, r)
  BY DEF GetProps
<1>5. Child(i) \in Children
  BY <1>3, NoneSet DEF Child, Children
<1>6. NewItem(a) \in ItemSet
  BY NewItemIn
<1>7. /\ sent.calls \in [Apps -> Seq(Calls)] /\ sent.box \in Seq(Messages)
      /\ \A b \in Apps : b # a => sent.calls[b] = s.calls[b]
      /\ a \in alive => sent.box = s.box /\ sent.calls[a] = Append(s.calls[a], Get(i, Props))
      /\ a \notin alive => sent.calls = s.calls /\ sent.box = Append(s.box, PropReply(i, Props, Failed))
  <2> HIDE DEF r, sent, t, i
  <2>1. /\ sent.calls \in [Apps -> Seq(Calls)] /\ sent.box \in Seq(Messages)
        /\ \A b \in Apps : b # a => sent.calls[b] = s.calls[b]
        /\ a \in alive => sent.box = s.box /\ sent.calls[a] = Append(s.calls[a], r)
        /\ a \notin alive =>
             sent.calls = s.calls
             /\ sent.box = IF r.k = "get" THEN Append(s.box, PropReply(r.i, r.ps, Failed)) ELSE s.box
    <3>1. Sent(sent, s.box, s.calls, a, r)
      BY <1>2, <1>4, <1>r, CallSends, Zenon
    <3> QED BY <3>1, Zenon DEF Sent
  <2> QED BY <2>1, <1>r DEF r
<1> HIDE DEF sent
<1>8. Append(s.sni, NewItem(a)) \in Seq(ItemSet) /\ Append(s.tray, Child(i)) \in Seq(Children)
  BY <1>2, <1>5, <1>6
<1>9. t \in States
  BY <1>1, <1>7, <1>8 DEF States
<1> QED BY <1>1, <1>7, <1>9

\* sni_item_free
LEMMA FreedAre ==
  ASSUME NEW s \in States, NEW i \in DOMAIN s.sni
  PROVE  LET t == ItemFree(s, i) IN
         /\ t \in States /\ t.box = s.box /\ t.calls = s.calls
         /\ DOMAIN t.sni = DOMAIN s.sni /\ Len(t.sni) = Len(s.sni)
         /\ \A j \in DOMAIN s.sni : j # i => t.sni[j] = s.sni[j]
         /\ t.sni[i].uid = s.sni[i].uid /\ t.sni[i].live = FALSE /\ t.sni[i].menu = NoMenu
         /\ \/ t.tray = s.tray /\ t.invalid = s.invalid /\ \A j \in DOMAIN s.tray : s.tray[j].i # i
            \/ /\ t.invalid = TRUE
               /\ \E j \in DOMAIN s.tray : s.tray[j].i = i /\ t.tray = RemoveAt(s.tray, j)
<1> DEFINE d == DestroyChild(s, i)
<1>0. s.sni \in Seq(ItemSet) /\ s.tray \in Seq(Children) /\ s.box \in Seq(Messages)
      /\ s.calls \in [Apps -> Seq(Calls)] /\ s.invalid \in BOOLEAN
  BY StateFields
<1>1. \A j \in DOMAIN s.tray : RemoveAt(s.tray, j) \in Seq(Children)
  <2> TAKE j \in DOMAIN s.tray
  <2>1. RemoveAt(s.tray, j) = SubSeq(s.tray, 1, j-1) \o SubSeq(s.tray, j+1, Len(s.tray))
    BY DEF RemoveAt
  <2>2. SubSeq(s.tray, 1, j-1) \in Seq(Children) /\ SubSeq(s.tray, j+1, Len(s.tray)) \in Seq(Children)
    BY <1>0
  <2> QED BY <2>1, <2>2
<1>2. /\ d \in States /\ d.sni = s.sni /\ d.box = s.box /\ d.calls = s.calls
      /\ \/ d.tray = s.tray /\ d.invalid = s.invalid /\ \A j \in DOMAIN s.tray : s.tray[j].i # i
         \/ /\ d.invalid = TRUE
            /\ \E j \in DOMAIN s.tray : s.tray[j].i = i /\ d.tray = RemoveAt(s.tray, j)
  <2>1. CASE ChildrenOf(s, i) = {}
    BY <2>1 DEF DestroyChild, ChildrenOf
  <2>2. CASE ChildrenOf(s, i) # {}
    <3> DEFINE j == FirstOf(ChildrenOf(s, i))
    <3>1. ChildrenOf(s, i) \in SUBSET Nat
      BY <1>0 DEF ChildrenOf
    <3>2. j \in DOMAIN s.tray /\ s.tray[j].i = i
      <4>1. j \in ChildrenOf(s, i)
        BY <2>2, <3>1, FirstIn, Zenon
      <4> QED BY <4>1, Zenon DEF ChildrenOf
    <3>3. d = [s EXCEPT !.tray = RemoveAt(@, j), !.invalid = TRUE]
      BY <2>2 DEF DestroyChild
    <3> HIDE DEF j
    <3>4. RemoveAt(s.tray, j) \in Seq(Children)
      BY <1>1, <3>2
    <3>5. d.tray = RemoveAt(s.tray, j) /\ d.invalid = TRUE /\ d.sni = s.sni /\ d.box = s.box /\ d.calls = s.calls
      BY <3>3 DEF States
    <3>6. d \in States
      BY <3>3, <3>4 DEF States
    <3> QED BY <3>2, <3>5, <3>6
  <2> QED BY <2>1, <2>2
<1> HIDE DEF d
<1> DEFINE t == ItemFree(s, i)  x == [s.sni[i] EXCEPT !.live = FALSE, !.menu = NoMenu]
<1>3. NoMenu \in MenuSet
  BY DEF NoMenu, MenuSet
<1>4. s.sni[i] \in ItemSet
  BY ItemFields
<1>5. x \in ItemSet /\ x.uid = s.sni[i].uid /\ x.live = FALSE /\ x.menu = NoMenu
  BY <1>3, <1>4 DEF ItemSet
<1>6. t = [d EXCEPT !.sni = [s.sni EXCEPT ![i] = x]]
  BY <1>0, <1>2 DEF ItemFree, d, States, ItemSet
<1> HIDE DEF x, t
<1>7. /\ t \in States /\ t.sni = [s.sni EXCEPT ![i] = x] /\ t.tray = d.tray /\ t.invalid = d.invalid
      /\ t.box = d.box /\ t.calls = d.calls
  <2>1. [s.sni EXCEPT ![i] = x] \in Seq(ItemSet)
    BY <1>0, <1>5
  <2> QED BY <1>2, <1>6, <2>1 DEF States
<1>8. t.sni[i] = x /\ Len(t.sni) = Len(s.sni) /\ DOMAIN t.sni = DOMAIN s.sni
      /\ \A j \in DOMAIN s.sni : j # i => t.sni[j] = s.sni[j]
  BY <1>0, <1>7
<1> QED BY <1>2, <1>5, <1>7, <1>8 DEF t

\* Of the items only i changes, neither whose it is nor whether it lives, and no
\* child of the tray changes hands.
Changed(s, t, i) ==
  /\ t \in States /\ DOMAIN t.sni = DOMAIN s.sni /\ DOMAIN t.tray = DOMAIN s.tray
  /\ \A j \in DOMAIN s.sni : j # i => t.sni[j] = s.sni[j]
  /\ t.sni[i].uid = s.sni[i].uid /\ t.sni[i].live = s.sni[i].live
  /\ \A j \in DOMAIN s.tray : t.tray[j].i = s.tray[j].i /\ t.tray[j].shown = s.tray[j].shown

\* What is to be drawn stays to be drawn, and the grid knows of it.
Due(s, t) ==
  /\ s.invalid = TRUE => t.invalid = TRUE
  /\ \A j \in DOMAIN s.tray : s.tray[j].invalid = TRUE => t.tray[j].invalid = TRUE
  /\ \A j \in DOMAIN s.tray : t.tray[j].invalid = TRUE => t.invalid = TRUE \/ s.tray[j].invalid = TRUE

\* Item i becomes x.
BecomesItem(s, t, i, x) ==
  /\ Changed(s, t, i) /\ t.sni[i] = x /\ t.tray = s.tray /\ t.invalid = s.invalid
  /\ t.box = s.box /\ t.calls = s.calls
SameOwner(x, y) == x.uid = y.uid /\ x.live = y.live

LEMMA ItemBecomes ==
  ASSUME NEW s \in States, NEW i \in DOMAIN s.sni, NEW x \in ItemSet, SameOwner(x, s.sni[i])
  PROVE  BecomesItem(s, [s EXCEPT !.sni = [s.sni EXCEPT ![i] = x]], i, x)
<1> DEFINE t == [s EXCEPT !.sni = [s.sni EXCEPT ![i] = x]]
<1>0. s.sni \in Seq(ItemSet) /\ s.tray \in Seq(Children)
  BY StateFields
<1>1. t.sni = [s.sni EXCEPT ![i] = x] /\ t.tray = s.tray /\ t.invalid = s.invalid /\ t.box = s.box
      /\ t.calls = s.calls
  BY DEF States
<1>2. [s.sni EXCEPT ![i] = x] \in Seq(ItemSet)
  BY <1>0
<1>3. t \in States
  BY <1>2 DEF States
<1> HIDE DEF t
<1>4. t.sni[i] = x /\ DOMAIN t.sni = DOMAIN s.sni /\ \A j \in DOMAIN s.sni : j # i => t.sni[j] = s.sni[j]
  BY <1>0, <1>1
<1> QED BY <1>1, <1>3, <1>4 DEF Changed, BecomesItem, SameOwner, t

\* Calls are sent.
BecomesBox(s, t, i, b, c) ==
  /\ Changed(s, t, i) /\ t.sni = s.sni /\ t.tray = s.tray /\ t.invalid = s.invalid
  /\ t.box = b /\ t.calls = c

LEMMA BoxBecomes ==
  ASSUME NEW s \in States, NEW i \in DOMAIN s.sni, NEW b \in Seq(Messages), NEW c \in [Apps -> Seq(Calls)]
  PROVE  BecomesBox(s, [s EXCEPT !.box = b, !.calls = c], i, b, c)
<1> DEFINE t == [s EXCEPT !.box = b, !.calls = c]
<1>1. t.sni = s.sni /\ t.tray = s.tray /\ t.invalid = s.invalid /\ t.box = b /\ t.calls = c
  BY DEF States
<1>2. t \in States
  BY DEF States
<1> HIDE DEF t
<1> QED BY <1>1, <1>2 DEF Changed, BecomesBox, t

LEMMA ChangedTwice ==
  ASSUME NEW s, NEW t, NEW u, NEW i, Changed(s, t, i), Changed(t, u, i)
  PROVE  Changed(s, u, i)
BY DEF Changed

LEMMA DueTwice ==
  ASSUME NEW s, NEW t, NEW u, DOMAIN s.tray = DOMAIN t.tray, Due(s, t), Due(t, u)
  PROVE  Due(s, u)
BY DEF Due

LEMMA DueSame ==
  ASSUME NEW s, NEW t, t.tray = s.tray, t.invalid = s.invalid
  PROVE  Due(s, t)
BY DEF Due

\* tray_invalidate_item
LEMMA InvalidatedAre ==
  ASSUME NEW s \in States, NEW i \in DOMAIN s.sni
  PROVE  LET t == InvalidateItem(s, i) IN
         /\ Changed(s, t, i) /\ t.sni = s.sni /\ t.box = s.box /\ t.calls = s.calls /\ Due(s, t)
         /\ \A j \in DOMAIN s.tray : s.tray[j].i = i =>
              /\ t.invalid = TRUE
              /\ \E k \in DOMAIN s.tray : s.tray[k].i = i /\ t.tray[k].invalid = TRUE
<1> DEFINE t == InvalidateItem(s, i)
<1>0. s.sni \in Seq(ItemSet) /\ s.tray \in Seq(Children) /\ s.invalid \in BOOLEAN
  BY StateFields
<1>1. CASE ChildrenOf(s, i) = {}
  <2>1. t = s /\ \A j \in DOMAIN s.tray : s.tray[j].i # i
    BY <1>1 DEF InvalidateItem, ChildrenOf
  <2> QED BY <2>1 DEF Changed, Due
<1>2. CASE ChildrenOf(s, i) # {}
  <2> DEFINE j == FirstOf(ChildrenOf(s, i))
  <2>1. ChildrenOf(s, i) \in SUBSET Nat
    BY <1>0 DEF ChildrenOf
  <2>2. j \in DOMAIN s.tray /\ s.tray[j].i = i
    <3>1. j \in ChildrenOf(s, i)
      BY <1>2, <2>1, FirstIn, Zenon
    <3> QED BY <3>1, Zenon DEF ChildrenOf
  <2>3. t = [s EXCEPT !.tray[j].invalid = TRUE, !.invalid = TRUE]
    BY <1>2 DEF InvalidateItem
  <2> HIDE DEF j, t
  <2> DEFINE y == [s.tray[j] EXCEPT !.invalid = TRUE]
  <2>4. s.tray[j] \in Children
    BY <1>0, <2>2
  <2>5. y \in Children /\ y.i = s.tray[j].i /\ y.shown = s.tray[j].shown /\ y.invalid = TRUE
    BY <2>4 DEF Children
  <2>6. t = [s EXCEPT !.tray = [s.tray EXCEPT ![j] = y], !.invalid = TRUE]
    BY <2>3, <2>4 DEF States, Children
  <2> HIDE DEF y
  <2>7. [s.tray EXCEPT ![j] = y] \in Seq(Children)
    BY <1>0, <2>2, <2>5
  <2>8. /\ t \in States /\ t.sni = s.sni /\ t.tray = [s.tray EXCEPT ![j] = y] /\ t.invalid = TRUE
        /\ t.box = s.box /\ t.calls = s.calls
    BY <2>6, <2>7 DEF States
  <2>9. DOMAIN t.tray = DOMAIN s.tray /\ t.tray[j] = y /\ \A k \in DOMAIN s.tray : k # j => t.tray[k] = s.tray[k]
    BY <1>0, <2>2, <2>8
  <2>10. \A k \in DOMAIN s.tray : t.tray[k].i = s.tray[k].i /\ t.tray[k].shown = s.tray[k].shown
    BY <2>5, <2>9
  <2>11. Changed(s, t, i)
    BY <2>8, <2>9, <2>10 DEF Changed
  <2>12. Due(s, t)
    BY <2>5, <2>8, <2>9 DEF Due
  <2> QED BY <2>2, <2>5, <2>8, <2>9, <2>11, <2>12 DEF t
<1> QED BY <1>1, <1>2

\* What a reply about ps makes of item i
StoredIn(s, t, i, ps, v) ==
  /\ Changed(s, t, i) /\ Due(s, t) /\ t.sni[i].ref = s.sni[i].ref - Cardinality(ps)
  /\ v = Failed =>
       /\ t.sni[i].values = s.sni[i].values /\ t.sni[i].menu = s.sni[i].menu
       /\ t.tray = s.tray /\ t.invalid = s.invalid /\ t.box = s.box /\ t.calls = s.calls
  /\ v # Failed =>
       /\ \A p \in Props : t.sni[i].values[p] = IF p \in ps THEN v[p] ELSE s.sni[i].values[p]
       /\ \A j \in DOMAIN s.tray : s.tray[j].i = i =>
            /\ t.invalid = TRUE
            /\ \E k \in DOMAIN s.tray : s.tray[k].i = i /\ t.tray[k].invalid = TRUE
       /\ "Menu" \notin ps => t.sni[i].menu = s.sni[i].menu /\ t.box = s.box /\ t.calls = s.calls
       /\ "Menu" \in ps => /\ t.sni[i].menu = NewMenu
                           /\ Sent(t, s.box, s.calls, s.sni[i].uid, MenuCall("layout", i, "root"))

\* sni_menu_init
LEMMA MenuStarts ==
  ASSUME NEW s \in States, NEW i \in DOMAIN s.sni
  PROVE  LET t == MenuInit(s, i) IN
         /\ Changed(s, t, i) /\ t.tray = s.tray /\ t.invalid = s.invalid
         /\ t.sni[i] = [s.sni[i] EXCEPT !.menu = NewMenu]
         /\ Sent(t, s.box, s.calls, s.sni[i].uid, MenuCall("layout", i, "root"))
<1> DEFINE a == s.sni[i].uid  r == MenuCall("layout", i, "root")  c == Call(s.box, s.calls, a, r)
           x == [s.sni[i] EXCEPT !.menu = NewMenu]
           u == [s EXCEPT !.sni = [s.sni EXCEPT ![i] = x]]
           t == MenuInit(s, i)
<1>1. s.sni[i] \in ItemSet /\ a \in Apps /\ i \in Nat
  BY ItemFields
<1>2. NewMenu \in MenuSet
  <2>1. NoMenu \in MenuSet
    BY DEF NoMenu, MenuSet
  <2> QED BY <2>1 DEF NewMenu, MenuSet
<1>3. x \in ItemSet /\ x.uid = s.sni[i].uid /\ x.live = s.sni[i].live
  BY <1>1, <1>2 DEF ItemSet
<1>4. r \in Calls
  <2>1. "root" \in Nodes
    BY DEF Nodes
  <2> QED BY <1>1, <2>1, CallKinds
<1>5. s.sni \in Seq(ItemSet) /\ s.box \in Seq(Messages) /\ s.calls \in [Apps -> Seq(Calls)]
  BY StateFields
<1> HIDE DEF a, r
<1>6. Sent(c, s.box, s.calls, a, r)
  BY <1>1, <1>4, <1>5, CallSends, Zenon
<1>7. t = [u EXCEPT !.box = c.box, !.calls = c.calls]
  BY <1>1, <1>5 DEF MenuInit, States, a, r, ItemSet
<1> HIDE DEF x, c
<1>8. /\ Changed(s, u, i) /\ u.sni[i] = x /\ u.tray = s.tray /\ u.invalid = s.invalid
  <2>1. SameOwner(x, s.sni[i])
    BY <1>3 DEF SameOwner
  <2>2. BecomesItem(s, u, i, x)
    BY <1>3, <2>1, ItemBecomes, Zenon
  <2> QED BY <2>2, Zenon DEF BecomesItem
<1>9. u \in States /\ i \in DOMAIN u.sni
  BY <1>8 DEF Changed
<1> HIDE DEF u, t
<1>10. c.box \in Seq(Messages) /\ c.calls \in [Apps -> Seq(Calls)]
  BY <1>6 DEF Sent
<1>11. /\ Changed(u, t, i) /\ t.sni = u.sni /\ t.tray = u.tray /\ t.invalid = u.invalid
       /\ t.box = c.box /\ t.calls = c.calls
  <2>1. BecomesBox(u, [u EXCEPT !.box = c.box, !.calls = c.calls], i, c.box, c.calls)
    BY <1>9, <1>10, BoxBecomes
  <2>2. BecomesBox(u, t, i, c.box, c.calls)
    BY <1>7, <2>1, Zenon
  <2> QED BY <2>2, Zenon DEF BecomesBox
<1>12. Sent(t, s.box, s.calls, a, r)
  BY <1>6, <1>11 DEF Sent
<1>13. Changed(s, t, i)
  BY <1>8, <1>11, ChangedTwice
<1>14. t.sni[i] = [s.sni[i] EXCEPT !.menu = NewMenu]
  BY <1>8, <1>11 DEF x
<1> QED BY <1>8, <1>11, <1>12, <1>13, <1>14 DEF a, r, t

\* sni_item_prop_cb
LEMMA StoredAre ==
  ASSUME NEW s \in States, NEW i \in DOMAIN s.sni, NEW ps \in SUBSET Props, NEW v \in Answers
  PROVE  StoredIn(s, PropsStored(s, i, ps, v), i, ps, v)
<1> DEFINE n == Cardinality(ps)
           x == [s.sni[i] EXCEPT !.ref = @ - n]
           y == [x EXCEPT !.values = [p \in Props |-> IF p \in ps THEN v[p] ELSE @[p]]]
           counted == [s EXCEPT !.sni = [s.sni EXCEPT ![i] = x]]
           stored == [counted EXCEPT !.sni = [counted.sni EXCEPT ![i] = y]]
           w == IF "Menu" \in ps THEN MenuInit(stored, i) ELSE stored
           t == PropsStored(s, i, ps, v)
<1>1. n \in Nat
  BY PropsAssumption, FS_Subset, FS_CardinalityType
<1>2. s.sni[i] \in ItemSet /\ s.sni \in Seq(ItemSet)
  BY ItemFields, StateFields
<1>3. x \in ItemSet /\ x.uid = s.sni[i].uid /\ x.live = s.sni[i].live /\ x.ref = s.sni[i].ref - n
      /\ x.values = s.sni[i].values /\ x.menu = s.sni[i].menu
  BY <1>1, <1>2 DEF ItemSet
<1>4. /\ Changed(s, counted, i) /\ counted.sni[i] = x /\ counted.tray = s.tray /\ counted.invalid = s.invalid
      /\ counted.box = s.box /\ counted.calls = s.calls
  <2> HIDE DEF x
  <2>1. SameOwner(x, s.sni[i])
    BY <1>3 DEF SameOwner
  <2>2. BecomesItem(s, counted, i, x)
    BY <1>3, <2>1, ItemBecomes, Zenon
  <2> QED BY <2>2, Zenon DEF BecomesItem
<1>5. PropsStored(s, i, ps, v) =
        IF v = Failed THEN counted ELSE InvalidateItem(w, i)
  BY <1>2 DEF PropsStored, States, ItemSet
<1>6. CASE v = Failed
  <2>1. t = counted
    BY <1>5, <1>6
  <2> HIDE DEF t, counted, x
  <2>2. Due(s, t)
    BY <1>4, <2>1, DueSame
  <2> QED BY <1>3, <1>4, <1>6, <2>1, <2>2 DEF StoredIn, t
<1>7. CASE v # Failed
  <2>1. v \in [Props -> Values]
    BY <1>7 DEF Answers
  <2>2. y \in ItemSet /\ y.uid = s.sni[i].uid /\ y.live = s.sni[i].live /\ y.ref = s.sni[i].ref - n
        /\ y.menu = s.sni[i].menu
        /\ \A p \in Props : y.values[p] = (IF p \in ps THEN v[p] ELSE s.sni[i].values[p])
    <3>1. [p \in Props |-> IF p \in ps THEN v[p] ELSE s.sni[i].values[p]] \in Shows
      <4>1. s.sni[i].values \in Shows
        BY ItemFields
      <4> QED BY <2>1, <4>1 DEF Shows
    <3> QED BY <1>1, <1>2, <1>3, <3>1 DEF ItemSet
  <2>3. counted \in States /\ i \in DOMAIN counted.sni /\ SameOwner(y, counted.sni[i]) /\ y \in ItemSet
    <3> HIDE DEF counted, x, y
    <3> QED BY <1>3, <1>4, <2>2 DEF Changed, SameOwner
  <2>4. /\ Changed(counted, stored, i) /\ stored.sni[i] = y /\ stored.tray = counted.tray
        /\ stored.invalid = counted.invalid /\ stored.box = counted.box /\ stored.calls = counted.calls
    <3> HIDE DEF counted, y, x
    <3>1. BecomesItem(counted, stored, i, y)
      BY <2>3, ItemBecomes, Zenon
    <3> QED BY <3>1, Zenon DEF BecomesItem
  <2> HIDE DEF counted, x, y, stored
  <2>5. Changed(s, stored, i) /\ stored \in States /\ i \in DOMAIN stored.sni
    <3>1. Changed(s, stored, i)
      BY <1>4, <2>4, ChangedTwice
    <3> QED BY <3>1 DEF Changed
  <2>6. /\ Changed(stored, w, i) /\ w.tray = stored.tray /\ w.invalid = stored.invalid
        /\ w.sni[i].values = y.values /\ w.sni[i].ref = y.ref
        /\ "Menu" \notin ps => w.sni[i].menu = y.menu /\ w.box = s.box /\ w.calls = s.calls
        /\ "Menu" \in ps => /\ w.sni[i].menu = NewMenu
                            /\ Sent(w, s.box, s.calls, s.sni[i].uid, MenuCall("layout", i, "root"))
    <3>1. CASE "Menu" \in ps
      <4>1. w = MenuInit(stored, i)
        BY <3>1
      <4> HIDE DEF w
      <4>2. /\ Changed(stored, w, i) /\ w.tray = stored.tray /\ w.invalid = stored.invalid
            /\ w.sni[i] = [stored.sni[i] EXCEPT !.menu = NewMenu]
            /\ Sent(w, stored.box, stored.calls, stored.sni[i].uid, MenuCall("layout", i, "root"))
        BY <2>5, <4>1, MenuStarts, Zenon
      <4>3. w.sni[i].values = y.values /\ w.sni[i].ref = y.ref /\ w.sni[i].menu = NewMenu
        BY <2>2, <2>4, <4>2 DEF ItemSet
      <4>4. stored.box = s.box /\ stored.calls = s.calls /\ stored.sni[i].uid = s.sni[i].uid
        BY <1>4, <2>2, <2>4
      <4> QED BY <3>1, <4>2, <4>3, <4>4
    <3>2. CASE "Menu" \notin ps
      <4>1. w = stored
        BY <3>2
      <4> HIDE DEF w
      <4>2. Changed(stored, stored, i)
        BY <2>5 DEF Changed
      <4> QED BY <1>4, <2>4, <3>2, <4>1, <4>2
    <3> QED BY <3>1, <3>2
  <2>7. t = InvalidateItem(w, i)
    BY <1>5, <1>7
  <2> HIDE DEF w, t
  <2>8. Changed(s, w, i) /\ w \in States /\ i \in DOMAIN w.sni
    <3>1. Changed(s, w, i)
      BY <2>5, <2>6, ChangedTwice
    <3> QED BY <3>1 DEF Changed
  <2>9. /\ Changed(w, t, i) /\ t.sni = w.sni /\ t.box = w.box /\ t.calls = w.calls /\ Due(w, t)
        /\ \A j \in DOMAIN w.tray : w.tray[j].i = i =>
             /\ t.invalid = TRUE
             /\ \E k \in DOMAIN w.tray : w.tray[k].i = i /\ t.tray[k].invalid = TRUE
    BY <2>7, <2>8, InvalidatedAre, Zenon
  <2>10. w.tray = s.tray /\ w.invalid = s.invalid
    BY <1>4, <2>4, <2>6
  <2>11. Changed(s, t, i)
    BY <2>8, <2>9, ChangedTwice
  <2>12. Due(s, t)
    BY <2>9, <2>10 DEF Due
  <2>13. \A p \in Props : t.sni[i].values[p] = IF p \in ps THEN v[p] ELSE s.sni[i].values[p]
    <3>1. t.sni[i].values = y.values
      BY <2>6, <2>9
    <3> QED BY <2>2, <3>1
  <2>14. t.sni[i].ref = s.sni[i].ref - n
    BY <2>2, <2>6, <2>9
  <2>15. \A j \in DOMAIN s.tray : s.tray[j].i = i =>
           /\ t.invalid = TRUE
           /\ \E k \in DOMAIN s.tray : s.tray[k].i = i /\ t.tray[k].invalid = TRUE
    BY <2>9, <2>10
  <2>16. /\ "Menu" \notin ps => t.sni[i].menu = s.sni[i].menu /\ t.box = s.box /\ t.calls = s.calls
         /\ "Menu" \in ps => /\ t.sni[i].menu = NewMenu
                             /\ Sent(t, s.box, s.calls, s.sni[i].uid, MenuCall("layout", i, "root"))
    <3>1. CASE "Menu" \in ps
      <4>1. Sent(w, s.box, s.calls, s.sni[i].uid, MenuCall("layout", i, "root")) /\ w.sni[i].menu = NewMenu
        BY <2>6, <3>1
      <4> QED BY <2>9, <3>1, <4>1, Zenon DEF Sent
    <3>2. CASE "Menu" \notin ps
      BY <2>2, <2>6, <2>9, <3>2
    <3> QED BY <3>1, <3>2
  <2> QED BY <1>7, <2>11, <2>12, <2>13, <2>14, <2>15, <2>16 DEF StoredIn, t
<1> QED BY <1>6, <1>7

----------------------------------------------------------------------------
(* What the actions do to the items *)

\* When the first message is taken
Taken == Items(Tail(inbox))

Points(s) ==
  /\ \A x \in ToSet(s.box) : x.k \in {"prop", "layout", "about to show"} => x.i \in DOMAIN s.sni
  /\ \A a \in Apps : \A x \in ToSet(s.calls[a]) : x.i \in DOMAIN s.sni /\ s.sni[x.i].uid = a

LEMMA NowFields ==
  ASSUME Types
  PROVE  /\ Now \in States /\ Now.sni = sni /\ Now.tray = tray /\ Now.invalid = invalid /\ Now.box = inbox
         /\ Now.calls = asked
         /\ sni \in Seq(ItemSet) /\ tray \in Seq(Children) /\ invalid \in BOOLEAN /\ inbox \in Seq(Messages)
         /\ asked \in [Apps -> Seq(Calls)]
<1>1. Now \in States
  BY DEF Types
<1>2. Now.sni = sni /\ Now.tray = tray /\ Now.invalid = invalid /\ Now.box = inbox /\ Now.calls = asked
  BY DEF Now, Items
<1> QED BY <1>1, <1>2, StateFields, Zenon

LEMMA SniFields ==
  ASSUME Types, NEW i \in DOMAIN sni
  PROVE  /\ sni[i] \in ItemSet /\ sni[i].uid \in Apps /\ sni[i].live \in BOOLEAN /\ sni[i].ref \in Int
         /\ sni[i].values \in Shows /\ sni[i].menu \in MenuSet /\ i \in Nat
BY NowFields, ItemFields

LEMMA TakenFields ==
  ASSUME Types, NEW k, Incoming(k)
  PROVE  /\ Taken \in States /\ Taken.sni = sni /\ Taken.tray = tray /\ Taken.invalid = invalid
         /\ Taken.box = Tail(inbox) /\ Taken.calls = asked
         /\ inbox # <<>> /\ M \in Messages /\ M.k = k /\ Items(Rest) = Taken
         /\ ToSet(inbox) = {M} \cup ToSet(Tail(inbox))
<1>1. inbox \in Seq(Messages) /\ inbox # <<>> /\ M.k = k
  BY NowFields DEF Incoming, M
<1>2. Tail(inbox) \in Seq(Messages) /\ M \in Messages /\ ToSet(inbox) = {M} \cup ToSet(Tail(inbox))
  BY <1>1, InTail DEF M
<1>3. Taken.sni = sni /\ Taken.tray = tray /\ Taken.invalid = invalid /\ Taken.box = Tail(inbox) /\ Taken.calls = asked
  BY DEF Taken, Items
<1>4. Taken \in States
  BY <1>2, NowFields DEF Taken, Items, States
<1> QED BY <1>1, <1>2, <1>3, <1>4 DEF Rest, Taken

LEMMA BecomesNow ==
  ASSUME NEW t \in States, Becomes(t)
  PROVE  Now' = t
<1>1. sni' = t.sni /\ tray' = t.tray /\ invalid' = t.invalid /\ inbox' = t.box /\ asked' = t.calls
  BY DEF Becomes
<1> QED BY <1>1 DEF Now, Items, States

\* The live item of an application, if it has one
LEMMA OfIn ==
  ASSUME Types, NEW of \in SUBSET HostItems, of # {}
  PROVE  FirstOf(of) \in of /\ FirstOf(of) \in DOMAIN sni
<1>1. of \in SUBSET Nat
  BY NowFields DEF HostItems
<1> QED BY <1>1, FirstIn DEF HostItems

LEMMA HostItemsAre == ASSUME Types PROVE HostItems = LiveSet(Now)
<1>1. sni \in Seq(ItemSet) /\ Now.sni = sni
  BY NowFields
<1>2. \A i \in DOMAIN sni : sni[i].live \in BOOLEAN
  BY SniFields
<1> QED BY <1>1, <1>2 DEF HostItems, LiveSet

----------------------------------------------------------------------------

LEMMA RegisteredDoes ==
  ASSUME Types, HostItemRegistered
  PROVE  M.a \in Apps /\ Now' = ItemNew(Taken, M.a) /\ Now' \in States
<1>1. Incoming("registered") /\ Becomes(ItemNew(Items(Rest), M.a))
  BY Zenon DEF HostItemRegistered
<1>2. Taken \in States /\ M \in Messages /\ M.k = "registered" /\ Items(Rest) = Taken
  BY <1>1, TakenFields
<1>3. M.a \in Apps
  BY <1>2, MessageKinds
<1>4. ItemNew(Taken, M.a) \in States
  <2>1. CASE Known(Taken, M.a)
    BY <1>2, <2>1 DEF ItemNew
  <2>2. CASE ~Known(Taken, M.a)
    BY <1>2, <1>3, <2>2, NewAre
  <2> QED BY <2>1, <2>2
<1> QED BY <1>1, <1>2, <1>3, <1>4, BecomesNow

LEMMA UnregisteredDoes ==
  ASSUME Types, HostItemUnregistered
  PROVE  /\ M.a \in Apps /\ Now' \in States
         /\ \/ Now' = Taken /\ \A i \in LiveSet(Now) : sni[i].uid # M.a
            \/ \E i \in LiveSet(Now) : sni[i].uid = M.a /\ Now' = ItemFree(Taken, i)
<1> DEFINE of == {i \in HostItems : sni[i].uid = M.a}
<1>1. Incoming("unregistered")
      /\ Becomes(IF of = {} THEN Items(Rest) ELSE ItemFree(Items(Rest), FirstOf(of)))
  BY Zenon DEF HostItemUnregistered
<1>2. Taken \in States /\ M \in Messages /\ M.k = "unregistered" /\ Items(Rest) = Taken /\ Taken.sni = sni
  BY <1>1, TakenFields
<1>3. M.a \in Apps
  BY <1>2, MessageKinds
<1>4. of = {i \in LiveSet(Now) : sni[i].uid = M.a}
  BY HostItemsAre
<1>5. CASE of = {}
  <2>1. Becomes(Taken)
    BY <1>1, <1>2, <1>5
  <2>2. Now' = Taken
    BY <1>2, <2>1, BecomesNow
  <2> QED BY <1>2, <1>3, <1>4, <1>5, <2>2
<1>6. CASE of # {}
  <2> DEFINE i == FirstOf(of)
  <2>1. i \in of /\ i \in DOMAIN sni
    <3> HIDE DEF of
    <3>1. of \in SUBSET HostItems
      BY DEF of
    <3> QED BY <1>6, <3>1, OfIn
  <2>2. Becomes(ItemFree(Taken, i))
    BY <1>1, <1>2, <1>6
  <2> HIDE DEF i
  <2>3. ItemFree(Taken, i) \in States
    BY <1>2, <2>1, FreedAre
  <2>4. Now' = ItemFree(Taken, i)
    BY <2>2, <2>3, BecomesNow
  <2> QED BY <1>3, <1>4, <2>1, <2>3, <2>4
<1> QED BY <1>5, <1>6

LEMMA PropDoes ==
  ASSUME Types, Points(Now), ItemProp
  PROVE  /\ M.k = "prop" /\ M.i \in DOMAIN sni /\ M.ps \in SUBSET Props /\ M.values \in Answers /\ Now' \in States
         /\ \/ Now' = Taken /\ M.i \notin LiveSet(Now)
            \/ M.i \in LiveSet(Now) /\ StoredIn(Taken, Now', M.i, M.ps, M.values)
<1>1. Incoming("prop")
      /\ Becomes(IF Live(M.i) THEN PropsStored(Items(Rest), M.i, M.ps, M.values) ELSE Items(Rest))
  BY Zenon DEF ItemProp
<1>2. /\ Taken \in States /\ M \in Messages /\ M.k = "prop" /\ Items(Rest) = Taken /\ Taken.sni = sni
      /\ M \in ToSet(inbox)
  BY <1>1, TakenFields
<1>3. M.i \in Nat /\ M.ps \in SUBSET Props /\ M.values \in Answers
  BY <1>2, MessageKinds
<1>4. M.i \in DOMAIN sni
  BY <1>2, NowFields DEF Points
<1>5. Live(M.i) <=> M.i \in LiveSet(Now)
  <2>1. sni[M.i].live \in BOOLEAN
    BY <1>4, SniFields
  <2> QED BY <1>4, <2>1, NowFields DEF Live, LiveSet
<1>6. CASE ~Live(M.i)
  <2>1. Becomes(Taken)
    BY <1>1, <1>2, <1>6
  <2> QED BY <1>2, <1>3, <1>4, <1>5, <1>6, <2>1, BecomesNow
<1>7. CASE Live(M.i)
  <2> DEFINE t == PropsStored(Taken, M.i, M.ps, M.values)
  <2>1. Becomes(t)
    BY <1>1, <1>2, <1>7
  <2>2. StoredIn(Taken, t, M.i, M.ps, M.values)
    BY <1>2, <1>3, <1>4, StoredAre
  <2> HIDE DEF t
  <2>3. t \in States
    BY <2>2 DEF StoredIn, Changed
  <2>4. Now' = t
    BY <2>1, <2>3, BecomesNow
  <2> QED BY <1>2, <1>3, <1>4, <1>5, <1>7, <2>2, <2>3, <2>4
<1> QED BY <1>6, <1>7

\* A call of item i, about which nothing is known but what it changes in i
Asks(s, t, i, r) ==
  /\ Changed(s, t, i) /\ t.tray = s.tray /\ t.invalid = s.invalid /\ t.sni[i].values = s.sni[i].values
  /\ r \in Calls /\ r.i = i /\ Sent(t, s.box, s.calls, s.sni[i].uid, r)

\* Item i becomes x, and sends a call.
Becoming(s, i, x, r) ==
  LET c == Call(s.box, s.calls, s.sni[i].uid, r)
  IN  [s EXCEPT !.sni = [s.sni EXCEPT ![i] = x], !.box = c.box, !.calls = c.calls]
AskedAs(s, t, i, x, r) == t \in States /\ Asks(s, t, i, r) /\ t.sni[i] = x

LEMMA AsksAre ==
  ASSUME NEW s \in States, NEW i \in DOMAIN s.sni, NEW x \in ItemSet, NEW r \in Calls,
         SameOwner(x, s.sni[i]), x.values = s.sni[i].values, r.i = i
  PROVE  AskedAs(s, Becoming(s, i, x, r), i, x, r)
<1> DEFINE a == s.sni[i].uid
           c == Call(s.box, s.calls, a, r)
           u == [s EXCEPT !.sni = [s.sni EXCEPT ![i] = x]]
           t == [s EXCEPT !.sni = [s.sni EXCEPT ![i] = x], !.box = c.box, !.calls = c.calls]
<1>1. s.sni[i] \in ItemSet /\ a \in Apps /\ i \in Nat
  BY ItemFields
<1>2. s.sni \in Seq(ItemSet) /\ s.box \in Seq(Messages) /\ s.calls \in [Apps -> Seq(Calls)]
  BY StateFields
<1>3. Sent(c, s.box, s.calls, a, r)
  <2> HIDE DEF a
  <2> QED BY <1>1, <1>2, CallSends, Zenon
<1> HIDE DEF c
<1>4. BecomesItem(s, u, i, x)
  BY ItemBecomes, Zenon
<1>5. t = [u EXCEPT !.box = c.box, !.calls = c.calls]
  BY DEF States
<1> HIDE DEF u, t
<1>6. u \in States /\ i \in DOMAIN u.sni
  BY <1>4 DEF BecomesItem, Changed
<1>7. c.box \in Seq(Messages) /\ c.calls \in [Apps -> Seq(Calls)]
  BY <1>3 DEF Sent
<1>8. BecomesBox(u, t, i, c.box, c.calls)
  <2>1. BecomesBox(u, [u EXCEPT !.box = c.box, !.calls = c.calls], i, c.box, c.calls)
    BY <1>6, <1>7, BoxBecomes
  <2> QED BY <1>5, <2>1, Zenon
<1>9. Changed(s, t, i) /\ t.sni[i] = x /\ t.tray = s.tray /\ t.invalid = s.invalid
      /\ t.box = c.box /\ t.calls = c.calls
  BY <1>4, <1>8, ChangedTwice DEF BecomesItem, BecomesBox
<1>10. Sent(t, s.box, s.calls, a, r)
  BY <1>3, <1>9 DEF Sent
<1>11. t \in States
  BY <1>9 DEF Changed
<1> QED BY <1>9, <1>10, <1>11 DEF Asks, AskedAs, Becoming, t, c, a

LEMMA PropsOfIn ==
  ASSUME NEW x \in Signals
  PROVE  PropsOf(x) \in SUBSET Props /\ Cardinality(PropsOf(x)) \in Nat
<1>1. PropsOf(x) \in SUBSET Props
  <2>1. Named \subseteq Props
    BY PropsAssumption
  <2> QED BY <2>1 DEF Signals, PropsOf, Named
<1> QED BY <1>1, PropsAssumption, FS_Subset, FS_CardinalityType

LEMMA SignalDoes ==
  ASSUME Types, ItemSignal
  PROVE  /\ M.k = "signal" /\ M.a \in Apps /\ M.s \in Signals /\ Now' \in States
         /\ \/ Now' = Taken /\ \A i \in LiveSet(Now) : sni[i].uid # M.a
            \/ \E i \in LiveSet(Now) :
                 /\ sni[i].uid = M.a /\ Asks(Taken, Now', i, Get(i, PropsOf(M.s)))
                 /\ Now'.sni[i] = [sni[i] EXCEPT !.ref = @ + Cardinality(PropsOf(M.s))]
<1> DEFINE of == {i \in HostItems : sni[i].uid = M.a}
           ask(s, i) == LET sent == GetProps(s.box, s.calls, i, M.a, PropsOf(M.s))
                      IN  [s EXCEPT !.sni[i].ref = @ + Cardinality(PropsOf(M.s)),
                                    !.box = sent.box, !.calls = sent.calls]
<1>1. Incoming("signal")
      /\ Becomes(IF of = {} THEN Items(Rest) ELSE ask(Items(Rest), FirstOf(of)))
  BY Zenon DEF ItemSignal
<1>2. /\ Taken \in States /\ M \in Messages /\ M.k = "signal" /\ Items(Rest) = Taken /\ Taken.sni = sni
  BY <1>1, TakenFields
<1>3. M.a \in Apps /\ M.s \in Signals
  BY <1>2, MessageKinds
<1>4. of = {i \in LiveSet(Now) : sni[i].uid = M.a}
  BY HostItemsAre
<1>5. CASE of = {}
  <2>1. Becomes(Taken)
    BY <1>1, <1>2, <1>5
  <2>2. Now' = Taken
    BY <1>2, <2>1, BecomesNow
  <2> QED BY <1>2, <1>3, <1>4, <1>5, <2>2
<1>6. CASE of # {}
  <2> DEFINE i == FirstOf(of)
  <2>1. i \in of /\ i \in DOMAIN sni
    <3> HIDE DEF of
    <3>1. of \in SUBSET HostItems
      BY DEF of
    <3> QED BY <1>6, <3>1, OfIn
  <2>2. Becomes(ask(Taken, i))
    BY <1>1, <1>2, <1>6
  <2> DEFINE n == Cardinality(PropsOf(M.s))
             x == [sni[i] EXCEPT !.ref = @ + n]
             r == Get(i, PropsOf(M.s))
             t == Becoming(Taken, i, x, r)
  <2> HIDE DEF i, of
  <2>3. sni[i].uid = M.a /\ sni[i] \in ItemSet /\ i \in Nat
    BY <1>4, <2>1, SniFields
  <2>4. n \in Nat /\ PropsOf(M.s) \in SUBSET Props
    BY <1>3, PropsOfIn
  <2>5. r \in Calls /\ r.i = i
    BY <2>3, <2>4, GetKind, Zenon
  <2> HIDE DEF n
  <2>6. x \in ItemSet /\ SameOwner(x, Taken.sni[i]) /\ x.values = Taken.sni[i].values
    BY <1>2, <2>3, <2>4 DEF ItemSet, SameOwner
  <2>7. ask(Taken, i) = t
    BY <1>2, <2>1, <2>3 DEF Becoming, GetProps, States, ItemSet, n
  <2> HIDE DEF x, r
  <2>8. t \in States /\ Asks(Taken, t, i, r) /\ t.sni[i] = x
    <3>1. AskedAs(Taken, t, i, x, r)
      BY <1>2, <2>1, <2>5, <2>6, AsksAre, Zenon
    <3> QED BY <3>1, Zenon DEF AskedAs
  <2> HIDE DEF t, ask
  <2>9. Now' = t
    BY <2>2, <2>7, <2>8, BecomesNow
  <2> QED BY <1>2, <1>3, <1>4, <2>1, <2>3, <2>8, <2>9 DEF r, x, n
<1> QED BY <1>5, <1>6

LEMMA UpdatedDoes ==
  ASSUME Types, MenuLayoutUpdated
  PROVE  /\ M.k = "layout updated" /\ M.a \in Apps /\ Now' \in States
         /\ \/ Now' = Taken /\ \A i \in LiveSet(Now) : sni[i].uid = M.a => sni[i].menu.there = FALSE
            \/ \E i \in LiveSet(Now) :
                 /\ sni[i].uid = M.a /\ Asks(Taken, Now', i, MenuCall("layout", i, "root"))
                 /\ Now'.sni[i] = [sni[i] EXCEPT !.menu = Suppressed(@)]
<1> DEFINE of == {i \in HostItems : sni[i].uid = M.a /\ sni[i].menu.there}
           ask(s, i) == LET sent == Call(s.box, s.calls, M.a, MenuCall("layout", i, "root"))
                      IN  [s EXCEPT !.sni[i].menu = Suppressed(@), !.box = sent.box,
                                    !.calls = sent.calls]
<1>1. Incoming("layout updated")
      /\ Becomes(IF of = {} THEN Items(Rest) ELSE ask(Items(Rest), FirstOf(of)))
  BY Zenon DEF MenuLayoutUpdated
<1>2. /\ Taken \in States /\ M \in Messages /\ M.k = "layout updated" /\ Items(Rest) = Taken /\ Taken.sni = sni
  BY <1>1, TakenFields
<1>3. M.a \in Apps
  BY <1>2, MessageKinds
<1>4. of = {i \in LiveSet(Now) : sni[i].uid = M.a /\ sni[i].menu.there}
  BY HostItemsAre
<1>5. CASE of = {}
  <2>1. Becomes(Taken)
    BY <1>1, <1>2, <1>5
  <2>2. Now' = Taken
    BY <1>2, <2>1, BecomesNow
  <2>3. ASSUME NEW i \in LiveSet(Now), sni[i].uid = M.a PROVE sni[i].menu.there = FALSE
    <3>1. i \in DOMAIN sni
      BY NowFields DEF LiveSet
    <3>2. sni[i].menu \in MenuSet
      BY <3>1, SniFields
    <3>3. sni[i].menu.there \in BOOLEAN
      BY <3>2 DEF MenuSet
    <3> QED BY <1>4, <1>5, <2>3, <3>3
  <2> QED BY <1>2, <1>3, <2>2, <2>3
<1>6. CASE of # {}
  <2> DEFINE i == FirstOf(of)
  <2>1. i \in of /\ i \in DOMAIN sni
    <3> HIDE DEF of
    <3>1. of \in SUBSET HostItems
      BY DEF of
    <3> QED BY <1>6, <3>1, OfIn
  <2>2. Becomes(ask(Taken, i))
    BY <1>1, <1>2, <1>6
  <2> DEFINE x == [sni[i] EXCEPT !.menu = Suppressed(@)]
             r == MenuCall("layout", i, "root")
             t == Becoming(Taken, i, x, r)
  <2> HIDE DEF i, of
  <2>3. sni[i].uid = M.a /\ sni[i] \in ItemSet /\ i \in Nat /\ sni[i].menu \in MenuSet
    BY <1>4, <2>1, SniFields
  <2>4. Suppressed(sni[i].menu) \in MenuSet
    BY <2>3 DEF Suppressed, MenuSet
  <2>5. r \in Calls /\ r.i = i
    <3>1. "root" \in Nodes
      BY DEF Nodes
    <3> QED BY <2>3, <3>1, CallKinds
  <2>6. x \in ItemSet /\ SameOwner(x, Taken.sni[i]) /\ x.values = Taken.sni[i].values
    BY <1>2, <2>3, <2>4 DEF ItemSet, SameOwner
  <2>7. ask(Taken, i) = t
    BY <1>2, <2>1, <2>3 DEF Becoming, States, ItemSet
  <2> HIDE DEF x, r
  <2>8. t \in States /\ Asks(Taken, t, i, r) /\ t.sni[i] = x
    <3>1. AskedAs(Taken, t, i, x, r)
      BY <1>2, <2>1, <2>5, <2>6, AsksAre, Zenon
    <3> QED BY <3>1, Zenon DEF AskedAs
  <2> HIDE DEF t, ask
  <2>9. Now' = t
    BY <2>2, <2>7, <2>8, BecomesNow
  <2> QED BY <1>2, <1>3, <1>4, <2>1, <2>3, <2>8, <2>9 DEF r, x
<1> QED BY <1>5, <1>6

LEMMA Applied ==
  ASSUME NEW menu \in MenuSet, NEW node \in Nodes, NEW got \in MenuLayouts
  PROVE  ApplyLayout(menu, node, got) \in MenuSet
<1>1. menu.root \in Seq(Entries) /\ menu.sub \in Seq(Entries)
  BY DEF MenuSet
<1>2. got.root \in Seq(Entries) /\ got.sub \in Seq(Entries) /\ OwnIds(got.root) /\ OwnIds(got.sub) /\ got.rev \in Nat
  BY DEF MenuLayouts
<1>3. Reconcile(menu.root, got.root) \in Seq(Entries) /\ Reconcile(menu.sub, got.sub) \in Seq(Entries)
  BY <1>1, <1>2, ReconcileShows, Zenon
<1> QED BY <1>2, <1>3 DEF ApplyLayout, MenuSet

LEMMA LayoutDoes ==
  ASSUME Types, Points(Now), MenuLayout
  PROVE  /\ M.k = "layout" /\ M.i \in DOMAIN sni /\ M.node \in Nodes /\ M.layout \in MenuLayouts /\ Now' \in States
         /\ \/ Now' = Taken /\ (M.i \notin LiveSet(Now) \/ sni[M.i].menu.there = FALSE)
            \/ /\ M.i \in LiveSet(Now) /\ sni[M.i].menu.there = TRUE
               /\ BecomesItem(Taken, Now', M.i,
                              [sni[M.i] EXCEPT !.menu = ApplyLayout(@, M.node, M.layout)])
<1> DEFINE stays == Live(M.i) /\ sni[M.i].menu.there
           x == [sni[M.i] EXCEPT !.menu = ApplyLayout(@, M.node, M.layout)]
           t == [Taken EXCEPT !.sni = [Taken.sni EXCEPT ![M.i] = x]]
<1>1. Incoming("layout")
      /\ Becomes(IF stays THEN [Items(Rest) EXCEPT !.sni[M.i].menu = ApplyLayout(@, M.node, M.layout)]
                 ELSE Items(Rest))
  BY Zenon DEF MenuLayout
<1>2. /\ Taken \in States /\ M \in Messages /\ M.k = "layout" /\ Items(Rest) = Taken /\ Taken.sni = sni
      /\ M \in ToSet(inbox)
  BY <1>1, TakenFields
<1>3. M.i \in Nat /\ M.node \in Nodes /\ M.layout \in MenuLayouts
  BY <1>2, MessageKinds
<1>4. M.i \in DOMAIN sni
  BY <1>2, NowFields DEF Points
<1>5. sni[M.i].live \in BOOLEAN /\ sni[M.i].menu \in MenuSet /\ sni[M.i] \in ItemSet
  BY <1>4, SniFields
<1>6. sni[M.i].menu.there \in BOOLEAN
  BY <1>5 DEF MenuSet
<1>7. stays <=> M.i \in LiveSet(Now) /\ sni[M.i].menu.there = TRUE
  BY <1>4, <1>5, <1>6, NowFields DEF Live, LiveSet
<1> HIDE DEF stays
<1>8. CASE ~stays
  <2>1. Becomes(Taken)
    BY <1>1, <1>2, <1>8
  <2>2. Now' = Taken
    BY <1>2, <2>1, BecomesNow
  <2> QED BY <1>2, <1>3, <1>4, <1>6, <1>7, <1>8, <2>2
<1>9. CASE stays
  <2>1. [Taken EXCEPT !.sni[M.i].menu = ApplyLayout(@, M.node, M.layout)] = t
    BY <1>2, <1>4, <1>5 DEF States, ItemSet
  <2>2. Becomes(t)
    BY <1>1, <1>2, <1>9, <2>1
  <2>3. ApplyLayout(sni[M.i].menu, M.node, M.layout) \in MenuSet
    BY <1>3, <1>5, Applied
  <2>4. x \in ItemSet /\ SameOwner(x, Taken.sni[M.i])
    BY <1>2, <1>5, <2>3 DEF ItemSet, SameOwner
  <2> HIDE DEF x
  <2>5. BecomesItem(Taken, t, M.i, x)
    BY <1>2, <1>4, <2>4, ItemBecomes
  <2> HIDE DEF t
  <2>6. t \in States
    BY <2>5 DEF BecomesItem, Changed
  <2>7. Now' = t
    BY <2>2, <2>6, BecomesNow
  <2> QED BY <1>2, <1>3, <1>4, <1>7, <1>9, <2>5, <2>6, <2>7 DEF x
<1> QED BY <1>8, <1>9

LEMMA ShowDoes ==
  ASSUME Types, Points(Now), MenuAboutToShow
  PROVE  /\ M.k = "about to show" /\ M.i \in DOMAIN sni /\ M.node \in Nodes /\ Now' \in States
         /\ \/ Now' = Taken
            \/ /\ M.i \in LiveSet(Now) /\ Now'.sni = sni
               /\ Asks(Taken, Now', M.i, MenuCall("layout", M.i, M.node))
<1> DEFINE r == MenuCall("layout", M.i, M.node)
           c == Call(Rest, asked, sni[M.i].uid, r)
           t == [Items(Rest) EXCEPT !.box = c.box, !.calls = c.calls]
           asks == M.refresh /\ Live(M.i)
<1>1. Incoming("about to show") /\ Becomes(IF asks THEN t ELSE Items(Rest))
  BY Zenon DEF MenuAboutToShow
<1>2. /\ Taken \in States /\ M \in Messages /\ M.k = "about to show" /\ Items(Rest) = Taken /\ Taken.sni = sni
      /\ M \in ToSet(inbox) /\ Taken.box = Tail(inbox) /\ Taken.calls = asked
  BY <1>1, TakenFields
<1>3. M.i \in Nat /\ M.node \in Nodes
  BY <1>2, MessageKinds
<1>4. M.i \in DOMAIN sni
  BY <1>2, NowFields DEF Points
<1>5. sni[M.i].live \in BOOLEAN /\ sni[M.i].uid \in Apps
  BY <1>4, SniFields
<1>6. CASE ~asks
  <2>1. Becomes(Taken)
    BY <1>1, <1>2, <1>6
  <2>2. Now' = Taken
    BY <1>2, <2>1, BecomesNow
  <2> QED BY <1>2, <1>3, <1>4, <2>2
<1>7. CASE asks
  <2>1. Becomes(t)
    BY <1>1, <1>7
  <2>2. M.i \in LiveSet(Now)
    BY <1>4, <1>5, <1>7, NowFields DEF Live, LiveSet
  <2>3. r \in Calls /\ r.i = M.i
    BY <1>3, CallKinds
  <2>4. Rest \in Seq(Messages) /\ asked \in [Apps -> Seq(Calls)] /\ Taken.box = Rest /\ Taken.sni[M.i].uid = sni[M.i].uid
    BY <1>2, StateFields DEF Rest
  <2> HIDE DEF r, t
  <2>5. Sent(c, Rest, asked, sni[M.i].uid, r)
    BY <1>5, <2>3, <2>4, CallSends, Zenon
  <2> HIDE DEF c
  <2>6. c.box \in Seq(Messages) /\ c.calls \in [Apps -> Seq(Calls)]
    BY <2>5 DEF Sent
  <2>7. BecomesBox(Taken, t, M.i, c.box, c.calls)
    <3>1. BecomesBox(Taken, [Taken EXCEPT !.box = c.box, !.calls = c.calls], M.i, c.box, c.calls)
      BY <1>2, <1>4, <2>6, BoxBecomes
    <3> QED BY <1>2, <3>1, Zenon DEF t
  <2>8. Sent(t, Rest, asked, sni[M.i].uid, r)
    BY <2>5, <2>7 DEF Sent, BecomesBox
  <2>9. t \in States /\ t.sni = sni
    BY <1>2, <2>7 DEF BecomesBox, Changed
  <2>10. Now' = t
    BY <2>1, <2>9, BecomesNow
  <2>11. Asks(Taken, Now', M.i, r)
    BY <1>2, <2>3, <2>4, <2>7, <2>8, <2>10 DEF Asks, BecomesBox
  <2> QED BY <1>2, <1>3, <1>4, <2>2, <2>9, <2>10, <2>11 DEF r
<1> QED BY <1>6, <1>7

LEMMA OpensDoes ==
  ASSUME Types, NEW i \in DOMAIN sni, NEW node \in Nodes, UserOpens(i, node)
  PROVE  /\ i \in LiveSet(Now) /\ Now' \in States /\ Now'.sni = sni
         /\ Asks(Now, Now', i, MenuCall("about to show", i, node))
<1> DEFINE r == MenuCall("about to show", i, node)
           c == Call(inbox, asked, sni[i].uid, r)
<1>1. Live(i) /\ inbox' = c.box /\ asked' = c.calls /\ sni' = sni /\ tray' = tray /\ invalid' = invalid
  BY DEF UserOpens
<1>2. sni[i].live \in BOOLEAN /\ sni[i].uid \in Apps /\ i \in Nat
  BY SniFields
<1>3. i \in LiveSet(Now)
  BY <1>1, <1>2, NowFields DEF Live, LiveSet
<1>4. r \in Calls /\ r.i = i
  BY <1>2, CallKinds
<1>5. /\ Now \in States /\ Now.sni = sni /\ Now.tray = tray /\ Now.invalid = invalid /\ Now.box = inbox
      /\ Now.calls = asked /\ inbox \in Seq(Messages) /\ asked \in [Apps -> Seq(Calls)]
  BY NowFields
<1> HIDE DEF r
<1>6. Sent(c, inbox, asked, sni[i].uid, r)
  BY <1>2, <1>4, <1>5, CallSends, Zenon
<1> HIDE DEF c
<1>7. c.box \in Seq(Messages) /\ c.calls \in [Apps -> Seq(Calls)]
  BY <1>6 DEF Sent
<1>8. Now' = [sni |-> sni, tray |-> tray, invalid |-> invalid, box |-> c.box, calls |-> c.calls]
  BY <1>1 DEF Now, Items
<1>9. Now'.sni = sni /\ Now'.tray = tray /\ Now'.invalid = invalid /\ Now'.box = c.box /\ Now'.calls = c.calls
  BY <1>8
<1>10. BecomesBox(Now, Now', i, c.box, c.calls)
  <2>1. Now' \in States
    BY <1>7, <1>8, NowFields DEF States
  <2> QED BY <1>5, <1>9, <2>1 DEF BecomesBox, Changed
<1>11. Sent(Now', Now.box, Now.calls, Now.sni[i].uid, r)
  BY <1>5, <1>6, <1>10 DEF Sent, BecomesBox
<1>12. Asks(Now, Now', i, r)
  BY <1>4, <1>5, <1>10, <1>11 DEF Asks, BecomesBox
<1> QED BY <1>3, <1>5, <1>10, <1>12 DEF r, BecomesBox, Changed

LEMMA SuppressionDoes ==
  ASSUME Types, NEW i \in DOMAIN sni, SuppressionEnds(i)
  PROVE  /\ i \in LiveSet(Now) /\ Now' \in States
         /\ BecomesItem(Now, Now', i, [sni[i] EXCEPT !.menu = SuppressionOver(@)])
<1> DEFINE x == [sni[i] EXCEPT !.menu = SuppressionOver(@)]
<1>1. /\ Live(i) /\ inbox' = inbox /\ asked' = asked /\ tray' = tray /\ invalid' = invalid
      /\ sni' = [sni EXCEPT ![i].menu = SuppressionOver(@)]
  BY DEF SuppressionEnds
<1>2. sni[i].live \in BOOLEAN /\ sni[i] \in ItemSet /\ sni[i].menu \in MenuSet
  BY SniFields
<1>3. i \in LiveSet(Now)
  BY <1>1, <1>2, NowFields DEF Live, LiveSet
<1>4. SuppressionOver(sni[i].menu) \in MenuSet
  BY <1>2 DEF SuppressionOver, MenuSet
<1>5. x \in ItemSet /\ SameOwner(x, sni[i])
  BY <1>2, <1>4 DEF ItemSet, SameOwner
<1>6. Now' = [Now EXCEPT !.sni = [Now.sni EXCEPT ![i] = x]]
  BY <1>1, <1>2 DEF Now, Items, ItemSet
<1> HIDE DEF x
<1>7. BecomesItem(Now, [Now EXCEPT !.sni = [Now.sni EXCEPT ![i] = x]], i, x)
  BY <1>5, NowFields, ItemBecomes
<1>8. BecomesItem(Now, Now', i, x)
  BY <1>6, <1>7, Zenon
<1> QED BY <1>3, <1>8 DEF x, BecomesItem, Changed

LEMMA UpdateDoes ==
  ASSUME Types, \A j \in DOMAIN tray : tray[j].i \in DOMAIN sni, TrayUpdate
  PROVE  /\ Now' \in States /\ Now'.sni = sni /\ Now'.box = inbox /\ Now'.calls = asked /\ Now'.invalid = FALSE
         /\ invalid = TRUE
         /\ DOMAIN Now'.tray = DOMAIN tray
         /\ \A j \in DOMAIN tray :
              /\ Now'.tray[j].i = tray[j].i /\ Now'.tray[j].invalid = FALSE
              /\ Now'.tray[j].shown = IF tray[j].invalid = TRUE THEN View(sni[tray[j].i].values) ELSE tray[j].shown
<1> DEFINE y(j) == IF tray[j].invalid
                   THEN [tray[j] EXCEPT !.invalid = FALSE, !.shown = View(sni[tray[j].i].values)] ELSE tray[j]
<1>0. tray \in Seq(Children) /\ sni \in Seq(ItemSet) /\ inbox \in Seq(Messages) /\ asked \in [Apps -> Seq(Calls)]
      /\ invalid \in BOOLEAN
  BY NowFields
<1>1. /\ inbox' = inbox /\ asked' = asked /\ sni' = sni /\ invalid' = FALSE /\ invalid = TRUE
      /\ tray' = [j \in DOMAIN tray |-> y(j)]
  BY <1>0 DEF TrayUpdate
<1>2. ASSUME NEW j \in DOMAIN tray
      PROVE  /\ y(j) \in Children /\ y(j).i = tray[j].i /\ y(j).invalid = FALSE
             /\ y(j).shown = IF tray[j].invalid = TRUE THEN View(sni[tray[j].i].values) ELSE tray[j].shown
  <2>0. tray[j] \in Children
    BY <1>0
  <2>1. tray[j] \in Children /\ tray[j].i \in DOMAIN sni /\ tray[j].invalid \in BOOLEAN
    BY <2>0 DEF Children
  <2>2. sni[tray[j].i].values \in Shows
    BY <2>1, SniFields
  <2>3. View(sni[tray[j].i].values) \in {View(w) : w \in Shows}
    BY <2>2
  <2> QED BY <2>1, <2>3 DEF Children
<1> HIDE DEF y
<1>3. tray' \in Seq(Children) /\ DOMAIN tray' = DOMAIN tray /\ \A j \in DOMAIN tray : tray'[j] = y(j)
  <2>1. DOMAIN tray = 1..Len(tray) /\ Len(tray) \in Nat
    BY <1>0
  <2>2. \A j \in DOMAIN tray : y(j) \in Children
    BY <1>2
  <2>3. [j \in DOMAIN tray |-> y(j)] \in Seq(Children)
    BY <2>1, <2>2
  <2> QED BY <1>1, <2>3
<1>4. Now' = [sni |-> sni, tray |-> tray', invalid |-> FALSE, box |-> inbox, calls |-> asked]
  BY <1>1 DEF Now, Items
<1>5. Now' \in States
  BY <1>0, <1>3, <1>4 DEF States
<1> QED BY <1>1, <1>2, <1>3, <1>4, <1>5

----------------------------------------------------------------------------
(* What is on its way *)

LEMMA ConcatNone == ASSUME NEW X, NEW b \in Seq(X) PROVE b = b \o <<>>
<1>1. <<>> \in Seq(X) /\ Len(<<>>) = 0
  OBVIOUS
<1>2. b \o <<>> \in Seq(X) /\ Len(b \o <<>>) = Len(b)
  BY <1>1, ConcatLength
<1>3. \A n \in 1..Len(b) : b[n] = (b \o <<>>)[n]
  OBVIOUS
<1> QED BY <1>2, <1>3, SameSequence

LEMMA ConcatAssoc ==
  ASSUME NEW X, NEW b \in Seq(X), NEW c \in Seq(X), NEW d \in Seq(X)
  PROVE  (b \o c) \o d = b \o (c \o d)
<1>1. b \o c \in Seq(X) /\ Len(b \o c) = Len(b) + Len(c) /\ c \o d \in Seq(X) /\ Len(c \o d) = Len(c) + Len(d)
  BY ConcatLength
<1> DEFINE x == b \o c  y == c \o d
<1>2. /\ \A n \in 1..Len(b) + Len(c) : x[n] = IF n <= Len(b) THEN b[n] ELSE c[n - Len(b)]
      /\ \A n \in 1..Len(c) + Len(d) : y[n] = IF n <= Len(c) THEN c[n] ELSE d[n - Len(c)]
  OBVIOUS
<1> HIDE DEF x, y
<1>3. x \in Seq(X) /\ y \in Seq(X) /\ Len(x) = Len(b) + Len(c) /\ Len(y) = Len(c) + Len(d)
  BY <1>1 DEF x, y
<1>a. x \o d \in Seq(X) /\ Len(x \o d) = Len(x) + Len(d)
  BY <1>3, ConcatLength, Zenon
<1>b. b \o y \in Seq(X) /\ Len(b \o y) = Len(b) + Len(y)
  BY <1>3, ConcatLength, Zenon
<1>c. Len(b) \in Nat /\ Len(c) \in Nat /\ Len(d) \in Nat
  OBVIOUS
<1>4. x \o d \in Seq(X) /\ b \o y \in Seq(X) /\ Len(x \o d) = Len(b \o y)
  BY <1>3, <1>a, <1>b, <1>c
<1>5. ASSUME NEW n \in 1..Len(x \o d) PROVE (x \o d)[n] = (b \o y)[n]
  <2>1. (x \o d)[n] = IF n <= Len(x) THEN x[n] ELSE d[n - Len(x)]
    BY <1>3, <1>a
  <2>2. (b \o y)[n] = IF n <= Len(b) THEN b[n] ELSE y[n - Len(b)]
    BY <1>3, <1>4, <1>b
  <2>3. n \in Nat /\ n >= 1 /\ n <= Len(b) + Len(c) + Len(d)
    BY <1>3, <1>a, <1>c
  <2>4. CASE n <= Len(b)
    BY <1>2, <1>3, <1>c, <2>1, <2>2, <2>3, <2>4
  <2>5. CASE ~(n <= Len(b)) /\ n <= Len(b) + Len(c)
    <3>1. n - Len(b) \in 1..Len(c) + Len(d) /\ n - Len(b) <= Len(c) /\ n \in 1..Len(b) + Len(c)
      BY <1>c, <2>3, <2>5
    <3>2. x[n] = c[n - Len(b)] /\ y[n - Len(b)] = c[n - Len(b)]
      BY <1>2, <2>5, <3>1
    <3> QED BY <1>3, <2>1, <2>2, <2>5, <3>2
  <2>6. CASE ~(n <= Len(b) + Len(c))
    <3>1. n - Len(b) \in 1..Len(c) + Len(d) /\ ~(n - Len(b) <= Len(c)) /\ ~(n <= Len(b))
      BY <1>c, <2>3, <2>6
    <3>2. y[n - Len(b)] = d[n - Len(b) - Len(c)] /\ n - Len(b) - Len(c) = n - (Len(b) + Len(c))
      BY <1>2, <1>c, <2>3, <3>1
    <3>3. (x \o d)[n] = d[n - (Len(b) + Len(c))]
      BY <1>3, <2>1, <2>6
    <3>4. (b \o y)[n] = y[n - Len(b)]
      BY <2>2, <3>1
    <3> QED BY <3>2, <3>3, <3>4
  <2> QED BY <2>4, <2>5, <2>6
<1>6. x \o d = b \o y
  BY <1>4, <1>5, SameSequence
<1> QED BY <1>6 DEF x, y

LEMMA AppendConcat ==
  ASSUME NEW X, NEW b \in Seq(X), NEW x \in X
  PROVE  Append(b, x) = b \o <<x>> /\ <<x>> \in Seq(X)
OBVIOUS

LEMMA SendsSame == ASSUME NEW b \in Seq(Messages), NEW K PROVE Sends(b, b, K)
<1>1. b = b \o <<>> /\ <<>> \in Seq(Messages) /\ ToSet(<<>>) \cap K = {}
  BY ConcatNone, InNone
<1> QED BY <1>1, Zenon DEF Sends

LEMMA SendsTail ==
  ASSUME NEW b \in Seq(Messages), NEW K, b # <<>>, Head(b) \notin K
  PROVE  Sends(b, Tail(b), K)
<1>1. Tail(b) \in Seq(Messages)
  BY InTail
<1>2. Tail(b) = Tail(b) \o <<>> /\ <<>> \in Seq(Messages) /\ ToSet(<<>>) \cap K = {}
  BY <1>1, ConcatNone, InNone
<1> QED BY <1>1, <1>2, Zenon DEF Sends

LEMMA SendsMore ==
  ASSUME NEW b \in Seq(Messages), NEW c, NEW K, NEW f \in Seq(Messages), Sends(b, c, K), ToSet(f) \cap K = {}
  PROVE  Sends(b, c \o f, K)
<1>1. PICK d \in Seq(Messages), e \in Seq(Messages) :
        /\ c = d \o e /\ ToSet(e) \cap K = {}
        /\ d = b \/ (b # <<>> /\ Head(b) \notin K /\ d = Tail(b))
  BY DEF Sends
<1>2. c \o f = d \o (e \o f)
  BY <1>1, ConcatAssoc
<1>3. e \o f \in Seq(Messages) /\ ToSet(e \o f) = ToSet(e) \cup ToSet(f)
  BY InConcat
<1>4. ToSet(e \o f) \cap K = {}
  BY <1>1, <1>3
<1> QED BY <1>1, <1>2, <1>3, <1>4, Zenon DEF Sends

LEMMA SendsOne ==
  ASSUME NEW b \in Seq(Messages), NEW c \in Seq(Messages), NEW K, NEW x \in Messages, Sends(b, c, K), x \notin K
  PROVE  Sends(b, Append(c, x), K)
<1>1. Append(c, x) = c \o <<x>> /\ <<x>> \in Seq(Messages)
  BY AppendConcat
<1>2. ToSet(<<x>>) \cap K = {}
  BY InOne
<1>3. Sends(b, c \o <<x>>, K)
  BY <1>1, <1>2, SendsMore, Zenon
<1> QED BY <1>1, <1>3

\* With a smaller K
LEMMA SendsFewer ==
  ASSUME NEW b \in Seq(Messages), NEW c, NEW K, NEW L \in SUBSET K, Sends(b, c, K)
  PROVE  Sends(b, c, L)
<1>1. PICK d \in Seq(Messages), e \in Seq(Messages) :
        /\ c = d \o e /\ ToSet(e) \cap K = {}
        /\ d = b \/ (b # <<>> /\ Head(b) \notin K /\ d = Tail(b))
  BY DEF Sends
<1>2. ToSet(e) \cap L = {} /\ (d = b \/ (b # <<>> /\ Head(b) \notin L /\ d = Tail(b)))
  BY <1>1
<1> QED BY <1>1, <1>2, Zenon DEF Sends

\* What becomes of the messages when a call is sent
LEMMA SentSends ==
  ASSUME NEW b \in Seq(Messages), NEW t, NEW box \in Seq(Messages), NEW calls, NEW a, NEW r \in Calls, NEW K,
         Sent(t, box, calls, a, r), Sends(b, box, K),
         r.k = "get" => PropReply(r.i, r.ps, Failed) \notin K \/ a \in alive
  PROVE  Sends(b, t.box, K)
<1>1. CASE a \in alive \/ r.k # "get"
  <2>1. t.box = box
    BY <1>1 DEF Sent
  <2> QED BY <2>1
<1>2. CASE a \notin alive /\ r.k = "get"
  <2> DEFINE x == PropReply(r.i, r.ps, Failed)
  <2>1. t.box = Append(box, x)
    BY <1>2 DEF Sent
  <2>2. x \in Messages
    <3>1. Failed \in Answers
      BY DEF Answers
    <3> QED BY <1>2, <3>1, CallKinds, MessageTypes
  <2>3. x \notin K
    BY <1>2
  <2> HIDE DEF x
  <2> QED BY <2>1, <2>2, <2>3, SendsOne
<1> QED BY <1>1, <1>2

----------------------------------------------------------------------------
(* The actions that leave the items alone *)

ItemKinds == Kinds({"prop", "layout", "about to show", "signal", "layout updated"})

Watches ==
  \/ WatcherVanished \/ NameLost \/ WatcherAppeared \/ Registers \/ GetsList \/ ItemGone
  \/ \E a \in Apps : AppRegisters(a)
  \/ OtherClaims \/ OtherQuits

ItemsStay == sni' = sni /\ tray' = tray /\ invalid' = invalid
ItemsSame == ItemsStay /\ asked' = asked /\ prop' = prop /\ layout' = layout /\ alive' = alive

LEMMA NotItemKinds ==
  /\ \A k \in {"vanished", "appeared", "name lost", "get list"} : Msg(k, Nobody) \in Messages \ ItemKinds
  /\ \A k \in {"register", "registered", "gone", "unregistered"}, a \in Apps : Msg(k, a) \in Messages \ ItemKinds
  /\ \A u \in SUBSET Apps : List(u) \in Messages \ ItemKinds
<1>1. ASSUME NEW x \in Messages, x.k \notin {"prop", "layout", "about to show", "signal", "layout updated"}
      PROVE  x \in Messages \ ItemKinds
  BY <1>1 DEF ItemKinds, Kinds
<1>2. ASSUME NEW k \in {"vanished", "appeared", "name lost", "get list"}
      PROVE  Msg(k, Nobody) \in Messages \ ItemKinds
  <2>1. Msg(k, Nobody) \in Messages /\ Msg(k, Nobody).k = k
    BY MessageTypes
  <2> QED BY <2>1, <1>1
<1>3. ASSUME NEW k \in {"register", "registered", "gone", "unregistered"}, NEW a \in Apps
      PROVE  Msg(k, a) \in Messages \ ItemKinds
  <2>a. k \in {"register", "registered", "gone", "unregistered", "layout updated"}
    OBVIOUS
  <2>1. Msg(k, a) \in Messages /\ Msg(k, a).k = k
    BY <2>a DEF Messages, About, Msg
  <2> QED BY <2>1, <1>1
<1>4. ASSUME NEW u \in SUBSET Apps PROVE List(u) \in Messages \ ItemKinds
  <2>1. List(u) \in Messages /\ List(u).k = "list"
    BY MessageTypes
  <2> QED BY <2>1, <1>1
<1> QED BY <1>2, <1>3, <1>4

\* With K for the kinds a step takes no message of, and sends none of
LEMMA TakenSends ==
  ASSUME Types, NEW k, Incoming(k), NEW K, M \notin K
  PROVE  Rest \in Seq(Messages) /\ Sends(inbox, Rest, K)
<1>1. inbox \in Seq(Messages) /\ inbox # <<>>
  BY NowFields, TakenFields
<1>2. Tail(inbox) \in Seq(Messages)
  BY <1>1, InTail
<1> QED BY <1>1, <1>2, SendsTail DEF Rest, M

LEMMA SignalSends ==
  ASSUME NEW b \in Seq(Messages), NEW c \in Seq(Messages), NEW K, Sends(b, c, K),
         NEW k \in {"registered", "unregistered"}, NEW a \in Apps, subs = 0 \/ Msg(k, a) \notin K
  PROVE  Sends(b, Signal(c, k, a), K) /\ Signal(c, k, a) \in Seq(Messages)
<1>1. Msg(k, a) \in Messages
  BY MessageTypes
<1>2. CASE Signal(c, k, a) = c
  BY <1>2
<1>3. CASE Signal(c, k, a) # c
  <2>1. Signal(c, k, a) = Append(c, Msg(k, a)) /\ subs # 0
    BY <1>3 DEF Signal
  <2>2. Sends(b, Append(c, Msg(k, a)), K)
    BY <1>1, <2>1, SendsOne
  <2>3. Append(c, Msg(k, a)) \in Seq(Messages)
    BY <1>1
  <2> QED BY <2>1, <2>2, <2>3
<1> QED BY <1>2, <1>3

LEMMA HeadIs ==
  ASSUME Types, NEW k, Incoming(k)
  PROVE  /\ M \in Messages /\ M.k = k
         /\ k \in {"vanished", "appeared", "name lost", "get list"} => M = Msg(k, Nobody)
         /\ k \in {"register", "registered", "gone", "unregistered", "layout updated"} =>
              M = Msg(k, M.a) /\ M.a \in Apps
         /\ k = "list" => M = List(M.uids) /\ M.uids \in SUBSET Apps
<1>1. M \in Messages /\ M.k = k
  BY TakenFields
<1> DEFINE m == M
<1> HIDE DEF m
<1>2. m \in Messages /\ m.k = k
  BY <1>1 DEF m
<1>3. k \in {"vanished", "appeared", "name lost", "get list"} => m = Msg(k, Nobody)
  BY <1>2, MessageKinds
<1>4. k \in {"register", "registered", "gone", "unregistered", "layout updated"} => m = Msg(k, m.a) /\ m.a \in Apps
  BY <1>2, MessageKinds
<1>5. k = "list" => m = List(m.uids) /\ m.uids \in SUBSET Apps
  BY <1>2, MessageKinds
<1> QED BY <1>2, <1>3, <1>4, <1>5 DEF m

LEMMA VanishedSends ==
  ASSUME Types, WatcherVanished, NEW K,
         Msg("vanished", Nobody) \notin K, Msg("appeared", Nobody) \notin K, Msg("name lost", Nobody) \notin K
  PROVE  Sends(inbox, inbox', K)
<1>0. inbox \in Seq(Messages) /\ Incoming("vanished")
  BY NowFields DEF WatcherVanished
<1>1. M \in Messages /\ M.k = "vanished" /\ M = Msg("vanished", Nobody)
  BY <1>0, HeadIs
<1>2. Rest \in Seq(Messages) /\ Sends(inbox, Rest, K)
  BY <1>0, <1>1, TakenSends
<1>3. inbox' = Append(Rest, Msg("appeared", Nobody)) \/ inbox' = Append(Rest, Msg("name lost", Nobody))
  BY DEF WatcherVanished
<1>4. Msg("appeared", Nobody) \in Messages /\ Msg("name lost", Nobody) \in Messages
  BY MessageTypes
<1>5. Sends(inbox, Append(Rest, Msg("appeared", Nobody)), K) /\ Sends(inbox, Append(Rest, Msg("name lost", Nobody)), K)
  BY <1>0, <1>2, <1>4, SendsOne
<1> QED BY <1>3, <1>5

LEMMA LostSends ==
  ASSUME Types, NameLost, NEW K, Msg("name lost", Nobody) \notin K
  PROVE  Sends(inbox, inbox', K)
<1>0. inbox \in Seq(Messages) /\ Incoming("name lost") /\ inbox' = Rest
  BY NowFields DEF NameLost
<1>1. M \in Messages /\ M.k = "name lost" /\ M = Msg("name lost", Nobody)
  BY <1>0, HeadIs
<1> QED BY <1>0, <1>1, TakenSends

LEMMA AppearedSends ==
  ASSUME Types, WatcherAppeared, NEW K,
         Msg("appeared", Nobody) \notin K, Msg("get list", Nobody) \notin K, List(theirs) \notin K
  PROVE  Sends(inbox, inbox', K)
<1>0. inbox \in Seq(Messages) /\ Incoming("appeared") /\ theirs \in SUBSET Apps
  BY NowFields DEF WatcherAppeared, Types, BusTypes
<1>1. M \in Messages /\ M.k = "appeared" /\ M = Msg("appeared", Nobody)
  BY <1>0, HeadIs
<1>2. Rest \in Seq(Messages) /\ Sends(inbox, Rest, K)
  BY <1>0, <1>1, TakenSends
<1>3. inbox' = Append(Rest, List(theirs)) \/ inbox' = Append(Rest, Msg("get list", Nobody)) \/ inbox' = Rest
  BY DEF WatcherAppeared, Other, Bar
<1>4. Msg("get list", Nobody) \in Messages /\ List(theirs) \in Messages
  BY <1>0, MessageTypes
<1>5. Sends(inbox, Append(Rest, List(theirs)), K) /\ Sends(inbox, Append(Rest, Msg("get list", Nobody)), K)
  BY <1>0, <1>2, <1>4, SendsOne
<1> QED BY <1>2, <1>3, <1>5

LEMMA RegistersSends ==
  ASSUME Types, Registers, NEW K,
         Msg("register", M.a) \notin K, Msg("registered", M.a) \notin K, Msg("gone", M.a) \notin K
  PROVE  M.a \in Apps /\ Sends(inbox, inbox', K)
<1>0. inbox \in Seq(Messages) /\ Incoming("register")
  BY NowFields DEF Registers
<1>1. M \in Messages /\ M.k = "register" /\ M = Msg("register", M.a) /\ M.a \in Apps
  BY <1>0, HeadIs
<1>2. Rest \in Seq(Messages) /\ Sends(inbox, Rest, K)
  BY <1>0, <1>1, TakenSends
<1> DEFINE told == Signal(Rest, "registered", M.a)
<1>3. inbox' = told \/ inbox' = Append(told, Msg("gone", M.a)) \/ inbox' = Rest
  BY DEF Registers
<1>4. Sends(inbox, told, K) /\ told \in Seq(Messages)
  BY <1>0, <1>1, <1>2, SignalSends
<1> HIDE DEF told
<1>5. Msg("gone", M.a) \in Messages
  BY <1>1, MessageTypes
<1>6. Sends(inbox, Append(told, Msg("gone", M.a)), K)
  BY <1>0, <1>4, <1>5, SendsOne
<1> QED BY <1>1, <1>2, <1>3, <1>4, <1>6

LEMMA GetsListSends ==
  ASSUME Types, GetsList, NEW K, Msg("get list", Nobody) \notin K, List(watched) \notin K
  PROVE  Sends(inbox, inbox', K)
<1>0. inbox \in Seq(Messages) /\ Incoming("get list") /\ watched \in SUBSET Apps
  BY NowFields DEF GetsList, Types, BusTypes
<1>1. M \in Messages /\ M.k = "get list" /\ M = Msg("get list", Nobody)
  BY <1>0, HeadIs
<1>2. Rest \in Seq(Messages) /\ Sends(inbox, Rest, K)
  BY <1>0, <1>1, TakenSends
<1>3. inbox' = Append(Rest, List(watched)) \/ inbox' = Rest
  BY DEF GetsList
<1>4. List(watched) \in Messages
  BY <1>0, MessageTypes
<1>5. Sends(inbox, Append(Rest, List(watched)), K)
  BY <1>0, <1>2, <1>4, SendsOne
<1> QED BY <1>2, <1>3, <1>5

LEMMA GoneSends ==
  ASSUME Types, ItemGone, NEW K, Msg("gone", M.a) \notin K, Msg("unregistered", M.a) \notin K
  PROVE  M.a \in Apps /\ Sends(inbox, inbox', K)
<1>0. inbox \in Seq(Messages) /\ Incoming("gone")
  BY NowFields DEF ItemGone
<1>1. M \in Messages /\ M.k = "gone" /\ M = Msg("gone", M.a) /\ M.a \in Apps
  BY <1>0, HeadIs
<1>2. Rest \in Seq(Messages) /\ Sends(inbox, Rest, K)
  BY <1>0, <1>1, TakenSends
<1>3. inbox' = Signal(Rest, "unregistered", M.a) \/ inbox' = Rest
  BY DEF ItemGone
<1>4. Sends(inbox, Signal(Rest, "unregistered", M.a), K)
  BY <1>0, <1>1, <1>2, SignalSends
<1> QED BY <1>1, <1>2, <1>3, <1>4

LEMMA AppRegistersSends ==
  ASSUME Types, NEW a \in Apps, AppRegisters(a), NEW K, Msg("registered", a) \notin K, Msg("register", a) \notin K
  PROVE  Sends(inbox, inbox', K)
<1>0. inbox \in Seq(Messages) /\ Sends(inbox, inbox, K)
  BY NowFields, SendsSame
<1>1. inbox' = Signal(inbox, "registered", a) \/ inbox' = Append(inbox, Msg("register", a))
  BY DEF AppRegisters
<1>2. Sends(inbox, Signal(inbox, "registered", a), K)
  BY <1>0, SignalSends
<1>3. Msg("register", a) \in Messages
  BY MessageTypes
<1>4. Sends(inbox, Append(inbox, Msg("register", a)), K)
  BY <1>0, <1>3, SendsOne
<1> QED BY <1>1, <1>2, <1>4

LEMMA OtherClaimsSends ==
  ASSUME Types, OtherClaims, NEW K, Msg("appeared", Nobody) \notin K
  PROVE  Sends(inbox, inbox', K)
<1>0. inbox \in Seq(Messages) /\ Sends(inbox, inbox, K)
  BY NowFields, SendsSame
<1>1. inbox' = Append(inbox, Msg("appeared", Nobody))
  BY DEF OtherClaims
<1>2. Msg("appeared", Nobody) \in Messages
  BY MessageTypes
<1> QED BY <1>0, <1>1, <1>2, SendsOne

LEMMA OtherQuitsSends ==
  ASSUME Types, OtherQuits, NEW K, Msg("vanished", Nobody) \notin K, Msg("appeared", Nobody) \notin K
  PROVE  Sends(inbox, inbox', K)
<1> DEFINE x == Msg("vanished", Nobody)  y == Msg("appeared", Nobody)
<1>0. inbox \in Seq(Messages) /\ Sends(inbox, inbox, K)
  BY NowFields, SendsSame
<1>1. inbox' = inbox \o <<x, y>> \/ inbox' = Append(inbox, x)
  BY DEF OtherQuits
<1>2. x \in Messages /\ y \in Messages
  BY MessageTypes
<1> HIDE DEF x, y
<1>3. Sends(inbox, Append(inbox, x), K)
  BY <1>0, <1>2, SendsOne DEF x
<1>4. <<x, y>> \in Seq(Messages) /\ ToSet(<<x, y>>) = {x, y}
  BY <1>2 DEF ToSet
<1>5. Sends(inbox, inbox \o <<x, y>>, K)
  <2>1. ToSet(<<x, y>>) \cap K = {}
    BY <1>4 DEF x, y
  <2> QED BY <1>0, <1>4, <2>1, SendsMore, Zenon
<1> QED BY <1>1, <1>3, <1>5

\* Items are left alone, and what is about them on its way.
LEMMA WatchesFrame ==
  ASSUME Types, Watches
  PROVE  ItemsSame /\ Sends(inbox, inbox', ItemKinds)
<1> USE NotItemKinds
<1>0. theirs \in SUBSET Apps /\ watched \in SUBSET Apps
  BY DEF Types, BusTypes
<1>1. CASE WatcherVanished
  <2>1. Sends(inbox, inbox', ItemKinds)
    BY <1>1, VanishedSends
  <2> QED BY <1>1, <2>1 DEF WatcherVanished, ItemsUntouched, ItemsSame, ItemsStay
<1>2. CASE NameLost
  <2>1. Sends(inbox, inbox', ItemKinds)
    BY <1>2, LostSends
  <2> QED BY <1>2, <2>1 DEF NameLost, ItemsUntouched, Untouched, busVars, ItemsSame, ItemsStay
<1>3. CASE WatcherAppeared
  <2>1. Sends(inbox, inbox', ItemKinds)
    BY <1>0, <1>3, AppearedSends
  <2> QED BY <1>3, <2>1 DEF WatcherAppeared, ItemsUntouched, Untouched, busVars, ItemsSame, ItemsStay
<1>4. CASE Registers
  <2>0. M.a \in Apps
    <3>1. Incoming("register")
      BY <1>4 DEF Registers
    <3> QED BY <3>1, HeadIs
  <2>1. Sends(inbox, inbox', ItemKinds)
    BY <1>4, <2>0, RegistersSends
  <2> QED BY <1>4, <2>1 DEF Registers, ItemsUntouched, Untouched, busVars, ItemsSame, ItemsStay
<1>5. CASE GetsList
  <2>1. Sends(inbox, inbox', ItemKinds)
    BY <1>0, <1>5, GetsListSends
  <2> QED BY <1>5, <2>1 DEF GetsList, ItemsUntouched, Untouched, busVars, ItemsSame, ItemsStay
<1>6. CASE ItemGone
  <2>0. M.a \in Apps
    <3>1. Incoming("gone")
      BY <1>6 DEF ItemGone
    <3> QED BY <3>1, HeadIs
  <2>1. Sends(inbox, inbox', ItemKinds)
    BY <1>6, <2>0, GoneSends
  <2> QED BY <1>6, <2>1 DEF ItemGone, ItemsUntouched, Untouched, busVars, ItemsSame, ItemsStay
<1>7. ASSUME NEW a \in Apps, AppRegisters(a) PROVE ItemsSame /\ Sends(inbox, inbox', ItemKinds)
  <2>1. Sends(inbox, inbox', ItemKinds)
    BY <1>7, AppRegistersSends
  <2> QED BY <1>7, <2>1 DEF AppRegisters, barVars, ItemsSame, ItemsStay
<1>8. CASE OtherClaims
  <2>1. Sends(inbox, inbox', ItemKinds)
    BY <1>8, OtherClaimsSends
  <2> QED BY <1>8, <2>1 DEF OtherClaims, barVars, ItemsSame, ItemsStay
<1>9. CASE OtherQuits
  <2>1. Sends(inbox, inbox', ItemKinds)
    BY <1>9, OtherQuitsSends
  <2> QED BY <1>9, <2>1 DEF OtherQuits, barVars, ItemsSame, ItemsStay
<1> QED BY <1>1, <1>2, <1>3, <1>4, <1>5, <1>6, <1>7, <1>8, <1>9 DEF Watches

----------------------------------------------------------------------------
(* What the applications do *)

LEMMA PropReplyIn ==
  ASSUME NEW i \in Nat, NEW ps \in SUBSET Props, NEW v \in Answers
  PROVE  PropReply(i, ps, v) \in Messages
BY DEF Messages, PropReplies, PropReply

LEMMA PropReplyIs ==
  ASSUME NEW i, NEW ps, NEW v, NEW x, x = PropReply(i, ps, v)
  PROVE  x.k = "prop" /\ x.i = i /\ x.ps = ps /\ x.values = v
BY DEF PropReply

LEMMA LayoutReplyIn ==
  ASSUME NEW i \in Nat, NEW n \in Nodes, NEW l \in MenuLayouts
  PROVE  LayoutReply(i, n, l) \in Messages
BY DEF Messages, LayoutReplies, LayoutReply

LEMMA LayoutReplyIs ==
  ASSUME NEW i, NEW n, NEW l, NEW x, x = LayoutReply(i, n, l)
  PROVE  x.k = "layout" /\ x.i = i /\ x.node = n /\ x.layout = l
BY DEF LayoutReply

LEMMA AboutReplyIn ==
  ASSUME NEW i \in Nat, NEW n \in Nodes, NEW r \in BOOLEAN
  PROVE  AboutReply(i, n, r) \in Messages
BY DEF Messages, ShowReplies, AboutReply

LEMMA AboutReplyIs ==
  ASSUME NEW i, NEW n, NEW r, NEW x, x = AboutReply(i, n, r)
  PROVE  x.k = "about to show" /\ x.i = i /\ x.node = n
BY DEF AboutReply

\* The messages of a that quits: the watcher's, the failures of its calls, the
\* other bar's signal
QuitsAs(a, told, failed, after) ==
  /\ inbox' = ((inbox \o told) \o failed) \o after
  /\ told = (IF a \in watched THEN <<Msg("gone", a)>> ELSE <<>>)
  /\ ToSet(told) = (IF a \in watched THEN {Msg("gone", a)} ELSE {})
  /\ ToSet(after) \subseteq {Msg("unregistered", a)} /\ (a \notin theirs \/ subs = 0 => after = <<>>)
  /\ a \in theirs /\ subs > 0 => after = <<Msg("unregistered", a)>>
  /\ \A x \in ToSet(failed) : /\ x.k = "prop" /\ x.values = Failed
                              /\ \E r \in ToSet(asked[a]) : r.k = "get" /\ x.i = r.i
  /\ \A i : Counted(failed, "prop", i) = Counted(asked[a], "get", i)

LEMMA QuitsDoes ==
  ASSUME Types, NEW a \in Apps, AppQuits(a)
  PROVE  /\ \E told, failed, after \in Seq(Messages) : QuitsAs(a, told, failed, after)
         /\ asked' = [asked EXCEPT ![a] = <<>>] /\ ItemsStay /\ prop' = prop /\ layout' = layout
         /\ a \in alive /\ alive' = alive \ {a}
         /\ inbox' \in Seq(Messages)
<1> DEFINE gets == Those(asked[a], {r \in ToSet(asked[a]) : r.k = "get"})
           f == [j \in DOMAIN gets |-> PropReply(gets[j].i, gets[j].ps, Failed)]
           t == IF a \in watched THEN <<Msg("gone", a)>> ELSE <<>>
           told == IF a \in watched THEN Append(inbox, Msg("gone", a)) ELSE inbox
           failed == told \o f
           u == IF a \in theirs /\ subs > 0 THEN <<Msg("unregistered", a)>> ELSE <<>>
<1>0. inbox \in Seq(Messages) /\ asked \in [Apps -> Seq(Calls)] /\ subs \in Nat
  BY NowFields DEF Types, BusTypes
<1>1. /\ inbox' = IF a \in theirs THEN Signal(failed, "unregistered", a) ELSE failed
      /\ asked' = [asked EXCEPT ![a] = <<>>] /\ ItemsStay /\ prop' = prop /\ layout' = layout
      /\ a \in alive /\ alive' = alive \ {a}
  BY DEF AppQuits, barVars, ItemsStay, Up
<1>2. asked[a] \in Seq(Calls)
  BY <1>0
<1>3. gets \in Seq(Calls) /\ ToSet(gets) = {r \in ToSet(asked[a]) : r.k = "get"}
  <2>1. gets \in Seq(Calls) /\ ToSet(gets) = ToSet(asked[a]) \cap {r \in ToSet(asked[a]) : r.k = "get"}
    BY <1>2, ThoseIn, Zenon
  <2> QED BY <2>1, Zenon
<1>4. \A i : Counted(gets, "get", i) = Counted(asked[a], "get", i)
  <2> TAKE i
  <2> DEFINE S == {r \in ToSet(asked[a]) : r.k = "get"}
  <2>1. \A x \in ToSet(asked[a]) : x.k = "get" /\ x.i = i => x \in S
    OBVIOUS
  <2>2. Sized(Calls, "get")
    BY MessagesSized
  <2> HIDE DEF S
  <2>3. Counted(Those(asked[a], S), "get", i) = Counted(asked[a], "get", i)
    BY <1>2, <2>1, <2>2, CountedThose, Zenon
  <2> QED BY <2>3 DEF S
<1> HIDE DEF gets
<1>5. \A j \in DOMAIN gets : gets[j] \in ToSet(asked[a]) /\ gets[j].k = "get" /\ gets[j] \in Calls
  BY <1>3 DEF ToSet
<1>6. \A j \in DOMAIN gets : gets[j].i \in Nat /\ gets[j].ps \in SUBSET Props
  BY <1>5, CallKinds
<1>7. \A j \in DOMAIN gets : /\ f[j] \in Messages /\ f[j].k = "prop" /\ f[j].i = gets[j].i /\ f[j].ps = gets[j].ps
                             /\ f[j].values = Failed
  <2>1. Failed \in Answers
    BY DEF Answers
  <2> TAKE j \in DOMAIN gets
  <2> DEFINE x == PropReply(gets[j].i, gets[j].ps, Failed)
  <2>2. gets[j].i \in Nat /\ gets[j].ps \in SUBSET Props
    BY <1>6
  <2>3. x \in Messages /\ x.k = "prop" /\ x.i = gets[j].i /\ x.ps = gets[j].ps /\ x.values = Failed
    <3> HIDE DEF f, t, u, told, failed
    <3> QED BY <2>1, <2>2, PropReplyIn, PropReplyIs
  <2>4. f[j] = x
    OBVIOUS
  <2> HIDE DEF f, x
  <2> QED BY <2>3, <2>4
<1>8. f \in Seq(Messages) /\ DOMAIN f = DOMAIN gets
  <2>1. DOMAIN gets = 1..Len(gets) /\ Len(gets) \in Nat
    BY <1>3
  <2>2. \A j \in 1..Len(gets) : f[j] \in Messages
    BY <1>7, <2>1
  <2> QED BY <2>1, <2>2
<1> HIDE DEF f
<1>9. \A x \in ToSet(f) : /\ x.k = "prop" /\ x.values = Failed
                          /\ \E r \in ToSet(asked[a]) : r.k = "get" /\ x.i = r.i
  BY <1>5, <1>7, <1>8 DEF ToSet
<1>10. \A i : Counted(f, "prop", i) = Counted(asked[a], "get", i)
  <2> TAKE i
  <2>1. \A j \in DOMAIN f : Weight(f[j], "prop", i) = Weight(gets[j], "get", i)
    BY <1>5, <1>7, <1>8 DEF Weight
  <2>2. Counted(f, "prop", i) = Counted(gets, "get", i)
    BY <1>8, <2>1, CountedAlike
  <2> QED BY <1>4, <2>2
<1>11. Msg("gone", a) \in Messages /\ Msg("unregistered", a) \in Messages
  BY MessageTypes
<1>12. t \in Seq(Messages) /\ u \in Seq(Messages) /\ ToSet(t) = (IF a \in watched THEN {Msg("gone", a)} ELSE {})
       /\ ToSet(u) \subseteq {Msg("unregistered", a)}
       /\ (a \notin theirs \/ subs = 0 => u = <<>>)
  <2>1. <<Msg("gone", a)>> \in Seq(Messages) /\ <<Msg("unregistered", a)>> \in Seq(Messages) /\ <<>> \in Seq(Messages)
    BY <1>11
  <2>2. ToSet(<<Msg("gone", a)>>) = {Msg("gone", a)} /\ ToSet(<<Msg("unregistered", a)>>) = {Msg("unregistered", a)}
        /\ ToSet(<<>>) = {}
    BY InOne, InNone, Zenon
  <2> DEFINE x == <<Msg("gone", a)>>  y == <<Msg("unregistered", a)>>
  <2>3. t = (IF a \in watched THEN x ELSE <<>>) /\ u = (IF a \in theirs /\ subs > 0 THEN y ELSE <<>>)
    OBVIOUS
  <2> HIDE DEF t, u, told, failed, x, y
  <2>4. t \in Seq(Messages) /\ u \in Seq(Messages)
    BY <2>1, <2>3 DEF x, y
  <2>5. ToSet(t) = (IF a \in watched THEN {Msg("gone", a)} ELSE {})
    BY <2>2, <2>3 DEF x
  <2>6. ToSet(u) \subseteq {Msg("unregistered", a)}
    BY <2>2, <2>3 DEF y
  <2> QED BY <1>0, <2>3, <2>4, <2>5, <2>6
<1>t. /\ t = (IF a \in watched THEN <<Msg("gone", a)>> ELSE <<>>)
      /\ a \in theirs /\ subs > 0 => u = <<Msg("unregistered", a)>>
  OBVIOUS
<1>13. told = inbox \o t
  <2>1. Append(inbox, Msg("gone", a)) = inbox \o <<Msg("gone", a)>> /\ inbox = inbox \o <<>>
    BY <1>0, <1>11, AppendConcat, ConcatNone
  <2> QED BY <2>1
<1>14. told \in Seq(Messages)
  BY <1>0, <1>12, <1>13, ConcatLength
<1> HIDE DEF t, told
<1>15. failed \in Seq(Messages)
  BY <1>8, <1>14, ConcatLength
<1> HIDE DEF failed
<1>16. inbox' = failed \o u
  <2>1. Append(failed, Msg("unregistered", a)) = failed \o <<Msg("unregistered", a)>> /\ failed = failed \o <<>>
    BY <1>11, <1>15, AppendConcat, ConcatNone
  <2> QED BY <1>0, <1>1, <2>1 DEF Signal
<1> HIDE DEF u
<1>17. inbox' = ((inbox \o t) \o f) \o u
  BY <1>13, <1>16 DEF failed
<1>18. inbox' \in Seq(Messages)
  BY <1>12, <1>15, <1>16, ConcatLength
<1>19. QuitsAs(a, t, f, u)
  BY <1>9, <1>10, <1>12, <1>t, <1>17 DEF QuitsAs
<1> QED BY <1>1, <1>8, <1>12, <1>18, <1>19

AnswersAs(a, refresh, f) ==
  /\ inbox' = inbox \o f /\ DOMAIN f = DOMAIN asked[a]
  /\ \A j \in DOMAIN f : LET r == asked[a][j] IN
       /\ r.k = "get" => f[j] = PropReply(r.i, r.ps, prop[a])
       /\ r.k = "layout" => f[j] = LayoutReply(r.i, r.node, layout[a])
       /\ r.k = "about to show" => f[j] = AboutReply(r.i, r.node, refresh)

LEMMA AnswersDoes ==
  ASSUME Types, NEW a \in Apps, NEW refresh \in BOOLEAN, AppAnswers(a, refresh)
  PROVE  /\ \E f \in Seq(Messages) : AnswersAs(a, refresh, f)
         /\ asked[a] # <<>> /\ asked' = [asked EXCEPT ![a] = <<>>] /\ ItemsStay
         /\ prop' = prop /\ layout' = layout /\ alive' = alive
         /\ inbox' \in Seq(Messages)
<1> DEFINE f == [j \in DOMAIN asked[a] |-> Reply(a, asked[a][j], refresh)]
<1>0. inbox \in Seq(Messages) /\ asked \in [Apps -> Seq(Calls)] /\ prop[a] \in Answers /\ layout[a] \in MenuLayouts
  BY NowFields DEF Types, BusTypes, Answers
<1>1. /\ inbox' = inbox \o f /\ asked[a] # <<>> /\ asked' = [asked EXCEPT ![a] = <<>>] /\ ItemsStay
      /\ prop' = prop /\ layout' = layout /\ alive' = alive
  BY DEF AppAnswers, barVars, busVars, ItemsStay
<1>2. asked[a] \in Seq(Calls)
  BY <1>0
<1>3. ASSUME NEW j \in DOMAIN asked[a]
      PROVE  LET r == asked[a][j] IN
             /\ f[j] \in Messages
             /\ r.k = "get" => f[j] = PropReply(r.i, r.ps, prop[a])
             /\ r.k = "layout" => f[j] = LayoutReply(r.i, r.node, layout[a])
             /\ r.k = "about to show" => f[j] = AboutReply(r.i, r.node, refresh)
  <2> DEFINE r == asked[a][j]
  <2>1. r \in Calls
    BY <1>2
  <2>2. f[j] = Reply(a, r, refresh)
    OBVIOUS
  <2> HIDE DEF r, f
  <2>3. CASE r.k = "get"
    <3>1. f[j] = PropReply(r.i, r.ps, prop[a])
      BY <2>2, <2>3 DEF Reply
    <3>2. r.i \in Nat /\ r.ps \in SUBSET Props
      BY <2>1, <2>3, CallKinds
    <3>3. f[j] \in Messages
      BY <1>0, <3>1, <3>2, PropReplyIn, Zenon
    <3> QED BY <2>3, <3>1, <3>3 DEF r
  <2>4. CASE r.k = "layout"
    <3>1. f[j] = LayoutReply(r.i, r.node, layout[a])
      BY <2>2, <2>4 DEF Reply
    <3>2. r.i \in Nat /\ r.node \in Nodes
      BY <2>1, <2>4, CallKinds
    <3>3. f[j] \in Messages
      BY <1>0, <3>1, <3>2, LayoutReplyIn, Zenon
    <3> QED BY <2>4, <3>1, <3>3 DEF r
  <2>5. CASE r.k = "about to show"
    <3>1. f[j] = AboutReply(r.i, r.node, refresh)
      BY <2>2, <2>5 DEF Reply
    <3>2. r.i \in Nat /\ r.node \in Nodes
      BY <2>1, <2>5, CallKinds
    <3>3. f[j] \in Messages
      BY <3>1, <3>2, AboutReplyIn, Zenon
    <3> QED BY <2>5, <3>1, <3>3 DEF r
  <2>6. r.k \in {"get", "layout", "about to show"}
    BY <2>1, CallKinds
  <2> QED BY <2>3, <2>4, <2>5, <2>6
<1>4. DOMAIN f = DOMAIN asked[a]
  OBVIOUS
<1> HIDE DEF f
<1>5. f \in Seq(Messages)
  <2>1. DOMAIN asked[a] = 1..Len(asked[a]) /\ Len(asked[a]) \in Nat
    BY <1>2
  <2>2. f = [j \in 1..Len(asked[a]) |-> f[j]]
    BY <2>1 DEF f
  <2>3. \A j \in 1..Len(asked[a]) : f[j] \in Messages
    BY <1>3, <2>1
  <2> QED BY <2>1, <2>2, <2>3
<1>6. AnswersAs(a, refresh, f)
  BY <1>1, <1>3, <1>4 DEF AnswersAs
<1>7. inbox' \in Seq(Messages)
  BY <1>0, <1>1, <1>5, ConcatLength
<1> QED BY <1>1, <1>5, <1>6, <1>7

LEMMA ChangesDoes ==
  ASSUME Types, NEW a \in Apps, NEW p \in Changing, AppChanges(a, p)
  PROVE  /\ a \in alive /\ SignalOf[p] \in Signals /\ p \in PropsOf(SignalOf[p]) /\ p \in Props
         /\ inbox' = Append(inbox, Told(a, SignalOf[p])) /\ Told(a, SignalOf[p]) \in Messages
         /\ prop' = [prop EXCEPT ![a][p] = Flip(p, @)] /\ prop' \in [Apps -> [Props -> Values]]
         /\ ItemsStay /\ asked' = asked /\ layout' = layout /\ alive' = alive
<1>1. p \in Named /\ p \in Props /\ \A v \in Values : Flip(p, v) \in Values
  BY PropsAssumption
<1>2. SignalOf[p] \in Signals /\ p \in PropsOf(SignalOf[p])
  BY <1>1 DEF SignalOf, Signals, PropsOf, Named
<1>3. /\ a \in alive /\ inbox' = Append(inbox, Told(a, SignalOf[p])) /\ prop' = [prop EXCEPT ![a][p] = Flip(p, @)]
      /\ ItemsStay /\ asked' = asked /\ layout' = layout /\ alive' = alive
  BY DEF AppChanges, barVars, ItemsStay, Up, Told
<1>4. prop' \in [Apps -> [Props -> Values]]
  <2>1. prop \in [Apps -> [Props -> Values]]
    BY DEF Types, BusTypes
  <2> QED BY <1>1, <1>3, <2>1
<1> QED BY <1>1, <1>2, <1>3, <1>4, MessageTypes

LEMMA MenuChangesDoes ==
  ASSUME Types, NEW a \in Apps, NEW l \in ToSet(Layouts), AppChangesMenu(a, l)
  PROVE  /\ a \in alive /\ layout'[a].rev = layout[a].rev + 1 /\ \A b \in Apps : b # a => layout'[b] = layout[b]
         /\ layout' \in [Apps -> MenuLayouts]
         /\ \/ inbox' = Append(inbox, Msg("layout updated", a))
            \/ inbox' = inbox /\ \A i \in LiveSet(Now) : sni[i].uid = a => sni[i].menu.there = FALSE
         /\ ItemsStay /\ asked' = asked /\ prop' = prop /\ alive' = alive
<1>1. /\ a \in alive /\ ItemsStay /\ asked' = asked /\ prop' = prop /\ alive' = alive
      /\ layout' = [layout EXCEPT ![a] = [rev |-> @.rev + 1, root |-> l.root, sub |-> l.sub]]
      /\ inbox' = IF \E i \in HostItems : sni[i].uid = a /\ sni[i].menu.there
                  THEN Append(inbox, Msg("layout updated", a)) ELSE inbox
  BY DEF AppChangesMenu, barVars, ItemsStay, Up
<1>2. layout \in [Apps -> MenuLayouts]
  BY DEF Types, BusTypes
<1>3. l \in [root : Seq(Entries), sub : Seq(Entries)] /\ OwnIds(l.root) /\ OwnIds(l.sub)
  <2>1. PICK n \in DOMAIN Layouts : l = Layouts[n]
    BY DEF ToSet
  <2>2. Layouts \in Seq([root : Seq(Entries), sub : Seq(Entries)])
    BY LayoutsAssumption
  <2>3. OwnIds(Layouts[n].root) /\ OwnIds(Layouts[n].sub)
    BY LayoutsAssumption
  <2>4. l \in [root : Seq(Entries), sub : Seq(Entries)]
    <3> DEFINE S == [root : Seq(Entries), sub : Seq(Entries)]
    <3> HIDE DEF S
    <3>1. Layouts \in Seq(S)
      BY <2>2 DEF S
    <3>2. l \in S
      BY <2>1, <3>1
    <3> QED BY <3>2 DEF S
  <2> QED BY <2>1, <2>3, <2>4
<1>4. layout[a].rev \in Nat \ {0}
  BY <1>2 DEF MenuLayouts
<1> DEFINE x == [rev |-> layout[a].rev + 1, root |-> l.root, sub |-> l.sub]
<1>5. x \in MenuLayouts /\ x.rev = layout[a].rev + 1
  BY <1>3, <1>4 DEF MenuLayouts
<1>6. layout' = [layout EXCEPT ![a] = x]
  BY <1>1
<1> HIDE DEF x
<1>7. layout' \in [Apps -> MenuLayouts] /\ layout'[a] = x /\ \A b \in Apps : b # a => layout'[b] = layout[b]
  BY <1>2, <1>5, <1>6
<1>8. (\E i \in HostItems : sni[i].uid = a /\ sni[i].menu.there)
      \/ \A i \in LiveSet(Now) : sni[i].uid = a => sni[i].menu.there = FALSE
  <2>1. \A i \in LiveSet(Now) : sni[i].menu.there \in BOOLEAN
    <3> TAKE i \in LiveSet(Now)
    <3>1. i \in DOMAIN sni
      BY NowFields DEF LiveSet
    <3>2. sni[i].menu \in MenuSet
      BY <3>1, SniFields
    <3> QED BY <3>2 DEF MenuSet
  <2> QED BY <2>1, HostItemsAre
<1> QED BY <1>1, <1>5, <1>7, <1>8

----------------------------------------------------------------------------
(* The list of the watcher's items *)

LEMMA SetToSeqIs ==
  ASSUME NEW S, IsFiniteSet(S)
  PROVE  SetToSeq(S) \in Seq(S) /\ ToSet(SetToSeq(S)) = S
<1> DEFINE n == Cardinality(S)  e == SetToSeq(S)
<1>1. n \in Nat /\ ExistsBijection(1..n, S)
  BY FS_CardinalityType
<1>2. PICK b : b \in Bijection(1..n, S)
  BY <1>1 DEF ExistsBijection
<1>3. b \in [1..n -> S] /\ IsInjective(b)
  BY <1>2 DEF Bijection, Injection, IsInjective
<1>4. e \in [1..n -> S] /\ IsInjective(e)
  BY <1>3, Zenon DEF SetToSeq
<1>5. e \in Injection(1..n, S)
  BY <1>4 DEF Injection, IsInjective
<1>6. IsFiniteSet(1..n) /\ Cardinality(1..n) = n
  BY <1>1, FS_Interval
<1> HIDE DEF e, n
<1>7. Cardinality(S) = n
  BY DEF n
<1>8. e \in Surjection(1..n, S)
  BY <1>5, <1>6, <1>7, FS_Injection
<1>9. \A x \in S : \E k \in 1..n : e[k] = x
  BY <1>8 DEF Surjection
<1>10. e \in Seq(S) /\ DOMAIN e = 1..n
  BY <1>1, <1>4
<1>11. ToSet(e) = S
  BY <1>4, <1>9, <1>10 DEF ToSet
<1> QED BY <1>10, <1>11 DEF e

NewsOf(s, e, f) ==
  f = [x \in SUBSET DOMAIN e |-> IF x = {} THEN s ELSE ItemNew(f[x \ {Max(x)}], e[Max(x)])]
News(s, e) == FoldLeft(ItemNew, s, e)

LEMMA NewIn == ASSUME NEW s \in States, NEW a \in Apps PROVE ItemNew(s, a) \in States
<1>1. CASE Known(s, a)
  BY <1>1 DEF ItemNew
<1>2. CASE ~Known(s, a)
  BY <1>2, NewAre
<1> QED BY <1>1, <1>2

LEMMA NewsAre ==
  ASSUME NEW s \in States, NEW e \in Seq(Apps)
  PROVE  \E f : NewsOf(s, e, f) /\ News(s, e) = f[DOMAIN e]
<1> DEFINE g == [n \in 1..Len(e) |-> [x \in States |-> ItemNew(x, e[n])]]
<1>1. g \in [1..Len(e) -> [States -> States]] /\ Len(e) \in Nat
  <2>1. \A n \in 1..Len(e) : e[n] \in Apps
    OBVIOUS
  <2>2. \A n \in 1..Len(e), x \in States : ItemNew(x, e[n]) \in States
    BY <2>1, NewIn
  <2> QED BY <2>2
<1> HIDE DEF g
<1>2. PICK f \in [SUBSET (1..Len(e)) -> States] : Folded(f, s, g, Len(e))
  BY <1>1, Folding, Zenon
<1>3. ASSUME NEW x \in SUBSET (1..Len(e)), x # {}
      PROVE  g[Max(x)][f[x \ {Max(x)}]] = ItemNew(f[x \ {Max(x)}], e[Max(x)])
  <2>1. Max(x) \in 1..Len(e)
    BY <1>1, <1>3, MaxIn
  <2>2. f[x \ {Max(x)}] \in States
    OBVIOUS
  <2> QED BY <2>1, <2>2 DEF g
<1>4. \A x \in SUBSET (1..Len(e)) : f[x] = IF x = {} THEN s ELSE ItemNew(f[x \ {Max(x)}], e[Max(x)])
  BY <1>2, <1>3, Zenon DEF Folded
<1>5. DOMAIN e = 1..Len(e)
  OBVIOUS
<1>6. NewsOf(s, e, f)
  <2>1. f = [x \in SUBSET (1..Len(e)) |-> f[x]]
    BY Zenon
  <2>2. f = [x \in SUBSET (1..Len(e)) |-> IF x = {} THEN s ELSE ItemNew(f[x \ {Max(x)}], e[Max(x)])]
    BY <1>4, <2>1, Zenon
  <2> QED BY <1>5, <2>2, Zenon DEF NewsOf
<1> DEFINE h == CHOOSE x : NewsOf(s, e, x)
<1>7. NewsOf(s, e, h)
  BY <1>6, Zenon
<1>8. News(s, e) = h[DOMAIN e]
  BY Zenon DEF News, FoldLeft, MapThenFoldSet, NewsOf
<1> QED BY <1>7, <1>8, Zenon

\* Who is known stays known.
LEMMA KnownStays ==
  ASSUME NEW s \in States, NEW a \in Apps
  PROVE  Known(ItemNew(s, a), a) /\ \A b : Known(s, b) => Known(ItemNew(s, a), b)
<1>1. CASE Known(s, a)
  BY <1>1 DEF ItemNew
<1>2. CASE ~Known(s, a)
  <2> DEFINE t == ItemNew(s, a)
  <2>1. t.sni = Append(s.sni, NewItem(a))
    BY <1>2, NewAre
  <2>2. s.sni \in Seq(ItemSet) /\ NewItem(a).uid = a /\ NewItem(a).live = TRUE
    BY StateFields DEF NewItem
  <2> HIDE DEF t
  <2>3. Len(s.sni) + 1 \in DOMAIN t.sni /\ t.sni[Len(s.sni) + 1] = NewItem(a)
        /\ \A i \in DOMAIN s.sni : i \in DOMAIN t.sni /\ t.sni[i] = s.sni[i]
    BY <2>1, <2>2
  <2>4. Known(t, a)
    BY <2>2, <2>3 DEF Known
  <2>5. \A b : Known(s, b) => Known(t, b)
    BY <2>3 DEF Known
  <2> QED BY <2>4, <2>5 DEF t
<1> QED BY <1>1, <1>2

\* What every new item keeps a list keeps, and all that are on it get known.
LEMMA NewsKeep ==
  ASSUME NEW G \in SUBSET States, NEW s \in G, NEW e \in Seq(Apps),
         \A t \in G, a \in ToSet(e) : ItemNew(t, a) \in G
  PROVE  News(s, e) \in G /\ \A a \in ToSet(e) : Known(News(s, e), a)
<1>0. DOMAIN e = 1..Len(e) /\ Len(e) \in Nat /\ s \in States
  OBVIOUS
<1>1. PICK f : NewsOf(s, e, f) /\ News(s, e) = f[DOMAIN e]
  BY <1>0, NewsAre, Zenon
<1> DEFINE Good(n) == f[1..n] \in G /\ \A k \in 1..n : Known(f[1..n], e[k])
           T == {n \in Nat : n <= Len(e) => Good(n)}
<1>2. 0 \in T
  <2>1. 1..0 = {} /\ {} \in SUBSET DOMAIN e
    OBVIOUS
  <2>2. f[1..0] = s
    BY <1>1, <2>1, Zenon DEF NewsOf
  <2>4. Good(0)
    BY <2>2
  <2> QED BY <2>4
<1>3. ASSUME NEW n \in Nat, n \in T PROVE n + 1 \in T
  <2> SUFFICES ASSUME n + 1 <= Len(e) PROVE Good(n + 1)
    OBVIOUS
  <2>1. f[1..n] \in G /\ (\A k \in 1..n : Known(f[1..n], e[k])) /\ e[n + 1] \in Apps /\ n + 1 \in DOMAIN e
    BY <1>3
  <2>2. 1..n + 1 \in SUBSET DOMAIN e /\ 1..n + 1 # {} /\ (1..n + 1) \ {n + 1} = 1..n
    <3>1. (1..n + 1) \ {n + 1} = 1..n
      OBVIOUS
    <3>2. n + 1 \in 1..n + 1 /\ \A k \in 1..n + 1 : k \in 1..Len(e)
      OBVIOUS
    <3> QED BY <1>0, <3>1, <3>2, Zenon
  <2>3. Max(1..n + 1) = n + 1
    BY MaxOf
  <2>4. f[1..n + 1] = ItemNew(f[1..n], e[n + 1])
    BY <1>1, <2>2, <2>3, Zenon DEF NewsOf
  <2>5. e[n + 1] \in ToSet(e)
    BY <2>1 DEF ToSet
  <2>6. f[1..n + 1] \in G
    BY <2>1, <2>4, <2>5
  <2> DEFINE t == f[1..n]  u == f[1..n + 1]
  <2>7. t \in States /\ u = ItemNew(t, e[n + 1])
    BY <2>1, <2>4
  <2>8. Known(u, e[n + 1]) /\ \A b : Known(t, b) => Known(u, b)
    <3> HIDE DEF t, u
    <3> QED BY <2>1, <2>7, KnownStays
  <2>9. \A k \in 1..n + 1 : k = n + 1 \/ k \in 1..n
    OBVIOUS
  <2>10. \A k \in 1..n + 1 : Known(u, e[k])
    <3> HIDE DEF u
    <3> QED BY <2>1, <2>8, <2>9, Zenon DEF t
  <2> QED BY <2>6, <2>10
<1> HIDE DEF T
<1>4. \A n \in Nat : n \in T
  BY <1>2, <1>3, Induction
<1>5. Good(Len(e))
  <2> HIDE DEF Good
  <2> QED BY <1>0, <1>4 DEF T
<1>6. ToSet(e) = {e[k] : k \in 1..Len(e)}
  BY DEF ToSet
<1> QED BY <1>0, <1>1, <1>5, <1>6

LEMMA ListDoes ==
  ASSUME Types, HostList
  PROVE  /\ M.uids \in SUBSET Apps /\ Now' = News(Taken, SetToSeq(M.uids)) /\ Now' \in States
         /\ SetToSeq(M.uids) \in Seq(Apps) /\ ToSet(SetToSeq(M.uids)) = M.uids
<1>1. Incoming("list") /\ Becomes(FoldLeft(ItemNew, Items(Rest), SetToSeq(M.uids)))
  BY Zenon DEF HostList
<1>2. Taken \in States /\ Items(Rest) = Taken
  BY <1>1, TakenFields
<1>3. M.uids \in SUBSET Apps
  BY <1>1, HeadIs
<1> DEFINE e == SetToSeq(M.uids)
<1>4. IsFiniteSet(M.uids)
  BY <1>3, PropsAssumption, FS_Subset
<1>5. e \in Seq(M.uids) /\ ToSet(e) = M.uids
  BY <1>4, SetToSeqIs
<1>6. e \in Seq(Apps)
  BY <1>3, <1>5
<1>7. Becomes(News(Taken, e))
  BY <1>1, <1>2 DEF News
<1> HIDE DEF e
<1>8. News(Taken, e) \in States
  <2>1. \A t \in States, a \in ToSet(e) : ItemNew(t, a) \in States
    BY <1>3, <1>5, NewIn
  <2> QED BY <1>2, <1>6, <2>1, NewsKeep
<1>9. Now' = News(Taken, e)
  BY <1>7, <1>8, BecomesNow
<1> QED BY <1>3, <1>5, <1>6, <1>8, <1>9 DEF e

----------------------------------------------------------------------------
(* Items, children and calls belong together *)

\* The live items and the tray's children are one to one, and no two live items
\* are of one application.
Paired(s) ==
  /\ \A j \in DOMAIN s.tray : s.tray[j].i \in LiveSet(s)
  /\ \A i \in LiveSet(s) : \E j \in DOMAIN s.tray : s.tray[j].i = i
  /\ \A j, k \in DOMAIN s.tray : s.tray[j].i = s.tray[k].i => j = k
  /\ \A i, j \in LiveSet(s) : s.sni[i].uid = s.sni[j].uid => i = j

\* Of how many properties of i the replies are on their way, or still u's to send
Flight(s, u, i) == Counted(s.box, "prop", i) + Counted(s.calls[u], "get", i)
InFlight(s, i) == Flight(s, s.sni[i].uid, i)
Counts(s) == \A i \in LiveSet(s) : s.sni[i].ref = InFlight(s, i)

Timed(s) == \A i \in DOMAIN s.sni : s.sni[i].menu.rev > 0 => s.sni[i].menu.timed = TRUE
Silent(s, up) == \A a \in Apps : a \notin up => s.calls[a] = <<>>
Sound(s, up) == Points(s) /\ Paired(s) /\ Counts(s) /\ Timed(s) /\ Silent(s, up)

LEMMA FlightNat ==
  ASSUME NEW s \in States, NEW u \in Apps, NEW i
  PROVE  /\ Counted(s.box, "prop", i) \in Nat /\ Counted(s.calls[u], "get", i) \in Nat
         /\ Flight(s, u, i) \in Nat
<1>1. s.box \in Seq(Messages) /\ s.calls[u] \in Seq(Calls)
  BY StateFields
<1>2. Counted(s.box, "prop", i) \in Nat
  BY <1>1, MessagesSized, WeightsAre
<1>3. Counted(s.calls[u], "get", i) \in Nat
  BY <1>1, MessagesSized, WeightsAre
<1> QED BY <1>2, <1>3 DEF Flight

LEMMA CountedTail ==
  ASSUME NEW b \in Seq(Messages), b # <<>>, NEW i
  PROVE  /\ Counted(b, "prop", i) = Weight(Head(b), "prop", i) + Counted(Tail(b), "prop", i)
         /\ Counted(Tail(b), "prop", i) \in Nat /\ Weight(Head(b), "prop", i) \in Nat
<1>1. PICK h \in Messages, o \in Seq(Messages), d \in Seq(Messages) :
        h = Head(b) /\ o = <<h>> /\ d = Tail(b) /\ b = o \o d
  <2>1. Head(b) \in Messages /\ Tail(b) \in Seq(Messages) /\ b = <<Head(b)>> \o Tail(b)
    BY InTail
  <2>2. <<Head(b)>> \in Seq(Messages)
    BY <2>1
  <2> QED BY <2>1, <2>2, Zenon
<1>2. Counted(o, "prop", i) = Weight(h, "prop", i) /\ Weight(h, "prop", i) \in Nat
  BY <1>1, CountedOne, MessagesSized
<1>3. Counted(o \o d, "prop", i) = Counted(o, "prop", i) + Counted(d, "prop", i)
  BY CountedConcat, MessagesSized
<1>4. Counted(d, "prop", i) \in Nat
  BY MessagesSized, WeightsAre
<1> QED BY <1>1, <1>2, <1>3, <1>4

LEMMA CountedAppend ==
  ASSUME NEW X, NEW k, NEW i, NEW b \in Seq(X), NEW x \in X, Sized(X, k)
  PROVE  Counted(Append(b, x), k, i) = Counted(b, k, i) + Weight(x, k, i) /\ Weight(x, k, i) \in Nat
<1> DEFINE o == <<x>>
<1>1. Append(b, x) = b \o o /\ o \in Seq(X)
  BY AppendConcat
<1>2. Counted(o, k, i) = Weight(x, k, i) /\ Weight(x, k, i) \in Nat
  BY CountedOne
<1> HIDE DEF o
<1>3. Counted(b \o o, k, i) = Counted(b, k, i) + Counted(o, k, i)
  BY <1>1, CountedConcat
<1> QED BY <1>1, <1>2, <1>3

LEMMA FlightTaken ==
  ASSUME Types, NEW k, Incoming(k), NEW u \in Apps, NEW i
  PROVE  /\ Flight(Now, u, i) = Flight(Taken, u, i) + Weight(M, "prop", i)
         /\ Flight(Now, u, i) \in Nat /\ Flight(Taken, u, i) \in Nat /\ Weight(M, "prop", i) \in Nat
<1>1. /\ Taken \in States /\ Taken.box = Tail(inbox) /\ Taken.calls = asked
      /\ inbox \in Seq(Messages) /\ inbox # <<>>
      /\ Now \in States /\ Now.box = inbox /\ Now.calls = asked
  BY TakenFields, NowFields
<1>2. /\ Counted(inbox, "prop", i) = Weight(M, "prop", i) + Counted(Tail(inbox), "prop", i)
      /\ Counted(Tail(inbox), "prop", i) \in Nat /\ Weight(M, "prop", i) \in Nat
  BY <1>1, CountedTail DEF M
<1>3. Flight(Now, u, i) \in Nat /\ Flight(Taken, u, i) \in Nat /\ Counted(asked[u], "get", i) \in Nat
  BY <1>1, FlightNat
<1> QED BY <1>1, <1>2, <1>3 DEF Flight

\* A call that is sent counts for what it is.
LEMMA FlightSent ==
  ASSUME NEW s \in States, NEW t \in States, NEW a \in Apps, NEW r \in Calls, NEW u \in Apps, NEW j,
         Sent(t, s.box, s.calls, a, r), r.i = j => u = a
  PROVE  /\ Flight(t, u, j) = Flight(s, u, j) + Weight(r, "get", j)
         /\ Flight(s, u, j) \in Nat /\ Weight(r, "get", j) \in Nat
<1>1. /\ s.box \in Seq(Messages) /\ t.box \in Seq(Messages) /\ s.calls \in [Apps -> Seq(Calls)]
      /\ s.calls[u] \in Seq(Calls) /\ s.calls[a] \in Seq(Calls)
  BY StateFields
<1>2. Flight(s, u, j) \in Nat /\ Counted(s.box, "prop", j) \in Nat /\ Counted(s.calls[u], "get", j) \in Nat
  BY FlightNat
<1>3. Weight(r, "get", j) \in Nat
  BY MessagesSized, CountedOne
<1>4. Flight(t, u, j) = Counted(t.box, "prop", j) + Counted(t.calls[u], "get", j)
      /\ Flight(s, u, j) = Counted(s.box, "prop", j) + Counted(s.calls[u], "get", j)
  BY DEF Flight
<1>5. Weight(r, "get", j) # 0 => r.k = "get" /\ r.i = j /\ u = a
  BY DEF Weight
<1>6. CASE a \in alive
  <2>1. t.box = s.box /\ t.calls[a] = Append(s.calls[a], r) /\ \A b \in Apps : b # a => t.calls[b] = s.calls[b]
    BY <1>6 DEF Sent
  <2>2. Counted(Append(s.calls[a], r), "get", j) = Counted(s.calls[a], "get", j) + Weight(r, "get", j)
    BY <1>1, MessagesSized, CountedAppend
  <2>3. CASE u = a
    <3>1. Counted(t.calls[u], "get", j) = Counted(s.calls[u], "get", j) + Weight(r, "get", j)
      BY <2>1, <2>2, <2>3
    <3>2. Counted(t.box, "prop", j) = Counted(s.box, "prop", j)
      BY <2>1
    <3> QED BY <1>2, <1>3, <1>4, <3>1, <3>2
  <2>4. CASE u # a
    <3>1. t.calls[u] = s.calls[u] /\ Weight(r, "get", j) = 0
      BY <1>5, <2>1, <2>4
    <3> QED BY <1>2, <1>4, <2>1, <3>1
  <2> QED BY <2>3, <2>4
<1>7. CASE a \notin alive
  <2>1. /\ t.calls = s.calls
        /\ t.box = IF r.k = "get" THEN Append(s.box, PropReply(r.i, r.ps, Failed)) ELSE s.box
    BY <1>7 DEF Sent
  <2>2. CASE r.k # "get"
    <3>1. Weight(r, "get", j) = 0
      BY <2>2 DEF Weight
    <3> QED BY <1>2, <1>4, <2>1, <2>2, <3>1
  <2>3. CASE r.k = "get"
    <3> DEFINE x == PropReply(r.i, r.ps, Failed)
    <3>1. x \in Messages /\ x.k = "prop" /\ x.i = r.i /\ x.ps = r.ps
      <4>1. Failed \in Answers /\ r.i \in Nat /\ r.ps \in SUBSET Props
        BY <2>3, CallKinds DEF Answers
      <4> QED BY <4>1, PropReplyIn, PropReplyIs
    <3> HIDE DEF x
    <3>2. Counted(Append(s.box, x), "prop", j) = Counted(s.box, "prop", j) + Weight(x, "prop", j)
      BY <1>1, <3>1, MessagesSized, CountedAppend
    <3>3. Weight(x, "prop", j) = Weight(r, "get", j)
      BY <2>3, <3>1 DEF Weight
    <3> QED BY <1>2, <1>3, <1>4, <2>1, <2>3, <3>2, <3>3 DEF x
  <2> QED BY <2>2, <2>3
<1> QED BY <1>2, <1>3, <1>6, <1>7

----------------------------------------------------------------------------
(* What keeps a state sound *)

SameItems(s, t) == t.sni = s.sni /\ t.calls = s.calls

\* Messages come and go; those about items only go.
LEMMA FrameSound ==
  ASSUME NEW s \in States, NEW t \in States, NEW up, Sound(s, up), SameItems(s, t),
         DOMAIN t.tray = DOMAIN s.tray, \A j \in DOMAIN s.tray : t.tray[j].i = s.tray[j].i,
         Sends(s.box, t.box, Kinds({"prop"})),
         \A x \in ToSet(t.box) : x.k \in {"layout", "about to show"} => x \in ToSet(s.box)
  PROVE  Sound(t, up)
<1>1. s.box \in Seq(Messages) /\ t.box \in Seq(Messages) /\ t.sni = s.sni /\ t.calls = s.calls
  BY StateFields DEF SameItems
<1>2. \A x \in ToSet(t.box) : x.k = "prop" => x \in ToSet(s.box)
  <2>1. \A x \in ToSet(t.box) : x.k = "prop" => x \in Kinds({"prop"})
    BY <1>1, InType DEF Kinds
  <2>2. \A x \in Kinds({"prop"}) : x \in ToSet(t.box) <=> x \in ToSet(s.box)
    BY <1>1, SendsIn
  <2> QED BY <2>1, <2>2
<1>3. Points(t)
  <2>1. \A x \in ToSet(t.box) : x.k \in {"prop", "layout", "about to show"} => x \in ToSet(s.box)
    BY <1>2
  <2>2. \A x \in ToSet(t.box) : x.k \in {"prop", "layout", "about to show"} => x.i \in DOMAIN t.sni
    BY <1>1, <2>1 DEF Sound, Points
  <2>3. \A a \in Apps : \A x \in ToSet(t.calls[a]) : x.i \in DOMAIN t.sni /\ t.sni[x.i].uid = a
    BY <1>1 DEF Sound, Points
  <2> QED BY <2>2, <2>3 DEF Points
<1>4. \A i : Counted(t.box, "prop", i) = Counted(s.box, "prop", i)
  BY <1>1, SendsCounted
<1>5. Counts(t)
  BY <1>1, <1>4 DEF Sound, Counts, InFlight, Flight, LiveSet
<1>6. Timed(t) /\ Silent(t, up)
  BY <1>1 DEF Sound, Timed, Silent
<1>7. LiveSet(t) = LiveSet(s)
  BY <1>1 DEF LiveSet
<1>8. Paired(t)
  <2>1. \A j \in DOMAIN t.tray : t.tray[j].i \in LiveSet(t)
    BY <1>7 DEF Sound, Paired
  <2>2. \A i \in LiveSet(t) : \E j \in DOMAIN t.tray : t.tray[j].i = i
    <3> TAKE i \in LiveSet(t)
    <3>1. PICK j \in DOMAIN s.tray : s.tray[j].i = i
      BY <1>7 DEF Sound, Paired
    <3> QED BY <3>1
  <2>3. \A j, k \in DOMAIN t.tray : t.tray[j].i = t.tray[k].i => j = k
    BY DEF Sound, Paired
  <2>4. \A i, j \in LiveSet(t) : t.sni[i].uid = t.sni[j].uid => i = j
    BY <1>1, <1>7 DEF Sound, Paired
  <2> QED BY <2>1, <2>2, <2>3, <2>4 DEF Paired
<1> QED BY <1>3, <1>5, <1>6, <1>8 DEF Sound

\* There is nothing under way about an item that is not there.
LEMMA FlightNone ==
  ASSUME NEW s \in States, NEW u \in Apps, NEW i, Points(s), i \notin DOMAIN s.sni
  PROVE  Flight(s, u, i) = 0
<1>1. s.box \in Seq(Messages) /\ s.calls[u] \in Seq(Calls)
  BY StateFields
<1>2. Counted(s.box, "prop", i) = 0
  <2>1. \A x \in ToSet(s.box) : ~(x.k = "prop" /\ x.i = i)
    BY DEF Points
  <2> QED BY <1>1, <2>1, CountedNone, MessagesSized
<1>3. Counted(s.calls[u], "get", i) = 0
  <2>1. \A x \in ToSet(s.calls[u]) : ~(x.k = "get" /\ x.i = i)
    BY DEF Points
  <2> QED BY <1>1, <2>1, CountedNone, MessagesSized
<1> QED BY <1>2, <1>3 DEF Flight

\* Who is sent, and to whom
LEMMA SentPoints ==
  ASSUME NEW s \in States, NEW t \in States, NEW a \in Apps, NEW r \in Calls,
         Sent(t, s.box, s.calls, a, r), Points(s), Silent(s, alive),
         \A j \in DOMAIN s.sni : j \in DOMAIN t.sni /\ t.sni[j].uid = s.sni[j].uid,
         r.i \in DOMAIN t.sni, t.sni[r.i].uid = a
  PROVE  Points(t) /\ Silent(t, alive)
<1>1. s.box \in Seq(Messages) /\ \A b \in Apps : s.calls[b] \in Seq(Calls)
  BY StateFields
<1>2. CASE a \in alive
  <2>1. t.box = s.box /\ t.calls[a] = Append(s.calls[a], r) /\ \A b \in Apps : b # a => t.calls[b] = s.calls[b]
    BY <1>2 DEF Sent
  <2>2. ToSet(t.calls[a]) = ToSet(s.calls[a]) \cup {r}
    BY <1>1, <2>1, InAppend
  <2>3. \A b \in Apps : \A x \in ToSet(t.calls[b]) : x.i \in DOMAIN t.sni /\ t.sni[x.i].uid = b
    <3> TAKE b \in Apps
    <3>1. CASE b = a
      BY <2>2, <3>1 DEF Points
    <3>2. CASE b # a
      BY <2>1, <3>2 DEF Points
    <3> QED BY <3>1, <3>2
  <2>4. \A x \in ToSet(t.box) : x.k \in {"prop", "layout", "about to show"} => x.i \in DOMAIN t.sni
    BY <2>1 DEF Points
  <2>5. Silent(t, alive)
    BY <1>2, <2>1 DEF Silent
  <2> QED BY <2>3, <2>4, <2>5 DEF Points
<1>3. CASE a \notin alive
  <2>1. /\ t.calls = s.calls
        /\ t.box = IF r.k = "get" THEN Append(s.box, PropReply(r.i, r.ps, Failed)) ELSE s.box
    BY <1>3 DEF Sent
  <2>2. \A b \in Apps : \A x \in ToSet(t.calls[b]) : x.i \in DOMAIN t.sni /\ t.sni[x.i].uid = b
    BY <2>1 DEF Points
  <2>3. \A x \in ToSet(t.box) : x.k \in {"prop", "layout", "about to show"} => x.i \in DOMAIN t.sni
    <3>1. CASE r.k # "get"
      BY <2>1, <3>1 DEF Points
    <3>2. CASE r.k = "get"
      <4> DEFINE y == PropReply(r.i, r.ps, Failed)
      <4>1. y \in Messages /\ y.i = r.i
        <5>1. Failed \in Answers /\ r.i \in Nat /\ r.ps \in SUBSET Props
          BY <3>2, CallKinds DEF Answers
        <5> QED BY <5>1, PropReplyIn, PropReplyIs
      <4> HIDE DEF y
      <4>2. ToSet(Append(s.box, y)) = ToSet(s.box) \cup {y}
        BY <1>1, <4>1, InAppend
      <4>3. ToSet(t.box) = ToSet(s.box) \cup {y}
        BY <2>1, <3>2, <4>2 DEF y
      <4> QED BY <4>1, <4>3 DEF Points
    <3> QED BY <3>1, <3>2
  <2>4. Silent(t, alive)
    BY <2>1 DEF Silent
  <2> QED BY <2>2, <2>3, <2>4 DEF Points
<1> QED BY <1>2, <1>3

\* sni_item_new
LEMMA NewSound ==
  ASSUME NEW s \in States, NEW a \in Apps, Sound(s, alive)
  PROVE  Sound(ItemNew(s, a), alive)
<1>1. CASE Known(s, a)
  BY <1>1 DEF ItemNew
<1> SUFFICES ASSUME ~Known(s, a) PROVE Sound(ItemNew(s, a), alive)
  BY <1>1
<1> DEFINE n == Len(s.sni) + 1  r == Get(n, Props)
<1>2. PICK t \in States :
        /\ t = ItemNew(s, a)
        /\ t.sni = Append(s.sni, NewItem(a)) /\ t.tray = Append(s.tray, Child(n)) /\ t.invalid = TRUE
        /\ \A b \in Apps : b # a => t.calls[b] = s.calls[b]
        /\ a \in alive => t.box = s.box /\ t.calls[a] = Append(s.calls[a], r)
        /\ a \notin alive => t.calls = s.calls /\ t.box = Append(s.box, PropReply(n, Props, Failed))
  BY NewAre, Zenon
<1>3. s.sni \in Seq(ItemSet) /\ s.tray \in Seq(Children) /\ n \in Nat
  BY StateFields
<1>4. r \in Calls /\ r.k = "get" /\ r.i = n /\ r.ps = Props
  <2> HIDE DEF n
  <2>1. Props \in SUBSET Props
    OBVIOUS
  <2> QED BY <1>3, <2>1, GetKind, Zenon
<1>5. Sent(t, s.box, s.calls, a, r)
  <2>1. t.calls \in [Apps -> Seq(Calls)] /\ t.box \in Seq(Messages)
    BY StateFields
  <2> HIDE DEF r, n
  <2> QED BY <1>2, <1>4, <2>1 DEF Sent
<1>6. NewItem(a).uid = a /\ NewItem(a).live = TRUE /\ NewItem(a).ref = Cardinality(Props) /\ NewItem(a).menu = NoMenu
  BY DEF NewItem
<1>7. /\ DOMAIN t.sni = DOMAIN s.sni \cup {n} /\ n \notin DOMAIN s.sni /\ t.sni[n] = NewItem(a)
      /\ \A j \in DOMAIN s.sni : t.sni[j] = s.sni[j]
  BY <1>2, <1>3
<1> DEFINE m == Len(s.tray) + 1
<1>8. /\ DOMAIN t.tray = DOMAIN s.tray \cup {m} /\ m \notin DOMAIN s.tray /\ t.tray[m].i = n
      /\ \A j \in DOMAIN s.tray : t.tray[j] = s.tray[j]
  <2>1. Child(n).i = n
    BY DEF Child
  <2> HIDE DEF n
  <2> QED BY <1>2, <1>3, <2>1
<1> HIDE DEF n, m, r
<1>9. Points(t) /\ Silent(t, alive)
  <2>1. \A j \in DOMAIN s.sni : j \in DOMAIN t.sni /\ t.sni[j].uid = s.sni[j].uid
    BY <1>7
  <2>2. r.i \in DOMAIN t.sni /\ t.sni[r.i].uid = a
    BY <1>4, <1>6, <1>7
  <2>3. Points(s) /\ Silent(s, alive)
    BY DEF Sound
  <2> QED BY <1>4, <1>5, <2>1, <2>2, <2>3, SentPoints, Zenon
<1>10. LiveSet(t) = LiveSet(s) \cup {n}
  BY <1>6, <1>7 DEF LiveSet
<1>11. \A i \in LiveSet(s) : i \in DOMAIN s.sni /\ s.sni[i].uid # a
  BY ItemFields DEF Known, LiveSet
<1>12. Paired(t)
  <2>1. \A j \in DOMAIN t.tray : t.tray[j].i \in LiveSet(t)
    BY <1>8, <1>10 DEF Sound, Paired
  <2>2. \A i \in LiveSet(t) : \E j \in DOMAIN t.tray : t.tray[j].i = i
    BY <1>8, <1>10 DEF Sound, Paired
  <2>3. \A j, k \in DOMAIN t.tray : t.tray[j].i = t.tray[k].i => j = k
    <3>1. \A j \in DOMAIN s.tray : s.tray[j].i # n
      BY <1>7 DEF Sound, Paired, LiveSet
    <3> QED BY <1>8, <3>1 DEF Sound, Paired
  <2>4. \A i, j \in LiveSet(t) : t.sni[i].uid = t.sni[j].uid => i = j
    BY <1>6, <1>7, <1>10, <1>11 DEF Sound, Paired
  <2> QED BY <2>1, <2>2, <2>3, <2>4 DEF Paired
<1>13. Counts(t)
  <2> SUFFICES ASSUME NEW i \in LiveSet(t) PROVE t.sni[i].ref = InFlight(t, i)
    BY DEF Counts
  <2>1. CASE i = n
    <3>1. Flight(t, a, n) = Flight(s, a, n) + Weight(r, "get", n)
      BY <1>4, <1>5, FlightSent
    <3>2. Flight(s, a, n) = 0
      BY <1>7, FlightNone DEF Sound
    <3>3. Weight(r, "get", n) = Cardinality(Props) /\ Cardinality(Props) \in Nat
      BY <1>4, PropsAssumption, FS_CardinalityType DEF Weight
    <3> QED BY <1>6, <1>7, <2>1, <3>1, <3>2, <3>3 DEF InFlight
  <2>2. CASE i # n
    <3>1. i \in LiveSet(s) /\ i \in DOMAIN s.sni
      BY <1>10, <1>11, <2>2
    <3>2. PICK u \in Apps : u = s.sni[i].uid
      BY <3>1, ItemFields
    <3>3. Flight(t, u, i) = Flight(s, u, i) + Weight(r, "get", i) /\ Flight(s, u, i) \in Nat
      BY <1>4, <1>5, <2>2, FlightSent
    <3>4. Weight(r, "get", i) = 0
      BY <1>4, <2>2 DEF Weight
    <3>5. t.sni[i] = s.sni[i]
      BY <1>7, <3>1
    <3> QED BY <3>1, <3>2, <3>3, <3>4, <3>5 DEF InFlight, Sound, Counts
  <2> QED BY <2>1, <2>2
<1>14. Timed(t)
  <2>1. NoMenu.rev = 0
    BY DEF NoMenu
  <2> QED BY <1>6, <1>7, <2>1 DEF Sound, Timed
<1> QED BY <1>2, <1>9, <1>12, <1>13, <1>14 DEF Sound

\* What is left when the child at an index is removed
LEMMA Removed ==
  ASSUME NEW X, NEW c \in Seq(X), NEW j \in DOMAIN c
  PROVE  /\ \A k \in DOMAIN RemoveAt(c, j) : \E m \in DOMAIN c : m # j /\ RemoveAt(c, j)[k] = c[m]
                                                                 /\ m = (IF k < j THEN k ELSE k + 1)
         /\ \A m \in DOMAIN c : m # j => \E k \in DOMAIN RemoveAt(c, j) : RemoveAt(c, j)[k] = c[m]
<1> DEFINE l == SubSeq(c, 1, j - 1)  r == SubSeq(c, j + 1, Len(c))
<1>1. RemoveAt(c, j) = l \o r
  BY DEF RemoveAt
<1>2. PICK n \in Nat : n = Len(c) /\ DOMAIN c = 1..n /\ j \in 1..n
  OBVIOUS
<1>3. /\ l \in Seq(X) /\ r \in Seq(X) /\ Len(l) = j - 1 /\ Len(r) = n - j
      /\ \A k \in 1..(j - 1) : l[k] = c[k]
      /\ \A k \in 1..(n - j) : r[k] = c[k + j]
  BY <1>2
<1> HIDE DEF l, r
<1> DEFINE d == l \o r
<1>4. /\ DOMAIN d = 1..(n - 1)
      /\ \A k \in 1..(j - 1) : d[k] = c[k]
      /\ \A k \in j..(n - 1) : d[k] = c[k + 1]
  <2>1. DOMAIN d = 1..(n - 1)
    <3>1. d \in Seq(X) /\ Len(d) = Len(l) + Len(r)
      BY <1>3, InConcat, ConcatLength
    <3>2. Len(d) = n - 1
      BY <1>2, <1>3, <3>1
    <3> QED BY <3>1, <3>2
  <2>2. \A k \in 1..(j - 1) : d[k] = c[k]
    BY <1>2, <1>3
  <2>3. ASSUME NEW k \in j..(n - 1) PROVE d[k] = c[k + 1]
    <3>1. d[k] = r[k - (j - 1)]
      BY <1>2, <1>3
    <3>2. k - (j - 1) \in 1..(n - j) /\ (k - (j - 1)) + j = k + 1
      BY <1>2
    <3>3. r[k - (j - 1)] = c[(k - (j - 1)) + j]
      BY <1>3, <3>2
    <3> QED BY <3>1, <3>2, <3>3
  <2> QED BY <2>1, <2>2, <2>3
<1> HIDE DEF d
<1>5. \A k \in DOMAIN d : \E m \in DOMAIN c : m # j /\ d[k] = c[m] /\ m = (IF k < j THEN k ELSE k + 1)
  <2> TAKE k \in DOMAIN d
  <2>0. k \in 1..(n - 1)
    BY <1>4
  <2>1. CASE k < j
    <3>1. k \in DOMAIN c /\ k # j /\ d[k] = c[k]
      <4>1. k \in 1..(j - 1) /\ k \in 1..n /\ k # j
        BY <1>2, <2>0, <2>1
      <4> QED BY <1>2, <1>4, <4>1
    <3> QED BY <2>1, <3>1
  <2>2. CASE ~(k < j)
    <3>1. k + 1 \in DOMAIN c /\ k + 1 # j /\ d[k] = c[k + 1]
      <4>1. k \in j..(n - 1) /\ k + 1 \in 1..n /\ k + 1 # j
        BY <1>2, <2>0, <2>2
      <4> QED BY <1>2, <1>4, <4>1
    <3> QED BY <2>2, <3>1
  <2> QED BY <2>1, <2>2
<1>6. \A m \in DOMAIN c : m # j => \E k \in DOMAIN d : d[k] = c[m]
  <2> SUFFICES ASSUME NEW m \in DOMAIN c, m # j PROVE \E k \in DOMAIN d : d[k] = c[m]
    OBVIOUS
  <2>0. m \in 1..n
    BY <1>2
  <2>1. CASE m < j
    <3>1. m \in 1..(j - 1) /\ m \in 1..(n - 1)
      BY <1>2, <2>0, <2>1
    <3>2. m \in DOMAIN d /\ d[m] = c[m]
      BY <1>4, <3>1
    <3> QED BY <3>2
  <2>2. CASE m > j
    <3> DEFINE k == m - 1
    <3>1. k \in j..(n - 1) /\ k \in 1..(n - 1) /\ k + 1 = m
      BY <1>2, <2>0, <2>2
    <3> HIDE DEF k
    <3>2. k \in DOMAIN d /\ d[k] = c[m]
      BY <1>4, <3>1
    <3> QED BY <3>2
  <2> QED BY <1>2, <2>0, <2>1, <2>2
<1> QED BY <1>1, <1>5, <1>6 DEF d

\* sni_item_free
LEMMA FreedSound ==
  ASSUME NEW s \in States, NEW i \in LiveSet(s), Sound(s, alive)
  PROVE  Sound(ItemFree(s, i), alive)
<1>0. i \in DOMAIN s.sni
  BY DEF LiveSet
<1> DEFINE t == ItemFree(s, i)
<1>1. /\ t \in States /\ t.box = s.box /\ t.calls = s.calls
      /\ DOMAIN t.sni = DOMAIN s.sni
      /\ \A j \in DOMAIN s.sni : j # i => t.sni[j] = s.sni[j]
      /\ t.sni[i].uid = s.sni[i].uid /\ t.sni[i].live = FALSE /\ t.sni[i].menu = NoMenu
      /\ \/ \A j \in DOMAIN s.tray : s.tray[j].i # i
         \/ \E j \in DOMAIN s.tray : s.tray[j].i = i /\ t.tray = RemoveAt(s.tray, j)
  BY <1>0, FreedAre
<1> HIDE DEF t
<1>2. LiveSet(t) = LiveSet(s) \ {i}
  BY <1>1 DEF LiveSet
<1>3. \A j \in DOMAIN s.sni : t.sni[j].uid = s.sni[j].uid
  BY <1>1
<1>4. Points(t) /\ Silent(t, alive)
  BY <1>1, <1>3 DEF Sound, Points, Silent
<1>5. Counts(t)
  BY <1>1, <1>2 DEF Sound, Counts, InFlight, Flight, LiveSet
<1>6. Timed(t)
  <2>1. NoMenu.rev = 0
    BY DEF NoMenu
  <2> QED BY <1>1, <2>1 DEF Sound, Timed
<1>7. Paired(t)
  <2>1. PICK j \in DOMAIN s.tray : s.tray[j].i = i /\ t.tray = RemoveAt(s.tray, j)
    BY <1>1 DEF Sound, Paired
  <2>2. s.tray \in Seq(Children)
    BY StateFields
  <2>3. /\ \A k \in DOMAIN t.tray : \E m \in DOMAIN s.tray : m # j /\ t.tray[k] = s.tray[m]
                                                                 /\ m = (IF k < j THEN k ELSE k + 1)
        /\ \A m \in DOMAIN s.tray : m # j => \E k \in DOMAIN t.tray : t.tray[k] = s.tray[m]
    BY <2>1, <2>2, Removed
  <2>4. \A k \in DOMAIN t.tray : t.tray[k].i \in LiveSet(t)
    BY <1>2, <2>1, <2>3 DEF Sound, Paired
  <2>5. \A l \in LiveSet(t) : \E k \in DOMAIN t.tray : t.tray[k].i = l
    <3> TAKE l \in LiveSet(t)
    <3>1. PICK m \in DOMAIN s.tray : s.tray[m].i = l
      BY <1>2 DEF Sound, Paired
    <3>2. m # j
      BY <1>2, <2>1, <3>1
    <3> QED BY <2>3, <3>1, <3>2
  <2>6. \A k, l \in DOMAIN t.tray : t.tray[k].i = t.tray[l].i => k = l
    <3> TAKE k, l \in DOMAIN t.tray
    <3> HAVE t.tray[k].i = t.tray[l].i
    <3>1. PICK m \in DOMAIN s.tray : t.tray[k] = s.tray[m] /\ m = (IF k < j THEN k ELSE k + 1) /\ m # j
      BY <2>3
    <3>2. PICK n \in DOMAIN s.tray : t.tray[l] = s.tray[n] /\ n = (IF l < j THEN l ELSE l + 1) /\ n # j
      BY <2>3
    <3>3. m = n
      BY <3>1, <3>2 DEF Sound, Paired
    <3>4. k \in Nat /\ l \in Nat /\ j \in Nat
      <4>1. t.tray \in Seq(Children)
        BY <1>1, StateFields
      <4> QED BY <2>2, <4>1
    <3> QED BY <3>1, <3>2, <3>3, <3>4
  <2>7. \A k, l \in LiveSet(t) : t.sni[k].uid = t.sni[l].uid => k = l
    BY <1>2, <1>3 DEF Sound, Paired, LiveSet
  <2> QED BY <2>4, <2>5, <2>6, <2>7 DEF Paired
<1> QED BY <1>4, <1>5, <1>6, <1>7 DEF Sound, t

LEMMA RootCall ==
  ASSUME NEW i \in Nat
  PROVE  \E r \in Calls : r = MenuCall("layout", i, "root") /\ r.k = "layout" /\ r.i = i
<1> DEFINE r == MenuCall("layout", i, "root")
<1>1. r \in MenuCalls
  BY DEF MenuCall, MenuCalls, Nodes
<1>2. r.k = "layout" /\ r.i = i
  BY DEF MenuCall
<1> QED BY <1>1, <1>2 DEF Calls

LEMMA PairedSame ==
  ASSUME NEW s, NEW t, t.sni = s.sni, t.tray = s.tray, Paired(s)
  PROVE  Paired(t) /\ LiveSet(t) = LiveSet(s)
<1>1. LiveSet(t) = LiveSet(s)
  BY Zenon DEF LiveSet
<1>2. \A j \in DOMAIN t.tray : t.tray[j].i \in LiveSet(t)
  BY <1>1 DEF Paired
<1>3. \A i \in LiveSet(t) : \E j \in DOMAIN t.tray : t.tray[j].i = i
  <2> TAKE i \in LiveSet(t)
  <2>1. PICK j \in DOMAIN s.tray : s.tray[j].i = i
    BY <1>1 DEF Paired
  <2> QED BY <2>1
<1>4. \A j, k \in DOMAIN t.tray : t.tray[j].i = t.tray[k].i => j = k
  BY DEF Paired
<1>5. \A i, j \in LiveSet(t) : t.sni[i].uid = t.sni[j].uid => i = j
  BY <1>1 DEF Paired
<1> QED BY <1>1, <1>2, <1>3, <1>4, <1>5 DEF Paired

LEMMA ChangedPaired ==
  ASSUME NEW s \in States, NEW t, NEW i \in DOMAIN s.sni, Changed(s, t, i), Paired(s)
  PROVE  /\ Paired(t) /\ LiveSet(t) = LiveSet(s) /\ t \in States /\ DOMAIN t.sni = DOMAIN s.sni
         /\ \A j \in DOMAIN s.sni : t.sni[j].uid = s.sni[j].uid
<1>1. /\ t \in States /\ DOMAIN t.sni = DOMAIN s.sni /\ DOMAIN t.tray = DOMAIN s.tray
      /\ \A j \in DOMAIN s.sni : t.sni[j].uid = s.sni[j].uid /\ t.sni[j].live = s.sni[j].live
      /\ \A j \in DOMAIN s.tray : t.tray[j].i = s.tray[j].i
  BY DEF Changed
<1>2. LiveSet(t) = LiveSet(s)
  BY <1>1 DEF LiveSet
<1>3. \A j \in DOMAIN t.tray : t.tray[j].i \in LiveSet(t)
  BY <1>1, <1>2 DEF Paired
<1>4. \A l \in LiveSet(t) : \E j \in DOMAIN t.tray : t.tray[j].i = l
  <2> TAKE l \in LiveSet(t)
  <2>1. PICK j \in DOMAIN s.tray : s.tray[j].i = l
    BY <1>2 DEF Paired
  <2> QED BY <1>1, <2>1
<1>5. \A j, k \in DOMAIN t.tray : t.tray[j].i = t.tray[k].i => j = k
  BY <1>1 DEF Paired
<1>6. \A j, k \in LiveSet(t) : t.sni[j].uid = t.sni[k].uid => j = k
  BY <1>1, <1>2 DEF Paired, LiveSet
<1> QED BY <1>1, <1>2, <1>3, <1>4, <1>5, <1>6 DEF Paired

\* A call about an item, and the replies to it expected
LEMMA AsksSound ==
  ASSUME NEW s \in States, NEW t, NEW i \in DOMAIN s.sni, NEW r, Sound(s, alive), Asks(s, t, i, r),
         t.sni[i].ref = s.sni[i].ref + Weight(r, "get", i),
         t.sni[i].menu.rev > 0 => t.sni[i].menu.timed = TRUE
  PROVE  Sound(t, alive)
<1>1. /\ Changed(s, t, i) /\ r \in Calls /\ r.i = i /\ Sent(t, s.box, s.calls, s.sni[i].uid, r)
      /\ \A j \in DOMAIN s.sni : j # i => t.sni[j] = s.sni[j]
  BY DEF Asks, Changed
<1>2. Points(s) /\ Paired(s) /\ Counts(s) /\ Timed(s) /\ Silent(s, alive)
  BY DEF Sound
<1>3. /\ Paired(t) /\ LiveSet(t) = LiveSet(s) /\ t \in States /\ DOMAIN t.sni = DOMAIN s.sni
      /\ \A j \in DOMAIN s.sni : t.sni[j].uid = s.sni[j].uid
  BY <1>1, <1>2, ChangedPaired
<1>4. PICK a \in Apps : a = s.sni[i].uid
  BY ItemFields
<1>5. Points(t) /\ Silent(t, alive)
  BY <1>1, <1>2, <1>3, <1>4, SentPoints
<1>6. Timed(t)
  BY <1>1, <1>2, <1>3 DEF Timed
<1>7. Counts(t)
  <2> SUFFICES ASSUME NEW j \in LiveSet(s) PROVE t.sni[j].ref = InFlight(t, j)
    BY <1>3 DEF Counts
  <2>1. j \in DOMAIN s.sni /\ s.sni[j].ref = InFlight(s, j)
    BY <1>2 DEF Counts, LiveSet
  <2>2. PICK u \in Apps : u = s.sni[j].uid
    BY <2>1, ItemFields
  <2>3. r.i = j => u = a
    BY <1>1, <1>4, <2>2
  <2>4. Flight(t, u, j) = Flight(s, u, j) + Weight(r, "get", j) /\ Flight(s, u, j) \in Nat
    BY <1>1, <1>3, <1>4, <2>3, FlightSent
  <2>5. InFlight(t, j) = Flight(t, u, j) /\ InFlight(s, j) = Flight(s, u, j)
    BY <1>3, <2>1, <2>2 DEF InFlight
  <2>6. CASE j = i
    BY <2>1, <2>4, <2>5, <2>6
  <2>7. CASE j # i
    <3>1. Weight(r, "get", j) = 0
      BY <1>1, <2>7 DEF Weight
    <3> QED BY <1>1, <2>1, <2>4, <2>5, <2>7, <3>1
  <2> QED BY <2>6, <2>7
<1> QED BY <1>3, <1>5, <1>6, <1>7 DEF Sound

\* Another menu of an item
LEMMA MenuSound ==
  ASSUME NEW s \in States, NEW t, NEW i \in DOMAIN s.sni, NEW x, Sound(s, alive), BecomesItem(s, t, i, x),
         x.ref = s.sni[i].ref, x.menu.rev > 0 => x.menu.timed = TRUE
  PROVE  Sound(t, alive)
<1>1. /\ Changed(s, t, i) /\ t.sni[i] = x /\ t.box = s.box /\ t.calls = s.calls
      /\ \A j \in DOMAIN s.sni : j # i => t.sni[j] = s.sni[j]
  BY DEF BecomesItem, Changed
<1>2. Points(s) /\ Paired(s) /\ Counts(s) /\ Timed(s) /\ Silent(s, alive)
  BY DEF Sound
<1>3. /\ Paired(t) /\ LiveSet(t) = LiveSet(s) /\ t \in States /\ DOMAIN t.sni = DOMAIN s.sni
      /\ \A j \in DOMAIN s.sni : t.sni[j].uid = s.sni[j].uid
  BY <1>1, <1>2, ChangedPaired
<1>4. Points(t) /\ Silent(t, alive)
  BY <1>1, <1>2, <1>3 DEF Points, Silent
<1>5. Timed(t)
  BY <1>1, <1>2, <1>3 DEF Timed
<1>6. \A j \in DOMAIN s.sni : t.sni[j].ref = s.sni[j].ref
  BY <1>1
<1>7. Counts(t)
  BY <1>1, <1>2, <1>3, <1>6 DEF Counts, InFlight, Flight, LiveSet
<1> QED BY <1>3, <1>4, <1>5, <1>7 DEF Sound

\* A message that is not a reply about properties is taken.
LEMMA TakenSound ==
  ASSUME Types, NEW k, Incoming(k), k # "prop", Sound(Now, alive)
  PROVE  Sound(Taken, alive)
<1>1. /\ Taken \in States /\ Taken.sni = sni /\ Taken.tray = tray /\ Taken.box = Tail(inbox) /\ Taken.calls = asked
      /\ inbox # <<>> /\ M.k = k /\ M \in Messages
      /\ ToSet(inbox) = {M} \cup ToSet(Tail(inbox))
  BY TakenFields
<1>2. /\ Now \in States /\ Now.sni = sni /\ Now.tray = tray /\ Now.box = inbox /\ Now.calls = asked
  BY NowFields
<1>3. Sends(inbox, Rest, Kinds({"prop"}))
  <2>1. M \notin Kinds({"prop"})
    BY <1>1 DEF Kinds
  <2> QED BY <2>1, TakenSends
<1>4. Sends(Now.box, Taken.box, Kinds({"prop"}))
  BY <1>1, <1>2, <1>3 DEF Rest
<1>5. SameItems(Now, Taken)
  BY <1>1, <1>2 DEF SameItems
<1>6. \A x \in ToSet(Taken.box) : x.k \in {"layout", "about to show"} => x \in ToSet(Now.box)
  BY <1>1, <1>2
<1>7. DOMAIN Taken.tray = DOMAIN Now.tray /\ \A j \in DOMAIN Now.tray : Taken.tray[j].i = Now.tray[j].i
  BY <1>1, <1>2
<1> QED BY <1>1, <1>2, <1>4, <1>5, <1>6, <1>7, FrameSound

\* sni_item_prop_cb
LEMMA StoredSound ==
  ASSUME Types, Incoming("prop"), Sound(Now, alive), NEW i \in LiveSet(Now), NEW t,
         i = M.i, StoredIn(Taken, t, i, M.ps, M.values)
  PROVE  Sound(t, alive)
<1>1. /\ Taken \in States /\ Taken.sni = sni /\ Taken.tray = tray /\ Taken.box = Tail(inbox) /\ Taken.calls = asked
      /\ inbox # <<>> /\ M.k = "prop" /\ M \in Messages
      /\ ToSet(inbox) = {M} \cup ToSet(Tail(inbox))
  BY TakenFields
<1>2. /\ Now \in States /\ Now.sni = sni /\ Now.tray = tray /\ Now.box = inbox /\ Now.calls = asked
  BY NowFields
<1>3. Points(Now) /\ Paired(Now) /\ Counts(Now) /\ Timed(Now) /\ Silent(Now, alive)
  BY DEF Sound
<1>4. Points(Taken) /\ Paired(Taken) /\ Timed(Taken) /\ Silent(Taken, alive) /\ LiveSet(Taken) = LiveSet(Now)
  <2>1. Paired(Taken) /\ LiveSet(Taken) = LiveSet(Now)
    BY <1>1, <1>2, <1>3, PairedSame
  <2>2. \A x \in ToSet(Taken.box) : x.k \in {"prop", "layout", "about to show"} => x.i \in DOMAIN Taken.sni
    BY <1>1, <1>2, <1>3 DEF Points
  <2>3. \A a \in Apps : \A x \in ToSet(Taken.calls[a]) : x.i \in DOMAIN Taken.sni /\ Taken.sni[x.i].uid = a
    BY <1>1, <1>2, <1>3 DEF Points
  <2>4. Timed(Taken)
    BY <1>1, <1>2, <1>3 DEF Timed
  <2>5. Silent(Taken, alive)
    BY <1>1, <1>2, <1>3 DEF Silent
  <2> QED BY <2>1, <2>2, <2>3, <2>4, <2>5 DEF Points
<1>5. i \in DOMAIN Taken.sni
  BY <1>1, <1>2 DEF LiveSet
<1>6. /\ Changed(Taken, t, i) /\ t.sni[i].ref = sni[i].ref - Cardinality(M.ps)
      /\ \A j \in DOMAIN sni : j # i => t.sni[j] = sni[j]
  BY <1>1 DEF StoredIn, Changed
<1>7. /\ Paired(t) /\ LiveSet(t) = LiveSet(Now) /\ t \in States /\ DOMAIN t.sni = DOMAIN sni
      /\ \A j \in DOMAIN sni : t.sni[j].uid = sni[j].uid
  BY <1>1, <1>4, <1>5, <1>6, ChangedPaired
<1>8. PICK a \in Apps : a = sni[i].uid
  BY <1>1, <1>5, SniFields
<1>9. PICK r \in Calls : r = MenuCall("layout", i, "root") /\ r.k = "layout" /\ r.i = i
  <2>1. i \in Nat
    BY <1>1, <1>5, SniFields
  <2> QED BY <2>1, RootCall, Zenon
<1>10. \/ t.box = Taken.box /\ t.calls = Taken.calls
       \/ Sent(t, Taken.box, Taken.calls, a, r)
  <2>1. Taken.sni[i].uid = a
    BY <1>1, <1>8
  <2> QED BY <1>9, <2>1 DEF StoredIn
<1>11. Points(t) /\ Silent(t, alive)
  <2>1. CASE t.box = Taken.box /\ t.calls = Taken.calls
    BY <1>1, <1>4, <1>7, <2>1 DEF Points, Silent
  <2>2. CASE Sent(t, Taken.box, Taken.calls, a, r)
    <3>1. \A j \in DOMAIN Taken.sni : j \in DOMAIN t.sni /\ t.sni[j].uid = Taken.sni[j].uid
      BY <1>1, <1>7
    <3>2. r.i \in DOMAIN t.sni /\ t.sni[r.i].uid = a
      BY <1>1, <1>5, <1>7, <1>8, <1>9
    <3> QED BY <1>1, <1>4, <1>7, <1>9, <2>2, <3>1, <3>2, SentPoints
  <2> QED BY <1>10, <2>1, <2>2
<1>12. Timed(t)
  <2>1. t.sni[i].menu.rev > 0 => t.sni[i].menu.timed = TRUE
    <3>1. NewMenu.rev = 0
      BY DEF NewMenu, NoMenu
    <3>2. t.sni[i].menu = NewMenu \/ t.sni[i].menu = sni[i].menu
      BY <1>1 DEF StoredIn
    <3> QED BY <1>1, <1>4, <1>5, <3>1, <3>2 DEF Timed
  <2> QED BY <1>1, <1>4, <1>6, <1>7, <2>1 DEF Timed
<1>13. Counts(t)
  <2> SUFFICES ASSUME NEW j \in LiveSet(Now) PROVE t.sni[j].ref = InFlight(t, j)
    BY <1>7 DEF Counts
  <2>1. j \in DOMAIN sni /\ sni[j].ref = InFlight(Now, j)
    BY <1>2, <1>3 DEF Counts, LiveSet
  <2>2. PICK u \in Apps : u = sni[j].uid
    BY <2>1, SniFields
  <2>3. Flight(t, u, j) = Flight(Taken, u, j)
    <3>1. CASE t.box = Taken.box /\ t.calls = Taken.calls
      BY <3>1 DEF Flight
    <3>2. CASE Sent(t, Taken.box, Taken.calls, a, r)
      <4>1. r.i = j => u = a
        BY <1>8, <1>9, <2>2
      <4>2. Flight(t, u, j) = Flight(Taken, u, j) + Weight(r, "get", j) /\ Flight(Taken, u, j) \in Nat
        <5>1. r \in Calls /\ Taken \in States /\ t \in States
          BY <1>1, <1>7
        <5> QED BY <3>2, <4>1, <5>1, FlightSent
      <4>3. Weight(r, "get", j) = 0
        BY <1>9 DEF Weight
      <4> QED BY <4>2, <4>3
    <3> QED BY <1>10, <3>1, <3>2
  <2>4. /\ Flight(Now, u, j) = Flight(Taken, u, j) + Weight(M, "prop", j)
        /\ Flight(Now, u, j) \in Nat /\ Flight(Taken, u, j) \in Nat /\ Weight(M, "prop", j) \in Nat
    BY FlightTaken
  <2>5. InFlight(t, j) = Flight(t, u, j) /\ InFlight(Now, j) = Flight(Now, u, j)
    BY <1>2, <1>7, <2>1, <2>2 DEF InFlight
  <2>6. CASE j = i
    <3>1. Weight(M, "prop", j) = Cardinality(M.ps)
      BY <1>1, <2>6 DEF Weight
    <3> QED BY <1>6, <2>1, <2>3, <2>4, <2>5, <2>6, <3>1
  <2>7. CASE j # i
    <3>1. Weight(M, "prop", j) = 0
      BY <2>7 DEF Weight
    <3>2. t.sni[j] = sni[j]
      BY <1>6, <2>1, <2>7
    <3> QED BY <2>1, <2>3, <2>4, <2>5, <3>1, <3>2
  <2> QED BY <2>6, <2>7
<1> QED BY <1>7, <1>11, <1>12, <1>13 DEF Sound

\* The failed calls and the answers of an application
Answered(s, t, a, f) ==
  /\ t.sni = s.sni /\ t.tray = s.tray /\ t.calls = [s.calls EXCEPT ![a] = <<>>] /\ t.box = s.box \o f
  /\ \A x \in ToSet(f) : x.k \in {"prop", "layout", "about to show"} => \E r \in ToSet(s.calls[a]) : x.i = r.i
  /\ \A i : Counted(f, "prop", i) = Counted(s.calls[a], "get", i)

LEMMA CountedEmpty == ASSUME NEW i PROVE Counted(<<>>, "get", i) = 0
<1>1. <<>> \in Seq(Calls)
  OBVIOUS
<1>2. \A x \in ToSet(<<>>) : ~(x.k = "get" /\ x.i = i)
  BY InNone
<1> QED BY <1>1, <1>2, CountedNone, MessagesSized, Zenon

LEMMA AnsweredSound ==
  ASSUME NEW s \in States, NEW t \in States, NEW a \in Apps, NEW f \in Seq(Messages), NEW up, NEW down,
         Sound(s, up), Answered(s, t, a, f), up \subseteq down \cup {a}
  PROVE  Sound(t, down)
<1>1. s.box \in Seq(Messages) /\ s.calls \in [Apps -> Seq(Calls)]
  BY StateFields
<1>2. t.calls[a] = <<>> /\ \A b \in Apps : b # a => t.calls[b] = s.calls[b]
  BY <1>1 DEF Answered
<1>3. ToSet(t.box) = ToSet(s.box) \cup ToSet(f)
  <2>1. ToSet(s.box \o f) = ToSet(s.box) \cup ToSet(f)
    BY <1>1, InConcat, Zenon
  <2> QED BY <2>1, Zenon DEF Answered
<1>4. /\ Points(s) /\ Paired(s) /\ Counts(s) /\ Timed(s) /\ Silent(s, up)
      /\ t.sni = s.sni /\ t.tray = s.tray
  BY Zenon DEF Sound, Answered
<1>a. \A x \in ToSet(f) : x.k \in {"prop", "layout", "about to show"} => \E r \in ToSet(s.calls[a]) : x.i = r.i
  BY Zenon DEF Answered
<1>5. Points(t)
  <2>1. \A x \in ToSet(t.box) : x.k \in {"prop", "layout", "about to show"} => x.i \in DOMAIN t.sni
    BY <1>3, <1>4, <1>a DEF Points
  <2>2. \A b \in Apps : \A x \in ToSet(t.calls[b]) : x.i \in DOMAIN t.sni /\ t.sni[x.i].uid = b
    <3> TAKE b \in Apps
    <3>1. CASE b = a
      BY <1>2, <3>1, InNone
    <3>2. CASE b # a
      BY <1>2, <1>4, <3>2 DEF Points
    <3> QED BY <3>1, <3>2
  <2> QED BY <2>1, <2>2 DEF Points
<1>6. Paired(t) /\ Timed(t) /\ LiveSet(t) = LiveSet(s)
  <2>1. Paired(t) /\ LiveSet(t) = LiveSet(s)
    BY <1>4, PairedSame
  <2> QED BY <1>4, <2>1 DEF Timed
<1>7. Silent(t, down)
  <2> SUFFICES ASSUME NEW b \in Apps, b \notin down PROVE t.calls[b] = <<>>
    BY DEF Silent
  <2>1. CASE b = a
    BY <1>2, <2>1
  <2>2. CASE b # a
    BY <1>2, <1>4, <2>2 DEF Silent
  <2> QED BY <2>1, <2>2
<1>8. Counts(t)
  <2> SUFFICES ASSUME NEW i \in LiveSet(s) PROVE t.sni[i].ref = InFlight(t, i)
    BY <1>6 DEF Counts
  <2>1. i \in DOMAIN s.sni /\ s.sni[i].ref = InFlight(s, i)
    BY <1>4 DEF Counts, LiveSet
  <2>2. PICK u \in Apps : u = s.sni[i].uid
    BY <2>1, ItemFields
  <2>3. InFlight(t, i) = Flight(t, u, i) /\ InFlight(s, i) = Flight(s, u, i)
    BY <1>4, <2>2 DEF InFlight
  <2>4. Counted(t.box, "prop", i) = Counted(s.box, "prop", i) + Counted(s.calls[a], "get", i)
    <3>1. Counted(s.box \o f, "prop", i) = Counted(s.box, "prop", i) + Counted(f, "prop", i)
      BY <1>1, CountedConcat, MessagesSized
    <3>2. t.box = s.box \o f /\ Counted(f, "prop", i) = Counted(s.calls[a], "get", i)
      BY Zenon DEF Answered
    <3> QED BY <3>1, <3>2
  <2>5. Counted(s.box, "prop", i) \in Nat /\ Counted(s.calls[u], "get", i) \in Nat /\ Counted(s.calls[a], "get", i) \in Nat
    BY FlightNat
  <2>6. CASE u = a
    <3>1. Counted(t.calls[u], "get", i) = 0
      <4>1. Counted(<<>>, "get", i) = 0
        BY CountedEmpty
      <4> QED BY <1>2, <2>6, <4>1, Zenon
    <3>2. Flight(t, u, i) = Flight(s, u, i)
      BY <2>4, <2>5, <2>6, <3>1 DEF Flight
    <3> QED BY <1>4, <2>1, <2>3, <3>2
  <2>7. CASE u # a
    <3>1. Counted(s.calls[a], "get", i) = 0
      <4>1. s.calls[a] \in Seq(Calls)
        BY <1>1
      <4>2. \A x \in ToSet(s.calls[a]) : s.sni[x.i].uid = a
        BY <1>4 DEF Points
      <4>3. \A x \in ToSet(s.calls[a]) : ~(x.k = "get" /\ x.i = i)
        BY <2>2, <2>7, <4>2
      <4> QED BY <4>1, <4>3, CountedNone, MessagesSized, Zenon
    <3>2. t.calls[u] = s.calls[u]
      BY <1>2, <2>7
    <3>3. Flight(t, u, i) = Flight(s, u, i)
      BY <2>4, <2>5, <3>1, <3>2 DEF Flight
    <3> QED BY <1>4, <2>1, <2>3, <3>3
  <2> QED BY <2>6, <2>7
<1> QED BY <1>5, <1>6, <1>7, <1>8 DEF Sound

----------------------------------------------------------------------------
(* Each step keeps the state sound *)

Base == Types /\ Sound(Now, alive)

NowAre(s, a, b, c, d, e) ==
  s \in States /\ s.sni = a /\ s.tray = b /\ s.invalid = c /\ s.box = d /\ s.calls = e

LEMMA NowMade ==
  ASSUME NEW a \in Seq(ItemSet), NEW b \in Seq(Children), NEW c \in BOOLEAN, NEW d \in Seq(Messages),
         NEW e \in [Apps -> Seq(Calls)]
  PROVE  NowAre([sni |-> a, tray |-> b, invalid |-> c, box |-> d, calls |-> e], a, b, c, d, e)
BY DEF NowAre, States

LEMMA NowNext ==
  ASSUME Types, ItemsStay, inbox' \in Seq(Messages), asked' \in [Apps -> Seq(Calls)]
  PROVE  NowAre(Now', sni, tray, invalid, inbox', asked')
<1>1. sni \in Seq(ItemSet) /\ tray \in Seq(Children) /\ invalid \in BOOLEAN
  BY NowFields
<1>2. Now' = [sni |-> sni', tray |-> tray', invalid |-> invalid', box |-> inbox', calls |-> asked']
  BY DEF Now, Items
<1>3. Now' = [sni |-> sni, tray |-> tray, invalid |-> invalid, box |-> inbox', calls |-> asked']
  BY <1>2, Zenon DEF ItemsStay
<1>4. NowAre([sni |-> sni, tray |-> tray, invalid |-> invalid, box |-> inbox', calls |-> asked'],
             sni, tray, invalid, inbox', asked')
  BY <1>1, NowMade, Zenon
<1> QED BY <1>3, <1>4, Zenon

TheBus == <<regid, watched, subs, owner, queued, epoch, other, theirs, alive, reg, prop, layout, changes, missed>>

\* The steps of the bar's items leave the bus alone.
LEMMA Rest0 ==
  ASSUME Types,
         \/ HostList \/ HostItemRegistered \/ HostItemUnregistered \/ ItemProp \/ ItemSignal
         \/ MenuLayoutUpdated \/ MenuLayout \/ MenuAboutToShow \/ TrayUpdate
         \/ \E i \in DOMAIN sni : SuppressionEnds(i)
  PROVE  TheBus' = TheBus
<1>1. Untouched /\ UNCHANGED <<regid, watched, subs>>
  BY DEF HostList, HostItemRegistered, HostItemUnregistered, ItemProp, ItemSignal,
         MenuLayoutUpdated, MenuLayout, MenuAboutToShow, TrayUpdate, SuppressionEnds
<1> QED BY <1>1 DEF Untouched, busVars, TheBus

LEMMA BusSame == ASSUME BusTypes, TheBus' = TheBus PROVE BusTypes' /\ alive' = alive
BY DEF BusTypes, TheBus

LEMMA WatchesBus ==
  ASSUME Types, Watches
  PROVE  BusTypes'
<1>0. BusTypes /\ \A k : Incoming(k) => M.k = k /\ M \in Messages
  BY TakenFields DEF Types
<1>a. \A k \in {"register", "gone"} : Incoming(k) => M.a \in Apps
  BY HeadIs
<1>1. CASE WatcherVanished
  <2>1. UNCHANGED <<other, theirs, reg, prop, layout, alive, changes, missed, watched, subs>> /\ regid' = TRUE
        /\ owner' \in {owner, Bar} /\ epoch' \in {epoch, epoch + 1}
    BY <1>1 DEF WatcherVanished
  <2>2. queued' \in BOOLEAN
    <3>1. CASE owner = Nobody
      BY <1>0, <1>1, <3>1 DEF WatcherVanished, BusTypes
    <3>2. CASE owner # Nobody
      <4>1. queued' = (queued \/ owner = Other)
        BY <1>1, <3>2 DEF WatcherVanished
      <4> QED BY <4>1, Zenon
    <3> QED BY <3>1, <3>2
  <2> QED BY <1>0, <2>1, <2>2 DEF BusTypes
<1>2. CASE NameLost
  BY <1>0, <1>2 DEF NameLost, Untouched, busVars, BusTypes
<1>3. CASE WatcherAppeared
  <2>1. subs' = subs + 1 /\ UNCHANGED <<regid, watched>> /\ Untouched
    BY <1>3 DEF WatcherAppeared
  <2> QED BY <1>0, <2>1 DEF Untouched, busVars, BusTypes
<1>4. CASE Registers
  <2>1. M.a \in Apps
    BY <1>a, <1>4 DEF Registers
  <2>2. watched' \in {watched, watched \cup {M.a}} /\ UNCHANGED <<regid, subs>> /\ Untouched
    BY <1>4 DEF Registers
  <2> QED BY <1>0, <2>1, <2>2 DEF Untouched, busVars, BusTypes
<1>5. CASE GetsList
  BY <1>0, <1>5 DEF GetsList, Untouched, busVars, BusTypes
<1>6. CASE ItemGone
  <2>2. watched' = watched \ {M.a} /\ UNCHANGED <<regid, subs>> /\ Untouched
    BY <1>6 DEF ItemGone
  <2> QED BY <1>0, <2>2 DEF Untouched, busVars, BusTypes
<1>7. ASSUME NEW a \in Apps, AppRegisters(a) PROVE BusTypes'
  <2>1. /\ reg' = [reg EXCEPT ![a] = epoch] /\ theirs' \in {theirs, theirs \cup {a}}
        /\ UNCHANGED <<owner, queued, epoch, other, alive, prop, layout, changes, missed, asked>>
        /\ UNCHANGED barVars
    BY <1>7 DEF AppRegisters
  <2>2. reg' \in [Apps -> Nat]
    BY <1>0, <2>1 DEF BusTypes
  <2> QED BY <1>0, <2>1, <2>2 DEF barVars, BusTypes
<1>8. CASE OtherClaims
  BY <1>0, <1>8 DEF OtherClaims, barVars, BusTypes
<1>9. CASE OtherQuits
  <2>1. /\ other' = "gone" /\ theirs' = {} /\ owner' \in {Bar, Nobody} /\ epoch' \in {epoch, epoch + 1}
        /\ UNCHANGED <<alive, reg, prop, layout, changes, missed, asked>>
        /\ UNCHANGED barVars
    BY <1>9 DEF OtherQuits
  <2>2. queued' \in BOOLEAN
    <3>1. CASE queued
      BY <1>9, <3>1 DEF OtherQuits
    <3>2. CASE ~queued
      <4>1. queued' = queued
        BY <1>9, <3>2 DEF OtherQuits
      <4> QED BY <1>0, <4>1 DEF BusTypes
    <3> QED BY <3>1, <3>2
  <2>3. owner' \in {Bar, Other, Nobody} /\ epoch' \in Nat
    BY <1>0, <2>1 DEF BusTypes
  <2> QED BY <1>0, <2>1, <2>2, <2>3 DEF barVars, BusTypes
<1> QED BY <1>1, <1>2, <1>3, <1>4, <1>5, <1>6, <1>7, <1>8, <1>9 DEF Watches

\* The watch of names and registrations
LEMMA WatchesBase ==
  ASSUME Base, Watches
  PROVE  Base'
<1>1. Types /\ Sound(Now, alive)
  BY DEF Base
<1>2. ItemsStay /\ asked' = asked /\ alive' = alive /\ Sends(inbox, inbox', ItemKinds)
  BY <1>1, WatchesFrame DEF ItemsSame
<1>3. inbox' \in Seq(Messages) /\ asked' \in [Apps -> Seq(Calls)] /\ inbox \in Seq(Messages)
  BY <1>1, <1>2, NowFields, SendsIn
<1>4. NowAre(Now', sni, tray, invalid, inbox', asked)
  BY <1>1, <1>2, <1>3, NowNext
<1>5. Kinds({"prop"}) \in SUBSET ItemKinds
  BY DEF Kinds, ItemKinds
<1>6. Sends(inbox, inbox', Kinds({"prop"}))
  BY <1>2, <1>3, <1>5, SendsFewer
<1>7. PICK t \in States : t = Now' /\ NowAre(t, sni, tray, invalid, inbox', asked)
  BY <1>4 DEF NowAre
<1>8. NowAre(Now, sni, tray, invalid, inbox, asked)
  BY <1>1, NowFields DEF NowAre
<1>9. Sound(t, alive)
  <2>1. \A x \in ToSet(inbox') : x.k \in {"layout", "about to show"} => x \in ToSet(inbox)
    <3>1. \A x \in ToSet(inbox') : x.k \in {"layout", "about to show"} => x \in ItemKinds
      BY <1>3, InType DEF ItemKinds, Kinds
    <3>2. \A x \in ItemKinds : x \in ToSet(inbox') <=> x \in ToSet(inbox)
      BY <1>2, <1>3, SendsIn
    <3> QED BY <3>1, <3>2
  <2>2. t.sni = sni /\ t.calls = asked /\ t.tray = tray /\ t.box = inbox'
    BY <1>7 DEF NowAre
  <2>3. Now \in States /\ Now.sni = sni /\ Now.calls = asked /\ Now.tray = tray /\ Now.box = inbox
    BY <1>8 DEF NowAre
  <2>4. SameItems(Now, t)
    BY <2>2, <2>3 DEF SameItems
  <2> QED BY <1>1, <1>6, <2>1, <2>2, <2>3, <2>4, FrameSound
<1>10. BusTypes'
  BY <1>1, WatchesBus
<1>11. (Sound(Now, alive))'
  BY <1>2, <1>7, <1>9
<1> QED BY <1>7, <1>10, <1>11 DEF Base, Types

\* A reply that comes too late
LEMMA LateSound ==
  ASSUME Types, Incoming("prop"), Sound(Now, alive), M.i \notin LiveSet(Now)
  PROVE  Sound(Taken, alive)
<1>1. /\ Taken \in States /\ Taken.sni = sni /\ Taken.tray = tray /\ Taken.box = Tail(inbox) /\ Taken.calls = asked
      /\ inbox # <<>> /\ M.k = "prop" /\ M \in Messages
      /\ ToSet(inbox) = {M} \cup ToSet(Tail(inbox))
  BY TakenFields
<1>2. /\ Now \in States /\ Now.sni = sni /\ Now.tray = tray /\ Now.box = inbox /\ Now.calls = asked
  BY NowFields
<1>3. Points(Now) /\ Paired(Now) /\ Counts(Now) /\ Timed(Now) /\ Silent(Now, alive)
  BY DEF Sound
<1>4. Paired(Taken) /\ LiveSet(Taken) = LiveSet(Now)
  BY <1>1, <1>2, <1>3, PairedSame
<1>5. \A x \in ToSet(Taken.box) : x.k \in {"prop", "layout", "about to show"} => x.i \in DOMAIN Taken.sni
  BY <1>1, <1>2, <1>3 DEF Points
<1>6. \A a \in Apps : \A x \in ToSet(Taken.calls[a]) : x.i \in DOMAIN Taken.sni /\ Taken.sni[x.i].uid = a
  BY <1>1, <1>2, <1>3 DEF Points
<1>7. Timed(Taken)
  BY <1>1, <1>2, <1>3 DEF Timed
<1>8. Silent(Taken, alive)
  BY <1>1, <1>2, <1>3 DEF Silent
<1>9. Counts(Taken)
  <2> SUFFICES ASSUME NEW j \in LiveSet(Now) PROVE Taken.sni[j].ref = InFlight(Taken, j)
    BY <1>4 DEF Counts
  <2>1. j \in DOMAIN sni /\ sni[j].ref = InFlight(Now, j)
    BY <1>2, <1>3 DEF Counts, LiveSet
  <2>2. PICK u \in Apps : u = sni[j].uid
    BY <2>1, SniFields
  <2>3. Flight(Now, u, j) = Flight(Taken, u, j) + Weight(M, "prop", j) /\ Flight(Taken, u, j) \in Nat
    BY FlightTaken
  <2>4. Weight(M, "prop", j) = 0
    BY DEF Weight
  <2> QED BY <1>1, <1>2, <2>1, <2>2, <2>3, <2>4 DEF InFlight
<1> QED BY <1>4, <1>5, <1>6, <1>7, <1>8, <1>9 DEF Sound, Points

\* sni_host_list_cb, by what every new item keeps
LEMMA NewsSound ==
  ASSUME NEW s \in States, NEW e \in Seq(Apps), Sound(s, alive)
  PROVE  Sound(News(s, e), alive)
<1> DEFINE G == {t \in States : Sound(t, alive)}
<1>1. \A t \in G, a \in ToSet(e) : ItemNew(t, a) \in G
  <2> TAKE t \in G, a \in ToSet(e)
  <2>1. a \in Apps
    BY InType
  <2> QED BY <2>1, NewIn, NewSound
<1>2. s \in G /\ G \in SUBSET States
  OBVIOUS
<1> HIDE DEF G
<1>3. News(s, e) \in G
  BY <1>1, <1>2, NewsKeep
<1> QED BY <1>3 DEF G

\* The bar's items
ItemSteps ==
  \/ HostList \/ HostItemRegistered \/ HostItemUnregistered \/ ItemProp \/ ItemSignal
  \/ MenuLayoutUpdated \/ MenuLayout \/ MenuAboutToShow \/ TrayUpdate
  \/ \E i \in DOMAIN sni : SuppressionEnds(i) \/ \E node \in {"root", "sub"} : UserOpens(i, node)

LEMMA ItemStepsSound ==
  ASSUME Base, ItemSteps
  PROVE  Now' \in States /\ Sound(Now', alive)
<1>1. Types /\ Sound(Now, alive) /\ Points(Now) /\ Paired(Now) /\ Timed(Now)
  BY DEF Base, Sound
<1>2. /\ Now \in States /\ Now.sni = sni /\ Now.tray = tray /\ Now.invalid = invalid /\ Now.box = inbox
      /\ Now.calls = asked
  BY <1>1, NowFields
<1>3. \A k : Incoming(k) =>
        /\ Taken \in States /\ Taken.sni = sni /\ Taken.tray = tray /\ Taken.box = Tail(inbox) /\ M.k = k
        /\ k # "prop" => Sound(Taken, alive)
  BY <1>1, TakenFields, TakenSound
<1>4. \A i \in LiveSet(Now) : i \in DOMAIN sni /\ sni[i] \in ItemSet /\ sni[i].menu \in MenuSet /\ i \in Nat
                             /\ sni[i].ref \in Int /\ (sni[i].menu.rev > 0 => sni[i].menu.timed = TRUE)
  <2>1. \A i \in LiveSet(Now) : i \in DOMAIN sni
    BY <1>2 DEF LiveSet
  <2>2. \A i \in DOMAIN sni : sni[i].menu.rev > 0 => sni[i].menu.timed = TRUE
    BY <1>1, <1>2 DEF Timed
  <2> QED BY <1>1, <2>1, <2>2, SniFields
<1>5. CASE HostList
  <2>1. /\ Now' = News(Taken, SetToSeq(M.uids)) /\ Now' \in States /\ SetToSeq(M.uids) \in Seq(Apps)
    BY <1>1, <1>5, ListDoes
  <2>i. Incoming("list") /\ "list" # "prop"
    BY <1>5, Zenon DEF HostList
  <2>2. Taken \in States /\ Sound(Taken, alive)
    BY <1>3, <2>i
  <2> QED BY <2>1, <2>2, NewsSound
<1>6. CASE HostItemRegistered
  <2>1. M.a \in Apps /\ Now' = ItemNew(Taken, M.a) /\ Now' \in States
    BY <1>1, <1>6, RegisteredDoes
  <2>i. Incoming("registered") /\ "registered" # "prop"
    BY <1>6, Zenon DEF HostItemRegistered
  <2>2. Taken \in States /\ Sound(Taken, alive)
    BY <1>3, <2>i
  <2> QED BY <2>1, <2>2, NewSound
<1>7. CASE HostItemUnregistered
  <2>1. /\ M.a \in Apps /\ Now' \in States
        /\ Now' = Taken \/ \E i \in LiveSet(Now) : sni[i].uid = M.a /\ Now' = ItemFree(Taken, i)
    BY <1>1, <1>7, UnregisteredDoes
  <2>i. Incoming("unregistered") /\ "unregistered" # "prop"
    BY <1>7, Zenon DEF HostItemUnregistered
  <2>2. Taken \in States /\ Sound(Taken, alive) /\ Taken.sni = sni
    BY <1>3, <2>i
  <2>3. LiveSet(Taken) = LiveSet(Now)
    BY <1>2, <2>2 DEF LiveSet
  <2>4. CASE Now' = Taken
    BY <2>1, <2>2, <2>4
  <2>5. ASSUME NEW i \in LiveSet(Now), Now' = ItemFree(Taken, i) PROVE Sound(Now', alive)
    <3>1. Sound(ItemFree(Taken, i), alive)
      BY <2>2, <2>3, FreedSound
    <3> QED BY <2>5, <3>1
  <2> QED BY <2>1, <2>4, <2>5
<1>8. CASE ItemProp
  <2>1. /\ Now' \in States /\ M.values \in Answers
        /\ \/ Now' = Taken /\ M.i \notin LiveSet(Now)
           \/ M.i \in LiveSet(Now) /\ StoredIn(Taken, Now', M.i, M.ps, M.values)
    BY <1>1, <1>8, PropDoes
  <2>2. Incoming("prop")
    BY <1>8 DEF ItemProp
  <2>3. CASE M.i \in LiveSet(Now) /\ StoredIn(Taken, Now', M.i, M.ps, M.values)
    BY <1>1, <2>1, <2>2, <2>3, StoredSound
  <2>4. CASE Now' = Taken /\ M.i \notin LiveSet(Now)
    BY <1>1, <2>1, <2>2, <2>4, LateSound
  <2> QED BY <2>1, <2>3, <2>4
<1>9. CASE ItemSignal
  <2>1. /\ M.s \in Signals /\ Now' \in States
        /\ \/ Now' = Taken
           \/ \E i \in LiveSet(Now) :
                /\ Asks(Taken, Now', i, Get(i, PropsOf(M.s)))
                /\ Now'.sni[i] = [sni[i] EXCEPT !.ref = @ + Cardinality(PropsOf(M.s))]
    BY <1>1, <1>9, SignalDoes
  <2>i. Incoming("signal") /\ "signal" # "prop"
    BY <1>9, Zenon DEF ItemSignal
  <2>2. Taken \in States /\ Sound(Taken, alive) /\ Taken.sni = sni
    BY <1>3, <2>i
  <2>3. CASE Now' = Taken
    BY <2>1, <2>2, <2>3
  <2>4. ASSUME NEW i \in LiveSet(Now), Asks(Taken, Now', i, Get(i, PropsOf(M.s))),
               Now'.sni[i] = [sni[i] EXCEPT !.ref = @ + Cardinality(PropsOf(M.s))]
        PROVE  Sound(Now', alive)
    <3>1. PropsOf(M.s) \in SUBSET Props /\ Cardinality(PropsOf(M.s)) \in Nat
      BY <2>1, PropsOfIn
    <3>2. /\ i \in DOMAIN sni /\ sni[i] \in ItemSet /\ i \in Nat
          /\ (sni[i].menu.rev > 0 => sni[i].menu.timed = TRUE)
      BY <1>4
    <3>3. Now'.sni[i].ref = sni[i].ref + Cardinality(PropsOf(M.s)) /\ Now'.sni[i].menu = sni[i].menu
      BY <2>4, <3>1, <3>2 DEF ItemSet
    <3>4. Weight(Get(i, PropsOf(M.s)), "get", i) = Cardinality(PropsOf(M.s))
      BY DEF Weight, Get
    <3>5. Now'.sni[i].ref = Taken.sni[i].ref + Weight(Get(i, PropsOf(M.s)), "get", i)
      BY <2>2, <3>3, <3>4
    <3>6. Now'.sni[i].menu.rev > 0 => Now'.sni[i].menu.timed = TRUE
      BY <3>2, <3>3
    <3>7. Sound(Taken, alive) /\ Taken \in States /\ i \in DOMAIN Taken.sni
      BY <2>2, <3>2
    <3>t. PICK t \in States : t = Now'
      BY <2>1
    <3>r. PICK r : r = Get(i, PropsOf(M.s))
      OBVIOUS
    <3>8. /\ t.sni[i].ref = Taken.sni[i].ref + Weight(r, "get", i)
          /\ (t.sni[i].menu.rev > 0 => t.sni[i].menu.timed = TRUE) /\ Asks(Taken, t, i, r)
      BY <2>4, <3>5, <3>6, <3>t, <3>r
    <3>9. Sound(t, alive)
      BY <3>7, <3>8, AsksSound
    <3> QED BY <3>9, <3>t
  <2> QED BY <2>1, <2>3, <2>4
<1>10. CASE MenuLayoutUpdated
  <2>1. /\ Now' \in States
        /\ \/ Now' = Taken
           \/ \E i \in LiveSet(Now) :
                /\ Asks(Taken, Now', i, MenuCall("layout", i, "root"))
                /\ Now'.sni[i] = [sni[i] EXCEPT !.menu = Suppressed(@)]
    BY <1>1, <1>10, UpdatedDoes
  <2>i. Incoming("layout updated") /\ "layout updated" # "prop"
    BY <1>10, Zenon DEF MenuLayoutUpdated
  <2>2. Taken \in States /\ Sound(Taken, alive) /\ Taken.sni = sni
    BY <1>3, <2>i
  <2>3. CASE Now' = Taken
    BY <2>1, <2>2, <2>3
  <2>4. ASSUME NEW i \in LiveSet(Now), Asks(Taken, Now', i, MenuCall("layout", i, "root")),
               Now'.sni[i] = [sni[i] EXCEPT !.menu = Suppressed(@)]
        PROVE  Sound(Now', alive)
    <3>2. /\ i \in DOMAIN sni /\ sni[i] \in ItemSet /\ i \in Nat /\ sni[i].menu \in MenuSet /\ sni[i].ref \in Int
          /\ (sni[i].menu.rev > 0 => sni[i].menu.timed = TRUE)
      BY <1>4
    <3>3. Now'.sni[i].ref = sni[i].ref /\ Now'.sni[i].menu = Suppressed(sni[i].menu)
      BY <2>4, <3>2 DEF ItemSet
    <3>4. Weight(MenuCall("layout", i, "root"), "get", i) = 0
      BY DEF Weight, MenuCall
    <3>5. Now'.sni[i].ref = Taken.sni[i].ref + Weight(MenuCall("layout", i, "root"), "get", i)
      BY <2>2, <3>2, <3>3, <3>4
    <3>6. Now'.sni[i].menu.rev > 0 => Now'.sni[i].menu.timed = TRUE
      BY <3>2, <3>3 DEF Suppressed, MenuSet
    <3> QED BY <2>2, <2>4, <3>2, <3>5, <3>6, AsksSound
  <2> QED BY <2>1, <2>3, <2>4
<1>11. CASE MenuLayout
  <2>1. /\ M.node \in Nodes /\ M.layout \in MenuLayouts /\ Now' \in States
        /\ \/ Now' = Taken
           \/ /\ M.i \in LiveSet(Now)
              /\ BecomesItem(Taken, Now', M.i, [sni[M.i] EXCEPT !.menu = ApplyLayout(@, M.node, M.layout)])
    BY <1>1, <1>11, LayoutDoes
  <2>i. Incoming("layout") /\ "layout" # "prop"
    BY <1>11, Zenon DEF MenuLayout
  <2>2. Taken \in States /\ Sound(Taken, alive) /\ Taken.sni = sni
    BY <1>3, <2>i
  <2>3. CASE Now' = Taken
    BY <2>1, <2>2, <2>3
  <2>4. CASE /\ M.i \in LiveSet(Now)
             /\ BecomesItem(Taken, Now', M.i, [sni[M.i] EXCEPT !.menu = ApplyLayout(@, M.node, M.layout)])
    <3> DEFINE x == [sni[M.i] EXCEPT !.menu = ApplyLayout(@, M.node, M.layout)]
    <3>1. M.i \in DOMAIN sni /\ sni[M.i] \in ItemSet /\ sni[M.i].menu \in MenuSet
      BY <1>4, <2>4
    <3>2. x.ref = sni[M.i].ref /\ x.menu = ApplyLayout(sni[M.i].menu, M.node, M.layout)
      BY <3>1 DEF ItemSet
    <3>3. ApplyLayout(sni[M.i].menu, M.node, M.layout).timed = TRUE
      BY <3>1 DEF ApplyLayout, MenuSet
    <3>4. BecomesItem(Taken, Now', M.i, x)
      BY <2>4
    <3> HIDE DEF x
    <3>5. x.ref = Taken.sni[M.i].ref /\ (x.menu.rev > 0 => x.menu.timed = TRUE) /\ M.i \in DOMAIN Taken.sni
      BY <2>2, <3>1, <3>2, <3>3
    <3>6. Sound(Now', alive)
      BY <2>2, <3>4, <3>5, MenuSound
    <3> QED BY <2>1, <3>6
  <2> QED BY <2>1, <2>3, <2>4
<1>12. CASE MenuAboutToShow
  <2>1. /\ M.i \in DOMAIN sni /\ Now' \in States
        /\ \/ Now' = Taken
           \/ Now'.sni = sni /\ Asks(Taken, Now', M.i, MenuCall("layout", M.i, M.node))
    BY <1>1, <1>12, ShowDoes
  <2>i. Incoming("about to show") /\ "about to show" # "prop"
    BY <1>12, Zenon DEF MenuAboutToShow
  <2>2. Taken \in States /\ Sound(Taken, alive) /\ Taken.sni = sni
    BY <1>3, <2>i
  <2>3. CASE Now' = Taken
    BY <2>1, <2>2, <2>3
  <2>4. CASE Now'.sni = sni /\ Asks(Taken, Now', M.i, MenuCall("layout", M.i, M.node))
    <3>1. Weight(MenuCall("layout", M.i, M.node), "get", M.i) = 0
      BY DEF Weight, MenuCall
    <3>2. sni[M.i].ref \in Int /\ (sni[M.i].menu.rev > 0 => sni[M.i].menu.timed = TRUE)
      BY <1>1, <1>2, <2>1, SniFields DEF Timed
    <3>t. PICK t \in States : t = Now'
      BY <2>1
    <3>i. PICK i \in DOMAIN sni : i = M.i
      BY <2>1
    <3>r. PICK r : r = MenuCall("layout", M.i, M.node)
      OBVIOUS
    <3>3. t.sni = sni /\ t.sni[i].ref = Taken.sni[i].ref + Weight(r, "get", i)
      BY <2>2, <2>4, <3>1, <3>2, <3>t, <3>i, <3>r
    <3>4. i \in DOMAIN Taken.sni /\ Asks(Taken, t, i, r) /\ (t.sni[i].menu.rev > 0 => t.sni[i].menu.timed = TRUE)
      BY <2>2, <2>4, <3>2, <3>3, <3>t, <3>i, <3>r
    <3>5. Sound(t, alive)
      BY <2>2, <3>3, <3>4, AsksSound
    <3> QED BY <2>1, <3>5, <3>t
  <2> QED BY <2>1, <2>3, <2>4
<1>13. CASE TrayUpdate
  <2>1. \A j \in DOMAIN tray : tray[j].i \in DOMAIN sni
    BY <1>1, <1>2 DEF Paired, LiveSet
  <2>2. /\ Now' \in States /\ Now'.sni = sni /\ Now'.box = inbox /\ Now'.calls = asked
        /\ DOMAIN Now'.tray = DOMAIN tray /\ \A j \in DOMAIN tray : Now'.tray[j].i = tray[j].i
    BY <1>1, <1>13, <2>1, UpdateDoes
  <2>3. Sends(inbox, inbox, Kinds({"prop"}))
    BY <1>1, NowFields, SendsSame
  <2>4. SameItems(Now, Now')
    BY <1>2, <2>2 DEF SameItems
  <2> QED BY <1>1, <1>2, <2>2, <2>3, <2>4, FrameSound
<1>14. ASSUME NEW i \in DOMAIN sni, SuppressionEnds(i) PROVE Now' \in States /\ Sound(Now', alive)
  <2> DEFINE x == [sni[i] EXCEPT !.menu = SuppressionOver(@)]
  <2>1. Now' \in States /\ BecomesItem(Now, Now', i, x)
    BY <1>1, <1>14, SuppressionDoes
  <2>2. sni[i] \in ItemSet /\ sni[i].menu \in MenuSet /\ (sni[i].menu.rev > 0 => sni[i].menu.timed = TRUE)
    BY <1>1, <1>2, SniFields DEF Timed
  <2>3. x.ref = sni[i].ref /\ x.menu = SuppressionOver(sni[i].menu)
    BY <2>2 DEF ItemSet
  <2>4. x.menu.rev > 0 => x.menu.timed = TRUE
    BY <2>2, <2>3 DEF SuppressionOver, MenuSet
  <2> HIDE DEF x
  <2> QED BY <1>1, <1>2, <2>1, <2>3, <2>4, MenuSound
<1>15. ASSUME NEW i \in DOMAIN sni, NEW node \in Nodes, UserOpens(i, node)
       PROVE  Now' \in States /\ Sound(Now', alive)
  <2>1. Now' \in States /\ Now'.sni = sni /\ Asks(Now, Now', i, MenuCall("about to show", i, node))
    BY <1>1, <1>15, OpensDoes
  <2>2. Weight(MenuCall("about to show", i, node), "get", i) = 0
    BY DEF Weight, MenuCall
  <2>3. sni[i].ref \in Int /\ (sni[i].menu.rev > 0 => sni[i].menu.timed = TRUE)
    BY <1>1, <1>2, SniFields DEF Timed
  <2>4. Now'.sni[i].ref = Now.sni[i].ref + Weight(MenuCall("about to show", i, node), "get", i)
    <3>1. PICK w : w = Weight(MenuCall("about to show", i, node), "get", i) /\ w = 0
      BY <2>2
    <3>2. Now'.sni[i].ref = sni[i].ref /\ Now.sni[i].ref = sni[i].ref
      BY <1>2, <2>1
    <3>3. PICK n \in Int : n = sni[i].ref
      BY <2>3
    <3>4. Now'.sni[i].ref = n /\ Now.sni[i].ref = n
      BY <3>2, <3>3
    <3>5. w = 0
      BY <3>1, Zenon
    <3>6. n = n + 0
      OBVIOUS
    <3> QED BY <3>1, <3>4, <3>5, <3>6, Zenon
  <2> QED BY <1>1, <1>2, <2>1, <2>3, <2>4, AsksSound
<1> QED BY <1>5, <1>6, <1>7, <1>8, <1>9, <1>10, <1>11, <1>12, <1>13, <1>14, <1>15 DEF ItemSteps, Nodes

LEMMA ItemStepsBus ==
  ASSUME Types, ItemSteps
  PROVE  BusTypes' /\ alive' = alive /\ layout' = layout /\ prop' = prop
<1>1. ASSUME NEW i \in DOMAIN sni, NEW node \in {"root", "sub"}, UserOpens(i, node)
      PROVE  BusTypes' /\ alive' = alive /\ layout' = layout /\ prop' = prop
  <2>1. changes' = changes + 1 /\ UNCHANGED <<owner, queued, epoch, other, theirs, reg, prop, layout, alive, missed,
                 regid, watched, subs, sni, tray, invalid>>
    BY <1>1 DEF UserOpens
  <2> QED BY <2>1 DEF Types, BusTypes
<1>2. CASE ~ \E i \in DOMAIN sni : \E node \in {"root", "sub"} : UserOpens(i, node)
  <2>1. TheBus' = TheBus
    BY <1>2, Rest0 DEF ItemSteps
  <2> QED BY <2>1, BusSame DEF Types, TheBus
<1> QED BY <1>1, <1>2

\* What the applications do
AppSteps ==
  \E a \in Apps :
    \/ AppQuits(a)
    \/ \E p \in Changing : AppChanges(a, p)
    \/ \E l \in ToSet(Layouts) : AppChangesMenu(a, l)
    \/ \E refresh \in BOOLEAN : AppAnswers(a, refresh)

LEMMA QuitsBase == ASSUME Base, NEW a \in Apps, AppQuits(a) PROVE Base'
<1>1. Types /\ Sound(Now, alive)
  BY DEF Base
<1>2. PICK told, failed, after \in Seq(Messages) : QuitsAs(a, told, failed, after)
  BY <1>1, QuitsDoes
<1>3. /\ asked' = [asked EXCEPT ![a] = <<>>] /\ ItemsStay /\ prop' = prop /\ layout' = layout
      /\ a \in alive /\ alive' = alive \ {a} /\ inbox' \in Seq(Messages)
  BY <1>1, QuitsDoes
<1>4. NowAre(Now, sni, tray, invalid, inbox, asked) /\ inbox \in Seq(Messages) /\ asked \in [Apps -> Seq(Calls)]
  BY <1>1, NowFields DEF NowAre
<1>5. asked' \in [Apps -> Seq(Calls)]
  <2>1. <<>> \in Seq(Calls)
    OBVIOUS
  <2> QED BY <1>3, <1>4, <2>1
<1>6. NowAre(Now', sni, tray, invalid, inbox', asked')
  BY <1>1, <1>3, <1>5, NowNext
<1> DEFINE f == (told \o failed) \o after
<1>7. f \in Seq(Messages) /\ ToSet(f) = (ToSet(told) \cup ToSet(failed)) \cup ToSet(after)
  <2> DEFINE g == told \o failed
  <2>1. g \in Seq(Messages) /\ ToSet(g) = ToSet(told) \cup ToSet(failed)
    BY InConcat
  <2> HIDE DEF g
  <2>2. g \o after \in Seq(Messages) /\ ToSet(g \o after) = ToSet(g) \cup ToSet(after)
    BY <2>1, InConcat
  <2> QED BY <2>1, <2>2 DEF g
<1>8. inbox' = inbox \o f
  <2>1. inbox' = ((inbox \o told) \o failed) \o after
    BY <1>2, Zenon DEF QuitsAs
  <2>2. (inbox \o told) \o failed = inbox \o (told \o failed)
    BY <1>4, ConcatAssoc
  <2>3. PICK g \in Seq(Messages) : g = told \o failed
    BY InConcat
  <2>a. (inbox \o g) \o after = inbox \o (g \o after)
    BY <1>4, ConcatAssoc
  <2>4. (inbox \o (told \o failed)) \o after = inbox \o ((told \o failed) \o after)
    BY <2>3, <2>a, Zenon
  <2> QED BY <2>1, <2>2, <2>4, Zenon
<1>9. \A x \in ToSet(told) \cup ToSet(after) : x.k \notin {"prop", "layout", "about to show"}
  <2>1. Msg("gone", a).k = "gone" /\ Msg("unregistered", a).k = "unregistered"
    BY DEF Msg
  <2>2. ToSet(told) \subseteq {Msg("gone", a)} /\ ToSet(after) \subseteq {Msg("unregistered", a)}
    BY <1>2 DEF QuitsAs
  <2> QED BY <2>1, <2>2
<1>10. \A x \in ToSet(f) : x.k \in {"prop", "layout", "about to show"} => \E r \in ToSet(asked[a]) : x.i = r.i
  <2>1. \A x \in ToSet(failed) : \E r \in ToSet(asked[a]) : x.i = r.i
    BY <1>2 DEF QuitsAs
  <2> QED BY <1>7, <1>9, <2>1
<1>11. \A i : Counted(f, "prop", i) = Counted(asked[a], "get", i)
  <2> TAKE i
  <2> DEFINE g == told \o failed
  <2>1. g \in Seq(Messages)
    BY InConcat
  <2>2. Counted(g, "prop", i) = Counted(told, "prop", i) + Counted(failed, "prop", i)
    BY CountedConcat, MessagesSized
  <2> HIDE DEF g
  <2>3. Counted(g \o after, "prop", i) = Counted(g, "prop", i) + Counted(after, "prop", i)
    BY <2>1, CountedConcat, MessagesSized
  <2>4. Counted(told, "prop", i) = 0
    <3>1. \A x \in ToSet(told) : ~(x.k = "prop" /\ x.i = i)
      BY <1>9
    <3> QED BY <3>1, CountedNone, MessagesSized
  <2>5. Counted(after, "prop", i) = 0
    <3>1. \A x \in ToSet(after) : ~(x.k = "prop" /\ x.i = i)
      BY <1>9
    <3> QED BY <3>1, CountedNone, MessagesSized
  <2>6. Counted(failed, "prop", i) = Counted(asked[a], "get", i)
    BY <1>2, Zenon DEF QuitsAs
  <2>7. Counted(failed, "prop", i) \in Nat
    BY WeightsAre, MessagesSized
  <2>8. Counted(f, "prop", i) = Counted(g \o after, "prop", i)
    BY DEF g
  <2> HIDE DEF f
  <2> QED BY <2>2, <2>3, <2>4, <2>5, <2>6, <2>7, <2>8
<1> HIDE DEF f
<1>12. PICK t \in States : t = Now' /\ NowAre(t, sni, tray, invalid, inbox', asked')
  BY <1>6 DEF NowAre
<1>13. Answered(Now, t, a, f)
  <2>1. Now.sni = sni /\ Now.tray = tray /\ Now.box = inbox /\ Now.calls = asked
    BY <1>4 DEF NowAre
  <2>2. t.sni = sni /\ t.tray = tray /\ t.box = inbox' /\ t.calls = asked'
    BY <1>12 DEF NowAre
  <2> QED BY <1>3, <1>8, <1>10, <1>11, <2>1, <2>2 DEF Answered
<1>14. Sound(t, alive \ {a})
  <2>1. alive \subseteq (alive \ {a}) \cup {a}
    OBVIOUS
  <2>2. Now \in States
    BY <1>4 DEF NowAre
  <2> QED BY <1>1, <1>7, <1>13, <2>1, <2>2, AnsweredSound
<1>15. BusTypes'
  <2>1. /\ theirs' = theirs \ {a} /\ missed' \in {missed, missed \cup {a}}
        /\ UNCHANGED <<owner, queued, epoch, other, reg, prop, layout, changes>>
        /\ UNCHANGED barVars
    BY DEF AppQuits
  <2> QED BY <1>1, <1>3, <2>1 DEF Types, BusTypes, barVars
<1>16. Sound(Now, alive)'
  BY <1>3, <1>12, <1>14
<1> QED BY <1>12, <1>15, <1>16 DEF Base, Types

LEMMA AnswersBase == ASSUME Base, NEW a \in Apps, NEW refresh \in BOOLEAN, AppAnswers(a, refresh) PROVE Base'
<1>1. Types /\ Sound(Now, alive)
  BY DEF Base
<1>2. PICK f \in Seq(Messages) : AnswersAs(a, refresh, f)
  BY <1>1, AnswersDoes
<1>3. /\ asked' = [asked EXCEPT ![a] = <<>>] /\ ItemsStay /\ alive' = alive /\ inbox' \in Seq(Messages)
  BY <1>1, AnswersDoes
<1>4. NowAre(Now, sni, tray, invalid, inbox, asked) /\ inbox \in Seq(Messages) /\ asked \in [Apps -> Seq(Calls)]
  BY <1>1, NowFields DEF NowAre
<1>5. asked' \in [Apps -> Seq(Calls)]
  <2>1. <<>> \in Seq(Calls)
    OBVIOUS
  <2> QED BY <1>3, <1>4, <2>1
<1>6. NowAre(Now', sni, tray, invalid, inbox', asked')
  BY <1>1, <1>3, <1>5, NowNext
<1>8. inbox' = inbox \o f /\ DOMAIN f = DOMAIN asked[a]
  BY <1>2, Zenon DEF AnswersAs
<1>9. ASSUME NEW j \in DOMAIN f
      PROVE  /\ f[j].i = asked[a][j].i /\ (f[j].k = "prop" <=> asked[a][j].k = "get")
             /\ asked[a][j].k = "get" => f[j].ps = asked[a][j].ps
  <2>1. PICK r \in Calls : r = asked[a][j]
    <3>1. asked[a] \in Seq(Calls)
      BY <1>4
    <3> QED BY <1>8, <3>1
  <2>2. /\ r.k = "get" => f[j] = PropReply(r.i, r.ps, prop[a])
        /\ r.k = "layout" => f[j] = LayoutReply(r.i, r.node, layout[a])
        /\ r.k = "about to show" => f[j] = AboutReply(r.i, r.node, refresh)
    BY <1>2, <2>1 DEF AnswersAs
  <2>3. CASE r.k = "get"
    BY <2>1, <2>2, <2>3, PropReplyIs
  <2>4. CASE r.k = "layout"
    BY <2>1, <2>2, <2>4, LayoutReplyIs
  <2>5. CASE r.k = "about to show"
    <3>1. f[j].k = "about to show" /\ f[j].i = r.i
      <4>1. f[j] = AboutReply(r.i, r.node, refresh)
        BY <2>2, <2>5
      <4>2. \E b : f[j] = AboutReply(r.i, r.node, b)
        BY <4>1, Zenon
      <4>3. PICK b : f[j] = AboutReply(r.i, r.node, b)
        BY <4>2
      <4>4. AboutReply(r.i, r.node, b).k = "about to show" /\ AboutReply(r.i, r.node, b).i = r.i
        BY DEF AboutReply
      <4> QED BY <4>3, <4>4, Zenon
    <3> QED BY <2>1, <2>5, <3>1
  <2>6. r.k \in {"get", "layout", "about to show"}
    BY CallKinds
  <2> QED BY <2>3, <2>4, <2>5, <2>6
<1>10. \A x \in ToSet(f) : \E r \in ToSet(asked[a]) : x.i = r.i
  BY <1>8, <1>9 DEF ToSet
<1>11. \A i : Counted(f, "prop", i) = Counted(asked[a], "get", i)
  <2> TAKE i
  <2>1. \A j \in DOMAIN f : Weight(f[j], "prop", i) = Weight(asked[a][j], "get", i)
    BY <1>9 DEF Weight
  <2> QED BY <1>8, <2>1, CountedAlike
<1>12. PICK t \in States : t = Now' /\ NowAre(t, sni, tray, invalid, inbox', asked')
  BY <1>6 DEF NowAre
<1>13. Answered(Now, t, a, f)
  <2>1. Now.sni = sni /\ Now.tray = tray /\ Now.box = inbox /\ Now.calls = asked
    BY <1>4 DEF NowAre
  <2>2. t.sni = sni /\ t.tray = tray /\ t.box = inbox' /\ t.calls = asked'
    BY <1>12 DEF NowAre
  <2> QED BY <1>3, <1>8, <1>10, <1>11, <2>1, <2>2 DEF Answered
<1>14. Sound(t, alive)
  <2>2. Now \in States
    BY <1>4 DEF NowAre
  <2>1. alive \subseteq alive \cup {a}
    OBVIOUS
  <2> QED BY <1>1, <1>13, <2>1, <2>2, AnsweredSound
<1>15. BusTypes'
  <2>1. UNCHANGED busVars /\ UNCHANGED barVars
    BY DEF AppAnswers
  <2> QED BY <1>1, <2>1 DEF Types, BusTypes, busVars, barVars
<1>16. Sound(Now, alive)'
  BY <1>3, <1>12, <1>14
<1> QED BY <1>12, <1>15, <1>16 DEF Base, Types

LEMMA BoxAppend ==
  ASSUME NEW b \in Seq(Messages), NEW x \in Messages
  PROVE  Append(b, x) \in Seq(Messages) /\ ToSet(Append(b, x)) = ToSet(b) \cup {x}
BY InAppend

\* A message that is not a reply is sent.
LEMMA ToldBase ==
  ASSUME Base, ItemsStay, asked' = asked, alive' = alive, BusTypes',
         inbox' = inbox \/ \E x \in Messages : inbox' = Append(inbox, x) /\ x.k \in {"signal", "layout updated"}
  PROVE  Base'
<1>1. Types /\ Sound(Now, alive)
  BY DEF Base
<1>4. NowAre(Now, sni, tray, invalid, inbox, asked) /\ inbox \in Seq(Messages) /\ asked \in [Apps -> Seq(Calls)]
  BY <1>1, NowFields DEF NowAre
<1>5. /\ inbox' \in Seq(Messages) /\ Sends(inbox, inbox', Kinds({"prop"}))
      /\ \A x \in ToSet(inbox') : x.k \in {"layout", "about to show"} => x \in ToSet(inbox)
  <2>1. CASE inbox' = inbox
    BY <1>4, <2>1, SendsSame
  <2>2. ASSUME NEW x \in Messages, inbox' = Append(inbox, x), x.k \in {"signal", "layout updated"}
        PROVE  /\ inbox' \in Seq(Messages) /\ Sends(inbox, inbox', Kinds({"prop"}))
               /\ \A y \in ToSet(inbox') : y.k \in {"layout", "about to show"} => y \in ToSet(inbox)
    <3>1. x \notin Kinds({"prop"})
      BY <2>2 DEF Kinds
    <3>2. Append(inbox, x) \in Seq(Messages) /\ ToSet(Append(inbox, x)) = ToSet(inbox) \cup {x}
      <4>1. PICK b \in Seq(Messages) : b = inbox
        BY <1>4
      <4>2. Append(b, x) \in Seq(Messages) /\ ToSet(Append(b, x)) = ToSet(b) \cup {x}
        BY BoxAppend
      <4> QED BY <4>1, <4>2
    <3>a. Sends(inbox, inbox, Kinds({"prop"}))
      BY <1>4, SendsSame
    <3>3. Sends(inbox, Append(inbox, x), Kinds({"prop"}))
      BY <1>4, <3>1, <3>a, SendsOne
    <3> QED BY <2>2, <3>2, <3>3
  <2> QED BY <2>1, <2>2
<1>6. NowAre(Now', sni, tray, invalid, inbox', asked)
  BY <1>1, <1>4, <1>5, NowNext
<1>7. PICK t \in States : t = Now' /\ NowAre(t, sni, tray, invalid, inbox', asked)
  BY <1>6 DEF NowAre
<1>8. Sound(t, alive)
  <2>2. t.sni = sni /\ t.calls = asked /\ t.tray = tray /\ t.box = inbox'
    BY <1>7 DEF NowAre
  <2>3. Now \in States /\ Now.sni = sni /\ Now.calls = asked /\ Now.tray = tray /\ Now.box = inbox
    BY <1>4 DEF NowAre
  <2>4. SameItems(Now, t)
    BY <2>2, <2>3 DEF SameItems
  <2> QED BY <1>1, <1>5, <2>2, <2>3, <2>4, FrameSound
<1>9. Sound(Now, alive)'
  BY <1>7, <1>8
<1> QED BY <1>7, <1>9 DEF Base, Types

LEMMA AppStepsBase == ASSUME Base, AppSteps PROVE Base'
<1>1. Types
  BY DEF Base
<1>2. ASSUME NEW a \in Apps, NEW p \in Changing, AppChanges(a, p) PROVE Base'
  <2>1. /\ inbox' = Append(inbox, Told(a, SignalOf[p])) /\ Told(a, SignalOf[p]) \in Messages
        /\ prop' \in [Apps -> [Props -> Values]] /\ ItemsStay /\ asked' = asked /\ layout' = layout /\ alive' = alive
    BY <1>1, <1>2, ChangesDoes
  <2>2. Told(a, SignalOf[p]).k = "signal"
    BY DEF Told
  <2>3. changes' = changes + 1 /\ UNCHANGED <<owner, queued, epoch, other, theirs, alive, reg, layout, missed>>
        /\ UNCHANGED barVars
    BY <1>2 DEF AppChanges
  <2>4. BusTypes'
    BY <1>1, <2>1, <2>3 DEF Types, BusTypes, barVars
  <2> QED BY <2>1, <2>2, <2>4, ToldBase
<1>3. ASSUME NEW a \in Apps, NEW l \in ToSet(Layouts), AppChangesMenu(a, l) PROVE Base'
  <2>1. /\ layout' \in [Apps -> MenuLayouts]
        /\ inbox' = Append(inbox, Msg("layout updated", a)) \/ inbox' = inbox
        /\ ItemsStay /\ asked' = asked /\ prop' = prop /\ alive' = alive
    BY <1>1, <1>3, MenuChangesDoes
  <2>2. Msg("layout updated", a).k = "layout updated" /\ Msg("layout updated", a) \in Messages
    BY MessageTypes
  <2>3. changes' = changes + 1 /\ UNCHANGED <<owner, queued, epoch, other, theirs, alive, reg, prop, missed>>
        /\ UNCHANGED barVars
    BY <1>3 DEF AppChangesMenu
  <2>4. BusTypes'
    <3>1. layout' \in [Apps -> MenuLayouts]
      BY <2>1
    <3> QED BY <1>1, <2>3, <3>1 DEF Types, BusTypes, barVars
  <2> QED BY <2>1, <2>2, <2>4, ToldBase
<1> QED BY <1>2, <1>3, QuitsBase, AnswersBase DEF AppSteps

LEMMA ItemStepsBase == ASSUME Base, ItemSteps PROVE Base'
<1>1. Now' \in States /\ Sound(Now', alive)
  BY ItemStepsSound
<1>2. BusTypes' /\ alive' = alive
  BY ItemStepsBus DEF Base
<1>3. Sound(Now, alive)'
  BY <1>1, <1>2
<1> QED BY <1>1, <1>2, <1>3 DEF Base, Types

LEMMA NextSteps == ASSUME Next PROVE Watches \/ ItemSteps \/ AppSteps
BY Zenon DEF Next, Dispatch, Watches, ItemSteps, AppSteps

LEMMA StutterBase == ASSUME Base, UNCHANGED vars PROVE Base'
<1>1. BusTypes'
  BY DEF Base, Types, BusTypes, vars, busVars
<1>2. Now' = Now /\ alive' = alive
  BY DEF vars, busVars, Now, Items
<1>3. Sound(Now, alive)'
  BY <1>2 DEF Base
<1> QED BY <1>1, <1>2, <1>3 DEF Base, Types

LEMMA InitBase == ASSUME Init PROVE Base
<1>1. Nobody \notin {Bar, Other} /\ {Bar, Other, Nobody} = {owner, Bar, Other, Nobody}
  BY DEF Init, Nobody, Bar, Other
<1>2. layout \in [Apps -> MenuLayouts]
  <2> DEFINE S == [root : Seq(Entries), sub : Seq(Entries)]
  <2>0. Layouts \in Seq(S) /\ Layouts # <<>>
    BY LayoutsAssumption
  <2>1. Head(Layouts) \in S
    <3> HIDE DEF S
    <3> QED BY <2>0
  <2>2. Head(Layouts) = Layouts[1] /\ 1 \in DOMAIN Layouts
    BY LayoutsAssumption
  <2>3. OwnIds(Head(Layouts).root) /\ OwnIds(Head(Layouts).sub)
    BY <2>2, LayoutsAssumption
  <2>4. [rev |-> 1, root |-> Head(Layouts).root, sub |-> Head(Layouts).sub] \in MenuLayouts
    BY <2>1, <2>3 DEF MenuLayouts
  <2> QED BY <2>4 DEF Init
<1>3. BusTypes
  <2>1. prop \in [Apps -> [Props -> Values]]
    BY PropsAssumption DEF Init
  <2>2. owner \in {Bar, Other, Nobody} /\ epoch \in Nat
    BY DEF Init
  <2> QED BY <1>2, <2>1, <2>2 DEF Init, BusTypes
<1>4. PICK x \in Messages : inbox = <<x>> /\ x.k \in {"appeared", "vanished"}
  <2> DEFINE x == Msg(IF other = "in" THEN "appeared" ELSE "vanished", Nobody)
  <2>1. x \in Messages /\ x.k \in {"appeared", "vanished"}
    BY DEF Msg, Messages, Plain
  <2> QED BY <2>1 DEF Init
<1>5. inbox \in Seq(Messages) /\ ToSet(inbox) = {x}
  BY <1>4, InOne
<1>6. /\ asked \in [Apps -> Seq(Calls)] /\ \A a \in Apps : asked[a] = <<>>
      /\ sni = <<>> /\ tray = <<>> /\ invalid = FALSE /\ sni \in Seq(ItemSet) /\ tray \in Seq(Children)
  BY DEF Init
<1>7. NowAre(Now, sni, tray, invalid, inbox, asked)
  <2>1. Now = [sni |-> sni, tray |-> tray, invalid |-> invalid, box |-> inbox, calls |-> asked]
    BY DEF Now, Items
  <2>2. invalid \in BOOLEAN
    BY <1>6
  <2> QED BY <1>5, <1>6, <2>1, <2>2, NowMade, Zenon
<1>8. PICK s \in States : s = Now /\ s.sni = <<>> /\ s.tray = <<>> /\ s.box = inbox /\ s.calls = asked
  BY <1>6, <1>7 DEF NowAre
<1>9. LiveSet(s) = {}
  BY <1>8 DEF LiveSet
<1>10. Points(s)
  <2>1. \A y \in ToSet(s.box) : y.k \notin {"prop", "layout", "about to show"}
    BY <1>4, <1>5, <1>8
  <2>2. \A a \in Apps : ToSet(s.calls[a]) = {}
    BY <1>6, <1>8, InNone
  <2> QED BY <2>1, <2>2 DEF Points
<1>11. Paired(s) /\ Counts(s) /\ Timed(s) /\ Silent(s, alive)
  <2>1. DOMAIN s.sni = {} /\ DOMAIN s.tray = {}
    BY <1>8
  <2>2. \A a \in Apps : s.calls[a] = <<>>
    BY <1>6, <1>8, Zenon
  <2> QED BY <1>9, <2>1, <2>2, Zenon DEF Paired, Counts, Timed, Silent
<1> QED BY <1>3, <1>8, <1>10, <1>11 DEF Base, Types, Sound

LEMMA NextBase == ASSUME Base, [Next]_vars PROVE Base'
BY WatchesBase, ItemStepsBase, AppStepsBase, NextSteps, StutterBase

\* TypeOK from Base
LEMMA BaseTypes == ASSUME Base PROVE TypeOK
<1>1. Types /\ Sound(Now, alive)
  BY DEF Base
<1>2. /\ Now \in States /\ Now.sni = sni /\ Now.tray = tray /\ Now.box = inbox /\ Now.calls = asked
      /\ invalid \in BOOLEAN
  BY <1>1, NowFields
<1>3. HostItems = LiveSet(Now)
  BY <1>1, HostItemsAre
<1>4. {tray[j].i : j \in DOMAIN tray} = HostItems
  <2>1. Paired(Now)
    BY <1>1 DEF Sound
  <2>2. /\ \A j \in DOMAIN tray : tray[j].i \in LiveSet(Now)
        /\ \A i \in LiveSet(Now) : \E j \in DOMAIN tray : tray[j].i = i
    BY <1>2, <2>1 DEF Paired
  <2> QED BY <1>3, <2>2
<1>5. ASSUME NEW i \in HostItems PROVE sni[i].ref >= 0 /\ (sni[i].menu.rev > 0 => sni[i].menu.timed)
  <2>1. i \in LiveSet(Now) /\ i \in DOMAIN sni
    BY <1>2, <1>3 DEF LiveSet
  <2>2. PICK u \in Apps : u = sni[i].uid
    BY <1>1, <2>1, SniFields
  <2>3. sni[i].ref = InFlight(Now, i) /\ (sni[i].menu.rev > 0 => sni[i].menu.timed = TRUE)
    BY <1>1, <1>2, <2>1 DEF Sound, Counts, Timed
  <2>4. InFlight(Now, i) = Flight(Now, u, i)
    BY <1>2, <2>2 DEF InFlight
  <2>5. Flight(Now, u, i) \in Nat
    BY <1>2, FlightNat
  <2> QED BY <2>3, <2>4, <2>5
<1>6. owner \in {Bar, Other, Nobody} /\ watched \subseteq Apps /\ theirs \subseteq Apps /\ subs \in Nat
      /\ regid \in BOOLEAN /\ queued \in BOOLEAN
  BY <1>1 DEF Types, BusTypes
<1>7. {regid, invalid, queued} \subseteq BOOLEAN
  BY <1>2, <1>6
<1> QED BY <1>4, <1>5, <1>6, <1>7, Zenon DEF TypeOK

\* Every variable of the watcher, the host, the tray and the bus keeps its type, and
\* the host's list, its items, the icons and the calls agree (Base).
THEOREM TypeCorrect == Spec => []TypeOK
<1>1. Init => Base
  BY InitBase
<1>2. Base /\ [Next]_vars => Base'
  BY NextBase
<1>3. Base => TypeOK
  BY BaseTypes
<1> QED BY <1>1, <1>2, <1>3, PTL DEF Spec

----------------------------------------------------------------------------
(* The layouts of the menus *)

MenuFits(m, l) ==
  /\ m.rev <= l.rev
  /\ m.rev = l.rev /\ m.lost = FALSE /\ m.there = TRUE => ShowsLayout(m, l)
ReplyFits(x, l) == x.layout.rev <= l.rev /\ (x.layout.rev = l.rev => x.layout = l)

\* The layout l of a's menu is about to be read, or to be shown.
Awaits(s, i, a, l) ==
  \/ \E r \in ToSet(s.calls[a]) : r.k = "layout" /\ r.i = i
  \/ \E x \in ToSet(s.box) : x.k = "layout" /\ x.i = i /\ x.layout = l
  \/ Msg("layout updated", a) \in ToSet(s.box)

RepliesFit(s, lay) == \A x \in ToSet(s.box) : x.k = "layout" => ReplyFits(x, lay[s.sni[x.i].uid])
Fetched(s, i, up, lay) ==
  s.sni[i].uid \in up /\ s.sni[i].menu.there = TRUE =>
    s.sni[i].menu.rev = lay[s.sni[i].uid].rev \/ Awaits(s, i, s.sni[i].uid, lay[s.sni[i].uid])
MenuKeeps(s, i, up, lay) == MenuFits(s.sni[i].menu, lay[s.sni[i].uid]) /\ Fetched(s, i, up, lay)
Menus(s, up, lay) == RepliesFit(s, lay) /\ \A i \in LiveSet(s) : MenuKeeps(s, i, up, lay)

SameMenu(m, n) == m.rev = n.rev /\ m.root = n.root /\ m.sub = n.sub /\ m.there = n.there /\ m.lost = n.lost

LEMMA SameFits == ASSUME NEW m, NEW n, NEW l, SameMenu(m, n), MenuFits(n, l) PROVE MenuFits(m, l)
<1>1. ShowsLayout(n, l) => ShowsLayout(m, l)
  BY Zenon DEF SameMenu, ShowsLayout
<1> QED BY <1>1, Zenon DEF SameMenu, MenuFits

LEMMA NewFits == ASSUME NEW l \in MenuLayouts PROVE MenuFits(NoMenu, l) /\ MenuFits(NewMenu, l) /\ NoMenu.there = FALSE
<1>1. l.rev \in Nat /\ l.rev # 0
  BY DEF MenuLayouts
<1>2. NoMenu.rev = 0 /\ NewMenu.rev = 0 /\ NoMenu.there = FALSE
  BY DEF NoMenu, NewMenu
<1> QED BY <1>1, <1>2 DEF MenuFits

\* What is awaited stays awaited.
LEMMA AwaitsMore ==
  ASSUME NEW s, NEW t, NEW i, NEW a \in Apps, NEW l, Awaits(s, i, a, l),
         ToSet(s.calls[a]) \subseteq ToSet(t.calls[a]),
         \A x \in ToSet(s.box) : x.k \in {"layout", "layout updated"} => x \in ToSet(t.box)
  PROVE  Awaits(t, i, a, l)
<1>1. CASE \E r \in ToSet(s.calls[a]) : r.k = "layout" /\ r.i = i
  BY <1>1 DEF Awaits
<1>2. CASE \E x \in ToSet(s.box) : x.k = "layout" /\ x.i = i /\ x.layout = l
  BY <1>2 DEF Awaits
<1>3. CASE Msg("layout updated", a) \in ToSet(s.box)
  <2>1. Msg("layout updated", a).k = "layout updated"
    BY DEF Msg
  <2> QED BY <1>3, <2>1 DEF Awaits
<1> QED BY <1>1, <1>2, <1>3 DEF Awaits

\* What becomes of a menu when no layout arrives
MenuStays(s, t, i, up, lay) ==
  \/ t.sni[i].menu = NoMenu
  \/ t.sni[i].menu = NewMenu /\ (t.sni[i].uid \in up => Awaits(t, i, t.sni[i].uid, lay[t.sni[i].uid]))
  \/ /\ i \in LiveSet(s) /\ SameMenu(t.sni[i].menu, s.sni[i].menu)
     /\ (t.sni[i].uid \in up /\ t.sni[i].menu.there = TRUE /\ Awaits(s, i, t.sni[i].uid, lay[t.sni[i].uid])
           => Awaits(t, i, t.sni[i].uid, lay[t.sni[i].uid]))

KeepsOwners(s, t) == \A j \in DOMAIN s.sni : j \in DOMAIN t.sni /\ t.sni[j].uid = s.sni[j].uid

LEMMA MenusKept ==
  ASSUME NEW s \in States, NEW t \in States, NEW up, NEW down, NEW lay \in [Apps -> MenuLayouts],
         Points(s), Menus(s, up, lay), KeepsOwners(s, t), down \subseteq up,
         \A x \in ToSet(t.box) : x.k = "layout" => x \in ToSet(s.box),
         \A i \in LiveSet(t) : MenuStays(s, t, i, down, lay)
  PROVE  Menus(t, down, lay)
<1>1. RepliesFit(t, lay)
  <2> SUFFICES ASSUME NEW x \in ToSet(t.box), x.k = "layout" PROVE ReplyFits(x, lay[t.sni[x.i].uid])
    BY DEF RepliesFit
  <2>1. x \in ToSet(s.box) /\ x.i \in DOMAIN s.sni
    BY DEF Points
  <2>2. ReplyFits(x, lay[s.sni[x.i].uid])
    BY <2>1 DEF Menus, RepliesFit
  <2> QED BY <2>1, <2>2 DEF KeepsOwners
<1>2. ASSUME NEW i \in LiveSet(t) PROVE MenuKeeps(t, i, down, lay)
  <2>0. i \in DOMAIN t.sni
    BY DEF LiveSet
  <2>1. PICK a \in Apps : a = t.sni[i].uid
    BY <2>0, ItemFields
  <2>2. lay[a] \in MenuLayouts
    OBVIOUS
  <2>3. CASE t.sni[i].menu = NoMenu
    BY <2>1, <2>2, <2>3, NewFits DEF MenuKeeps, Fetched
  <2>4. CASE t.sni[i].menu = NewMenu /\ (a \in down => Awaits(t, i, a, lay[a]))
    BY <2>1, <2>2, <2>4, NewFits DEF MenuKeeps, Fetched
  <2>5. CASE /\ i \in LiveSet(s) /\ SameMenu(t.sni[i].menu, s.sni[i].menu)
             /\ (a \in down /\ t.sni[i].menu.there = TRUE /\ Awaits(s, i, a, lay[a]) => Awaits(t, i, a, lay[a]))
    <3>1. i \in DOMAIN s.sni
      BY <2>5 DEF LiveSet
    <3>2. s.sni[i].uid = a
      BY <2>1, <3>1 DEF KeepsOwners
    <3>3. MenuFits(s.sni[i].menu, lay[a]) /\ Fetched(s, i, up, lay)
      BY <2>5, <3>2 DEF Menus, MenuKeeps
    <3>4. MenuFits(t.sni[i].menu, lay[a])
      BY <2>5, <3>3, SameFits
    <3>5. a \in down /\ t.sni[i].menu.there = TRUE =>
            t.sni[i].menu.rev = lay[a].rev \/ Awaits(t, i, a, lay[a])
      BY <2>5, <3>2, <3>3 DEF Fetched, SameMenu
    <3> QED BY <2>1, <3>4, <3>5 DEF MenuKeeps, Fetched
  <2>6. MenuStays(s, t, i, down, lay)
    OBVIOUS
  <2> QED BY <2>1, <2>3, <2>4, <2>5, <2>6 DEF MenuStays
<1> QED BY <1>1, <1>2 DEF Menus

\* Nothing but messages about something else comes or goes.
LEMMA FrameMenus ==
  ASSUME NEW s \in States, NEW t \in States, NEW up, NEW down, NEW lay \in [Apps -> MenuLayouts],
         Points(s), Menus(s, up, lay), down \subseteq up, t.sni = s.sni,
         \A a \in down : t.calls[a] = s.calls[a],
         \A x \in ToSet(s.box) : x.k \in {"layout", "layout updated"} => x \in ToSet(t.box),
         \A x \in ToSet(t.box) : x.k = "layout" => x \in ToSet(s.box)
  PROVE  Menus(t, down, lay)
<1>1. KeepsOwners(s, t)
  BY DEF KeepsOwners
<1>2. LiveSet(t) = LiveSet(s)
  BY Zenon DEF LiveSet
<1>3. ASSUME NEW i \in LiveSet(t) PROVE MenuStays(s, t, i, down, lay)
  <2>1. i \in DOMAIN t.sni
    BY DEF LiveSet
  <2>2. PICK a \in Apps : a = t.sni[i].uid
    BY <2>1, ItemFields
  <2>3. a \in down /\ Awaits(s, i, a, lay[a]) => Awaits(t, i, a, lay[a])
    <3> SUFFICES ASSUME a \in down, Awaits(s, i, a, lay[a]) PROVE Awaits(t, i, a, lay[a])
      OBVIOUS
    <3>1. ToSet(s.calls[a]) \subseteq ToSet(t.calls[a])
      OBVIOUS
    <3>2. \A x \in ToSet(s.box) : x.k \in {"layout", "layout updated"} => x \in ToSet(t.box)
      OBVIOUS
    <3> QED BY <3>1, <3>2, AwaitsMore
  <2>4. SameMenu(t.sni[i].menu, s.sni[i].menu)
    BY DEF SameMenu
  <2> QED BY <1>2, <2>2, <2>3, <2>4 DEF MenuStays
<1>4. \A x \in ToSet(t.box) : x.k = "layout" => x \in ToSet(s.box)
  OBVIOUS
<1> QED BY <1>1, <1>3, <1>4, MenusKept

\* A call that is sent
LEMMA SentMore ==
  ASSUME NEW s \in States, NEW t \in States, NEW a \in Apps, NEW r \in Calls, Sent(t, s.box, s.calls, a, r)
  PROVE  /\ \A b \in Apps : ToSet(s.calls[b]) \subseteq ToSet(t.calls[b])
         /\ ToSet(s.box) \subseteq ToSet(t.box)
         /\ \A x \in ToSet(t.box) : x \in ToSet(s.box) \/ x.k = "prop"
         /\ a \in alive => r \in ToSet(t.calls[a])
<1>1. s.box \in Seq(Messages) /\ \A b \in Apps : s.calls[b] \in Seq(Calls)
  BY StateFields
<1>2. CASE a \in alive
  <2>1. t.box = s.box /\ t.calls[a] = Append(s.calls[a], r) /\ \A b \in Apps : b # a => t.calls[b] = s.calls[b]
    BY <1>2 DEF Sent
  <2>2. ToSet(t.calls[a]) = ToSet(s.calls[a]) \cup {r}
    BY <1>1, <2>1, InAppend
  <2> QED BY <2>1, <2>2
<1>3. CASE a \notin alive
  <2>1. /\ t.calls = s.calls
        /\ t.box = IF r.k = "get" THEN Append(s.box, PropReply(r.i, r.ps, Failed)) ELSE s.box
    BY <1>3 DEF Sent
  <2>2. CASE r.k # "get"
    BY <1>3, <2>1, <2>2
  <2>3. CASE r.k = "get"
    <3> DEFINE y == PropReply(r.i, r.ps, Failed)
    <3>1. y \in Messages /\ y.k = "prop"
      <4>1. Failed \in Answers /\ r.i \in Nat /\ r.ps \in SUBSET Props
        BY <2>3, CallKinds DEF Answers
      <4> QED BY <4>1, PropReplyIn, PropReplyIs
    <3> HIDE DEF y
    <3>2. ToSet(Append(s.box, y)) = ToSet(s.box) \cup {y}
      BY <1>1, <3>1, InAppend
    <3>3. ToSet(t.box) = ToSet(s.box) \cup {y}
      BY <2>1, <2>3, <3>2 DEF y
    <3> QED BY <1>3, <2>1, <3>1, <3>3
  <2> QED BY <2>2, <2>3
<1> QED BY <1>2, <1>3

\* An item is changed, but for its menu, or its menu is new and asked for.
LEMMA SentMenus ==
  ASSUME NEW s \in States, NEW t \in States, NEW i \in DOMAIN s.sni, NEW r \in Calls, NEW lay \in [Apps -> MenuLayouts],
         Points(s), Menus(s, alive, lay), Changed(s, t, i), Sent(t, s.box, s.calls, s.sni[i].uid, r),
         \/ SameMenu(t.sni[i].menu, s.sni[i].menu)
         \/ t.sni[i].menu = NewMenu /\ r.k = "layout" /\ r.i = i
  PROVE  Menus(t, alive, lay)
<1>0. PICK a \in Apps : a = s.sni[i].uid
  BY ItemFields
<1>1. /\ \A b \in Apps : ToSet(s.calls[b]) \subseteq ToSet(t.calls[b])
      /\ ToSet(s.box) \subseteq ToSet(t.box)
      /\ \A x \in ToSet(t.box) : x \in ToSet(s.box) \/ x.k = "prop"
      /\ a \in alive => r \in ToSet(t.calls[a])
  <2>1. Sent(t, s.box, s.calls, a, r)
    BY <1>0
  <2> QED BY <2>1, SentMore
<1>2. KeepsOwners(s, t) /\ DOMAIN t.sni = DOMAIN s.sni /\ \A j \in DOMAIN s.sni : t.sni[j].live = s.sni[j].live
  BY DEF Changed, KeepsOwners
<1>3. LiveSet(t) = LiveSet(s)
  BY <1>2 DEF LiveSet
<1>4. ASSUME NEW j \in LiveSet(t) PROVE MenuStays(s, t, j, alive, lay)
  <2>1. j \in DOMAIN s.sni /\ j \in LiveSet(s)
    BY <1>3 DEF LiveSet
  <2>2. PICK b \in Apps : b = t.sni[j].uid
    BY <1>2, <2>1, ItemFields
  <2>3. Awaits(s, j, b, lay[b]) => Awaits(t, j, b, lay[b])
    <3> SUFFICES ASSUME Awaits(s, j, b, lay[b]) PROVE Awaits(t, j, b, lay[b])
      OBVIOUS
    <3>1. ToSet(s.calls[b]) \subseteq ToSet(t.calls[b])
      BY <1>1
    <3>2. \A x \in ToSet(s.box) : x.k \in {"layout", "layout updated"} => x \in ToSet(t.box)
      BY <1>1
    <3> QED BY <3>1, <3>2, AwaitsMore
  <2>4. CASE SameMenu(t.sni[j].menu, s.sni[j].menu)
    BY <2>1, <2>2, <2>3, <2>4 DEF MenuStays
  <2>5. CASE j = i /\ t.sni[i].menu = NewMenu /\ r.k = "layout" /\ r.i = i
    <3>1. b = a
      BY <1>0, <1>2, <2>2, <2>5 DEF KeepsOwners
    <3>2. b \in alive => Awaits(t, j, b, lay[b])
      BY <1>1, <2>5, <3>1 DEF Awaits
    <3> QED BY <2>2, <2>5, <3>2 DEF MenuStays
  <2>6. CASE j # i
    <3>1. t.sni[j] = s.sni[j]
      BY <2>1, <2>6 DEF Changed
    <3>2. SameMenu(t.sni[j].menu, s.sni[j].menu)
      BY <3>1 DEF SameMenu
    <3> QED BY <2>4, <3>2
  <2> QED BY <2>4, <2>5, <2>6
<1>5. \A x \in ToSet(t.box) : x.k = "layout" => x \in ToSet(s.box)
  BY <1>1
<1>6. alive \subseteq alive
  OBVIOUS
<1> QED BY <1>2, <1>4, <1>5, <1>6, MenusKept

\* Nothing is sent, and no menu is changed.
LEMMA StillMenus ==
  ASSUME NEW s \in States, NEW t \in States, NEW i \in DOMAIN s.sni, NEW lay \in [Apps -> MenuLayouts],
         Points(s), Menus(s, alive, lay), Changed(s, t, i), SameMenu(t.sni[i].menu, s.sni[i].menu),
         t.box = s.box, t.calls = s.calls
  PROVE  Menus(t, alive, lay)
<1>2. KeepsOwners(s, t) /\ DOMAIN t.sni = DOMAIN s.sni /\ \A j \in DOMAIN s.sni : t.sni[j].live = s.sni[j].live
  BY DEF Changed, KeepsOwners
<1>3. LiveSet(t) = LiveSet(s)
  BY <1>2 DEF LiveSet
<1>4. ASSUME NEW j \in LiveSet(t) PROVE MenuStays(s, t, j, alive, lay)
  <2>1. j \in DOMAIN s.sni /\ j \in LiveSet(s)
    BY <1>3 DEF LiveSet
  <2>2. PICK b \in Apps : b = t.sni[j].uid
    BY <1>2, <2>1, ItemFields
  <2>3. Awaits(s, j, b, lay[b]) => Awaits(t, j, b, lay[b])
    BY DEF Awaits
  <2>4. SameMenu(t.sni[j].menu, s.sni[j].menu)
    <3>1. CASE j = i
      BY <3>1
    <3>2. CASE j # i
      BY <2>1, <3>2 DEF Changed, SameMenu
    <3> QED BY <3>1, <3>2
  <2> QED BY <2>1, <2>2, <2>3, <2>4 DEF MenuStays
<1>5. \A x \in ToSet(t.box) : x.k = "layout" => x \in ToSet(s.box)
  OBVIOUS
<1>6. alive \subseteq alive
  OBVIOUS
<1> QED BY <1>2, <1>4, <1>5, <1>6, MenusKept

\* A new item has no menu yet.
LEMMA NewMenus ==
  ASSUME NEW s \in States, NEW a \in Apps, NEW lay \in [Apps -> MenuLayouts], Points(s), Menus(s, alive, lay)
  PROVE  Menus(ItemNew(s, a), alive, lay)
<1>1. CASE Known(s, a)
  BY <1>1, Zenon DEF ItemNew
<1>2. CASE ~Known(s, a)
  <2>1. PICK t \in States : t = ItemNew(s, a)
    BY NewIn
  <2>2. PICK i \in Nat : i = Len(s.sni) + 1
    BY StateFields
  <2>3. /\ t.sni = Append(s.sni, NewItem(a))
        /\ \A b \in Apps : b # a => t.calls[b] = s.calls[b]
        /\ a \in alive => t.box = s.box /\ t.calls[a] = Append(s.calls[a], Get(i, Props))
        /\ a \notin alive => t.calls = s.calls /\ t.box = Append(s.box, PropReply(i, Props, Failed))
    BY <1>2, <2>1, <2>2, NewAre
  <2>4. s.box \in Seq(Messages) /\ \A b \in Apps : s.calls[b] \in Seq(Calls)
    BY StateFields
  <2>5. s.sni \in Seq(ItemSet) /\ NewItem(a) \in ItemSet
    BY StateFields, NewItemIn
  <2>6. /\ DOMAIN t.sni = DOMAIN s.sni \cup {i} /\ i \notin DOMAIN s.sni
        /\ \A j \in DOMAIN s.sni : t.sni[j] = s.sni[j]
        /\ t.sni[i] = NewItem(a)
    BY <2>2, <2>3, <2>5
  <2>7. t.sni[i].menu = NoMenu
    BY <2>6 DEF NewItem
  <2>8. \A b \in Apps : ToSet(s.calls[b]) \subseteq ToSet(t.calls[b])
    <3>1. CASE a \in alive
      <4>1. PICK r \in Calls : r = Get(i, Props)
        BY <2>2, CallKinds
      <4>2. ToSet(Append(s.calls[a], r)) = ToSet(s.calls[a]) \cup {r}
        BY <2>4, InAppend
      <4> QED BY <2>3, <3>1, <4>1, <4>2
    <3>2. CASE a \notin alive
      BY <2>3, <3>2
    <3> QED BY <3>1, <3>2
  <2>9. /\ ToSet(s.box) \subseteq ToSet(t.box)
        /\ \A x \in ToSet(t.box) : x \in ToSet(s.box) \/ x.k = "prop"
    <3>1. CASE a \in alive
      BY <2>3, <3>1
    <3>2. CASE a \notin alive
      <4>0. Failed \in Answers
        BY DEF Answers
      <4>1. PICK y \in Messages : y = PropReply(i, Props, Failed)
        BY <2>2, <4>0, PropReplyIn
      <4>2. y.k = "prop"
        BY <4>1, PropReplyIs
      <4>3. ToSet(Append(s.box, y)) = ToSet(s.box) \cup {y}
        BY <2>4, InAppend
      <4> QED BY <2>3, <3>2, <4>1, <4>2, <4>3
    <3> QED BY <3>1, <3>2
  <2>10. KeepsOwners(s, t)
    BY <2>6 DEF KeepsOwners
  <2>11. ASSUME NEW j \in LiveSet(t) PROVE MenuStays(s, t, j, alive, lay)
    <3>1. CASE j = i
      BY <2>7, <3>1 DEF MenuStays
    <3>2. CASE j # i
      <4>1. j \in DOMAIN s.sni /\ t.sni[j] = s.sni[j] /\ j \in LiveSet(s)
        BY <2>6, <3>2 DEF LiveSet
      <4>2. SameMenu(t.sni[j].menu, s.sni[j].menu)
        BY <4>1 DEF SameMenu
      <4>3. PICK b \in Apps : b = t.sni[j].uid
        BY <4>1, ItemFields
      <4>4. Awaits(s, j, b, lay[b]) => Awaits(t, j, b, lay[b])
        <5> SUFFICES ASSUME Awaits(s, j, b, lay[b]) PROVE Awaits(t, j, b, lay[b])
          OBVIOUS
        <5>1. ToSet(s.calls[b]) \subseteq ToSet(t.calls[b])
          BY <2>8
        <5>2. \A x \in ToSet(s.box) : x.k \in {"layout", "layout updated"} => x \in ToSet(t.box)
          BY <2>9
        <5> QED BY <5>1, <5>2, AwaitsMore
      <4> QED BY <4>1, <4>2, <4>3, <4>4 DEF MenuStays
    <3> QED BY <3>1, <3>2
  <2>12. \A x \in ToSet(t.box) : x.k = "layout" => x \in ToSet(s.box)
    BY <2>9
  <2>13. Menus(t, alive, lay)
    <3>1. alive \subseteq alive
      OBVIOUS
    <3> QED BY <2>10, <2>11, <2>12, <3>1, MenusKept
  <2> QED BY <2>1, <2>13
<1> QED BY <1>1, <1>2

LEMMA NewsMenus ==
  ASSUME NEW s \in States, NEW e \in Seq(Apps), NEW lay \in [Apps -> MenuLayouts], Sound(s, alive), Menus(s, alive, lay)
  PROVE  Menus(News(s, e), alive, lay)
<1> DEFINE G == {t \in States : Sound(t, alive) /\ Menus(t, alive, lay)}
<1>1. s \in G /\ G \in SUBSET States
  OBVIOUS
<1>2. ASSUME NEW t \in G, NEW a \in ToSet(e) PROVE ItemNew(t, a) \in G
  <2>1. a \in Apps
    BY InType
  <2>2. t \in States /\ Sound(t, alive) /\ Menus(t, alive, lay) /\ Points(t)
    BY DEF Sound
  <2>3. ItemNew(t, a) \in States /\ Sound(ItemNew(t, a), alive)
    BY <2>1, <2>2, NewIn, NewSound
  <2>4. Menus(ItemNew(t, a), alive, lay)
    BY <2>1, <2>2, NewMenus
  <2> QED BY <2>3, <2>4
<1> HIDE DEF G
<1>3. News(s, e) \in G
  BY <1>1, <1>2, NewsKeep
<1> QED BY <1>3 DEF G

\* The menu of an item that is freed is gone.
LEMMA FreedMenus ==
  ASSUME NEW s \in States, NEW i \in DOMAIN s.sni, NEW lay \in [Apps -> MenuLayouts], Points(s), Menus(s, alive, lay)
  PROVE  Menus(ItemFree(s, i), alive, lay)
<1> DEFINE t == ItemFree(s, i)
<1>2. /\ t \in States /\ t.box = s.box /\ t.calls = s.calls /\ DOMAIN t.sni = DOMAIN s.sni
      /\ \A j \in DOMAIN s.sni : j # i => t.sni[j] = s.sni[j]
      /\ t.sni[i].uid = s.sni[i].uid /\ t.sni[i].live = FALSE
  BY FreedAre
<1> HIDE DEF t
<1>3. KeepsOwners(s, t)
  BY <1>2 DEF KeepsOwners
<1>4. ASSUME NEW j \in LiveSet(t) PROVE MenuStays(s, t, j, alive, lay)
  <2>1. j \in DOMAIN s.sni /\ j # i /\ t.sni[j] = s.sni[j] /\ j \in LiveSet(s)
    BY <1>2 DEF LiveSet
  <2>2. SameMenu(t.sni[j].menu, s.sni[j].menu)
    BY <2>1 DEF SameMenu
  <2>3. PICK b \in Apps : b = t.sni[j].uid
    BY <2>1, ItemFields
  <2>4. Awaits(s, j, b, lay[b]) => Awaits(t, j, b, lay[b])
    BY <1>2 DEF Awaits
  <2> QED BY <2>1, <2>2, <2>3, <2>4 DEF MenuStays
<1>5. \A x \in ToSet(t.box) : x.k = "layout" => x \in ToSet(s.box)
  BY <1>2
<1>6. alive \subseteq alive
  OBVIOUS
<1>7. Menus(t, alive, lay)
  BY <1>2, <1>3, <1>4, <1>5, <1>6, MenusKept
<1> QED BY <1>7 DEF t

\* A message about something else is taken.
LEMMA TakenMenus ==
  ASSUME Types, NEW k, Incoming(k), k \notin {"layout", "layout updated"}, NEW lay \in [Apps -> MenuLayouts],
         Points(Now), Menus(Now, alive, lay)
  PROVE  Menus(Taken, alive, lay)
<1>1. /\ Now \in States /\ Taken \in States /\ Taken.sni = Now.sni /\ Taken.calls = Now.calls /\ M.k = k
      /\ ToSet(Now.box) = {M} \cup ToSet(Taken.box)
  BY NowFields, TakenFields
<1>2. \A x \in ToSet(Now.box) : x.k \in {"layout", "layout updated"} => x \in ToSet(Taken.box)
  BY <1>1
<1>3. \A x \in ToSet(Taken.box) : x.k = "layout" => x \in ToSet(Now.box)
  BY <1>1
<1>4. alive \subseteq alive /\ \A a \in alive : Taken.calls[a] = Now.calls[a]
  BY <1>1
<1> QED BY <1>1, <1>2, <1>3, <1>4, FrameMenus

\* Another menu's message is taken, or one that says nothing.
LEMMA LayoutsTaken ==
  ASSUME Types, NEW k, Incoming(k), k \in {"layout", "layout updated"}, NEW lay \in [Apps -> MenuLayouts],
         Points(Now), Menus(Now, alive, lay),
         k = "layout" => M.i \notin LiveSet(Now) \/ sni[M.i].menu.there = FALSE,
         k = "layout updated" => \A i \in LiveSet(Now) : sni[i].uid = M.a => sni[i].menu.there = FALSE
  PROVE  Menus(Taken, alive, lay)
<1>1. /\ Now \in States /\ Taken \in States /\ Taken.sni = sni /\ Now.sni = sni /\ Taken.calls = Now.calls /\ M.k = k
      /\ ToSet(Now.box) = {M} \cup ToSet(Taken.box)
  BY NowFields, TakenFields
<1>2. KeepsOwners(Now, Taken) /\ LiveSet(Taken) = LiveSet(Now) /\ alive \subseteq alive
  BY <1>1 DEF KeepsOwners, LiveSet
<1>3. \A x \in ToSet(Taken.box) : x.k = "layout" => x \in ToSet(Now.box)
  BY <1>1
<1>4. ASSUME NEW i \in LiveSet(Taken) PROVE MenuStays(Now, Taken, i, alive, lay)
  <2>1. i \in DOMAIN sni /\ i \in LiveSet(Now) /\ SameMenu(Taken.sni[i].menu, Now.sni[i].menu)
    BY <1>1, <1>2 DEF LiveSet, SameMenu
  <2>2. PICK a \in Apps : a = sni[i].uid
    BY <2>1, SniFields
  <2>3. ASSUME sni[i].menu.there = TRUE, Awaits(Now, i, a, lay[a]) PROVE Awaits(Taken, i, a, lay[a])
    <3>1. CASE \E r \in ToSet(Now.calls[a]) : r.k = "layout" /\ r.i = i
      BY <1>1, <3>1 DEF Awaits
    <3>2. CASE \E x \in ToSet(Now.box) : x.k = "layout" /\ x.i = i /\ x.layout = lay[a]
      <4>1. PICK x \in ToSet(Now.box) : x.k = "layout" /\ x.i = i /\ x.layout = lay[a]
        BY <3>2
      <4>2. x # M
        BY <1>1, <2>1, <2>3, <4>1
      <4> QED BY <1>1, <4>1, <4>2 DEF Awaits
    <3>3. CASE Msg("layout updated", a) \in ToSet(Now.box)
      <4>1. Msg("layout updated", a).k = "layout updated" /\ Msg("layout updated", a).a = a
        BY DEF Msg
      <4>2. Msg("layout updated", a) # M
        BY <1>1, <2>1, <2>2, <2>3, <4>1
      <4> QED BY <1>1, <3>3, <4>2 DEF Awaits
    <3> QED BY <2>3, <3>1, <3>2, <3>3 DEF Awaits
  <2> QED BY <1>1, <2>1, <2>2, <2>3 DEF MenuStays
<1> QED BY <1>1, <1>2, <1>3, <1>4, MenusKept

\* The layout is read again.
LEMMA UpdatedMenus ==
  ASSUME Types, Incoming("layout updated"), M.a \in Apps, NEW lay \in [Apps -> MenuLayouts],
         Points(Now), Paired(Now), Menus(Now, alive, lay), NEW t \in States,
         NEW i \in LiveSet(Now), sni[i].uid = M.a, NEW r \in Calls, r.k = "layout", r.i = i, Asks(Taken, t, i, r),
         SameMenu(t.sni[i].menu, sni[i].menu)
  PROVE  Menus(t, alive, lay)
<1>0. PICK a \in Apps : a = M.a
  OBVIOUS
<1>1. /\ Now \in States /\ Taken \in States /\ Taken.sni = sni /\ Now.sni = sni /\ Taken.calls = Now.calls
      /\ M.k = "layout updated" /\ ToSet(Now.box) = {M} \cup ToSet(Taken.box)
  BY NowFields, TakenFields
<1>2. i \in DOMAIN sni
  BY <1>1 DEF LiveSet
<1>3. Sent(t, Taken.box, Taken.calls, a, r) /\ Changed(Taken, t, i)
  BY <1>0, <1>1 DEF Asks
<1>4. /\ \A b \in Apps : ToSet(Taken.calls[b]) \subseteq ToSet(t.calls[b])
      /\ ToSet(Taken.box) \subseteq ToSet(t.box)
      /\ \A x \in ToSet(t.box) : x \in ToSet(Taken.box) \/ x.k = "prop"
      /\ a \in alive => r \in ToSet(t.calls[a])
  BY <1>1, <1>3, SentMore
<1>5. KeepsOwners(Now, t) /\ DOMAIN t.sni = DOMAIN sni /\ \A j \in DOMAIN sni : t.sni[j].live = sni[j].live
  BY <1>1, <1>3 DEF Changed, KeepsOwners
<1>6. LiveSet(t) = LiveSet(Now) /\ alive \subseteq alive
  BY <1>1, <1>5 DEF LiveSet
<1>7. \A x \in ToSet(t.box) : x.k = "layout" => x \in ToSet(Now.box)
  BY <1>1, <1>4
<1>8. ASSUME NEW j \in LiveSet(t) PROVE MenuStays(Now, t, j, alive, lay)
  <2>1. j \in DOMAIN sni /\ j \in LiveSet(Now)
    BY <1>1, <1>6 DEF LiveSet
  <2>2. CASE j = i
    <3>1. t.sni[j].uid = a
      BY <1>0, <1>1, <1>2, <1>5, <2>2 DEF KeepsOwners
    <3>2. a \in alive => Awaits(t, j, a, lay[a])
      BY <1>4, <2>2 DEF Awaits
    <3> QED BY <1>1, <2>1, <2>2, <3>1, <3>2 DEF MenuStays
  <2>3. CASE j # i
    <3>1. t.sni[j] = sni[j]
      BY <1>1, <1>3, <2>1, <2>3 DEF Changed
    <3>2. SameMenu(t.sni[j].menu, Now.sni[j].menu)
      BY <1>1, <3>1 DEF SameMenu
    <3>3. PICK b \in Apps : b = sni[j].uid
      BY <2>1, SniFields
    <3>4. b # a
      <4>1. \A x, y \in LiveSet(Now) : Now.sni[x].uid = Now.sni[y].uid => x = y
        BY Zenon DEF Paired
      <4> QED BY <1>0, <1>1, <2>1, <2>3, <3>3, <4>1
    <3>5. Awaits(Now, j, b, lay[b]) => Awaits(t, j, b, lay[b])
      <4> SUFFICES ASSUME Awaits(Now, j, b, lay[b]) PROVE Awaits(t, j, b, lay[b])
        OBVIOUS
      <4>1. CASE \E y \in ToSet(Now.calls[b]) : y.k = "layout" /\ y.i = j
        BY <1>1, <1>4, <4>1 DEF Awaits
      <4>2. CASE \E x \in ToSet(Now.box) : x.k = "layout" /\ x.i = j /\ x.layout = lay[b]
        BY <1>1, <1>4, <4>2 DEF Awaits
      <4>3. CASE Msg("layout updated", b) \in ToSet(Now.box)
        <5>1. Msg("layout updated", b).a = b
          BY DEF Msg
        <5>2. Msg("layout updated", b) # M
          BY <1>0, <3>4, <5>1
        <5> QED BY <1>1, <1>4, <4>3, <5>2 DEF Awaits
      <4> QED BY <4>1, <4>2, <4>3 DEF Awaits
    <3> QED BY <2>1, <3>1, <3>2, <3>3, <3>5 DEF MenuStays
  <2> QED BY <2>2, <2>3
<1> QED BY <1>1, <1>5, <1>6, <1>7, <1>8, MenusKept

\* What a layout that arrives makes of the menu
LEMMA Applying ==
  ASSUME NEW menu \in MenuSet, NEW node \in Nodes, NEW got \in MenuLayouts
  PROVE  \E n \in MenuSet :
           /\ n = ApplyLayout(menu, node, got) /\ n.there = menu.there
           /\ got.rev <= menu.rev => SameMenu(n, menu)
           /\ menu.rev < got.rev => n.rev = got.rev /\ (n.lost = TRUE \/ ShowsLayout(n, got))
<1>1. menu.root \in Seq(Entries) /\ menu.sub \in Seq(Entries) /\ menu.rev \in Nat /\ menu.there \in BOOLEAN
  BY DEF MenuSet
<1>2. /\ got.root \in Seq(Entries) /\ got.sub \in Seq(Entries) /\ OwnIds(got.root) /\ OwnIds(got.sub)
      /\ got.rev \in Nat /\ got.rev # 0
  BY DEF MenuLayouts
<1>3. PICK root \in Seq(Entries) : root = Reconcile(menu.root, got.root) /\ ToSet(root) = ToSet(got.root)
  BY <1>1, <1>2, ReconcileShows, Zenon
<1>4. PICK sub \in Seq(Entries) : sub = Reconcile(menu.sub, got.sub) /\ ToSet(sub) = ToSet(got.sub)
  BY <1>1, <1>2, ReconcileShows, Zenon
<1>5. PICK n \in MenuSet : n = ApplyLayout(menu, node, got)
  BY Applied
<1>6. CASE got.rev <= menu.rev
  <2>1. n = [menu EXCEPT !.timed = TRUE]
    BY <1>1, <1>2, <1>5, <1>6 DEF ApplyLayout
  <2>2. SameMenu(n, menu) /\ n.there = menu.there
    BY <2>1 DEF SameMenu, MenuSet
  <2> QED BY <1>1, <1>2, <1>5, <1>6, <2>2
<1>7. CASE menu.rev < got.rev /\ node = "sub"
  <2>1. n = [[menu EXCEPT !.timed = TRUE] EXCEPT !.rev = got.rev, !.lost = TRUE]
    BY <1>1, <1>2, <1>5, <1>7 DEF ApplyLayout
  <2>2. n.rev = got.rev /\ n.lost = TRUE /\ n.there = menu.there
    BY <2>1 DEF MenuSet
  <2> QED BY <1>1, <1>2, <1>5, <1>7, <2>2
<1>8. CASE menu.rev < got.rev /\ node # "sub"
  <2>1. n = [[menu EXCEPT !.timed = TRUE] EXCEPT !.rev = got.rev, !.lost = FALSE, !.root = root, !.sub = sub]
    BY <1>1, <1>2, <1>3, <1>4, <1>5, <1>8 DEF ApplyLayout, MenuSet
  <2>2. n.rev = got.rev /\ n.root = root /\ n.sub = sub /\ n.there = menu.there
    BY <2>1 DEF MenuSet
  <2>3. ShowsLayout(n, got)
    BY <1>3, <1>4, <2>2 DEF ShowsLayout
  <2> QED BY <1>1, <1>2, <1>5, <1>8, <2>2, <2>3
<1>9. got.rev <= menu.rev \/ menu.rev < got.rev
  BY <1>1, <1>2
<1> QED BY <1>6, <1>7, <1>8, <1>9, Zenon

LEMMA LayoutMenus ==
  ASSUME Types, Incoming("layout"), NEW lay \in [Apps -> MenuLayouts],
         Points(Now), Menus(Now, alive, lay), NEW i \in LiveSet(Now), i = M.i, sni[i].menu.there = TRUE,
         M.node \in Nodes, M.layout \in MenuLayouts, NEW t \in States, NEW x, BecomesItem(Taken, t, i, x),
         x.menu = ApplyLayout(sni[i].menu, M.node, M.layout)
  PROVE  Menus(t, alive, lay)
<1>1. /\ Now \in States /\ Now.sni = sni /\ Taken.sni = sni /\ Taken.calls = Now.calls
      /\ M.k = "layout" /\ ToSet(Now.box) = {M} \cup ToSet(Taken.box)
  BY NowFields, TakenFields
<1>2. i \in DOMAIN sni
  BY <1>1 DEF LiveSet
<1>3. PICK a \in Apps : a = sni[i].uid
  BY <1>2, SniFields
<1>4. PICK m \in MenuSet : m = sni[i].menu
  BY <1>2, SniFields
<1>5. PICK g \in MenuLayouts : g = M.layout
  OBVIOUS
<1>6. PICK l \in MenuLayouts : l = lay[a]
  OBVIOUS
<1>7. PICK n \in MenuSet :
           /\ n = ApplyLayout(m, M.node, g) /\ n.there = m.there
           /\ g.rev <= m.rev => SameMenu(n, m)
           /\ m.rev < g.rev => n.rev = g.rev /\ (n.lost = TRUE \/ ShowsLayout(n, g))
  BY Applying
<1>8. /\ DOMAIN t.sni = DOMAIN sni /\ \A j \in DOMAIN sni : j # i => t.sni[j] = sni[j]
      /\ t.sni[i].uid = a /\ \A j \in DOMAIN sni : t.sni[j].live = sni[j].live
      /\ t.box = Taken.box /\ t.calls = Taken.calls /\ t.sni[i].menu = n
  BY <1>1, <1>2, <1>3, <1>4, <1>5, <1>7 DEF BecomesItem, Changed
<1>9. g.rev <= l.rev /\ (g.rev = l.rev => g = l) /\ g.rev \in Nat /\ l.rev \in Nat
  <2>1. ReplyFits(M, lay[Now.sni[M.i].uid])
    BY <1>1, Zenon DEF Menus, RepliesFit
  <2>2. ReplyFits(M, l)
    BY <1>1, <1>3, <1>6, <2>1
  <2> QED BY <1>5, <2>2 DEF ReplyFits, MenuLayouts
<1>10. m.rev \in Nat /\ MenuFits(m, l) /\ (a \in alive => m.rev = l.rev \/ Awaits(Now, i, a, l))
  <2>1. MenuKeeps(Now, i, alive, lay)
    BY Zenon DEF Menus
  <2> QED BY <1>1, <1>3, <1>4, <1>6, <2>1 DEF MenuKeeps, Fetched, MenuSet
<1>11. MenuFits(n, l)
  <2>1. CASE g.rev <= m.rev
    BY <1>7, <1>10, <2>1, SameFits
  <2>2. CASE m.rev < g.rev
    BY <1>7, <1>9, <2>2 DEF MenuFits
  <2> QED BY <1>9, <1>10, <2>1, <2>2
<1>12. a \in alive => n.rev = l.rev \/ Awaits(t, i, a, l)
  <2> SUFFICES ASSUME a \in alive, n.rev # l.rev PROVE Awaits(t, i, a, l)
    OBVIOUS
  <2>1. m.rev # l.rev /\ g # l
    <3>1. CASE g.rev <= m.rev
      <4>1. n.rev = m.rev
        BY <1>7, <3>1 DEF SameMenu
      <4>2. m.rev <= l.rev
        BY <1>10 DEF MenuFits
      <4> QED BY <1>9, <1>10, <3>1, <4>1, <4>2
    <3>2. CASE m.rev < g.rev
      BY <1>7, <1>9, <1>10, <3>2
    <3> QED BY <1>9, <1>10, <3>1, <3>2
  <2>2. Awaits(Now, i, a, l)
    BY <1>10, <2>1
  <2>3. CASE \E r \in ToSet(Now.calls[a]) : r.k = "layout" /\ r.i = i
    BY <1>1, <1>8, <2>3 DEF Awaits
  <2>4. CASE \E y \in ToSet(Now.box) : y.k = "layout" /\ y.i = i /\ y.layout = l
    <3>1. PICK y \in ToSet(Now.box) : y.k = "layout" /\ y.i = i /\ y.layout = l
      BY <2>4
    <3>2. y # M
      BY <1>5, <2>1, <3>1
    <3> QED BY <1>1, <1>8, <3>1, <3>2 DEF Awaits
  <2>5. CASE Msg("layout updated", a) \in ToSet(Now.box)
    <3>1. Msg("layout updated", a).k = "layout updated"
      BY DEF Msg
    <3>2. Msg("layout updated", a) # M
      BY <1>1, <3>1
    <3> QED BY <1>1, <1>8, <2>5, <3>2 DEF Awaits
  <2> QED BY <2>2, <2>3, <2>4, <2>5 DEF Awaits
<1>13. MenuKeeps(t, i, alive, lay)
  BY <1>6, <1>8, <1>11, <1>12 DEF MenuKeeps, Fetched
<1>14. LiveSet(t) = LiveSet(Now)
  BY <1>1, <1>8 DEF LiveSet
<1>15. RepliesFit(t, lay)
  <2> SUFFICES ASSUME NEW y \in ToSet(t.box), y.k = "layout" PROVE ReplyFits(y, lay[t.sni[y.i].uid])
    BY DEF RepliesFit
  <2>1. y \in ToSet(Now.box)
    BY <1>1, <1>8
  <2>2. y.i \in DOMAIN sni
    BY <1>1, <2>1 DEF Points
  <2>3. ReplyFits(y, lay[sni[y.i].uid])
    BY <1>1, <2>1 DEF Menus, RepliesFit
  <2>4. t.sni[y.i].uid = sni[y.i].uid
    BY <1>3, <1>8, <2>2
  <2> QED BY <2>3, <2>4
<1>16. ASSUME NEW j \in LiveSet(t), j # i PROVE MenuKeeps(t, j, alive, lay)
  <2>1. j \in DOMAIN sni /\ j \in LiveSet(Now)
    BY <1>1, <1>14 DEF LiveSet
  <2>2. PICK b \in Apps : b = sni[j].uid
    BY <2>1, SniFields
  <2>3. t.sni[j] = sni[j]
    BY <1>8, <1>16, <2>1
  <2>4. MenuKeeps(Now, j, alive, lay)
    BY <2>1, Zenon DEF Menus
  <2>5. Awaits(Now, j, b, lay[b]) => Awaits(t, j, b, lay[b])
    <3> SUFFICES ASSUME Awaits(Now, j, b, lay[b]) PROVE Awaits(t, j, b, lay[b])
      OBVIOUS
    <3>1. CASE \E r \in ToSet(Now.calls[b]) : r.k = "layout" /\ r.i = j
      BY <1>1, <1>8, <3>1 DEF Awaits
    <3>2. CASE \E y \in ToSet(Now.box) : y.k = "layout" /\ y.i = j /\ y.layout = lay[b]
      <4>1. PICK y \in ToSet(Now.box) : y.k = "layout" /\ y.i = j /\ y.layout = lay[b]
        BY <3>2
      <4>2. y # M
        BY <1>16, <4>1
      <4> QED BY <1>1, <1>8, <4>1, <4>2 DEF Awaits
    <3>3. CASE Msg("layout updated", b) \in ToSet(Now.box)
      <4>1. Msg("layout updated", b).k = "layout updated"
        BY DEF Msg
      <4>2. Msg("layout updated", b) # M
        BY <1>1, <4>1
      <4> QED BY <1>1, <1>8, <3>3, <4>2 DEF Awaits
    <3> QED BY <3>1, <3>2, <3>3 DEF Awaits
  <2> QED BY <1>1, <2>2, <2>3, <2>4, <2>5 DEF MenuKeeps, Fetched
<1>17. \A j \in LiveSet(t) : MenuKeeps(t, j, alive, lay)
  BY <1>13, <1>16
<1> QED BY <1>15, <1>17, Zenon DEF Menus

LEMMA SameItself == ASSUME NEW m PROVE SameMenu(m, m)
BY DEF SameMenu

LEMMA WatchesMenus ==
  ASSUME Base, Menus(Now, alive, layout), Watches
  PROVE  Menus(Now', alive, layout)
<1>1. Types /\ Points(Now) /\ layout \in [Apps -> MenuLayouts]
  BY DEF Base, Sound, Types, BusTypes
<1>2. Now' \in States
  BY WatchesBase DEF Base, Types
<1>3. ItemsSame /\ Sends(inbox, inbox', ItemKinds)
  BY <1>1, WatchesFrame
<1>4. Now \in States /\ Now.sni = sni /\ Now.box = inbox /\ Now.calls = asked /\ inbox \in Seq(Messages)
  BY <1>1, NowFields
<1>5. PICK t \in States : t = Now' /\ t.sni = Now.sni /\ t.box = inbox' /\ t.calls = Now.calls
  BY <1>2, <1>3, <1>4 DEF Now, Items, ItemsSame, ItemsStay
<1>6. inbox' \in Seq(Messages) /\ \A x \in ItemKinds : x \in ToSet(inbox') <=> x \in ToSet(inbox)
  BY <1>3, <1>4, SendsIn
<1>7. \A x \in Messages : x.k \in {"layout", "layout updated"} => x \in ItemKinds
  BY DEF ItemKinds, Kinds
<1>8. \A x \in ToSet(Now.box) : x.k \in {"layout", "layout updated"} => x \in ToSet(t.box)
  <2>1. ToSet(inbox) \subseteq Messages
    BY <1>4, InType
  <2> QED BY <1>4, <1>5, <1>6, <1>7, <2>1
<1>9. \A x \in ToSet(t.box) : x.k = "layout" => x \in ToSet(Now.box)
  <2>1. ToSet(inbox') \subseteq Messages
    BY <1>6, InType
  <2> QED BY <1>4, <1>5, <1>6, <1>7, <2>1
<1>10. alive \subseteq alive /\ \A a \in alive : t.calls[a] = Now.calls[a]
  BY <1>5
<1>11. Menus(t, alive, layout)
  BY <1>1, <1>4, <1>5, <1>8, <1>9, <1>10, FrameMenus
<1> QED BY <1>5, <1>11

LEMMA PropMenus ==
  ASSUME Base, Menus(Now, alive, layout), ItemProp
  PROVE  Menus(Now', alive, layout)
<1>1. Types /\ Points(Now) /\ layout \in [Apps -> MenuLayouts]
  BY DEF Base, Sound, Types, BusTypes
<1>2. /\ M.i \in DOMAIN sni /\ M.values \in Answers /\ Now' \in States
      /\ \/ Now' = Taken /\ M.i \notin LiveSet(Now)
         \/ M.i \in LiveSet(Now) /\ StoredIn(Taken, Now', M.i, M.ps, M.values)
  BY <1>1, PropDoes
<1>3. Incoming("prop") /\ "prop" \notin {"layout", "layout updated"} /\ "prop" = "prop"
  BY Zenon DEF ItemProp
<1>4. Taken \in States /\ Taken.sni = sni /\ Points(Taken)
  <2>1. Now \in States /\ Now.sni = sni /\ Taken \in States /\ Taken.sni = sni /\ Taken.calls = Now.calls
        /\ ToSet(Now.box) = {M} \cup ToSet(Taken.box)
    BY <1>1, <1>3, NowFields, TakenFields
  <2>2. Points(Taken)
    BY <1>1, <2>1 DEF Points
  <2> QED BY <2>1, <2>2
<1>5. Menus(Taken, alive, layout)
  BY <1>1, <1>3, TakenMenus
<1>6. CASE Now' = Taken
  BY <1>5, <1>6
<1>7. CASE StoredIn(Taken, Now', M.i, M.ps, M.values)
  <2>1. PICK t \in States : t = Now'
    BY <1>2
  <2>2. PICK i \in DOMAIN sni : i = M.i
    BY <1>2
  <2>3. StoredIn(Taken, t, i, M.ps, M.values) /\ i \in DOMAIN Taken.sni
    BY <1>4, <1>7, <2>1, <2>2
  <2>4. Changed(Taken, t, i)
    BY <2>3 DEF StoredIn
  <2>5. CASE M.values = Failed \/ "Menu" \notin M.ps
    <3>1. t.sni[i].menu = Taken.sni[i].menu /\ t.box = Taken.box /\ t.calls = Taken.calls
      BY <2>3, <2>5 DEF StoredIn
    <3>2. SameMenu(t.sni[i].menu, Taken.sni[i].menu)
      BY <3>1, SameItself
    <3>3. Menus(t, alive, layout)
      BY <1>1, <1>4, <1>5, <2>3, <2>4, <3>1, <3>2, StillMenus
    <3> QED BY <2>1, <3>3
  <2>6. CASE M.values # Failed /\ "Menu" \in M.ps
    <3>1. t.sni[i].menu = NewMenu /\ Sent(t, Taken.box, Taken.calls, Taken.sni[i].uid, MenuCall("layout", i, "root"))
      BY <2>3, <2>6 DEF StoredIn
    <3>2. i \in Nat
      BY <1>1, SniFields
    <3>3. PICK r \in Calls : r = MenuCall("layout", i, "root") /\ r.k = "layout" /\ r.i = i
      BY <3>2, RootCall
    <3>4. Sent(t, Taken.box, Taken.calls, Taken.sni[i].uid, r)
      BY <3>1, <3>3
    <3>5. Menus(t, alive, layout)
      BY <1>1, <1>4, <1>5, <2>3, <2>4, <3>1, <3>3, <3>4, SentMenus
    <3> QED BY <2>1, <3>5
  <2> QED BY <2>5, <2>6
<1> QED BY <1>2, <1>6, <1>7

\* A call is sent, and no menu is changed.
LEMMA AsksMenus ==
  ASSUME NEW s \in States, NEW t \in States, NEW i \in DOMAIN s.sni, NEW r, NEW lay \in [Apps -> MenuLayouts],
         Points(s), Menus(s, alive, lay), Asks(s, t, i, r), SameMenu(t.sni[i].menu, s.sni[i].menu)
  PROVE  Menus(t, alive, lay)
<1>1. r \in Calls /\ Changed(s, t, i) /\ Sent(t, s.box, s.calls, s.sni[i].uid, r)
  BY DEF Asks
<1> QED BY <1>1, SentMenus

LEMMA SignalMenus ==
  ASSUME Base, Menus(Now, alive, layout), ItemSignal
  PROVE  Menus(Now', alive, layout)
<1>1. Types /\ Sound(Now, alive) /\ Points(Now) /\ layout \in [Apps -> MenuLayouts]
  BY DEF Base, Sound, Types, BusTypes
<1>2. /\ M.s \in Signals /\ Now' \in States
      /\ \/ Now' = Taken
         \/ \E i \in LiveSet(Now) :
              /\ Asks(Taken, Now', i, Get(i, PropsOf(M.s)))
              /\ Now'.sni[i] = [sni[i] EXCEPT !.ref = @ + Cardinality(PropsOf(M.s))]
  BY <1>1, SignalDoes
<1>i. Incoming("signal") /\ "signal" \notin {"layout", "layout updated"} /\ "signal" # "prop"
  BY Zenon DEF ItemSignal
<1>3. /\ Taken \in States /\ Taken.sni = sni /\ Sound(Taken, alive) /\ Menus(Taken, alive, layout)
      /\ Now \in States /\ Now.sni = sni
  BY <1>1, <1>i, TakenFields, TakenSound, TakenMenus, NowFields
<1>4. CASE Now' = Taken
  BY <1>3, <1>4
<1>5. ASSUME NEW i \in LiveSet(Now), Asks(Taken, Now', i, Get(i, PropsOf(M.s))),
             Now'.sni[i] = [sni[i] EXCEPT !.ref = @ + Cardinality(PropsOf(M.s))]
      PROVE  Menus(Now', alive, layout)
  <2>1. i \in DOMAIN sni
    BY <1>3 DEF LiveSet
  <2>2. sni[i] \in ItemSet
    BY <1>1, <2>1, SniFields
  <2>3. Now'.sni[i].menu = Taken.sni[i].menu
    BY <1>3, <1>5, <2>2 DEF ItemSet
  <2>4. PICK t \in States : t = Now'
    BY <1>2
  <2>5. Asks(Taken, t, i, Get(i, PropsOf(M.s))) /\ SameMenu(t.sni[i].menu, Taken.sni[i].menu) /\ i \in DOMAIN Taken.sni
    BY <1>3, <1>5, <2>1, <2>3, <2>4, SameItself
  <2>6. Points(Taken)
    BY <1>3 DEF Sound
  <2>7. Menus(t, alive, layout)
    BY <1>1, <1>3, <2>5, <2>6, AsksMenus
  <2> QED BY <2>4, <2>7
<1> QED BY <1>2, <1>4, <1>5

LEMMA UpdateMenus ==
  ASSUME Base, Menus(Now, alive, layout), MenuLayoutUpdated
  PROVE  Menus(Now', alive, layout)
<1>1. Types /\ Points(Now) /\ Paired(Now) /\ layout \in [Apps -> MenuLayouts]
  BY DEF Base, Sound, Types, BusTypes
<1>2. /\ M.k = "layout updated" /\ M.a \in Apps /\ Now' \in States
      /\ \/ Now' = Taken /\ \A i \in LiveSet(Now) : sni[i].uid = M.a => sni[i].menu.there = FALSE
         \/ \E i \in LiveSet(Now) :
              /\ sni[i].uid = M.a /\ Asks(Taken, Now', i, MenuCall("layout", i, "root"))
              /\ Now'.sni[i] = [sni[i] EXCEPT !.menu = Suppressed(@)]
  BY <1>1, UpdatedDoes
<1>i. Incoming("layout updated") /\ "layout updated" \in {"layout", "layout updated"} /\ "layout updated" # "layout"
  BY Zenon DEF MenuLayoutUpdated
<1>3. Now \in States /\ Now.sni = sni
  BY <1>1, NowFields
<1>4. CASE Now' = Taken /\ \A i \in LiveSet(Now) : sni[i].uid = M.a => sni[i].menu.there = FALSE
  <2>1. Menus(Taken, alive, layout)
    BY <1>1, <1>i, <1>4, LayoutsTaken
  <2> QED BY <1>4, <2>1
<1>5. ASSUME NEW i \in LiveSet(Now), sni[i].uid = M.a, Asks(Taken, Now', i, MenuCall("layout", i, "root")),
             Now'.sni[i] = [sni[i] EXCEPT !.menu = Suppressed(@)]
      PROVE  Menus(Now', alive, layout)
  <2>1. i \in DOMAIN sni
    BY <1>3 DEF LiveSet
  <2>2. sni[i] \in ItemSet /\ sni[i].menu \in MenuSet /\ i \in Nat
    BY <1>1, <2>1, SniFields
  <2>3. Now'.sni[i].menu = Suppressed(sni[i].menu)
    BY <1>5, <2>2 DEF ItemSet
  <2>4. SameMenu(Suppressed(sni[i].menu), sni[i].menu)
    BY <2>2 DEF Suppressed, SameMenu, MenuSet
  <2>5. PICK t \in States : t = Now'
    BY <1>2
  <2>6. PICK r \in Calls : r = MenuCall("layout", i, "root") /\ r.k = "layout" /\ r.i = i
    BY <2>2, RootCall
  <2>7. Asks(Taken, t, i, r) /\ SameMenu(t.sni[i].menu, sni[i].menu)
    BY <1>5, <2>3, <2>4, <2>5, <2>6
  <2>8. Menus(t, alive, layout)
    BY <1>1, <1>2, <1>5, <1>i, <2>6, <2>7, UpdatedMenus
  <2> QED BY <2>5, <2>8
<1> QED BY <1>2, <1>4, <1>5

LEMMA ArrivesMenus ==
  ASSUME Base, Menus(Now, alive, layout), MenuLayout
  PROVE  Menus(Now', alive, layout)
<1>1. Types /\ Points(Now) /\ layout \in [Apps -> MenuLayouts]
  BY DEF Base, Sound, Types, BusTypes
<1>2. /\ M.k = "layout" /\ M.i \in DOMAIN sni /\ M.node \in Nodes /\ M.layout \in MenuLayouts /\ Now' \in States
      /\ \/ Now' = Taken /\ (M.i \notin LiveSet(Now) \/ sni[M.i].menu.there = FALSE)
         \/ /\ M.i \in LiveSet(Now) /\ sni[M.i].menu.there = TRUE
            /\ BecomesItem(Taken, Now', M.i, [sni[M.i] EXCEPT !.menu = ApplyLayout(@, M.node, M.layout)])
  BY <1>1, LayoutDoes
<1>i. Incoming("layout") /\ "layout" \in {"layout", "layout updated"} /\ "layout" # "layout updated"
  BY Zenon DEF MenuLayout
<1>4. CASE Now' = Taken /\ (M.i \notin LiveSet(Now) \/ sni[M.i].menu.there = FALSE)
  <2>1. Menus(Taken, alive, layout)
    BY <1>1, <1>i, <1>4, LayoutsTaken
  <2> QED BY <1>4, <2>1
<1>5. CASE /\ M.i \in LiveSet(Now) /\ sni[M.i].menu.there = TRUE
           /\ BecomesItem(Taken, Now', M.i, [sni[M.i] EXCEPT !.menu = ApplyLayout(@, M.node, M.layout)])
  <2> DEFINE x == [sni[M.i] EXCEPT !.menu = ApplyLayout(@, M.node, M.layout)]
  <2>1. sni[M.i] \in ItemSet
    BY <1>1, <1>2, SniFields
  <2>2. x.menu = ApplyLayout(sni[M.i].menu, M.node, M.layout)
    BY <2>1 DEF ItemSet
  <2>3. BecomesItem(Taken, Now', M.i, x)
    BY <1>5
  <2> HIDE DEF x
  <2>4. PICK t \in States : t = Now'
    BY <1>2
  <2>5. PICK i \in LiveSet(Now) : i = M.i
    BY <1>5
  <2>6. BecomesItem(Taken, t, i, x) /\ x.menu = ApplyLayout(sni[i].menu, M.node, M.layout) /\ sni[i].menu.there = TRUE
    BY <1>5, <2>2, <2>3, <2>4, <2>5
  <2>7. Menus(t, alive, layout)
    BY <1>1, <1>2, <1>i, <2>5, <2>6, LayoutMenus
  <2> QED BY <2>4, <2>7
<1> QED BY <1>2, <1>4, <1>5

LEMMA ItemStepsMenus ==
  ASSUME Base, Menus(Now, alive, layout), ItemSteps
  PROVE  Menus(Now', alive, layout)
<1>1. Types /\ Sound(Now, alive) /\ Points(Now) /\ Paired(Now) /\ layout \in [Apps -> MenuLayouts]
  BY DEF Base, Sound, Types, BusTypes
<1>2. Now \in States /\ Now.sni = sni /\ Now.box = inbox /\ Now.calls = asked /\ Now.tray = tray
  BY <1>1, NowFields
<1>3. \A k \in {"list", "registered", "unregistered", "about to show"} : Incoming(k) =>
        /\ Taken \in States /\ Taken.sni = sni /\ Sound(Taken, alive) /\ Points(Taken) /\ Menus(Taken, alive, layout)
  <2> SUFFICES ASSUME NEW k \in {"list", "registered", "unregistered", "about to show"}, Incoming(k)
               PROVE  /\ Taken \in States /\ Taken.sni = sni /\ Sound(Taken, alive) /\ Points(Taken)
                      /\ Menus(Taken, alive, layout)
    OBVIOUS
  <2>1. k # "prop" /\ k \notin {"layout", "layout updated"}
    OBVIOUS
  <2>2. Taken \in States /\ Taken.sni = sni
    BY <1>1, TakenFields
  <2>3. Sound(Taken, alive)
    BY <1>1, <2>1, TakenSound
  <2>4. Menus(Taken, alive, layout)
    BY <1>1, <2>1, TakenMenus
  <2>5. Points(Taken)
    BY <2>3 DEF Sound
  <2> QED BY <2>2, <2>3, <2>4, <2>5
<1>5. CASE HostList
  <2>1. /\ Now' = News(Taken, SetToSeq(M.uids)) /\ Now' \in States /\ SetToSeq(M.uids) \in Seq(Apps)
    BY <1>1, <1>5, ListDoes
  <2>i. Incoming("list")
    BY <1>5, Zenon DEF HostList
  <2>2. Taken \in States /\ Sound(Taken, alive) /\ Menus(Taken, alive, layout)
    BY <1>3, <2>i
  <2>3. Menus(News(Taken, SetToSeq(M.uids)), alive, layout)
    BY <1>1, <2>1, <2>2, NewsMenus
  <2> QED BY <2>1, <2>3
<1>6. CASE HostItemRegistered
  <2>1. M.a \in Apps /\ Now' = ItemNew(Taken, M.a) /\ Now' \in States
    BY <1>1, <1>6, RegisteredDoes
  <2>i. Incoming("registered")
    BY <1>6, Zenon DEF HostItemRegistered
  <2>2. Taken \in States /\ Points(Taken) /\ Menus(Taken, alive, layout)
    BY <1>3, <2>i
  <2>3. Menus(ItemNew(Taken, M.a), alive, layout)
    BY <1>1, <2>1, <2>2, NewMenus
  <2> QED BY <2>1, <2>3
<1>7. CASE HostItemUnregistered
  <2>1. /\ M.a \in Apps /\ Now' \in States
        /\ Now' = Taken \/ \E i \in LiveSet(Now) : sni[i].uid = M.a /\ Now' = ItemFree(Taken, i)
    BY <1>1, <1>7, UnregisteredDoes
  <2>i. Incoming("unregistered")
    BY <1>7, Zenon DEF HostItemUnregistered
  <2>2. Taken \in States /\ Points(Taken) /\ Menus(Taken, alive, layout) /\ Taken.sni = sni
    BY <1>3, <2>i
  <2>4. CASE Now' = Taken
    BY <2>2, <2>4
  <2>5. ASSUME NEW i \in LiveSet(Now), Now' = ItemFree(Taken, i) PROVE Menus(Now', alive, layout)
    <3>0. i \in DOMAIN Taken.sni
      BY <1>2, <2>2 DEF LiveSet
    <3>1. Menus(ItemFree(Taken, i), alive, layout)
      BY <1>1, <2>2, <3>0, FreedMenus
    <3> QED BY <2>5, <3>1
  <2> QED BY <2>1, <2>4, <2>5
<1>12. CASE MenuAboutToShow
  <2>1. /\ M.i \in DOMAIN sni /\ Now' \in States
        /\ \/ Now' = Taken
           \/ Now'.sni = sni /\ Asks(Taken, Now', M.i, MenuCall("layout", M.i, M.node))
    BY <1>1, <1>12, ShowDoes
  <2>i. Incoming("about to show")
    BY <1>12, Zenon DEF MenuAboutToShow
  <2>2. Taken \in States /\ Points(Taken) /\ Menus(Taken, alive, layout) /\ Taken.sni = sni
    BY <1>3, <2>i
  <2>3. CASE Now' = Taken
    BY <2>2, <2>3
  <2>4. CASE Now'.sni = sni /\ Asks(Taken, Now', M.i, MenuCall("layout", M.i, M.node))
    <3>1. PICK t \in States : t = Now'
      BY <2>1
    <3>2. Asks(Taken, t, M.i, MenuCall("layout", M.i, M.node)) /\ SameMenu(t.sni[M.i].menu, Taken.sni[M.i].menu)
          /\ M.i \in DOMAIN Taken.sni
      BY <2>1, <2>2, <2>4, <3>1, SameItself
    <3>3. Menus(t, alive, layout)
      BY <1>1, <2>2, <3>2, AsksMenus
    <3> QED BY <3>1, <3>3
  <2> QED BY <2>1, <2>3, <2>4
<1>13. CASE TrayUpdate
  <2>1. \A j \in DOMAIN tray : tray[j].i \in DOMAIN sni
    BY <1>1, <1>2 DEF Paired, LiveSet
  <2>2. Now' \in States /\ Now'.sni = sni /\ Now'.box = inbox /\ Now'.calls = asked
    BY <1>1, <1>13, <2>1, UpdateDoes
  <2>3. PICK t \in States : t = Now'
    BY <2>2
  <2>4. t.sni = Now.sni /\ t.box = Now.box /\ t.calls = Now.calls
    BY <1>2, <2>2, <2>3
  <2>5. alive \subseteq alive /\ \A a \in alive : t.calls[a] = Now.calls[a]
    BY <2>4
  <2>6. /\ \A x \in ToSet(Now.box) : x.k \in {"layout", "layout updated"} => x \in ToSet(t.box)
        /\ \A x \in ToSet(t.box) : x.k = "layout" => x \in ToSet(Now.box)
    BY <2>4
  <2>7. Menus(t, alive, layout)
    BY <1>1, <1>2, <2>4, <2>5, <2>6, FrameMenus
  <2> QED BY <2>3, <2>7
<1>14. ASSUME NEW i \in DOMAIN sni, SuppressionEnds(i) PROVE Menus(Now', alive, layout)
  <2> DEFINE x == [sni[i] EXCEPT !.menu = SuppressionOver(@)]
  <2>1. Now' \in States /\ BecomesItem(Now, Now', i, x)
    BY <1>1, <1>14, SuppressionDoes
  <2>2. sni[i] \in ItemSet /\ sni[i].menu \in MenuSet
    BY <1>1, <1>2, SniFields
  <2>3. x.menu = SuppressionOver(sni[i].menu)
    BY <2>2 DEF ItemSet
  <2>4. SameMenu(SuppressionOver(sni[i].menu), sni[i].menu)
    BY <2>2 DEF SuppressionOver, SameMenu, MenuSet
  <2> HIDE DEF x
  <2>5. PICK t \in States : t = Now'
    BY <2>1
  <2>6. BecomesItem(Now, t, i, x)
    BY <2>1, <2>5
  <2>7. Changed(Now, t, i) /\ t.box = Now.box /\ t.calls = Now.calls /\ SameMenu(t.sni[i].menu, Now.sni[i].menu)
    BY <1>2, <2>3, <2>4, <2>6 DEF BecomesItem
  <2>8. Menus(t, alive, layout)
    BY <1>1, <1>2, <2>7, StillMenus
  <2> QED BY <2>5, <2>8
<1>15. ASSUME NEW i \in DOMAIN sni, NEW node \in Nodes, UserOpens(i, node)
       PROVE  Menus(Now', alive, layout)
  <2>1. Now' \in States /\ Now'.sni = sni /\ Asks(Now, Now', i, MenuCall("about to show", i, node))
    BY <1>1, <1>15, OpensDoes
  <2>2. PICK t \in States : t = Now'
    BY <2>1
  <2>3. Asks(Now, t, i, MenuCall("about to show", i, node)) /\ SameMenu(t.sni[i].menu, Now.sni[i].menu)
    BY <1>2, <2>1, <2>2, SameItself
  <2>4. Menus(t, alive, layout)
    BY <1>1, <1>2, <2>3, AsksMenus
  <2> QED BY <2>2, <2>4
<1>16. CASE \E i \in DOMAIN sni : SuppressionEnds(i) \/ \E node \in {"root", "sub"} : UserOpens(i, node)
  BY <1>14, <1>15, <1>16, Zenon DEF Nodes
<1> QED BY <1>5, <1>6, <1>7, <1>12, <1>13, <1>16, PropMenus, SignalMenus, UpdateMenus, ArrivesMenus, Zenon DEF ItemSteps

LEMMA QuitsMenus ==
  ASSUME Base, Base', Menus(Now, alive, layout), NEW a \in Apps, AppQuits(a)
  PROVE  Menus(Now', alive', layout)
<1>1. Types /\ Points(Now) /\ layout \in [Apps -> MenuLayouts]
  BY DEF Base, Sound, Types, BusTypes
<1>2. PICK told, failed, after \in Seq(Messages) : QuitsAs(a, told, failed, after)
  BY <1>1, QuitsDoes
<1>3. /\ asked' = [asked EXCEPT ![a] = <<>>] /\ ItemsStay /\ alive' = alive \ {a}
  BY <1>1, QuitsDoes
<1>4. Now \in States /\ Now.sni = sni /\ Now.box = inbox /\ Now.calls = asked /\ inbox \in Seq(Messages)
  BY <1>1, NowFields
<1>5. PICK t \in States : t = Now' /\ t.sni = sni /\ t.box = inbox' /\ t.calls = asked'
  BY <1>3 DEF Base, Types, Now, Items, ItemsStay
<1>6. ToSet(inbox') = ((ToSet(inbox) \cup ToSet(told)) \cup ToSet(failed)) \cup ToSet(after)
  <2> DEFINE g == inbox \o told
             h == g \o failed
  <2>1. g \in Seq(Messages) /\ ToSet(g) = ToSet(inbox) \cup ToSet(told)
    BY <1>4, InConcat
  <2> HIDE DEF g
  <2>2. h \in Seq(Messages) /\ ToSet(h) = ToSet(g) \cup ToSet(failed)
    BY <2>1, InConcat
  <2> HIDE DEF h
  <2>3. h \o after \in Seq(Messages) /\ ToSet(h \o after) = ToSet(h) \cup ToSet(after)
    BY <2>2, InConcat
  <2>4. inbox' = h \o after
    BY <1>2, Zenon DEF QuitsAs, g, h
  <2> QED BY <2>1, <2>2, <2>3, <2>4
<1>7. \A x \in (ToSet(told) \cup ToSet(failed)) \cup ToSet(after) : x.k # "layout"
  <2>1. Msg("gone", a).k = "gone" /\ Msg("unregistered", a).k = "unregistered"
    BY DEF Msg
  <2>2. ToSet(told) \subseteq {Msg("gone", a)} /\ ToSet(after) \subseteq {Msg("unregistered", a)}
        /\ \A x \in ToSet(failed) : x.k = "prop"
    BY <1>2 DEF QuitsAs
  <2> QED BY <2>1, <2>2
<1>8. /\ \A x \in ToSet(Now.box) : x.k \in {"layout", "layout updated"} => x \in ToSet(t.box)
      /\ \A x \in ToSet(t.box) : x.k = "layout" => x \in ToSet(Now.box)
  BY <1>4, <1>5, <1>6, <1>7
<1>9. alive' \subseteq alive /\ \A b \in alive' : t.calls[b] = Now.calls[b]
  BY <1>3, <1>4, <1>5
<1>10. PICK down \in SUBSET alive : down = alive' /\ \A b \in down : t.calls[b] = Now.calls[b]
  BY <1>9
<1>11. Menus(t, down, layout)
  BY <1>1, <1>4, <1>5, <1>8, <1>10, FrameMenus
<1> QED BY <1>5, <1>10, <1>11

LEMMA AnswersMenus ==
  ASSUME Base, Base', Menus(Now, alive, layout), NEW a \in Apps, NEW refresh \in BOOLEAN, AppAnswers(a, refresh)
  PROVE  Menus(Now', alive, layout)
<1>1. Types /\ Points(Now) /\ layout \in [Apps -> MenuLayouts]
  BY DEF Base, Sound, Types, BusTypes
<1>2. PICK f \in Seq(Messages) : AnswersAs(a, refresh, f)
  BY <1>1, AnswersDoes
<1>3. /\ asked' = [asked EXCEPT ![a] = <<>>] /\ ItemsStay
  BY <1>1, AnswersDoes
<1>4. Now \in States /\ Now.sni = sni /\ Now.box = inbox /\ Now.calls = asked /\ inbox \in Seq(Messages)
      /\ asked \in [Apps -> Seq(Calls)]
  BY <1>1, NowFields
<1>5. PICK t \in States : t = Now' /\ t.sni = sni /\ t.box = inbox' /\ t.calls = asked'
  BY <1>3 DEF Base, Types, Now, Items, ItemsStay
<1>6. ToSet(inbox') = ToSet(inbox) \cup ToSet(f) /\ DOMAIN f = DOMAIN asked[a]
  <2>1. inbox' = inbox \o f /\ DOMAIN f = DOMAIN asked[a]
    BY <1>2, Zenon DEF AnswersAs
  <2>2. ToSet(inbox \o f) = ToSet(inbox) \cup ToSet(f)
    BY <1>4, InConcat
  <2> QED BY <2>1, <2>2
<1>7. ASSUME NEW j \in DOMAIN f
      PROVE  /\ f[j].k = "layout" => f[j].layout = layout[a] /\ f[j].i \in DOMAIN sni /\ sni[f[j].i].uid = a
             /\ asked[a][j].k = "layout" => f[j].k = "layout" /\ f[j].i = asked[a][j].i /\ f[j].layout = layout[a]
  <2>1. PICK r \in Calls : r = asked[a][j] /\ r \in ToSet(asked[a])
    <3>1. asked[a] \in Seq(Calls)
      BY <1>4
    <3> QED BY <1>6, <3>1 DEF ToSet
  <2>2. /\ r.k = "get" => f[j] = PropReply(r.i, r.ps, prop[a])
        /\ r.k = "layout" => f[j] = LayoutReply(r.i, r.node, layout[a])
        /\ r.k = "about to show" => f[j] = AboutReply(r.i, r.node, refresh)
    BY <1>2, <2>1 DEF AnswersAs
  <2>3. CASE r.k = "get"
    BY <2>1, <2>2, <2>3, PropReplyIs
  <2>4. CASE r.k = "layout"
    <3>1. f[j].k = "layout" /\ f[j].i = r.i /\ f[j].layout = layout[a]
      BY <2>2, <2>4, LayoutReplyIs
    <3>2. r.i \in DOMAIN sni /\ sni[r.i].uid = a
      BY <1>1, <1>4, <2>1 DEF Points
    <3> QED BY <2>1, <3>1, <3>2
  <2>5. CASE r.k = "about to show"
    <3>1. f[j].k = "about to show"
      <4>1. f[j] = AboutReply(r.i, r.node, refresh)
        BY <2>2, <2>5
      <4>2. \E b : f[j] = AboutReply(r.i, r.node, b)
        BY <4>1, Zenon
      <4>3. PICK b : f[j] = AboutReply(r.i, r.node, b)
        BY <4>2
      <4>4. AboutReply(r.i, r.node, b).k = "about to show"
        BY DEF AboutReply
      <4> QED BY <4>3, <4>4, Zenon
    <3> QED BY <2>1, <2>5, <3>1
  <2>6. r.k \in {"get", "layout", "about to show"}
    BY CallKinds
  <2> QED BY <2>3, <2>4, <2>5, <2>6
<1>8. RepliesFit(t, layout)
  <2> SUFFICES ASSUME NEW x \in ToSet(t.box), x.k = "layout" PROVE ReplyFits(x, layout[t.sni[x.i].uid])
    BY DEF RepliesFit
  <2>1. CASE x \in ToSet(inbox)
    <3>1. ReplyFits(x, layout[Now.sni[x.i].uid])
      BY <1>4, <2>1, Zenon DEF Menus, RepliesFit
    <3> QED BY <1>4, <1>5, <3>1
  <2>2. CASE x \in ToSet(f)
    <3>1. PICK j \in DOMAIN f : x = f[j]
      BY <2>2 DEF ToSet
    <3>2. x.layout = layout[a] /\ sni[x.i].uid = a
      BY <1>7, <3>1
    <3>3. layout[a].rev \in Nat
      BY <1>1 DEF MenuLayouts
    <3> QED BY <1>5, <3>2, <3>3 DEF ReplyFits
  <2> QED BY <1>5, <1>6, <2>1, <2>2
<1>9. LiveSet(t) = LiveSet(Now)
  BY <1>4, <1>5 DEF LiveSet
<1>10. ASSUME NEW i \in LiveSet(t) PROVE MenuKeeps(t, i, alive, layout)
  <2>1. i \in DOMAIN sni /\ i \in LiveSet(Now)
    BY <1>4, <1>9 DEF LiveSet
  <2>2. PICK b \in Apps : b = sni[i].uid
    BY <1>1, <2>1, SniFields
  <2>3. MenuKeeps(Now, i, alive, layout)
    BY <2>1, Zenon DEF Menus
  <2>4. ASSUME Awaits(Now, i, b, layout[b]) PROVE Awaits(t, i, b, layout[b])
    <3>1. CASE \E r \in ToSet(Now.calls[b]) : r.k = "layout" /\ r.i = i
      <4>1. PICK r \in ToSet(asked[b]) : r.k = "layout" /\ r.i = i
        BY <1>4, <3>1
      <4>2. CASE b = a
        <5>1. PICK j \in DOMAIN asked[a] : r = asked[a][j]
          BY <4>1, <4>2 DEF ToSet
        <5>2. f[j].k = "layout" /\ f[j].i = i /\ f[j].layout = layout[a] /\ f[j] \in ToSet(f)
          <6>1. f[j] \in ToSet(f)
            BY <1>6, <5>1 DEF ToSet
          <6> QED BY <1>6, <1>7, <4>1, <5>1, <6>1
        <5> QED BY <1>5, <1>6, <4>2, <5>2 DEF Awaits
      <4>3. CASE b # a
        <5>1. t.calls[b] = asked[b]
          BY <1>3, <1>4, <1>5, <4>3
        <5> QED BY <4>1, <5>1 DEF Awaits
      <4> QED BY <4>2, <4>3
    <3>2. CASE \E x \in ToSet(Now.box) : x.k = "layout" /\ x.i = i /\ x.layout = layout[b]
      BY <1>4, <1>5, <1>6, <3>2 DEF Awaits
    <3>3. CASE Msg("layout updated", b) \in ToSet(Now.box)
      BY <1>4, <1>5, <1>6, <3>3 DEF Awaits
    <3> QED BY <2>4, <3>1, <3>2, <3>3 DEF Awaits
  <2> QED BY <1>4, <1>5, <2>2, <2>3, <2>4 DEF MenuKeeps, Fetched
<1>11. Menus(t, alive, layout)
  BY <1>8, <1>10, Zenon DEF Menus
<1> QED BY <1>5, <1>11

\* A signal says nothing of menus.
LEMMA ChangesMenus ==
  ASSUME Base, Base', Menus(Now, alive, layout), NEW a \in Apps, NEW p \in Changing, AppChanges(a, p)
  PROVE  Menus(Now', alive, layout)
<1>1. Types /\ Points(Now) /\ layout \in [Apps -> MenuLayouts]
  BY DEF Base, Sound, Types, BusTypes
<1>2. /\ inbox' = Append(inbox, Told(a, SignalOf[p])) /\ Told(a, SignalOf[p]) \in Messages
      /\ ItemsStay /\ asked' = asked
  BY <1>1, ChangesDoes
<1>4. Now \in States /\ Now.sni = sni /\ Now.box = inbox /\ Now.calls = asked /\ inbox \in Seq(Messages)
  BY <1>1, NowFields
<1>5. PICK t \in States : t = Now' /\ t.sni = Now.sni /\ t.box = inbox' /\ t.calls = Now.calls
  BY <1>2, <1>4 DEF Base, Types, Now, Items, ItemsStay
<1>6. Told(a, SignalOf[p]).k = "signal"
  BY DEF Told
<1>7. ToSet(inbox') = ToSet(inbox) \cup {Told(a, SignalOf[p])}
  BY <1>2, <1>4, InAppend
<1>8. /\ \A x \in ToSet(Now.box) : x.k \in {"layout", "layout updated"} => x \in ToSet(t.box)
      /\ \A x \in ToSet(t.box) : x.k = "layout" => x \in ToSet(Now.box)
  BY <1>4, <1>5, <1>6, <1>7
<1>9. alive \subseteq alive /\ \A b \in alive : t.calls[b] = Now.calls[b]
  BY <1>5
<1>10. Menus(t, alive, layout)
  BY <1>1, <1>4, <1>5, <1>8, <1>9, FrameMenus
<1> QED BY <1>5, <1>10

\* A new layout is announced to the menus there are.
LEMMA MenuChangesMenus ==
  ASSUME Base, Base', Menus(Now, alive, layout), NEW a \in Apps, NEW l \in ToSet(Layouts), AppChangesMenu(a, l)
  PROVE  Menus(Now', alive, layout')
<1>1. Types /\ Points(Now) /\ layout \in [Apps -> MenuLayouts]
  BY DEF Base, Sound, Types, BusTypes
<1>2. /\ layout'[a].rev = layout[a].rev + 1 /\ \A b \in Apps : b # a => layout'[b] = layout[b]
      /\ layout' \in [Apps -> MenuLayouts]
      /\ \/ inbox' = Append(inbox, Msg("layout updated", a))
         \/ inbox' = inbox /\ \A i \in LiveSet(Now) : sni[i].uid = a => sni[i].menu.there = FALSE
      /\ ItemsStay /\ asked' = asked
  BY <1>1, MenuChangesDoes
<1>3. PICK lay \in [Apps -> MenuLayouts] : lay = layout'
  BY <1>2
<1>4. Now \in States /\ Now.sni = sni /\ Now.box = inbox /\ Now.calls = asked /\ inbox \in Seq(Messages)
  BY <1>1, NowFields
<1>5. PICK t \in States : t = Now' /\ t.sni = sni /\ t.box = inbox' /\ t.calls = asked
  BY <1>2, <1>4 DEF Base, Types, Now, Items, ItemsStay
<1>6. Msg("layout updated", a).k = "layout updated" /\ Msg("layout updated", a) \in Messages
  BY MessageTypes
<1>7. /\ ToSet(inbox) \subseteq ToSet(inbox')
      /\ \A x \in ToSet(inbox') : x.k = "layout" => x \in ToSet(inbox)
      /\ \/ Msg("layout updated", a) \in ToSet(inbox')
         \/ \A i \in LiveSet(Now) : sni[i].uid = a => sni[i].menu.there = FALSE
  <2>1. CASE inbox' = Append(inbox, Msg("layout updated", a))
    <3>1. PICK y \in Messages : y = Msg("layout updated", a)
      BY <1>6
    <3>2. ToSet(Append(inbox, y)) = ToSet(inbox) \cup {y}
      BY <1>4, InAppend
    <3> QED BY <1>6, <2>1, <3>1, <3>2
  <2>2. CASE inbox' = inbox /\ \A i \in LiveSet(Now) : sni[i].uid = a => sni[i].menu.there = FALSE
    BY <2>2
  <2> QED BY <1>2, <2>1, <2>2
<1>8. lay[a].rev = layout[a].rev + 1 /\ layout[a].rev \in Nat /\ lay[a].rev \in Nat
  BY <1>1, <1>2, <1>3 DEF MenuLayouts
<1>9. RepliesFit(t, lay)
  <2> SUFFICES ASSUME NEW x \in ToSet(t.box), x.k = "layout" PROVE ReplyFits(x, lay[t.sni[x.i].uid])
    BY DEF RepliesFit
  <2>1. x \in ToSet(Now.box) /\ x.i \in DOMAIN sni
    BY <1>1, <1>4, <1>5, <1>7 DEF Points
  <2>2. PICK b \in Apps : b = sni[x.i].uid
    BY <1>1, <2>1, SniFields
  <2>3. ReplyFits(x, layout[b])
    <3>1. ReplyFits(x, layout[Now.sni[x.i].uid])
      BY <2>1, Zenon DEF Menus, RepliesFit
    <3> QED BY <1>4, <2>2, <3>1
  <2>4. x.layout.rev \in Nat
    <3>1. x \in Messages
      BY <1>4, <2>1, InType
    <3>2. x.layout \in MenuLayouts
      BY <3>1, MessageKinds
    <3> QED BY <3>2 DEF MenuLayouts
  <2>5. ReplyFits(x, lay[b])
    <3>1. CASE b = a
      BY <1>8, <2>3, <2>4, <3>1 DEF ReplyFits
    <3>2. CASE b # a
      BY <1>2, <1>3, <2>3, <3>2
    <3> QED BY <3>1, <3>2
  <2> QED BY <1>5, <2>2, <2>5
<1>10. LiveSet(t) = LiveSet(Now)
  BY <1>4, <1>5 DEF LiveSet
<1>11. ASSUME NEW i \in LiveSet(t) PROVE MenuKeeps(t, i, alive, lay)
  <2>1. i \in DOMAIN sni /\ i \in LiveSet(Now)
    BY <1>4, <1>10 DEF LiveSet
  <2>2. PICK b \in Apps : b = sni[i].uid
    BY <1>1, <2>1, SniFields
  <2>3. MenuKeeps(Now, i, alive, layout)
    BY <2>1, Zenon DEF Menus
  <2>4. sni[i].menu.rev \in Nat
    BY <1>1, <2>1, SniFields DEF MenuSet
  <2>5. CASE b = a
    <3>1. MenuFits(sni[i].menu, layout[a])
      BY <1>4, <2>2, <2>3, <2>5 DEF MenuKeeps
    <3>2. MenuFits(sni[i].menu, lay[a])
      BY <1>8, <2>4, <3>1 DEF MenuFits
    <3>3. sni[i].menu.there = TRUE => Awaits(t, i, a, lay[a])
      <4>1. sni[i].menu.there = TRUE => Msg("layout updated", a) \in ToSet(t.box)
        BY <1>5, <1>7, <2>1, <2>2, <2>5
      <4> QED BY <4>1 DEF Awaits
    <3> QED BY <1>5, <2>2, <2>5, <3>2, <3>3 DEF MenuKeeps, Fetched
  <2>6. CASE b # a
    <3>1. lay[b] = layout[b]
      BY <1>2, <1>3, <2>6
    <3>2. Awaits(Now, i, b, lay[b]) => Awaits(t, i, b, lay[b])
      <4> SUFFICES ASSUME Awaits(Now, i, b, lay[b]) PROVE Awaits(t, i, b, lay[b])
        OBVIOUS
      <4>1. ToSet(Now.calls[b]) \subseteq ToSet(t.calls[b])
        BY <1>4, <1>5
      <4>2. \A x \in ToSet(Now.box) : x.k \in {"layout", "layout updated"} => x \in ToSet(t.box)
        BY <1>4, <1>5, <1>7
      <4> QED BY <1>4, <4>1, <4>2, AwaitsMore
    <3> QED BY <1>4, <1>5, <2>2, <2>3, <3>1, <3>2 DEF MenuKeeps, Fetched
  <2> QED BY <2>5, <2>6
<1>12. Menus(t, alive, lay)
  BY <1>9, <1>11, Zenon DEF Menus
<1> QED BY <1>3, <1>5, <1>12

LEMMA AppStepsMenus ==
  ASSUME Base, Base', Menus(Now, alive, layout), AppSteps
  PROVE  Menus(Now', alive', layout')
<1>1. Types
  BY DEF Base
<1>2. ASSUME NEW a \in Apps, AppQuits(a) PROVE Menus(Now', alive', layout')
  <2>1. Menus(Now', alive', layout) /\ layout' = layout
    BY <1>1, <1>2, QuitsMenus, QuitsDoes
  <2> QED BY <2>1
<1>3. ASSUME NEW a \in Apps, NEW p \in Changing, AppChanges(a, p) PROVE Menus(Now', alive', layout')
  <2>1. Menus(Now', alive, layout)
    BY <1>3, ChangesMenus
  <2>2. layout' = layout /\ alive' = alive
    BY <1>1, <1>3, ChangesDoes
  <2> QED BY <2>1, <2>2
<1>4. ASSUME NEW a \in Apps, NEW l \in ToSet(Layouts), AppChangesMenu(a, l) PROVE Menus(Now', alive', layout')
  <2>1. Menus(Now', alive, layout')
    BY <1>4, MenuChangesMenus
  <2>2. alive' = alive
    BY <1>1, <1>4, MenuChangesDoes
  <2> QED BY <2>1, <2>2
<1>5. ASSUME NEW a \in Apps, NEW refresh \in BOOLEAN, AppAnswers(a, refresh) PROVE Menus(Now', alive', layout')
  <2>1. Menus(Now', alive, layout)
    BY <1>5, AnswersMenus
  <2>2. layout' = layout /\ alive' = alive
    BY <1>1, <1>5, AnswersDoes
  <2> QED BY <2>1, <2>2
<1> QED BY <1>2, <1>3, <1>4, <1>5, Zenon DEF AppSteps

MenusNow == Menus(Now, alive, layout)

LEMMA NextMenus == ASSUME Base, Base', MenusNow, [Next]_vars PROVE MenusNow'
<1>1. Menus(Now, alive, layout) /\ Types
  BY DEF MenusNow, Base
<1>2. CASE Watches
  <2>1. Menus(Now', alive, layout)
    BY <1>1, <1>2, WatchesMenus
  <2>2. layout' = layout /\ alive' = alive
    BY <1>1, <1>2, WatchesFrame DEF ItemsSame
  <2> QED BY <2>1, <2>2 DEF MenusNow
<1>3. CASE ItemSteps
  <2>1. Menus(Now', alive, layout)
    BY <1>1, <1>3, ItemStepsMenus
  <2>2. layout' = layout /\ alive' = alive
    BY <1>1, <1>3, ItemStepsBus
  <2> QED BY <2>1, <2>2 DEF MenusNow
<1>4. CASE AppSteps
  BY <1>1, <1>4, AppStepsMenus DEF MenusNow
<1>5. CASE UNCHANGED vars
  <2>1. Now' = Now /\ alive' = alive /\ layout' = layout
    BY <1>5 DEF vars, busVars, Now, Items
  <2> QED BY <1>1, <2>1 DEF MenusNow
<1> QED BY <1>2, <1>3, <1>4, <1>5, NextSteps

LEMMA InitMenus == ASSUME Init PROVE MenusNow
<1>1. Base
  BY InitBase
<1>2. Now.box = inbox /\ Now.sni = sni /\ inbox \in Seq(Messages)
  BY <1>1, NowFields DEF Base
<1>3. LiveSet(Now) = {}
  BY <1>2 DEF Init, LiveSet
<1>4. \A x \in ToSet(inbox) : x.k # "layout"
  <2> DEFINE y == Msg(IF other = "in" THEN "appeared" ELSE "vanished", Nobody)
  <2>1. inbox = <<y>> /\ y.k # "layout"
    BY DEF Init, Msg
  <2> HIDE DEF y
  <2> QED BY <2>1, InOne
<1> QED BY <1>2, <1>3, <1>4 DEF MenusNow, Menus, RepliesFit

LEMMA MenusShow == ASSUME Base, MenusNow PROVE MenuShowsLayout
<1>1. Types /\ layout \in [Apps -> MenuLayouts] /\ alive \subseteq Apps
  BY DEF Base, Types, BusTypes
<1>2. Now \in States /\ Now.sni = sni /\ Now.box = inbox /\ Now.calls = asked
  BY <1>1, NowFields
<1>3. HostItems = LiveSet(Now)
  BY <1>1, HostItemsAre
<1>4. ASSUME Quiet, NEW i \in HostItems, Up(sni[i].uid), sni[i].menu.there, ~sni[i].menu.lost
      PROVE  ShowsLayout(sni[i].menu, layout[sni[i].uid])
  <2>1. i \in LiveSet(Now) /\ i \in DOMAIN sni
    BY <1>2, <1>3 DEF LiveSet
  <2>2. PICK a \in Apps : a = sni[i].uid
    BY <1>1, <2>1, SniFields
  <2>3. PICK m \in MenuSet : m = sni[i].menu
    BY <1>1, <2>1, SniFields
  <2>4. m.there = TRUE /\ m.lost = FALSE /\ a \in alive
    <3>1. m.there \in BOOLEAN /\ m.lost \in BOOLEAN
      BY DEF MenuSet
    <3> QED BY <1>4, <2>2, <2>3, <3>1 DEF Up
  <2>5. inbox = <<>> /\ asked[a] = <<>>
    BY <1>4, Zenon DEF Quiet
  <2>6. ToSet(Now.box) = {} /\ ToSet(Now.calls[a]) = {}
    BY <1>2, <2>5, InNone
  <2>7. ~Awaits(Now, i, a, layout[a])
    BY <2>6 DEF Awaits
  <2>8. MenuKeeps(Now, i, alive, layout)
    BY <2>1, Zenon DEF MenusNow, Menus
  <2>9. MenuFits(m, layout[a]) /\ m.rev = layout[a].rev
    BY <1>2, <2>2, <2>3, <2>4, <2>7, <2>8 DEF MenuKeeps, Fetched
  <2> QED BY <2>2, <2>3, <2>4, <2>9 DEF MenuFits
<1> QED BY <1>4, Zenon DEF MenuShowsLayout

\* Once everything is delivered, a menu shows its application's layout.
THEOREM MenusShowLayouts == Spec => []MenuShowsLayout
<1>1. Init => Base /\ MenusNow
  BY InitBase, InitMenus
<1>2. (Base /\ MenusNow) /\ [Next]_vars => (Base /\ MenusNow)'
  <2>1. ASSUME Base, MenusNow, [Next]_vars PROVE Base' /\ MenusNow'
    <3>1. Base'
      BY <2>1, NextBase
    <3>2. MenusNow'
      BY <2>1, <3>1, NextMenus
    <3> QED BY <3>1, <3>2
  <2> QED BY <2>1
<1>3. Base /\ MenusNow => MenuShowsLayout
  BY MenusShow
<1> QED BY <1>1, <1>2, <1>3, PTL DEF Spec

----------------------------------------------------------------------------
(* The end of an item, while the bar is the only watcher there has been: what *)
(* holds of the items n, the messages b on their way to the bar, the          *)
(* applications up, the ones the watcher knows of, w, and the epoch each has  *)
(* registered in, g.                                                          *)

SignalsFrom(a) == {x \in Messages : x.k = "signal" /\ x.a = a}
PropsOn(i) == {x \in Messages : x.k = "prop" /\ x.i = i}
Registered(a) == Msg("registered", a)
Unregistered(a) == Msg("unregistered", a)
Ctl(a) == {Msg("register", a), Registered(a), Msg("gone", a), Unregistered(a)}

Owned(n, a) == \E i \in DOMAIN n : n[i].live = TRUE /\ n[i].uid = a
\* The host will hear that a has gone: by then its calls have failed.
Buried(n, b, up, a) ==
  Unregistered(a) \in ToSet(b) =>
    /\ a \notin up /\ Once(b, Unregistered(a)) /\ ToSet(b) \cap SignalsFrom(a) = {} /\ Owned(n, a)
    /\ \A i \in DOMAIN n : n[i].live = TRUE /\ n[i].uid = a => AllBefore(b, PropsOn(i), {Unregistered(a)})
\* The watcher will hear that a has gone.
Ended(b, up, a) ==
  /\ Msg("gone", a) \in ToSet(b) => a \notin up
  /\ AllBefore(b, SignalsFrom(a), {Msg("gone", a)}) /\ AllBefore(b, {Registered(a)}, {Msg("gone", a)})
\* What an application has left behind
Dead(n, b, up) ==
  \A i \in DOMAIN n : n[i].live = FALSE => n[i].uid \notin up /\ ToSet(b) \cap PropsOn(i) = {}
\* An application registers once.
Entered(b, w, g, a) ==
  /\ g[a] = 0 => a \notin w /\ ToSet(b) \cap Ctl(a) = {}
  /\ Msg("register", a) \in ToSet(b) =>
       Once(b, Msg("register", a)) /\ a \notin w /\ ToSet(b) \cap (Ctl(a) \ {Msg("register", a)}) = {}
  /\ a \in w => Unregistered(a) \notin ToSet(b)
Ends(n, b, up, w, g) ==
  /\ Dead(n, b, up)
  /\ \A a \in Apps : Buried(n, b, up, a) /\ Ended(b, up, a) /\ Entered(b, w, g, a)

LEMMA CtlApart ==
  /\ \A a \in Apps : /\ Ctl(a) \subseteq Messages /\ Msg("register", a) \in Ctl(a) /\ Registered(a) \in Ctl(a)
                     /\ Msg("gone", a) \in Ctl(a) /\ Unregistered(a) \in Ctl(a)
                     /\ Msg("register", a) # Registered(a) /\ Msg("register", a) # Msg("gone", a)
                     /\ Msg("register", a) # Unregistered(a) /\ Registered(a) # Msg("gone", a)
                     /\ Registered(a) # Unregistered(a) /\ Msg("gone", a) # Unregistered(a)
  /\ \A a, c \in Apps : \A x \in Ctl(a) : /\ x.a = a /\ x.k \in {"register", "registered", "gone", "unregistered"}
                                      /\ (x \in Ctl(c) => a = c)
                                      /\ x \notin SignalsFrom(c)
  /\ \A a \in Apps : \A x \in Ctl(a), i \in Nat : x \notin PropsOn(i)
<1>1. \A a \in Apps : Ctl(a) \subseteq Messages
  <2> TAKE a \in Apps
  <2>1. /\ Msg("register", a) \in Messages /\ Msg("registered", a) \in Messages
        /\ Msg("gone", a) \in Messages /\ Msg("unregistered", a) \in Messages
    BY MessageTypes
  <2> QED BY <2>1 DEF Ctl, Registered, Unregistered
<1>2. \A a \in Apps : \A x \in Ctl(a) : x.a = a /\ x.k \in {"register", "registered", "gone", "unregistered"}
  BY DEF Ctl, Msg, Registered, Unregistered
<1>3. \A a \in Apps : /\ Msg("register", a).k = "register" /\ Registered(a).k = "registered"
                      /\ Msg("gone", a).k = "gone" /\ Unregistered(a).k = "unregistered"
  BY DEF Msg, Registered, Unregistered
<1>4. \A a \in Apps : /\ Msg("register", a) \in Ctl(a) /\ Registered(a) \in Ctl(a)
                      /\ Msg("gone", a) \in Ctl(a) /\ Unregistered(a) \in Ctl(a)
  BY DEF Ctl
<1> QED BY <1>1, <1>2, <1>3, <1>4 DEF SignalsFrom, PropsOn

\* Of items that are still whose they were, and as live
Alike(n, m) == DOMAIN m = DOMAIN n /\ \A i \in DOMAIN n : m[i].uid = n[i].uid /\ m[i].live = n[i].live

LEMMA EndsAlike ==
  ASSUME NEW n, NEW m, NEW b, NEW up, NEW w, NEW g, Alike(n, m), Ends(n, b, up, w, g)
  PROVE  Ends(m, b, up, w, g)
<1>1. Dead(m, b, up)
  BY DEF Alike, Ends, Dead
<1>2. \A a \in Apps : Owned(n, a) => Owned(m, a)
  BY DEF Alike, Owned
<1>3. \A a \in Apps : Buried(m, b, up, a)
  <2> TAKE a \in Apps
  <2>1. Buried(n, b, up, a)
    BY DEF Ends
  <2> QED BY <1>2, <2>1 DEF Alike, Buried
<1> QED BY <1>1, <1>3, Zenon DEF Ends

LEMMA TailEnds ==
  ASSUME NEW n, NEW b \in Seq(Messages), b # <<>>, NEW up, NEW w, NEW g, Ends(n, b, up, w, g)
  PROVE  Ends(n, Tail(b), up, w, g)
<1> DEFINE c == Tail(b)
<1>1. ToSet(c) \subseteq ToSet(b) /\ c \in Seq(Messages)
  BY InTail
<1>2. \A S, T : AllBefore(b, S, T) => AllBefore(c, S, T)
  BY BeforeTail
<1>3. \A x : Once(b, x) => Once(c, x)
  BY OnceTail
<1> HIDE DEF c
<1>4. Dead(n, c, up)
  BY <1>1 DEF Ends, Dead
<1>5. ASSUME NEW a \in Apps PROVE Buried(n, c, up, a) /\ Ended(c, up, a) /\ Entered(c, w, g, a)
  <2>1. Buried(n, b, up, a) /\ Ended(b, up, a) /\ Entered(b, w, g, a)
    BY DEF Ends
  <2>2. Buried(n, c, up, a)
    <3> SUFFICES ASSUME Unregistered(a) \in ToSet(c)
                 PROVE  /\ a \notin up /\ Once(c, Unregistered(a)) /\ ToSet(c) \cap SignalsFrom(a) = {} /\ Owned(n, a)
                        /\ \A i \in DOMAIN n : n[i].live = TRUE /\ n[i].uid = a =>
                             AllBefore(c, PropsOn(i), {Unregistered(a)})
      BY DEF Buried
    <3>1. /\ a \notin up /\ Once(b, Unregistered(a)) /\ ToSet(b) \cap SignalsFrom(a) = {} /\ Owned(n, a)
          /\ \A i \in DOMAIN n : n[i].live = TRUE /\ n[i].uid = a =>
               AllBefore(b, PropsOn(i), {Unregistered(a)})
      BY <1>1, <2>1 DEF Buried
    <3>2. Once(c, Unregistered(a)) /\ ToSet(c) \cap SignalsFrom(a) = {}
      BY <1>1, <1>3, <3>1
    <3>3. \A i \in DOMAIN n : n[i].live = TRUE /\ n[i].uid = a => AllBefore(c, PropsOn(i), {Unregistered(a)})
      BY <1>2, <3>1, Zenon
    <3> QED BY <3>1, <3>2, <3>3
  <2>3. Ended(c, up, a)
    <3>1. /\ Msg("gone", a) \in ToSet(c) => a \notin up
          /\ AllBefore(b, SignalsFrom(a), {Msg("gone", a)}) /\ AllBefore(b, {Registered(a)}, {Msg("gone", a)})
      BY <1>1, <2>1 DEF Ended
    <3> QED BY <1>2, <3>1, Zenon DEF Ended
  <2>4. Entered(c, w, g, a)
    <3>1. Once(b, Msg("register", a)) => Once(c, Msg("register", a))
      BY <1>3
    <3> QED BY <1>1, <2>1, <3>1 DEF Entered
  <2> QED BY <2>2, <2>3, <2>4
<1>6. Ends(n, c, up, w, g)
  BY <1>4, <1>5 DEF Ends
<1> QED BY <1>6 DEF c

\* Messages that say nothing of who comes and goes
Aside(f, n, b, up) ==
  /\ \A a \in Apps : ToSet(f) \cap Ctl(a) = {} /\ (a \notin up => ToSet(f) \cap SignalsFrom(a) = {})
  /\ \A i \in DOMAIN n : ToSet(f) \cap PropsOn(i) # {} => n[i].live = TRUE /\ Unregistered(n[i].uid) \notin ToSet(b)

LEMMA EndsMore ==
  ASSUME NEW n, NEW b \in Seq(Messages), NEW f \in Seq(Messages), NEW up, NEW w, NEW g,
         Aside(f, n, b, up), Ends(n, b, up, w, g)
  PROVE  Ends(n, b \o f, up, w, g)
<1> DEFINE c == b \o f
<1>1. ToSet(c) = ToSet(b) \cup ToSet(f) /\ c \in Seq(Messages)
  BY InConcat
<1>2. \A S, T : AllBefore(b, S, T) /\ AllBefore(f, S, T) /\ (ToSet(b) \cap T = {} \/ ToSet(f) \cap S = {}) =>
        AllBefore(c, S, T)
  BY BeforeConcat
<1>3. \A x : Once(b, x) /\ x \notin ToSet(f) => Once(c, x)
  BY OnceConcat
<1>4. \A S, T : ToSet(f) \cap T = {} => AllBefore(f, S, T)
  BY BeforeEmpty
<1> HIDE DEF c
<1>5. \A a \in Apps : /\ Msg("register", a) \in Ctl(a) /\ Registered(a) \in Ctl(a)
                      /\ Msg("gone", a) \in Ctl(a) /\ Unregistered(a) \in Ctl(a)
  BY CtlApart
<1>6. Dead(n, c, up)
  BY <1>1 DEF Ends, Dead, Aside
<1>7. ASSUME NEW a \in Apps PROVE Buried(n, c, up, a) /\ Ended(c, up, a) /\ Entered(c, w, g, a)
  <2>1. Buried(n, b, up, a) /\ Ended(b, up, a) /\ Entered(b, w, g, a)
    BY DEF Ends
  <2>2. /\ ToSet(f) \cap Ctl(a) = {} /\ Unregistered(a) \notin ToSet(f) /\ Msg("gone", a) \notin ToSet(f)
        /\ Registered(a) \notin ToSet(f) /\ Msg("register", a) \notin ToSet(f)
        /\ (a \notin up => ToSet(f) \cap SignalsFrom(a) = {})
    BY <1>5 DEF Aside
  <2>3. Buried(n, c, up, a)
    <3> SUFFICES ASSUME Unregistered(a) \in ToSet(c)
                 PROVE  /\ a \notin up /\ Once(c, Unregistered(a)) /\ ToSet(c) \cap SignalsFrom(a) = {} /\ Owned(n, a)
                        /\ \A i \in DOMAIN n : n[i].live = TRUE /\ n[i].uid = a =>
                             AllBefore(c, PropsOn(i), {Unregistered(a)})
      BY DEF Buried
    <3>1. /\ Unregistered(a) \in ToSet(b)
          /\ a \notin up /\ Once(b, Unregistered(a)) /\ ToSet(b) \cap SignalsFrom(a) = {} /\ Owned(n, a)
          /\ \A i \in DOMAIN n : n[i].live = TRUE /\ n[i].uid = a =>
               AllBefore(b, PropsOn(i), {Unregistered(a)})
      BY <1>1, <2>1, <2>2 DEF Buried
    <3>2. Once(c, Unregistered(a)) /\ ToSet(c) \cap SignalsFrom(a) = {}
      BY <1>1, <1>3, <2>2, <3>1
    <3>3. ASSUME NEW i \in DOMAIN n, n[i].live = TRUE, n[i].uid = a PROVE AllBefore(c, PropsOn(i), {Unregistered(a)})
      <4>1. AllBefore(b, PropsOn(i), {Unregistered(a)})
        BY <3>1, <3>3
      <4>2. ToSet(f) \cap PropsOn(i) = {}
        BY <3>1, <3>3 DEF Aside
      <4>3. ToSet(f) \cap {Unregistered(a)} = {}
        BY <2>2
      <4> QED BY <1>2, <1>4, <4>1, <4>2, <4>3, Zenon
    <3> QED BY <3>1, <3>2, <3>3
  <2>4. Ended(c, up, a)
    <3>1. /\ Msg("gone", a) \in ToSet(c) => a \notin up
          /\ AllBefore(b, SignalsFrom(a), {Msg("gone", a)}) /\ AllBefore(b, {Registered(a)}, {Msg("gone", a)})
      BY <1>1, <2>1, <2>2 DEF Ended
    <3>2. ToSet(f) \cap {Msg("gone", a)} = {} /\ ToSet(f) \cap {Registered(a)} = {}
      BY <2>2
    <3>3. ToSet(b) \cap {Msg("gone", a)} = {} \/ ToSet(f) \cap SignalsFrom(a) = {}
      BY <2>1, <2>2 DEF Ended
    <3>4. AllBefore(c, SignalsFrom(a), {Msg("gone", a)})
      BY <1>2, <1>4, <3>1, <3>2, <3>3, Zenon
    <3>5. AllBefore(c, {Registered(a)}, {Msg("gone", a)})
      BY <1>2, <1>4, <3>1, <3>2, Zenon
    <3> QED BY <3>1, <3>4, <3>5 DEF Ended
  <2>5. Entered(c, w, g, a)
    <3>1. Once(b, Msg("register", a)) => Once(c, Msg("register", a))
      BY <1>3, <2>2
    <3> QED BY <1>1, <2>1, <2>2, <3>1 DEF Entered
  <2> QED BY <2>3, <2>4, <2>5
<1>8. Ends(n, c, up, w, g)
  BY <1>6, <1>7 DEF Ends
<1> QED BY <1>8 DEF c

\* A new item, whose application is not about to be reported as gone
LEMMA NewEnds ==
  ASSUME NEW n \in Seq(ItemSet), NEW a \in Apps, NEW b, NEW up, NEW w, NEW g,
         ~Owned(n, a), Ends(n, b, up, w, g)
  PROVE  Ends(Append(n, NewItem(a)), b, up, w, g) /\ Unregistered(a) \notin ToSet(b)
<1> DEFINE m == Append(n, NewItem(a))
<1>1. PICK i \in Nat : i = Len(n) + 1
  OBVIOUS
<1>2. /\ DOMAIN m = DOMAIN n \cup {i} /\ i \notin DOMAIN n /\ \A j \in DOMAIN n : m[j] = n[j]
      /\ m[i] = NewItem(a)
  BY <1>1, NewItemIn
<1>3. NewItem(a).uid = a /\ NewItem(a).live = TRUE
  BY DEF NewItem
<1>4. m[i].uid = a /\ m[i].live = TRUE
  BY <1>2, <1>3
<1> HIDE DEF m
<1>5. Unregistered(a) \notin ToSet(b)
  BY DEF Ends, Buried
<1>6. Dead(m, b, up)
  BY <1>2, <1>4 DEF Ends, Dead
<1>7. ASSUME NEW c \in Apps PROVE Buried(m, b, up, c)
  <2>1. Buried(n, b, up, c)
    BY DEF Ends
  <2>2. Owned(n, c) => Owned(m, c)
    BY <1>2 DEF Owned
  <2>3. c = a => Buried(m, b, up, c)
    BY <1>5 DEF Buried
  <2>4. ASSUME c # a PROVE Buried(m, b, up, c)
    <3>1. \A j \in DOMAIN m : m[j].live = TRUE /\ m[j].uid = c => j \in DOMAIN n /\ n[j].live = TRUE /\ n[j].uid = c
      BY <1>2, <1>4, <2>4
    <3> QED BY <2>1, <2>2, <3>1 DEF Buried
  <2> QED BY <2>3, <2>4
<1>8. Ends(m, b, up, w, g)
  BY <1>6, <1>7, Zenon DEF Ends
<1> QED BY <1>5, <1>8 DEF m

\* An item is freed
Freed(n, m, i) ==
  /\ DOMAIN m = DOMAIN n /\ \A j \in DOMAIN n : m[j].uid = n[j].uid /\ (j # i => m[j].live = n[j].live)
  /\ m[i].live = FALSE

LEMMA FreeEnds ==
  ASSUME NEW n, NEW m, NEW i \in DOMAIN n, NEW a \in Apps, NEW b, NEW up, NEW w, NEW g,
         n[i].uid = a, a \notin up, ToSet(b) \cap PropsOn(i) = {}, Unregistered(a) \notin ToSet(b), Freed(n, m, i),
         Ends(n, b, up, w, g)
  PROVE  Ends(m, b, up, w, g)
<1>1. Dead(m, b, up)
  BY DEF Freed, Ends, Dead
<1>2. ASSUME NEW c \in Apps PROVE Buried(m, b, up, c)
  <2>1. Buried(n, b, up, c)
    BY DEF Ends
  <2>2. c = a => Buried(m, b, up, c)
    BY DEF Buried
  <2>3. ASSUME c # a PROVE Buried(m, b, up, c)
    <3>1. Owned(n, c) => Owned(m, c)
      BY <2>3 DEF Owned, Freed
    <3>2. \A j \in DOMAIN m : m[j].live = TRUE /\ m[j].uid = c => j \in DOMAIN n /\ n[j].live = TRUE /\ n[j].uid = c
      BY DEF Freed
    <3> QED BY <2>1, <3>1, <3>2 DEF Buried
  <2> QED BY <2>2, <2>3
<1> QED BY <1>1, <1>2, Zenon DEF Ends

\* A registration is sent.
LEMMA RegisterEnds ==
  ASSUME NEW n, NEW b \in Seq(Messages), NEW a \in Apps, NEW up, NEW w, NEW g \in [Apps -> Nat], NEW e \in Nat \ {0},
         g[a] = 0, Ends(n, b, up, w, g)
  PROVE  Ends(n, Append(b, Msg("register", a)), up, w, [g EXCEPT ![a] = e])
<1>0. PICK x \in Messages : x = Msg("register", a) /\ x \in Ctl(a)
  BY CtlApart
<1> DEFINE c == Append(b, x)
<1>1. ToSet(c) = ToSet(b) \cup {x} /\ c \in Seq(Messages)
  BY InAppend
<1>2. c = b \o <<x>> /\ <<x>> \in Seq(Messages) /\ ToSet(<<x>>) = {x}
  BY AppendConcat, InOne
<1>3. \A S, T : AllBefore(b, S, T) /\ x \notin S /\ x \notin T => AllBefore(c, S, T)
  <2> TAKE S, T
  <2> HAVE AllBefore(b, S, T) /\ x \notin S /\ x \notin T
  <2>1. ToSet(<<x>>) \cap S = {} /\ ToSet(<<x>>) \cap T = {}
    BY <1>2
  <2>2. AllBefore(<<x>>, S, T)
    BY <2>1, BeforeEmpty
  <2>3. AllBefore(b \o <<x>>, S, T)
    BY <1>2, <2>1, <2>2, BeforeConcat
  <2> QED BY <1>2, <2>3
<1>4. \A y : Once(b, y) /\ y # x => Once(c, y)
  <2> TAKE y
  <2> HAVE Once(b, y) /\ y # x
  <2>1. y \notin ToSet(<<x>>)
    BY <1>2
  <2>2. Once(b \o <<x>>, y)
    BY <1>2, <2>1, OnceConcat
  <2> QED BY <1>2, <2>2
<1>5. Entered(b, w, g, a) /\ a \notin w /\ ToSet(b) \cap Ctl(a) = {}
  BY DEF Ends, Entered
<1>6. Once(c, x)
  BY <1>0, <1>5, OnceNew
<1> HIDE DEF c
<1>7. Dead(n, c, up)
  <2>1. \A i \in Nat : x \notin PropsOn(i)
    BY <1>0, CtlApart
  <2>2. x.k = "register"
    BY <1>0 DEF Msg
  <2> QED BY <1>1, <2>2 DEF Ends, Dead, PropsOn
<1>8. /\ \A d \in Apps : x # Unregistered(d) /\ x # Msg("gone", d) /\ x # Registered(d) /\ x \notin SignalsFrom(d)
      /\ \A i : x \notin PropsOn(i)
  BY <1>0 DEF Msg, Registered, Unregistered, SignalsFrom, PropsOn
<1>9. ASSUME NEW d \in Apps PROVE Buried(n, c, up, d) /\ Ended(c, up, d) /\ Entered(c, w, [g EXCEPT ![a] = e], d)
  <2>1. Buried(n, b, up, d) /\ Ended(b, up, d) /\ Entered(b, w, g, d)
    BY DEF Ends
  <2>2. /\ x # Unregistered(d) /\ x # Msg("gone", d) /\ x # Registered(d) /\ x \notin SignalsFrom(d)
    BY <1>8
  <2>3. Buried(n, c, up, d)
    <3> SUFFICES ASSUME Unregistered(d) \in ToSet(c)
                 PROVE  /\ d \notin up /\ Once(c, Unregistered(d)) /\ ToSet(c) \cap SignalsFrom(d) = {} /\ Owned(n, d)
                        /\ \A i \in DOMAIN n : n[i].live = TRUE /\ n[i].uid = d =>
                             AllBefore(c, PropsOn(i), {Unregistered(d)})
      BY DEF Buried
    <3>1. /\ d \notin up /\ Once(b, Unregistered(d)) /\ ToSet(b) \cap SignalsFrom(d) = {} /\ Owned(n, d)
          /\ \A i \in DOMAIN n : n[i].live = TRUE /\ n[i].uid = d =>
               AllBefore(b, PropsOn(i), {Unregistered(d)})
      BY <1>1, <2>1, <2>2 DEF Buried
    <3>2. \A i \in DOMAIN n : n[i].live = TRUE /\ n[i].uid = d => AllBefore(c, PropsOn(i), {Unregistered(d)})
      <4>1. x \notin {Unregistered(d)}
        BY <2>2
      <4> QED BY <1>3, <1>8, <3>1, <4>1, Zenon
    <3> QED BY <1>1, <1>4, <2>2, <3>1, <3>2
  <2>4. Ended(c, up, d)
    <3>1. x \notin {Msg("gone", d)} /\ x \notin {Registered(d)}
      BY <2>2
    <3>2. /\ AllBefore(b, SignalsFrom(d), {Msg("gone", d)}) /\ AllBefore(b, {Registered(d)}, {Msg("gone", d)})
          /\ Msg("gone", d) \in ToSet(c) => d \notin up
      BY <1>1, <2>1, <2>2 DEF Ended
    <3>3. /\ AllBefore(c, SignalsFrom(d), {Msg("gone", d)}) /\ AllBefore(c, {Registered(d)}, {Msg("gone", d)})
      BY <1>3, <2>2, <3>1, <3>2, Zenon
    <3> QED BY <3>2, <3>3 DEF Ended
  <2>5. Entered(c, w, [g EXCEPT ![a] = e], d)
    <3>1. CASE d = a
      <4>1. [g EXCEPT ![a] = e][d] # 0
        BY <3>1
      <4>2. ToSet(c) \cap (Ctl(d) \ {Msg("register", d)}) = {}
        BY <1>0, <1>1, <1>5, <3>1
      <4>3. Unregistered(d) \notin ToSet(c)
        BY <1>1, <1>5, <2>2, <3>1, CtlApart
      <4> QED BY <1>0, <1>5, <1>6, <3>1, <4>1, <4>2, <4>3 DEF Entered
    <3>2. CASE d # a
      <4>1. [g EXCEPT ![a] = e][d] = g[d]
        BY <3>2
      <4>2. x \notin Ctl(d)
        BY <1>0, <3>2, CtlApart
      <4>3. Msg("register", d) \in Ctl(d) /\ Unregistered(d) \in Ctl(d)
        BY CtlApart
      <4>4. ToSet(c) \cap Ctl(d) = ToSet(b) \cap Ctl(d)
        BY <1>1, <4>2
      <4>5. Once(b, Msg("register", d)) => Once(c, Msg("register", d))
        BY <1>4, <4>2, <4>3
      <4> QED BY <2>1, <4>1, <4>3, <4>4, <4>5 DEF Entered
    <3> QED BY <3>1, <3>2
  <2> QED BY <2>3, <2>4, <2>5
<1>10. Ends(n, c, up, w, [g EXCEPT ![a] = e])
  BY <1>7, <1>9, Zenon DEF Ends
<1> QED BY <1>0, <1>10 DEF c

LEMMA AppendKeeps ==
  ASSUME NEW b \in Seq(Messages), NEW x \in Messages
  PROVE  /\ Append(b, x) \in Seq(Messages) /\ ToSet(Append(b, x)) = ToSet(b) \cup {x}
         /\ \A S, T : AllBefore(b, S, T) /\ (x \notin S \/ (x \notin T /\ ToSet(b) \cap T = {})) =>
              AllBefore(Append(b, x), S, T)
         /\ \A y : Once(b, y) /\ y # x => Once(Append(b, x), y)
         /\ x \notin ToSet(b) => Once(Append(b, x), x)
<1>1. ToSet(Append(b, x)) = ToSet(b) \cup {x} /\ Append(b, x) \in Seq(Messages)
  BY InAppend
<1>2. Append(b, x) = b \o <<x>> /\ <<x>> \in Seq(Messages) /\ ToSet(<<x>>) = {x}
  BY AppendConcat, InOne
<1>3. ASSUME NEW S, NEW T, AllBefore(b, S, T), x \notin S \/ (x \notin T /\ ToSet(b) \cap T = {})
      PROVE  AllBefore(Append(b, x), S, T)
  <2>1. ToSet(b) \cap T = {} \/ ToSet(<<x>>) \cap S = {}
    BY <1>2, <1>3
  <2>2. AllBefore(<<x>>, S, T)
    <3>1. ToSet(<<x>>) \cap S = {} \/ ToSet(<<x>>) \cap T = {}
      BY <1>2, <1>3
    <3> QED BY <3>1, BeforeEmpty
  <2>3. AllBefore(b \o <<x>>, S, T)
    BY <1>2, <1>3, <2>1, <2>2, BeforeConcat
  <2> QED BY <1>2, <2>3
<1>4. ASSUME NEW y, Once(b, y), y # x PROVE Once(Append(b, x), y)
  <2>1. y \notin ToSet(<<x>>)
    BY <1>2, <1>4
  <2>2. Once(b \o <<x>>, y)
    BY <1>2, <1>4, <2>1, OnceConcat
  <2> QED BY <1>2, <2>2
<1>5. x \notin ToSet(b) => Once(Append(b, x), x)
  BY OnceNew
<1> QED BY <1>1, <1>3, <1>4, <1>5, Zenon

\* What is said of one application is nothing to the others.
LEMMA CtlOthers ==
  ASSUME NEW n, NEW b \in Seq(Messages), NEW a \in Apps, NEW x \in Ctl(a), NEW up, NEW w, NEW v, NEW g,
         Ends(n, b, up, w, g), v \ {a} = w \ {a}
  PROVE  /\ Dead(n, Append(b, x), up)
         /\ \A d \in Apps : d # a =>
              Buried(n, Append(b, x), up, d) /\ Ended(Append(b, x), up, d) /\ Entered(Append(b, x), v, g, d)
<1> DEFINE c == Append(b, x)
<1>0. x \in Messages
  BY CtlApart
<1>1. /\ c \in Seq(Messages) /\ ToSet(c) = ToSet(b) \cup {x}
      /\ \A S, T : AllBefore(b, S, T) /\ (x \notin S \/ (x \notin T /\ ToSet(b) \cap T = {})) => AllBefore(c, S, T)
      /\ \A y : Once(b, y) /\ y # x => Once(c, y)
  BY <1>0, AppendKeeps
<1> HIDE DEF c
<1>2. x.k \in {"register", "registered", "gone", "unregistered"}
  BY CtlApart
<1>3. /\ \A i : x \notin PropsOn(i)
      /\ \A d \in Apps : x \notin SignalsFrom(d)
  BY <1>2 DEF PropsOn, SignalsFrom
<1>4. Dead(n, c, up)
  BY <1>1, <1>3 DEF Ends, Dead
<1>5. ASSUME NEW d \in Apps, d # a PROVE Buried(n, c, up, d) /\ Ended(c, up, d) /\ Entered(c, v, g, d)
  <2>1. Buried(n, b, up, d) /\ Ended(b, up, d) /\ Entered(b, w, g, d)
    BY DEF Ends
  <2>2. /\ x \notin Ctl(d) /\ x # Unregistered(d) /\ x # Msg("gone", d) /\ x # Registered(d) /\ x # Msg("register", d)
    BY <1>5, CtlApart
  <2>3. Buried(n, c, up, d)
    <3> SUFFICES ASSUME Unregistered(d) \in ToSet(c)
                 PROVE  /\ d \notin up /\ Once(c, Unregistered(d)) /\ ToSet(c) \cap SignalsFrom(d) = {} /\ Owned(n, d)
                        /\ \A i \in DOMAIN n : n[i].live = TRUE /\ n[i].uid = d =>
                             AllBefore(c, PropsOn(i), {Unregistered(d)})
      BY DEF Buried
    <3>1. /\ d \notin up /\ Once(b, Unregistered(d)) /\ ToSet(b) \cap SignalsFrom(d) = {} /\ Owned(n, d)
          /\ \A i \in DOMAIN n : n[i].live = TRUE /\ n[i].uid = d =>
               AllBefore(b, PropsOn(i), {Unregistered(d)})
      BY <1>1, <2>1, <2>2 DEF Buried
    <3>2. \A i \in DOMAIN n : n[i].live = TRUE /\ n[i].uid = d => AllBefore(c, PropsOn(i), {Unregistered(d)})
      BY <1>1, <1>3, <3>1, Zenon
    <3> QED BY <1>1, <1>3, <2>2, <3>1, <3>2
  <2>4. Ended(c, up, d)
    <3>1. x \notin {Registered(d)}
      BY <2>2
    <3>2. /\ AllBefore(b, SignalsFrom(d), {Msg("gone", d)}) /\ AllBefore(b, {Registered(d)}, {Msg("gone", d)})
          /\ Msg("gone", d) \in ToSet(c) => d \notin up
      BY <1>1, <2>1, <2>2 DEF Ended
    <3>3. /\ AllBefore(c, SignalsFrom(d), {Msg("gone", d)}) /\ AllBefore(c, {Registered(d)}, {Msg("gone", d)})
      BY <1>1, <1>3, <3>1, <3>2, Zenon
    <3> QED BY <3>2, <3>3 DEF Ended
  <2>5. Entered(c, v, g, d)
    <3>1. ToSet(c) \cap Ctl(d) = ToSet(b) \cap Ctl(d)
      BY <1>1, <2>2
    <3>2. Once(b, Msg("register", d)) => Once(c, Msg("register", d))
      BY <1>1, <2>2
    <3>3. Msg("register", d) \in Ctl(d) /\ Unregistered(d) \in Ctl(d)
      BY CtlApart
    <3>4. d \in v <=> d \in w
      BY <1>5
    <3> QED BY <2>1, <3>1, <3>2, <3>3, <3>4 DEF Entered
  <2> QED BY <2>3, <2>4, <2>5
<1> QED BY <1>4, <1>5 DEF c

\* The watcher tells the host of a.
LEMMA EnterEnds ==
  ASSUME NEW n, NEW b \in Seq(Messages), NEW a \in Apps, NEW up, NEW w, NEW g, Ends(n, b, up, w, g),
         g[a] # 0, ToSet(b) \cap Ctl(a) = {}
  PROVE  Ends(n, Append(b, Registered(a)), up, w \cup {a}, g)
<1>0. PICK x \in Messages : x = Registered(a) /\ x \in Ctl(a)
  BY CtlApart
<1> DEFINE c == Append(b, x)
           v == w \cup {a}
<1>1. /\ c \in Seq(Messages) /\ ToSet(c) = ToSet(b) \cup {x}
      /\ \A S, T : AllBefore(b, S, T) /\ (x \notin S \/ (x \notin T /\ ToSet(b) \cap T = {})) => AllBefore(c, S, T)
  BY AppendKeeps
<1>v. v \ {a} = w \ {a}
  OBVIOUS
<1> HIDE DEF v
<1>2. /\ Dead(n, c, up)
      /\ \A d \in Apps : d # a => Buried(n, c, up, d) /\ Ended(c, up, d) /\ Entered(c, v, g, d)
  BY <1>0, <1>v, CtlOthers
<1> HIDE DEF c
<1>3. /\ Msg("register", a) \in Ctl(a) /\ Registered(a) \in Ctl(a)
      /\ Msg("gone", a) \in Ctl(a) /\ Unregistered(a) \in Ctl(a)
      /\ x # Msg("register", a) /\ x # Msg("gone", a) /\ x # Unregistered(a) /\ x \notin SignalsFrom(a)
  BY <1>0, CtlApart
<1>4. Msg("register", a) \notin ToSet(c) /\ Msg("gone", a) \notin ToSet(c) /\ Unregistered(a) \notin ToSet(c)
  BY <1>1, <1>3
<1>5. Buried(n, c, up, a)
  BY <1>4 DEF Buried
<1>6. Ended(c, up, a)
  <2>1. ToSet(c) \cap {Msg("gone", a)} = {}
    BY <1>4
  <2>2. AllBefore(c, SignalsFrom(a), {Msg("gone", a)}) /\ AllBefore(c, {Registered(a)}, {Msg("gone", a)})
    BY <2>1, BeforeEmpty
  <2> QED BY <1>4, <2>2 DEF Ended
<1>7. Entered(c, v, g, a)
  BY <1>4 DEF Entered
<1>8. Ends(n, c, up, v, g)
  BY <1>2, <1>5, <1>6, <1>7, Zenon DEF Ends
<1> QED BY <1>0, <1>8 DEF c, v

\* The watcher will notice that a is gone.
LEMMA GoneEnds ==
  ASSUME NEW n, NEW b \in Seq(Messages), NEW a \in Apps, NEW up, NEW w, NEW g, Ends(n, b, up, w, g),
         a \in w, a \notin up
  PROVE  Ends(n, Append(b, Msg("gone", a)), up, w, g)
<1>0. PICK x \in Messages : x = Msg("gone", a) /\ x \in Ctl(a)
  BY CtlApart
<1> DEFINE c == Append(b, x)
<1>1. /\ c \in Seq(Messages) /\ ToSet(c) = ToSet(b) \cup {x}
      /\ \A S, T : AllBefore(b, S, T) /\ (x \notin S \/ (x \notin T /\ ToSet(b) \cap T = {})) => AllBefore(c, S, T)
  BY AppendKeeps
<1>2. /\ Dead(n, c, up)
      /\ \A d \in Apps : d # a => Buried(n, c, up, d) /\ Ended(c, up, d) /\ Entered(c, w, g, d)
  BY <1>0, CtlOthers
<1> HIDE DEF c
<1>3. /\ x # Msg("register", a) /\ x # Registered(a) /\ x # Unregistered(a) /\ x \notin SignalsFrom(a)
  BY <1>0, CtlApart
<1>4. Buried(n, b, up, a) /\ Ended(b, up, a) /\ Entered(b, w, g, a)
  BY DEF Ends
<1>5. g[a] # 0 /\ Msg("register", a) \notin ToSet(b) /\ Unregistered(a) \notin ToSet(b)
  BY <1>4 DEF Entered
<1>6. Msg("register", a) \notin ToSet(c) /\ Unregistered(a) \notin ToSet(c)
  BY <1>1, <1>3, <1>5
<1>7. Buried(n, c, up, a)
  BY <1>6 DEF Buried
<1>8. Ended(c, up, a)
  <2>1. x \notin {Registered(a)}
    BY <1>3
  <2>2. AllBefore(b, SignalsFrom(a), {Msg("gone", a)}) /\ AllBefore(b, {Registered(a)}, {Msg("gone", a)})
    BY <1>4 DEF Ended
  <2>3. AllBefore(c, SignalsFrom(a), {Msg("gone", a)}) /\ AllBefore(c, {Registered(a)}, {Msg("gone", a)})
    BY <1>1, <1>3, <2>1, <2>2, Zenon
  <2> QED BY <2>3 DEF Ended
<1>9. Entered(c, w, g, a)
  BY <1>5, <1>6 DEF Entered
<1>10. Ends(n, c, up, w, g)
  BY <1>2, <1>7, <1>8, <1>9, Zenon DEF Ends
<1> QED BY <1>0, <1>10 DEF c

\* The watcher forgets a.
LEMMA ForgetEnds ==
  ASSUME NEW n, NEW b, NEW a \in Apps, NEW up, NEW w, NEW g, Ends(n, b, up, w, g)
  PROVE  Ends(n, b, up, w \ {a}, g)
<1>1. \A d \in Apps : Entered(b, w \ {a}, g, d)
  BY DEF Ends, Entered
<1> QED BY <1>1, Zenon DEF Ends

\* The watcher tells the host that a is gone.
LEMMA LeaveEnds ==
  ASSUME NEW n, NEW b \in Seq(Messages), NEW a \in Apps, NEW up, NEW w, NEW g, Ends(n, b, up, w, g),
         a \notin w, a \notin up, g[a] # 0, Msg("register", a) \notin ToSet(b), Unregistered(a) \notin ToSet(b),
         ToSet(b) \cap SignalsFrom(a) = {}, Owned(n, a)
  PROVE  Ends(n, Append(b, Unregistered(a)), up, w, g)
<1>0. PICK x \in Messages : x = Unregistered(a) /\ x \in Ctl(a)
  BY CtlApart
<1> DEFINE c == Append(b, x)
<1>1. /\ c \in Seq(Messages) /\ ToSet(c) = ToSet(b) \cup {x}
      /\ \A S, T : AllBefore(b, S, T) /\ (x \notin S \/ (x \notin T /\ ToSet(b) \cap T = {})) => AllBefore(c, S, T)
      /\ x \notin ToSet(b) => Once(c, x)
  BY AppendKeeps
<1>2. /\ Dead(n, c, up)
      /\ \A d \in Apps : d # a => Buried(n, c, up, d) /\ Ended(c, up, d) /\ Entered(c, w, g, d)
  BY <1>0, CtlOthers
<1> HIDE DEF c
<1>3. /\ x # Msg("register", a) /\ x # Registered(a) /\ x # Msg("gone", a) /\ x \notin SignalsFrom(a)
  BY <1>0, CtlApart
<1>i. \A i : x \notin PropsOn(i)
  BY <1>0 DEF PropsOn, Unregistered, Msg
<1>4. Ended(b, up, a)
  BY DEF Ends
<1>5. Buried(n, c, up, a)
  <2>1. \A i : AllBefore(b, PropsOn(i), {x})
    <3> TAKE i
    <3>1. ToSet(b) \cap {x} = {}
      BY <1>0
    <3> QED BY <3>1, BeforeEmpty
  <2>2. \A i : AllBefore(c, PropsOn(i), {x})
    BY <1>1, <1>i, <2>1, Zenon
  <2>3. Once(c, x) /\ ToSet(c) \cap SignalsFrom(a) = {}
    BY <1>0, <1>1, <1>3
  <2> QED BY <1>0, <2>2, <2>3, Zenon DEF Buried
<1>6. Ended(c, up, a)
  <2>1. x \notin {Registered(a)}
    BY <1>3
  <2>2. AllBefore(b, SignalsFrom(a), {Msg("gone", a)}) /\ AllBefore(b, {Registered(a)}, {Msg("gone", a)})
    BY <1>4 DEF Ended
  <2>3. AllBefore(c, SignalsFrom(a), {Msg("gone", a)}) /\ AllBefore(c, {Registered(a)}, {Msg("gone", a)})
    BY <1>1, <1>3, <2>1, <2>2, Zenon
  <2> QED BY <2>3 DEF Ended
<1>7. Entered(c, w, g, a)
  BY <1>1, <1>3 DEF Entered
<1>8. Ends(n, c, up, w, g)
  BY <1>2, <1>5, <1>6, <1>7, Zenon DEF Ends
<1> QED BY <1>0, <1>8 DEF c

LEMMA DownEnds ==
  ASSUME NEW n, NEW b, NEW a, NEW up, NEW w, NEW g, Ends(n, b, up, w, g)
  PROVE  Ends(n, b, up \ {a}, w, g)
<1>1. Dead(n, b, up \ {a})
  BY DEF Ends, Dead
<1>2. \A d \in Apps : Buried(n, b, up \ {a}, d) /\ Ended(b, up \ {a}, d)
  <2> TAKE d \in Apps
  <2>1. Buried(n, b, up, d) /\ Ended(b, up, d)
    BY DEF Ends
  <2> QED BY <2>1 DEF Buried, Ended
<1> QED BY <1>1, <1>2, Zenon DEF Ends

\* The bar is the only watcher there has been, if there is one yet.
Watching ==
  /\ theirs = {} /\ Msg("name lost", Nobody) \notin ToSet(inbox)
  /\ \/ owner = Nobody /\ epoch = 0 /\ Once(inbox, Msg("vanished", Nobody)) /\ \A a \in Apps : reg[a] = 0
     \/ /\ owner = Bar /\ epoch = 1 /\ regid = TRUE /\ Msg("vanished", Nobody) \notin ToSet(inbox)
        /\ \A a \in Apps : reg[a] \in {0, 1}
  /\ owner = Bar /\ subs = 0 =>
       /\ Msg("appeared", Nobody) \in ToSet(inbox)
       /\ \A a \in Apps : AllBefore(inbox, {Msg("appeared", Nobody)}, {Msg("register", a)})
\* The host knows what the watcher knows, or will.
Held == \A a \in watched : Owned(sni, a) \/ Registered(a) \in ToSet(inbox)
Alone == Watching /\ Held /\ Ends(sni, inbox, alive, watched, reg)

WatchKinds == Kinds({"vanished", "name lost", "appeared", "register"})
WatchVars == <<owner, epoch, regid, reg, theirs, subs>>

LEMMA WatchKindsAre ==
  /\ Msg("vanished", Nobody) \in WatchKinds /\ Msg("name lost", Nobody) \in WatchKinds
  /\ Msg("appeared", Nobody) \in WatchKinds /\ \A a \in Apps : Msg("register", a) \in WatchKinds
  /\ \A x \in WatchKinds : x.k \in {"vanished", "name lost", "appeared", "register"}
<1>1. /\ Msg("vanished", Nobody) \in Messages /\ Msg("name lost", Nobody) \in Messages
      /\ Msg("appeared", Nobody) \in Messages /\ \A a \in Apps : Msg("register", a) \in Messages
  BY MessageTypes
<1>2. /\ Msg("vanished", Nobody).k = "vanished" /\ Msg("name lost", Nobody).k = "name lost"
      /\ Msg("appeared", Nobody).k = "appeared" /\ \A a \in Apps : Msg("register", a).k = "register"
  BY DEF Msg
<1> QED BY <1>1, <1>2 DEF WatchKinds, Kinds

LEMMA WatchingStays ==
  ASSUME Types, Watching, WatchVars' = WatchVars, Sends(inbox, inbox', WatchKinds)
  PROVE  Watching'
<1>1. inbox \in Seq(Messages)
  BY NowFields
<1>2. inbox' \in Seq(Messages) /\ \A x \in WatchKinds : x \in ToSet(inbox') <=> x \in ToSet(inbox)
  BY <1>1, SendsIn
<1>3. Once(inbox, Msg("vanished", Nobody)) => Once(inbox', Msg("vanished", Nobody))
  BY <1>1, WatchKindsAre, SendsOnce
<1>4. ASSUME NEW a \in Apps, AllBefore(inbox, {Msg("appeared", Nobody)}, {Msg("register", a)})
      PROVE  AllBefore(inbox', {Msg("appeared", Nobody)}, {Msg("register", a)})
  <2> DEFINE S == {Msg("appeared", Nobody)}
             T == {Msg("register", a)}
  <2>1. S \in SUBSET WatchKinds /\ ToSet(inbox') \cap T \subseteq WatchKinds
    BY WatchKindsAre
  <2>2. AllBefore(inbox, S, T)
    BY <1>4
  <2> HIDE DEF S, T
  <2>3. AllBefore(inbox', S, T)
    BY <1>1, <2>1, <2>2, SendsBefore
  <2> QED BY <2>3 DEF S, T
<1>5. /\ owner' = owner /\ epoch' = epoch /\ regid' = regid /\ reg' = reg /\ theirs' = theirs /\ subs' = subs
  BY DEF WatchVars
<1>6. /\ Msg("vanished", Nobody) \in ToSet(inbox') <=> Msg("vanished", Nobody) \in ToSet(inbox)
      /\ Msg("name lost", Nobody) \in ToSet(inbox') <=> Msg("name lost", Nobody) \in ToSet(inbox)
      /\ Msg("appeared", Nobody) \in ToSet(inbox') <=> Msg("appeared", Nobody) \in ToSet(inbox)
  BY <1>2, WatchKindsAre
<1>7. Nobody' = Nobody /\ Bar' = Bar
  BY DEF Nobody, Bar
<1>8. theirs' = {} /\ Msg("name lost", Nobody) \notin ToSet(inbox')
  BY <1>5, <1>6 DEF Watching
<1>9. \/ owner' = Nobody /\ epoch' = 0 /\ Once(inbox', Msg("vanished", Nobody)) /\ \A a \in Apps : reg'[a] = 0
      \/ /\ owner' = Bar /\ epoch' = 1 /\ regid' = TRUE /\ Msg("vanished", Nobody) \notin ToSet(inbox')
         /\ \A a \in Apps : reg'[a] \in {0, 1}
  <2>1. CASE owner = Nobody /\ epoch = 0 /\ Once(inbox, Msg("vanished", Nobody)) /\ \A a \in Apps : reg[a] = 0
    BY <1>3, <1>5, <2>1
  <2>2. CASE /\ owner = Bar /\ epoch = 1 /\ regid = TRUE /\ Msg("vanished", Nobody) \notin ToSet(inbox)
             /\ \A a \in Apps : reg[a] \in {0, 1}
    BY <1>5, <1>6, <2>2
  <2> QED BY <2>1, <2>2 DEF Watching
<1>10. owner' = Bar /\ subs' = 0 =>
       /\ Msg("appeared", Nobody) \in ToSet(inbox')
       /\ \A a \in Apps : AllBefore(inbox', {Msg("appeared", Nobody)}, {Msg("register", a)})
  BY <1>4, <1>5, <1>6 DEF Watching
<1> QED BY <1>7, <1>8, <1>9, <1>10 DEF Watching

\* The items have changed, and what has come to the bar.
LEMMA ItemsAlone ==
  ASSUME Types, Alone, WatchVars' = WatchVars, alive' = alive, watched' = watched,
         Sends(inbox, inbox', WatchKinds), Ends(sni', inbox', alive, watched, reg),
         \A a \in watched : Owned(sni', a) \/ Registered(a) \in ToSet(inbox')
  PROVE  Alone'
<1>1. Watching'
  BY WatchingStays DEF Alone
<1>2. Held'
  BY DEF Held
<1>3. reg' = reg
  BY DEF WatchVars
<1>4. Ends(sni, inbox, alive, watched, reg)'
  BY <1>3
<1> QED BY <1>1, <1>2, <1>4 DEF Alone

\* From s to t the items stay, or there are more, and messages have been added.
Grows(s, t) ==
  /\ \A a \in Apps : Owned(s.sni, a) => Owned(t.sni, a)
  /\ \E f \in Seq(Messages) : t.box = s.box \o f /\ ToSet(f) \cap WatchKinds = {}

LEMMA GrowsTwice ==
  ASSUME NEW s \in States, NEW t \in States, NEW f \in Seq(Messages), NEW u \in States, Grows(s, t),
         u.box = t.box \o f, ToSet(f) \cap WatchKinds = {}, \A a \in Apps : Owned(t.sni, a) => Owned(u.sni, a)
  PROVE  Grows(s, u)
<1>1. PICK e \in Seq(Messages) : t.box = s.box \o e /\ ToSet(e) \cap WatchKinds = {}
  BY Zenon DEF Grows
<1>2. s.box \in Seq(Messages)
  BY StateFields
<1>3. u.box = s.box \o (e \o f)
  <2>1. PICK b \in Seq(Messages) : b = s.box
    BY <1>2
  <2>2. (b \o e) \o f = b \o (e \o f)
    BY ConcatAssoc
  <2> QED BY <1>1, <2>1, <2>2
<1>4. e \o f \in Seq(Messages) /\ ToSet(e \o f) = ToSet(e) \cup ToSet(f)
  BY InConcat
<1>5. ToSet(e \o f) \cap WatchKinds = {}
  BY <1>1, <1>4
<1>6. \A a \in Apps : Owned(s.sni, a) => Owned(u.sni, a)
  BY DEF Grows
<1> QED BY <1>3, <1>4, <1>5, <1>6, Zenon DEF Grows

LEMMA GrowsSame ==
  ASSUME NEW s, NEW t, s.box \in Seq(Messages), t.box = s.box, \A a \in Apps : Owned(s.sni, a) => Owned(t.sni, a)
  PROVE  Grows(s, t)
<1>1. t.box = s.box \o <<>> /\ <<>> \in Seq(Messages) /\ ToSet(<<>>) \cap WatchKinds = {}
  BY ConcatNone, InNone
<1> QED BY <1>1, Zenon DEF Grows

\* A message about no watcher is taken, and the rest follows.
LEMMA TakenAlone ==
  ASSUME Base, Base', Alone, NEW k, Incoming(k),
         k \notin {"vanished", "name lost", "appeared", "register"},
         WatchVars' = WatchVars, alive' = alive, watched' = watched,
         NEW t, t = Now', Grows(Taken, t), Ends(t.sni, t.box, alive, watched, reg),
         k = "registered" => Owned(t.sni, M.a)
  PROVE  Alone'
<1>1. Types
  BY DEF Base
<1>2. /\ Taken.sni = sni /\ Taken.box = Tail(inbox) /\ M.k = k /\ ToSet(inbox) = {M} \cup ToSet(Taken.box)
      /\ inbox # <<>> /\ inbox \in Seq(Messages) /\ Taken.box \in Seq(Messages)
  BY <1>1, TakenFields, NowFields, StateFields
<1>3. t.sni = sni' /\ t.box = inbox'
  BY DEF Now, Items
<1>4. PICK f \in Seq(Messages) : t.box = Taken.box \o f /\ ToSet(f) \cap WatchKinds = {}
  BY Zenon DEF Grows
<1>5. Sends(inbox, inbox', WatchKinds)
  <2>1. Head(inbox) \notin WatchKinds
    BY <1>2, WatchKindsAre DEF M
  <2>2. Sends(inbox, Tail(inbox), WatchKinds)
    BY <1>2, <2>1, SendsTail
  <2>3. Sends(inbox, Tail(inbox) \o f, WatchKinds)
    BY <1>2, <1>4, <2>2, SendsMore
  <2> QED BY <1>2, <1>3, <1>4, <2>3
<1>6. ToSet(Taken.box) \subseteq ToSet(inbox')
  <2>1. PICK b \in Seq(Messages) : b = Taken.box
    BY <1>2
  <2>2. \A d, e \in Seq(Messages) : ToSet(d \o e) = ToSet(d) \cup ToSet(e)
    BY InConcat, Zenon
  <2>3. ToSet(b \o f) = ToSet(b) \cup ToSet(f)
    BY <2>2
  <2> QED BY <1>3, <1>4, <2>1, <2>3
<1>7. ASSUME NEW a \in watched PROVE Owned(sni', a) \/ Registered(a) \in ToSet(inbox')
  <2>0. a \in Apps
    BY <1>1 DEF Types, BusTypes
  <2>1. CASE Owned(sni, a)
    BY <1>2, <1>3, <2>0, <2>1 DEF Grows
  <2>2. CASE Registered(a) \in ToSet(inbox)
    <3>1. Registered(a).k = "registered" /\ Registered(a).a = a
      BY DEF Registered, Msg
    <3>2. CASE Registered(a) = M
      BY <1>2, <1>3, <3>1, <3>2
    <3>3. CASE Registered(a) # M
      BY <1>2, <1>6, <2>2, <3>3
    <3> QED BY <3>2, <3>3
  <2> QED BY <2>1, <2>2 DEF Alone, Held
<1>8. Ends(sni', inbox', alive, watched, reg)
  BY <1>3
<1> QED BY <1>1, <1>5, <1>7, <1>8, ItemsAlone

\* A call about a live item fails, before its application is reported as gone.
Failing(b, i, ps) == b \o <<PropReply(i, ps, Failed)>>
FailsAs(n, b, i, ps, up, w, g) ==
  /\ Append(b, PropReply(i, ps, Failed)) = Failing(b, i, ps)
  /\ Ends(n, Failing(b, i, ps), up, w, g)
  /\ \E f \in Seq(Messages) : Failing(b, i, ps) = b \o f /\ ToSet(f) \cap WatchKinds = {}

LEMMA FailEnds ==
  ASSUME NEW n, NEW b \in Seq(Messages), NEW i \in Nat, NEW ps \in SUBSET Props, NEW up, NEW w, NEW g,
         i \in DOMAIN n, n[i].live = TRUE, Unregistered(n[i].uid) \notin ToSet(b), Ends(n, b, up, w, g)
  PROVE  FailsAs(n, b, i, ps, up, w, g)
<1>0. PICK x \in Messages : x = PropReply(i, ps, Failed) /\ x.k = "prop" /\ x.i = i
  <2>1. Failed \in Answers
    BY DEF Answers
  <2>2. PropReply(i, ps, Failed) \in Messages
    BY <2>1, PropReplyIn
  <2> QED BY <2>2, PropReplyIs
<1> DEFINE f == <<x>>
<1>1. f \in Seq(Messages) /\ ToSet(f) = {x} /\ Append(b, x) = b \o f
  BY InOne, AppendConcat
<1>2. Failing(b, i, ps) = b \o f
  BY <1>0 DEF Failing
<1> HIDE DEF f
<1>3. Aside(f, n, b, up)
  <2>1. \A a \in Apps : x \notin Ctl(a) /\ x \notin SignalsFrom(a)
    <3>1. \A a \in Apps : x \notin SignalsFrom(a)
      BY <1>0 DEF SignalsFrom
    <3>2. \A a \in Apps : x \notin Ctl(a)
      BY <1>0, CtlApart
    <3> QED BY <3>1, <3>2
  <2>2. \A j \in DOMAIN n : x \in PropsOn(j) => j = i
    BY <1>0 DEF PropsOn
  <2> QED BY <1>1, <2>1, <2>2 DEF Aside
<1>4. Ends(n, Failing(b, i, ps), up, w, g)
  <2>1. Ends(n, b \o f, up, w, g)
    BY <1>1, <1>3, EndsMore
  <2> QED BY <1>2, <2>1
<1>5. ToSet(f) \cap WatchKinds = {}
  <2>1. x \notin WatchKinds
    BY <1>0, WatchKindsAre
  <2> QED BY <1>1, <2>1
<1>6. \E e \in Seq(Messages) : Failing(b, i, ps) = b \o e /\ ToSet(e) \cap WatchKinds = {}
  BY <1>1, <1>2, <1>5, Zenon
<1>7. Append(b, PropReply(i, ps, Failed)) = Failing(b, i, ps)
  BY <1>0, <1>1, <1>2
<1> QED BY <1>4, <1>6, <1>7, Zenon DEF FailsAs

LEMMA ChangedAlike ==
  ASSUME NEW s \in States, NEW i \in DOMAIN s.sni, NEW t, Changed(s, t, i)
  PROVE  Alike(s.sni, t.sni) /\ t \in States /\ \A a \in Apps : Owned(s.sni, a) => Owned(t.sni, a)
<1>1. Alike(s.sni, t.sni) /\ t \in States
  <2> SUFFICES ASSUME NEW j \in DOMAIN s.sni PROVE t.sni[j].uid = s.sni[j].uid /\ t.sni[j].live = s.sni[j].live
    BY DEF Alike, Changed
  <2>1. CASE j = i
    BY <2>1 DEF Changed
  <2>2. CASE j # i
    BY <2>2 DEF Changed
  <2> QED BY <2>1, <2>2
<1>2. \A a \in Apps : Owned(s.sni, a) => Owned(t.sni, a)
  BY <1>1 DEF Alike, Owned
<1> QED BY <1>1, <1>2

\* What keeps the end of the items, and tells nobody
Keeps(s, t) == Grows(s, t) /\ Ends(t.sni, t.box, alive, watched, reg)

\* A call of an item
LEMMA AsksEnds ==
  ASSUME NEW s \in States, NEW i \in DOMAIN s.sni, NEW t, NEW r, Asks(s, t, i, r), s.sni[i].live = TRUE,
         r.k = "get" => Unregistered(s.sni[i].uid) \notin ToSet(s.box),
         Ends(s.sni, s.box, alive, watched, reg)
  PROVE  Keeps(s, t)
<1>1. /\ Changed(s, t, i) /\ r \in Calls /\ r.i = i /\ Sent(t, s.box, s.calls, s.sni[i].uid, r)
  BY DEF Asks
<1>2. Alike(s.sni, t.sni) /\ t \in States /\ \A a \in Apps : Owned(s.sni, a) => Owned(t.sni, a)
  BY <1>1, ChangedAlike
<1>3. Ends(t.sni, s.box, alive, watched, reg)
  BY <1>2, EndsAlike
<1>4. PICK a \in Apps : a = s.sni[i].uid
  BY ItemFields
<1>5. PICK b \in Seq(Messages) : b = s.box
  BY StateFields
<1>6. CASE a \in alive \/ r.k # "get"
  <2>1. t.box = b
    BY <1>1, <1>4, <1>5, <1>6 DEF Sent
  <2>2. Grows(s, t)
    BY <1>2, <1>5, <2>1, GrowsSame
  <2> QED BY <1>3, <1>5, <2>1, <2>2 DEF Keeps
<1>7. CASE a \notin alive /\ r.k = "get"
  <2>1. t.box = Append(b, PropReply(i, r.ps, Failed)) /\ r.ps \in SUBSET Props /\ i \in Nat
    <3>1. t.box = Append(b, PropReply(r.i, r.ps, Failed))
      BY <1>1, <1>4, <1>5, <1>7 DEF Sent
    <3>2. r.i \in Nat /\ r.ps \in SUBSET Props
      BY <1>1, <1>7, CallKinds
    <3> QED BY <1>1, <3>1, <3>2
  <2>2. i \in DOMAIN t.sni /\ t.sni[i].live = TRUE /\ t.sni[i].uid = a
    BY <1>2, <1>4 DEF Alike
  <2>3. Unregistered(t.sni[i].uid) \notin ToSet(b)
    BY <1>4, <1>5, <1>7, <2>2
  <2>4. PICK ps \in SUBSET Props : ps = r.ps
    BY <2>1
  <2>5. /\ Append(b, PropReply(i, ps, Failed)) = Failing(b, i, ps)
        /\ Ends(t.sni, Failing(b, i, ps), alive, watched, reg)
        /\ \E f \in Seq(Messages) : Failing(b, i, ps) = b \o f /\ ToSet(f) \cap WatchKinds = {}
    <3>1. Ends(t.sni, b, alive, watched, reg) /\ i \in Nat
      BY <1>3, <1>5, <2>1
    <3>2. FailsAs(t.sni, b, i, ps, alive, watched, reg)
      BY <2>2, <2>3, <3>1, FailEnds, Zenon
    <3> QED BY <3>2, Zenon DEF FailsAs
  <2>6. t.box = Failing(b, i, ps)
    BY <2>1, <2>4, <2>5
  <2>7. Grows(s, t)
    BY <1>2, <1>5, <2>5, <2>6 DEF Grows
  <2> QED BY <2>5, <2>6, <2>7 DEF Keeps
<1> QED BY <1>6, <1>7

\* A new item
LEMMA NewKeeps ==
  ASSUME NEW s \in States, NEW a \in Apps, Ends(s.sni, s.box, alive, watched, reg)
  PROVE  Keeps(s, ItemNew(s, a)) /\ Owned(ItemNew(s, a).sni, a)
<1> DEFINE t == ItemNew(s, a)
<1>1. PICK b \in Seq(Messages) : b = s.box
  BY StateFields
<1>2. Known(s, a) <=> Owned(s.sni, a)
  <2>1. \A i \in DOMAIN s.sni : s.sni[i].live \in BOOLEAN
    BY ItemFields
  <2> QED BY <2>1 DEF Known, Owned
<1>3. CASE Known(s, a)
  <2>1. t = s
    BY <1>3 DEF ItemNew
  <2> HIDE DEF t
  <2>2. Grows(s, t)
    BY <1>1, <2>1, GrowsSame
  <2>3. Keeps(s, t) /\ Owned(t.sni, a)
    BY <1>2, <1>3, <2>1, <2>2 DEF Keeps
  <2> QED BY <2>3 DEF t
<1>4. CASE ~Known(s, a)
  <2> DEFINE i == Len(s.sni) + 1
  <2>1. /\ t \in States /\ t.sni = Append(s.sni, NewItem(a))
        /\ a \in alive => t.box = s.box
        /\ a \notin alive => t.box = Append(s.box, PropReply(i, Props, Failed))
    BY <1>4, NewAre
  <2>2. s.sni \in Seq(ItemSet) /\ i \in Nat
    BY StateFields
  <2> HIDE DEF t, i
  <2>3. Ends(t.sni, b, alive, watched, reg) /\ Unregistered(a) \notin ToSet(b)
    BY <1>1, <1>2, <1>4, <2>1, <2>2, NewEnds
  <2>4. /\ i \in DOMAIN t.sni /\ t.sni[i].uid = a /\ t.sni[i].live = TRUE
        /\ \A j \in DOMAIN s.sni : j \in DOMAIN t.sni /\ t.sni[j] = s.sni[j]
    <3>1. NewItem(a).uid = a /\ NewItem(a).live = TRUE
      BY DEF NewItem
    <3>2. /\ i \in DOMAIN t.sni /\ t.sni[i] = NewItem(a)
          /\ \A j \in DOMAIN s.sni : j \in DOMAIN t.sni /\ t.sni[j] = s.sni[j]
      BY <2>1, <2>2 DEF i
    <3> QED BY <3>1, <3>2
  <2>5. Owned(t.sni, a) /\ \A c \in Apps : Owned(s.sni, c) => Owned(t.sni, c)
    BY <2>4 DEF Owned
  <2>6. CASE a \in alive
    <3>1. t.box = b
      BY <1>1, <2>1, <2>6
    <3>2. Grows(s, t)
      BY <1>1, <2>5, <3>1, GrowsSame
    <3> QED BY <2>3, <2>5, <3>1, <3>2 DEF Keeps, t
  <2>7. CASE a \notin alive
    <3>0. Props \in SUBSET Props
      OBVIOUS
    <3>1. /\ Append(b, PropReply(i, Props, Failed)) = Failing(b, i, Props)
          /\ Ends(t.sni, Failing(b, i, Props), alive, watched, reg)
          /\ \E f \in Seq(Messages) : Failing(b, i, Props) = b \o f /\ ToSet(f) \cap WatchKinds = {}
      <4>1. Unregistered(t.sni[i].uid) \notin ToSet(b)
        BY <2>3, <2>4
      <4>2. FailsAs(t.sni, b, i, Props, alive, watched, reg)
        BY <2>2, <2>3, <2>4, <3>0, <4>1, FailEnds, Zenon
      <4> QED BY <4>2, Zenon DEF FailsAs
    <3>2. t.box = Failing(b, i, Props)
      BY <1>1, <2>1, <2>7, <3>1
    <3>3. Grows(s, t)
      BY <1>1, <2>5, <3>1, <3>2 DEF Grows
    <3> QED BY <2>5, <3>1, <3>2, <3>3 DEF Keeps, t
  <2> QED BY <2>6, <2>7
<1> QED BY <1>3, <1>4

LEMMA NewsEnds ==
  ASSUME NEW s \in States, NEW e \in Seq(Apps), Ends(s.sni, s.box, alive, watched, reg)
  PROVE  Keeps(s, News(s, e))
<1> DEFINE G == {t \in States : Keeps(s, t)}
<1>1. ASSUME NEW t \in G, NEW a \in ToSet(e) PROVE ItemNew(t, a) \in G
  <2>1. a \in Apps /\ t \in States /\ Keeps(s, t)
    BY InType
  <2>2. PICK u \in States : u = ItemNew(t, a)
    BY <2>1, NewIn
  <2>3. Keeps(t, u)
    <3>1. Ends(t.sni, t.box, alive, watched, reg)
      BY <2>1 DEF Keeps
    <3> QED BY <2>1, <2>2, <3>1, NewKeeps
  <2>4. PICK f \in Seq(Messages) : u.box = t.box \o f /\ ToSet(f) \cap WatchKinds = {}
    BY <2>3 DEF Keeps, Grows
  <2>5. Grows(s, u)
    <3>1. Grows(s, t) /\ \A c \in Apps : Owned(t.sni, c) => Owned(u.sni, c)
      BY <2>1, <2>3, Zenon DEF Keeps, Grows
    <3> QED BY <2>1, <2>4, <3>1, GrowsTwice
  <2>6. Keeps(s, u)
    BY <2>3, <2>5 DEF Keeps
  <2> QED BY <2>2, <2>6
<1>2. s \in G
  <2>1. s.box \in Seq(Messages)
    BY StateFields
  <2>2. Grows(s, s)
    BY <2>1, GrowsSame
  <2> QED BY <2>2 DEF Keeps
<1>3. G \in SUBSET States
  OBVIOUS
<1> HIDE DEF G
<1>4. News(s, e) \in G
  BY <1>1, <1>2, <1>3, NewsKeep
<1> QED BY <1>4 DEF G

LEMMA ChangedKeeps ==
  ASSUME NEW s \in States, NEW i \in DOMAIN s.sni, NEW t, Changed(s, t, i), t.box = s.box,
         Ends(s.sni, s.box, alive, watched, reg)
  PROVE  Keeps(s, t)
<1>1. Alike(s.sni, t.sni) /\ \A a \in Apps : Owned(s.sni, a) => Owned(t.sni, a)
  BY ChangedAlike
<1>2. Ends(t.sni, t.box, alive, watched, reg)
  BY <1>1, EndsAlike
<1>3. s.box \in Seq(Messages)
  BY StateFields
<1>4. Grows(s, t)
  BY <1>1, <1>3, GrowsSame
<1> QED BY <1>2, <1>4 DEF Keeps

LEMMA SameKeeps ==
  ASSUME NEW s \in States, Ends(s.sni, s.box, alive, watched, reg)
  PROVE  Keeps(s, s)
<1>1. s.box \in Seq(Messages)
  BY StateFields
<1>2. Grows(s, s)
  BY <1>1, GrowsSame
<1> QED BY <1>2 DEF Keeps

LEMMA TakenEnds ==
  ASSUME Types, Alone, NEW k, Incoming(k)
  PROVE  Taken \in States /\ Ends(Taken.sni, Taken.box, alive, watched, reg)
<1>1. /\ Taken \in States /\ Taken.sni = sni /\ Taken.box = Tail(inbox) /\ inbox # <<>> /\ inbox \in Seq(Messages)
  BY TakenFields, NowFields
<1>2. Ends(sni, Tail(inbox), alive, watched, reg)
  BY <1>1, TailEnds DEF Alone
<1> QED BY <1>1, <1>2

\* What the bar's items do to those who come and go
BusStays == WatchVars' = WatchVars /\ alive' = alive /\ watched' = watched
LEMMA ItemStepsWatch == ASSUME Types, ItemSteps PROVE BusStays
<1>1. ASSUME NEW i \in DOMAIN sni, NEW node \in {"root", "sub"}, UserOpens(i, node) PROVE BusStays
  BY <1>1 DEF UserOpens, BusStays, WatchVars
<1>2. CASE ~ \E i \in DOMAIN sni : \E node \in {"root", "sub"} : UserOpens(i, node)
  <2>1. TheBus' = TheBus
    BY <1>2, Rest0 DEF ItemSteps
  <2> QED BY <2>1 DEF TheBus, BusStays, WatchVars
<1> QED BY <1>1, <1>2

\* A step of a handler that takes a message and keeps the ends
LEMMA KeepsAlone ==
  ASSUME Base, Base', Alone, NEW k, Incoming(k),
         k \notin {"vanished", "name lost", "appeared", "register"}, BusStays,
         Keeps(Taken, Now'), k = "registered" => Owned(Now'.sni, M.a)
  PROVE  Alone'
<1>1. PICK t : t = Now'
  OBVIOUS
<1>2. Grows(Taken, t) /\ Ends(t.sni, t.box, alive, watched, reg) /\ (k = "registered" => Owned(t.sni, M.a))
  BY <1>1 DEF Keeps
<1>3. WatchVars' = WatchVars /\ alive' = alive /\ watched' = watched
  BY DEF BusStays
<1> QED BY <1>1, <1>2, <1>3, TakenAlone

\* The items that are left when i is freed, whose application has gone
LEMMA FreedAlone ==
  ASSUME Base, Alone, HostItemUnregistered, BusStays, NEW i \in LiveSet(Now), sni[i].uid = M.a,
         Now' = ItemFree(Taken, i)
  PROVE  Alone'
<1>1. Types
  BY DEF Base
<1>2. Incoming("unregistered")
  BY DEF HostItemUnregistered
<1>3. /\ Taken \in States /\ Taken.sni = sni /\ Taken.box = Tail(inbox) /\ inbox # <<>> /\ inbox \in Seq(Messages)
      /\ ToSet(inbox) = {M} \cup ToSet(Tail(inbox)) /\ i \in DOMAIN sni /\ sni[i].live = TRUE
  BY <1>1, <1>2, TakenFields, NowFields DEF LiveSet
<1>4. PICK a \in Apps : a = M.a /\ M = Unregistered(a) /\ sni[i].uid = a /\ Head(inbox) = M
  BY <1>1, <1>2, HeadIs DEF Unregistered, M
<1>5. /\ DOMAIN sni' = DOMAIN sni /\ inbox' = Tail(inbox)
      /\ \A j \in DOMAIN sni : j # i => sni'[j] = sni[j]
      /\ sni'[i].uid = sni[i].uid /\ sni'[i].live = FALSE
  <2>1. PICK t \in States : t = ItemFree(Taken, i) /\ t.box = Taken.box /\ DOMAIN t.sni = DOMAIN Taken.sni
             /\ (\A j \in DOMAIN Taken.sni : j # i => t.sni[j] = Taken.sni[j])
             /\ t.sni[i].uid = Taken.sni[i].uid /\ t.sni[i].live = FALSE
    BY <1>3, FreedAre
  <2>2. Now'.sni = sni' /\ Now'.box = inbox'
    BY DEF Now, Items
  <2> QED BY <1>3, <2>1, <2>2
<1>6. Freed(sni, sni', i)
  BY <1>5 DEF Freed
<1>7. Ends(sni, inbox, alive, watched, reg) /\ Unregistered(a) \in ToSet(inbox)
  BY <1>3, <1>4 DEF Alone
<1>8. /\ a \notin alive /\ Once(inbox, Unregistered(a)) /\ AllBefore(inbox, PropsOn(i), {Unregistered(a)})
      /\ a \notin watched
  <2>1. Buried(sni, inbox, alive, a) /\ Entered(inbox, watched, reg, a)
    BY <1>7 DEF Ends
  <2>2. a \notin alive /\ Once(inbox, Unregistered(a)) /\ a \notin watched
    BY <1>7, <2>1 DEF Buried, Entered
  <2>3. AllBefore(inbox, PropsOn(i), {Unregistered(a)})
    BY <1>3, <1>4, <1>7, <2>1 DEF Buried
  <2> QED BY <2>2, <2>3
<1>9. ToSet(Tail(inbox)) \cap PropsOn(i) = {}
  <2>1. ToSet(inbox) \cap PropsOn(i) = {}
    BY <1>3, <1>4, <1>8, BeforeTail
  <2> QED BY <1>3, <2>1
<1>10. Unregistered(a) \notin ToSet(Tail(inbox))
  BY <1>3, <1>4, <1>8, OnceTail
<1>11. Ends(sni, Tail(inbox), alive, watched, reg)
  BY <1>3, <1>7, TailEnds
<1>12. Ends(sni', Tail(inbox), alive, watched, reg)
  BY <1>3, <1>4, <1>6, <1>8, <1>9, <1>10, <1>11, FreeEnds
<1>13. Sends(inbox, Tail(inbox), WatchKinds)
  <2>1. Head(inbox) \notin WatchKinds
    <3>1. M.k = "unregistered"
      BY <1>4 DEF Unregistered, Msg
    <3> QED BY <1>4, <3>1, WatchKindsAre
  <2> QED BY <1>3, <2>1, SendsTail
<1>14. ASSUME NEW c \in watched PROVE Owned(sni', c) \/ Registered(c) \in ToSet(inbox')
  <2>0. c \in Apps /\ c # a
    BY <1>1, <1>8 DEF Types, BusTypes
  <2>1. CASE Owned(sni, c)
    <3>1. PICK j \in DOMAIN sni : sni[j].live = TRUE /\ sni[j].uid = c
      BY <2>1 DEF Owned
    <3>2. j # i
      BY <1>4, <2>0, <3>1
    <3> QED BY <1>5, <3>1, <3>2 DEF Owned
  <2>2. CASE Registered(c) \in ToSet(inbox)
    <3>1. Registered(c) # M
      BY <1>4 DEF Registered, Unregistered, Msg
    <3> QED BY <1>3, <1>5, <2>2, <3>1
  <2> QED BY <2>1, <2>2 DEF Alone, Held
<1> QED BY <1>1, <1>5, <1>12, <1>13, <1>14, ItemsAlone DEF BusStays

\* A step that takes nothing
LEMMA StandsAlone ==
  ASSUME Base, Alone, BusStays, NEW t, t = Now', Keeps(Now, t)
  PROVE  Alone'
<1>1. Types
  BY DEF Base
<1>2. Now.sni = sni /\ Now.box = inbox /\ inbox \in Seq(Messages) /\ t.sni = sni' /\ t.box = inbox'
  BY <1>1, NowFields DEF Now, Items
<1>3. PICK f \in Seq(Messages) : inbox' = inbox \o f /\ ToSet(f) \cap WatchKinds = {}
  BY <1>2, Zenon DEF Keeps, Grows
<1>4. Sends(inbox, inbox', WatchKinds)
  <2>1. Sends(inbox, inbox, WatchKinds)
    BY <1>2, SendsSame
  <2>2. Sends(inbox, inbox \o f, WatchKinds)
    BY <1>2, <1>3, <2>1, SendsMore
  <2> QED BY <1>3, <2>2
<1>5. ASSUME NEW a \in watched PROVE Owned(sni', a) \/ Registered(a) \in ToSet(inbox')
  <2>1. a \in Apps
    BY <1>1 DEF Types, BusTypes
  <2>2. ToSet(inbox \o f) = ToSet(inbox) \cup ToSet(f)
    BY <1>2, InConcat
  <2>3. Owned(sni, a) => Owned(sni', a)
    BY <1>2, <2>1 DEF Keeps, Grows
  <2> QED BY <1>3, <2>2, <2>3 DEF Alone, Held
<1>6. Ends(sni', inbox', alive, watched, reg)
  BY <1>2 DEF Keeps
<1> QED BY <1>1, <1>4, <1>5, <1>6, ItemsAlone DEF BusStays

LEMMA ItemStepsAlone ==
  ASSUME Base, Base', Alone, ItemSteps
  PROVE  Alone'
<1>1. Types /\ Points(Now) /\ BusStays /\ \A j \in DOMAIN tray : tray[j].i \in DOMAIN sni
  <2>1. Types /\ Sound(Now, alive) /\ Points(Now) /\ Paired(Now)
    BY DEF Base, Sound
  <2>2. Now.sni = sni /\ Now.tray = tray
    BY <2>1, NowFields
  <2> QED BY <2>1, <2>2, ItemStepsWatch DEF Paired, LiveSet
<1>2. /\ Now \in States /\ Now.sni = sni /\ Now.tray = tray /\ Now.box = inbox
  BY <1>1, NowFields
<1>3. \A k : Incoming(k) =>
        /\ Taken \in States /\ Taken.sni = sni /\ Taken.box = Tail(inbox) /\ M.k = k
        /\ Ends(Taken.sni, Taken.box, alive, watched, reg) /\ ToSet(inbox) = {M} \cup ToSet(Tail(inbox))
  BY <1>1, TakenFields, TakenEnds
<1>4. \A i \in LiveSet(Now) : i \in DOMAIN sni /\ sni[i].live = TRUE
  BY <1>2 DEF LiveSet
<1>5. CASE HostList
  <2>1. /\ Now' = News(Taken, SetToSeq(M.uids)) /\ SetToSeq(M.uids) \in Seq(Apps)
    BY <1>1, <1>5, ListDoes
  <2>2. Incoming("list")
    BY <1>5, Zenon DEF HostList
  <2>3. Keeps(Taken, Now')
    <3>1. PICK s \in States, e \in Seq(Apps) : s = Taken /\ e = SetToSeq(M.uids)
      BY <1>3, <2>1, <2>2
    <3>2. Keeps(s, News(s, e))
      BY <1>3, <2>2, <3>1, NewsEnds
    <3> QED BY <2>1, <3>1, <3>2
  <2> QED BY <1>1, <2>2, <2>3, KeepsAlone
<1>6. CASE HostItemRegistered
  <2>1. M.a \in Apps /\ Now' = ItemNew(Taken, M.a)
    BY <1>1, <1>6, RegisteredDoes
  <2>2. Incoming("registered")
    BY <1>6, Zenon DEF HostItemRegistered
  <2>3. Keeps(Taken, Now') /\ Owned(Now'.sni, M.a)
    BY <1>3, <2>1, <2>2, NewKeeps
  <2> QED BY <1>1, <2>2, <2>3, KeepsAlone
<1>7. CASE HostItemUnregistered
  <2>1. Now' = Taken \/ \E i \in LiveSet(Now) : sni[i].uid = M.a /\ Now' = ItemFree(Taken, i)
    BY <1>1, <1>7, UnregisteredDoes
  <2>2. Incoming("unregistered")
    BY <1>7, Zenon DEF HostItemUnregistered
  <2>3. CASE Now' = Taken
    <3>1. Keeps(Taken, Now')
      BY <1>3, <2>2, <2>3, SameKeeps
    <3> QED BY <1>1, <2>2, <3>1, KeepsAlone
  <2>4. ASSUME NEW i \in LiveSet(Now), sni[i].uid = M.a, Now' = ItemFree(Taken, i) PROVE Alone'
    BY <1>1, <1>7, <2>4, FreedAlone
  <2> QED BY <2>1, <2>3, <2>4
<1>8. CASE ItemProp
  <2>1. /\ M.i \in DOMAIN sni /\ M.values \in Answers
        /\ \/ Now' = Taken
           \/ M.i \in LiveSet(Now) /\ StoredIn(Taken, Now', M.i, M.ps, M.values)
    BY <1>1, <1>8, PropDoes
  <2>2. Incoming("prop")
    BY <1>8, Zenon DEF ItemProp
  <2>3. CASE Now' = Taken
    BY <1>1, <1>3, <2>2, <2>3, SameKeeps, KeepsAlone
  <2>4. CASE StoredIn(Taken, Now', M.i, M.ps, M.values)
    <3>1. PICK t : t = Now'
      OBVIOUS
    <3>2. Changed(Taken, t, M.i) /\ t.box = Taken.box
      <4>1. StoredIn(Taken, t, M.i, M.ps, M.values)
        BY <2>4, <3>1
      <4>2. CASE M.values = Failed \/ "Menu" \notin M.ps
        BY <4>1, <4>2 DEF StoredIn
      <4>3. CASE M.values # Failed /\ "Menu" \in M.ps
        <5>1. /\ Changed(Taken, t, M.i)
              /\ Sent(t, Taken.box, Taken.calls, Taken.sni[M.i].uid, MenuCall("layout", M.i, "root"))
          BY <4>1, <4>3 DEF StoredIn
        <5>2. MenuCall("layout", M.i, "root").k # "get"
          BY DEF MenuCall
        <5> QED BY <5>1, <5>2 DEF Sent
      <4> QED BY <4>2, <4>3
    <3>3. Keeps(Taken, t)
      BY <1>3, <2>1, <2>2, <3>2, ChangedKeeps
    <3> QED BY <1>1, <2>2, <3>1, <3>3, KeepsAlone
  <2> QED BY <2>1, <2>3, <2>4
<1>9. CASE ItemSignal
  <2>1. /\ M.a \in Apps
        /\ \/ Now' = Taken
           \/ \E i \in LiveSet(Now) :
                sni[i].uid = M.a /\ Asks(Taken, Now', i, Get(i, PropsOf(M.s)))
    BY <1>1, <1>9, SignalDoes
  <2>2. Incoming("signal")
    BY <1>9, Zenon DEF ItemSignal
  <2>3. CASE Now' = Taken
    BY <1>1, <1>3, <2>2, <2>3, SameKeeps, KeepsAlone
  <2>4. ASSUME NEW i \in LiveSet(Now), sni[i].uid = M.a, Asks(Taken, Now', i, Get(i, PropsOf(M.s))) PROVE Alone'
    <3>1. Unregistered(M.a) \notin ToSet(Taken.box)
      <4>1. PICK a \in Apps : a = M.a
        BY <2>1
      <4>2. M \in Messages /\ M.k = "signal" /\ M \in ToSet(inbox)
        BY <1>1, <1>3, <2>2, TakenFields
      <4>3. M \in SignalsFrom(a)
        BY <4>1, <4>2 DEF SignalsFrom
      <4>4. Buried(sni, inbox, alive, a)
        BY DEF Alone, Ends
      <4>5. Unregistered(a) \notin ToSet(inbox)
        BY <4>2, <4>3, <4>4 DEF Buried
      <4> QED BY <1>3, <2>2, <4>1, <4>5
    <3>2. PICK t, r : t = Now' /\ r = Get(i, PropsOf(M.s))
      OBVIOUS
    <3>3. Keeps(Taken, t)
      BY <1>3, <1>4, <2>2, <2>4, <3>1, <3>2, AsksEnds
    <3> QED BY <1>1, <2>2, <3>2, <3>3, KeepsAlone
  <2> QED BY <2>1, <2>3, <2>4
<1>10. CASE MenuLayoutUpdated
  <2>1. \/ Now' = Taken
        \/ \E i \in LiveSet(Now) : Asks(Taken, Now', i, MenuCall("layout", i, "root"))
    BY <1>1, <1>10, UpdatedDoes
  <2>2. Incoming("layout updated")
    BY <1>10, Zenon DEF MenuLayoutUpdated
  <2>3. CASE Now' = Taken
    BY <1>1, <1>3, <2>2, <2>3, SameKeeps, KeepsAlone
  <2>4. ASSUME NEW i \in LiveSet(Now), Asks(Taken, Now', i, MenuCall("layout", i, "root")) PROVE Alone'
    <3>1. MenuCall("layout", i, "root").k # "get"
      BY DEF MenuCall
    <3>2. PICK t, r : t = Now' /\ r = MenuCall("layout", i, "root")
      OBVIOUS
    <3>3. Keeps(Taken, t)
      BY <1>3, <1>4, <2>2, <2>4, <3>1, <3>2, AsksEnds
    <3> QED BY <1>1, <2>2, <3>2, <3>3, KeepsAlone
  <2> QED BY <2>1, <2>3, <2>4
<1>11. CASE MenuLayout
  <2>1. \/ Now' = Taken
        \/ /\ M.i \in LiveSet(Now)
           /\ BecomesItem(Taken, Now', M.i, [sni[M.i] EXCEPT !.menu = ApplyLayout(@, M.node, M.layout)])
    BY <1>1, <1>11, LayoutDoes
  <2>2. Incoming("layout")
    BY <1>11, Zenon DEF MenuLayout
  <2>3. CASE Now' = Taken
    BY <1>1, <1>3, <2>2, <2>3, SameKeeps, KeepsAlone
  <2>4. ASSUME NEW x, M.i \in LiveSet(Now), BecomesItem(Taken, Now', M.i, x) PROVE Alone'
    <3>1. PICK t : t = Now'
      OBVIOUS
    <3>2. Changed(Taken, t, M.i) /\ t.box = Taken.box
      BY <2>4, <3>1 DEF BecomesItem
    <3>3. Keeps(Taken, t)
      BY <1>3, <1>4, <2>2, <2>4, <3>2, ChangedKeeps
    <3> QED BY <1>1, <2>2, <3>1, <3>3, KeepsAlone
  <2> QED BY <2>1, <2>3, <2>4
<1>12. CASE MenuAboutToShow
  <2>1. \/ Now' = Taken
        \/ M.i \in LiveSet(Now) /\ Asks(Taken, Now', M.i, MenuCall("layout", M.i, M.node))
    BY <1>1, <1>12, ShowDoes
  <2>2. Incoming("about to show")
    BY <1>12, Zenon DEF MenuAboutToShow
  <2>3. CASE Now' = Taken
    BY <1>1, <1>3, <2>2, <2>3, SameKeeps, KeepsAlone
  <2>4. CASE M.i \in LiveSet(Now) /\ Asks(Taken, Now', M.i, MenuCall("layout", M.i, M.node))
    <3>1. MenuCall("layout", M.i, M.node).k # "get"
      BY DEF MenuCall
    <3>2. PICK i, t, r : i = M.i /\ t = Now' /\ r = MenuCall("layout", M.i, M.node)
      OBVIOUS
    <3>3. Keeps(Taken, t)
      BY <1>3, <1>4, <2>2, <2>4, <3>1, <3>2, AsksEnds
    <3> QED BY <1>1, <2>2, <3>2, <3>3, KeepsAlone
  <2> QED BY <2>1, <2>3, <2>4
<1>13. CASE TrayUpdate
  <2>1. Now' \in States /\ Now'.sni = sni /\ Now'.box = inbox
    BY <1>1, <1>13, UpdateDoes
  <2>2. PICK t \in States : t = Now' /\ t.sni = Now.sni /\ t.box = Now.box
    BY <1>2, <2>1
  <2>3. Grows(Now, t)
    <3>1. Now.box \in Seq(Messages)
      BY <1>2, StateFields
    <3> QED BY <2>2, <3>1, GrowsSame
  <2>4. Keeps(Now, t)
    BY <1>2, <2>2, <2>3 DEF Keeps, Alone
  <2> QED BY <1>1, <2>2, <2>4, StandsAlone
<1>14. ASSUME NEW i \in DOMAIN sni, SuppressionEnds(i) PROVE Alone'
  <2>1. BecomesItem(Now, Now', i, [sni[i] EXCEPT !.menu = SuppressionOver(@)])
    BY <1>1, <1>14, SuppressionDoes
  <2>2. PICK t : t = Now'
    OBVIOUS
  <2>3. Changed(Now, t, i) /\ t.box = Now.box
    BY <2>1, <2>2 DEF BecomesItem
  <2>4. Keeps(Now, t)
    BY <1>2, <2>3, ChangedKeeps DEF Alone
  <2> QED BY <1>1, <2>2, <2>4, StandsAlone
<1>15. ASSUME NEW i \in DOMAIN sni, NEW node \in {"root", "sub"}, UserOpens(i, node) PROVE Alone'
  <2>0. node \in Nodes
    BY DEF Nodes
  <2>1. i \in LiveSet(Now) /\ Asks(Now, Now', i, MenuCall("about to show", i, node))
    BY <1>1, <1>15, <2>0, OpensDoes
  <2>2. MenuCall("about to show", i, node).k # "get"
    BY DEF MenuCall
  <2>3. PICK t, r : t = Now' /\ r = MenuCall("about to show", i, node)
    OBVIOUS
  <2>4. Keeps(Now, t)
    BY <1>2, <1>4, <2>1, <2>2, <2>3, AsksEnds DEF Alone
  <2> QED BY <1>1, <2>3, <2>4, StandsAlone
<1> QED BY <1>5, <1>6, <1>7, <1>8, <1>9, <1>10, <1>11, <1>12, <1>13, <1>14, <1>15 DEF ItemSteps

\* A message of neither an end nor a property
LEMMA PlainEnds ==
  ASSUME NEW n, NEW b \in Seq(Messages), NEW x \in Messages, NEW up, NEW w, NEW g, Ends(n, b, up, w, g),
         x.k \notin {"register", "registered", "gone", "unregistered", "prop"}, x.k = "signal" => x.a \in up
  PROVE  Ends(n, Append(b, x), up, w, g)
<1> DEFINE f == <<x>>
<1>1. f \in Seq(Messages) /\ ToSet(f) = {x} /\ Append(b, x) = b \o f
  BY InOne, AppendConcat
<1> HIDE DEF f
<1>2. \A a \in Apps : x \notin Ctl(a) /\ (a \notin up => x \notin SignalsFrom(a))
  <2>1. \A a \in Apps : x \notin Ctl(a)
    BY CtlApart
  <2>2. \A a \in Apps : a \notin up => x \notin SignalsFrom(a)
    BY DEF SignalsFrom
  <2> QED BY <2>1, <2>2
<1>3. \A i \in DOMAIN n : x \notin PropsOn(i)
  BY DEF PropsOn
<1>4. Aside(f, n, b, up)
  BY <1>1, <1>2, <1>3 DEF Aside
<1>5. Ends(n, b \o f, up, w, g)
  BY <1>1, <1>4, EndsMore
<1> QED BY <1>1, <1>5

\* What is left when a message is taken
LEMMA RestIs ==
  ASSUME Types, Alone, NEW k, Incoming(k)
  PROVE  /\ inbox \in Seq(Messages) /\ Rest \in Seq(Messages) /\ M \in ToSet(inbox) /\ M = Head(inbox)
         /\ ToSet(inbox) = {M} \cup ToSet(Rest) /\ inbox # <<>> /\ Rest = Tail(inbox)
         /\ Ends(sni, Rest, alive, watched, reg) /\ Ends(sni, inbox, alive, watched, reg) /\ Watching /\ Held
<1>1. /\ inbox # <<>> /\ inbox \in Seq(Messages) /\ ToSet(inbox) = {M} \cup ToSet(Tail(inbox))
  BY TakenFields, NowFields
<1>2. Tail(inbox) \in Seq(Messages)
  BY <1>1, InTail
<1>3. Ends(sni, inbox, alive, watched, reg) /\ Watching /\ Held
  BY DEF Alone
<1>4. Ends(sni, Tail(inbox), alive, watched, reg)
  BY <1>1, <1>3, TailEnds
<1> QED BY <1>1, <1>2, <1>3, <1>4 DEF Rest, M

LEMMA StillHeld ==
  ASSUME Types, Held, sni' = sni, \A a \in watched' : a \in watched \/ Registered(a) \in ToSet(inbox'),
         \A a \in Apps : Registered(a) \in ToSet(inbox) => Registered(a) \in ToSet(inbox')
  PROVE  Held'
<1>1. watched \subseteq Apps
  BY DEF Types, BusTypes
<1>2. ASSUME NEW a \in watched' PROVE Owned(sni', a) \/ Registered(a) \in ToSet(inbox')
  BY <1>1, <1>2 DEF Held
<1> QED BY <1>2 DEF Held

\* The bar comes to own the name.
LEMMA VanishedAlone == ASSUME Base, Alone, WatcherVanished PROVE Alone'
<1>1. Types /\ Incoming("vanished")
  <2>1. Incoming("vanished")
    BY Zenon DEF WatcherVanished
  <2> QED BY <2>1 DEF Base
<1>2. /\ inbox \in Seq(Messages) /\ Rest \in Seq(Messages) /\ M \in ToSet(inbox) /\ M = Head(inbox)
      /\ ToSet(inbox) = {M} \cup ToSet(Rest) /\ inbox # <<>> /\ Rest = Tail(inbox)
      /\ Ends(sni, Rest, alive, watched, reg) /\ Ends(sni, inbox, alive, watched, reg) /\ Watching /\ Held
  BY <1>1, RestIs
<1>3. M = Msg("vanished", Nobody)
  BY <1>1, HeadIs
<1>4. /\ owner = Nobody /\ epoch = 0 /\ Once(inbox, Msg("vanished", Nobody)) /\ \A a \in Apps : reg[a] = 0
  BY <1>2, <1>3 DEF Watching
<1>5. PICK x \in Messages : x = Msg("appeared", Nobody)
  BY MessageTypes
<1>6. /\ owner' = Bar /\ epoch' = 1 /\ regid' = TRUE /\ inbox' = Append(Rest, x)
      /\ theirs' = theirs /\ reg' = reg /\ alive' = alive /\ watched' = watched /\ subs' = subs /\ sni' = sni
  BY <1>4, <1>5 DEF WatcherVanished, ItemsUntouched
<1>7. ToSet(inbox') = ToSet(Rest) \cup {x} /\ inbox' \in Seq(Messages)
  <2>1. ToSet(Append(Rest, x)) = ToSet(Rest) \cup {x} /\ Append(Rest, x) \in Seq(Messages)
    BY <1>2, AppendKeeps
  <2> QED BY <1>6, <2>1
<1>8. x # Msg("vanished", Nobody) /\ x # Msg("name lost", Nobody) /\ x.k = "appeared"
      /\ \A a \in Apps : x # Msg("register", a) /\ x # Registered(a) /\ M # Registered(a)
  BY <1>3, <1>5 DEF Msg, Registered
<1>9. Msg("vanished", Nobody) \notin ToSet(Rest)
  BY <1>2, <1>3, <1>4, OnceTail
<1>10. ASSUME NEW a \in Apps PROVE AllBefore(inbox', {Msg("appeared", Nobody)}, {Msg("register", a)})
  <2>1. ToSet(inbox) \cap Ctl(a) = {}
    BY <1>2, <1>4 DEF Ends, Entered
  <2>2. Msg("register", a) \in Ctl(a)
    BY CtlApart
  <2>3. ToSet(inbox') \cap {Msg("register", a)} = {}
    BY <1>2, <1>7, <1>8, <2>1, <2>2
  <2> QED BY <2>3, BeforeEmpty
<1>11. Watching'
  <2>1. theirs' = {} /\ Msg("name lost", Nobody) \notin ToSet(inbox') /\ Msg("vanished", Nobody) \notin ToSet(inbox')
        /\ Msg("appeared", Nobody) \in ToSet(inbox')
    BY <1>2, <1>5, <1>6, <1>7, <1>8, <1>9 DEF Watching
  <2>2. \A a \in Apps : reg'[a] \in {0, 1}
    BY <1>4, <1>6
  <2>3. Nobody' = Nobody /\ Bar' = Bar
    BY DEF Nobody, Bar
  <2> QED BY <1>6, <1>10, <2>1, <2>2, <2>3 DEF Watching
<1>12. Held'
  BY <1>1, <1>2, <1>6, <1>7, <1>8, StillHeld
<1>13. Ends(sni, inbox, alive, watched, reg)'
  <2>1. Ends(sni, Append(Rest, x), alive, watched, reg)
    BY <1>2, <1>8, PlainEnds
  <2> QED BY <1>6, <2>1
<1> QED BY <1>11, <1>12, <1>13 DEF Alone

LEMMA LostAlone == ASSUME Base, Alone, NameLost PROVE Alone'
<1>1. Types /\ Incoming("name lost")
  <2>1. Incoming("name lost")
    BY Zenon DEF NameLost
  <2> QED BY <2>1 DEF Base
<1>2. M \in ToSet(inbox) /\ Watching
  BY <1>1, RestIs
<1>3. M = Msg("name lost", Nobody)
  BY <1>1, HeadIs
<1> QED BY <1>2, <1>3 DEF Watching

\* The host subscribes, once more.
LEMMA AppearedAlone == ASSUME Base, Alone, WatcherAppeared PROVE Alone'
<1>1. Types /\ Incoming("appeared")
  <2>1. Incoming("appeared")
    BY Zenon DEF WatcherAppeared
  <2> QED BY <2>1 DEF Base
<1>2. /\ inbox \in Seq(Messages) /\ Rest \in Seq(Messages) /\ M \in ToSet(inbox) /\ M = Head(inbox)
      /\ ToSet(inbox) = {M} \cup ToSet(Rest) /\ inbox # <<>> /\ Rest = Tail(inbox)
      /\ Ends(sni, Rest, alive, watched, reg) /\ Ends(sni, inbox, alive, watched, reg) /\ Watching /\ Held
  BY <1>1, RestIs
<1>3. M = Msg("appeared", Nobody)
  BY <1>1, HeadIs
<1>4. PICK x \in Messages : x = Msg("get list", Nobody)
  BY MessageTypes
<1>5. owner \in {Nobody, Bar} /\ owner # Other
  BY <1>2 DEF Watching, Nobody, Bar, Other
<1>6. inbox' = Rest \/ inbox' = Append(Rest, x)
  BY <1>4, <1>5 DEF WatcherAppeared
<1>7. /\ subs' = subs + 1 /\ sni' = sni /\ regid' = regid /\ watched' = watched
      /\ owner' = owner /\ epoch' = epoch /\ theirs' = theirs /\ reg' = reg /\ alive' = alive
  BY DEF WatcherAppeared, Untouched, busVars, ItemsUntouched
<1>8. x.k = "get list" /\ \A a \in Apps : x # Registered(a) /\ M # Registered(a)
  BY <1>3, <1>4 DEF Msg, Registered
<1>9. ToSet(Rest) \subseteq ToSet(inbox') /\ ToSet(inbox') \subseteq ToSet(inbox) \cup {x}
      /\ (Once(inbox, Msg("vanished", Nobody)) => Once(inbox', Msg("vanished", Nobody)))
  <2>1. x # Msg("vanished", Nobody)
    BY <1>4 DEF Msg
  <2>2. Once(inbox, Msg("vanished", Nobody)) => Once(Rest, Msg("vanished", Nobody))
    BY <1>2, OnceTail
  <2>3. ToSet(Append(Rest, x)) = ToSet(Rest) \cup {x}
        /\ (Once(Rest, Msg("vanished", Nobody)) => Once(Append(Rest, x), Msg("vanished", Nobody)))
    BY <1>2, <2>1, AppendKeeps
  <2> QED BY <1>2, <1>6, <2>2, <2>3
<1>10. Watching'
  <2>1. x # Msg("name lost", Nobody) /\ x # Msg("vanished", Nobody)
    BY <1>4 DEF Msg
  <2>2. theirs' = {} /\ Msg("name lost", Nobody) \notin ToSet(inbox')
    BY <1>2, <1>7, <1>9, <2>1 DEF Watching
  <2>3. subs' # 0
    BY <1>1, <1>7 DEF Types, BusTypes
  <2>4. Nobody' = Nobody /\ Bar' = Bar
    BY DEF Nobody, Bar
  <2>5. CASE owner = Nobody /\ epoch = 0 /\ Once(inbox, Msg("vanished", Nobody)) /\ \A a \in Apps : reg[a] = 0
    BY <1>7, <1>9, <2>2, <2>3, <2>4, <2>5 DEF Watching
  <2>6. CASE /\ owner = Bar /\ epoch = 1 /\ regid = TRUE /\ Msg("vanished", Nobody) \notin ToSet(inbox)
             /\ \A a \in Apps : reg[a] \in {0, 1}
    <3>1. Msg("vanished", Nobody) \notin ToSet(inbox')
      BY <1>9, <2>1, <2>6
    <3> QED BY <1>7, <2>2, <2>3, <2>4, <2>6, <3>1 DEF Watching
  <2> QED BY <1>2, <2>5, <2>6 DEF Watching
<1>11. Held'
  BY <1>1, <1>2, <1>7, <1>8, <1>9, StillHeld
<1>12. Ends(sni, inbox, alive, watched, reg)'
  <2>1. Ends(sni, Append(Rest, x), alive, watched, reg)
    BY <1>2, <1>8, PlainEnds
  <2> QED BY <1>2, <1>6, <1>7, <2>1
<1> QED BY <1>10, <1>11, <1>12 DEF Alone

\* The watcher takes an application in; the host has subscribed by then.
LEMMA RegistersAlone == ASSUME Base, Alone, Registers PROVE Alone'
<1>1. Types /\ Incoming("register")
  <2>1. Incoming("register")
    BY Zenon DEF Registers
  <2> QED BY <2>1 DEF Base
<1>2. /\ inbox \in Seq(Messages) /\ Rest \in Seq(Messages) /\ M \in ToSet(inbox) /\ M = Head(inbox)
      /\ ToSet(inbox) = {M} \cup ToSet(Rest) /\ inbox # <<>> /\ Rest = Tail(inbox)
      /\ Ends(sni, Rest, alive, watched, reg) /\ Ends(sni, inbox, alive, watched, reg) /\ Watching /\ Held
  BY <1>1, RestIs
<1>3. PICK a \in Apps : a = M.a /\ M = Msg("register", a)
  BY <1>1, HeadIs
<1>4. Entered(inbox, watched, reg, a) /\ M \in Ctl(a)
  BY <1>2, <1>3, CtlApart DEF Ends
<1>5. /\ Once(inbox, M) /\ a \notin watched /\ ToSet(inbox) \cap (Ctl(a) \ {M}) = {} /\ reg[a] # 0
  BY <1>2, <1>3, <1>4 DEF Entered
<1>6. /\ owner = Bar /\ epoch = 1 /\ regid = TRUE /\ Msg("vanished", Nobody) \notin ToSet(inbox)
      /\ \A c \in Apps : reg[c] \in {0, 1}
  BY <1>2, <1>5 DEF Watching
<1>7. subs # 0
  <2> SUFFICES ASSUME subs = 0 PROVE FALSE
    OBVIOUS
  <2>1. Msg("appeared", Nobody) \in ToSet(inbox)
        /\ AllBefore(inbox, {Msg("appeared", Nobody)}, {Msg("register", a)})
    BY <1>2, <1>6 DEF Watching
  <2>2. ToSet(inbox) \cap {Msg("appeared", Nobody)} = {}
    BY <1>2, <1>3, <2>1, BeforeTail
  <2> QED BY <2>1, <2>2
<1>8. M \notin ToSet(Rest) /\ ToSet(Rest) \cap Ctl(a) = {}
  <2>1. M \notin ToSet(Rest)
    BY <1>2, <1>5, OnceTail
  <2> QED BY <1>2, <1>5, <2>1
<1>9. PICK x \in Messages, y \in Messages : x = Registered(a) /\ y = Msg("gone", a)
  BY CtlApart
<1>10. PICK told \in Seq(Messages) : told = Append(Rest, x) /\ ToSet(told) = ToSet(Rest) \cup {x}
  BY <1>2, AppendKeeps
<1>11. /\ inbox' = IF Up(a) THEN told ELSE Append(told, y)
       /\ watched' = watched \cup {a} /\ regid' = regid /\ subs' = subs /\ sni' = sni
       /\ owner' = owner /\ epoch' = epoch /\ theirs' = theirs /\ reg' = reg /\ alive' = alive
  <2>1. subs > 0
    BY <1>1, <1>7 DEF Types, BusTypes
  <2>2. Signal(Rest, "registered", a) = told
    BY <1>9, <1>10, <2>1 DEF Signal, Registered
  <2> QED BY <1>3, <1>5, <1>6, <1>9, <2>2 DEF Registers, Untouched, busVars, ItemsUntouched
<1>12. ToSet(Append(told, y)) = ToSet(told) \cup {y}
  BY AppendKeeps
<1>13. x.k = "registered" /\ y.k = "gone"
  BY <1>9 DEF Msg, Registered
<1>14. Watching'
  <2>1. /\ x # Msg("name lost", Nobody) /\ x # Msg("vanished", Nobody)
        /\ y # Msg("name lost", Nobody) /\ y # Msg("vanished", Nobody)
    <3>1. Msg("name lost", Nobody).k = "name lost" /\ Msg("vanished", Nobody).k = "vanished"
      BY DEF Msg
    <3> QED BY <1>13, <3>1
  <2>2. Msg("name lost", Nobody) \notin ToSet(inbox') /\ Msg("vanished", Nobody) \notin ToSet(inbox')
    BY <1>2, <1>6, <1>10, <1>11, <1>12, <2>1 DEF Watching
  <2>3. theirs' = {} /\ subs' # 0
    BY <1>2, <1>7, <1>11 DEF Watching
  <2>4. Nobody' = Nobody /\ Bar' = Bar
    BY DEF Nobody, Bar
  <2> QED BY <1>6, <1>11, <2>2, <2>3, <2>4 DEF Watching
<1>15. Held'
  <2>1. ToSet(Rest) \cup {x} \subseteq ToSet(inbox')
    BY <1>10, <1>11, <1>12
  <2>2. \A c \in Apps : Registered(c) # M
    BY <1>3 DEF Registered, Msg
  <2>3. \A c \in Apps : Registered(c) \in ToSet(inbox) => Registered(c) \in ToSet(inbox')
    BY <1>2, <2>1, <2>2
  <2>4. \A c \in watched' : c \in watched \/ Registered(c) \in ToSet(inbox')
    BY <1>9, <1>11, <2>1
  <2> QED BY <1>1, <1>2, <1>11, <2>3, <2>4, StillHeld
<1>16. Ends(sni, told, alive, watched \cup {a}, reg)
  <2>1. Ends(sni, Append(Rest, Registered(a)), alive, watched \cup {a}, reg)
    BY <1>2, <1>5, <1>8, EnterEnds
  <2> QED BY <1>9, <1>10, <2>1
<1>17. Ends(sni, inbox, alive, watched, reg)'
  <2>1. CASE Up(a)
    BY <1>11, <1>16, <2>1
  <2>2. CASE ~Up(a)
    <3>1. a \in watched \cup {a} /\ a \notin alive
      BY <2>2 DEF Up
    <3> DEFINE w == watched \cup {a}
    <3> HIDE DEF w
    <3>2. Ends(sni, Append(told, Msg("gone", a)), alive, w, reg)
      BY <1>16, <3>1, GoneEnds DEF w
    <3> QED BY <1>9, <1>11, <2>2, <3>2 DEF w
  <2> QED BY <2>1, <2>2
<1> QED BY <1>14, <1>15, <1>17 DEF Alone

LEMMA GetsAlone == ASSUME Base, Alone, GetsList PROVE Alone'
<1>1. Types /\ Incoming("get list")
  <2>1. Incoming("get list")
    BY Zenon DEF GetsList
  <2> QED BY <2>1 DEF Base
<1>2. /\ inbox \in Seq(Messages) /\ Rest \in Seq(Messages)
      /\ ToSet(inbox) = {M} \cup ToSet(Rest)
      /\ Ends(sni, Rest, alive, watched, reg) /\ Watching /\ Held
  BY <1>1, RestIs
<1>3. M = Msg("get list", Nobody)
  BY <1>1, HeadIs
<1>4. PICK x \in Messages : x = List(watched) /\ x.k = "list"
  <2>1. watched \in SUBSET Apps
    BY <1>1 DEF Types, BusTypes
  <2>2. List(watched) \in Messages /\ List(watched).k = "list"
    BY <2>1, MessageTypes, Zenon
  <2> QED BY <2>2
<1>5. /\ inbox' = Rest \/ inbox' = Append(Rest, x)
      /\ regid' = regid /\ watched' = watched /\ subs' = subs /\ sni' = sni
      /\ owner' = owner /\ epoch' = epoch /\ theirs' = theirs /\ reg' = reg /\ alive' = alive
  BY <1>4 DEF GetsList, Untouched, busVars, ItemsUntouched
<1>6. Sends(inbox, inbox', WatchKinds)
  <2>1. Msg("get list", Nobody) \notin WatchKinds /\ List(watched) \notin WatchKinds
    <3>1. Msg("get list", Nobody).k = "get list"
      BY DEF Msg
    <3> QED BY <1>4, <3>1, WatchKindsAre
  <2> QED BY <1>1, <2>1, GetsListSends
<1>7. ToSet(Append(Rest, x)) = ToSet(Rest) \cup {x}
  BY <1>2, AppendKeeps
<1>8. Held'
  <2>1. \A c \in Apps : Registered(c) # M
    BY <1>3 DEF Registered, Msg
  <2>2. \A c \in Apps : Registered(c) \in ToSet(inbox) => Registered(c) \in ToSet(inbox')
    BY <1>2, <1>5, <1>7, <2>1
  <2> QED BY <1>1, <1>2, <1>5, <2>2, StillHeld
<1>9. Ends(sni, inbox, alive, watched, reg)'
  <2>1. Ends(sni, Append(Rest, x), alive, watched, reg)
    BY <1>2, <1>4, PlainEnds
  <2> QED BY <1>2, <1>5, <2>1
<1>10. Watching'
  <2>1. WatchVars' = WatchVars
    BY <1>5 DEF WatchVars
  <2> QED BY <1>1, <1>2, <1>6, <2>1, WatchingStays
<1> QED BY <1>8, <1>9, <1>10 DEF Alone

\* The watcher forgets an application that is gone, and tells the host, which knows it.
LEMMA GoneAlone == ASSUME Base, Alone, ItemGone PROVE Alone'
<1>1. Types /\ Incoming("gone")
  <2>1. Incoming("gone")
    BY Zenon DEF ItemGone
  <2> QED BY <2>1 DEF Base
<1>2. /\ inbox \in Seq(Messages) /\ Rest \in Seq(Messages) /\ M \in ToSet(inbox) /\ M = Head(inbox)
      /\ ToSet(inbox) = {M} \cup ToSet(Rest) /\ inbox # <<>> /\ Rest = Tail(inbox)
      /\ Ends(sni, Rest, alive, watched, reg) /\ Ends(sni, inbox, alive, watched, reg) /\ Watching /\ Held
  BY <1>1, RestIs
<1>3. PICK a \in Apps : a = M.a /\ M = Msg("gone", a)
  BY <1>1, HeadIs
<1>4. /\ a \notin alive /\ ToSet(inbox) \cap SignalsFrom(a) = {} /\ Registered(a) \notin ToSet(inbox)
  <2>1. /\ a \notin alive
        /\ AllBefore(inbox, SignalsFrom(a), {Msg("gone", a)}) /\ AllBefore(inbox, {Registered(a)}, {Msg("gone", a)})
    BY <1>2, <1>3 DEF Ends, Ended
  <2>2. ToSet(inbox) \cap SignalsFrom(a) = {} /\ ToSet(inbox) \cap {Registered(a)} = {}
    BY <1>2, <1>3, <2>1, BeforeTail
  <2> QED BY <2>1, <2>2
<1>5. PICK x \in Messages : x = Unregistered(a)
  BY CtlApart
<1>6. /\ inbox' = Rest \/ (a \in watched /\ inbox' = Append(Rest, x))
      /\ regid' = regid /\ watched' = watched \ {a} /\ subs' = subs /\ sni' = sni
      /\ owner' = owner /\ epoch' = epoch /\ theirs' = theirs /\ reg' = reg /\ alive' = alive
  <2>1. Signal(Rest, "unregistered", a) = Rest \/ Signal(Rest, "unregistered", a) = Append(Rest, x)
    BY <1>5 DEF Signal, Unregistered
  <2> QED BY <1>3, <2>1 DEF ItemGone, Untouched, busVars, ItemsUntouched
<1>7. Sends(inbox, inbox', WatchKinds)
  <2>1. Msg("gone", a).k = "gone" /\ Msg("unregistered", a).k = "unregistered"
    BY DEF Msg
  <2>2. Msg("gone", a) \notin WatchKinds /\ Msg("unregistered", a) \notin WatchKinds
    BY <2>1, WatchKindsAre
  <2> QED BY <1>1, <1>3, <2>2, GoneSends
<1>8. Watching'
  <2>1. WatchVars' = WatchVars
    BY <1>6 DEF WatchVars
  <2> QED BY <1>1, <1>2, <1>7, <2>1, WatchingStays
<1>9. ToSet(Append(Rest, x)) = ToSet(Rest) \cup {x}
  BY <1>2, AppendKeeps
<1>10. Held'
  <2>1. \A c \in Apps : Registered(c) # M
    BY <1>3 DEF Registered, Msg
  <2>2. \A c \in Apps : Registered(c) \in ToSet(inbox) => Registered(c) \in ToSet(inbox')
    BY <1>2, <1>6, <1>9, <2>1
  <2>3. \A c \in watched' : c \in watched
    BY <1>6
  <2> QED BY <1>1, <1>2, <1>6, <2>2, <2>3, StillHeld
<1>11. PICK w : w = watched \ {a}
  OBVIOUS
<1>12. Ends(sni, Rest, alive, w, reg) /\ a \notin w
  BY <1>2, <1>11, ForgetEnds
<1>13. Ends(sni, inbox, alive, watched, reg)'
  <2>1. CASE inbox' = Rest
    BY <1>6, <1>11, <1>12, <2>1
  <2>2. CASE a \in watched /\ inbox' = Append(Rest, x)
    <3>1. Entered(inbox, watched, reg, a)
      BY <1>2 DEF Ends
    <3>2. reg[a] # 0 /\ Msg("register", a) \notin ToSet(Rest) /\ Unregistered(a) \notin ToSet(Rest)
      BY <1>2, <2>2, <3>1 DEF Entered
    <3>3. Owned(sni, a)
      BY <1>2, <1>4, <2>2 DEF Held
    <3>4. ToSet(Rest) \cap SignalsFrom(a) = {}
      BY <1>2, <1>4
    <3>5. Ends(sni, Append(Rest, Unregistered(a)), alive, w, reg)
      BY <1>2, <1>4, <1>12, <3>2, <3>3, <3>4, LeaveEnds
    <3> QED BY <1>5, <1>6, <1>11, <2>2, <3>5
  <2> QED BY <1>6, <2>1, <2>2
<1> QED BY <1>8, <1>10, <1>13 DEF Alone

\* An application registers, which it does once.
LEMMA EntersAlone == ASSUME Base, Alone, NEW a \in Apps, AppRegisters(a) PROVE Alone'
<1>1. Types
  BY DEF Base
<1>2. /\ inbox \in Seq(Messages) /\ reg \in [Apps -> Nat] /\ Watching /\ Held
      /\ Ends(sni, inbox, alive, watched, reg)
  BY <1>1, NowFields DEF Types, BusTypes, Alone
<1>3. owner # Nobody /\ reg[a] # epoch
  BY DEF AppRegisters
<1>4. /\ owner = Bar /\ epoch = 1 /\ regid = TRUE /\ Msg("vanished", Nobody) \notin ToSet(inbox)
      /\ \A c \in Apps : reg[c] \in {0, 1}
  BY <1>2, <1>3 DEF Watching
<1>5. reg[a] = 0
  BY <1>3, <1>4
<1>6. PICK x \in Messages : x = Msg("register", a) /\ x.k = "register"
  <2>1. PICK x \in Messages : x = Msg("register", a)
    BY CtlApart
  <2>2. x.k = "register"
    BY <2>1 DEF Msg
  <2> QED BY <2>1, <2>2
<1>7. /\ inbox' = Append(inbox, x) /\ reg' = [reg EXCEPT ![a] = 1] /\ theirs' = theirs
      /\ regid' = regid /\ watched' = watched /\ subs' = subs /\ sni' = sni
      /\ owner' = owner /\ epoch' = epoch /\ alive' = alive
  <2>1. owner # Other
    BY <1>4 DEF Bar, Other
  <2> QED BY <1>4, <1>6, <2>1 DEF AppRegisters, barVars
<1>8. /\ ToSet(inbox') = ToSet(inbox) \cup {x}
      /\ \A S, T : AllBefore(inbox, S, T) /\ x \notin S => AllBefore(inbox', S, T)
  <2>1. /\ ToSet(Append(inbox, x)) = ToSet(inbox) \cup {x}
        /\ \A S, T : AllBefore(inbox, S, T) /\ (x \notin S \/ (x \notin T /\ ToSet(inbox) \cap T = {})) =>
             AllBefore(Append(inbox, x), S, T)
    BY <1>2, AppendKeeps
  <2> QED BY <1>7, <2>1
<1>9. Watching'
  <2>1. x # Msg("name lost", Nobody) /\ x # Msg("vanished", Nobody) /\ x # Msg("appeared", Nobody)
    <3>1. Msg("name lost", Nobody).k = "name lost" /\ Msg("vanished", Nobody).k = "vanished"
          /\ Msg("appeared", Nobody).k = "appeared"
      BY DEF Msg
    <3> QED BY <1>6, <3>1
  <2>2. theirs' = {} /\ Msg("name lost", Nobody) \notin ToSet(inbox') /\ Msg("vanished", Nobody) \notin ToSet(inbox')
    BY <1>2, <1>4, <1>7, <1>8, <2>1 DEF Watching
  <2>3. \A c \in Apps : reg'[c] \in {0, 1}
    BY <1>2, <1>4, <1>7
  <2>4. ASSUME subs' = 0
        PROVE  /\ Msg("appeared", Nobody) \in ToSet(inbox')
               /\ \A c \in Apps : AllBefore(inbox', {Msg("appeared", Nobody)}, {Msg("register", c)})
    <3>1. /\ Msg("appeared", Nobody) \in ToSet(inbox)
          /\ \A c \in Apps : AllBefore(inbox, {Msg("appeared", Nobody)}, {Msg("register", c)})
      BY <1>2, <1>4, <1>7, <2>4 DEF Watching
    <3>2. x \notin {Msg("appeared", Nobody)}
      BY <2>1
    <3>3. \A c \in Apps : AllBefore(inbox', {Msg("appeared", Nobody)}, {Msg("register", c)})
      BY <1>8, <3>1, <3>2, Zenon
    <3> QED BY <1>8, <3>1, <3>3
  <2>5. Nobody' = Nobody /\ Bar' = Bar
    BY DEF Nobody, Bar
  <2> QED BY <1>4, <1>7, <2>2, <2>3, <2>4, <2>5 DEF Watching
<1>10. Held'
  BY <1>1, <1>2, <1>7, <1>8, StillHeld
<1>11. Ends(sni, inbox, alive, watched, reg)'
  <2>1. 1 \in Nat \ {0}
    OBVIOUS
  <2>2. Ends(sni, Append(inbox, Msg("register", a)), alive, watched, [reg EXCEPT ![a] = 1])
    BY <1>2, <1>5, <2>1, RegisterEnds
  <2> QED BY <1>6, <1>7, <2>2
<1> QED BY <1>9, <1>10, <1>11 DEF Alone

LEMMA WatchesAlone == ASSUME Base, Alone, Watches, other' = "out" PROVE Alone'
<1>1. CASE OtherClaims
  BY <1>1 DEF OtherClaims
<1>2. CASE OtherQuits
  BY <1>2 DEF OtherQuits
<1> QED BY <1>1, <1>2, VanishedAlone, LostAlone, AppearedAlone, RegistersAlone, GetsAlone, GoneAlone,
           EntersAlone, Zenon DEF Watches

\* The applications do something else.
LEMMA AppsAlone ==
  ASSUME Types, Alone, sni' = sni, watched' = watched, WatchVars' = WatchVars,
         Sends(inbox, inbox', WatchKinds), ToSet(inbox) \subseteq ToSet(inbox'),
         Ends(sni, inbox', alive', watched, reg)
  PROVE  Alone'
<1>1. Watching'
  BY WatchingStays DEF Alone
<1>2. Held'
  BY StillHeld DEF Alone
<1>3. reg' = reg
  BY DEF WatchVars
<1>4. Ends(sni, inbox, alive, watched, reg)'
  BY <1>3
<1> QED BY <1>1, <1>2, <1>4 DEF Alone

\* The answers to the calls of a, while its items are there
LEMMA RepliesEnd ==
  ASSUME Base, Alone, NEW a \in Apps, a \in alive, NEW b \in Seq(Messages), Unregistered(a) \notin ToSet(b),
         NEW up, Ends(sni, b, up, watched, reg), NEW f \in Seq(Messages),
         \A x \in ToSet(f) : x.k \in {"prop", "layout", "about to show"} /\ \E r \in ToSet(asked[a]) : x.i = r.i
  PROVE  Ends(sni, b \o f, up, watched, reg)
<1>1. Types /\ Points(Now)
  BY DEF Base, Sound
<1>2. \A x \in ToSet(asked[a]) : x.i \in DOMAIN sni /\ sni[x.i].uid = a
  BY <1>1, NowFields DEF Points
<1>3. \A i \in DOMAIN sni : sni[i].uid = a => sni[i].live = TRUE
  <2>1. \A i \in DOMAIN sni : sni[i].live = FALSE => sni[i].uid \notin alive
    BY DEF Alone, Ends, Dead
  <2>2. \A i \in DOMAIN sni : sni[i].live \in BOOLEAN
    BY <1>1, SniFields
  <2> QED BY <2>1, <2>2
<1>4. ASSUME NEW c \in Apps PROVE ToSet(f) \cap Ctl(c) = {} /\ ToSet(f) \cap SignalsFrom(c) = {}
  <2>1. \A x \in Ctl(c) : x.k \in {"register", "registered", "gone", "unregistered"}
    BY CtlApart
  <2> QED BY <2>1 DEF SignalsFrom
<1>5. ASSUME NEW i \in DOMAIN sni, ToSet(f) \cap PropsOn(i) # {}
      PROVE  sni[i].live = TRUE /\ Unregistered(sni[i].uid) \notin ToSet(b)
  <2>1. PICK x \in ToSet(f) : x.i = i
    BY <1>5 DEF PropsOn
  <2>2. sni[i].uid = a
    BY <1>2, <2>1
  <2> QED BY <1>3, <2>2
<1>6. Aside(f, sni, b, up)
  BY <1>4, <1>5 DEF Aside
<1> QED BY <1>6, EndsMore

\* An application quits: the watcher is told, then its calls fail.
LEMMA QuitsAlone == ASSUME Base, Alone, NEW a \in Apps, AppQuits(a) PROVE Alone'
<1>1. Types
  BY DEF Base
<1>2. PICK told, failed, after \in Seq(Messages) : QuitsAs(a, told, failed, after)
  BY <1>1, QuitsDoes
<1>3. /\ sni' = sni /\ a \in alive /\ alive' = alive \ {a}
  BY <1>1, QuitsDoes DEF ItemsStay
<1>4. inbox \in Seq(Messages) /\ theirs = {} /\ Ends(sni, inbox, alive, watched, reg)
  BY <1>1, NowFields DEF Alone, Watching
<1>5. /\ theirs' = theirs \ {a}
      /\ UNCHANGED <<owner, epoch, reg, regid, watched, subs>>
  BY DEF AppQuits, barVars
<1>6. WatchVars' = WatchVars /\ watched' = watched
  BY <1>4, <1>5 DEF WatchVars
<1>7. PICK b \in Seq(Messages) : b = inbox \o told /\ ToSet(b) = ToSet(inbox) \cup ToSet(told)
  BY <1>4, InConcat
<1>8. PICK c \in Seq(Messages) : c = b \o failed /\ ToSet(c) = ToSet(b) \cup ToSet(failed)
  BY InConcat
<1>9. inbox' = c
  <2>1. after = <<>> /\ inbox' = ((inbox \o told) \o failed) \o after
    BY <1>2, <1>4, Zenon DEF QuitsAs
  <2>2. c = c \o <<>>
    BY ConcatNone
  <2> QED BY <1>7, <1>8, <2>1, <2>2
<1>10. ToSet(told) \subseteq {Msg("gone", a)}
  BY <1>2 DEF QuitsAs
<1>11. \A x \in ToSet(failed) : x.k = "prop" /\ \E r \in ToSet(asked[a]) : x.i = r.i
  BY <1>2 DEF QuitsAs
<1>12. Sends(inbox, inbox', WatchKinds)
  <2>1. ToSet(told) \cap WatchKinds = {} /\ ToSet(failed) \cap WatchKinds = {}
    <3>1. Msg("gone", a).k = "gone"
      BY DEF Msg
    <3> QED BY <1>10, <1>11, <3>1, WatchKindsAre
  <2>2. Sends(inbox, inbox, WatchKinds)
    BY <1>4, SendsSame
  <2>3. Sends(inbox, b, WatchKinds)
    BY <1>4, <1>7, <2>1, <2>2, SendsMore
  <2>4. Sends(inbox, c, WatchKinds)
    BY <1>4, <1>8, <2>1, <2>3, SendsMore
  <2> QED BY <1>9, <2>4
<1>13. PICK up : up = alive \ {a}
  OBVIOUS
<1>14. Ends(sni, inbox, up, watched, reg) /\ a \notin up
  BY <1>4, <1>13, DownEnds
<1>15. Ends(sni, b, up, watched, reg)
  <2>1. CASE a \in watched
    <3>1. Ends(sni, Append(inbox, Msg("gone", a)), up, watched, reg)
      BY <1>4, <1>14, <2>1, GoneEnds
    <3>2. Append(inbox, Msg("gone", a)) = inbox \o <<Msg("gone", a)>>
      <4>1. PICK x \in Messages : x = Msg("gone", a)
        BY CtlApart
      <4>2. Append(inbox, x) = inbox \o <<x>>
        BY <1>4, AppendConcat
      <4> QED BY <4>1, <4>2
    <3>3. told = <<Msg("gone", a)>>
      BY <1>2, <2>1 DEF QuitsAs
    <3> QED BY <1>7, <3>1, <3>2, <3>3
  <2>2. CASE a \notin watched
    <3>1. told = <<>>
      BY <1>2, <2>2 DEF QuitsAs
    <3>2. inbox = inbox \o <<>>
      BY <1>4, ConcatNone
    <3> QED BY <1>7, <1>14, <3>1, <3>2
  <2> QED BY <2>1, <2>2
<1>16. Unregistered(a) \notin ToSet(b)
  <2>1. Unregistered(a) \notin ToSet(inbox)
    BY <1>3, <1>4 DEF Ends, Buried
  <2>2. Unregistered(a) # Msg("gone", a)
    BY CtlApart
  <2> QED BY <1>7, <1>10, <2>1, <2>2
<1>17. Ends(sni, c, up, watched, reg)
  BY <1>3, <1>8, <1>11, <1>15, <1>16, RepliesEnd
<1> QED BY <1>1, <1>3, <1>6, <1>7, <1>8, <1>9, <1>12, <1>13, <1>17, AppsAlone

LEMMA AnswersAlone ==
  ASSUME Base, Alone, NEW a \in Apps, NEW refresh \in BOOLEAN, AppAnswers(a, refresh)
  PROVE  Alone'
<1>1. Types /\ Silent(Now, alive)
  BY DEF Base, Sound
<1>2. PICK f \in Seq(Messages) : AnswersAs(a, refresh, f)
  BY <1>1, AnswersDoes
<1>3. asked[a] # <<>> /\ sni' = sni /\ alive' = alive
  BY <1>1, AnswersDoes DEF ItemsStay
<1>4. inbox \in Seq(Messages) /\ asked \in [Apps -> Seq(Calls)] /\ Now.calls = asked
      /\ Ends(sni, inbox, alive, watched, reg)
  BY <1>1, NowFields DEF Alone
<1>5. WatchVars' = WatchVars /\ watched' = watched
  BY DEF AppAnswers, busVars, barVars, WatchVars
<1>6. inbox' = inbox \o f /\ DOMAIN f = DOMAIN asked[a] /\ ToSet(inbox \o f) = ToSet(inbox) \cup ToSet(f)
  BY <1>2, <1>4, InConcat DEF AnswersAs
<1>7. a \in alive
  BY <1>1, <1>3, <1>4, Zenon DEF Silent
<1>8. ASSUME NEW j \in DOMAIN f
      PROVE  f[j].k \in {"prop", "layout", "about to show"} /\ f[j].i = asked[a][j].i
  <2>1. PICK r \in Calls : r = asked[a][j]
    <3>1. asked[a] \in Seq(Calls)
      BY <1>4
    <3> QED BY <1>6, <3>1
  <2>2. /\ r.k = "get" => f[j] = PropReply(r.i, r.ps, prop[a])
        /\ r.k = "layout" => f[j] = LayoutReply(r.i, r.node, layout[a])
        /\ r.k = "about to show" => f[j] = AboutReply(r.i, r.node, refresh)
    BY <1>2, <2>1 DEF AnswersAs
  <2>3. CASE r.k = "get"
    <3>1. PICK x : x = f[j] /\ x = PropReply(r.i, r.ps, prop[a])
      BY <2>2, <2>3
    <3>2. x.k = "prop" /\ x.i = r.i
      BY <3>1 DEF PropReply
    <3> QED BY <2>1, <3>1, <3>2
  <2>4. CASE r.k = "layout"
    <3>1. PICK x : x = f[j] /\ x = LayoutReply(r.i, r.node, layout[a])
      BY <2>2, <2>4
    <3>2. x.k = "layout" /\ x.i = r.i
      BY <3>1 DEF LayoutReply
    <3> QED BY <2>1, <3>1, <3>2
  <2>5. CASE r.k = "about to show"
    <3>1. \E z : f[j] = AboutReply(r.i, r.node, z)
      BY <2>2, <2>5, Zenon
    <3>2. PICK z : f[j] = AboutReply(r.i, r.node, z)
      BY <3>1
    <3>3. AboutReply(r.i, r.node, z).k = "about to show" /\ AboutReply(r.i, r.node, z).i = r.i
      BY DEF AboutReply
    <3>4. f[j].k = "about to show" /\ f[j].i = r.i
      BY <3>2, <3>3, Zenon
    <3> QED BY <2>1, <3>4
  <2>6. r.k \in {"get", "layout", "about to show"}
    BY CallKinds
  <2> QED BY <2>3, <2>4, <2>5, <2>6
<1>9. \A x \in ToSet(f) : x.k \in {"prop", "layout", "about to show"} /\ \E r \in ToSet(asked[a]) : x.i = r.i
  BY <1>6, <1>8 DEF ToSet
<1>10. Unregistered(a) \notin ToSet(inbox)
  BY <1>4, <1>7 DEF Ends, Buried
<1>11. Ends(sni, inbox \o f, alive, watched, reg)
  BY <1>4, <1>7, <1>9, <1>10, RepliesEnd
<1>12. Sends(inbox, inbox', WatchKinds)
  <2>1. ToSet(f) \cap WatchKinds = {}
    BY <1>9, WatchKindsAre
  <2>2. Sends(inbox, inbox, WatchKinds)
    BY <1>4, SendsSame
  <2>3. Sends(inbox, inbox \o f, WatchKinds)
    BY <1>4, <2>1, <2>2, SendsMore
  <2> QED BY <1>6, <2>3
<1> QED BY <1>1, <1>3, <1>5, <1>6, <1>11, <1>12, AppsAlone

\* A message about neither is sent.
LEMMA TellsAlone ==
  ASSUME Types, Alone, sni' = sni, alive' = alive, watched' = watched, WatchVars' = WatchVars, NEW x \in Messages,
         inbox' = inbox \/ inbox' = Append(inbox, x),
         x.k \in {"signal", "layout updated"}, x.a \in alive
  PROVE  Alone'
<1>1. inbox \in Seq(Messages) /\ Ends(sni, inbox, alive, watched, reg)
  BY NowFields DEF Alone
<1>2. ToSet(Append(inbox, x)) = ToSet(inbox) \cup {x}
  BY <1>1, AppendKeeps
<1>3. Ends(sni, Append(inbox, x), alive, watched, reg)
  BY <1>1, PlainEnds
<1>4. Sends(inbox, inbox, WatchKinds)
  BY <1>1, SendsSame
<1>5. Sends(inbox, Append(inbox, x), WatchKinds)
  BY <1>1, <1>4, WatchKindsAre, SendsOne
<1>6. Sends(inbox, inbox', WatchKinds) /\ ToSet(inbox) \subseteq ToSet(inbox')
      /\ Ends(sni, inbox', alive, watched, reg)
  BY <1>1, <1>2, <1>3, <1>4, <1>5
<1> QED BY <1>6, AppsAlone

LEMMA AppStepsAlone == ASSUME Base, Alone, AppSteps PROVE Alone'
<1>1. Types
  BY DEF Base
<1>2. ASSUME NEW a \in Apps, NEW p \in Changing, AppChanges(a, p) PROVE Alone'
  <2>1. /\ inbox' = Append(inbox, Told(a, SignalOf[p])) /\ Told(a, SignalOf[p]) \in Messages
        /\ a \in alive /\ sni' = sni /\ alive' = alive
    BY <1>1, <1>2, ChangesDoes DEF ItemsStay
  <2>2. WatchVars' = WatchVars /\ watched' = watched
    BY <1>2 DEF AppChanges, barVars, WatchVars
  <2>3. Told(a, SignalOf[p]).k = "signal" /\ Told(a, SignalOf[p]).a = a
    BY DEF Told
  <2> QED BY <1>1, <2>1, <2>2, <2>3, TellsAlone
<1>3. ASSUME NEW a \in Apps, NEW l \in ToSet(Layouts), AppChangesMenu(a, l) PROVE Alone'
  <2>1. /\ inbox' = Append(inbox, Msg("layout updated", a)) \/ inbox' = inbox
        /\ a \in alive /\ sni' = sni /\ alive' = alive
    BY <1>1, <1>3, MenuChangesDoes DEF ItemsStay
  <2>2. WatchVars' = WatchVars /\ watched' = watched
    BY <1>3 DEF AppChangesMenu, barVars, WatchVars
  <2>3. PICK x \in Messages : x = Msg("layout updated", a) /\ x.k = "layout updated" /\ x.a = a
    <3>1. /\ Msg("layout updated", a) \in Messages /\ Msg("layout updated", a).k = "layout updated"
          /\ Msg("layout updated", a).a = a
      BY MessageTypes
    <3> QED BY <3>1
  <2> QED BY <1>1, <2>1, <2>2, <2>3, TellsAlone
<1> QED BY <1>2, <1>3, QuitsAlone, AnswersAlone DEF AppSteps

\* As long as there has been no other bar
OnlyBar == other = "out" => Alone

LEMMA OtherStays == ASSUME Types, Next, other' = "out" PROVE other = "out"
<1>1. CASE Watches
  <2>1. CASE OtherClaims
    BY <2>1 DEF OtherClaims
  <2>2. CASE OtherQuits
    BY <2>2 DEF OtherQuits
  <2>3. CASE WatcherVanished \/ NameLost \/ WatcherAppeared \/ Registers \/ GetsList \/ ItemGone
    BY <2>3 DEF WatcherVanished, NameLost, WatcherAppeared, Registers, GetsList, ItemGone, Untouched, busVars
  <2>4. ASSUME NEW a \in Apps, AppRegisters(a) PROVE other = "out"
    BY <2>4 DEF AppRegisters
  <2> QED BY <1>1, <2>1, <2>2, <2>3, <2>4 DEF Watches
<1>2. CASE ItemSteps
  <2>1. ASSUME NEW i \in DOMAIN sni, NEW node \in {"root", "sub"}, UserOpens(i, node) PROVE other = "out"
    BY <2>1 DEF UserOpens
  <2>2. CASE ~ \E i \in DOMAIN sni : \E node \in {"root", "sub"} : UserOpens(i, node)
    <3>1. TheBus' = TheBus
      BY <1>2, <2>2, Rest0 DEF ItemSteps
    <3> QED BY <3>1 DEF TheBus
  <2> QED BY <2>1, <2>2
<1>3. CASE AppSteps
  <2>1. ASSUME NEW a \in Apps, AppQuits(a) PROVE other = "out"
    BY <2>1 DEF AppQuits
  <2>2. ASSUME NEW a \in Apps, NEW p \in Changing, AppChanges(a, p) PROVE other = "out"
    BY <2>2 DEF AppChanges
  <2>3. ASSUME NEW a \in Apps, NEW l \in ToSet(Layouts), AppChangesMenu(a, l) PROVE other = "out"
    BY <2>3 DEF AppChangesMenu
  <2>4. ASSUME NEW a \in Apps, NEW refresh \in BOOLEAN, AppAnswers(a, refresh) PROVE other = "out"
    BY <2>4 DEF AppAnswers, busVars
  <2> QED BY <1>3, <2>1, <2>2, <2>3, <2>4 DEF AppSteps
<1> QED BY <1>1, <1>2, <1>3, NextSteps

LEMMA NextAlone == ASSUME Base, Base', OnlyBar, [Next]_vars PROVE OnlyBar'
<1> SUFFICES ASSUME other' = "out" PROVE Alone'
  BY DEF OnlyBar
<1>1. CASE Next
  <2>1. Alone
    BY <1>1, OtherStays DEF OnlyBar, Base
  <2> QED BY <1>1, <2>1, NextSteps, WatchesAlone, ItemStepsAlone, AppStepsAlone
<1>2. CASE UNCHANGED vars
  <2>1. Alone
    BY <1>2 DEF OnlyBar, vars, busVars
  <2>2. Watching' <=> Watching
    BY <1>2 DEF Watching, vars, busVars, Nobody, Bar
  <2>3. Held'
    BY <1>2, <2>1 DEF Alone, Held, vars, busVars
  <2>4. Ends(sni, inbox, alive, watched, reg)'
    BY <1>2, <2>1 DEF Alone, vars, busVars
  <2> QED BY <2>1, <2>2, <2>3, <2>4 DEF Alone
<1> QED BY <1>1, <1>2

LEMMA InitAlone == ASSUME Init PROVE OnlyBar
<1> SUFFICES ASSUME other = "out" PROVE Alone
  BY DEF OnlyBar
<1>1. PICK x \in Messages : x = Msg("vanished", Nobody) /\ x.k = "vanished"
  <2>1. Msg("vanished", Nobody) \in Messages /\ Msg("vanished", Nobody).k = "vanished"
    BY MessageTypes
  <2> QED BY <2>1
<1>2. /\ inbox = <<x>> /\ owner = Nobody /\ epoch = 0 /\ theirs = {} /\ subs = 0 /\ watched = {} /\ sni = <<>>
      /\ \A a \in Apps : reg[a] = 0
  BY <1>1 DEF Init
<1>3. ToSet(inbox) = {x} /\ Once(inbox, x)
  <2>1. ToSet(inbox) = {x}
    BY <1>2, InOne
  <2>2. \A n \in DOMAIN <<x>> : n = 1
    OBVIOUS
  <2> QED BY <1>2, <2>1, <2>2 DEF Once
<1>4. Watching
  <2>1. Msg("name lost", Nobody) # x
    BY <1>1 DEF Msg
  <2>2. Nobody # Bar
    BY DEF Nobody, Bar
  <2> QED BY <1>1, <1>2, <1>3, <2>1, <2>2 DEF Watching
<1>5. Held
  BY <1>2 DEF Held
<1>6. DOMAIN sni = {}
  BY <1>2
<1>7. ASSUME NEW a \in Apps
      PROVE  Buried(sni, inbox, alive, a) /\ Ended(inbox, alive, a) /\ Entered(inbox, watched, reg, a)
  <2>1. ToSet(inbox) \cap Ctl(a) = {} /\ Unregistered(a) \notin ToSet(inbox) /\ Msg("gone", a) \notin ToSet(inbox)
        /\ Msg("register", a) \notin ToSet(inbox)
    BY <1>1, <1>3, CtlApart
  <2>2. ToSet(inbox) \cap {Msg("gone", a)} = {}
    BY <2>1
  <2>3. AllBefore(inbox, SignalsFrom(a), {Msg("gone", a)}) /\ AllBefore(inbox, {Registered(a)}, {Msg("gone", a)})
    BY <2>2, BeforeEmpty
  <2> QED BY <1>2, <2>1, <2>3 DEF Buried, Ended, Entered
<1>8. Ends(sni, inbox, alive, watched, reg)
  BY <1>6, <1>7 DEF Ends, Dead
<1> QED BY <1>4, <1>5, <1>8 DEF Alone

LEMMA RepliesFind == ASSUME Base, OnlyBar PROVE RepliesBeforeFree
<1>1. Types /\ Counts(Now)
  BY DEF Base, Sound
<1>2. Now.sni = sni /\ Now.box = inbox /\ Now.calls = asked /\ inbox \in Seq(Messages)
  BY <1>1, NowFields
<1>3. ASSUME NEW i \in DOMAIN sni
      PROVE  /\ Live(i) => sni[i].ref = Counted(inbox, "prop", i) + Counted(asked[sni[i].uid], "get", i)
             /\ ~Live(i) /\ other = "out" => Pending(i) = {}
  <2>1. sni[i].live \in BOOLEAN
    BY <1>1, SniFields
  <2>2. CASE sni[i].live = TRUE
    <3>1. Live(i)
      BY <2>2 DEF Live
    <3>2. i \in LiveSet(Now)
      BY <1>2, <2>2 DEF LiveSet
    <3>3. Now.sni[i].ref = InFlight(Now, i)
      BY <1>1, <3>2 DEF Counts
    <3>4. InFlight(Now, i) = Counted(inbox, "prop", i) + Counted(asked[sni[i].uid], "get", i)
      BY <1>2, Zenon DEF InFlight, Flight
    <3> QED BY <1>2, <3>1, <3>3, <3>4
  <2>3. CASE sni[i].live = FALSE
    <3>1. ~Live(i)
      BY <2>3 DEF Live
    <3>2. ASSUME other = "out" PROVE Pending(i) = {}
      <4>1. ToSet(inbox) \cap PropsOn(i) = {}
        BY <2>3, <3>2 DEF OnlyBar, Alone, Ends, Dead
      <4>2. ASSUME NEW n \in DOMAIN inbox, inbox[n].k = "prop", inbox[n].i = i PROVE FALSE
        <5>1. inbox[n] \in Messages /\ inbox[n] \in ToSet(inbox)
          BY <1>2 DEF ToSet
        <5> QED BY <4>1, <4>2, <5>1 DEF PropsOn
      <4> QED BY <4>2 DEF Pending
    <3> QED BY <3>1, <3>2
  <2> QED BY <2>1, <2>2, <2>3
<1> QED BY <1>3 DEF RepliesBeforeFree

\* A live item counts the calls of its properties whose answers are still to come, and
\* as long as there has been no other bar nothing is on its way to an item that is freed:
\* by the time the host hears that an application is gone, what it owed has failed.
THEOREM RepliesFindItems == Spec => []RepliesBeforeFree
<1>1. Init => Base /\ OnlyBar
  BY InitBase, InitAlone
<1>2. Base /\ OnlyBar /\ [Next]_vars => Base' /\ OnlyBar'
  BY NextBase, NextAlone
<1>3. Base /\ OnlyBar => RepliesBeforeFree
  BY RepliesFind
<1> QED BY <1>1, <1>2, <1>3, PTL DEF Spec
=============================================================================
