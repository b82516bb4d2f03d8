----------------------- MODULE ModuleInterfaceProofs -----------------------
(***************************************************************************)
(* Proofs about the provider arbitration, for every set of providers, any  *)
(* load order and any number of daemon changes.                            *)
(***************************************************************************)
EXTENDS ModuleInterface, WellFoundedInduction, TLAPS

\* Every non-empty set of naturals has a least element.
LEMMA LeastNatural ==
  ASSUME NEW T \in SUBSET Nat, T # {}
  PROVE  \E m \in T : \A n \in T : m <= n
<1> DEFINE R == OpToRel(<, Nat)
<1>1. IsWellFoundedOn(R, Nat)
  BY NatLessThanWellFounded
<1>2. PICK m \in T : \A n \in T : <<n, m>> \notin R
  <2> HIDE DEF R
  <2> QED BY <1>1, WFMin
<1>3. \A n \in T : <<n, m>> \in R <=> n < m
  BY DEF OpToRel
<1>4. \A n \in T : ~(n < m)
  <2> HIDE DEF R
  <2> QED BY <1>2, <1>3, Zenon
<1> HIDE DEF R
<1>5. \A n \in T : m <= n
  BY ONLY <1>4, T \in SUBSET Nat, m \in T
<1> QED BY <1>5

\* FirstIn returns an element of the list that is in S, or None if there is
\* none (what module_interface_select's two searches rely on).
LEMMA FirstInValue ==
  ASSUME NEW list \in Seq(Providers), NEW S
  PROVE  /\ FirstIn(list, S) \in Maybe
         /\ FirstIn(list, S) # None =>
              /\ FirstIn(list, S) \in S
              /\ \E i \in DOMAIN list : list[i] = FirstIn(list, S)
         /\ (\E i \in DOMAIN list : list[i] \in S) => FirstIn(list, S) # None
<1>1. CASE ~ \E i \in DOMAIN list : list[i] \in S
  BY <1>1 DEF FirstIn, Maybe
<1>2. CASE \E i \in DOMAIN list : list[i] \in S
  <2> DEFINE T == {i \in 1..Len(list) : list[i] \in S}
  <2>1. T \in SUBSET Nat /\ T # {}
    BY <1>2
  <2>2. PICK m \in T : \A n \in T : m <= n
    BY <2>1, LeastNatural
  <2>3. \A j \in 1..(m-1) : list[j] \notin S
    BY <2>2
  <2>4. \E i \in DOMAIN list : list[i] \in S /\ \A j \in 1..(i-1) : list[j] \notin S
    BY <2>2, <2>3
  <2> DEFINE n == CHOOSE i \in DOMAIN list :
                    list[i] \in S /\ \A j \in 1..(i-1) : list[j] \notin S
  <2>5. n \in DOMAIN list /\ list[n] \in S
    BY <2>4
  <2>6. FirstIn(list, S) = list[n]
    BY <1>2 DEF FirstIn
  <2>7. list[n] \in Providers
    BY <2>5
  <2> HIDE DEF n
  <2> QED BY <2>5, <2>6, <2>7, NoneAssumption DEF Maybe
<1> QED BY <1>1, <1>2

\* If the active flag is on exactly one provider and that provider is in the
\* list, the search for the active one finds it; if it is on none, nothing.
LEMMA FirstActiveValue ==
  ASSUME NEW list \in Seq(Providers), NEW act \in [Providers -> BOOLEAN],
         NEW q \in Maybe, \A p \in Providers : act[p] <=> p = q,
         q # None => \E i \in DOMAIN list : list[i] = q
  PROVE  FirstActive(list, act) = q
<1> DEFINE S == {p \in Providers : act[p]}
<1>1. S = {q} \ {None}
  BY NoneAssumption DEF Maybe
<1>2. (\E i \in DOMAIN list : list[i] \in S) <=> q # None
  BY <1>1, NoneAssumption DEF Maybe
<1> HIDE DEF S
<1>3. FirstIn(list, S) = q
  BY <1>1, <1>2, FirstInValue DEF Maybe
<1> QED BY <1>3 DEF FirstActive, S

\* Posting a callback that continues the chain keeps it.
LEMMA AlternatesAppend ==
  ASSUME NEW q \in Seq(Callback), NEW f \in Maybe, NEW m \in Callback,
         Alternates(q, f, Len(q)),
         \/ m.op = "activate" /\ After(q, f, Len(q)) = None
         \/ m.op = "deactivate" /\ After(q, f, Len(q)) = m.prov
  PROVE  /\ Alternates(Append(q, m), f, Len(q) + 1)
         /\ After(Append(q, m), f, Len(q) + 1) =
              (IF m.op = "activate" THEN m.prov ELSE None)
<1> DEFINE r == Append(q, m)
<1>1. Len(q) \in Nat /\ r \in Seq(Callback) /\ Len(r) = Len(q) + 1
  OBVIOUS
<1>2. \A k \in 1..Len(q) : r[k] = q[k]
  OBVIOUS
<1>3. r[Len(q) + 1] = m
  OBVIOUS
<1> HIDE DEF r
<1>4. \A k \in 0..Len(q) : After(r, f, k) = After(q, f, k)
  BY <1>1, <1>2 DEF After
<1>5. After(r, f, Len(q) + 1) = IF m.op = "activate" THEN m.prov ELSE None
  BY <1>1, <1>3 DEF After
<1>6. ASSUME NEW k \in 1..(Len(q) + 1)
      PROVE  \/ r[k].op = "activate" /\ After(r, f, k - 1) = None
             \/ r[k].op = "deactivate" /\ After(r, f, k - 1) = r[k].prov
  <2>1. k - 1 \in 0..Len(q) /\ After(r, f, k - 1) = After(q, f, k - 1)
    BY <1>1, <1>4
  <2>2. CASE k \in 1..Len(q)
    BY <2>1, <2>2, <1>2 DEF Alternates
  <2>3. CASE k = Len(q) + 1
    BY <2>1, <2>3, <1>1, <1>3
  <2> QED BY <1>1, <2>2, <2>3
<1> QED BY <1>5, <1>6 DEF Alternates, r

\* Running the first callback leaves a chain that starts from its effect.
LEMMA AlternatesTail ==
  ASSUME NEW q \in Seq(Callback), NEW f \in Maybe, NEW n \in 1..Len(q),
         Alternates(q, f, n)
  PROVE  LET g == After(q, f, 1)
         IN  /\ Alternates(Tail(q), g, n - 1)
             /\ After(Tail(q), g, n - 1) = After(q, f, n)
<1> DEFINE g == After(q, f, 1)
           r == Tail(q)
<1>1. Len(q) \in Nat /\ q # <<>> /\ \A k \in 1..(Len(q) - 1) : r[k] = q[k + 1]
  OBVIOUS
<1> HIDE DEF r
<1>2. \A k \in 0..(n - 1) : After(r, g, k) = After(q, f, k + 1)
  BY <1>1 DEF After
<1>3. ASSUME NEW k \in 1..(n - 1)
      PROVE  \/ r[k].op = "activate" /\ After(r, g, k - 1) = None
             \/ r[k].op = "deactivate" /\ After(r, g, k - 1) = r[k].prov
  <2>1. k + 1 \in 1..n /\ k - 1 \in 0..(n - 1) /\ (k - 1) + 1 = k
    BY <1>1
  <2>2. After(r, g, k - 1) = After(q, f, (k + 1) - 1)
    BY <1>2, <2>1
  <2>3. r[k] = q[k + 1]
    BY <1>1, <2>1
  <2> QED BY <2>1, <2>2, <2>3 DEF Alternates
<1>4. After(r, g, n - 1) = After(q, f, n)
  BY <1>1, <1>2
<1> QED BY <1>3, <1>4 DEF Alternates, r

\* What module_interface_select does to the flags and to the queue, whatever
\* readiness change or new provider made it run.
LEMMA SelectKeeps ==
  ASSUME IInv, pc \in {"idle", "loaded"},
         NEW list \in Seq(Providers), NEW rdy \in [Providers -> BOOLEAN],
         \A i \in DOMAIN iface_providers :
           \E j \in DOMAIN list : list[j] = iface_providers[i],
         Select(list, rdy), iface_providers' = list, ready' = rdy,
         active' = active, running' = running, funcs' = funcs
  PROVE  /\ ctxQ' \in Seq(Callback)
         /\ cur' \in Locals
         /\ pc' \in {"idle", "clear", "set"}
         /\ FlagsInv'
         /\ QueueInv'
<1> DEFINE was == FirstReady(iface_providers, ready)
           new == FirstReady(list, rdy)
           old == FirstActive(list, active)
<1>1. iface_providers \in Seq(Providers) /\ ctxQ \in Seq(Callback) /\ funcs \in Maybe
  BY DEF IInv, TypeOK
<1>2. was \in Maybe /\ new \in Maybe
  BY <1>1, FirstInValue DEF FirstReady
<1>3. was # None => \E i \in DOMAIN list : list[i] = was
  <2>1. was # None => \E i \in DOMAIN iface_providers : iface_providers[i] = was
    BY <1>1, FirstInValue DEF FirstReady
  <2> HIDE DEF was
  <2> QED BY <2>1
<1>4. old = was
  <2>1. \A p \in Providers : active[p] <=> p = was
    BY DEF IInv, FlagsInv
  <2>2. active \in [Providers -> BOOLEAN]
    BY DEF IInv, TypeOK
  <2> HIDE DEF was
  <2> QED BY <1>2, <1>3, <2>1, <2>2, FirstActiveValue
<1>5. \A p \in Providers : active[p] <=> p = old
  BY <1>4 DEF IInv, FlagsInv
<1>6. new = FirstReady(iface_providers', ready')
  OBVIOUS
<1>7. /\ Pending = Len(ctxQ)
      /\ Alternates(ctxQ, funcs, Len(ctxQ))
      /\ After(ctxQ, funcs, Len(ctxQ)) = old
      /\ running = {funcs} \ {None}
  BY <1>4 DEF IInv, QueueInv, Pending, Posted
<1> HIDE DEF was, new, old
<1>8. NoLocals \in Locals /\ [NoLocals EXCEPT !.new = new, !.old = old] \in Locals
  BY <1>2, <1>4 DEF NoLocals, Locals, Maybe
<1>9. /\ [NoLocals EXCEPT !.new = new, !.old = old].new = new
      /\ [NoLocals EXCEPT !.new = new, !.old = old].old = old
  BY DEF NoLocals
<1>10. CASE new = old
  <2>1. pc' = "idle" /\ cur' = NoLocals /\ ctxQ' = ctxQ
    BY <1>10 DEF Select, new, old
  <2>2. FlagsInv'
    BY <2>1, <1>5, <1>6, <1>10 DEF FlagsInv
  <2>3. Posted' = old /\ Pending' = Pending
    BY <2>1, <1>6, <1>10 DEF Posted, Pending
  <2> QED BY <2>1, <2>2, <2>3, <1>1, <1>7, <1>8 DEF QueueInv
<1>11. CASE new # old /\ old # None
  <2>1. /\ pc' = "clear"
        /\ cur' = [NoLocals EXCEPT !.new = new, !.old = old]
        /\ ctxQ' = Append(ctxQ, Msg("deactivate", old))
    BY <1>11 DEF Select, new, old
  <2>2. old \in Providers
    BY <1>2, <1>4, <1>11 DEF Maybe
  <2>3. FlagsInv'
    BY <2>1, <2>2, <1>5, <1>6, <1>9, <1>11 DEF FlagsInv
  <2>4. Msg("deactivate", old) \in Callback /\ Msg("deactivate", old).op = "deactivate"
        /\ Msg("deactivate", old).prov = old
    BY <2>2 DEF Msg, Callback
  <2>5. /\ Alternates(ctxQ', funcs, Len(ctxQ) + 1)
        /\ After(ctxQ', funcs, Len(ctxQ) + 1) = None
    BY <2>1, <2>4, <1>1, <1>7, AlternatesAppend
  <2>6. ctxQ' \in Seq(Callback) /\ Len(ctxQ') = Len(ctxQ) + 1
    BY <2>1, <2>4, <1>1
  <2>7. Pending' = Len(ctxQ) + 1 /\ Posted' = None
    BY <2>1, <2>6 DEF Pending, Posted
  <2> QED BY <2>1, <2>3, <2>5, <2>6, <2>7, <1>7, <1>8 DEF QueueInv
<1>12. CASE new # old /\ old = None
  <2>1. /\ pc' = "set"
        /\ cur' = [NoLocals EXCEPT !.new = new, !.old = old]
        /\ ctxQ' = Append(ctxQ, Msg("activate", new))
    BY <1>12 DEF Select, new, old
  <2>2. new \in Providers
    BY <1>2, <1>12 DEF Maybe
  <2>3. FlagsInv'
    BY <2>1, <2>2, <1>5, <1>6, <1>9, <1>12, NoneAssumption DEF FlagsInv
  <2>4. Msg("activate", new) \in Callback /\ Msg("activate", new).op = "activate"
        /\ Msg("activate", new).prov = new
    BY <2>2 DEF Msg, Callback
  <2>5. /\ Alternates(ctxQ', funcs, Len(ctxQ) + 1)
        /\ After(ctxQ', funcs, Len(ctxQ) + 1) = new
    BY <2>1, <2>4, <1>1, <1>7, <1>12, AlternatesAppend
  <2>6. ctxQ' \in Seq(Callback) /\ Len(ctxQ') = Len(ctxQ) + 1
    BY <2>1, <2>4, <1>1
  <2>7. Pending' = Len(ctxQ) + 1 /\ Posted' = new
    BY <2>1, <2>6, <1>9 DEF Pending, Posted
  <2> QED BY <2>1, <2>3, <2>5, <2>6, <2>7, <1>7, <1>8 DEF QueueInv
<1> QED BY <1>10, <1>11, <1>12

LEMMA InitEstablishes == Init => IInv
<1> SUFFICES ASSUME Init PROVE IInv
  OBVIOUS
<1>1. FirstReady(iface_providers, ready) = None
  BY DEF Init, FirstReady, FirstIn
<1>2. TypeOK
  BY BoundsAssumption DEF Init, TypeOK, NoLocals, Locals, Maybe, Message, Callback
<1>3. FlagsInv
  BY <1>1, NoneAssumption DEF Init, FlagsInv
<1>4. Pending = 0 /\ Posted = None
  BY <1>1 DEF Init, Pending, Posted
<1>5. QueueInv
  BY <1>4 DEF Init, QueueInv, Alternates, After
<1> QED BY <1>2, <1>3, <1>5 DEF IInv

\* The first waiting callback is one of the chain unless it is a lone init.
LEMMA HeadOfQueue ==
  ASSUME IInv, ctxQ # <<>>
  PROVE  /\ ctxQ[1] = Head(ctxQ) /\ Len(ctxQ) \in Nat \ {0}
         /\ Head(ctxQ).op = "init" => pc = "init" /\ Len(ctxQ) = 1 /\ Pending = 0
         /\ Head(ctxQ).op # "init" => Pending \in 1..Len(ctxQ)
<1>1. ctxQ \in Seq(Callback) /\ ctxQ[1] = Head(ctxQ) /\ Len(ctxQ) \in Nat \ {0}
  BY DEF IInv, TypeOK
<1>2. Pending \in 0..Len(ctxQ) /\ (pc # "init" => Pending = Len(ctxQ))
  BY <1>1 DEF Pending
<1>3. Pending # 0 => Head(ctxQ).op # "init"
  BY <1>1, <1>2 DEF IInv, QueueInv, Alternates
<1>4. Pending = 0 => pc = "init" /\ Len(ctxQ) = 1 /\ Head(ctxQ).op = "init"
  BY <1>1, <1>2 DEF Pending, IInv, QueueInv, Msg
<1> QED BY <1>1, <1>2, <1>3, <1>4

\* Running the first callback of the chain keeps QueueInv.
LEMMA RunKeepsQueue ==
  ASSUME IInv, ctxQ # <<>>, Head(ctxQ).op # "init", ctxQ' = Tail(ctxQ),
         pc' = pc, cur' = cur, iface_providers' = iface_providers, ready' = ready,
         funcs' = After(ctxQ, funcs, 1), running' = {funcs'} \ {None}
  PROVE  QueueInv'
<1>1. ctxQ \in Seq(Callback) /\ funcs \in Maybe
  BY DEF IInv, TypeOK
<1>2. Pending \in 1..Len(ctxQ) /\ Len(ctxQ) \in Nat
  BY HeadOfQueue, <1>1
<1>3. Len(ctxQ') = Len(ctxQ) - 1 /\ Pending' = Pending - 1
  BY <1>1, <1>2 DEF Pending
<1>4. /\ Alternates(ctxQ', funcs', Pending - 1)
      /\ After(ctxQ', funcs', Pending - 1) = After(ctxQ, funcs, Pending)
  BY <1>1, <1>2, AlternatesTail DEF IInv, QueueInv
<1>5. Posted' = Posted
  BY DEF Posted
<1>6. pc = "init" => /\ ctxQ' # <<>>
                     /\ ctxQ'[Len(ctxQ')] = ctxQ[Len(ctxQ)]
  <2>1. SUFFICES ASSUME pc = "init"
                 PROVE  ctxQ' # <<>> /\ ctxQ'[Len(ctxQ')] = ctxQ[Len(ctxQ)]
    OBVIOUS
  <2>2. Len(ctxQ) > 1
    BY <1>2, <2>1 DEF Pending
  <2>3. Len(ctxQ') \in 1..(Len(ctxQ) - 1) /\ ctxQ' \in Seq(Callback)
    BY <1>1, <1>2, <1>3, <2>2
  <2>4. \A k \in 1..(Len(ctxQ) - 1) : ctxQ'[k] = ctxQ[k + 1]
    BY <1>1
  <2> QED BY <1>2, <1>3, <2>3, <2>4
<1> QED BY <1>3, <1>4, <1>5, <1>6 DEF IInv, QueueInv

\* Every step of either thread keeps the invariant.
LEMMA NextKeeps ==
  ASSUME SelfClearing = {}
  PROVE  IInv /\ [Next]_vars => IInv'
<1> SUFFICES ASSUME IInv, [Next]_vars PROVE IInv'
  OBVIOUS
<1>1. CASE ClearOld
  <2>1. cur.old \in Providers /\ cur.new \in Maybe /\ cur \in Locals /\ NoLocals \in Locals
    BY <1>1 DEF ClearOld, IInv, FlagsInv, TypeOK, Locals, NoLocals, Maybe
  <2>2. /\ \A p \in Providers : ~active'[p]
        /\ active' \in [Providers -> BOOLEAN]
    BY <1>1, <2>1 DEF ClearOld, IInv, FlagsInv, TypeOK
  <2>3. FirstReady(iface_providers, ready)' = cur.new
    BY <1>1 DEF ClearOld, IInv, FlagsInv
  <2>4. /\ ctxQ \in Seq(Callback) /\ Pending = Len(ctxQ) /\ funcs \in Maybe
        /\ Alternates(ctxQ, funcs, Len(ctxQ))
        /\ After(ctxQ, funcs, Len(ctxQ)) = None
        /\ running = {funcs} \ {None}
    BY <1>1 DEF ClearOld, IInv, QueueInv, TypeOK, Pending, Posted
  <2>5. CASE cur.new = None
    <3>1. pc' = "idle" /\ cur' = NoLocals /\ ctxQ' = ctxQ /\ running' = running /\ funcs' = funcs
      BY <1>1, <2>5 DEF ClearOld
    <3>2. TypeOK'
      BY <1>1, <2>1, <2>2, <3>1 DEF ClearOld, IInv, TypeOK
    <3>3. FlagsInv'
      BY <2>2, <2>3, <2>5, <3>1, NoneAssumption DEF FlagsInv
    <3>4. Pending' = Len(ctxQ) /\ Posted' = None
      BY <2>3, <2>5, <3>1 DEF Pending, Posted
    <3>5. QueueInv'
      BY <2>4, <3>1, <3>4 DEF QueueInv
    <3> QED BY <3>2, <3>3, <3>5 DEF IInv
  <2>6. CASE cur.new # None
    <3>1. /\ pc' = "set" /\ cur' = cur /\ ctxQ' = Append(ctxQ, Msg("activate", cur.new))
          /\ running' = running /\ funcs' = funcs
      BY <1>1, <2>6 DEF ClearOld
    <3>2. /\ Msg("activate", cur.new) \in Callback
          /\ Msg("activate", cur.new).op = "activate"
          /\ Msg("activate", cur.new).prov = cur.new
      BY <2>1, <2>6 DEF Msg, Callback, Maybe
    <3>3. ctxQ' \in Seq(Callback) /\ Len(ctxQ') = Len(ctxQ) + 1
      BY <2>4, <3>1, <3>2
    <3>4. TypeOK'
      BY <1>1, <2>1, <2>2, <3>1, <3>3 DEF ClearOld, IInv, TypeOK
    <3>5. FlagsInv'
      BY <2>1, <2>2, <2>3, <2>6, <3>1 DEF FlagsInv, Maybe
    <3>6. Pending' = Len(ctxQ) + 1 /\ Posted' = cur.new
      BY <3>1, <3>3 DEF Pending, Posted
    <3>7. /\ Alternates(ctxQ', funcs, Len(ctxQ) + 1)
          /\ After(ctxQ', funcs, Len(ctxQ) + 1) = cur.new
      BY <2>4, <3>1, <3>2, AlternatesAppend
    <3>8. QueueInv'
      BY <2>4, <3>1, <3>6, <3>7 DEF QueueInv
    <3> QED BY <3>4, <3>5, <3>8 DEF IInv
  <2> QED BY <2>5, <2>6
<1>2. CASE SetNew
  <2>1. cur.new \in Providers /\ NoLocals \in Locals
    BY <1>2 DEF SetNew, IInv, FlagsInv, Locals, NoLocals, Maybe
  <2>2. TypeOK'
    BY <1>2, <2>1 DEF SetNew, IInv, TypeOK
  <2>3. FlagsInv'
    BY <1>2, <2>1 DEF SetNew, IInv, FlagsInv, TypeOK
  <2>4. Pending' = Pending /\ Posted' = Posted
    BY <1>2 DEF SetNew, IInv, FlagsInv, Pending, Posted
  <2>5. QueueInv'
    BY <1>2, <2>4 DEF SetNew, IInv, QueueInv
  <2> QED BY <2>2, <2>3, <2>5 DEF IInv
<1>3. CASE Dispatch
  <2> DEFINE m == Head(mainQ)
             rdy == [ready EXCEPT ![m.prov] = (m.op = "activate")]
  <2>1. m \in Message /\ mainQ' \in Seq(Message) /\ rdy \in [Providers -> BOOLEAN]
    <3>1. mainQ \in Seq(Message) /\ mainQ # <<>> /\ mainQ' = Tail(mainQ)
          /\ ready \in [Providers -> BOOLEAN]
      BY <1>3 DEF Dispatch, IInv, TypeOK
    <3>2. m \in Message /\ mainQ' \in Seq(Message)
      BY <3>1
    <3> HIDE DEF m
    <3> QED BY <3>1, <3>2
  <2>2. iface_providers \in Seq(Providers)
    BY DEF IInv, TypeOK
  <2>3. /\ ready' = rdy /\ Select(iface_providers, rdy) /\ pc = "idle"
        /\ UNCHANGED <<module_list, iface_providers, active, up, initialised,
                       running, funcs, changes>>
    BY <1>3 DEF Dispatch
  <2> HIDE DEF rdy, m
  <2>4. /\ ctxQ' \in Seq(Callback) /\ cur' \in Locals
        /\ pc' \in {"idle", "clear", "set"} /\ FlagsInv' /\ QueueInv'
    BY <2>1, <2>2, <2>3, SelectKeeps
  <2>5. TypeOK'
    BY <2>1, <2>3, <2>4 DEF IInv, TypeOK
  <2> QED BY <2>4, <2>5 DEF IInv
<1>4. CASE LoadDone
  <2>1. cur.load \in Providers /\ pc = "loaded"
    BY <1>4 DEF LoadDone, IInv, QueueInv
  <2>2. CASE cur.result
    <3> DEFINE list == Append(iface_providers, cur.load)
    <3>1. iface_providers \in Seq(Providers) /\ ready \in [Providers -> BOOLEAN]
      BY DEF IInv, TypeOK
    <3>2. list \in Seq(Providers)
      BY <2>1, <3>1
    <3>3. \A i \in DOMAIN iface_providers : \E j \in DOMAIN list : list[j] = iface_providers[i]
      BY <2>1, <3>1
    <3>4. /\ iface_providers' = list /\ Select(list, ready)
          /\ UNCHANGED <<module_list, ready, active, up, initialised, mainQ,
                         running, funcs, changes>>
      BY <1>4, <2>2 DEF LoadDone
    <3> HIDE DEF list
    <3>5. /\ ctxQ' \in Seq(Callback) /\ cur' \in Locals
          /\ pc' \in {"idle", "clear", "set"} /\ FlagsInv' /\ QueueInv'
      BY <2>1, <3>1, <3>2, <3>3, <3>4, SelectKeeps
    <3>6. TypeOK'
      BY <3>2, <3>4, <3>5 DEF IInv, TypeOK
    <3> QED BY <3>5, <3>6 DEF IInv
  <2>3. CASE ~cur.result
    <3>1. pc' = "idle" /\ cur' = NoLocals /\ UNCHANGED <<module_list, iface_providers,
            ready, active, up, initialised, mainQ, ctxQ, running, funcs, changes>>
      BY <1>4, <2>3 DEF LoadDone
    <3>2. TypeOK'
      BY <3>1 DEF IInv, TypeOK, Locals, NoLocals, Maybe
    <3>3. FlagsInv' /\ Pending' = Pending /\ Posted' = Posted
      BY <2>1, <3>1 DEF IInv, FlagsInv, Pending, Posted
    <3>4. QueueInv'
      BY <3>1, <3>3 DEF IInv, QueueInv
    <3> QED BY <3>2, <3>3, <3>4 DEF IInv
  <2> QED BY <2>2, <2>3
<1>5. ASSUME NEW p \in Providers, Load(p) PROVE IInv'
  <2>1. /\ pc = "idle" /\ pc' = "init" /\ ctxQ' = Append(ctxQ, Msg("init", p))
        /\ cur' = [NoLocals EXCEPT !.load = p]
        /\ UNCHANGED <<iface_providers, ready, active, up, initialised, mainQ,
                       running, funcs, changes>>
    BY <1>5 DEF Load
  <2>2. Msg("init", p) \in Callback /\ ctxQ \in Seq(Callback) /\ funcs \in Maybe
    BY DEF Msg, Callback, IInv, TypeOK
  <2>3. /\ ctxQ' \in Seq(Callback) /\ Len(ctxQ') = Len(ctxQ) + 1 /\ Len(ctxQ) \in Nat
        /\ ctxQ'[Len(ctxQ')] = Msg("init", p) /\ ctxQ' # <<>>
        /\ \A k \in 1..Len(ctxQ) : ctxQ'[k] = ctxQ[k]
    BY <2>1, <2>2
  <2>4. cur' \in Locals /\ cur'.load = p
    BY <2>1 DEF Locals, NoLocals, Maybe
  <2>5. TypeOK'
    BY <1>5, <2>1, <2>3, <2>4 DEF Load, IInv, TypeOK
  <2>6. FlagsInv' /\ Pending = Len(ctxQ) /\ Pending' = Len(ctxQ) /\ Posted' = Posted
    BY <2>1, <2>3 DEF IInv, FlagsInv, Pending, Posted
  <2>7. \A k \in 0..Len(ctxQ) : After(ctxQ', funcs, k) = After(ctxQ, funcs, k)
    BY <2>3 DEF After
  <2>8. Alternates(ctxQ', funcs, Len(ctxQ))
    <3>1. SUFFICES ASSUME NEW k \in 1..Len(ctxQ)
                   PROVE \/ ctxQ'[k].op = "activate" /\ After(ctxQ', funcs, k - 1) = None
                         \/ ctxQ'[k].op = "deactivate" /\ After(ctxQ', funcs, k - 1) = ctxQ'[k].prov
      BY DEF Alternates
    <3>2. k - 1 \in 0..Len(ctxQ)
      BY <2>3
    <3> QED BY <2>3, <2>6, <2>7, <3>2 DEF IInv, QueueInv, Alternates
  <2>9. QueueInv'
    BY <2>1, <2>3, <2>4, <2>6, <2>7, <2>8 DEF IInv, QueueInv
  <2> QED BY <2>5, <2>6, <2>9 DEF IInv
<1>6. ASSUME NEW p \in Providers, RunInit(p) PROVE IInv'
  <2>1. /\ ctxQ # <<>> /\ Head(ctxQ) = Msg("init", p) /\ ctxQ' = Tail(ctxQ) /\ pc' = "loaded"
        /\ UNCHANGED <<module_list, iface_providers, ready, active, running, funcs, changes>>
    BY <1>6 DEF RunInit
  <2>2. pc = "init" /\ Len(ctxQ) = 1 /\ Pending = 0
    BY <2>1, HeadOfQueue DEF Msg
  <2>3. ctxQ' = <<>> /\ ctxQ' \in Seq(Callback) /\ Len(ctxQ') = 0
    BY <2>1, <2>2 DEF IInv, TypeOK
  <2>4. cur' \in Locals /\ cur'.load = cur.load
    BY <1>6 DEF RunInit, IInv, TypeOK, Locals
  <2>5. Msg("activate", p) \in Message
    BY DEF Msg, Message
  <2>6. up' \in [Providers -> BOOLEAN] /\ mainQ' \in Seq(Message) /\ initialised' \subseteq Providers
    <3>1. up \in [Providers -> BOOLEAN] /\ mainQ \in Seq(Message) /\ initialised \subseteq Providers
      BY DEF IInv, TypeOK
    <3>2. /\ up' = up \/ up' = [up EXCEPT ![p] = TRUE]
          /\ mainQ' = mainQ \/ mainQ' = Append(mainQ, Msg("activate", p))
          /\ initialised' = initialised \/ initialised' = initialised \cup {p}
      BY <1>6 DEF RunInit
    <3>3. up' \in [Providers -> BOOLEAN]
      BY <3>1, <3>2
    <3>4. mainQ' \in Seq(Message)
      BY <2>5, <3>1, <3>2
    <3>5. initialised' \subseteq Providers
      BY <3>1, <3>2
    <3> QED BY <3>3, <3>4, <3>5
  <2>7. TypeOK'
    BY <2>1, <2>3, <2>4, <2>6 DEF IInv, TypeOK
  <2>8. FlagsInv' /\ Pending' = 0 /\ Posted' = Posted
    BY <2>1, <2>2, <2>3 DEF IInv, FlagsInv, Pending, Posted
  <2>9. QueueInv'
    BY <2>1, <2>2, <2>4, <2>8 DEF IInv, QueueInv, Alternates, After
  <2> QED BY <2>7, <2>8, <2>9 DEF IInv
<1>7. ASSUME NEW p \in Providers, RunActivate(p) PROVE IInv'
  <2>1. /\ ctxQ # <<>> /\ Head(ctxQ) = Msg("activate", p) /\ ctxQ' = Tail(ctxQ)
        /\ funcs' = p /\ running' = running \cup {p}
        /\ UNCHANGED <<module_list, iface_providers, ready, active, up, initialised,
                       mainQ, pc, cur, changes>>
    BY <1>7 DEF RunActivate
  <2>2. Head(ctxQ).op = "activate" /\ Head(ctxQ).prov = p
    BY <2>1 DEF Msg
  <2>3. ctxQ[1] = Head(ctxQ) /\ Pending \in 1..Len(ctxQ) /\ Len(ctxQ) \in Nat
    BY <2>1, <2>2, HeadOfQueue
  <2>4. funcs = None
    BY <2>2, <2>3 DEF IInv, QueueInv, Alternates, After
  <2>5. running' = {funcs'} \ {None}
    BY <2>1, <2>4, NoneAssumption DEF IInv, QueueInv
  <2>6. funcs' = After(ctxQ, funcs, 1)
    BY <2>1, <2>2, <2>3 DEF After
  <2>7. QueueInv'
    BY <2>1, <2>2, <2>5, <2>6, RunKeepsQueue
  <2>8. TypeOK' /\ FlagsInv'
    BY <2>1 DEF IInv, TypeOK, FlagsInv, Maybe
  <2> QED BY <2>7, <2>8 DEF IInv
<1>8. ASSUME NEW p \in Providers, RunDeactivate(p) PROVE IInv'
  <2>1. /\ ctxQ # <<>> /\ Head(ctxQ) = Msg("deactivate", p) /\ ctxQ' = Tail(ctxQ)
        /\ funcs' = (IF funcs = p THEN None ELSE funcs) /\ running' = running \ {p}
        /\ UNCHANGED <<module_list, iface_providers, ready, active, up, initialised,
                       mainQ, pc, cur, changes>>
    BY <1>8 DEF RunDeactivate
  <2>2. Head(ctxQ).op = "deactivate" /\ Head(ctxQ).prov = p
    BY <2>1 DEF Msg
  <2>3. ctxQ[1] = Head(ctxQ) /\ Pending \in 1..Len(ctxQ) /\ Len(ctxQ) \in Nat
    BY <2>1, <2>2, HeadOfQueue
  <2>4. funcs = p
    BY <2>2, <2>3 DEF IInv, QueueInv, Alternates, After
  <2>5. running' = {funcs'} \ {None}
    BY <2>1, <2>4 DEF IInv, QueueInv
  <2>6. funcs' = After(ctxQ, funcs, 1)
    BY <2>1, <2>2, <2>3, <2>4 DEF After
  <2>7. QueueInv'
    BY <2>1, <2>2, <2>5, <2>6, RunKeepsQueue
  <2>8. TypeOK' /\ FlagsInv'
    BY <2>1 DEF IInv, TypeOK, FlagsInv, Maybe
  <2> QED BY <2>7, <2>8 DEF IInv
<1>9. ASSUME NEW p \in Providers, DaemonUp(p) \/ DaemonDown(p) PROVE IInv'
  <2>1. UNCHANGED <<module_list, iface_providers, ready, active, initialised,
                    ctxQ, pc, cur, running, funcs>>
    BY <1>9 DEF DaemonUp, DaemonDown
  <2>2. \A n \in 1..2 : Copies(Msg("deactivate", p), n) \in Seq(Message)
    BY DEF Copies, Msg, Message
  <2>3. DownPosts[p] \in 1..2
    BY BoundsAssumption
  <2>4. mainQ' \in Seq(Message)
    <3>1. mainQ \in Seq(Message) /\ Msg("activate", p) \in Message
      BY DEF IInv, TypeOK, Msg, Message
    <3>2. CASE DaemonUp(p)
      BY <3>1, <3>2 DEF DaemonUp
    <3>3. CASE DaemonDown(p)
      <4>1. mainQ' = mainQ \o Copies(Msg("deactivate", p), DownPosts[p])
        BY <3>3 DEF DaemonDown
      <4>2. Copies(Msg("deactivate", p), DownPosts[p]) \in Seq(Message)
        BY <2>2, <2>3
      <4> QED BY <3>1, <4>1, <4>2
    <3> QED BY <1>9, <3>2, <3>3
  <2>5. up' \in [Providers -> BOOLEAN] /\ changes' \in 0..MaxChanges
    <3>1. up \in [Providers -> BOOLEAN] /\ changes \in 0..MaxChanges /\ MaxChanges \in Nat
      BY BoundsAssumption DEF IInv, TypeOK
    <3>2. /\ changes < MaxChanges /\ changes' = changes + 1
          /\ up' = [up EXCEPT ![p] = TRUE] \/ up' = [up EXCEPT ![p] = FALSE]
      BY <1>9 DEF DaemonUp, DaemonDown
    <3>3. up' \in [Providers -> BOOLEAN]
      BY <3>1, <3>2
    <3>4. changes' \in 0..MaxChanges
      BY <3>1, <3>2
    <3> QED BY <3>3, <3>4
  <2>6. TypeOK'
    BY <2>1, <2>4, <2>5 DEF IInv, TypeOK
  <2>7. FlagsInv' /\ Pending' = Pending /\ Posted' = Posted
    BY <2>1 DEF IInv, FlagsInv, Pending, Posted
  <2>8. QueueInv'
    BY <2>1, <2>7 DEF IInv, QueueInv
  <2> QED BY <2>6, <2>7, <2>8 DEF IInv
<1>10. CASE UNCHANGED vars
  <2>1. TypeOK' /\ FlagsInv' /\ Pending' = Pending /\ Posted' = Posted
    BY <1>10 DEF vars, IInv, TypeOK, FlagsInv, Pending, Posted
  <2>2. QueueInv'
    BY <1>10, <2>1 DEF vars, IInv, QueueInv
  <2> QED BY <2>1, <2>2 DEF IInv
<1> QED
  BY <1>1, <1>2, <1>3, <1>4, <1>5, <1>6, <1>7, <1>8, <1>9, <1>10 DEF Next

\* The invariant holds in every execution, and with it the type invariant.
THEOREM Invariance == ASSUME SelfClearing = {} PROVE Spec => []IInv
<1>1. Init => IInv
  BY InitEstablishes
<1>2. IInv /\ [Next]_vars => IInv'
  BY NextKeeps
<1> QED BY <1>1, <1>2, PTL DEF Spec

\* Queues hold messages of loaded providers, flags are flags and the counters stay
\* in their bounds, for any set of providers.
THEOREM TypeCorrect == ASSUME SelfClearing = {} PROVE Spec => []TypeOK
<1>1. IInv => TypeOK
  BY DEF IInv
<1> QED BY <1>1, Invariance, PTL

\* No two providers of an interface ever run at the same time and the functions
\* a script calls are those of the one that runs, for any number of providers,
\* if no deactivate callback clears the core's flag.
THEOREM OneRuns == ASSUME SelfClearing = {} PROVE Spec => []OneProviderRuns
<1>1. IInv => OneProviderRuns
  BY DEF IInv, QueueInv, TypeOK, Maybe, OneProviderRuns
<1> QED BY <1>1, Invariance, PTL

\* Between two selections the active flag is on the first ready provider only.
THEOREM FirstReadyIsActive == ASSUME SelfClearing = {} PROVE Spec => []ActiveIsFirstReady
<1>1. IInv => ActiveIsFirstReady
  BY DEF IInv, FlagsInv, ActiveIsFirstReady
<1> QED BY <1>1, Invariance, PTL

\* When both threads are idle, InterfaceProvider() names the provider that runs.
THEOREM ReportedWhenQuiet == ASSUME SelfClearing = {} PROVE Spec => []ProviderReported
<1>1. IInv => ProviderReported
  <2> SUFFICES ASSUME IInv, Quiet PROVE running \ {None} = {ProviderGet} \ {None}
    BY DEF ProviderReported
  <2> DEFINE q == FirstReady(iface_providers, ready)
  <2>1. iface_providers \in Seq(Providers) /\ active \in [Providers -> BOOLEAN]
    BY DEF IInv, TypeOK
  <2>2. q \in Maybe /\ (q # None => \E i \in DOMAIN iface_providers : iface_providers[i] = q)
    BY <2>1, FirstInValue DEF FirstReady
  <2>3. \A p \in Providers : active[p] <=> p = q
    BY DEF Quiet, IInv, FlagsInv
  <2>4. funcs = q
    BY DEF Quiet, IInv, QueueInv, Pending, Posted, After
  <2> HIDE DEF q
  <2>5. ProviderGet = q
    BY <2>1, <2>2, <2>3, FirstActiveValue DEF ProviderGet
  <2> QED BY <2>4, <2>5 DEF IInv, QueueInv
<1> QED BY <1>1, Invariance, PTL
=============================================================================
