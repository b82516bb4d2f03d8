------------------------- MODULE TrayIconsProofs --------------------------
(***************************************************************************)
(* Which icons the tray shows, for any applications, properties and layouts *)
(* and any number of changes, on the invariants of StatusNotifierProofs:    *)
(* an icon shows its item (Drawn), an item has its application's values or  *)
(* what it lacks is under way (Contents), and who is registered with whom   *)
(* is what was announced (Registry, Era).                                   *)
(***************************************************************************)
EXTENDS StatusNotifierProofs

(* The steps that are about menus alone *)

MenuSteps ==
  \/ MenuLayoutUpdated \/ MenuLayout \/ MenuAboutToShow
  \/ \E i \in DOMAIN sni : SuppressionEnds(i) \/ \E node \in {"root", "sub"} : UserOpens(i, node)

SameButMenus(n, m) ==
  /\ DOMAIN m = DOMAIN n
  /\ \A i \in DOMAIN n : m[i].uid = n[i].uid /\ m[i].live = n[i].live /\ m[i].values = n[i].values
\* Menus may change and calls be sent, all else stays.
Mild(s, t) ==
  /\ t.tray = s.tray /\ t.invalid = s.invalid /\ t.box = s.box
  /\ SameButMenus(s.sni, t.sni)
  /\ \A a \in Apps : ToSet(s.calls[a]) \subseteq ToSet(t.calls[a])

LEMMA MildSame == ASSUME NEW s PROVE Mild(s, s)
BY DEF Mild, SameButMenus

LEMMA ChangedButMenus ==
  ASSUME NEW s, NEW t, NEW i, Changed(s, t, i), t.sni[i].values = s.sni[i].values
  PROVE  SameButMenus(s.sni, t.sni)
BY DEF Changed, SameButMenus

LEMMA AsksMild ==
  ASSUME NEW s \in States, NEW t, NEW i \in DOMAIN s.sni, NEW r, Asks(s, t, i, r), r.k # "get"
  PROVE  Mild(s, t)
<1>1. /\ Changed(s, t, i) /\ t.tray = s.tray /\ t.invalid = s.invalid /\ t.sni[i].values = s.sni[i].values
      /\ r \in Calls /\ Sent(t, s.box, s.calls, s.sni[i].uid, r) /\ t \in States
  BY DEF Asks, Changed
<1>2. s.sni[i].uid \in Apps
  BY ItemFields
<1>3. \A b \in Apps : ToSet(s.calls[b]) \subseteq ToSet(t.calls[b])
  BY <1>1, <1>2, SentMore
<1>4. t.box = s.box
  BY <1>1 DEF Sent
<1>5. SameButMenus(s.sni, t.sni)
  BY <1>1, ChangedButMenus
<1> QED BY <1>1, <1>3, <1>4, <1>5 DEF Mild

LEMMA ItemMild ==
  ASSUME NEW s, NEW t, NEW i, NEW x, BecomesItem(s, t, i, x), x.values = s.sni[i].values
  PROVE  Mild(s, t)
<1>1. /\ Changed(s, t, i) /\ t.tray = s.tray /\ t.invalid = s.invalid /\ t.box = s.box /\ t.calls = s.calls
      /\ t.sni[i].values = s.sni[i].values
  BY DEF BecomesItem
<1>2. SameButMenus(s.sni, t.sni)
  BY <1>1, ChangedButMenus
<1> QED BY <1>1, <1>2 DEF Mild

LEMMA MenuKind ==
  ASSUME NEW k \in {"layout", "about to show"}, NEW i, NEW n
  PROVE  \E r : r = MenuCall(k, i, n) /\ r.k # "get"
<1>1. MenuCall(k, i, n).k = k
  BY DEF MenuCall
<1>2. k # "get"
  OBVIOUS
<1> QED BY <1>1, <1>2, Zenon

LEMMA MenuStepsMild ==
  ASSUME Base, MenuSteps
  PROVE  \/ Mild(Now, Now')
         \/ \E k \in {"layout updated", "layout", "about to show"} : Incoming(k) /\ Mild(Taken, Now')
<1>1. Types /\ Points(Now)
  BY DEF Base, Sound
<1>2. Now \in States /\ Now.sni = sni
  BY <1>1, NowFields
<1>3. \A k : Incoming(k) => Taken \in States /\ Taken.sni = sni
  BY <1>1, TakenFields
<1>4. \A i \in LiveSet(Now) : i \in DOMAIN sni
  BY <1>2 DEF LiveSet
<1>5. CASE MenuLayoutUpdated
  <2>1. \/ Now' = Taken
        \/ \E i \in LiveSet(Now) : Asks(Taken, Now', i, MenuCall("layout", i, "root"))
    BY <1>1, <1>5, UpdatedDoes
  <2>2. Incoming("layout updated")
    BY <1>5, Zenon DEF MenuLayoutUpdated
  <2>3. ASSUME NEW i \in LiveSet(Now), Asks(Taken, Now', i, MenuCall("layout", i, "root"))
        PROVE  Mild(Taken, Now')
    <3>1. PICK r : r = MenuCall("layout", i, "root") /\ r.k # "get"
      BY MenuKind
    <3>2. Taken \in States /\ i \in DOMAIN Taken.sni
      BY <1>3, <1>4, <2>2
    <3>3. PICK t : t = Now'
      OBVIOUS
    <3>4. Asks(Taken, t, i, r)
      BY <2>3, <3>1, <3>3
    <3>5. Mild(Taken, t)
      BY <3>1, <3>2, <3>4, AsksMild
    <3> QED BY <3>3, <3>5
  <2> QED BY <2>1, <2>2, <2>3, MildSame
<1>6. CASE MenuLayout
  <2>1. \/ Now' = Taken
        \/ /\ M.i \in LiveSet(Now)
           /\ BecomesItem(Taken, Now', M.i, [sni[M.i] EXCEPT !.menu = ApplyLayout(@, M.node, M.layout)])
    BY <1>1, <1>6, LayoutDoes
  <2>2. Incoming("layout")
    BY <1>6, Zenon DEF MenuLayout
  <2>3. CASE /\ M.i \in LiveSet(Now)
             /\ BecomesItem(Taken, Now', M.i, [sni[M.i] EXCEPT !.menu = ApplyLayout(@, M.node, M.layout)])
    <3> DEFINE x == [sni[M.i] EXCEPT !.menu = ApplyLayout(@, M.node, M.layout)]
    <3>1. M.i \in DOMAIN sni
      BY <1>4, <2>3
    <3>2. sni[M.i] \in ItemSet
      BY <1>1, <3>1, SniFields
    <3>3. x.values = sni[M.i].values
      BY <3>2 DEF ItemSet
    <3>4. BecomesItem(Taken, Now', M.i, x) /\ Taken.sni = sni
      BY <1>3, <2>2, <2>3
    <3> HIDE DEF x
    <3> QED BY <2>2, <3>3, <3>4, ItemMild
  <2> QED BY <2>1, <2>2, <2>3, MildSame
<1>7. CASE MenuAboutToShow
  <2>1. M.i \in DOMAIN sni /\ (Now' = Taken \/ Asks(Taken, Now', M.i, MenuCall("layout", M.i, M.node)))
    BY <1>1, <1>7, ShowDoes
  <2>2. Incoming("about to show")
    BY <1>7, Zenon DEF MenuAboutToShow
  <2>3. CASE Asks(Taken, Now', M.i, MenuCall("layout", M.i, M.node))
    <3>1. PICK r : r = MenuCall("layout", M.i, M.node) /\ r.k # "get"
      BY MenuKind
    <3>2. Taken \in States /\ M.i \in DOMAIN Taken.sni
      BY <1>3, <2>1, <2>2
    <3>3. PICK t : t = Now'
      OBVIOUS
    <3>4. Asks(Taken, t, M.i, r)
      BY <2>3, <3>1, <3>3
    <3>5. Mild(Taken, t)
      BY <3>1, <3>2, <3>4, AsksMild
    <3> QED BY <2>2, <3>3, <3>5
  <2> QED BY <2>1, <2>2, <2>3, MildSame
<1>8. ASSUME NEW i \in DOMAIN sni, SuppressionEnds(i) PROVE Mild(Now, Now')
  <2> DEFINE x == [sni[i] EXCEPT !.menu = SuppressionOver(@)]
  <2>1. BecomesItem(Now, Now', i, x)
    BY <1>1, <1>8, SuppressionDoes
  <2>2. sni[i] \in ItemSet
    BY <1>1, SniFields
  <2>3. x.values = Now.sni[i].values
    BY <1>2, <2>2 DEF ItemSet
  <2> HIDE DEF x
  <2> QED BY <2>1, <2>3, ItemMild
<1>9. ASSUME NEW i \in DOMAIN sni, NEW node \in {"root", "sub"}, UserOpens(i, node) PROVE Mild(Now, Now')
  <2>1. Asks(Now, Now', i, MenuCall("about to show", i, node))
    BY <1>1, <1>9, OpensDoes DEF Nodes
  <2>2. PICK r : r = MenuCall("about to show", i, node) /\ r.k # "get"
    BY MenuKind
  <2>3. PICK t : t = Now'
    OBVIOUS
  <2>4. Asks(Now, t, i, r) /\ i \in DOMAIN Now.sni
    BY <1>2, <2>1, <2>2, <2>3
  <2>5. Mild(Now, t)
    BY <1>2, <2>2, <2>4, AsksMild
  <2> QED BY <2>3, <2>5
<1> QED BY <1>5, <1>6, <1>7, <1>8, <1>9 DEF MenuSteps

----------------------------------------------------------------------------
(* What an icon shows *)

\* An icon shows its item's properties, or is to be drawn, which the grid knows.
ToDraw(s) == \A j \in DOMAIN s.tray : s.tray[j].invalid = TRUE => s.invalid = TRUE
Shown(s) ==
  \A j \in DOMAIN s.tray : s.tray[j].invalid = FALSE => s.tray[j].shown = View(s.sni[s.tray[j].i].values)
Drawn(s) == ToDraw(s) /\ Shown(s)

LEMMA IconFields ==
  ASSUME NEW s \in States, Paired(s), NEW j \in DOMAIN s.tray
  PROVE  /\ s.tray[j].invalid \in BOOLEAN /\ s.tray[j].i \in DOMAIN s.sni /\ s.tray[j].i \in LiveSet(s)
         /\ s.tray[j] \in Children
<1>1. s.tray \in Seq(Children)
  BY StateFields
<1>2. s.tray[j] \in Children
  BY <1>1
<1> QED BY <1>2 DEF Children, Paired, LiveSet

LEMMA DrawnMild ==
  ASSUME NEW s \in States, NEW t, Paired(s), Mild(s, t), Drawn(s)
  PROVE  Drawn(t)
<1>1. \A j \in DOMAIN s.tray : s.tray[j].i \in DOMAIN s.sni
  BY IconFields
<1> QED BY <1>1 DEF Drawn, ToDraw, Shown, Mild, SameButMenus

LEMMA DrawnChanged ==
  ASSUME NEW s \in States, NEW i \in DOMAIN s.sni, NEW t, Changed(s, t, i), Due(s, t), Paired(s), Drawn(s),
         \/ t.sni[i].values = s.sni[i].values
         \/ \A j \in DOMAIN s.tray : s.tray[j].i = i =>
              \E k \in DOMAIN s.tray : s.tray[k].i = i /\ t.tray[k].invalid = TRUE
  PROVE  Drawn(t)
<1>1. DOMAIN t.tray = DOMAIN s.tray
  BY DEF Changed
<1>2. ToDraw(t)
  BY <1>1 DEF ToDraw, Due, Drawn
<1>3. ASSUME NEW j \in DOMAIN s.tray, t.tray[j].invalid = FALSE
      PROVE  t.tray[j].shown = View(t.sni[t.tray[j].i].values)
  <2>1. s.tray[j].invalid \in BOOLEAN /\ s.tray[j].i \in DOMAIN s.sni
    BY IconFields
  <2>2. s.tray[j].invalid = FALSE
    BY <1>3, <2>1 DEF Due
  <2>3. s.tray[j].shown = View(s.sni[s.tray[j].i].values)
    BY <2>2 DEF Drawn, Shown
  <2>4. t.tray[j].i = s.tray[j].i /\ t.tray[j].shown = s.tray[j].shown
    BY DEF Changed
  <2>5. CASE s.tray[j].i # i
    BY <2>1, <2>3, <2>4, <2>5 DEF Changed
  <2>6. CASE s.tray[j].i = i
    <3>1. t.sni[i].values = s.sni[i].values
      BY <1>3, <2>6 DEF Paired
    <3> QED BY <2>3, <2>4, <2>6, <3>1
  <2> QED BY <2>5, <2>6
<1>4. Shown(t)
  BY <1>1, <1>3 DEF Shown
<1> QED BY <1>2, <1>4 DEF Drawn

LEMMA ChildIs == ASSUME NEW i PROVE Child(i).i = i /\ Child(i).invalid = TRUE
BY DEF Child

LEMMA DrawnNew ==
  ASSUME NEW s \in States, NEW a \in Apps, Paired(s), Drawn(s)
  PROVE  Drawn(ItemNew(s, a))
<1> DEFINE t == ItemNew(s, a)
           i == Len(s.sni) + 1
<1>1. CASE Known(s, a)
  BY <1>1 DEF ItemNew
<1>2. CASE ~Known(s, a)
  <2>1. t \in States /\ t.sni = Append(s.sni, NewItem(a)) /\ t.tray = Append(s.tray, Child(i)) /\ t.invalid = TRUE
    BY <1>2, NewAre
  <2> HIDE DEF t
  <2>2. s.sni \in Seq(ItemSet) /\ s.tray \in Seq(Children)
    BY StateFields
  <2>3. ToDraw(t)
    BY <2>1 DEF ToDraw
  <2>4. Child(i).invalid = TRUE
    BY ChildIs
  <2>5. ASSUME NEW j \in DOMAIN t.tray, t.tray[j].invalid = FALSE
        PROVE  t.tray[j].shown = View(t.sni[t.tray[j].i].values)
    <3>1. PICK c : c = Child(i)
      OBVIOUS
    <3>2. c.invalid = TRUE /\ t.tray = Append(s.tray, c)
      BY <2>1, <2>4, <3>1
    <3>3. j \in DOMAIN s.tray /\ t.tray[j] = s.tray[j]
      BY <2>2, <2>5, <3>2
    <3>4. s.tray[j].i \in DOMAIN s.sni
      BY <3>3, IconFields
    <3>5. t.sni[s.tray[j].i] = s.sni[s.tray[j].i]
      BY <2>1, <2>2, <3>4
    <3> QED BY <2>5, <3>3, <3>5 DEF Drawn, Shown
  <2>6. Shown(t)
    BY <2>5 DEF Shown
  <2> QED BY <2>3, <2>6 DEF Drawn, t
<1> QED BY <1>1, <1>2

LEMMA DrawnNews ==
  ASSUME NEW s \in States, NEW e \in Seq(Apps), Sound(s, alive), Drawn(s)
  PROVE  Drawn(News(s, e))
<1> DEFINE G == {t \in States : Sound(t, alive) /\ Drawn(t)}
<1>1. \A t \in G, a \in ToSet(e) : ItemNew(t, a) \in G
  <2> TAKE t \in G, a \in ToSet(e)
  <2>1. a \in Apps
    BY InType
  <2>2. Paired(t)
    BY DEF Sound
  <2> QED BY <2>1, <2>2, NewIn, NewSound, DrawnNew
<1>2. s \in G /\ G \in SUBSET States
  OBVIOUS
<1> HIDE DEF G
<1>3. News(s, e) \in G
  BY <1>1, <1>2, NewsKeep
<1> QED BY <1>3 DEF G

LEMMA DrawnFreed ==
  ASSUME NEW s \in States, NEW i \in LiveSet(s), Paired(s), Drawn(s)
  PROVE  Drawn(ItemFree(s, i))
<1>0. i \in DOMAIN s.sni
  BY DEF LiveSet
<1> DEFINE t == ItemFree(s, i)
<1>1. /\ t \in States /\ \A j \in DOMAIN s.sni : j # i => t.sni[j] = s.sni[j]
      /\ \/ t.tray = s.tray /\ t.invalid = s.invalid /\ \A j \in DOMAIN s.tray : s.tray[j].i # i
         \/ /\ t.invalid = TRUE
            /\ \E j \in DOMAIN s.tray : s.tray[j].i = i /\ t.tray = RemoveAt(s.tray, j)
  BY <1>0, FreedAre
<1> HIDE DEF t
<1>2. PICK j \in DOMAIN s.tray : s.tray[j].i = i /\ t.tray = RemoveAt(s.tray, j) /\ t.invalid = TRUE
  BY <1>1 DEF Paired
<1>3. s.tray \in Seq(Children)
  BY StateFields
<1>4. \A k \in DOMAIN t.tray : \E m \in DOMAIN s.tray : m # j /\ t.tray[k] = s.tray[m]
  BY <1>2, <1>3, Removed
<1>5. ASSUME NEW k \in DOMAIN t.tray, t.tray[k].invalid = FALSE
      PROVE  t.tray[k].shown = View(t.sni[t.tray[k].i].values)
  <2>1. PICK m \in DOMAIN s.tray : m # j /\ t.tray[k] = s.tray[m]
    BY <1>4
  <2>2. s.tray[m].i # i /\ s.tray[m].i \in DOMAIN s.sni
    BY <1>2, <2>1, IconFields DEF Paired
  <2>3. t.sni[s.tray[m].i] = s.sni[s.tray[m].i]
    BY <1>1, <2>2
  <2> QED BY <1>5, <2>1, <2>3 DEF Drawn, Shown
<1>6. ToDraw(t) /\ Shown(t)
  BY <1>2, <1>5 DEF ToDraw, Shown
<1> QED BY <1>6 DEF Drawn, t

LEMMA DrawnSame ==
  ASSUME NEW s, NEW t, t.sni = s.sni, t.tray = s.tray, t.invalid = s.invalid, Drawn(s)
  PROVE  Drawn(t)
BY DEF Drawn, ToDraw, Shown

LEMMA TakenDrawn ==
  ASSUME Base, Drawn(Now), NEW k, Incoming(k)
  PROVE  /\ Taken \in States /\ Taken.sni = sni /\ LiveSet(Taken) = LiveSet(Now) /\ Paired(Taken) /\ Drawn(Taken)
         /\ k # "prop" => Sound(Taken, alive)
<1>1. Types /\ Sound(Now, alive) /\ Paired(Now)
  BY DEF Base, Sound
<1>2. Now.sni = sni /\ Now.tray = tray /\ Now.invalid = invalid
  BY <1>1, NowFields
<1>3. Taken \in States /\ Taken.sni = sni /\ Taken.tray = tray /\ Taken.invalid = invalid
  BY <1>1, TakenFields
<1>4. Paired(Taken) /\ LiveSet(Taken) = LiveSet(Now)
  BY <1>1, <1>2, <1>3, PairedSame
<1>5. Drawn(Taken)
  BY <1>2, <1>3, DrawnSame
<1>6. k # "prop" => Sound(Taken, alive)
  BY <1>1, TakenSound
<1> QED BY <1>3, <1>4, <1>5, <1>6

LEMMA MenuStepsDrawn == ASSUME Base, Drawn(Now), MenuSteps PROVE Drawn(Now')
<1>1. Types /\ Paired(Now)
  BY DEF Base, Sound
<1>2. Now \in States
  BY <1>1, NowFields
<1>3. CASE Mild(Now, Now')
  BY <1>1, <1>2, <1>3, DrawnMild
<1>4. ASSUME NEW k, Incoming(k), Mild(Taken, Now') PROVE Drawn(Now')
  <2>1. Taken \in States /\ Paired(Taken) /\ Drawn(Taken)
    BY <1>4, TakenDrawn
  <2> QED BY <1>4, <2>1, DrawnMild
<1> QED BY <1>3, <1>4, MenuStepsMild

LEMMA UpdateDrawn == ASSUME Base, Drawn(Now), TrayUpdate PROVE Drawn(Now')
<1>1. Types /\ Paired(Now)
  BY DEF Base, Sound
<1>2. Now \in States /\ Now.sni = sni /\ Now.tray = tray
  BY <1>1, NowFields
<1>3. \A j \in DOMAIN tray : tray[j].i \in DOMAIN sni /\ tray[j].invalid \in BOOLEAN
  BY <1>1, <1>2, IconFields
<1>4. PICK t : t = Now'
  OBVIOUS
<1>5. /\ t.sni = sni /\ t.invalid = FALSE /\ DOMAIN t.tray = DOMAIN tray
      /\ \A j \in DOMAIN tray :
           /\ t.tray[j].i = tray[j].i /\ t.tray[j].invalid = FALSE
           /\ t.tray[j].shown = IF tray[j].invalid = TRUE THEN View(sni[tray[j].i].values) ELSE tray[j].shown
  BY <1>1, <1>3, <1>4, UpdateDoes
<1>6. \A j \in DOMAIN tray : tray[j].invalid = FALSE => tray[j].shown = View(sni[tray[j].i].values)
  BY <1>2 DEF Drawn, Shown
<1>7. \A j \in DOMAIN tray : t.tray[j].shown = View(t.sni[t.tray[j].i].values)
  BY <1>3, <1>5, <1>6
<1>8. Drawn(t)
  BY <1>5, <1>7 DEF Drawn, ToDraw, Shown
<1> QED BY <1>4, <1>8

LEMMA PropDrawn == ASSUME Base, Drawn(Now), ItemProp PROVE Drawn(Now')
<1>1. Types /\ Points(Now) /\ Incoming("prop")
  <2>1. Incoming("prop")
    BY Zenon DEF ItemProp
  <2> QED BY <2>1 DEF Base, Sound
<1>2. /\ M.i \in DOMAIN sni /\ M.values \in Answers
      /\ \/ Now' = Taken
         \/ StoredIn(Taken, Now', M.i, M.ps, M.values)
  BY <1>1, PropDoes
<1>3. Taken \in States /\ Paired(Taken) /\ Drawn(Taken) /\ Taken.sni = sni
  BY <1>1, TakenDrawn
<1>4. CASE StoredIn(Taken, Now', M.i, M.ps, M.values)
  <2>1. PICK t : t = Now'
    OBVIOUS
  <2>2. PICK i \in DOMAIN sni : i = M.i
    BY <1>2
  <2>3. StoredIn(Taken, t, i, M.ps, M.values)
    BY <1>4, <2>1, <2>2
  <2>4. Changed(Taken, t, i) /\ Due(Taken, t)
    BY <2>3 DEF StoredIn
  <2>5. \/ t.sni[i].values = Taken.sni[i].values
        \/ \A j \in DOMAIN Taken.tray : Taken.tray[j].i = i =>
             \E k \in DOMAIN Taken.tray : Taken.tray[k].i = i /\ t.tray[k].invalid = TRUE
    BY <2>3 DEF StoredIn
  <2>6. Drawn(t)
    BY <1>3, <2>4, <2>5, DrawnChanged
  <2> QED BY <2>1, <2>6
<1> QED BY <1>2, <1>3, <1>4

LEMMA SignalDrawn == ASSUME Base, Drawn(Now), ItemSignal PROVE Drawn(Now')
<1>1. Types /\ Incoming("signal")
  <2>1. Incoming("signal")
    BY Zenon DEF ItemSignal
  <2> QED BY <2>1 DEF Base
<1>2. \/ Now' = Taken
      \/ \E i \in LiveSet(Now) : Asks(Taken, Now', i, Get(i, PropsOf(M.s)))
  BY <1>1, SignalDoes
<1>3. Taken \in States /\ Paired(Taken) /\ Drawn(Taken) /\ LiveSet(Taken) = LiveSet(Now)
  BY <1>1, TakenDrawn
<1>4. ASSUME NEW i \in LiveSet(Now), Asks(Taken, Now', i, Get(i, PropsOf(M.s))) PROVE Drawn(Now')
  <2>1. PICK t : t = Now'
    OBVIOUS
  <2>2. Changed(Taken, t, i) /\ t.tray = Taken.tray /\ t.invalid = Taken.invalid
        /\ t.sni[i].values = Taken.sni[i].values
    BY <1>4, <2>1 DEF Asks
  <2>3. Due(Taken, t) /\ i \in DOMAIN Taken.sni
    BY <1>3, <2>2, DueSame DEF LiveSet
  <2>4. Drawn(t)
    BY <1>3, <2>2, <2>3, DrawnChanged
  <2> QED BY <2>1, <2>4
<1> QED BY <1>2, <1>3, <1>4

LEMMA ItemStepsDrawn == ASSUME Base, Drawn(Now), ItemSteps PROVE Drawn(Now')
<1>1. Types
  BY DEF Base
<1>2. CASE HostList
  <2>1. Incoming("list") /\ "list" # "prop"
    BY <1>2, Zenon DEF HostList
  <2>2. Now' = News(Taken, SetToSeq(M.uids)) /\ SetToSeq(M.uids) \in Seq(Apps)
    BY <1>1, <1>2, ListDoes
  <2>3. Taken \in States /\ Drawn(Taken) /\ Sound(Taken, alive)
    BY <2>1, TakenDrawn
  <2> QED BY <2>2, <2>3, DrawnNews
<1>3. CASE HostItemRegistered
  <2>1. Incoming("registered")
    BY <1>3, Zenon DEF HostItemRegistered
  <2>2. M.a \in Apps /\ Now' = ItemNew(Taken, M.a)
    BY <1>1, <1>3, RegisteredDoes
  <2>3. Taken \in States /\ Drawn(Taken) /\ Paired(Taken)
    BY <2>1, TakenDrawn
  <2> QED BY <2>2, <2>3, DrawnNew
<1>4. CASE HostItemUnregistered
  <2>1. Incoming("unregistered")
    BY <1>4, Zenon DEF HostItemUnregistered
  <2>2. Now' = Taken \/ \E i \in LiveSet(Now) : Now' = ItemFree(Taken, i)
    BY <1>1, <1>4, UnregisteredDoes
  <2>3. Taken \in States /\ Drawn(Taken) /\ Paired(Taken) /\ LiveSet(Taken) = LiveSet(Now)
    BY <2>1, TakenDrawn
  <2> QED BY <2>2, <2>3, DrawnFreed
<1>5. CASE ItemProp
  BY <1>5, PropDrawn
<1>6. CASE ItemSignal
  BY <1>6, SignalDrawn
<1>7. CASE TrayUpdate
  BY <1>7, UpdateDrawn
<1>8. CASE MenuSteps
  BY <1>8, MenuStepsDrawn
<1> QED BY <1>2, <1>3, <1>4, <1>5, <1>6, <1>7, <1>8 DEF ItemSteps, MenuSteps

LEMMA StayDrawn == ASSUME Types, Drawn(Now), ItemsStay PROVE Drawn(Now')
<1>1. Now.sni = sni /\ Now.tray = tray /\ Now.invalid = invalid
  BY NowFields
<1>2. PICK t : t = Now'
  OBVIOUS
<1>3. t.sni = sni' /\ t.tray = tray' /\ t.invalid = invalid'
  BY <1>2 DEF Now, Items
<1>4. t.sni = Now.sni /\ t.tray = Now.tray /\ t.invalid = Now.invalid
  BY <1>1, <1>3 DEF ItemsStay
<1>5. Drawn(t)
  BY <1>4, DrawnSame
<1> QED BY <1>2, <1>5

LEMMA AppStepsStay == ASSUME Types, AppSteps PROVE ItemsStay
<1>1. PICK a \in Apps :
        \/ AppQuits(a)
        \/ \E p \in Changing : AppChanges(a, p)
        \/ \E l \in ToSet(Layouts) : AppChangesMenu(a, l)
        \/ \E refresh \in BOOLEAN : AppAnswers(a, refresh)
  BY DEF AppSteps
<1> QED BY <1>1, QuitsDoes, ChangesDoes, MenuChangesDoes, AnswersDoes

LEMMA NextDrawn == ASSUME Base, Drawn(Now), [Next]_vars PROVE Drawn(Now')
<1>1. Types
  BY DEF Base
<1>2. CASE Watches
  <2>1. ItemsStay
    BY <1>1, <1>2, WatchesFrame DEF ItemsSame
  <2> QED BY <1>1, <2>1, StayDrawn
<1>3. CASE ItemSteps
  BY <1>3, ItemStepsDrawn
<1>4. CASE AppSteps
  BY <1>1, <1>4, AppStepsStay, StayDrawn
<1>5. CASE UNCHANGED vars
  <2>1. ItemsStay
    BY <1>5 DEF vars, ItemsStay
  <2> QED BY <1>1, <2>1, StayDrawn
<1> QED BY <1>2, <1>3, <1>4, <1>5, NextSteps

----------------------------------------------------------------------------
(* What an item knows of its application *)

\* The answers that tell the value of p, and those that tell that it is v
AnswersTo(i, p) == {x \in Messages : x.k = "prop" /\ x.i = i /\ x.values # Failed /\ p \in x.ps}
Right(i, p, v) == {x \in AnswersTo(i, p) : x.values[p] = v}
Hears(i, a) == SignalsFrom(a) \cup {x \in PropsOn(i) : x.values # Failed}
ToldOf(b, a, p) == \E x \in ToSet(b) : x \in SignalsFrom(a) /\ p \in PropsOf(x.s)
AskedOf(c, i, p) == \E r \in ToSet(c) : r.k = "get" /\ r.i = i /\ p \in r.ps
\* Item i of a has w for its property p, which is v: so it is, or it will be asked, or is asked,
\* or the last of the answers that are on their way is right.
Renewed(b, c, i, p, a, v, w) ==
  \/ ToldOf(b, a, p)
  \/ AskedOf(c, i, p)
  \/ Sealed(b, AnswersTo(i, p), Right(i, p, v))
  \/ ToSet(b) \cap AnswersTo(i, p) = {} /\ w = v

LEMMA Greatest ==
  ASSUME NEW N \in Nat, NEW T \in SUBSET (1..N), T # {}
  PROVE  \E n \in T : \A k \in T : n >= k
<1> DEFINE U == {N - k : k \in T}
<1>1. U \in SUBSET Nat /\ U # {}
  <2>1. \A k \in T : N - k \in Nat
    OBVIOUS
  <2> QED BY <2>1
<1>2. PICK u \in U : \A k \in U : ~(k < u)
  BY <1>1, Least
<1>3. PICK n \in T : u = N - n
  OBVIOUS
<1>4. ASSUME NEW k \in T PROVE n >= k
  <2>1. N - k \in U
    OBVIOUS
  <2>2. ~(N - k < N - n)
    BY <1>2, <1>3, <2>1
  <2> QED BY <2>2
<1> QED BY <1>4

LEMMA RenewedSends ==
  ASSUME NEW b \in Seq(Messages), NEW d, NEW c, NEW e, NEW i, NEW p, NEW a, NEW v, NEW w,
         Sends(b, d, Hears(i, a)), ToSet(c) \subseteq ToSet(e), Renewed(b, c, i, p, a, v, w)
  PROVE  Renewed(d, e, i, p, a, v, w)
<1> DEFINE K == Hears(i, a)
<1>1. AnswersTo(i, p) \in SUBSET K /\ Right(i, p, v) \in SUBSET K /\ SignalsFrom(a) \subseteq K
  BY DEF AnswersTo, Right, Hears, PropsOn
<1> HIDE DEF K
<1>2. Sends(b, d, K)
  BY DEF K
<1>3. \A x \in K : x \in ToSet(d) <=> x \in ToSet(b)
  BY <1>2, SendsIn
<1>4. CASE ToldOf(b, a, p)
  BY <1>1, <1>3, <1>4 DEF ToldOf, Renewed
<1>5. CASE AskedOf(c, i, p)
  BY <1>5 DEF AskedOf, Renewed
<1>6. CASE Sealed(b, AnswersTo(i, p), Right(i, p, v))
  BY <1>1, <1>2, <1>6, SendsSealed DEF Renewed
<1>7. CASE ToSet(b) \cap AnswersTo(i, p) = {} /\ w = v
  <2>1. ToSet(d) \cap AnswersTo(i, p) = {}
    BY <1>1, <1>3, <1>7
  <2> QED BY <1>7, <2>1 DEF Renewed
<1> QED BY <1>4, <1>5, <1>6, <1>7 DEF Renewed

LEMMA RenewedMore ==
  ASSUME NEW b \in Seq(Messages), NEW f \in Seq(Messages), NEW c, NEW e, NEW i, NEW p, NEW a, NEW v, NEW w,
         ToSet(f) \cap AnswersTo(i, p) = {}, AskedOf(c, i, p) => AskedOf(e, i, p), Renewed(b, c, i, p, a, v, w)
  PROVE  Renewed(b \o f, e, i, p, a, v, w)
<1>1. b \o f \in Seq(Messages) /\ ToSet(b \o f) = ToSet(b) \cup ToSet(f)
  BY InConcat
<1> DEFINE d == b \o f
<1> HIDE DEF d
<1>2. CASE ToldOf(b, a, p)
  BY <1>1, <1>2 DEF ToldOf, Renewed
<1>3. CASE AskedOf(c, i, p)
  BY <1>3 DEF Renewed
<1>4. CASE Sealed(b, AnswersTo(i, p), Right(i, p, v))
  BY <1>4, SealedConcat DEF Renewed
<1>5. CASE ToSet(b) \cap AnswersTo(i, p) = {} /\ w = v
  <2>1. ToSet(b \o f) \cap AnswersTo(i, p) = {}
    BY <1>1, <1>5
  <2> QED BY <1>5, <2>1 DEF Renewed
<1> QED BY <1>2, <1>3, <1>4, <1>5 DEF Renewed

\* The item takes in a reply.
LEMMA RenewedTaken ==
  ASSUME NEW b \in Seq(Messages), b # <<>>, NEW c, NEW e, NEW i, NEW p, NEW a, NEW v, NEW w, NEW y,
         Head(b).k = "prop", Head(b).i = i, ToSet(c) \subseteq ToSet(e), Renewed(b, c, i, p, a, v, w),
         y = IF Head(b).values # Failed /\ p \in Head(b).ps THEN Head(b).values[p] ELSE w
  PROVE  Renewed(Tail(b), e, i, p, a, v, y)
<1>1. Tail(b) \in Seq(Messages) /\ Head(b) \in Messages /\ ToSet(b) = {Head(b)} \cup ToSet(Tail(b))
  BY InTail
<1>2. CASE ToldOf(b, a, p)
  <2>1. PICK x \in ToSet(b) : x \in SignalsFrom(a) /\ p \in PropsOf(x.s)
    BY <1>2 DEF ToldOf
  <2>2. x # Head(b)
    BY <2>1 DEF SignalsFrom
  <2>3. x \in ToSet(Tail(b))
    BY <1>1, <2>2
  <2> QED BY <2>1, <2>3 DEF ToldOf, Renewed
<1>3. CASE AskedOf(c, i, p)
  BY <1>3 DEF AskedOf, Renewed
<1>4. CASE Sealed(b, AnswersTo(i, p), Right(i, p, v))
  <2>1. CASE Sealed(Tail(b), AnswersTo(i, p), Right(i, p, v))
    BY <2>1 DEF Renewed
  <2>2. CASE Head(b) \in Right(i, p, v) /\ ToSet(Tail(b)) \cap AnswersTo(i, p) = {}
    <3>1. y = v
      BY <2>2 DEF Right, AnswersTo
    <3> QED BY <2>2, <3>1 DEF Renewed
  <2> QED BY <1>4, <2>1, <2>2, SealedTail
<1>5. CASE ToSet(b) \cap AnswersTo(i, p) = {} /\ w = v
  <2>1. Head(b) \notin AnswersTo(i, p) /\ ToSet(Tail(b)) \cap AnswersTo(i, p) = {}
    BY <1>1, <1>5
  <2>2. y = w
    BY <1>1, <2>1 DEF AnswersTo
  <2> QED BY <1>5, <2>1, <2>2 DEF Renewed
<1> QED BY <1>2, <1>3, <1>4, <1>5 DEF Renewed

\* The item is told, and asks.
LEMMA RenewedAsks ==
  ASSUME NEW b \in Seq(Messages), b # <<>>, NEW c \in Seq(Calls), NEW i \in Nat, NEW p, NEW a, NEW v, NEW w,
         Head(b).k = "signal", PropsOf(Head(b).s) \in SUBSET Props, Renewed(b, c, i, p, a, v, w)
  PROVE  Renewed(Tail(b), Append(c, Get(i, PropsOf(Head(b).s))), i, p, a, v, w)
<1>1. Tail(b) \in Seq(Messages) /\ Head(b) \in Messages /\ ToSet(b) = {Head(b)} \cup ToSet(Tail(b))
  BY InTail
<1> DEFINE r == Get(i, PropsOf(Head(b).s))
<1>2. r \in Calls /\ r.k = "get" /\ r.i = i /\ r.ps = PropsOf(Head(b).s)
  BY GetKind
<1> HIDE DEF r
<1>3. ToSet(Append(c, r)) = ToSet(c) \cup {r}
  BY <1>2, InAppend
<1>4. CASE p \in PropsOf(Head(b).s)
  <2>1. AskedOf(Append(c, r), i, p)
    BY <1>2, <1>3, <1>4 DEF AskedOf
  <2> QED BY <2>1 DEF Renewed, r
<1>5. CASE p \notin PropsOf(Head(b).s)
  <2>1. CASE ToldOf(b, a, p)
    BY <1>1, <1>5, <2>1 DEF ToldOf, Renewed
  <2>2. CASE AskedOf(c, i, p)
    <3>1. AskedOf(Append(c, r), i, p)
      BY <1>3, <2>2 DEF AskedOf
    <3> QED BY <3>1 DEF Renewed, r
  <2>3. CASE Sealed(b, AnswersTo(i, p), Right(i, p, v))
    <3>1. Head(b) \notin Right(i, p, v)
      BY DEF Right, AnswersTo
    <3> QED BY <2>3, <3>1, SealedTail DEF Renewed
  <2>4. CASE ToSet(b) \cap AnswersTo(i, p) = {} /\ w = v
    BY <1>1, <2>4 DEF Renewed
  <2> QED BY <2>1, <2>2, <2>3, <2>4 DEF Renewed
<1> QED BY <1>4, <1>5

\* Its application answers.
LEMMA RenewedAnswers ==
  ASSUME NEW b \in Seq(Messages), NEW f \in Seq(Messages), NEW c, NEW e, NEW i, NEW p, NEW a, NEW v, NEW w,
         ToSet(f) \cap AnswersTo(i, p) \subseteq Right(i, p, v),
         AskedOf(c, i, p) => ToSet(f) \cap AnswersTo(i, p) # {}, Renewed(b, c, i, p, a, v, w)
  PROVE  Renewed(b \o f, e, i, p, a, v, w)
<1>1. CASE ToSet(f) \cap AnswersTo(i, p) = {}
  <2>1. ~AskedOf(c, i, p)
    BY <1>1
  <2> QED BY <1>1, <2>1, RenewedMore
<1>2. CASE ToSet(f) \cap AnswersTo(i, p) # {}
  <2> DEFINE T == {n \in DOMAIN f : f[n] \in AnswersTo(i, p)}
  <2>1. DOMAIN f = 1..Len(f) /\ Len(f) \in Nat /\ ToSet(f) = {f[n] : n \in DOMAIN f}
    BY DEF ToSet
  <2>2. T \in SUBSET (1..Len(f)) /\ T # {}
    BY <1>2, <2>1
  <2> HIDE DEF T
  <2>3. PICK n \in T : \A k \in T : n >= k
    BY <2>1, <2>2, Greatest
  <2>5. n \in DOMAIN f /\ f[n] \in Right(i, p, v)
    BY <2>1 DEF T
  <2>6. Sealed(f, AnswersTo(i, p), Right(i, p, v))
    BY <2>1, <2>3, <2>5 DEF Sealed, T
  <2>7. Sealed(b \o f, AnswersTo(i, p), Right(i, p, v))
    BY <2>6, SealedConcat
  <2> QED BY <2>7 DEF Renewed
<1> QED BY <1>1, <1>2

Fresh(s, i, p, a, pr) == Renewed(s.box, s.calls[a], i, p, a, pr[a][p], s.sni[i].values[p])
Contents(s, up, pr) ==
  \A i \in LiveSet(s) : \A p \in Named : s.sni[i].uid \in up => Fresh(s, i, p, s.sni[i].uid, pr)

\* The item stays as it is and hears the same.
SameHeard(s, t, i) ==
  /\ i \in LiveSet(s) /\ t.sni[i].uid = s.sni[i].uid /\ t.sni[i].values = s.sni[i].values
  /\ Sends(s.box, t.box, Hears(i, s.sni[i].uid))
  /\ ToSet(s.calls[s.sni[i].uid]) \subseteq ToSet(t.calls[s.sni[i].uid])

LEMMA SameFresh ==
  ASSUME NEW s \in States, NEW t, NEW up, NEW pr, Contents(s, up, pr), NEW i, SameHeard(s, t, i), NEW p \in Named,
         t.sni[i].uid \in up
  PROVE  Fresh(t, i, p, t.sni[i].uid, pr)
<1> DEFINE a == s.sni[i].uid
<1>1. Renewed(s.box, s.calls[a], i, p, a, pr[a][p], s.sni[i].values[p])
  BY DEF Contents, SameHeard, Fresh
<1>2. s.box \in Seq(Messages) /\ t.sni[i].uid = a /\ t.sni[i].values = s.sni[i].values
  BY StateFields DEF SameHeard
<1>3. Sends(s.box, t.box, Hears(i, a)) /\ ToSet(s.calls[a]) \subseteq ToSet(t.calls[a])
  BY DEF SameHeard
<1> HIDE DEF a
<1>4. Renewed(t.box, t.calls[a], i, p, a, pr[a][p], s.sni[i].values[p])
  BY <1>1, <1>2, <1>3, RenewedSends
<1> QED BY <1>2, <1>4 DEF Fresh

LEMMA ContentsKept ==
  ASSUME NEW s \in States, NEW t, NEW up, NEW pr, Contents(s, up, pr), \A i \in LiveSet(t) : SameHeard(s, t, i)
  PROVE  Contents(t, up, pr)
<1>1. ASSUME NEW i \in LiveSet(t), NEW p \in Named, t.sni[i].uid \in up PROVE Fresh(t, i, p, t.sni[i].uid, pr)
  BY <1>1, SameFresh
<1> QED BY <1>1 DEF Contents

LEMMA MildHeard ==
  ASSUME NEW s \in States, NEW t, Mild(s, t), NEW i \in LiveSet(t)
  PROVE  SameHeard(s, t, i)
<1>1. i \in LiveSet(s) /\ t.sni[i].uid = s.sni[i].uid /\ t.sni[i].values = s.sni[i].values /\ i \in DOMAIN s.sni
  BY DEF Mild, SameButMenus, LiveSet
<1>2. s.sni[i].uid \in Apps
  BY <1>1, ItemFields
<1>3. s.box \in Seq(Messages) /\ t.box = s.box
  BY StateFields DEF Mild
<1>4. Sends(s.box, t.box, Hears(i, s.sni[i].uid))
  BY <1>3, SendsSame
<1>5. ToSet(s.calls[s.sni[i].uid]) \subseteq ToSet(t.calls[s.sni[i].uid])
  BY <1>2 DEF Mild
<1> QED BY <1>1, <1>4, <1>5 DEF SameHeard

LEMMA ContentsMild ==
  ASSUME NEW s \in States, NEW t, Mild(s, t), NEW up, NEW pr, Contents(s, up, pr)
  PROVE  Contents(t, up, pr)
BY MildHeard, ContentsKept

\* Items are asked for a new one's properties.
LEMMA NewRenewed ==
  ASSUME NEW c \in Seq(Calls), NEW b, NEW i \in Nat, NEW p \in Named, NEW a, NEW v, NEW w
  PROVE  Renewed(b, Append(c, Get(i, Props)), i, p, a, v, w)
<1>1. p \in Props
  BY PropsAssumption
<1> DEFINE r == Get(i, Props)
<1>2. r \in Calls /\ r.k = "get" /\ r.i = i /\ r.ps = Props
  BY GetKind
<1> HIDE DEF r
<1>3. r \in ToSet(Append(c, r))
  BY <1>2, InAppend
<1> QED BY <1>1, <1>2, <1>3 DEF Renewed, AskedOf, r

LEMMA NewItemIs == ASSUME NEW a PROVE NewItem(a).uid = a /\ NewItem(a).live = TRUE
BY DEF NewItem

LEMMA FailedUnheard ==
  ASSUME NEW i, NEW ps, NEW j, NEW a
  PROVE  PropReply(i, ps, Failed) \notin Hears(j, a)
<1>1. PICK x : x = PropReply(i, ps, Failed)
  OBVIOUS
<1>2. x.k = "prop" /\ x.values = Failed
  BY <1>1, PropReplyIs
<1> QED BY <1>1, <1>2 DEF Hears, SignalsFrom

LEMMA ContentsNew ==
  ASSUME NEW s \in States, NEW a \in Apps, NEW pr, Contents(s, alive, pr)
  PROVE  Contents(ItemNew(s, a), alive, pr)
<1> DEFINE t == ItemNew(s, a)
           n == Len(s.sni) + 1
<1>1. CASE Known(s, a)
  BY <1>1 DEF ItemNew
<1>2. CASE ~Known(s, a)
  <2>0. s.sni \in Seq(ItemSet) /\ s.box \in Seq(Messages) /\ s.calls \in [Apps -> Seq(Calls)] /\ n \in Nat
    BY StateFields
  <2>1. /\ t.sni = Append(s.sni, NewItem(a))
        /\ \A b \in Apps : b # a => t.calls[b] = s.calls[b]
        /\ a \in alive => t.box = s.box /\ t.calls[a] = Append(s.calls[a], Get(n, Props))
        /\ a \notin alive => t.calls = s.calls /\ t.box = Append(s.box, PropReply(n, Props, Failed))
    BY <1>2, NewAre
  <2> HIDE DEF t
  <2>2. PropReply(n, Props, Failed) \in Messages
    <3>1. Failed \in Answers /\ Props \in SUBSET Props
      BY DEF Answers
    <3> QED BY <2>0, <3>1, PropReplyIn
  <2>3. ASSUME NEW i \in LiveSet(t), NEW p \in Named, t.sni[i].uid \in alive
        PROVE  Fresh(t, i, p, t.sni[i].uid, pr)
    <3>1. CASE i \in DOMAIN s.sni
      <4>1. t.sni[i] = s.sni[i] /\ i \in LiveSet(s)
        BY <2>0, <2>1, <3>1 DEF LiveSet
      <4>2. s.sni[i].uid \in Apps
        BY <3>1, ItemFields
      <4> DEFINE d == s.sni[i].uid
      <4>3. Sends(s.box, t.box, Hears(i, d))
        <5>1. Sends(s.box, s.box, Hears(i, d))
          BY <2>0, SendsSame
        <5>2. CASE a \in alive
          BY <2>1, <5>1, <5>2
        <5>3. CASE a \notin alive
          <6>1. PropReply(n, Props, Failed) \notin Hears(i, d)
            BY FailedUnheard
          <6>2. PICK x \in Messages : x = PropReply(n, Props, Failed)
            BY <2>2
          <6>3. Sends(s.box, Append(s.box, x), Hears(i, d))
            BY <2>0, <5>1, <6>1, <6>2, SendsOne
          <6> QED BY <2>1, <5>3, <6>2, <6>3
        <5> QED BY <5>2, <5>3
      <4>4. ToSet(s.calls[d]) \subseteq ToSet(t.calls[d])
        <5>1. Get(n, Props) \in Calls
          BY <2>0, GetKind
        <5>2. s.calls[a] \in Seq(Calls)
          BY <2>0
        <5>3. ToSet(s.calls[a]) \subseteq ToSet(Append(s.calls[a], Get(n, Props)))
          BY <5>1, <5>2, InAppend
        <5> QED BY <2>1, <4>2, <5>3
      <4>5. SameHeard(s, t, i)
        BY <4>1, <4>3, <4>4 DEF SameHeard
      <4> QED BY <2>3, <4>5, SameFresh
    <3>2. CASE i \notin DOMAIN s.sni
      <4>1. i = n /\ t.sni[i] = NewItem(a)
        BY <2>0, <2>1, <3>2 DEF LiveSet
      <4>2. t.sni[i].uid = a
        BY <4>1, NewItemIs
      <4>3. t.calls[a] = Append(s.calls[a], Get(n, Props)) /\ s.calls[a] \in Seq(Calls)
        BY <2>0, <2>1, <2>3, <4>2
      <4>4. PICK e : e = t.calls[a] /\ e = Append(s.calls[a], Get(i, Props))
        BY <4>1, <4>3
      <4>5. Renewed(t.box, e, i, p, a, pr[a][p], t.sni[i].values[p])
        BY <2>0, <4>1, <4>3, <4>4, NewRenewed
      <4> QED BY <4>2, <4>4, <4>5 DEF Fresh
    <3> QED BY <3>1, <3>2
  <2> QED BY <2>3 DEF Contents, t
<1> QED BY <1>1, <1>2

LEMMA ContentsNews ==
  ASSUME NEW s \in States, NEW e \in Seq(Apps), NEW pr, Contents(s, alive, pr)
  PROVE  Contents(News(s, e), alive, pr)
<1> DEFINE G == {t \in States : Contents(t, alive, pr)}
<1>1. \A t \in G, a \in ToSet(e) : ItemNew(t, a) \in G
  <2> TAKE t \in G, a \in ToSet(e)
  <2>1. a \in Apps
    BY InType
  <2> QED BY <2>1, NewIn, ContentsNew
<1>2. s \in G /\ G \in SUBSET States
  OBVIOUS
<1> HIDE DEF G
<1>3. News(s, e) \in G
  BY <1>1, <1>2, NewsKeep
<1> QED BY <1>3 DEF G

LEMMA ContentsFreed ==
  ASSUME NEW s \in States, NEW i \in LiveSet(s), NEW pr, Contents(s, alive, pr)
  PROVE  Contents(ItemFree(s, i), alive, pr)
<1>0. i \in DOMAIN s.sni
  BY DEF LiveSet
<1> DEFINE t == ItemFree(s, i)
<1>1. /\ t.box = s.box /\ t.calls = s.calls /\ DOMAIN t.sni = DOMAIN s.sni
      /\ \A j \in DOMAIN s.sni : j # i => t.sni[j] = s.sni[j]
      /\ t.sni[i].live = FALSE
  BY <1>0, FreedAre
<1> HIDE DEF t
<1>2. ASSUME NEW j \in LiveSet(t) PROVE SameHeard(s, t, j)
  <2>1. j # i /\ j \in LiveSet(s) /\ t.sni[j] = s.sni[j]
    BY <1>1 DEF LiveSet
  <2>2. Sends(s.box, t.box, Hears(j, s.sni[j].uid))
    BY <1>1, StateFields, SendsSame
  <2> QED BY <1>1, <2>1, <2>2 DEF SameHeard
<1>3. Contents(t, alive, pr)
  BY <1>2, ContentsKept
<1> QED BY <1>3 DEF t

LEMMA TakenHeard ==
  ASSUME Types, NEW k, Incoming(k), NEW i \in LiveSet(Now), M \notin Hears(i, sni[i].uid)
  PROVE  SameHeard(Now, Taken, i)
<1>1. Now \in States /\ Now.sni = sni /\ Now.box = inbox /\ Now.calls = asked
  BY NowFields
<1>2. Taken.sni = sni /\ Taken.box = Tail(inbox) /\ Taken.calls = asked
  BY TakenFields
<1>3. Sends(inbox, Tail(inbox), Hears(i, sni[i].uid))
  BY TakenSends DEF Rest
<1> QED BY <1>1, <1>2, <1>3 DEF SameHeard

LEMMA TakenLive == ASSUME Types, NEW k, Incoming(k) PROVE LiveSet(Taken) = LiveSet(Now)
<1>1. Taken.sni = Now.sni
  BY NowFields, TakenFields
<1> QED BY <1>1 DEF LiveSet

LEMMA TakenContents ==
  ASSUME Types, Contents(Now, alive, prop), NEW k, Incoming(k),
         \A i \in LiveSet(Now) : M \notin Hears(i, sni[i].uid)
  PROVE  Contents(Taken, alive, prop)
<1>1. Now \in States
  BY NowFields
<1>2. \A i \in LiveSet(Taken) : SameHeard(Now, Taken, i)
  BY TakenHeard, TakenLive
<1> QED BY <1>1, <1>2, ContentsKept

LEMMA Unheard ==
  ASSUME Types, NEW k, Incoming(k), k \notin {"prop", "signal"}
  PROVE  \A i \in LiveSet(Now) : M \notin Hears(i, sni[i].uid)
<1>1. M.k = k
  BY TakenFields
<1> QED BY <1>1 DEF Hears, SignalsFrom, PropsOn

LEMMA MenuStepsContents == ASSUME Base, Contents(Now, alive, prop), MenuSteps PROVE Contents(Now', alive, prop)
<1>1. Types /\ Now \in States
  BY NowFields DEF Base
<1>2. CASE Mild(Now, Now')
  BY <1>1, <1>2, ContentsMild
<1>3. ASSUME NEW k \in {"layout updated", "layout", "about to show"}, Incoming(k), Mild(Taken, Now')
      PROVE  Contents(Now', alive, prop)
  <2>1. k \notin {"prop", "signal"}
    OBVIOUS
  <2>2. Contents(Taken, alive, prop) /\ Taken \in States
    BY <1>1, <1>3, <2>1, Unheard, TakenContents, TakenFields
  <2> QED BY <1>3, <2>2, ContentsMild
<1> QED BY <1>2, <1>3, MenuStepsMild

\* A handler of item i leaves what the others hear.
LEMMA OthersHeard ==
  ASSUME Types, NEW k, Incoming(k), NEW i \in LiveSet(Now), NEW t, Changed(Taken, t, i),
         NEW j \in LiveSet(t), j # i, M \notin Hears(j, sni[j].uid),
         NEW r \in Calls, r.i = i,
         \/ t.box = Taken.box /\ t.calls = Taken.calls
         \/ Sent(t, Taken.box, Taken.calls, sni[i].uid, r)
  PROVE  SameHeard(Now, t, j)
<1>1. Now \in States /\ Now.sni = sni /\ Now.box = inbox /\ Now.calls = asked
  BY NowFields
<1>2. Taken.sni = sni /\ Taken.box = Tail(inbox) /\ Taken.calls = asked /\ Taken \in States
  BY TakenFields
<1>3. j \in LiveSet(Now) /\ t.sni[j] = sni[j] /\ i \in DOMAIN sni /\ t \in States
  BY <1>1, <1>2 DEF Changed, LiveSet
<1>4. sni[i].uid \in Apps /\ sni[j].uid \in Apps
  BY <1>1, <1>3, SniFields DEF LiveSet
<1> DEFINE K == Hears(j, sni[j].uid)
<1>5. Sends(inbox, Taken.box, K) /\ Taken.box \in Seq(Messages)
  <2>1. Rest = Taken.box
    BY <1>2 DEF Rest
  <2> QED BY <2>1, TakenSends
<1>6. CASE t.box = Taken.box /\ t.calls = Taken.calls
  BY <1>1, <1>2, <1>3, <1>5, <1>6 DEF SameHeard
<1>7. CASE Sent(t, Taken.box, Taken.calls, sni[i].uid, r)
  <2>1. PropReply(r.i, r.ps, Failed) \notin K
    BY FailedUnheard
  <2> HIDE DEF K
  <2>2. inbox \in Seq(Messages)
    BY NowFields
  <2>3. Sends(inbox, t.box, K)
    BY <1>5, <1>7, <2>1, <2>2, SentSends
  <2>4. \A b \in Apps : ToSet(Taken.calls[b]) \subseteq ToSet(t.calls[b])
    BY <1>2, <1>3, <1>4, <1>7, SentMore
  <2> QED BY <1>1, <1>2, <1>3, <1>4, <2>3, <2>4 DEF SameHeard, K
<1> QED BY <1>6, <1>7

LEMMA PropContents == ASSUME Base, Contents(Now, alive, prop), ItemProp PROVE Contents(Now', alive, prop)
<1>0. Incoming("prop")
  BY Zenon DEF ItemProp
<1>1. Types /\ Points(Now) /\ Incoming("prop")
  BY <1>0 DEF Base, Sound
<1>2. /\ M.k = "prop" /\ M.i \in DOMAIN sni /\ M.ps \in SUBSET Props /\ M.values \in Answers /\ Now' \in States
      /\ \/ Now' = Taken /\ M.i \notin LiveSet(Now)
         \/ M.i \in LiveSet(Now) /\ StoredIn(Taken, Now', M.i, M.ps, M.values)
  BY <1>1, PropDoes
<1>3. \A i : i # M.i => M \notin Hears(i, sni[i].uid)
  BY <1>2 DEF Hears, SignalsFrom, PropsOn
<1>4. Now \in States /\ Now.sni = sni /\ Now.box = inbox /\ Now.calls = asked /\ inbox \in Seq(Messages)
  BY <1>1, NowFields
<1>5. Taken.sni = sni /\ Taken.box = Tail(inbox) /\ Taken.calls = asked /\ Taken \in States /\ inbox # <<>>
  BY <1>1, TakenFields
<1>6. CASE Now' = Taken /\ M.i \notin LiveSet(Now)
  <2>1. \A i \in LiveSet(Now) : M \notin Hears(i, sni[i].uid)
    BY <1>3, <1>6
  <2> QED BY <1>1, <1>6, <2>1, TakenContents
<1>7. CASE M.i \in LiveSet(Now) /\ StoredIn(Taken, Now', M.i, M.ps, M.values)
  <2>1. PICK t : t = Now'
    OBVIOUS
  <2>2. PICK i \in LiveSet(Now) : i = M.i
    BY <1>7
  <2>3. StoredIn(Taken, t, i, M.ps, M.values) /\ t \in States
    BY <1>2, <1>7, <2>1, <2>2
  <2>4. i \in DOMAIN sni /\ i \in Nat /\ sni[i].uid \in Apps
    BY <1>1, <1>4, SniFields DEF LiveSet
  <2>5. PICK r \in Calls : r = MenuCall("layout", i, "root") /\ r.k = "layout" /\ r.i = i
    BY <2>4, RootCall
  <2>6. Changed(Taken, t, i)
    BY <2>3 DEF StoredIn
  <2>7. \/ t.box = Taken.box /\ t.calls = Taken.calls
        \/ Sent(t, Taken.box, Taken.calls, sni[i].uid, r)
    BY <1>5, <2>3, <2>5 DEF StoredIn
  <2>8. t.box = Tail(inbox) /\ \A b \in Apps : ToSet(asked[b]) \subseteq ToSet(t.calls[b])
    <3>1. CASE t.box = Taken.box /\ t.calls = Taken.calls
      BY <1>5, <3>1
    <3>2. CASE Sent(t, Taken.box, Taken.calls, sni[i].uid, r)
      <4>1. t.box = Taken.box
        BY <2>5, <3>2 DEF Sent
      <4>2. \A b \in Apps : ToSet(Taken.calls[b]) \subseteq ToSet(t.calls[b])
        BY <1>5, <2>3, <2>4, <3>2, SentMore
      <4> QED BY <1>5, <4>1, <4>2
    <3> QED BY <2>7, <3>1, <3>2
  <2>9. ASSUME NEW j \in LiveSet(t), NEW p \in Named, t.sni[j].uid \in alive
        PROVE  Fresh(t, j, p, t.sni[j].uid, prop)
    <3>1. CASE j # i
      <4>1. M \notin Hears(j, sni[j].uid)
        BY <1>3, <2>2, <3>1
      <4>2. SameHeard(Now, t, j)
        BY <1>1, <2>5, <2>6, <2>7, <3>1, <4>1, OthersHeard
      <4> QED BY <1>4, <2>9, <4>2, SameFresh
    <3>2. CASE j = i
      <4>1. t.sni[i].uid = sni[i].uid
        BY <1>5, <2>6 DEF Changed
      <4> DEFINE a == sni[i].uid
      <4>2. Renewed(inbox, asked[a], i, p, a, prop[a][p], sni[i].values[p])
        BY <1>4, <2>9, <3>2, <4>1 DEF Contents, Fresh
      <4>3. p \in Props
        BY PropsAssumption
      <4>4. t.sni[i].values[p] = IF M.values # Failed /\ p \in M.ps THEN M.values[p] ELSE sni[i].values[p]
        BY <1>5, <2>3, <4>3 DEF StoredIn
      <4>5. ToSet(asked[a]) \subseteq ToSet(t.calls[a])
        BY <2>4, <2>8
      <4>6. M.k = "prop" /\ M.i = i /\ M = Head(inbox)
        BY <1>2, <2>2 DEF M
      <4> HIDE DEF a
      <4>7. PICK y : y = t.sni[i].values[p]
        OBVIOUS
      <4>8. Renewed(Tail(inbox), t.calls[a], i, p, a, prop[a][p], y)
        BY <1>4, <1>5, <4>2, <4>4, <4>5, <4>6, <4>7, RenewedTaken
      <4> QED BY <2>8, <3>2, <4>1, <4>7, <4>8 DEF Fresh, a
    <3> QED BY <3>1, <3>2
  <2>10. Contents(t, alive, prop)
    BY <2>9 DEF Contents
  <2> QED BY <2>1, <2>10
<1> QED BY <1>2, <1>6, <1>7

LEMMA SignalContents == ASSUME Base, Contents(Now, alive, prop), ItemSignal PROVE Contents(Now', alive, prop)
<1>0. Incoming("signal")
  BY Zenon DEF ItemSignal
<1>1. Types /\ Paired(Now) /\ Incoming("signal")
  BY <1>0 DEF Base, Sound
<1>2. /\ M.k = "signal" /\ M.a \in Apps /\ M.s \in Signals /\ Now' \in States
      /\ \/ Now' = Taken /\ \A i \in LiveSet(Now) : sni[i].uid # M.a
         \/ \E i \in LiveSet(Now) : sni[i].uid = M.a /\ Asks(Taken, Now', i, Get(i, PropsOf(M.s)))
  BY <1>1, SignalDoes
<1>3. \A i \in LiveSet(Now) : sni[i].uid # M.a => M \notin Hears(i, sni[i].uid)
  BY <1>2 DEF Hears, SignalsFrom, PropsOn
<1>4. Now \in States /\ Now.sni = sni /\ Now.box = inbox /\ Now.calls = asked /\ inbox \in Seq(Messages)
      /\ asked \in [Apps -> Seq(Calls)]
  BY <1>1, NowFields
<1>5. Taken.sni = sni /\ Taken.box = Tail(inbox) /\ Taken.calls = asked /\ Taken \in States /\ inbox # <<>>
  BY <1>1, TakenFields
<1>6. CASE Now' = Taken /\ \A i \in LiveSet(Now) : sni[i].uid # M.a
  BY <1>1, <1>3, <1>6, TakenContents
<1>7. ASSUME NEW i \in LiveSet(Now), sni[i].uid = M.a, Asks(Taken, Now', i, Get(i, PropsOf(M.s)))
      PROVE  Contents(Now', alive, prop)
  <2>1. PICK t : t = Now'
    OBVIOUS
  <2>2. PropsOf(M.s) \in SUBSET Props
    BY <1>2, PropsOfIn
  <2>3. i \in DOMAIN sni /\ i \in Nat
    BY <1>1, <1>4, SniFields DEF LiveSet
  <2>4. PICK r \in Calls : r = Get(i, PropsOf(M.s)) /\ r.i = i
    BY <2>2, <2>3, GetKind
  <2>5. Asks(Taken, t, i, r)
    BY <1>7, <2>1, <2>4
  <2>6. Changed(Taken, t, i) /\ t.sni[i].values = sni[i].values /\ Sent(t, Taken.box, Taken.calls, sni[i].uid, r)
    BY <1>5, <2>5 DEF Asks
  <2>7. ASSUME NEW j \in LiveSet(t), NEW p \in Named, t.sni[j].uid \in alive
        PROVE  Fresh(t, j, p, t.sni[j].uid, prop)
    <3>1. CASE j # i
      <4>1. j \in LiveSet(Now)
        BY <1>4, <1>5, <2>6, <3>1 DEF Changed, LiveSet
      <4>2. sni[j].uid # M.a
        BY <1>1, <1>4, <1>7, <3>1, <4>1 DEF Paired
      <4>3. M \notin Hears(j, sni[j].uid)
        BY <1>3, <4>1, <4>2
      <4>4. SameHeard(Now, t, j)
        BY <1>1, <2>4, <2>6, <3>1, <4>3, OthersHeard
      <4> QED BY <1>4, <2>7, <4>4, SameFresh
    <3>2. CASE j = i
      <4>1. t.sni[i].uid = sni[i].uid
        BY <1>5, <2>6 DEF Changed
      <4> DEFINE a == sni[i].uid
      <4>2. Renewed(inbox, asked[a], i, p, a, prop[a][p], sni[i].values[p]) /\ a \in alive
        BY <1>4, <2>7, <3>2, <4>1 DEF Contents, Fresh
      <4>3. t.box = Tail(inbox) /\ t.calls[a] = Append(asked[a], r)
        BY <1>5, <2>6, <4>2 DEF Sent
      <4>4. asked[a] \in Seq(Calls)
        BY <1>2, <1>4, <1>7
      <4>5. M = Head(inbox)
        BY DEF M
      <4> HIDE DEF a
      <4>6. PICK m : m = Head(inbox)
        OBVIOUS
      <4>7. m.k = "signal" /\ PropsOf(m.s) \in SUBSET Props /\ r = Get(i, PropsOf(m.s))
        BY <1>2, <2>2, <2>4, <4>5, <4>6
      <4>8. Renewed(Tail(inbox), Append(asked[a], Get(i, PropsOf(Head(inbox).s))), i, p, a, prop[a][p], sni[i].values[p])
        BY <1>4, <1>5, <2>3, <4>2, <4>4, <4>6, <4>7, RenewedAsks
      <4>9. Renewed(t.box, t.calls[a], i, p, a, prop[a][p], sni[i].values[p])
        BY <4>3, <4>6, <4>7, <4>8
      <4> QED BY <2>6, <3>2, <4>1, <4>9 DEF Fresh, a
    <3> QED BY <3>1, <3>2
  <2>8. Contents(t, alive, prop)
    BY <2>7 DEF Contents
  <2> QED BY <2>1, <2>8
<1> QED BY <1>2, <1>6, <1>7

LEMMA ItemStepsContents == ASSUME Base, Contents(Now, alive, prop), ItemSteps PROVE Contents(Now', alive, prop)
<1>1. Types /\ Paired(Now)
  BY DEF Base, Sound
<1>2. \A k \in {"list", "registered", "unregistered"} : Incoming(k) =>
        Taken \in States /\ Contents(Taken, alive, prop) /\ LiveSet(Taken) = LiveSet(Now)
  <2> SUFFICES ASSUME NEW k \in {"list", "registered", "unregistered"}, Incoming(k)
               PROVE  Taken \in States /\ Contents(Taken, alive, prop) /\ LiveSet(Taken) = LiveSet(Now)
    OBVIOUS
  <2>1. k \notin {"prop", "signal"}
    OBVIOUS
  <2> QED BY <1>1, <2>1, Unheard, TakenContents, TakenFields, TakenLive
<1>3. CASE HostList
  <2>1. Incoming("list")
    BY <1>3, Zenon DEF HostList
  <2>2. Now' = News(Taken, SetToSeq(M.uids)) /\ SetToSeq(M.uids) \in Seq(Apps)
    BY <1>1, <1>3, ListDoes
  <2>3. Taken \in States /\ Contents(Taken, alive, prop)
    BY <1>2, <2>1
  <2> QED BY <2>2, <2>3, ContentsNews
<1>4. CASE HostItemRegistered
  <2>1. Incoming("registered")
    BY <1>4, Zenon DEF HostItemRegistered
  <2>2. M.a \in Apps /\ Now' = ItemNew(Taken, M.a)
    BY <1>1, <1>4, RegisteredDoes
  <2>3. Taken \in States /\ Contents(Taken, alive, prop)
    BY <1>2, <2>1
  <2> QED BY <2>2, <2>3, ContentsNew
<1>5. CASE HostItemUnregistered
  <2>1. Incoming("unregistered")
    BY <1>5, Zenon DEF HostItemUnregistered
  <2>2. Now' = Taken \/ \E i \in LiveSet(Now) : Now' = ItemFree(Taken, i)
    BY <1>1, <1>5, UnregisteredDoes
  <2>3. Taken \in States /\ Contents(Taken, alive, prop) /\ LiveSet(Taken) = LiveSet(Now)
    BY <1>2, <2>1
  <2> QED BY <2>2, <2>3, ContentsFreed
<1>6. CASE ItemProp
  BY <1>6, PropContents
<1>7. CASE ItemSignal
  BY <1>7, SignalContents
<1>8. CASE TrayUpdate
  <2>1. Now \in States /\ Now.sni = sni /\ Now.tray = tray /\ Now.box = inbox /\ Now.calls = asked /\ inbox \in Seq(Messages)
    BY <1>1, NowFields
  <2>2. \A j \in DOMAIN tray : tray[j].i \in DOMAIN sni
    BY <1>1, <2>1, IconFields
  <2>3. PICK t : t = Now'
    OBVIOUS
  <2>4. t.sni = sni /\ t.box = inbox /\ t.calls = asked
    BY <1>1, <1>8, <2>2, <2>3, UpdateDoes
  <2>5. ASSUME NEW i \in LiveSet(t) PROVE SameHeard(Now, t, i)
    <3>1. Sends(inbox, inbox, Hears(i, sni[i].uid))
      BY <2>1, SendsSame
    <3> QED BY <2>1, <2>4, <3>1 DEF SameHeard, LiveSet
  <2>6. Contents(t, alive, prop)
    BY <2>1, <2>5, ContentsKept
  <2> QED BY <2>3, <2>6
<1>9. CASE MenuSteps
  BY <1>9, MenuStepsContents
<1> QED BY <1>3, <1>4, <1>5, <1>6, <1>7, <1>8, <1>9 DEF ItemSteps, MenuSteps

\* A step of the others: what each item has been told and asked for
LEMMA StayContents ==
  ASSUME Types, ItemsStay,
         \A i \in LiveSet(Now) : \A p \in Named : sni[i].uid \in alive' =>
           Renewed(inbox', asked'[sni[i].uid], i, p, sni[i].uid, prop'[sni[i].uid][p], sni[i].values[p])
  PROVE  Contents(Now', alive', prop')
<1>1. Now.sni = sni
  BY NowFields
<1>2. PICK t : t = Now'
  OBVIOUS
<1>3. t.sni = sni' /\ t.box = inbox' /\ t.calls = asked'
  BY <1>2 DEF Now, Items
<1>4. t.sni = sni /\ LiveSet(t) = LiveSet(Now)
  BY <1>1, <1>3 DEF ItemsStay, LiveSet
<1>5. PICK up, pr : up = alive' /\ pr = prop'
  OBVIOUS
<1>6. Contents(t, up, pr)
  BY <1>3, <1>4, <1>5 DEF Contents, Fresh
<1> QED BY <1>2, <1>5, <1>6

LEMMA RenewedNow ==
  ASSUME Types, Contents(Now, alive, prop), NEW i \in LiveSet(Now), NEW p \in Named, sni[i].uid \in alive
  PROVE  Renewed(inbox, asked[sni[i].uid], i, p, sni[i].uid, prop[sni[i].uid][p], sni[i].values[p])
<1>1. Now.sni = sni /\ Now.box = inbox /\ Now.calls = asked
  BY NowFields
<1> QED BY <1>1 DEF Contents, Fresh

LEMMA WatchesContents == ASSUME Base, Contents(Now, alive, prop), Watches PROVE Contents(Now', alive', prop')
<1>1. Types
  BY DEF Base
<1>2. ItemsStay /\ asked' = asked /\ prop' = prop /\ alive' = alive /\ Sends(inbox, inbox', ItemKinds)
  BY <1>1, WatchesFrame DEF ItemsSame
<1>3. inbox \in Seq(Messages)
  BY <1>1, NowFields
<1>4. ASSUME NEW i \in LiveSet(Now), NEW p \in Named, sni[i].uid \in alive'
      PROVE  Renewed(inbox', asked'[sni[i].uid], i, p, sni[i].uid, prop'[sni[i].uid][p], sni[i].values[p])
  <2> DEFINE a == sni[i].uid
  <2>1. Renewed(inbox, asked[a], i, p, a, prop[a][p], sni[i].values[p])
    BY <1>1, <1>2, <1>4, RenewedNow
  <2>2. Hears(i, a) \in SUBSET ItemKinds
    BY DEF Hears, SignalsFrom, PropsOn, ItemKinds, Kinds
  <2> HIDE DEF a
  <2>3. Sends(inbox, inbox', Hears(i, a))
    BY <1>2, <1>3, <2>2, SendsFewer
  <2>4. PICK d : d = inbox'
    OBVIOUS
  <2>5. Renewed(d, asked[a], i, p, a, prop[a][p], sni[i].values[p])
    BY <1>3, <2>1, <2>3, <2>4, RenewedSends
  <2> QED BY <1>2, <2>4, <2>5 DEF a
<1> QED BY <1>1, <1>2, <1>4, StayContents

\* Messages that are no answers take nothing away.
LEMMA MoreContents ==
  ASSUME Base, Contents(Now, alive, prop), ItemsStay, alive' \subseteq alive, prop' = prop,
         \A b \in alive' : asked'[b] = asked[b], NEW f \in Seq(Messages), inbox' = inbox \o f,
         \A x \in ToSet(f) : x.k # "prop" \/ x.values = Failed
  PROVE  Contents(Now', alive', prop')
<1>1. Types /\ inbox \in Seq(Messages)
  BY NowFields DEF Base
<1>2. ASSUME NEW i \in LiveSet(Now), NEW p \in Named, sni[i].uid \in alive'
      PROVE  Renewed(inbox', asked'[sni[i].uid], i, p, sni[i].uid, prop'[sni[i].uid][p], sni[i].values[p])
  <2> DEFINE a == sni[i].uid
  <2>1. Renewed(inbox, asked[a], i, p, a, prop[a][p], sni[i].values[p])
    BY <1>1, <1>2, RenewedNow
  <2>2. ToSet(f) \cap AnswersTo(i, p) = {}
    BY DEF AnswersTo
  <2> HIDE DEF a
  <2>3. Renewed(inbox \o f, asked[a], i, p, a, prop[a][p], sni[i].values[p])
    BY <1>1, <2>1, <2>2, RenewedMore
  <2>4. asked'[a] = asked[a]
    BY <1>2 DEF a
  <2> QED BY <2>3, <2>4 DEF a
<1> QED BY <1>1, <1>2, StayContents

LEMMA QuitsContents ==
  ASSUME Base, Contents(Now, alive, prop), NEW a \in Apps, AppQuits(a)
  PROVE  Contents(Now', alive', prop')
<1>1. Types /\ inbox \in Seq(Messages) /\ asked \in [Apps -> Seq(Calls)] /\ alive \subseteq Apps
  BY NowFields DEF Base, Types, BusTypes
<1>2. PICK told, failed, after \in Seq(Messages) : QuitsAs(a, told, failed, after)
  BY <1>1, QuitsDoes
<1>3. asked' = [asked EXCEPT ![a] = <<>>] /\ ItemsStay /\ prop' = prop /\ alive' = alive \ {a}
  BY <1>1, QuitsDoes
<1> DEFINE g == told \o failed
           f == g \o after
<1>4. g \in Seq(Messages) /\ ToSet(g) = ToSet(told) \cup ToSet(failed)
  BY InConcat
<1>5. inbox' = inbox \o f
  <2>1. inbox' = ((inbox \o told) \o failed) \o after
    BY <1>2, Zenon DEF QuitsAs
  <2>2. (inbox \o told) \o failed = inbox \o g
    BY <1>1, ConcatAssoc
  <2> HIDE DEF g
  <2>3. (inbox \o g) \o after = inbox \o (g \o after)
    BY <1>1, <1>4, ConcatAssoc
  <2> QED BY <2>1, <2>2, <2>3
<1> HIDE DEF g
<1>6. f \in Seq(Messages) /\ ToSet(f) = ToSet(g) \cup ToSet(after)
  BY <1>4, InConcat
<1>7. \A x \in ToSet(f) : x.k # "prop" \/ x.values = Failed
  <2>1. Msg("gone", a).k = "gone" /\ Msg("unregistered", a).k = "unregistered"
    BY DEF Msg
  <2>2. ToSet(told) \subseteq {Msg("gone", a)} /\ ToSet(after) \subseteq {Msg("unregistered", a)}
        /\ \A x \in ToSet(failed) : x.values = Failed
    BY <1>2 DEF QuitsAs
  <2> QED BY <1>4, <1>6, <2>1, <2>2
<1> HIDE DEF f
<1>8. alive' \subseteq alive /\ \A b \in alive' : asked'[b] = asked[b]
  BY <1>1, <1>3
<1> QED BY <1>3, <1>5, <1>6, <1>7, <1>8, MoreContents

LEMMA AnswersContents ==
  ASSUME Base, Contents(Now, alive, prop), NEW a \in Apps, NEW refresh \in BOOLEAN, AppAnswers(a, refresh)
  PROVE  Contents(Now', alive', prop')
<1>1. Types /\ Points(Now) /\ prop \in [Apps -> [Props -> Values]]
  BY DEF Base, Sound, Types, BusTypes
<1>2. PICK f \in Seq(Messages) : AnswersAs(a, refresh, f)
  BY <1>1, AnswersDoes
<1>3. asked' = [asked EXCEPT ![a] = <<>>] /\ ItemsStay /\ prop' = prop /\ alive' = alive
  BY <1>1, AnswersDoes
<1>4. Now \in States /\ Now.sni = sni /\ Now.box = inbox /\ Now.calls = asked /\ inbox \in Seq(Messages)
      /\ asked \in [Apps -> Seq(Calls)]
  BY <1>1, NowFields
<1>5. inbox' = inbox \o f /\ DOMAIN f = DOMAIN asked[a]
  BY <1>2, Zenon DEF AnswersAs
<1>6. prop[a] # Failed
  <2>1. DOMAIN prop[a] = Props /\ "Title" \in Props
    BY <1>1, PropsAssumption DEF Named
  <2>2. DOMAIN Failed = {}
    BY DEF Failed
  <2> QED BY <2>1, <2>2
<1>7. ASSUME NEW j \in DOMAIN f
      PROVE  \E r \in ToSet(asked[a]) :
               /\ r = asked[a][j] /\ r.i \in DOMAIN sni /\ sni[r.i].uid = a
               /\ f[j].k = "prop" => r.k = "get"
               /\ r.k = "get" => f[j].k = "prop" /\ f[j].i = r.i /\ f[j].ps = r.ps /\ f[j].values = prop[a]
  <2>1. PICK r \in Calls : r = asked[a][j] /\ r \in ToSet(asked[a])
    <3>1. asked[a] \in Seq(Calls)
      BY <1>4
    <3> QED BY <1>5, <3>1 DEF ToSet
  <2>2. /\ r.k = "get" => f[j] = PropReply(r.i, r.ps, prop[a])
        /\ r.k = "layout" => f[j] = LayoutReply(r.i, r.node, layout[a])
        /\ r.k = "about to show" => f[j] = AboutReply(r.i, r.node, refresh)
    BY <1>2, <2>1 DEF AnswersAs
  <2>3. r.i \in DOMAIN sni /\ sni[r.i].uid = a
    BY <1>1, <1>4, <2>1 DEF Points
  <2>4. CASE r.k = "get"
    <3>1. f[j].k = "prop" /\ f[j].i = r.i /\ f[j].ps = r.ps /\ f[j].values = prop[a]
      BY <2>2, <2>4, PropReplyIs
    <3> QED BY <2>1, <2>3, <2>4, <3>1
  <2>5. CASE r.k = "layout"
    <3>1. f[j].k = "layout"
      BY <2>2, <2>5, LayoutReplyIs
    <3> QED BY <2>1, <2>3, <2>5, <3>1
  <2>6. CASE r.k = "about to show"
    <3>1. f[j].k = "about to show"
      <4>1. f[j] = AboutReply(r.i, r.node, refresh)
        BY <2>2, <2>6
      <4>2. \E b : f[j] = AboutReply(r.i, r.node, b)
        BY <4>1, Zenon
      <4>3. PICK b : f[j] = AboutReply(r.i, r.node, b)
        BY <4>2
      <4>4. AboutReply(r.i, r.node, b).k = "about to show"
        BY DEF AboutReply
      <4> QED BY <4>3, <4>4, Zenon
    <3> QED BY <2>1, <2>3, <2>6, <3>1
  <2>7. r.k \in {"get", "layout", "about to show"}
    BY CallKinds
  <2> QED BY <2>4, <2>5, <2>6, <2>7
<1>8. ASSUME NEW i \in LiveSet(Now), NEW p \in Named, sni[i].uid \in alive'
      PROVE  Renewed(inbox', asked'[sni[i].uid], i, p, sni[i].uid, prop'[sni[i].uid][p], sni[i].values[p])
  <2>1. PICK b : b = sni[i].uid
    OBVIOUS
  <2>2. Renewed(inbox, asked[b], i, p, b, prop[b][p], sni[i].values[p])
    BY <1>1, <1>3, <1>8, <2>1, RenewedNow
  <2>3. CASE b = a
    <3>1. ToSet(f) \cap AnswersTo(i, p) \subseteq Right(i, p, prop[a][p])
      <4> SUFFICES ASSUME NEW x \in ToSet(f) \cap AnswersTo(i, p) PROVE x \in Right(i, p, prop[a][p])
        OBVIOUS
      <4>1. PICK j \in DOMAIN f : x = f[j]
        BY DEF ToSet
      <4>2. x.values = prop[a]
        BY <1>7, <4>1 DEF AnswersTo
      <4> QED BY <4>2 DEF Right
    <3>2. ASSUME AskedOf(asked[a], i, p) PROVE ToSet(f) \cap AnswersTo(i, p) # {}
      <4>1. PICK r \in ToSet(asked[a]) : r.k = "get" /\ r.i = i /\ p \in r.ps
        BY <3>2 DEF AskedOf
      <4>2. PICK j \in DOMAIN f : r = asked[a][j]
        BY <1>5, <4>1 DEF ToSet
      <4>3. f[j].k = "prop" /\ f[j].i = i /\ p \in f[j].ps /\ f[j].values # Failed
        BY <1>6, <1>7, <4>1, <4>2
      <4>4. f[j] \in ToSet(f) /\ f[j] \in Messages
        <5>1. ToSet(f) \subseteq Messages
          BY InType
        <5> QED BY <5>1 DEF ToSet
      <4> QED BY <4>3, <4>4 DEF AnswersTo
    <3>3. PICK e : e = asked'[a]
      OBVIOUS
    <3>4. Renewed(inbox \o f, e, i, p, a, prop[a][p], sni[i].values[p])
      BY <1>4, <2>2, <2>3, <3>1, <3>2, RenewedAnswers
    <3> QED BY <1>3, <1>5, <2>1, <2>3, <3>3, <3>4
  <2>4. CASE b # a
    <3>1. ToSet(f) \cap AnswersTo(i, p) = {}
      <4> SUFFICES ASSUME NEW x \in ToSet(f), x \in AnswersTo(i, p) PROVE FALSE
        OBVIOUS
      <4>1. PICK j \in DOMAIN f : x = f[j]
        BY DEF ToSet
      <4>2. x.k = "prop" /\ x.i = i
        BY DEF AnswersTo
      <4>3. sni[i].uid = a
        BY <1>7, <4>1, <4>2
      <4> QED BY <2>1, <2>4, <4>3
    <3>2. asked'[b] = asked[b]
      BY <1>3, <1>4, <2>4
    <3>3. Renewed(inbox \o f, asked[b], i, p, b, prop[b][p], sni[i].values[p])
      BY <1>4, <2>2, <3>1, RenewedMore
    <3> QED BY <1>3, <1>5, <2>1, <3>2, <3>3
  <2> QED BY <2>3, <2>4
<1> QED BY <1>1, <1>3, <1>8, StayContents

LEMMA ChangesContents ==
  ASSUME Base, Contents(Now, alive, prop), NEW a \in Apps, NEW q \in Changing, AppChanges(a, q)
  PROVE  Contents(Now', alive', prop')
<1>1. Types /\ prop \in [Apps -> [Props -> Values]]
  BY DEF Base, Types, BusTypes
<1>2. /\ SignalOf[q] \in Signals /\ q \in PropsOf(SignalOf[q])
      /\ inbox' = Append(inbox, Told(a, SignalOf[q])) /\ Told(a, SignalOf[q]) \in Messages
      /\ prop' = [prop EXCEPT ![a][q] = Flip(q, @)] /\ ItemsStay /\ asked' = asked /\ alive' = alive
  BY <1>1, ChangesDoes
<1> DEFINE x == Told(a, SignalOf[q])
<1>3. x \in SignalsFrom(a) /\ q \in PropsOf(x.s) /\ x.k = "signal"
  BY <1>2 DEF Told, SignalsFrom
<1>4. inbox \in Seq(Messages) /\ x \in Messages /\ inbox' = Append(inbox, x)
  BY <1>1, <1>2, NowFields
<1> HIDE DEF x
<1>5. Append(inbox, x) = inbox \o <<x>> /\ <<x>> \in Seq(Messages) /\ ToSet(<<x>>) = {x}
      /\ ToSet(Append(inbox, x)) = ToSet(inbox) \cup {x}
  BY <1>4, AppendConcat, InOne, BoxAppend
<1>6. ASSUME NEW i \in LiveSet(Now), NEW p \in Named, sni[i].uid \in alive'
      PROVE  Renewed(inbox', asked'[sni[i].uid], i, p, sni[i].uid, prop'[sni[i].uid][p], sni[i].values[p])
  <2>1. PICK b : b = sni[i].uid
    OBVIOUS
  <2>2. CASE b = a /\ p = q
    <3>1. ToldOf(inbox', b, p)
      BY <1>3, <1>4, <1>5, <2>2 DEF ToldOf
    <3> QED BY <2>1, <3>1 DEF Renewed
  <2>3. CASE ~(b = a /\ p = q)
    <3>1. prop'[b][p] = prop[b][p]
      <4>1. CASE b = a
        <5>1. p # q
          BY <2>3, <4>1
        <5>2. prop' = [prop EXCEPT ![a] = [prop[a] EXCEPT ![q] = Flip(q, prop[a][q])]]
          BY <1>2
        <5>3. prop'[a] = [prop[a] EXCEPT ![q] = Flip(q, prop[a][q])]
          BY <1>1, <5>2
        <5>4. p \in Props
          BY PropsAssumption
        <5>5. prop[a] \in [Props -> Values]
          BY <1>1
        <5> QED BY <4>1, <5>1, <5>3, <5>4, <5>5
      <4>2. CASE b # a
        <5>1. b \in Apps
          BY <1>1, <2>1, SniFields, NowFields DEF LiveSet
        <5>2. prop' = [prop EXCEPT ![a] = [prop[a] EXCEPT ![q] = Flip(q, prop[a][q])]]
          BY <1>2
        <5> QED BY <1>1, <4>2, <5>1, <5>2
      <4> QED BY <4>1, <4>2
    <3>2. Renewed(inbox, asked[b], i, p, b, prop[b][p], sni[i].values[p])
      BY <1>1, <1>2, <1>6, <2>1, RenewedNow
    <3>3. ToSet(<<x>>) \cap AnswersTo(i, p) = {}
      BY <1>3, <1>5 DEF AnswersTo
    <3>4. Renewed(inbox \o <<x>>, asked[b], i, p, b, prop[b][p], sni[i].values[p])
      BY <1>4, <1>5, <3>2, <3>3, RenewedMore
    <3>5. Renewed(inbox', asked[b], i, p, b, prop[b][p], sni[i].values[p])
      BY <1>4, <1>5, <3>4
    <3> QED BY <1>2, <2>1, <3>1, <3>5
  <2> QED BY <2>2, <2>3
<1> QED BY <1>1, <1>2, <1>6, StayContents

LEMMA MenuChangesContents ==
  ASSUME Base, Contents(Now, alive, prop), NEW a \in Apps, NEW l \in ToSet(Layouts), AppChangesMenu(a, l)
  PROVE  Contents(Now', alive', prop')
<1>1. Types /\ inbox \in Seq(Messages)
  BY NowFields DEF Base
<1>2. ItemsStay /\ asked' = asked /\ prop' = prop /\ alive' = alive
  BY <1>1, MenuChangesDoes
<1>3. inbox' = Append(inbox, Msg("layout updated", a)) \/ inbox' = inbox
  BY <1>1, MenuChangesDoes
<1>4. Msg("layout updated", a) \in Messages /\ Msg("layout updated", a).k = "layout updated"
  BY MessageTypes
<1>5. CASE inbox' = inbox
  <2>1. inbox' = inbox \o <<>> /\ <<>> \in Seq(Messages) /\ ToSet(<<>>) = {}
    BY <1>1, <1>5, ConcatNone, InNone
  <2> QED BY <1>2, <2>1, MoreContents
<1>6. CASE inbox' = Append(inbox, Msg("layout updated", a))
  <2> DEFINE x == Msg("layout updated", a)
  <2>1. x \in Messages /\ x.k # "prop"
    BY <1>4
  <2> HIDE DEF x
  <2>2. inbox' = inbox \o <<x>> /\ <<x>> \in Seq(Messages) /\ ToSet(<<x>>) = {x}
    BY <1>1, <1>6, <2>1, AppendConcat, InOne DEF x
  <2> QED BY <1>2, <2>1, <2>2, MoreContents
<1> QED BY <1>3, <1>5, <1>6

LEMMA AppStepsContents == ASSUME Base, Contents(Now, alive, prop), AppSteps PROVE Contents(Now', alive', prop')
<1>1. PICK a \in Apps :
        \/ AppQuits(a)
        \/ \E p \in Changing : AppChanges(a, p)
        \/ \E l \in ToSet(Layouts) : AppChangesMenu(a, l)
        \/ \E refresh \in BOOLEAN : AppAnswers(a, refresh)
  BY Zenon DEF AppSteps
<1>2. CASE AppQuits(a)
  BY <1>2, QuitsContents
<1>3. CASE \E p \in Changing : AppChanges(a, p)
  BY <1>3, ChangesContents
<1>4. CASE \E l \in ToSet(Layouts) : AppChangesMenu(a, l)
  BY <1>4, MenuChangesContents
<1>5. CASE \E refresh \in BOOLEAN : AppAnswers(a, refresh)
  BY <1>5, AnswersContents
<1> QED BY <1>1, <1>2, <1>3, <1>4, <1>5

\* What every application changes reaches its item.
LEMMA NextContents ==
  ASSUME Base, Contents(Now, alive, prop), [Next]_vars PROVE Contents(Now', alive', prop')
<1>1. Types
  BY DEF Base
<1>2. CASE Watches
  BY <1>2, WatchesContents
<1>3. CASE ItemSteps
  <2>1. PICK t : t = Now'
    OBVIOUS
  <2>2. Contents(t, alive, prop)
    BY <1>3, <2>1, ItemStepsContents
  <2>3. alive' = alive /\ prop' = prop
    BY <1>1, <1>3, ItemStepsBus
  <2> QED BY <2>1, <2>2, <2>3
<1>4. CASE AppSteps
  BY <1>4, AppStepsContents
<1>5. CASE UNCHANGED vars
  <2>1. ItemsStay /\ alive' = alive /\ prop' = prop /\ asked' = asked /\ inbox' = inbox
    BY <1>5 DEF vars, busVars, ItemsStay
  <2>2. inbox \in Seq(Messages)
    BY <1>1, NowFields
  <2>3. inbox' = inbox \o <<>> /\ <<>> \in Seq(Messages) /\ ToSet(<<>>) = {}
    BY <2>1, <2>2, ConcatNone, InNone
  <2> QED BY <2>1, <2>3, MoreContents
<1> QED BY <1>2, <1>3, <1>4, <1>5, NextSteps

----------------------------------------------------------------------------
(* Which items there are *)

Vanished == Msg("vanished", Nobody)
Lost == Msg("name lost", Nobody)
Appeared == Msg("appeared", Nobody)
GetList == Msg("get list", Nobody)
Register(a) == Msg("register", a)
Gone(a) == Msg("gone", a)

\* The messages that make an item of a
Sources(a) == {x \in Messages : x = Registered(a) \/ (x.k = "list" /\ a \in x.uids)}
Partings(a) == Sources(a) \cup {Register(a), Unregistered(a)}
BusKinds == Kinds({"vanished", "name lost", "appeared", "get list", "register", "registered", "gone",
                   "unregistered", "list"})

\* The bar is the watcher and will stay it: neither has it lost the name nor will it be told so.
Calm == regid = TRUE /\ Vanished \notin ToSet(inbox) /\ Lost \notin ToSet(inbox)

\* a is to have an item: it has one, or will be told about, or the list is still to come
Announced(n, b, w, a) ==
  \/ Owned(n, a) \/ ToSet(b) \cap Sources(a) # {}
  \/ Appeared \in ToSet(b)
  \/ a \in w /\ GetList \in ToSet(b)
\* a is gone: its watcher will find out, or it has no item and gets none, or the last thing that
\* is heard of it is that it is gone
Parted(n, b, w, a) ==
  \/ a \in w \/ Register(a) \in ToSet(b)
  \/ ~Owned(n, a) /\ ToSet(b) \cap Sources(a) = {}
  \/ Sealed(b, Sources(a), {Unregistered(a)})

Roles ==
  /\ owner # Bar => /\ watched = {} /\ GetList \notin ToSet(inbox)
                    /\ \A a \in Apps : Register(a) \notin ToSet(inbox) /\ Gone(a) \notin ToSet(inbox)
  /\ owner = Other <=> other = "in"
  /\ owner # Other => theirs = {}
  /\ theirs \subseteq alive
  /\ watched # {} => regid = TRUE
  /\ \A a \in Apps : reg[a] <= epoch
Subscribed ==
  subs = 0 => /\ owner # Nobody => Appeared \in ToSet(inbox)
              /\ GetList \notin ToSet(inbox)
              /\ \A a \in Apps : /\ ~Owned(sni, a) /\ ToSet(inbox) \cap Sources(a) = {}
                                 /\ Unregistered(a) \notin ToSet(inbox)
Deaths ==
  \A a \in Apps : /\ Gone(a) \in ToSet(inbox) \/ Unregistered(a) \in ToSet(inbox) => a \notin alive
                  /\ a \in watched /\ a \notin alive => Gone(a) \in ToSet(inbox)
Enrolled ==
  \A a \in alive : reg[a] = epoch =>
    /\ owner = Other => a \in theirs
    /\ owner = Bar /\ Calm => a \in watched \/ Register(a) \in ToSet(inbox)
Listed == \A a \in alive : a \in theirs \cup watched => Announced(sni, inbox, watched, a)
Absent == \A a \in Apps \ (alive \cup missed) : owner # Bar \/ Calm => Parted(sni, inbox, watched, a)
EraVars == <<owner, epoch, other, regid, watched, subs, theirs, alive, reg, missed>>
Era == Roles /\ Subscribed /\ Deaths /\ Enrolled /\ Listed /\ Absent

LEMMA TheMessages ==
  /\ Vanished \in Messages /\ Vanished.k = "vanished" /\ Lost \in Messages /\ Lost.k = "name lost"
  /\ Appeared \in Messages /\ Appeared.k = "appeared" /\ GetList \in Messages /\ GetList.k = "get list"
  /\ \A a \in Apps : /\ Register(a) \in Messages /\ Register(a).k = "register" /\ Register(a).a = a
                     /\ Registered(a) \in Messages /\ Registered(a).k = "registered" /\ Registered(a).a = a
                     /\ Gone(a) \in Messages /\ Gone(a).k = "gone" /\ Gone(a).a = a
                     /\ Unregistered(a) \in Messages /\ Unregistered(a).k = "unregistered" /\ Unregistered(a).a = a
<1>1. /\ Vanished \in Messages /\ Lost \in Messages /\ Appeared \in Messages /\ GetList \in Messages
      /\ \A a \in Apps : /\ Register(a) \in Messages /\ Registered(a) \in Messages
                         /\ Gone(a) \in Messages /\ Unregistered(a) \in Messages
  <2>1. \A k \in {"vanished", "appeared", "name lost", "get list"} : Msg(k, Nobody) \in Messages
    BY MessageTypes
  <2>2. \A k \in {"register", "registered", "gone", "unregistered"}, a \in Apps : Msg(k, a) \in Messages
    BY MessageTypes
  <2> QED BY <2>1, <2>2 DEF Vanished, Lost, Appeared, GetList, Register, Gone, Registered, Unregistered
<1>2. /\ Vanished.k = "vanished" /\ Lost.k = "name lost" /\ Appeared.k = "appeared" /\ GetList.k = "get list"
  BY DEF Vanished, Lost, Appeared, GetList, Msg
<1>3. ASSUME NEW a \in Apps
      PROVE  /\ Register(a).k = "register" /\ Register(a).a = a /\ Registered(a).k = "registered" /\ Registered(a).a = a
             /\ Gone(a).k = "gone" /\ Gone(a).a = a /\ Unregistered(a).k = "unregistered" /\ Unregistered(a).a = a
  BY DEF Register, Gone, Registered, Unregistered, Msg
<1> QED BY <1>1, <1>2, <1>3

LEMMA InBusKinds ==
  /\ Vanished \in BusKinds /\ Lost \in BusKinds /\ Appeared \in BusKinds /\ GetList \in BusKinds
  /\ \A a \in Apps : /\ Register(a) \in BusKinds /\ Gone(a) \in BusKinds /\ Unregistered(a) \in BusKinds
                     /\ Sources(a) \subseteq BusKinds /\ Partings(a) \subseteq BusKinds
<1>1. /\ Vanished \in BusKinds /\ Lost \in BusKinds /\ Appeared \in BusKinds /\ GetList \in BusKinds
  BY TheMessages DEF BusKinds, Kinds
<1>2. ASSUME NEW a \in Apps PROVE Register(a) \in BusKinds /\ Gone(a) \in BusKinds /\ Unregistered(a) \in BusKinds
  BY TheMessages DEF BusKinds, Kinds
<1>3. ASSUME NEW a \in Apps PROVE Sources(a) \subseteq BusKinds
  <2> SUFFICES ASSUME NEW x \in Messages, x = Registered(a) \/ x.k = "list" PROVE x \in BusKinds
    BY DEF Sources
  <2>1. x.k = "registered" \/ x.k = "list"
    BY TheMessages
  <2> QED BY <2>1 DEF BusKinds, Kinds
<1> QED BY <1>1, <1>2, <1>3 DEF Partings

LEMMA PartedSends ==
  ASSUME NEW n, NEW m, NEW b \in Seq(Messages), NEW c, NEW w, NEW v, NEW a \in Apps, Sends(b, c, Partings(a)),
         Owned(m, a) => Owned(n, a), a \in w => a \in v, Parted(n, b, w, a)
  PROVE  Parted(m, c, v, a)
<1> DEFINE K == Partings(a)
<1>1. Sources(a) \in SUBSET K /\ {Unregistered(a)} \in SUBSET K /\ Register(a) \in K
  BY DEF Partings
<1> HIDE DEF K
<1>2. Sends(b, c, K)
  BY DEF K
<1>3. \A x \in K : x \in ToSet(c) <=> x \in ToSet(b)
  BY <1>2, SendsIn
<1>4. CASE a \in w \/ Register(a) \in ToSet(b)
  BY <1>1, <1>3, <1>4 DEF Parted
<1>5. CASE ~Owned(n, a) /\ ToSet(b) \cap Sources(a) = {}
  <2>1. ToSet(c) \cap Sources(a) = {}
    BY <1>1, <1>3, <1>5
  <2> QED BY <1>5, <2>1 DEF Parted
<1>6. CASE Sealed(b, Sources(a), {Unregistered(a)})
  BY <1>1, <1>2, <1>6, SendsSealed DEF Parted
<1> QED BY <1>4, <1>5, <1>6 DEF Parted

\* What has nothing to do with the watcher
LEMMA EraStays ==
  ASSUME Types, Era, EraVars' = EraVars, Sends(inbox, inbox', BusKinds),
         NEW m, m = sni', \A a \in Apps : Owned(m, a) <=> Owned(sni, a)
  PROVE  Era'
<1>1. /\ regid' = regid /\ watched' = watched /\ subs' = subs /\ owner' = owner /\ epoch' = epoch /\ other' = other
      /\ theirs' = theirs /\ alive' = alive /\ reg' = reg /\ missed' = missed
  BY DEF EraVars
<1>2. PICK d : d = inbox'
  OBVIOUS
<1>3. inbox \in Seq(Messages) /\ Sends(inbox, d, BusKinds)
  BY <1>2, NowFields
<1>4. \A x \in BusKinds : x \in ToSet(d) <=> x \in ToSet(inbox)
  BY <1>3, SendsIn
<1>5. /\ Vanished \in ToSet(d) <=> Vanished \in ToSet(inbox)
      /\ Lost \in ToSet(d) <=> Lost \in ToSet(inbox)
      /\ Appeared \in ToSet(d) <=> Appeared \in ToSet(inbox)
      /\ GetList \in ToSet(d) <=> GetList \in ToSet(inbox)
  BY <1>4, InBusKinds
<1>6. ASSUME NEW a \in Apps
      PROVE  /\ Register(a) \in ToSet(d) <=> Register(a) \in ToSet(inbox)
             /\ Gone(a) \in ToSet(d) <=> Gone(a) \in ToSet(inbox)
             /\ Unregistered(a) \in ToSet(d) <=> Unregistered(a) \in ToSet(inbox)
             /\ ToSet(d) \cap Sources(a) = ToSet(inbox) \cap Sources(a)
  <2>1. Unregistered(a) \in BusKinds /\ Sources(a) \subseteq BusKinds /\ Register(a) \in BusKinds /\ Gone(a) \in BusKinds
    BY InBusKinds
  <2> QED BY <1>4, <2>1
<1>7. Nobody' = Nobody /\ Bar' = Bar /\ Other' = Other
  BY DEF Nobody, Bar, Other
<1>8. Vanished' = Vanished /\ Lost' = Lost /\ Appeared' = Appeared /\ GetList' = GetList
  BY DEF Vanished, Lost, Appeared, GetList, Msg, Nobody
<1>9. Calm' <=> Calm
  BY <1>1, <1>2, <1>5, <1>8 DEF Calm
<1>10. alive \subseteq Apps
  BY DEF Types, BusTypes
<1>11. Roles'
  BY <1>1, <1>2, <1>5, <1>6, <1>7, <1>8 DEF Era, Roles
<1>12. Subscribed'
  BY <1>1, <1>2, <1>5, <1>6, <1>7, <1>8 DEF Era, Subscribed
<1>13. Deaths'
  BY <1>1, <1>2, <1>6 DEF Era, Deaths
<1>14. Enrolled'
  BY <1>1, <1>2, <1>6, <1>7, <1>9, <1>10 DEF Era, Enrolled
<1>15. Listed'
  BY <1>1, <1>2, <1>5, <1>6, <1>8, <1>10 DEF Era, Listed, Announced
<1>16. Absent'
  <2>1. ASSUME NEW a \in Apps, Parted(sni, inbox, watched, a) PROVE Parted(m, d, watched, a)
    <3>1. Partings(a) \in SUBSET BusKinds
      BY InBusKinds
    <3>2. Sends(inbox, d, Partings(a))
      BY <1>3, <3>1, SendsFewer
    <3> QED BY <1>3, <2>1, <3>2, PartedSends
  <2> QED BY <1>1, <1>2, <1>7, <1>9, <2>1 DEF Era, Absent
<1> QED BY <1>11, <1>12, <1>13, <1>14, <1>15, <1>16 DEF Era

LEMMA AlikeOwned == ASSUME NEW n, NEW m, Alike(n, m) PROVE \A a : Owned(m, a) <=> Owned(n, a)
BY DEF Alike, Owned

LEMMA ItemStepsEra == ASSUME Types, ItemSteps PROVE EraVars' = EraVars
<1>1. ASSUME NEW i \in DOMAIN sni, NEW node \in {"root", "sub"}, UserOpens(i, node) PROVE EraVars' = EraVars
  BY <1>1 DEF UserOpens, EraVars
<1>2. CASE ~ \E i \in DOMAIN sni : \E node \in {"root", "sub"} : UserOpens(i, node)
  <2>1. TheBus' = TheBus
    BY <1>2, Rest0 DEF ItemSteps
  <2> QED BY <2>1 DEF TheBus, EraVars
<1> QED BY <1>1, <1>2

\* The items may change but not which there are, and nothing is sent about that.
Apart(m, c) == Alike(sni, m) /\ Sends(inbox, c, BusKinds)

LEMMA ApartKinds ==
  /\ \A k \in {"prop", "signal", "layout updated", "layout", "about to show"} :
       \A x \in Messages : x.k = k => x \notin BusKinds
  /\ \A i, ps : PropReply(i, ps, Failed) \notin BusKinds
<1>1. \A i, ps : PropReply(i, ps, Failed).k = "prop"
  BY PropReplyIs
<1> QED BY <1>1 DEF BusKinds, Kinds

LEMMA TakenApart ==
  ASSUME Types, NEW k \in {"prop", "signal", "layout updated", "layout", "about to show"}, Incoming(k),
         NEW t, Alike(sni, t.sni),
         \/ t.box = Taken.box
         \/ \E a, r : r \in Calls /\ Sent(t, Taken.box, Taken.calls, a, r)
  PROVE  Apart(t.sni, t.box)
<1>1. M \in Messages /\ M.k = k /\ Taken.box = Tail(inbox) /\ inbox \in Seq(Messages)
  BY NowFields, TakenFields
<1>2. M \notin BusKinds
  BY <1>1, ApartKinds
<1>3. Rest \in Seq(Messages) /\ Sends(inbox, Rest, BusKinds)
  BY <1>2, TakenSends
<1>4. CASE t.box = Taken.box
  BY <1>1, <1>3, <1>4 DEF Apart, Rest
<1>5. ASSUME NEW a, NEW r, r \in Calls, Sent(t, Taken.box, Taken.calls, a, r) PROVE Apart(t.sni, t.box)
  <2>1. Sent(t, Rest, Taken.calls, a, r)
    BY <1>1, <1>5 DEF Rest
  <2>2. PropReply(r.i, r.ps, Failed) \notin BusKinds
    BY ApartKinds
  <2>3. Sends(inbox, t.box, BusKinds)
    BY <1>1, <1>3, <1>5, <2>1, <2>2, SentSends
  <2> QED BY <2>3 DEF Apart
<1> QED BY <1>4, <1>5

LEMMA PropApart == ASSUME Base, ItemProp PROVE Apart(sni', inbox')
<1>1. Types /\ Points(Now) /\ Incoming("prop")
  <2>1. Incoming("prop")
    BY Zenon DEF ItemProp
  <2> QED BY <2>1 DEF Base, Sound
<1>2. /\ M.i \in DOMAIN sni
      /\ \/ Now' = Taken
         \/ StoredIn(Taken, Now', M.i, M.ps, M.values)
  BY <1>1, PropDoes
<1>3. Taken \in States /\ Taken.sni = sni
  BY <1>1, TakenFields
<1>0. PICK t : t = Now'
  OBVIOUS
<1>4. t = Now' /\ t.sni = sni' /\ t.box = inbox'
  BY <1>0 DEF Now, Items
<1>5. CASE t = Taken
  <2>1. Alike(sni, t.sni)
    BY <1>3, <1>5 DEF Alike
  <2> QED BY <1>1, <1>4, <1>5, <2>1, TakenApart
<1>6. CASE StoredIn(Taken, t, M.i, M.ps, M.values)
  <2>1. PICK i \in DOMAIN sni : i = M.i
    BY <1>2
  <2>2. StoredIn(Taken, t, i, M.ps, M.values)
    BY <1>6, <2>1
  <2>3. Changed(Taken, t, i)
    BY <2>2 DEF StoredIn
  <2>4. Alike(sni, t.sni)
    BY <1>3, <2>1, <2>3, ChangedAlike
  <2>5. t.box = Taken.box
    <3>1. CASE M.values = Failed \/ "Menu" \notin M.ps
      BY <2>2, <3>1 DEF StoredIn
    <3>2. CASE M.values # Failed /\ "Menu" \in M.ps
      <4>1. Sent(t, Taken.box, Taken.calls, Taken.sni[i].uid, MenuCall("layout", i, "root"))
        BY <2>2, <3>2 DEF StoredIn
      <4>2. MenuCall("layout", i, "root").k # "get"
        BY DEF MenuCall
      <4> QED BY <4>1, <4>2 DEF Sent
    <3> QED BY <3>1, <3>2
  <2> QED BY <1>1, <1>4, <2>4, <2>5, TakenApart
<1> QED BY <1>2, <1>4, <1>5, <1>6

LEMMA SignalApart == ASSUME Base, ItemSignal PROVE Apart(sni', inbox')
<1>1. Types /\ Incoming("signal")
  <2>1. Incoming("signal")
    BY Zenon DEF ItemSignal
  <2> QED BY <2>1 DEF Base
<1>2. \/ Now' = Taken
      \/ \E i \in LiveSet(Now) : Asks(Taken, Now', i, Get(i, PropsOf(M.s)))
  BY <1>1, SignalDoes
<1>3. Taken \in States /\ Taken.sni = sni
  BY <1>1, TakenFields
<1>0. PICK t : t = Now'
  OBVIOUS
<1>4. t = Now' /\ t.sni = sni' /\ t.box = inbox'
  BY <1>0 DEF Now, Items
<1>5. CASE t = Taken
  <2>1. Alike(sni, t.sni)
    BY <1>3, <1>5 DEF Alike
  <2> QED BY <1>1, <1>4, <1>5, <2>1, TakenApart
<1>6. ASSUME NEW i \in LiveSet(Now), NEW r, Asks(Taken, t, i, r) PROVE Apart(sni', inbox')
  <2>1. Changed(Taken, t, i) /\ r \in Calls /\ Sent(t, Taken.box, Taken.calls, Taken.sni[i].uid, r)
    BY <1>6 DEF Asks
  <2>2. i \in DOMAIN Taken.sni
    BY <1>1, <1>3, NowFields DEF LiveSet
  <2>3. Alike(sni, t.sni)
    BY <1>3, <2>1, <2>2, ChangedAlike
  <2> QED BY <1>1, <1>4, <2>1, <2>3, TakenApart
<1> QED BY <1>2, <1>4, <1>5, <1>6

LEMMA MenuStepsApart == ASSUME Base, MenuSteps PROVE Apart(sni', inbox')
<1>1. Types
  BY DEF Base
<1>2. Now.sni = sni /\ Now.box = inbox /\ inbox \in Seq(Messages)
  BY <1>1, NowFields
<1>0. PICK t : t = Now'
  OBVIOUS
<1>3. t = Now' /\ t.sni = sni' /\ t.box = inbox'
  BY <1>0 DEF Now, Items
<1>4. CASE Mild(Now, t)
  <2>1. Alike(sni, t.sni) /\ t.box = inbox
    BY <1>2, <1>4 DEF Mild, SameButMenus, Alike
  <2>2. Sends(inbox, t.box, BusKinds)
    BY <1>2, <2>1, SendsSame
  <2> QED BY <1>3, <2>1, <2>2 DEF Apart
<1>5. ASSUME NEW k \in {"layout updated", "layout", "about to show"}, Incoming(k), Mild(Taken, t)
      PROVE  Apart(sni', inbox')
  <2>1. Taken.sni = sni
    BY <1>1, <1>5, TakenFields
  <2>2. Alike(sni, t.sni) /\ t.box = Taken.box
    BY <1>5, <2>1 DEF Mild, SameButMenus, Alike
  <2> QED BY <1>1, <1>3, <1>5, <2>2, TakenApart
<1> QED BY <1>3, <1>4, <1>5, MenuStepsMild

LEMMA UpdateApart == ASSUME Base, TrayUpdate PROVE Apart(sni', inbox')
<1>1. inbox \in Seq(Messages)
  BY NowFields DEF Base
<1>2. sni' = sni /\ inbox' = inbox
  BY DEF TrayUpdate
<1>3. Alike(sni, sni)
  BY DEF Alike
<1> QED BY <1>1, <1>2, <1>3, SendsSame DEF Apart

\* From s to t items are made for some of the applications in S, and nothing is sent about that.
Fills(s, t, S) ==
  /\ t \in States
  /\ \E f \in Seq(Messages) : t.box = s.box \o f /\ ToSet(f) \cap BusKinds = {}
  /\ \A a \in Apps : /\ Owned(s.sni, a) => Owned(t.sni, a)
                     /\ Owned(t.sni, a) => Owned(s.sni, a) \/ a \in S

LEMMA KnownOwned == ASSUME NEW s \in States, NEW a PROVE Known(s, a) <=> Owned(s.sni, a)
<1>1. \A i \in DOMAIN s.sni : s.sni[i].live \in BOOLEAN
  BY ItemFields
<1> QED BY <1>1 DEF Known, Owned

LEMMA NewOwned ==
  ASSUME NEW n \in Seq(ItemSet), NEW a \in Apps, NEW b
  PROVE  Owned(Append(n, NewItem(a)), b) <=> Owned(n, b) \/ b = a
<1> DEFINE x == NewItem(a)
           m == Append(n, x)
<1>1. x \in ItemSet /\ x.uid = a /\ x.live = TRUE
  BY NewItemIn, NewItemIs
<1> HIDE DEF x
<1>2. DOMAIN m = DOMAIN n \cup {Len(n) + 1} /\ m[Len(n) + 1] = x /\ \A i \in DOMAIN n : m[i] = n[i]
  BY <1>1
<1> HIDE DEF m
<1>3. Owned(m, b) <=> Owned(n, b) \/ b = a
  BY <1>1, <1>2 DEF Owned
<1> QED BY <1>3 DEF m, x

LEMMA FillsNew ==
  ASSUME NEW s \in States, NEW t, NEW S, Fills(s, t, S), NEW a \in Apps, a \in S
  PROVE  Fills(s, ItemNew(t, a), S)
<1>1. t \in States /\ t.sni \in Seq(ItemSet) /\ s.box \in Seq(Messages)
  BY StateFields DEF Fills
<1>2. CASE Known(t, a)
  BY <1>2 DEF ItemNew
<1>3. CASE ~Known(t, a)
  <2>1. PICK u : u = ItemNew(t, a)
    OBVIOUS
  <2>2. /\ u \in States /\ u.sni = Append(t.sni, NewItem(a))
        /\ u.box = t.box \/ u.box = Append(t.box, PropReply(Len(t.sni) + 1, Props, Failed))
    BY <1>1, <1>3, <2>1, NewAre
  <2>3. PICK f \in Seq(Messages) : t.box = s.box \o f /\ ToSet(f) \cap BusKinds = {}
    BY DEF Fills
  <2>4. \E g \in Seq(Messages) : u.box = s.box \o g /\ ToSet(g) \cap BusKinds = {}
    <3>1. CASE u.box = t.box
      BY <2>3, <3>1
    <3>2. CASE u.box = Append(t.box, PropReply(Len(t.sni) + 1, Props, Failed))
      <4> DEFINE x == PropReply(Len(t.sni) + 1, Props, Failed)
      <4>1. x \in Messages
        <5>1. Failed \in Answers /\ Len(t.sni) + 1 \in Nat
          BY <1>1 DEF Answers
        <5> QED BY <5>1, PropReplyIn
      <4>2. x \notin BusKinds
        BY ApartKinds
      <4> HIDE DEF x
      <4>3. t.box \in Seq(Messages)
        BY <1>1, StateFields
      <4>4. u.box = t.box \o <<x>> /\ <<x>> \in Seq(Messages) /\ ToSet(<<x>>) = {x}
        BY <3>2, <4>1, <4>3, AppendConcat, InOne DEF x
      <4>5. PICK e \in Seq(Messages) : e = <<x>>
        BY <4>4
      <4>6. PICK b \in Seq(Messages) : b = s.box
        BY <1>1
      <4>7. (b \o f) \o e = b \o (f \o e)
        BY ConcatAssoc
      <4>8. f \o e \in Seq(Messages) /\ ToSet(f \o e) = ToSet(f) \cup ToSet(e)
        BY InConcat
      <4>9. ToSet(f \o e) \cap BusKinds = {}
        BY <2>3, <4>2, <4>4, <4>5, <4>8
      <4>10. u.box = s.box \o (f \o e)
        BY <2>3, <4>4, <4>5, <4>6, <4>7
      <4> QED BY <4>8, <4>9, <4>10, Zenon
    <3> QED BY <2>2, <3>1, <3>2
  <2>5. \A b \in Apps : Owned(u.sni, b) <=> Owned(t.sni, b) \/ b = a
    BY <1>1, <2>2, NewOwned
  <2>6. Fills(s, u, S)
    BY <2>2, <2>4, <2>5 DEF Fills
  <2> QED BY <2>1, <2>6
<1> QED BY <1>2, <1>3

LEMMA FillsSame == ASSUME NEW s \in States, NEW S PROVE Fills(s, s, S)
<1>1. s.box \in Seq(Messages)
  BY StateFields
<1>2. s.box = s.box \o <<>> /\ <<>> \in Seq(Messages) /\ ToSet(<<>>) \cap BusKinds = {}
  BY <1>1, ConcatNone, InNone
<1> QED BY <1>2, Zenon DEF Fills

LEMMA FillsNews ==
  ASSUME NEW s \in States, NEW e \in Seq(Apps), NEW S, ToSet(e) \subseteq S
  PROVE  Fills(s, News(s, e), S) /\ \A a \in ToSet(e) : Owned(News(s, e).sni, a)
<1> DEFINE G == {t \in States : Fills(s, t, S)}
<1>1. s \in G /\ G \in SUBSET States
  BY FillsSame
<1>2. \A t \in G, a \in ToSet(e) : ItemNew(t, a) \in G
  <2> SUFFICES ASSUME NEW t \in G, NEW a \in ToSet(e) PROVE ItemNew(t, a) \in G
    OBVIOUS
  <2>1. a \in Apps /\ a \in S /\ Fills(s, t, S)
    BY InType
  <2>2. Fills(s, ItemNew(t, a), S)
    BY <2>1, FillsNew
  <2> QED BY <2>2 DEF Fills
<1> HIDE DEF G
<1>3. News(s, e) \in G /\ \A a \in ToSet(e) : Known(News(s, e), a)
  BY <1>1, <1>2, NewsKeep
<1>4. News(s, e) \in States /\ Fills(s, News(s, e), S)
  BY <1>3 DEF G
<1> QED BY <1>3, <1>4, KnownOwned

LEMMA NamesStay ==
  /\ Nobody' = Nobody /\ Bar' = Bar /\ Other' = Other
  /\ Vanished' = Vanished /\ Lost' = Lost /\ Appeared' = Appeared /\ GetList' = GetList
BY DEF Vanished, Lost, Appeared, GetList, Msg, Nobody, Bar, Other

LEMMA EraVarsAre ==
  ASSUME EraVars' = EraVars
  PROVE  /\ regid' = regid /\ watched' = watched /\ subs' = subs /\ owner' = owner /\ epoch' = epoch /\ other' = other
         /\ theirs' = theirs /\ alive' = alive /\ reg' = reg /\ missed' = missed
BY DEF EraVars

\* The host makes the items that it hears of.
LEMMA FillsEra ==
  ASSUME Types, Era, EraVars' = EraVars, NEW k \in {"list", "registered"}, Incoming(k),
         NEW t, t = Now', NEW S, S = {a \in Apps : M \in Sources(a)}, Fills(Taken, t, S),
         \A a \in S : Owned(t.sni, a)
  PROVE  Era'
<1>1. /\ regid' = regid /\ watched' = watched /\ subs' = subs /\ owner' = owner /\ epoch' = epoch /\ other' = other
      /\ theirs' = theirs /\ alive' = alive /\ reg' = reg /\ missed' = missed
  BY EraVarsAre
<1>2. PICK d, m : d = inbox' /\ m = sni'
  OBVIOUS
<1>3. t.box = d /\ t.sni = m
  BY <1>2 DEF Now, Items
<1>4. /\ inbox \in Seq(Messages) /\ inbox # <<>> /\ M = Head(inbox) /\ M \in Messages /\ M.k = k
      /\ Taken.sni = sni /\ Taken.box = Tail(inbox) /\ Tail(inbox) \in Seq(Messages)
      /\ ToSet(inbox) = {M} \cup ToSet(Tail(inbox))
  BY NowFields, TakenFields, InTail DEF M
<1>5. PICK f \in Seq(Messages) : d = Tail(inbox) \o f /\ ToSet(f) \cap BusKinds = {}
  BY <1>3, <1>4 DEF Fills
<1>6. ToSet(d) = ToSet(Tail(inbox)) \cup ToSet(f)
  <2>1. PICK r \in Seq(Messages) : r = Tail(inbox)
    BY <1>4
  <2>2. ToSet(r \o f) = ToSet(r) \cup ToSet(f)
    BY InConcat
  <2> QED BY <1>5, <2>1, <2>2
<1>7. \A x \in BusKinds : x \in ToSet(d) => x \in ToSet(inbox)
  BY <1>4, <1>5, <1>6
<1>8. \A x \in BusKinds : x \in ToSet(inbox) => x \in ToSet(d) \/ x = M
  BY <1>4, <1>6
<1>9. /\ Vanished \in ToSet(d) <=> Vanished \in ToSet(inbox)
      /\ Lost \in ToSet(d) <=> Lost \in ToSet(inbox)
      /\ Appeared \in ToSet(d) <=> Appeared \in ToSet(inbox)
      /\ GetList \in ToSet(d) <=> GetList \in ToSet(inbox)
  BY <1>4, <1>7, <1>8, InBusKinds, TheMessages
<1>10. ASSUME NEW a \in Apps
       PROVE  /\ Register(a) \in ToSet(d) <=> Register(a) \in ToSet(inbox)
              /\ Gone(a) \in ToSet(d) <=> Gone(a) \in ToSet(inbox)
              /\ Unregistered(a) \in ToSet(d) <=> Unregistered(a) \in ToSet(inbox)
              /\ ToSet(d) \cap Sources(a) \subseteq ToSet(inbox)
              /\ a \notin S => ToSet(d) \cap Sources(a) = ToSet(inbox) \cap Sources(a)
  <2>1. Unregistered(a) \in BusKinds /\ Sources(a) \subseteq BusKinds /\ Register(a) \in BusKinds /\ Gone(a) \in BusKinds
    BY InBusKinds
  <2>2. M # Register(a) /\ M # Gone(a) /\ M # Unregistered(a)
    BY <1>4, TheMessages
  <2> QED BY <1>7, <1>8, <2>1, <2>2
<1>11. Calm' <=> Calm
  BY <1>1, <1>2, <1>9, NamesStay DEF Calm
<1>12. alive \subseteq Apps
  BY DEF Types, BusTypes
<1>13. \A a \in Apps : /\ Owned(sni, a) => Owned(m, a)
                       /\ Owned(m, a) => Owned(sni, a) \/ a \in S
                       /\ a \in S => Owned(m, a) /\ M \in ToSet(inbox) \cap Sources(a)
  BY <1>3, <1>4 DEF Fills
<1>14. Roles'
  BY <1>1, <1>2, <1>9, <1>10, NamesStay DEF Era, Roles
<1>15. Subscribed'
  <2> SUFFICES ASSUME subs = 0
               PROVE  /\ owner # Nobody => Appeared \in ToSet(d)
                      /\ GetList \notin ToSet(d)
                      /\ \A a \in Apps : /\ ~Owned(m, a) /\ ToSet(d) \cap Sources(a) = {}
                                         /\ Unregistered(a) \notin ToSet(d)
    BY <1>1, <1>2, NamesStay DEF Subscribed
  <2> QED BY <1>9, <1>10, <1>13 DEF Era, Subscribed
<1>16. Deaths'
  BY <1>1, <1>2, <1>10 DEF Era, Deaths
<1>17. Enrolled'
  BY <1>1, <1>2, <1>10, <1>11, <1>12, NamesStay DEF Era, Enrolled
<1>18. Listed'
  <2>1. \A a \in Apps : Announced(sni, inbox, watched, a) => Announced(m, d, watched, a)
    BY <1>9, <1>10, <1>13 DEF Announced
  <2> QED BY <1>1, <1>2, <1>12, <2>1 DEF Era, Listed
<1>19. Absent'
  <2>1. ASSUME NEW a \in Apps, Parted(sni, inbox, watched, a) PROVE Parted(m, d, watched, a)
    <3>1. CASE a \in watched \/ Register(a) \in ToSet(inbox)
      BY <1>10, <3>1 DEF Parted
    <3>2. CASE ~Owned(sni, a) /\ ToSet(inbox) \cap Sources(a) = {}
      BY <1>10, <1>13, <3>2 DEF Parted
    <3>3. CASE Sealed(inbox, Sources(a), {Unregistered(a)})
      <4>1. Head(inbox) \notin {Unregistered(a)}
        BY <1>4, TheMessages
      <4>2. Sealed(Tail(inbox), Sources(a), {Unregistered(a)})
        BY <1>4, <3>3, <4>1, SealedTail
      <4>3. ToSet(f) \cap Sources(a) = {}
        BY <1>5, InBusKinds
      <4>4. Sealed(Tail(inbox) \o f, Sources(a), {Unregistered(a)})
        BY <1>4, <4>2, <4>3, SealedConcat
      <4> QED BY <1>5, <4>4 DEF Parted
    <3> QED BY <2>1, <3>1, <3>2, <3>3 DEF Parted
  <2> QED BY <1>1, <1>2, <1>11, <2>1, NamesStay DEF Era, Absent
<1> QED BY <1>14, <1>15, <1>16, <1>17, <1>18, <1>19 DEF Era

LEMMA RegisteredEra == ASSUME Base, Era, HostItemRegistered PROVE Era'
<1>1. Types
  BY DEF Base
<1>2. Incoming("registered")
  BY Zenon DEF HostItemRegistered
<1>3. PICK t : t = Now'
  OBVIOUS
<1>4. M.a \in Apps /\ t = ItemNew(Taken, M.a)
  BY <1>1, <1>3, RegisteredDoes
<1>5. PICK a \in Apps : a = M.a
  BY <1>4
<1>6. M \in Messages /\ M = Registered(a) /\ Taken \in States
  BY <1>1, <1>2, <1>5, HeadIs, TakenFields DEF Registered
<1> DEFINE S == {b \in Apps : M \in Sources(b)}
<1>7. S = {a}
  <2>1. M.k = "registered" /\ M.a = a
    BY <1>6, TheMessages
  <2>2. ASSUME NEW b \in Apps, M \in Sources(b) PROVE b = a
    <3>1. M = Registered(b)
      BY <2>1, <2>2 DEF Sources
    <3>2. Registered(b).a = b
      BY TheMessages
    <3> QED BY <2>1, <3>1, <3>2
  <2>3. M \in Sources(a)
    BY <1>6 DEF Sources
  <2> QED BY <2>2, <2>3
<1>8. EraVars' = EraVars
  BY <1>1, ItemStepsEra DEF ItemSteps
<1> HIDE DEF S
<1>9. Fills(Taken, t, S)
  BY <1>4, <1>5, <1>6, <1>7, FillsSame, FillsNew
<1>10. Owned(t.sni, a)
  <2>1. Known(t, a)
    BY <1>4, <1>5, <1>6, KnownStays
  <2> QED BY <1>9, <2>1, KnownOwned DEF Fills
<1> QED BY <1>1, <1>2, <1>3, <1>7, <1>8, <1>9, <1>10, FillsEra DEF S

LEMMA ListEra == ASSUME Base, Era, HostList PROVE Era'
<1>1. Types
  BY DEF Base
<1>2. Incoming("list")
  BY Zenon DEF HostList
<1>3. PICK t : t = Now'
  OBVIOUS
<1>4. M.uids \in SUBSET Apps /\ t = News(Taken, SetToSeq(M.uids))
      /\ SetToSeq(M.uids) \in Seq(Apps) /\ ToSet(SetToSeq(M.uids)) = M.uids
  BY <1>1, <1>3, ListDoes
<1>5. PICK e \in Seq(Apps) : e = SetToSeq(M.uids)
  BY <1>4
<1>6. M \in Messages /\ M.k = "list" /\ Taken \in States
  BY <1>1, <1>2, TakenFields
<1> DEFINE S == {b \in Apps : M \in Sources(b)}
<1>7. S = M.uids
  BY <1>4, <1>6, TheMessages DEF Sources
<1>8. EraVars' = EraVars
  BY <1>1, ItemStepsEra DEF ItemSteps
<1> HIDE DEF S
<1>9. Fills(Taken, t, S) /\ \A a \in S : Owned(t.sni, a)
  BY <1>4, <1>5, <1>6, <1>7, FillsNews
<1> QED BY <1>1, <1>2, <1>3, <1>8, <1>9, FillsEra DEF S

\* The last item of an application goes.
LEMMA FreedOwned ==
  ASSUME NEW s \in States, NEW i \in LiveSet(s), Paired(s), NEW a, a = s.sni[i].uid, NEW t, t = ItemFree(s, i)
  PROVE  ~Owned(t.sni, a) /\ \A b : b # a => (Owned(t.sni, b) <=> Owned(s.sni, b))
<1>1. i \in DOMAIN s.sni /\ s.sni[i].live = TRUE
  BY DEF LiveSet
<1>2. /\ DOMAIN t.sni = DOMAIN s.sni /\ \A j \in DOMAIN s.sni : j # i => t.sni[j] = s.sni[j]
      /\ t.sni[i].uid = s.sni[i].uid /\ t.sni[i].live = FALSE
  BY <1>1, FreedAre
<1>3. ~Owned(t.sni, a)
  <2> SUFFICES ASSUME NEW j \in DOMAIN t.sni, t.sni[j].live = TRUE, t.sni[j].uid = a PROVE FALSE
    BY DEF Owned
  <2>1. j # i
    BY <1>2
  <2>2. s.sni[j].live = TRUE /\ s.sni[j].uid = a
    BY <1>2, <2>1
  <2>3. j \in LiveSet(s)
    BY <1>2, <2>2 DEF LiveSet
  <2> QED BY <2>1, <2>2, <2>3 DEF Paired
<1>4. ASSUME NEW b, b # a PROVE Owned(t.sni, b) <=> Owned(s.sni, b)
  <2>1. \A j \in DOMAIN s.sni : (t.sni[j].live = TRUE /\ t.sni[j].uid = b) <=> (s.sni[j].live = TRUE /\ s.sni[j].uid = b)
    BY <1>2, <1>4
  <2> QED BY <1>2, <2>1 DEF Owned
<1> QED BY <1>3, <1>4

LEMMA UnregisteredOwns ==
  ASSUME Base, HostItemUnregistered, NEW a, a = M.a, NEW m, m = sni'
  PROVE  /\ a \in Apps /\ inbox' = Tail(inbox) /\ ~Owned(m, a)
         /\ \A b : b # a => (Owned(m, b) <=> Owned(sni, b))
<1>1. Types /\ Paired(Now) /\ Incoming("unregistered")
  <2>1. Incoming("unregistered")
    BY Zenon DEF HostItemUnregistered
  <2> QED BY <2>1 DEF Base, Sound
<1>2. PICK t : t = Now'
  OBVIOUS
<1>3. t.sni = m /\ t.box = inbox'
  BY <1>2 DEF Now, Items
<1>4. /\ a \in Apps
      /\ \/ t = Taken /\ \A i \in LiveSet(Now) : sni[i].uid # a
         \/ \E i \in LiveSet(Now) : sni[i].uid = a /\ t = ItemFree(Taken, i)
  BY <1>1, <1>2, UnregisteredDoes
<1>5. Now.sni = sni /\ Now.tray = tray /\ Taken \in States /\ Taken.sni = sni /\ Taken.tray = tray
      /\ Taken.box = Tail(inbox) /\ LiveSet(Taken) = LiveSet(Now)
  BY <1>1, NowFields, TakenFields, TakenLive
<1>6. Paired(Taken)
  BY <1>1, <1>5, PairedSame
<1>7. CASE t = Taken /\ \A i \in LiveSet(Now) : sni[i].uid # a
  <2>1. m = sni /\ inbox' = Tail(inbox)
    BY <1>3, <1>5, <1>7
  <2>2. ~Owned(sni, a)
    BY <1>5, <1>7 DEF Owned, LiveSet
  <2> QED BY <1>4, <2>1, <2>2
<1>8. ASSUME NEW i \in LiveSet(Now), sni[i].uid = a, t = ItemFree(Taken, i)
      PROVE  inbox' = Tail(inbox) /\ ~Owned(m, a) /\ \A b : b # a => (Owned(m, b) <=> Owned(sni, b))
  <2>1. ~Owned(t.sni, a) /\ \A b : b # a => (Owned(t.sni, b) <=> Owned(sni, b))
    BY <1>5, <1>6, <1>8, FreedOwned
  <2>2. t.box = Taken.box
    <3>1. i \in DOMAIN Taken.sni
      BY <1>5, <1>8 DEF LiveSet
    <3> QED BY <1>5, <1>8, <3>1, FreedAre
  <2> QED BY <1>3, <1>5, <2>1, <2>2
<1> QED BY <1>4, <1>7, <1>8

LEMMA UnregisteredEra == ASSUME Base, Era, HostItemUnregistered PROVE Era'
<1>1. Types /\ Incoming("unregistered")
  <2>1. Incoming("unregistered")
    BY Zenon DEF HostItemUnregistered
  <2> QED BY <2>1 DEF Base
<1>2. /\ regid' = regid /\ watched' = watched /\ subs' = subs /\ owner' = owner /\ epoch' = epoch /\ other' = other
      /\ theirs' = theirs /\ alive' = alive /\ reg' = reg /\ missed' = missed
  BY <1>1, ItemStepsEra, EraVarsAre DEF ItemSteps
<1>3. PICK d, m, c : d = inbox' /\ m = sni' /\ c = M.a
  OBVIOUS
<1>4. c \in Apps /\ d = Tail(inbox) /\ ~Owned(m, c) /\ \A b : b # c => (Owned(m, b) <=> Owned(sni, b))
  BY <1>3, UnregisteredOwns
<1>5. /\ inbox \in Seq(Messages) /\ inbox # <<>> /\ M = Head(inbox) /\ M \in Messages /\ M = Unregistered(c)
      /\ d \in Seq(Messages) /\ ToSet(inbox) = {M} \cup ToSet(d)
  BY <1>1, <1>3, <1>4, NowFields, TakenFields, InTail, HeadIs DEF M, Unregistered
<1>6. M.k = "unregistered" /\ M.a = c
  BY <1>4, <1>5, TheMessages
<1>7. /\ Vanished \in ToSet(d) <=> Vanished \in ToSet(inbox)
      /\ Lost \in ToSet(d) <=> Lost \in ToSet(inbox)
      /\ Appeared \in ToSet(d) <=> Appeared \in ToSet(inbox)
      /\ GetList \in ToSet(d) <=> GetList \in ToSet(inbox)
  <2>1. M # Vanished /\ M # Lost /\ M # Appeared /\ M # GetList
    BY <1>6, TheMessages
  <2> QED BY <1>5, <2>1
<1>8. ASSUME NEW a \in Apps
      PROVE  /\ Register(a) \in ToSet(d) <=> Register(a) \in ToSet(inbox)
             /\ Gone(a) \in ToSet(d) <=> Gone(a) \in ToSet(inbox)
             /\ Unregistered(a) \in ToSet(d) => Unregistered(a) \in ToSet(inbox)
             /\ ToSet(d) \cap Sources(a) = ToSet(inbox) \cap Sources(a)
  <2>1. M # Register(a) /\ M # Gone(a) /\ M \notin Sources(a)
    BY <1>6, TheMessages DEF Sources
  <2> QED BY <1>5, <2>1
<1>9. Calm' <=> Calm
  BY <1>2, <1>3, <1>7, NamesStay DEF Calm
<1>10. alive \subseteq Apps
  BY <1>1 DEF Types, BusTypes
<1>11. c \notin alive
  BY <1>4, <1>5 DEF Era, Deaths
<1>12. Roles'
  BY <1>2, <1>3, <1>7, <1>8, NamesStay DEF Era, Roles
<1>13. Subscribed'
  BY <1>2, <1>3, <1>4, <1>5, NamesStay DEF Era, Subscribed
<1>14. Deaths'
  BY <1>2, <1>3, <1>8 DEF Era, Deaths
<1>15. Enrolled'
  BY <1>2, <1>3, <1>8, <1>9, <1>10, NamesStay DEF Era, Enrolled
<1>16. Listed'
  <2>1. \A a \in Apps : a # c /\ Announced(sni, inbox, watched, a) => Announced(m, d, watched, a)
    BY <1>4, <1>7, <1>8 DEF Announced
  <2> QED BY <1>2, <1>3, <1>10, <1>11, <2>1 DEF Era, Listed
<1>17. Absent'
  <2>1. ASSUME NEW a \in Apps, Parted(sni, inbox, watched, a) PROVE Parted(m, d, watched, a)
    <3>1. CASE a \in watched \/ Register(a) \in ToSet(inbox)
      BY <1>8, <3>1 DEF Parted
    <3>2. CASE ~Owned(sni, a) /\ ToSet(inbox) \cap Sources(a) = {}
      BY <1>4, <1>8, <3>2 DEF Parted
    <3>3. CASE Sealed(inbox, Sources(a), {Unregistered(a)})
      <4>1. CASE Sealed(d, Sources(a), {Unregistered(a)})
        BY <4>1 DEF Parted
      <4>2. CASE Head(inbox) \in {Unregistered(a)} /\ ToSet(d) \cap Sources(a) = {}
        <5>1. a = c
          <6>1. M = Unregistered(a)
            BY <1>5, <4>2
          <6>2. Unregistered(a).a = a
            BY TheMessages
          <6> QED BY <1>6, <6>1, <6>2
        <5> QED BY <1>4, <4>2, <5>1 DEF Parted
      <4> QED BY <1>4, <1>5, <3>3, <4>1, <4>2, SealedTail
    <3> QED BY <2>1, <3>1, <3>2, <3>3 DEF Parted
  <2> QED BY <1>2, <1>3, <1>9, <2>1, NamesStay DEF Era, Absent
<1> QED BY <1>12, <1>13, <1>14, <1>15, <1>16, <1>17 DEF Era

LEMMA ItemStepsKeepEra == ASSUME Base, Era, ItemSteps PROVE Era'
<1>1. Types /\ EraVars' = EraVars
  BY ItemStepsEra DEF Base
<1>2. CASE Apart(sni', inbox')
  <2>1. PICK m : m = sni'
    OBVIOUS
  <2>2. Alike(sni, m) /\ Sends(inbox, inbox', BusKinds)
    BY <1>2, <2>1 DEF Apart
  <2>3. \A a \in Apps : Owned(m, a) <=> Owned(sni, a)
    BY <2>2, AlikeOwned
  <2> QED BY <1>1, <2>1, <2>2, <2>3, EraStays
<1> QED BY <1>2, RegisteredEra, ListEra, UnregisteredEra, PropApart, SignalApart, MenuStepsApart, UpdateApart
        DEF ItemSteps, MenuSteps

\* x says nothing of a.
Silence(x, a) ==
  /\ x # Register(a) /\ x # Gone(a) /\ x # Unregistered(a) /\ x # Registered(a)
  /\ x \notin Sources(a) /\ x \notin Partings(a)

LEMMA NamesApart ==
  ASSUME NEW a \in Apps
  PROVE  Silence(Vanished, a) /\ Silence(Lost, a) /\ Silence(Appeared, a) /\ Silence(GetList, a)
<1> DEFINE OfName(x) == x.k \in {"vanished", "name lost", "appeared", "get list"}
<1>1. ASSUME NEW x, OfName(x) PROVE Silence(x, a)
  <2>1. x # Register(a) /\ x # Gone(a) /\ x # Unregistered(a) /\ x # Registered(a)
    BY <1>1, TheMessages
  <2>2. x \notin Sources(a)
    BY <1>1, <2>1 DEF Sources
  <2>3. x \notin Partings(a)
    BY <2>1, <2>2 DEF Partings
  <2> QED BY <2>1, <2>2, <2>3 DEF Silence
<1>2. OfName(Vanished) /\ OfName(Lost) /\ OfName(Appeared) /\ OfName(GetList)
  BY TheMessages
<1> HIDE DEF OfName
<1> QED BY <1>1, <1>2

LEMMA NamesKept ==
  ASSUME Types, Watches
  PROVE  sni' = sni /\ alive' = alive /\ alive \subseteq Apps /\ inbox \in Seq(Messages)
<1>1. inbox \in Seq(Messages) /\ alive \subseteq Apps
  BY NowFields DEF Types, BusTypes
<1> QED BY <1>1, WatchesFrame DEF ItemsSame, ItemsStay

LEMMA HeadTaken ==
  ASSUME Types, NEW k, Incoming(k)
  PROVE  /\ M \in Messages /\ M.k = k /\ inbox # <<>> /\ M = Head(inbox) /\ Rest \in Seq(Messages)
         /\ ToSet(inbox) = {M} \cup ToSet(Rest) /\ M \in ToSet(inbox)
  BY NowFields, TakenFields, InTail DEF M, Rest

\* The name was given up: the bar takes it, or is told that it has it already.
LEMMA VanishedEra == ASSUME Base, Era, WatcherVanished PROVE Era'
<1>1. Types /\ Incoming("vanished")
  <2>1. Incoming("vanished")
    BY Zenon DEF WatcherVanished
  <2> QED BY <2>1 DEF Base
<1>2. sni' = sni /\ alive' = alive /\ alive \subseteq Apps /\ inbox \in Seq(Messages)
  BY <1>1, NamesKept, Zenon DEF Watches
<1>3. /\ M = Vanished /\ Rest \in Seq(Messages) /\ ToSet(inbox) = {M} \cup ToSet(Rest)
  BY <1>1, HeadTaken, HeadIs DEF Vanished
<1>4. PICK d : d = inbox'
  OBVIOUS
<1>5. /\ regid' = TRUE /\ watched' = watched /\ subs' = subs /\ other' = other /\ theirs' = theirs /\ reg' = reg
      /\ missed' = missed
      /\ owner = Nobody => owner' = Bar /\ epoch' = epoch + 1 /\ d = Append(Rest, Appeared)
      /\ owner # Nobody => owner' = owner /\ epoch' = epoch /\ d = Append(Rest, Lost)
  BY <1>4 DEF WatcherVanished, Appeared, Lost
<1>6. /\ owner = Nobody => ToSet(d) = ToSet(Rest) \cup {Appeared}
      /\ owner # Nobody => ToSet(d) = ToSet(Rest) \cup {Lost}
  <2>1. Appeared \in Messages /\ Lost \in Messages
    BY TheMessages
  <2>2. CASE owner = Nobody
    BY <1>3, <1>5, <2>1, <2>2, BoxAppend
  <2>3. CASE owner # Nobody
    BY <1>3, <1>5, <2>1, <2>3, BoxAppend
  <2> QED BY <2>2, <2>3
<1>7. Appeared \in ToSet(inbox) => Appeared \in ToSet(d)
  <2>1. M # Appeared
    BY <1>3, TheMessages
  <2> QED BY <1>3, <1>6, <2>1
<1>8. GetList \in ToSet(d) <=> GetList \in ToSet(inbox)
  <2>1. M # GetList /\ Appeared # GetList /\ Lost # GetList
    BY <1>3, TheMessages
  <2> QED BY <1>3, <1>6, <2>1
<1>9. ASSUME NEW a \in Apps
      PROVE  /\ Register(a) \in ToSet(d) <=> Register(a) \in ToSet(inbox)
             /\ Gone(a) \in ToSet(d) <=> Gone(a) \in ToSet(inbox)
             /\ Unregistered(a) \in ToSet(d) <=> Unregistered(a) \in ToSet(inbox)
             /\ ToSet(d) \cap Sources(a) = ToSet(inbox) \cap Sources(a)
             /\ Sends(inbox, d, Partings(a))
  <2>1. Silence(Vanished, a) /\ Silence(Appeared, a) /\ Silence(Lost, a)
    BY NamesApart
  <2>2. Vanished \notin Partings(a) /\ Appeared \notin Partings(a) /\ Lost \notin Partings(a)
    BY <2>1 DEF Silence
  <2>3. Sends(inbox, d, Partings(a))
    BY <1>1, <1>4, <2>2, VanishedSends DEF Vanished, Appeared, Lost
  <2> QED BY <1>3, <1>6, <2>1, <2>3 DEF Silence
<1>10. reg \in [Apps -> Nat] /\ epoch \in Nat /\ Bar # Nobody /\ Other # Nobody /\ Bar # Other
  BY <1>1 DEF Types, BusTypes, Bar, Other, Nobody
<1>11. Roles'
  <2>1. \A a \in Apps : reg[a] <= epoch'
    BY <1>5, <1>10 DEF Era, Roles
  <2>2. owner' # Bar => owner # Bar
    BY <1>5
  <2> QED BY <1>2, <1>4, <1>5, <1>8, <1>9, <1>10, <2>1, <2>2, NamesStay DEF Era, Roles
<1>12. Subscribed'
  <2> SUFFICES ASSUME subs = 0
               PROVE  /\ owner' # Nobody => Appeared \in ToSet(d)
                      /\ GetList \notin ToSet(d)
                      /\ \A a \in Apps : /\ ~Owned(sni, a) /\ ToSet(d) \cap Sources(a) = {}
                                         /\ Unregistered(a) \notin ToSet(d)
    BY <1>2, <1>4, <1>5, NamesStay DEF Subscribed
  <2> QED BY <1>5, <1>6, <1>7, <1>8, <1>9 DEF Era, Subscribed
<1>13. Deaths'
  BY <1>2, <1>4, <1>5, <1>9 DEF Era, Deaths
<1>14. owner' = Bar /\ owner # Nobody => ~Calm'
  BY <1>4, <1>5, <1>6, NamesStay DEF Calm
<1>15. Enrolled'
  <2> SUFFICES ASSUME NEW a \in alive, reg[a] = epoch'
               PROVE  /\ owner' = Other => a \in theirs
                      /\ ~(owner' = Bar /\ Calm')
    BY <1>2, <1>4, <1>5, NamesStay DEF Enrolled
  <2>1. owner # Nobody
    BY <1>2, <1>5, <1>10 DEF Era, Roles
  <2> QED BY <1>2, <1>5, <1>14, <2>1 DEF Era, Enrolled
<1>16. Listed'
  <2>1. \A a \in Apps : Announced(sni, inbox, watched, a) => Announced(sni, d, watched, a)
    BY <1>7, <1>8, <1>9 DEF Announced
  <2> QED BY <1>2, <1>4, <1>5, <2>1 DEF Era, Listed
<1>17. Absent'
  <2>1. \A a \in Apps : Parted(sni, inbox, watched, a) => Parted(sni, d, watched, a)
    BY <1>2, <1>9, PartedSends
  <2>2. owner' # Bar \/ Calm' => owner # Bar
    BY <1>5, <1>10, <1>14
  <2> QED BY <1>2, <1>4, <1>5, <2>1, <2>2, NamesStay DEF Era, Absent
<1> QED BY <1>11, <1>12, <1>13, <1>15, <1>16, <1>17 DEF Era

\* The bar has lost the name: it forgets its items.
LEMMA LostEra == ASSUME Base, Era, NameLost PROVE Era'
<1>1. Types /\ Incoming("name lost")
  <2>1. Incoming("name lost")
    BY Zenon DEF NameLost
  <2> QED BY <2>1 DEF Base
<1>2. sni' = sni /\ alive' = alive /\ alive \subseteq Apps /\ inbox \in Seq(Messages)
  BY <1>1, NamesKept, Zenon DEF Watches
<1>3. /\ M = Lost /\ Rest \in Seq(Messages) /\ ToSet(inbox) = {M} \cup ToSet(Rest)
  BY <1>1, HeadTaken, HeadIs DEF Lost
<1>4. PICK d : d = inbox' /\ d = Rest
  BY DEF NameLost
<1>5. /\ regid' = FALSE /\ watched' = {} /\ subs' = subs /\ other' = other /\ theirs' = theirs /\ reg' = reg
      /\ missed' = missed /\ owner' = owner /\ epoch' = epoch
  BY DEF NameLost, Untouched, busVars
<1>6. /\ Appeared \in ToSet(d) <=> Appeared \in ToSet(inbox)
      /\ GetList \in ToSet(d) <=> GetList \in ToSet(inbox)
  <2>1. M # Appeared /\ M # GetList
    BY <1>3, TheMessages
  <2> QED BY <1>3, <1>4, <2>1
<1>7. ASSUME NEW a \in Apps
      PROVE  /\ Register(a) \in ToSet(d) <=> Register(a) \in ToSet(inbox)
             /\ Gone(a) \in ToSet(d) <=> Gone(a) \in ToSet(inbox)
             /\ Unregistered(a) \in ToSet(d) <=> Unregistered(a) \in ToSet(inbox)
             /\ ToSet(d) \cap Sources(a) = ToSet(inbox) \cap Sources(a)
             /\ Sends(inbox, d, Partings(a))
  <2>1. /\ M # Register(a) /\ M # Gone(a) /\ M # Unregistered(a)
        /\ M \notin Sources(a) /\ Lost \notin Partings(a)
    BY <1>3, NamesApart DEF Silence
  <2>2. Sends(inbox, d, Partings(a))
    BY <1>1, <1>4, <2>1, LostSends DEF Lost
  <2> QED BY <1>3, <1>4, <2>1, <2>2
<1>8. Roles'
  BY <1>2, <1>4, <1>5, <1>6, <1>7, NamesStay DEF Era, Roles
<1>9. Subscribed'
  BY <1>2, <1>4, <1>5, <1>6, <1>7, NamesStay DEF Era, Subscribed
<1>10. Deaths'
  BY <1>2, <1>4, <1>5, <1>7 DEF Era, Deaths
<1>11. ~Calm'
  BY <1>5 DEF Calm
<1>12. Enrolled'
  BY <1>2, <1>5, <1>11, NamesStay DEF Era, Enrolled
<1>13. owner # Bar => watched = {}
  BY DEF Era, Roles
<1>14. Listed'
  <2> SUFFICES ASSUME NEW a \in alive, a \in theirs PROVE Announced(sni, d, {}, a)
    BY <1>2, <1>4, <1>5 DEF Listed
  <2>1. owner = Other /\ a \in Apps
    BY <1>2 DEF Era, Roles
  <2>2. watched = {}
    BY <1>13, <2>1 DEF Other, Bar
  <2>3. Announced(sni, inbox, watched, a)
    BY DEF Era, Listed
  <2> QED BY <1>6, <1>7, <2>1, <2>2, <2>3 DEF Announced
<1>15. Absent'
  <2>1. \A a \in Apps : owner # Bar /\ Parted(sni, inbox, watched, a) => Parted(sni, d, {}, a)
    BY <1>2, <1>7, <1>13, PartedSends
  <2> QED BY <1>2, <1>4, <1>5, <1>11, <2>1, NamesStay DEF Era, Absent
<1> QED BY <1>8, <1>9, <1>10, <1>12, <1>14, <1>15 DEF Era

LEMMA ListIs ==
  ASSUME NEW u \in SUBSET Apps
  PROVE  /\ List(u) \in Messages
         /\ List(u) # Vanished /\ List(u) # Lost /\ List(u) # Appeared /\ List(u) # GetList
         /\ \A a \in Apps : /\ List(u) \in Sources(a) <=> a \in u
                            /\ List(u) # Register(a) /\ List(u) # Gone(a) /\ List(u) # Unregistered(a)
                            /\ a \notin u => List(u) \notin Partings(a)
<1>1. List(u) \in Messages /\ List(u).k = "list" /\ List(u).uids = u
  BY MessageTypes
<1>2. List(u) # Vanished /\ List(u) # Lost /\ List(u) # Appeared /\ List(u) # GetList
  BY <1>1, TheMessages
<1>3. ASSUME NEW a \in Apps
      PROVE  /\ List(u) \in Sources(a) <=> a \in u
             /\ List(u) # Register(a) /\ List(u) # Gone(a) /\ List(u) # Unregistered(a)
             /\ a \notin u => List(u) \notin Partings(a)
  <2>1. List(u) # Register(a) /\ List(u) # Gone(a) /\ List(u) # Unregistered(a) /\ List(u) # Registered(a)
    BY <1>1, TheMessages
  <2>2. List(u) \in Sources(a) <=> a \in u
    BY <1>1, <2>1 DEF Sources
  <2> QED BY <2>1, <2>2 DEF Partings
<1> QED BY <1>1, <1>2, <1>3

\* Someone owns the name: the host asks whom for its items.
LEMMA AppearedEra == ASSUME Base, Era, WatcherAppeared PROVE Era'
<1>1. Types /\ Incoming("appeared")
  <2>1. Incoming("appeared")
    BY Zenon DEF WatcherAppeared
  <2> QED BY <2>1 DEF Base
<1>2. sni' = sni /\ alive' = alive /\ alive \subseteq Apps /\ inbox \in Seq(Messages)
  BY <1>1, NamesKept, Zenon DEF Watches
<1>3. /\ M = Appeared /\ Rest \in Seq(Messages) /\ ToSet(inbox) = {M} \cup ToSet(Rest)
  BY <1>1, HeadTaken, HeadIs DEF Appeared
<1>4. PICK d : d = inbox'
  OBVIOUS
<1>5. theirs \in SUBSET Apps /\ subs \in Nat /\ owner \in {Bar, Other, Nobody} /\ Bar # Other
  BY <1>1 DEF Types, BusTypes, Bar, Other
<1>6. /\ regid' = regid /\ watched' = watched /\ subs' = subs + 1 /\ other' = other /\ theirs' = theirs /\ reg' = reg
      /\ missed' = missed /\ owner' = owner /\ epoch' = epoch
      /\ owner = Other => d = Append(Rest, List(theirs))
      /\ owner = Bar => d = Append(Rest, GetList)
      /\ owner # Other /\ owner # Bar => d = Rest
  BY <1>4, <1>5 DEF WatcherAppeared, GetList, Untouched, busVars
<1>7. GetList \in Messages /\ List(theirs) \in Messages
  BY <1>5, TheMessages, ListIs
<1>8. /\ owner = Other => ToSet(d) = ToSet(Rest) \cup {List(theirs)}
      /\ owner = Bar => ToSet(d) = ToSet(Rest) \cup {GetList}
      /\ owner # Other /\ owner # Bar => ToSet(d) = ToSet(Rest)
  <2>1. CASE owner = Other
    BY <1>3, <1>5, <1>6, <1>7, <2>1, BoxAppend
  <2>2. CASE owner = Bar
    BY <1>3, <1>5, <1>6, <1>7, <2>2, BoxAppend
  <2>3. CASE owner # Other /\ owner # Bar
    BY <1>6, <2>3
  <2> QED BY <1>5, <2>1, <2>2, <2>3
<1>9. /\ Vanished \in ToSet(d) <=> Vanished \in ToSet(inbox)
      /\ Lost \in ToSet(d) <=> Lost \in ToSet(inbox)
      /\ owner # Bar => (GetList \in ToSet(d) <=> GetList \in ToSet(inbox))
  <2>1. M # Vanished /\ M # Lost /\ M # GetList /\ GetList # Vanished /\ GetList # Lost
    BY <1>3, TheMessages
  <2>2. List(theirs) # Vanished /\ List(theirs) # Lost /\ List(theirs) # GetList
    BY <1>5, ListIs
  <2> QED BY <1>3, <1>8, <2>1, <2>2
<1>10. ASSUME NEW a \in Apps
       PROVE  /\ Register(a) \in ToSet(d) <=> Register(a) \in ToSet(inbox)
              /\ Gone(a) \in ToSet(d) <=> Gone(a) \in ToSet(inbox)
              /\ Unregistered(a) \in ToSet(d) <=> Unregistered(a) \in ToSet(inbox)
              /\ a \notin theirs => Sends(inbox, d, Partings(a))
  <2>1. Silence(Appeared, a) /\ Silence(GetList, a)
    BY NamesApart
  <2>2. List(theirs) # Register(a) /\ List(theirs) # Gone(a) /\ List(theirs) # Unregistered(a)
    BY <1>5, ListIs
  <2>3. ASSUME a \notin theirs PROVE Sends(inbox, d, Partings(a))
    <3>1. Appeared \notin Partings(a) /\ GetList \notin Partings(a)
      BY <2>1 DEF Silence
    <3>2. List(theirs) \notin Partings(a)
      BY <1>5, <2>3, ListIs
    <3> QED BY <1>1, <1>4, <3>1, <3>2, AppearedSends DEF Appeared, GetList
  <2> QED BY <1>3, <1>8, <2>1, <2>2, <2>3 DEF Silence
<1>11. Calm' <=> Calm
  BY <1>4, <1>6, <1>9, NamesStay DEF Calm
<1>12. Roles'
  BY <1>2, <1>4, <1>6, <1>9, <1>10, NamesStay DEF Era, Roles
<1>13. Subscribed'
  BY <1>5, <1>6 DEF Subscribed
<1>14. Deaths'
  BY <1>2, <1>4, <1>6, <1>10 DEF Era, Deaths
<1>15. Enrolled'
  BY <1>2, <1>4, <1>6, <1>10, <1>11, NamesStay DEF Era, Enrolled
<1>16. Listed'
  <2> SUFFICES ASSUME NEW a \in alive, a \in theirs \cup watched PROVE Announced(sni, d, watched, a)
    BY <1>2, <1>4, <1>6 DEF Listed
  <2>1. CASE a \in theirs
    <3>1. owner = Other /\ a \in Apps
      BY <1>2, <2>1 DEF Era, Roles
    <3>2. List(theirs) \in Sources(a)
      BY <1>5, <2>1, <3>1, ListIs
    <3> QED BY <1>8, <3>1, <3>2 DEF Announced
  <2>2. CASE a \in watched
    <3>1. owner = Bar
      BY <2>2 DEF Era, Roles
    <3> QED BY <1>8, <2>2, <3>1 DEF Announced
  <2> QED BY <2>1, <2>2
<1>17. Absent'
  <2>1. ASSUME NEW a \in Apps \ alive, Parted(sni, inbox, watched, a) PROVE Parted(sni, d, watched, a)
    <3>1. a \notin theirs
      BY DEF Era, Roles
    <3> QED BY <1>2, <1>10, <2>1, <3>1, PartedSends
  <2> QED BY <1>2, <1>4, <1>6, <1>11, <2>1, NamesStay DEF Era, Absent
<1> QED BY <1>12, <1>13, <1>14, <1>15, <1>16, <1>17 DEF Era

\* The watcher answers with its list.
LEMMA GetsListEra == ASSUME Base, Era, GetsList PROVE Era'
<1>1. Types /\ Incoming("get list")
  <2>1. Incoming("get list")
    BY Zenon DEF GetsList
  <2> QED BY <2>1 DEF Base
<1>2. sni' = sni /\ alive' = alive /\ alive \subseteq Apps /\ inbox \in Seq(Messages)
  BY <1>1, NamesKept, Zenon DEF Watches
<1>3. /\ M = GetList /\ Rest \in Seq(Messages) /\ ToSet(inbox) = {M} \cup ToSet(Rest)
  BY <1>1, HeadTaken, HeadIs DEF GetList
<1>4. PICK d : d = inbox'
  OBVIOUS
<1>5. /\ watched \in SUBSET Apps /\ regid \in BOOLEAN /\ Bar # Other
      /\ owner = Bar /\ theirs = {} /\ subs # 0 /\ (watched # {} => regid = TRUE)
  <2>1. watched \in SUBSET Apps /\ regid \in BOOLEAN /\ Bar # Other
    BY <1>1 DEF Types, BusTypes, Bar, Other
  <2>2. GetList \in ToSet(inbox)
    BY <1>3
  <2> QED BY <2>1, <2>2 DEF Era, Roles, Subscribed
<1>6. /\ regid' = regid /\ watched' = watched /\ subs' = subs /\ other' = other /\ theirs' = theirs /\ reg' = reg
      /\ missed' = missed /\ owner' = owner /\ epoch' = epoch
      /\ regid => d = Append(Rest, List(watched))
      /\ ~regid => d = Rest
  BY <1>4 DEF GetsList, Untouched, busVars
<1>7. /\ regid => ToSet(d) = ToSet(Rest) \cup {List(watched)}
      /\ ~regid => ToSet(d) = ToSet(Rest)
  <2>1. List(watched) \in Messages
    BY <1>5, ListIs
  <2>2. CASE regid
    BY <1>3, <1>6, <2>1, <2>2, BoxAppend
  <2>3. CASE ~regid
    BY <1>6, <2>3
  <2> QED BY <2>2, <2>3
<1>8. /\ Vanished \in ToSet(d) <=> Vanished \in ToSet(inbox)
      /\ Lost \in ToSet(d) <=> Lost \in ToSet(inbox)
  <2>1. M # Vanished /\ M # Lost
    BY <1>3, TheMessages
  <2>2. List(watched) # Vanished /\ List(watched) # Lost
    BY <1>5, ListIs
  <2> QED BY <1>3, <1>7, <2>1, <2>2
<1>9. ASSUME NEW a \in Apps
      PROVE  /\ Register(a) \in ToSet(d) <=> Register(a) \in ToSet(inbox)
             /\ Gone(a) \in ToSet(d) <=> Gone(a) \in ToSet(inbox)
             /\ Unregistered(a) \in ToSet(d) <=> Unregistered(a) \in ToSet(inbox)
             /\ a \notin watched => Sends(inbox, d, Partings(a))
  <2>1. Silence(GetList, a)
    BY NamesApart
  <2>2. List(watched) # Register(a) /\ List(watched) # Gone(a) /\ List(watched) # Unregistered(a)
    BY <1>5, ListIs
  <2>3. ASSUME a \notin watched PROVE Sends(inbox, d, Partings(a))
    <3>1. GetList \notin Partings(a)
      BY <2>1 DEF Silence
    <3>2. List(watched) \notin Partings(a)
      BY <1>5, <2>3, ListIs
    <3> QED BY <1>1, <1>4, <3>1, <3>2, GetsListSends DEF GetList
  <2> QED BY <1>3, <1>7, <2>1, <2>2, <2>3 DEF Silence
<1>10. Calm' <=> Calm
  BY <1>4, <1>6, <1>8, NamesStay DEF Calm
<1>11. Roles'
  BY <1>2, <1>5, <1>6, NamesStay DEF Era, Roles
<1>12. Subscribed'
  BY <1>5, <1>6 DEF Subscribed
<1>13. Deaths'
  BY <1>2, <1>4, <1>6, <1>9 DEF Era, Deaths
<1>14. Enrolled'
  BY <1>2, <1>4, <1>6, <1>9, <1>10, NamesStay DEF Era, Enrolled
<1>15. Listed'
  <2> SUFFICES ASSUME NEW a \in alive, a \in watched PROVE Announced(sni, d, watched, a)
    BY <1>2, <1>4, <1>5, <1>6 DEF Listed
  <2>1. List(watched) \in Sources(a)
    BY <1>2, <1>5, ListIs
  <2> QED BY <1>5, <1>7, <2>1 DEF Announced
<1>16. Absent'
  <2>1. ASSUME NEW a \in Apps, Parted(sni, inbox, watched, a) PROVE Parted(sni, d, watched, a)
    <3>1. CASE a \in watched
      BY <3>1 DEF Parted
    <3>2. CASE a \notin watched
      BY <1>2, <1>9, <2>1, <3>2, PartedSends
    <3> QED BY <3>1, <3>2
  <2> QED BY <1>2, <1>4, <1>6, <1>10, <2>1, NamesStay DEF Era, Absent
<1> QED BY <1>11, <1>12, <1>13, <1>14, <1>15, <1>16 DEF Era

LEMMA OthersSilent ==
  ASSUME NEW a \in Apps, NEW c \in Apps, c # a
  PROVE  Silence(Register(c), a) /\ Silence(Registered(c), a) /\ Silence(Gone(c), a) /\ Silence(Unregistered(c), a)
<1> DEFINE Elsewhere(x) == x.k \in {"register", "registered", "gone", "unregistered"} /\ x.a # a
<1>1. ASSUME NEW x, Elsewhere(x) PROVE Silence(x, a)
  <2>1. x # Register(a) /\ x # Gone(a) /\ x # Unregistered(a) /\ x # Registered(a)
    <3>1. x.a # a
      BY <1>1
    <3>2. Register(a).a = a /\ Gone(a).a = a /\ Unregistered(a).a = a /\ Registered(a).a = a
      BY TheMessages
    <3> QED BY <3>1, <3>2
  <2>2. x \notin Sources(a)
    BY <1>1, <2>1 DEF Sources
  <2>3. x \notin Partings(a)
    BY <2>1, <2>2 DEF Partings
  <2> QED BY <2>1, <2>2, <2>3 DEF Silence
<1>2. Elsewhere(Register(c)) /\ Elsewhere(Registered(c)) /\ Elsewhere(Gone(c)) /\ Elsewhere(Unregistered(c))
  <2>1. /\ Register(c).k = "register" /\ Register(c).a = c /\ Registered(c).k = "registered" /\ Registered(c).a = c
        /\ Gone(c).k = "gone" /\ Gone(c).a = c
        /\ Unregistered(c).k = "unregistered" /\ Unregistered(c).a = c
    BY TheMessages, Zenon
  <2> QED BY <2>1
<1> HIDE DEF Elsewhere
<1> QED BY <1>1, <1>2

LEMMA OwnApart ==
  ASSUME NEW a \in Apps
  PROVE  /\ Register(a) # Registered(a) /\ Register(a) # Gone(a) /\ Register(a) # Unregistered(a)
         /\ Registered(a) # Gone(a) /\ Registered(a) # Unregistered(a) /\ Gone(a) # Unregistered(a)
         /\ Registered(a) \in Sources(a) /\ Register(a) \notin Sources(a) /\ Gone(a) \notin Sources(a)
         /\ Unregistered(a) \notin Sources(a) /\ Gone(a) \notin Partings(a)
<1>1. /\ Register(a) # Registered(a) /\ Register(a) # Gone(a) /\ Register(a) # Unregistered(a)
      /\ Registered(a) # Gone(a) /\ Registered(a) # Unregistered(a) /\ Gone(a) # Unregistered(a)
  BY TheMessages
<1>2. /\ Registered(a) \in Sources(a) /\ Register(a) \notin Sources(a) /\ Gone(a) \notin Sources(a)
      /\ Unregistered(a) \notin Sources(a)
  BY <1>1, TheMessages DEF Sources
<1> QED BY <1>1, <1>2 DEF Partings

\* The names' messages are none about an item.
NoName(x) == x # Vanished /\ x # Lost /\ x # Appeared /\ x # GetList

LEMMA NoNames ==
  ASSUME NEW c \in Apps
  PROVE  NoName(Register(c)) /\ NoName(Registered(c)) /\ NoName(Gone(c)) /\ NoName(Unregistered(c))
BY TheMessages DEF NoName

\* An application registers with the bar: the watcher takes it, and tells the host.
LEMMA RegistersEra == ASSUME Base, Era, Registers PROVE Era'
<1>1. Types /\ Incoming("register")
  <2>1. Incoming("register")
    BY Zenon DEF Registers
  <2> QED BY <2>1 DEF Base
<1>2. sni' = sni /\ alive' = alive /\ alive \subseteq Apps /\ inbox \in Seq(Messages)
  BY <1>1, NamesKept, Zenon DEF Watches
<1>3. PICK c \in Apps : c = M.a /\ M = Register(c)
  BY <1>1, HeadIs DEF Register
<1>4. Rest \in Seq(Messages) /\ ToSet(inbox) = {Register(c)} \cup ToSet(Rest)
  BY <1>1, <1>3, HeadTaken
<1>5. /\ watched \in SUBSET Apps /\ regid \in BOOLEAN /\ Bar # Other /\ Bar # Nobody /\ subs \in Nat
      /\ owner = Bar /\ theirs = {} /\ (watched # {} => regid = TRUE)
  <2>1. watched \in SUBSET Apps /\ regid \in BOOLEAN /\ Bar # Other /\ Bar # Nobody /\ subs \in Nat
    BY <1>1 DEF Types, BusTypes, Bar, Other, Nobody
  <2> QED BY <1>4, <2>1 DEF Era, Roles
<1> DEFINE ok == regid /\ c \notin watched
<1>6. PICK d : d = inbox'
  OBVIOUS
<1>7. PICK told : told = Signal(Rest, "registered", c)
  OBVIOUS
<1>8. /\ regid' = regid /\ subs' = subs /\ other' = other /\ theirs' = theirs /\ reg' = reg
      /\ missed' = missed /\ owner' = owner /\ epoch' = epoch
      /\ ok => /\ watched' = watched \cup {c}
               /\ c \in alive => d = told
               /\ c \notin alive => d = Append(told, Gone(c))
      /\ ~ok => watched' = watched /\ d = Rest
  BY <1>3, <1>6, <1>7 DEF Registers, Untouched, busVars, Up, Gone
<1>9. /\ told \in Seq(Messages)
      /\ subs > 0 => ToSet(told) = ToSet(Rest) \cup {Registered(c)}
      /\ subs = 0 => told = Rest
  <2>1. Registered(c) \in Messages
    BY TheMessages
  <2>2. CASE subs > 0
    <3>1. told = Append(Rest, Registered(c))
      BY <1>7, <2>2 DEF Signal, Registered
    <3> QED BY <1>4, <2>1, <2>2, <3>1, BoxAppend
  <2>3. CASE subs = 0
    BY <1>4, <1>7, <2>3 DEF Signal
  <2> QED BY <1>5, <2>2, <2>3
<1>10. /\ ok /\ c \in alive => ToSet(d) = ToSet(told)
       /\ ok /\ c \notin alive => ToSet(d) = ToSet(told) \cup {Gone(c)}
       /\ ~ok => ToSet(d) = ToSet(Rest)
  <2>1. Gone(c) \in Messages
    BY TheMessages
  <2>2. CASE ok /\ c \notin alive
    BY <1>8, <1>9, <2>1, <2>2, BoxAppend
  <2>3. CASE ok /\ c \in alive
    BY <1>8, <2>3
  <2>4. CASE ~ok
    BY <1>8, <2>4
  <2> QED BY <2>2, <2>3, <2>4
<1>11. /\ ToSet(Rest) \subseteq ToSet(d)
       /\ ToSet(d) \subseteq ToSet(Rest) \cup {Registered(c), Gone(c)}
       /\ subs = 0 => ToSet(d) \subseteq ToSet(Rest) \cup {Gone(c)}
       /\ c \in alive => ToSet(d) \subseteq ToSet(Rest) \cup {Registered(c)}
       /\ ok /\ subs > 0 => Registered(c) \in ToSet(d)
       /\ ok /\ c \notin alive => Gone(c) \in ToSet(d)
  BY <1>5, <1>9, <1>10
<1> HIDE DEF ok
<1>12. NoName(Register(c)) /\ NoName(Registered(c)) /\ NoName(Gone(c))
  BY NoNames
<1>13. /\ Vanished \in ToSet(d) <=> Vanished \in ToSet(inbox)
       /\ Lost \in ToSet(d) <=> Lost \in ToSet(inbox)
       /\ Appeared \in ToSet(d) <=> Appeared \in ToSet(inbox)
       /\ GetList \in ToSet(d) <=> GetList \in ToSet(inbox)
  BY <1>4, <1>11, <1>12 DEF NoName
<1>14. ASSUME NEW a \in Apps, a # c
       PROVE  /\ Register(a) \in ToSet(d) <=> Register(a) \in ToSet(inbox)
              /\ Gone(a) \in ToSet(d) <=> Gone(a) \in ToSet(inbox)
              /\ Unregistered(a) \in ToSet(d) <=> Unregistered(a) \in ToSet(inbox)
              /\ Sends(inbox, d, Partings(a))
              /\ ToSet(d) \cap Sources(a) = ToSet(inbox) \cap Sources(a)
  <2>1. Silence(Register(c), a) /\ Silence(Registered(c), a) /\ Silence(Gone(c), a)
    BY <1>14, OthersSilent
  <2>2. Register(c) \notin Partings(a) /\ Registered(c) \notin Partings(a) /\ Gone(c) \notin Partings(a)
    BY <2>1 DEF Silence
  <2>3. Sends(inbox, d, Partings(a))
    BY <1>1, <1>3, <1>6, <2>2, RegistersSends DEF Register, Registered, Gone
  <2> QED BY <1>4, <1>11, <2>1, <2>3 DEF Silence
<1>15. /\ Unregistered(c) \in ToSet(d) <=> Unregistered(c) \in ToSet(inbox)
       /\ Gone(c) \in ToSet(inbox) => Gone(c) \in ToSet(d)
       /\ c \in alive => (Gone(c) \in ToSet(d) <=> Gone(c) \in ToSet(inbox))
       /\ ToSet(inbox) \cap Sources(c) \subseteq ToSet(d) \cap Sources(c)
       /\ subs = 0 => ToSet(d) \cap Sources(c) = ToSet(inbox) \cap Sources(c)
  BY <1>4, <1>11, OwnApart
<1>16. Calm' <=> Calm
  BY <1>6, <1>8, <1>13, NamesStay DEF Calm
<1>17. Roles'
  <2>1. watched' # {} => regid = TRUE
    BY <1>5, <1>8 DEF ok
  <2> QED BY <1>2, <1>5, <1>8, <2>1, NamesStay DEF Era, Roles
<1>18. Subscribed'
  <2> SUFFICES ASSUME subs = 0
               PROVE  /\ Appeared \in ToSet(d)
                      /\ GetList \notin ToSet(d)
                      /\ \A a \in Apps : /\ ~Owned(sni, a) /\ ToSet(d) \cap Sources(a) = {}
                                         /\ Unregistered(a) \notin ToSet(d)
    BY <1>2, <1>6, <1>8, NamesStay DEF Subscribed
  <2>1. ASSUME NEW a \in Apps PROVE ToSet(d) \cap Sources(a) = {} /\ Unregistered(a) \notin ToSet(d) /\ ~Owned(sni, a)
    BY <1>14, <1>15 DEF Era, Subscribed
  <2> QED BY <1>5, <1>13, <2>1 DEF Era, Subscribed
<1>19. Deaths'
  <2>1. ASSUME NEW a \in Apps
        PROVE  /\ Gone(a) \in ToSet(d) \/ Unregistered(a) \in ToSet(d) => a \notin alive
               /\ a \in watched' /\ a \notin alive => Gone(a) \in ToSet(d)
    <3>1. CASE a # c
      <4>1. a \in watched' => a \in watched
        BY <1>8, <3>1
      <4> QED BY <1>14, <3>1, <4>1 DEF Era, Deaths
    <3>2. CASE a = c
      <4>1. ~ok /\ a \in watched' => a \in watched
        BY <1>8
      <4> QED BY <1>11, <1>15, <3>2, <4>1 DEF Era, Deaths
    <3> QED BY <3>1, <3>2
  <2> QED BY <1>2, <1>6, <2>1 DEF Deaths, Gone, Unregistered
<1>20. watched \subseteq watched' /\ (regid => c \in watched')
  BY <1>8 DEF ok
<1>21. Enrolled'
  <2> SUFFICES ASSUME NEW a \in alive, reg[a] = epoch, Calm
               PROVE  a \in watched' \/ Register(a) \in ToSet(d)
    BY <1>2, <1>5, <1>6, <1>8, <1>16, NamesStay DEF Enrolled, Register
  <2>1. a \in watched \/ Register(a) \in ToSet(inbox)
    BY <1>5 DEF Era, Enrolled
  <2>2. CASE a = c
    BY <1>20, <2>2 DEF Calm
  <2>3. CASE a # c
    BY <1>2, <1>14, <1>20, <2>1, <2>3
  <2> QED BY <2>2, <2>3
<1>22. PICK w : w = watched'
  OBVIOUS
<1>23. Listed'
  <2> SUFFICES ASSUME NEW a \in alive, a \in w PROVE Announced(sni, d, w, a)
    BY <1>2, <1>5, <1>6, <1>8, <1>22 DEF Listed
  <2>1. CASE a \in watched
    <3>1. Announced(sni, inbox, watched, a)
      BY <2>1 DEF Era, Listed
    <3>2. ToSet(inbox) \cap Sources(a) \subseteq ToSet(d) \cap Sources(a)
      BY <1>2, <1>14, <1>15
    <3> QED BY <1>13, <1>20, <1>22, <3>1, <3>2 DEF Announced
  <2>2. CASE a \notin watched
    <3>1. ok /\ a = c
      BY <1>8, <1>22, <2>2
    <3>2. CASE subs > 0
      <4>1. Registered(c) \in ToSet(d) /\ Registered(c) \in Sources(c)
        BY <1>11, <3>1, <3>2, OwnApart
      <4> QED BY <3>1, <4>1 DEF Announced
    <3>3. CASE subs = 0
      <4>1. Appeared \in ToSet(d)
        BY <1>5, <1>13, <3>3 DEF Era, Subscribed
      <4> QED BY <4>1 DEF Announced
    <3> QED BY <1>5, <3>2, <3>3
  <2> QED BY <2>1, <2>2
<1>24. Absent'
  <2>1. ASSUME NEW a \in Apps, Calm, Parted(sni, inbox, watched, a) PROVE Parted(sni, d, w, a)
    <3>1. CASE a = c
      BY <1>20, <1>22, <2>1, <3>1 DEF Parted, Calm
    <3>2. CASE a # c
      BY <1>2, <1>14, <1>20, <1>22, <2>1, <3>2, PartedSends
    <3> QED BY <3>1, <3>2
  <2> QED BY <1>2, <1>5, <1>6, <1>8, <1>16, <1>22, <2>1, NamesStay DEF Era, Absent
<1> QED BY <1>17, <1>18, <1>19, <1>21, <1>23, <1>24 DEF Era

\* The watcher hears that an item's application is gone, and tells the host.
LEMMA GoneEra == ASSUME Base, Era, ItemGone PROVE Era'
<1>1. Types /\ Incoming("gone")
  <2>1. Incoming("gone")
    BY Zenon DEF ItemGone
  <2> QED BY <2>1 DEF Base
<1>2. sni' = sni /\ alive' = alive /\ alive \subseteq Apps /\ inbox \in Seq(Messages)
  BY <1>1, NamesKept, Zenon DEF Watches
<1>3. PICK c \in Apps : c = M.a /\ M = Gone(c)
  BY <1>1, HeadIs DEF Gone
<1>4. Rest \in Seq(Messages) /\ ToSet(inbox) = {Gone(c)} \cup ToSet(Rest)
  BY <1>1, <1>3, HeadTaken
<1>5. /\ watched \in SUBSET Apps /\ regid \in BOOLEAN /\ Bar # Other /\ Bar # Nobody /\ subs \in Nat
      /\ owner = Bar /\ theirs = {} /\ (watched # {} => regid = TRUE) /\ c \notin alive
  <2>1. watched \in SUBSET Apps /\ regid \in BOOLEAN /\ Bar # Other /\ Bar # Nobody /\ subs \in Nat
    BY <1>1 DEF Types, BusTypes, Bar, Other, Nobody
  <2> QED BY <1>4, <2>1 DEF Era, Roles, Deaths
<1>6. PICK d, w : d = inbox' /\ w = watched'
  OBVIOUS
<1> DEFINE told == c \in watched /\ subs > 0
<1>7. /\ regid' = regid /\ subs' = subs /\ other' = other /\ theirs' = theirs /\ reg' = reg
      /\ missed' = missed /\ owner' = owner /\ epoch' = epoch
      /\ w = watched \ {c}
      /\ told => d = Append(Rest, Unregistered(c))
      /\ ~told => d = Rest
  BY <1>3, <1>6 DEF ItemGone, Signal, Untouched, busVars, Unregistered
<1>8. /\ told => ToSet(d) = ToSet(Rest) \cup {Unregistered(c)}
      /\ ~told => ToSet(d) = ToSet(Rest)
  <2>1. Unregistered(c) \in Messages
    BY TheMessages
  <2>2. CASE told
    BY <1>4, <1>7, <2>1, <2>2, BoxAppend
  <2>3. CASE ~told
    BY <1>7, <2>3
  <2> QED BY <2>2, <2>3
<1> HIDE DEF told
<1>9. NoName(Gone(c)) /\ NoName(Unregistered(c))
  BY NoNames
<1>10. /\ Vanished \in ToSet(d) <=> Vanished \in ToSet(inbox)
       /\ Lost \in ToSet(d) <=> Lost \in ToSet(inbox)
       /\ Appeared \in ToSet(d) <=> Appeared \in ToSet(inbox)
       /\ GetList \in ToSet(d) <=> GetList \in ToSet(inbox)
  BY <1>4, <1>8, <1>9 DEF NoName
<1>11. ASSUME NEW a \in Apps, a # c
       PROVE  /\ Register(a) \in ToSet(d) <=> Register(a) \in ToSet(inbox)
              /\ Gone(a) \in ToSet(d) <=> Gone(a) \in ToSet(inbox)
              /\ Unregistered(a) \in ToSet(d) <=> Unregistered(a) \in ToSet(inbox)
              /\ Sends(inbox, d, Partings(a))
              /\ ToSet(d) \cap Sources(a) = ToSet(inbox) \cap Sources(a)
  <2>1. Silence(Gone(c), a) /\ Silence(Unregistered(c), a)
    BY <1>11, OthersSilent
  <2>2. Gone(c) \notin Partings(a) /\ Unregistered(c) \notin Partings(a)
    BY <2>1 DEF Silence
  <2>3. Sends(inbox, d, Partings(a))
    BY <1>1, <1>3, <1>6, <2>2, GoneSends DEF Unregistered, Gone
  <2> QED BY <1>4, <1>8, <2>1, <2>3 DEF Silence
<1>12. /\ Register(c) \in ToSet(d) <=> Register(c) \in ToSet(inbox)
       /\ ToSet(d) \cap Sources(c) = ToSet(inbox) \cap Sources(c)
       /\ subs = 0 => (Unregistered(c) \in ToSet(d) <=> Unregistered(c) \in ToSet(inbox))
  <2>1. subs = 0 => ~told
    BY DEF told
  <2> QED BY <1>4, <1>8, <2>1, OwnApart
<1>13. Calm' <=> Calm
  BY <1>6, <1>7, <1>10, NamesStay DEF Calm
<1>14. Roles'
  BY <1>2, <1>5, <1>6, <1>7, NamesStay DEF Era, Roles
<1>15. Subscribed'
  <2> SUFFICES ASSUME subs = 0
               PROVE  /\ Appeared \in ToSet(d)
                      /\ GetList \notin ToSet(d)
                      /\ \A a \in Apps : /\ ~Owned(sni, a) /\ ToSet(d) \cap Sources(a) = {}
                                         /\ Unregistered(a) \notin ToSet(d)
    BY <1>2, <1>6, <1>7, NamesStay DEF Subscribed
  <2>1. ASSUME NEW a \in Apps PROVE ToSet(d) \cap Sources(a) = {} /\ Unregistered(a) \notin ToSet(d) /\ ~Owned(sni, a)
    BY <1>11, <1>12 DEF Era, Subscribed
  <2> QED BY <1>5, <1>10, <2>1 DEF Era, Subscribed
<1>16. Deaths'
  <2>1. ASSUME NEW a \in Apps
        PROVE  /\ Gone(a) \in ToSet(d) \/ Unregistered(a) \in ToSet(d) => a \notin alive
               /\ a \in w /\ a \notin alive => Gone(a) \in ToSet(d)
    <3>1. CASE a # c
      BY <1>7, <1>11, <3>1 DEF Era, Deaths
    <3>2. CASE a = c
      BY <1>5, <1>7, <3>2
    <3> QED BY <3>1, <3>2
  <2> QED BY <1>2, <1>6, <2>1 DEF Deaths, Gone, Unregistered
<1>17. Enrolled'
  <2> SUFFICES ASSUME NEW a \in alive, reg[a] = epoch, Calm
               PROVE  a \in w \/ Register(a) \in ToSet(d)
    BY <1>2, <1>5, <1>6, <1>7, <1>13, NamesStay DEF Enrolled, Register
  <2>1. a \in watched \/ Register(a) \in ToSet(inbox)
    BY <1>5 DEF Era, Enrolled
  <2> QED BY <1>2, <1>5, <1>7, <1>11, <2>1
<1>18. Listed'
  <2> SUFFICES ASSUME NEW a \in alive, a \in w PROVE Announced(sni, d, w, a)
    BY <1>2, <1>5, <1>6, <1>7 DEF Listed
  <2>1. a \in watched /\ a # c /\ a \in Apps
    BY <1>2, <1>5, <1>7
  <2>2. Announced(sni, inbox, watched, a)
    BY <2>1 DEF Era, Listed
  <2> QED BY <1>10, <1>11, <2>1, <2>2 DEF Announced
<1>19. Absent'
  <2>1. ASSUME NEW a \in Apps, a # c, Parted(sni, inbox, watched, a) PROVE Parted(sni, d, w, a)
    BY <1>2, <1>7, <1>11, <2>1, PartedSends
  <2>2. ASSUME Parted(sni, inbox, watched, c) PROVE Parted(sni, d, w, c)
    <3>1. CASE c \notin watched
      <4>1. d = Rest
        BY <1>7, <3>1 DEF told
      <4>2. M \notin Partings(c)
        BY <1>3, OwnApart
      <4>3. Sends(inbox, d, Partings(c))
        BY <1>1, <4>1, <4>2, TakenSends
      <4> QED BY <1>2, <2>2, <3>1, <4>3, PartedSends
    <3>2. CASE c \in watched /\ subs = 0
      BY <1>12, <3>2 DEF Era, Subscribed, Parted
    <3>3. CASE c \in watched /\ subs > 0
      <4> DEFINE S == Sources(c)
                 T == {Unregistered(c)}
      <4>1. PICK x \in Messages : x = Unregistered(c)
        BY TheMessages
      <4>0. PICK e \in Seq(Messages) : e = <<x>>
        <5>1. <<x>> \in Seq(Messages)
          BY <4>1
        <5> QED BY <5>1
      <4>2. d = Rest \o e
        BY <1>4, <1>7, <3>3, <4>0, <4>1 DEF told
      <4>3. Sealed(e, S, T)
        BY <4>0, <4>1, SealedOne
      <4> HIDE DEF S, T
      <4>4. Sealed(Rest \o e, S, T)
        BY <1>4, <4>3, SealedConcat
      <4> QED BY <4>2, <4>4 DEF Parted, S, T
    <3> QED BY <1>5, <3>1, <3>2, <3>3
  <2> QED BY <1>2, <1>5, <1>6, <1>7, <1>13, <2>1, <2>2, NamesStay DEF Era, Absent
<1> QED BY <1>14, <1>15, <1>16, <1>17, <1>18, <1>19 DEF Era

LEMMA AppRegistersEra == ASSUME Base, Era, NEW c \in Apps, AppRegisters(c) PROVE Era'
<1>1. Types
  BY DEF Base
<1>2. sni' = sni /\ alive' = alive /\ alive \subseteq Apps /\ inbox \in Seq(Messages)
  BY <1>1, NamesKept, Zenon DEF Watches
<1>3. PICK d, w, r : d = inbox' /\ w = theirs' /\ r = reg'
  OBVIOUS
<1>4. /\ owner \in {Bar, Other, Nobody} /\ Bar # Other /\ Bar # Nobody /\ Other # Nobody /\ subs \in Nat
      /\ reg \in [Apps -> Nat] /\ epoch \in Nat
  BY <1>1 DEF Types, BusTypes, Bar, Other, Nobody
<1>5. /\ regid' = regid /\ watched' = watched /\ subs' = subs /\ other' = other /\ missed' = missed
      /\ owner' = owner /\ epoch' = epoch /\ c \in alive /\ owner # Nobody
      /\ r = [reg EXCEPT ![c] = epoch]
      /\ owner = Other => w = theirs \cup {c} /\ d = Signal(inbox, "registered", c)
      /\ owner # Other => w = theirs /\ d = Append(inbox, Register(c))
  BY <1>3 DEF AppRegisters, Up, barVars, Register
<1>6. r[c] = epoch /\ \A a \in Apps : a # c => r[a] = reg[a]
  BY <1>4, <1>5
<1>7. /\ owner = Other /\ subs > 0 => ToSet(d) = ToSet(inbox) \cup {Registered(c)}
      /\ owner = Other /\ subs = 0 => d = inbox
      /\ owner # Other => ToSet(d) = ToSet(inbox) \cup {Register(c)}
  <2>1. Registered(c) \in Messages /\ Register(c) \in Messages
    BY TheMessages
  <2>2. CASE owner = Other /\ subs > 0
    <3>1. d = Append(inbox, Registered(c))
      BY <1>5, <2>2 DEF Signal, Registered
    <3> QED BY <1>2, <1>4, <2>1, <2>2, <3>1, BoxAppend
  <2>3. CASE owner = Other /\ subs = 0
    BY <1>4, <1>5, <2>3 DEF Signal
  <2>4. CASE owner # Other
    BY <1>2, <1>5, <2>1, <2>4, BoxAppend
  <2> QED BY <1>4, <2>2, <2>3, <2>4
<1>8. /\ ToSet(inbox) \subseteq ToSet(d)
      /\ ToSet(d) \subseteq ToSet(inbox) \cup {Register(c), Registered(c)}
      /\ owner = Other => ToSet(d) \subseteq ToSet(inbox) \cup {Registered(c)}
      /\ subs = 0 => ToSet(d) \subseteq ToSet(inbox) \cup {Register(c)}
  BY <1>4, <1>7
<1>9. NoName(Register(c)) /\ NoName(Registered(c))
  BY NoNames
<1>10. /\ Vanished \in ToSet(d) <=> Vanished \in ToSet(inbox)
       /\ Lost \in ToSet(d) <=> Lost \in ToSet(inbox)
       /\ Appeared \in ToSet(d) <=> Appeared \in ToSet(inbox)
       /\ GetList \in ToSet(d) <=> GetList \in ToSet(inbox)
  BY <1>8, <1>9 DEF NoName
<1>11. ASSUME NEW a \in Apps, a # c
       PROVE  /\ Register(a) \in ToSet(d) <=> Register(a) \in ToSet(inbox)
              /\ Gone(a) \in ToSet(d) <=> Gone(a) \in ToSet(inbox)
              /\ Unregistered(a) \in ToSet(d) <=> Unregistered(a) \in ToSet(inbox)
              /\ ToSet(d) \cap Sources(a) = ToSet(inbox) \cap Sources(a)
              /\ Sends(inbox, d, Partings(a))
  <2>1. Silence(Register(c), a) /\ Silence(Registered(c), a)
    BY <1>11, OthersSilent
  <2>2. Register(c) \notin Partings(a) /\ Registered(c) \notin Partings(a)
    BY <2>1 DEF Silence
  <2>3. Sends(inbox, d, Partings(a))
    BY <1>1, <1>3, <2>2, AppRegistersSends DEF Register, Registered
  <2> QED BY <1>8, <2>1, <2>3 DEF Silence
<1>12. /\ Gone(c) \in ToSet(d) <=> Gone(c) \in ToSet(inbox)
       /\ Unregistered(c) \in ToSet(d) <=> Unregistered(c) \in ToSet(inbox)
       /\ owner = Other => (Register(c) \in ToSet(d) <=> Register(c) \in ToSet(inbox))
       /\ subs = 0 => ToSet(d) \cap Sources(c) = ToSet(inbox) \cap Sources(c)
  BY <1>8, OwnApart
<1>13. Calm' <=> Calm
  BY <1>3, <1>5, <1>10, NamesStay DEF Calm
<1>14. Roles'
  <2>1. \A a \in Apps : r[a] <= epoch
    BY <1>4, <1>6 DEF Era, Roles
  <2>2. /\ owner # Other => w = {}
        /\ w \subseteq alive
    BY <1>5 DEF Era, Roles
  <2>3. ASSUME owner # Bar
        PROVE  /\ watched = {} /\ GetList \notin ToSet(d)
               /\ \A a \in Apps : Register(a) \notin ToSet(d) /\ Gone(a) \notin ToSet(d)
    <3>1. owner = Other
      BY <1>4, <1>5, <2>3
    <3>2. ASSUME NEW a \in Apps PROVE Register(a) \notin ToSet(d) /\ Gone(a) \notin ToSet(d)
      BY <1>11, <1>12, <2>3, <3>1 DEF Era, Roles
    <3> QED BY <1>10, <2>3, <3>2 DEF Era, Roles
  <2>4. (owner = Other <=> other = "in") /\ (watched # {} => regid = TRUE)
    BY DEF Era, Roles
  <2> QED BY <1>2, <1>3, <1>5, <2>1, <2>2, <2>3, <2>4, NamesStay DEF Roles, Register, Gone
<1>15. Subscribed'
  <2> SUFFICES ASSUME subs = 0
               PROVE  /\ Appeared \in ToSet(d)
                      /\ GetList \notin ToSet(d)
                      /\ \A a \in Apps : /\ ~Owned(sni, a) /\ ToSet(d) \cap Sources(a) = {}
                                         /\ Unregistered(a) \notin ToSet(d)
    BY <1>2, <1>3, <1>5, NamesStay DEF Subscribed
  <2>1. ASSUME NEW a \in Apps PROVE ToSet(d) \cap Sources(a) = {} /\ Unregistered(a) \notin ToSet(d) /\ ~Owned(sni, a)
    BY <1>11, <1>12 DEF Era, Subscribed
  <2> QED BY <1>5, <1>10, <2>1 DEF Era, Subscribed
<1>16. Deaths'
  <2>1. ASSUME NEW a \in Apps
        PROVE  /\ Gone(a) \in ToSet(d) <=> Gone(a) \in ToSet(inbox)
               /\ Unregistered(a) \in ToSet(d) <=> Unregistered(a) \in ToSet(inbox)
    BY <1>11, <1>12
  <2> QED BY <1>2, <1>3, <1>5, <2>1 DEF Era, Deaths
<1>17. Enrolled'
  <2> SUFFICES ASSUME NEW a \in alive, r[a] = epoch
               PROVE  /\ owner = Other => a \in w
                      /\ owner = Bar /\ Calm => a \in watched \/ Register(a) \in ToSet(d)
    BY <1>2, <1>3, <1>5, <1>13, NamesStay DEF Enrolled
  <2>1. CASE a = c
    BY <1>4, <1>5, <1>7, <2>1
  <2>2. CASE a # c
    BY <1>2, <1>5, <1>6, <1>8, <2>2 DEF Era, Enrolled
  <2> QED BY <2>1, <2>2
<1>18. Listed'
  <2> SUFFICES ASSUME NEW a \in alive, a \in w \cup watched PROVE Announced(sni, d, watched, a)
    BY <1>2, <1>3, <1>5 DEF Listed
  <2>1. CASE a \in theirs \cup watched
    BY <1>8, <1>10, <2>1 DEF Era, Listed, Announced
  <2>2. CASE a \notin theirs \cup watched
    <3>1. owner = Other /\ a = c
      BY <1>5, <2>2
    <3>2. CASE subs > 0
      BY <1>7, <3>1, <3>2, OwnApart DEF Announced
    <3>3. CASE subs = 0
      BY <1>5, <1>10, <3>3 DEF Era, Subscribed, Announced
    <3> QED BY <1>4, <3>2, <3>3
  <2> QED BY <2>1, <2>2
<1>19. Absent'
  <2>1. ASSUME NEW a \in Apps \ alive, Parted(sni, inbox, watched, a) PROVE Parted(sni, d, watched, a)
    BY <1>2, <1>5, <1>11, <2>1, PartedSends
  <2> QED BY <1>2, <1>3, <1>5, <1>13, <2>1, NamesStay DEF Era, Absent
<1> QED BY <1>14, <1>15, <1>16, <1>17, <1>18, <1>19 DEF Era

\* What the other bar's coming and going says is about no item.
LEMMA NewsApart ==
  ASSUME NEW d, NEW f, f \subseteq {Vanished, Appeared}, ToSet(d) = ToSet(inbox) \cup f
  PROVE  /\ GetList \in ToSet(d) <=> GetList \in ToSet(inbox)
         /\ \A a \in Apps : /\ Register(a) \in ToSet(d) <=> Register(a) \in ToSet(inbox)
                            /\ Gone(a) \in ToSet(d) <=> Gone(a) \in ToSet(inbox)
                            /\ Unregistered(a) \in ToSet(d) <=> Unregistered(a) \in ToSet(inbox)
                            /\ ToSet(d) \cap Sources(a) = ToSet(inbox) \cap Sources(a)
<1>1. GetList # Vanished /\ GetList # Appeared
  BY TheMessages
<1>2. ASSUME NEW a \in Apps
      PROVE  /\ Register(a) \in ToSet(d) <=> Register(a) \in ToSet(inbox)
             /\ Gone(a) \in ToSet(d) <=> Gone(a) \in ToSet(inbox)
             /\ Unregistered(a) \in ToSet(d) <=> Unregistered(a) \in ToSet(inbox)
             /\ ToSet(d) \cap Sources(a) = ToSet(inbox) \cap Sources(a)
  BY NamesApart DEF Silence
<1> QED BY <1>1, <1>2

LEMMA OtherClaimsEra == ASSUME Base, Era, OtherClaims PROVE Era'
<1>1. Types
  BY DEF Base
<1>2. sni' = sni /\ alive' = alive /\ alive \subseteq Apps /\ inbox \in Seq(Messages)
  BY <1>1, NamesKept, Zenon DEF Watches
<1>3. PICK d : d = inbox'
  OBVIOUS
<1>4. Bar # Other /\ Bar # Nobody /\ Other # Nobody /\ reg \in [Apps -> Nat] /\ epoch \in Nat
  BY <1>1 DEF Types, BusTypes, Bar, Other, Nobody
<1>5. /\ regid' = regid /\ watched' = watched /\ subs' = subs /\ other' = "in" /\ missed' = missed
      /\ theirs' = theirs /\ reg' = reg /\ owner = Nobody /\ owner' = Other /\ epoch' = epoch + 1
      /\ d = Append(inbox, Appeared)
  BY <1>3 DEF OtherClaims, barVars, Appeared
<1>6. ToSet(d) = ToSet(inbox) \cup {Appeared}
  BY <1>2, <1>5, BoxAppend, TheMessages
<1>7. /\ GetList \in ToSet(d) <=> GetList \in ToSet(inbox)
      /\ \A a \in Apps : /\ Register(a) \in ToSet(d) <=> Register(a) \in ToSet(inbox)
                         /\ Gone(a) \in ToSet(d) <=> Gone(a) \in ToSet(inbox)
                         /\ Unregistered(a) \in ToSet(d) <=> Unregistered(a) \in ToSet(inbox)
                         /\ ToSet(d) \cap Sources(a) = ToSet(inbox) \cap Sources(a)
  BY <1>6, NewsApart
<1>8. watched = {} /\ theirs = {}
  BY <1>4, <1>5 DEF Era, Roles
<1>9. Roles'
  <2>1. \A a \in Apps : reg[a] <= epoch + 1
    BY <1>4 DEF Era, Roles
  <2>2. /\ GetList \notin ToSet(d)
        /\ \A a \in Apps : Register(a) \notin ToSet(d) /\ Gone(a) \notin ToSet(d)
    BY <1>4, <1>5, <1>7 DEF Era, Roles
  <2> QED BY <1>2, <1>3, <1>5, <1>8, <2>1, <2>2, NamesStay DEF Roles, Register, Gone
<1>10. Subscribed'
  BY <1>2, <1>3, <1>5, <1>6, <1>7, NamesStay DEF Era, Subscribed
<1>11. Deaths'
  BY <1>2, <1>3, <1>5, <1>7 DEF Era, Deaths
<1>12. Enrolled'
  <2>1. \A a \in alive : reg[a] # epoch + 1
    BY <1>2, <1>4 DEF Era, Roles
  <2> QED BY <1>2, <1>5, <2>1 DEF Enrolled
<1>13. Listed'
  BY <1>2, <1>5, <1>8 DEF Listed
<1>14. Absent'
  <2>1. ASSUME NEW a \in Apps, Parted(sni, inbox, watched, a) PROVE Parted(sni, d, watched, a)
    <3>1. Appeared \notin Partings(a)
      BY NamesApart DEF Silence
    <3>2. Sends(inbox, d, Partings(a))
      BY <1>1, <1>3, <3>1, OtherClaimsSends DEF Appeared
    <3> QED BY <1>2, <2>1, <3>2, PartedSends
  <2> QED BY <1>2, <1>3, <1>4, <1>5, <2>1, NamesStay DEF Era, Absent
<1> QED BY <1>9, <1>10, <1>11, <1>12, <1>13, <1>14 DEF Era

LEMMA OtherQuitsEra == ASSUME Base, Era, OtherQuits PROVE Era'
<1>1. Types
  BY DEF Base
<1>2. sni' = sni /\ alive' = alive /\ alive \subseteq Apps /\ inbox \in Seq(Messages)
  BY <1>1, NamesKept, Zenon DEF Watches
<1>3. PICK d : d = inbox'
  OBVIOUS
<1>4. Bar # Other /\ Bar # Nobody /\ Other # Nobody /\ reg \in [Apps -> Nat] /\ epoch \in Nat
  BY <1>1 DEF Types, BusTypes, Bar, Other, Nobody
<1>5. /\ regid' = regid /\ watched' = watched /\ subs' = subs /\ other = "in" /\ other' = "gone" /\ missed' = missed
      /\ theirs' = {} /\ reg' = reg
      /\ queued => owner' = Bar /\ epoch' = epoch + 1 /\ d = inbox \o <<Vanished, Appeared>>
      /\ ~queued => owner' = Nobody /\ epoch' = epoch /\ d = Append(inbox, Vanished)
  BY <1>3 DEF OtherQuits, barVars, Vanished, Appeared
<1>6. /\ queued => ToSet(d) = ToSet(inbox) \cup {Vanished, Appeared}
      /\ ~queued => ToSet(d) = ToSet(inbox) \cup {Vanished}
  <2>1. PICK x \in Messages, y \in Messages : x = Vanished /\ y = Appeared
    BY TheMessages
  <2>2. CASE queued
    <3>1. PICK e \in Seq(Messages) : e = <<x, y>> /\ ToSet(e) = {x, y}
      <4>1. <<x, y>> \in Seq(Messages) /\ ToSet(<<x, y>>) = {x, y}
        BY DEF ToSet
      <4> QED BY <4>1
    <3>2. d = inbox \o e
      BY <1>5, <2>1, <2>2, <3>1
    <3>3. ToSet(inbox \o e) = ToSet(inbox) \cup ToSet(e)
      BY <1>2, InConcat
    <3> QED BY <2>1, <2>2, <3>1, <3>2, <3>3
  <2>3. CASE ~queued
    BY <1>2, <1>5, <2>1, <2>3, BoxAppend
  <2> QED BY <2>2, <2>3
<1>7. /\ GetList \in ToSet(d) <=> GetList \in ToSet(inbox)
      /\ \A a \in Apps : /\ Register(a) \in ToSet(d) <=> Register(a) \in ToSet(inbox)
                         /\ Gone(a) \in ToSet(d) <=> Gone(a) \in ToSet(inbox)
                         /\ Unregistered(a) \in ToSet(d) <=> Unregistered(a) \in ToSet(inbox)
                         /\ ToSet(d) \cap Sources(a) = ToSet(inbox) \cap Sources(a)
  <2>1. CASE queued
    BY <1>6, <2>1, NewsApart
  <2>2. CASE ~queued
    BY <1>6, <2>2, NewsApart
  <2> QED BY <2>1, <2>2
<1>8. owner = Other /\ watched = {}
  BY <1>4, <1>5 DEF Era, Roles
<1>9. ~Calm'
  BY <1>3, <1>6, NamesStay DEF Calm
<1>10. Roles'
  <2>1. \A a \in Apps : reg[a] <= epoch'
    BY <1>4, <1>5 DEF Era, Roles
  <2>2. /\ GetList \notin ToSet(d)
        /\ \A a \in Apps : Register(a) \notin ToSet(d) /\ Gone(a) \notin ToSet(d)
    BY <1>4, <1>7, <1>8 DEF Era, Roles
  <2>3. owner' # Other
    BY <1>4, <1>5
  <2> QED BY <1>2, <1>3, <1>5, <1>8, <2>1, <2>2, <2>3, NamesStay DEF Roles, Register, Gone
<1>11. Subscribed'
  <2>1. owner' # Nobody => Appeared \in ToSet(d)
    BY <1>5, <1>6
  <2> QED BY <1>2, <1>3, <1>5, <1>7, <2>1, NamesStay DEF Era, Subscribed
<1>12. Deaths'
  BY <1>2, <1>3, <1>5, <1>7 DEF Era, Deaths
<1>13. Enrolled'
  <2>1. owner' # Other
    BY <1>4, <1>5
  <2> QED BY <1>9, <2>1, NamesStay DEF Enrolled
<1>14. Listed'
  BY <1>2, <1>5, <1>8 DEF Listed
<1>15. Absent'
  <2>1. ASSUME NEW a \in Apps, Parted(sni, inbox, watched, a) PROVE Parted(sni, d, watched, a)
    <3>1. Vanished \notin Partings(a) /\ Appeared \notin Partings(a)
      BY NamesApart DEF Silence
    <3>2. Sends(inbox, d, Partings(a))
      BY <1>1, <1>3, <3>1, OtherQuitsSends DEF Vanished, Appeared
    <3> QED BY <1>2, <2>1, <3>2, PartedSends
  <2> QED BY <1>2, <1>3, <1>4, <1>5, <1>8, <2>1, NamesStay DEF Era, Absent
<1> QED BY <1>10, <1>11, <1>12, <1>13, <1>14, <1>15 DEF Era

LEMMA WatchesEra == ASSUME Base, Era, Watches PROVE Era'
BY VanishedEra, LostEra, AppearedEra, RegistersEra, GetsListEra, GoneEra, AppRegistersEra, OtherClaimsEra,
   OtherQuitsEra DEF Watches

LEMMA MoreEra ==
  ASSUME Types, Era, EraVars' = EraVars, sni' = sni,
         NEW f \in Seq(Messages), inbox' = inbox \o f, ToSet(f) \cap BusKinds = {}
  PROVE  Era'
<1>1. inbox \in Seq(Messages)
  BY NowFields
<1>2. Sends(inbox, inbox \o f, BusKinds)
  BY <1>1, SendsSame, SendsMore
<1>3. Sends(inbox, inbox', BusKinds)
  BY <1>2
<1>4. PICK m : m = sni'
  OBVIOUS
<1>5. \A a \in Apps : Owned(m, a) <=> Owned(sni, a)
  BY <1>4
<1> QED BY <1>3, <1>4, <1>5, EraStays

LEMMA ChangesEra == ASSUME Base, Era, NEW a \in Apps, NEW q \in Changing, AppChanges(a, q) PROVE Era'
<1>1. Types
  BY DEF Base
<1>2. EraVars' = EraVars /\ sni' = sni
  BY DEF AppChanges, barVars, EraVars
<1>3. PICK x \in Messages : inbox' = Append(inbox, x) /\ x.k = "signal"
  <2>1. inbox' = Append(inbox, Told(a, SignalOf[q])) /\ Told(a, SignalOf[q]) \in Messages
    BY <1>1, ChangesDoes
  <2>2. Told(a, SignalOf[q]).k = "signal"
    BY DEF Told
  <2> QED BY <2>1, <2>2
<1>4. x \notin BusKinds
  BY <1>3 DEF BusKinds, Kinds
<1>5. inbox' = inbox \o <<x>> /\ <<x>> \in Seq(Messages) /\ ToSet(<<x>>) = {x}
  BY <1>1, <1>3, NowFields, AppendConcat, InOne
<1> QED BY <1>1, <1>2, <1>4, <1>5, MoreEra

LEMMA MenuChangesEra == ASSUME Base, Era, NEW a \in Apps, NEW l \in ToSet(Layouts), AppChangesMenu(a, l) PROVE Era'
<1>1. Types /\ inbox \in Seq(Messages)
  BY NowFields DEF Base
<1>2. EraVars' = EraVars /\ sni' = sni
  BY DEF AppChangesMenu, barVars, EraVars
<1>3. inbox' = Append(inbox, Msg("layout updated", a)) \/ inbox' = inbox
  BY <1>1, MenuChangesDoes
<1>4. CASE inbox' = inbox
  <2>1. inbox' = inbox \o <<>> /\ <<>> \in Seq(Messages) /\ ToSet(<<>>) = {}
    BY <1>1, <1>4, ConcatNone, InNone
  <2> QED BY <1>1, <1>2, <2>1, MoreEra
<1>5. CASE inbox' = Append(inbox, Msg("layout updated", a))
  <2>1. PICK x \in Messages : x = Msg("layout updated", a) /\ x.k = "layout updated"
    <3>1. Msg("layout updated", a) \in Messages /\ Msg("layout updated", a).k = "layout updated"
      BY MessageTypes
    <3> QED BY <3>1
  <2>2. x \notin BusKinds
    BY <2>1 DEF BusKinds, Kinds
  <2>3. inbox' = inbox \o <<x>> /\ <<x>> \in Seq(Messages) /\ ToSet(<<x>>) = {x}
    BY <1>1, <1>5, <2>1, AppendConcat, InOne
  <2> QED BY <1>1, <1>2, <2>2, <2>3, MoreEra
<1> QED BY <1>3, <1>4, <1>5

LEMMA AnswersEra == ASSUME Base, Era, NEW a \in Apps, NEW refresh \in BOOLEAN, AppAnswers(a, refresh) PROVE Era'
<1>1. Types /\ asked \in [Apps -> Seq(Calls)]
  BY NowFields DEF Base
<1>2. EraVars' = EraVars /\ sni' = sni
  BY DEF AppAnswers, barVars, busVars, EraVars
<1>3. PICK f \in Seq(Messages) : AnswersAs(a, refresh, f)
  BY <1>1, AnswersDoes
<1>4. inbox' = inbox \o f /\ DOMAIN f = DOMAIN asked[a]
  BY <1>3, Zenon DEF AnswersAs
<1>5. ASSUME NEW j \in DOMAIN f PROVE f[j].k \in {"prop", "layout", "about to show"}
  <2>1. PICK r \in Calls : r = asked[a][j]
    <3>1. asked[a] \in Seq(Calls)
      BY <1>1
    <3> QED BY <1>4, <3>1
  <2>2. /\ r.k = "get" => f[j] = PropReply(r.i, r.ps, prop[a])
        /\ r.k = "layout" => f[j] = LayoutReply(r.i, r.node, layout[a])
        /\ r.k = "about to show" => f[j] = AboutReply(r.i, r.node, refresh)
    BY <1>3, <2>1 DEF AnswersAs
  <2>3. CASE r.k = "get"
    <3>1. f[j].k = "prop"
      BY <2>2, <2>3, PropReplyIs
    <3> QED BY <3>1
  <2>4. CASE r.k = "layout"
    <3>1. f[j].k = "layout"
      BY <2>2, <2>4, LayoutReplyIs
    <3> QED BY <3>1
  <2>5. CASE r.k = "about to show"
    <3>1. PICK b : f[j] = AboutReply(r.i, r.node, b)
      BY <2>2, <2>5, Zenon
    <3>2. AboutReply(r.i, r.node, b).k = "about to show"
      BY DEF AboutReply
    <3>3. f[j].k = "about to show"
      BY <3>1, <3>2, Zenon
    <3> QED BY <3>3
  <2>6. r.k \in {"get", "layout", "about to show"}
    BY CallKinds
  <2> QED BY <2>3, <2>4, <2>5, <2>6
<1>6. ToSet(f) \cap BusKinds = {}
  <2> SUFFICES ASSUME NEW x \in ToSet(f) PROVE x \notin BusKinds
    OBVIOUS
  <2>1. PICK j \in DOMAIN f : x = f[j]
    BY DEF ToSet
  <2>2. x.k \in {"prop", "layout", "about to show"}
    BY <1>5, <2>1
  <2> QED BY <2>2 DEF BusKinds, Kinds
<1> QED BY <1>1, <1>2, <1>4, <1>6, MoreEra

Joined(b, t, u, v, d, f, h) ==
  /\ d = b \o f /\ d = h \o v /\ ToSet(d) = ToSet(b) \cup ToSet(f)
  /\ ToSet(f) = (ToSet(t) \cup ToSet(u)) \cup ToSet(v)

LEMMA BoxConcat ==
  ASSUME NEW b \in Seq(Messages), NEW c \in Seq(Messages)
  PROVE  b \o c \in Seq(Messages) /\ ToSet(b \o c) = ToSet(b) \cup ToSet(c)
BY InConcat

LEMMA BoxAssoc ==
  ASSUME NEW b \in Seq(Messages), NEW c \in Seq(Messages), NEW d \in Seq(Messages)
  PROVE  (b \o c) \o d = b \o (c \o d)
BY ConcatAssoc

LEMMA Joining ==
  ASSUME NEW b \in Seq(Messages), NEW t \in Seq(Messages), NEW u \in Seq(Messages), NEW v \in Seq(Messages)
  PROVE  \E f, h \in Seq(Messages) : Joined(b, t, u, v, ((b \o t) \o u) \o v, f, h)
<1>1. (b \o t) \o u = b \o (t \o u)
  BY BoxAssoc
<1>2. t \o u \in Seq(Messages) /\ ToSet(t \o u) = ToSet(t) \cup ToSet(u)
  BY BoxConcat
<1>3. (b \o (t \o u)) \o v = b \o ((t \o u) \o v)
  BY <1>2, BoxAssoc
<1>4. (t \o u) \o v \in Seq(Messages) /\ ToSet((t \o u) \o v) = ToSet(t \o u) \cup ToSet(v)
  BY <1>2, BoxConcat, Zenon
<1>5. /\ b \o (t \o u) \in Seq(Messages)
      /\ ToSet(b \o ((t \o u) \o v)) = ToSet(b) \cup ToSet((t \o u) \o v)
  BY <1>2, <1>4, BoxConcat, Zenon
<1>6. Joined(b, t, u, v, ((b \o t) \o u) \o v, (t \o u) \o v, b \o (t \o u))
  BY <1>1, <1>2, <1>3, <1>4, <1>5, Zenon DEF Joined
<1> QED BY <1>4, <1>5, <1>6, Zenon

LEMMA QuitsEra == ASSUME Base, Era, NEW c \in Apps, AppQuits(c) PROVE Era'
<1>1. Types /\ inbox \in Seq(Messages) /\ alive \subseteq Apps /\ subs \in Nat /\ owner \in {Bar, Other, Nobody}
      /\ reg \in [Apps -> Nat] /\ Bar # Other
  BY NowFields DEF Base, Types, BusTypes, Bar, Other
<1>2. PICK told, failed, after \in Seq(Messages) : QuitsAs(c, told, failed, after)
  BY <1>1, QuitsDoes
<1>3. /\ sni' = sni /\ alive' = alive \ {c} /\ c \in alive /\ theirs' = theirs \ {c}
      /\ owner' = owner /\ epoch' = epoch /\ other' = other /\ reg' = reg /\ regid' = regid /\ watched' = watched
      /\ subs' = subs /\ missed \subseteq missed'
      /\ c \notin missed' => owner # Nobody /\ reg[c] = epoch
  BY DEF AppQuits, barVars, Up
<1>4. PICK d, v, w : d = inbox' /\ v = alive' /\ w = theirs'
  OBVIOUS
<1>5. d = ((inbox \o told) \o failed) \o after
  BY <1>2, <1>4, Zenon DEF QuitsAs
<1>6. PICK f, h \in Seq(Messages) : Joined(inbox, told, failed, after, d, f, h)
  <2>1. inbox \in Seq(Messages)
    BY <1>1
  <2> QED BY <1>5, <2>1, Joining, Zenon
<1>7. /\ d = inbox \o f /\ d = h \o after /\ ToSet(d) = ToSet(inbox) \cup ToSet(f)
      /\ ToSet(f) = (ToSet(told) \cup ToSet(failed)) \cup ToSet(after)
  BY <1>6, Zenon DEF Joined
<1>10. /\ ToSet(told) = (IF c \in watched THEN {Gone(c)} ELSE {})
       /\ ToSet(after) \subseteq {Unregistered(c)}
       /\ subs = 0 => after = <<>>
       /\ c \in theirs /\ subs > 0 => after = <<Unregistered(c)>>
       /\ \A x \in ToSet(failed) : x.k = "prop"
  BY <1>2 DEF QuitsAs, Gone, Unregistered
<1>11. \A x \in ToSet(f) : \/ x = Gone(c) /\ c \in watched
                           \/ x = Unregistered(c) /\ subs # 0
                           \/ x.k = "prop"
  <2>1. subs = 0 => ToSet(after) = {}
    BY <1>10, InNone
  <2> QED BY <1>7, <1>10, <2>1
<1>12. c \in watched => Gone(c) \in ToSet(d)
  BY <1>7, <1>10
<1>13. \A x : x.k = "prop" => x \notin BusKinds
  BY DEF BusKinds, Kinds
<1>14. \A x \in BusKinds : x # Gone(c) /\ x # Unregistered(c) => (x \in ToSet(d) <=> x \in ToSet(inbox))
  BY <1>7, <1>11, <1>13
<1>15. /\ Vanished \in ToSet(d) <=> Vanished \in ToSet(inbox)
       /\ Lost \in ToSet(d) <=> Lost \in ToSet(inbox)
       /\ Appeared \in ToSet(d) <=> Appeared \in ToSet(inbox)
       /\ GetList \in ToSet(d) <=> GetList \in ToSet(inbox)
  <2>1. NoName(Gone(c)) /\ NoName(Unregistered(c))
    BY NoNames
  <2> QED BY <1>14, <2>1, InBusKinds DEF NoName
<1>16. ASSUME NEW a \in Apps
       PROVE  /\ Register(a) \in ToSet(d) <=> Register(a) \in ToSet(inbox)
              /\ ToSet(d) \cap Sources(a) = ToSet(inbox) \cap Sources(a)
  <2>1. Register(a) # Gone(c) /\ Register(a) # Unregistered(c) /\ Gone(c) \notin Sources(a) /\ Unregistered(c) \notin Sources(a)
    <3>1. CASE a = c
      BY <3>1, OwnApart
    <3>2. CASE a # c
      <4>1. Silence(Gone(c), a) /\ Silence(Unregistered(c), a)
        BY <3>2, OthersSilent
      <4> QED BY <4>1 DEF Silence
    <3> QED BY <3>1, <3>2
  <2>2. Register(a) \in BusKinds /\ Sources(a) \subseteq BusKinds
    BY InBusKinds
  <2> QED BY <1>14, <2>1, <2>2
<1>17. ASSUME NEW a \in Apps, a # c
       PROVE  /\ Gone(a) \in ToSet(d) <=> Gone(a) \in ToSet(inbox)
              /\ Unregistered(a) \in ToSet(d) <=> Unregistered(a) \in ToSet(inbox)
              /\ Sends(inbox, d, Partings(a))
  <2>1. Silence(Gone(c), a) /\ Silence(Unregistered(c), a)
    BY <1>17, OthersSilent
  <2>2. Gone(a) \in BusKinds /\ Unregistered(a) \in BusKinds /\ Partings(a) \subseteq BusKinds
    BY InBusKinds
  <2>3. ToSet(f) \cap Partings(a) = {}
    BY <1>11, <1>13, <2>1, <2>2 DEF Silence
  <2>4. Sends(inbox, d, Partings(a))
    <3>1. inbox \in Seq(Messages) /\ Sends(inbox, inbox, Partings(a))
      BY <1>1, SendsSame
    <3>2. Sends(inbox, inbox \o f, Partings(a))
      BY <2>3, <3>1, SendsMore, Zenon
    <3> QED BY <1>7, <3>2, Zenon
  <2> QED BY <1>14, <2>1, <2>2, <2>4 DEF Silence
<1>18. /\ Gone(c) \in ToSet(d) => Gone(c) \in ToSet(inbox) \/ c \in watched
       /\ subs = 0 => (Unregistered(c) \in ToSet(d) <=> Unregistered(c) \in ToSet(inbox))
  <2>1. Gone(c) # Unregistered(c) /\ Gone(c).k # "prop" /\ Unregistered(c).k # "prop"
    BY OwnApart, TheMessages
  <2> QED BY <1>7, <1>11, <2>1
<1>19. Calm' <=> Calm
  BY <1>3, <1>4, <1>15, NamesStay DEF Calm
<1>20. Roles'
  <2>1. ASSUME owner # Bar
        PROVE  /\ watched = {} /\ GetList \notin ToSet(d)
               /\ \A a \in Apps : Register(a) \notin ToSet(d) /\ Gone(a) \notin ToSet(d)
    <3>1. watched = {}
      BY <2>1 DEF Era, Roles
    <3>2. ASSUME NEW a \in Apps PROVE Register(a) \notin ToSet(d) /\ Gone(a) \notin ToSet(d)
      BY <1>16, <1>17, <1>18, <2>1, <3>1 DEF Era, Roles
    <3> QED BY <1>15, <2>1, <3>1, <3>2 DEF Era, Roles
  <2>2. /\ owner # Other => w = {}
        /\ w \subseteq v
    BY <1>3, <1>4 DEF Era, Roles
  <2>3. (owner = Other <=> other = "in") /\ (watched # {} => regid = TRUE) /\ \A a \in Apps : reg[a] <= epoch
    BY DEF Era, Roles
  <2> QED BY <1>3, <1>4, <2>1, <2>2, <2>3, NamesStay DEF Roles, Register, Gone
<1>21. Subscribed'
  <2> SUFFICES ASSUME subs = 0
               PROVE  /\ owner # Nobody => Appeared \in ToSet(d)
                      /\ GetList \notin ToSet(d)
                      /\ \A a \in Apps : /\ ~Owned(sni, a) /\ ToSet(d) \cap Sources(a) = {}
                                         /\ Unregistered(a) \notin ToSet(d)
    BY <1>3, <1>4, NamesStay DEF Subscribed
  <2>1. ASSUME NEW a \in Apps PROVE ToSet(d) \cap Sources(a) = {} /\ Unregistered(a) \notin ToSet(d) /\ ~Owned(sni, a)
    BY <1>16, <1>17, <1>18 DEF Era, Subscribed
  <2> QED BY <1>15, <2>1 DEF Era, Subscribed
<1>22. Deaths'
  <2>1. ASSUME NEW a \in Apps
        PROVE  /\ Gone(a) \in ToSet(d) \/ Unregistered(a) \in ToSet(d) => a \notin v
               /\ a \in watched /\ a \notin v => Gone(a) \in ToSet(d)
    <3>1. CASE a # c
      BY <1>3, <1>4, <1>17, <3>1 DEF Era, Deaths
    <3>2. CASE a = c
      BY <1>3, <1>4, <1>12, <3>2
    <3> QED BY <3>1, <3>2
  <2> QED BY <1>3, <1>4, <2>1 DEF Deaths, Gone, Unregistered
<1>23. Enrolled'
  <2> SUFFICES ASSUME NEW a \in v, reg[a] = epoch
               PROVE  /\ owner = Other => a \in w
                      /\ owner = Bar /\ Calm => a \in watched \/ Register(a) \in ToSet(d)
    BY <1>3, <1>4, <1>19, NamesStay DEF Enrolled, Register
  <2>1. a \in alive /\ a # c /\ a \in Apps
    BY <1>1, <1>3, <1>4
  <2> QED BY <1>3, <1>4, <1>16, <2>1 DEF Era, Enrolled
<1>24. Listed'
  <2> SUFFICES ASSUME NEW a \in v, a \in w \cup watched PROVE Announced(sni, d, watched, a)
    BY <1>3, <1>4 DEF Listed
  <2>1. a \in alive /\ a \in theirs \cup watched /\ a \in Apps
    BY <1>1, <1>3, <1>4
  <2>2. Announced(sni, inbox, watched, a)
    BY <2>1 DEF Era, Listed
  <2> QED BY <1>15, <1>16, <2>1, <2>2 DEF Announced
<1>25. Absent'
  <2>1. ASSUME NEW a \in Apps, a # c, Parted(sni, inbox, watched, a) PROVE Parted(sni, d, watched, a)
    BY <1>1, <1>17, <2>1, PartedSends
  <2>2. ASSUME owner # Nobody, reg[c] = epoch, owner # Bar \/ Calm PROVE Parted(sni, d, watched, c)
    <3>1. CASE owner = Bar
      <4>1. c \in watched \/ Register(c) \in ToSet(inbox)
        BY <1>3, <2>2, <3>1 DEF Era, Enrolled
      <4> QED BY <1>16, <4>1 DEF Parted
    <3>2. CASE owner = Other /\ subs = 0
      BY <1>16, <3>2 DEF Era, Subscribed, Parted
    <3>3. CASE owner = Other /\ subs > 0
      <4> DEFINE S == Sources(c)
                 T == {Unregistered(c)}
      <4>1. c \in theirs
        BY <1>3, <2>2, <3>3 DEF Era, Enrolled
      <4>2. after = <<Unregistered(c)>>
        BY <1>10, <3>3, <4>1
      <4>3. Sealed(after, S, T)
        BY <4>2, SealedOne
      <4> HIDE DEF S, T
      <4>4. Sealed(h \o after, S, T)
        BY <4>3, SealedConcat
      <4> QED BY <1>7, <4>4 DEF Parted, S, T
    <3> QED BY <1>1, <2>2, <3>1, <3>2, <3>3
  <2> SUFFICES ASSUME NEW a \in Apps, a \notin v, a \notin missed', owner # Bar \/ Calm
               PROVE  Parted(sni, d, watched, a)
    BY <1>3, <1>4, <1>19, NamesStay DEF Absent
  <2>3. CASE a = c
    BY <1>3, <2>2, <2>3
  <2>4. CASE a # c
    <3>1. a \notin alive /\ a \notin missed
      BY <1>3, <1>4, <2>4
    <3> QED BY <2>1, <2>4, <3>1 DEF Era, Absent
  <2> QED BY <2>3, <2>4
<1> QED BY <1>20, <1>21, <1>22, <1>23, <1>24, <1>25 DEF Era

LEMMA AppStepsEra == ASSUME Base, Era, AppSteps PROVE Era'
<1>1. PICK a \in Apps :
        \/ AppQuits(a)
        \/ \E p \in Changing : AppChanges(a, p)
        \/ \E l \in ToSet(Layouts) : AppChangesMenu(a, l)
        \/ \E refresh \in BOOLEAN : AppAnswers(a, refresh)
  BY Zenon DEF AppSteps
<1>2. CASE AppQuits(a)
  BY <1>2, QuitsEra
<1>3. CASE \E p \in Changing : AppChanges(a, p)
  BY <1>3, ChangesEra
<1>4. CASE \E l \in ToSet(Layouts) : AppChangesMenu(a, l)
  BY <1>4, MenuChangesEra
<1>5. CASE \E refresh \in BOOLEAN : AppAnswers(a, refresh)
  BY <1>5, AnswersEra
<1> QED BY <1>1, <1>2, <1>3, <1>4, <1>5

\* Who is registered with whom, and what is on its way about it, step by step.
LEMMA NextEra == ASSUME Base, Era, [Next]_vars PROVE Era'
<1>1. Types /\ inbox \in Seq(Messages)
  BY NowFields DEF Base
<1>2. CASE UNCHANGED vars
  <2>1. EraVars' = EraVars /\ sni' = sni /\ inbox' = inbox
    BY <1>2 DEF vars, busVars, EraVars
  <2>2. inbox' = inbox \o <<>> /\ <<>> \in Seq(Messages) /\ ToSet(<<>>) = {}
    BY <1>1, <2>1, ConcatNone, InNone
  <2> QED BY <1>1, <2>1, <2>2, MoreEra
<1>3. CASE ItemSteps
  BY <1>3, ItemStepsKeepEra
<1>4. CASE Watches
  BY <1>4, WatchesEra
<1>5. CASE AppSteps
  BY <1>5, AppStepsEra
<1> QED BY <1>2, <1>3, <1>4, <1>5, NextSteps

Registry == Drawn(Now) /\ Contents(Now, alive, prop) /\ Era

LEMMA InitRegistry == ASSUME Init PROVE Registry
<1>1. Types /\ reg \in [Apps -> Nat]
  BY InitBase DEF Base, Types, BusTypes
<1>2. Now.sni = sni /\ Now.tray = tray
  BY <1>1, NowFields
<1>3. sni = <<>> /\ tray = <<>> /\ DOMAIN sni = {} /\ DOMAIN tray = {}
  BY DEF Init
<1>4. Drawn(Now)
  BY <1>2, <1>3 DEF Drawn, ToDraw, Shown
<1>5. Contents(Now, alive, prop)
  BY <1>2, <1>3 DEF Contents, LiveSet
<1>6. /\ other = "in" => inbox = <<Appeared>> /\ owner = Other /\ epoch = 1
      /\ other # "in" => inbox = <<Vanished>> /\ owner = Nobody /\ epoch = 0
      /\ watched = {} /\ theirs = {} /\ subs = 0 /\ alive = Apps /\ \A a \in Apps : reg[a] = 0
  BY DEF Init, Appeared, Vanished
<1>7. Bar # Other /\ Bar # Nobody /\ Other # Nobody
  BY DEF Bar, Other, Nobody
<1>8. /\ other = "in" => ToSet(inbox) = {Appeared}
      /\ other # "in" => ToSet(inbox) = {Vanished}
  BY <1>6, InOne
<1>9. GetList \notin ToSet(inbox)
  BY <1>8, TheMessages
<1>10. ASSUME NEW a \in Apps
       PROVE  /\ Register(a) \notin ToSet(inbox) /\ Gone(a) \notin ToSet(inbox) /\ Unregistered(a) \notin ToSet(inbox)
              /\ ToSet(inbox) \cap Sources(a) = {}
  <2>1. Silence(Appeared, a) /\ Silence(Vanished, a)
    BY NamesApart
  <2> QED BY <1>8, <2>1 DEF Silence
<1>11. Roles
  <2>1. \A a \in Apps : reg[a] <= epoch
    BY <1>6
  <2> QED BY <1>6, <1>7, <1>9, <1>10, <2>1 DEF Roles
<1>12. Subscribed
  BY <1>3, <1>6, <1>8, <1>9, <1>10 DEF Subscribed, Owned
<1>13. Deaths
  BY <1>6, <1>10 DEF Deaths
<1>14. Enrolled
  BY <1>6, <1>7 DEF Enrolled
<1>15. Listed /\ Absent
  BY <1>6 DEF Listed, Absent
<1> QED BY <1>4, <1>5, <1>11, <1>12, <1>13, <1>14, <1>15 DEF Registry, Era

LEMMA NextRegistry == ASSUME Base, Registry, [Next]_vars PROVE Registry'
BY NextDrawn, NextContents, NextEra DEF Registry

LEMMA IconsShow == ASSUME Base, Registry PROVE TrayShowsItems
<1>1. Types /\ Paired(Now) /\ alive \subseteq Apps
  BY DEF Base, Sound, Types, BusTypes
<1>2. /\ Now.sni = sni /\ Now.tray = tray /\ Now.box = inbox /\ Now.calls = asked /\ Now.invalid = invalid
      /\ inbox \in Seq(Messages) /\ invalid \in BOOLEAN
  BY <1>1, NowFields
<1>3. /\ \A j \in DOMAIN tray : tray[j].i \in LiveSet(Now)
      /\ \A i \in LiveSet(Now) : \E j \in DOMAIN tray : tray[j].i = i
      /\ \A j, k \in DOMAIN tray : tray[j].i = tray[k].i => j = k
      /\ \A i, j \in LiveSet(Now) : sni[i].uid = sni[j].uid => i = j
  BY <1>1, <1>2 DEF Paired
<1>4. ASSUME NEW i \in DOMAIN tray, NEW j \in DOMAIN tray, sni[tray[i].i].uid = sni[tray[j].i].uid PROVE i = j
  BY <1>3, <1>4
<1>5. ASSUME Quiet, Served
      PROVE  /\ inbox = <<>> /\ ToSet(inbox) = {} /\ invalid = FALSE /\ (owner # Bar \/ Calm)
             /\ \A a \in Apps : asked[a] = <<>> /\ (a \in alive => owner # Nobody /\ reg[a] = epoch)
  <2>1. inbox = <<>> /\ invalid = FALSE
    BY <1>2, <1>5 DEF Quiet
  <2>2. ToSet(inbox) = {}
    BY <2>1, InNone
  <2>3. regid \in BOOLEAN /\ Other # Bar
    BY <1>1 DEF Types, BusTypes, Other, Bar
  <2>4. owner # Bar \/ Calm
    BY <1>5, <2>2, <2>3 DEF Served, Calm
  <2>5. \A a \in Apps : asked[a] = <<>> /\ (a \in alive => owner # Nobody /\ reg[a] = epoch)
    BY <1>5 DEF Quiet, Up
  <2> QED BY <2>1, <2>2, <2>4, <2>5
<1>6. ASSUME Quiet, Served, NEW a \in Apps, Up(a)
      PROVE  \E j \in DOMAIN tray : sni[tray[j].i].uid = a /\ tray[j].shown = View(prop[a])
  <2>1. /\ a \in alive /\ owner # Nobody /\ reg[a] = epoch /\ owner \in {Bar, Other, Nobody}
        /\ ToSet(inbox) = {} /\ (owner # Bar \/ Calm) /\ invalid = FALSE
    BY <1>1, <1>5, <1>6 DEF Up, Types, BusTypes
  <2>2. a \in theirs \cup watched
    BY <2>1 DEF Registry, Era, Enrolled
  <2>3. Owned(sni, a)
    <3>1. Announced(sni, inbox, watched, a)
      BY <2>1, <2>2 DEF Registry, Era, Listed
    <3> QED BY <2>1, <3>1 DEF Announced
  <2>4. PICK i \in LiveSet(Now) : sni[i].uid = a
    BY <1>2, <2>3 DEF Owned, LiveSet
  <2>5. PICK j \in DOMAIN tray : tray[j].i = i
    BY <1>3
  <2>6. tray[j].shown = View(sni[i].values)
    <3>1. tray[j].invalid \in BOOLEAN
      <4>1. Now \in States /\ j \in DOMAIN Now.tray
        BY <1>1, <1>2, NowFields
      <4>2. Now.tray[j].invalid \in BOOLEAN
        BY <1>1, <4>1, IconFields
      <4> QED BY <1>2, <4>2
    <3>2. tray[j].invalid = FALSE
      BY <1>2, <2>1, <3>1 DEF Registry, Drawn, ToDraw
    <3> QED BY <1>2, <2>5, <3>2 DEF Registry, Drawn, Shown
  <2>7. ASSUME NEW p \in Named PROVE sni[i].values[p] = prop[a][p]
    <3>1. Renewed(inbox, asked[a], i, p, a, prop[a][p], sni[i].values[p])
      BY <1>1, <2>1, <2>4, RenewedNow DEF Registry
    <3>2. ToSet(asked[a]) = {}
      BY <1>5, <1>6, InNone
    <3>3. ~ToldOf(inbox, a, p) /\ ~AskedOf(asked[a], i, p)
      BY <2>1, <3>2 DEF ToldOf, AskedOf
    <3>4. ~Sealed(inbox, AnswersTo(i, p), Right(i, p, prop[a][p]))
      BY <2>1, SealedIn
    <3> QED BY <3>1, <3>3, <3>4 DEF Renewed
  <2>8. View(sni[i].values) = View(prop[a])
    <3>1. PICK v, w : v = sni[i].values /\ w = prop[a]
      OBVIOUS
    <3>2. v["Title"] = w["Title"] /\ v["Status"] = w["Status"] /\ v["Icon"] = w["Icon"] /\ v["Attention"] = w["Attention"]
      BY <2>7, <3>1 DEF Named
    <3> QED BY <3>1, <3>2 DEF View
  <2> QED BY <2>4, <2>5, <2>6, <2>8
<1>7. ASSUME Quiet, Served, NEW j \in DOMAIN tray PROVE Up(sni[tray[j].i].uid) \/ sni[tray[j].i].uid \in missed
  <2>1. tray[j].i \in LiveSet(Now) /\ tray[j].i \in DOMAIN sni /\ sni[tray[j].i].live = TRUE
    BY <1>2, <1>3 DEF LiveSet
  <2>2. PICK a \in Apps : a = sni[tray[j].i].uid
    BY <1>1, <2>1, SniFields
  <2>3. Owned(sni, a)
    BY <2>1, <2>2 DEF Owned
  <2>4. ToSet(inbox) = {} /\ (owner # Bar \/ Calm)
    BY <1>5, <1>7
  <2> SUFFICES ASSUME a \notin alive, a \notin missed PROVE FALSE
    BY <2>2 DEF Up
  <2>5. Parted(sni, inbox, watched, a)
    BY <2>4 DEF Registry, Era, Absent
  <2>6. ~Sealed(inbox, Sources(a), {Unregistered(a)})
    BY <2>4, SealedIn
  <2>7. a \in watched
    BY <2>3, <2>4, <2>5, <2>6 DEF Parted
  <2>8. Gone(a) \in ToSet(inbox)
    BY <2>7 DEF Registry, Era, Deaths
  <2> QED BY <2>4, <2>8
<1> QED BY <1>4, <1>6, <1>7, Zenon DEF TrayShowsItems

\* There are never two icons of one application; once everything is delivered and there
\* is a watcher, each application has its icon, which shows its properties, and none is
\* left of one that quit while it was watched.
THEOREM IconsShowItems == Spec => []TrayShowsItems
<1>1. Init => Base /\ Registry
  BY InitBase, InitRegistry
<1>2. Base /\ Registry /\ [Next]_vars => Base' /\ Registry'
  BY NextBase, NextRegistry
<1>3. Base /\ Registry => TrayShowsItems
  BY IconsShow
<1> QED BY <1>1, <1>2, <1>3, PTL DEF Spec
=============================================================================
