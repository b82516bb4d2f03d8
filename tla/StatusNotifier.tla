---------------------------- MODULE StatusNotifier ----------------------------
(* The tray: src/sni.c, src/sniitem.c, src/snimenu.c, src/gui/tray.c and     *)
(* src/gui/trayitem.c.  The bar is a StatusNotifierHost, and becomes the     *)
(* StatusNotifierWatcher when nobody is; applications register with whoever  *)
(* owns the watcher's name.  The session bus delivers to the bar in the      *)
(* order in which it took the messages; the bar handles them one by one.     *)
EXTENDS Integers, SequencesExt, FiniteSets

CONSTANTS Apps,        \* applications with a tray item, and their bus names
          Props,       \* the properties of an item
          Values,      \* what they may be
          InitProps,   \* what every application has in them at first
          Changing,    \* the properties that change
          Flip(_, _),  \* the other value of one
          Layouts,     \* the layouts of a menu, the first one in front
          MaxChanges   \* bound: how often applications change and menus are opened

Named == {"Title", "Status", "Icon", "Attention"}
ASSUME PropsAssumption ==
  /\ IsFiniteSet(Apps) /\ IsFiniteSet(Props) /\ Named \subseteq Props /\ Changing \subseteq Named
  /\ InitProps \in [Props -> Values] /\ \A p \in Changing, v \in Values : Flip(p, v) \in Values
  /\ MaxChanges \in Nat

\* A layout is what the top level of a menu holds and what its one submenu holds; it
\* gives each item an id of its own.
Entries == [id : Nat, label : STRING]
OwnIds(level) == \A i, j \in DOMAIN level : level[i].id = level[j].id => i = j
ASSUME LayoutsAssumption ==
  /\ Layouts \in Seq([root : Seq(Entries), sub : Seq(Entries)]) /\ Layouts # <<>>
  /\ \A n \in DOMAIN Layouts : OwnIds(Layouts[n].root) /\ OwnIds(Layouts[n].sub)

VARIABLES
  \* the session bus and its other clients
  owner,    \* of the watcher's name: the bar, another bar or nobody
  queued,   \* does the bar wait for the name
  epoch,    \* how often the name has changed hands
  other,    \* the other bar: "out", "in", "gone"
  theirs,   \* the items that are registered with the other bar
  alive,    \* the applications that run
  reg,      \* the owner's epoch when the application registered
  prop,     \* what the applications' properties are
  layout,   \* what their menus are
  asked,    \* calls of the bar that an application has not answered yet
  inbox,    \* what is on its way to the bar
  changes,
  \* the bar
  regid,    \* is the watcher's object registered: watcher->regid
  watched,  \* watcher->items
  subs,     \* how often the host has subscribed to the watcher's signals
  sni,      \* every item that was ever made, sni_items
  tray,     \* the children of the tray's grid
  invalid,  \* priv->invalid of the grid
  \* history
  missed    \* applications that quit when no watcher watched them

busVars == <<owner, queued, epoch, other, theirs, reg, prop, layout, alive, changes, missed>>
vars == <<busVars, asked, inbox, regid, watched, subs, sni, tray, invalid>>

Bar == "bar"
Other == "other"
Nobody == "nobody"
Unset == ""
Failed == <<>>

Msg(k, a) == [k |-> k, a |-> a]
List(uids) == [k |-> "list", uids |-> uids]
PropReply(i, ps, values) == [k |-> "prop", i |-> i, ps |-> ps, values |-> values]
LayoutReply(i, node, got) == [k |-> "layout", i |-> i, node |-> node, layout |-> got]
AboutReply(i, node, refresh) == [k |-> "about to show", i |-> i, node |-> node, refresh |-> refresh]

Live(i) == i \in DOMAIN sni /\ sni[i].live
\* host->items
HostItems == {i \in DOMAIN sni : sni[i].live}

Up(a) == a \in alive

\* The elements of a sequence that are in S
Those(s, S) ==
  LET those[n \in 0..Len(s)] ==
        IF n = 0 THEN <<>> ELSE IF s[n] \in S THEN Append(those[n - 1], s[n]) ELSE those[n - 1]
  IN  those[Len(s)]

----------------------------------------------------------------------------
(* The menu of a tray item (src/snimenu.c): a copy of the application's      *)
(* com.canonical.dbusmenu layout, kept by item ids; the widgets of a level   *)
(* are in the order the user sees.                                           *)

NoMenu == [there |-> FALSE, rev |-> 0, root |-> <<>>, sub |-> <<>>,
           suppress |-> FALSE, timed |-> FALSE, lost |-> FALSE]

\* sni_menu_init, but for its calls
NewMenu == [NoMenu EXCEPT !.there = TRUE]

\* menu_item_insert: before the first widget whose id is not smaller
Insert(children, item) ==
  LET at == SelectInSeq(children, LAMBDA c : c.id >= item.id)
  IN  IF at = 0 THEN Append(children, item) ELSE InsertAt(children, at, item)

IdsOf(level) == {item.id : item \in ToSet(level)}
Among(level, ids) == Those(level, {item \in ToSet(level) : item.id \in ids})
LabelOf(level, id) == (CHOOSE item \in ToSet(level) : item.id = id).label

\* Faulty variant of Reconcile: widgets without an item stay
ReconcileKeeps(children, level) ==
  LET updated == [i \in DOMAIN children |->
                    IF children[i].id \in IdsOf(level)
                    THEN [children[i] EXCEPT !.label = LabelOf(level, children[i].id)] ELSE children[i]]
      new == Among(level, IdsOf(level) \ IdsOf(children))
  IN  FoldLeft(Insert, updated, new)

\* sni_menu_parse: widgets of known ids take the new labels, new ones are
\* inserted by id, those that are not in the layout any more are destroyed
Reconcile(children, level) ==
  LET kept == Among(children, IdsOf(level))
      updated == [i \in DOMAIN kept |-> [kept[i] EXCEPT !.label = LabelOf(level, kept[i].id)]]
      new == Among(level, IdsOf(level) \ IdsOf(children))
  IN  FoldLeft(Insert, updated, new)

\* sni_menu_get_layout_cb.  sni_menu_item_find looks for a submenu below a menu
\* as if it were an item and finds none: the layout of a submenu goes nowhere,
\* but its revision is taken.
ApplyLayout(menu, node, got) ==
  LET newer == got.rev = 0 \/ got.rev > menu.rev
      timed == [menu EXCEPT !.timed = TRUE]
  IN  IF ~newer THEN timed
      ELSE IF node = "sub" THEN [timed EXCEPT !.rev = got.rev, !.lost = TRUE]
      ELSE [timed EXCEPT !.rev = got.rev, !.lost = FALSE,
                         !.root = Reconcile(@, got.root), !.sub = Reconcile(@, got.sub)]

\* sni_menu_layout_updated_cb, but for its call
Suppressed(menu) == [menu EXCEPT !.suppress = TRUE]

\* sni_menu_cancel_ats_suppression
SuppressionOver(menu) == [menu EXCEPT !.suppress = FALSE]

\* Does the menu show the layout: the items it holds, whatever their order
ShowsLayout(menu, got) ==
  /\ ToSet(menu.root) = ToSet(got.root)
  /\ ToSet(menu.sub) = ToSet(got.sub)

----------------------------------------------------------------------------
(* Sending: what the bus does with a call or a signal *)

\* A call to an item is answered by its application, or fails at once
Call(box, calls, a, request) ==
  IF Up(a) THEN [box |-> box, calls |-> [calls EXCEPT ![a] = Append(@, request)]]
  ELSE [box |-> IF request.k = "get" THEN Append(box, PropReply(request.i, request.ps, Failed))
                ELSE box,
        calls |-> calls]

\* A signal of the watcher reaches the host as soon as it has subscribed
Signal(box, k, a) == IF subs > 0 THEN Append(box, Msg(k, a)) ELSE box

Get(i, ps) == [k |-> "get", i |-> i, ps |-> ps]
\* A call about a menu or its submenu: "root", "sub"
MenuCall(k, i, node) == [k |-> k, i |-> i, node |-> node]

\* sni_item_get_prop of each of a handler's properties: a call for each, which
\* are answered together
GetProps(box, calls, i, a, ps) == Call(box, calls, a, Get(i, ps))

----------------------------------------------------------------------------
(* Items: src/sniitem.c *)

View(values) ==
  [tip |-> values["Title"],
   icon |-> CASE values["Status"] = Unset -> Unset
              [] values["Status"] = "NeedsAttention" -> values["Attention"]
              [] OTHER -> values["Icon"],
   attention |-> values["Status"] = "NeedsAttention"]

NewItem(a) == [uid |-> a, live |-> TRUE, ref |-> Cardinality(Props),
               values |-> [p \in Props |-> Unset], menu |-> NoMenu]
Child(i) == [i |-> i, invalid |-> TRUE, shown |-> View([p \in Props |-> Unset])]

\* What a handler changes of the bar's items, of the messages on their way to
\* the bar and of the calls on theirs
Items(box) == [sni |-> sni, tray |-> tray, invalid |-> invalid, box |-> box, calls |-> asked]
Becomes(handled) ==
  \E s \in {handled} :
    sni' = s.sni /\ tray' = s.tray /\ invalid' = s.invalid /\ inbox' = s.box /\ asked' = s.calls

Known(s, a) == \E i \in DOMAIN s.sni : s.sni[i].live /\ s.sni[i].uid = a

\* sni_host_item_new, sni_item_new: a child of the tray, every property asked for
ItemNew(s, a) ==
  LET i == Len(s.sni) + 1
      sent == GetProps(s.box, s.calls, i, a, Props)
  IN  IF Known(s, a) THEN s
      ELSE [sni |-> Append(s.sni, NewItem(a)), tray |-> Append(s.tray, Child(i)), invalid |-> TRUE,
            box |-> sent.box, calls |-> sent.calls]

ChildrenOf(s, i) == {j \in DOMAIN s.tray : s.tray[j].i = i}
FirstOf(js) == CHOOSE j \in js : \A k \in js : j <= k

\* tray_invalidate_item: the first child of the item
InvalidateItem(s, i) ==
  IF ChildrenOf(s, i) = {} THEN s
  ELSE [s EXCEPT !.tray[FirstOf(ChildrenOf(s, i))].invalid = TRUE, !.invalid = TRUE]

\* tray_destroy_item
DestroyChild(s, i) ==
  IF ChildrenOf(s, i) = {} THEN s
  ELSE [s EXCEPT !.tray = RemoveAt(@, FirstOf(ChildrenOf(s, i))), !.invalid = TRUE]

\* Faulty variant of ItemFree: the tray is not told
ItemFreeSilent(s, i) == [s EXCEPT !.sni[i].live = FALSE, !.sni[i].menu = NoMenu]

\* sni_item_free: the item stays in sni_items
ItemFree(s, i) == [DestroyChild(s, i) EXCEPT !.sni[i].live = FALSE, !.sni[i].menu = NoMenu]

\* sni_menu_init
MenuInit(s, i) ==
  LET sent == Call(s.box, s.calls, s.sni[i].uid, MenuCall("layout", i, "root"))
  IN  [s EXCEPT !.sni[i].menu = NewMenu, !.box = sent.box, !.calls = sent.calls]

\* sni_item_prop_cb, for each of the properties
PropsStored(s, i, ps, values) ==
  LET counted == [s EXCEPT !.sni[i].ref = @ - Cardinality(ps)]
      stored == [counted EXCEPT !.sni[i].values = [p \in Props |-> IF p \in ps THEN values[p] ELSE @[p]]]
  IN  IF values = Failed THEN counted
      ELSE InvalidateItem(IF "Menu" \in ps THEN MenuInit(stored, i) ELSE stored, i)

\* sni_item_signal_cb: the properties to read again
PropsOf(s) ==
  CASE s = "NewTitle" -> {"Title"}
    [] s = "NewStatus" -> {"Status"}
    [] s = "NewIcon" -> {"Icon"}
    [] s = "NewAttentionIcon" -> {"Attention"}

----------------------------------------------------------------------------
(* The bar's handlers, one for each kind of message *)

Incoming(k) == inbox # <<>> /\ Head(inbox).k = k
M == Head(inbox)
Rest == Tail(inbox)

Untouched == UNCHANGED busVars
ItemsUntouched == UNCHANGED <<sni, tray, invalid, asked>>

\* sni_watcher_register_cb, nobody owns the name: the object and the name.  The
\* bus grants the name, puts the bar into the queue or answers that the name is
\* its own already, which GLib reports as the loss of the name.
WatcherVanished ==
  /\ Incoming("vanished")
  /\ regid' = TRUE
  /\ IF owner = Nobody
     THEN /\ owner' = Bar /\ epoch' = epoch + 1
          /\ inbox' = Append(Rest, Msg("appeared", Nobody))
          /\ UNCHANGED queued
     ELSE /\ queued' = (queued \/ owner = Other)
          /\ inbox' = Append(Rest, Msg("name lost", Nobody))
          /\ UNCHANGED <<owner, epoch>>
  /\ UNCHANGED <<other, theirs, reg, prop, layout, alive, changes, missed, watched, subs>>
  /\ ItemsUntouched

\* sni_watcher_unregister_cb.  The list is freed and the pointer to it kept; nothing
\* looks at it before the bar has an object again, and none does then: the list is
\* taken to be empty
NameLost ==
  /\ Incoming("name lost")
  /\ regid' = FALSE /\ watched' = {}
  /\ inbox' = Rest
  /\ UNCHANGED subs /\ Untouched /\ ItemsUntouched

\* Faulty variant of WatcherAppeared: the registered items are not asked for
WatcherAppearedNoList ==
  /\ Incoming("appeared")
  /\ subs' = subs + 1
  /\ inbox' = Rest
  /\ UNCHANGED <<regid, watched>> /\ Untouched /\ ItemsUntouched

\* sni_host_register_cb, somebody owns the name: subscribe, ask for the items
WatcherAppeared ==
  /\ Incoming("appeared")
  /\ subs' = subs + 1
  /\ inbox' = CASE owner = Other -> Append(Rest, List(theirs))
                [] owner = Bar -> Append(Rest, Msg("get list", Nobody))
                [] OTHER -> Rest
  /\ UNCHANGED <<regid, watched>> /\ Untouched /\ ItemsUntouched

\* sni_watcher_method: without the object the call fails
Registers ==
  /\ Incoming("register")
  /\ IF regid /\ M.a \notin watched
     THEN /\ watched' = watched \cup {M.a}
          /\ LET told == Signal(Rest, "registered", M.a)
             IN  inbox' = IF Up(M.a) THEN told ELSE Append(told, Msg("gone", M.a))
     ELSE UNCHANGED watched /\ inbox' = Rest
  /\ UNCHANGED <<regid, subs>> /\ Untouched /\ ItemsUntouched

\* sni_watcher_get_prop
GetsList ==
  /\ Incoming("get list")
  /\ inbox' = IF regid THEN Append(Rest, List(watched)) ELSE Rest
  /\ UNCHANGED <<regid, watched, subs>> /\ Untouched /\ ItemsUntouched

\* Faulty variant of ItemGone: the host's item goes with the watcher's
ItemGoneAtOnce ==
  /\ Incoming("gone")
  /\ watched' = watched \ {M.a}
  /\ Becomes(LET of == {i \in HostItems : sni[i].uid = M.a}
             IN  IF of = {} THEN Items(Rest) ELSE ItemFree(Items(Rest), FirstOf(of)))
  /\ UNCHANGED <<regid, subs>> /\ Untouched

\* sni_watcher_item_lost_cb
ItemGone ==
  /\ Incoming("gone")
  /\ watched' = watched \ {M.a}
  /\ inbox' = IF M.a \in watched THEN Signal(Rest, "unregistered", M.a) ELSE Rest
  /\ UNCHANGED <<regid, subs>> /\ Untouched /\ ItemsUntouched

\* sni_host_list_cb
HostList ==
  /\ Incoming("list")
  /\ Becomes(FoldLeft(ItemNew, Items(Rest), SetToSeq(M.uids)))
  /\ UNCHANGED <<regid, watched, subs>> /\ Untouched

\* sni_host_item_registered_cb, once for every subscription
HostItemRegistered ==
  /\ Incoming("registered")
  /\ Becomes(ItemNew(Items(Rest), M.a))
  /\ UNCHANGED <<regid, watched, subs>> /\ Untouched

\* sni_host_item_unregistered_cb, once for every subscription
HostItemUnregistered ==
  /\ Incoming("unregistered")
  /\ Becomes(LET of == {i \in HostItems : sni[i].uid = M.a}
             IN  IF of = {} THEN Items(Rest) ELSE ItemFree(Items(Rest), FirstOf(of)))
  /\ UNCHANGED <<regid, watched, subs>> /\ Untouched

\* sni_item_prop_cb of an item that is freed writes to freed memory; what the
\* model leaves out is what that may do
ItemProp ==
  /\ Incoming("prop")
  /\ Becomes(IF Live(M.i) THEN PropsStored(Items(Rest), M.i, M.ps, M.values) ELSE Items(Rest))
  /\ UNCHANGED <<regid, watched, subs>> /\ Untouched

\* sni_item_signal_cb, while the item is subscribed to them
ItemSignal ==
  /\ Incoming("signal")
  /\ LET of == {i \in HostItems : sni[i].uid = M.a}
         ask(s, i) == LET sent == GetProps(s.box, s.calls, i, M.a, PropsOf(M.s))
                      IN  [s EXCEPT !.sni[i].ref = @ + Cardinality(PropsOf(M.s)),
                                    !.box = sent.box, !.calls = sent.calls]
     IN  Becomes(IF of = {} THEN Items(Rest) ELSE ask(Items(Rest), FirstOf(of)))
  /\ UNCHANGED <<regid, watched, subs>> /\ Untouched

\* sni_menu_layout_updated_cb
MenuLayoutUpdated ==
  /\ Incoming("layout updated")
  /\ LET of == {i \in HostItems : sni[i].uid = M.a /\ sni[i].menu.there}
         ask(s, i) == LET sent == Call(s.box, s.calls, M.a, MenuCall("layout", i, "root"))
                      IN  [s EXCEPT !.sni[i].menu = Suppressed(@), !.box = sent.box,
                                    !.calls = sent.calls]
     IN  Becomes(IF of = {} THEN Items(Rest) ELSE ask(Items(Rest), FirstOf(of)))
  /\ UNCHANGED <<regid, watched, subs>> /\ Untouched

\* sni_menu_get_layout_cb
MenuLayout ==
  /\ Incoming("layout")
  /\ Becomes(IF Live(M.i) /\ sni[M.i].menu.there
             THEN [Items(Rest) EXCEPT !.sni[M.i].menu = ApplyLayout(@, M.node, M.layout)] ELSE Items(Rest))
  /\ UNCHANGED <<regid, watched, subs>> /\ Untouched

\* Faulty variant of MenuAboutToShow: it is announced again, not fetched
MenuAboutToShowAgain ==
  /\ Incoming("about to show")
  /\ LET sent == Call(Rest, asked, sni[M.i].uid, MenuCall("about to show", M.i, M.node))
     IN  Becomes(IF M.refresh /\ Live(M.i) THEN [Items(Rest) EXCEPT !.box = sent.box, !.calls = sent.calls]
                 ELSE Items(Rest))
  /\ UNCHANGED <<regid, watched, subs>> /\ Untouched

\* sni_menu_about_to_show_cb
MenuAboutToShow ==
  /\ Incoming("about to show")
  /\ LET sent == Call(Rest, asked, sni[M.i].uid, MenuCall("layout", M.i, M.node))
     IN  Becomes(IF M.refresh /\ Live(M.i) THEN [Items(Rest) EXCEPT !.box = sent.box, !.calls = sent.calls]
                 ELSE Items(Rest))
  /\ UNCHANGED <<regid, watched, subs>> /\ Untouched

\* sni_menu_map_cb
UserOpens(i, node) ==
  /\ Live(i) /\ sni[i].menu.there /\ ~sni[i].menu.suppress
  /\ changes < MaxChanges /\ changes' = changes + 1
  /\ LET sent == Call(inbox, asked, sni[i].uid, MenuCall("about to show", i, node))
     IN  inbox' = sent.box /\ asked' = sent.calls
  /\ UNCHANGED <<owner, queued, epoch, other, theirs, reg, prop, layout, alive, missed,
                 regid, watched, subs, sni, tray, invalid>>

\* sni_menu_cancel_ats_suppression, a second after any of the layouts
SuppressionEnds(i) ==
  /\ Live(i) /\ sni[i].menu.suppress /\ sni[i].menu.timed
  /\ sni' = [sni EXCEPT ![i].menu = SuppressionOver(@)]
  /\ UNCHANGED <<inbox, asked, tray, invalid, regid, watched, subs>> /\ Untouched

\* flow_grid_update, tray_item_update
TrayUpdate ==
  /\ invalid
  /\ invalid' = FALSE
  /\ tray' = [j \in DOMAIN tray |-> IF tray[j].invalid
                THEN [tray[j] EXCEPT !.invalid = FALSE, !.shown = View(sni[tray[j].i].values)] ELSE tray[j]]
  /\ UNCHANGED <<inbox, asked, sni, regid, watched, subs>> /\ Untouched

Dispatch ==
  \/ WatcherVanished \/ NameLost \/ WatcherAppeared
  \/ Registers \/ GetsList \/ ItemGone
  \/ HostList \/ HostItemRegistered \/ HostItemUnregistered
  \/ ItemProp \/ ItemSignal
  \/ MenuLayoutUpdated \/ MenuLayout \/ MenuAboutToShow

----------------------------------------------------------------------------
(* Everybody else: the applications, the other bar, the bus *)

barVars == <<regid, watched, subs, sni, tray, invalid>>

\* An application registers, sooner or later, with whoever has come to own the
\* name; one that is started later is one that registers later
AppRegisters(a) ==
  /\ Up(a) /\ owner # Nobody /\ reg[a] # epoch
  /\ reg' = [reg EXCEPT ![a] = epoch]
  /\ IF owner = Other
     THEN theirs' = theirs \cup {a} /\ inbox' = Signal(inbox, "registered", a)
     ELSE inbox' = Append(inbox, Msg("register", a)) /\ UNCHANGED theirs
  /\ UNCHANGED <<owner, queued, epoch, other, alive, prop, layout, changes, missed, asked>>
  /\ UNCHANGED barVars

\* Its watcher is told, then its unanswered calls fail.  The other bar's signal
\* comes after that.
AppQuits(a) ==
  /\ Up(a) /\ alive' = alive \ {a}
  /\ LET told == IF a \in watched THEN Append(inbox, Msg("gone", a)) ELSE inbox
         gets == Those(asked[a], {r \in ToSet(asked[a]) : r.k = "get"})
         failed == told \o [j \in DOMAIN gets |-> PropReply(gets[j].i, gets[j].ps, Failed)]
     IN  inbox' = IF a \in theirs THEN Signal(failed, "unregistered", a) ELSE failed
  /\ asked' = [asked EXCEPT ![a] = <<>>]
  /\ theirs' = theirs \ {a}
  /\ missed' = IF owner # Nobody /\ reg[a] = epoch THEN missed ELSE missed \cup {a}
  /\ UNCHANGED <<owner, queued, epoch, other, reg, prop, layout, changes>>
  /\ UNCHANGED barVars

SignalOf == [Title |-> "NewTitle", Status |-> "NewStatus", Icon |-> "NewIcon",
             Attention |-> "NewAttentionIcon"]

AppChanges(a, p) ==
  /\ Up(a) /\ changes < MaxChanges /\ changes' = changes + 1
  /\ prop' = [prop EXCEPT ![a][p] = Flip(p, @)]
  /\ inbox' = Append(inbox, [k |-> "signal", a |-> a, s |-> SignalOf[p]])
  /\ UNCHANGED <<owner, queued, epoch, other, theirs, alive, reg, layout, missed, asked>>
  /\ UNCHANGED barVars

AppChangesMenu(a, l) ==
  /\ Up(a) /\ changes < MaxChanges /\ changes' = changes + 1
  /\ l.root # layout[a].root \/ l.sub # layout[a].sub
  /\ layout' = [layout EXCEPT ![a] = [rev |-> @.rev + 1, root |-> l.root, sub |-> l.sub]]
  /\ inbox' = IF \E i \in HostItems : sni[i].uid = a /\ sni[i].menu.there
              THEN Append(inbox, Msg("layout updated", a)) ELSE inbox
  /\ UNCHANGED <<owner, queued, epoch, other, theirs, alive, reg, prop, missed, asked>>
  /\ UNCHANGED barVars

Reply(a, r, refresh) ==
  CASE r.k = "get" -> PropReply(r.i, r.ps, prop[a])
    [] r.k = "layout" -> LayoutReply(r.i, r.node, layout[a])
    [] r.k = "about to show" -> AboutReply(r.i, r.node, refresh)

\* An application answers the calls it has got; nothing that could come between
\* two answers makes a difference to either
AppAnswers(a, refresh) ==
  /\ asked[a] # <<>>
  /\ inbox' = inbox \o [j \in DOMAIN asked[a] |-> Reply(a, asked[a][j], refresh)]
  /\ asked' = [asked EXCEPT ![a] = <<>>]
  /\ UNCHANGED busVars /\ UNCHANGED barVars

OtherClaims ==
  /\ other = "out" /\ owner = Nobody
  /\ other' = "in" /\ owner' = Other /\ epoch' = epoch + 1
  /\ inbox' = Append(inbox, Msg("appeared", Nobody))
  /\ UNCHANGED <<queued, theirs, alive, reg, prop, layout, changes, missed, asked>>
  /\ UNCHANGED barVars

\* The name goes to the bar if it is in the queue
OtherQuits ==
  /\ other = "in" /\ other' = "gone"
  /\ theirs' = {}
  /\ IF queued
     THEN /\ owner' = Bar /\ epoch' = epoch + 1 /\ queued' = FALSE
          /\ inbox' = inbox \o <<Msg("vanished", Nobody), Msg("appeared", Nobody)>>
     ELSE /\ owner' = Nobody
          /\ inbox' = Append(inbox, Msg("vanished", Nobody))
          /\ UNCHANGED <<queued, epoch>>
  /\ UNCHANGED <<alive, reg, prop, layout, changes, missed, asked>>
  /\ UNCHANGED barVars

----------------------------------------------------------------------------

Init ==
  /\ other \in {"out", "in"}
  /\ owner = IF other = "in" THEN Other ELSE Nobody
  /\ epoch = IF other = "in" THEN 1 ELSE 0
  /\ queued = FALSE /\ theirs = {}
  /\ alive = Apps /\ reg = [a \in Apps |-> 0]
  /\ prop = [a \in Apps |-> InitProps]
  /\ layout = [a \in Apps |-> [rev |-> 1, root |-> Head(Layouts).root, sub |-> Head(Layouts).sub]]
  /\ asked = [a \in Apps |-> <<>>]
  \* sni_register: the watch of the name reports at once
  /\ inbox = <<Msg(IF other = "in" THEN "appeared" ELSE "vanished", Nobody)>>
  /\ changes = 0 /\ missed = {}
  /\ regid = FALSE /\ watched = {} /\ subs = 0
  /\ sni = <<>> /\ tray = <<>> /\ invalid = FALSE

Next ==
  \/ Dispatch \/ TrayUpdate
  \/ \E i \in DOMAIN sni : SuppressionEnds(i) \/ \E node \in {"root", "sub"} : UserOpens(i, node)
  \/ \E a \in Apps :
       \/ AppRegisters(a) \/ AppQuits(a)
       \/ \E p \in Changing : AppChanges(a, p)
       \/ \E l \in ToSet(Layouts) : AppChangesMenu(a, l)
       \/ \E refresh \in BOOLEAN : AppAnswers(a, refresh)
  \/ OtherClaims \/ OtherQuits

Spec == Init /\ [][Next]_vars

\* The main loop dispatches and its timer runs, the applications register and
\* answer; nobody has to change anything.
Fairness ==
  /\ WF_vars(Dispatch) /\ WF_vars(TrayUpdate)
  /\ \A a \in Apps : WF_vars(AppRegisters(a)) /\ WF_vars(\E refresh \in BOOLEAN : AppAnswers(a, refresh))
FairSpec == Spec /\ Fairness

----------------------------------------------------------------------------
(* Properties *)

\* Each child of the tray and each live item has its partner, replies are
\* counted, and the rest is of its type.
TypeOK ==
  /\ owner \in {Bar, Other, Nobody} /\ {regid, invalid, queued} \subseteq BOOLEAN
  /\ watched \subseteq Apps /\ theirs \subseteq Apps /\ subs \in Nat
  /\ {tray[j].i : j \in DOMAIN tray} = HostItems
  /\ \A i \in HostItems : sni[i].ref >= 0 /\ (sni[i].menu.rev > 0 => sni[i].menu.timed)

Quiet ==
  /\ inbox = <<>> /\ ~invalid
  /\ \A a \in Apps : asked[a] = <<>> /\ (Up(a) => owner # Nobody /\ reg[a] = epoch)

\* Is there a watcher that can be called
Served == owner = Other \/ (owner = Bar /\ regid)

\* doc/sfwbar.rst, tray: "displaying a list of tray icons received via status
\* notifier item protocol".  Once everything is delivered each application has
\* an icon, which shows its properties, and there is none of an application
\* that is gone, unless it quit while no watcher watched it; the list that is
\* asked for, the signals and the second subscription of a host whose watcher
\* changed never make two icons of one.
TrayShowsItems ==
  /\ \A i, j \in DOMAIN tray : sni[tray[i].i].uid = sni[tray[j].i].uid => i = j
  /\ Quiet /\ Served =>
       /\ \A a \in Apps : Up(a) =>
            \E j \in DOMAIN tray : sni[tray[j].i].uid = a /\ tray[j].shown = View(prop[a])
       /\ \A j \in DOMAIN tray : Up(sni[tray[j].i].uid) \/ sni[tray[j].i].uid \in missed

\* A reply finds its item: an item whose application quit is freed after the
\* last of its calls has failed, as long as there has been no other bar.
Pending(i) == {n \in DOMAIN inbox : inbox[n].k = "prop" /\ inbox[n].i = i}
Total(counts) ==
  LET total[n \in 0..Len(counts)] == IF n = 0 THEN 0 ELSE total[n - 1] + counts[n] IN total[Len(counts)]
\* Of how many properties of i are the messages
Counted(msgs, k, i) ==
  Total([n \in DOMAIN msgs |-> IF msgs[n].k = k /\ msgs[n].i = i THEN Cardinality(msgs[n].ps) ELSE 0])
RepliesBeforeFree ==
  \A i \in DOMAIN sni :
    /\ Live(i) => sni[i].ref = Counted(inbox, "prop", i) + Counted(asked[sni[i].uid], "get", i)
    /\ ~Live(i) /\ other = "out" => Pending(i) = {}

\* Once everything is delivered a menu shows its application's layout, unless
\* the revision was last taken from a submenu's layout, which is shown nowhere.
MenuShowsLayout ==
  Quiet => \A i \in HostItems :
    Up(sni[i].uid) /\ sni[i].menu.there /\ ~sni[i].menu.lost =>
      ShowsLayout(sni[i].menu, layout[sni[i].uid])

\* The calls and the signals die out: what is asked again because of a signal
\* or an answer causes nothing new.
Settles == <>[](inbox = <<>> /\ ~invalid /\ \A a \in Apps : asked[a] = <<>>)
=============================================================================
