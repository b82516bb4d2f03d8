------------------------------- MODULE Driver -------------------------------
(***************************************************************************)
(* What the compositors' drivers (src/src/ipc/*.c) have in common: the     *)
(* bar's workspace table and window list follow a compositor that changes  *)
(* on its own, over a connection that keeps the order of what is said.     *)
(* One driver runs at a time (who): the inits of sfwbar.c try each in turn *)
(* and stop at the first that finds its compositor.                        *)
(*                                                                         *)
(* A driver's module gives the steps of its init, the translation of what  *)
(* the compositor does into the words of its protocol, the handler of      *)
(* these, and the commands that the bar sends.                             *)
(***************************************************************************)
EXTENDS Wintree

CONSTANTS
  Who,         \* the compositors that may be there
  InitNames,   \* the names of the workspaces that exist when the bar starts,
               \* the focused one first
  InitAt,      \* the workspaces of the windows that are open by then
  Number,      \* the names that workspaces may have (the others are of pins only),
               \* each with its number, where compositors number them
  PagerConf,   \* for each compositor and pager, the "pins" list of its configuration
  Disown,      \* the DisownMinimized setting
  MaxSteps,    \* bound on what the user does
  MaxAsked     \* bound on how much of that is asked of the bar

ASSUME ConfAssumption == \A k \in Who : PagerConf[k] \in [Pagers -> Seq(Names)]
ASSUME DriverIdsAssumption == Ids \subseteq Nat \ {0} /\ Wins \subseteq Nat
ASSUME InitAssumption ==
  /\ InitNames \in Seq(Names) /\ Len(InitNames) \in Ids
  /\ DOMAIN InitAt \subseteq Wins /\ Range(InitAt) \subseteq DOMAIN InitNames
  /\ \A i \in DOMAIN InitNames : i # 1 => i \in Range(InitAt)
  /\ DOMAIN Number \subseteq Names /\ Number \in [DOMAIN Number -> Ids] /\ IsInjective(Number)
  /\ \A i \in DOMAIN InitNames : InitNames[i] \in DOMAIN Number /\ Number[InitNames[i]] = i

----------------------------------------------------------------------------
(* What the drivers rely on of the compositors, which are not part of the   *)
(* repository: workspaces, windows, what the user and the bar's commands do *)
(* to them, and what is said of it, in the words of i3-ipc, to which the    *)
(* other protocols are translated in the drivers' modules.  There is one    *)
(* output.  Each operation maps the compositor's state to the set of its    *)
(* possible outcomes, pairs of the new state and the events it sends, in    *)
(* order.                                                                   *)

Scratch == 0                   \* where a window of the scratchpad is
Unmapped == -1                 \* where a window that is not open is
ScratchName == "__i3_scratch"  \* the scratchpad's workspace in a tree

\* nodes: an id is given out once, in order; numbers: the id is the number in the
\* workspace's name; grid: likewise, and all workspaces are always there
Styles == {"nodes", "numbers", "grid"}

\* name: the workspaces, NoName for an id that is not in use; next: the next id
\* to be given out; at: where each window is; full, urgent: window flags;
\* hidden: windows that are minimized where they are; kfocus: the window with the
\* keyboard focus
Compositors ==
  [style : Styles, name : [Ids -> Names \cup {NoName}], next : Nat, focus : Ids,
   at : [Wins -> Ids \cup {Scratch, Unmapped}], opened : SUBSET Wins,
   full : SUBSET Wins, urgent : SUBSET Wins, hidden : SUBSET Wins, kfocus : Wins \cup {Nil}]

InitCompositor(style) ==
  [style |-> style,
   name |-> [i \in Ids |-> IF style = "grid" /\ i \in Range(Number)
                           THEN CHOOSE n \in DOMAIN Number : Number[n] = i
                           ELSE IF i <= Len(InitNames) THEN InitNames[i] ELSE NoName],
   next |-> Len(InitNames) + 1, focus |-> 1,
   at |-> [w \in Wins |-> IF w \in DOMAIN InitAt THEN InitAt[w] ELSE Unmapped],
   opened |-> DOMAIN InitAt, full |-> {}, urgent |-> {}, hidden |-> {},
   kfocus |-> IF \E w \in DOMAIN InitAt : InitAt[w] = 1
              THEN CHOOSE w \in DOMAIN InitAt : InitAt[w] = 1 ELSE Nil]

Live(k)     == {i \in Ids : k.name[i] # NoName}
On(k, i)    == {w \in Wins : k.at[w] = i}
Mapped(k)   == {w \in Wins : k.at[w] # Unmapped}
ByName(k, n) == CHOOSE i \in Live(k) : k.name[i] = n
HasName(k, n) == \E i \in Live(k) : k.name[i] = n
WsUrgent(k, i) == On(k, i) \cap k.urgent # {}

WsEvent(change, k, i) ==
  [kind |-> "workspace", change |-> change, id |-> i, name |-> k.name[i],
   focused |-> k.focus = i, urgent |-> WsUrgent(k, i)]
WinEvent(change, k, w) ==
  [kind |-> "window", change |-> change, win |-> w, full |-> w \in k.full,
   urgent |-> w \in k.urgent]
Tree(k) ==
  [kind |-> "tree", focused |-> k.kfocus, full |-> k.full, urgent |-> k.urgent,
   parent |-> [w \in Mapped(k) |-> IF k.at[w] = Scratch THEN ScratchName
                                   ELSE k.name[k.at[w]]]]

\* A workspace that is neither focused nor occupied goes away
Reap(k) == [k EXCEPT !.name = [i \in Ids |-> IF k.style # "grid" /\ i # k.focus /\ On(k, i) = {}
                                             THEN NoName ELSE @[i]]]
EmptyEvents(k) ==
  LET gone == SetToSortSeq(Live(k) \ Live(Reap(k)), <)
  IN  [j \in DOMAIN gone |-> WsEvent("empty", k, gone[j])]

\* The workspace named n, created if there is none, and its init event
NewId(k, n) == IF k.style = "nodes" THEN k.next ELSE Number[n]
WithWorkspace(k, n) ==
  IF HasName(k, n) THEN k
  ELSE [k EXCEPT !.name[NewId(k, n)] = n, !.next = IF k.style = "nodes" THEN @ + 1 ELSE @]
InitEvents(k, n) ==
  IF HasName(k, n) THEN <<>> ELSE <<WsEvent("init", WithWorkspace(k, n), NewId(k, n))>>

\* The keyboard focus goes to v, which clears its urgency
FocusWin(k, v) == [k EXCEPT !.kfocus = v, !.urgent = @ \ {v}]
FocusEvents(k, v) ==
  (IF v \in k.urgent
   THEN <<WinEvent("urgent", FocusWin(k, v), v),
          WsEvent("urgent", FocusWin(k, v), k.at[v])>> ELSE <<>>)
  \o (IF v = Nil \/ v = k.kfocus THEN <<>> ELSE <<WinEvent("focus", FocusWin(k, v), v)>>)

\* Who may get the keyboard focus on workspace i: the window that has it, or
\* one of the windows there
Heirs(k, i) == LET able == On(k, i) \ k.hidden
               IN  IF k.kfocus \in able THEN {k.kfocus}
                   ELSE IF able = {} THEN {Nil} ELSE able

\* What the compositor does, as <<new state, events>>
OpenWindow(k, w) ==
  LET m == [k EXCEPT !.at[w] = k.focus, !.opened = @ \cup {w}]
  IN  {<<FocusWin(m, w), <<WinEvent("new", m, w), WinEvent("focus", m, w)>> >>}

\* Put window w somewhere else: event, then focus, then the empty workspace
Relocate(k, w, where, change, init) ==
  LET m == [k EXCEPT !.at[w] = where]
  IN  {<<Reap(FocusWin(m, v)),
         init \o <<WinEvent(change, m, w)>> \o FocusEvents(m, v)
              \o EmptyEvents(FocusWin(m, v))>> : v \in Heirs(m, m.focus)}

CloseWindow(k, w) ==
  Relocate([k EXCEPT !.full = @ \ {w}, !.urgent = @ \ {w}, !.hidden = @ \ {w}], w, Unmapped,
           "close", <<>>)
Stash(k, w)       == Relocate(k, w, Scratch, "move", <<>>)
MoveWindow(k, w, n) ==
  LET m == WithWorkspace(k, n)
  IN  Relocate(m, w, ByName(m, n), "move", InitEvents(k, n))

\* Make an empty workspace
Create(k, n) == IF HasName(k, n) THEN {} ELSE {<<WithWorkspace(k, n), InitEvents(k, n)>>}

\* Go to the workspace named n, where one of heirs(k) gets the keyboard focus
GoTo(k, n, heirs(_)) ==
  LET m == WithWorkspace(k, n)
      f == [m EXCEPT !.focus = ByName(m, n)]
  IN  {<<Reap(FocusWin(f, v)),
         InitEvents(k, n) \o <<WsEvent("focus", f, f.focus)>> \o FocusEvents(f, v)
           \o EmptyEvents(FocusWin(f, v))>> : v \in heirs(f)}

Switch(k, n) == GoTo(k, n, LAMBDA f : Heirs(f, f.focus))

\* Focus window w where it is; one of the scratchpad is brought to the workspace
FocusWindow(k, w) ==
  LET m == [k EXCEPT !.hidden = @ \ {w}, !.at[w] = IF @ = Scratch THEN k.focus ELSE @]
      first == (IF w \in k.hidden THEN <<WinEvent("hidden", m, w)>> ELSE <<>>)
               \o (IF k.at[w] = Scratch THEN <<WinEvent("move", m, w)>> ELSE <<>>)
  IN  IF m.at[w] = k.focus THEN {<<FocusWin(m, w), first \o FocusEvents(m, w)>>}
      ELSE {<<r[1], first \o r[2]>> : r \in GoTo(m, k.name[k.at[w]], LAMBDA f : {w})}

\* Show window w, which was minimized where it is
Unhide(k, w) ==
  LET m == [k EXCEPT !.hidden = @ \ {w}]
  IN  {<<FocusWin(m, v), <<WinEvent("hidden", m, w)>> \o FocusEvents(m, v)>> :
         v \in Heirs(m, m.focus)}

\* Minimize window w where it is
Hide(k, w) ==
  LET m == [k EXCEPT !.hidden = @ \cup {w}]
  IN  {<<FocusWin(m, v), <<WinEvent("hidden", m, w)>> \o FocusEvents(m, v)>> :
         v \in Heirs(m, m.focus)}

ToggleFullscreen(k, w) ==
  LET m == [k EXCEPT !.full = IF w \in @ THEN @ \ {w} ELSE @ \cup {w}]
  IN  {<<m, <<WinEvent("fullscreen_mode", m, w)>> >>}

Alert(k, w) ==
  LET m == [k EXCEPT !.urgent = @ \cup {w}]
  IN  {<<m, <<WinEvent("urgent", m, w), WsEvent("urgent", m, k.at[w])>> >>}

\* Is there a workspace named n, or an id left for it
CanName(k, n) == HasName(k, n) \/ NewId(k, n) \in Ids

----------------------------------------------------------------------------
(* The state of both *)

VARIABLES
  who,    \* the compositor that is there
  c,      \* its state
  b,      \* the bar: its workspace table and window list
  d,      \* the driver's own data
  q,      \* the connection, compositor to bar
  out,    \* the connection, bar to compositor
  phase,  \* where the driver's init and the start of the bar are
  steps,  \* number of user actions so far
  asked   \* number of those that the bar was asked for

vars == <<who, c, b, d, q, out, phase, steps, asked>>

\* The data of the drivers that keep any: ids that are known (niri), the column of
\* the grid that is shown and the one of each window relative to it (wayfire), the
\* list of names to go to, with Nil for a string that was freed, and the ids that can
\* be gone to (the Wayland protocols)
DriverData == [list : Seq(Ids), x : Ids, at : [Wins -> Int], wishes : Seq(Names \cup {Nil}),
               able : SUBSET Ids]
NoData == [list |-> <<>>, x |-> 1, at |-> [w \in Wins |-> 0], wishes |-> <<>>, able |-> {}]

StartAs(driver, style, first) ==
  /\ who = driver
  /\ c = InitCompositor(style)
  /\ b = [EmptyBook EXCEPT !.t.create = driver \notin {"niri", "wayfire"}]
  /\ d = NoData
  /\ q = <<>>
  /\ out = <<>>
  /\ phase = first
  /\ steps = 0
  /\ asked = 0

----------------------------------------------------------------------------
(* What the drivers share *)

\* set_bit
WithBit(bits, flag, on) == IF on THEN bits \cup {flag} ELSE bits \ {flag}
SetBit(x, w, flag, on) ==
  IF w \in Listed(x) THEN [x EXCEPT !.wstate[w] = WithBit(@, flag, on)] ELSE x

\* The order in which ids are listed
Ascending(S) == SetToSortSeq(S, <)

\* The names that some pager pins
Pinned == UNION {Range(PagerConf[who][g]) : g \in Pagers}

\* A step of the init, which blocks the bar
Starts(from, to) ==
  /\ phase = from /\ phase' = to
  /\ UNCHANGED <<who, c, out, steps, asked>>

\* config_parse builds the pagers, each with its pins; then the main loop starts
Configure ==
  /\ Starts("config", "run")
  /\ b' = LET conf == PagerConf[who]
              pin(t, x) == PagerAddPin(t, x[1], x[2])
              all(t, g) == FoldLeft(pin, t, [i \in DOMAIN conf[g] |-> <<g, conf[g][i]>>])
              new(t, g) == all([t EXCEPT !.items[g] = Members(t), !.dirty = Members(t)], g)
          IN  RedrawAll([b EXCEPT !.t = FoldLeft(new, @, SetToSeq(Pagers))])
  /\ UNCHANGED <<d, q>>

\* The driver reads one message: what its handler makes of the book, its data and
\* what it writes.  The redraw timers fire after it, which is the stalest the
\* buttons can be.
Reads(book, data, request) ==
  /\ phase = "run" /\ q # <<>>
  /\ b' = RedrawAll(book) /\ d' = data /\ out' = out \o request
  /\ q' = Tail(q)
  /\ UNCHANGED <<who, c, phase, steps, asked>>

\* The user asks the bar for something
Asks(book, commands) ==
  /\ phase = "run" /\ steps < MaxSteps /\ asked < MaxAsked
  /\ b' = RedrawAll(book) /\ out' = out \o commands
  /\ steps' = steps + 1 /\ asked' = asked + 1
  /\ UNCHANGED <<who, c, q, phase>>

Command(op, w) == [op |-> op, win |-> w]
CommandTo(op, w, n) == [op |-> op, win |-> w, name |-> n]

\* The workspace a window is moved to is in the table; the one that is gone to has a
\* button that is shown, which may be a pin's
Shown(s) == s \in Members(b.t) /\ b.t.id[s] # PinId
Clickable(s) == \E g \in Pagers : s \in b.t.items[g] /\ b.t.drawn[g][s].active

\* What the compositor makes of a command of the bar; windows may be gone by then
Obeyed(k, m) ==
  CASE m.op = "switch" -> IF CanName(k, m.name) /\ k.name[k.focus] # m.name
                           THEN Switch(k, m.name) ELSE {}
    [] m.op = "fullscreen" -> IF k.kfocus = Nil THEN {} ELSE ToggleFullscreen(k, k.kfocus)
    [] m.op = "activate" -> IF m.id \in Live(k) \ {k.focus} THEN Switch(k, k.name[m.id]) ELSE {}
    [] m.op = "create" -> IF CanName(k, m.name) THEN Create(k, m.name) ELSE {}
    [] m.op \notin {"switch", "activate", "fullscreen", "create", "tree"} /\ m.win \notin Mapped(k) -> {}
    [] m.op = "scratch" /\ m.win \in Mapped(k) -> IF k.at[m.win] = Scratch THEN {} ELSE Stash(k, m.win)
    [] m.op = "move" /\ m.win \in Mapped(k) ->
         IF CanName(k, m.name) /\ ~(HasName(k, m.name) /\ k.at[m.win] = ByName(k, m.name))
         THEN MoveWindow(k, m.win, m.name) ELSE {}
    [] m.op = "send" /\ m.win \in Mapped(k) ->
         IF m.id \in Live(k) \ {k.at[m.win]} THEN MoveWindow(k, m.win, k.name[m.id]) ELSE {}
    [] m.op = "place" /\ m.win \in Mapped(k) ->
         IF k.focus + m.rel \in Live(k) \ {k.at[m.win]}
         THEN MoveWindow(k, m.win, k.name[k.focus + m.rel]) ELSE {}
    [] m.op = "focus" /\ m.win \in Mapped(k) -> FocusWindow(k, m.win)
    [] m.op = "close" /\ m.win \in Mapped(k) -> CloseWindow(k, m.win)
    [] m.op = "toggle" /\ m.win \in Mapped(k) -> ToggleFullscreen(k, m.win)
    [] m.op = "hide" /\ m.win \in Mapped(k) -> IF m.win \in k.hidden THEN {} ELSE Hide(k, m.win)
    [] m.op = "unhide" /\ m.win \in Mapped(k) -> IF m.win \in k.hidden THEN Unhide(k, m.win) ELSE {}
    [] m.op = "full" /\ m.win \in Mapped(k) ->
         IF k.at[m.win] = Scratch \/ (m.win \in k.full) = m.on THEN {} ELSE ToggleFullscreen(k, m.win)

----------------------------------------------------------------------------
(* What the properties speak of *)

Quiet == phase = "run" /\ q = <<>> /\ out = <<>>

Entries(t) == {s \in Members(t) : t.id[s] # PinId}

\* The slot of workspace i, by its name; it has its id, unless its references are
\* not what they should be
Slot(i) == FromName(b.t, c.name[i])
Miscounted(i) == Slot(i) \in b.t.uncounted

\* The workspaces of the compositor, and those of the table, by name.  One that is
\* gone stays as long as a window remembers it: a minimized one, or one whose new
\* workspace was not found.
SpacesMirrored ==
  /\ \A i \in Live(c) : Slot(i) # Nil /\ (Miscounted(i) \/ b.t.id[Slot(i)] = i)
  /\ \A s \in Entries(b.t) \ b.t.uncounted :
       \/ b.t.id[s] \in Live(c)
       \/ \E w \in Mapped(c) : b.wws[w] = s /\ (c.at[w] = Scratch \/ Miscounted(c.at[w]))
  /\ \A r, s \in Members(b.t) : b.t.name[r] = b.t.name[s] => r = s

FocusMirrored ==
  /\ {s \in Members(b.t) : "focused" \in b.t.state[s]} \ b.t.uncounted
       = {Slot(c.focus)} \ b.t.uncounted
  /\ Miscounted(c.focus) \/ b.t.focus = Slot(c.focus)

WindowsMirrored ==
  /\ Listed(b) = Mapped(c)
  /\ c.kfocus # Nil => b.wfocus = c.kfocus

PlacesMirrored == \A w \in Mapped(c) :
  c.at[w] = Scratch \/ Miscounted(c.at[w]) \/ b.wws[w] = Slot(c.at[w])

FlagMirrored(flag, S) == {w \in Listed(b) : flag \in b.wstate[w]} = S

=============================================================================
