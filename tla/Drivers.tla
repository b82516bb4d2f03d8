------------------------------ MODULE Drivers ------------------------------
(***************************************************************************)
(* The drivers of the compositors, side by side: whichever compositor      *)
(* there is, the bar's table, window list and widgets come to show it.     *)
(***************************************************************************)
EXTENDS Sway, Hyprland, Niri, Wayfire, Protocols

Init ==
  /\ who \in Who
  /\ SwayInit \/ HyprInit \/ WayfireInit \/ NiriInit \/ ProtocolInit

Wayland == who \in {"ext", "cosmic"}

Start ==
  \/ who = "sway" /\ SwayStarts
  \/ who = "hyprland" /\ HyprStarts
  \/ who = "niri" /\ NiriStarts
  \/ who = "wayfire" /\ WayfireStarts
  \/ Wayland /\ ProtocolStarts
  \/ Configure

----------------------------------------------------------------------------
(* The compositor's steps *)

\* What a driver may be told of one outcome of an operation
Told(r) ==
  CASE who = "sway" -> {r[2]}
    [] who = "hyprland" -> HyprTold(r)
    [] who = "niri" -> {NiriTold(c, r[1])}
    [] who = "wayfire" -> WayfireTold(r)
    [] Wayland -> ProtocolTold(c, r[1])

Happens(r) ==
  /\ c' = r[1]
  /\ \E told \in Told(r) : q' = q \o told
  /\ UNCHANGED <<who, b, d, phase>>

User(outcomes) ==
  /\ steps' = steps + 1
  /\ \E r \in outcomes : Happens(r)
  /\ UNCHANGED <<out, asked>>

\* Can workspace n be gone to
Reachable(n) == CanName(c, n) /\ ~(who = "hyprland" /\ Revives(n))

UserOpens(w)  == w \notin c.opened /\ User(OpenWindow(c, w))
UserCloses(w) == w \in Mapped(c) /\ User(CloseWindow(c, w))
UserSwitches(n) ==
  /\ Reachable(n) /\ c.name[c.focus] # n
  /\ User(Switch(c, n))
UserMoves(w, n) ==
  /\ w \in Mapped(c) /\ Reachable(n)
  /\ c.at[w] # Scratch => c.name[c.at[w]] # n
  /\ User(MoveWindow(c, w, n))
UserFocuses(w) == w \in On(c, c.focus) \ {c.kfocus} /\ User(FocusWindow(c, w))
UserToggles(w) ==
  /\ w \in Mapped(c) /\ c.at[w] # Scratch
  /\ who = "hyprland" => w = c.kfocus
  /\ User(ToggleFullscreen(c, w))
WindowAlerts(w) ==
  /\ w \in Mapped(c) \ c.urgent /\ c.at[w] # Scratch /\ w # c.kfocus
  /\ User(Alert(c, w))
UserHides(w) == who \in {"wayfire", "ext", "cosmic"} /\ w \in Mapped(c) \ c.hidden /\ User(Hide(c, w))

\* The compositor reads a request or a command of the bar
Serve ==
  /\ out # <<>>
  /\ LET m == Head(out)
         all == IF m.op \in {"move", "switch"} /\ ~Reachable(m.name) THEN {} ELSE Obeyed(c, m)
     IN  \/ /\ m.op = "tree"
            /\ q' = Append(q, Tree(c))
            /\ UNCHANGED <<who, c, b, d, phase>>
         \/ m.op # "tree" /\ \E r \in all : Happens(r)
         \/ m.op # "tree" /\ all = {} /\ UNCHANGED <<who, c, b, d, q, phase>>
  /\ out' = Tail(out)
  /\ UNCHANGED <<steps, asked>>

----------------------------------------------------------------------------
(* The bar's steps *)

Read ==
  \/ who = "sway" /\ Handle
  \/ who = "hyprland" /\ HyprReads
  \/ who = "niri" /\ NiriReads
  \/ who = "wayfire" /\ WayfireReads
  \/ Wayland /\ ProtocolReads

\* What is sent when a window's button or the pager's is used
Minimizes(w) ==
  CASE who = "sway" -> Minimize(w) [] who = "hyprland" -> HyprMinimize(w) [] who = "niri" -> {}
    [] who = "wayfire" -> WayfireMinimize(w) [] Wayland -> ProtocolMinimize(w)
Unminimizes(w) ==
  CASE who = "sway" -> Unminimize(w) [] who = "hyprland" -> HyprUnminimize(w) [] who = "niri" -> {}
    [] who = "wayfire" -> WayfireUnminimize(w) [] Wayland -> ProtocolUnminimize(w)
Focuses(w) ==
  CASE who = "sway" -> Focus(w) [] who = "hyprland" -> HyprFocus(w) [] who = "niri" -> NiriFocus(w)
    [] who = "wayfire" -> WayfireFocus(w) [] Wayland -> ProtocolFocus(w)
Maximizes(w) ==
  CASE who = "sway" -> {} [] who = "hyprland" -> HyprFullscreen(w) [] who = "niri" -> NiriMaximize(w)
    [] who = "wayfire" -> WayfireMaximize(w) [] Wayland -> ProtocolMaximize(w)
Closes(w) ==
  CASE who = "sway" -> Close(w) [] who = "hyprland" -> HyprClose(w) [] who = "niri" -> NiriClose(w)
    [] who = "wayfire" -> WayfireClose(w) [] Wayland -> ProtocolClose(w)
Switches(s) ==
  CASE who = "sway" -> SetWorkspaceOf(s) [] who = "hyprland" -> HyprSetWorkspace(s)
    [] who = "niri" -> NiriSetWorkspace(s) [] who = "wayfire" -> WayfireSetWorkspace(s)
    [] Wayland -> ProtocolSetWorkspace(s)
MovesTo(w, s) ==
  CASE who = "sway" -> MoveTo(w, s) [] who = "hyprland" -> HyprMoveTo(w, s)
    [] who = "niri" -> NiriMoveTo(w, s) [] who = "wayfire" -> WayfireMoveTo(w, s) [] Wayland -> {}

Ask(pairs) == \E r \in pairs : Asks(r[1], r[2]) /\ UNCHANGED d

AskMinimize(w) == w \in Listed(b) /\ "minimized" \notin b.wstate[w] /\ Ask(Minimizes(w))
AskUnminimize(w) == w \in Listed(b) /\ "minimized" \in b.wstate[w] /\ Ask(Unminimizes(w))
AskFocus(w) == w \in Listed(b) /\ Ask(Focuses(w))
AskMaximize(w) == w \in Listed(b) /\ Ask(Maximizes(w))
AskClose(w) == w \in Listed(b) /\ Ask(Closes(w))
AskSwitch(s) ==
  /\ Clickable(s)
  /\ \E r \in Switches(s) : Asks(r[1], r[2])
  /\ d' = [d EXCEPT !.wishes = IF Wayland THEN ProtocolWishes(s) \o @ ELSE @]
AskMove(w, s) == w \in Listed(b) /\ Shown(s) /\ Ask(MovesTo(w, s))

\* Changes before the events are asked for are lost: they are left out
UserActs ==
  /\ phase = "run" /\ steps < MaxSteps
  /\ \/ \E n \in DOMAIN Number : UserSwitches(n)
     \/ \E w \in Wins :
          \/ UserOpens(w)
          \/ UserCloses(w)
          \/ \E n \in DOMAIN Number : UserMoves(w, n)
          \/ UserFocuses(w)
          \/ UserToggles(w)
          \/ WindowAlerts(w)
          \/ UserHides(w)
          \/ AskMinimize(w)
          \/ AskUnminimize(w)
          \/ AskFocus(w)
          \/ AskMaximize(w)
          \/ AskClose(w)
          \/ \E s \in Slots : AskMove(w, s)
     \/ \E s \in Slots : AskSwitch(s)

Phases == {"workspaces", "tree", "clients", "populate", "stream", "wsets", "views", "bind",
           "config", "run"}

\* The start goes on, the bar's main loop and the compositor keep reading
Works == Start \/ Read \/ Serve

Spec == Init /\ [][Works \/ UserActs]_vars
\* What makes these go on: only Start changes the phase, Read shortens q, Serve out
Goes  == phase # "run" /\ phase' \in Phases \ {phase}
Hears == phase = "run" /\ q # <<>> /\ q' = Tail(q)
Serves == out # <<>> /\ out' = Tail(out)
FairSpec == Spec /\ WF_phase(Goes) /\ WF_q(Hears) /\ WF_out(Serves)

----------------------------------------------------------------------------
(* Properties *)

\* Every variable keeps its type.
TypeOK ==
  /\ who \in Who
  /\ c \in Compositors
  /\ b \in Book
  /\ d \in DriverData
  /\ phase \in Phases
  /\ steps \in 0..MaxSteps /\ asked \in 0..MaxAsked

\* No pointer to a freed workspace is kept, and every reference is accounted for:
\* the list, the focus, the pagers' buttons and the windows only name workspaces
\* that are in the table, and once nothing is in flight a workspace has one
\* reference for the compositor, if it has the workspace, and one for each of its
\* windows; a pin has none.  Left out are the slots (uncounted) of which the history
\* says that one's reference went to the other: a pin that niri takes over gets none
\* (niri.c:304-313), one that Sway does while there are several gives it to the first
\* (sway.c:228-233), and a window on a workspace that has become a pin gives back
\* that of the first (wintree.c:292-296).
References ==
  /\ IsInjective(b.t.list) /\ IsInjective(b.wlist)
  /\ b.t.focus \in Members(b.t) \cup {Nil}
  /\ \A g \in Pagers : b.t.items[g] \subseteq Members(b.t)
  /\ \A w \in Listed(b) : b.wws[w] \in Members(b.t) \cup {Nil}
  /\ Quiet => \A s \in Members(b.t) \ b.t.uncounted :
       b.t.refs[s] = (IF b.t.id[s] \in Live(c) THEN 1 ELSE 0)
                     + Cardinality({w \in Listed(b) : b.wws[w] = s})

\* Once nothing is in flight the table holds the compositor's workspaces under
\* their names (one that is gone only stays for as long as a minimized window
\* remembers it), the windows are listed where they are, and the flags that the
\* driver keeps are right: not the focused workspace where it is not committed
\* (Hyprland, Wayfire), no urgency where the driver ignores it.  The slots that are
\* miscounted (see References) are left out.
Mirrors ==
  Quiet =>
    /\ SpacesMirrored /\ WindowsMirrored
    /\ who \in {"sway", "niri", "ext", "cosmic"} => FocusMirrored
    /\ who \in {"sway", "niri", "wayfire"} => PlacesMirrored
    /\ who = "hyprland" => HyprPlaces
    /\ who = "wayfire" => VisibleMirrored
    /\ who \in {"sway", "hyprland"} => FlagMirrored("minimized", {w \in Mapped(c) : c.at[w] = Scratch})
    /\ who \in {"wayfire", "ext", "cosmic"} => FlagMirrored("minimized", c.hidden)
    /\ who \in {"sway", "wayfire", "ext", "cosmic"} => FlagMirrored("maximized", c.full)
    /\ who = "sway" => FlagMirrored("urgent", c.urgent)

\* doc/sfwbar.rst on pins: "These will show up in the pager even if the
\* workspace is empty": a pager has a button, drawn as active, under every name
\* that it pins.  (Where changes are published by "done", once it has been read;
\* niri and Wayfire cannot create a workspace, and show a pin as inactive.)
PinsShown ==
  phase = "run" /\ b.t.create /\ (Wayland => q = <<>>) => \A g \in Pagers : \A k \in DOMAIN PagerConf[who][g] :
    \E s \in b.t.items[g] : /\ b.t.name[s] = PagerConf[who][g][k]
                            /\ b.t.drawn[g][s].name = b.t.name[s]
                            /\ b.t.drawn[g][s].active

\* Every pager shows the focused workspace, and only that one, as focused (where the
\* focus is committed, see Mirrors), unless a workspace that has turned back into a
\* pin is in the way, whose button was lost (in the pagers that do not pin it) or has
\* not been drawn since (undrawn), or one that is miscounted.
PagerShowsFocus ==
  Quiet /\ who \notin {"hyprland", "wayfire"} => \A g \in Pagers :
    {s \in b.t.items[g] : "focused" \in b.t.drawn[g][s].state /\ b.t.drawn[g][s].active}
      \ (b.t.undrawn \cup b.t.uncounted)
      = {Slot(c.focus)} \ (b.t.lost[g] \cup b.t.uncounted)

\* doc/sfwbar.rst, "pager_item may have one or more of the following classes set:
\* focused and visible", taken at its word: every pager shows the focused workspace as
\* focused, and no other one.
FocusAlwaysShown ==
  Quiet /\ who \notin {"hyprland", "wayfire"} => \A g \in Pagers :
    {s \in b.t.items[g] : "focused" \in b.t.drawn[g][s].state /\ b.t.drawn[g][s].active}
      = {Slot(c.focus)}

\* doc/sfwbar.rst says of the taskbar's items that their classes reflect "the
\* state of a window: focused, maximized, minimized, fullscreen, urgent": each
\* button shows whether the compositor has the window focused, and minimized if
\* the driver publishes that (the other bits are not committed).
TaskbarShowsState ==
  Quiet =>
    /\ \A w \in Mapped(c) : w \in b.buttons
    /\ \A w \in Mapped(c) : who \in {"sway", "hyprland"} =>
         ("minimized" \in b.wdrawn[w].state) = (c.at[w] = Scratch)
    /\ c.kfocus # Nil => {w \in b.buttons : b.wdrawn[w].focused} = {c.kfocus}

----------------------------------------------------------------------------
(* The drivers implement Mirror *)

\* The drivers that are told when no window is focused any more
TellsNoFocus == who \in {"niri", "ext", "cosmic"}

\* The names whose workspaces may be miscounted: pins, where niri takes them over, and
\* where Sway does if there are several
Doubtful == IF who = "niri" \/ (who = "sway" /\ Cardinality(Pinned) > 1) THEN Pinned ELSE {}

\* What there is to show: in each pager the names of the workspaces, but the doubtful
\* ones, in the taskbar the windows and the one in focus
Truth == [names |-> [g \in Pagers |-> {c.name[i] : i \in Live(c)} \ Doubtful], wins |-> Mapped(c),
          focus |-> IF TellsNoFocus THEN {c.kfocus} \ {Nil} ELSE {}]

\* What the widgets show: pins and workspaces that only a minimized window remembers
\* aside, the active buttons.  A workspace that was a pin and whose button was lost, or
\* was not drawn since it is none, is taken for shown.
Counted(s) == /\ b.t.id[s] # PinId
              /\ b.t.refs[s] > Cardinality({w \in Listed(b) : b.wws[w] = s})
Depicted ==
  [names |-> [g \in Pagers |->
     ({b.t.drawn[g][s].name : s \in {s \in b.t.items[g] : Counted(s) /\ b.t.drawn[g][s].active}}
      \cup {b.t.name[s] : s \in {s \in b.t.lost[g] \cup b.t.undrawn : Counted(s)}}) \ Doubtful],
   wins |-> b.buttons,
   focus |-> IF TellsNoFocus THEN {w \in b.buttons : b.wdrawn[w].focused} ELSE {}]

M == INSTANCE Mirror WITH truth <- Truth, shown <- Depicted, behind <- ~Quiet

\* Every driver implements Mirror: the pagers show every workspace of the
\* compositor and the taskbar every window and the focused one, a while after
\* each change; each change is told; and the driver catches up, so that its
\* requests do not feed each other.  (Truth and Depicted say what is left out.)
Follows == M!Spec

=============================================================================
