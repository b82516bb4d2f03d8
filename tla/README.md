# A formal model of sfwbar

sfwbar is a taskbar for Wayland compositors: a C program on GTK 3 and GLib. It
mirrors what other programs know (the compositor's workspaces and windows, the
session bus's tray items, plug-ins' devices, files in `/proc` and `/sys`) in
tables of its own, and shows expressions over them in widgets that a
configuration file describes. Nothing is stored on disk. What makes it hard is
that every table is a copy, kept up to date by messages from somebody who does
not wait, on one of four kinds of threads.

This directory holds TLA+ modules that are translated from that code, the TLC
configurations that check them on small instances, and proofs that TLAPS
checks for all instances. `PROJECT.json` maps every definition to the lines it
models. Paths below are relative to the repository; core files are in `src/`.

Contents: 1 the system, 2 the modules, 3 the runs, 4 fairness, 5 the proofs,
6 what is only model-checked and what is not modelled, 7 where the code and its
documents differ, 8 the plan.

## 1. The system

### 1.1 Threads

| thread | runs | made by |
|---|---|---|
| main | GTK, the compositor's connections, D-Bus, triggers, updates of widgets | `sfwbar.c` |
| scanner | polls the widgets that are due (`base_widget_scanner_thread`) | `sfwbar.c` |
| pools | polled expressions (one thread, `gui/basewidget.c`), actions (eight threads), actions of triggers (one thread, so in order) | `vm/vm.c`, `trigger.c` |
| module | all plug-ins with `MODULE_THREAD_MODULE` share one main loop (`module_thread_func`) | `module.c` |

Threads meet in: GLib main contexts (FIFO queues of callbacks, one per thread),
`source_t.mutex` (recursive, one per scanned source), the mutex of each list of
dependants, the mutexes of variable stores and hash tables, and fields that are
written and read without any (`expr->invalid`, `scan_var_t`, `active`, `ready`).

### 1.2 Components

Core of the program:

| component | state it keeps | operations | talks to | what makes it correct |
|---|---|---|---|---|
| Plug-in arbitration, `module.c` | loaded modules, `iface_providers`, per provider `ready` and `active` | `module_load`, `_interface_activate`, `_deactivate`, `_select` | main and module threads, each plug-in's callbacks | one provider of an interface runs at a time; it is the first one that is ready; scripts are told which |
| Workspaces, `workspace.c` | list, focus, reference counts, pins, listeners | `workspace_new/ref/unref/set_*/commit/pin_add` | all drivers, pagers, windows | references equal what holds a workspace; pagers see each change |
| Windows, `wintree.c` | list in order of focus, focus, workspace pointers, states | `wintree_window_append/delete`, `set_focus`, `set_workspace`, `commit` | drivers, taskbars, switcher | no pointer to a freed workspace; buttons show the window's state |
| Drivers, `ipc/*.c` | the connection and little else | start-up, an event or a tree per handler | compositor; the two tables | once all is read the tables equal the compositor's |
| Pager, taskbar, switcher, `gui/` | items, invalid marks, what is drawn | listeners, timer, actions | tables, expressions | a button per workspace or window, drawn as it is |
| Scanner, `scanner.c` | sources, variables, `invalid`, `count`, `val`, `pval` | invalidate, scan, fold | expressions, triggers, client sources | a value is the aggregate of the matches of one scan |
| Expressions, `vm/expr.c`, `gui/basewidget.c` | `invalid`, cache, lists of dependants, next poll | evaluate, trigger, poll, update | variables, scanner thread, pool, main | a valid expression is not stale; every change reaches the screen |
| Compiler and machine, `vm/parser.c`, `vm/vm.c`, `vm/value.c` | code, stack, frames | one production, one operation | functions, variables | code computes what the text means |
| Tray, `sni*.c`, `gui/tray*.c` | watcher, host, items, properties, menus | bus callbacks, replies, layouts | session bus, applications | one icon per application, with its properties and its menu |
| Plug-ins, `modules/*.c` | mirrors of devices, networks, notifications, the player | bus signals, sockets, commands | daemons, triggers, functions | mirrors follow the daemon; commands are not lost or repeated |
| Triggers, `trigger.c` | handlers by name | add, remove, emit | every source of events | handlers run on main, in the order of emission |
| Client sources, `client.c`, `mpd.c`, `exec.c` | channels, MPD idle flag, commands | connect, event, reconnect | scanner, triggers | a lost connection is made again once |
| Bars, outputs, pop-ups, `gui/bar.c`, `monitor.c`, `popup.c` | sensors, references, mirrors, outputs | enter and leave, timers, output changes | GTK, layer shell | a bar is shown while something in it is open |
| Configuration, `config/*.c` | what it builds | one recursive-descent pass at start-up | all | runs before anything else |

`PROJECT.json` lists every part under "components", with those that are not
modelled and why.

### 1.3 Behaviours that are hard

* Answers and events share a connection, so that a snapshot describes a later
  state than the event that asked for it (Sway, tray, MPD).
* Several programs own the same thing in turn: the watcher of the tray, the
  providers of an interface.
* A flag is set by one thread after it has posted a callback that another
  thread runs (`active`), or cleared after a computation that the flag was to
  repeat (`expr->invalid`).
* An invalidation takes no mutex and may fall into the middle of a scan.
* Replies arrive for objects that were freed (tray properties).
* A connection is lost with commands waiting (MPD).
* Byte code is patched by distances through nested structures, and one byte
  stands for two operations (`<=`).

"hazards" in `PROJECT.json` gives them line by line, with the properties aimed
at each.

## 2. The modules

```
 ModuleInterface <- MCModuleInterface                  ModuleInterface <- ModuleInterfaceProofs
 Workspace <- Wintree <- Driver <- Sway, Hyprland, Niri, Wayfire, Protocols
 Drivers <- MCDrivers                                  Drivers INSTANCEs the five drivers and Mirror
 ScanVar (checked as it is)                            ScanVar <- ScanVarProofs
 Expressions <- MCExpressions                          Expressions <- ExpressionsProofs
 Parser <- Meaning <- StackMachine <- MCStackMachine
 StatusNotifier <- MCStatusNotifier                    StatusNotifier <- StatusNotifierProofs <- TrayIconsProofs
 Plugin <- Bluez, WifiIwd, WifiNm, Ncenter, Pulse, Alsa, Network, Clients
 Plugins <- MCPlugins                                  Plugins INSTANCEs those and MpdSession
 MpdSession <- MpdProofs
 Alsa <- OnePluginProofs                               OnePluginProofs INSTANCEs Clients and Ncenter
 Plugins <- PluginsProofs                              PluginsProofs INSTANCEs these two
 Hiding, Outputs, Switching                            Gui INSTANCEs the three
```

(`A <- B`: B extends A, or is made of it.) Shared tables are written as operators
from a record to a record, one per C function, with the names of the functions;
a handler is the composition of the calls it makes, and an action applies one
handler. Comments that begin with "Faulty variant" precede definitions that are
not used by any specification: each changes one definition the way a slip
would, and the run that lists the property fails with it.

Where a module has ghost variables they are named here and in its comments: they
record that something happened after which the code does not keep the promise,
and a property says so by excluding them. Section 7 lists what they stand for.

### ModuleInterface (module.c; alsactl, pulsectl, wifi-nm, wifi-iwd)
`mainQ` and `ctxQ` are the two GLib contexts. Main's steps: `Load` posts an
init and waits (`RunInit`, `LoadDone`), `Dispatch` takes a readiness message
and selects, `ClearOld` and `SetNew` are the two halves of
`module_interface_select` between which the module thread may run. The module
thread's steps: `RunActivate`, `RunDeactivate`; `DaemonUp` and `DaemonDown` are
the plug-ins' own events. Constants say how providers differ: ALSA decides its
readiness once (`Fixed`) and clears the core's flag itself (`SelfClearing`),
PulseAudio reports that it went down twice (`DownPosts`).

### Workspace, Wintree (workspace.c, wintree.c, gui/pager*.c, gui/taskbar*.c)
A slot is the address of a `workspace_t`: it is reused after a free, so a
dangling pointer is visible. Pagers and the taskbar are called back in the
middle of operations, and drawn by a timer that runs between any two handlers.
Three fields record what went wrong on the way: `lost` (buttons that a pager
dropped as a workspace turned back into a pin), `undrawn` (a pin or a workspace
made of one whose buttons were not drawn since), `uncounted` (a slot that a
reference was meant for and did not get, or that got another's).

### Driver, the drivers, Mirror, Drivers (ipc/*.c)
`Driver` begins with the compositor, which is external: workspaces, windows,
what the user does to them, and the events of it in the words of i3-ipc. Then
comes what the drivers share: the stream from the compositor (`q`), the one to it (`out`), the steps of a
driver's start (`phase`), the bar's tables (`b`). A driver's module gives the
translation of the compositor's changes to its protocol, its handlers, its
start and its commands:

* `Sway`: events and trees share one connection; a tree is asked for at an event
  and describes a later state.
* `Hyprland`: events on one socket, synchronous requests on others, whose answers
  may be ahead of the events.
* `Niri`: one stream that begins with the present state; all workspaces are told
  when one comes or goes. A pin that it takes over gets no reference.
* `Wayfire`: a grid of cells; where a window is follows from its geometry
  relative to the cell that is shown.
* `Protocols`: ext-workspace or cosmic-workspaces for the workspaces, committed by
  "done", and foreign-toplevel for windows, which then have no workspace. A compositor
  may tell that a workspace lost the focus in the batch in which it goes or in one
  before (not at all comes to the same as the first). A wish to go to a new
  workspace stays in the list, freed, once it is met: the string may then read as
  any name.

`Mirror` is the abstract specification, with the two variables `truth` (what
the compositor is) and `shown` (what the bar's widgets say), and
`behind`: the two never change in one step, the bar stops being behind only in
a step that leaves it right, and it does not stay behind. `Drivers` maps each
driver's state to it (`INSTANCE Mirror WITH ...`); `Follows` is `Mirror`'s
specification, liveness included, for all six at once. `Truth` and `Depicted` leave
out the names of pins where a reference may go astray (under Niri, and under Sway
with several pins), and take a button that is `lost` or `undrawn` for shown. `who` is
the driver whose compositor was found at start (`sfwbar.c`).

### ScanVar (scanner.c)
One variable over the files of one source: a scan is `open`, then `read` match
by match under the mutex; an invalidation may come between any two steps.

### Expressions (vm/expr.c, vm/vm.c, gui/basewidget.c, scanner.c)
The value of an expression is the values it read. An evaluation is several
steps: read a variable, look up its list of dependants, make the list, put it
back; an assignment and the trigger that follows are two. The scanner thread
walks the widgets, hands those that are due to the pool, sleeps until the next
one; main drains its queue of updates and triggers.

### Parser, Meaning, StackMachine (vm/*.c)
`Parser` compiles a sequence of tokens to code, production by production.
`Meaning` is the reference: the text of a syntax tree (parentheses only where
precedence needs them) and its value and effects, from doc/sfwbar.rst.
`StackMachine` runs the compiled text one operation per step. Recursive
operators are used here, so nothing in these modules is proved.

### StatusNotifier (sni.c, sniitem.c, snimenu.c, gui/tray*.c)
The bus delivers to the bar in one order (`inbox`); an application answers
calls when it likes (`asked`). The bar is a host, and the watcher when nobody
else owns the name. An item (`sni`) is never removed from the sequence: an index
is a pointer, and a free marks it. A menu is a copy of its application's layout.

### MpdSession (modules/mpd.c)
One queue of commands, the current command, and two streams of lines. A reply
does not say what it answers: `Handled` goes by `mpd_cmd_current`, as
`mpd_event` does. The server (`Serves`, `ServerChanges`) is external; it
closes the connection on any command but `noidle` while it waits in `idle`.
`Drops` loses both streams; `Connects` is the new connection with the old queue.

### Plugin and the plug-ins (trigger.c, modules/*.c, config/*.widget)
`Plugin` has what every plug-in over a service has: the service `s`, the
plug-in's variables `m`, what is on its way (`q` signals and replies in the
order of the service, `out` calls), and the triggers `trig` that wait for main,
whose handlers read `m` as it is by then and leave `rows`. A signal passes only
while the plug-in is subscribed to that instance of the service. `Turns` are the
messages and triggers that are handled, `Works` what else goes on by itself,
`Acts` what the user and the world do.

* `Bluez`: a device is in the table from `InterfacesAdded` to
  `InterfacesRemoved`; `Pair`, `Trust` and `Connect` are the three calls of one
  click, each of which may succeed, fail, time out, or be cancelled because the
  device is freed. An allocation has a number, so a callback that is given a
  freed device is seen.
* `WifiIwd`: networks, known networks, the station's scan and the strengths that
  are asked for when it ends, connections, and the daemon's requests for a
  passphrase. `WifiNm`: access points and the networks they make up,
  connections, the active one, requests for passphrases. Both show the rows and
  the dialog of config/wifi.widget. The service may exit and start
  again at any time, with calls on their way (`inst`).
* `Ncenter`: the bar is the server: notifications with ids, replacement,
  time-outs, groups, and what the clients and the pop-up are told.
* `Pulse`: the connection and its states, sinks and their clients, the default,
  the arbitration's callbacks. `Alsa`: mixers, the rounding of percentages to
  steps of the card, the hand-over to and from PulseAudio (`early`).
* `Network`: routes and addresses over netlink; the interface of the best
  default route, the rates from counters that wrap (`Wrap`).
* `Clients` (client.c, mpd.c of the core): a source that keeps a connection:
  what is shown is the last line that matched, the daemon is asked by turns for
  its status and to wait (`idle`), a connection that is lost is made again.

`Plugins` has them side by side, one looked at at a time (`who`): they share
nothing but threads, whose steps may fall between any two of a plug-in's own.

### Hiding, Outputs, Switching, Gui (gui/bar.c, window.c, popup.c, menu.c, monitor.c, switcher.c)
`Hiding`: the list of what holds a window (`window_ref`, `window_unref`), the
sensor's timer, the revealer, the pointer, pop-ups with and without autoclose,
a menu, a drag. GTK's revealer, grabs and crossings are external; what the bar
believes of the pointer may be wrong (`odd`). `Outputs`: GDK's outputs, whose
names come later than they do, the surfaces that the compositor closes, the bar
and its mirrors. `Switching`: the window list, the countdown and the choice.
`Gui` has the three side by side.

## 3. The runs

| run | instance and bounds | checks | shows |
|---|---|---|---|
| wifi_providers | two providers, five changes of daemons | TypeOK, OneProviderRuns, ActiveIsFirstReady, ProviderReported, SettlesOnFirstAvailable | the hand-over between providers under every order of two threads |
| provider_reported | PulseAudio and ALSA, four changes | ProviderReported (violated) | ALSA's own clearing of `active` comes after main has set it again |
| drivers | each of six compositors: two windows, up to four workspaces of three names, two pagers, of which the left one has a pin (under Wayfire, whose driver makes the names of its cells, one of another name); three actions, two of them through the bar | TypeOK, References, Mirrors, PinsShown, PagerShowsFocus, TaskbarShowsState, Follows | references and pointers survive every order of events, answers and trees, the pager that pins a workspace and the one that does not show the focus, and the bar implements `Mirror`, but for what the properties name |
| sway_two_pins | Sway, two pins in both pagers, four acts | FocusAlwaysShown (violated) | a reference is given to another pin, so that the focused workspace turns back into a pin and stays drawn as focused |
| scan_files | two files, two matches each, three scans, three aggregators | TypeOK, AggregatedIfHeard, KeepsPrevious | a value is that of one scan under the stated conditions |
| expr_shown | a polled volatile label and a button made later, two variables, two assignments | TypeOK, FreshUnlessRaced, VolatileShown | what caching and the threads guarantee |
| expr_trigger | a label with a trigger, two assignments | TriggeredShown (violated) | an assignment during an evaluation is lost |
| code_meant | expressions and actions of each production, calls and recursion | TypeOK, ResultAsMeant, StackKept, ValidIsStable, Ends | code computes the meaning, and a call leaves its callers' frames and no rest |
| code_nested | a comparison whose operand is a comparison | AlwaysAsMeant (violated) | one byte for two operations |
| tray_items | one application, another bar, two changes or menus opened | TypeOK, TrayShowsItems, RepliesBeforeFree, MenuShowsLayout, Settles | the tray under each watcher, with late replies |
| plugins_shown | MPD: three songs (picture of two chunks in the file, of one in the directory, none), a change by others, two commands, one lost connection; bluez: a device at any stage; IWD: two networks; NetworkManager: two networks over three access points; notifications: two applications, one of whose expire, three acts; PulseAudio: two sinks and a client; ALSA: a range of five steps, three turns; network: two interfaces, counters modulo 3, four moves; clients: each kind, three acts; an act may be a restart of the service | TypeOK, CommandsRun, SongShown, ShownAsIs, NotificationsShown, MixerShown, Settles | protocols without request numbers stay in step; the pop-ups show what the services have |
| gui | a bar with a sensor, two pop-ups, a menu, five acts; a bar and mirrors over three outputs, five changes; four windows, a countdown of two ticks, four events | TypeOK, HeldOpen, BarSettles, Placed, SwitcherTakes | what is open holds its bar open and a bar that is left hides; no output ever has two windows of a bar; the window that was shown is focused |

Why these bounds. Two of each kind of actor are enough for a race between
actors; four slots and two or three names let a slot be freed and reused while
others live; two changes are the fewest that put one event before and one
after a snapshot, and three let a workspace be made, left and made again while
events of it are on their way. A picture of two chunks is the smallest with a
follow-up command, and an answer that is an error needs a song with none. Five
acts open one pop-up from another's bar, close both and leave. Three outputs are
one for the bar, one for a mirror and one that is a target of neither. The
bounds stop the environment, not the program, so each cfg with bounds says
CHECK_DEADLOCK FALSE: the system may rest when nothing happens any more.

`Quiet` (or `Idle`, `Rest`) in an invariant says that nothing is in flight: the
program promises nothing about a table while its messages are on their way. Each
run reaches quiet states after every kind of event; the liveness properties
(`Follows`, `Settles`, `BarSettles`, `VolatileShown`,
`SettlesOnFirstAvailable`) say that they are reached. `SwitcherTakes` is a property of
steps.

## 4. Fairness

Weak fairness is assumed of steps that a thread takes when it has something to
do: main's and the module thread's handlers (GLib dispatches sources of equal
priority in order), the pool, the scanner thread, timers, and of the other
programs' answers where a property needs them (an application that is alive
answers a call; the compositor, the MPD server and the services read their
requests, end a scan, a pairing and a connection one way or the other, and a
bus service that exited starts again; a client source's need not). No fairness is
assumed of users, applications that change, other bars, connections that are
lost, lines that come in pieces, or of which daemons run. In `Plugins`, `Works`
as a whole is fair, and so is that a message is taken (`MessageTaken`) and that a
trigger is handled (`TriggerTaken`), so that a stream of one kind of work does
not starve another: they are on different threads. In `Drivers`, what the driver
reads, what the compositor reads and the driver's start are fair each by itself. In `Gui`, `Works` is: the timers, the revealer,
idle callbacks and the compositor's answers.

## 5. The proofs

`ModuleInterfaceProofs`, for every set of providers, every number of changes and
any load order, assuming `SelfClearing = {}` (no provider writes the core's
flag, true of both wifi providers and of PulseAudio):

* `Invariance`: `Spec => []IInv`. The flags alone are not inductive: what runs
  lags behind what is selected by the callbacks that wait. `IInv` adds
  `FlagsInv` (what the flags are at each step of a selection) and `QueueInv`
  (the callbacks that wait alternate, each deactivate names the one that runs
  when its turn comes, and after the last one what main has selected runs).
* `TypeCorrect`, `OneRuns`, `FirstReadyIsActive`, `ReportedWhenQuiet`: the run's
  type invariant and three safety properties, each a consequence of `IInv`.

The assumption is needed: provider_reported shows the last one false without it.

`ExpressionsProofs`, for every number of widgets and variables, assuming
`Branching = {}` (`Plain`: each expression reads the same variables every time):

* `Invariance`: registration is complete before an expression can be valid, and
  no list of dependants that is in use is replaced. It is stated over the steps
  of all threads: an evaluation has registered with what it has read so far, or
  holds the list it is about to put back.
* `ValidIsFresh` (`FreshUnlessRaced`) and `TypeCorrect` follow.

With branches two threads can each make the first list of a variable, and one
registration is lost (section 7).

`ScanVarProofs`, for any number of files, matches and scans, any numbers matched
and an invalidation at any step, with no assumption but the constants' types:

* `Invariance`: between two steps the variable's value is that of the latest
  scan that matched, unless a scan is under way that has matched (`ValInv`); in a
  scan that no invalidation fell into, the variable is invalid until the first
  match and valid from there on, and its previous value is that of the scan
  before (`ScanInv`); after such a scan so it remains (`PrevInv`).
  `KeepsPrevious` alone is not inductive: it says nothing during a scan.
* `FieldsCorrect` (`TypeOK`) and `PreviousKept` (`KeepsPrevious`) follow.
* `PickedAsSaid` (`AggregatedIfHeard`), for the aggregators First and Last: with
  one more conjunct, `PickInv`, the value at each step is the match that the
  aggregator picks of those so far. That Sum and Product are folds over the matches
  is checked by TLC only.

`OnePluginProofs` has the proofs of three parts that keep the variables of `Plugin`,
each alone: ALSA, the client sources (the instance `Cl`) and the notification centre (`Nt`).
Of ALSA by itself, for any range of levels and any number of turns (`RangeAssumption`: at least three levels, whole percentages):

* `CopiesAreFollowed` (`CopiesFollow`): a mixer's copy, from which the next
  change is computed, is the card's or the mixer's descriptor is readable, over
  openings, hand-overs and changes by others in any order. With the types
  (`TypeInv`) it is inductive; a change made from a stale copy is the step to
  look at (`UserKeeps`).
* `LevelsKeptInRange`: no level leaves the range (`ClampInRange`).
* `LevelIsAsMeant` (`LevelAsMeant`), if the range begins at 0 and percentages are
  0 to 100 (`PercentAssumption`): the arithmetic of `alsa_volume_set`. The lemma
  `SetAsMeant` is for any range: it abstracts the product of the percentage and
  the range to a number (`StepsOfUp`), and the average of the channels moves
  along with both (`AverageShifts`). Without a range from 0 it is false
  (section 7).

* `CardIsShown` (`CardShown`): with nothing under way, rows are there if and only if
  the plug-in is the provider, and show the card. This speaks of rest only; what
  is inductive (`ShownInv`) is how three threads of control get there. `ChoiceInv`:
  once main's posts are done its choice follows PulseAudio; the callbacks that wait
  alternate and end with the choice (`Linked`). `MixersInv`: the mixers are there
  only with the functions, all of them once they were looked for, one the default.
  `RowsInv`: the triggers on their way, handled in order, leave a row for each
  mixer and none for another (`Comes`, `Goes`), and a row that is not as the
  plug-in has it is to be read again (`Renewed`). With `CopiesFollow` a row that is
  as the plug-in has it is the card's once no descriptor is readable (`AtRest`). It is not
  promised once the mixers bailed out (`early`), nor, until the next deactivation,
  once they were opened twice (`again`; section 7).

In the run plugins_shown all but the second are part of `MixerShown`, and the
second of `TypeOK`.

`MpdProofs`, for any songs with covers of any size, any number of commands,
changes by others and lost connections:

* The inductive invariant `Session` is what keeps the two sides in step although
  a reply does not say what it answers. `AskedOnce`: one command at a time is with
  the server, the current one (or the "clearerror" that an error caused), besides
  the "noidle" that follows an "idle" or is left from it. `Answers`: the lines on
  their way are of the reply to the current command, complete before the server
  waits. `Busy`: the current command is "idle" while the server waits, and when it
  does not wait, a reply or a command is under way. `Noticed`: when commands wait
  behind "idle", a "noidle" follows it. `NoLink`: nothing is on its way to the
  server without a connection, though the queue of the old one is kept.
* `AnswersInPhase` (`InPhase`) and `OnlyNoidle` (`IdleIsRespected`) follow.
* `RunInOrder` (`CommandsRun`) needs `InOrderAll`: what was run, what is on its
  way and what waits, one after another, are the commands in the order of the
  user's acts, in every state and not only at rest.
* `SongIsShown` and `CoverIsShown` need `Known` and `Covered`: a song or a cover
  that is not the server's has a command in the queue, or a change that is yet
  to be told, that will fetch it.

Of the client sources by themselves (its last section, in which `Cl` is `Clients`),
for any values and any number of acts: `ClientInv` has the types and what a lost connection leaves behind
(`Stands`), that a command which waits behind the daemon's "idle" has its "noidle"
on the way, and that a daemon that does not wait has something to read or has
answered (`Listens`), the order of the commands that were run, are on their way
and wait (`InTurn`), that a value that is not the service's is asked for, on its
way or about to be told (`Follows`), and that a value that is not shown has its
trigger waiting (`Shown`). `ValueIsShown` (`ShownAsIs`) and `RunInOrder`
(`CommandsRun`) follow. What `InTurn` says of commands that are missing is that one
was on its way when a connection was lost, or was written to one that the service
had closed (`lost`); after a question was cut off (`cut`) `Follows` says nothing.

The proof found a slip of an earlier version of `Clients`: the guards of `Serves`
overlapped, so that TLC took the first that held and the formula did not say so.

Of the notification centre by itself, for any applications and
any number of acts (`NotesAllowed`: there is an application, and none is
called "none"). `NotesAreShown` (`NotificationsShown`) speaks of rest only; what is
inductive is that whoever is behind the list catches up with it:

* `Tells`: the rows, once the triggers on their way have been handled in order,
  have a row for each notification with its last contents; so do the clients,
  once they have read what they are sent. Triggers and messages are read as a log
  (`TriggerLog`, `MessageLog`) in which the last entry for an id counts, and
  one lemma each says what reading the oldest and adding a new one do to it.
* `Drawn`: the last trigger on its way is "notification-group", which draws all
  rows anew from the list; without a trigger they are drawn as the list is now.
* `Expanded`: an expanded group has a member (`Close` clears it with the last).
* `Apart`, `Fresh`, `OneOwner`, `OwnCalls`: ids are distinct, a new one is above all
  that are in use, and an id belongs to one application: without this a
  client could replace a notification by one of another group. These, `Tells` and
  `Expanded` are promised until an id was given out twice (`collided`), which
  can happen to clients that are older than the bar.
* `Types`, `Dated`, `Asked`: the types, memory and timers named after calls
  that were made, calls for ids that were given out.

`DoesInTurn` folds over the triggers of a handler; a fold is a CHOOSE of a
recursive function, and `FoldNone` to `FoldTwo` exhibit that function for the
handlers' lists of at most two, as `QueuedUpToThree` does for three.

`PluginsProofs` lifts the four to the module that is checked: each step of
`Plugins` while one of these is looked at is a step of that module, or leaves
its variables alone, so its invariant is one of `Plugins` too, under the
assumptions that `Plugins` makes of its constants and TLC evaluates.
`AllCommandsRun` (`CommandsRun`), `TheSongIsShown` (`SongShown`) and
`TheNotesAreShown` (`NotificationsShown`) are properties of the run plugins_shown,
word for word. `TheCardIsShown` is `MixerShown` whichever plug-in is looked at but
PulseAudio, under `PercentAssumption`; `ClientsShown` is `ShownAsIs` for the client
sources only, and `TypeOK` for the four.

`StatusNotifierProofs`, of the tray, for any applications, properties, layouts and
numbers of changes. It assumes of the constants what `StatusNotifier` does: the applications and the properties are
finitely many, a property has a value from the start (`PropsAssumption`), and an id
names one item of a menu (`LayoutsAssumption`).

* A step is seen as a handler from a state of items, icons, menus, messages and
  calls to the next (`States`, `Now`), in the order in which the action
  composes them: a lemma per handler says what it does (`SignalDoes`, `PropDoes`,
  `UpdatedDoes`, ...), and the invariant is of such states, so that it need only
  hold again at the end.
* `Base` is the inductive invariant behind all the rest: the types; that messages
  and calls name items that were made, and are those of the item's own application
  (`Points`); that icons and live items are one to one, and no two live items one
  application's (`Paired`); that a live item waits for as many replies as
  there are of its properties on their way or still to be sent (`Counts`), which is
  why the count neither goes below zero nor holds an update for ever; that
  a menu with a revision has its timer (`Timed`); and that an application that is
  gone is asked nothing more (`Silent`).
* The replies on their way are counted over a sequence of messages, and a
  sum over a sequence is a recursive function on numbers. The library's rules for
  recursion and induction cannot be instantiated here, so `Induction` and
  `Recursion` are derived from the well-foundedness of the numbers
  (`NatLessThanWellFounded`, `WFMin`), and `Counted` from them.
* `TypeCorrect` (`TypeOK`) follows.
* `MenusShowLayouts` (`MenuShowsLayout`) adds `Menus` to `Base`, of every state and
  not only at rest: no menu and no answer on its way is ahead of its application's
  layout, one of the same revision has what that layout has (menus are compared
  by the layout's items in the user's order, `ShowsLayout`), and as long as the
  application is there a menu that is behind has been asked for, has its answer on
  its way, or is about to be told (`Fetched`).
* `RepliesFindItems` (`RepliesBeforeFree`): the count of calls is `Counts`; that
  nothing is on its way to an item that is freed needs `Alone`, of the states before
  another bar has owned the name (`OnlyBar`). An application registers once, after
  the host has subscribed (`Watching`); the watcher takes it in once and tells the host
  (`Entered`, `Held`); when it quits the watcher's notice, then the failures of its
  calls are put behind all that it has sent (`Ended`); so when the watcher handles
  the notice the host knows the item, no signal of it is left that could make
  the host ask again, and the failures that are still to come are ahead of the
  message to the host (`Buried`). The item is freed there, and its
  application sends nothing more (`Dead`). Once there has been
  another bar this does not hold, and the property does not speak of it: an
  application that is in the list another bar has sent may quit before the list
  is delivered, so the host makes an item, asks a process that is gone, and frees
  the item with the failures of its calls still to come.
* `IconsShowItems` (`TrayShowsItems`), in `TrayIconsProofs`, which extends the
  module: whichever bar is the watcher and however often the name changes
  hands. It adds to `Base` `Registry`, three invariants of every state.
  `Drawn`: an icon that is out of date is on the grid's list, and one that is not
  shows its item's properties. `Contents`: each property of a live item whose
  application runs is the application's, or a signal about it is on its way, or it
  is asked for, or the last of the answers on their way has its value (`Renewed`):
  an answer that is older is always followed by a newer one. `Era`, of who is
  registered with whom: an application that has registered with the present owner
  of the name is in that watcher's list or on its way there, unless
  the bar is about to hear that it lost the name (`Enrolled`, `Calm`); who is in a
  list has an item, or what will make one is on its way (`Listed`); and who is gone
  and was watched has no item and gets none, or its watcher will hear of it, or the
  last that the host hears of it is that it is gone (`Absent`, `Parted`). At rest
  nothing is on its way, and each of them says what the property does.

Each proof has one step per action and under it one per conjunct that the
action can disturb.

## 6. Limits

Only model-checked: all liveness and the refinement of `Mirror` (the prover does
not reason about fairness and ENABLED); the compiler and machine (recursive
operators, and induction over programs); everything of the drivers, Bluetooth, both
wifi services, the network, PulseAudio and the GUI; of the tray, that it settles. PulseAudio's part of `MixerShown` is not
proved because `InfoCb` and `Deactivate` handle lists of any length one device at a
time: each needs an induction over the list like those of `StatusNotifierProofs`.

Not modelled: listed with a reason in `PROJECT.json`. What remains is drawing
and geometry, conversions of strings, operating-system calls, and the
configuration, which is read once before anything else runs. In the modelled
parts: window pins, filters, titles and the placer; grouped taskbars; more than
one output in the drivers; a second tray; tooltips and pixmaps; array values and
division; calculated scanner variables, JSON and regular expressions (a match is
a number); `MpdServer()`, search results; sources and channels of PulseAudio;
several adapters, devices or cards; `bar_set_sensor` and mirrors' targets that
change while the bar runs; tooltips over the switcher; the framing of JSON
messages on a socket.

Abstractions a reader should know: GLib's contexts are FIFO at equal priority;
D-Bus and sockets are reliable and ordered while they are up; memory that was
freed is a mark, and reading it is a violation of a property, not a value (but for a
freed string of `Protocols`, and a freed key of `Alsa`, which may compare either way;
a second free of either is not followed);
numbers are unbounded integers except where a counter's width matters
(`Network`); ALSA's way from a level to a percentage and back, in doubles, is
exact (a level may be truncated to the one below in some ranges); time passes only as "a timer may fire"; main posts PulseAudio's
retry within its second; an address is not reused in `Switching`; a service
tells a client source its value when it connects; a group of workspaces that can
create one is known by the time the pagers are first drawn. A trigger like one that
already waits for the same object is left out: its handler would read the same
table again.

The hazards without a property have a note in `PROJECT.json`. The list there names
the worst of each kind; others that the models have and the same properties
cover are the snapshots and the subscription at Sway's start, which are separate
requests (sway.c:638), Hyprland's workspaces that are made and not committed
(hyprland.c:409), a workspace that is gone to as it turns up under a name
(ext-workspace.c:94), a file of a pattern without a match (scanner.c:221), and
jumps that are patched by counts of bytes (parser.c:213). One that no property
covers: the scanner thread sleeps until the next poll of a widget that may be
invalidated earlier, and for good if every polled expression is valid
(basewidget.c:1210).

## 7. Where the code and its documents differ

Each has a run that shows it:

* `alsa_deactivate` clears `active` on the module thread after main has selected
  ALSA again: `InterfaceProvider()` is empty while ALSA runs (provider_reported).
* `sway_ipc_workspace_new` counts the reference of an adopted pin on the first
  pin of the list (sway.c:231): with pins 2 and 3, the user goes to 2, opens a window
  there and closes it, which gives back the last reference of 2, so that it turns back
  into a pin although it is focused; nothing draws its button again, and when the
  user goes to 1, both 1 and 2 are shown as focused (sway_two_pins).
* `vm_run` computes a value and clears `expr->invalid` afterwards: an assignment
  in between is not shown until the next one (expr_trigger).
* `=` after a comparison is taken for the second half of `<=` (code_nested).

Met while modelling, excluded from the properties by a named condition, or of
parts that are left out:

* Workspaces. A clean focused workspace ignores a second flag
  (workspace.c:260). A workspace that turns back into a pin is taken out of
  pagers that do not pin it and not put back (workspace.c:93-98, pager.c:46-50;
  `lost`), and stays drawn as it was, focused for one, in those that do (`undrawn`).
  A pin is adopted without an invalidation, so a pager that does not pin it shows it
  as inactive until it next changes. A window on a workspace that has become a pin
  gives back the reference of the first pin (wintree.c:292-296; `uncounted`).
  `wt_focus` keeps the id of a closed window.
* Niri. The driver passes a pointer where an id is wanted, so that a pin that it
  takes over gets no reference (niri.c:304-313; `uncounted`).
* Wayland protocols. A wish that was met is freed, and stays in the list:
  `g_list_remove` is given the node where it wants the data (ext-workspace.c:97-98,
  cosmic-workspaces.c:70-71), so that the next name is compared with freed memory,
  and what it is found equal to is freed again.
* Sway. "fullscreen" and "urgent" are changed without a commit, and the next
  tree finds no difference. `DisownMinimized` has no effect: a NULL workspace is
  ignored. What changes between the snapshots and the subscription is lost.
  XWayland windows that are tiled are not in the first tree's additions.
  "rename" is not handled.
* Scanner. `Product` starts from 0 and stays 0. A file of a pattern with no
  match ends the fold that follows. `count` is cleared by the first match only. An
  invalidation during a scan renews the source and not the variable.
  A scan thread that finds no widget due with interval sleeps for good.
* Expressions. `expr->quark` is never assigned, so calculated variables do not
  pass an invalidation on. Two threads that register first dependants of a
  variable at the same time lose one. A pool thread that holds a source's mutex
  while a native function waits for main meets main waiting for that mutex.
* Machine. `%` by zero is an integer division by zero. More than 255 locals wrap
  around. A comparison at the end of the code looks at the byte behind it
  (vm.c:149): the model takes any. `Cached()` within `Cached()` clears the flag. `ExecRead`, `Ident` and
  `ElapsedStr` are registered as deterministic. `config_parse_sequence` clears an
  earlier error. An array literal as an action's first parameter is rejected.
* Tray. The watcher's object goes away when the bar is told that it lost a name
  it still owns; its list is freed and the pointer kept (sni.c:178), which is looked at
  when the bar owns the object again. `sni_items` never shrinks. A submenu's layout takes the revision
  and is shown nowhere. With no watcher, icons of applications that quit stay.
* MPD. A tag the new song lacks keeps an earlier song's value, and so does the
  cover. A command that waited when the connection was lost is sent to the next
  one: a second "currentsong" ahead of a cover command makes the loader mix two
  pictures. `MpdServer()` leaves the first connection's watch. A chunk that has
  not arrived in full is read short. A closed TCP connection is an end of file,
  not a hang-up, and is polled for ever.
* Bluetooth. The callbacks of connect, trust and pair get a device that may be
  freed (bluez.c:257): after that `ShownAsIs` is not stated (`stray`). A device
  is freed when any of its interfaces goes away, a battery's for one (`parted`).
  A request for all objects may be answered by the next instance (`crossed`).
  When the service exits the adapters are not freed: bz_adapter_free is given
  the adapter where it wants a path. A second adapter's properties are dropped.
* IWD. `iw_deactivate` says nothing of the networks it forgets, so rows of
  networks that are gone when the daemon returns stay, and it keeps its
  subscriptions. Strengths are unknown, shown as 100 %, until the first scan
  after the start has ended; `iw_scan_start` in `iw_device_get` runs before the
  device is in the list and starts none. A request for a network that is not in
  the table is never answered. A scan that the daemon refuses leaves
  "Scanning ...". A network that changes section leaves an empty row. The
  agent's XML says RequestUserPassword, the code RequestUserNamePassword.
* Notifications. Ids start at 1 again when the bar is restarted, and a client
  that still holds one replaces or closes another's (`collided`). A replaced
  notification loses the handle of its timer, which fires on the new contents or
  after the free (`stray`).
* PulseAudio. New devices are not asked for, so a row comes with the first change,
  and what changes between the first answers and the subscription is not heard
  of (`untold`). A removal emits no "volume" trigger (`unsaid`). A context that is
  replaced is used by the callbacks of the old one (`stray`).
* ALSA. Mixers bail out if the activate callback runs before main has set the
  flag (module.c:59, alsactl.c:249; `early`). A plug-in that is chosen, given up and
  chosen again before its thread is idle subscribes twice: the second time announces
  each mixer, then destroys the one that it takes the place of, which announces it as
  removed, so that the rows go, and the table's key is freed memory (alsactl.c:283-286,
  219; `again`). `alsa_api_parse` returns the playback
  controls for "source-" (alsactl.c:360). A volume is set off by the lowest level
  when that is not 0 (alsactl.c:431). Mixers are dispatched on main and read
  without a lock on the module thread (alsactl.c:274).
* Network. A reply in two datagrams clears the route (network.c:364; `large`).
  RTM_DELADDR of any address frees the interface (network.c:108; `lone`), and
  RTM_NEWADDR is not handled. A rate before the first poll is a division of zero
  by zero (network.c:670). `ifa_addr` may be NULL (network.c:151).
* NetworkManager. `nm_active_free` emits no trigger, so the row stays connected
  (`left`). An access point that goes leaves its strength (`weak`). A secret that is
  asked for before the connection's settings are known opens no dialog
  (`unasked`). A request that is cancelled closes the dialog, whosever it is
  (wifi-nm.c:280), and leaves those that wait behind it waiting (wifi-nm.c:266-270;
  `unasked`). A duplicate connection frees the key in use (`stray`). The second test of
  `nm_iface_active` is never reached, so connections that fail are not forgotten
  (wifi-nm.c:757). `nm_strength_threshold` is never set. The condition of
  DeviceStrength is inverted. The device is not cleared when the service restarts.
* Drivers. Hyprland's windows have no workspace at the start, and its workspaces
  are committed only by a focus or an urgent event. Wayfire commits none, never
  subscribes to "output-wset-changed", and `wayfire_ipc_move_to` goes by the cell
  that the bar believes is shown.
* Clients. What is written to a connection that the service has closed is buffered,
  and nobody looks at what became of it (mpd.c:65-76, client.c:228): a command of the
  queue is lost with it (`lost`), and the branch for a failed write (client.c:69-73) is
  not reached. A line that arrives in part is taken for an error, and the
  connection made anew (client.c:56). The daemon's flag is flipped by each
  batch of lines: when an answer comes in two, a question is sent while the
  daemon waits in "idle", which makes it close; and after a loss between a
  question and its answer the bar waits for a change instead of asking again
  (mpd.c:71; `cut`). A program that cannot be started is not tried again.
* Bars. What a bar believes of the pointer may be wrong (`odd`): crossings while
  the sensor is blocked, a pointer that leaves while the bar still slides in
  (bar.c:57), an autoclose pop-up or menu that closes and takes the bar's own hold
  with it (menu.c:119), crossings that a grab swallowed, a timer that meets the
  sensor's child (bar.c:134). A pop-up that is opened from a pop-up closes it
  and holds only the hidden one, so the bar may hide. Turning the sensor
  off while the bar is hidden leaves it hidden (bar.c:1031); `bar_set_show_sensor`
  passes the delay to mirrors as their transition. Without a transition the
  revealer tells before `hide_complete` is connected.
* Outputs. A mirror that is made while its bar is hidden is shown, and a static
  bar without its output is, when its visibility is toggled, against
  doc/sfwbar.rst:410 (`late`).
* Switcher. Nothing clears the choice when its window closes (switcher.c:68-71), and
  it is read after it was freed (switcher.c:53 and 187; `stray`).
* Others. A partial JSON message shifts the framing (util/json.c:55).
  `trigger_remove` stores under a name that is not interned. The pager inside a
  taskbar compares NULL names. `workspace_t` pointers of a removed ext-workspace
  group stay.

## 8. The plan

Done: 1 arbitration, 2 the two tables with the drivers of Sway, Hyprland, Niri,
Wayfire and the Wayland protocols, and the refinement of `Mirror`, 3 scanner and
expressions, 4 compiler and machine, 5 tray, 6 MPD, 7 the other plug-ins, 8 bars,
outputs, pop-ups and the switcher, 9 client sources; proofs of the arbitration,
of cached expressions, of scanner variables, of ALSA's levels and rows, of MPD's
session, of the client sources, of the notification centre, and of the tray's
safety properties, all four.

What is worth doing next:

* calculated scanner variables over `Expressions` and `ScanVar`, for the
  invalidation that stops at `expr->quark` (vm/expr.c:102);
* the mutexes of sources against main's queue (vm/vm.c:195), as a run that looks
  for a deadlock;
* the framing of JSON messages (util/json.c) under `Driver`, for the drivers that
  share it;
* appmenu.c over the list of applications: an application that is removed in the
  second before it is added, or filtered after that.

Proofs, in order of worth: `ShownAsIs`, with Bluetooth, both wifi services and the
network, each with a log of triggers as for the notification centre; `References` from an invariant on
reference counts in `Workspace`.

Properties are few by intent; a deeper one replaces a shallower one.
