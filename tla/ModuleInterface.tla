-------------------------- MODULE ModuleInterface --------------------------
(***************************************************************************)
(* Provider arbitration of one plug-in interface (src/src/module.c).       *)
(*                                                                         *)
(* Several plug-ins may provide the same interface: alsactl and pulsectl   *)
(* provide "volume-control", wifi-nm and wifi-iwd provide "wifi".  The     *)
(* core keeps the providers in load order, and the first one that is       *)
(* ready is meant to be the one that runs.  Two threads take part:         *)
(*                                                                         *)
(*   main    loads the modules and arbitrates: every readiness change is   *)
(*           sent to the default main context (mainQ);                     *)
(*   module  the thread shared by all modules with MODULE_THREAD_MODULE    *)
(*           (every provider in the repository): it runs the modules' init *)
(*           functions, their event handlers and the activate/deactivate   *)
(*           callbacks that main posts to its context (ctxQ).              *)
(*                                                                         *)
(* iface_providers is one list for all interfaces, but every search of it  *)
(* filters on the interface, so that one instance of this module describes *)
(* one interface.  Both queues are FIFO: g_main_context_invoke attaches    *)
(* one-shot sources of equal priority to a context of another thread.      *)
(***************************************************************************)
EXTENDS Naturals, Sequences, FiniteSets

CONSTANTS
  Providers,      \* the modules that provide the interface
  None,           \* "no provider": a NULL list link
  Fixed,          \* providers whose readiness is decided once, by their init (alsactl)
  SelfClearing,   \* providers whose deactivate callback also clears "active" (alsactl)
  WaitsInactive,  \* providers that reconnect only once they are not active (pulsectl)
  DownPosts,      \* how often a provider reports that it went down (pulsectl: twice)
  MaxChanges      \* bound on the changes of the providers' daemons

ASSUME NoneAssumption == None \notin Providers
ASSUME SubsetsAssumption ==
  /\ Fixed \subseteq Providers
  /\ SelfClearing \subseteq Providers
  /\ WaitsInactive \subseteq Providers
ASSUME BoundsAssumption ==
  /\ DownPosts \in [Providers -> 1..2]
  /\ MaxChanges \in Nat

VARIABLES
  module_list,     \* names that module_load has accepted, kept even if init fails
  iface_providers, \* the providers added so far, in load order
  ready,           \* ModuleInterfaceV1.ready
  active,          \* ModuleInterfaceV1.active
  up,              \* is the provider's daemon (or sound card) there
  initialised,     \* providers whose init function returned TRUE
  mainQ,           \* readiness changes waiting for the main loop
  ctxQ,            \* callbacks waiting for the module thread
  pc,              \* where main is: "idle", or inside module_load / module_interface_select
  cur,             \* main's locals: the module being loaded, the new and old providers
  running,         \* providers whose activate callback ran last
  funcs,           \* whose functions (volume, wifiget ...) the VM's table holds
  changes          \* number of daemon changes so far

vars == <<module_list, iface_providers, ready, active, up, initialised, mainQ,
          ctxQ, pc, cur, running, funcs, changes>>

Maybe == Providers \cup {None}
Message  == [op : {"activate", "deactivate"}, prov : Providers]
Callback == [op : {"init", "activate", "deactivate"}, prov : Providers]
Locals   == [load : Maybe, result : BOOLEAN, new : Maybe, old : Maybe]
NoLocals == [load |-> None, result |-> FALSE, new |-> None, old |-> None]

Msg(op, p) == [op |-> op, prov |-> p]
Copies(m, n) == [i \in 1..n |-> m]

Init ==
  /\ module_list = {}
  /\ iface_providers = <<>>
  /\ ready  = [p \in Providers |-> FALSE]
  /\ active = [p \in Providers |-> FALSE]
  /\ up     = [p \in Providers |-> FALSE]
  /\ initialised = {}
  /\ mainQ = <<>>
  /\ ctxQ  = <<>>
  /\ pc = "idle"
  /\ cur = NoLocals
  /\ running = {}
  /\ funcs = None
  /\ changes = 0

----------------------------------------------------------------------------
(* The main thread *)

\* g_list_find_custom: the first element of a list that belongs to S
FirstIn(list, S) ==
  IF \E i \in DOMAIN list : list[i] \in S
  THEN list[CHOOSE i \in DOMAIN list :
              list[i] \in S /\ \A j \in 1..(i-1) : list[j] \notin S]
  ELSE None

FirstReady(list, rdy)  == FirstIn(list, {p \in Providers : rdy[p]})
FirstActive(list, act) == FirstIn(list, {p \in Providers : act[p]})

\* Faulty variant: the old provider is not deactivated when a new one takes over
SelectNoHandOver(list, rdy) ==
  LET new == FirstReady(list, rdy)
      old == FirstActive(list, active)
  IN  IF new = old
      THEN /\ pc' = "idle" /\ cur' = NoLocals /\ UNCHANGED ctxQ
      ELSE /\ cur' = [NoLocals EXCEPT !.new = new, !.old = old]
           /\ IF new = None
              THEN ctxQ' = Append(ctxQ, Msg("deactivate", old)) /\ pc' = "clear"
              ELSE ctxQ' = Append(ctxQ, Msg("activate", new)) /\ pc' = "set"

\* module_interface_select up to its first post: find both links and, if the
\* selection changes, post the first callback.  The flags follow in later
\* steps, because the module thread may run between a post and its assignment.
Select(list, rdy) ==
  LET new == FirstReady(list, rdy)
      old == FirstActive(list, active)
  IN  IF new = old
      THEN /\ pc' = "idle" /\ cur' = NoLocals /\ UNCHANGED ctxQ
      ELSE /\ cur' = [NoLocals EXCEPT !.new = new, !.old = old]
           /\ IF old # None
              THEN /\ ctxQ' = Append(ctxQ, Msg("deactivate", old))
                   /\ pc' = "clear"
              ELSE /\ ctxQ' = Append(ctxQ, Msg("activate", new))
                   /\ pc' = "set"

\* Faulty variant: the new provider's callback is posted without a NULL check
ClearOldUnchecked ==
  /\ pc = "clear"
  /\ active' = [active EXCEPT ![cur.old] = FALSE]
  /\ ctxQ' = Append(ctxQ, Msg("activate", cur.new))
  /\ pc' = "set"
  /\ UNCHANGED <<module_list, iface_providers, ready, up, initialised, mainQ,
                 cur, running, funcs, changes>>

\* old->active = FALSE, then the activate callback is posted if there is a new one
ClearOld ==
  /\ pc = "clear"
  /\ active' = [active EXCEPT ![cur.old] = FALSE]
  /\ IF cur.new # None
     THEN /\ ctxQ' = Append(ctxQ, Msg("activate", cur.new))
          /\ pc' = "set" /\ UNCHANGED cur
     ELSE /\ pc' = "idle" /\ cur' = NoLocals /\ UNCHANGED ctxQ
  /\ UNCHANGED <<module_list, iface_providers, ready, up, initialised, mainQ,
                 running, funcs, changes>>

\* new->active = TRUE
SetNew ==
  /\ pc = "set"
  /\ active' = [active EXCEPT ![cur.new] = TRUE]
  /\ pc' = "idle"
  /\ cur' = NoLocals
  /\ UNCHANGED <<module_list, iface_providers, ready, up, initialised, mainQ,
                 ctxQ, running, funcs, changes>>

\* Faulty variant: a provider that gets ready does not displace an active one
DispatchSticky ==
  /\ pc = "idle"
  /\ mainQ # <<>>
  /\ LET m == Head(mainQ)
         rdy == [ready EXCEPT ![m.prov] = (m.op = "activate")]
     IN  /\ ready' = rdy
         /\ IF m.op = "activate" /\ FirstActive(iface_providers, active) # None
            THEN UNCHANGED <<pc, cur, ctxQ>>
            ELSE Select(iface_providers, rdy)
  /\ mainQ' = Tail(mainQ)
  /\ UNCHANGED <<module_list, iface_providers, active, up, initialised,
                 running, funcs, changes>>

\* The main loop dispatches module_interface_(de)activate_impl
Dispatch ==
  /\ pc = "idle"
  /\ mainQ # <<>>
  /\ LET m == Head(mainQ)
         rdy == [ready EXCEPT ![m.prov] = (m.op = "activate")]
     IN  ready' = rdy /\ Select(iface_providers, rdy)
  /\ mainQ' = Tail(mainQ)
  /\ UNCHANGED <<module_list, iface_providers, active, up, initialised,
                 running, funcs, changes>>

\* module_load: remember the name, send the init function to the module thread
\* and block until it has run (module_init)
Load(p) ==
  /\ pc = "idle"
  /\ p \notin module_list
  /\ module_list' = module_list \cup {p}
  /\ ctxQ' = Append(ctxQ, Msg("init", p))
  /\ pc' = "init"
  /\ cur' = [NoLocals EXCEPT !.load = p]
  /\ UNCHANGED <<iface_providers, ready, active, up, initialised, mainQ,
                 running, funcs, changes>>

\* module_load resumes; module_interface_add appends the provider and selects
LoadDone ==
  /\ pc = "loaded"
  /\ IF cur.result
     THEN /\ iface_providers' = Append(iface_providers, cur.load)
          /\ Select(iface_providers', ready)
     ELSE /\ pc' = "idle" /\ cur' = NoLocals
          /\ UNCHANGED <<iface_providers, ctxQ>>
  /\ UNCHANGED <<module_list, ready, active, up, initialised, mainQ, running,
                 funcs, changes>>

----------------------------------------------------------------------------
(* The module thread *)

\* Runs sfwbar_module_init and signals main's condition variable.  A provider
\* with a fixed readiness posts "activate" from here if its card exists.
RunInit(p) ==
  /\ ctxQ # <<>> /\ Head(ctxQ) = Msg("init", p)
  /\ ctxQ' = Tail(ctxQ)
  /\ pc' = "loaded"
  /\ \E ok, here \in BOOLEAN :
       /\ p \in Fixed => ok
       /\ here => p \in Fixed
       /\ cur' = [cur EXCEPT !.result = ok]
       /\ initialised' = IF ok THEN initialised \cup {p} ELSE initialised
       /\ up' = IF here THEN [up EXCEPT ![p] = TRUE] ELSE up
       /\ mainQ' = IF here THEN Append(mainQ, Msg("activate", p)) ELSE mainQ
  /\ UNCHANGED <<module_list, iface_providers, ready, active, running, funcs,
                 changes>>

\* The activate callback: vm_func_add of the provider's functions
RunActivate(p) ==
  /\ ctxQ # <<>> /\ Head(ctxQ) = Msg("activate", p)
  /\ ctxQ' = Tail(ctxQ)
  /\ running' = running \cup {p}
  /\ funcs' = p
  /\ UNCHANGED <<module_list, iface_providers, ready, active, up, initialised,
                 mainQ, pc, cur, changes>>

\* Faulty variant: every deactivate callback clears the core's flag
RunDeactivateClears(p) ==
  /\ ctxQ # <<>> /\ Head(ctxQ) = Msg("deactivate", p)
  /\ ctxQ' = Tail(ctxQ)
  /\ running' = running \ {p}
  /\ funcs' = IF funcs = p THEN None ELSE funcs
  /\ active' = [active EXCEPT ![p] = FALSE]
  /\ UNCHANGED <<module_list, iface_providers, ready, up, initialised, mainQ,
                 pc, cur, changes>>

\* The deactivate callback: vm_func_remove drops a function only while the
\* table still holds this provider's one; alsactl also clears its active flag
RunDeactivate(p) ==
  /\ ctxQ # <<>> /\ Head(ctxQ) = Msg("deactivate", p)
  /\ ctxQ' = Tail(ctxQ)
  /\ running' = running \ {p}
  /\ funcs' = IF funcs = p THEN None ELSE funcs
  /\ active' = IF p \in SelfClearing THEN [active EXCEPT ![p] = FALSE] ELSE active
  /\ UNCHANGED <<module_list, iface_providers, ready, up, initialised, mainQ,
                 pc, cur, changes>>

\* The daemon appears: module_interface_activate posts to the main loop
DaemonUp(p) ==
  /\ p \in initialised \ Fixed
  /\ ~up[p]
  /\ p \in WaitsInactive => ~active[p]
  /\ changes < MaxChanges
  /\ up' = [up EXCEPT ![p] = TRUE]
  /\ mainQ' = Append(mainQ, Msg("activate", p))
  /\ changes' = changes + 1
  /\ UNCHANGED <<module_list, iface_providers, ready, active, initialised,
                 ctxQ, pc, cur, running, funcs>>

\* The daemon vanishes: module_interface_deactivate posts to the main loop
DaemonDown(p) ==
  /\ p \in initialised \ Fixed
  /\ up[p]
  /\ changes < MaxChanges
  /\ up' = [up EXCEPT ![p] = FALSE]
  /\ mainQ' = mainQ \o Copies(Msg("deactivate", p), DownPosts[p])
  /\ changes' = changes + 1
  /\ UNCHANGED <<module_list, iface_providers, ready, active, initialised,
                 ctxQ, pc, cur, running, funcs>>

----------------------------------------------------------------------------
MainStep == ClearOld \/ SetNew \/ Dispatch \/ LoadDone
RunCallback == \E p \in Providers : RunInit(p) \/ RunActivate(p) \/ RunDeactivate(p)

Next ==
  \/ ClearOld
  \/ SetNew
  \/ Dispatch
  \/ LoadDone
  \/ \E p \in Providers :
       \/ Load(p)
       \/ RunInit(p)
       \/ RunActivate(p)
       \/ RunDeactivate(p)
       \/ DaemonUp(p)
       \/ DaemonDown(p)

Spec == Init /\ [][Next]_vars

\* Both threads run their loops: a main step or a waiting callback that stays
\* possible is taken.  Nothing makes a module load or a daemon change.
Fairness == WF_vars(MainStep) /\ WF_vars(RunCallback)
FairSpec == Spec /\ Fairness

----------------------------------------------------------------------------
(* Properties *)

\* Every variable keeps its type.
TypeOK ==
  /\ module_list \subseteq Providers
  /\ iface_providers \in Seq(Providers)
  /\ ready \in [Providers -> BOOLEAN]
  /\ active \in [Providers -> BOOLEAN]
  /\ up \in [Providers -> BOOLEAN]
  /\ initialised \subseteq Providers
  /\ mainQ \in Seq(Message)
  /\ ctxQ \in Seq(Callback)
  /\ pc \in {"idle", "init", "loaded", "clear", "set"}
  /\ cur \in Locals
  /\ running \subseteq Providers
  /\ funcs \in Maybe
  /\ changes \in 0..MaxChanges

\* Callbacks are posted by one thread and run by another, but two providers
\* never run at the same time, and the functions a script calls are those of
\* the provider that runs: the old one is always torn down first.
OneProviderRuns ==
  /\ \A p, q \in running : p = q
  /\ funcs = None <=> running = {}
  /\ funcs # None => funcs \in running

\* Whenever main is not in the middle of a selection, the active flag is on
\* the first loaded provider that is ready, and on no other one.
ActiveIsFirstReady ==
  pc \in {"idle", "init", "loaded"} =>
    \A p \in Providers : active[p] <=> p = FirstReady(iface_providers, ready)

\* module_interface_provider_get, the value of InterfaceProvider()
ProviderGet == FirstActive(iface_providers, active)

Quiet == pc = "idle" /\ mainQ = <<>> /\ ctxQ = <<>>

\* doc/sfwbar.rst says of InterfaceProvider that it "Returns a name of a module
\* currently handling the specified interface": once both threads have nothing
\* left to do, the provider that runs is the one the function names.
ProviderReported == Quiet => running \ {None} = {ProviderGet} \ {None}

\* Loaded providers whose daemon is there
Available == {p \in Providers : up[p]}

\* Once daemons stop coming and going, the provider that runs for good is the
\* first loaded one whose daemon is there, whatever was pending before.
SettlesOnFirstAvailable ==
  <>[](running = {FirstIn(iface_providers, Available)} \ {None})

----------------------------------------------------------------------------
(* The inductive invariant behind OneProviderRuns and ActiveIsFirstReady     *)
(* when no provider clears its own flag (SelfClearing = {}).                 *)

\* The flags agree with the step of the selection main is in.
FlagsInv ==
  /\ pc \in {"idle", "init", "loaded"} =>
       \A p \in Providers : active[p] <=> p = FirstReady(iface_providers, ready)
  /\ pc = "clear" =>
       /\ cur.old \in Providers
       /\ cur.new = FirstReady(iface_providers, ready)
       /\ cur.new # cur.old
       /\ \A p \in Providers : active[p] <=> p = cur.old
  /\ pc = "set" =>
       /\ cur.new \in Providers
       /\ cur.new = FirstReady(iface_providers, ready)
       /\ \A p \in Providers : ~active[p]

\* The provider that runs once the module thread has handled all main posted
Posted == CASE pc = "clear" -> None
            [] pc = "set"   -> cur.new
            [] OTHER        -> FirstReady(iface_providers, ready)

\* The number of (de)activate callbacks that wait: an init is always the last
Pending == IF pc = "init" THEN Len(ctxQ) - 1 ELSE Len(ctxQ)

\* The provider that runs after the first k callbacks of q, if f runs before
After(q, f, k) == IF k = 0 THEN f
                  ELSE IF q[k].op = "activate" THEN q[k].prov ELSE None

\* Among the first n callbacks of q, each activate finds nothing running and
\* each deactivate finds its own provider.
Alternates(q, f, n) ==
  \A k \in 1..n : \/ q[k].op = "activate" /\ After(q, f, k - 1) = None
                  \/ q[k].op = "deactivate" /\ After(q, f, k - 1) = q[k].prov

\* The waiting callbacks alternate and end with what main has selected.
QueueInv ==
  /\ pc = "init" => /\ ctxQ # <<>>
                    /\ cur.load \in Providers
                    /\ ctxQ[Len(ctxQ)] = Msg("init", cur.load)
  /\ pc = "loaded" => cur.load \in Providers
  /\ running = {funcs} \ {None}
  /\ Alternates(ctxQ, funcs, Pending)
  /\ After(ctxQ, funcs, Pending) = Posted

IInv == TypeOK /\ FlagsInv /\ QueueInv

=============================================================================
