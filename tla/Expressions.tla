----------------------------- MODULE Expressions -----------------------------
(***************************************************************************)
(* Cached expressions of widgets: how a change of a variable reaches the   *)
(* screen (src/src/vm/expr.c, vm.c, src/src/gui/basewidget.c, scanner.c).  *)
(*                                                                         *)
(* Threads: actions assign variables and emit a trigger; the scanner       *)
(* thread polls the widgets that are due; one pool thread evaluates what   *)
(* it is given, in order; the main thread runs triggers and updates the    *)
(* widgets' appearance, and evaluates the expression of a widget when the  *)
(* widget is made.  An expression is valid until a variable that it is     *)
(* registered with is assigned; a volatile one (it calls a function that   *)
(* is not deterministic) is never valid.                                   *)
(*                                                                         *)
(* The value of an expression is the values of the heap variables that it  *)
(* was computed from.  All widgets have the same interval, and are         *)
(* visible; the pool's queue is bounded by MaxQueue.                       *)
(***************************************************************************)
EXTENDS Integers, Sequences, FiniteSets

CONSTANTS
  Vars,       \* heap variables (Var)
  Widgets,    \* widgets, each with one expression
  Reads,      \* the variables that each expression reads, in order
  Branching,  \* widgets that read the variables after the first only if it isn't 0
  Volatile,   \* widgets whose expression is volatile
  Polled,     \* widgets with an interval; the others have a trigger
  Added,      \* widgets made while the bar runs, the others are made before
  None,       \* no widget
  MaxWrites,  \* bound on the assignments
  MaxQueue    \* bound on the evaluations that wait

Trigger == "trigger"

ASSUME SetsAssumption ==
  /\ Branching \subseteq Widgets /\ Volatile \subseteq Widgets
  /\ Polled \subseteq Widgets /\ Added \subseteq Widgets
  /\ None \notin Widgets /\ Trigger \notin Widgets
ASSUME ReadsAssumption == Reads \in [Widgets -> Seq(Vars)]
ASSUME FiniteAssumption == IsFiniteSet(Widgets)
ASSUME MaxAssumption == MaxWrites \in Nat /\ MaxQueue \in Nat

VARIABLES
  val,      \* the value of each heap variable
  invalid,  \* expr->invalid
  cache,    \* expr->cache
  dep,      \* for each variable, the expr_dep_t in expr_deps: its age, 0 for none
  list,     \* dep->list of that expr_dep_t
  made,     \* widgets_scan
  shown,    \* what each widget shows
  pool,     \* evaluations waiting for the pool thread
  job,      \* the evaluation that the pool and the main thread are at
  mainQ,    \* the main context: triggers, and widgets whose value has changed
  scan,     \* the scanner thread
  writer,   \* the thread that runs an action
  raced,    \* was a variable assigned during the last evaluation (auxiliary)
  writes    \* number of assignments so far

vars == <<val, invalid, cache, dep, list, made, shown, pool, job, mainQ, scan,
          writer, raced, writes>>

Threads == {"pool", "main"}
JobAt(w, k) == [w |-> w, k |-> k, pc |-> "read", got |-> [v \in Vars |-> 0], ptr |-> 0,
                raced |-> FALSE]
NoJob == JobAt(None, 1)
\* Faulty variant of Job: it starts before the first variable
JobBefore(w) == JobAt(w, 0)
Job(w) == JobAt(w, 1)

\* How many variables an evaluation that has got these values reads
ReadCount(e, got) == IF e \in Branching /\ Reads[e] # <<>> /\ got[Reads[e][1]] = 0
                     THEN 1 ELSE Len(Reads[e])

\* The variables that an expression with these values has read
Uses(e, got) == {Reads[e][i] : i \in 1..ReadCount(e, got)}

Zero == [v \in Vars |-> 0]

\* The configuration is evaluated before the threads start: every expression has
\* a value that is new, and base_widget_update_value leaves it invalid
Init ==
  /\ val = Zero
  /\ invalid = [w \in Widgets |-> TRUE]
  /\ cache = [e \in Widgets |-> Zero]
  /\ list = [v \in Vars |-> {e \in Widgets \ Added : v \in Uses(e, Zero)}]
  /\ dep = [v \in Vars |-> IF list[v] = {} THEN 0 ELSE 1]
  /\ made = Widgets \ Added
  /\ shown = [w \in Widgets |-> Zero]
  /\ pool = <<>>
  /\ job = [t \in Threads |-> NoJob]
  /\ mainQ = <<>>
  /\ scan = [todo |-> made, at |-> None, timer |-> FALSE, awake |-> TRUE]
  /\ writer = [pc |-> "idle", v |-> None]
  /\ raced = [w \in Widgets |-> FALSE]
  /\ writes = 0

----------------------------------------------------------------------------
(* The thread that runs an action *)

\* vm_heap_assign: the value first
Assign(v) ==
  /\ writer.pc = "idle"
  /\ writes < MaxWrites
  /\ val' = [val EXCEPT ![v] = @ + 1]
  /\ writer' = [pc |-> "trigger", v |-> v]
  /\ writes' = writes + 1
  /\ UNCHANGED <<invalid, cache, dep, list, made, shown, pool, job, mainQ, scan, raced>>

\* Which variables an evaluation has read, but for the one it is reading
HasRead(j, v) ==
  \E i \in DOMAIN Reads[j.w] :
    /\ Reads[j.w][i] = v
    /\ \/ i < j.k
       \/ i = j.k /\ j.pc # "read"

\* Faulty variant of DepTrigger: an expression is only told of a first assignment
DepTriggerOnce ==
  /\ writer.pc = "trigger"
  /\ invalid' = [e \in Widgets |-> invalid[e] \/ (e \in list[writer.v] /\ cache[e][writer.v] = 0)]
  /\ job' = [t \in Threads |->
               IF job[t].w # None /\ HasRead(job[t], writer.v)
               THEN [job[t] EXCEPT !.raced = TRUE] ELSE job[t]]
  /\ writer' = [writer EXCEPT !.pc = "emit"]
  /\ UNCHANGED <<val, cache, dep, list, made, shown, pool, mainQ, scan, raced, writes>>

\* ... then expr_dep_trigger
DepTrigger ==
  /\ writer.pc = "trigger"
  /\ invalid' = [e \in Widgets |-> invalid[e] \/ e \in list[writer.v]]
  /\ job' = [t \in Threads |->
               IF job[t].w # None /\ HasRead(job[t], writer.v)
               THEN [job[t] EXCEPT !.raced = TRUE] ELSE job[t]]
  /\ writer' = [writer EXCEPT !.pc = "emit"]
  /\ UNCHANGED <<val, cache, dep, list, made, shown, pool, mainQ, scan, raced, writes>>

\* The action emits the widgets' trigger
Emit ==
  /\ writer.pc = "emit"
  /\ mainQ' = Append(mainQ, Trigger)
  /\ writer' = [pc |-> "idle", v |-> None]
  /\ UNCHANGED <<val, invalid, cache, dep, list, made, shown, pool, job, scan, raced, writes>>

----------------------------------------------------------------------------
(* An evaluation, on the pool's or on the main thread *)

Evaluates(t, pc) == job[t].w # None /\ job[t].pc = pc
Current(t) == Reads[job[t].w][job[t].k]
HasReadAll(j) == j.k > ReadCount(j.w, j.got)

\* vm_variable: read the variable
Read(t) ==
  /\ Evaluates(t, "read") /\ ~HasReadAll(job[t])
  /\ job' = [job EXCEPT ![t].got[Current(t)] = val[Current(t)], ![t].pc = "dep"]
  /\ UNCHANGED <<val, invalid, cache, dep, list, made, shown, pool, mainQ, scan, writer,
                 raced, writes>>

\* expr_dep_add: look for the variable's expr_dep_t ...
DepGet(t) ==
  /\ Evaluates(t, "dep")
  /\ job' = [job EXCEPT ![t].ptr = dep[Current(t)],
                        ![t].pc = IF dep[Current(t)] = 0 THEN "new" ELSE "insert"]
  /\ UNCHANGED <<val, invalid, cache, dep, list, made, shown, pool, mainQ, scan, writer,
                 raced, writes>>

\* ... make one, which replaces any that was made since ...
DepNew(t) ==
  /\ Evaluates(t, "new")
  /\ dep' = [dep EXCEPT ![Current(t)] = @ + 1]
  /\ list' = [list EXCEPT ![Current(t)] = {}]
  /\ job' = [job EXCEPT ![t].ptr = dep[Current(t)] + 1, ![t].pc = "insert"]
  /\ UNCHANGED <<val, invalid, cache, made, shown, pool, mainQ, scan, writer, raced, writes>>

\* ... and put the expression in its list
DepInsert(t) ==
  /\ Evaluates(t, "insert")
  /\ list' = IF job[t].ptr # dep[Current(t)] THEN list
             ELSE [list EXCEPT ![Current(t)] = @ \cup {job[t].w}]
  /\ job' = [job EXCEPT ![t].k = @ + 1, ![t].pc = "read"]
  /\ UNCHANGED <<val, invalid, cache, dep, made, shown, pool, mainQ, scan, writer, raced,
                 writes>>

\* vm_expr_run: the expression is valid, or not, whatever happened meanwhile.
\* A new value is shown by the main thread.
Publish(t) ==
  /\ Evaluates(t, "read") /\ HasReadAll(job[t])
  /\ LET w == job[t].w
         changed == job[t].got # cache[w]
     IN  /\ cache' = [cache EXCEPT ![w] = job[t].got]
         /\ raced' = [raced EXCEPT ![w] = job[t].raced]
         /\ IF t = "pool"
            THEN /\ mainQ' = IF changed THEN Append(mainQ, w) ELSE mainQ
                 /\ invalid' = [invalid EXCEPT ![w] = w \in Volatile]
                 /\ UNCHANGED <<shown, made>>
            ELSE \* base_widget_set_value: the first value is new, and shown at once
                 /\ shown' = [shown EXCEPT ![w] = job[t].got]
                 /\ invalid' = [invalid EXCEPT ![w] = TRUE]
                 /\ made' = made \cup {w}
                 /\ UNCHANGED mainQ
  /\ job' = [job EXCEPT ![t] = NoJob]
  /\ UNCHANGED <<val, dep, list, pool, scan, writer, writes>>

\* The pool thread takes the next evaluation
Take ==
  /\ job["pool"].w = None
  /\ pool # <<>>
  /\ job' = [job EXCEPT !["pool"] = Job(Head(pool))]
  /\ pool' = Tail(pool)
  /\ UNCHANGED <<val, invalid, cache, dep, list, made, shown, mainQ, scan, writer, raced,
                 writes>>

----------------------------------------------------------------------------
(* The main thread *)

\* vm_expr_prep for each of a set of widgets, in any order
Prep(ws) ==
  \E s \in [1..Cardinality({w \in ws : invalid[w]}) -> {w \in ws : invalid[w]}] :
    /\ \A i, k \in DOMAIN s : s[i] = s[k] => i = k
    /\ pool' = pool \o s

\* base_widget_set_value on a widget that the bar's actions add to the configuration
Make(w) ==
  /\ job["main"].w = None
  /\ w \in Added \ made
  /\ job' = [job EXCEPT !["main"] = Job(w)]
  /\ UNCHANGED <<val, invalid, cache, dep, list, made, shown, pool, mainQ, scan, writer,
                 raced, writes>>

\* trigger_emit_in_main_context, base_widget_update_expressions
RunTrigger ==
  /\ job["main"].w = None
  /\ mainQ # <<>> /\ Head(mainQ) = Trigger
  /\ Prep(made \ Polled)
  /\ mainQ' = Tail(mainQ)
  /\ UNCHANGED <<val, invalid, cache, dep, list, made, shown, job, scan, writer, raced,
                 writes>>

\* base_widget_update_value
UpdateValue ==
  /\ job["main"].w = None
  /\ mainQ # <<>> /\ Head(mainQ) # Trigger
  /\ shown' = [shown EXCEPT ![Head(mainQ)] = cache[Head(mainQ)]]
  /\ invalid' = [invalid EXCEPT ![Head(mainQ)] = TRUE]
  /\ mainQ' = Tail(mainQ)
  /\ UNCHANGED <<val, cache, dep, list, made, pool, job, scan, writer, raced, writes>>

----------------------------------------------------------------------------
(* The scanner thread: base_widget_scanner_thread *)

\* base_widget_get_next_poll: a valid expression is not due, ever
IsDue(w) == w \in Polled /\ invalid[w]

\* Look at the next widget of the list and update it if it is due
Poll(w) ==
  /\ scan.awake /\ scan.at = None
  /\ w \in scan.todo
  /\ pool' = IF IsDue(w) THEN Append(pool, w) ELSE pool
  /\ scan' = [scan EXCEPT !.at = w, !.todo = @ \ {w}]
  /\ UNCHANGED <<val, invalid, cache, dep, list, made, shown, job, mainQ, writer, raced,
                 writes>>

\* ... and ask when it is due again
NextPoll ==
  /\ scan.at # None
  /\ scan' = [scan EXCEPT !.at = None, !.timer = @ \/ IsDue(scan.at)]
  /\ UNCHANGED <<val, invalid, cache, dep, list, made, shown, pool, job, mainQ, writer,
                 raced, writes>>

\* Sleep until then
Sleep ==
  /\ scan.awake /\ scan.at = None /\ scan.todo = {}
  /\ scan' = [scan EXCEPT !.awake = FALSE]
  /\ UNCHANGED <<val, invalid, cache, dep, list, made, shown, pool, job, mainQ, writer,
                 raced, writes>>

\* Faulty variant of Wake: the widgets are not looked at again
WakeIdle ==
  /\ ~scan.awake /\ scan.timer
  /\ Len(pool) < MaxQueue
  /\ scan' = [todo |-> {}, at |-> None, timer |-> TRUE, awake |-> TRUE]
  /\ UNCHANGED <<val, invalid, cache, dep, list, made, shown, pool, job, mainQ, writer,
                 raced, writes>>

\* g_usleep returns, unless no widget was due at all: then it sleeps G_MAXINT64
Wake ==
  /\ ~scan.awake /\ scan.timer
  /\ Len(pool) < MaxQueue
  /\ scan' = [todo |-> made, at |-> None, timer |-> FALSE, awake |-> TRUE]
  /\ UNCHANGED <<val, invalid, cache, dep, list, made, shown, pool, job, mainQ, writer,
                 raced, writes>>

Eval(t) == Read(t) \/ DepGet(t) \/ DepNew(t) \/ DepInsert(t) \/ Publish(t)
Scanner == (\E w \in Widgets : Poll(w)) \/ NextPoll \/ Sleep \/ Wake
Main == RunTrigger \/ UpdateValue \/ Eval("main")
Pool == Take \/ Eval("pool")

Next ==
  \/ \E v \in Vars : Assign(v)
  \/ DepTrigger
  \/ Emit
  \/ Pool
  \/ Main
  \/ \E w \in Added : Make(w)
  \/ Scanner

Spec == Init /\ [][Next]_vars

\* Every thread goes on with what it has started
Fairness == WF_vars(DepTrigger \/ Emit) /\ WF_vars(Pool) /\ WF_vars(Main) /\ WF_vars(Scanner)
FairSpec == Spec /\ Fairness

----------------------------------------------------------------------------
(* Properties *)

Values == [Vars -> 0..MaxWrites]
Jobs == [w : Widgets \cup {None}, k : Nat \ {0}, pc : {"read", "dep", "new", "insert"},
         got : Values, ptr : Nat, raced : BOOLEAN]

\* Every variable keeps its type.
TypeOK ==
  /\ val \in Values
  /\ invalid \in [Widgets -> BOOLEAN]
  /\ cache \in [Widgets -> Values]
  /\ dep \in [Vars -> Nat]
  /\ list \in [Vars -> SUBSET Widgets]
  /\ made \in SUBSET Widgets
  /\ shown \in [Widgets -> Values]
  /\ pool \in Seq(Widgets)
  /\ job \in [Threads -> Jobs]
  /\ mainQ \in Seq(Widgets \cup {Trigger})
  /\ scan \in [todo : SUBSET Widgets, at : Widgets \cup {None}, timer : BOOLEAN,
               awake : BOOLEAN]
  /\ writer \in [pc : {"idle", "trigger", "emit"}, v : Vars \cup {None}]
  /\ (writer.pc = "trigger") => writer.v \in Vars
  /\ raced \in [Widgets -> BOOLEAN]
  /\ writes \in 0..MaxWrites

\* Is v assigned but its dependants not told yet
Pending(v) == writer.pc = "trigger" /\ writer.v = v

\* A valid expression has the value of the variables as they are, or as they
\* were before an assignment that is being told: it can only be out of date if
\* an assignment was told while the expression was last evaluated.
FreshUnlessRaced ==
  \A w \in made : ~invalid[w] /\ ~raced[w] =>
    \A v \in Uses(w, cache[w]) : cache[w][v] = val[v] \/ Pending(v)

UpToDate(w) == \A v \in Uses(w, shown[w]) : shown[w][v] = val[v]

\* However the threads interleave, a widget whose expression is never valid,
\* polled or triggered, shows the variables as they are in the end.
VolatileShown == \A w \in Volatile \ Added : <>[]UpToDate(w)

\* doc/sfwbar.rst on trigger: "a trigger event that should cause the widget to
\* update": in the end every widget with a trigger shows the variables as they are.
TriggeredShown == \A w \in Widgets \ (Polled \cup Added) : <>[]UpToDate(w)

\* doc/sfwbar.rst: "the expression is evaluated periodically": so does every
\* widget with an interval.
PolledShown == \A w \in Polled \ Added : <>[]UpToDate(w)

=============================================================================
