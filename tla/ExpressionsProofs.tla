------------------------- MODULE ExpressionsProofs -------------------------
(***************************************************************************)
(* Proofs about Expressions, for any number of widgets and of variables:   *)
(* a valid expression is up to date unless a variable was assigned while   *)
(* it was evaluated.  The theorems are about expressions without branches  *)
(* (Plain): with them, two threads can make a variable's expr_dep_t at the *)
(* same time, and a dependant is lost.                                     *)
(***************************************************************************)
EXTENDS Expressions, FiniteSetTheorems, SequenceTheorems, TLAPS

\* No expression has branches
Plain == Branching = {}

\* The elements of a sequence
Elems(s) == {s[i] : i \in DOMAIN s}

----------------------------------------------------------------------------
(* The inductive invariant *)

\* Values count assignments
ValuesBounded == \A v \in Vars : val[v] <= writes

\* A list has members only once the expr_dep_t exists
ListedInDep == \A v \in Vars : list[v] # {} => dep[v] # 0

\* The widgets in widgets_scan are registered with what they read
MadeListed == \A w \in made : \A v \in Elems(Reads[w]) : w \in list[v]

\* The pool evaluates the widgets in widgets_scan, the main thread only others
QueuedMade ==
  /\ \A i \in DOMAIN pool : pool[i] \in made
  /\ scan.todo \subseteq made
  /\ job["pool"].w # None => job["pool"].w \in made
  /\ job["main"].w # None => job["main"].w \notin made

\* An evaluation is at one of its expression's variables ...
AtVariable(j) == j.pc # "read" => j.k <= Len(Reads[j.w])

\* ... whose expr_dep_t is not replaced, since only the main thread makes any ...
DepKept(j) ==
  /\ j.pc = "new" => dep[Reads[j.w][j.k]] = 0
  /\ j.pc = "insert" => j.ptr = dep[Reads[j.w][j.k]] /\ j.ptr # 0

\* ... it is registered with those before that one ...
Registered(j) == \A i \in DOMAIN Reads[j.w] : i < j.k => j.w \in list[Reads[j.w][i]]

\* ... and what it has read is up to date unless it has been told otherwise
GotFresh(j) ==
  \A v \in Vars : HasRead(j, v) => j.got[v] = val[v] \/ Pending(v) \/ j.raced

JobOK(j) == j.w # None => AtVariable(j) /\ DepKept(j) /\ Registered(j) /\ GotFresh(j)
JobsOK == \A t \in Threads : JobOK(job[t])

IInv == /\ TypeOK /\ ValuesBounded /\ ListedInDep /\ MadeListed /\ QueuedMade
        /\ JobsOK /\ FreshUnlessRaced

----------------------------------------------------------------------------
(* What Plain makes of the definitions *)

\* Plain expressions read their whole sequence of variables.
LEMMA PlainReads ==
  ASSUME Plain
  PROVE  /\ Reads \in [Widgets -> Seq(Vars)]
         /\ \A w \in Widgets : Elems(Reads[w]) \subseteq Vars
         /\ \A w, got : ReadCount(w, got) = Len(Reads[w])
         /\ \A w \in Widgets : \A got : Uses(w, got) = Elems(Reads[w])
<1>1. \A w \in Widgets : Reads[w] \in Seq(Vars)
  BY ReadsAssumption
<1>2. \A w \in Widgets : Elems(Reads[w]) \subseteq Vars
  BY <1>1 DEF Elems
<1>3. \A w, got : ReadCount(w, got) = Len(Reads[w])
  BY DEF Plain, ReadCount
<1>4. \A w \in Widgets : \A got : Uses(w, got) = Elems(Reads[w])
  BY <1>1, <1>3 DEF Uses, Elems
<1> QED
  BY <1>2, <1>3, <1>4, ReadsAssumption

\* A set of widgets put in a row for the pool is a sequence of widgets.
LEMMA PrepSeq ==
  ASSUME NEW ws, ws \subseteq Widgets, pool \in Seq(Widgets), Prep(ws)
  PROVE  /\ pool' \in Seq(Widgets)
         /\ \A i \in DOMAIN pool' : \/ i \in DOMAIN pool /\ pool'[i] = pool[i]
                                    \/ pool'[i] \in ws
<1> DEFINE us == {w \in ws : invalid[w]}
<1>1. us \subseteq Widgets /\ us \subseteq ws
  OBVIOUS
<1>2. IsFiniteSet(us) /\ Cardinality(us) \in Nat
  BY <1>1, FiniteAssumption, FS_Subset, FS_CardinalityType
<1>3. PICK s \in [1..Cardinality(us) -> us] : pool' = pool \o s
  BY DEF Prep
<1> HIDE DEF us
<1>4. s \in Seq(us) /\ s \in Seq(Widgets)
  <2>1. \A n \in Nat : [1..n -> us] \subseteq Seq(us)
    BY SeqDef, Zenon
  <2>2. s \in Seq(us)
    BY <2>1, <1>2, <1>3, Zenon
  <2>3. Seq(us) \subseteq Seq(Widgets)
    BY <1>1, SMT
  <2> QED
    BY <2>2, <2>3, Zenon
<1>5. /\ pool \o s \in Seq(Widgets)
      /\ Len(pool \o s) = Len(pool) + Len(s)
      /\ \A i \in 1..Len(pool \o s) :
           (pool \o s)[i] = IF i <= Len(pool) THEN pool[i] ELSE s[i - Len(pool)]
  BY <1>4, ConcatProperties
<1>6. \A i \in 1..Len(s) : s[i] \in us
  BY <1>4, ElementOfSeq
<1>7. \A i \in 1..Len(pool \o s) : \/ i \in 1..Len(pool) /\ (pool \o s)[i] = pool[i]
                                   \/ (pool \o s)[i] \in us
  BY <1>4, <1>5, <1>6
<1> QED
  BY <1>1, <1>3, <1>4, <1>5, <1>7

----------------------------------------------------------------------------
(* Every step preserves the invariant: the initial state *)

LEMMA InitIInv ==
  ASSUME Plain, Init
  PROVE  IInv
<1> USE PlainReads
<1>0. 0 \in 0..MaxWrites /\ Zero \in Values /\ NoJob \in Jobs /\ NoJob.got = Zero
  BY MaxAssumption DEF Values, Jobs, NoJob, JobAt, Zero
<1>1. TypeOK
  <2>1. made \in SUBSET Widgets /\ invalid \in [Widgets -> BOOLEAN] /\ raced \in [Widgets -> BOOLEAN]
    BY SetsAssumption DEF Init
  <2>2. job \in [Threads -> Jobs] /\ cache \in [Widgets -> Values] /\ shown \in [Widgets -> Values]
    BY <1>0 DEF Init
  <2>3. dep \in [Vars -> Nat] /\ list \in [Vars -> SUBSET Widgets]
    BY DEF Init
  <2>4. scan \in [todo : SUBSET Widgets, at : Widgets \cup {None}, timer : BOOLEAN,
                  awake : BOOLEAN]
    BY <2>1 DEF Init
  <2> QED
    BY <1>0, <2>1, <2>2, <2>3, <2>4 DEF Init, TypeOK
<1>2. ValuesBounded
  BY DEF Init, ValuesBounded, Zero
<1>3. ListedInDep
  <2>1. dep = [v \in Vars |-> IF list[v] = {} THEN 0 ELSE 1]
    BY DEF Init
  <2> QED
    BY <2>1 DEF ListedInDep
<1>4. MadeListed
  BY SetsAssumption DEF Init, MadeListed
<1>5. QueuedMade
  BY DEF Init, QueuedMade, Threads, NoJob, JobAt
<1>6. JobsOK
  BY DEF Init, JobsOK, JobOK, NoJob, JobAt
<1>7. FreshUnlessRaced
  BY <1>0 DEF Init, FreshUnlessRaced
<1> QED
  BY <1>1, <1>2, <1>3, <1>4, <1>5, <1>6, <1>7 DEF IInv

----------------------------------------------------------------------------
(* ... the thread that runs an action *)

LEMMA AssignIInv ==
  ASSUME Plain, IInv, NEW v \in Vars, Assign(v)
  PROVE  IInv'
<1> USE PlainReads
<1>0. /\ TypeOK /\ ValuesBounded /\ ListedInDep /\ MadeListed /\ QueuedMade
      /\ JobsOK /\ FreshUnlessRaced
  BY DEF IInv
<1>a. /\ writer.pc = "idle" /\ writes < MaxWrites /\ writes' = writes + 1
      /\ val' = [val EXCEPT ![v] = @ + 1]
      /\ writer' = [pc |-> "trigger", v |-> v]
      /\ UNCHANGED <<invalid, cache, dep, list, made, shown, pool, job, mainQ, scan, raced>>
  BY DEF Assign
<1>v. /\ val \in [Vars -> 0..MaxWrites] /\ writes \in 0..MaxWrites
      /\ \A u \in Vars : val'[u] = IF u = v THEN val[u] + 1 ELSE val[u]
      /\ \A u \in Vars : val[u] <= writes
  BY <1>0, <1>a DEF TypeOK, Values, ValuesBounded
<1>p. \A u \in Vars : ~Pending(u) /\ (u = v => Pending(u)')
  BY <1>a DEF Pending
<1>1. TypeOK'
  <2>1. val' \in Values /\ writes' \in 0..MaxWrites
    BY <1>v, <1>a, MaxAssumption DEF Values
  <2> QED
    BY <1>0, <1>a, <2>1 DEF TypeOK
<1>2. ValuesBounded'
  BY <1>a, <1>v, MaxAssumption DEF ValuesBounded
<1>3. ListedInDep' /\ MadeListed' /\ QueuedMade'
  BY <1>0, <1>a DEF ListedInDep, MadeListed, QueuedMade
<1>4. JobsOK'
  <2> SUFFICES ASSUME NEW t \in Threads, job[t].w # None
               PROVE  JobOK(job[t])'
    BY <1>a DEF JobsOK, JobOK
  <2>1. AtVariable(job[t]) /\ DepKept(job[t]) /\ Registered(job[t]) /\ GotFresh(job[t])
    BY <1>0 DEF JobsOK, JobOK
  <2>2. AtVariable(job[t])' /\ DepKept(job[t])' /\ Registered(job[t])'
    BY <2>1, <1>a DEF AtVariable, DepKept, Registered
  <2>3. GotFresh(job[t])'
    BY <2>1, <1>a, <1>v, <1>p DEF GotFresh, HasRead
  <2> QED
    BY <2>2, <2>3 DEF JobOK
<1>5. FreshUnlessRaced'
  <2>1. \A w \in made : \A u \in Uses(w, cache[w]) : u \in Vars
    BY <1>0, PlainReads DEF TypeOK
  <2>2. \A u \in Vars : Pending(u)' <=> u = v
    BY <1>a DEF Pending
  <2> QED
    BY <1>0, <1>a, <1>v, <1>p, <2>1, <2>2 DEF FreshUnlessRaced
<1> QED
  BY <1>1, <1>2, <1>3, <1>4, <1>5 DEF IInv

LEMMA DepTriggerIInv ==
  ASSUME Plain, IInv, DepTrigger
  PROVE  IInv'
<1> USE PlainReads
<1> DEFINE u == writer.v
<1>0. /\ TypeOK /\ ValuesBounded /\ ListedInDep /\ MadeListed /\ QueuedMade
      /\ JobsOK /\ FreshUnlessRaced
  BY DEF IInv
<1>a. /\ writer.pc = "trigger"
      /\ invalid' = [w \in Widgets |-> invalid[w] \/ w \in list[u]]
      /\ job' = [t \in Threads |-> IF job[t].w # None /\ HasRead(job[t], u)
                                   THEN [job[t] EXCEPT !.raced = TRUE] ELSE job[t]]
      /\ writer' = [writer EXCEPT !.pc = "emit"]
      /\ UNCHANGED <<val, cache, dep, list, made, shown, pool, mainQ, scan, raced, writes>>
  BY DEF DepTrigger
<1>u. u \in Vars /\ \A v \in Vars : Pending(v) => v = u
  BY <1>0, <1>a DEF TypeOK, Pending
<1>w. /\ writer \in [pc : {"idle", "trigger", "emit"}, v : Vars \cup {None}]
      /\ writer' \in [pc : {"idle", "trigger", "emit"}, v : Vars \cup {None}]
      /\ writer'.pc = "emit"
  BY <1>0, <1>a DEF TypeOK
<1>j. /\ job \in [Threads -> Jobs] /\ job' \in [Threads -> Jobs]
      /\ \A t \in Threads : /\ job'[t].w = job[t].w /\ job'[t].k = job[t].k
                            /\ job'[t].pc = job[t].pc /\ job'[t].got = job[t].got
                            /\ job'[t].ptr = job[t].ptr
                            /\ job[t].raced => job'[t].raced
                            /\ job[t].w # None /\ HasRead(job[t], u) => job'[t].raced
  <2>1. job \in [Threads -> Jobs]
    BY <1>0 DEF TypeOK
  <2>2. \A t \in Threads : [job[t] EXCEPT !.raced = TRUE] \in Jobs
    BY <2>1 DEF Jobs
  <2>3. job' \in [Threads -> Jobs]
    BY <2>1, <2>2, <1>a
  <2> QED
    BY <2>1, <2>3, <1>a DEF Jobs
<1>1. TypeOK'
  <2>1. invalid' \in [Widgets -> BOOLEAN]
    BY <1>0, <1>a DEF TypeOK
  <2> QED
    BY <1>0, <1>a, <1>w, <1>j, <2>1 DEF TypeOK
<1>2. ValuesBounded' /\ ListedInDep' /\ MadeListed'
  BY <1>0, <1>a DEF ValuesBounded, ListedInDep, MadeListed
<1>3. QueuedMade'
  BY <1>0, <1>a, <1>j DEF QueuedMade, Threads
<1>4. JobsOK'
  <2> SUFFICES ASSUME NEW t \in Threads, job[t].w # None
               PROVE  /\ AtVariable(job[t])' /\ DepKept(job[t])'
                      /\ Registered(job[t])' /\ GotFresh(job[t])'
    BY <1>j DEF JobsOK, JobOK
  <2>1. AtVariable(job[t]) /\ DepKept(job[t]) /\ Registered(job[t]) /\ GotFresh(job[t])
    BY <1>0 DEF JobsOK, JobOK
  <2>2. AtVariable(job[t])' /\ DepKept(job[t])' /\ Registered(job[t])'
    BY <2>1, <1>a, <1>j DEF AtVariable, DepKept, Registered
  <2>3. GotFresh(job[t])'
    BY <2>1, <1>a, <1>j, <1>u DEF GotFresh, HasRead
  <2> QED
    BY <2>2, <2>3
<1>5. FreshUnlessRaced'
  <2> SUFFICES ASSUME NEW w \in made, ~invalid'[w], ~raced[w],
                      NEW v \in Uses(w, cache[w])
               PROVE  cache[w][v] = val[v]
    BY <1>a DEF FreshUnlessRaced, Uses, ReadCount
  <2>1. w \in Widgets
    BY <1>0 DEF TypeOK
  <2>2. ~invalid[w] /\ w \notin list[u]
    BY <1>a, <2>1
  <2>3. cache[w][v] = val[v] \/ Pending(v)
    BY <1>0, <2>2 DEF FreshUnlessRaced
  <2>4. v # u /\ v \in Vars
    BY <1>0, <2>1, <2>2 DEF MadeListed
  <2> QED
    BY <2>3, <2>4, <1>u
<1> QED
  BY <1>1, <1>2, <1>3, <1>4, <1>5 DEF IInv

LEMMA EmitIInv ==
  ASSUME Plain, IInv, Emit
  PROVE  IInv'
<1>0. /\ TypeOK /\ ValuesBounded /\ ListedInDep /\ MadeListed /\ QueuedMade
      /\ JobsOK /\ FreshUnlessRaced
  BY DEF IInv
<1>a. /\ writer.pc = "emit" /\ mainQ' = Append(mainQ, Trigger)
      /\ writer' = [pc |-> "idle", v |-> None]
      /\ UNCHANGED <<val, invalid, cache, dep, list, made, shown, pool, job, scan, raced,
                     writes>>
  BY DEF Emit
<1>1. TypeOK'
  BY <1>0, <1>a DEF TypeOK
<1>2. ValuesBounded' /\ ListedInDep' /\ MadeListed' /\ QueuedMade'
  BY <1>0, <1>a DEF ValuesBounded, ListedInDep, MadeListed, QueuedMade
<1>3. \A v \in Vars : ~Pending(v)
  BY <1>a DEF Pending
<1>4. JobsOK'
  BY <1>0, <1>a, <1>3 DEF JobsOK, JobOK, AtVariable, DepKept, Registered, GotFresh, HasRead
<1>5. FreshUnlessRaced'
  <2>1. \A w \in made : \A v \in Uses(w, cache[w]) : v \in Vars
    BY <1>0, PlainReads DEF TypeOK
  <2> QED
    BY <1>0, <1>a, <1>3, <2>1 DEF FreshUnlessRaced, Uses, ReadCount
<1> QED
  BY <1>1, <1>2, <1>4, <1>5 DEF IInv

----------------------------------------------------------------------------
(* ... the evaluations *)

\* The variable that an evaluation is at is one of the variables.
LEMMA CurrentVar ==
  ASSUME Plain, TypeOK, NEW t \in Threads, job[t].w # None, job[t].k <= Len(Reads[job[t].w])
  PROVE  /\ job[t].w \in Widgets /\ job[t].k \in DOMAIN Reads[job[t].w]
         /\ Current(t) \in Vars /\ Current(t) = Reads[job[t].w][job[t].k]
         /\ Current(t) \in Elems(Reads[job[t].w])
<1>1. job[t].w \in Widgets /\ job[t].k \in Nat \ {0}
  BY DEF TypeOK, Jobs
<1>2. Reads[job[t].w] \in Seq(Vars)
  BY <1>1, ReadsAssumption
<1>3. job[t].k \in 1..Len(Reads[job[t].w])
  BY <1>1, <1>2
<1>4. Current(t) \in Vars
  BY <1>2, <1>3, ElementOfSeq DEF Current
<1> QED
  BY <1>1, <1>2, <1>3, <1>4 DEF Current, Elems

LEMMA ReadIInv ==
  ASSUME Plain, IInv, NEW t \in Threads, Read(t)
  PROVE  IInv'
<1> DEFINE j == job[t]
           x == Current(t)
<1>0. /\ TypeOK /\ ValuesBounded /\ ListedInDep /\ MadeListed /\ QueuedMade
      /\ JobsOK /\ FreshUnlessRaced
  BY DEF IInv
<1>a. /\ j.w # None /\ j.pc = "read"
      /\ job' = [job EXCEPT ![t] = [j EXCEPT !.got = [j.got EXCEPT ![x] = val[x]], !.pc = "dep"]]
      /\ UNCHANGED <<val, invalid, cache, dep, list, made, shown, pool, mainQ, scan, writer,
                     raced, writes>>
  BY DEF Read, Evaluates
<1>b. j.k <= Len(Reads[j.w])
  <2>1. j.k \in Nat /\ j.w \in Widgets
    BY <1>0, <1>a DEF TypeOK, Jobs
  <2>2. ~(j.k > Len(Reads[j.w]))
    BY PlainReads DEF Read, HasReadAll
  <2>3. Len(Reads[j.w]) \in Nat
    BY <2>1, ReadsAssumption
  <2> QED
    BY <2>1, <2>2, <2>3
<1>x. j.w \in Widgets /\ j.k \in DOMAIN Reads[j.w] /\ x \in Vars /\ x = Reads[j.w][j.k]
  BY <1>0, <1>a, <1>b, CurrentVar
<1> HIDE DEF x
<1>j. /\ job \in [Threads -> Jobs] /\ job' \in [Threads -> Jobs]
      /\ job'[t].w = j.w /\ job'[t].k = j.k /\ job'[t].pc = "dep" /\ job'[t].raced = j.raced
      /\ \A v \in Vars : job'[t].got[v] = IF v = x THEN val[v] ELSE j.got[v]
      /\ \A s \in Threads \ {t} : job'[s] = job[s]
  <2>1. job \in [Threads -> Jobs] /\ val \in Values
    BY <1>0 DEF TypeOK
  <2>2. [j.got EXCEPT ![x] = val[x]] \in Values
    BY <2>1, <1>x DEF Values, Jobs
  <2>3. [j EXCEPT !.got = [j.got EXCEPT ![x] = val[x]], !.pc = "dep"] \in Jobs
    BY <2>1, <2>2 DEF Jobs
  <2>4. job' \in [Threads -> Jobs]
    BY <2>1, <2>3, <1>a
  <2>5. job'[t] = [j EXCEPT !.got = [j.got EXCEPT ![x] = val[x]], !.pc = "dep"]
    BY <2>1, <1>a
  <2>6. j.got \in [Vars -> 0..MaxWrites]
    BY <2>1 DEF Jobs, Values
  <2>7. \A v \in Vars : job'[t].got[v] = IF v = x THEN val[v] ELSE j.got[v]
    BY <2>1, <2>5, <2>6, <1>x DEF Jobs
  <2> QED
    BY <2>1, <2>4, <2>5, <2>7, <1>a DEF Jobs
<1>1. TypeOK'
  BY <1>0, <1>a, <1>j DEF TypeOK
<1>2. ValuesBounded' /\ ListedInDep' /\ MadeListed'
  BY <1>0, <1>a DEF ValuesBounded, ListedInDep, MadeListed
<1>3. QueuedMade'
  BY <1>0, <1>a, <1>j DEF QueuedMade, Threads
<1>4. JobsOK'
  <2>1. \A s \in Threads \ {t} : JobOK(job[s])'
    BY <1>0, <1>a, <1>j DEF JobsOK, JobOK, AtVariable, DepKept, Registered, GotFresh, HasRead, Pending
  <2>2. AtVariable(j) /\ DepKept(j) /\ Registered(j) /\ GotFresh(j)
    BY <1>0, <1>a DEF JobsOK, JobOK
  <2>3. AtVariable(job[t])' /\ DepKept(job[t])' /\ Registered(job[t])'
    BY <2>2, <1>a, <1>b, <1>j DEF AtVariable, DepKept, Registered
  <2>4. ASSUME NEW v \in Vars, HasRead(job[t], v)', v # x
        PROVE  HasRead(j, v)
    BY <2>4, <1>a, <1>x, <1>j DEF HasRead
  <2>5. GotFresh(job[t])'
    BY <2>2, <2>4, <1>a, <1>j DEF GotFresh, Pending
  <2> QED
    BY <2>1, <2>3, <2>5 DEF JobsOK, JobOK
<1>5. FreshUnlessRaced'
  BY <1>0, <1>a DEF FreshUnlessRaced, Pending
<1> QED
  BY <1>1, <1>2, <1>3, <1>4, <1>5 DEF IInv

LEMMA DepGetIInv ==
  ASSUME Plain, IInv, NEW t \in Threads, DepGet(t)
  PROVE  IInv'
<1> DEFINE j == job[t]
           x == Current(t)
           pc == IF dep[x] = 0 THEN "new" ELSE "insert"
<1>0. /\ TypeOK /\ ValuesBounded /\ ListedInDep /\ MadeListed /\ QueuedMade
      /\ JobsOK /\ FreshUnlessRaced
  BY DEF IInv
<1>a. /\ j.w # None /\ j.pc = "dep"
      /\ job' = [job EXCEPT ![t] = [j EXCEPT !.ptr = dep[x], !.pc = pc]]
      /\ UNCHANGED <<val, invalid, cache, dep, list, made, shown, pool, mainQ, scan, writer,
                     raced, writes>>
  BY DEF DepGet, Evaluates
<1>b. AtVariable(j) /\ Registered(j) /\ GotFresh(j)
  BY <1>0, <1>a DEF JobsOK, JobOK
<1>x. j.w \in Widgets /\ x \in Vars /\ x = Reads[j.w][j.k] /\ j.k <= Len(Reads[j.w])
  BY <1>0, <1>a, <1>b, CurrentVar DEF AtVariable
<1> HIDE DEF x
<1>j. /\ job' \in [Threads -> Jobs]
      /\ job'[t].w = j.w /\ job'[t].k = j.k /\ job'[t].pc = pc /\ job'[t].raced = j.raced
      /\ job'[t].got = j.got /\ job'[t].ptr = dep[x]
      /\ \A s \in Threads \ {t} : job'[s] = job[s]
  <2>1. job \in [Threads -> Jobs] /\ dep[x] \in Nat
    BY <1>0, <1>x DEF TypeOK
  <2>3. [j EXCEPT !.ptr = dep[x], !.pc = pc] \in Jobs
    BY <2>1 DEF Jobs
  <2> QED
    BY <2>1, <2>3, <1>a DEF Jobs
<1>1. TypeOK'
  BY <1>0, <1>a, <1>j DEF TypeOK
<1>2. ValuesBounded' /\ ListedInDep' /\ MadeListed'
  BY <1>0, <1>a DEF ValuesBounded, ListedInDep, MadeListed
<1>3. QueuedMade'
  BY <1>0, <1>a, <1>j DEF QueuedMade, Threads
<1>4. JobsOK'
  <2>1. \A s \in Threads \ {t} : JobOK(job[s])'
    BY <1>0, <1>a, <1>j DEF JobsOK, JobOK, AtVariable, DepKept, Registered, GotFresh, HasRead, Pending
  <2>2. AtVariable(job[t])' /\ Registered(job[t])'
    BY <1>b, <1>a, <1>x, <1>j DEF AtVariable, Registered
  <2>3. DepKept(job[t])'
    BY <1>a, <1>x, <1>j DEF DepKept
  <2>4. GotFresh(job[t])'
    BY <1>b, <1>a, <1>j DEF GotFresh, HasRead, Pending
  <2> QED
    BY <2>1, <2>2, <2>3, <2>4 DEF JobsOK, JobOK
<1>5. FreshUnlessRaced'
  BY <1>0, <1>a DEF FreshUnlessRaced, Pending
<1> QED
  BY <1>1, <1>2, <1>3, <1>4, <1>5 DEF IInv

\* Only the main thread makes an expr_dep_t, and never in place of another one:
\* whatever the pool evaluates has been registered when its widget was made.
LEMMA DepNewIInv ==
  ASSUME Plain, IInv, NEW t \in Threads, DepNew(t)
  PROVE  IInv'
<1> DEFINE j == job[t]
           x == Current(t)
<1>0. /\ TypeOK /\ ValuesBounded /\ ListedInDep /\ MadeListed /\ QueuedMade
      /\ JobsOK /\ FreshUnlessRaced
  BY DEF IInv
<1>a. /\ j.w # None /\ j.pc = "new"
      /\ dep' = [dep EXCEPT ![x] = @ + 1]
      /\ list' = [list EXCEPT ![x] = {}]
      /\ job' = [job EXCEPT ![t] = [j EXCEPT !.ptr = dep[x] + 1, !.pc = "insert"]]
      /\ UNCHANGED <<val, invalid, cache, made, shown, pool, mainQ, scan, writer, raced, writes>>
  BY DEF DepNew, Evaluates
<1>b. AtVariable(j) /\ DepKept(j) /\ Registered(j) /\ GotFresh(j)
  BY <1>0, <1>a DEF JobsOK, JobOK
<1>x. /\ j.w \in Widgets /\ x \in Vars /\ x = Reads[j.w][j.k] /\ j.k <= Len(Reads[j.w])
      /\ x \in Elems(Reads[j.w])
  BY <1>0, <1>a, <1>b, CurrentVar DEF AtVariable
<1> HIDE DEF x
<1>d. dep[x] = 0 /\ list[x] = {}
  BY <1>0, <1>a, <1>b, <1>x DEF DepKept, ListedInDep
<1>m. t = "main"
  <2> SUFFICES ASSUME t = "pool" PROVE FALSE
    BY DEF Threads
  <2>1. j.w \in made
    BY <1>0, <1>a DEF QueuedMade
  <2> QED
    BY <2>1, <1>0, <1>x, <1>d DEF MadeListed
<1>l. /\ list' = list /\ dep \in [Vars -> Nat] /\ dep' \in [Vars -> Nat] /\ dep'[x] = 1
      /\ \A v \in Vars \ {x} : dep'[v] = dep[v]
  <2>1. dep \in [Vars -> Nat] /\ list \in [Vars -> SUBSET Widgets]
    BY <1>0 DEF TypeOK
  <2>2. list' = list
    BY <2>1, <1>a, <1>d
  <2> QED
    BY <2>1, <2>2, <1>a, <1>d, <1>x
<1>j. /\ job' \in [Threads -> Jobs]
      /\ job'[t].w = j.w /\ job'[t].k = j.k /\ job'[t].pc = "insert" /\ job'[t].raced = j.raced
      /\ job'[t].got = j.got /\ job'[t].ptr = 1
      /\ \A s \in Threads \ {t} : job'[s] = job[s]
  <2>1. job \in [Threads -> Jobs] /\ dep[x] + 1 = 1
    BY <1>0, <1>d DEF TypeOK
  <2>2. [j EXCEPT !.ptr = 1, !.pc = "insert"] \in Jobs
    BY <2>1 DEF Jobs
  <2> QED
    BY <2>1, <2>2, <1>a DEF Jobs
<1>1. TypeOK'
  BY <1>0, <1>a, <1>l, <1>j DEF TypeOK
<1>2. ValuesBounded' /\ MadeListed'
  BY <1>0, <1>a, <1>l DEF ValuesBounded, MadeListed
<1>3. ListedInDep'
  BY <1>0, <1>a, <1>l, <1>d DEF ListedInDep
<1>4. QueuedMade'
  BY <1>0, <1>a, <1>j DEF QueuedMade, Threads
<1>5. JobsOK'
  <2>1. ASSUME NEW s \in Threads \ {t}, job[s].w # None
        PROVE  JobOK(job[s])'
    <3>1. s = "pool" /\ job[s].w \in made
      BY <2>1, <1>0, <1>m DEF Threads, QueuedMade
    <3>2. AtVariable(job[s]) /\ DepKept(job[s]) /\ Registered(job[s]) /\ GotFresh(job[s])
      BY <2>1, <1>0 DEF JobsOK, JobOK
    <3>3. AtVariable(job[s])' /\ Registered(job[s])' /\ GotFresh(job[s])'
      BY <3>2, <1>a, <1>l, <1>j DEF AtVariable, Registered, GotFresh, HasRead, Pending
    <3>4. CASE job[s].pc \in {"new", "insert"}
      <4>1. Current(s) \in Vars /\ Current(s) = Reads[job[s].w][job[s].k]
            /\ Current(s) \in Elems(Reads[job[s].w])
        BY <3>2, <3>4, <2>1, <1>0, CurrentVar DEF AtVariable
      <4>2. job[s].w \in list[Current(s)]
        BY <3>1, <4>1, <1>0 DEF MadeListed
      <4>3. Reads[job[s].w][job[s].k] \in Vars \ {x}
        BY <4>1, <4>2, <1>d
      <4>4. DepKept(job[s])'
        BY <4>3, <3>2, <1>l, <1>j DEF DepKept
      <4> QED
        BY <3>3, <4>4 DEF JobOK
    <3>5. CASE job[s].pc \notin {"new", "insert"}
      BY <3>3, <3>5, <1>j DEF JobOK, DepKept
    <3> QED
      BY <3>4, <3>5
  <2>2. AtVariable(job[t])' /\ Registered(job[t])'
    BY <1>b, <1>a, <1>x, <1>l, <1>j DEF AtVariable, Registered
  <2>3. DepKept(job[t])'
    BY <1>l, <1>x, <1>j DEF DepKept
  <2>4. GotFresh(job[t])'
    BY <1>b, <1>a, <1>j DEF GotFresh, HasRead, Pending
  <2>5. \A s \in Threads \ {t} : job'[s] = job[s]
    BY <1>j
  <2> QED
    BY <2>1, <2>2, <2>3, <2>4, <2>5 DEF JobsOK, JobOK
<1>6. FreshUnlessRaced'
  BY <1>0, <1>a DEF FreshUnlessRaced, Pending
<1> QED
  BY <1>1, <1>2, <1>3, <1>4, <1>5, <1>6 DEF IInv

LEMMA DepInsertIInv ==
  ASSUME Plain, IInv, NEW t \in Threads, DepInsert(t)
  PROVE  IInv'
<1> DEFINE j == job[t]
           x == Current(t)
<1>0. /\ TypeOK /\ ValuesBounded /\ ListedInDep /\ MadeListed /\ QueuedMade
      /\ JobsOK /\ FreshUnlessRaced
  BY DEF IInv
<1>a. /\ j.w # None /\ j.pc = "insert"
      /\ list' = IF j.ptr # dep[x] THEN list ELSE [list EXCEPT ![x] = @ \cup {j.w}]
      /\ job' = [job EXCEPT ![t] = [j EXCEPT !.k = @ + 1, !.pc = "read"]]
      /\ UNCHANGED <<val, invalid, cache, dep, made, shown, pool, mainQ, scan, writer, raced,
                     writes>>
  BY DEF DepInsert, Evaluates
<1>b. AtVariable(j) /\ DepKept(j) /\ Registered(j) /\ GotFresh(j)
  BY <1>0, <1>a DEF JobsOK, JobOK
<1>x. j.w \in Widgets /\ x \in Vars /\ x = Reads[j.w][j.k] /\ j.k <= Len(Reads[j.w])
  BY <1>0, <1>a, <1>b, CurrentVar DEF AtVariable
<1> HIDE DEF x
<1>l. /\ list \in [Vars -> SUBSET Widgets] /\ list' \in [Vars -> SUBSET Widgets]
      /\ dep[x] # 0 /\ j.w \in list'[x]
      /\ \A v \in Vars : list[v] \subseteq list'[v]
      /\ \A v \in Vars \ {x} : list'[v] = list[v]
  <2>1. list \in [Vars -> SUBSET Widgets]
    BY <1>0 DEF TypeOK
  <2>2. j.ptr = dep[x] /\ dep[x] # 0
    BY <1>a, <1>b, <1>x DEF DepKept
  <2>3. list' = [list EXCEPT ![x] = @ \cup {j.w}]
    BY <2>2, <1>a
  <2> QED
    BY <2>1, <2>2, <2>3, <1>x
<1>j. /\ job' \in [Threads -> Jobs] /\ j.k \in Nat
      /\ job'[t].w = j.w /\ job'[t].k = j.k + 1 /\ job'[t].pc = "read"
      /\ job'[t].raced = j.raced /\ job'[t].got = j.got
      /\ \A s \in Threads \ {t} : job'[s] = job[s]
  <2>1. job \in [Threads -> Jobs]
    BY <1>0 DEF TypeOK
  <2>2. j \in Jobs /\ j.k \in Nat /\ j.k + 1 \in Nat \ {0}
    BY <2>1 DEF Jobs
  <2>3. [j EXCEPT !.k = j.k + 1, !.pc = "read"] \in Jobs
    BY <2>2 DEF Jobs
  <2> QED
    BY <2>1, <2>2, <2>3, <1>a DEF Jobs
<1>1. TypeOK'
  BY <1>0, <1>a, <1>l, <1>j DEF TypeOK
<1>2. ValuesBounded' /\ ListedInDep'
  BY <1>0, <1>a, <1>l DEF ValuesBounded, ListedInDep
<1>3. MadeListed'
  <2>1. \A w \in made : Elems(Reads[w]) \subseteq Vars
    BY <1>0, PlainReads DEF TypeOK
  <2> QED
    BY <2>1, <1>0, <1>a, <1>l DEF MadeListed
<1>4. QueuedMade'
  BY <1>0, <1>a, <1>j DEF QueuedMade, Threads
<1>5. JobsOK'
  <2>r. \A w \in Widgets : \A i \in DOMAIN Reads[w] : Reads[w][i] \in Vars
    BY PlainReads DEF Elems
  <2>1. ASSUME NEW s \in Threads \ {t}, job[s].w # None
        PROVE  JobOK(job[s])'
    <3>1. AtVariable(job[s]) /\ DepKept(job[s]) /\ Registered(job[s]) /\ GotFresh(job[s])
      BY <2>1, <1>0 DEF JobsOK, JobOK
    <3>2. AtVariable(job[s])' /\ DepKept(job[s])' /\ GotFresh(job[s])'
      BY <3>1, <1>a, <1>j DEF AtVariable, DepKept, GotFresh, HasRead, Pending
    <3>3. job[s].w \in Widgets
      BY <2>1, <1>0 DEF TypeOK, Jobs
    <3>4. Registered(job[s])'
      BY <3>1, <3>3, <2>r, <1>l, <1>j DEF Registered
    <3> QED
      BY <3>2, <3>4 DEF JobOK
  <2>2. AtVariable(job[t])' /\ DepKept(job[t])'
    BY <1>j DEF AtVariable, DepKept
  <2>3. Registered(job[t])'
    <3> SUFFICES ASSUME NEW i \in DOMAIN Reads[j.w], i < j.k + 1
                 PROVE  j.w \in list'[Reads[j.w][i]]
      BY <1>j DEF Registered
    <3>1. i \in Nat
      BY <1>x, ReadsAssumption
    <3>2. CASE i < j.k
      BY <3>2, <2>r, <1>b, <1>x, <1>l DEF Registered
    <3>3. CASE i = j.k
      BY <3>3, <1>x, <1>l
    <3> QED
      BY <3>1, <3>2, <3>3, <1>j
  <2>4. GotFresh(job[t])'
    <3> SUFFICES ASSUME NEW v \in Vars, HasRead(job[t], v)'
                 PROVE  HasRead(j, v)
      BY <1>b, <1>a, <1>j DEF GotFresh, Pending
    <3>1. PICK i \in DOMAIN Reads[j.w] : Reads[j.w][i] = v /\ i < j.k + 1
      BY <1>j DEF HasRead
    <3>2. i \in Nat
      BY <1>x, ReadsAssumption
    <3>3. i < j.k \/ i = j.k
      BY <3>1, <3>2, <1>j
    <3> QED
      BY <3>1, <3>3, <1>a DEF HasRead
  <2>5. \A s \in Threads \ {t} : job'[s] = job[s]
    BY <1>j
  <2> QED
    BY <2>1, <2>2, <2>3, <2>4, <2>5 DEF JobsOK, JobOK
<1>6. FreshUnlessRaced'
  BY <1>0, <1>a DEF FreshUnlessRaced, Pending
<1> QED
  BY <1>1, <1>2, <1>3, <1>4, <1>5, <1>6 DEF IInv

\* A job that starts, or no job, is in order.
LEMMA NewJob ==
  ASSUME NEW w \in Widgets \cup {None}
  PROVE  /\ Job(w) \in Jobs /\ NoJob \in Jobs /\ NoJob.w = None
         /\ Job(w).w = w /\ Job(w).k = 1 /\ Job(w).pc = "read"
<1>1. 0 \in 0..MaxWrites
  BY MaxAssumption
<1>2. \A u \in Widgets \cup {None} : JobAt(u, 1) \in Jobs
  BY <1>1 DEF JobAt, Jobs, Values
<1> QED
  BY <1>2 DEF Job, NoJob, JobAt

LEMMA PublishIInv ==
  ASSUME Plain, IInv, NEW t \in Threads, Publish(t)
  PROVE  IInv'
<1> DEFINE j == job[t]
           w == job[t].w
<1>0. /\ TypeOK /\ ValuesBounded /\ ListedInDep /\ MadeListed /\ QueuedMade
      /\ JobsOK /\ FreshUnlessRaced
  BY DEF IInv
<1>a. /\ w # None /\ j.pc = "read"
      /\ cache' = [cache EXCEPT ![w] = j.got]
      /\ raced' = [raced EXCEPT ![w] = j.raced]
      /\ job' = [job EXCEPT ![t] = NoJob]
      /\ UNCHANGED <<val, dep, list, pool, scan, writer, writes>>
  BY DEF Publish, Evaluates
<1>b. \/ /\ t = "pool"
         /\ mainQ' \in {mainQ, Append(mainQ, w)}
         /\ invalid' = [invalid EXCEPT ![w] = w \in Volatile]
         /\ shown' = shown /\ made' = made
      \/ /\ t = "main"
         /\ shown' = [shown EXCEPT ![w] = j.got]
         /\ invalid' = [invalid EXCEPT ![w] = TRUE]
         /\ made' = made \cup {w} /\ mainQ' = mainQ
  BY DEF Publish, Threads
<1>c. Registered(j) /\ GotFresh(j)
  BY <1>0, <1>a DEF JobsOK, JobOK
<1>w. w \in Widgets /\ j \in Jobs /\ j.got \in Values /\ Reads[w] \in Seq(Vars)
  BY <1>0, <1>a, ReadsAssumption DEF TypeOK, Jobs
<1>k. j.k \in Nat /\ j.k > Len(Reads[w])
  BY <1>w, PlainReads DEF Publish, HasReadAll, Jobs
<1>j. /\ job' \in [Threads -> Jobs] /\ job'[t].w = None
      /\ \A s \in Threads \ {t} : job'[s] = job[s]
  BY <1>0, <1>a, NewJob DEF TypeOK
<1>i. /\ invalid \in [Widgets -> BOOLEAN] /\ invalid' \in [Widgets -> BOOLEAN]
      /\ \A u \in Widgets \ {w} : invalid'[u] = invalid[u]
  <2>1. invalid \in [Widgets -> BOOLEAN]
    BY <1>0 DEF TypeOK
  <2>2. \A on \in BOOLEAN : LET f == [invalid EXCEPT ![w] = on]
                           IN  /\ f \in [Widgets -> BOOLEAN]
                               /\ \A u \in Widgets \ {w} : f[u] = invalid[u]
    BY <2>1
  <2>3. (w \in Volatile) \in BOOLEAN /\ TRUE \in BOOLEAN
    OBVIOUS
  <2> QED
    BY <1>b, <2>1, <2>2, <2>3, Zenon
<1>1. TypeOK'
  <2>1. cache' \in [Widgets -> Values] /\ raced' \in [Widgets -> BOOLEAN]
    <3>1. cache \in [Widgets -> Values] /\ raced \in [Widgets -> BOOLEAN]
      BY <1>0 DEF TypeOK
    <3>2. j.raced \in BOOLEAN
      BY <1>w DEF Jobs
    <3>3. cache' \in [Widgets -> Values]
      BY <3>1, <1>a, <1>w
    <3>4. raced' \in [Widgets -> BOOLEAN]
      BY <3>1, <3>2, <1>a, <1>w
    <3> QED
      BY <3>3, <3>4
  <2>2. mainQ' \in Seq(Widgets \cup {Trigger}) /\ shown' \in [Widgets -> Values]
        /\ made' \in SUBSET Widgets
    <3>1. /\ mainQ \in Seq(Widgets \cup {Trigger}) /\ made \in SUBSET Widgets
          /\ shown \in [Widgets -> Values]
      BY <1>0 DEF TypeOK
    <3>2. Append(mainQ, w) \in Seq(Widgets \cup {Trigger})
      BY <3>1, <1>w
    <3>3. [shown EXCEPT ![w] = j.got] \in [Widgets -> Values]
      BY <3>1, <1>w
    <3> QED
      BY <3>1, <3>2, <3>3, <1>b, <1>w
  <2> QED
    BY <1>0, <1>a, <1>i, <1>j, <2>1, <2>2 DEF TypeOK
<1>2. ValuesBounded' /\ ListedInDep'
  BY <1>0, <1>a DEF ValuesBounded, ListedInDep
<1>r. \A v \in Elems(Reads[w]) : /\ w \in list[v]
                                 /\ j.got[v] = val[v] \/ Pending(v) \/ j.raced
  <2> SUFFICES ASSUME NEW i \in DOMAIN Reads[w]
               PROVE  /\ w \in list[Reads[w][i]]
                      /\ \/ j.got[Reads[w][i]] = val[Reads[w][i]]
                         \/ Pending(Reads[w][i]) \/ j.raced
    BY DEF Elems
  <2>1. i < j.k /\ Reads[w][i] \in Vars
    BY <1>w, <1>k, ElementOfSeq
  <2>2. HasRead(j, Reads[w][i])
    BY <2>1 DEF HasRead
  <2> QED
    BY <2>1, <2>2, <1>c DEF Registered, GotFresh
<1>3. MadeListed'
  BY <1>0, <1>a, <1>b, <1>r DEF MadeListed
<1>4. QueuedMade'
  BY <1>0, <1>a, <1>b, <1>j DEF QueuedMade, Threads
<1>5. JobsOK'
  <2>1. \A s \in Threads \ {t} : JobOK(job[s])'
    BY <1>0, <1>a, <1>j DEF JobsOK, JobOK, AtVariable, DepKept, Registered, GotFresh, HasRead, Pending
  <2> QED
    BY <2>1, <1>j DEF JobsOK, JobOK
<1>6. FreshUnlessRaced'
  <2> SUFFICES ASSUME NEW u \in made', ~invalid'[u], ~raced'[u],
                      NEW v \in Uses(u, cache'[u])
               PROVE  cache'[u][v] = val[v] \/ Pending(v)
    BY <1>a DEF FreshUnlessRaced, Pending
  <2>1. u \in Widgets /\ v \in Elems(Reads[u])
    BY <1>1, PlainReads DEF TypeOK
  <2>2. CASE u = w
    <3>1. cache'[w] = j.got /\ raced'[w] = j.raced
      BY <1>0, <1>a, <1>w DEF TypeOK
    <3> QED
      BY <2>1, <2>2, <3>1, <1>r
  <2>3. CASE u # w
    <3>1. cache'[u] = cache[u] /\ raced'[u] = raced[u] /\ invalid'[u] = invalid[u] /\ u \in made
      BY <2>1, <2>3, <1>0, <1>a, <1>b, <1>i DEF TypeOK
    <3> QED
      BY <3>1, <1>0 DEF FreshUnlessRaced
  <2> QED
    BY <2>2, <2>3
<1> QED
  BY <1>1, <1>2, <1>3, <1>4, <1>5, <1>6 DEF IInv

\* A thread that was idle starts with a job.
LEMMA StartJob ==
  ASSUME IInv, NEW t \in Threads, NEW w \in Widgets, job' = [job EXCEPT ![t] = Job(w)],
         UNCHANGED <<val, dep, list, writer>>
  PROVE  /\ job' \in [Threads -> Jobs] /\ job'[t].w = w
         /\ \A s \in Threads \ {t} : job'[s] = job[s]
         /\ JobsOK'
<1>1. /\ job' \in [Threads -> Jobs]
      /\ job'[t].w = w /\ job'[t].k = 1 /\ job'[t].pc = "read"
      /\ \A s \in Threads \ {t} : job'[s] = job[s]
  BY NewJob DEF IInv, TypeOK
<1>2. \A s \in Threads \ {t} : JobOK(job[s])'
  BY <1>1 DEF IInv, JobsOK, JobOK, AtVariable, DepKept, Registered, GotFresh, HasRead, Pending
<1>3. \A i \in DOMAIN Reads[w] : ~(i < 1) /\ i \in Nat
  BY ReadsAssumption
<1>4. JobOK(job[t])'
  BY <1>1, <1>3 DEF JobOK, AtVariable, DepKept, Registered, GotFresh, HasRead
<1> QED
  BY <1>1, <1>2, <1>4 DEF JobsOK

LEMMA TakeIInv ==
  ASSUME Plain, IInv, Take
  PROVE  IInv'
<1>0. /\ TypeOK /\ ValuesBounded /\ ListedInDep /\ MadeListed /\ QueuedMade
      /\ JobsOK /\ FreshUnlessRaced
  BY DEF IInv
<1>a. /\ pool # <<>> /\ pool \in Seq(Widgets)
      /\ job' = [job EXCEPT !["pool"] = Job(Head(pool))] /\ pool' = Tail(pool)
      /\ UNCHANGED <<val, invalid, cache, dep, list, made, shown, mainQ, scan, writer, raced,
                     writes>>
  BY <1>0 DEF Take, TypeOK
<1>p. /\ Head(pool) = pool[1] /\ Head(pool) \in Widgets /\ 1 \in DOMAIN pool
      /\ pool' \in Seq(Widgets)
      /\ \A i \in DOMAIN pool' : pool'[i] = pool[i + 1] /\ i + 1 \in DOMAIN pool
  BY <1>a
<1>j. /\ job' \in [Threads -> Jobs] /\ job'["pool"].w = Head(pool)
      /\ job'["main"] = job["main"] /\ JobsOK'
  BY <1>a, <1>p, StartJob DEF Threads
<1>1. TypeOK'
  BY <1>0, <1>a, <1>p, <1>j DEF TypeOK
<1>2. ValuesBounded' /\ ListedInDep' /\ MadeListed'
  BY <1>0, <1>a DEF ValuesBounded, ListedInDep, MadeListed
<1>3. QueuedMade'
  BY <1>0, <1>a, <1>p, <1>j DEF QueuedMade
<1>4. FreshUnlessRaced'
  BY <1>0, <1>a DEF FreshUnlessRaced, Pending
<1> QED
  BY <1>j, <1>1, <1>2, <1>3, <1>4 DEF IInv

----------------------------------------------------------------------------
(* ... the main thread *)

LEMMA MakeIInv ==
  ASSUME Plain, IInv, NEW w \in Added, Make(w)
  PROVE  IInv'
<1>0. /\ TypeOK /\ ValuesBounded /\ ListedInDep /\ MadeListed /\ QueuedMade
      /\ JobsOK /\ FreshUnlessRaced
  BY DEF IInv
<1>a. /\ w \in Widgets \ made /\ job' = [job EXCEPT !["main"] = Job(w)]
      /\ UNCHANGED <<val, invalid, cache, dep, list, made, shown, pool, mainQ, scan, writer,
                     raced, writes>>
  BY SetsAssumption DEF Make
<1>j. /\ job' \in [Threads -> Jobs] /\ job'["main"].w = w
      /\ job'["pool"] = job["pool"] /\ JobsOK'
  BY <1>a, StartJob DEF Threads
<1>1. TypeOK'
  BY <1>0, <1>a, <1>j DEF TypeOK
<1>2. ValuesBounded' /\ ListedInDep' /\ MadeListed' /\ QueuedMade'
  BY <1>0, <1>a, <1>j DEF ValuesBounded, ListedInDep, MadeListed, QueuedMade
<1>3. FreshUnlessRaced'
  BY <1>0, <1>a DEF FreshUnlessRaced, Pending
<1> QED
  BY <1>j, <1>1, <1>2, <1>3 DEF IInv

LEMMA RunTriggerIInv ==
  ASSUME Plain, IInv, RunTrigger
  PROVE  IInv'
<1>0. /\ TypeOK /\ ValuesBounded /\ ListedInDep /\ MadeListed /\ QueuedMade
      /\ JobsOK /\ FreshUnlessRaced
  BY DEF IInv
<1>a. /\ mainQ # <<>> /\ Prep(made \ Polled) /\ mainQ' = Tail(mainQ)
      /\ UNCHANGED <<val, invalid, cache, dep, list, made, shown, job, scan, writer, raced,
                     writes>>
  BY DEF RunTrigger
<1>p. /\ pool' \in Seq(Widgets)
      /\ \A i \in DOMAIN pool' : \/ i \in DOMAIN pool /\ pool'[i] = pool[i]
                                 \/ pool'[i] \in made \ Polled
  BY <1>0, <1>a, PrepSeq DEF TypeOK
<1>m. mainQ' \in Seq(Widgets \cup {Trigger})
  BY <1>0, <1>a DEF TypeOK
<1>1. TypeOK'
  BY <1>0, <1>a, <1>p, <1>m DEF TypeOK
<1>2. ValuesBounded' /\ ListedInDep' /\ MadeListed' /\ QueuedMade'
  BY <1>0, <1>a, <1>p DEF ValuesBounded, ListedInDep, MadeListed, QueuedMade
<1>3. JobsOK'
  BY <1>0, <1>a DEF JobsOK, JobOK, AtVariable, DepKept, Registered, GotFresh, HasRead, Pending
<1>4. FreshUnlessRaced'
  BY <1>0, <1>a DEF FreshUnlessRaced, Pending
<1> QED
  BY <1>1, <1>2, <1>3, <1>4 DEF IInv

LEMMA UpdateValueIInv ==
  ASSUME Plain, IInv, UpdateValue
  PROVE  IInv'
<1> DEFINE w == Head(mainQ)
<1>0. /\ TypeOK /\ ValuesBounded /\ ListedInDep /\ MadeListed /\ QueuedMade
      /\ JobsOK /\ FreshUnlessRaced
  BY DEF IInv
<1>a. /\ mainQ # <<>> /\ w # Trigger /\ mainQ' = Tail(mainQ)
      /\ shown' = [shown EXCEPT ![w] = cache[w]]
      /\ invalid' = [invalid EXCEPT ![w] = TRUE]
      /\ UNCHANGED <<val, cache, dep, list, made, pool, job, scan, writer, raced, writes>>
  BY DEF UpdateValue
<1>w. w \in Widgets /\ mainQ' \in Seq(Widgets \cup {Trigger})
  <2>1. mainQ \in Seq(Widgets \cup {Trigger})
    BY <1>0 DEF TypeOK
  <2> QED
    BY <2>1, <1>a
<1> HIDE DEF w
<1>1. TypeOK'
  <2>1. shown' \in [Widgets -> Values] /\ invalid' \in [Widgets -> BOOLEAN]
    BY <1>0, <1>a, <1>w DEF TypeOK
  <2> QED
    BY <1>0, <1>a, <1>w, <2>1 DEF TypeOK
<1>2. ValuesBounded' /\ ListedInDep' /\ MadeListed' /\ QueuedMade'
  BY <1>0, <1>a DEF ValuesBounded, ListedInDep, MadeListed, QueuedMade
<1>3. JobsOK'
  BY <1>0, <1>a DEF JobsOK, JobOK, AtVariable, DepKept, Registered, GotFresh, HasRead, Pending
<1>4. FreshUnlessRaced'
  <2>1. \A u \in made : invalid[u] => invalid'[u]
    BY <1>0, <1>a DEF TypeOK
  <2> QED
    BY <1>0, <1>a, <2>1 DEF FreshUnlessRaced, Pending
<1> QED
  BY <1>1, <1>2, <1>3, <1>4 DEF IInv

----------------------------------------------------------------------------
(* ... the scanner thread *)

\* The scanner thread only gives the pool widgets that are made.
LEMMA ScannerIInv ==
  ASSUME Plain, IInv, Scanner
  PROVE  IInv'
<1>0. /\ TypeOK /\ ValuesBounded /\ ListedInDep /\ MadeListed /\ QueuedMade
      /\ JobsOK /\ FreshUnlessRaced
  BY DEF IInv
<1>a. UNCHANGED <<val, invalid, cache, dep, list, made, shown, job, mainQ, writer, raced, writes>>
  BY DEF Scanner, Poll, NextPoll, Sleep, Wake
<1>s. /\ scan' \in [todo : SUBSET Widgets, at : Widgets \cup {None}, timer : BOOLEAN,
                    awake : BOOLEAN]
      /\ scan'.todo \subseteq made
  <2>1. /\ scan \in [todo : SUBSET Widgets, at : Widgets \cup {None}, timer : BOOLEAN,
                     awake : BOOLEAN]
        /\ scan.todo \subseteq made /\ made \subseteq Widgets
        /\ invalid \in [Widgets -> BOOLEAN]
    BY <1>0 DEF TypeOK, QueuedMade
  <2>2. ASSUME NEW w \in Widgets, Poll(w)
        PROVE  /\ scan' \in [todo : SUBSET Widgets, at : Widgets \cup {None},
                             timer : BOOLEAN, awake : BOOLEAN]
               /\ scan'.todo \subseteq made
    BY <2>1, <2>2 DEF Poll
  <2>3. CASE NextPoll
    <3>1. IsDue(scan.at) \in BOOLEAN
      BY <2>1, <2>3 DEF NextPoll, IsDue
    <3> QED
      BY <2>1, <2>3, <3>1 DEF NextPoll
  <2>4. CASE Sleep
    BY <2>1, <2>4 DEF Sleep
  <2>5. CASE Wake
    BY <2>1, <2>5 DEF Wake
  <2> QED
    BY <2>2, <2>3, <2>4, <2>5 DEF Scanner
<1>p. /\ pool' \in Seq(Widgets)
      /\ \A i \in DOMAIN pool' : pool'[i] \in made
  <2>1. pool \in Seq(Widgets) /\ \A i \in DOMAIN pool : pool[i] \in made
    BY <1>0 DEF TypeOK, QueuedMade
  <2>2. pool' = pool \/ \E w \in made : pool' = Append(pool, w)
    BY <1>0 DEF Scanner, Poll, NextPoll, Sleep, Wake, QueuedMade
  <2>3. made \subseteq Widgets
    BY <1>0 DEF TypeOK
  <2> QED
    BY <2>1, <2>2, <2>3
<1>1. TypeOK'
  BY <1>0, <1>a, <1>s, <1>p DEF TypeOK
<1>2. ValuesBounded' /\ ListedInDep' /\ MadeListed' /\ QueuedMade'
  BY <1>0, <1>a, <1>s, <1>p DEF ValuesBounded, ListedInDep, MadeListed, QueuedMade
<1>3. JobsOK'
  BY <1>0, <1>a DEF JobsOK, JobOK, AtVariable, DepKept, Registered, GotFresh, HasRead, Pending
<1>4. FreshUnlessRaced'
  BY <1>0, <1>a DEF FreshUnlessRaced, Pending
<1> QED
  BY <1>1, <1>2, <1>3, <1>4 DEF IInv

----------------------------------------------------------------------------
(* The theorems *)

\* The invariant holds in every execution.
THEOREM Invariance ==
  ASSUME Plain
  PROVE  Spec => []IInv
<1>1. Init => IInv
  BY InitIInv
<1>2. IInv /\ [Next]_vars => IInv'
  <2> SUFFICES ASSUME IInv, [Next]_vars
               PROVE  IInv'
    OBVIOUS
  <2>1. ASSUME NEW v \in Vars, Assign(v)
        PROVE  IInv'
    BY <2>1, AssignIInv
  <2>2. CASE DepTrigger
    BY <2>2, DepTriggerIInv
  <2>3. CASE Emit
    BY <2>3, EmitIInv
  <2>4. ASSUME NEW t \in Threads, Eval(t)
        PROVE  IInv'
    BY <2>4, ReadIInv, DepGetIInv, DepNewIInv, DepInsertIInv, PublishIInv DEF Eval
  <2>5. CASE Take
    BY <2>5, TakeIInv
  <2>6. CASE RunTrigger
    BY <2>6, RunTriggerIInv
  <2>7. CASE UpdateValue
    BY <2>7, UpdateValueIInv
  <2>8. ASSUME NEW w \in Added, Make(w)
        PROVE  IInv'
    BY <2>8, MakeIInv
  <2>9. CASE Scanner
    BY <2>9, ScannerIInv
  <2>10. CASE UNCHANGED vars
    BY <2>10 DEF vars, IInv, TypeOK, ValuesBounded, ListedInDep, MadeListed, QueuedMade,
       JobsOK, JobOK, AtVariable, DepKept, Registered, GotFresh, HasRead, FreshUnlessRaced, Pending
  <2> QED
    BY <2>1, <2>2, <2>3, <2>4, <2>5, <2>6, <2>7, <2>8, <2>9, <2>10
    DEF Next, Pool, Main, Threads
<1> QED
  BY <1>1, <1>2, PTL DEF Spec

\* However the threads interleave, a valid expression has the value of the
\* variables as they are, unless one was assigned, and that was told to its
\* dependants, while the expression was evaluated.
THEOREM ValidIsFresh ==
  ASSUME Plain
  PROVE  Spec => []FreshUnlessRaced
<1>1. IInv => FreshUnlessRaced
  BY DEF IInv
<1> QED
  BY <1>1, Invariance, PTL

\* Every variable keeps its type.
THEOREM TypeCorrect ==
  ASSUME Plain
  PROVE  Spec => []TypeOK
<1>1. IInv => TypeOK
  BY DEF IInv
<1> QED
  BY <1>1, Invariance, PTL

=============================================================================
