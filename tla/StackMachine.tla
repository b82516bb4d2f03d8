---------------------------- MODULE StackMachine ----------------------------
(* The stack machine that runs the code of expressions and actions,         *)
(* src/vm/vm.c: vm_run, one action per operation.  A call of a user-defined *)
(* function runs the machine again inside the call; frames are what those   *)
(* calls keep on the C stack.                                               *)
EXTENDS Meaning

CONSTANTS Programs,    \* the trees: <<"expr", e>> or <<"action", instruction>>
          World,       \* the variables and the window's state at the start
          Deterministic, \* the native functions that depend on their parameters only
          Others       \* the worlds that an expression may be run in later

VARIABLES
  prog,     \* the tree whose code is run
  code, ip, \* the code of this frame, and where it is
  stack,    \* GArray *stack
  fp,       \* how much of it belongs to the callers
  frames,   \* the calls of user-defined functions, the innermost last
  cached,   \* use_cached
  vstate,   \* must the expression be evaluated again the next time
  deps,     \* the variables and functions in whose lists the expression is
  heap,     \* the store's variables
  log,      \* the effects so far
  stray,    \* has the "=" after a comparison been taken for what it is not
  result    \* the value, once there is one

vars == <<prog, code, ip, stack, fp, frames, cached, vstate, deps, heap, log, stray, result>>

Compiled(p) == IF p[1] = "expr" THEN ExprBuild(Text(p[2], 1)) ELSE ActionBuild(TextOf(p[2]))

\* Compiling and meaning are functions of constants: they are tabulated
CodeOf == [p \in Programs |-> Compiled(p)]

\* The code of the user-defined functions
UserCode == [f \in DOMAIN Functions |->
               FunctionBuild(Functions[f].params, TextOf(Functions[f].body))]

Init ==
  /\ prog \in Programs
  /\ code = Free(CodeOf[prog])
  /\ ip = 1
  /\ stack = <<>>
  /\ fp = 0
  /\ frames = <<>>
  /\ cached = FALSE
  /\ vstate = FALSE
  /\ deps = {}
  /\ heap = World.heap
  /\ log = <<>>
  /\ stray = FALSE
  /\ result = [pc |-> "run", v |-> NA]

----------------------------------------------------------------------------

At(op) == result.pc = "run" /\ ip <= Len(code) /\ code[ip].k = "op" /\ code[ip].v = op
Operand1 == code[ip + 1].v
Operand2 == code[ip + 2].v

\* vm_pop on this stack
Top(s) == IF s = <<>> THEN NA ELSE Last(s)
Pop(s) == IF s = <<>> THEN s ELSE Front(s)
PopN(s, n) == IF n >= Len(s) THEN <<>> ELSE SubSeq(s, 1, Len(s) - n)

\* vm_immediate
PushImmediate ==
  /\ At("immediate")
  /\ stack' = Append(stack, Operand1)
  /\ ip' = ip + 2
  /\ UNCHANGED <<prog, code, fp, frames, cached, vstate, deps, heap, log, stray, result>>

\* EXPR_OP_CACHED
SetCached ==
  /\ At("cached")
  /\ cached' = Operand1
  /\ ip' = ip + 2
  /\ UNCHANGED <<prog, code, stack, fp, frames, vstate, deps, heap, log, stray, result>>

\* Faulty variant of PushVariable: the scanner's variables only
PushVariableNoDep ==
  /\ At("variable")
  /\ LET x == Operand1
     IN  /\ stack' = Append(stack, IF x \in DOMAIN heap THEN heap[x]
                                   ELSE IF x \in DOMAIN World.scan THEN World.scan[x] ELSE NA)
         /\ log' = IF x \in DOMAIN World.scan \ DOMAIN heap /\ ~cached
                   THEN Append(log, <<"update", x>>) ELSE log
         /\ vstate' = (vstate \/ x \in DOMAIN World.scan \ DOMAIN heap)
         /\ deps' = IF x \in DOMAIN heap THEN deps ELSE deps \cup {x}
  /\ ip' = ip + 2
  /\ UNCHANGED <<prog, code, fp, frames, cached, heap, stray, result>>

\* vm_variable: of the store, or else of the scanner
PushVariable ==
  /\ At("variable")
  /\ LET x == Operand1
     IN  /\ stack' = Append(stack, IF x \in DOMAIN heap THEN heap[x]
                                   ELSE IF x \in DOMAIN World.scan THEN World.scan[x] ELSE NA)
         /\ log' = IF x \in DOMAIN World.scan \ DOMAIN heap /\ ~cached
                   THEN Append(log, <<"update", x>>) ELSE log
         /\ vstate' = (vstate \/ x \in DOMAIN World.scan \ DOMAIN heap)
         /\ deps' = deps \cup {x}
  /\ ip' = ip + 2
  /\ UNCHANGED <<prog, code, fp, frames, cached, heap, stray, result>>

\* vm_local
PushLocal ==
  /\ At("local")
  /\ stack' = Append(stack, stack[fp + Operand1])
  /\ vstate' = (vstate \/ prog[1] = "expr")
  /\ ip' = ip + 2
  /\ UNCHANGED <<prog, code, fp, frames, cached, deps, heap, log, stray, result>>

\* Faulty variant of AssignLocal: the slots are those of the outermost frame
AssignLocalOuter ==
  /\ At("local assign")
  /\ stack' = Pop([stack EXCEPT ![Operand1] = Top(stack)])
  /\ ip' = ip + 2
  /\ UNCHANGED <<prog, code, fp, frames, cached, vstate, deps, heap, log, stray, result>>

\* vm_local_assign
AssignLocal ==
  /\ At("local assign")
  /\ stack' = Pop([stack EXCEPT ![fp + Operand1] = Top(stack)])
  /\ ip' = ip + 2
  /\ UNCHANGED <<prog, code, fp, frames, cached, vstate, deps, heap, log, stray, result>>

\* vm_heap_assign
AssignHeap ==
  /\ At("heap assign")
  /\ heap' = IF Operand1 \in DOMAIN heap THEN [heap EXCEPT ![Operand1] = Top(stack)] ELSE heap
  /\ stack' = Pop(stack)
  /\ ip' = ip + 2
  /\ UNCHANGED <<prog, code, fp, frames, cached, vstate, deps, log, stray, result>>

\* vm_function, of a function that returns at once
Returned(f, np, v) ==
  /\ stack' = Append(PopN(stack, np), v)
  /\ deps' = deps \cup {f}
  /\ ip' = ip + 3

Params(np) == SubSeq(stack, Len(stack) - np + 1, Len(stack))

\* vm_function_native
CallNative ==
  /\ At("function")
  /\ LET np == Operand1
         f == Operand2
     IN  /\ f \notin DOMAIN Functions /\ np <= Len(stack)
         /\ Returned(f, np, IF f = "exec" THEN NA ELSE Native(f, Params(np), World.state))
         /\ log' = IF f = "exec" THEN Append(log, <<f, Params(np)>>) ELSE log
         /\ vstate' = (vstate \/ f \notin Deterministic)
  /\ UNCHANGED <<prog, code, fp, frames, cached, heap, stray, result>>

\* vm_function_user, with the wrong number of parameters
CallRejected ==
  /\ At("function")
  /\ LET np == Operand1
         f == Operand2
     IN  /\ f \in DOMAIN Functions /\ np <= Len(stack)
         /\ np # Len(Functions[f].params)
         /\ Returned(f, np, NA)
  /\ UNCHANGED <<prog, code, fp, frames, cached, vstate, heap, log, stray, result>>

\* vm_function_user: what it keeps, and the machine on the function's code
CallUser ==
  /\ At("function")
  /\ LET np == Operand1
         f == Operand2
     IN  /\ f \in DOMAIN Functions /\ np <= Len(stack)
         /\ np = Len(Functions[f].params)
         /\ frames' = Append(frames, [f |-> f, np |-> np, ip |-> ip, fp |-> fp, code |-> code,
                                      below |-> PopN(stack, np), len |-> Len(stack)])
         /\ fp' = Len(stack) - np
         /\ code' = Free(UserCode[f])
         /\ ip' = 1
  /\ UNCHANGED <<prog, stack, cached, vstate, deps, heap, log, stray, result>>

\* The end of vm_run, with the value on top: the result, or that of the call
Leave ==
  /\ IF frames = <<>>
     THEN /\ result' = [pc |-> "done", v |-> Top(stack)]
          /\ stack' = Pop(stack)
          /\ UNCHANGED <<code, ip, fp, frames, vstate, deps>>
     ELSE LET fr == Last(frames)
              kept == IF Len(Pop(stack)) > fr.len THEN SubSeq(stack, 1, fr.len) ELSE Pop(stack)
          IN  /\ stack' = Append(PopN(kept, fr.np), Top(stack))
              /\ code' = fr.code
              /\ ip' = fr.ip + 3
              /\ fp' = fr.fp
              /\ frames' = Front(frames)
              /\ vstate' = TRUE
              /\ deps' = deps \cup {fr.f}
              /\ UNCHANGED result
  /\ UNCHANGED <<prog, cached, heap, log, stray>>

LeaveAtEnd == result.pc = "run" /\ ip > Len(code) /\ Leave
ReturnOp == At("return") /\ Leave

Jmp ==
  /\ At("jmp")
  /\ ip' = ip + Operand1 + 2
  /\ UNCHANGED <<prog, code, stack, fp, frames, cached, vstate, deps, heap, log, stray, result>>

Jz ==
  /\ At("jz")
  /\ ip' = ip + 2 + (IF IsTrue(Top(stack)) THEN 0 ELSE Operand1)
  /\ stack' = Pop(stack)
  /\ UNCHANGED <<prog, code, fp, frames, cached, vstate, deps, heap, log, stray, result>>

Discard ==
  /\ At("discard")
  /\ stack' = Pop(stack)
  /\ ip' = ip + 1
  /\ UNCHANGED <<prog, code, fp, frames, cached, vstate, deps, heap, log, stray, result>>

Not ==
  /\ At("!")
  /\ stack' = Append(Pop(stack), NotOp(Top(stack)))
  /\ ip' = ip + 1
  /\ UNCHANGED <<prog, code, fp, frames, cached, vstate, deps, heap, log, stray, result>>

BinaryOps == {"+", "-", "*", "%", "=", "<", ">", "&", "|"}
AtBinary == \E op \in BinaryOps : At(op)

\* vm_op_binary.  "<=" and ">=" are two operations.  The second is part of the
\* first only when the operands are numbers, and then any "=" that follows is; behind
\* the code's end there is anything.
Binary ==
  /\ AtBinary /\ Len(stack) >= 2
  /\ \E behind \in {"=", "any"} :
     LET op == code[ip].v
         v2 == Top(stack)
         v1 == Top(Pop(stack))
         next == IF ip < Len(code) THEN code[ip + 1] ELSE [v |-> behind, half |-> FALSE]
         orEqual == op \in {"<", ">"} /\ next.v = "="
         v == BinaryOp(op, v1, v2)
     IN  /\ ~(op = "%" /\ Numeric(v1, v2) /\ v2.n = 0)
         /\ stack' = Append(PopN(stack, 2),
                            IF orEqual /\ Numeric(v1, v2) THEN Bool(IsTrue(v) \/ v1.n = v2.n) ELSE v)
         /\ ip' = ip + (IF orEqual /\ Numeric(v1, v2) THEN 2 ELSE 1)
         /\ stray' = (stray \/ (orEqual /\ ~(Numeric(v1, v2) /\ next.half)))
  /\ UNCHANGED <<prog, code, fp, frames, cached, vstate, deps, heap, log, result>>

\* (gint)v1 % (gint)v2: the remainder of a division by zero stops the program
DivideByZero ==
  /\ At("%") /\ Len(stack) >= 2
  /\ Numeric(Top(Pop(stack)), Top(stack)) /\ Top(stack).n = 0
  /\ result' = [pc |-> "crashed", v |-> NA]
  /\ UNCHANGED <<prog, code, ip, stack, fp, frames, cached, vstate, deps, heap, log, stray>>

\* An operator without its operands ends the code
InvalidOp == result.pc = "run" /\ AtBinary /\ Len(stack) < 2 /\ Leave

Next ==
  \/ PushImmediate \/ SetCached \/ PushVariable \/ PushLocal
  \/ AssignLocal \/ AssignHeap
  \/ CallNative \/ CallRejected \/ CallUser \/ LeaveAtEnd \/ ReturnOp
  \/ Jmp \/ Jz \/ Discard \/ Not
  \/ Binary \/ DivideByZero \/ InvalidOp

Spec == Init /\ [][Next]_vars
FairSpec == Spec /\ WF_vars(Next)

----------------------------------------------------------------------------
(* Properties *)

\* Every program compiles, the stack holds values and the machine is at an
\* operation, never at an operand.
TypeOK ==
  /\ Complete(CodeOf[prog])
  /\ \A i \in DOMAIN stack : stack[i].t \in {"na", "num", "str"}
  /\ ip = Len(code) + 1 \/ (ip = Len(code) + 2 /\ stray) \/ (ip \in 1..Len(code) /\ code[ip].k = "op")
  /\ fp \in Nat
  /\ {cached, vstate, stray} \subseteq BOOLEAN
  /\ DOMAIN heap = DOMAIN World.heap
  /\ result.pc \in {"run", "done", "crashed"}

\* What the programs mean
MeaningOf == [p \in Programs |-> IF p[1] = "expr" THEN Eval(p[2], Eval0(World))
                                 ELSE Both(NA, Exec(p[2], Eval0(World)))]

\* What the value of every expression would be in the other worlds
LaterValue == [p \in {q \in Programs : q[1] = "expr"} |->
                 [o \in Others |-> Eval(p[2], Eval0(o)).v]]

AsMeant ==
  LET m == MeaningOf[prog]
  IN  /\ prog[1] = "expr" => result.v = m.v
      /\ heap = m.w.heap
      /\ log = m.w.log

\* The compiled code computes what the text means: the value of an expression,
\* the variables that are assigned and the effects in their order, unless the
\* second half of "<=" or ">=" was taken for an "=", or an "=" for such a half.
ResultAsMeant == result.pc = "done" /\ ~stray => AsMeant

\* doc/sfwbar.rst: "equality comparison of two values", whatever the values are
\* computed by: the value of an expression is always what it means.
AlwaysAsMeant == result.pc = "done" => AsMeant

\* A user-defined function leaves its callers' part of the stack alone, and nothing
\* is left on the stack of an expression (the warning of vm_free).
StackKept ==
  \/ stray
  \/ /\ \A i \in DOMAIN frames :
           /\ Len(frames[i].below) <= Len(stack)
           /\ SubSeq(stack, 1, Len(frames[i].below)) = frames[i].below
     /\ result.pc = "done" /\ prog[1] = "expr" => stack = <<>>

\* An expression that is left valid will not be evaluated again until something
\* in whose list it is changes: until then its value in every world is this one.
ValidIsStable ==
  result.pc = "done" /\ prog[1] = "expr" /\ ~vstate /\ ~stray =>
    \A o \in Others :
      (\A x \in deps \cap DOMAIN heap : o.heap[x] = heap[x]) => LaterValue[prog][o] = result.v

\* Every program comes to its end.
Ends == <>(result.pc # "run")
=============================================================================
