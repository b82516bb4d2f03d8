------------------------------- MODULE Parser -------------------------------
(* The compiler of expressions, actions and functions, src/vm/parser.c: a   *)
(* recursive descent over the scanner's tokens that appends code.  A parser *)
(* takes and returns the record of what is left of the input, the code, the *)
(* local variables and whether an error was met.  Code is a sequence of     *)
(* cells, an operation's or its operand's.  Version 2 of the configuration  *)
(* language; arrays are left out.                                           *)
EXTENDS Integers, SequencesExt

CONSTANTS Globals,     \* the variables of the configuration's store
          Macros,      \* the code of every "define"
          Flags        \* the conditions of actions, as bits

----------------------------------------------------------------------------
(* Values (src/vm/value.h, src/vm/value.c) and the operators on them          *)
(* (vm_op_binary).  Numbers are integers, so "/" is left out.                 *)

NA == [t |-> "na", n |-> 0, s |-> <<>>]
Num(n) == [t |-> "num", n |-> n, s |-> <<>>]
Str(s) == [t |-> "str", n |-> 0, s |-> s]
Bool(b) == Num(IF b THEN 1 ELSE 0)

LikeString(v) == v.t \in {"str", "na"}
LikeNumeric(v) == v.t \in {"num", "na"}
IsTrue(v) == v.t = "num" /\ v.n # 0

Arithmetic(op, a, b) ==
  CASE op = "+" -> Num(a + b)
    [] op = "-" -> Num(a - b)
    [] op = "*" -> Num(a * b)
    [] op = "%" -> Num((IF a < 0 THEN -1 ELSE 1) * ((IF a < 0 THEN -a ELSE a)
                         % (IF b < 0 THEN -b ELSE b)))
    [] op = "&" -> Bool(a # 0 /\ b # 0)
    [] op = "|" -> Bool(a # 0 \/ b # 0)
    [] op = "<" -> Bool(a < b)
    [] op = ">" -> Bool(a > b)

\* Are the operands' numbers what the operator is applied to
Numeric(v1, v2) == LikeNumeric(v1) /\ LikeNumeric(v2) /\ ~(v1.t = "na" /\ v2.t = "na")

BinaryOp(op, v1, v2) ==
  IF op = "=" THEN Bool(v1 = v2)
  ELSE IF Numeric(v1, v2) THEN Arithmetic(op, v1.n, v2.n)
  ELSE IF LikeString(v1) /\ LikeString(v2) /\ op = "+" /\ (v1.t = "str" \/ v2.t = "str")
       THEN Str(v1.s \o v2.s)
  ELSE NA

NotOp(v) == IF v.t = "num" THEN Bool(v.n = 0) ELSE NA

----------------------------------------------------------------------------
(* Tokens and cells of code *)

Tok(t, v) == [t |-> t, v |-> v]
Sym(c) == Tok("sym", c)
Id(x) == Tok("id", x)
Eof == Tok("eof", "")

Op(o) == [k |-> "op", v |-> o, half |-> FALSE]
Arg(x) == [k |-> "arg", v |-> x, half |-> FALSE]
\* The second operation of "<=" and ">=": the code does not tell it from "="
Second == [k |-> "op", v |-> "=", half |-> TRUE]
Immediate(v) == <<Op("immediate"), Arg(v)>>

----------------------------------------------------------------------------
(* The scanner: config/base.c *)

Peek(s) == IF s.in = <<>> THEN Eof ELSE Head(s.in)
Take(s) == [s EXCEPT !.in = Tail(@)]
Is(s, c) == Peek(s).t = "sym" /\ Peek(s).v = c
IsId(s, x) == Peek(s).t = "id" /\ Peek(s).v = x
Fail(s) == [s EXCEPT !.ok = FALSE]
\* config_check_and_consume, where the result does not matter
Skip(s, c) == IF Is(s, c) THEN Take(s) ELSE s
\* config_expect_token
Expect(s, c) == IF Is(s, c) THEN Take(s) ELSE Fail(s)

Emit(s, cells) == [s EXCEPT !.code = @ \o cells]
Pos(s) == Len(s.code)
\* parser_emit_jump; the operand is the last cell
Jump(s, op) == Emit(s, <<Op(op), Arg(0)>>)
\* Faulty variant of Backpatch: the distance from the operand's beginning
BackpatchLong(s, at, to) == [s EXCEPT !.code[at] = Arg(to - at + 1)]
\* parser_jump_backpatch: the distance from the operand's end
Backpatch(s, at, to) == [s EXCEPT !.code[at] = Arg(to - at)]

\* parser_local_lookup: the variable's slot
LocalSlot(s, x) ==
  IF s.scope /\ Contains(s.locals, x) THEN CHOOSE i \in DOMAIN s.locals : s.locals[i] = x ELSE 0

----------------------------------------------------------------------------
(* Expressions *)

Levels == << {"&", "|"}, {"!", "<", ">", "="}, {"+", "-"}, {"*", "%"} >>

\* The two symbols of the grammar that contain each other and themselves
RECURSIVE Parse(_, _)
Expr(s) == Parse("expression", s)
Block(s) == Parse("block", s)

RECURSIVE Operand(_), Ops(_, _), OpsFrom(_, _), Args(_, _)

\* parser_if: If(condition, value, value)
IfExpr(s) ==
  LET c == Jump(Expect(Expr(Expect(s, "(")), ","), "jz")
      a == Expect(Expr(c), ",")
      b == Jump(Backpatch(a, Pos(c), Pos(a) + 2), "jmp")
      d == Expect(Expr(b), ")")
  IN  Backpatch(d, Pos(b), Pos(d))

\* parser_cached
CachedExpr(s) ==
  LET e == Expect(Expr(Expect(Emit(s, <<Op("cached"), Arg(TRUE)>>), "(")), ")")
  IN  Emit(Skip(e, ";"), <<Op("cached"), Arg(FALSE)>>)

\* The parameters of a call, from the np-th
Args(s, np) ==
  LET e == Expr(s)
  IN  IF Is(e, ",") THEN Args(Take(e), np + 1) ELSE [s |-> e, np |-> np]

Function(s, f, np) == Emit(s, <<Op("function"), Arg(np), Arg(f)>>)

\* parser_function: the input is at the "("
Call(s, f) ==
  LET p == Take(s)
      a == Args(p, 1)
  IN  IF Is(p, ")") THEN Function(Take(p), f, 0) ELSE Function(Expect(a.s, ")"), f, a.np)

\* parser_variable
Variable(s, x) ==
  IF LocalSlot(s, x) # 0 THEN Emit(s, <<Op("local"), Arg(LocalSlot(s, x))>>)
                         ELSE Emit(s, <<Op("variable"), Arg(x)>>)

\* parser_identifier
Identifier(s, x) ==
  CASE x = "if" -> IfExpr(s)
    [] x = "cached" -> CachedExpr(s)
    [] x \in {"true", "false"} -> Emit(s, Immediate(Bool(x = "true")))
    [] OTHER -> IF Is(s, "(") THEN Call(s, x)
                ELSE IF x \in DOMAIN Macros THEN Emit(s, Macros[x])
                ELSE Variable(s, x)

\* parser_value
Operand(s) ==
  LET t == Peek(s)
      r == Take(s)
  IN  CASE t.t = "num" -> Emit(r, Immediate(Num(t.v)))
        [] t.t = "str" -> Emit(r, Immediate(Str(t.v)))
        [] t.t = "id" -> Identifier(r, t.v)
        [] Is(s, "+") -> Operand(r)
        [] Is(s, "-") -> Emit(Operand(r), Immediate(Num(-1)) \o <<Op("*")>>)
        [] Is(s, "!") -> Emit(Operand(r), <<Op("!")>>)
        [] Is(s, "(") -> Expect(Expr(r), ")")
        [] OTHER -> Fail(s)

\* Faulty variant of OpsFrom: operators of a level group to the right
OpsFromRight(s, l) ==
  IF Peek(s).t # "sym" \/ Peek(s).v \notin Levels[l] THEN s
  ELSE LET op == Peek(s).v
           unequal == op = "!"
           a == IF unequal THEN Expect(Take(s), "=") ELSE Take(s)
           orEqual == op \in {"<", ">"} /\ Is(a, "=")
           b == Ops(IF orEqual THEN Take(a) ELSE a, l)
       IN  Emit(b, (IF unequal THEN <<Op("=")>> ELSE <<>>) \o <<Op(op)>>
                   \o (IF orEqual THEN <<Second>> ELSE <<>>))

\* parser_ops: the operators of a level after their first operand
OpsFrom(s, l) ==
  IF Peek(s).t # "sym" \/ Peek(s).v \notin Levels[l] THEN s
  ELSE LET op == Peek(s).v
           unequal == op = "!"
           a == IF unequal THEN Expect(Take(s), "=") ELSE Take(s)
           orEqual == op \in {"<", ">"} /\ Is(a, "=")
           b == Ops(IF orEqual THEN Take(a) ELSE a, l + 1)
       IN  OpsFrom(Emit(b, (IF unequal THEN <<Op("=")>> ELSE <<>>) \o <<Op(op)>>
                           \o (IF orEqual THEN <<Second>> ELSE <<>>)), l)

Ops(s, l) == IF l > Len(Levels) THEN Operand(s) ELSE OpsFrom(Ops(s, l + 1), l)

----------------------------------------------------------------------------
(* Instructions *)

RECURSIVE Instrs(_), Conditions(_, _), Declare(_)

\* parser_assign_parse
Assign(s, x) ==
  LET e == Skip(Expr(Expect(s, "=")), ";")
  IN  IF LocalSlot(e, x) # 0 THEN Emit(e, <<Op("local assign"), Arg(LocalSlot(e, x))>>)
                             ELSE Emit(e, <<Op("heap assign"), Arg(x)>>)

\* The conditions [a|!b] of an action: those that must hold and those that must not
Conditions(s, c) ==
  LET neg == Is(s, "!")
      r == Skip(s, "!")
      f == Flags[Peek(r).v]
      d == IF neg THEN [c EXCEPT !.no = @ \cup {f}] ELSE [c EXCEPT !.yes = @ \cup {f}]
  IN  IF Is(Take(r), "|") THEN Conditions(Take(Take(r)), d)
                          ELSE [s |-> Expect(Take(r), "]"), c |-> d]

NoCondition == [yes |-> {}, no |-> {}]
Bits(fs) == FoldSet(LAMBDA f, n : f + n, 0, fs)

\* parser_action_parse: the call, or the assignment, of an action
CallAction(s, f) ==
  LET p == Expect(s, "(")
      a == Args(p, 1)
      c == IF Is(p, ")") THEN [s |-> p, np |-> 0] ELSE a
  IN  Function(Skip(Expect(c.s, ")"), ";"), f, c.np)

\* parser_action_parse
Action(s) ==
  LET c == IF Is(s, "[") THEN Conditions(Take(s), NoCondition) ELSE [s |-> s, c |-> NoCondition]
      f == Peek(c.s).v
      test == Jump(Function(Emit(c.s, Immediate(Num(Bits(c.c.yes)))
                                      \o Immediate(Num(Bits(c.c.no)))), "checkstate", 2), "jz")
      call == CallAction(Take(test), f)
      past == Jump(Backpatch(call, Pos(test), Pos(call) + 2), "jmp")
      na == Emit(past, Immediate(NA))
  IN  IF Peek(c.s).t # "id" THEN Fail(s)
      ELSE IF c.c # NoCondition THEN Emit(Backpatch(na, Pos(past), Pos(na)), <<Op("discard")>>)
      ELSE IF LocalSlot(s, f) # 0 \/ f \in Globals THEN Assign(Take(s), f)
      ELSE Emit(CallAction(Take(s), f), <<Op("discard")>>)

\* parser_var_parse, parser_var_declare: the count of slots is a byte
Declare(s) ==
  LET x == Peek(s).v
      d == [Take(s) EXCEPT !.locals = Append(@, x), !.count = (@ + 1) % 256]
      a == IF Is(d, "=") THEN Assign(d, x) ELSE d
  IN  IF Peek(s).t # "id" \/ LocalSlot(s, x) # 0 THEN Fail(s)
      ELSE IF Is(a, ",") THEN Declare(Take(a)) ELSE Skip(a, ";")

\* parser_if_instr_parse
IfInstr(s) ==
  LET c == Jump(Expr(s), "jz")
      a == Block(c)
      e == Jump(Backpatch(Take(a), Pos(c), Pos(a) + 2), "jmp")
      d == Block(e)
  IN  IF IsId(a, "else") THEN Backpatch(d, Pos(e), Pos(d)) ELSE Backpatch(a, Pos(c), Pos(a))

\* parser_while_parse
While(s) ==
  LET c == Jump(Expr(s), "jz")
      b == Jump(Block(c), "jmp")
  IN  Backpatch(Backpatch(b, Pos(b), Pos(s)), Pos(c), Pos(b))

\* Faulty variant of For: the update is never run
ForNoUpdate(s) ==
  LET init == Block(Expect(s, "("))
      done == Jump(Expr(init), "jz")
      cont == Jump(done, "jmp")
      updt == Jump(Expect(Block(Expect(cont, ";")), ")"), "jmp")
      again == Backpatch(Backpatch(updt, Pos(updt), Pos(init)), Pos(cont), Pos(updt))
      body == Jump(Block(again), "jmp")
  IN  Backpatch(Backpatch(body, Pos(body), Pos(init)), Pos(done), Pos(body))

\* parser_for_parse
For(s) ==
  LET init == Block(Expect(s, "("))
      done == Jump(Expr(init), "jz")
      cont == Jump(done, "jmp")
      updt == Jump(Expect(Block(Expect(cont, ";")), ")"), "jmp")
      again == Backpatch(Backpatch(updt, Pos(updt), Pos(init)), Pos(cont), Pos(updt))
      body == Jump(Block(again), "jmp")
  IN  Backpatch(Backpatch(body, Pos(body), Pos(cont)), Pos(done), Pos(body))

\* parser_return_parse
Return(s) ==
  Emit(IF Is(s, ";") THEN Emit(Take(s), Immediate(NA)) ELSE Skip(Expr(s), ";"), <<Op("return")>>)

\* parser_instr_parse
Instr(s) ==
  CASE IsId(s, "var") -> Declare(Take(s))
    [] IsId(s, "if") -> IfInstr(Take(s))
    [] IsId(s, "while") -> While(Take(s))
    [] IsId(s, "for") -> For(Take(s))
    [] IsId(s, "return") -> Return(Take(s))
    [] Is(s, "{") -> Block(s)
    [] OTHER -> Action(s)

Instrs(s) == IF Is(s, "}") \/ ~s.ok THEN Expect(s, "}") ELSE Instrs(Instr(s))

\* parser_block_parse: the outermost block has the local variables
BlockOrInstr(s) ==
  LET b == Skip(Instrs([Take(s) EXCEPT !.scope = TRUE]), ";")
  IN  IF ~Is(s, "{") THEN Instr(s)
      ELSE IF s.scope THEN b ELSE [b EXCEPT !.scope = FALSE, !.locals = <<>>]

Parse(symbol, s) == IF symbol = "expression" THEN Ops(s, 1) ELSE BlockOrInstr(s)

----------------------------------------------------------------------------
(* Whole expressions, actions and functions *)

New(tokens) == [in |-> tokens, code |-> <<>>, locals |-> <<>>, scope |-> FALSE, count |-> 0,
                ok |-> TRUE]
\* parser_free: a slot for every local variable comes first
Free(s) == FlattenSeq([i \in 1..s.count |-> Immediate(NA)]) \o s.code
Complete(s) == s.ok /\ s.in = <<>>

\* parser_expr_build, parser_action_build, parser_function_build
ExprBuild(tokens) == Expr(New(tokens))
ActionBuild(tokens) == Block(New(tokens))
FunctionBuild(params, tokens) ==
  LET b == Block([New(tokens) EXCEPT !.locals = params, !.scope = TRUE])
  IN  Emit(b, Immediate(NA))
=============================================================================
