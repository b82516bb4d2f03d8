------------------------------ MODULE Meaning ------------------------------
(* What expressions and instructions mean, apart from how they are compiled *)
(* and run (doc/sfwbar.rst, Actions and Expressions): the source text of a  *)
(* syntax tree, and its value and effects.                                  *)
EXTENDS Parser

CONSTANTS Terms,       \* the tree of every "define"
          Functions,   \* the parameters and the body of every user-defined function
          Native(_, _, _) \* what a native function returns for its parameters and the window's state

----------------------------------------------------------------------------
(* The source text of a tree: parentheses only where the levels need them *)

RECURSIVE Text(_, _), TextOf(_)

LevelOf(op) == CASE op \in {"&", "|"} -> 1
                 [] op \in {"!=", "<", "<=", ">", ">=", "="} -> 2
                 [] op \in {"+", "-"} -> 3
                 [] op \in {"*", "%"} -> 4

Spelling(op) == CASE op = "!=" -> <<Sym("!"), Sym("=")>>
                  [] op = "<=" -> <<Sym("<"), Sym("=")>>
                  [] op = ">=" -> <<Sym(">"), Sym("=")>>
                  [] OTHER -> <<Sym(op)>>

Parens(ts) == <<Sym("(")>> \o ts \o <<Sym(")")>>
Commas(tss) == FlattenSeq([i \in DOMAIN tss |-> IF i = 1 THEN tss[i] ELSE <<Sym(",")>> \o tss[i]])

Text(e, level) ==
  CASE e[1] = "num" -> <<Tok("num", e[2])>>
    [] e[1] = "str" -> <<Tok("str", e[2])>>
    [] e[1] = "var" -> <<Id(e[2])>>
    [] e[1] = "neg" -> <<Sym("-")>> \o Text(e[2], 5)
    [] e[1] = "not" -> <<Sym("!")>> \o Text(e[2], 5)
    [] e[1] = "op" ->
         LET l == LevelOf(e[2])
             t == Text(e[3], l) \o Spelling(e[2]) \o Text(e[4], l + 1)
         IN  IF l < level THEN Parens(t) ELSE t
    [] e[1] = "if" -> <<Id("if")>> \o Parens(Commas(<<Text(e[2], 1), Text(e[3], 1), Text(e[4], 1)>>))
    [] e[1] = "cached" -> <<Id("cached")>> \o Parens(Text(e[2], 1))
    [] e[1] = "call" -> <<Id(e[2])>> \o Parens(Commas([i \in DOMAIN e[3] |-> Text(e[3][i], 1)]))

ConditionText(c) ==
  IF c = <<>> THEN <<>>
  ELSE <<Sym("[")>> \o Tail(FlattenSeq([i \in DOMAIN c |->
         <<Sym("|")>> \o (IF c[i][1] THEN <<>> ELSE <<Sym("!")>>) \o <<Id(c[i][2])>>])) \o <<Sym("]")>>

TextOf(i) ==
  CASE i[1] = "block" -> <<Sym("{")>> \o FlattenSeq([k \in DOMAIN i[2] |-> TextOf(i[2][k])])
                         \o <<Sym("}")>>
    [] i[1] = "var" -> <<Id("var"), Id(i[2]), Sym("=")>> \o Text(i[3], 1) \o <<Sym(";")>>
    [] i[1] = "set" -> <<Id(i[2]), Sym("=")>> \o Text(i[3], 1) \o <<Sym(";")>>
    [] i[1] = "if" -> <<Id("if")>> \o Text(i[2], 1) \o TextOf(i[3])
    [] i[1] = "else" -> <<Id("if")>> \o Text(i[2], 1) \o TextOf(i[3]) \o <<Id("else")>> \o TextOf(i[4])
    [] i[1] = "while" -> <<Id("while")>> \o Text(i[2], 1) \o TextOf(i[3])
    [] i[1] = "for" -> <<Id("for"), Sym("(")>> \o TextOf(i[2]) \o Text(i[3], 1) \o <<Sym(";")>>
                       \o TextOf(i[4]) \o <<Sym(")")>> \o TextOf(i[5])
    [] i[1] = "return" -> <<Id("return")>> \o Text(i[2], 1) \o <<Sym(";")>>
    [] i[1] = "do" -> ConditionText(i[2]) \o Text(<<"call", i[3], i[4]>>, 1) \o <<Sym(";")>>

----------------------------------------------------------------------------
(* Its meaning.  The world is the store's variables, the scanner's, the     *)
(* window's state; an evaluation adds its frame's variables, the effects so *)
(* far, whether it is inside Cached() and what the function returned.       *)

Eval0(world) == world @@ [local |-> <<>>, log |-> <<>>, cached |-> FALSE,
                          ret |-> [done |-> FALSE, v |-> NA]]

Both(v, w) == [v |-> v, w |-> w]

\* A comparison of anything but numbers has no value, nor has a remainder of 0
Apply(op, a, b) ==
  CASE op = "!=" -> NotOp(BinaryOp("=", a, b))
    [] op \in {"<=", ">="} ->
         IF Numeric(a, b) THEN Bool(IF op = "<=" THEN a.n <= b.n ELSE a.n >= b.n) ELSE NA
    [] op = "%" /\ Numeric(a, b) /\ b.n = 0 -> NA
    [] OTHER -> BinaryOp(op, a, b)

RECURSIVE Eval(_, _), EvalAll(_, _), Exec(_, _), Repeat(_, _, _, _)

Lookup(x, w) ==
  IF x \in DOMAIN w.local THEN Both(w.local[x], w)
  ELSE IF x \in DOMAIN Terms THEN Eval(Terms[x], w)
  ELSE IF x \in DOMAIN w.heap THEN Both(w.heap[x], w)
  ELSE IF x \in DOMAIN w.scan
       THEN Both(w.scan[x], IF w.cached THEN w ELSE [w EXCEPT !.log = Append(@, <<"update", x>>)])
  ELSE Both(NA, w)

\* A user-defined function sees its parameters and no other local variable
CallUserFunction(f, vs, w) ==
  LET def == Functions[f]
      inside == [w EXCEPT !.local = [x \in ToSet(def.params) |->
                                       vs[CHOOSE i \in DOMAIN vs : def.params[i] = x]],
                          !.ret = [done |-> FALSE, v |-> NA]]
      r == Exec(def.body, inside)
  IN  IF Len(vs) # Len(def.params) THEN Both(NA, w)
      ELSE Both(r.ret.v, [r EXCEPT !.local = w.local, !.ret = w.ret])

CallFunction(f, vs, w) ==
  CASE f \in DOMAIN Functions -> CallUserFunction(f, vs, w)
    [] f = "exec" -> Both(NA, [w EXCEPT !.log = Append(@, <<"exec", vs>>)])
    [] OTHER -> Both(Native(f, vs, w.state), w)

Eval(e, w) ==
  CASE e[1] = "num" -> Both(Num(e[2]), w)
    [] e[1] = "str" -> Both(Str(e[2]), w)
    [] e[1] = "var" -> Lookup(e[2], w)
    [] e[1] = "neg" -> LET a == Eval(e[2], w) IN Both(BinaryOp("*", a.v, Num(-1)), a.w)
    [] e[1] = "not" -> LET a == Eval(e[2], w) IN Both(NotOp(a.v), a.w)
    [] e[1] = "op" -> LET a == Eval(e[3], w)
                          b == Eval(e[4], a.w)
                      IN  Both(Apply(e[2], a.v, b.v), b.w)
    [] e[1] = "if" -> LET c == Eval(e[2], w) IN Eval(IF IsTrue(c.v) THEN e[3] ELSE e[4], c.w)
    [] e[1] = "cached" -> LET a == Eval(e[2], [w EXCEPT !.cached = TRUE])
                          IN  Both(a.v, [a.w EXCEPT !.cached = w.cached])
    [] e[1] = "call" -> LET a == EvalAll(e[3], w) IN CallFunction(e[2], a.vs, a.w)

EvalAll(es, w) ==
  IF es = <<>> THEN [vs |-> <<>>, w |-> w]
  ELSE LET a == EvalAll(Front(es), w)
           b == Eval(Last(es), a.w)
       IN  [vs |-> Append(a.vs, b.v), w |-> b.w]

\* The loop of while and for: the condition, the body, the update
Repeat(c, body, update, w) ==
  LET t == Eval(c, w)
      b == Exec(body, t.w)
  IN  IF ~IsTrue(t.v) THEN t.w
      ELSE IF b.ret.done THEN b ELSE Repeat(c, body, update, Exec(update, b))

Nothing == <<"block", <<>> >>

Holds(c, state) == \A i \in DOMAIN c : c[i][1] <=> c[i][2] \in state

Exec(i, w) ==
  IF w.ret.done THEN w
  ELSE CASE i[1] = "block" -> IF i[2] = <<>> THEN w
                              ELSE Exec(Last(i[2]), Exec(<<"block", Front(i[2])>>, w))
         [] i[1] \in {"var", "set"} ->
              LET a == Eval(i[3], w)
              IN  IF i[1] = "var" \/ i[2] \in DOMAIN w.local
                  THEN [a.w EXCEPT !.local = (i[2] :> a.v) @@ @]
                  ELSE [a.w EXCEPT !.heap[i[2]] = a.v]
         [] i[1] = "if" -> LET c == Eval(i[2], w) IN IF IsTrue(c.v) THEN Exec(i[3], c.w) ELSE c.w
         [] i[1] = "else" -> LET c == Eval(i[2], w) IN Exec(IF IsTrue(c.v) THEN i[3] ELSE i[4], c.w)
         [] i[1] = "while" -> Repeat(i[2], i[3], Nothing, w)
         [] i[1] = "for" -> Repeat(i[3], i[5], i[4], Exec(i[2], w))
         [] i[1] = "return" -> LET a == Eval(i[2], w) IN [a.w EXCEPT !.ret = [done |-> TRUE, v |-> a.v]]
         [] i[1] = "do" -> IF Holds(i[2], w.state) THEN Eval(<<"call", i[3], i[4]>>, w).w ELSE w
=============================================================================
