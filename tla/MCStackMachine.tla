--------------------------- MODULE MCStackMachine ---------------------------
(* Small programs for StackMachine: every expression of two operators over  *)
(* a few operands, and actions with each instruction.                       *)
EXTENDS StackMachine

MCGlobals == {"g", "h"}
MCTerms == [half |-> <<"op", "-", <<"var", "g">>, <<"num", 1>> >>]
MCMacros == [half |-> <<Op("variable"), Arg("g")>> \o Immediate(Num(1)) \o <<Op("-")>>]
MCFlags == [focused |-> 1, minimized |-> 2]
MCWorld == [heap |-> [g |-> Num(2), h |-> NA], scan |-> [cpu |-> Num(1)], state |-> {"focused"}]
MCOthers == {[MCWorld EXCEPT !.heap = [g |-> a, h |-> b], !.scan = [cpu |-> c], !.state = s] :
               a, b \in {Num(0), Num(2), Str(<<"b">>)}, c \in {Num(1), Num(5)}, s \in {{}, {"focused"}}}

MCNative(f, p, state) ==
  CASE f = "max" -> IF Len(p) = 2 /\ LikeNumeric(p[1]) /\ LikeNumeric(p[2])
                    THEN Num(IF p[1].n > p[2].n THEN p[1].n ELSE p[2].n) ELSE NA
    [] f = "checkstate" ->
         LET bits(n) == {x \in DOMAIN MCFlags : (n \div MCFlags[x]) % 2 = 1}
         IN  Bool(bits(p[1].n) \subseteq state /\ bits(p[2].n) \cap state = {})
    [] OTHER -> NA

N(n) == <<"num", n>>
V(x) == <<"var", x>>
S(s) == <<"str", s>>
O(op, a, b) == <<"op", op, a, b>>
C(f, es) == <<"call", f, es>>
Do(f, es) == <<"do", <<>>, f, es>>
Set(x, e) == <<"set", x, e>>
Var(x, e) == <<"var", x, e>>
Blk(is) == <<"block", is>>

Leaves == {N(2), V("g"), V("h"), S(<<"a">>)}
Pairs == {O(op, a, b) : op \in {"|", "=", "<", "<=", "-", "+", "%"}, a, b \in Leaves}
Terms2 == {O(op, p, a) : op \in {"&", "!=", ">=", "-", "*"}, p \in Pairs, a \in {N(3), V("g")}}
            \cup {O(op, a, p) : op \in {"|", "=", "-", "+", "*"}, p \in Pairs, a \in {N(3), V("h")}}

MCFunctions ==
  [next |-> [params |-> <<"x">>, body |-> Blk(<<Var("y", O("+", V("x"), N(1))), <<"return", V("y")>> >>)],
   fact |-> [params |-> <<"n">>,
             body |-> <<"else", O("<", V("n"), N(2)), <<"return", N(1)>>,
                        <<"return", O("*", V("n"), C("fact", <<O("-", V("n"), N(1))>>))>> >>],
   least |-> [params |-> <<"a", "b">>,
              body |-> Blk(<< <<"if", O("<=", V("a"), V("b")), <<"return", V("a")>> >>,
                              Set("a", V("b")), <<"return", V("a")>> >>)],
   told |-> [params |-> <<>>, body |-> Blk(<<Do("exec", <<S(<<"t">>)>>), Set("g", V("cpu"))>>)]]

Expressions ==
  { C("max", <<C("next", <<N(1)>>), O("*", <<"neg", V("g")>>, C("fact", <<N(3)>>))>>),
    O("+", N(1), C("least", <<N(5), C("next", <<V("g")>>)>>)),
    O("-", C("fact", <<N(3)>>), C("told", <<>>)),
    C("next", <<N(1), N(2)>>), C("nosuch", <<N(1)>>),
    <<"if", O(">", V("g"), N(1)), <<"if", V("h"), N(1), V("cpu")>>, S(<<"b">>)>>,
    <<"if", <<"not", V("g")>>, V("cpu"), O("*", V("half"), V("half"))>>,
    <<"if", V("h"), V("cpu"), V("g")>>,
    O("+", <<"cached", O("+", V("cpu"), V("g"))>>, V("cpu")),
    <<"not", O("=", V("g"), N(2))>>,
    C("checkstate", <<N(1), N(2)>>) }

Actions ==
  { Do("exec", <<V("g"), O("+", S(<<"a">>), S(<<"b">>))>>),
    Blk(<<Var("i", N(0)), <<"while", O("<", V("i"), N(3)),
            Blk(<<Set("g", O("*", V("g"), N(2))), Set("i", O("+", V("i"), N(1)))>>)>>,
          Do("exec", <<V("i"), V("g")>>)>>),
    Blk(<< <<"for", Var("i", N(0)), O("<", V("i"), N(3)), Set("i", O("+", V("i"), N(1))),
             Blk(<< <<"else", O("=", V("i"), N(1)), Do("exec", <<V("i")>>),
                      Set("h", C("next", <<V("i")>>))>> >>)>>,
           <<"do", << <<TRUE, "focused">>, <<FALSE, "minimized">> >>, "exec", <<S(<<"yes">>)>> >>,
           <<"do", << <<FALSE, "focused">> >>, "exec", <<S(<<"no">>)>> >> >>),
    Blk(<<Var("a", N(1)), Var("b", C("told", <<>>)),
          <<"if", V("a"), Blk(<<Set("b", V("g")), Do("exec", <<V("b")>>), <<"return", V("b")>> >>)>>,
          Do("exec", <<S(<<"late">>)>>)>>),
    <<"do", << <<TRUE, "minimized">> >>, "told", <<>> >> }

MCPrograms == {<<"expr", e>> : e \in Pairs \cup Terms2 \cup Expressions} \cup {<<"action", a>> : a \in Actions}
MCNested == {<<"expr", O(op, N(1), O(cmp, N(2), V("g")))>> : op \in {"+", "=", "!="}, cmp \in {"<", ">=", "="}}
=============================================================================
