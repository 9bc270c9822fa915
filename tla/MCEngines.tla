------------------------------ MODULE MCEngines ------------------------------
(* Engines on all small function bodies, and on chosen modules: Engines.cfg.   *)
EXTENDS Engines

Const(v) == [const |-> v]
Var(x) == [var |-> x]
Bin(op, l, r) == [op |-> op, l |-> l, r |-> r]
If(c, t, e) == [if |-> c, then |-> t, else |-> e]
Let(x, be, in) == [let |-> [bind |-> x], be |-> be, in |-> in]
Un(op, e) == [unary |-> op, of |-> e]
Get(e, k) == [get |-> k, of |-> e]
Items(es) == [items |-> es]
Apply(f, es) == [call |-> Var(f), args |-> es]
Field(k, e) == [k |-> k, e |-> e]

One == Const(Number(1))
Yes == Const(Bool(TRUE))
X == Var("x")

Leaves == {One, Yes, X, Var("k")}

\* Expressions of one level over the expressions of a and b.
Over(a, b) ==
  {Bin(op, l, r) : op \in {"+", "<", "&&", "||", "=="}, l \in a, r \in b}
  \union {If(c, t, One) : c \in a, t \in b}
  \union {Let(x, be, in) : x \in {"x", "y"}, be \in a, in \in b \union {Var("y")}}
  \union {Items(<<l, r>>) : l \in a, r \in b}
  \union {[fields |-> <<Field("t", l), Field("v", r)>>] : l \in a, r \in b}
  \union {Apply(f, <<e>>) : f \in {"id", "len", "later", "p"}, e \in a}
  \union {[return |-> e] : e \in a} \union {[try |-> e] : e \in a}
  \union {Un(op, e) : op \in {"-", "!"}, e \in a}
  \union {Get(e, k) : e \in a, k \in {"v", "len"}}

Small == Over(Leaves, Leaves)
Bodies == Small \union Over(Small, {One, X}) \union Over({X, Yes}, Small)
            \union {Bin(op, Var("p"), e) : op \in {"+", "<", "=="}, e \in {Var("p"), X}}

Id == [name |-> "id", params |-> <<"x">>, body |-> X]

Arguments == {Number(7), Bool(FALSE), ResultOk(Number(1))}

SmallPrograms ==
  {[defs |-> <<Id, [name |-> "f", params |-> <<"x">>, body |-> b]>>, args |-> <<a>>] :
     b \in Bodies, a \in Arguments}

\* Bodies that are left to the tree walker: match, patterns, index, while, closures
\* and named arguments around a smaller expression.
Bind(x) == [bind |-> x]
Arm(p, g, b) == [pat |-> p, guard |-> g, body |-> b]
ResultPat(tag, k) ==
  [fields |-> <<[k |-> "t", p |-> [lit |-> Text(<<tag>>)]], [k |-> k, p |-> Bind("y")]>>, rest |-> <<>>]
ListPat == [items |-> <<Bind("y")>>, rest |-> <<"z">>]
Lambda(e) == [params |-> <<Bind("y")>>, body |-> e]
Inner == {One, X, Var("y"), [return |-> X], [try |-> X], Bin("+", X, Var("y")), Apply("len", <<X>>)}

WalkedBodies ==
  {[match |-> s, arms |-> <<Arm(ResultPat("ok", "v"), g, e), Arm(ListPat, <<>>, Var("z")), Arm([wild |-> 0], g, X)>>] :
     s \in {X, Items(<<One, X>>)}, g \in {<<>>, <<Yes>>, <<X>>}, e \in Inner}
  \union {[let |-> p, be |-> b, in |-> e] : p \in {ListPat, ResultPat("err", "e"), Bind("y")},
            b \in {X, Items(<<One, X>>)}, e \in Inner \cup {Let("x", One, [index |-> X, of |-> X])}}
  \union {[index |-> i, of |-> Items(<<One, X>>)] : i \in Inner}
  \union {[call |-> Lambda(e), args |-> <<a>>] : e \in Inner, a \in Inner}
  \union {Let("x", Lambda(e), [call |-> X, args |-> <<One>>]) : e \in Inner}
  \union {[call |-> Lambda(e), named |-> <<Field(n, X)>>] : e \in Inner, n \in {"y", "z"}}
  \union {Items(<<Lambda(e), i>>) : e \in Inner, i \in Inner \union {Lambda(X), Var("k")}}
  \union {Let("z", Lambda(One), e) : e \in Inner \union {Var("z")}}
  \union {[while |-> X, cond |-> Lambda(c), body |-> Lambda(e)] :
            c \in {Bin("<", Var("y"), One), Bin("<", Var("y"), Const(Number(3)))},
            e \in {Bin("+", Var("y"), One), Yes}}

\* Recursion, functions in either order, and several arguments.
Minus1 == Bin("-", X, One)
IsZero == Bin("<", X, One)
Sum == [name |-> "sum", params |-> <<"x", "acc">>,
        body |-> If(IsZero, Var("acc"), Apply("sum", <<Minus1, Bin("+", X, Var("acc"))>>))]
Fact == [name |-> "fact", params |-> <<"x">>,
         body |-> If(IsZero, One, Bin("*", Apply("fact", <<Minus1>>), X))]
Later == [name |-> "later", params |-> <<"x">>, body |-> Bin("%", X, Const(Number(2)))]
Uses == [name |-> "uses", params |-> <<"x">>, body |-> Apply("later", <<Bin("/", X, One)>>)]
Last3 == [name |-> "main", params |-> <<"x">>, body |-> Apply("uses", <<X>>)]
Passed == [name |-> "passed", params |-> <<"x", "g">>, body |-> Apply("g", <<Bin("!=", X, One)>>)]

TailPrograms == {[defs |-> <<Sum>>, args |-> <<Number(n), Number(0)>>] : n \in 0 .. 3}

\* Expressions of different kinds side by side.
Kinds ==
  Leaves \union {Get(X, "v"), Apply("id", <<X>>), Apply("len", <<X>>), Var("len"), Items(<<X>>),
    Items(<<X, One>>), Un("-", X), Bin("+", X, X), Bin("<", X, One), [fields |-> <<Field("t", X)>>],
    Lambda(Bin("+", X, Var("y"))), Const(Text(<<"a">>)), Bin("/", One, X), Let("y", X, Var("y"))}
MixedBodies ==
  {If(c, l, r) : c \in {Yes, Bin("<", X, One)}, l \in Kinds, r \in Kinds}
  \union {Items(<<l, r>>) : l \in Kinds, r \in Kinds}
  \union {[call |-> Lambda(l), args |-> <<r>>] : l \in Kinds, r \in Kinds}
  \union {[index |-> l, of |-> r] : l \in Kinds, r \in Kinds}
  \union {Bin(op, l, r) : op \in {"/", "%"}, l \in Kinds, r \in {X, Bin("-", X, One)}}

MixedPrograms ==
  {[defs |-> <<Id, [name |-> "f", params |-> <<"x">>, body |-> b]>>, args |-> <<a>>] :
     b \in MixedBodies, a \in Arguments \union {Number(0)}}

ChosenPrograms ==
  TailPrograms
  \union {[defs |-> <<Fact>>, args |-> <<Number(n)>>] : n \in 0 .. 3}
  \union {[defs |-> d, args |-> <<Number(-8)>>] : d \in {<<Later, Uses, Last3>>, <<Uses, Later, Last3>>}}
  \union {[defs |-> <<Passed>>, args |-> <<Number(1), Func(<<[bind |-> "z"]>>, e, NoBindings)>>] :
            e \in {Var("z"), Un("!", Var("z")), [return |-> Un("!", Var("z"))], [try |-> Var("z")]}}

WalkedPrograms ==
  {[defs |-> <<[name |-> "f", params |-> <<"x">>, body |-> b]>>, args |-> <<a>>] :
     b \in WalkedBodies, a \in Arguments}

Programs_ == <<SmallPrograms, MixedPrograms, WalkedPrograms, ChosenPrograms>>

\* p is a text, len the function of std/list, and k a number.
Base_ == [k |-> Number(2), len |-> Builtin("len"), p |-> Text(<<"a">>)]
=============================================================================
