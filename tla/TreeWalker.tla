----------------------------- MODULE TreeWalker -----------------------------
(***************************************************************************)
(* The evaluator of FARD expressions in src/bin/fardrun.rs: patterns,       *)
(* eval, call and its loop over tail calls.  Text is a sequence of          *)
(* characters, floats and string interpolation are left out, and an integer *)
(* has Width bits.  The operators are recursive, so nothing is proved about *)
(* this module.                                                             *)
(***************************************************************************)
EXTENDS Integers, Sequences, FiniteSets, Functions, TLC

CONSTANTS Width,          \* the bits of an integer (64 in the code)
          OverflowChecks  \* whether the build panics on overflow

ASSUME WidthAssumption == Width \in Nat \ {0}

ASSUME OverflowChecksAssumption == OverflowChecks \in BOOLEAN

-----------------------------------------------------------------------------
(* Values: the name of the field is the kind of the value. *)

Number(n) == [int |-> n]
Bool(b) == [bool |-> b]
Text(s) == [text |-> s]
Unit == [unit |-> 0]
List(vs) == [list |-> vs]
Record(m) == [rec |-> m]
Func(params, body, env) == [func |-> [params |-> params, body |-> body, env |-> env]]
VmFunc(f) == [vm |-> f]
Builtin(b) == [builtin |-> b]
BoundMethod(v, f) == [bound |-> <<v, f>>]

Is(kind, v) == kind \in DOMAIN v

ResultOk(v) == Record([t |-> Text(<<"ok">>), v |-> v])
ResultErr(e) == Record([t |-> Text(<<"err">>), e |-> e])

\* What evaluating comes to: a value, an error, the error that ? passes on, an
\* early return, a panic or a tail call.
Ok(v) == [ok |-> v]
Err(kind) == [err |-> kind]
QMark(e) == [qmark |-> e]
EarlyReturn(v) == [return |-> v]
Panic == [panic |-> TRUE]
TailCall(f, args) == [tail |-> <<f, args>>]

Then(o, F(_)) == IF "ok" \in DOMAIN o THEN F(o.ok) ELSE o

RECURSIVE ValEq(_, _)
ValEq(a, b) ==
  \/ \E kind \in {"int", "bool", "text", "unit"} : Is(kind, a) /\ Is(kind, b) /\ a = b
  \/ /\ Is("list", a) /\ Is("list", b)
     /\ Len(a.list) = Len(b.list)
     /\ \A i \in DOMAIN a.list : ValEq(a.list[i], b.list[i])
  \/ /\ Is("rec", a) /\ Is("rec", b)
     /\ DOMAIN a.rec = DOMAIN b.rec
     /\ \A k \in DOMAIN a.rec : ValEq(a.rec[k], b.rec[k])

-----------------------------------------------------------------------------
(* Integers *)

MinInt == -(2 ^ (Width - 1))
MaxInt == 2 ^ (Width - 1) - 1
Wrap(n) == ((n - MinInt) % (2 ^ Width)) + MinInt

\* Division that rounds to zero, and its remainder.
Abs(n) == IF n < 0 THEN -n ELSE n
Quot(m, n) == IF (m < 0) = (n < 0) THEN Abs(m) \div Abs(n) ELSE -(Abs(m) \div Abs(n))
Rem(m, n) == m - n * Quot(m, n)

\* An integer from an operation that the build checks for overflow, or that wraps.
Checked(n) ==
  IF n \in MinInt .. MaxInt THEN Ok(Number(n))
  ELSE IF OverflowChecks THEN Panic ELSE Ok(Number(Wrap(n)))

\* / and % panic in every build when the quotient does not fit.
Divide(op, m, n) ==
  IF n = 0 THEN Err("div by zero")
  ELSE IF m = MinInt /\ n = -1 THEN Panic
  ELSE Ok(Number(IF op = "/" THEN Quot(m, n) ELSE Rem(m, n)))

Compare(op, m, n) ==
  CASE op = "<" -> m < n [] op = ">" -> m > n [] op = "<=" -> m <= n [] op = ">=" -> m >= n

-----------------------------------------------------------------------------
(* Patterns.  A match yields what it binds. *)

NoMatch == [no |-> TRUE]
Bindings(b) == [binds |-> b]
NoBindings == [x \in {} |-> Unit]

RECURSIVE Match(_, _), MatchAll(_, _, _)

\* The patterns ps against the values vs: a later binding overrides.
MatchAll(ps, vs, bound) ==
  IF ps = <<>> THEN Bindings(bound)
  ELSE LET m == Match(Head(ps), Head(vs)) IN
       IF m = NoMatch THEN m ELSE MatchAll(Tail(ps), Tail(vs), m.binds @@ bound)

\* A rest pattern, if there is one, gets what the others leave.
WithRest(m, rest, v) ==
  IF m = NoMatch \/ rest = <<>> THEN m ELSE Bindings(Head(rest) :> v @@ m.binds)

Match(p, v) ==
  CASE "wild" \in DOMAIN p -> Bindings(NoBindings)
    [] "bind" \in DOMAIN p -> Bindings(p.bind :> v)
    [] "lit" \in DOMAIN p -> IF p.lit = v THEN Bindings(NoBindings) ELSE NoMatch
    [] "items" \in DOMAIN p ->
         LET n == Len(p.items) IN
         IF ~Is("list", v) \/ (Is("list", v) /\ Len(v.list) < n) THEN NoMatch
         ELSE WithRest(MatchAll(p.items, v.list, NoBindings), p.rest,
                       List(SubSeq(v.list, n + 1, Len(v.list))))
    [] "fields" \in DOMAIN p ->
         LET keys == {p.fields[i].k : i \in DOMAIN p.fields} IN
         IF ~Is("rec", v) \/ (Is("rec", v) /\ ~keys \subseteq DOMAIN v.rec) THEN NoMatch
         ELSE WithRest(MatchAll([i \in DOMAIN p.fields |-> p.fields[i].p],
                                [i \in DOMAIN p.fields |-> v.rec[p.fields[i].k]], NoBindings),
                       p.rest, Record(Restrict(v.rec, DOMAIN v.rec \ keys)))

-----------------------------------------------------------------------------
(* Operators on values *)

Unary(op, v) ==
  CASE op = "-" /\ Is("int", v) -> Checked(-v.int)
    [] op = "!" /\ Is("bool", v) -> Ok(Bool(~v.bool))
    [] OTHER -> Err("unary")

\* Both operands have been evaluated, of && and || too.
Binary(op, x, y) ==
  CASE op = "==" -> Ok(Bool(ValEq(x, y)))
    [] op = "!=" -> Ok(Bool(~ValEq(x, y)))
    [] op \in {"+", "-", "*"} /\ Is("int", x) /\ Is("int", y) ->
         Checked(CASE op = "+" -> x.int + y.int
                   [] op = "-" -> x.int - y.int
                   [] op = "*" -> x.int * y.int)
    [] op \in {"/", "%"} /\ Is("int", x) /\ Is("int", y) -> Divide(op, x.int, y.int)
    [] op \in {"<", ">", "<=", ">="} /\ Is("int", x) /\ Is("int", y) ->
         Ok(Bool(Compare(op, x.int, y.int)))
    [] op = "&&" /\ Is("bool", x) /\ Is("bool", y) -> Ok(Bool(x.bool /\ y.bool))
    [] op = "||" /\ Is("bool", x) /\ Is("bool", y) -> Ok(Bool(x.bool \/ y.bool))
    [] OTHER -> Err("binop")

\* The name by which a named argument is given.
ParamName(p) == IF "bind" \in DOMAIN p THEN p.bind ELSE "_"

\* e[i]
At(v, i) ==
  CASE Is("list", v) /\ Is("int", i) ->
         IF i.int \in 0 .. Len(v.list) - 1 THEN Ok(v.list[i.int + 1]) ELSE Err("bounds")
    [] Is("rec", v) /\ Is("text", i) ->
         IF \E k \in DOMAIN v.rec : <<k>> = i.text
         THEN Ok(v.rec[CHOOSE k \in DOMAIN v.rec : <<k>> = i.text]) ELSE Err("key")
    [] OTHER -> Err("index")

\* e.k: a field, or a function of the module of e's kind that will be called on e.
\* Of those modules, len of std/list and std/str stands for the others.
Member(v, k) ==
  CASE Is("rec", v) -> IF k \in DOMAIN v.rec THEN Ok(v.rec[k]) ELSE Err("no member")
    [] (Is("list", v) \/ Is("text", v)) /\ k = "len" -> Ok(BoundMethod(v, Builtin("len")))
    [] OTHER -> Err("no method")

\* e?
TryValue(v) ==
  CASE Is("rec", v) /\ DOMAIN v.rec = {"t", "v"} /\ v.rec.t = Text(<<"ok">>) ->
         Ok(v.rec.v)
    [] Is("rec", v) /\ DOMAIN v.rec = {"t", "e"} /\ v.rec.t = Text(<<"err">>) -> QMark(v.rec.e)
    [] OTHER -> Err("expected result")

CallBuiltin(b, args) ==
  CASE Len(args) = 1 /\ Is("list", args[1]) -> Ok(Number(Len(args[1].list)))
    [] Len(args) = 1 /\ Is("text", args[1]) -> Ok(Number(Len(args[1].text)))
    [] OTHER -> Err("bad argument")

-----------------------------------------------------------------------------
(* eval and call.  env holds the variables of the function that runs, globals *)
(* those of the module, which its functions see as they are when they run.     *)

RECURSIVE Eval(_, _, _), EvalAll(_, _, _, _), EvalArm(_, _, _, _, _), EvalTail(_, _, _),
          Call(_, _, _), CallNamed(_, _, _, _), Loop(_, _, _, _)

\* The values of es, after those of vs: the first that fails ends it.
EvalAll(es, vs, env, globals) ==
  IF es = <<>> THEN Ok(vs)
  ELSE Then(Eval(Head(es), env, globals),
            LAMBDA v : EvalAll(Tail(es), Append(vs, v), env, globals))

\* The first arm that matches and whose guard holds; in tail position its body is, too.
EvalArm(v, arms, env, globals, tail) ==
  IF arms = <<>> THEN Err(IF tail THEN "no arm matched" ELSE "no match")
  ELSE LET arm == Head(arms)
           m == Match(arm.pat, v)
           scope == m.binds @@ env
           other == EvalArm(v, Tail(arms), env, globals, tail)
           body == IF tail THEN EvalTail(arm.body, scope, globals)
                   ELSE Eval(arm.body, scope, globals) IN
       IF m = NoMatch THEN other
       ELSE IF arm.guard = <<>> THEN body
       ELSE Then(Eval(Head(arm.guard), scope, globals),
                 LAMBDA g : IF ~Is("bool", g) THEN Err("guard")
                            ELSE IF g.bool THEN body ELSE other)

\* while: what came before and after each step is digested into a chain.
Loop(v, while, env, globals) ==
  Then(Eval(while.cond, env, globals), LAMBDA c :
  Then(Call(c, <<v.rec.value>>, globals), LAMBDA go :
    IF ~Is("bool", go) THEN Err("while")
    ELSE IF ~go.bool THEN Ok(v)
    ELSE Then(Eval(while.body, env, globals), LAMBDA f :
         Then(Call(f, <<v.rec.value>>, globals), LAMBDA after :
           Loop(Record([value |-> after, steps |-> Number(v.rec.steps.int + 1),
                        chain_hex |-> Text(Append(v.rec.chain_hex.text, <<v.rec.value, after>>))]),
                while, env, globals)))))

\* f(k: e, ...): the arguments up to the first that f has no parameter for are
\* evaluated; of two for one parameter the later counts.
CallNamed(f, named, env, globals) ==
  LET names == [i \in DOMAIN f.func.params |-> ParamName(f.func.params[i])]
      known == {n \in DOMAIN named : \A i \in 1 .. n : named[i].k \in Range(names)}
      evaluated == IF known = DOMAIN named THEN Len(named) ELSE Cardinality(known) + 1
      last(k) == CHOOSE i \in DOMAIN named : /\ named[i].k = k
                                             /\ \A j \in DOMAIN named : named[j].k = k => j <= i IN
  IF ~Is("func", f) THEN Err("named call")
  ELSE Then(EvalAll([i \in 1 .. evaluated |-> named[i].e], <<>>, env, globals), LAMBDA vs :
         IF known # DOMAIN named THEN Err("named argument")
         ELSE IF Range(names) # {named[i].k : i \in DOMAIN named} \/ ~IsInjective(names)
         THEN Err("named argument")
         ELSE Call(f, [i \in DOMAIN names |-> vs[last(names[i])]], globals))

Eval(e, env, globals) ==
  CASE "const" \in DOMAIN e -> Ok(e.const)
    [] "var" \in DOMAIN e ->
         IF e.var \in DOMAIN (env @@ globals) THEN Ok((env @@ globals)[e.var])
         ELSE Err("unbound")
    [] "items" \in DOMAIN e ->
         Then(EvalAll(e.items, <<>>, env, globals), LAMBDA vs : Ok(List(vs)))
    [] "fields" \in DOMAIN e ->
         Then(EvalAll([i \in DOMAIN e.fields |-> e.fields[i].e], <<>>, env, globals), LAMBDA vs :
           Ok(Record([k \in {e.fields[i].k : i \in DOMAIN e.fields} |->
                        vs[CHOOSE i \in DOMAIN vs : /\ e.fields[i].k = k
                             /\ \A j \in DOMAIN vs : e.fields[j].k = k => j <= i]])))
    [] "index" \in DOMAIN e ->
         Then(Eval(e.of, env, globals), LAMBDA v :
         Then(Eval(e.index, env, globals), LAMBDA i : At(v, i)))
    [] "get" \in DOMAIN e -> Then(Eval(e.of, env, globals), LAMBDA v : Member(v, e.get))
    [] "let" \in DOMAIN e ->
         Then(Eval(e.be, env, globals), LAMBDA v :
           IF Match(e.let, v) = NoMatch THEN Err("pattern")
           ELSE Eval(e.in, Match(e.let, v).binds @@ env, globals))
    [] "named" \in DOMAIN e ->
         Then(Eval(e.call, env, globals), LAMBDA f : CallNamed(f, e.named, env, globals))
    [] "return" \in DOMAIN e -> Then(Eval(e.return, env, globals), LAMBDA v : EarlyReturn(v))
    [] "while" \in DOMAIN e ->
         Then(Eval(e.while, env, globals), LAMBDA v :
           Loop(Record([value |-> v, steps |-> Number(0), chain_hex |-> Text(<<>>)]), e, env, globals))
    [] "if" \in DOMAIN e ->
         Then(Eval(e.if, env, globals), LAMBDA c :
           IF ~Is("bool", c) THEN Err("if")
           ELSE Eval(IF c.bool THEN e.then ELSE e.else, env, globals))
    [] "params" \in DOMAIN e -> Ok(Func(e.params, e.body, env))
    [] "unary" \in DOMAIN e -> Then(Eval(e.of, env, globals), LAMBDA v : Unary(e.unary, v))
    [] "op" \in DOMAIN e ->
         Then(Eval(e.l, env, globals), LAMBDA x :
         Then(Eval(e.r, env, globals), LAMBDA y : Binary(e.op, x, y)))
    [] "args" \in DOMAIN e ->
         Then(Eval(e.call, env, globals), LAMBDA f :
         Then(EvalAll(e.args, <<>>, env, globals), LAMBDA vs : Call(f, vs, globals)))
    [] "try" \in DOMAIN e -> Then(Eval(e.try, env, globals), LAMBDA v : TryValue(v))
    [] "match" \in DOMAIN e ->
         Then(Eval(e.match, env, globals), LAMBDA v : EvalArm(v, e.arms, env, globals, FALSE))

\* Variant of EvalTail: outside of its let a name hides the let's.
EvalTailOuter(e, env, globals) ==
  CASE "args" \in DOMAIN e ->
         Then(Eval(e.call, env, globals), LAMBDA f :
         Then(EvalAll(e.args, <<>>, env, globals), LAMBDA vs :
           IF Is("func", f) THEN TailCall(f, vs) ELSE Call(f, vs, globals)))
    [] "let" \in DOMAIN e /\ "bind" \in DOMAIN e.let ->
         Then(Eval(e.be, env, globals), LAMBDA v :
           EvalTail(e.in, env @@ e.let.bind :> v, globals))
    [] OTHER -> Eval(e, env, globals)

\* eval_tco: a call in tail position is left to the loop of call.
EvalTail(e, env, globals) ==
  CASE "args" \in DOMAIN e ->
         Then(Eval(e.call, env, globals), LAMBDA f :
         Then(EvalAll(e.args, <<>>, env, globals), LAMBDA vs :
           IF Is("func", f) THEN TailCall(f, vs) ELSE Call(f, vs, globals)))
    [] "if" \in DOMAIN e ->
         Then(Eval(e.if, env, globals), LAMBDA c :
           IF ~Is("bool", c) THEN Err("if")
           ELSE EvalTail(IF c.bool THEN e.then ELSE e.else, env, globals))
    [] "let" \in DOMAIN e /\ "bind" \in DOMAIN e.let ->
         Then(Eval(e.be, env, globals), LAMBDA v :
           EvalTail(e.in, e.let.bind :> v @@ env, globals))
    [] "match" \in DOMAIN e ->
         Then(Eval(e.match, env, globals), LAMBDA v : EvalArm(v, e.arms, env, globals, TRUE))
    [] OTHER -> Eval(e, env, globals)

\* What ? and return leave ends at the nearest call.
Call(f, args, globals) ==
  CASE Is("builtin", f) -> CallBuiltin(f.builtin, args)
    [] Is("bound", f) -> Call(f.bound[2], <<f.bound[1]>> \o args, globals)
    [] Is("func", f) ->
         LET m == MatchAll(f.func.params, args, NoBindings)
             o == EvalTail(f.func.body, m.binds @@ f.func.env, globals) IN
         IF Len(f.func.params) # Len(args) THEN Err("arity")
         ELSE IF m = NoMatch THEN Err("pattern")
         ELSE CASE "tail" \in DOMAIN o -> Call(o.tail[1], o.tail[2], globals)
                [] "qmark" \in DOMAIN o -> Ok(ResultErr(o.qmark))
                [] "return" \in DOMAIN o -> Ok(o.return)
                [] OTHER -> o
    [] OTHER -> Err("call")
=============================================================================
