------------------------------- MODULE FardEval -------------------------------
(***************************************************************************)
(* The effect checker and the evaluator of fardlang (check.rs, desugar.rs   *)
(* and eval.rs in crates/fardlang/src), and how fardcli runs the main       *)
(* function of a module.                                                    *)
(***************************************************************************)
EXTENDS FardBuiltins

CONSTANTS IntOf(_),   \* the number of an integer literal
          TextOf(_),  \* the characters of a text literal
          BytesOf(_), \* the bytes of a bytes literal; <<>> if it has no hexadecimal digits
          MaxDepth,   \* of calls
          World(_, _) \* what an effect with these arguments yields, a value or [stop]

\* The table of the standard namespaces; floats, linear algebra and cryptography are left out.
StdFns ==
  [list |-> {"len", "append", "concat", "reverse", "contains", "slice"},
   text |-> {"len", "contains", "starts_with", "split", "trim", "slice", "replace", "join"},
   bytes |-> {"len", "concat", "slice", "eq", "from_text"},
   map |-> {"new", "set", "get", "has", "keys", "delete"},
   result |-> {"ok", "err"},
   io |-> {"read_file", "write_file", "clock_now", "random_bytes"},
   http |-> {"http_get"}]
StdAlias(ns, f) == IF ns \in {"result", "io", "http"} THEN <<f>> ELSE <<ns \o "_" \o f>>

IsStd(imp) == Len(imp.path) = 2 /\ imp.path[1] = "std" /\ imp.path[2] \in DOMAIN StdFns
StdImports(m) == {imp \in Range(m.decls["imports"]) : IsStd(imp)}
AliasOf(imp) == IF imp.alias = "" THEN imp.path[2] ELSE imp.alias

\* The effects that imports of std.io and std.http declare.
ImportedEffects(m) ==
  UNION {{<<f>> : f \in StdFns[imp.path[2]]} : imp \in {i \in StdImports(m) : i.path[2] \in {"io", "http"}}}
DeclaredEffects(m) == {<<m.decls["effects"][i].name>> : i \in DOMAIN m.decls["effects"]} \union ImportedEffects(m)

\* From alias.function to the built-in function, for every imported namespace.
Aliases(m) ==
  LET names(imp) == {<<AliasOf(imp), f>> : f \in StdFns[imp.path[2]]}
  IN  [n \in UNION {names(imp) : imp \in StdImports(m)} |->
         LET imp == CHOOSE i \in StdImports(m) : n \in names(i) IN StdAlias(imp.path[2], n[2])]

----------------------------------------------------------------------------
(* desugar.rs                                                              *)

OpName(op) ==
  CASE op = "+" -> <<"add">> [] op = "-" -> <<"sub">> [] op = "*" -> <<"mul">> [] op = "/" -> <<"div">>
    [] op = "%" -> <<"rem">> [] op = "++" -> <<"text_concat">> [] op = "==" -> <<"cmp", "eq">>
    [] op = "<" -> <<"cmp", "lt">> [] op = ">" -> <<"cmp", "gt">> [] op = "<=" -> <<"cmp", "le">>
    [] op = ">=" -> <<"cmp", "ge">>

OnlyTail(e) == Block(<<>>, <<e>>)

\* The two Boolean operators choose; the blocks of an if, a lambda and fields stay as they are.
RECURSIVE Desugared(_)
Desugared(e) ==
  CASE "neg" \in DOMAIN e -> [call |-> <<"neg">>, args |-> <<Desugared(e.neg)>>]
    [] "op" \in DOMAIN e ->
         LET l == Desugared(e.lhs)
             r == Desugared(e.rhs)
         IN  CASE e.op = "&&" -> [cond |-> l, then |-> OnlyTail(r), else |-> OnlyTail([bool |-> FALSE])]
               [] e.op = "||" -> [cond |-> l, then |-> OnlyTail([bool |-> TRUE]), else |-> OnlyTail(r)]
               [] OTHER -> [call |-> OpName(e.op), args |-> <<l, r>>]
    [] "cond" \in DOMAIN e -> [e EXCEPT !.cond = Desugared(@)]
    [] "call" \in DOMAIN e -> [e EXCEPT !.args = Mapped(Desugared, @)]
    [] "match" \in DOMAIN e ->
         [e EXCEPT !.match = Desugared(@),
                   !.arms = Mapped(LAMBDA a : [a EXCEPT !.body = Desugared(@)], @)]
    [] "list" \in DOMAIN e -> [e EXCEPT !.list = Mapped(Desugared, @)]
    [] "try" \in DOMAIN e -> [e EXCEPT !.try = Desugared(@)]
    [] "apply" \in DOMAIN e -> [e EXCEPT !.apply = Desugared(@), !.args = Mapped(Desugared, @)]
    [] OTHER -> e

----------------------------------------------------------------------------
(* check.rs                                                                *)

\* What a function may do: its uses, and what those with a dot stand for in the standard table.
Allowed(f) ==
  Range(f.uses) \union
  {StdAlias(u[1], u[2]) : u \in {v \in Range(f.uses) : /\ Len(v) = 2 /\ v[1] \in DOMAIN StdFns
                                                       /\ v[2] \in StdFns[v[1]]}}

\* Variant of ArmBodies: none.
NoArmBodies(e) == <<>>

ArmBodies(e) == Mapped(LAMBDA a : a.body, e.arms)

\* Calls of effects by name that are not allowed; the elements of a list are not looked at.
RECURSIVE ChecksExpr(_, _), ChecksBlock(_, _)
ChecksExpr(e, forbidden) ==
  LET all(es) == \A i \in DOMAIN es : ChecksExpr(es[i], forbidden)
  IN  CASE "neg" \in DOMAIN e \/ "op" \in DOMAIN e -> ChecksExpr(Desugared(e), forbidden)
        [] "call" \in DOMAIN e -> all(e.args) /\ e.call \notin forbidden
        [] "cond" \in DOMAIN e -> /\ ChecksExpr(e.cond, forbidden)
                                  /\ ChecksBlock(e.then, forbidden) /\ ChecksBlock(e.else, forbidden)
        [] "fields" \in DOMAIN e -> all(Mapped(LAMBDA kv : kv[2], e.fields))
        [] "field" \in DOMAIN e -> ChecksExpr(e.base, forbidden)
        [] "params" \in DOMAIN e -> ChecksBlock(e.body, forbidden)
        [] "try" \in DOMAIN e -> ChecksExpr(e.try, forbidden)
        [] "apply" \in DOMAIN e -> ChecksExpr(e.apply, forbidden) /\ all(e.args)
        [] "match" \in DOMAIN e -> ChecksExpr(e.match, forbidden) /\ all(ArmBodies(e))
        [] OTHER -> TRUE

ChecksBlock(b, forbidden) ==
  /\ \A i \in DOMAIN b.stmts :
        ChecksExpr(IF "let" \in DOMAIN b.stmts[i] THEN b.stmts[i].val ELSE b.stmts[i].do, forbidden)
  /\ \A i \in DOMAIN b.tail : ChecksExpr(b.tail[i], forbidden)

ChecksModule(m) ==
  \A i \in DOMAIN m.decls["fns"] :
     LET f == m.decls["fns"][i] IN ChecksBlock(f.body, DeclaredEffects(m) \ Allowed(f))

----------------------------------------------------------------------------
(* eval.rs.  Evaluating yields [r, b, io]: the result - a value, a closure, *)
(* an error on its way out of the block, or why the program stops -, the    *)
(* bindings after it, for a let in the block of an if adds to those of the  *)
(* function, and the effects that were called.                              *)

Out(r, b, io) == [r |-> r, b |-> b, io |-> io]
Goes(r) == "val" \in DOMAIN r \/ "clo" \in DOMAIN r

\* An evaluation that goes on where o ended.
After(o, env, K(_, _)) ==
  IF ~Goes(o.r) THEN o
  ELSE LET next == K(o.r, [env EXCEPT !.b = o.b]) IN [next EXCEPT !.io = o.io \o @]

\* ... with a value: closures are none.
AfterValue(o, env, K(_, _)) ==
  After(o, env, LAMBDA r, en : IF "clo" \in DOMAIN r THEN Out(Stop("closure is not a value"), en.b, <<>>)
                               ELSE K(r.val, en))

Bound(b, name) == \E i \in DOMAIN b : b[i][1] = name
Lookup(b, name) == b[Max({i \in DOMAIN b : b[i][1] = name})][2]

HasTag(v, tag) == /\ Is("rec", v) /\ {"tag", "val"} \subseteq DOMAIN v.rec
                  /\ v.rec["tag"] = Text(<<tag>>)

RECURSIVE PatMatches(_, _), PatBinds(_, _)
PatMatches(p, v) ==
  CASE "wild" \in DOMAIN p \/ "ident" \in DOMAIN p -> TRUE
    [] "unit" \in DOMAIN p -> Is("unit", v)
    [] "bool" \in DOMAIN p -> Is("bool", v) /\ v.bool = p.bool
    [] "int" \in DOMAIN p -> Is("int", v) /\ v.int = IntOf(p.int)
    [] "text" \in DOMAIN p -> Is("text", v) /\ v.text = TextOf(p.text)
    [] "bytes" \in DOMAIN p -> Is("bytes", v) /\ v.bytes = BytesOf(p.bytes)
    [] "list" \in DOMAIN p -> /\ Is("list", v) /\ Len(p.list) = Len(v.list)
                              /\ \A i \in DOMAIN p.list : PatMatches(p.list[i], v.list[i])
    [] "ok" \in DOMAIN p -> HasTag(v, "ok") /\ PatMatches(p.ok, v.rec["val"])
    [] "err" \in DOMAIN p -> \/ HasTag(v, "err") /\ PatMatches(p.err, v.rec["val"])
                             \/ Is("err", v) /\ PatMatches(p.err, Text(<<"_err_">>))

PatBinds(p, v) ==
  CASE "ident" \in DOMAIN p -> <<<<p.ident, Value(v)>>>>
    [] "list" \in DOMAIN p -> FlattenSeq([i \in DOMAIN p.list |-> PatBinds(p.list[i], v.list[i])])
    [] "ok" \in DOMAIN p -> PatBinds(p.ok, v.rec["val"])
    [] "err" \in DOMAIN p -> PatBinds(p.err, IF Is("err", v) THEN Text(v.err) ELSE v.rec["val"])
    [] OTHER -> <<>>

\* The types that arguments are checked against when a function is called.
KindOf(type) ==
  CASE type \in {"unit", "Unit"} -> {"unit"} [] type \in {"bool", "Bool"} -> {"bool"}
    [] type \in {"int", "Int"} -> {"int"} [] type \in {"text", "Text"} -> {"text"}
    [] type \in {"bytes", "Bytes"} -> {"bytes"} [] type = "List" -> {"list"} [] type = "Map" -> {"rec"}
    [] OTHER -> {"unit", "bool", "int", "text", "bytes", "list", "rec", "err"}
TypeCheck(type, v) == \E k \in KindOf(type.named) : Is(k, v)

\* x? takes the value out of ok(x) and sends an error, without its data, out of the block.
Try(r, b) ==
  CASE "val" \in DOMAIN r /\ Is("err", r.val) -> Out([raise |-> [err |-> r.val.err, data |-> Unit]], b, <<>>)
    [] "val" \in DOMAIN r /\ HasTag(r.val, "ok") -> Out(Value(r.val.rec["val"]), b, <<>>)
    [] OTHER -> Out(r, b, <<>>)

FieldOf(v, field) ==
  IF ~Is("rec", v) THEN Mistake("ERROR_BADARG")
  ELSE IF field \in DOMAIN v.rec THEN Value(v.rec[field]) ELSE Mistake("ERROR_OOB")

\* A function or a closure sees neither the aliases nor the effects of its caller.
ChildEnv(env, b, fns) == [b |-> b, fns |-> fns, aliases |-> <<>>, effects |-> {}, depth |-> env.depth + 1]

\* The name that a call means and its arguments: ns.f(x) was read as f(ns, x).
Namespaced(e, env) ==
  LET full == <<e.args[1].ident>> \o e.call
      named == e.args # <<>> /\ "ident" \in DOMAIN e.args[1]
      plain == IF named /\ full \in DOMAIN env.aliases \union DOMAIN env.fns
               THEN [call |-> full, args |-> Tail(e.args)] ELSE [call |-> e.call, args |-> e.args]
  IN  IF plain.call \in DOMAIN env.aliases THEN [plain EXCEPT !.call = env.aliases[@]] ELSE plain

EffectResult(name, args) ==
  LET o == World(name, args) IN IF "stop" \in DOMAIN o THEN Mistake(o.stop) ELSE o

RECURSIVE Eval(_, _), EvalAll(_, _, _), EvalArgs(_, _, _, _), EvalStmts(_, _), EvalBlock(_, _), EvalCall(_, _),
          EvalArms(_, _, _), EvalClosure(_, _, _, _)

\* The expressions from left to right, their values in order behind vs, as a list.
EvalAll(es, vs, env) ==
  IF es = <<>> THEN Out(Value(List(vs)), env.b, <<>>)
  ELSE AfterValue(Eval(es[1], env), env, LAMBDA v, en : EvalAll(Tail(es), Append(vs, v), en))

\* Arguments that may be closures, checked against the types as they come.
EvalArgs(es, params, bound, env) ==
  IF es = <<>> THEN Out([args |-> bound], env.b, <<>>)
  ELSE After(Eval(es[1], env), env, LAMBDA r, en :
         IF "val" \in DOMAIN r /\ ~TypeCheck(params[1][2], r.val) THEN Out([badtype |-> TRUE], en.b, <<>>)
         ELSE IF "clo" \in DOMAIN r /\ params[1][2].named = "a value" THEN Out(Stop("closure is not a value"), en.b, <<>>)
         ELSE EvalArgs(Tail(es), Tail(params), Append(bound, <<params[1][1], r>>), en))

TooDeep(env) == env.depth >= MaxDepth

\* type: the arguments of an applied expression must be values, those of a named call need not.
EvalClosure(clo, args, type, env) ==
  LET params == Mapped(LAMBDA p : <<p, [named |-> type, of |-> <<>>]>>, clo.params)
      o == EvalArgs(args, params, <<>>, env)
      body == EvalBlock(clo.body, ChildEnv(env, clo.captured \o o.r.args, clo.fns))
  IN  IF Len(clo.params) # Len(args) THEN Out(Stop("arity"), env.b, <<>>)
      ELSE IF TooDeep(env) THEN Out(Mistake("ERROR_EVAL_DEPTH"), env.b, <<>>)
      ELSE IF "args" \notin DOMAIN o.r THEN o
      ELSE Out(body.r, o.b, o.io \o body.io)

EvalFn(decl, args, env) ==
  LET o == EvalArgs(args, decl.params, <<>>, env)
      body == EvalBlock(decl.body, ChildEnv(env, o.r.args, env.fns))
  IN  IF Len(decl.params) # Len(args) THEN Out(Stop("arity"), env.b, <<>>)
      ELSE IF TooDeep(env) THEN Out(Mistake("ERROR_EVAL_DEPTH"), env.b, <<>>)
      ELSE IF "badtype" \in DOMAIN o.r THEN Out(Mistake("ERROR_TYPE"), o.b, o.io)
      ELSE IF "args" \notin DOMAIN o.r THEN o
      ELSE Out(body.r, o.b, o.io \o body.io)

\* Effects come first, then built-in functions, closures and functions.
EvalCall(e, env) ==
  LET c == Namespaced(e, env)
      f == c.call
      values(K(_, _)) == AfterValue(EvalAll(c.args, <<>>, env), env, K)
      name == f[1]
  IN  CASE f \in env.effects ->
             values(LAMBDA vs, en :
               LET r == EffectResult(name, vs.list)
               IN  Out(r, en.b, IF "stop" \in DOMAIN World(name, vs.list) THEN <<>> ELSE <<<<f, vs.list>>>>))
        [] f \notin env.effects /\ IsBuiltin(f) -> values(LAMBDA vs, en : Out(EvalBuiltin(name, vs.list), en.b, <<>>))
        [] f \notin env.effects /\ ~IsBuiltin(f) ->
             IF Len(f) = 1 /\ Bound(env.b, name) /\ "clo" \in DOMAIN Lookup(env.b, name)
             THEN EvalClosure(Lookup(env.b, name).clo, c.args, "Value", env)
             ELSE IF f \in DOMAIN env.fns THEN EvalFn(env.fns[f], c.args, env)
             ELSE Out(Stop("unknown function"), env.b, <<>>)

EvalArms(arms, v, env) ==
  IF arms = <<>> THEN Out(Mistake("ERROR_MATCH_NO_ARM"), env.b, <<>>)
  ELSE IF PatMatches(arms[1].pat, v)
       THEN [Eval(arms[1].body, [env EXCEPT !.b = @ \o PatBinds(arms[1].pat, v)]) EXCEPT !.b = env.b]
  ELSE EvalArms(Tail(arms), v, env)

Eval(e, env) ==
  LET now(r) == Out(r, env.b, <<>>)
  IN  CASE "unit" \in DOMAIN e -> now(Value(Unit))
        [] "bool" \in DOMAIN e -> now(Value(Bool(e.bool)))
        [] "int" \in DOMAIN e -> now(IF IntOf(e.int) \in -MaxInt - 1..MaxInt THEN Value(Int_(IntOf(e.int)))
                                     ELSE Stop("int parse"))
        [] "text" \in DOMAIN e -> now(Value(Text(TextOf(e.text))))
        [] "bytes" \in DOMAIN e -> now(IF BytesOf(e.bytes) = <<>> THEN Stop("hex") ELSE Value([bytes |-> BytesOf(e.bytes)]))
        [] "ident" \in DOMAIN e -> now(IF Bound(env.b, e.ident) THEN Lookup(env.b, e.ident) ELSE Stop("unbound ident"))
        [] "list" \in DOMAIN e -> EvalAll(e.list, <<>>, env)
        [] "fields" \in DOMAIN e ->
             AfterValue(EvalAll(Mapped(LAMBDA kv : kv[2], e.fields), <<>>, env), env, LAMBDA vs, en :
               Out(Value(RecordOf([i \in DOMAIN e.fields |-> <<e.fields[i][1], vs.list[i]>>])), en.b, <<>>))
        [] "field" \in DOMAIN e ->
             AfterValue(Eval(e.base, env), env, LAMBDA v, en : Out(FieldOf(v, e.field), en.b, <<>>))
        [] "neg" \in DOMAIN e \/ "op" \in DOMAIN e -> Eval(Desugared(e), env)
        [] "cond" \in DOMAIN e ->
             AfterValue(Eval(e.cond, env), env, LAMBDA v, en :
               IF ~Is("bool", v) THEN Out(Stop("if condition must be bool"), en.b, <<>>)
               ELSE EvalBlock(IF v.bool THEN e.then ELSE e.else, en))
        [] "match" \in DOMAIN e -> AfterValue(Eval(e.match, env), env, LAMBDA v, en : EvalArms(e.arms, v, en))
        [] "call" \in DOMAIN e -> EvalCall(e, env)
        [] "try" \in DOMAIN e -> After(Eval(e.try, env), env, LAMBDA r, en : Try(r, en.b))
        [] "params" \in DOMAIN e ->
             now([clo |-> [params |-> e.params, body |-> e.body, captured |-> env.b, fns |-> env.fns]])
        [] "apply" \in DOMAIN e ->
             IF /\ "ident" \in DOMAIN e.apply /\ Bound(env.b, e.apply.ident)
                /\ "clo" \in DOMAIN Lookup(env.b, e.apply.ident)
             THEN EvalClosure(Lookup(env.b, e.apply.ident).clo, e.args, "a value", env)
             ELSE now(Stop("not a closure"))

EvalStmts(b, env) ==
  IF b.stmts = <<>>
  THEN IF b.tail = <<>> THEN Out(Value(Unit), env.b, <<>>)
       ELSE AfterValue(Eval(b.tail[1], env), env, LAMBDA v, en : Out(Value(v), en.b, <<>>))
  ELSE LET st == b.stmts[1]
           rest == [b EXCEPT !.stmts = Tail(@)]
       IN  IF "let" \in DOMAIN st
           THEN After(Eval(st.val, env), env, LAMBDA r, en :
                  EvalStmts(rest, [en EXCEPT !.b = Append(@, <<st.let, r>>)]))
           ELSE After(Eval(st.do, env), env, LAMBDA r, en : EvalStmts(rest, en))

\* Every block ends an error on its way out.
EvalBlock(b, env) ==
  LET o == EvalStmts(b, env) IN IF "raise" \in DOMAIN o.r THEN [o EXCEPT !.r = Value(@.raise)] ELSE o

----------------------------------------------------------------------------
(* fardcli run: the main function of a checked module, without arguments.  *)

\* Of functions with the same name the last one counts, of mains the first.
FnsOf(m) == [n \in {<<m.decls["fns"][i].name>> : i \in DOMAIN m.decls["fns"]} |->
               LET is(i) == m.decls["fns"][i].name = n[1]
               IN  m.decls["fns"][Max({i \in DOMAIN m.decls["fns"] : is(i)})]]
Main(m) == SelectSeq(m.decls["fns"], LAMBDA f : f.name = "main")[1]

RunMain(m, bindings) ==
  EvalBlock(Main(m).body, [b |-> bindings, fns |-> FnsOf(m), aliases |-> Aliases(m),
                           effects |-> DeclaredEffects(m), depth |-> 0])
=============================================================================
