------------------------------ MODULE FardCheck ------------------------------
(***************************************************************************)
(* The type checker src/bin/fardcheck.rs: types, unification, and inference *)
(* over the expressions that TreeWalker evaluates.  Patterns other than     *)
(* names, and what the checker's own parser does, are left out.             *)
(***************************************************************************)
EXTENDS TreeWalker, SequencesExt

-----------------------------------------------------------------------------
(* Types *)

TInt == [base |-> "Int"]
TBool == [base |-> "Bool"]
TStr == [base |-> "Text"]
TNull == [base |-> "Null"]
Dynamic == [dynamic |-> TRUE]
TVar(n) == [var |-> n]
TList(t) == [elem |-> t]
TRec(fields) == [fields |-> fields]
TFunc(params, ret) == [params |-> params, ret |-> ret]

RECURSIVE Resolve(_, _), Occurs(_, _), Unify(_, _, _)

\* Subst::apply: the variables of t that have been bound are replaced.
Resolve(s, t) ==
  CASE "var" \in DOMAIN t -> IF t.var \in DOMAIN s THEN Resolve(s, s[t.var]) ELSE t
    [] "elem" \in DOMAIN t -> TList(Resolve(s, t.elem))
    [] "params" \in DOMAIN t ->
         TFunc([i \in DOMAIN t.params |-> Resolve(s, t.params[i])], Resolve(s, t.ret))
    [] "fields" \in DOMAIN t ->
         TRec([i \in DOMAIN t.fields |-> [k |-> t.fields[i].k, t |-> Resolve(s, t.fields[i].t)]])
    [] OTHER -> t

Occurs(n, t) ==
  CASE "var" \in DOMAIN t -> t.var = n
    [] "elem" \in DOMAIN t -> Occurs(n, t.elem)
    [] "params" \in DOMAIN t -> Occurs(n, t.ret) \/ \E i \in DOMAIN t.params : Occurs(n, t.params[i])
    [] "fields" \in DOMAIN t -> \E i \in DOMAIN t.fields : Occurs(n, t.fields[i].t)
    [] OTHER -> FALSE

Unified(s) == [ok |-> TRUE, subst |-> s]
Mismatch(s) == [ok |-> FALSE, subst |-> s]

\* The substitution also notes, at Blind, that two types have passed for one which
\* are not known to be: what the types then say of values is a guess.
Blind == -1
PassBlindly(s) == Unified(Blind :> Dynamic @@ s)

\* A variable that occurs in what it should be stays free; a mismatch keeps what was
\* bound before it, and two record types never match.
Unify(s, a, b) ==
  LET x == Resolve(s, a)
      y == Resolve(s, b)
      bind(n, t) == IF y = x THEN Unified(s)
                    ELSE IF Occurs(n, t) THEN PassBlindly(s) ELSE Unified(n :> t @@ s) IN
  CASE Dynamic \in {x, y} -> PassBlindly(s)
    [] "var" \in DOMAIN x -> bind(x.var, y)
    [] "var" \in DOMAIN y /\ "var" \notin DOMAIN x -> bind(y.var, x)
    [] "base" \in DOMAIN x /\ x = y -> Unified(s)
    [] "elem" \in DOMAIN x /\ "elem" \in DOMAIN y -> Unify(s, x.elem, y.elem)
    [] "params" \in DOMAIN x /\ "params" \in DOMAIN y /\ Len(x.params) = Len(y.params) ->
         FoldLeft(LAMBDA u, i : IF ~u.ok THEN u
                                ELSE IF i > Len(x.params) THEN Unify(u.subst, x.ret, y.ret)
                                ELSE Unify(u.subst, x.params[i], y.params[i]),
                  Unified(s), [i \in 1 .. (Len(x.params) + 1) |-> i])
    [] OTHER -> Mismatch(s)

-----------------------------------------------------------------------------
(* The checker: the substitution, the next variable, the kinds of the errors so far *)
(* and the scopes, the innermost last.                                              *)

NewChecker == [subst |-> [n \in {} |-> Dynamic], next |-> 0, errors |-> {}, env |-> <<NoBindings>>]

Typed(t, c) == [ty |-> t, c |-> c]
Fresh(c) == Typed(TVar(c.next), [c EXCEPT !.next = @ + 1])
Complain(c, kind) == [c EXCEPT !.errors = @ \union {kind}]
Open(c) == [c EXCEPT !.env = Append(@, NoBindings)]
Close(c) == [c EXCEPT !.env = Front(@)]
Declare(c, x, t) == [c EXCEPT !.env[Len(c.env)] = x :> t @@ @]
Lookup(c, x) ==
  LET scopes == {i \in DOMAIN c.env : x \in DOMAIN c.env[i]} IN
  IF scopes = {} THEN Dynamic ELSE c.env[CHOOSE i \in scopes : \A j \in scopes : j <= i][x]

Known(r) == Resolve(r.c.subst, r.ty)

\* unify_or_err
Agree(c, a, b, kind) ==
  LET u == Unify(c.subst, a, b)
      d == [c EXCEPT !.subst = u.subst] IN
  IF u.ok THEN d ELSE Complain(d, kind)

\* A new variable for each parameter, in the scope that is open.
DeclareParams(c, params) ==
  FoldLeft(LAMBDA r, x : LET f == Fresh(r.c) IN
             [tys |-> Append(r.tys, f.ty), c |-> Declare(f.c, x, f.ty)],
           [tys |-> <<>>, c |-> c], params)

ParamNames(ps) == [i \in DOMAIN ps |-> ps[i].bind]

ConstType(v) ==
  CASE Is("int", v) -> TInt [] Is("bool", v) -> TBool [] Is("text", v) -> TStr [] Is("unit", v) -> TNull

RECURSIVE Infer(_, _), InferAll(_, _), InferList(_, _), InferCall(_, _), InferIf(_, _)

InferAll(es, c) ==
  FoldLeft(LAMBDA r, e : LET i == Infer(e, r.c) IN [tys |-> Append(r.tys, i.ty), c |-> i.c],
           [tys |-> <<>>, c |-> c], es)

\* The elements share a variable until one does not fit it.
InferList(items, c) ==
  LET elem == Fresh(c)
      step(r, e) == LET i == Infer(e, r.c)
                        u == Unify(i.c.subst, elem.ty, i.ty) IN
                    IF r.mixed THEN [mixed |-> TRUE, c |-> i.c]
                    ELSE [mixed |-> ~u.ok, c |-> [i.c EXCEPT !.subst = u.subst]]
      end == FoldLeft(step, [mixed |-> FALSE, c |-> elem.c], items) IN
  Typed(TList(IF end.mixed THEN Dynamic ELSE Resolve(end.c.subst, elem.ty)), end.c)

InferCall(e, c) ==
  LET f == Infer(e.call, c)
      args == InferAll(e.args, f.c)
      ft == Resolve(args.c.subst, f.ty)
      passed == FoldLeft(LAMBDA d, i : Agree(d, ft.params[i], args.tys[i], "argument"),
                         args.c, [i \in DOMAIN args.tys |-> i]) IN
  CASE "params" \in DOMAIN ft ->
         Typed(ft.ret, IF Len(ft.params) = Len(args.tys) THEN passed ELSE Complain(args.c, "arity"))
    [] "dynamic" \in DOMAIN ft \/ "var" \in DOMAIN ft -> Typed(Dynamic, args.c)
    [] OTHER -> Typed(Dynamic, Complain(args.c, "call"))

\* Variant of InferIf: its type is that of the first branch.
InferIfFirst(e, c) ==
  LET cond == Infer(e.if, c)
      then == Infer(e.then, cond.c)
      else == Infer(e.else, then.c) IN
  Typed(then.ty, else.c)

\* Branches of different types make it dynamic.
InferIf(e, c) ==
  LET cond == Infer(e.if, c)
      ct == Known(cond)
      then == Infer(e.then, IF ct = TBool \/ {"dynamic", "var"} \intersect DOMAIN ct # {} THEN cond.c
                            ELSE Complain(cond.c, "if"))
      else == Infer(e.else, then.c)
      u == Unify(else.c.subst, then.ty, else.ty) IN
  Typed(IF u.ok THEN Resolve(u.subst, then.ty) ELSE Dynamic, [else.c EXCEPT !.subst = u.subst])

NonNumeric(t) == t \in {TBool, TNull} \/ {"elem", "fields", "params"} \intersect DOMAIN t # {}

\* The type of x op y, and what it binds.
InferArith(op, x, y, c) ==
  LET u == Unify(c.subst, x, y) IN
  CASE op = "+" /\ {x, y} \subseteq {TStr, Dynamic} /\ TStr \in {x, y} -> Typed(TStr, c)
    [] NonNumeric(x) \/ NonNumeric(y) -> Typed(Dynamic, Complain(c, "operand"))
    [] x = TInt /\ y = TInt -> Typed(TInt, c)
    [] Dynamic \notin {x, y} /\ "var" \in DOMAIN x \union DOMAIN y ->
         Typed(Resolve(u.subst, x), [c EXCEPT !.subst = u.subst])
    [] OTHER -> Typed(Dynamic, c)

InferBin(e, c) ==
  LET l == Infer(e.l, c)
      r == Infer(e.r, l.c)
      x == Resolve(r.c.subst, l.ty)
      y == Known(r)
      boolish == \/ x = TBool /\ y = TBool
                 \/ {"dynamic", "var"} \intersect (DOMAIN x \union DOMAIN y) # {} IN
  CASE e.op \in {"+", "-", "*", "/", "%"} -> InferArith(e.op, x, y, r.c)
    [] e.op \in {"&&", "||"} -> Typed(TBool, IF boolish THEN r.c ELSE Complain(r.c, "operand"))
    [] OTHER -> Typed(TBool, r.c)

InferUnary(e, c) ==
  LET r == Infer(e.of, c)
      t == Known(r) IN
  CASE e.unary = "!" ->
         Typed(TBool, IF "var" \in DOMAIN t THEN [r.c EXCEPT !.subst = Unify(@, t, TBool).subst]
                      ELSE IF t \in {TBool, Dynamic} THEN r.c ELSE Complain(r.c, "operand"))
    [] e.unary = "-" ->
         IF t = TInt THEN Typed(TInt, r.c)
         ELSE Typed(Dynamic, IF {"dynamic", "var"} \intersect DOMAIN t # {} THEN r.c
                             ELSE Complain(r.c, "operand"))

\* e.k: the type of the first field of that name.
InferGet(e, c) ==
  LET of == Infer(e.of, c)
      t == Known(of)
      at == {i \in DOMAIN t.fields : t.fields[i].k = e.get} IN
  IF "fields" \notin DOMAIN t THEN Typed(Dynamic, of.c)
  ELSE IF at = {} THEN Typed(Dynamic, Complain(of.c, "field"))
  ELSE Typed(t.fields[CHOOSE i \in at : \A j \in at : i <= j].t, of.c)

InferIndex(e, c) ==
  LET of == Infer(e.of, c)
      at == Infer(e.index, of.c)
      t == Resolve(at.c.subst, of.ty) IN
  IF "elem" \notin DOMAIN t THEN Typed(Dynamic, at.c)
  ELSE Typed(t.elem, IF Known(at) \in {TInt, Dynamic} THEN at.c ELSE Complain(at.c, "index"))

\* A let puts its name into the scope that is open, and leaves it there.
Infer(e, c) ==
  CASE "const" \in DOMAIN e -> Typed(ConstType(e.const), c)
    [] "var" \in DOMAIN e -> Typed(Lookup(c, e.var), c)
    [] "items" \in DOMAIN e -> InferList(e.items, c)
    [] "fields" \in DOMAIN e ->
         LET vs == InferAll([i \in DOMAIN e.fields |-> e.fields[i].e], c) IN
         Typed(TRec([i \in DOMAIN e.fields |-> [k |-> e.fields[i].k, t |-> vs.tys[i]]]), vs.c)
    [] "get" \in DOMAIN e -> InferGet(e, c)
    [] "index" \in DOMAIN e -> InferIndex(e, c)
    [] "args" \in DOMAIN e -> InferCall(e, c)
    [] "params" \in DOMAIN e ->
         LET ps == DeclareParams(Open(c), ParamNames(e.params))
             body == Infer(e.body, ps.c) IN
         Typed(TFunc(ps.tys, body.ty), Close(body.c))
    [] "let" \in DOMAIN e ->
         LET v == Infer(e.be, c) IN Infer(e.in, Declare(v.c, e.let.bind, v.ty))
    [] "if" \in DOMAIN e -> InferIf(e, c)
    [] "op" \in DOMAIN e -> InferBin(e, c)
    [] "unary" \in DOMAIN e -> InferUnary(e, c)

\* fn: its own name is a variable while its body is checked; then it has one type,
\* for all its calls.
CheckFn(c, def) ==
  LET self == Fresh(c)
      ps == DeclareParams(Open(Declare(self.c, def.name, self.ty)), def.params)
      body == Infer(def.body, ps.c)
      end == Close(body.c)
      s == Unify(end.subst, self.ty, TFunc(ps.tys, body.ty)).subst IN
  Declare([end EXCEPT !.subst = s], def.name, Resolve(s, TFunc(ps.tys, body.ty)))

CheckLet(c, x, e) == LET v == Infer(e, c) IN Declare(v.c, x, v.ty)
=============================================================================
