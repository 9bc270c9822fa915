------------------------------ MODULE FardWasm ------------------------------
(***************************************************************************)
(* The compiler to WebAssembly src/bin/fardwasm.rs, over the expressions    *)
(* that TreeWalker evaluates, and what its code comes to.  Each expression  *)
(* pushes one number, so the code is kept as a tree in which the names are  *)
(* resolved.  Floats and the printing of results are left out.              *)
(***************************************************************************)
EXTENDS TreeWalker, SequencesExt

-----------------------------------------------------------------------------
(* The code generator: the scopes, the innermost last, how many locals the  *)
(* function has, and which of them it declares.                             *)

\* compile_func: the parameters are locals that need no declaration.  (One whose name
\* is that of a local, l1, would make the module invalid: no parameter is called so.)
NewFunction(params) ==
  [scopes |-> <<[x \in Range(params) |-> [param |-> CHOOSE i \in DOMAIN params : params[i] = x]]>>,
   count |-> Len(params), declared |-> {}]

Tree(t, c) == [t |-> t, c |-> c]

\* Variant of DefineLocal: a name that is there already keeps its local.
DefineLocalOnce(c, x) ==
  [scopes |-> IF c.scopes = <<>> THEN <<>>
              ELSE [c.scopes EXCEPT ![Len(c.scopes)] = @ @@ x :> [local |-> c.count]],
   count |-> c.count + 1, declared |-> c.declared \union {c.count}]

\* define_local: a name is entered in the innermost scope, if there is one.
DefineLocal(c, x) ==
  [scopes |-> IF c.scopes = <<>> THEN <<>>
              ELSE [c.scopes EXCEPT ![Len(c.scopes)] = x :> [local |-> c.count] @@ @],
   count |-> c.count + 1, declared |-> c.declared \union {c.count}]

LookupLocal(c, x) ==
  LET at == {i \in DOMAIN c.scopes : x \in DOMAIN c.scopes[i]} IN
  IF at = {} THEN <<>> ELSE <<c.scopes[CHOOSE i \in at : \A j \in at : j <= i][x]>>

\* funcs are the functions of the module with their numbers of parameters, numbers
\* its global variables: a name that is neither makes the module invalid.
WasmVar(x, c, funcs, numbers) ==
  LET local == LookupLocal(c, x) IN
  CASE local # <<>> -> Head(local)
    [] local = <<>> /\ x \in DOMAIN funcs -> [num |-> 0]
    [] local = <<>> /\ x \in DOMAIN numbers \ DOMAIN funcs -> [num |-> numbers[x]]
    [] OTHER -> [invalid |-> x]

RECURSIVE WasmCode(_, _, _, _)

WasmAll(es, c, funcs, numbers) ==
  FoldLeft(LAMBDA r, e : LET w == WasmCode(e, r.c, funcs, numbers) IN Tree(Append(r.t, w.t), w.c),
           Tree(<<>>, c), es)

ConstNumber(v) ==
  CASE Is("int", v) -> [num |-> v.int]
    [] Is("bool", v) -> [num |-> IF v.bool THEN 1 ELSE 0]
    [] Is("unit", v) -> [num |-> 0]
    [] Is("text", v) -> [traps |-> <<>>]

\* The local is defined before its value is compiled, and stays in scope after the
\* let; a block (the lets at the start of a function's body) opens one for its own.
WasmLet(e, c, funcs, numbers) ==
  LET be == WasmCode(e.be, DefineLocal(c, e.let.bind), funcs, numbers)
      in == WasmCode(e.in, be.c, funcs, numbers) IN
  Tree([set |-> c.count, be |-> be.t, in |-> in.t], in.c)

\* Only a function of the module that is called by its name can be called; the
\* name is not looked up as a local.
WasmCall(e, c, funcs, numbers) ==
  LET args == WasmAll(e.args, c, funcs, numbers) IN
  IF "var" \in DOMAIN e.call /\ e.call.var \in DOMAIN funcs
  THEN Tree(IF funcs[e.call.var] = Len(e.args) THEN [fn |-> e.call.var, args |-> args.t]
            ELSE [invalid |-> e.call.var], args.c)
  ELSE Tree([traps |-> args.t], args.c)

\* A list or record is a pointer kept in a local of its own.
WasmItems(es, c, funcs, numbers) ==
  LET items == WasmAll(es, DefineLocal(c, "__ptr"), funcs, numbers) IN
  Tree([ptr |-> c.count, items |-> items.t], items.c)

\* A lambda is compiled in place of the function around it, whose locals are lost.
WasmCode(e, c, funcs, numbers) ==
  LET code(x, d) == WasmCode(x, d, funcs, numbers) IN
  CASE "const" \in DOMAIN e -> Tree(ConstNumber(e.const), c)
    [] "var" \in DOMAIN e -> Tree(WasmVar(e.var, c, funcs, numbers), c)
    [] "let" \in DOMAIN e -> WasmLet(e, c, funcs, numbers)
    [] "if" \in DOMAIN e ->
         LET if == code(e.if, c)
             then == code(e.then, if.c)
             else == code(e.else, then.c) IN
         Tree([if |-> if.t, then |-> then.t, else |-> else.t], else.c)
    [] "op" \in DOMAIN e ->
         LET l == code(e.l, c)
             r == code(e.r, l.c) IN
         Tree([op |-> e.op, l |-> l.t, r |-> r.t], r.c)
    [] "unary" \in DOMAIN e -> LET of == code(e.of, c) IN
         Tree(IF e.unary = "!" THEN [op |-> "xor", l |-> of.t, r |-> [num |-> 1]]
              ELSE [op |-> "-", l |-> [num |-> 0], r |-> of.t], of.c)
    [] "get" \in DOMAIN e \/ "index" \in DOMAIN e -> Tree([traps |-> <<>>], c)
    [] "args" \in DOMAIN e -> WasmCall(e, c, funcs, numbers)
    [] "params" \in DOMAIN e ->
         LET names == [i \in DOMAIN e.params |-> e.params[i].bind]
             body == code(e.body, NewFunction(names)) IN
         Tree([lambda |-> body.t, declared |-> body.c.declared \ (0 .. Len(names) - 1)],
              [body.c EXCEPT !.scopes = <<>>])
    [] "items" \in DOMAIN e -> WasmItems(e.items, c, funcs, numbers)
    [] "fields" \in DOMAIN e ->
         WasmItems([i \in DOMAIN e.fields |-> e.fields[i].e], c, funcs, numbers)

\* Whether the engine accepts the code of a function that declares these locals.
RECURSIVE Accepted(_, _)
Accepted(t, declared) ==
  LET all(ts) == \A i \in DOMAIN ts : Accepted(ts[i], declared) IN
  CASE "invalid" \in DOMAIN t -> FALSE
    [] "local" \in DOMAIN t -> t.local \in declared
    [] "lambda" \in DOMAIN t -> Accepted(t.lambda, t.declared)
    [] "set" \in DOMAIN t -> t.set \in declared /\ all(<<t.be, t.in>>)
    [] "if" \in DOMAIN t -> all(<<t.if, t.then, t.else>>)
    [] "op" \in DOMAIN t -> all(<<t.l, t.r>>)
    [] "args" \in DOMAIN t -> all(t.args)
    [] "traps" \in DOMAIN t -> all(t.traps)
    [] "ptr" \in DOMAIN t -> t.ptr \in declared /\ all(t.items)
    [] OTHER -> TRUE

-----------------------------------------------------------------------------
(* Running: m has the arguments and the locals of the function, the bytes in  *)
(* use, how many calls may still be made, and whether it has trapped.         *)

Got(n, m) == [n |-> n, m |-> m]
Trap(m) == Got(0, [m EXCEPT !.trapped = TRUE])
OrTrap(r, F(_)) == IF r.m.trapped THEN r ELSE F(r)

Bit(n, b) == ((n % 2 ^ Width) \div 2 ^ b) % 2
OnBits(x, y, F(_, _)) ==
  Wrap(FoldLeft(LAMBDA n, b : n + (IF F(Bit(x, b) = 1, Bit(y, b) = 1) THEN 2 ^ b ELSE 0),
                0, [i \in 1 .. Width |-> i - 1]))

\* && and || are those of bits, ! flips the lowest, and a comparison yields 0 or 1.
WasmBinary(op, x, y, m) ==
  LET truth(b) == IF b THEN 1 ELSE 0 IN
  CASE op = "==" -> Got(truth(x = y), m)
    [] op = "!=" -> Got(truth(x # y), m)
    [] op \in {"<", ">", "<=", ">="} -> Got(truth(Compare(op, x, y)), m)
    [] op = "+" -> Got(Wrap(x + y), m)
    [] op = "-" -> Got(Wrap(x - y), m)
    [] op = "*" -> Got(Wrap(x * y), m)
    [] op = "/" -> IF y = 0 \/ (x = MinInt /\ y = -1) THEN Trap(m) ELSE Got(Quot(x, y), m)
    [] op = "%" -> IF y = 0 THEN Trap(m) ELSE Got(Rem(x, y), m)
    [] op = "xor" -> Got(OnBits(x, y, LAMBDA b, d : b # d), m)
    [] op = "&&" -> Got(OnBits(x, y, LAMBDA b, d : b /\ d), m)
    [] op = "||" -> Got(OnBits(x, y, LAMBDA b, d : b \/ d), m)

RECURSIVE WasmRun(_, _, _)

WasmRunAll(ts, m, module) ==
  FoldLeft(LAMBDA r, t : IF r.m.trapped THEN r
             ELSE LET w == WasmRun(t, r.m, module) IN Got(Append(r.n, w.n), w.m),
           Got(<<>>, m), ts)

\* A condition counts by the lower half of its bits.
WasmRun(t, m, module) ==
  LET run(u, k) == WasmRun(u, k, module) IN
  CASE "num" \in DOMAIN t -> Got(t.num, m)
    [] "lambda" \in DOMAIN t -> Got(0, m)
    [] "param" \in DOMAIN t -> Got(m.params[t.param], m)
    [] "local" \in DOMAIN t -> Got(IF t.local \in DOMAIN m.locals THEN m.locals[t.local] ELSE 0, m)
    [] "set" \in DOMAIN t ->
         OrTrap(run(t.be, m), LAMBDA r : run(t.in, [r.m EXCEPT !.locals = t.set :> r.n @@ @]))
    [] "if" \in DOMAIN t ->
         OrTrap(run(t.if, m), LAMBDA r :
           run(IF r.n % 2 ^ (Width \div 2) # 0 THEN t.then ELSE t.else, r.m))
    [] "op" \in DOMAIN t ->
         OrTrap(run(t.l, m), LAMBDA l :
         OrTrap(run(t.r, l.m), LAMBDA r : WasmBinary(t.op, l.n, r.n, r.m)))
    [] "fn" \in DOMAIN t -> OrTrap(WasmRunAll(t.args, m, module), LAMBDA r :
         IF r.m.calls = 0 THEN Trap(r.m)
         ELSE LET callee == [r.m EXCEPT !.params = r.n, !.locals = <<>>, !.calls = @ - 1]
                  back == WasmRun(module[t.fn].t, callee, module) IN
              Got(back.n, [r.m EXCEPT !.heap = back.m.heap, !.trapped = back.m.trapped]))
    [] "traps" \in DOMAIN t -> OrTrap(WasmRunAll(t.traps, m, module), LAMBDA r : Trap(r.m))
    [] "ptr" \in DOMAIN t ->
         LET at == Wrap(m.heap) IN
         OrTrap(WasmRunAll(t.items, [m EXCEPT !.heap = @ + 8 * (Len(t.items) + 1),
                                              !.locals = t.ptr :> at @@ @], module),
                LAMBDA r : Got(at, r.m))

\* The module of these functions, and the call of its last one.
WasmModule(defs, numbers) ==
  LET funcs == [x \in {defs[i].name : i \in DOMAIN defs} |->
                  Len(defs[CHOOSE i \in DOMAIN defs : defs[i].name = x].params)]
      fn(i) == LET w == WasmCode(defs[i].body, NewFunction(defs[i].params), funcs, numbers) IN
               [t |-> w.t, declared |-> w.c.declared \ (0 .. Len(defs[i].params) - 1)] IN
  [x \in DOMAIN funcs |-> fn(CHOOSE i \in DOMAIN defs : defs[i].name = x)]

WasmValid(module) == \A x \in DOMAIN module : Accepted(module[x].t, module[x].declared)

WasmCallFn(module, f, args, calls) ==
  WasmRun(module[f].t,
          [params |-> args, locals |-> <<>>, heap |-> 1024, calls |-> calls, trapped |-> FALSE], module)
=============================================================================
