------------------------------- MODULE Engines -------------------------------
(***************************************************************************)
(* What the tools that share the language with fardrun say of a module:     *)
(* the type checker, and the compiler to WebAssembly.                       *)
(***************************************************************************)
EXTENDS Vm, FardCheck, FardWasm

\* An argument as it is written in a module.
RECURSIVE Written(_)
Written(v) ==
  CASE Is("rec", v) ->
         LET keys == SetToSeq(DOMAIN v.rec) IN
         [fields |-> [i \in DOMAIN keys |-> [k |-> keys[i], e |-> Written(v.rec[keys[i]])]]]
    [] Is("func", v) -> [params |-> v.func.params, body |-> v.func.body]
    [] OTHER -> [const |-> v]

\* The checker over the module: its lets (not its imports, which it knows nothing
\* of), its functions, and the call of the last one.
CheckedModule ==
  LET lets == {x \in DOMAIN Base : ~Is("builtin", Base[x])}
      base == FoldSet(LAMBDA x, c : CheckLet(c, x, [const |-> Base[x]]), NewChecker, lets)
      defs == FoldLeft(CheckFn, base, program.defs) IN
  Infer([call |-> [var |-> Last(program.defs).name],
         args |-> [i \in DOMAIN program.args |-> Written(program.args[i])]], defs)

RECURSIVE HasType(_, _)
HasType(v, t) ==
  CASE t = TInt -> Is("int", v)
    [] t = TBool -> Is("bool", v)
    [] t = TStr -> Is("text", v)
    [] t = TNull -> Is("unit", v)
    [] "elem" \in DOMAIN t -> Is("list", v) /\ \A i \in DOMAIN v.list : HasType(v.list[i], t.elem)
    [] "fields" \in DOMAIN t ->
         /\ Is("rec", v)
         /\ DOMAIN v.rec = {t.fields[i].k : i \in DOMAIN t.fields}
         /\ \A i \in DOMAIN t.fields : HasType(v.rec[t.fields[i].k], t.fields[i].t)
    [] "params" \in DOMAIN t -> Is("func", v) \/ Is("builtin", v)
    [] OTHER -> TRUE

\* The forms of expression that the checker and the compiler have, and records that
\* name a field once.
Plain(body) ==
  \A e \in Inside(body) :
    /\ {"match", "while", "named", "try", "return"} \intersect DOMAIN e = {}
    /\ "let" \in DOMAIN e => "bind" \in DOMAIN e.let
    /\ "fields" \in DOMAIN e => IsInjective([i \in DOMAIN e.fields |-> e.fields[i].k])

\* No let hides a name.
Checkable ==
  /\ \A i \in DOMAIN program.args : Plain(Written(program.args[i]))
  /\ \A i \in DOMAIN program.defs : Plain(program.defs[i].body) /\ ~Shadows(i)

\* A module in which the checker finds no error, and has taken no type for another
\* that it does not know, comes up with a value of the type inferred.
TypesHold ==
  [][(Exit /\ Checkable) =>
       LET r == CheckedModule IN
       (r.c.errors = {} /\ Blind \notin DOMAIN r.c.subst) =>
         LET o == Walked IN "ok" \in DOMAIN o => HasType(o.ok, Known(r))]_vars

-----------------------------------------------------------------------------

Numeral(v) == Is("int", v) \/ Is("bool", v)
WasmNumbers == [x \in {y \in DOMAIN Base : Numeral(Base[y])} |-> ConstNumber(Base[x]).num]
Module == WasmModule(program.defs, WasmNumbers)
OnWasm == WasmCallFn(Module, Last(program.defs).name,
                     [i \in DOMAIN program.args |-> ConstNumber(program.args[i]).num], MaxDepth)

\* The parts that are compiled: not the function of a call, and nothing of what traps.
Coded(e) ==
  CASE "args" \in DOMAIN e -> e.args
    [] "get" \in DOMAIN e \/ "index" \in DOMAIN e -> <<>>
    [] OTHER -> Parts(e)

\* All expressions in e that are compiled into the function e is in: a lambda is one
\* of them, what is in it is not.
RECURSIVE Own(_)
Own(e) ==
  {e} \union IF "params" \in DOMAIN e THEN {}
             ELSE UNION {Own(Coded(e)[i]) : i \in DOMAIN Coded(e)}

LetNames(e) == {d.let.bind : d \in {p \in Own(e) : "let" \in DOMAIN p}}

RECURSIVE FreeIn(_)
FreeIn(e) ==
  CASE "var" \in DOMAIN e -> {e.var}
    [] "let" \in DOMAIN e -> FreeIn(e.be) \union (FreeIn(e.in) \ {e.let.bind})
    [] OTHER -> UNION {FreeIn(Coded(e)[i]) : i \in DOMAIN Coded(e)}

\* No name is read in the value of a let that binds it, nor free after the end of one.
\* (A let may hide a parameter, a variable of the module or another let.)
ReadInScope(body) ==
  \A e \in Own(body) :
    /\ "let" \in DOMAIN e => e.let.bind \notin FreeIn(e.be)
    /\ \A i, j \in DOMAIN Coded(e) :
         i < j => LetNames(Coded(e)[i]) \intersect FreeIn(Coded(e)[j]) = {}

\* A name is read that is neither a function nor a number of the module, in a place
\* that follows a lambda in the same function.
ReadsPastLambda(body) ==
  \E e \in Own(body) : \E i, j \in DOMAIN Coded(e) :
    /\ i < j
    /\ \E d \in Own(Coded(e)[i]) : "params" \in DOMAIN d
    /\ \E d \in Own(Coded(e)[j]) :
         "var" \in DOMAIN d /\ d.var \notin DOMAIN WasmNumbers \union Names(Len(program.defs))

\* What the compiler says it supports: integers, booleans, arithmetic, let, fn, if
\* and call, of which a lambda is none.  == is for integers, as a boolean is one in
\* the compiled code.
Supported(i) ==
  LET def == program.defs[i]
      own == Own(def.body)
      called == {d.call : d \in {p \in UNION {Own(program.defs[j].body) : j \in DOMAIN program.defs} :
                                   "args" \in DOMAIN p}}
      integer(e) ==
        CASE "const" \in DOMAIN e -> Is("int", e.const)
          [] "var" \in DOMAIN e ->
               /\ e.var \in Range(def.params) \ LetNames(def.body)
               /\ i = Len(program.defs) /\ [var |-> def.name] \notin called
               /\ \A j \in DOMAIN program.args : Is("int", program.args[j])
          [] "op" \in DOMAIN e -> e.op \in {"+", "-", "*", "/", "%"}
          [] OTHER -> FALSE IN
  /\ IsInjective(def.params)
  /\ \A e \in own :
       /\ {"const", "var", "let", "if", "op", "unary", "args"} \intersect DOMAIN e # {}
       /\ "const" \in DOMAIN e => Numeral(e.const)
       /\ "args" \in DOMAIN e => "var" \in DOMAIN e.call /\ e.call.var \in Names(Len(program.defs))
       /\ "op" \in DOMAIN e /\ e.op \in {"==", "!="} => integer(e.l) /\ integer(e.r)
  /\ FreeIn(def.body) \subseteq
       Range(def.params) \union (DOMAIN WasmNumbers \ Names(Len(program.defs)))

\* A module of what is supported, no name of which is read where the interpreter and
\* the compiler differ on the end of a let, compiles to a valid one; a call of it that
\* has a value has the same on both, and a division by zero traps.  A module that reads
\* a parameter or a let after a lambda is not valid: the compiler has lost them.
WasmAsWalked ==
  [][(Exit /\ \A i \in DOMAIN program.defs : Plain(program.defs[i].body)) =>
       /\ (\E i \in DOMAIN program.defs : ReadsPastLambda(program.defs[i].body)) => ~WasmValid(Module)
       /\ (/\ \A i \in DOMAIN program.defs : Supported(i) /\ ReadInScope(program.defs[i].body)
           /\ \A i \in DOMAIN program.args : Numeral(program.args[i])) =>
            LET o == Walked
                w == OnWasm IN
            /\ WasmValid(Module)
            /\ "ok" \in DOMAIN o => ~w.m.trapped /\ w.n = ConstNumber(o.ok).num
            /\ o = Err("div by zero") => w.m.trapped]_vars
=============================================================================
