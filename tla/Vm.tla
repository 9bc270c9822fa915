--------------------------------- MODULE Vm ---------------------------------
(***************************************************************************)
(* The compiled functions of src/bin/fardrun.rs: what eval_items makes of a *)
(* function whose parameters are names, VmCompiler::compile, and            *)
(* vm_exec_fn, one action to an instruction.  A function that cannot be     *)
(* compiled is left to the tree walker.                                     *)
(***************************************************************************)
EXTENDS TreeWalker, SequencesExt

CONSTANTS Programs,  \* sets of modules: their functions in order, and the arguments
                     \*   that the last of these is called with
          Base,      \* the variables a module has before its functions
          MaxDepth   \* the calls the stack of the thread has room for

ASSUME MaxDepthAssumption == MaxDepth \in Nat \ {0}

VARIABLES
  program,  \* the module
  fns,      \* VM_FNS: its compiled functions
  frames,   \* the calls in progress, the innermost last
  outcome   \* what the call came to, once it is over

vars == <<program, fns, frames, outcome>>

-----------------------------------------------------------------------------
(* Compiling.  c is the code so far, with the names of the slots; nothing when *)
(* an expression is not supported.                                           *)

Unsupported == [code |-> <<>>, names |-> <<>>, fails |-> TRUE]
Start(names) == [code |-> <<>>, names |-> names, fails |-> FALSE]

Emit(c, op) == IF c.fails THEN c ELSE [c EXCEPT !.code = Append(@, op)]
Patch(c, i) == IF c.fails THEN c ELSE [c EXCEPT !.code[i].target = Len(c.code) + 1]

\* slot_of: the slot of this name, or a new one.  Two variables of one name share it.
WithSlot(c, x) == IF x \in Range(c.names) THEN c ELSE [c EXCEPT !.names = Append(@, x)]
SlotOf(c, x) == CHOOSE i \in DOMAIN c.names : c.names[i] = x

Push(v) == [op |-> "push", v |-> v]
Jump(kind) == [op |-> kind, target |-> 0]

BinaryOps == {"+", "-", "*", "/", "%", "==", "!=", "<", "<=", ">", ">="}

RECURSIVE Compile(_, _), CompileAll(_, _)

CompileAll(es, c) == IF es = <<>> THEN c ELSE CompileAll(Tail(es), Compile(Head(es), c))

\* && and ||: the right operand is skipped when the left one decides.
ShortCircuit(e, c, jump) ==
  LET left == Emit(Compile(e.l, c), Jump(jump))
      right == Compile(e.r, Emit(left, [op |-> "pop"])) IN
  Patch(right, Len(left.code))

\* The condition stays on the stack: the jump only looks at it.
CompileIf(e, c) ==
  LET test == Emit(Compile(e.if, c), Jump("jump_if_false"))
      then == Emit(Compile(e.then, test), Jump("jump"))
      else == Compile(e.else, Patch(then, Len(test.code))) IN
  Patch(else, Len(then.code))

Compile(e, c) ==
  CASE c.fails -> c
    [] "const" \in DOMAIN e -> Emit(c, Push(e.const))
    [] "var" \in DOMAIN e ->
         LET d == WithSlot(c, e.var) IN Emit(d, [op |-> "load", slot |-> SlotOf(d, e.var)])
    [] "let" \in DOMAIN e /\ "bind" \in DOMAIN e.let ->
         LET d == WithSlot(Compile(e.be, c), e.let.bind) IN
         Compile(e.in, Emit(d, [op |-> "store", slot |-> SlotOf(d, e.let.bind)]))
    [] "if" \in DOMAIN e -> CompileIf(e, c)
    [] "op" \in DOMAIN e /\ e.op = "&&" -> ShortCircuit(e, c, "jump_if_false")
    [] "op" \in DOMAIN e /\ e.op = "||" -> ShortCircuit(e, c, "jump_if_true")
    [] "op" \in DOMAIN e /\ e.op \in BinaryOps ->
         Emit(CompileAll(<<e.l, e.r>>, c), [op |-> "binary", f |-> e.op])
    [] "unary" \in DOMAIN e -> Emit(Compile(e.of, c), [op |-> "unary", f |-> e.unary])
    [] "get" \in DOMAIN e -> Emit(Compile(e.of, c), [op |-> "field", k |-> e.get])
    [] "items" \in DOMAIN e -> Emit(CompileAll(e.items, c), [op |-> "list", n |-> Len(e.items)])
    [] "fields" \in DOMAIN e ->
         LET pairs == [i \in 1 .. 2 * Len(e.fields) |->
                         IF i % 2 = 1 THEN [const |-> Text(<<e.fields[(i + 1) \div 2].k>>)]
                         ELSE e.fields[i \div 2].e] IN
         Emit(CompileAll(pairs, c), [op |-> "record", n |-> Len(e.fields)])
    [] "args" \in DOMAIN e ->
         Emit(CompileAll(<<e.call>> \o e.args, c), [op |-> "call", n |-> Len(e.args)])
    [] "try" \in DOMAIN e -> Emit(Compile(e.try, c), [op |-> "try"])
    [] "return" \in DOMAIN e -> Emit(Compile(e.return, c), [op |-> "return"])
    [] OTHER -> Unsupported

\* The slots that the code reads.
Used(code) == {code[i].slot : i \in {j \in DOMAIN code : code[j].op = "load"}}

\* The variables of the module have slots, too.  What they are when the function
\* is defined is copied into it, and the function's own slot gets the function.
CompileFn(def, env) ==
  LET start == Start(def.params)
      slots == FoldSet(LAMBDA x, c : WithSlot(c, x), start, DOMAIN env)
      body == WithSlot(Emit(Compile(def.body, slots), [op |-> "return"]), def.name)
      free == {i \in Used(body.code) \ DOMAIN def.params :
                 body.names[i] # def.name /\ body.names[i] \in DOMAIN env} IN
  [code |-> body.code, params |-> Len(def.params), self |-> SlotOf(body, def.name),
   slots |-> [i \in DOMAIN body.names |-> IF i \in free THEN env[body.names[i]] ELSE Unit],
   fails |-> body.fails]

\* The functions of a module, each compiled with the variables defined before it.
RECURSIVE Define(_, _, _)
Define(defs, env, done) ==
  IF defs = <<>> THEN done
  ELSE LET f == CompileFn(Head(defs), env) IN
       Define(Tail(defs), Head(defs).name :> VmFunc(Len(done) + 1) @@ env, Append(done, f))

-----------------------------------------------------------------------------
(* Instructions on values *)

\* Texts are compared character by character; of characters, an a comes first.
Code(c) == IF c = "a" THEN 1 ELSE 2
TextLess(s, t) ==
  \/ IsStrictPrefix(s, t)
  \/ \E i \in DOMAIN s \intersect DOMAIN t :
       SubSeq(s, 1, i - 1) = SubSeq(t, 1, i - 1) /\ Code(s[i]) < Code(t[i])

\* Integers wrap; texts may be added and compared.
VmBinary(op, x, y) ==
  CASE op \in {"==", "!="} ->
         Ok(Bool((op = "==") <=> \E kind \in {"int", "bool", "text", "unit"} :
                                   Is(kind, x) /\ Is(kind, y) /\ x = y))
    [] op = "+" /\ Is("text", x) /\ Is("text", y) -> Ok(Text(x.text \o y.text))
    [] op \in {"+", "-", "*"} /\ Is("int", x) /\ Is("int", y) ->
         Ok(Number(Wrap(CASE op = "+" -> x.int + y.int
                          [] op = "-" -> x.int - y.int
                          [] op = "*" -> x.int * y.int)))
    [] op \in {"/", "%"} /\ Is("int", x) /\ Is("int", y) -> Divide(op, x.int, y.int)
    [] op \in {"<", ">", "<=", ">="} /\ Is("int", x) /\ Is("int", y) ->
         Ok(Bool(Compare(op, x.int, y.int)))
    [] op \in {"<", ">", "<=", ">="} /\ Is("text", x) /\ Is("text", y) ->
         Ok(Bool(CASE op = "<" -> TextLess(x.text, y.text)
                   [] op = ">" -> TextLess(y.text, x.text)
                   [] op = "<=" -> TextLess(x.text, y.text) \/ x = y
                   [] op = ">=" -> TextLess(y.text, x.text) \/ x = y))
    [] OTHER -> Err("binop")

VmField(v, k) == IF Is("rec", v) THEN Member(v, k) ELSE Err("field")

\* ? looks at the tag only, and takes what is missing for unit.
VmTry(v) ==
  LET part(k) == IF k \in DOMAIN v.rec THEN v.rec[k] ELSE Unit IN
  CASE Is("rec", v) /\ part("t") = Text(<<"ok">>) -> Ok(part("v"))
    [] Is("rec", v) /\ part("t") = Text(<<"err">>) -> QMark(part("e"))
    [] OTHER -> Err("expected result")

-----------------------------------------------------------------------------
(* Running *)

Frame(f, args) ==
  [fn |-> f, ip |-> 1, stack |-> <<>>,
   slots |-> [i \in DOMAIN fns[f].slots |->
                IF i = fns[f].self THEN VmFunc(f)
                ELSE IF i \in DOMAIN args THEN args[i] ELSE fns[f].slots[i]]]

Running == frames # <<>>
Ended == DOMAIN outcome # {}
Top == frames[Len(frames)]
Op == fns[Top.fn].code[Top.ip]
Doing(op) == Running /\ Op.op = op

\* The stack without its n last values, and these.
Below(n) == SubSeq(Top.stack, 1, Len(Top.stack) - n)
Upper(n) == SubSeq(Top.stack, Len(Top.stack) - n + 1, Len(Top.stack))

Become(frame) == frames' = [frames EXCEPT ![Len(frames)] = frame] /\ UNCHANGED <<program, fns, outcome>>
Stop(o) == frames' = <<>> /\ outcome' = o /\ UNCHANGED <<program, fns>>

\* The instruction is over, with this stack or this result on it.
GoOn(stack) == Become([Top EXCEPT !.ip = @ + 1, !.stack = stack])
Yield(o, stack) == IF "ok" \in DOMAIN o THEN GoOn(Append(stack, o.ok)) ELSE Stop(o)

\* The call is over.
Return(v) ==
  IF Len(frames) = 1 THEN Stop(Ok(v))
  ELSE LET caller == frames[Len(frames) - 1] IN
       /\ frames' = Append(SubSeq(frames, 1, Len(frames) - 2),
                           [caller EXCEPT !.ip = @ + 1, !.stack = Append(@, v)])
       /\ UNCHANGED <<program, fns, outcome>>

\* What the tree walker makes of the module.
Walked ==
  LET defs == program.defs
      names == {defs[i].name : i \in DOMAIN defs}
      func(i) == Func([j \in DOMAIN defs[i].params |-> [bind |-> defs[i].params[j]]],
                      defs[i].body, NoBindings)
      globals == [x \in names |-> func(CHOOSE i \in DOMAIN defs : defs[i].name = x)] @@ Base IN
  Call(func(Len(defs)), program.args, globals)

\* The last function is called.  (Of a module's functions all can be compiled, or
\* none can: a bound.)
Init ==
  /\ \E i \in DOMAIN Programs : program \in Programs[i]
  /\ fns = Define(program.defs, Base, <<>>)
  /\ \E fails \in BOOLEAN :
       /\ \A f \in DOMAIN fns : fns[f].fails = fails
       /\ frames = IF fails THEN <<>> ELSE <<Frame(Len(fns), program.args)>>
  /\ outcome = <<>>

LoadConst == Doing("push") /\ GoOn(Append(Top.stack, Op.v))
LoadSlot == Doing("load") /\ GoOn(Append(Top.stack, Top.slots[Op.slot]))
StoreSlot ==
  /\ Doing("store")
  /\ Become([Top EXCEPT !.ip = @ + 1, !.stack = Below(1), !.slots[Op.slot] = Upper(1)[1]])
Arith == Doing("binary") /\ Yield(VmBinary(Op.f, Upper(2)[1], Upper(2)[2]), Below(2))
NegNot == Doing("unary") /\ Yield(Unary(Op.f, Upper(1)[1]), Below(1))
Goto == Doing("jump") /\ Become([Top EXCEPT !.ip = Op.target])

Conditional == Doing("jump_if_false") \/ Doing("jump_if_true")
Jumps == Is("bool", Upper(1)[1]) /\ Upper(1)[1].bool = (Op.op = "jump_if_true")

JumpIf ==
  /\ Conditional
  /\ IF Is("bool", Upper(1)[1])
     THEN Become([Top EXCEPT !.ip = IF Jumps THEN Op.target ELSE @ + 1])
     ELSE Stop(Err("jump"))
Pop == Doing("pop") /\ GoOn(Below(1))
MakeList == Doing("list") /\ GoOn(Append(Below(Op.n), List(Upper(Op.n))))
MakeRec ==
  LET pairs == Upper(2 * Op.n)
      key(i) == pairs[2 * i - 1]
      keys == {key(i).text[1] : i \in 1 .. Op.n} IN
  /\ Doing("record")
  /\ IF \E i \in 1 .. Op.n : ~Is("text", key(i)) THEN Stop(Err("record key"))
     ELSE GoOn(Append(Below(2 * Op.n), Record([k \in keys |->
            pairs[2 * (CHOOSE i \in 1 .. Op.n : /\ key(i).text[1] = k
                         /\ \A j \in 1 .. Op.n : key(j).text[1] = k => j <= i)]])))
GetField == Doing("field") /\ Yield(VmField(Upper(1)[1], Op.k), Below(1))

\* A compiled function is called: it gets a frame, also for a call that comes last.
CallCompiled ==
  LET f == Upper(Op.n + 1)[1] IN
  /\ Doing("call") /\ Is("vm", f)
  /\ IF Op.n # fns[f.vm].params THEN Stop(Err("arity"))
     ELSE IF Len(frames) = MaxDepth THEN Stop(Panic)
     ELSE /\ frames' = Append([frames EXCEPT ![Len(frames)].stack = Below(Op.n + 1)],
                              Frame(f.vm, Upper(Op.n)))
          /\ UNCHANGED <<program, fns, outcome>>

\* Any other function: the tree walker, or the library.
CallOther ==
  LET f == Upper(Op.n + 1)[1] IN
  /\ Doing("call") /\ ~Is("vm", f)
  /\ Yield(Call(f, Upper(Op.n), Base), Below(Op.n + 1))

Try ==
  LET o == VmTry(Upper(1)[1]) IN
  /\ Doing("try")
  /\ IF "qmark" \in DOMAIN o THEN Return(ResultErr(o.qmark)) ELSE Yield(o, Below(1))

ReturnOp == Doing("return") /\ Return(IF Top.stack = <<>> THEN Unit ELSE Upper(1)[1])

\* A function that is not compiled is left to the tree walker.
Walk == ~Running /\ ~Ended /\ fns # <<>> /\ Stop(Walked)

\* The outcome is taken, and nothing of the module is left.
Exit ==
  /\ Ended
  /\ program' = <<>> /\ fns' = <<>> /\ frames' = <<>> /\ outcome' = <<>>

Next ==
  \/ LoadConst \/ LoadSlot \/ StoreSlot \/ Arith \/ NegNot \/ Goto \/ JumpIf \/ Pop
  \/ MakeList \/ MakeRec \/ GetField \/ CallCompiled \/ CallOther \/ Try \/ ReturnOp
  \/ Walk \/ Exit

Spec == Init /\ [][Next]_vars

-----------------------------------------------------------------------------
(* Properties *)

\* How many values an instruction takes from the stack.
Takes(op) ==
  CASE op.op = "binary" -> 2
    [] op.op \in {"unary", "field", "try", "store", "jump_if_false", "jump_if_true", "return"} -> 1
    [] op.op = "list" -> op.n
    [] op.op = "record" -> 2 * op.n
    [] op.op = "call" -> op.n + 1
    [] OTHER -> 0

\* No code the compiler emits runs past its end, or takes a value from an empty
\* stack (an unwrap that would panic), whichever way its jumps go.
StackHolds ==
  Running => /\ Top.ip \in DOMAIN fns[Top.fn].code
             /\ Len(Top.stack) >= Takes(Op)

\* All expressions in e.
Parts(e) ==
  CASE "let" \in DOMAIN e -> <<e.be, e.in>>
    [] "if" \in DOMAIN e -> <<e.if, e.then, e.else>>
    [] "op" \in DOMAIN e -> <<e.l, e.r>>
    [] "index" \in DOMAIN e -> <<e.of, e.index>>
    [] "of" \in DOMAIN e /\ "index" \notin DOMAIN e -> <<e.of>>
    [] "params" \in DOMAIN e -> <<e.body>>
    [] "items" \in DOMAIN e -> e.items
    [] "fields" \in DOMAIN e -> [i \in DOMAIN e.fields |-> e.fields[i].e]
    [] "args" \in DOMAIN e -> <<e.call>> \o e.args
    [] "try" \in DOMAIN e -> <<e.try>>
    [] "return" \in DOMAIN e -> <<e.return>>
    [] OTHER -> <<>>

RECURSIVE Inside(_)
Inside(e) == {e} \union UNION {Inside(Parts(e)[i]) : i \in DOMAIN Parts(e)}

\* Code that leaves more than its value: an if leaves its condition.
RECURSIVE Residue(_)
Residue(e) ==
  \/ "if" \in DOMAIN e
  \/ \E i \in DOMAIN Parts(e) :
       /\ Residue(Parts(e)[i])
       /\ i = 1 \/ "let" \in DOMAIN e \/ ("op" \in DOMAIN e /\ e.op \in {"&&", "||"})

\* What is left lies between the operands of an expression around it.
Misplaced(e) ==
  \E p \in Inside(e) : \E i \in DOMAIN Parts(p) :
    /\ Residue(Parts(p)[i])
    /\ \/ "fields" \in DOMAIN p
       \/ "args" \in DOMAIN p /\ i > 1
       \/ "items" \in DOMAIN p /\ i > 1
       \/ "op" \in DOMAIN p /\ p.op \in BinaryOps /\ i > 1

Names(i) == {program.defs[j].name : j \in 1 .. i}

\* A let in the function takes a name that is in use.
Shadows(i) ==
  LET def == program.defs[i]
      lets == {p \in Inside(def.body) : "let" \in DOMAIN p} IN
  \/ def.name \in Range(def.params)
  \/ \E p \in lets : p.let.bind \in Range(def.params) \union Names(i) \union DOMAIN Base
  \/ \E p, q \in lets : p # q /\ p.let = q.let

\* The function names one that is defined after it.
Forward(i) ==
  \E p \in Inside(program.defs[i].body) :
    "var" \in DOMAIN p /\ p.var \in Names(Len(program.defs)) \ Names(i)

\* The function compares lists or records, or calls a function on a value.
Structural(i) ==
  \E p \in Inside(program.defs[i].body) :
    \/ "get" \in DOMAIN p /\ p.get = "len"
    \/ "op" \in DOMAIN p /\ p.op \in {"==", "!="}

\* && or || skips a right operand that would leave the function.
Skips(i) ==
  \E p \in Inside(program.defs[i].body) :
    /\ "op" \in DOMAIN p /\ p.op \in {"&&", "||"}
    /\ \E q \in Inside(p.r) : "return" \in DOMAIN q \/ "try" \in DOMAIN q


Compiled == \A i \in DOMAIN fns : ~fns[i].fails

\* A program that has a value under the tree walker has the same value when its
\* functions are compiled; but for an if that is an operand, names that hide
\* others, functions defined later, == and methods on lists and records, and a
\* return or ? that && or || would skip.
CompiledAsWalked ==
  (Compiled /\ outcome # Panic /\ ~\E i \in DOMAIN fns :
     Misplaced(program.defs[i].body) \/ Shadows(i) \/ Forward(i) \/ Structural(i) \/ Skips(i))
    => LET o == Walked IN "ok" \in DOMAIN o => outcome = o

\* A name that is not bound yet is unit in a compiled function.
Unbound(i) ==
  LET def == program.defs[i] IN
  \E p \in Inside(def.body) :
    /\ "var" \in DOMAIN p
    /\ p.var \notin Range(def.params) \union Names(i) \union DOMAIN Base

Texts == {[var |-> x] : x \in {y \in DOMAIN Base : Is("text", Base[y])}}

\* The function has an operator that is laxer in compiled functions: && and || may
\* skip their right operand, texts may be added and compared, and ? looks at a tag
\* only.
Lax(i) ==
  \E p \in Inside(program.defs[i].body) :
    \/ "op" \in DOMAIN p /\ p.op \in {"&&", "||"}
    \/ "op" \in DOMAIN p /\ p.op \notin {"==", "!="} /\ Texts \intersect Inside(p) # {}
    \/ "try" \in DOMAIN p

\* A program that fails under the tree walker does not come up with a value when
\* its functions are compiled; but for an if that is an operand, names that hide
\* others or are not bound, and the laxer operators.
FailsAsWalked ==
  (Compiled /\ "ok" \in DOMAIN outcome /\ ~\E i \in DOMAIN fns :
     Misplaced(program.defs[i].body) \/ Shadows(i) \/ Unbound(i) \/ Lax(i))
    => "err" \notin DOMAIN Walked

\* The loop over tail calls yields what a call in every place would: ? and return
\* leave the function they are in and no other.  (The errors of a match differ.)
TailsAsCalls ==
  LET def == Last(program.defs)
      env == [x \in Range(def.params) |->
                program.args[CHOOSE i \in DOMAIN def.params : def.params[i] = x]]
      plain == Eval(def.body, env, Base)
      looped == Call(Func([i \in DOMAIN def.params |-> [bind |-> def.params[i]]], def.body, NoBindings),
                     program.args, Base) IN
  CASE "qmark" \in DOMAIN plain -> looped = Ok(ResultErr(plain.qmark))
    [] "return" \in DOMAIN plain -> looped = Ok(plain.return)
    [] "err" \in DOMAIN plain -> "err" \in DOMAIN looped
    [] OTHER -> looped = plain

\* The engine that a function's form chooses for it does not show in what a call of it does, but for what the parts name.
EnginesAgree == [][/\ StackHolds'
                   /\ Exit => CompiledAsWalked /\ FailsAsWalked /\ TailsAsCalls]_vars
=============================================================================
