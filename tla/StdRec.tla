------------------------------- MODULE StdRec -------------------------------
(***************************************************************************)
(* std/rec, std/map, std/result, std/option, std/flow, std/null and the     *)
(* constructors of types, in src/bin/fardrun.rs (call_builtin).  A key is a *)
(* text of one character, a word counting as one.                           *)
(***************************************************************************)
EXTENDS StdText

KeyOf(v) == v.text[1]
KeyText(k) == Text(<<k>>)

ValueOr(m, k, v) == IF k \in DOMAIN m THEN m[k] ELSE v
Put(m, k, v) == [j \in DOMAIN m \union {k} |-> IF j = k THEN v ELSE m[j]]
Drop(m, ks) == Restrict(m, DOMAIN m \ ks)

-----------------------------------------------------------------------------
(* Records and maps *)

RecEmpty(args) == Given(args, <<>>, Ok(Record(NoBindings)))
RecKeys(args) ==
  Given(args, <<"rec">>,
        LET ks == KeysInOrder(args[1].rec) IN Ok(List([i \in DOMAIN ks |-> KeyText(ks[i])])))
RecValues(args) ==
  Given(args, <<"rec">>,
        LET ks == KeysInOrder(args[1].rec) IN Ok(List([i \in DOMAIN ks |-> args[1].rec[ks[i]]])))
MapEntries(args) ==
  Given(args, <<"rec">>,
        LET ks == KeysInOrder(args[1].rec) IN
        Ok(List([i \in DOMAIN ks |-> Record([key |-> KeyText(ks[i]), value |-> args[1].rec[ks[i]]])])))
RecHas(args) == Given(args, <<"rec", "text">>, Ok(Bool(KeyOf(args[2]) \in DOMAIN args[1].rec)))
RecGet(args) == Given(args, <<"rec", "text">>, Ok(ValueOr(args[1].rec, KeyOf(args[2]), Unit)))
MapGet(args) == RecGet(args)
RecGetOr(args) ==
  Given(args, <<"rec", "text", "any">>, Ok(ValueOr(args[1].rec, KeyOf(args[2]), args[3])))
RecGetOrErr(args) ==
  Given(args, <<"rec", "text", "any">>,
        Ok(IF KeyOf(args[2]) \in DOMAIN args[1].rec THEN ResultOk(args[1].rec[KeyOf(args[2])])
           ELSE ResultErr(args[3])))
RecSet(args) ==
  Given(args, <<"rec", "text", "any">>, Ok(Record(Put(args[1].rec, KeyOf(args[2]), args[3]))))
MapSet(args) == RecSet(args)
RecRemove(args) ==
  Given(args, <<"rec", "text">>, Ok(Record(Drop(args[1].rec, {KeyOf(args[2])}))))
MapDelete(args) == RecRemove(args)

\* Of two values for a key the second record's stays.
RecMerge(args) == Given(args, <<"rec", "rec">>, Ok(Record(args[2].rec @@ args[1].rec)))

RecSelect(args) ==
  Given(args, <<"rec", "list">>,
        LET ks == args[2].list IN
        IF \A i \in DOMAIN ks : Is("text", ks[i])
        THEN Ok(Record(Restrict(args[1].rec, DOMAIN args[1].rec \intersect {KeyOf(ks[i]) : i \in DOMAIN ks})))
        ELSE Err("bad argument"))

\* A field that has the new name already is lost.
RecRename(args) ==
  Given(args, <<"rec", "text", "text">>,
        LET m == args[1].rec  a == KeyOf(args[2])  b == KeyOf(args[3]) IN
        Ok(Record(IF a \in DOMAIN m THEN Put(Drop(m, {a}), b, m[a]) ELSE m)))

\* A missing field is given to the function as unit.
RecUpdate(args) ==
  Given(args, <<"rec", "text", "any">>,
        LET m == args[1].rec  k == KeyOf(args[2]) IN
        Then(Apply(args[3], <<ValueOr(m, k, Unit)>>), LAMBDA v : Ok(Record(Put(m, k, v)))))

\* The constructor of a type: other fields are kept, and none is looked into.
TypeCheck(fields, args) == Given(args, <<"rec">>, IF fields \subseteq DOMAIN args[1].rec
                                                  THEN Ok(args[1]) ELSE Err("type"))

-----------------------------------------------------------------------------
(* Results.  What is no result is an error. *)

IsResultOk(v) == "ok" \in DOMAIN TryValue(v)
IsResultErr(v) == "qmark" \in DOMAIN TryValue(v)

\* What becomes of args[1], if it is an ok and if it is an error.
OfResult(args, n, IfOk(_), IfErr(_)) ==
  IF Len(args) # n THEN Err("bad argument")
  ELSE CASE IsResultOk(args[1]) -> IfOk(args[1].rec.v)
         [] IsResultErr(args[1]) -> IfErr(args[1].rec.e)
         [] OTHER -> Err("expected result")

Same(args, x) == Ok(args[1])

ResultIsOk(args) == OfResult(args, 1, LAMBDA v : Ok(Bool(TRUE)), LAMBDA e : Ok(Bool(FALSE)))
ResultIsErr(args) == OfResult(args, 1, LAMBDA v : Ok(Bool(FALSE)), LAMBDA e : Ok(Bool(TRUE)))
ResultUnwrapOk(args) == OfResult(args, 1, Ok, LAMBDA e : Err("unwrap"))
ResultUnwrapErr(args) == OfResult(args, 1, LAMBDA v : Err("unwrap"), Ok)
ResultUnwrapOr(args) == OfResult(args, 2, Ok, LAMBDA e : Ok(args[2]))
ResultAndThen(args) ==
  OfResult(args, 2, LAMBDA v : Then(Apply(args[2], <<v>>), LAMBDA out :
                      IF IsResultOk(out) \/ IsResultErr(out) THEN Ok(out) ELSE Err("expected result")),
           LAMBDA e : Ok(args[1]))
ResultMap(args) ==
  OfResult(args, 2, LAMBDA v : Then(Apply(args[2], <<v>>), LAMBDA w : Ok(ResultOk(w))),
           LAMBDA e : Ok(args[1]))
ResultMapErr(args) ==
  OfResult(args, 2, LAMBDA v : Ok(args[1]),
           LAMBDA e : Then(Apply(args[2], <<e>>), LAMBDA w : Ok(ResultErr(w))))
ResultOrElse(args) ==
  OfResult(args, 2, LAMBDA v : Ok(args[1]), LAMBDA e : Apply(args[2], <<e>>))

-----------------------------------------------------------------------------
(* Options: unit is none; a record with "some" in t is some, and its value may be
   missing; everything else counts as none, but is_some does not see that. *)

Some(v) == Record([t |-> Text(<<"some">>), v |-> v])
IsSomeRecord(v) == Is("rec", v) /\ "t" \in DOMAIN v.rec /\ v.rec.t = Text(<<"some">>)

OfOption(args, n, IfSome(_), IfNone) ==
  IF Len(args) # n THEN Err("bad argument")
  ELSE IF IsSomeRecord(args[1]) THEN IfSome(ValueOr(args[1].rec, "v", Unit)) ELSE IfNone

OptionSome(args) == Given(args, <<"any">>, Ok(Some(args[1])))
OptionFromNullable(args) == Given(args, <<"any">>, Ok(IF args[1] = Unit THEN Unit ELSE Some(args[1])))
OptionIsNone(args) == Given(args, <<"any">>, Ok(Bool(args[1] = Unit)))
OptionIsSome(args) == Given(args, <<"any">>, Ok(Bool(args[1] # Unit)))
OptionToNullable(args) == OfOption(args, 1, Ok, Ok(Unit))
OptionMap(args) ==
  OfOption(args, 2, LAMBDA v : Then(Apply(args[2], <<v>>), LAMBDA w : Ok(Some(w))), Ok(Unit))
OptionAndThen(args) == OfOption(args, 2, LAMBDA v : Apply(args[2], <<v>>), Ok(Unit))
OptionUnwrapOr(args) ==
  OfOption(args, 2, LAMBDA v : Ok(ValueOr(args[1].rec, "v", args[2])), Ok(args[2]))
OptionUnwrapOrElse(args) == OfOption(args, 2, Ok, Apply(args[2], <<>>))
OptionToResult(args) == OfOption(args, 2, LAMBDA v : Ok(ResultOk(v)), Ok(ResultErr(args[2])))

-----------------------------------------------------------------------------
(* std/flow and std/null *)

FlowPipe(args) == Given(args, <<"any", "list">>, Each(args[2].list, args[1], LAMBDA x, f : Apply(f, <<x>>)))
FlowTap(args) == Given(args, <<"any", "any">>, Then(Apply(args[2], <<args[1]>>), LAMBDA v : Ok(args[1])))

NullCoalesce(args) == Given(args, <<"any", "any">>, Ok(IF args[1] = Unit THEN args[2] ELSE args[1]))
NullGuard(args) == Given(args, <<"any">>, IF args[1] = Unit THEN Err("null") ELSE Ok(args[1]))

\* unfold_tree: the nodes that the trace gets, breadth first.
GrowUnfoldTree(args) ==
  LET depth == IF Is("rec", args[2]) /\ "depth" \in DOMAIN args[2].rec /\ Is("int", args[2].rec.depth)
               THEN args[2].rec.depth.int ELSE 2
      n(v) == IF Is("rec", v) /\ "n" \in DOMAIN v.rec /\ Is("int", v.rec.n) THEN v.rec.n.int ELSE 0
      children(level) ==
        FlattenSeq([i \in DOMAIN level |-> <<Record([n |-> Number(n(level[i]) + 1)]),
                                             Record([n |-> Number(n(level[i]) + 2)])>>])
      levels[d \in Nat] == IF d = 0 THEN <<args[1]>> ELSE children(levels[d - 1]) IN
  FlattenSeq([d \in 1 .. (Clip(depth) + 1) |-> levels[d - 1]])
=============================================================================
