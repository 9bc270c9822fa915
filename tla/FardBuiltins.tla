----------------------------- MODULE FardBuiltins -----------------------------
(***************************************************************************)
(* The values of fardlang (crates/valuecore/src/val.rs), their order, and   *)
(* its built-in functions (crates/fardlang/src/eval.rs).  A value is a      *)
(* record with one field that tells its kind: [int], [text], [rec], ...; a  *)
(* text is a sequence of characters, a record's value a function on keys.   *)
(* A call yields a value - an error is one, too - or stops the program.     *)
(***************************************************************************)
EXTENDS FardCanon

CONSTANT Width \* of the integers, in bits

MaxInt == 2^(Width - 1) - 1

Unit == [unit |-> TRUE]
Bool(b) == [bool |-> b]
Int_(n) == [int |-> n]
Text(x) == [text |-> x]
\* A float is the sequence of its number of halves, and of one more sign if it is the
\* negative zero; NaN is no number.  (The infinities are left out.)
Halves(n) == [float |-> <<n>>]
NegativeZero == [float |-> <<0, 0>>]
NaN == [float |-> <<>>]
List(xs) == [list |-> xs]
Error(code) == [err |-> <<code>>, data |-> Unit]
Is(kind, v) == kind \in DOMAIN v

\* The outcomes of a call.
Value(v) == [val |-> v]
Mistake(code) == Value(Error(code))
Stop(why) == [stop |-> why]

Keys(f) == SetToSortSeq(DOMAIN f, LAMBDA a, b : Place(a) < Place(b))

\* Pairs with the same key make an error of the record.
RecordOf(kvs) ==
  LET keys == {kvs[i][1] : i \in DOMAIN kvs}
  IN  IF Cardinality(keys) < Len(kvs) THEN Error("ERROR_DUP_KEY")
      ELSE [rec |-> [k \in keys |-> kvs[CHOOSE i \in DOMAIN kvs : kvs[i][1] = k][2]]]

TagRank(v) == CHOOSE i \in 1..9 : <<"unit", "bool", "int", "float", "text", "bytes", "list", "rec", "err">>[i] \in DOMAIN v

Sign(a, b) == CASE a < b -> -1 [] a = b -> 0 [] OTHER -> 1
BoolRank(b) == IF b THEN 1 ELSE 0

\* The first difference of two sequences of signs decides, then the length.
Verdict(signs, m, n) ==
  LET differ == {i \in DOMAIN signs : signs[i] # 0}
  IN  IF differ = {} THEN Sign(m, n) ELSE signs[Min(differ)]

CodeSigns(x, y) == [i \in 1..Min({Len(x), Len(y)}) |-> Sign(Place(x[i]), Place(y[i]))]

\* The order of values: -1, 0 or 1.  What cannot be compared, a NaN and any float, is equal.
RECURSIVE CanonCmp(_, _)
CanonCmp(a, b) ==
  IF TagRank(a) # TagRank(b) THEN Sign(TagRank(a), TagRank(b))
  ELSE CASE Is("unit", a) -> 0
         [] Is("bool", a) -> Sign(BoolRank(a.bool), BoolRank(b.bool))
         [] Is("int", a) -> Sign(a.int, b.int)
         [] Is("float", a) -> IF NaN \in {a, b} THEN 0 ELSE Sign(a.float[1], b.float[1])
         [] Is("text", a) -> Verdict(CodeSigns(a.text, b.text), Len(a.text), Len(b.text))
         [] Is("bytes", a) -> Verdict(CodeSigns(a.bytes, b.bytes), Len(a.bytes), Len(b.bytes))
         [] Is("list", a) ->
              Verdict([i \in 1..Min({Len(a.list), Len(b.list)}) |-> CanonCmp(a.list[i], b.list[i])],
                      Len(a.list), Len(b.list))
         [] Is("rec", a) ->
              LET x == Keys(a.rec)
                  y == Keys(b.rec)
              IN  Verdict([i \in 1..(2 * Min({Len(x), Len(y)})) |->
                             IF i % 2 = 1 THEN Sign(Place(x[(i + 1) \div 2]), Place(y[(i + 1) \div 2]))
                             ELSE IF x[i \div 2] # y[i \div 2] THEN 0
                             ELSE CanonCmp(a.rec[x[i \div 2]], b.rec[y[i \div 2]])],
                          Len(x), Len(y))
         [] Is("err", a) ->
              LET c == Verdict(CodeSigns(a.err, b.err), Len(a.err), Len(b.err))
              IN  IF c # 0 THEN c ELSE CanonCmp(a.data, b.data)

CanonEq(a, b) == CanonCmp(a, b) = 0

----------------------------------------------------------------------------
Kinds(a) == [i \in DOMAIN a |-> CHOOSE k \in DOMAIN a[i] : k # "data"]
\* The first arguments have these kinds.
Given(a, kinds) == Len(a) >= Len(kinds) /\ SubSeq(Kinds(a), 1, Len(kinds)) = kinds

Exact(n) == IF n \in -MaxInt - 1..MaxInt THEN Value(Int_(n)) ELSE Mistake("ERROR_OVERFLOW")
Magnitude(n) == IF n < 0 THEN -n ELSE n
Quotient(m, n) == (IF (m < 0) = (n < 0) THEN 1 ELSE -1) * (Magnitude(m) \div Magnitude(n))

\* Integers: whatever goes wrong is a value.
Arithmetic(f, a) ==
  IF ~Given(a, IF f = "neg" THEN <<"int">> ELSE <<"int", "int">>) \/ Len(a) # (IF f = "neg" THEN 1 ELSE 2)
  THEN Mistake("ERROR_BADARG")
  ELSE CASE f = "add" -> Exact(a[1].int + a[2].int)
         [] f = "sub" -> Exact(a[1].int - a[2].int)
         [] f = "mul" -> Exact(a[1].int * a[2].int)
         [] f = "neg" -> Exact(-a[1].int)
         [] f \in {"div", "rem"} /\ a[2].int = 0 -> Mistake("ERROR_DIV_ZERO")
         [] f = "div" /\ a[2].int # 0 -> Exact(Quotient(a[1].int, a[2].int))
         [] f = "rem" /\ a[2].int # 0 ->
              IF Quotient(a[1].int, a[2].int) > MaxInt THEN Mistake("ERROR_OVERFLOW")
              ELSE Value(Int_(a[1].int - a[2].int * Quotient(a[1].int, a[2].int)))

\* eq and lt take values of all kinds, the other three integers only.
Comparison(f, a) ==
  CASE f \in {"eq", "lt"} ->
         IF Len(a) # 2 THEN Stop("arity") ELSE Value(Bool(CanonCmp(a[1], a[2]) = (IF f = "eq" THEN 0 ELSE -1)))
    [] f = "not" -> IF Len(a) # 1 THEN Stop("arity")
                    ELSE IF Is("bool", a[1]) THEN Value(Bool(~a[1].bool)) ELSE Mistake("ERROR_BADARG")
    [] OTHER -> IF ~Given(a, <<"int", "int">>) THEN Mistake("ERROR_BADARG")
                ELSE Value(Bool(CASE f = "gt" -> a[1].int > a[2].int
                                  [] f = "le" -> a[1].int <= a[2].int
                                  [] f = "ge" -> a[1].int >= a[2].int))

\* Variant of Sliced: the end is not moved into the sequence.
SlicedFar(xs, s, e) == SubSeq(xs, Max({s, 0}) + 1, Min({e, Len(xs) - 1}))

\* The part from place s to place e, both moved into the sequence.
Sliced(xs, s, e) ==
  LET into(n) == Min({Max({n, 0}), Len(xs)}) IN SubSeq(xs, into(s) + 1, Max({into(s), into(e)}))

\* A negative or too large index is an error of the value, another kind of index stops the program.
ListRead(f, a) ==
  CASE f = "list_len" -> IF Len(a) # 1 THEN Stop("arity")
                         ELSE IF Is("list", a[1]) THEN Value(Int_(Len(a[1].list))) ELSE Mistake("ERROR_BADARG")
    [] f = "list_get" -> IF Len(a) # 2 \/ ~Is("int", a[2]) THEN Stop("index")
                         ELSE IF a[2].int < 0 THEN Mistake("ERROR_OOB")
                         ELSE IF ~Is("list", a[1]) THEN Mistake("ERROR_BADARG")
                         ELSE IF a[2].int < Len(a[1].list) THEN Value(a[1].list[a[2].int + 1])
                         ELSE Mistake("ERROR_OOB")

ListBuild(f, a) ==
  CASE f = "list_append" /\ Given(a, <<"list">>) /\ Len(a) > 1 -> Value(List(Append(a[1].list, a[2])))
    [] f = "list_concat" /\ Given(a, <<"list", "list">>) -> Value(List(a[1].list \o a[2].list))
    [] f = "list_reverse" /\ Given(a, <<"list">>) -> Value(List(Reverse(a[1].list)))
    [] f = "list_contains" /\ Given(a, <<"list">>) /\ Len(a) > 1 ->
         Value(Bool(\E i \in DOMAIN a[1].list : CanonEq(a[1].list[i], a[2])))
    [] f = "list_slice" /\ Given(a, <<"list", "int", "int">>) ->
         Value(List(Sliced(a[1].list, a[2].int, a[3].int)))
    [] OTHER -> Stop("bad argument")

HasAt(x, w, i) == i + Len(w) - 1 <= Len(x) /\ SubSeq(x, i, i + Len(w) - 1) = w

\* The text cut at every separator; an empty one cuts around every character.
RECURSIVE Pieces(_, _)
Pieces(x, sep) ==
  LET cuts == {i \in 1..Len(x) : HasAt(x, sep, i)}
  IN  IF sep = <<>> THEN << <<>> >> \o [i \in DOMAIN x |-> <<x[i]>>] \o << <<>> >>
      ELSE IF cuts = {} THEN <<x>>
      ELSE <<SubSeq(x, 1, Min(cuts) - 1)>> \o Pieces(SubSeq(x, Min(cuts) + Len(sep), Len(x)), sep)

Trimmed(x) == LET kept == {i \in DOMAIN x : x[i] # " "}
              IN  IF kept = {} THEN <<>> ELSE SubSeq(x, Min(kept), Max(kept))

DigitChars(n) == <<ToString(n)>>

TextRead(f, a) ==
  CASE f = "text_concat" /\ Len(a) # 2 -> Stop("arity")
    [] f = "int_to_text" /\ Len(a) # 1 -> Stop("arity")
    [] f = "text_concat" /\ Len(a) = 2 /\ Given(a, <<"text", "text">>) -> Value(Text(a[1].text \o a[2].text))
    [] f = "int_to_text" /\ Len(a) = 1 /\ Given(a, <<"int">>) -> Value(Text(DigitChars(a[1].int)))
    [] f = "text_len" /\ Given(a, <<"text">>) -> Value(Int_(Len(a[1].text)))
    [] f = "text_contains" /\ Given(a, <<"text", "text">>) ->
         Value(Bool(\E i \in 1..(Len(a[1].text) + 1) : HasAt(a[1].text, a[2].text, i)))
    [] f = "text_starts_with" /\ Given(a, <<"text", "text">>) -> Value(Bool(HasAt(a[1].text, a[2].text, 1)))
    [] f = "text_split" /\ Given(a, <<"text", "text">>) ->
         Value(List(Mapped(Text, Pieces(a[1].text, a[2].text))))
    [] OTHER -> Mistake("ERROR_BADARG")

TextBuild(f, a) ==
  CASE f = "text_trim" /\ Given(a, <<"text">>) -> Value(Text(Trimmed(a[1].text)))
    [] f = "text_slice" /\ Given(a, <<"text", "int", "int">>) ->
         Value(Text(Sliced(a[1].text, a[2].int, a[3].int)))
    [] f = "text_replace" /\ Given(a, <<"text", "text", "text">>) ->
         LET parts == Pieces(a[1].text, a[2].text)
         IN  Value(Text(FoldLeftDomain(LAMBDA out, i : out \o (IF i = 1 THEN <<>> ELSE a[3].text) \o parts[i],
                                       <<>>, parts)))
    [] f = "text_join" /\ Given(a, <<"list", "text">>) /\ \A i \in DOMAIN a[1].list : Is("text", a[1].list[i]) ->
         Value(Text(FoldLeftDomain(LAMBDA out, i : out \o (IF i = 1 THEN <<>> ELSE a[2].text) \o a[1].list[i].text,
                                   <<>>, a[1].list)))
    [] OTHER -> Stop("bad argument")

BytesBuild(f, a) ==
  CASE f = "bytes_len" /\ Given(a, <<"bytes">>) -> Value(Int_(Len(a[1].bytes)))
    [] f = "bytes_concat" /\ Given(a, <<"bytes", "bytes">>) -> Value([bytes |-> a[1].bytes \o a[2].bytes])
    [] f = "bytes_slice" /\ Given(a, <<"bytes", "int", "int">>) ->
         Value([bytes |-> Sliced(a[1].bytes, a[2].int, a[3].int)])
    [] f = "bytes_eq" /\ Given(a, <<"bytes", "bytes">>) -> Value(Bool(a[1].bytes = a[2].bytes))
    [] f = "bytes_from_text" /\ Given(a, <<"text">>) -> Value([bytes |-> a[1].text])
    [] OTHER -> Stop("bad argument")

Without(f, k) == [j \in DOMAIN f \ {k} |-> f[j]]
\* The key that a text spells.
KeyOf(v) == FoldLeft(LAMBDA word, c : word \o c, "", v.text)

MapBuild(f, a) ==
  CASE f = "map_new" -> Value([rec |-> <<>>])
    [] f = "map_get" -> IF ~Given(a, <<"rec", "text">>) THEN Mistake("ERROR_BADARG")
                        ELSE IF KeyOf(a[2]) \in DOMAIN a[1].rec THEN Value(a[1].rec[KeyOf(a[2])])
                        ELSE Mistake("ERROR_OOB")
    [] f = "map_set" /\ Given(a, <<"rec", "text">>) /\ Len(a) > 2 ->
         Value([rec |-> [j \in DOMAIN a[1].rec \union {KeyOf(a[2])} |->
                           IF j = KeyOf(a[2]) THEN a[3] ELSE a[1].rec[j]]])
    [] f = "map_has" /\ Given(a, <<"rec", "text">>) -> Value(Bool(KeyOf(a[2]) \in DOMAIN a[1].rec))
    [] f = "map_keys" /\ Given(a, <<"rec">>) ->
         Value(List(Mapped(LAMBDA k : Text(<<k>>), Keys(a[1].rec))))
    [] f = "map_delete" /\ Given(a, <<"rec", "text">>) -> Value([rec |-> Without(a[1].rec, KeyOf(a[2]))])
    [] OTHER -> Stop("bad argument")

\* ok(v) is a record, err(code) an error; anything but a text makes an error of how it is shown.
ResultBuild(f, a) ==
  CASE a = <<>> -> Mistake("ERROR_BADARG")
    [] f = "ok" /\ a # <<>> -> Value([rec |-> [k \in {"tag", "val"} |-> IF k = "tag" THEN Text(<<"ok">>) ELSE a[1]]])
    [] f = "err" /\ a # <<>> -> Value([err |-> IF Is("text", a[1]) THEN a[1].text ELSE <<"shown">>, data |-> Unit])

----------------------------------------------------------------------------
(* JSON: json_emit and json_parse, between values and the tree a text is   *)
(* read as or written from.                                                *)

\* A whole float is written without a point, and so read as an integer; what is not
\* finite is written null.
WriteFloat(v) ==
  CASE v = NaN -> [null |-> TRUE]
    [] v # NaN /\ v.float[1] % 2 = 0 -> Int_(v.float[1] \div 2)
    [] OTHER -> v

RECURSIVE VToJson(_), JsonToV(_)
VToJson(v) ==
  CASE Is("unit", v) -> [null |-> TRUE]
    [] Is("float", v) -> WriteFloat(v)
    [] Is("bytes", v) -> [text |-> <<"base64url">> \o v.bytes]
    [] Is("list", v) -> [list |-> Mapped(VToJson, v.list)]
    [] Is("rec", v) -> [rec |-> [k \in DOMAIN v.rec |-> VToJson(v.rec[k])]]
    [] Is("err", v) -> [text |-> <<"error:">> \o v.err]
    [] OTHER -> v

\* A float is read as its bytes.
JsonToV(j) ==
  CASE Is("null", j) -> Unit
    [] Is("float", j) -> [bytes |-> <<"f64">>]
    [] Is("list", j) -> [list |-> Mapped(JsonToV, j.list)]
    [] Is("rec", j) -> [rec |-> [k \in DOMAIN j.rec |-> JsonToV(j.rec[k])]]
    [] OTHER -> j

Builtins == [int |-> {"add", "sub", "mul", "div", "rem", "neg"},
             cmp |-> {"eq", "lt", "gt", "le", "ge", "not"},
             list |-> {"list_len", "list_get"},
             lists |-> {"list_append", "list_concat", "list_reverse", "list_contains", "list_slice"},
             text |-> {"text_concat", "int_to_text", "text_len", "text_contains", "text_starts_with", "text_split"},
             texts |-> {"text_trim", "text_slice", "text_replace", "text_join"},
             bytes |-> {"bytes_len", "bytes_concat", "bytes_slice", "bytes_eq", "bytes_from_text"},
             map |-> {"map_new", "map_get", "map_set", "map_has", "map_keys", "map_delete"},
             result |-> {"ok", "err"}]
IsBuiltin(f) == Len(f) = 1 /\ f[1] \in UNION Range(Builtins)

EvalBuiltin(f, a) ==
  CASE f \in Builtins.int -> Arithmetic(f, a)
    [] f \in Builtins.cmp -> Comparison(f, a)
    [] f \in Builtins.list -> ListRead(f, a)
    [] f \in Builtins.lists -> ListBuild(f, a)
    [] f \in Builtins.text -> TextRead(f, a)
    [] f \in Builtins.texts -> TextBuild(f, a)
    [] f \in Builtins.bytes -> BytesBuild(f, a)
    [] f \in Builtins.map -> MapBuild(f, a)
    [] f \in Builtins.result -> ResultBuild(f, a)
=============================================================================
