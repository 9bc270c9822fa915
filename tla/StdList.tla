------------------------------- MODULE StdList -------------------------------
(***************************************************************************)
(* std/list, std/set and the list functions of std/grow in                  *)
(* src/bin/fardrun.rs (call_builtin).  A function of the library takes its  *)
(* arguments as a sequence and yields what a call does; functions given to  *)
(* it are called by the tree walker.  A set is a list without duplicates,   *)
(* in the order of what its elements print as.                              *)
(***************************************************************************)
EXTENDS TreeWalker, SequencesExt

CONSTANTS Code(_)  \* the place of a character in the order of characters

\* The kinds of value a function takes; other arguments are an error.
Fits(args, kinds) ==
  /\ Len(args) = Len(kinds)
  /\ \A i \in DOMAIN kinds : kinds[i] = "any" \/ Is(kinds[i], args[i])
Given(args, kinds, o) == IF Fits(args, kinds) THEN o ELSE Err("bad argument")

\* The first argument is of this kind: more of them are not looked at.
First(args, kind, o) == IF args # <<>> /\ Is(kind, args[1]) THEN o ELSE Err("bad argument")

\* A compiled function does what its body does (see Vm).
Apply(f, args) == Call(IF Is("vm", f) THEN [func |-> f.vm] ELSE f, args, NoBindings)

\* One step to an element, from what the steps before came to; the first failure ends it.
Each(xs, start, Step(_, _)) ==
  FoldLeft(LAMBDA o, x : Then(o, LAMBDA acc : Step(acc, x)), Ok(start), xs)

Wrapped(o) == Then(o, LAMBDA vs : Ok(List(vs)))

\* Rust's usize of an integer that is not cut off at 0 before.
Clip(n) == IF n < 0 THEN 0 ELSE n
Lesser(m, n) == IF m < n THEN m ELSE n
Cut(xs, n) == SubSeq(xs, 1, Lesser(n, Len(xs)))

-----------------------------------------------------------------------------
(* Lists *)

ListLen(args) ==
  IF args # <<>> /\ Is("text", args[1]) THEN Ok(Number(Len(args[1].text)))
  ELSE First(args, "list", Ok(Number(Len(args[1].list))))

ListHead(args) ==
  First(args, "list", IF args[1].list = <<>> THEN Err("bounds") ELSE Ok(Head(args[1].list)))
ListTail(args) ==
  First(args, "list", IF args[1].list = <<>> THEN Err("bounds") ELSE Ok(List(Tail(args[1].list))))
ListAppend(args) == Given(args, <<"list", "any">>, Ok(List(Append(args[1].list, args[2]))))
ListReverse(args) == First(args, "list", Ok(List(Reverse(args[1].list))))

Zipped(xs, ys) == [i \in 1 .. Lesser(Len(xs), Len(ys)) |-> <<xs[i], ys[i]>>]
ListZip(args) ==
  Given(args, <<"list", "list">>,
        LET pairs == Zipped(args[1].list, args[2].list) IN
        Ok(List([i \in DOMAIN pairs |-> List(pairs[i])])))

\* What is no list stays an element.
Spread(vs, x) == IF Is("list", x) THEN vs \o x.list ELSE Append(vs, x)
ListFlatten(args) == First(args, "list", Ok(List(FoldLeft(Spread, <<>>, args[1].list))))
ListConcat(args) ==
  Given(args, <<"list">>, Wrapped(Each(args[1].list, <<>>, LAMBDA vs, x :
    IF Is("list", x) THEN Ok(vs \o x.list) ELSE Err("bad argument"))))

ListGet(args) == Given(args, <<"list", "int">>, At(args[1], args[2]))
ListSet(args) ==
  Given(args, <<"list", "int", "any">>,
        IF args[2].int + 1 \in DOMAIN args[1].list
        THEN Ok(List([args[1].list EXCEPT ![args[2].int + 1] = args[3]])) ELSE Err("bounds"))
ListTake(args) ==
  Given(args, <<"list", "int">>, Ok(List(Cut(args[1].list, Clip(args[2].int)))))
ListDrop(args) ==
  Given(args, <<"list", "int">>,
        Ok(List(SubSeq(args[1].list, Clip(args[2].int) + 1, Len(args[1].list)))))

\* Variant of ListChunk: what does not fill a chunk is left out.
ListChunkFull(args) ==
  Given(args, <<"list", "int">>,
        LET xs == args[1].list  n == args[2].int IN
        IF n <= 0 THEN Err("bad argument")
        ELSE Ok(List([i \in 1 .. (Len(xs) \div n) |-> List(SubSeq(xs, (i - 1) * n + 1, i * n))])))

\* The elements in n's, the last ones fewer.
ListChunk(args) ==
  Given(args, <<"list", "int">>,
        LET xs == args[1].list  n == args[2].int IN
        IF n <= 0 THEN Err("bad argument")
        ELSE Ok(List([i \in 1 .. ((Len(xs) + n - 1) \div n) |->
                        List(Cut(SubSeq(xs, (i - 1) * n + 1, Len(xs)), n))])))

ListRange(args) ==
  LET from == IF Len(args) = 1 THEN 0 ELSE args[1].int
      to == args[Len(args)].int IN
  IF ~(Fits(args, <<"int">>) \/ Fits(args, <<"int", "int">>)) THEN Err("bad argument")
  ELSE IF to < from THEN Err("bad argument")
  ELSE Ok(List([i \in 1 .. (to - from) |-> Number(from + i - 1)]))

ListRepeat(args) ==
  Given(args, <<"any", "int">>,
        IF args[2].int < 0 THEN Err("bad argument")
        ELSE Ok(List([i \in 1 .. args[2].int |-> args[1]])))

-----------------------------------------------------------------------------
(* Order *)

\* Insertion sort: x goes behind everything it does not come before.
Insert(sorted, x, Before(_, _)) ==
  LET n == Cardinality({i \in DOMAIN sorted : ~Before(x, sorted[i])}) IN
  Cut(sorted, n) \o <<x>> \o SubSeq(sorted, n + 1, Len(sorted))
Sorted(xs, Before(_, _)) == FoldLeft(LAMBDA sorted, x : Insert(sorted, x, Before), <<>>, xs)

IntBefore(x, y) == x.int < y.int
AllInts(xs) == \A i \in DOMAIN xs : Is("int", xs[i])

SortInt(args) ==
  Given(args, <<"list">>,
        IF AllInts(args[1].list) THEN Ok(List(Sorted(args[1].list, IntBefore))) ELSE Err("bad argument"))

\* Of equal neighbours the first stays; so the list should be sorted.
DedupeSortedInt(args) ==
  Given(args, <<"list">>,
        LET xs == args[1].list
            keep == [i \in DOMAIN xs |-> i = 1 \/ (i > 1 /\ xs[i] # xs[i - 1])] IN
        IF AllInts(xs)
        THEN Ok(List(FoldLeft(LAMBDA vs, i : IF keep[i] THEN Append(vs, xs[i]) ELSE vs, <<>>,
                              [i \in DOMAIN xs |-> i])))
        ELSE Err("bad argument"))

HistInt(args) ==
  Given(args, <<"list">>,
        LET xs == args[1].list
            bins == SetToSortSeq(Range(xs), IntBefore) IN
        IF AllInts(xs)
        THEN Ok(List([b \in DOMAIN bins |->
                        Record([v |-> bins[b], count |-> Number(Cardinality({i \in DOMAIN xs : xs[i] = bins[b]}))])]))
        ELSE Err("bad argument"))

ByKey(x, y) == x.rec.k.int < y.rec.k.int
ListSortByIntKey(args) ==
  Given(args, <<"list", "any">>,
        IF \A i \in DOMAIN args[1].list :
             LET x == args[1].list[i] IN Is("rec", x) /\ "k" \in DOMAIN x.rec /\ Is("int", x.rec.k)
        THEN Ok(List(Sorted(args[1].list, ByKey))) ELSE Err("bad argument"))

\* sort_by: what comes out when the function is no order is up to Rust's sort.
ListSortBy(args) ==
  IF ~Fits(args, <<"list", "any">>) THEN {Err("bad argument")}
  ELSE LET xs == args[1].list
           cmp == [x, y \in Range(xs) |-> Apply(args[2], <<x, y>>)]
           int(x, y) == "ok" \in DOMAIN cmp[x, y] /\ Is("int", cmp[x, y].ok)
           before(x, y) == int(x, y) /\ cmp[x, y].ok.int < 0
           order == \A x, y \in Range(xs) :
                      /\ int(x, y)
                      /\ before(x, y) => ~before(y, x)
                      /\ cmp[x, y].ok.int = 0 => cmp[y, x].ok.int = 0
                      /\ \A z \in Range(xs) : ~before(x, y) /\ ~before(y, z) => ~before(x, z) IN
       IF Len(xs) < 2 THEN {Ok(args[1])}
       ELSE IF order THEN {Ok(List(Sorted(xs, before)))}
       ELSE {Panic, Err("sort_by")} \union {Ok(List([i \in DOMAIN xs |-> xs[p[i]]])) :
                                              p \in {q \in [DOMAIN xs -> DOMAIN xs] : IsInjective(q)}}

-----------------------------------------------------------------------------
(* Functions on elements *)

ListMap(args) ==
  Given(args, <<"list", "any">>, Wrapped(Each(args[1].list, <<>>, LAMBDA vs, x :
    Then(Apply(args[2], <<x>>), LAMBDA v : Ok(Append(vs, v))))))

\* A number other than 0 counts as true.
ListFilter(args) ==
  Given(args, <<"list", "any">>, Wrapped(Each(args[1].list, <<>>, LAMBDA vs, x :
    Then(Apply(args[2], <<x>>), LAMBDA keep :
      CASE Is("bool", keep) -> Ok(IF keep.bool THEN Append(vs, x) ELSE vs)
        [] Is("int", keep) -> Ok(IF keep.int # 0 THEN Append(vs, x) ELSE vs)
        [] OTHER -> Err("bad argument")))))

ListFold(args) ==
  Given(args, <<"list", "any", "any">>, Each(args[1].list, args[2], LAMBDA acc, x :
    Apply(args[3], <<acc, x>>)))

ListZipWith(args) ==
  Given(args, <<"list", "list", "any">>,
        Wrapped(Each(Zipped(args[1].list, args[2].list), <<>>, LAMBDA vs, p :
          Then(Apply(args[3], p), LAMBDA v : Ok(Append(vs, v))))))

\* These functions take no compiled function.
Walks(args, o) ==
  IF Fits(args, <<"list", "any">>) /\ DOMAIN args[2] \subseteq {"func", "builtin", "bound"} THEN o
  ELSE Err("bad argument")

ListFlatMap(args) ==
  Walks(args, Wrapped(Each(args[1].list, <<>>, LAMBDA vs, x :
    Then(Apply(args[2], <<x>>), LAMBDA v : Ok(Spread(vs, v))))))

\* Where the search for a b ends: the place of the first element of which the
\* function says b, or 0.  What is neither true nor false is passed over.
RECURSIVE Search(_, _, _, _)
Search(xs, i, f, b) ==
  IF i > Len(xs) THEN Ok(0)
  ELSE Then(Apply(f, <<xs[i]>>), LAMBDA v : IF v = Bool(b) THEN Ok(i) ELSE Search(xs, i + 1, f, b))

ListAny(args) ==
  Walks(args, Then(Search(args[1].list, 1, args[2], TRUE), LAMBDA i : Ok(Bool(i # 0))))
ListAll(args) ==
  Walks(args, Then(Search(args[1].list, 1, args[2], FALSE), LAMBDA i : Ok(Bool(i = 0))))
ListFind(args) ==
  Walks(args, Then(Search(args[1].list, 1, args[2], TRUE), LAMBDA i :
    Ok(Record(IF i = 0 THEN [none |-> Unit] ELSE [some |-> args[1].list[i]]))))
ListFindIndex(args) ==
  Walks(args, Then(Search(args[1].list, 1, args[2], TRUE), LAMBDA i : Ok(Number(i - 1))))

\* Groups are named by what their key prints as.  (A bound: a text that names a
\* group has one character, and a word counts as one.)
Word(b) == IF b THEN "true" ELSE "false"
Shown(k) == CASE Is("text", k) -> k.text[1]
              [] Is("bool", k) -> Word(k.bool)
              [] Is("int", k) -> ToString(k.int)
ListGroupBy(args) ==
  Given(args, <<"list", "any">>, Then(Each(args[1].list, NoBindings, LAMBDA groups, x :
    Then(Apply(args[2], <<x>>), LAMBDA k :
      IF ~(Is("text", k) \/ Is("bool", k) \/ Is("int", k)) THEN Err("bad argument")
      ELSE LET g == IF Shown(k) \in DOMAIN groups THEN groups[Shown(k)].list ELSE <<>> IN
           Ok(Shown(k) :> List(Append(g, x)) @@ groups))), LAMBDA groups : Ok(Record(groups))))

\* unfold: the seed and the value of a step, by either of their names.
Step(m) ==
  LET named(k, other) == {j \in {k, other} : j \in DOMAIN m.rec} IN
  IF ~Is("rec", m) THEN Err("step")
  ELSE IF named("seed", "i") = {} \/ named("value", "out") = {} THEN Err("step")
  ELSE Ok([seed |-> IF "seed" \in DOMAIN m.rec THEN m.rec.seed ELSE Record([i |-> m.rec.i]),
           value |-> IF "value" \in DOMAIN m.rec THEN m.rec.value ELSE m.rec.out])

RECURSIVE Unfolded(_, _, _, _)
Unfolded(seed, fuel, f, vs) ==
  IF fuel <= 0 THEN Ok(List(vs))
  ELSE Then(Apply(f, <<seed>>), LAMBDA r :
         IF r \in {Unit, List(<<>>)} THEN Ok(List(vs))
         ELSE Then(Step(IF Is("list", r) THEN r.list[1] ELSE r), LAMBDA s :
                Unfolded(s.seed, fuel - 1, f, Append(vs, s.value))))

Unfold(args) ==
  LET fuels == IF Is("rec", args[2]) THEN {k \in {"fuel", "steps"} : k \in DOMAIN args[2].rec /\ Is("int", args[2].rec[k])}
               ELSE {}
      fuel == IF Is("int", args[2]) THEN args[2].int
              ELSE args[2].rec[IF "fuel" \in fuels THEN "fuel" ELSE "steps"].int IN
  Given(args, <<"any", "any", "any">>,
        IF ~Is("int", args[2]) /\ fuels = {} THEN Err("bad argument")
        ELSE Unfolded(args[1], fuel, args[3], <<>>))

-----------------------------------------------------------------------------
(* Sets *)

RECURSIVE Digits(_)
Digits(n) == IF n < 10 THEN <<48 + n>> ELSE Append(Digits(n \div 10), 48 + (n % 10))

\* What {:?} makes of a value, as the places of its characters; of the name of the
\* kind the first will do.  (Records and functions are left out: a bound.)
RECURSIVE Printed(_)
Printed(v) ==
  CASE Is("bool", v) -> <<66, IF v.bool THEN 2 ELSE 1>>
    [] Is("int", v) -> <<73>> \o (IF v.int < 0 THEN <<45>> ELSE <<>>) \o Digits(Abs(v.int)) \o <<41>>
    [] Is("list", v) -> <<76>> \o FlattenSeq([i \in DOMAIN v.list |->
                          (IF i = 1 THEN <<>> ELSE <<44>>) \o Printed(v.list[i])]) \o <<93>>
    [] Is("text", v) -> <<84>> \o [i \in DOMAIN v.text |-> Code(v.text[i])] \o <<34>>
    [] Is("unit", v) -> <<85>>
    [] Is("bytes", v) -> <<67>> \o v.bytes \o <<93>>

Lexical(s, t) ==
  \/ IsStrictPrefix(s, t)
  \/ \E i \in DOMAIN s \intersect DOMAIN t :
       SubSeq(s, 1, i - 1) = SubSeq(t, 1, i - 1) /\ s[i] < t[i]
PrintsBefore(x, y) == Lexical(Printed(x), Printed(y))

Has(s, v) == \E i \in DOMAIN s : ValEq(s[i], v)
With(s, v) == IF Has(s, v) THEN s ELSE Append(s, v)
Without(s, out) == SelectSeq(s, LAMBDA x : ~Has(out, x))

SetNew(args) == Ok(List(<<>>))
SetAdd(args) ==
  Given(args, <<"list", "any">>,
        Ok(List(IF Has(args[1].list, args[2]) THEN args[1].list
                ELSE Sorted(Append(args[1].list, args[2]), PrintsBefore))))
SetRemove(args) == Given(args, <<"list", "any">>, Ok(List(Without(args[1].list, <<args[2]>>))))
SetHas(args) == Given(args, <<"list", "any">>, Ok(Bool(Has(args[1].list, args[2]))))

SetUnion(args) ==
  Given(args, <<"list", "list">>,
        Ok(List(Sorted(FoldLeft(With, args[1].list, args[2].list), PrintsBefore))))
SetIntersect(args) ==
  Given(args, <<"list", "list">>,
        Ok(List(SelectSeq(args[1].list, LAMBDA x : Has(args[2].list, x)))))
SetDiff(args) == Given(args, <<"list", "list">>, Ok(List(Without(args[1].list, args[2].list))))
SetToList(args) == Given(args, <<"list">>, Ok(args[1]))
SetFromList(args) ==
  Given(args, <<"list">>, Ok(List(Sorted(FoldLeft(With, <<>>, args[1].list), PrintsBefore))))
SetSize(args) == Given(args, <<"list">>, Ok(Number(Len(args[1].list))))
=============================================================================
