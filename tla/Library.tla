------------------------------- MODULE Library -------------------------------
(***************************************************************************)
(* A program that holds a value and calls functions of the standard library *)
(* on it: what the functions promise together.                              *)
(***************************************************************************)
EXTENDS StdInt

CONSTANTS Elements,   \* what is put into sets
          Items,      \* what is put into lists
          Functions1, \* functions of one argument that are given to the library
          Words,      \* texts that are put behind or looked for in others
          Parts,      \* what paths are joined from
          MaxLen      \* the longest text, list or path that is worked on

VARIABLES kind,   \* what the value is used as
          val,    \* the value
          elems   \* the elements that a set was built from, as a set

vars == <<kind, val, elems>>

Starts == [set |-> List(<<>>), list |-> List(<<>>), text |-> Text(<<>>), path |-> Text(<<>>),
           int |-> Number(0), rec |-> Record(NoBindings)]

Init == /\ kind \in DOMAIN Starts
        /\ val = Starts[kind]
        /\ elems = {}

\* The program goes on with what a call yields; an error ends it.
Becomes(o) == "ok" \in DOMAIN o /\ val' = o.ok

InSet(s) == {s.list[i] : i \in DOMAIN s.list}

BuildSet ==
  /\ kind = "set"
  /\ \E x \in Elements, y \in Elements :
       LET other == SetFromList(<<List(<<y, x, y>>)>>).ok IN
       \/ Becomes(SetAdd(<<val, x>>)) /\ elems' = elems \union {x}
       \/ Becomes(SetRemove(<<val, x>>)) /\ elems' = elems \ (IF Is("bytes", x) THEN {} ELSE {x})
       \/ Becomes(SetUnion(<<val, other>>)) /\ elems' = elems \union {x, y}
       \/ Becomes(SetUnion(<<other, val>>)) /\ elems' = elems \union {x, y}
       \/ /\ Becomes(SetIntersect(<<val, other>>))
          /\ elems' = {e \in elems \intersect {x, y} : ~Is("bytes", e)}
       \/ /\ Becomes(SetDiff(<<val, other>>))
          /\ elems' = {e \in elems : e \notin {x, y} \/ Is("bytes", e)}
  /\ Len(val'.list) <= Cardinality(Elements) + 1
  /\ UNCHANGED kind

BuildList ==
  /\ kind = "list"
  /\ Len(val.list) < MaxLen
  /\ \E x \in Items : Becomes(ListAppend(<<val, x>>))
  /\ UNCHANGED <<kind, elems>>

BuildText ==
  /\ kind = "text"
  /\ \E w \in Words : Becomes(StrConcat(<<val, Text(w)>>)) /\ Len(val'.text) <= MaxLen
  /\ UNCHANGED <<kind, elems>>

BuildPath ==
  /\ kind = "path"
  /\ Len(Pieces(val.text, <<"/">>)) < MaxLen
  /\ \E p \in Parts : Becomes(PathJoin(<<val, Text(p)>>))
  /\ UNCHANGED <<kind, elems>>

Count ==
  /\ kind = "int"
  /\ \/ Becomes(IntAdd(<<val, Number(1)>>))
     \/ Becomes(IntSub(<<val, Number(1)>>))
  /\ UNCHANGED <<kind, elems>>

BuildRecord ==
  /\ kind = "rec"
  /\ \E k \in {"t", "v", "e"}, x \in {Text(<<"some">>), Text(<<"ok">>), Text(<<"err">>), Unit, Number(1)} :
       \/ Becomes(RecSet(<<val, KeyText(k), x>>))
       \/ Becomes(RecRemove(<<val, KeyText(k)>>))
  /\ UNCHANGED <<kind, elems>>

\* The program has asked what it wants to know of the value.
LetGo ==
  /\ kind \in DOMAIN Starts
  /\ kind' = "dropped" /\ val' = Unit /\ elems' = {}

Next == BuildSet \/ BuildList \/ BuildText \/ BuildPath \/ Count \/ BuildRecord \/ LetGo

Spec == Init /\ [][Next]_vars

Holding(k, P) == kind = k => P

-----------------------------------------------------------------------------
(* Properties *)

\* std/set: a list that was built as a set is fixed by the elements, in whatever order
\* and by whichever functions they came, so that == compares sets.  Bytes are equal to
\* nothing, so only sets without them are.
SetsAreCanonical ==
  Holding("set",
    /\ InSet(val) = elems
    /\ (\A x \in elems : ~Is("bytes", x)) =>
         /\ val = SetFromList(<<List(SetToSeq(elems))>>).ok
         /\ SetSize(<<val>>) = Ok(Number(Cardinality(elems))))

True(o) == o = Ok(Bool(TRUE))
Says(f, x) == Apply(f, <<x>>)
IsPredicate(f, xs) == \A i \in DOMAIN xs : \E b \in BOOLEAN : Says(f, xs[i]) = Ok(Bool(b))

\* any, all, find, find_index and filter ask a function the same question of the same
\* elements and agree on the answer, for every function that answers with a truth value
\* and is not compiled; one that is compiled they refuse, though filter takes it.
SearchesAgree ==
  Holding("list", \A f \in Functions1 :
    LET args == <<val, f>>
        xs == val.list
        yes == SelectSeq(xs, LAMBDA x : True(Says(f, x)))
        place == ListFindIndex(args) IN
    IF Is("vm", f)
    THEN \A o \in {ListAny(args), ListAll(args), ListFind(args), ListFlatMap(args), place} : "err" \in DOMAIN o
    ELSE IsPredicate(f, xs) =>
           /\ ListFilter(args) = Ok(List(yes))
           /\ True(ListAny(args)) <=> yes # <<>>
           /\ True(ListAll(args)) <=> yes = xs
           /\ (yes = <<>>) <=> (place = Ok(Number(-1)))
           /\ yes # <<>> => /\ ListGet(<<val, place.ok>>) = Ok(yes[1])
                            /\ ListFind(args).ok.rec = [some |-> yes[1]]
                            /\ ~ \E i \in 1 .. place.ok.int : xs[i] = yes[1])

Keeps(f, k) == [params |-> <<[bind |-> "z"]>>, env |-> NoBindings,
                body |-> [op |-> "==", l |-> [call |-> [const |-> f], args |-> <<[var |-> "z"]>>],
                          r |-> [const |-> k]]]

\* What is cut into chunks, grouped, mapped, folded, sorted and counted is still the
\* list: no element is lost, doubled or moved where it should not be.  A group is what
\* filter finds of its key, unless keys of different kinds print alike.
ListsKeepTheirElements ==
  Holding("list",
    /\ \A n \in 1 .. MaxLen :
         /\ Then(ListChunk(<<val, Number(n)>>), LAMBDA cs : ListConcat(<<cs>>)) = Ok(val)
         /\ ListTake(<<val, Number(n)>>).ok.list \o ListDrop(<<val, Number(n)>>).ok.list = val.list
    /\ AllInts(val.list) =>
         LET sorted == SortInt(<<val>>).ok
             kept == DedupeSortedInt(<<sorted>>).ok.list
             bins == HistInt(<<val>>).ok.list IN
         /\ kept = [b \in DOMAIN bins |-> bins[b].rec.v]
         /\ FlattenSeq([b \in DOMAIN bins |-> ListRepeat(<<bins[b].rec.v, bins[b].rec.count>>).ok.list])
              = sorted.list
         /\ InSet(SetFromList(<<val>>).ok) = Range(kept)
    /\ \A f \in Functions1 : ~Is("vm", f) =>
         LET mapped == ListMap(<<val, f>>)
             groups == ListGroupBy(<<val, f>>)
             keys == {Says(f, x).ok : x \in Range(val.list)} IN
         /\ ListFlatMap(<<val, f>>) = Then(mapped, LAMBDA vs : ListFlatten(<<vs>>))
         /\ "ok" \in DOMAIN groups =>
              /\ DOMAIN groups.ok.rec = {Shown(k) : k \in keys}
              /\ \A k \in keys :
                   (\A j \in keys \ {k} : Shown(j) # Shown(k)) =>
                     Ok(groups.ok.rec[Shown(k)]) = ListFilter(<<val, [func |-> Keeps(f, k)]>>))

\* split, join, replace, index_of, contains, slice and the two lengths speak of the same
\* matches; index_of counts them in bytes, as str.len does, and slice in characters,
\* as list.len does.
TextsAgree ==
  Holding("text", \A d \in Words :
    LET both == <<val, Text(d)>>
        pieces == StrSplit(both).ok
        before == IF d = <<>> THEN Text(<<>>) ELSE pieces.list[1]
        place == StrIndexOf(both).ok.int IN
    /\ StrJoin(<<pieces, Text(d)>>) = Ok(val)
    /\ StrReplace(<<val, Text(d), Text(d)>>) = Ok(val)
    /\ True(StrContains(both)) <=> place # -1
    /\ True(StrContains(both)) <=> Len(pieces.list) > 1
    /\ True(StrStartsWith(both)) <=> place = 0
    /\ place # -1 => Ok(Number(place)) = StrLen(<<before>>)
    /\ LET at == ListLen(<<before>>).ok.int  to == at + ListLen(<<Text(d)>>).ok.int IN
       place # -1 => /\ StrSlice(<<val, Number(0), Number(at)>>) = Ok(before)
                     /\ StrSlice(<<val, Number(at), Number(to)>>) = Ok(Text(d))
    /\ StrJoin(<<StrChars(<<val>>).ok, Text(<<>>)>>) = Ok(val)
    /\ LET unix == StrReplace(<<val, Text(<<"\r", "\n">>), Text(<<"\n">>)>>).ok.text IN
       StrJoin(<<StrSplitLines(<<val>>).ok, Text(<<"\n">>)>>).ok.text
         = IF IsSuffix(<<"\n">>, unix) THEN Front(unix) ELSE unix
    /\ StrToLower(<<StrUpper(<<val>>).ok>>) = StrToLower(<<val>>)
         <=> Range(val.text) \intersect DOMAIN UpperOf \intersect Wide = {})

\* str.format puts the values where the template has their keys, and nothing else is
\* changed, unless a value holds a placeholder of a key after its own.
FormatsInsertValues ==
  Holding("text", \A w \in Words :
    LET template == Text(<<"{", "e", "}", "{", "v", "}">>)
        holds(s) == StrContains(<<Text(s), Text(<<"{", "v", "}">>)>>) = Ok(Bool(TRUE)) IN
    StrFormat(<<template, Record([v |-> Text(w), e |-> val])>>) = StrConcat(<<val, Text(w)>>)
      <=> (~holds(val.text) \/ w = <<"{", "v", "}">>))

\* Where a path leads from a directory, both given by their parts.
Leads(s, dir) ==
  FoldLeft(LAMBDA at, c : IF c = <<".">> THEN at
                          ELSE IF c = <<".", ".">> THEN (IF at = <<>> THEN at ELSE Front(at))
                          ELSE Append(at, c),
           IF Rooted(s) THEN <<>> ELSE dir, Components(s))

Dirs == {<<>>, <<<<"x">>>>, <<<<"x">>, <<"y">>>>, <<<<"x">>, <<"y">>, <<"z">>>>}

\* How far a path climbs out of the directory it starts from.
Climbs(s) ==
  ~Rooted(s) /\ \E n \in 0 .. Len(Components(s)) :
    LET cs == SubSeq(Components(s), 1, n)
        up == Cardinality({i \in DOMAIN cs : cs[i] = <<".", ".">>})
        here == Cardinality({i \in DOMAIN cs : cs[i] = <<".">>}) IN
    up > n - up - here

\* normalize keeps where a path leads, whatever the directory, exactly if the path does
\* not climb out of it; what std/fs may write to stays below it; and dir and base take a
\* path apart so that join puts it together.
PathsKeepTheirMeaning ==
  Holding("path",
    LET s == val.text
        normal == PathNormalize(<<val>>).ok
        base == PathBase(<<val>>).ok
        dir == PathDir(<<val>>).ok IN
    /\ Climbs(s) <=> \E d \in Dirs : Leads(s, d) # Leads(normal.text, d)
    /\ PathNormalize(<<normal>>) = Ok(normal)
    /\ FsSandboxCheck(s) => \A d \in Dirs : IsPrefix(d, Leads(s, d))
    /\ base # Text(<<>>) => PathNormalize(<<PathJoin(<<dir, base>>).ok>>) = Ok(normal))

Powers(m, n) == IF n < 0 THEN {} ELSE {Raised(m, n)}
Fitting(ns) == {Ok(Number(n)) : n \in ns \intersect MinInt .. MaxInt}

\* std/int's operations yield the number of mathematics, or an error exactly if it does
\* not fit; pow refuses large exponents too.  abs and neg are exact but of the least
\* integer, and math.pow agrees with pow only while the exponent fits in half the bits.
\* Numbers survive their texts, and texts padded with zeros but for a negative number to
\* which zeros have been added; bits.bshl is a product while that fits.
IntsAreExact ==
  Holding("int", \A n \in MinInt .. MaxInt :
    LET m == val.int
        both == <<val, Number(n)>>
        oks(o) == IF "ok" \in DOMAIN o THEN {o} ELSE {}
        short == n < 2 ^ (Width \div 2) IN
    /\ oks(IntAdd(both)) = Fitting({m + n})
    /\ oks(IntSub(both)) = Fitting({m - n})
    /\ oks(IntMul(both)) = Fitting({m * n})
    /\ oks(IntPow(both)) = (IF short THEN Fitting(Powers(m, n)) ELSE {})
    /\ n \in 0 .. 2 ^ (Width \div 2) - 1 /\ "ok" \in DOMAIN IntPow(both) => MathPow(both) = IntPow(both)
    /\ "ok" \in DOMAIN IntDiv(both) <=> n # 0 /\ ~(m = MinInt /\ n = -1)
    /\ "ok" \in DOMAIN IntDiv(both) =>
         LET q == IntDiv(both).ok.int  r == IntMod(both).ok.int IN
         q * n + r = m /\ Abs(r) < Abs(n) /\ (r = 0 \/ (r < 0 <=> m < 0))
    /\ m # MinInt => IntAbs(<<val>>) = Ok(Number(Abs(m))) /\ IntNeg(<<val>>) = Ok(Number(-m))
    /\ IntParse(<<StrFromInt(<<val>>).ok>>) = Ok(ResultOk(val))
    /\ n >= 0 =>
         (IntParse(<<IntToStrPadded(<<val, Number(n), Text(<<"0">>)>>).ok>>) = Ok(ResultOk(val))
            <=> m >= 0 \/ StrLen(<<StrFromInt(<<val>>).ok>>).ok.int >= n)
    /\ n \in 0 .. Width - 2 => \A p \in Fitting({m * 2 ^ n}) : BitShl(both) = p
    /\ BitNot(<<val>>) = Ok(Number(-m - 1))
    /\ BitAnd(both).ok.int + BitOr(both).ok.int = m + n
    /\ BitOr(both).ok.int - BitAnd(both).ok.int = BitXor(both).ok.int)

\* A record read back holds what was put, renamed or kept; rename to the same name
\* changes nothing.  option.is_some and the functions that open an option disagree on
\* what is neither null nor some: they treat it as none.  A result is ok or err, not both.
RecordsAgree ==
  Holding("rec", \A j \in {"t", "v", "e"}, k \in {"t", "v", "e"} :
    LET renamed == RecRename(<<val, KeyText(j), KeyText(k)>>).ok
        default == Text(<<"none">>)
        none == OptionUnwrapOr(<<val, default>>) = Ok(default) IN
    /\ RecGet(<<renamed, KeyText(k)>>)
         = (IF j \in DOMAIN val.rec THEN RecGet(<<val, KeyText(j)>>) ELSE RecGet(<<val, KeyText(k)>>))
    /\ j = k => renamed = val
    /\ Cardinality(DOMAIN renamed.rec) =
         Cardinality(DOMAIN val.rec) - (IF {j, k} \subseteq DOMAIN val.rec /\ j # k THEN 1 ELSE 0)
    /\ RecMerge(<<RecRemove(<<val, KeyText(j)>>).ok, RecSelect(<<val, List(<<KeyText(j)>>)>>).ok>>) = Ok(val)
    /\ none /\ True(OptionIsSome(<<val>>)) <=> ~(IsSomeRecord(val) /\ "v" \in DOMAIN val.rec)
    /\ none => OptionToNullable(<<val>>) = Ok(Unit)
    /\ ~IsSomeRecord(val) => OptionToResult(<<val, default>>) = Ok(ResultErr(default))
    /\ ~(True(ResultIsOk(<<val>>)) /\ True(ResultIsErr(<<val>>)))
    /\ "ok" \in DOMAIN ResultIsOk(<<val>>) <=> "ok" \in DOMAIN ResultUnwrapOr(<<val, default>>)
    /\ True(ResultIsErr(<<val>>)) => ResultUnwrapOr(<<val, default>>) = Ok(default))

\* The functions on lists and on sets agree with each other.
ListsAndSetsAgree == [][LetGo => SetsAreCanonical /\ SearchesAgree /\ ListsKeepTheirElements]_vars

\* The functions on texts, formats and paths agree with each other, unless one counts bytes and the other characters.
TextsAndPathsAgree == [][LetGo => TextsAgree /\ FormatsInsertValues /\ PathsKeepTheirMeaning]_vars

\* The functions on integers are exact where they answer, and those on records keep what they are not asked to change.
IntsAndRecordsAgree == [][LetGo => IntsAreExact /\ RecordsAgree]_vars
=============================================================================
