------------------------------- MODULE StdText -------------------------------
(***************************************************************************)
(* std/str and std/path in src/bin/fardrun.rs (call_builtin).  A text is a  *)
(* sequence of characters; some functions of the library count characters,  *)
(* others the bytes that UTF-8 takes for them.                              *)
(***************************************************************************)
EXTENDS StdList

CONSTANTS Wide,     \* the characters of more than one byte; each takes two
          Space,    \* the characters that count as white space
          UpperOf,  \* the upper case of a letter, as Unicode has it: a function to texts
          LowerOf   \* the lower case of an ASCII letter: a function to characters

ASSUME CharactersAssumption ==
  /\ DOMAIN LowerOf \intersect Wide = {}
  /\ Space \intersect (DOMAIN UpperOf \union DOMAIN LowerOf) = {}

Bytes(s) == Len(s) + Cardinality({i \in DOMAIN s : s[i] \in Wide})

Texts(args, n, o) == Given(args, [i \in 1 .. n |-> "text"], o)

-----------------------------------------------------------------------------
(* Where one text occurs in another *)

OccursAt(s, d, i) == i \in 1 .. Len(s) - Len(d) + 1 /\ SubSeq(s, i, i + Len(d) - 1) = d
Places(s, d) == {i \in 1 .. Len(s) + 1 : OccursAt(s, d, i)}

\* What is between the matches from place i on, which do not overlap; an empty d
\* matches before each character and at the end.
RECURSIVE PiecesFrom(_, _, _, _)
PiecesFrom(s, d, from, i) ==
  LET rest == {j \in Places(s, d) : j >= i}
      j == Min(rest) IN
  IF rest = {} THEN <<SubSeq(s, from, Len(s))>>
  ELSE <<SubSeq(s, from, j - 1)>>
         \o PiecesFrom(s, d, j + Len(d), IF d = <<>> THEN j + 1 ELSE j + Len(d))
Pieces(s, d) == PiecesFrom(s, d, 1, 1)

Glue(pieces, sep) ==
  FoldLeft(LAMBDA out, i : out \o (IF i > 1 THEN sep ELSE <<>>) \o pieces[i], <<>>,
           [i \in DOMAIN pieces |-> i])

TextList(pieces) == List([i \in DOMAIN pieces |-> Text(pieces[i])])

StrSplit(args) == Texts(args, 2, Ok(TextList(Pieces(args[1].text, args[2].text))))
StrReplace(args) ==
  Texts(args, 3, Ok(Text(Glue(Pieces(args[1].text, args[2].text), args[3].text))))
StrJoin(args) ==
  Given(args, <<"list", "text">>,
        LET items == args[1].list IN
        IF \A i \in DOMAIN items : Is("text", items[i])
        THEN Ok(Text(Glue([i \in DOMAIN items |-> items[i].text], args[2].text)))
        ELSE Err("bad argument"))
StrContains(args) == Texts(args, 2, Ok(Bool(Places(args[1].text, args[2].text) # {})))
StrStartsWith(args) == Texts(args, 2, Ok(Bool(OccursAt(args[1].text, args[2].text, 1))))
StrEndsWith(args) == Texts(args, 2, Ok(Bool(IsSuffix(args[2].text, args[1].text))))

\* Variant of StrIndexOf: the place is counted in characters.
StrIndexOfChars(args) ==
  Texts(args, 2, LET places == Places(args[1].text, args[2].text) IN
                 Ok(Number(IF places = {} THEN -1 ELSE Min(places) - 1)))

\* The place is counted in bytes.
StrIndexOf(args) ==
  Texts(args, 2, LET places == Places(args[1].text, args[2].text) IN
                 Ok(Number(IF places = {} THEN -1
                           ELSE Bytes(SubSeq(args[1].text, 1, Min(places) - 1)))))

-----------------------------------------------------------------------------
(* Lengths and parts *)

StrLen(args) == Texts(args, 1, Ok(Number(Bytes(args[1].text))))
AnyLen(args) == IF Fits(args, <<"list">>) THEN Ok(Number(Len(args[1].list))) ELSE StrLen(args)

\* From and to are places between characters.
StrSlice(args) ==
  Given(args, <<"text", "int", "int">>,
        Ok(Text(SubSeq(args[1].text, Clip(args[2].int) + 1,
                       Lesser(Clip(args[3].int), Len(args[1].text))))))

StrConcat(args) == Texts(args, 2, Ok(Text(args[1].text \o args[2].text)))
StrRepeat(args) ==
  Given(args, <<"text", "int">>,
        Ok(Text(FlattenSeq([i \in 1 .. Clip(args[2].int) |-> args[1].text]))))
StrChars(args) == First(args, "text", Ok(TextList([i \in DOMAIN args[1].text |-> <<args[1].text[i]>>])))

\* The first character of the pad, as often as it takes.
Padding(s, width, pad) ==
  [i \in 1 .. Clip(width - Len(s)) |-> IF pad = <<>> THEN " " ELSE pad[1]]
StrPadLeft(args) ==
  Given(args, <<"text", "int", "text">>,
        Ok(Text(Padding(args[1].text, args[2].int, args[3].text) \o args[1].text)))
StrPadRight(args) ==
  Given(args, <<"text", "int", "text">>,
        Ok(Text(args[1].text \o Padding(args[1].text, args[2].int, args[3].text))))

StrTrim(args) ==
  Texts(args, 1,
        LET s == args[1].text
            ink == {i \in DOMAIN s : s[i] \notin Space} IN
        Ok(Text(IF ink = {} THEN <<>> ELSE SubSeq(s, Min(ink), Max(ink)))))

\* The last line may lack its end; \r goes with \n.
StrSplitLines(args) ==
  Texts(args, 1,
        LET lines == Pieces(args[1].text, <<"\n">>)
            bare(l) == IF IsSuffix(<<"\r">>, l) THEN Front(l) ELSE l
            n == Len(lines) IN
        Ok(TextList([i \in 1 .. (n - 1) |-> bare(lines[i])]
                      \o (IF lines[n] = <<>> THEN <<>> ELSE <<lines[n]>>))))

-----------------------------------------------------------------------------
(* Letters, numbers and formats *)

StrUpper(args) ==
  First(args, "text", Ok(Text(FlattenSeq([i \in DOMAIN args[1].text |->
    LET c == args[1].text[i] IN IF c \in DOMAIN UpperOf THEN UpperOf[c] ELSE <<c>>]))))
StrToLower(args) ==
  Texts(args, 1, Ok(Text([i \in DOMAIN args[1].text |->
    LET c == args[1].text[i] IN IF c \in DOMAIN LowerOf THEN LowerOf[c] ELSE c])))

DigitChars == <<"0", "1", "2", "3", "4", "5", "6", "7", "8", "9">>
RECURSIVE Decimal(_)
Decimal(n) ==
  IF n < 0 THEN <<"-">> \o Decimal(-n)
  ELSE IF n < 10 THEN <<DigitChars[n + 1]>>
  ELSE Append(Decimal(n \div 10), DigitChars[(n % 10) + 1])

StrFromInt(args) == First(args, "int", Ok(Text(Decimal(args[1].int))))
IntToStrPadded(args) ==
  Given(args, <<"int", "int", "text">>,
        LET s == Decimal(args[1].int) IN
        \* The width of a negative number is a usize: no text is that long.
        IF args[2].int < 0 THEN Panic
        ELSE Ok(Text(Padding(s, args[2].int, args[3].text) \o s)))

\* What a value is inserted as; of others than text, numbers and truth values what
\* the debugger would print (left out).
Inserted(v) == CASE Is("text", v) -> v.text
                 [] Is("int", v) -> Decimal(v.int)
                 [] Is("bool", v) -> <<Word(v.bool)>>

KeysInOrder(m) == SetToSortSeq(DOMAIN m, LAMBDA j, k : Code(j) < Code(k))

\* The keys are replaced one after the other, in what was inserted before, too.
StrFormat(args) ==
  Given(args, <<"text", "rec">>,
        Ok(Text(FoldLeft(LAMBDA out, k : Glue(Pieces(out, <<"{", k, "}">>), Inserted(args[2].rec[k])),
                         args[1].text, KeysInOrder(args[2].rec)))))

-----------------------------------------------------------------------------
(* Paths *)

Rooted(s) == IsPrefix(<<"/">>, s)

\* The parts of a path as Rust sees them: empty ones do not count, nor does "." but
\* at the start of a relative path.
Components(s) ==
  LET parts == Pieces(s, <<"/">>) IN
  FoldLeft(LAMBDA cs, i : IF parts[i] = <<>> \/ (parts[i] = <<".">> /\ (i > 1 \/ Rooted(s)))
                          THEN cs ELSE Append(cs, parts[i]),
           <<>>, [i \in DOMAIN parts |-> i])

PathBase(args) ==
  Texts(args, 1,
        LET cs == Components(args[1].text) IN
        Ok(Text(IF cs = <<>> \/ (cs # <<>> /\ cs[Len(cs)] \in {<<".">>, <<".", ".">>})
                THEN <<>> ELSE cs[Len(cs)])))

\* All components but the last one.  (The separators between the others are kept as
\* they are written; here there is one between two.)
PathDir(args) ==
  Texts(args, 1,
        LET cs == Components(args[1].text) IN
        Ok(Text(IF cs = <<>> THEN <<".">>
                ELSE (IF Rooted(args[1].text) THEN <<"/">> ELSE <<>>) \o Glue(Front(cs), <<"/">>))))

PathIsAbs(args) == Texts(args, 1, Ok(Bool(Rooted(args[1].text))))

\* A rooted path replaces what it is joined to.
Push(p, s) ==
  IF Rooted(s) THEN s
  ELSE p \o (IF p = <<>> \/ IsSuffix(<<"/">>, p) THEN <<>> ELSE <<"/">>) \o s
PathJoin(args) == Texts(args, 2, Ok(Text(Push(args[1].text, args[2].text))))
PathJoinAll(args) ==
  Given(args, <<"list">>, Then(Each(args[1].list, <<>>, LAMBDA p, part :
    IF Is("text", part) THEN Ok(Push(p, part.text)) ELSE Err("bad argument")), LAMBDA p : Ok(Text(p))))

\* ".." takes the part before it away, if there is one.
PathNormalize(args) ==
  Texts(args, 1,
        LET step(ps, c) == IF c \in {<<>>, <<".">>} THEN ps
                           ELSE IF c = <<".", ".">> THEN (IF ps = <<>> THEN ps ELSE Front(ps))
                           ELSE Append(ps, c)
            ps == FoldLeft(step, <<>>, Pieces(args[1].text, <<"/">>)) IN
        Ok(Text((IF Rooted(args[1].text) THEN <<"/">> ELSE <<>>) \o Glue(ps, <<"/">>))))

\* What std/fs writes to, deletes and creates: a relative path without "..".
FsSandboxCheck(s) == ~Rooted(s) /\ <<".", ".">> \notin Range(Components(s))
=============================================================================
