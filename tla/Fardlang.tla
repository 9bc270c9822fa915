------------------------------- MODULE Fardlang -------------------------------
(***************************************************************************)
(* A source of fardlang is written piece by piece, and read, printed,       *)
(* checked and run: what the lexer, the parser, the canonical form, the     *)
(* effect checker and the evaluator promise together.                       *)
(***************************************************************************)
EXTENDS FardEval

CONSTANTS Letter, Digit, \* for the lexer
          Bytes, MaxBytes,         \* the bytes that a source is written from
          Operators, MaxOperators, \* the infix operators that an expression is written from
          Declarations, MaxLines,  \* the lines <<place, line, kept?>> of a module
          Headers,                 \* by name: what is before main, [lines, uses]
          Phrases,                 \* what the body of main starts with
          Endings, MaxEndings,     \* what it goes on with
          Values, MaxValues        \* the values that are compared and put into lists

Lx == INSTANCE FardLex

VARIABLES kind, \* what is written: bytes, an expression, declarations, values, or main behind a header
          text  \* the pieces written so far

vars == <<kind, text>>

Init == /\ kind \in {"bytes", "chain", "lines", "values"} \union DOMAIN Headers
        /\ text = <<>>

Write(limit, pieces) == Len(text) < limit /\ \E p \in pieces : text' = Append(text, p)

Go ==
  /\ \/ kind = "bytes" /\ Write(MaxBytes, Bytes)
     \/ kind = "chain" /\ Write(MaxOperators, Operators)
     \/ kind = "lines" /\ Write(MaxLines, Declarations \ Range(text))
     \/ kind = "values" /\ Write(MaxValues, Values)
     \/ kind \in DOMAIN Headers /\ text = <<>> /\ Write(1, Phrases)
     \/ kind \in DOMAIN Headers /\ text # <<>> /\ Write(1 + MaxEndings, Endings)
  /\ UNCHANGED kind

\* What is written is read.
Read == kind # "read" /\ kind' = "read" /\ text' = <<>>

Next == Go \/ Read

Spec == Init /\ [][Next]_vars

----------------------------------------------------------------------------
(* Bytes.                                                                  *)

\* Two signs that the printer of tokens writes without a blank, and that the lexer takes together.
Fuses(p, t) == /\ p.k = "Sym" /\ t.k = "Sym" /\ {p.x, t.x} \intersect Lx!Tight = {}
               /\ Len(p.x) = 1 /\ <<p.x[1], t.x[1]>> \in Lx!TwoBytes \union {<<"/", "/">>}

Has(x, chars) == Range(x) \intersect chars # {}

\* The law of algebra.rs - tokens are read again as they were - holds unless two signs of the source fuse,
\* or it has the word Run, or a text with a quote, a backslash or a letter outside ASCII.
TokenLawHoldsExactlyIf ==
  kind = "bytes" /\ Lx!Lexes(Lx!Tokens(text)) =>
     LET toks == Lx!Tokens(text)
         plain == /\ \A i \in 1..(Len(toks) - 1) : ~Fuses(toks[i], toks[i + 1])
                  /\ \A i \in DOMAIN toks : /\ toks[i] # [k |-> "Kw", x |-> <<"R", "u", "n">>]
                                            /\ toks[i].k = "TextLit" => ~Has(toks[i].x, {"\"", "\\", "Hi"})
     IN  Lx!LawTokenRoundtrip(text) <=> plain

\* A literal in the canonical form (canon.rs prints it as Rust does) is read as the same literal unless a text
\* has a letter outside ASCII or a control character without a short escape, or bytes have a backslash.
LiteralsReadBack ==
  kind = "bytes" =>
     \A t \in Range(Lx!Tokens(text)) :
        t.k \in {"TextLit", "BytesLit"} =>
           ( Lx!Tokens(Lx!PrintLiteral(t)) = <<t, [k |-> "Eof", x |-> <<>>]>>
             <=> ~Has(t.x, IF t.k = "TextLit" THEN {"Hi", "bs", "\f"} ELSE {"\\", "\n", "\t", "\r"}) )

----------------------------------------------------------------------------
(* Expressions.                                                            *)

\* The weakest first.
ByStrength == <<{"||"}, {"&&"}, {"==", "<=", ">=", "<", ">"}, {"++", "+", "-"}, {"*", "/", "%"}>>
Strength(op) == CHOOSE n \in DOMAIN ByStrength : op \in ByStrength[n]

\* The operators from place i to place j of a chain: the weakest, of those the rightmost, is at the root.
RECURSIVE ByPrecedence(_, _, _)
ByPrecedence(ops, i, j) ==
  LET weakest == {k \in i..j : \A n \in i..j : Strength(ops[k]) <= Strength(ops[n])}
      root == Max(weakest)
  IN  IF i > j THEN [ident |-> "x"]
      ELSE [op |-> ops[root], lhs |-> ByPrecedence(ops, i, root - 1), rhs |-> ByPrecedence(ops, root + 1, j)]

Chain(ops) == <<"x">> \o FlattenSeq([i \in DOMAIN ops |-> <<ops[i], "x">>])

OneLine(line) == Source(<<line>>)

\* Operators without parentheses are read by their strength, and from left to right among equals
\* (parse_or to parse_mul, parse.rs:446-588): conjunctions over disjunctions, comparisons over conjunctions,
\* sums over comparisons, products over sums.
ParsesByPrecedence ==
  kind = "chain" =>
     ParseExpr(OneLine(Chain(text)), 1) = Got(ByPrecedence(text, 1, Len(text)), 2 * Len(text) + 2)

----------------------------------------------------------------------------
(* Declarations.                                                           *)

Order(lines) == SetToSortSeq(Range(lines), LAMBDA a, b : a[1] < b[1])
Lines(pieces) == << <<"module", "m">> >> \o Mapped(LAMBDA p : p[2], pieces)
Kept(pieces) == SelectSeq(pieces, LAMBDA p : p[3])

\* The canonical form is the same whatever the order of the declarations; it reads as a module with the same
\* declarations but for the imports of sources and the artifacts, of which nothing remains.
CanonIgnoresOrder ==
  kind = "lines" =>
     LET m(pieces) == ParseModule(Source(Lines(pieces)))
     IN  /\ m(text).at # 0
         /\ Canon(m(text).tree) = Canon(m(Order(text)).tree)
         /\ Reparsed(m(text).tree).tree = Reparsed(m(Kept(Order(text))).tree).tree
         /\ \A k \in DOMAIN NoDecls \ {"source_imports", "artifacts"} :
               Range(Reparsed(m(text).tree).tree.decls[k]) = Range(m(text).tree.decls[k])

----------------------------------------------------------------------------
(* Programs.                                                               *)

Program ==
  ParseModule(Source(<< <<"module", "m">> >> \o Headers[kind].lines
                     \o << <<"fn", "main", "(", ")">> \o Headers[kind].uses
                           \o <<"{">> \o FlattenSeq(text) \o <<"}">> >>))
IsProgram == kind \in DOMAIN Headers /\ text # <<>> /\ Program.at # 0

Operands(e) ==
  CASE "list" \in DOMAIN e -> e.list
    [] "fields" \in DOMAIN e -> Mapped(LAMBDA kv : kv[2], e.fields)
    [] "field" \in DOMAIN e -> <<e.base>>
    [] "neg" \in DOMAIN e -> <<e.neg>>
    [] "op" \in DOMAIN e -> <<e.lhs, e.rhs>>
    [] "call" \in DOMAIN e -> e.args
    [] "apply" \in DOMAIN e -> <<e.apply>> \o e.args
    [] "cond" \in DOMAIN e -> <<e.cond>>
    [] "match" \in DOMAIN e -> <<e.match>> \o Mapped(LAMBDA a : a.body, e.arms)
    [] "try" \in DOMAIN e -> <<e.try>>
    [] OTHER -> <<>>
Blocks(e) == CASE "cond" \in DOMAIN e -> <<e.then, e.else>> [] "params" \in DOMAIN e -> <<e.body>> [] OTHER -> <<>>
Items(b) == Mapped(LAMBDA st : IF "let" \in DOMAIN st THEN st.val ELSE st.do, b.stmts) \o b.tail

\* An expression and all inside it.
RECURSIVE Under(_)
Under(e) == <<e>> \o FlattenSeq(Mapped(Under, Operands(e) \o FlattenSeq(Mapped(Items, Blocks(e)))))
AllExprs(b) == FlattenSeq(Mapped(Under, Items(b)))
AllBlocks(b) == <<b>> \o FlattenSeq(Mapped(Blocks, AllExprs(b)))

IsTry(e) == "try" \in DOMAIN e
\* Nothing printed behind it becomes a part of it.
Closed(e) == IsTry(e) \/ "cond" \in DOMAIN e \/ "match" \in DOMAIN e \/ e = [list |-> <<>>]

\* The expressions whose printed form is read as the same expression ...
PlainExpr(e) ==
  /\ "call" \in DOMAIN e => Len(e.call) = 1
  /\ "field" \in DOMAIN e => ~Closed(e.base)
  /\ "apply" \in DOMAIN e => ~Closed(e.apply) /\ "field" \notin DOMAIN e.apply
  /\ "op" \in DOMAIN e \/ "neg" \in DOMAIN e \/ IsTry(e) => \A i \in DOMAIN Operands(e) : ~IsTry(Operands(e)[i])
\* ... and the blocks where no statement takes the parenthesis that the next one starts with for arguments.
PlainBlock(b) ==
  \A i \in 2..Len(Items(b)) :
     Closed(Items(b)[i - 1]) \/ (i \in DOMAIN b.stmts /\ "let" \in DOMAIN b.stmts[i]) \/ PrintExpr(Items(b)[i])[1] # "("

PlainModule(m) ==
  \A i \in DOMAIN m.decls["fns"] :
     LET body == m.decls["fns"][i].body
     IN  /\ \A e \in Range(AllExprs(body)) : PlainExpr(e)
         /\ \A b \in Range(AllBlocks(body)) : PlainBlock(b)

\* The second law of algebra.rs - the canonical form is read again and has the same canonical form - holds for
\* exactly the modules that are plain.
CanonReadsBackExactlyIf == IsProgram => (LawAstRoundtrip(Program.tree) <=> PlainModule(Program.tree))

\* A plain module means the same as its canonical form: the same result, the same effects in the same order -
\* unless it applies a name in parentheses, which must be a closure where a call may name a function.
CanonKeepsMeaning ==
  IsProgram =>
     LET m == Program.tree
         applied == {e \in Range(AllExprs(Main(m).body)) : "apply" \in DOMAIN e /\ "ident" \in DOMAIN e.apply}
         meaning(n) == LET o == RunMain(n, <<>>) IN <<o.r, o.io>>
     IN  PlainModule(m) /\ applied = {} => meaning(Reparsed(m).tree) = meaning(m)

\* The calls that the effect checker does not see as what they are.
Unchecked(b) ==
  {e.call : e \in {x \in Range(AllExprs(b)) : "call" \in DOMAIN x /\ Len(x.call) > 1}}
  \union UNION {{x.call : x \in {y \in Range(Under(e)) : "call" \in DOMAIN y}} :
                e \in {x \in Range(AllExprs(b)) : "list" \in DOMAIN x}}

\* A checked module calls no effect that main does not declare, except from the elements of a list or
\* by the alias of a namespace behind a pipe.
EffectsAreDeclared ==
  [][Read /\ IsProgram /\ ChecksModule(Program.tree) =>
       LET m == Program.tree
           io == RunMain(m, <<>>).io
           hidden == {IF Len(c) > 1 /\ c \in DOMAIN Aliases(m) THEN Aliases(m)[c] ELSE c : c \in Unchecked(Main(m).body)}
       IN  \A i \in DOMAIN io : io[i][1] \in Allowed(Main(m)) \union hidden]_vars

----------------------------------------------------------------------------
(* Values.                                                                 *)

RECURSIVE Inner(_)
Inner(v) == {v} \union CASE Is("list", v) -> UNION {Inner(v.list[i]) : i \in DOMAIN v.list}
                         [] Is("rec", v) -> UNION {Inner(v.rec[k]) : k \in DOMAIN v.rec}
                         [] OTHER -> {}

\* Equal but for floats that are not told apart: a NaN from any other, and the two zeros.
RECURSIVE Alike(_, _)
Alike(a, b) ==
  CASE Is("float", a) /\ Is("float", b) -> a = b \/ NaN \in {a, b} \/ {a, b} = {Halves(0), NegativeZero}
    [] Is("list", a) /\ Is("list", b) ->
         Len(a.list) = Len(b.list) /\ \A i \in DOMAIN a.list : Alike(a.list[i], b.list[i])
    [] Is("rec", a) /\ Is("rec", b) ->
         DOMAIN a.rec = DOMAIN b.rec /\ \A k \in DOMAIN a.rec : Alike(a.rec[k], b.rec[k])
    [] OTHER -> a = b

\* canon_cmp is an order of the values without a NaN, and only values that are alike are neither before nor behind
\* each other.  The doc at val.rs:105 calls it total over all values; a NaN, which is equal to floats that differ,
\* is what it is not transitive for.
OrderIsTotal ==
  kind = "values" =>
     \A i, j \in DOMAIN text :
        /\ CanonCmp(text[i], text[j]) = -CanonCmp(text[j], text[i])
        /\ CanonEq(text[i], text[j]) <=> Alike(text[i], text[j])
        /\ \A k \in DOMAIN text :
              /\ \A v \in {text[i], text[j], text[k]} : NaN \notin Inner(v)
              /\ CanonCmp(text[i], text[j]) <= 0 /\ CanonCmp(text[j], text[k]) <= 0
              => CanonCmp(text[i], text[k]) <= 0

Call(f, a) == EvalBuiltin(f, a).val
RECURSIVE Lossless(_)
Lossless(v) == /\ ~Is("bytes", v) /\ ~Is("err", v) /\ ~Is("float", v)
               /\ Is("list", v) => \A i \in DOMAIN v.list : Lossless(v.list[i])
               /\ Is("rec", v) => \A k \in DOMAIN v.rec : Lossless(v.rec[k])

\* The built-in functions agree with each other: on lists of these values, on maps, on texts as sequences of
\* characters, and JSON gives every value back but errors, bytes and floats.
BuiltinsAgree ==
  kind = "values" =>
     LET xs == List(text)
         n == Len(text)
     IN  /\ \A i \in -1..(n + 1) :
              /\ Call("list_concat", <<Call("list_slice", <<xs, Int_(0), Int_(i)>>), Call("list_slice", <<xs, Int_(i), Int_(n)>>)>>) = xs
              /\ i \notin 0..(n - 1) => Call("list_get", <<xs, Int_(i)>>) = Error("ERROR_OOB")
              /\ i \in 0..(n - 1) => Call("list_get", <<Call("list_reverse", <<xs>>), Int_(n - 1 - i)>>) = text[i + 1]
         /\ \A i \in DOMAIN text :
              LET v == text[i]
                  set == Call("map_set", <<Call("map_new", <<>>), Text(<<"a">>), v>>)
              IN  /\ Call("list_contains", <<xs, v>>) = Bool(TRUE)
                  /\ Call("map_get", <<set, Text(<<"a">>)>>) = v
                  /\ Call("map_keys", <<Call("map_delete", <<set, Text(<<"a">>)>>)>>) = List(<<>>)
                  /\ CanonEq(JsonToV(VToJson(v)), v) <=> Lossless(v)
                  /\ \A j \in DOMAIN text :
                        /\ Is("text", v) /\ Is("text", text[j]) =>
                              /\ Call("text_join", <<Call("text_split", <<v, text[j]>>), text[j]>>) = v
                              /\ Call("text_contains", <<v, text[j]>>)
                                 = Bool(text[j].text = <<>> \/ Len(Call("text_split", <<v, text[j]>>).list) > 1)
                        /\ Is("int", v) /\ Is("int", text[j]) /\ ~Is("err", Call("div", <<v, text[j]>>)) =>
                              Call("add", <<Call("mul", <<Call("div", <<v, text[j]>>), text[j]>>), Call("rem", <<v, text[j]>>)>>) = v

\* A source is read as its grammar says: its tokens and literals read back, and its operators bind by their strength.
SourcesReadBackExactlyIf == [][Read => TokenLawHoldsExactlyIf /\ LiteralsReadBack /\ ParsesByPrecedence]_vars

\* The canonical form names the module: it does not depend on the order of declarations, it is read back as the module
\* exactly if the module is plain, and then it means the same.
CanonNamesTheModule == [][Read => CanonIgnoresOrder /\ CanonReadsBackExactlyIf /\ CanonKeepsMeaning]_vars

\* The order of values is total but for NaN, and the built-in functions agree with it and with each other.
ValuesAgree == [][Read => OrderIsTotal /\ BuiltinsAgree]_vars
=============================================================================
