------------------------------ MODULE FrontEnds ------------------------------
(***************************************************************************)
(* A source is written piece by piece and read by the interpreter, the type *)
(* checker and the wasm compiler.                                           *)
(***************************************************************************)
EXTENDS Syntax

CONSTANTS Letter, Digit, DigitOf(_), Width, \* for the lexers
          Pieces, MaxPieces,                \* what a source of characters is written from
          Operands, Around, MaxAround,      \* what an expression is written from: a start, and what is put around it
          Lines, MaxLines                   \* the lines of a module

Lx == INSTANCE Lexers
Ck == INSTANCE ToolSyntax WITH Tool <- "check"
Wm == INSTANCE ToolSyntax WITH Tool <- "wasm"

VARIABLES kind, \* what is written: characters, an expression, or lines
          text  \* the pieces written so far

vars == <<kind, text>>

Init == kind \in {"chars", "expr", "lines"} /\ text = <<>>

Write(limit, pieces) == Len(text) < limit /\ \E p \in pieces : text' = Append(text, p)

Go ==
  /\ \/ kind = "chars" /\ Write(MaxPieces, Pieces)
     \/ kind = "expr" /\ text = <<>> /\ Write(1, Operands)
     \/ kind = "expr" /\ text # <<>> /\ Write(1 + MaxAround, Around)
     \/ kind = "lines" /\ Write(MaxLines, Lines)
  /\ UNCHANGED kind

\* The tools read what is written.
Read == kind # "read" /\ kind' = "read" /\ text' = <<>>

Next == Go \/ Read

Spec == Init /\ [][Next]_vars

----------------------------------------------------------------------------
(* Characters.                                                             *)

Chars == FlattenSeq(text)
From(toks, i) == Lx!Skip(Chars, IF i = 1 THEN 1 ELSE toks[i - 1].at)
Said(toks, i) == SubSeq(Chars, From(toks, i), toks[i].at - 1)

Spelled(x) == FoldLeft(LAMBDA a, c : a \o c, "", x)
\* An expression in a text must be one; of its literals it does not matter which they are.
WordOf(t) == IF t.k \in {"Word", "Sign"} THEN Spelled(t.x) ELSE CHOOSE w \in Ints : TRUE
InnerParses(t) == t.k = "Interp" => \A inner \in Range(t.x) : Expr(Source([i \in DOMAIN inner |-> WordOf(inner[i])]), 1).at # 0
Lexes(toks) == \A t \in Range(toks) : t.at # 0 /\ InnerParses(t)

\* What the tools are told of a token.
Told(t) == IF t.k = "Interp" THEN [k |-> "Str", x |-> <<>>]
           ELSE [k |-> IF t.x = <<"?">> THEN "Word" ELSE t.k, x |-> t.x]

\* A comment that starts with the sharp sign: it is the first sign of its line or behind a token.
HasSharp(toks) ==
  \E i \in 1..(Len(toks) + 1) :
     LET from == IF i = 1 THEN 1 ELSE toks[i - 1].at
     IN  \E k \in from..(From(toks, i) - 1) :
            /\ Chars[k] = "#"
            /\ \E j \in from..k : (j = from \/ Chars[j - 1] = "\n") /\ \A n \in j..(k - 1) : Chars[n] = " "

\* The tools read the tokens that the interpreter reads, unless there is a comment with a sharp sign, three points,
\* a stroke or a pipe, a number with an exponent, or one that wraps around.
LexersAgreeExactlyIf ==
  kind = "chars" /\ Lexes(Lx!LexAll(Chars, 1)) =>
     LET toks == Lx!LexAll(Chars, 1)
         tools == Lx!ToolTokens(Chars, 1)
         plain == /\ ~HasSharp(toks)
                  /\ \A i \in DOMAIN toks :
                        /\ toks[i].k = "Sign" => toks[i].x \notin {<<".", ".", ".">>, <<"|">>, <<"|", ">">>}
                        /\ toks[i].k = "Float" => "e" \notin Range(Said(toks, i))
                        /\ toks[i].k = "Int" => Lx!Value(Said(toks, i)) <= Lx!MaxInt
     IN  [i \in DOMAIN toks |-> Told(toks[i])] = [i \in DOMAIN tools |-> Told(tools[i])] <=> plain

----------------------------------------------------------------------------
(* Trees.                                                                  *)

\* A source as an expression or as a module.
ReadAs(words) == IF kind = "lines" THEN ParseModule(words) ELSE ParseExpr(words)

Fresh == "fresh"
\* The word at place i is no name: the source cannot be read with another name in its place.
IsNoName(words, i) == ReadAs([words EXCEPT ![i] = Fresh]).at = 0

Opens == {"(", "[", "{"}
Closes == {")", "]", "}"}
\* How many brackets that open from place i on are still open behind place k.
Depth(words, i, k) == Cardinality({j \in i..k : words[j] \in Opens}) - Cardinality({j \in i..k : words[j] \in Closes})
\* The places between the bracket at i and the one that closes it, and those of them that no inner bracket holds.
Inside(words, i) == {k \in (i + 1)..Len(words) : \A j \in i..k : Depth(words, i, j) > 0}
Directly(words, i) == {k \in Inside(words, i) : Depth(words, i, k) = 1 /\ words[k] \notin Closes}

\* A bracket behind what can be called or indexed.
Applies(words, i) == i > 1 /\ (words[i - 1] \in Closes \union Ints \union Strs \union DOMAIN Interps \union {"true", "false", "null"}
                               \/ IsIdent(words[i - 1]))

\* The places of a call's arguments without a name, if another has one.
Unnamed(words, i) ==
  LET starts == {i + 1} \union {k + 1 : k \in {j \in Directly(words, i) : words[j] = ","}}
      named == {k \in starts : k + 1 \in DOMAIN words /\ words[k + 1] = ":"}
      isCall == words[i] = "(" /\ Applies(words, i) /\ ~(i > 2 /\ words[i - 2] = "fn")
  IN  IF ~isCall \/ named = {} THEN {} ELSE {j \in Inside(words, i) : Max({k \in starts : k <= j}) \notin named}

Own == [own |-> TRUE]
AllNames(pats) == \A p \in Range(pats) : "bind" \in DOMAIN p /\ Ck!IsIdent(p.bind)

\* A tree of the interpreter as the tools should have it: texts say nothing, and arguments have no names.
RECURSIVE Plain(_)
Plain(e) ==
  LET Each(es) == [k \in DOMAIN es |-> Plain(es[k])]
      Second(es) == [k \in DOMAIN es |-> Plain(es[k][2])]
  IN  CASE DOMAIN e \intersect {"var", "lit", "bool", "null"} # {} -> e
        [] DOMAIN e \intersect {"str", "interp"} # {} -> [str |-> ""]
        [] "unary" \in DOMAIN e -> [e EXCEPT !.arg = Plain(e.arg)]
        [] "op" \in DOMAIN e -> [e EXCEPT !.lhs = Plain(e.lhs), !.rhs = Plain(e.rhs)]
        [] "get" \in DOMAIN e -> [e EXCEPT !.get = Plain(e.get)]
        [] "index" \in DOMAIN e -> [index |-> Plain(e.index), by |-> Plain(e.by)]
        [] "call" \in DOMAIN e -> [call |-> Plain(e.call), args |-> Each(e.args)]
        [] "named" \in DOMAIN e -> [call |-> Plain(e.named), args |-> Second(e.args)]
        [] "list" \in DOMAIN e -> [list |-> Each(e.list)]
        [] "rec" \in DOMAIN e -> [rec |-> [k \in DOMAIN e.rec |-> <<e.rec[k][1], Plain(e.rec[k][2])>>]]
        [] "fn" \in DOMAIN e /\ AllNames(e.fn) -> [fn |-> [k \in DOMAIN e.fn |-> e.fn[k].bind], body |-> Plain(e.body)]
        [] "let" \in DOMAIN e -> [e EXCEPT !.val = Plain(e.val), !.body = Plain(e.body)]
        [] "cond" \in DOMAIN e -> [cond |-> Plain(e.cond), yes |-> Plain(e.yes), no |-> Plain(e.no)]
        [] OTHER -> Own

\* The trees that a tree is made of.
Kids(e) ==
  LET Second(es) == [k \in DOMAIN es |-> es[k][2]]
  IN  CASE "unary" \in DOMAIN e -> <<e.arg>>
        [] "op" \in DOMAIN e -> <<e.lhs, e.rhs>>
        [] "get" \in DOMAIN e -> <<e.get>>
        [] "index" \in DOMAIN e -> <<e.index, e.by>>
        [] "call" \in DOMAIN e -> <<e.call>> \o e.args
        [] "named" \in DOMAIN e -> <<e.named>> \o Second(e.args)
        [] "list" \in DOMAIN e -> e.list
        [] "rec" \in DOMAIN e -> Second(e.rec)
        [] DOMAIN e \intersect {"fn", "lambda"} # {} -> <<e.body>>
        [] "let" \in DOMAIN e -> <<e.val, e.body>>
        [] "cond" \in DOMAIN e -> <<e.cond, e.yes, e.no>>
        [] OTHER -> <<>>

\* The tools have a tree for all of e, if they had one for the kinds `more`: no match, using, while, return or ?, and what
\* is bound, and the keys of a record, are names for them, not patterns, texts or keywords.
RECURSIVE Known(_, _)
Known(e, more) ==
  /\ DOMAIN e \intersect ({"var", "lit", "bool", "null", "str", "interp", "unary", "op", "get", "index", "call", "named", "list", "rec",
                           "fn", "let", "cond"} \union more) # {}
  /\ "fn" \in DOMAIN e => AllNames(e.fn)
  /\ "let" \in DOMAIN e => Ck!IsIdent(e.let)
  /\ "rec" \in DOMAIN e => \A x \in Range(e.rec) : Ck!IsIdent(x[1])
  /\ \A x \in Range(Kids(e)) : Known(x, more)

RECURSIVE Indexes(_)
Indexes(e) == FoldLeft(LAMBDA n, x : n + Indexes(x), IF "index" \in DOMAIN e THEN 1 ELSE 0, Kids(e))

\* What the interpreter makes a tree of another kind from: pipes, sequences, loops over lists, a block behind then, and
\* patterns taken apart.
Sugar(words) ==
  \/ Range(words) \intersect {"|>", "|"} # {}
  \/ \E i \in DOMAIN words : words[i] = "for" /\ IsNoName(words, i)
  \/ \E i \in 1..(Len(words) - 1) : words[i] = "then" /\ OpensBlock([t |-> words], i + 1)
  \/ \E i \in 1..(Len(words) - 1) : words[i] = "let" /\ words[i + 1] \in {"{", "["}

\* The interpreter's tree e of the words is the tools' one too.
IsShared(words, e) ==
  /\ Known(e, {}) /\ ~Sugar(words)
  /\ \A i \in DOMAIN words : Unnamed(words, i) = {}
  /\ Indexes(e) = Cardinality({i \in DOMAIN words : words[i] = "[" /\ Applies(words, i)})

Words == FoldLeft(LAMBDA inner, w : w[1] \o inner \o w[2], Head(text), Tail(text))

ExprsAgree ==
  kind = "expr" /\ text # <<>> /\ ParseExpr(Words).at # 0 =>
     LET tree == ParseExpr(Words).tree
         toks == Ck!Tokens(Words)
         Agrees(r) == r.at = Len(toks) + 1 /\ r.tree = Plain(tree)
     IN  /\ Agrees(Ck!Expr(toks, 1)) <=> IsShared(Words, tree)
         /\ Agrees(Wm!Expr(toks, 1)) <=> IsShared(Words, tree)

\* The lines of a module, each followed by a line break.
Joined(lines) == FlattenSeq([k \in DOMAIN lines |-> Append(lines[k], "\n")])
\* Each line as the interpreter reads it when it stands alone.
Alone == [line \in Lines |-> ParseModule(line)]
Stand == \A line \in Range(text) : Alone[line].at # 0

\* What the tools keep of an item.
PlainItem(x) ==
  CASE "def" \in DOMAIN x -> IF x.ret = <<>> /\ \A p \in Range(x.params) : AllNames(<<p[1]>>) /\ p[2] = <<>>
                             THEN [def |-> x.def, params |-> [k \in DOMAIN x.params |-> x.params[k][1].bind], body |-> Plain(x.body)]
                             ELSE Own
    [] OTHER -> [x EXCEPT !.val = Plain(x.val)]
Kept(x, kinds) == "def" \in DOMAIN x \/ x.item \in kinds
IsItem(line, what) == LET x == Alone[line].tree[1] IN "item" \in DOMAIN x /\ x.item = what

\* Two lines that are not read as two lines when a blank stands between them.
Joins == {ab \in Lines \X {line \in Lines : line[1] \in {"(", "-", "["}} :
            ParseModule(ab[1] \o ab[2]).tree # Alone[ab[1]].tree \o Alone[ab[2]].tree}

\* The places that count characters lead to a line break in the bytes: the letters of two bytes before a line break shift
\* it by as many places as there are characters behind it.
BreakIsSeen(lines, k) ==
  LET Sum(F(_), from, to) == FoldLeft(LAMBDA n, w : n + F(w), 0, FlattenSeq(SubSeq(lines, from, to)))
  IN  \E m \in 1..k : Sum(LAMBDA w : Len(w) + 1, m + 1, k) = Sum(LAMBDA w : IF w \in Wide THEN 1 ELSE 0, 1, m)

\* Line k + 1 is read as a part of line k.
Continues(lines, k) == <<lines[k], lines[k + 1]>> \in Joins /\ (lines[k + 1][1] = "[" => ~BreakIsSeen(lines, k))

\* For the tools a let goes on where the next line starts with a bracket: they do not see the line break.
GoesOn(lines, k) ==
  lines[k + 1][1] = "[" /\ ~Continues(lines, k) /\ \E n \in 1..k : lines[n][1] = "let" /\ \A j \in n..(k - 1) : Continues(lines, j)

\* Of expressions only a let of a name is taken for an item, of the other lines only functions, lets and tests are read;
\* the compiler skips tests.
PlainLine(line, kinds) ==
  LET items == Alone[line].tree
      one == items[1]
  IN  CASE "def" \in DOMAIN one -> Len(items) = 1 /\ PlainItem(one) # Own /\ IsShared(line, one.body)
        [] IsItem(line, "expr") -> \A i \in 1..(Len(line) - 1) : line[i] = "let" => ~Ck!IsIdent(line[i + 1])
        [] OTHER -> one.item \in kinds => Len(items) = 1 /\ IsShared(line, one.val)

ItemsAgree ==
  kind = "lines" /\ Stand /\ (\A line \in Range(text) : IsItem(line, "expr") => Range(line) \intersect {"test", "import"} = {}) =>
     LET toks == Ck!Tokens(Joined(text))
         read == ParseModule(Joined(text))
         Want(kinds) == LET kept == SelectSeq(read.tree, LAMBDA x : Kept(x, kinds))
                        IN  [k \in DOMAIN kept |-> PlainItem(kept[k])]
         Agrees(r, kinds) == r.at # 0 /\ r.tree = Want(kinds)
         plain(kinds) == /\ \A line \in Range(text) : PlainLine(line, kinds)
                         /\ \A k \in 1..(Len(text) - 1) : ~GoesOn(text, k)
     IN  read.at # 0 => /\ Agrees(Ck!Program(toks, 1), {"let", "test"}) <=> plain({"let", "test"})
                        /\ Agrees(Wm!Program(toks, 1), {"let"}) <=> plain({"let"})


----------------------------------------------------------------------------
(* What is dropped, what never ends, and what stands alone.                *)

Says(w) == w \in Ints \union Strs \/ (IsIdent(w) /\ w \notin {"_", "for", "do"})
Another(w) == CASE w \in Ints -> CHOOSE v \in Ints : v # w [] w \in Strs -> CHOOSE v \in Strs : v # w [] OTHER -> Fresh
\* A name, a number or a text for which another could stand: the tree would be the same.
Loses(words) ==
  LET read == ReadAs(words)
  IN  read.at # 0 /\ \E i \in DOMAIN words : Says(words[i]) /\ ReadAs([words EXCEPT ![i] = Another(words[i])]) = read

\* A let that an in belongs to.
HasIn(words, i) ==
  \E k \in i..Len(words) :
     LET level == {j \in i..k : Depth(words, i, j) = 0}
     IN  /\ k \in level /\ \A j \in i..k : Depth(words, i, j) >= 0
         /\ words[k] = "in"
         /\ Cardinality({j \in level : words[j] = "in"})
              = Cardinality({j \in level : words[j] \in {"let", "using", "for"} /\ IsNoName(words, j)})

\* What a let without in drops at place k of a pattern that opens at place i.
DropsAt(words, i, k) ==
  \/ words[i] = "["
  \/ words[i] = "{" /\ (k \notin Directly(words, i) \/ words[k - 1] = "..." \/ ~IsIdent(words[k]))

Drops(words) ==
  \/ \E i \in DOMAIN words : \E k \in Unnamed(words, i) : Says(words[k])
  \/ \E i \in DOMAIN words :
        /\ words[i] = "let" /\ words[i + 1] \in {"{", "["} /\ ~HasIn(words, i)
        /\ \E k \in Inside(words, i + 1) : Says(words[k]) /\ DropsAt(words, i + 1, k)

\* Every name, number and text that is written is read unless a call has arguments with and without a name - those
\* without are dropped - or a let without in has a pattern: the elements of a list, the name of the rest of a record,
\* and what stands for a field unless it is a name - a literal, or a pattern of its own - are dropped.  (An expression has
\* one construct less here than elsewhere.)
NothingIsLostExactlyIf ==
  [][/\ Read /\ kind = "expr" /\ Len(text) \in 1..MaxAround =>
          LET words == Words IN Loses(words) <=> (Drops(words) /\ ParseExpr(words).at # 0)
     /\ Read /\ kind = "lines" /\ Len(text) = 1 /\ Alone[text[1]].at # 0 /\ text[1][1] \in {"let", "fn"} =>
          (Loses(text[1]) <=> Drops(text[1]))]_vars

\* A bracket that holds arguments or the elements of a list; a brace that holds fields.
Catches(words, i) == (words[i] = "(" /\ Applies(words, i)) \/ (words[i] = "[" /\ ~Applies(words, i))
IsRecord(words, i) == words[i] = "{" /\ (i = 1 \/ words[i - 1] # ")")


=============================================================================
