-------------------------------- MODULE Syntax --------------------------------
(***************************************************************************)
(* The parser of the interpreter (src/bin/fardrun.rs, from_src to           *)
(* parse_primary).                                                          *)
(*                                                                         *)
(* A source is a sequence of words with one blank between them; "\n" stands *)
(* where a line break is instead.  Words become tokens with their places    *)
(* (Source).  A parser yields what it read and the place behind it,         *)
(* [tree, at]; at = 0 means that it failed.  A tree is a record whose       *)
(* fields tell its kind.                                                    *)
(***************************************************************************)
EXTENDS Integers, SequencesExt, TLC

CONSTANTS Ints,    \* the words that are integer literals
          Strs,    \* the words that are text literals
          Wide,    \* the text literals with one letter of two bytes
          RunIds,  \* the text literals that start with sha256:
          Interps  \* the words that are texts with an expression in them, and the words of the expression

ASSUME TextWords == Wide \subseteq Strs /\ RunIds \subseteq Strs /\ DOMAIN Interps \intersect Strs = {}

Kws == {"let", "in", "fn", "if", "then", "else", "import", "as", "export", "match", "test", "while", "return",
        "using", "true", "false", "null"}
Syms == {"(", ")", "{", "}", "[", "]", ",", ":", ".", "+", "-", "*", "/", "=", "%", "|", "<", ">", "?", "!",
         "...", "||", "!=", "==", "<=", ">=", "&&", "->", "=>", "|>"}


\* The tokens with their places, which count characters, and the places of line breaks, which count bytes.
SpansOf(words) ==
  LET Next(acc, w) ==
        LET to == acc.c + Len(w)
            wide == IF w \in Wide THEN 1 ELSE 0
        IN  IF w = "\n" THEN [acc EXCEPT !.breaks = acc.breaks \union {acc.b - 1}]
            ELSE [acc EXCEPT !.c = to + 1, !.b = acc.b + Len(w) + wide + 1,
                             !.t = Append(acc.t, [w |-> w, from |-> acc.c, to |-> to])]
  IN  FoldLeft(Next, [c |-> 0, b |-> 0, t |-> <<>>, breaks |-> {}], words)

\* The tokens, and before which of them the parser finds a line break.
Source(words) ==
  LET spans == SpansOf(words)
  IN  [t |-> [i \in DOMAIN spans.t |-> spans.t[i].w],
       nl |-> {i \in DOMAIN spans.t \ {1} : \E k \in spans.breaks : k \in spans.t[i-1].to..(spans.t[i].from - 1)}]

Tok(s, i) == IF i \in DOMAIN s.t THEN s.t[i] ELSE "eof"
IsIdent(t) == t \notin Kws \union Syms \union Ints \union Strs \union DOMAIN Interps \union {"eof"}
IsName(t) == IsIdent(t) \/ t \in Kws

Got(tree, at) == [tree |-> tree, at |-> at]
Fail == Got(<<>>, 0)

Expect(s, i, want) == IF i # 0 /\ Tok(s, i) = want THEN i + 1 ELSE 0

----------------------------------------------------------------------------
(* Trees.                                                                  *)

Var(x) == [var |-> x]
Get(e, name) == [get |-> e, name |-> name]
Let(x, val, body) == [let |-> x, val |-> val, body |-> body]
Call(f, args) == [call |-> f, args |-> args]
OfList(f, xs, pat, body) == Call(Get(Var("list"), f), <<xs, [fn |-> <<pat>>, body |-> body]>>)

\* A list without what ends in "...", and that name.
Listed(items) == SelectSeq(items, LAMBDA x : "rest" \notin DOMAIN x)
Rest(items) == IF items # <<>> /\ "rest" \in DOMAIN Last(items) THEN Last(items).rest ELSE <<>>

\* The names a pattern binds, in their order.
RECURSIVE Binds(_)
Binds(p) ==
  LET Inner(items, Of(_)) == FoldLeft(LAMBDA acc, x : acc \o Binds(Of(x)), <<>>, items)
  IN  CASE "bind" \in DOMAIN p -> <<p.bind>>
        [] "obj" \in DOMAIN p -> Inner(p.obj, LAMBDA x : x.sub) \o p.rest
        [] "pats" \in DOMAIN p -> Inner(p.pats, LAMBDA x : x) \o p.rest
        [] OTHER -> <<>>

\* let {a, b: c} = e in a block: a name for the whole and one for each field; the rest has none.
\* A list is not taken apart, and e is there twice.
Fields(tmp, pat) ==
  [k \in DOMAIN pat.obj |-> LET f == pat.obj[k]
                            IN  <<IF "bind" \in DOMAIN f.sub THEN f.sub.bind ELSE f.key, Get(Var(tmp), f.key)>>]
Destructured(pat, rhs, body) ==
  IF "obj" \in DOMAIN pat
  THEN Let("__destruct_tmp__", rhs, FoldRight(LAMBDA f, e : Let(f[1], f[2], e), Fields("__destruct_tmp__", pat), body))
  ELSE Let("__destruct__", rhs, Let("_", rhs, body))

\* Variant of Applied: the positional arguments of a call with named ones are kept.
AppliedAll(f, args) ==
  IF \E a \in Range(args) : "name" \in DOMAIN a
  THEN [named |-> f, args |-> [i \in DOMAIN args |-> <<IF "name" \in DOMAIN args[i] THEN args[i].name ELSE "", args[i].arg>>]]
  ELSE Call(f, [i \in DOMAIN args |-> args[i].arg])

\* A call with one named argument has only its named ones.
Applied(f, args) ==
  LET named == SelectSeq(args, LAMBDA a : "name" \in DOMAIN a)
  IN  IF named # <<>> THEN [named |-> f, args |-> [i \in DOMAIN named |-> <<named[i].name, named[i].arg>>]]
      ELSE Call(f, [i \in DOMAIN args |-> args[i].arg])

\* x |> f(a) is f(x, a); x |> e is e(x).
Piped(x, rhs) == IF "call" \in DOMAIN rhs THEN Call(rhs.call, <<x>> \o rhs.args) ELSE Call(rhs, <<x>>)

\* fn f(a, b = d) { e }: the whole function, and one that calls it with null for what has a default.
WithDefaults(name, params, ret, body) ==
  LET late == SelectSeq(params, LAMBDA p : "default" \in DOMAIN p)
      plain(ps) == [k \in DOMAIN ps |-> <<ps[k].pat, ps[k].type>>]
      few == SubSeq(params, 1, Len(params) - Len(late))
      given == [k \in DOMAIN few |-> IF "bind" \in DOMAIN few[k].pat THEN Var(few[k].pat.bind) ELSE [null |-> TRUE]]
      Wrap(p, e) ==
        LET b == p.pat.bind
        IN  Let(b, [cond |-> [op |-> "==", lhs |-> Var(b), rhs |-> [null |-> TRUE]], yes |-> p.default, no |-> Var(b)], e)
      whole == [def |-> name, params |-> plain(params), ret |-> ret, body |-> FoldRight(Wrap, late, body)]
  IN  IF late = <<>> THEN <<whole>>
      ELSE <<whole, [def |-> name \o "__d" \o ToString(Len(few)), params |-> plain(few), ret |-> <<>>,
                     body |-> Call(Var(name), given \o [k \in DOMAIN late |-> [null |-> TRUE]])]>>

\* Binding strength of the infix operators; all associate to the left.
Prec == [op \in {"||"} |-> 1] @@ [op \in {"&&"} |-> 2] @@ [op \in {"==", "!=", "<", ">", "<=", ">="} |-> 3]
        @@ [op \in {"+", "-"} |-> 4] @@ [op \in {"*", "/", "%"} |-> 5]

----------------------------------------------------------------------------
(* Parsers.                                                                *)

RECURSIVE Phrase(_, _, _), Item(_, _, _), Items(_, _, _, _, _), TypeFrom(_, _), PatFrom(_, _), Block(_, _), Sequel(_, _),
          Expr(_, _), Infix(_, _, _), MoreInfix(_, _, _), Unary(_, _), Pipe(_, _), Postfix(_, _), Primary(_, _)

\* What is read one after the other: signs and keywords as they are, the parts named in capitals as trees.
Parts == {"EXPR", "BLOCK", "BRANCH", "PAT", "TYPE", "NAME", "TEXT", "ARMS"}
Phrase(s, i, parts) ==
  IF parts = <<>> \/ i = 0 THEN Got(<<>>, i)
  ELSE LET p == Head(parts)
           one == IF p \in Parts THEN Item(s, i, p) ELSE Got(<<>>, Expect(s, i, p))
           more == Phrase(s, one.at, Tail(parts))
       IN  IF more.at = 0 THEN Fail
           ELSE Got(IF p \in Parts THEN <<one.tree>> \o more.tree ELSE more.tree, more.at)

\* One item or more between commas up to the closing sign, which is eaten.
Items(s, i, what, close, mayTrail) ==
  LET item == Item(s, i, what)
      next == item.at + 1
      more == Items(s, next, what, close, mayTrail)
      last == what \in {"field", "elem"} /\ Tok(s, i) = "..."
  IN  IF item.at = 0 THEN Fail
      ELSE IF Tok(s, item.at) = close THEN Got(<<item.tree>>, next)
      ELSE IF Tok(s, item.at) # "," \/ last THEN Fail
      ELSE IF mayTrail /\ Tok(s, next) = close THEN Got(<<item.tree>>, next + 1)
      ELSE IF more.at = 0 THEN Fail ELSE Got(<<item.tree>> \o more.tree, more.at)

ListOf(s, i, what, close, mayTrail) ==
  IF i = 0 THEN Fail ELSE IF Tok(s, i) = close THEN Got(<<>>, i + 1) ELSE Items(s, i, what, close, mayTrail)

\* The fields of a declared type stand with or without commas.
RECURSIVE DeclFields(_, _, _)
DeclFields(s, i, close) ==
  LET f == Phrase(s, i, <<"NAME", ":", "NAME">>)
      more == DeclFields(s, IF Tok(s, f.at) = "," THEN f.at + 1 ELSE f.at, close)
  IN  IF Tok(s, i) = close THEN Got(<<>>, i + 1)
      ELSE IF f.at = 0 \/ more.at = 0 THEN Fail ELSE Got(<<f.tree>> \o more.tree, more.at)

\* A block behind then: where let, return or a closing brace follows the brace; else a record.
OpensBlock(s, i) == Tok(s, i) = "{" /\ Tok(s, i + 1) \in {"let", "return", "}"}

\* Made of the parts of a phrase that was read.
Made(r, Tree(_)) == IF r.at = 0 THEN Fail ELSE Got(Tree(r.tree), r.at)

Item(s, i, what) ==
  LET t == Tok(s, i)
  IN
  CASE what \in {"EXPR", "expr"} -> Expr(s, i)
    [] what = "BLOCK" -> Block(s, i)
    [] what = "BRANCH" -> IF OpensBlock(s, i) THEN Made(Phrase(s, i, <<"{", "BLOCK", "}">>), LAMBDA r : r[1]) ELSE Expr(s, i)
    [] what \in {"PAT", "pat"} -> PatFrom(s, i)
    [] what \in {"TYPE", "type"} -> TypeFrom(s, i)
    [] what \in {"NAME", "name"} -> IF IsIdent(t) THEN Got(t, i + 1) ELSE Fail
    [] what = "TEXT" -> IF t \in Strs THEN Got(t, i + 1) ELSE Fail
    [] what = "ARMS" -> IF t = "{" THEN ListOf(s, i + 1, "arm", "}", TRUE) ELSE Fail
    [] what = "arm" ->
         LET pat == PatFrom(s, i)
             guard == Expr(s, pat.at + 1)
         IN  IF pat.at # 0 /\ Tok(s, pat.at) = "if"
             THEN Made(Phrase(s, guard.at, <<"=>", "EXPR">>), LAMBDA r : [pat |-> pat.tree, guard |-> guard.tree, body |-> r[1]])
             ELSE Made(Phrase(s, pat.at, <<"=>", "EXPR">>), LAMBDA r : [pat |-> pat.tree, body |-> r[1]])
    [] what = "arg" ->
         IF IsIdent(t) /\ Tok(s, i + 1) = ":" THEN Made(Expr(s, i + 2), LAMBDA e : [name |-> t, arg |-> e])
         ELSE Made(Expr(s, i), LAMBDA e : [arg |-> e])
    [] what = "entry" ->
         IF IsName(t) \/ t \in Strs THEN Made(Phrase(s, i + 1, <<":", "EXPR">>), LAMBDA r : <<t, r[1]>>) ELSE Fail
    [] what = "typed" -> Phrase(s, i, <<"NAME", ":", "TYPE">>)
    [] what \in {"field", "elem"} /\ t = "..." -> Made(Phrase(s, i + 1, <<"NAME">>), LAMBDA r : [rest |-> r])
    [] what = "field" /\ t # "..." ->
         IF ~IsIdent(t) THEN Fail
         ELSE IF Tok(s, i + 1) = ":" THEN Made(PatFrom(s, i + 2), LAMBDA p : [key |-> t, sub |-> p])
         ELSE Got([key |-> t, sub |-> [bind |-> t]], i + 1)
    [] what = "elem" /\ t # "..." -> PatFrom(s, i)
    [] what = "param" ->
         LET pat == PatFrom(s, i)
             next == Tok(s, pat.at)
         IN  CASE pat.at = 0 -> Fail
               [] pat.at # 0 /\ next = "=" /\ "bind" \in DOMAIN pat.tree ->
                    Made(Expr(s, pat.at + 1), LAMBDA e : [pat |-> pat.tree, type |-> <<>>, default |-> e])
               [] pat.at # 0 /\ next = ":" -> Made(TypeFrom(s, pat.at + 1), LAMBDA ty : [pat |-> pat.tree, type |-> <<ty>>])
               [] OTHER -> Got([pat |-> pat.tree, type |-> <<>>], pat.at)
    [] what = "variant" ->
         IF ~IsIdent(t) THEN Fail
         ELSE IF Tok(s, i + 1) = "(" THEN Made(DeclFields(s, i + 2, ")"), LAMBDA fs : <<t, fs>>)
         ELSE Got(<<t, <<>>>>, i + 1)

TypeFrom(s, i) ==
  LET t == Tok(s, i)
      args == ListOf(s, i + 2, "type", IF t = "Func" THEN ")" ELSE ">", FALSE)
  IN  CASE t = "(" -> Made(Phrase(s, i + 1, <<"TYPE", ")">>), LAMBDA r : r[1])
        [] t \in {"Int", "String", "Bool", "Unit", "Dynamic"} -> Got([type |-> t], i + 1)
        [] t = "List" -> Made(Phrase(s, i + 1, <<"<", "TYPE", ">">>), LAMBDA r : [type |-> t, of |-> r])
        [] t = "Rec" -> IF Tok(s, i + 1) # "{" THEN Fail
                        ELSE Made(ListOf(s, i + 2, "typed", "}", FALSE), LAMBDA fs : [type |-> t, fields |-> fs])
        [] t = "Func" ->
             IF Tok(s, i + 1) # "(" \/ args.at = 0 THEN Fail
             ELSE Made(Phrase(s, args.at, <<"->", "TYPE">>), LAMBDA r : [type |-> t, of |-> args.tree, to |-> r[1]])
        [] IsName(t) /\ t \notin {"Int", "String", "Bool", "Unit", "Dynamic", "List", "Rec", "Func"} ->
             IF Tok(s, i + 1) # "<" THEN Got([type |-> t], i + 1)
             ELSE Made(args, LAMBDA of : [type |-> t, of |-> of])
        [] OTHER -> Fail

\* A pattern must not bind one name twice.
PatFrom(s, i) ==
  LET t == Tok(s, i)
      p == CASE i = 0 -> Fail
             [] t \in {"true", "false", "null", "_"} \union Ints \union Strs -> Got([lit |-> t], i + 1)
             [] t = "{" -> Made(ListOf(s, i + 1, "field", "}", TRUE), LAMBDA r : [obj |-> Listed(r), rest |-> Rest(r)])
             [] t = "[" -> Made(ListOf(s, i + 1, "elem", "]", TRUE), LAMBDA r : [pats |-> Listed(r), rest |-> Rest(r)])
             [] IsName(t) /\ t \notin {"true", "false", "null", "_"} -> Got([bind |-> t], i + 1)
             [] OTHER -> Fail
  IN  IF p.at = 0 \/ ~IsInjective(Binds(p.tree)) THEN Fail ELSE p

\* Lets without in, then an expression; `e | f` runs e and then f.
Block(s, i) ==
  LET name == Tok(s, i + 1)
      isPat == name \in {"{", "["}
      bound == Phrase(s, i, <<"let", IF isPat THEN "PAT" ELSE "NAME", "=", "EXPR">>)
      next == Tok(s, bound.at)
      more == CASE bound.at = 0 -> Fail
                [] bound.at # 0 /\ ~isPat /\ next = "in" -> Expr(s, bound.at + 1)
                [] bound.at # 0 /\ ~isPat /\ next = "|" /\ Tok(s, bound.at + 1) # "|" -> Block(s, bound.at + 1)
                [] OTHER -> Block(s, bound.at)
  IN  IF Tok(s, i) # "let" THEN Sequel(s, Expr(s, i))
      ELSE IF more.at = 0 THEN Fail
      ELSE Got(IF isPat THEN Destructured(bound.tree[1], bound.tree[2], more.tree)
               ELSE Let(bound.tree[1], bound.tree[2], more.tree), more.at)

Sequel(s, e) ==
  IF e.at = 0 \/ Tok(s, e.at) # "|" \/ Tok(s, e.at + 1) = "|" THEN e
  ELSE LET f == Expr(s, e.at + 1) IN IF f.at = 0 THEN Fail ELSE Sequel(s, Got(Let("_", e.tree, f.tree), f.at))

\* using, for, match, ... start an expression, but not an operand.
Expr(s, i) ==
  LET t == Tok(s, i)
      Read(parts, Tree(_)) == Made(Phrase(s, i + 1, parts), Tree)
  IN  CASE i = 0 -> Fail
        [] t = "using" -> Read(<<"PAT", "=", "EXPR", "in", "EXPR">>, LAMBDA r : [using |-> r[1], val |-> r[2], body |-> r[3]])
        [] t = "match" -> Read(<<"EXPR", "ARMS">>, LAMBDA r : [match |-> r[1], arms |-> r[2]])
        [] t = "let" -> Read(<<"PAT", "=", "EXPR", "in", "EXPR">>,
                             LAMBDA r : IF "bind" \in DOMAIN r[1] THEN Let(r[1].bind, r[2], r[3])
                                        ELSE [letpat |-> r[1], val |-> r[2], body |-> r[3]])
        [] t = "while" -> Read(<<"EXPR", "EXPR", "EXPR">>, LAMBDA r : [while |-> r[2], init |-> r[1], body |-> r[3]])
        [] t = "for" -> Read(<<"PAT", "in", "EXPR", "do", "EXPR">>, LAMBDA r : OfList("map", r[2], r[1], r[3]))
        [] t = "return" -> Read(<<"EXPR">>, LAMBDA r : [return |-> r[1]])
        [] t = "if" -> Read(<<"EXPR", "then", "BRANCH", "else", "EXPR">>, LAMBDA r : [cond |-> r[1], yes |-> r[2], no |-> r[3]])
        [] OTHER -> Infix(s, i, 0)

Infix(s, i, min) == MoreInfix(s, Unary(s, i), min)


MoreInfix(s, l, min) ==
  LET op == Tok(s, l.at)
      r == Infix(s, l.at + 1, Prec[op] + 1)
  IN  IF l.at = 0 \/ op \notin DOMAIN Prec \/ Prec[op] < min THEN l
      ELSE IF r.at = 0 THEN Fail ELSE MoreInfix(s, Got([op |-> op, lhs |-> l.tree, rhs |-> r.tree], r.at), min)

Unary(s, i) ==
  IF Tok(s, i) \in {"-", "!"} THEN Made(Unary(s, i + 1), LAMBDA e : [unary |-> Tok(s, i), arg |-> e])
  ELSE Pipe(s, Postfix(s, Primary(s, i)))

Pipe(s, e) ==
  IF e.at = 0 \/ Tok(s, e.at) # "|>" THEN e
  ELSE LET f == Postfix(s, Primary(s, e.at + 1)) IN IF f.at = 0 THEN Fail ELSE Pipe(s, Got(Piped(e.tree, f.tree), f.at))

\* A bracket behind a literal, a list or a record, or on a new line, starts another expression.
IsLiteral(e) == {"lit", "str", "list", "rec", "null", "bool"} \intersect DOMAIN e # {}
Postfix(s, e) ==
  LET t == Tok(s, e.at)
      args == ListOf(s, e.at + 1, "arg", ")", TRUE)
      by == Phrase(s, e.at + 1, <<"EXPR", "]">>)
  IN  CASE e.at # 0 /\ t = "?" -> Postfix(s, Got([try |-> e.tree], e.at + 1))
        [] e.at # 0 /\ t = "." -> IF IsIdent(Tok(s, e.at + 1)) THEN Postfix(s, Got(Get(e.tree, Tok(s, e.at + 1)), e.at + 2)) ELSE Fail
        [] e.at # 0 /\ t = "(" -> IF args.at = 0 THEN Fail ELSE Postfix(s, Got(Applied(e.tree, args.tree), args.at))
        [] e.at # 0 /\ t = "[" /\ ~IsLiteral(e.tree) /\ e.at \notin s.nl ->
             IF by.at = 0 THEN Fail ELSE Postfix(s, Got([index |-> e.tree, by |-> by.tree[1]], by.at))
        [] OTHER -> e

\* (a, b) => e, if that is what the parenthesis starts.
Lambda(s, i) ==
  LET names == ListOf(s, i + 1, "name", ")", FALSE)
  IN  IF Tok(s, i) = "(" /\ names.at # 0 /\ Tok(s, names.at) = "=>" THEN names ELSE Fail

\* [e for p in xs if c] filters xs and maps what is left.
Comprehension(s, first) ==
  LET from == Phrase(s, first.at, <<"for", "PAT", "in", "EXPR">>)
      where == Phrase(s, from.at, <<"if", "EXPR">>)
      filtered == IF from.at # 0 /\ Tok(s, from.at) = "if"
                  THEN Made(where, LAMBDA r : OfList("filter", from.tree[2], from.tree[1], r[1]))
                  ELSE Got(from.tree[2], from.at)
  IN  IF from.at = 0 THEN Fail
      ELSE Made(Got(filtered.tree, Expect(s, filtered.at, "]")), LAMBDA xs : OfList("map", xs, from.tree[1], first.tree))

Primary(s, i) ==
  LET t == Tok(s, i)
      names == Lambda(s, i)
      params == ListOf(s, i + 2, "pat", ")", TRUE)
      first == Expr(s, i + 1)
  IN  CASE IsIdent(t) /\ Tok(s, i + 1) = "=>" -> Made(Expr(s, i + 2), LAMBDA e : [lambda |-> <<[bind |-> t]>>, body |-> e])
        [] IsIdent(t) /\ Tok(s, i + 1) # "=>" -> Got(Var(t), i + 1)
        [] t = "(" -> IF names.at # 0
                      THEN Made(Expr(s, names.at + 1),
                                LAMBDA e : [lambda |-> [k \in DOMAIN names.tree |-> [bind |-> names.tree[k]]], body |-> e])
                      ELSE Made(Phrase(s, i + 1, <<"EXPR", ")">>), LAMBDA r : r[1])
        [] t = "fn" -> IF Tok(s, i + 1) # "(" \/ params.at = 0 THEN Fail
                       ELSE Made(Phrase(s, params.at, <<"{", "BLOCK", "}">>), LAMBDA r : [fn |-> params.tree, body |-> r[1]])
        [] t \in Ints -> Got([lit |-> t], i + 1)
        [] t \in Strs -> Got([str |-> t], i + 1)
        [] t \in DOMAIN Interps -> LET inner == Expr(Source(Interps[t]), 1) IN IF inner.at = 0 THEN Fail ELSE Got([interp |-> inner.tree], i + 1)
        [] t = "null" -> Got([null |-> TRUE], i + 1)
        [] t \in {"true", "false"} -> Got([bool |-> t], i + 1)
        [] t = "[" -> IF Tok(s, i + 1) # "]" /\ first.at # 0 /\ Tok(s, first.at) = "for" THEN Comprehension(s, first)
                      ELSE Made(ListOf(s, i + 1, "expr", "]", TRUE), LAMBDA es : [list |-> es])
        [] t = "{" -> Made(ListOf(s, i + 1, "entry", "}", TRUE), LAMBDA es : [rec |-> es])
        [] OTHER -> Fail

----------------------------------------------------------------------------
(* Modules.                                                                *)

\* let {a, b} = e at the top: an item for the whole and one for each field.
LetItems(pat, rhs) ==
  LET whole == [item |-> "let", name |-> "__destruct_top__", val |-> rhs]
      fields == Fields("__destruct_top__", pat)
  IN  IF "obj" \notin DOMAIN pat THEN <<whole>>
      ELSE <<whole>> \o [k \in DOMAIN fields |-> [item |-> "let", name |-> fields[k][1], val |-> fields[k][2]]]

RECURSIVE Variants(_, _)
Variants(s, i) ==
  LET v == Item(s, i, "variant")
      more == Variants(s, v.at + 1)
  IN  IF v.at = 0 \/ Tok(s, v.at) # "or" THEN Made(v, LAMBDA x : <<x>>)
      ELSE IF more.at = 0 THEN Fail ELSE Got(<<v.tree>> \o more.tree, more.at)

\* The items that one statement makes.  A let is an expression if it can be read as one.
ItemsFrom(s, i) ==
  LET t == Tok(s, i)
      Read(parts, Tree(_)) == Made(Phrase(s, i + 1, parts), Tree)
      expr == Expr(s, i)
      params == ListOf(s, i + 3, "param", ")", FALSE)
      ret == IF Tok(s, params.at) = "->" THEN Phrase(s, params.at + 1, <<"TYPE">>) ELSE Got(<<>>, params.at)
      body == Phrase(s, ret.at, <<"{", "BLOCK", "}">>)
  IN  CASE t = "test" -> Read(<<"TEXT", "{", "BLOCK", "}">>, LAMBDA r : <<[item |-> "test", name |-> r[1], val |-> r[2]]>>)
        [] t = "a" -> IF ~IsIdent(Tok(s, i + 1)) \/ Tok(s, i + 2) # "is" THEN Fail
                      ELSE Made(IF Tok(s, i + 3) = "{" THEN DeclFields(s, i + 4, "}") ELSE Variants(s, i + 3),
                                LAMBDA r : <<[item |-> "type", name |-> Tok(s, i + 1), of |-> r]>>)
        [] t = "import" -> Read(<<"(", "TEXT", ")", "as", "NAME">>, LAMBDA r : <<[item |-> "import", name |-> r[2], path |-> r[1]]>>)
        [] t = "artifact" -> LET r == Phrase(s, i + 1, <<"NAME", "=", "TEXT">>)
                             IN  IF r.at = 0 \/ (r.at # 0 /\ r.tree[2] \notin RunIds) THEN Fail
                                 ELSE Got(<<[item |-> "artifact", name |-> r.tree[1], run |-> r.tree[2]]>>, r.at)
        [] t = "export" -> IF Tok(s, i + 1) # "{" THEN Fail
                           ELSE Made(Items(s, i + 2, "name", "}", TRUE), LAMBDA r : <<[item |-> "export", names |-> r]>>)
        [] t = "fn" -> IF ~IsIdent(Tok(s, i + 1)) \/ Tok(s, i + 2) # "(" \/ params.at = 0 \/ ret.at = 0 THEN Fail
                       ELSE Made(body, LAMBDA r : WithDefaults(Tok(s, i + 1), params.tree, ret.tree, r[1]))
        [] t = "let" /\ expr.at = 0 ->
             IF Tok(s, i + 1) \in {"{", "["} THEN Read(<<"PAT", "=", "EXPR">>, LAMBDA r : LetItems(r[1], r[2]))
             ELSE Read(<<"NAME", "=", "EXPR">>, LAMBDA r : <<[item |-> "let", name |-> r[1], val |-> r[2]]>>)
        [] OTHER -> Made(expr, LAMBDA e : <<[item |-> "expr", val |-> e]>>)

RECURSIVE ModuleFrom(_, _)
ModuleFrom(s, i) ==
  LET one == ItemsFrom(s, i)
      more == ModuleFrom(s, one.at)
  IN  IF Tok(s, i) = "eof" THEN Got(<<>>, i)
      ELSE IF one.at = 0 \/ more.at = 0 THEN Fail
      ELSE Got(one.tree \o more.tree, more.at)

ParseModule(words) == ModuleFrom(Source(words), 1)
ParseExpr(words) == LET s == Source(words)
                        e == Expr(s, 1)
                    IN  IF Tok(s, e.at) = "eof" THEN e ELSE Fail
=============================================================================
