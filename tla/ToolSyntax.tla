------------------------------ MODULE ToolSyntax ------------------------------
(***************************************************************************)
(* The parsers of the type checker (src/bin/fardcheck.rs) and of the wasm   *)
(* compiler (src/bin/fardwasm.rs), which are two copies of one.  They never *)
(* report an error: what they do not know they skip.                        *)
(*                                                                         *)
(* A parser yields [tree, at]; at = 0 means that it never ends: it stays at *)
(* one token for ever.                                                      *)
(***************************************************************************)
EXTENDS Integers, SequencesExt

CONSTANTS Ints, Strs, Interps, Tool \* "check" or "wasm"

Keywords == {"let", "in", "fn", "if", "then", "else", "import", "as", "match", "while", "return", "test",
             "true", "false", "null"}
Signs == {"(", ")", "{", "}", "[", "]", ".", ",", ":", "=", "->", "=>", "+", "-", "*", "/", "%",
          "==", "!=", "<", ">", "<=", ">=", "&&", "||", "!"}

\* The words as their lexer reads them: a line break is blank, and some signs fall apart.
Tokens(words) ==
  LET Of(w) == CASE w = "\n" -> <<>> [] w = "|" -> <<"||">> [] w = "|>" -> <<"||", ">">>
                 [] w = "..." -> <<".", ".", ".">> [] OTHER -> <<w>>
  IN  FlattenSeq([i \in DOMAIN words |-> Of(words[i])])

Tok(s, i) == IF i \in DOMAIN s THEN s[i] ELSE "eof"
Text == Strs \union DOMAIN Interps
IsIdent(t) == t \notin Keywords \union Signs \union Ints \union Text \union {"eof"}

Got(tree, at) == [tree |-> tree, at |-> at]
Stuck == Got(<<>>, 0)
Made(r, Tree(_)) == IF r.at = 0 THEN Stuck ELSE Got(Tree(r.tree), r.at)

Eat(s, i) == IF i \in DOMAIN s THEN i + 1 ELSE i
EatIf(s, i, want) == IF i # 0 /\ Tok(s, i) = want THEN i + 1 ELSE i

\* The first place from i on with one of the tokens, or the end.
Seek(s, i, wants) == Min({j \in i..(Len(s) + 1) : j \notin DOMAIN s \/ Tok(s, j) \in wants})

Levels == <<{"||"}, {"&&"}, {"==", "!=", "<", ">", "<=", ">="}, {"+", "-"}, {"*", "/", "%"}>>
Null == [null |-> TRUE]

RECURSIVE Level(_, _, _), MoreLevel(_, _, _), Unary(_, _), Postfix(_, _), Args(_, _, _), Atom(_, _), Block(_, _), Record(_, _),
          Names(_, _, _)

Expr(s, i) == Level(s, i, 1)

Level(s, i, n) == IF n > Len(Levels) THEN Unary(s, i) ELSE MoreLevel(s, Level(s, i, n + 1), n)

MoreLevel(s, l, n) ==
  LET r == Level(s, l.at + 1, n + 1)
  IN  IF l.at = 0 \/ Tok(s, l.at) \notin Levels[n] THEN l
      ELSE IF r.at = 0 THEN Stuck
      ELSE MoreLevel(s, Got([op |-> Tok(s, l.at), lhs |-> l.tree, rhs |-> r.tree], r.at), n)

Unary(s, i) == IF Tok(s, i) \in {"!", "-"} THEN Made(Unary(s, i + 1), LAMBDA e : [unary |-> Tok(s, i), arg |-> e])
               ELSE Postfix(s, Atom(s, i))

Postfix(s, e) ==
  LET t == Tok(s, e.at)
      args == Args(s, e.at + 1, ")")
      by == Expr(s, e.at + 1)
      name == Tok(s, e.at + 1)
  IN  CASE e.at # 0 /\ t = "." -> Postfix(s, Got(IF IsIdent(name) THEN [get |-> e.tree, name |-> name] ELSE e.tree, Eat(s, e.at + 1)))
        [] e.at # 0 /\ t = "[" ->
             IF by.at = 0 THEN Stuck ELSE Postfix(s, Got([index |-> e.tree, by |-> by.tree], EatIf(s, by.at, "]")))
        [] e.at # 0 /\ t = "(" ->
             IF args.at = 0 THEN Stuck ELSE Postfix(s, Got([call |-> e.tree, args |-> args.tree], Eat(s, args.at)))
        [] OTHER -> e


\* The arguments, or the elements of a list, up to the closing sign; the names of arguments are skipped.
\* The checker does not move on from a token that starts no expression: it goes round for ever.
Args(s, i, close) ==
  LET from == IF close = ")" /\ IsIdent(Tok(s, i)) /\ Tok(s, i + 1) = ":" THEN i + 2 ELSE i
      arg == Expr(s, from)
      next == EatIf(s, arg.at, ",")
      more == Args(s, next, close)
  IN  IF Tok(s, i) \in {close, "eof"} THEN Got(<<>>, i)
      ELSE IF arg.at = 0 \/ next = i \/ more.at = 0 THEN Stuck
      ELSE Got(<<arg.tree>> \o more.tree, more.at)

\* Only a name and a colon make a field; all else up to the closing brace is skipped.
Record(s, i) ==
  LET e == Expr(s, i + 2)
      more == Record(s, EatIf(s, e.at, ","))
  IN  CASE Tok(s, i) \in {"}", "eof"} -> Got(<<>>, i)
        [] IsIdent(Tok(s, i)) /\ Tok(s, i + 1) = ":" ->
             IF e.at = 0 \/ more.at = 0 THEN Stuck ELSE Got(<<<<Tok(s, i), e.tree>>>> \o more.tree, more.at)
        [] IsIdent(Tok(s, i)) /\ Tok(s, i + 1) # ":" -> Record(s, Eat(s, i + 1))
        [] OTHER -> Record(s, i + 1)

\* The names up to the closing parenthesis, whatever stands between them.
Names(s, i, names) ==
  IF Tok(s, i) \in {")", "eof"} THEN Got(names, i)
  ELSE Names(s, EatIf(s, i + 1, ","), IF IsIdent(Tok(s, i)) THEN Append(names, Tok(s, i)) ELSE names)

Named(t) == IF IsIdent(t) THEN t ELSE "_"

\* let, a name, and what follows the next equals sign.
Bound(s, i) == Expr(s, Eat(s, Seek(s, Eat(s, i + 1), {"="})))

Atom(s, i) ==
  LET t == Tok(s, i)
      inner == Expr(s, i + 1)
      elems == Args(s, i + 1, "]")
      fields == Record(s, i + 1)
      params == Names(s, Eat(s, i + 1), <<>>)
      body == Block(s, Eat(s, Eat(s, params.at)))
      yes == Expr(s, EatIf(s, inner.at, "then"))
      no == Expr(s, EatIf(s, yes.at, "else"))
      val == Bound(s, i)
      rest == Expr(s, EatIf(s, val.at, "in"))
  IN  CASE t \in Ints -> Got([lit |-> t], i + 1)
        [] t \in {"true", "false"} -> Got([bool |-> t], i + 1)
        [] t \in Text -> Got([str |-> ""], i + 1)
        [] t = "null" -> Got(Null, i + 1)
        [] IsIdent(t) -> Got([var |-> t], i + 1)
        [] t = "(" -> IF inner.at = 0 THEN Stuck ELSE Got(inner.tree, EatIf(s, inner.at, ")"))
        [] t = "[" -> IF elems.at = 0 THEN Stuck ELSE Got([list |-> elems.tree], Eat(s, elems.at))
        [] t = "{" -> IF fields.at = 0 THEN Stuck ELSE Got([rec |-> fields.tree], Eat(s, fields.at))
        [] t = "fn" -> IF body.at = 0 THEN Stuck ELSE Got([fn |-> params.tree, body |-> body.tree], Eat(s, body.at))
        [] t = "if" -> IF 0 \in {inner.at, yes.at} THEN Stuck
                       ELSE Made(no, LAMBDA e : [cond |-> inner.tree, yes |-> yes.tree, no |-> e])
        [] t = "let" -> IF val.at = 0 THEN Stuck
                        ELSE Made(rest, LAMBDA e : [let |-> Named(Tok(s, i + 1)), val |-> val.tree, body |-> e])
        [] OTHER -> Got(Null, IF Tool = "wasm" THEN Eat(s, i) ELSE i)

\* Lets with or without in, then an expression.
Block(s, i) ==
  LET val == Bound(s, i)
      rest == Block(s, EatIf(s, val.at, "in"))
  IN  IF Tok(s, i) # "let" THEN Expr(s, i)
      ELSE IF val.at = 0 THEN Stuck
      ELSE Made(rest, LAMBDA e : [let |-> Named(Tok(s, i + 1)), val |-> val.tree, body |-> e])

----------------------------------------------------------------------------
(* Programs.                                                               *)

\* What stands behind the braces that are open.
RECURSIVE SkipBraces(_, _, _)
SkipBraces(s, i, depth) ==
  IF depth = 0 \/ i \notin DOMAIN s THEN i
  ELSE SkipBraces(s, i + 1, CASE s[i] = "{" -> depth + 1 [] s[i] = "}" -> depth - 1 [] OTHER -> depth)

\* The checker drops a statement at the sign it misses; the compiler goes on without it.
Missed(s, i, want) == Tool = "check" /\ Tok(s, i) # want

FnFrom(s, i) ==
  LET open == EatIf(s, i + 1, "(")
      params == Names(s, open, <<>>)
      brace == EatIf(s, params.at, ")")
      body == Block(s, EatIf(s, brace, "{"))
  IN  CASE ~IsIdent(Tok(s, i)) -> Got(<<>>, Eat(s, i))
        [] IsIdent(Tok(s, i)) /\ Missed(s, i + 1, "(") -> Got(<<>>, i + 1)
        [] IsIdent(Tok(s, i)) /\ Missed(s, params.at, ")") -> Got(<<>>, params.at)
        [] IsIdent(Tok(s, i)) /\ Missed(s, brace, "{") -> Got(<<>>, brace)
        [] OTHER -> IF body.at = 0 THEN Stuck
                    ELSE Got(IF Missed(s, body.at, "}") THEN <<>> ELSE <<[def |-> Tok(s, i), params |-> params.tree, body |-> body.tree]>>,
                             EatIf(s, body.at, "}"))

LetFrom(s, i) ==
  LET val == Expr(s, EatIf(s, i + 1, "="))
  IN  CASE ~IsIdent(Tok(s, i)) -> Got(<<>>, Eat(s, i))
        [] IsIdent(Tok(s, i)) /\ Missed(s, i + 1, "=") -> Got(<<>>, i + 1)
        [] OTHER -> Made(val, LAMBDA e : <<[item |-> "let", name |-> Tok(s, i), val |-> e]>>)

\* The compiler skips tests; the checker reads the body of one as an expression.
TestFrom(s, i) ==
  LET brace == EatIf(s, Eat(s, i), "{")
      body == Expr(s, brace)
  IN  IF Tool = "wasm" THEN Got(<<>>, SkipBraces(s, brace, 1))
      ELSE IF body.at = 0 THEN Stuck
      ELSE Got(<<[item |-> "test", name |-> IF Tok(s, i) \in Text THEN Tok(s, i) ELSE "", val |-> body.tree]>>, EatIf(s, body.at, "}"))

\* import skips to the name behind as.
ImportEnd(s, i) == Eat(s, Eat(s, Seek(s, i, {"as"})))

RECURSIVE Program(_, _)
Program(s, i) ==
  LET t == Tok(s, i)
      one == CASE t = "import" -> Got(<<>>, ImportEnd(s, i + 1))
               [] t = "test" -> TestFrom(s, i + 1)
               [] t = "let" -> LetFrom(s, i + 1)
               [] t = "fn" -> FnFrom(s, i + 1)
               [] OTHER -> Got(<<>>, i + 1)
      more == Program(s, one.at)
  IN  IF t = "eof" THEN Got(<<>>, i)
      ELSE IF one.at = 0 \/ more.at = 0 THEN Stuck
      ELSE Got(one.tree \o more.tree, more.at)
=============================================================================
