------------------------------ MODULE FardParse ------------------------------
(***************************************************************************)
(* The parser of fardlang (crates/fardlang/src/parse.rs).                   *)
(*                                                                         *)
(* A source is a sequence of tokens [t |-> word, c |-> column].  A tree is  *)
(* a record whose fields tell its kind: [int], [call, args], [op, lhs,      *)
(* rhs], ...; the name of a called function is the sequence of its parts.   *)
(* A parser yields the tree and the place behind it, [tree, at]; at = 0     *)
(* means that it failed.                                                    *)
(***************************************************************************)
EXTENDS Integers, SequencesExt

CONSTANTS Digits, \* the words that are integer literals
          Texts,  \* the words that are text literals
          Hexes   \* the words that are bytes literals

Words == {"module", "import", "as", "pub", "type", "effect", "fn", "artifact", "uses", "Run",
          "let", "if", "else", "match", "true", "false", "unit"}
Signs == {"(", ")", "{", "}", "[", "]", "<", ">", ":", ",", ".", "=", "=>", "|", "|>", "?",
          "+", "++", "-", "*", "/", "%", "==", "<=", ">=", "&&", "||"}

Tok(s, i) == IF i \in DOMAIN s THEN s[i].t ELSE "eof"
Col(s, i) == IF i \in DOMAIN s THEN s[i].c ELSE 0
IsIdent(t) == t \notin Words \union Signs \union Digits \union Texts \union Hexes \union {"eof"}

Got(tree, at) == [tree |-> tree, at |-> at]
Fail == Got(<<>>, 0)

Expect(s, i, want) == IF i # 0 /\ Tok(s, i) = want THEN i + 1 ELSE 0
ExpectAll(s, i, wants) == FoldLeft(LAMBDA at, w : Expect(s, at, w), i, wants)
ParseIdent(s, i) == IF i # 0 /\ IsIdent(Tok(s, i)) THEN Got(Tok(s, i), i + 1) ELSE Fail
ParseText(s, i) == IF i # 0 /\ Tok(s, i) \in Texts THEN Got(Tok(s, i), i + 1) ELSE Fail

\* Binding strength of the infix operators, weakest first; all associate to the left.
Levels == <<{"||"}, {"&&"}, {"==", "<=", ">=", "<", ">"}, {"++", "+", "-"}, {"*", "/", "%"}>>

\* A step of a pipe: lhs |> rhs.
Piped(lhs, rhs) ==
  CASE "ident" \in DOMAIN rhs -> [call |-> <<rhs.ident>>, args |-> <<lhs>>]
    [] "call" \in DOMAIN rhs ->
         IF rhs.args # <<>> /\ "ident" \in DOMAIN rhs.args[1]
         THEN [call |-> <<rhs.args[1].ident>> \o rhs.call, args |-> <<lhs>> \o Tail(rhs.args)]
         ELSE [call |-> rhs.call, args |-> <<lhs>> \o rhs.args]
    [] "apply" \in DOMAIN rhs -> [apply |-> rhs.apply, args |-> <<lhs>> \o rhs.args]
    [] "params" \in DOMAIN rhs -> [apply |-> rhs, args |-> <<lhs>>]
    [] "field" \in DOMAIN rhs /\ "ident" \in DOMAIN rhs.base ->
         [call |-> <<rhs.base.ident, rhs.field>>, args |-> <<lhs>>]
    [] OTHER -> <<>>

\* An opening brace starts a record, not a block, before a closing one and before a name and a colon.
OpensBlock(s, i) ==
  Tok(s, i) = "{" /\ Tok(s, i + 1) # "}" /\ ~(IsIdent(Tok(s, i + 1)) /\ Tok(s, i + 2) = ":")

\* (The word unit is none of them: the lexer makes a keyword of it, which is no type.)
BuiltinTypes == {"bool", "int", "bytes", "text", "Value"}

RECURSIVE ParseType(_, _), ParseItem(_, _, _), ParseItems(_, _, _, _), ParseLevel(_, _, _),
          MoreInfix(_, _, _), ParseExpr(_, _), MorePipe(_, _), ParseUnary(_, _), ParsePrimary(_, _),
          Postfix(_, _), ParseBlock(_, _), MoreBlock(_, _, _, _), ParsePattern(_, _), ListPattern(_, _, _)

\* What stands between commas: a parameter, a type, a name, a field, an arm, ...
ParseItem(s, i, what) ==
  CASE what = "expr" -> ParseExpr(s, i)
    [] what = "type" -> ParseType(s, i)
    [] what = "ident" -> ParseIdent(s, i)
    [] what \in {"param", "entry"} ->
         LET name == ParseIdent(s, i)
             at == Expect(s, name.at, ":")
             r == IF at = 0 THEN Fail ELSE IF what = "param" THEN ParseType(s, at) ELSE ParseExpr(s, at)
         IN  IF r.at = 0 THEN Fail ELSE Got(<<name.tree, r.tree>>, r.at)
    [] what = "arm" ->
         LET pat == ParsePattern(s, i)
             at == Expect(s, pat.at, "=>")
             r == IF at = 0 THEN Fail ELSE ParseExpr(s, at)
         IN  IF r.at = 0 THEN Fail ELSE Got([pat |-> pat.tree, body |-> r.tree], r.at)
    [] what = "use" ->
         LET name == ParseIdent(s, i)
             more == ParseIdent(s, name.at + 1)
         IN  IF name.at # 0 /\ Tok(s, name.at) = "."
             THEN IF more.at = 0 THEN Fail ELSE Got(<<name.tree, more.tree>>, more.at)
             ELSE Got(<<name.tree>>, name.at)

\* One item or more up to the closing sign, which is eaten; only some lists may end in a comma.
MayTrail(what, close) == what \in {"entry", "arm"} \/ <<what, close>> = <<"expr", "]">>
ParseItems(s, i, what, close) ==
  LET item == ParseItem(s, i, what)
      next == item.at + 1
      more == ParseItems(s, next, what, close)
  IN  IF item.at = 0 THEN Fail
      ELSE IF Tok(s, item.at) = close THEN Got(<<item.tree>>, next)
      ELSE IF Tok(s, item.at) # "," THEN Fail
      ELSE IF MayTrail(what, close) /\ Tok(s, next) = close
           THEN Got(<<item.tree>>, next + 1)
      ELSE IF more.at = 0 THEN Fail ELSE Got(<<item.tree>> \o more.tree, more.at)

ParseList(s, i, what, close) == IF Tok(s, i) = close THEN Got(<<>>, i + 1) ELSE ParseItems(s, i, what, close)

\* A list behind an opening sign.
ParseIn(s, i, open, what, close) ==
  IF Expect(s, i, open) = 0 THEN Fail ELSE ParseList(s, i + 1, what, close)

ParseType(s, i) ==
  LET name == Tok(s, i)
      of == IF Tok(s, i + 1) = "<" THEN ParseItems(s, i + 2, "type", ">") ELSE Fail
      arity == CASE name = "List" -> {1} [] name = "Map" -> {2} [] OTHER -> Nat
  IN  IF ~IsIdent(name) THEN Fail
      ELSE IF name \in BuiltinTypes \/ (Tok(s, i + 1) # "<" /\ name \notin {"List", "Map"})
           THEN Got([named |-> name, of |-> <<>>], i + 1)
      ELSE IF of.at # 0 /\ Len(of.tree) \in arity THEN Got([named |-> name, of |-> of.tree], of.at)
      ELSE Fail

ListPattern(s, i, pats) ==
  LET p == ParsePattern(s, i)
  IN  IF Tok(s, i) = "]" THEN Got([list |-> pats], i + 1)
      ELSE IF p.at = 0 THEN Fail
      ELSE ListPattern(s, IF Tok(s, p.at) = "," THEN p.at + 1 ELSE p.at, Append(pats, p.tree))

ParsePattern(s, i) ==
  LET t == Tok(s, i)
      inner == ParsePattern(s, i + 2)
      close == IF Tok(s, i + 1) = "(" /\ inner.at # 0 THEN Expect(s, inner.at, ")") ELSE 0
  IN  CASE t = "_" -> Got([wild |-> TRUE], i + 1)
        [] t = "unit" -> Got([unit |-> TRUE], i + 1)
        [] t \in {"true", "false"} -> Got([bool |-> t = "true"], i + 1)
        [] t \in Digits -> Got([int |-> t], i + 1)
        [] t \in Texts -> Got([text |-> t], i + 1)
        [] t \in Hexes -> Got([bytes |-> t], i + 1)
        [] t = "[" -> ListPattern(s, i + 1, <<>>)
        [] t = "ok" -> IF close = 0 THEN Fail ELSE Got([ok |-> inner.tree], close)
        [] t = "err" -> IF close = 0 THEN Fail ELSE Got([err |-> inner.tree], close)
        [] IsIdent(t) /\ t \notin {"_", "ok", "err"} -> Got([ident |-> t], i + 1)
        [] OTHER -> Fail

ParseLevel(s, i, n) == IF n > Len(Levels) THEN ParseUnary(s, i) ELSE MoreInfix(s, ParseLevel(s, i, n + 1), n)

MoreInfix(s, l, n) ==
  IF l.at = 0 \/ Tok(s, l.at) \notin Levels[n] THEN l
  ELSE LET r == ParseLevel(s, l.at + 1, n + 1)
       IN  IF r.at = 0 THEN Fail
           ELSE MoreInfix(s, Got([op |-> Tok(s, l.at), lhs |-> l.tree, rhs |-> r.tree], r.at), n)

ParseUnary(s, i) ==
  IF Tok(s, i) # "-" THEN ParsePrimary(s, i)
  ELSE LET x == ParseUnary(s, i + 1) IN IF x.at = 0 THEN Fail ELSE Got([neg |-> x.tree], x.at)

\* One question mark behind the first operand of a pipe and behind each step.
Tried(s, e) == IF e.at # 0 /\ Tok(s, e.at) = "?" THEN Got([try |-> e.tree], e.at + 1) ELSE e

MorePipe(s, l) ==
  IF l.at = 0 \/ Tok(s, l.at) # "|>" THEN l
  ELSE LET r == ParseLevel(s, l.at + 1, 1)
       IN  IF r.at = 0 \/ Piped(l.tree, r.tree) = <<>> THEN Fail
           ELSE MorePipe(s, Tried(s, Got(Piped(l.tree, r.tree), r.at)))

ParseExpr(s, i) == MorePipe(s, Tried(s, ParseLevel(s, i, 1)))

ParseIf(s, i) ==
  LET c == ParseExpr(s, i)
      t == IF c.at = 0 THEN Fail ELSE ParseBlock(s, c.at)
      at == Expect(s, t.at, "else")
      e == IF at = 0 THEN Fail
           ELSE IF Tok(s, at) = "if"
           THEN LET inner == ParsePrimary(s, at) IN Got([stmts |-> <<>>, tail |-> <<inner.tree>>], inner.at)
           ELSE ParseBlock(s, at)
  IN  IF e.at = 0 THEN Fail ELSE Got([cond |-> c.tree, then |-> t.tree, else |-> e.tree], e.at)

ParseMatch(s, i) ==
  LET x == ParseExpr(s, i)
      arms == IF x.at = 0 THEN Fail ELSE ParseIn(s, x.at, "{", "arm", "}")
  IN  IF arms.at = 0 THEN Fail ELSE Got([match |-> x.tree, arms |-> arms.tree], arms.at)

ParseLambda(s, i) ==
  LET ps == ParseIn(s, i, "(", "ident", ")")
      b == IF ps.at = 0 THEN Fail ELSE ParseBlock(s, ps.at)
  IN  IF b.at = 0 THEN Fail ELSE Got([params |-> ps.tree, body |-> b.tree], b.at)

ParseParens(s, i) ==
  LET e == ParseExpr(s, i)
      at == Expect(s, e.at, ")")
  IN  IF at = 0 THEN Fail ELSE Got(e.tree, at)

ParseOperand(s, i) ==
  LET t == Tok(s, i)
      items == CASE t = "[" -> ParseList(s, i + 1, "expr", "]")
                 [] t = "{" -> ParseList(s, i + 1, "entry", "}")
                 [] IsIdent(t) /\ Tok(s, i + 1) = "(" -> ParseList(s, i + 2, "expr", ")")
                 [] OTHER -> Fail
  IN  CASE t = "unit" -> Got([unit |-> TRUE], i + 1)
        [] t \in {"true", "false"} -> Got([bool |-> t = "true"], i + 1)
        [] t \in Digits -> Got([int |-> t], i + 1)
        [] t \in Texts -> Got([text |-> t], i + 1)
        [] t \in Hexes -> Got([bytes |-> t], i + 1)
        [] t = "(" -> ParseParens(s, i + 1)
        [] t = "[" -> Got([list |-> items.tree], items.at)
        [] t = "{" -> Got([fields |-> items.tree], items.at)
        [] t = "fn" -> ParseLambda(s, i + 1)
        [] IsIdent(t) -> IF Tok(s, i + 1) = "(" THEN Got([call |-> <<t>>, args |-> items.tree], items.at)
                         ELSE Got([ident |-> t], i + 1)
        [] OTHER -> Fail

\* Neither an if nor a match nor the empty list takes a field, a method or arguments behind it.
ParsePrimary(s, i) ==
  CASE Tok(s, i) = "if" -> ParseIf(s, i + 1)
    [] Tok(s, i) = "match" -> ParseMatch(s, i + 1)
    [] Tok(s, i) = "[" /\ Tok(s, i + 1) = "]" -> Got([list |-> <<>>], i + 2)
    [] OTHER -> Postfix(s, ParseOperand(s, i))

\* Fields, methods - x.f(y) is f(x, y) - and arguments.
Postfix(s, e) ==
  LET name == ParseIdent(s, e.at + 1)
      args == IF Tok(s, e.at) = "(" THEN ParseList(s, e.at + 1, "expr", ")")
              ELSE ParseIn(s, name.at, "(", "expr", ")")
  IN  CASE e.at = 0 -> Fail
        [] e.at # 0 /\ Tok(s, e.at) = "." ->
             IF name.at # 0 /\ Tok(s, name.at) = "("
             THEN IF args.at = 0 THEN Fail
                  ELSE Postfix(s, Got([call |-> <<name.tree>>, args |-> <<e.tree>> \o args.tree], args.at))
             ELSE IF name.at = 0 THEN Fail
             ELSE Postfix(s, Got([field |-> name.tree, base |-> e.tree], name.at))
        [] e.at # 0 /\ Tok(s, e.at) = "(" ->
             IF args.at = 0 THEN Fail
             ELSE Postfix(s, Got([apply |-> e.tree, args |-> args.tree], args.at))
        [] OTHER -> e

Block(stmts, tail) == [stmts |-> stmts, tail |-> tail]

\* col = 0: the block ends with a brace (or with the source), else with a token left of col.
MoreBlock(s, i, col, stmts) ==
  LET ends(j) == Tok(s, j) = "eof" \/ (IF col = 0 THEN Tok(s, j) = "}" ELSE Col(s, j) < col)
      behind(j) == IF col = 0 /\ Tok(s, j) = "}" THEN j + 1 ELSE j
      isLet == Tok(s, i) = "let"
      name == ParseIdent(s, i + 1)
      from == IF isLet THEN Expect(s, name.at, "=") ELSE i
      e == IF from = 0 THEN Fail ELSE ParseExpr(s, from)
  IN  IF ends(i) THEN Got(Block(stmts, <<>>), behind(i))
      ELSE IF e.at = 0 THEN Fail
      ELSE IF isLet THEN MoreBlock(s, e.at, col, Append(stmts, [let |-> name.tree, val |-> e.tree]))
      ELSE IF ends(e.at) /\ (col # 0 \/ Tok(s, e.at) # "eof")
           THEN Got(Block(stmts, <<e.tree>>), behind(e.at))
      ELSE MoreBlock(s, e.at, col, Append(stmts, [do |-> e.tree]))

ParseBlock(s, i) == IF OpensBlock(s, i) THEN MoreBlock(s, i + 1, 0, <<>>) ELSE MoreBlock(s, i, Col(s, i), <<>>)

----------------------------------------------------------------------------
(* Declarations.                                                           *)

\* Names parted by dots.
RECURSIVE ParseModPath(_, _)
ParseModPath(s, i) ==
  LET name == ParseIdent(s, i)
      more == ParseModPath(s, name.at + 1)
  IN  IF name.at = 0 \/ Tok(s, name.at) # "." THEN Got(<<name.tree>>, name.at)
      ELSE IF more.at = 0 THEN Fail ELSE Got(<<name.tree>> \o more.tree, more.at)

\* : Run("...")
ParseRun(s, i) == LET rid == ParseText(s, ExpectAll(s, i, <<":", "Run", "(">>))
                  IN  Got(rid.tree, Expect(s, rid.at, ")"))

\* A name alone, without alias, is no import.
ParseImport(s, i) ==
  LET path == ParseModPath(s, i)
      run == IF IsIdent(Tok(s, i)) THEN ParseRun(s, i + 1) ELSE Fail
      end == IF Tok(s, i) \in Texts THEN i + 1 ELSE path.at
      alias == IF Tok(s, end) = "as" THEN ParseIdent(s, end + 1) ELSE Got("", end)
  IN  CASE Tok(s, i) \in Texts ->
             Got([source_imports |-> [path |-> Tok(s, i), alias |-> alias.tree]], alias.at)
        [] IsIdent(Tok(s, i)) /\ Tok(s, i + 1) = ":" ->
             Got([fact_imports |-> [name |-> Tok(s, i), run_id |-> run.tree]], run.at)
        [] IsIdent(Tok(s, i)) /\ Tok(s, i + 1) \in {".", "as"} /\ path.at # 0 ->
             Got([imports |-> [path |-> path.tree, alias |-> alias.tree]], alias.at)
        [] OTHER -> Fail

ParseArtifact(s, i) ==
  LET name == ParseIdent(s, i)
      run == IF name.at = 0 THEN Fail ELSE ParseRun(s, name.at)
  IN  Got([artifacts |-> [name |-> name.tree, run_id |-> run.tree]], run.at)

ParseReturn(s, i) == IF Expect(s, i, ":") = 0 THEN Fail ELSE ParseType(s, i + 1)

ParseEffect(s, i) ==
  LET name == ParseIdent(s, i)
      ps == ParseIn(s, name.at, "(", "param", ")")
      ret == ParseReturn(s, ps.at)
  IN  Got([effects |-> [name |-> name.tree, params |-> ps.tree, ret |-> ret.tree]], ret.at)

ParseTypeParams(s, i) == IF Tok(s, i) = "<" THEN ParseItems(s, i + 1, "ident", ">") ELSE Got(<<>>, i)

RECURSIVE ParseVariants(_, _, _)
ParseVariants(s, i, vars) ==
  LET name == ParseIdent(s, IF Tok(s, i) = "|" THEN i + 1 ELSE i)
      fs == IF name.at # 0 /\ Tok(s, name.at) = "(" THEN ParseList(s, name.at + 1, "param", ")")
            ELSE Got(<<>>, name.at)
      all == Append(vars, [name |-> name.tree, fields |-> fs.tree])
  IN  IF fs.at = 0 THEN Fail
      ELSE IF Tok(s, fs.at) = "|" THEN ParseVariants(s, fs.at, all) ELSE Got([sum |-> all], fs.at)

ParseTypeDecl(s, i, pub) ==
  LET name == ParseIdent(s, i)
      ps == IF name.at = 0 THEN Fail ELSE ParseTypeParams(s, name.at)
      at == Expect(s, ps.at, "=")
      fs == ParseList(s, at + 1, "param", "}")
      body == IF at = 0 THEN Fail
              ELSE IF Tok(s, at) = "{" THEN Got([record |-> fs.tree], fs.at) ELSE ParseVariants(s, at, <<>>)
  IN  Got([types |-> [name |-> name.tree, params |-> ps.tree, body |-> body.tree, pub |-> pub]], body.at)

\* The type parameters of a function are read and forgotten.
ParseFnDecl(s, i, pub) ==
  LET name == ParseIdent(s, i)
      tps == IF name.at = 0 THEN Fail ELSE ParseTypeParams(s, name.at)
      ps == ParseIn(s, tps.at, "(", "param", ")")
      ret == IF ps.at # 0 /\ Tok(s, ps.at) = ":" THEN ParseType(s, ps.at + 1) ELSE Got(<<>>, ps.at)
      uses == IF ret.at # 0 /\ Tok(s, ret.at) = "uses" THEN ParseIn(s, ret.at + 1, "[", "use", "]")
              ELSE Got(<<>>, ret.at)
      body == IF uses.at = 0 THEN Fail ELSE ParseBlock(s, uses.at)
  IN  Got([fns |-> [name |-> name.tree, params |-> ps.tree, ret |-> ret.tree, uses |-> uses.tree,
                    body |-> body.tree, pub |-> pub]], body.at)

ParseDecl(s, i) ==
  LET pub == Tok(s, i) = "pub"
      j == IF pub THEN i + 1 ELSE i
  IN  CASE Tok(s, i) = "import" -> ParseImport(s, i + 1)
        [] Tok(s, i) = "artifact" -> ParseArtifact(s, i + 1)
        [] Tok(s, i) = "effect" -> ParseEffect(s, i + 1)
        [] Tok(s, j) = "type" -> ParseTypeDecl(s, j + 1, pub)
        [] Tok(s, j) = "fn" -> ParseFnDecl(s, j + 1, pub)
        [] OTHER -> Fail

\* Declarations are kept in a list per kind, in the order of the source.
RECURSIVE ParseDecls(_, _, _)
ParseDecls(s, i, m) ==
  LET d == ParseDecl(s, i)
  IN  IF Tok(s, i) = "eof" THEN Got(m, i)
      ELSE IF d.at = 0 THEN Fail
      ELSE ParseDecls(s, d.at, [k \in DOMAIN m |-> IF k \in DOMAIN d.tree THEN Append(m[k], d.tree[k]) ELSE m[k]])

NoDecls == [k \in {"imports", "fact_imports", "source_imports", "artifacts", "effects", "types", "fns"} |-> <<>>]

ParseModule(s) ==
  LET path == ParseModPath(s, Expect(s, 1, "module"))
  IN  IF path.at = 0 THEN Fail
      ELSE LET r == ParseDecls(s, path.at, NoDecls)
           IN  Got([name |-> path.tree, decls |-> r.tree], r.at)
=============================================================================
