------------------------------ MODULE FardCanon ------------------------------
(***************************************************************************)
(* The canonical form of a fardlang module (crates/fardlang/src/canon.rs):  *)
(* its declarations sorted, each printed on one line.  A line is a sequence *)
(* of words; blanks between words are not kept.                             *)
(***************************************************************************)
EXTENDS FardParse

CONSTANT Alphabet \* the names, in the order of their bytes

Place(name) == CHOOSE i \in DOMAIN Alphabet : Alphabet[i] = name

\* Dictionary order of sequences of names.
NamesBefore(a, b) ==
  \/ Len(a) < Len(b) /\ \A i \in DOMAIN a : a[i] = b[i]
  \/ \E i \in DOMAIN a \intersect DOMAIN b :
        Place(a[i]) < Place(b[i]) /\ \A j \in 1..(i - 1) : a[j] = b[j]

\* Equal keys keep their order.
SortedBy(Key(_), decls) ==
  FoldLeft(LAMBDA sorted, x :
             InsertAt(sorted, 1 + Cardinality({j \in DOMAIN sorted : ~NamesBefore(Key(x), Key(sorted[j]))}), x),
           <<>>, decls)

NameOf(d) == <<d.name>>
\* A path that ends is before one that goes on, an import without alias before the others.
PathOf(d) == d.path \o <<"", d.alias>>

Joined(parts, sep) ==
  FoldLeftDomain(LAMBDA out, i : out \o (IF i = 1 THEN <<>> ELSE <<sep>>) \o parts[i], <<>>, parts)
Mapped(Op(_), xs) == [i \in DOMAIN xs |-> Op(xs[i])]
Dotted(path) == Joined(Mapped(LAMBDA n : <<n>>, path), ".")

RECURSIVE PrintType(_), PrintPattern(_), PrintExpr(_), PrintBlock(_)

PrintType(t) ==
  <<t.named>> \o (IF t.of = <<>> THEN <<>> ELSE <<"<">> \o Joined(Mapped(PrintType, t.of), ",") \o <<">">>)

PrintPattern(p) ==
  CASE "wild" \in DOMAIN p -> <<"_">>
    [] "unit" \in DOMAIN p -> <<"unit">>
    [] "bool" \in DOMAIN p -> IF p.bool THEN <<"true">> ELSE <<"false">>
    [] "int" \in DOMAIN p -> <<p.int>>
    [] "text" \in DOMAIN p -> <<p.text>>
    [] "bytes" \in DOMAIN p -> <<p.bytes>>
    [] "ident" \in DOMAIN p -> <<p.ident>>
    [] "list" \in DOMAIN p -> <<"[">> \o Joined(Mapped(PrintPattern, p.list), ",") \o <<"]">>
    [] "ok" \in DOMAIN p -> <<"ok", "(">> \o PrintPattern(p.ok) \o <<")">>
    [] "err" \in DOMAIN p -> <<"err", "(">> \o PrintPattern(p.err) \o <<")">>

PrintStmt(st) ==
  IF "let" \in DOMAIN st THEN <<"let", st.let, "=">> \o PrintExpr(st.val) ELSE PrintExpr(st.do)

\* A block without a last expression gets one.
PrintBlock(b) ==
  FlattenSeq(Mapped(PrintStmt, b.stmts)) \o (IF b.tail = <<>> THEN <<"unit">> ELSE PrintExpr(b.tail[1]))

Braced(b) == <<"{">> \o PrintBlock(b) \o <<"}">>
PrintArgs(args) == <<"(">> \o Joined(Mapped(PrintExpr, args), ",") \o <<")">>
PrintArm(a) == PrintPattern(a.pat) \o <<"=>">> \o PrintExpr(a.body)
PrintEntry(kv) == <<kv[1], ":">> \o PrintExpr(kv[2])

\* Variant of PrintOp: the operands are printed bare.
PrintOpBare(e) == PrintExpr(e.lhs) \o <<e.op>> \o PrintExpr(e.rhs)
PrintOp(e) == <<"(">> \o PrintExpr(e.lhs) \o <<e.op>> \o PrintExpr(e.rhs) \o <<")">>

\* Only operators are printed in parentheses.
PrintExpr(e) ==
  CASE "unit" \in DOMAIN e -> <<"unit">>
    [] "bool" \in DOMAIN e -> IF e.bool THEN <<"true">> ELSE <<"false">>
    [] "int" \in DOMAIN e -> <<e.int>>
    [] "text" \in DOMAIN e -> <<e.text>>
    [] "bytes" \in DOMAIN e -> <<e.bytes>>
    [] "ident" \in DOMAIN e -> <<e.ident>>
    [] "list" \in DOMAIN e -> <<"[">> \o Joined(Mapped(PrintExpr, e.list), ",") \o <<"]">>
    [] "neg" \in DOMAIN e -> <<"(", "-">> \o PrintExpr(e.neg) \o <<")">>
    [] "op" \in DOMAIN e -> PrintOp(e)
    [] "call" \in DOMAIN e -> Dotted(e.call) \o PrintArgs(e.args)
    [] "cond" \in DOMAIN e -> <<"if">> \o PrintExpr(e.cond) \o Braced(e.then) \o <<"else">> \o Braced(e.else)
    [] "fields" \in DOMAIN e -> <<"{">> \o Joined(Mapped(PrintEntry, e.fields), ",") \o <<"}">>
    [] "field" \in DOMAIN e -> PrintExpr(e.base) \o <<".", e.field>>
    [] "match" \in DOMAIN e ->
         <<"match">> \o PrintExpr(e.match) \o <<"{">> \o Joined(Mapped(PrintArm, e.arms), ",") \o <<"}">>
    [] "params" \in DOMAIN e ->
         <<"fn", "(">> \o Joined(Mapped(LAMBDA p : <<p>>, e.params), ",") \o <<")">> \o Braced(e.body)
    [] "try" \in DOMAIN e -> PrintExpr(e.try) \o <<"?">>
    [] "apply" \in DOMAIN e -> PrintExpr(e.apply) \o PrintArgs(e.args)

PrintParam(p) == <<p[1], ":">> \o PrintType(p[2])
PrintParams(ps) == Joined(Mapped(PrintParam, ps), ",")
Pub(d) == IF d.pub THEN <<"pub">> ELSE <<>>

PrintImport(i) == <<"import">> \o Dotted(i.path) \o (IF i.alias = "" THEN <<>> ELSE <<"as", i.alias>>)
PrintFact(f) == <<"import", f.name, ":", "Run", "(", f.run_id, ")">>
PrintEffect(e) == <<"effect", e.name, "(">> \o PrintParams(e.params) \o <<")", ":">> \o PrintType(e.ret)

PrintVariant(v) ==
  <<"|", v.name>> \o (IF v.fields = <<>> THEN <<>> ELSE <<"(">> \o PrintParams(v.fields) \o <<")">>)

PrintTypeDecl(t) ==
  Pub(t) \o <<"type", t.name>>
  \o (IF t.params = <<>> THEN <<>> ELSE <<"<">> \o Joined(Mapped(LAMBDA p : <<p>>, t.params), ",") \o <<">">>)
  \o <<"=">>
  \o (IF "record" \in DOMAIN t.body THEN <<"{">> \o PrintParams(t.body.record) \o <<"}">>
      ELSE FlattenSeq(Mapped(PrintVariant, t.body.sum)))

PrintFnDecl(f) ==
  Pub(f) \o <<"fn", f.name, "(">> \o PrintParams(f.params) \o <<")">>
  \o (IF f.ret = <<>> THEN <<>> ELSE <<":">> \o PrintType(f.ret))
  \o (IF f.uses = <<>> THEN <<>> ELSE <<"uses", "[">> \o Joined(Mapped(Dotted, f.uses), ",") \o <<"]">>)
  \o Braced(f.body)

\* The lines of the canonical form: artifacts and imports of sources are left out.
Canon(m) ==
  << <<"module">> \o Dotted(m.name) >>
  \o Mapped(PrintImport, SortedBy(PathOf, m.decls["imports"]))
  \o Mapped(PrintFact, SortedBy(NameOf, m.decls["fact_imports"]))
  \o Mapped(PrintEffect, SortedBy(NameOf, m.decls["effects"]))
  \o Mapped(PrintTypeDecl, SortedBy(NameOf, m.decls["types"]))
  \o Mapped(PrintFnDecl, SortedBy(NameOf, m.decls["fns"]))

\* The tokens of lines that start in the first column; a word is taken to be one column wide.
Source(lines) ==
  FlattenSeq(Mapped(LAMBDA line : [i \in DOMAIN line |-> [t |-> line[i], c |-> i]], lines))

Reparsed(m) == ParseModule(Source(Canon(m)))

\* algebra.rs, law_ast_roundtrip: the canonical form is read again, and its canonical form is the same.
LawAstRoundtrip(m) == LET again == Reparsed(m) IN again.at # 0 /\ Canon(again.tree) = Canon(m)
=============================================================================
