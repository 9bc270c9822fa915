----------------------------- MODULE MCFardRun -----------------------------
(***************************************************************************)
(* Instances of FardRun: the programs of each run.                         *)
(***************************************************************************)
EXTENDS FardRun

P(name, steps, outcome) == [name |-> name, steps |-> steps, outcome |-> outcome]

\* Programs that end in every way and use everything that shows in a trace.
TracePrograms ==
  {P("a", <<"emit">>, "value"),
   P("b", <<"import", "import", "self", "emit">>, "value"),
   P("c", <<>>, "not_jsonable"),
   P("d", <<"import", "emit">>, "error"),
   P("e", <<"emit">>, "qmark"),
   P("f", <<"artifact", "artifact", "emit">>, "error"),
   P("g", <<"import", "artifact">>, "value"),
   P("h", <<"emit", "import">>, "value"),
   P("i", <<"import_pkg">>, "value"),
   P("j", <<"import_artifact">>, "value"),
   P("k", <<"spawn_ordered">>, "value"),
   P("l", <<"compact_while">>, "value"),
   P("m", <<"ffi">>, "error"),
   P("w", <<"spawn_ordered">>, "error"),
   P("x", <<"emit_artifact">>, "value")}

\* Programs that ask for their own digest, and one that does not.
DigestPrograms ==
  {P("n", <<"self">>, "value"),
   P("o", <<"self">>, "self"),
   P("p", <<"emit_self">>, "value"),
   P("q", <<"self">>, "hash_of_self"),
   P("r", <<"artifact", "self">>, "self"),
   P("s", <<"artifact", "artifact">>, "value"),
   P("t", <<"emit_self">>, "error"),
   P("u", <<"self", "spawn_ordered">>, "value"),
   P("v", <<>>, "self_in_thread")}

MCPrograms == TracePrograms \union DigestPrograms

=============================================================================
