---------------------------- MODULE MCModuleLoader ----------------------------
(***************************************************************************)
(* An instance of ModuleLoader: a standard module, a package, and two      *)
(* modules a and b that may import each other, themselves, the package, or *)
(* the file that "a" names from the package's directory.                   *)
(***************************************************************************)
EXTENDS ModuleLoader

MCNames == {"s", "u", "p", "a", "b"}

MCBuiltins == {"s"}

MCKind == [n \in MCNames |->
  CASE n \in {"s", "u"} -> "std" [] n = "p" -> "pkg" [] n = "a" -> "rel" [] n = "b" -> "lib"]

MCFiles == {"main.fard", "a.fard", "b.fard", "p.fard", "p/a.fard"}

MCDirs == {".", "p"}

MCLocate ==
  [n \in MCNames |-> [here \in MCDirs |->
     CASE n = "a" -> (IF here = "." THEN "a.fard" ELSE "p/a.fard")
       [] n = "b" -> "b.fard"
       [] n = "p" -> "p.fard"
       [] OTHER   -> Nowhere]]

MCDirOf == [f \in MCFiles |-> IF f \in {"p.fard", "p/a.fard"} THEN "p" ELSE "."]

Import(n) == [do |-> "import", name |-> n]
Eval(n) == [do |-> "eval", name |-> n]
Try(n) == [do |-> "try", name |-> n]
Serve(n) == [do |-> "serve", name |-> n]
Failing == [do |-> "fail"]
Unwinding == [do |-> "unwind"]

Text(items) == [items |-> items, parses |-> TRUE, record |-> TRUE]

MCSource ==
  [leaf   |-> Text(<<>>),
   value  |-> [Text(<<>>) EXCEPT !.record = FALSE],
   broken |-> [Text(<<>>) EXCEPT !.parses = FALSE],
   fails  |-> Text(<<Failing>>),
   useA   |-> Text(<<Import("a")>>),
   useB   |-> Text(<<Import("b")>>),
   useSU  |-> Text(<<Import("s"), Import("u")>>),
   usePA  |-> Text(<<Import("p"), Import("a")>>),
   useAB  |-> Text(<<Import("a"), Import("b")>>),
   evalA  |-> Text(<<Import("s"), Eval("a")>>),
   asks   |-> Text(<<Unwinding>>),
   tryA   |-> Text(<<Try("a"), Import("s")>>),
   useBA  |-> Text(<<Import("b"), Import("a")>>),
   tries  |-> Text(<<Try("a"), Try("b"), Try("a")>>),
   serves |-> Text(<<Serve("b"), Serve("a"), Serve("b")>>)]

MCTexts == DOMAIN MCSource

\* Errors are caught only where the program, or b, catches them.
MCWorlds ==
  {w \in [MCFiles -> MCTexts \union {Absent}] :
     /\ w["main.fard"] \in {"useAB", "usePA", "useBA", "tries", "serves"}
     /\ w["a.fard"] \in {"leaf", "value", "fails", "useB", "useSU", "asks"}
     /\ w["b.fard"] \in {"leaf", "broken", "useA", "usePA", "tryA"}
     /\ w["p.fard"] \in {"leaf", "useA", "evalA", Absent}
     /\ w["p/a.fard"] = "leaf"
     /\ IF w["main.fard"] \in {"useBA", "tries", "serves"} \/ "tryA" = w["b.fard"]
        THEN w["p.fard"] = "leaf" /\ w["a.fard"] # "value"
        ELSE w["a.fard"] # "asks"}

MCLocks == {[n \in MCNames |-> NoEntry],
            [n \in MCNames |-> CASE n = "s" -> "s" [] n = "a" -> "leaf" [] n = "b" -> "leaf"
                                 [] OTHER -> NoEntry],
            [n \in MCNames |-> CASE n = "s" -> "leaf" [] n = "p" -> "leaf"
                                 [] n = "b" -> "useA" [] OTHER -> NoEntry]}

MCLines == {<<Import("a")>>, <<Eval("b")>>, <<Import("p"), Failing>>}

MCEdits == {<<"a.fard", "leaf">>, <<"a.fard", "useB">>, <<"b.fard", "useA">>,
            <<"p.fard", "evalA">>, <<"p.fard", Absent>>, <<"main.fard", "useAB">>}

=============================================================================
