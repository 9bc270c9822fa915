----------------------------- MODULE MCLibrary -----------------------------
(* Library on small values: Library.cfg. *)
EXTENDS Library

Characters == <<"\n", "\r", " ", "-", ".", "/", "0", "1", "A", "E", "a", "e", "some", "t", "v", "{", "}", "b", "c">>
CodeOf(c) == CHOOSE i \in DOMAIN Characters : Characters[i] = c

Elements_ == {Number(-1), Number(-2), Number(2), Text(<<"a">>), Bool(TRUE), List(<<Number(1)>>), [bytes |-> <<7>>]}
Items_ == {Number(0), Number(1), Number(2), Text(<<"1">>)}

Y == [var |-> "y"]
One == [const |-> Number(1)]
Bin(op, l, r) == [op |-> op, l |-> l, r |-> r]
Lambda(e) == [params |-> <<[bind |-> "y"]>>, body |-> e, env |-> NoBindings]
Bodies == {Bin("<", Y, One), Bin("==", Y, One), Bin("!=", Y, Y), Y, [return |-> Bin("<", One, Y)],
           [items |-> <<Y, One>>]}
Functions1_ == {[func |-> Lambda(b)] : b \in Bodies} \union {VmFunc(Lambda(Bin("==", Y, One)))}

\* e with an acute accent takes two bytes; its upper case is in Wide, too.
Words_ == {<<>>, <<"a">>, <<"e'">>, <<"A">>, <<"\n">>, <<"\r", "\n">>, <<"a", "a">>, <<"{", "v", "}">>}
Parts_ == {<<>>, <<".">>, <<".", ".">>, <<"a">>, <<"/">>, <<"/", "b">>, <<"a", "/", ".">>}
Upper_ == [c \in {"a", "e'"} |-> IF c = "a" THEN <<"A">> ELSE <<"E'">>]
Lower_ == [c \in {"A"} |-> "a"]
Space_ == {" ", "\n", "\r"}
=============================================================================
