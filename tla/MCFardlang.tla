----------------------------- MODULE MCFardlang -----------------------------
EXTENDS Fardlang

MCAlphabet ==
  <<"", "1", "2", ":", "ERROR_BADARG", "ERROR_OOB", "T", "a", "b", "base64url", "c", "clock_now", "error:", "f", "g", "io",
    "list", "main", "ok", "p", "random_bytes", "read_file", "shown", "std", "t", "tag", "text", "val", "write_file", "x", "y", "z">>

MCTexts == {"\"p\""}
MCIntOf(w) == CASE w = "0" -> 0 [] w = "1" -> 1 [] w = "2" -> 2
MCTextOf(w) == <<"p">>
MCBytesOf(w) == <<"a">>
\* The clock runs; reading fails.
MCWorld(f, args) == IF f = "clock_now" THEN Value(Int_(1)) ELSE Stop("ERROR_IO")

MCBytes == {"a", "b", "R", "1", "\"", "\\", "n", "/", "<", "=", "+", "|", ".", " ", "hi"}

MCDeclarations ==
  { <<1, <<"import", "std", ".", "list", "as", "a">>, TRUE>>,
    <<2, <<"import", "std", ".", "list">>, TRUE>>,
    <<3, <<"import", "\"p\"", "as", "b">>, FALSE>>,
    <<4, <<"import", "f", ":", "Run", "(", "\"p\"", ")">>, TRUE>>,
    <<5, <<"artifact", "g", ":", "Run", "(", "\"p\"", ")">>, FALSE>>,
    <<6, <<"effect", "a", "(", "x", ":", "int", ",", "y", ":", "List", "<", "text", ">", ")", ":", "bytes">>, TRUE>>,
    <<7, <<"pub", "type", "T", "=", "{", "x", ":", "Map", "<", "text", ",", "int", ">", "}">>, TRUE>>,
    <<8, <<"type", "t", "<", "a", ",", "b", ">", "=", "x", "(", "y", ":", "a", ")", "|", "z">>, TRUE>>,
    <<9, <<"pub", "fn", "f", "(", "x", ":", "T", ")", ":", "int", "uses", "[", "a", ",", "io", ".", "read_file", "]",
           "{", "match", "x", "{", "[", "ok", "(", "y", ")", ",", "err", "(", "_", ")", ",", "1", ",", "\"p\"", ",", "unit", ",",
           "true", ",", "]", "=>", "y", "}", "}">>, TRUE>>,
    <<10, <<"fn", "main", "(", ")", "{", "f", "(", "1", ")", "}">>, TRUE>> }

MCLines ==
  << <<"import", "std", ".", "io">>, <<"import", "std", ".", "list">>,
     <<"fn", "f", "(", "a", ":", "Value", ")", "{", "a", "}">>,
     <<"fn", "g", "(", "a", ":", "int", ")", "uses", "[", "clock_now", "]", "{", "clock_now", "(", ")", "}">> >>
MCHeaders == [pure |-> [lines |-> MCLines, uses |-> <<>>],
              timed |-> [lines |-> MCLines, uses |-> <<"uses", "[", "io", ".", "clock_now", "]">>]]

Starts == { <<"let", "x", "=", "ok", "(", "1", ")">> }
Simple ==
  { <<"x">>, <<"1">>, <<"-", "x">>, <<"x", "?">>, <<"f", "(", "x", ")">>, <<"g", "(", "x", ")">>,
    <<"clock_now", "(", ")">>, <<"[", "io", ".", "clock_now", "(", ")", "]">>, <<"x", "|>", "list", ".", "len">>,
    <<"1", "|>", "io", ".", "clock_now">>, <<"{", "a", ":", "x", "}", ".", "a">>, <<"[", "]">>,
    <<"if", "true", "{", "let", "z", "=", "2", "}", "else", "{", "clock_now", "(", ")", "}">>,
    <<"match", "x", "{", "ok", "(", "y", ")", "=>", "y", ",", "_", "=>", "clock_now", "(", ")", "}">>,
    <<"read_file", "(", "\"p\"", ")">>, <<"fn", "(", "y", ")", "{", "y", "+", "1", "}">>, <<"err", "(", "\"p\"", ")">> }
Around ==
  { << <<>>, <<>> >>, << <<"let", "y", "=">>, <<>> >>, << <<"let", "y", "=", "(">>, <<")", "-", "1">> >>,
    << <<"1", "+", "(">>, <<")">> >>, << <<"-", "(">>, <<")">> >>, << <<"(">>, <<")", "?">> >>, << <<"(">>, <<")", ".", "a">> >>,
    << <<"(">>, <<")", "(", "1", ")">> >>, << <<"f", "(">>, <<")">> >>, << <<"[">>, <<",", "2", "]">> >>,
    << <<"{", "a", ":">>, <<"}">> >>, << <<"if", "x", "==">>, <<"{", "1", "}", "else", "{", "unit", "}">> >>,
    << <<"if", "true", "&&", "true", "{">>, <<"}", "else", "{", "}">> >>, << <<"match">>, <<"{", "1", "=>", "2", ",", "err", "(", "y", ")", "=>", "y", "}">> >>,
    << <<"match", "1", "{", "_", "=>">>, <<"}">> >>, << <<"let", "y", "=", "fn", "(", "z", ")", "{">>, <<"}">> >>,
    << <<"(">>, <<")", "|>", "fn", "(", "y", ")", "{", "y", "}">> >> }
MCPhrases == {s \o w[1] \o e \o w[2] : s \in Starts, w \in Around, e \in Simple}
MCEndings == { <<"x">>, <<"y", "+", "1">>, <<"-", "z">>, <<"?">>, <<".", "a">>, <<"(", "x", ")">>, <<"|>", "f">>,
               <<"let", "y", "=", "x">>, <<"y", "(", "1", ")">>, <<"{", "a", ":", "y", "}">>, <<"if", "false", "{", "1", "}", "else", "{", "z", "}">> }

MCValues ==
  {Unit, Bool(FALSE), Bool(TRUE), Int_(-1), Int_(0), Int_(2), Text(<<>>), Text(<<"a">>), Text(<<"b">>), Text(<<"a", "b">>), Text(<<"a", "a">>),
   [bytes |-> <<>>], [bytes |-> <<"a">>], List(<<>>), List(<<Int_(1)>>), List(<<Int_(1), Unit>>),
   [rec |-> [k \in {"a"} |-> Int_(1)]], [rec |-> [k \in {"a", "b"} |-> Int_(1)]], [rec |-> [k \in {"b"} |-> Int_(0)]],
   Halves(1), Halves(2), Halves(0), NegativeZero, NaN, List(<<NaN>>), List(<<Halves(2)>>),
   Error("ERROR_OOB"), Error("ERROR_BADARG")}
=============================================================================
