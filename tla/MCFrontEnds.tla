----------------------------- MODULE MCFrontEnds -----------------------------
EXTENDS FrontEnds

MCWide == {"\"é\""}
MCRunIds == {"\"sha256:0\""}
MCStrs == {"\"s\""} \union MCWide \union MCRunIds
MCInterps == [w \in {"\"${y}\""} |-> <<"y">>]
MCDigitOf(d) == CASE d = "0" -> 0 [] d = "1" -> 1 [] d = "9" -> 9
MCPieces == { <<c>> : c \in {"a", "e", "0", "1", "9", "\"", "}", "\\", "/", "#", "|", "&", "=", ">", ".", " ", "\n", "tick"} }
            \union { <<"$", "{">>, <<"?">> }
MCOperands == { <<"x">> }
MCAround ==
  { << <<"-">>, <<>> >>, << <<"2", "+">>, <<>> >>, << <<>>, <<"*", "3">> >>, << <<"\"${y}\"", "<">>, <<"==", "\"s\"">> >>,
    << <<"(">>, <<")">> >>, << <<"f", "(">>, <<")">> >>, << <<"f", "(", "4", ",", "k", ":">>, <<")">> >>,
    << <<"[">>, <<",", "5", "]">> >>, << <<"{", "a", ":">>, <<",", "using", ":", "6", "}">> >>, << <<"{", "\"s\"", ":">>, <<",", "b", ":", "6", "}">> >>,
    << <<>>, <<".", "a">> >>, << <<>>, <<"[", "7", "]">> >>, << <<>>, <<"(", "y", ")">> >>, << <<>>, <<"|>", "g", "(", "z", ")">> >>,
    << <<"fn", "(", "p", ")", "{", "let", "q", "=">>, <<"p", "}">> >>, << <<"fn", "(", ")", "{">>, <<"|", "y", "}">> >>,
    << <<"fn", "(", "{", "a", "}", ")", "{">>, <<"}">> >>, << <<"fn", "(", "_", ")", "{">>, <<"}">> >>,
    << <<"fn", "(", ")", "{", "let", "q", "=">>, <<"[", "7", "]", "}">> >>, << <<"let", "_", "=">>, <<"in", "x">> >>,
    << <<"{", "a", ":", "p", "=>">>, <<"}">> >>, << <<"fn", "(", ")", "{", "let", "{", "m", ":", "{", "n", "}", "}", "=">>, <<"m", "}">> >>,
    << <<"p", "=>">>, <<>> >>,
    << <<"if">>, <<"then", "y", "else", "z">> >>, << <<"if", "y", "then", "{", "let", "q", "=">>, <<"q", "}", "else", "z">> >>,
    << <<"let", "q", "=">>, <<"in", "q">> >>, << <<"let", "{", "a", ",", "b", ":", "c", "}", "=">>, <<"in", "a">> >>,
    << <<"match">>, <<"{", "1", "=>", "y", ",", "p", "if", "z", "=>", "p", "}">> >>,
    << <<"for", "p", "in", "xs", "do">>, <<>> >>, << <<"[", "(", "p", ",", "q", ")", "=>">>, <<"for", "p", "in", "xs", "if", "p", "]">> >>,
    << <<"while", "x", "using", "p", "=">>, <<"in", "p", "y">> >>, << <<>>, <<"?">> >> }
MCLines ==
  { <<"import", "(", "\"s\"", ")", "as", "list">>, <<"artifact", "g", "=", "\"sha256:0\"">>, <<"export", "{", "f", ",", "h", ",", "}">>,
    <<"test", "\"s\"", "{", "let", "q", "=", "1", "q", "==", "1", "}">>, <<"fn", "f", "(", "x", ")", "{", "let", "y", "=", "x", "y", "}">>,
    <<"fn", "h", "(", "x", ":", "Func", "(", "Int", ",", "Rec", "{", "a", ":", "T", "<", "Int", ">", "}", ")", "->", "(", "Int", ")", ",",
      "y", ":", "List", "<", "Int", ">", ",", "z", ")", "->", "Bool", "{", "x", "}">>,
    <<"fn", "d", "(", "{", "m", ":", "n", ",", "...", "r", "}", ",", "[", "1", ",", "...", "v", "]", ",", "y", "=", "2", ")", "{", "n", "}">>,
    <<"fn", "u", "(", ")", "{", "let", "{", "m", ",", "n", ":", "o", "}", "=", "x", "let", "[", "v", ",", "_", "]", "=", "x",
      "let", "w", "=", "1", "|", "y", "}">>,
    <<"let", "x", "=", "1">>, <<"let", "x", "=", "f", "(", "1", ")", "in", "x">>, <<"let", "x", "=", "y">>,
    <<"let", "{", "m", ",", "n", ":", "o", "}", "=", "x">>, <<"let", "[", "m", ",", "n", "]", "=", "x">>, <<"let", "{", "m", ",", "...", "r", "}", "=", "x">>,
    <<"let", "{", "m", ":", "{", "n", "}", ",", "o", ":", "1", "}", "=", "x">>, <<"test", "\"s\"", "{", "f", "(", "x", "=>", "y", ")", "}">>,
    <<"f", "(", "\"é\"", ",", "\"é\"", ")">>, <<"f", "(", "fn", "(", "x", ")", "{", "x", "}", ")">>, <<"match", "x", "{", "1", "=>", "y", "}">>,
    <<"x">>, <<"(", "y", ")">>, <<"[", "1", "]">>, <<"-", "2">>, <<"f", "(", "\"é\"", ")">>,
    <<"a", "Point", "is", "{", "u", ":", "Int", ",", "v", ":", "Int", "}">>, <<"a", "Shape", "is", "Round", "(", "u", ":", "Int", ")", "or", "Dot">>,
    <<"if", "x", "then", "{", "return", "y", "}", "else", "z">>, <<"f", "(", "fn", "(", "x", ")", "{", "let", "q", "=", "5", "q", "}", ")">> }
=============================================================================
