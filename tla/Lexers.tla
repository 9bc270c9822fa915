-------------------------------- MODULE Lexers --------------------------------
(***************************************************************************)
(* The lexer of the interpreter (src/bin/fardrun.rs) and the one that the   *)
(* type checker and the wasm compiler hold copies of (src/bin/fardcheck.rs, *)
(* src/bin/fardwasm.rs).                                                    *)
(*                                                                         *)
(* A source is a sequence of characters, "tick" for the backtick.  A token  *)
(* is [k, x, at]: its kind, what it says, and the place behind it; at = 0   *)
(* means an error, which only the interpreter's lexer knows.                *)
(***************************************************************************)
EXTENDS Integers, SequencesExt, TLC

CONSTANTS Letter, Digit, \* the characters of names and of numbers
          DigitOf(_),    \* the value of a digit
          Width          \* the bits of an integer

Blank == {" ", "\n"}
Kws == {"let", "in", "fn", "if", "then", "else", "import", "as", "export", "match", "test", "while", "return",
        "using", "true", "false", "null"}
TwoSigns == {<<"|", "|">>, <<"!", "=">>, <<"=", "=">>, <<"<", "=">>, <<">", "=">>, <<"&", "&">>, <<"-", ">">>, <<"=", ">">>, <<"|", ">">>}
OneSign == {"(", ")", "{", "}", "[", "]", ",", ":", ".", "+", "-", "*", "/", "=", "%", "|", "<", ">", "?", "!"}
Escapes == {"n", "t", "\"", "\\"}

At(s, i) == IF i \in DOMAIN s THEN s[i] ELSE "end"
Token(k, x, at) == [k |-> k, x |-> x, at |-> at]
Bad == Token("error", <<>>, 0)
Eof(i) == Token("Eof", <<>>, i)

\* The first place from i on whose character is not in chars, or that is.
After(s, i, chars) == Min({j \in i..(Len(s) + 1) : At(s, j) \notin chars})
Find(s, i, chars) == Min({j \in i..(Len(s) + 1) : At(s, j) \in chars \union {"end"}})

\* The brace that closes what is opened at depth, or the place behind the source.
RECURSIVE Close(_, _, _)
Close(s, i, depth) ==
  LET j == Find(s, i, {"{", "}"})
  IN  IF At(s, j) = "end" \/ (At(s, j) = "}" /\ depth = 1) THEN j
      ELSE Close(s, j + 1, IF At(s, j) = "{" THEN depth + 1 ELSE depth - 1)

\* The number that digits stand for, and the one that is left of it in Width bits.
Value(x) == FoldLeft(LAMBDA n, d : 10 * n + DigitOf(d), 0, x)
MaxInt == 2^(Width - 1) - 1
Wrapped(n) == ((n + MaxInt + 1) % 2^Width) - MaxInt - 1

----------------------------------------------------------------------------
(* The interpreter.                                                        *)

\* Comments start with # or with two strokes.
RECURSIVE Skip(_, _)
Skip(s, i) ==
  CASE At(s, i) = "#" \/ <<At(s, i), At(s, i + 1)>> = <<"/", "/">> -> Skip(s, Find(s, i, {"\n"}))
    [] At(s, i) \in Blank -> Skip(s, i + 1)
    [] OTHER -> i

\* A number wraps around; only behind a point it may have an exponent.
Number(s, i) ==
  LET end == After(s, i, Digit)
      isFloat == At(s, end) = "." /\ At(s, end + 1) \in Digit
      frac == After(s, end + 1, Digit)
      sign == IF At(s, frac + 1) \in {"-", "+"} THEN frac + 2 ELSE frac + 1
  IN  CASE end > i + 1 /\ s[i] = "0" -> Bad
        [] ~(end > i + 1 /\ s[i] = "0") /\ isFloat -> Token("Float", <<>>, IF At(s, frac) = "e" THEN After(s, sign, Digit) ELSE frac)
        [] OTHER -> Token("Int", <<ToString(Wrapped(Value(SubSeq(s, i, end - 1))))>>, end)

RECURSIVE LexText(_, _, _), LexAll(_, _)

\* A text up to the next quote, or to the end.  inner: the tokens of the expressions in it.
LexText(s, i, inner) ==
  LET done == IF inner = <<>> THEN Token("Str", <<>>, i + 1) ELSE Token("Interp", inner, i + 1)
      brace == Close(s, i + 2, 1)
      toks == LexAll(SubSeq(s, i + 2, brace - 1), 1)
  IN  CASE At(s, i) = "\"" -> done
        [] At(s, i) = "end" -> [done EXCEPT !.at = i]
        [] <<At(s, i), At(s, i + 1)>> = <<"$", "{">> ->
             IF At(s, brace) = "end" \/ \E t \in Range(toks) : t.at = 0 THEN Bad ELSE LexText(s, brace + 1, Append(inner, toks))
        [] At(s, i) = "\\" -> IF At(s, i + 1) \in Escapes THEN LexText(s, i + 2, inner) ELSE Bad
        [] OTHER -> LexText(s, i + 1, inner)

LexOne(s, from) ==
  LET i == Skip(s, from)
      c == At(s, i)
      word == SubSeq(s, i, After(s, i, Letter \union Digit) - 1)
      tick == Find(s, i + 1, {"tick"})
  IN  CASE c = "end" -> Eof(i)
        [] c \in Letter -> Token("Word", word, i + Len(word))
        [] c \in Digit -> Number(s, i)
        [] c = "tick" -> Token("Str", <<>>, IF At(s, tick) = "end" THEN tick ELSE tick + 1)
        [] c = "\"" -> LexText(s, i + 1, <<>>)
        [] <<c, At(s, i + 1), At(s, i + 2)>> = <<".", ".", ".">> -> Token("Sign", <<".", ".", ".">>, i + 3)
        [] <<c, At(s, i + 1)>> \in TwoSigns -> Token("Sign", <<c, s[i + 1]>>, i + 2)
        [] c \in OneSign /\ <<c, At(s, i + 1)>> \notin TwoSigns -> Token("Sign", <<c>>, i + 1)
        [] OTHER -> Bad

LexAll(s, i) ==
  LET t == LexOne(s, i)
  IN  IF t.k = "Eof" THEN <<>> ELSE IF t.at = 0 THEN <<t>> ELSE <<t>> \o LexAll(s, t.at)

----------------------------------------------------------------------------
(* The tools.                                                              *)

\* One stroke and one ampersand are taken for two; |> and the three points are no signs.
ToolSigns == {<<"-", ">">>, <<"=", "=">>, <<"=", ">">>, <<"!", "=">>, <<"<", "=">>, <<">", "=">>, <<"&", "&">>, <<"|", "|">>}
ToolSign == (OneSign \ {"?"}) \union {"&"}

RECURSIVE ToolSkip(_, _), ToolText(_, _), ToolTokens(_, _)

ToolSkip(s, i) ==
  CASE At(s, i) \in Blank -> ToolSkip(s, i + 1)
    [] <<At(s, i), At(s, i + 1)>> = <<"/", "/">> -> ToolSkip(s, Find(s, i, {"\n"}))
    [] OTHER -> i

\* The place behind a text; an escape may be any character, an expression is skipped by its braces.
ToolText(s, i) ==
  CASE At(s, i) \in {"\"", "end"} -> i + 1
    [] At(s, i) = "\\" -> ToolText(s, i + 2)
    [] <<At(s, i), At(s, i + 1)>> = <<"$", "{">> -> ToolText(s, Close(s, i + 2, 1) + 1)
    [] OTHER -> ToolText(s, i + 1)

\* A number that is too large is 0.
ToolNumber(s, i) ==
  LET end == After(s, i, Digit)
      n == Value(SubSeq(s, i, end - 1))
  IN  IF At(s, end) = "." /\ At(s, end + 1) \in Digit THEN Token("Float", <<>>, After(s, end + 1, Digit))
      ELSE Token("Int", <<ToString(IF n > MaxInt THEN 0 ELSE n)>>, end)

ToolOne(s, from) ==
  LET i == ToolSkip(s, from)
      c == At(s, i)
      word == SubSeq(s, i, After(s, i, Letter \union Digit) - 1)
  IN  CASE c = "end" -> Eof(i)
        [] c \in Letter -> Token("Word", word, i + Len(word))
        [] c \in Digit -> ToolNumber(s, i)
        [] c = "tick" -> Token("Str", <<>>, Find(s, i + 1, {"tick"}) + 1)
        [] c = "\"" -> Token("Str", <<>>, ToolText(s, i + 1))
        [] <<c, At(s, i + 1)>> \in ToolSigns -> Token("Sign", <<c, s[i + 1]>>, i + 2)
        [] c \in ToolSign /\ <<c, At(s, i + 1)>> \notin ToolSigns ->
             Token("Sign", IF c \in {"&", "|"} THEN <<c, c>> ELSE <<c>>, i + 1)
        [] OTHER -> Token("Word", <<c>>, i + 1)

ToolTokens(s, i) == LET t == ToolOne(s, i) IN IF t.k = "Eof" THEN <<>> ELSE <<t>> \o ToolTokens(s, t.at)
=============================================================================
