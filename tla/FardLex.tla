------------------------------- MODULE FardLex -------------------------------
(***************************************************************************)
(* The lexer of fardlang (crates/fardlang/src/lex.rs), and the printer that *)
(* turns tokens back into a source (algebra.rs) together with the law that  *)
(* algebra.rs states of the two.                                            *)
(*                                                                         *)
(* A source is a sequence of bytes: one-character strings, "hi" for one of  *)
(* the two bytes of a letter outside ASCII, "bs" for the backspace.  A text *)
(* holds characters: the lexer makes one character, "Hi", of every byte of  *)
(* such a letter.                                                           *)
(***************************************************************************)
EXTENDS Integers, SequencesExt

CONSTANTS Letter, \* the bytes a name starts with
          Digit   \* the digits

Blank == {" ", "\n", "\r", "\t"}
Keywords == {"module", "import", "as", "pub", "type", "effect", "fn", "artifact", "uses", "Run",
             "let", "if", "else", "match", "true", "false", "unit"}
TwoBytes == {<<"<", "=">>, <<">", "=">>, <<"+", "+">>, <<"=", "=">>, <<"=", ">">>, <<"&", "&">>,
             <<"|", "|">>, <<"|", ">">>}
OneByte == {"<", ">", "+", "-", "*", "/", "%", "=", "|", "?", "(", ")", "{", "}", "[", "]", ":", ",", "."}

At(s, i) == IF i \in DOMAIN s THEN s[i] ELSE "end"

\* The first place from i on whose byte is not in bytes.
After(s, i, bytes) == Min({j \in i..(Len(s) + 1) : At(s, j) \notin bytes})

EndOfLine(s, i) == Min({j \in i..(Len(s) + 2) : At(s, j) \in {"\n", "end"}})

RECURSIVE Skip(_, _)
Skip(s, i) == CASE At(s, i) \in Blank -> Skip(s, i + 1)
                [] At(s, i) = "/" /\ At(s, i + 1) = "/" -> Skip(s, EndOfLine(s, i + 2) + 1)
                [] OTHER -> i

Token(k, x, at) == [k |-> k, x |-> x, at |-> at]
Bad == Token("error", <<>>, 0)

Escapes == [c \in {"\"", "\\", "n", "r", "t", "b", "f"} |->
              CASE c = "n" -> "\n" [] c = "r" -> "\r" [] c = "t" -> "\t" [] c = "b" -> "bs"
                [] c = "f" -> "\f" [] OTHER -> c]

\* The text whose bytes from place i on are still to be read.
RECURSIVE LexText(_, _, _)
LexText(s, i, out) ==
  CASE At(s, i) = "end" -> Bad
    [] At(s, i) = "\"" -> Token("TextLit", out, i + 1)
    [] At(s, i) = "\\" -> IF At(s, i + 1) \in DOMAIN Escapes
                          THEN LexText(s, i + 2, Append(out, Escapes[At(s, i + 1)]))
                          ELSE Bad
    [] OTHER -> LexText(s, i + 1, Append(out, IF At(s, i) = "hi" THEN "Hi" ELSE At(s, i)))

\* The bytes between the quotes as they are; the end of the source ends them, too.
LexBytesHex(s, i) ==
  LET close == Min({j \in i..(Len(s) + 1) : At(s, j) \in {"\"", "end"}})
  IN  Token("BytesLit", SubSeq(s, i, close - 1), close + 1)

Spelled(x) == FoldLeft(LAMBDA a, c : a \o c, "", x)

LexWord(s, i) ==
  LET end == After(s, i, Letter \union Digit)
      x == SubSeq(s, i, end - 1)
  IN  Token(IF Spelled(x) \in Keywords THEN "Kw" ELSE "Ident", x, end)

LexInt(s, i) == LET end == After(s, i, Digit) IN Token("IntLit", SubSeq(s, i, end - 1), end)

\* The longest operator at a place is taken.
LexOne(s, from) ==
  LET i == Skip(s, from)
      c == At(s, i)
      two == <<c, At(s, i + 1)>>
  IN  CASE c = "end" -> Token("Eof", <<>>, i)
        [] two \in TwoBytes -> Token("Sym", two, i + 2)
        [] c \in OneByte -> Token("Sym", <<c>>, i + 1)
        [] c = "\"" -> LexText(s, i + 1, <<>>)
        [] c \in Digit -> LexInt(s, i)
        [] two = <<"b", "\"">> -> LexBytesHex(s, i + 2)
        [] c \in Letter /\ two # <<"b", "\"">> -> LexWord(s, i)
        [] OTHER -> Bad

RECURSIVE TokensFrom(_, _, _)
TokensFrom(s, i, out) ==
  LET t == LexOne(s, i)
  IN  IF t.k \in {"error", "Eof"} THEN Append(out, [k |-> t.k, x |-> t.x])
      ELSE TokensFrom(s, t.at, Append(out, [k |-> t.k, x |-> t.x]))

Tokens(s) == TokensFrom(s, 1, <<>>)
Lexes(toks) == Last(toks).k = "Eof"

----------------------------------------------------------------------------
(* algebra.rs: tokens as the laws compare them, and as they are written.   *)

\* The word Run is written in small letters, a text without its escapes.
TokN(t) == CASE t.k = "Kw" /\ t.x = <<"R", "u", "n">> -> [t EXCEPT !.x = <<"r", "u", "n">>]
             [] t.k = "TextLit" -> [t EXCEPT !.x = <<"\"">> \o t.x \o <<"\"">>]
             [] t.k = "BytesLit" -> [t EXCEPT !.x = <<"b", "\"">> \o t.x \o <<"\"">>]
             [] OTHER -> t

Normalized(toks) == [i \in DOMAIN toks |-> TokN(toks[i])]

Tight == {<<".">>, <<"(">>, <<")">>, <<"[">>, <<"]">>, <<"{">>, <<"}">>, <<",">>, <<":">>}
Spaced == {<<"=">>, <<"=", "=">>, <<"<">>, <<">">>, <<"<", "=">>, <<">", "=">>, <<"+">>, <<"-">>, <<"*">>,
           <<"/">>, <<"%">>, <<"&", "&">>, <<"|", "|">>, <<"|", ">">>, <<"=", ">">>, <<"|">>}
IsWord(t) == t.k \in {"Kw", "Ident", "IntLit", "TextLit", "BytesLit"}

\* Variant of Parted: words are not kept apart.
PartedLess(p, t) == /\ ~(p.k = "Sym" /\ p.x \in Tight) /\ ~(t.k = "Sym" /\ t.x \in Tight)
                    /\ \/ p.k = "Sym" /\ p.x \in Spaced /\ IsWord(t)
                       \/ IsWord(p) /\ t.k = "Sym" /\ t.x \in Spaced

\* Is a blank written between two tokens?
Parted(p, t) == /\ ~(p.k = "Sym" /\ p.x \in Tight) /\ ~(t.k = "Sym" /\ t.x \in Tight)
                /\ \/ IsWord(p) /\ IsWord(t)
                   \/ p.k = "Sym" /\ p.x \in Spaced /\ IsWord(t)
                   \/ IsWord(p) /\ t.k = "Sym" /\ t.x \in Spaced

Utf8(x) == FlattenSeq([i \in DOMAIN x |-> IF x[i] = "Hi" THEN <<"hi", "hi">> ELSE <<x[i]>>])

Detokenized(toks) ==
  FlattenSeq([i \in 1..(Len(toks) - 1) |->
    (IF i > 1 /\ Parted(toks[i - 1], toks[i]) THEN <<" ">> ELSE <<>>) \o Utf8(toks[i].x)]) \o <<"\n">>

LawTokenRoundtrip(s) ==
  LET toks == Normalized(Tokens(s)) IN Normalized(Tokens(Detokenized(toks))) = toks

----------------------------------------------------------------------------
(* canon.rs prints a text or the bytes of a literal as Rust shows a string. *)

Shown(c) == CASE c \in {"\"", "\\"} -> <<"\\", c>>
              [] c = "\n" -> <<"\\", "n">> [] c = "\r" -> <<"\\", "r">> [] c = "\t" -> <<"\\", "t">>
              [] c \in {"bs", "\f"} -> <<"\\", "u", "{", "8", "}">>
              [] c = "Hi" -> <<"hi", "hi">>
              [] OTHER -> <<c>>

PrintLiteral(t) ==
  (IF t.k = "BytesLit" THEN <<"b">> ELSE <<>>) \o <<"\"">>
  \o FlattenSeq([i \in DOMAIN t.x |-> Shown(t.x[i])]) \o <<"\"">>
=============================================================================
