------------------------------- MODULE StdInt -------------------------------
(***************************************************************************)
(* std/int, the integers of std/math and std/bits in src/bin/fardrun.rs     *)
(* (call_builtin) and crates/valuecore/src/int.rs.                          *)
(***************************************************************************)
EXTENDS StdRec

Ints(args, n, o) == Given(args, [i \in 1 .. n |-> "int"], o)

\* checked_add and its like.
Exact(n) == IF n \in MinInt .. MaxInt THEN Ok(Number(n)) ELSE Err("overflow")
\* A quotient or remainder of MinInt and -1 is an overflow.
ExactDivide(op, m, n) ==
  IF n # 0 /\ m = MinInt /\ n = -1 THEN Err("overflow") ELSE Divide(op, m, n)

IntAdd(args) == Ints(args, 2, Exact(args[1].int + args[2].int))
IntSub(args) == Ints(args, 2, Exact(args[1].int - args[2].int))
IntMul(args) == Ints(args, 2, Exact(args[1].int * args[2].int))
IntDiv(args) == Ints(args, 2, ExactDivide("/", args[1].int, args[2].int))
IntMod(args) == Ints(args, 2, ExactDivide("%", args[1].int, args[2].int))

\* 0 to the power 0 is 1.
Raised(m, n) == IF n = 0 THEN 1 ELSE m ^ n

\* Variant of IntPow: the product is kept in an integer of the language.
IntPowNarrow(args) ==
  Ints(args, 2, IF args[2].int < 0 THEN Err("bad argument") ELSE Ok(Number(Wrap(Raised(args[1].int, args[2].int)))))

\* The product is kept in twice as many bits; the exponent has to fit in half of them.
IntPow(args) ==
  LET n == args[2].int
      small(p) == p \in -(2 ^ (2 * Width - 1)) .. 2 ^ (2 * Width - 1) - 1
      product[i \in Nat] ==  \* 0 after an overflow
        IF i = 0 THEN [fits |-> TRUE, p |-> 1]
        ELSE LET q == product[i - 1] IN
             IF q.fits /\ small(q.p * args[1].int) THEN [fits |-> TRUE, p |-> q.p * args[1].int]
             ELSE [fits |-> FALSE, p |-> 0] IN
  Ints(args, 2, IF n < 0 \/ n >= 2 ^ (Width \div 2) THEN Err("bad argument")
                ELSE IF product[n].fits THEN Exact(product[n].p) ELSE Err("overflow"))

\* These leave an overflow to the build.
IntAbs(args) == First(args, "int", Checked(Abs(args[1].int)))
IntNeg(args) == First(args, "int", Checked(-args[1].int))
MathAbs(args) == Ints(args, 1, Checked(Abs(args[1].int)))

\* The exponent is cut to half of the bits.
MathPow(args) ==
  Ints(args, 2, Checked(Raised(args[1].int, args[2].int % 2 ^ (Width \div 2))))

Greater(m, n) == IF m > n THEN m ELSE n
IntMin(args) == Ints(args, 2, Ok(Number(Lesser(args[1].int, args[2].int))))
IntMax(args) == Ints(args, 2, Ok(Number(Greater(args[1].int, args[2].int))))
IntClamp(args) ==
  Ints(args, 3, Ok(Number(Lesser(Greater(args[1].int, args[2].int), args[3].int))))

IntEq(args) == Ints(args, 2, Ok(Bool(args[1].int = args[2].int)))
IntLt(args) == Ints(args, 2, Ok(Bool(Compare("<", args[1].int, args[2].int))))
IntGt(args) == Ints(args, 2, Ok(Bool(Compare(">", args[1].int, args[2].int))))
IntLe(args) == Ints(args, 2, Ok(Bool(Compare("<=", args[1].int, args[2].int))))
IntGe(args) == Ints(args, 2, Ok(Bool(Compare(">=", args[1].int, args[2].int))))

-----------------------------------------------------------------------------
(* Texts of integers *)

\* The integer that Rust's parse makes of s: the set of it, or none.
Parsed(s) ==
  LET signed == s # <<>> /\ Head(s) \in {"-", "+"}
      digits == IF signed THEN Tail(s) ELSE s
      digit(c) == CHOOSE d \in 0 .. 9 : DigitChars[d + 1] = c
      value == FoldLeft(LAMBDA n, c : 10 * n + digit(c), 0, digits) IN
  IF digits = <<>> \/ ~Range(digits) \subseteq Range(DigitChars) THEN {}
  ELSE {IF s[1] = "-" THEN -value ELSE value} \intersect MinInt .. MaxInt

IntParse(args) ==
  Texts(args, 1, LET ns == Parsed(StrTrim(args).ok.text) IN
                 Ok(IF ns = {} THEN ResultErr(Text(<<"parse">>))
                    ELSE ResultOk(Number(CHOOSE n \in ns : TRUE))))
IntFromText(args) ==
  First(args, "text", LET ns == Parsed(StrTrim(<<args[1]>>).ok.text) IN
                      IF ns = {} THEN Err("parse") ELSE Ok(Number(CHOOSE n \in ns : TRUE)))
\* int(...): white space is not taken away.
CastInt(args) ==
  IF Fits(args, <<"int">>) THEN Ok(args[1])
  ELSE Texts(args, 1, LET ns == Parsed(args[1].text) IN
                      IF ns = {} THEN Err("bad argument") ELSE Ok(Number(CHOOSE n \in ns : TRUE)))

-----------------------------------------------------------------------------
(* Bits, in two's complement *)

Places2 == 0 .. Width - 1
BitsOf(n) == {i \in Places2 : (n \div 2 ^ i) % 2 = 1}
FromBits(bits) == FoldSet(LAMBDA i, n : n + (IF i = Width - 1 THEN -(2 ^ i) ELSE 2 ^ i), 0, bits)

BitAnd(args) == Ints(args, 2, Ok(Number(FromBits(BitsOf(args[1].int) \intersect BitsOf(args[2].int)))))
BitOr(args) == Ints(args, 2, Ok(Number(FromBits(BitsOf(args[1].int) \union BitsOf(args[2].int)))))
BitXor(args) ==
  Ints(args, 2, LET a == BitsOf(args[1].int)  b == BitsOf(args[2].int) IN
                Ok(Number(FromBits((a \ b) \union (b \ a)))))
BitNot(args) == Ints(args, 1, Ok(Number(FromBits(Places2 \ BitsOf(args[1].int)))))
BitPopcount(args) == Ints(args, 1, Ok(Number(Cardinality(BitsOf(args[1].int)))))

\* Only the low bits of the count are used.
BitShl(args) == Ints(args, 2, Ok(Number(Wrap(args[1].int * 2 ^ (args[2].int % Width)))))
BitShr(args) == Ints(args, 2, Ok(Number(args[1].int \div 2 ^ (args[2].int % Width))))
=============================================================================
