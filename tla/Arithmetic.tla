----------------------------- MODULE Arithmetic -----------------------------
(***************************************************************************)
(* Two's complement arithmetic at the three operand sizes of x86.h, and   *)
(* what the operators of the IR mean. A value is the signed number its    *)
(* bits stand for. The code has 8, 32 and 64 bits.                        *)
(***************************************************************************)
EXTENDS Integers, FiniteSetsExt

CONSTANTS ByteBits, IntBits, LongBits

ASSUME BitsAssumption ==
    /\ ByteBits \in Nat \ {0} /\ IntBits \in Nat /\ LongBits \in Nat
    /\ ByteBits < IntBits /\ IntBits < LongBits

CType == {"int", "long"}

\* size_of
SizeOf(ty) == IF ty = "long" THEN "quadword" ELSE "longword"

Bits(size) == CASE size = "byte" -> ByteBits
                [] size = "longword" -> IntBits
                [] size = "quadword" -> LongBits

SignedRange(size) == -(2 ^ (Bits(size) - 1)) .. 2 ^ (Bits(size) - 1) - 1

\* What follows from the widths by the arithmetic of powers of two.
ASSUME PowersAssumption ==
    /\ \A n \in {ByteBits, ByteBits - 1, IntBits - 1, LongBits - 1} : 2 ^ n \in Nat \ {0}
    /\ 2 ^ (ByteBits - 1) <= 2 ^ ByteBits
    /\ 2 ^ ByteBits <= 2 ^ (IntBits - 1)
    /\ 2 ^ (IntBits - 1) <= 2 ^ (LongBits - 1)

\* The number the low bits of v stand for.
Wrap(v, size) == LET half == 2 ^ (Bits(size) - 1)
                 IN ((v + half) % (2 * half)) - half

Bit(v, i) == (v \div 2 ^ i) % 2

OnBits(op, p, q) == CASE op = "BIT_AND" -> p * q
                      [] op = "BIT_OR" -> p + q - p * q
                      [] op = "BIT_XOR" -> (p + q) % 2

BitByBit(op, a, b, size) ==
    Wrap(MapThenSumSet(LAMBDA i : OnBits(op, Bit(a, i), Bit(b, i)) * 2 ^ i,
                       0 .. Bits(size) - 1), size)

\* Division that rounds towards zero, and its remainder.
Magnitude(n) == IF n < 0 THEN -n ELSE n
Quotient(a, b) == LET q == Magnitude(a) \div Magnitude(b)
                  IN IF (a < 0) = (b < 0) THEN q ELSE -q
Remainder(a, b) == a - b * Quotient(a, b)

Comparison == {"EQ", "NE", "LT", "LE", "GT", "GE"}

Compare(op, a, b) == CASE op = "EQ" -> a = b [] op = "NE" -> a # b
                       [] op = "LT" -> a < b [] op = "LE" -> a <= b
                       [] op = "GT" -> a > b [] op = "GE" -> a >= b

Truth(p) == IF p THEN 1 ELSE 0

\* a op b computed at a size.
Meaning(op, size, a, b) ==
    CASE op = "ADD" -> Wrap(a + b, size)
      [] op = "SUB" -> Wrap(a - b, size)
      [] op = "MUL" -> Wrap(a * b, size)
      [] op = "DIV" -> Quotient(a, b)
      [] op = "REM" -> Remainder(a, b)
      [] op \in {"BIT_AND", "BIT_OR", "BIT_XOR"} -> BitByBit(op, a, b, size)
      [] op = "SHL" -> Wrap(a * 2 ^ b, size)
      [] op = "SHR" -> a \div 2 ^ b
      [] op \in Comparison -> Truth(Compare(op, a, b))

\* C gives a op b a value. Overflow of the other operators wraps.
HasMeaning(op, size, a, b) ==
    CASE op \in {"DIV", "REM"} -> b # 0 /\ Quotient(a, b) \in SignedRange(size)
      [] op \in {"SHL", "SHR"} -> b \in 0 .. Bits(size) - 1
      [] OTHER -> TRUE
=============================================================================
