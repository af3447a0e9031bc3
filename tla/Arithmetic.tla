----------------------------- MODULE Arithmetic -----------------------------
(***************************************************************************)
(* The arithmetic of values (mathop_... in builtins.c): two's complement   *)
(* of ValueBits bits, 64 in the code.                                      *)
(*                                                                         *)
(* C leaves some results open.  Where it does, this is what the build for  *)
(* x86-64 gives: sums, differences and products wrap around, a shift looks *)
(* at the low bits of its count only, and a division without a result      *)
(* stops the program.                                                      *)
(***************************************************************************)
EXTENDS Integers, FiniteSetsExt

CONSTANT ValueBits
ASSUME ValueBitsAssumption == ValueBits \in Nat /\ ValueBits >= 2

Half == 2 ^ (ValueBits - 1)
Size == 2 * Half
MinValue == -Half
MaxValue == Half - 1

(* The casts: to u_value_t, and of any result to value_t.                  *)
Unsigned(a) == a % Size
Wrapped(n) == ((n + Half) % Size) - Half

HighBit(a) == Unsigned(a) >= Half

(* Division cuts off towards zero; the remainder has the sign of a.        *)
Magnitude(a) == IF a < 0 THEN -a ELSE a
Quotient(a, b) ==
    LET q == Magnitude(a) \div Magnitude(b) IN IF (a < 0) = (b < 0) THEN q ELSE -q
Remainder(a, b) == a - b * Quotient(a, b)
Traps(a, b) == b = 0 \/ (a = MinValue /\ b = -1)

(* The bit operators work on each bit alone.                               *)
Bit(a, i) == (Unsigned(a) \div 2 ^ i) % 2 = 1
BitIndex == 0..ValueBits - 1
FromBits(bit) == Wrapped(MapThenSumSet(LAMBDA i : IF bit[i] THEN 2 ^ i ELSE 0, BitIndex))
Shift(b) == 2 ^ (b % ValueBits)

Predicates == {"eq?", "lt?", "gt?", "ult?", "ugt?", "addc"}

Holds(f, a, b) ==
    CASE f = "eq?"  -> a = b
      [] f = "lt?"  -> a < b
      [] f = "gt?"  -> a > b
      [] f = "ult?" -> Unsigned(a) < Unsigned(b)
      [] f = "ugt?" -> Unsigned(a) > Unsigned(b)
      [] f = "addc" -> HighBit(a) /\ HighBit(b)

Operations ==
    {"add", "sub", "mul", "div", "rem",
     "b_and", "b_or", "b_nand", "b_xor", "b_shl", "b_shr", "b_shra"}

Computed(f, a, b) ==
    CASE f = "add"    -> Wrapped(a + b)
      [] f = "sub"    -> Wrapped(a - b)
      [] f = "mul"    -> Wrapped(a * b)
      [] f = "div"    -> Quotient(a, b)
      [] f = "rem"    -> Remainder(a, b)
      [] f = "b_and"  -> FromBits([i \in BitIndex |-> Bit(a, i) /\ Bit(b, i)])
      [] f = "b_or"   -> FromBits([i \in BitIndex |-> Bit(a, i) \/ Bit(b, i)])
      [] f = "b_nand" -> FromBits([i \in BitIndex |-> ~(Bit(a, i) /\ Bit(b, i))])
      [] f = "b_xor"  -> FromBits([i \in BitIndex |-> Bit(a, i) # Bit(b, i)])
      [] f = "b_shl"  -> Wrapped(Unsigned(a) * Shift(b))
      [] f = "b_shr"  -> Wrapped(Unsigned(a) \div Shift(b))
      [] f = "b_shra" -> a \div Shift(b)
=============================================================================
