------------------------------- MODULE Values -------------------------------
(***************************************************************************)
(* Values of the virtual machine (src/src/vm/value.hpp) and the arithmetic *)
(* they are computed with: integers that wrap, binary floating point and   *)
(* decimals (src/src/core/decimal.hpp, src/src/data/decimal_core.hpp).     *)
(*                                                                         *)
(* The widths are those of Types; a decimal's coefficient is as wide as a  *)
(* longint and its Digits are the decimal places that always fit in one.   *)
(* A floating value counts in halves and has a bound beyond which it is    *)
(* rounded to fewer significant bits: a float32 sooner than a double.      *)
(***************************************************************************)
EXTENDS Types, Bitwise

CONSTANTS Digits,        \* 10^Digits fits in a longint
          PrintedDigits, \* the significant digits of a double that is written as text
          SingleMax,     \* the halves a float32 represents exactly
          DoubleMax      \* the halves a double represents exactly

ASSUME PrecisionAssumption ==
  /\ {Digits, PrintedDigits, SingleMax, DoubleMax} \subseteq Nat \ {0}
  /\ 10^Digits <= LongMax /\ PrintedDigits <= Digits
  /\ SingleMax < DoubleMax /\ 2 * IntMax < DoubleMax

-----------------------------------------------------------------------------
(* Integers.                                                                *)

Sign(n) == IF n < 0 THEN -1 ELSE 1
Size(n) == IF n < 0 THEN -n ELSE n

\* A C++ quotient is truncated towards zero.
Quotient(a, b)  == Sign(a) * Sign(b) * (Size(a) \div Size(b))
Remainder(a, b) == a - b * Quotient(a, b)

InRange(n, max) == -max - 1 <= n /\ n <= max

\* n in two's complement of the given width, and its bits as a natural number.
Wrap(n, bits) == ((n + 2^(bits - 1)) % 2^bits) - 2^(bits - 1)
Bits(n, bits) == n % 2^bits

WrapOp(op, a, b, bits) ==
  CASE op = "ADD"  -> Wrap(a + b, bits)
    [] op = "SUB"  -> Wrap(a - b, bits)
    [] op = "MUL"  -> Wrap(a * b, bits)
    [] op = "DIV"  -> Wrap(Quotient(a, b), bits)
    [] op = "MOD"  -> Remainder(a, b)
    [] op = "BAND" -> Wrap(Bits(a, bits) & Bits(b, bits), bits)
    [] op = "BOR"  -> Wrap(Bits(a, bits) | Bits(b, bits), bits)
    [] op = "BXOR" -> Wrap(Bits(a, bits) ^^ Bits(b, bits), bits)
    [] op = "SHL"  -> Wrap(a * 2^Bits(b % bits, bits), bits)
    [] op = "SHR"  -> a \div 2^Bits(b % bits, bits)

-----------------------------------------------------------------------------
(* Binary floating point, in halves.                                        *)

\* n / d to the nearest integer, ties to even.
Nearest(n, d) ==
  LET q == n \div d
      r == 2 * (n % d)
  IN  IF r < d \/ (r = d /\ q % 2 = 0) THEN q ELSE q + 1

\* h with no more significant bits than `max' has.
Rounded(h, max) ==
  LET k == CHOOSE k \in 0..16 : Size(h) <= max * 2^k /\ \A j \in 0..(k-1) : Size(h) > max * 2^j
  IN  2^k * Nearest(h, 2^k)
Single(h) == Rounded(h, SingleMax)
Double(h) == Rounded(h, DoubleMax)

\* The result in halves of an operation, before it is rounded.
FloatOp(op, g, h) ==
  CASE op = "ADD" -> g + h
    [] op = "SUB" -> g - h
    [] op = "MUL" -> Nearest(g * h, 2)
    [] op = "DIV" -> Sign(h) * Nearest(2 * g, Size(h))

-----------------------------------------------------------------------------
(* Decimals: coeff * 10^exp, without a zero at the end of coeff.  The       *)
(* coefficient LongMax marks an overflow.                                   *)

Scaled(c, e) == [coeff |-> c, exp |-> e]
Zero         == Scaled(0, 0)
Overflow     == Scaled(LongMax, 0)
IsOverflow(d) == d.coeff = LongMax

RECURSIVE Normal(_, _)
Normal(c, e) ==
  IF c = 0 THEN Zero
  ELSE IF Size(c) % 10 = 0 THEN Normal(Quotient(c, 10), e + 1) ELSE Scaled(c, e)

\* A result that has to fit in the coefficient.
Checked(c, e) == IF InRange(c, LongMax) THEN Normal(c, e) ELSE Overflow

\* fromString: the digits beyond those that always fit are cut off.
RECURSIVE CutTo(_, _)
CutTo(c, e) ==
  IF Size(c) >= 10^Digits THEN CutTo(Quotient(c, 10), e + 1) ELSE Normal(c, e)

\* fromDouble: by way of the text of the double.
RECURSIVE RoundTo(_, _, _)
RoundTo(c, d, e) ==
  IF Size(Nearest(c, d)) >= 10^PrintedDigits THEN RoundTo(c, 10 * d, e + 1)
                                             ELSE Normal(Nearest(c, d), e)
FromHalves(h) == RoundTo(5 * h, 1, -1)
ToHalves(d)   == IF d.exp >= 0 THEN Double(2 * d.coeff * 10^d.exp)
                 ELSE Double(Nearest(2 * d.coeff, 10^(-d.exp)))

\* A coefficient multiplied by a power of ten, or none when that overflows.
Shifted(c, n) == c * 10^n
Fits(c, n)    == n <= Digits /\ (c = 0 \/ Size(Shifted(c, n)) <= LongMax)

DecimalAdd(a, b) ==
  LET high == IF a.exp >= b.exp THEN a ELSE b
      low  == IF a.exp >= b.exp THEN b ELSE a
      diff == high.exp - low.exp
  IN  IF diff > Digits THEN Normal(high.coeff, high.exp)
      ELSE IF ~Fits(high.coeff, diff) /\ diff > 0 THEN Overflow
      ELSE Checked(Shifted(high.coeff, diff) + low.coeff, low.exp)
DecimalSub(a, b) ==
  IF b.coeff = -LongMax - 1 THEN Overflow ELSE DecimalAdd(a, Scaled(-b.coeff, b.exp))
DecimalMul(a, b) ==
  LET c == a.coeff * b.coeff
  IN  IF Size(c) > LongMax \/ (c # 0 /\ -LongMax - 1 \in {a.coeff, b.coeff})
      THEN Overflow ELSE Normal(c, a.exp + b.exp)

\* Long division, one digit a step, while another digit fits.
RECURSIVE LongDivision(_, _, _, _)
LongDivision(q, rem, d, used) ==
  LET digit == (10 * rem) \div d
  IN  IF used = Digits - 1 \/ rem = 0 \/ 10 * q > LongMax - digit
      THEN [q |-> q, used |-> used]
      ELSE LongDivision(10 * q + digit, (10 * rem) % d, d, used + 1)
DecimalDiv(a, b) ==
  LET n == Size(a.coeff)
      d == Size(b.coeff)
      r == LongDivision(n \div d, n % d, d, 0)
  IN  IF r.q > LongMax THEN Overflow
      ELSE Normal(Sign(a.coeff) * Sign(b.coeff) * r.q, a.exp - b.exp - r.used)

Truncate(d) ==
  IF d.exp >= 0 THEN d
  ELSE IF -d.exp > Digits THEN Zero ELSE Scaled(Quotient(d.coeff, 10^(-d.exp)), 0)
DecimalMod(a, b) ==
  LET q    == DecimalDiv(a, b)
      prod == DecimalMul(Truncate(q), b)
  IN  IF IsOverflow(q) \/ IsOverflow(prod) THEN Overflow ELSE DecimalSub(a, prod)

DecimalOp(op, a, b) ==
  CASE op = "DADD" -> DecimalAdd(a, b)
    [] op = "DSUB" -> DecimalSub(a, b)
    [] op = "DMUL" -> DecimalMul(a, b)
    [] op = "DDIV" -> DecimalDiv(a, b)
    [] op = "DMOD" -> DecimalMod(a, b)

\* compareScaled: by sign, and then at the smaller exponent; the side that does
\* not fit there is the larger one.
DecimalLess(a, b) ==
  IF a.exp = b.exp \/ a.coeff = 0 \/ b.coeff = 0 \/ (a.coeff < 0) # (b.coeff < 0)
  THEN a.coeff < b.coeff
  ELSE IF a.exp > b.exp
  THEN IF Fits(a.coeff, a.exp - b.exp) THEN Shifted(a.coeff, a.exp - b.exp) < b.coeff
                                       ELSE a.coeff < 0
  ELSE IF Fits(b.coeff, b.exp - a.exp) THEN a.coeff < Shifted(b.coeff, b.exp - a.exp)
                                       ELSE b.coeff > 0
DecimalEqual(a, b) == ~DecimalLess(a, b) /\ ~DecimalLess(b, a)

-----------------------------------------------------------------------------
(* Strings: sequences of pieces, each a word or the text of a number.       *)

Word(w)       == [word |-> w, number |-> Zero]
NumberText(d) == [word |-> "", number |-> d]
WholeText(n)  == NumberText(Normal(n, 0))
HalvesText(h) == NumberText(Normal(5 * h, -1))

\* The text parses as a number; as a whole number.
IsNumber(str) == Len(str) = 1 /\ str[1].word = ""
IsWhole(str)  == IsNumber(str) /\ str[1].number.exp >= 0
WholeOf(str)  == str[1].number.coeff * 10^str[1].number.exp

-----------------------------------------------------------------------------
(* Values.  All fields of a value can be read whatever its kind is; those   *)
(* of other kinds hold 0, the empty string or no object.                    *)

None == [kind |-> "Null", int |-> 0, long |-> 0, float |-> 0, dec |-> Zero,
         str |-> << >>, ref |-> 0]

FromInt(n)     == [None EXCEPT !.kind = "Int", !.int = n]
FromLong(n)    == [None EXCEPT !.kind = "LongInt", !.long = n]
FromDate(n)    == [None EXCEPT !.kind = "Date", !.long = n]
FromFloat(h)   == [None EXCEPT !.kind = "Float", !.float = Double(h)]
FromFloat32(h) == [None EXCEPT !.kind = "Float32", !.float = Single(h)]
FromDecimal(d) == [None EXCEPT !.kind = "Decimal", !.dec = d]
FromString(s)  == [None EXCEPT !.kind = "String", !.str = s]
FromRef(r)     == [None EXCEPT !.kind = "Ref", !.ref = r]
FromBool(b)    == FromInt(IF b THEN 1 ELSE 0)

IsFloaty(v)  == v.kind \in {"Float", "Float32"}
AsI64(v)     == IF v.kind = "LongInt" THEN v.long ELSE v.int
AsDouble(v)  == IF IsFloaty(v) THEN v.float ELSE 2 * AsI64(v)
IsTruthy(v)  ==
  CASE v.kind = "Int"     -> v.int # 0
    [] v.kind = "LongInt" -> v.long # 0
    [] IsFloaty(v)        -> v.float # 0
    [] v.kind = "Decimal" -> v.dec.coeff # 0
    [] v.kind = "String"  -> v.str # << >>
    [] v.kind = "Ref"     -> v.ref # 0
    [] v.kind = "Null"    -> FALSE
    [] v.kind = "Date"    -> TRUE
=============================================================================
