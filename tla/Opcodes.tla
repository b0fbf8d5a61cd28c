------------------------------ MODULE Opcodes ------------------------------
(***************************************************************************)
(* Instructions (src/src/ir/instruction.hpp) and what the virtual machine  *)
(* computes for those that work on values (src/src/vm/interpreter.cpp).    *)
(* The machine does not look at the kind of an operand where the compiler  *)
(* has chosen an opcode by type: it reads that type's field of the value.  *)
(***************************************************************************)
EXTENDS Values

\* The fields an opcode does not use are -1 or empty.  `flag' is what a cast that
\* can fail does then: 0 raises an error, 1 yields null.
Blank == [op |-> "", dest |-> -1, src |-> -1, left |-> -1, right |-> -1, cond |-> -1,
          target |-> -1, flag |-> -1, value |-> None, index |-> -1, name |-> "",
          args |-> << >>, category |-> "", slotType |-> "Unknown", nullable |-> FALSE]

IntOps    == {"ADD", "SUB", "MUL", "DIV", "MOD", "BAND", "BOR", "BXOR", "SHL", "SHR"}
LongOps   == [LADD |-> "ADD", LSUB |-> "SUB", LMUL |-> "MUL", LDIV |-> "DIV", LMOD |-> "MOD",
              LBAND |-> "BAND", LBOR |-> "BOR", LBXOR |-> "BXOR", LSHL |-> "SHL",
              LSHR |-> "SHR"]
DoubleOps == [FADD |-> "ADD", FSUB |-> "SUB", FMUL |-> "MUL", FDIV |-> "DIV"]
SingleOps == [F32ADD |-> "ADD", F32SUB |-> "SUB", F32MUL |-> "MUL", F32DIV |-> "DIV"]
DecimalOps == {"DADD", "DSUB", "DMUL", "DDIV", "DMOD"}
Comparisons == {"LESS", "LESS_EQUAL", "GREATER", "GREATER_EQUAL", "EQUAL_EQUAL", "NOT_EQUAL"}
Loads     == {"LOAD_CONST", "LOAD_STRING", "LOAD_NULL", "LOAD_FLOAT", "LOAD_FLOAT32",
              "LOAD_LONG", "LOAD_DECIMAL"}
Negations == {"BNOT", "LBNOT", "FNEG", "F32NEG", "LNEG", "DNEG"}
Widenings == {"INT_TO_LONG", "INT_TO_FLOAT", "INT_TO_FLOAT32", "FLOAT_TO_FLOAT32",
              "FLOAT32_TO_FLOAT", "INT_TO_DECIMAL", "FLOAT_TO_DECIMAL",
              "CAST_DECIMAL_TO_FLOAT"}
ToStrings == {"CAST_INT_TO_STR", "CAST_LONG_TO_STR", "CAST_BOOL_TO_STR", "CAST_FLOAT_TO_STR",
              "CAST_FLOAT32_TO_STR", "CAST_DECIMAL_TO_STR"}
FallibleCasts == {"CAST_STR_TO_INT", "CAST_STR_TO_FLOAT", "CAST_FLOAT_TO_INT_CHECKED",
                  "CAST_INT_TO_BYTE_CHECKED", "CAST_STR_TO_LONG", "CAST_STR_TO_FLOAT32",
                  "CAST_FLOAT_TO_LONG_CHECKED", "LONG_TO_INT_CHECKED",
                  "CAST_DECIMAL_TO_INT", "CAST_STR_TO_DECIMAL"}

\* An outcome: a value, or the message of the error that is raised.
Done(v)   == [value |-> v, error |-> ""]
Fail(msg) == [value |-> None, error |-> msg]

ZeroMessage(op) == IF op = "MOD" THEN "mod by zero" ELSE "division by zero"
IntArithmetic(op, a, b) ==
  IF op \in {"DIV", "MOD"} /\ b = 0 THEN Fail(ZeroMessage(op))
  ELSE Done(FromInt(WrapOp(op, a, b, IntBits)))
LongArithmetic(op, a, b) ==
  IF op \in {"DIV", "MOD"} /\ b = 0 THEN Fail(ZeroMessage(op))
  ELSE Done(FromLong(WrapOp(op, a, b, LongBits)))
DoubleArithmetic(op, g, h) ==
  IF op = "DIV" /\ h = 0 THEN Fail("float division by zero")
  ELSE Done(FromFloat(FloatOp(op, g, h)))
SingleArithmetic(op, g, h) ==
  IF op = "DIV" /\ Single(h) = 0 THEN Fail("float division by zero")
  ELSE Done(FromFloat32(FloatOp(op, Single(g), Single(h))))
DecimalZeroMessage(op) == IF op = "DMOD" THEN "decimal modulo by zero" ELSE "decimal division by zero"
DecimalArithmetic(op, a, b) ==
  IF op \in {"DDIV", "DMOD"} /\ b.coeff = 0 THEN Fail(DecimalZeroMessage(op))
  ELSE IF IsOverflow(DecimalOp(op, a, b)) THEN Fail("decimal overflow")
  ELSE Done(FromDecimal(DecimalOp(op, a, b)))

\* Null equals null only; objects and dates are compared before strings, and
\* strings when the left operand is one.
ValuesEqual(l, r) ==
  LET Either(k) == l.kind = k \/ r.kind = k
      Both(k)   == l.kind = k /\ r.kind = k
  IN  IF Either("Null") THEN Both("Null")
      ELSE IF Either("Ref") THEN l.ref = r.ref
      ELSE IF Both("Date") THEN l.long = r.long
      ELSE IF l.kind = "String" THEN l.str = r.str
      ELSE IF Either("Decimal") THEN DecimalEqual(l.dec, r.dec)
      ELSE IF IsFloaty(l) \/ IsFloaty(r) THEN AsDouble(l) = AsDouble(r)
      ELSE AsI64(l) = AsI64(r)
ValueLess(l, r) ==
  IF l.kind = "Date" /\ r.kind = "Date" THEN l.long < r.long
  ELSE IF l.kind = "Decimal" \/ r.kind = "Decimal" THEN DecimalLess(l.dec, r.dec)
  ELSE IF IsFloaty(l) \/ IsFloaty(r) THEN AsDouble(l) < AsDouble(r)
  ELSE AsI64(l) < AsI64(r)
Compare(op, l, r) ==
  CASE op = "LESS"          -> ValueLess(l, r)
    [] op = "LESS_EQUAL"    -> ~ValueLess(r, l)
    [] op = "GREATER"       -> ValueLess(r, l)
    [] op = "GREATER_EQUAL" -> ~ValueLess(l, r)
    [] op = "EQUAL_EQUAL"   -> ValuesEqual(l, r)
    [] op = "NOT_EQUAL"     -> ~ValuesEqual(l, r)

Negate(op, v) ==
  CASE op = "BNOT"   -> FromInt(-v.int - 1)
    [] op = "LBNOT"  -> FromLong(-v.long - 1)
    [] op = "FNEG"   -> FromFloat(-v.float)
    [] op = "F32NEG" -> FromFloat32(-Single(v.float))
    [] op = "LNEG"   -> FromLong(Wrap(-v.long, LongBits))
    [] op = "DNEG"   -> FromDecimal(Scaled(Wrap(-v.dec.coeff, LongBits), v.dec.exp))

WidenValue(op, v) ==
  CASE op = "INT_TO_LONG"      -> FromLong(v.int)
    [] op = "INT_TO_FLOAT"     -> FromFloat(2 * v.int)
    [] op = "INT_TO_FLOAT32"   -> FromFloat32(2 * v.int)
    [] op = "FLOAT_TO_FLOAT32" -> FromFloat32(v.float)
    [] op = "FLOAT32_TO_FLOAT" -> FromFloat(v.float)
    [] op = "INT_TO_DECIMAL"   -> FromDecimal(Normal(v.int, 0))
    [] op = "FLOAT_TO_DECIMAL" -> FromDecimal(FromHalves(v.float))
    [] op = "CAST_DECIMAL_TO_FLOAT" -> FromFloat(ToHalves(v.dec))

ToText(op, v) ==
  CASE op = "CAST_INT_TO_STR"     -> WholeText(v.int)
    [] op = "CAST_LONG_TO_STR"    -> WholeText(v.long)
    [] op = "CAST_BOOL_TO_STR"    -> Word(IF v.int # 0 THEN "true" ELSE "false")
    [] op = "CAST_DECIMAL_TO_STR" -> NumberText(v.dec)
    [] OTHER                      -> HalvesText(v.float)

\* Whether a cast succeeds, and its value when it does.
CastFits(op, v) ==
  CASE op = "CAST_STR_TO_INT"  -> IsWhole(v.str) /\ InRange(WholeOf(v.str), IntMax)
    [] op = "CAST_STR_TO_LONG" -> IsWhole(v.str) /\ InRange(WholeOf(v.str), LongMax)
    [] op \in {"CAST_STR_TO_FLOAT", "CAST_STR_TO_FLOAT32"} -> IsNumber(v.str)
    [] op = "CAST_STR_TO_DECIMAL"        -> IsNumber(v.str) \/ v.str = << >>
    [] op = "CAST_FLOAT_TO_INT_CHECKED"  -> -2 * (IntMax + 1) <= v.float /\ v.float <= 2 * IntMax
    [] op = "CAST_FLOAT_TO_LONG_CHECKED" ->
         -2 * (LongMax + 1) <= v.float /\ v.float < 2 * (LongMax + 1)
    [] op = "CAST_INT_TO_BYTE_CHECKED"   -> 0 <= v.int /\ v.int <= ByteMax
    [] op = "LONG_TO_INT_CHECKED"        -> InRange(v.long, IntMax)
    [] op = "CAST_DECIMAL_TO_INT"        -> InRange(Truncate(v.dec).coeff, IntMax)
CastValue(op, v) ==
  CASE op = "CAST_STR_TO_INT"            -> FromInt(WholeOf(v.str))
    [] op = "CAST_STR_TO_LONG"           -> FromLong(WholeOf(v.str))
    [] op = "CAST_STR_TO_FLOAT"          -> FromFloat(ToHalves(v.str[1].number))
    [] op = "CAST_STR_TO_FLOAT32"        -> FromFloat32(ToHalves(v.str[1].number))
    [] op = "CAST_STR_TO_DECIMAL"        ->
         FromDecimal(IF v.str = << >> THEN Zero
                     ELSE CutTo(v.str[1].number.coeff, v.str[1].number.exp))
    [] op = "CAST_FLOAT_TO_INT_CHECKED"  -> FromInt(Quotient(v.float, 2))
    [] op = "CAST_FLOAT_TO_LONG_CHECKED" -> FromLong(Quotient(v.float, 2))
    [] op = "CAST_INT_TO_BYTE_CHECKED"   -> FromInt(v.int)
    [] op = "LONG_TO_INT_CHECKED"        -> FromInt(v.long)
    [] op = "CAST_DECIMAL_TO_INT"        -> FromInt(Truncate(v.dec).coeff)
CastOutcome(ins, v) ==
  IF CastFits(ins.op, v) THEN Done(CastValue(ins.op, v))
  ELSE IF ins.flag = 1 THEN Done(None) ELSE Fail("cast")

\* The outcome of an instruction that only computes: l, r and v are its left,
\* right and source operands.
Outcome(ins, l, r, v) ==
  CASE ins.op \in Loads             -> Done(ins.value)
    [] ins.op = "LOAD_SLOT"         -> Done(v)
    [] ins.op \in IntOps            -> IntArithmetic(ins.op, l.int, r.int)
    [] ins.op \in DOMAIN LongOps    -> LongArithmetic(LongOps[ins.op], l.long, r.long)
    [] ins.op \in DOMAIN DoubleOps  -> DoubleArithmetic(DoubleOps[ins.op], l.float, r.float)
    [] ins.op \in DOMAIN SingleOps  -> SingleArithmetic(SingleOps[ins.op], l.float, r.float)
    [] ins.op \in DecimalOps        -> DecimalArithmetic(ins.op, l.dec, r.dec)
    [] ins.op \in Comparisons       -> Done(FromBool(Compare(ins.op, l, r)))
    [] ins.op \in Negations         -> Done(Negate(ins.op, v))
    [] ins.op \in Widenings         -> Done(WidenValue(ins.op, v))
    [] ins.op \in ToStrings         -> Done(FromString(<<ToText(ins.op, v)>>))
    [] ins.op \in FallibleCasts     -> CastOutcome(ins, v)
    [] ins.op = "STRING_CONCAT"     -> Done(FromString(l.str \o r.str))
Computes(ins) ==
  ins.op \notin {"JMP", "JIF_FALSE", "JIF_TRUE", "CALL", "RETURN", "LOAD_GLOBAL",
                 "STORE_GLOBAL", "CALLHOST", "ARRAY_NEW", "ARRAY_GET", "ARRAY_SET",
                 "STRUCT_NEW", "FIELD_GET", "FIELD_SET"}
=============================================================================
