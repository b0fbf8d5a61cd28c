----------------------------- MODULE JitMachine -----------------------------
(***************************************************************************)
(* Which programs the JIT translates to native code                        *)
(* (src/src/mir/mir_backend.cpp; the others it refuses, with an error) and *)
(* what the native code of a program computes.                             *)
(*                                                                         *)
(* A register holds a number as wide as a longint, a double, a float32 or  *)
(* a pointer: to a boxed string or decimal, whose address is in the field  *)
(* `ref', or to an object of the heap; the null pointer is the number 0.   *)
(* Whether a slot is null is a register of its own.  Code that takes a     *)
(* pointer for a number, a number for a pointer or reads a register that   *)
(* was never written has strayed: what it does then is undefined.          *)
(***************************************************************************)
EXTENDS ValueMachine, FunctionCode

-----------------------------------------------------------------------------
(* Registers have the mode of their slot's type.  An instruction with an    *)
(* operand of another mode ends the compilation, and the program is refused.*)

IsFloatType(t)   == t \in {"Float", "Float32"}
IsPointerType(t) == t \in {"Str", "Decimal", "Ref"}
Mode(t) == CASE t = "Float" -> "D" [] t = "Float32" -> "F" [] OTHER -> "I"

\* The mode of what a trampoline hands back for a value of type t.
PassedMode(t) == IF IsFloatType(t) THEN "D" ELSE "I"

\* The type of the first result a function returns.
RetKind(f) ==
  LET rs == {i \in DOMAIN f.code : f.code[i].op = "RETURN"}
  IN  IF rs = {} THEN "Int" ELSE f.types[f.code[Least(rs)].src]

ComparedMode(l, r) ==
  IF "Float" \in {l, r} THEN "D" ELSE IF "Float32" \in {l, r} THEN "F" ELSE "I"
\* A float32 is widened for these.
TakesDouble == {"FLOAT_TO_DECIMAL", "CAST_FLOAT_TO_INT_CHECKED", "CAST_FLOAT_TO_LONG_CHECKED"}
OperandModes(ins, types) ==
  CASE ins.op \in TakesDouble -> {"D", "F"}
    [] ins.op \in DOMAIN DoubleOps \cup {"FNEG", "FLOAT_TO_FLOAT32", "CAST_FLOAT_TO_STR"} -> {"D"}
    [] ins.op \in DOMAIN SingleOps \cup {"F32NEG", "FLOAT32_TO_FLOAT", "CAST_FLOAT32_TO_STR"} -> {"F"}
    [] ins.op \in Comparisons -> {ComparedMode(types[ins.left], types[ins.right])}
    [] ins.op = "LOAD_SLOT"   -> {Mode(types[ins.dest])}
    [] OTHER                  -> {"I"}
ResultMode(ins, types) ==
  CASE ins.op \in FloatResults  -> "D"
    [] ins.op \in SingleResults -> "F"
    [] ins.op = "LOAD_SLOT"     -> Mode(types[ins.dest])
    [] OTHER                    -> "I"

ModesFit(ins, f, unit) ==
  LET M(s) == Mode(f.types[s])
      Reads == {ins.left, ins.right, ins.src} \ {-1}
  IN  CASE Computes(ins) -> /\ \A s \in Reads : M(s) \in OperandModes(ins, f.types)
                            /\ M(ins.dest) = ResultMode(ins, f.types)
        [] ins.op \in {"JIF_FALSE", "JIF_TRUE"} -> M(ins.cond) = "I"
        [] ins.op = "CALL" ->
             LET callee == unit[ins.name]
             IN  /\ Len(ins.args) = callee.params
                 /\ \A i \in DOMAIN ins.args : M(ins.args[i]) = Mode(callee.types[i - 1])
                 /\ M(ins.dest) = Mode(RetKind(callee))
        [] ins.op = "RETURN" -> M(ins.src) = Mode(RetKind(f))
        [] ins.op \in {"LOAD_GLOBAL", "ARRAY_GET", "FIELD_GET"} ->
             M(ins.dest) = PassedMode(ins.slotType) /\ \A s \in Reads : M(s) = "I"
        [] ins.op = "ARRAY_SET" -> M(ins.dest) = "I" /\ M(ins.left) = "I"
        [] ins.op = "FIELD_SET" -> M(ins.dest) = "I"
        [] ins.op = "CALLHOST" /\ ins.dest >= 0 -> (M(ins.dest) # "I") = IsFloatType(ins.slotType)
        [] OTHER -> TRUE

\* wholeProgramSupported: a slot that may be null is only used where the null
\* is looked at.
MaxHostArgs == 8
SeesNull == Comparisons \cup FallibleCasts \cup ToStrings \cup
            {"RETURN", "FIELD_GET", "ARRAY_GET", "ARRAY_SET", "LOAD_NULL", "LOAD_SLOT"}
Supported(ins, f) ==
  LET T(s) == f.types[s]
  IN  /\ ins.op \in {"ARRAY_GET", "FIELD_GET"} => ins.slotType # "Unknown"
      /\ ins.op = "RETURN" => ins.src >= 0
      /\ ins.op = "CALLHOST" => /\ Len(ins.args) <= MaxHostArgs
                                /\ ins.name \in {"pop", "remove"} => ins.slotType # "Unknown"
      /\ ins.op = "LOAD_GLOBAL"  => T(ins.dest) # "Date"
      /\ ins.op = "STORE_GLOBAL" => T(ins.src) # "Date"
      /\ ins.op \in {"LESS", "LESS_EQUAL", "GREATER", "GREATER_EQUAL"} =>
           "Str" \notin {T(ins.left), T(ins.right)}
      /\ ins.op \notin SeesNull => {ins.left, ins.right, ins.src} \cap f.nullable = {}

Compilable(unit) ==
  \A n \in DOMAIN unit : \A i \in DOMAIN unit[n].code :
    Supported(unit[n].code[i], unit[n]) /\ ModesFit(unit[n].code[i], unit[n], unit)

-----------------------------------------------------------------------------
(* The functions whose code looks for an error after every instruction:     *)
(* those with an instruction that can raise one, and their callers.         *)

RaisesItself(f) ==
  \E i \in DOMAIN f.code :
    f.code[i].op \in FallibleCasts \cup
      {"DIV", "MOD", "FDIV", "LDIV", "LMOD", "F32DIV", "DDIV", "DMOD", "ARRAY_GET", "ARRAY_SET",
       "CALLHOST"}
RECURSIVE RaisingFrom(_, _)
RaisingFrom(unit, fs) ==
  LET more == {n \in DOMAIN unit : \E i \in DOMAIN unit[n].code :
                 unit[n].code[i].op = "CALL" /\ unit[n].code[i].name \in fs}
  IN  IF more \subseteq fs THEN fs ELSE RaisingFrom(unit, fs \cup more)
Raising(unit) == RaisingFrom(unit, {n \in DOMAIN unit : RaisesItself(unit[n])})

-----------------------------------------------------------------------------
(* The machine.                                                             *)

Unset   == [None EXCEPT !.kind = "Unset"]
Held(n) == FromLong(n)

\* A register as the operand of an operation, and its result in a register.
Operand(x) == IF x.kind = "LongInt" THEN [x EXCEPT !.int = x.long] ELSE x
Native(v)  == IF v.kind = "Int" THEN Held(v.int) ELSE v

\* Strings and decimals that are computed are boxed at an address of their own.
IsBoxed(v)  == v.kind \in {"String", "Decimal"}
At_(v, a)   == IF IsBoxed(v) THEN [v EXCEPT !.ref = a] ELSE v
Unboxed(x)  == IF IsBoxed(x) THEN [x EXCEPT !.ref = 0] ELSE x

\* A frame: the slots that hold null are in `nulls'.
JitFrame(prog, fn, args, nulls, dest) ==
  [fn |-> fn, ip |-> 1, dest |-> dest, nulls |-> nulls,
   slots |-> [s \in 0..(prog[fn].count - 1) |-> IF s < Len(args) THEN args[s + 1] ELSE Unset]]

\* A global variable has a place for a number, for a double and for a pointer.
\* `made' counts the boxes; `retNull' is whether the last result was null.
JitStarted(prog, globals) ==
  [frames |-> <<JitFrame(prog, "main", << >>, {}, -1)>>, heap |-> << >>, out |-> << >>,
   error |-> "", globals |-> [n \in globals |-> [I |-> Held(0), D |-> FromFloat(0), P |-> Held(0)]],
   retNull |-> FALSE, made |-> 0, strayed |-> FALSE]

JitFinished(j) == j.frames = << >> \/ j.strayed
Stray(j)       == [j EXCEPT !.strayed = TRUE]

-----------------------------------------------------------------------------
(* Instructions that compute.                                               *)

\* What an operand has to be for the code not to stray.
OperandKinds(op) ==
  CASE op \in DecimalOps \cup {"DNEG", "CAST_DECIMAL_TO_STR", "CAST_DECIMAL_TO_INT",
                               "CAST_DECIMAL_TO_FLOAT"} -> {"Decimal"}
    [] op \in {"STRING_CONCAT", "CAST_STR_TO_INT", "CAST_STR_TO_LONG", "CAST_STR_TO_FLOAT",
               "CAST_STR_TO_FLOAT32", "CAST_STR_TO_DECIMAL"} -> {"String"}
    [] op \in DOMAIN DoubleOps \cup DOMAIN SingleOps \cup TakesDouble \cup
              {"FNEG", "F32NEG", "FLOAT_TO_FLOAT32", "FLOAT32_TO_FLOAT", "CAST_FLOAT_TO_STR",
               "CAST_FLOAT32_TO_STR"} -> {"Float", "Float32"}
    [] OTHER -> {"LongInt"}

\* An overflow is an error, but the result is stored all the same.
NativeDecimal(op, a, b) ==
  IF op \in {"DDIV", "DMOD"} /\ b.coeff = 0 THEN Fail(DecimalZeroMessage(op))
  ELSE [value |-> FromDecimal(DecimalOp(op, a, b)),
        error |-> IF op \in {"DADD", "DSUB", "DMUL"} /\ IsOverflow(DecimalOp(op, a, b))
                  THEN "decimal overflow" ELSE ""]

\* The operations on ints take the lower half of their registers, but for those
\* that work bit by bit.  Only the whole divisor is compared with zero.
NativeInt(op, m, n) ==
  IF op \in {"BAND", "BOR", "BXOR"} THEN Done(Held(WrapOp(op, m, n, LongBits)))
  ELSE IF op \in {"DIV", "MOD"} /\ n = 0 THEN Fail(ZeroMessage(op))
  ELSE Done(Held(WrapOp(op, Wrap(m, IntBits), Wrap(n, IntBits), IntBits)))

\* A null of a failed cast leaves the register as it happens to be.
NativeCast(ins, v) ==
  LET o == CastOutcome(ins, v)
  IN  IF o.error = "" /\ o.value.kind = "Null" THEN Done(Unset) ELSE o

NativeOutcome(ins, l, r, v) ==
  CASE ins.op = "LOAD_NULL"        -> Done(Held(0))
    [] ins.op \in Loads \ {"LOAD_NULL"} -> Done(ins.value)
    [] ins.op \in IntOps           -> NativeInt(ins.op, l.long, r.long)
    [] ins.op \in DecimalOps       -> NativeDecimal(ins.op, l.dec, r.dec)
    [] ins.op \in FallibleCasts    -> NativeCast(ins, v)
    [] OTHER                       -> Outcome(ins, l, r, v)

\* The least int divided by a register whose lower half is 0 traps.
Traps(ins, l, r) ==
  ins.op \in {"DIV", "MOD"} /\ r.long # 0 /\ Wrap(r.long, IntBits) = 0

\* Equality where a slot may be null: of the registers, whatever they hold.
NullEquality(x, y, xNull, yNull) ==
  (xNull /\ yNull) \/ (x = y /\ ~xNull /\ ~yNull)
Compared(ins, x, y, f, nulls) ==
  LET types == {f.types[ins.left], f.types[ins.right]}
      Equality == ins.op \in {"EQUAL_EQUAL", "NOT_EQUAL"}
      Equal == NullEquality(x, y, ins.left \in nulls, ins.right \in nulls)
  IN  IF Equality /\ {ins.left, ins.right} \cap f.nullable # {}
      THEN Equal = (ins.op = "EQUAL_EQUAL")
      ELSE IF Equality /\ types \cap {"Decimal", "Str"} = {} THEN (x = y) = (ins.op = "EQUAL_EQUAL")
      ELSE Compare(ins.op, x, y)
\* What is compared is a number or a pointer, as the types of the slots say.
ComparesWell(ins, x, y, f, nulls) ==
  LET types == {f.types[ins.left], f.types[ins.right]}
      Equality == ins.op \in {"EQUAL_EQUAL", "NOT_EQUAL"}
      Both(K)  == x.kind \in K /\ y.kind \in K
  IN  CASE Equality /\ {ins.left, ins.right} \cap f.nullable # {} ->
             \/ {ins.left, ins.right} \cap nulls # {}
             \/ x.kind # "Unset" /\ y.kind # "Unset"
        [] OTHER -> CASE "Decimal" \in types         -> Both({"Decimal"})
                      [] "Str" \in types /\ "Decimal" \notin types -> Both({"String"})
                      [] types \cap {"Decimal", "Str"} = {} ->
                           \/ Both({"LongInt"}) \/ Both({"Float"}) \/ Both({"Float32"})
                           \/ Equality /\ Both({"LongInt", "Ref"})
-----------------------------------------------------------------------------
(* The null flags.                                                          *)

\* A wrong variant: a write of a value leaves the flag of an earlier null.
FlaggedForGood(j, f, dest, isNull) ==
  IF dest \notin f.nullable \/ ~isNull THEN j
  ELSE [j EXCEPT !.frames[Len(j.frames)].nulls = @ \cup {dest}]

\* A slot that may be null has its flag set anew by every write to it.
Flagged(j, f, dest, isNull) ==
  IF dest \notin f.nullable THEN j
  ELSE [j EXCEPT !.frames[Len(j.frames)].nulls = IF isNull THEN @ \cup {dest} ELSE @ \ {dest}]
Write(j, f, dest, v, isNull) == Flagged(Put(j, dest, v), f, dest, isNull)

\* Whether a computation leaves null in its slot.
LeavesNull(ins, o, nulls) ==
  \/ ins.op = "LOAD_NULL"
  \/ ins.op = "LOAD_SLOT" /\ ins.src \in nulls
  \/ ins.op \in FallibleCasts /\ o.value.kind = "Unset"

\* The address of a constant is that of its instruction, of any other result new.
AddressOf(ins, j) ==
  IF ins.op = "LOAD_STRING" THEN 0 ELSE IF ins.op = "LOAD_DECIMAL" THEN -Top(j).ip ELSE j.made + 1

JitCompute(j, ins, f, s) ==
  LET X(slot) == IF slot < 0 THEN None ELSE Operand(s[slot])
      nulls   == Top(j).nulls
      Result(o) == [Write(Advance(j), f, ins.dest,
                          IF ins.op = "LOAD_SLOT" THEN Native(o.value)
                          ELSE Native(At_(o.value, AddressOf(ins, j))),
                          LeavesNull(ins, o, nulls))
                    EXCEPT !.error = IF o.error = "" THEN @ ELSE o.error, !.made = @ + 1]
      Reads == {ins.left, ins.right, ins.src} \ {-1}
  IN  CASE ins.op \in Comparisons ->
             IF ~ComparesWell(ins, s[ins.left], s[ins.right], f, nulls) THEN Stray(j)
             ELSE Result(Done(FromBool(Compared(ins, s[ins.left], s[ins.right], f, nulls))))
        [] ins.op = "LOAD_SLOT" -> Result(Done(s[ins.src]))
        [] OTHER ->
             IF (\E r \in Reads : s[r].kind \notin OperandKinds(ins.op))
                \/ Traps(ins, X(ins.left), X(ins.right))
             THEN Stray(j)
             ELSE Result(NativeOutcome(ins, X(ins.left), X(ins.right), X(ins.src)))

-----------------------------------------------------------------------------
(* Values that pass between registers and the heap or the host.             *)

\* What a value of the heap becomes in a register for a slot of the type t.
Passed(v, t, address) ==
  CASE IsFloatType(t)   -> IF v.kind \in {"String", "Decimal", "Ref"} THEN Unset
                           ELSE FromFloat(AsDouble(v))
    [] IsPointerType(t) -> IF IsBoxed(v) THEN At_(v, address)
                           ELSE IF v.kind = "Ref" /\ v.ref # 0 THEN v ELSE Held(0)
    [] OTHER            -> Held(AsI64(v))
\* What a register of the type t becomes in the heap; a box loses its address.
Written(x, t) ==
  CASE IsPointerType(t) -> IF x.kind = "LongInt" THEN FromRef(0) ELSE Unboxed(x)
    [] IsFloatType(t)   -> FromFloat(x.float)
    [] OTHER            -> [FromLong(x.long) EXCEPT !.int = Wrap(x.long, IntBits)]
\* Whether a register can be taken for a value of the type t.
IsOfType(x, t) ==
  CASE IsFloatType(t)   -> IsFloaty(x)
    [] IsPointerType(t) -> x.kind \in {"String", "Decimal", "Ref"} \/ x = Held(0)
    [] OTHER            -> x.kind = "LongInt"

JitFailed(j, msg) == [Advance(j) EXCEPT !.error = msg]

\* An array's elements of a kind other than Ref take no string or decimal.
StoredAt(a, v) == Stored(a.elem, IF a.elem = "Ref" \/ ~IsBoxed(v) THEN v ELSE FromRef(1))

JitElement(j, ins, f, arr, i) ==
  IF i.kind # "LongInt" \/ (arr.kind # "Ref" /\ arr # Held(0)) THEN Stray(j)
  ELSE IF arr = Held(0) THEN JitFailed(j, "index out of bounds")
  ELSE LET a == j.heap[arr.ref]
       IN  IF i.long < 0 \/ i.long >= Len(a.items) THEN JitFailed(j, "index out of bounds")
           ELSE CASE ins.op = "ARRAY_GET" ->
                       [Write(Advance(j), f, ins.dest,
                              Passed(a.items[i.long + 1], ins.slotType, j.made + 1), FALSE)
                        EXCEPT !.made = @ + 1]
                  [] ins.op = "ARRAY_SET" ->
                       LET v == Top(j).slots[ins.right]
                           t == f.types[ins.right]
                       IN  IF ~IsOfType(v, t) THEN Stray(j)
                           ELSE [Advance(j) EXCEPT !.heap[arr.ref].items[i.long + 1] =
                                   StoredAt(a, Written(v, t))]

JitField(j, ins, f, obj) ==
  IF ~IsStructRef(j.heap, obj) THEN Stray(j)
  ELSE LET v == j.heap[obj.ref].fields[ins.name]
       IN  CASE ins.op = "FIELD_GET" ->
                  [Write(Advance(j), f, ins.dest, Passed(v, ins.slotType, j.made + 1),
                         v.kind = "Null") EXCEPT !.made = @ + 1]
             [] ins.op = "FIELD_SET" ->
                  LET x == Top(j).slots[ins.right]
                      t == f.types[ins.right]
                  IN  IF ~IsOfType(x, t) THEN Stray(j)
                      ELSE [Advance(j) EXCEPT !.heap[obj.ref].fields[ins.name] = Written(x, t)]

JitNew(j, f, ins, obj) ==
  LET o == Allocates(obj, j.heap)
  IN  Write([Advance(j) EXCEPT !.heap = o.heap], f, ins.dest, o.value, FALSE)

\* An argument for the host is a value of its slot's type, or null.
HostArgument(x, t, isNull) ==
  CASE isNull -> None
    [] ~isNull /\ t = "Int"     -> FromInt(Wrap(x.long, IntBits))
    [] ~isNull /\ t = "Float32" -> FromFloat32(x.float)
    [] ~isNull /\ t = "LongInt" -> FromLong(x.long)
    [] ~isNull /\ t = "Str" /\ x = Held(0) -> FromString(<< >>)
    [] ~isNull /\ t = "Decimal" /\ x = Held(0) -> FromDecimal(Zero)
    [] OTHER -> Written(x, t)
\* The host takes a pointer for one to a box of the slot's type.
HostTakes(x, t) ==
  /\ IsOfType(x, t)
  /\ t = "Str" => x.kind \in {"String", "LongInt"}
  /\ t = "Decimal" => x.kind \in {"Decimal", "LongInt"}
  /\ t = "Ref" => x.kind \in {"Ref", "LongInt"}
HostResult(v, t, address) ==
  CASE v.kind = "Null" -> Passed(FromInt(0), t, address)
    [] v.kind # "Null" /\ IsFloaty(v) = IsFloatType(t) ->
         IF t = "Float32" THEN FromFloat32(v.float)
         ELSE IF IsBoxed(v) \/ v.kind = "Ref" THEN At_(v, address)
         ELSE Passed(v, t, address)
    [] OTHER -> Unset

JitCallHost(j, ins, f, s) ==
  LET Types == [i \in DOMAIN ins.args |-> f.types[ins.args[i]]]
      Nulls == [i \in DOMAIN ins.args |-> ins.args[i] \in Top(j).nulls]
      args  == [i \in DOMAIN ins.args |-> HostArgument(s[ins.args[i]], Types[i], Nulls[i])]
      o     == MethodResult(ins.category, ins.name, args, j.heap)
  IN  IF \E i \in DOMAIN ins.args : ~Nulls[i] /\ ~HostTakes(s[ins.args[i]], Types[i])
      THEN Stray(j)
      ELSE IF ins.name = "print"
      THEN Advance([j EXCEPT !.out = Append(@, Shown(args[1]))])
      ELSE IF o.error # "" THEN JitFailed(j, o.error)
      ELSE [Write([Advance(j) EXCEPT !.heap = o.heap], f, ins.dest,
                  HostResult(o.value, ins.slotType, j.made + 1), o.value.kind = "Null")
            EXCEPT !.made = @ + 1]
-----------------------------------------------------------------------------
(* Global variables, calls and steps.                                       *)

PlaceOf(t) == CASE IsFloatType(t) -> "D" [] IsPointerType(t) -> "P" [] OTHER -> "I"

\* The place read is that of the variable's type, the one written that of the slot's.
JitLoadGlobal(j, ins, f) ==
  Write(Advance(j), f, ins.dest, j.globals[ins.name][PlaceOf(ins.slotType)], FALSE)
JitStoreGlobal(j, ins, f, s) ==
  LET t == f.types[ins.src]
  IN  IF ~IsOfType(s[ins.src], t) THEN Stray(j)
      ELSE [Advance(j) EXCEPT !.globals[ins.name][PlaceOf(t)] =
              IF IsFloatType(t) THEN FromFloat(s[ins.src].float) ELSE s[ins.src]]

\* The arguments' null flags are read by the parameters that may be null.
JitCall(prog, j, ins, s) ==
  LET nulls == {i - 1 : i \in {k \in DOMAIN ins.args : ins.args[k] \in Top(j).nulls}}
  IN  IF \E i \in DOMAIN ins.args : s[ins.args[i]].kind = "Unset" /\ i - 1 \notin nulls
      THEN Stray(j)
      ELSE [Advance(j) EXCEPT !.frames =
              Append(@, JitFrame(prog, ins.name, [i \in DOMAIN ins.args |-> s[ins.args[i]]],
                                 nulls \cap prog[ins.name].nullable, ins.dest))]

\* The caller takes the value v, and whether it is null if its slot may be null.
JitLeave(prog, j, v, isNull) ==
  LET below == [j EXCEPT !.frames = Front(@), !.retNull = isNull]
  IN  IF below.frames = << >> THEN below
      ELSE Write(below, prog[Top(below).fn], Top(j).dest, v, isNull)

ZeroOf(f) == CASE Mode(RetKind(f)) = "D" -> FromFloat(0) [] Mode(RetKind(f)) = "F" -> FromFloat32(0)
               [] OTHER -> Held(0)

JitJump(j, ins, f, s) ==
  LET c == s[ins.cond]
      taken == (c # Held(0)) = (ins.op = "JIF_TRUE")
  IN  IF c.kind = "Unset" THEN Stray(j) ELSE IF taken THEN Goto(j, ins.target) ELSE Advance(j)

JitExecute(prog, j, ins, f, s) ==
  CASE Computes(ins)          -> JitCompute(j, ins, f, s)
    [] ins.op = "JMP"         -> Goto(j, ins.target)
    [] ins.op \in {"JIF_FALSE", "JIF_TRUE"} -> JitJump(j, ins, f, s)
    [] ins.op = "CALL"        -> JitCall(prog, j, ins, s)
    [] ins.op = "RETURN"      -> JitLeave(prog, j, s[ins.src], ins.src \in Top(j).nulls)
    [] ins.op = "CALLHOST"    -> JitCallHost(j, ins, f, s)
    [] ins.op = "LOAD_GLOBAL" -> JitLoadGlobal(j, ins, f)
    [] ins.op = "STORE_GLOBAL" -> JitStoreGlobal(j, ins, f, s)
    [] ins.op = "ARRAY_NEW"   -> JitNew(j, f, ins, ArrayObject(ins.name, Filled(ins.name, ins.index)))
    [] ins.op = "STRUCT_NEW"  -> JitNew(j, f, ins, StructObject(NewFields(ins.name)))
    [] ins.op = "ARRAY_GET"   -> JitElement(j, ins, f, s[ins.left], s[ins.right])
    [] ins.op = "ARRAY_SET"   -> JitElement(j, ins, f, s[ins.dest], s[ins.left])
    [] ins.op = "FIELD_GET"   -> JitField(j, ins, f, s[ins.src])
    [] ins.op = "FIELD_SET"   -> JitField(j, ins, f, s[ins.dest])

\* An error leaves the functions that look for one, before their next instruction.
\* raising: those functions.
JitStep(prog, raising, j) ==
  IF AtEnd(prog, j) \/ (j.error # "" /\ Top(j).fn \in raising)
  THEN JitLeave(prog, j, ZeroOf(prog[Top(j).fn]), j.retNull)
  ELSE JitExecute(prog, j, Current(prog, j), prog[Top(j).fn], Top(j).slots)
=============================================================================
