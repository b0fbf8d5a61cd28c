---------------------------- MODULE FunctionCode ----------------------------
(***************************************************************************)
(* The code of a function (src/src/ir/ir_generator.cpp): its expressions   *)
(* and its statements without a loop, where the opcode is chosen by the    *)
(* types the checker has written to the tree; what a declaration without a *)
(* value starts with, the initialisation of the global variables, and the  *)
(* types of the function's slots.  The generator's state g is the code of  *)
(* the function so far, the next free slot, the slots of its variables and *)
(* the global variables in the order they are declared in.                 *)
(***************************************************************************)
EXTENDS Opcodes, SequencesExt

NewFunction(globals) == [code |-> << >>, next |-> 0, names |-> << >>, globals |-> globals]

IsGlobal(g, name) == Contains(g.globals, name)
SlotOf(g, name)   == IF name \in DOMAIN g.names THEN g.names[name] ELSE 0

Register(g, name, slot) == [g EXCEPT !.names = (name :> slot) @@ @]

\* A result: the slot an expression's value is in, and the state.
At(slot, g)      == [slot |-> slot, g |-> g]
Fresh(g)         == At(g.next, [g EXCEPT !.next = @ + 1])
Emit(g, ins)     == [g EXCEPT !.code = Append(@, ins)]
Into(slot, g, ins) == At(slot, Emit(g, [ins EXCEPT !.dest = slot]))
IntoFresh(g, ins)  == Into(g.next, Fresh(g).g, ins)

Load(op, v)     == [Blank EXCEPT !.op = op, !.value = v]
LoadConst(n)    == Load("LOAD_CONST", FromInt(n))
Apply(op, src)  == [Blank EXCEPT !.op = op, !.src = src]
Apply2(op, l, r) == [Blank EXCEPT !.op = op, !.left = l, !.right = r]
CopyOf(src)     == Apply("LOAD_SLOT", src)

LoadGlobal(g, name, t)     == [Blank EXCEPT !.op = "LOAD_GLOBAL", !.name = name, !.slotType = t]
StoreGlobal(g, name, slot) == Emit(g, [Blank EXCEPT !.op = "STORE_GLOBAL", !.name = name,
                                                    !.src = slot])

\* A jump is emitted without its target, which is patched in later.
Here(g)         == Len(g.code) + 1
Jump(g, op, cond) == Emit(g, [Blank EXCEPT !.op = op, !.cond = cond])
Patch(g, at)    == [g EXCEPT !.code[at].target = Here(g)]

-----------------------------------------------------------------------------
(* Types as the code sees them.                                             *)

IsSingle(t) == IsPrim(t, {"float"})
IsDouble(t) == IsPrim(t, {"double"})
IsFloating(t) == IsSingle(t) \/ IsDouble(t)
IsWord(t)   == IsPrim(t, {"int", "byte"})

\* slotTypeFromTypeName: a name that ends in '?' is unknown and counts as Int.
SlotTypeOfName(t) ==
  CASE t.nullable                        -> "Int"
    [] t.kind \in {"array", "struct"}    -> "Ref"
    [] t = DoubleType                    -> "Float"
    [] t = FloatType                     -> "Float32"
    [] t = LongType                      -> "LongInt"
    [] t = DecimalType                   -> "Decimal"
    [] t = StringType                    -> "Str"
    [] t = DateType                      -> "Date"
    [] OTHER                             -> "Int"
SlotTypeOf(t) == IF t.kind \in {"array", "struct"} THEN "Ref" ELSE SlotTypeOfName(t)

\* How an array stores its elements: from the type a declaration names, and
\* from the type of an expression, where the element's nullability is not seen.
ElemKind(elem) ==
  CASE IsByte(elem)                        -> "Byte"
    [] IsPrim(elem, {"int", "bool"})       -> "Int"
    [] IsPrim(elem, {"longint", "date"})   -> "LongInt"
    [] IsSingle(elem)                      -> "Float32"
    [] IsDouble(elem)                      -> "Float64"
    [] IsDecimal(elem)                     -> "Decimal"
    [] OTHER                               -> "Ref"
ElemKindOfName(elem) == IF elem.nullable THEN "Ref" ELSE ElemKind(elem)

NewArray(n, kind) == [Blank EXCEPT !.op = "ARRAY_NEW", !.index = n, !.name = kind]
NewStruct(name)   == [Blank EXCEPT !.op = "STRUCT_NEW", !.name = name]
SetField(obj, f, v) == [Blank EXCEPT !.op = "FIELD_SET", !.dest = obj, !.name = f, !.right = v]
SetElement(arr, i, v) ==
  [Blank EXCEPT !.op = "ARRAY_SET", !.dest = arr, !.left = i, !.right = v]

-----------------------------------------------------------------------------
(* Literals.                                                                *)

\* The least int and longint are written as the negation of a number that
\* does not fit, which wraps around to it.
LiteralLoad(e) ==
  CASE e.sort = "NULL"    -> Load("LOAD_NULL", None)
    [] e.sort = "BOOLEAN" -> Load("LOAD_CONST", FromBool(e.value))
    [] e.sort = "STRING"  -> Load("LOAD_STRING", FromString(e.value))
    [] e.sort = "FLOAT" /\ IsDecimal(e.type) -> Load("LOAD_DECIMAL", FromDecimal(CutTo(e.value, -1)))
    [] e.sort = "FLOAT" /\ IsSingle(e.type)  -> Load("LOAD_FLOAT32", FromFloat32(Nearest(e.value, 5)))
    [] e.sort = "FLOAT"   -> Load("LOAD_FLOAT", FromFloat(Nearest(e.value, 5)))
    [] e.sort = "INTEGER" ->
         CASE IsDecimal(e.type) -> Load("LOAD_DECIMAL", FromDecimal(CutTo(e.value, 0)))
           [] IsDouble(e.type)  -> Load("LOAD_FLOAT", FromFloat(2 * e.value))
           [] IsSingle(e.type)  -> Load("LOAD_FLOAT32", FromFloat32(2 * e.value))
           [] IsLong(e.type)    -> Load("LOAD_LONG", FromLong(Wrap(e.value, LongBits)))
           [] OTHER             -> LoadConst(Wrap(e.value, IntBits))

-----------------------------------------------------------------------------
(* Operators.                                                               *)

RECURSIVE Gen(_, _)

\* Expressions one after the other: their slots, and the state.
RECURSIVE GenRest(_, _)
GenRest(es, done) ==
  IF es = << >> THEN done
  ELSE GenRest(Tail(es), LET v == Gen(Head(es), done.g)
                         IN  [slots |-> Append(done.slots, v.slot), g |-> v.g])
GenAll(es, g) == GenRest(es, [slots |-> << >>, g |-> g])

GenIdentifier(e, g) ==
  IF IsGlobal(g, e.name)
  THEN IntoFresh(g, LoadGlobal(g, e.name, SlotTypeOfName(Declared[e.name])))
  ELSE At(SlotOf(g, e.name), g)

\* The right side is computed before the object and the index on the left.
GenAssignment(e, g) ==
  LET v == Gen(e.right, g)
      o == Gen(e.left.object, v.g)
      i == Gen(e.left.index, o.g)
      var == SlotOf(v.g, e.left.name)
  IN  CASE e.left.node = "Index"  -> At(v.slot, Emit(i.g, SetElement(o.slot, i.slot, v.slot)))
        [] e.left.node = "Member" -> At(v.slot, Emit(o.g, SetField(o.slot, e.left.member, v.slot)))
        [] e.left.node = "Identifier" ->
             IF IsGlobal(g, e.left.name) THEN At(v.slot, StoreGlobal(v.g, e.left.name, v.slot))
             ELSE IF v.slot = var THEN v ELSE Into(var, v.g, CopyOf(v.slot))

\* x op= y works on ints, or appends strings; x is read after y is computed.
CompoundOps ==
  [PLUS_EQUAL |-> "ADD", MINUS_EQUAL |-> "SUB", STAR_EQUAL |-> "MUL", SLASH_EQUAL |-> "DIV",
   PERCENT_EQUAL |-> "MOD", AMPERSAND_EQUAL |-> "BAND", PIPE_EQUAL |-> "BOR",
   CARET_EQUAL |-> "BXOR", LSHIFT_EQUAL |-> "SHL", RSHIFT_EQUAL |-> "SHR"]
CompoundOp(e) ==
  IF e.op = "PLUS_EQUAL" /\ IsString(e.right.type) THEN "STRING_CONCAT" ELSE CompoundOps[e.op]
GenCompound(e, g) ==
  LET v      == Gen(e.right, g)
      result == Fresh(v.g)
      name   == e.left.name
      old    == GenIdentifier(e.left, result.g)
      new    == Into(result.slot, old.g, Apply2(CompoundOp(e), old.slot, v.slot))
  IN  IF IsGlobal(g, name) THEN At(new.slot, StoreGlobal(new.g, name, new.slot))
      ELSE Into(old.slot, new.g, CopyOf(new.slot))

NegationOf(t) ==
  CASE IsDecimal(t) -> "DNEG"
    [] IsSingle(t)  -> "F32NEG"
    [] IsDouble(t)  -> "FNEG"
    [] IsLong(t)    -> "LNEG"
    [] OTHER        -> ""
GenUnary(e, g) ==
  LET v      == Gen(e.right, g)
      result == Fresh(v.g)
      zero   == IntoFresh(result.g, LoadConst(0))
      op     == NegationOf(e.right.type)
      Unop(o) == Into(result.slot, result.g, Apply(o, v.slot))
  IN  CASE e.op = "MINUS" /\ op # "" -> Unop(op)
        [] e.op = "MINUS" /\ op = "" -> Into(result.slot, zero.g, Apply2("SUB", zero.slot, v.slot))
        [] e.op = "BANG"  -> Into(result.slot, zero.g, Apply2("EQUAL_EQUAL", v.slot, zero.slot))
        [] e.op = "TILDE" -> Unop(IF IsLong(e.right.type) THEN "LBNOT" ELSE "BNOT")

\* && and || : the right side is jumped over when the left one decides.
GenShortCircuit(e, g, default, jump) ==
  LET a      == Gen(e.left, g)
      result == IntoFresh(a.g, LoadConst(default))
      b      == Gen(e.right, Jump(result.g, jump, a.slot))
      copied == Into(result.slot, b.g, CopyOf(b.slot))
  IN  At(result.slot, Patch(copied.g, Here(result.g)))

\* An operand brought to the type the operation is done in; -1 when it has it.
DecimalFrom(t) == IF IsDecimal(t) THEN "" ELSE IF IsFloating(t) THEN "FLOAT_TO_DECIMAL"
                                                               ELSE "INT_TO_DECIMAL"
LongFrom(t)    == IF IsLong(t) THEN "" ELSE "INT_TO_LONG"
DoubleFrom(t)  == IF IsDouble(t) THEN "" ELSE IF IsSingle(t) THEN "FLOAT32_TO_FLOAT"
                                                            ELSE "INT_TO_FLOAT"
SingleFrom(t)  == IF IsSingle(t) THEN "" ELSE "INT_TO_FLOAT32"
Convert(op, at) == IF op = "" THEN at ELSE IntoFresh(at.g, Apply(op, at.slot))

\* generateBinaryArithmetic: the family of opcodes, and those it has of its own.
Family(l, r) ==
  CASE IsDecimal(l) \/ IsDecimal(r) -> "decimal"
    [] ~(IsDecimal(l) \/ IsDecimal(r)) /\ (IsLong(l) \/ IsLong(r)) -> "long"
    [] ~\E t \in {l, r} : IsDecimal(t) \/ IsLong(t) ->
         IF IsDouble(l) \/ IsDouble(r) THEN "double"
         ELSE IF IsSingle(l) \/ IsSingle(r) THEN "single" ELSE "int"
\* A wrong variant: an int beside a float is not converted.
ConversionLosingInts(family, t) ==
  CASE family = "decimal" -> DecimalFrom(t)
    [] family = "long"    -> LongFrom(t)
    [] family = "double"  -> DoubleFrom(t)
    [] family \in {"single", "int"} -> ""
Conversion(family, t) ==
  CASE family = "decimal" -> DecimalFrom(t)
    [] family = "long"    -> LongFrom(t)
    [] family = "double"  -> DoubleFrom(t)
    [] family = "single"  -> SingleFrom(t)
    [] family = "int"     -> ""
OwnOps ==
  [decimal |-> [ADD |-> "DADD", SUB |-> "DSUB", MUL |-> "DMUL", DIV |-> "DDIV", MOD |-> "DMOD"],
   long    |-> [ADD |-> "LADD", SUB |-> "LSUB", MUL |-> "LMUL", DIV |-> "LDIV", MOD |-> "LMOD",
                BAND |-> "LBAND", BOR |-> "LBOR", BXOR |-> "LBXOR", SHL |-> "LSHL",
                SHR |-> "LSHR"],
   double  |-> [ADD |-> "FADD", SUB |-> "FSUB", MUL |-> "FMUL", DIV |-> "FDIV"],
   single  |-> [ADD |-> "F32ADD", SUB |-> "F32SUB", MUL |-> "F32MUL", DIV |-> "F32DIV"],
   int     |-> << >>]
OpcodeIn(family, op) == IF op \in DOMAIN OwnOps[family] THEN OwnOps[family][op] ELSE op

BaseOps ==
  [PLUS |-> "ADD", MINUS |-> "SUB", STAR |-> "MUL", SLASH |-> "DIV", PERCENT |-> "MOD",
   LESS |-> "LESS", LESS_EQUAL |-> "LESS_EQUAL", GREATER |-> "GREATER",
   GREATER_EQUAL |-> "GREATER_EQUAL", EQUAL_EQUAL |-> "EQUAL_EQUAL", BANG_EQUAL |-> "NOT_EQUAL",
   AMPERSAND |-> "BAND", PIPE |-> "BOR", CARET |-> "BXOR", LSHIFT |-> "SHL", RSHIFT |-> "SHR"]
GenArithmetic(e, g) ==
  LET l      == Gen(e.left, g)
      r      == Gen(e.right, l.g)
      dest   == Fresh(r.g)
      op     == BaseOps[e.op]
      family == Family(e.left.type, e.right.type)
      cl     == Convert(Conversion(family, e.left.type), At(l.slot, dest.g))
      cr     == Convert(Conversion(family, e.right.type), At(r.slot, cl.g))
  IN  IF op = "ADD" /\ (IsString(e.left.type) \/ IsString(e.right.type))
      THEN Into(dest.slot, dest.g, Apply2("STRING_CONCAT", l.slot, r.slot))
      ELSE Into(dest.slot, cr.g, Apply2(OpcodeIn(family, op), cl.slot, cr.slot))

GenBinary(e, g) ==
  CASE e.op = "EQUAL"                 -> GenAssignment(e, g)
    [] e.op \in DOMAIN CompoundOps    -> GenCompound(e, g)
    [] e.op = "AMPERSAND_AMPERSAND"   -> GenShortCircuit(e, g, 0, "JIF_FALSE")
    [] e.op = "PIPE_PIPE"             -> GenShortCircuit(e, g, 1, "JIF_TRUE")
    [] e.op \in DOMAIN BaseOps        -> GenArithmetic(e, g)

-----------------------------------------------------------------------------
(* Calls, members, elements and casts.                                      *)

Calling(op, name, slots) == [Blank EXCEPT !.op = op, !.name = name, !.args = slots]

\* A function; print has no result, and its call no slot.
GenCall(e, g) ==
  LET args == GenAll(e.args, g)
      ret  == Declared[e.callee].parts[1]
  IN  IF e.callee = "print" THEN At(-1, Emit(args.g, Calling("CALLHOST", "print", args.slots)))
      ELSE IntoFresh(args.g, [Calling("CALL", e.callee, args.slots) EXCEPT
                                !.slotType = SlotTypeOfName(ret), !.nullable = ret.nullable])

GenScopeCall(e, g) ==
  LET args == GenAll(e.args, g)
      ins  == [Calling("CALLHOST", e.method, args.slots) EXCEPT !.category = e.scope]
  IN  IF IsVoid(e.type) THEN At(-1, Emit(args.g, ins))
      ELSE IntoFresh(args.g, [ins EXCEPT !.slotType = SlotTypeOf(e.type),
                                         !.nullable = e.type.nullable])

\* The value before; what is added to is the slot the operand was read from.
GenPostfix(e, g) ==
  LET v      == Gen(e.operand, g)
      result == IntoFresh(v.g, CopyOf(v.slot))
      one    == IntoFresh(result.g, LoadConst(1))
      new    == IntoFresh(one.g, Apply2(IF e.op = "PLUS_PLUS" THEN "ADD" ELSE "SUB",
                                        v.slot, one.slot))
      stored == IF e.operand.node = "Identifier" /\ IsGlobal(g, e.operand.name)
                THEN StoreGlobal(new.g, e.operand.name, new.slot) ELSE new.g
  IN  At(result.slot, Into(v.slot, stored, CopyOf(new.slot)).g)

IsEnumName(e) == e.node = "Identifier" /\ e.name \in DOMAIN Members
GenMember(e, g) ==
  LET o == Gen(e.object, g)
  IN  IF IsEnumName(e.object) THEN IntoFresh(g, LoadConst(Members[e.object.name][e.member]))
      ELSE IntoFresh(o.g, [Apply("FIELD_GET", o.slot) EXCEPT
                             !.name = e.member, !.slotType = SlotTypeOf(e.type),
                             !.nullable = e.type.nullable])

RECURSIVE GenElements(_, _, _, _)
GenElements(es, i, arr, g) ==
  LET at == IntoFresh(g, LoadConst(i))
      v  == Gen(Head(es), at.g)
  IN  IF es = << >> THEN At(arr, g)
      ELSE GenElements(Tail(es), i + 1, arr, Emit(v.g, SetElement(arr, at.slot, v.slot)))
GenArrayLiteral(e, g) ==
  LET new == IntoFresh(g, NewArray(Len(e.elements), ElemKind(ElementOf(e.type))))
  IN  GenElements(e.elements, 0, new.slot, new.g)

GenIndex(e, g) ==
  LET a == Gen(e.object, g)
      i == Gen(e.index, a.g)
  IN  IntoFresh(i.g, [Apply2("ARRAY_GET", a.slot, i.slot) EXCEPT !.slotType = SlotTypeOf(e.type)])

\* The opcode of a cast; LOAD_SLOT when the value is taken as it is.
CastOp(from, to) ==
  CASE IsString(to) ->
         CASE IsLong(from)    -> "CAST_LONG_TO_STR"
           [] IsWord(from)    -> "CAST_INT_TO_STR"
           [] IsDecimal(from) -> "CAST_DECIMAL_TO_STR"
           [] IsSingle(from)  -> "CAST_FLOAT32_TO_STR"
           [] IsDouble(from)  -> "CAST_FLOAT_TO_STR"
           [] from.name = "bool" -> "CAST_BOOL_TO_STR"
           [] OTHER           -> "LOAD_SLOT"
    [] IsString(from) /\ ~IsString(to) ->
         CASE IsLong(to)      -> "CAST_STR_TO_LONG"
           [] IsDecimal(to)   -> "CAST_STR_TO_DECIMAL"
           [] to.name = "int" -> "CAST_STR_TO_INT"
           [] IsSingle(to)    -> "CAST_STR_TO_FLOAT32"
           [] IsDouble(to)    -> "CAST_STR_TO_FLOAT"
           [] OTHER           -> "LOAD_SLOT"
    [] IsWord(from) /\ ~IsString(to) ->
         CASE IsLong(to)                       -> "INT_TO_LONG"
           [] IsByte(to) /\ ~IsByte(from)      -> "CAST_INT_TO_BYTE_CHECKED"
           [] IsSingle(to) /\ ~IsByte(from)    -> "INT_TO_FLOAT32"
           [] IsDouble(to) /\ ~IsByte(from)    -> "INT_TO_FLOAT"
           [] IsDecimal(to) /\ ~IsByte(from)   -> "INT_TO_DECIMAL"
           [] OTHER                            -> "LOAD_SLOT"
    [] IsLong(from) /\ ~IsString(to) ->
         IF to.name = "int" THEN "LONG_TO_INT_CHECKED"
         ELSE IF IsFloating(to) THEN "INT_TO_FLOAT" ELSE "LOAD_SLOT"
    [] IsFloating(from) /\ ~IsString(to) ->
         CASE IsLong(to)      -> "CAST_FLOAT_TO_LONG_CHECKED"
           [] IsDecimal(to)   -> "FLOAT_TO_DECIMAL"
           [] to.name = "int" -> "CAST_FLOAT_TO_INT_CHECKED"
           [] IsSingle(from) /\ IsDouble(to) -> "FLOAT32_TO_FLOAT"
           [] IsDouble(from) /\ IsSingle(to) -> "FLOAT_TO_FLOAT32"
           [] OTHER           -> "LOAD_SLOT"
    [] IsDecimal(from) /\ ~IsString(to) ->
         IF IsFloating(to) THEN "CAST_DECIMAL_TO_FLOAT"
         ELSE IF to.name = "int" THEN "CAST_DECIMAL_TO_INT" ELSE "LOAD_SLOT"
    [] OTHER -> "LOAD_SLOT"

\* A longint becomes a float by way of a double.
GenCast(e, g) ==
  LET v    == Gen(e.operand, g)
      op   == CastOp(e.operand.type, AsNonNull(e.type))
      flag == IF op \in FallibleCasts THEN IF e.target.nullable THEN 1 ELSE 0 ELSE -1
      cast == IntoFresh(v.g, [Apply(op, v.slot) EXCEPT !.flag = flag])
  IN  IF IsLong(e.operand.type) /\ IsSingle(e.type)
      THEN IntoFresh(cast.g, Apply("FLOAT_TO_FLOAT32", cast.slot)) ELSE cast

Gen(e, g) ==
  CASE e.node = "Literal"      -> IntoFresh(g, LiteralLoad(e))
    [] e.node = "Identifier"   -> GenIdentifier(e, g)
    [] e.node = "Binary"       -> GenBinary(e, g)
    [] e.node = "Unary"        -> GenUnary(e, g)
    [] e.node = "Call"         -> GenCall(e, g)
    [] e.node = "Postfix"      -> GenPostfix(e, g)
    [] e.node = "Member"       -> GenMember(e, g)
    [] e.node = "ArrayLiteral" -> GenArrayLiteral(e, g)
    [] e.node = "Index"        -> GenIndex(e, g)
    [] e.node = "ScopeCall"    -> GenScopeCall(e, g)
    [] e.node = "Cast"         -> GenCast(e, g)

-----------------------------------------------------------------------------
(* Declarations, statements and functions.                                  *)

\* The widening a declaration of exactly this type does to its value.
DeclaredFrom(target, source) ==
  CASE target = DoubleType /\ (IsWord(source) \/ IsSingle(source)) -> DoubleFrom(source)
    [] target = FloatType /\ IsWord(source)   -> "INT_TO_FLOAT32"
    [] target = LongType /\ IsWord(source)    -> "INT_TO_LONG"
    [] target = DecimalType /\ (IsWord(source) \/ IsFloating(source)) -> DecimalFrom(source)
    [] OTHER -> ""

\* A value in the slot of another variable is copied.
BindTo(name, v) ==
  IF v.slot \in Range(v.g.names)
  THEN Into(v.g.next, Register(Fresh(v.g).g, name, v.g.next), CopyOf(v.slot)).g
  ELSE Register(v.g, name, v.slot)

\* The fields of a struct that do not start with 0 or null: strings, arrays and
\* structs, and what is in those.  A struct already on the way is not entered again.
RECURSIVE InitFields(_, _, _, _, _)
InitFields(fields, obj, struct, chain, g) ==
  IF fields = << >> THEN g
  ELSE LET f     == Head(fields)
           t     == Layout[struct][f]
           text  == IntoFresh(g, Load("LOAD_STRING", FromString(<< >>)))
           arr   == IntoFresh(g, NewArray(0, ElemKind(ElementOf(t))))
           inner == IntoFresh(g, NewStruct(t.name))
           deep  == At(inner.slot,
                       IF t.name \in chain THEN inner.g
                       ELSE InitFields(SetToSeq(DOMAIN Layout[t.name]), inner.slot, t.name,
                                       chain \cup {t.name}, inner.g))
           Set(v) == Emit(v.g, SetField(obj, f, v.slot))
           next  == CASE t.nullable         -> g
                      [] t = StringType     -> Set(text)
                      [] t.kind = "array" /\ ~t.nullable  -> Set(arr)
                      [] t.kind = "struct" /\ ~t.nullable -> Set(deep)
                      [] OTHER              -> g
       IN  InitFields(Tail(fields), obj, struct, chain, next)

GenDeclaration(st, g) ==
  LET v     == Gen(st.init, g)
      t     == st.type
      own   == Fresh(g)
      named == Register(own.g, st.name, own.slot)
      Start(ins) == Into(own.slot, named, ins).g
  IN  CASE st.init # Absent -> BindTo(st.name, Convert(DeclaredFrom(t, st.init.type), v))
        [] st.init = Absent ->
             CASE t.nullable        -> Start(Load("LOAD_NULL", None))
               [] t = StringType    -> Start(Load("LOAD_STRING", FromString(<< >>)))
               [] t.kind = "array" /\ ~t.nullable -> Start(NewArray(0, ElemKindOfName(ElementOf(t))))
               [] t.kind = "struct" /\ ~t.nullable ->
                    InitFields(SetToSeq(DOMAIN Layout[t.name]), own.slot, t.name, {t.name},
                               Start(NewStruct(t.name)))
               [] OTHER             -> named

RECURSIVE GenStmt(_, _)
RECURSIVE GenSeq(_, _)
GenSeq(ss, g) == IF ss = << >> THEN g ELSE GenSeq(Tail(ss), GenStmt(Head(ss), g))

\* At the end of a block its names mean again what they meant before.
GenBlock(st, g) == [GenSeq(st.body, g) EXCEPT !.names = g.names]

GenReturn(v) == Emit(v.g, Apply("RETURN", v.slot))

GenElse(st, toElse, then) ==
  IF st.else = Absent THEN Patch(then, toElse)
  ELSE Patch(GenStmt(st.else, Patch(Jump(then, "JMP", -1), toElse)), Here(then))
GenIf(st, c) == GenElse(st, Here(c.g), GenStmt(st.then, Jump(c.g, "JIF_FALSE", c.slot)))

GenStmt(st, g) ==
  CASE st.node = "Block"        -> GenBlock(st, g)
    [] st.node = "VariableDecl" -> GenDeclaration(st, g)
    [] st.node = "Expression"   -> Gen(st.expr, g).g
    [] st.node = "Return"       -> GenReturn(IF st.value = Absent THEN At(0, g) ELSE Gen(st.value, g))
    [] st.node = "If"           -> GenIf(st, Gen(st.cond, g))

-----------------------------------------------------------------------------
(* Functions and the global variables.                                      *)

\* The value a global variable starts with; none stays 0.
RECURSIVE GenGlobals(_, _)
GenGlobals(ds, g) ==
  LET d    == Head(ds)
      v    == Gen(d.init, g)
      null == IntoFresh(g, Load("LOAD_NULL", None))
      text == IntoFresh(g, Load("LOAD_STRING", FromString(<< >>)))
      Stored(at) == StoreGlobal(at.g, d.name, at.slot)
  IN  IF ds = << >> THEN g
      ELSE GenGlobals(Tail(ds), CASE d.init # Absent  -> Stored(v)
                                  [] d.init = Absent /\ d.type.nullable  -> Stored(null)
                                  [] d.init = Absent /\ d.type = StringType -> Stored(text)
                                  [] OTHER            -> g)

RECURSIVE GenParams(_, _)
GenParams(names, g) ==
  IF names = << >> THEN g
  ELSE GenParams(Tail(names), Register(Fresh(g).g, Head(names), g.next))

\* A function without a result ends with a RETURN of a zero of its own.
Ended(done, ret) ==
  LET zero == IntoFresh(done, LoadConst(0))
      ends == done.code # << >> /\ Last(done.code).op = "RETURN"
  IN  IF ret = VoidType /\ ~ends THEN Emit(zero.g, Apply("RETURN", zero.slot)) ELSE done
GenFunction(params, body, ret, g) == Ended(GenStmt(body, GenParams(params, g)), ret)

\* The initial values of the globals are computed where main starts.
GenMain(globals, body) ==
  LET start == NewFunction([i \in DOMAIN globals |-> globals[i].name])
  IN  GenFunction(<< >>, body, VoidType, GenGlobals(globals, start))

-----------------------------------------------------------------------------
(* finalizeSlotTypes: the type of every slot, and whether it can hold null. *)

FloatResults   == DOMAIN DoubleOps \cup {"LOAD_FLOAT", "FNEG", "INT_TO_FLOAT", "FLOAT32_TO_FLOAT",
                                         "CAST_STR_TO_FLOAT", "CAST_DECIMAL_TO_FLOAT"}
SingleResults  == DOMAIN SingleOps \cup {"LOAD_FLOAT32", "F32NEG", "INT_TO_FLOAT32",
                                         "FLOAT_TO_FLOAT32", "CAST_STR_TO_FLOAT32"}
LongResults    == DOMAIN LongOps \cup {"LOAD_LONG", "LNEG", "LBNOT", "INT_TO_LONG",
                                       "CAST_STR_TO_LONG", "CAST_FLOAT_TO_LONG_CHECKED"}
StringResults  == ToStrings \cup {"LOAD_STRING", "STRING_CONCAT"}
DecimalResults == DecimalOps \cup {"LOAD_DECIMAL", "DNEG", "INT_TO_DECIMAL", "FLOAT_TO_DECIMAL",
                                   "CAST_STR_TO_DECIMAL"}

\* The type an instruction gives to its slot; the others leave it as it is.
Produced(ins, types) ==
  CASE ins.op \in FloatResults                -> "Float"
    [] ins.op \in SingleResults               -> "Float32"
    [] ins.op \in LongResults                 -> "LongInt"
    [] ins.op \in StringResults               -> "Str"
    [] ins.op \in DecimalResults              -> "Decimal"
    [] ins.op \in {"STRUCT_NEW", "ARRAY_NEW"} -> "Ref"
    [] ins.op = "LOAD_SLOT"                   -> types[ins.src]
    [] ins.op \in {"CALL", "CALLHOST", "ARRAY_GET", "FIELD_GET", "LOAD_GLOBAL"}
       /\ ins.slotType # "Unknown"            -> ins.slotType
    [] OTHER                                  -> types[ins.dest]

\* One pass over the code; at most eight of them, while something changes.
RECURSIVE TypePass(_, _)
TypePass(code, types) ==
  IF code = << >> THEN types
  ELSE TypePass(Tail(code), IF Head(code).dest < 0 THEN types
                            ELSE [types EXCEPT ![Head(code).dest] = Produced(Head(code), types)])
RECURSIVE TypePasses(_, _, _)
TypePasses(code, types, n) ==
  LET next == TypePass(code, types)
  IN  IF n = 0 \/ next = types THEN types ELSE TypePasses(code, next, n - 1)

NullSources(ins) ==
  \/ ins.op = "LOAD_NULL"
  \/ ins.op \in {"CALL", "CALLHOST", "FIELD_GET"} /\ ins.nullable
  \/ ins.op \in FallibleCasts /\ ins.flag = 1
RECURSIVE NullPasses(_, _, _)
NullPasses(code, slots, n) ==
  LET next == slots \cup {code[i].dest : i \in {j \in DOMAIN code :
                  \/ NullSources(code[j])
                  \/ code[j].op = "LOAD_SLOT" /\ code[j].src \in slots}}
  IN  IF n = 0 \/ next = slots THEN slots ELSE NullPasses(code, next, n - 1)

\* params: the types of the parameters, which are in the first slots.
SlotTypes(code, count, params) ==
  TypePasses(code, [s \in 0..(count - 1) |-> IF s < Len(params) THEN SlotTypeOfName(params[s + 1])
                                             ELSE "Int"], 8)
NullableSlots(code, params) ==
  NullPasses(code, {s \in 0..(Len(params) - 1) : params[s + 1].nullable}, 8) \ {-1}

\* What the generator hands to the machines.
Compiled(g, params) ==
  [code |-> g.code, count |-> g.next, params |-> Len(params),
   types |-> SlotTypes(g.code, g.next, params), nullable |-> NullableSlots(g.code, params)]
=============================================================================
