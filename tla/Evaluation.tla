----------------------------- MODULE Evaluation -----------------------------
(***************************************************************************)
(* What a checked program means, without slots and without opcodes: the    *)
(* value of an expression is a value of the type the checker has given it, *)
(* and whatever a context gives a wider type to is converted to it.        *)
(*                                                                         *)
(* A state st holds the variables by name, the heap, what is printed, the  *)
(* error, whether the function has returned and its result, and in `odd'   *)
(* what the run has come across that the compiler is known to translate    *)
(* differently (the README lists these with the lines of the code); those  *)
(* in NativeOnly, the JIT only.                                            *)
(***************************************************************************)
EXTENDS ValueMachine, TypeRules

CONSTANT Library   \* the functions of every program: parameters, result and body

Fresh0 == [vars |-> << >>, globals |-> << >>, heap |-> << >>, out |-> << >>, error |-> "",
           returned |-> FALSE, result |-> None, odd |-> {}]

Yields(v, st)   == [v |-> v, st |-> st]
Known(st, what, when) == IF when THEN [st EXCEPT !.odd = @ \cup {what}] ELSE st
Outcomes(o, st) == Yields(o.value, [st EXCEPT !.error = o.error])
HeapOutcome(o, st) == Yields(o.value, [st EXCEPT !.error = o.error, !.heap = o.heap])

NativeOnly == {"unwritten", "negated box", "nullable box", "decimal element"}
\* A variable of a primitive type that was declared without a value.
Unwritten     == [FromInt(0) EXCEPT !.ref = -1]
IsBox(v)      == v.kind \in {"String", "Decimal"}
\* Values that are not ints, where the type is known to the code as Int.
HidesType(t, v) == t.nullable /\ v.kind \in {"String", "Decimal", "Float", "Float32"}

-----------------------------------------------------------------------------
(* Values of a type.                                                        *)

\* v as a value of type t; a null stays a null.
ConvertTo(t, v) ==
  CASE v.kind = "Null" \/ ~IsNumeric(t) -> v
    [] v.kind # "Null" /\ IsLong(t)    -> FromLong(AsI64(v))
    [] v.kind # "Null" /\ IsPrim(t, {"float"})  -> FromFloat32(AsDouble(v))
    [] v.kind # "Null" /\ IsPrim(t, {"double"}) -> FromFloat(AsDouble(v))
    [] v.kind # "Null" /\ IsDecimal(t) ->
         IF v.kind = "Decimal" THEN v
         ELSE FromDecimal(IF IsFloaty(v) THEN FromHalves(v.float) ELSE Normal(AsI64(v), 0))
    [] OTHER -> v

LiteralValue(e) ==
  CASE e.sort = "NULL"    -> None
    [] e.sort = "BOOLEAN" -> FromBool(e.value)
    [] e.sort = "STRING"  -> FromString(e.value)
    [] e.sort = "INTEGER" -> IF IsLong(e.type) THEN FromLong(Wrap(e.value, LongBits))
                             ELSE IF IsPrim(e.type, {"float", "double", "decimal"})
                             THEN ConvertTo(e.type, FromLong(e.value))
                             ELSE FromInt(Wrap(e.value, IntBits))
    [] e.sort = "FLOAT"   -> IF IsDecimal(e.type) THEN FromDecimal(Normal(e.value, -1))
                             ELSE ConvertTo(e.type, FromFloat(Nearest(e.value, 5)))

\* A variable without an initial value; a field then has a 0 of any type.
RECURSIVE DefaultOf(_, _)
RECURSIVE DefaultFields(_, _, _, _)
DefaultFields(fs, struct, fields, heap) ==
  LET d == DefaultOf(Layout[struct][Head(fs)], heap)
  IN  IF fs = << >> THEN Allocates(StructObject(fields), heap)
      ELSE DefaultFields(Tail(fs), struct,
             (Head(fs) :> IF IsNumeric(Layout[struct][Head(fs)]) /\ d.value # None THEN FromInt(0) ELSE d.value)
               @@ fields, d.heap)
DefaultOf(t, heap) ==
  CASE t.nullable                       -> Returns(None, heap)
    [] ~t.nullable /\ t = StringType    -> Returns(FromString(<< >>), heap)
    [] ~t.nullable /\ t.kind = "array"  -> Allocates(ArrayObject("Ref", << >>), heap)
    [] ~t.nullable /\ t.kind = "struct" ->
         DefaultFields(SetToSeq(DOMAIN Layout[t.name]), t.name, << >>, heap)
    [] OTHER                            -> Returns(ConvertTo(t, FromInt(0)), heap)

\* v where a value of type t is wanted.  Only the declaration of a variable
\* converts; and the checker lets a null through where t is wider.
Give(t, v, converts, st) ==
  Yields(ConvertTo(t, v),
         Known(Known(st, "unconverted", ~converts /\ ConvertTo(t, v) # v),
               "null widened", v.kind = "Null" /\ ~t.nullable))

-----------------------------------------------------------------------------
(* Operators.                                                               *)

\* The type the operands of a comparison have in common.
CommonType(l, r) == IF IsNumeric(l) /\ IsNumeric(r) THEN ArithmeticType(l, r) ELSE l

\* The checker compares a longint with a floating number, and anything with ==.
Comparable(l, r) ==
  IF IsNumeric(l) /\ IsNumeric(r) THEN ~IsError(ArithmeticType(l, r))
  ELSE EqualsBase(l, r) \/ IsNullLiteral(l) \/ IsNullLiteral(r)

Computed(t, op, l, r) ==
  CASE IsDecimal(t)             -> DecimalArithmetic("D" \o op, l.dec, r.dec)
    [] IsLong(t)                -> LongArithmetic(op, l.long, r.long)
    [] IsPrim(t, {"double"})    -> DoubleArithmetic(op, l.float, r.float)
    [] IsPrim(t, {"float"})     -> SingleArithmetic(op, l.float, r.float)
    [] IsString(t)              -> Done(FromString(l.str \o r.str))
    [] OTHER                    -> IntArithmetic(op, l.int, r.int)

NameOf ==
  [PLUS |-> "ADD", MINUS |-> "SUB", STAR |-> "MUL", SLASH |-> "DIV", PERCENT |-> "MOD",
   AMPERSAND |-> "BAND", PIPE |-> "BOR", CARET |-> "BXOR", LSHIFT |-> "SHL", RSHIFT |-> "SHR",
   PLUS_EQUAL |-> "ADD", MINUS_EQUAL |-> "SUB", STAR_EQUAL |-> "MUL", SLASH_EQUAL |-> "DIV",
   PERCENT_EQUAL |-> "MOD", AMPERSAND_EQUAL |-> "BAND", PIPE_EQUAL |-> "BOR",
   CARET_EQUAL |-> "BXOR", LSHIFT_EQUAL |-> "SHL", RSHIFT_EQUAL |-> "SHR"]

\* What the code has no operation for.
NoOperation(t, op) ==
  \/ IsPrim(t, {"float", "double"}) /\ op \notin {"ADD", "SUB", "MUL", "DIV"}
  \/ IsDecimal(t) /\ op \notin {"ADD", "SUB", "MUL", "DIV", "MOD"}

Compares(op, l, r) ==
  CASE op = "LESS"          -> ValueLess(l, r)
    [] op = "LESS_EQUAL"    -> ValueLess(l, r) \/ ValuesEqual(l, r)
    [] op = "GREATER"       -> ValueLess(r, l)
    [] op = "GREATER_EQUAL" -> ValueLess(r, l) \/ ValuesEqual(l, r)
    [] op = "EQUAL_EQUAL"   -> ValuesEqual(l, r)
    [] op = "BANG_EQUAL"    -> ~ValuesEqual(l, r)

Negated(t, v) ==
  CASE IsDecimal(t)              -> FromDecimal(Scaled(-v.dec.coeff, v.dec.exp))
    [] IsLong(t)                 -> FromLong(Wrap(-v.long, LongBits))
    [] IsPrim(t, {"double"})     -> FromFloat(-v.float)
    [] IsPrim(t, {"float"})      -> FromFloat32(-v.float)
    [] OTHER                     -> FromInt(Wrap(-v.int, IntBits))

-----------------------------------------------------------------------------
(* Casts.                                                                   *)

WholePart(v) ==
  CASE v.kind \in {"Int", "LongInt"} -> AsI64(v)
    [] IsFloaty(v)                   -> Quotient(v.float, 2)
    [] v.kind = "Decimal"            -> IF v.dec.exp >= 0 THEN v.dec.coeff * 10^v.dec.exp
                                        ELSE Quotient(v.dec.coeff, 10^(-v.dec.exp))

\* A value as text: a floating one without the point that print adds.
TextOf(t, v) ==
  CASE t.name = "bool" -> <<Word(IF v.int # 0 THEN "true" ELSE "false")>>
    [] IsFloaty(v)     -> <<HalvesText(v.float)>>
    [] OTHER           -> Shown(v)

\* A number as a value of the numeric type t, when it is one.
FitsIn(t, v) ==
  CASE IsByte(t)         -> 0 <= WholePart(v) /\ WholePart(v) <= ByteMax
    [] t.name = "int"    -> InRange(WholePart(v), IntMax)
    [] IsLong(t)         -> InRange(WholePart(v), LongMax)
    [] OTHER             -> TRUE
Narrowed(t, v) ==
  CASE t.name \in {"int", "byte"} -> FromInt(WholePart(v))
    [] IsLong(t)                  -> FromLong(WholePart(v))
    [] v.kind = "Decimal" /\ IsPrim(t, {"float", "double"}) -> ConvertTo(t, FromFloat(ToHalves(v.dec)))
    [] OTHER                      -> ConvertTo(t, v)

\* The number a text stands for, as a value of type t.
Parses(t, str) == IF t.name \in {"int", "longint"} THEN IsWhole(str)
                  ELSE IsNumber(str) \/ (IsDecimal(t) /\ str = << >>)
NumberIn(str) == FromDecimal(IF str = << >> THEN Zero ELSE str[1].number)

CastOf(from, to, v) ==
  LET n == IF IsString(from) THEN NumberIn(v.str) ELSE v
  IN  IF EqualsBase(from, to)  THEN Done(v)
      ELSE IF IsString(to)     THEN Done(FromString(TextOf(from, v)))
      ELSE IF (IsString(from) => Parses(to, v.str)) /\ FitsIn(to, n) THEN Done(Narrowed(to, n))
      ELSE IF to.nullable THEN Done(None) ELSE Fail("cast")

\* Casts the code takes as they are, or makes by way of another type.
OddCast(from, to, v) ==
  \/ IsLong(from) /\ IsDecimal(to)
  \/ IsDecimal(from) /\ IsLong(to)
  \/ IsLong(from) /\ IsPrim(to, {"float", "double"})
  \/ IsDecimal(from) /\ to.name = "int" /\ v.dec.exp > 0
  \/ IsDecimal(from) /\ to.name = "float"

-----------------------------------------------------------------------------
(* Expressions, their parts from left to right.                             *)

Look(st, n) == IF n \in DOMAIN st.vars THEN st.vars[n] ELSE st.globals[n]
Assign(st, n, v) == IF n \in DOMAIN st.vars THEN [st EXCEPT !.vars[n] = v]
                                            ELSE [st EXCEPT !.globals[n] = v]

\* The code reads a variable where it is used and not where it is evaluated;
\* the value of an assignment to a variable is the variable.
VariableOf(e) ==
  CASE e.node = "Identifier" -> e.name
    [] e.node = "Binary" /\ e.op \in AssignOps /\ e.left.node = "Identifier" -> e.left.name
    [] OTHER -> ""
ChangedMeanwhile(e, v, st) == VariableOf(e) \in DOMAIN st.vars /\ st.vars[VariableOf(e)] # v

RECURSIVE Eval(_, _)
\* The values of expressions evaluated one after the other.
Noting(done, e, r) ==
  [vs |-> Append(done.vs, r.v), es |-> Append(done.es, e), st |-> r.st]
Aliased(all) ==
  Yields(all.vs, Known(all.st, "alias", \E i \in DOMAIN all.vs :
                                          ChangedMeanwhile(all.es[i], all.vs[i], all.st)))
RECURSIVE EvalRest(_, _)
EvalRest(es, done) ==
  IF es = << >> THEN Aliased(done)
  ELSE EvalRest(Tail(es), Noting(done, Head(es), Eval(Head(es), done.st)))
EvalAll(es, st) == EvalRest(es, [vs |-> << >>, es |-> << >>, st |-> st])

\* The parts of an expression that are always evaluated, in their order; of an
\* assignment, the right side first.
Compounds == (AssignOps \cup BitAssigns) \ {"EQUAL"}
Place(l) ==
  CASE l.node = "Identifier" -> << >>
    [] l.node = "Index"      -> <<l.object, l.index>>
    [] l.node = "Member"     -> <<l.object>>
NamesEnum(e) == e.node = "Identifier" /\ e.name \in DOMAIN Members
Operands(e) ==
  CASE e.node \in {"Literal", "Identifier"} -> << >>
    [] e.node = "Binary" ->
         CASE e.op = "EQUAL"                   -> <<e.right>> \o Place(e.left)
           [] e.op \in Compounds -> <<e.right>>
           [] e.op \in {"AMPERSAND_AMPERSAND", "PIPE_PIPE"} -> <<e.left>>
           [] OTHER                            -> <<e.left, e.right>>
    [] e.node = "Unary"                 -> <<e.right>>
    [] e.node \in {"Call", "ScopeCall"} -> e.args
    [] e.node \in {"Postfix", "Cast"}   -> <<e.operand>>
    [] e.node = "Member"                -> IF NamesEnum(e.object) THEN << >> ELSE <<e.object>>
    [] e.node = "ArrayLiteral"          -> e.elements
    [] e.node = "Index"                 -> <<e.object, e.index>>

EvalAssignment(e, vs, st) ==
  LET t == IF e.left.node = "Identifier" THEN Declared[e.left.name] ELSE e.left.type
      v == Give(t, vs[1], FALSE,
                Known(st, "decimal element", e.left.node = "Index" /\ IsDecimal(e.left.type)))
  IN  CASE e.left.node = "Identifier" -> Yields(vs[1], Assign(v.st, e.left.name, v.v))
        [] e.left.node = "Index"      ->
             Yields(vs[1], HeapOutcome(ElementWritten(v.st.heap, vs[2], vs[3], v.v), v.st).st)
        [] e.left.node = "Member"     ->
             Yields(vs[1], HeapOutcome(FieldWritten(v.st.heap, vs[2], e.left.member, v.v), v.st).st)

\* x op= y is x = x op y, and the code says so; it has it for int and for strings.
EvalCompound(e, v, st) ==
  LET old  == Look(st, e.left.name)
      t    == Declared[e.left.name]
      in   == CommonType(t, e.right.type)
      own  == (IF IsString(t) THEN e.op = "PLUS_EQUAL" ELSE in = IntType /\ t = IntType)
      told == Known(st, "compound", ~own)
      Updated(o) == IF o.error # "" THEN Outcomes(o, told)
                    ELSE Yields(o.value, Assign(told, e.left.name, ConvertTo(t, o.value)))
  IN  IF "Null" \in {old.kind, v.kind} \/ NoOperation(in, NameOf[e.op])
      THEN Yields(None, Known(told, "null used", TRUE))
      ELSE Updated(Computed(in, NameOf[e.op], ConvertTo(in, old), ConvertTo(in, v)))

TruthOf(r) == Yields(FromBool(IsTruthy(r.v)), Known(r.st, "truth", FromBool(IsTruthy(r.v)) # r.v))
EvalLogic(e, l, st) ==
  IF IsTruthy(l) = (e.op = "PIPE_PIPE") THEN Yields(FromBool(IsTruthy(l)), st)
  ELSE TruthOf(Eval(e.right, st))

Operation(e, t, l, r, st) ==
  IF e.op \in Equalities \cup Orderings
  THEN Yields(FromBool(Compares(e.op, l, r)),
              Known(st, "other types", ~Comparable(e.left.type, e.right.type)))
  ELSE IF "Null" \in {l.kind, r.kind} THEN Yields(None, Known(st, "null used", TRUE))
  ELSE IF NoOperation(t, NameOf[e.op]) THEN Yields(None, Known(st, "no operation", TRUE))
  ELSE Outcomes(Computed(t, NameOf[e.op], l, r), st)
EvalBinary(e, vs, st) ==
  LET t == CommonType(e.left.type, e.right.type)
  IN  CASE e.op = "EQUAL"      -> EvalAssignment(e, vs, st)
        [] e.op \in Compounds  -> EvalCompound(e, vs[1], st)
        [] e.op \in {"AMPERSAND_AMPERSAND", "PIPE_PIPE"} -> EvalLogic(e, vs[1], st)
        [] OTHER -> Operation(e, t, ConvertTo(t, vs[1]), ConvertTo(t, vs[2]), st)

EvalUnary(e, v, st) ==
  LET t   == e.right.type
      not == Known(Known(st, "null used", v.kind = "Null"), "negated box", IsBox(v))
  IN  IF e.op = "BANG" THEN Yields(FromBool(~IsTruthy(v)), not)
      ELSE IF v.kind = "Null" THEN Yields(None, Known(st, "null used", TRUE))
      ELSE IF e.op = "MINUS" THEN Yields(Negated(t, v), st)
      ELSE IF IsLong(t) THEN Yields(FromLong(-v.long - 1), st)
      ELSE Yields(FromInt(-v.int - 1), Known(st, "no operation", ~IsPrim(t, {"int", "byte"})))

\* The operand's value before; only a variable is changed.
EvalPostfix(e, v, st) ==
  LET t   == e.operand.type
      op  == IF e.op = "PLUS_PLUS" THEN "ADD" ELSE "SUB"
      new == Computed(t, op, v, ConvertTo(t, FromInt(1))).value
  IN  IF v.kind = "Null" THEN Yields(None, Known(st, "null used", TRUE))
      ELSE Yields(v, Known(Assign(st, e.operand.name, new), "postfix", t # IntType))

\* An element put into an array is converted by the array, but for decimals.
GiveElement(t, v, st) ==
  Yields(ConvertTo(t, v),
         Known(Known(st, "unconverted", IsDecimal(t) /\ ConvertTo(t, v) # v),
               "null element", v.kind = "Null"))
RECURSIVE GiveRest(_, _, _, _)
GiveRest(ts, vs, stores, done) ==
  IF vs = << >> THEN Yields(done.vs, done.st)
  ELSE LET Given(r) == [vs |-> Append(done.vs, r.v), st |-> r.st]
       IN  GiveRest(Tail(ts), Tail(vs), stores,
                    Given(IF stores THEN GiveElement(Head(ts), Head(vs), done.st)
                                    ELSE Give(Head(ts), Head(vs), FALSE, done.st)))
GiveAll(ts, vs, stores, st) == GiveRest(ts, vs, stores, [vs |-> << >>, st |-> st])

NewArrayOf(elem, g) ==
  HeapOutcome(Allocates(ArrayObject("Ref", g.v), g.st.heap),
              Known(g.st, "decimal element", IsDecimal(elem)))
EvalArray(elem, vs, st) == NewArrayOf(elem, GiveAll(Uniform(vs, elem), vs, TRUE, st))

Answered(e, g) == HeapOutcome(MethodResult(e.scope, e.method, g.v, g.st.heap), g.st)
EvalMethod(e, vs, st) ==
  LET m    == MethodOf(e.scope, e.method)
      elem == IF e.scope = "array" THEN ElementOf(e.args[1].type) ELSE StringType
  IN  Answered(e, GiveAll([i \in DOMAIN m.params |-> ByRule(m.params[i], elem)], vs,
                          e.method \in {"push", "insert"}, st))

RECURSIVE Exec(_, _)

\* The body runs with its parameters only; the caller goes on with its own.
Entered(f, g) ==
  [Known(g.st, "nullable box", \E i \in DOMAIN f.params : HidesType(Declared[f.params[i]], g.v[i]))
     EXCEPT !.vars = [n \in Range(f.params) |-> g.v[CHOOSE i \in DOMAIN f.params : f.params[i] = n]]]
Left(ret, done, vars) ==
  LET back == Give(ret, IF done.returned THEN done.result ELSE FromInt(0), FALSE, done)
  IN  Yields(back.v, [back.st EXCEPT !.vars = vars, !.returned = FALSE, !.result = None])
EvalCall(e, vs, st) ==
  LET f  == Library[e.callee]
      ts == Declared[e.callee].parts
  IN  IF e.callee = "print" THEN Yields(None, [st EXCEPT !.out = Append(@, Shown(vs[1]))])
      ELSE Left(Head(ts), Exec(f.body, Entered(f, GiveAll(Tail(ts), SubSeq(vs, 1, Len(f.params)),
                                                          FALSE, st))), st.vars)

EvalCast(e, v, st) ==
  LET t == e.operand.type
  IN  IF v.kind = "Null" THEN Yields(None, Known(st, "null used", ~EqualsBase(t, e.target)))
      ELSE Outcomes(CastOf(t, e.target, v), Known(st, "odd cast", OddCast(t, e.target, v)))

\* The value of a call, a member or an element.
Fetched(e, r) ==
  Yields(ConvertTo(e.type, r.v),
         Known(Known(r.st, "nullable box", HidesType(e.type, r.v)),
               "unset", r.st.error = "" /\ ConvertTo(e.type, r.v) # r.v))

Evaluated(e, vs, st) ==
  CASE e.node = "Literal"      -> Yields(LiteralValue(e), st)
    [] e.node = "Identifier"   -> Yields(Look(st, e.name),
                                         Known(st, "unwritten", Look(st, e.name) = Unwritten))
    [] e.node = "Binary"       -> EvalBinary(e, vs, st)
    [] e.node = "Unary"        -> EvalUnary(e, vs[1], st)
    [] e.node = "Postfix"      -> EvalPostfix(e, vs[1], st)
    [] e.node = "ArrayLiteral" -> EvalArray(ElementOf(e.type), vs, st)
    [] e.node = "Cast"         -> EvalCast(e, vs[1], st)
    [] e.node \in {"Call", "Member", "Index", "ScopeCall"} -> Fetched(e,
         CASE e.node = "Call"      -> EvalCall(e, vs, st)
           [] e.node = "Member"    -> IF NamesEnum(e.object)
                                      THEN Yields(FromInt(Members[e.object.name][e.member]), st)
                                      ELSE HeapOutcome(FieldRead(st.heap, vs[1], e.member), st)
           [] e.node = "Index"     -> HeapOutcome(ElementRead(st.heap, vs[1], vs[2]), st)
           [] e.node = "ScopeCall" -> EvalMethod(e, vs, st))
Sound(e, all) == IF all.st.error # "" THEN Yields(None, all.st) ELSE Evaluated(e, all.v, all.st)
Eval(e, st)   == Sound(e, EvalAll(Operands(e), st))

-----------------------------------------------------------------------------
(* Statements and programs.                                                 *)

\* A declaration converts to exactly its type, from a type that is not nullable.
Binds(name, v, s) == [s EXCEPT !.vars = (name :> v) @@ @]
SetToDefault(st, d, s) ==
  [Binds(st.name, IF d.value = FromInt(0) THEN Unwritten ELSE d.value, s) EXCEPT !.heap = d.heap,
     !.odd = @ \cup (IF d.value.kind \in {"Int", "Null", "String", "Ref"} THEN {} ELSE {"unset"})]
SetTo(st, r) ==
  LET g == Give(st.type, r.v, ~st.type.nullable /\ ~IsByte(st.type), r.st)
  IN  Binds(st.name, g.v, g.st)

RECURSIVE ExecAll(_, _)
ExecAll(ss, s) == IF ss = << >> THEN s ELSE ExecAll(Tail(ss), Exec(Head(ss), s))

OutOf(after, s) == [after EXCEPT !.vars = [n \in DOMAIN s.vars |-> after.vars[n]]]
\* A statement, once the expression it starts with has the value r.v.
Executed(st, r) ==
  IF r.st.error # "" THEN r.st
  ELSE CASE st.node = "Block"        -> OutOf(ExecAll(st.body, r.st), r.st)
         [] st.node = "VariableDecl" ->
              IF st.init = Absent THEN SetToDefault(st, DefaultOf(st.type, r.st.heap), r.st)
              ELSE SetTo(st, r)
         [] st.node = "Expression"   -> r.st
         [] st.node = "Return"       -> [r.st EXCEPT !.returned = TRUE, !.result = r.v]
         [] st.node = "If"           ->
              IF IsTruthy(r.v) THEN Exec(st.then, r.st)
              ELSE IF st.else = Absent THEN r.st ELSE Exec(st.else, r.st)
StartOf(st, s) ==
  IF st.node = "Block" \/ st[FirstPart[st.node]] = Absent THEN Yields(FromInt(0), s)
  ELSE Eval(st[FirstPart[st.node]], s)
Exec(st, s) == IF s.error # "" \/ s.returned THEN s ELSE Executed(st, StartOf(st, s))

\* The global variables have their initial values before main starts.
Settled(v) == IF v = Unwritten THEN FromInt(0) ELSE v
Global(d, r, vars) ==
  IF r.error # "" THEN r
  ELSE [r EXCEPT !.vars = vars, !.globals = (d.name :> Settled(r.vars[d.name])) @@ @]
RECURSIVE ExecGlobals(_, _)
ExecGlobals(ds, s) ==
  IF ds = << >> THEN s
  ELSE ExecGlobals(Tail(ds), Global(Head(ds), Exec(Head(ds), s), s.vars))
ProgramMeaning(globals, body) == Exec(body, ExecGlobals(globals, Fresh0))
=============================================================================
