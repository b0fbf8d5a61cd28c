----------------------------- MODULE TypeRules -----------------------------
(***************************************************************************)
(* The type checker (src/src/semantic/type_checker.cpp): every expression  *)
(* gets a type from its parts and from the type its context expects.  A    *)
(* check returns the tree with the types written to it and the checker's   *)
(* state: the codes it has reported, narrowedNonNull_, whether the literal *)
(* it is about to see is negated, and the return type of the function.     *)
(***************************************************************************)
EXTENDS Types, SequencesExt

-----------------------------------------------------------------------------
(* The signatures of the methods of strings, arrays and structs             *)
(* (src/src/data) and how a method is found (data_registry.cpp).  A   *)
(* rule of a parameter or of a result is a fixed type, "elem" for the       *)
(* element type of the receiver or "array" for an array of it; the receiver *)
(* is the first parameter.                                                  *)

Fixed(t)  == [rule |-> "fixed", type |-> t]
Elem      == [rule |-> "elem", type |-> ErrorType]
ElemArray == [rule |-> "array", type |-> ErrorType]

ByRule(r, elem) ==
  CASE r.rule = "fixed" -> r.type
    [] r.rule = "elem"  -> elem
    [] r.rule = "array" -> Array(elem)

Signature(ps, ret) == [params |-> ps, ret |-> ret]

Text   == Fixed(StringType)
Number == Fixed(IntType)

ArrayMethods ==
  [length   |-> Signature(<<ElemArray>>, Number),
   push     |-> Signature(<<ElemArray, Elem>>, Number),
   pop      |-> Signature(<<ElemArray>>, Elem),
   insert   |-> Signature(<<ElemArray, Number, Elem>>, Number),
   remove   |-> Signature(<<ElemArray, Number>>, Elem),
   slice    |-> Signature(<<ElemArray, Number, Number>>, ElemArray),
   reverse  |-> Signature(<<ElemArray>>, ElemArray),
   concat   |-> Signature(<<ElemArray, ElemArray>>, ElemArray),
   contains |-> Signature(<<ElemArray, Elem>>, Fixed(BoolType)),
   indexOf  |-> Signature(<<ElemArray, Elem>>, Fixed(AsNullable(IntType))),
   clear    |-> Signature(<<ElemArray>>, Fixed(VoidType)),
   toString |-> Signature(<<ElemArray>>, Text)]

StringMethods ==
  [length     |-> Signature(<<Text>>, Number),
   upper      |-> Signature(<<Text>>, Text),
   lower      |-> Signature(<<Text>>, Text),
   trim       |-> Signature(<<Text>>, Text),
   split      |-> Signature(<<Text, Text>>, Fixed(Array(StringType))),
   substring  |-> Signature(<<Text, Number, Number>>, Text),
   replace    |-> Signature(<<Text, Text, Text>>, Text),
   repeat     |-> Signature(<<Text, Number>>, Text),
   charAt     |-> Signature(<<Text, Number>>, Text),
   indexOf    |-> Signature(<<Text, Text>>, Fixed(AsNullable(IntType))),
   contains   |-> Signature(<<Text, Text>>, Fixed(BoolType)),
   startsWith |-> Signature(<<Text, Text>>, Fixed(BoolType)),
   endsWith   |-> Signature(<<Text, Text>>, Fixed(BoolType)),
   toBuffer   |-> Signature(<<Text>>, Fixed(Array(ByteType)))]

StructMethods == [toJson |-> Signature(<<Elem>>, Text), dump |-> Signature(<<Elem>>, Text)]

\* dataLookupMethod: methods of the receiver's own category first, then those
\* of arrays; "" when there is none.
Category(scope, method, isStruct, isArray) ==
  IF ~isArray /\ scope = "string" /\ method \in DOMAIN StringMethods THEN "string"
  ELSE IF ~isArray /\ isStruct /\ method \in DOMAIN StructMethods THEN "struct"
  ELSE IF method \in DOMAIN ArrayMethods THEN "array" ELSE ""

MethodOf(category, method) ==
  CASE category = "array"  -> ArrayMethods[method]
    [] category = "string" -> StringMethods[method]
    [] category = "struct" -> StructMethods[method]

-----------------------------------------------------------------------------
(* The state of the checker.                                                *)

Unchecked(ret) == [errs |-> {}, narrowed |-> {}, negated |-> FALSE, ret |-> ret]

Report(s, codes) == [s EXCEPT !.errs = @ \cup codes]
Rejected(s)      == s.errs \cap {"E001", "E003", "E006", "E008", "E012"} # {}

\* A tree e, as far as it is typed, and the state s of the checker.
Tree(e, s)       == [e |-> e, s |-> s]
Fill(r, part, c) == [e |-> [r.e EXCEPT ![part] = c.e], s |-> c.s]
Result(e, t, s)  == [e |-> [e EXCEPT !.type = t], s |-> s]
OfType(r, t)     == Result(r.e, t, r.s)
\* The trees of a list, checked up to the next one.
Nothing(s)       == [es |-> << >>, s |-> s]
Behind(done, r)  == [es |-> Append(done.es, r.e), s |-> r.s]
Mistyped(e, s)   == Result(e, ErrorType, Report(s, {"E003"}))
Require(ok, code, s) == IF ok THEN s ELSE Report(s, {code})

\* The tower of numeric types; byte and longint are not part of it.
Rank(t) ==
  CASE IsPrim(t, {"int"})     -> 0
    [] IsPrim(t, {"float"})   -> 1
    [] IsPrim(t, {"double"})  -> 2
    [] IsPrim(t, {"decimal"}) -> 3
    [] OTHER                  -> -1

\* checkAssign: the codes of giving a value of type src to a target.
AssignErrors(target, src, isLiteral) ==
  LET sameBase == EqualsBase(target, src)
      widening == IsLong(target) /\ IsIntegral(src)
      ranked   == Rank(target) >= 0 /\ Rank(src) >= 0
  IN  IF IsError(target) \/ IsError(src) THEN {}
      ELSE IF IsNullLiteral(src) THEN IF target.nullable THEN {} ELSE {"E003"}
      ELSE IF sameBase THEN IF src.nullable /\ ~target.nullable THEN {"E003"} ELSE {}
      ELSE IF IsLong(target) \/ IsLong(src) THEN IF widening THEN {} ELSE {"E003"}
      ELSE IF ranked /\ Rank(target) > Rank(src) THEN IF isLiteral THEN {} ELSE {"W004"}
      ELSE {"E003"}

CheckAssign(target, e, s) == Report(s, AssignErrors(target, e.type, IsLiteral(e)))

-----------------------------------------------------------------------------
(* Literals.                                                                *)

\* The type of a whole number where `expected' is; ErrorType when it is out of
\* range.  Under a minus sign the least int and longint can be written.
IntegerType(v, expected, negated) ==
  LET beyond == IF negated THEN 1 ELSE 0
  IN  IF IsByte(expected) THEN IF v <= ByteMax THEN ByteType ELSE ErrorType
      ELSE IF IsDecimal(expected) THEN DecimalType
      ELSE IF IsLong(expected) THEN IF v <= LongMax + beyond THEN LongType ELSE ErrorType
      ELSE IF Rank(expected) > 0 THEN expected
      ELSE IF v <= IntMax + beyond THEN IntType ELSE ErrorType

FloatingType(expected) ==
  IF IsDecimal(expected) THEN DecimalType
  ELSE IF expected = DoubleType THEN DoubleType
  ELSE IF Rank(expected) = 0 THEN ErrorType ELSE FloatType

LiteralType(e, expected, negated) ==
  CASE e.sort = "INTEGER" -> IntegerType(e.value, expected, negated)
    [] e.sort = "FLOAT"   -> FloatingType(expected)
    [] e.sort = "BOOLEAN" -> BoolType
    [] e.sort = "STRING"  -> StringType
    [] e.sort = "NULL"    -> IF ~IsError(expected) /\ expected.nullable
                             THEN expected ELSE AsNullable(VoidType)

CheckLiteral(e, expected, s) ==
  LET t == LiteralType(e, expected, s.negated)
  IN  Result(e, t, Require(~IsError(t), "E003", s))

\* A literal beside a numeric operand takes its type.
RetypeBy(e, other, s) ==
  IF IsLiteral(e) /\ IsNumeric(other) THEN CheckLiteral(e, other, s) ELSE Tree(e, s)

-----------------------------------------------------------------------------
(* Narrowing.                                                               *)

\* extractNullCheck: the variable a condition compares with null, if any.
NoCheck == [name |-> "", isNotNull |-> FALSE]
NullCheck(c) ==
  LET operand == IF IsNullNode(c.right) THEN c.left ELSE c.right
  IN  IF /\ c.node = "Binary" /\ c.op \in Equalities
         /\ IsNullNode(c.right) \/ IsNullNode(c.left)
         /\ operand.node = "Identifier"
      THEN [name |-> operand.name, isNotNull |-> c.op = "BANG_EQUAL"]
      ELSE NoCheck

Narrow(s, check, when) ==
  IF check.name # "" /\ check.isNotNull = when
  THEN [s EXCEPT !.narrowed = @ \cup {check.name}] ELSE s
Widen(s, check, when) ==
  IF check.name # "" /\ check.isNotNull = when
  THEN [s EXCEPT !.narrowed = @ \ {check.name}] ELSE s

CheckIdentifier(e, s) ==
  LET t == Declared[e.name]
  IN  Result(e, IF e.name \in s.narrowed THEN AsNonNull(t) ELSE t, s)

-----------------------------------------------------------------------------
(* Operators.                                                               *)

RECURSIVE Check(_, _, _)

CheckPlain(e, s) == Check(e, ErrorType, s)

\* The part of a tree of that name, when there is one.
Part(r, part) ==
  IF r.e[part].node = "Absent" THEN r ELSE Fill(r, part, CheckPlain(r.e[part], r.s))
PartOf(r, part, t) ==
  IF r.e[part].node = "Absent" THEN r ELSE Fill(r, part, Check(r.e[part], t, r.s))

\* Trees checked one after the other, each in the context ts[i].
RECURSIVE CheckRest(_, _, _)
CheckRest(es, ts, done) ==
  IF es = << >> THEN done
  ELSE CheckRest(Tail(es), Tail(ts), Behind(done, Check(Head(es), Head(ts), done.s)))
CheckAll(es, ts, s) == CheckRest(es, ts, Nothing(s))
Uniform(es, t) == [i \in DOMAIN es |-> t]

\* =, +=, -=, *=, /= and %= : the right side is checked in the left one's type.
Assigned(r) == Result(r.e, r.e.left.type, CheckAssign(r.e.left.type, r.e.right, r.s))
CheckAssignment(l) == Assigned(PartOf(l, "right", l.e.left.type))

UnaryOf(r, negated) ==
  LET t     == r.e.right.type
      after == [r.s EXCEPT !.negated = negated]
  IN  IF r.e.op = "BANG"    THEN Result(r.e, BoolType, after)
      ELSE IF IsByte(t)     THEN Result(r.e, IntType, after)
      ELSE IF IsNumeric(t)  THEN Result(r.e, t, after)
      ELSE Result(r.e, ErrorType, Require(IsError(t), "E003", after))
CheckUnary(e, expected, s) ==
  UnaryOf(PartOf(Tree(e, [s EXCEPT !.negated = e.op = "MINUS" /\ IsLiteral(e.right)]),
                 "right", expected), s.negated)

\* The right side of && knows what the left one has checked.
Knowing(r, check) == [r EXCEPT !.s = Narrow(@, check, TRUE)]
CheckAnd(l, check) ==
  LET r == Part(Knowing(l, check), "right")
  IN  Result(r.e, BoolType, Widen(r.s, check, TRUE))

\* Literals retyped by the other operand.
RetypedBy(r, part, other) == Fill(r, part, RetypeBy(r.e[part], r.e[other].type, r.s))
Retyped(r)  == RetypedBy(RetypedBy(r, "left", "right"), "right", "left")

AnyError(e)    == IsError(e.left.type) \/ IsError(e.right.type)
AnyNullable(e) == e.left.type.nullable \/ e.right.type.nullable

\* < <= > >= : numbers, or two dates; never an operand that may be null.
Ordered(e) ==
  /\ ~AnyNullable(e)
  /\ \/ IsNumeric(e.left.type) /\ IsNumeric(e.right.type)
     \/ IsPrim(e.left.type, {"date"}) /\ IsPrim(e.right.type, {"date"})
CheckOrdering(r) ==
  IF AnyError(r.e) THEN OfType(r, ErrorType)
  ELSE IF Ordered(r.e) THEN OfType(r, BoolType) ELSE Mistyped(r.e, r.s)

\* The type of an arithmetic or bitwise operation; ErrorType when it has none.
\* A byte counts as an int, a longint mixes with integers only, and of two
\* types of the tower the wider one is the result.
Promote(t) == IF IsByte(t) THEN IntType ELSE t
ArithmeticType(left, right) ==
  LET l == Promote(left)
      r == Promote(right)
  IN  IF IsLong(l) \/ IsLong(r)
      THEN IF IsIntegral(l) /\ IsIntegral(r) THEN LongType ELSE ErrorType
      ELSE IF Rank(l) >= 0 /\ Rank(r) >= 0
           THEN IF Rank(l) >= Rank(r) THEN l ELSE r
           ELSE ErrorType

Arithmetic(r, t) == Result(r.e, t, Require(AnyError(r.e) \/ ~IsError(t), "E003", r.s))
Computing(r)     == Arithmetic(r, ArithmeticType(r.e.left.type, r.e.right.type))
CheckArithmetic(r) ==
  IF ~AnyError(r.e) /\ AnyNullable(r.e) THEN Mistyped(r.e, r.s)
  ELSE IF r.e.op = "PLUS" /\ IsString(r.e.left.type) /\ IsString(r.e.right.type)
       THEN OfType(r, StringType)
  ELSE Computing(Retyped(r))

Operated(r) ==
  CASE r.e.op = "PIPE_PIPE"   -> OfType(r, BoolType)
    [] r.e.op \in Equalities  -> OfType(Retyped(r), BoolType)
    [] r.e.op \in Orderings   -> CheckOrdering(Retyped(r))
    [] OTHER                  -> CheckArithmetic(r)
CheckBinary(l) ==
  CASE l.e.op \in AssignOps           -> CheckAssignment(l)
    [] l.e.op = "AMPERSAND_AMPERSAND" -> CheckAnd(l, NullCheck(l.e.left))
    [] OTHER                          -> Operated(Part(l, "right"))

-----------------------------------------------------------------------------
(* Calls, members, elements and casts.                                      *)

\* The type an argument is checked in: none beyond the parameters.
ParamOf(f, i) == IF i < Len(f.parts) THEN f.parts[i + 1] ELSE ErrorType

\* A function without parameters may be called with any number of arguments.
CallOf(e, f, args) ==
  LET argErrors == UNION {AssignErrors(ParamOf(f, i), args.es[i].type, IsLiteral(e.args[i])) :
                          i \in DOMAIN e.args}
      arity     == Len(f.parts) = 1 \/ Len(e.args) = Len(f.parts) - 1
  IN  IF f.kind # "function" THEN Mistyped([e EXCEPT !.args = args.es], args.s)
      ELSE Result([e EXCEPT !.args = args.es], f.parts[1],
                  Report(Require(arity, "E008", args.s), argErrors))
CheckCall(e, s) ==
  LET f == Declared[e.callee]
  IN  CallOf(e, f, CheckAll(e.args, [i \in DOMAIN e.args |->
                IF f.kind = "function" THEN ParamOf(f, i) ELSE ErrorType], s))

CheckPostfix(r) ==
  LET t == r.e.operand.type
  IN  Result(r.e, t, Require(IsNumeric(t) \/ IsError(t), "E003", r.s))

\* The type of member m of a value; the name of an enum stands for the enum.
MemberType(t, m) ==
  CASE t.kind = "enum" /\ m \in DOMAIN Members[t.name]         -> t
    [] t.kind = "struct" /\ m \in DOMAIN Layout[t.name] -> Layout[t.name][m]
    [] OTHER                                           -> ErrorType
CheckMember(r) ==
  LET t == MemberType(r.e.object.type, r.e.member)
  IN  IF r.e.object.type.nullable THEN Mistyped(r.e, r.s)
      ELSE Result(r.e, t, Require(~IsError(t), "E001", r.s))

\* The elements take the type the context expects; they are not compared
\* with it.
Elements(e, t, r) == Result([e EXCEPT !.elements = r.es], t, r.s)
CheckArrayLiteral(e, expected, s) ==
  LET t == IF expected.kind = "array" THEN expected ELSE Array(IntType)
  IN  Elements(e, t, CheckAll(e.elements, Uniform(e.elements, ElementOf(t)), s))

CheckIndex(r) ==
  LET t == r.e.object.type
  IN  IF t.kind = "array" THEN OfType(r, ElementOf(t))
      ELSE Result(r.e, ErrorType, Require(IsError(t), "E012", r.s))

\* Who answers a method call: the category the name is looked up in, the
\* element type, and what is reported about the form of the call.
Receiver(scope, elem, isStruct, codes) ==
  [scope |-> scope, elem |-> elem, isStruct |-> isStruct, codes |-> codes]
NoReceiver(codes) == Receiver("", ErrorType, FALSE, codes)

DotReceiver(e, t) ==
  CASE t.kind = "struct" /\ e.method \in DOMAIN Layout[t.name] -> NoReceiver({"E001"})
    [] t.kind = "array"  -> Receiver("array", ElementOf(t), ElementOf(t).kind = "struct", {})
    [] IsString(t)       -> Receiver("string", StringType, FALSE, {})
    [] t.kind = "struct" /\ e.method \notin DOMAIN Layout[t.name]
                         -> Receiver(t.name, t, TRUE, {})
    [] OTHER             -> NoReceiver(IF IsError(t) THEN {} ELSE {"E001"})
CategoryReceiver(e, t) ==
  IF t.kind # e.scope THEN NoReceiver({"E003"})
  ELSE IF e.scope = "array"
       THEN Receiver("array", ElementOf(t), ElementOf(t).kind = "struct", {})
       ELSE Receiver("struct", t, TRUE, {})
\* The old form: the name of the element type, or of a struct.
TypeReceiver(e, t) ==
  LET isStruct == e.scope \in DOMAIN Layout
      elem     == IF isStruct THEN Struct(e.scope) ELSE Prim(e.scope)
  IN  Receiver(e.scope, elem, isStruct,
               IF e.scope # "string" \/ t.kind = "array" THEN {"W006"} ELSE {})
ReceiverOf(e, t) ==
  CASE e.scope = ""                     -> DotReceiver(e, t)
    [] e.scope \in {"array", "struct"}  -> CategoryReceiver(e, t)
    [] OTHER                            -> TypeReceiver(e, t)

\* An argument of a method: a literal is typed again by the parameter.
ByParameter(a, t, s) ==
  IF IsLiteral(a) /\ ~IsError(t) THEN CheckLiteral(a, t, s) ELSE Tree(a, s)
RECURSIVE CheckParameters(_, _, _)
CheckParameters(as, ts, done) ==
  IF as = << >> THEN done
  ELSE CheckParameters(Tail(as), Tail(ts), Behind(done, ByParameter(Head(as), Head(ts), done.s)))

SignatureOf(e, m, elem, ts, r) ==
  LET codes == UNION {AssignErrors(ts[i], r.es[i].type, IsLiteral(r.es[i])) : i \in DOMAIN ts}
  IN  Result([e EXCEPT !.args = r.es],
             IF "E003" \in codes THEN ErrorType ELSE ByRule(m.ret, elem), Report(r.s, codes))
CheckSignature(e, m, elem, s) ==
  LET ts == [i \in DOMAIN m.params |-> ByRule(m.params[i], elem)]
  IN  SignatureOf(e, m, elem, ts, CheckParameters(e.args, ts, Nothing(s)))

\* Found, the method's category takes the place of the name it was called by.
MethodCall(e, t, rc, category, s) ==
  LET m == MethodOf(category, e.method)
      Fail(code) == Result(e, ErrorType, Report(s, {code}))
  IN  IF rc.scope = "" THEN Result(e, ErrorType, s)
      ELSE IF category = "" THEN Fail("E001")
      ELSE IF e.method = "toString" /\ ~(t.kind = "array" /\ IsByte(ElementOf(t))) THEN Fail("E003")
      ELSE IF Len(e.args) # Len(m.params) THEN Fail("E008")
      ELSE CheckSignature([e EXCEPT !.scope = category], m, rc.elem, s)
ReceivedBy(e, t, rc, s) ==
  MethodCall(e, t, rc, Category(rc.scope, e.method, rc.isStruct, t.kind = "array"), Report(s, rc.codes))
ScopeCallOf(e, args) ==
  LET t == IF args.es = << >> THEN ErrorType ELSE args.es[1].type
  IN  ReceivedBy([e EXCEPT !.args = args.es], t, ReceiverOf(e, t), args.s)
CheckScopeCall(e, s) == ScopeCallOf(e, CheckAll(e.args, Uniform(e.args, ErrorType), s))

\* The scalar types a value may be cast to with `as'.
Numbers == {"int", "longint", "float", "double", "decimal", "byte"}
CastTargets(from) ==
  CASE from = "bool"   -> {"bool", "string"}
    [] from = "string" -> (Numbers \ {"byte"}) \cup {"string"}
    [] from = "byte"   -> {"byte", "int", "string"}
    [] from = "int"    -> Numbers \cup {"string"}
    [] OTHER           -> (Numbers \ {"byte"}) \cup {"string"}
CheckCast(r) ==
  LET from == r.e.operand.type
  IN  IF \/ IsError(from)
         \/ from.kind = "primitive" /\ r.e.target.name \in CastTargets(from.name)
      THEN OfType(r, r.e.target) ELSE Mistyped(r.e, r.s)

Check(e, expected, s) ==
  CASE e.node = "Literal"      -> CheckLiteral(e, expected, s)
    [] e.node = "Identifier"   -> CheckIdentifier(e, s)
    [] e.node = "Binary"       -> CheckBinary(Part(Tree(e, s), "left"))
    [] e.node = "Unary"        -> CheckUnary(e, expected, s)
    [] e.node = "Call"         -> CheckCall(e, s)
    [] e.node = "Postfix"      -> CheckPostfix(Part(Tree(e, s), "operand"))
    [] e.node = "Member"       -> CheckMember(Part(Tree(e, s), "object"))
    [] e.node = "ArrayLiteral" -> CheckArrayLiteral(e, expected, s)
    [] e.node = "Index"        -> CheckIndex(Part(Part(Tree(e, s), "object"), "index"))
    [] e.node = "ScopeCall"    -> CheckScopeCall(e, s)
    [] e.node = "Cast"         -> CheckCast(Part(Tree(e, s), "operand"))

-----------------------------------------------------------------------------
(* Statements.                                                              *)

\* alwaysExits: the statement a guard `if (a == null) ...' may consist of.
RECURSIVE AlwaysExits(_)
AlwaysExits(st) ==
  \/ st.node \in {"Return", "Throw", "Break", "Continue"}
  \/ st.node = "Block" /\ st.body # << >> /\ AlwaysExits(Last(st.body))

\* pathAlwaysReturns: no path through the statement comes to its end.
RECURSIVE PathAlwaysReturns(_)
ClauseReturns(clause) == clause.body # << >> /\ PathAlwaysReturns(Last(clause.body))
PathAlwaysReturns(st) ==
  CASE st.node \in {"Return", "Throw"} -> TRUE
    [] st.node = "Block"  -> \E i \in DOMAIN st.body : PathAlwaysReturns(st.body[i])
    [] st.node = "If"     -> /\ st.else # Absent
                             /\ PathAlwaysReturns(st.then) /\ PathAlwaysReturns(st.else)
    [] st.node = "Switch" -> /\ \E i \in DOMAIN st.cases : st.cases[i].isDefault
                             /\ \A i \in DOMAIN st.cases : ClauseReturns(st.cases[i])
    [] OTHER              -> FALSE

RECURSIVE CheckStmt(_, _)

StmtPart(r, part) ==
  IF r.e[part].node = "Absent" THEN r ELSE Fill(r, part, CheckStmt(r.e[part], r.s))

\* The variable that a statement of a block, once behind it, has checked.
GuardOf(st) ==
  IF st.node = "If" /\ st.else = Absent /\ AlwaysExits(st.then)
  THEN NullCheck(st.cond) ELSE NoCheck

RECURSIVE CheckSeq(_, _)
CheckSeq(ss, done) ==
  IF ss = << >> THEN done
  ELSE CheckSeq(Tail(ss), Behind(done, CheckStmt(Head(ss), done.s)))

\* In a block, what the guards have checked is forgotten at its end.
RECURSIVE CheckGuarded(_, _)
CheckGuarded(ss, done) ==
  IF ss = << >> THEN done
  ELSE LET guard == GuardOf(Head(ss))
           first == Behind(done, CheckStmt(Head(ss), done.s))
           rest  == CheckGuarded(Tail(ss), [first EXCEPT !.s = Narrow(@, guard, FALSE)])
       IN  [rest EXCEPT !.s = Widen(@, guard, FALSE)]
Body(r, body) == [e |-> [r EXCEPT !.body = body.es], s |-> body.s]

CheckDeclaration(r) ==
  IF r.e.init = Absent THEN r ELSE [r EXCEPT !.s = CheckAssign(r.e.type, r.e.init, @)]

CheckReturn(r) ==
  [r EXCEPT !.s = IF r.e.value = Absent THEN Require(IsVoid(@.ret), "E006", @)
                  ELSE CheckAssign(@.ret, r.e.value, @)]

Else(r, check) == [r EXCEPT !.s = Narrow(Widen(@, check, TRUE), check, FALSE)]
Endif(r, check) == [r EXCEPT !.s = Widen(@, check, FALSE)]
CheckIf(r, check) ==
  Endif(StmtPart(Else(StmtPart(Knowing(r, check), "then"), check), "else"), check)

\* A loop: its parts in the order they are checked in.
CheckFor(r) == StmtPart(Part(Part(StmtPart(r, "init"), "cond"), "update"), "body")

\* A value of a case clause is of the type of the subject; null may be one when
\* the subject may be null.
CaseValue(r, base) ==
  [r EXCEPT !.s = Require(\/ IsError(r.e.type) \/ IsError(base) \/ IsVoid(base)
                          \/ EqualsBase(r.e.type, base), "E003", @)]
CheckCaseValue(v, subject, s) ==
  IF IsNullNode(v) THEN Tree(v, Require(subject.nullable, "E003", s))
  ELSE CaseValue(Check(v, AsNonNull(subject), s), AsNonNull(subject))
RECURSIVE CheckCaseValues(_, _, _)
CheckCaseValues(vs, subject, done) ==
  IF vs = << >> THEN done
  ELSE CheckCaseValues(Tail(vs), subject, Behind(done, CheckCaseValue(Head(vs), subject, done.s)))
Clause(c, vs, body) == [e |-> [c EXCEPT !.values = vs.es, !.body = body.es], s |-> body.s]
CheckClause(c, vs)  == Clause(c, vs, CheckSeq(c.body, Nothing(vs.s)))
RECURSIVE CheckClauses(_, _, _)
CheckClauses(cs, subject, done) ==
  IF cs = << >> THEN done
  ELSE CheckClauses(Tail(cs), subject,
         Behind(done, CheckClause(Head(cs), CheckCaseValues(Head(cs).values, subject, Nothing(done.s)))))

Clauses(r, cs) == [e |-> [r.e EXCEPT !.cases = cs.es], s |-> cs.s]
CheckSwitch(r) ==
  LET t == r.e.subject.type
  IN  Clauses(r, CheckClauses(r.e.cases, t,
                   Nothing(Require(t.kind \in {"primitive", "enum", "error"}, "E003", r.s))))

\* The expression a statement starts with, and the type it is checked in.
FirstPart == [VariableDecl |-> "init", Expression |-> "expr", Return |-> "value", If |-> "cond",
              While |-> "cond", Throw |-> "value", Switch |-> "subject"]
PartType(st, s) ==
  CASE st.node = "VariableDecl" -> st.type [] st.node = "Return" -> s.ret [] OTHER -> ErrorType
Begun(st, s) ==
  IF st.node \in DOMAIN FirstPart THEN PartOf(Tree(st, s), FirstPart[st.node], PartType(st, s))
  ELSE Tree(st, s)

Continued(r) ==
  CASE r.e.node = "Block"        -> Body(r.e, CheckGuarded(r.e.body, Nothing(r.s)))
    [] r.e.node = "VariableDecl" -> CheckDeclaration(r)
    [] r.e.node = "Return"       -> CheckReturn(r)
    [] r.e.node = "If"           -> CheckIf(r, NullCheck(r.e.cond))
    [] r.e.node = "While"        -> StmtPart(r, "body")
    [] r.e.node = "DoWhile"      -> Part(StmtPart(r, "body"), "cond")
    [] r.e.node = "For"          -> CheckFor(r)
    [] r.e.node = "Try"          -> StmtPart(StmtPart(r, "body"), "handler")
    [] r.e.node = "Switch"       -> CheckSwitch(r)
    [] r.e.node \in {"Expression", "Throw", "Break", "Continue"} -> r
CheckStmt(st, s) == Continued(Begun(st, s))

\* A function that returns a value does so on every path.
CheckFunction(body, ret) ==
  [CheckStmt(body, Unchecked(ret)) EXCEPT !.s =
     Require(IsVoid(ret) \/ PathAlwaysReturns(body), "E006", @)]
=============================================================================
