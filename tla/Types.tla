------------------------------- MODULE Types -------------------------------
(***************************************************************************)
(* Types (src/src/core/type.hpp) and the trees of expressions and          *)
(* statements the compiler's passes hand to each other.  A name of a type  *)
(* in the program's text, as "int?" or "byte[]", is the type it resolves   *)
(* to (Type::fromName); `parts' are the element of an array, or the result *)
(* and the parameters of a function.                                       *)
(***************************************************************************)
EXTENDS Integers, Sequences, TLC

CONSTANTS IntBits, LongBits, ByteBits,  \* the widths of int, longint and byte
          Declared,   \* the type of every variable and function, by name
          Layout,     \* the fields of every struct, and the type of each
          Members     \* the members of every enum, and the value of each

ASSUME WidthAssumption ==
  /\ {IntBits, LongBits, ByteBits} \subseteq Nat \ {0}
  /\ ByteBits < IntBits /\ IntBits < LongBits

IntMax  == 2^(IntBits - 1) - 1
LongMax == 2^(LongBits - 1) - 1
ByteMax == 2^ByteBits - 1

TypeOf(kind, name, parts) ==
  [kind |-> kind, name |-> name, parts |-> parts, nullable |-> FALSE]

Prim(p)           == TypeOf("primitive", p, << >>)
Array(elem)       == TypeOf("array", "", <<elem>>)
Struct(n)         == TypeOf("struct", n, << >>)
Enum(n)           == TypeOf("enum", n, << >>)
Function(ret, ps) == TypeOf("function", "", <<ret>> \o ps)
ErrorType         == TypeOf("error", "", << >>)

IntType     == Prim("int")
LongType == Prim("longint")
FloatType   == Prim("float")
DoubleType  == Prim("double")
DecimalType == Prim("decimal")
ByteType    == Prim("byte")
DateType    == Prim("date")
StringType  == Prim("string")
BoolType    == Prim("bool")
VoidType    == Prim("void")

AsNullable(t) == [t EXCEPT !.nullable = TRUE]
AsNonNull(t)  == [t EXCEPT !.nullable = FALSE]

\* The predicates look at the base of a type, never at its nullability.
IsPrim(t, names) == t.kind = "primitive" /\ t.name \in names
IsNumeric(t)     == IsPrim(t, {"int", "longint", "float", "double", "decimal", "byte"})
IsIntegral(t)    == IsPrim(t, {"int", "longint"})
IsLong(t)        == IsPrim(t, {"longint"})
IsByte(t)        == IsPrim(t, {"byte"})
IsDecimal(t)     == IsPrim(t, {"decimal"})
IsString(t)      == IsPrim(t, {"string"})
IsVoid(t)        == IsPrim(t, {"void"})
IsError(t)       == t.kind = "error"
IsNullLiteral(t) == IsVoid(t) /\ t.nullable
ElementOf(t)     == t.parts[1]

EqualsBase(t, u) == AsNonNull(t) = AsNonNull(u)

-----------------------------------------------------------------------------
(* Expressions.  An operator is named as its token; the sort of a literal,  *)
(* as its LiteralType.  The value of a floating literal is its number of     *)
(* tenths, that of a string the sequence of its parts.                      *)

\* resolvedType, which the type checker writes.
Node(kind)         == [node |-> kind, type |-> ErrorType]

Literal(sort, v)   == [sort |-> sort, value |-> v] @@ Node("Literal")
Null               == Literal("NULL", 0)
Var(n)             == [name |-> n] @@ Node("Identifier")
Binary(op, l, r)   == [op |-> op, left |-> l, right |-> r] @@ Node("Binary")
Unary(op, e)       == [op |-> op, right |-> e] @@ Node("Unary")
Postfix(op, e)     == [op |-> op, operand |-> e] @@ Node("Postfix")
Call(f, args)      == [callee |-> f, args |-> args] @@ Node("Call")
Member(e, m)       == [object |-> e, member |-> m] @@ Node("Member")
ArrayOf(es)        == [elements |-> es] @@ Node("ArrayLiteral")
Index(e, i)        == [object |-> e, index |-> i] @@ Node("Index")
Cast(e, t)         == [operand |-> e, target |-> t] @@ Node("Cast")

\* A method called with a dot, or through the name of a category or a type.
Scoped(s, m, args) == [scope |-> s, method |-> m, args |-> args] @@ Node("ScopeCall")
Dot(m, args)       == Scoped("", m, args)

IsLiteral(e) == e.node = "Literal"
IsNullNode(e) == IsLiteral(e) /\ e.sort = "NULL"

AssignOps  == {"EQUAL", "PLUS_EQUAL", "MINUS_EQUAL", "STAR_EQUAL", "SLASH_EQUAL",
               "PERCENT_EQUAL"}
BitAssigns == {"AMPERSAND_EQUAL", "PIPE_EQUAL", "CARET_EQUAL", "LSHIFT_EQUAL",
               "RSHIFT_EQUAL"}
Equalities == {"EQUAL_EQUAL", "BANG_EQUAL"}
Orderings  == {"LESS", "LESS_EQUAL", "GREATER", "GREATER_EQUAL"}
Additions  == {"PLUS", "MINUS", "STAR", "SLASH", "PERCENT"}
BitOps     == {"AMPERSAND", "PIPE", "CARET", "LSHIFT", "RSHIFT"}

-----------------------------------------------------------------------------
(* Statements.                                                              *)

Absent           == [node |-> "Absent"]   \* a null child
Block(ss)        == [node |-> "Block", body |-> ss]
Declare(n, t, e) == [node |-> "VariableDecl", name |-> n, type |-> t, init |-> e]
Do(e)            == [node |-> "Expression", expr |-> e]
If(c, t, e)      == [node |-> "If", cond |-> c, then |-> t, else |-> e]
While(c, b)      == [node |-> "While", cond |-> c, body |-> b]
DoWhile(b, c)    == [node |-> "DoWhile", cond |-> c, body |-> b]
For(i, c, u, b)  == [node |-> "For", init |-> i, cond |-> c, update |-> u, body |-> b]
Switch(e, cs)    == [node |-> "Switch", subject |-> e, cases |-> cs]
Case(vs, ss)     == [isDefault |-> FALSE, values |-> vs, body |-> ss]
Default(ss)      == [isDefault |-> TRUE, values |-> << >>, body |-> ss]
Try(b, h)        == [node |-> "Try", body |-> b, handler |-> h]
Throw(e)         == [node |-> "Throw", value |-> e]
Return(e)        == [node |-> "Return", value |-> e]
Break            == [node |-> "Break"]
Continue         == [node |-> "Continue"]
=============================================================================
