----------------------------- MODULE MCCompile -----------------------------
(* Small programs for Compile: declarations of variables and a use of them. *)
(* A variable is named after its type, with a letter before it.             *)
EXTENDS Compile

Prims     == {"int", "longint", "float", "double", "decimal", "byte", "bool", "string"}
Nullables == {"int", "longint", "double", "string"}
A(p) == "a" \o p
B(p) == "b" \o p
N(p) == "n" \o p

MCDeclared ==
  [n \in {A(p) : p \in Prims} |-> Prim(CHOOSE p \in Prims : n = A(p))] @@
  [n \in {B(p) : p \in Prims} |-> Prim(CHOOSE p \in Prims : n = B(p))] @@
  [n \in {N(p) : p \in Nullables} |-> AsNullable(Prim(CHOOSE p \in Nullables : n = N(p)))] @@
  [print |-> Function(VoidType, << >>),
   add   |-> Function(IntType, <<IntType, IntType>>),
   half  |-> Function(DoubleType, <<DoubleType>>),
   sign  |-> Function(AsNullable(IntType), <<IntType>>),
   pick  |-> Function(AsNullable(StringType), <<AsNullable(IntType)>>),
   share |-> Function(IntType, <<IntType, IntType>>),
   twice |-> Function(DecimalType, <<DecimalType>>),
   bump  |-> Function(IntType, << >>),
   gi    |-> IntType, gs |-> StringType, gd |-> DoubleType,
   p     |-> IntType, q |-> IntType, d |-> DoubleType, r |-> AsNullable(IntType),
   c     |-> DecimalType, w |-> AsNullable(StringType), t |-> Struct("T"),
   decimals |-> Array(DecimalType),
   shown |-> Function(BoolType, <<AsNullable(StringType)>>),
   ints  |-> Array(IntType), doubles |-> Array(DoubleType), texts |-> Array(StringType),
   more  |-> Array(IntType), s |-> Struct("S"), o |-> Struct("O"), E |-> Enum("E"),
   e     |-> Enum("E")]
MCLayout  == [S |-> [x |-> IntType, t |-> StringType, m |-> AsNullable(IntType)],
              T |-> [u |-> AsNullable(StringType), w |-> AsNullable(DoubleType), k |-> DecimalType, f |-> FloatType],
              O |-> [in |-> Struct("S"), xs |-> Array(IntType)]]
MCMembers == [E |-> [first |-> 0, other |-> 4]]

-----------------------------------------------------------------------------
Num(n)   == IF n < 0 THEN Unary("MINUS", Literal("INTEGER", -n)) ELSE Literal("INTEGER", n)
Tenths(n) == Literal("FLOAT", n)
Str(w)   == Literal("STRING", <<Word(w)>>)
True     == Literal("BOOLEAN", TRUE)
Prints(x) == Do(Call("print", <<x>>))
Set(n, x) == Do(Binary("EQUAL", Var(n), x))
Let(p, n, v) == Declare(n, Prim(p), v)
IsNull(n)  == Binary("EQUAL_EQUAL", Var(n), Null)
NotNull(n) == Binary("BANG_EQUAL", Var(n), Null)
Inc(n)     == Binary("PLUS", Var(n), Num(1))

MCLibrary ==
  [add  |-> [params |-> <<"p", "q">>,
             body |-> Block(<<Return(Binary("PLUS", Var("p"), Var("q")))>>)],
   half |-> [params |-> <<"d">>,
             body |-> Block(<<Return(Binary("SLASH", Var("d"), Num(2)))>>)],
   sign |-> [params |-> <<"p">>,
             body |-> Block(<<If(Binary("LESS", Var("p"), Num(0)), Return(Null), Absent),
                              Return(Num(1))>>)],
   pick |-> [params |-> <<"r">>,
             body |-> Block(<<If(IsNull("r"), Return(Null), Absent), Return(Str("x"))>>)],
   shown |-> [params |-> <<"w">>,
              body |-> Block(<<If(IsNull("w"), Return(Literal("BOOLEAN", FALSE)), Absent), Return(True)>>)],
   share |-> [params |-> <<"p", "q">>,
              body |-> Block(<<Set("gi", Num(1)), Set("gi", Binary("SLASH", Var("p"), Var("q"))),
                               Set("gi", Num(2)), Return(Var("gi"))>>)],
   twice |-> [params |-> <<"c">>,
              body |-> Block(<<Return(Binary("PLUS", Var("c"), Var("c")))>>)],
   bump |-> [params |-> << >>,
             body |-> Block(<<Do(Binary("PLUS_EQUAL", Var("gi"), Num(1))), Return(Var("gi"))>>)]]
MCGlobals == <<Declare("gi", IntType, Num(3)), Declare("gs", StringType, Absent),
               Declare("gd", DoubleType, Tenths(15))>>

Samples(p) ==
  CASE p = "int"     -> {Num(-16), Num(3), Num(15)}
    [] p = "longint" -> {Num(-1024), Num(6)}
    [] p \in {"float", "double", "decimal"} -> {Tenths(25), Num(7)}
    [] p = "byte"    -> {Num(7)}
    [] p = "bool"    -> {True}
    [] p = "string"  -> {Str("x"), Literal("STRING", <<WholeText(12)>>)}
Sample(p) == CHOOSE v \in Samples(p) : TRUE

BinaryOps  == Additions \cup BitOps \cup {"LESS", "GREATER_EQUAL", "EQUAL_EQUAL", "BANG_EQUAL"}
TwoOperands ==
  UNION {{Block(<<Let(p, A(p), v), Let(q, B(q), w), Prints(Binary(op, Var(A(p)), Var(B(q))))>>) :
           v \in Samples(p), w \in Samples(q), op \in BinaryOps} : p, q \in Prims}

\* Literals only, where a value of type p is wanted.
Literals == {Num(3), Num(-1), Num(0), Tenths(25), True}
OfLiterals ==
  {Block(<<Let(p, A(p), Binary(op, v, w)), Prints(Var(A(p)))>>) :
     p \in {"int", "double", "decimal", "bool"}, v \in Literals, w \in Literals, op \in BinaryOps}
Nested ==
  {Block(<<Prints(Binary(op, Binary(in, Num(-15), Num(k)), Num(m)))>>) :
     op \in BinaryOps, in \in {"MINUS", "STAR"}, k \in {0, 1}, m \in {-1, 0, 7}}

OneOperand ==
  {Block(<<Let(p, A(p), Sample(p)), Prints(Unary(op, Var(A(p))))>>) :
     p \in Prims, op \in {"MINUS", "BANG", "TILDE"}} \cup
  {Block(<<Let(p, A(p), Unary(op, v)), Prints(Var(A(p)))>>) :
     p \in Prims, op \in {"MINUS", "BANG", "TILDE"}, v \in {Num(3), Num(16), True, Tenths(25)}} \cup
  UNION {{Block(<<Let(p, A(p), v), Prints(Postfix(op, Var(A(p)))), Prints(Var(A(p)))>>) :
     v \in Samples(p), op \in {"PLUS_PLUS", "MINUS_MINUS"}} : p \in Prims}

CastSamples(p) == Samples(p) \cup
  (CASE p = "decimal" -> {Num(20)} [] p = "longint" -> {Num(1023)} [] p = "double" -> {Num(100)}
     [] p = "string" -> {Literal("STRING", << >>), Literal("STRING", <<HalvesText(5)>>)}
     [] OTHER -> {})
Casts ==
  UNION {{Block(<<Let(p, A(p), v), Prints(Cast(Var(A(p)), t))>>) :
     v \in CastSamples(p), t \in {Prim(q) : q \in Prims} \cup {AsNullable(Prim(q)) : q \in Prims}} :
     p \in Prims}

Assignments ==
  {Block(<<Let(p, A(p), Sample(p)), Let(q, B(q), Sample(q)),
           Do(Binary(op, Var(A(p)), Var(B(q)))), Prints(Var(A(p)))>>) :
     p \in Prims, q \in Prims, op \in AssignOps \cup {"PIPE_EQUAL", "LSHIFT_EQUAL"}} \cup
  {Block(<<Let(q, B(q), Sample(q)), Let(p, A(p), Var(B(q))), Prints(Var(A(p)))>>) :
     p \in Prims, q \in Prims}

-----------------------------------------------------------------------------
(* A variable that may be null, and what a condition tells the checker.     *)

MaybeInt(v) == Declare("nint", AsNullable(IntType), v)
Conditions == {IsNull("nint"), NotNull("nint"),
               Binary("AMPERSAND_AMPERSAND", NotNull("nint"),
                      Binary("LESS", Inc("nint"), Num(9))),
               Binary("PIPE_PIPE", IsNull("nint"), Binary("LESS", Var("nint"), Num(9)))}
Uses == {Prints(Inc("nint")), Let("int", "aint", Var("nint")), Return(Absent),
         Block(<<Prints(Num(1)), Return(Absent)>>), Prints(Unary("MINUS", Var("nint"))),
         Prints(Cast(Var("nint"), LongType))}
Checked_ ==
  {Block(<<MaybeInt(v), If(c, u, w), x>>) :
     v \in {Null, Num(3)}, c \in Conditions, u \in Uses, w \in Uses \cup {Absent},
     x \in {Prints(Inc("nint")), Prints(Var("nint"))}}
Nulls ==
  {Block(<<MaybeInt(v), If(NotNull("nint"), Block(<<Set("nint", w), Prints(Inc("nint"))>>), Absent)>>) :
     v \in {Num(3)}, w \in {Null, Num(5), Call("sign", <<Num(-1)>>)}} \cup
  UNION {{Block(<<Declare(N(p), AsNullable(Prim(p)), v), x>>) :
     v \in {Null, Num(2), Str("x"), Absent},
     x \in {Prints(Var(N(p))), Prints(IsNull(N(p))), Prints(NotNull(N(p))),
            Prints(Binary("EQUAL_EQUAL", Var(N(p)), Num(2))),
            Prints(Binary("PLUS", Var(N(p)), Str("y"))),
            Prints(Unary("BANG", Var(N(p)))), Prints(Binary("LESS", Var(N(p)), Num(2))),
            Prints(Postfix("PLUS_PLUS", Var(N(p))))}} : p \in Nullables}

Calls ==
  UNION {{Block(<<Let(p, A(p), Sample(p)), Prints(Call(f, args))>>) :
     f \in {"add", "half", "sign", "bump", "gi"},
     args \in {<< >>, <<Var(A(p))>>, <<Num(-2)>>, <<Var(A(p)), Num(2)>>}} : p \in Prims}
OrderOps == {"PLUS", "STAR", "LESS"}
Orders ==
  {Block(<<Let("int", "aint", Num(2)), Prints(Binary(op, l, r)), Prints(Var("aint"))>>) :
     op \in OrderOps \cup {"AMPERSAND_AMPERSAND", "PIPE_PIPE"},
     l \in {Var("aint"), Postfix("PLUS_PLUS", Var("aint")), Call("bump", << >>), Var("gi"),
            Binary("EQUAL", Var("aint"), Num(0)), Num(0)},
     r \in {Var("aint"), Postfix("PLUS_PLUS", Var("aint")), Call("bump", << >>), Var("gi"),
            Binary("EQUAL", Var("aint"), Num(0)), Binary("PLUS_EQUAL", Var("aint"), Num(5))}}

-----------------------------------------------------------------------------
(* Arrays, strings, structs and enums.                                      *)

Xs(es) == Declare("ints", Array(IntType), ArrayOf(es))
On(n, m, args) == Dot(m, <<Var(n)>> \o args)
ArrayUses ==
  {On("ints", "length", << >>), On("ints", "push", <<Num(9)>>), On("ints", "pop", << >>),
   On("ints", "insert", <<Num(1), Num(9)>>), On("ints", "insert", <<Num(7), Num(9)>>),
   On("ints", "remove", <<Num(0)>>), On("ints", "contains", <<Num(4)>>),
   On("ints", "indexOf", <<Num(4)>>), On("ints", "indexOf", <<Num(5)>>), On("ints", "clear", << >>),
   Index(On("ints", "slice", <<Num(1), Num(9)>>), Num(0)), Index(On("ints", "reverse", << >>), Num(0)),
   Index(On("ints", "concat", <<Var("ints")>>), Num(1)), Index(Var("ints"), Num(1)),
   Index(Var("ints"), Num(-1)), Binary("EQUAL", Index(Var("ints"), Num(0)), Num(8))}
Arrays ==
  {Block(<<Xs(es), Prints(u), Prints(On("ints", "length", << >>)), Prints(Index(Var("ints"), Num(0)))>>) :
     es \in {<<Num(3), Num(4)>>, << >>}, u \in ArrayUses \ {On("ints", "clear", << >>)}} \cup
  {Block(<<Xs(<<Num(3), Num(4)>>), Do(u), Prints(Index(Var("ints"), Num(0)))>>) : u \in ArrayUses} \cup
  {Block(<<Declare("doubles", Array(DoubleType), ArrayOf(<<Num(3), Tenths(25)>>)),
           Let("int", "aint", Num(2)), Do(u), Prints(Index(Var("doubles"), Num(0)))>>) :
     u \in {On("doubles", "push", <<Num(1)>>), On("doubles", "insert", <<Num(0), Var("aint")>>),
            Binary("EQUAL", Index(Var("doubles"), Num(0)), Var("aint")),
            On("doubles", "reverse", << >>)}} \cup
  {Block(<<Xs(<<Num(3), Num(4)>>), Declare("more", Array(IntType), Var("ints")),
           Do(On("more", "push", <<Num(5)>>)), Prints(On("ints", "length", << >>)),
           Prints(Binary("EQUAL_EQUAL", Var("ints"), Var("more")))>>)}

Word3 == Literal("STRING", <<Word("x"), Word(" "), Word("y")>>)
StringUses ==
  {On("astring", m, << >>) : m \in {"length", "trim"}} \cup
  {On("astring", m, <<Str("y")>>) : m \in {"indexOf", "contains", "startsWith", "endsWith"}} \cup
  {On("astring", "substring", <<Num(f), Num(n)>>) : f \in {0, 1, 5}, n \in {1, 9}} \cup
  {On("astring", "charAt", <<Num(i)>>) : i \in {0, 3}} \cup
  {On("astring", "replace", <<Str("x"), Str("y")>>), On("astring", "repeat", <<Num(2)>>),
   On("astring", "push", <<Num(2)>>), On("astring", "length", <<Num(2)>>),
   Index(On("astring", "split", <<Str(" ")>>), Num(1)),
   Binary("PLUS", Var("astring"), Var("gs")), Binary("EQUAL_EQUAL", Var("astring"), Word3),
   Binary("PLUS_EQUAL", Var("astring"), Str("z"))}
Strings == {Block(<<Let("string", "astring", Word3), Prints(u), Prints(Var("astring"))>>) :
              u \in StringUses}

X(n, f)  == Member(Var(n), f)
Structs ==
  {Block(<<Declare("s", Struct("S"), Absent), Do(u), Prints(v)>>) :
     u \in {Binary("EQUAL", X("s", "x"), Num(5)), Binary("EQUAL", X("s", "m"), Num(5)),
            Binary("EQUAL", X("s", "x"), Null), Binary("EQUAL", X("s", "t"), Str("y"))},
     v \in {X("s", "x"), X("s", "t"), X("s", "m"), X("s", "none"),
            Binary("PLUS", X("s", "x"), Num(1)), Binary("PLUS", X("s", "m"), Num(1)),
            Binary("EQUAL_EQUAL", X("s", "m"), Null)}} \cup
  {Block(<<Declare("o", Struct("O"), Absent), Declare("s", Struct("S"), X("o", "in")),
           Do(Binary("EQUAL", X("s", "x"), Num(5))), Do(Dot("push", <<X("o", "xs"), Num(2)>>)), Prints(v)>>) :
     v \in {Member(X("o", "in"), "x"), Index(X("o", "xs"), Num(0)), Member(X("o", "in"), "t"),
            Binary("EQUAL_EQUAL", X("o", "in"), Var("s"))}} \cup
  {Block(<<Declare("e", Enum("E"), X("E", m)), Prints(Binary("EQUAL_EQUAL", Var("e"), X("E", "other")))>>) :
     m \in {"first", "other", "none"}}

\* What only native code keeps apart: null flags, registers, boxes and classes.
Then(n, v) == Do(Binary("EQUAL", Var(n), v))
NullRegisters ==
  UNION {{Block(<<Declare(N(p), AsNullable(Prim(p)), v), Then(N(p), w), Prints(x)>>) :
     v \in {Null, Num(2), Str("x")}, w \in {Null, Num(5), Str("x"), Call("sign", <<Num(-1)>>)},
     x \in {Var(N(p)), IsNull(N(p)), NotNull(N(p)), Binary("EQUAL_EQUAL", Var(N(p)), Str("x")),
            Binary("EQUAL_EQUAL", Var(N(p)), Num(5)), Binary("LESS", Var(N(p)), Num(7)),
            Binary("EQUAL_EQUAL", Var(N(p)), Call("sign", <<Num(7)>>)),
            Call("pick", <<Var(N(p))>>), Cast(Var(N(p)), StringType),
            Binary("EQUAL_EQUAL", Call("pick", <<Var(N(p))>>), Null)}} : p \in Nullables}
NeverSet ==
  {Block(<<Let(p, A(p), Absent), Prints(x)>>) : p \in Prims, x \in {Num(1)}} \cup
  {Block(<<Let(p, A(p), Absent), Prints(Var(A(p)))>>) : p \in Prims}
Fails ==
  {Block(<<Prints(x), Prints(y)>>) :
     x \in {Call("share", <<Num(6), Num(0)>>), Call("share", <<Num(6), Num(4)>>),
            Call("twice", <<Tenths(700)>>), Call("twice", <<Num(15)>>), Binary("SLASH", Num(1), Num(0))},
     y \in {Var("gi"), Var("gd"), Binary("PLUS", Var("gd"), Num(1))}}
Boxes ==
  {Block(<<Declare("t", Struct("T"), Absent), Do(Binary("EQUAL", Member(Var("t"), f), v)),
           Prints(Member(Var("t"), g))>>) :
     f \in {"u", "w", "k", "f"}, v \in {Null, Str("x"), Tenths(25)}, g \in {"u", "w", "k", "f"}} \cup
  {Block(<<Declare("decimals", Array(DecimalType), ArrayOf(es)), Do(u),
           Prints(Index(Var("decimals"), Num(0)))>>) :
     es \in {<< >>, <<Tenths(25)>>},
     u \in {Dot("push", <<Var("decimals"), Tenths(15)>>), Binary("EQUAL", Index(Var("decimals"), Num(0)), Tenths(35)),
            Dot("length", <<Var("decimals")>>)}} \cup
  {Block(<<Prints(Call("shown", <<v>>))>>) : v \in {Null, Str("x"), Call("pick", <<Num(1)>>), Call("pick", <<Null>>)}}
Natives == Boxes \cup NullRegisters \cup NeverSet \cup Fails

MCPrograms == Natives \cup TwoOperands \cup OfLiterals \cup Nested \cup OneOperand \cup Casts \cup Assignments
  \cup Checked_ \cup Nulls \cup Calls \cup Orders \cup Arrays \cup Strings \cup Structs
=============================================================================
