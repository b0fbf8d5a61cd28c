------------------------------ MODULE MCParser ------------------------------
(***************************************************************************)
(* The texts that the parser is checked on: everything that can be said    *)
(* with a few tokens, by itself and behind the beginning of each construct *)
(* whose loops and errors are its own; the texts of trees; and statements  *)
(* behind broken ones.                                                     *)
(***************************************************************************)
EXTENDS SourceText

\* Every kind of token the rules tell apart.
Kinds == {"x", "1", "int", "as", "=", "-", "++", "?", ".", "[", "]", "(", ")", "{", "}", ";",
           ",", ":", "if", "for", "case", "export", "auto", "catch", "struct", "else"}
Vocabulary == Kinds \cup
  {"f", "S", "a text", "null", "void", "import", "enum", "ffi", "return", "throw", "break", "while",
   "do", "switch", "default", "try", "continue", "+", "*", "!", "->", "::", "class", "from",
   "requires", "Error"}

Main == <<"void", "f", "(", ")", "{">>
Plain(ts) == [tokens |-> ts, goal |-> NoGoal]

\* Everything that n tokens of ts can say behind a beginning.
Begun(beginnings, ts, n) == {Plain(b \o t) : b \in beginnings, t \in [1..n -> ts]}

\* Beginnings of what has loops and errors of its own.
Beginnings ==
  {Main \o <<"switch", "(", "x", ")", "{">>,
   Main \o <<"switch", "(", "x", ")", "{", "case", "1">>,
   Main \o <<"try", "{", "}", "catch">>,
   Main \o <<"try", "{", "}", "catch", "(", "Error">>,
   Main \o <<"for", "(">>,
   Main \o <<"for", "(", ";">>,
   Main \o <<"f", "(">>,
   Main \o <<"f", "(", "1">>,
   Main \o <<"x", "=", "[">>,
   Main \o <<"x", ".">>,
   Main \o <<"do", "x", ";">>,
   Main \o <<"int", "x">>,
   Main \o <<"int", "x", "[">>,
   <<"enum", "S", "{">>,
   <<"enum", "S", "{", "x">>,
   <<"struct", "S", "{">>,
   <<"import", "{">>,
   <<"import", "{", "x">>,
   <<"import", "{", "x", "}">>,
   <<"ffi", "int">>,
   <<"ffi", "int", "f", "(", "int", "x", ")">>,
   <<"export">>,
   <<"int", "f", "(">>}

-----------------------------------------------------------------------------
(* Trees.  One operator of every level, and the ones with a rule of their  *)
(* own; a cast before the operator ? would be a cast to a nullable type.   *)

X == Leaf("Identifier", "x")
One == Leaf("Literal", "1")
BinaryOps == {"=", "||", "&&", "|", "&", "==", "<", "<<", "+", "-", "*", "**", "^"}
CondOps == {"?", ":", "=", "+"}
FewOps == {"=", "==", "-", "*", "**"}

Binaries(ops, ls, rs) == {Node("Binary", op, <<l, r>>) : op \in ops, l \in ls, r \in rs}
Unaries(es) == {Node("Unary", op, <<e>>) : op \in {"-", "!", "++"}, e \in es}
Casts(es) ==
  {Node("Cast", "int", <<e>>) : e \in es} \cup
  {Node("Cast", "S", <<e, Leaf("Nullable", "")>>) : e \in es}
Posts(es) ==
  UNION {{Node("Postfix", "++", <<e>>), Node("Member", "f", <<e>>), Node("Arrow", "f", <<e>>),
          Node("Call", "", <<e>>), Node("DotCall", "f", <<e, X>>)} : e \in es}
Enclosed(es) ==
  UNION {{Node("Index", "", <<X, e>>), Node("Call", "", <<X, One, e>>),
          Node("ScopeCall", "f", <<Leaf("Scope", "S"), e>>),
          Node("ArrayLiteral", "", <<e, One>>)} : e \in es}
Single(es) == Unaries(es) \cup Casts(es) \cup Posts(es) \cup Enclosed(es)

Flat == {X} \cup Single({X}) \cup Binaries(BinaryOps, {X}, {X})
Nested == <<Binaries(BinaryOps, Flat, Flat), Single(Flat)>>
ByChoice ==
  LET once == {X, One} \cup Unaries({X}) \cup Posts({X}) \cup Binaries(CondOps, {X}, {One})
  IN  Binaries(CondOps, once, once)
Deep ==
  LET twice == Binaries(FewOps, {X} \cup Unaries({X}), Binaries(FewOps, {X}, {X}) \cup Unaries({X}))
                 \cup Unaries(Binaries(FewOps, {X}, {X}))
  IN  <<Single(twice), Binaries(FewOps, twice, {X}), Binaries(FewOps, {X}, twice)>>

Type(t) == Leaf("Type", t)
Empties == Leaf("Array", "")
IntArray == Node("Type", "int", <<Empties>>)
Rows     == Node("Type", "S", <<Empties, Empties>>)
RowsOrNull == Node("Type", "S", <<Empties, Empties, Leaf("Nullable", "")>>)

Stm(n, kids) == Node(n, "", kids)
Simple ==
  {Leaf("Empty", ""), Stm("Do", <<X>>), Leaf("Break", ""), Leaf("Continue", ""),
   Stm("Return", <<Hole>>), Stm("Return", <<X>>), Stm("Throw", <<X>>),
   Variable("x", Type("S"), Hole),
   Node("Variable", "x", <<IntArray, Leaf("ArrayLiteral", ""), Variable("f", IntArray, One)>>)}

\* An else behind these would be theirs.
RECURSIVE TakesElse(_)
TakesElse(s) ==
  \/ s.n = "If" /\ s.kids[3].n = "Hole"
  \/ s.n \in {"If", "While", "For"} /\ TakesElse(Last(s.kids))

Clause(label, ss) == Node("Clause", label.n, <<label, List(ss)>>)
ThreeClauses(a, b) ==
  <<Clause(List(<<One>>), << >>), Clause(List(<<One, X>>), <<a, b>>), Clause(Leaf("Default", ""), <<b>>)>>
ForInits == {Hole, Stm("Do", <<X>>), Variable("x", Type("int"), One)}
Compound(as, bs) ==
  {Stm("If", <<X, a, b>>) : a \in {a \in as : ~TakesElse(a)}, b \in bs} \cup
  {Stm("If", <<X, a, Hole>>) : a \in as} \cup
  {Stm("While", <<X, a>>) : a \in as} \cup
  {Stm("DoWhile", <<a, X>>) : a \in as} \cup
  {Stm("For", <<i, X, u, a>>) : i \in ForInits, u \in {Hole, X}, a \in as} \cup
  {Stm("Block", <<a, b>>) : a \in as, b \in bs} \cup
  {Stm("Try", <<Stm("Block", <<a>>)>>) : a \in as} \cup
  {Node("Try", "x", <<Stm("Block", <<a>>), Stm("Block", <<b>>)>>) : a \in as, b \in bs} \cup
  {Stm("Switch", <<X>> \o ThreeClauses(a, b)) : a \in as, b \in bs}
Short == {Stm("Do", <<X>>), Leaf("Break", "")}
Stms == Compound(Simple, Simple) \cup Compound(Compound(Short, Short), Short)

Params == {<< >>, <<Variable("x", Type("int"), Hole)>>,
           <<Variable("x", IntArray, Hole), Variable("f", RowsOrNull, Hole)>>}
FunctionTrees == {Node("Function", "f", <<t, List(ps), Stm("Block", << >>)>>) :
                 t \in {Type("int"), Type("auto"), Type("S"), IntArray, RowsOrNull}, ps \in Params}
Name(n) == Leaf("Name", n)
TypeTrees ==
  {Node("Struct", "S", <<Variable("x", IntArray, Hole), Variable("f", Rows, Hole)>>),
   Node("Struct", "S", << >>),
   Node("Enum", "S", <<Node("Constant", "x", <<Hole>>), Node("Constant", "f", <<One>>)>>)}
Externals ==
  {Node("Ffi", "f", <<Type("int"), List(ps), h, m, c>>) :
     ps \in {<< >>, <<Variable("x", Type("int"), Hole)>>}, h \in {Hole, Name("f")},
     m \in {Hole, Name("S")}, c \in {Hole, Name("x")}} \cup
  {Node("ImportDecl", "S", <<Leaf("Import", "x"), Node("Import", "f", <<Name("S")>>)>>)}
Declared == FunctionTrees \cup TypeTrees \cup Externals \cup
  {Node("Exported", "", <<d>>) : d \in TypeTrees \cup {f \in FunctionTrees : f.kids[1].op # "auto"}
                                        \cup {Variable("x", IntArray, X)}}

InMain(ss) == Node("Function", "f", <<Type("void"), List(<< >>), Stm("Block", ss)>>)
Source(t)       == [tokens |-> Text(t), goal |-> Goal("tree", t)]
Expressions(es) == {Source(Variable("x", Type("int"), e)) : e \in es}

-----------------------------------------------------------------------------
(* Broken statements, and one that makes sense behind them.                *)

Pieces == Kinds \cup {"->", "class", "try", "return", "do", "switch"}
Good == Node("Do", "", <<Node("Binary", "=", <<Leaf("Identifier", "f"), One>>)>>)
Recoveries(n) ==
  {[tokens |-> Main \o ts \o <<";">> \o Text(Good) \o <<"}">>, goal |-> Goal("recovery", Good)] :
     ts \in [1..n -> Pieces \ {"{", "}", ";", "for"}]}

MCSources ==
  [n \in 1..3 |-> Begun({<< >>, Main}, Kinds, n)] \o
  [n \in 1..2 |-> Begun(Beginnings, Vocabulary, n)] \o
  [n \in 1..3 |-> Recoveries(n)] \o
  [i \in DOMAIN Nested |-> Expressions(Nested[i])] \o
  [i \in DOMAIN Deep |-> Expressions(Deep[i])] \o
  <<Expressions(ByChoice), {Source(InMain(<<s>>)) : s \in Stms}, {Source(d) : d \in Declared}>>
=============================================================================
