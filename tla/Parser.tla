------------------------------- MODULE Parser -------------------------------
(***************************************************************************)
(* The parser (src/src/parser/parser.cpp): recursive descent over          *)
(* declarations and statements, Pratt's loops over expressions, and the    *)
(* panic from which it recovers.                                           *)
(*                                                                         *)
(* A rule takes and returns a state of the parser: the place in the text,  *)
(* the node built last, the errors reported, and two histories: whether a  *)
(* loop went round without taking a token, and where tokens that matter    *)
(* were passed over in silence.  A node is [n, op, kids]; a child that the *)
(* parser left null is a Hole.  All rules call each other through Parse.   *)
(***************************************************************************)
EXTENDS Tokens, FiniteSets

CONSTANT Sources   \* what is parsed: a sequence of sets of [tokens, goal]

VARIABLES
  tokens,    \* the text
  goal,      \* what the text was made from, for the properties
  current,   \* the token the parser is at
  program,   \* the declarations so far
  errors,    \* their codes, with the token they were met at
  dropped,   \* history: where tokens were passed over in silence
  stuck      \* history: a loop that took no token

vars == <<tokens, goal, current, program, errors, dropped, stuck>>

Node(n, op, kids) == [n |-> n, op |-> op, kids |-> kids]
Hole == Node("Hole", "", << >>)
List(nodes) == Node("List", "", nodes)
Leaf(n, op) == Node(n, op, << >>)

-----------------------------------------------------------------------------
(* The primitives.                                                         *)

TokenAt(i) == IF i <= Len(tokens) THEN tokens[i] ELSE Void
At(s)      == TokenAt(s.at)
Peek(s, k) == TokenAt(s.at + k)

\* nextToken
Advance(s) == [s EXCEPT !.at = IF @ <= Len(tokens) THEN @ + 1 ELSE @]
Forward(s, k) == [s EXCEPT !.at = @ + k]

Return(s, node)  == [s EXCEPT !.node = node]
Report(s, code)  == [s EXCEPT !.errors = Append(@, <<code, At(s)>>)]
Drop(s, place)   == [s EXCEPT !.dropped = @ \cup {place}]

\* A token that may be missing, and one whose absence is an error.
Skip(s, t)   == IF At(s) = t THEN Advance(s) ELSE s
Expect(s, t) == IF At(s) = t THEN Advance(s) ELSE Report(s, "E905")

Boundaries == {";", "}", Void} \cup StatementStarts

Skipping(from, stops) ==
  CHOOSE i \in from..Len(tokens) + 1 :
    TokenAt(i) \in stops /\ \A j \in from..i - 1 : TokenAt(j) \notin stops

PanicTo(i, s) == Return(Skip([Report(s, "E901") EXCEPT !.at = i], ";"), Leaf("Error", "E901"))

\* Mutants: no token is always taken; a semicolon is no boundary.
SynchronizeInPlace(s)       == PanicTo(Skipping(s.at, Boundaries), s)
SynchronizePastSemicolon(s) == PanicTo(Skipping(Advance(s).at, Boundaries \ {";"}), s)

\* synchronizeAndMakeError: one token at least, then up to a boundary; the
\* semicolon is taken, the others are not.
Synchronize(s) == PanicTo(Skipping(Advance(s).at, Boundaries), s)

RECURSIVE Parse(_, _, _, _)
Expression(p, s) == Parse("Expression", p, << >>, s)
Statement(s)     == Parse("Statement", 0, << >>, s)
Declaration(s)   == Parse("Declaration", 0, << >>, s)

\* A loop goes round: from before to after it has to take a token.
Again(rule, p, acc, before, after) ==
  IF after.at = before.at THEN [Return(after, List(acc)) EXCEPT !.stuck = TRUE]
  ELSE Parse(rule, p, acc, after)

-----------------------------------------------------------------------------
(* What a declaration begins with.                                         *)

\* Behind the pairs of brackets that begin at i.
RECURSIVE BehindPairs(_)
BehindPairs(i) == IF TokenAt(i) = "[" /\ TokenAt(i + 1) = "]" THEN BehindPairs(i + 2) ELSE i

\* Type name (  with brackets or a ? behind the type.
FunctionAt(i) ==
  \/ IsName(TokenAt(i)) /\ TokenAt(i + 1) = "("
  \/ TokenAt(i) = "?" /\ IsName(TokenAt(i + 1)) /\ TokenAt(i + 2) = "("
FunctionAhead(s) == FunctionAt(BehindPairs(s.at + 1))

\* Name name, Name? name, Name[] name
VariableAhead(s) ==
  /\ IsName(At(s))
  /\ \/ IsName(TokenAt(BehindPairs(s.at + 1)))
     \/ Peek(s, 1) = "?" /\ IsName(Peek(s, 2))

\* The brackets and the ? of a type; where they report, a bracket that is not
\* closed is an error.
RECURSIVE Brackets(_, _, _)
Brackets(reports, acc, s) ==
  IF At(s) # "[" THEN Return(s, List(acc))
  ELSE Brackets(reports, Append(acc, Leaf("Array", "")),
                IF reports THEN Expect(Advance(s), "]") ELSE Skip(Advance(s), "]"))

MaybeNull(s) ==
  IF At(s) = "?" THEN Advance(Return(s, List(Append(s.node.kids, Leaf("Nullable", "")))))
  ELSE s

Named(name, r) == Return(r, Node("Type", name, r.node.kids))

TypeOf(reports, s) == Named(At(s), MaybeNull(Brackets(reports, << >>, Advance(s))))

-----------------------------------------------------------------------------
(* Expressions.                                                            *)

\* Mutant: an operator gives way to one of its own level.
OperatorsFromRight(p, s) ==
  IF s.node.n = "Hole" \/ At(s) \in {")", ";", "}", ","} \/ p > TokenPrecedence(At(s))
     \/ TokenPrecedence(At(s)) = 0 THEN s
  ELSE Again("Operators", p, << >>, s, Parse("LeftDenotation", 0, << >>, s))

\* parseExpression: operators that bind tighter than p, from left to right.
Operators(p, s) ==
  IF s.node.n = "Hole" \/ At(s) \in {")", ";", "}", ","} \/ p >= TokenPrecedence(At(s)) THEN s
  ELSE Again("Operators", p, << >>, s, Parse("LeftDenotation", 0, << >>, s))

ParseExpression(p, s) ==
  IF At(s) = Void THEN Return(s, Hole)
  ELSE Parse("Operators", p, << >>, Parse("NullDenotation", 0, << >>, s))

\* What is between ( and ) of a call.
ArgumentsFrom(acc, before, r) == Again("Arguments", 0, Append(acc, r.node), before, r)
Arguments(acc, s) ==
  IF At(s) # "," THEN Return(s, List(acc))
  ELSE IF Peek(s, 1) \in {",", ")"}
  THEN Again("Arguments", 0, acc, s, Report(Advance(s), "E904"))
  ELSE ArgumentsFrom(acc, s, Expression(0, Advance(s)))

FirstArgument(acc, r) == Parse("Arguments", 0, Append(acc, r.node), r)
AllArguments(acc, s) ==
  CASE At(s) = ")" -> Return(s, List(acc))
    [] At(s) = "," -> Parse("Arguments", 0, acc, Advance(Report(s, "E904")))
    [] OTHER       -> FirstArgument(acc, Expression(0, s))

CallOf(n, op, r) == Expect(Return(r, Node(n, op, r.node.kids)), ")")

\* Type::method(
ScopeCallAhead(s) ==
  /\ At(s) \in (ReturnTypes \ {"void"}) \cup {"struct"} \/ IsName(At(s))
  /\ Peek(s, 1) = "::" /\ IsName(Peek(s, 2)) /\ Peek(s, 3) = "("

\* The elements of an array, the values of a case (p = 3: up to the colon).
ElementsFrom(p, acc, before, r) == Again("Elements", p, Append(acc, r.node), before, r)
Elements(p, acc, s) ==
  IF At(s) # "," THEN Return(s, List(acc))
  ELSE ElementsFrom(p, acc, s, Expression(p, Advance(s)))
FirstElement(r) == Parse("Elements", 0, <<r.node>>, r)
ArrayLiteral(s) == IF At(s) = "]" THEN Return(s, List(<< >>)) ELSE FirstElement(Expression(0, s))
ArrayOf(r) == Expect(Return(r, Node("ArrayLiteral", "", r.node.kids)), "]")

Unary(op, r) == Return(r, Node("Unary", op, <<r.node>>))

NullDenotation(s) ==
  CASE ScopeCallAhead(s) ->
         CallOf("ScopeCall", Peek(s, 2), AllArguments(<<Leaf("Scope", At(s))>>, Forward(s, 4)))
    [] At(s) = "("  -> Expect(Expression(0, Advance(s)), ")")
    [] At(s) = "["  -> ArrayOf(ArrayLiteral(Advance(s)))
    [] At(s) \in PrefixOperators ->
         Unary(At(s), Expression(TokenPrecedence(At(s)), Advance(s)))
    [] At(s) \in Literals -> Return(Advance(s), Leaf("Literal", At(s)))
    [] IsName(At(s)) /\ ~ScopeCallAhead(s) -> Return(Advance(s), Leaf("Identifier", At(s)))
    [] OTHER -> Return(s, Hole)

Index(left, r) == Expect(Return(r, Node("Index", "", <<left, r.node>>)), "]")
Binary(left, op, r) == Return(r, Node("Binary", op, <<left, r.node>>))

\* as Type, as Type?
CastOf(left, type, s) ==
  Return(Skip(s, "?"), Node("Cast", type, IF At(s) = "?" THEN <<left, Leaf("Nullable", "")>>
                                          ELSE <<left>>))
\* An unknown type is an error, and int.
CastTo(left, s) ==
  IF At(s) \in CastTypes \/ IsName(At(s)) THEN CastOf(left, At(s), Advance(s))
  ELSE CastOf(left, "int", Report(s, "E902"))

\* Behind . and ->
Accessed(left, op, s) ==
  IF op = "." /\ Peek(s, 1) = "("
  THEN CallOf("DotCall", At(s), AllArguments(<<left>>, Forward(s, 2)))
  ELSE Return(Advance(s), Node(IF op = "." THEN "Member" ELSE "Arrow", At(s), <<left>>))
\* Mutant: what is no name there is not an error.
AccessSilently(left, op, s) == IF IsName(At(s)) THEN Accessed(left, op, s) ELSE Return(s, left)
Access(left, op, s) ==
  IF IsName(At(s)) THEN Accessed(left, op, s) ELSE Return(Report(s, "E903"), left)

\* Any other token with a precedence is a binary operator, ! and ? too.
LeftDenotation(s) ==
  CASE At(s) \in {"++", "--"} -> Return(Advance(s), Node("Postfix", At(s), <<s.node>>))
    [] At(s) = "("  -> CallOf("Call", "", AllArguments(<<s.node>>, Advance(s)))
    [] At(s) = "["  -> Index(s.node, Expression(0, Advance(s)))
    [] At(s) = "as" -> CastTo(s.node, Advance(s))
    [] At(s) \in {".", "->"} -> Access(s.node, At(s), Advance(s))
    [] OTHER -> Binary(s.node, At(s), Expression(TokenPrecedence(At(s)), Advance(s)))

-----------------------------------------------------------------------------
(* Variables.                                                              *)

\* An expression that is missing behind = is no error.
Initial(r)   == IF r.node.n = "Hole" THEN Drop(r, "value") ELSE r
MaybeInit(s) == IF At(s) = "=" THEN Initial(Expression(0, Advance(s))) ELSE Return(s, Hole)

\* What is between the brackets behind a name is passed over.
InBrackets(s) ==
  LET to == Skipping(s.at + 1, {"]", ";", Void})
  IN  [s EXCEPT !.at = to, !.dropped = IF to = s.at + 1 THEN @ ELSE @ \cup {"length"}]

AsArray(type) ==
  IF type.kids # << >> /\ Last(type.kids).n = "Array" THEN type
  ELSE [type EXCEPT !.kids = Append(@, Leaf("Array", ""))]

Variable(name, type, init) == Node("Variable", name, <<type, init>>)

\* int name[] is int[] name; the brackets of a later name change nothing.
FirstOf(name, type, r) == Parse("Siblings", 0, <<Variable(name, type, r.node)>>, r)
FirstVariable(r) ==
  IF Peek(r, 1) = "["
  THEN FirstOf(At(r), AsArray(r.node), MaybeInit(Skip(InBrackets(Advance(r)), "]")))
  ELSE FirstOf(At(r), r.node, MaybeInit(Advance(r)))

SiblingOf(acc, before, name, r) ==
  Again("Siblings", 0, Append(acc, Variable(name, acc[1].kids[1], r.node)), before, r)
SiblingName(s) == IF At(s) = "[" THEN Expect(InBrackets(s), "]") ELSE s
Siblings(acc, s) ==
  CASE At(s) # "," -> Return(s, List(acc))
    [] At(s) = "," /\ ~IsName(Peek(s, 1)) -> Return(Report(Advance(s), "E904"), List(acc))
    [] OTHER -> SiblingOf(acc, s, Peek(s, 1), MaybeInit(SiblingName(Forward(s, 2))))

AllVariables(r) ==
  Skip(Return(r, [r.node.kids[1] EXCEPT !.kids = @ \o Tail(r.node.kids)]), ";")

VariableOf(r) ==
  IF IsName(At(r)) THEN AllVariables(FirstVariable(r))
  ELSE Return(Report(r, "E904"), Variable("", r.node, Hole))
VariableDecl(s) == VariableOf(TypeOf(TRUE, s))

-----------------------------------------------------------------------------
(* Statements.                                                             *)

StatementsFrom(p, acc, before, r) == Again("Statements", p, Append(acc, r.node), before, r)

\* Up to the end of a block (p = 0), or of a clause of a switch.
Statements(p, acc, s) ==
  IF At(s) \in {"}", Void} \/ (p = 1 /\ At(s) \in {"case", "default"}) THEN Return(s, List(acc))
  ELSE StatementsFrom(p, acc, s, Statement(s))

BlockOf(r) == Expect(Return(r, Node("Block", "", r.node.kids)), "}")
Block(s)   == BlockOf(Parse("Statements", 0, << >>, Skip(s, "{")))

\* Without a parenthesis there is no condition, and no error.
Condition(s) == IF At(s) = "(" THEN Expect(Expression(0, Advance(s)), ")") ELSE Return(s, Hole)

Else(r) == IF At(r) = "else" THEN Statement(Advance(r)) ELSE Return(r, Hole)
IfWith(cond, then, r) == Return(r, Node("If", "", <<cond, then, r.node>>))
IfThen(cond, r) == IfWith(cond, r.node, Else(r))
If(c) == IfThen(c.node, Statement(c))

WhileWith(cond, r) == Return(r, Node("While", "", <<cond, r.node>>))
While(c) == WhileWith(c.node, Statement(c))

ForWith(init, cond, update, r) == Return(r, Node("For", "", <<init, cond, update, r.node>>))
ForBody(init, cond, r) == ForWith(init, cond, r.node, Statement(Expect(r, ")")))
ForUpdate(init, r) ==
  ForBody(init, r.node, IF At(r) = ")" THEN Return(r, Hole) ELSE Expression(0, r))
ForCondition(r) ==
  ForUpdate(r.node, Skip(IF At(r) = ";" THEN Return(r, Hole) ELSE Expression(0, r), ";"))
For(s) == ForCondition(Skip(IF At(s) = ";" THEN Return(s, Hole) ELSE Statement(s), ";"))

DoWith(body, c) == Skip(Return(c, Node("DoWhile", "", <<body, c.node>>)), ";")
DoWhile(r) ==
  IF At(r) = "while" THEN DoWith(r.node, Condition(Advance(r)))
  ELSE Return(r, Node("DoWhile", "", <<r.node, Hole>>))

\* return and throw
Ended(n, r) == Skip(Return(r, Node(n, "", <<r.node>>)), ";")
ReturnValue(s) == IF At(s) \in {";", "}"} THEN Return(s, Hole) ELSE Expression(0, s)

\* A statement without an expression is where the panic begins.
ExpressionOf(r) ==
  IF r.node.n = "Hole" THEN Synchronize(r) ELSE Skip(Return(r, Node("Do", "", <<r.node>>)), ";")
ExpressionStatement(s) ==
  IF At(s) = ";" THEN Return(Advance(s), Leaf("Empty", "")) ELSE ExpressionOf(Expression(0, s))

\* catch (Error name): the type is not looked at, and whatever stands in the
\* place of the name is taken.
CatchType(s) ==
  CASE At(s) = "Error" -> Advance(s)
    [] At(s) # "Error" /\ (IsName(At(s)) \/ At(s) = "string") -> Drop(Advance(s), "catch type")
    [] OTHER -> s
CatchName(s) ==
  IF IsName(At(s)) THEN Return(Advance(s), Leaf("Name", At(s)))
  ELSE Return(Drop(Advance(s), "catch name"), Leaf("Name", ""))
TryWith(body, name, r) == Return(r, Node("Try", name, <<body, r.node>>))
Handler(body, r) == TryWith(body, r.node.op, Block(Expect(r, ")")))
Try(r) ==
  IF At(r) = "catch" THEN Handler(r.node, CatchName(CatchType(Skip(Advance(r), "("))))
  ELSE Return(r, Node("Try", "", <<r.node>>))

\* The clauses of a switch; anything else between them is passed over.
ClauseOf(acc, before, label, r) ==
  Again("Clauses", 0, Append(acc, Node("Clause", label.n, <<label, r.node>>)), before, r)
ClauseFrom(acc, before, r) ==
  ClauseOf(acc, before, r.node, Parse("Statements", 1, << >>, Skip(r, ":")))
CaseValues(r) == Parse("Elements", 3, <<r.node>>, r)
Clauses(acc, s) ==
  CASE At(s) \in {"}", Void} -> Return(s, List(acc))
    [] At(s) = "case" -> ClauseFrom(acc, s, CaseValues(Expression(3, Advance(s))))
    [] At(s) = "default" -> ClauseFrom(acc, s, Return(Advance(s), Leaf("Default", "")))
    [] OTHER -> Again("Clauses", 0, acc, s, Drop(Advance(s), "switch"))
SwitchOf(subject, r) == Expect(Return(r, Node("Switch", "", <<subject>> \o r.node.kids)), "}")
Switch(c) ==
  IF At(c) = "{" THEN SwitchOf(c.node, Parse("Clauses", 0, << >>, Advance(c)))
  ELSE Return(c, Node("Switch", "", <<c.node>>))

ParseStatement(s) ==
  CASE At(s) = "{"        -> Block(s)
    [] At(s) = "if"       -> If(Condition(Advance(s)))
    [] At(s) = "while"    -> While(Condition(Advance(s)))
    [] At(s) = "for"      -> For(Skip(Advance(s), "("))
    [] At(s) = "do"       -> DoWhile(Statement(Advance(s)))
    [] At(s) = "return"   -> Ended("Return", ReturnValue(Advance(s)))
    [] At(s) = "throw"    -> Ended("Throw", Expression(0, Advance(s)))
    [] At(s) = "break"    -> Skip(Return(Advance(s), Leaf("Break", "")), ";")
    [] At(s) = "continue" -> Skip(Return(Advance(s), Leaf("Continue", "")), ";")
    [] At(s) = "try"      -> Try(Block(Advance(s)))
    [] At(s) = "switch"   -> Switch(Condition(Advance(s)))
    [] At(s) \in {"struct", "enum", "import"} -> Parse("Declaration", 0, << >>, s)
    [] (At(s) \in ReturnTypes /\ Peek(s, 1) # "::") \/ VariableAhead(s) -> VariableDecl(s)
    [] OTHER -> ExpressionStatement(s)

-----------------------------------------------------------------------------
(* Declarations.                                                           *)

\* A parameter without a name ends the list: its type is passed over.
ParameterOf(p, acc, before, r) ==
  IF IsName(At(r))
  THEN Again("Parameters", p, Append(acc, Variable(At(r), r.node, Hole)), before,
             Skip(Advance(r), ","))
  ELSE Return(Drop(r, "parameter"), List(acc))

\* Of a function (p = 0), or of a declaration of the host.
Parameters(p, acc, s) ==
  IF IsName(At(s)) \/ At(s) \in (IF p = 0 THEN DeclaredTypes ELSE ReturnTypes)
  THEN ParameterOf(p, acc, s, TypeOf(p = 0, s)) ELSE Return(s, List(acc))

ParameterList(p, r) == IF p = 0 THEN Expect(r, ")") ELSE Skip(r, ")")
MaybeParameters(p, s) ==
  IF At(s) = "(" THEN ParameterList(p, Parse("Parameters", p, << >>, Advance(s)))
  ELSE Return(s, List(<< >>))

FunctionWith(name, type, params, r) == Return(r, Node("Function", name, <<type, params, r.node>>))
FunctionBody(name, type, r) ==
  FunctionWith(name, type, r.node, IF At(r) = "{" THEN Block(r) ELSE Return(r, Hole))
FunctionOf(r) == FunctionBody(At(r), r.node, MaybeParameters(0, Advance(r)))
FunctionDecl(s) == FunctionOf(TypeOf(FALSE, s))

\* : HOST_ID, from module, requires capability
Attribute(word, kids, s) ==
  CASE At(s) # word -> Return(s, List(Append(kids, Hole)))
    [] At(s) = word /\ IsName(Peek(s, 1)) ->
         Return(Forward(s, 2), List(Append(kids, Leaf("Name", Peek(s, 1)))))
    [] OTHER -> Drop(Return(Advance(s), List(Append(kids, Hole))), "attribute")
FfiRequires(r) == Attribute("requires", r.node.kids, r)
FfiFrom(r)     == FfiRequires(Attribute("from", r.node.kids, r))
FfiEnd(name, r) == Skip(Return(r, Node("Ffi", name, r.node.kids)), ";")
FfiWith(name, type, r) == FfiEnd(name, FfiFrom(Attribute(":", <<type, r.node>>, r)))
FfiOf(r)   == FfiWith(At(r), r.node, MaybeParameters(1, Advance(r)))
FfiDecl(s) == FfiOf(TypeOf(FALSE, s))

MaybeName(s) ==
  IF IsName(At(s)) THEN Return(Advance(s), Leaf("Name", At(s))) ELSE Return(s, Leaf("Name", ""))

\* struct and enum: { ... } ;
Body(n, name, r) == Skip(Return(r, Node(n, name, r.node.kids)), ";")
Braced(n, rule, r) ==
  Body(n, r.node.op, IF At(r) = "{" THEN Expect(Parse(rule, 0, << >>, Advance(r)), "}")
                     ELSE Return(r, List(<< >>)))

FieldOf(acc, before, r) ==
  IF r.node.n = "Hole" THEN Return(r, List(acc))
  ELSE Again("Fields", 0, Append(acc, r.node), before, r)
Fields(acc, s) ==
  IF At(s) \in {"}", Void} THEN Return(s, List(acc)) ELSE FieldOf(acc, s, Declaration(s))

\* The numbers of the members without a value are left out.
MemberValue(s) ==
  CASE At(s) # "=" -> Return(s, Hole)
    [] At(s) = "=" /\ Peek(s, 1) \in Numbers -> Return(Forward(s, 2), Leaf("Literal", Peek(s, 1)))
    [] OTHER -> Drop(Return(Advance(s), Hole), "enum value")
MemberOf(acc, before, r) ==
  Again("Members", 0, Append(acc, Node("Constant", At(before), <<r.node>>)), before, Skip(r, ","))
Members(acc, s) ==
  IF IsName(At(s)) THEN MemberOf(acc, s, MemberValue(Advance(s))) ELSE Return(s, List(acc))

\* name, name as name
ImportName(s) ==
  CASE Peek(s, 1) # "as" -> Return(Advance(s), Leaf("Import", At(s)))
    [] Peek(s, 1) = "as" /\ IsName(Peek(s, 2)) ->
         Return(Forward(s, 3), Node("Import", At(s), <<Leaf("Name", Peek(s, 2))>>))
    [] OTHER -> Report(Return(Forward(s, 2), Leaf("Import", At(s))), "E905")
ImportOf(acc, before, r) == Again("Imports", 0, Append(acc, r.node), before, Skip(r, ","))
Imports(acc, s) ==
  CASE At(s) \in {"}", Void} -> Return(s, List(acc))
    [] IsName(At(s)) -> ImportOf(acc, s, ImportName(s))
    [] OTHER -> Return(Report(s, "E905"), List(acc))
ImportFrom(r) ==
  IF At(r) \in Strings \cup Names THEN Return(Advance(r), Node("ImportDecl", At(r), r.node.kids))
  ELSE Return(r, Node("ImportDecl", "", r.node.kids))
ImportDecl(s) ==
  IF At(s) # "{" THEN Return(s, Leaf("ImportDecl", ""))
  ELSE Skip(ImportFrom(Skip(Skip(Parse("Imports", 0, << >>, Advance(s)), "}"), "from")), ";")

\* The mark of export reaches what is declared, but for imports, host
\* functions and functions of type auto.
Exported(r) == Return(r, Node("Exported", "", <<r.node>>))
ExportOf(r) == IF r.node.n = "Variable" THEN Exported(r) ELSE Drop(r, "export")
ExportDecl(s) ==
  IF \/ At(s) \in {"struct", "enum"}
     \/ FunctionAhead(s) /\ (At(s) \in ReturnTypes \/ IsName(At(s)))
  THEN Exported(Declaration(s)) ELSE ExportOf(Declaration(s))

\* A statement where none is allowed is parsed and thrown away.
Discarded(r) == Return(r, Hole)

ParseDeclaration(s) ==
  CASE At(s) = "import" -> ImportDecl(Advance(s))
    [] At(s) = "export" -> ExportDecl(Advance(s))
    [] At(s) = "ffi"    -> FfiDecl(Advance(s))
    [] At(s) = "struct" -> Braced("Struct", "Fields", MaybeName(Advance(s)))
    [] At(s) = "enum"   -> Braced("Enum", "Members", MaybeName(Advance(s)))
    [] IsType(At(s)) /\ FunctionAhead(s) -> FunctionDecl(s)
    [] (At(s) \in DeclaredTypes \/ VariableAhead(s)) /\ ~FunctionAhead(s) -> VariableDecl(s)
    [] OTHER -> Discarded(Statement(Report(s, "E013")))

Parse(rule, p, acc, s) ==
  CASE rule = "Expression"     -> ParseExpression(p, s)
    [] rule = "Operators"      -> Operators(p, s)
    [] rule = "NullDenotation" -> NullDenotation(s)
    [] rule = "LeftDenotation" -> LeftDenotation(s)
    [] rule = "Arguments"      -> Arguments(acc, s)
    [] rule = "Elements"       -> Elements(p, acc, s)
    [] rule = "Siblings"       -> Siblings(acc, s)
    [] rule = "Statement"      -> ParseStatement(s)
    [] rule = "Statements"     -> Statements(p, acc, s)
    [] rule = "Clauses"        -> Clauses(acc, s)
    [] rule = "Declaration"    -> ParseDeclaration(s)
    [] rule = "Parameters"     -> Parameters(p, acc, s)
    [] rule = "Fields"         -> Fields(acc, s)
    [] rule = "Members"        -> Members(acc, s)
    [] rule = "Imports"        -> Imports(acc, s)

-----------------------------------------------------------------------------

Beginning(at) ==
  [at |-> at, node |-> Hole, errors |-> errors, dropped |-> dropped, stuck |-> stuck]

\* One round of parseProgram; a declaration that takes no token is left behind.
ParseProgram ==
  /\ current <= Len(tokens)
  /\ \E r \in {Declaration(Beginning(current))} :
       /\ current' = IF r.at = current THEN current + 1 ELSE r.at
       /\ program' = IF r.node.n = "Hole" THEN program ELSE Append(program, r.node)
       /\ errors' = r.errors /\ dropped' = r.dropped
       /\ stuck' = (r.stuck \/ r.at = current)
  /\ UNCHANGED <<tokens, goal>>

Init ==
  /\ \E i \in DOMAIN Sources : \E source \in Sources[i] :
       tokens = source.tokens /\ goal = source.goal
  /\ current = 1
  /\ program = << >> /\ errors = << >>
  /\ dropped = {} /\ stuck = FALSE

Next == ParseProgram

Spec == Init /\ [][Next]_vars
=============================================================================
