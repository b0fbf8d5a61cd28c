---------------------------- MODULE SourceText ------------------------------
(***************************************************************************)
(* What the parser should give: the text of a tree, with parentheses only  *)
(* where the levels of the operators call for them, and what holds of the  *)
(* trees and errors that Parser finds.                                     *)
(***************************************************************************)
EXTENDS Parser

\* What a text was made from: the declaration it is the text of, or a
\* statement behind a broken one, or nothing.
Goal(kind, node) == [kind |-> kind, node |-> node]
NoGoal == Goal("none", Hole)

\* How tightly an expression holds together.
Level(t) ==
  CASE t.n \in {"Binary", "Unary"} -> TokenPrecedence(t.op)
    [] t.n = "Cast"    -> TokenPrecedence("as")
    [] t.n = "Postfix" -> TokenPrecedence("++")
    [] t.n \in {"Call", "DotCall", "Index", "Member", "Arrow"} -> TokenPrecedence(".")
    [] OTHER -> TokenPrecedence(".") + 1

\* The right operand of an operator of level l stands by itself.
StandsRight(t, l) == t.n = "Unary" \/ Level(t) > l

\* The loosest operator at the top or the right end of the text of t: an
\* operator behind it that is tighter takes only a part of t.
RECURSIVE Tightness(_)
Tightness(t) ==
  LET right == t.kids[Len(t.kids)]
      l     == Level(t)
  IN  IF t.n \in {"Binary", "Unary"} /\ StandsRight(right, l) /\ Tightness(right) < l
      THEN Tightness(right) ELSE l
StandsLeft(t, l) == Tightness(t) >= l

Parens(ts) == <<"(">> \o ts \o <<")">>
Braces(ts) == <<"{">> \o ts \o <<"}">>
Separated(texts) ==
  FoldLeft(LAMBDA all, ts : IF all = << >> THEN ts ELSE all \o <<",">> \o ts, << >>, texts)

RECURSIVE Text(_)
Texts(nodes)  == [i \in DOMAIN nodes |-> Text(nodes[i])]
Joined(nodes) == FlattenSeq(Texts(nodes))
Commas(nodes) == Separated(Texts(nodes))
Left(t, l)    == IF StandsLeft(t, l) THEN Text(t) ELSE Parens(Text(t))
Right(t, l)   == IF StandsRight(t, l) THEN Text(t) ELSE Parens(Text(t))

\* An expression with its first operand apart.
Behind(t, ts) == Left(t.kids[1], Level(t)) \o ts
Given(t) == Parens(Commas(Tail(t.kids)))
Optional(before, t) == IF t.n = "Hole" THEN << >> ELSE before \o Text(t)
Declarator(v) == <<v.op>> \o Optional(<<"=">>, v.kids[2])

AlsoDeclared(vs) == FlattenSeq([i \in DOMAIN vs |-> <<",">> \o Declarator(vs[i])])

ExpressionNodes == {"Literal", "Identifier", "Unary", "Binary", "Postfix", "Cast", "Member",
                    "Arrow", "Index", "Call", "DotCall", "ScopeCall", "ArrayLiteral"}
ExpressionText(t) ==
  CASE t.n \in {"Literal", "Identifier"} -> <<t.op>>
    [] t.n = "Unary"   -> <<t.op>> \o Right(t.kids[1], Level(t))
    [] t.n = "Binary"  -> Behind(t, <<t.op>> \o Right(t.kids[2], Level(t)))
    [] t.n = "Postfix" -> Behind(t, <<t.op>>)
    [] t.n = "Cast"    -> Behind(t, <<"as", t.op>> \o IF Len(t.kids) = 2 THEN <<"?">> ELSE << >>)
    [] t.n = "Member"  -> Behind(t, <<".", t.op>>)
    [] t.n = "Arrow"   -> Behind(t, <<"->", t.op>>)
    [] t.n = "Index"   -> Behind(t, <<"[">> \o Text(t.kids[2]) \o <<"]">>)
    [] t.n = "Call" /\ t.kids[1].n = "Member" -> Parens(Text(t.kids[1])) \o Given(t)
    [] t.n = "Call" /\ t.kids[1].n # "Member" -> Behind(t, Given(t))
    [] t.n = "DotCall" -> Behind(t, <<".", t.op>> \o Given(t))
    [] t.n = "ScopeCall" -> <<t.kids[1].op, "::", t.op>> \o Given(t)
    [] t.n = "ArrayLiteral" -> <<"[">> \o Commas(t.kids) \o <<"]">>

ClauseText(t) ==
  (IF t.kids[1].n = "Default" THEN <<"default">>
   ELSE <<"case">> \o Separated([i \in DOMAIN t.kids[1].kids |-> Right(t.kids[1].kids[i], 3)]))
    \o <<":">> \o Joined(t.kids[2].kids)

StatementNodes == {"Empty", "Do", "Block", "If", "While", "DoWhile", "For", "Return", "Throw",
                   "Break", "Continue", "Try", "Switch", "Clause", "Variable", "Type"}
StatementText(t) ==
  CASE t.n = "Empty"    -> <<";">>
    [] t.n = "Do"       -> Text(t.kids[1]) \o <<";">>
    [] t.n = "Block"    -> Braces(Joined(t.kids))
    [] t.n = "If"       -> <<"if">> \o Parens(Text(t.kids[1])) \o Text(t.kids[2])
                             \o Optional(<<"else">>, t.kids[3])
    [] t.n = "While"    -> <<"while">> \o Parens(Text(t.kids[1])) \o Text(t.kids[2])
    [] t.n = "DoWhile"  -> <<"do">> \o Text(t.kids[1]) \o <<"while">> \o Parens(Text(t.kids[2]))
                             \o <<";">>
    [] t.n = "For"      -> <<"for", "(">>
                             \o (IF t.kids[1].n = "Hole" THEN <<";">> ELSE Text(t.kids[1]))
                             \o Text(t.kids[2]) \o <<";">> \o Text(t.kids[3]) \o <<")">>
                             \o Text(t.kids[4])
    [] t.n = "Return"   -> <<"return">> \o Text(t.kids[1]) \o <<";">>
    [] t.n = "Throw"    -> <<"throw">> \o Text(t.kids[1]) \o <<";">>
    [] t.n = "Break"    -> <<"break", ";">>
    [] t.n = "Continue" -> <<"continue", ";">>
    [] t.n = "Try"      -> <<"try">> \o Text(t.kids[1])
                             \o IF Len(t.kids) = 1 THEN << >>
                                ELSE <<"catch", "(", "Error", t.op, ")">> \o Text(t.kids[2])
    [] t.n = "Switch"   -> <<"switch">> \o Parens(Text(t.kids[1])) \o Braces(Joined(Tail(t.kids)))
    [] t.n = "Clause"   -> ClauseText(t)
    [] t.n = "Variable" -> Text(t.kids[1]) \o Declarator(t)
                             \o AlsoDeclared(SubSeq(t.kids, 3, Len(t.kids)))
                             \o <<";">>
    [] t.n = "Type"     -> <<t.op>> \o FlattenSeq([i \in DOMAIN t.kids |->
                             IF t.kids[i].n = "Array" THEN <<"[", "]">> ELSE <<"?">>])

Parameter(v) == Text(v.kids[1]) \o <<v.op>>
Signature(ps)   == Parens(Separated([i \in DOMAIN ps |-> Parameter(ps[i])]))

DeclarationText(t) ==
  CASE t.n = "Function" -> Text(t.kids[1]) \o <<t.op>> \o Signature(t.kids[2].kids) \o Text(t.kids[3])
    [] t.n = "Ffi"      -> <<"ffi">> \o Text(t.kids[1]) \o <<t.op>> \o Signature(t.kids[2].kids)
                             \o Optional(<<":">>, t.kids[3]) \o Optional(<<"from">>, t.kids[4])
                             \o Optional(<<"requires">>, t.kids[5]) \o <<";">>
    [] t.n = "Struct"   -> <<"struct", t.op>> \o Braces(Joined(t.kids)) \o <<";">>
    [] t.n = "Enum"     -> <<"enum", t.op>> \o Braces(Commas(t.kids)) \o <<";">>
    [] t.n = "Constant" -> <<t.op>> \o Optional(<<"=">>, t.kids[1])
    [] t.n = "ImportDecl" -> <<"import">> \o Braces(Commas(t.kids)) \o <<"from", t.op, ";">>
    [] t.n = "Import"   -> <<t.op>> \o IF t.kids = << >> THEN << >> ELSE <<"as", t.kids[1].op>>
    [] t.n = "Exported" -> <<"export">> \o Text(t.kids[1])
    [] t.n = "Name"     -> <<t.op>>
    [] OTHER            -> << >>

\* Nothing stands for what is missing, or could not be read.
Text(t) ==
  CASE t.n \in ExpressionNodes -> ExpressionText(t)
    [] t.n \in StatementNodes  -> StatementText(t)
    [] OTHER -> DeclarationText(t)

-----------------------------------------------------------------------------
(* Properties.                                                             *)

Finished == current > Len(tokens)

\* What a text says: its tokens without the punctuation.
Words(ts) == SelectSeq(ts, LAMBDA t : t \notin Delimiters)

\* How far a walk along ts gets in finding the tokens of wanted in order.
Found(wanted, ts) ==
  FoldLeft(LAMBDA k, t : IF k < Len(wanted) /\ wanted[k + 1] = t THEN k + 1 ELSE k, 0, ts)
Within(wanted, ts) == Found(wanted, ts) = Len(wanted)

RECURSIVE Occurs(_, _)
Occurs(node, nodes) ==
  \E i \in DOMAIN nodes : nodes[i] = node \/ Occurs(node, nodes[i].kids)

\* Every round of every loop of the parser takes a token, also in the recovery
\* from an error, so no text makes the parser run for ever (parser.cpp:155:
\* without the token that is always taken, a statement start on which no rule
\* of a block acts comes back for ever).
EveryLoopTakesAToken == ~stuck

\* The parser reads back every tree from its text: the levels of the operators,
\* the operands of a unary operator, postfixes, casts, clauses and the else
\* that belongs to the nearest if give the tree that was written, without an
\* error.
ReadsBack == Finished /\ goal.kind = "tree" => program = <<goal.node>> /\ errors = << >>

\* Where the parser reports no error and is at none of the places that are
\* known to pass tokens over, every word of the text is in the tree, in order:
\* no rule throws away what it has read.
NothingDropped ==
  Finished /\ errors = << >> /\ dropped = {} => Within(Words(tokens), Words(Joined(program)))

\* A statement that makes no sense costs the statements behind it nothing: if
\* the panic did not begin at the semicolon itself, the next statement is in
\* the tree as it was written.
RecoveryGoesOn ==
  Finished /\ goal.kind = "recovery" /\ <<"E901", ";">> \notin Range(errors) =>
    Occurs(goal.node, program)
=============================================================================
