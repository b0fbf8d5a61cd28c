----------------------------- MODULE Optimizer -----------------------------
(***************************************************************************)
(* The optimizer (src/src/opt): operations on literals are computed at     *)
(* compile time and statements that are never reached are removed.  It     *)
(* works on a checked tree, whose types it keeps.                          *)
(***************************************************************************)
EXTENDS Values, SequencesExt

\* An int literal is one whose value fits, whatever its type.
IsIntLit(e)    == IsLiteral(e) /\ e.sort = "INTEGER" /\ InRange(e.value, IntMax)
IsScalarLit(e) == IsIntLit(e) \/ (IsLiteral(e) /\ e.sort = "BOOLEAN")
ScalarVal(e)   == IF e.sort = "BOOLEAN" THEN IF e.value THEN 1 ELSE 0 ELSE e.value

Truth(b) == IF b THEN 1 ELSE 0
ComputeUnary(op, v) ==
  CASE op = "BANG"  -> Truth(v = 0)
    [] op = "TILDE" -> -v - 1
    [] op = "MINUS" -> Wrap(-v, IntBits)

FoldedOps == [PLUS |-> "ADD", MINUS |-> "SUB", STAR |-> "MUL", SLASH |-> "DIV", PERCENT |-> "MOD",
              AMPERSAND |-> "BAND", PIPE |-> "BOR", LSHIFT |-> "SHL", RSHIFT |-> "SHR"]
FoldedTests == {"EQUAL_EQUAL", "BANG_EQUAL", "LESS", "GREATER", "LESS_EQUAL", "GREATER_EQUAL",
                "AMPERSAND_AMPERSAND", "PIPE_PIPE"}
Test(op, l, r) ==
  CASE op = "EQUAL_EQUAL"   -> l = r
    [] op = "BANG_EQUAL"    -> l # r
    [] op = "LESS"          -> l < r
    [] op = "GREATER"       -> l > r
    [] op = "LESS_EQUAL"    -> l <= r
    [] op = "GREATER_EQUAL" -> l >= r
    [] op = "AMPERSAND_AMPERSAND" -> l # 0 /\ r # 0
    [] op = "PIPE_PIPE"     -> l # 0 \/ r # 0
ComputeOp(op, l, r) ==
  IF op \in FoldedTests THEN Truth(Test(op, l, r)) ELSE WrapOp(FoldedOps[op], l, r, IntBits)

\* The host's division traps where the quotient is out of range; the compiler
\* ends there.
Trap == Literal("TRAP", 0)
Divides(op)      == op \in {"SLASH", "PERCENT"}
HostTraps(op, l, r) == Divides(op) /\ l = -IntMax - 1 /\ r = -1

Folded(v, e) == [Literal("INTEGER", v) EXCEPT !.type = e.type]
FoldBinary(e) ==
  IF ~IsIntLit(e.left) \/ ~IsIntLit(e.right) \/ e.op \notin DOMAIN FoldedOps \cup FoldedTests THEN e
  ELSE IF Divides(e.op) /\ e.right.value = 0 THEN e   \* W002
  ELSE IF HostTraps(e.op, e.left.value, e.right.value) THEN Trap
  ELSE Folded(ComputeOp(e.op, e.left.value, e.right.value), e)
FoldUnary(e) ==
  IF IsScalarLit(e.right) THEN Folded(ComputeUnary(e.op, ScalarVal(e.right)), e) ELSE e

\* Array literals, method calls and casts are left as they are.
RECURSIVE Fold(_)
Fold(e) ==
  CASE e.node = "Binary"  -> FoldBinary([e EXCEPT !.left = Fold(@), !.right = Fold(@)])
    [] e.node = "Unary"   -> FoldUnary([e EXCEPT !.right = Fold(@)])
    [] e.node = "Postfix" -> [e EXCEPT !.operand = Fold(@)]
    [] e.node = "Call"    -> [e EXCEPT !.args = [i \in DOMAIN @ |-> Fold(@[i])]]
    [] e.node = "Member"  -> [e EXCEPT !.object = Fold(@)]
    [] e.node = "Index"   -> [e EXCEPT !.object = Fold(@), !.index = Fold(@)]
    [] OTHER              -> e

RECURSIVE FoldStmt(_)
FoldStmt(st) ==
  CASE st.node = "Expression"   -> [st EXCEPT !.expr = Fold(@)]
    [] st.node = "Return"       -> [st EXCEPT !.value = Fold(@)]
    [] st.node = "VariableDecl" -> [st EXCEPT !.init = Fold(@)]
    [] st.node = "If"           -> [st EXCEPT !.cond = Fold(@), !.then = FoldStmt(@), !.else = FoldStmt(@)]
    [] st.node \in {"While", "DoWhile"} -> [st EXCEPT !.cond = Fold(@), !.body = FoldStmt(@)]
    [] st.node = "For"          -> [st EXCEPT !.init = FoldStmt(@), !.cond = Fold(@),
                                              !.update = Fold(@), !.body = FoldStmt(@)]
    [] st.node = "Block"        -> [st EXCEPT !.body = [i \in DOMAIN @ |-> FoldStmt(@[i])]]
    [] OTHER                    -> st

\* The host traps in the folding of some part of a tree.
EnteredParts(t) ==
  CASE t.node = "Binary"       -> <<t.left, t.right>>
    [] t.node = "Unary"        -> <<t.right>>
    [] t.node = "Postfix"      -> <<t.operand>>
    [] t.node = "Call"         -> t.args
    [] t.node = "Member"       -> <<t.object>>
    [] t.node = "Index"        -> <<t.object, t.index>>
    [] t.node = "Expression"   -> <<t.expr>>
    [] t.node = "Return"       -> <<t.value>>
    [] t.node = "VariableDecl" -> <<t.init>>
    [] t.node = "If"           -> <<t.cond, t.then, t.else>>
    [] t.node \in {"While", "DoWhile"} -> <<t.cond, t.body>>
    [] t.node = "For"          -> <<t.init, t.cond, t.update, t.body>>
    [] t.node = "Block"        -> t.body
    [] OTHER                   -> << >>
RECURSIVE TrapsIn(_)
TrapsIn(t) == \/ t.node = "Literal" /\ t.sort = "TRAP"
              \/ \E i \in DOMAIN EnteredParts(t) : TrapsIn(EnteredParts(t)[i])

\* The statements of a block up to the first that leaves it; a throw is not
\* seen as one, and switch and try are not entered.
Terminates(st) == st.node \in {"Return", "Break", "Continue"}
Reached(ss) == {i \in DOMAIN ss : \A j \in 1..(i-1) : ~Terminates(ss[j])}
RECURSIVE Eliminate(_)
Eliminate(st) ==
  CASE st.node = "Block" -> [st EXCEPT !.body = [i \in Reached(@) |-> Eliminate(@[i])]]
    [] st.node = "If"    -> [st EXCEPT !.then = Eliminate(@), !.else = Eliminate(@)]
    [] st.node \in {"While", "DoWhile", "For"} -> [st EXCEPT !.body = Eliminate(@)]
    [] OTHER             -> st

\* One round reaches the fixed point of the two passes.
Optimize(st) == Eliminate(FoldStmt(st))
Trapped(st)  == TrapsIn(FoldStmt(st))
=============================================================================
