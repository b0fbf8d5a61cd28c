------------------------------ MODULE Lowering ------------------------------
(***************************************************************************)
(* Lowering of statements to bytecode by back-patching: generateStatement, *)
(* generateFunction and the short-circuit operators of generateExpression  *)
(* (src/src/ir/ir_generator.cpp), for functions without parameters.        *)
(*                                                                         *)
(* Expressions are what control flow can depend on: a literal, an input of *)
(* the host program, a catch variable, &&, ||, print(e), an assignment to  *)
(* a global, f(), and the operations that raise an error by themselves: a  *)
(* division, an array element and an addition of decimals.  An             *)
(* instruction names its operands as instruction.hpp does; indices count   *)
(* from 1, so Len(code) + 1 is the index of the next instruction.          *)
(***************************************************************************)
EXTENDS Integers, Sequences

-----------------------------------------------------------------------------
(* Expressions and statements (parser/ast/, statement nodes).               *)

Literal(v)    == [kind |-> "Literal", value |-> v]
Ask(choices)  == [kind |-> "Ask", choices |-> choices]
CatchVar(n)   == [kind |-> "CatchVar", name |-> n]
And(l, r)     == [kind |-> "And", left |-> l, right |-> r]
Or(l, r)      == [kind |-> "Or", left |-> l, right |-> r]
Show(e)      == [kind |-> "Show", arg |-> e]
CallF         == [kind |-> "Call"]
Keep(e)       == [kind |-> "Keep", arg |-> e]
Divide(e)     == [kind |-> "Checked", op |-> "DIV", arg |-> e]
Element(e)    == [kind |-> "Checked", op |-> "ARRAY_GET", arg |-> e]
DecimalSum(e) == [kind |-> "Checked", op |-> "DADD", arg |-> e]

\* A division fails by zero, an element past the one element of the array, a
\* sum of the largest decimal and anything but zero; what they raise.
Fails(op, v)  == IF op = "DIV" THEN v = 0 ELSE v # 0
ErrorOf(op)   == CASE op = "DIV" -> 91 [] op = "ARRAY_GET" -> 92 [] op = "DADD" -> 93

Absent        == [kind |-> "Absent"]   \* a null child of a node

Expr(e)       == [kind |-> "Expr", expr |-> e]
Block(ss)     == [kind |-> "Block", body |-> ss]
If(c, t, e)   == [kind |-> "If", cond |-> c, then |-> t, else |-> e]
While(c, b)   == [kind |-> "While", cond |-> c, body |-> b]
DoWhile(b, c) == [kind |-> "DoWhile", body |-> b, cond |-> c]
For(i, c, u, b) ==
  [kind |-> "For", init |-> i, cond |-> c, update |-> u, body |-> b]
Switch(e, cs) == [kind |-> "Switch", subject |-> e, cases |-> cs]
Case(vs, ss)  == [isDefault |-> FALSE, values |-> vs, body |-> ss]
Default(ss)   == [isDefault |-> TRUE, values |-> << >>, body |-> ss]
Try(b, n, h)  == [kind |-> "Try", body |-> b, name |-> n, handler |-> h]
Throw(e)      == [kind |-> "Throw", value |-> e]
Return(e)     == [kind |-> "Return", value |-> e]
Break         == [kind |-> "Break"]
Continue      == [kind |-> "Continue"]

-----------------------------------------------------------------------------
(* The generator's state: currentFunction_->instructions, nextSlot_,        *)
(* loopContextStack_ and the slots of the catch variables in nameToSlot_.   *)

CONSTANT CatchName        \* names of catch variables

Pending == 0              \* jumpTarget -1, to be patched

Start == [code |-> << >>, next |-> 0, loops |-> << >>,
          slotOf |-> [n \in CatchName |-> 0]]

Here(g)    == Len(g.code) + 1
Emit(g, i) == [g EXCEPT !.code = Append(@, i)]
Fresh(g)   == [g EXCEPT !.next = @ + 1]

\* Every jump whose index is in S goes to t.
Patch(g, S, t) ==
  [g EXCEPT !.code = [i \in 1..Len(g.code) |->
     IF i \in S THEN [g.code[i] EXCEPT !.target = t] ELSE g.code[i]]]
PatchHere(g, S) == Patch(g, S, Here(g))

Jump(t)           == [op |-> "JMP", target |-> t]
JumpIfFalse(s, t) == [op |-> "JIF_FALSE", cond |-> s, target |-> t]
JumpIfTrue(s, t)  == [op |-> "JIF_TRUE", cond |-> s, target |-> t]
LoadConst(d, v)   == [op |-> "LOAD_CONST", dest |-> d, value |-> v]
LoadSlot(d, s)    == [op |-> "LOAD_SLOT", dest |-> d, src |-> s]
Equal(d, l, r)    == [op |-> "EQUAL_EQUAL", dest |-> d, left |-> l, right |-> r]

\* loopContextStack_: entering, recording a jump in the context at depth i,
\* and the two sets of the innermost context.
EnterLoop(g, isSwitch) ==
  [g EXCEPT !.loops = Append(@, [isSwitch |-> isSwitch, breaks |-> {}, conts |-> {}])]
LeaveLoop(g) == [g EXCEPT !.loops = SubSeq(@, 1, Len(@) - 1)]
Innermost(g) == g.loops[Len(g.loops)]

-----------------------------------------------------------------------------
(* Expressions: the result is the new state and the slot of the value.      *)

RECURSIVE GenExpr(_, _)

\* && and ||: the result starts as the value the left operand alone can decide,
\* and the jump over the right operand is taken when it does.
Guess(a, default) ==
  Emit(Emit(Fresh(a.g), LoadConst(a.g.next, default)),
       IF default = 0 THEN JumpIfFalse(a.slot, Pending) ELSE JumpIfTrue(a.slot, Pending))
TakeRight(b, result, skip) ==
  [g |-> PatchHere(Emit(b.g, LoadSlot(result, b.slot)), {skip}), slot |-> result]
GenRight(a, guess, right) == TakeRight(GenExpr(guess, right), a.g.next, Here(guess) - 1)
GenShortCircuit(a, right, default) == GenRight(a, Guess(a, default), right)

GenShow(a) == [g |-> Emit(a.g, [op |-> "CALLHOST", arg |-> a.slot]), slot |-> -1]

\* Instructions whose result goes to a fresh slot.
GenFresh(g, i) == [g |-> Emit(Fresh(g), i), slot |-> g.next]

GenKeep(a) == [g |-> Emit(a.g, [op |-> "STORE_GLOBAL", arg |-> a.slot]), slot |-> a.slot]
GenChecked(a, op) == GenFresh(a.g, [op |-> op, dest |-> a.g.next, arg |-> a.slot])

GenExpr(g, e) ==
  CASE e.kind = "Literal"  -> GenFresh(g, LoadConst(g.next, e.value))
    [] e.kind = "Ask"      -> GenFresh(g, [op |-> "ASK", dest |-> g.next,
                                           choices |-> e.choices])
    [] e.kind = "Call"     -> GenFresh(g, [op |-> "CALL", dest |-> g.next])
    [] e.kind = "CatchVar" -> [g |-> g, slot |-> g.slotOf[e.name]]
    [] e.kind = "And"      -> GenShortCircuit(GenExpr(g, e.left), e.right, 0)
    [] e.kind = "Or"       -> GenShortCircuit(GenExpr(g, e.left), e.right, 1)
    [] e.kind = "Show"    -> GenShow(GenExpr(g, e.arg))
    [] e.kind = "Keep"     -> GenKeep(GenExpr(g, e.arg))
    [] e.kind = "Checked"  -> GenChecked(GenExpr(g, e.arg), e.op)

-----------------------------------------------------------------------------
(* Statements.                                                              *)

RECURSIVE GenStmt(_, _)

RECURSIVE GenSeq(_, _)
GenSeq(g, ss) == IF ss = << >> THEN g ELSE GenSeq(GenStmt(g, Head(ss)), Tail(ss))

ReturnSlot(v) == Emit(v.g, [op |-> "RETURN", src |-> v.slot])
GenReturn(g, s) ==
  IF s.value = Absent THEN Emit(g, [op |-> "RETURN", src |-> 0])
                      ELSE ReturnSlot(GenExpr(g, s.value))

\* A jump taken when the condition c fails, at Here(c.g).
Guard(c) == Emit(c.g, JumpIfFalse(c.slot, Pending))

GenElse(then, else, toElse) ==
  IF else = Absent
  THEN PatchHere(then, {toElse})
  ELSE PatchHere(GenStmt(PatchHere(Emit(then, Jump(Pending)), {toElse}), else), {Here(then)})

\* c is the generated condition.
GenIf(c, s) == GenElse(GenStmt(Guard(c), s.then), s.else, Here(c.g))

\* The jump back to t at the end of a loop, and the jumps out of it.
JumpBack(g, t, exit) ==
  LeaveLoop(PatchHere(Emit(g, Jump(t)), exit \cup Innermost(g).breaks))

EndWhile(body, start, exit) ==
  JumpBack(Patch(body, Innermost(body).conts, start), start, exit)
WhileBody(c, s, start) == EndWhile(GenStmt(Guard(c), s.body), start, {Here(c.g)})
GenWhile(g, s) == WhileBody(GenExpr(EnterLoop(g, FALSE), s.cond), s, Here(g))

Update(g, e) == IF e = Absent THEN g ELSE GenExpr(g, e).g
EndFor(body, s, start, exit) ==
  JumpBack(Update(PatchHere(body, Innermost(body).conts), s.update), start, exit)
ForBody(c, s, start) == EndFor(GenStmt(Guard(c), s.body), s, start, {Here(c.g)})
ForEver(g, s, start) == EndFor(GenStmt(g, s.body), s, start, {})

\* init is the state after the initialisation.
GenFor(init, s) ==
  IF s.cond = Absent
  THEN ForEver(EnterLoop(init, FALSE), s, Here(init))
  ELSE ForBody(GenExpr(EnterLoop(init, FALSE), s.cond), s, Here(init))

EndDoWhile(c, start) ==
  LeaveLoop(PatchHere(Emit(c.g, JumpIfTrue(c.slot, start)), Innermost(c.g).breaks))

\* A wrong variant: continue skips the condition.
DoWhileCondSkipping(body, s, start) ==
  EndDoWhile(GenExpr(Patch(body, Innermost(body).conts, start), s.cond), start)

DoWhileCond(body, s, start) ==
  EndDoWhile(GenExpr(PatchHere(body, Innermost(body).conts), s.cond), start)
GenDoWhile(g, s) == DoWhileCond(GenStmt(EnterLoop(g, FALSE), s.body), s, Here(g))

GenBreak(g) ==
  [Emit(g, Jump(Pending)) EXCEPT !.loops[Len(g.loops)].breaks = @ \cup {Here(g)}]

\* continue belongs to the innermost context that is not a switch.
GenContinue(g) ==
  LET i == CHOOSE i \in 1..Len(g.loops) :
             /\ ~g.loops[i].isSwitch
             /\ \A j \in i+1..Len(g.loops) : g.loops[j].isSwitch
  IN  [Emit(g, Jump(Pending)) EXCEPT !.loops[i].conts = @ \cup {Here(g)}]

GenEqual(v, subject) == GenFresh(v.g, Equal(v.g.next, subject, v.slot))

\* The comparisons of one case clause: every value but the last jumps to the
\* body when it matches, the last one jumps to the next clause when it does
\* not.
RECURSIVE GenTests(_, _, _)
GenTests(g, subject, vs) ==
  LET cmp == GenEqual(GenExpr(g, Literal(Head(vs))), subject)
      rest == GenTests(Emit(cmp.g, JumpIfTrue(cmp.slot, Pending)), subject, Tail(vs))
  IN  IF Len(vs) = 1
      THEN [g |-> Emit(cmp.g, JumpIfFalse(cmp.slot, Pending)), hits |-> {}, miss |-> Here(cmp.g)]
      ELSE [rest EXCEPT !.hits = @ \cup {Here(cmp.g)}]

\* The end of a clause: its jump to the end, and behind it the next clause,
\* where the last comparison goes when it fails.
EndClause(body, miss) ==
  [g |-> PatchHere(Emit(body, Jump(Pending)), miss), out |-> Here(body)]

\* One clause; result: the state and the index of its jump to the end.
GenCase(tests, clause) ==
  EndClause(GenSeq(PatchHere(tests.g, tests.hits), clause.body), {tests.miss})
GenClause(g, subject, clause) ==
  IF clause.isDefault THEN EndClause(GenSeq(g, clause.body), {})
                      ELSE GenCase(GenTests(g, subject, clause.values), clause)

RECURSIVE GenClauses(_, _, _)
AddOut(rest, out) == [rest EXCEPT !.outs = @ \cup {out}]
MoreClauses(first, subject, others) ==
  AddOut(GenClauses(first.g, subject, others), first.out)
GenClauses(g, subject, clauses) ==
  IF clauses = << >> THEN [g |-> g, outs |-> {}]
  ELSE MoreClauses(GenClause(g, subject, Head(clauses)), subject, Tail(clauses))

EndSwitch(cs) == LeaveLoop(PatchHere(cs.g, cs.outs \cup Innermost(cs.g).breaks))

\* subject is the generated subject.
GenSwitch(subject, s) ==
  EndSwitch(GenClauses(EnterLoop(subject.g, TRUE), subject.slot, s.cases))

\* ENTER_TRY body LEAVE_TRY JMP over the handler; the handler is the target
\* of ENTER_TRY.
EnterTryBlock(g, name) ==
  Emit([Fresh(g) EXCEPT !.slotOf[name] = g.next],
       [op |-> "ENTER_TRY", dest |-> g.next, target |-> Pending])
Handler(body, s, enter) ==
  PatchHere(GenStmt(PatchHere(Emit(body, Jump(Pending)), {enter}), s.handler), {Here(body)})
GenTry(g, s) ==
  Handler(Emit(GenStmt(EnterTryBlock(g, s.name), s.body), [op |-> "LEAVE_TRY"]), s, Here(g))

GenThrow(v) == Emit(v.g, [op |-> "THROW", src |-> v.slot])

GenStmt(g, s) ==
  CASE s.kind = "Absent"   -> g
    [] s.kind = "Block"    -> GenSeq(g, s.body)
    [] s.kind = "Expr"     -> GenExpr(g, s.expr).g
    [] s.kind = "Return"   -> GenReturn(g, s)
    [] s.kind = "If"       -> GenIf(GenExpr(g, s.cond), s)
    [] s.kind = "While"    -> GenWhile(g, s)
    [] s.kind = "For"      -> GenFor(GenStmt(g, s.init), s)
    [] s.kind = "DoWhile"  -> GenDoWhile(g, s)
    [] s.kind = "Break"    -> GenBreak(g)
    [] s.kind = "Continue" -> GenContinue(g)
    [] s.kind = "Switch"   -> GenSwitch(GenExpr(g, s.subject), s)
    [] s.kind = "Try"      -> GenTry(g, s)
    [] s.kind = "Throw"    -> GenThrow(GenExpr(g, s.value))

\* A void function; a RETURN of zero is added unless the body ends in one.
ReturnZero(g) ==
  Emit(GenFresh(g, LoadConst(g.next, 0)).g, [op |-> "RETURN", src |-> g.next])
EndFunction(g) ==
  IF g.code # << >> /\ g.code[Len(g.code)].op = "RETURN" THEN g ELSE ReturnZero(g)
Finished(g) == [code |-> g.code, slotCount |-> g.next]
GenFunction(body) == Finished(EndFunction(GenStmt(Start, body)))

\* The functions of every program in bytecode (a concatenation makes TLC keep the
\* tuple instead of evaluating an element at each use).
GenFunctions(bodies) == [k \in 1..Len(bodies) |-> GenFunction(bodies[k])] \o << >>
Named(program, functions) == [source |-> program, main |-> functions[1], f |-> functions[2]]
Compiled(program) == Named(program, GenFunctions(<<program.main, program.f>>))
CompiledAll(programs) == [p \in 1..Len(programs) |-> Compiled(programs[p])] \o << >>
=============================================================================
