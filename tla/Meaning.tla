------------------------------ MODULE Meaning -------------------------------
(***************************************************************************)
(* What a structured program means, without bytecode: the reference the    *)
(* generated code is held to (docs/adr-frontend-analiz.md, ADR-025 for     *)
(* try/catch/throw and ADR-027 for switch).                                *)
(*                                                                         *)
(* A statement takes a state to a state:                                   *)
(*   out    how it ended: "next" (go on), "break", "continue", "return",   *)
(*          "throw", or "cut" when the answers of the host ran out         *)
(*   trace  what was printed and kept in the global                        *)
(*   input  the host's answers still to come                               *)
(*   err    the value thrown last                                          *)
(*   env    the values of the catch variables                              *)
(* Every operator is the identity on a state that does not go on.          *)
(***************************************************************************)
EXTENDS Lowering

RECURSIVE Run(_, _, _), RunSeq(_, _, _), Eval(_, _, _)

\* An expression's state and value; f is the body of the function f.
Done(st, v) == [st |-> st, val |-> v]

EvalAsk(st) ==
  IF st.input = << >> THEN Done([st EXCEPT !.out = "cut"], 0)
                      ELSE Done([st EXCEPT !.input = Tail(@)], Head(st.input))

\* The effect of a's value, and the value v of the whole expression.
Noted(a, v) ==
  IF a.st.out = "next" THEN Done([a.st EXCEPT !.trace = Append(@, a.val)], v) ELSE a
EvalShow(a) == Noted(a, 0)
EvalKeep(a) == Noted(a, a.val)

EvalChecked(e, st, f) ==
  LET a == Eval(e.arg, st, f)
  IN  IF a.st.out # "next" THEN a
      ELSE IF Fails(e.op, a.val)
           THEN Done([a.st EXCEPT !.out = "throw", !.err = ErrorOf(e.op)], 0)
           ELSE Done(a.st, 1)

EvalCall(st, f) ==
  LET r == Run(f, st, f)
      back == [r EXCEPT !.env = st.env]
  IN  Done(IF r.out = "return" THEN [back EXCEPT !.out = "next"] ELSE back, 0)

\* && and ||: the right operand counts only when the left one is not decisive.
EvalShortCircuit(e, st, f, decisive) ==
  LET l == Eval(e.left, st, f)
  IN  IF l.st.out # "next" \/ l.val = decisive THEN l ELSE Eval(e.right, l.st, f)

Eval(e, st, f) ==
  CASE e.kind = "Literal"  -> Done(st, e.value)
    [] e.kind = "CatchVar" -> Done(st, st.env[e.name])
    [] e.kind = "Ask"      -> EvalAsk(st)
    [] e.kind = "Show"    -> EvalShow(Eval(e.arg, st, f))
    [] e.kind = "Keep"     -> EvalKeep(Eval(e.arg, st, f))
    [] e.kind = "Checked"  -> EvalChecked(e, st, f)
    [] e.kind = "Call"     -> EvalCall(st, f)
    [] e.kind = "And"      -> EvalShortCircuit(e, st, f, 0)
    [] e.kind = "Or"       -> EvalShortCircuit(e, st, f, 1)
    [] e.kind = "Absent"   -> Done(st, 1)

RunSeq(ss, st, f) ==
  IF ss = << >> \/ st.out # "next" THEN st ELSE RunSeq(Tail(ss), Run(Head(ss), st, f), f)

RunIf(s, st, f) ==
  LET c == Eval(s.cond, st, f)
  IN  IF c.st.out # "next" THEN c.st
      ELSE Run(IF c.val # 0 THEN s.then ELSE s.else, c.st, f)

\* The state a loop goes on from after one run of its body, and whether the
\* body let it go on.
GoesOn(st)    == st.out \in {"next", "continue"}
AfterBody(st) == IF st.out \in {"continue", "break"} THEN [st EXCEPT !.out = "next"] ELSE st

RECURSIVE RunLoop(_, _, _, _, _)
RunLoop(cond, s, update, st, f) ==
  LET c    == Eval(cond, st, f)
      body == Run(s, c.st, f)
      upd  == Eval(update, AfterBody(body), f).st
  IN  IF c.st.out # "next" \/ c.val = 0 THEN c.st
      ELSE IF ~GoesOn(body) THEN AfterBody(body)
      ELSE IF upd.out # "next" THEN upd
      ELSE RunLoop(cond, s, update, upd, f)

RECURSIVE RunDoWhile(_, _, _)
RunDoWhile(s, st, f) ==
  LET body == Run(s.body, st, f)
      c    == Eval(s.cond, AfterBody(body), f)
  IN  IF ~GoesOn(body) THEN AfterBody(body)
      ELSE IF c.st.out # "next" \/ c.val = 0 THEN c.st
      ELSE RunDoWhile(s, c.st, f)

RunFor(s, st, f) ==
  LET init == Run(s.init, st, f)
  IN  IF init.out = "next" THEN RunLoop(s.cond, s.body, s.update, init, f) ELSE init

\* The clause with the value; failing that, the default clause.
Selected(s, v) ==
  LET hit(c) == \E i \in 1..Len(c.values) : c.values[i] = v
      hits   == {i \in 1..Len(s.cases) : hit(s.cases[i])}
      others == {i \in 1..Len(s.cases) : s.cases[i].isDefault}
  IN  IF hits # {} THEN s.cases[CHOOSE i \in hits : \A j \in hits : i <= j].body
      ELSE IF others # {} THEN s.cases[CHOOSE i \in others : TRUE].body
      ELSE << >>

RunSwitch(s, st, f) ==
  LET v    == Eval(s.subject, st, f)
      body == RunSeq(Selected(s, v.val), v.st, f)
  IN  IF v.st.out # "next" THEN v.st
      ELSE IF body.out = "break" THEN [body EXCEPT !.out = "next"] ELSE body

RunTry(s, st, f) ==
  LET body == Run(s.body, st, f)
  IN  IF body.out # "throw" THEN body
      ELSE Run(s.handler, [body EXCEPT !.out = "next", !.env[s.name] = body.err], f)

RunThrow(s, st, f) ==
  LET v == Eval(s.value, st, f)
  IN  IF v.st.out # "next" THEN v.st
      ELSE [v.st EXCEPT !.out = "throw", !.err = v.val]

Run(s, st, f) ==
  IF st.out # "next" THEN st ELSE
  CASE s.kind = "Absent"   -> st
    [] s.kind = "Block"    -> RunSeq(s.body, st, f)
    [] s.kind = "Expr"     -> Eval(s.expr, st, f).st
    [] s.kind = "If"       -> RunIf(s, st, f)
    [] s.kind = "While"    -> RunLoop(s.cond, s.body, Absent, st, f)
    [] s.kind = "For"      -> RunFor(s, st, f)
    [] s.kind = "DoWhile"  -> RunDoWhile(s, st, f)
    [] s.kind = "Switch"   -> RunSwitch(s, st, f)
    [] s.kind = "Try"      -> RunTry(s, st, f)
    [] s.kind = "Throw"    -> RunThrow(s, st, f)
    [] s.kind = "Break"    -> [st EXCEPT !.out = "break"]
    [] s.kind = "Continue" -> [st EXCEPT !.out = "continue"]
    [] s.kind = "Return"   -> [st EXCEPT !.out = "return"]

\* The meaning of a program (main and the function f) for a list of answers.
MeaningOf(program, choices) ==
  Run(program.main,
      [out |-> "next", trace |-> << >>, input |-> choices, err |-> 0,
       env |-> [n \in CatchName |-> 0]],
      program.f)
=============================================================================
