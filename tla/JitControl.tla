----------------------------- MODULE JitControl -----------------------------
(***************************************************************************)
(* The control flow of compiled code (src/src/mir/mir_backend.cpp) next to *)
(* the VM's: `saqut run` takes one or the other for a program, and they    *)
(* are to behave alike (ADR-037: the VM is normative).                     *)
(*                                                                         *)
(* Compiled code has no try stack.  An error is a pending value that the   *)
(* code looks for behind every instruction; where it then jumps is decided *)
(* when the function is compiled, from the ENTER_TRY and LEAVE_TRY that    *)
(* stand before the instruction.                                           *)
(***************************************************************************)
EXTENDS ControlVm

CONSTANTS VmPrograms, JitPrograms   \* what each backend is given: indices of Code

VARIABLES
  engine,     \* "vm" or "jit"
  pending     \* g_jitPendingError: no error or one

backendVars == <<vars, engine, pending>>

NoError   == {}
NoHandler == [target |-> 0, slot |-> 0]

-----------------------------------------------------------------------------
(* What is known of a function when it is compiled.                         *)

\* A wrong variant: a handler stays open behind its try statement.
HandlersOfAllBefore(code) ==
  [i \in 1..Len(code) |->
     LET tries == {k \in 1..i - 1 : code[k].op = "ENTER_TRY"}
         last  == CHOOSE k \in tries : \A j \in tries : j <= k
     IN  IF tries = {} THEN NoHandler
         ELSE [target |-> code[last].target, slot |-> code[last].dest]]

\* handlerStack behind an instruction.
Opened(stack, instr) ==
  CASE instr.op = "ENTER_TRY" -> Append(stack, [target |-> instr.target, slot |-> instr.dest])
    [] instr.op = "LEAVE_TRY" /\ stack # << >> -> SubSeq(stack, 1, Len(stack) - 1)
    [] OTHER -> stack

\* handlerTarget and handlerErrorSlot: for each instruction the handler that
\* is open before it, the innermost one.
InnermostHandler(stack) == IF stack = << >> THEN NoHandler ELSE stack[Len(stack)]
HandlerStack(code) ==
  LET before[k \in 1..Len(code) + 1] ==
        IF k = 1 THEN << >> ELSE Opened(before[k - 1], code[k - 1])
  IN  before
Handlers(code) == [k \in 1..Len(code) |-> InnermostHandler(HandlerStack(code)[k])]

\* errorCapable: an addition of decimals is not in the list.
ErrorCapable == {"DIV", "ARRAY_GET", "ASK", "CALLHOST", "THROW"}
RaisesHere(code) == \E i \in DOMAIN code : code[i].op \in ErrorCapable

\* canRaise, the fixed point over the calls of main and f, which all go to f.
CanRaise(program, fn) ==
  \/ RaisesHere(program[fn].code)
  \/ /\ \E i \in DOMAIN program[fn].code : program[fn].code[i].op = "CALL"
     /\ RaisesHere(program.f.code)

Table(program, fn) ==
  [handlers |-> Handlers(program[fn].code), canRaise |-> CanRaise(program, fn),
   end |-> Len(program[fn].code) + 1]
TablesOf(code) ==
  [p \in 1..Len(code) |-> [main |-> Table(code[p], "main"), f |-> Table(code[p], "f")]] \o << >>
Tables == TablesOf(Code)

-----------------------------------------------------------------------------
(* Compiled code, one action per instruction of the VM.                     *)

BackendInit ==
  /\ VmInit
  /\ engine \in {"vm", "jit"}
  /\ pid \in (IF engine = "vm" THEN VmPrograms ELSE JitPrograms)
  /\ pending = NoError

Native(ops) == IF engine = "jit" THEN Current(ops) ELSE {}
Put(d, v) == [callStack EXCEPT ![Len(callStack)].slots[d] = v]

\* The check behind the instruction at k of the last of frames, when p is the
\* pending error: on to the next one, to the handler with the error in its
\* slot, or out of the function past its end (propagateLabel).
Passed(p, table, k) ==
  p = NoError \/ (~table.canRaise /\ table.handlers[k] = NoHandler)
CheckedIn(frames, d, k, p, table) ==
  LET handler == table.handlers[k]
  IN  \/ /\ Passed(p, table, k)
         /\ callStack' = [frames EXCEPT ![d].ip = k + 1] /\ pending' = p
      \/ /\ ~Passed(p, table, k) /\ handler # NoHandler
         /\ \E err \in p : callStack' = [frames EXCEPT ![d].ip = handler.target,
                                                      ![d].slots[handler.slot] = err]
         /\ pending' = NoError
      \/ /\ ~Passed(p, table, k) /\ handler = NoHandler
         /\ callStack' = [frames EXCEPT ![d].ip = table.end] /\ pending' = p
Checked(frames, k, p) ==
  CheckedIn(frames, Len(frames), k, p, Tables[pid][frames[Len(frames)].fn])
GoOn(frames, p) == Checked(frames, frames[Len(frames)].ip, p)

jitQuiet == UNCHANGED <<pid, answers, trace, tryStack, engine>>

JitLoad ==
  /\ \E i \in Native(Loads) :
       GoOn(Put(i.dest, Result(i)), pending)
  /\ jitQuiet /\ going

JitAskHost ==
  /\ Len(answers) < MaxAnswers
  /\ \E i \in Native({"ASK"}) : \E a \in i.choices :
       GoOn(Put(i.dest, a), pending) /\ answers' = Append(answers, a)
  /\ going /\ UNCHANGED <<pid, trace, tryStack, engine>>

\* rt_jit_print_*, and a store to a global.
JitEffect ==
  /\ \E i \in Native(Effects) :
       trace' = Append(trace, Get(i.arg)) /\ GoOn(callStack, pending)
  /\ going /\ UNCHANGED <<pid, answers, tryStack, engine>>

\* A jump that is taken skips the check behind it.
JitBranch ==
  /\ \E i \in Native(Jumps) :
       IF Taken(i) THEN callStack' = Goto(i.target) /\ UNCHANGED pending
                   ELSE GoOn(callStack, pending)
  /\ jitQuiet /\ going

JitCall == engine = "jit" /\ Call /\ UNCHANGED <<tryStack, engine, pending>>

\* The function gives v back to the check behind the CALL of its caller; main
\* gives it to the backend, which reports what is still pending.
JitLeave(v, p) ==
  /\ LET callers == Pop(callStack)
         d       == Len(callers)
     IN  IF d > 0
         THEN /\ Checked([callers EXCEPT ![d].slots[Top.dest] = v], callers[d].ip - 1, p)
              /\ going
         ELSE /\ callStack' = callers /\ pending' = NoError
              /\ \/ p = NoError /\ status' = "finished" /\ value' = v
                 \/ status' = "uncaught" /\ value' \in p
  /\ jitQuiet

JitReturn == \E i \in Native({"RETURN"}) : JitLeave(Get(i.src), pending)

\* The end of the function, which a propagated error reaches too.
JitEnd == engine = "jit" /\ AtEnd /\ JitLeave(0, pending)

\* ENTER_TRY and LEAVE_TRY compile to nothing but the check.
JitTry ==
  /\ Native({"ENTER_TRY", "LEAVE_TRY"}) # {}
  /\ GoOn(callStack, pending)
  /\ jitQuiet /\ going

JitThrow ==
  /\ \E i \in Native({"THROW"}) : GoOn(callStack, {Get(i.src)})
  /\ jitQuiet /\ going

\* A division or a sum of decimals: its value, or a pending error, the first
\* one (jitSetError).
Raised(op) == IF pending = NoError THEN {FaultOf(op)} ELSE pending
JitOperate ==
  /\ \E i \in Native({"DIV", "DADD"}) :
       IF Faults(i.op, Get(i.arg)) THEN GoOn(callStack, Raised(i.op))
                                   ELSE GoOn(Put(i.dest, 1), pending)
  /\ jitQuiet /\ going

\* An element of an array of ints: out of bounds, the function is left at once
\* (MIR_RET behind failL), without a look at its handlers.
JitElement ==
  \E i \in Native({"ARRAY_GET"}) :
    IF Faults(i.op, Get(i.arg)) THEN JitLeave(Get(i.dest), Raised(i.op))
    ELSE GoOn(Put(i.dest, 1), pending) /\ jitQuiet /\ going

VmStep == engine = "vm" /\ Next /\ UNCHANGED <<engine, pending>>

BackendNext ==
  \/ VmStep
  \/ JitLoad \/ JitAskHost \/ JitEffect \/ JitBranch \/ JitCall \/ JitReturn
  \/ JitEnd \/ JitTry \/ JitThrow \/ JitOperate \/ JitElement

BackendSpec == BackendInit /\ [][BackendNext]_backendVars

-----------------------------------------------------------------------------

\* While the VM runs a program in which no try body is left by a jump or a
\* return, its try stack is what the code says (TryFrame, ENTER_TRY, LEAVE_TRY);
\* compiled code never looks at it.
VmTryStackIsLexical == engine = "vm" /\ pid \in ContainedPrograms => TryStackIsLexical

-----------------------------------------------------------------------------
(* Both backends implement NearestCatch.                                    *)

\* The programs a backend runs as NearestCatch says.  Compiled code leaves a
\* function at an element out of bounds past its own handlers, and does not
\* look for the error of a sum of decimals unless something else in the
\* function can raise one.
JitFaithful(code) ==
  /\ WellNested(code)
  /\ \A k \in 1..Len(code) :
       /\ code[k].op = "ARRAY_GET" => OpenTries(code, k) = {}
       /\ code[k].op = "DADD" => RaisesHere(code)
JitFaithfulOf(programs) ==
  {p \in 1..Len(programs) : \A fn \in Function : JitFaithful(programs[p][fn].code)}

\* While an error is pending, functions are only left until one of them has a
\* handler: the program is already there, or reported.
Delivered(p, frames, err) ==
  LET d     == CHOOSE k \in 1..Len(frames) : IsNearest(p, frames, k)
      frame == [frames[d] EXCEPT !.slots[frames[d + 1].dest] = 0]
      i     == CHOOSE j \in Open(p, frame) : IsInnermost(CodeOf(p, frame), frame.ip, j)
  IN  Outer(frames, d, Handling(p, frame, i, err))
Lost     == pending # NoError /\ ~Enclosed(pid, callStack)
TheError == CHOOSE err \in pending : TRUE

SourceStack  ==
  IF pending = NoError THEN callStack
  ELSE IF Lost THEN << >> ELSE Delivered(pid, callStack, TheError)
SourceStatus == IF Lost THEN "uncaught" ELSE status
SourceValue  == IF Lost THEN TheError ELSE value
Nearest == INSTANCE NearestCatch
             WITH callStack <- SourceStack, status <- SourceStatus, value <- SourceValue

\* In the VM and in compiled code an error goes to the nearest enclosing catch,
\* with the frames outside of it as they were, and is reported when there is
\* none (tryStack_; g_jitPendingError and the labels it jumps to).
ErrorsFindTheirCatch == Nearest!NearestSpec
=============================================================================
