---------------------------- MODULE NearestCatch ----------------------------
(***************************************************************************)
(* What a program may rely on when an error is raised, whatever runs it:   *)
(* the error goes to the nearest enclosing catch, of the innermost frame   *)
(* that has one (ADR-025), and everything else is left as it was.  There   *)
(* is no try stack and no pending error; which try statements enclose an   *)
(* instruction is read from the code.                                      *)
(*                                                                         *)
(* The other instructions are those of the VM (Interpreter::runUntilEvent, *)
(* src/src/vm/interpreter.cpp), one action each; ControlVm adds to them    *)
(* how the VM finds the catch.  A behaviour runs one of the programs of    *)
(* Code; what the host answers to ASK is free.                             *)
(***************************************************************************)
EXTENDS Integers, Sequences, FiniteSets

CONSTANTS
  Code,         \* a sequence of programs, with the functions main and f; a
                \* function is [code, slotCount], an instruction has an op and
                \* the operands of that op
  MaxAnswers    \* bound on the answers a behaviour takes from the host

Function == {"main", "f"}
Targeted == {"JMP", "JIF_FALSE", "JIF_TRUE", "ENTER_TRY"}

Filling  == {"CALL", "ENTER_TRY", "ARRAY_GET"}

\* What a program has to be: a jump leads to an instruction or behind the last
\* one, and what a call, a try and an element fill is a slot of the frame.
IsCode(code) ==
  /\ Len(code) \in Nat /\ DOMAIN code = 1..Len(code)
  /\ \A i \in 1..Len(code) : code[i].op \in Targeted => code[i].target \in 1..Len(code) + 1
FitsFrame(f) ==
  \A i \in 1..Len(f.code) : f.code[i].op \in Filling => f.code[i].dest \in 0..f.slotCount - 1
ASSUME CodeAssumption ==
  /\ Len(Code) \in Nat
  /\ \A p \in 1..Len(Code) : \A fn \in Function :
       IsCode(Code[p][fn].code) /\ FitsFrame(Code[p][fn])

VARIABLES
  pid,        \* the program that runs
  callStack,  \* callStack_; a frame is [fn, ip, slots, dest]
  answers,    \* what the host has answered, oldest first
  trace,      \* what the program has printed and kept in its global
  status,     \* "running", "finished", "uncaught" or "crashed"
  value       \* lastReturnValue_, or the error nobody caught

nearestVars == <<pid, callStack, answers, trace, status, value>>

FrameOf(fn, dest) ==
  [fn |-> fn, ip |-> 1, dest |-> dest,
   slots |-> [s \in 0..Code[pid][fn].slotCount - 1 |-> 0]]

Top     == callStack[Len(callStack)]
Body    == Code[pid][Top.fn].code

\* The instruction the running frame is at, if it is one of ops.
CurrentOf(code, ops) ==
  IF status = "running" /\ Top.ip <= Len(code) /\ code[Top.ip].op \in ops
  THEN {code[Top.ip]} ELSE {}
Current(ops) == CurrentOf(Body, ops)

Get(s)  == Top.slots[s]
Pop(st) == SubSeq(st, 1, Len(st) - 1)

\* The call stack after the running frame goes to the next instruction, jumps
\* to t, or stores v in slot d first.
Step       == [callStack EXCEPT ![Len(callStack)].ip = @ + 1]
Goto(t)    == [callStack EXCEPT ![Len(callStack)].ip = t]
Store(d, v) ==
  [callStack EXCEPT ![Len(callStack)].ip = @ + 1, ![Len(callStack)].slots[d] = v]

Init ==
  /\ pid \in 1..Len(Code)
  /\ callStack = <<FrameOf("main", -1)>>
  /\ answers = << >> /\ trace = << >>
  /\ status = "running" /\ value = 0

quiet == UNCHANGED <<pid, answers, trace>>
going == UNCHANGED <<status, value>>

\* The values of the instructions that compute one.
Result(i) == CASE i.op = "LOAD_CONST"  -> i.value
               [] i.op = "LOAD_SLOT"   -> Get(i.src)
               [] i.op = "EQUAL_EQUAL" -> IF Get(i.left) = Get(i.right) THEN 1 ELSE 0
Loads == {"LOAD_CONST", "LOAD_SLOT", "EQUAL_EQUAL"}
Load ==
  /\ \E i \in Current(Loads) : callStack' = Store(i.dest, Result(i))
  /\ quiet /\ going

\* CALLHOST of a host function with a result.
AskHost ==
  /\ Len(answers) < MaxAnswers
  /\ \E i \in Current({"ASK"}) : \E a \in i.choices :
       /\ callStack' = Store(i.dest, a)
       /\ answers' = Append(answers, a)
  /\ going /\ UNCHANGED <<pid, trace>>

\* CALLHOST of print, and an assignment to the global.
Effects == {"CALLHOST", "STORE_GLOBAL"}
Effect ==
  /\ \E i \in Current(Effects) : trace' = Append(trace, Get(i.arg))
  /\ callStack' = Step
  /\ going /\ UNCHANGED <<pid, answers>>

Jumps == {"JMP", "JIF_FALSE", "JIF_TRUE"}
Taken(i) == \/ i.op = "JMP"
            \/ i.op = "JIF_FALSE" /\ Get(i.cond) = 0
            \/ i.op = "JIF_TRUE" /\ Get(i.cond) # 0
Branch ==
  /\ \E i \in Current(Jumps) : callStack' = IF Taken(i) THEN Goto(i.target) ELSE Step
  /\ quiet /\ going

Call ==
  /\ \E i \in Current({"CALL"}) : callStack' = Append(Step, FrameOf("f", i.dest))
  /\ quiet /\ going

\* The running frame is popped and v goes to the caller's slot.
Leave(v) ==
  /\ LET caller == Len(callStack) - 1
     IN  callStack' = IF caller > 0 /\ Top.dest # -1
                      THEN [Pop(callStack) EXCEPT ![caller].slots[Top.dest] = v]
                      ELSE Pop(callStack)
  /\ status' = IF Len(callStack) = 1 THEN "finished" ELSE "running"
  /\ quiet

ReturnValue ==
  \E i \in Current({"RETURN"}) :
    /\ Leave(Get(i.src))
    /\ value' = IF Len(callStack) = 1 THEN Get(i.src) ELSE value

\* The end of the instructions without a RETURN.
AtEnd == status = "running" /\ Top.ip > Len(Body)
FallOff == AtEnd /\ Leave(0) /\ UNCHANGED value

\* The beginning and the end of a try body, for all but the VM's try stack.
Pass == Current({"ENTER_TRY", "LEAVE_TRY"}) # {} /\ callStack' = Step /\ quiet /\ going

\* A division fails by zero, an element past the one element of the array, a
\* sum of the largest decimal and anything but zero; the errors they make.
Fallible      == {"DIV", "ARRAY_GET", "DADD"}
Faults(op, v) == IF op = "DIV" THEN v = 0 ELSE v # 0
FaultOf(op)   == CASE op = "DIV" -> 91 [] op = "ARRAY_GET" -> 92 [] op = "DADD" -> 93

Complete ==
  /\ \E i \in Current(Fallible) : ~Faults(i.op, Get(i.arg)) /\ callStack' = Store(i.dest, 1)
  /\ quiet /\ going

\* What the current instruction raises, if it does.
Errors == {Get(i.src) : i \in Current({"THROW"})}
     \cup {FaultOf(i.op) : i \in {j \in Current(Fallible) : Faults(j.op, Get(j.arg))}}

-----------------------------------------------------------------------------
(* The nearest catch.                                                       *)

\* The instructions whose try body the running point ip of code is inside:
\* LEAVE_TRY stands two instructions before the handler.
OpenTries(code, ip) ==
  {i \in 1..Len(code) : code[i].op = "ENTER_TRY" /\ i < ip /\ ip <= code[i].target - 2}

\* i is the innermost of the try statements open at ip.
IsInnermost(code, ip, i) ==
  i \in OpenTries(code, ip) /\ \A j \in OpenTries(code, ip) : code[j].target >= code[i].target

\* The code of a frame of program p, the try statements it is inside, and the
\* innermost of the frames that are inside any.
CodeOf(p, frame) == Code[p][frame.fn].code
Open(p, frame)   == OpenTries(CodeOf(p, frame), frame.ip)
IsNearest(p, frames, d) ==
  /\ d \in 1..Len(frames) /\ Open(p, frames[d]) # {}
  /\ \A k \in d + 1..Len(frames) : Open(p, frames[k]) = {}
Enclosed(p, frames) == \E d \in 1..Len(frames) : Open(p, frames[d]) # {}

\* A frame that handles err with the try statement at i; the frames around it.
Handling(p, frame, i, err) ==
  [frame EXCEPT !.ip = CodeOf(p, frame)[i].target, !.slots[CodeOf(p, frame)[i].dest] = err]
Outer(frames, d, frame) == Append(SubSeq(frames, 1, d - 1), frame)

\* The slot of frame d that waited for an inner call is of no use any more: it
\* is left alone, or has got 0 or something of the frame that raised the error.
Leftovers(d) ==
  IF d = Len(callStack) THEN {} ELSE {0} \cup {Get(s) : s \in DOMAIN Top.slots}
Interrupted(d) ==
  {callStack[d]} \cup
  {[callStack[d] EXCEPT !.slots[callStack[d + 1].dest] = v] : v \in Leftovers(d)}

Catch(err) ==
  /\ \E d \in 1..Len(callStack) : \E i \in Open(pid, callStack[d]) :
       /\ IsNearest(pid, callStack, d)
       /\ IsInnermost(CodeOf(pid, callStack[d]), callStack[d].ip, i)
       /\ \E frame \in Interrupted(d) :
            callStack' = Outer(callStack, d, Handling(pid, frame, i, err))
  /\ quiet /\ going

\* An error that nothing encloses is reported; nobody sees the frames again.
Report(err) ==
  /\ ~Enclosed(pid, callStack)
  /\ status' = "uncaught" /\ value' = err
  /\ quiet

Ordinary ==
  \/ Load \/ AskHost \/ Effect \/ Branch \/ Call \/ ReturnValue \/ FallOff \/ Complete
NearestNext == Ordinary \/ Pass \/ \E err \in Errors : Catch(err) \/ Report(err)
NearestSpec == Init /\ [][NearestNext]_nearestVars
=============================================================================
