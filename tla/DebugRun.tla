------------------------------ MODULE DebugRun ------------------------------
(***************************************************************************)
(* Debug execution: Interpreter::runUntilEvent with its budget, its        *)
(* breakpoints and its step conditions, and the commands that start it     *)
(* (stepInstruction, stepOver, stepOut and the chunks of a continue) in    *)
(* src/src/vm/interpreter.cpp.                                             *)
(*                                                                         *)
(* What a program computes is left out: a branch goes either way.  What    *)
(* stays is what a debugger sees: frames, instructions and the line each   *)
(* one has.  Jumps have line 0 (the generator gives them no location).     *)
(***************************************************************************)
EXTENDS Integers, Sequences

CONSTANTS
  Programs,     \* name -> what is debugged and how: code, a function -> its
                \* instructions [op, line, to]; file, a function -> the file it
                \* comes from; lines, the locations <<file, line>> that may have
                \* a breakpoint; commands, those the debugger may give; chunk,
                \* kRunBudgetChunk, the instructions of one turn of a continue;
                \* entry, the launch argument stopOnEntry; depth, a bound on the
                \* call depth
  Main,         \* the function "main"
  Nowhere       \* no location

Op == {"plain", "jump", "branch", "call", "return", "enter", "leave", "throw"}

ASSUME DebugRunAssumption ==
  \A p \in DOMAIN Programs : LET q == Programs[p] IN
    /\ Main \in DOMAIN q.code /\ DOMAIN q.file = DOMAIN q.code
    /\ \A f \in DOMAIN q.code :
         /\ Len(q.code[f]) \in Nat /\ DOMAIN q.code[f] = 1..Len(q.code[f])
         /\ \A i \in DOMAIN q.code[f] :
              LET ins == q.code[f][i] IN
                /\ ins.op \in Op /\ ins.line \in Nat
                /\ ins.op \in {"jump", "branch", "enter"} => ins.to \in Nat \ {0}
                /\ ins.op = "call" => ins.to \in DOMAIN q.code
    /\ q.chunk \in Nat \ {0} /\ q.depth \in Nat \ {0} /\ q.entry \in BOOLEAN

VARIABLES
  program,        \* the name of the program of this session
  callStack,      \* callStack_, a frame is [fn, ip]
  tryStack,       \* tryStack_, an entry is [depth, target]
  breakpoints,    \* breakpoints_
  state,          \* state_, or "Dead" after an error nobody caught
  command,        \* the command under way: "none", "continue", "stepIn",
                  \* "next", "stepOut", or "entry", the step to the entry stop
  reason,         \* why runUntilEvent returned last
  runBudget,      \* runBudget_, -1 is unlimited
  stepStartDepth, \* stepStartDepth_, -1 is no step
  stepStartLine,  \* stepStartLine_
  resumeSkip,     \* the local resumeSkipFile and resumeSkipLine
  seen,           \* history: the location executed or reported last
  chunked,        \* history: the continue under way has used up a chunk
  startLine,      \* history: the line the debugger was at when the command began
  startDepth      \* history: the call depth then

vm      == <<callStack, tryStack>>
control == <<runBudget, stepStartDepth, stepStartLine, resumeSkip>>
history == <<seen, chunked, startLine, startDepth>>
setup   == <<program, breakpoints>>
vars    == <<setup, vm, state, command, reason, control, history>>

Code        == Programs[program].code
FileOf      == Programs[program].file
BreakLines  == Programs[program].lines
Commands    == Programs[program].commands
Chunk       == Programs[program].chunk
StopOnEntry == Programs[program].entry
MaxDepth    == Programs[program].depth

Depth    == Len(callStack)
Top      == callStack[Depth]
Body     == Code[Top.fn]
AtEnd    == Top.ip > Len(Body)
Instr    == Body[Top.ip]
At(f, n) == IF n = 0 THEN Nowhere ELSE <<FileOf[f], n>>

\* The location and line of the next instruction.
Here == IF callStack = << >> \/ AtEnd THEN Nowhere ELSE At(Top.fn, Instr.line)

\* currentSourceLine: behind the last instruction, the line of that one.
CurrentSourceLine ==
  IF callStack = << >> THEN 0
  ELSE IF ~AtEnd THEN Instr.line
  ELSE IF Body = << >> THEN 0 ELSE Body[Len(Body)].line

IsBreakpoint == Here # Nowhere /\ Here \in breakpoints

-----------------------------------------------------------------------------
(* runUntilEvent.                                                           *)

\* Its beginning, for a budget and a start depth.  A run that finds no frame
\* has finished.
Begin(budget, depth) ==
  IF callStack = << >>
  THEN /\ state' = "Finished" /\ reason' = "Finished"
       /\ UNCHANGED control
  ELSE /\ state' = "Running" /\ reason' = "none"
       /\ runBudget' = budget
       /\ stepStartDepth' = depth
       /\ stepStartLine' = IF depth >= 0 THEN CurrentSourceLine ELSE 0
       /\ resumeSkip' = IF IsBreakpoint THEN Here ELSE Nowhere

Running == state = "Running"

\* Leaving runUntilEvent.
Stop(st, why) == state' = st /\ reason' = why

StopBudget ==
  /\ Running /\ runBudget = 0
  /\ Stop("Paused", "BudgetExhausted")
  /\ UNCHANGED <<setup, vm, command, control, history>>

StopBreakpoint ==
  /\ Running /\ runBudget # 0
  /\ IsBreakpoint /\ resumeSkip # Here
  /\ Stop("Paused", "Breakpoint")
  /\ seen' = Here
  /\ UNCHANGED <<setup, vm, command, control, chunked, startLine, startDepth>>

\* A wrong variant: once a line is skipped it is skipped for the whole run.
ProceedsSkipping ==
  /\ Running /\ runBudget # 0
  /\ ~(IsBreakpoint /\ resumeSkip # Here)
  /\ UNCHANGED resumeSkip

\* Past the budget and the breakpoint check; a line without a breakpoint ends
\* the skipping of the resume line.
Proceeds ==
  /\ Running /\ runBudget # 0
  /\ ~(IsBreakpoint /\ resumeSkip # Here)
  /\ resumeSkip' = IF IsBreakpoint THEN resumeSkip ELSE Nowhere

\* A step without a line waited for the depth below the top frame.
Awaited == stepStartDepth >= Depth - 1 /\ stepStartDepth >= 0 /\ stepStartLine = 0

\* A return pops the top frame, and execution goes on unless nothing is left or
\* a step is over.
PopFrame ==
  /\ callStack' = SubSeq(callStack, 1, Depth - 1)
  /\ IF Depth = 1 THEN Stop("Finished", "Finished")
     ELSE IF Awaited THEN Stop("Paused", "StepDone")
     ELSE UNCHANGED <<state, reason>>

\* So does the end of a function, which looks at the step first: a step out of
\* main may be over with no frame left.
FallOff ==
  /\ Proceeds /\ AtEnd
  /\ callStack' = SubSeq(callStack, 1, Depth - 1)
  /\ IF Awaited THEN Stop("Paused", "StepDone")
     ELSE IF Depth = 1 THEN Stop("Finished", "Finished")
     ELSE UNCHANGED <<state, reason>>
  /\ UNCHANGED <<setup, tryStack, command, runBudget, stepStartDepth, stepStartLine,
                 history>>

\* A wrong variant: the depth is not looked at.
StepReachedAnywhere ==
  /\ stepStartLine > 0 /\ stepStartDepth >= 0
  /\ Instr.line > 0 /\ Instr.line # stepStartLine

\* The step condition, on the instruction that would come next.
StepReached ==
  /\ stepStartLine > 0 /\ stepStartDepth >= 0
  /\ Instr.line > 0 /\ Instr.line # stepStartLine /\ Depth <= stepStartDepth

StopStep ==
  /\ Proceeds /\ ~AtEnd /\ StepReached
  /\ Stop("Paused", "StepDone")
  /\ seen' = Here
  /\ UNCHANGED <<setup, vm, command, runBudget, stepStartDepth, stepStartLine,
                 chunked, startLine, startDepth>>

\* What an instruction does to the frames.
Goto(i) == [callStack EXCEPT ![Depth].ip = i]

Plain  == Instr.op = "plain" /\ callStack' = Goto(Top.ip + 1)
          /\ UNCHANGED <<tryStack, state, reason>>
Jump   == /\ \/ Instr.op = "jump" /\ callStack' = Goto(Instr.to)
             \/ Instr.op = "branch" /\ \E i \in {Instr.to, Top.ip + 1} : callStack' = Goto(i)
          /\ UNCHANGED <<tryStack, state, reason>>
Call   == /\ Instr.op = "call" /\ Depth < MaxDepth
          /\ callStack' = Append(Goto(Top.ip + 1), [fn |-> Instr.to, ip |-> 1])
          /\ UNCHANGED <<tryStack, state, reason>>
Return == Instr.op = "return" /\ PopFrame /\ UNCHANGED tryStack
Enter  == /\ Instr.op = "enter" /\ callStack' = Goto(Top.ip + 1)
          /\ tryStack' = Append(tryStack, [depth |-> Depth, target |-> Instr.to])
          /\ UNCHANGED <<state, reason>>
LeaveTry == /\ Instr.op = "leave" /\ callStack' = Goto(Top.ip + 1)
            /\ tryStack' = IF tryStack = << >> THEN tryStack
                           ELSE SubSeq(tryStack, 1, Len(tryStack) - 1)
            /\ UNCHANGED <<state, reason>>
\* An error nobody catches leaves runUntilEvent as a C++ exception.
Throw  == /\ Instr.op = "throw"
          /\ IF tryStack = << >>
             THEN state' = "Dead" /\ UNCHANGED <<vm, reason>>
             ELSE LET entry == tryStack[Len(tryStack)]
                      d     == IF entry.depth < Depth THEN entry.depth ELSE Depth
                  IN  /\ tryStack' = SubSeq(tryStack, 1, Len(tryStack) - 1)
                      /\ callStack' = [SubSeq(callStack, 1, d) EXCEPT ![d].ip = entry.target]
                      /\ UNCHANGED <<state, reason>>

Effect == Plain \/ Jump \/ Call \/ Return \/ Enter \/ LeaveTry \/ Throw

\* A wrong variant: the step condition after the fetch (the defect of #105).
ExecuteFirst ==
  /\ Proceeds /\ ~AtEnd
  /\ Effect
  /\ runBudget' = IF runBudget > 0 THEN runBudget - 1 ELSE runBudget
  /\ seen' = IF Here = Nowhere THEN seen ELSE Here
  /\ UNCHANGED <<setup, command, stepStartDepth, stepStartLine, chunked, startLine, startDepth>>

Execute ==
  /\ Proceeds /\ ~AtEnd /\ ~StepReached
  /\ Effect
  /\ runBudget' = IF runBudget > 0 THEN runBudget - 1 ELSE runBudget
  /\ seen' = IF Here = Nowhere THEN seen ELSE Here
  /\ UNCHANGED <<setup, command, stepStartDepth, stepStartLine, chunked, startLine, startDepth>>

RunLoop == StopBudget \/ StopBreakpoint \/ FallOff \/ StopStep \/ Execute

-----------------------------------------------------------------------------
(* The debugger's commands, given while the VM is not running.              *)

\* A program that has ended can be given commands too: they find no frame.
Idle   == command = "none" /\ state \in {"Init", "Paused", "Finished"}
Ask(c) == Idle /\ state # "Init" /\ c \in Commands

Remember(c) ==
  /\ command' = c
  /\ startLine' = CurrentSourceLine /\ startDepth' = Depth /\ chunked' = FALSE
  /\ UNCHANGED <<setup, vm, seen>>

Continue == Remember("continue") /\ Begin(Chunk, -1)
StepInstruction == Remember("stepIn") /\ Begin(1, -1)
StepOver == Remember("next") /\ Begin(-1, Depth)

\* A wrong variant: the caller's caller is waited for.
StepOutTooFar == Remember("stepOut") /\ Begin(-1, Depth - 2)

StepOut == Remember("stepOut") /\ Begin(-1, Depth - 1)

\* configurationDone: the entry stop is a step of one instruction.
StepEntry == Remember("entry") /\ Begin(1, -1)

Launch ==
  /\ command = "none" /\ state = "Init"
  /\ IF StopOnEntry THEN StepEntry ELSE Continue

Command ==
  \/ Launch
  \/ Ask("continue") /\ Continue
  \/ Ask("stepIn") /\ StepInstruction
  \/ Ask("next") /\ StepOver
  \/ Ask("stepOut") /\ StepOut

\* setBreakpoints: the former ones are cleared, these are set.
SetBreakpoints ==
  /\ Idle
  /\ breakpoints' \in SUBSET BreakLines
  /\ UNCHANGED <<program, vm, state, command, reason, control, history>>

\* A continue goes on with another chunk.
NextChunk ==
  /\ command = "continue" /\ state = "Paused" /\ reason = "BudgetExhausted"
  /\ Begin(Chunk, -1)
  /\ chunked' = TRUE
  /\ UNCHANGED <<setup, vm, command, seen, startLine, startDepth>>

\* The command is over and the debugger is told where the VM is: after an
\* event, or, for a continue, because the client asked for a pause.
Report ==
  /\ command # "none" /\ state # "Running" /\ state # "Dead"
  /\ reason = "BudgetExhausted" /\ command = "continue" => "pause" \in Commands
  /\ command' = "none"
  /\ seen' = IF Here = Nowhere THEN seen ELSE Here
  /\ UNCHANGED <<setup, vm, state, reason, control, chunked, startLine, startDepth>>

Init ==
  /\ program \in DOMAIN Programs
  /\ callStack = <<[fn |-> Main, ip |-> 1]>> /\ tryStack = << >>
  /\ breakpoints \in SUBSET BreakLines
  /\ state = "Init" /\ command = "none" /\ reason = "none"
  /\ runBudget = 0 /\ stepStartDepth = -1 /\ stepStartLine = 0 /\ resumeSkip = Nowhere
  /\ seen = IF StopOnEntry THEN Here ELSE Nowhere
  /\ chunked = FALSE /\ startLine = 0 /\ startDepth = 0

Next ==
  \/ RunLoop
  \/ Command
  \/ SetBreakpoints \/ NextChunk \/ Report

Spec == Init /\ [][Next]_vars

-----------------------------------------------------------------------------

Executes == Running /\ callStack' # callStack

\* No instruction of a line with a breakpoint is executed before the debugger
\* was told that the VM is there, or an instruction of that line was executed
\* before it, until the first chunk of the run is used up (runUntilEvent checks
\* before each instruction; the line it resumes from, and no other, is passed
\* without a stop.  Each further chunk passes the line it begins on as well, and
\* so does a session that starts without the entry stop: seen is Nowhere).
BreakpointHoldsInChunk ==
  [][Executes /\ ~AtEnd /\ IsBreakpoint /\ ~chunked
       => seen = Here \/ (~StopOnEntry /\ seen = Nowhere)]_vars

\* While a next is under way that began on a line, no instruction of another
\* line is executed in the frame where it began or in a caller (stepOver:
\* "advance until the line changes at the same call depth").
NextStopsAtNextLine ==
  [][Executes /\ command = "next" /\ startLine # 0 /\ ~AtEnd /\ Depth <= startDepth
       => Instr.line \in {0, startLine}]_vars

\* A step that is over stopped where it was asked to: in the frame where it
\* began or a caller for next, in a caller for stepOut, or at a breakpoint.
StepEndsWhereAsked ==
  state = "Paused" /\ reason = "StepDone" =>
    /\ command = "next" => Depth <= startDepth
    /\ command = "stepOut" => Depth < startDepth

\* While a stepOut is under way that began on a line, no other line is executed
\* in a caller; one that began at a jump, which has no line, is over as soon as
\* a return goes to a caller (stepOut: "advance until the call depth decreases").
\* An error that such a step meets, and that a caller catches, leads past it.
StepOutStopsInCaller ==
  [][Executes /\ command = "stepOut" =>
       /\ startLine # 0 /\ ~AtEnd /\ Depth < startDepth => Instr.line \in {0, startLine}
       /\ startLine = 0 /\ Depth' < Depth /\ Depth' < startDepth /\ UNCHANGED tryStack
            => state' # "Running"]_vars
=============================================================================
