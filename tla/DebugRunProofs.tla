--------------------------- MODULE DebugRunProofs ---------------------------
(***************************************************************************)
(* Proofs about DebugRun, for every program: each stop is where the        *)
(* debugger asked for it, and a breakpoint is not passed in silence.       *)
(***************************************************************************)
EXTENDS DebugRun, TLAPS, SequenceTheorems

Frame    == [fn : DOMAIN Code, ip : Nat \ {0}]
TryEntry == [depth : Nat \ {0}, target : Nat \ {0}]

Typed ==
  /\ program \in DOMAIN Programs
  /\ callStack \in Seq(Frame) /\ tryStack \in Seq(TryEntry)
  /\ stepStartDepth \in Int /\ startLine \in Nat /\ startDepth \in Nat

\* A run has a frame and belongs to a command, a program that ended has none.
RunHasFrame ==
  /\ state = "Running" => callStack # << >> /\ command # "none"
  /\ state = "Finished" => callStack = << >>

\* A step under way waits for the depth and the line of its command.
StepWaits ==
  state = "Running" /\ command \in {"next", "stepOut"} =>
    /\ startDepth # 0 /\ stepStartLine = startLine
    /\ stepStartDepth = IF command = "next" THEN startDepth ELSE startDepth - 1

\* The location reported when the debugger is asked for a command.
Reported ==
  /\ state = "Paused" /\ command = "none" => Here \in {Nowhere, seen}
  /\ state = "Init" => /\ command = "none" /\ callStack # << >>
                       /\ seen = IF StopOnEntry THEN Here ELSE Nowhere

\* The line that is passed without a stop was reported, or executed, before.
SkipKnown ==
  state = "Running" /\ ~chunked /\ resumeSkip # Nowhere =>
    seen = resumeSkip \/ (~StopOnEntry /\ seen = Nowhere)

DebugInv == Typed /\ RunHasFrame /\ StepWaits /\ Reported /\ SkipKnown /\ StepEndsWhereAsked

-----------------------------------------------------------------------------
(* Frames and handlers.                                                     *)

\* What an element can be once the last one is gone.
LEMMA FrontOfSeq ==
  ASSUME NEW S, NEW s \in Seq(S), s # << >>
  PROVE  /\ SubSeq(s, 1, Len(s) - 1) \in Seq(S)
         /\ Len(SubSeq(s, 1, Len(s) - 1)) = Len(s) - 1
<1>1. Len(s) \in Nat \ {0} /\ DOMAIN s = 1..Len(s)
  OBVIOUS
<1> QED BY <1>1

\* The instruction pointer of the top frame is all that a jump changes.
LEMMA GotoIsFrames ==
  ASSUME Typed, callStack # << >>, NEW i \in Nat \ {0}
  PROVE  /\ Goto(i) \in Seq(Frame) /\ Len(Goto(i)) = Depth /\ Goto(i) # << >>
         /\ Depth \in Nat \ {0}
<1>1. Depth \in Nat \ {0}
  BY EmptySeq DEF Typed, Depth
<1>2. callStack[Depth] \in Frame
  BY <1>1, ElementOfSeq DEF Typed, Depth
<1>3. [callStack[Depth] EXCEPT !.ip = i] \in Frame
  BY <1>2 DEF Frame
<1>4. Goto(i) = [callStack EXCEPT ![Depth] = [callStack[Depth] EXCEPT !.ip = i]]
  BY DEF Goto
<1>5. Goto(i) \in Seq(Frame) /\ Len(Goto(i)) = Depth
  BY <1>1, <1>3, <1>4, ExceptSeq DEF Typed, Depth
<1> QED BY <1>1, <1>5, EmptySeq

\* What is known of the next instruction.
LEMMA InstrTyped ==
  ASSUME Typed, callStack # << >>, ~AtEnd
  PROVE  /\ Instr.op \in Op /\ Instr.line \in Nat /\ Top.ip + 1 \in Nat \ {0}
         /\ Instr.op \in {"jump", "branch", "enter"} => Instr.to \in Nat \ {0}
         /\ Instr.op = "call" => Instr.to \in DOMAIN Code
<1>1. Depth \in Nat \ {0} /\ Top \in Frame
  BY EmptySeq, ElementOfSeq DEF Typed, Depth, Top
<1>2. Top.fn \in DOMAIN Code /\ Top.ip \in Nat \ {0}
  BY <1>1 DEF Frame
<1>3. program \in DOMAIN Programs
  BY DEF Typed
<1>4. Len(Body) \in Nat /\ DOMAIN Body = 1..Len(Body)
  BY <1>2, <1>3, DebugRunAssumption DEF Body, Code
<1>5. Top.ip \in DOMAIN Body
  BY <1>2, <1>4 DEF AtEnd
<1> QED BY <1>2, <1>3, <1>5, DebugRunAssumption DEF Instr, Body, Code

\* What an instruction or the end of a function leaves behind: the run goes on
\* with a frame, is over, or has stopped where a step may stop.
Left ==
  /\ callStack' \in Seq(Frame) /\ tryStack' \in Seq(TryEntry)
  /\ \/ state' = "Running" /\ callStack' # << >>
     \/ state' = "Paused" /\ Depth' <= stepStartDepth
     \/ state' = "Finished" /\ callStack' = << >>
     \/ state' = "Dead"

LEMMA PopLeaves ==
  ASSUME Typed, RunHasFrame, Running, PopFrame, UNCHANGED tryStack
  PROVE  Left
<1>1. callStack # << >> /\ Depth \in Nat \ {0}
  BY EmptySeq DEF RunHasFrame, Running, Typed, Depth
<1>2. callStack' \in Seq(Frame) /\ Depth' = Depth - 1
  BY <1>1, FrontOfSeq DEF PopFrame, Typed, Depth
<1>3. callStack' = << >> <=> Depth = 1
  BY <1>1, <1>2, EmptySeq DEF Depth
<1>4. stepStartDepth \in Int /\ tryStack' \in Seq(TryEntry)
  BY DEF Typed
<1> QED BY <1>1, <1>2, <1>3, <1>4 DEF PopFrame, Left, Stop, Awaited, Running

LEMMA FallOffLeaves ==
  ASSUME Typed, RunHasFrame, FallOff
  PROVE  Left
<1>1. callStack # << >> /\ Depth \in Nat \ {0}
  BY EmptySeq DEF RunHasFrame, Running, Typed, Depth, FallOff, Proceeds
<1>2. callStack' \in Seq(Frame) /\ Depth' = Depth - 1
  BY <1>1, FrontOfSeq DEF FallOff, Typed, Depth
<1>3. callStack' = << >> <=> Depth = 1
  BY <1>1, <1>2, EmptySeq DEF Depth
<1>4. stepStartDepth \in Int /\ tryStack' \in Seq(TryEntry)
  BY DEF Typed, FallOff
<1> QED BY <1>1, <1>2, <1>3, <1>4 DEF FallOff, Left, Stop, Awaited, Running, Proceeds

\* An error goes to the frame of the handler entered last, or to the top frame
\* when that one is gone.
LEMMA ThrowLeaves ==
  ASSUME Typed, callStack # << >>, Running, Throw
  PROVE  Left
<1>0. Depth \in Nat \ {0}
  BY EmptySeq DEF Typed, Depth
<1>1. CASE tryStack = << >>
  BY <1>1 DEF Throw, Left, vm, Typed
<1>2. CASE tryStack # << >>
  <2> DEFINE entry == tryStack[Len(tryStack)]
             d     == IF entry.depth < Depth THEN entry.depth ELSE Depth
             kept  == SubSeq(callStack, 1, d)
  <2>1. Len(tryStack) \in Nat \ {0} /\ entry \in TryEntry
    BY <1>2, EmptySeq, ElementOfSeq DEF Typed
  <2>2. d \in 1..Depth /\ entry.target \in Nat \ {0}
    BY <2>1, <1>0 DEF TryEntry
  <2>3. tryStack' \in Seq(TryEntry)
    BY <1>2, FrontOfSeq DEF Throw, Typed
  <2>4. callStack' = [kept EXCEPT ![d].ip = entry.target]
    BY <1>2 DEF Throw
  <2> HIDE DEF d, entry
  <2>5. kept \in Seq(Frame) /\ Len(kept) = d
    <3>1. callStack \in Seq(Frame) /\ Len(callStack) = Depth
      BY DEF Typed, Depth
    <3> QED BY <3>1, <2>2, <1>0 DEF kept
  <2> HIDE DEF kept
  <2>6. kept[d] \in Frame
    BY <2>5, <2>2, ElementOfSeq
  <2>7. [kept[d] EXCEPT !.ip = entry.target] \in Frame
    BY <2>6, <2>2 DEF Frame
  <2>8. callStack' = [kept EXCEPT ![d] = [kept[d] EXCEPT !.ip = entry.target]]
    BY <2>4
  <2>9. callStack' \in Seq(Frame) /\ Len(callStack') = d
    BY <2>7, <2>8, <2>5, <2>2, ExceptSeq
  <2>10. callStack' # << >> /\ state' = "Running"
    BY <2>9, <2>2, <1>2, EmptySeq DEF Throw, Running
  <2> QED BY <2>3, <2>9, <2>10 DEF Left
<1> QED BY <1>1, <1>2

LEMMA EffectLeaves ==
  ASSUME Typed, RunHasFrame, Running, ~AtEnd, Effect
  PROVE  Left
<1>0. callStack # << >> /\ tryStack \in Seq(TryEntry) /\ Depth \in Nat \ {0}
  BY EmptySeq DEF RunHasFrame, Running, Typed, Depth
<1>1. CASE Plain
  BY <1>0, <1>1, InstrTyped, GotoIsFrames DEF Plain, Left, Running
<1>2. CASE Jump
  BY <1>0, <1>2, InstrTyped, GotoIsFrames DEF Jump, Left, Running
<1>3. CASE Call
  <2>1. Goto(Top.ip + 1) \in Seq(Frame)
    BY <1>0, InstrTyped, GotoIsFrames
  <2>2. [fn |-> Instr.to, ip |-> 1] \in Frame
    BY <1>0, <1>3, InstrTyped DEF Call, Frame
  <2> QED BY <1>0, <1>3, <2>1, <2>2, AppendProperties DEF Call, Left, Running
<1>4. CASE Return
  BY <1>4, PopLeaves DEF Return
<1>5. CASE Enter
  <2>1. [depth |-> Depth, target |-> Instr.to] \in TryEntry
    BY <1>0, <1>5, InstrTyped DEF Enter, TryEntry
  <2>2. tryStack' \in Seq(TryEntry)
    BY <1>0, <1>5, <2>1, AppendProperties DEF Enter
  <2> QED BY <1>0, <1>5, <2>2, InstrTyped, GotoIsFrames DEF Enter, Left, Running
<1>6. CASE LeaveTry
  <2>1. tryStack' \in Seq(TryEntry)
    BY <1>0, <1>6, FrontOfSeq DEF LeaveTry
  <2> QED BY <1>0, <1>6, <2>1, InstrTyped, GotoIsFrames DEF LeaveTry, Left, Running
<1>7. CASE Throw
  BY <1>0, <1>7, ThrowLeaves
<1> QED BY <1>1, <1>2, <1>3, <1>4, <1>5, <1>6, <1>7 DEF Effect

-----------------------------------------------------------------------------
(* The invariant is inductive.                                              *)

LEMMA InitDebugInv == Init => DebugInv
<1> SUFFICES ASSUME Init PROVE DebugInv
  OBVIOUS
<1> USE DEF Init
<1>1. Main \in DOMAIN Code
  BY DebugRunAssumption DEF Code
<1>2. callStack \in Seq(Frame) /\ callStack # << >>
  BY <1>1 DEF Frame
<1>3. tryStack \in Seq(TryEntry)
  OBVIOUS
<1>4. Typed
  BY <1>2, <1>3 DEF Typed
<1> QED BY <1>2, <1>4 DEF DebugInv, RunHasFrame, StepWaits, Reported, SkipKnown, StepEndsWhereAsked

\* What all steps that leave the program and the frames alone have in common.
LEMMA SameFrames ==
  ASSUME Typed, UNCHANGED <<program, callStack>>
  PROVE  /\ Here' = Here /\ Depth' = Depth /\ CurrentSourceLine' = CurrentSourceLine
         /\ StopOnEntry' = StopOnEntry /\ Frame' = Frame
  BY DEF Here, Depth, CurrentSourceLine, StopOnEntry, Frame, AtEnd, Body, Instr, Top, Code, At, FileOf

\* The line the debugger is at is a number.
LEMMA LineIsNat ==
  ASSUME Typed PROVE CurrentSourceLine \in Nat /\ Depth \in Nat
<1>1. Depth \in Nat
  BY LenProperties DEF Typed, Depth
<1>2. CASE callStack = << >>
  BY <1>1, <1>2 DEF CurrentSourceLine
<1>3. CASE callStack # << >> /\ ~AtEnd
  BY <1>1, <1>3, InstrTyped DEF CurrentSourceLine
<1>4. CASE callStack # << >> /\ AtEnd
  <2>1. Depth \in Nat \ {0} /\ Top \in Frame
    BY <1>4, EmptySeq, ElementOfSeq DEF Typed, Depth, Top
  <2>2. Top.fn \in DOMAIN Code /\ program \in DOMAIN Programs
    BY <2>1 DEF Frame, Typed
  <2>3. Len(Body) \in Nat /\ DOMAIN Body = 1..Len(Body)
    BY <2>2, DebugRunAssumption DEF Body, Code
  <2>4. \A i \in DOMAIN Body : Body[i].line \in Nat
    BY <2>2, DebugRunAssumption DEF Body, Code
  <2>5. Body # << >> => Len(Body) \in DOMAIN Body
    <3>1. Len(Body) = 0 => Body = << >>
      BY <2>3
    <3> QED BY <2>3, <3>1
  <2> QED BY <1>1, <1>4, <2>4, <2>5 DEF CurrentSourceLine
<1> QED BY <1>2, <1>3, <1>4

\* An instruction or the end of a function keeps the invariant, whatever it has
\* done to the frames.
LEMMA TurnKeeps ==
  ASSUME DebugInv, Proceeds, Left,
         UNCHANGED <<setup, command, stepStartDepth, stepStartLine, chunked, startLine,
                     startDepth>>,
         seen' = seen \/ seen' = Here, IsBreakpoint => seen' = Here
  PROVE  DebugInv'
<1>1. Typed'
  BY DEF DebugInv, Typed, Left, setup, Frame, TryEntry, Code
<1>2. RunHasFrame'
  BY DEF DebugInv, RunHasFrame, Left, Proceeds, Running
<1>3. StepWaits'
  BY DEF DebugInv, StepWaits, Proceeds, Running
<1>4. command # "none" /\ state' \in {"Running", "Paused", "Finished", "Dead"}
  BY DEF DebugInv, RunHasFrame, Proceeds, Running, Left
<1>5. Reported'
  BY <1>4 DEF Reported
<1>6. SkipKnown'
  <2>1. resumeSkip' # Nowhere => IsBreakpoint /\ resumeSkip' = Here
    BY DEF Proceeds
  <2> QED BY <2>1 DEF SkipKnown
<1>7. StepEndsWhereAsked'
  <2> SUFFICES ASSUME state' = "Paused", command' \in {"next", "stepOut"}
               PROVE  /\ command' = "next" => Depth' <= startDepth'
                      /\ command' = "stepOut" => Depth' < startDepth'
    BY DEF StepEndsWhereAsked
  <2>1. stepStartDepth = IF command = "next" THEN startDepth ELSE startDepth - 1
    BY DEF DebugInv, StepWaits, Proceeds, Running
  <2>2. Depth' <= stepStartDepth
    BY DEF Left
  <2>3. Depth' \in Nat /\ startDepth \in Nat
    BY <1>1, LenProperties DEF Typed, Depth, DebugInv
  <2> QED BY <2>1, <2>2, <2>3
<1> QED BY <1>1, <1>2, <1>3, <1>5, <1>6, <1>7 DEF DebugInv

\* A run that begins passes the line it begins on only when it was reported
\* before or the session starts there.
LEMMA BeginKeeps ==
  ASSUME DebugInv, Idle, NEW c, c # "none", Remember(c),
         NEW b, NEW d \in Int, Begin(b, d),
         c = "next" => d = Depth, c = "stepOut" => d = Depth - 1
  PROVE  DebugInv'
<1> USE DEF Remember, Idle
<1>0. Typed /\ UNCHANGED <<program, callStack, tryStack, seen>>
  BY DEF DebugInv, setup, vm
<1>1. CurrentSourceLine \in Nat /\ Depth \in Nat
  BY <1>0, LineIsNat
<1>2. Here' = Here /\ Depth' = Depth /\ StopOnEntry' = StopOnEntry /\ Frame' = Frame
  BY <1>0, SameFrames
<1>3. Typed'
  BY <1>0, <1>1, <1>2 DEF Typed, TryEntry, Begin, control
<1>4. CASE callStack = << >>
  <2>1. state' = "Finished" /\ callStack' = << >>
    BY <1>0, <1>4 DEF Begin
  <2> QED BY <1>3, <2>1 DEF DebugInv, RunHasFrame, StepWaits, Reported, SkipKnown, StepEndsWhereAsked
<1>5. CASE callStack # << >>
  <2>1. /\ state' = "Running" /\ stepStartDepth' = d
        /\ stepStartLine' = (IF d >= 0 THEN CurrentSourceLine ELSE 0)
        /\ resumeSkip' = (IF IsBreakpoint THEN Here ELSE Nowhere)
    BY <1>5 DEF Begin
  <2>2. Depth # 0
    BY <1>0, <1>5, EmptySeq DEF Typed, Depth
  <2>3. RunHasFrame'
    BY <1>0, <1>5, <2>1 DEF RunHasFrame
  <2>4. StepWaits'
    BY <1>1, <2>1, <2>2 DEF StepWaits
  <2>5. Reported' /\ StepEndsWhereAsked'
    BY <2>1 DEF Reported, StepEndsWhereAsked
  <2>6. SkipKnown'
    <3>1. Here # Nowhere => seen = Here \/ (~StopOnEntry /\ seen = Nowhere)
      <4>1. CASE state = "Paused" /\ command = "none"
        BY <4>1 DEF DebugInv, Reported
      <4>2. CASE state = "Init"
        BY <4>2 DEF DebugInv, Reported
      <4>3. state # "Finished"
        BY <1>5 DEF DebugInv, RunHasFrame
      <4> QED BY <4>1, <4>2, <4>3
    <3> QED BY <3>1, <2>1, <1>0, <1>2 DEF SkipKnown
  <2> QED BY <1>3, <2>3, <2>4, <2>5, <2>6 DEF DebugInv
<1> QED BY <1>4, <1>5

LEMMA RunLoopKeeps == ASSUME DebugInv, RunLoop PROVE DebugInv'
<1>1. CASE StopBudget
  <2>1. Typed /\ UNCHANGED <<program, callStack, tryStack>>
    BY <1>1 DEF DebugInv, setup, vm, StopBudget
  <2>2. Frame' = Frame
    BY <2>1, SameFrames
  <2>3. Typed'
    BY <1>1, <2>1, <2>2 DEF StopBudget, Typed, TryEntry, control, history
  <2> QED BY <1>1, <2>3 DEF DebugInv, StopBudget, Stop, Running, RunHasFrame, StepWaits, Reported,
               SkipKnown, StepEndsWhereAsked
<1>2. CASE StopBreakpoint
  <2>1. Typed /\ UNCHANGED <<program, callStack, tryStack>>
    BY <1>2 DEF DebugInv, setup, vm, StopBreakpoint
  <2>2. Frame' = Frame
    BY <2>1, SameFrames
  <2>3. Typed'
    BY <1>2, <2>1, <2>2 DEF StopBreakpoint, Typed, TryEntry, control
  <2> QED BY <1>2, <2>3 DEF DebugInv, StopBreakpoint, Stop, Running, RunHasFrame, StepWaits, Reported,
               SkipKnown, StepEndsWhereAsked
<1>3. CASE FallOff
  <2>1. Left /\ ~IsBreakpoint
    BY <1>3, FallOffLeaves DEF DebugInv, FallOff, IsBreakpoint, Here
  <2> QED BY <1>3, <2>1, TurnKeeps DEF FallOff, history
<1>4. CASE StopStep
  <2>1. Typed /\ UNCHANGED <<program, callStack, tryStack>>
    BY <1>4 DEF DebugInv, setup, vm, StopStep
  <2>2. Frame' = Frame /\ Depth' = Depth
    BY <2>1, SameFrames
  <2>3. Typed'
    BY <1>4, <2>1, <2>2 DEF StopStep, Typed, TryEntry
  <2>4. state' = "Paused" /\ command' = command /\ command # "none" /\ Depth <= stepStartDepth
    BY <1>4 DEF DebugInv, StopStep, Stop, StepReached, Proceeds, Running, RunHasFrame
  <2>5. StepEndsWhereAsked'
    <3> SUFFICES ASSUME command \in {"next", "stepOut"}
                 PROVE  /\ command = "next" => Depth <= startDepth
                        /\ command = "stepOut" => Depth < startDepth
      BY <1>4, <2>2 DEF StepEndsWhereAsked, StopStep
    <3>1. stepStartDepth = IF command = "next" THEN startDepth ELSE startDepth - 1
      BY <1>4 DEF DebugInv, StepWaits, StopStep, Proceeds, Running
    <3>2. Depth \in Nat /\ startDepth \in Nat
      BY <2>1, LineIsNat DEF Typed
    <3> QED BY <2>4, <3>1, <3>2
  <2> QED BY <2>3, <2>4, <2>5 DEF DebugInv, RunHasFrame, StepWaits, Reported, SkipKnown
<1>5. CASE Execute
  <2>1. Left
    BY <1>5, EffectLeaves DEF DebugInv, Execute, Proceeds
  <2>2. (seen' = seen \/ seen' = Here) /\ (IsBreakpoint => seen' = Here)
    BY <1>5 DEF Execute, IsBreakpoint
  <2> QED BY <1>5, <2>1, <2>2, TurnKeeps DEF Execute
<1> QED BY <1>1, <1>2, <1>3, <1>4, <1>5 DEF RunLoop

LEMMA CommandKeeps == ASSUME DebugInv, Command PROVE DebugInv'
<1>0. Depth \in Nat
  BY LineIsNat DEF DebugInv
<1>1. CASE Continue /\ Idle
  BY <1>1, BeginKeeps DEF Continue
<1>2. CASE StepInstruction /\ Idle
  BY <1>2, BeginKeeps DEF StepInstruction
<1>3. CASE StepEntry /\ Idle
  BY <1>3, BeginKeeps DEF StepEntry
<1>4. CASE StepOver /\ Idle
  BY <1>0, <1>4, BeginKeeps DEF StepOver
<1>5. CASE StepOut /\ Idle
  BY <1>0, <1>5, BeginKeeps DEF StepOut
<1> QED BY <1>1, <1>2, <1>3, <1>4, <1>5 DEF Command, Launch, Ask, Idle

LEMMA RestKeeps == ASSUME DebugInv, SetBreakpoints \/ NextChunk \/ Report PROVE DebugInv'
<1>1. CASE SetBreakpoints
  <2>1. Typed /\ UNCHANGED <<program, callStack, tryStack>>
    BY <1>1 DEF DebugInv, vm, SetBreakpoints
  <2>2. Here' = Here /\ Depth' = Depth /\ StopOnEntry' = StopOnEntry /\ Frame' = Frame
    BY <2>1, SameFrames
  <2>3. Typed'
    BY <1>1, <2>1, <2>2 DEF SetBreakpoints, Typed, TryEntry, control, history
  <2> QED BY <1>1, <2>1, <2>2, <2>3 DEF DebugInv, SetBreakpoints, control, history, RunHasFrame, StepWaits,
               Reported, SkipKnown, StepEndsWhereAsked
<1>2. CASE NextChunk
  <2>1. Typed /\ UNCHANGED <<program, callStack, tryStack>>
    BY <1>2 DEF DebugInv, setup, vm, NextChunk
  <2>2. Frame' = Frame
    BY <2>1, SameFrames
  <2>3. Typed'
    BY <1>2, <2>1, <2>2 DEF NextChunk, Begin, Typed, TryEntry, control
  <2>4. /\ command = "continue" /\ command' = "continue" /\ chunked'
        /\ \/ state' = "Finished" /\ callStack' = << >>
           \/ state' = "Running" /\ callStack' # << >>
    BY <1>2, <2>1 DEF NextChunk, Begin
  <2> QED BY <2>3, <2>4 DEF DebugInv, RunHasFrame, StepWaits, Reported, SkipKnown, StepEndsWhereAsked
<1>3. CASE Report
  <2>1. Typed /\ UNCHANGED <<program, callStack, tryStack>>
    BY <1>3 DEF DebugInv, setup, vm, Report
  <2>2. Here' = Here /\ Frame' = Frame
    BY <2>1, SameFrames
  <2>3. Typed'
    BY <1>3, <2>1, <2>2 DEF Report, Typed, TryEntry, control
  <2>4. state' = state /\ state' \notin {"Running", "Init"} /\ command' = "none"
    BY <1>3 DEF Report, DebugInv, Reported
  <2>5. Here' \in {Nowhere, seen'}
    BY <1>3, <2>2 DEF Report
  <2>6. RunHasFrame'
    BY <2>1, <2>4 DEF DebugInv, RunHasFrame
  <2> QED BY <2>3, <2>4, <2>5, <2>6 DEF DebugInv, StepWaits, Reported, SkipKnown,
               StepEndsWhereAsked
<1> QED BY <1>1, <1>2, <1>3

LEMMA StutterKeeps == ASSUME DebugInv, UNCHANGED vars PROVE DebugInv'
<1>1. Typed /\ UNCHANGED <<program, callStack, tryStack>>
  BY DEF DebugInv, vars, setup, vm
<1>2. Here' = Here /\ Depth' = Depth /\ StopOnEntry' = StopOnEntry /\ Frame' = Frame
  BY <1>1, SameFrames
<1>3. Typed'
  BY <1>1, <1>2 DEF vars, Typed, TryEntry, control, history
<1> QED BY <1>1, <1>2, <1>3 DEF DebugInv, vars, setup, control, history, RunHasFrame, StepWaits, Reported,
             SkipKnown, StepEndsWhereAsked

\* The invariant of debug execution, for every program, every order of commands
\* and every set of breakpoints.
THEOREM DebugInvariant == Spec => []DebugInv
<1>1. DebugInv /\ [Next]_vars => DebugInv'
  BY RunLoopKeeps, CommandKeeps, RestKeeps, StutterKeeps DEF Next
<1> QED BY InitDebugInv, <1>1, PTL DEF Spec

\* A step that is over has stopped in the frame it was given in or a caller, a
\* stepOut in a caller.
THEOREM StepsStopRight == Spec => []StepEndsWhereAsked
<1>1. DebugInv => StepEndsWhereAsked
  BY DEF DebugInv
<1> QED BY <1>1, DebugInvariant, PTL

-----------------------------------------------------------------------------
(* What a step may never do.                                                *)

\* Frames change when an instruction is executed or a function ends.
LEMMA WhoExecutes ==
  ASSUME [Next]_vars, Executes
  PROVE  Execute \/ FallOff
<1>2. CASE Command
  BY <1>2 DEF Command, Launch, Ask, Idle, Executes, Running
<1>3. CASE SetBreakpoints \/ NextChunk \/ Report
  BY <1>3 DEF SetBreakpoints, NextChunk, Report, Idle, Executes, Running
<1>4. CASE StopBudget \/ StopBreakpoint \/ StopStep
  BY <1>4 DEF StopBudget, StopBreakpoint, StopStep, vm, Executes
<1>5. CASE UNCHANGED vars
  BY <1>5 DEF vars, vm, Executes
<1> QED BY <1>2, <1>3, <1>4, <1>5 DEF Next, RunLoop

\* An instruction whose line would end the step under way is not executed.
LEMMA StepNotPassed ==
  ASSUME DebugInv, Execute, command \in {"next", "stepOut"}, startLine # 0,
         command = "next" => Depth <= startDepth, command = "stepOut" => Depth < startDepth
  PROVE  Instr.line \in {0, startLine}
<1>1. callStack # << >> /\ Typed /\ ~AtEnd /\ ~StepReached
  BY DEF DebugInv, Execute, Proceeds, Running, RunHasFrame
<1>2. Instr.line \in Nat /\ Depth \in Nat /\ startLine \in Nat /\ startDepth \in Nat
  BY <1>1, InstrTyped, LineIsNat DEF Typed
<1>3. /\ stepStartLine = startLine /\ startDepth # 0
      /\ stepStartDepth = IF command = "next" THEN startDepth ELSE startDepth - 1
  BY DEF DebugInv, StepWaits, Execute, Proceeds, Running
<1>4. stepStartLine > 0 /\ stepStartDepth >= 0 /\ Depth <= stepStartDepth
  BY <1>2, <1>3
<1> QED BY <1>1, <1>2, <1>3, <1>4 DEF StepReached

\* A breakpoint is not passed in silence in the first chunk of a run.
THEOREM BreakpointsHold == Spec => BreakpointHoldsInChunk
<1>1. ASSUME DebugInv, [Next]_vars, Executes, ~AtEnd, IsBreakpoint, ~chunked
      PROVE  seen = Here \/ (~StopOnEntry /\ seen = Nowhere)
  <2>1. Proceeds
    BY <1>1, WhoExecutes DEF Execute, FallOff
  <2>2. resumeSkip = Here /\ resumeSkip # Nowhere
    BY <1>1, <2>1 DEF Proceeds, IsBreakpoint
  <2> QED BY <1>1, <2>2 DEF DebugInv, SkipKnown, Executes, Running
<1>2. DebugInv /\ [Next]_vars =>
        [Executes /\ ~AtEnd /\ IsBreakpoint /\ ~chunked
           => seen = Here \/ (~StopOnEntry /\ seen = Nowhere)]_vars
  BY <1>1
<1> QED BY <1>2, DebugInvariant, PTL DEF Spec, BreakpointHoldsInChunk

\* A next does not run past the end of its line in its frame or a caller.
THEOREM NextHolds == Spec => NextStopsAtNextLine
<1>1. ASSUME DebugInv, [Next]_vars, Executes, command = "next", startLine # 0, ~AtEnd,
             Depth <= startDepth
      PROVE  Instr.line \in {0, startLine}
  <2>1. Execute
    BY <1>1, WhoExecutes DEF FallOff
  <2> QED BY <1>1, <2>1, StepNotPassed
<1>2. DebugInv /\ [Next]_vars =>
        [Executes /\ command = "next" /\ startLine # 0 /\ ~AtEnd /\ Depth <= startDepth
           => Instr.line \in {0, startLine}]_vars
  BY <1>1
<1> QED BY <1>2, DebugInvariant, PTL DEF Spec, NextStopsAtNextLine

\* A step that began without a line is over when a return, or the end of a
\* function, goes to a caller.
LEMMA ReturnEndsStep ==
  ASSUME DebugInv, [Next]_vars, Executes, command = "stepOut", startLine = 0,
         Depth' < Depth, Depth' < startDepth, UNCHANGED tryStack
  PROVE  state' # "Running"
<1>1. /\ stepStartLine = 0 /\ stepStartDepth = startDepth - 1 /\ startDepth # 0
      /\ callStack # << >> /\ Typed /\ Running
  BY DEF DebugInv, StepWaits, Executes, Running, RunHasFrame
<1>2. startDepth \in Nat /\ Depth \in Nat \ {0}
  BY <1>1, EmptySeq DEF Typed, Depth
<1>3. Depth' = Depth - 1 => Awaited
  BY <1>1, <1>2 DEF Awaited
<1>4. SubSeq(callStack, 1, Depth - 1) \in Seq(Frame) /\ Len(SubSeq(callStack, 1, Depth - 1)) = Depth - 1
  BY <1>1, FrontOfSeq DEF Typed, Depth
<1>5. CASE FallOff
  <2>1. Depth' = Depth - 1
    BY <1>4, <1>5 DEF FallOff, Depth
  <2> QED BY <1>3, <1>5, <2>1 DEF FallOff, Stop
<1>6. CASE Execute
  <2>1. CASE Return
    <3>1. Depth' = Depth - 1
      BY <1>4, <2>1 DEF Return, PopFrame, Depth
    <3> QED BY <1>3, <2>1, <3>1 DEF Return, PopFrame, Stop
  <2>2. CASE Throw
    <3>1. tryStack # << >> => Len(SubSeq(tryStack, 1, Len(tryStack) - 1)) = Len(tryStack) - 1
      BY <1>1, FrontOfSeq DEF Typed
    <3>2. Len(tryStack) \in Nat
      BY <1>1, LenProperties DEF Typed
    <3>3. tryStack = << >>
      BY <2>2, <3>1, <3>2 DEF Throw
    <3> QED BY <2>2, <3>3 DEF Throw
  <2>3. \A i \in Nat \ {0} : Len(Goto(i)) = Depth /\ Goto(i) \in Seq(Frame)
    BY <1>1, GotoIsFrames
  <2>4. Top.ip + 1 \in Nat \ {0} /\ (Instr.op \in {"jump", "branch", "enter"} => Instr.to \in Nat \ {0})
    BY <1>1, <1>6, InstrTyped DEF Execute
  <2>5. CASE Plain \/ Jump \/ Enter \/ LeaveTry
    <3>1. \E i \in Nat \ {0} : callStack' = Goto(i)
      <4>1. CASE Plain \/ LeaveTry
        BY <2>4, <4>1 DEF Plain, LeaveTry
      <4>2. CASE Jump
        BY <2>4, <4>2 DEF Jump
      <4>3. CASE Enter
        BY <2>4, <4>3 DEF Enter
      <4> QED BY <2>5, <4>1, <4>2, <4>3
    <3>2. Depth' = Depth
      BY <2>3, <3>1 DEF Depth
    <3> QED BY <3>2, <1>2
  <2>6. CASE Call
    <3>1. Len(Append(Goto(Top.ip + 1), [fn |-> Instr.to, ip |-> 1])) = Depth + 1
      <4>1. [fn |-> Instr.to, ip |-> 1] \in Frame
        BY <1>1, <1>6, <2>6, InstrTyped DEF Call, Frame, Execute
      <4> QED BY <2>3, <2>4, <4>1, AppendProperties
    <3> QED BY <2>6, <3>1, <1>2 DEF Call, Depth
  <2> QED BY <1>6, <2>1, <2>2, <2>5, <2>6 DEF Execute, Effect
<1> QED BY <1>5, <1>6, WhoExecutes

\* A stepOut does not run past a line of a caller.
THEOREM StepOutHolds == Spec => StepOutStopsInCaller
<1>1. ASSUME DebugInv, [Next]_vars, Executes, command = "stepOut", startLine # 0, ~AtEnd,
             Depth < startDepth
      PROVE  Instr.line \in {0, startLine}
  <2>1. Execute
    BY <1>1, WhoExecutes DEF FallOff
  <2> QED BY <1>1, <2>1, StepNotPassed
<1>2. DebugInv /\ [Next]_vars =>
        [Executes /\ command = "stepOut" =>
           /\ startLine # 0 /\ ~AtEnd /\ Depth < startDepth => Instr.line \in {0, startLine}
           /\ startLine = 0 /\ Depth' < Depth /\ Depth' < startDepth /\ UNCHANGED tryStack
                => state' # "Running"]_vars
  BY <1>1, ReturnEndsStep
<1> QED BY <1>2, DebugInvariant, PTL DEF Spec, StepOutStopsInCaller
=============================================================================
