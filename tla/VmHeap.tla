------------------------------- MODULE VmHeap -------------------------------
(***************************************************************************)
(* The heap of the bytecode VM and its incremental tricolour collector:    *)
(* Heap, markObject, drainGrey, sweep, writeBarrier (vm/object.hpp, .cpp)  *)
(* and Interpreter::maybeCollect with every instruction that creates,      *)
(* copies, stores or drops a reference (src/src/vm/interpreter.cpp,        *)
(* src/src/data/array.cpp).                                                *)
(*                                                                         *)
(* One turn of the interpreter loop is: the safepoint ("fetch"), which may *)
(* mark the roots, scan ("drain") and sweep; then one instruction          *)
(* ("exec").  Values other than references are all NoRef.                  *)
(***************************************************************************)
EXTENDS Integers, Sequences

CONSTANTS
  Obj,            \* addresses of heap objects; a freed address is reused
  NoRef,          \* any value that is not a reference
  Slot,           \* slots of a call frame
  Global,         \* slots of globalSlots_
  Cell,           \* fields of a struct, element positions of a Ref array
  InitThreshold,  \* gcInitialThreshold_ (--gc-threshold); <= 0 disables
  Budget,         \* kGCBudgetPerStep
  MaxDepth        \* bound on Len(callStack); the VM has none

ASSUME VmHeapAssumption ==
  /\ NoRef \notin Obj
  /\ InitThreshold \in Int
  /\ Budget \in Nat \ {0}
  /\ MaxDepth \in Nat \ {0}

VARIABLES
  globals,     \* globalSlots_
  callStack,   \* callStack_, the last frame is the running one
  list,        \* Heap::head and the next links, newest object first
  cell,        \* contents of the objects
  markState,   \* Object::markState
  marked,      \* Object::marked
  cycle,       \* gcCycleActive_
  threshold,   \* gcThreshold_
  phase,       \* where the interpreter loop is
  cursor,      \* the position drainGrey or sweep has reached in list
  processed    \* drainGrey's count of scanned objects

progVars == <<globals, callStack, cell>>
markVars == <<markState, marked>>
gcVars   == <<cycle, threshold, cursor, processed>>
vars     == <<globals, callStack, list, cell, markState, marked,
              cycle, threshold, phase, cursor, processed>>

Value == Obj \cup {NoRef}
Frame == [Slot -> Value]

Heap == {list[i] : i \in 1..Len(list)}
allocCount == Len(list)

Top == callStack[Len(callStack)]

\* Everything markSlots visits: the globals and every frame of the stack.
RootValues ==
  {globals[g] : g \in Global}
    \cup {callStack[i][s] : i \in 1..Len(callStack), s \in Slot}

Roots == RootValues \ {NoRef}

TypeOK ==
  /\ globals \in [Global -> Value]
  /\ callStack \in Seq(Frame)
  /\ list \in Seq(Obj)
  /\ cell \in [Obj -> [Cell -> Value]]
  /\ markState \in [Obj -> {"White", "Grey", "Black"}]
  /\ marked \in [Obj -> BOOLEAN]
  /\ cycle \in BOOLEAN
  /\ threshold \in Int
  /\ phase \in {"fetch", "drain", "sweep", "exec", "done"}
  /\ cursor \in Nat
  /\ processed \in Nat

Init ==
  /\ globals = [g \in Global |-> NoRef]
  /\ callStack = << [s \in Slot |-> NoRef] >>
  /\ list = << >>
  /\ cell = [o \in Obj |-> [c \in Cell |-> NoRef]]
  /\ markState = [o \in Obj |-> "White"]
  /\ marked = [o \in Obj |-> FALSE]
  /\ cycle = FALSE
  /\ threshold = InitThreshold
  /\ phase = "fetch"
  /\ cursor = 1
  /\ processed = 0

-----------------------------------------------------------------------------
(* The safepoint: Interpreter::maybeCollect.                               *)

\* markObject on every member of S: only White objects change.
MarkAll(S) ==
  /\ markState' = [o \in Obj |->
       IF o \in S /\ markState[o] = "White" THEN "Grey" ELSE markState[o]]
  /\ marked' = [o \in Obj |->
       marked[o] \/ (o \in S /\ markState[o] = "White")]

AtThreshold == threshold > 0 /\ allocCount >= threshold

\* Below the threshold: go on with the instruction, or, if a cycle is under
\* way, scan on without marking the roots.
BelowThreshold ==
  /\ phase = "fetch"
  /\ ~AtThreshold
  /\ phase' = IF cycle THEN "drain" ELSE "exec"
  /\ cursor' = 1 /\ processed' = 0
  /\ UNCHANGED <<progVars, list, markVars, cycle, threshold>>

\* Mutant of MarkRoots: the roots are marked at the start of a cycle only.
MarkRootsOnce ==
  /\ phase = "fetch"
  /\ AtThreshold
  /\ MarkAll(IF cycle THEN {} ELSE Roots)
  /\ cycle' = TRUE
  /\ phase' = "drain" /\ cursor' = 1 /\ processed' = 0
  /\ UNCHANGED <<progVars, list, threshold>>

\* Mutant of MarkRoots: only the globals and the running frame are marked.
MarkRootsOfTop ==
  /\ phase = "fetch"
  /\ AtThreshold
  /\ MarkAll(({globals[g] : g \in Global} \cup {Top[s] : s \in Slot}) \ {NoRef})
  /\ cycle' = TRUE
  /\ phase' = "drain" /\ cursor' = 1 /\ processed' = 0
  /\ UNCHANGED <<progVars, list, threshold>>

\* Mutant of MarkRoots: the globals are not marked.
MarkRootsOfFrames ==
  /\ phase = "fetch"
  /\ AtThreshold
  /\ MarkAll({callStack[i][s] : i \in 1..Len(callStack), s \in Slot} \ {NoRef})
  /\ cycle' = TRUE
  /\ phase' = "drain" /\ cursor' = 1 /\ processed' = 0
  /\ UNCHANGED <<progVars, list, threshold>>

\* At the threshold: mark the roots (again, if a cycle is under way).
MarkRoots ==
  /\ phase = "fetch"
  /\ AtThreshold
  /\ MarkAll(Roots)
  /\ cycle' = TRUE
  /\ phase' = "drain" /\ cursor' = 1 /\ processed' = 0
  /\ UNCHANGED <<progVars, list, threshold>>

GreyFrom(k) == {i \in k..Len(list) : markState[list[i]] = "Grey"}

\* drainGrey finds the next Grey object in the list and blackens it.
ScanObject ==
  /\ phase = "drain"
  /\ processed < Budget
  /\ \E i \in GreyFrom(cursor) :
       /\ \A j \in GreyFrom(cursor) : i <= j
       /\ LET o == list[i]
              kids == {cell[o][c] : c \in Cell}
              paint(p) == p \in kids /\ markState[p] = "White"
          IN  /\ markState' = [p \in Obj |->
                   IF p = o THEN "Black"
                   ELSE IF paint(p) THEN "Grey" ELSE markState[p]]
              /\ marked' = [p \in Obj |-> marked[p] \/ paint(p)]
       /\ cursor' = i + 1
  /\ processed' = processed + 1
  /\ UNCHANGED <<progVars, list, cycle, threshold, phase>>

DrainOver ==
  /\ phase = "drain"
  /\ processed >= Budget \/ GreyFrom(cursor) = {}

\* The pass scanned something: the cycle goes on at the next safepoint.
YieldToProgram ==
  /\ DrainOver
  /\ processed > 0
  /\ phase' = "exec"
  /\ UNCHANGED <<progVars, list, markVars, gcVars>>

\* The pass found no Grey object: sweep now.
StartSweep ==
  /\ DrainOver
  /\ processed = 0
  /\ phase' = "sweep" /\ cursor' = 1
  /\ UNCHANGED <<progVars, list, markVars, cycle, threshold, processed>>

\* Mutant of SweepKeep: `marked` survives the sweep.
SweepKeepMarked ==
  /\ phase = "sweep" /\ cursor <= Len(list)
  /\ marked[list[cursor]]
  /\ markState' = [markState EXCEPT ![list[cursor]] = "White"]
  /\ cursor' = cursor + 1
  /\ UNCHANGED <<progVars, list, marked, cycle, threshold, phase, processed>>

\* One turn of Heap::sweep on a marked object: unmark it and keep it.
SweepKeep ==
  /\ phase = "sweep" /\ cursor <= Len(list)
  /\ LET o == list[cursor]
     IN  /\ marked[o]
         /\ markState' = [markState EXCEPT ![o] = "White"]
         /\ marked' = [marked EXCEPT ![o] = FALSE]
  /\ cursor' = cursor + 1
  /\ UNCHANGED <<progVars, list, cycle, threshold, phase, processed>>

\* The list without its k-th element.
Unlink(k) ==
  [i \in 1..(Len(list) - 1) |-> IF i < k THEN list[i] ELSE list[i + 1]]

\* One turn of Heap::sweep on an unmarked object: unlink and delete it.
SweepFree ==
  /\ phase = "sweep" /\ cursor <= Len(list)
  /\ LET o == list[cursor]
     IN  /\ ~marked[o]
         /\ markState' = [markState EXCEPT ![o] = "White"]
  /\ list' = Unlink(cursor)
  /\ UNCHANGED <<progVars, marked, cycle, threshold, phase, cursor, processed>>

\* Mutant of EndSweep: the cycle is left active.
EndSweepActive ==
  /\ phase = "sweep" /\ cursor > Len(list)
  /\ threshold' = IF InitThreshold > 2 * allocCount
                    THEN InitThreshold ELSE 2 * allocCount
  /\ phase' = "exec"
  /\ UNCHANGED <<progVars, list, markVars, cycle, cursor, processed>>

\* The sweep is over: a new threshold, and the instruction may run.
EndSweep ==
  /\ phase = "sweep" /\ cursor > Len(list)
  /\ cycle' = FALSE
  /\ threshold' = IF InitThreshold > 2 * allocCount
                    THEN InitThreshold ELSE 2 * allocCount
  /\ phase' = "exec"
  /\ UNCHANGED <<progVars, list, markVars, cursor, processed>>

Safepoint ==
  \/ BelowThreshold \/ MarkRoots
  \/ ScanObject \/ YieldToProgram
  \/ StartSweep \/ SweepKeep \/ SweepFree \/ EndSweep

-----------------------------------------------------------------------------
(* The instructions.  Each runs to its end before the next safepoint.      *)

Executed ==
  /\ phase = "exec"
  /\ phase' = "fetch"
  /\ UNCHANGED gcVars

SetSlot(s, v) ==
  callStack' = [callStack EXCEPT ![Len(callStack)] = [@ EXCEPT ![s] = v]]

\* A new object: linked at the head of the list, White, unmarked.
NewObject(o, contents) ==
  /\ o \in Obj \ Heap
  /\ list' = <<o>> \o list
  /\ cell' = [cell EXCEPT ![o] = contents]
  /\ markState' = [markState EXCEPT ![o] = "White"]
  /\ marked' = [marked EXCEPT ![o] = FALSE]

\* STRUCT_NEW, ARRAY_NEW and host functions that return a new array.
Alloc(s) ==
  /\ Executed
  /\ \E o \in Obj : NewObject(o, [c \in Cell |-> NoRef]) /\ SetSlot(s, o)
  /\ UNCHANGED globals

\* slice and concat: a new array filled, by pushElem, from existing ones.
AllocCopy(s, a, b) ==
  /\ Executed
  /\ Top[a] # NoRef /\ Top[b] # NoRef
  /\ \E o \in Obj, contents \in [Cell -> Value] :
       /\ \A c \in Cell :
            contents[c] \in {NoRef} \cup {cell[Top[a]][d] : d \in Cell}
                                    \cup {cell[Top[b]][d] : d \in Cell}
       /\ NewObject(o, contents)
       /\ SetSlot(s, o)
  /\ UNCHANGED globals

\* LOAD_CONST and every instruction whose result is not a reference.
LoadConst(s) ==
  /\ Executed
  /\ SetSlot(s, NoRef)
  /\ UNCHANGED <<globals, list, cell, markVars>>

\* LOAD_SLOT.
LoadSlot(d, s) ==
  /\ Executed
  /\ SetSlot(d, Top[s])
  /\ UNCHANGED <<globals, list, cell, markVars>>

\* LOAD_GLOBAL.
LoadGlobal(d, g) ==
  /\ Executed
  /\ SetSlot(d, globals[g])
  /\ UNCHANGED <<globals, list, cell, markVars>>

\* STORE_GLOBAL.
StoreGlobal(g, s) ==
  /\ Executed
  /\ globals' = [globals EXCEPT ![g] = Top[s]]
  /\ UNCHANGED <<callStack, list, cell, markVars>>

\* FIELD_GET and ARRAY_GET.
GetCell(d, s, c) ==
  /\ Executed
  /\ Top[s] # NoRef
  /\ SetSlot(d, cell[Top[s]][c])
  /\ UNCHANGED <<globals, list, cell, markVars>>

\* Mutant of WriteBarrier: any store greys a Black target.
WriteBarrierEager(t, v) ==
  markState' = IF markState[t] = "Black"
                 THEN [markState EXCEPT ![t] = "Grey"] ELSE markState

\* writeBarrier(target, newRef): a Black target of a White reference greys.
WriteBarrier(t, v) ==
  markState' = IF v # NoRef /\ markState[t] = "Black" /\ markState[v] = "White"
                 THEN [markState EXCEPT ![t] = "Grey"] ELSE markState

\* FIELD_SET and ARRAY_SET: the barrier, then the store.
SetCell(t, c, s) ==
  /\ Executed
  /\ Top[t] # NoRef
  /\ WriteBarrier(Top[t], Top[s])
  /\ cell' = [cell EXCEPT ![Top[t]] = [@ EXCEPT ![c] = Top[s]]]
  /\ UNCHANGED <<globals, callStack, list, marked>>

\* push and insert: the store alone, no barrier.
PushElem(t, c, s) ==
  /\ Executed
  /\ Top[t] # NoRef
  /\ cell[Top[t]][c] = NoRef
  /\ cell' = [cell EXCEPT ![Top[t]] = [@ EXCEPT ![c] = Top[s]]]
  /\ UNCHANGED <<globals, callStack, list, markVars>>

\* pop and remove: the element moves from the array to the result slot.
TakeElem(d, t, c) ==
  /\ Executed
  /\ Top[t] # NoRef
  /\ cell' = [cell EXCEPT ![Top[t]] = [@ EXCEPT ![c] = NoRef]]
  /\ SetSlot(d, cell[Top[t]][c])
  /\ UNCHANGED <<globals, list, markVars>>

\* clear: the array drops every element.
ClearArray(t) ==
  /\ Executed
  /\ Top[t] # NoRef
  /\ cell' = [cell EXCEPT ![Top[t]] = [c \in Cell |-> NoRef]]
  /\ UNCHANGED <<globals, callStack, list, markVars>>

\* CALL: the callee's slots hold arguments copied from the caller, or 0.
Call ==
  /\ Executed
  /\ Len(callStack) < MaxDepth
  /\ \E f \in Frame :
       /\ \A s \in Slot : f[s] \in {NoRef} \cup {Top[a] : a \in Slot}
       /\ callStack' = Append(callStack, f)
  /\ UNCHANGED <<globals, list, cell, markVars>>

\* The stack cut to depth k, with v written into slot s of its last frame.
UnwindTo(k, s, v) ==
  [i \in 1..k |-> IF i = k THEN [callStack[k] EXCEPT ![s] = v]
                           ELSE callStack[i]]

\* RETURN: the value goes to slot d of the caller.  Only the first frame has no
\* such slot (returnDestSlot -1): every CALL is generated with one.
Return(d, s) ==
  /\ Executed
  /\ Len(callStack) > 1
  /\ callStack' = UnwindTo(Len(callStack) - 1, d, Top[s])
  /\ UNCHANGED <<globals, list, cell, markVars>>

\* The end of a function without RETURN: the caller's slot gets 0.
FallOff(d) ==
  /\ Executed
  /\ Len(callStack) > 1
  /\ callStack' = UnwindTo(Len(callStack) - 1, d, NoRef)
  /\ UNCHANGED <<globals, list, cell, markVars>>

\* THROW of a struct: the trace overwrites its fourth field, if it has one;
\* then unwind to the catching frame k and bind the error there.
ThrowStruct(k, d, s) ==
  /\ Executed
  /\ Top[s] # NoRef
  /\ \/ cell' = cell
     \/ \E c \in Cell : cell' = [cell EXCEPT ![Top[s]] = [@ EXCEPT ![c] = NoRef]]
  /\ callStack' = UnwindTo(k, d, Top[s])
  /\ UNCHANGED <<globals, list, markVars>>

\* THROW of another value, or a runtime error: makeErrorValue allocates the
\* Error, which is bound in the catching frame in the same instruction.
ThrowNew(k, d) ==
  /\ Executed
  /\ \E o \in Obj :
       /\ NewObject(o, [c \in Cell |-> NoRef])
       /\ callStack' = UnwindTo(k, d, o)
  /\ UNCHANGED globals

\* main returns, or an error nobody catches leaves the interpreter.
Finish ==
  /\ phase = "exec"
  /\ phase' = "done"
  /\ UNCHANGED <<progVars, list, markVars, gcVars>>

Instruction ==
  \/ \E s \in Slot : Alloc(s) \/ LoadConst(s)
  \/ \E s, a, b \in Slot : AllocCopy(s, a, b)
  \/ \E d, s \in Slot : LoadSlot(d, s) \/ Return(d, s)
  \/ \E d \in Slot, g \in Global : LoadGlobal(d, g) \/ StoreGlobal(g, d)
  \/ \E d, s \in Slot, c \in Cell :
       GetCell(d, s, c) \/ SetCell(d, c, s) \/ PushElem(d, c, s)
         \/ TakeElem(d, s, c)
  \/ \E t \in Slot : ClearArray(t) \/ FallOff(t)
  \/ Call
  \/ \E k \in 1..Len(callStack), d, s \in Slot :
       ThrowStruct(k, d, s) \/ ThrowNew(k, d)
  \/ Finish

\* The run is over; the process exits.
Done == phase = "done" /\ UNCHANGED vars

Next == Safepoint \/ Instruction \/ Done

Spec == Init /\ [][Next]_vars

(***************************************************************************)
(* The interpreter loop is the only thread: it keeps running until main    *)
(* returns.  Nothing more is assumed, in particular not that the program   *)
(* stops allocating: between two safepoints of a cycle it may allocate as  *)
(* long as an address of Obj is free.  Only the sweep frees addresses, so  *)
(* Obj bounds what one cycle can see born.  It stands for the memory of    *)
(* the process; Heap itself has no limit.                                  *)
(***************************************************************************)
FairSpec == Spec /\ WF_vars(Next)

-----------------------------------------------------------------------------
(* Properties.                                                             *)

(***************************************************************************)
(* The tricolour invariant, without help from the barrier: as long as the  *)
(* mark phase lasts no scanned object holds one the collector has not      *)
(* seen.  It rests on the roots being marked again at every safepoint of   *)
(* the cycle, so that nothing White is ever at hand to be stored.          *)
(***************************************************************************)
Tricolour ==
  phase # "sweep" =>
    \A o \in Heap, c \in Cell :
      markState[o] = "Black" /\ cell[o][c] # NoRef
        => markState[cell[o][c]] # "White"

(***************************************************************************)
(* Scanning goes by markState, sweeping by marked: the two flags of every  *)
(* object on the heap must tell the same story whenever the program runs,  *)
(* or sweep deletes what drainGrey has scanned.                            *)
(***************************************************************************)
FlagsAgree ==
  \A o \in Heap : phase # "sweep" => (marked[o] <=> markState[o] # "White")

(***************************************************************************)
(* Inside a cycle the heap never falls below the threshold, so the         *)
(* branch of maybeCollect that scans without marking the roots again       *)
(* (interpreter.cpp, "cycle devam ediyorsa") is never taken; taking it     *)
(* would let a reference escape the marking.                               *)
(***************************************************************************)
CycleKeepsThreshold == phase # "sweep" /\ cycle => AtThreshold

(***************************************************************************)
(* A collection makes room: whenever an instruction runs outside a cycle   *)
(* the heap is below the new threshold, so two collections never follow    *)
(* each other without an allocation in between.                            *)
(***************************************************************************)
SweepMakesRoom == phase = "exec" /\ ~cycle => ~AtThreshold

\* The heap as the program sees it; the collector must implement Memory.
Abstract == INSTANCE Memory WITH heap <- Heap, roots <- Roots

(***************************************************************************)
(* No dangling reference: whatever the program can reach from a global or  *)
(* a frame has not been deleted, although push and insert skip the write   *)
(* barrier (data/array.cpp) and a cycle is spread over many instructions.  *)
(***************************************************************************)
NoDangling == Abstract!Reachable \subseteq Heap

(***************************************************************************)
(* The program sees a store that only ever loses objects it cannot reach:  *)
(* every step of the VM is a step of Memory or changes nothing there.      *)
(***************************************************************************)
ImplementsMemory == Abstract!Spec

(***************************************************************************)
(* A collection that has begun ends, unless the program ends first.  The   *)
(* program may rewrite the graph meanwhile and allocate as long as there   *)
(* are addresses: each newborn is greyed by the next marking of the roots  *)
(* and puts the sweep off once (maybeCollect).                             *)
(***************************************************************************)
CycleEnds == cycle ~> (~cycle \/ phase = "done")

(***************************************************************************)
(* While a collection marks, a scanned object stays scanned and on the     *)
(* heap, whatever the program stores, and a pass that puts the sweep off   *)
(* has scanned an object more.  The sweep is therefore put off at most     *)
(* once for each object, those allocated meanwhile included                *)
(* (maybeCollect, drainGrey, writeBarrier).                                *)
(***************************************************************************)
Scanned == {o \in Heap : markState[o] = "Black"}

Marking == cycle /\ phase # "sweep"

MarkingAdvances ==
  [][Marking /\ Marking' =>
       /\ Scanned \subseteq Scanned'
       /\ processed' > processed => Scanned # Scanned']_vars

(***************************************************************************)
(* While a cycle runs, an object that neither the program nor an object    *)
(* already seen leads to is deleted by that cycle's sweep, unless the      *)
(* program ends first.  (Garbage an object already seen leads to survives  *)
(* until the next cycle.)                                                  *)
(***************************************************************************)
Doomed ==
  Heap \ Abstract!ReachFrom(Roots \cup {o \in Heap : markState[o] # "White"})

GarbageFreed ==
  \A o \in Obj :
    (cycle /\ phase # "sweep" /\ o \in Doomed) ~> (o \notin Heap \/ phase = "done")

-----------------------------------------------------------------------------
(* The inductive invariant behind NoDangling and ImplementsMemory.         *)

\* No object is linked twice.
ListInjective ==
  \A i, j \in 1..Len(list) : list[i] = list[j] => i = j

\* Nothing on the heap, not even garbage, refers to a deleted object.
HeapClosed ==
  phase # "sweep" =>
    /\ Roots \subseteq Heap
    /\ \A o \in Heap, c \in Cell : cell[o][c] \in Heap \cup {NoRef}

\* Between cycles every object is White.
AllWhiteOutsideCycle ==
  ~cycle => /\ phase \notin {"drain", "sweep"}
            /\ \A o \in Heap : markState[o] = "White"

\* Inside a cycle no instruction ever holds a White object.
RootsSeen ==
  cycle /\ phase \in {"drain", "exec"} =>
    \A r \in Roots : markState[r] # "White"

\* A pass that has scanned nothing is still at the head of the list.
PassStart ==
  /\ cursor >= 1
  /\ phase = "drain" /\ processed = 0 => cursor = 1

\* What the sweep under way has kept or will keep.
Survivor(o) ==
  \E i \in 1..Len(list) : list[i] = o /\ (i < cursor \/ marked[o])

\* The survivors hold everything the program can reach; those the sweep has
\* passed are clean again.
SweepSound ==
  phase = "sweep" =>
    /\ \A r \in Roots : Survivor(r)
    /\ \A o \in Obj, c \in Cell :
         Survivor(o) /\ cell[o][c] # NoRef => Survivor(cell[o][c])
    /\ \A i \in 1..Len(list) :
         i < cursor => markState[list[i]] = "White" /\ ~marked[list[i]]

(***************************************************************************)
(* The invariant that every step of the VM preserves; it says why an       *)
(* object the sweep deletes cannot be reached.                             *)
(***************************************************************************)
IInv ==
  /\ TypeOK
  /\ callStack # << >>
  /\ ListInjective
  /\ HeapClosed
  /\ Tricolour
  /\ FlagsAgree
  /\ CycleKeepsThreshold
  /\ AllWhiteOutsideCycle
  /\ RootsSeen
  /\ PassStart
  /\ SweepSound
=============================================================================
