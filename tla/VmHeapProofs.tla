---------------------------- MODULE VmHeapProofs ----------------------------
(***************************************************************************)
(* Proofs about VmHeap for every set of addresses, slots, globals and      *)
(* cells, every budget and every threshold: the invariant IInv, hence      *)
(* NoDangling, Tricolour and the rest, and that VmHeap implements Memory.  *)
(*                                                                         *)
(* All instructions are first summarised by one action, ProgramEffect;     *)
(* each instruction is shown to be such an effect, and the invariant and   *)
(* the refinement are proved for the effect.                               *)
(***************************************************************************)
EXTENDS VmHeap, TLAPS

(* What an instruction may do to the memory. *)
ProgramEffect ==
  /\ phase = "exec" /\ phase' = "fetch"
  /\ UNCHANGED gcVars
  /\ TypeOK' /\ callStack' # << >>
  /\ \/ list' = list /\ Roots' \subseteq Roots \cup Abstract!HeldIn(Roots)
     \/ \E o \in Obj \ Heap :
          /\ list' = <<o>> \o list
          /\ Roots' \subseteq Roots \cup {o}
          /\ markState'[o] = "White" /\ ~marked'[o]
          /\ \A c \in Cell : cell'[o][c] \in {NoRef} \cup Abstract!HeldIn(Roots)
  /\ \A p \in Heap, c \in Cell :
       cell'[p][c] = cell[p][c] \/ (p \in Roots /\ cell'[p][c] \in Roots \cup {NoRef})
  /\ \A p \in Heap : marked'[p] = marked[p]
  /\ \A p \in Heap : markState'[p] = markState[p]
                       \/ (markState[p] = "Black" /\ markState'[p] = "Grey")

-----------------------------------------------------------------------------
(* Roots after an instruction.                                             *)

\* The running frame's slots hold roots or nothing.
LEMMA TopHoldsRoots ==
  ASSUME TypeOK, callStack # << >>, NEW s \in Slot
  PROVE  /\ Len(callStack) \in 1..Len(callStack)
         /\ Top \in Frame
         /\ Top[s] \in Value
         /\ Top[s] # NoRef => Top[s] \in Roots /\ Top[s] \in Obj
<1>1. Len(callStack) \in 1..Len(callStack)
  BY DEF TypeOK
<1>2. Top \in Frame
  BY <1>1 DEF TypeOK, Top
<1>3. Top[s] \in Value
  BY <1>2 DEF Frame
<1>4. Top[s] \in RootValues
  BY <1>1 DEF RootValues, Top
<1>5. QED
  BY <1>1, <1>2, <1>3, <1>4 DEF Roots, Value

\* Writing v into a slot of the running frame adds at most v to the roots.
LEMMA SetSlotRoots ==
  ASSUME TypeOK, callStack # << >>, NEW s \in Slot, NEW v \in Value,
         SetSlot(s, v), globals' = globals
  PROVE  /\ callStack' \in Seq(Frame) /\ callStack' # << >>
         /\ Roots' \subseteq Roots \cup ({v} \ {NoRef})
<1>1. Len(callStack) \in 1..Len(callStack) /\ Top \in Frame
  BY TopHoldsRoots
<1>2. [Top EXCEPT ![s] = v] \in Frame
  BY <1>1 DEF Frame
<1>3. callStack' = [callStack EXCEPT ![Len(callStack)] = [Top EXCEPT ![s] = v]]
  BY DEF SetSlot, Top
<1>4. callStack' \in Seq(Frame) /\ Len(callStack') = Len(callStack)
  BY <1>1, <1>2, <1>3 DEF TypeOK
<1>5. ASSUME NEW r \in Roots' PROVE r \in Roots \cup ({v} \ {NoRef})
  <2>1. CASE \E g \in Global : r = globals'[g]
    BY <2>1, <1>5 DEF Roots, RootValues
  <2>2. CASE \E i \in 1..Len(callStack'), t \in Slot : r = callStack'[i][t]
    <3>1. PICK i \in 1..Len(callStack), t \in Slot : r = callStack'[i][t]
      BY <2>2, <1>4
    <3>2. r = callStack[i][t] \/ r = v
      BY <3>1, <1>1, <1>3 DEF TypeOK, Frame, Top
    <3>3. QED
      BY <3>1, <3>2, <1>5 DEF Roots, RootValues
  <2>3. QED
    BY <2>1, <2>2, <1>5 DEF Roots, RootValues
<1>6. QED
  BY <1>1, <1>4, <1>5

\* Cutting the stack to depth k and writing v into frame k: the same.
LEMMA UnwindRoots ==
  ASSUME TypeOK, NEW k \in 1..Len(callStack), NEW s \in Slot, NEW v \in Value,
         callStack' = UnwindTo(k, s, v), globals' = globals
  PROVE  /\ callStack' \in Seq(Frame) /\ callStack' # << >>
         /\ Roots' \subseteq Roots \cup ({v} \ {NoRef})
<1>1. \A i \in 1..k : callStack[i] \in Frame
  BY DEF TypeOK
<1>2. [callStack[k] EXCEPT ![s] = v] \in Frame
  BY <1>1 DEF Frame
<1>3. callStack' \in Seq(Frame) /\ Len(callStack') = k
  BY <1>1, <1>2 DEF UnwindTo, TypeOK
<1>4. ASSUME NEW r \in Roots' PROVE r \in Roots \cup ({v} \ {NoRef})
  <2>1. CASE \E g \in Global : r = globals'[g]
    BY <2>1, <1>4 DEF Roots, RootValues
  <2>2. CASE \E i \in 1..Len(callStack'), t \in Slot : r = callStack'[i][t]
    <3>1. PICK i \in 1..k, t \in Slot : r = callStack'[i][t]
      BY <2>2, <1>3
    <3>2. r = callStack[i][t] \/ r = v
      BY <3>1, <1>1 DEF UnwindTo, Frame
    <3>3. i \in 1..Len(callStack)
      BY DEF TypeOK
    <3>4. QED
      BY <3>1, <3>2, <3>3, <1>4 DEF Roots, RootValues
  <2>3. QED
    BY <2>1, <2>2, <1>4 DEF Roots, RootValues
<1>5. QED
  BY <1>3, <1>4

-----------------------------------------------------------------------------
(* Every instruction is a ProgramEffect.                                   *)

\* Allocation: types are kept, and only the new object changes.
LEMMA NewObjectEffect ==
  ASSUME TypeOK, NEW o \in Obj, NEW contents \in [Cell -> Value],
         NewObject(o, contents)
  PROVE  /\ o \in Obj \ Heap
         /\ list' = <<o>> \o list
         /\ list' \in Seq(Obj)
         /\ cell' \in [Obj -> [Cell -> Value]]
         /\ markState' \in [Obj -> {"White", "Grey", "Black"}]
         /\ marked' \in [Obj -> BOOLEAN]
         /\ markState'[o] = "White" /\ ~marked'[o]
         /\ cell'[o] = contents
         /\ \A p \in Heap : /\ cell'[p] = cell[p]
                             /\ marked'[p] = marked[p]
                             /\ markState'[p] = markState[p]
<1>1. Heap \subseteq Obj
  BY DEF Heap, TypeOK
<1>2. o \in Obj \ Heap /\ list' = <<o>> \o list
  BY DEF NewObject
<1>3. list' \in Seq(Obj)
  BY <1>2 DEF TypeOK
<1>4. /\ cell' \in [Obj -> [Cell -> Value]]
      /\ cell'[o] = contents
      /\ \A p \in Heap : cell'[p] = cell[p]
  BY <1>1, <1>2 DEF NewObject, TypeOK
<1>5. /\ markState' \in [Obj -> {"White", "Grey", "Black"}]
      /\ markState'[o] = "White"
      /\ \A p \in Heap : markState'[p] = markState[p]
  BY <1>1, <1>2 DEF NewObject, TypeOK
<1>6. /\ marked' \in [Obj -> BOOLEAN]
      /\ ~marked'[o]
      /\ \A p \in Heap : marked'[p] = marked[p]
  BY <1>1, <1>2 DEF NewObject, TypeOK
<1>7. QED
  BY <1>2, <1>3, <1>4, <1>5, <1>6

\* An instruction that only writes v, a value at hand, into the stack.
LEMMA StackEffect ==
  ASSUME TypeOK, Executed, callStack' \in Seq(Frame), callStack' # << >>,
         globals' \in [Global -> Value],
         UNCHANGED <<list, cell, markVars>>,
         Roots' \subseteq Roots \cup Abstract!HeldIn(Roots)
  PROVE  ProgramEffect
<1>1. TypeOK'
  BY DEF Executed, gcVars, markVars, TypeOK
<1>2. list' = list /\ cell' = cell /\ markState' = markState /\ marked' = marked
  BY DEF markVars
<1>3. QED
  BY <1>1, <1>2 DEF Executed, gcVars, ProgramEffect

\* An instruction that writes v into cell c of the object t it holds.
LEMMA StoreEffect ==
  ASSUME TypeOK, Executed, callStack' \in Seq(Frame), callStack' # << >>,
         globals' = globals, list' = list, marked' = marked,
         Roots' \subseteq Roots \cup Abstract!HeldIn(Roots),
         NEW t \in Roots, t \in Obj, NEW f \in [Cell -> Value],
         \A c \in Cell : f[c] = cell[t][c] \/ f[c] \in Roots \cup {NoRef},
         cell' = [cell EXCEPT ![t] = f],
         \/ markState' = markState
         \/ markState[t] = "Black" /\ markState' = [markState EXCEPT ![t] = "Grey"]
  PROVE  ProgramEffect
<1>1. Heap \subseteq Obj
  BY DEF Heap, TypeOK
<1>2. TypeOK'
  BY DEF Executed, gcVars, TypeOK
<1>3. \A p \in Heap, c \in Cell :
        cell'[p][c] = cell[p][c] \/ (p \in Roots /\ cell'[p][c] \in Roots \cup {NoRef})
  BY <1>1 DEF TypeOK
<1>4. \A p \in Heap : markState'[p] = markState[p]
                        \/ (markState[p] = "Black" /\ markState'[p] = "Grey")
  BY <1>1 DEF TypeOK
<1>5. QED
  BY <1>2, <1>3, <1>4 DEF Executed, gcVars, ProgramEffect

\* An instruction that allocates o with the given contents and holds it.
LEMMA AllocEffect ==
  ASSUME TypeOK, Executed, callStack' \in Seq(Frame), callStack' # << >>,
         globals' = globals, NEW o \in Obj, NEW contents \in [Cell -> Value],
         NewObject(o, contents),
         \A c \in Cell : contents[c] \in {NoRef} \cup Abstract!HeldIn(Roots),
         Roots' \subseteq Roots \cup {o}
  PROVE  ProgramEffect
<1>1. /\ o \in Obj \ Heap
      /\ list' = <<o>> \o list
      /\ list' \in Seq(Obj)
      /\ cell' \in [Obj -> [Cell -> Value]]
      /\ markState' \in [Obj -> {"White", "Grey", "Black"}]
      /\ marked' \in [Obj -> BOOLEAN]
      /\ markState'[o] = "White" /\ ~marked'[o]
      /\ cell'[o] = contents
      /\ \A p \in Heap : /\ cell'[p] = cell[p]
                          /\ marked'[p] = marked[p]
                          /\ markState'[p] = markState[p]
  BY NewObjectEffect
<1>2. TypeOK'
  BY <1>1 DEF Executed, gcVars, TypeOK
<1>3. QED
  BY <1>1, <1>2 DEF Executed, gcVars, ProgramEffect

\* A cell of an object at hand holds nothing or something held by a root.
LEMMA HeldByTop ==
  ASSUME TypeOK, callStack # << >>, NEW s \in Slot, Top[s] # NoRef, NEW c \in Cell
  PROVE  /\ cell[Top[s]][c] \in Value
         /\ cell[Top[s]][c] \in {NoRef} \cup Abstract!HeldIn(Roots)
<1>1. Top[s] \in Roots /\ Top[s] \in Obj
  BY TopHoldsRoots
<1>2. cell[Top[s]][c] \in Value
  BY <1>1 DEF TypeOK
<1>3. QED
  BY <1>1, <1>2 DEF Value, Abstract!HeldIn

(* The work of each instruction is one of the four kinds above. *)
LEMMA InstructionEffect ==
  ASSUME TypeOK, callStack # << >>, Instruction
  PROVE  ProgramEffect \/ Finish
<1>1. ASSUME NEW s \in Slot, Alloc(s) PROVE ProgramEffect
  <2>1. PICK o \in Obj : NewObject(o, [c \in Cell |-> NoRef]) /\ SetSlot(s, o)
    BY <1>1 DEF Alloc
  <2>2. [c \in Cell |-> NoRef] \in [Cell -> Value] /\ o \in Value
    BY DEF Value
  <2>3. /\ callStack' \in Seq(Frame) /\ callStack' # << >>
        /\ Roots' \subseteq Roots \cup {o}
    BY <1>1, <2>1, <2>2, SetSlotRoots DEF Alloc
  <2>4. QED
    BY <1>1, <2>1, <2>2, <2>3, AllocEffect DEF Alloc
<1>2. ASSUME NEW s \in Slot, LoadConst(s) PROVE ProgramEffect
  BY <1>2, SetSlotRoots, StackEffect DEF LoadConst, Value, TypeOK
<1>3. ASSUME NEW s \in Slot, NEW a \in Slot, NEW b \in Slot, AllocCopy(s, a, b)
      PROVE  ProgramEffect
  <2>1. PICK o \in Obj, contents \in [Cell -> Value] :
          /\ \A c \in Cell :
               contents[c] \in {NoRef} \cup {cell[Top[a]][d] : d \in Cell}
                                       \cup {cell[Top[b]][d] : d \in Cell}
          /\ NewObject(o, contents)
          /\ SetSlot(s, o)
    BY <1>3 DEF AllocCopy
  <2>2. \A c \in Cell : contents[c] \in {NoRef} \cup Abstract!HeldIn(Roots)
    <3>1. ASSUME NEW d \in Cell
          PROVE  /\ cell[Top[a]][d] \in {NoRef} \cup Abstract!HeldIn(Roots)
                 /\ cell[Top[b]][d] \in {NoRef} \cup Abstract!HeldIn(Roots)
      BY <1>3, HeldByTop DEF AllocCopy
    <3>2. QED
      BY <2>1, <3>1
  <2>3. /\ callStack' \in Seq(Frame) /\ callStack' # << >>
        /\ Roots' \subseteq Roots \cup {o}
    BY <1>3, <2>1, SetSlotRoots DEF AllocCopy, Value
  <2>4. QED
    BY <1>3, <2>1, <2>2, <2>3, AllocEffect DEF AllocCopy
<1>4. ASSUME NEW d \in Slot, NEW s \in Slot, LoadSlot(d, s) PROVE ProgramEffect
  BY <1>4, TopHoldsRoots, SetSlotRoots, StackEffect DEF LoadSlot, TypeOK
<1>5. ASSUME NEW d \in Slot, NEW g \in Global, LoadGlobal(d, g) PROVE ProgramEffect
  <2>1. globals[g] \in Value /\ globals[g] \in RootValues
    BY DEF TypeOK, RootValues
  <2>2. QED
    BY <1>5, <2>1, SetSlotRoots, StackEffect DEF LoadGlobal, TypeOK, Roots
<1>6. ASSUME NEW g \in Global, NEW s \in Slot, StoreGlobal(g, s) PROVE ProgramEffect
  <2>1. globals' = [globals EXCEPT ![g] = Top[s]] /\ callStack' = callStack
    BY <1>6 DEF StoreGlobal
  <2>2. Top[s] \in Value /\ (Top[s] # NoRef => Top[s] \in Roots)
    BY TopHoldsRoots
  <2>3. globals' \in [Global -> Value]
    BY <2>1, <2>2 DEF TypeOK
  <2>4. Roots' \subseteq Roots
    BY <2>1, <2>2 DEF TypeOK, Roots, RootValues
  <2>5. callStack' \in Seq(Frame) /\ callStack' # << >>
    BY <2>1 DEF TypeOK
  <2>6. QED
    BY <1>6, <2>3, <2>4, <2>5, StackEffect DEF StoreGlobal
<1>7. ASSUME NEW d \in Slot, NEW s \in Slot, NEW c \in Cell, GetCell(d, s, c)
      PROVE  ProgramEffect
  BY <1>7, HeldByTop, SetSlotRoots, StackEffect DEF GetCell, TypeOK
<1>8. ASSUME NEW t \in Slot, NEW c \in Cell, NEW s \in Slot, SetCell(t, c, s)
      PROVE  ProgramEffect
  <2> DEFINE o == Top[t]
             f == [cell[o] EXCEPT ![c] = Top[s]]
  <2>1. o \in Roots /\ o \in Obj /\ cell[o] \in [Cell -> Value]
    BY <1>8, TopHoldsRoots DEF SetCell, TypeOK
  <2>2. Top[s] \in Value /\ Top[s] \in Roots \cup {NoRef}
    BY TopHoldsRoots
  <2>3. f \in [Cell -> Value]
    BY <2>1, <2>2
  <2>4. \A e \in Cell : f[e] = cell[o][e] \/ f[e] \in Roots \cup {NoRef}
    BY <2>1, <2>2
  <2>5. \/ markState' = markState
        \/ markState[o] = "Black" /\ markState' = [markState EXCEPT ![o] = "Grey"]
    BY <1>8 DEF SetCell, WriteBarrier
  <2>6. Roots' = Roots /\ callStack' \in Seq(Frame) /\ callStack' # << >>
    BY <1>8 DEF SetCell, Roots, RootValues, TypeOK
  <2>7. cell' = [cell EXCEPT ![o] = f]
    BY <1>8, <2>1 DEF SetCell, TypeOK
  <2> HIDE DEF f, o
  <2>8. QED
    BY <1>8, <2>1, <2>3, <2>4, <2>5, <2>6, <2>7, StoreEffect DEF SetCell
<1>9. ASSUME NEW t \in Slot, NEW c \in Cell, NEW s \in Slot, PushElem(t, c, s)
      PROVE  ProgramEffect
  <2> DEFINE o == Top[t]
             f == [cell[o] EXCEPT ![c] = Top[s]]
  <2>1. o \in Roots /\ o \in Obj /\ cell[o] \in [Cell -> Value]
    BY <1>9, TopHoldsRoots DEF PushElem, TypeOK
  <2>2. Top[s] \in Value /\ Top[s] \in Roots \cup {NoRef}
    BY TopHoldsRoots
  <2>3. f \in [Cell -> Value]
    BY <2>1, <2>2
  <2>4. \A e \in Cell : f[e] = cell[o][e] \/ f[e] \in Roots \cup {NoRef}
    BY <2>1, <2>2
  <2>6. Roots' = Roots /\ callStack' \in Seq(Frame) /\ callStack' # << >>
    BY <1>9 DEF PushElem, Roots, RootValues, TypeOK
  <2>7. cell' = [cell EXCEPT ![o] = f] /\ markState' = markState /\ marked' = marked
    BY <1>9, <2>1 DEF PushElem, TypeOK, markVars
  <2> HIDE DEF f, o
  <2>8. QED
    BY <1>9, <2>1, <2>3, <2>4, <2>6, <2>7, StoreEffect DEF PushElem
<1>10. ASSUME NEW d \in Slot, NEW t \in Slot, NEW c \in Cell, TakeElem(d, t, c)
       PROVE  ProgramEffect
  <2> DEFINE o == Top[t]
             f == [cell[o] EXCEPT ![c] = NoRef]
  <2>1. o \in Roots /\ o \in Obj /\ cell[o] \in [Cell -> Value]
    BY <1>10, TopHoldsRoots DEF TakeElem, TypeOK
  <2>2. f \in [Cell -> Value]
    BY <2>1 DEF Value
  <2>3. \A e \in Cell : f[e] = cell[o][e] \/ f[e] \in Roots \cup {NoRef}
    BY <2>1
  <2>4. /\ cell[o][c] \in Value
        /\ cell[o][c] \in {NoRef} \cup Abstract!HeldIn(Roots)
    BY <1>10, HeldByTop DEF TakeElem
  <2>5. /\ callStack' \in Seq(Frame) /\ callStack' # << >>
        /\ Roots' \subseteq Roots \cup Abstract!HeldIn(Roots)
    BY <1>10, <2>4, SetSlotRoots DEF TakeElem
  <2>6. cell' = [cell EXCEPT ![o] = f] /\ markState' = markState /\ marked' = marked
    BY <1>10, <2>1 DEF TakeElem, TypeOK, markVars
  <2> HIDE DEF f, o
  <2>7. QED
    BY <1>10, <2>1, <2>2, <2>3, <2>5, <2>6, StoreEffect DEF TakeElem
<1>11. ASSUME NEW t \in Slot, ClearArray(t) PROVE ProgramEffect
  <2> DEFINE o == Top[t]
             f == [c \in Cell |-> NoRef]
  <2>1. o \in Roots /\ o \in Obj
    BY <1>11, TopHoldsRoots DEF ClearArray
  <2>2. f \in [Cell -> Value] /\ \A e \in Cell : f[e] = NoRef
    BY DEF Value
  <2>3. Roots' = Roots /\ callStack' \in Seq(Frame) /\ callStack' # << >>
    BY <1>11 DEF ClearArray, Roots, RootValues, TypeOK
  <2>4. cell' = [cell EXCEPT ![o] = f] /\ markState' = markState /\ marked' = marked
    BY <1>11 DEF ClearArray, markVars
  <2>5. Executed /\ globals' = globals /\ list' = list
    BY <1>11 DEF ClearArray
  <2>6. \A e \in Cell : f[e] = cell[o][e] \/ f[e] \in Roots \cup {NoRef}
    BY <2>2
  <2> HIDE DEF f, o
  <2>7. QED
    BY <2>1, <2>2, <2>3, <2>4, <2>5, <2>6, StoreEffect
<1>12. ASSUME Call PROVE ProgramEffect
  <2>1. PICK f \in Frame : /\ \A s \in Slot : f[s] \in {NoRef} \cup {Top[a] : a \in Slot}
                           /\ callStack' = Append(callStack, f)
    BY <1>12 DEF Call
  <2>2. /\ callStack' \in Seq(Frame) /\ callStack' # << >>
        /\ Len(callStack') = Len(callStack) + 1
        /\ callStack'[Len(callStack) + 1] = f
        /\ \A i \in 1..Len(callStack) : callStack'[i] = callStack[i]
    BY <2>1 DEF TypeOK
  <2>3. ASSUME NEW r \in Roots' PROVE r \in Roots
    <3>1. CASE \E g \in Global : r = globals'[g]
      BY <3>1, <1>12, <2>3 DEF Call, Roots, RootValues
    <3>2. CASE \E i \in 1..Len(callStack'), s \in Slot : r = callStack'[i][s]
      <4>1. PICK i \in 1..(Len(callStack) + 1), s \in Slot : r = callStack'[i][s]
        BY <3>2, <2>2
      <4>2. CASE i = Len(callStack) + 1
        <5>1. PICK a \in Slot : r = Top[a]
          BY <4>1, <4>2, <2>1, <2>2, <2>3 DEF Roots
        <5>2. QED
          BY <5>1, <2>3, TopHoldsRoots DEF Roots
      <4>3. CASE i # Len(callStack) + 1
        <5>1. i \in 1..Len(callStack)
          BY <4>3 DEF TypeOK
        <5>2. QED
          BY <4>1, <5>1, <2>2, <2>3 DEF Roots, RootValues
      <4>4. QED
        BY <4>2, <4>3
    <3>3. QED
      BY <3>1, <3>2, <2>3 DEF Roots, RootValues
  <2>4. QED
    BY <1>12, <2>2, <2>3, StackEffect DEF Call, TypeOK
<1>13. ASSUME NEW d \in Slot, NEW s \in Slot, Return(d, s) PROVE ProgramEffect
  <2>1. Len(callStack) - 1 \in 1..Len(callStack)
    BY <1>13 DEF Return, TypeOK
  <2>2. Top[s] \in Value /\ Top[s] \in Roots \cup {NoRef}
    BY TopHoldsRoots
  <2>3. QED
    BY <1>13, <2>1, <2>2, UnwindRoots, StackEffect DEF Return, TypeOK
<1>14. ASSUME NEW d \in Slot, FallOff(d) PROVE ProgramEffect
  <2>1. Len(callStack) - 1 \in 1..Len(callStack)
    BY <1>14 DEF FallOff, TypeOK
  <2>2. QED
    BY <1>14, <2>1, UnwindRoots, StackEffect DEF FallOff, TypeOK, Value
<1>15. ASSUME NEW k \in 1..Len(callStack), NEW d \in Slot, NEW s \in Slot,
              ThrowStruct(k, d, s)
       PROVE  ProgramEffect
  <2>1. Top[s] \in Value /\ Top[s] \in Roots /\ Top[s] \in Obj
    BY <1>15, TopHoldsRoots DEF ThrowStruct
  <2>2. /\ callStack' \in Seq(Frame) /\ callStack' # << >>
        /\ Roots' \subseteq Roots \cup Abstract!HeldIn(Roots)
    BY <1>15, <2>1, UnwindRoots DEF ThrowStruct
  <2>3. /\ Executed /\ globals' = globals /\ list' = list
        /\ markState' = markState /\ marked' = marked
    BY <1>15 DEF ThrowStruct, markVars
  <2>4. CASE cell' = cell
    BY <2>2, <2>3, <2>4, StackEffect DEF markVars, TypeOK
  <2>5. ASSUME NEW c \in Cell,
               cell' = [cell EXCEPT ![Top[s]] = [@ EXCEPT ![c] = NoRef]]
        PROVE  ProgramEffect
    <3> DEFINE o == Top[s]
               f == [cell[o] EXCEPT ![c] = NoRef]
    <3>1. f \in [Cell -> Value]
      BY <2>1 DEF TypeOK, Value
    <3>2. \A e \in Cell : f[e] = cell[o][e] \/ f[e] \in Roots \cup {NoRef}
      BY <2>1 DEF TypeOK
    <3>3. cell' = [cell EXCEPT ![o] = f] /\ o \in Roots /\ o \in Obj
      BY <2>1, <2>5 DEF TypeOK
    <3> HIDE DEF f, o
    <3>4. QED
      BY <2>2, <2>3, <3>1, <3>2, <3>3, StoreEffect
  <2>6. QED
    BY <1>15, <2>4, <2>5 DEF ThrowStruct
<1>16. ASSUME NEW k \in 1..Len(callStack), NEW d \in Slot, ThrowNew(k, d)
       PROVE  ProgramEffect
  <2>1. PICK o \in Obj : NewObject(o, [c \in Cell |-> NoRef])
                         /\ callStack' = UnwindTo(k, d, o)
    BY <1>16 DEF ThrowNew
  <2>2. [c \in Cell |-> NoRef] \in [Cell -> Value] /\ o \in Value
    BY DEF Value
  <2>3. /\ callStack' \in Seq(Frame) /\ callStack' # << >>
        /\ Roots' \subseteq Roots \cup {o}
    BY <1>16, <2>1, <2>2, UnwindRoots DEF ThrowNew
  <2>4. QED
    BY <1>16, <2>1, <2>2, <2>3, AllocEffect DEF ThrowNew
<1>17. QED
  BY <1>1, <1>2, <1>3, <1>4, <1>5, <1>6, <1>7, <1>8, <1>9, <1>10, <1>11,
     <1>12, <1>13, <1>14, <1>15, <1>16 DEF Instruction

-----------------------------------------------------------------------------
(* The invariant, step by step.                                            *)

LEMMA HeapInObj ==
  ASSUME TypeOK
  PROVE  /\ Heap \subseteq Obj
         /\ \A i \in 1..Len(list) : list[i] \in Heap
  BY DEF Heap, TypeOK

\* What the roots hold is on the heap, outside a sweep.
LEMMA RootsHoldHeap ==
  ASSUME TypeOK, HeapClosed, phase # "sweep", NoRef \notin Obj
  PROVE  Roots \subseteq Heap /\ Abstract!HeldIn(Roots) \subseteq Heap
  BY DEF HeapClosed, Abstract!HeldIn

\* Linking a new object at the head of the list.
LEMMA HeapOfLongerList ==
  ASSUME TypeOK, NEW o \in Obj, list' = <<o>> \o list
  PROVE  /\ Len(list') = Len(list) + 1
         /\ \A i \in 1..Len(list) : list'[i + 1] = list[i]
         /\ list'[1] = o
         /\ Heap' = Heap \cup {o}
<1>1. list \in Seq(Obj) /\ <<o>> \in Seq(Obj) /\ Len(<<o>>) = 1 /\ <<o>>[1] = o
  BY DEF TypeOK
<1>2. /\ Len(list') = Len(list) + 1
      /\ \A i \in 1..Len(list) : list'[i + 1] = list[i]
      /\ list'[1] = o
  BY <1>1
<1>3. \A i \in 1..Len(list') : i = 1 \/ i - 1 \in 1..Len(list)
  BY <1>1, <1>2
<1>4. Heap' = Heap \cup {o}
  <2>1. ASSUME NEW p \in Heap' PROVE p \in Heap \cup {o}
    <3>1. PICK i \in 1..Len(list') : p = list'[i]
      BY <2>1 DEF Heap
    <3>2. CASE i = 1
      BY <3>1, <3>2, <1>2
    <3>3. CASE i - 1 \in 1..Len(list)
      <4>1. list'[(i - 1) + 1] = list[i - 1] /\ (i - 1) + 1 = i
        BY <3>3, <1>2
      <4>2. QED
        BY <3>1, <3>3, <4>1 DEF Heap
    <3>4. QED
      BY <1>3, <3>2, <3>3
  <2>2. ASSUME NEW p \in Heap PROVE p \in Heap'
    <3>1. PICK i \in 1..Len(list) : p = list[i]
      BY <2>2 DEF Heap
    <3>2. i + 1 \in 1..Len(list') /\ list'[i + 1] = p
      BY <3>1, <1>1, <1>2
    <3>3. QED
      BY <3>2 DEF Heap
  <2>3. 1 \in 1..Len(list')
    BY <1>1, <1>2
  <2>4. o \in Heap'
    BY <2>3, <1>2 DEF Heap
  <2>5. QED
    BY <2>1, <2>2, <2>4
<1>5. QED
  BY <1>2, <1>4

\* The heap begins empty.
LEMMA InitEstablishesIInv == Init => IInv
<1> SUFFICES ASSUME Init PROVE IInv
  OBVIOUS
<1>1. TypeOK /\ callStack # << >>
  <2> DEFINE f == [s \in Slot |-> NoRef]
  <2>1. f \in Frame
    BY DEF Frame, Value
  <2>2. callStack = << f >>
    BY DEF Init
  <2> HIDE DEF f
  <2>3. callStack \in Seq(Frame) /\ callStack # << >>
    BY <2>1, <2>2
  <2>4. list \in Seq(Obj)
    BY DEF Init
  <2>5. QED
    BY <2>3, <2>4, VmHeapAssumption DEF Init, TypeOK, Value
<1>2. Heap = {} /\ Len(list) = 0
  BY DEF Init, Heap
<1>3. Roots = {}
  BY DEF Init, Roots, RootValues
<1>4. HeapClosed /\ Tricolour /\ FlagsAgree
  BY <1>2, <1>3 DEF HeapClosed, Tricolour, FlagsAgree
<1>5. QED
  BY <1>1, <1>2, <1>3, <1>4
     DEF Init, IInv, ListInjective, CycleKeepsThreshold, AllWhiteOutsideCycle,
         RootsSeen, PassStart, SweepSound

\* An instruction keeps the invariant: new objects are White and referred to
\* by nothing else, and inside a cycle everything stored is already seen.
LEMMA ProgramKeepsIInv ==
  ASSUME IInv, ProgramEffect
  PROVE  IInv'
<1> USE DEF IInv
<1>1. /\ phase = "exec" /\ phase' = "fetch"
      /\ cycle' = cycle /\ threshold' = threshold
      /\ cursor' = cursor /\ processed' = processed
      /\ TypeOK' /\ callStack' # << >>
  BY DEF ProgramEffect, gcVars
<1>2. Heap \subseteq Obj /\ Roots \subseteq Heap /\ Abstract!HeldIn(Roots) \subseteq Heap
  BY <1>1, HeapInObj, RootsHoldHeap, VmHeapAssumption
<1>3. \A p \in Heap : /\ marked'[p] = marked[p]
                      /\ markState'[p] = "White" <=> markState[p] = "White"
                      /\ markState'[p] = "Black" => markState[p] = "Black"
  BY DEF ProgramEffect
<1>4. \/ list' = list /\ Heap' = Heap /\ Roots' \subseteq Heap
      \/ \E o \in Obj \ Heap :
           /\ list' = <<o>> \o list
           /\ Len(list') = Len(list) + 1
           /\ \A i \in 1..Len(list) : list'[i + 1] = list[i]
           /\ list'[1] = o
           /\ Heap' = Heap \cup {o}
           /\ Roots' \subseteq Heap'
           /\ markState'[o] = "White" /\ ~marked'[o]
           /\ \A c \in Cell : cell'[o][c] \in {NoRef} \cup Heap
  <2>1. CASE list' = list /\ Roots' \subseteq Roots \cup Abstract!HeldIn(Roots)
    BY <2>1, <1>2 DEF Heap
  <2>2. ASSUME NEW o \in Obj \ Heap,
               list' = <<o>> \o list,
               Roots' \subseteq Roots \cup {o},
               markState'[o] = "White" /\ ~marked'[o],
               \A c \in Cell : cell'[o][c] \in {NoRef} \cup Abstract!HeldIn(Roots)
        PROVE  /\ Len(list') = Len(list) + 1
               /\ \A i \in 1..Len(list) : list'[i + 1] = list[i]
               /\ list'[1] = o
               /\ Heap' = Heap \cup {o}
               /\ Roots' \subseteq Heap'
               /\ \A c \in Cell : cell'[o][c] \in {NoRef} \cup Heap
    <3>1. /\ Len(list') = Len(list) + 1
          /\ \A i \in 1..Len(list) : list'[i + 1] = list[i]
          /\ list'[1] = o
          /\ Heap' = Heap \cup {o}
      BY <2>2, HeapOfLongerList
    <3>2. QED
      BY <2>2, <1>2, <3>1
  <2>3. QED
    BY <2>1, <2>2 DEF ProgramEffect
<1>5. /\ Heap \subseteq Heap'
      /\ \A p \in Heap' \ Heap : /\ markState'[p] = "White" /\ ~marked'[p]
                                 /\ \A c \in Cell : cell'[p][c] \in {NoRef} \cup Heap
  BY <1>4
<1>6. ListInjective'
  <2>1. CASE list' = list
    BY <2>1 DEF ListInjective
  <2>2. CASE \E o \in Obj \ Heap :
           /\ Len(list') = Len(list) + 1
           /\ \A i \in 1..Len(list) : list'[i + 1] = list[i]
           /\ list'[1] = o
    <3>1. PICK o \in Obj \ Heap :
           /\ Len(list') = Len(list) + 1
           /\ \A i \in 1..Len(list) : list'[i + 1] = list[i]
           /\ list'[1] = o
      BY <2>2
    <3>2. \A i \in 1..Len(list') :
            i = 1 \/ (i - 1 \in 1..Len(list) /\ list'[i] = list[i - 1] /\ list'[i] # o)
      <4>1. ASSUME NEW i \in 1..Len(list'), i # 1
            PROVE i - 1 \in 1..Len(list) /\ list'[i] = list[i - 1] /\ list'[i] # o
        <5>1. i - 1 \in 1..Len(list) /\ (i - 1) + 1 = i
          BY <4>1, <3>1 DEF TypeOK
        <5>2. list'[i] = list[i - 1]
          BY <5>1, <3>1
        <5>3. QED
          BY <5>1, <5>2, HeapInObj
      <4>2. QED
        BY <4>1
    <3>3. ASSUME NEW i \in 1..Len(list'), NEW j \in 1..Len(list'),
                 list'[i] = list'[j]
          PROVE  i = j
      <4>1. CASE i = 1 \/ j = 1
        BY <4>1, <3>1, <3>2, <3>3
      <4>2. CASE i # 1 /\ j # 1
        <5>1. i - 1 = j - 1
          BY <4>2, <3>2, <3>3 DEF ListInjective
        <5>2. QED
          BY <5>1
      <4>3. QED
        BY <4>1, <4>2
    <3>4. QED
      BY <3>3 DEF ListInjective
  <2>3. QED
    BY <1>4, <2>1, <2>2
<1>7. HeapClosed'
  <2>1. ASSUME NEW p \in Heap', NEW c \in Cell PROVE cell'[p][c] \in Heap' \cup {NoRef}
    <3>1. CASE p \in Heap
      BY <3>1, <1>1, <1>2, <1>5 DEF ProgramEffect, HeapClosed
    <3>2. CASE p \notin Heap
      BY <3>2, <1>5
    <3>3. QED
      BY <3>1, <3>2
  <2>2. QED
    BY <2>1, <1>4 DEF HeapClosed
<1>8. Tricolour'
  <2>1. SUFFICES ASSUME NEW p \in Heap', NEW c \in Cell,
                        markState'[p] = "Black", cell'[p][c] # NoRef
                 PROVE  markState'[cell'[p][c]] # "White"
    BY DEF Tricolour
  <2>2. p \in Heap /\ markState[p] = "Black"
    BY <2>1, <1>3, <1>5
  <2>3. CASE cell'[p][c] = cell[p][c]
    <3>1. cell[p][c] \in Heap /\ markState[cell[p][c]] # "White"
      BY <2>1, <2>2, <2>3, <1>1 DEF HeapClosed, Tricolour
    <3>2. QED
      BY <3>1, <2>3, <1>3
  <2>4. CASE cell'[p][c] \in Roots
    <3>1. cycle
      BY <2>2 DEF AllWhiteOutsideCycle
    <3>2. markState[cell'[p][c]] # "White"
      BY <3>1, <2>4, <1>1 DEF RootsSeen
    <3>3. QED
      BY <3>2, <2>4, <1>2, <1>3
  <2>5. QED
    BY <2>1, <2>2, <2>3, <2>4 DEF ProgramEffect
<1>9. FlagsAgree'
  BY <1>1, <1>3, <1>5 DEF FlagsAgree
<1>10. CycleKeepsThreshold'
  <2>1. Len(list) \in Nat /\ Len(list') \in Nat
    BY <1>1 DEF TypeOK
  <2>2. Len(list') = Len(list) \/ Len(list') = Len(list) + 1
    BY <1>4
  <2>3. QED
    BY <2>1, <2>2, <1>1 DEF CycleKeepsThreshold, AtThreshold, allocCount, TypeOK
<1>11. AllWhiteOutsideCycle'
  BY <1>1, <1>3, <1>5 DEF AllWhiteOutsideCycle
<1>12. RootsSeen' /\ PassStart' /\ SweepSound'
  BY <1>1 DEF RootsSeen, PassStart, SweepSound
<1>13. QED
  BY <1>1, <1>6, <1>7, <1>8, <1>9, <1>10, <1>11, <1>12

\* Heap and Roots depend on the list, the globals and the stack alone.
LEMMA SameHeapAndRoots ==
  ASSUME list' = list, globals' = globals, callStack' = callStack
  PROVE  Heap' = Heap /\ Roots' = Roots
  BY DEF Heap, Roots, RootValues

\* Below the threshold no cycle is under way: nothing but the phase changes.
LEMMA BelowKeepsIInv ==
  ASSUME IInv, BelowThreshold
  PROVE  IInv'
<1> USE DEF IInv
<1>1. ~cycle /\ phase = "fetch" /\ phase' = "exec" /\ cycle' = cycle
  BY DEF BelowThreshold, CycleKeepsThreshold
<1>2. /\ globals' = globals /\ callStack' = callStack /\ cell' = cell /\ list' = list
      /\ markState' = markState /\ marked' = marked /\ threshold' = threshold
      /\ cursor' = 1 /\ processed' = 0
  BY DEF BelowThreshold, progVars, markVars
<1>3. Heap' = Heap /\ Roots' = Roots
  BY <1>2, SameHeapAndRoots
<1>4. TypeOK' /\ ListInjective'
  BY <1>1, <1>2 DEF TypeOK, ListInjective
<1>5. HeapClosed' /\ Tricolour' /\ FlagsAgree'
  BY <1>1, <1>2, <1>3 DEF HeapClosed, Tricolour, FlagsAgree
<1>6. QED
  BY <1>1, <1>2, <1>3, <1>4, <1>5
     DEF CycleKeepsThreshold, AllWhiteOutsideCycle, RootsSeen, PassStart, SweepSound

\* Marking the roots: afterwards none of them is White.
LEMMA MarkRootsKeepsIInv ==
  ASSUME IInv, MarkRoots
  PROVE  IInv'
<1> USE DEF IInv
<1>1. phase = "fetch" /\ phase' = "drain" /\ cycle' = TRUE /\ AtThreshold
  BY DEF MarkRoots
<1>2. /\ globals' = globals /\ callStack' = callStack /\ cell' = cell /\ list' = list
      /\ threshold' = threshold /\ cursor' = 1 /\ processed' = 0
  BY DEF MarkRoots, progVars
<1>3. Heap' = Heap /\ Roots' = Roots /\ Heap \subseteq Obj /\ Roots \subseteq Heap
  BY <1>1, <1>2, HeapInObj, SameHeapAndRoots DEF HeapClosed
<1>4. /\ markState' \in [Obj -> {"White", "Grey", "Black"}]
      /\ marked' \in [Obj -> BOOLEAN]
  BY DEF MarkRoots, MarkAll, TypeOK
<1>5. \A o \in Heap : /\ markState'[o] = "Black" => markState[o] = "Black"
                      /\ markState'[o] = "White" <=> markState[o] = "White" /\ o \notin Roots
                      /\ markState[o] # "White" => markState'[o] # "White"
                      /\ marked'[o] <=> (marked[o] \/ (o \in Roots /\ markState[o] = "White"))
                      /\ markState[o] = "White" /\ o \in Roots => markState'[o] # "White"
  BY <1>3 DEF MarkRoots, MarkAll, TypeOK
<1>6. TypeOK'
  BY <1>1, <1>2, <1>4 DEF TypeOK
<1>7. HeapClosed'
  BY <1>1, <1>2, <1>3 DEF HeapClosed
<1>8. Tricolour'
  <2>1. ASSUME NEW p \in Heap, NEW c \in Cell, markState'[p] = "Black", cell[p][c] # NoRef
        PROVE  markState'[cell[p][c]] # "White"
    <3>1. cell[p][c] \in Heap /\ markState[cell[p][c]] # "White"
      BY <2>1, <1>1, <1>5 DEF HeapClosed, Tricolour
    <3>2. QED
      BY <3>1, <1>5
  <2>2. QED
    BY <2>1, <1>2, <1>3 DEF Tricolour
<1>9. FlagsAgree'
  <2>1. \A p \in Heap : marked[p] <=> markState[p] # "White"
    BY <1>1 DEF FlagsAgree
  <2>2. ASSUME NEW p \in Heap PROVE marked'[p] <=> markState'[p] # "White"
    <3>1. marked[p] <=> markState[p] # "White"
      BY <2>1
    <3>2. marked'[p] <=> (marked[p] \/ (p \in Roots /\ markState[p] = "White"))
      BY <1>5
    <3>3. markState'[p] # "White" <=> (markState[p] # "White" \/ p \in Roots)
      BY <1>5, Zenon
    <3>4. QED
      BY <3>1, <3>2, <3>3, Zenon
  <2>3. QED
    BY <2>2, <1>3 DEF FlagsAgree
<1>10. RootsSeen'
  BY <1>3, <1>5 DEF RootsSeen
<1>11. CycleKeepsThreshold' /\ ListInjective'
  BY <1>1, <1>2 DEF CycleKeepsThreshold, AtThreshold, allocCount, ListInjective
<1>12. QED
  BY <1>1, <1>2, <1>6, <1>7, <1>8, <1>9, <1>10, <1>11
     DEF AllWhiteOutsideCycle, PassStart, SweepSound

\* Scanning an object: it turns Black when everything it holds is seen.
LEMMA ScanKeepsIInv ==
  ASSUME IInv, ScanObject
  PROVE  IInv'
<1> USE DEF IInv
<1>1. phase = "drain" /\ phase' = "drain" /\ cycle' = cycle /\ cycle
  BY DEF ScanObject, AllWhiteOutsideCycle
<1>2. /\ globals' = globals /\ callStack' = callStack /\ cell' = cell /\ list' = list
      /\ threshold' = threshold /\ processed' = processed + 1
  BY DEF ScanObject, progVars
<1>3. Heap' = Heap /\ Roots' = Roots /\ Heap \subseteq Obj /\ Roots \subseteq Heap
  BY <1>1, <1>2, HeapInObj, SameHeapAndRoots DEF HeapClosed
<1>4. PICK i \in GreyFrom(cursor) :
        /\ cursor' = i + 1
        /\ LET o == list[i]
               kids == {cell[o][c] : c \in Cell}
               paint(p) == p \in kids /\ markState[p] = "White"
           IN  /\ markState' = [p \in Obj |->
                    IF p = o THEN "Black"
                    ELSE IF paint(p) THEN "Grey" ELSE markState[p]]
               /\ marked' = [p \in Obj |-> marked[p] \/ paint(p)]
  BY DEF ScanObject
<1> DEFINE o == list[i]
           kids == {cell[o][c] : c \in Cell}
<1>5. i \in cursor..Len(list) /\ i \in 1..Len(list) /\ markState[o] = "Grey"
  BY <1>4 DEF GreyFrom, TypeOK, PassStart
<1>6. o \in Heap
  BY <1>5, HeapInObj
<1>7. /\ markState' \in [Obj -> {"White", "Grey", "Black"}]
      /\ marked' \in [Obj -> BOOLEAN]
  BY <1>4 DEF TypeOK
<1>8. \A p \in Heap :
        /\ markState'[p] = "Black" => markState[p] = "Black" \/ p = o
        /\ markState[p] # "White" => markState'[p] # "White"
        /\ p \in kids => markState'[p] # "White"
        /\ marked'[p] <=> (marked[p] \/ (p \in kids /\ markState[p] = "White"))
        /\ markState'[p] = "White" <=> markState[p] = "White" /\ p \notin kids
  BY <1>3, <1>4, <1>5 DEF TypeOK
<1>9. TypeOK' /\ cursor' >= 1
  BY <1>1, <1>2, <1>4, <1>5, <1>7 DEF TypeOK
<1>10. HeapClosed'
  BY <1>1, <1>2, <1>3 DEF HeapClosed
<1>11. Tricolour'
  <2>1. SUFFICES ASSUME NEW p \in Heap, NEW c \in Cell,
                        markState'[p] = "Black", cell[p][c] # NoRef
                 PROVE  markState'[cell[p][c]] # "White"
    BY <1>2, <1>3 DEF Tricolour
  <2>2. cell[p][c] \in Heap
    BY <2>1, <1>1 DEF HeapClosed
  <2>3. CASE p = o
    BY <2>2, <2>3, <1>8
  <2>4. CASE markState[p] = "Black"
    BY <2>1, <2>2, <2>4, <1>1, <1>8 DEF Tricolour
  <2>5. QED
    BY <2>1, <2>3, <2>4, <1>8
<1>12. FlagsAgree'
  <2>1. \A p \in Heap : marked[p] <=> markState[p] # "White"
    BY <1>1 DEF FlagsAgree
  <2>2. ASSUME NEW p \in Heap PROVE marked'[p] <=> markState'[p] # "White"
    <3>1. marked[p] <=> markState[p] # "White"
      BY <2>1
    <3>2. marked'[p] <=> (marked[p] \/ (p \in kids /\ markState[p] = "White"))
      BY <1>8
    <3>3. markState'[p] # "White" <=> (markState[p] # "White" \/ p \in kids)
      BY <1>8, Zenon
    <3>4. QED
      BY <3>1, <3>2, <3>3, Zenon
  <2>3. QED
    BY <2>2, <1>3 DEF FlagsAgree
<1>13. RootsSeen'
  BY <1>1, <1>3, <1>8 DEF RootsSeen
<1>14. CycleKeepsThreshold' /\ ListInjective'
  BY <1>1, <1>2 DEF CycleKeepsThreshold, AtThreshold, allocCount, ListInjective
<1>15. PassStart'
  BY <1>2, <1>9 DEF PassStart, TypeOK
<1>16. QED
  BY <1>1, <1>2, <1>9, <1>10, <1>11, <1>12, <1>13, <1>14, <1>15
     DEF AllWhiteOutsideCycle, SweepSound

\* The mark phase pauses with every root seen.
LEMMA YieldKeepsIInv ==
  ASSUME IInv, YieldToProgram
  PROVE  IInv'
<1> USE DEF IInv
<1>1. phase = "drain" /\ phase' = "exec" /\ cycle
  BY DEF YieldToProgram, DrainOver, AllWhiteOutsideCycle
<1>2. /\ globals' = globals /\ callStack' = callStack /\ cell' = cell /\ list' = list
      /\ markState' = markState /\ marked' = marked /\ threshold' = threshold
      /\ cycle' = cycle /\ cursor' = cursor /\ processed' = processed
  BY DEF YieldToProgram, progVars, markVars, gcVars
<1>3. Heap' = Heap /\ Roots' = Roots
  BY <1>2, SameHeapAndRoots
<1>4. TypeOK' /\ ListInjective'
  BY <1>1, <1>2 DEF TypeOK, ListInjective
<1>5. HeapClosed' /\ Tricolour' /\ FlagsAgree' /\ RootsSeen'
  BY <1>1, <1>2, <1>3 DEF HeapClosed, Tricolour, FlagsAgree, RootsSeen
<1>6. CycleKeepsThreshold'
  BY <1>1, <1>2 DEF CycleKeepsThreshold, AtThreshold, allocCount
<1>7. QED
  BY <1>1, <1>2, <1>4, <1>5, <1>6
     DEF AllWhiteOutsideCycle, PassStart, SweepSound

\* The sweep begins when a whole pass met no Grey object: what is marked is
\* closed under reference and holds the roots.
LEMMA StartSweepKeepsIInv ==
  ASSUME IInv, StartSweep
  PROVE  IInv'
<1> USE DEF IInv
<1>1. phase = "drain" /\ phase' = "sweep" /\ cycle /\ cursor = 1 /\ cursor' = 1
  BY DEF StartSweep, DrainOver, AllWhiteOutsideCycle, PassStart
<1>2. /\ globals' = globals /\ callStack' = callStack /\ cell' = cell /\ list' = list
      /\ markState' = markState /\ marked' = marked /\ threshold' = threshold
      /\ cycle' = cycle /\ processed' = processed
  BY DEF StartSweep, progVars, markVars
<1>3. Heap' = Heap /\ Roots' = Roots /\ Roots \subseteq Heap
  BY <1>1, <1>2, SameHeapAndRoots DEF HeapClosed
<1>4. TypeOK' /\ ListInjective'
  BY <1>1, <1>2 DEF TypeOK, ListInjective
<1>5. GreyFrom(1) = {}
  BY <1>1, VmHeapAssumption DEF StartSweep, DrainOver, TypeOK
<1>6. \A p \in Heap : markState[p] # "Grey"
  BY <1>5 DEF GreyFrom, Heap
<1>7. \A p \in Obj : Survivor(p)' <=> p \in Heap /\ marked[p]
  BY <1>1, <1>2 DEF Survivor, Heap
<1>8. \A p \in Heap : marked[p] <=> markState[p] = "Black"
  BY <1>1, <1>6, HeapInObj DEF FlagsAgree, TypeOK
<1>9. \A r \in Roots : Survivor(r)'
  BY <1>1, <1>3, <1>7, HeapInObj DEF RootsSeen, FlagsAgree
<1>10. ASSUME NEW p \in Obj, NEW c \in Cell, Survivor(p)', cell[p][c] # NoRef
       PROVE  Survivor(cell[p][c])'
  <2>1. p \in Heap /\ markState[p] = "Black"
    BY <1>7, <1>8, <1>10
  <2>2. cell[p][c] \in Heap /\ markState[cell[p][c]] # "White"
    BY <2>1, <1>1, <1>10 DEF HeapClosed, Tricolour
  <2>3. \A q \in Heap : marked[q] <=> markState[q] # "White"
    BY <1>1 DEF FlagsAgree
  <2>4. marked[cell[p][c]]
    BY <2>2, <2>3, Zenon
  <2>5. PICK i \in 1..Len(list) : list[i] = cell[p][c]
    BY <2>2 DEF Heap
  <2>6. QED
    BY <2>4, <2>5, <1>2 DEF Survivor
<1>11. SweepSound'
  BY <1>1, <1>2, <1>3, <1>9, <1>10 DEF SweepSound, TypeOK
<1>12. QED
  BY <1>1, <1>2, <1>4, <1>11
     DEF HeapClosed, Tricolour, FlagsAgree, CycleKeepsThreshold,
         AllWhiteOutsideCycle, RootsSeen, PassStart

\* Keeping a marked object: the set of survivors stays the same.
LEMMA SweepKeepKeepsIInv ==
  ASSUME IInv, SweepKeep
  PROVE  IInv'
<1> USE DEF IInv
<1>1. phase = "sweep" /\ phase' = "sweep" /\ cycle /\ cycle' = cycle
  BY DEF SweepKeep, AllWhiteOutsideCycle
<1>2. /\ globals' = globals /\ callStack' = callStack /\ cell' = cell /\ list' = list
      /\ threshold' = threshold /\ processed' = processed /\ cursor' = cursor + 1
  BY DEF SweepKeep, progVars
<1> DEFINE o == list[cursor]
<1>3. cursor \in 1..Len(list) /\ o \in Obj
  BY DEF SweepKeep, PassStart, TypeOK
<1>4. /\ marked[o]
      /\ markState' = [markState EXCEPT ![o] = "White"]
      /\ marked' = [marked EXCEPT ![o] = FALSE]
  BY DEF SweepKeep
<1>5. \A i \in 1..Len(list) : i # cursor => list[i] # o /\ list[i] \in Obj
  BY <1>3 DEF ListInjective, TypeOK
<1>6. TypeOK' /\ ListInjective' /\ cursor' >= 1
  BY <1>1, <1>2, <1>3, <1>4 DEF TypeOK, ListInjective
<1>7. \A i \in 1..Len(list) :
        (i < cursor' \/ marked'[list[i]]) <=> (i < cursor \/ marked[list[i]])
  <2>1. ASSUME NEW i \in 1..Len(list), i # cursor
        PROVE  (i < cursor' <=> i < cursor) /\ (marked'[list[i]] = marked[list[i]])
    <3>1. i < cursor' <=> i < cursor
      BY <2>1, <1>2, <1>3
    <3>2. list[i] # o /\ list[i] \in Obj
      BY <2>1, <1>5
    <3>3. marked'[list[i]] = marked[list[i]]
      BY <3>2, <1>4 DEF TypeOK
    <3>4. QED
      BY <3>1, <3>3
  <2>2. cursor < cursor' /\ marked[list[cursor]]
    BY <1>2, <1>3, <1>4
  <2>3. QED
    BY <2>1, <2>2, <1>3
<1>8. \A p \in Obj : Survivor(p)' <=> Survivor(p)
  BY <1>2, <1>7 DEF Survivor
<1>9. \A i \in 1..Len(list) :
        i < cursor' => markState'[list[i]] = "White" /\ ~marked'[list[i]]
  <2>1. ASSUME NEW i \in 1..Len(list), i < cursor', i # cursor
        PROVE  markState'[list[i]] = "White" /\ ~marked'[list[i]]
    <3>1. i < cursor
      BY <2>1, <1>2, <1>3
    <3>2. markState[list[i]] = "White" /\ ~marked[list[i]]
      BY <3>1, <1>1 DEF SweepSound
    <3>3. QED
      BY <2>1, <3>2, <1>4, <1>5 DEF TypeOK
  <2>2. markState'[o] = "White" /\ ~marked'[o]
    BY <1>3, <1>4 DEF TypeOK
  <2>3. QED
    BY <2>1, <2>2
<1>10. Roots' = Roots /\ Roots \subseteq Obj
  BY <1>2, SameHeapAndRoots DEF Roots, RootValues, TypeOK, Frame, Value
<1>11. SweepSound'
  <2>1. \A r \in Roots' : Survivor(r)'
    BY <1>1, <1>8, <1>10 DEF SweepSound
  <2>2. ASSUME NEW p \in Obj, NEW c \in Cell, Survivor(p)', cell'[p][c] # NoRef
        PROVE  Survivor(cell[p][c])'
    <3>1. Survivor(p) /\ cell[p][c] # NoRef
      BY <2>2, <1>2, <1>8
    <3>2. Survivor(cell[p][c])
      BY <3>1, <1>1 DEF SweepSound
    <3>3. QED
      BY <3>2, <1>2, <1>7 DEF Survivor
  <2>3. QED
    BY <2>1, <2>2, <1>2, <1>9 DEF SweepSound
<1>12. QED
  BY <1>1, <1>2, <1>6, <1>11
     DEF HeapClosed, Tricolour, FlagsAgree, CycleKeepsThreshold,
         AllWhiteOutsideCycle, RootsSeen, PassStart

\* Deleting an unmarked object moves the later ones one place up the list.
LEMMA SweepFreeEffect ==
  ASSUME IInv, SweepFree
  PROVE  /\ cursor \in 1..Len(list)
         /\ ~Survivor(list[cursor])
         /\ Len(list') = Len(list) - 1
         /\ \A i \in 1..Len(list') :
              /\ i < cursor => i \in 1..Len(list) /\ list'[i] = list[i]
              /\ i >= cursor => i + 1 \in 1..Len(list) /\ list'[i] = list[i + 1]
         /\ Heap' = Heap \ {list[cursor]}
         /\ Roots' = Roots /\ cell' = cell
<1> USE DEF IInv
<1>1. cursor \in 1..Len(list) /\ ~marked[list[cursor]]
  BY DEF SweepFree, PassStart, TypeOK
<1>2. ~Survivor(list[cursor])
  BY <1>1 DEF Survivor, ListInjective
<1>3. Len(list) \in Nat /\ Len(list) >= 1
  BY <1>1 DEF TypeOK
<1>4. /\ Len(list') = Len(list) - 1
      /\ \A i \in 1..Len(list') :
           /\ i < cursor => i \in 1..Len(list) /\ list'[i] = list[i]
           /\ i >= cursor => i + 1 \in 1..Len(list) /\ list'[i] = list[i + 1]
  BY <1>1, <1>3 DEF SweepFree, Unlink
<1>5. Heap' = Heap \ {list[cursor]}
  <2>1. ASSUME NEW p \in Heap' PROVE p \in Heap /\ p # list[cursor]
    <3>1. PICK i \in 1..Len(list') : p = list'[i]
      BY <2>1 DEF Heap
    <3>2. PICK j \in 1..Len(list) : j # cursor /\ p = list[j]
      <4>1. CASE i < cursor
        BY <3>1, <4>1, <1>4
      <4>2. CASE i >= cursor
        BY <3>1, <4>2, <1>1, <1>4
      <4>3. QED
        BY <4>1, <4>2, <3>1, <1>1, <1>3, <1>4
    <3>3. QED
      BY <3>2, <1>1 DEF Heap, ListInjective
  <2>2. ASSUME NEW p \in Heap, p # list[cursor] PROVE p \in Heap'
    <3>1. PICK j \in 1..Len(list) : p = list[j]
      BY <2>2 DEF Heap
    <3>2. CASE j < cursor
      <4>1. j \in 1..Len(list')
        BY <3>2, <1>1, <1>3, <1>4
      <4>2. QED
        BY <3>1, <3>2, <4>1, <1>4 DEF Heap
    <3>3. CASE j > cursor
      <4>1. j - 1 \in 1..Len(list') /\ j - 1 >= cursor /\ (j - 1) + 1 = j
        BY <3>3, <1>1, <1>3, <1>4
      <4>2. list'[j - 1] = list[j]
        BY <4>1, <1>4
      <4>3. QED
        BY <3>1, <4>1, <4>2 DEF Heap
    <3>4. QED
      BY <3>1, <3>2, <3>3, <2>2, <1>1
  <2>3. QED
    BY <2>1, <2>2
<1>6. Roots' = Roots /\ cell' = cell
  BY DEF SweepFree, progVars, Roots, RootValues
<1>7. QED
  BY <1>1, <1>2, <1>4, <1>5, <1>6

\* Deleting an unmarked object: the set of survivors stays the same.
LEMMA SweepFreeKeepsIInv ==
  ASSUME IInv, SweepFree
  PROVE  IInv'
<1> USE DEF IInv
<1>1. phase = "sweep" /\ phase' = "sweep" /\ cycle /\ cycle' = cycle
  BY DEF SweepFree, AllWhiteOutsideCycle
<1>2. /\ globals' = globals /\ callStack' = callStack /\ cell' = cell
      /\ marked' = marked /\ threshold' = threshold
      /\ processed' = processed /\ cursor' = cursor
  BY DEF SweepFree, progVars
<1>3. /\ cursor \in 1..Len(list)
      /\ ~Survivor(list[cursor])
      /\ Len(list') = Len(list) - 1
      /\ \A i \in 1..Len(list') :
           /\ i < cursor => i \in 1..Len(list) /\ list'[i] = list[i]
           /\ i >= cursor => i + 1 \in 1..Len(list) /\ list'[i] = list[i + 1]
      /\ Roots' = Roots
  BY SweepFreeEffect
<1>4. markState' = [markState EXCEPT ![list[cursor]] = "White"]
      /\ markState' \in [Obj -> {"White", "Grey", "Black"}]
  BY DEF SweepFree, TypeOK
<1>5. Len(list) \in Nat /\ Len(list) >= 1 /\ list' = Unlink(cursor)
      /\ \A i \in 1..Len(list) : list[i] \in Obj
  BY <1>3 DEF TypeOK, SweepFree
<1>6. list' \in Seq(Obj)
  <2>1. \A i \in 1..(Len(list) - 1) :
          (IF i < cursor THEN list[i] ELSE list[i + 1]) \in Obj
    BY <1>3, <1>5
  <2>2. Len(list) - 1 \in Nat
    BY <1>5
  <2>3. QED
    BY <2>1, <2>2, <1>5 DEF Unlink
<1>7. TypeOK'
  BY <1>1, <1>2, <1>4, <1>6 DEF TypeOK
<1>8. ListInjective'
  <2>1. ASSUME NEW i \in 1..Len(list'), NEW j \in 1..Len(list'), list'[i] = list'[j]
        PROVE  i = j
    <3>1. CASE i < cursor /\ j < cursor
      BY <2>1, <3>1, <1>3 DEF ListInjective
    <3>2. CASE i < cursor /\ j >= cursor
      BY <2>1, <3>2, <1>3 DEF ListInjective
    <3>3. CASE i >= cursor /\ j < cursor
      BY <2>1, <3>3, <1>3 DEF ListInjective
    <3>4. CASE i >= cursor /\ j >= cursor
      BY <2>1, <3>4, <1>3 DEF ListInjective
    <3>5. QED
      BY <3>1, <3>2, <3>3, <3>4, <1>3, <1>5
  <2>2. QED
    BY <2>1 DEF ListInjective
<1>9. \A i \in 1..Len(list') : list'[i] # list[cursor]
  BY <1>3, <1>5 DEF ListInjective
<1>10. ASSUME NEW p, Survivor(p)
       PROVE  \E i \in 1..Len(list') : list'[i] = p /\ (i < cursor \/ marked[p])
  <2>1. PICK j \in 1..Len(list) : list[j] = p /\ (j < cursor \/ marked[p])
    BY <1>10 DEF Survivor
  <2>2. j # cursor
    BY <2>1, <1>3, <1>10
  <2>3. CASE j < cursor
    <3>1. j \in 1..Len(list')
      BY <2>3, <1>3, <1>5
    <3>2. QED
      BY <2>1, <2>3, <3>1, <1>3
  <2>4. CASE j > cursor
    <3>1. j - 1 \in 1..Len(list') /\ j - 1 >= cursor /\ (j - 1) + 1 = j /\ ~(j < cursor)
      BY <2>4, <1>3, <1>5
    <3>2. list'[j - 1] = p
      BY <2>1, <3>1, <1>3
    <3>3. QED
      BY <2>1, <3>1, <3>2
  <2>5. QED
    BY <2>1, <2>2, <2>3, <2>4, <1>3
<1>11. ASSUME NEW p, NEW i \in 1..Len(list'), list'[i] = p, i < cursor \/ marked[p]
       PROVE  Survivor(p)
  <2>1. CASE i < cursor
    BY <2>1, <1>3, <1>11 DEF Survivor
  <2>2. CASE i >= cursor
    BY <2>2, <1>3, <1>11 DEF Survivor
  <2>3. QED
    BY <2>1, <2>2, <1>3
<1>12. SweepSound'
  <2>1. ASSUME NEW r \in Roots' PROVE Survivor(r)'
    <3>1. Survivor(r)
      BY <2>1, <1>1, <1>3 DEF SweepSound
    <3>2. QED
      BY <3>1, <1>2, <1>10 DEF Survivor
  <2>2. ASSUME NEW p \in Obj, NEW c \in Cell, Survivor(p)', cell'[p][c] # NoRef
        PROVE  Survivor(cell[p][c])'
    <3>1. Survivor(p)
      BY <2>2, <1>2, <1>11 DEF Survivor
    <3>2. Survivor(cell[p][c])
      BY <2>2, <3>1, <1>1, <1>2 DEF SweepSound
    <3>3. QED
      BY <3>2, <1>2, <1>10 DEF Survivor
  <2>3. ASSUME NEW i \in 1..Len(list'), i < cursor
        PROVE  markState'[list'[i]] = "White" /\ ~marked'[list'[i]]
    <3>1. i \in 1..Len(list) /\ list'[i] = list[i]
      BY <2>3, <1>3
    <3>2. markState[list[i]] = "White" /\ ~marked[list[i]]
      BY <2>3, <3>1, <1>1 DEF SweepSound
    <3>3. QED
      BY <3>1, <3>2, <1>2, <1>4, <1>5, <1>9 DEF TypeOK
  <2>4. QED
    BY <2>1, <2>2, <2>3, <1>2 DEF SweepSound
<1>13. QED
  BY <1>1, <1>2, <1>7, <1>8, <1>12
     DEF HeapClosed, Tricolour, FlagsAgree, CycleKeepsThreshold,
         AllWhiteOutsideCycle, RootsSeen, PassStart

\* At the end of the sweep the survivors are the heap, all of it White.
LEMMA EndSweepKeepsIInv ==
  ASSUME IInv, EndSweep
  PROVE  IInv'
<1> USE DEF IInv
<1>1. phase = "sweep" /\ phase' = "exec" /\ ~cycle' /\ cycle' \in BOOLEAN
  BY DEF EndSweep
<1>2. /\ globals' = globals /\ callStack' = callStack /\ cell' = cell /\ list' = list
      /\ markState' = markState /\ marked' = marked
      /\ processed' = processed /\ cursor' = cursor
  BY DEF EndSweep, progVars, markVars
<1>3. Heap' = Heap /\ Roots' = Roots /\ Heap \subseteq Obj
  BY <1>2, SameHeapAndRoots, HeapInObj
<1>4. threshold' \in Int
  BY VmHeapAssumption DEF EndSweep, allocCount, TypeOK
<1>5. TypeOK' /\ ListInjective'
  BY <1>1, <1>2, <1>4 DEF TypeOK, ListInjective
<1>6. \A i \in 1..Len(list) : i < cursor
  BY DEF EndSweep, TypeOK
<1>7. \A p : Survivor(p) <=> p \in Heap
  BY <1>6 DEF Survivor, Heap
<1>8. \A p \in Heap : markState[p] = "White" /\ ~marked[p]
  BY <1>1, <1>6 DEF SweepSound, Heap
<1>9. Roots \subseteq Heap /\ \A p \in Heap, c \in Cell : cell[p][c] \in Heap \cup {NoRef}
  BY <1>1, <1>3, <1>7 DEF SweepSound
<1>10. QED
  BY <1>1, <1>2, <1>3, <1>5, <1>8, <1>9
     DEF HeapClosed, Tricolour, FlagsAgree, CycleKeepsThreshold,
         AllWhiteOutsideCycle, RootsSeen, PassStart, SweepSound

\* The end of the run and steps that change nothing.
LEMMA QuietKeepsIInv ==
  ASSUME IInv, Finish \/ UNCHANGED vars
  PROVE  IInv'
<1> USE DEF IInv
<1>1. /\ globals' = globals /\ callStack' = callStack /\ cell' = cell /\ list' = list
      /\ markState' = markState /\ marked' = marked /\ threshold' = threshold
      /\ cycle' = cycle /\ processed' = processed /\ cursor' = cursor
      /\ phase' = phase \/ (phase = "exec" /\ phase' = "done")
  BY DEF Finish, vars, progVars, markVars, gcVars
<1>2. Heap' = Heap /\ Roots' = Roots
  BY <1>1, SameHeapAndRoots
<1>3. TypeOK' /\ ListInjective'
  BY <1>1 DEF TypeOK, ListInjective
<1>4. HeapClosed' /\ Tricolour' /\ FlagsAgree'
  BY <1>1, <1>2 DEF HeapClosed, Tricolour, FlagsAgree
<1>5. SweepSound'
  BY <1>1, <1>2 DEF SweepSound, Survivor
<1>6. QED
  BY <1>1, <1>2, <1>3, <1>4, <1>5
     DEF CycleKeepsThreshold, AtThreshold, allocCount, AllWhiteOutsideCycle,
         RootsSeen, PassStart

\* Every step of the VM keeps the invariant.
LEMMA NextKeepsIInv == IInv /\ [Next]_vars => IInv'
<1> SUFFICES ASSUME IInv, [Next]_vars PROVE IInv'
  OBVIOUS
<1>1. CASE Safepoint
  BY <1>1, BelowKeepsIInv, MarkRootsKeepsIInv, ScanKeepsIInv, YieldKeepsIInv,
     StartSweepKeepsIInv, SweepKeepKeepsIInv, SweepFreeKeepsIInv, EndSweepKeepsIInv
     DEF Safepoint
<1>2. CASE Instruction
  <2>1. ProgramEffect \/ Finish
    BY <1>2, InstructionEffect DEF IInv
  <2>2. QED
    BY <2>1, ProgramKeepsIInv, QuietKeepsIInv
<1>3. CASE Done \/ UNCHANGED vars
  BY <1>3, QuietKeepsIInv DEF Done
<1>4. QED
  BY <1>1, <1>2, <1>3 DEF Next

(***************************************************************************)
(* The invariant holds in every reachable state, whatever the number of    *)
(* objects, slots and cells, the threshold and the budget.                 *)
(***************************************************************************)
THEOREM InductiveInvariant == Spec => []IInv
<1>1. Init => IInv
  BY InitEstablishesIInv
<1>2. IInv /\ [Next]_vars => IInv'
  BY NextKeepsIInv
<1>3. QED
  BY <1>1, <1>2, PTL DEF Spec

-----------------------------------------------------------------------------
(* What follows from the invariant.                                        *)

\* A closed set of objects that holds S holds all that S reaches.
LEMMA ReachLeast ==
  ASSUME NEW S, NEW T \in SUBSET Obj, S \subseteq T, Abstract!HeldIn(T) \subseteq T
  PROVE  Abstract!ReachFrom(S) \subseteq T
  BY DEF Abstract!ReachFrom

\* What S reaches holds S and is closed.
LEMMA ReachClosed ==
  ASSUME NEW S \in SUBSET Obj
  PROVE  /\ S \subseteq Abstract!ReachFrom(S)
         /\ Abstract!HeldIn(Abstract!ReachFrom(S)) \subseteq Abstract!ReachFrom(S)
<1>1. S \subseteq Abstract!ReachFrom(S)
  BY DEF Abstract!ReachFrom
<1>2. ASSUME NEW o \in Abstract!HeldIn(Abstract!ReachFrom(S)),
             NEW T \in SUBSET Obj, S \subseteq T, Abstract!HeldIn(T) \subseteq T
      PROVE  o \in T
  <2>1. Abstract!ReachFrom(S) \subseteq T
    BY <1>2, ReachLeast
  <2>2. o \in Abstract!HeldIn(T)
    BY <1>2, <2>1 DEF Abstract!HeldIn
  <2>3. QED
    BY <1>2, <2>2
<1>3. \A o \in Abstract!HeldIn(Abstract!ReachFrom(S)) : o \in Obj
  BY DEF Abstract!HeldIn
<1>4. QED
  BY <1>1, <1>2, <1>3 DEF Abstract!ReachFrom

\* During a sweep everything reachable survives it.
LEMMA ReachableSurvives ==
  ASSUME IInv, phase = "sweep"
  PROVE  \A o \in Abstract!Reachable : Survivor(o)
<1> DEFINE T == {o \in Obj : Survivor(o)}
<1>1. Roots \subseteq T
  BY DEF IInv, TypeOK, SweepSound, Roots, RootValues, Frame, Value
<1>2. Abstract!HeldIn(T) \subseteq T
  BY VmHeapAssumption DEF IInv, SweepSound, Abstract!HeldIn
<1>3. QED
  BY <1>1, <1>2, ReachLeast DEF Abstract!Reachable

LEMMA IInvNoDangling == IInv => NoDangling
<1> SUFFICES ASSUME IInv PROVE NoDangling
  OBVIOUS
<1>1. CASE phase = "sweep"
  BY <1>1, ReachableSurvives DEF NoDangling, Survivor, Heap
<1>2. CASE phase # "sweep"
  <2>1. Heap \in SUBSET Obj /\ Roots \subseteq Heap
    BY <1>2, HeapInObj DEF IInv, HeapClosed
  <2>2. Abstract!HeldIn(Heap) \subseteq Heap
    BY <1>2, VmHeapAssumption DEF IInv, HeapClosed, Abstract!HeldIn
  <2>3. QED
    BY <2>1, <2>2, ReachLeast DEF NoDangling, Abstract!Reachable
<1>3. QED
  BY <1>1, <1>2

\* Type correctness of every reachable state of the VM.
THEOREM TypeCorrect == Spec => []TypeOK
<1>1. IInv => TypeOK
  BY DEF IInv
<1>2. QED
  BY <1>1, InductiveInvariant, PTL

\* Nothing the program can reach is ever deleted (sweep, object.cpp), with
\* any heap, any stack and any interleaving of collection and execution.
THEOREM MemorySafety == Spec => []NoDangling
  BY IInvNoDangling, InductiveInvariant, PTL

\* The tricolour invariant holds although push and insert have no barrier.
THEOREM TricolourHolds == Spec => []Tricolour
<1>1. IInv => Tricolour
  BY DEF IInv
<1>2. QED
  BY <1>1, InductiveInvariant, PTL

\* markState and marked agree whenever the program or the marking runs.
THEOREM FlagsNeverDiverge == Spec => []FlagsAgree
<1>1. IInv => FlagsAgree
  BY DEF IInv
<1>2. QED
  BY <1>1, InductiveInvariant, PTL

\* The branch of maybeCollect that scans without re-marking is never taken.
THEOREM ThresholdBranchDead == Spec => []CycleKeepsThreshold
<1>1. IInv => CycleKeepsThreshold
  BY DEF IInv
<1>2. QED
  BY <1>1, InductiveInvariant, PTL

\* A finished collection leaves the heap below the next threshold.
THEOREM CollectionMakesRoom == Spec => []SweepMakesRoom
<1>1. Init => SweepMakesRoom
  BY DEF Init, SweepMakesRoom
<1>2. ASSUME IInv, SweepMakesRoom, [Next]_vars PROVE SweepMakesRoom'
  <2>1. SUFFICES ASSUME phase' = "exec", ~cycle' PROVE ~AtThreshold'
    BY DEF SweepMakesRoom
  <2>2. CASE BelowThreshold
    BY <2>2 DEF BelowThreshold, AtThreshold, allocCount
  <2>3. CASE EndSweep
    <3>1. Len(list) \in Nat /\ list' = list
      BY <2>3, <1>2 DEF EndSweep, IInv, TypeOK
    <3>2. QED
      BY <2>3, <3>1, VmHeapAssumption DEF EndSweep, AtThreshold, allocCount
  <2>4. CASE MarkRoots \/ ScanObject \/ StartSweep \/ SweepKeep \/ SweepFree
    BY <2>1, <2>4 DEF MarkRoots, ScanObject, StartSweep, SweepKeep, SweepFree
  <2>5. CASE YieldToProgram
    BY <1>2, <2>1, <2>5 DEF YieldToProgram, DrainOver, gcVars, IInv, AllWhiteOutsideCycle
  <2>6. CASE Instruction
    BY <1>2, <2>1, <2>6, InstructionEffect DEF IInv, ProgramEffect, Finish
  <2>7. CASE Done \/ UNCHANGED vars
    BY <1>2, <2>1, <2>7 DEF Done, vars, SweepMakesRoom, AtThreshold, allocCount
  <2>8. QED
    BY <1>2, <2>2, <2>3, <2>4, <2>5, <2>6, <2>7 DEF Next, Safepoint
<1>3. QED
  BY <1>1, <1>2, InductiveInvariant, PTL DEF Spec

-----------------------------------------------------------------------------
(* The marking of a cycle only advances.                                   *)

\* In a cycle no instruction repaints an object: the write barrier meets no
\* White reference, and a new object is not on the heap yet.
LEMMA InstructionKeepsMarks ==
  ASSUME IInv, cycle, Instruction
  PROVE  \A p \in Heap : markState'[p] = markState[p]
<1> USE DEF IInv
<1>1. Heap \subseteq Obj /\ phase = "exec"
  BY HeapInObj
     DEF Instruction, Executed, Alloc, AllocCopy, LoadConst, LoadSlot, LoadGlobal,
         StoreGlobal, GetCell, SetCell, PushElem, TakeElem, ClearArray, Call, Return,
         FallOff, ThrowStruct, ThrowNew, Finish
<1>2. ASSUME NEW o \in Obj, NEW contents, NewObject(o, contents), NEW p \in Heap
      PROVE  markState'[p] = markState[p]
  BY <1>1, <1>2 DEF NewObject, TypeOK
<1>3. ASSUME NEW t \in Slot, NEW c \in Cell, NEW s \in Slot, SetCell(t, c, s)
      PROVE  markState' = markState
  <2>1. Top[s] # NoRef => markState[Top[s]] # "White"
    BY <1>1, TopHoldsRoots DEF RootsSeen
  <2>2. QED
    BY <1>3, <2>1 DEF SetCell, WriteBarrier
<1>4. CASE \/ \E s \in Slot : Alloc(s)
           \/ \E s, a, b \in Slot : AllocCopy(s, a, b)
           \/ \E k \in 1..Len(callStack), d \in Slot : ThrowNew(k, d)
  <2>1. \E o \in Obj : \E contents : NewObject(o, contents)
    BY <1>4 DEF Alloc, AllocCopy, ThrowNew
  <2>2. QED
    BY <1>2, <2>1
<1>5. CASE \E t, s \in Slot, c \in Cell : SetCell(t, c, s)
  BY <1>3, <1>5
<1>6. CASE UNCHANGED markVars
  BY <1>6 DEF markVars
<1>7. QED
  BY <1>4, <1>5, <1>6
     DEF Instruction, LoadConst, LoadSlot, LoadGlobal, StoreGlobal, GetCell, PushElem,
         TakeElem, ClearArray, Call, Return, FallOff, ThrowStruct, Finish

\* Scanning a Grey object of the list adds it to those scanned.
LEMMA ScanAdvances ==
  ASSUME IInv, ScanObject
  PROVE  Scanned \subseteq Scanned' /\ Scanned # Scanned'
<1>1. Heap \subseteq Obj /\ Heap' = Heap
  BY HeapInObj DEF IInv, ScanObject, Heap
<1>2. PICK i \in GreyFrom(cursor) :
        markState' = [p \in Obj |->
          IF p = list[i] THEN "Black"
          ELSE IF p \in {cell[list[i]][c] : c \in Cell} /\ markState[p] = "White"
                 THEN "Grey" ELSE markState[p]]
  BY DEF ScanObject
<1>3. i \in 1..Len(list) /\ markState[list[i]] = "Grey"
  BY <1>2 DEF GreyFrom, IInv, TypeOK, PassStart
<1>4. list[i] \in Heap
  BY <1>3 DEF Heap
<1>5. list[i] \in Scanned' /\ list[i] \notin Scanned
  BY <1>1, <1>2, <1>3, <1>4 DEF Scanned
<1>6. ASSUME NEW p \in Scanned PROVE p \in Scanned'
  BY <1>1, <1>2, <1>6 DEF Scanned
<1>7. QED
  BY <1>5, <1>6

(***************************************************************************)
(* The sweep of a cycle is put off at most once for each object: a pass    *)
(* that puts it off has scanned one, and nothing the program does, neither *)
(* a store nor an allocation, takes a scanned one back.                    *)
(***************************************************************************)
THEOREM MarkingOnlyAdvances == Spec => MarkingAdvances
<1>1. ASSUME IInv, Next \/ UNCHANGED vars, Marking, Marking'
      PROVE  /\ Scanned \subseteq Scanned'
             /\ processed' > processed => Scanned # Scanned'
  <2>1. CASE BelowThreshold
    BY <1>1, <2>1 DEF BelowThreshold, IInv, CycleKeepsThreshold, Marking
  <2>2. CASE MarkRoots
    <3>1. Heap' = Heap /\ Heap \subseteq Obj /\ processed' = 0 /\ processed \in Nat
      BY <1>1, <2>2, HeapInObj DEF MarkRoots, Heap, IInv, TypeOK
    <3>2. \A p \in Heap : markState[p] = "Black" => markState'[p] = "Black"
      BY <2>2, <3>1 DEF MarkRoots, MarkAll
    <3>3. QED
      BY <3>1, <3>2 DEF Scanned
  <2>3. CASE ScanObject
    BY <1>1, <2>3, ScanAdvances
  <2>4. CASE StartSweep \/ SweepKeep \/ SweepFree \/ EndSweep
    BY <1>1, <2>4 DEF StartSweep, SweepKeep, SweepFree, EndSweep, Marking
  <2>5. CASE YieldToProgram \/ Done \/ UNCHANGED vars
    <3>1. list' = list /\ markState' = markState /\ processed' = processed
      BY <2>5 DEF YieldToProgram, Done, vars, markVars, gcVars
    <3>2. QED
      BY <1>1, <3>1 DEF Scanned, Heap, IInv, TypeOK
  <2>6. CASE Instruction
    <3>1. \A p \in Heap : markState'[p] = markState[p]
      BY <1>1, <2>6, InstructionKeepsMarks DEF Marking
    <3>2. ProgramEffect \/ Finish
      BY <1>1, <2>6, InstructionEffect DEF IInv
    <3>3. processed' = processed /\ processed \in Nat
      BY <1>1, <3>2 DEF ProgramEffect, Finish, gcVars, IInv, TypeOK
    <3>4. ASSUME NEW o \in Obj \ Heap, list' = <<o>> \o list
          PROVE  Heap \subseteq Heap'
      BY <1>1, <3>4, HeapOfLongerList DEF IInv
    <3>5. list' = list \/ \E o \in Obj \ Heap : list' = <<o>> \o list
      BY <3>2 DEF ProgramEffect, Finish
    <3>6. Heap \subseteq Heap'
      BY <3>4, <3>5 DEF Heap
    <3>7. Scanned \subseteq Scanned'
      BY <3>1, <3>6 DEF Scanned
    <3>8. QED
      BY <3>3, <3>7
  <2>7. QED
    BY <1>1, <2>1, <2>2, <2>3, <2>4, <2>5, <2>6 DEF Next, Safepoint
<1>2. QED
  BY <1>1, InductiveInvariant, PTL DEF Spec, MarkingAdvances

-----------------------------------------------------------------------------
(* VmHeap implements Memory.                                               *)

LEMMA InitRefines == Init => Abstract!Init
<1> SUFFICES ASSUME Init PROVE Abstract!Init
  OBVIOUS
<1>1. Heap = {} /\ Roots = {}
  BY DEF Init, Heap, Roots, RootValues
<1>2. cell \in [Obj -> [Cell -> Value]]
  BY DEF Init, Value
<1>3. QED
  BY <1>1, <1>2 DEF Abstract!Init, Abstract!Value, Value

\* An instruction is one step of the abstract program.
LEMMA ProgramRefines ==
  ASSUME IInv, ProgramEffect
  PROVE  Abstract!ProgramStep
<1> DEFINE reach == Abstract!Reachable
           held  == reach \cup (Heap' \ Heap)
<1>1. phase = "exec" /\ TypeOK /\ TypeOK'
  BY DEF ProgramEffect, IInv
<1>2. Heap \subseteq Obj /\ Roots \subseteq Heap /\ Roots \subseteq Obj
  BY <1>1, HeapInObj DEF IInv, HeapClosed
<1>3. /\ Roots \subseteq reach
      /\ Abstract!HeldIn(reach) \subseteq reach
      /\ Abstract!HeldIn(Roots) \subseteq reach
      /\ reach \subseteq Heap
  <2>1. Roots \subseteq reach /\ Abstract!HeldIn(reach) \subseteq reach
    BY <1>2, ReachClosed DEF Abstract!Reachable
  <2>2. Abstract!HeldIn(Roots) \subseteq Abstract!HeldIn(reach)
    BY <2>1 DEF Abstract!HeldIn
  <2>3. QED
    BY <2>1, <2>2, IInvNoDangling DEF NoDangling
<1>4. \/ Heap' = Heap /\ Roots' \subseteq reach
      \/ \E o \in Obj \ Heap :
           /\ Heap' = Heap \cup {o}
           /\ Roots' \subseteq reach \cup {o}
           /\ \A c \in Cell : cell'[o][c] \in {NoRef} \cup reach
  <2>1. CASE list' = list /\ Roots' \subseteq Roots \cup Abstract!HeldIn(Roots)
    BY <2>1, <1>3 DEF Heap
  <2>2. ASSUME NEW o \in Obj \ Heap, list' = <<o>> \o list
        PROVE  Heap' = Heap \cup {o}
    BY <2>2, <1>1, HeapOfLongerList
  <2>3. QED
    BY <2>1, <2>2, <1>3 DEF ProgramEffect
<1>5. \A p \in Heap \ reach : cell'[p] = cell[p]
  <2>1. ASSUME NEW p \in Heap, p \notin reach PROVE cell'[p] = cell[p]
    <3>1. \A c \in Cell : cell'[p][c] = cell[p][c]
      BY <2>1, <1>3 DEF ProgramEffect
    <3>2. cell[p] \in [Cell -> Value] /\ cell'[p] \in [Cell -> Value]
      BY <2>1, <1>1, <1>2 DEF TypeOK
    <3>3. QED
      BY <3>1, <3>2
  <2>2. QED
    BY <2>1
<1>6. \A p \in held, c \in Cell : cell'[p][c] \in held \cup {NoRef}
  <2>1. ASSUME NEW p \in reach, NEW c \in Cell PROVE cell'[p][c] \in reach \cup {NoRef}
    <3>1. p \in Heap /\ p \in Obj
      BY <2>1, <1>2, <1>3
    <3>2. cell[p][c] \in Obj \cup {NoRef}
      BY <3>1, <1>1 DEF TypeOK, Value
    <3>3. cell[p][c] \in reach \cup {NoRef}
      BY <2>1, <3>2, <1>3 DEF Abstract!HeldIn
    <3>4. cell'[p][c] = cell[p][c] \/ cell'[p][c] \in Roots \cup {NoRef}
      BY <3>1 DEF ProgramEffect
    <3>5. QED
      BY <3>3, <3>4, <1>3
  <2>2. ASSUME NEW p \in Heap' \ Heap, NEW c \in Cell
        PROVE  cell'[p][c] \in reach \cup {NoRef}
    BY <2>2, <1>4
  <2>3. QED
    BY <2>1, <2>2
<1>7. Heap \subseteq Heap' /\ Roots' \subseteq held
  BY <1>4
<1>8. QED
  BY <1>5, <1>6, <1>7 DEF Abstract!ProgramStep

\* Deleting an unmarked object reclaims an unreachable one.
LEMMA SweepFreeRefines ==
  ASSUME IInv, SweepFree
  PROVE  Abstract!Reclaim
<1>1. /\ cursor \in 1..Len(list)
      /\ ~Survivor(list[cursor])
      /\ Heap' = Heap \ {list[cursor]}
      /\ Roots' = Roots /\ cell' = cell
  BY SweepFreeEffect
<1>2. list[cursor] \in Heap \ Abstract!Reachable
  BY <1>1, ReachableSurvives, HeapInObj DEF SweepFree, IInv
<1>3. QED
  BY <1>1, <1>2 DEF Abstract!Reclaim

\* Every other step of the collector is invisible to the program.
LEMMA CollectorHidden ==
  ASSUME BelowThreshold \/ MarkRoots \/ ScanObject \/ YieldToProgram \/ StartSweep
           \/ SweepKeep \/ EndSweep \/ Finish \/ Done \/ UNCHANGED vars
  PROVE  UNCHANGED Abstract!memVars
<1>1. list' = list /\ globals' = globals /\ callStack' = callStack /\ cell' = cell
  BY DEF BelowThreshold, MarkRoots, ScanObject, YieldToProgram, StartSweep,
         SweepKeep, EndSweep, Finish, Done, vars, progVars
<1>2. QED
  BY <1>1, SameHeapAndRoots DEF Abstract!memVars

(***************************************************************************)
(* The VM with its incremental collector implements the abstract memory:   *)
(* a program cannot tell it from one that never deletes what it can reach. *)
(***************************************************************************)
THEOREM Refinement == Spec => ImplementsMemory
<1>1. Init => Abstract!Init
  BY InitRefines
<1>2. ASSUME IInv, [Next]_vars PROVE [Abstract!Next]_(Abstract!memVars)
  <2>1. CASE Instruction
    <3>1. ProgramEffect \/ Finish
      BY <1>2, <2>1, InstructionEffect DEF IInv
    <3>2. QED
      BY <3>1, <1>2, ProgramRefines, CollectorHidden DEF Abstract!Next
  <2>2. CASE SweepFree
    BY <1>2, <2>2, SweepFreeRefines DEF Abstract!Next
  <2>3. QED
    BY <1>2, <2>1, <2>2, CollectorHidden DEF Next, Safepoint
<1>3. QED
  BY <1>1, <1>2, InductiveInvariant, PTL DEF Spec, ImplementsMemory, Abstract!Spec
=============================================================================
