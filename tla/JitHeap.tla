------------------------------- MODULE JitHeap -------------------------------
(***************************************************************************)
(* The memory of compiled code: references live in MIR registers, which    *)
(* the collector cannot see, and some of them are copied to the shadow     *)
(* stack (vm/shadow_stack.hpp), which it can.  jitMaybeCollect             *)
(* (mir/mir_backend.cpp) stops the program at an allocation and sweeps     *)
(* everything that the shadow stack, the globals and the pending error do  *)
(* not reach.                                                              *)
(*                                                                         *)
(* An action is one bytecode instruction as the backend translates it,     *)
(* with the trampoline it calls.  The program is arbitrary: any            *)
(* instruction may follow any other.                                       *)
(***************************************************************************)
EXTENDS Integers, Sequences, FiniteSets

CONSTANTS
  Obj,           \* addresses of heap objects; a freed address is reused
  NoRef,         \* no reference: null, a number, a string of the pool
  Wild,          \* bits that are no reference, where one is expected
  Swept,         \* the reference of an object that is gone
  SlotCount,     \* slots of a function, at the most
  SlotsAt,       \* bound: the slots of the functions on a chain of calls
  Field,         \* fields of a struct, elements of a Ref array
  MinThreshold,  \* 1024 in jitMaybeCollect
  MaxShadow      \* bound on the shadow stack at a call; the code has none

ASSUME JitHeapAssumption ==
  /\ NoRef \notin Obj /\ Wild \notin Obj /\ Swept \notin Obj
  /\ NoRef # Wild /\ NoRef # Swept /\ Wild # Swept
  /\ SlotCount \in Nat /\ MinThreshold \in Nat
  /\ MaxShadow \in Nat
  /\ SlotsAt \in Seq(0..SlotCount) /\ SlotsAt # << >>
  /\ IsFiniteSet(Obj)

VARIABLES
  frames,    \* the activations: registers and the base in the shadow stack
  shadow,    \* jitShadowStack().slots
  global,    \* g_jitGlobalP, one entry
  pending,   \* g_jitPendingError
  heap,      \* the objects that exist
  cell,      \* what they hold
  greyed,    \* objects that a host call has marked for the next collection
  threshold, \* g_jitGcThreshold
  crashed    \* "no", or how the program came to use a dead reference

vars == <<frames, shadow, global, pending, heap, cell, greyed, threshold, crashed>>

M == INSTANCE Memory WITH Cell <- Field, roots <- {}

Slot == 0..(SlotCount - 1)
Value == Obj \cup {NoRef}

\* checks: canRaise, the function looks for pending errors.
\* mirrored: the slots whose last write was also a rt_jit_shadow_set.
Frame == [base : Nat, checks : BOOLEAN, reg : [Slot -> Value \cup {Wild, Swept}],
          mirrored : SUBSET Slot]

TypeOK ==
  /\ frames \in Seq(Frame)
  /\ shadow \in Seq(Value \cup {Wild})
  /\ global \in Value /\ pending \in Value
  /\ heap \in SUBSET Obj
  /\ cell \in [Obj -> [Field -> Value]]
  /\ greyed \in SUBSET Obj
  /\ threshold \in Nat
  /\ crashed \in {"no", "lost", "wild"}

NewFrame(base, checks, reg) ==
  [base |-> base, checks |-> checks, reg |-> reg, mirrored |-> {}]

Init ==
  /\ \E checks \in BOOLEAN : frames = <<NewFrame(0, checks, [s \in Slot |-> NoRef])>>
  /\ shadow = << >>
  /\ global = NoRef /\ pending = NoRef
  /\ heap = {} /\ greyed = {}
  /\ cell = [o \in Obj |-> [f \in Field |-> NoRef]]
  /\ threshold = MinThreshold
  /\ crashed = "no"

-----------------------------------------------------------------------------
(* The shadow stack.                                                       *)

\* Mutant of Enter: slots are numbered from the bottom of the stack.
EnterAbsolute(stack) == 0

\* ShadowStack::enter
Enter(stack) == Len(stack)

\* ShadowStack::leave
Rewound(stack, base) == SubSeq(stack, 1, base)

\* ShadowStack::set: the stack grows up to the index.
Mirror(stack, index, v) ==
  [i \in 1..(IF index < Len(stack) THEN Len(stack) ELSE index + 1) |->
     IF i = index + 1 THEN v
     ELSE IF i <= Len(stack) THEN stack[i] ELSE NoRef]

-----------------------------------------------------------------------------
(* The collector.                                                          *)

\* Mutant of Roots: the shadow stack of the running function only.
RootsOfTop ==
  {shadow[i] : i \in (frames[Len(frames)].base + 1)..Len(shadow)}
    \cup {global, pending} \cup greyed

\* Mutant of Roots: an error on its way to a handler is not marked.
RootsNoPending == {shadow[i] : i \in DOMAIN shadow} \cup {global} \cup greyed

\* What jitMaybeCollect marks; the grey list may hold more.
Roots == {shadow[i] : i \in DOMAIN shadow} \cup {global, pending} \cup greyed

AtThreshold == Cardinality(heap) >= threshold

\* The objects that an allocation finds after it may have collected.
Kept == IF AtThreshold THEN M!ReachFrom(Roots \cap Obj) ELSE heap

Larger(a, b) == IF a < b THEN b ELSE a

\* A frame after the objects outside kept are gone.
AfterSweep(fr, kept) ==
  [fr EXCEPT !.reg = [s \in Slot |-> IF @[s] \in Obj \ kept THEN Swept ELSE @[s]]]

\* jitMaybeCollect, then an object of the heap at a free address.
Allocate(o) ==
  /\ AtThreshold => Wild \notin Roots
  /\ o \in Obj \ Kept
  /\ heap' = Kept \cup {o}
  /\ cell' = [p \in Obj |-> IF p \in Kept THEN cell[p] ELSE [f \in Field |-> NoRef]]
  /\ threshold' = IF AtThreshold THEN Larger(MinThreshold, 2 * Cardinality(Kept))
                  ELSE threshold
  /\ greyed' = IF AtThreshold THEN {} ELSE greyed

\* An object that is allocated without jitMaybeCollect.
AllocateOnly(o) ==
  /\ o \in Obj \ heap
  /\ heap' = heap \cup {o}
  /\ cell' = [cell EXCEPT ![o] = [f \in Field |-> NoRef]]
  /\ UNCHANGED threshold

-----------------------------------------------------------------------------
(* The instructions.                                                       *)

Top == frames[Len(frames)]

\* The next instruction runs, unless the function sees a pending error.
Going == crashed = "no" /\ frames # << >>
Sees  == Top.checks /\ pending # NoRef
Running == Going /\ ~Sees

\* The program uses the reference in slot a.
Uses(a) == Top.reg[a] \in Value

\* The frames once v is in slot s of the last one.
Write(fs, s, v, seen) ==
  [fs EXCEPT ![Len(fs)].reg[s] = v,
             ![Len(fs)].mirrored = IF seen THEN @ \cup {s} ELSE @ \ {s}]

AllSwept == [i \in DOMAIN frames |-> AfterSweep(frames[i], Kept)]

\* emitShadowSet behind an instruction of the running function.
EmitShadowSet(s, v) == shadow' = Mirror(shadow, Top.base + s, v)

\* ARRAY_NEW, STRUCT_NEW, a string element or field, a string from the host.
New(s, o) ==
  /\ Running
  /\ Allocate(o)
  /\ frames' = Write(AllSwept, s, o, TRUE)
  /\ EmitShadowSet(s, o)
  /\ UNCHANGED <<global, pending, crashed>>

\* STRING_CONCAT and the casts to string: no emitShadowSet.
Concat(s, o) ==
  /\ Running
  /\ Allocate(o)
  /\ frames' = Write(AllSwept, s, o, FALSE)
  /\ UNCHANGED <<shadow, global, pending, crashed>>

\* jitBoxDecimal: seen by the shadow stack for elements, fields and results
\* of the host, not for arithmetic and constants.
Box(s, o, seen) ==
  /\ Running
  /\ AllocateOnly(o)
  /\ frames' = Write(frames, s, o, seen)
  /\ IF seen THEN EmitShadowSet(s, o) ELSE UNCHANGED shadow
  /\ UNCHANGED <<global, pending, greyed, crashed>>

\* CALLHOST that returns an array: the host allocates, the backend marks.
HostArray(s, o) ==
  /\ Running
  /\ Top.checks
  /\ AllocateOnly(o)
  /\ greyed' = greyed \cup {o}
  /\ frames' = Write(frames, s, o, TRUE)
  /\ EmitShadowSet(s, o)
  /\ UNCHANGED <<global, pending, crashed>>

\* Mutant of CopySlot: the copy is taken for one of the shadow stack.
CopySlotSeen(s, a) ==
  /\ Running
  /\ Uses(a)
  /\ frames' = Write(frames, s, Top.reg[a], TRUE)
  /\ UNCHANGED <<shadow, global, pending, heap, cell, greyed, threshold, crashed>>

\* LOAD_SLOT
CopySlot(s, a) ==
  /\ Running
  /\ Uses(a)
  /\ frames' = Write(frames, s, Top.reg[a], FALSE)
  /\ UNCHANGED <<shadow, global, pending, heap, cell, greyed, threshold, crashed>>

\* LOAD_NULL, LOAD_STRING
LoadNull(s) ==
  /\ Running
  /\ frames' = Write(frames, s, NoRef, FALSE)
  /\ UNCHANGED <<shadow, global, pending, heap, cell, greyed, threshold, crashed>>

LoadGlobal(s) ==
  /\ Running
  /\ frames' = Write(frames, s, global, TRUE)
  /\ EmitShadowSet(s, global)
  /\ UNCHANGED <<global, pending, heap, cell, greyed, threshold, crashed>>

StoreGlobal(a) ==
  /\ Running
  /\ Uses(a)
  /\ global' = Top.reg[a]
  /\ UNCHANGED <<frames, shadow, pending, heap, cell, greyed, threshold, crashed>>

\* ARRAY_GET, FIELD_GET of a reference
Get(s, a, f) ==
  /\ Running
  /\ Uses(a) /\ Top.reg[a] \in Obj
  /\ frames' = Write(frames, s, cell[Top.reg[a]][f], TRUE)
  /\ EmitShadowSet(s, cell[Top.reg[a]][f])
  /\ UNCHANGED <<global, pending, heap, cell, greyed, threshold, crashed>>

\* ARRAY_SET, FIELD_SET: jitUnboxForSlot stores a string or a decimal by value.
Set(a, f, b) ==
  /\ Running
  /\ Uses(a) /\ Top.reg[a] \in Obj /\ Uses(b)
  /\ \E v \in {Top.reg[b], NoRef} : cell' = [cell EXCEPT ![Top.reg[a]][f] = v]
  /\ UNCHANGED <<frames, shadow, global, pending, heap, greyed, threshold, crashed>>

\* CALL: the callee has the argument in a register only.  A function that
\* calls one that checks does so itself (canRaise is a fixed point).
Call(a) ==
  /\ Running
  /\ Uses(a)
  /\ Len(frames) < Len(SlotsAt) /\ Len(shadow) <= MaxShadow
  /\ \E checks \in {Top.checks, FALSE} :
       frames' = Append(frames, NewFrame(Enter(shadow), checks,
         [s \in Slot |-> IF s = 0 THEN Top.reg[a] ELSE NoRef]))
  /\ UNCHANGED <<shadow, global, pending, heap, cell, greyed, threshold, crashed>>

Callers == SubSeq(frames, 1, Len(frames) - 1)
Caller == Callers[Len(Callers)]

\* The callee returns to a caller that takes no reference from it, or to the
\* end of the program.
LeaveWith(stack) ==
  /\ frames' = Callers
  /\ shadow' = stack

\* The caller takes the reference v into slot d and mirrors it.
LeaveInto(stack, d, v) ==
  /\ Callers # << >>
  /\ frames' = Write(Callers, d, v, TRUE)
  /\ shadow' = Mirror(stack, Caller.base + d, v)

\* RETURN
Return(a, d) ==
  /\ Running
  /\ Uses(a)
  /\ \/ LeaveWith(Rewound(shadow, Top.base))
     \/ LeaveInto(Rewound(shadow, Top.base), d, Top.reg[a])
  /\ UNCHANGED <<global, pending, heap, cell, greyed, threshold, crashed>>

\* jitSetError: the error is allocated without collecting; the first error
\* wins.  A sum of decimals may fail in a function that does not check.
Raise(o) ==
  /\ Running
  /\ pending = NoRef
  /\ AllocateOnly(o)
  /\ pending' = o
  /\ UNCHANGED <<frames, shadow, global, greyed, crashed>>

\* THROW of a struct, rt_jit_throw_p: throwing null leaves no error.
Throw(a) ==
  /\ Running
  /\ Top.checks
  /\ Uses(a)
  /\ pending' = Top.reg[a]
  /\ UNCHANGED <<frames, shadow, global, heap, cell, greyed, threshold, crashed>>

\* An int or byte element out of bounds: RET from the middle of the function
\* with whatever its register holds, and without rt_jit_shadow_leave.
FailDirectly(o, d) ==
  /\ Running
  /\ Top.checks
  /\ AllocateOnly(o)
  /\ pending' = o
  /\ \/ LeaveWith(shadow)
     \/ LeaveInto(shadow, d, NoRef)
     \/ /\ Callers # << >>
        /\ frames' = Write(Callers, d, Wild, FALSE)
        /\ shadow' = Mirror(shadow, Caller.base + d, Wild)
  /\ UNCHANGED <<global, greyed, crashed>>

\* The check behind an instruction, inside a try statement.
Catch(d) ==
  /\ Going /\ Sees
  /\ frames' = Write(frames, d, pending, TRUE)
  /\ EmitShadowSet(d, pending)
  /\ pending' = NoRef
  /\ UNCHANGED <<global, heap, cell, greyed, threshold, crashed>>

\* The check behind an instruction, outside: the end of the function.
Propagate(d) ==
  /\ Going /\ Sees
  /\ \/ LeaveWith(Rewound(shadow, Top.base))
     \/ LeaveInto(Rewound(shadow, Top.base), d, NoRef)
  /\ UNCHANGED <<global, pending, heap, cell, greyed, threshold, crashed>>

\* The program uses a slot that holds no live reference.
UseDead(a) ==
  /\ Running
  /\ ~Uses(a)
  /\ crashed' = IF Top.reg[a] = Swept THEN "lost" ELSE "wild"
  /\ UNCHANGED <<frames, shadow, global, pending, heap, cell, greyed, threshold>>

\* The collector follows bits that are no reference.
MarkWild ==
  /\ Running
  /\ AtThreshold /\ Wild \in Roots
  /\ crashed' = "wild"
  /\ UNCHANGED <<frames, shadow, global, pending, heap, cell, greyed, threshold>>

\* The slots of the running function and of its caller.
Slots == 0..(SlotsAt[Len(frames)] - 1)
CallerSlots == IF Len(frames) < 2 THEN {0} ELSE 0..(SlotsAt[Len(frames) - 1] - 1)

Allocation ==
  \E s \in Slots, o \in Obj :
    \/ New(s, o) \/ Concat(s, o) \/ HostArray(s, o)
    \/ \E seen \in BOOLEAN : Box(s, o, seen)

Move ==
  \E s \in Slots :
    \/ LoadNull(s) \/ LoadGlobal(s) \/ StoreGlobal(s) \/ Call(s) \/ Throw(s)
    \/ UseDead(s) \/ Catch(s)
    \/ \E a \in Slots : CopySlot(s, a) \/ \E f \in Field : Get(s, a, f) \/ Set(s, f, a)
    \/ \E d \in CallerSlots : Return(s, d)

Failure ==
  \/ \E d \in CallerSlots : Propagate(d) \/ \E o \in Obj : FailDirectly(o, d)
  \/ \E o \in Obj : Raise(o)

Next == frames # << >> /\ (Allocation \/ Move \/ Failure \/ MarkWild)

Spec == Init /\ [][Next]_vars

-----------------------------------------------------------------------------
(* What the shadow stack gives.                                            *)

\* The shadow stack is a mirror of every register that was written to it:
\* no call, return, error or other function disturbs the entry of a slot
\* (ShadowStack::enter, leave and set; rt_jit_shadow_set writes relative to
\* the base of the function).
ShadowIsMirror ==
  \A i \in DOMAIN frames : \A s \in frames[i].mirrored :
    /\ frames[i].base + s < Len(shadow)
    /\ shadow[frames[i].base + s + 1] = frames[i].reg[s]

\* The registers that the shadow stack has.
MirroredRefs == UNION {{frames[i].reg[s] : s \in frames[i].mirrored} : i \in DOMAIN frames}

\* jitMaybeCollect never takes an object that the program reaches from a
\* mirrored register of any call in progress, from a global, or from the
\* error on its way to a handler.
MirroredSurvive ==
  /\ MirroredRefs \subseteq Value
  /\ M!ReachFrom((MirroredRefs \cup {global, pending}) \cap Obj) \subseteq heap

=============================================================================
