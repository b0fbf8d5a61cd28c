------------------------------- MODULE Memory -------------------------------
(***************************************************************************)
(* What the saQut virtual machine promises about memory, without saying    *)
(* how: a running program sees a store that never loses an object it can   *)
(* still reach, and objects it cannot reach may silently disappear.        *)
(*                                                                         *)
(* The collector of src/src/vm (object.cpp, Interpreter::maybeCollect) is  *)
(* shown to implement this specification in VmHeap and VmHeapProofs.       *)
(***************************************************************************)
CONSTANTS
  Obj,     \* every object identity (address) the allocator may hand out
  Cell,    \* the places of an object that may hold a reference
  NoRef    \* any value that is not a reference (int, string, null, ...); not in Obj

VARIABLES
  heap,    \* the objects that exist
  roots,   \* the objects the program holds directly (globals, frames)
  cell     \* what each object holds: [Obj -> [Cell -> Obj \cup {NoRef}]]

memVars == <<heap, roots, cell>>

Value == Obj \cup {NoRef}

\* The objects held by a set of objects.
HeldIn(S) == {cell[p][c] : p \in S, c \in Cell} \cap Obj

\* What can be reached from the members of S: the least set that holds S
\* and everything its members hold, written without recursion.
ReachFrom(S) ==
  LET closed == {T \in SUBSET Obj : S \subseteq T /\ HeldIn(T) \subseteq T}
  IN  {o \in Obj : \A T \in closed : o \in T}

Reachable == ReachFrom(roots)

Init ==
  /\ heap = {}
  /\ roots = {}
  /\ cell \in [Obj -> [Cell -> Value]]

(***************************************************************************)
(* One program step: it may allocate, may rewrite the contents of any      *)
(* object it reaches, and afterwards holds only objects that it reached    *)
(* before or has just allocated.  It never removes an object.              *)
(***************************************************************************)
ProgramStep ==
  LET reach == Reachable
      fresh == heap' \ heap
      held  == reach \cup fresh
  IN  /\ heap \subseteq heap'
      /\ roots' \subseteq held
      /\ \A o \in heap \ reach : cell'[o] = cell[o]
      /\ \A o \in held, c \in Cell : cell'[o][c] \in held \cup {NoRef}

\* The collector removes one unreachable object and touches nothing else.
Reclaim ==
  \E o \in heap :
    /\ heap' = heap \ {o}
    /\ o \notin Reachable
    /\ UNCHANGED <<roots, cell>>

Next == ProgramStep \/ Reclaim

Spec == Init /\ [][Next]_memVars
=============================================================================
