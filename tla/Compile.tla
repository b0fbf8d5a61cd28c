------------------------------ MODULE Compile ------------------------------
(***************************************************************************)
(* A program on its way from its tree to what it prints: the type checker  *)
(* accepts or rejects it, the generator writes its code, and the virtual   *)
(* machine runs the code, or with --jit native code when the JIT takes     *)
(* all of it.  Both are run here, one after the other, to compare them.    *)
(***************************************************************************)
EXTENDS Optimizer, Evaluation, JitMachine

CONSTANTS Programs,  \* the bodies of main
          Globals    \* the declarations of the global variables

VARIABLES phase,     \* how far the program is
          tree,      \* the body of main, with types once it is checked
          meaning,   \* what the checked program means
          code,      \* the code of every function
          vm,        \* the virtual machine
          jit        \* the native code's registers, heap and output

vars == <<phase, tree, meaning, code, vm, jit>>

-----------------------------------------------------------------------------
(* The functions and the global variables every program has.                *)

TypedGlobals == CheckSeq(Globals, Nothing(Unchecked(VoidType))).es
CheckedBody(f) == CheckFunction(Library[f].body, Declared[f].parts[1]).e

FunctionUnit(f) ==
  Compiled(GenFunction(Library[f].params, CheckedBody(f), Declared[f].parts[1],
                       NewFunction([i \in DOMAIN Globals |-> Globals[i].name])),
           Tail(Declared[f].parts))
LibraryUnits == [f \in DOMAIN Library |-> FunctionUnit(f)]

GlobalNames == {Globals[i].name : i \in DOMAIN Globals}

-----------------------------------------------------------------------------
NoMachine == [frames |-> << >>, heap |-> << >>, out |-> << >>, error |-> "", globals |-> << >>]

Init == /\ phase = "source"
        /\ tree \in Programs
        /\ meaning = Fresh0
        /\ code = << >>
        /\ vm = NoMachine
        /\ jit = NoMachine

Accepted(r) ==
  /\ ~Rejected(r.s)
  /\ phase' = "checked"
  /\ tree' = r.e
  /\ meaning' = ProgramMeaning(TypedGlobals, r.e)
Refused(r) ==
  /\ Rejected(r.s)
  /\ phase' = "rejected"
  /\ UNCHANGED <<tree, meaning>>
CheckTypes ==
  /\ phase = "source"
  /\ \E r \in {CheckFunction(tree, VoidType)} : Accepted(r) \/ Refused(r)
  /\ UNCHANGED <<code, vm, jit>>

\* With --optimized; the compiler may end here with a trap of the host.
OptimizeTree ==
  /\ phase = "checked"
  /\ Optimize(tree) # tree
  /\ tree' = Optimize(tree)
  /\ phase' = IF Trapped(tree) THEN "trapped" ELSE "optimized"
  /\ UNCHANGED <<meaning, code, vm, jit>>

Generate ==
  /\ phase \in {"checked", "optimized"}
  /\ phase' = "generated"
  /\ code' = ("main" :> Compiled(GenMain(TypedGlobals, tree), << >>)) @@ LibraryUnits
  /\ UNCHANGED <<tree, meaning, vm, jit>>

\* The runs of the two machines to their end; no program here has a loop.
RECURSIVE VmRun(_, _)
VmRun(prog, m) == IF Finished(m) THEN m ELSE VmRun(prog, VmStep(prog, m))
RECURSIVE JitRun(_, _, _)
JitRun(prog, raising, j) ==
  IF JitFinished(j) THEN j ELSE JitRun(prog, raising, JitStep(prog, raising, j))

RunVm ==
  /\ phase = "generated"
  /\ phase' = "ran"
  /\ vm' = VmRun(code, Started(code, GlobalNames))
  /\ UNCHANGED <<tree, meaning, code, jit>>

RunJit ==
  /\ phase = "ran"
  /\ IF Compilable(code)
     THEN /\ phase' = "ran native"
          /\ jit' = JitRun(code, Raising(code), JitStarted(code, GlobalNames))
     ELSE /\ phase' = "refused"
          /\ UNCHANGED jit
  /\ UNCHANGED <<tree, meaning, code, vm>>

Stopped == phase \in {"rejected", "trapped", "ran native", "refused"} /\ UNCHANGED vars

Next == CheckTypes \/ OptimizeTree \/ Generate \/ RunVm \/ RunJit \/ Stopped

Spec == Init /\ [][Next]_vars
-----------------------------------------------------------------------------
\* What a program prints, and the error it ends with, is what it means.
PrintsTheMeaning ==
  phase = "ran" /\ meaning.odd \subseteq NativeOnly => vm.out = meaning.out /\ vm.error = meaning.error

\* And native code prints what the virtual machine prints.
BackendsAgree ==
  phase = "ran native" /\ meaning.odd = {} =>
    ~jit.strayed /\ jit.out = vm.out /\ jit.error = vm.error

=============================================================================
