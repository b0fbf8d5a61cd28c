------------------------------ MODULE MCJitHeap ------------------------------
(* The instances of JitHeap that TLC checks. *)
EXTENDS JitHeap, TLC

\* main has two slots, what it calls has one.
TwoThenOne == <<2, 1>>

Addresses == Permutations(Obj)
=============================================================================
