------------------------------ MODULE MCVmHeap ------------------------------
(* Instances of VmHeap for TLC. *)
EXTENDS VmHeap, TLC

\* Addresses are interchangeable: the list order, not the name, decides.
Symmetry == Permutations(Obj)
=============================================================================
