--------------------------- MODULE MCLspDocuments ---------------------------
(* Three files: a imports b, b may import c or a, and any may be wrong.     *)
EXTENDS LspDocuments

Text(o, x, is) == [own |-> o, exports |-> x, imports |-> is]

ThreeFiles == {"a", "b", "c"}

Texts ==
  [f \in ThreeFiles |->
     CASE f = "a" -> {Text(TRUE, TRUE, {"b", "c"})}
       [] f = "b" -> {Text(FALSE, TRUE, {"c"}), Text(TRUE, TRUE, {"a"})}
       [] f = "c" -> {Text(FALSE, TRUE, {}), Text(FALSE, FALSE, {"c"})}]
=============================================================================
