--------------------------- MODULE MCModuleNames ---------------------------
(* Import graphs for the loader, and small programs for the names.          *)
EXTENDS ModuleNames, FiniteSets

CONSTANTS a, b, c, x, y, z

\* At most two imports in a file, at most one file missing.
SmallGraphs == [Files -> {s \in SUBSET Files : Cardinality(s) <= 2}]
SmallLosses == {s \in SUBSET Files : Cardinality(s) <= 1}

From(f, n)        == [from |-> f, ends |-> {f}, name |-> n, as |-> n]
Global(n, e, r)   == [kind |-> "global", name |-> n, exported |-> e, reads |-> r]
Function(n, e, r) == [kind |-> "function", name |-> n, exported |-> e, reads |-> r]

\* Files without declarations.
AsSeq(S) == CHOOSE s \in [1..Cardinality(S) -> S] : {s[i] : i \in 1..Cardinality(S)} = S
Bare(G)  == [f \in Files |-> [decls   |-> << >>,
                              imports |-> [i \in 1..Cardinality(G[f]) |-> From(AsSeq(G[f])[i], x)]]]
BareTexts == {Bare(G) : G \in SmallGraphs}

\* a reads what b and c declare, b what c declares; an import of b may rename
\* what it asks for, and its text may fit c too, or no path at all.
TextsOfA ==
  {[imports |-> is, decls |-> ds] :
     is \in {<<From(b, y)>>, <<From(b, y), From(c, z)>>, <<From(c, z), From(b, y)>>,
             <<[From(b, y) EXCEPT !.as = z]>>, <<[From(b, y) EXCEPT !.ends = {}]>>, <<[From(b, y) EXCEPT !.ends = {b, c}]>>},
     ds \in {<<Global(x, FALSE, {y})>>, <<Global(x, FALSE, {}), Global(z, FALSE, {x, y})>>,
             <<Function(x, FALSE, {y, z})>>, <<Function(y, FALSE, {y})>>}}
TextsOfB ==
  {[imports |-> is, decls |-> ds] :
     is \in {<< >>, <<From(c, z)>>},
     ds \in {<<Global(y, TRUE, {})>>, <<Global(y, FALSE, {})>>, <<Global(y, TRUE, {z})>>,
             <<Function(y, TRUE, {z})>>, <<Global(z, FALSE, {}), Global(y, TRUE, {z})>>}}
TextsOfC ==
  {[imports |-> << >>, decls |-> ds] :
     ds \in {<<Global(z, TRUE, {})>>, <<Global(z, FALSE, {})>>, <<Function(z, TRUE, {})>>,
             <<Global(y, TRUE, {}), Global(z, TRUE, {y})>>}}
Nothing == [imports |-> << >>, decls |-> << >>]
Programs ==
  {[f \in Files |-> CASE f = a -> ta [] f = b -> tb [] f = c -> tc [] OTHER -> Nothing] :
     ta \in TextsOfA, tb \in TextsOfB, tc \in TextsOfC}

AllTexts == BareTexts \cup Programs
=============================================================================
