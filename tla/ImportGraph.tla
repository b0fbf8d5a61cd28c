---------------------------- MODULE ImportGraph ----------------------------
(* Import graphs: G[f] is the set of files that the file f imports.         *)

CONSTANT Files     \* canonical paths

\* b can be reached from a in the graph G: it is in every set of files that has
\* a and, with a file, all its imports.
Closed(G, S)   == \A f \in S : G[f] \subseteq S
Leads(G, a, b) == \A S \in SUBSET Files : a \in S /\ Closed(G, S) => b \in S

\* The imports of G that lead back to their file.
Circular(G) == {e \in Files \X Files : e[2] \in G[e[1]] /\ Leads(G, e[2], e[1])}

\* G without the imports in E.
Without(G, E) == [f \in Files |-> {g \in G[f] : <<f, g>> \notin E}]

\* The sets of circular imports of the files in U without which no circle begins
\* in U.
Cuts(G, U) ==
  {R \in SUBSET {i \in Circular(G) : i[1] \in U} :
     \A i \in Circular(Without(G, R)) : i[1] \notin U}
=============================================================================
