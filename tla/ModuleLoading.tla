---------------------------- MODULE ModuleLoading ----------------------------
(***************************************************************************)
(* ModuleLoader::load and loadUnit (src/src/module/module_loader.cpp): the *)
(* recursive loading of a program's files along their imports, with the    *)
(* chain that finds circular imports and the set that loads a file once.   *)
(*                                                                         *)
(* A file is what it imports.  The order of the imports in a file is left  *)
(* open: the loader takes them in any order.                               *)
(***************************************************************************)
EXTENDS Naturals, Sequences, ImportGraph

CONSTANTS
  Entry,     \* the file the user names
  Graphs,    \* what the files may import, a set of functions
  Losses     \* the sets of files that may be missing

ASSUME ModuleLoadingAssumption ==
  /\ Entry \in Files
  /\ Graphs \subseteq [Files -> SUBSET Files] /\ Losses \subseteq SUBSET Files

VARIABLES
  imports,     \* what each file imports
  missing,     \* the files that neither the overlay nor the disk has
  loadChain,   \* loadChain_: the files being loaded, the entry first
  todo,        \* the imports of each file that loadUnit has still to take
  seen,        \* seen_
  units,       \* graph.units, in order
  cycles,      \* E_MODULE_CYCLE: pairs of the importing and the imported file
  notFound,    \* E_MODULE_NOT_FOUND, in order
  finished     \* history: the files loaded with all their imports, in order

input == <<imports, missing>>
vars  == <<input, loadChain, todo, seen, units, cycles, notFound, finished>>

ToSet(s) == {s[i] : i \in DOMAIN s}
OnChain  == ToSet(loadChain)
Top      == loadChain[Len(loadChain)]

\* The imports the program has: a missing file has none.
Program == [f \in Files |-> IF f \in missing THEN {} ELSE imports[f]]

Init ==
  /\ imports \in Graphs /\ missing \in Losses
  /\ loadChain = << >> /\ todo = imports /\ seen = {} /\ units = << >>
  /\ cycles = {} /\ notFound = << >> /\ finished = << >>

\* loadUnit is called for the entry at first, then for an import of the file on top.
Calls(f) == IF loadChain = << >> THEN f = Entry /\ seen = {} ELSE f \in todo[Top]

\* The file on top goes on with its other imports.
Took(f) ==
  todo' = IF loadChain = << >> THEN todo ELSE [todo EXCEPT ![Top] = @ \ {f}]

\* Wrong variants: the set is asked before the chain, and the cycle passes in
\* silence; the import that closes it is taken again.
CycleSilent(f) ==
  /\ Calls(f) /\ f \in OnChain
  /\ Took(f)
  /\ UNCHANGED <<input, loadChain, seen, units, cycles, notFound, finished>>
CycleRetried(f) ==
  /\ Calls(f) /\ f \in OnChain
  /\ cycles' = cycles \cup {<<Top, f>>}
  /\ UNCHANGED <<input, loadChain, todo, seen, units, notFound, finished>>

\* The file is in the chain it is loaded from.
Cycle(f) ==
  /\ Calls(f) /\ f \in OnChain
  /\ cycles' = cycles \cup {<<Top, f>>} /\ Took(f)
  /\ UNCHANGED <<input, loadChain, seen, units, notFound, finished>>

\* It was loaded already, or could not be.
Skip(f) ==
  /\ Calls(f) /\ f \notin OnChain /\ f \in seen
  /\ Took(f)
  /\ UNCHANGED <<input, loadChain, seen, units, cycles, notFound, finished>>

New(f) == Calls(f) /\ f \notin OnChain /\ f \notin seen

\* It cannot be opened.
NotFound(f) ==
  /\ New(f) /\ f \in missing
  /\ seen' = seen \cup {f}
  /\ notFound' = Append(notFound, f) /\ Took(f)
  /\ UNCHANGED <<input, loadChain, units, cycles, finished>>

\* A wrong variant: a loaded file is not followed.
EnterLeaf(f) ==
  /\ New(f) /\ f \notin missing
  /\ seen' = seen \cup {f}
  /\ units' = Append(units, f) /\ Took(f)
  /\ UNCHANGED <<input, loadChain, cycles, notFound, finished>>

\* It is read, parsed and added to the graph, and its imports come next.  The
\* parser returns a tree for every text, so E_MODULE_PARSE is never reported.
Enter(f) ==
  /\ New(f) /\ f \notin missing
  /\ seen' = seen \cup {f}
  /\ units' = Append(units, f)
  /\ loadChain' = Append(loadChain, f) /\ Took(f)
  /\ UNCHANGED <<input, cycles, notFound, finished>>

\* All imports of the file on top are loaded.
Leave ==
  /\ loadChain # << >> /\ todo[Top] = {}
  /\ loadChain' = SubSeq(loadChain, 1, Len(loadChain) - 1)
  /\ finished' = Append(finished, Top)
  /\ UNCHANGED <<input, todo, seen, units, cycles, notFound>>

LoadUnit(f) == Cycle(f) \/ Skip(f) \/ NotFound(f) \/ Enter(f)

Next == Leave \/ \E f \in Files : LoadUnit(f)

Spec     == Init /\ [][Next]_vars
FairSpec == Spec /\ WF_vars(Next)

-----------------------------------------------------------------------------

Over == loadChain = << >> /\ seen # {}

Reaches(a, b) == Leads(Program, a, b)

Distinct(s) == \A i, j \in DOMAIN s : s[i] = s[j] => i = j

\* Type correctness.
TypeOK ==
  /\ imports \in [Files -> SUBSET Files] /\ missing \in SUBSET Files
  /\ loadChain \in Seq(Files) /\ todo \in [Files -> SUBSET Files]
  /\ seen \in SUBSET Files /\ units \in Seq(Files)
  /\ cycles \in SUBSET (Files \X Files)
  /\ notFound \in Seq(Files) /\ finished \in Seq(Files)

\* No file is twice in the graph and none is reported missing twice, however
\* many files import it (seen_; ADR-031: in a diamond the shared file "is
\* loaded once").
LoadedOnce == Distinct(units) /\ Distinct(notFound)

\* The first unit is the entry (module_loader.hpp: "units[0] is always the
\* entry file"; the document store and the LSP take it for the open document).
EntryFirst == units # << >> => units[1] = Entry

\* A cycle is reported only where there is one: the imported file leads back to
\* the file that imports it (ADR-031: the diamond is no false positive).
CyclesAreReal ==
  \A f, g \in Files : <<f, g>> \in cycles => g \in Program[f] /\ Reaches(g, f)

\* When the loading is over, every circle of imports has one that was reported:
\* the program is free of circles without the reported ones, and a program
\* without E_MODULE_CYCLE is free of them (ADR-031: a circular dependency is a
\* compile error).
NoCycleMissed ==
  Over => \A f \in ToSet(units) : \A g \in Files : <<f, g>> \notin Circular(Without(Program, cycles))

\* When the loading is over, the graph has every file that can be reached from
\* the entry, but for those reported missing, and no other (loadUnit follows
\* the imports of each file it enters).
AllLoaded ==
  Over => \A f \in Files : Reaches(Entry, f) <=> f \in ToSet(units) \cup ToSet(notFound)

\* When the loading is over, the imports reported are a cut of the graph: some of
\* the circular ones of the files loaded, and without them these have no circle
\* (ADR-031).  LspDocuments takes this for a compilation.
LoaderCuts ==
  Over => /\ ToSet(units) = {f \in Files : f \notin missing /\ Leads(Program, Entry, f)}
          /\ cycles \in Cuts(Program, ToSet(units))

\* The loading ends, circular imports or not (loadUnit's recursion).
LoadingEnds == <>Over

-----------------------------------------------------------------------------
(* The inductive invariant.                                                 *)

\* The chain is a path of imports, without a file twice, from the entry.
ChainInv ==
  /\ Distinct(loadChain) /\ OnChain \cap ToSet(finished) = {}
  /\ loadChain # << >> => loadChain[1] = Entry
  /\ \A i, j \in DOMAIN loadChain : i <= j => Reaches(loadChain[i], loadChain[j])

\* What was seen is being loaded, loaded or missing.
SeenInv ==
  /\ seen = OnChain \cup ToSet(finished) \cup ToSet(notFound)
  /\ ToSet(units) = OnChain \cup ToSet(finished)
  /\ ToSet(notFound) \subseteq missing /\ ToSet(units) \cap missing = {}
  /\ seen # {} => Entry \in seen
  /\ \A f \in seen : Reaches(Entry, f)

\* Where an import that was taken has gone: missing, reported as a cycle, loaded
\* before its importer is, or next on the chain.
Gone(f, g) ==
  \/ g \in missing
  \/ <<f, g>> \in cycles
  \/ \E j \in DOMAIN finished :
       finished[j] = g /\ \A i \in DOMAIN finished : finished[i] = f => j < i
  \/ \E i \in DOMAIN loadChain :
       i + 1 \in DOMAIN loadChain /\ loadChain[i] = f /\ loadChain[i + 1] = g

TodoInv ==
  /\ \A f \in Files : todo[f] \subseteq imports[f]
  /\ \A f \in Files : \A g \in imports[f] \ todo[f] : g \in seen /\ Gone(f, g)
  /\ \A f \in ToSet(finished) : todo[f] = {}

IInv ==
  /\ TypeOK /\ ChainInv /\ SeenInv /\ TodoInv
  /\ LoadedOnce /\ EntryFirst /\ CyclesAreReal /\ Distinct(finished)
=============================================================================
