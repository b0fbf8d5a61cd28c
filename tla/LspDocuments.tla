---------------------------- MODULE LspDocuments ----------------------------
(***************************************************************************)
(* The documents of the language server: DocumentStore::update and close,  *)
(* runPipeline over the open buffers, and publishDiagnosticsGrouped        *)
(* (src/src/lsp/document_store.cpp, lsp_handler.cpp), with an editor.      *)
(*                                                                         *)
(* A text is [own, exports, imports]: whether it has an error of its own,  *)
(* whether it exports the name that its importers use, and the files it    *)
(* imports.  A diagnostic is [file, kind]; one without a location has the  *)
(* file NoFile.  Each file has one URI.                                    *)
(***************************************************************************)
EXTENDS ImportGraph

CONSTANTS
  TextsOf,    \* file -> the texts it may have
  Missing,    \* no such file
  NoFile      \* the file of a diagnostic without a location

\* What a change without a text leaves.
Empty == [own |-> FALSE, exports |-> FALSE, imports |-> {}]

AllTexts == {Empty} \cup UNION {TextsOf[f] : f \in Files}

ASSUME LspDocumentsAssumption ==
  /\ Missing \notin AllTexts /\ NoFile \notin Files
  /\ \A f \in Files : \A t \in TextsOf[f] :
       t.own \in BOOLEAN /\ t.exports \in BOOLEAN /\ t.imports \subseteq Files

VARIABLES
  disk,     \* the text of each file on the disk, or Missing
  store,    \* store_: the content of each open document, Missing for the others
  shown,    \* what the editor shows for each file: the set published last
  since     \* history: the files whose text has changed, or whose document was
            \* closed, since the document was compiled last

vars == <<disk, store, shown, since>>

IsOpen(f) == store[f] # Missing

-----------------------------------------------------------------------------
(* runPipeline.                                                             *)

\* A wrong variant: the disk before the open buffers.
SourceOfDisk(f) == IF disk[f] # Missing THEN disk[f] ELSE store[f]

\* The overlay first (openContent), then the disk.
Source(f) == IF IsOpen(f) THEN store[f] ELSE disk[f]

\* The graph that ModuleLoader follows, and the files it loads.
Graph    == [f \in Files |-> IF Source(f) = Missing THEN {} ELSE Source(f).imports]
Units(e) == {f \in Files : Source(f) # Missing /\ Leads(Graph, e, f)}

\* A wrong variant: circles pass in silence.
CycleReportsNone(e) == {{}}

\* The imports reported by E_MODULE_CYCLE: what the loader reports, whatever the
\* order of the imports, is one of these (the theorem ReportsAreCuts).
CycleReports(e) == Cuts(Graph, Units(e))

\* A name that is not exported or whose file is missing is an error at the
\* import or at its uses.
ImportFails(f) ==
  \E g \in Graph[f] : IF Source(g) = Missing THEN TRUE ELSE ~Source(g).exports

\* All diagnostics of the compilation of the document e, when the imports in R
\* are reported.  E_MODULE_NOT_FOUND has no location.
Diagnostics(e, R) ==
  LET units   == Units(e)
      At(F, k) == [file : F, kind : {k}]
  IN       At({i[1] : i \in R}, "cycle")
      \cup At({f \in units : Source(f).own}, "own")
      \cup At({f \in units : ImportFails(f)}, "import")
      \cup At({NoFile : f \in {u \in units : \E g \in Graph[u] : Source(g) = Missing}}, "notfound")

-----------------------------------------------------------------------------
(* publishDiagnosticsGrouped.                                               *)

\* A wrong variant: everything belongs to the queried document.
HomeQueried(e, d) == e

\* A diagnostic without a location goes to the queried document.
Home(e, d) == IF d.file = NoFile THEN e ELSE d.file

\* The queried document always gets a notification, another file only if it has
\* a diagnostic.
Publish(e, ds) ==
  [f \in Files |-> LET here == {d \in ds : Home(e, d) = f}
                   IN  IF f = e \/ here # {} THEN here ELSE shown[f]]

-----------------------------------------------------------------------------

Touched == {f \in Files : Source(f)' # Source(f) \/ (IsOpen(f) /\ ~IsOpen(f)')}
Since   == [f \in Files |-> IF IsOpen(f) THEN since[f] \cup Touched ELSE {}]

\* DocumentStore::update, and what the editor is told of it.
Update(f, text) ==
  /\ store' = [store EXCEPT ![f] = text] /\ UNCHANGED disk
  /\ \E R \in CycleReports(f)' : shown' = Publish(f, Diagnostics(f, R)')
  /\ since' = [Since EXCEPT ![f] = {}]

DidOpen(f) == ~IsOpen(f) /\ \E t \in TextsOf[f] : Update(f, t)

\* A change without contentChanges leaves an empty text.
DidChange(f) == IsOpen(f) /\ \E t \in TextsOf[f] \cup {Empty} : Update(f, t)

DidClose(f) ==
  /\ IsOpen(f)
  /\ store' = [store EXCEPT ![f] = Missing] /\ UNCHANGED disk
  /\ shown' = [shown EXCEPT ![f] = {}]
  /\ since' = [Since EXCEPT ![f] = {}]

\* Somebody, the editor too, writes or deletes a file.
WriteDisk(f) ==
  /\ \E t \in TextsOf[f] \cup {Missing} : disk' = [disk EXCEPT ![f] = t]
  /\ UNCHANGED <<store, shown>>
  /\ since' = Since

Init ==
  /\ disk \in [Files -> AllTexts \cup {Missing}]
  /\ \A f \in Files : disk[f] \in TextsOf[f] \cup {Missing}
  /\ store = [f \in Files |-> Missing]
  /\ shown = [f \in Files |-> {}] /\ since = [f \in Files |-> {}]

Next == \E f \in Files : DidOpen(f) \/ DidChange(f) \/ DidClose(f) \/ WriteDisk(f)

Spec == Init /\ [][Next]_vars

-----------------------------------------------------------------------------

\* What the user sees in the file f: the buffer, or what is on the disk.
Visible(f) == IF IsOpen(f) THEN store[f] ELSE disk[f]

\* The errors of the text of f, given the texts of the files it imports.
ErrorsOf(f) ==
  LET broken == {g \in Visible(f).imports : Visible(g) = Missing}
      silent == {g \in Visible(f).imports \ broken : ~Visible(g).exports}
  IN  {k \in {"own", "import"} :
         \/ k = "own" /\ Visible(f).own
         \/ k = "import" /\ broken \cup silent # {}}

\* Type correctness.
TypeOK ==
  /\ disk \in [Files -> AllTexts \cup {Missing}] /\ store \in [Files -> AllTexts \cup {Missing}]
  /\ shown \in [Files -> SUBSET [file : Files \cup {NoFile},
                                 kind : {"own", "import", "cycle", "notfound"}]]
  /\ since \in [Files -> SUBSET Files]
  /\ \A f \in Files : f \notin since[f]

\* A diagnostic of one file is never shown in another, but for those without a
\* location (publishDiagnosticsGrouped: once "the error of an imported module
\* showed up in the main file").
DiagnosticsStayHome ==
  \A f \in Files : \A d \in shown[f] : d.file \in {f, NoFile}

\* As long as neither an open document nor a file it imports has changed since
\* it was compiled, the editor shows exactly the errors of its text, whatever
\* was published for other documents meanwhile (runPipeline: "the compilation
\* sees the open editor buffers, not the disk").
FreshDocumentsAreRight ==
  \A f \in Files : IsOpen(f) /\ since[f] \cap Visible(f).imports = {} =>
    {d.kind : d \in shown[f]} \ {"cycle", "notfound"} = ErrorsOf(f)

\* As long as no file of an open document's program has changed or was closed
\* since, every circle of its imports has a file that shows a cycle, though
\* every publication replaces what a file shows (publishDiagnosticsGrouped).
CirclesAreShown ==
  LET told == {f \in Files : \E d \in shown[f] : d.kind = "cycle"}
      left == Circular(Without(Graph, told \X Files))
  IN  \A u \in Files : IsOpen(u) /\ since[u] \cap Units(u) = {} =>
        \A i \in left : i[1] \notin Units(u)
=============================================================================
