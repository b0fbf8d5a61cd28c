------------------------- MODULE LspDocumentsProofs -------------------------
(***************************************************************************)
(* Proofs about LspDocuments for every set of files and texts: whatever    *)
(* the order of openings, changes, closings and writes to the disk, a      *)
(* diagnostic is shown in its own file, a document that is up to date      *)
(* shows its own errors, and no circle of imports goes unseen.             *)
(***************************************************************************)
EXTENDS LspDocuments, TLAPS

-----------------------------------------------------------------------------
(* Import graphs.                                                          *)

LEMMA LeadsSelf == ASSUME NEW G, NEW a PROVE Leads(G, a, a)
  BY DEF Leads

LEMMA LeadsThrough ==
  ASSUME NEW G, NEW a, NEW b, NEW c, Leads(G, a, b), Leads(G, b, c)
  PROVE  Leads(G, a, c)
  BY DEF Leads

LEMMA LeadsOn ==
  ASSUME NEW G, NEW a, NEW b \in G[a]
  PROVE  Leads(G, a, b)
  BY DEF Leads, Closed

\* A larger graph leads further.
LEMMA LeadsMore ==
  ASSUME NEW G, NEW H, \A f \in Files : G[f] \subseteq H[f],
         NEW a, NEW b, Leads(G, a, b)
  PROVE  Leads(H, a, b)
  BY DEF Leads, Closed

\* Only the files on the way matter.
LEMMA LeadsWhere ==
  ASSUME NEW G, NEW H, \A f \in Files : G[f] \subseteq Files,
         NEW a \in Files, NEW b \in Files, Leads(G, a, b),
         \A f \in Files : Leads(G, a, f) /\ Leads(G, f, b) => G[f] \subseteq H[f]
  PROVE  Leads(H, a, b)
<1> SUFFICES ASSUME NEW S \in SUBSET Files, a \in S, Closed(H, S)
             PROVE  b \in S
  BY DEF Leads
<1> DEFINE T == {f \in Files : Leads(G, a, f) /\ (f \in S \/ ~Leads(G, f, b))}
<1>1. ASSUME NEW f \in T, NEW g \in G[f]
      PROVE  g \in T
  <2>1. f \in Files /\ g \in Files /\ Leads(G, a, f) /\ Leads(G, a, g)
    BY <1>1, LeadsOn, LeadsThrough
  <2>2. CASE Leads(G, f, b)
    BY <2>1, <2>2, <1>1 DEF Closed
  <2>3. CASE ~Leads(G, f, b)
    <3>1. ~Leads(G, g, b)
      BY <2>3, <1>1, LeadsOn, LeadsThrough
    <3>2. QED
      BY <2>1, <3>1
  <2>4. QED
    BY <2>2, <2>3
<1>2. T \in SUBSET Files /\ Closed(G, T) /\ a \in T
  BY <1>1, LeadsSelf DEF Closed
<1>3. b \in T
  BY <1>2 DEF Leads
<1>4. QED
  BY <1>3, LeadsSelf

\* A circle of one graph is one of another that has the imports of its files.
LEMMA CircleWhere ==
  ASSUME NEW G, NEW H, \A f \in Files : G[f] \subseteq Files,
         NEW i \in Circular(G),
         \A f \in Files : Leads(G, i[1], f) /\ Leads(G, f, i[1]) => G[f] \subseteq H[f]
  PROVE  i \in Circular(H)
<1>1. i \in Files \X Files /\ i[1] \in Files /\ i[2] \in Files
        /\ i[2] \in G[i[1]] /\ Leads(G, i[2], i[1])
  BY DEF Circular
<1>2. i[2] \in H[i[1]]
  BY <1>1, LeadsSelf
<1>3. Leads(H, i[2], i[1])
  <2>1. \A f \in Files : Leads(G, i[2], f) => Leads(G, i[1], f)
    BY <1>1, LeadsOn, LeadsThrough
  <2>2. QED
    BY <1>1, <2>1, LeadsWhere
<1>4. QED
  BY <1>1, <1>2, <1>3 DEF Circular

-----------------------------------------------------------------------------
(* The invariant.                                                          *)

\* The files that show a cycle.
Told == {f \in Files : \E d \in shown[f] : d.kind = "cycle"}

\* The imports of the files that have not changed since u was compiled, and
\* those of them whose file shows no cycle.
Trusted(u) == [f \in Files |-> IF f \in since[u] THEN {} ELSE Graph[f]]
Untold(u)  == [f \in Files |-> IF f \in since[u] \/ f \in Told THEN {} ELSE Graph[f]]

\* No circle that an open document leads to is without a file that shows it,
\* unless one of the files on the way has changed.
CirclesTold ==
  \A u \in Files : IsOpen(u) =>
    \A i \in Circular(Untold(u)) : ~Leads(Trusted(u), u, i[1])

IInv == TypeOK /\ DiagnosticsStayHome /\ FreshDocumentsAreRight /\ CirclesTold

LEMMA TextFacts ==
  /\ Missing \notin AllTexts
  /\ \A f \in Files : TextsOf[f] \subseteq AllTexts
  /\ Empty \in AllTexts
  /\ \A t \in AllTexts : t.own \in BOOLEAN /\ t.exports \in BOOLEAN /\ t.imports \subseteq Files
<1>1. Missing \notin AllTexts
  BY LspDocumentsAssumption
<1>2. ASSUME NEW t \in AllTexts
      PROVE  t.own \in BOOLEAN /\ t.exports \in BOOLEAN /\ t.imports \subseteq Files
  <2>1. CASE t = Empty
    BY <2>1 DEF Empty
  <2>2. CASE t # Empty
    <3>1. PICK f \in Files : t \in TextsOf[f]
      <4>1. t \in UNION {TextsOf[f] : f \in Files}
        BY <2>2 DEF AllTexts
      <4>2. QED
        BY <4>1, Zenon
    <3>2. QED
      BY <3>1, LspDocumentsAssumption
  <2>3. QED
    BY <2>1, <2>2
<1>3. \A f \in Files : TextsOf[f] \subseteq AllTexts
  BY Zenon DEF AllTexts
<1>4. Empty \in AllTexts
  BY DEF AllTexts
<1>5. QED
  BY <1>1, <1>2, <1>3, <1>4

TextsOK ==
  disk \in [Files -> AllTexts \cup {Missing}] /\ store \in [Files -> AllTexts \cup {Missing}]

\* What a state of the right type says of the sources and their graph.
SourcesFit ==
  /\ \A f \in Files : Source(f) \in AllTexts \cup {Missing} /\ Visible(f) = Source(f)
  /\ \A f \in Files : IsOpen(f) => Source(f) = store[f] /\ Source(f) \in AllTexts
  /\ \A f \in Files : Source(f) # Missing => Graph[f] = Source(f).imports
  /\ \A f \in Files : Source(f) = Missing => Graph[f] = {}
  /\ \A f \in Files : Graph[f] \subseteq Files

LEMMA SourceFacts == TextsOK => SourcesFit
<1> SUFFICES ASSUME TextsOK PROVE SourcesFit
  OBVIOUS
<1>1. \A f \in Files : disk[f] \in AllTexts \cup {Missing} /\ store[f] \in AllTexts \cup {Missing}
  BY DEF TextsOK
<1>2. \A f \in Files : Source(f) \in AllTexts \cup {Missing} /\ Visible(f) = Source(f)
  BY <1>1 DEF Source, Visible
<1>3. \A f \in Files : IsOpen(f) => Source(f) = store[f] /\ Source(f) \in AllTexts
  BY <1>1 DEF Source, IsOpen
<1>4. /\ \A f \in Files : Source(f) # Missing => Graph[f] = Source(f).imports
      /\ \A f \in Files : Source(f) = Missing => Graph[f] = {}
  BY DEF Graph
<1>5. \A f \in Files : Graph[f] \subseteq Files
  BY <1>2, <1>4, TextFacts
<1>6. QED
  BY <1>2, <1>3, <1>4, <1>5 DEF SourcesFit

\* What the diagnostics of a compilation say.
DiagnosticsFit ==
  \A e \in Files : \A R \in CycleReports(e) :
    /\ Diagnostics(e, R) \subseteq [file : Units(e) \cup {NoFile},
                                    kind : {"own", "import", "cycle", "notfound"}]
    /\ \A d \in Diagnostics(e, R) : d.file = NoFile <=> d.kind = "notfound"
    /\ \A f \in Units(e) :
         /\ [file |-> f, kind |-> "own"] \in Diagnostics(e, R) <=> "own" \in ErrorsOf(f)
         /\ [file |-> f, kind |-> "import"] \in Diagnostics(e, R) <=> "import" \in ErrorsOf(f)
         /\ ErrorsOf(f) \subseteq {"own", "import"}
    /\ \A i \in R : i[1] \in Units(e) /\ [file |-> i[1], kind |-> "cycle"] \in Diagnostics(e, R)
    /\ \A i \in Circular(Without(Graph, R)) : i[1] \notin Units(e)

LEMMA DiagnosticFacts == TextsOK => DiagnosticsFit
<1> SUFFICES ASSUME TextsOK, NEW e \in Files, NEW R \in CycleReports(e)
             PROVE  /\ Diagnostics(e, R) \subseteq [file : Units(e) \cup {NoFile},
                                    kind : {"own", "import", "cycle", "notfound"}]
                    /\ \A d \in Diagnostics(e, R) : d.file = NoFile <=> d.kind = "notfound"
                    /\ \A f \in Units(e) :
                         /\ [file |-> f, kind |-> "own"] \in Diagnostics(e, R) <=> "own" \in ErrorsOf(f)
                         /\ [file |-> f, kind |-> "import"] \in Diagnostics(e, R) <=> "import" \in ErrorsOf(f)
                         /\ ErrorsOf(f) \subseteq {"own", "import"}
                    /\ \A i \in R : i[1] \in Units(e) /\ [file |-> i[1], kind |-> "cycle"] \in Diagnostics(e, R)
                    /\ \A i \in Circular(Without(Graph, R)) : i[1] \notin Units(e)
  BY Zenon DEF DiagnosticsFit
<1> USE LspDocumentsAssumption
<1>1. Units(e) \subseteq Files /\ NoFile \notin Units(e)
  BY DEF Units
<1>2. /\ \A i \in R : i[1] \in Units(e)
      /\ \A i \in Circular(Without(Graph, R)) : i[1] \notin Units(e)
  BY DEF CycleReports, Cuts
<1> DEFINE cyc == {i[1] : i \in R}
           own == {f \in Units(e) : Source(f).own}
           imp == {f \in Units(e) : ImportFails(f)}
           nof == {NoFile : f \in {u \in Units(e) : \E g \in Graph[u] : Source(g) = Missing}}
<1>3. Diagnostics(e, R) = [file : cyc, kind : {"cycle"}] \cup [file : own, kind : {"own"}]
            \cup [file : imp, kind : {"import"}] \cup [file : nof, kind : {"notfound"}]
  BY Zenon DEF Diagnostics
<1>4. cyc \subseteq Units(e) /\ own \subseteq Units(e) /\ imp \subseteq Units(e) /\ nof \subseteq {NoFile}
  BY <1>2
<1>5. \A i \in R : i[1] \in cyc
  OBVIOUS
<1>6. \A f \in Units(e) : /\ f \in own <=> "own" \in ErrorsOf(f)
                          /\ f \in imp <=> "import" \in ErrorsOf(f)
                          /\ ErrorsOf(f) \subseteq {"own", "import"}
  <2> SUFFICES ASSUME NEW f \in Units(e)
               PROVE  /\ f \in own <=> "own" \in ErrorsOf(f)
                      /\ f \in imp <=> "import" \in ErrorsOf(f)
                      /\ ErrorsOf(f) \subseteq {"own", "import"}
    OBVIOUS
  <2>1. /\ f \in Files /\ Source(f) # Missing /\ Graph[f] = Source(f).imports
        /\ \A g \in Files : Visible(g) = Source(g)
        /\ Graph[f] \subseteq Files
    BY <1>1, SourceFacts DEF SourcesFit, Units
  <2>2. f \in own <=> "own" \in ErrorsOf(f)
    BY <2>1 DEF ErrorsOf
  <2>3. ImportFails(f) <=> "import" \in ErrorsOf(f)
    BY <2>1 DEF ErrorsOf, ImportFails
  <2>4. ErrorsOf(f) \subseteq {"own", "import"}
    BY DEF ErrorsOf
  <2>5. QED
    BY <2>2, <2>3, <2>4
<1> HIDE DEF cyc, own, imp, nof
<1>7. /\ \A f \in Units(e) : [file |-> f, kind |-> "own"] \in Diagnostics(e, R) <=> f \in own
      /\ \A f \in Units(e) : [file |-> f, kind |-> "import"] \in Diagnostics(e, R) <=> f \in imp
      /\ \A f \in cyc : [file |-> f, kind |-> "cycle"] \in Diagnostics(e, R)
  BY <1>3
<1>8. Diagnostics(e, R) \subseteq [file : Units(e) \cup {NoFile},
                                  kind : {"own", "import", "cycle", "notfound"}]
  BY <1>3, <1>4
<1>9. \A d \in Diagnostics(e, R) : d.file = NoFile <=> d.kind = "notfound"
  BY <1>1, <1>3, <1>4
<1>10. QED
  BY <1>2, <1>5, <1>6, <1>7, <1>8, <1>9

\* A circle is shown, once nothing on the way has changed.
LEMMA ToldIsShown == IInv => CirclesAreShown
<1> SUFFICES ASSUME IInv, NEW u \in Files, IsOpen(u), since[u] \cap Units(u) = {},
                    NEW i \in Circular(Without(Graph, Told \X Files)), i[1] \in Units(u)
             PROVE  FALSE
  BY DEF CirclesAreShown, Told
<1> DEFINE W == Without(Graph, Told \X Files)
<1>1. /\ \A f \in Files : Graph[f] \subseteq Files
      /\ \A f \in Files : Source(f) = Missing => Graph[f] = {}
  BY SourceFacts DEF IInv, SourcesFit, TypeOK, TextsOK
<1>2. \A f \in Files : W[f] \subseteq Graph[f] /\ (f \in Told => W[f] = {})
  BY <1>1 DEF Without
<1>3. i[1] \in Files /\ i[2] \in Files /\ i[2] \in W[i[1]] /\ Leads(Graph, u, i[1])
  BY DEF Circular, Units
<1>4. \A f \in Files : f \in since[u] => f \notin Units(u)
  OBVIOUS
<1>5. Leads(Trusted(u), u, i[1])
  <2> SUFFICES ASSUME NEW S \in SUBSET Files, u \in S, Closed(Trusted(u), S)
               PROVE  i[1] \in S
    BY DEF Leads
  <2> DEFINE T == {f \in S : Leads(Graph, u, f)}
  <2>1. ASSUME NEW f \in T, NEW g \in Graph[f]
        PROVE  g \in T
    <3>1. f \in Files /\ Leads(Graph, u, f) /\ Source(f) # Missing
      BY <2>1, <1>1
    <3>2. f \notin since[u]
      BY <3>1, <1>4 DEF Units
    <3>3. g \in S
      BY <3>1, <3>2, <2>1 DEF Closed, Trusted
    <3>4. Leads(Graph, u, g)
      BY <3>1, <2>1, LeadsOn, LeadsThrough
    <3>5. QED
      BY <3>3, <3>4
  <2>2. T \in SUBSET Files /\ Closed(Graph, T) /\ u \in T
    BY <2>1, LeadsSelf DEF Closed
  <2>3. QED
    BY <2>2, <1>3 DEF Leads
<1>6. i \in Circular(Untold(u))
  <2>1. ASSUME NEW f \in Files, Leads(W, i[1], f), NEW g \in W[f]
        PROVE  g \in Untold(u)[f]
    <3>1. f \notin Told /\ g \in Graph[f] /\ Source(f) # Missing
      BY <1>1, <1>2, <2>1
    <3>2. Leads(Graph, i[1], f)
      BY <1>2, <2>1, LeadsMore
    <3>3. f \in Units(u)
      BY <3>1, <3>2, <1>3, LeadsThrough DEF Units
    <3>4. QED
      BY <3>1, <3>3, <1>4 DEF Untold
  <2>2. QED
    BY <2>1, <1>1, <1>2, CircleWhere
<1>7. QED
  BY <1>5, <1>6 DEF IInv, CirclesTold

-----------------------------------------------------------------------------
(* The steps.                                                              *)

\* The texts after a step have the same properties.
LEMMA FitNext == TextsOK' => SourcesFit' /\ DiagnosticsFit'
<1>1. TextsOK' => SourcesFit'
  BY SourceFacts, PTL
<1>2. TextsOK' => DiagnosticsFit'
  BY DiagnosticFacts, PTL
<1>3. QED
  BY <1>1, <1>2

LEMMA TypeInit == Init => TypeOK
<1> SUFFICES ASSUME Init PROVE TypeOK
  OBVIOUS
<1>1. disk \in [Files -> AllTexts \cup {Missing}] /\ store \in [Files -> AllTexts \cup {Missing}]
  BY DEF Init
<1>2. /\ shown \in [Files -> SUBSET [file : Files \cup {NoFile},
                                     kind : {"own", "import", "cycle", "notfound"}]]
      /\ since \in [Files -> SUBSET Files]
      /\ \A f \in Files : f \notin since[f]
  BY DEF Init
<1>3. QED
  BY <1>1, <1>2 DEF TypeOK

\* The history of a document that stays open and is not compiled.
LEMMA SinceFacts ==
  ASSUME TypeOK
  PROVE  /\ Touched \subseteq Files
         /\ \A u \in Files : IsOpen(u) => Since[u] = since[u] \cup Touched
         /\ \A u \in Files : ~IsOpen(u) => Since[u] = {}
         /\ Since \in [Files -> SUBSET Files]
<1>1. Touched \subseteq Files
  BY DEF Touched
<1>2. /\ \A u \in Files : IsOpen(u) => Since[u] = since[u] \cup Touched
      /\ \A u \in Files : ~IsOpen(u) => Since[u] = {}
  BY Zenon DEF Since
<1>3. Since \in [Files -> SUBSET Files]
  BY <1>1, Zenon DEF Since, TypeOK
<1>4. QED
  BY <1>1, <1>2, <1>3

\* A file that is not in the history has kept its text.
LEMMA Untouched ==
  ASSUME NEW f \in Files, f \notin Touched
  PROVE  Source(f)' = Source(f) /\ (IsOpen(f) => IsOpen(f)')
  BY DEF Touched

LEMMA TextsStep == TypeOK /\ [Next]_vars => TextsOK'
<1> SUFFICES ASSUME TypeOK, [Next]_vars PROVE TextsOK'
  OBVIOUS
<1>1. ASSUME NEW f \in Files, NEW t \in AllTexts, Update(f, t)
      PROVE  TextsOK'
  BY <1>1 DEF TypeOK, TextsOK, Update
<1>2. ASSUME NEW f \in Files, DidOpen(f) \/ DidChange(f)
      PROVE  TextsOK'
  BY <1>1, <1>2, TextFacts DEF DidOpen, DidChange
<1>3. ASSUME NEW f \in Files, DidClose(f)
      PROVE  TextsOK'
  BY <1>3 DEF DidClose, TypeOK, TextsOK
<1>4. ASSUME NEW f \in Files, WriteDisk(f)
      PROVE  TextsOK'
  BY <1>4, TextFacts DEF WriteDisk, TypeOK, TextsOK
<1>5. CASE UNCHANGED vars
  BY <1>5 DEF vars, TypeOK, TextsOK
<1>6. QED
  BY <1>2, <1>3, <1>4, <1>5 DEF Next

\* One compilation of e: what the files show after it.
LEMMA UpdateStep ==
  ASSUME TypeOK, TextsOK', NEW e \in Files, NEW t \in AllTexts, Update(e, t)
  PROVE  \E R \in CycleReports(e)' :
           /\ shown' = Publish(e, Diagnostics(e, R)')
           /\ e \in Units(e)'
           /\ shown' \in [Files -> SUBSET [file : Files \cup {NoFile},
                                           kind : {"own", "import", "cycle", "notfound"}]]
           /\ \A f \in Files : f \notin Units(e)' => shown'[f] = shown[f]
           /\ \A f \in Files \ {e} :
                \/ shown'[f] = shown[f]
                \/ f \in Units(e)' /\ shown'[f] = {d \in Diagnostics(e, R)' : d.file = f}
           /\ shown'[e] = {d \in Diagnostics(e, R)' : d.file \in {e, NoFile}}
           /\ \A i \in R : \E d \in shown'[i[1]] : d.kind = "cycle"
<1>1. PICK R \in CycleReports(e)' : shown' = Publish(e, Diagnostics(e, R)')
  BY DEF Update
<1> DEFINE D == Diagnostics(e, R)'
<1>2. SourcesFit' /\ DiagnosticsFit'
  BY FitNext
<1>3. e \in Units(e)'
  <2>1. store'[e] = t
    BY DEF Update, TypeOK
  <2>2. IsOpen(e)'
    BY <2>1, TextFacts DEF IsOpen
  <2>3. Source(e)' # Missing
    BY <1>2, <2>2, TextFacts DEF SourcesFit
  <2>4. QED
    BY <2>3, LeadsSelf DEF Units
<1>4. /\ D \subseteq [file : Units(e)' \cup {NoFile}, kind : {"own", "import", "cycle", "notfound"}]
      /\ \A i \in R : i[1] \in Units(e)' /\ [file |-> i[1], kind |-> "cycle"] \in D
  BY <1>1, <1>2 DEF DiagnosticsFit
<1>5. Units(e)' \subseteq Files /\ NoFile \notin Files
  BY LspDocumentsAssumption DEF Units
<1> HIDE DEF D
<1>6. \A f \in Files : shown'[f] = LET here == {d \in D : Home(e, d) = f}
                                  IN  IF f = e \/ here # {} THEN here ELSE shown[f]
  BY <1>1 DEF Publish, D
<1>7. shown'[e] = {d \in D : d.file \in {e, NoFile}}
  BY <1>6, <1>5 DEF Home
<1>8. \A f \in Files \ {e} :
        \/ shown'[f] = shown[f]
        \/ f \in Units(e)' /\ shown'[f] = {d \in D : d.file = f}
  <2> SUFFICES ASSUME NEW f \in Files \ {e}, shown'[f] # shown[f]
               PROVE  f \in Units(e)' /\ shown'[f] = {d \in D : d.file = f}
    OBVIOUS
  <2>1. \A d \in D : Home(e, d) = f <=> d.file = f
    BY <1>5 DEF Home
  <2>2. {d \in D : Home(e, d) = f} = {d \in D : d.file = f}
    BY <2>1
  <2>3. shown'[f] = {d \in D : d.file = f} /\ shown'[f] # {}
    BY <1>6, <2>2, Zenon
  <2>4. PICK d \in D : d.file = f
    BY <2>3
  <2>5. QED
    BY <1>4, <1>5, <2>3, <2>4
<1>9. \A i \in R : \E d \in shown'[i[1]] : d.kind = "cycle"
  <2> SUFFICES ASSUME NEW i \in R PROVE \E d \in shown'[i[1]] : d.kind = "cycle"
    OBVIOUS
  <2> DEFINE d == [file |-> i[1], kind |-> "cycle"]
             here == {x \in D : Home(e, x) = i[1]}
  <2>1. i[1] \in Files /\ d \in D
    BY <1>4, <1>5
  <2>2. d \in here
    BY <1>5, <2>1 DEF Home
  <2>3. shown'[i[1]] = here
    BY <1>6, <2>1, <2>2, Zenon
  <2>4. QED
    BY <2>2, <2>3
<1>10. shown' \in [Files -> SUBSET [file : Files \cup {NoFile},
                                   kind : {"own", "import", "cycle", "notfound"}]]
  <2>1. \A f \in Files : shown'[f] \subseteq [file : Files \cup {NoFile},
                                   kind : {"own", "import", "cycle", "notfound"}]
    BY <1>4, <1>5, <1>7, <1>8 DEF TypeOK
  <2>2. shown' = [f \in Files |-> shown'[f]]
    BY <1>1 DEF Publish
  <2>3. QED
    BY <2>1, <2>2
<1>11. \A f \in Files : f \notin Units(e)' => shown'[f] = shown[f]
  BY <1>3, <1>8
<1>12. QED
  BY <1>1, <1>3, <1>7, <1>8, <1>9, <1>10, <1>11 DEF D

\* Every step is an update, a closing, a write or nothing.
LEMMA Steps ==
  ASSUME [Next]_vars
  PROVE  \/ \E e \in Files : \E t \in AllTexts : Update(e, t)
         \/ \E e \in Files : DidClose(e)
         \/ \E e \in Files : WriteDisk(e)
         \/ UNCHANGED vars
<1>1. ASSUME NEW e \in Files, DidOpen(e) \/ DidChange(e)
      PROVE  \E t \in AllTexts : Update(e, t)
  BY <1>1, TextFacts DEF DidOpen, DidChange
<1>2. QED
  BY <1>1 DEF Next

\* The document that is compiled or closed is up to date; the history of the
\* others grows.
LEMMA HistoryStep ==
  ASSUME TypeOK, NEW u \in Files
  PROVE  /\ \A e \in Files, t \in AllTexts : Update(e, t) =>
              /\ u = e => since'[u] = {}
              /\ u # e => since'[u] = Since[u] /\ (IsOpen(u)' <=> IsOpen(u)) /\ store'[u] = store[u]
         /\ \A e \in Files : DidClose(e) =>
              /\ u = e => since'[u] = {} /\ ~IsOpen(u)'
              /\ u # e => since'[u] = Since[u] /\ (IsOpen(u)' <=> IsOpen(u)) /\ store'[u] = store[u]
              /\ e \in Touched
         /\ \A e \in Files : WriteDisk(e) =>
              since'[u] = Since[u] /\ (IsOpen(u)' <=> IsOpen(u)) /\ store'[u] = store[u]
<1>0. Since \in [Files -> SUBSET Files] /\ store \in [Files -> AllTexts \cup {Missing}]
  BY SinceFacts DEF TypeOK
<1>1. ASSUME NEW e \in Files, NEW t \in AllTexts, Update(e, t)
      PROVE  /\ u = e => since'[u] = {}
             /\ u # e => since'[u] = Since[u] /\ (IsOpen(u)' <=> IsOpen(u)) /\ store'[u] = store[u]
  BY <1>0, <1>1 DEF Update, IsOpen
<1>2. ASSUME NEW e \in Files, DidClose(e)
      PROVE  /\ u = e => since'[u] = {} /\ ~IsOpen(u)'
             /\ u # e => since'[u] = Since[u] /\ (IsOpen(u)' <=> IsOpen(u)) /\ store'[u] = store[u]
             /\ e \in Touched
  BY <1>0, <1>2 DEF DidClose, IsOpen, Touched
<1>3. ASSUME NEW e \in Files, WriteDisk(e)
      PROVE  since'[u] = Since[u] /\ (IsOpen(u)' <=> IsOpen(u)) /\ store'[u] = store[u]
  BY <1>0, <1>3 DEF WriteDisk, IsOpen
<1>4. QED
  BY <1>1, <1>2, <1>3

\* The text of an open document is its own.
LEMMA OpenText ==
  ASSUME NEW u \in Files, IsOpen(u), store'[u] = store[u]
  PROVE  u \notin Touched
  BY DEF Touched, Source, IsOpen

LEMMA TypeStep == TypeOK /\ [Next]_vars => TypeOK'
<1> SUFFICES ASSUME TypeOK, [Next]_vars PROVE TypeOK'
  OBVIOUS
<1> DEFINE Diag == [file : Files \cup {NoFile}, kind : {"own", "import", "cycle", "notfound"}]
<1>1. TextsOK'
  BY TextsStep
<1>2. shown' \in [Files -> SUBSET Diag]
  <2>1. ASSUME NEW e \in Files, NEW t \in AllTexts, Update(e, t) PROVE shown' \in [Files -> SUBSET Diag]
    BY <1>1, <2>1, UpdateStep
  <2>2. ASSUME NEW e \in Files, DidClose(e) PROVE shown' \in [Files -> SUBSET Diag]
    BY <2>2 DEF DidClose, TypeOK
  <2>3. ASSUME UNCHANGED shown PROVE shown' \in [Files -> SUBSET Diag]
    BY <2>3 DEF TypeOK
  <2>4. QED
    BY <2>1, <2>2, <2>3, Steps DEF WriteDisk, vars
<1>3. since' \in [Files -> SUBSET Files]
  <2>1. Since \in [Files -> SUBSET Files] /\ since \in [Files -> SUBSET Files]
    BY SinceFacts DEF TypeOK
  <2>2. \/ \E f \in Files : since' = [Since EXCEPT ![f] = {}]
        \/ since' = Since
        \/ since' = since
    BY Steps DEF Update, DidClose, WriteDisk, vars
  <2>3. QED
    BY <2>1, <2>2
<1>4. \A u \in Files : u \notin since'[u]
  <2> SUFFICES ASSUME NEW u \in Files PROVE u \notin since'[u]
    OBVIOUS
  <2>1. u \notin since[u]
    BY DEF TypeOK
  <2>2. \/ since'[u] = {}
        \/ since'[u] = since[u]
        \/ since'[u] = Since[u] /\ store'[u] = store[u]
    BY Steps, HistoryStep DEF vars
  <2>3. ASSUME since'[u] = Since[u], store'[u] = store[u] PROVE u \notin since'[u]
    BY <2>1, <2>3, SinceFacts, OpenText
  <2>4. QED
    BY <2>1, <2>2, <2>3
<1>5. QED
  BY <1>1, <1>2, <1>3, <1>4 DEF TypeOK, TextsOK

\* Each diagnostic goes to its file.
LEMMA HomeStep ==
  TypeOK /\ DiagnosticsStayHome /\ [Next]_vars => DiagnosticsStayHome'
<1> SUFFICES ASSUME TypeOK, DiagnosticsStayHome, [Next]_vars,
                    NEW f \in Files, NEW d \in shown'[f]
             PROVE  d.file \in {f, NoFile}
  BY DEF DiagnosticsStayHome
<1>1. shown'[f] = shown[f] => d.file \in {f, NoFile}
  BY DEF DiagnosticsStayHome
<1>2. ASSUME NEW e \in Files, NEW t \in AllTexts, Update(e, t)
      PROVE  d.file \in {f, NoFile}
  BY <1>1, <1>2, TextsStep, UpdateStep
<1>3. ASSUME NEW e \in Files, DidClose(e)
      PROVE  d.file \in {f, NoFile}
  BY <1>1, <1>3 DEF DidClose, TypeOK
<1>4. QED
  BY <1>1, <1>2, <1>3, Steps DEF WriteDisk, vars

\* The errors of a text depend on it and on the texts it imports.
LEMMA ErrorsStable ==
  ASSUME TextsOK, TextsOK', NEW u \in Files, Source(u)' = Source(u),
         \A g \in Source(u).imports : Source(g)' = Source(g)
  PROVE  ErrorsOf(u)' = ErrorsOf(u)
  BY DEF ErrorsOf, Visible, Source

LEMMA FreshStep ==
  TypeOK /\ FreshDocumentsAreRight /\ [Next]_vars => FreshDocumentsAreRight'
<1> SUFFICES ASSUME TypeOK, FreshDocumentsAreRight, [Next]_vars,
                    NEW u \in Files, IsOpen(u)', since'[u] \cap (Visible(u).imports)' = {}
             PROVE  {d.kind : d \in shown'[u]} \ {"cycle", "notfound"} = ErrorsOf(u)'
  BY DEF FreshDocumentsAreRight
<1>1. TextsOK /\ TextsOK' /\ SourcesFit /\ SourcesFit' /\ DiagnosticsFit'
  BY TextsStep, SourceFacts, FitNext DEF TypeOK, TextsOK
<1>2. ASSUME IsOpen(u), store'[u] = store[u], since'[u] = Since[u]
      PROVE  /\ ErrorsOf(u)' = ErrorsOf(u)
             /\ {d.kind : d \in shown[u]} \ {"cycle", "notfound"} = ErrorsOf(u)
  <2>1. u \notin Touched /\ Source(u)' = Source(u) /\ Source(u) \in AllTexts /\ Visible(u) = Source(u)
          /\ Visible(u)' = Source(u)'
    BY <1>1, <1>2, OpenText, Untouched DEF SourcesFit
  <2>2. Source(u).imports \subseteq Files /\ Since[u] = since[u] \cup Touched
    BY <2>1, <1>2, TextFacts, SinceFacts
  <2>3. since[u] \cap Visible(u).imports = {} /\ \A g \in Source(u).imports : g \notin Touched
    BY <1>2, <2>1, <2>2
  <2>4. \A g \in Source(u).imports : Source(g)' = Source(g)
    BY <2>2, <2>3, Untouched
  <2>5. QED
    BY <1>1, <1>2, <2>1, <2>3, <2>4, ErrorsStable DEF FreshDocumentsAreRight
<1>3. ASSUME NEW e \in Files, NEW t \in AllTexts, Update(e, t)
      PROVE  {d.kind : d \in shown'[u]} \ {"cycle", "notfound"} = ErrorsOf(u)'
  <2>1. PICK R \in CycleReports(e)' :
           /\ e \in Units(e)'
           /\ \A f \in Files \ {e} :
                \/ shown'[f] = shown[f]
                \/ f \in Units(e)' /\ shown'[f] = {d \in Diagnostics(e, R)' : d.file = f}
           /\ shown'[e] = {d \in Diagnostics(e, R)' : d.file \in {e, NoFile}}
    BY <1>1, <1>3, UpdateStep
  <2>2. CASE u # e /\ shown'[u] = shown[u]
    BY <1>2, <1>3, <2>2, HistoryStep
  <2>3. CASE u \in Units(e)' /\ shown'[u] \in {{d \in Diagnostics(e, R)' : d.file = u},
                                                {d \in Diagnostics(e, R)' : d.file \in {u, NoFile}}}
    <3> DEFINE D == Diagnostics(e, R)'
               E == ErrorsOf(u)'
               U == Units(e)'
               S == shown'[u]
    <3>1. /\ D \subseteq [file : U \cup {NoFile}, kind : {"own", "import", "cycle", "notfound"}]
          /\ \A d \in D : d.file = NoFile <=> d.kind = "notfound"
          /\ [file |-> u, kind |-> "own"] \in D <=> "own" \in E
          /\ [file |-> u, kind |-> "import"] \in D <=> "import" \in E
          /\ E \in SUBSET {"own", "import"}
      BY <1>1, <2>3 DEF DiagnosticsFit
    <3>2. S = {d \in D : d.file = u} \/ S = {d \in D : d.file \in {u, NoFile}}
      BY <2>3
    <3>3. u # NoFile
      BY LspDocumentsAssumption
    <3> HIDE DEF D, E, U, S
    <3> DEFINE K == {d.kind : d \in S}
    <3>4. \A k \in K : k \notin {"cycle", "notfound"} => k \in E
      <4> SUFFICES ASSUME NEW d \in S, d.kind \notin {"cycle", "notfound"}
                   PROVE  d.kind \in E
        OBVIOUS
      <4>1. d \in D /\ d.file = u /\ d.kind \in {"own", "import"}
        BY <3>1, <3>2
      <4>2. d = [file |-> u, kind |-> d.kind]
        BY <3>1, <4>1
      <4>3. QED
        BY <3>1, <4>1, <4>2
    <3>5. \A k \in E : k \in K /\ k \notin {"cycle", "notfound"}
      <4> SUFFICES ASSUME NEW k \in E PROVE k \in K /\ k \notin {"cycle", "notfound"}
        OBVIOUS
      <4>1. k \in {"own", "import"} /\ [file |-> u, kind |-> k] \in D
        BY <3>1
      <4>2. [file |-> u, kind |-> k] \in S
        BY <3>2, <4>1
      <4>3. QED
        BY <4>1, <4>2
    <3> HIDE DEF K
    <3>6. K \ {"cycle", "notfound"} = E
      BY <3>4, <3>5
    <3>7. QED
      BY <3>6 DEF K, S, E
  <2>4. QED
    BY <2>1, <2>2, <2>3
<1>4. ASSUME NEW e \in Files, DidClose(e)
      PROVE  {d.kind : d \in shown'[u]} \ {"cycle", "notfound"} = ErrorsOf(u)'
  <2>1. u # e /\ IsOpen(u) /\ store'[u] = store[u] /\ since'[u] = Since[u]
    BY <1>4, HistoryStep
  <2>2. shown'[u] = shown[u]
    BY <1>4, <2>1 DEF DidClose, TypeOK
  <2>3. QED
    BY <1>2, <2>1, <2>2
<1>5. ASSUME NEW e \in Files, WriteDisk(e)
      PROVE  {d.kind : d \in shown'[u]} \ {"cycle", "notfound"} = ErrorsOf(u)'
  <2>1. IsOpen(u) /\ store'[u] = store[u] /\ since'[u] = Since[u] /\ shown'[u] = shown[u]
    BY <1>5, HistoryStep DEF WriteDisk
  <2>2. QED
    BY <1>2, <2>1
<1>6. CASE UNCHANGED vars
  <2>1. /\ IsOpen(u)' <=> IsOpen(u)
        /\ Visible(u)' = Visible(u)
        /\ ErrorsOf(u)' = ErrorsOf(u)
    BY <1>6 DEF vars, IsOpen, Visible, ErrorsOf
  <2>2. QED
    BY <1>6, <2>1 DEF vars, FreshDocumentsAreRight
<1>7. QED
  BY <1>3, <1>4, <1>5, <1>6, Steps

\* A document that stays open and is not compiled trusts no more than before.
LEMMA TrustShrinks ==
  ASSUME TypeOK, TextsOK', NEW u \in Files, IsOpen(u), since'[u] = Since[u]
  PROVE  /\ \A f \in Files : Trusted(u)'[f] \subseteq Trusted(u)[f]
         /\ \A f \in Files : (f \in Touched \/ (f \in Told => f \in Told'))
              => Untold(u)'[f] \subseteq Untold(u)[f]
<1>1. Since[u] = since[u] \cup Touched
  BY SinceFacts
<1>2. \A f \in Files : f \notin Touched => Graph'[f] = Graph[f]
  BY Untouched DEF Graph
<1>3. QED
  BY <1>1, <1>2 DEF Trusted, Untold

\* Nothing is left of the circles that a compilation loads.
LEMMA CompiledCircles ==
  ASSUME TextsOK', NEW e \in Files, NEW R \in CycleReports(e)',
         \A i \in R : \E d \in shown'[i[1]] : d.kind = "cycle",
         NEW u \in Files, NEW i \in Circular(Untold(u)'), i[1] \in Units(e)'
  PROVE  FALSE
<1> DEFINE W == Without(Graph', R)
<1>1. SourcesFit' /\ DiagnosticsFit'
  BY FitNext
<1>2. /\ \A j \in R : j[1] \in Units(e)'
      /\ \A j \in Circular(W) : j[1] \notin Units(e)'
  BY <1>1 DEF DiagnosticsFit
<1>3. \A j \in R : j[1] \in Told'
  BY <1>2 DEF Told, Units
<1>4. \A f \in Files : Untold(u)'[f] \subseteq W[f] /\ Untold(u)'[f] \subseteq Files
  <2> SUFFICES ASSUME NEW f \in Files, NEW g \in Untold(u)'[f]
               PROVE  g \in W[f] /\ g \in Files
    OBVIOUS
  <2>1. f \notin Told' /\ g \in Graph'[f]
    BY DEF Untold
  <2>2. <<f, g>> \notin R
    BY <2>1, <1>3
  <2>3. g \in Files
    BY <2>1, <1>1 DEF SourcesFit
  <2>4. QED
    BY <2>1, <2>2, <2>3 DEF Without
<1>5. i \in Circular(W)
  <2> DEFINE U == Untold(u)'
  <2> HIDE DEF U, W
  <2>1. /\ \A f \in Files : U[f] \subseteq Files
        /\ i \in Circular(U)
        /\ \A f \in Files : Leads(U, i[1], f) /\ Leads(U, f, i[1]) => U[f] \subseteq W[f]
    BY <1>4 DEF U
  <2>2. QED
    BY <2>1, CircleWhere
<1>6. QED
  BY <1>2, <1>5

LEMMA CirclesStep ==
  TypeOK /\ CirclesTold /\ [Next]_vars => CirclesTold'
<1> SUFFICES ASSUME TypeOK, CirclesTold, [Next]_vars,
                    NEW u \in Files, IsOpen(u)',
                    NEW i \in Circular(Untold(u)'), Leads(Trusted(u)', u, i[1])
             PROVE  FALSE
  BY DEF CirclesTold
<1> DEFINE Uo == Untold(u)
           Un == Untold(u)'
           To == Trusted(u)
           Tn == Trusted(u)'
<1>1. TextsOK /\ TextsOK' /\ SourcesFit /\ SourcesFit'
  BY TextsStep, SourceFacts, FitNext DEF TypeOK, TextsOK
<1>2. /\ i[1] \in Files /\ i[2] \in Un[i[1]]
      /\ \A f \in Files : Un[f] \subseteq Graph'[f] /\ Tn[f] \subseteq Graph'[f] /\ Un[f] \subseteq Files
      /\ Source(i[1])' # Missing
  <2>1. i[1] \in Files /\ i[2] \in Un[i[1]]
    BY DEF Circular
  <2>2. \A f \in Files : Un[f] \subseteq Graph'[f] /\ Tn[f] \subseteq Graph'[f]
    BY DEF Untold, Trusted
  <2>3. \A f \in Files : Graph'[f] \subseteq Files /\ (Source(f)' = Missing => Graph'[f] = {})
    BY <1>1 DEF SourcesFit
  <2> HIDE DEF Un, Tn
  <2>4. QED
    BY <2>1, <2>2, <2>3
\* The document is not compiled: what is shown of the files on the circle stays.
<1>3. ASSUME IsOpen(u), since'[u] = Since[u],
             \A f \in Files : Leads(Un, i[1], f) /\ Leads(Un, f, i[1])
               => f \in Touched \/ (f \in Told => f \in Told')
      PROVE  FALSE
  <2>1. /\ \A f \in Files : Tn[f] \subseteq To[f]
        /\ \A f \in Files : (f \in Touched \/ (f \in Told => f \in Told')) => Un[f] \subseteq Uo[f]
    BY <1>1, <1>3, TrustShrinks
  <2>2. /\ \A f \in Files : Un[f] \subseteq Files
        /\ i \in Circular(Un) /\ Leads(Tn, u, i[1])
        /\ \A f \in Files : Leads(Un, i[1], f) /\ Leads(Un, f, i[1]) => Un[f] \subseteq Uo[f]
    BY <1>2, <1>3, <2>1
  <2> HIDE DEF Un, Tn, Uo, To
  <2>3. Leads(To, u, i[1])
    BY <2>1, <2>2, LeadsMore
  <2>4. i \in Circular(Uo)
    BY <2>2, CircleWhere
  <2>5. QED
    BY <1>3, <2>3, <2>4 DEF CirclesTold, Uo, To
<1>4. ASSUME NEW e \in Files, NEW t \in AllTexts, Update(e, t)
      PROVE  FALSE
  <2>1. PICK R \in CycleReports(e)' :
           /\ e \in Units(e)'
           /\ \A f \in Files : f \notin Units(e)' => shown'[f] = shown[f]
           /\ \A j \in R : \E d \in shown'[j[1]] : d.kind = "cycle"
    BY <1>1, <1>4, UpdateStep
  <2>2. CASE i[1] \in Units(e)'
    BY <1>1, <2>1, <2>2, CompiledCircles
  <2>3. CASE u = e /\ i[1] \notin Units(e)'
    <3>1. Leads(Graph', u, i[1])
      <4> HIDE DEF Tn
      <4>1. Leads(Tn, u, i[1])
        BY DEF Tn
      <4>2. QED
        BY <1>2, <4>1, LeadsMore
    <3>2. QED
      BY <1>2, <2>3, <3>1 DEF Units
  <2>4. CASE u # e /\ i[1] \notin Units(e)'
    <3>1. IsOpen(u) /\ since'[u] = Since[u]
      BY <1>4, <2>4, HistoryStep
    <3>2. ASSUME NEW f \in Files, Leads(Un, f, i[1]), f \in Told
          PROVE  f \in Told'
      <4>1. Leads(Graph', f, i[1])
        <5> HIDE DEF Un
        <5>1. QED
          BY <1>2, <3>2, LeadsMore
      <4>2. f \notin Units(e)'
        <5>1. i[1] \in Units(e)' <=> Leads(Graph', e, i[1])
          BY <1>2 DEF Units
        <5>2. f \in Units(e)' => Leads(Graph', e, f)
          BY DEF Units
        <5>3. QED
          BY <5>1, <5>2, <4>1, <2>4, LeadsThrough
      <4>3. QED
        BY <2>1, <3>2, <4>2 DEF Told
    <3>3. QED
      BY <1>3, <3>1, <3>2
  <2>5. QED
    BY <2>2, <2>3, <2>4
<1>5. ASSUME NEW e \in Files, DidClose(e)
      PROVE  FALSE
  <2>1. IsOpen(u) /\ since'[u] = Since[u] /\ e \in Touched
    BY <1>5, HistoryStep
  <2>2. \A f \in Files : f # e => shown'[f] = shown[f]
    BY <1>5 DEF DidClose, TypeOK
  <2>3. \A f \in Files : f \in Touched \/ (f \in Told => f \in Told')
    BY <2>1, <2>2 DEF Told
  <2>4. QED
    BY <1>3, <2>1, <2>3
<1>6. ASSUME NEW e \in Files, WriteDisk(e)
      PROVE  FALSE
  <2>1. IsOpen(u) /\ since'[u] = Since[u] /\ shown' = shown
    BY <1>6, HistoryStep DEF WriteDisk
  <2>2. \A f \in Files : f \in Told => f \in Told'
    BY <2>1 DEF Told
  <2>3. QED
    BY <1>3, <2>1, <2>2
<1>7. CASE UNCHANGED vars
  <2>1. Un = Uo /\ Tn = To /\ IsOpen(u)
    BY <1>7 DEF vars, Untold, Trusted, Told, Graph, Source, IsOpen
  <2>2. QED
    BY <2>1 DEF CirclesTold
<1>8. QED
  BY <1>4, <1>5, <1>6, <1>7, Steps

-----------------------------------------------------------------------------
(* The theorems.                                                           *)

\* The invariant holds at first, and every step keeps it.
THEOREM InductiveInvariant == Spec => []IInv
<1>1. Init => IInv
  <2> SUFFICES ASSUME Init PROVE IInv
    OBVIOUS
  <2>1. TypeOK
    BY TypeInit
  <2>2. \A u \in Files : ~IsOpen(u) /\ shown[u] = {}
    BY DEF Init, IsOpen
  <2>3. QED
    BY <2>1, <2>2 DEF IInv, DiagnosticsStayHome, FreshDocumentsAreRight, CirclesTold
<1>2. IInv /\ [Next]_vars => IInv'
  BY TypeStep, HomeStep, FreshStep, CirclesStep DEF IInv
<1>3. QED
  BY <1>1, <1>2, PTL DEF Spec

\* DocumentStore::update, close and publishDiagnosticsGrouped keep their types.
THEOREM TypeCorrect == Spec => []TypeOK
<1>1. IInv => TypeOK
  BY DEF IInv
<1>2. QED
  BY <1>1, InductiveInvariant, PTL

\* A diagnostic is shown in its own file only (publishDiagnosticsGrouped), for
\* every set of files and texts.
THEOREM OwnDiagnosticsOnly == Spec => []DiagnosticsStayHome
<1>1. IInv => DiagnosticsStayHome
  BY DEF IInv
<1>2. QED
  BY <1>1, InductiveInvariant, PTL

\* A document that is up to date shows its own errors (runPipeline and
\* publishDiagnosticsGrouped), whatever is published for other documents.
THEOREM FreshIsRight == Spec => []FreshDocumentsAreRight
<1>1. IInv => FreshDocumentsAreRight
  BY DEF IInv
<1>2. QED
  BY <1>1, InductiveInvariant, PTL

\* No circle of imports goes unseen (publishDiagnosticsGrouped), though every
\* publication replaces what a file shows.
THEOREM CirclesSeen == Spec => []CirclesAreShown
<1>1. QED
  BY ToldIsShown, InductiveInvariant, PTL
=============================================================================
