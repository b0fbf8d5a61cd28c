-------------------------- MODULE ModuleNamesProofs --------------------------
(***************************************************************************)
(* Proofs about ModuleLoading for every set of files and every graph: the  *)
(* invariant IInv, and from it that no circular import is missed, that no  *)
(* other is reported, and that exactly what can be reached is loaded.      *)
(* Then about ModuleNames for every set of files and names and every       *)
(* program: the loader keeps its promises inside the compiler, an accepted *)
(* program reads only what it declares or imports, and the globals of all  *)
(* files are initialised, in order, before the body of main.               *)
(***************************************************************************)
EXTENDS ModuleNames, TLAPS

-----------------------------------------------------------------------------
(* Sequences.                                                              *)

\* What a longer sequence has.
LEMMA AppendSet ==
  ASSUME NEW S, NEW s \in Seq(S), NEW x \in S
  PROVE  /\ Append(s, x) \in Seq(S)
         /\ ToSet(Append(s, x)) = ToSet(s) \cup {x}
         /\ DOMAIN Append(s, x) = DOMAIN s \cup {Len(s) + 1}
         /\ \A i \in DOMAIN s : Append(s, x)[i] = s[i]
         /\ Append(s, x)[Len(s) + 1] = x
<1>1. /\ Append(s, x) \in Seq(S) /\ Len(Append(s, x)) = Len(s) + 1
      /\ \A i \in 1..Len(s) : Append(s, x)[i] = s[i]
      /\ Append(s, x)[Len(s) + 1] = x
  OBVIOUS
<1>2. DOMAIN s = 1..Len(s) /\ DOMAIN Append(s, x) = 1..(Len(s) + 1) /\ Len(s) \in Nat
  BY <1>1
<1>3. DOMAIN Append(s, x) = DOMAIN s \cup {Len(s) + 1}
  BY <1>2
<1>4. QED
  BY <1>1, <1>2, <1>3 DEF ToSet

\* A file appended that was not there keeps a sequence without repetition.
LEMMA AppendDistinct ==
  ASSUME NEW S, NEW s \in Seq(S), NEW x \in S, Distinct(s), x \notin ToSet(s)
  PROVE  Distinct(Append(s, x))
<1>1. \A i \in DOMAIN s : s[i] # x
  BY DEF ToSet
<1>2. QED
  BY <1>1, AppendSet DEF Distinct

\* The sequence without its last element.
LEMMA FrontSet ==
  ASSUME NEW S, NEW s \in Seq(S), s # << >>
  PROVE  LET f == SubSeq(s, 1, Len(s) - 1)
         IN  /\ f \in Seq(S) /\ Len(f) = Len(s) - 1
             /\ DOMAIN f = 1..(Len(s) - 1)
             /\ \A i \in DOMAIN f : f[i] = s[i] /\ i \in DOMAIN s
             /\ DOMAIN s = DOMAIN f \cup {Len(s)}
             /\ ToSet(s) = ToSet(f) \cup {s[Len(s)]}
             /\ Len(s) \in DOMAIN s /\ s[Len(s)] \in S
<1> DEFINE f == SubSeq(s, 1, Len(s) - 1)
<1>1. Len(s) \in Nat \ {0} /\ DOMAIN s = 1..Len(s)
  OBVIOUS
<1>2. f \in Seq(S) /\ Len(f) = Len(s) - 1 /\ \A i \in 1..(Len(s) - 1) : f[i] = s[i]
  BY <1>1
<1>3. DOMAIN f = 1..(Len(s) - 1) /\ DOMAIN s = DOMAIN f \cup {Len(s)}
  BY <1>1, <1>2
<1>4. ToSet(s) = ToSet(f) \cup {s[Len(s)]}
  <2>1. \A i \in DOMAIN f : f[i] = s[i]
    BY <1>2, <1>3
  <2> HIDE DEF f
  <2>2. \A x : (\E i \in DOMAIN s : s[i] = x) <=> (\E i \in DOMAIN f : f[i] = x) \/ x = s[Len(s)]
    BY <1>3, <2>1
  <2>3. QED
    BY <2>2 DEF ToSet
<1>5. QED
  BY <1>1, <1>2, <1>3, <1>4

LEMMA FrontDistinct ==
  ASSUME NEW S, NEW s \in Seq(S), s # << >>, Distinct(s)
  PROVE  LET f == SubSeq(s, 1, Len(s) - 1) IN Distinct(f) /\ s[Len(s)] \notin ToSet(f)
<1> DEFINE f == SubSeq(s, 1, Len(s) - 1)
<1>1. Distinct(f)
  BY FrontSet DEF Distinct
<1>2. \A i \in DOMAIN f : i # Len(s) /\ f[i] # s[Len(s)]
  BY FrontSet DEF Distinct
<1>3. QED
  BY <1>1, <1>2 DEF ToSet

-----------------------------------------------------------------------------
(* Paths.                                                                  *)

LEMMA LeadsSelf == ASSUME NEW G, NEW a PROVE Leads(G, a, a)
BY DEF Leads

LEMMA LeadsOn ==
  ASSUME NEW G, NEW a, NEW b, NEW c, Leads(G, a, b), c \in G[b]
  PROVE  Leads(G, a, c)
BY DEF Leads, Closed

LEMMA LeadsThrough ==
  ASSUME NEW G, NEW a, NEW b, NEW c, Leads(G, a, b), Leads(G, b, c)
  PROVE  Leads(G, a, c)
BY DEF Leads

-----------------------------------------------------------------------------
(* The invariant.                                                          *)

LEMMA InitInv == Init => IInv
<1> SUFFICES ASSUME Init PROVE IInv
  OBVIOUS
<1>1. TypeOK
  BY ModuleLoadingAssumption DEF Init, TypeOK
<1>2. ToSet(loadChain) = {} /\ ToSet(finished) = {} /\ ToSet(notFound) = {} /\ ToSet(units) = {}
  BY DEF Init, ToSet
<1>3. ChainInv
  BY <1>2 DEF Init, ChainInv, Distinct, OnChain
<1>4. SeenInv
  BY <1>2 DEF Init, SeenInv, OnChain
<1>5. TodoInv
  BY <1>1, <1>2 DEF Init, TodoInv, TypeOK
<1>6. LoadedOnce /\ EntryFirst /\ CyclesAreReal /\ Distinct(finished)
  BY DEF Init, LoadedOnce, EntryFirst, CyclesAreReal, Distinct
<1>7. QED
  BY <1>1, <1>3, <1>4, <1>5, <1>6 DEF IInv

\* The file on top.
LEMMA TopOnChain ==
  ASSUME TypeOK, loadChain # << >>
  PROVE  /\ Len(loadChain) \in DOMAIN loadChain /\ DOMAIN loadChain = 1..Len(loadChain)
         /\ Top \in Files /\ Top \in OnChain
<1>1. loadChain \in Seq(Files)
  BY DEF TypeOK
<1>2. QED
  BY <1>1 DEF Top, OnChain, ToSet

\* The import taken is one of the file on top, which it does not lack.
LEMMA CallOfTop ==
  ASSUME IInv, NEW f \in Files, Calls(f)
  PROVE  /\ loadChain = << >> => f = Entry /\ seen = {}
         /\ loadChain # << >> => /\ f \in imports[Top] /\ f \in Program[Top]
                                 /\ Top \in seen /\ Top \notin missing
<1>1. CASE loadChain = << >>
  BY <1>1 DEF Calls
<1>2. CASE loadChain # << >>
  <2>1. Top \in Files /\ Top \in OnChain
    BY <1>2, TopOnChain DEF IInv
  <2>2. f \in imports[Top]
    BY <1>2, <2>1 DEF Calls, IInv, TodoInv
  <2>3. Top \in seen /\ Top \notin missing
    BY <2>1 DEF IInv, SeenInv
  <2>4. QED
    BY <1>2, <2>1, <2>2, <2>3 DEF Program
<1>3. QED
  BY <1>1, <1>2

\* What taking an import does to todo.
LEMMA TookOne ==
  ASSUME TypeOK, NEW f \in Files, Took(f)
  PROVE  /\ todo' \in [Files -> SUBSET Files]
         /\ \A h \in Files : todo'[h] \subseteq todo[h]
         /\ \A h \in Files : \A g \in todo[h] \ todo'[h] :
              loadChain # << >> /\ h = Top /\ g = f
<1>1. CASE loadChain = << >>
  BY <1>1 DEF Took, TypeOK
<1>2. CASE loadChain # << >>
  BY <1>2, TopOnChain DEF Took, TypeOK
<1>3. QED
  BY <1>1, <1>2

LEMMA ProgramStays == ASSUME UNCHANGED input PROVE Program' = Program
BY DEF input, Program

LEMMA TypeStep == ASSUME IInv, Next PROVE TypeOK'
<1> USE DEF IInv, TypeOK, input
<1>1. CASE Leave
  BY <1>1, FrontSet, TopOnChain DEF Leave, Top
<1>2. ASSUME NEW f \in Files, LoadUnit(f) PROVE TypeOK'
  <2>1. CASE Cycle(f)
    <3>1. loadChain # << >>
      BY <2>1 DEF Cycle, OnChain, ToSet
    <3>2. QED
      BY <2>1, <3>1, TookOne, TopOnChain DEF Cycle
  <2>2. CASE Skip(f)
    BY <2>2, TookOne DEF Skip
  <2>3. CASE NotFound(f)
    BY <2>3, TookOne, AppendSet DEF NotFound
  <2>4. CASE Enter(f)
    BY <2>4, TookOne, AppendSet DEF Enter
  <2>5. QED
    BY <1>2, <2>1, <2>2, <2>3, <2>4 DEF LoadUnit
<1>3. QED
  BY <1>1, <1>2 DEF Next

LEMMA ChainStep == ASSUME IInv, Next PROVE ChainInv' /\ Distinct(finished)'
<1>1. loadChain \in Seq(Files) /\ finished \in Seq(Files)
  BY DEF IInv, TypeOK
<1>2. Program' = Program
  BY ProgramStays DEF Next, Leave, LoadUnit, Cycle, Skip, NotFound, Enter
<1>3. CASE Leave
  <2> DEFINE front == SubSeq(loadChain, 1, Len(loadChain) - 1)
  <2>1. loadChain' = front /\ loadChain # << >> /\ finished' = Append(finished, Top)
    BY <1>3 DEF Leave
  <2>2. Distinct(front) /\ Top \notin ToSet(front)
    BY <1>1, <2>1, FrontDistinct DEF IInv, ChainInv, Top
  <2>3. Top \in Files /\ Top \in OnChain /\ OnChain = ToSet(front) \cup {Top}
    BY <1>1, <2>1, FrontSet, TopOnChain DEF IInv, OnChain, Top
  <2>4. Top \notin ToSet(finished)
    BY <2>3 DEF IInv, ChainInv
  <2>5. Distinct(finished') /\ ToSet(finished') = ToSet(finished) \cup {Top}
    BY <1>1, <2>1, <2>3, <2>4, AppendDistinct, AppendSet DEF IInv
  <2>6. ToSet(front) \cap ToSet(finished') = {}
    BY <2>2, <2>3, <2>5 DEF IInv, ChainInv
  <2>7. front # << >> => front[1] = Entry
    <3>1. ASSUME front # << >> PROVE 1 \in DOMAIN front
      BY <3>1, <1>1, <2>1, FrontSet
    <3>2. QED
      BY <3>1, <1>1, <2>1, FrontSet DEF IInv, ChainInv
  <2>8. \A i, j \in DOMAIN front : i <= j => Leads(Program, front[i], front[j])
    BY <1>1, <2>1, FrontSet DEF IInv, ChainInv, Reaches
  <2>9. QED
    BY <1>2, <2>1, <2>2, <2>5, <2>6, <2>7, <2>8 DEF ChainInv, OnChain, Reaches
<1>4. ASSUME NEW f \in Files, Cycle(f) \/ Skip(f) \/ NotFound(f) PROVE ChainInv' /\ Distinct(finished)'
  <2>1. loadChain' = loadChain /\ finished' = finished
    BY <1>4 DEF Cycle, Skip, NotFound
  <2>2. QED
    BY <1>2, <2>1 DEF IInv, ChainInv, OnChain, Reaches
<1>5. ASSUME NEW f \in Files, Enter(f) PROVE ChainInv' /\ Distinct(finished)'
  <2>1. loadChain' = Append(loadChain, f) /\ finished' = finished /\ f \notin OnChain /\ f \notin seen
    BY <1>5 DEF Enter, New
  <2>2. Distinct(loadChain')
    BY <1>1, <2>1, AppendDistinct DEF IInv, ChainInv, OnChain
  <2>3. OnChain' = OnChain \cup {f}
    BY <1>1, <2>1, AppendSet DEF OnChain
  <2>4. f \notin ToSet(finished)
    BY <2>1 DEF IInv, SeenInv
  <2>5. loadChain'[1] = Entry
    <3>1. CASE loadChain = << >>
      BY <3>1, <1>5, <2>1 DEF Enter, New, Calls
    <3>2. CASE loadChain # << >>
      BY <3>2, <1>1, <2>1 DEF IInv, ChainInv
    <3>3. QED
      BY <3>1, <3>2
  <2>6. \A i \in DOMAIN loadChain : Leads(Program, loadChain[i], f)
    <3>1. TAKE i \in DOMAIN loadChain
    <3>2. loadChain # << >>
      BY <3>1
    <3>3. Leads(Program, loadChain[i], Top)
      <4>1. i <= Len(loadChain) /\ Len(loadChain) \in DOMAIN loadChain
        BY <1>1, <3>1
      <4>2. QED
        BY <3>1, <4>1 DEF IInv, ChainInv, Reaches, Top
    <3>4. f \in Program[Top]
      BY <3>2, <1>5, CallOfTop DEF Enter, New
    <3>5. QED
      BY <3>3, <3>4, LeadsOn
  <2>7. \A i, j \in DOMAIN loadChain' : i <= j => Leads(Program, loadChain'[i], loadChain'[j])
    <3>1. TAKE i, j \in DOMAIN loadChain'
    <3>2. HAVE i <= j
    <3>3. CASE j \in DOMAIN loadChain
      <4>1. i \in DOMAIN loadChain
        BY <1>1, <2>1, <3>1, <3>2, <3>3, AppendSet
      <4>2. QED
        BY <1>1, <2>1, <3>2, <3>3, <4>1, AppendSet DEF IInv, ChainInv, Reaches
    <3>4. CASE j = Len(loadChain) + 1
      <4>1. loadChain'[j] = f
        BY <1>1, <2>1, <3>4, AppendSet
      <4>2. CASE i \in DOMAIN loadChain
        BY <1>1, <2>1, <2>6, <4>1, <4>2, AppendSet
      <4>3. CASE i = Len(loadChain) + 1
        BY <3>4, <4>1, <4>3, LeadsSelf
      <4>4. QED
        BY <1>1, <2>1, <3>1, <4>2, <4>3, AppendSet
    <3>5. QED
      BY <1>1, <2>1, <3>1, <3>3, <3>4, AppendSet
  <2>8. QED
    BY <1>2, <2>1, <2>2, <2>3, <2>4, <2>5, <2>7 DEF IInv, ChainInv, Reaches
<1>6. QED
  BY <1>3, <1>4, <1>5 DEF Next, LoadUnit

LEMMA SeenStep == ASSUME IInv, Next PROVE SeenInv'
<1>1. /\ loadChain \in Seq(Files) /\ finished \in Seq(Files)
      /\ notFound \in Seq(Files) /\ units \in Seq(Files)
  BY DEF IInv, TypeOK
<1>2. Program' = Program /\ missing' = missing
  BY ProgramStays DEF Next, Leave, LoadUnit, Cycle, Skip, NotFound, Enter, input
<1> USE DEF IInv, SeenInv, Reaches, OnChain
<1>3. CASE Leave
  <2>1. OnChain = OnChain' \cup {Top} /\ Top \in Files
    BY <1>1, <1>3, FrontSet DEF Leave, Top
  <2>2. ToSet(finished') = ToSet(finished) \cup {Top}
    BY <1>1, <1>3, <2>1, AppendSet DEF Leave
  <2>3. UNCHANGED <<seen, units, notFound>>
    BY <1>3 DEF Leave
  <2>4. QED
    BY <1>2, <2>1, <2>2, <2>3
<1>4. ASSUME NEW f \in Files, Cycle(f) \/ Skip(f) PROVE SeenInv'
  <2>1. UNCHANGED <<loadChain, seen, units, notFound, finished>>
    BY <1>4 DEF Cycle, Skip
  <2>2. QED
    BY <1>2, <2>1
\* A new file is reached from the entry, which is the first to be seen.
<1>5. ASSUME NEW f \in Files, New(f) PROVE Leads(Program, Entry, f) /\ (seen # {} \/ f = Entry)
  <2>1. CASE loadChain = << >>
    BY <1>5, <2>1, CallOfTop, LeadsSelf DEF New
  <2>2. CASE loadChain # << >>
    BY <1>5, <2>2, CallOfTop, LeadsOn DEF New
  <2>3. QED
    BY <2>1, <2>2
<1>6. ASSUME NEW f \in Files, NotFound(f) PROVE SeenInv'
  <2>1. /\ seen' = seen \cup {f} /\ f \in missing /\ New(f)
        /\ UNCHANGED <<loadChain, units, finished>> /\ notFound' = Append(notFound, f)
    BY <1>6 DEF NotFound
  <2>2. ToSet(notFound') = ToSet(notFound) \cup {f}
    BY <1>1, <2>1, AppendSet
  <2>3. QED
    BY <1>2, <1>5, <2>1, <2>2
<1>7. ASSUME NEW f \in Files, Enter(f) PROVE SeenInv'
  <2>1. /\ seen' = seen \cup {f} /\ f \notin missing /\ New(f)
        /\ UNCHANGED <<notFound, finished>>
        /\ units' = Append(units, f) /\ loadChain' = Append(loadChain, f)
    BY <1>7 DEF Enter
  <2>2. ToSet(units') = ToSet(units) \cup {f} /\ ToSet(loadChain') = ToSet(loadChain) \cup {f}
    BY <1>1, <2>1, AppendSet
  <2>3. QED
    BY <1>2, <1>5, <2>1, <2>2
<1>8. QED
  BY <1>3, <1>4, <1>6, <1>7 DEF Next, LoadUnit

\* An import that has gone stays gone.
LEMMA GoneStays ==
  ASSUME IInv, Next, NEW f \in Files, NEW g \in Files, Gone(f, g)
  PROVE  Gone(f, g)'
<1>1. loadChain \in Seq(Files) /\ finished \in Seq(Files)
  BY DEF IInv, TypeOK
<1>2. missing' = missing /\ cycles \subseteq cycles'
  BY DEF Next, Leave, LoadUnit, Cycle, Skip, NotFound, Enter, input
<1>3. ASSUME NEW x \in Files, Cycle(x) \/ Skip(x) \/ NotFound(x) PROVE Gone(f, g)'
  <2>1. UNCHANGED <<loadChain, finished>>
    BY <1>3 DEF Cycle, Skip, NotFound
  <2>2. QED
    BY <1>2, <2>1 DEF Gone
<1>4. ASSUME NEW x \in Files, Enter(x) PROVE Gone(f, g)'
  <2>1. finished' = finished /\ loadChain' = Append(loadChain, x)
    BY <1>4 DEF Enter
  <2>2. DOMAIN loadChain \subseteq DOMAIN loadChain' /\ \A i \in DOMAIN loadChain : loadChain'[i] = loadChain[i]
    BY <1>1, <2>1, AppendSet
  <2>3. QED
    BY <1>2, <2>1, <2>2 DEF Gone
<1>5. CASE Leave
  <2> DEFINE n == Len(finished) + 1
             k == Len(loadChain)
  <2>1. /\ loadChain # << >> /\ loadChain' = SubSeq(loadChain, 1, k - 1)
        /\ finished' = Append(finished, Top)
    BY <1>5 DEF Leave
  <2>2. k \in Nat \ {0} /\ DOMAIN loadChain = 1..k /\ DOMAIN loadChain' = 1..(k - 1)
        /\ \A i \in 1..(k - 1) : loadChain'[i] = loadChain[i]
    BY <1>1, <2>1, FrontSet
  <2>3. Top = loadChain[k] /\ Top \in Files
    BY <2>1, TopOnChain DEF Top, IInv
  <2>4. DOMAIN finished = 1..(n - 1) /\ n \in Nat \ {0} /\ DOMAIN finished' = 1..n
        /\ \A i \in 1..(n - 1) : finished'[i] = finished[i]
    BY <1>1, <2>1, <2>3, AppendSet
  <2>5. finished'[n] = Top
    BY <1>1, <2>1, <2>3, AppendSet
  <2>6. CASE g \in missing \/ <<f, g>> \in cycles
    BY <1>2, <2>6 DEF Gone
  <2>7. ASSUME NEW j \in DOMAIN finished, finished[j] = g,
               \A i \in DOMAIN finished : finished[i] = f => j < i
        PROVE  Gone(f, g)'
    <3>1. j \in DOMAIN finished' /\ finished'[j] = g /\ j < n
      BY <2>4, <2>7
    <3>2. \A i \in DOMAIN finished' : finished'[i] = f => j < i
      BY <2>4, <2>7, <3>1
    <3>3. QED
      BY <3>1, <3>2 DEF Gone
  <2>8. ASSUME NEW i \in DOMAIN loadChain, i + 1 \in DOMAIN loadChain,
               loadChain[i] = f, loadChain[i + 1] = g
        PROVE  Gone(f, g)'
    <3>1. CASE i + 1 < k
      <4>1. i \in DOMAIN loadChain' /\ i + 1 \in DOMAIN loadChain'
        BY <2>2, <2>8, <3>1
      <4>2. loadChain'[i] = f /\ loadChain'[i + 1] = g
        BY <2>2, <2>8, <4>1
      <4>3. QED
        BY <4>1, <4>2 DEF Gone
    <3>2. CASE i + 1 = k
      <4>1. g = Top /\ f # Top
        BY <2>2, <2>3, <2>8, <3>2 DEF IInv, ChainInv, Distinct
      <4>2. f \notin ToSet(finished)
        BY <2>8 DEF IInv, ChainInv, OnChain, ToSet
      <4>3. n \in DOMAIN finished' /\ finished'[n] = g
        BY <2>4, <2>5, <4>1
      <4>4. \A m \in DOMAIN finished' : finished'[m] # f
        BY <2>4, <2>5, <4>1, <4>2 DEF ToSet
      <4>5. QED
        BY <4>3, <4>4 DEF Gone
    <3>3. QED
      BY <2>2, <2>8, <3>1, <3>2
  <2>9. QED
    BY <2>6, <2>7, <2>8 DEF Gone
<1>6. QED
  BY <1>3, <1>4, <1>5 DEF Next, LoadUnit

\* The import that is taken has gone afterwards.
LEMMA TakenIsGone ==
  ASSUME IInv, NEW f \in Files, LoadUnit(f), loadChain # << >>,
         NEW h \in Files, h = Top
  PROVE  f \in seen' /\ Gone(h, f)'
<1>1. loadChain \in Seq(Files) /\ h \in Files /\ h \in OnChain
  BY TopOnChain DEF IInv, TypeOK
<1>2. CASE Cycle(f)
  <2>1. f \in seen' /\ <<h, f>> \in cycles'
    BY <1>2 DEF Cycle, IInv, SeenInv
  <2>2. QED
    BY <2>1 DEF Gone
<1>3. CASE Skip(f)
  <2>1. UNCHANGED <<loadChain, finished, missing, seen>> /\ f \in seen /\ f \notin OnChain
    BY <1>3 DEF Skip, input
  <2>2. CASE f \in missing
    BY <2>1, <2>2 DEF Gone
  <2>3. CASE f \notin missing
    <3>1. f \in ToSet(finished) /\ h \notin ToSet(finished)
      BY <1>1, <2>1, <2>3 DEF IInv, SeenInv, ChainInv
    <3>2. QED
      BY <2>1, <3>1 DEF Gone, ToSet
  <2>4. QED
    BY <2>2, <2>3
<1>4. CASE NotFound(f)
  BY <1>4 DEF NotFound, Gone, input
<1>5. CASE Enter(f)
  <2>1. loadChain' = Append(loadChain, f) /\ f \in seen'
    BY <1>5 DEF Enter
  <2> DEFINE k == Len(loadChain)
  <2>2. k \in DOMAIN loadChain' /\ k + 1 \in DOMAIN loadChain' /\ loadChain'[k] = h /\ loadChain'[k + 1] = f
    BY <1>1, <2>1, AppendSet, TopOnChain DEF IInv, Top
  <2>3. QED
    BY <2>1, <2>2 DEF Gone
<1>6. QED
  BY <1>2, <1>3, <1>4, <1>5 DEF LoadUnit

LEMMA TodoStep == ASSUME IInv, Next PROVE TodoInv'
<1>1. imports' = imports /\ loadChain \in Seq(Files) /\ finished \in Seq(Files)
  BY DEF Next, Leave, LoadUnit, Cycle, Skip, NotFound, Enter, input, IInv, TypeOK
<1>2. CASE Leave
  <2>1. todo' = todo /\ seen' = seen /\ todo[Top] = {} /\ loadChain # << >>
        /\ finished' = Append(finished, Top)
    BY <1>2 DEF Leave
  <2>2. ToSet(finished') = ToSet(finished) \cup {Top}
    BY <1>1, <2>1, TopOnChain, AppendSet DEF IInv
  <2>3. \A f \in Files : \A g \in imports[f] \ todo[f] : g \in Files /\ Gone(f, g)'
    BY GoneStays DEF IInv, TodoInv, TypeOK
  <2>4. QED
    BY <1>1, <2>1, <2>2, <2>3 DEF IInv, TodoInv
<1>3. ASSUME NEW x \in Files, LoadUnit(x) PROVE TodoInv'
  <2>1. Took(x) /\ seen \subseteq seen' /\ finished' = finished
    BY <1>3 DEF LoadUnit, Cycle, Skip, NotFound, Enter
  <2>2. \A h \in Files : todo'[h] \subseteq imports'[h]
    BY <1>1, <2>1, TookOne DEF IInv, TodoInv
  <2>3. ASSUME NEW h \in Files, NEW g \in imports[h] \ todo'[h]
        PROVE  g \in seen' /\ Gone(h, g)'
    <3>1. CASE g \notin todo[h]
      <4>1. g \in Files /\ g \in seen /\ Gone(h, g)
        BY <2>3, <3>1 DEF IInv, TodoInv, TypeOK
      <4>2. QED
        BY <1>3, <2>1, <4>1, GoneStays DEF Next
    <3>2. CASE g \in todo[h]
      <4>1. loadChain # << >> /\ h = Top /\ g = x
        BY <2>1, <2>3, <3>2, TookOne DEF IInv
      <4>2. QED
        BY <1>3, <4>1, TakenIsGone
    <3>3. QED
      BY <3>1, <3>2
  <2>4. \A f \in ToSet(finished) : todo'[f] = {}
    <3>1. ToSet(finished) \subseteq Files
      BY <1>1 DEF ToSet
    <3>2. QED
      BY <2>1, <3>1, TookOne DEF IInv, TodoInv
  <2>5. QED
    BY <1>1, <2>1, <2>2, <2>3, <2>4 DEF TodoInv
<1>4. QED
  BY <1>2, <1>3 DEF Next

LEMMA RestStep == ASSUME IInv, Next PROVE LoadedOnce' /\ EntryFirst' /\ CyclesAreReal'
<1>1. loadChain \in Seq(Files) /\ units \in Seq(Files) /\ notFound \in Seq(Files)
  BY DEF IInv, TypeOK
<1>2. Program' = Program
  BY ProgramStays DEF Next, Leave, LoadUnit, Cycle, Skip, NotFound, Enter
<1> USE DEF IInv, LoadedOnce, EntryFirst, CyclesAreReal, Reaches
<1>3. CASE Leave
  BY <1>2, <1>3 DEF Leave
<1>4. ASSUME NEW f \in Files, Skip(f) PROVE LoadedOnce' /\ EntryFirst' /\ CyclesAreReal'
  BY <1>2, <1>4 DEF Skip
<1>5. ASSUME NEW f \in Files, Cycle(f) PROVE LoadedOnce' /\ EntryFirst' /\ CyclesAreReal'
  <2>1. Calls(f) /\ f \in OnChain /\ UNCHANGED <<units, notFound>>
        /\ cycles' = cycles \cup {<<Top, f>>}
    BY <1>5 DEF Cycle
  <2>2. loadChain # << >>
    BY <2>1 DEF OnChain, ToSet
  <2>3. f \in Program[Top]
    BY <2>1, <2>2, CallOfTop
  <2>4. Leads(Program, f, Top)
    <3>1. PICK i \in DOMAIN loadChain : loadChain[i] = f
      BY <2>1 DEF OnChain, ToSet
    <3>2. i <= Len(loadChain) /\ Len(loadChain) \in DOMAIN loadChain
      BY <1>1, <3>1
    <3>3. QED
      BY <3>1, <3>2 DEF ChainInv, Top
  <2>5. QED
    BY <1>2, <2>1, <2>3, <2>4
<1>6. ASSUME NEW f \in Files, NotFound(f) PROVE LoadedOnce' /\ EntryFirst' /\ CyclesAreReal'
  <2>1. f \notin ToSet(notFound)
    BY <1>6 DEF NotFound, New, SeenInv
  <2>2. Distinct(Append(notFound, f))
    BY <1>1, <2>1, AppendDistinct
  <2>3. QED
    BY <1>2, <1>6, <2>2 DEF NotFound
<1>7. ASSUME NEW f \in Files, Enter(f) PROVE LoadedOnce' /\ EntryFirst' /\ CyclesAreReal'
  <2>1. f \notin ToSet(units) /\ units' = Append(units, f) /\ UNCHANGED <<cycles, notFound>>
    BY <1>7 DEF Enter, New, SeenInv
  <2>2. Distinct(units')
    BY <1>1, <2>1, AppendDistinct
  <2>3. units'[1] = Entry
    <3>1. CASE units = << >>
      <4>1. ToSet(units) = {}
        BY <3>1 DEF ToSet
      <4>2. loadChain = << >>
        BY <4>1, TopOnChain DEF SeenInv
      <4>3. QED
        BY <3>1, <4>2, <1>1, <1>7, <2>1 DEF Enter, New, Calls
    <3>2. CASE units # << >>
      BY <1>1, <2>1, <3>2
    <3>3. QED
      BY <3>1, <3>2
  <2>4. QED
    BY <1>2, <2>1, <2>2, <2>3
<1>8. QED
  BY <1>3, <1>4, <1>5, <1>6, <1>7 DEF Next, LoadUnit

LEMMA InvStep == IInv /\ [Next]_vars => IInv'
<1> SUFFICES ASSUME IInv, [Next]_vars PROVE IInv'
  OBVIOUS
<1>1. CASE Next
  BY <1>1, TypeStep, ChainStep, SeenStep, TodoStep, RestStep DEF IInv
<1>2. CASE UNCHANGED vars
  <2>1. /\ UNCHANGED <<imports, missing, loadChain, todo, seen, units, cycles, notFound, finished>>
        /\ Program' = Program
    BY <1>2, ProgramStays DEF vars, input
  <2>2. TypeOK' /\ LoadedOnce' /\ EntryFirst' /\ Distinct(finished)'
    BY <2>1 DEF IInv, TypeOK, LoadedOnce, EntryFirst
  <2>3. ChainInv' /\ SeenInv' /\ CyclesAreReal'
    BY <2>1 DEF IInv, ChainInv, SeenInv, CyclesAreReal, Reaches, OnChain
  <2>4. TodoInv'
    BY <2>1 DEF IInv, TodoInv, Gone
  <2>5. QED
    BY <2>2, <2>3, <2>4 DEF IInv
<1>3. QED
  BY <1>1, <1>2

\* The invariant holds in every state of every loading (ModuleLoader::loadUnit).
THEOREM Invariant == Spec => []IInv
<1>1. QED
  BY InitInv, InvStep, PTL DEF Spec

-----------------------------------------------------------------------------
(* What the loading promises.                                              *)

\* No file is loaded or reported missing twice (seen_).
THEOREM EachFileOnce == Spec => []LoadedOnce
<1>1. IInv => LoadedOnce
  BY DEF IInv
<1>2. QED
  BY <1>1, Invariant, PTL

\* units[0] is the entry.
THEOREM EntryIsFirst == Spec => []EntryFirst
<1>1. IInv => EntryFirst
  BY DEF IInv
<1>2. QED
  BY <1>1, Invariant, PTL

\* E_MODULE_CYCLE is never reported without a circular import.
THEOREM NoFalseCycle == Spec => []CyclesAreReal
<1>1. IInv => CyclesAreReal
  BY DEF IInv
<1>2. QED
  BY <1>1, Invariant, PTL

\* When the loading is over, the order in which files were finished has every
\* import before its importer, but for those reported.
LEMMA FinishedOrder == IInv => NoCycleMissed
<1> DEFINE Uncut == Without(Program, cycles)
<1> SUFFICES ASSUME IInv, Over, NEW f \in ToSet(units), NEW g \in Uncut[f], Leads(Uncut, g, f), f \in Files
             PROVE  FALSE
  BY DEF NoCycleMissed, Circular
<1>0. \A h \in Files : \A x \in Uncut[h] : x \in Program[h] /\ <<h, x>> \notin cycles
  BY DEF Without
<1>1. loadChain = << >> /\ OnChain = {} /\ finished \in Seq(Files) /\ missing \subseteq Files
  BY DEF Over, OnChain, ToSet, IInv, TypeOK
<1>2. f \in ToSet(finished) /\ f \notin missing
  BY <1>1 DEF IInv, SeenInv
<1>3. PICK n \in DOMAIN finished : finished[n] = f
  BY <1>2 DEF ToSet
<1> DEFINE S == missing \cup {finished[j] : j \in {i \in DOMAIN finished : i < n}}
<1>4. S \subseteq Files
  BY <1>1
<1>5. ASSUME NEW h \in Files, NEW x \in Uncut[h], NEW m \in DOMAIN finished, finished[m] = h, m <= n
      PROVE  x \in S
  <2>1. h \notin missing /\ x \in imports[h] /\ todo[h] = {} /\ x \in Files
    <3>1. x \in Program[h] /\ h \in ToSet(finished)
      BY <1>0, <1>5 DEF ToSet
    <3>2. QED
      BY <1>5, <3>1 DEF Program, IInv, TodoInv, TypeOK
  <2>2. Gone(h, x)
    BY <2>1 DEF IInv, TodoInv
  <2>3. CASE x \in missing
    BY <2>3
  <2>4. ASSUME NEW j \in DOMAIN finished, finished[j] = x,
               \A i \in DOMAIN finished : finished[i] = h => j < i
        PROVE  x \in S
    <3>1. j < m
      BY <1>5, <2>4
    <3>2. j < n
      BY <1>1, <1>3, <1>5, <2>4, <3>1
    <3>3. QED
      BY <2>4, <3>2
  <2>5. QED
    BY <1>0, <1>1, <1>5, <2>2, <2>3, <2>4 DEF Gone
<1>6. Closed(Uncut, S)
  <2>1. SUFFICES ASSUME NEW h \in S, NEW x \in Uncut[h] PROVE x \in S
    BY DEF Closed
  <2>2. CASE h \in missing
    BY <1>0, <1>1, <1>4, <2>1, <2>2 DEF Program
  <2>3. CASE h \notin missing
    <3>1. PICK m \in DOMAIN finished : finished[m] = h /\ m < n
      BY <2>1, <2>3
    <3>2. h \in Files /\ m <= n
      BY <1>1, <1>3, <1>4, <2>1, <3>1
    <3>3. QED
      BY <1>5, <2>1, <3>1, <3>2
  <2>4. QED
    BY <2>2, <2>3
<1>7. g \in S
  <2>1. f \in Files /\ n <= n
    BY <1>1, <1>3
  <2>2. QED
    BY <1>3, <1>5, <2>1
<1>8. f \in S
  BY <1>4, <1>6, <1>7 DEF Leads
<1>9. f \notin S
  BY <1>1, <1>2, <1>3 DEF IInv, Distinct
<1>10. QED
  BY <1>8, <1>9

\* Every circle of imports is cut by one that is reported.
THEOREM EveryCycleReported == Spec => []NoCycleMissed
<1>1. QED
  BY FinishedOrder, Invariant, PTL

\* When the loading is over, what was seen is closed under imports.
LEMMA ReachedIsSeen == IInv => AllLoaded
<1> SUFFICES ASSUME IInv, Over, NEW f \in Files
             PROVE  Reaches(Entry, f) <=> f \in ToSet(units) \cup ToSet(notFound)
  BY DEF AllLoaded
<1>1. /\ OnChain = {} /\ seen = ToSet(units) \cup ToSet(notFound)
      /\ Entry \in seen /\ seen \subseteq Files
  <2>1. OnChain = {}
    BY DEF Over, OnChain, ToSet
  <2>2. QED
    BY <2>1 DEF Over, IInv, SeenInv, TypeOK
<1>2. Closed(Program, seen)
  <2>1. SUFFICES ASSUME NEW h \in seen, NEW x \in Program[h] PROVE x \in seen
    BY DEF Closed
  <2>2. h \in Files /\ h \notin missing /\ x \in imports[h]
    BY <1>1, <2>1 DEF Program
  <2>3. h \in ToSet(finished)
    BY <1>1, <2>1, <2>2 DEF IInv, SeenInv
  <2>4. QED
    BY <2>2, <2>3 DEF IInv, TodoInv
<1>3. QED
  BY <1>1, <1>2 DEF Reaches, Leads, IInv, SeenInv

\* Exactly the files the entry leads to are loaded or reported missing.
THEOREM LoadsWhatIsReached == Spec => []AllLoaded
<1>1. QED
  BY ReachedIsSeen, Invariant, PTL

\* The files that report a circular import are in the graph.
ReportsOfUnits == \A e \in cycles : e \in Files \X Files /\ e[1] \in ToSet(units)

LEMMA ReportsStep == ASSUME IInv, ReportsOfUnits, [Next]_vars PROVE ReportsOfUnits'
<1>0. units \in Seq(Files)
  BY DEF IInv, TypeOK
<1> USE DEF ReportsOfUnits
<1>1. CASE UNCHANGED vars
  BY <1>1 DEF vars
<1>2. CASE Leave
  BY <1>2 DEF Leave
<1>3. ASSUME NEW f \in Files, Skip(f) \/ NotFound(f) PROVE ReportsOfUnits'
  BY <1>3 DEF Skip, NotFound
<1>4. ASSUME NEW f \in Files, Enter(f) PROVE ReportsOfUnits'
  <2>1. ToSet(units') = ToSet(units) \cup {f} /\ cycles' = cycles
    BY <1>0, <1>4, AppendSet DEF Enter
  <2> QED BY <2>1
<1>5. ASSUME NEW f \in Files, Cycle(f) PROVE ReportsOfUnits'
  <2>1. cycles' = cycles \cup {<<Top, f>>} /\ units' = units /\ loadChain # << >>
    BY <1>5 DEF Cycle, OnChain, ToSet
  <2>2. Top \in Files /\ Top \in ToSet(units)
    BY <2>1, TopOnChain DEF IInv, SeenInv
  <2> QED BY <2>1, <2>2
<1> QED BY <1>1, <1>2, <1>3, <1>4, <1>5 DEF Next, LoadUnit

\* When the loading is over, what was loaded and reported is as promised.
LEMMA InvariantCuts == IInv /\ ReportsOfUnits => LoaderCuts
<1> SUFFICES ASSUME IInv, ReportsOfUnits, Over
             PROVE  /\ ToSet(units) = {f \in Files : f \notin missing /\ Leads(Program, Entry, f)}
                    /\ cycles \in Cuts(Program, ToSet(units))
  BY DEF LoaderCuts
<1>1. ToSet(units) \subseteq Files
  BY DEF IInv, TypeOK, ToSet
<1>2. ToSet(units) = {f \in Files : f \notin missing /\ Leads(Program, Entry, f)}
  <2>1. ToSet(notFound) \subseteq missing /\ ToSet(units) \cap missing = {}
    BY DEF IInv, SeenInv
  <2>2. \A f \in Files : Leads(Program, Entry, f) <=> f \in ToSet(units) \cup ToSet(notFound)
    BY ReachedIsSeen DEF AllLoaded, Reaches
  <2> QED BY <1>1, <2>1, <2>2
<1>3. \A e \in cycles : e \in Circular(Program) /\ e[1] \in ToSet(units)
  <2> SUFFICES ASSUME NEW e \in cycles
               PROVE  e \in Circular(Program) /\ e[1] \in ToSet(units)
    OBVIOUS
  <2>1. e \in Files \X Files /\ e[1] \in ToSet(units) /\ e = <<e[1], e[2]>>
    BY DEF ReportsOfUnits
  <2>2. e[2] \in Program[e[1]] /\ Leads(Program, e[2], e[1])
    BY <2>1 DEF IInv, CyclesAreReal, Reaches
  <2> QED BY <2>1, <2>2 DEF Circular
<1>4. \A i \in Circular(Without(Program, cycles)) : i[1] \notin ToSet(units)
  <2> SUFFICES ASSUME NEW i \in Circular(Without(Program, cycles)), i[1] \in ToSet(units)
               PROVE  FALSE
    OBVIOUS
  <2>1. i[2] \in Files /\ i = <<i[1], i[2]>>
    BY DEF Circular
  <2> QED BY <2>1, FinishedOrder DEF NoCycleMissed
<1>5. cycles \in Cuts(Program, ToSet(units))
  BY <1>3, <1>4 DEF Cuts
<1> QED BY <1>2, <1>5

\* Every compilation of the language server finds what the loader can have
\* reported.
THEOREM ReportsAreCuts == Spec => []LoaderCuts
<1>1. Init => ReportsOfUnits
  BY DEF Init, ReportsOfUnits
<1>2. Spec => []ReportsOfUnits
  BY <1>1, ReportsStep, Invariant, PTL DEF Spec
<1> QED BY <1>2, InvariantCuts, Invariant, PTL

-----------------------------------------------------------------------------
(* The inductive invariant.                                                *)

Passes   == {"load", "register", "imports", "bodies", "number", "initialise", "main", "rejected"}
Numbered == {"number", "initialise", "main"}
Running  == {"initialise", "main"}

\* Type correctness.
NamesTypeOK ==
  /\ units \in Seq(Files)
  /\ text \in [Files -> [imports : Seq(Import), decls : Seq(Declaration)]]
  /\ pass \in Passes /\ unit \in Nat \ {0} /\ item \in Nat \ {0}
  /\ symbols \in [Names -> Files \cup {Unset}] /\ visible \in [Files -> SUBSET Names]
  /\ globalOf \in [Names -> Int] /\ nextGlobal = Len(allGlobalVars)
  /\ allGlobalVars \in Seq((Nat \ {0}) \X (Nat \ {0}))

\* What no pass has touched yet.
Untouched ==
  /\ pass \in {"load", "register"} => \A f \in Files : visible[f] = {}
  /\ pass \notin Numbered => allGlobalVars = << >> /\ \A n \in Names : globalOf[n] = -1
  /\ pass \notin Running => reads = {}

\* The loops of the pass have been at p.
Passed(p) == p[1] < unit \/ (p[1] = unit /\ p[2] < item)

\* The file that has a name declares it.
Declares(f, n) == \E j \in DOMAIN text[f].decls : text[f].decls[j].name = n
Declared == \A n \in Names : symbols[n] # Unset => Declares(symbols[n], n)

\* A name a file sees was asked for by an import, of a file that exports it.
Grants(m, n) ==
  /\ m.as = n /\ SourceOf(m) # Unset
  /\ symbols[m.name] = SourceOf(m) /\ Exported(SourceOf(m), m.name)
Granted(f, n) == \E k \in DOMAIN text[f].imports : Grants(text[f].imports[k], n)
Bindings == \A f \in Files : \A n \in visible[f] : Granted(f, n)

\* The body of a declaration was checked, or an error reported.
MayRead(f, n) == symbols[n] # Unset /\ (symbols[n] = f \/ n \in visible[f])
Readable(p)   == \A n \in DeclAt(p).reads : MayRead(units[p[1]], n)
Checked ==
  /\ Accepted => errors = {}
  /\ \A p \in Places :
       (pass = "bodies" /\ Passed(p)) \/ Accepted => errors # {} \/ Readable(p)

\* The list of the globals has those the loops have been at, in their order.
GlobalPlace(p) == p \in Places /\ DeclAt(p).kind = "global"
Listed(p)      == \E k \in DOMAIN allGlobalVars : allGlobalVars[k] = p
ListOk ==
  /\ \A k \in DOMAIN allGlobalVars :
       /\ GlobalPlace(allGlobalVars[k])
       /\ pass = "number" => Passed(allGlobalVars[k])
  /\ \A j, k \in DOMAIN allGlobalVars : j < k => Before(allGlobalVars[j], allGlobalVars[k])
  /\ \A p \in Places :
       GlobalPlace(p) /\ ((pass = "number" /\ Passed(p)) \/ pass \in Running) => Listed(p)

\* The number of a name is that of a declaration of the name.
Owns(g, n) == g + 1 \in DOMAIN allGlobalVars /\ DeclAt(allGlobalVars[g + 1]).name = n
NumbersOk ==
  /\ \A n \in Names : globalOf[n] # -1 => globalOf[n] \in Nat /\ Owns(globalOf[n], n)
  /\ \A k \in DOMAIN allGlobalVars : globalOf[DeclAt(allGlobalVars[k]).name] # -1

\* The globals main has been at hold their own values.
Holds(p) == slots[globalOf[DeclAt(p).name]] = p
SlotsOk ==
  /\ pass \in Running =>
       /\ slots \in [0..Len(allGlobalVars) - 1 -> Places \cup {Unset}]
       /\ \A k \in DOMAIN allGlobalVars :
            k < item /\ DeclaredOnce(allGlobalVars[k]) => Holds(allGlobalVars[k])
  /\ pass = "main" => item > Len(allGlobalVars)

NamesInv ==
  /\ NamesTypeOK /\ Untouched /\ Declared /\ Bindings /\ Checked
  /\ ListOk /\ NumbersOk /\ SlotsOk /\ EarlierAreInitialised

-----------------------------------------------------------------------------
(* Programs and places.                                                    *)

\* The declarations and imports of a file, and the places of a program.
LEMMA TextOf ==
  ASSUME NamesTypeOK, NEW f \in Files
  PROVE  /\ text[f].decls \in Seq(Declaration) /\ text[f].imports \in Seq(Import)
         /\ DOMAIN text[f].decls = 1..Len(text[f].decls) /\ Len(text[f].decls) \in Nat
         /\ DOMAIN text[f].imports = 1..Len(text[f].imports) /\ Len(text[f].imports) \in Nat
         /\ \A i \in DOMAIN text[f].decls : text[f].decls[i] \in Declaration
         /\ \A i \in DOMAIN text[f].imports : text[f].imports[i] \in Import
<1>1. text[f].decls \in Seq(Declaration) /\ text[f].imports \in Seq(Import)
  BY DEF NamesTypeOK
<1>2. QED
  BY <1>1

LEMMA PlaceIs ==
  ASSUME NamesTypeOK, NEW u, NEW i
  PROVE  <<u, i>> \in Places
           <=> /\ u \in 1..Len(units) /\ units[u] \in Files
               /\ i \in 1..Len(text[units[u]].decls)
<1>1. DOMAIN units = 1..Len(units) /\ Len(units) \in Nat
      /\ \A k \in DOMAIN units : units[k] \in Files
  BY DEF NamesTypeOK
<1>2. <<u, i>>[1] = u /\ <<u, i>>[2] = i
  OBVIOUS
<1>3. CASE u \in DOMAIN units
  <2>1. units[u] \in Files /\ DOMAIN text[units[u]].decls = 1..Len(text[units[u]].decls)
    BY <1>1, <1>3, TextOf
  <2>2. DOMAIN text[units[u]].decls \subseteq UNION {DOMAIN text[f].decls : f \in Files}
    BY <2>1
  <2>3. QED
    BY <1>1, <1>2, <1>3, <2>1, <2>2 DEF Places
<1>4. CASE u \notin DOMAIN units
  BY <1>1, <1>4 DEF Places
<1>5. QED
  BY <1>3, <1>4

LEMMA PlaceParts ==
  ASSUME NamesTypeOK, NEW p \in Places
  PROVE  /\ p = <<p[1], p[2]>> /\ p[1] \in 1..Len(units) /\ p[1] \in Nat \ {0}
         /\ units[p[1]] \in Files /\ p[2] \in 1..Len(text[units[p[1]]].decls) /\ p[2] \in Nat \ {0}
         /\ DeclAt(p) \in Declaration /\ DeclAt(p).name \in Names /\ DeclAt(p).reads \subseteq Names
<1>1. p = <<p[1], p[2]>>
  BY DEF Places
<1>2. /\ p[1] \in 1..Len(units) /\ units[p[1]] \in Files
      /\ p[2] \in 1..Len(text[units[p[1]]].decls)
  BY <1>1, PlaceIs
<1>3. Len(units) \in Nat /\ Len(text[units[p[1]]].decls) \in Nat
  BY <1>2, TextOf DEF NamesTypeOK
<1>4. DeclAt(p) \in Declaration
  BY <1>2, TextOf DEF DeclAt
<1>5. DeclAt(p).name \in Names /\ DeclAt(p).reads \subseteq Names
  BY <1>4 DEF Declaration
<1>6. QED
  BY <1>1, <1>2, <1>3, <1>4, <1>5

\* Where the loops of a pass over the declarations are.
LEMMA HereIsPlace ==
  ASSUME NamesTypeOK, unit <= Len(units), item <= Len(Items), pass # "imports"
  PROVE  Here \in Places /\ Item = DeclAt(Here) /\ units[unit] = Unit /\ Unit \in Files
         /\ Here[1] = unit /\ Here[2] = item /\ Item \in Declaration
<1>1. unit \in 1..Len(units) /\ Unit \in Files
  BY DEF NamesTypeOK, Unit
<1>2. Items = text[Unit].decls
  BY DEF Items
<1>3. item \in 1..Len(text[Unit].decls)
  BY <1>1, <1>2, TextOf DEF NamesTypeOK
<1>4. Here \in Places
  BY <1>1, <1>3, PlaceIs DEF Here, Unit
<1>5. Here[1] = unit /\ Here[2] = item
  BY DEF Here
<1>6. Item = DeclAt(Here)
  BY <1>2, <1>5 DEF Item, DeclAt, Unit
<1>7. QED
  BY <1>1, <1>4, <1>5, <1>6, PlaceParts DEF Unit

\* After the loader the program stays what it is.
LEMMA ProgramFixed ==
  ASSUME units' = units, text' = text
  PROVE  /\ Places' = Places
         /\ \A p : DeclAt(p)' = DeclAt(p) /\ (DeclaredOnce(p)' <=> DeclaredOnce(p))
                   /\ (GlobalPlace(p)' <=> GlobalPlace(p))
         /\ \A f, n : (Declares(f, n)' <=> Declares(f, n)) /\ (Exported(f, n)' <=> Exported(f, n))
         /\ \A m : SourceOf(m)' = SourceOf(m)
<1>1. Places' = Places
  BY DEF Places
<1>2. \A p : DeclAt(p)' = DeclAt(p)
  BY DEF DeclAt
<1>3. QED
  BY <1>1, <1>2 DEF DeclaredOnce, GlobalPlace, Declares, Exported, SourceOf

\* The place the loops are at is passed next, and no other.
LEMMA PassedNext ==
  ASSUME NamesTypeOK, NEW p \in Places, unit' = unit, item' = item + 1
  PROVE  Passed(p)' <=> Passed(p) \/ p = Here
<1>1. p = <<p[1], p[2]>> /\ p[1] \in Nat \ {0} /\ p[2] \in Nat \ {0}
  BY PlaceParts
<1>2. unit \in Nat /\ item \in Nat
  BY DEF NamesTypeOK
<1>3. p = Here <=> p[1] = unit /\ p[2] = item
  BY <1>1 DEF Here
<1>4. QED
  BY <1>1, <1>2, <1>3 DEF Passed

\* The same places are passed when the loops go to the next file.
LEMMA PassedFile ==
  ASSUME NamesTypeOK, NEW p \in Places, pass # "imports",
         unit <= Len(units), item > Len(Items), unit' = unit + 1, item' = 1
  PROVE  Passed(p)' <=> Passed(p)
<1>1. /\ p[1] \in Nat \ {0} /\ p[2] \in Nat \ {0}
      /\ p[2] \in 1..Len(text[units[p[1]]].decls) /\ units[p[1]] \in Files
  BY PlaceParts
<1>2. unit \in Nat /\ item \in Nat
  BY DEF NamesTypeOK
<1>3. p[1] = unit => p[2] < item
  <2>1. SUFFICES ASSUME p[1] = unit PROVE p[2] < item
    OBVIOUS
  <2>2. Items = text[units[p[1]]].decls
    BY <2>1 DEF Items, Unit
  <2>3. Len(Items) \in Nat
    BY <1>1, <2>2, TextOf
  <2>4. QED
    BY <1>1, <1>2, <2>2, <2>3
<1>4. QED
  BY <1>1, <1>2, <1>3 DEF Passed

\* All places are passed when the loops are over, none when they begin.
LEMMA PassedAll ==
  ASSUME NamesTypeOK, NEW p \in Places
  PROVE  (unit > Len(units) => Passed(p)) /\ (unit = 1 /\ item = 1 => ~Passed(p))
<1>1. p[1] \in Nat \ {0} /\ p[2] \in Nat \ {0} /\ p[1] \in 1..Len(units)
  BY PlaceParts
<1>2. unit \in Nat /\ item \in Nat /\ Len(units) \in Nat
  BY DEF NamesTypeOK
<1>3. QED
  BY <1>1, <1>2 DEF Passed

\* A place before another in the text.
LEMMA BeforeOrder ==
  ASSUME NamesTypeOK, NEW p \in Places, NEW q \in Places, Before(p, q)
  PROVE  p # q /\ ~Before(q, p)
<1>1. p[1] \in Nat /\ p[2] \in Nat /\ q[1] \in Nat /\ q[2] \in Nat
  BY PlaceParts
<1>2. QED
  BY <1>1 DEF Before

LEMMA PassedIsBefore ==
  ASSUME NEW p, Passed(p)
  PROVE  Before(p, Here)
<1>1. Here[1] = unit /\ Here[2] = item
  BY DEF Here
<1>2. QED
  BY <1>1 DEF Passed, Before

-----------------------------------------------------------------------------
(* The loader inside the compiler.                                         *)

\* What a step of the compiler does to the loader.
LEMMA CompilerIsLoader ==
  /\ NamesInit => Init
  /\ [NamesNext]_<<vars, names>> => [Next]_vars
<1>1. NamesInit => Init
  BY DEF NamesInit
<1>2. ASSUME [NamesNext]_<<vars, names>>
      PROVE  [Next]_vars
  <2>1. CASE Load
    BY <2>1 DEF Load
  <2>2. CASE Loaded \/ NextUnit \/ NextPass \/ Main
    BY <2>2 DEF Loaded, NextUnit, NextPass, Main
  <2>3. CASE Register \/ ValidateImport \/ CheckBody \/ Number \/ Initialise
    BY <2>3 DEF Register, ValidateImport, CheckBody, Number, Initialise, Takes
  <2>4. CASE UNCHANGED <<vars, names>>
    BY <2>4
  <2>5. QED
    BY <1>2, <2>1, <2>2, <2>3, <2>4 DEF NamesNext
<1>3. QED
  BY <1>1, <1>2

\* A compilation loads its files as the loader alone does, so all that the
\* loader promises holds inside it (cmdRun calls ModuleLoader::load first).
THEOREM LoadsFirst == NamesSpec => Spec
<1>1. QED
  BY CompilerIsLoader, PTL DEF NamesSpec, Spec

THEOREM LoaderInvariant == NamesSpec => []IInv
<1>1. QED
  BY LoadsFirst, Invariant, PTL

-----------------------------------------------------------------------------
(* The invariant is inductive, one conjunct after the other.               *)

LEMMA NamesInitInv == NamesInit => NamesInv
<1> SUFFICES ASSUME NamesInit PROVE NamesInv
  OBVIOUS
<1>1. NamesTypeOK
  BY ModuleNamesAssumption DEF NamesInit, Init, NamesTypeOK, Passes
<1>2. /\ pass = "load" /\ allGlobalVars = << >> /\ reads = {} /\ units = << >>
      /\ \A f \in Files : visible[f] = {}
      /\ \A n \in Names : symbols[n] = Unset /\ globalOf[n] = -1
  BY DEF NamesInit, Init
<1>3. Untouched /\ Declared /\ Bindings
  BY <1>2 DEF Untouched, Declared, Bindings
<1>4. Places = {}
  BY <1>2 DEF Places
<1>5. Checked /\ ListOk /\ SlotsOk
  BY <1>2, <1>4 DEF Checked, ListOk, SlotsOk, Running, Accepted
<1>6. NumbersOk /\ EarlierAreInitialised
  BY <1>2 DEF NumbersOk, EarlierAreInitialised
<1>7. QED
  BY <1>1, <1>3, <1>5, <1>6 DEF NamesInv

\* The steps of the compiler after the loader.
Compiles ==
  \/ Loaded \/ NextUnit \/ NextPass
  \/ Register \/ ValidateImport \/ CheckBody \/ Number \/ Initialise \/ Main

LEMMA CompilesKeeps == ASSUME Compiles PROVE units' = units /\ text' = text
<1>1. CASE Loaded \/ NextUnit \/ NextPass \/ Main
  BY <1>1 DEF Loaded, NextUnit, NextPass, Main, vars
<1>2. CASE Register \/ ValidateImport \/ CheckBody \/ Number \/ Initialise
  BY <1>2 DEF Register, ValidateImport, CheckBody, Number, Initialise, Takes, vars
<1>3. QED
  BY <1>1, <1>2 DEF Compiles

\* What a step of a pass leaves alone.
LEMMA Walk ==
  ASSUME NEW p, Takes(p)
  PROVE  /\ pass = p /\ pass' = p /\ unit <= Len(units) /\ item <= Len(Items)
         /\ unit' = unit /\ item' = item + 1
BY DEF Takes

LEMMA NamesTypeStep == ASSUME NamesInv, Compiles PROVE NamesTypeOK'
<1> USE DEF NamesInv, NamesTypeOK
<1>1. units' = units /\ text' = text
  BY CompilesKeeps
<1>2. CASE Loaded
  BY <1>1, <1>2 DEF Loaded, loops, tables, numbers, run, Passes
<1>3. CASE NextUnit
  BY <1>1, <1>3 DEF NextUnit, tables, numbers, run
<1>4. CASE NextPass
  <2>1. Follows \in Passes
    BY <1>4 DEF NextPass, Follows, Walks, Passes
  <2>2. QED
    BY <1>1, <1>4, <2>1 DEF NextPass, tables, numbers
<1>5. CASE Register
  <2>1. Item.name \in Names /\ Unit \in Files
    BY <1>5, HereIsPlace DEF Register, Takes, Declaration
  <2>2. symbols' \in [Names -> Files \cup {Unset}]
    BY <1>5, <2>1 DEF Register
  <2>3. QED
    BY <1>1, <1>5, <2>2 DEF Register, Takes, numbers
<1>6. CASE ValidateImport
  <2>1. Item.as \in Names /\ Unit \in Files
    <3>1. unit \in 1..Len(units) /\ Items = text[Unit].imports
      BY <1>6 DEF ValidateImport, Takes, Items
    <3>2. Unit \in Files
      BY <3>1 DEF Unit
    <3>3. Item \in Import
      BY <1>6, <3>1, <3>2, TextOf DEF ValidateImport, Takes, Item
    <3>4. QED
      BY <3>2, <3>3 DEF Import
  <2>2. visible' = visible \/ visible' = [visible EXCEPT ![Unit] = @ \cup {Item.as}]
    BY <1>6 DEF ValidateImport, Bind
  <2>3. visible' \in [Files -> SUBSET Names]
    <3>1. visible \in [Files -> SUBSET Names] /\ visible[Unit] \cup {Item.as} \in SUBSET Names
      BY <2>1
    <3>2. QED
      BY <2>2, <3>1
  <2>4. QED
    BY <1>1, <1>6, <2>3 DEF ValidateImport, Takes, numbers
<1>7. CASE CheckBody
  BY <1>1, <1>7 DEF CheckBody, Takes, numbers
<1>8. CASE Number
  <2>1. Item.name \in Names /\ Here \in (Nat \ {0}) \X (Nat \ {0})
    <3>1. Here \in Places /\ Item = DeclAt(Here)
      BY <1>8, HereIsPlace DEF Number, Takes
    <3>2. QED
      BY <3>1, PlaceParts
  <2>2. CASE Item.kind = "global"
    <3>1. /\ globalOf' = [globalOf EXCEPT ![Item.name] = nextGlobal]
          /\ nextGlobal' = nextGlobal + 1 /\ allGlobalVars' = Append(allGlobalVars, Here)
      BY <1>8, <2>2 DEF Number
    <3>2. /\ allGlobalVars' \in Seq((Nat \ {0}) \X (Nat \ {0}))
          /\ Len(allGlobalVars') = Len(allGlobalVars) + 1 /\ Len(allGlobalVars) \in Nat
      BY <2>1, <3>1
    <3>3. globalOf' \in [Names -> Int]
      BY <2>1, <3>1, <3>2
    <3>4. /\ pass' = pass /\ unit' = unit /\ item' = item + 1
          /\ symbols' = symbols /\ visible' = visible
      BY <1>8 DEF Number, Takes, tables
    <3>5. QED
      BY <1>1, <3>1, <3>2, <3>3, <3>4
  <2>3. CASE Item.kind # "global"
    BY <1>1, <1>8, <2>3 DEF Number, Takes, tables, numbers
  <2>4. QED
    BY <2>2, <2>3
<1>9. CASE Initialise
  BY <1>1, <1>9 DEF Initialise, tables, numbers
<1>10. CASE Main
  BY <1>1, <1>10 DEF Main, loops, tables, numbers, Passes
<1>11. QED
  BY <1>2, <1>3, <1>4, <1>5, <1>6, <1>7, <1>8, <1>9, <1>10 DEF Compiles

LEMMA UntouchedStep == ASSUME NamesInv, Compiles PROVE Untouched'
<1> USE DEF NamesInv, Untouched, Numbered, Running
<1>1. CASE Loaded
  BY <1>1 DEF Loaded, tables, numbers, run
<1>2. CASE NextUnit
  BY <1>2 DEF NextUnit, tables, numbers, run
<1>3. CASE NextPass
  BY <1>3 DEF NextPass, Walks, Follows, tables, numbers
<1>4. CASE Register
  BY <1>4 DEF Register, Takes, numbers, run
<1>5. CASE ValidateImport
  BY <1>5 DEF ValidateImport, Takes, numbers, run
<1>6. CASE CheckBody
  BY <1>6 DEF CheckBody, Takes, numbers, run
<1>7. CASE Number
  BY <1>7 DEF Number, Takes, tables, run
<1>8. CASE Initialise
  BY <1>8 DEF Initialise, tables, numbers
<1>9. CASE Main
  BY <1>9 DEF Main, tables, numbers, run
<1>10. QED
  BY <1>1, <1>2, <1>3, <1>4, <1>5, <1>6, <1>7, <1>8, <1>9 DEF Compiles

\* Only pass1aRegisterNames gives a name its file.
LEMMA SymbolsStep ==
  ASSUME Compiles, ~Register
  PROVE  symbols' = symbols
BY DEF Compiles, Loaded, NextUnit, NextPass, ValidateImport, CheckBody, Number, Initialise, Main, tables

LEMMA DeclaredStep == ASSUME NamesInv, Compiles PROVE Declared'
<1>1. units' = units /\ text' = text
  BY CompilesKeeps
<1>2. \A f, n : Declares(f, n)' <=> Declares(f, n)
  BY <1>1, ProgramFixed
<1>3. CASE Register
  <2>1. Declares(Unit, Item.name)
    <3>1. Unit \in Files /\ item \in DOMAIN text[Unit].decls /\ Item = text[Unit].decls[item]
      <4>1. Here \in Places /\ Here[1] = unit /\ Here[2] = item /\ units[unit] = Unit
        BY <1>3, HereIsPlace DEF Register, Takes, NamesInv
      <4>2. Item = DeclAt(Here)
        BY <1>3, HereIsPlace DEF Register, Takes, NamesInv
      <4>3. Unit \in Files /\ item \in 1..Len(text[Unit].decls)
        BY <4>1, PlaceParts DEF NamesInv
      <4>4. QED
        BY <4>1, <4>2, <4>3, TextOf DEF NamesInv, DeclAt
    <3>2. QED
      BY <3>1 DEF Declares
  <2>2. symbols' = symbols \/ symbols' = [symbols EXCEPT ![Item.name] = Unit]
    BY <1>3 DEF Register
  <2>3. ASSUME NEW n \in Names, symbols'[n] # Unset PROVE Declares(symbols'[n], n)
    <3>1. CASE symbols'[n] = symbols[n]
      BY <2>3, <3>1 DEF NamesInv, Declared
    <3>2. CASE symbols'[n] # symbols[n]
      <4>1. n = Item.name /\ symbols'[n] = Unit
        BY <2>2, <3>2 DEF NamesInv, NamesTypeOK
      <4>2. QED
        BY <2>1, <4>1
    <3>3. QED
      BY <3>1, <3>2
  <2>4. QED
    BY <1>2, <2>3 DEF Declared
<1>4. CASE ~Register
  BY <1>2, <1>4, SymbolsStep DEF NamesInv, Declared
<1>5. QED
  BY <1>3, <1>4

LEMMA BindingsStep == ASSUME NamesInv, Compiles PROVE Bindings'
<1>1. units' = units /\ text' = text
  BY CompilesKeeps
<1>2. CASE Register
  <2>1. pass' = "register"
    BY <1>2, Walk DEF Register
  <2>2. \A f \in Files : visible'[f] = {}
    BY <2>1, UntouchedStep DEF Untouched
  <2>3. QED
    BY <2>2 DEF Bindings
<1>3. CASE ~Register
  <2>1. symbols' = symbols
    BY <1>3, SymbolsStep
  <2>2. \A f, n : Granted(f, n)' <=> Granted(f, n)
    BY <1>1, <2>1, ProgramFixed DEF Granted, Grants
  <2>3. CASE visible' = visible
    BY <2>2, <2>3 DEF NamesInv, Bindings
  <2>4. CASE visible' # visible
    <3>1. ValidateImport
      BY <1>3, <2>4 DEF Compiles, Loaded, NextUnit, NextPass, CheckBody, Number, Initialise, Main, tables
    <3>2. /\ visible' = [visible EXCEPT ![Unit] = @ \cup {Item.as}]
          /\ SourceOf(Item) # Unset /\ symbols[Item.name] = SourceOf(Item)
          /\ Exported(SourceOf(Item), Item.name)
      BY <2>4, <3>1 DEF ValidateImport, Bind
    <3>3. Granted(Unit, Item.as)
      <4>1. Items = text[Unit].imports /\ unit \in 1..Len(units) /\ item <= Len(Items)
        BY <3>1 DEF ValidateImport, Takes, Items, NamesInv, NamesTypeOK
      <4>2. Unit \in Files
        BY <4>1 DEF Unit, NamesInv, NamesTypeOK
      <4>3. item \in DOMAIN text[Unit].imports
        BY <4>1, <4>2, TextOf DEF NamesInv, NamesTypeOK
      <4>4. Grants(text[Unit].imports[item], Item.as)
        BY <3>2, <4>1 DEF Grants, Item
      <4>5. QED
        BY <4>3, <4>4 DEF Granted
    <3>4. ASSUME NEW f \in Files, NEW n \in visible'[f] PROVE Granted(f, n)
      <4>1. n \in visible[f] \/ (f = Unit /\ n = Item.as)
        BY <3>2, <3>4 DEF NamesInv, NamesTypeOK
      <4>2. QED
        BY <3>3, <4>1 DEF NamesInv, Bindings
    <3>5. QED
      BY <2>2, <3>4 DEF Bindings
  <2>5. QED
    BY <2>3, <2>4
<1>4. QED
  BY <1>2, <1>3

\* The tables that the check of the bodies asks stay what they are during it.
LEMMA ReadableStays ==
  ASSUME units' = units, text' = text, symbols' = symbols, visible' = visible, NEW p
  PROVE  Readable(p)' <=> Readable(p)
BY ProgramFixed DEF Readable, MayRead

LEMMA CheckedStep == ASSUME NamesInv, Compiles PROVE Checked'
<1>1. units' = units /\ text' = text /\ Places' = Places
  BY CompilesKeeps, ProgramFixed
<1> USE DEF NamesInv
<1>2. CASE Loaded \/ Register \/ ValidateImport
  <2>1. pass' \in {"register", "imports", "rejected"}
    BY <1>2 DEF Loaded, Register, ValidateImport, Takes
  <2>2. QED
    BY <2>1 DEF Checked, Accepted
<1>3. CASE NextUnit
  <2>1. UNCHANGED <<pass, symbols, visible, errors>>
    BY <1>3 DEF NextUnit, tables
  <2>2. ASSUME NEW p \in Places, pass = "bodies" PROVE Passed(p)' <=> Passed(p)
    BY <1>3, <2>2, PassedFile DEF NextUnit
  <2>3. \A p : Readable(p)' <=> Readable(p)
    BY <1>1, <2>1, ReadableStays
  <2>4. QED
    BY <1>1, <2>1, <2>2, <2>3 DEF Checked, Accepted
<1>4. CASE NextPass
  <2>1. UNCHANGED <<symbols, visible, errors>> /\ pass \in Walks /\ pass' = Follows
        /\ unit > Len(units) /\ unit' = 1 /\ item' = 1
    BY <1>4 DEF NextPass, tables
  <2>2. \A p : Readable(p)' <=> Readable(p)
    BY <1>1, <2>1, ReadableStays
  <2>3. CASE pass = "register"
    BY <2>1, <2>3 DEF Follows, Checked, Accepted
  <2>4. CASE pass = "imports"
    <3>1. pass' = "bodies"
      BY <2>1, <2>4 DEF Follows
    <3>2. \A p \in Places : ~Passed(p)'
      <4>1. ASSUME NEW p \in Places PROVE ~Passed(p)'
        <5>1. p[1] \in Nat \ {0} /\ p[2] \in Nat \ {0}
          BY PlaceParts
        <5>2. QED
          BY <2>1, <5>1 DEF Passed
      <4>2. QED
        BY <4>1
    <3>3. QED
      BY <1>1, <3>1, <3>2 DEF Checked, Accepted
  <2>5. CASE pass = "bodies"
    <3>1. (errors # {} /\ pass' = "rejected") \/ (errors = {} /\ pass' = "number")
      BY <2>1, <2>5 DEF Follows
    <3>2. \A p \in Places : errors # {} \/ Readable(p)
      BY <2>1, <2>5, PassedAll DEF Checked
    <3>3. QED
      BY <1>1, <2>1, <2>2, <3>1, <3>2 DEF Checked, Accepted
  <2>6. CASE pass = "number"
    <3>1. pass' = "initialise"
      BY <2>1, <2>6 DEF Follows
    <3>2. QED
      BY <1>1, <2>1, <2>2, <2>6, <3>1 DEF Checked, Accepted
  <2>7. QED
    BY <2>1, <2>3, <2>4, <2>5, <2>6 DEF Walks
<1>5. CASE CheckBody
  <2>1. UNCHANGED <<symbols, visible>> /\ pass = "bodies" /\ pass' = "bodies" /\ errors \subseteq errors'
    BY <1>5, Walk DEF CheckBody
  <2>2. \A p : Readable(p)' <=> Readable(p)
    BY <1>1, <2>1, ReadableStays
  <2>3. Here \in Places /\ Item = DeclAt(Here) /\ units[Here[1]] = Unit /\ Item.reads \subseteq Names
    BY <1>5, HereIsPlace DEF CheckBody, Takes, Declaration
  <2>4. errors' # {} \/ Readable(Here)
    <3>1. SUFFICES ASSUME NEW n \in Item.reads, ~MayRead(Unit, n) PROVE errors' # {}
      BY <2>3 DEF Readable
    <3>2. CASE symbols[n] = Unset
      <4>1. [code |-> "E001", file |-> Unit, name |-> n] \in errors'
        BY <1>5, <3>1, <3>2 DEF CheckBody
      <4>2. QED
        BY <4>1
    <3>3. CASE symbols[n] # Unset
      <4>1. symbols[n] \notin {Unset, Unit} /\ n \notin visible[Unit]
        BY <3>1, <3>3 DEF MayRead
      <4>2. [code |-> "E_SYMBOL_NOT_IMPORTED", file |-> Unit, name |-> n] \in errors'
        BY <1>5, <3>1, <4>1 DEF CheckBody
      <4>3. QED
        BY <4>2
    <3>4. QED
      BY <3>2, <3>3
  <2>5. ASSUME NEW p \in Places, Passed(p)' PROVE errors' # {} \/ Readable(p)
    <3>1. Passed(p) \/ p = Here
      BY <1>5, <2>5, PassedNext DEF CheckBody, Takes
    <3>2. QED
      BY <2>1, <2>4, <3>1 DEF Checked
  <2>6. QED
    BY <1>1, <2>1, <2>2, <2>5 DEF Checked, Accepted
<1>6. CASE Number \/ Initialise \/ Main
  <2>1. UNCHANGED <<symbols, visible, errors>> /\ Accepted /\ pass' \in {"number", "initialise", "main"}
    BY <1>6 DEF Number, Initialise, Main, Takes, tables, Accepted
  <2>2. \A p : Readable(p)' <=> Readable(p)
    BY <1>1, <2>1, ReadableStays
  <2>3. QED
    BY <1>1, <2>1, <2>2 DEF Checked, Accepted
<1>7. QED
  BY <1>2, <1>3, <1>4, <1>5, <1>6 DEF Compiles

\* The list of the globals after one more.
LEMMA NumberGrows ==
  ASSUME NamesTypeOK, Number, Item.kind = "global"
  PROVE  /\ Len(allGlobalVars) \in Nat /\ DOMAIN allGlobalVars = 1..Len(allGlobalVars)
         /\ DOMAIN allGlobalVars' = 1..(Len(allGlobalVars) + 1)
         /\ \A k \in 1..Len(allGlobalVars) : allGlobalVars'[k] = allGlobalVars[k]
         /\ allGlobalVars'[Len(allGlobalVars) + 1] = Here
         /\ globalOf' = [globalOf EXCEPT ![Item.name] = Len(allGlobalVars)]
         /\ Here \in Places /\ Item = DeclAt(Here) /\ Item.name \in Names
<1>1. Here \in Places /\ Item = DeclAt(Here)
  BY HereIsPlace DEF Number, Takes
<1>2. Here \in (Nat \ {0}) \X (Nat \ {0}) /\ Item.name \in Names
  BY <1>1, PlaceParts
<1>3. allGlobalVars \in Seq((Nat \ {0}) \X (Nat \ {0})) /\ allGlobalVars' = Append(allGlobalVars, Here)
  BY DEF Number, NamesTypeOK
<1>4. globalOf' = [globalOf EXCEPT ![Item.name] = Len(allGlobalVars)]
  BY DEF Number, NamesTypeOK
<1>5. QED
  BY <1>1, <1>2, <1>3, <1>4

LEMMA ListStep == ASSUME NamesInv, Compiles PROVE ListOk'
<1>1. /\ units' = units /\ text' = text /\ Places' = Places
      /\ \A p : (GlobalPlace(p)' <=> GlobalPlace(p)) /\ DeclAt(p)' = DeclAt(p)
  BY CompilesKeeps, ProgramFixed
<1>2. \A p, q : Before(p, q)' <=> Before(p, q)
  BY DEF Before
<1> USE DEF NamesInv
<1>3. CASE pass' \notin Numbered
  <2>1. allGlobalVars' = << >> /\ pass' # "number" /\ pass' \notin Running
    BY <1>3, UntouchedStep DEF Untouched, Numbered, Running
  <2>2. DOMAIN allGlobalVars' = {}
    BY <2>1
  <2>3. QED
    BY <2>1, <2>2 DEF ListOk
<1>4. CASE NextUnit
  <2>1. UNCHANGED <<pass, allGlobalVars>>
    BY <1>4 DEF NextUnit, numbers
  <2>2. ASSUME NEW p \in Places, pass = "number" PROVE Passed(p)' <=> Passed(p)
    BY <1>4, <2>2, PassedFile DEF NextUnit
  <2>3. \A k \in DOMAIN allGlobalVars : allGlobalVars[k] \in Places
    BY DEF ListOk, GlobalPlace
  <2>4. \A p : Listed(p)' <=> Listed(p)
    BY <2>1 DEF Listed
  <2>5. QED
    BY <1>1, <1>2, <2>1, <2>2, <2>3, <2>4 DEF ListOk
<1>5. CASE NextPass
  <2>1. /\ allGlobalVars' = allGlobalVars /\ pass \in Walks /\ pass' = Follows
        /\ unit > Len(units) /\ unit' = 1 /\ item' = 1
    BY <1>5 DEF NextPass, numbers
  <2>2. \A p : Listed(p)' <=> Listed(p)
    BY <2>1 DEF Listed
  <2>3. CASE pass = "number"
    <3>1. pass' = "initialise" /\ pass' # "number"
      BY <2>1, <2>3 DEF Follows
    <3>2. \A p \in Places : GlobalPlace(p) => Listed(p)
      BY <2>1, <2>3, PassedAll DEF ListOk
    <3>3. QED
      BY <1>1, <1>2, <2>1, <2>2, <3>1, <3>2 DEF ListOk
  <2>4. CASE pass = "bodies"
    <3>1. allGlobalVars = << >>
      BY <2>4 DEF Untouched, Numbered
    <3>2. \A p \in Places : ~Passed(p)'
      <4>1. ASSUME NEW p \in Places PROVE ~Passed(p)'
        <5>1. p[1] \in Nat \ {0} /\ p[2] \in Nat \ {0}
          BY PlaceParts
        <5>2. QED
          BY <2>1, <5>1 DEF Passed
      <4>2. QED
        BY <4>1
    <3>3. DOMAIN allGlobalVars' = {} /\ pass' \notin Running
      BY <2>1, <2>4, <3>1 DEF Follows, Running
    <3>4. QED
      BY <1>1, <3>2, <3>3 DEF ListOk
  <2>5. CASE pass \in {"register", "imports"}
    <3>1. pass' \notin Numbered
      BY <2>1, <2>5 DEF Follows, Numbered
    <3>2. QED
      BY <1>3, <3>1
  <2>6. QED
    BY <2>1, <2>3, <2>4, <2>5 DEF Walks
<1>6. CASE Number
  <2>0. pass = "number" /\ pass' = "number" /\ unit' = unit /\ item' = item + 1
    BY <1>6, Walk DEF Number
  <2>1. Here \in Places /\ Item = DeclAt(Here)
    BY <1>6, HereIsPlace DEF Number, Takes
  <2>2. \A p \in Places : Passed(p)' <=> Passed(p) \/ p = Here
    BY <2>0, PassedNext
  <2>3. CASE Item.kind # "global"
    <3>1. allGlobalVars' = allGlobalVars /\ ~GlobalPlace(Here)
      BY <1>6, <2>1, <2>3 DEF Number, numbers, GlobalPlace
    <3>2. \A k \in DOMAIN allGlobalVars : allGlobalVars[k] \in Places
      BY DEF ListOk, GlobalPlace
    <3>3. \A p : Listed(p)' <=> Listed(p)
      BY <3>1 DEF Listed
    <3>4. QED
      BY <1>1, <1>2, <2>0, <2>2, <3>1, <3>2, <3>3 DEF ListOk, Running
  <2>4. CASE Item.kind = "global"
    <3> DEFINE n == Len(allGlobalVars)
    <3>1. /\ n \in Nat /\ DOMAIN allGlobalVars = 1..n /\ DOMAIN allGlobalVars' = 1..(n + 1)
          /\ \A k \in 1..n : allGlobalVars'[k] = allGlobalVars[k]
          /\ allGlobalVars'[n + 1] = Here /\ GlobalPlace(Here)
      BY <1>6, <2>1, <2>4, NumberGrows DEF GlobalPlace
    <3> HIDE DEF n
    <3>2. ASSUME NEW k \in 1..(n + 1)
          PROVE  GlobalPlace(allGlobalVars[k])' /\ Passed(allGlobalVars[k])'
      <4>1. k \in 1..n \/ k = n + 1
        BY <3>1
      <4>2. GlobalPlace(allGlobalVars'[k]) /\ (Passed(allGlobalVars'[k]) \/ allGlobalVars'[k] = Here)
        BY <2>0, <3>1, <4>1 DEF ListOk
      <4>3. allGlobalVars'[k] \in Places
        BY <4>2 DEF GlobalPlace
      <4>4. PICK p \in Places : p = allGlobalVars'[k] /\ GlobalPlace(p) /\ (Passed(p) \/ p = Here)
        BY <4>2, <4>3
      <4>5. Passed(p)' /\ GlobalPlace(p)'
        BY <1>1, <2>2, <4>4
      <4>6. (p[1] < unit' \/ (p[1] = unit' /\ p[2] < item')) /\ p \in Places' /\ DeclAt(p)'.kind = "global"
        BY <4>5 DEF Passed, GlobalPlace
      <4>7. QED
        BY <1>1, <4>4, <4>6 DEF Passed, GlobalPlace, DeclAt
    <3>3. ASSUME NEW j \in 1..(n + 1), NEW k \in 1..(n + 1), j < k
          PROVE  Before(allGlobalVars'[j], allGlobalVars'[k])
      <4>1. j \in 1..n /\ (k \in 1..n \/ k = n + 1)
        BY <3>1, <3>3
      <4>2. CASE k \in 1..n
        BY <3>1, <3>3, <4>1, <4>2 DEF ListOk
      <4>3. CASE k = n + 1
        <5>1. Passed(allGlobalVars[j])
          BY <2>0, <3>1, <4>1 DEF ListOk
        <5>2. QED
          BY <3>1, <4>1, <4>3, <5>1, PassedIsBefore
      <4>4. QED
        BY <4>1, <4>2, <4>3
    <3>4. ASSUME NEW p \in Places, GlobalPlace(p), Passed(p)' PROVE Listed(p)'
      <4>1. CASE p = Here
        <5>1. n + 1 \in DOMAIN allGlobalVars' /\ allGlobalVars'[n + 1] = p
          BY <3>1, <4>1
        <5>2. QED
          BY <5>1 DEF Listed
      <4>2. CASE p # Here
        <5>1. PICK k \in 1..n : allGlobalVars[k] = p
          BY <2>0, <2>2, <3>1, <3>4, <4>2 DEF ListOk, Listed
        <5>2. k \in DOMAIN allGlobalVars' /\ allGlobalVars'[k] = p
          BY <3>1, <5>1
        <5>3. QED
          BY <5>2 DEF Listed
      <4>3. QED
        BY <4>1, <4>2
    <3>5. QED
      BY <1>1, <1>2, <2>0, <3>1, <3>2, <3>3, <3>4 DEF ListOk, Running
  <2>5. QED
    BY <2>3, <2>4
<1>7. CASE Initialise \/ Main
  <2>1. /\ allGlobalVars' = allGlobalVars /\ pass \in Running /\ pass' \in Running
        /\ pass # "number" /\ pass' # "number"
    BY <1>7 DEF Initialise, Main, numbers, Running
  <2>2. \A p : Listed(p)' <=> Listed(p)
    BY <2>1 DEF Listed
  <2>3. QED
    BY <1>1, <1>2, <2>1, <2>2 DEF ListOk
<1>8. CASE Loaded \/ Register \/ ValidateImport \/ CheckBody
  <2>1. pass' \notin Numbered
    BY <1>8 DEF Loaded, Register, ValidateImport, CheckBody, Takes, Numbered
  <2>2. QED
    BY <1>3, <2>1
<1>9. QED
  BY <1>4, <1>5, <1>6, <1>7, <1>8 DEF Compiles

\* Only generateModuleGraph's first loop numbers names.
LEMMA NumbersStay ==
  ASSUME Compiles, ~Number
  PROVE  globalOf' = globalOf /\ allGlobalVars' = allGlobalVars
BY DEF Compiles, Loaded, NextUnit, NextPass, Register, ValidateImport, CheckBody, Initialise, Main, numbers

LEMMA NumbersStep == ASSUME NamesInv, Compiles PROVE NumbersOk'
<1>1. \A p : DeclAt(p)' = DeclAt(p)
  BY CompilesKeeps, ProgramFixed
<1> USE DEF NamesInv
<1>2. CASE globalOf' = globalOf /\ allGlobalVars' = allGlobalVars
  BY <1>1, <1>2 DEF NumbersOk, Owns
<1>3. CASE Number /\ Item.kind = "global"
  <2> DEFINE n == Len(allGlobalVars)
  <2>1. /\ n \in Nat /\ DOMAIN allGlobalVars = 1..n /\ DOMAIN allGlobalVars' = 1..(n + 1)
        /\ \A k \in 1..n : allGlobalVars'[k] = allGlobalVars[k]
        /\ allGlobalVars'[n + 1] = Here
        /\ globalOf' = [globalOf EXCEPT ![Item.name] = n]
        /\ Here \in Places /\ Item = DeclAt(Here) /\ Item.name \in Names
    BY <1>3, NumberGrows
  <2> HIDE DEF n
  <2>2. globalOf'[Item.name] = n /\ \A m \in Names : m # Item.name => globalOf'[m] = globalOf[m]
    BY <2>1 DEF NamesTypeOK
  <2>3. ASSUME NEW m \in Names, globalOf'[m] # -1
        PROVE  globalOf'[m] \in Nat /\ Owns(globalOf[m], m)'
    <3>1. CASE m = Item.name
      <4>1. globalOf'[m] + 1 \in DOMAIN allGlobalVars' /\ allGlobalVars'[globalOf'[m] + 1] = Here
        BY <2>1, <2>2, <3>1
      <4>2. QED
        BY <1>1, <2>1, <2>2, <3>1, <4>1 DEF Owns
    <3>2. CASE m # Item.name
      <4>1. globalOf'[m] = globalOf[m] /\ globalOf[m] \in Nat /\ Owns(globalOf[m], m)
        BY <2>2, <2>3, <3>2 DEF NumbersOk
      <4>2. globalOf[m] + 1 \in 1..n
        BY <2>1, <4>1 DEF Owns
      <4>3. globalOf[m] + 1 \in DOMAIN allGlobalVars'
            /\ allGlobalVars'[globalOf[m] + 1] = allGlobalVars[globalOf[m] + 1]
        BY <2>1, <4>2
      <4>4. QED
        BY <1>1, <4>1, <4>3 DEF Owns
    <3>3. QED
      BY <3>1, <3>2
  <2>4. ASSUME NEW k \in 1..(n + 1) PROVE globalOf'[DeclAt(allGlobalVars'[k]).name] # -1
    <3>1. CASE k = n + 1
      BY <2>1, <2>2, <3>1
    <3>2. CASE k # n + 1
      <4>1. k \in 1..n /\ allGlobalVars'[k] = allGlobalVars[k] /\ allGlobalVars[k] \in Places
        BY <2>1, <3>2 DEF ListOk, GlobalPlace
      <4>2. DeclAt(allGlobalVars[k]).name \in Names /\ globalOf[DeclAt(allGlobalVars[k]).name] # -1
        BY <2>1, <4>1, PlaceParts DEF NumbersOk
      <4>3. QED
        BY <2>1, <2>2, <4>1, <4>2
    <3>3. QED
      BY <3>1, <3>2
  <2>5. \A k \in DOMAIN allGlobalVars' : globalOf'[DeclAt(allGlobalVars[k])'.name] # -1
    <3>1. ASSUME NEW k \in DOMAIN allGlobalVars' PROVE globalOf'[DeclAt(allGlobalVars[k])'.name] # -1
      <4>1. text' = text /\ units' = units
        BY CompilesKeeps
      <4>2. DeclAt(allGlobalVars[k])' = DeclAt(allGlobalVars'[k])
        BY <4>1 DEF DeclAt
      <4>3. QED
        BY <2>1, <2>4, <3>1, <4>2
    <3>2. QED
      BY <3>1
  <2>6. QED
    BY <2>3, <2>5 DEF NumbersOk
<1>4. CASE Number /\ Item.kind # "global"
  BY <1>2, <1>4 DEF Number, numbers
<1>5. QED
  BY <1>2, <1>3, <1>4, NumbersStay

\* The slot of a numbered name.
LEMMA SlotOf ==
  ASSUME NamesInv, NEW n \in Names, globalOf[n] # -1
  PROVE  /\ globalOf[n] \in 0..Len(allGlobalVars) - 1 /\ globalOf[n] + 1 \in DOMAIN allGlobalVars
         /\ DeclAt(allGlobalVars[globalOf[n] + 1]).name = n
<1>1. globalOf[n] \in Nat /\ Owns(globalOf[n], n)
  BY DEF NamesInv, NumbersOk
<1>2. Len(allGlobalVars) \in Nat /\ DOMAIN allGlobalVars = 1..Len(allGlobalVars)
  BY DEF NamesInv, NamesTypeOK
<1>3. QED
  BY <1>1, <1>2 DEF Owns

\* A name declared once has a slot of its own.
LEMMA OwnSlot ==
  ASSUME NamesInv, NEW k \in DOMAIN allGlobalVars, NEW j \in DOMAIN allGlobalVars,
         DeclaredOnce(allGlobalVars[k]),
         globalOf[DeclAt(allGlobalVars[k]).name] = globalOf[DeclAt(allGlobalVars[j]).name]
  PROVE  allGlobalVars[k] = allGlobalVars[j]
<1> DEFINE p == allGlobalVars[k]
           q == allGlobalVars[j]
<1>1. p \in Places /\ q \in Places
  BY DEF NamesInv, ListOk, GlobalPlace
<1>2. DeclAt(p).name \in Names /\ DeclAt(q).name \in Names
  BY <1>1, PlaceParts DEF NamesInv
<1>3. globalOf[DeclAt(p).name] # -1 /\ globalOf[DeclAt(q).name] # -1
  BY DEF NamesInv, NumbersOk
<1>4. DeclAt(q).name = DeclAt(p).name
  BY <1>2, <1>3, SlotOf
<1>5. QED
  BY <1>1, <1>4 DEF DeclaredOnce

\* What an initialiser stores.
LEMMA Stored ==
  ASSUME NamesInv, Initialise
  PROVE  /\ item \in DOMAIN allGlobalVars /\ allGlobalVars[item] \in Places
         /\ globalOf[DeclAt(allGlobalVars[item]).name] \in 0..Len(allGlobalVars) - 1
         /\ slots \in [0..Len(allGlobalVars) - 1 -> Places \cup {Unset}]
         /\ slots' = [slots EXCEPT ![globalOf[DeclAt(allGlobalVars[item]).name]] = allGlobalVars[item]]
<1>1. pass = "initialise" /\ item \in DOMAIN allGlobalVars
  BY DEF Initialise, NamesInv, NamesTypeOK
<1>2. allGlobalVars[item] \in Places
  BY <1>1 DEF NamesInv, ListOk, GlobalPlace
<1>3. globalOf[DeclAt(allGlobalVars[item]).name] \in 0..Len(allGlobalVars) - 1
  <2>1. DeclAt(allGlobalVars[item]).name \in Names
    BY <1>2, PlaceParts DEF NamesInv
  <2>2. globalOf[DeclAt(allGlobalVars[item]).name] # -1
    BY <1>1 DEF NamesInv, NumbersOk
  <2>3. QED
    BY <2>1, <2>2, SlotOf
<1>4. slots \in [0..Len(allGlobalVars) - 1 -> Places \cup {Unset}]
  BY <1>1 DEF NamesInv, SlotsOk, Running
<1>5. slots' = [slots EXCEPT ![globalOf[DeclAt(allGlobalVars[item]).name]] = allGlobalVars[item]]
  BY DEF Initialise, Stores
<1>6. QED
  BY <1>1, <1>2, <1>3, <1>4, <1>5

LEMMA SlotsStep == ASSUME NamesInv, Compiles PROVE SlotsOk'
<1>1. /\ units' = units /\ text' = text /\ Places' = Places
      /\ \A p : DeclAt(p)' = DeclAt(p) /\ (DeclaredOnce(p)' <=> DeclaredOnce(p))
  BY CompilesKeeps, ProgramFixed
<1>2. CASE pass' \notin Running
  BY <1>2 DEF SlotsOk, Running
<1>3. CASE Initialise
  <2>1. /\ allGlobalVars' = allGlobalVars /\ globalOf' = globalOf /\ pass' = "initialise"
        /\ item' = item + 1 /\ pass = "initialise" /\ item \in Nat
    BY <1>3 DEF Initialise, numbers, NamesInv, NamesTypeOK
  <2> DEFINE p == allGlobalVars[item]
             s == globalOf[DeclAt(p).name]
  <2>2. /\ item \in DOMAIN allGlobalVars /\ p \in Places /\ s \in 0..Len(allGlobalVars) - 1
        /\ slots \in [0..Len(allGlobalVars) - 1 -> Places \cup {Unset}]
        /\ slots' = [slots EXCEPT ![s] = p]
    BY <1>3, Stored
  <2>3. slots' \in [0..Len(allGlobalVars) - 1 -> Places \cup {Unset}]
    <3> HIDE DEF p, s
    <3>1. QED
      BY <2>2
  <2>4. ASSUME NEW k \in DOMAIN allGlobalVars, k < item + 1, DeclaredOnce(allGlobalVars[k])
        PROVE  slots'[globalOf[DeclAt(allGlobalVars[k]).name]] = allGlobalVars[k]
    <3> DEFINE g == globalOf[DeclAt(allGlobalVars[k]).name]
    <3>1. CASE g = s
      <4>1. allGlobalVars[k] = p
        BY <2>2, <2>4, <3>1, OwnSlot
      <4>2. slots'[s] = p
        <5> HIDE DEF p, s
        <5>1. QED
          BY <2>2
      <4>3. QED
        BY <3>1, <4>1, <4>2
    <3>2. CASE g # s
      <4>1. k # item
        BY <3>2
      <4>2. k < item
        <5>1. k \in Nat
          BY DEF NamesInv, NamesTypeOK
        <5>2. QED
          BY <2>1, <2>4, <4>1, <5>1
      <4>3. slots[g] = allGlobalVars[k]
        BY <2>1, <2>4, <4>2 DEF NamesInv, SlotsOk, Running, Holds
      <4>4. slots'[g] = slots[g]
        <5>1. g \in 0..Len(allGlobalVars) - 1
          <6>1. allGlobalVars[k] \in Places
            BY DEF NamesInv, ListOk, GlobalPlace
          <6>2. DeclAt(allGlobalVars[k]).name \in Names
            BY <6>1, PlaceParts DEF NamesInv
          <6>3. g # -1
            BY DEF NamesInv, NumbersOk
          <6>4. QED
            BY <6>2, <6>3, SlotOf
        <5> HIDE DEF p, s, g
        <5>2. QED
          BY <2>2, <3>2, <5>1
      <4>5. QED
        BY <4>3, <4>4
    <3>3. QED
      BY <3>1, <3>2
  <2>5. QED
    BY <1>1, <2>1, <2>3, <2>4 DEF SlotsOk, Running, Holds
<1>4. CASE Main
  <2>1. /\ UNCHANGED <<allGlobalVars, globalOf, slots, item>> /\ pass = "initialise"
        /\ item > Len(allGlobalVars)
    BY <1>4 DEF Main, numbers, run, loops
  <2>2. QED
    BY <1>1, <2>1 DEF NamesInv, SlotsOk, Running, Holds
<1>5. CASE NextPass /\ pass' \in Running
  <2>1. /\ pass = "number" /\ pass' = "initialise" /\ item' = 1 /\ allGlobalVars' = allGlobalVars
        /\ slots' = [k \in 0..Len(allGlobalVars) - 1 |-> Unset]
    BY <1>5 DEF NextPass, Walks, Follows, Running, numbers
  <2>2. DOMAIN allGlobalVars \subseteq Nat \ {0}
    BY DEF NamesInv, NamesTypeOK
  <2>3. slots' \in [0..Len(allGlobalVars') - 1 -> Places' \cup {Unset}]
    BY <2>1
  <2>4. \A k \in DOMAIN allGlobalVars' : ~(k < item')
    BY <2>1, <2>2
  <2>5. QED
    BY <2>1, <2>3, <2>4 DEF SlotsOk
<1>6. CASE NextUnit
  <2>1. pass' \notin Running
    BY <1>6 DEF NextUnit, Walks, Running
  <2>2. QED
    BY <1>2, <2>1
<1>7. CASE Loaded \/ Register \/ ValidateImport \/ CheckBody \/ Number
  <2>1. pass' \notin Running
    BY <1>7 DEF Loaded, Register, ValidateImport, CheckBody, Number, Takes, Running
  <2>2. QED
    BY <1>2, <2>1
<1>8. QED
  BY <1>2, <1>3, <1>4, <1>5, <1>6, <1>7 DEF Compiles

\* A global before the one at item in the text is before it in the list.
LEMMA EarlierIsListed ==
  ASSUME NamesInv, pass = "initialise", item \in DOMAIN allGlobalVars,
         NEW p \in Places, GlobalPlace(p), Before(p, allGlobalVars[item])
  PROVE  \E k \in DOMAIN allGlobalVars : allGlobalVars[k] = p /\ k < item
<1>1. PICK k \in DOMAIN allGlobalVars : allGlobalVars[k] = p
  BY DEF NamesInv, ListOk, Running, Listed
<1>2. allGlobalVars[item] \in Places
  BY DEF NamesInv, ListOk, GlobalPlace
<1>3. p # allGlobalVars[item] /\ ~Before(allGlobalVars[item], p)
  BY <1>2, BeforeOrder DEF NamesInv
<1>4. k # item /\ ~(item < k)
  BY <1>1, <1>3 DEF NamesInv, ListOk
<1>5. k \in Nat /\ item \in Nat
  BY DEF NamesInv, NamesTypeOK
<1>6. QED
  BY <1>1, <1>4, <1>5

LEMMA EarlierStep == ASSUME NamesInv, Compiles PROVE EarlierAreInitialised'
<1>1. /\ Places' = Places
      /\ \A p : DeclAt(p)' = DeclAt(p) /\ (DeclaredOnce(p)' <=> DeclaredOnce(p))
  BY CompilesKeeps, ProgramFixed
<1>2. CASE reads' = reads
  BY <1>1, <1>2 DEF NamesInv, EarlierAreInitialised, GlobalAt, Before
<1>3. CASE Initialise
  <2>1. item \in DOMAIN allGlobalVars /\ pass = "initialise"
    BY <1>3, Stored DEF Initialise
  <2>2. ASSUME NEW r \in reads', NEW p \in Places, GlobalAt(p, r.name), DeclaredOnce(p), Before(p, r.by)
        PROVE  r.got = p
    <3>1. CASE r \in reads
      BY <2>2, <3>1 DEF NamesInv, EarlierAreInitialised
    <3>2. CASE r \notin reads
      <4>1. PICK n \in DeclAt(allGlobalVars[item]).reads :
              r = [by |-> allGlobalVars[item], name |-> n, got |-> slots[globalOf[n]]]
        BY <1>3, <2>2, <3>2 DEF Initialise, Stores
      <4>2. r.by = allGlobalVars[item] /\ r.name = n /\ r.got = slots[globalOf[n]]
        BY <4>1
      <4>3. GlobalPlace(p) /\ DeclAt(p).name = n
        BY <2>2, <4>2 DEF GlobalAt, GlobalPlace
      <4>4. PICK k \in DOMAIN allGlobalVars : allGlobalVars[k] = p /\ k < item
        BY <2>1, <2>2, <4>2, <4>3, EarlierIsListed
      <4>5. Holds(allGlobalVars[k])
        BY <2>1, <2>2, <4>4 DEF NamesInv, SlotsOk, Running
      <4>6. QED
        BY <4>2, <4>3, <4>4, <4>5 DEF Holds
    <3>3. QED
      BY <3>1, <3>2
  <2>3. QED
    BY <1>1, <2>2 DEF EarlierAreInitialised, GlobalAt, Before
<1>4. CASE ~Initialise
  <2>1. reads' = reads
    BY <1>4 DEF Compiles, Loaded, NextUnit, NextPass, Register, ValidateImport, CheckBody, Number, Main, run
  <2>2. QED
    BY <1>2, <2>1
<1>5. QED
  BY <1>3, <1>4

\* While files are loaded no pass has begun.
LEMMA LoadStep == ASSUME NamesInv, IInv', Load PROVE NamesInv'
<1>1. /\ UNCHANGED <<text, pass, unit, item, symbols, visible, errors, globalOf, nextGlobal,
                     allGlobalVars, slots, reads>>
      /\ pass = "load" /\ units' \in Seq(Files)
  BY DEF Load, names, loops, tables, numbers, run, IInv, TypeOK
<1>2. allGlobalVars = << >> /\ reads = {} /\ \A f \in Files : visible[f] = {}
  BY <1>1 DEF NamesInv, Untouched, Numbered, Running
<1>3. NamesTypeOK' /\ Untouched'
  BY <1>1 DEF NamesInv, NamesTypeOK, Untouched
<1>4. Declared' /\ Bindings'
  BY <1>1, <1>2 DEF NamesInv, Declared, Declares, Bindings
<1>5. Checked' /\ ListOk' /\ SlotsOk'
  BY <1>1, <1>2 DEF Checked, Accepted, ListOk, SlotsOk, Running
<1>6. NumbersOk' /\ EarlierAreInitialised'
  <2>1. \A n \in Names : globalOf'[n] = -1
    BY <1>1 DEF NamesInv, Untouched, Numbered
  <2>2. QED
    BY <1>1, <1>2, <2>1 DEF NumbersOk, EarlierAreInitialised
<1>7. QED
  BY <1>3, <1>4, <1>5, <1>6 DEF NamesInv

LEMMA NamesStay == ASSUME NamesInv, UNCHANGED <<vars, names>> PROVE NamesInv'
<1>1. UNCHANGED <<units, text, pass, unit, item, symbols, visible, errors, globalOf, nextGlobal,
                  allGlobalVars, slots, reads>>
  BY DEF vars, names, loops, tables, numbers, run
<1>2. /\ Places' = Places
      /\ \A p : DeclAt(p)' = DeclAt(p) /\ (DeclaredOnce(p)' <=> DeclaredOnce(p))
                /\ (GlobalPlace(p)' <=> GlobalPlace(p)) /\ (Readable(p)' <=> Readable(p))
      /\ \A f, n : (Declares(f, n)' <=> Declares(f, n)) /\ (Granted(f, n)' <=> Granted(f, n))
  BY <1>1, ProgramFixed, ReadableStays DEF Granted, Grants
<1>3. NamesTypeOK' /\ Untouched' /\ Declared' /\ Bindings'
  BY <1>1, <1>2 DEF NamesInv, NamesTypeOK, Untouched, Declared, Bindings
<1>4. Checked' /\ ListOk'
  BY <1>1, <1>2 DEF NamesInv, Checked, Accepted, Passed, ListOk, Listed, Before
<1>5. NumbersOk' /\ SlotsOk' /\ EarlierAreInitialised'
  BY <1>1, <1>2 DEF NamesInv, NumbersOk, Owns, SlotsOk, Holds, EarlierAreInitialised, GlobalAt, Before
<1>6. QED
  BY <1>3, <1>4, <1>5 DEF NamesInv

LEMMA NamesStep == NamesInv /\ IInv' /\ [NamesNext]_<<vars, names>> => NamesInv'
<1> SUFFICES ASSUME NamesInv, IInv', [NamesNext]_<<vars, names>> PROVE NamesInv'
  OBVIOUS
<1>1. CASE Load
  BY <1>1, LoadStep
<1>2. CASE Compiles
  BY <1>2, NamesTypeStep, UntouchedStep, DeclaredStep, BindingsStep, CheckedStep, ListStep,
     NumbersStep, SlotsStep, EarlierStep DEF NamesInv
<1>3. CASE UNCHANGED <<vars, names>>
  BY <1>3, NamesStay
<1>4. QED
  BY <1>1, <1>2, <1>3 DEF NamesNext, Compiles

\* The invariant of the passes holds in every state of a compilation
\* (collectModuleGraph, generateModuleGraph and the initialisers in main).
THEOREM NamesInvariant == NamesSpec => []NamesInv
<1>1. QED
  BY NamesInitInv, NamesStep, LoaderInvariant, PTL DEF NamesSpec

-----------------------------------------------------------------------------
(* What the passes promise.                                                *)

LEMMA ReadsAreGranted == NamesInv => ReadsAreImported
<1> SUFFICES ASSUME NamesInv, Accepted, NEW f \in ToSet(units), NEW i \in DOMAIN text[f].decls,
                    NEW n \in text[f].decls[i].reads
             PROVE  \/ Declares(f, n)
                    \/ \E k \in DOMAIN text[f].imports : LET m == text[f].imports[k] IN
                         /\ m.as = n /\ SourceOf(m) # Unset /\ Exported(SourceOf(m), m.name)
                         /\ m.name = n => symbols[n] = SourceOf(m)
  BY DEF ReadsAreImported, Declares
<1>1. PICK u \in DOMAIN units : units[u] = f
  BY DEF ToSet
<1>2. u \in 1..Len(units) /\ f \in Files
  BY <1>1 DEF NamesInv, NamesTypeOK
<1>3. <<u, i>> \in Places
  BY <1>1, <1>2, PlaceIs, TextOf DEF NamesInv
<1>4. Readable(<<u, i>>)
  BY <1>3 DEF NamesInv, Checked
<1>5. n \in DeclAt(<<u, i>>).reads /\ n \in Names /\ MayRead(f, n)
  <2>1. DeclAt(<<u, i>>) = text[f].decls[i]
    BY <1>1 DEF DeclAt
  <2>2. QED
    BY <1>1, <1>3, <1>4, <2>1, PlaceParts DEF NamesInv, Readable
<1>6. CASE symbols[n] = f
  BY <1>5, <1>6 DEF NamesInv, Declared, MayRead
<1>7. CASE n \in visible[f]
  <2>1. PICK k \in DOMAIN text[f].imports : Grants(text[f].imports[k], n)
    BY <1>2, <1>7 DEF NamesInv, Bindings, Granted
  <2>2. QED
    BY <2>1 DEF Grants
<1>8. QED
  BY <1>5, <1>6, <1>7 DEF MayRead

\* A program that is accepted reads only what its files declare, or import from
\* files that export it (E_SYMBOL_NOT_IMPORTED, E_IMPORT_NOT_EXPORTED).
THEOREM OnlyImportsAreRead == NamesSpec => []ReadsAreImported
<1>1. QED
  BY ReadsAreGranted, NamesInvariant, PTL

LEMMA AllHold == NamesInv => GlobalsInitialised
<1> SUFFICES ASSUME NamesInv, pass = "main", NEW p \in Places, GlobalAt(p, DeclAt(p).name), DeclaredOnce(p)
             PROVE  slots[globalOf[DeclAt(p).name]] = p
  BY DEF GlobalsInitialised
<1>1. PICK k \in DOMAIN allGlobalVars : allGlobalVars[k] = p
  BY DEF NamesInv, ListOk, Running, Listed, GlobalPlace, GlobalAt
<1>2. k < item
  <2>1. k \in 1..Len(allGlobalVars) /\ Len(allGlobalVars) \in Nat /\ item \in Nat
    BY DEF NamesInv, NamesTypeOK
  <2>2. item > Len(allGlobalVars)
    BY DEF NamesInv, SlotsOk
  <2>3. QED
    BY <2>1, <2>2
<1>3. QED
  BY <1>1, <1>2 DEF NamesInv, SlotsOk, Running, Holds

\* When the body of main begins, the globals of all files have their values.
THEOREM MainFindsGlobals == NamesSpec => []GlobalsInitialised
<1>1. QED
  BY AllHold, NamesInvariant, PTL

\* An initialiser reads the values of the globals before it.
THEOREM InOrder == NamesSpec => []EarlierAreInitialised
<1>1. NamesInv => EarlierAreInitialised
  BY DEF NamesInv
<1>2. QED
  BY <1>1, NamesInvariant, PTL
=============================================================================
