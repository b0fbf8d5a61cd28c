---------------------------- MODULE ScopesProofs ----------------------------
(***************************************************************************)
(* Proofs about Scopes, for every set of names and any nesting: leaving a  *)
(* block restores nameToSlot_, and a name is compiled to the place of the  *)
(* declaration the collector resolved it to.                               *)
(***************************************************************************)
EXTENDS Scopes, TLAPS, SequenceTheorems

Slot    == Nat \cup {None}
NameMap == [Name -> Slot]
Scope   == [Name -> Slot \cup Name]
Record  == [name : Name, old : Slot]
Block   == [kind : {"block", "for", "try", "handler"}, name : Name \cup {None}, slot : Slot]

-----------------------------------------------------------------------------
(* The invariant.                                                           *)

GlobalScope(gs) == [n \in Name |-> IF n \in gs THEN n ELSE None]

Typed ==
  /\ globals \in SUBSET GlobalName
  /\ scopes \in Seq(Scope) /\ scopes # << >> /\ scopes[1] = GlobalScope(globals)
  /\ open \in Seq(Block) /\ (open # << >> => open[1].kind = "block")
  /\ nameToSlot \in NameMap /\ nextSlot \in Nat
  /\ shadowStack \in Seq(Seq(Record)) /\ Len(shadowStack) = Len(open)
  /\ entry \in Seq(NameMap) /\ Len(entry) = Len(open)
  /\ reused \in SUBSET Name

\* The entries of a name in a record have a first one.
Entries(record, n) == {i \in 1..Len(record) : record[i].name = n}
HasFirst(record) ==
  \A n \in Name : \/ Entries(record, n) = {}
                  \/ \E i \in Entries(record, n) : \A j \in Entries(record, n) : i <= j

\* Undoing the record of an open block gives the map it was entered with; the
\* map of an outer block is the one its inner block was entered with.
MapOf(k) == IF k = Len(open) THEN nameToSlot ELSE entry[k + 1]
Traces ==
  \A k \in 1..Len(open) : /\ HasFirst(shadowStack[k])
                          /\ entry[k] = Undo(MapOf(k), shadowStack[k])

\* i is the innermost of the first L scopes that has n.
Innermost(ss, L, n, i) ==
  /\ i \in 1..L /\ ss[i][n] # None
  /\ \A j \in (i + 1)..L : ss[j][n] = None

Searchable(ss) ==
  \A L \in 1..Len(ss) : \A n \in Name :
    (\A i \in 1..L : ss[i][n] = None) \/ (\E i \in 1..L : Innermost(ss, L, n, i))

\* With this map, and but for the names in rs, a name has the place of its
\* declaration in the first L scopes.
Agree(ss, gs, rs, map, L) ==
  \A n \in Name \ rs : \A i \in 1..L :
    Innermost(ss, L, n, i) => (IF n \in gs THEN n ELSE map[n]) = ss[i][n]

\* With the blocks os open and len scopes, b[k] scopes are outside block k.
Size(kind) == IF kind \in {"for", "handler"} THEN 2 ELSE 1
Own(os, k) == IF k = 1 THEN 2 ELSE Size(os[k].kind)
Bases(b, os, len) ==
  /\ b \in Seq(Nat) /\ Len(b) = Len(os) + 1
  /\ b[1] = 1 /\ b[Len(b)] = len
  /\ \A k \in 1..Len(os) : b[k + 1] = b[k] + Own(os, k)
  /\ \A k, l \in 1..Len(b) : k < l => b[k] < b[l]

\* b goes on with a block around the len scopes.
Grows(b, os, len, longer, total) ==
  \E c : /\ Bases(c, longer, total)
         /\ \A k \in 1..Len(os) : c[k] = b[k]
         /\ c[Len(os) + 1] = len

Agreement ==
  /\ Agree(scopes, globals, reused, nameToSlot, Len(scopes))
  /\ \E b : /\ Bases(b, open, Len(scopes))
            /\ \A k \in 1..Len(open) : Agree(scopes, globals, reused, entry[k], b[k])

\* The catch variable is in the map its try block was entered with.
CatchKnown ==
  \A k \in 1..Len(open) : open[k].kind = "try" =>
    /\ open[k].name \in Name /\ open[k].slot \in Nat
    /\ entry[k][open[k].name] = open[k].slot
    /\ open[k].name \in globals => open[k].name \in reused

IInv == Typed /\ Traces /\ Searchable(scopes) /\ Agreement /\ CatchKnown

-----------------------------------------------------------------------------
(* Sequences and maps.                                                      *)

LEMMA FrontIs ==
  ASSUME NEW S, NEW s \in Seq(S), s # << >>
  PROVE  /\ Front(s) \in Seq(S) /\ Len(Front(s)) = Len(s) - 1
         /\ \A i \in 1..(Len(s) - 1) : Front(s)[i] = s[i]
         /\ Last(s) = s[Len(s)] /\ Last(s) \in S
<1> DEFINE f == SubSeq(s, 1, Len(s) - 1)
<1>1. Len(s) \in Nat \ {0} /\ DOMAIN s = 1..Len(s)
  OBVIOUS
<1>2. f \in Seq(S) /\ Len(f) = Len(s) - 1 /\ \A i \in 1..(Len(s) - 1) : f[i] = s[i]
  BY <1>1
<1>3. Last(s) = s[Len(s)] /\ s[Len(s)] \in S
  BY <1>1 DEF Last
<1>4. Front(s) = f
  BY DEF Front
<1> HIDE DEF f
<1> QED BY <1>2, <1>3, <1>4

LEMMA AppendIs ==
  ASSUME NEW S, NEW s \in Seq(S), NEW e \in S
  PROVE  /\ Append(s, e) \in Seq(S) /\ Append(s, e) # << >>
         /\ Len(Append(s, e)) = Len(s) + 1
         /\ \A i \in 1..Len(s) : Append(s, e)[i] = s[i]
         /\ Append(s, e)[Len(s) + 1] = e
  BY AppendProperties

LEMMA EmptyScopeType == EmptyScope \in Scope /\ EmptyScope \in NameMap /\ \A n \in Name : EmptyScope[n] = None
  BY DEF EmptyScope, Scope, NameMap, Slot

-----------------------------------------------------------------------------
(* Records of blocks.                                                       *)

LEMMA UndoEmpty ==
  ASSUME NEW map \in NameMap
  PROVE  Undo(map, << >>) = map /\ HasFirst(<< >>)
  BY DEF Undo, HasFirst, Entries, NameMap

LEMMA UndoType ==
  ASSUME NEW map \in NameMap, NEW record \in Seq(Record), HasFirst(record)
  PROVE  Undo(map, record) \in NameMap
<1> SUFFICES ASSUME NEW n \in Name, Entries(record, n) # {}
             PROVE  record[CHOOSE i \in Entries(record, n) :
                             \A j \in Entries(record, n) : i <= j].old \in Slot
  BY DEF Undo, Entries, NameMap
<1>1. (CHOOSE i \in Entries(record, n) : \A j \in Entries(record, n) : i <= j) \in 1..Len(record)
  BY DEF HasFirst, Entries
<1>2. PICK i \in 1..Len(record) :
        i = CHOOSE k \in Entries(record, n) : \A j \in Entries(record, n) : k <= j
  BY <1>1
<1>3. record[i] \in Record
  BY ElementOfSeq
<1>4. record[i].old \in Slot
  BY <1>3 DEF Record
<1> QED BY <1>2, <1>4

\* Writing a slot of a name and recording the former one is undone with the rest.
LEMMA UndoAppend ==
  ASSUME NEW map \in NameMap, NEW record \in Seq(Record), HasFirst(record),
         NEW n \in Name, NEW v \in Slot
  PROVE  LET longer == Append(record, [name |-> n, old |-> map[n]])
         IN  /\ longer \in Seq(Record) /\ HasFirst(longer)
             /\ Undo([map EXCEPT ![n] = v], longer) = Undo(map, record)
<1> DEFINE e == [name |-> n, old |-> map[n]]
           longer == Append(record, e)
           First(r, m) == CHOOSE i \in Entries(r, m) : \A j \in Entries(r, m) : i <= j
<1>1. e \in Record
  BY DEF Record, NameMap
<1>2. /\ longer \in Seq(Record) /\ Len(longer) = Len(record) + 1 /\ Len(record) \in Nat
      /\ \A i \in 1..Len(record) : longer[i] = record[i]
      /\ longer[Len(record) + 1] = e
  BY <1>1, AppendIs, LenProperties
<1> HIDE DEF longer
<1>3. ASSUME NEW m \in Name, m # n
      PROVE  Entries(longer, m) = Entries(record, m)
  BY <1>2, <1>3 DEF Entries
<1>4. Entries(longer, n) = Entries(record, n) \cup {Len(record) + 1}
  BY <1>2 DEF Entries
<1>5. \A m \in Name : Entries(record, m) \subseteq 1..Len(record)
  BY DEF Entries
<1>6. HasFirst(longer)
  <2> SUFFICES ASSUME NEW m \in Name
               PROVE  \/ Entries(longer, m) = {}
                      \/ \E i \in Entries(longer, m) : \A j \in Entries(longer, m) : i <= j
    BY DEF HasFirst
  <2>1. CASE m # n
    BY <2>1, <1>3 DEF HasFirst
  <2>2. CASE m = n /\ Entries(record, n) = {}
    BY <2>2, <1>4, <1>2
  <2>3. CASE m = n /\ Entries(record, n) # {}
    <3>1. PICK i \in Entries(record, n) : \A j \in Entries(record, n) : i <= j
      BY <2>3 DEF HasFirst
    <3> QED BY <2>3, <3>1, <1>4, <1>5, <1>2
  <2> QED BY <2>1, <2>2, <2>3
<1>7. ASSUME NEW m \in Name
      PROVE  Undo([map EXCEPT ![n] = v], longer)[m] = Undo(map, record)[m]
  <2>0. /\ Undo([map EXCEPT ![n] = v], longer)[m] =
             IF Entries(longer, m) = {} THEN [map EXCEPT ![n] = v][m] ELSE longer[First(longer, m)].old
        /\ Undo(map, record)[m] =
             IF Entries(record, m) = {} THEN map[m] ELSE record[First(record, m)].old
    BY DEF Undo, Entries
  <2>1. Entries(record, m) # {} => First(record, m) \in Entries(record, m)
    BY DEF HasFirst
  <2>2. CASE m # n
    <3>1. First(longer, m) = First(record, m)
      BY <2>2, <1>3
    <3>2. Entries(record, m) # {} => longer[First(longer, m)] = record[First(record, m)]
      BY <3>1, <2>1, <1>2, <1>5
    <3> QED BY <2>0, <2>2, <3>2, <1>3 DEF NameMap
  <2>3. CASE m = n /\ Entries(record, n) = {}
    <3>1. First(longer, n) \in Entries(longer, n)
      BY <2>3, <1>4, <1>2
    <3>2. First(longer, n) = Len(record) + 1
      BY <3>1, <2>3, <1>4
    <3>3. longer[First(longer, n)] = e
      BY <3>2, <1>2
    <3>4. longer[First(longer, n)].old = map[n]
      BY <3>3
    <3> QED BY <2>0, <2>3, <3>4, <1>4
  <2>4. CASE m = n /\ Entries(record, n) # {}
    <3>1. ASSUME NEW i
          PROVE  (i \in Entries(longer, n) /\ \A j \in Entries(longer, n) : i <= j)
                   <=> (i \in Entries(record, n) /\ \A j \in Entries(record, n) : i <= j)
      BY <2>4, <1>4, <1>5, <1>2
    <3>2. First(longer, n) = First(record, n)
      BY <3>1
    <3>3. longer[First(longer, n)] = record[First(record, n)]
      BY <3>2, <2>1, <2>4, <1>2, <1>5
    <3> QED BY <2>0, <2>4, <3>3, <1>4
  <2> QED BY <2>2, <2>3, <2>4
<1>8. Undo([map EXCEPT ![n] = v], longer) = Undo(map, record)
  BY <1>7 DEF Undo
<1> QED BY <1>2, <1>6, <1>8 DEF longer

-----------------------------------------------------------------------------
(* Chains of scopes.                                                        *)

\* What is searched only grows at its end, and names are only left out.
LEMMA AgreePrefix ==
  ASSUME NEW ss, NEW tt, NEW gs, NEW rs, NEW rt, NEW map, NEW L \in Nat,
         Agree(ss, gs, rs, map, L), rs \subseteq rt,
         \A i \in 1..L : tt[i] = ss[i]
  PROVE  Agree(tt, gs, rt, map, L)
<1> SUFFICES ASSUME NEW n \in Name \ rt, NEW i \in 1..L, Innermost(tt, L, n, i)
             PROVE  (IF n \in gs THEN n ELSE map[n]) = tt[i][n]
  BY DEF Agree
<1>1. Innermost(ss, L, n, i)
  BY DEF Innermost
<1> QED BY <1>1 DEF Agree

LEMMA AgreePush ==
  ASSUME NEW ss, NEW tt, NEW gs, NEW rs, NEW rt, NEW map, NEW L \in Nat,
         Agree(ss, gs, rs, map, L), rs \subseteq rt,
         \A i \in 1..L : tt[i] = ss[i],
         tt[L + 1] = EmptyScope
  PROVE  Agree(tt, gs, rt, map, L + 1)
<1> SUFFICES ASSUME NEW n \in Name \ rt, NEW i \in 1..(L + 1), Innermost(tt, L + 1, n, i)
             PROVE  (IF n \in gs THEN n ELSE map[n]) = tt[i][n]
  BY DEF Agree
<1>1. i \in 1..L
  BY EmptyScopeType DEF Innermost
<1>2. Innermost(ss, L, n, i)
  BY <1>1 DEF Innermost
<1> QED BY <1>1, <1>2 DEF Agree

\* A new innermost scope with n alone, or n defined in the innermost scope.
LEMMA AgreeShadow ==
  ASSUME NEW ss, NEW tt, NEW gs, NEW rs, NEW rt, NEW map \in NameMap, NEW L \in Nat,
         Agree(ss, gs, rs, map, L), rs \subseteq rt,
         \A i \in 1..L : tt[i] = ss[i],
         NEW n \in Name, NEW v \in Nat, n \in gs => n \in rt,
         tt[L + 1] = [EmptyScope EXCEPT ![n] = v]
  PROVE  Agree(tt, gs, rt, [map EXCEPT ![n] = v], L + 1)
<1> SUFFICES ASSUME NEW m \in Name \ rt, NEW i \in 1..(L + 1), Innermost(tt, L + 1, m, i)
             PROVE  (IF m \in gs THEN m ELSE [map EXCEPT ![n] = v][m]) = tt[i][m]
  BY DEF Agree
<1>0. \A m_1 \in Name : tt[L + 1][m_1] = IF m_1 = n THEN v ELSE None
  BY DEF EmptyScope
<1>1. CASE m = n
  <2>1. tt[L + 1][n] # None
    BY <1>0, ScopesAssumption
  <2>2. i # L + 1 => L + 1 \in (i + 1)..(L + 1)
    OBVIOUS
  <2>3. i = L + 1
    BY <1>1, <2>1, <2>2 DEF Innermost
  <2> QED BY <1>0, <1>1, <2>3 DEF NameMap
<1>2. CASE m # n
  <2>0. tt[L + 1][m] = None /\ tt[i][m] # None
    BY ONLY m \in Name, <1>0, <1>2, Innermost(tt, L + 1, m, i) DEF Innermost
  <2>1. i # L + 1
    BY <2>0
  <2>3. i \in 1..L
    BY <2>1
  <2>2. Innermost(ss, L, m, i)
    BY <2>3 DEF Innermost
  <2> QED BY <1>2, <2>3, <2>2 DEF Agree, NameMap
<1> QED BY <1>1, <1>2

LEMMA AgreeDefine ==
  ASSUME NEW ss, NEW tt, NEW gs, NEW rs, NEW rt, NEW map \in NameMap, NEW L \in Nat \ {0},
         Agree(ss, gs, rs, map, L), rs \subseteq rt,
         \A i \in 1..(L - 1) : tt[i] = ss[i],
         NEW n \in Name, NEW v \in Nat, n \in gs => n \in rt,
         \A m \in Name : tt[L][m] = IF m = n THEN v ELSE ss[L][m]
  PROVE  Agree(tt, gs, rt, [map EXCEPT ![n] = v], L)
<1> SUFFICES ASSUME NEW m \in Name \ rt, NEW i \in 1..L, Innermost(tt, L, m, i)
             PROVE  (IF m \in gs THEN m ELSE [map EXCEPT ![n] = v][m]) = tt[i][m]
  BY DEF Agree
<1>1. CASE m = n
  <2>1. tt[L][n] # None
    BY ScopesAssumption
  <2>2. i = L
    BY <1>1, <2>1 DEF Innermost
  <2> QED BY <1>1, <2>2 DEF NameMap
<1>2. CASE m # n
  <2>1. \A j \in 1..L : tt[j][m] = ss[j][m]
    BY <1>2
  <2>2. Innermost(ss, L, m, i)
    BY <2>1 DEF Innermost
  <2> QED BY <1>2, <2>1, <2>2 DEF Agree, NameMap
<1> QED BY <1>1, <1>2

\* A slot for a name no scope has yet, or that is left out.
LEMMA AgreeRegister ==
  ASSUME NEW ss, NEW gs, NEW rs, NEW rt, NEW map \in NameMap, NEW L \in Nat,
         Agree(ss, gs, rs, map, L), rs \subseteq rt,
         NEW n \in Name, NEW v, n \in rt \/ \A i \in 1..L : ss[i][n] = None
  PROVE  Agree(ss, gs, rt, [map EXCEPT ![n] = v], L)
  BY DEF Agree, Innermost, NameMap

LEMMA SearchPush ==
  ASSUME NEW ss \in Seq(Scope), NEW s \in Scope, Searchable(ss)
  PROVE  Searchable(Append(ss, s))
<1> DEFINE tt == Append(ss, s)
<1>1. /\ Len(ss) \in Nat /\ Len(tt) = Len(ss) + 1
      /\ \A i \in 1..Len(ss) : tt[i] = ss[i]
  BY AppendIs, LenProperties
<1> HIDE DEF tt
<1> SUFFICES ASSUME NEW L \in 1..Len(tt), NEW n \in Name
             PROVE  (\A i \in 1..L : tt[i][n] = None) \/ (\E i \in 1..L : Innermost(tt, L, n, i))
  BY DEF Searchable, tt
<1>2. CASE L <= Len(ss)
  <2>1. CASE \A i \in 1..L : ss[i][n] = None
    BY <1>1, <1>2, <2>1
  <2>2. CASE \E i \in 1..L : Innermost(ss, L, n, i)
    <3>1. PICK i \in 1..L : Innermost(ss, L, n, i)
      BY <2>2
    <3>2. Innermost(tt, L, n, i)
      BY <1>1, <1>2, <3>1 DEF Innermost
    <3> QED BY <3>2
  <2> QED BY <1>1, <1>2, <2>1, <2>2 DEF Searchable
<1>3. CASE L = Len(ss) + 1 /\ tt[L][n] # None
  <2>1. Innermost(tt, L, n, L)
    BY <1>1, <1>3 DEF Innermost
  <2> QED BY <2>1
<1>4. CASE L = Len(ss) + 1 /\ tt[L][n] = None
  <2>1. CASE \A i \in 1..Len(ss) : ss[i][n] = None
    BY <1>1, <1>4, <2>1
  <2>2. CASE \E i \in 1..Len(ss) : Innermost(ss, Len(ss), n, i)
    <3>1. PICK i \in 1..Len(ss) : Innermost(ss, Len(ss), n, i)
      BY <2>2
    <3>2. Innermost(tt, L, n, i)
      BY <1>1, <1>4, <3>1 DEF Innermost
    <3> QED BY <3>1, <3>2, <1>4, <1>1
  <2>3. Len(ss) = 0 => (\A i \in 1..Len(ss) : ss[i][n] = None)
    OBVIOUS
  <2> QED BY <1>1, <2>1, <2>2, <2>3 DEF Searchable
<1> QED BY <1>1, <1>2, <1>3, <1>4

LEMMA SearchPrefix ==
  ASSUME NEW ss \in Seq(Scope), NEW tt \in Seq(Scope), Searchable(ss), Len(tt) <= Len(ss),
         \A i \in 1..Len(tt) : tt[i] = ss[i]
  PROVE  Searchable(tt)
<1>1. Len(ss) \in Nat /\ Len(tt) \in Nat
  BY LenProperties
<1> SUFFICES ASSUME NEW L \in 1..Len(tt), NEW n \in Name
             PROVE  (\A i \in 1..L : tt[i][n] = None) \/ (\E i \in 1..L : Innermost(tt, L, n, i))
  BY DEF Searchable
<1>2. L \in 1..Len(ss) /\ \A i \in 1..L : tt[i] = ss[i]
  BY <1>1
<1>3. CASE \A i \in 1..L : ss[i][n] = None
  BY <1>2, <1>3
<1>4. CASE \E i \in 1..L : Innermost(ss, L, n, i)
  <2>1. PICK i \in 1..L : Innermost(ss, L, n, i)
    BY <1>4
  <2>2. Innermost(tt, L, n, i)
    BY <1>2, <2>1 DEF Innermost
  <2> QED BY <2>2
<1> QED BY <1>2, <1>3, <1>4 DEF Searchable

LEMMA SearchDefine ==
  ASSUME NEW ss \in Seq(Scope), NEW tt \in Seq(Scope), Searchable(ss),
         Len(ss) \in Nat \ {0}, Len(tt) = Len(ss), NEW n \in Name,
         \A i \in 1..(Len(ss) - 1) : tt[i] = ss[i],
         tt[Len(ss)][n] # None,
         \A m \in Name : m # n => tt[Len(ss)][m] = ss[Len(ss)][m]
  PROVE  Searchable(tt)
<1> SUFFICES ASSUME NEW L \in 1..Len(ss), NEW m \in Name
             PROVE  (\A i \in 1..L : tt[i][m] = None) \/ (\E i \in 1..L : Innermost(tt, L, m, i))
  BY DEF Searchable
<1>1. CASE L = Len(ss) /\ m = n
  <2>1. Innermost(tt, L, m, L)
    BY <1>1 DEF Innermost
  <2> QED BY <2>1
<1>2. CASE L < Len(ss) \/ m # n
  <2>1. \A i \in 1..L : tt[i][m] = ss[i][m]
    <3>1. ASSUME NEW i \in 1..L  PROVE tt[i][m] = ss[i][m]
      <4>1. CASE i \in 1..(Len(ss) - 1)
        BY <4>1
      <4>2. CASE i = Len(ss)
        BY <4>2, <1>2
      <4> QED BY <4>1, <4>2
    <3> QED BY <3>1
  <2>2. CASE \A i \in 1..L : ss[i][m] = None
    BY <2>1, <2>2
  <2>3. CASE \E i \in 1..L : Innermost(ss, L, m, i)
    <3>1. PICK i \in 1..L : Innermost(ss, L, m, i)
      BY <2>3
    <3>2. Innermost(tt, L, m, i)
      BY <2>1, <3>1 DEF Innermost
    <3> QED BY <3>2
  <2> QED BY <2>2, <2>3 DEF Searchable
<1> QED BY <1>1, <1>2

\* What resolve finds: the innermost scope's symbol.
LEMMA ResolveIs ==
  ASSUME Typed, Searchable(scopes), NEW n \in Name
  PROVE  /\ Resolve(n) = None <=> \A i \in 1..Len(scopes) : scopes[i][n] = None
         /\ Resolve(n) # None => \E i \in 1..Len(scopes) :
              Innermost(scopes, Len(scopes), n, i) /\ Resolve(n) = scopes[i][n]
<1> DEFINE having == {i \in 1..Len(scopes) : scopes[i][n] # None}
           last   == CHOOSE i \in having : \A j \in having : j <= i
<1>1. Resolve(n) = IF having = {} THEN None ELSE scopes[last][n]
  BY DEF Resolve
<1>2. Len(scopes) \in Nat \ {0}
  BY LenProperties, EmptySeq DEF Typed
<1>3. CASE having = {}
  BY <1>1, <1>3
<1>4. CASE having # {}
  <2>1. PICK i \in 1..Len(scopes) : Innermost(scopes, Len(scopes), n, i)
    BY <1>2, <1>4 DEF Searchable
  <2>2. i \in having /\ \A j \in having : j <= i
    BY <1>2, <2>1 DEF Innermost
  <2>3. last \in having /\ \A j \in having : j <= last
    BY <2>2
  <2>4. last = i
    BY <2>2, <2>3, <1>2
  <2> QED BY <1>1, <1>4, <2>1, <2>4 DEF Innermost
<1> QED BY <1>3, <1>4

\* Below block k, and with a block of own scopes added or the last one removed.
LEMMA BaseBelow ==
  ASSUME NEW b, NEW os \in Seq(Block), NEW len \in Nat, Bases(b, os, len), NEW k \in 1..Len(os)
  PROVE  b[k] \in Nat \ {0} /\ b[k] < len /\ b[Len(os) + 1] = len
         /\ b[Len(os)] + Own(os, Len(os)) = len
<1>1. Len(os) \in Nat /\ Len(b) = Len(os) + 1 /\ k < Len(b)
  BY LenProperties DEF Bases
<1>2. k \in 1..Len(b) /\ Len(b) \in 1..Len(b) /\ 1 \in 1..Len(b) /\ Len(os) \in 1..Len(os)
  BY <1>1
<1>3. b[k] \in Nat
  BY <1>2, ElementOfSeq DEF Bases
<1>4. b[k] < len
  BY <1>1, <1>2 DEF Bases
<1>5. b[k] # 0
  BY <1>1, <1>2, <1>3 DEF Bases
<1> QED BY <1>1, <1>2, <1>3, <1>4, <1>5 DEF Bases

LEMMA BasesPush ==
  ASSUME NEW b, NEW os \in Seq(Block), os # << >>, NEW len \in Nat, Bases(b, os, len),
         NEW blk \in Block, NEW total \in Nat,
         total = len + Size(blk.kind)
  PROVE  Grows(b, os, len, Append(os, blk), total)
<1> DEFINE c   == Append(b, total)
           ps  == Append(os, blk)
           own == Size(blk.kind)
<1>1. /\ Len(os) \in Nat \ {0} /\ Len(b) = Len(os) + 1 /\ b \in Seq(Nat)
  BY LenProperties, EmptySeq DEF Bases
<1>2. /\ c \in Seq(Nat) /\ Len(c) = Len(b) + 1
      /\ \A i \in 1..Len(b) : c[i] = b[i]
      /\ c[Len(b) + 1] = total
  BY <1>1, AppendIs
<1>3. /\ ps \in Seq(Block) /\ Len(ps) = Len(os) + 1
      /\ \A i \in 1..Len(os) : ps[i] = os[i]
      /\ ps[Len(os) + 1] = blk
  BY AppendIs
<1> HIDE DEF c, ps
<1>4. c[1] = 1 /\ c[Len(c)] = total /\ Len(c) = Len(ps) + 1
  BY <1>1, <1>2, <1>3 DEF Bases
<1>5. ASSUME NEW k \in 1..Len(ps)
      PROVE  c[k + 1] = c[k] + Own(ps, k)
  <2>1. CASE k \in 1..Len(os)
    <3>1. k \in 1..Len(b) /\ k + 1 \in 1..Len(b)
      BY <1>1, <2>1
    <3>2. Own(ps, k) = Own(os, k)
      BY <1>3, <2>1 DEF Own
    <3> QED BY <1>1, <1>2, <2>1, <3>1, <3>2 DEF Bases
  <2>2. CASE k = Len(os) + 1
    <3>1. Own(ps, k) = own
      BY <1>1, <1>3, <2>2 DEF Own
    <3>2. c[k] = len
      BY <1>1, <1>2, <2>2 DEF Bases
    <3> QED BY <1>1, <1>2, <2>2, <3>1, <3>2
  <2> QED BY <1>1, <1>3, <2>1, <2>2
<1>6. ASSUME NEW k \in 1..Len(c), NEW l \in 1..Len(c), k < l
      PROVE  c[k] < c[l]
  <2>1. k \in 1..Len(b)
    BY <1>1, <1>2, <1>6
  <2>2. CASE l \in 1..Len(b)
    BY <1>2, <1>6, <2>1, <2>2 DEF Bases
  <2>3. CASE l = Len(b) + 1
    <3>1. b[k] \in Nat
      BY <1>1, <2>1, ElementOfSeq
    <3>2. b[k] <= len
      <4>1. CASE k = Len(b)
        BY <4>1, <3>1 DEF Bases
      <4>2. CASE k < Len(b)
        BY <4>2, <2>1, <1>1 DEF Bases
      <4> QED BY <4>1, <4>2, <2>1, <1>1
    <3>3. len < total
      BY DEF Size
    <3> QED BY <1>2, <2>1, <2>3, <3>1, <3>2, <3>3
  <2> QED BY <1>1, <1>2, <2>2, <2>3
<1>7. Bases(c, ps, total)
  BY <1>2, <1>4, <1>5, <1>6 DEF Bases
<1>8. \A k \in 1..Len(os) : c[k] = b[k]
  BY <1>1, <1>2
<1>9. c[Len(os) + 1] = len
  <2>1. Len(os) + 1 = Len(b) /\ Len(b) \in 1..Len(b)
    BY <1>1
  <2> QED BY <1>2, <2>1 DEF Bases
<1> QED BY <1>7, <1>8, <1>9 DEF ps, Grows

LEMMA BasesPop ==
  ASSUME NEW b, NEW os \in Seq(Block), os # << >>, NEW len \in Nat, Bases(b, os, len)
  PROVE  /\ Bases(Front(b), Front(os), b[Len(os)])
         /\ \A k \in 1..(Len(os) - 1) : Front(b)[k] = b[k]
<1> DEFINE c == Front(b)
           ps == Front(os)
<1>1. /\ Len(os) \in Nat \ {0} /\ Len(b) = Len(os) + 1 /\ b \in Seq(Nat) /\ b # << >>
  BY LenProperties, EmptySeq DEF Bases
<1>0. c \in Seq(Nat) /\ Len(c) = Len(b) - 1 /\ \A i \in 1..(Len(b) - 1) : c[i] = b[i]
  BY <1>1, FrontIs
<1>3. ps \in Seq(Block) /\ Len(ps) = Len(os) - 1 /\ \A i \in 1..(Len(os) - 1) : ps[i] = os[i]
  BY FrontIs
<1> HIDE DEF c, ps
<1>2. c \in Seq(Nat) /\ Len(c) = Len(os) /\ \A i \in 1..Len(os) : c[i] = b[i]
  BY <1>0, <1>1
<1>4. c[1] = 1 /\ c[Len(c)] = b[Len(os)] /\ Len(c) = Len(ps) + 1
  <2>1. 1 \in 1..Len(os) /\ Len(os) \in 1..Len(os)
    BY <1>1
  <2> QED BY <2>1, <1>1, <1>2, <1>3 DEF Bases
<1>5. ASSUME NEW k \in 1..Len(ps)
      PROVE  c[k + 1] = c[k] + Own(ps, k)
  <2>1. Own(ps, k) = Own(os, k)
    BY <1>3 DEF Own
  <2>2. k \in 1..Len(os) /\ k + 1 \in 1..Len(os)
    BY <1>1, <1>3
  <2> QED BY <1>2, <2>1, <2>2 DEF Bases
<1>6. \A k, l \in 1..Len(c) : k < l => c[k] < c[l]
  BY <1>1, <1>2 DEF Bases
<1>7. Bases(c, ps, b[Len(os)])
  BY <1>2, <1>4, <1>5, <1>6 DEF Bases
<1>8. \A k \in 1..(Len(os) - 1) : c[k] = b[k]
  BY <1>1, <1>2
<1> QED BY <1>7, <1>8 DEF c, ps

-----------------------------------------------------------------------------
(* The steps.                                                               *)

LEMMA Sizes ==
  ASSUME Typed, Inside
  PROVE  /\ Len(open) \in Nat \ {0} /\ Len(scopes) \in Nat \ {0}
         /\ Len(shadowStack) = Len(open) /\ Len(entry) = Len(open)
         /\ shadowStack # << >> /\ entry # << >> /\ scopes # << >> /\ open # << >>
         /\ Last(shadowStack) = shadowStack[Len(open)] /\ Last(entry) = entry[Len(open)]
         /\ Last(open) = open[Len(open)]
         /\ shadowStack[Len(open)] \in Seq(Record) /\ entry[Len(open)] \in NameMap
         /\ open[Len(open)] \in Block
<1>1. /\ Len(open) \in Nat \ {0} /\ Len(scopes) \in Nat \ {0}
      /\ Len(shadowStack) = Len(open) /\ Len(entry) = Len(open)
  BY EmptySeq, LenProperties DEF Typed, Inside
<1>2. shadowStack # << >> /\ entry # << >> /\ scopes # << >> /\ open # << >>
  BY <1>1 DEF Typed, Inside
<1> QED BY <1>1, <1>2, ElementOfSeq DEF Typed, Last

\* A global is seen from everywhere.
LEMMA GlobalSeen ==
  ASSUME Typed, Searchable(scopes), NEW n \in Name, Resolve(n) = None
  PROVE  n \notin globals /\ \A i \in 1..Len(scopes) : scopes[i][n] = None
<1>1. \A i \in 1..Len(scopes) : scopes[i][n] = None
  BY ResolveIs
<1>2. 1 \in 1..Len(scopes)
  BY EmptySeq, LenProperties DEF Typed
<1>3. GlobalScope(globals)[n] = None
  BY <1>1, <1>2 DEF Typed
<1> QED BY <1>1, <1>3, ScopesAssumption DEF GlobalScope, Name

\* Registering n in the innermost block, in the record and in the map.
LEMMA RegisterKeeps ==
  ASSUME IInv, Inside, NEW n \in Name, NEW v \in Nat
  PROVE  LET stack == [shadowStack EXCEPT ![Len(shadowStack)] =
                         Append(@, [name |-> n, old |-> nameToSlot[n]])]
             map   == [nameToSlot EXCEPT ![n] = v]
         IN  /\ stack \in Seq(Seq(Record)) /\ Len(stack) = Len(open) /\ map \in NameMap
             /\ \A k \in 1..Len(open) : HasFirst(stack[k])
             /\ \A k \in 1..(Len(open) - 1) : entry[k] = Undo(entry[k + 1], stack[k])
             /\ entry[Len(open)] = Undo(map, stack[Len(open)])
<1> USE DEF IInv
<1> DEFINE stack  == [shadowStack EXCEPT ![Len(shadowStack)] =
                        Append(@, [name |-> n, old |-> nameToSlot[n]])]
           map    == [nameToSlot EXCEPT ![n] = v]
           m      == Len(open)
           e      == [name |-> n, old |-> nameToSlot[n]]
           longer == Append(shadowStack[m], e)
<1>1. map \in NameMap
  BY DEF Typed, NameMap, Slot
<1>2. m \in 1..Len(open) /\ HasFirst(shadowStack[m]) /\ entry[m] = Undo(nameToSlot, shadowStack[m])
  BY Sizes DEF Traces, MapOf
<1>3. /\ longer \in Seq(Record) /\ HasFirst(longer)
      /\ Undo(map, longer) = Undo(nameToSlot, shadowStack[m])
  BY <1>2, Sizes, UndoAppend DEF Typed, Slot
<1>4. /\ stack = [shadowStack EXCEPT ![m] = longer]
      /\ \A k \in 1..m : stack[k] = IF k = m THEN longer ELSE shadowStack[k]
      /\ Len(stack) = m
  BY Sizes DEF Typed
<1> HIDE DEF longer
<1>5. stack \in Seq(Seq(Record))
  BY <1>3, <1>4, Sizes DEF Typed
<1>6. \A k \in 1..m : HasFirst(stack[k])
  BY <1>3, <1>4 DEF Traces
<1>7. \A k \in 1..(m - 1) : entry[k] = Undo(entry[k + 1], stack[k])
  BY <1>4, Sizes DEF Traces, MapOf
<1> QED BY <1>1, <1>2, <1>3, <1>4, <1>5, <1>6, <1>7

LEMMA InitIInv == Init => IInv
<1> SUFFICES ASSUME Init PROVE IInv
  OBVIOUS
<1> DEFINE g == GlobalScope(globals)
<1>1. g \in Scope /\ scopes = <<g>> /\ Len(scopes) = 1 /\ scopes[1] = g
  BY DEF Init, GlobalScope, Scope, Slot
<1>2. Typed
  BY <1>1, EmptyScopeType DEF Init, Typed, Name
<1>3. Len(open) = 0 /\ Traces /\ CatchKnown
  BY DEF Init, Traces, CatchKnown
<1>4. ASSUME NEW n \in Name, NEW i \in 1..1, Innermost(scopes, 1, n, i)
      PROVE  n \in globals /\ scopes[i][n] = n
  BY <1>1, <1>4 DEF Innermost, GlobalScope
<1>5. Searchable(scopes)
  BY <1>1 DEF Searchable, Innermost
<1>6. \A map : Agree(scopes, globals, reused, map, 1)
  BY <1>4 DEF Agree
<1>7. Bases(<<1>>, open, 1)
  BY <1>3 DEF Bases
<1>8. Agreement
  BY <1>1, <1>3, <1>6, <1>7 DEF Agreement
<1> QED BY <1>2, <1>3, <1>5, <1>8 DEF IInv

\* A block is opened, after a name was registered or not.
LEMMA Opens ==
  ASSUME IInv, Inside, NEW blk \in Block, NEW stack \in Seq(Seq(Record)),
         Len(stack) = Len(open),
         \A k \in 1..Len(open) : HasFirst(stack[k]),
         \A k \in 1..(Len(open) - 1) : entry[k] = Undo(entry[k + 1], stack[k]),
         entry[Len(open)] = Undo(nameToSlot', stack[Len(open)]),
         open' = Append(open, blk), entry' = Append(entry, nameToSlot'),
         shadowStack' = Append(stack, << >>),
         nameToSlot' \in NameMap, nextSlot' \in Nat, globals' = globals,
         reused \subseteq reused', reused' \subseteq Name,
         scopes' \in Seq(Scope), Searchable(scopes'),
         Len(scopes') = Len(scopes) + Size(blk.kind),
         \A i \in 1..Len(scopes) : scopes'[i] = scopes[i],
         Agree(scopes', globals, reused', nameToSlot', Len(scopes')),
         Agree(scopes, globals, reused', nameToSlot', Len(scopes)),
         blk.kind = "try" => /\ blk.name \in Name /\ blk.slot \in Nat
                             /\ nameToSlot'[blk.name] = blk.slot
                             /\ blk.name \in globals => blk.name \in reused'
  PROVE  IInv'
<1> USE DEF IInv
<1> DEFINE m == Len(open)
<1>1. /\ m \in Nat \ {0} /\ Len(scopes) \in Nat \ {0}
      /\ Len(shadowStack) = m /\ Len(entry) = m /\ open # << >> /\ scopes # << >>
  BY Sizes
<1>2. /\ open' \in Seq(Block) /\ Len(open') = m + 1
      /\ \A k \in 1..m : open'[k] = open[k]
      /\ open'[m + 1] = blk
  BY AppendIs DEF Typed
<1>3. scopes' # << >> /\ Len(scopes') \in Nat \ {0} /\ Len(scopes') > Len(scopes)
  BY <1>1 DEF Size
<1>4. /\ shadowStack' \in Seq(Seq(Record)) /\ Len(shadowStack') = m + 1
      /\ \A k \in 1..m : shadowStack'[k] = stack[k]
      /\ shadowStack'[m + 1] = << >>
  <2>1. << >> \in Seq(Record)
    OBVIOUS
  <2> QED BY <1>1, <2>1, AppendIs
<1>5. /\ entry' \in Seq(NameMap) /\ Len(entry') = m + 1
      /\ \A k \in 1..m : entry'[k] = entry[k]
      /\ entry'[m + 1] = nameToSlot'
  BY <1>1, AppendIs DEF Typed
<1>7. Typed'
  <2>1. 1 \in 1..m /\ 1 \in 1..Len(scopes)
    BY <1>1
  <2> QED BY <2>1, <1>1, <1>2, <1>3, <1>4, <1>5 DEF Typed
<1>8. Traces'
  <2> SUFFICES ASSUME NEW k \in 1..(m + 1)
               PROVE  /\ HasFirst(shadowStack'[k])
                      /\ entry'[k] = Undo(MapOf(k)', shadowStack'[k])
    BY <1>2 DEF Traces
  <2>0. MapOf(k)' = IF k = m + 1 THEN nameToSlot' ELSE entry'[k + 1]
    BY <1>2 DEF MapOf
  <2>1. CASE k = m + 1
    BY <2>0, <2>1, <1>4, <1>5, UndoEmpty
  <2>2. CASE k = m
    BY <2>0, <2>2, <1>1, <1>4, <1>5
  <2>3. CASE k \in 1..(m - 1)
    <3>1. k \in 1..m /\ k + 1 \in 1..m
      BY <2>3, <1>1
    <3> QED BY <2>0, <2>3, <3>1, <1>1, <1>4, <1>5
  <2>4. k = m + 1 \/ k = m \/ k \in 1..(m - 1)
    BY <1>1
  <2> QED BY <2>1, <2>2, <2>3, <2>4
<1>9. Agreement'
  <2>2. PICK b : /\ Bases(b, open, Len(scopes))
                 /\ \A k \in 1..m : Agree(scopes, globals, reused, entry[k], b[k])
    BY DEF Agreement
  <2>4. PICK c : /\ Bases(c, open', Len(scopes'))
                 /\ \A k \in 1..m : c[k] = b[k]
                 /\ c[m + 1] = Len(scopes)
    <3>1. Grows(b, open, Len(scopes), Append(open, blk), Len(scopes'))
      <4>1. open \in Seq(Block) /\ Len(scopes') \in Nat
        BY <1>3 DEF Typed
      <4>2. /\ open # << >> /\ Len(scopes) \in Nat
            /\ Len(scopes') = Len(scopes) + Size(blk.kind)
        BY <1>1
      <4>3. Bases(b, open, Len(scopes))
        BY <2>2
      <4> HIDE DEF IInv
      <4> QED BY <4>1, <4>2, <4>3, BasesPush
    <3> QED BY <3>1 DEF Grows
  <2>5. ASSUME NEW k \in 1..(m + 1)
        PROVE  Agree(scopes', globals', reused', entry'[k], c[k])
    <3>1. CASE k \in 1..m
      <4>1. b[k] \in Nat /\ b[k] < Len(scopes)
        BY <1>1, <2>2, <3>1, BaseBelow DEF Typed
      <4>2. \A i \in 1..b[k] : scopes'[i] = scopes[i]
        BY <1>1, <4>1
      <4>3. Agree(scopes, globals, reused, entry[k], b[k])
        BY <2>2, <3>1
      <4>4. Agree(scopes', globals, reused', entry[k], b[k])
        <5>1. reused \subseteq reused'
          OBVIOUS
        <5> HIDE DEF IInv
        <5> QED BY <4>1, <4>2, <4>3, <5>1, AgreePrefix, ZenonT(30)
      <4>5. entry'[k] = entry[k] /\ c[k] = b[k] /\ globals' = globals
        BY <1>5, <2>4, <3>1
      <4> QED BY <4>4, <4>5
    <3>2. CASE k = m + 1
      <4>1. reused' \subseteq reused' /\ Len(scopes) \in Nat
        BY <1>1
      <4>2. Agree(scopes', globals, reused', nameToSlot', Len(scopes))
        BY <4>1, AgreePrefix
      <4>3. entry'[k] = nameToSlot' /\ c[k] = Len(scopes)
        BY <1>5, <2>4, <3>2
      <4> QED BY <4>2, <4>3
    <3> QED BY <3>1, <3>2, <1>1
  <2> QED BY <1>2, <2>4, <2>5 DEF Agreement
<1>10. CatchKnown'
  <2> SUFFICES ASSUME NEW k \in 1..(m + 1), open'[k].kind = "try"
               PROVE  /\ open'[k].name \in Name /\ open'[k].slot \in Nat
                      /\ entry'[k][open'[k].name] = open'[k].slot
                      /\ open'[k].name \in globals => open'[k].name \in reused'
    BY <1>2 DEF CatchKnown
  <2>1. CASE k \in 1..m
    BY <2>1, <1>2, <1>5 DEF CatchKnown
  <2>2. CASE k = m + 1
    BY <2>2, <1>2, <1>5
  <2> QED BY <2>1, <2>2, <1>1
<1> QED BY <1>7, <1>8, <1>9, <1>10

LEMMA StepOpenBlock == IInv /\ OpenBlock => IInv'
<1> SUFFICES ASSUME IInv, OpenBlock PROVE IInv'
  OBVIOUS
<1> USE DEF IInv
<1> DEFINE blk == [kind |-> "block", name |-> None, slot |-> None]
<1>1. /\ Inside /\ blk \in Block /\ blk.kind = "block"
      /\ Len(open) \in Nat \ {0} /\ Len(scopes) \in Nat \ {0}
  BY Sizes DEF OpenBlock, Block, Slot
<1>2. /\ open' = Append(open, blk) /\ entry' = Append(entry, nameToSlot')
      /\ shadowStack' = Append(shadowStack, << >>)
      /\ nameToSlot' = nameToSlot /\ globals' = globals /\ reused' = reused
      /\ nextSlot' = nextSlot
  BY DEF OpenBlock
<1> HIDE DEF blk
<1>3. /\ shadowStack \in Seq(Seq(Record)) /\ Len(shadowStack) = Len(open)
      /\ \A k \in 1..Len(open) : HasFirst(shadowStack[k])
      /\ \A k \in 1..(Len(open) - 1) : entry[k] = Undo(entry[k + 1], shadowStack[k])
      /\ entry[Len(open)] = Undo(nameToSlot', shadowStack[Len(open)])
  <2>1. Len(open) \in 1..Len(open) /\ \A k \in 1..(Len(open) - 1) : k \in 1..Len(open) /\ k # Len(open)
    BY <1>1
  <2>2. \A k \in 1..Len(open) : /\ HasFirst(shadowStack[k])
                                /\ entry[k] = Undo(MapOf(k), shadowStack[k])
    BY DEF Traces
  <2>3. /\ MapOf(Len(open)) = nameToSlot'
        /\ \A k \in 1..(Len(open) - 1) : MapOf(k) = entry[k + 1]
    BY <1>2, <2>1 DEF MapOf
  <2> QED BY <2>1, <2>2, <2>3 DEF Typed
<1>4. /\ scopes' \in Seq(Scope) /\ Len(scopes') = Len(scopes) + 1
      /\ \A i \in 1..Len(scopes) : scopes'[i] = scopes[i]
      /\ scopes'[Len(scopes) + 1] = EmptyScope
      /\ Searchable(scopes')
  <2>1. scopes' = Append(scopes, EmptyScope) /\ scopes \in Seq(Scope) /\ EmptyScope \in Scope
    BY EmptyScopeType DEF OpenBlock, EnterScope, Typed
  <2>2. Searchable(Append(scopes, EmptyScope))
    BY <2>1, SearchPush
  <2> QED BY <2>1, <2>2, AppendIs
<1>5. Agree(scopes, globals, reused, nameToSlot, Len(scopes))
  BY DEF Agreement
<1>6. Agree(scopes', globals, reused, nameToSlot, Len(scopes'))
  BY <1>1, <1>4, <1>5, AgreePush
<1>7. nameToSlot' \in NameMap /\ nextSlot' \in Nat /\ reused' \subseteq Name
  BY <1>2 DEF Typed
<1>8. Len(scopes') = Len(scopes) + Size(blk.kind)
  BY <1>1, <1>4 DEF Size
<1> QED BY <1>1, <1>2, <1>3, <1>4, <1>5, <1>6, <1>7, <1>8, Opens

\* The generator's half of opening a for or a try.
LEMMA Registers ==
  ASSUME IInv, Inside, NEW n \in Name, NEW kind \in {"for", "try"}, RegisterThenPush(n, kind)
  PROVE  /\ [kind |-> kind, name |-> n, slot |-> nextSlot] \in Block
         /\ open' = Append(open, [kind |-> kind, name |-> n, slot |-> nextSlot])
         /\ entry' = Append(entry, nameToSlot')
         /\ nameToSlot' = [nameToSlot EXCEPT ![n] = nextSlot]
         /\ nameToSlot' \in NameMap /\ nameToSlot'[n] = nextSlot
         /\ nextSlot \in Nat /\ nextSlot' \in Nat /\ globals' = globals
         /\ \E stack \in Seq(Seq(Record)) :
              /\ Len(stack) = Len(open)
              /\ \A k \in 1..Len(open) : HasFirst(stack[k])
              /\ \A k \in 1..(Len(open) - 1) : entry[k] = Undo(entry[k + 1], stack[k])
              /\ entry[Len(open)] = Undo(nameToSlot', stack[Len(open)])
              /\ shadowStack' = Append(stack, << >>)
<1> USE DEF IInv
<1> DEFINE stack == [shadowStack EXCEPT ![Len(shadowStack)] =
                       Append(@, [name |-> n, old |-> nameToSlot[n]])]
<1>1. nextSlot \in Nat /\ nextSlot' \in Nat /\ nameToSlot \in NameMap
  BY DEF RegisterThenPush, Typed
<1>2. /\ nameToSlot' = [nameToSlot EXCEPT ![n] = nextSlot]
      /\ shadowStack' = Append(stack, << >>)
      /\ entry' = Append(entry, nameToSlot') /\ globals' = globals
      /\ open' = Append(open, [kind |-> kind, name |-> n, slot |-> nextSlot])
  BY DEF RegisterThenPush
<1>3. [kind |-> kind, name |-> n, slot |-> nextSlot] \in Block
  BY <1>1 DEF Block, Slot
<1>4. nameToSlot'[n] = nextSlot
  BY <1>1, <1>2 DEF NameMap
<1>5. /\ stack \in Seq(Seq(Record)) /\ Len(stack) = Len(open) /\ nameToSlot' \in NameMap
      /\ \A k \in 1..Len(open) : HasFirst(stack[k])
      /\ \A k \in 1..(Len(open) - 1) : entry[k] = Undo(entry[k + 1], stack[k])
      /\ entry[Len(open)] = Undo(nameToSlot', stack[Len(open)])
  <2> DEFINE map == [nameToSlot EXCEPT ![n] = nextSlot]
  <2>1. /\ stack \in Seq(Seq(Record)) /\ Len(stack) = Len(open) /\ map \in NameMap
        /\ \A k \in 1..Len(open) : HasFirst(stack[k])
        /\ \A k \in 1..(Len(open) - 1) : entry[k] = Undo(entry[k + 1], stack[k])
        /\ entry[Len(open)] = Undo(map, stack[Len(open)])
    BY <1>1, RegisterKeeps
  <2>2. nameToSlot' = map
    BY <1>2
  <2> HIDE DEF stack, map
  <2> QED BY <2>1, <2>2
<1> HIDE DEF stack
<1> QED BY <1>1, <1>2, <1>3, <1>4, <1>5

LEMMA StepOpenFor == ASSUME NEW n \in ForName PROVE IInv /\ OpenFor(n) => IInv'
<1> SUFFICES ASSUME IInv, OpenFor(n) PROVE IInv'
  OBVIOUS
<1> USE DEF IInv
<1> DEFINE blk == [kind |-> "for", name |-> n, slot |-> nextSlot]
           head == [EmptyScope EXCEPT ![n] = nextSlot]
           outer == Append(scopes, head)
<1>1. /\ Inside /\ n \in Name /\ RegisterThenPush(n, "for")
      /\ Len(open) \in Nat \ {0} /\ Len(scopes) \in Nat \ {0}
  BY Sizes DEF OpenFor, Name
<1>2. /\ blk \in Block
      /\ open' = Append(open, blk) /\ entry' = Append(entry, nameToSlot')
      /\ nameToSlot' = [nameToSlot EXCEPT ![n] = nextSlot] /\ nameToSlot' \in NameMap
      /\ nextSlot \in Nat /\ nextSlot' \in Nat /\ globals' = globals
  BY <1>1, Registers
<1>3. PICK stack \in Seq(Seq(Record)) :
        /\ Len(stack) = Len(open)
        /\ \A k \in 1..Len(open) : HasFirst(stack[k])
        /\ \A k \in 1..(Len(open) - 1) : entry[k] = Undo(entry[k + 1], stack[k])
        /\ entry[Len(open)] = Undo(nameToSlot', stack[Len(open)])
        /\ shadowStack' = Append(stack, << >>)
  BY <1>1, Registers
<1>4. /\ reused \subseteq reused' /\ reused' \subseteq Name
      /\ n \in reused' \/ (n \notin globals /\ \A i \in 1..Len(scopes) : scopes[i][n] = None)
  <2>1. reused' = IF Resolve(n) = None THEN reused ELSE reused \cup {n}
    BY DEF OpenFor, Reuse
  <2> QED BY <1>1, <2>1, GlobalSeen DEF Typed
<1>5. scopes' = Append(outer, EmptyScope) /\ scopes \in Seq(Scope) /\ head \in Scope
  BY <1>1, <1>2, EmptyScopeType DEF OpenFor, Scope, Slot, Typed
<1>6. /\ outer \in Seq(Scope) /\ Len(outer) = Len(scopes) + 1
      /\ \A i \in 1..Len(scopes) : outer[i] = scopes[i]
      /\ outer[Len(scopes) + 1] = head
      /\ Searchable(outer)
  BY <1>5, AppendIs, SearchPush
<1>7. blk.kind = "for"
  OBVIOUS
<1> HIDE DEF blk, outer
<1>8. /\ scopes' \in Seq(Scope) /\ Len(scopes') = Len(outer) + 1
      /\ \A i \in 1..Len(outer) : scopes'[i] = outer[i]
      /\ scopes'[Len(outer) + 1] = EmptyScope
      /\ Searchable(scopes')
  BY <1>5, <1>6, EmptyScopeType, AppendIs, SearchPush
<1>9. /\ Len(scopes') = Len(scopes) + Size(blk.kind)
      /\ \A i \in 1..Len(scopes) : scopes'[i] = scopes[i]
  BY <1>1, <1>6, <1>7, <1>8 DEF Size
<1>10. Agree(scopes, globals, reused, nameToSlot, Len(scopes)) /\ nameToSlot \in NameMap
  BY DEF Agreement, Typed
<1>11. Agree(scopes, globals, reused', nameToSlot', Len(scopes))
  BY <1>1, <1>2, <1>4, <1>10, AgreeRegister
<1>12. Agree(outer, globals, reused', nameToSlot', Len(scopes) + 1)
  BY <1>1, <1>2, <1>4, <1>6, <1>10, AgreeShadow
<1>13. Agree(scopes', globals, reused', nameToSlot', Len(scopes'))
  <2>1. Len(outer) \in Nat /\ Agree(outer, globals, reused', nameToSlot', Len(outer))
    BY <1>1, <1>6, <1>12
  <2> QED BY <1>8, <2>1, AgreePush
<1>14. scopes' \in Seq(Scope) /\ Searchable(scopes')
  BY <1>8
<1> QED BY <1>1, <1>2, <1>3, <1>4, <1>7, <1>9, <1>11, <1>13, <1>14, Opens

LEMMA StepOpenTry == ASSUME NEW n \in CatchName PROVE IInv /\ OpenTry(n) => IInv'
<1> SUFFICES ASSUME IInv, OpenTry(n) PROVE IInv'
  OBVIOUS
<1> USE DEF IInv
<1> DEFINE blk == [kind |-> "try", name |-> n, slot |-> nextSlot]
<1>1. /\ Inside /\ n \in Name /\ RegisterThenPush(n, "try")
      /\ Len(open) \in Nat \ {0} /\ Len(scopes) \in Nat \ {0}
  BY Sizes DEF OpenTry, Name
<1>2. /\ blk \in Block
      /\ open' = Append(open, blk) /\ entry' = Append(entry, nameToSlot')
      /\ nameToSlot' = [nameToSlot EXCEPT ![n] = nextSlot] /\ nameToSlot' \in NameMap
      /\ nameToSlot'[n] = nextSlot
      /\ nextSlot \in Nat /\ nextSlot' \in Nat /\ globals' = globals
  BY <1>1, Registers
<1>3. PICK stack \in Seq(Seq(Record)) :
        /\ Len(stack) = Len(open)
        /\ \A k \in 1..Len(open) : HasFirst(stack[k])
        /\ \A k \in 1..(Len(open) - 1) : entry[k] = Undo(entry[k + 1], stack[k])
        /\ entry[Len(open)] = Undo(nameToSlot', stack[Len(open)])
        /\ shadowStack' = Append(stack, << >>)
  BY <1>1, Registers
<1>4. /\ reused \subseteq reused' /\ reused' \subseteq Name
      /\ n \in reused' \/ (n \notin globals /\ \A i \in 1..Len(scopes) : scopes[i][n] = None)
  <2>1. reused' = IF Resolve(n) = None THEN reused ELSE reused \cup {n}
    BY DEF OpenTry, Reuse
  <2> QED BY <1>1, <2>1, GlobalSeen DEF Typed
<1>5. scopes' = Append(scopes, EmptyScope) /\ scopes \in Seq(Scope)
  BY DEF OpenTry, EnterScope, Typed
<1>6. /\ scopes' \in Seq(Scope) /\ Len(scopes') = Len(scopes) + 1
      /\ \A i \in 1..Len(scopes) : scopes'[i] = scopes[i]
      /\ scopes'[Len(scopes) + 1] = EmptyScope
      /\ Searchable(scopes')
  BY <1>5, EmptyScopeType, AppendIs, SearchPush
<1>7. blk.kind = "try" /\ blk.name = n /\ blk.slot = nextSlot
  OBVIOUS
<1> HIDE DEF blk
<1>9. Len(scopes') = Len(scopes) + Size(blk.kind)
  BY <1>6, <1>7 DEF Size
<1>10. Agree(scopes, globals, reused, nameToSlot, Len(scopes)) /\ nameToSlot \in NameMap
  BY DEF Agreement, Typed
<1>11. Agree(scopes, globals, reused', nameToSlot', Len(scopes))
  BY <1>1, <1>2, <1>4, <1>10, AgreeRegister
<1>13. Agree(scopes', globals, reused', nameToSlot', Len(scopes'))
  BY <1>1, <1>6, <1>11, AgreePush
<1> QED BY <1>1, <1>2, <1>3, <1>4, <1>6, <1>7, <1>9, <1>11, <1>13, Opens

LEMMA StepDeclare == ASSUME NEW n \in LocalName PROVE IInv /\ Declare(n) => IInv'
<1> SUFFICES ASSUME IInv, Declare(n) PROVE IInv'
  OBVIOUS
<1> USE DEF IInv
<1> DEFINE m == Len(open)
           L == Len(scopes)
<1>1. /\ Inside /\ n \in Name /\ nextSlot \in Nat /\ nameToSlot \in NameMap
      /\ m \in Nat \ {0} /\ L \in Nat \ {0} /\ shadowStack # << >> /\ open # << >>
      /\ scopes \in Seq(Scope)
  BY Sizes DEF Declare, Name, Typed
<1>2. /\ nameToSlot' = [nameToSlot EXCEPT ![n] = nextSlot]
      /\ nextSlot' = nextSlot + 1 /\ reused' = reused \cup ({n} \cap globals)
      /\ globals' = globals /\ open' = open /\ entry' = entry
      /\ scopes' = [scopes EXCEPT ![L][n] = nextSlot]
      /\ Last(scopes)[n] = None
  BY DEF Declare, Register, Define, Undefined
<1>3. shadowStack' = [shadowStack EXCEPT ![Len(shadowStack)] =
                        Append(@, [name |-> n, old |-> nameToSlot[n]])]
  BY <1>1 DEF Declare, Register
<1>4. /\ shadowStack' \in Seq(Seq(Record)) /\ Len(shadowStack') = m /\ nameToSlot' \in NameMap
      /\ \A k \in 1..m : HasFirst(shadowStack'[k])
      /\ \A k \in 1..(m - 1) : entry[k] = Undo(entry[k + 1], shadowStack'[k])
      /\ entry[m] = Undo(nameToSlot', shadowStack'[m])
  <2> DEFINE stack == [shadowStack EXCEPT ![Len(shadowStack)] =
                         Append(@, [name |-> n, old |-> nameToSlot[n]])]
             map   == [nameToSlot EXCEPT ![n] = nextSlot]
  <2>1. /\ stack \in Seq(Seq(Record)) /\ Len(stack) = m /\ map \in NameMap
        /\ \A k \in 1..m : HasFirst(stack[k])
        /\ \A k \in 1..(m - 1) : entry[k] = Undo(entry[k + 1], stack[k])
        /\ entry[m] = Undo(map, stack[m])
    BY <1>1, RegisterKeeps
  <2>2. nameToSlot' = map /\ shadowStack' = stack
    BY <1>2, <1>3
  <2> HIDE DEF stack, map
  <2> QED BY <2>1, <2>2
<1>5. /\ scopes' \in Seq(Scope) /\ Len(scopes') = L
      /\ \A i \in 1..(L - 1) : scopes'[i] = scopes[i]
      /\ \A x \in Name : scopes'[L][x] = IF x = n THEN nextSlot ELSE scopes[L][x]
  <2>1. scopes[L] \in Scope /\ L \in 1..L
    BY <1>1, ElementOfSeq
  <2>2. [scopes[L] EXCEPT ![n] = nextSlot] \in Scope
    BY <1>1, <2>1 DEF Scope, Slot
  <2>3. scopes' = [scopes EXCEPT ![L] = [scopes[L] EXCEPT ![n] = nextSlot]]
    BY <1>2
  <2>4. scopes' \in Seq(Scope) /\ Len(scopes') = L /\ \A i \in 1..(L - 1) : scopes'[i] = scopes[i]
    BY <1>1, <2>2, <2>3
  <2>5. scopes'[L] = [scopes[L] EXCEPT ![n] = nextSlot]
    BY <1>1, <2>1, <2>3
  <2>6. \A x \in Name : scopes'[L][x] = IF x = n THEN nextSlot ELSE scopes[L][x]
    BY <2>1, <2>5 DEF Scope
  <2> QED BY <2>4, <2>6
<1>6. Searchable(scopes')
  <2>1. scopes'[L][n] # None /\ \A x \in Name : x # n => scopes'[L][x] = scopes[L][x]
    BY <1>1, <1>5, ScopesAssumption
  <2> QED BY <1>1, <1>5, <2>1, SearchDefine
<1>7. L > 1
  <2>1. PICK b : Bases(b, open, L)
    BY DEF Agreement
  <2>2. 1 \in 1..m /\ b[1] = 1
    BY <1>1, <2>1 DEF Bases
  <2>3. b[1] < L
    BY <1>1, <2>1, <2>2, BaseBelow DEF Typed
  <2> QED BY <2>2, <2>3
<1>8. Typed'
  <2>1. scopes'[1] = scopes[1] /\ scopes' # << >>
    BY <1>1, <1>5, <1>7
  <2>2. reused' \subseteq Name /\ nextSlot' \in Nat
    BY <1>1, <1>2 DEF Typed
  <2> QED BY <1>1, <1>2, <1>4, <1>5, <2>1, <2>2 DEF Typed
<1>9. Traces'
  <2> SUFFICES ASSUME NEW k \in 1..m
               PROVE  /\ HasFirst(shadowStack'[k])
                      /\ entry'[k] = Undo(MapOf(k)', shadowStack'[k])
    BY <1>2 DEF Traces
  <2>1. MapOf(k)' = IF k = m THEN nameToSlot' ELSE entry[k + 1]
    BY <1>2 DEF MapOf
  <2>2. k = m \/ k \in 1..(m - 1)
    BY <1>1
  <2> QED BY <1>2, <1>4, <2>1, <2>2
<1>10. Agreement'
  <2>1. reused \subseteq reused' /\ (n \in globals => n \in reused')
    BY <1>2
  <2>2. Agree(scopes', globals, reused', nameToSlot', L)
    <3>1. Agree(scopes, globals, reused, nameToSlot, L)
      BY DEF Agreement
    <3>2. /\ nameToSlot \in NameMap /\ L \in Nat \ {0} /\ nextSlot \in Nat /\ n \in Name
          /\ globals' = globals /\ nameToSlot' = [nameToSlot EXCEPT ![n] = nextSlot]
      BY <1>1, <1>2 DEF Typed
    <3> HIDE DEF IInv
    <3>3. Agree(scopes', globals, reused', [nameToSlot EXCEPT ![n] = nextSlot], L)
      BY <1>5, <2>1, <3>1, <3>2, AgreeDefine
    <3> QED BY <3>2, <3>3
  <2>3. PICK b : /\ Bases(b, open, L)
                 /\ \A k \in 1..m : Agree(scopes, globals, reused, entry[k], b[k])
    BY DEF Agreement
  <2>4. ASSUME NEW k \in 1..m
        PROVE  Agree(scopes', globals, reused', entry[k], b[k])
    <3>1. b[k] \in Nat /\ b[k] < L
      BY <1>1, <2>3, BaseBelow DEF Typed
    <3>2. \A i \in 1..b[k] : scopes'[i] = scopes[i]
      BY <1>1, <1>5, <3>1
    <3>3. Agree(scopes, globals, reused, entry[k], b[k])
      BY <2>3
    <3> QED BY <2>1, <3>1, <3>2, <3>3, AgreePrefix
  <2> QED BY <1>2, <1>5, <2>2, <2>3, <2>4 DEF Agreement
<1>11. CatchKnown'
  BY <1>2 DEF CatchKnown
<1> QED BY <1>6, <1>8, <1>9, <1>10, <1>11

\* The map a block is left with is the one it was entered with.
LEMMA Undone ==
  ASSUME IInv, Inside
  PROVE  Undo(nameToSlot, Last(shadowStack)) = Last(entry) /\ Last(entry) = entry[Len(open)]
<1>1. /\ Len(open) \in 1..Len(open)
      /\ Last(shadowStack) = shadowStack[Len(open)] /\ Last(entry) = entry[Len(open)]
  BY Sizes DEF IInv
<1>2. MapOf(Len(open)) = nameToSlot
  BY DEF MapOf
<1> QED BY <1>1, <1>2 DEF IInv, Traces

LEMMA StepCatch == IInv /\ Catch => IInv'
<1> SUFFICES ASSUME IInv, Catch PROVE IInv'
  OBVIOUS
<1> USE DEF IInv
<1> DEFINE m == Len(open)
           name == open[m].name
           slot == open[m].slot
           clause == [EmptyScope EXCEPT ![name] = slot]
           below == Front(scopes)
           outer == Append(below, clause)
<1>1. /\ Inside /\ m \in Nat \ {0} /\ Len(scopes) \in Nat \ {0} /\ open # << >> /\ scopes # << >>
      /\ Len(shadowStack) = m /\ Len(entry) = m /\ Last(open) = open[m] /\ entry[m] \in NameMap
      /\ open[m] \in Block /\ open \in Seq(Block) /\ m \in 1..m
  BY Sizes DEF Catch, Typed
<1>2. open[m].kind = "try" /\ m # 1
  BY <1>1 DEF Catch, Typed
<1>3. name \in Name /\ slot \in Nat /\ entry[m][name] = slot /\ (name \in globals => name \in reused)
  BY <1>1, <1>2 DEF CatchKnown
<1>4. /\ nameToSlot' = entry[m] /\ entry' = entry
      /\ shadowStack' = [shadowStack EXCEPT ![m] = << >>]
      /\ open' = [open EXCEPT ![m].kind = "handler"]
      /\ globals' = globals /\ nextSlot' = nextSlot /\ reused' = reused
  BY <1>1, Undone DEF Catch, Typed
<1>5. scopes' = Append(outer, EmptyScope)
  BY <1>1 DEF Catch, ExitScope
<1>6. PICK b : /\ Bases(b, open, Len(scopes))
               /\ \A k \in 1..m : Agree(scopes, globals, reused, entry[k], b[k])
  BY DEF Agreement
<1>7. /\ b[m] \in Nat \ {0} /\ b[m] = Len(scopes) - 1
      /\ \A k \in 1..m : b[k] \in Nat /\ b[k] <= b[m]
  <2>1. b[m] \in Nat \ {0} /\ b[m] + Own(open, m) = Len(scopes) /\ b[m + 1] = Len(scopes)
    BY <1>1, <1>6, BaseBelow
  <2>2. Own(open, m) = 1
    BY <1>2 DEF Own, Size
  <2>3. ASSUME NEW k \in 1..m
        PROVE  b[k] \in Nat /\ b[k] <= b[m]
    <3>1. b[k] \in Nat /\ b[k] < Len(scopes)
      BY <1>1, <1>6, BaseBelow
    <3> QED BY <1>1, <2>1, <2>2, <3>1
  <2> QED BY <1>1, <2>1, <2>2, <2>3
<1>8. /\ below \in Seq(Scope) /\ Len(below) = b[m]
      /\ \A i \in 1..b[m] : below[i] = scopes[i]
      /\ Searchable(below)
  <2>1. scopes \in Seq(Scope)
    BY DEF Typed
  <2>2. /\ below \in Seq(Scope) /\ Len(below) = Len(scopes) - 1
        /\ \A i \in 1..(Len(scopes) - 1) : below[i] = scopes[i]
    BY <1>1, <2>1, FrontIs
  <2> HIDE DEF below
  <2>3. Searchable(below)
    BY <1>1, <2>1, <2>2, SearchPrefix
  <2> QED BY <1>7, <2>2, <2>3
<1>9. clause \in Scope
  BY <1>3, EmptyScopeType DEF Scope, Slot
<1> HIDE DEF below
<1>10. /\ outer \in Seq(Scope) /\ Len(outer) = b[m] + 1
       /\ \A i \in 1..b[m] : outer[i] = scopes[i]
       /\ outer[b[m] + 1] = clause
       /\ Searchable(outer)
  BY <1>8, <1>9, AppendIs, SearchPush
<1> HIDE DEF outer
<1>11. /\ scopes' \in Seq(Scope) /\ Len(scopes') = Len(outer) + 1
       /\ \A i \in 1..Len(outer) : scopes'[i] = outer[i]
       /\ scopes'[Len(outer) + 1] = EmptyScope
       /\ Searchable(scopes')
  BY <1>5, <1>10, EmptyScopeType, AppendIs, SearchPush
<1>12. /\ Len(scopes') = b[m] + 2 /\ scopes' # << >>
       /\ \A i \in 1..b[m] : scopes'[i] = scopes[i]
  BY <1>7, <1>10, <1>11
<1>13. /\ open' \in Seq(Block) /\ Len(open') = m
       /\ open'[m].kind = "handler"
       /\ \A k \in 1..m : k # m => open'[k] = open[k]
  <2>1. [open[m] EXCEPT !.kind = "handler"] \in Block
    BY <1>1 DEF Block
  <2> QED BY <1>1, <1>4, <2>1 DEF Block
<1>14. /\ shadowStack' \in Seq(Seq(Record)) /\ Len(shadowStack') = m
       /\ \A k \in 1..m : shadowStack'[k] = IF k = m THEN << >> ELSE shadowStack[k]
  <2>1. << >> \in Seq(Record)
    OBVIOUS
  <2> QED BY <1>1, <1>4, <2>1 DEF Typed
<1>15. Typed'
  <2>1. scopes'[1] = scopes[1] /\ open'[1] = open[1]
    <3>0. \A x \in Nat \ {0} : 1 \in 1..x
      OBVIOUS
    <3>1. 1 \in 1..b[m] /\ 1 \in 1..m
      BY <1>1, <1>7, <3>0
    <3> QED BY <3>1, <1>2, <1>12, <1>13
  <2> QED BY <1>1, <1>4, <1>11, <1>12, <1>13, <1>14, <2>1 DEF Typed
<1>16. Traces'
  <2> SUFFICES ASSUME NEW k \in 1..m
               PROVE  /\ HasFirst(shadowStack'[k])
                      /\ entry[k] = Undo(MapOf(k)', shadowStack'[k])
    BY <1>4, <1>13 DEF Traces
  <2>1. MapOf(k)' = IF k = m THEN entry[m] ELSE entry[k + 1]
    BY <1>4, <1>13 DEF MapOf
  <2>2. CASE k = m
    BY <1>1, <1>14, <2>1, <2>2, UndoEmpty
  <2>3. CASE k # m
    <3>1. HasFirst(shadowStack[k]) /\ entry[k] = Undo(entry[k + 1], shadowStack[k])
      BY <2>3 DEF Traces, MapOf
    <3> QED BY <1>14, <2>1, <2>3, <3>1
  <2> QED BY <2>2, <2>3
<1>17. Agree(scopes', globals, reused, entry[m], Len(scopes'))
  <2>1. Agree(scopes, globals, reused, entry[m], b[m])
    BY <1>1, <1>6
  <2>2. entry[m] = [entry[m] EXCEPT ![name] = slot] /\ reused \subseteq reused
    BY <1>1, <1>3 DEF NameMap
  <2> DEFINE map == [entry[m] EXCEPT ![name] = slot]
  <2>3. Agree(outer, globals, reused, map, b[m] + 1)
    <3>1. b[m] \in Nat /\ entry[m] \in NameMap /\ \A i \in 1..b[m] : outer[i] = scopes[i]
      BY <1>1, <1>7, <1>10
    <3>2. outer[b[m] + 1] = [EmptyScope EXCEPT ![name] = slot]
      BY <1>10
    <3>3. name \in Name /\ slot \in Nat /\ (name \in globals => name \in reused) /\ reused \subseteq reused
      BY <1>3
    <3> HIDE DEF name, slot
    <3> QED BY <2>1, <3>1, <3>2, <3>3, AgreeShadow
  <2> HIDE DEF map
  <2>4. Agree(outer, globals, reused, map, Len(outer)) /\ Len(outer) \in Nat
    BY <1>7, <1>10, <2>3
  <2>5. Agree(scopes', globals, reused, map, Len(outer) + 1)
    BY <1>11, <2>2, <2>4, AgreePush
  <2> QED BY <1>11, <2>2, <2>5 DEF map
<1>18. ASSUME NEW k \in 1..m
       PROVE  Agree(scopes', globals, reused, entry[k], b[k])
  <2>1. Agree(scopes, globals, reused, entry[k], b[k]) /\ reused \subseteq reused
    BY <1>6
  <2>2. b[k] \in Nat /\ \A i \in 1..b[k] : scopes'[i] = scopes[i]
    BY <1>7, <1>12
  <2> QED BY <2>1, <2>2, AgreePrefix
<1>19. Agreement'
  <2> DEFINE c == [b EXCEPT ![m + 1] = b[m] + 2]
  <2>1. b \in Seq(Nat) /\ Len(b) = m + 1
    BY <1>6 DEF Bases
  <2>2. /\ c \in Seq(Nat) /\ Len(c) = m + 1 /\ c[m + 1] = b[m] + 2
        /\ \A k \in 1..m : c[k] = b[k]
    BY <1>1, <1>7, <2>1
  <2> HIDE DEF c
  <2>3. Bases(c, open', Len(scopes'))
    <3>1. c[1] = 1 /\ c[Len(c)] = Len(scopes')
      BY <1>1, <1>6, <1>12, <2>2 DEF Bases
    <3>2. ASSUME NEW k \in 1..m
          PROVE  c[k + 1] = c[k] + Own(open', k)
      <4>1. CASE k = m
        BY <1>1, <1>7, <1>13, <2>2, <4>1 DEF Own, Size
      <4>2. CASE k # m
        <5>1. Own(open', k) = Own(open, k)
          BY <1>13, <4>2 DEF Own
        <5>2. k + 1 \in 1..m /\ b[k + 1] = b[k] + Own(open, k)
          BY <1>1, <1>6, <4>2 DEF Bases
        <5> QED BY <2>2, <5>1, <5>2
      <4> QED BY <4>1, <4>2
    <3>3. ASSUME NEW k \in 1..(m + 1), NEW l \in 1..(m + 1), k < l
          PROVE  c[k] < c[l]
      <4>1. k \in 1..m
        BY <1>1, <3>3
      <4>2. CASE l = m + 1
        BY <1>7, <2>2, <4>1, <4>2
      <4>3. CASE l # m + 1
        <5>1. l \in 1..m /\ k \in 1..Len(b) /\ l \in 1..Len(b)
          BY <1>1, <2>1, <4>3
        <5>2. b[k] < b[l]
          BY <1>6, <3>3, <5>1 DEF Bases
        <5> QED BY <2>2, <4>1, <5>1, <5>2
      <4> QED BY <4>2, <4>3
    <3> QED BY <1>13, <2>2, <3>1, <3>2, <3>3 DEF Bases
  <2>4. \A k \in 1..m : Agree(scopes', globals, reused, entry[k], c[k])
    BY <1>18, <2>2
  <2> QED BY <1>4, <1>13, <1>17, <2>3, <2>4 DEF Agreement
<1>20. CatchKnown'
  <2> SUFFICES ASSUME NEW k \in 1..m, open'[k].kind = "try"
               PROVE  /\ open'[k].name \in Name /\ open'[k].slot \in Nat
                      /\ entry[k][open'[k].name] = open'[k].slot
                      /\ open'[k].name \in globals => open'[k].name \in reused
    BY <1>4, <1>13 DEF CatchKnown
  <2>1. k # m /\ open'[k] = open[k]
    BY <1>13
  <2> QED BY <2>1 DEF CatchKnown
<1> QED BY <1>11, <1>15, <1>16, <1>19, <1>20

LEMMA StepClose == IInv /\ Close => IInv'
<1> SUFFICES ASSUME IInv, Close PROVE IInv'
  OBVIOUS
<1> USE DEF IInv
<1> DEFINE m == Len(open)
<1>1. /\ Inside /\ m \in Nat \ {0} /\ Len(scopes) \in Nat \ {0} /\ open # << >> /\ scopes # << >>
      /\ Len(shadowStack) = m /\ Len(entry) = m /\ Last(open) = open[m] /\ entry[m] \in NameMap
      /\ open[m] \in Block /\ open \in Seq(Block) /\ m \in 1..m /\ entry # << >> /\ shadowStack # << >>
      /\ scopes \in Seq(Scope)
  BY Sizes DEF Close, Typed
<1>2. open[m].kind # "try"
  BY <1>1 DEF Close
<1>3. /\ nameToSlot' = entry[m] /\ entry' = Front(entry) /\ shadowStack' = Front(shadowStack)
      /\ open' = Front(open) /\ globals' = globals /\ nextSlot' = nextSlot /\ reused' = reused
  BY <1>1, Undone DEF Close
<1>4. /\ open' \in Seq(Block) /\ Len(open') = m - 1 /\ \A k \in 1..(m - 1) : open'[k] = open[k]
      /\ entry' \in Seq(NameMap) /\ Len(entry') = m - 1 /\ \A k \in 1..(m - 1) : entry'[k] = entry[k]
  BY <1>1, <1>3, FrontIs DEF Typed
<1>5. /\ shadowStack' \in Seq(Seq(Record)) /\ Len(shadowStack') = m - 1
      /\ \A k \in 1..(m - 1) : shadowStack'[k] = shadowStack[k]
  BY <1>1, <1>3, FrontIs DEF Typed
<1>6. PICK b : /\ Bases(b, open, Len(scopes))
               /\ \A k \in 1..m : Agree(scopes, globals, reused, entry[k], b[k])
  BY DEF Agreement
<1>7. b[m] \in Nat \ {0} /\ b[m] + Own(open, m) = Len(scopes)
  BY <1>1, <1>6, BaseBelow
<1>8. /\ scopes' \in Seq(Scope) /\ Len(scopes') = b[m]
      /\ \A i \in 1..b[m] : scopes'[i] = scopes[i]
  <2> DEFINE once == Front(scopes)
  <2>1. /\ once \in Seq(Scope) /\ Len(once) = Len(scopes) - 1
        /\ \A i \in 1..(Len(scopes) - 1) : once[i] = scopes[i]
    BY <1>1, FrontIs
  <2>2. scopes' = IF open[m].kind = "block" /\ m > 1 THEN once ELSE Front(once)
    BY <1>1 DEF Close, ExitScope
  <2> HIDE DEF once
  <2>3. CASE open[m].kind = "block" /\ m > 1
    <3>1. Own(open, m) = 1
      BY <2>3 DEF Own, Size
    <3> QED BY <1>1, <1>7, <2>1, <2>2, <2>3, <3>1
  <2>4. CASE ~(open[m].kind = "block" /\ m > 1)
    <3>1. Own(open, m) = 2
      BY <1>1, <1>2, <2>4 DEF Own, Size, Block
    <3>2. Len(once) = b[m] + 1 /\ once # << >>
      BY <1>1, <1>7, <2>1, <3>1, EmptySeq
    <3>3. /\ scopes' \in Seq(Scope) /\ Len(scopes') = Len(once) - 1
          /\ \A i \in 1..(Len(once) - 1) : scopes'[i] = once[i]
      BY <2>1, <2>2, <2>4, <3>2, FrontIs
    <3>4. Len(once) - 1 = b[m] /\ b[m] <= Len(scopes) - 1 /\ b[m] \in Nat /\ Len(scopes) \in Nat
      BY <1>1, <1>7, <3>1, <3>2
    <3>5. \A i \in 1..b[m] : i \in 1..(Len(scopes) - 1)
      BY <3>4
    <3>6. \A i \in 1..b[m] : scopes'[i] = scopes[i]
      BY <2>1, <3>3, <3>4, <3>5
    <3> QED BY <3>3, <3>4, <3>6
  <2> QED BY <2>3, <2>4
<1>9. Searchable(scopes')
  <2>1. b[m] <= Len(scopes)
    BY <1>1, <1>7 DEF Own, Size
  <2> QED BY <1>1, <1>8, <2>1, SearchPrefix
<1>10. Typed'
  <2>0. \A x \in Nat \ {0} : 1 \in 1..x
    OBVIOUS
  <2>1. scopes' # << >> /\ scopes'[1] = scopes[1]
    BY <1>7, <1>8, <2>0
  <2>2. open' # << >> => open'[1] = open[1]
    <3>1. open' # << >> => 1 \in 1..(m - 1)
      BY <1>1, <1>4
    <3> QED BY <1>4, <3>1
  <2> QED BY <1>1, <1>3, <1>4, <1>5, <1>8, <2>1, <2>2 DEF Typed
<1>11. Traces'
  <2> SUFFICES ASSUME NEW k \in 1..(m - 1)
               PROVE  /\ HasFirst(shadowStack'[k])
                      /\ entry'[k] = Undo(MapOf(k)', shadowStack'[k])
    BY <1>4 DEF Traces
  <2>1. MapOf(k)' = IF k = m - 1 THEN entry[m] ELSE entry'[k + 1]
    BY <1>3, <1>4 DEF MapOf
  <2>2. k \in 1..m /\ k # m /\ (k # m - 1 => k + 1 \in 1..(m - 1))
    BY <1>1
  <2>3. MapOf(k)' = entry[k + 1] /\ MapOf(k) = entry[k + 1]
    BY <1>1, <1>4, <2>1, <2>2 DEF MapOf
  <2>4. HasFirst(shadowStack[k]) /\ entry[k] = Undo(MapOf(k), shadowStack[k])
    BY <2>2 DEF Traces
  <2> QED BY <1>4, <1>5, <2>3, <2>4
<1>12. Agreement'
  <2>1. reused \subseteq reused
    OBVIOUS
  <2>2. ASSUME NEW k \in 1..m
        PROVE  Agree(scopes', globals, reused, entry[k], b[k])
    <3>1. Agree(scopes, globals, reused, entry[k], b[k])
      BY <1>6
    <3>2. b[k] \in Nat /\ b[k] <= b[m]
      <4>1. b[k] \in Nat
        BY <1>1, <1>6, BaseBelow
      <4>2. k \in 1..Len(b) /\ m \in 1..Len(b) /\ (k < m \/ k = m)
        BY <1>1, <1>6 DEF Bases
      <4> QED BY <1>6, <1>7, <4>1, <4>2 DEF Bases
    <3>3. \A i \in 1..b[k] : scopes'[i] = scopes[i]
      BY <1>7, <1>8, <3>2
    <3> QED BY <2>1, <3>1, <3>2, <3>3, AgreePrefix
  <2>3. Agree(scopes', globals, reused, nameToSlot', Len(scopes'))
    BY <1>1, <1>3, <1>8, <2>2
  <2>4. PICK c : /\ Bases(c, open', b[m])
                 /\ \A k \in 1..(m - 1) : c[k] = b[k]
    BY <1>1, <1>3, <1>6, BasesPop
  <2>5. ASSUME NEW k \in 1..(m - 1)
        PROVE  Agree(scopes', globals, reused, entry'[k], c[k])
    BY <1>1, <1>4, <2>2, <2>4
  <2> QED BY <1>3, <1>4, <1>8, <2>3, <2>4, <2>5 DEF Agreement
<1>13. CatchKnown'
  <2> SUFFICES ASSUME NEW k \in 1..(m - 1), open'[k].kind = "try"
               PROVE  /\ open'[k].name \in Name /\ open'[k].slot \in Nat
                      /\ entry'[k][open'[k].name] = open'[k].slot
                      /\ open'[k].name \in globals => open'[k].name \in reused
    BY <1>3, <1>4 DEF CatchKnown
  <2>1. k \in 1..m /\ open'[k] = open[k] /\ entry'[k] = entry[k]
    BY <1>1, <1>4
  <2> QED BY <2>1 DEF CatchKnown
<1> QED BY <1>9, <1>10, <1>11, <1>12, <1>13

\* The parameters of a function have slots and nothing has been recorded.
LEMMA StepNextFunction == IInv /\ NextFunction => IInv'
<1> SUFFICES ASSUME IInv, NextFunction PROVE IInv'
  OBVIOUS
<1> USE DEF IInv
<1>1. PICK ps \in ParamLists :
        /\ reused' = globals \cap {ps[i] : i \in 1..Len(ps)}
        /\ scopes' = <<[n \in Name |-> IF n \in globals THEN n ELSE None], ParamSlots(ps), EmptyScope>>
        /\ nameToSlot' = ParamSlots(ps) /\ shadowStack' = <<<< >>>>
        /\ entry' = <<ParamSlots(ps)>> /\ nextSlot' = Len(ps)
        /\ open' = <<[kind |-> "block", name |-> None, slot |-> None]>>
        /\ globals' = globals
  BY DEF NextFunction, EnterFunction
<1> DEFINE blk == [kind |-> "block", name |-> None, slot |-> None]
           g   == GlobalScope(globals)
           p   == ParamSlots(ps)
           isParam(n) == \E i \in 1..Len(ps) : ps[i] = n
<1>2. Len(ps) \in Nat
  <2>1. PICK k \in 0..MaxSlots : ps \in [1..k -> LocalName]
    BY DEF ParamLists
  <2>2. k \in Nat
    BY ScopesAssumption
  <2>3. ps \in Seq(LocalName)
    BY <2>1, <2>2, SeqDef
  <2> QED BY <2>3, LenProperties
<1>3. \A n \in Name : IF isParam(n) THEN p[n] \in Nat ELSE p[n] = None
  <2> SUFFICES ASSUME NEW n \in Name, isParam(n) PROVE p[n] \in Nat
    BY DEF ParamSlots
  <2>1. (CHOOSE i \in 1..Len(ps) : ps[i] = n) \in 1..Len(ps)
    OBVIOUS
  <2>2. PICK i \in 1..Len(ps) : p[n] = i - 1
    BY <2>1 DEF ParamSlots
  <2> QED BY <1>2, <2>2
<1>4. p \in NameMap /\ p \in Scope
  BY <1>3 DEF ParamSlots, NameMap, Scope, Slot
<1>5. g \in Scope /\ \A n \in Name : g[n] = IF n \in globals THEN n ELSE None
  BY DEF GlobalScope, Scope, Slot
<1> HIDE DEF p, g
<1>6. /\ scopes' = <<g, p, EmptyScope>> /\ nameToSlot' = p /\ entry' = <<p>> /\ open' = <<blk>>
      /\ blk \in Block /\ blk.kind = "block" /\ Len(open') = 1
  BY <1>1 DEF g, p, GlobalScope, Block, Slot
<1>7. /\ scopes' \in Seq(Scope) /\ Len(scopes') = 3
      /\ scopes'[1] = g /\ scopes'[2] = p /\ scopes'[3] = EmptyScope
  BY <1>4, <1>5, <1>6, EmptyScopeType
<1>8. reused' \subseteq Name /\ \A n \in Name \ reused' : isParam(n) => n \notin globals
  BY <1>1 DEF Typed, Name
<1>9. Typed'
  BY <1>1, <1>2, <1>4, <1>6, <1>7, <1>8 DEF Typed, g
<1>10. Traces'
  BY <1>1, <1>4, <1>6, UndoEmpty DEF Traces, MapOf
<1>11. ASSUME NEW n \in Name
       PROVE  /\ scopes'[1][n] # None <=> n \in globals
              /\ scopes'[2][n] # None <=> isParam(n)
              /\ scopes'[3][n] = None
  <2>1. n # None
    BY ScopesAssumption DEF Name
  <2> QED BY <1>3, <1>5, <1>7, <2>1, EmptyScopeType, ScopesAssumption
<1>12. Searchable(scopes')
  <2> SUFFICES ASSUME NEW L \in 1..3, NEW n \in Name
               PROVE  \/ \A i \in 1..L : scopes'[i][n] = None
                      \/ \E i \in 1..L : Innermost(scopes', L, n, i)
    BY <1>7 DEF Searchable
  <2>1. CASE L >= 2 /\ isParam(n)
    <3>1. Innermost(scopes', L, n, 2) /\ 2 \in 1..L
      BY <1>11, <2>1 DEF Innermost
    <3> QED BY <3>1
  <2>2. CASE ~(L >= 2 /\ isParam(n)) /\ n \in globals
    <3>1. \A j \in 2..L : scopes'[j][n] = None
      BY <1>11, <2>2
    <3>2. Innermost(scopes', L, n, 1) /\ 1 \in 1..L
      BY <1>11, <2>2, <3>1 DEF Innermost
    <3> QED BY <3>2
  <2>3. CASE ~(L >= 2 /\ isParam(n)) /\ n \notin globals
    BY <1>11, <2>3
  <2> QED BY <2>1, <2>2, <2>3
<1>13. Agree(scopes', globals, reused', p, 3) /\ Agree(scopes', globals, reused', p, 1)
  <2> SUFFICES ASSUME NEW L \in {1, 3}, NEW n \in Name \ reused', NEW i \in 1..L,
                      Innermost(scopes', L, n, i)
               PROVE  (IF n \in globals THEN n ELSE p[n]) = scopes'[i][n]
    BY DEF Agree
  <2>1. i \in 1..3 /\ i # 3
    BY <1>11 DEF Innermost
  <2>2. CASE i = 1
    BY <1>5, <1>7, <1>11, <2>2 DEF Innermost
  <2>3. CASE i = 2
    BY <1>7, <1>8, <1>11, <2>3 DEF Innermost
  <2> QED BY <2>1, <2>2, <2>3
<1>14. Bases(<<1, 3>>, open', 3)
  BY <1>6 DEF Bases, Own
<1>15. Agreement'
  <2>1. /\ Agree(scopes', globals', reused', nameToSlot', Len(scopes'))
        /\ Bases(<<1, 3>>, open', Len(scopes'))
    BY <1>1, <1>6, <1>7, <1>13, <1>14
  <2>2. ASSUME NEW k \in 1..Len(open')
        PROVE  Agree(scopes', globals', reused', entry'[k], <<1, 3>>[k])
    <3>1. k = 1 /\ entry'[1] = p /\ <<1, 3>>[1] = 1
      BY <1>6
    <3> QED BY <1>1, <1>13, <3>1
  <2> QED BY <2>1, <2>2 DEF Agreement
<1>16. CatchKnown'
  BY <1>6 DEF CatchKnown
<1> QED BY <1>9, <1>10, <1>12, <1>15, <1>16

-----------------------------------------------------------------------------

\* The invariant of the nesting: it holds in every state, for every set of
\* names, whatever the functions declare and however deep their blocks are.
THEOREM InductiveInvariant == Spec => []IInv
<1>1. IInv /\ [Next]_vars => IInv'
  <2> SUFFICES ASSUME IInv, [Next]_vars PROVE IInv'
    OBVIOUS
  <2>1. CASE NextFunction
    BY <2>1, StepNextFunction
  <2>2. CASE \E n \in LocalName : Declare(n)
    BY <2>2, StepDeclare
  <2>3. CASE \E n \in ForName : OpenFor(n)
    BY <2>3, StepOpenFor
  <2>4. CASE \E n \in CatchName : OpenTry(n)
    BY <2>4, StepOpenTry
  <2>5. CASE OpenBlock
    BY <2>5, StepOpenBlock
  <2>6. CASE Catch
    BY <2>6, StepCatch
  <2>7. CASE Close
    BY <2>7, StepClose
  <2>8. CASE UNCHANGED vars
    BY <2>8 DEF vars, IInv, Typed, Traces, MapOf, Agreement, CatchKnown
  <2> QED BY <2>1, <2>2, <2>3, <2>4, <2>5, <2>6, <2>7, <2>8 DEF Next
<1> QED BY InitIInv, <1>1, PTL DEF Spec

\* A name has one meaning: whenever the collector resolves it, the generator
\* reads and writes the place of that declaration, but for the names that a
\* for, a catch or a global shares with a visible declaration.
THEOREM OneMeaning == Spec => []NamesAgreeUnlessReused
<1>1. IInv => NamesAgreeUnlessReused
  <2> SUFFICES ASSUME IInv, NEW n \in Name \ reused, Resolve(n) # None
               PROVE  Place(n) = Resolve(n)
    BY DEF NamesAgreeUnlessReused
  <2>1. PICK i \in 1..Len(scopes) : Innermost(scopes, Len(scopes), n, i) /\ Resolve(n) = scopes[i][n]
    BY ResolveIs DEF IInv
  <2> QED BY <2>1 DEF IInv, Agreement, Agree, Place
<1> QED BY <1>1, InductiveInvariant, PTL

\* A block leaves no trace: closing it restores the map it was entered with,
\* in every behaviour.
THEOREM NoTrace == Spec => BlockLeavesNoTrace
<1>1. IInv /\ [Next]_vars => [Close => nameToSlot' = Last(entry)]_vars
  BY Undone DEF Close
<1> QED BY <1>1, InductiveInvariant, PTL DEF Spec, BlockLeavesNoTrace

=============================================================================
