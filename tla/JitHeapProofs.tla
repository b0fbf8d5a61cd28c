---------------------------- MODULE JitHeapProofs ----------------------------
(***************************************************************************)
(* Proofs about JitHeap for every set of addresses, number of slots and    *)
(* threshold: the shadow stack is a mirror of the registers written to it, *)
(* and a collection takes nothing that can be reached from it.             *)
(*                                                                         *)
(* The frames and the shadow stack are argued about as values: Fits says   *)
(* that they belong together and refer to objects of a set only, and there *)
(* is a lemma for each way in which an instruction changes them (a write,  *)
(* a sweep, a return, a call).                                             *)
(***************************************************************************)
EXTENDS JitHeap, TLAPS, FiniteSetTheorems, SequenceTheorems

Bits == Value \cup {Wild}

\* The frames in order on the stack, the entries of one below the base of the
\* next, and the entry of every mirrored register its value.
Mirrored(fs, st) ==
  /\ fs \in Seq(Frame) /\ st \in Seq(Bits)
  /\ Len(fs) <= Len(SlotsAt)
  /\ \A i \in 1..Len(fs) : fs[i].base <= Len(st)
  /\ \A i, j \in 1..Len(fs) : i < j =>
       /\ fs[i].base <= fs[j].base
       /\ \A s \in fs[i].mirrored : fs[i].base + s < fs[j].base
  /\ \A i \in 1..Len(fs) : \A s \in fs[i].mirrored :
       /\ fs[i].base + s < Len(st)
       /\ st[fs[i].base + s + 1] = fs[i].reg[s]
       /\ fs[i].reg[s] \in Value

\* No frame, no entry and no cell refers to an object that is gone.
RegistersIn(fs, S) == \A i \in 1..Len(fs) : \A s \in Slot : fs[i].reg[s] \in Obj => fs[i].reg[s] \in S
EntriesIn(st, S)   == \A i \in 1..Len(st) : st[i] \in Obj => st[i] \in S
CellsIn(c, S)      == \A o \in S, f \in Field : c[o][f] \in Obj => c[o][f] \in S

Fits(fs, st, S) == Mirrored(fs, st) /\ RegistersIn(fs, S) /\ EntriesIn(st, S)

Typed ==
  /\ global \in Value /\ pending \in Value
  /\ heap \in SUBSET Obj
  /\ cell \in [Obj -> [Field -> Value]]
  /\ greyed \in SUBSET Obj
  /\ threshold \in Nat
  /\ crashed \in {"no", "lost", "wild"}

Held ==
  /\ CellsIn(cell, heap)
  /\ greyed \subseteq heap
  /\ {global, pending} \cap Obj \subseteq heap

IInv == Fits(frames, shadow, heap) /\ Typed /\ Held

-----------------------------------------------------------------------------
(* The shadow stack and the frames.                                        *)

\* What ShadowStack::set does to the entries.
LEMMA MirrorEntries ==
  ASSUME NEW st \in Seq(Bits), NEW index \in Nat, NEW v \in Bits
  PROVE  /\ Mirror(st, index, v) \in Seq(Bits)
         /\ Len(Mirror(st, index, v)) >= Len(st)
         /\ Len(Mirror(st, index, v)) > index
         /\ Mirror(st, index, v)[index + 1] = v
         /\ \A i \in 1..Len(st) : i # index + 1 => Mirror(st, index, v)[i] = st[i]
         /\ \A i \in 1..Len(Mirror(st, index, v)) :
              Mirror(st, index, v)[i] \in {v, NoRef} \cup {st[k] : k \in 1..Len(st)}
<1> DEFINE n == IF index < Len(st) THEN Len(st) ELSE index + 1
<1> DEFINE at(i) == IF i = index + 1 THEN v ELSE IF i <= Len(st) THEN st[i] ELSE NoRef
<1> DEFINE m == [i \in 1..n |-> at(i)]
<1>1. n \in Nat /\ n >= Len(st) /\ n > index
  OBVIOUS
<1>2. \A i \in 1..n : at(i) \in Bits
  BY DEF Bits, Value
<1>3. \A i \in 1..n : at(i) \in {v, NoRef} \cup {st[k] : k \in 1..Len(st)}
  OBVIOUS
<1>4. m \in Seq(Bits) /\ Len(m) = n /\ \A i \in 1..n : m[i] = at(i)
  <2> HIDE DEF n, at
  <2> QED
    BY <1>1, <1>2
<1>5. m = Mirror(st, index, v)
  BY DEF Mirror
<1>6. m[index + 1] = v /\ \A i \in 1..Len(st) : i # index + 1 => m[i] = st[i]
  BY <1>1, <1>4
<1> HIDE DEF m
<1>7. QED
  BY <1>1, <1>3, <1>4, <1>5, <1>6

\* What a write does to the frames.
Written(w, fs, s, v, mirrored) ==
  LET n == Len(fs) IN
  /\ w \in Seq(Frame) /\ Len(w) = n /\ n \in Nat \ {0}
  /\ \A i \in 1..n : i # n => w[i] = fs[i]
  /\ w[n].base = fs[n].base
  /\ w[n].mirrored = mirrored
  /\ w[n].reg[s] = v
  /\ \A t \in Slot : t # s => w[n].reg[t] = fs[n].reg[t]

MirroredAfter(fr, s, seen) == IF seen THEN fr.mirrored \cup {s} ELSE fr.mirrored \ {s}

LEMMA WriteFrames ==
  ASSUME NEW fs \in Seq(Frame), fs # << >>, NEW s \in Slot,
         NEW v \in Bits \cup {Swept}, NEW seen \in BOOLEAN
  PROVE  Written(Write(fs, s, v, seen), fs, s, v, MirroredAfter(fs[Len(fs)], s, seen))
<1> DEFINE n == Len(fs)
           m == MirroredAfter(fs[n], s, seen)
           r == [fs[n].reg EXCEPT ![s] = v]
           new == [fs[n] EXCEPT !.reg = r, !.mirrored = m]
<1>1. n \in Nat \ {0} /\ n \in 1..Len(fs) /\ fs[n] \in Frame
  OBVIOUS
<1>2. new \in Frame /\ new.base = fs[n].base /\ new.mirrored = m /\ new.reg = r
  BY <1>1 DEF Frame, Bits, MirroredAfter
<1>3. r[s] = v /\ \A t \in Slot : t # s => r[t] = fs[n].reg[t]
  BY <1>1 DEF Frame
<1>4. Write(fs, s, v, seen) = [fs EXCEPT ![n] = new]
  BY <1>1 DEF Write, Frame, MirroredAfter
<1> HIDE DEF new, r, m
<1>5. LET w == [fs EXCEPT ![n] = new] IN
        /\ w \in Seq(Frame) /\ Len(w) = n /\ w[n] = new
        /\ \A i \in 1..n : i # n => w[i] = fs[i]
  BY <1>1, <1>2
<1>6. DEFINE w == [fs EXCEPT ![n] = new]
<1>7. /\ w \in Seq(Frame) /\ Len(w) = n /\ n \in Nat \ {0}
      /\ \A i \in 1..n : i # n => w[i] = fs[i]
      /\ w[n].base = fs[n].base /\ w[n].mirrored = m
      /\ w[n].reg[s] = v /\ \A t \in Slot : t # s => w[n].reg[t] = fs[n].reg[t]
  BY <1>1, <1>2, <1>3, <1>5
<1> HIDE DEF w
<1>8. Written(w, fs, s, v, m)
  BY <1>7 DEF Written
<1>9. QED
  BY <1>4, <1>8 DEF w, m

\* A write to a register that leaves the shadow stack alone.
LEMMA FitsWrite ==
  ASSUME NEW fs, NEW st, NEW S, Fits(fs, st, S), fs # << >>,
         NEW s \in Slot, NEW v \in Bits, v \in Obj => v \in S
  PROVE  Fits(Write(fs, s, v, FALSE), st, S)
<1> DEFINE w == Write(fs, s, v, FALSE)
           n == Len(fs)
<1>1. fs \in Seq(Frame) /\ st \in Seq(Bits)
  BY DEF Fits, Mirrored
<1>2. /\ w \in Seq(Frame) /\ Len(w) = n /\ n \in Nat \ {0}
      /\ \A i \in 1..n : i # n => w[i] = fs[i]
      /\ w[n].base = fs[n].base /\ w[n].mirrored = fs[n].mirrored \ {s}
      /\ w[n].reg[s] = v /\ \A t \in Slot : t # s => w[n].reg[t] = fs[n].reg[t]
  <2>1. Written(w, fs, s, v, MirroredAfter(fs[n], s, FALSE))
    BY <1>1, WriteFrames
  <2> HIDE DEF w
  <2>2. QED
    BY <2>1 DEF Written, MirroredAfter
<1>3. \A i \in 1..n : fs[i].mirrored \subseteq Slot
  <2>1. \A i \in 1..n : fs[i] \in Frame
    BY <1>1
  <2>2. QED
    BY <2>1 DEF Frame
<1>4. \A i \in 1..n : /\ w[i].base = fs[i].base /\ w[i].mirrored \subseteq fs[i].mirrored
                      /\ \A t \in w[i].mirrored : w[i].reg[t] = fs[i].reg[t]
  BY <1>2, <1>3
<1> HIDE DEF w
<1>5. Mirrored(w, st)
  <2>1. \A i \in 1..n : \A t \in w[i].mirrored : t \in fs[i].mirrored /\ w[i].reg[t] = fs[i].reg[t]
    BY <1>4
  <2>2. \A i \in 1..n : w[i].base <= Len(st)
    BY <1>4 DEF Fits, Mirrored
  <2>3. \A i, j \in 1..n : i < j =>
          /\ w[i].base <= w[j].base
          /\ \A t \in w[i].mirrored : w[i].base + t < w[j].base
    BY <1>4, <2>1 DEF Fits, Mirrored
  <2>4. \A i \in 1..n : \A t \in w[i].mirrored :
          /\ w[i].base + t < Len(st)
          /\ st[w[i].base + t + 1] = w[i].reg[t]
          /\ w[i].reg[t] \in Value
    BY <1>4, <2>1 DEF Fits, Mirrored
  <2>5. n <= Len(SlotsAt)
    BY DEF Fits, Mirrored
  <2>6. QED
    BY <1>1, <1>2, <2>2, <2>3, <2>4, <2>5 DEF Mirrored
<1>6. RegistersIn(w, S)
  BY <1>2 DEF Fits, RegistersIn
<1>7. QED
  BY <1>5, <1>6 DEF Fits, w

\* A write to a register and to its entry (rt_jit_shadow_set).
LEMMA FitsMirror ==
  ASSUME NEW fs, NEW st, NEW S, Fits(fs, st, S), fs # << >>,
         NEW s \in Slot, NEW v \in Bits, v \in Obj => v \in S,
         NEW seen \in BOOLEAN, seen => v \in Value
  PROVE  Fits(Write(fs, s, v, seen), Mirror(st, fs[Len(fs)].base + s, v), S)
<1> DEFINE w == Write(fs, s, v, seen)
           n == Len(fs)
           index == fs[n].base + s
           m == Mirror(st, index, v)
<1>1. fs \in Seq(Frame) /\ st \in Seq(Bits)
  BY DEF Fits, Mirrored
<1>2. /\ w \in Seq(Frame) /\ Len(w) = n /\ n \in Nat \ {0}
      /\ \A i \in 1..n : i # n => w[i] = fs[i]
      /\ w[n].base = fs[n].base /\ w[n].mirrored \subseteq fs[n].mirrored \cup {s}
      /\ s \in w[n].mirrored => seen
      /\ w[n].reg[s] = v /\ \A t \in Slot : t # s => w[n].reg[t] = fs[n].reg[t]
  <2>1. Written(w, fs, s, v, MirroredAfter(fs[n], s, seen))
    BY <1>1, WriteFrames
  <2> HIDE DEF w
  <2>2. QED
    BY <2>1 DEF Written, MirroredAfter
<1>3. \A i \in 1..n : fs[i].base \in Nat /\ fs[i].mirrored \subseteq Slot
  <2>1. \A i \in 1..n : fs[i] \in Frame
    BY <1>1
  <2>2. QED
    BY <2>1 DEF Frame
<1>4. Slot \subseteq Nat
  BY JitHeapAssumption DEF Slot
<1>5. index \in Nat
  BY <1>2, <1>3, <1>4
<1>6. /\ m \in Seq(Bits) /\ Len(m) >= Len(st) /\ Len(m) > index /\ m[index + 1] = v
      /\ \A i \in 1..Len(st) : i # index + 1 => m[i] = st[i]
      /\ \A i \in 1..Len(m) : m[i] \in {v, NoRef} \cup {st[k] : k \in 1..Len(st)}
  BY <1>1, <1>5, MirrorEntries
<1>7. EntriesIn(m, S)
  <2> HIDE DEF m
  <2> QED
    BY <1>6, JitHeapAssumption DEF Fits, EntriesIn
<1>8. RegistersIn(w, S)
  <2> HIDE DEF w
  <2> QED
    BY <1>2 DEF Fits, RegistersIn
<1>9. ASSUME NEW i \in 1..n, NEW t \in w[i].mirrored
      PROVE  /\ w[i].base + t < Len(m) /\ m[w[i].base + t + 1] = w[i].reg[t]
             /\ w[i].reg[t] \in Value
  <2>1. CASE i = n /\ t = s
    BY <1>2, <1>6, <2>1
  <2>2. CASE ~(i = n /\ t = s)
    <3>1. t \in fs[i].mirrored /\ w[i].reg[t] = fs[i].reg[t] /\ w[i].base = fs[i].base
      BY <1>2, <1>3, <1>9, <2>2
    <3>2. /\ fs[i].base + t < Len(st) /\ st[fs[i].base + t + 1] = fs[i].reg[t]
          /\ fs[i].reg[t] \in Value
      BY <3>1, <1>9 DEF Fits, Mirrored
    <3>3. t \in Nat /\ fs[i].base \in Nat
      BY <3>1, <1>3, <1>4
    <3>4. fs[i].base + t + 1 # index + 1
      <4>1. CASE i = n
        BY <4>1, <2>2, <3>3, <1>4
      <4>2. CASE i # n
        <5>1. i < n /\ n \in 1..n
          BY <4>2, <1>2, <1>9
        <5>2. fs[i].base + t < fs[n].base
          BY <5>1, <3>1, <1>9 DEF Fits, Mirrored
        <5>3. QED
          BY <5>2, <3>3, <1>2, <1>3, <1>4
      <4>3. QED
        BY <4>1, <4>2
    <3>5. fs[i].base + t + 1 \in 1..Len(st)
      BY <3>2, <3>3, <1>1
    <3> HIDE DEF m, w, index
    <3>6. m[fs[i].base + t + 1] = fs[i].reg[t]
      BY <3>2, <3>4, <3>5, <1>6
    <3>7. fs[i].base + t < Len(m)
      BY <3>2, <3>3, <1>6, <1>1
    <3>8. QED
      BY <3>1, <3>2, <3>6, <3>7
  <2>3. QED
    BY <2>1, <2>2
<1>10. ASSUME NEW i \in 1..n, NEW j \in 1..n, i < j
       PROVE  /\ w[i].base <= w[j].base
              /\ \A t \in w[i].mirrored : w[i].base + t < w[j].base
  <2>1. w[i] = fs[i] /\ w[j].base = fs[j].base
    BY <1>2, <1>10
  <2> HIDE DEF w
  <2>2. QED
    BY <2>1, <1>10 DEF Fits, Mirrored
<1>11. \A i \in 1..n : w[i].base <= Len(m)
  <2>1. \A i \in 1..n : w[i].base = fs[i].base /\ fs[i].base <= Len(st)
    BY <1>2 DEF Fits, Mirrored
  <2> HIDE DEF w, m
  <2>2. QED
    BY <2>1, <1>1, <1>3, <1>6
<1>12. Len(w) <= Len(SlotsAt)
  BY <1>2 DEF Fits, Mirrored
<1> HIDE DEF w, m, n
<1>13. Mirrored(w, m)
  BY <1>2, <1>6, <1>9, <1>10, <1>11, <1>12 DEF Mirrored
<1>14. QED
  BY <1>7, <1>8, <1>13 DEF Fits, w, m, n

\* What fits a set of objects fits a larger one.
LEMMA FitsGrow ==
  ASSUME NEW fs, NEW st, NEW S, NEW T, Fits(fs, st, S), S \subseteq T
  PROVE  Fits(fs, st, T)
  BY DEF Fits, RegistersIn, EntriesIn

\* A function is left, with or without rt_jit_shadow_leave.
LEMMA FitsLeave ==
  ASSUME NEW fs, NEW st, NEW S, Fits(fs, st, S), fs # << >>
  PROVE  LET callers == SubSeq(fs, 1, Len(fs) - 1) IN
         /\ Fits(callers, st, S)
         /\ Fits(callers, Rewound(st, fs[Len(fs)].base), S)
<1> DEFINE n == Len(fs)
           callers == SubSeq(fs, 1, n - 1)
           base == fs[n].base
           below == SubSeq(st, 1, base)
<1>1. fs \in Seq(Frame) /\ st \in Seq(Bits) /\ n \in Nat \ {0}
  BY DEF Fits, Mirrored
<1>2. \A i \in 1..n : fs[i].base \in Nat /\ fs[i].mirrored \subseteq Slot
  <2>1. \A i \in 1..n : fs[i] \in Frame
    BY <1>1
  <2>2. QED
    BY <2>1 DEF Frame
<1>3. Slot \subseteq Nat
  BY JitHeapAssumption DEF Slot
<1>4. /\ callers \in Seq(Frame) /\ Len(callers) = n - 1
      /\ \A i \in 1..(n - 1) : callers[i] = fs[i]
  <2>1. 1 \in Int /\ n - 1 \in Int /\ \A i \in 1..(n - 1) : fs[i] \in Frame
    BY <1>1
  <2>2. /\ callers \in Seq(Frame)
        /\ Len(callers) = IF 1 <= n - 1 THEN (n - 1) - 1 + 1 ELSE 0
        /\ \A i \in 1..((n - 1) - 1 + 1) : callers[i] = fs[1 + i - 1]
    BY <2>1, SubSeqProperties
  <2> HIDE DEF callers
  <2>3. Len(callers) = n - 1
    <3>1. CASE 1 <= n - 1
      BY <1>1, <2>2, <3>1
    <3>2. CASE ~(1 <= n - 1)
      <4>1. Len(callers) = 0
        BY <2>2, <3>2
      <4>2. n - 1 = 0
        <5> HIDE DEF n
        <5>1. QED
          BY <1>1, <3>2
      <4>3. QED
        BY <4>1, <4>2
    <3>3. QED
      BY <3>1, <3>2
  <2>4. ASSUME NEW i \in 1..(n - 1)
        PROVE  callers[i] = fs[i]
    <3>1. i \in 1..((n - 1) - 1 + 1) /\ 1 + i - 1 = i
      BY <1>1
    <3>2. QED
      BY <2>2, <3>1
  <2>5. QED
    BY <2>2, <2>3, <2>4
<1>5. base \in Nat /\ base <= Len(st)
  BY <1>1, <1>2 DEF Fits, Mirrored
<1>6. below \in Seq(Bits) /\ Len(below) = base /\ \A i \in 1..base : below[i] = st[i]
  BY <1>1, <1>5
<1> HIDE DEF callers, below
<1>7. Mirrored(callers, st)
  <2>1. \A i \in 1..Len(callers) : i \in 1..Len(fs) /\ callers[i] = fs[i]
    BY <1>1, <1>4
  <2>2. Len(callers) <= Len(SlotsAt)
    BY <1>1, <1>4 DEF Fits, Mirrored
  <2>3. \A i, j \in 1..Len(callers) : i < j =>
          /\ callers[i].base <= callers[j].base
          /\ \A s \in callers[i].mirrored : callers[i].base + s < callers[j].base
    BY <2>1 DEF Fits, Mirrored
  <2>4. \A i \in 1..Len(callers) : \A s \in callers[i].mirrored :
          /\ callers[i].base + s < Len(st)
          /\ st[callers[i].base + s + 1] = callers[i].reg[s]
          /\ callers[i].reg[s] \in Value
    BY <2>1 DEF Fits, Mirrored
  <2>5. callers \in Seq(Frame) /\ st \in Seq(Bits) /\ \A i \in 1..Len(callers) : callers[i].base <= Len(st)
    BY <1>4, <2>1 DEF Fits, Mirrored
  <2>6. QED
    BY <2>2, <2>3, <2>4, <2>5 DEF Mirrored
<1>8. RegistersIn(callers, S)
  BY <1>1, <1>4 DEF Fits, RegistersIn
<1>9. EntriesIn(below, S)
  BY <1>1, <1>5, <1>6 DEF Fits, EntriesIn
<1>10. \A i \in 1..(n - 1) : /\ fs[i].base <= base
                             /\ \A s \in fs[i].mirrored : fs[i].base + s < base
  BY <1>1 DEF Fits, Mirrored
<1>11. ASSUME NEW i \in 1..(n - 1), NEW s \in fs[i].mirrored
       PROVE  fs[i].base + s < base /\ below[fs[i].base + s + 1] = fs[i].reg[s]
  <2>1. fs[i].base + s < base
    BY <1>10, <1>11
  <2>2. i \in 1..n
    BY <1>1, <1>11
  <2>3. st[fs[i].base + s + 1] = fs[i].reg[s]
    BY <2>2, <1>11 DEF Fits, Mirrored
  <2>4. fs[i].base \in Nat /\ s \in Nat
    BY <2>2, <1>2, <1>3, <1>11
  <2>5. fs[i].base + s + 1 \in 1..base
    BY <2>1, <2>4, <1>5
  <2>6. QED
    BY <2>1, <2>3, <2>5, <1>6
<1>12. Mirrored(callers, below)
  <2>1. /\ callers \in Seq(Frame) /\ Len(callers) <= Len(SlotsAt)
        /\ \A i, j \in 1..Len(callers) : i < j =>
             /\ callers[i].base <= callers[j].base
             /\ \A s \in callers[i].mirrored : callers[i].base + s < callers[j].base
    BY <1>7 DEF Mirrored
  <2>2. \A i \in 1..Len(callers) : callers[i].base <= Len(below)
    BY <1>4, <1>6, <1>10
  <2>3. \A i \in 1..Len(callers) : \A s \in callers[i].mirrored :
          /\ callers[i].base + s < Len(below)
          /\ below[callers[i].base + s + 1] = callers[i].reg[s]
    BY <1>4, <1>6, <1>10, <1>11
  <2>4. \A i \in 1..Len(callers) : \A s \in callers[i].mirrored : callers[i].reg[s] \in Value
    BY <1>7 DEF Mirrored
  <2>5. QED
    BY <1>6, <2>1, <2>2, <2>3, <2>4 DEF Mirrored
<1>13. QED
  BY <1>7, <1>8, <1>9, <1>12 DEF Fits, Rewound, callers, below

\* A function is called: its registers are not on the stack yet.
LEMMA FitsCall ==
  ASSUME NEW fs, NEW st, NEW S, Fits(fs, st, S), Len(fs) < Len(SlotsAt),
         NEW checks \in BOOLEAN, NEW reg \in [Slot -> Value],
         \A s \in Slot : reg[s] \in Obj => reg[s] \in S
  PROVE  Fits(Append(fs, NewFrame(Enter(st), checks, reg)), st, S)
<1> DEFINE new == NewFrame(Enter(st), checks, reg)
           n == Len(fs)
           all == Append(fs, new)
<1>1. fs \in Seq(Frame) /\ st \in Seq(Bits) /\ n \in Nat /\ Len(st) \in Nat
  BY DEF Fits, Mirrored
<1>2. new \in Frame /\ new.base = Len(st) /\ new.mirrored = {} /\ new.reg = reg
  BY <1>1 DEF NewFrame, Enter, Frame
<1> HIDE DEF new
<1>3. /\ all \in Seq(Frame) /\ Len(all) = n + 1 /\ all[n + 1] = new
      /\ \A i \in 1..n : all[i] = fs[i]
  BY <1>1, <1>2
<1> HIDE DEF all
<1>4. RegistersIn(all, S)
  BY <1>1, <1>2, <1>3 DEF Fits, RegistersIn
<1>5. \A i \in 1..(n + 1) : all[i].base <= Len(st)
  BY <1>1, <1>2, <1>3 DEF Fits, Mirrored
<1>6. ASSUME NEW i \in 1..(n + 1), NEW j \in 1..(n + 1), i < j
      PROVE  /\ all[i].base <= all[j].base
             /\ \A s \in all[i].mirrored : all[i].base + s < all[j].base
  <2>1. i \in 1..n /\ all[i] = fs[i]
    BY <1>1, <1>3, <1>6
  <2>2. CASE j = n + 1
    BY <2>1, <2>2, <1>2, <1>3 DEF Fits, Mirrored
  <2>3. CASE j # n + 1
    <3>1. j \in 1..n /\ all[j] = fs[j]
      BY <2>3, <1>1, <1>3
    <3>2. QED
      BY <2>1, <3>1, <1>6 DEF Fits, Mirrored
  <2>4. QED
    BY <2>2, <2>3
<1>7. \A i \in 1..(n + 1) : \A s \in all[i].mirrored :
        /\ i \in 1..n /\ all[i] = fs[i]
        /\ fs[i].base + s < Len(st) /\ st[fs[i].base + s + 1] = fs[i].reg[s]
        /\ fs[i].reg[s] \in Value
  BY <1>1, <1>2, <1>3 DEF Fits, Mirrored
<1>8. Len(SlotsAt) \in Nat /\ n + 1 <= Len(SlotsAt)
  BY <1>1, JitHeapAssumption
<1>9. Mirrored(all, st)
  <2>1. \A i \in 1..(n + 1) : \A s \in all[i].mirrored :
          /\ all[i].base + s < Len(st)
          /\ st[all[i].base + s + 1] = all[i].reg[s]
          /\ all[i].reg[s] \in Value
    BY <1>7
  <2>2. QED
    BY <1>1, <1>3, <1>5, <1>6, <1>8, <2>1 DEF Mirrored
<1>10. QED
  BY <1>4, <1>9 DEF Fits, all, new

\* A sweep takes nothing that has an entry, and so no mirrored register.
LEMMA FitsSweep ==
  ASSUME NEW fs, NEW st, NEW S, Fits(fs, st, S), NEW kept,
         \A i \in 1..Len(st) : st[i] \in Obj => st[i] \in kept
  PROVE  Fits([i \in DOMAIN fs |-> AfterSweep(fs[i], kept)], st, kept)
<1> DEFINE n == Len(fs)
           all == [i \in DOMAIN fs |-> AfterSweep(fs[i], kept)]
<1>1. fs \in Seq(Frame) /\ st \in Seq(Bits) /\ n \in Nat /\ DOMAIN fs = 1..n
  BY DEF Fits, Mirrored
<1>2. \A i \in 1..n : fs[i] \in Frame
  BY <1>1
<1>3. ASSUME NEW i \in 1..n
      PROVE  LET fr == AfterSweep(fs[i], kept) IN
             /\ fr \in Frame /\ fr.base = fs[i].base /\ fr.mirrored = fs[i].mirrored
             /\ \A s \in Slot : /\ fr.reg[s] \in Obj => fr.reg[s] \in kept
                                /\ fs[i].reg[s] \notin Obj \ kept => fr.reg[s] = fs[i].reg[s]
  <2>1. fs[i] \in Frame
    BY <1>2
  <2>2. QED
    BY <2>1, JitHeapAssumption DEF AfterSweep, Frame
<1>4. /\ all \in Seq(Frame) /\ Len(all) = n
      /\ \A i \in 1..n : all[i] = AfterSweep(fs[i], kept)
  BY <1>1, <1>3
<1>5. \A i \in 1..n : \A s \in fs[i].mirrored : s \in Slot
  BY <1>2 DEF Frame
<1>6. \A i \in 1..n : fs[i].base \in Nat
  BY <1>2 DEF Frame
<1>7. Slot \subseteq Nat
  BY JitHeapAssumption DEF Slot
<1>8. ASSUME NEW i \in 1..n, NEW s \in fs[i].mirrored
      PROVE  all[i].reg[s] = fs[i].reg[s]
  <2>1. fs[i].base + s < Len(st) /\ st[fs[i].base + s + 1] = fs[i].reg[s]
    BY <1>1, <1>8 DEF Fits, Mirrored
  <2>2. s \in Slot /\ fs[i].base \in Nat
    BY <1>5, <1>6, <1>8
  <2>3. fs[i].base + s + 1 \in 1..Len(st)
    BY <2>1, <2>2, <1>1, <1>7
  <2>4. fs[i].reg[s] \notin Obj \ kept
    BY <2>1, <2>3
  <2>5. QED
    BY <2>2, <2>4, <1>3, <1>4
<1> HIDE DEF all
<1>9. \A i \in 1..n : all[i].base = fs[i].base /\ all[i].mirrored = fs[i].mirrored
  BY <1>3, <1>4
<1>10. Mirrored(all, st)
  BY <1>1, <1>4, <1>8, <1>9 DEF Fits, Mirrored
<1>11. RegistersIn(all, kept)
  BY <1>3, <1>4 DEF RegistersIn
<1>12. EntriesIn(st, kept)
  BY DEF EntriesIn
<1>13. QED
  BY <1>10, <1>11, <1>12 DEF Fits, all

-----------------------------------------------------------------------------
(* The collector.                                                          *)

\* A closed set of objects that holds S holds all that S reaches.
LEMMA ReachLeast ==
  ASSUME NEW S, NEW T \in SUBSET Obj, S \subseteq T, M!HeldIn(T) \subseteq T
  PROVE  M!ReachFrom(S) \subseteq T
  BY DEF M!ReachFrom

\* What S reaches holds S and is closed.
LEMMA ReachClosed ==
  ASSUME NEW S \in SUBSET Obj
  PROVE  /\ S \subseteq M!ReachFrom(S) /\ M!ReachFrom(S) \subseteq Obj
         /\ M!HeldIn(M!ReachFrom(S)) \subseteq M!ReachFrom(S)
<1>1. S \subseteq M!ReachFrom(S) /\ M!ReachFrom(S) \subseteq Obj
  BY DEF M!ReachFrom
<1>2. ASSUME NEW o \in M!HeldIn(M!ReachFrom(S)),
             NEW T \in SUBSET Obj, S \subseteq T, M!HeldIn(T) \subseteq T
      PROVE  o \in T
  <2>1. M!ReachFrom(S) \subseteq T
    BY <1>2, ReachLeast
  <2>2. o \in M!HeldIn(T)
    BY <1>2, <2>1 DEF M!HeldIn
  <2>3. QED
    BY <1>2, <2>2
<1>3. \A o \in M!HeldIn(M!ReachFrom(S)) : o \in Obj
  BY DEF M!HeldIn
<1>4. QED
  BY <1>1, <1>2, <1>3 DEF M!ReachFrom

\* What an allocation keeps: all that has an entry, the globals and the
\* pending error, and what these hold.
LEMMA KeptIsClosed ==
  ASSUME IInv
  PROVE  /\ Kept \subseteq Obj
         /\ EntriesIn(shadow, Kept) /\ CellsIn(cell, Kept)
         /\ {global, pending} \cap Obj \subseteq Kept
         /\ ~AtThreshold => Kept = heap
         /\ Cardinality(Kept) \in Nat
<1>1. heap \subseteq Obj /\ shadow \in Seq(Bits)
  BY DEF IInv, Typed, Fits, Mirrored
<1>2. ASSUME Kept \subseteq Obj PROVE Cardinality(Kept) \in Nat
  BY <1>2, JitHeapAssumption, FS_Subset, FS_CardinalityType
<1>3. CASE ~AtThreshold
  <2>1. Kept = heap
    BY <1>3 DEF Kept
  <2>2. QED
    BY <1>1, <1>2, <2>1 DEF IInv, Fits, Held
<1>4. CASE AtThreshold
  <2>1. Kept = M!ReachFrom(Roots \cap Obj)
    BY <1>4 DEF Kept
  <2>2. /\ Roots \cap Obj \subseteq Kept /\ Kept \subseteq Obj
        /\ M!HeldIn(Kept) \subseteq Kept
    BY <2>1, ReachClosed
  <2>3. CellsIn(cell, Kept)
    BY <2>2 DEF CellsIn, M!HeldIn
  <2>4. EntriesIn(shadow, Kept)
    BY <1>1, <2>2 DEF EntriesIn, Roots
  <2>5. {global, pending} \cap Obj \subseteq Kept
    BY <2>2 DEF Roots
  <2>6. QED
    BY <1>2, <1>4, <2>2, <2>3, <2>4, <2>5
<1>5. QED
  BY <1>3, <1>4

\* What an instruction that allocates says of the heap.
HeapKept(o) ==
  /\ o \in heap' /\ heap' \in SUBSET Obj
  /\ cell' \in [Obj -> [Field -> Value]] /\ CellsIn(cell', heap')
  /\ greyed' \subseteq heap' /\ threshold' \in Nat
  /\ {global, pending} \cap Obj \subseteq heap'

LEMMA AllocateKeeps ==
  ASSUME IInv, NEW o \in Obj, Allocate(o)
  PROVE  HeapKept(o) /\ Fits(AllSwept, shadow, heap')
<1>1. /\ Kept \subseteq Obj
      /\ EntriesIn(shadow, Kept) /\ CellsIn(cell, Kept)
      /\ {global, pending} \cap Obj \subseteq Kept
      /\ ~AtThreshold => Kept = heap
      /\ Cardinality(Kept) \in Nat
  BY KeptIsClosed
<1>2. /\ heap' = Kept \cup {o} /\ o \notin Kept
      /\ cell' = [p \in Obj |-> IF p \in Kept THEN cell[p] ELSE [f \in Field |-> NoRef]]
      /\ threshold' = IF AtThreshold THEN Larger(MinThreshold, 2 * Cardinality(Kept))
                      ELSE threshold
      /\ greyed' = IF AtThreshold THEN {} ELSE greyed
  BY DEF Allocate
<1>3. cell' \in [Obj -> [Field -> Value]]
  BY <1>2 DEF IInv, Typed, Value
<1>4. CellsIn(cell', heap')
  <2>1. ASSUME NEW p \in heap', NEW f \in Field, cell'[p][f] \in Obj
        PROVE  cell'[p][f] \in heap'
    <3>1. CASE p \in Kept
      BY <1>1, <1>2, <2>1, <3>1 DEF CellsIn
    <3>2. CASE p \notin Kept
      <4>1. cell'[p][f] = NoRef
        BY <1>2, <2>1, <3>2
      <4>2. QED
        BY <2>1, <4>1, JitHeapAssumption
    <3>3. QED
      BY <3>1, <3>2
  <2>2. QED
    BY <2>1 DEF CellsIn
<1>5. greyed' \subseteq heap'
  BY <1>1, <1>2 DEF IInv, Held
<1>6. threshold' \in Nat
  BY <1>1, <1>2, JitHeapAssumption DEF Larger, IInv, Typed
<1>7. Fits(AllSwept, shadow, Kept)
  BY <1>1, FitsSweep DEF AllSwept, IInv, EntriesIn
<1>8. Fits(AllSwept, shadow, heap')
  BY <1>2, <1>7, FitsGrow
<1>9. QED
  BY <1>1, <1>2, <1>3, <1>4, <1>5, <1>6, <1>8 DEF HeapKept

LEMMA AllocateOnlyKeeps ==
  ASSUME IInv, NEW o \in Obj, AllocateOnly(o)
  PROVE  /\ o \in heap' /\ heap' \in SUBSET Obj /\ heap \subseteq heap'
         /\ cell' \in [Obj -> [Field -> Value]] /\ CellsIn(cell', heap')
         /\ threshold' \in Nat
         /\ {global, pending} \cap Obj \subseteq heap'
         /\ greyed \subseteq heap'
         /\ Fits(frames, shadow, heap')
<1>1. heap' = heap \cup {o} /\ cell' = [cell EXCEPT ![o] = [f \in Field |-> NoRef]]
  BY DEF AllocateOnly
<1>2. cell' \in [Obj -> [Field -> Value]]
  BY <1>1 DEF IInv, Typed, Value
<1>3. CellsIn(cell', heap')
  <2>1. ASSUME NEW p \in heap', NEW f \in Field, cell'[p][f] \in Obj
        PROVE  cell'[p][f] \in heap'
    <3>1. CASE p = o
      <4>1. cell'[p][f] = NoRef
        BY <1>1, <3>1 DEF IInv, Typed
      <4>2. QED
        BY <2>1, <4>1, JitHeapAssumption
    <3>2. CASE p # o
      BY <1>1, <2>1, <3>2 DEF IInv, Typed, Held, CellsIn
    <3>3. QED
      BY <3>1, <3>2
  <2>2. QED
    BY <2>1 DEF CellsIn
<1>4. Fits(frames, shadow, heap')
  BY <1>1, FitsGrow DEF IInv
<1>5. QED
  BY <1>1, <1>2, <1>3, <1>4 DEF IInv, Typed, Held, AllocateOnly

-----------------------------------------------------------------------------
(* The instructions.                                                       *)

LEMMA SlotsAreSlots ==
  ASSUME IInv, frames # << >>
  PROVE  /\ Slots \subseteq Slot
         /\ Callers # << >> => CallerSlots \subseteq Slot
<1>1. frames \in Seq(Frame) /\ Len(frames) \in Nat \ {0} /\ Len(frames) <= Len(SlotsAt)
  BY DEF IInv, Fits, Mirrored
<1>2. \A i \in 1..Len(SlotsAt) : SlotsAt[i] \in 0..SlotCount
  BY JitHeapAssumption
<1>3. Len(SlotsAt) \in Nat /\ SlotCount \in Nat
  BY JitHeapAssumption
<1>4. Slots \subseteq Slot
  <2>1. SlotsAt[Len(frames)] \in 0..SlotCount
    BY <1>1, <1>2, <1>3
  <2>2. QED
    BY <2>1, <1>3 DEF Slots, Slot
<1>5. ASSUME Callers # << >>
      PROVE  CallerSlots \subseteq Slot
  <2>1. ASSUME Len(frames) = 1 PROVE FALSE
    <3>1. Callers = SubSeq(frames, 1, 0)
      BY <2>1 DEF Callers
    <3>2. QED
      BY <3>1, <1>5, SubSeqEmpty
  <2>2. ~(Len(frames) < 2) /\ Len(frames) - 1 \in 1..Len(SlotsAt)
    <3> DEFINE n == Len(frames)
    <3>1. n \in Nat \ {0} /\ n <= Len(SlotsAt) /\ n # 1
      BY <1>1, <2>1
    <3> HIDE DEF n
    <3>2. ~(n < 2) /\ n - 1 \in 1..Len(SlotsAt)
      BY <3>1, <1>3
    <3>3. QED
      BY <3>2 DEF n
  <2>3. SlotsAt[Len(frames) - 1] \in 0..SlotCount
    BY <2>2, <1>2
  <2>4. CallerSlots = 0..(SlotsAt[Len(frames) - 1] - 1)
    BY <2>2 DEF CallerSlots
  <2>5. QED
    BY <2>3, <2>4, <1>3 DEF Slot
<1>6. QED
  BY <1>4, <1>5

\* A register that the program may use is null or an object that exists.
LEMMA UsesLive ==
  ASSUME IInv, frames # << >>, NEW a \in Slot, Uses(a)
  PROVE  Top.reg[a] \in Value /\ (Top.reg[a] \in Obj => Top.reg[a] \in heap)
<1>1. Len(frames) \in 1..Len(frames)
  <2>1. frames \in Seq(Frame)
    BY DEF IInv, Fits, Mirrored
  <2>2. QED
    BY <2>1
<1>2. QED
  BY <1>1 DEF IInv, Fits, RegistersIn, Uses, Top

\* A register of the running function is written.
LEMMA WriteTop ==
  ASSUME NEW S, Fits(frames, shadow, S), frames # << >>,
         NEW s \in Slot, NEW v \in Value, v \in Obj => v \in S
  PROVE  /\ Fits(Write(frames, s, v, FALSE), shadow, S)
         /\ Fits(Write(frames, s, v, TRUE), Mirror(shadow, Top.base + s, v), S)
<1>1. v \in Bits
  BY DEF Bits
<1>2. Fits(Write(frames, s, v, FALSE), shadow, S)
  BY <1>1, FitsWrite
<1>3. Fits(Write(frames, s, v, TRUE), Mirror(shadow, frames[Len(frames)].base + s, v), S)
  BY <1>1, FitsMirror
<1>4. QED
  BY <1>2, <1>3 DEF Top

\* The same after a sweep.
LEMMA WriteSwept ==
  ASSUME NEW S, Fits(AllSwept, shadow, S), frames \in Seq(Frame), frames # << >>,
         NEW s \in Slot, NEW v \in Value, v \in Obj => v \in S
  PROVE  /\ Fits(Write(AllSwept, s, v, FALSE), shadow, S)
         /\ Fits(Write(AllSwept, s, v, TRUE), Mirror(shadow, Top.base + s, v), S)
<1>1. v \in Bits
  BY DEF Bits
<1>2. Len(frames) \in Nat \ {0} /\ DOMAIN frames = 1..Len(frames)
  OBVIOUS
<1>3. AllSwept \in Seq(Frame)
  BY DEF Fits, Mirrored
<1>4. Len(AllSwept) = Len(frames)
  <2>1. DOMAIN AllSwept = 1..Len(frames)
    BY <1>2 DEF AllSwept
  <2>2. QED
    BY <2>1, <1>2, <1>3
<1>5. AllSwept # << >>
  BY <1>2, <1>4
<1>6. AllSwept[Len(AllSwept)].base = Top.base
  BY <1>2, <1>4 DEF AllSwept, AfterSweep, Top, Frame
<1>7. Fits(Write(AllSwept, s, v, FALSE), shadow, S)
  BY <1>1, <1>5, FitsWrite
<1>8. Fits(Write(AllSwept, s, v, TRUE),
           Mirror(shadow, AllSwept[Len(AllSwept)].base + s, v), S)
  BY <1>1, <1>5, FitsMirror
<1>9. QED
  BY <1>6, <1>7, <1>8

LEMMA AllocationKeeps ==
  ASSUME IInv, frames # << >>, Allocation
  PROVE  IInv'
<1>0. frames \in Seq(Frame) /\ Slots \subseteq Slot
  BY SlotsAreSlots DEF IInv, Fits, Mirrored
<1> SUFFICES ASSUME NEW s \in Slot, NEW o \in Obj,
                    New(s, o) \/ Concat(s, o) \/ HostArray(s, o)
                      \/ \E seen \in BOOLEAN : Box(s, o, seen)
             PROVE  IInv'
  BY <1>0 DEF Allocation
<1>1. o \in Value
  BY DEF Value
<1>2. CASE New(s, o) \/ Concat(s, o)
  <2>1. HeapKept(o) /\ Fits(AllSwept, shadow, heap')
    BY <1>2, AllocateKeeps DEF New, Concat
  <2>2. /\ Fits(Write(AllSwept, s, o, FALSE), shadow, heap')
        /\ Fits(Write(AllSwept, s, o, TRUE), Mirror(shadow, Top.base + s, o), heap')
    BY <1>0, <1>1, <2>1, WriteSwept DEF HeapKept
  <2>3. Fits(frames', shadow', heap')
    BY <1>2, <2>2 DEF New, Concat, EmitShadowSet
  <2>4. UNCHANGED <<global, pending, crashed>>
    BY <1>2 DEF New, Concat
  <2>5. Typed' /\ Held'
    BY <2>1, <2>4 DEF HeapKept, Typed, Held, IInv
  <2>6. QED
    BY <2>3, <2>5 DEF IInv
<1>3. CASE HostArray(s, o) \/ \E seen \in BOOLEAN : Box(s, o, seen)
  <2>1. AllocateOnly(o)
    BY <1>3 DEF HostArray, Box
  <2>2. /\ o \in heap' /\ heap' \in SUBSET Obj /\ heap \subseteq heap'
        /\ cell' \in [Obj -> [Field -> Value]] /\ CellsIn(cell', heap')
        /\ threshold' \in Nat
        /\ {global, pending} \cap Obj \subseteq heap'
        /\ greyed \subseteq heap'
        /\ Fits(frames, shadow, heap')
    BY <2>1, AllocateOnlyKeeps
  <2>3. /\ Fits(Write(frames, s, o, FALSE), shadow, heap')
        /\ Fits(Write(frames, s, o, TRUE), Mirror(shadow, Top.base + s, o), heap')
    BY <1>1, <2>2, WriteTop
  <2>4. Fits(frames', shadow', heap')
    <3>1. CASE HostArray(s, o)
      BY <2>3, <3>1 DEF HostArray, EmitShadowSet
    <3>2. CASE Box(s, o, TRUE)
      BY <2>3, <3>2 DEF Box, EmitShadowSet
    <3>3. CASE Box(s, o, FALSE)
      BY <2>3, <3>3 DEF Box
    <3>4. QED
      BY <1>3, <3>1, <3>2, <3>3
  <2>5. UNCHANGED <<global, pending, crashed>> /\ greyed' \subseteq greyed \cup {o}
    BY <1>3 DEF HostArray, Box
  <2>6. Typed' /\ Held'
    BY <2>2, <2>5 DEF Typed, Held, IInv
  <2>7. QED
    BY <2>4, <2>6 DEF IInv
<1>4. QED
  BY <1>2, <1>3

\* What the memory must still be for an instruction that allocates nothing.
LEMMA SameHeap ==
  ASSUME IInv, UNCHANGED <<heap, cell, greyed, threshold>>,
         crashed' \in {"no", "lost", "wild"},
         Fits(frames', shadow', heap),
         global' \in Value, global' \in Obj => global' \in heap,
         pending' \in Value, pending' \in Obj => pending' \in heap
  PROVE  IInv'
  BY DEF IInv, Typed, Held

\* The function returns to its caller.
LEMMA LeaveFits ==
  ASSUME NEW S, NEW stack, Fits(Callers, stack, S), NEW d,
         Callers # << >> => d \in Slot,
         NEW v \in Bits, v \in Obj => v \in S
  PROVE  /\ LeaveWith(stack) => Fits(frames', shadow', S)
         /\ LeaveInto(stack, d, v) /\ v \in Value => Fits(frames', shadow', S)
         /\ /\ Callers # << >>
            /\ frames' = Write(Callers, d, v, FALSE)
            /\ shadow' = Mirror(stack, Caller.base + d, v)
            => Fits(frames', shadow', S)
<1>1. LeaveWith(stack) => Fits(frames', shadow', S)
  BY DEF LeaveWith
<1>2. ASSUME Callers # << >>
      PROVE  /\ v \in Value => Fits(Write(Callers, d, v, TRUE), Mirror(stack, Caller.base + d, v), S)
             /\ Fits(Write(Callers, d, v, FALSE), Mirror(stack, Caller.base + d, v), S)
  <2>1. d \in Slot
    BY <1>2
  <2>2. v \in Value => Fits(Write(Callers, d, v, TRUE),
                            Mirror(stack, Callers[Len(Callers)].base + d, v), S)
    BY <1>2, <2>1, FitsMirror
  <2>3. Fits(Write(Callers, d, v, FALSE), Mirror(stack, Callers[Len(Callers)].base + d, v), S)
    BY <1>2, <2>1, FitsMirror
  <2>4. QED
    BY <2>2, <2>3 DEF Caller
<1>3. QED
  BY <1>1, <1>2 DEF LeaveInto

LEMMA MoveKeeps ==
  ASSUME IInv, frames # << >>, Move
  PROVE  IInv'
<1>0. Slots \subseteq Slot /\ (Callers # << >> => CallerSlots \subseteq Slot)
  BY SlotsAreSlots
<1>1. Fits(frames, shadow, heap)
  BY DEF IInv
<1>2. NoRef \in Value /\ Value \subseteq Bits /\ NoRef \notin Obj
  BY JitHeapAssumption DEF Value, Bits
<1>3. /\ global \in Value /\ (global \in Obj => global \in heap)
      /\ pending \in Value /\ (pending \in Obj => pending \in heap)
      /\ crashed \in {"no", "lost", "wild"}
  BY DEF IInv, Typed, Held
<1>4. ASSUME NEW s \in Slots, LoadNull(s)
      PROVE  IInv'
  <2>1. Fits(frames', shadow', heap)
    BY <1>0, <1>1, <1>2, <1>4, WriteTop DEF LoadNull
  <2>2. QED
    BY <2>1, <1>3, <1>4, SameHeap DEF LoadNull
<1>5. ASSUME NEW s \in Slots, LoadGlobal(s)
      PROVE  IInv'
  <2>1. Fits(frames', shadow', heap)
    BY <1>0, <1>1, <1>3, <1>5, WriteTop DEF LoadGlobal, EmitShadowSet
  <2>2. QED
    BY <2>1, <1>3, <1>5, SameHeap DEF LoadGlobal
<1>6. ASSUME NEW s \in Slots, StoreGlobal(s)
      PROVE  IInv'
  <2>1. Top.reg[s] \in Value /\ (Top.reg[s] \in Obj => Top.reg[s] \in heap)
    BY <1>0, <1>6, UsesLive DEF StoreGlobal
  <2>2. QED
    BY <2>1, <1>1, <1>3, <1>6, SameHeap DEF StoreGlobal
<1>7. ASSUME NEW s \in Slots, Call(s)
      PROVE  IInv'
  <2>1. Top.reg[s] \in Value /\ (Top.reg[s] \in Obj => Top.reg[s] \in heap)
    BY <1>0, <1>7, UsesLive DEF Call
  <2>2. Top.checks \in BOOLEAN
    <3>1. Len(frames) \in 1..Len(frames) /\ frames \in Seq(Frame)
      BY <1>1 DEF Fits, Mirrored
    <3>2. Top \in Frame
      BY <3>1 DEF Top
    <3>3. QED
      BY <3>2 DEF Frame
  <2>3. PICK checks \in {Top.checks, FALSE} :
          frames' = Append(frames, NewFrame(Enter(shadow), checks,
                      [t \in Slot |-> IF t = 0 THEN Top.reg[s] ELSE NoRef]))
    BY <1>7 DEF Call
  <2> DEFINE reg == [t \in Slot |-> IF t = 0 THEN Top.reg[s] ELSE NoRef]
  <2>4. reg \in [Slot -> Value] /\ \A t \in Slot : reg[t] \in Obj => reg[t] \in heap
    BY <2>1, <1>2
  <2> HIDE DEF reg
  <2>5. Fits(Append(frames, NewFrame(Enter(shadow), checks, reg)), shadow, heap)
    <3>1. Len(frames) < Len(SlotsAt) /\ checks \in BOOLEAN
      BY <1>7, <2>2 DEF Call
    <3>2. QED
      BY <3>1, <1>1, <2>4, FitsCall
  <2>6. Fits(frames', shadow', heap)
    BY <2>3, <2>5, <1>7 DEF reg, Call
  <2>7. QED
    BY <2>6, <1>3, <1>7, SameHeap DEF Call
<1>8. ASSUME NEW s \in Slots, Throw(s)
      PROVE  IInv'
  <2>1. Top.reg[s] \in Value /\ (Top.reg[s] \in Obj => Top.reg[s] \in heap)
    BY <1>0, <1>8, UsesLive DEF Throw
  <2>2. QED
    BY <2>1, <1>1, <1>3, <1>8, SameHeap DEF Throw
<1>9. ASSUME NEW s \in Slots, UseDead(s)
      PROVE  IInv'
  <2>1. crashed' \in {"no", "lost", "wild"}
    BY <1>9 DEF UseDead
  <2>2. QED
    BY <2>1, <1>1, <1>3, <1>9, SameHeap DEF UseDead
<1>10. ASSUME NEW s \in Slots, Catch(s)
       PROVE  IInv'
  <2>1. Fits(frames', shadow', heap)
    BY <1>0, <1>1, <1>3, <1>10, WriteTop DEF Catch, EmitShadowSet
  <2>2. QED
    BY <2>1, <1>2, <1>3, <1>10, SameHeap DEF Catch
<1>11. ASSUME NEW s \in Slots, NEW a \in Slots, CopySlot(s, a)
       PROVE  IInv'
  <2>1. Top.reg[a] \in Value /\ (Top.reg[a] \in Obj => Top.reg[a] \in heap)
    BY <1>0, <1>11, UsesLive DEF CopySlot
  <2>2. Fits(frames', shadow', heap)
    BY <2>1, <1>0, <1>1, <1>11, WriteTop DEF CopySlot
  <2>3. QED
    BY <2>2, <1>3, <1>11, SameHeap DEF CopySlot
<1>12. ASSUME NEW s \in Slots, NEW a \in Slots, NEW f \in Field, Get(s, a, f)
       PROVE  IInv'
  <2>1. Top.reg[a] \in heap
    BY <1>0, <1>12, UsesLive DEF Get
  <2>2. /\ cell[Top.reg[a]][f] \in Value
        /\ cell[Top.reg[a]][f] \in Obj => cell[Top.reg[a]][f] \in heap
    BY <2>1 DEF IInv, Typed, Held, CellsIn
  <2>3. Fits(frames', shadow', heap)
    BY <2>2, <1>0, <1>1, <1>12, WriteTop DEF Get, EmitShadowSet
  <2>4. QED
    BY <2>3, <1>3, <1>12, SameHeap DEF Get
<1>13. ASSUME NEW b \in Slots, NEW a \in Slots, NEW f \in Field, Set(a, f, b)
       PROVE  IInv'
  <2>1. Top.reg[a] \in Obj /\ Top.reg[b] \in Value /\ (Top.reg[b] \in Obj => Top.reg[b] \in heap)
    BY <1>0, <1>13, UsesLive DEF Set
  <2>2. PICK v \in {Top.reg[b], NoRef} : cell' = [cell EXCEPT ![Top.reg[a]][f] = v]
    BY <1>13 DEF Set
  <2>3. v \in Value /\ (v \in Obj => v \in heap)
    BY <2>1, <1>2
  <2>4. cell' \in [Obj -> [Field -> Value]]
    BY <2>1, <2>2, <2>3 DEF IInv, Typed
  <2>5. CellsIn(cell', heap)
    BY <2>1, <2>2, <2>3 DEF IInv, Typed, Held, CellsIn
  <2>6. QED
    BY <2>4, <2>5, <1>13 DEF Set, IInv, Typed, Held
<1>14. ASSUME NEW a \in Slots, NEW d \in CallerSlots, Return(a, d)
       PROVE  IInv'
  <2>1. Top.reg[a] \in Value /\ (Top.reg[a] \in Obj => Top.reg[a] \in heap)
    BY <1>0, <1>14, UsesLive DEF Return
  <2>2. Fits(Callers, Rewound(shadow, Top.base), heap)
    BY <1>1, FitsLeave DEF Callers, Top
  <2>3. Fits(frames', shadow', heap)
    BY <2>1, <2>2, <1>0, <1>2, <1>14, LeaveFits DEF Return
  <2>4. QED
    BY <2>3, <1>3, <1>14, SameHeap DEF Return
<1>15. QED
  BY <1>4, <1>5, <1>6, <1>7, <1>8, <1>9, <1>10, <1>11, <1>12, <1>13, <1>14 DEF Move

LEMMA FailureKeeps ==
  ASSUME IInv, frames # << >>, Failure
  PROVE  IInv'
<1>0. Callers # << >> => CallerSlots \subseteq Slot
  BY SlotsAreSlots
<1>1. NoRef \in Value /\ Value \subseteq Bits /\ NoRef \notin Obj
        /\ Wild \in Bits /\ Wild \notin Obj
  BY JitHeapAssumption DEF Value, Bits
<1>2. /\ global \in Value /\ (global \in Obj => global \in heap)
      /\ pending \in Value /\ (pending \in Obj => pending \in heap)
      /\ crashed \in {"no", "lost", "wild"}
  BY DEF IInv, Typed, Held
<1>3. ASSUME NEW d \in CallerSlots, Propagate(d)
      PROVE  IInv'
  <2>1. Fits(Callers, Rewound(shadow, Top.base), heap)
    BY FitsLeave DEF Callers, Top, IInv
  <2>2. Fits(frames', shadow', heap)
    BY <2>1, <1>0, <1>1, <1>3, LeaveFits DEF Propagate
  <2>3. QED
    BY <2>2, <1>2, <1>3, SameHeap DEF Propagate
<1>4. ASSUME NEW o \in Obj, NEW d \in CallerSlots, FailDirectly(o, d)
      PROVE  IInv'
  <2>1. /\ o \in heap' /\ heap' \in SUBSET Obj /\ heap \subseteq heap'
        /\ cell' \in [Obj -> [Field -> Value]] /\ CellsIn(cell', heap')
        /\ threshold' \in Nat
        /\ {global, pending} \cap Obj \subseteq heap'
        /\ greyed \subseteq heap'
        /\ Fits(frames, shadow, heap')
    BY <1>4, AllocateOnlyKeeps DEF FailDirectly
  <2>2. Fits(Callers, shadow, heap')
    BY <2>1, FitsLeave DEF Callers
  <2>3. Fits(frames', shadow', heap')
    <3>1. CASE LeaveWith(shadow)
      BY <3>1, <2>2, <1>0, <1>1, LeaveFits
    <3>2. CASE LeaveInto(shadow, d, NoRef)
      BY <3>2, <2>2, <1>0, <1>1, LeaveFits
    <3>3. CASE /\ Callers # << >>
               /\ frames' = Write(Callers, d, Wild, FALSE)
               /\ shadow' = Mirror(shadow, Caller.base + d, Wild)
      BY <3>3, <2>2, <1>0, <1>1, LeaveFits
    <3>4. QED
      BY <1>4, <3>1, <3>2, <3>3 DEF FailDirectly
  <2>4. pending' = o /\ UNCHANGED <<global, greyed, crashed>>
    BY <1>4 DEF FailDirectly
  <2>5. QED
    BY <2>1, <2>3, <2>4, <1>2 DEF IInv, Typed, Held, Value
<1>5. ASSUME NEW o \in Obj, Raise(o)
      PROVE  IInv'
  <2>1. /\ o \in heap' /\ heap' \in SUBSET Obj /\ heap \subseteq heap'
        /\ cell' \in [Obj -> [Field -> Value]] /\ CellsIn(cell', heap')
        /\ threshold' \in Nat
        /\ {global, pending} \cap Obj \subseteq heap'
        /\ greyed \subseteq heap'
        /\ Fits(frames, shadow, heap')
    BY <1>5, AllocateOnlyKeeps DEF Raise
  <2>2. pending' = o /\ UNCHANGED <<frames, shadow, global, greyed, crashed>>
    BY <1>5 DEF Raise
  <2>3. QED
    BY <2>1, <2>2, <1>2 DEF IInv, Typed, Held, Value
<1>6. QED
  BY <1>3, <1>4, <1>5 DEF Failure

LEMMA InitFits == Init => IInv
<1> SUFFICES ASSUME Init PROVE IInv
  OBVIOUS
<1> DEFINE reg == [s \in Slot |-> NoRef]
<1>1. PICK checks \in BOOLEAN : frames = <<NewFrame(0, checks, reg)>>
  BY DEF Init
<1>2. NewFrame(0, checks, reg) \in Frame
  BY DEF NewFrame, Frame, Value
<1>3. /\ frames \in Seq(Frame) /\ Len(frames) = 1
      /\ frames[1].base = 0 /\ frames[1].mirrored = {} /\ frames[1].reg = reg
  BY <1>1, <1>2 DEF NewFrame
<1>4. shadow = << >> /\ shadow \in Seq(Bits) /\ Len(shadow) = 0
  BY DEF Init
<1>5. Len(SlotsAt) >= 1
  BY JitHeapAssumption
<1>6. Mirrored(frames, shadow)
  BY <1>3, <1>4, <1>5 DEF Mirrored
<1>7. RegistersIn(frames, heap) /\ EntriesIn(shadow, heap)
  BY <1>3, <1>4, JitHeapAssumption DEF RegistersIn, EntriesIn
<1>8. Typed /\ Held
  BY JitHeapAssumption DEF Init, Typed, Held, CellsIn, Value
<1>9. QED
  BY <1>6, <1>7, <1>8 DEF IInv, Fits

(***************************************************************************)
(* The inductive invariant.  It says more than the properties: which part  *)
(* of the shadow stack belongs to which call, and that no register, entry, *)
(* cell or error refers to an object that is gone.                         *)
(***************************************************************************)
THEOREM InductiveInvariant == Spec => []IInv
<1>1. Init => IInv
  BY InitFits
<1>2. ASSUME IInv, [Next]_vars
      PROVE  IInv'
  <2>1. CASE UNCHANGED vars
    BY <1>2, <2>1 DEF vars, IInv, Typed, Held
  <2>2. CASE MarkWild
    <3>1. crashed' \in {"no", "lost", "wild"}
      BY <2>2 DEF MarkWild
    <3>2. QED
      BY <1>2, <2>2, <3>1 DEF MarkWild, IInv, Typed, Held
  <2>3. CASE frames # << >> /\ (Allocation \/ Move \/ Failure)
    BY <1>2, <2>3, AllocationKeeps, MoveKeeps, FailureKeeps
  <2>4. QED
    BY <1>2, <2>1, <2>2, <2>3 DEF Next
<1>3. QED
  BY <1>1, <1>2, PTL DEF Spec

\* The types of what the machine keeps between two instructions.
THEOREM TypeCorrect == Spec => []TypeOK
<1>1. IInv => TypeOK
  BY DEF IInv, Fits, Mirrored, Typed, TypeOK, Bits
<1>2. QED
  BY <1>1, InductiveInvariant, PTL

\* The shadow stack has every register that was written to it, for any number
\* of slots and calls (ShadowStack::enter, leave and set).
THEOREM ShadowIsAMirror == Spec => []ShadowIsMirror
<1>1. IInv => ShadowIsMirror
  <2> SUFFICES ASSUME IInv PROVE ShadowIsMirror
    OBVIOUS
  <2>1. DOMAIN frames = 1..Len(frames)
    BY DEF IInv, Fits, Mirrored
  <2>2. QED
    BY <2>1 DEF IInv, Fits, Mirrored, ShadowIsMirror
<1>2. QED
  BY <1>1, InductiveInvariant, PTL

\* jitMaybeCollect takes nothing that the program reaches from a mirrored
\* register, a global or the pending error, however many objects there are.
THEOREM MirroredAreKept == Spec => []MirroredSurvive
<1>1. IInv => MirroredSurvive
  <2> SUFFICES ASSUME IInv PROVE MirroredSurvive
    OBVIOUS
  <2>1. /\ DOMAIN frames = 1..Len(frames) /\ heap \in SUBSET Obj
        /\ \A i \in 1..Len(frames) : frames[i].mirrored \subseteq Slot
    <3>1. frames \in Seq(Frame) /\ heap \in SUBSET Obj
      BY DEF IInv, Fits, Mirrored, Typed
    <3>2. \A i \in 1..Len(frames) : frames[i] \in Frame
      BY <3>1
    <3>3. QED
      BY <3>1, <3>2 DEF Frame
  <2>2. MirroredRefs \subseteq Value
    BY <2>1 DEF MirroredRefs, IInv, Fits, Mirrored
  <2>3. (MirroredRefs \cup {global, pending}) \cap Obj \subseteq heap
    <3>1. MirroredRefs \cap Obj \subseteq heap
      BY <2>1 DEF MirroredRefs, IInv, Fits, RegistersIn
    <3>2. QED
      BY <3>1 DEF IInv, Held
  <2>4. M!HeldIn(heap) \subseteq heap
    BY DEF M!HeldIn, IInv, Held, CellsIn
  <2>5. QED
    BY <2>1, <2>2, <2>3, <2>4, ReachLeast DEF MirroredSurvive
<1>2. QED
  BY <1>1, InductiveInvariant, PTL
=============================================================================
