-------------------------- MODULE ControlVmProofs --------------------------
(***************************************************************************)
(* The try stack of the VM is lexical, for every bytecode whose try bodies *)
(* are left by their LEAVE_TRY or by an error only; the table of handlers  *)
(* of the JIT backend is lexical, for every well nested bytecode; and both *)
(* backends implement NearestCatch.                                        *)
(*                                                                         *)
(* A frame that waits for another stands behind its CALL (Stacked), which  *)
(* is all that the two need to have in common: an error is mapped to a     *)
(* step of NearestCatch when it is raised, and what is left of its way,    *)
(* frame by frame in compiled code, to stuttering.                         *)
(***************************************************************************)
EXTENDS JitControl, TLAPS, FiniteSetTheorems, WellFoundedInduction

IsSequence(s) == s \in Seq({s[k] : k \in DOMAIN s})

\* The entry that the try statement at i of a frame of program p has made at
\* depth d.
EntryOf(p, frame, d, i) ==
  [depth |-> d, target |-> CodeOf(p, frame)[i].target, slot |-> CodeOf(p, frame)[i].dest]

IsFrame(p, frame) ==
  /\ DOMAIN frame = {"fn", "ip", "slots", "dest"}
  /\ frame.fn \in Function /\ frame.ip \in 1..Len(CodeOf(p, frame)) + 1
Framed(p, cs) == IsSequence(cs) /\ \A d \in 1..Len(cs) : IsFrame(p, cs[d])

\* Every entry belongs to an open try statement and each of these has an entry;
\* entries of outer frames and outer statements come first.
Belongs(p, cs, e) ==
  \E d \in 1..Len(cs) : \E i \in Open(p, cs[d]) : e = EntryOf(p, cs[d], d, i)
Sound(p, cs, ts)    == \A k \in 1..Len(ts) : Belongs(p, cs, ts[k])
Among(ts, e)        == \E k \in 1..Len(ts) : ts[k] = e
Present(p, cs, ts) ==
  \A d \in 1..Len(cs) : \A i \in Open(p, cs[d]) : Among(ts, EntryOf(p, cs[d], d, i))
Outside(a, b) == a.depth < b.depth \/ (a.depth = b.depth /\ a.target > b.target)
Ordered(ts)   == \A j, k \in 1..Len(ts) : j < k => Outside(ts[j], ts[k])
Lexical(p, cs, ts) ==
  IsSequence(ts) /\ Sound(p, cs, ts) /\ Present(p, cs, ts) /\ Ordered(ts)

Runs(p, cs, ts) == cs # << >> /\ Framed(p, cs) /\ Lexical(p, cs, ts)
IInv ==
  /\ engine \in {"vm", "jit"} /\ pid \in 1..Len(Code)
  /\ engine = "vm" /\ pid \in ContainedPrograms /\ status = "running" =>
       Runs(pid, callStack, tryStack)

-----------------------------------------------------------------------------
(* Bytecode.                                                                *)

End(code, i) == code[i].target - 2
InBody(code, i, k) == i + 1 <= k /\ k <= End(code, i)

LEMMA TryIs ==
  ASSUME NEW code, IsCode(code), WellNested(code), NEW i \in Tries(code)
  PROVE  /\ i \in Nat /\ i \in 1..Len(code) /\ code[i].target \in 1..Len(code) + 1
         /\ End(code, i) \in 1..Len(code) /\ i < End(code, i) /\ End(code, i) + 1 \in 1..Len(code)
         /\ code[End(code, i)].op = "LEAVE_TRY" /\ code[End(code, i) + 1].op = "JMP"
         /\ code[i].op = "ENTER_TRY"
<1>1. /\ i \in 1..Len(code) /\ code[i].op = "ENTER_TRY" /\ Len(code) \in Nat
      /\ code[i].target \in 1..Len(code) + 1
  BY DEF Tries, IsCode, Targeted
<1>2. /\ i < End(code, i) /\ code[End(code, i)].op = "LEAVE_TRY"
      /\ code[End(code, i) + 1].op = "JMP"
  BY <1>1 DEF WellNested, End
<1>3. i \in Nat /\ 1 <= i /\ code[i].target \in Int /\ code[i].target <= Len(code) + 1
  BY <1>1
<1>4. End(code, i) = code[i].target - 2
  BY DEF End
<1>5. End(code, i) \in 1..Len(code) /\ End(code, i) + 1 \in 1..Len(code)
  BY <1>1, <1>2, <1>3, <1>4
<1> QED BY <1>1, <1>2, <1>3, <1>5

\* The body of a try statement in another one ends, with its handler, in that.
LEMMA Nested ==
  ASSUME NEW code, IsCode(code), WellNested(code), NEW i \in Tries(code), NEW j \in Tries(code),
         InBody(code, i, j)
  PROVE  code[j].target <= End(code, i)
<1>1. /\ i \in 1..Len(code) /\ j \in 1..Len(code) /\ Len(code) \in Nat
      /\ code[i].target \in Int /\ End(code, i) \in Int
  BY TryIs DEF IsCode
<1>2. j \in i + 1..(code[i].target - 2)
  BY <1>1 DEF InBody, End
<1>3. code[j].target \in i + 1..(code[i].target - 2)
  <2>1. /\ i \in {k \in 1..Len(code) : code[k].op = "ENTER_TRY"}
        /\ j \in {k \in 1..Len(code) : code[k].op = "ENTER_TRY"}
    BY DEF Tries
  <2> QED BY <1>2, <2>1 DEF WellNested
<1> QED BY <1>1, <1>3 DEF End

LEMMA OpenIs ==
  ASSUME NEW code, IsCode(code), WellNested(code), NEW ip \in Int
  PROVE  /\ OpenTries(code, ip) = {i \in Tries(code) : InBody(code, i, ip)}
         /\ OpenTries(code, ip) \subseteq Tries(code)
<1>1. \A i \in Tries(code) : i \in Nat /\ End(code, i) \in Nat
  BY TryIs DEF IsCode
<1>2. \A i \in 1..Len(code) : i < ip <=> i + 1 <= ip
  BY DEF IsCode
<1> QED BY <1>1, <1>2 DEF OpenTries, Tries, InBody, End

\* Two try statements with the same handler are one.
LEMMA OneHandler ==
  ASSUME NEW code, IsCode(code), WellNested(code), NEW i \in Tries(code), NEW j \in Tries(code),
         code[i].target = code[j].target
  PROVE  i = j
<1>1. /\ i \in Nat /\ j \in Nat /\ End(code, i) \in Nat /\ End(code, j) \in Nat
      /\ i < End(code, i) /\ j < End(code, j) /\ End(code, i) = End(code, j)
      /\ code[i].target \in Int /\ End(code, i) = code[i].target - 2
  BY TryIs DEF End, IsCode
<1>2. ASSUME i < j PROVE FALSE
  <2>1. InBody(code, i, j)
    BY <1>1, <1>2 DEF InBody
  <2>2. code[j].target <= End(code, i)
    BY <2>1, Nested
  <2> QED BY <1>1, <2>2
<1>3. ASSUME j < i PROVE FALSE
  <2>1. InBody(code, j, i)
    BY <1>1, <1>3 DEF InBody
  <2>2. code[i].target <= End(code, j)
    BY <2>1, Nested
  <2> QED BY <1>1, <2>2
<1> QED BY <1>1, <1>2, <1>3

\* An instruction that is neither ENTER_TRY nor LEAVE_TRY.
LEMMA PlainStep ==
  ASSUME NEW code, IsCode(code), WellNested(code), NEW k \in 1..Len(code),
         code[k].op \notin {"ENTER_TRY", "LEAVE_TRY"}
  PROVE  OpenTries(code, k + 1) = OpenTries(code, k)
<1>1. k \in Int /\ k + 1 \in Int
  OBVIOUS
<1>2. ASSUME NEW i \in Tries(code) PROVE InBody(code, i, k + 1) <=> InBody(code, i, k)
  <2>1. /\ i \in Nat /\ End(code, i) \in Nat /\ code[End(code, i)].op = "LEAVE_TRY"
        /\ code[i].op = "ENTER_TRY"
    BY TryIs
  <2>2. k # End(code, i) /\ k # i
    BY <2>1
  <2> QED BY <1>1, <2>1, <2>2 DEF InBody
<1> QED BY <1>1, <1>2, OpenIs

\* A jump that is taken.
LEMMA JumpStep ==
  ASSUME NEW code, IsCode(code), Contained(code), NEW k \in 1..Len(code), code[k].op \in Jumps
  PROVE  /\ code[k].target \in 1..Len(code) + 1
         /\ OpenTries(code, code[k].target) = OpenTries(code, k)
<1>0. WellNested(code)
  BY DEF Contained
<1>1. k \in Int /\ code[k].target \in 1..Len(code) + 1 /\ code[k].target \in Int
  BY DEF IsCode, Targeted, Jumps
<1>2. ASSUME NEW i \in Tries(code) PROVE InBody(code, i, code[k].target) <=> InBody(code, i, k)
  <2>1. i \in Nat /\ End(code, i) \in Nat
    BY <1>0, TryIs DEF IsCode
  <2>2. k \in i + 1..(code[i].target - 2) <=> code[k].target \in i + 1..(code[i].target - 2)
    BY DEF Contained
  <2> QED BY <1>1, <2>1, <2>2 DEF InBody, End
<1> QED BY <1>0, <1>1, <1>2, OpenIs

\* The first instruction, the end and a RETURN are in no body.
LEMMA InNoBody ==
  ASSUME NEW code, IsCode(code), WellNested(code)
  PROVE  OpenTries(code, 1) = {} /\ OpenTries(code, Len(code) + 1) = {}
<1>1. Len(code) \in Nat /\ \A i \in Tries(code) : i \in 1..Len(code) /\ End(code, i) \in 1..Len(code)
  BY TryIs DEF IsCode
<1>2. \A i \in Tries(code) : ~InBody(code, i, 1) /\ ~InBody(code, i, Len(code) + 1)
  BY <1>1 DEF InBody
<1> QED BY <1>1, <1>2, OpenIs

LEMMA ReturnInNoBody ==
  ASSUME NEW code, IsCode(code), Contained(code), NEW k \in 1..Len(code), code[k].op = "RETURN"
  PROVE  OpenTries(code, k) = {}
<1>1. WellNested(code)
  BY DEF Contained
<1>2. Len(code) \in Nat /\ \A i \in Tries(code) : i \in 1..Len(code) /\ End(code, i) \in 1..Len(code)
  BY <1>1, TryIs DEF IsCode
<1>3. ASSUME NEW i \in Tries(code) PROVE ~InBody(code, i, k)
  <2>1. k \notin i + 1..(code[i].target - 2)
    BY DEF Contained
  <2> QED BY <1>2, <2>1 DEF InBody, End
<1> QED BY <1>1, <1>2, <1>3, OpenIs

\* A body that begins is the innermost one.
LEMMA EnterStep ==
  ASSUME NEW code, IsCode(code), WellNested(code), NEW k \in 1..Len(code), code[k].op = "ENTER_TRY"
  PROVE  /\ OpenTries(code, k + 1) = OpenTries(code, k) \cup {k}
         /\ \A j \in OpenTries(code, k) : code[j].target > code[k].target
<1>1. k \in Tries(code) /\ k \in Int /\ k + 1 \in Int
  BY DEF Tries
<1>2. ASSUME NEW i \in Tries(code) PROVE InBody(code, i, k + 1) <=> (InBody(code, i, k) \/ i = k)
  <2>1. /\ i \in Nat /\ End(code, i) \in Nat /\ code[End(code, i)].op = "LEAVE_TRY"
        /\ i < End(code, i)
    BY TryIs
  <2>2. k # End(code, i)
    BY <2>1
  <2> QED BY <1>1, <2>1, <2>2 DEF InBody
<1>3. OpenTries(code, k + 1) = OpenTries(code, k) \cup {k}
  <2>1. /\ OpenTries(code, k) = {i \in Tries(code) : InBody(code, i, k)}
        /\ OpenTries(code, k + 1) = {i \in Tries(code) : InBody(code, i, k + 1)}
    BY <1>1, OpenIs
  <2> QED BY <1>1, <1>2, <2>1
<1>4. ASSUME NEW j \in OpenTries(code, k) PROVE code[j].target > code[k].target
  <2>1. j \in Tries(code) /\ InBody(code, j, k)
    BY <1>1, OpenIs
  <2>2. code[k].target <= End(code, j)
    BY <1>1, <2>1, Nested
  <2>3. code[j].target \in 1..Len(code) + 1 /\ code[k].target \in 1..Len(code) + 1
    BY <1>1, <2>1, TryIs
  <2>4. code[j].target \in Int /\ code[k].target \in Int
    BY <2>3 DEF IsCode
  <2> QED BY <2>2, <2>4 DEF End
<1> QED BY <1>3, <1>4

\* LEAVE_TRY ends the innermost body.
LEMMA LeaveStep ==
  ASSUME NEW code, IsCode(code), WellNested(code), NEW k \in 1..Len(code), code[k].op = "LEAVE_TRY"
  PROVE  \E e \in OpenTries(code, k) : /\ IsInnermost(code, k, e)
                                       /\ OpenTries(code, k + 1) = OpenTries(code, k) \ {e}
<1>1. PICK e \in Tries(code) : k = End(code, e)
  BY DEF WellNested, Tries, End
<1>2. \A i \in Tries(code) : /\ i \in Nat /\ End(code, i) \in Nat /\ i < End(code, i)
                             /\ code[i].target \in Int /\ End(code, i) = code[i].target - 2
                             /\ code[i].op = "ENTER_TRY"
  BY TryIs DEF IsCode, End
<1>3. k \in Int /\ k + 1 \in Int
  OBVIOUS
<1>4. InBody(code, e, k) /\ e \in OpenTries(code, k)
  BY <1>1, <1>2, <1>3, OpenIs DEF InBody
<1>5. ASSUME NEW j \in OpenTries(code, k) PROVE code[j].target >= code[e].target
  <2>1. j \in Tries(code) /\ InBody(code, j, k)
    BY <1>3, OpenIs
  <2> QED BY <1>1, <1>2, <2>1 DEF InBody
<1>6. ASSUME NEW i \in Tries(code) PROVE InBody(code, i, k + 1) <=> (InBody(code, i, k) /\ i # e)
  <2>1. End(code, i) = k => i = e
    BY <1>1, <1>2, OneHandler
  <2>2. i # k
    BY <1>2
  <2> QED BY <1>1, <1>2, <1>3, <2>1, <2>2 DEF InBody
<1>7. OpenTries(code, k + 1) = OpenTries(code, k) \ {e}
  BY <1>3, <1>6, OpenIs
<1> QED BY <1>4, <1>5, <1>7 DEF IsInnermost

\* The handler of the innermost body is outside of it, and in all the others.
LEMMA HandlerStep ==
  ASSUME NEW code, IsCode(code), WellNested(code), NEW ip \in Int, NEW i,
         IsInnermost(code, ip, i)
  PROVE  /\ code[i].target \in 1..Len(code) + 1
         /\ OpenTries(code, code[i].target) = OpenTries(code, ip) \ {i}
<1>1. \A j \in Tries(code) :
        /\ j \in Nat /\ End(code, j) \in Nat /\ j < End(code, j) /\ code[j].op = "ENTER_TRY"
        /\ code[j].target \in Int /\ End(code, j) = code[j].target - 2
        /\ code[End(code, j)].op = "LEAVE_TRY" /\ code[End(code, j) + 1].op = "JMP"
        /\ code[j].target \in 1..Len(code) + 1
  <2> SUFFICES ASSUME NEW j \in Tries(code)
               PROVE  /\ j \in Nat /\ End(code, j) \in Nat /\ j < End(code, j)
                      /\ code[j].op = "ENTER_TRY" /\ code[j].target \in Int
                      /\ End(code, j) = code[j].target - 2
                      /\ code[End(code, j)].op = "LEAVE_TRY"
                      /\ code[End(code, j) + 1].op = "JMP"
                      /\ code[j].target \in 1..Len(code) + 1
    OBVIOUS
  <2>1. /\ j \in Nat /\ End(code, j) \in 1..Len(code) /\ j < End(code, j)
        /\ code[j].op = "ENTER_TRY" /\ code[j].target \in 1..Len(code) + 1
        /\ code[End(code, j)].op = "LEAVE_TRY" /\ code[End(code, j) + 1].op = "JMP"
    BY TryIs
  <2>2. Len(code) \in Nat
    BY DEF IsCode
  <2>3. End(code, j) = code[j].target - 2
    BY DEF End
  <2> QED BY <2>1, <2>2, <2>3
<1>2. i \in Tries(code) /\ InBody(code, i, ip)
  BY OpenIs DEF IsInnermost
<1>3. ASSUME NEW j \in Tries(code), InBody(code, j, code[i].target)
      PROVE  InBody(code, j, ip) /\ j # i
  <2>1. j + 1 <= code[i].target /\ code[i].target <= End(code, j)
    BY <1>3 DEF InBody
  <2>2. /\ j \in Nat /\ End(code, j) \in Nat /\ code[j].op = "ENTER_TRY"
        /\ code[j].target \in Int /\ End(code, j) = code[j].target - 2
    BY <1>1, <1>3
  <2>3. /\ i \in Nat /\ End(code, i) \in Nat /\ code[i].target \in Int
        /\ End(code, i) = code[i].target - 2 /\ i < End(code, i)
        /\ code[End(code, i)].op = "LEAVE_TRY" /\ code[End(code, i) + 1].op = "JMP"
    BY <1>1, <1>2
  <2>4. i + 1 <= ip /\ ip <= End(code, i)
    BY <1>2 DEF InBody
  <2>5. j # i
    BY <2>1, <2>2, <2>3
  <2>6. ~(i < j)
    <3> SUFFICES ASSUME i < j PROVE FALSE
      OBVIOUS
    <3>1. j # End(code, i) /\ j # End(code, i) + 1
      BY <2>2, <2>3
    <3>2. i + 1 <= j /\ j <= End(code, i)
      BY <2>1, <2>2, <2>3, <3>1
    <3>3. code[j].target <= End(code, i)
      BY <1>2, <3>2, Nested DEF InBody
    <3> QED BY <2>1, <2>2, <2>3, <3>3
  <2>7. j + 1 <= ip /\ ip <= End(code, j)
    BY <2>1, <2>2, <2>3, <2>4, <2>5, <2>6
  <2> QED BY <2>5, <2>7 DEF InBody
<1>4. ASSUME NEW j \in Tries(code), InBody(code, j, ip), j # i
      PROVE  InBody(code, j, code[i].target)
  <2>1. code[j].target >= code[i].target
    BY <1>4, OpenIs DEF IsInnermost
  <2>2. code[j].target # code[i].target
    BY <1>2, <1>4, OneHandler
  <2>3. End(code, j) > End(code, i)
    <3>1. /\ End(code, i) = code[i].target - 2 /\ code[i].target \in Int
          /\ End(code, j) = code[j].target - 2 /\ code[j].target \in Int
      BY <1>1, <1>2
    <3> QED BY <3>1, <2>1, <2>2
  <2>4. j < i
    <3> SUFFICES ASSUME i < j PROVE FALSE
      BY <1>1, <1>2, <1>4
    <3>1. InBody(code, i, j)
      BY <1>1, <1>2, <1>4 DEF InBody
    <3>2. code[j].target <= End(code, i)
      BY <1>2, <3>1, Nested
    <3> QED BY <1>1, <1>2, <2>3, <3>2
  <2>5. InBody(code, j, i)
    BY <1>1, <1>2, <2>3, <2>4 DEF InBody
  <2>6. code[i].target <= End(code, j)
    BY <1>2, <2>5, Nested
  <2> QED BY <1>1, <1>2, <2>4, <2>6 DEF InBody
<1>5. code[i].target \in Int /\ code[i].target \in 1..Len(code) + 1
  BY <1>1, <1>2
<1> QED BY <1>2, <1>3, <1>4, <1>5, OpenIs

-----------------------------------------------------------------------------
(* Sequences.                                                               *)

LEMMA SequenceIs ==
  ASSUME NEW s, IsSequence(s)
  PROVE  Len(s) \in Nat /\ DOMAIN s = 1..Len(s) /\ (s # << >> <=> Len(s) > 0)
BY DEF IsSequence

LEMMA SeqIsSequence ==
  ASSUME NEW S, NEW s \in Seq(S)
  PROVE  IsSequence(s)
<1>1. Len(s) \in Nat /\ DOMAIN s = 1..Len(s) /\ \A k \in 1..Len(s) : s[k] \in {s[j] : j \in DOMAIN s}
  OBVIOUS
<1> QED BY <1>1 DEF IsSequence

LEMMA AppendIs ==
  ASSUME NEW s, IsSequence(s), NEW x
  PROVE  /\ IsSequence(Append(s, x)) /\ Len(Append(s, x)) = Len(s) + 1
         /\ \A k \in 1..Len(s) : Append(s, x)[k] = s[k]
         /\ Append(s, x)[Len(s) + 1] = x
<1> DEFINE S == {s[k] : k \in DOMAIN s} \cup {x}
           t == Append(s, x)
<1>1. s \in Seq(S) /\ x \in S
  BY DEF IsSequence
<1>2. /\ t \in Seq(S) /\ Len(t) = Len(s) + 1 /\ \A k \in 1..Len(s) : t[k] = s[k]
      /\ t[Len(s) + 1] = x
  BY <1>1
<1> HIDE DEF S, t
<1>3. IsSequence(t)
  BY <1>2, SeqIsSequence
<1> QED BY <1>2, <1>3 DEF t

LEMMA PrefixIs ==
  ASSUME NEW s, IsSequence(s), NEW n \in Nat, n <= Len(s)
  PROVE  /\ IsSequence(SubSeq(s, 1, n)) /\ Len(SubSeq(s, 1, n)) = n
         /\ \A k \in 1..n : SubSeq(s, 1, n)[k] = s[k]
<1> DEFINE S == {s[k] : k \in DOMAIN s}
           t == SubSeq(s, 1, n)
<1>1. s \in Seq(S)
  BY DEF IsSequence
<1>2. t \in Seq(S) /\ Len(t) = n /\ \A k \in 1..n : t[k] = s[k]
  BY <1>1
<1> HIDE DEF S, t
<1>3. IsSequence(t)
  BY <1>2, SeqIsSequence
<1> QED BY <1>2, <1>3 DEF t

LEMMA ExceptIs ==
  ASSUME NEW s, IsSequence(s), NEW n \in 1..Len(s), NEW x
  PROVE  /\ IsSequence([s EXCEPT ![n] = x]) /\ Len([s EXCEPT ![n] = x]) = Len(s)
         /\ [s EXCEPT ![n] = x][n] = x
         /\ \A k \in 1..Len(s) : k # n => [s EXCEPT ![n] = x][k] = s[k]
<1> DEFINE S == {s[k] : k \in DOMAIN s} \cup {x}
           t == [s EXCEPT ![n] = x]
<1>1. s \in Seq(S) /\ x \in S /\ Len(s) \in Nat /\ DOMAIN s = 1..Len(s)
  BY DEF IsSequence
<1>2. /\ t \in Seq(S) /\ Len(t) = Len(s) /\ t[n] = x
      /\ \A k \in 1..Len(s) : k # n => t[k] = s[k]
  BY <1>1
<1> HIDE DEF S, t
<1>3. IsSequence(t)
  BY <1>2, SeqIsSequence
<1> QED BY <1>2, <1>3 DEF t

-----------------------------------------------------------------------------
(* Frames and entries.                                                      *)

ProgramOk(p) == p \in 1..Len(Code) /\ p \in ContainedPrograms

LEMMA FrameCode ==
  ASSUME NEW p, ProgramOk(p), NEW frame, IsFrame(p, frame)
  PROVE  /\ IsCode(CodeOf(p, frame)) /\ Contained(CodeOf(p, frame)) /\ WellNested(CodeOf(p, frame))
         /\ frame.ip \in 1..Len(CodeOf(p, frame)) + 1 /\ frame.ip \in Int
         /\ Open(p, frame) \subseteq Tries(CodeOf(p, frame))
         /\ \A i \in Open(p, frame) : CodeOf(p, frame)[i].target \in Int
<1>1. IsCode(CodeOf(p, frame)) /\ Contained(CodeOf(p, frame)) /\ WellNested(CodeOf(p, frame))
  BY CodeAssumption DEF ProgramOk, IsFrame, CodeOf, ContainedPrograms, ContainedOf, Contained
<1>2. frame.ip \in 1..Len(CodeOf(p, frame)) + 1 /\ frame.ip \in Int
  BY <1>1 DEF IsFrame, IsCode
<1>3. Open(p, frame) \subseteq Tries(CodeOf(p, frame))
  BY <1>1, <1>2, OpenIs DEF Open
<1>4. ASSUME NEW i \in Open(p, frame) PROVE CodeOf(p, frame)[i].target \in Int
  <2>1. CodeOf(p, frame)[i].target \in 1..Len(CodeOf(p, frame)) + 1
    BY <1>1, <1>3, TryIs
  <2> QED BY <1>1, <2>1 DEF IsCode
<1> QED BY <1>1, <1>2, <1>3, <1>4

\* Two frames that are inside the same try statements.
Alike(p, a, b) == a.fn = b.fn /\ Open(p, a) = Open(p, b)

\* The frames that both stacks have are alike, the others are in no try.
Matches(p, cs, cs2) ==
  /\ \A d \in 1..Len(cs) : IF d <= Len(cs2) THEN Alike(p, cs[d], cs2[d]) ELSE Open(p, cs[d]) = {}
  /\ \A d \in 1..Len(cs2) : d <= Len(cs) \/ Open(p, cs2[d]) = {}

LEMMA AlikeEntries ==
  ASSUME NEW p, NEW a, NEW b, Alike(p, a, b), NEW d, NEW i
  PROVE  EntryOf(p, a, d, i) = EntryOf(p, b, d, i)
BY DEF Alike, EntryOf, CodeOf

\* Frames move within their try bodies, are called and return.
LEMMA FramesMove ==
  ASSUME NEW p, NEW cs, NEW cs2, NEW ts, Len(cs) \in Nat, Len(cs2) \in Nat,
         Lexical(p, cs, ts), Matches(p, cs, cs2)
  PROVE  Lexical(p, cs2, ts)
<1>1. ASSUME NEW k \in 1..Len(ts) PROVE Belongs(p, cs2, ts[k])
  <2>0. PICK d \in 1..Len(cs) : \E i \in Open(p, cs[d]) : ts[k] = EntryOf(p, cs[d], d, i)
    BY DEF Lexical, Sound, Belongs
  <2>1. PICK i \in Open(p, cs[d]) : ts[k] = EntryOf(p, cs[d], d, i)
    BY <2>0
  <2>2. d <= Len(cs2) /\ Alike(p, cs[d], cs2[d])
    BY <2>1 DEF Matches
  <2>3. d \in 1..Len(cs2) /\ i \in Open(p, cs2[d]) /\ ts[k] = EntryOf(p, cs2[d], d, i)
    BY <2>1, <2>2, AlikeEntries DEF Alike
  <2> QED BY <2>3 DEF Belongs
<1>2. ASSUME NEW d \in 1..Len(cs2), NEW i \in Open(p, cs2[d])
      PROVE  Among(ts, EntryOf(p, cs2[d], d, i))
  <2>1. d \in 1..Len(cs) /\ Alike(p, cs[d], cs2[d])
    BY <1>2 DEF Matches
  <2>2. i \in Open(p, cs[d]) /\ EntryOf(p, cs[d], d, i) = EntryOf(p, cs2[d], d, i)
    BY <2>1, AlikeEntries DEF Alike
  <2>3. Among(ts, EntryOf(p, cs[d], d, i))
    BY <2>1, <2>2 DEF Lexical, Present
  <2> QED BY <2>2, <2>3
<1> QED BY <1>1, <1>2 DEF Lexical, Sound, Present

\* The frame on top enters the try body at i.
LEMMA EntryPushed ==
  ASSUME NEW p, ProgramOk(p), NEW cs, NEW cs2, NEW ts, NEW i, NEW n \in Nat \ {0},
         Framed(p, cs), Lexical(p, cs, ts), Len(cs) = n, Len(cs2) = n,
         \A d \in 1..n - 1 : Alike(p, cs[d], cs2[d]),
         cs2[n].fn = cs[n].fn, Open(p, cs2[n]) = Open(p, cs[n]) \cup {i},
         \A j \in Open(p, cs[n]) : CodeOf(p, cs[n])[j].target > CodeOf(p, cs[n])[i].target
  PROVE  Lexical(p, cs2, Append(ts, EntryOf(p, cs[n], n, i)))
<1> DEFINE e  == EntryOf(p, cs[n], n, i)
           t2 == Append(ts, e)
<1>1. /\ IsSequence(ts) /\ Len(ts) \in Nat /\ IsSequence(t2) /\ Len(t2) = Len(ts) + 1
      /\ \A k \in 1..Len(ts) : t2[k] = ts[k]
      /\ t2[Len(ts) + 1] = e
  BY SequenceIs, AppendIs DEF Lexical
<1>2. \A d \in 1..n : \A j : EntryOf(p, cs2[d], d, j) = EntryOf(p, cs[d], d, j)
  <2>1. \A j : EntryOf(p, cs2[n], n, j) = EntryOf(p, cs[n], n, j)
    BY DEF EntryOf, CodeOf
  <2>2. \A d \in 1..n - 1 : \A j : EntryOf(p, cs2[d], d, j) = EntryOf(p, cs[d], d, j)
    BY AlikeEntries
  <2> QED BY <2>1, <2>2
<1>3. \A d \in 1..n : Open(p, cs[d]) \subseteq Open(p, cs2[d])
  BY DEF Alike
<1> HIDE DEF e, t2
<1>4. ASSUME NEW k \in 1..Len(t2) PROVE Belongs(p, cs2, t2[k])
  <2>1. CASE k \in 1..Len(ts)
    <3>0. PICK d \in 1..n : \E j \in Open(p, cs[d]) : ts[k] = EntryOf(p, cs[d], d, j)
      BY <2>1 DEF Lexical, Sound, Belongs
    <3>1. PICK j \in Open(p, cs[d]) : ts[k] = EntryOf(p, cs[d], d, j)
      BY <3>0
    <3>2. j \in Open(p, cs2[d]) /\ t2[k] = EntryOf(p, cs2[d], d, j)
      BY <1>1, <1>2, <1>3, <2>1, <3>1
    <3> QED BY <3>2 DEF Belongs
  <2>2. CASE k = Len(ts) + 1
    <3>1. n \in 1..n /\ i \in Open(p, cs2[n]) /\ t2[k] = EntryOf(p, cs2[n], n, i)
      BY <1>1, <1>2, <2>2 DEF e
    <3> QED BY <3>1 DEF Belongs
  <2> QED BY <1>1, <2>1, <2>2
<1>5. ASSUME NEW d \in 1..n, NEW j \in Open(p, cs2[d])
      PROVE  Among(t2, EntryOf(p, cs2[d], d, j))
  <2>1. CASE j \in Open(p, cs[d])
    <3>1. PICK k \in 1..Len(ts) : ts[k] = EntryOf(p, cs[d], d, j)
      BY <2>1 DEF Lexical, Present, Among
    <3>2. k \in 1..Len(t2) /\ t2[k] = EntryOf(p, cs2[d], d, j)
      BY <1>1, <1>2, <3>1
    <3> QED BY <3>2 DEF Among
  <2>2. CASE d = n /\ j = i
    <3>1. Len(ts) + 1 \in 1..Len(t2) /\ t2[Len(ts) + 1] = EntryOf(p, cs2[d], d, j)
      BY <1>1, <1>2, <2>2 DEF e
    <3> QED BY <3>1 DEF Among
  <2>3. j \in Open(p, cs[d]) \/ (d = n /\ j = i)
    <3>1. CASE d = n
      BY <3>1, <1>5
    <3>2. CASE d # n
      <4>1. d \in 1..n - 1
        BY <3>2
      <4> QED BY <4>1, <1>5 DEF Alike
    <3> QED BY <3>1, <3>2
  <2> QED BY <2>1, <2>2, <2>3
<1>6. ASSUME NEW k \in 1..Len(ts) PROVE Outside(ts[k], e)
  <2>0. PICK d \in 1..n : \E j \in Open(p, cs[d]) : ts[k] = EntryOf(p, cs[d], d, j)
    BY DEF Lexical, Sound, Belongs
  <2>1. PICK j \in Open(p, cs[d]) : ts[k] = EntryOf(p, cs[d], d, j)
    BY <2>0
  <2>2. ts[k].depth = d /\ ts[k].target = CodeOf(p, cs[d])[j].target
    BY <2>1 DEF EntryOf
  <2>3. e.depth = n /\ e.target = CodeOf(p, cs[n])[i].target
    BY DEF e, EntryOf
  <2>4. CASE d = n
    BY <2>1, <2>2, <2>3, <2>4 DEF Outside
  <2>5. CASE d # n
    BY <2>1, <2>2, <2>3, <2>5 DEF Outside
  <2> QED BY <2>4, <2>5
<1>7. Ordered(t2)
  <2> SUFFICES ASSUME NEW j \in 1..Len(t2), NEW k \in 1..Len(t2), j < k
               PROVE  Outside(t2[j], t2[k])
    BY DEF Ordered
  <2>1. j \in 1..Len(ts) /\ (k \in 1..Len(ts) \/ k = Len(ts) + 1)
    BY <1>1
  <2>2. CASE k \in 1..Len(ts)
    BY <1>1, <2>1, <2>2 DEF Lexical, Ordered
  <2>3. CASE k = Len(ts) + 1
    BY <1>1, <1>6, <2>1, <2>3
  <2> QED BY <2>1, <2>2, <2>3
<1>8. Lexical(p, cs2, t2)
  BY <1>1, <1>4, <1>5, <1>7 DEF Lexical, Sound, Present
<1> QED BY <1>8 DEF e, t2

\* The entry on top is that of the innermost try statement of the innermost
\* frame that is in one.
OnTop(p, cs, ts, d, i) ==
  /\ d \in 1..Len(cs) /\ IsInnermost(CodeOf(p, cs[d]), cs[d].ip, i)
  /\ ts[Len(ts)] = EntryOf(p, cs[d], d, i)
  /\ \A c \in d + 1..Len(cs) : Open(p, cs[c]) = {}

LEMMA LastEntry ==
  ASSUME NEW p, ProgramOk(p), NEW cs, NEW ts, Framed(p, cs), Lexical(p, cs, ts), ts # << >>
  PROVE  \E d, i : OnTop(p, cs, ts, d, i)
<1> DEFINE l == Len(ts)
<1>1. l \in 1..Len(ts) /\ Len(ts) \in Nat /\ Len(cs) \in Nat
  BY SequenceIs DEF Lexical, Framed
<1>2. PICK d \in 1..Len(cs) : \E i \in Open(p, cs[d]) : ts[l] = EntryOf(p, cs[d], d, i)
  BY <1>1 DEF Lexical, Sound, Belongs
<1>3. PICK i \in Open(p, cs[d]) : ts[l] = EntryOf(p, cs[d], d, i)
  BY <1>2
<1> HIDE DEF l
<1>4. ts[l].depth = d /\ ts[l].target = CodeOf(p, cs[d])[i].target
  BY <1>3 DEF EntryOf
<1>5. ASSUME NEW c \in 1..Len(cs), NEW j \in Open(p, cs[c])
      PROVE  c < d \/ (c = d /\ CodeOf(p, cs[c])[j].target >= CodeOf(p, cs[d])[i].target)
  <2>1. PICK k \in 1..Len(ts) : ts[k] = EntryOf(p, cs[c], c, j)
    BY DEF Lexical, Present, Among
  <2>2. ts[k].depth = c /\ ts[k].target = CodeOf(p, cs[c])[j].target
    BY <2>1 DEF EntryOf
  <2>3. CodeOf(p, cs[c])[j].target \in Int /\ CodeOf(p, cs[d])[i].target \in Int
    BY FrameCode DEF Framed
  <2>4. CASE k = l
    BY <1>4, <2>2, <2>3, <2>4
  <2>5. CASE k < l
    <3>1. Outside(ts[k], ts[l])
      BY <1>1, <2>5 DEF Lexical, Ordered
    <3> QED BY <1>4, <2>2, <2>3, <3>1 DEF Outside
  <2>6. k = l \/ k < l
    BY <1>1 DEF l
  <2> QED BY <2>4, <2>5, <2>6
<1>6. IsInnermost(CodeOf(p, cs[d]), cs[d].ip, i)
  <2>1. \A j \in Open(p, cs[d]) : CodeOf(p, cs[d])[j].target >= CodeOf(p, cs[d])[i].target
    BY <1>5
  <2> QED BY <2>1 DEF IsInnermost, Open
<1>7. ASSUME NEW c \in d + 1..Len(cs) PROVE Open(p, cs[c]) = {}
  <2>1. c \in 1..Len(cs) /\ ~(c < d) /\ c # d
    BY <1>1
  <2> QED BY <2>1, <1>5
<1> QED BY <1>3, <1>6, <1>7 DEF OnTop, l

\* That entry goes, with the frames above, and its frame is outside of the body.
LEMMA EntryDropped ==
  ASSUME NEW p, ProgramOk(p), NEW cs, NEW cs2, NEW ts, Framed(p, cs), Lexical(p, cs, ts),
         ts # << >>, NEW d, NEW i, OnTop(p, cs, ts, d, i), Len(cs2) = d,
         \A c \in 1..d - 1 : Alike(p, cs[c], cs2[c]),
         cs2[d].fn = cs[d].fn, Open(p, cs2[d]) = Open(p, cs[d]) \ {i}
  PROVE  Lexical(p, cs2, Pop(ts))
<1> DEFINE t2 == Pop(ts)
           l  == Len(ts)
<1>1. l \in Nat \ {0} /\ Len(cs) \in Nat /\ d \in 1..Len(cs) /\ d \in Nat
  BY SequenceIs DEF Lexical, Framed, OnTop
<1>2. IsSequence(t2) /\ Len(t2) = l - 1 /\ \A k \in 1..l - 1 : t2[k] = ts[k]
  <2>1. l - 1 \in Nat /\ l - 1 <= Len(ts) /\ IsSequence(ts) /\ t2 = SubSeq(ts, 1, l - 1)
    BY <1>1 DEF Lexical, Pop
  <2> DEFINE n == l - 1
  <2> HIDE DEF t2, l, n
  <2>2. n \in Nat /\ n <= Len(ts) /\ t2 = SubSeq(ts, 1, n)
    BY <2>1 DEF n
  <2>3. IsSequence(t2) /\ Len(t2) = n /\ \A k \in 1..n : t2[k] = ts[k]
    BY <2>1, <2>2, PrefixIs
  <2> QED BY <2>3 DEF n
<1>3. \A c \in 1..d : \A j : EntryOf(p, cs2[c], c, j) = EntryOf(p, cs[c], c, j)
  <2>1. \A j : EntryOf(p, cs2[d], d, j) = EntryOf(p, cs[d], d, j)
    BY DEF EntryOf, CodeOf
  <2>2. \A c \in 1..d - 1 : \A j : EntryOf(p, cs2[c], c, j) = EntryOf(p, cs[c], c, j)
    BY AlikeEntries
  <2> QED BY <1>1, <2>1, <2>2
<1>4. \A c \in 1..d : Open(p, cs2[c]) = IF c = d THEN Open(p, cs[c]) \ {i} ELSE Open(p, cs[c])
  <2>1. \A c \in 1..d - 1 : Open(p, cs2[c]) = Open(p, cs[c])
    BY DEF Alike
  <2> QED BY <1>1, <2>1
<1>5. ts[l] = EntryOf(p, cs[d], d, i) /\ i \in Open(p, cs[d])
  BY DEF OnTop, IsInnermost, Open
<1> HIDE DEF t2, l
<1>6. ASSUME NEW k \in 1..l - 1 PROVE Belongs(p, cs2, ts[k])
  <2>1. k \in 1..Len(ts) /\ l \in 1..Len(ts) /\ k < l
    BY <1>1 DEF l
  <2>2. PICK c \in 1..Len(cs) : \E j \in Open(p, cs[c]) : ts[k] = EntryOf(p, cs[c], c, j)
    BY <2>1 DEF Lexical, Sound, Belongs
  <2>3. PICK j \in Open(p, cs[c]) : ts[k] = EntryOf(p, cs[c], c, j)
    BY <2>2
  <2>4. c \in 1..d
    <3>1. c \notin d + 1..Len(cs)
      BY <2>3 DEF OnTop
    <3> QED BY <1>1, <3>1
  <2>5. ~(c = d /\ j = i)
    <3> SUFFICES ASSUME c = d, j = i PROVE FALSE
      OBVIOUS
    <3>1. Outside(ts[k], ts[l])
      BY <2>1 DEF Lexical, Ordered
    <3>2. ts[k] = ts[l] /\ ts[l].depth = d /\ ts[l].target = CodeOf(p, cs[d])[i].target
      BY <1>5, <2>3 DEF EntryOf
    <3>3. CodeOf(p, cs[d])[i].target \in Int
      BY <1>1, <1>5, FrameCode DEF Framed
    <3> QED BY <1>1, <3>1, <3>2, <3>3 DEF Outside
  <2>6. j \in Open(p, cs2[c]) /\ ts[k] = EntryOf(p, cs2[c], c, j) /\ c \in 1..Len(cs2)
    BY <1>3, <1>4, <2>3, <2>4, <2>5
  <2> QED BY <2>6 DEF Belongs
<1>7. ASSUME NEW c \in 1..d, NEW j \in Open(p, cs2[c])
      PROVE  Among(t2, EntryOf(p, cs2[c], c, j))
  <2>1. j \in Open(p, cs[c]) /\ ~(c = d /\ j = i) /\ c \in 1..Len(cs)
    BY <1>1, <1>4, <1>7
  <2>2. PICK k \in 1..Len(ts) : ts[k] = EntryOf(p, cs[c], c, j)
    BY <2>1 DEF Lexical, Present, Among
  <2>3. k # l
    <3> SUFFICES ASSUME k = l PROVE FALSE
      OBVIOUS
    <3>1. c = d /\ CodeOf(p, cs[d])[j].target = CodeOf(p, cs[d])[i].target
      BY <1>5, <2>2 DEF EntryOf
    <3>2. j \in Tries(CodeOf(p, cs[d])) /\ i \in Tries(CodeOf(p, cs[d]))
      BY <1>1, <1>5, <2>1, <3>1, FrameCode DEF Framed
    <3>3. IsCode(CodeOf(p, cs[d])) /\ WellNested(CodeOf(p, cs[d]))
      BY <1>1, FrameCode DEF Framed
    <3> QED BY <2>1, <3>1, <3>2, <3>3, OneHandler
  <2>4. k \in 1..l - 1
    BY <1>1, <2>3 DEF l
  <2>5. k \in 1..Len(t2) /\ t2[k] = EntryOf(p, cs2[c], c, j)
    BY <1>2, <1>3, <2>2, <2>4
  <2> QED BY <2>5 DEF Among
<1>8. Sound(p, cs2, t2)
  BY <1>2, <1>6 DEF Sound
<1>9. Present(p, cs2, t2)
  BY <1>7 DEF Present
<1>10. Ordered(t2)
  <2>1. \A j, k \in 1..Len(ts) : j < k => Outside(ts[j], ts[k])
    BY DEF Lexical, Ordered
  <2>2. \A k \in 1..l - 1 : k \in 1..Len(ts)
    BY <1>1 DEF l
  <2> QED BY <1>2, <2>1, <2>2 DEF Ordered
<1> QED BY <1>2, <1>8, <1>9, <1>10 DEF Lexical, t2

\* The entries are counted by the open try statements.
AllEntries(p, cs) == UNION {{EntryOf(p, cs[d], d, i) : i \in Open(p, cs[d])} : d \in 1..Len(cs)}

LEMMA LexicalCounts ==
  ASSUME NEW p, ProgramOk(p), NEW cs, NEW ts, Framed(p, cs), Lexical(p, cs, ts)
  PROVE  /\ {ts[k] : k \in 1..Len(ts)} = AllEntries(p, cs)
         /\ Len(ts) = Cardinality(AllEntries(p, cs))
<1> DEFINE E == AllEntries(p, cs)
           f == [k \in 1..Len(ts) |-> ts[k]]
<1>1. \A e : Belongs(p, cs, e) => e \in E
  <2> SUFFICES ASSUME NEW e, Belongs(p, cs, e) PROVE e \in E
    OBVIOUS
  <2>1. PICK d \in 1..Len(cs) : \E i \in Open(p, cs[d]) : e = EntryOf(p, cs[d], d, i)
    BY DEF Belongs
  <2>2. e \in {EntryOf(p, cs[d], d, i) : i \in Open(p, cs[d])}
    BY <2>1
  <2> QED BY <2>2 DEF AllEntries
<1>2. \A k \in 1..Len(ts) : ts[k] \in E
  BY <1>1 DEF Lexical, Sound
<1>3. \A e \in E : \E k \in 1..Len(ts) : ts[k] = e
  <2> SUFFICES ASSUME NEW e \in E PROVE \E k \in 1..Len(ts) : ts[k] = e
    OBVIOUS
  <2>1. PICK d \in 1..Len(cs) : \E i \in Open(p, cs[d]) : e = EntryOf(p, cs[d], d, i)
    BY DEF AllEntries
  <2>2. PICK i \in Open(p, cs[d]) : e = EntryOf(p, cs[d], d, i)
    BY <2>1
  <2> QED BY <2>2 DEF Lexical, Present, Among
<1> HIDE DEF E
<1>4. ASSUME NEW j \in 1..Len(ts), NEW k \in 1..Len(ts), ts[j] = ts[k] PROVE j = k
  <2>1. ~Outside(ts[k], ts[k])
    <3>1. PICK d \in 1..Len(cs) : \E i \in Open(p, cs[d]) : ts[k] = EntryOf(p, cs[d], d, i)
      BY DEF Lexical, Sound, Belongs
    <3>2. PICK i \in Open(p, cs[d]) : ts[k] = EntryOf(p, cs[d], d, i)
      BY <3>1
    <3>3. CodeOf(p, cs[d])[i].target \in Int
      BY <3>2, FrameCode DEF Framed
    <3> QED BY <3>2, <3>3 DEF Outside, EntryOf
  <2>2. Len(ts) \in Nat
    BY SequenceIs DEF Lexical
  <2>3. ~(j < k) /\ ~(k < j)
    BY <1>4, <2>1 DEF Lexical, Ordered
  <2> QED BY <2>2, <2>3
<1>5. f \in Bijection(1..Len(ts), E)
  <2>1. f \in [1..Len(ts) -> E]
    BY <1>2
  <2>2. \A e \in E : \E k \in 1..Len(ts) : f[k] = e
    BY <1>3
  <2>3. \A j, k \in 1..Len(ts) : f[j] = f[k] => j = k
    BY <1>4
  <2> HIDE DEF f
  <2> QED BY <2>1, <2>2, <2>3 DEF Bijection, Injection, Surjection, IsInjective
<1>6. ExistsBijection(1..Len(ts), E)
  BY <1>5 DEF ExistsBijection
<1>7. Len(ts) \in Nat
  BY SequenceIs DEF Lexical
<1>8. Cardinality(E) = Len(ts)
  BY <1>6, <1>7, FS_CountingElements
<1>9. {ts[k] : k \in 1..Len(ts)} = E
  BY <1>2, <1>3
<1> QED BY <1>8, <1>9 DEF E

-----------------------------------------------------------------------------
(* The frame on top goes to another instruction.                            *)

Fields == {"fn", "ip", "slots", "dest"}

\* cs2 is cs but for the frame on top, which is at ip of the same function.
Moved(cs, cs2, ip) ==
  /\ IsSequence(cs2) /\ Len(cs2) = Len(cs)
  /\ \A d \in 1..Len(cs) : d # Len(cs) => cs2[d] = cs[d]
  /\ DOMAIN cs2[Len(cs)] = Fields
  /\ cs2[Len(cs)].fn = cs[Len(cs)].fn /\ cs2[Len(cs)].ip = ip

LEMMA FrameMoves ==
  ASSUME NEW cs, IsSequence(cs), cs # << >>, NEW frame, NEW ip, DOMAIN frame = Fields,
         frame.fn = cs[Len(cs)].fn, frame.ip = ip
  PROVE  Moved(cs, [cs EXCEPT ![Len(cs)] = frame], ip)
<1>1. Len(cs) \in 1..Len(cs)
  BY SequenceIs
<1> QED BY <1>1, ExceptIs DEF Moved

LEMMA GotoMoves ==
  ASSUME NEW cs, IsSequence(cs), cs # << >>, DOMAIN cs[Len(cs)] = Fields, NEW ip
  PROVE  Moved(cs, [cs EXCEPT ![Len(cs)].ip = ip], ip)
<1> DEFINE frame == [cs[Len(cs)] EXCEPT !.ip = ip]
<1>1. DOMAIN frame = Fields /\ frame.fn = cs[Len(cs)].fn /\ frame.ip = ip
  BY DEF Fields
<1>2. [cs EXCEPT ![Len(cs)].ip = ip] = [cs EXCEPT ![Len(cs)] = frame]
  OBVIOUS
<1> HIDE DEF frame
<1> QED BY <1>1, <1>2, FrameMoves

LEMMA SlotsMove ==
  ASSUME NEW cs, IsSequence(cs), cs # << >>, DOMAIN cs[Len(cs)] = Fields, NEW slots
  PROVE  Moved(cs, [cs EXCEPT ![Len(cs)].slots = slots], cs[Len(cs)].ip)
<1> DEFINE frame == [cs[Len(cs)] EXCEPT !.slots = slots]
<1>1. DOMAIN frame = Fields /\ frame.fn = cs[Len(cs)].fn /\ frame.ip = cs[Len(cs)].ip
  BY DEF Fields
<1>2. [cs EXCEPT ![Len(cs)].slots = slots] = [cs EXCEPT ![Len(cs)] = frame]
  OBVIOUS
<1> HIDE DEF frame
<1> QED BY <1>1, <1>2, FrameMoves

LEMMA MovedTwice ==
  ASSUME NEW cs, IsSequence(cs), cs # << >>, NEW cs2, NEW cs3, NEW ip,
         Moved(cs, cs2, ip), Moved(cs2, cs3, ip)
  PROVE  Moved(cs, cs3, ip)
BY SequenceIs DEF Moved

LEMMA MovedNotEmpty ==
  ASSUME NEW cs, IsSequence(cs), cs # << >>, NEW cs2, NEW ip, Moved(cs, cs2, ip)
  PROVE  cs2 # << >> /\ DOMAIN cs2[Len(cs2)] = Fields
BY SequenceIs DEF Moved

\* The frame on top goes to ip and gets new slots.
LEMMA GotoAndSlots ==
  ASSUME NEW cs, IsSequence(cs), cs # << >>, DOMAIN cs[Len(cs)] = Fields, NEW ip, NEW slots
  PROVE  Moved(cs, [cs EXCEPT ![Len(cs)].ip = ip, ![Len(cs)].slots = slots], ip)
<1> DEFINE cs2 == [cs EXCEPT ![Len(cs)].ip = ip]
<1>1. Moved(cs, cs2, ip)
  BY GotoMoves
<1>2. [cs EXCEPT ![Len(cs)].ip = ip, ![Len(cs)].slots = slots]
        = [cs2 EXCEPT ![Len(cs)].slots = slots]
  OBVIOUS
<1> HIDE DEF cs2
<1>3. /\ IsSequence(cs2) /\ cs2 # << >> /\ DOMAIN cs2[Len(cs2)] = Fields
      /\ Len(cs2) = Len(cs) /\ cs2[Len(cs2)].ip = ip
  BY <1>1, MovedNotEmpty DEF Moved
<1>4. Moved(cs2, [cs2 EXCEPT ![Len(cs2)].slots = slots], ip)
  BY <1>3, SlotsMove
<1>5. Moved(cs2, [cs2 EXCEPT ![Len(cs)].slots = slots], ip)
  BY <1>3, <1>4
<1> QED BY <1>1, <1>2, <1>5, MovedTwice

\* What is known of a stack that runs.
LEMMA RunsFrames ==
  ASSUME NEW p, NEW cs, NEW ts, ProgramOk(p), Runs(p, cs, ts)
  PROVE  /\ IsSequence(cs) /\ cs # << >> /\ Len(cs) \in Nat \ {0} /\ DOMAIN cs = 1..Len(cs)
         /\ Framed(p, cs) /\ Lexical(p, cs, ts) /\ IsFrame(p, cs[Len(cs)])
         /\ DOMAIN cs[Len(cs)] = Fields
         /\ IsCode(CodeOf(p, cs[Len(cs)])) /\ Contained(CodeOf(p, cs[Len(cs)]))
         /\ WellNested(CodeOf(p, cs[Len(cs)]))
         /\ cs[Len(cs)].ip \in 1..Len(CodeOf(p, cs[Len(cs)])) + 1
<1>1. IsSequence(cs) /\ cs # << >> /\ Framed(p, cs) /\ Lexical(p, cs, ts)
  BY DEF Runs, Framed
<1>2. Len(cs) \in Nat \ {0} /\ DOMAIN cs = 1..Len(cs)
  BY <1>1, SequenceIs
<1>3. IsFrame(p, cs[Len(cs)])
  BY <1>1, <1>2 DEF Framed
<1> QED BY <1>1, <1>2, <1>3, FrameCode DEF IsFrame, Fields

LEMMA MovedFrames ==
  ASSUME NEW p, NEW cs, NEW ts, NEW cs2, NEW ip, ProgramOk(p), Runs(p, cs, ts),
         Moved(cs, cs2, ip), ip \in 1..Len(CodeOf(p, cs[Len(cs)])) + 1
  PROVE  /\ Framed(p, cs2) /\ cs2 # << >> /\ Len(cs2) = Len(cs)
         /\ cs2[Len(cs)].fn = cs[Len(cs)].fn
         /\ Open(p, cs2[Len(cs)]) = OpenTries(CodeOf(p, cs[Len(cs)]), ip)
         /\ \A d \in 1..Len(cs) : d # Len(cs) => Alike(p, cs[d], cs2[d])
<1>1. /\ IsSequence(cs) /\ cs # << >> /\ Len(cs) \in Nat \ {0} /\ Framed(p, cs)
      /\ IsFrame(p, cs[Len(cs)])
  BY RunsFrames
<1>2. IsSequence(cs2) /\ Len(cs2) = Len(cs) /\ cs2 # << >>
  BY <1>1, MovedNotEmpty DEF Moved
<1>3. \A d \in 1..Len(cs) : d # Len(cs) => cs2[d] = cs[d]
  BY DEF Moved
<1>4. /\ DOMAIN cs2[Len(cs)] = Fields /\ cs2[Len(cs)].fn = cs[Len(cs)].fn
      /\ cs2[Len(cs)].ip = ip
  BY DEF Moved
<1>5. CodeOf(p, cs2[Len(cs)]) = CodeOf(p, cs[Len(cs)])
  BY <1>4 DEF CodeOf
<1>6. IsFrame(p, cs2[Len(cs)])
  BY <1>1, <1>4, <1>5 DEF IsFrame, Fields
<1>7. Framed(p, cs2)
  <2> SUFFICES ASSUME NEW d \in 1..Len(cs) PROVE IsFrame(p, cs2[d])
    BY <1>2 DEF Framed
  <2>1. CASE d = Len(cs)
    BY <1>6, <2>1
  <2>2. CASE d # Len(cs)
    BY <1>1, <1>3, <2>2 DEF Framed
  <2> QED BY <2>1, <2>2
<1> QED BY <1>2, <1>3, <1>4, <1>5, <1>7 DEF Open, Alike

\* A move within the same try bodies.
LEMMA MoveKeeps ==
  ASSUME NEW p, NEW cs, NEW ts, NEW cs2, NEW ip, ProgramOk(p), Runs(p, cs, ts),
         Moved(cs, cs2, ip), ip \in 1..Len(CodeOf(p, cs[Len(cs)])) + 1,
         OpenTries(CodeOf(p, cs[Len(cs)]), ip) = Open(p, cs[Len(cs)])
  PROVE  Runs(p, cs2, ts) /\ Matches(p, cs, cs2)
<1>1. Len(cs) \in Nat \ {0} /\ Lexical(p, cs, ts)
  BY RunsFrames
<1>2. /\ Framed(p, cs2) /\ cs2 # << >> /\ Len(cs2) = Len(cs)
      /\ cs2[Len(cs)].fn = cs[Len(cs)].fn
      /\ Open(p, cs2[Len(cs)]) = OpenTries(CodeOf(p, cs[Len(cs)]), ip)
      /\ \A d \in 1..Len(cs) : d # Len(cs) => Alike(p, cs[d], cs2[d])
  BY MovedFrames
<1>3. Alike(p, cs[Len(cs)], cs2[Len(cs)])
  BY <1>2 DEF Alike
<1>4. \A d \in 1..Len(cs) : Alike(p, cs[d], cs2[d])
  BY <1>2, <1>3
<1>5. Matches(p, cs, cs2)
  BY <1>1, <1>2, <1>4 DEF Matches
<1>6. Lexical(p, cs2, ts)
  BY <1>1, <1>2, <1>5, FramesMove
<1> QED BY <1>2, <1>5, <1>6 DEF Runs

-----------------------------------------------------------------------------
(* The instructions.                                                        *)

VmRuns == ProgramOk(pid) /\ status = "running" /\ Runs(pid, callStack, tryStack)

\* What holds of the next state while the program runs.
Keeps == status' = "running" => Runs(pid, callStack', tryStack')

LEMMA CurrentIs ==
  ASSUME VmRuns, NEW ops, NEW i \in Current(ops)
  PROVE  /\ Top.ip \in 1..Len(Body) /\ Top.ip \in Nat /\ Len(Body) \in Nat
         /\ i = Body[Top.ip] /\ i.op \in ops
         /\ Body = CodeOf(pid, callStack[Len(callStack)]) /\ Top = callStack[Len(callStack)]
         /\ IsCode(Body) /\ Contained(Body) /\ WellNested(Body)
<1>1. Body = CodeOf(pid, callStack[Len(callStack)]) /\ Top = callStack[Len(callStack)]
  BY DEF Body, Top, CodeOf
<1>2. Top.ip <= Len(Body) /\ i = Body[Top.ip] /\ i.op \in ops
  BY DEF Current, CurrentOf
<1>3. IsCode(Body) /\ Contained(Body) /\ WellNested(Body) /\ Top.ip \in 1..Len(Body) + 1
  BY <1>1, RunsFrames DEF VmRuns
<1>4. Len(Body) \in Nat
  BY <1>3 DEF IsCode
<1> QED BY <1>1, <1>2, <1>3, <1>4

LEMMA StepMoves ==
  ASSUME VmRuns
  PROVE  Moved(callStack, Step, Top.ip + 1)
<1>1. /\ IsSequence(callStack) /\ callStack # << >>
      /\ DOMAIN callStack[Len(callStack)] = Fields
  BY RunsFrames DEF VmRuns
<1>2. Step = [callStack EXCEPT ![Len(callStack)].ip = Top.ip + 1]
  BY DEF Step, Top
<1> QED BY <1>1, <1>2, GotoMoves

LEMMA StoreMoves ==
  ASSUME VmRuns, NEW d, NEW v
  PROVE  Moved(callStack, Store(d, v), Top.ip + 1)
<1> DEFINE slots == [Top.slots EXCEPT ![d] = v]
<1>1. /\ IsSequence(callStack) /\ callStack # << >>
      /\ DOMAIN callStack[Len(callStack)] = Fields
      /\ Len(callStack) \in Nat \ {0} /\ DOMAIN callStack = 1..Len(callStack)
  BY RunsFrames DEF VmRuns
<1>2. Store(d, v) = [callStack EXCEPT ![Len(callStack)].ip = Top.ip + 1,
                                     ![Len(callStack)].slots = slots]
  BY <1>1 DEF Store, Top, Fields
<1> HIDE DEF slots
<1> QED BY <1>1, <1>2, GotoAndSlots

\* The next instruction, within the same try bodies.
LEMMA OnwardKeeps ==
  ASSUME VmRuns, NEW ops, NEW i \in Current(ops), ops \cap {"ENTER_TRY", "LEAVE_TRY"} = {},
         NEW cs2, Moved(callStack, cs2, Top.ip + 1)
  PROVE  Runs(pid, cs2, tryStack) /\ Matches(pid, callStack, cs2)
<1>1. /\ Top.ip \in 1..Len(Body) /\ Top.ip \in Nat /\ Len(Body) \in Nat
      /\ i = Body[Top.ip] /\ i.op \in ops
      /\ Body = CodeOf(pid, callStack[Len(callStack)]) /\ Top = callStack[Len(callStack)]
      /\ IsCode(Body) /\ Contained(Body) /\ WellNested(Body)
  BY CurrentIs
<1>2. Body[Top.ip].op \notin {"ENTER_TRY", "LEAVE_TRY"}
  BY <1>1
<1>3. OpenTries(Body, Top.ip + 1) = OpenTries(Body, Top.ip)
  BY <1>1, <1>2, PlainStep
<1>4. /\ Top.ip + 1 \in 1..Len(Body) + 1
      /\ OpenTries(Body, Top.ip + 1) = Open(pid, callStack[Len(callStack)])
  BY <1>1, <1>3 DEF Open
<1> QED BY <1>1, <1>4, MoveKeeps DEF VmRuns

LEMMA LoadKeeps ==
  ASSUME VmRuns, Load \/ AskHost \/ Effect \/ Complete, tryStack' = tryStack
  PROVE  Keeps
<1>1. CASE Load
  <2>1. PICK i \in Current(Loads) : callStack' = Store(i.dest, Result(i))
    BY <1>1 DEF Load
  <2>3. Loads \cap {"ENTER_TRY", "LEAVE_TRY"} = {}
    BY DEF Loads
  <2> QED BY <2>1, <2>3, StoreMoves, OnwardKeeps DEF Keeps
<1>2. CASE AskHost
  <2>1. PICK i \in Current({"ASK"}) : \E a \in i.choices : callStack' = Store(i.dest, a)
    BY <1>2 DEF AskHost
  <2>2. PICK a \in i.choices : callStack' = Store(i.dest, a)
    BY <2>1
  <2>4. {"ASK"} \cap {"ENTER_TRY", "LEAVE_TRY"} = {}
    OBVIOUS
  <2> QED BY <2>2, <2>4, StoreMoves, OnwardKeeps DEF Keeps
<1>3. CASE Effect
  <2>1. PICK i \in Current(Effects) : TRUE
    BY <1>3 DEF Effect
  <2>2. callStack' = Step
    BY <1>3 DEF Effect
  <2>3. Effects \cap {"ENTER_TRY", "LEAVE_TRY"} = {}
    BY DEF Effects
  <2> QED BY <2>1, <2>2, <2>3, StepMoves, OnwardKeeps DEF Keeps
<1>4. CASE Complete
  <2>1. PICK i \in Current(Fallible) : callStack' = Store(i.dest, 1)
    BY <1>4 DEF Complete
  <2>2. Fallible \cap {"ENTER_TRY", "LEAVE_TRY"} = {}
    BY DEF Fallible
  <2> QED BY <2>1, <2>2, StoreMoves, OnwardKeeps DEF Keeps
<1> QED BY <1>1, <1>2, <1>3, <1>4

LEMMA BranchKeeps ==
  ASSUME VmRuns, Branch, tryStack' = tryStack
  PROVE  Keeps
<1>1. PICK i \in Current(Jumps) : callStack' = IF Taken(i) THEN Goto(i.target) ELSE Step
  BY DEF Branch
<1>3. CASE Taken(i)
  <2>1. /\ Top.ip \in 1..Len(Body) /\ i = Body[Top.ip] /\ i.op \in Jumps
        /\ Body = CodeOf(pid, callStack[Len(callStack)]) /\ Top = callStack[Len(callStack)]
        /\ IsCode(Body) /\ Contained(Body) /\ WellNested(Body)
    BY CurrentIs
  <2>2. i.target \in 1..Len(Body) + 1 /\ OpenTries(Body, i.target) = OpenTries(Body, Top.ip)
    BY <2>1, JumpStep
  <2>3. Moved(callStack, Goto(i.target), i.target)
    <3>1. /\ IsSequence(callStack) /\ callStack # << >>
          /\ DOMAIN callStack[Len(callStack)] = Fields
      BY RunsFrames DEF VmRuns
    <3> QED BY <3>1, GotoMoves DEF Goto
  <2>4. OpenTries(Body, i.target) = Open(pid, callStack[Len(callStack)])
    BY <2>1, <2>2 DEF Open
  <2>5. Runs(pid, Goto(i.target), tryStack)
    BY <2>1, <2>2, <2>3, <2>4, MoveKeeps DEF VmRuns
  <2> QED BY <1>1, <1>3, <2>5 DEF Keeps
<1>4. CASE ~Taken(i)
  <2>1. Jumps \cap {"ENTER_TRY", "LEAVE_TRY"} = {}
    BY DEF Jumps
  <2>2. Runs(pid, Step, tryStack)
    BY <2>1, StepMoves, OnwardKeeps
  <2> QED BY <1>1, <1>4, <2>2 DEF Keeps
<1> QED BY <1>3, <1>4

\* The callee begins outside of every try body.
LEMMA CallKeeps ==
  ASSUME VmRuns, Call, tryStack' = tryStack
  PROVE  Keeps
<1>1. PICK i \in Current({"CALL"}) : callStack' = Append(Step, FrameOf("f", i.dest))
  BY DEF Call
<1> DEFINE callee == FrameOf("f", i.dest)
           cs2    == Append(Step, callee)
<1>3. Runs(pid, Step, tryStack) /\ Matches(pid, callStack, Step)
  <2>1. {"CALL"} \cap {"ENTER_TRY", "LEAVE_TRY"} = {}
    OBVIOUS
  <2> QED BY <2>1, StepMoves, OnwardKeeps
<1>4. callee.fn = "f" /\ callee.ip = 1 /\ DOMAIN callee = {"fn", "ip", "slots", "dest"}
  BY DEF FrameOf
<1> HIDE DEF callee
<1>5. IsCode(CodeOf(pid, callee)) /\ WellNested(CodeOf(pid, callee)) /\ "f" \in Function
  BY <1>4, CodeAssumption DEF VmRuns, ProgramOk, ContainedPrograms, ContainedOf, Contained, CodeOf, Function
<1>6. IsFrame(pid, callee) /\ Open(pid, callee) = {}
  <2>1. 1 \in 1..Len(CodeOf(pid, callee)) + 1
    BY <1>5 DEF IsCode
  <2> QED BY <1>4, <1>5, <2>1, InNoBody DEF IsFrame, Open
<1>7. /\ IsSequence(Step) /\ Len(Step) \in Nat \ {0} /\ Framed(pid, Step)
      /\ Lexical(pid, Step, tryStack)
  BY <1>3, RunsFrames DEF VmRuns
<1>8. /\ IsSequence(cs2) /\ Len(cs2) = Len(Step) + 1
      /\ \A d \in 1..Len(Step) : cs2[d] = Step[d]
      /\ cs2[Len(Step) + 1] = callee
  BY <1>7, AppendIs
<1> HIDE DEF cs2
<1>9. Framed(pid, cs2)
  <2> SUFFICES ASSUME NEW d \in 1..Len(cs2) PROVE IsFrame(pid, cs2[d])
    BY <1>8 DEF Framed
  <2>1. d \in 1..Len(Step) \/ d = Len(Step) + 1
    BY <1>7, <1>8
  <2> QED BY <1>6, <1>7, <1>8, <2>1 DEF Framed
<1>10. Matches(pid, Step, cs2)
  <2>1. \A d \in 1..Len(Step) : d <= Len(cs2) /\ Alike(pid, Step[d], cs2[d])
    BY <1>7, <1>8 DEF Alike
  <2>2. \A d \in 1..Len(cs2) : d <= Len(Step) \/ Open(pid, cs2[d]) = {}
    BY <1>6, <1>7, <1>8
  <2> QED BY <2>1, <2>2 DEF Matches
<1>11. Lexical(pid, cs2, tryStack) /\ cs2 # << >>
  <2>1. Len(cs2) \in Nat
    BY <1>7, <1>8
  <2> QED BY <1>7, <1>8, <1>10, <2>1, FramesMove, SequenceIs
<1> QED BY <1>1, <1>9, <1>11 DEF Keeps, Runs, cs2, callee

\* The frame on top is in no try body when it is left; its caller may get a
\* value.
LEMMA LeaveKeeps ==
  ASSUME VmRuns, tryStack' = tryStack, NEW v, Leave(v), Open(pid, callStack[Len(callStack)]) = {}
  PROVE  Keeps
<1> DEFINE cs == callStack
           n  == Len(callStack) - 1
           rest == Pop(callStack)
<1>2. /\ IsSequence(cs) /\ Len(cs) \in Nat \ {0} /\ Framed(pid, cs) /\ Lexical(pid, cs, tryStack)
  BY RunsFrames DEF VmRuns
<1>3. CASE n = 0
  <2>1. status' = "finished"
    BY <1>2, <1>3 DEF Leave
  <2> QED BY <2>1 DEF Keeps
<1>4. CASE n # 0
  <2>1. n \in 1..Len(cs) /\ n \in Nat /\ n <= Len(cs) /\ n < Len(cs) /\ Len(cs) = n + 1
    <3>1. Len(cs) \in Nat \ {0} /\ n = Len(cs) - 1 /\ n # 0
      BY <1>2, <1>4
    <3> HIDE DEF n, cs, rest
    <3> QED BY <3>1
  <2>2. IsSequence(rest) /\ Len(rest) = n /\ \A d \in 1..n : rest[d] = cs[d]
    <3>1. rest = SubSeq(cs, 1, n)
      BY DEF Pop
    <3> HIDE DEF rest, cs, n
    <3> QED BY <1>2, <2>1, <3>1, PrefixIs
  <2>3. DOMAIN rest[n] = Fields /\ rest # << >> /\ Len(rest) \in Nat
    <3>1. IsFrame(pid, cs[n])
      BY <1>2, <2>1 DEF Framed
    <3>2. rest[n] = cs[n]
      BY <2>1, <2>2
    <3> QED BY <2>1, <2>2, <3>1, <3>2, SequenceIs DEF IsFrame, Fields
  <2>4. callStack' = rest \/ Moved(rest, callStack', rest[n].ip)
    <3>1. \/ callStack' = rest
          \/ callStack' = [rest EXCEPT ![n].slots[Top.dest] = v]
      BY DEF Leave
    <3>2. CASE callStack' = [rest EXCEPT ![n].slots[Top.dest] = v]
      <4> DEFINE slots == [rest[n].slots EXCEPT ![Top.dest] = v]
      <4>1. callStack' = [rest EXCEPT ![Len(rest)].slots = slots]
        BY <2>1, <2>2, <2>3, <3>2 DEF Fields
      <4> HIDE DEF slots, rest, n, cs
      <4> QED BY <2>2, <2>3, <4>1, SlotsMove
    <3> QED BY <3>1, <3>2
  <2> HIDE DEF rest
  <2>5. \A d \in 1..n : IsFrame(pid, rest[d]) /\ Alike(pid, cs[d], rest[d])
    BY <1>2, <2>1, <2>2 DEF Framed, Alike
  <2>6. Framed(pid, rest) /\ Matches(pid, cs, rest)
    <3>1. \A d \in 1..Len(cs) : d <= n \/ Open(pid, cs[d]) = {}
      BY <1>2, <2>1
    <3>2. \A d \in 1..Len(rest) : d <= Len(cs)
      BY <2>1, <2>2
    <3>3. \A d \in 1..Len(cs) : d <= Len(rest) => d \in 1..n
      BY <2>1, <2>2
    <3> QED BY <2>2, <2>5, <3>1, <3>2, <3>3 DEF Framed, Matches
  <2>7. Lexical(pid, rest, tryStack)
    BY <1>2, <2>3, <2>6, FramesMove
  <2>8. Runs(pid, rest, tryStack)
    BY <2>3, <2>6, <2>7 DEF Runs
  <2>9. CASE Moved(rest, callStack', rest[n].ip)
    <3>1. /\ rest[Len(rest)].ip \in 1..Len(CodeOf(pid, rest[Len(rest)])) + 1
          /\ Moved(rest, callStack', rest[Len(rest)].ip)
      BY <2>2, <2>8, <2>9, RunsFrames DEF VmRuns
    <3>2. Runs(pid, callStack', tryStack)
      BY <2>8, <3>1, MoveKeeps DEF VmRuns, Open
    <3> QED BY <3>2 DEF Keeps
  <2> QED BY <2>4, <2>8, <2>9 DEF Keeps
<1> QED BY <1>3, <1>4

LEMMA ReturnKeeps ==
  ASSUME VmRuns, ReturnValue \/ FallOff, tryStack' = tryStack
  PROVE  Keeps
<1>1. CASE ReturnValue
  <2>1. PICK i \in Current({"RETURN"}) : Leave(Get(i.src))
    BY <1>1 DEF ReturnValue
  <2>2. /\ Top.ip \in 1..Len(Body) /\ i = Body[Top.ip] /\ i.op = "RETURN"
        /\ Body = CodeOf(pid, callStack[Len(callStack)]) /\ Top = callStack[Len(callStack)]
        /\ IsCode(Body) /\ Contained(Body) /\ WellNested(Body)
    BY CurrentIs
  <2>3. Open(pid, callStack[Len(callStack)]) = {}
    BY <2>2, ReturnInNoBody DEF Open
  <2> QED BY <2>1, <2>3, LeaveKeeps
<1>2. CASE FallOff
  <2>1. Leave(0) /\ Top.ip > Len(Body)
    BY <1>2 DEF FallOff, AtEnd
  <2>2. Body = CodeOf(pid, callStack[Len(callStack)]) /\ Top = callStack[Len(callStack)]
    BY DEF Body, Top, CodeOf
  <2>3. /\ Top.ip \in 1..Len(Body) + 1 /\ IsCode(Body) /\ Contained(Body) /\ WellNested(Body)
    BY <2>2, RunsFrames DEF VmRuns
  <2>4. Top.ip = Len(Body) + 1
    BY <2>1, <2>3 DEF IsCode
  <2>5. Open(pid, callStack[Len(callStack)]) = {}
    BY <2>2, <2>3, <2>4, InNoBody DEF Open
  <2> QED BY <2>1, <2>5, LeaveKeeps
<1> QED BY <1>1, <1>2

LEMMA EnterKeeps ==
  ASSUME VmRuns, EnterTry
  PROVE  Keeps
<1>1. PICK i \in Current({"ENTER_TRY"}) :
        tryStack' = Append(tryStack, [depth |-> Len(callStack), target |-> i.target,
                                      slot |-> i.dest])
  BY DEF EnterTry
<1>2. callStack' = Step
  BY DEF EnterTry, Pass
<1>3. /\ Top.ip \in 1..Len(Body) /\ Top.ip \in Nat /\ Len(Body) \in Nat
      /\ i = Body[Top.ip] /\ i.op = "ENTER_TRY"
      /\ Body = CodeOf(pid, callStack[Len(callStack)]) /\ Top = callStack[Len(callStack)]
      /\ IsCode(Body) /\ Contained(Body) /\ WellNested(Body)
  BY CurrentIs
<1> DEFINE n == Len(callStack)
<1>4. /\ n \in Nat \ {0} /\ Framed(pid, callStack) /\ Lexical(pid, callStack, tryStack)
  BY RunsFrames DEF VmRuns
<1>5. tryStack' = Append(tryStack, EntryOf(pid, callStack[n], n, Top.ip))
  BY <1>1, <1>3 DEF EntryOf
<1>6. /\ OpenTries(Body, Top.ip + 1) = Open(pid, callStack[n]) \cup {Top.ip}
      /\ \A j \in Open(pid, callStack[n]) : Body[j].target > Body[Top.ip].target
  BY <1>3, EnterStep DEF Open
<1>7. /\ Framed(pid, Step) /\ Step # << >> /\ Len(Step) = n
      /\ Step[n].fn = callStack[n].fn
      /\ Open(pid, Step[n]) = OpenTries(Body, Top.ip + 1)
      /\ \A d \in 1..n : d # n => Alike(pid, callStack[d], Step[d])
  <2>1. Top.ip + 1 \in 1..Len(Body) + 1
    BY <1>3
  <2> QED BY <1>3, <2>1, StepMoves, MovedFrames DEF VmRuns
<1>8. \A d \in 1..n - 1 : Alike(pid, callStack[d], Step[d])
  BY <1>4, <1>7
<1> HIDE DEF n
<1>9. Len(callStack) = n
  BY DEF n
<1>10. Lexical(pid, Step, tryStack')
  BY <1>3, <1>4, <1>5, <1>6, <1>7, <1>8, <1>9, EntryPushed DEF VmRuns
<1> QED BY <1>2, <1>7, <1>10 DEF Keeps, Runs

LEMMA LeaveTryDrops ==
  ASSUME VmRuns, LeaveTry
  PROVE  Keeps
<1>1. PICK i \in Current({"LEAVE_TRY"}) : TRUE
  BY DEF LeaveTry
<1>2. callStack' = Step
  BY DEF LeaveTry, Pass
<1>3. /\ Top.ip \in 1..Len(Body) /\ Top.ip \in Nat /\ Len(Body) \in Nat
      /\ i = Body[Top.ip] /\ i.op = "LEAVE_TRY"
      /\ Body = CodeOf(pid, callStack[Len(callStack)]) /\ Top = callStack[Len(callStack)]
      /\ IsCode(Body) /\ Contained(Body) /\ WellNested(Body)
  BY CurrentIs
<1> DEFINE n == Len(callStack)
<1>4. /\ n \in Nat \ {0} /\ Framed(pid, callStack) /\ Lexical(pid, callStack, tryStack)
  BY RunsFrames DEF VmRuns
<1>5. PICK e \in OpenTries(Body, Top.ip) :
        /\ IsInnermost(Body, Top.ip, e)
        /\ OpenTries(Body, Top.ip + 1) = OpenTries(Body, Top.ip) \ {e}
  BY <1>3, LeaveStep
<1>6. e \in Open(pid, callStack[n])
  BY <1>3, <1>5 DEF Open
<1>7. tryStack # << >>
  <2>1. PICK k \in 1..Len(tryStack) : tryStack[k] = EntryOf(pid, callStack[n], n, e)
    BY <1>4, <1>6 DEF Lexical, Present, Among
  <2> QED BY <2>1
<1>8. tryStack' = Pop(tryStack)
  BY <1>7 DEF LeaveTry
<1>9. PICK d, j : OnTop(pid, callStack, tryStack, d, j)
  BY <1>4, <1>7, LastEntry DEF VmRuns
<1>10. d = n /\ j = e
  <2>1. d = n
    <3>1. d \in 1..n /\ n \notin d + 1..n
      BY <1>6, <1>9 DEF OnTop
    <3> QED BY <1>4, <3>1
  <2>2. IsInnermost(Body, Top.ip, j)
    BY <1>3, <1>9, <2>1 DEF OnTop
  <2>3. Body[j].target >= Body[e].target /\ Body[e].target >= Body[j].target
    BY <1>5, <2>2 DEF IsInnermost
  <2>4. j \in Tries(Body) /\ e \in Tries(Body)
    BY <1>3, <1>5, <2>2, OpenIs DEF IsInnermost
  <2>5. Body[j].target \in 1..Len(Body) + 1 /\ Body[e].target \in 1..Len(Body) + 1
    BY <1>3, <2>4, TryIs
  <2>6. Body[j].target = Body[e].target
    BY <1>3, <2>3, <2>5
  <2> QED BY <1>3, <2>1, <2>4, <2>6, OneHandler
<1>11. /\ Framed(pid, Step) /\ Step # << >> /\ Len(Step) = n
       /\ Step[n].fn = callStack[n].fn
       /\ Open(pid, Step[n]) = OpenTries(Body, Top.ip + 1)
       /\ \A c \in 1..n : c # n => Alike(pid, callStack[c], Step[c])
  <2>1. Top.ip + 1 \in 1..Len(Body) + 1
    BY <1>3
  <2> QED BY <1>3, <2>1, StepMoves, MovedFrames DEF VmRuns
<1>12. /\ \A c \in 1..n - 1 : Alike(pid, callStack[c], Step[c])
       /\ Open(pid, Step[n]) = Open(pid, callStack[n]) \ {e}
  BY <1>3, <1>4, <1>5, <1>11 DEF Open
<1> HIDE DEF n
<1>13. Lexical(pid, Step, Pop(tryStack))
  BY <1>4, <1>7, <1>9, <1>10, <1>11, <1>12, EntryDropped DEF VmRuns
<1> QED BY <1>2, <1>8, <1>11, <1>13 DEF Keeps, Runs

\* An error goes to the handler of the innermost try body of the innermost
\* frame that is in one, and leaves that body.
LEMMA UnwindKeeps ==
  ASSUME VmRuns, NEW err, tryStack # << >>, Unwind(err)
  PROVE  Keeps
<1>1. /\ IsSequence(callStack) /\ Len(callStack) \in Nat \ {0} /\ Framed(pid, callStack)
      /\ Lexical(pid, callStack, tryStack)
  BY RunsFrames DEF VmRuns
<1>2. PICK d, i : OnTop(pid, callStack, tryStack, d, i)
  BY <1>1, LastEntry DEF VmRuns
<1> DEFINE code == CodeOf(pid, callStack[d])
           rest == SubSeq(callStack, 1, d)
           entry == tryStack[Len(tryStack)]
<1>3. /\ d \in 1..Len(callStack) /\ d \in Nat /\ d <= Len(callStack)
      /\ entry.depth = d /\ entry.target = code[i].target
      /\ IsInnermost(code, callStack[d].ip, i)
  BY <1>1, <1>2 DEF OnTop, EntryOf
<1>4. tryStack' = Pop(tryStack)
  BY DEF Unwind
<1>5. PICK slots : callStack' = [rest EXCEPT ![d].ip = code[i].target, ![d].slots = slots]
  <2>1. (IF entry.depth < Len(callStack) THEN entry.depth ELSE Len(callStack)) = d
    BY <1>1, <1>3
  <2> QED BY <1>3, <2>1 DEF Unwind
<1>6. IsFrame(pid, callStack[d])
  BY <1>1, <1>3 DEF Framed
<1>7. /\ IsCode(code) /\ Contained(code) /\ WellNested(code) /\ callStack[d].ip \in Int
  BY <1>6, FrameCode DEF VmRuns
<1>8. /\ code[i].target \in 1..Len(code) + 1
      /\ OpenTries(code, code[i].target) = Open(pid, callStack[d]) \ {i}
  BY <1>3, <1>7, HandlerStep DEF Open
<1>9. /\ IsSequence(rest) /\ Len(rest) = d /\ \A c \in 1..d : rest[c] = callStack[c]
  <2> HIDE DEF rest, code, entry
  <2>1. IsSequence(SubSeq(callStack, 1, d)) /\ Len(SubSeq(callStack, 1, d)) = d
        /\ \A c \in 1..d : SubSeq(callStack, 1, d)[c] = callStack[c]
    BY <1>1, <1>3, PrefixIs
  <2> QED BY <2>1 DEF rest
<1>10. rest # << >> /\ rest[d] = callStack[d] /\ DOMAIN rest[d] = Fields /\ d \in 1..d
  <2> HIDE DEF rest, code, entry
  <2>1. d \in 1..d /\ Len(rest) > 0
    BY <1>3, <1>9
  <2>2. rest # << >> /\ rest[d] = callStack[d]
    BY <1>9, <2>1, SequenceIs
  <2> QED BY <1>6, <2>1, <2>2 DEF IsFrame, Fields
<1>11. Moved(rest, callStack', code[i].target)
  <2> HIDE DEF rest, code, entry
  <2> QED BY <1>5, <1>9, <1>10, GotoAndSlots
<1> HIDE DEF rest, entry
<1>12. /\ IsSequence(callStack') /\ Len(callStack') = d /\ callStack' # << >>
       /\ \A c \in 1..d : c # d => callStack'[c] = callStack[c]
       /\ DOMAIN callStack'[d] = Fields /\ callStack'[d].fn = callStack[d].fn
       /\ callStack'[d].ip = code[i].target
  BY <1>9, <1>10, <1>11, MovedNotEmpty DEF Moved
<1>13. CodeOf(pid, callStack'[d]) = code
  BY <1>12 DEF CodeOf
<1>14. Open(pid, callStack'[d]) = Open(pid, callStack[d]) \ {i}
  BY <1>8, <1>12, <1>13 DEF Open
<1>15. IsFrame(pid, callStack'[d])
  BY <1>6, <1>8, <1>12, <1>13 DEF IsFrame, Fields
<1> HIDE DEF code
<1>16. Framed(pid, callStack')
  <2> SUFFICES ASSUME NEW c \in 1..d PROVE IsFrame(pid, callStack'[c])
    BY <1>12 DEF Framed
  <2>1. CASE c = d
    BY <1>15, <2>1
  <2>2. CASE c # d
    BY <1>1, <1>3, <1>12, <2>2 DEF Framed
  <2> QED BY <2>1, <2>2
<1>17. \A c \in 1..d - 1 : Alike(pid, callStack[c], callStack'[c])
  BY <1>3, <1>12 DEF Alike
<1>18. Lexical(pid, callStack', Pop(tryStack))
  BY <1>1, <1>2, <1>12, <1>14, <1>17, EntryDropped DEF VmRuns
<1> QED BY <1>4, <1>12, <1>16, <1>18 DEF Keeps, Runs

LEMMA RaiseKeeps ==
  ASSUME VmRuns, NEW err, Raise(err)
  PROVE  Keeps
<1>1. CASE tryStack # << >> /\ Unwind(err)
  BY <1>1, UnwindKeeps
<1>2. CASE status' = "uncaught"
  BY <1>2 DEF Keeps
<1> QED BY <1>1, <1>2 DEF Raise

LEMMA ThrowKeeps ==
  ASSUME VmRuns, Throws
  PROVE  Keeps
BY RaiseKeeps DEF Throws

-----------------------------------------------------------------------------
(* The specification.                                                       *)

LEMMA NextKeeps ==
  ASSUME VmRuns, Next
  PROVE  Keeps
<1>1. CASE Ordinary /\ UNCHANGED tryStack
  BY <1>1, LoadKeeps, BranchKeeps, CallKeeps, ReturnKeeps DEF Ordinary
<1>2. CASE EnterTry
  BY <1>2, EnterKeeps
<1>3. CASE LeaveTry
  BY <1>3, LeaveTryDrops
<1>4. CASE Throws
  BY <1>4, ThrowKeeps
<1> QED BY <1>1, <1>2, <1>3, <1>4 DEF Next

LEMMA OnlyRunning ==
  /\ \A ops : Current(ops) # {} => status = "running"
  /\ Errors # {} => status = "running"
<1>1. \A ops : Current(ops) # {} => status = "running"
  BY DEF Current, CurrentOf
<1>2. Errors # {} => status = "running"
  <2>1. ASSUME Current({"THROW"}) = {}, Current(Fallible) = {} PROVE Errors = {}
    BY <2>1 DEF Errors
  <2> QED BY <1>1, <2>1
<1> QED BY <1>1, <1>2

LEMMA OrdinaryRuns ==
  ASSUME Ordinary
  PROVE  status = "running" /\ pid' = pid
<1>1. CASE Load \/ AskHost \/ Effect \/ Complete
  BY <1>1, OnlyRunning DEF Load, AskHost, Effect, Complete, quiet
<1>2. CASE Branch \/ Call
  BY <1>2, OnlyRunning DEF Branch, Call, quiet
<1>3. CASE ReturnValue \/ FallOff
  BY <1>3, OnlyRunning DEF ReturnValue, FallOff, Leave, AtEnd, quiet
<1> QED BY <1>1, <1>2, <1>3 DEF Ordinary

LEMMA NextRuns ==
  ASSUME Next
  PROVE  status = "running" /\ pid' = pid
<1>1. CASE EnterTry \/ LeaveTry
  BY <1>1, OnlyRunning DEF EnterTry, LeaveTry, Pass, quiet
<1>2. CASE Throws
  BY <1>2, OnlyRunning DEF Throws, Raise, quiet
<1> QED BY <1>1, <1>2, OrdinaryRuns DEF Next

\* Compiled code runs the same program to the end.
LEMMA JitStays ==
  ASSUME BackendNext, ~VmStep
  PROVE  engine = "jit" /\ engine' = engine /\ pid' = pid
<1>1. \A ops : Native(ops) # {} => engine = "jit"
  BY DEF Native
<1>2. CASE JitLoad \/ JitAskHost \/ JitEffect
  BY <1>1, <1>2 DEF JitLoad, JitAskHost, JitEffect, jitQuiet
<1>3. CASE JitBranch \/ JitCall \/ JitTry \/ JitThrow
  BY <1>1, <1>3 DEF JitBranch, JitCall, Call, quiet, JitTry, JitThrow, jitQuiet
<1>4. CASE JitReturn \/ JitEnd
  BY <1>1, <1>4 DEF JitReturn, JitEnd, JitLeave, jitQuiet
<1>5. CASE JitOperate
  BY <1>1, <1>5 DEF JitOperate, jitQuiet
<1>6. CASE JitElement
  BY <1>1, <1>6 DEF JitElement, JitLeave, jitQuiet
<1> QED BY <1>2, <1>3, <1>4, <1>5, <1>6 DEF BackendNext

\* A program begins with one frame, at the first instruction of main, and
\* without an entry.
LEMMA InitRuns ==
  ASSUME BackendInit, pid \in 1..Len(Code), pid \in ContainedPrograms
  PROVE  Runs(pid, callStack, tryStack)
<1> DEFINE frame == FrameOf("main", -1)
<1>1. callStack = <<frame>> /\ tryStack = << >>
  BY DEF BackendInit, VmInit, Init
<1>2. frame.fn = "main" /\ frame.ip = 1 /\ DOMAIN frame = {"fn", "ip", "slots", "dest"}
  BY DEF FrameOf
<1> HIDE DEF frame
<1>3. IsCode(CodeOf(pid, frame)) /\ WellNested(CodeOf(pid, frame)) /\ "main" \in Function
  BY <1>2, CodeAssumption DEF ContainedPrograms, ContainedOf, Contained, CodeOf, Function
<1>4. IsFrame(pid, frame) /\ Open(pid, frame) = {}
  <2>1. 1 \in 1..Len(CodeOf(pid, frame)) + 1
    BY <1>3 DEF IsCode
  <2> QED BY <1>2, <1>3, <2>1, InNoBody DEF IsFrame, Open
<1>5. IsSequence(callStack) /\ Len(callStack) = 1 /\ callStack[1] = frame /\ callStack # << >>
  <2>1. callStack \in Seq({frame}) /\ Len(callStack) = 1 /\ callStack[1] = frame
    BY <1>1
  <2> QED BY <2>1, SeqIsSequence, SequenceIs
<1>6. Framed(pid, callStack) /\ \A d \in 1..Len(callStack) : Open(pid, callStack[d]) = {}
  <2>1. \A d \in 1..1 : d = 1
    OBVIOUS
  <2> QED BY <1>4, <1>5, <2>1 DEF Framed
<1>7. IsSequence(tryStack) /\ Len(tryStack) = 0
  BY <1>1 DEF IsSequence
<1>8. Sound(pid, callStack, tryStack) /\ Ordered(tryStack)
  BY <1>7 DEF Sound, Ordered
<1>9. Present(pid, callStack, tryStack)
  BY <1>6 DEF Present
<1> QED BY <1>5, <1>6, <1>7, <1>8, <1>9 DEF Runs, Lexical

LEMMA InitHolds ==
  ASSUME BackendInit
  PROVE  IInv
<1>1. engine \in {"vm", "jit"} /\ pid \in 1..Len(Code)
  BY DEF BackendInit, VmInit, Init
<1> QED BY <1>1, InitRuns DEF IInv

LEMMA StepHolds ==
  ASSUME IInv, [BackendNext]_backendVars
  PROVE  IInv'
<1>1. CASE VmStep
  <2>1. Next /\ engine = "vm" /\ engine' = engine
    BY <1>1 DEF VmStep
  <2>2. status = "running" /\ pid' = pid
    BY <2>1, NextRuns
  <2>3. pid \in ContainedPrograms => VmRuns
    BY <2>1, <2>2 DEF IInv, VmRuns, ProgramOk
  <2>4. pid \in ContainedPrograms => Keeps
    BY <2>1, <2>3, NextKeeps
  <2> QED BY <2>1, <2>2, <2>4 DEF IInv, Keeps, ContainedPrograms
<1>2. CASE BackendNext /\ ~VmStep
  BY <1>2, JitStays DEF IInv
<1>3. CASE UNCHANGED backendVars
  BY <1>3 DEF IInv, backendVars, vars
<1> QED BY <1>1, <1>2, <1>3

\* Frames in their code, and an entry on the try stack for every try statement
\* they are inside of and no other, as long as the VM runs a program in which
\* no jump or RETURN leaves a try body (callStack_ and tryStack_).
THEOREM FramesAndTries == BackendSpec => []IInv
BY InitHolds, StepHolds, PTL DEF BackendSpec

\* An entry of the property is one of the proof.
LEMMA ExpectedIs ==
  UNION {EntriesAt(d) : d \in 1..Len(callStack)} = AllEntries(pid, callStack)
<1>1. \A d \in 1..Len(callStack) :
        EntriesAt(d) = {EntryOf(pid, callStack[d], d, i) : i \in Open(pid, callStack[d])}
  BY DEF EntriesAt, EntryOf, Open, CodeOf
<1> DEFINE Found(d) == {EntryOf(pid, callStack[d], d, i) : i \in Open(pid, callStack[d])}
<1>2. AllEntries(pid, callStack) = UNION {Found(d) : d \in 1..Len(callStack)}
  BY DEF AllEntries
<1>3. \A d \in 1..Len(callStack) : EntriesAt(d) = Found(d)
  BY <1>1
<1> HIDE DEF Found
<1>4. UNION {EntriesAt(d) : d \in 1..Len(callStack)} = UNION {Found(d) : d \in 1..Len(callStack)}
  BY <1>3
<1> QED BY <1>2, <1>4

LEMMA LexicalHolds ==
  ASSUME IInv
  PROVE  VmTryStackIsLexical
<1> SUFFICES ASSUME engine = "vm", pid \in ContainedPrograms, status = "running"
             PROVE  TryStackIsLexical
  BY DEF VmTryStackIsLexical, TryStackIsLexical
<1>1. ProgramOk(pid) /\ Runs(pid, callStack, tryStack)
  BY DEF IInv, ProgramOk
<1>2. Framed(pid, callStack) /\ Lexical(pid, callStack, tryStack)
  BY <1>1 DEF Runs
<1>3. /\ {tryStack[k] : k \in 1..Len(tryStack)} = AllEntries(pid, callStack)
      /\ Len(tryStack) = Cardinality(AllEntries(pid, callStack))
  BY <1>1, <1>2, LexicalCounts
<1>4. \A j, k \in 1..Len(tryStack) : j < k =>
        \/ tryStack[j].depth < tryStack[k].depth
        \/ /\ tryStack[j].depth = tryStack[k].depth
           /\ tryStack[j].target > tryStack[k].target
  BY <1>2 DEF Lexical, Ordered, Outside
<1> QED BY <1>3, <1>4, ExpectedIs DEF TryStackIsLexical

\* Whatever the program, as long as no jump or RETURN leaves a try body, an
\* error finds the handlers of the try bodies that are being executed, the
\* innermost first, and no others (ENTER_TRY, LEAVE_TRY and the unwinding).
THEOREM TryStackLexical == BackendSpec => []VmTryStackIsLexical
BY FramesAndTries, LexicalHolds, PTL

-----------------------------------------------------------------------------
(* With nothing pending, the state of the program is that of the machine.   *)

\* Nothing is pending: the program is where the frames say.
Plain == pending = NoError /\ pending' = NoError

LEMMA PlainIs ==
  ASSUME Plain
  PROVE  /\ SourceStack = callStack /\ SourceStack' = callStack'
         /\ SourceStatus = status /\ SourceStatus' = status'
         /\ SourceValue = value /\ SourceValue' = value'
BY DEF Plain, SourceStack, SourceStatus, SourceValue, Lost

LEMMA CalmIs ==
  ASSUME pending = NoError
  PROVE  SourceStack = callStack /\ SourceStatus = status /\ SourceValue = value
BY DEF SourceStack, SourceStatus, SourceValue, Lost

LEMMA TopSame ==
  ASSUME pending = NoError
  PROVE  /\ Nearest!Top = Top /\ Nearest!Body = Body /\ Nearest!Step = Step
         /\ \A s : Nearest!Get(s) = Get(s)
         /\ \A t : Nearest!Goto(t) = Goto(t)
         /\ \A d, v : Nearest!Store(d, v) = Store(d, v)
         /\ \A i : Nearest!Result(i) = Result(i) /\ Nearest!Taken(i) = Taken(i)
         /\ \A ops : Nearest!Current(ops) = Current(ops)
         /\ \A fn, dest : Nearest!FrameOf(fn, dest) = FrameOf(fn, dest)
         /\ Nearest!AtEnd = AtEnd
<1>1. Nearest!Top = Top /\ Nearest!Body = Body
  BY CalmIs DEF Nearest!Top, Top, Nearest!Body, Body
<1>2. \A s : Nearest!Get(s) = Get(s)
  BY <1>1 DEF Nearest!Get, Get
<1>3. Nearest!Step = Step
  BY CalmIs DEF Nearest!Step, Step
<1>4. \A t : Nearest!Goto(t) = Goto(t)
  BY CalmIs DEF Nearest!Goto, Goto
<1>5. \A d, v : Nearest!Store(d, v) = Store(d, v)
  BY CalmIs DEF Nearest!Store, Store
<1>6. \A i : Nearest!Result(i) = Result(i)
  BY <1>2 DEF Nearest!Result, Result
<1>7. \A i : Nearest!Taken(i) = Taken(i)
  BY <1>2 DEF Nearest!Taken, Taken
<1>8. \A ops : Nearest!Current(ops) = Current(ops)
  BY <1>1, CalmIs DEF Nearest!Current, Current, Nearest!CurrentOf, CurrentOf
<1>9. \A fn, dest : Nearest!FrameOf(fn, dest) = FrameOf(fn, dest)
  BY DEF Nearest!FrameOf, FrameOf
<1>10. Nearest!AtEnd = AtEnd
  BY <1>1, CalmIs DEF Nearest!AtEnd, AtEnd
<1> QED BY <1>1, <1>2, <1>3, <1>4, <1>5, <1>6, <1>7, <1>8, <1>9, <1>10

LEMMA FrameSame ==
  /\ \A code, ip : Nearest!OpenTries(code, ip) = OpenTries(code, ip)
  /\ \A code, ip, i : Nearest!IsInnermost(code, ip, i) = IsInnermost(code, ip, i)
  /\ \A p, frame : Nearest!CodeOf(p, frame) = CodeOf(p, frame)
  /\ \A p, frame : Nearest!Open(p, frame) = Open(p, frame)
  /\ \A p, frames, d : Nearest!IsNearest(p, frames, d) = IsNearest(p, frames, d)
  /\ \A p, frames : Nearest!Enclosed(p, frames) = Enclosed(p, frames)
  /\ \A p, frame, i, err : Nearest!Handling(p, frame, i, err) = Handling(p, frame, i, err)
  /\ \A frames, d, frame : Nearest!Outer(frames, d, frame) = Outer(frames, d, frame)
<1>1. \A code, ip : Nearest!OpenTries(code, ip) = OpenTries(code, ip)
  BY DEF Nearest!OpenTries, OpenTries
<1>2. \A code, ip, i : Nearest!IsInnermost(code, ip, i) = IsInnermost(code, ip, i)
  BY <1>1 DEF Nearest!IsInnermost, IsInnermost
<1>3. \A p, frame : Nearest!CodeOf(p, frame) = CodeOf(p, frame)
  BY DEF Nearest!CodeOf, CodeOf
<1>4. \A p, frame : Nearest!Open(p, frame) = Open(p, frame)
  BY <1>1, <1>3 DEF Nearest!Open, Open
<1>5. \A p, frames, d : Nearest!IsNearest(p, frames, d) = IsNearest(p, frames, d)
  BY <1>4 DEF Nearest!IsNearest, IsNearest
<1>6. \A p, frames : Nearest!Enclosed(p, frames) = Enclosed(p, frames)
  BY <1>4 DEF Nearest!Enclosed, Enclosed
<1>7. \A p, frame, i, err : Nearest!Handling(p, frame, i, err) = Handling(p, frame, i, err)
  BY <1>3 DEF Nearest!Handling, Handling
<1>8. \A frames, d, frame : Nearest!Outer(frames, d, frame) = Outer(frames, d, frame)
  BY DEF Nearest!Outer, Outer
<1> QED BY <1>1, <1>2, <1>3, <1>4, <1>5, <1>6, <1>7, <1>8

LEMMA ErrorsSame ==
  ASSUME pending = NoError
  PROVE  /\ Nearest!Errors = Errors
         /\ \A d : Nearest!Interrupted(d) = Interrupted(d)
<1>1. \A op, v : Nearest!Faults(op, v) = Faults(op, v) /\ Nearest!FaultOf(op) = FaultOf(op)
  BY DEF Nearest!Faults, Faults, Nearest!FaultOf, FaultOf
<1>2. \A e : e \in Nearest!Errors <=> e \in Errors
  BY <1>1, TopSame DEF Nearest!Errors, Errors, Nearest!Fallible, Fallible
<1>3. Nearest!Errors = Errors
  <2>1. Nearest!Errors \subseteq Errors /\ Errors \subseteq Nearest!Errors
    BY <1>2
  <2> QED BY <2>1
<1>4. \A d, v : v \in Nearest!Leftovers(d) <=> v \in Leftovers(d)
  BY TopSame, CalmIs DEF Nearest!Leftovers, Leftovers
<1>5. \A d : \A f : f \in Nearest!Interrupted(d) <=> f \in Interrupted(d)
  BY <1>4, CalmIs DEF Nearest!Interrupted, Interrupted
<1>6. ASSUME NEW d PROVE Nearest!Interrupted(d) = Interrupted(d)
  <2> DEFINE A == Nearest!Interrupted(d)
             B == Interrupted(d)
  <2>1. \A f : f \in A <=> f \in B
    BY <1>5
  <2> HIDE DEF A, B
  <2>2. A = B
    BY <2>1
  <2> QED BY <2>2 DEF A, B
<1> QED BY <1>3, <1>6

LEMMA OrdinarySame ==
  ASSUME Plain, Ordinary
  PROVE  Nearest!Ordinary
<1> USE DEF Plain
<1>0. /\ quiet => Nearest!quiet
      /\ going => Nearest!going
  BY PlainIs DEF quiet, going, Nearest!quiet, Nearest!going
<1>1. Load => Nearest!Load
  BY <1>0, TopSame, PlainIs DEF Load, Nearest!Load, Loads, Nearest!Loads
<1>2. AskHost => Nearest!AskHost
  BY <1>0, TopSame, PlainIs DEF AskHost, Nearest!AskHost
<1>3. Effect => Nearest!Effect
  BY <1>0, TopSame, PlainIs DEF Effect, Nearest!Effect, Effects, Nearest!Effects
<1>4. Branch => Nearest!Branch
  BY <1>0, TopSame, PlainIs DEF Branch, Nearest!Branch, Jumps, Nearest!Jumps
<1>5. Call => Nearest!Call
  BY <1>0, TopSame, PlainIs DEF Call, Nearest!Call
<1>6. \A v : Leave(v) => Nearest!Leave(v)
  BY <1>0, TopSame, PlainIs DEF Leave, Nearest!Leave, Pop, Nearest!Pop
<1>7. ReturnValue => Nearest!ReturnValue
  BY <1>6, TopSame, PlainIs DEF ReturnValue, Nearest!ReturnValue
<1>8. FallOff => Nearest!FallOff
  BY <1>6, TopSame, PlainIs DEF FallOff, Nearest!FallOff
<1>9. Complete => Nearest!Complete
  BY <1>0, TopSame, PlainIs DEF Complete, Nearest!Complete, Fallible, Nearest!Fallible, Faults, Nearest!Faults
<1> QED BY <1>1, <1>2, <1>3, <1>4, <1>5, <1>7, <1>8, <1>9 DEF Ordinary, Nearest!Ordinary

LEMMA NearestSame ==
  ASSUME Plain, NearestNext
  PROVE  Nearest!NearestNext
<1> USE DEF Plain
<1>0. /\ quiet => Nearest!quiet
      /\ going => Nearest!going
  BY PlainIs DEF quiet, going, Nearest!quiet, Nearest!going
<1>1. Pass => Nearest!Pass
  BY <1>0, TopSame, PlainIs DEF Pass, Nearest!Pass
<1>2. ASSUME NEW err, Catch(err) PROVE Nearest!Catch(err)
  BY <1>0, <1>2, FrameSame, ErrorsSame, TopSame, PlainIs DEF Catch, Nearest!Catch
<1>3. ASSUME NEW err, Report(err) PROVE Nearest!Report(err)
  BY <1>0, <1>3, FrameSame, PlainIs DEF Report, Nearest!Report
<1> QED BY <1>1, <1>2, <1>3, OrdinarySame, ErrorsSame DEF NearestNext, Nearest!NearestNext

-----------------------------------------------------------------------------
(* Induction over the numbers, by sets.                                     *)

LEMMA Least ==
  ASSUME NEW S \in SUBSET Nat, S # {}
  PROVE  \E m \in S : \A k \in S : m <= k
<1>1. IsWellFoundedOn(OpToRel(<, Nat), Nat)
  BY NatLessThanWellFounded
<1>2. \E x \in S : \A y \in S : ~(<<y, x>> \in OpToRel(<, Nat))
  BY <1>1, WFMin
<1>3. PICK m \in S : \A y \in S : ~(<<y, m>> \in OpToRel(<, Nat))
  BY <1>2
<1>4. ASSUME NEW k \in S PROVE m <= k
  <2>1. ~(<<k, m>> \in OpToRel(<, Nat))
    BY <1>3
  <2>2. ~(k < m)
    BY <2>1 DEF OpToRel
  <2> QED BY <2>2
<1> QED BY <1>3, <1>4

LEMMA Induct ==
  ASSUME NEW S \in SUBSET Nat, 0 \in S, \A n \in S : n + 1 \in S
  PROVE  S = Nat
<1> DEFINE T == Nat \ S
<1> SUFFICES ASSUME T # {} PROVE FALSE
  OBVIOUS
<1>1. PICK m \in T : \A k \in T : m <= k
  BY Least
<1>2. m # 0 /\ m \in Nat
  OBVIOUS
<1>3. m - 1 \in Nat /\ m - 1 \notin T
  BY <1>1, <1>2
<1>4. m - 1 \in S /\ (m - 1) + 1 = m
  BY <1>2, <1>3
<1> QED BY <1>4

-----------------------------------------------------------------------------
(* The handlers of compiled code.                                           *)

\* handlerStack before each instruction exists: n instructions are scanned.
ScanRule(before, code, k) ==
  before[k] = IF k = 1 THEN << >> ELSE Opened(before[k - 1], code[k - 1])
IsScan(before, code, n) ==
  before = [k \in 1..n + 1 |-> IF k = 1 THEN << >> ELSE Opened(before[k - 1], code[k - 1])]

LEMMA ScanExists ==
  ASSUME NEW code, Len(code) \in Nat
  PROVE  IsScan(HandlerStack(code), code, Len(code))
<1> DEFINE S == {n \in Nat : \E before : IsScan(before, code, n)}
<1>1. 0 \in S
  <2>1. IsScan([j \in 1..1 |-> << >>], code, 0)
    BY DEF IsScan
  <2> QED BY <2>1
<1>2. ASSUME NEW n \in S PROVE n + 1 \in S
  <2>1. PICK s : IsScan(s, code, n)
    OBVIOUS
  <2> DEFINE t == [j \in 1..n + 2 |-> IF j = n + 2 THEN Opened(s[n + 1], code[n + 1]) ELSE s[j]]
  <2>2. \A j \in 1..n + 2 : t[j] = IF j = 1 THEN << >> ELSE Opened(t[j - 1], code[j - 1])
    <3>1. \A j \in 1..n + 1 : s[j] = IF j = 1 THEN << >> ELSE Opened(s[j - 1], code[j - 1])
      BY <2>1 DEF IsScan
    <3> SUFFICES ASSUME NEW j \in 1..n + 2
                 PROVE  t[j] = IF j = 1 THEN << >> ELSE Opened(t[j - 1], code[j - 1])
      OBVIOUS
    <3>2. CASE j = n + 2
      BY <3>2
    <3>3. CASE j \in 1..n + 1
      <4>1. t[j] = s[j] /\ (j # 1 => t[j - 1] = s[j - 1])
        BY <3>3
      <4> QED BY <3>1, <3>3, <4>1
    <3> QED BY <3>2, <3>3
  <2>3. IsScan(t, code, n + 1)
    BY <2>2 DEF IsScan
  <2> QED BY <2>3
<1>3. S = Nat
  <2> HIDE DEF S
  <2>1. S \in SUBSET Nat
    BY DEF S
  <2> QED BY <1>1, <1>2, <2>1, Induct
<1>4. \E before : IsScan(before, code, Len(code))
  BY <1>3
<1> QED BY <1>4 DEF HandlerStack, IsScan

LEMMA ScanIs ==
  ASSUME NEW code, Len(code) \in Nat, NEW k \in 1..Len(code) + 1
  PROVE  ScanRule(HandlerStack(code), code, k)
BY ScanExists DEF IsScan, ScanRule

\* The innermost of the open try statements is the last one.
LEMMA InnermostIsLast ==
  ASSUME NEW code, IsCode(code), WellNested(code), NEW ip \in Int,
         NEW i \in OpenTries(code, ip), \A j \in OpenTries(code, ip) : j <= i
  PROVE  IsInnermost(code, ip, i)
<1> SUFFICES ASSUME NEW j \in OpenTries(code, ip) PROVE code[j].target >= code[i].target
  BY DEF IsInnermost
<1>1. i \in Tries(code) /\ j \in Tries(code) /\ InBody(code, i, ip) /\ InBody(code, j, ip)
  BY OpenIs
<1>2. /\ i \in Nat /\ j \in Nat /\ code[i].target \in Int /\ code[j].target \in Int
      /\ End(code, j) = code[j].target - 2 /\ End(code, i) = code[i].target - 2
  BY <1>1, TryIs DEF IsCode, End
<1>3. CASE j = i
  BY <1>2, <1>3
<1>4. CASE j < i
  <2>1. InBody(code, j, i)
    BY <1>1, <1>2, <1>4 DEF InBody
  <2>2. code[i].target <= End(code, j)
    BY <1>1, <2>1, Nested
  <2> QED BY <1>2, <2>2
<1> QED BY <1>2, <1>3, <1>4

LEMMA InnermostUnique ==
  ASSUME NEW code, IsCode(code), WellNested(code), NEW ip \in Int, NEW i, NEW j,
         IsInnermost(code, ip, i), IsInnermost(code, ip, j)
  PROVE  i = j
<1>1. i \in Tries(code) /\ j \in Tries(code)
  BY OpenIs DEF IsInnermost
<1>2. code[i].target \in Int /\ code[j].target \in Int
  BY <1>1, TryIs DEF IsCode
<1>3. code[i].target = code[j].target
  BY <1>2 DEF IsInnermost
<1> QED BY <1>1, <1>3, OneHandler

\* The open try statements in the order of the code, and the handlers of them.
HandlerOf(code, i) == [target |-> code[i].target, slot |-> code[i].dest]
InOrder(q)         == \A j, k \in 1..Len(q) : j < k => q[j] < q[k]
Lists(q, S)        == /\ IsSequence(q) /\ InOrder(q)
                      /\ \A k \in 1..Len(q) : q[k] \in S
                      /\ \A i \in S : \E k \in 1..Len(q) : q[k] = i
IsStack(code, s, q) ==
  IsSequence(s) /\ Len(s) = Len(q) /\ \A k \in 1..Len(q) : s[k] = HandlerOf(code, q[k])
Scanned(code, ip, s) == \E q : Lists(q, OpenTries(code, ip)) /\ IsStack(code, s, q)

LEMMA LastOfList ==
  ASSUME NEW q, NEW S \in SUBSET Nat, Lists(q, S), S # {}
  PROVE  /\ Len(q) \in Nat \ {0} /\ Len(q) \in 1..Len(q) /\ q[Len(q)] \in S
         /\ \A i \in S : i <= q[Len(q)]
<1>1. Len(q) \in Nat
  BY SequenceIs DEF Lists
<1>2. PICK i \in S : TRUE
  OBVIOUS
<1>3. PICK k \in 1..Len(q) : q[k] = i
  BY <1>2 DEF Lists
<1>4. Len(q) \in Nat \ {0} /\ Len(q) \in 1..Len(q)
  BY <1>1, <1>3
<1>5. ASSUME NEW j \in S PROVE j <= q[Len(q)]
  <2>1. PICK l \in 1..Len(q) : q[l] = j
    BY DEF Lists
  <2>2. l = Len(q) \/ l < Len(q)
    BY <1>4
  <2>3. q[Len(q)] \in S
    BY <1>4 DEF Lists
  <2>4. l < Len(q) => q[l] < q[Len(q)]
    BY <1>4 DEF Lists, InOrder
  <2>5. j \in Nat /\ q[Len(q)] \in Nat
    BY <2>3
  <2>6. CASE l = Len(q)
    BY <2>1, <2>5, <2>6
  <2>7. CASE l < Len(q)
    <3>1. j < q[Len(q)]
      BY <2>1, <2>4, <2>7
    <3> QED BY <2>5, <3>1
  <2> QED BY <2>2, <2>6, <2>7
<1> QED BY <1>4, <1>5 DEF Lists

LEMMA ListPushed ==
  ASSUME NEW q, NEW S \in SUBSET Nat, Lists(q, S), NEW n \in Nat, \A i \in S : i < n
  PROVE  Lists(Append(q, n), S \cup {n})
<1> DEFINE t == Append(q, n)
<1>1. /\ Len(q) \in Nat /\ IsSequence(t) /\ Len(t) = Len(q) + 1
      /\ \A k \in 1..Len(q) : t[k] = q[k] /\ q[k] \in S
      /\ t[Len(q) + 1] = n
  BY SequenceIs, AppendIs DEF Lists
<1> HIDE DEF t
<1>2. \A k \in 1..Len(t) : k \in 1..Len(q) \/ k = Len(q) + 1
  BY <1>1
<1>3. \A k \in 1..Len(t) : t[k] \in S \cup {n}
  BY <1>1, <1>2
<1>4. ASSUME NEW i \in S \cup {n} PROVE \E k \in 1..Len(t) : t[k] = i
  <2>1. CASE i = n
    <3>1. Len(q) + 1 \in 1..Len(t)
      BY <1>1
    <3> QED BY <1>1, <2>1, <3>1
  <2>2. CASE i \in S
    <3>1. PICK k \in 1..Len(q) : q[k] = i
      BY <2>2 DEF Lists
    <3>2. k \in 1..Len(t) /\ t[k] = i
      BY <1>1, <3>1
    <3> QED BY <3>2
  <2> QED BY <2>1, <2>2
<1>5. InOrder(t)
  <2> SUFFICES ASSUME NEW j \in 1..Len(t), NEW k \in 1..Len(t), j < k PROVE t[j] < t[k]
    BY DEF InOrder
  <2>1. j \in 1..Len(q)
    BY <1>1
  <2>2. CASE k \in 1..Len(q)
    BY <1>1, <2>1, <2>2 DEF Lists, InOrder
  <2>3. CASE k = Len(q) + 1
    BY <1>1, <2>1, <2>3
  <2> QED BY <1>2, <2>2, <2>3
<1> QED BY <1>1, <1>3, <1>4, <1>5 DEF Lists, t

LEMMA PopIs ==
  ASSUME NEW s, IsSequence(s), s # << >>
  PROVE  /\ IsSequence(SubSeq(s, 1, Len(s) - 1)) /\ Len(SubSeq(s, 1, Len(s) - 1)) = Len(s) - 1
         /\ \A k \in 1..Len(s) - 1 : SubSeq(s, 1, Len(s) - 1)[k] = s[k]
<1>1. Len(s) \in Nat \ {0}
  BY SequenceIs
<1>2. Len(s) - 1 \in Nat /\ Len(s) - 1 <= Len(s)
  BY <1>1
<1> DEFINE n == Len(s) - 1
<1>3. n \in Nat /\ n <= Len(s)
  BY <1>2
<1> HIDE DEF n
<1>4. /\ IsSequence(SubSeq(s, 1, n)) /\ Len(SubSeq(s, 1, n)) = n
      /\ \A k \in 1..n : SubSeq(s, 1, n)[k] = s[k]
  BY <1>3, PrefixIs
<1> QED BY <1>4 DEF n

LEMMA ListPopped ==
  ASSUME NEW q, NEW S \in SUBSET Nat, Lists(q, S), S # {}
  PROVE  Lists(Pop(q), S \ {q[Len(q)]})
<1> DEFINE t == Pop(q)
           l == q[Len(q)]
<1>1. Len(q) \in Nat \ {0} /\ Len(q) \in 1..Len(q) /\ l \in S
  BY LastOfList
<1>2. /\ IsSequence(t) /\ Len(t) = Len(q) - 1
      /\ \A k \in 1..Len(t) : t[k] = q[k] /\ k \in 1..Len(q) /\ k < Len(q)
  <2>1. IsSequence(q) /\ q # << >>
    BY <1>1, SequenceIs DEF Lists
  <2>2. IsSequence(t) /\ Len(t) = Len(q) - 1 /\ \A k \in 1..Len(q) - 1 : t[k] = q[k]
    BY <2>1, PopIs DEF Pop
  <2> HIDE DEF t
  <2> QED BY <1>1, <2>2
<1> HIDE DEF t
<1>3. \A k \in 1..Len(t) : t[k] \in S \ {l}
  <2> SUFFICES ASSUME NEW k \in 1..Len(t) PROVE t[k] \in S \ {l}
    OBVIOUS
  <2>1. q[k] \in S /\ q[k] < l
    BY <1>1, <1>2 DEF Lists, InOrder
  <2> HIDE DEF l
  <2>2. l \in Nat /\ q[k] \in Nat
    BY <1>1, <2>1
  <2>3. q[k] # l
    BY <2>1, <2>2
  <2> QED BY <1>2, <2>1, <2>3
<1>4. ASSUME NEW i \in S \ {l} PROVE \E k \in 1..Len(t) : t[k] = i
  <2>1. PICK k \in 1..Len(q) : q[k] = i
    BY DEF Lists
  <2>2. k # Len(q)
    BY <2>1
  <2>3. k \in 1..Len(t) /\ t[k] = i
    BY <1>1, <1>2, <2>1, <2>2
  <2> QED BY <2>3
<1>5. InOrder(t)
  <2> SUFFICES ASSUME NEW j \in 1..Len(t), NEW k \in 1..Len(t), j < k PROVE t[j] < t[k]
    BY DEF InOrder
  <2>1. q[j] < q[k]
    BY <1>2 DEF Lists, InOrder
  <2> QED BY <1>2, <2>1
<1> QED BY <1>2, <1>3, <1>4, <1>5 DEF Lists, t

LEMMA OpenAreBefore ==
  ASSUME NEW code, IsCode(code), NEW ip \in Int
  PROVE  OpenTries(code, ip) \in SUBSET Nat /\ \A i \in OpenTries(code, ip) : i < ip
BY DEF OpenTries, IsCode

LEMMA ScanStep ==
  ASSUME NEW code, IsCode(code), WellNested(code), NEW k \in 1..Len(code), NEW s,
         Scanned(code, k, s)
  PROVE  Scanned(code, k + 1, Opened(s, code[k]))
<1> DEFINE O == OpenTries(code, k)
<1>1. PICK q : Lists(q, O) /\ IsStack(code, s, q)
  BY DEF Scanned
<1>2. k \in Nat /\ k \in Int /\ k + 1 \in Int /\ O \in SUBSET Nat /\ \A i \in O : i < k
  <2>1. k \in Nat /\ k \in Int
    OBVIOUS
  <2> QED BY <2>1, OpenAreBefore
<1> HIDE DEF O
<1>3. CASE code[k].op \notin {"ENTER_TRY", "LEAVE_TRY"}
  <2>1. Opened(s, code[k]) = s
    BY <1>3 DEF Opened
  <2>2. OpenTries(code, k + 1) = O
    BY <1>3, PlainStep DEF O
  <2> QED BY <1>1, <2>1, <2>2 DEF Scanned
<1>4. CASE code[k].op = "ENTER_TRY"
  <2>1. Opened(s, code[k]) = Append(s, HandlerOf(code, k))
    BY <1>4 DEF Opened, HandlerOf
  <2>2. OpenTries(code, k + 1) = O \cup {k}
    BY <1>4, EnterStep DEF O
  <2>3. Lists(Append(q, k), O \cup {k})
    BY <1>1, <1>2, ListPushed
  <2>4. IsStack(code, Append(s, HandlerOf(code, k)), Append(q, k))
    <3> DEFINE t == Append(q, k)
               u == Append(s, HandlerOf(code, k))
    <3>1. /\ Len(q) \in Nat /\ Len(s) = Len(q) /\ Len(t) = Len(q) + 1
          /\ \A j \in 1..Len(q) : t[j] = q[j] /\ s[j] = HandlerOf(code, q[j])
          /\ t[Len(q) + 1] = k
      BY <1>1, SequenceIs, AppendIs DEF Lists, IsStack
    <3>2. /\ IsSequence(u) /\ Len(u) = Len(s) + 1 /\ \A j \in 1..Len(s) : u[j] = s[j]
          /\ u[Len(s) + 1] = HandlerOf(code, k)
      BY <1>1, AppendIs DEF IsStack
    <3> HIDE DEF t, u
    <3>3. ASSUME NEW j \in 1..Len(t) PROVE u[j] = HandlerOf(code, t[j])
      <4>1. j \in 1..Len(q) \/ j = Len(q) + 1
        BY <3>1
      <4> QED BY <3>1, <3>2, <4>1
    <3>4. IsStack(code, u, t)
      BY <3>1, <3>2, <3>3 DEF IsStack
    <3> QED BY <3>4 DEF t, u
  <2> QED BY <2>1, <2>2, <2>3, <2>4 DEF Scanned
<1>5. CASE code[k].op = "LEAVE_TRY"
  <2>1. PICK e \in O : /\ IsInnermost(code, k, e)
                       /\ OpenTries(code, k + 1) = O \ {e}
    BY <1>5, LeaveStep DEF O
  <2>2. /\ Len(q) \in Nat \ {0} /\ q[Len(q)] \in O /\ \A i \in O : i <= q[Len(q)]
    BY <1>1, <1>2, <2>1, LastOfList
  <2>3. q[Len(q)] = e
    <3>1. IsInnermost(code, k, q[Len(q)])
      BY <1>2, <2>2, InnermostIsLast DEF O
    <3> QED BY <1>2, <2>1, <3>1, InnermostUnique
  <2>4. Lists(Pop(q), O \ {e})
    BY <1>1, <1>2, <2>1, <2>3, ListPopped
  <2>5. s # << >> /\ IsSequence(s) /\ Len(s) = Len(q)
    BY <1>1, <2>2, SequenceIs DEF IsStack
  <2>6. Opened(s, code[k]) = Pop(s)
    BY <1>5, <2>5 DEF Opened, Pop
  <2>7. IsStack(code, Pop(s), Pop(q))
    <3>1. q # << >> /\ IsSequence(q)
      BY <1>1, <2>2, SequenceIs DEF Lists
    <3> DEFINE t == Pop(q)
               u == Pop(s)
    <3>2. Len(t) = Len(q) - 1 /\ \A j \in 1..Len(q) - 1 : t[j] = q[j]
      BY <3>1, PopIs DEF Pop
    <3>3. IsSequence(u) /\ Len(u) = Len(s) - 1 /\ \A j \in 1..Len(s) - 1 : u[j] = s[j]
      BY <2>5, PopIs DEF Pop
    <3> HIDE DEF t, u
    <3>4. \A j \in 1..Len(q) - 1 : s[j] = HandlerOf(code, q[j])
      BY <1>1, <2>2 DEF IsStack
    <3>5. IsStack(code, u, t)
      BY <2>5, <3>2, <3>3, <3>4 DEF IsStack
    <3> QED BY <3>5 DEF t, u
  <2> QED BY <2>1, <2>4, <2>6, <2>7 DEF Scanned
<1> QED BY <1>3, <1>4, <1>5

LEMMA AllScanned ==
  ASSUME NEW code, IsCode(code), WellNested(code), NEW k \in 1..Len(code) + 1
  PROVE  Scanned(code, k, HandlerStack(code)[k])
<1> DEFINE S == {n \in Nat : n \in 1..Len(code) + 1 => Scanned(code, n, HandlerStack(code)[n])}
<1>1. Len(code) \in Nat
  BY DEF IsCode
<1>2. 0 \in S
  OBVIOUS
<1>3. ASSUME NEW n \in S PROVE n + 1 \in S
  <2> SUFFICES ASSUME n + 1 \in 1..Len(code) + 1
               PROVE  Scanned(code, n + 1, HandlerStack(code)[n + 1])
    OBVIOUS
  <2>0. ScanRule(HandlerStack(code), code, n + 1)
    BY <1>1, ScanIs
  <2>1. CASE n = 0
    <3>1. HandlerStack(code)[n + 1] = << >>
      BY <2>0, <2>1 DEF ScanRule
    <3>2. OpenTries(code, n + 1) = {}
      BY <2>1, InNoBody
    <3>3. IsSequence(<< >>) /\ Len(<< >>) = 0
      BY DEF IsSequence
    <3>4. Lists(<< >>, {}) /\ IsStack(code, << >>, << >>)
      BY <3>3 DEF Lists, InOrder, IsStack
    <3> QED BY <3>1, <3>2, <3>4 DEF Scanned
  <2>2. CASE n # 0
    <3>1. n \in 1..Len(code) /\ n \in 1..Len(code) + 1
      BY <1>1, <2>2
    <3>2. Scanned(code, n, HandlerStack(code)[n])
      BY <3>1
    <3>3. HandlerStack(code)[n + 1] = Opened(HandlerStack(code)[n], code[n])
      BY <2>0, <2>2, <3>1 DEF ScanRule
    <3> QED BY <3>1, <3>2, <3>3, ScanStep
  <2> QED BY <2>1, <2>2
<1>4. S = Nat
  <2> HIDE DEF S
  <2>1. S \in SUBSET Nat
    BY DEF S
  <2> QED BY <1>2, <1>3, <2>1, Induct
<1>5. k \in S
  BY <1>1, <1>4
<1> QED BY <1>5

\* The table of handlers says for each instruction which try statement it is
\* in, the innermost one, or none (handlerTarget, handlerErrorSlot).
THEOREM HandlersAreLexical ==
  ASSUME NEW code, IsCode(code), WellNested(code), NEW k \in 1..Len(code)
  PROVE  /\ OpenTries(code, k) = {} => Handlers(code)[k] = NoHandler
         /\ \A i : IsInnermost(code, k, i) => Handlers(code)[k] = HandlerOf(code, i)
<1> DEFINE s == HandlerStack(code)[k]
           O == OpenTries(code, k)
<1>1. Handlers(code)[k] = InnermostHandler(s)
  BY DEF Handlers
<1>2. k \in Int /\ k \in 1..Len(code) + 1 /\ O \in SUBSET Nat
  <2>1. k \in Int /\ Len(code) \in Nat
    BY DEF IsCode
  <2> QED BY <2>1, OpenAreBefore
<1>3. Scanned(code, k, s)
  BY <1>2, AllScanned
<1> HIDE DEF s
<1>4. PICK q : Lists(q, O) /\ IsStack(code, s, q)
  BY <1>3 DEF Scanned
<1> HIDE DEF O
<1>5. ASSUME O = {} PROVE Handlers(code)[k] = NoHandler
  <2>1. Len(q) = 0
    BY <1>4, <1>5, SequenceIs DEF Lists
  <2>2. s = << >>
    BY <1>4, <2>1, SequenceIs DEF IsStack
  <2> QED BY <1>1, <2>2 DEF InnermostHandler
<1>6. ASSUME NEW i, IsInnermost(code, k, i) PROVE Handlers(code)[k] = HandlerOf(code, i)
  <2>1. O # {}
    BY <1>6 DEF IsInnermost, O
  <2>2. Len(q) \in Nat \ {0} /\ Len(q) \in 1..Len(q) /\ q[Len(q)] \in O /\ \A j \in O : j <= q[Len(q)]
    BY <1>2, <1>4, <2>1, LastOfList
  <2>3. q[Len(q)] = i
    <3>1. IsInnermost(code, k, q[Len(q)])
      BY <1>2, <2>2, InnermostIsLast DEF O
    <3> QED BY <1>2, <1>6, <3>1, InnermostUnique
  <2>4. s # << >> /\ Len(s) = Len(q) /\ s[Len(q)] = HandlerOf(code, i)
    BY <1>4, <2>2, <2>3, SequenceIs DEF IsStack
  <2> QED BY <1>1, <2>4 DEF InnermostHandler
<1> QED BY <1>5, <1>6 DEF O

-----------------------------------------------------------------------------
(* Frames that wait for the ones they called.                               *)

Slotted(p, frame) == DOMAIN frame.slots = 0..Code[p][frame.fn].slotCount - 1
Waits(p, a, b) ==
  /\ a.ip - 1 \in 1..Len(CodeOf(p, a)) /\ CodeOf(p, a)[a.ip - 1].op = "CALL"
  /\ b.fn = "f" /\ b.dest \in DOMAIN a.slots
Stacked(p, cs) ==
  /\ cs # << >> /\ Framed(p, cs)
  /\ \A d \in 1..Len(cs) : Slotted(p, cs[d])
  /\ \A d \in 1..Len(cs) : d + 1 \in 1..Len(cs) => Waits(p, cs[d], cs[d + 1])

\* cs2 is cs up to frame d, which is replaced.
Cut(cs, cs2, d, frame) ==
  /\ IsSequence(cs2) /\ d \in 1..Len(cs) /\ Len(cs2) = d /\ cs2[d] = frame
  /\ \A k \in 1..d : k # d => cs2[k] = cs[k]

LEMMA SameSequence ==
  ASSUME NEW s, NEW t, IsSequence(s), IsSequence(t), Len(s) = Len(t),
         \A k \in 1..Len(s) : s[k] = t[k]
  PROVE  s = t
<1> DEFINE S == {s[k] : k \in DOMAIN s} \cup {t[k] : k \in DOMAIN t}
<1>1. s \in Seq(S) /\ t \in Seq(S)
  BY DEF IsSequence
<1> HIDE DEF S
<1> QED BY <1>1

LEMMA CutIs ==
  ASSUME NEW cs, NEW cs2, NEW cs3, NEW d, NEW frame, Cut(cs, cs2, d, frame), Cut(cs, cs3, d, frame)
  PROVE  cs2 = cs3
<1>1. \A k \in 1..d : cs2[k] = cs3[k]
  BY DEF Cut
<1> QED BY <1>1, SameSequence DEF Cut

LEMMA CutCut ==
  ASSUME NEW cs, NEW cs2, NEW cs3, NEW d, NEW f, NEW g, Cut(cs, cs2, d, f), Cut(cs2, cs3, d, g)
  PROVE  Cut(cs, cs3, d, g)
BY DEF Cut

LEMMA ReplacedIsCut ==
  ASSUME NEW cs, IsSequence(cs), cs # << >>, NEW frame
  PROVE  Cut(cs, [cs EXCEPT ![Len(cs)] = frame], Len(cs), frame)
<1> DEFINE t == [cs EXCEPT ![Len(cs)] = frame]
<1>1. Len(cs) \in 1..Len(cs)
  BY SequenceIs
<1>2. /\ IsSequence(t) /\ Len(t) = Len(cs)
      /\ t[Len(cs)] = frame
      /\ \A k \in 1..Len(cs) : k # Len(cs) => t[k] = cs[k]
  <2> DEFINE n == Len(cs)
  <2>1. n \in 1..Len(cs)
    BY <1>1
  <2> HIDE DEF n
  <2>2. /\ IsSequence([cs EXCEPT ![n] = frame]) /\ Len([cs EXCEPT ![n] = frame]) = Len(cs)
        /\ [cs EXCEPT ![n] = frame][n] = frame
        /\ \A k \in 1..Len(cs) : k # n => [cs EXCEPT ![n] = frame][k] = cs[k]
    BY <2>1, ExceptIs
  <2> QED BY <2>2 DEF n
<1> HIDE DEF t
<1>3. Cut(cs, t, Len(cs), frame)
  BY <1>1, <1>2 DEF Cut
<1> QED BY <1>3 DEF t

LEMMA PoppedIsCut ==
  ASSUME NEW cs, IsSequence(cs), cs # << >>, Len(cs) # 1
  PROVE  /\ Len(cs) - 1 \in 1..Len(cs) /\ Len(cs) - 1 \in Nat
         /\ Cut(cs, Pop(cs), Len(cs) - 1, cs[Len(cs) - 1])
<1>1. Len(cs) \in Nat \ {0}
  BY SequenceIs
<1> DEFINE n == Len(cs) - 1
           t == Pop(cs)
<1>2. n \in 1..Len(cs) /\ n \in 1..n /\ n \in Nat
  <2>1. n = Len(cs) - 1
    OBVIOUS
  <2> HIDE DEF n, t
  <2>2. n \in Nat /\ n >= 1 /\ n <= Len(cs)
    BY <1>1, <2>1
  <2> QED BY <1>1, <2>2
<1>3. IsSequence(t) /\ Len(t) = n /\ \A k \in 1..n : t[k] = cs[k]
  <2>1. t = SubSeq(cs, 1, Len(cs) - 1)
    BY DEF Pop
  <2> HIDE DEF t
  <2> QED BY <2>1, PopIs
<1> HIDE DEF t, n
<1>4. Cut(cs, t, n, cs[n])
  BY <1>2, <1>3 DEF Cut
<1> QED BY <1>2, <1>4 DEF n, t

LEMMA OuterIsCut ==
  ASSUME NEW cs, IsSequence(cs), NEW d \in 1..Len(cs), NEW frame
  PROVE  Cut(cs, Outer(cs, d, frame), d, frame)
<1>1. Len(cs) \in Nat /\ d \in Nat /\ d - 1 \in Nat /\ d - 1 <= Len(cs)
  BY SequenceIs
<1> DEFINE n == d - 1
           s == SubSeq(cs, 1, d - 1)
           t == Outer(cs, d, frame)
<1>2. n \in Nat /\ n <= Len(cs) /\ d = n + 1
  BY <1>1
<1>3. IsSequence(s) /\ Len(s) = n /\ \A k \in 1..n : s[k] = cs[k]
  <2> HIDE DEF n
  <2>1. IsSequence(SubSeq(cs, 1, n)) /\ Len(SubSeq(cs, 1, n)) = n
        /\ \A k \in 1..n : SubSeq(cs, 1, n)[k] = cs[k]
    BY <1>2, PrefixIs
  <2> QED BY <2>1 DEF n
<1>4. t = Append(s, frame)
  BY DEF Outer
<1> HIDE DEF n, s, t
<1>5. IsSequence(t) /\ Len(t) = n + 1 /\ t[n + 1] = frame /\ \A k \in 1..n : t[k] = s[k]
  BY <1>3, <1>4, AppendIs
<1>6. \A k \in 1..d : k # d => k \in 1..n
  BY <1>2
<1>7. Cut(cs, t, d, frame)
  BY <1>2, <1>3, <1>5, <1>6 DEF Cut
<1> QED BY <1>7 DEF t

LEMMA CutIsOuter ==
  ASSUME NEW cs, IsSequence(cs), NEW cs2, NEW d, NEW frame, Cut(cs, cs2, d, frame)
  PROVE  cs2 = Outer(cs, d, frame)
<1>1. d \in 1..Len(cs)
  BY DEF Cut
<1> QED BY <1>1, OuterIsCut, CutIs

\* What may take the place of a frame.
Replaces(p, a, b) ==
  /\ DOMAIN b = Fields /\ b.fn = a.fn /\ b.dest = a.dest /\ DOMAIN b.slots = DOMAIN a.slots
  /\ b.ip \in 1..Len(CodeOf(p, a)) + 1

LEMMA CutStacked ==
  ASSUME NEW p, NEW cs, NEW cs2, NEW d, NEW frame, Stacked(p, cs), Cut(cs, cs2, d, frame),
         Replaces(p, cs[d], frame)
  PROVE  Stacked(p, cs2)
<1>1. /\ IsSequence(cs) /\ Len(cs) \in Nat /\ d \in 1..Len(cs) /\ d \in Nat
      /\ IsSequence(cs2) /\ Len(cs2) = d /\ cs2[d] = frame
      /\ \A k \in 1..d : k # d => cs2[k] = cs[k]
  BY SequenceIs DEF Stacked, Framed, Cut
<1>2. IsFrame(p, frame) /\ Slotted(p, frame)
  <2>1. IsFrame(p, cs[d]) /\ Slotted(p, cs[d])
    BY <1>1 DEF Stacked, Framed
  <2> QED BY <2>1 DEF Replaces, IsFrame, Slotted, CodeOf, Fields
<1>3. ASSUME NEW k \in 1..d PROVE IsFrame(p, cs2[k]) /\ Slotted(p, cs2[k])
  <2>1. CASE k = d
    BY <1>1, <1>2, <2>1
  <2>2. CASE k # d
    <3>1. IsFrame(p, cs[k]) /\ Slotted(p, cs[k])
      BY <1>1 DEF Stacked, Framed
    <3> QED BY <1>1, <2>2, <3>1
  <2> QED BY <2>1, <2>2
<1>4. ASSUME NEW k \in 1..d, k + 1 \in 1..d PROVE Waits(p, cs2[k], cs2[k + 1])
  <2>1. k # d /\ k \in 1..Len(cs) /\ k + 1 \in 1..Len(cs) /\ cs2[k] = cs[k]
    BY <1>1, <1>4
  <2>2. Waits(p, cs[k], cs[k + 1])
    BY <2>1 DEF Stacked
  <2>3. cs2[k + 1].fn = cs[k + 1].fn /\ cs2[k + 1].dest = cs[k + 1].dest
    <3>1. CASE k + 1 = d
      BY <1>1, <3>1 DEF Replaces
    <3>2. CASE k + 1 # d
      BY <1>1, <1>4, <3>2
    <3> QED BY <3>1, <3>2
  <2> QED BY <2>1, <2>2, <2>3 DEF Waits
<1>5. cs2 # << >>
  BY <1>1, SequenceIs
<1> QED BY <1>1, <1>3, <1>4, <1>5 DEF Stacked, Framed

LEMMA StackedTop ==
  ASSUME NEW p, NEW cs, Stacked(p, cs)
  PROVE  /\ IsSequence(cs) /\ cs # << >> /\ Len(cs) \in Nat \ {0} /\ DOMAIN cs = 1..Len(cs)
         /\ Len(cs) \in 1..Len(cs)
         /\ \A d \in 1..Len(cs) : IsFrame(p, cs[d]) /\ DOMAIN cs[d] = Fields /\ Slotted(p, cs[d])
<1>1. IsSequence(cs) /\ cs # << >> /\ Framed(p, cs)
  BY DEF Stacked, Framed
<1>2. Len(cs) \in Nat \ {0} /\ DOMAIN cs = 1..Len(cs) /\ Len(cs) \in 1..Len(cs)
  BY <1>1, SequenceIs
<1> QED BY <1>1, <1>2 DEF Stacked, Framed, IsFrame, Fields

\* A called function begins on top.
LEMMA CallStacked ==
  ASSUME NEW p, NEW cs, NEW frame, Stacked(p, cs), IsFrame(p, frame), Slotted(p, frame),
         Waits(p, cs[Len(cs)], frame)
  PROVE  Stacked(p, Append(cs, frame))
<1> DEFINE t == Append(cs, frame)
           n == Len(cs)
<1>1. IsSequence(cs) /\ n \in Nat \ {0}
  BY StackedTop
<1>2. IsSequence(t) /\ Len(t) = n + 1 /\ t[n + 1] = frame /\ \A k \in 1..n : t[k] = cs[k]
  BY <1>1, AppendIs
<1>3. \A k \in 1..n : IsFrame(p, cs[k]) /\ Slotted(p, cs[k])
  BY StackedTop
<1>4. \A k \in 1..n : k + 1 \in 1..n => Waits(p, cs[k], cs[k + 1])
  BY DEF Stacked
<1>5. Waits(p, cs[n], frame)
  OBVIOUS
<1> HIDE DEF t, n
<1>6. \A k \in 1..n + 1 : k \in 1..n \/ k = n + 1
  BY <1>1
<1>7. \A k \in 1..n + 1 : IsFrame(p, t[k]) /\ Slotted(p, t[k])
  BY <1>2, <1>3, <1>6
<1>8. ASSUME NEW k \in 1..n + 1, k + 1 \in 1..n + 1 PROVE Waits(p, t[k], t[k + 1])
  <2>1. k \in 1..n /\ (k + 1 \in 1..n \/ k = n)
    BY <1>1, <1>8
  <2> QED BY <1>2, <1>4, <1>5, <2>1
<1>9. t # << >>
  BY <1>1, <1>2, SequenceIs
<1>10. Stacked(p, t)
  BY <1>2, <1>7, <1>8, <1>9 DEF Stacked, Framed
<1> QED BY <1>10 DEF t

Rides == status = "running" /\ pid \in 1..Len(Code) /\ Stacked(pid, callStack)

\* The code of a frame.
LEMMA FrameFits ==
  ASSUME NEW p \in 1..Len(Code), NEW frame, IsFrame(p, frame)
  PROVE  /\ IsCode(CodeOf(p, frame)) /\ Len(CodeOf(p, frame)) \in Nat
         /\ FitsFrame(Code[p][frame.fn]) /\ CodeOf(p, frame) = Code[p][frame.fn].code
         /\ frame.ip \in 1..Len(CodeOf(p, frame)) + 1 /\ frame.ip \in Int
<1>1. IsCode(CodeOf(p, frame)) /\ FitsFrame(Code[p][frame.fn])
  BY CodeAssumption DEF IsFrame, CodeOf
<1>2. frame.ip \in 1..Len(CodeOf(p, frame)) + 1 /\ Len(CodeOf(p, frame)) \in Nat
  BY <1>1 DEF IsFrame, IsCode
<1> QED BY <1>1, <1>2 DEF CodeOf

LEMMA RidesAt ==
  ASSUME Rides, NEW ops, NEW i \in Current(ops)
  PROVE  /\ Top.ip \in 1..Len(Body) /\ Top.ip \in Nat /\ Top.ip + 1 \in 1..Len(Body) + 1
         /\ Top.ip + 1 \in Int /\ (Top.ip + 1) - 1 = Top.ip
         /\ i = Body[Top.ip] /\ i.op \in ops
         /\ Body = CodeOf(pid, Top) /\ Top = callStack[Len(callStack)]
         /\ IsCode(Body) /\ FitsFrame(Code[pid][Top.fn]) /\ Len(Body) \in Nat
         /\ (i.op \in Filling => i.dest \in DOMAIN Top.slots)
<1>1. Body = CodeOf(pid, Top) /\ Top = callStack[Len(callStack)] /\ Body = Code[pid][Top.fn].code
  BY DEF Body, Top, CodeOf
<1>2. Top.ip <= Len(Body) /\ i = Body[Top.ip] /\ i.op \in ops
  BY DEF Current, CurrentOf
<1>3. IsFrame(pid, Top) /\ Slotted(pid, Top)
  BY <1>1, StackedTop DEF Rides
<1>4. /\ IsCode(Body) /\ FitsFrame(Code[pid][Top.fn]) /\ Len(Body) \in Nat
      /\ Top.ip \in 1..Len(Body) + 1 /\ Top.ip \in Int
  BY <1>1, <1>3, FrameFits DEF Rides
<1>5. /\ Top.ip \in 1..Len(Body) /\ Top.ip \in Nat /\ Top.ip + 1 \in 1..Len(Body) + 1
      /\ Top.ip + 1 \in Int /\ (Top.ip + 1) - 1 = Top.ip
  BY <1>2, <1>4
<1>6. i.op \in Filling => i.dest \in DOMAIN Top.slots
  BY <1>1, <1>2, <1>3, <1>4, <1>5 DEF FitsFrame, Slotted
<1> QED BY <1>1, <1>2, <1>4, <1>5, <1>6

\* The running frame goes to ip, or gets a value first.
LEMMA GotoCuts ==
  ASSUME Rides, NEW t, t \in 1..Len(Body) + 1
  PROVE  /\ Cut(callStack, Goto(t), Len(callStack), [Top EXCEPT !.ip = t])
         /\ Replaces(pid, Top, [Top EXCEPT !.ip = t])
<1>1. /\ IsSequence(callStack) /\ callStack # << >> /\ Len(callStack) \in 1..Len(callStack)
      /\ DOMAIN callStack = 1..Len(callStack) /\ DOMAIN Top = Fields
  BY StackedTop DEF Rides, Top
<1> DEFINE frame == [Top EXCEPT !.ip = t]
<1>2. Goto(t) = [callStack EXCEPT ![Len(callStack)] = frame]
  BY DEF Goto, Top
<1>3. Replaces(pid, Top, frame)
  BY <1>1 DEF Replaces, Fields, Body, CodeOf
<1> HIDE DEF frame
<1>4. Cut(callStack, Goto(t), Len(callStack), frame)
  BY <1>1, <1>2, ReplacedIsCut
<1> QED BY <1>3, <1>4 DEF frame

LEMMA StepCuts ==
  ASSUME Rides, Top.ip + 1 \in 1..Len(Body) + 1
  PROVE  /\ Cut(callStack, Step, Len(callStack), [Top EXCEPT !.ip = Top.ip + 1])
         /\ Replaces(pid, Top, [Top EXCEPT !.ip = Top.ip + 1])
<1>1. Step = Goto(Top.ip + 1)
  BY DEF Step, Goto, Top
<1> QED BY <1>1, GotoCuts

LEMMA StoreCuts ==
  ASSUME Rides, NEW d, NEW v, Top.ip + 1 \in 1..Len(Body) + 1
  PROVE  /\ Cut(callStack, Store(d, v), Len(callStack),
                [Top EXCEPT !.ip = Top.ip + 1, !.slots[d] = v])
         /\ Replaces(pid, Top, [Top EXCEPT !.ip = Top.ip + 1, !.slots[d] = v])
<1>1. /\ IsSequence(callStack) /\ callStack # << >> /\ Len(callStack) \in 1..Len(callStack)
      /\ DOMAIN callStack = 1..Len(callStack) /\ DOMAIN Top = Fields
  BY StackedTop DEF Rides, Top
<1> DEFINE frame == [Top EXCEPT !.ip = Top.ip + 1, !.slots[d] = v]
<1>2. Store(d, v) = [callStack EXCEPT ![Len(callStack)] = frame]
  BY <1>1 DEF Store, Top, Fields
<1>3. Replaces(pid, Top, frame)
  BY <1>1 DEF Replaces, Fields, Body, CodeOf
<1> HIDE DEF frame
<1>4. Cut(callStack, Store(d, v), Len(callStack), frame)
  BY <1>1, <1>2, ReplacedIsCut
<1> QED BY <1>3, <1>4 DEF frame

\* A frame whose slots change.
LEMMA SlotReplaces ==
  ASSUME NEW p \in 1..Len(Code), NEW a, IsFrame(p, a), NEW s, NEW v
  PROVE  Replaces(p, a, [a EXCEPT !.slots[s] = v]) /\ Replaces(p, a, a)
BY FrameFits DEF Replaces, IsFrame, Fields

LEMMA HandlingReplaces ==
  ASSUME NEW p \in 1..Len(Code), NEW a, NEW b, Replaces(p, a, b), NEW i, NEW err,
         CodeOf(p, a)[i].target \in 1..Len(CodeOf(p, a)) + 1
  PROVE  Replaces(p, a, Handling(p, b, i, err))
<1>1. CodeOf(p, b) = CodeOf(p, a)
  BY DEF Replaces, CodeOf
<1> QED BY <1>1 DEF Replaces, Fields, Handling

\* The frame that is left, n, gives v to the one below.
Given(cs, n, v) == [cs[n - 1] EXCEPT !.slots[cs[n].dest] = v]

LEMMA GivenIsCut ==
  ASSUME NEW cs, IsSequence(cs), cs # << >>, Len(cs) # 1, NEW v, NEW dest,
         DOMAIN cs[Len(cs) - 1] = Fields
  PROVE  Cut(cs, [Pop(cs) EXCEPT ![Len(cs) - 1].slots[dest] = v], Len(cs) - 1,
             [cs[Len(cs) - 1] EXCEPT !.slots[dest] = v])
<1> DEFINE n == Len(cs) - 1
           t == Pop(cs)
           f == [cs[n] EXCEPT !.slots[dest] = v]
<1>1. n \in 1..Len(cs) /\ n \in Nat /\ Cut(cs, t, n, cs[n])
  BY PoppedIsCut
<1>2. IsSequence(t) /\ Len(t) = n /\ t[n] = cs[n] /\ t # << >>
  <2> HIDE DEF n, t
  <2> QED BY <1>1, SequenceIs DEF Cut
<1>3. [t EXCEPT ![n].slots[dest] = v] = [t EXCEPT ![n] = f]
  <2> HIDE DEF n, t
  <2> QED BY <1>2
<1> HIDE DEF n, t, f
<1>4. Cut(t, [t EXCEPT ![Len(t)] = f], Len(t), f)
  BY <1>2, ReplacedIsCut
<1>5. Cut(cs, [t EXCEPT ![n] = f], n, f)
  BY <1>1, <1>2, <1>4, CutCut
<1> QED BY <1>3, <1>5 DEF n, t, f

-----------------------------------------------------------------------------
(* Every step of NearestCatch keeps the frames in order.                    *)

KeepsStack == status' = "running" => Stacked(pid, callStack')

LEMMA TopCutKeeps ==
  ASSUME Rides, NEW frame, Cut(callStack, callStack', Len(callStack), frame),
         Replaces(pid, Top, frame)
  PROVE  KeepsStack
BY CutStacked DEF Rides, KeepsStack, Top

LEMMA LoadStacked ==
  ASSUME Rides, Load \/ AskHost \/ Effect \/ Complete \/ Pass \/ Branch
  PROVE  KeepsStack
<1>1. CASE Load \/ AskHost \/ Complete
  <2>1. \/ \E i \in Current(Loads) : callStack' = Store(i.dest, Result(i))
        \/ \E i \in Current({"ASK"}) : \E a \in i.choices : callStack' = Store(i.dest, a)
        \/ \E i \in Current(Fallible) : callStack' = Store(i.dest, 1)
    BY <1>1 DEF Load, AskHost, Complete
  <2>2. \E ops : \E i \in Current(ops) : \E d, v : callStack' = Store(d, v)
    BY <2>1
  <2>3. PICK ops : \E i \in Current(ops) : \E d, v : callStack' = Store(d, v)
    BY <2>2
  <2>4. PICK i \in Current(ops) : \E d, v : callStack' = Store(d, v)
    BY <2>3
  <2>5. PICK d, v : callStack' = Store(d, v)
    BY <2>4
  <2> QED BY <2>5, RidesAt, StoreCuts, TopCutKeeps
<1>2. CASE Effect \/ Pass
  <2>1. callStack' = Step /\ \E ops : Current(ops) # {}
    BY <1>2 DEF Effect, Pass
  <2> QED BY <2>1, RidesAt, StepCuts, TopCutKeeps
<1>3. CASE Branch
  <2>1. PICK i \in Current(Jumps) : callStack' = IF Taken(i) THEN Goto(i.target) ELSE Step
    BY <1>3 DEF Branch
  <2>2. /\ Top.ip \in 1..Len(Body) /\ Top.ip + 1 \in 1..Len(Body) + 1 /\ i = Body[Top.ip]
        /\ i.op \in Jumps /\ IsCode(Body)
    BY RidesAt
  <2>3. i.target \in 1..Len(Body) + 1
    BY <2>2 DEF IsCode, Jumps, Targeted
  <2> QED BY <2>1, <2>2, <2>3, GotoCuts, StepCuts, TopCutKeeps
<1> QED BY <1>1, <1>2, <1>3

LEMMA CallIsStacked ==
  ASSUME Rides, Call
  PROVE  KeepsStack
<1>1. PICK i \in Current({"CALL"}) : callStack' = Append(Step, FrameOf("f", i.dest))
  BY DEF Call
<1> DEFINE callee == FrameOf("f", i.dest)
           frame  == [Top EXCEPT !.ip = Top.ip + 1]
<1>2. /\ Top.ip \in 1..Len(Body) /\ Top.ip + 1 \in 1..Len(Body) + 1 /\ i = Body[Top.ip]
      /\ (Top.ip + 1) - 1 = Top.ip /\ Body = CodeOf(pid, Top)
      /\ i.op = "CALL" /\ i.dest \in DOMAIN Top.slots
  <2>1. i.op \in {"CALL"} /\ "CALL" \in Filling
    BY RidesAt DEF Filling
  <2> QED BY <2>1, RidesAt
<1>3. Cut(callStack, Step, Len(callStack), frame) /\ Replaces(pid, Top, frame)
  BY <1>2, StepCuts
<1>4. Stacked(pid, Step)
  BY <1>3, CutStacked DEF Rides, Top
<1>5. Step[Len(Step)] = frame
  BY <1>3 DEF Cut
<1>6. frame.ip = Top.ip + 1 /\ frame.fn = Top.fn /\ DOMAIN frame.slots = DOMAIN Top.slots
  <2>1. DOMAIN Top = Fields
    BY StackedTop DEF Rides, Top
  <2> QED BY <2>1 DEF Fields
<1>7. /\ callee.fn = "f" /\ callee.ip = 1 /\ DOMAIN callee = {"fn", "ip", "slots", "dest"}
      /\ callee.dest = i.dest /\ DOMAIN callee.slots = 0..Code[pid]["f"].slotCount - 1
  BY DEF FrameOf
<1> HIDE DEF callee, frame
<1>8. Waits(pid, frame, callee)
  BY <1>2, <1>6, <1>7 DEF Waits, CodeOf
<1>9. IsFrame(pid, callee) /\ Slotted(pid, callee)
  <2>1. "f" \in Function /\ IsCode(Code[pid]["f"].code)
    BY CodeAssumption DEF Rides, Function
  <2>2. 1 \in 1..Len(Code[pid]["f"].code) + 1
    BY <2>1 DEF IsCode
  <2> QED BY <1>7, <2>1, <2>2 DEF IsFrame, Slotted, CodeOf
<1>10. Stacked(pid, Append(Step, callee))
  BY <1>4, <1>5, <1>8, <1>9, CallStacked
<1> QED BY <1>1, <1>10 DEF KeepsStack, callee

LEMMA LeaveStacked ==
  ASSUME Rides, NEW v, Leave(v)
  PROVE  KeepsStack
<1> SUFFICES ASSUME status' = "running" PROVE Stacked(pid, callStack')
  BY DEF KeepsStack
<1> DEFINE n == Len(callStack) - 1
<1>1. Len(callStack) # 1
  BY DEF Leave
<1>2. IsSequence(callStack) /\ callStack # << >>
  BY StackedTop DEF Rides
<1>3. n \in 1..Len(callStack) /\ Cut(callStack, Pop(callStack), n, callStack[n])
  BY <1>1, <1>2, PoppedIsCut
<1>4. IsFrame(pid, callStack[n]) /\ DOMAIN callStack[n] = Fields
  BY <1>3, StackedTop DEF Rides
<1>5. \/ callStack' = Pop(callStack)
      \/ callStack' = [Pop(callStack) EXCEPT ![n].slots[Top.dest] = v]
  BY DEF Leave
<1>6. CASE callStack' = Pop(callStack)
  BY <1>3, <1>4, <1>6, SlotReplaces, CutStacked DEF Rides
<1>7. CASE callStack' = [Pop(callStack) EXCEPT ![n].slots[Top.dest] = v]
  <2>1. Cut(callStack, callStack', n, [callStack[n] EXCEPT !.slots[Top.dest] = v])
    BY <1>1, <1>2, <1>4, <1>7, GivenIsCut
  <2> HIDE DEF n
  <2> QED BY <1>4, <2>1, SlotReplaces, CutStacked DEF Rides
<1> QED BY <1>5, <1>6, <1>7

LEMMA CatchStacked ==
  ASSUME Rides, NEW err, Catch(err)
  PROVE  Stacked(pid, callStack') /\ status' = "running"
<1>1. PICK d \in 1..Len(callStack) : \E i \in Open(pid, callStack[d]) :
        \E frame \in Interrupted(d) :
          callStack' = Outer(callStack, d, Handling(pid, frame, i, err))
  BY DEF Catch
<1>2. PICK i \in Open(pid, callStack[d]) : \E frame \in Interrupted(d) :
          callStack' = Outer(callStack, d, Handling(pid, frame, i, err))
  BY <1>1
<1>3. PICK frame \in Interrupted(d) :
          callStack' = Outer(callStack, d, Handling(pid, frame, i, err))
  BY <1>2
<1>4. IsSequence(callStack) /\ IsFrame(pid, callStack[d]) /\ pid \in 1..Len(Code)
  BY StackedTop DEF Rides
<1>5. Replaces(pid, callStack[d], frame)
  <2>1. CASE frame = callStack[d]
    BY <1>4, <2>1, SlotReplaces
  <2>2. CASE frame # callStack[d]
    <3>1. PICK v \in Leftovers(d) :
            frame = [callStack[d] EXCEPT !.slots[callStack[d + 1].dest] = v]
      BY <2>2 DEF Interrupted
    <3> QED BY <1>4, <3>1, SlotReplaces
  <2> QED BY <2>1, <2>2
<1>6. CodeOf(pid, callStack[d])[i].target \in 1..Len(CodeOf(pid, callStack[d])) + 1
  <2>1. IsCode(CodeOf(pid, callStack[d]))
    BY <1>4, FrameFits
  <2> QED BY <2>1 DEF Open, OpenTries, IsCode, Targeted
<1>7. Replaces(pid, callStack[d], Handling(pid, frame, i, err))
  BY <1>4, <1>5, <1>6, HandlingReplaces
<1>8. Cut(callStack, callStack', d, Handling(pid, frame, i, err))
  BY <1>3, <1>4, OuterIsCut
<1>9. status' = "running"
  BY DEF Catch, going, Rides
<1> QED BY <1>7, <1>8, <1>9, CutStacked DEF Rides

LEMMA NearestStacked ==
  ASSUME Rides, NearestNext
  PROVE  KeepsStack
<1>1. CASE Load \/ AskHost \/ Effect \/ Complete \/ Pass \/ Branch
  BY <1>1, LoadStacked
<1>2. CASE Call
  BY <1>2, CallIsStacked
<1>3. CASE ReturnValue \/ FallOff
  BY <1>3, LeaveStacked DEF ReturnValue, FallOff
<1>4. ASSUME NEW err \in Errors, Catch(err) PROVE KeepsStack
  BY <1>4, CatchStacked DEF KeepsStack
<1>5. ASSUME NEW err \in Errors, Report(err) PROVE KeepsStack
  BY <1>5 DEF Report, KeepsStack
<1> QED BY <1>1, <1>2, <1>3, <1>4, <1>5 DEF NearestNext, Ordinary

-----------------------------------------------------------------------------
(* The VM.                                                                  *)

\* The last entry of the try stack is the nearest catch.
LEMMA UnwindCatches ==
  ASSUME Rides, VmRuns, NEW err, tryStack # << >>, Unwind(err), quiet
  PROVE  Catch(err)
<1>1. /\ IsSequence(callStack) /\ Framed(pid, callStack) /\ Lexical(pid, callStack, tryStack)
      /\ Len(callStack) \in Nat \ {0} /\ pid \in 1..Len(Code)
  BY RunsFrames DEF VmRuns, Rides
<1>2. PICK d, i : OnTop(pid, callStack, tryStack, d, i)
  BY <1>1, LastEntry DEF VmRuns
<1> DEFINE code  == CodeOf(pid, callStack[d])
           entry == tryStack[Len(tryStack)]
           frame == Handling(pid, callStack[d], i, err)
           rest  == SubSeq(callStack, 1, d)
<1>3. /\ d \in 1..Len(callStack) /\ d \in Nat /\ d <= Len(callStack)
      /\ entry.depth = d /\ entry.target = code[i].target /\ entry.slot = code[i].dest
      /\ IsInnermost(code, callStack[d].ip, i)
      /\ \A k \in d + 1..Len(callStack) : Open(pid, callStack[k]) = {}
  <2>1. /\ d \in 1..Len(callStack) /\ IsInnermost(code, callStack[d].ip, i)
        /\ entry = EntryOf(pid, callStack[d], d, i)
        /\ \A k \in d + 1..Len(callStack) : Open(pid, callStack[k]) = {}
    BY <1>2 DEF OnTop
  <2>2. entry.depth = d /\ entry.target = code[i].target /\ entry.slot = code[i].dest
    BY <2>1 DEF EntryOf
  <2> HIDE DEF code, entry
  <2>3. d \in Nat /\ d <= Len(callStack)
    <3>1. d \in 1..Len(callStack) /\ Len(callStack) \in Nat
      BY <1>1, <2>1
    <3> QED BY <3>1
  <2> QED BY <2>1, <2>2, <2>3
<1>4. IsFrame(pid, callStack[d]) /\ DOMAIN callStack[d] = Fields /\ Slotted(pid, callStack[d])
  BY <1>3, StackedTop DEF Rides
<1>5. i \in Open(pid, callStack[d]) /\ IsNearest(pid, callStack, d)
  BY <1>3 DEF IsInnermost, Open, IsNearest
<1>6. code[i].dest \in DOMAIN callStack[d].slots
  <2>1. FitsFrame(Code[pid][callStack[d].fn]) /\ code = Code[pid][callStack[d].fn].code
    BY <1>1, <1>4, FrameFits
  <2>2. i \in 1..Len(code) /\ code[i].op = "ENTER_TRY"
    BY <1>5 DEF Open, OpenTries
  <2> QED BY <1>4, <2>1, <2>2 DEF FitsFrame, Filling, Slotted
<1>7. /\ callStack' = [rest EXCEPT ![d].ip = code[i].target,
                                   ![d].slots = [callStack[d].slots EXCEPT ![code[i].dest] = err]]
      /\ status' = "running" /\ value' = value
  <2>1. (IF entry.depth < Len(callStack) THEN entry.depth ELSE Len(callStack)) = d
    BY <1>1, <1>3
  <2> QED BY <1>3, <1>6, <2>1 DEF Unwind
<1>8. IsSequence(rest) /\ Len(rest) = d /\ \A c \in 1..d : rest[c] = callStack[c]
  <2> HIDE DEF rest, code, entry
  <2>1. IsSequence(SubSeq(callStack, 1, d)) /\ Len(SubSeq(callStack, 1, d)) = d
        /\ \A c \in 1..d : SubSeq(callStack, 1, d)[c] = callStack[c]
    BY <1>1, <1>3, PrefixIs
  <2> QED BY <2>1 DEF rest
<1>9. callStack' = [rest EXCEPT ![d] = frame]
  <2>1. d \in 1..d
    BY <1>3
  <2>2. DOMAIN rest = 1..d /\ rest[d] = callStack[d]
    <3> HIDE DEF rest
    <3> QED BY <1>8, <2>1, SequenceIs
  <2> HIDE DEF rest
  <2> QED BY <1>4, <1>7, <2>1, <2>2 DEF Handling, Fields
<1> HIDE DEF rest, frame
<1>10. Cut(callStack, callStack', d, frame)
  <2>1. rest # << >> /\ d \in 1..d
    BY <1>3, <1>8, SequenceIs
  <2>2. Cut(callStack, rest, d, callStack[d])
    BY <1>3, <1>8, <2>1 DEF Cut
  <2>3. Cut(rest, callStack', d, frame)
    BY <1>8, <1>9, <2>1, ReplacedIsCut
  <2> QED BY <2>2, <2>3, CutCut
<1>11. callStack' = Outer(callStack, d, frame)
  BY <1>1, <1>10, CutIsOuter
<1>12. callStack[d] \in Interrupted(d)
  BY DEF Interrupted
<1>13. going
  BY <1>7 DEF going, Rides
<1> QED BY <1>3, <1>5, <1>11, <1>12, <1>13 DEF Catch, frame

\* Without an entry no frame is inside of a try statement.
LEMMA NoEntryReports ==
  ASSUME Rides, VmRuns, NEW err, tryStack = << >>, status' = "uncaught", value' = err, quiet
  PROVE  Report(err)
<1>1. Present(pid, callStack, tryStack)
  BY RunsFrames DEF VmRuns, Lexical
<1>2. Len(tryStack) = 0
  OBVIOUS
<1>3. ASSUME NEW d \in 1..Len(callStack), NEW i \in Open(pid, callStack[d]) PROVE FALSE
  BY <1>1, <1>2 DEF Present, Among
<1> QED BY <1>3 DEF Report, Enclosed

LEMMA VmNearest ==
  ASSUME Rides, VmRuns, Next
  PROVE  NearestNext
<1>1. CASE Ordinary /\ UNCHANGED tryStack
  BY <1>1 DEF NearestNext
<1>2. CASE EnterTry \/ LeaveTry
  BY <1>2 DEF EnterTry, LeaveTry, NearestNext
<1>3. ASSUME NEW err \in Errors, Raise(err) PROVE NearestNext
  <2>1. quiet
    BY <1>3 DEF Raise
  <2>2. CASE tryStack # << >> /\ Unwind(err)
    <3>1. Catch(err)
      BY <2>1, <2>2, UnwindCatches
    <3> QED BY <3>1 DEF NearestNext
  <2>3. CASE tryStack = << >> /\ status' = "uncaught" /\ value' = err
    <3>1. Report(err)
      BY <2>1, <2>3, NoEntryReports
    <3> QED BY <3>1 DEF NearestNext
  <2> QED BY <1>3, <2>2, <2>3 DEF Raise
<1> QED BY <1>1, <1>2, <1>3 DEF Next, Throws

-----------------------------------------------------------------------------
(* Compiled code.                                                           *)

Faithful(p) == p \in 1..Len(Code) /\ p \in JitFaithfulOf(Code)
JitRides    == engine = "jit" /\ Rides /\ Faithful(pid) /\ value = 0

LEMMA TableIs ==
  ASSUME NEW p \in 1..Len(Code)
  PROVE  /\ Tables[p].main = Table(Code[p], "main")
         /\ Tables[p].f = Table(Code[p], "f")
<1> DEFINE n == Len(Code)
           row == [q \in 1..n |-> [main |-> Table(Code[q], "main"), f |-> Table(Code[q], "f")]]
           S == {row[q] : q \in 1..n}
<1>1. n \in Nat
  BY CodeAssumption
<1>2. Tables = row \o << >>
  BY DEF Tables, TablesOf
<1>3. row \in [1..n -> S]
  OBVIOUS
<1>4. row[p] = [main |-> Table(Code[p], "main"), f |-> Table(Code[p], "f")]
  OBVIOUS
<1>5. row \in Seq(S) /\ Len(row) = n
  <2> HIDE DEF row, S, n
  <2>1. row \in Seq(S)
    BY <1>1, <1>3
  <2> QED BY <1>1, <1>3, <2>1
<1>6. Tables[p] = row[p]
  <2>1. p \in 1..n
    OBVIOUS
  <2> HIDE DEF row, S, n
  <2> QED BY <1>2, <1>5, <2>1
<1> HIDE DEF row
<1> QED BY <1>4, <1>6

LEMMA FunctionTable ==
  ASSUME NEW p \in 1..Len(Code), NEW frame, frame.fn \in Function
  PROVE  /\ Tables[p][frame.fn].handlers = Handlers(CodeOf(p, frame))
         /\ Tables[p][frame.fn].canRaise = CanRaise(Code[p], frame.fn)
         /\ Tables[p][frame.fn].end = Len(CodeOf(p, frame)) + 1
<1>1. Tables[p][frame.fn] = Table(Code[p], frame.fn)
  <2>1. frame.fn = "main" \/ frame.fn = "f"
    BY DEF Function
  <2> QED BY <2>1, TableIs
<1>2. /\ Table(Code[p], frame.fn).handlers = Handlers(CodeOf(p, frame))
      /\ Table(Code[p], frame.fn).canRaise = CanRaise(Code[p], frame.fn)
      /\ Table(Code[p], frame.fn).end = Len(CodeOf(p, frame)) + 1
  BY DEF Table, CodeOf
<1> QED BY <1>1, <1>2

LEMMA InnermostExists ==
  ASSUME NEW code, IsCode(code), WellNested(code), NEW k \in 1..Len(code), OpenTries(code, k) # {}
  PROVE  \E i : IsInnermost(code, k, i)
<1> DEFINE O == OpenTries(code, k)
<1>1. k \in Int /\ k \in 1..Len(code) + 1
  <2>1. k \in Int /\ Len(code) \in Nat
    BY DEF IsCode
  <2> QED BY <2>1
<1>2. O \in SUBSET Nat
  BY <1>1, OpenAreBefore
<1>3. Scanned(code, k, HandlerStack(code)[k])
  BY <1>1, AllScanned
<1>4. PICK q : Lists(q, O)
  BY <1>3 DEF Scanned
<1> HIDE DEF O
<1>5. q[Len(q)] \in O /\ \A j \in O : j <= q[Len(q)]
  BY <1>2, <1>4, LastOfList DEF O
<1>6. IsInnermost(code, k, q[Len(q)])
  BY <1>1, <1>5, InnermostIsLast DEF O
<1> QED BY <1>6

LEMMA FaithfulCode ==
  ASSUME NEW p, Faithful(p), NEW frame, IsFrame(p, frame)
  PROVE  IsCode(CodeOf(p, frame)) /\ WellNested(CodeOf(p, frame)) /\ JitFaithful(CodeOf(p, frame))
<1>1. JitFaithful(CodeOf(p, frame))
  BY DEF Faithful, JitFaithfulOf, IsFrame, CodeOf
<1> QED BY <1>1, FrameFits DEF Faithful, JitFaithful

\* What the check behind the instruction at k finds in the table.
HandlerAt(p, frame, k) == Tables[p][frame.fn].handlers[k]
LEMMA HandlerIs ==
  ASSUME NEW p, Faithful(p), NEW frame, IsFrame(p, frame), NEW k \in 1..Len(CodeOf(p, frame))
  PROVE  \/ OpenTries(CodeOf(p, frame), k) = {} /\ HandlerAt(p, frame, k) = NoHandler
         \/ \E i : /\ IsInnermost(CodeOf(p, frame), k, i)
                   /\ HandlerAt(p, frame, k) = HandlerOf(CodeOf(p, frame), i)
                   /\ HandlerAt(p, frame, k) # NoHandler
<1> DEFINE code == CodeOf(p, frame)
<1>1. IsCode(code) /\ WellNested(code)
  BY FaithfulCode
<1>2. HandlerAt(p, frame, k) = Handlers(code)[k]
  BY FunctionTable DEF HandlerAt, Faithful, IsFrame
<1> HIDE DEF code
<1>3. k \in 1..Len(code)
  BY DEF code
<1>4. CASE OpenTries(code, k) = {}
  BY <1>1, <1>2, <1>3, <1>4, HandlersAreLexical DEF code
<1>5. CASE OpenTries(code, k) # {}
  <2>1. PICK i : IsInnermost(code, k, i)
    BY <1>1, <1>3, <1>5, InnermostExists
  <2>2. Handlers(code)[k] = HandlerOf(code, i)
    BY <1>1, <1>3, <2>1, HandlersAreLexical
  <2>3. HandlerOf(code, i) # NoHandler
    <3>1. i \in Tries(code)
      <4>1. k \in Int
        BY <1>3
      <4> QED BY <1>1, <2>1, <4>1, OpenIs DEF IsInnermost
    <3>2. code[i].target \in 1..Len(code) + 1
      BY <1>1, <3>1, TryIs
    <3>3. code[i].target # 0
      BY <3>2
    <3>4. HandlerOf(code, i).target = code[i].target /\ NoHandler.target = 0
      BY DEF HandlerOf, NoHandler
    <3> QED BY <3>3, <3>4
  <2> QED BY <1>2, <2>1, <2>2, <2>3 DEF code
<1> QED BY <1>4, <1>5

\* The frame of the check is the last one of frames, g in place of frame d.
Caught(d, g, k, e) ==
  /\ \E i : /\ IsInnermost(CodeOf(pid, g), k, i)
            /\ Cut(callStack, callStack', d, Handling(pid, g, i, e))
  /\ pending' = NoError
PassedOn(d, g, k, e) ==
  /\ OpenTries(CodeOf(pid, g), k) = {}
  /\ Cut(callStack, callStack', d, [g EXCEPT !.ip = Len(CodeOf(pid, g)) + 1])
  /\ pending' = {e}

LEMMA CheckedError ==
  ASSUME JitRides, NEW frames, NEW d, NEW g, Cut(callStack, frames, d, g), IsFrame(pid, g),
         NEW k \in 1..Len(CodeOf(pid, g)), CanRaise(Code[pid], g.fn), NEW e, Checked(frames, k, {e})
  PROVE  Caught(d, g, k, e) \/ PassedOn(d, g, k, e)
<1> DEFINE code  == CodeOf(pid, g)
           table == Tables[pid][g.fn]
<1>1. IsSequence(frames) /\ Len(frames) = d /\ frames[d] = g /\ d \in 1..d /\ frames # << >>
  <2>1. /\ IsSequence(frames) /\ Len(frames) = d /\ frames[d] = g /\ d \in 1..Len(callStack)
    BY DEF Cut
  <2>2. d \in 1..d
    <3>1. Len(callStack) \in Nat
      BY StackedTop DEF JitRides, Rides
    <3> QED BY <2>1, <3>1
  <2> QED BY <2>1, <2>2, SequenceIs
<1>2. DOMAIN g = Fields
  BY DEF IsFrame, Fields
<1>3. table.canRaise /\ table.end = Len(code) + 1 /\ table.handlers[k] = HandlerAt(pid, g, k)
  BY FunctionTable DEF HandlerAt, JitRides, Faithful, IsFrame
<1>4. CheckedIn(frames, d, k, {e}, table)
  BY <1>1 DEF Checked
<1>5. ~Passed({e}, table, k)
  BY <1>3 DEF Passed, NoError
<1> HIDE DEF table, code
<1>6. \/ /\ HandlerAt(pid, g, k) # NoHandler
         /\ callStack' = [frames EXCEPT ![d].ip = HandlerAt(pid, g, k).target,
                                        ![d].slots[HandlerAt(pid, g, k).slot] = e]
         /\ pending' = NoError
      \/ /\ HandlerAt(pid, g, k) = NoHandler
         /\ callStack' = [frames EXCEPT ![d].ip = Len(code) + 1] /\ pending' = {e}
  BY <1>3, <1>4, <1>5 DEF CheckedIn
<1>7. CASE /\ HandlerAt(pid, g, k) = NoHandler
           /\ callStack' = [frames EXCEPT ![d].ip = Len(code) + 1] /\ pending' = {e}
  <2>1. OpenTries(code, k) = {}
    BY <1>7, HandlerIs DEF JitRides, code
  <2> DEFINE h == [g EXCEPT !.ip = Len(code) + 1]
  <2>2. callStack' = [frames EXCEPT ![d] = h]
    BY <1>1, <1>7
  <2> HIDE DEF h
  <2>3. Cut(frames, callStack', d, h)
    BY <1>1, <2>2, ReplacedIsCut
  <2>4. Cut(callStack, callStack', d, h)
    BY <2>3, CutCut
  <2> QED BY <1>7, <2>1, <2>4 DEF PassedOn, h, code
<1>8. CASE /\ HandlerAt(pid, g, k) # NoHandler
           /\ callStack' = [frames EXCEPT ![d].ip = HandlerAt(pid, g, k).target,
                                          ![d].slots[HandlerAt(pid, g, k).slot] = e]
           /\ pending' = NoError
  <2>1. PICK i : IsInnermost(code, k, i) /\ HandlerAt(pid, g, k) = HandlerOf(code, i)
    BY <1>8, HandlerIs DEF JitRides, code
  <2>2. HandlerAt(pid, g, k).target = code[i].target /\ HandlerAt(pid, g, k).slot = code[i].dest
    BY <2>1 DEF HandlerOf
  <2> DEFINE h == Handling(pid, g, i, e)
  <2>3. callStack' = [frames EXCEPT ![d] = h]
    <3>1. callStack' = [frames EXCEPT ![d].ip = code[i].target, ![d].slots[code[i].dest] = e]
      BY <1>8, <2>2
    <3>2. h = [g EXCEPT !.ip = code[i].target, !.slots[code[i].dest] = e]
      BY DEF Handling, code
    <3>3. DOMAIN frames = 1..d
      BY <1>1, SequenceIs
    <3> HIDE DEF h
    <3> QED BY <1>1, <1>2, <3>1, <3>2, <3>3 DEF Fields
  <2> HIDE DEF h
  <2>4. Cut(frames, callStack', d, h)
    BY <1>1, <2>3, ReplacedIsCut
  <2>5. Cut(callStack, callStack', d, h)
    BY <2>4, CutCut
  <2> QED BY <1>8, <2>1, <2>5 DEF Caught, h, code
<1> QED BY <1>6, <1>7, <1>8

\* The frames above frame d are in no try statement.
Clear(cs, d) == \A k \in d + 1..Len(cs) : Open(pid, cs[k]) = {}

\* An error is handled in frame d, or leaves it: g is that frame with or
\* without a value from above, k its last instruction.
ErrorStep(d, g, k, e) ==
  /\ d \in 1..Len(callStack) /\ Replaces(pid, callStack[d], g) /\ g.ip = callStack[d].ip
  /\ Clear(callStack, d)
  /\ OpenTries(CodeOf(pid, g), k) = Open(pid, callStack[d])
  /\ CanRaise(Code[pid], g.fn)
  /\ Caught(d, g, k, e) \/ PassedOn(d, g, k, e)
  /\ UNCHANGED <<pid, answers, trace, status, value, engine>>

LEMMA SameCode ==
  ASSUME NEW p, NEW a, NEW b, Replaces(p, a, b)
  PROVE  CodeOf(p, b) = CodeOf(p, a)
BY DEF Replaces, CodeOf

\* There is one nearest frame.
LEMMA NearestUnique ==
  ASSUME NEW p, NEW cs, Len(cs) \in Nat, NEW c, NEW d, IsNearest(p, cs, c), IsNearest(p, cs, d)
  PROVE  c = d
<1>1. c \in 1..Len(cs) /\ d \in 1..Len(cs) /\ c \in Int /\ d \in Int
  BY DEF IsNearest
<1>2. ~(c < d)
  <2>1. c < d => d \in c + 1..Len(cs)
    BY <1>1
  <2> QED BY <2>1 DEF IsNearest
<1>3. ~(d < c)
  <2>1. d < c => c \in d + 1..Len(cs)
    BY <1>1
  <2> QED BY <2>1 DEF IsNearest
<1> QED BY <1>1, <1>2, <1>3

Zeroed(cs, d) == [cs[d] EXCEPT !.slots[cs[d + 1].dest] = 0]

LEMMA DeliveredIs ==
  ASSUME NEW p, Faithful(p), NEW cs, Stacked(p, cs), NEW d, IsNearest(p, cs, d), NEW i,
         IsInnermost(CodeOf(p, cs[d]), cs[d].ip, i), NEW e
  PROVE  Delivered(p, cs, e) = Outer(cs, d, Handling(p, Zeroed(cs, d), i, e))
<1>1. Len(cs) \in Nat /\ d \in 1..Len(cs) /\ IsFrame(p, cs[d]) /\ DOMAIN cs[d] = Fields
  BY StackedTop DEF IsNearest
<1> DEFINE f == Zeroed(cs, d)
<1>2. f.fn = cs[d].fn /\ f.ip = cs[d].ip
  BY <1>1 DEF Zeroed, Fields
<1>3. CodeOf(p, f) = CodeOf(p, cs[d]) /\ Open(p, f) = Open(p, cs[d])
  BY <1>2 DEF CodeOf, Open
<1> HIDE DEF f
<1>4. (CHOOSE k \in 1..Len(cs) : IsNearest(p, cs, k)) = d
  BY <1>1, NearestUnique
<1>5. (CHOOSE j \in Open(p, f) : IsInnermost(CodeOf(p, f), f.ip, j)) = i
  <2>1. IsCode(CodeOf(p, f)) /\ WellNested(CodeOf(p, f)) /\ f.ip \in Int
    BY <1>1, <1>2, <1>3, FaithfulCode, FrameFits DEF Faithful
  <2>2. IsInnermost(CodeOf(p, f), f.ip, i) /\ i \in Open(p, f)
    BY <1>2, <1>3 DEF IsInnermost, Open
  <2>3. \A j : IsInnermost(CodeOf(p, f), f.ip, j) => j = i
    BY <2>1, <2>2, InnermostUnique
  <2> QED BY <2>2, <2>3
<1>6. Delivered(p, cs, e) =
        Outer(cs, d, Handling(p, f, CHOOSE j \in Open(p, f) : IsInnermost(CodeOf(p, f), f.ip, j), e))
  BY <1>4 DEF Delivered, f, Zeroed
<1> QED BY <1>5, <1>6 DEF f

\* The innermost try statement of a frame that is in one.
LEMMA NearestHandles ==
  ASSUME NEW p, Faithful(p), NEW cs, Stacked(p, cs), NEW d, IsNearest(p, cs, d)
  PROVE  \E i : IsInnermost(CodeOf(p, cs[d]), cs[d].ip, i) /\ i \in Open(p, cs[d])
<1> DEFINE code == CodeOf(p, cs[d])
           ip   == cs[d].ip
<1>1. IsFrame(p, cs[d])
  BY StackedTop DEF IsNearest
<1>2. IsCode(code) /\ WellNested(code) /\ ip \in 1..Len(code) + 1
  BY <1>1, FaithfulCode, FrameFits DEF Faithful
<1>3. OpenTries(code, ip) # {}
  BY DEF IsNearest, Open
<1> HIDE DEF code, ip
<1>4. ip \in 1..Len(code)
  <2>1. ip # Len(code) + 1
    BY <1>2, <1>3, InNoBody
  <2>2. Len(code) \in Nat
    BY <1>2 DEF IsCode
  <2> QED BY <1>2, <2>1, <2>2
<1>5. PICK i : IsInnermost(code, ip, i)
  BY <1>2, <1>3, <1>4, InnermostExists
<1> QED BY <1>5 DEF IsInnermost, code, ip, Open

\* A frame inside of a try statement has a nearest one at or outside of it.
LEMMA NearestExists ==
  ASSUME NEW p, NEW cs, Len(cs) \in Nat, Enclosed(p, cs)
  PROVE  \E d : IsNearest(p, cs, d)
<1> DEFINE S == {n \in Nat : n <= Len(cs) /\ Len(cs) - n \in 1..Len(cs)
                                          /\ Open(p, cs[Len(cs) - n]) # {}}
<1>1. PICK c \in 1..Len(cs) : Open(p, cs[c]) # {}
  BY DEF Enclosed
<1>2. Len(cs) - c \in Nat /\ Len(cs) - c <= Len(cs) /\ Len(cs) - (Len(cs) - c) = c
  OBVIOUS
<1>3. Len(cs) - c \in S
  BY <1>1, <1>2
<1>4. PICK m \in S : \A k \in S : m <= k
  <2>1. S \in SUBSET Nat /\ S # {}
    BY <1>3
  <2> HIDE DEF S
  <2> QED BY <2>1, Least
<1> DEFINE d == Len(cs) - m
<1>5. m \in Nat /\ d \in 1..Len(cs) /\ Open(p, cs[d]) # {}
  BY <1>4
<1>6. ASSUME NEW k \in d + 1..Len(cs) PROVE Open(p, cs[k]) = {}
  <2>0. d = Len(cs) - m
    OBVIOUS
  <2>1. k \in 1..Len(cs) /\ Len(cs) - k \in Nat /\ Len(cs) - k <= Len(cs)
        /\ Len(cs) - (Len(cs) - k) = k /\ Len(cs) - k < m
    <3> HIDE DEF d, S
    <3>1. d \in Int /\ m \in Int /\ k \in Int /\ d + 1 <= k /\ k <= Len(cs) /\ 1 <= d
      BY <1>5
    <3> QED BY <2>0, <3>1
  <2>2. Len(cs) - k \notin S
    <3> HIDE DEF d, S
    <3>1. \A j \in S : ~(j < m)
      <4>1. S \in SUBSET Nat
        BY DEF S
      <4> QED BY <1>4, <4>1
    <3> QED BY <2>1, <3>1
  <2> QED BY <2>1, <2>2
<1> QED BY <1>5, <1>6 DEF IsNearest

LEMMA OuterOfCut ==
  ASSUME NEW cs, IsSequence(cs), NEW cs2, NEW d, NEW g, Cut(cs, cs2, d, g),
         NEW c \in 1..Len(cs), c < d, NEW h
  PROVE  Outer(cs2, c, h) = Outer(cs, c, h)
<1>1. Len(cs) \in Nat /\ d \in 1..Len(cs) /\ IsSequence(cs2) /\ Len(cs2) = d
      /\ \A k \in 1..d : k # d => cs2[k] = cs[k]
  BY SequenceIs DEF Cut
<1>2. c \in 1..Len(cs2) /\ c \in Nat
  BY <1>1
<1> DEFINE t == Outer(cs2, c, h)
<1>3. Cut(cs2, t, c, h)
  BY <1>1, <1>2, OuterIsCut
<1> HIDE DEF t
<1>4. ASSUME NEW k \in 1..c, k # c PROVE t[k] = cs[k]
  <2>1. k \in 1..d /\ k # d
    BY <1>1, <1>2
  <2> QED BY <1>1, <1>3, <1>4, <2>1 DEF Cut
<1>5. Cut(cs, t, c, h)
  BY <1>3, <1>4 DEF Cut
<1>6. t = Outer(cs, c, h)
  BY <1>5, CutIsOuter
<1> QED BY <1>6 DEF t

\* Frames that are in no try statement make no difference to the error.
Beyond(cs, cs2, d, h) ==
  /\ Cut(cs, cs2, d, h) /\ Replaces(pid, cs[d], h) /\ Clear(cs, d)
  /\ Open(pid, cs[d]) = {} /\ Open(pid, h) = {}

LEMMA BeyondSame ==
  ASSUME NEW cs, Stacked(pid, cs), NEW cs2, NEW d, NEW h, Beyond(cs, cs2, d, h)
  PROVE  /\ \A c : IsNearest(pid, cs, c) => /\ IsNearest(pid, cs2, c) /\ c < d
                                            /\ cs2[c] = cs[c] /\ Zeroed(cs2, c) = Zeroed(cs, c)
         /\ Enclosed(pid, cs) <=> Enclosed(pid, cs2)
<1>1. /\ IsSequence(cs) /\ Len(cs) \in Nat /\ d \in 1..Len(cs) /\ Len(cs2) = d /\ cs2[d] = h
      /\ \A k \in 1..d : k # d => cs2[k] = cs[k]
  BY StackedTop DEF Beyond, Cut
<1>2. ASSUME NEW k \in 1..Len(cs), Open(pid, cs[k]) # {} PROVE k < d
  <2>1. k # d /\ k \notin d + 1..Len(cs)
    BY <1>2 DEF Beyond, Clear
  <2> QED BY <1>1, <2>1
<1>3. \A k \in 1..d : k \in 1..Len(cs) /\ (k # d <=> k < d)
  BY <1>1
<1>4. \A k \in 1..Len(cs) : k < d => k \in 1..d
  BY <1>1
<1>5. Enclosed(pid, cs) <=> Enclosed(pid, cs2)
  <2>1. ASSUME NEW k \in 1..Len(cs), Open(pid, cs[k]) # {} PROVE Enclosed(pid, cs2)
    <3>1. k < d /\ k \in 1..d
      BY <1>2, <1>4, <2>1
    <3>2. cs2[k] = cs[k]
      BY <1>1, <1>3, <3>1
    <3> QED BY <1>1, <2>1, <3>1, <3>2 DEF Enclosed
  <2>2. ASSUME NEW k \in 1..d, Open(pid, cs2[k]) # {} PROVE Enclosed(pid, cs)
    <3>1. k # d
      BY <1>1, <2>2 DEF Beyond
    <3>2. cs2[k] = cs[k] /\ k \in 1..Len(cs)
      BY <1>1, <1>3, <3>1
    <3> QED BY <2>2, <3>2 DEF Enclosed
  <2> QED BY <1>1, <2>1, <2>2 DEF Enclosed
<1>6. ASSUME NEW c, IsNearest(pid, cs, c)
      PROVE  IsNearest(pid, cs2, c) /\ c < d /\ cs2[c] = cs[c] /\ Zeroed(cs2, c) = Zeroed(cs, c)
  <2>1. c \in 1..Len(cs) /\ Open(pid, cs[c]) # {}
    BY <1>6 DEF IsNearest
  <2>2. c < d /\ c \in 1..d
    BY <1>2, <1>4, <2>1
  <2>3. cs2[c] = cs[c]
    BY <1>1, <1>3, <2>2
  <2>4. c + 1 \in 1..d
    BY <1>1, <2>1, <2>2
  <2>5. cs2[c + 1].dest = cs[c + 1].dest
    <3>1. CASE c + 1 = d
      BY <1>1, <3>1 DEF Beyond, Replaces
    <3>2. CASE c + 1 # d
      BY <1>1, <2>4, <3>2
    <3> QED BY <3>1, <3>2
  <2>6. ASSUME NEW k \in c + 1..d PROVE Open(pid, cs2[k]) = {}
    <3>1. CASE k = d
      BY <1>1, <3>1 DEF Beyond
    <3>2. CASE k # d
      <4>1. k \in 1..d /\ k \in c + 1..Len(cs)
        BY <1>1, <2>1
      <4>2. cs2[k] = cs[k]
        BY <1>1, <3>2, <4>1
      <4> QED BY <1>6, <4>1, <4>2 DEF IsNearest
    <3> QED BY <3>1, <3>2
  <2>7. IsNearest(pid, cs2, c)
    BY <1>1, <2>1, <2>2, <2>3, <2>6 DEF IsNearest
  <2> QED BY <2>2, <2>3, <2>5, <2>7 DEF Zeroed
<1> QED BY <1>5, <1>6

LEMMA DeliveredSame ==
  ASSUME Faithful(pid), NEW cs, Stacked(pid, cs), NEW cs2, Stacked(pid, cs2), NEW d, NEW h,
         Beyond(cs, cs2, d, h), NEW e, Enclosed(pid, cs)
  PROVE  Delivered(pid, cs2, e) = Delivered(pid, cs, e)
<1>1. IsSequence(cs) /\ Len(cs) \in Nat
  BY StackedTop
<1>2. PICK c : IsNearest(pid, cs, c)
  BY <1>1, NearestExists
<1>3. /\ IsNearest(pid, cs2, c) /\ c < d /\ cs2[c] = cs[c] /\ Zeroed(cs2, c) = Zeroed(cs, c)
      /\ c \in 1..Len(cs)
  <2>1. c \in 1..Len(cs)
    BY <1>2 DEF IsNearest
  <2> QED BY <1>2, <2>1, BeyondSame
<1>4. PICK i : IsInnermost(CodeOf(pid, cs[c]), cs[c].ip, i)
  BY <1>2, NearestHandles
<1> DEFINE f == Handling(pid, Zeroed(cs, c), i, e)
<1>5. Delivered(pid, cs, e) = Outer(cs, c, f)
  BY <1>2, <1>4, DeliveredIs
<1>6. Delivered(pid, cs2, e) = Outer(cs2, c, f)
  BY <1>3, <1>4, DeliveredIs
<1> HIDE DEF f
<1>7. Outer(cs2, c, f) = Outer(cs, c, f)
  BY <1>1, <1>3, OuterOfCut DEF Beyond
<1> QED BY <1>5, <1>6, <1>7

\* An error that is raised moves outwards, at the end of a function.
Raising(p, cs, pend) ==
  \E e : /\ pend = {e} /\ cs[Len(cs)].ip = Len(CodeOf(p, cs[Len(cs)])) + 1
         /\ CanRaise(Code[p], cs[Len(cs)].fn)
InFlight(p, cs, pend) == Stacked(p, cs) /\ (pend = NoError \/ Raising(p, cs, pend))

LEMMA PassedIsBeyond ==
  ASSUME JitRides, NEW d, NEW g, NEW k, NEW e, ErrorStep(d, g, k, e), PassedOn(d, g, k, e)
  PROVE  /\ Beyond(callStack, callStack', d, [g EXCEPT !.ip = Len(CodeOf(pid, g)) + 1])
         /\ Stacked(pid, callStack') /\ Raising(pid, callStack', pending')
<1> DEFINE h == [g EXCEPT !.ip = Len(CodeOf(pid, g)) + 1]
<1>1. /\ d \in 1..Len(callStack) /\ Replaces(pid, callStack[d], g) /\ Clear(callStack, d)
      /\ Open(pid, callStack[d]) = {} /\ Cut(callStack, callStack', d, h) /\ pending' = {e}
      /\ CanRaise(Code[pid], g.fn)
  BY DEF ErrorStep, PassedOn
<1>2. IsFrame(pid, callStack[d]) /\ Stacked(pid, callStack) /\ pid \in 1..Len(Code)
  BY <1>1, StackedTop DEF JitRides, Rides
<1>3. CodeOf(pid, g) = CodeOf(pid, callStack[d])
  BY <1>1, SameCode
<1>4. /\ IsCode(CodeOf(pid, g)) /\ WellNested(CodeOf(pid, g)) /\ Len(CodeOf(pid, g)) \in Nat
  BY <1>2, <1>3, FaithfulCode, FrameFits DEF JitRides
<1>5. /\ DOMAIN h = Fields /\ h.fn = g.fn /\ h.dest = g.dest /\ h.slots = g.slots
      /\ h.ip = Len(CodeOf(pid, g)) + 1
  BY <1>1 DEF Replaces, Fields
<1> HIDE DEF h
<1>6. CodeOf(pid, h) = CodeOf(pid, g)
  BY <1>5 DEF CodeOf
<1>7. Replaces(pid, callStack[d], h)
  <2>1. Len(CodeOf(pid, g)) + 1 \in 1..Len(CodeOf(pid, g)) + 1
    BY <1>4
  <2> QED BY <1>1, <1>3, <1>5, <2>1 DEF Replaces
<1>8. Open(pid, h) = {}
  BY <1>4, <1>5, <1>6, InNoBody DEF Open
<1>9. Stacked(pid, callStack')
  BY <1>1, <1>2, <1>7, CutStacked
<1>10. callStack'[Len(callStack')] = h
  BY <1>1 DEF Cut
<1>11. Raising(pid, callStack', pending')
  BY <1>1, <1>5, <1>6, <1>10 DEF Raising
<1> QED BY <1>1, <1>7, <1>8, <1>9, <1>11 DEF Beyond, h

\* The frame that handles the error is the nearest one.
LEMMA CaughtIsNearest ==
  ASSUME JitRides, NEW d, NEW g, NEW k, NEW e, ErrorStep(d, g, k, e), Caught(d, g, k, e)
  PROVE  /\ Stacked(pid, callStack') /\ pending' = NoError
         /\ IsNearest(pid, callStack, d)
         /\ \E i : /\ IsInnermost(CodeOf(pid, callStack[d]), callStack[d].ip, i)
                   /\ i \in Open(pid, callStack[d])
                   /\ callStack' = Outer(callStack, d, Handling(pid, g, i, e))
<1>1. /\ d \in 1..Len(callStack) /\ Replaces(pid, callStack[d], g) /\ Clear(callStack, d)
      /\ OpenTries(CodeOf(pid, g), k) = Open(pid, callStack[d]) /\ pending' = NoError
  BY DEF ErrorStep, Caught
<1>2. PICK i : /\ IsInnermost(CodeOf(pid, g), k, i)
               /\ Cut(callStack, callStack', d, Handling(pid, g, i, e))
  BY DEF Caught
<1>3. IsFrame(pid, callStack[d]) /\ Stacked(pid, callStack) /\ pid \in 1..Len(Code)
      /\ IsSequence(callStack)
  BY <1>1, StackedTop DEF JitRides, Rides
<1>4. CodeOf(pid, g) = CodeOf(pid, callStack[d])
  BY <1>1, SameCode
<1>5. i \in Open(pid, callStack[d]) /\ IsInnermost(CodeOf(pid, callStack[d]), callStack[d].ip, i)
  BY <1>1, <1>2, <1>4 DEF IsInnermost, Open
<1>6. IsNearest(pid, callStack, d)
  BY <1>1, <1>5 DEF IsNearest, Clear
<1>7. CodeOf(pid, callStack[d])[i].target \in 1..Len(CodeOf(pid, callStack[d])) + 1
  <2>1. IsCode(CodeOf(pid, callStack[d]))
    BY <1>3, FrameFits
  <2> QED BY <1>5, <2>1 DEF Open, OpenTries, IsCode, Targeted
<1>8. Replaces(pid, callStack[d], Handling(pid, g, i, e))
  BY <1>1, <1>3, <1>7, HandlingReplaces
<1>9. Stacked(pid, callStack')
  BY <1>2, <1>3, <1>8, CutStacked
<1>10. callStack' = Outer(callStack, d, Handling(pid, g, i, e))
  BY <1>2, <1>3, CutIsOuter
<1> QED BY <1>1, <1>5, <1>6, <1>9, <1>10

LEMMA ErrorUnchanged ==
  ASSUME NEW d, NEW g, NEW k, NEW e, ErrorStep(d, g, k, e)
  PROVE  /\ pid' = pid /\ answers' = answers /\ trace' = trace /\ status' = status
         /\ value' = value /\ engine' = engine /\ quiet /\ going /\ Nearest!quiet
BY DEF ErrorStep, quiet, going, Nearest!quiet

\* Where the program is once the error is passed on.
LEMMA PassedSource ==
  ASSUME JitRides, NEW d, NEW g, NEW k, NEW e, ErrorStep(d, g, k, e), PassedOn(d, g, k, e)
  PROVE  /\ Enclosed(pid, callStack) =>
              /\ SourceStack' = Delivered(pid, callStack, e)
              /\ SourceStatus' = status /\ SourceValue' = value
         /\ ~Enclosed(pid, callStack) =>
              SourceStack' = << >> /\ SourceStatus' = "uncaught" /\ SourceValue' = e
<1>1. /\ pid' = pid /\ status' = status /\ value' = value /\ pending' = {e}
  BY ErrorUnchanged DEF PassedOn
<1>2. pending' # NoError /\ TheError' = e
  BY <1>1 DEF NoError, TheError
<1>3. /\ Enclosed(pid, callStack) <=> Enclosed(pid, callStack')
      /\ Enclosed(pid, callStack) => Delivered(pid, callStack', e) = Delivered(pid, callStack, e)
  <2>1. /\ Beyond(callStack, callStack', d, [g EXCEPT !.ip = Len(CodeOf(pid, g)) + 1])
        /\ Stacked(pid, callStack')
    BY PassedIsBeyond
  <2>2. Stacked(pid, callStack) /\ Faithful(pid)
    BY DEF JitRides, Rides
  <2> QED BY <2>1, <2>2, BeyondSame, DeliveredSame
<1>4. Lost' <=> ~Enclosed(pid, callStack)
  BY <1>1, <1>2, <1>3 DEF Lost
<1>5. SourceStack' = IF Enclosed(pid, callStack) THEN Delivered(pid, callStack', e) ELSE << >>
  BY <1>1, <1>2, <1>4 DEF SourceStack
<1>6. /\ SourceStatus' = IF Enclosed(pid, callStack) THEN status ELSE "uncaught"
      /\ SourceValue' = IF Enclosed(pid, callStack) THEN value ELSE e
  BY <1>1, <1>2, <1>4 DEF SourceStatus, SourceValue
<1> QED BY <1>3, <1>5, <1>6

\* An error is raised: it is handled, or reported, at once.
LEMMA RaisedStep ==
  ASSUME JitRides, pending = NoError, NEW e \in Errors, NEW d, NEW g, NEW k,
         ErrorStep(d, g, k, e), g \in Interrupted(d)
  PROVE  Nearest!NearestNext /\ InFlight(pid, callStack', pending')
<1>1. CASE Caught(d, g, k, e)
  <2>1. /\ Stacked(pid, callStack') /\ pending' = NoError /\ IsNearest(pid, callStack, d)
        /\ \E i : /\ IsInnermost(CodeOf(pid, callStack[d]), callStack[d].ip, i)
                  /\ i \in Open(pid, callStack[d])
                  /\ callStack' = Outer(callStack, d, Handling(pid, g, i, e))
    BY <1>1, CaughtIsNearest
  <2>2. d \in 1..Len(callStack)
    BY DEF ErrorStep
  <2>3. Catch(e)
    BY <2>1, <2>2, ErrorUnchanged DEF Catch
  <2> QED BY <2>1, <2>3, NearestSame DEF Plain, NearestNext, InFlight
<1>2. CASE PassedOn(d, g, k, e)
  <2>1. InFlight(pid, callStack', pending')
    BY <1>2, PassedIsBeyond DEF InFlight
  <2>2. e \in Nearest!Errors /\ Nearest!quiet
    BY ErrorsSame, ErrorUnchanged
  <2>3. CASE Enclosed(pid, callStack)
    <3>1. Stacked(pid, callStack) /\ Faithful(pid) /\ Len(callStack) \in Nat
      BY StackedTop DEF JitRides, Rides
    <3>2. PICK c : IsNearest(pid, callStack, c)
      BY <2>3, <3>1, NearestExists
    <3>3. PICK i : /\ IsInnermost(CodeOf(pid, callStack[c]), callStack[c].ip, i)
                   /\ i \in Open(pid, callStack[c])
      BY <3>1, <3>2, NearestHandles
    <3>4. SourceStack' = Outer(callStack, c, Handling(pid, Zeroed(callStack, c), i, e))
      BY <1>2, <2>3, <3>1, <3>2, <3>3, PassedSource, DeliveredIs
    <3>5. c \in 1..Len(callStack) /\ c # Len(callStack)
      <4>1. c \in 1..Len(callStack) /\ d \in 1..Len(callStack)
        BY <3>2 DEF IsNearest, ErrorStep
      <4> DEFINE h == [g EXCEPT !.ip = Len(CodeOf(pid, g)) + 1]
      <4>2. Beyond(callStack, callStack', d, h)
        BY <1>2, PassedIsBeyond
      <4> HIDE DEF h
      <4>3. c < d
        BY <3>1, <3>2, <4>2, BeyondSame
      <4> QED BY <3>1, <4>1, <4>3
    <3>6. Zeroed(callStack, c) \in Interrupted(c)
      <4>1. 0 \in Leftovers(c)
        BY <3>5 DEF Leftovers
      <4> QED BY <4>1 DEF Interrupted, Zeroed
    <3>7. Nearest!going
      BY <1>2, <2>3, PassedSource, CalmIs DEF Nearest!going
    <3>8. Nearest!Catch(e)
      BY <2>2, <3>2, <3>3, <3>4, <3>5, <3>6, <3>7, FrameSame, ErrorsSame, CalmIs DEF Nearest!Catch
    <3> QED BY <2>1, <2>2, <3>8 DEF Nearest!NearestNext
  <2>4. CASE ~Enclosed(pid, callStack)
    <3>1. Nearest!Report(e)
      BY <1>2, <2>2, <2>4, PassedSource, FrameSame, CalmIs DEF Nearest!Report
    <3> QED BY <2>1, <2>2, <3>1 DEF Nearest!NearestNext
  <2> QED BY <2>3, <2>4
<1> QED BY <1>1, <1>2 DEF ErrorStep

\* An error that moves outwards: the program is already where it goes.
LEMMA OutwardStep ==
  ASSUME JitRides, NEW e, pending = {e}, NEW d, NEW g, NEW k, ErrorStep(d, g, k, e),
         g = Zeroed(callStack, d)
  PROVE  UNCHANGED Nearest!nearestVars /\ InFlight(pid, callStack', pending')
<1>1. pending # NoError /\ TheError = e
  BY DEF NoError, TheError
<1>2. Stacked(pid, callStack) /\ Faithful(pid)
  BY DEF JitRides, Rides
<1>3. /\ Enclosed(pid, callStack) =>
           SourceStack = Delivered(pid, callStack, e) /\ SourceStatus = status /\ SourceValue = value
      /\ ~Enclosed(pid, callStack) =>
           SourceStack = << >> /\ SourceStatus = "uncaught" /\ SourceValue = e
  BY <1>1 DEF SourceStack, SourceStatus, SourceValue, Lost
<1>4. CASE Caught(d, g, k, e)
  <2>1. Stacked(pid, callStack') /\ pending' = NoError /\ IsNearest(pid, callStack, d)
    BY <1>4, CaughtIsNearest
  <2>2. PICK i : /\ IsInnermost(CodeOf(pid, callStack[d]), callStack[d].ip, i)
                 /\ callStack' = Outer(callStack, d, Handling(pid, g, i, e))
    BY <1>4, CaughtIsNearest
  <2>3. Enclosed(pid, callStack)
    BY <2>1 DEF IsNearest, Enclosed
  <2>4. callStack' = Delivered(pid, callStack, e)
    BY <1>2, <2>1, <2>2, DeliveredIs
  <2>5. SourceStack' = callStack' /\ SourceStatus' = status' /\ SourceValue' = value'
    BY <2>1 DEF SourceStack, SourceStatus, SourceValue, Lost
  <2> QED BY <1>3, <2>1, <2>3, <2>4, <2>5, ErrorUnchanged DEF Nearest!nearestVars, InFlight
<1>5. CASE PassedOn(d, g, k, e)
  <2>1. InFlight(pid, callStack', pending')
    BY <1>5, PassedIsBeyond DEF InFlight
  <2>2. SourceStack' = SourceStack /\ SourceStatus' = SourceStatus /\ SourceValue' = SourceValue
    BY <1>3, <1>5, PassedSource
  <2> QED BY <2>1, <2>2, ErrorUnchanged DEF Nearest!nearestVars
<1> QED BY <1>4, <1>5 DEF ErrorStep

-----------------------------------------------------------------------------
(* Compiled code without an error does what the VM does.                    *)

LEMMA JitRidesIs ==
  ASSUME JitRides
  PROVE  /\ engine = "jit" /\ Rides /\ Faithful(pid) /\ value = 0 /\ status = "running"
         /\ pid \in 1..Len(Code) /\ Stacked(pid, callStack)
         /\ IsSequence(callStack) /\ callStack # << >> /\ Len(callStack) \in Nat \ {0}
         /\ Len(callStack) \in 1..Len(callStack)
         /\ Top = callStack[Len(callStack)] /\ DOMAIN Top = Fields /\ IsFrame(pid, Top)
         /\ Body = CodeOf(pid, Top) /\ JitFaithful(Body) /\ IsCode(Body) /\ WellNested(Body)
         /\ Cut(callStack, callStack, Len(callStack), Top)
<1>1. /\ engine = "jit" /\ Rides /\ Faithful(pid) /\ value = 0 /\ status = "running"
      /\ pid \in 1..Len(Code) /\ Stacked(pid, callStack)
  BY DEF JitRides, Rides
<1>2. /\ IsSequence(callStack) /\ callStack # << >> /\ Len(callStack) \in Nat \ {0}
      /\ Len(callStack) \in 1..Len(callStack)
  BY <1>1, StackedTop
<1>3. Top = callStack[Len(callStack)] /\ DOMAIN Top = Fields /\ IsFrame(pid, Top)
  BY <1>1, <1>2, StackedTop DEF Top
<1>4. Body = CodeOf(pid, Top)
  BY DEF Body, CodeOf
<1>5. JitFaithful(Body) /\ IsCode(Body) /\ WellNested(Body)
  BY <1>1, <1>3, <1>4, FaithfulCode
<1>6. Cut(callStack, callStack, Len(callStack), Top)
  BY <1>2, <1>3 DEF Cut
<1> QED BY <1>1, <1>2, <1>3, <1>4, <1>5, <1>6

LEMMA CheckedPlain ==
  ASSUME NEW frames, NEW d, NEW g, NEW k, Cut(callStack, frames, d, g), Len(callStack) \in Nat,
         Checked(frames, k, NoError)
  PROVE  Cut(callStack, callStack', d, [g EXCEPT !.ip = k + 1]) /\ pending' = NoError
<1>1. IsSequence(frames) /\ Len(frames) = d /\ frames[d] = g /\ d \in 1..d /\ frames # << >>
  <2>1. IsSequence(frames) /\ Len(frames) = d /\ frames[d] = g /\ d \in 1..Len(callStack)
    BY DEF Cut
  <2>2. d \in 1..d
    BY <2>1
  <2> QED BY <2>1, <2>2, SequenceIs
<1>2. CheckedIn(frames, d, k, NoError, Tables[pid][g.fn])
  BY <1>1 DEF Checked
<1>3. callStack' = [frames EXCEPT ![d].ip = k + 1] /\ pending' = NoError
  BY <1>2 DEF CheckedIn, Passed
<1> DEFINE h == [g EXCEPT !.ip = k + 1]
<1>4. callStack' = [frames EXCEPT ![d] = h]
  BY <1>1, <1>3
<1> HIDE DEF h
<1>5. Cut(frames, callStack', d, h)
  BY <1>1, <1>4, ReplacedIsCut
<1>6. Cut(callStack, callStack', d, h)
  BY <1>5, CutCut
<1> QED BY <1>3, <1>6 DEF h

LEMMA GoOnSteps ==
  ASSUME JitRides, GoOn(callStack, NoError), Top.ip + 1 \in 1..Len(Body) + 1
  PROVE  callStack' = Step /\ pending' = NoError
<1>1. Checked(callStack, Top.ip, NoError)
  BY DEF GoOn, Top
<1>2. /\ Cut(callStack, callStack', Len(callStack), [Top EXCEPT !.ip = Top.ip + 1])
      /\ pending' = NoError
  BY <1>1, JitRidesIs, CheckedPlain
<1>3. Cut(callStack, Step, Len(callStack), [Top EXCEPT !.ip = Top.ip + 1])
  BY StepCuts, JitRidesIs
<1> QED BY <1>2, <1>3, CutIs

LEMMA PutCuts ==
  ASSUME JitRides, NEW d, NEW v
  PROVE  Cut(callStack, Put(d, v), Len(callStack), [Top EXCEPT !.slots[d] = v])
<1> DEFINE h == [Top EXCEPT !.slots[d] = v]
<1>1. Put(d, v) = [callStack EXCEPT ![Len(callStack)] = h]
  BY DEF Put, Top
<1> HIDE DEF h
<1>2. IsSequence(callStack) /\ callStack # << >>
  BY JitRidesIs
<1>3. Cut(callStack, Put(d, v), Len(callStack), h)
  BY <1>1, <1>2, ReplacedIsCut
<1> QED BY <1>3 DEF h

LEMMA GoOnStores ==
  ASSUME JitRides, NEW d, NEW v, GoOn(Put(d, v), NoError), Top.ip + 1 \in 1..Len(Body) + 1
  PROVE  callStack' = Store(d, v) /\ pending' = NoError
<1> DEFINE g == [Top EXCEPT !.slots[d] = v]
           h == [Top EXCEPT !.ip = Top.ip + 1, !.slots[d] = v]
<1>1. Cut(callStack, Put(d, v), Len(callStack), g)
  BY PutCuts
<1>2. g.ip = Top.ip /\ [g EXCEPT !.ip = Top.ip + 1] = h
  BY JitRidesIs DEF Fields
<1>3. Cut(callStack, Store(d, v), Len(callStack), h)
  BY StoreCuts, JitRidesIs
<1> HIDE DEF g, h
<1>4. Checked(Put(d, v), Top.ip, NoError)
  BY <1>1, <1>2 DEF GoOn, Cut
<1>5. Cut(callStack, callStack', Len(callStack), [g EXCEPT !.ip = Top.ip + 1]) /\ pending' = NoError
  BY <1>1, <1>4, JitRidesIs, CheckedPlain
<1> QED BY <1>2, <1>3, <1>5, CutIs

\* The caller of the running frame.
LEMMA CallerIs ==
  ASSUME JitRides, Len(callStack) # 1, NEW n, n = Len(callStack) - 1
  PROVE  /\ n \in 1..Len(callStack) /\ n \in Nat /\ n > 0 /\ n + 1 = Len(callStack)
         /\ IsFrame(pid, callStack[n]) /\ DOMAIN callStack[n] = Fields
         /\ callStack[n].ip - 1 \in 1..Len(CodeOf(pid, callStack[n]))
         /\ callStack[n].ip \in Int
         /\ CodeOf(pid, callStack[n])[callStack[n].ip - 1].op = "CALL"
         /\ Top.fn = "f" /\ Top.dest # -1
         /\ Len(Pop(callStack)) = n /\ Pop(callStack)[n] = callStack[n]
<1>1. n \in 1..Len(callStack) /\ n \in Nat /\ n > 0 /\ n + 1 = Len(callStack)
      /\ n + 1 \in 1..Len(callStack)
  BY JitRidesIs
<1>2. IsFrame(pid, callStack[n]) /\ DOMAIN callStack[n] = Fields /\ Slotted(pid, callStack[n])
  BY <1>1, JitRidesIs, StackedTop
<1>3. Waits(pid, callStack[n], callStack[n + 1])
  BY <1>1, JitRidesIs DEF Stacked
<1>4. callStack[n].ip \in Int
  BY <1>2, JitRidesIs, FrameFits
<1>5. Top = callStack[n + 1]
  BY <1>1, JitRidesIs
<1>6. Top.dest # -1
  BY <1>2, <1>3, <1>5 DEF Waits, Slotted
<1>7. Len(Pop(callStack)) = n /\ Pop(callStack)[n] = callStack[n]
  BY JitRidesIs, PoppedIsCut DEF Cut
<1> QED BY <1>1, <1>2, <1>3, <1>4, <1>5, <1>6, <1>7 DEF Waits

LEMMA CallerPut ==
  ASSUME JitRides, Len(callStack) # 1, NEW n, n = Len(callStack) - 1, NEW v
  PROVE  Cut(callStack, [Pop(callStack) EXCEPT ![n].slots[Top.dest] = v], n,
             [callStack[n] EXCEPT !.slots[Top.dest] = v])
BY JitRidesIs, CallerIs, GivenIsCut

LEMMA SameIp ==
  ASSUME NEW f, DOMAIN f = Fields, NEW s, NEW v, NEW ip, ip = f.ip
  PROVE  [[f EXCEPT !.slots[s] = v] EXCEPT !.ip = ip] = [f EXCEPT !.slots[s] = v]
BY DEF Fields

LEMMA LeavesPlain ==
  ASSUME JitRides, NEW v, JitLeave(v, NoError)
  PROVE  /\ Leave(v) /\ pending' = NoError
         /\ value' = IF Len(callStack) = 1 THEN v ELSE value
<1>0. quiet
  BY DEF JitLeave, jitQuiet, quiet
<1>1. CASE Len(callStack) = 1
  <2>1. Len(Pop(callStack)) = 0
    BY <1>1, JitRidesIs, PopIs DEF Pop
  <2>2. /\ callStack' = Pop(callStack) /\ pending' = NoError
        /\ status' = "finished" /\ value' = v
    BY <2>1 DEF JitLeave, NoError
  <2> QED BY <1>0, <1>1, <2>2 DEF Leave
<1>2. CASE Len(callStack) # 1
  <2> DEFINE n == Len(callStack) - 1
             g == [callStack[n] EXCEPT !.slots[Top.dest] = v]
             frames == [Pop(callStack) EXCEPT ![n].slots[Top.dest] = v]
  <2>1. /\ n \in 1..Len(callStack) /\ n > 0 /\ DOMAIN callStack[n] = Fields
        /\ callStack[n].ip \in Int /\ Top.dest # -1
        /\ Len(Pop(callStack)) = n /\ Pop(callStack)[n] = callStack[n]
    BY <1>2, CallerIs
  <2>2. Checked(frames, callStack[n].ip - 1, NoError) /\ going
    BY <2>1 DEF JitLeave
  <2>3. Cut(callStack, frames, n, g)
    BY <1>2, CallerPut
  <2>4. [g EXCEPT !.ip = (callStack[n].ip - 1) + 1] = g
    <3>1. (callStack[n].ip - 1) + 1 = callStack[n].ip
      BY <2>1
    <3> QED BY <2>1, <3>1, SameIp
  <2>5. callStack' = frames /\ pending' = NoError
    <3> HIDE DEF g, n, frames
    <3>1. /\ Cut(callStack, callStack', n, [g EXCEPT !.ip = (callStack[n].ip - 1) + 1])
          /\ pending' = NoError
      BY <2>2, <2>3, JitRidesIs, CheckedPlain
    <3> QED BY <2>3, <2>4, <3>1, CutIs
  <2>6. status' = "running" /\ value' = value
    BY <2>2, JitRidesIs DEF going
  <2> QED BY <1>0, <1>2, <2>1, <2>5, <2>6 DEF Leave
<1> QED BY <1>1, <1>2

\* A step of compiled code is one of NearestCatch.
JitGoesOn ==
  /\ status' = "running" => InFlight(pid, callStack', pending') /\ value' = 0
  /\ status' # "running" => pending' = NoError
JitStep == Nearest!NearestNext /\ JitGoesOn

LEMMA PlainJitStep ==
  ASSUME JitRides, pending = NoError, pending' = NoError, NearestNext,
         value' = 0 \/ status' # "running"
  PROVE  JitStep
<1>1. Nearest!NearestNext
  BY NearestSame DEF Plain
<1>2. status' = "running" => Stacked(pid, callStack')
  BY JitRidesIs, NearestStacked DEF KeepsStack
<1> QED BY <1>1, <1>2 DEF JitStep, JitGoesOn, InFlight

LEMMA AtInstruction ==
  ASSUME JitRides, NEW ops, NEW i \in Native(ops)
  PROVE  /\ i \in Current(ops) /\ i.op \in ops /\ i = Body[Top.ip]
         /\ Top.ip \in 1..Len(Body) /\ Top.ip + 1 \in 1..Len(Body) + 1
         /\ (i.op \in Filling => i.dest \in DOMAIN Top.slots)
<1>1. i \in Current(ops)
  BY DEF Native
<1> QED BY <1>1, JitRidesIs, RidesAt

LEMMA JitStores ==
  ASSUME JitRides, pending = NoError, JitLoad \/ JitAskHost
  PROVE  JitStep
<1>1. CASE JitLoad
  <2>1. PICK i \in Native(Loads) : GoOn(Put(i.dest, Result(i)), NoError)
    BY <1>1 DEF JitLoad
  <2>2. callStack' = Store(i.dest, Result(i)) /\ pending' = NoError
    BY <2>1, AtInstruction, GoOnStores
  <2>3. Load /\ value' = 0
    BY <1>1, <2>1, <2>2, AtInstruction, JitRidesIs DEF JitLoad, jitQuiet, quiet, going, Load
  <2> QED BY <2>2, <2>3, PlainJitStep DEF NearestNext, Ordinary
<1>2. CASE JitAskHost
  <2>1. PICK i \in Native({"ASK"}) : \E a \in i.choices :
          GoOn(Put(i.dest, a), NoError) /\ answers' = Append(answers, a)
    BY <1>2 DEF JitAskHost
  <2>2. PICK a \in i.choices : GoOn(Put(i.dest, a), NoError) /\ answers' = Append(answers, a)
    BY <2>1
  <2>3. callStack' = Store(i.dest, a) /\ pending' = NoError
    BY <2>2, AtInstruction, GoOnStores
  <2>4. AskHost /\ value' = 0
    BY <1>2, <2>2, <2>3, AtInstruction, JitRidesIs DEF JitAskHost, going, AskHost
  <2> QED BY <2>3, <2>4, PlainJitStep DEF NearestNext, Ordinary
<1> QED BY <1>1, <1>2

LEMMA JitSteps ==
  ASSUME JitRides, pending = NoError, JitEffect \/ JitTry
  PROVE  JitStep
<1>1. CASE JitEffect
  <2>1. PICK i \in Native(Effects) : trace' = Append(trace, Get(i.arg)) /\ GoOn(callStack, NoError)
    BY <1>1 DEF JitEffect
  <2>2. callStack' = Step /\ pending' = NoError
    BY <2>1, AtInstruction, GoOnSteps
  <2>3. Effect /\ value' = 0
    BY <1>1, <2>1, <2>2, AtInstruction, JitRidesIs DEF JitEffect, going, Effect
  <2> QED BY <2>2, <2>3, PlainJitStep DEF NearestNext, Ordinary
<1>2. CASE JitTry
  <2>1. PICK i \in Native({"ENTER_TRY", "LEAVE_TRY"}) : GoOn(callStack, NoError)
    BY <1>2 DEF JitTry
  <2>2. callStack' = Step /\ pending' = NoError
    BY <2>1, AtInstruction, GoOnSteps
  <2>3. Pass /\ value' = 0
    BY <1>2, <2>1, <2>2, AtInstruction, JitRidesIs DEF JitTry, jitQuiet, quiet, going, Pass
  <2> QED BY <2>2, <2>3, PlainJitStep DEF NearestNext
<1> QED BY <1>1, <1>2

LEMMA JitJumps ==
  ASSUME JitRides, pending = NoError, JitBranch \/ JitCall
  PROVE  JitStep
<1>1. CASE JitBranch
  <2>1. PICK i \in Native(Jumps) :
          IF Taken(i) THEN callStack' = Goto(i.target) /\ UNCHANGED pending
                      ELSE GoOn(callStack, NoError)
    BY <1>1 DEF JitBranch
  <2>2. (callStack' = IF Taken(i) THEN Goto(i.target) ELSE Step) /\ pending' = NoError
    BY <2>1, AtInstruction, GoOnSteps
  <2>3. Branch /\ value' = 0
    BY <1>1, <2>1, <2>2, AtInstruction, JitRidesIs DEF JitBranch, jitQuiet, quiet, going, Branch
  <2> QED BY <2>2, <2>3, PlainJitStep DEF NearestNext, Ordinary
<1>2. CASE JitCall
  <2>1. Call /\ pending' = NoError /\ value' = 0
    BY <1>2, JitRidesIs DEF JitCall, Call, going
  <2> QED BY <2>1, PlainJitStep DEF NearestNext, Ordinary
<1> QED BY <1>1, <1>2

LEMMA JitReturns ==
  ASSUME JitRides, pending = NoError, JitReturn \/ JitEnd
  PROVE  JitStep
<1>1. CASE JitReturn
  <2>1. PICK i \in Native({"RETURN"}) : JitLeave(Get(i.src), NoError)
    BY <1>1 DEF JitReturn
  <2>2. /\ Leave(Get(i.src)) /\ pending' = NoError
        /\ value' = IF Len(callStack) = 1 THEN Get(i.src) ELSE value
    BY <2>1, LeavesPlain
  <2>3. ReturnValue
    BY <2>1, <2>2, AtInstruction DEF ReturnValue
  <2>4. value' = 0 \/ status' # "running"
    BY <2>2, JitRidesIs DEF Leave
  <2> QED BY <2>2, <2>3, <2>4, PlainJitStep DEF NearestNext, Ordinary
<1>2. CASE JitEnd
  <2>1. AtEnd /\ JitLeave(0, NoError)
    BY <1>2 DEF JitEnd
  <2>2. Leave(0) /\ pending' = NoError /\ value' = IF Len(callStack) = 1 THEN 0 ELSE value
    BY <2>1, LeavesPlain
  <2>3. FallOff /\ value' = 0
    BY <2>1, <2>2, JitRidesIs DEF FallOff
  <2> QED BY <2>2, <2>3, PlainJitStep DEF NearestNext, Ordinary
<1> QED BY <1>1, <1>2

-----------------------------------------------------------------------------
(* Compiled code with an error.                                             *)

\* A function that fails, and every one that called it, has been told apart.
LEMMA RaisersAre ==
  ASSUME JitRides, NEW i, Top.ip \in 1..Len(Body), i = Body[Top.ip],
         i.op \in {"THROW", "DIV", "ARRAY_GET", "DADD"}
  PROVE  CanRaise(Code[pid], Top.fn)
<1>1. RaisesHere(Body)
  <2>1. CASE i.op = "DADD"
    BY <2>1, JitRidesIs DEF JitFaithful
  <2>2. CASE i.op # "DADD"
    <3>1. Top.ip \in DOMAIN Body /\ Body[Top.ip].op \in ErrorCapable
      BY <2>2, JitRidesIs DEF IsCode, ErrorCapable
    <3> QED BY <3>1 DEF RaisesHere
  <2> QED BY <2>1, <2>2
<1> QED BY <1>1 DEF CanRaise, Body

LEMMA CallersRaise ==
  ASSUME JitRides, Len(callStack) # 1, CanRaise(Code[pid], Top.fn), NEW n, n = Len(callStack) - 1
  PROVE  CanRaise(Code[pid], callStack[n].fn)
<1> DEFINE code == CodeOf(pid, callStack[n])
<1>1. /\ Top.fn = "f" /\ IsFrame(pid, callStack[n])
      /\ callStack[n].ip - 1 \in 1..Len(code) /\ code[callStack[n].ip - 1].op = "CALL"
  BY CallerIs
<1>2. RaisesHere(Code[pid].f.code)
  BY <1>1 DEF CanRaise
<1>3. callStack[n].ip - 1 \in DOMAIN code
  BY <1>1, JitRidesIs, FrameFits DEF IsCode
<1> QED BY <1>1, <1>2, <1>3 DEF CanRaise, CodeOf

LEMMA TopErrs ==
  ASSUME JitRides, NEW e, NEW i, Top.ip \in 1..Len(Body), i = Body[Top.ip],
         i.op \in {"THROW", "DIV", "ARRAY_GET", "DADD"}, GoOn(callStack, {e}), jitQuiet, going
  PROVE  ErrorStep(Len(callStack), Top, Top.ip, e) /\ Top \in Interrupted(Len(callStack))
<1> DEFINE n == Len(callStack)
<1>1. n \in 1..Len(callStack) /\ Replaces(pid, callStack[n], Top) /\ Top.ip = callStack[n].ip
  BY JitRidesIs, SlotReplaces
<1>2. Clear(callStack, n)
  <2>1. n \in Nat
    BY JitRidesIs
  <2>2. n + 1..n = {}
    BY <2>1
  <2> QED BY <2>2 DEF Clear
<1>3. OpenTries(CodeOf(pid, Top), Top.ip) = Open(pid, callStack[n])
  BY JitRidesIs DEF Open
<1>4. CanRaise(Code[pid], Top.fn)
  BY RaisersAre
<1>5. Caught(n, Top, Top.ip, e) \/ PassedOn(n, Top, Top.ip, e)
  <2>1. Checked(callStack, Top.ip, {e})
    BY DEF GoOn, Top
  <2>2. Cut(callStack, callStack, n, Top) /\ IsFrame(pid, Top) /\ Top.ip \in 1..Len(CodeOf(pid, Top))
    BY JitRidesIs
  <2> HIDE DEF n
  <2> QED BY <1>4, <2>1, <2>2, CheckedError
<1>6. UNCHANGED <<pid, answers, trace, status, value, engine>>
  BY DEF jitQuiet, going
<1>7. Top \in Interrupted(n)
  BY JitRidesIs DEF Interrupted
<1> HIDE DEF n
<1>8. ErrorStep(n, Top, Top.ip, e)
  BY <1>1, <1>2, <1>3, <1>4, <1>5, <1>6 DEF ErrorStep
<1> QED BY <1>7, <1>8 DEF n

LEMMA LeaveErrs ==
  ASSUME JitRides, Len(callStack) # 1, NEW v, NEW e, JitLeave(v, {e}),
         CanRaise(Code[pid], Top.fn), Open(pid, Top) = {}, NEW n, n = Len(callStack) - 1
  PROVE  ErrorStep(n, [callStack[n] EXCEPT !.slots[Top.dest] = v], callStack[n].ip - 1, e)
<1> DEFINE g == [callStack[n] EXCEPT !.slots[Top.dest] = v]
           k == callStack[n].ip - 1
           frames == [Pop(callStack) EXCEPT ![n].slots[Top.dest] = v]
<1>1. /\ n \in 1..Len(callStack) /\ n \in Nat /\ n > 0 /\ n + 1 = Len(callStack)
      /\ IsFrame(pid, callStack[n]) /\ DOMAIN callStack[n] = Fields
      /\ callStack[n].ip - 1 \in 1..Len(CodeOf(pid, callStack[n])) /\ callStack[n].ip \in Int
      /\ CodeOf(pid, callStack[n])[callStack[n].ip - 1].op = "CALL"
      /\ Len(Pop(callStack)) = n /\ Pop(callStack)[n] = callStack[n]
  BY CallerIs
<1>2. Checked(frames, k, {e}) /\ going /\ jitQuiet
  BY <1>1 DEF JitLeave
<1>3. Cut(callStack, frames, n, g)
  BY CallerPut
<1>4. Replaces(pid, callStack[n], g)
  BY <1>1, JitRidesIs, SlotReplaces
<1>5. g.ip = callStack[n].ip /\ g.fn = callStack[n].fn /\ IsFrame(pid, g)
  BY <1>1 DEF Fields, IsFrame, CodeOf
<1>6. CodeOf(pid, g) = CodeOf(pid, callStack[n])
  BY <1>4, SameCode
<1>7. CanRaise(Code[pid], g.fn)
  BY <1>5, CallersRaise
<1>8. OpenTries(CodeOf(pid, g), k) = Open(pid, callStack[n])
  <2> DEFINE code == CodeOf(pid, callStack[n])
  <2>1. IsCode(code) /\ WellNested(code)
    BY <1>1, JitRidesIs, FaithfulCode
  <2>2. k \in 1..Len(code) /\ code[k].op = "CALL" /\ k + 1 = callStack[n].ip
    BY <1>1
  <2> HIDE DEF code, k
  <2>3. OpenTries(code, k + 1) = OpenTries(code, k)
    BY <2>1, <2>2, PlainStep
  <2> QED BY <1>6, <2>2, <2>3 DEF Open, code
<1>9. Clear(callStack, n)
  <2>1. \A c \in n + 1..Len(callStack) : c = Len(callStack)
    BY <1>1
  <2> QED BY <2>1, JitRidesIs DEF Clear
<1>10. k \in 1..Len(CodeOf(pid, g))
  BY <1>1, <1>6
<1> HIDE DEF g, k, frames
<1>11. Caught(n, g, k, e) \/ PassedOn(n, g, k, e)
  BY <1>2, <1>3, <1>5, <1>7, <1>10, CheckedError
<1>12. UNCHANGED <<pid, answers, trace, status, value, engine>>
  BY <1>2 DEF jitQuiet, going
<1>13. ErrorStep(n, g, k, e)
  BY <1>1, <1>4, <1>5, <1>7, <1>8, <1>9, <1>11, <1>12 DEF ErrorStep
<1> QED BY <1>13 DEF g, k

\* Main is left with the error.
LEMMA MainErrs ==
  ASSUME JitRides, Len(callStack) = 1, NEW v, NEW e, JitLeave(v, {e}), Open(pid, Top) = {}
  PROVE  /\ callStack' = << >> /\ pending' = NoError /\ status' = "uncaught" /\ value' = e
         /\ quiet /\ ~Enclosed(pid, callStack)
<1>1. Pop(callStack) = << >> /\ Len(Pop(callStack)) = 0
  <2> DEFINE t == SubSeq(callStack, 1, Len(callStack) - 1)
  <2>1. IsSequence(t) /\ Len(t) = Len(callStack) - 1
    BY JitRidesIs, PopIs
  <2>2. Pop(callStack) = t
    BY DEF Pop
  <2> HIDE DEF t
  <2>3. Len(t) = 0
    BY <2>1
  <2> QED BY <2>1, <2>2, <2>3, SequenceIs
<1>2. /\ callStack' = << >> /\ pending' = NoError /\ status' = "uncaught" /\ value' = e
      /\ jitQuiet
  BY <1>1 DEF JitLeave, NoError
<1>3. \A d \in 1..Len(callStack) : d = Len(callStack)
  OBVIOUS
<1>4. ~Enclosed(pid, callStack)
  BY <1>3, JitRidesIs DEF Enclosed
<1> QED BY <1>2, <1>4 DEF jitQuiet, quiet

LEMMA JitThrows ==
  ASSUME JitRides, pending = NoError, JitThrow
  PROVE  JitStep
<1>1. PICK i \in Native({"THROW"}) : GoOn(callStack, {Get(i.src)})
  BY DEF JitThrow
<1> DEFINE e == Get(i.src)
<1>2. i \in Current({"THROW"}) /\ i.op = "THROW" /\ i = Body[Top.ip] /\ Top.ip \in 1..Len(Body)
  BY AtInstruction
<1>3. e \in Errors
  BY <1>2 DEF Errors
<1>4. jitQuiet /\ going
  BY DEF JitThrow
<1> HIDE DEF e
<1>5. GoOn(callStack, {e})
  BY <1>1 DEF e
<1>6. ErrorStep(Len(callStack), Top, Top.ip, e) /\ Top \in Interrupted(Len(callStack))
  BY <1>2, <1>4, <1>5, TopErrs
<1>7. Nearest!NearestNext /\ InFlight(pid, callStack', pending')
  BY <1>3, <1>6, RaisedStep
<1> QED BY <1>4, <1>7, JitRidesIs DEF JitStep, JitGoesOn, going

\* The error of a division, an element or a sum of decimals.
LEMMA FaultRaises ==
  ASSUME JitRides, pending = NoError, NEW ops, ops \subseteq Fallible, NEW i \in Native(ops),
         Faults(i.op, Get(i.arg))
  PROVE  FaultOf(i.op) \in Errors /\ Raised(i.op) = {FaultOf(i.op)}
<1>1. i \in Current(ops) /\ i.op \in ops /\ i = Body[Top.ip]
  BY AtInstruction
<1>2. i \in Current(Fallible)
  BY <1>1 DEF Current, CurrentOf
<1> QED BY <1>2 DEF Errors, Raised

LEMMA JitCompletes ==
  ASSUME JitRides, pending = NoError, NEW ops, ops \subseteq Fallible, NEW i \in Native(ops),
         ~Faults(i.op, Get(i.arg)), GoOn(Put(i.dest, 1), NoError), jitQuiet, going
  PROVE  JitStep
<1>1. i \in Current(ops) /\ i.op \in ops /\ i = Body[Top.ip]
  BY AtInstruction
<1>2. i \in Current(Fallible)
  BY <1>1 DEF Current, CurrentOf
<1>3. callStack' = Store(i.dest, 1) /\ pending' = NoError
  BY AtInstruction, GoOnStores
<1>4. Complete /\ value' = 0
  BY <1>2, <1>3, JitRidesIs DEF Complete, jitQuiet, quiet, going
<1> QED BY <1>3, <1>4, PlainJitStep DEF NearestNext, Ordinary

LEMMA JitOperates ==
  ASSUME JitRides, pending = NoError, JitOperate
  PROVE  JitStep
<1>1. PICK i \in Native({"DIV", "DADD"}) :
        IF Faults(i.op, Get(i.arg)) THEN GoOn(callStack, Raised(i.op))
                                    ELSE GoOn(Put(i.dest, 1), NoError)
  BY DEF JitOperate
<1>2. jitQuiet /\ going /\ {"DIV", "DADD"} \subseteq Fallible
  BY DEF JitOperate, Fallible
<1>3. i.op \in {"DIV", "DADD"} /\ i = Body[Top.ip] /\ Top.ip \in 1..Len(Body)
  BY AtInstruction
<1>4. CASE ~Faults(i.op, Get(i.arg))
  BY <1>1, <1>2, <1>4, JitCompletes
<1>5. CASE Faults(i.op, Get(i.arg))
  <2> DEFINE e == FaultOf(i.op)
  <2>1. e \in Errors /\ Raised(i.op) = {e}
    BY <1>2, <1>5, FaultRaises
  <2> HIDE DEF e
  <2>2. GoOn(callStack, {e})
    BY <1>1, <1>5, <2>1
  <2>3. i.op \in {"THROW", "DIV", "ARRAY_GET", "DADD"}
    BY <1>3
  <2>4. ErrorStep(Len(callStack), Top, Top.ip, e) /\ Top \in Interrupted(Len(callStack))
    BY <1>2, <1>3, <2>2, <2>3, TopErrs
  <2>5. Nearest!NearestNext /\ InFlight(pid, callStack', pending')
    BY <2>1, <2>4, RaisedStep
  <2> QED BY <1>2, <2>5, JitRidesIs DEF JitStep, JitGoesOn, going
<1> QED BY <1>4, <1>5

\* An element out of bounds is in no try statement, and ends its function.
LEMMA JitElements ==
  ASSUME JitRides, pending = NoError, JitElement
  PROVE  JitStep
<1>1. PICK i \in Native({"ARRAY_GET"}) :
        IF Faults(i.op, Get(i.arg)) THEN JitLeave(Get(i.dest), Raised(i.op))
        ELSE GoOn(Put(i.dest, 1), NoError) /\ jitQuiet /\ going
  BY DEF JitElement
<1>2. {"ARRAY_GET"} \subseteq Fallible
  BY DEF Fallible
<1>3. /\ i.op = "ARRAY_GET" /\ i = Body[Top.ip] /\ Top.ip \in 1..Len(Body)
      /\ i.dest \in DOMAIN Top.slots
  <2>1. "ARRAY_GET" \in Filling
    BY DEF Filling
  <2> QED BY <2>1, AtInstruction
<1>4. CASE ~Faults(i.op, Get(i.arg))
  BY <1>1, <1>2, <1>4, JitCompletes
<1>5. CASE Faults(i.op, Get(i.arg))
  <2> DEFINE e == FaultOf(i.op)
             v == Get(i.dest)
  <2>1. e \in Errors /\ Raised(i.op) = {e}
    BY <1>2, <1>5, FaultRaises
  <2>2. \A n : n # Len(callStack) => v \in Leftovers(n)
    BY <1>3 DEF Leftovers
  <2> HIDE DEF e, v
  <2>3. JitLeave(v, {e})
    BY <1>1, <1>5, <2>1 DEF v
  <2>4. Open(pid, Top) = {}
    BY <1>3, JitRidesIs DEF JitFaithful, Open
  <2>5. CanRaise(Code[pid], Top.fn)
    <3>1. i.op \in {"THROW", "DIV", "ARRAY_GET", "DADD"}
      BY <1>3
    <3> QED BY <1>3, <3>1, RaisersAre
  <2>6. CASE Len(callStack) = 1
    <3>1. /\ pending' = NoError /\ status' = "uncaught" /\ value' = e /\ quiet
          /\ ~Enclosed(pid, callStack)
      BY <2>3, <2>4, <2>6, MainErrs
    <3>2. Report(e)
      BY <3>1 DEF Report
    <3> QED BY <2>1, <3>1, <3>2, PlainJitStep DEF NearestNext
  <2>7. CASE Len(callStack) # 1
    <3> DEFINE n == Len(callStack) - 1
               g == [callStack[n] EXCEPT !.slots[Top.dest] = v]
    <3>1. ErrorStep(n, g, callStack[n].ip - 1, e)
      BY <2>3, <2>4, <2>5, <2>7, LeaveErrs
    <3>2. n # Len(callStack) /\ callStack[n + 1] = Top /\ n > 0
      BY <2>7, JitRidesIs, CallerIs
    <3>3. g \in Interrupted(n)
      BY <2>2, <3>2 DEF Interrupted
    <3>4. Nearest!NearestNext /\ InFlight(pid, callStack', pending')
      <4> HIDE DEF n, g
      <4> QED BY <2>1, <3>1, <3>3, RaisedStep
    <3>5. status' = status /\ value' = value
      BY <3>1, ErrorUnchanged
    <3> QED BY <3>4, <3>5, JitRidesIs DEF JitStep, JitGoesOn
  <2> QED BY <2>6, <2>7
<1> QED BY <1>4, <1>5

-----------------------------------------------------------------------------
(* An error on its way.                                                     *)

LEMMA OnlyTheEnd ==
  ASSUME JitRides, Raising(pid, callStack, pending), BackendNext
  PROVE  JitEnd
<1>1. Top.ip = Len(Body) + 1
  BY JitRidesIs DEF Raising
<1>2. \A ops : Current(ops) = {}
  <2>1. ~(Top.ip <= Len(Body))
    BY <1>1, JitRidesIs DEF IsCode
  <2> QED BY <2>1 DEF Current, CurrentOf
<1>3. \A ops : Native(ops) = {}
  BY <1>2 DEF Native
<1>4. ~VmStep
  BY JitRidesIs DEF VmStep
<1>5. ~JitLoad /\ ~JitAskHost /\ ~JitEffect
  BY <1>3 DEF JitLoad, JitAskHost, JitEffect
<1>6. ~JitBranch /\ ~JitCall /\ ~JitReturn
  BY <1>2, <1>3 DEF JitBranch, JitCall, Call, JitReturn
<1>7. ~JitTry /\ ~JitThrow /\ ~JitOperate /\ ~JitElement
  BY <1>3 DEF JitTry, JitThrow, JitOperate, JitElement
<1> QED BY <1>4, <1>5, <1>6, <1>7 DEF BackendNext

LEMMA JitMovesOut ==
  ASSUME JitRides, Raising(pid, callStack, pending), JitEnd
  PROVE  UNCHANGED Nearest!nearestVars /\ JitGoesOn
<1>1. PICK e : /\ pending = {e} /\ Top.ip = Len(Body) + 1 /\ CanRaise(Code[pid], Top.fn)
  BY JitRidesIs DEF Raising
<1>2. JitLeave(0, {e})
  BY <1>1 DEF JitEnd
<1>3. Open(pid, Top) = {}
  BY <1>1, JitRidesIs, InNoBody DEF Open
<1>4. CASE Len(callStack) = 1
  <2>1. /\ callStack' = << >> /\ pending' = NoError /\ status' = "uncaught" /\ value' = e
        /\ quiet /\ ~Enclosed(pid, callStack)
    BY <1>2, <1>3, <1>4, MainErrs
  <2>2. Lost /\ TheError = e
    BY <1>1, <2>1 DEF Lost, NoError, TheError
  <2>3. SourceStack = << >> /\ SourceStatus = "uncaught" /\ SourceValue = e
    BY <2>2 DEF SourceStack, SourceStatus, SourceValue, Lost
  <2>4. SourceStack' = << >> /\ SourceStatus' = "uncaught" /\ SourceValue' = e
    BY <2>1 DEF SourceStack, SourceStatus, SourceValue, Lost
  <2> QED BY <2>1, <2>3, <2>4 DEF Nearest!nearestVars, quiet, JitGoesOn
<1>5. CASE Len(callStack) # 1
  <2> DEFINE n == Len(callStack) - 1
             g == [callStack[n] EXCEPT !.slots[Top.dest] = 0]
  <2>1. ErrorStep(n, g, callStack[n].ip - 1, e)
    BY <1>1, <1>2, <1>3, <1>5, LeaveErrs
  <2>2. callStack[n + 1] = Top
    BY <1>5, JitRidesIs, CallerIs
  <2>3. g = Zeroed(callStack, n)
    BY <2>2 DEF Zeroed
  <2> HIDE DEF g, n
  <2>4. UNCHANGED Nearest!nearestVars /\ InFlight(pid, callStack', pending')
    BY <1>1, <2>1, <2>3, OutwardStep
  <2>5. status' = status /\ value' = value
    BY <2>1, ErrorUnchanged
  <2> QED BY <2>4, <2>5, JitRidesIs DEF JitGoesOn
<1> QED BY <1>4, <1>5

LEMMA JitImplements ==
  ASSUME JitRides, InFlight(pid, callStack, pending), BackendNext
  PROVE  (Nearest!NearestNext \/ UNCHANGED Nearest!nearestVars) /\ JitGoesOn
<1>1. CASE pending = NoError
  <2>1. ~VmStep
    BY JitRidesIs DEF VmStep
  <2>2. JitStep
    BY <1>1, <2>1, JitStores, JitSteps, JitJumps, JitReturns, JitThrows, JitOperates, JitElements
       DEF BackendNext
  <2> QED BY <2>2 DEF JitStep
<1>2. CASE Raising(pid, callStack, pending)
  BY <1>2, OnlyTheEnd, JitMovesOut
<1> QED BY <1>1, <1>2 DEF InFlight

-----------------------------------------------------------------------------
(* Both backends.                                                           *)

VmOk ==
  engine = "vm" =>
    /\ pid \in ContainedPrograms /\ pending = NoError
    /\ status = "running" => Stacked(pid, callStack)
JitOk ==
  engine = "jit" =>
    /\ Faithful(pid)
    /\ status = "running" => InFlight(pid, callStack, pending) /\ value = 0
    /\ status # "running" => pending = NoError
NInv == IInv /\ VmOk /\ JitOk

LEMMA InitStacked ==
  ASSUME BackendInit
  PROVE  Stacked(pid, callStack) /\ pid \in 1..Len(Code)
<1> DEFINE frame == FrameOf("main", -1)
<1>1. callStack = <<frame>> /\ pid \in 1..Len(Code)
  BY DEF BackendInit, VmInit, Init
<1>2. /\ frame.fn = "main" /\ frame.ip = 1 /\ DOMAIN frame = {"fn", "ip", "slots", "dest"}
      /\ DOMAIN frame.slots = 0..Code[pid]["main"].slotCount - 1
  BY DEF FrameOf
<1> HIDE DEF frame
<1>3. IsFrame(pid, frame) /\ Slotted(pid, frame)
  <2>1. "main" \in Function /\ IsCode(Code[pid]["main"].code)
    BY <1>1, CodeAssumption DEF Function
  <2>2. 1 \in 1..Len(Code[pid]["main"].code) + 1
    BY <2>1 DEF IsCode
  <2> QED BY <1>2, <2>1, <2>2 DEF IsFrame, Slotted, CodeOf
<1>4. IsSequence(callStack) /\ Len(callStack) = 1 /\ callStack[1] = frame /\ callStack # << >>
  <2>1. callStack \in Seq({frame}) /\ Len(callStack) = 1 /\ callStack[1] = frame
    BY <1>1
  <2> QED BY <2>1, SeqIsSequence, SequenceIs
<1>5. \A d \in 1..1 : d = 1 /\ d + 1 \notin 1..1
  OBVIOUS
<1> QED BY <1>1, <1>3, <1>4, <1>5 DEF Stacked, Framed

LEMMA InitNearest ==
  ASSUME VmPrograms \subseteq ContainedPrograms, JitPrograms \subseteq JitFaithfulOf(Code),
         BackendInit
  PROVE  NInv /\ Nearest!Init
<1>1. /\ IInv /\ Stacked(pid, callStack) /\ pid \in 1..Len(Code)
  BY InitHolds, InitStacked
<1>2. /\ pending = NoError /\ status = "running" /\ value = 0
      /\ engine = "vm" => pid \in VmPrograms
      /\ engine = "jit" => pid \in JitPrograms
  BY DEF BackendInit, VmInit, Init
<1>3. VmOk /\ JitOk
  BY <1>1, <1>2 DEF VmOk, JitOk, Faithful, InFlight
<1>4. Nearest!Init
  <2>1. Init
    BY DEF BackendInit, VmInit
  <2> QED BY <1>2, <2>1, CalmIs, TopSame DEF Init, Nearest!Init
<1> QED BY <1>1, <1>3, <1>4 DEF NInv

LEMMA JitOnlyRuns ==
  ASSUME BackendNext, ~VmStep
  PROVE  status = "running"
<1>1. \A ops : Native(ops) # {} => status = "running"
  BY OnlyRunning DEF Native
<1>2. CASE JitLoad \/ JitAskHost \/ JitEffect \/ JitBranch \/ JitCall
  BY <1>1, <1>2, OnlyRunning DEF JitLoad, JitAskHost, JitEffect, JitBranch, JitCall, Call
<1>3. CASE JitReturn \/ JitEnd \/ JitTry \/ JitThrow \/ JitOperate \/ JitElement
  BY <1>1, <1>3 DEF JitReturn, JitEnd, AtEnd, JitTry, JitThrow, JitOperate, JitElement
<1> QED BY <1>2, <1>3 DEF BackendNext

LEMMA StepNearest ==
  ASSUME NInv, [BackendNext]_backendVars
  PROVE  NInv' /\ [Nearest!NearestNext]_Nearest!nearestVars
<1>1. IInv'
  BY StepHolds DEF NInv
<1>2. CASE VmStep
  <2>1. Next /\ engine = "vm" /\ engine' = engine /\ pending' = pending
    BY <1>2 DEF VmStep
  <2>2. status = "running" /\ pid' = pid
    BY <2>1, NextRuns
  <2>3. /\ pid \in 1..Len(Code) /\ pid \in ContainedPrograms /\ pending = NoError
        /\ Stacked(pid, callStack) /\ Runs(pid, callStack, tryStack)
    BY <2>1, <2>2 DEF NInv, IInv, VmOk
  <2>4. Rides /\ VmRuns
    BY <2>2, <2>3 DEF Rides, VmRuns, ProgramOk
  <2>5. NearestNext
    BY <2>1, <2>4, VmNearest
  <2>6. Nearest!NearestNext
    BY <2>1, <2>3, <2>5, NearestSame DEF Plain
  <2>7. KeepsStack
    BY <2>4, <2>5, NearestStacked
  <2>8. VmOk' /\ JitOk'
    BY <2>1, <2>2, <2>3, <2>7 DEF VmOk, JitOk, KeepsStack, ContainedPrograms
  <2> QED BY <1>1, <2>6, <2>8 DEF NInv
<1>3. CASE BackendNext /\ ~VmStep
  <2>1. engine = "jit" /\ engine' = engine /\ pid' = pid /\ status = "running"
    BY <1>3, JitStays, JitOnlyRuns
  <2>2. Faithful(pid) /\ InFlight(pid, callStack, pending) /\ value = 0
    BY <2>1 DEF NInv, JitOk
  <2>3. JitRides
    BY <2>1, <2>2 DEF JitRides, Rides, Faithful, InFlight
  <2>4. (Nearest!NearestNext \/ UNCHANGED Nearest!nearestVars) /\ JitGoesOn
    BY <1>3, <2>2, <2>3, JitImplements
  <2>5. VmOk' /\ JitOk'
    BY <2>1, <2>2, <2>4 DEF VmOk, JitOk, JitGoesOn, Faithful
  <2> QED BY <1>1, <2>4, <2>5 DEF NInv
<1>4. CASE UNCHANGED backendVars
  <2>1. VmOk' /\ JitOk'
    BY <1>4 DEF NInv, VmOk, JitOk, backendVars, vars, Faithful, ContainedPrograms
  <2>2. UNCHANGED Nearest!nearestVars
    BY <1>4 DEF backendVars, vars, Nearest!nearestVars, SourceStack, SourceStatus, SourceValue,
                Lost, TheError
  <2> QED BY <1>1, <2>1, <2>2 DEF NInv
<1> QED BY <1>2, <1>3, <1>4

\* The VM and compiled code run every program of the kind they are given as
\* NearestCatch says: an error goes to the nearest enclosing catch, of the
\* innermost frame that has one, or is reported when there is none (tryStack_;
\* g_jitPendingError and the handlers of mir_backend.cpp).
THEOREM ErrorsFindCatches ==
  ASSUME VmPrograms \subseteq ContainedPrograms, JitPrograms \subseteq JitFaithfulOf(Code)
  PROVE  BackendSpec => ErrorsFindTheirCatch
<1>1. BackendInit => NInv /\ Nearest!Init
  BY InitNearest
<1>2. NInv /\ [BackendNext]_backendVars => NInv' /\ [Nearest!NearestNext]_Nearest!nearestVars
  BY StepNearest
<1> QED BY <1>1, <1>2, PTL DEF BackendSpec, ErrorsFindTheirCatch, Nearest!NearestSpec
=============================================================================
