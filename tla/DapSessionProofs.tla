-------------------------- MODULE DapSessionProofs --------------------------
(***************************************************************************)
(* Proofs about DapSession, for every set of programs and any number of    *)
(* requests: no request is lost, none but a pause overtakes another, the   *)
(* client is told what the program does, and no handle outlives a stop.    *)
(* For these nothing is used of what the VM does to a program (RunLoop):   *)
(* they are about the queues and the handlers around it.                   *)
(*                                                                         *)
(* Then that a session drives the VM as DebugRun says it may be driven, so *)
(* that the theorems of DebugRunProofs hold in every session.              *)
(***************************************************************************)
EXTENDS DapSession, DebugRunProofs

AllCommands == {Handshake[i] : i \in 1..4} \cup UNION {Programs[p].commands : p \in DOMAIN Programs}
Req == [seq : Nat, cmd : AllCommands]

\* The requests that left the pipe: those with the first numbers.
Read == sent - Len(inbox)

\* The requests carry the numbers 1, 2, ... in the order they were sent; those
\* kept back are in this order too.
Numbered ==
  /\ sent \in Nat /\ inbox \in Seq(Req) /\ pendingRequests \in Seq(Req)
  /\ Len(inbox) <= sent
  /\ \A i \in 1..Len(inbox) : inbox[i].seq = Read + i
  /\ \A i \in 1..Len(pendingRequests) : pendingRequests[i].seq \in 1..Read
  /\ \A i, j \in 1..Len(pendingRequests) : i < j => pendingRequests[i].seq < pendingRequests[j].seq
  /\ answered \subseteq Req
  /\ \A r \in answered : r.seq \in 1..Read

\* What was read is answered or kept back, not both; and an answer other than
\* that to a pause was given when nothing older was left.
Accounted ==
  /\ \A n \in 1..Read : \/ \E r \in answered : r.seq = n
                        \/ \E i \in 1..Len(pendingRequests) : pendingRequests[i].seq = n
  /\ \A r \in answered : \A i \in 1..Len(pendingRequests) :
       /\ r.seq # pendingRequests[i].seq
       /\ r.cmd # "pause" => r.seq < pendingRequests[i].seq

\* The first requests are the handshake, whose last is sent once.
InHandshake(r) == IF r.seq <= 4 THEN r.cmd = Handshake[r.seq] ELSE r.cmd # "configurationDone"

Shaken ==
  /\ program \in DOMAIN Programs
  /\ \A i \in 1..Len(inbox) : InHandshake(inbox[i])
  /\ \A i \in 1..Len(pendingRequests) : InHandshake(pendingRequests[i])
  /\ \A r \in answered : InHandshake(r)

Answered(n) == \E r \in answered : r.seq = n

\* Before configurationDone nothing runs; after launch there is a program or
\* the session is over.
Launching ==
  /\ ~Answered(4) => /\ pendingRequests = << >> /\ server \in {"read", "ended"}
                     /\ state = "Init" /\ varRefs = "none"
  /\ Answered(2) => vmUp \/ view = "over"

\* Nothing is kept back when the main loop reads, and no handle is known while
\* the VM runs.
Quiet ==
  /\ server \in {"read", "drain", "run", "step", "ended", "crashed"}
  /\ server = "read" => pendingRequests = << >>
  /\ varRefs \in {"none", "fresh"}
  /\ server \in {"run", "step"} => varRefs = "none"

IInv == Numbered /\ Accounted /\ Shaken /\ Launching /\ Quiet /\ ClientKnows

-----------------------------------------------------------------------------
(* What the invariant says.                                                *)

LEMMA IInvNoRequestLost == IInv => NoRequestLost
<1> SUFFICES ASSUME IInv PROVE NoRequestLost
  OBVIOUS
<1> DEFINE n == Len(inbox)
           m == Len(pendingRequests)
<1>1. /\ n \in Nat /\ m \in Nat /\ sent \in Nat /\ n <= sent
      /\ DOMAIN inbox = 1..n /\ DOMAIN pendingRequests = 1..m
  BY DEF IInv, Numbered
<1>2. \A i \in 1..n : inbox[i].seq = sent - n + i
  BY DEF IInv, Numbered, Read
<1>3. \A i \in 1..m : pendingRequests[i].seq \in 1..(sent - n)
  BY DEF IInv, Numbered, Read
<1>4. \A r \in answered : r.seq \in 1..(sent - n)
  BY DEF IInv, Numbered, Read
<1>5. \A k \in 1..(sent - n) : \/ \E r \in answered : r.seq = k
                               \/ \E i \in 1..m : pendingRequests[i].seq = k
  BY DEF IInv, Accounted, Read
<1>6. Waiting = {inbox[i] : i \in 1..n} /\ Kept = {pendingRequests[i] : i \in 1..m}
  BY <1>1 DEF Waiting, Kept
<1> HIDE DEF n, m
<1>7. Seqs(answered) \cup Seqs(Waiting) \cup Seqs(Kept) \subseteq 1..sent
  <2>1. \A i \in 1..n : inbox[i].seq \in 1..sent
    BY <1>1, <1>2
  <2>2. 1..(sent - n) \subseteq 1..sent
    BY <1>1
  <2>3. QED
    BY <1>3, <1>4, <1>6, <2>1, <2>2 DEF Seqs
<1>8. ASSUME NEW k \in 1..sent
      PROVE  k \in Seqs(answered) \cup Seqs(Waiting) \cup Seqs(Kept)
  <2>1. CASE k \in 1..(sent - n)
    BY <2>1, <1>5, <1>6 DEF Seqs
  <2>2. CASE k \notin 1..(sent - n)
    <3>1. k - (sent - n) \in 1..n
      BY <1>1, <2>2
    <3>2. inbox[k - (sent - n)].seq = k
      BY <1>1, <1>2, <3>1
    <3>3. QED
      BY <3>1, <3>2, <1>6 DEF Seqs
  <2>3. QED
    BY <2>1, <2>2
<1>9. \A i \in 1..n : inbox[i].seq \notin 1..(sent - n)
  BY <1>1, <1>2
<1>10. Waiting \cap Kept = {} /\ answered \cap Waiting = {}
  BY <1>3, <1>4, <1>6, <1>9
<1>11. answered \cap Kept = {}
  BY <1>6 DEF IInv, Accounted, m
<1>12. QED
  BY <1>7, <1>8, <1>10, <1>11 DEF NoRequestLost

LEMMA IInvAnsweredInOrder == IInv => AnsweredInOrder
<1> SUFFICES ASSUME IInv, NEW r \in answered, NEW w \in Waiting \cup Kept, w.seq < r.seq
             PROVE  r.cmd = "pause" /\ w \in Kept
  BY DEF AnsweredInOrder
<1>1. /\ Len(inbox) \in Nat /\ sent \in Nat
      /\ DOMAIN inbox = 1..Len(inbox) /\ DOMAIN pendingRequests = 1..Len(pendingRequests)
      /\ r.seq \in 1..(sent - Len(inbox))
  BY DEF IInv, Numbered, Read
<1>2. w \notin Waiting
  <2>1. ASSUME NEW i \in 1..Len(inbox) PROVE ~(inbox[i].seq < r.seq)
    <3>1. inbox[i].seq = sent - Len(inbox) + i
      BY DEF IInv, Numbered, Read
    <3>2. QED
      BY <3>1, <1>1
  <2>2. QED
    BY <2>1, <1>1 DEF Waiting
<1>3. PICK i \in 1..Len(pendingRequests) : w = pendingRequests[i]
  BY <1>1, <1>2 DEF Kept
<1>4. pendingRequests[i].seq \in Nat
  BY DEF IInv, Numbered, Req
<1>5. r.cmd = "pause"
  BY <1>1, <1>3, <1>4 DEF IInv, Accounted
<1>6. QED
  BY <1>2, <1>5

LEMMA IInvHandlesAreFresh == IInv => HandlesAreFresh
  BY DEF IInv, Quiet, HandlesAreFresh

-----------------------------------------------------------------------------
(* The queues.                                                             *)

LEMMA HeadOfQueue ==
  ASSUME NEW q \in Seq(Req), q # << >>
  PROVE  /\ Head(q) = q[1] /\ q[1] \in Req /\ Len(q) \in Nat \ {0}
         /\ Tail(q) \in Seq(Req) /\ Len(Tail(q)) = Len(q) - 1
         /\ \A i \in 1..Len(Tail(q)) : Tail(q)[i] = q[i + 1] /\ i + 1 \in 1..Len(q)
  OBVIOUS


\* A request sent is the last of the queue.
LEMMA SendKeeps ==
  ASSUME IInv, Send
  PROVE  Numbered' /\ Accounted' /\ Shaken'
<1> DEFINE n == Len(inbox)
<1>1. PICK c \in IF sent < Len(Handshake) THEN {Handshake[sent + 1]} ELSE Commands :
        inbox' = Append(inbox, [seq |-> sent + 1, cmd |-> c])
  BY DEF Send
<1> DEFINE r == [seq |-> sent + 1, cmd |-> c]
<1>2. /\ sent' = sent + 1 /\ sent \in Nat /\ n \in Nat /\ n <= sent
      /\ UNCHANGED <<pendingRequests, answered, program>>
      /\ inbox \in Seq(Req) /\ program \in DOMAIN Programs
  BY DEF Send, session, debugVars, setup, IInv, Numbered, Shaken
<1>3. Len(Handshake) = 4 /\ \A i \in 1..4 : Handshake[i] \in AllCommands
  BY DEF Handshake, AllCommands
<1>4. c \in AllCommands /\ InHandshake(r)
  <2>1. CASE sent < 4
    <3>1. c = Handshake[sent + 1] /\ sent + 1 \in 1..4
      BY <1>1, <1>2, <1>3, <2>1
    <3>2. QED
      BY <3>1, <1>3 DEF InHandshake
  <2>2. CASE ~(sent < 4)
    <3>1. c \in Programs[program].commands /\ ~(sent + 1 <= 4)
      BY <1>1, <1>2, <1>3, <2>2 DEF Commands
    <3>2. c # "configurationDone"
      BY <3>1, <1>2, DapSessionAssumption
    <3>3. QED
      BY <3>1, <3>2, <1>2 DEF InHandshake, AllCommands
  <2>3. QED
    BY <2>1, <2>2
<1>5. r \in Req /\ r.seq = sent + 1
  BY <1>2, <1>4 DEF Req
<1> HIDE DEF r
<1>6. /\ inbox' \in Seq(Req) /\ Len(inbox') = n + 1 /\ inbox'[n + 1] = r
      /\ \A i \in 1..n : inbox'[i] = inbox[i]
  BY <1>1, <1>2, <1>5 DEF r
<1>7. Read' = Read
  BY <1>2, <1>6 DEF Read
<1>8. \A i \in 1..(n + 1) : inbox'[i].seq = Read + i
  <2>1. \A i \in 1..n : inbox'[i].seq = Read + i
    BY <1>6 DEF IInv, Numbered
  <2>2. inbox'[n + 1].seq = Read + (n + 1)
    BY <1>2, <1>5, <1>6 DEF Read
  <2>3. QED
    BY <2>1, <2>2, <1>2
<1>9. Numbered'
  BY <1>2, <1>6, <1>7, <1>8 DEF IInv, Numbered
<1>10. Accounted'
  BY <1>2, <1>7 DEF IInv, Accounted
<1>11. Shaken'
  <2>1. \A i \in 1..(n + 1) : InHandshake(inbox'[i])
    BY <1>2, <1>4, <1>6 DEF IInv, Shaken, r
  <2>2. QED
    BY <2>1, <1>2, <1>6 DEF IInv, Shaken
<1>12. QED
  BY <1>9, <1>10, <1>11

\* The oldest request in the pipe is read and answered; only a pause while
\* something is kept back.
LEMMA AnswerInboxKeeps ==
  ASSUME IInv, inbox # << >>, inbox' = Tail(inbox),
         UNCHANGED <<sent, pendingRequests, program>>,
         answered' = answered \cup {Head(inbox)},
         pendingRequests = << >> \/ Head(inbox).cmd = "pause"
  PROVE  /\ Numbered' /\ Accounted' /\ Shaken'
         /\ Head(inbox) \in Req /\ InHandshake(Head(inbox))
         /\ Head(inbox).seq = Read + 1 /\ Read \in Nat
<1> DEFINE r == Head(inbox)
           n == Len(inbox)
           m == Len(pendingRequests)
<1>1. /\ sent \in Nat /\ inbox \in Seq(Req) /\ pendingRequests \in Seq(Req)
      /\ n <= sent /\ program \in DOMAIN Programs
      /\ \A i \in 1..n : inbox[i].seq = Read + i /\ InHandshake(inbox[i])
      /\ \A q \in answered : q \in Req /\ q.seq \in 1..Read
      /\ \A i \in 1..m : pendingRequests[i].seq \in 1..Read
  BY DEF IInv, Numbered, Shaken
<1>2. /\ r = inbox[1] /\ r \in Req /\ n \in Nat \ {0}
      /\ inbox' \in Seq(Req) /\ Len(inbox') = n - 1
      /\ \A i \in 1..(n - 1) : inbox'[i] = inbox[i + 1] /\ i + 1 \in 1..n
  BY <1>1, HeadOfQueue
<1>3. Read \in Nat /\ Read' = Read + 1
  BY <1>1, <1>2 DEF Read
<1>4. r.seq = Read + 1 /\ InHandshake(r) /\ m \in Nat
  BY <1>1, <1>2
<1> HIDE DEF r
<1>5. \A i \in 1..(n - 1) : inbox'[i].seq = Read' + i
  <2>1. \A i \in 1..(n - 1) : inbox'[i].seq = Read + (i + 1)
    BY <1>1, <1>2
  <2>2. QED
    BY <2>1, <1>2, <1>3
<1>6. 1..Read \subseteq 1..(Read + 1) /\ Read + 1 \in 1..(Read + 1) /\ Read + 1 \notin 1..Read
  BY <1>3
<1>7. answered' = answered \cup {r}
  BY DEF r
<1>8. \A q \in answered' : q \in Req /\ q.seq \in 1..Read'
  BY <1>1, <1>2, <1>3, <1>4, <1>6, <1>7
<1>9. Numbered'
  <2>1. Len(inbox') <= sent'
    BY <1>1, <1>2
  <2>2. \A i \in 1..m : pendingRequests[i].seq \in 1..Read'
    BY <1>1, <1>3, <1>6
  <2>3. QED
    BY <2>1, <2>2, <1>1, <1>2, <1>5, <1>8 DEF IInv, Numbered
<1>10. Accounted'
  <2>1. ASSUME NEW k \in 1..Read'
        PROVE  \/ \E q \in answered' : q.seq = k
               \/ \E i \in 1..m : pendingRequests[i].seq = k
    <3>1. CASE k = Read + 1
      BY <3>1, <1>4, <1>7
    <3>2. CASE k # Read + 1
      <4>1. k \in 1..Read
        BY <3>2, <2>1, <1>3
      <4>2. QED
        BY <4>1, <1>7 DEF IInv, Accounted
    <3>3. QED
      BY <3>1, <3>2
  <2>2. ASSUME NEW i \in 1..m
        PROVE  /\ r.seq # pendingRequests[i].seq
               /\ r.cmd # "pause" => r.seq < pendingRequests[i].seq
    <3>1. r.seq # pendingRequests[i].seq
      BY <1>1, <1>4, <1>6, <2>2
    <3>2. m # 0
      BY <2>2, <1>4
    <3>3. r.cmd = "pause"
      BY <3>2 DEF r
    <3>4. QED
      BY <3>1, <3>3
  <2>3. QED
    BY <2>1, <2>2, <1>7 DEF IInv, Accounted
<1>11. Shaken'
  BY <1>1, <1>2, <1>4, <1>7 DEF IInv, Shaken
<1>12. QED
  BY <1>2, <1>3, <1>4, <1>9, <1>10, <1>11 DEF r

\* The oldest request kept back is answered.
LEMMA AnswerKeptKeeps ==
  ASSUME IInv, pendingRequests # << >>, pendingRequests' = Tail(pendingRequests),
         UNCHANGED <<sent, inbox, program>>,
         answered' = answered \cup {Head(pendingRequests)}
  PROVE  /\ Numbered' /\ Accounted' /\ Shaken'
         /\ Head(pendingRequests) \in Req /\ InHandshake(Head(pendingRequests))
<1> DEFINE r == Head(pendingRequests)
           m == Len(pendingRequests)
<1>1. /\ sent \in Nat /\ inbox \in Seq(Req) /\ pendingRequests \in Seq(Req)
      /\ \A i \in 1..m : pendingRequests[i].seq \in 1..Read /\ InHandshake(pendingRequests[i])
      /\ \A i, j \in 1..m : i < j => pendingRequests[i].seq < pendingRequests[j].seq
  BY DEF IInv, Numbered, Shaken
<1>2. /\ r = pendingRequests[1] /\ r \in Req /\ m \in Nat \ {0}
      /\ pendingRequests' \in Seq(Req) /\ Len(pendingRequests') = m - 1
      /\ \A i \in 1..(m - 1) : pendingRequests'[i] = pendingRequests[i + 1] /\ i + 1 \in 1..m
  BY <1>1, HeadOfQueue
<1>3. 1 \in 1..m /\ r.seq \in 1..Read /\ InHandshake(r) /\ Read' = Read
  BY <1>1, <1>2 DEF Read
<1>4. answered' = answered \cup {r}
  OBVIOUS
<1> HIDE DEF r
<1>5. Numbered'
  <2>1. ASSUME NEW i \in 1..(m - 1), NEW j \in 1..(m - 1), i < j
        PROVE  pendingRequests'[i].seq < pendingRequests'[j].seq
    <3>1. i + 1 < j + 1
      BY <2>1, <1>2
    <3>2. QED
      BY <3>1, <2>1, <1>1, <1>2
  <2>2. \A i \in 1..(m - 1) : pendingRequests'[i].seq \in 1..Read
    BY <1>1, <1>2
  <2>3. QED
    BY <2>1, <2>2, <1>2, <1>3, <1>4 DEF IInv, Numbered
<1>6. \A i \in 1..(m - 1) : r.seq < pendingRequests'[i].seq
  <2>1. ASSUME NEW i \in 1..(m - 1) PROVE r.seq < pendingRequests[i + 1].seq
    <3>1. 1 < i + 1 /\ i + 1 \in 1..m
      BY <2>1, <1>2
    <3>2. QED
      BY <3>1, <1>1, <1>2, <1>3
  <2>2. QED
    BY <2>1, <1>2
<1>7. Accounted'
  <2>1. ASSUME NEW k \in 1..Read
        PROVE  \/ \E q \in answered' : q.seq = k
               \/ \E i \in 1..(m - 1) : pendingRequests'[i].seq = k
    <3>1. CASE \E q \in answered : q.seq = k
      BY <3>1, <1>4
    <3>2. CASE \E i \in 1..m : pendingRequests[i].seq = k
      <4>1. PICK i \in 1..m : pendingRequests[i].seq = k
        BY <3>2
      <4>2. CASE i = 1
        BY <4>1, <4>2, <1>2, <1>4
      <4>3. CASE i # 1
        <5>1. i - 1 \in 1..(m - 1) /\ (i - 1) + 1 = i
          BY <4>3, <1>2
        <5>2. pendingRequests'[i - 1] = pendingRequests[i]
          BY <5>1, <1>2
        <5>3. QED
          BY <4>1, <5>1, <5>2
      <4>4. QED
        BY <4>2, <4>3
    <3>3. QED
      BY <3>1, <3>2 DEF IInv, Accounted
  <2>2. ASSUME NEW q \in answered, NEW i \in 1..(m - 1)
        PROVE  /\ q.seq # pendingRequests'[i].seq
               /\ q.cmd # "pause" => q.seq < pendingRequests'[i].seq
    BY <1>2, <2>2 DEF IInv, Accounted
  <2>3. \A i \in 1..(m - 1) : r.seq # pendingRequests'[i].seq
    <3>1. ASSUME NEW i \in 1..(m - 1) PROVE pendingRequests'[i].seq \in Nat
      BY <1>1, <1>2, <3>1 DEF Req
    <3>2. QED
      BY <3>1, <1>3, <1>6
  <2>4. QED
    BY <2>1, <2>2, <2>3, <1>2, <1>3, <1>4, <1>6 DEF Accounted
<1>8. Shaken'
  BY <1>1, <1>2, <1>3, <1>4 DEF IInv, Shaken
<1>9. QED
  BY <1>2, <1>3, <1>5, <1>7, <1>8 DEF r

\* The oldest request in the pipe is read and kept back.
LEMMA KeepKeeps ==
  ASSUME IInv, inbox # << >>, inbox' = Tail(inbox),
         pendingRequests' = Append(pendingRequests, Head(inbox)),
         UNCHANGED <<sent, answered, program>>
  PROVE  Numbered' /\ Accounted' /\ Shaken'
<1> DEFINE r == Head(inbox)
           n == Len(inbox)
           m == Len(pendingRequests)
<1>1. /\ sent \in Nat /\ inbox \in Seq(Req) /\ pendingRequests \in Seq(Req)
      /\ n <= sent
      /\ \A i \in 1..n : inbox[i].seq = Read + i /\ InHandshake(inbox[i])
      /\ \A i \in 1..m : pendingRequests[i].seq \in 1..Read
      /\ \A i, j \in 1..m : i < j => pendingRequests[i].seq < pendingRequests[j].seq
      /\ \A q \in answered : q.seq \in 1..Read
  BY DEF IInv, Numbered, Shaken
<1>2. /\ r = inbox[1] /\ r \in Req /\ n \in Nat \ {0}
      /\ inbox' \in Seq(Req) /\ Len(inbox') = n - 1
      /\ \A i \in 1..(n - 1) : inbox'[i] = inbox[i + 1] /\ i + 1 \in 1..n
  BY <1>1, HeadOfQueue
<1>3. Read \in Nat /\ Read' = Read + 1
  BY <1>1, <1>2 DEF Read
<1>4. r.seq = Read + 1 /\ InHandshake(r) /\ m \in Nat
  BY <1>1, <1>2
<1>5. /\ pendingRequests' \in Seq(Req) /\ Len(pendingRequests') = m + 1
      /\ pendingRequests'[m + 1] = r
      /\ \A i \in 1..m : pendingRequests'[i] = pendingRequests[i]
  BY <1>1, <1>2
<1> HIDE DEF r
<1>6. \A i \in 1..(n - 1) : inbox'[i].seq = Read' + i
  <2>1. \A i \in 1..(n - 1) : inbox'[i].seq = Read + (i + 1)
    BY <1>1, <1>2
  <2>2. QED
    BY <2>1, <1>2, <1>3
<1>7. 1..Read \subseteq 1..(Read + 1) /\ Read + 1 \in 1..(Read + 1)
  BY <1>3
<1>8. \A i \in 1..(m + 1) : pendingRequests'[i].seq \in 1..Read'
  BY <1>1, <1>3, <1>4, <1>5, <1>7
<1>9. ASSUME NEW i \in 1..(m + 1), NEW j \in 1..(m + 1), i < j
      PROVE  pendingRequests'[i].seq < pendingRequests'[j].seq
  <2>1. i \in 1..m
    BY <1>4, <1>9
  <2>2. CASE j = m + 1
    <3>1. pendingRequests'[i].seq \in 1..Read
      BY <2>1, <1>1, <1>5
    <3>2. QED
      BY <2>2, <3>1, <1>3, <1>4, <1>5
  <2>3. CASE j # m + 1
    <3>1. j \in 1..m
      BY <2>3, <1>4
    <3>2. QED
      BY <2>1, <3>1, <1>1, <1>5, <1>9
  <2>4. QED
    BY <2>2, <2>3
<1>10. Numbered'
  <2>1. Len(inbox') <= sent'
    BY <1>1, <1>2
  <2>2. \A q \in answered : q.seq \in 1..Read'
    BY <1>1, <1>3, <1>7
  <2>3. QED
    BY <2>1, <2>2, <1>1, <1>2, <1>5, <1>6, <1>8, <1>9 DEF IInv, Numbered
<1>11. Accounted'
  <2>1. ASSUME NEW k \in 1..Read'
        PROVE  \/ \E q \in answered : q.seq = k
               \/ \E i \in 1..(m + 1) : pendingRequests'[i].seq = k
    <3>1. CASE k = Read + 1
      BY <3>1, <1>4, <1>5
    <3>2. CASE k # Read + 1
      <4>1. k \in 1..Read
        BY <3>2, <2>1, <1>3
      <4>2. CASE \E q \in answered : q.seq = k
        BY <4>2
      <4>3. CASE \E i \in 1..m : pendingRequests[i].seq = k
        <5>1. PICK i \in 1..m : pendingRequests[i].seq = k
          BY <4>3
        <5>2. i \in 1..(m + 1) /\ pendingRequests'[i].seq = k
          BY <5>1, <1>4, <1>5
        <5>3. QED
          BY <5>2
      <4>4. QED
        BY <4>1, <4>2, <4>3 DEF IInv, Accounted
    <3>3. QED
      BY <3>1, <3>2
  <2>2. ASSUME NEW q \in answered, NEW i \in 1..(m + 1)
        PROVE  /\ q.seq # pendingRequests'[i].seq
               /\ q.cmd # "pause" => q.seq < pendingRequests'[i].seq
    <3>1. CASE i = m + 1
      <4>1. q.seq \in 1..Read /\ pendingRequests'[i].seq = Read + 1
        BY <3>1, <2>2, <1>1, <1>4, <1>5
      <4>2. QED
        BY <4>1, <1>3
    <3>2. CASE i # m + 1
      <4>1. i \in 1..m
        BY <3>2, <1>4
      <4>2. QED
        BY <4>1, <2>2, <1>5 DEF IInv, Accounted
    <3>3. QED
      BY <3>1, <3>2
  <2>3. QED
    BY <2>1, <2>2, <1>5 DEF Accounted
<1>12. Shaken'
  <2>1. \A i \in 1..(m + 1) : InHandshake(pendingRequests'[i])
    BY <1>4, <1>5 DEF IInv, Shaken
  <2>2. QED
    BY <2>1, <1>1, <1>2, <1>5 DEF IInv, Shaken
<1>13. QED
  BY <1>10, <1>11, <1>12

-----------------------------------------------------------------------------
(* The handlers.                                                           *)

LEMMA HandshakeCommands ==
  /\ Handshake[1] = "initialize" /\ Handshake[2] = "launch"
  /\ Handshake[3] = "setBreakpoints" /\ Handshake[4] = "configurationDone"
  BY DEF Handshake

\* What every handler may rely on: which requests were answered before it.
LEMMA AnswerKeeps ==
  ASSUME IInv, NEW c, NEW ms, NEW m, Answer(c, ms, m), c # "none", UNCHANGED program
  PROVE  /\ Numbered' /\ Accounted' /\ Shaken'
         /\ server \in {"read", "drain"} /\ view' = Sees(m)
         /\ server = "read" => pendingRequests' = << >>
         /\ Answered(2)' /\ c # "launch" => Answered(2)
         /\ c = "configurationDone" => varRefs = "none" /\ Answered(4)'
         /\ c \notin {"initialize", "launch", "setBreakpoints"} => Answered(4)'
         /\ c \notin {"initialize", "launch", "setBreakpoints", "configurationDone"} => Answered(2)
         /\ ~Answered(4)' => ~Answered(4) /\ server = "read"
         /\ c = "configurationDone" => ~Answered(4) /\ Answered(2)
         /\ c \notin {"initialize", "launch", "setBreakpoints", "configurationDone"} => Answered(4)
         /\ c # "configurationDone" /\ Answered(4)' => Answered(4)
<1>1. /\ server \in {"read", "drain"} /\ view' = Sees(m) /\ Request.cmd = c
      /\ answered' = answered \cup {Request}
      /\ server = "read" => /\ inbox # << >> /\ Request = Head(inbox) /\ inbox' = Tail(inbox)
                            /\ UNCHANGED <<sent, pendingRequests>>
      /\ server = "drain" => /\ pendingRequests # << >> /\ Request = Head(pendingRequests)
                             /\ pendingRequests' = Tail(pendingRequests)
                             /\ UNCHANGED <<sent, inbox>>
  BY DEF Answer, Request, Taken, client
<1>2. server = "read" => pendingRequests = << >>
  BY DEF IInv, Quiet
<1>3. /\ Numbered' /\ Accounted' /\ Shaken'
      /\ Request \in Req /\ InHandshake(Request)
      /\ server = "read" => Request.seq = Read + 1 /\ Read \in Nat
  <2>1. CASE server = "read"
    BY <2>1, <1>1, <1>2, AnswerInboxKeeps
  <2>2. CASE server = "drain"
    BY <2>2, <1>1, AnswerKeptKeeps
  <2>3. QED
    BY <1>1, <2>1, <2>2
<1>4. Request.seq \in Nat
  BY <1>3 DEF Req
<1>5. \A n : Answered(n)' <=> Answered(n) \/ Request.seq = n
  BY <1>1 DEF Answered
<1>6. ~Answered(4) => server = "read" /\ Request.seq <= 4
  <2>1. SUFFICES ASSUME ~Answered(4) PROVE server = "read" /\ Request.seq <= 4
    OBVIOUS
  <2>2. pendingRequests = << >> /\ server = "read"
    BY <2>1, <1>1 DEF IInv, Launching
  <2>3. 4 \notin 1..Read
    BY <2>1, <2>2 DEF IInv, Accounted, Answered
  <2>4. QED
    BY <2>2, <2>3, <1>3
<1>7. Answered(4) => Answered(2)
  <2>1. SUFFICES ASSUME Answered(4) PROVE Answered(2)
    OBVIOUS
  <2>2. PICK r \in answered : r.seq = 4
    BY <2>1 DEF Answered
  <2>3. r.cmd = "configurationDone" /\ 4 \in 1..Read
    BY <2>2, HandshakeCommands DEF IInv, Shaken, InHandshake, Numbered
  <2>4. 2 \in 1..Read
    BY <2>3 DEF Read, IInv, Numbered
  <2>5. \A i \in 1..Len(pendingRequests) : 4 < pendingRequests[i].seq
    BY <2>2, <2>3 DEF IInv, Accounted
  <2>6. \A i \in 1..Len(pendingRequests) : pendingRequests[i].seq # 2
    BY <2>5
  <2>7. QED
    BY <2>4, <2>6 DEF IInv, Accounted, Answered
<1>8. Request.seq <= 4 => \/ Request.seq = 0
                          \/ Request.seq = 1 /\ c = "initialize"
                          \/ Request.seq = 2 /\ c = "launch"
                          \/ Request.seq = 3 /\ c = "setBreakpoints"
                          \/ Request.seq = 4 /\ c = "configurationDone"
  BY <1>1, <1>3, <1>4, HandshakeCommands DEF InHandshake
<1>9. Request.seq # 0
  <2>1. Request \in answered'
    BY <1>1
  <2>2. Request.seq \in 1..Read'
    BY <2>1, <1>3 DEF Numbered
  <2>3. QED
    BY <2>2
<1>10. c = "configurationDone" => Request.seq = 4
  BY <1>1, <1>3, <1>4, <1>8, <1>9 DEF InHandshake
<1>11. c = "configurationDone" => ~Answered(4)
  <2>1. SUFFICES ASSUME c = "configurationDone" PROVE ~Answered(4)
    OBVIOUS
  <2>2. Request.seq = 4
    BY <2>1, <1>10
  <2>3. CASE server = "read"
    BY <2>2, <2>3, <1>3 DEF IInv, Numbered, Answered
  <2>4. CASE server = "drain"
    <3>1. Request = pendingRequests[1] /\ 1 \in 1..Len(pendingRequests)
      BY <2>4, <1>1, HeadOfQueue DEF IInv, Numbered
    <3>2. QED
      BY <3>1, <2>2 DEF IInv, Accounted, Answered
  <2>5. QED
    BY <1>1, <2>3, <2>4
<1>12. c \notin {"initialize", "launch", "setBreakpoints"} => Answered(4)'
  BY <1>4, <1>5, <1>6, <1>8, <1>9
<1>13. c \notin {"initialize", "launch", "setBreakpoints", "configurationDone"} => Answered(2)
  BY <1>4, <1>6, <1>7, <1>8, <1>9
<1>14. c \notin {"initialize", "launch", "setBreakpoints", "configurationDone"} => Answered(4)
  BY <1>4, <1>6, <1>8, <1>9
<1>15. c = "configurationDone" => varRefs = "none" /\ Answered(2)
  <2>1. SUFFICES ASSUME c = "configurationDone" PROVE varRefs = "none" /\ Answered(2)
    OBVIOUS
  <2>2. ~Answered(4) /\ server = "read" /\ Request.seq = 4 /\ pendingRequests = << >>
    BY <2>1, <1>2, <1>6, <1>10, <1>11
  <2>3. 2 \in 1..Read
    BY <2>2, <1>3
  <2>4. QED
    BY <2>2, <2>3 DEF IInv, Launching, Accounted, Answered
<1>16. c # "configurationDone" /\ Answered(4)' => Answered(4)
  BY <1>4, <1>5, <1>8
<1>17. QED
  BY <1>1, <1>2, <1>3, <1>5, <1>6, <1>8, <1>9, <1>10, <1>11, <1>12, <1>13, <1>14, <1>15, <1>16

\* A handler that leaves the VM alone.
LEMMA StaysKeeps ==
  ASSUME IInv, NEW c, NEW ms, NEW m, Answer(c, ms, m), c # "none",
         UNCHANGED <<program, server, state>>,
         m \in {"none", "terminated", "disconnected"},
         varRefs' \in {varRefs, "none", "fresh"},
         ~Answered(4)' => varRefs' = varRefs,
         c # "launch" => vmUp' = vmUp \/ m # "none",
         c = "launch" => vmUp' \/ m # "none"
  PROVE  IInv'
<1>1. /\ Numbered' /\ Accounted' /\ Shaken'
      /\ server \in {"read", "drain"} /\ view' = Sees(m)
      /\ server = "read" => pendingRequests' = << >>
      /\ Answered(2)' /\ c # "launch" => Answered(2)
      /\ ~Answered(4)' => ~Answered(4) /\ server = "read"
  BY AnswerKeeps
<1>2. view' \in {view, "over"} /\ (m # "none" => view' = "over") /\ (view = "over" => view' = "over")
  BY <1>1 DEF Sees
<1>3. Launching'
  <2>1. ~Answered(4)' => /\ pendingRequests' = << >> /\ server' \in {"read", "ended"}
                         /\ state' = "Init" /\ varRefs' = "none"
    BY <1>1 DEF IInv, Launching
  <2>2. Answered(2)' => vmUp' \/ view' = "over"
    BY <1>1, <1>2 DEF IInv, Launching
  <2>3. QED
    BY <2>1, <2>2 DEF Launching
<1>4. Quiet'
  BY <1>1 DEF IInv, Quiet
<1>5. ClientKnows'
  BY <1>1, <1>2 DEF IInv, ClientKnows
<1>6. QED
  BY <1>1, <1>3, <1>4, <1>5 DEF IInv

\* A handler that lets the VM go on.
LEMMA GoesOnKeeps ==
  ASSUME IInv, NEW c, NEW ms, Answer(c, ms, "running"), c # "none",
         c \notin {"initialize", "launch", "setBreakpoints"},
         UNCHANGED <<program, vmUp>>, vmUp \/ Answered(2),
         \/ server' \in {"run", "step"} /\ varRefs' = "none"
         \/ UNCHANGED <<server, varRefs>> /\ ~vmUp
  PROVE  IInv'
<1>1. /\ Numbered' /\ Accounted' /\ Shaken'
      /\ server \in {"read", "drain"} /\ view' = Sees("running")
      /\ server = "read" => pendingRequests' = << >>
      /\ Answered(2)' => Answered(2)
      /\ Answered(4)'
  BY AnswerKeeps
<1>2. view' \in {"running", "over"} /\ (view = "over" => view' = "over")
  BY <1>1 DEF Sees
<1>3. Launching'
  BY <1>1, <1>2 DEF IInv, Launching
<1>4. Quiet'
  BY <1>1 DEF IInv, Quiet
<1>5. ClientKnows'
  BY <1>1, <1>2 DEF IInv, Launching, ClientKnows
<1>6. QED
  BY <1>1, <1>3, <1>4, <1>5 DEF IInv

LEMMA DispatchKeeps ==
  ASSUME IInv, Dispatch
  PROVE  IInv'
<1> USE DEF debugVars, setup
<1>1. CASE Initialize
  BY <1>1, StaysKeeps DEF Initialize, Stays
<1>2. CASE Launched
  <2>1. \/ Answer("launch", <<"response">>, "none") /\ vmUp'
        \/ Answer("launch", <<"output", "terminated", "response">>, "terminated")
    BY <1>2 DEF Launched
  <2>2. UNCHANGED <<program, server, state, varRefs>>
    BY <1>2 DEF Launched, Stays
  <2>3. QED
    BY <2>1, <2>2, StaysKeeps
<1>3. CASE SetBreakpointsOf
  BY <1>3, StaysKeeps DEF SetBreakpointsOf, Stays
<1>4. CASE ConfigurationDone
  <2>1. CASE ~vmUp
    BY <1>4, <2>1, StaysKeeps DEF ConfigurationDone, Stays
  <2>2. CASE vmUp
    <3>1. Answer("configurationDone", <<"response">>, "running") /\ UNCHANGED vmUp
      BY <1>4, <2>2 DEF ConfigurationDone
    <3>2. UNCHANGED program
      BY <1>4, <2>2 DEF ConfigurationDone, StartRun, StepEntry, Remember
    <3>3. varRefs = "none"
      BY <3>1, <3>2, AnswerKeeps
    <3>4. server' \in {"run", "step"} /\ varRefs' = "none"
      BY <1>4, <2>2, <3>3 DEF ConfigurationDone, StartRun, Invalidate
    <3>5. QED
      BY <2>2, <3>1, <3>2, <3>4, GoesOnKeeps
  <2>3. QED
    BY <2>1, <2>2
<1>5. CASE ContinueRun
  <2>1. Answer("continue", <<"response">>, "running") /\ UNCHANGED <<vmUp, program>>
    BY <1>5 DEF ContinueRun, StartRun, Remember
  <2>2. Answered(2)
    BY <2>1, AnswerKeeps
  <2>3. \/ server' \in {"run", "step"} /\ varRefs' = "none"
        \/ UNCHANGED <<server, varRefs>> /\ ~vmUp
    BY <1>5 DEF ContinueRun, StartRun, Invalidate, Stays
  <2>4. QED
    BY <2>1, <2>2, <2>3, GoesOnKeeps
<1>6. ASSUME NEW c \in {"next", "stepIn", "stepOut"}, NEW budget, NEW depth,
             StepBy(c, budget, depth)
      PROVE  IInv'
  <2>1. Answer(c, <<"response">>, "running") /\ UNCHANGED <<vmUp, program>>
    BY <1>6 DEF StepBy, Remember
  <2>2. Answered(2)
    BY <2>1, AnswerKeeps
  <2>3. \/ server' \in {"run", "step"} /\ varRefs' = "none"
        \/ UNCHANGED <<server, varRefs>> /\ ~vmUp
    BY <1>6 DEF StepBy, Invalidate, Stays
  <2>4. QED
    BY <2>1, <2>2, <2>3, GoesOnKeeps
<1>7. CASE PauseIdle
  BY <1>7, StaysKeeps DEF PauseIdle, Stays
<1>8. CASE Variables
  <2>1. Answer("variables", <<"response">>, "none") /\ UNCHANGED <<program, server, state, vmUp>>
    BY <1>8 DEF Variables, Stays
  <2>2. Answered(4)'
    BY <2>1, AnswerKeeps
  <2>3. varRefs' \in {varRefs, "fresh"}
    BY <1>8 DEF Variables
  <2>4. QED
    BY <2>1, <2>2, <2>3, StaysKeeps
<1>9. CASE Terminate
  <2>1. Answer("terminate", TerminateMessages, "terminated") /\ UNCHANGED <<program, server, state>>
    BY <1>9 DEF Terminate, Stays
  <2>2. Answered(4)'
    BY <2>1, AnswerKeeps
  <2>3. varRefs' = "none"
    BY <1>9 DEF Terminate, Invalidate
  <2>4. QED
    BY <2>1, <2>2, <2>3, StaysKeeps
<1>10. CASE Disconnect
  <2>1. Answer("disconnect", <<"response">>, "disconnected") /\ UNCHANGED <<program, server, state>>
    BY <1>10 DEF Disconnect, Stays
  <2>2. Answered(4)'
    BY <2>1, AnswerKeeps
  <2>3. varRefs' = "none"
    BY <1>10 DEF Disconnect, Invalidate
  <2>4. QED
    BY <2>1, <2>2, <2>3, StaysKeeps
<1>11. QED
  BY <1>1, <1>2, <1>3, <1>4, <1>5, <1>6, <1>7, <1>8, <1>9, <1>10 DEF Dispatch, Steps

\* The program stays the one of the session while the VM runs.
LEMMA RunLoopProgram == RunLoop => UNCHANGED program
  BY DEF RunLoop, StopBudget, StopBreakpoint, FallOff, StopStep, Execute, setup

\* A step in which the queues of requests stay as they are.
LEMMA QueuesStay ==
  ASSUME IInv, UNCHANGED <<inbox, sent, pendingRequests, answered, program>>
  PROVE  Numbered' /\ Accounted' /\ Shaken' /\ (\A n : Answered(n)' <=> Answered(n))
  BY DEF IInv, Numbered, Accounted, Shaken, Read, Answered

\* While the VM runs, configurationDone was answered.
LEMMA StartedAtLast ==
  ASSUME IInv, server \notin {"read", "ended"}
  PROVE  Answered(4)
  BY DEF IInv, Launching

\* The VM and the handler that waits for it.
LEMMA VmKeeps ==
  ASSUME IInv, VmStep \/ StepDone \/ RunDone \/ Crash
  PROVE  IInv'
<1> USE DEF client, setup, debugVars
<1>1. UNCHANGED <<inbox, sent, pendingRequests, answered, program, vmUp>>
  BY RunLoopProgram DEF VmStep, StepDone, RunDone, Crash, Back
<1>2. server \in {"run", "step"} /\ Answered(4) /\ varRefs = "none"
  BY StartedAtLast DEF VmStep, StepDone, RunDone, Crash, IInv, Quiet
<1>3. varRefs' = "none"
  BY <1>2 DEF VmStep, StepDone, RunDone, Crash, Back
<1>4. \/ UNCHANGED <<server, view>>
      \/ server' = "drain" /\ \E m \in {"stopped", "terminated"} : view' = Sees(m)
      \/ server' = "crashed" /\ UNCHANGED view
  BY DEF VmStep, StepDone, RunDone, Crash, Back, StepEvent
<1>5. /\ view' # view => server' = "drain"
      /\ server' = "drain" => view' # "running" \/ UNCHANGED server
      /\ view = "over" => view' = "over"
      /\ server' # "read"
  BY <1>2, <1>4 DEF Sees
<1>6. Numbered' /\ Accounted' /\ Shaken' /\ (\A n : Answered(n)' <=> Answered(n))
  BY <1>1, QueuesStay
<1>7. Launching'
  BY <1>1, <1>2, <1>5, <1>6 DEF IInv, Launching
<1>8. Quiet'
  BY <1>2, <1>3, <1>4 DEF Quiet
<1>9. ClientKnows'
  BY <1>2, <1>4, <1>5 DEF IInv, ClientKnows
<1>10. QED
  BY <1>6, <1>7, <1>8, <1>9 DEF IInv

\* Between two chunks.
LEMMA BetweenKeeps ==
  ASSUME IInv, Poll \/ PauseRun
  PROVE  IInv'
<1> USE DEF setup
<1>1. server = "run" /\ Answered(4) /\ varRefs = "none"
  BY StartedAtLast DEF Poll, PauseRun, Between, IInv, Quiet
<1>2. UNCHANGED <<sent, program, vmUp, varRefs>> /\ view \notin {"stopped"}
  BY <1>1 DEF Poll, PauseRun, Back, IInv, ClientKnows
<1>3. CASE Poll
  <2>1. Numbered' /\ Accounted' /\ Shaken' /\ (\A n : Answered(n)' <=> Answered(n))
    <3>1. CASE inbox # << >>
      BY <1>2, <1>3, <3>1, KeepKeeps DEF Poll, Keep, Answered
    <3>2. CASE inbox = << >>
      BY <1>2, <1>3, <3>2, QueuesStay DEF Poll
    <3>3. QED
      BY <3>1, <3>2
  <2>2. UNCHANGED <<server, view>>
    BY <1>3 DEF Poll
  <2>3. QED
    BY <1>1, <1>2, <2>1, <2>2 DEF IInv, Launching, Quiet, ClientKnows
<1>4. CASE PauseRun
  <2>1. Numbered' /\ Accounted' /\ Shaken'
    BY <1>2, <1>4, AnswerInboxKeeps DEF PauseRun, Interrupts
  <2>2. Answered(4)' /\ (Answered(2)' => Answered(2))
    <3>1. Head(inbox).seq = Read + 1 /\ Read \in Nat
      BY <1>2, <1>4, AnswerInboxKeeps DEF PauseRun, Interrupts
    <3>2. 4 \in 1..Read
      BY <1>1 DEF Answered, IInv, Numbered
    <3>3. Head(inbox).seq # 2
      BY <3>1, <3>2
    <3>4. QED
      BY <1>1, <1>4, <3>3 DEF PauseRun, Answered
  <2>3. server' = "drain" /\ view' = Sees("stopped")
    BY <1>4 DEF PauseRun, Back
  <2>4. view' # "running" /\ (view = "over" => view' = "over")
    BY <2>3 DEF Sees
  <2>5. QED
    BY <1>1, <1>2, <2>1, <2>2, <2>3, <2>4 DEF IInv, Launching, Quiet, ClientKnows
<1>5. QED
  BY <1>3, <1>4

LEMMA IdleKeeps ==
  ASSUME IInv, Drained \/ EndOfInput \/ SendPart \/ CloseInput
  PROVE  IInv'
<1> USE DEF client, session, setup, debugVars
<1>1. UNCHANGED <<inbox, sent, pendingRequests, answered, program, vmUp, varRefs, view, state>>
  BY DEF Drained, EndOfInput, SendPart, CloseInput
<1>2. Numbered' /\ Accounted' /\ Shaken' /\ (\A n : Answered(n)' <=> Answered(n))
  BY <1>1, QueuesStay
<1>3. \/ server = "drain" /\ pendingRequests = << >> /\ server' = "read"
      \/ server = "read" /\ server' = "ended"
      \/ UNCHANGED server
  BY DEF Drained, EndOfInput, SendPart, CloseInput
<1>4. QED
  BY <1>1, <1>2, <1>3 DEF IInv, Launching, Quiet, ClientKnows

LEMMA InitKeeps == DapInit => IInv
<1> SUFFICES ASSUME DapInit PROVE IInv
  OBVIOUS
<1>1. /\ inbox = << >> /\ pendingRequests = << >> /\ answered = {} /\ sent = 0
      /\ server = "read" /\ varRefs = "none" /\ view = "starting" /\ state = "Init"
      /\ program \in DOMAIN Programs
  BY DEF DapInit, Init
<1>2. Len(inbox) = 0 /\ Len(pendingRequests) = 0 /\ inbox \in Seq(Req) /\ pendingRequests \in Seq(Req)
  BY <1>1
<1>3. Read = 0
  <2>1. sent = 0 /\ Len(inbox) = 0
    BY <1>1, <1>2
  <2>2. QED
    BY <2>1 DEF Read
<1>4. Numbered /\ Accounted /\ Shaken
  BY <1>1, <1>2, <1>3 DEF Numbered, Accounted, Shaken
<1>5. Launching /\ Quiet /\ ClientKnows
  BY <1>1 DEF Launching, Answered, Quiet, ClientKnows
<1>6. QED
  BY <1>4, <1>5 DEF IInv

(***************************************************************************)
(* The inductive invariant: where the requests are by their numbers, and   *)
(* what has happened once the handshake is over.  The properties alone are *)
(* not inductive: a continue without a program leaves a client that is not *)
(* told of the end waiting, and only the order of the answers says that    *)
(* such a client was told before.                                          *)
(***************************************************************************)
THEOREM InductiveInvariant == DapSpec => []IInv
<1>1. DapInit => IInv
  BY InitKeeps
<1>2. ASSUME IInv, [DapNext]_dapVars
      PROVE  IInv'
  <2>1. CASE UNCHANGED dapVars
    <3>1. UNCHANGED <<inbox, sent, pendingRequests, answered, program, vmUp, varRefs, view,
                      state, server>>
      BY <2>1 DEF dapVars, client, session, debugVars, setup
    <3>2. Numbered' /\ Accounted' /\ Shaken' /\ (\A n : Answered(n)' <=> Answered(n))
      BY <1>2, <3>1, QueuesStay
    <3>3. QED
      BY <1>2, <3>1, <3>2 DEF IInv, Launching, Quiet, ClientKnows
  <2>2. CASE Send
    <3>1. Numbered' /\ Accounted' /\ Shaken'
      BY <1>2, <2>2, SendKeeps
    <3>2. UNCHANGED <<pendingRequests, answered, vmUp, varRefs, view, state, server>>
      BY <2>2 DEF Send, session, debugVars
    <3>3. QED
      BY <1>2, <3>1, <3>2 DEF IInv, Launching, Quiet, ClientKnows, Answered
  <2>3. CASE Dispatch
    BY <1>2, <2>3, DispatchKeeps
  <2>4. CASE VmStep \/ StepDone \/ RunDone \/ Crash
    BY <1>2, <2>4, VmKeeps
  <2>5. CASE Poll \/ PauseRun
    BY <1>2, <2>5, BetweenKeeps
  <2>6. CASE Drained \/ EndOfInput \/ SendPart \/ CloseInput
    BY <1>2, <2>6, IdleKeeps
  <2>7. QED
    BY <1>2, <2>1, <2>2, <2>3, <2>4, <2>5, <2>6 DEF DapNext, Server
<1>3. QED
  BY <1>1, <1>2, PTL DEF DapSpec

-----------------------------------------------------------------------------
(* The debugger inside.                                                     *)

\* What a client of this session may ask for.
Known == Commands \cup {Handshake[i] : i \in 1..4}

KnownRequests ==
  /\ \A i \in 1..Len(inbox) : inbox[i].cmd \in Known
  /\ \A i \in 1..Len(pendingRequests) : pendingRequests[i].cmd \in Known

\* Where the server is and what the VM is doing.
InStep ==
  /\ state \in {"Init", "Running", "Paused", "Finished", "Dead"}
  /\ state = "Finished" => reason = "Finished"
  /\ server = "run" => command = "continue" /\ state # "Init"
  /\ server = "step" => command \in {"entry", "next", "stepIn", "stepOut"} /\ state # "Init"
  /\ server \in {"read", "drain", "ended"} => command = "none" /\ state \notin {"Running", "Dead"}

\* A program that was built is launched before configurationDone starts it.
Started ==
  /\ vmUp => Builds
  /\ Builds /\ Answered(2) /\ ~Answered(4) => vmUp
  /\ Builds /\ Answered(4) => state # "Init"

Driven == KnownRequests /\ InStep /\ Started

LEMMA DrivenInit == DapInit => Driven
<1> SUFFICES ASSUME DapInit PROVE Driven
  OBVIOUS
<1>1. /\ inbox = << >> /\ pendingRequests = << >> /\ answered = {} /\ ~vmUp
      /\ server = "read" /\ state = "Init" /\ command = "none" /\ reason = "none"
  BY DEF DapInit, Init
<1>2. Len(inbox) = 0 /\ Len(pendingRequests) = 0
  BY <1>1
<1> QED BY <1>1, <1>2 DEF Driven, KnownRequests, InStep, Started, Answered

\* What a run that begins makes of the state.
LEMMA BeginsOrEnds ==
  ASSUME NEW b, NEW d, Begin(b, d)
  PROVE  /\ state' \in {"Running", "Finished"}
         /\ state' = "Finished" => reason' = "Finished"
  BY DEF Begin

\* A request that is taken was known, and those that stay are.
LEMMA TakenIsKnown ==
  ASSUME IInv, Driven, NEW c, NEW ms, NEW m, Answer(c, ms, m), c # "none", UNCHANGED program
  PROVE  KnownRequests' /\ c \in Known
<1>1. Known' = Known
  BY DEF Known, Commands
<1>2. inbox \in Seq(Req) /\ pendingRequests \in Seq(Req)
  BY DEF IInv, Numbered
<1>3. CASE server = "read"
  <2>1. inbox # << >> /\ Request = Head(inbox) /\ inbox' = Tail(inbox) /\ UNCHANGED pendingRequests
    BY <1>3 DEF Answer, Request, Taken
  <2>2. inbox[1].cmd = c /\ 1 \in 1..Len(inbox)
    BY <1>2, <2>1, HeadOfQueue DEF Answer
  <2>3. \A i \in 1..Len(inbox') : inbox'[i].cmd \in Known
    BY <1>2, <2>1, HeadOfQueue DEF Driven, KnownRequests
  <2> QED BY <1>1, <2>1, <2>2, <2>3 DEF Driven, KnownRequests
<1>4. CASE server # "read"
  <2>1. /\ pendingRequests # << >> /\ Request = Head(pendingRequests)
        /\ pendingRequests' = Tail(pendingRequests) /\ UNCHANGED inbox
    BY <1>4 DEF Answer, Request, Taken, client
  <2>2. pendingRequests[1].cmd = c /\ 1 \in 1..Len(pendingRequests)
    BY <1>2, <2>1, HeadOfQueue DEF Answer
  <2>3. \A i \in 1..Len(pendingRequests') : pendingRequests'[i].cmd \in Known
    BY <1>2, <2>1, HeadOfQueue DEF Driven, KnownRequests
  <2> QED BY <1>1, <2>1, <2>2, <2>3 DEF Driven, KnownRequests
<1> QED BY <1>3, <1>4

\* A handler that leaves the VM alone.
LEMMA StaysDriven ==
  ASSUME IInv, Driven, NEW c, NEW ms, NEW m, Answer(c, ms, m), c # "none",
         UNCHANGED <<program, server, state, command, reason>>,
         vmUp' => Builds,
         c = "launch" => vmUp' = Builds,
         c # "launch" /\ ~Answered(4)' => vmUp' = vmUp,
         c # "configurationDone" \/ ~vmUp
  PROVE  Driven'
<1>1. KnownRequests'
  BY TakenIsKnown
<1>2. InStep'
  BY DEF Driven, InStep
<1>3. /\ Answered(2)' /\ c # "launch" => Answered(2)
      /\ c = "configurationDone" => ~Answered(4) /\ Answered(2)
      /\ c \notin {"initialize", "launch", "setBreakpoints", "configurationDone"} => Answered(4)
      /\ ~Answered(4)' => ~Answered(4)
      /\ c # "configurationDone" /\ Answered(4)' => Answered(4)
  BY AnswerKeeps
<1>4. Builds' = Builds
  BY DEF Builds
<1>5. Started'
  BY <1>3, <1>4 DEF Driven, Started
<1> QED BY <1>1, <1>2, <1>5 DEF Driven

\* A handler that lets the VM go on.
LEMMA RunsDriven ==
  ASSUME IInv, Driven, vmUp, NEW c, NEW ms, NEW m, Answer(c, ms, m),
         c \notin {"none", "initialize", "launch", "setBreakpoints"},
         UNCHANGED <<program, vmUp>>, NEW b, NEW d, Begin(b, d),
         \/ server' = "run" /\ command' = "continue"
         \/ server' = "step" /\ command' \in {"entry", "next", "stepIn", "stepOut"}
  PROVE  Driven'
<1>1. KnownRequests' /\ Answered(4)'
  BY TakenIsKnown, AnswerKeeps
<1>2. InStep'
  BY BeginsOrEnds DEF InStep
<1>3. Started'
  BY <1>1, BeginsOrEnds DEF Driven, Started, Builds
<1> QED BY <1>1, <1>2, <1>3 DEF Driven

\* A command that reaches the VM is one the debugger takes where it stands.
LEMMA AskedInTime ==
  ASSUME IInv, Driven, vmUp, NEW c, NEW ms, NEW m, Answer(c, ms, m), UNCHANGED program,
         c \in {"continue", "next", "stepIn", "stepOut"}
  PROVE  Ask(c)
<1>1. c \in Known /\ Answered(4) /\ server \in {"read", "drain"}
  BY TakenIsKnown, AnswerKeeps
<1>2. c \in Commands
  BY <1>1, HandshakeCommands DEF Known
<1> QED BY <1>1, <1>2 DEF Ask, Idle, Driven, InStep, Started

LEMMA StepByDrives ==
  ASSUME IInv, Driven, NEW c \in {"next", "stepIn", "stepOut"}, NEW b, NEW d, StepBy(c, b, d)
  PROVE  /\ Driven'
         /\ \/ UNCHANGED vars
            \/ Ask(c) /\ Remember(c) /\ Begin(b, d)
<1>1. Answer(c, <<"response">>, "running") /\ UNCHANGED <<vmUp, program>>
  BY DEF StepBy, Remember, debugVars, setup
<1>2. CASE ~vmUp
  <2>1. UNCHANGED <<server, debugVars>>
    BY <1>2 DEF StepBy, Stays
  <2> QED BY <1>1, <1>2, <2>1, StaysDriven DEF debugVars, vars, setup
<1>3. CASE vmUp
  <2>1. server' = "step" /\ command' = c /\ Remember(c) /\ Begin(b, d)
    BY <1>3 DEF StepBy, Remember
  <2> QED BY <1>1, <1>3, <2>1, RunsDriven, AskedInTime
<1> QED BY <1>2, <1>3

\* Every handler that reaches the VM gives it a command where the debugger may.
LEMMA DispatchDrives ==
  ASSUME IInv, Driven, Dispatch
  PROVE  Driven' /\ [Next]_vars
<1>1. CASE Initialize
  <2>1. UNCHANGED <<server, vmUp, debugVars>>
    BY <1>1 DEF Initialize, Stays
  <2> QED BY <1>1, <2>1, StaysDriven DEF Initialize, debugVars, vars, setup, Driven, Started
<1>2. CASE Launched
  <2>1. UNCHANGED <<server, debugVars>> /\ vmUp' = Builds
    BY <1>2 DEF Launched, Stays
  <2>2. \E ms, m : Answer("launch", ms, m)
    BY <1>2 DEF Launched
  <2> QED BY <2>1, <2>2, StaysDriven DEF debugVars, vars, setup
<1>3. CASE SetBreakpointsOf
  <2>1. /\ Answer("setBreakpoints", <<"response">>, "none")
        /\ UNCHANGED <<server, vmUp, program, vm, state, command, reason, control, history>>
        /\ IF vmUp THEN breakpoints' \in SUBSET BreakLines ELSE UNCHANGED breakpoints
    BY <1>3 DEF SetBreakpointsOf, Stays
  <2>2. Driven'
    BY <2>1, StaysDriven DEF Driven, Started
  <2>3. Idle
    BY <2>1, AnswerKeeps DEF Idle, Driven, InStep
  <2> QED BY <2>1, <2>2, <2>3 DEF Next, SetBreakpoints, vars, setup
<1>4. CASE ConfigurationDone
  <2>1. PICK m : Answer("configurationDone", <<"response">>, m)
    BY <1>4 DEF ConfigurationDone
  <2>2. UNCHANGED <<vmUp, program>>
    BY <1>4 DEF ConfigurationDone, StartRun, StepEntry, Remember, debugVars, setup
  <2>3. CASE ~vmUp
    <3>1. UNCHANGED <<server, debugVars>>
      BY <1>4, <2>3 DEF ConfigurationDone, Stays
    <3> QED BY <2>1, <2>2, <2>3, <3>1, StaysDriven DEF debugVars, vars, setup
  <2>4. CASE vmUp
    <3>1. \/ server' = "step" /\ StopOnEntry /\ StepEntry
          \/ server' = "run" /\ ~StopOnEntry /\ Continue
      BY <1>4, <2>4 DEF ConfigurationDone, StartRun, Continue
    <3>2. ~Answered(4) /\ server \in {"read", "drain"}
      BY <2>1, <2>2, AnswerKeeps
    <3>3. state = "Init" /\ command = "none"
      BY <3>2 DEF IInv, Launching, Driven, InStep
    <3>4. Driven'
      BY <2>1, <2>2, <2>4, <3>1, RunsDriven DEF StepEntry, Continue, Remember
    <3>5. Launch
      BY <3>1, <3>3 DEF Launch
    <3> QED BY <3>4, <3>5 DEF Next, Command
  <2> QED BY <2>3, <2>4
<1>5. CASE ContinueRun
  <2>1. Answer("continue", <<"response">>, "running") /\ UNCHANGED <<vmUp, program>>
    BY <1>5 DEF ContinueRun, StartRun, Remember, debugVars, setup
  <2>2. CASE ~vmUp
    <3>1. UNCHANGED <<server, debugVars>>
      BY <1>5, <2>2 DEF ContinueRun, Stays
    <3> QED BY <2>1, <2>2, <3>1, StaysDriven DEF debugVars, vars, setup
  <2>3. CASE vmUp
    <3>1. server' = "run" /\ Continue
      BY <1>5, <2>3 DEF ContinueRun, StartRun, Continue
    <3>2. Driven' /\ Ask("continue")
      BY <2>1, <2>3, <3>1, RunsDriven, AskedInTime DEF Continue, Remember
    <3> QED BY <3>1, <3>2 DEF Next, Command
  <2> QED BY <2>2, <2>3
<1>6. CASE Steps
  <2>1. CASE StepBy("next", -1, Depth)
    BY <2>1, StepByDrives DEF Next, Command, StepOver
  <2>2. CASE StepBy("stepIn", 1, -1)
    BY <2>2, StepByDrives DEF Next, Command, StepInstruction
  <2>3. CASE StepBy("stepOut", -1, Depth - 1)
    BY <2>3, StepByDrives DEF Next, Command, StepOut
  <2> QED BY <1>6, <2>1, <2>2, <2>3 DEF Steps
<1>7. ASSUME NEW c \in {"pause", "variables", "terminate", "disconnect"}, NEW ms, NEW m,
             Answer(c, ms, m), UNCHANGED <<server, debugVars>>, vmUp' => vmUp
      PROVE  Driven' /\ [Next]_vars
  <2>1. Answered(4)'
    BY <1>7, AnswerKeeps DEF debugVars, setup
  <2>2. Driven'
    BY <1>7, <2>1, StaysDriven DEF debugVars, setup, Driven, Started
  <2> QED BY <1>7, <2>2 DEF debugVars, vars
<1>8. CASE PauseIdle \/ Variables
  BY <1>7, <1>8 DEF PauseIdle, Variables, Stays
<1>9. CASE Terminate \/ Disconnect
  BY <1>7, <1>9 DEF Terminate, Disconnect, Stays
<1> QED BY <1>1, <1>2, <1>3, <1>4, <1>5, <1>6, <1>8, <1>9 DEF Dispatch

\* The queues and what is known of the program stay.
LEMMA KnownStay ==
  ASSUME Driven, UNCHANGED <<inbox, pendingRequests, answered, program, vmUp>>,
         state' = "Init" => state = "Init"
  PROVE  KnownRequests' /\ Started'
  BY DEF Driven, KnownRequests, Known, Commands, Started, Answered, Builds

\* The loop of the VM inside a handler.
LEMMA VmStepDrives ==
  ASSUME Driven, VmStep
  PROVE  Driven' /\ [Next]_vars
<1>1. /\ RunLoop /\ server \in {"run", "step"}
      /\ UNCHANGED <<inbox, pendingRequests, answered, server, vmUp>>
  BY DEF VmStep, client
<1>2. UNCHANGED <<program, command>> /\ state = "Running"
  BY <1>1 DEF RunLoop, StopBudget, StopBreakpoint, FallOff, StopStep, Execute, setup, Proceeds, Running
<1>3. /\ state' \in {"Running", "Paused", "Finished", "Dead"}
      /\ state' = "Finished" => reason' = "Finished"
  <2>1. CASE StopBudget \/ StopBreakpoint \/ StopStep
    BY <2>1 DEF StopBudget, StopBreakpoint, StopStep, Stop
  <2>2. CASE FallOff
    BY <1>2, <2>2 DEF FallOff, Stop
  <2>3. CASE Execute
    BY <1>2, <2>3 DEF Execute, Effect, Plain, Jump, Call, Return, PopFrame, Stop, Enter, LeaveTry, Throw
  <2> QED BY <1>1, <2>1, <2>2, <2>3 DEF RunLoop
<1>4. KnownRequests' /\ Started'
  BY <1>1, <1>2, <1>3, KnownStay
<1>5. InStep'
  BY <1>1, <1>2, <1>3 DEF Driven, InStep
<1> QED BY <1>1, <1>4, <1>5 DEF Driven, Next

\* A handler that is over reports where the VM stands.
LEMMA BackDrives ==
  ASSUME Driven, NEW ms, NEW m, Back(ms, m), server \in {"run", "step"}, Returned,
         reason = "BudgetExhausted" /\ command = "continue" => "pause" \in Commands
  PROVE  InStep' /\ Report
<1>1. /\ server' = "drain" /\ command' = "none" /\ UNCHANGED <<state, reason>>
      /\ state \notin {"Running", "Dead"}
  BY DEF Back, Returned
<1> QED BY <1>1 DEF Driven, InStep, Back, Report

LEMMA DoneDrives ==
  ASSUME Driven, StepDone \/ RunDone
  PROVE  Driven' /\ [Next]_vars
<1>1. /\ Returned /\ server \in {"run", "step"}
      /\ UNCHANGED <<inbox, pendingRequests, answered, vmUp, program, state>>
      /\ server = "run" => reason # "BudgetExhausted"
  BY DEF StepDone, RunDone, Back, client, setup
<1>2. \E ms, m : Back(ms, m)
  BY DEF StepDone, RunDone
<1>3. server = "step" => command # "continue"
  BY DEF Driven, InStep
<1>4. InStep' /\ Report
  BY <1>1, <1>2, <1>3, BackDrives
<1>5. KnownRequests' /\ Started'
  BY <1>1, KnownStay
<1> QED BY <1>4, <1>5 DEF Driven, Next

\* The next chunk of a run, and a pause.
LEMMA BetweenDrives ==
  ASSUME IInv, Driven, Poll \/ PauseRun
  PROVE  Driven' /\ [Next]_vars
<1>1. server = "run" /\ Returned /\ reason = "BudgetExhausted" /\ command = "continue"
  BY DEF Poll, PauseRun, Between, Driven, InStep
<1>2. state = "Paused"
  BY <1>1 DEF Returned, Driven, InStep
<1>3. inbox \in Seq(Req) /\ pendingRequests \in Seq(Req)
  BY DEF IInv, Numbered
<1>4. CASE Poll
  <2>1. NextChunk
    BY <1>1, <1>2, <1>4 DEF Poll, NextChunk
  <2>2. UNCHANGED <<server, vmUp, answered, program, command>>
    BY <1>4 DEF Poll, setup
  <2>3. InStep'
    BY <1>1, <2>1, <2>2, BeginsOrEnds DEF NextChunk, InStep
  <2>4. Known' = Known
    BY <2>2 DEF Known, Commands
  <2>5. KnownRequests'
    <3>1. CASE inbox = << >>
      <4>1. UNCHANGED <<inbox, pendingRequests>>
        BY <1>4, <3>1 DEF Poll
      <4> QED BY <2>4, <4>1 DEF Driven, KnownRequests
    <3>2. CASE inbox # << >>
      <4>1. inbox' = Tail(inbox) /\ pendingRequests' = Append(pendingRequests, Head(inbox))
        BY <1>4, <3>2 DEF Poll, Keep
      <4>2. inbox[1].cmd \in Known /\ Head(inbox) = inbox[1] /\ inbox[1] \in Req
        BY <1>3, <3>2, HeadOfQueue DEF Driven, KnownRequests
      <4>3. \A i \in 1..Len(inbox') : inbox'[i].cmd \in Known
        BY <1>3, <3>2, <4>1, HeadOfQueue DEF Driven, KnownRequests
      <4>4. /\ Len(pendingRequests') = Len(pendingRequests) + 1
            /\ Len(pendingRequests) \in Nat
            /\ \A i \in 1..Len(pendingRequests) : pendingRequests'[i] = pendingRequests[i]
            /\ pendingRequests'[Len(pendingRequests) + 1] = inbox[1]
        BY <1>3, <4>1, <4>2, AppendProperties
      <4>5. \A i \in 1..Len(pendingRequests') : pendingRequests'[i].cmd \in Known
        BY <4>2, <4>4 DEF Driven, KnownRequests
      <4> QED BY <2>4, <4>3, <4>5 DEF KnownRequests
    <3> QED BY <3>1, <3>2
  <2>6. Started'
    BY <1>2, <2>1, <2>2, BeginsOrEnds DEF Driven, Started, NextChunk, Answered, Builds
  <2> QED BY <2>1, <2>3, <2>5, <2>6 DEF Driven, Next
<1>5. CASE PauseRun
  <2>1. /\ inbox # << >> /\ Head(inbox).cmd = "pause" /\ inbox' = Tail(inbox)
        /\ UNCHANGED <<pendingRequests, vmUp, program, state>>
        /\ Back(<<"response", "stopped">>, "stopped")
    BY <1>5 DEF PauseRun, Interrupts, Back, setup
  <2>2. inbox[1].cmd \in Known /\ Head(inbox) = inbox[1]
    BY <1>3, <2>1, HeadOfQueue DEF Driven, KnownRequests
  <2>3. "pause" \in Commands
    BY <2>1, <2>2, HandshakeCommands DEF Known
  <2>4. InStep' /\ Report
    BY <1>1, <2>1, <2>3, BackDrives
  <2>5. Known' = Known
    BY <2>1 DEF Known, Commands
  <2>6. KnownRequests'
    <3>1. \A i \in 1..Len(inbox') : inbox'[i].cmd \in Known
      BY <1>3, <2>1, HeadOfQueue DEF Driven, KnownRequests
    <3> QED BY <2>1, <2>5, <3>1 DEF Driven, KnownRequests
  <2>7. Answered(4)
    BY <1>1, StartedAtLast
  <2>8. Started'
    <3>1. answered' = answered \cup {Head(inbox)}
      BY <1>5 DEF PauseRun
    <3>2. Answered(4)'
      BY <2>7, <3>1 DEF Answered
    <3>3. Builds' = Builds
      BY <2>1 DEF Builds
    <3> QED BY <1>2, <2>1, <2>7, <3>2, <3>3 DEF Driven, Started
  <2> QED BY <2>4, <2>6, <2>8 DEF Driven, Next
<1> QED BY <1>4, <1>5

LEMMA ElseDrives ==
  ASSUME IInv, Driven,
         Send \/ SendPart \/ CloseInput \/ Crash \/ Drained \/ EndOfInput \/ UNCHANGED dapVars
  PROVE  Driven' /\ [Next]_vars
<1>1. UNCHANGED debugVars /\ UNCHANGED <<pendingRequests, answered, vmUp>>
  BY DEF Send, SendPart, CloseInput, Crash, Drained, EndOfInput, dapVars, client, session
<1>2. \/ UNCHANGED server
      \/ server = "drain" /\ server' = "read"
      \/ server = "read" /\ server' = "ended"
      \/ server' = "crashed"
  BY DEF Send, SendPart, CloseInput, Crash, Drained, EndOfInput, dapVars, session
<1>3. UNCHANGED vars /\ UNCHANGED <<program, state, command, reason>>
  BY <1>1 DEF debugVars, vars, setup
<1>4. InStep'
  BY <1>2, <1>3 DEF Driven, InStep
<1>5. Started'
  BY <1>1, <1>3 DEF Driven, Started, Builds, Answered
<1>6. Known' = Known
  BY <1>3 DEF Known, Commands
<1>7. KnownRequests'
  <2>1. CASE UNCHANGED inbox
    BY <1>1, <1>6, <2>1 DEF Driven, KnownRequests
  <2>2. CASE Send
    <3>1. PICK c \in IF sent < Len(Handshake) THEN {Handshake[sent + 1]} ELSE Commands :
            inbox' = Append(inbox, [seq |-> sent + 1, cmd |-> c])
      BY <2>2 DEF Send
    <3>2. Len(Handshake) = 4 /\ sent \in Nat /\ inbox \in Seq(Req) /\ program \in DOMAIN Programs
      BY DEF Handshake, IInv, Numbered, Shaken
    <3>3. c \in Known
      <4>1. sent < 4 => sent + 1 \in 1..4
        BY <3>2
      <4> QED BY <3>1, <3>2, <4>1 DEF Known
    <3>4. c \in AllCommands
      BY <3>2, <3>3 DEF Known, AllCommands, Commands
    <3> DEFINE q == [seq |-> sent + 1, cmd |-> c]
    <3>5. q \in Req
      BY <3>2, <3>4 DEF Req
    <3>6. /\ Len(inbox') = Len(inbox) + 1 /\ Len(inbox) \in Nat
          /\ \A i \in 1..Len(inbox) : inbox'[i] = inbox[i]
          /\ inbox'[Len(inbox) + 1] = q
      BY <3>1, <3>2, <3>5, AppendProperties
    <3>7. \A i \in 1..Len(inbox') : inbox'[i].cmd \in Known
      BY <3>3, <3>6 DEF Driven, KnownRequests
    <3> QED BY <1>1, <1>6, <3>7 DEF Driven, KnownRequests
  <2>3. UNCHANGED inbox \/ Send
    BY DEF SendPart, CloseInput, Crash, Drained, EndOfInput, dapVars, client
  <2> QED BY <2>1, <2>2, <2>3
<1> QED BY <1>3, <1>4, <1>5, <1>7 DEF Driven

LEMMA SessionStep ==
  ASSUME IInv, Driven, [DapNext]_dapVars
  PROVE  Driven' /\ [Next]_vars
  BY DispatchDrives, VmStepDrives, DoneDrives, BetweenDrives, ElseDrives DEF DapNext, Server

(***************************************************************************)
(* The session drives the debugger as DebugRun allows it to be driven,     *)
(* whatever the client sends and whenever: a session is, seen from the VM, *)
(* a behaviour of DebugRun.                                                *)
(***************************************************************************)
THEOREM DrivesTheDebugger == DapSpec => DebuggerInside
<1>1. DapInit => Init /\ Driven
  BY DrivenInit DEF DapInit
<1>2. DapSpec => []Driven
  <2>1. IInv /\ Driven /\ [DapNext]_dapVars => Driven'
    BY SessionStep
  <2> QED BY <1>1, <2>1, InductiveInvariant, PTL DEF DapSpec
<1>3. IInv /\ Driven /\ [DapNext]_dapVars => [Next]_vars
  BY SessionStep
<1> QED BY <1>1, <1>2, <1>3, InductiveInvariant, PTL DEF DapSpec, Spec, DebuggerInside

\* In a session each step stops where the client asked and no breakpoint is
\* passed in silence in the first chunk of a run, however the requests arrive
\* (handleNext, handleStepOut, runWithBudget).
THEOREM SessionStopsRight ==
  DapSpec => /\ []StepEndsWhereAsked
             /\ BreakpointHoldsInChunk
             /\ NextStopsAtNextLine
             /\ StepOutStopsInCaller
  BY DrivesTheDebugger, StepsStopRight, BreakpointsHold, NextHolds, StepOutHolds DEF DebuggerInside

-----------------------------------------------------------------------------
(* The queues.                                                              *)

\* Every request is in the pipe, kept back or answered, whatever the program
\* does and however many there are (runWithBudget, pendingRequests_).
THEOREM RequestsSurvive == DapSpec => []NoRequestLost
  BY IInvNoRequestLost, InductiveInvariant, PTL

\* Only a pause overtakes other requests (drainPendingRequests).
THEOREM RequestsInOrder == DapSpec => []AnsweredInOrder
  BY IInvAnsweredInOrder, InductiveInvariant, PTL

\* A client that was told that the program runs is told of the end of the run
\* before the server waits again, and one told of a stop faces no running one.
THEOREM ClientIsTold == DapSpec => []ClientKnows
<1>1. IInv => ClientKnows
  BY DEF IInv
<1>2. QED
  BY <1>1, InductiveInvariant, PTL

\* No handle on an object outlives the stop it was given at (invalidateVarRefs).
THEOREM HandlesDie == DapSpec => []HandlesAreFresh
  BY IInvHandlesAreFresh, InductiveInvariant, PTL
=============================================================================
