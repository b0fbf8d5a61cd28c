----------------------------- MODULE ControlVm -----------------------------
(***************************************************************************)
(* The bytecode VM running lowered control flow: the instructions of       *)
(* NearestCatch, and the try stack by which an error finds its catch       *)
(* (Interpreter::runUntilEvent, src/src/vm/interpreter.cpp).               *)
(***************************************************************************)
EXTENDS NearestCatch

VARIABLE tryStack   \* tryStack_; an entry is [depth, target, slot]

vars == <<pid, callStack, tryStack, answers, trace, status, value>>

VmInit == Init /\ tryStack = << >>

EnterTry ==
  /\ \E i \in Current({"ENTER_TRY"}) :
       tryStack' = Append(tryStack, [depth |-> Len(callStack), target |-> i.target,
                                     slot |-> i.dest])
  /\ Pass

\* A wrong variant: LEAVE_TRY leaves the entry on the try stack.
LeaveTryKeeps == Current({"LEAVE_TRY"}) # {} /\ Pass /\ UNCHANGED tryStack

LeaveTry ==
  /\ Current({"LEAVE_TRY"}) # {}
  /\ tryStack' = IF tryStack = << >> THEN tryStack ELSE Pop(tryStack)
  /\ Pass

\* An error goes to the last entry of the try stack: frames above its depth are
\* popped and the frame then on top receives the error and the jump.  When
\* that frame has no such slot, the store is out of bounds: it may crash the
\* process or touch nothing the program sees.
Unwind(err) ==
  LET entry == tryStack[Len(tryStack)]
      depth == IF entry.depth < Len(callStack) THEN entry.depth ELSE Len(callStack)
      slots == callStack[depth].slots
      inBounds == entry.slot \in DOMAIN slots
  IN  /\ tryStack' = Pop(tryStack)
      /\ callStack' = [SubSeq(callStack, 1, depth) EXCEPT
           ![depth].ip = entry.target,
           ![depth].slots = IF inBounds THEN [slots EXCEPT ![entry.slot] = err] ELSE slots]
      /\ status' \in {"running"} \cup (IF inBounds THEN {} ELSE {"crashed"})
      /\ UNCHANGED value

Raise(err) ==
  /\ \/ tryStack # << >> /\ Unwind(err)
     \/ /\ tryStack = << >>
        /\ status' = "uncaught" /\ value' = err
        /\ UNCHANGED <<callStack, tryStack>>
  /\ quiet

Throws == \E err \in Errors : Raise(err)

Next == (Ordinary /\ UNCHANGED tryStack) \/ EnterTry \/ LeaveTry \/ Throws

Spec == VmInit /\ [][Next]_vars

-----------------------------------------------------------------------------

\* The entries a frame at depth d should have on the try stack.
EntriesAt(d) ==
  LET code == Code[pid][callStack[d].fn].code
  IN  {[depth |-> d, target |-> code[i].target, slot |-> code[i].dest] :
         i \in OpenTries(code, callStack[d].ip)}

\* The body of a try statement ends with its LEAVE_TRY, a jump over the handler
\* follows; bodies are nested or apart.
Tries(code) == {i \in 1..Len(code) : code[i].op = "ENTER_TRY"}
WellNested(code) ==
  LET end(i) == code[i].target - 2
  IN  /\ \A i \in Tries(code) :
           /\ i < end(i) /\ code[end(i)].op = "LEAVE_TRY" /\ code[end(i) + 1].op = "JMP"
           /\ \A j \in Tries(code) \cap (i + 1..end(i)) : code[j].target \in i + 1..end(i)
      /\ \A k \in 1..Len(code) : code[k].op = "LEAVE_TRY" => \E i \in Tries(code) : k = end(i)

\* No jump and no RETURN crosses the border of a body either.  Code that leaves
\* one with return, break or continue is not of this kind.
Contained(code) ==
  /\ WellNested(code)
  /\ \A i \in Tries(code) : \A k \in 1..Len(code) :
       LET body == i + 1..code[i].target - 2
       IN  /\ code[k].op \in Jumps => (k \in body <=> code[k].target \in body)
           /\ code[k].op = "RETURN" => k \notin body
ContainedOf(programs) ==
  {p \in 1..Len(programs) : \A fn \in Function : Contained(programs[p][fn].code)}
ContainedPrograms == ContainedOf(Code)

\* The try stack is what the code says: for every frame, from the outermost
\* inwards, the try statements whose body that frame is executing, and nothing
\* else (TryFrame, ENTER_TRY and LEAVE_TRY in the VM; knowledge-base/05,
\* "Throw and Catch").
TryStackIsLexical ==
  status = "running" =>
    LET expected == UNION {EntriesAt(d) : d \in 1..Len(callStack)}
    IN  /\ {tryStack[k] : k \in 1..Len(tryStack)} = expected
        /\ Len(tryStack) = Cardinality(expected)
        /\ \A j, k \in 1..Len(tryStack) : j < k =>
             \/ tryStack[j].depth < tryStack[k].depth
             \/ /\ tryStack[j].depth = tryStack[k].depth
                /\ tryStack[j].target > tryStack[k].target
=============================================================================
