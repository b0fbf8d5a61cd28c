------------------------------- MODULE Scopes -------------------------------
(***************************************************************************)
(* Two walks over the same function bodies give names a meaning: the       *)
(* symbol collector's chain of scopes (SymbolTable, Scope, walkStmt in     *)
(* src/src/symbol/) and the generator's flat map nameToSlot_ with its      *)
(* shadowStack_ (registerVariable, pushScope, popScope, lookupVariable in  *)
(* src/src/ir/ir_generator.cpp).  The collector decides which programs are *)
(* accepted; the generator decides where a name is read and written.       *)
(*                                                                         *)
(* A behaviour is a sequence of functions, walked statement by statement.  *)
(* A symbol of the collector is written as the place its declaration has   *)
(* in the generated code: a slot, or the name itself for a global.         *)
(***************************************************************************)
EXTENDS Integers, Sequences

CONSTANTS
  LocalName,    \* names declared by parameters and local variables
  ForName,      \* names declared in the head of a for
  CatchName,    \* names of catch variables
  GlobalName,   \* names a module may declare outside functions
  None,         \* no symbol, no slot
  MaxOpen,      \* bound on nested statements
  MaxSlots      \* bound on the slots of a function

ASSUME ScopesAssumption ==
  /\ None \notin LocalName \cup ForName \cup CatchName \cup GlobalName
  /\ None \notin Nat
  /\ MaxOpen \in Nat /\ MaxSlots \in Nat

Name == LocalName \cup ForName \cup CatchName \cup GlobalName

VARIABLES
  globals,      \* the names of nameToGlobal_
  scopes,       \* from the global scope to SymbolTable::current_
  open,         \* the blocks being walked, each [kind, name, slot]: a "block",
                \* the body of a "for" or a "try", the "handler" of a catch
  nameToSlot,   \* nameToSlot_
  shadowStack,  \* shadowStack_
  nextSlot,     \* nextSlot_
  entry,        \* history: nameToSlot_ when each open block was entered
  reused        \* history: names of this function that a for or a catch declared
                \* over a visible one, and those it shares with a global

vars == <<globals, scopes, open, nameToSlot, shadowStack, nextSlot, entry, reused>>

Last(s)  == s[Len(s)]
Front(s) == SubSeq(s, 1, Len(s) - 1)

-----------------------------------------------------------------------------
(* The collector: SymbolTable.                                              *)

EmptyScope == [n \in Name |-> None]

\* Scope::resolve from the current scope: the innermost scope that has n.
Resolve(n) ==
  LET having == {i \in 1..Len(scopes) : scopes[i][n] # None}
  IN  IF having = {} THEN None
      ELSE scopes[CHOOSE i \in having : \A j \in having : j <= i][n]

EnterScope   == Append(scopes, EmptyScope)
ExitScope    == Front(scopes)
Undefined(n) == Last(scopes)[n] = None
Define(n, place) == [scopes EXCEPT ![Len(scopes)][n] = place]

-----------------------------------------------------------------------------
(* The generator.                                                           *)

\* A wrong variant: nothing is recorded, and a block's names outlive it.
RegisterUnrecorded(n, slot) ==
  nameToSlot' = [nameToSlot EXCEPT ![n] = slot] /\ UNCHANGED shadowStack

\* registerVariable: the former slot is recorded in the innermost block.
Register(n, slot) ==
  /\ nameToSlot' = [nameToSlot EXCEPT ![n] = slot]
  /\ shadowStack' = IF shadowStack = << >> THEN shadowStack
                    ELSE [shadowStack EXCEPT ![Len(shadowStack)] =
                            Append(@, [name |-> n, old |-> nameToSlot[n]])]

\* A wrong variant: the last entry of a name wins.
UndoForward(map, record) ==
  [n \in Name |->
     LET entries == {i \in 1..Len(record) : record[i].name = n}
     IN  IF entries = {} THEN map[n]
         ELSE record[CHOOSE i \in entries : \A j \in entries : j <= i].old]

\* popScope undoes the record from its end: the first entry of a name wins.
Undo(map, record) ==
  [n \in Name |->
     LET entries == {i \in 1..Len(record) : record[i].name = n}
     IN  IF entries = {} THEN map[n]
         ELSE record[CHOOSE i \in entries : \A j \in entries : i <= j].old]

\* Where generateExpression reads or writes the name n.
Place(n) == IF n \in globals THEN n ELSE nameToSlot[n]

-----------------------------------------------------------------------------

\* A for or a catch declares n.
Reuse(n) == reused' = IF Resolve(n) = None THEN reused ELSE reused \cup {n}

\* Parameter lists: parameter k gets slot k - 1, and nothing is recorded.
ParamLists ==
  {ps \in UNION {[1..k -> LocalName] : k \in 0..MaxSlots} :
     \A i, j \in 1..Len(ps) : ps[i] = ps[j] => i = j}

ParamSlots(ps) ==
  [n \in Name |-> IF \E i \in 1..Len(ps) : ps[i] = n
                  THEN (CHOOSE i \in 1..Len(ps) : ps[i] = n) - 1
                  ELSE None]

\* pass2Bodies and generateFunction enter a function: nameToSlot_,
\* shadowStack_ and nextSlot_ start again, the parameters are declared and the
\* body's block is opened.
EnterFunction(gs) ==
  \E ps \in ParamLists :
    /\ reused' = gs \cap {ps[i] : i \in 1..Len(ps)}
    /\ scopes' = <<[n \in Name |-> IF n \in gs THEN n ELSE None], ParamSlots(ps), EmptyScope>>
    /\ nameToSlot' = ParamSlots(ps)
    /\ shadowStack' = <<<< >>>>
    /\ entry' = <<ParamSlots(ps)>>
    /\ nextSlot' = Len(ps)
    /\ open' = <<[kind |-> "block", name |-> None, slot |-> None]>>

Init ==
  /\ globals \in SUBSET GlobalName
  /\ scopes = <<[n \in Name |-> IF n \in globals THEN n ELSE None]>>
  /\ nameToSlot = EmptyScope
  /\ shadowStack = << >> /\ entry = << >> /\ open = << >>
  /\ nextSlot = 0 /\ reused = {}

NextFunction ==
  /\ open = << >>
  /\ EnterFunction(globals)
  /\ UNCHANGED globals

Inside    == open # << >>
SlotsLeft == nextSlot < MaxSlots
RoomLeft  == Len(open) < MaxOpen

\* int n = e;  The collector rejects a second n in the same scope (E002).
Declare(n) ==
  /\ Inside /\ SlotsLeft
  /\ Undefined(n)
  /\ scopes' = Define(n, nextSlot)
  /\ Register(n, nextSlot)
  /\ nextSlot' = nextSlot + 1
  /\ reused' = reused \cup ({n} \cap globals)
  /\ UNCHANGED <<globals, open, entry>>

OpenBlock ==
  /\ Inside /\ RoomLeft
  /\ scopes' = EnterScope
  /\ shadowStack' = Append(shadowStack, << >>)
  /\ entry' = Append(entry, nameToSlot)
  /\ open' = Append(open, [kind |-> "block", name |-> None, slot |-> None])
  /\ UNCHANGED <<globals, nameToSlot, nextSlot, reused>>

\* The generator's half of opening a statement that declares n outside its
\* block: registerVariable in the enclosing block, then pushScope.
RegisterThenPush(n, kind) ==
  /\ nameToSlot' = [nameToSlot EXCEPT ![n] = nextSlot]
  /\ shadowStack' = Append([shadowStack EXCEPT ![Len(shadowStack)] =
                               Append(@, [name |-> n, old |-> nameToSlot[n]])], << >>)
  /\ entry' = Append(entry, [nameToSlot EXCEPT ![n] = nextSlot])
  /\ open' = Append(open, [kind |-> kind, name |-> n, slot |-> nextSlot])
  /\ nextSlot' = nextSlot + 1
  /\ UNCHANGED globals

\* for (int n = e; ...) {  The collector has a scope for the head, the
\* generator has none.
OpenFor(n) ==
  /\ Inside /\ RoomLeft /\ SlotsLeft
  /\ Reuse(n)
  /\ scopes' = Append(Append(scopes, [EmptyScope EXCEPT ![n] = nextSlot]), EmptyScope)
  /\ RegisterThenPush(n, "for")

\* try {  The generator registers the catch variable before the body; for the
\* collector it does not exist yet.
OpenTry(n) ==
  /\ Inside /\ RoomLeft /\ SlotsLeft
  /\ Reuse(n)
  /\ scopes' = EnterScope
  /\ RegisterThenPush(n, "try")

\* } catch (Error n) {
Catch ==
  /\ Inside /\ Last(open).kind = "try"
  /\ scopes' = Append(Append(ExitScope, [EmptyScope EXCEPT ![Last(open).name] = Last(open).slot]),
                      EmptyScope)
  /\ nameToSlot' = Undo(nameToSlot, Last(shadowStack))
  /\ shadowStack' = [shadowStack EXCEPT ![Len(shadowStack)] = << >>]
  /\ entry' = [entry EXCEPT ![Len(entry)] = nameToSlot']
  /\ open' = [open EXCEPT ![Len(open)].kind = "handler"]
  /\ UNCHANGED <<globals, nextSlot, reused>>

\* }  A function, the head of a for and a catch clause have a scope around
\* their block.
Close ==
  /\ Inside /\ Last(open).kind # "try"
  /\ scopes' = IF Last(open).kind = "block" /\ Len(open) > 1 THEN ExitScope ELSE Front(ExitScope)
  /\ nameToSlot' = Undo(nameToSlot, Last(shadowStack))
  /\ shadowStack' = Front(shadowStack)
  /\ entry' = Front(entry)
  /\ open' = Front(open)
  /\ UNCHANGED <<globals, nextSlot, reused>>

Next ==
  \/ NextFunction
  \/ \E n \in LocalName : Declare(n)
  \/ \E n \in ForName : OpenFor(n)
  \/ \E n \in CatchName : OpenTry(n)
  \/ OpenBlock \/ Catch \/ Close

Spec == Init /\ [][Next]_vars

-----------------------------------------------------------------------------

\* A name is compiled to the place of the declaration the collector resolved it
\* to: what an identifier means to the checks (E001, E002, its type) is what it
\* means at run time, in blocks that shadow each other in any way.  Left out are
\* the names a for, a catch or a global shares with another declaration that is
\* visible there: for those the two disagree.
NamesAgreeUnlessReused ==
  Inside => \A n \in Name \ reused : Resolve(n) # None => Place(n) = Resolve(n)

\* Leaving a block, nameToSlot_ is again what it was when the block was
\* entered, whatever was declared in it and in the statements it contained
\* (popScope: "the oldest previous state of a name counts").
BlockLeavesNoTrace == [][Close => nameToSlot' = Last(entry)]_vars
=============================================================================
