---------------------------- MODULE MCControlVm ----------------------------
(***************************************************************************)
(* The programs the two backends run: statements with a hole, put into each      *)
(* other two deep, with a leaf that may leave them in every way, and a     *)
(* callee built the same way.  Every statement prints its own number.      *)
(***************************************************************************)
EXTENDS JitControl, Meaning

P(t)  == Expr(Show(Literal(t)))
Test  == Ask({0, 1})
Names == {"e1", "e2", "e3"}
E(n)  == CASE n = 1 -> "e1" [] n = 2 -> "e2" [] n = 3 -> "e3"

\* The context k at level n around h.
In(k, n, h) ==
  LET p(i) == P(10 * n + i)
      shown == Expr(Show(CatchVar(E(n))))
      body == Block(<<p(0), h, p(1)>>)
  IN  CASE k = "then"    -> If(Test, body, Absent)
        [] k = "else"    -> If(Test, p(2), h)
        [] k = "and"     -> If(And(Test, Test), h, Absent)
        [] k = "or"      -> If(Or(Test, Test), body, p(2))
        [] k = "while"   -> While(Test, body)
        [] k = "for"     -> For(p(3), Test, Show(Literal(10 * n + 4)), body)
        [] k = "forever" -> For(Absent, Absent, Absent,
                                Block(<<If(Test, Break, Absent), h, p(1)>>))
        [] k = "do"      -> DoWhile(body, Test)
        [] k = "case"    -> Switch(Ask(1..4), <<Case(<<1, 2>>, <<p(0), h, p(1)>>),
                                                Case(<<3>>, <<p(2)>>), Default(<<p(3)>>)>>)
        [] k = "default" -> Switch(Ask(1..2), <<Case(<<1>>, <<p(2), Break, p(3)>>),
                                                Default(<<h, p(1)>>)>>)
        [] k = "try"     -> Try(body, E(n), Block(<<shown, p(2)>>))
        [] k = "catch"   -> Try(Block(<<p(0), Throw(Literal(10 * n + 5)), p(1)>>), E(n),
                                Block(<<shown, h>>))

Loops    == {"while", "for", "forever", "do"}
Switches == {"case", "default"}
Plain    == {"then", "else", "and", "or"}
Contexts == Loops \cup Switches \cup Plain \cup {"try", "catch"}

Leaf(l) == CASE l = "mark"     -> P(1)
             [] l = "throw"    -> Throw(Literal(2))
             [] l = "return"   -> Return(Absent)
             [] l = "break"    -> Break
             [] l = "continue" -> Continue
             [] l = "call"     -> Expr(CallF)
             [] l = "divide"   -> Expr(Keep(Divide(Test)))
             [] l = "element"  -> Expr(Keep(Element(Test)))
             [] l = "sum"      -> Expr(Keep(DecimalSum(Test)))

\* Programs StructuralValidator accepts: break in a loop or switch, continue
\* in a loop.
Legal(k1, k2, l) ==
  /\ l = "break" => {k1, k2} \cap (Loops \cup Switches) # {}
  /\ l = "continue" => {k1, k2} \cap Loops # {}

\* The leaf leaves the body of a try statement other than by a throw.
Escapes(k1, k2, l) ==
  \/ l = "return" /\ "try" \in {k1, k2}
  \/ l \in {"break", "continue"} /\ k2 = "try"

\* A last throw finds what the statements before it left on the try stack.
Main(k1, k2, l) ==
  Block(<<In(k1, 1, In(k2, 2, Leaf(l))), P(3), If(Test, Throw(Literal(5)), Absent)>>)
\* A callee with a return in an else branch ends there: no RETURN follows.
Callee(k, l)    == IF k = "else" THEN Block(<<In(k, 3, Leaf(l))>>)
                                 ELSE Block(<<In(k, 3, Leaf(l)), P(4)>>)
Idle            == Block(<< >>)

\* All tuples of one member of each of the sequences s, r and q.
Triples(s, r, q) ==
  [i \in 1..Len(s) * Len(r) * Len(q) |->
     LET j == (i - 1) \div Len(q)
     IN  <<s[1 + (j \div Len(r))], r[1 + (j % Len(r))], q[1 + ((i - 1) % Len(q))]>>] \o << >>

\* A default clause comes last: the generator never compares those after it.
Around == <<"then", "else", "and", "or", "while", "for", "forever", "do",
            "case", "default", "try", "catch">>
Leaving ==
  LET legal(c) == Legal(c[1], c[2], c[3])
  IN  SelectSeq(Triples(Around, Around, <<"mark", "throw", "return", "break", "continue", "divide">>), legal)
Calling ==
  LET returns == <<"mark", "throw", "return", "sum", "element">>
      callers == Triples(Around, Around, <<"call">>)
  IN  Triples(callers, <<"else", "while", "case", "try", "catch">>, returns)

OneFunction(s)  ==
  [i \in 1..Len(s) |-> [main |-> Main(s[i][1], s[i][2], s[i][3]), f |-> Idle]]
TwoFunctions(s) ==
  [i \in 1..Len(s) |-> [main |-> Main(s[i][1][1], s[i][1][2], s[i][1][3]),
                        f |-> Callee(s[i][2], s[i][3])]]
All == OneFunction(Leaving) \o TwoFunctions(Calling)

\* The programs in which a jump or a return leaves the body of a try statement.
EscapingOnes ==
  LET alone == Leaving
      pairs == Calling
      n     == Len(alone)
  IN  {i \in 1..n + Len(pairs) :
         IF i <= n THEN Escapes(alone[i][1], alone[i][2], alone[i][3])
                   ELSE pairs[i - n][2] = "try" /\ pairs[i - n][3] = "return"}

\* The programs in which the callee has an element in the body of its try.
ElementOnes ==
  LET pairs == Calling
      n     == Len(Leaving)
  IN  {i \in n + 1..n + Len(pairs) : pairs[i - n][2] = "try" /\ pairs[i - n][3] = "element"}

ContainedOnes == 1..Len(All) \ EscapingOnes
CaughtOnes    == 1..Len(All) \ ElementOnes

Bytecode == CompiledAll(All)
AllCode  == Bytecode

\* What leaves a try statement in the source leaves it in the bytecode, and
\* nothing else does.
ASSUME ContainedAssumption == ContainedPrograms = ContainedOnes

\* Compiled code finds the catch of every error in the programs given to it.
ASSUME FaithfulAssumption == JitFaithfulOf(Code) = CaughtOnes

-----------------------------------------------------------------------------

\* The lowered program does what the source says: whenever it waits for an
\* answer or has stopped, it has printed what the structured program prints
\* for the same answers, and it stopped in the same way (ADR-025: an error
\* goes to the nearest enclosing catch; ADR-027: a case runs alone, default
\* takes what no case matches; ADR-008: && and || skip their right operand).
FollowsSource ==
  LET m     == MeaningOf(Code[pid].source, answers)
      waits == Current({"ASK"}) # {}
  IN  waits \/ status # "running" =>
        /\ trace = m.trace
        /\ waits <=> m.out = "cut"
        /\ status = "finished" <=> m.out \in {"next", "return"}
        /\ status = "uncaught" <=> m.out = "throw"
        /\ status = "uncaught" => value = m.err
=============================================================================
