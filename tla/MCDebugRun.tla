----------------------------- MODULE MCDebugRun -----------------------------
(***************************************************************************)
(* Programs for DebugRun, in the shape the generator gives them.           *)
(***************************************************************************)
EXTENDS DebugRun, TLC

I(o, n, t) == [op |-> o, line |-> n, to |-> t]
P(n)       == I("plain", n, 0)

Limits == [chunk |-> 100, entry |-> TRUE, depth |-> 3]

\* 1: int x = 0;            10: int f() {
\* 2: while (a && b) {      11:   return 1; }
\* 3:   f(); }
\* 5: g();
\* 6: return 0;             g is in another file, 3: g() { f(); }
Loop == Limits @@
  [code |-> [main |-> <<P(1), P(1), P(2), I("branch", 0, 6), P(2), I("branch", 0, 9),
                        I("call", 3, "f"), I("jump", 0, 3), I("call", 5, "g"), P(6),
                        I("return", 6, 0)>>,
             f    |-> <<P(11), I("return", 11, 0)>>,
             g    |-> <<I("call", 3, "f"), P(3)>>],
   file |-> [main |-> "a", f |-> "a", g |-> "b"],
   lines |-> {<<"a", 2>>, <<"a", 3>>, <<"a", 11>>, <<"b", 3>>},
   commands |-> {"continue", "pause", "stepIn", "stepOut"}]

\* The same with if for while: it ends before a chunk is used up.
Short == [Loop EXCEPT !.code.main[8] = I("jump", 0, 9), !.lines = @ \cup {<<"a", 1>>},
                      !.commands = {"continue", "next", "stepIn", "stepOut"}]

\* 2: try {  3: f();  4: } catch { 5: }   6: f();
\* 10: f() { if (c)  11: throw 1; }
Thrower == Limits @@
  [code |-> [main |-> <<I("enter", 2, 5), I("call", 3, "f"), I("leave", 4, 0), I("jump", 0, 6),
                        P(5), I("call", 6, "f"), I("return", 6, 0)>>,
             f    |-> <<P(10), I("branch", 0, 4), I("throw", 11, 0), I("return", 12, 0)>>],
   file |-> [main |-> "a", f |-> "a"],
   lines |-> {<<"a", 3>>, <<"a", 5>>, <<"a", 11>>},
   commands |-> {"continue", "next", "stepIn", "stepOut"}]

\* 2: f();  3: return 0;    10: int f() { if (c)  11: x = f();  12: }
Recursive == Limits @@
  [code |-> [main |-> <<I("call", 2, "f"), P(3), I("return", 3, 0)>>,
             f    |-> <<P(10), I("branch", 0, 5), I("call", 11, "f"), P(11),
                        I("return", 12, 0)>>],
   file |-> [main |-> "a", f |-> "a"],
   lines |-> {<<"a", 11>>},
   commands |-> {"continue", "next", "stepOut"}]

\* Each on its own, one without the entry stop, and the loop with chunks so
\* small that a continue needs many.
All == [short |-> Short, thrower |-> Thrower, recursive |-> Recursive,
        direct |-> [Short EXCEPT !.entry = FALSE],
        chunks |-> [Loop EXCEPT !.chunk = 3]]

=============================================================================
