---------------------------- MODULE MCDapSession ----------------------------
(* Programs for DapSession.                                                 *)
EXTENDS DapSession, TLC

I(o, n, t) == [op |-> o, line |-> n, to |-> t]

Limits == [chunk |-> 2, entry |-> TRUE, depth |-> 2, builds |-> TRUE]

\* 1: f();  2: return 0;        10: int f() { return 1; }
Short == [Limits EXCEPT !.entry = FALSE] @@
  [code |-> [main |-> <<I("call", 1, "f"), I("plain", 2, 0), I("return", 2, 0)>>,
             f    |-> <<I("return", 10, 0)>>],
   file |-> [main |-> "a", f |-> "a"],
   lines |-> {<<"a", 10>>},
   commands |-> {"continue", "next", "stepIn", "pause", "variables", "setBreakpoints",
                 "terminate"}]

\* The same, but f may throw: 10: int f() { if (c) throw 1; return 1; }
Failing == [Short EXCEPT
  !.code.f = <<I("branch", 10, 3), I("throw", 10, 0), I("return", 10, 0)>>,
  !.entry = TRUE, !.commands = {"continue", "next", "stepOut", "pause", "disconnect"}]

\* 1: while (true) {  2: g = 1; }
Endless == Limits @@
  [code |-> [main |-> <<I("branch", 1, 4), I("plain", 2, 0), I("jump", 0, 1),
                        I("return", 3, 0)>>],
   file |-> [main |-> "a"],
   lines |-> {},
   commands |-> {"continue", "variables", "pause", "setBreakpoints"}]

\* 1: f(g);                      10: int f(int x) { while (true) x = 1; }
Hanging == Limits @@
  [code |-> [main |-> <<I("plain", 1, 0), I("call", 1, "f"), I("return", 2, 0)>>,
             f    |-> <<I("plain", 10, 0), I("jump", 0, 1)>>],
   file |-> [main |-> "a", f |-> "a"],
   lines |-> {},
   commands |-> {"next", "pause"}]

Session  == [short |-> Short, failing |-> Failing, endless |-> Endless, hanging |-> Hanging]
=============================================================================
