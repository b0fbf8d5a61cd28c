----------------------------- MODULE DapSession -----------------------------
(***************************************************************************)
(* The debug adapter: DapServer::run, DapHandler::dispatch and its         *)
(* handlers (src/src/dap/), driving the VM of DebugRun in the same thread, *)
(* and a client that sends requests whenever it likes.                     *)
(*                                                                         *)
(* A request is [seq, cmd]; "variables" stands for the requests that only  *)
(* look (threads, stackTrace, scopes, evaluate too).  The whole frames in  *)
(* the pipe and in the buffer of FrameReader are inbox, and partial says   *)
(* that the beginning of one more is behind them.                          *)
(***************************************************************************)
EXTENDS DebugRun

CONSTANT MaxRequests   \* bound on the requests of a session

\* A program of a session has one more field, whether it compiles.  Its commands
\* are those the client may send after configurationDone.
ASSUME DapSessionAssumption ==
  /\ MaxRequests \in Nat
  /\ \A p \in DOMAIN Programs :
       Programs[p].builds \in BOOLEAN /\ "configurationDone" \notin Programs[p].commands

Builds == Programs[program].builds

VARIABLES
  inbox,            \* requests sent and not read
  partial,          \* a part of the next frame was sent
  closed,           \* the client closed its end
  pendingRequests,  \* pendingRequests_
  server,           \* "read": DapServer::run waits for a message
                    \* "drain": in drainPendingRequests
                    \* "run": in runWithBudget     "step": in stepInstruction,
                    \* stepOver or stepOut         "ended", "crashed"
  vmUp,             \* vm_ is not null
  varRefs,          \* "none": varRefs_ is empty; "fresh": it has objects of
                    \* this stop; "stale": of a former stop
  sent,             \* history: requests sent so far
  answered,         \* history: the requests that were answered
  written,          \* history: the messages the last step wrote, in order
  view              \* what the client thinks: "starting", "running",
                    \* "stopped" or "over"

client    == <<inbox, partial, closed, sent>>
session   == <<pendingRequests, server, vmUp, varRefs, answered, written, view>>
debugVars == <<setup, vm, state, command, reason, control, history>>
dapVars   == <<client, session, debugVars>>

Handshake == <<"initialize", "launch", "setBreakpoints", "configurationDone">>

-----------------------------------------------------------------------------
(* The client (external).                                                   *)

Send ==
  /\ ~closed /\ sent < MaxRequests
  /\ \E c \in IF sent < Len(Handshake) THEN {Handshake[sent + 1]} ELSE Commands :
       inbox' = Append(inbox, [seq |-> sent + 1, cmd |-> c])
  /\ sent' = sent + 1 /\ partial' = FALSE
  /\ UNCHANGED <<closed, session, debugVars>>

\* The pipe delivers the beginning of a frame.
SendPart ==
  /\ ~closed /\ ~partial /\ sent < MaxRequests
  /\ partial' = TRUE
  /\ UNCHANGED <<inbox, closed, sent, session, debugVars>>

\* The client goes away, perhaps in the middle of a frame.
CloseInput ==
  /\ ~closed /\ closed' = TRUE
  /\ UNCHANGED <<inbox, partial, sent, session, debugVars>>

\* What the client makes of a message; a session that is over stays over.
Sees(m) ==
  IF view = "over" \/ m \in {"exited", "terminated", "disconnected"} THEN "over"
  ELSE CASE m = "running" -> "running"
         [] m = "stopped" -> "stopped"
         [] OTHER         -> view

-----------------------------------------------------------------------------
(* The server takes a request from where it is in the code: the main loop   *)
(* reads one, drainPendingRequests takes the oldest one it kept.            *)

Request ==
  CASE server = "read" /\ inbox # << >>            -> Head(inbox)
    [] server = "drain" /\ pendingRequests # << >> -> Head(pendingRequests)
    [] OTHER                                       -> [seq |-> 0, cmd |-> "none"]

Taken ==
  IF server = "read" THEN inbox' = Tail(inbox) /\ UNCHANGED <<partial, closed, sent, pendingRequests>>
                     ELSE pendingRequests' = Tail(pendingRequests) /\ UNCHANGED client

\* The request c is taken and answered; ms are the messages written, of which
\* the last that means something to the client decides its view.
Answer(c, ms, m) ==
  /\ Request.cmd = c
  /\ Taken
  /\ answered' = answered \cup {Request}
  /\ written' = ms
  /\ view' = Sees(m)

Stays == UNCHANGED server

Initialize ==
  /\ Answer("initialize", <<"response", "initialized">>, "none")
  /\ Stays /\ UNCHANGED <<vmUp, varRefs, debugVars>>

\* handleLaunch: a program that does not compile ends the session.
Launched ==
  /\ IF Builds THEN Answer("launch", <<"response">>, "none")
               ELSE Answer("launch", <<"output", "terminated", "response">>, "terminated")
  /\ vmUp' = Builds
  /\ Stays /\ UNCHANGED <<varRefs, debugVars>>

SetBreakpointsOf ==
  /\ Answer("setBreakpoints", <<"response">>, "none")
  /\ IF vmUp THEN breakpoints' \in SUBSET BreakLines ELSE UNCHANGED breakpoints
  /\ Stays /\ UNCHANGED <<vmUp, varRefs, program, vm, state, command, reason, control, history>>

\* A wrong variant: the handles survive.
InvalidateNot == varRefs

Invalidate == "none"

\* runWithBudget begins.
StartRun(c) == server' = "run" /\ varRefs' = Invalidate /\ Remember(c) /\ Begin(Chunk, -1)

ConfigurationDone ==
  /\ Answer("configurationDone", <<"response">>, IF vmUp THEN "running" ELSE "none")
  /\ IF ~vmUp THEN Stays /\ UNCHANGED <<varRefs, debugVars>>
     ELSE IF StopOnEntry
     THEN server' = "step" /\ StepEntry /\ UNCHANGED varRefs
     ELSE StartRun("continue")
  /\ UNCHANGED vmUp

ContinueRun ==
  /\ Answer("continue", <<"response">>, "running")
  /\ IF vmUp THEN StartRun("continue") ELSE Stays /\ UNCHANGED <<varRefs, debugVars>>
  /\ UNCHANGED vmUp

\* handleNext, handleStepIn, handleStepOut: the handles die, the VM steps.
StepBy(c, budget, depth) ==
  /\ Answer(c, <<"response">>, "running")
  /\ IF vmUp
     THEN server' = "step" /\ varRefs' = Invalidate /\ Remember(c) /\ Begin(budget, depth)
     ELSE Stays /\ UNCHANGED <<varRefs, debugVars>>
  /\ UNCHANGED vmUp

\* A wrong variant: stepOut is given the depth of a next.
StepsAlike ==
  \/ StepBy("next", -1, Depth)
  \/ StepBy("stepIn", 1, -1)
  \/ StepBy("stepOut", -1, Depth)

Steps ==
  \/ StepBy("next", -1, Depth)
  \/ StepBy("stepIn", 1, -1)
  \/ StepBy("stepOut", -1, Depth - 1)

\* handlePause: the VM stands already.
PauseIdle ==
  /\ Answer("pause", <<"response">>, "none")
  /\ Stays /\ UNCHANGED <<vmUp, varRefs, debugVars>>

\* handleVariables and handleEvaluate hand out handles on objects.  At the
\* entry every slot is an integer still.
Variables ==
  /\ Answer("variables", <<"response">>, "none")
  /\ varRefs' = IF vmUp /\ state = "Paused" THEN "fresh" ELSE varRefs
  /\ Stays /\ UNCHANGED <<vmUp, debugVars>>

TerminateMessages == <<"response", "terminated">>

Terminate ==
  /\ Answer("terminate", TerminateMessages, "terminated")
  /\ vmUp' = FALSE /\ varRefs' = Invalidate
  /\ Stays /\ UNCHANGED debugVars

Disconnect ==
  /\ Answer("disconnect", <<"response">>, "disconnected")
  /\ vmUp' = FALSE /\ varRefs' = Invalidate
  /\ Stays /\ UNCHANGED debugVars

Dispatch ==
  \/ Initialize \/ Launched \/ SetBreakpointsOf \/ ConfigurationDone
  \/ ContinueRun \/ Steps \/ PauseIdle \/ Variables \/ Terminate \/ Disconnect

-----------------------------------------------------------------------------
(* The VM runs inside a handler.                                            *)

VmStep ==
  /\ server \in {"run", "step"}
  /\ RunLoop
  /\ varRefs' = IF varRefs # "none" /\ callStack' # callStack THEN "stale" ELSE varRefs
  /\ written' = << >>
  /\ UNCHANGED <<client, pendingRequests, server, vmUp, answered, view>>

Returned == state \in {"Paused", "Finished"}

\* A handler is over: what was kept meanwhile is next.
Back(ms, m) ==
  /\ server' = "drain" /\ command' = "none"
  /\ written' = ms /\ view' = Sees(m)
  /\ seen' = IF Here = Nowhere THEN seen ELSE Here
  /\ UNCHANGED <<setup, vm, state, reason, control, chunked, startLine, startDepth>>
  /\ UNCHANGED <<vmUp, varRefs>>

Ends == <<"exited", "terminated">>

\* A wrong variant: nothing is said when the program ended during a step.
StepEventSilent == IF state = "Paused" \/ command = "entry" THEN "stopped" ELSE "none"

\* What handleNext, handleStepIn and handleStepOut report at last; the entry
\* stop is reported whatever happened.
StepEvent == IF state = "Paused" \/ command = "entry" THEN "stopped" ELSE "terminated"

StepDone ==
  /\ server = "step" /\ Returned
  /\ Back(IF StepEvent = "terminated" THEN Ends ELSE <<StepEvent>>, StepEvent)
  /\ UNCHANGED <<client, pendingRequests, answered>>

\* A wrong variant: the requests kept back are left where they are.
RunDoneUndrained ==
  /\ server = "run" /\ Returned /\ reason # "BudgetExhausted"
  /\ server' = "read" /\ command' = "none"
  /\ written' = Ends /\ view' = Sees("terminated")
  /\ UNCHANGED <<setup, vm, state, reason, control, history, vmUp, varRefs>>
  /\ UNCHANGED <<client, pendingRequests, answered>>

RunDone ==
  /\ server = "run" /\ Returned /\ reason # "BudgetExhausted"
  /\ IF reason = "Finished" THEN Back(Ends, "terminated") ELSE Back(<<"stopped">>, "stopped")
  /\ UNCHANGED <<client, pendingRequests, answered>>

\* FrameReader::readMessage waits for the rest of a frame that began.
Blocks == inbox = << >> /\ partial /\ ~closed

\* Between two chunks.  poll() reports the closed pipe as readable, so a
\* client that went away does not end the run: readMessage returns null and
\* the next chunk begins.  Bytes of a frame that is not complete make the run
\* wait for the rest.
Between == server = "run" /\ Returned /\ reason = "BudgetExhausted"

\* A wrong variant: a pause is kept like any other request.
InterruptsNot(r) == FALSE

Interrupts(r) == r.cmd = "pause"

\* Wrong variants: the request is dropped, or put before the others.
KeepNot(q, r)   == q
KeepFirst(q, r) == <<r>> \o q

Keep(q, r) == Append(q, r)

Poll ==
  /\ Between /\ ~Blocks
  /\ IF inbox # << >>
     THEN /\ ~Interrupts(Head(inbox))
          /\ inbox' = Tail(inbox)
          /\ pendingRequests' = Keep(pendingRequests, Head(inbox))
     ELSE UNCHANGED <<inbox, pendingRequests>>
  /\ Begin(Chunk, -1)
  /\ written' = << >>
  /\ UNCHANGED <<partial, closed, sent, server, vmUp, varRefs, answered, view>>
  /\ chunked' = TRUE
  /\ UNCHANGED <<setup, vm, command, seen, startLine, startDepth>>

PauseRun ==
  /\ Between
  /\ inbox # << >> /\ Interrupts(Head(inbox))
  /\ inbox' = Tail(inbox)
  /\ answered' = answered \cup {Head(inbox)}
  /\ Back(<<"response", "stopped">>, "stopped")
  /\ UNCHANGED <<partial, closed, sent, pendingRequests>>

\* An uncaught error leaves run() as an exception.
Crash ==
  /\ server \in {"run", "step"} /\ state = "Dead"
  /\ server' = "crashed" /\ written' = << >>
  /\ UNCHANGED <<client, pendingRequests, vmUp, varRefs, answered, view, debugVars>>

Drained ==
  /\ server = "drain" /\ pendingRequests = << >>
  /\ server' = "read" /\ written' = << >>
  /\ UNCHANGED <<client, pendingRequests, vmUp, varRefs, answered, view, debugVars>>

\* A wrong variant: the main loop goes on reading.
EndOfInputMissed ==
  /\ server = "read" /\ inbox = << >> /\ closed
  /\ written' = << >>
  /\ UNCHANGED <<client, pendingRequests, server, vmUp, varRefs, answered, view, debugVars>>

\* readMessage fails at the end of the input, and the main loop ends once the
\* buffer is empty: behind a frame that is cut off it reads on for ever.
EndOfInput ==
  /\ server = "read" /\ inbox = << >> /\ closed /\ ~partial
  /\ server' = "ended" /\ written' = << >>
  /\ UNCHANGED <<client, pendingRequests, vmUp, varRefs, answered, view, debugVars>>

Server ==
  \/ Dispatch \/ VmStep \/ StepDone \/ RunDone \/ Poll \/ PauseRun
  \/ Crash \/ Drained \/ EndOfInput

DapInit ==
  /\ Init /\ breakpoints = {}
  /\ inbox = << >> /\ partial = FALSE /\ closed = FALSE /\ pendingRequests = << >> /\ server = "read"
  /\ vmUp = FALSE /\ varRefs = "none" /\ sent = 0 /\ answered = {} /\ written = << >>
  /\ view = "starting"

DapNext == Send \/ SendPart \/ CloseInput \/ Server

DapSpec == DapInit /\ [][DapNext]_dapVars

\* The server is one thread that always goes on; the client owes nothing.
FairDapSpec == DapSpec /\ WF_dapVars(Server)

-----------------------------------------------------------------------------

Waiting  == {inbox[i] : i \in DOMAIN inbox}
Kept     == {pendingRequests[i] : i \in DOMAIN pendingRequests}
Seqs(rs) == {r.seq : r \in rs}

\* Every request sent is waiting, kept back or answered, and no two of these
\* (runWithBudget keeps what it reads while the program runs).
NoRequestLost ==
  /\ 1..sent = Seqs(answered) \cup Seqs(Waiting) \cup Seqs(Kept)
  /\ Waiting \cap Kept = {} /\ answered \cap (Waiting \cup Kept) = {}

\* Requests are answered in the order they were sent, except that a pause may
\* overtake those kept back (pendingRequests_, drainPendingRequests).
AnsweredInOrder ==
  \A r \in answered : \A w \in Waiting \cup Kept :
    w.seq < r.seq => r.cmd = "pause" /\ w \in Kept

\* The client is not left waiting: when the server waits for a request, the
\* last thing it told the client is not that the program runs; and a client
\* told that the program stopped never faces a running one.
ClientKnows ==
  /\ server \in {"read", "drain"} => view # "running"
  /\ view = "stopped" => server \notin {"run", "step"}

\* A handle on an object is never older than the last instruction
\* (invalidateVarRefs: the object may have been collected since).
HandlesAreFresh == varRefs # "stale"

\* Whatever the client sends, and whenever, the debugger inside is driven as the
\* interpreter expects: a session is a behaviour of DebugRun alone, so what holds
\* there of stops and breakpoints holds here (dispatch, runWithBudget,
\* drainPendingRequests).
DebuggerInside == Spec

\* The runs end: the program or the debugger stops each of them.
RunsEnd == []<>(server \notin {"run", "step"})

\* The steps end.
StepsEnd == []<>(server # "step")

\* As long as the runs end, every request is answered in the end, those kept
\* back while the program runs included (runWithBudget, drainPendingRequests).
EveryRequestAnswered ==
  RunsEnd => \A n \in 1..MaxRequests : n <= sent ~> n \in Seqs(answered) \/ server = "crashed"

\* As long as the steps end, a pause is answered in the end, whatever the
\* program does (runWithBudget looks for one between two chunks: "so a program
\* that loops for ever does not lock the DAP server").
EveryPauseAnswered ==
  StepsEnd => \A n \in 1..MaxRequests :
    (\E r \in Waiting : r = [seq |-> n, cmd |-> "pause"])
      ~> n \in Seqs(answered) \/ server = "crashed"

\* A client that goes away between two messages ends the server, as long as the
\* runs end (during one that does not, the poll of a closed pipe reports a
\* message: runWithBudget).
EofEndsIdleServer ==
  RunsEnd => (closed /\ ~partial ~> server \in {"ended", "crashed"})
=============================================================================
