---------------------------- MODULE TurnControl ----------------------------
(***************************************************************************)
(* How one wrapper process runs turns on its thread.  Three goroutines     *)
(* share it: the main goroutine reads one request at a time from stdin and *)
(* blocks in startTurn for the length of a turn; the signal goroutine      *)
(* serves SIGINT and SIGTERM; ReadPump reads the WebSocket, hands each     *)
(* response to the call that waits for it and signals turnDone, a channel  *)
(* with room for one, on every turn/completed and turn/failed.             *)
(*                                                                         *)
(* The process starts here with its thread open (SessionChain models how   *)
(* it is opened).  codex is external: it answers requests in order, runs   *)
(* turns of this thread and of subagent threads it spawned, and reports    *)
(* the end of each on the one connection.                                  *)
(***************************************************************************)
EXTENDS Naturals, Sequences, FiniteSets

CONSTANTS
  MaxTurns,   \* bound: turns requested
  Children,   \* turns of subagent threads
  MaxSignals, \* bound: signals sent to the process
  MaxQueue    \* bound: messages under way when a control request is taken

ASSUME TurnAssumption ==
  /\ MaxTurns \in Nat /\ MaxSignals \in Nat /\ MaxQueue \in Nat
  /\ Children \cap Nat = {}

Turns == 1..MaxTurns

VARIABLES
  pc,         \* main goroutine
  turn,       \* the turn it requested last
  answer,     \* response delivered to main's pending call, if any
  turnDone,   \* the channel: what it holds, at most one signal
  cancelled,  \* the context of main.go is done
  sigBuf,     \* sigCh: the signal waiting to be served
  sig,        \* signal goroutine
  sigs,       \* signals sent so far
  conn,       \* the WebSocket is up
  toCodex,    \* requests on their way to codex
  wire,       \* messages on their way to ReadPump
  active,     \* turns codex runs
  spawned,    \* child turns ever started
  \* history
  ended,      \* turns whose end ReadPump has handled
  released    \* which signals ended a startTurn

mainVars == <<pc, turn, answer>>
sigVars == <<sigBuf, sig, sigs>>
netVars == <<conn, toCodex, wire>>
codexVars == <<active, spawned>>
history == <<ended, released>>
vars == <<mainVars, turnDone, cancelled, sigVars, netVars, codexVars, history>>

\* Who waits for a response: startTurn, with its turn, or one that interrupts.
Interrupters == {"control", "sigint", "shutdown"}
Callers == [by : {"turn"}, turn : Turns] \cup [by : Interrupters, turn : {0}]

TurnStart(t) == [by |-> "turn", turn |-> t]
TurnInterrupt(who) == [by |-> who, turn |-> 0]

NoAnswer == "none"

\* A signal is empty in the code; here it tells, for the history, whose end put
\* it there and which turn main had requested last.
Signals == [of : Turns \cup Children, at : 0..MaxTurns]

Messages ==
  [kind : {"response"}, to : Callers, ok : BOOLEAN]
    \cup [kind : {"ended"}, of : Turns \cup Children]

TypeOK ==
  /\ pc \in {"reading", "calling", "waiting", "control", "closing", "exited"}
  /\ turn \in 0..MaxTurns
  /\ answer \in {NoAnswer, "ok", "error"}
  /\ turnDone \in {<<>>} \cup {<<x>> : x \in Signals}
  /\ cancelled \in BOOLEAN
  /\ sigBuf \in {"none", "INT", "TERM"}
  /\ sig \in {"idle", "calling"}
  /\ sigs \in 0..MaxSignals
  /\ conn \in BOOLEAN
  /\ toCodex \in Seq(Callers)
  /\ wire \in Seq(Messages)
  /\ active \subseteq Turns \cup Children
  /\ spawned \subseteq Children
  /\ ended \subseteq Turns \cup Children
  /\ released \subseteq [turn : Turns, by : Signals]

Init ==
  /\ pc = "reading" /\ turn = 0 /\ answer = NoAnswer
  /\ turnDone = <<>>
  /\ cancelled = FALSE
  /\ sigBuf = "none" /\ sig = "idle" /\ sigs = 0
  /\ conn = TRUE /\ toCodex = <<>> /\ wire = <<>>
  /\ active = {} /\ spawned = {}
  /\ ended = {} /\ released = {}

-----------------------------------------------------------------------------
(* Main goroutine. *)

\* A bug: a signal left over from an earlier turn is kept.
DrainNothing == turnDone

\* startTurn first empties the channel.
Drain == <<>>

\* A bug: the channel is emptied once turn/start was answered.
DrainAfterAnswer == <<>>

AfterAnswer == turnDone

\* message, resume, or a start with a prompt: startTurn up to the request.
StartTurn ==
  /\ pc = "reading" /\ turn < MaxTurns
  /\ turn' = turn + 1
  /\ turnDone' = Drain
  /\ IF conn
     THEN pc' = "calling" /\ toCodex' = Append(toCodex, TurnStart(turn + 1))
     ELSE pc' = "reading" /\ UNCHANGED toCodex     \* the write fails
  /\ UNCHANGED <<answer, cancelled, sigVars, conn, wire, codexVars, history>>

\* WSClient.Call returns: the response, the context and the closed connection
\* are one select, so any that is ready may win.
CallResult(result) ==
  CASE result = "ok"    -> answer = "ok"
    [] result = "error" -> answer = "error" \/ cancelled \/ ~conn

TurnAccepted ==
  /\ pc = "calling" /\ CallResult("ok")
  /\ pc' = "waiting" /\ answer' = NoAnswer
  /\ turnDone' = AfterAnswer
  /\ UNCHANGED <<turn, cancelled, sigVars, netVars, codexVars, history>>

TurnRefused ==
  /\ pc = "calling" /\ CallResult("error")
  /\ pc' = "reading" /\ answer' = NoAnswer
  /\ UNCHANGED <<turn, turnDone, cancelled, sigVars, netVars, codexVars, history>>

\* The three ways out of startTurn's select.
TurnReleased ==
  /\ pc = "waiting" /\ turnDone # <<>>
  /\ pc' = "reading"
  /\ released' = released \cup {[turn |-> turn, by |-> Head(turnDone)]}
  /\ turnDone' = Tail(turnDone)
  /\ UNCHANGED <<turn, answer, cancelled, sigVars, netVars, codexVars, ended>>

TurnCancelled ==
  /\ pc = "waiting" /\ cancelled
  /\ pc' = "reading"
  /\ UNCHANGED <<turn, answer, turnDone, cancelled, sigVars, netVars, codexVars,
                 history>>

TurnTimesOut ==
  /\ pc = "waiting"
  /\ pc' = "reading"
  /\ UNCHANGED <<turn, answer, turnDone, cancelled, sigVars, netVars, codexVars,
                 history>>

\* control with subtype interrupt, read from stdin like any other request.
ControlInterrupt ==
  /\ pc = "reading" /\ conn /\ Len(toCodex) + Len(wire) < MaxQueue
  /\ pc' = "control"
  /\ toCodex' = Append(toCodex, TurnInterrupt("control"))
  /\ UNCHANGED <<turn, answer, turnDone, cancelled, sigVars, conn, wire,
                 codexVars, history>>

ControlReturns ==
  /\ pc = "control" /\ \E r \in {"ok", "error"} : CallResult(r)
  /\ pc' = "reading" /\ answer' = NoAnswer
  /\ UNCHANGED <<turn, turnDone, cancelled, sigVars, netVars, codexVars, history>>

\* stdin closed: Shutdown sends one last turn/interrupt on a context of its own
\* that gives it five seconds, then closes the WebSocket.
StdinCloses ==
  /\ pc = "reading"
  /\ pc' = "closing"
  /\ toCodex' = IF conn THEN Append(toCodex, TurnInterrupt("shutdown")) ELSE toCodex
  /\ UNCHANGED <<turn, answer, turnDone, cancelled, sigVars, conn, wire,
                 codexVars, history>>

Exit ==
  /\ pc = "closing"
  /\ pc' = "exited" /\ answer' = NoAnswer
  /\ conn' = FALSE /\ toCodex' = <<>> /\ wire' = <<>>
  /\ UNCHANGED <<turn, turnDone, cancelled, sigVars, codexVars, history>>

-----------------------------------------------------------------------------
(* Signals.  sigCh has room for one; a signal that finds it full is lost. *)

SendSignal(s) ==
  /\ pc # "exited" /\ sigs < MaxSignals
  /\ sigs' = sigs + 1
  /\ sigBuf' = IF sigBuf = "none" THEN s ELSE sigBuf
  /\ UNCHANGED <<mainVars, turnDone, cancelled, sig, netVars, codexVars, history>>

\* HandleInterrupt: turn/interrupt, which fails at once when the connection is
\* gone.
ServeSigint ==
  /\ pc # "exited" /\ sig = "idle" /\ sigBuf = "INT"
  /\ sigBuf' = "none"
  /\ IF conn
     THEN sig' = "calling" /\ toCodex' = Append(toCodex, TurnInterrupt("sigint"))
     ELSE UNCHANGED <<sig, toCodex>>
  /\ UNCHANGED <<mainVars, turnDone, cancelled, sigs, conn, wire, codexVars, history>>

InterruptFails ==
  /\ sig = "calling" /\ (cancelled \/ ~conn)
  /\ sig' = "idle"
  /\ UNCHANGED <<mainVars, turnDone, cancelled, sigBuf, sigs, netVars, codexVars,
                 history>>

\* SIGTERM: cancel(), and nothing else.
ServeSigterm ==
  /\ pc # "exited" /\ sig = "idle" /\ sigBuf = "TERM"
  /\ sigBuf' = "none" /\ cancelled' = TRUE
  /\ UNCHANGED <<mainVars, turnDone, sig, sigs, netVars, codexVars, history>>

-----------------------------------------------------------------------------
(* ReadPump. *)

\* A bug: the send has no default branch, so ReadPump waits for room.
CanSignalWhenEmpty == turnDone = <<>>

CanSignal == TRUE

\* A bug: the channel has room for more than one signal.
SignalUnbounded(x) == Append(turnDone, x)

\* The channel after the wrappers' send: a full one keeps what it holds.
Signal(x) == IF turnDone = <<>> THEN <<x>> ELSE turnDone

\* The wrappers Init puts around turn/completed and turn/failed, whichever
\* thread the notification names.
HandleEnded(t) ==
  /\ CanSignal
  /\ turnDone' = Signal([of |-> t, at |-> turn])
  /\ ended' = ended \cup {t}
  /\ UNCHANGED <<answer, sig>>

Awaited(caller) ==
  \/ pc = "calling" /\ caller = TurnStart(turn)
  \/ pc = "control" /\ caller = TurnInterrupt("control")
  \/ pc = "closing" /\ caller = TurnInterrupt("shutdown")

\* A response nobody waits for any more is dropped.
HandleResponse(m) ==
  /\ answer' = IF Awaited(m.to) THEN IF m.ok THEN "ok" ELSE "error" ELSE answer
  /\ sig' = IF m.to.by = "sigint" THEN "idle" ELSE sig
  /\ UNCHANGED <<turnDone, ended>>

ReadPump ==
  /\ conn /\ wire # <<>>
  /\ LET m == Head(wire) IN
       \/ m.kind = "ended" /\ HandleEnded(m.of)
       \/ m.kind = "response" /\ HandleResponse(m)
  /\ wire' = Tail(wire)
  /\ UNCHANGED <<pc, turn, cancelled, sigBuf, sigs, conn, toCodex, codexVars, released>>

-----------------------------------------------------------------------------
(* codex, and the connection to it. *)

CodexAnswers ==
  /\ conn /\ toCodex # <<>>
  /\ LET to == Head(toCodex) IN
       \E ok \in BOOLEAN :
         /\ wire' = Append(wire, [kind |-> "response", to |-> to, ok |-> ok])
         /\ active' = IF to.by = "turn" /\ ok THEN active \cup {to.turn} ELSE active
  /\ toCodex' = Tail(toCodex)
  /\ UNCHANGED <<mainVars, turnDone, cancelled, sigVars, conn, spawned, history>>

CodexSpawns(c) ==
  /\ c \notin spawned /\ active \cap Turns # {}
  /\ active' = active \cup {c} /\ spawned' = spawned \cup {c}
  /\ UNCHANGED <<mainVars, turnDone, cancelled, sigVars, netVars, history>>

CodexEnds(t) ==
  /\ conn /\ t \in active
  /\ active' = active \ {t}
  /\ wire' = Append(wire, [kind |-> "ended", of |-> t])
  /\ UNCHANGED <<mainVars, turnDone, cancelled, sigVars, conn, toCodex, spawned,
                 history>>

ConnectionLost ==
  /\ conn
  /\ conn' = FALSE /\ toCodex' = <<>> /\ wire' = <<>>
  /\ UNCHANGED <<mainVars, turnDone, cancelled, sigVars, codexVars, history>>

-----------------------------------------------------------------------------
MainStep ==
  \/ TurnAccepted \/ TurnRefused \/ TurnReleased \/ TurnCancelled
  \/ ControlReturns \/ Exit

Requests == StartTurn \/ ControlInterrupt \/ StdinCloses

SignalStep == ServeSigint \/ InterruptFails \/ ServeSigterm

CodexStep ==
  \/ CodexAnswers
  \/ \E c \in Children : CodexSpawns(c)
  \/ \E t \in Turns \cup Children : CodexEnds(t)

Next ==
  \/ Requests \/ MainStep \/ TurnTimesOut
  \/ \E s \in {"INT", "TERM"} : SendSignal(s)
  \/ SignalStep
  \/ ReadPump
  \/ CodexStep \/ ConnectionLost

Spec == Init /\ [][Next]_vars

\* The goroutines are scheduled, and codex answers every request and ends every
\* turn.  Nothing is assumed of the thirty-minute timer, of stdin or of signals.
FairSpec ==
  /\ Spec
  /\ WF_vars(MainStep) /\ WF_vars(ReadPump)
  /\ WF_vars(ServeSigint) /\ WF_vars(InterruptFails) /\ WF_vars(ServeSigterm)
  /\ WF_vars(CodexAnswers)
  /\ \A t \in Turns \cup Children : WF_vars(CodexEnds(t))

-----------------------------------------------------------------------------
\* A startTurn is only ended by a signal sent after it began: one left in the
\* channel by an earlier turn never passes for the end of this one.
ReleaseIsFresh ==
  \A r \in released : r.by.at = r.turn

\* Once ReadPump has handled the end of the turn main is in, the channel holds
\* a signal until main takes it: the end cannot slip through between the drain,
\* the answer to turn/start and the select.
EndNotLost ==
  pc \in {"calling", "waiting"} /\ turn \in ended => turnDone # <<>>

\* No request to run a turn blocks the wrapper for good, even with stray
\* signals filling turnDone, as long as the connection lasts; the
\* thirty-minute timer is not needed for it.
TurnReturns ==
  pc \in {"calling", "waiting"} ~> pc \notin {"calling", "waiting"} \/ ~conn

\* A signal that waits is served while the main goroutine is blocked in a turn, also
\* behind a SIGINT whose turn/interrupt is under way: its answer comes past the ends
\* of turns that fill turnDone meanwhile, or the connection is lost.  A SIGTERM so
\* comes to cancel the context.  Needs codex to answer: the interrupt of the signal
\* goroutine has no deadline.
SignalsServed ==
  /\ sigBuf = "INT" ~> sigBuf # "INT" \/ pc = "exited"
  /\ sigBuf = "TERM" ~> cancelled \/ pc = "exited"

-----------------------------------------------------------------------------
(* What comments and documents say and the code does not do. *)

\* "the child's turn/completed must not end the parent's turn": the turn that
\* is ended is the one whose end was reported, unless it follows a turn
\* startTurn gave up on.
OwnEndReleases ==
  \A r \in released : r.by.of \notin Children
=============================================================================
