------------------------------ MODULE RpcClient ------------------------------
(***************************************************************************)
(* The JSON-RPC client (wsclient.go) and the approval gate behind it       *)
(* (RegisterApprovalHandlers, gateApproval, gateViaPrehook).  Any number   *)
(* of goroutines make calls over one connection; ReadPump alone reads it,  *)
(* hands each response to the call that waits for it, runs the handlers of *)
(* notifications itself and those of codex's own requests in a goroutine   *)
(* each.  A gated request is parked until bridge-server's prehook answers, *)
(* for as long as a human takes.  The connection may be lost and a call's  *)
(* context may end at any time.                                            *)
(*                                                                         *)
(* The branch that approves without asking when no bridge-server URL is    *)
(* set is left out: SetBridgeServerURL's one caller never passes "".       *)
(***************************************************************************)
EXTENDS Naturals, Sequences, FiniteSets

CONSTANTS
  Calls,      \* calls the bridge makes
  Timed,      \* those made with a deadline of their own
  Gated,      \* requests of codex for an approval
  Others,     \* other requests: refused at once, with or without a handler
  MaxNotes,   \* bound: notifications codex sends
  MaxOnTheWay,   \* bound: messages of codex not read yet
  Unsettled, Failed   \* a call's outcome when it is not an answer

Requests == Gated \cup Others

ASSUME RpcAssumption ==
  /\ IsFiniteSet(Calls) /\ Timed \subseteq Calls
  /\ Unsettled \notin Calls /\ Failed \notin Calls /\ Unsettled # Failed
  /\ Gated \cap Others = {}
  /\ MaxNotes \in Nat /\ MaxOnTheWay \in Nat

VARIABLES
  \* WSClient
  nextID,     \* number of the last call
  pc,         \* where each call is
  id,         \* its number, 0 before it has one
  pending,    \* the table: [id, call] for each registered channel
  slot,       \* what is in each call's channel: the call codex answered
  over,       \* calls whose context has ended
  done,       \* the done channel is closed
  outcome,    \* what each call returned
  handled,    \* notifications whose handler has run
  \* the connection and codex
  conn,       \* "open" or "closed"
  asked,      \* [id, call]: requests codex received and has not answered
  fromCodex,  \* messages on their way to ReadPump, in order
  answered,   \* calls codex answered
  noted,      \* notifications codex sent
  notedAt,    \* how many of them came before the answer to each call
  \* codex's own requests
  stage,      \* where each is
  verdict,    \* what the prehook answered
  event,      \* the EventApproval emitted
  told        \* what codex was told

callVars == <<nextID, pc, id, pending, slot, over, outcome>>
codexVars == <<asked, fromCodex, answered, noted, notedAt>>
gateVars == <<stage, verdict, event, told>>
vars == <<callVars, codexVars, gateVars, done, handled, conn>>

\* What comes of asking the prehook: it allows, it denies, or neither ("ask", an
\* unreachable server, a status other than 2xx, a body that does not decode).
Verdicts == {"allow", "deny", "other"}

Entries == [id : 1..Cardinality(Calls), call : Calls]

Messages ==
  [kind : {"response"}, id : 1..Cardinality(Calls), call : Calls]
    \cup [kind : {"request"}, req : Requests]
    \cup [kind : {"note"}]

TypeOK ==
  /\ nextID \in 0..Cardinality(Calls)
  /\ pc \in [Calls -> {"idle", "registered", "waiting", "returned"}]
  /\ id \in [Calls -> 0..Cardinality(Calls)]
  /\ pending \subseteq Entries
  /\ slot \in [Calls -> Calls \cup {Unsettled}]
  /\ over \subseteq Calls
  /\ done \in BOOLEAN
  /\ outcome \in [Calls -> Calls \cup {Unsettled, Failed}]
  /\ handled \in Nat /\ noted \in Nat
  /\ conn \in {"open", "closed"}
  /\ asked \subseteq Entries
  /\ fromCodex \in Seq(Messages)
  /\ answered \subseteq Calls
  /\ notedAt \in [Calls -> Nat]
  /\ stage \in [Requests ->
       {"unsent", "sent", "handling", "decided", "ended"}]
  /\ verdict \in [Requests -> Verdicts \cup {"none"}]
  /\ event \in [Requests -> {"none", "approved", "denied"}]
  /\ told \in [Requests -> {"nothing", "approve", "refuse"}]

Init ==
  /\ nextID = 0
  /\ pc = [c \in Calls |-> "idle"]
  /\ id = [c \in Calls |-> 0]
  /\ pending = {}
  /\ slot = [c \in Calls |-> Unsettled]
  /\ over = {}
  /\ done = FALSE
  /\ outcome = [c \in Calls |-> Unsettled]
  /\ handled = 0 /\ noted = 0
  /\ conn = "open"
  /\ asked = {} /\ fromCodex = <<>> /\ answered = {}
  /\ notedAt = [c \in Calls |-> 0]
  /\ stage = [r \in Requests |-> "unsent"]
  /\ verdict = [r \in Requests |-> "none"]
  /\ event = [r \in Requests |-> "none"]
  /\ told = [r \in Requests |-> "nothing"]

-----------------------------------------------------------------------------
(* WSClient.Call. *)

\* A bug: the number is not advanced before it is used.
FreshIdStale == nextID

\* A bug: the lowest number that is not in the table is used again.
FreshIdReused ==
  CHOOSE n \in 1..Cardinality(Calls) :
    /\ \A p \in pending : p.id # n
    /\ \A m \in 1..(n - 1) : \E p \in pending : p.id = m

FreshId == nextID + 1

Begin(c) ==
  LET n == FreshId IN
  /\ pc[c] = "idle"
  /\ nextID' = nextID + 1
  /\ id' = [id EXCEPT ![c] = n]
  /\ pending' = {p \in pending : p.id # n} \cup {[id |-> n, call |-> c]}
  /\ pc' = [pc EXCEPT ![c] = "registered"]
  /\ UNCHANGED <<slot, over, outcome, codexVars, gateVars, done, handled, conn>>

\* A bug: a call that gives up leaves its channel in the table.
DeletePendingIfAnswered(c, o) ==
  IF o = Failed THEN pending ELSE {p \in pending : p.id # id[c]}

\* The table after a call returned o: defer c.pending.Delete(id).
DeletePending(c, o) == {p \in pending : p.id # id[c]}

Return(c, o) ==
  /\ pc' = [pc EXCEPT ![c] = "returned"]
  /\ outcome' = [outcome EXCEPT ![c] = o]
  /\ pending' = DeletePending(c, o)
  /\ slot' = [slot EXCEPT ![c] = Unsettled]
  /\ UNCHANGED <<nextID, id, over, codexVars, gateVars, done, handled, conn>>

\* writeJSON.  A write to a lost connection fails or goes nowhere.
Write(c) ==
  /\ pc[c] = "registered"
  /\ pc' = [pc EXCEPT ![c] = "waiting"]
  /\ asked' = IF conn = "open" THEN asked \cup {[id |-> id[c], call |-> c]} ELSE asked
  /\ UNCHANGED <<nextID, id, pending, slot, over, outcome, fromCodex, answered,
                 noted, notedAt, gateVars, done, handled, conn>>

WriteFails(c) ==
  /\ pc[c] = "registered" /\ conn = "closed"
  /\ Return(c, Failed)

\* The select: when several of its cases are ready, any of them is taken.  The
\* channel goes with the call.
Receive(c) ==
  /\ pc[c] = "waiting" /\ slot[c] # Unsettled
  /\ Return(c, slot[c])

GiveUp(c) ==
  /\ pc[c] = "waiting" /\ c \in over
  /\ Return(c, Failed)

SeeDone(c) ==
  /\ pc[c] = "waiting" /\ done
  /\ Return(c, Failed)

\* The five seconds of initialize and of Shutdown's interrupt, or SIGTERM for every
\* call.
ContextEnds ==
  /\ \E ended \in {{c} : c \in {t \in Timed : pc[t] # "idle"}} \cup {Calls} :
       /\ ~(ended \subseteq over)
       /\ over' = over \cup ended
  /\ UNCHANGED <<nextID, pc, id, pending, slot, outcome, codexVars, gateVars,
                 done, handled, conn>>

-----------------------------------------------------------------------------
(* ReadPump and what it dispatches to. *)

\* A bug: the handler of a request runs in ReadPump itself.
ReadingUnlessHandling ==
  ~done /\ \A r \in Requests : stage[r] \notin {"handling", "decided"}

Reading == ~done

message == Head(fromCodex)

HandleResponse ==
  /\ Reading /\ fromCodex # <<>> /\ message.kind = "response"
  /\ LET waiting == {p \in pending : p.id = message.id} IN
       /\ pending' = pending \ waiting
       /\ slot' = [c \in Calls |->
                     IF \E p \in waiting : p.call = c THEN message.call
                     ELSE slot[c]]
  /\ fromCodex' = Tail(fromCodex)
  /\ UNCHANGED <<nextID, pc, id, over, outcome, asked, answered, noted, notedAt,
                 gateVars, done, handled, conn>>

\* A bug: a handler is started in a goroutine and has not run yet.
HandledLater == handled

HandledAfter == handled + 1

HandleNotification ==
  /\ Reading /\ fromCodex # <<>> /\ message.kind = "note"
  /\ handled' = HandledAfter
  /\ fromCodex' = Tail(fromCodex)
  /\ UNCHANGED <<callVars, asked, answered, noted, notedAt, gateVars, done, conn>>

\* sendResponse: a write to a lost connection is only logged.
Tell(r, what) ==
  /\ stage' = [stage EXCEPT ![r] = "ended"]
  /\ told' = IF conn = "open" THEN [told EXCEPT ![r] = what] ELSE told

\* A bug: a request nobody handles is passed over.
AnswerToUnknownMissing == "nothing"

AnswerToUnknown == "refuse"

\* A method with a handler is served in a goroutine, any other is answered here.
HandleServerRequest ==
  /\ Reading /\ fromCodex # <<>> /\ message.kind = "request"
  /\ LET r == message.req IN
       \/ r \in Others /\ Tell(r, AnswerToUnknown)
       \/ stage' = [stage EXCEPT ![r] = "handling"] /\ UNCHANGED told
  /\ fromCodex' = Tail(fromCodex)
  /\ UNCHANGED <<callVars, asked, answered, noted, notedAt, verdict, event,
                 done, handled, conn>>

\* ReadMessage fails: what was still on its way is lost.
ReadPumpEnds ==
  /\ Reading /\ conn = "closed"
  /\ done' = TRUE
  /\ fromCodex' = <<>>
  /\ UNCHANGED <<callVars, asked, answered, noted, notedAt, gateVars, handled, conn>>

-----------------------------------------------------------------------------
(* The goroutine of one request. *)

RefuseOther(r) ==
  /\ r \in Others /\ stage[r] = "handling"
  /\ Tell(r, "refuse")
  /\ UNCHANGED <<callVars, codexVars, verdict, event, done, handled, conn>>

\* A bug: what the server did not deny is approved.
ApprovedUnlessDenied(v) == v # "deny"

Approved(v) == v = "allow"

\* The parameters do not decode: the handler's error is sent before bridge-server is
\* asked or an event emitted.
RefuseUndecodable(r) ==
  /\ r \in Gated /\ stage[r] = "handling"
  /\ Tell(r, "refuse")
  /\ UNCHANGED <<callVars, codexVars, verdict, event, done, handled, conn>>

\* gateViaPrehook returns, and gateApproval emits the event before the handler
\* returns.
GateApproval(r) ==
  /\ r \in Gated /\ stage[r] = "handling"
  /\ \E v \in Verdicts :
       /\ verdict' = [verdict EXCEPT ![r] = v]
       /\ event' = [event EXCEPT ![r] = IF Approved(v) THEN "approved" ELSE "denied"]
  /\ stage' = [stage EXCEPT ![r] = "decided"]
  /\ UNCHANGED <<callVars, codexVars, told, done, handled, conn>>

AnswerApproval(r) ==
  /\ stage[r] = "decided"
  /\ Tell(r, IF Approved(verdict[r]) THEN "approve" ELSE "refuse")
  /\ UNCHANGED <<callVars, codexVars, verdict, event, done, handled, conn>>

-----------------------------------------------------------------------------
(* codex and the connection. *)

CodexMaySend == conn = "open" /\ Len(fromCodex) < MaxOnTheWay

CodexAnswers ==
  /\ CodexMaySend
  /\ \E a \in asked :
       /\ asked' = asked \ {a}
       /\ fromCodex' = Append(fromCodex, [kind |-> "response", id |-> a.id, call |-> a.call])
       /\ answered' = answered \cup {a.call}
       /\ notedAt' = [notedAt EXCEPT ![a.call] = noted]
  /\ UNCHANGED <<callVars, gateVars, noted, done, handled, conn>>

CodexRequests(r) ==
  /\ CodexMaySend /\ stage[r] = "unsent"
  /\ fromCodex' = Append(fromCodex, [kind |-> "request", req |-> r])
  /\ stage' = [stage EXCEPT ![r] = "sent"]
  /\ UNCHANGED <<callVars, asked, answered, noted, notedAt, verdict, event, told,
                 done, handled, conn>>

CodexNotifies ==
  /\ CodexMaySend /\ noted < MaxNotes
  /\ fromCodex' = Append(fromCodex, [kind |-> "note"])
  /\ noted' = noted + 1
  /\ UNCHANGED <<callVars, asked, answered, notedAt, gateVars, done, handled, conn>>

\* codex dies, or Shutdown closes the client.
ConnectionEnds ==
  /\ conn = "open"
  /\ conn' = "closed"
  /\ asked' = {}
  /\ UNCHANGED <<callVars, fromCodex, answered, noted, notedAt, gateVars, done,
                 handled>>

-----------------------------------------------------------------------------
Select(c) == Receive(c) \/ GiveUp(c) \/ SeeDone(c)

Continue(c) == Write(c) \/ WriteFails(c) \/ Select(c)

Call(c) == Begin(c) \/ Continue(c)

ReadPump ==
  HandleResponse \/ HandleNotification \/ HandleServerRequest \/ ReadPumpEnds

Goroutine(r) == RefuseOther(r) \/ AnswerApproval(r)

Codex ==
  CodexAnswers \/ CodexNotifies \/ \E r \in Requests : CodexRequests(r)

Next ==
  \/ \E c \in Calls : Call(c)
  \/ ReadPump
  \/ \E r \in Requests : Goroutine(r) \/ RefuseUndecodable(r) \/ GateApproval(r)
  \/ Codex
  \/ ContextEnds \/ ConnectionEnds

Spec == Init /\ [][Next]_vars

\* The goroutines are scheduled.  Nobody has to answer them: codex may leave a
\* call unanswered and the prehook may keep a request parked.
FairSpec ==
  /\ Spec
  /\ \A c \in Calls : WF_vars(Continue(c))
  /\ WF_vars(ReadPump)
  /\ \A r \in Requests : WF_vars(Goroutine(r))

-----------------------------------------------------------------------------
(* Properties. *)

\* Whatever gives up, is answered late or is answered out of turn, a call
\* returns once, with codex's answer to that call or with an error, never with
\* the answer to another (WSClient.Call, handleResponse).
Outcomes ==
  INSTANCE CallOutcomes WITH asked <- {c \in Calls : pc[c] # "idle"}
CallsImplemented == Outcomes!Spec

\* The table holds the channels of calls in progress and no others, however
\* they ended: it does not grow with the calls that timed out.
NoChannelLeaks ==
  \A p \in pending : pc[p.call] \in {"registered", "waiting"} /\ id[p.call] = p.id

\* A call that returns codex's answer returns after the handlers of every
\* notification codex sent before it have run: what the handlers recorded (a
\* turn that started, a thread's name) is there when the caller looks.
AnswerAfterEarlier ==
  \A c \in Calls : outcome[c] = c => notedAt[c] <= handled

\* codex is told to go ahead only when bridge-server allowed that very request; a
\* request bridge-server was asked about gets an event that says what codex is told
\* after it, where an error, an "ask" and silence are refusals (gateViaPrehook is
\* fail-closed on every path); and only a request bridge-server was never asked
\* about, its parameters unreadable, is refused without an event.
DecisionIsTheServers ==
  \A r \in Gated :
    /\ told[r] = "approve" => verdict[r] = "allow" /\ event[r] = "approved"
    /\ told[r] = "refuse" =>
         event[r] = IF verdict[r] = "none" THEN "none" ELSE "denied"

\* A call returns once codex answered it, its connection is lost or its context
\* is over, although approvals are parked: a request that waits for a
\* human does not stop ReadPump, and no caller waits for an answer that cannot
\* come.
CallReturns ==
  LET due(c) ==
        /\ pc[c] \in {"registered", "waiting"}
        /\ c \in answered \cup over \/ conn = "closed"
  IN \A c \in Calls : []<>~due(c)

\* codex hears back about every request it made, unless the connection is lost,
\* as soon as the prehook has answered if it has to be asked.
RequestsAnswered ==
  LET due(r) ==
        /\ told[r] = "nothing" /\ conn = "open"
        /\ IF r \in Gated THEN verdict[r] # "none" ELSE stage[r] # "unsent"
  IN \A r \in Requests : []<>~due(r)
=============================================================================
