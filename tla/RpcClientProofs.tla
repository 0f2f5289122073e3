--------------------------- MODULE RpcClientProofs ---------------------------
(***************************************************************************)
(* Theorems about RpcClient, for any number of calls, of requests and of   *)
(* notifications.                                                          *)
(***************************************************************************)
EXTENDS RpcClient, FiniteSetTheorems, SequenceTheorems, TLAPS

\* The calls that were begun, numbered in their order.
Begun == {c \in Calls : pc[c] # "idle"}

TypeInv ==
  /\ TypeOK
  /\ nextID = Cardinality(Begun)
  /\ \A c \in Begun : id[c] \in 1..nextID

\* No two calls have one number.
OneNumberEach == \A b, c \in Begun : id[b] = id[c] => b = c

\* What codex has to answer, and what it answered and is not read, carries the
\* number of the call it is about; a call is answered once.
NumbersMatch ==
  /\ \A a \in asked : a.call \in Begun \ answered /\ id[a.call] = a.id
  /\ \A i \in DOMAIN fromCodex :
       fromCodex[i].kind = "response" =>
         fromCodex[i].call \in answered /\ id[fromCodex[i].call] = fromCodex[i].id

\* So a channel holds the answer to its own call.
OwnAnswer == \A c \in Calls : slot[c] = Unsettled \/ (slot[c] = c /\ c \in answered)

\* A call is answered after it was written and has no outcome before it returns.
InOrder ==
  /\ \A c \in answered : pc[c] \in {"waiting", "returned"}
  /\ \A a \in asked : pc[a.call] \in {"waiting", "returned"}
  /\ \A c \in Calls : pc[c] # "returned" => outcome[c] = Unsettled

CallInv ==
  OneNumberEach /\ NumbersMatch /\ OwnAnswer /\ InOrder /\ NoChannelLeaks

\* A request waits to be read at most once, and only before it is served.
QueuedOnce ==
  \A i \in DOMAIN fromCodex :
    fromCodex[i].kind = "request" =>
      /\ stage[fromCodex[i].req] = "sent"
      /\ \A j \in DOMAIN fromCodex :
           fromCodex[j].kind = "request" /\ fromCodex[j].req = fromCodex[i].req => i = j

\* Codex is told nothing before the decision, and then what the event said.
Decided ==
  \A r \in Requests :
    /\ stage[r] # "ended" => told[r] = "nothing"
    /\ stage[r] \in {"unsent", "sent", "handling"} =>
         verdict[r] = "none" /\ event[r] = "none"
    /\ stage[r] = "decided" =>
         /\ r \in Gated /\ verdict[r] \in Verdicts
         /\ event[r] = IF Approved(verdict[r]) THEN "approved" ELSE "denied"

GateInv == QueuedOnce /\ Decided /\ DecisionIsTheServers
\* The steps that serve a request.
Serve(r) == Goroutine(r) \/ RefuseUndecodable(r) \/ GateApproval(r)
-----------------------------------------------------------------------------
(* The queue of messages. *)

LEMMA QueueDomain == TypeOK => DOMAIN fromCodex = 1..Len(fromCodex) /\ Len(fromCodex) \in Nat
BY DEF TypeOK

\* A message is sent.
LEMMA Sent ==
  ASSUME TypeOK, NEW m \in Messages, fromCodex' = Append(fromCodex, m)
  PROVE  /\ fromCodex' \in Seq(Messages)
         /\ DOMAIN fromCodex' = 1..(Len(fromCodex) + 1)
         /\ \A i \in DOMAIN fromCodex : fromCodex'[i] = fromCodex[i]
         /\ fromCodex'[Len(fromCodex) + 1] = m
<1>1. fromCodex \in Seq(Messages)
  BY DEF TypeOK
<1>2. /\ fromCodex' \in Seq(Messages) /\ Len(fromCodex') = Len(fromCodex) + 1
      /\ \A i \in 1..Len(fromCodex) : fromCodex'[i] = fromCodex[i]
      /\ fromCodex'[Len(fromCodex) + 1] = m
  BY <1>1, AppendProperties
<1>3. DOMAIN fromCodex' = 1..(Len(fromCodex) + 1)
  BY <1>2
<1>4. QED BY <1>2, <1>3, QueueDomain

\* The first message is read.
LEMMA ReadFirst ==
  ASSUME TypeOK, fromCodex # <<>>, fromCodex' = Tail(fromCodex)
  PROVE  /\ message \in Messages /\ 1 \in DOMAIN fromCodex /\ message = fromCodex[1]
         /\ fromCodex' \in Seq(Messages)
         /\ \A i \in DOMAIN fromCodex' :
              i + 1 \in DOMAIN fromCodex \ {1} /\ fromCodex'[i] = fromCodex[i + 1]
         /\ DOMAIN fromCodex' \subseteq Nat
<1>1. fromCodex \in Seq(Messages)
  BY DEF TypeOK
<1>2. /\ Head(fromCodex) \in Messages /\ fromCodex' \in Seq(Messages)
      /\ Len(fromCodex') = Len(fromCodex) - 1
      /\ \A i \in 1..Len(fromCodex') : fromCodex'[i] = fromCodex[i + 1]
  BY <1>1, HeadTailProperties
<1>3. Len(fromCodex) \in Nat \ {0} /\ DOMAIN fromCodex = 1..Len(fromCodex)
  BY <1>1, EmptySeq, QueueDomain
<1>4. message = fromCodex[1]
  BY <1>1, <1>3 DEF message
<1>5. DOMAIN fromCodex' = 1..(Len(fromCodex) - 1)
  BY <1>2
<1>6. QED BY <1>2, <1>3, <1>4, <1>5 DEF message

-----------------------------------------------------------------------------
(* Type correctness. *)

LEMMA BegunCount ==
  /\ IsFiniteSet(Begun) /\ Cardinality(Begun) \in Nat
  /\ Cardinality(Calls) \in Nat /\ Cardinality(Begun) <= Cardinality(Calls)
<1>1. Begun \in SUBSET Calls
  BY DEF Begun
<1>2. QED BY <1>1, RpcAssumption, FS_Subset, FS_CardinalityType

LEMMA TypeInit == Init => TypeInv
<1> SUFFICES ASSUME Init PROVE TypeInv
  OBVIOUS
<1>1. Begun = {} /\ Cardinality(Begun) = 0
  BY FS_EmptySet DEF Init, Begun
<1>2. TypeOK
  <2>1. /\ nextID \in 0..Cardinality(Calls)
        /\ id \in [Calls -> 0..Cardinality(Calls)]
        /\ fromCodex \in Seq(Messages)
    BY BegunCount DEF Init
  <2>2. /\ stage \in [Requests -> {"unsent", "sent", "handling", "decided", "ended"}]
        /\ verdict \in [Requests -> Verdicts \cup {"none"}]
        /\ event \in [Requests -> {"none", "approved", "denied"}]
        /\ told \in [Requests -> {"nothing", "approve", "refuse"}]
    BY DEF Init
  <2>3. QED BY <2>1, <2>2 DEF Init, TypeOK
<1>3. QED BY <1>1, <1>2 DEF Init, TypeInv

\* A step that begins no call keeps the numbers.
LEMMA NumbersKept ==
  ASSUME TypeInv, TypeOK', Begun' = Begun, UNCHANGED <<nextID, id>>
  PROVE  TypeInv'
BY DEF TypeInv

LEMMA BeginType ==
  ASSUME TypeInv, NEW c \in Calls, Begin(c)
  PROVE  TypeInv'
<1> DEFINE n == nextID + 1
<1>1. pc \in [Calls -> {"idle", "registered", "waiting", "returned"}]
      /\ id \in [Calls -> 0..Cardinality(Calls)]
  BY DEF TypeInv, TypeOK
<1>2. Begun' = Begun \cup {c} /\ c \notin Begun
  BY <1>1 DEF Begin, Begun
<1>3. Cardinality(Begun') = n /\ Cardinality(Begun') <= Cardinality(Calls)
      /\ n \in 1..Cardinality(Calls) /\ nextID \in Nat /\ nextID' = n
  <2>1. Cardinality(Begun') = Cardinality(Begun) + 1
    BY <1>2, BegunCount, FS_AddElement
  <2>2. Begun' \in SUBSET Calls
    BY <1>2 DEF Begun
  <2>3. Cardinality(Begun') <= Cardinality(Calls)
    BY <2>2, RpcAssumption, FS_Subset
  <2>4. nextID = Cardinality(Begun) /\ nextID' = n
    BY DEF TypeInv, Begin, FreshId
  <2>5. QED BY <2>1, <2>3, <2>4, BegunCount
<1>4. id' = [id EXCEPT ![c] = n] /\ id' \in [Calls -> 0..Cardinality(Calls)]
  BY <1>1, <1>3 DEF Begin, FreshId
<1>5. TypeOK'
  <2>1. [id |-> n, call |-> c] \in Entries
    BY <1>3 DEF Entries
  <2>2. pending' \subseteq Entries
    BY <2>1 DEF Begin, FreshId, TypeInv, TypeOK
  <2>3. nextID' \in 0..Cardinality(Calls)
    BY <1>3
  <2>4. pc' \in [Calls -> {"idle", "registered", "waiting", "returned"}]
    BY <1>1 DEF Begin
  <2>5. QED
    BY <1>4, <2>2, <2>3, <2>4 DEF Begin, TypeInv, TypeOK, codexVars, gateVars
<1>6. \A d \in Begun' : id'[d] \in 1..nextID'
  BY <1>1, <1>2, <1>3, <1>4 DEF TypeInv, Begun
<1>7. QED BY <1>3, <1>5, <1>6 DEF TypeInv

LEMMA ReturnType ==
  ASSUME TypeInv, NEW c \in Begun, NEW o \in Calls \cup {Failed}, Return(c, o)
  PROVE  TypeInv'
<1> USE DEF TypeInv
<1>1. c \in Calls
  BY DEF Begun
<1>2. TypeOK'
  BY <1>1 DEF Return, DeletePending, TypeOK, codexVars, gateVars
<1>3. Begun' = Begun /\ UNCHANGED <<nextID, id>>
  BY <1>1 DEF Return, TypeOK, Begun
<1>4. QED BY <1>2, <1>3, NumbersKept

LEMMA ContinueType ==
  ASSUME TypeInv, NEW c \in Calls, Continue(c)
  PROVE  TypeInv'
<1> USE DEF TypeInv
<1>1. CASE Write(c)
  <2>1. [id |-> id[c], call |-> c] \in Entries
    BY <1>1, BegunCount DEF Write, Begun, Entries
  <2>2. TypeOK'
    BY <1>1, <2>1 DEF Write, TypeOK, gateVars
  <2>3. Begun' = Begun /\ UNCHANGED <<nextID, id>>
    BY <1>1 DEF Write, TypeOK, Begun
  <2>4. QED BY <2>2, <2>3, NumbersKept
<1>2. CASE WriteFails(c)
  BY <1>2, ReturnType DEF WriteFails, Begun
<1>3. CASE Receive(c)
  <2>1. c \in Begun /\ slot[c] \in Calls
    BY <1>3 DEF Receive, Begun, TypeOK
  <2>2. QED BY <1>3, <2>1, ReturnType DEF Receive
<1>4. CASE GiveUp(c) \/ SeeDone(c)
  BY <1>4, ReturnType DEF GiveUp, SeeDone, Begun
<1>5. QED BY <1>1, <1>2, <1>3, <1>4 DEF Continue, Select

LEMMA ReadPumpType ==
  ASSUME TypeInv, ReadPump
  PROVE  TypeInv'
<1> USE DEF TypeInv
<1>1. TypeOK'
  <2>1. CASE HandleResponse
    <3>1. fromCodex' \in Seq(Messages) /\ message \in Messages
      BY <2>1, ReadFirst DEF HandleResponse
    <3>2. message.call \in Calls
      BY <2>1, <3>1 DEF HandleResponse, Messages
    <3>3. slot' \in [Calls -> Calls \cup {Unsettled}] /\ pending' \subseteq Entries
      BY <2>1, <3>2 DEF HandleResponse, TypeOK
    <3>4. QED BY <2>1, <3>1, <3>3 DEF HandleResponse, TypeOK, gateVars
  <2>2. CASE HandleNotification
    <3>1. fromCodex' \in Seq(Messages)
      BY <2>2, ReadFirst DEF HandleNotification
    <3>2. QED
      BY <2>2, <3>1 DEF HandleNotification, HandledAfter, TypeOK, callVars, gateVars
  <2>3. CASE HandleServerRequest
    <3>1. fromCodex' \in Seq(Messages) /\ message \in Messages
      BY <2>3, ReadFirst DEF HandleServerRequest
    <3>2. message.req \in Requests
      BY <2>3, <3>1 DEF HandleServerRequest, Messages
    <3>3. /\ stage' \in [Requests -> {"unsent", "sent", "handling", "decided", "ended"}]
          /\ told' \in [Requests -> {"nothing", "approve", "refuse"}]
      BY <2>3, <3>2 DEF HandleServerRequest, Tell, AnswerToUnknown, TypeOK
    <3>4. QED BY <2>3, <3>1, <3>3 DEF HandleServerRequest, TypeOK, callVars
  <2>4. CASE ReadPumpEnds
    <3>1. fromCodex' \in Seq(Messages)
      BY <2>4 DEF ReadPumpEnds
    <3>2. QED BY <2>4, <3>1 DEF ReadPumpEnds, TypeOK, callVars, gateVars
  <2>5. QED BY <2>1, <2>2, <2>3, <2>4 DEF ReadPump
<1>2. Begun' = Begun /\ UNCHANGED <<nextID, id>>
  BY DEF ReadPump, HandleResponse, HandleNotification, HandleServerRequest,
         ReadPumpEnds, callVars, Begun
<1>3. QED BY <1>1, <1>2, NumbersKept

LEMMA GateType ==
  ASSUME TypeInv, NEW r \in Requests,
         Serve(r)
  PROVE  TypeInv'
<1> USE DEF TypeInv
<1>1. TypeOK'
  <2>1. CASE RefuseOther(r)
    BY <2>1 DEF RefuseOther, Tell, TypeOK, callVars, codexVars
  <2>2. CASE AnswerApproval(r)
    BY <2>2 DEF AnswerApproval, Tell, TypeOK, callVars, codexVars
  <2>3. CASE GateApproval(r)
    BY <2>3 DEF GateApproval, TypeOK, callVars, codexVars
  <2>4. CASE RefuseUndecodable(r)
    BY <2>4 DEF RefuseUndecodable, Tell, TypeOK, callVars, codexVars
  <2>5. QED BY <2>1, <2>2, <2>3, <2>4 DEF Serve, Goroutine
<1>2. Begun' = Begun /\ UNCHANGED <<nextID, id>>
  BY DEF Serve, Goroutine, RefuseOther, AnswerApproval, RefuseUndecodable,
         GateApproval, callVars, Begun
<1>3. QED BY <1>1, <1>2, NumbersKept

LEMMA CodexType ==
  ASSUME TypeInv, Codex
  PROVE  TypeInv'
<1> USE DEF TypeInv
<1>1. TypeOK'
  <2>1. CASE CodexAnswers
    <3>1. PICK a \in asked :
            /\ asked' = asked \ {a}
            /\ fromCodex' = Append(fromCodex,
                              [kind |-> "response", id |-> a.id, call |-> a.call])
            /\ answered' = answered \cup {a.call}
            /\ notedAt' = [notedAt EXCEPT ![a.call] = noted]
      BY <2>1 DEF CodexAnswers
    <3>2. a \in Entries /\ a.call \in Calls
      BY DEF TypeOK, Entries
    <3>3. [kind |-> "response", id |-> a.id, call |-> a.call] \in Messages
      BY <3>2 DEF Entries, Messages
    <3>4. fromCodex' \in Seq(Messages)
      BY <3>1, <3>3, Sent
    <3>5. QED BY <2>1, <3>1, <3>2, <3>4 DEF CodexAnswers, TypeOK, callVars, gateVars
  <2>2. CASE CodexNotifies
    <3>1. [kind |-> "note"] \in Messages
      BY DEF Messages
    <3>2. fromCodex' \in Seq(Messages)
      BY <2>2, <3>1, Sent DEF CodexNotifies
    <3>3. QED BY <2>2, <3>2 DEF CodexNotifies, TypeOK, callVars, gateVars
  <2>3. ASSUME NEW r \in Requests, CodexRequests(r) PROVE TypeOK'
    <3>1. [kind |-> "request", req |-> r] \in Messages
      BY DEF Messages
    <3>2. fromCodex' \in Seq(Messages)
      BY <2>3, <3>1, Sent DEF CodexRequests
    <3>3. QED BY <2>3, <3>2 DEF CodexRequests, TypeOK, callVars
  <2>4. QED BY <2>1, <2>2, <2>3 DEF Codex
<1>2. Begun' = Begun /\ UNCHANGED <<nextID, id>>
  BY DEF Codex, CodexAnswers, CodexNotifies, CodexRequests, callVars, Begun
<1>3. QED BY <1>1, <1>2, NumbersKept

LEMMA EndType ==
  ASSUME TypeInv, ContextEnds \/ ConnectionEnds \/ UNCHANGED vars
  PROVE  TypeInv'
<1> USE DEF TypeInv, vars, callVars, codexVars, gateVars
<1>1. TypeOK'
  <2>1. CASE ContextEnds
    BY <2>1, RpcAssumption DEF ContextEnds, TypeOK
  <2>2. CASE ConnectionEnds
    BY <2>2 DEF ConnectionEnds, TypeOK
  <2>3. CASE UNCHANGED vars
    BY <2>3 DEF TypeOK
  <2>4. QED BY <2>1, <2>2, <2>3
<1>2. Begun' = Begun /\ UNCHANGED <<nextID, id>>
  BY DEF ContextEnds, ConnectionEnds, Begun
<1>3. QED BY <1>1, <1>2, NumbersKept

LEMMA TypeNext == TypeInv /\ [Next]_vars => TypeInv'
BY BeginType, ContinueType, ReadPumpType, GateType, CodexType, EndType
   DEF Next, Call, Serve

LEMMA TypeAlways == Spec => []TypeInv
BY TypeInit, TypeNext, PTL DEF Spec

\* Every reachable state of RpcClient is of its type.
THEOREM TypeCorrect == Spec => []TypeOK
<1>1. TypeInv => TypeOK
  BY DEF TypeInv
<1>2. QED BY <1>1, TypeAlways, PTL
-----------------------------------------------------------------------------
(* Each call gets its own answer. *)

LEMMA CallInit == Init => CallInv
BY DEF Init, CallInv, OneNumberEach, NumbersMatch, OwnAnswer, InOrder, NoChannelLeaks,
       Begun

\* A step that moves no call, answers none and reads no answer.
LEMMA CallsKept ==
  ASSUME CallInv, UNCHANGED <<pc, id, pending, slot, outcome, answered>>,
         asked' \subseteq asked,
         \A i \in DOMAIN fromCodex' :
           fromCodex'[i].kind = "response" =>
             \E j \in DOMAIN fromCodex : fromCodex[j] = fromCodex'[i]
  PROVE  CallInv'
<1> USE DEF CallInv
<1>1. Begun' = Begun
  BY DEF Begun
<1>2. NumbersMatch'
  BY <1>1 DEF NumbersMatch
<1>3. OneNumberEach' /\ OwnAnswer' /\ InOrder' /\ NoChannelLeaks'
  BY <1>1 DEF OneNumberEach, OwnAnswer, InOrder, NoChannelLeaks
<1>4. QED BY <1>2, <1>3

LEMMA BeginCalls ==
  ASSUME TypeInv, CallInv, NEW c \in Calls, Begin(c)
  PROVE  CallInv'
<1> DEFINE n == nextID + 1
<1> USE DEF TypeInv, CallInv
<1>1. nextID \in Nat /\ \A b \in Begun : id[b] # n
  BY BegunCount
<1>2. /\ c \notin Begun /\ Begun' = Begun \cup {c}
      /\ pc'[c] = "registered" /\ id'[c] = n
      /\ \A b \in Calls \ {c} : pc'[b] = pc[b] /\ id'[b] = id[b]
  BY DEF Begin, FreshId, TypeOK, Begun
<1>3. UNCHANGED <<slot, outcome, asked, answered, fromCodex>>
  BY DEF Begin, codexVars
<1>4. answered \subseteq Begun /\ Begun \subseteq Calls
  BY DEF InOrder, Begun, TypeOK
<1>5. OneNumberEach'
  BY <1>1, <1>2, <1>4 DEF OneNumberEach
<1>6. NumbersMatch'
  BY <1>2, <1>3, <1>4 DEF NumbersMatch
<1>7. OwnAnswer' /\ InOrder'
  <2>1. OwnAnswer'
    BY <1>3 DEF OwnAnswer
  <2>2. \A b \in answered' : pc'[b] \in {"waiting", "returned"}
    BY <1>2, <1>3, <1>4 DEF InOrder
  <2>3. \A a \in asked' : pc'[a.call] \in {"waiting", "returned"}
    BY <1>2, <1>3, <1>4 DEF InOrder, NumbersMatch
  <2>4. \A b \in Calls : pc'[b] # "returned" => outcome'[b] = Unsettled
    <3>1. outcome[c] = Unsettled
      BY DEF InOrder, Begin
    <3>2. QED BY <1>2, <1>3, <3>1 DEF InOrder
  <2>5. QED BY <2>1, <2>2, <2>3, <2>4 DEF InOrder
<1>8. NoChannelLeaks'
  <2>1. \A p \in pending : p.call \in Begun
    BY DEF NoChannelLeaks, TypeOK, Entries, Begun
  <2>2. pending' = {p \in pending : p.id # n} \cup {[id |-> n, call |-> c]}
    BY DEF Begin, FreshId
  <2>3. QED BY <1>2, <1>4, <2>1, <2>2 DEF NoChannelLeaks
<1>9. QED BY <1>5, <1>6, <1>7, <1>8

LEMMA ReturnCalls ==
  ASSUME TypeInv, CallInv, NEW c \in Begun, NEW o, pc[c] \in {"registered", "waiting"},
         Return(c, o)
  PROVE  CallInv'
<1> USE DEF TypeInv, CallInv
<1>1. /\ c \in Calls /\ Begun' = Begun /\ pc'[c] = "returned" /\ slot'[c] = Unsettled
      /\ \A b \in Calls \ {c} :
           pc'[b] = pc[b] /\ slot'[b] = slot[b] /\ outcome'[b] = outcome[b]
      /\ UNCHANGED <<id, asked, answered, fromCodex>>
  BY DEF Return, TypeOK, Begun, codexVars
<1>2. OneNumberEach' /\ NumbersMatch'
  BY <1>1 DEF OneNumberEach, NumbersMatch
<1>3. OwnAnswer' /\ InOrder'
  <2>1. OwnAnswer'
    BY <1>1 DEF OwnAnswer
  <2>2. \A b \in answered : b \in Calls
    BY DEF TypeOK
  <2>3. \A a \in asked : a.call \in Calls
    BY DEF TypeOK, Entries
  <2>4. \A b \in answered' : pc'[b] \in {"waiting", "returned"}
    BY <1>1, <2>2 DEF InOrder
  <2>5. \A a \in asked' : pc'[a.call] \in {"waiting", "returned"}
    BY <1>1, <2>3 DEF InOrder
  <2>6. \A b \in Calls : pc'[b] # "returned" => outcome'[b] = Unsettled
    BY <1>1 DEF InOrder
  <2>7. QED BY <2>1, <2>4, <2>5, <2>6 DEF InOrder
<1>4. NoChannelLeaks'
  <2>1. pending' = {p \in pending : p.id # id[c]}
    BY DEF Return, DeletePending
  <2>2. \A p \in pending' : p \in pending /\ p.call \in Calls \ {c}
    BY <2>1 DEF NoChannelLeaks, TypeOK, Entries
  <2>3. QED BY <1>1, <2>2 DEF NoChannelLeaks
<1>5. QED BY <1>2, <1>3, <1>4

LEMMA ContinueCalls ==
  ASSUME TypeInv, CallInv, NEW c \in Calls, Continue(c)
  PROVE  CallInv'
<1> USE DEF TypeInv, CallInv
<1>1. CASE Write(c)
  <2>1. /\ c \in Begun \ answered /\ Begun' = Begun /\ pc[c] = "registered"
        /\ pc'[c] = "waiting" /\ \A b \in Calls \ {c} : pc'[b] = pc[b]
        /\ asked' \subseteq asked \cup {[id |-> id[c], call |-> c]}
        /\ UNCHANGED <<id, pending, slot, outcome, answered, fromCodex>>
    BY <1>1 DEF Write, TypeOK, Begun, InOrder
  <2>2. OneNumberEach' /\ NumbersMatch'
    BY <2>1 DEF OneNumberEach, NumbersMatch
  <2>3. OwnAnswer' /\ InOrder'
    <3>1. OwnAnswer'
      BY <2>1 DEF OwnAnswer
    <3>2. \A b \in answered' : pc'[b] \in {"waiting", "returned"}
      BY <2>1 DEF InOrder, TypeOK
    <3>3. \A a \in asked' : a.call = c \/ (a \in asked /\ a.call \in Calls)
      BY <2>1 DEF TypeOK, Entries
    <3>4. \A a \in asked' : pc'[a.call] \in {"waiting", "returned"}
      BY <2>1, <3>3 DEF InOrder
    <3>5. \A b \in Calls : pc'[b] # "returned" => outcome'[b] = Unsettled
      BY <2>1 DEF InOrder
    <3>6. QED BY <3>1, <3>2, <3>4, <3>5 DEF InOrder
  <2>4. NoChannelLeaks'
    BY <2>1 DEF NoChannelLeaks, TypeOK, Entries
  <2>5. QED BY <2>2, <2>3, <2>4
<1>2. ASSUME NEW o, Return(c, o), pc[c] \in {"registered", "waiting"} PROVE CallInv'
  BY <1>2, ReturnCalls DEF Begun
<1>3. QED
  BY <1>1, <1>2 DEF Continue, Select, WriteFails, Receive, GiveUp, SeeDone

LEMMA ResponseCalls ==
  ASSUME TypeInv, CallInv, HandleResponse
  PROVE  CallInv'
<1> USE DEF TypeInv, CallInv
<1>1. /\ message \in Messages /\ 1 \in DOMAIN fromCodex /\ message = fromCodex[1]
      /\ message.kind = "response"
      /\ \A i \in DOMAIN fromCodex' :
           i + 1 \in DOMAIN fromCodex /\ fromCodex'[i] = fromCodex[i + 1]
  BY ReadFirst DEF HandleResponse
<1>2. message.call \in answered /\ id[message.call] = message.id
  BY <1>1 DEF NumbersMatch
<1>3. \A p \in pending : p.id = message.id => p.call = message.call
  <2>1. \A p \in pending : p.call \in Begun /\ id[p.call] = p.id
    BY DEF NoChannelLeaks, TypeOK, Entries, Begun
  <2>2. message.call \in Begun
    BY <1>2 DEF InOrder, TypeOK, Begun
  <2>3. QED BY <1>2, <2>1, <2>2 DEF OneNumberEach
<1>4. /\ pending' \subseteq pending
      /\ slot' = [c \in Calls |->
                    IF \E p \in pending : p.id = message.id /\ p.call = c
                    THEN message.call ELSE slot[c]]
      /\ Begun' = Begun /\ UNCHANGED <<pc, id, outcome, asked, answered>>
  BY DEF HandleResponse, Begun
<1>5. OwnAnswer'
  BY <1>2, <1>3, <1>4 DEF OwnAnswer
<1>6. NumbersMatch'
  BY <1>1, <1>4 DEF NumbersMatch
<1>7. OneNumberEach' /\ InOrder' /\ NoChannelLeaks'
  BY <1>4 DEF OneNumberEach, InOrder, NoChannelLeaks
<1>8. QED BY <1>5, <1>6, <1>7

\* What else ReadPump reads is not an answer.
LEMMA ReadOtherCalls ==
  ASSUME TypeInv, CallInv, HandleNotification \/ HandleServerRequest \/ ReadPumpEnds
  PROVE  CallInv'
<1>1. \A i \in DOMAIN fromCodex' :
        \E j \in DOMAIN fromCodex : fromCodex[j] = fromCodex'[i]
  <2>1. CASE ReadPumpEnds
    BY <2>1 DEF ReadPumpEnds
  <2>2. CASE HandleNotification \/ HandleServerRequest
    BY <2>2, ReadFirst DEF TypeInv, HandleNotification, HandleServerRequest
  <2>3. QED BY <2>1, <2>2
<1>2. UNCHANGED <<pc, id, pending, slot, outcome, asked, answered>>
  BY DEF HandleNotification, HandleServerRequest, ReadPumpEnds, callVars
<1>3. QED BY <1>1, <1>2, CallsKept

LEMMA AnswerCalls ==
  ASSUME TypeInv, CallInv, CodexAnswers
  PROVE  CallInv'
<1> USE DEF TypeInv, CallInv
<1>1. PICK a \in asked :
        /\ asked' = asked \ {a}
        /\ fromCodex' = Append(fromCodex,
                          [kind |-> "response", id |-> a.id, call |-> a.call])
        /\ answered' = answered \cup {a.call}
  BY DEF CodexAnswers
<1>2. a.call \in Begun \ answered /\ id[a.call] = a.id /\ a \in Entries
  BY DEF NumbersMatch, TypeOK
<1>3. UNCHANGED <<pc, id, pending, slot, outcome>> /\ Begun' = Begun
  BY DEF CodexAnswers, callVars, Begun
<1>4. /\ DOMAIN fromCodex' = 1..(Len(fromCodex) + 1)
      /\ DOMAIN fromCodex = 1..Len(fromCodex) /\ Len(fromCodex) \in Nat
      /\ \A i \in DOMAIN fromCodex : fromCodex'[i] = fromCodex[i]
      /\ fromCodex'[Len(fromCodex) + 1] =
           [kind |-> "response", id |-> a.id, call |-> a.call]
  <2>1. [kind |-> "response", id |-> a.id, call |-> a.call] \in Messages
    BY <1>2 DEF Entries, Messages
  <2>2. QED BY <1>1, <2>1, Sent, QueueDomain
<1>5. NumbersMatch'
  <2>1. \A b \in asked' : b.call \in Begun' \ answered' /\ id'[b.call] = b.id
    <3>1. \A b \in asked : b.call = a.call => b = a
      <4> SUFFICES ASSUME NEW b \in asked, b.call = a.call PROVE b = a
        OBVIOUS
      <4>1. b.id = a.id
        BY <1>2 DEF NumbersMatch
      <4>2. b \in Entries
        BY DEF TypeOK
      <4>3. QED BY <1>2, <4>1, <4>2 DEF Entries
    <3>2. QED BY <1>1, <1>3, <3>1 DEF NumbersMatch
  <2>2. \A i \in DOMAIN fromCodex' :
          fromCodex'[i].kind = "response" =>
            fromCodex'[i].call \in answered' /\ id'[fromCodex'[i].call] = fromCodex'[i].id
    BY <1>1, <1>2, <1>3, <1>4 DEF NumbersMatch
  <2>3. QED BY <2>1, <2>2 DEF NumbersMatch
<1>6. InOrder'
  <2>1. pc[a.call] \in {"waiting", "returned"}
    BY DEF InOrder
  <2>2. QED BY <1>1, <1>3, <2>1 DEF InOrder
<1>7. OneNumberEach' /\ OwnAnswer' /\ NoChannelLeaks'
  BY <1>1, <1>3 DEF OneNumberEach, OwnAnswer, NoChannelLeaks
<1>8. QED BY <1>5, <1>6, <1>7

\* What else codex sends is not an answer.
LEMMA SendOtherCalls ==
  ASSUME TypeInv, CallInv, NEW m \in Messages, m.kind # "response",
         fromCodex' = Append(fromCodex, m),
         UNCHANGED <<pc, id, pending, slot, outcome, asked, answered>>
  PROVE  CallInv'
<1>1. \A i \in DOMAIN fromCodex' :
        fromCodex'[i].kind = "response" =>
          \E j \in DOMAIN fromCodex : fromCodex[j] = fromCodex'[i]
  <2>1. /\ DOMAIN fromCodex' = 1..(Len(fromCodex) + 1)
        /\ DOMAIN fromCodex = 1..Len(fromCodex) /\ Len(fromCodex) \in Nat
        /\ \A i \in DOMAIN fromCodex : fromCodex'[i] = fromCodex[i]
        /\ fromCodex'[Len(fromCodex) + 1] = m
    BY Sent, QueueDomain DEF TypeInv
  <2>2. QED BY <2>1
<1>2. QED BY <1>1, CallsKept

LEMMA OtherCalls ==
  ASSUME TypeInv, CallInv,
         \/ \E r \in Requests : Serve(r)
         \/ CodexNotifies \/ \E r \in Requests : CodexRequests(r)
         \/ ContextEnds \/ ConnectionEnds \/ UNCHANGED vars
  PROVE  CallInv'
<1> USE DEF callVars, codexVars, vars
<1>1. CASE \E r \in Requests : Serve(r)
  BY <1>1, CallsKept DEF Serve, Goroutine, RefuseOther, AnswerApproval, RefuseUndecodable,
              GateApproval
<1>2. CASE CodexNotifies
  <2>1. [kind |-> "note"] \in Messages
    BY DEF Messages
  <2>2. QED BY <1>2, <2>1, SendOtherCalls DEF CodexNotifies
<1>3. ASSUME NEW r \in Requests, CodexRequests(r) PROVE CallInv'
  <2>1. [kind |-> "request", req |-> r] \in Messages
    BY DEF Messages
  <2>2. QED BY <1>3, <2>1, SendOtherCalls DEF CodexRequests
<1>4. CASE ContextEnds \/ ConnectionEnds \/ UNCHANGED vars
  BY <1>4, CallsKept DEF ContextEnds, ConnectionEnds
<1>5. QED BY <1>1, <1>2, <1>3, <1>4

LEMMA CallNext == TypeInv /\ CallInv /\ [Next]_vars => CallInv'
BY BeginCalls, ContinueCalls, ResponseCalls, ReadOtherCalls, AnswerCalls, OtherCalls
   DEF Next, Call, ReadPump, Serve, Codex

LEMMA CallAlways == Spec => [](TypeInv /\ CallInv)
BY TypeInit, TypeNext, CallInit, CallNext, PTL DEF Spec

\* The table of pending calls holds the channels of calls in progress only.
THEOREM NoChannelLeaksAlways == Spec => []NoChannelLeaks
<1>1. CallInv => NoChannelLeaks
  BY DEF CallInv
<1>2. QED BY <1>1, CallAlways, PTL
-----------------------------------------------------------------------------
(* The client implements CallOutcomes. *)

\* A step of one call: it is made, goes on, or returns what it may return.
LEMMA CallImplements ==
  ASSUME TypeInv, CallInv, NEW c \in Calls, Call(c)
  PROVE  [Outcomes!Next]_Outcomes!vars
<1> USE DEF TypeInv, CallInv
<1>1. CASE Begin(c)
  <2>1. c \notin Begun /\ Begun' = Begun \cup {c}
    BY <1>1 DEF Begin, TypeOK, Begun
  <2>2. UNCHANGED <<answered, outcome>>
    BY <1>1 DEF Begin, codexVars
  <2>3. Outcomes!Ask(c)
    BY <2>1, <2>2 DEF Outcomes!Ask, Begun
  <2>4. QED BY <2>3 DEF Outcomes!Next
<1>2. CASE Write(c)
  <2>1. Begun' = Begun /\ UNCHANGED <<answered, outcome>>
    BY <1>2 DEF Write, TypeOK, Begun
  <2>2. QED BY <2>1 DEF Outcomes!vars, Begun
<1>3. ASSUME NEW o \in {Failed} \cup ({c} \cap answered), Return(c, o),
             pc[c] \in {"registered", "waiting"}
      PROVE  [Outcomes!Next]_Outcomes!vars
  <2>1. c \in Begun /\ Begun' = Begun /\ answered' = answered
    BY <1>3 DEF Return, TypeOK, Begun, codexVars
  <2>2. outcome[c] = Unsettled /\ outcome' = [outcome EXCEPT ![c] = o]
    BY <1>3 DEF Return, InOrder
  <2>3. Outcomes!Settle(c)
    BY <2>1, <2>2 DEF Outcomes!Settle, Begun
  <2>4. QED BY <2>3 DEF Outcomes!Next
<1>4. CASE Receive(c)
  <2>1. slot[c] \in {c} \cap answered
    BY <1>4 DEF Receive, OwnAnswer
  <2>2. QED BY <1>3, <1>4, <2>1 DEF Receive
<1>5. CASE WriteFails(c) \/ GiveUp(c) \/ SeeDone(c)
  BY <1>3, <1>5 DEF WriteFails, GiveUp, SeeDone
<1>6. QED BY <1>1, <1>2, <1>4, <1>5 DEF Call, Continue, Select

LEMMA AnswerImplements ==
  ASSUME TypeInv, CallInv, CodexAnswers
  PROVE  [Outcomes!Next]_Outcomes!vars
<1>1. PICK a \in asked : answered' = answered \cup {a.call}
  BY DEF CodexAnswers
<1>2. a.call \in Calls /\ a.call \in Begun \ answered
  BY DEF TypeInv, TypeOK, Entries, CallInv, NumbersMatch
<1>3. Begun' = Begun /\ outcome' = outcome
  BY DEF CodexAnswers, callVars, Begun
<1>4. Outcomes!Answer(a.call)
  BY <1>1, <1>2, <1>3 DEF Outcomes!Answer, Begun
<1>5. QED BY <1>2, <1>4 DEF Outcomes!Next

LEMMA OtherStutters ==
  ASSUME \/ ReadPump \/ \E r \in Requests : Serve(r)
         \/ CodexNotifies \/ \E r \in Requests : CodexRequests(r)
         \/ ContextEnds \/ ConnectionEnds \/ UNCHANGED vars
  PROVE  UNCHANGED Outcomes!vars
<1>1. UNCHANGED <<pc, answered, outcome>>
  <2> USE DEF callVars, codexVars, vars
  <2>1. CASE ReadPump
    BY <2>1 DEF ReadPump, HandleResponse, HandleNotification, HandleServerRequest,
                ReadPumpEnds
  <2>2. CASE \E r \in Requests : Serve(r)
    BY <2>2 DEF Serve, Goroutine, RefuseOther, AnswerApproval, RefuseUndecodable,
              GateApproval
  <2>3. CASE CodexNotifies \/ \E r \in Requests : CodexRequests(r)
    BY <2>3 DEF CodexNotifies, CodexRequests
  <2>4. CASE ContextEnds \/ ConnectionEnds \/ UNCHANGED vars
    BY <2>4 DEF ContextEnds, ConnectionEnds
  <2>5. QED BY <2>1, <2>2, <2>3, <2>4
<1>2. QED BY <1>1 DEF Outcomes!vars

LEMMA InitImplements == Init => Outcomes!Init
BY DEF Init, Outcomes!Init

LEMMA NextImplements ==
  TypeInv /\ CallInv /\ [Next]_vars => [Outcomes!Next]_Outcomes!vars
BY CallImplements, AnswerImplements, OtherStutters DEF Next, Serve, Codex

\* Whatever gives up, is answered late or is answered out of turn, a call returns
\* once, with codex's answer to that call or with an error.
THEOREM CallsAlwaysImplemented == Spec => CallsImplemented
BY InitImplements, NextImplements, CallAlways, PTL
   DEF Spec, CallsImplemented, Outcomes!Spec
-----------------------------------------------------------------------------
(* Codex is told what the server decided. *)

LEMMA GateInit == Init => GateInv
BY DEF Init, GateInv, QueuedOnce, Decided, DecisionIsTheServers, Requests

\* Each queued request is one of codex's.
LEMMA QueuedRequest ==
  ASSUME TypeOK, NEW i \in DOMAIN fromCodex, fromCodex[i].kind = "request"
  PROVE  fromCodex[i].req \in Requests
<1>1. fromCodex[i] \in Messages
  BY DEF TypeOK
<1>2. QED BY <1>1 DEF Messages

\* A step that leaves the queue alone, and the requests in it.
LEMMA QueueKept ==
  ASSUME TypeOK, QueuedOnce, UNCHANGED fromCodex,
         \A r \in Requests : stage[r] = "sent" => stage'[r] = "sent"
  PROVE  QueuedOnce'
BY QueuedRequest DEF QueuedOnce

\* A step that reads the first message.
LEMMA QueueRead ==
  ASSUME TypeOK, QueuedOnce, fromCodex # <<>>, fromCodex' = Tail(fromCodex),
         \A r \in Requests :
           stage[r] = "sent" =>
             stage'[r] = "sent" \/ (message.kind = "request" /\ message.req = r)
  PROVE  QueuedOnce'
<1>1. /\ 1 \in DOMAIN fromCodex /\ message = fromCodex[1]
      /\ \A i \in DOMAIN fromCodex' :
           i + 1 \in DOMAIN fromCodex \ {1} /\ fromCodex'[i] = fromCodex[i + 1]
      /\ DOMAIN fromCodex' \subseteq Nat
  BY ReadFirst
<1>2. ASSUME NEW i \in DOMAIN fromCodex', fromCodex'[i].kind = "request"
      PROVE  /\ stage'[fromCodex'[i].req] = "sent"
             /\ \A j \in DOMAIN fromCodex' :
                  fromCodex'[j].kind = "request" /\ fromCodex'[j].req = fromCodex'[i].req
                    => i = j
  <2> DEFINE r == fromCodex[i + 1].req
  <2>1. /\ i + 1 \in DOMAIN fromCodex /\ i + 1 # 1 /\ fromCodex'[i] = fromCodex[i + 1]
        /\ fromCodex[i + 1].kind = "request" /\ i \in Nat
    BY <1>1, <1>2
  <2>2. r \in Requests /\ stage[r] = "sent"
    BY <2>1, QueuedRequest DEF QueuedOnce
  <2>3. ~(message.kind = "request" /\ message.req = r)
    BY <1>1, <2>1 DEF QueuedOnce
  <2>4. stage'[r] = "sent"
    BY <2>2, <2>3
  <2>5. ASSUME NEW j \in DOMAIN fromCodex',
               fromCodex'[j].kind = "request", fromCodex'[j].req = r
        PROVE  i = j
    <3>1. /\ j + 1 \in DOMAIN fromCodex /\ fromCodex'[j] = fromCodex[j + 1]
          /\ j \in Nat
      BY <1>1
    <3>2. i + 1 = j + 1
      BY <2>1, <2>5, <3>1 DEF QueuedOnce
    <3>3. QED BY <2>1, <3>1, <3>2
  <2>6. QED BY <2>1, <2>4, <2>5
<1>3. QED BY <1>2 DEF QueuedOnce

\* A step that sends a message, a request that was not sent before if it is one.
LEMMA QueueSent ==
  ASSUME TypeOK, QueuedOnce, NEW m \in Messages, fromCodex' = Append(fromCodex, m),
         \A r \in Requests : stage[r] = "sent" => stage'[r] = "sent",
         m.kind = "request" => stage[m.req] # "sent" /\ stage'[m.req] = "sent"
  PROVE  QueuedOnce'
<1> DEFINE last == Len(fromCodex) + 1
<1>1. /\ DOMAIN fromCodex' = 1..last /\ DOMAIN fromCodex = 1..Len(fromCodex)
      /\ Len(fromCodex) \in Nat
      /\ \A i \in DOMAIN fromCodex : fromCodex'[i] = fromCodex[i]
      /\ fromCodex'[last] = m
  BY Sent, QueueDomain
<1>2. ASSUME NEW i \in DOMAIN fromCodex', fromCodex'[i].kind = "request"
      PROVE  stage'[fromCodex'[i].req] = "sent"
  <2>1. CASE i = last
    BY <1>1, <1>2, <2>1
  <2>2. CASE i # last
    <3>1. i \in DOMAIN fromCodex /\ fromCodex'[i] = fromCodex[i]
      BY <1>1, <2>2
    <3>2. QED BY <1>2, <3>1, QueuedRequest DEF QueuedOnce
  <2>3. QED BY <2>1, <2>2
<1>3. ASSUME NEW i \in DOMAIN fromCodex', NEW j \in DOMAIN fromCodex',
             fromCodex'[i].kind = "request", fromCodex'[j].kind = "request",
             fromCodex'[j].req = fromCodex'[i].req
      PROVE  i = j
  <2>1. ASSUME NEW k \in DOMAIN fromCodex', k # last, fromCodex'[k].kind = "request"
        PROVE  k \in DOMAIN fromCodex /\ stage[fromCodex'[k].req] = "sent"
    BY <1>1, <2>1 DEF QueuedOnce
  <2>2. CASE i = last \/ j = last
    BY <1>1, <1>3, <2>1, <2>2
  <2>3. CASE i # last /\ j # last
    BY <1>1, <1>3, <2>1, <2>3 DEF QueuedOnce
  <2>4. QED BY <2>2, <2>3
<1>4. QED BY <1>2, <1>3 DEF QueuedOnce

\* A step of codex, of a call or of the connection decides nothing.
LEMMA GateKept ==
  ASSUME Decided, DecisionIsTheServers, UNCHANGED gateVars
  PROVE  Decided' /\ DecisionIsTheServers'
BY DEF Decided, DecisionIsTheServers, gateVars

LEMMA ReadPumpGate ==
  ASSUME TypeInv, GateInv, ReadPump
  PROVE  GateInv'
<1> USE DEF TypeInv, GateInv
<1>1. CASE HandleResponse \/ HandleNotification
  <2>1. QueuedOnce'
    BY <1>1, QueueRead DEF HandleResponse, HandleNotification, gateVars
  <2>2. QED BY <1>1, <2>1, GateKept DEF HandleResponse, HandleNotification
<1>2. CASE HandleServerRequest
  <2> DEFINE r == message.req
  <2>1. message \in Messages /\ 1 \in DOMAIN fromCodex /\ message = fromCodex[1]
        /\ message.kind = "request"
    BY <1>2, ReadFirst DEF HandleServerRequest
  <2>2. r \in Requests /\ stage[r] = "sent"
    BY <2>1, QueuedRequest DEF QueuedOnce
  <2>3. /\ stage'[r] \in {"ended", "handling"}
        /\ told'[r] \in {told[r], "refuse"}
        /\ stage'[r] = "handling" => told'[r] = told[r]
        /\ told'[r] = "refuse" => r \in Others \/ told[r] = "refuse"
        /\ \A q \in Requests \ {r} : stage'[q] = stage[q] /\ told'[q] = told[q]
        /\ UNCHANGED <<verdict, event>>
    BY <1>2, <2>2 DEF HandleServerRequest, Tell, AnswerToUnknown, TypeOK
  <2>4. told[r] = "nothing" /\ verdict[r] = "none" /\ event[r] = "none"
    BY <2>2 DEF Decided
  <2>5. QueuedOnce'
    BY <1>2, <2>1, <2>3, QueueRead DEF HandleServerRequest
  <2>6. Decided'
    BY <2>3, <2>4 DEF Decided
  <2>7. DecisionIsTheServers'
    BY <2>3, <2>4, RpcAssumption DEF DecisionIsTheServers, Requests
  <2>8. QED BY <2>5, <2>6, <2>7
<1>3. CASE ReadPumpEnds
  <2>1. QueuedOnce'
    BY <1>3 DEF ReadPumpEnds, QueuedOnce
  <2>2. QED BY <1>3, <2>1, GateKept DEF ReadPumpEnds
<1>4. QED BY <1>1, <1>2, <1>3 DEF ReadPump

LEMMA ServeGate ==
  ASSUME TypeInv, GateInv, NEW r \in Requests,
         Serve(r)
  PROVE  GateInv'
<1> USE DEF TypeInv, GateInv
<1>1. /\ stage[r] \in {"handling", "decided"} /\ UNCHANGED fromCodex
      /\ \A q \in Requests \ {r} :
           /\ stage'[q] = stage[q] /\ told'[q] = told[q]
           /\ verdict'[q] = verdict[q] /\ event'[q] = event[q]
  BY DEF Serve, Goroutine, RefuseOther, AnswerApproval, RefuseUndecodable,
         GateApproval, Tell, codexVars, TypeOK
<1>2. told[r] = "nothing"
  BY <1>1 DEF Decided
<1>3. QueuedOnce'
  BY <1>1, QueueKept
<1>4. /\ stage'[r] # "ended" => told'[r] = "nothing"
      /\ stage'[r] \notin {"unsent", "sent", "handling"}
      /\ stage'[r] = "decided" =>
           /\ r \in Gated /\ verdict'[r] \in Verdicts
           /\ event'[r] = IF Approved(verdict'[r]) THEN "approved" ELSE "denied"
      /\ r \in Gated /\ told'[r] = "approve" =>
           verdict'[r] = "allow" /\ event'[r] = "approved"
      /\ r \in Gated /\ told'[r] = "refuse" =>
           event'[r] = IF verdict'[r] = "none" THEN "none" ELSE "denied"
  <2>1. CASE RefuseOther(r)
    BY <1>2, <2>1, RpcAssumption DEF RefuseOther, Tell, TypeOK
  <2>2. CASE RefuseUndecodable(r)
    BY <1>2, <2>2 DEF RefuseUndecodable, Tell, TypeOK, Decided
  <2>3. CASE GateApproval(r)
    BY <1>2, <2>3 DEF GateApproval, TypeOK
  <2>4. CASE AnswerApproval(r)
    <3>1. r \in Gated /\ verdict[r] \in Verdicts
          /\ event[r] = IF Approved(verdict[r]) THEN "approved" ELSE "denied"
      BY <2>4 DEF AnswerApproval, Decided
    <3>2. UNCHANGED <<verdict, event>> /\ stage'[r] = "ended"
          /\ told'[r] \in {"nothing", IF Approved(verdict[r]) THEN "approve" ELSE "refuse"}
      BY <1>2, <2>4 DEF AnswerApproval, Tell, TypeOK
    <3>3. QED BY <3>1, <3>2 DEF Approved, Verdicts
  <2>5. QED BY <2>1, <2>2, <2>3, <2>4 DEF Serve, Goroutine
<1>5. Decided'
  BY <1>1, <1>4 DEF Decided
<1>6. DecisionIsTheServers'
  BY <1>1, <1>4 DEF DecisionIsTheServers, Requests
<1>7. QED BY <1>3, <1>5, <1>6

LEMMA CodexGate ==
  ASSUME TypeInv, GateInv, Codex
  PROVE  GateInv'
<1> USE DEF TypeInv, GateInv
<1>1. CASE CodexAnswers
  <2>1. PICK a \in asked :
          fromCodex' = Append(fromCodex,
                         [kind |-> "response", id |-> a.id, call |-> a.call])
    BY <1>1 DEF CodexAnswers
  <2>2. [kind |-> "response", id |-> a.id, call |-> a.call] \in Messages
    BY DEF TypeOK, Entries, Messages
  <2>3. QueuedOnce'
    BY <1>1, <2>1, <2>2, QueueSent DEF CodexAnswers, gateVars
  <2>4. QED BY <1>1, <2>3, GateKept DEF CodexAnswers
<1>2. CASE CodexNotifies
  <2>1. [kind |-> "note"] \in Messages
    BY DEF Messages
  <2>2. QueuedOnce'
    BY <1>2, <2>1, QueueSent DEF CodexNotifies, gateVars
  <2>3. QED BY <1>2, <2>2, GateKept DEF CodexNotifies
<1>3. ASSUME NEW r \in Requests, CodexRequests(r) PROVE GateInv'
  <2>1. [kind |-> "request", req |-> r] \in Messages
    BY DEF Messages
  <2>2. stage[r] = "unsent" /\ stage' = [stage EXCEPT ![r] = "sent"]
        /\ UNCHANGED <<verdict, event, told>>
    BY <1>3 DEF CodexRequests
  <2>3. QueuedOnce'
    BY <1>3, <2>1, <2>2, QueueSent DEF CodexRequests, TypeOK
  <2>4. Decided'
    BY <2>2 DEF Decided, TypeOK
  <2>5. DecisionIsTheServers'
    BY <2>2 DEF DecisionIsTheServers
  <2>6. QED BY <2>3, <2>4, <2>5
<1>4. QED BY <1>1, <1>2, <1>3 DEF Codex

LEMMA OtherGate ==
  ASSUME TypeInv, GateInv,
         (\E c \in Calls : Call(c)) \/ ContextEnds \/ ConnectionEnds \/ UNCHANGED vars
  PROVE  GateInv'
<1>1. UNCHANGED <<fromCodex, gateVars>>
  <2> USE DEF codexVars, vars
  <2>1. CASE \E c \in Calls : Call(c)
    BY <2>1 DEF Call, Continue, Select, Begin, Write, WriteFails, Receive, GiveUp,
                SeeDone, Return
  <2>2. CASE ContextEnds \/ ConnectionEnds \/ UNCHANGED vars
    BY <2>2 DEF ContextEnds, ConnectionEnds
  <2>3. QED BY <2>1, <2>2
<1>2. QueuedOnce'
  BY <1>1, QueueKept DEF TypeInv, GateInv, gateVars
<1>3. QED BY <1>1, <1>2, GateKept DEF GateInv

LEMMA GateNext == TypeInv /\ GateInv /\ [Next]_vars => GateInv'
BY ReadPumpGate, ServeGate, CodexGate, OtherGate DEF Next, Serve

\* Codex is told to go ahead only when bridge-server allowed that very request, and
\* what it is told is what the event said before.
THEOREM DecisionAlwaysTheServers == Spec => []DecisionIsTheServers
<1>1. GateInv => DecisionIsTheServers
  BY DEF GateInv
<1>2. QED BY <1>1, TypeInit, TypeNext, GateInit, GateNext, PTL DEF Spec
-----------------------------------------------------------------------------
(* What was sent before the answer to a call is handled before it.         *)

IsNote(m) == IF m.kind = "note" THEN 1 ELSE 0

\* counts[i] is what handled will be once the first i messages on their way are
\* read.  Codex has sent no more notifications, and an answer on its way is at its
\* place among them.
Counted(counts) ==
  /\ counts[0] = handled /\ (conn = "open" => counts[Len(fromCodex)] = noted)
  /\ \A i \in 1..Len(fromCodex) :
       /\ counts[i] = counts[i - 1] + IsNote(fromCodex[i])
       /\ fromCodex[i].kind = "response" => notedAt[fromCodex[i].call] <= counts[i]

NoteInv ==
  /\ \E counts \in [Nat -> Nat] : Counted(counts)
  /\ \A c \in Calls :
       c \in {slot[c], outcome[c]} => c \in answered /\ notedAt[c] <= handled

LEMMA NoteInit == Init => NoteInv
<1> SUFFICES ASSUME Init PROVE NoteInv
  OBVIOUS
<1>1. fromCodex = <<>> /\ Len(fromCodex) = 0 /\ handled = 0 /\ noted = 0
  BY DEF Init
<1> DEFINE counts == [i \in Nat |-> 0]
<1>2. counts \in [Nat -> Nat] /\ Counted(counts)
  BY <1>1 DEF Counted
<1>3. \A c \in Calls : c \notin {slot[c], outcome[c]}
  BY RpcAssumption DEF Init
<1>4. QED BY <1>1, <1>2, <1>3 DEF NoteInv

\* A step that sends and reads nothing.
LEMMA NotesKept ==
  ASSUME NoteInv, UNCHANGED <<fromCodex, answered, noted, notedAt, handled>>,
         conn' \in {conn, "closed"},
         \A c \in Calls : c \in {slot'[c], outcome'[c]} => c \in {slot[c], outcome[c]}
  PROVE  NoteInv'
<1>1. PICK counts \in [Nat -> Nat] : Counted(counts)
  BY DEF NoteInv
<1>2. Counted(counts)'
  BY <1>1 DEF Counted, IsNote
<1>3. QED BY <1>1, <1>2 DEF NoteInv

LEMMA ReturnNotes ==
  ASSUME TypeInv, NoteInv, NEW c \in Calls, NEW o \in {slot[c], Failed}, Return(c, o)
  PROVE  NoteInv'
<1>1. \A b \in Calls :
        /\ b # c => slot'[b] = slot[b] /\ outcome'[b] = outcome[b]
        /\ b = c => slot'[b] = Unsettled /\ outcome'[b] = o
  BY DEF Return, TypeInv, TypeOK
<1>2. \A b \in Calls : b \in {slot'[b], outcome'[b]} => b \in {slot[b], outcome[b]}
  BY <1>1, RpcAssumption
<1>3. QED BY <1>2, NotesKept DEF Return, codexVars

LEMMA OtherNotes ==
  ASSUME TypeInv, NoteInv,
         \/ \E c \in Calls : Call(c)
         \/ \E r \in Requests : Serve(r)
         \/ ContextEnds \/ ConnectionEnds \/ UNCHANGED vars
  PROVE  NoteInv'
<1> USE DEF callVars, codexVars, vars
<1>1. ASSUME NEW c \in Calls, Begin(c) \/ Write(c) PROVE NoteInv'
  BY <1>1, NotesKept DEF Begin, Write
<1>2. ASSUME NEW c \in Calls, WriteFails(c) \/ Select(c) PROVE NoteInv'
  BY <1>2, ReturnNotes DEF WriteFails, Select, Receive, GiveUp, SeeDone
<1>3. ASSUME NEW r \in Requests, Serve(r) PROVE NoteInv'
  BY <1>3, NotesKept DEF Serve, Goroutine, RefuseOther, AnswerApproval, RefuseUndecodable,
              GateApproval
<1>4. CASE ContextEnds \/ ConnectionEnds \/ UNCHANGED vars
  BY <1>4, NotesKept DEF ContextEnds, ConnectionEnds
<1>5. QED BY <1>1, <1>2, <1>3, <1>4 DEF Call, Continue

\* The first message is read.
ReadsMessage ==
  /\ fromCodex # <<>> /\ fromCodex' = Tail(fromCodex)
  /\ handled' = handled + IsNote(message)
  /\ UNCHANGED <<answered, noted, notedAt, conn, outcome>>
  /\ \A c \in Calls : slot'[c] = c =>
       slot[c] = c \/ (message.kind = "response" /\ message.call = c)

LEMMA ReadNotes ==
  ASSUME TypeInv, CallInv, NoteInv, ReadsMessage
  PROVE  NoteInv'
<1>1. PICK counts \in [Nat -> Nat] : Counted(counts)
  BY DEF NoteInv
<1>2. fromCodex \in Seq(Messages) /\ handled \in Nat /\ notedAt \in [Calls -> Nat]
  BY DEF TypeInv, TypeOK
<1>3. /\ Len(fromCodex) \in Nat \ {0} /\ DOMAIN fromCodex = 1..Len(fromCodex)
      /\ Len(fromCodex') = Len(fromCodex) - 1
      /\ \A i \in 1..Len(fromCodex') : fromCodex'[i] = fromCodex[i + 1]
      /\ message = fromCodex[1]
  BY <1>2, EmptySeq, HeadTailProperties, LenProperties DEF ReadsMessage, message
<1>4. PICK l \in Nat : Len(fromCodex') = l /\ Len(fromCodex) = l + 1
  <2>1. PICK n \in Nat \ {0} : n = Len(fromCodex)
    BY <1>3
  <2>2. n - 1 \in Nat /\ n = (n - 1) + 1
    OBVIOUS
  <2>3. QED BY <1>3, <2>1, <2>2
<1>5. counts[1] = handled' /\ handled \in Nat /\ handled' \in Nat /\ handled <= handled'
  <2>1. 1 \in 1..Len(fromCodex) /\ 1 - 1 = 0
    BY <1>4
  <2>2. counts[1] = counts[0] + IsNote(message) /\ counts[0] = handled
    BY <1>1, <1>3, <2>1 DEF Counted
  <2>3. handled' = counts[1]
    BY <2>2 DEF ReadsMessage
  <2>4. handled <= counts[1] /\ counts[1] \in Nat
    BY <1>1, <1>2, <2>2 DEF IsNote
  <2>5. QED BY <1>2, <2>3, <2>4
<1> DEFINE rest == [i \in Nat |-> counts[i + 1]]
<1>6. rest \in [Nat -> Nat] /\ \A i \in Nat : rest[i] = counts[i + 1]
  BY <1>1
<1> HIDE DEF rest
<1>7. rest[0] = handled'
  BY <1>5, <1>6
<1>8. conn' = "open" => rest[Len(fromCodex')] = noted'
  <2>1. conn' = conn /\ noted' = noted
    BY DEF ReadsMessage
  <2>2. rest[l] = counts[l + 1]
    BY <1>6
  <2>3. QED BY <1>1, <1>4, <2>1, <2>2 DEF Counted
<1>9. ASSUME NEW i \in 1..l
      PROVE  /\ rest[i] = rest[i - 1] + IsNote(fromCodex'[i])
             /\ fromCodex'[i].kind = "response" => notedAt[fromCodex'[i].call] <= rest[i]
  <2>1. i + 1 \in 1..Len(fromCodex) /\ (i + 1) - 1 = i /\ i \in Nat /\ i - 1 \in Nat
        /\ (i - 1) + 1 = i
    BY <1>4
  <2>2. rest[i] = counts[i + 1] /\ rest[i - 1] = counts[i]
    BY <1>6, <2>1
  <2>3. fromCodex'[i] = fromCodex[i + 1]
    BY <1>3, <1>4
  <2>4. /\ counts[i + 1] = counts[i] + IsNote(fromCodex[i + 1])
        /\ fromCodex[i + 1].kind = "response" =>
             notedAt[fromCodex[i + 1].call] <= counts[i + 1]
    BY <1>1, <2>1 DEF Counted
  <2>5. QED BY <2>2, <2>3, <2>4
<1>10. notedAt' = notedAt /\ answered' = answered /\ outcome' = outcome
  BY DEF ReadsMessage
<1>11. Counted(rest)'
  BY <1>4, <1>7, <1>8, <1>9, <1>10 DEF Counted, IsNote
<1>12. ASSUME NEW c \in Calls, c \in {slot'[c], outcome'[c]}
       PROVE  c \in answered /\ notedAt[c] <= handled'
  <2>1. CASE c \in {slot[c], outcome[c]}
    <3>1. c \in answered /\ notedAt[c] <= handled
      BY <2>1 DEF NoteInv
    <3>2. notedAt[c] \in Nat
      BY <1>2
    <3>3. QED BY <1>5, <3>1, <3>2
  <2>2. CASE message.kind = "response" /\ message.call = c
    <3>1. 1 \in 1..Len(fromCodex) /\ 1 \in DOMAIN fromCodex
      BY <1>3, <1>4
    <3>2. notedAt[c] <= counts[1]
      BY <1>1, <1>3, <2>2, <3>1 DEF Counted
    <3>3. c \in answered
      BY <1>3, <2>2, <3>1 DEF CallInv, NumbersMatch
    <3>4. QED BY <1>5, <3>2, <3>3
  <2>3. QED BY <1>10, <1>12, <2>1, <2>2 DEF ReadsMessage
<1>13. QED BY <1>6, <1>10, <1>11, <1>12 DEF NoteInv

LEMMA ReadPumpNotes ==
  ASSUME TypeInv, CallInv, NoteInv, ReadPump
  PROVE  NoteInv'
<1>1. handled \in Nat
  BY DEF TypeInv, TypeOK
<1>2. ASSUME ReadsMessage PROVE NoteInv'
  BY <1>2, ReadNotes
<1>3. CASE HandleResponse
  <2>1. handled' = handled + IsNote(message)
    BY <1>1, <1>3 DEF HandleResponse, IsNote
  <2>2. \A c \in Calls : slot'[c] = c =>
          slot[c] = c \/ (message.kind = "response" /\ message.call = c)
    BY <1>3 DEF HandleResponse
  <2>3. QED BY <1>2, <1>3, <2>1, <2>2 DEF HandleResponse, ReadsMessage
<1>4. CASE HandleNotification
  <2>1. handled' = handled + IsNote(message)
    BY <1>4 DEF HandleNotification, HandledAfter, IsNote
  <2>2. QED BY <1>2, <1>4, <2>1 DEF HandleNotification, callVars, ReadsMessage
<1>5. CASE HandleServerRequest
  <2>1. handled' = handled + IsNote(message)
    BY <1>1, <1>5 DEF HandleServerRequest, IsNote
  <2>2. QED BY <1>2, <1>5, <2>1 DEF HandleServerRequest, callVars, ReadsMessage
<1>6. CASE ReadPumpEnds
  <2>1. fromCodex' = <<>> /\ Len(fromCodex') = 0 /\ conn' = "closed"
        /\ UNCHANGED <<slot, outcome, answered, notedAt, handled>>
    BY <1>6 DEF ReadPumpEnds, callVars
  <2> DEFINE counts == [i \in Nat |-> handled]
  <2>2. counts \in [Nat -> Nat] /\ Counted(counts)'
    BY <1>1, <2>1 DEF Counted
  <2>3. QED BY <2>1, <2>2 DEF NoteInv
<1>7. QED BY <1>3, <1>4, <1>5, <1>6 DEF ReadPump

\* Codex sends a message.
SendsMessage(m) ==
  /\ conn = "open" /\ fromCodex' = Append(fromCodex, m)
  /\ noted' = noted + IsNote(m)
  /\ \A c \in answered : c \in answered' /\ notedAt'[c] = notedAt[c]
  /\ m.kind = "response" => notedAt'[m.call] = noted
  /\ UNCHANGED <<slot, outcome, handled, conn>>

LEMMA SendNotes ==
  ASSUME TypeInv, CallInv, NoteInv, NEW m \in Messages, SendsMessage(m)
  PROVE  NoteInv'
<1>1. PICK counts \in [Nat -> Nat] : Counted(counts)
  BY DEF NoteInv
<1>2. fromCodex \in Seq(Messages) /\ noted \in Nat
  BY DEF TypeInv, TypeOK
<1>3. PICK l \in Nat : l = Len(fromCodex)
  BY <1>2, LenProperties
<1>4. /\ DOMAIN fromCodex = 1..l /\ Len(fromCodex') = l + 1
      /\ \A i \in 1..l : fromCodex'[i] = fromCodex[i]
      /\ fromCodex'[l + 1] = m
  BY <1>2, <1>3, AppendProperties, LenProperties DEF SendsMessage
<1>5. PICK n \in Nat : n = noted + IsNote(m) /\ noted <= n /\ noted' = n
  <2>1. noted' = noted + IsNote(m)
    BY DEF SendsMessage
  <2>2. noted + IsNote(m) \in Nat /\ noted <= noted + IsNote(m)
    BY <1>2 DEF IsNote
  <2>3. QED BY <2>1, <2>2
<1> DEFINE more == [counts EXCEPT ![l + 1] = n]
<1>6. /\ more \in [Nat -> Nat] /\ more[l + 1] = n
      /\ \A i \in 0..l : more[i] = counts[i]
  <2>1. \A i \in 0..l : i \in Nat /\ i # l + 1
    OBVIOUS
  <2>2. QED BY <1>1, <1>5, <2>1
<1> HIDE DEF more
<1>7. counts[l] = noted
  BY <1>1, <1>3 DEF Counted, SendsMessage
<1>8. ASSUME NEW i \in 1..l + 1
      PROVE  /\ more[i] = more[i - 1] + IsNote(fromCodex'[i])
             /\ fromCodex'[i].kind = "response" => notedAt'[fromCodex'[i].call] <= more[i]
  <2>1. CASE i \in 1..l
    <3>1. i \in 0..l /\ i - 1 \in 0..l
      BY <2>1
    <3>2. more[i] = counts[i] /\ more[i - 1] = counts[i - 1]
      BY <1>6, <3>1
    <3>3. fromCodex'[i] = fromCodex[i]
      BY <1>4, <2>1
    <3>4. fromCodex[i].kind = "response" =>
            notedAt'[fromCodex[i].call] = notedAt[fromCodex[i].call]
      BY <1>4, <2>1 DEF CallInv, NumbersMatch, SendsMessage
    <3>5. QED BY <1>1, <1>3, <2>1, <3>2, <3>3, <3>4 DEF Counted
  <2>2. CASE i = l + 1
    <3>1. l \in 0..l /\ i - 1 = l
      BY <2>2
    <3>2. more[i] = n /\ more[i - 1] = noted /\ fromCodex'[i] = m
      BY <1>4, <1>6, <1>7, <2>2, <3>1
    <3>3. m.kind = "response" => notedAt'[m.call] = noted
      BY DEF SendsMessage
    <3>4. QED BY <1>5, <3>2, <3>3
  <2>3. QED BY <2>1, <2>2
<1>9. more[0] = handled' /\ more[l + 1] = noted'
  <2>1. more[0] = counts[0] /\ counts[0] = handled
    BY <1>1, <1>6 DEF Counted
  <2>2. QED BY <1>5, <1>6, <2>1 DEF SendsMessage
<1>10. Counted(more)'
  BY <1>4, <1>8, <1>9 DEF Counted, IsNote
<1>11. \A c \in Calls : c \in {slot'[c], outcome'[c]} => c \in answered' /\ notedAt'[c] <= handled'
  BY DEF NoteInv, SendsMessage
<1>12. QED BY <1>6, <1>10, <1>11 DEF NoteInv

LEMMA CodexNotes ==
  ASSUME TypeInv, CallInv, NoteInv, Codex
  PROVE  NoteInv'
<1>1. noted \in Nat /\ notedAt \in [Calls -> Nat]
  BY DEF TypeInv, TypeOK
<1>2. CASE CodexAnswers
  <2>1. PICK a \in asked :
          /\ fromCodex' = Append(fromCodex,
                            [kind |-> "response", id |-> a.id, call |-> a.call])
          /\ answered' = answered \cup {a.call}
          /\ notedAt' = [notedAt EXCEPT ![a.call] = noted]
    BY <1>2 DEF CodexAnswers
  <2>2. PICK m : m = [kind |-> "response", id |-> a.id, call |-> a.call]
    OBVIOUS
  <2>3. a \in Entries /\ a.call \in Calls \ answered
    BY DEF TypeInv, TypeOK, CallInv, NumbersMatch, Entries
  <2>4. m \in Messages /\ m.kind = "response" /\ m.call = a.call /\ IsNote(m) = 0
    BY <2>2, <2>3 DEF Entries, Messages, IsNote
  <2>5. /\ \A c \in answered : c \in answered' /\ notedAt'[c] = notedAt[c]
        /\ notedAt'[m.call] = noted
    BY <1>1, <2>1, <2>3, <2>4
  <2>6. noted' = noted + IsNote(m)
    BY <1>1, <1>2, <2>4 DEF CodexAnswers
  <2>7. SendsMessage(m)
    BY <1>2, <2>1, <2>2, <2>5, <2>6 DEF SendsMessage, CodexAnswers, CodexMaySend, callVars
  <2>8. QED BY <2>4, <2>7, SendNotes
<1>3. CASE CodexNotifies
  <2>1. PICK m : m = [kind |-> "note"]
    OBVIOUS
  <2>2. m \in Messages /\ m.kind = "note" /\ IsNote(m) = 1
    BY <2>1 DEF Messages, IsNote
  <2>3. SendsMessage(m)
    BY <1>3, <2>1, <2>2 DEF SendsMessage, CodexNotifies, CodexMaySend, callVars
  <2>4. QED BY <2>2, <2>3, SendNotes
<1>4. ASSUME NEW r \in Requests, CodexRequests(r) PROVE NoteInv'
  <2>1. PICK m : m = [kind |-> "request", req |-> r]
    OBVIOUS
  <2>2. m \in Messages /\ m.kind = "request" /\ IsNote(m) = 0
    BY <2>1 DEF Messages, IsNote
  <2>3. noted' = noted + IsNote(m)
    BY <1>1, <1>4, <2>2 DEF CodexRequests
  <2>4. SendsMessage(m)
    BY <1>4, <2>1, <2>2, <2>3 DEF SendsMessage, CodexRequests, CodexMaySend, callVars
  <2>5. QED BY <2>2, <2>4, SendNotes
<1>5. QED BY <1>2, <1>3, <1>4 DEF Codex

LEMMA NoteNext == TypeInv /\ CallInv /\ NoteInv /\ [Next]_vars => NoteInv'
BY ReadPumpNotes, CodexNotes, OtherNotes DEF Next, Serve

\* When a call returns codex's answer, the handlers of all the notifications codex
\* sent before it have run, for any number of calls and notifications.
THEOREM AnswerAlwaysAfterEarlier == Spec => []AnswerAfterEarlier
<1>1. NoteInv => AnswerAfterEarlier
  BY DEF NoteInv, AnswerAfterEarlier
<1>2. QED BY <1>1, CallAlways, NoteInit, NoteNext, PTL DEF Spec
=============================================================================
