--------------------------- MODULE TurnControlProofs ---------------------------
(***************************************************************************)
(* Theorems about TurnControl, for any number of turns, of subagent turns  *)
(* and of signals.                                                         *)
(***************************************************************************)
EXTENDS TurnControl, SequenceTheorems, TLAPS

\* Main is in startTurn only with a turn it requested.
TypeInv == TypeOK /\ (pc \in {"calling", "waiting"} => turn \in Turns)

\* codex knows of no turn, and reports the end of none, that main has not requested.
NotAhead ==
  \A t \in Turns : t > turn =>
    /\ t \notin ended \cup active
    /\ \A i \in DOMAIN wire : wire[i].kind = "ended" => wire[i].of # t
    /\ \A i \in DOMAIN toCodex : toCodex[i].by = "turn" => toCodex[i].turn # t

\* What the channel holds was put there since main requested its turn.
HeldIsFresh == turnDone # <<>> => Head(turnDone).at = turn

SignalInv == NotAhead /\ EndNotLost /\ HeldIsFresh /\ ReleaseIsFresh
-----------------------------------------------------------------------------
(* Queues. *)

LEMMA AppendKeeps ==
  ASSUME NEW S, NEW s \in Seq(S), NEW x \in S
  PROVE  /\ Append(s, x) \in Seq(S)
         /\ \A i \in DOMAIN Append(s, x) :
              Append(s, x)[i] = x \/ (i \in DOMAIN s /\ Append(s, x)[i] = s[i])
<1>1. /\ Append(s, x) \in Seq(S) /\ Len(Append(s, x)) = Len(s) + 1
      /\ \A i \in 1..Len(s) : Append(s, x)[i] = s[i]
      /\ Append(s, x)[Len(s) + 1] = x
  BY AppendProperties
<1>2. DOMAIN Append(s, x) = 1..(Len(s) + 1) /\ DOMAIN s = 1..Len(s) /\ Len(s) \in Nat
  BY <1>1
<1>3. QED BY <1>1, <1>2

LEMMA TailKeeps ==
  ASSUME NEW S, NEW s \in Seq(S), s # <<>>
  PROVE  /\ Head(s) \in S /\ 1 \in DOMAIN s /\ Head(s) = s[1]
         /\ Tail(s) \in Seq(S)
         /\ \A i \in DOMAIN Tail(s) : i + 1 \in DOMAIN s /\ Tail(s)[i] = s[i + 1]
<1>1. /\ Head(s) \in S /\ Tail(s) \in Seq(S) /\ Len(Tail(s)) = Len(s) - 1
      /\ \A i \in 1..Len(Tail(s)) : Tail(s)[i] = s[i + 1]
  BY HeadTailProperties
<1>2. Len(s) \in Nat \ {0} /\ DOMAIN s = 1..Len(s) /\ Head(s) = s[1]
  BY EmptySeq
<1>3. DOMAIN Tail(s) = 1..(Len(s) - 1)
  BY <1>1
<1>4. QED BY <1>1, <1>2, <1>3

\* A request is sent to codex.
LEMMA RequestSent ==
  ASSUME TypeOK, NEW to \in Callers, toCodex' = Append(toCodex, to)
  PROVE  /\ toCodex' \in Seq(Callers)
         /\ \A i \in DOMAIN toCodex' :
              toCodex'[i] = to \/ (i \in DOMAIN toCodex /\ toCodex'[i] = toCodex[i])
BY AppendKeeps DEF TypeOK

\* codex sends a message.
LEMMA MessageSent ==
  ASSUME TypeOK, NEW m \in Messages, wire' = Append(wire, m)
  PROVE  /\ wire' \in Seq(Messages)
         /\ \A i \in DOMAIN wire' :
              wire'[i] = m \/ (i \in DOMAIN wire /\ wire'[i] = wire[i])
BY AppendKeeps DEF TypeOK

\* ReadPump reads one.
LEMMA MessageRead ==
  ASSUME TypeOK, wire # <<>>, wire' = Tail(wire)
  PROVE  /\ Head(wire) \in Messages /\ 1 \in DOMAIN wire /\ Head(wire) = wire[1]
         /\ wire' \in Seq(Messages)
         /\ \A i \in DOMAIN wire' : i + 1 \in DOMAIN wire /\ wire'[i] = wire[i + 1]
BY TailKeeps DEF TypeOK

-----------------------------------------------------------------------------
(* Type correctness. *)

LEMMA TypeInit == Init => TypeInv
<1> SUFFICES ASSUME Init PROVE TypeInv
  OBVIOUS
<1>1. toCodex \in Seq(Callers) /\ wire \in Seq(Messages)
  BY DEF Init
<1>2. turn \in 0..MaxTurns /\ sigs \in 0..MaxSignals
  BY TurnAssumption DEF Init
<1>3. QED BY <1>1, <1>2 DEF Init, TypeInv, TypeOK

LEMMA RequestsType ==
  ASSUME TypeInv, Requests
  PROVE  TypeInv'
<1> USE TurnAssumption DEF TypeInv, sigVars, codexVars, history
<1>1. CASE StartTurn
  <2>1. turn + 1 \in Turns /\ turn' = turn + 1 /\ TurnStart(turn + 1) \in Callers
    BY <1>1 DEF StartTurn, TypeOK, Turns, TurnStart, Callers
  <2>2. toCodex' \in Seq(Callers)
    <3>1. CASE conn
      BY <1>1, <2>1, <3>1, RequestSent DEF StartTurn
    <3>2. CASE ~conn
      BY <1>1, <3>2 DEF StartTurn, TypeOK
    <3>3. QED BY <3>1, <3>2
  <2>3. TypeOK'
    BY <1>1, <2>1, <2>2 DEF StartTurn, Drain, TypeOK, Turns
  <2>4. QED BY <2>1, <2>3
<1>2. CASE ControlInterrupt
  <2>1. TurnInterrupt("control") \in Callers
    BY DEF TurnInterrupt, Callers, Interrupters
  <2>2. toCodex' \in Seq(Callers)
    BY <1>2, <2>1, RequestSent DEF ControlInterrupt
  <2>3. QED BY <1>2, <2>2 DEF ControlInterrupt, TypeOK
<1>3. CASE StdinCloses
  <2>1. TurnInterrupt("shutdown") \in Callers
    BY DEF TurnInterrupt, Callers, Interrupters
  <2>2. toCodex' \in Seq(Callers)
    <3>1. CASE conn
      BY <1>3, <2>1, <3>1, RequestSent DEF StdinCloses
    <3>2. CASE ~conn
      BY <1>3, <3>2 DEF StdinCloses, TypeOK
    <3>3. QED BY <3>1, <3>2
  <2>3. QED BY <1>3, <2>2 DEF StdinCloses, TypeOK
<1>4. QED BY <1>1, <1>2, <1>3 DEF Requests

LEMMA MainStepType ==
  ASSUME TypeInv, MainStep \/ TurnTimesOut
  PROVE  TypeInv'
<1> USE DEF TypeInv, sigVars, netVars, codexVars, history
<1>1. CASE TurnAccepted
  BY <1>1 DEF TurnAccepted, AfterAnswer, TypeOK
<1>2. CASE TurnReleased
  <2>1. PICK x \in Signals : turnDone = <<x>>
    BY <1>2 DEF TurnReleased, TypeOK
  <2>2. Head(turnDone) = x /\ turnDone' = <<>>
    BY <1>2, <2>1 DEF TurnReleased
  <2>3. released' \subseteq [turn : Turns, by : Signals]
    BY <1>2, <2>2 DEF TurnReleased, TypeOK
  <2>4. QED BY <1>2, <2>2, <2>3 DEF TurnReleased, TypeOK
<1>3. CASE TurnRefused \/ TurnCancelled \/ TurnTimesOut \/ ControlReturns
  BY <1>3 DEF TurnRefused, TurnCancelled, TurnTimesOut, ControlReturns, TypeOK
<1>4. CASE Exit
  <2>1. toCodex' \in Seq(Callers) /\ wire' \in Seq(Messages)
    BY <1>4 DEF Exit
  <2>2. QED BY <1>4, <2>1 DEF Exit, TypeOK
<1>5. QED BY <1>1, <1>2, <1>3, <1>4 DEF MainStep

LEMMA SignalType ==
  ASSUME TypeInv, SignalStep \/ \E s \in {"INT", "TERM"} : SendSignal(s)
  PROVE  TypeInv'
<1> USE TurnAssumption DEF TypeInv, mainVars, netVars, codexVars, history
<1>1. CASE ServeSigint
  <2>1. TurnInterrupt("sigint") \in Callers
    BY DEF TurnInterrupt, Callers, Interrupters
  <2>2. toCodex' \in Seq(Callers)
    <3>1. CASE conn
      BY <1>1, <2>1, <3>1, RequestSent DEF ServeSigint
    <3>2. CASE ~conn
      BY <1>1, <3>2 DEF ServeSigint, TypeOK
    <3>3. QED BY <3>1, <3>2
  <2>3. QED BY <1>1, <2>2 DEF ServeSigint, TypeOK
<1>2. CASE InterruptFails \/ ServeSigterm
  BY <1>2 DEF InterruptFails, ServeSigterm, TypeOK
<1>3. CASE \E s \in {"INT", "TERM"} : SendSignal(s)
  BY <1>3 DEF SendSignal, TypeOK
<1>4. QED BY <1>1, <1>2, <1>3 DEF SignalStep

LEMMA ReadPumpType ==
  ASSUME TypeInv, ReadPump
  PROVE  TypeInv'
<1> DEFINE m == Head(wire)
<1> USE DEF TypeInv, codexVars
<1>1. m \in Messages /\ wire' \in Seq(Messages)
  BY MessageRead DEF ReadPump
<1>2. CASE m.kind = "ended" /\ HandleEnded(m.of)
  <2>1. m.of \in Turns \cup Children
    BY <1>1, <1>2 DEF Messages
  <2>2. [of |-> m.of, at |-> turn] \in Signals
    BY <2>1 DEF Signals, TypeOK
  <2>3. turnDone' \in {<<>>} \cup {<<x>> : x \in Signals}
    BY <1>2, <2>2 DEF HandleEnded, Signal, TypeOK
  <2>4. QED BY <1>1, <1>2, <2>1, <2>3 DEF ReadPump, HandleEnded, TypeOK
<1>3. CASE m.kind = "response" /\ HandleResponse(m)
  BY <1>1, <1>3 DEF ReadPump, HandleResponse, TypeOK
<1>4. QED BY <1>2, <1>3 DEF ReadPump

LEMMA CodexType ==
  ASSUME TypeInv, CodexStep \/ ConnectionLost \/ UNCHANGED vars
  PROVE  TypeInv'
<1> USE DEF TypeInv, mainVars, sigVars, netVars, codexVars, history
<1>1. CASE CodexAnswers
  <2> DEFINE to == Head(toCodex)
  <2>1. to \in Callers /\ toCodex' \in Seq(Callers)
    BY <1>1, TailKeeps DEF CodexAnswers, TypeOK
  <2>2. PICK ok \in BOOLEAN :
          /\ wire' = Append(wire, [kind |-> "response", to |-> to, ok |-> ok])
          /\ active' = IF to.by = "turn" /\ ok THEN active \cup {to.turn} ELSE active
    BY <1>1 DEF CodexAnswers
  <2>3. [kind |-> "response", to |-> to, ok |-> ok] \in Messages
    BY <2>1 DEF Messages
  <2>4. wire' \in Seq(Messages)
    BY <2>2, <2>3, MessageSent
  <2>5. to.by = "turn" => to.turn \in Turns
    BY <2>1 DEF Callers, Interrupters
  <2>6. active' \subseteq Turns \cup Children
    BY <2>2, <2>5 DEF TypeOK
  <2>7. QED BY <1>1, <2>1, <2>4, <2>6 DEF CodexAnswers, TypeOK
<1>2. ASSUME NEW c \in Children, CodexSpawns(c) PROVE TypeInv'
  BY <1>2 DEF CodexSpawns, TypeOK
<1>3. ASSUME NEW t \in Turns \cup Children, CodexEnds(t) PROVE TypeInv'
  <2>1. [kind |-> "ended", of |-> t] \in Messages
    BY DEF Messages
  <2>2. wire' \in Seq(Messages)
    BY <1>3, <2>1, MessageSent DEF CodexEnds
  <2>3. QED BY <1>3, <2>2 DEF CodexEnds, TypeOK
<1>4. CASE ConnectionLost
  <2>1. toCodex' \in Seq(Callers) /\ wire' \in Seq(Messages)
    BY <1>4 DEF ConnectionLost
  <2>2. QED BY <1>4, <2>1 DEF ConnectionLost, TypeOK
<1>5. CASE UNCHANGED vars
  BY <1>5 DEF vars, TypeOK
<1>6. QED BY <1>1, <1>2, <1>3, <1>4, <1>5 DEF CodexStep

LEMMA TypeNext == TypeInv /\ [Next]_vars => TypeInv'
BY RequestsType, MainStepType, SignalType, ReadPumpType, CodexType DEF Next

LEMMA TypeAlways == Spec => []TypeInv
BY TypeInit, TypeNext, PTL DEF Spec

\* Every reachable state of TurnControl is of its type; the channel in particular
\* never holds more than one signal.
THEOREM TypeCorrect == Spec => []TypeOK
<1>1. TypeInv => TypeOK
  BY DEF TypeInv
<1>2. QED BY <1>1, TypeAlways, PTL
-----------------------------------------------------------------------------
(* The ends of turns. *)

LEMMA SignalInit == Init => SignalInv
BY TurnAssumption DEF Init, SignalInv, NotAhead, EndNotLost, HeldIsFresh, ReleaseIsFresh

\* A step that sends codex nothing but what is no request for a turn, and reports
\* no end.
LEMMA NotAheadKept ==
  ASSUME NotAhead, UNCHANGED <<turn, ended>>, active' \cap Turns \subseteq active,
         \A i \in DOMAIN wire' : wire'[i].kind = "ended" =>
           \E j \in DOMAIN wire : wire[j] = wire'[i],
         \A i \in DOMAIN toCodex' : toCodex'[i].by = "turn" =>
           \E j \in DOMAIN toCodex : toCodex[j] = toCodex'[i]
  PROVE  NotAhead'
BY DEF NotAhead

LEMMA RequestsSignal ==
  ASSUME TypeInv, SignalInv, Requests
  PROVE  SignalInv'
<1> USE DEF TypeInv, SignalInv, sigVars, codexVars, history
<1>1. CASE StartTurn
  <2>1. /\ turn \in Nat /\ turn + 1 \in Turns /\ turn' = turn + 1
        /\ TurnStart(turn + 1) \in Callers /\ turnDone' = <<>>
    BY <1>1, TurnAssumption DEF StartTurn, Drain, TypeOK, Turns, TurnStart, Callers
  <2>2. UNCHANGED <<ended, active, wire, released>>
    BY <1>1 DEF StartTurn
  <2>3. \A i \in DOMAIN toCodex' :
          \/ toCodex'[i] = TurnStart(turn + 1)
          \/ i \in DOMAIN toCodex /\ toCodex'[i] = toCodex[i]
    <3>1. CASE conn
      BY <1>1, <2>1, <3>1, RequestSent DEF StartTurn
    <3>2. CASE ~conn
      BY <1>1, <3>2 DEF StartTurn
    <3>3. QED BY <3>1, <3>2
  <2>4. NotAhead'
    <3> SUFFICES ASSUME NEW t \in Turns, t > turn'
                 PROVE  /\ t \notin ended' \cup active'
                        /\ \A i \in DOMAIN wire' : wire'[i].kind = "ended" => wire'[i].of # t
                        /\ \A i \in DOMAIN toCodex' :
                             toCodex'[i].by = "turn" => toCodex'[i].turn # t
      BY DEF NotAhead
    <3>1. t > turn /\ t # turn + 1
      BY <2>1, TurnAssumption DEF Turns
    <3>2. \A i \in DOMAIN toCodex' : toCodex'[i].by = "turn" => toCodex'[i].turn # t
      BY <2>3, <3>1 DEF NotAhead, TurnStart
    <3>3. QED BY <2>2, <3>1, <3>2 DEF NotAhead
  <2>5. turn' \notin ended'
    BY <2>1, <2>2 DEF NotAhead
  <2>6. QED BY <2>1, <2>2, <2>4, <2>5 DEF EndNotLost, HeldIsFresh, ReleaseIsFresh
<1>2. CASE ControlInterrupt \/ StdinCloses
  <2>1. /\ pc' \in {"control", "closing"}
        /\ UNCHANGED <<turn, turnDone, wire, active, ended, released>>
    BY <1>2 DEF ControlInterrupt, StdinCloses
  <2>2. \A i \in DOMAIN toCodex' : toCodex'[i].by = "turn" =>
          \E j \in DOMAIN toCodex : toCodex[j] = toCodex'[i]
    <3>1. ASSUME NEW who \in {"control", "shutdown"},
                 toCodex' = Append(toCodex, TurnInterrupt(who))
          PROVE  \A i \in DOMAIN toCodex' : toCodex'[i].by = "turn" =>
                   i \in DOMAIN toCodex /\ toCodex'[i] = toCodex[i]
      <4>1. TurnInterrupt(who) \in Callers /\ TurnInterrupt(who).by # "turn"
        BY DEF TurnInterrupt, Callers, Interrupters
      <4>2. QED BY <3>1, <4>1, RequestSent
    <3>2. CASE toCodex' = toCodex
      BY <3>2
    <3>3. QED BY <1>2, <3>1, <3>2 DEF ControlInterrupt, StdinCloses
  <2>3. NotAhead'
    BY <2>1, <2>2, NotAheadKept
  <2>4. QED BY <2>1, <2>3 DEF EndNotLost, HeldIsFresh, ReleaseIsFresh
<1>3. QED BY <1>1, <1>2 DEF Requests

LEMMA MainStepSignal ==
  ASSUME TypeInv, SignalInv, MainStep \/ TurnTimesOut
  PROVE  SignalInv'
<1> USE DEF TypeInv, SignalInv, sigVars, netVars, codexVars, history
<1>1. NotAhead'
  <2>1. /\ UNCHANGED <<turn, ended, active>>
        /\ wire' = wire \/ wire' = <<>>
        /\ toCodex' = toCodex \/ toCodex' = <<>>
    BY DEF MainStep, TurnAccepted, TurnRefused, TurnReleased, TurnCancelled,
           ControlReturns, Exit, TurnTimesOut
  <2>2. QED BY <2>1, NotAheadKept
<1>2. CASE TurnAccepted
  <2>1. pc = "calling" /\ UNCHANGED <<turn, turnDone, ended, released>>
    BY <1>2 DEF TurnAccepted, AfterAnswer
  <2>2. QED BY <1>1, <2>1 DEF EndNotLost, HeldIsFresh, ReleaseIsFresh
<1>3. CASE TurnReleased
  <2>1. PICK x \in Signals : turnDone = <<x>>
    BY <1>3 DEF TurnReleased, TypeOK
  <2>2. /\ Head(turnDone) = x /\ turnDone' = <<>> /\ pc' = "reading"
        /\ released' = released \cup {[turn |-> turn, by |-> x]}
    BY <1>3, <2>1 DEF TurnReleased
  <2>3. x.at = turn
    BY <2>1, <2>2 DEF HeldIsFresh
  <2>4. ReleaseIsFresh'
    BY <2>2, <2>3 DEF ReleaseIsFresh
  <2>5. QED BY <1>1, <2>2, <2>4 DEF EndNotLost, HeldIsFresh
<1>4. CASE TurnRefused \/ TurnCancelled \/ ControlReturns \/ Exit \/ TurnTimesOut
  <2>1. /\ pc' \in {"reading", "exited"}
        /\ UNCHANGED <<turn, turnDone, released>>
    BY <1>4 DEF TurnRefused, TurnCancelled, ControlReturns, Exit, TurnTimesOut
  <2>2. QED BY <1>1, <2>1 DEF EndNotLost, HeldIsFresh, ReleaseIsFresh
<1>5. QED BY <1>2, <1>3, <1>4 DEF MainStep

LEMMA SignalStepSignal ==
  ASSUME TypeInv, SignalInv, SignalStep \/ \E s \in {"INT", "TERM"} : SendSignal(s)
  PROVE  SignalInv'
<1> USE DEF TypeInv, SignalInv, mainVars, netVars, codexVars, history
<1>1. UNCHANGED <<pc, turn, turnDone, wire, active, ended, released>>
  BY DEF SignalStep, ServeSigint, InterruptFails, ServeSigterm, SendSignal
<1>2. toCodex' = toCodex \/ toCodex' = Append(toCodex, TurnInterrupt("sigint"))
  BY DEF SignalStep, ServeSigint, InterruptFails, ServeSigterm, SendSignal
<1>3. TurnInterrupt("sigint") \in Callers /\ TurnInterrupt("sigint").by # "turn"
  BY DEF TurnInterrupt, Callers, Interrupters
<1>4. \A i \in DOMAIN toCodex' : toCodex'[i].by = "turn" =>
        \E j \in DOMAIN toCodex : toCodex[j] = toCodex'[i]
  <2>1. CASE toCodex' = toCodex
    BY <2>1
  <2>2. CASE toCodex' = Append(toCodex, TurnInterrupt("sigint"))
    BY <1>3, <2>2, RequestSent
  <2>3. QED BY <1>2, <2>1, <2>2
<1>5. NotAhead'
  BY <1>1, <1>4, NotAheadKept
<1>6. QED BY <1>1, <1>5 DEF EndNotLost, HeldIsFresh, ReleaseIsFresh

LEMMA ReadPumpSignal ==
  ASSUME TypeInv, SignalInv, ReadPump
  PROVE  SignalInv'
<1> DEFINE m == Head(wire)
<1> USE DEF TypeInv, SignalInv, codexVars
<1>1. /\ m \in Messages /\ 1 \in DOMAIN wire /\ m = wire[1]
      /\ \A i \in DOMAIN wire' : i + 1 \in DOMAIN wire /\ wire'[i] = wire[i + 1]
  BY MessageRead DEF ReadPump
<1>2. UNCHANGED <<pc, turn, toCodex, active, released>>
  BY DEF ReadPump
<1>3. CASE m.kind = "ended" /\ HandleEnded(m.of)
  <2>1. ended' = ended \cup {m.of}
    BY <1>3 DEF HandleEnded
  <2>2. NotAhead'
    <3>1. \A t \in Turns : t > turn => t # m.of
      BY <1>1, <1>3 DEF NotAhead
    <3>2. QED BY <1>1, <1>2, <2>1, <3>1 DEF NotAhead
  <2>3. turnDone' # <<>> /\ (turnDone' = turnDone \/ Head(turnDone').at = turn)
    BY <1>3 DEF HandleEnded, Signal
  <2>4. QED BY <1>2, <2>2, <2>3 DEF EndNotLost, HeldIsFresh, ReleaseIsFresh
<1>4. CASE m.kind = "response" /\ HandleResponse(m)
  <2>1. UNCHANGED <<turnDone, ended>>
    BY <1>4 DEF HandleResponse
  <2>2. NotAhead'
    BY <1>1, <1>2, <2>1, NotAheadKept
  <2>3. QED BY <1>2, <2>1, <2>2 DEF EndNotLost, HeldIsFresh, ReleaseIsFresh
<1>5. QED BY <1>3, <1>4 DEF ReadPump

LEMMA CodexSignal ==
  ASSUME TypeInv, SignalInv, CodexStep \/ ConnectionLost \/ UNCHANGED vars
  PROVE  SignalInv'
<1> USE DEF TypeInv, SignalInv, mainVars, sigVars, netVars, codexVars, history, vars
<1>1. UNCHANGED <<pc, turn, turnDone, ended, released>>
  BY DEF CodexStep, CodexAnswers, CodexSpawns, CodexEnds, ConnectionLost
<1>2. NotAhead'
  <2>1. CASE CodexAnswers
    <3> DEFINE to == Head(toCodex)
    <3>1. /\ to \in Callers /\ 1 \in DOMAIN toCodex /\ to = toCodex[1]
          /\ \A i \in DOMAIN toCodex' :
               i + 1 \in DOMAIN toCodex /\ toCodex'[i] = toCodex[i + 1]
      BY <2>1, TailKeeps DEF CodexAnswers, TypeOK
    <3>2. PICK ok \in BOOLEAN :
            /\ wire' = Append(wire, [kind |-> "response", to |-> to, ok |-> ok])
            /\ active' = IF to.by = "turn" /\ ok THEN active \cup {to.turn} ELSE active
      BY <2>1 DEF CodexAnswers
    <3>3. [kind |-> "response", to |-> to, ok |-> ok] \in Messages
      BY <3>1 DEF Messages
    <3>4. \A i \in DOMAIN wire' : wire'[i].kind = "ended" =>
            i \in DOMAIN wire /\ wire'[i] = wire[i]
      BY <3>2, <3>3, MessageSent
    <3>5. \A t \in Turns : t > turn => t \notin active'
      BY <3>1, <3>2 DEF NotAhead
    <3>6. QED BY <1>1, <3>1, <3>4, <3>5 DEF NotAhead
  <2>2. ASSUME NEW c \in Children, CodexSpawns(c) PROVE NotAhead'
    <3>1. c \notin Turns
      BY TurnAssumption DEF Turns
    <3>2. active' \cap Turns \subseteq active /\ UNCHANGED <<wire, toCodex>>
      BY <2>2, <3>1 DEF CodexSpawns
    <3>3. QED BY <1>1, <3>2, NotAheadKept
  <2>3. ASSUME NEW t \in Turns \cup Children, CodexEnds(t) PROVE NotAhead'
    <3>1. [kind |-> "ended", of |-> t] \in Messages
      BY DEF Messages
    <3>2. \A i \in DOMAIN wire' :
            \/ wire'[i] = [kind |-> "ended", of |-> t]
            \/ i \in DOMAIN wire /\ wire'[i] = wire[i]
      BY <2>3, <3>1, MessageSent DEF CodexEnds
    <3>3. t \in active /\ active' \subseteq active /\ toCodex' = toCodex
      BY <2>3 DEF CodexEnds
    <3>4. QED BY <1>1, <3>2, <3>3 DEF NotAhead
  <2>4. CASE ConnectionLost \/ UNCHANGED vars
    BY <1>1, <2>4, NotAheadKept DEF ConnectionLost
  <2>5. QED BY <2>1, <2>2, <2>3, <2>4 DEF CodexStep
<1>3. QED BY <1>1, <1>2 DEF EndNotLost, HeldIsFresh, ReleaseIsFresh

LEMMA SignalNext == TypeInv /\ SignalInv /\ [Next]_vars => SignalInv'
BY RequestsSignal, MainStepSignal, SignalStepSignal, ReadPumpSignal, CodexSignal DEF Next

LEMMA SignalAlways == Spec => []SignalInv
BY TypeInit, TypeNext, SignalInit, SignalNext, PTL DEF Spec

\* A startTurn is only ended by a signal sent after it began.
THEOREM ReleaseAlwaysFresh == Spec => []ReleaseIsFresh
<1>1. SignalInv => ReleaseIsFresh
  BY DEF SignalInv
<1>2. QED BY <1>1, SignalAlways, PTL

\* Once ReadPump has handled the end of the turn main is in, the channel holds a
\* signal until main takes it.
THEOREM EndNeverLost == Spec => []EndNotLost
<1>1. SignalInv => EndNotLost
  BY DEF SignalInv
<1>2. QED BY <1>1, SignalAlways, PTL
=============================================================================
