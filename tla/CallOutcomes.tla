---------------------------- MODULE CallOutcomes ----------------------------
(***************************************************************************)
(* What a caller of WSClient.Call may rely on: a call that was made is     *)
(* settled at most once, with codex's answer to that very call or with an  *)
(* error, and an answer that comes too late changes nothing.  RpcClient,   *)
(* in which the answers are matched to the callers by a number, through a  *)
(* shared table, is shown to implement this specification.                 *)
(***************************************************************************)
CONSTANTS
  Calls,      \* calls, each made once
  Unsettled,  \* the call has not returned
  Failed      \* the call returned an error of the client

VARIABLES
  asked,      \* calls that were made
  answered,   \* calls codex answered, with a result or with an error
  outcome     \* what each call returned: a call stands for its own answer

vars == <<asked, answered, outcome>>

Init ==
  /\ asked = {}
  /\ answered = {}
  /\ outcome = [c \in Calls |-> Unsettled]

Ask(c) ==
  /\ c \notin asked
  /\ asked' = asked \cup {c}
  /\ UNCHANGED <<answered, outcome>>

Answer(c) ==
  /\ c \in asked \ answered
  /\ answered' = answered \cup {c}
  /\ UNCHANGED <<asked, outcome>>

Settle(c) ==
  /\ c \in asked /\ outcome[c] = Unsettled
  /\ \E o \in {Failed} \cup ({c} \cap answered) :
       outcome' = [outcome EXCEPT ![c] = o]
  /\ UNCHANGED <<asked, answered>>

Next == \E c \in Calls : Ask(c) \/ Answer(c) \/ Settle(c)

Spec == Init /\ [][Next]_vars
=============================================================================
