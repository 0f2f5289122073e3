-------------------------- MODULE EventTranslation --------------------------
(***************************************************************************)
(* Translator: turns codex's notifications into canonical events.  Codex   *)
(* reports one tool call in up to two dialects, streams outputs and        *)
(* answers in pieces, and sends the notifications of a spawned subagent's  *)
(* thread over the same connection; what a turn's result says is           *)
(* accumulated per turn.                                                   *)
(*                                                                         *)
(* ReadPump handles one notification at a time, in order, so sending and   *)
(* handling it are one step.  Codex numbers its items uniquely, sends each *)
(* notice of an item at most once, and ends a turn after its items.        *)
(***************************************************************************)
EXTENDS Naturals, Sequences, FiniteSets, SequencesExt

CONSTANTS
  Items,
  LegacyDialect, \* whether this codex also sends item/<kind>/started and completed
  Sizes,      \* tokens a model call may use
  MaxTurns,   \* bound: thread -> its turns
  MaxDeltas,  \* bound: pieces of one item's output or text
  MaxCalls    \* bound: model calls of one turn

Threads == {"own", "child"}

ASSUME TranslationAssumption ==
  /\ LegacyDialect \in BOOLEAN /\ Sizes \subseteq Nat
  /\ MaxTurns \in [Threads -> Nat] /\ {MaxDeltas, MaxCalls} \subseteq Nat

VARIABLES
  \* codex
  turn,       \* thread -> turns started
  running,    \* threads inside a turn
  item,       \* item -> what codex made it and has sent of it
  spoken,     \* the pieces of the own turn's final answers
  spent,      \* the model calls of the own turn
  \* Translator
  threadID,
  text, toolCalls, usage,
  finalAnswerIDs, startedTools, completedTools, toolNames, toolOutput,
  subagentActivities,
  \* the events emitted
  called,     \* item -> names of its tool_call events
  results,    \* item -> its tool_result events
  tasks,      \* item -> number of its task frames
  reports     \* the results of the own thread's turns, with what codex said

codexVars == <<turn, running, item, spoken, spent>>
turnVars == <<text, toolCalls, usage>>
toolVars == <<startedTools, completedTools, toolNames, toolOutput>>
toolEvents == <<called, results>>
vars == <<codexVars, threadID, turnVars, finalAnswerIDs, toolVars,
          subagentActivities, toolEvents, tasks, reports>>

Unnamed == "none"

\* command stands for the tools whose output is streamed, mcp for those that
\* are called by the tool's own name.
ToolKinds == {"command", "mcp"}
Kinds == ToolKinds \cup {"answer", "comment", "activity"}
Item(k, t, n) == [kind |-> k, thread |-> t, turn |-> n, sent |-> {}, deltas |-> 0]
Unused == Item("none", "own", 0)
Notices == {"item/started", "item/completed", "legacy/started", "legacy/completed"}

Names == {"command_execution", "tool", "mcp_tool_call"}
NoName == ""
NoUsage == [total |-> 0, context |-> 0]

\* What a result's output is made of: codex's own, or so many streamed pieces.
Outputs == [own : BOOLEAN, streamed : Nat]
CodexOutput == [own |-> TRUE, streamed |-> 0]
Streamed(n) == [own |-> FALSE, streamed |-> n]

TypeOK ==
  /\ (\A t \in Threads : turn[t] \in 0..MaxTurns[t]) /\ running \subseteq Threads
  /\ item \in [Items -> [kind : Kinds \cup {"none"}, thread : Threads, turn : Nat,
                         sent : SUBSET Notices, deltas : 0..MaxDeltas]]
  /\ spoken \in Seq(Items) /\ spent \in Seq(Sizes)
  /\ threadID \in {"own", Unnamed}
  /\ text \in [Threads -> Seq(Items)]
  /\ toolCalls \in [Threads -> 0..Cardinality(startedTools)]
  /\ usage \in [Threads -> [total : Nat, context : Sizes \cup {0}]]
  /\ finalAnswerIDs \subseteq Items /\ subagentActivities \subseteq Items
  /\ startedTools \subseteq Items /\ completedTools \subseteq startedTools
  /\ toolNames \in [Items -> Names \cup {NoName}]
  /\ toolOutput \in [Items -> 0..MaxDeltas]
  /\ called \in [Items -> Seq(Names)]
  /\ results \in [Items -> Seq([name : Names, output : Outputs, given : BOOLEAN])]
  /\ tasks \in [Items -> Nat]

Init ==
  /\ turn = [t \in Threads |-> 0] /\ running = {}
  /\ item = [i \in Items |-> Unused]
  /\ spoken = <<>> /\ spent = <<>>
  /\ threadID = Unnamed
  /\ text = [t \in Threads |-> <<>>]
  /\ toolCalls = [t \in Threads |-> 0]
  /\ usage = [t \in Threads |-> NoUsage]
  /\ finalAnswerIDs = {} /\ startedTools = {} /\ completedTools = {}
  /\ toolNames = [i \in Items |-> NoName] /\ toolOutput = [i \in Items |-> 0]
  /\ subagentActivities = {}
  /\ called = [i \in Items |-> <<>>] /\ results = [i \in Items |-> <<>>]
  /\ tasks = [i \in Items |-> 0]
  /\ reports = <<>>

-----------------------------------------------------------------------------
(* Codex. *)

CodexStartsTurn(t) ==
  /\ t \notin running /\ turn[t] < MaxTurns[t]
  /\ t = "own" => threadID = "own"     \* startTurn follows SetSessionID
  /\ t = "child" => turn["own"] > 0    \* the parent spawned it
  /\ turn' = [turn EXCEPT ![t] = @ + 1]
  /\ running' = running \cup {t}
  /\ IF t = "own" THEN spoken' = <<>> /\ spent' = <<>>
     ELSE UNCHANGED <<spoken, spent>>
  /\ UNCHANGED <<item, threadID, turnVars, finalAnswerIDs, toolVars,
                 subagentActivities, toolEvents, tasks, reports>>

CodexOpensItem(i, t, k) ==
  /\ item[i] = Unused /\ t \in running
  /\ item' = [item EXCEPT ![i] = Item(k, t, turn[t])]
  /\ UNCHANGED <<turn, running, spoken, spent, threadID, turnVars, finalAnswerIDs,
                 toolVars, subagentActivities, toolEvents, tasks, reports>>

Own(i) == item[i].thread = "own"
Sent(i, notice) == notice \in item[i].sent
Opened(i) == Sent(i, "item/started") \/ Sent(i, "legacy/started")
Closed(i) == Sent(i, "item/completed") \/ Sent(i, "legacy/completed")

\* The turn of the item still runs, so codex may send this notice of it.
Live(i) ==
  /\ item[i].kind \in Kinds
  /\ item[i].thread \in running /\ item[i].turn = turn[item[i].thread]

CodexSends(i, notice) ==
  /\ Live(i) /\ ~Sent(i, notice)
  /\ item' = [item EXCEPT ![i].sent = @ \cup {notice}]
  /\ UNCHANGED <<turn, running, spoken, spent>>

CodexStreams(i) ==
  /\ Live(i) /\ Opened(i) /\ ~Closed(i) /\ item[i].deltas < MaxDeltas
  /\ item' = [item EXCEPT ![i].deltas = @ + 1]
  /\ UNCHANGED <<turn, running, spent>>

-----------------------------------------------------------------------------
(* Translator. *)

\* A bug: the child's notifications are taken for the thread's own.
OnAnyThread(t) == TRUE

OnThisThread(t) == threadID = Unnamed \/ t = threadID

SetSessionID ==
  /\ threadID' = "own"
  /\ UNCHANGED <<codexVars, turnVars, finalAnswerIDs, toolVars, subagentActivities,
                 toolEvents, tasks, reports>>

CallName(k) == IF k = "mcp" THEN "tool" ELSE "command_execution"

\* What a completion calls the tool: the older dialect does not name it.
CompletionName(k, notice) ==
  IF k = "mcp" /\ notice = "legacy/completed" THEN "mcp_tool_call" ELSE CallName(k)

\* A bug: the two dialects are not told to be one call.
EmitToolCall(i) ==
  /\ startedTools' = startedTools \cup {i}
  /\ toolNames' = [toolNames EXCEPT ![i] = CallName(item[i].kind)]
  /\ toolCalls' = [toolCalls EXCEPT ![item[i].thread] = @ + 1]
  /\ called' = [called EXCEPT ![i] = Append(@, CallName(item[i].kind))]

EmitToolCallOnce(i) ==
  IF i \in startedTools
  THEN UNCHANGED <<startedTools, toolNames, toolCalls, called>>
  ELSE /\ startedTools' = startedTools \cup {i}
       /\ toolNames' = [toolNames EXCEPT ![i] = CallName(item[i].kind)]
       /\ toolCalls' = [toolCalls EXCEPT ![item[i].thread] = @ + 1]
       /\ called' = [called EXCEPT ![i] = Append(@, CallName(item[i].kind))]

\* A bug: the completion's name is used.
ResultNameAsSent(i, name) == name

ResultName(i, name) == IF toolNames[i] # NoName THEN toolNames[i] ELSE name

\* A bug: the pieces streamed are only a fallback for the older dialect.
TakenOutputGeneric(i, given, notice) ==
  IF given \/ notice = "item/completed" THEN CodexOutput ELSE Streamed(toolOutput[i])

\* A command's completion that carries no output takes the streamed pieces; an
\* mcp result is the completion's own.
TakenOutput(i, given, notice) ==
  IF given \/ item[i].kind = "mcp" THEN CodexOutput ELSE Streamed(toolOutput[i])

\* takeToolOutput, then emitToolResultOnce.
EmitToolResultOnce(i, given, notice) ==
  /\ toolOutput' = [toolOutput EXCEPT ![i] = 0]
  /\ IF i \in completedTools
     THEN UNCHANGED <<completedTools, results>>
     ELSE /\ completedTools' = completedTools \cup {i}
          /\ results' = [results EXCEPT ![i] = Append(@,
               [name |-> ResultName(i, CompletionName(item[i].kind, notice)),
                output |-> TakenOutput(i, given, notice), given |-> given])]

SubagentActivity(i) ==
  /\ subagentActivities' = subagentActivities \cup {i}
  /\ tasks' = IF i \in subagentActivities THEN tasks ELSE [tasks EXCEPT ![i] = @ + 1]

Drop ==
  UNCHANGED <<turnVars, finalAnswerIDs, toolVars, subagentActivities, toolEvents,
              tasks, reports>>

ItemStarted(i) ==
  /\ CodexSends(i, "item/started")
  /\ IF ~OnThisThread(item[i].thread) THEN Drop
     ELSE /\ finalAnswerIDs' = IF item[i].kind = "answer" THEN finalAnswerIDs \cup {i}
                               ELSE finalAnswerIDs
          /\ IF item[i].kind \in ToolKinds THEN EmitToolCallOnce(i)
             ELSE UNCHANGED <<startedTools, toolNames, toolCalls, called>>
          /\ IF item[i].kind = "activity" THEN SubagentActivity(i)
             ELSE UNCHANGED <<subagentActivities, tasks>>
          /\ UNCHANGED <<text, usage, completedTools, toolOutput, results, reports>>
  /\ UNCHANGED threadID

LegacyStarted(i) ==
  /\ LegacyDialect /\ item[i].kind \in ToolKinds
  /\ CodexSends(i, "legacy/started")
  /\ IF ~OnThisThread(item[i].thread) THEN Drop
     ELSE /\ EmitToolCallOnce(i)
          /\ UNCHANGED <<text, usage, finalAnswerIDs, completedTools, toolOutput,
                         subagentActivities, results, tasks, reports>>
  /\ UNCHANGED threadID

OutputDelta(i) ==
  /\ item[i].kind = "command" /\ CodexStreams(i) /\ UNCHANGED spoken
  /\ IF ~OnThisThread(item[i].thread) THEN Drop
     ELSE /\ toolOutput' = [toolOutput EXCEPT ![i] = @ + 1]
          /\ UNCHANGED <<turnVars, finalAnswerIDs, startedTools, completedTools,
                         toolNames, subagentActivities, toolEvents, tasks, reports>>
  /\ UNCHANGED threadID

AgentMessageDelta(i) ==
  /\ item[i].kind \in {"answer", "comment"} /\ CodexStreams(i)
  /\ spoken' = IF item[i].kind = "answer" /\ Own(i) THEN Append(spoken, i) ELSE spoken
  /\ IF ~OnThisThread(item[i].thread) THEN Drop
     ELSE /\ text' = IF i \in finalAnswerIDs
                     THEN [text EXCEPT ![item[i].thread] = Append(@, i)] ELSE text
          /\ UNCHANGED <<toolCalls, usage, finalAnswerIDs, toolVars,
                         subagentActivities, toolEvents, tasks, reports>>
  /\ UNCHANGED threadID

ItemCompleted(i, given) ==
  /\ Sent(i, "item/started") /\ CodexSends(i, "item/completed")
  /\ IF ~OnThisThread(item[i].thread) THEN Drop
     ELSE /\ IF item[i].kind \in ToolKinds
             THEN EmitToolResultOnce(i, given, "item/completed")
             ELSE UNCHANGED <<completedTools, toolOutput, results>>
          /\ IF item[i].kind = "activity" THEN SubagentActivity(i)
             ELSE UNCHANGED <<subagentActivities, tasks>>
          /\ UNCHANGED <<turnVars, finalAnswerIDs, startedTools, toolNames, called,
                         reports>>
  /\ UNCHANGED threadID

LegacyCompleted(i, given) ==
  /\ Sent(i, "legacy/started") /\ CodexSends(i, "legacy/completed")
  /\ IF ~OnThisThread(item[i].thread) THEN Drop
     ELSE /\ EmitToolResultOnce(i, given, "legacy/completed")
          /\ UNCHANGED <<turnVars, finalAnswerIDs, startedTools, toolNames, called,
                         subagentActivities, tasks, reports>>
  /\ UNCHANGED threadID

AddCall(u, size) == [total |-> u.total + size, context |-> size]

TokenUsageUpdated(t, size) ==
  /\ t \in running /\ Len(spent) < MaxCalls
  /\ spent' = IF t = "own" THEN Append(spent, size) ELSE spent
  /\ usage' = IF OnThisThread(t) THEN [usage EXCEPT ![t] = AddCall(@, size)] ELSE usage
  /\ UNCHANGED <<turn, running, item, spoken, threadID, text, toolCalls,
                 finalAnswerIDs, toolVars, subagentActivities, toolEvents, tasks, reports>>

\* A bug: the number of tool calls goes on.
ResetTurnKeepsCalls(t) ==
  /\ text' = [text EXCEPT ![t] = <<>>]
  /\ toolCalls' = toolCalls
  /\ usage' = [usage EXCEPT ![t] = NoUsage]
  /\ finalAnswerIDs' = {} /\ startedTools' = {} /\ completedTools' = {}
  /\ toolNames' = [i \in Items |-> NoName] /\ toolOutput' = [i \in Items |-> 0]
  /\ subagentActivities' = {}

\* resetTurn: the sums of one thread, what is known of every item.
ResetTurn(t) ==
  /\ text' = [text EXCEPT ![t] = <<>>]
  /\ toolCalls' = [toolCalls EXCEPT ![t] = 0]
  /\ usage' = [usage EXCEPT ![t] = NoUsage]
  /\ finalAnswerIDs' = {} /\ startedTools' = {} /\ completedTools' = {}
  /\ toolNames' = [i \in Items |-> NoName] /\ toolOutput' = [i \in Items |-> 0]
  /\ subagentActivities' = {}

CodexEndsTurn(t) ==
  /\ t \in running
  /\ running' = running \ {t}
  /\ UNCHANGED <<turn, item, spoken, spent>>

\* The text, the number of tool calls and the usage of the result event.
Report(t) == [turn |-> turn[t], thread |-> t, text |-> text[t], tools |-> toolCalls[t],
              usage |-> usage[t], spoken |-> spoken, spent |-> spent]

TurnCompleted(t) ==
  /\ CodexEndsTurn(t)
  /\ IF ~OnThisThread(t) THEN Drop
     ELSE /\ reports' = Append(reports, Report(t))
          /\ ResetTurn(t)
          /\ UNCHANGED <<toolEvents, tasks>>
  /\ UNCHANGED threadID

TurnFailed(t) ==
  /\ CodexEndsTurn(t)
  /\ IF ~OnThisThread(t) THEN Drop
     ELSE ResetTurn(t) /\ UNCHANGED <<toolEvents, tasks, reports>>
  /\ UNCHANGED threadID

-----------------------------------------------------------------------------
Codex == \E t \in Threads :
  \/ CodexStartsTurn(t)
  \/ \E i \in Items, k \in Kinds : CodexOpensItem(i, t, k)

Handlers ==
  \/ \E i \in Items :
       \/ ItemStarted(i) \/ LegacyStarted(i)
       \/ OutputDelta(i) \/ AgentMessageDelta(i)
       \/ \E given \in BOOLEAN : ItemCompleted(i, given) \/ LegacyCompleted(i, given)
  \/ \E t \in Threads :
       \/ \E size \in Sizes : TokenUsageUpdated(t, size)
       \/ TurnCompleted(t) \/ TurnFailed(t)

Next == SetSessionID \/ Codex \/ Handlers

Spec == Init /\ [][Next]_vars

-----------------------------------------------------------------------------
\* Each tool call of this thread is reported exactly once, and so is each result
\* and each subagent activity, whichever dialects codex uses and in whatever
\* order their notices come; nothing of another thread is reported.
ReportedOnce ==
  \A i \in Items :
    LET tool == item[i].kind \in ToolKinds IN
      /\ Len(called[i]) = IF tool /\ Own(i) /\ Opened(i) THEN 1 ELSE 0
      /\ Len(results[i]) = IF tool /\ Own(i) /\ Closed(i) THEN 1 ELSE 0
      /\ tasks[i] = IF item[i].kind = "activity" /\ Own(i) /\ Opened(i) THEN 1 ELSE 0

\* A result bears the name its call was reported under, although the older
\* dialect's completion of an mcp call does not carry the tool's name.
ResultMatchesCall ==
  \A i \in Items : results[i] # <<>> =>
    called[i] # <<>> /\ results[i][1].name = called[i][1]

\* A command's result is the output its completion carried or, if it carried
\* none, every piece streamed: none is lost to the other dialect's completion.
OutputComplete ==
  \A i \in Items : results[i] # <<>> =>
    results[i][1].output = IF results[i][1].given \/ item[i].kind = "mcp"
                           THEN CodexOutput ELSE Streamed(item[i].deltas)

ToolsOf(t, n) == {i \in Items : /\ item[i].kind \in ToolKinds /\ Opened(i)
                                /\ item[i].thread = t /\ item[i].turn = n}

\* The tokens of so many model calls.
TokensOf(calls) ==
  LET upTo[n \in 0..Len(calls)] == IF n = 0 THEN 0 ELSE upTo[n - 1] + calls[n]
  IN  upTo[Len(calls)]

\* The result of a turn says what codex said in that turn and nothing else: the
\* final answers' text in order, the tools called, the tokens of all its model
\* calls and the size of the last one.  What a subagent does at the same time,
\* or a turn that failed before, does not show in it.
TurnReportExact ==
  \A n \in DOMAIN reports :
    LET r == reports[n] IN
      /\ r.thread = "own"
      /\ r.text = r.spoken
      /\ r.tools = Cardinality(ToolsOf("own", r.turn))
      /\ r.usage.total = TokensOf(r.spent)
      /\ r.spent # <<>> => r.usage.context = Last(r.spent)
=============================================================================
