------------------------ MODULE EventTranslationProofs ------------------------
(***************************************************************************)
(* Theorems about EventTranslation, for any items, turns and pieces of     *)
(* output, with one dialect or two.                                        *)
(***************************************************************************)
EXTENDS EventTranslation, Induction, FiniteSetTheorems, SequenceTheorems, TLAPS

ItemType == [kind : Kinds \cup {"none"}, thread : Threads, turn : Nat,
             sent : SUBSET Notices, deltas : 0..MaxDeltas]

TypeInv ==
  /\ TypeOK
  /\ turn \in [Threads -> Nat]
  /\ IsFiniteSet(startedTools)
  /\ \A i \in Items : toolOutput[i] <= item[i].deltas

Tool(i) == item[i].kind \in ToolKinds
Activity(i) == item[i].kind = "activity"

\* The Translator knows its thread before codex says anything, and so drops what
\* codex says of another.
ThreadKnown ==
  /\ running # {} \/ turn["own"] > 0 => threadID = "own"
  /\ \A i \in Items : item[i].kind # "none" => threadID = "own"
  /\ toolCalls["child"] = 0

\* What codex may have sent of an item.
InOrder(i) ==
  /\ item[i].turn <= turn[item[i].thread]
  /\ item[i].kind = "none" => item[i].sent = {} /\ item[i].deltas = 0
  /\ Sent(i, "item/completed") => Sent(i, "item/started")
  /\ Sent(i, "legacy/completed") => Sent(i, "legacy/started")
  /\ Sent(i, "legacy/started") => Tool(i)

\* What the Translator remembers of an item is true; of one whose turn is running
\* it remembers all.
Remembered(i) ==
  /\ i \in startedTools => Opened(i)
  /\ i \in completedTools => Closed(i)
  /\ i \in subagentActivities => Opened(i)
  /\ i \in startedTools => toolNames[i] = CallName(item[i].kind)
  /\ item[i].kind = "none" => toolOutput[i] = 0
  /\ Live(i) /\ Own(i) =>
       /\ Tool(i) /\ Opened(i) => i \in startedTools
       /\ Tool(i) /\ Closed(i) => i \in completedTools
       /\ Activity(i) /\ Opened(i) => i \in subagentActivities
       /\ item[i].kind = "command" /\ ~Closed(i) => toolOutput[i] = item[i].deltas

ResultOf(i, given) ==
  [name |-> CallName(item[i].kind),
   output |-> IF given \/ item[i].kind = "mcp" THEN CodexOutput
              ELSE Streamed(item[i].deltas),
   given |-> given]

\* What was emitted about an item.
Emitted(i) ==
  /\ called[i] = IF Tool(i) /\ Own(i) /\ Opened(i) THEN <<CallName(item[i].kind)>>
                 ELSE <<>>
  /\ IF Tool(i) /\ Own(i) /\ Closed(i)
     THEN \E given \in BOOLEAN : results[i] = <<ResultOf(i, given)>>
     ELSE results[i] = <<>>
  /\ tasks[i] = IF Activity(i) /\ Own(i) /\ Opened(i) THEN 1 ELSE 0

ItemInv ==
  ThreadKnown /\ \A i \in Items : InOrder(i) /\ Remembered(i) /\ Emitted(i)
-----------------------------------------------------------------------------
(* What codex does to an item. *)

LEMMA ItemFields ==
  ASSUME TypeOK, NEW i \in Items
  PROVE  /\ item \in [Items -> ItemType]
         /\ item[i].kind \in Kinds \cup {"none"} /\ item[i].thread \in Threads
         /\ item[i].turn \in Nat /\ item[i].sent \in SUBSET Notices
         /\ item[i].deltas \in 0..MaxDeltas /\ item[i].deltas \in Nat
BY TranslationAssumption DEF TypeOK, ItemType

LEMMA Sends ==
  ASSUME TypeOK, NEW i \in Items, NEW notice \in Notices, CodexSends(i, notice)
  PROVE  /\ item' \in [Items -> ItemType]
         /\ \A j \in Items \ {i} : item'[j] = item[j]
         /\ item'[i].sent = item[i].sent \cup {notice}
         /\ item'[i].kind = item[i].kind /\ item'[i].thread = item[i].thread
         /\ item'[i].turn = item[i].turn /\ item'[i].deltas = item[i].deltas
         /\ UNCHANGED <<turn, running, spoken, spent>>
BY ItemFields DEF CodexSends, ItemType

LEMMA Streams ==
  ASSUME TypeOK, NEW i \in Items, CodexStreams(i)
  PROVE  /\ item' \in [Items -> ItemType]
         /\ \A j \in Items \ {i} : item'[j] = item[j]
         /\ item'[i].deltas = item[i].deltas + 1
         /\ item'[i].kind = item[i].kind /\ item'[i].thread = item[i].thread
         /\ item'[i].turn = item[i].turn /\ item'[i].sent = item[i].sent
         /\ UNCHANGED <<turn, running, spent>>
<1>1. item[i].deltas + 1 \in 0..MaxDeltas
  BY ItemFields, TranslationAssumption DEF CodexStreams
<1>2. QED BY <1>1, ItemFields DEF CodexStreams, ItemType

LEMMA Opens ==
  ASSUME TypeOK, NEW i \in Items, NEW t \in Threads, NEW k \in Kinds,
         turn \in [Threads -> Nat], CodexOpensItem(i, t, k)
  PROVE  /\ item' \in [Items -> ItemType]
         /\ \A j \in Items \ {i} : item'[j] = item[j]
         /\ item[i].kind = "none" /\ item[i].deltas = 0
         /\ item'[i].kind = k /\ item'[i].thread = t /\ item'[i].turn = turn[t]
         /\ item'[i].sent = {} /\ item'[i].deltas = 0
<1> DEFINE opened == Item(k, t, turn[t])
<1>1. /\ opened \in ItemType
      /\ opened.kind = k /\ opened.thread = t /\ opened.turn = turn[t]
      /\ opened.sent = {} /\ opened.deltas = 0
  BY TranslationAssumption DEF Item, ItemType
<1> HIDE DEF opened
<1>2. item[i].kind = "none" /\ item[i].deltas = 0
  BY DEF CodexOpensItem, Unused, Item
<1>3. 0 \in 0..MaxDeltas
  BY TranslationAssumption
<1>4. item' = [item EXCEPT ![i] = opened]
  BY DEF CodexOpensItem, opened
<1>5. QED BY <1>1, <1>2, <1>3, <1>4, ItemFields

-----------------------------------------------------------------------------
(* Type correctness. *)

LEMMA TypeInit == Init => TypeInv
<1> SUFFICES ASSUME Init PROVE TypeInv
  OBVIOUS
<1> USE TranslationAssumption DEF Init
<1>1. IsFiniteSet(startedTools) /\ Cardinality(startedTools) = 0
  BY FS_EmptySet
<1>2. item \in [Items -> ItemType]
  BY DEF Unused, Item, ItemType, Threads
<1>3. spoken \in Seq(Items) /\ spent \in Seq(Sizes) /\ text \in [Threads -> Seq(Items)]
  OBVIOUS
<1>4. toolCalls \in [Threads -> 0..Cardinality(startedTools)]
  BY <1>1
<1>5. usage \in [Threads -> [total : Nat, context : Sizes \cup {0}]]
  BY DEF NoUsage
<1>6. /\ called \in [Items -> Seq(Names)]
      /\ results \in [Items -> Seq([name : Names, output : Outputs, given : BOOLEAN])]
  OBVIOUS
<1>7. TypeOK
  BY <1>2, <1>3, <1>4, <1>5, <1>6 DEF TypeOK, ItemType
<1>8. \A i \in Items : toolOutput[i] <= item[i].deltas
  BY DEF Unused, Item
<1>9. QED BY <1>1, <1>7, <1>8 DEF TypeInv

\* A call is emitted, or was before.
LEMMA CallType ==
  ASSUME TypeInv, NEW i \in Items, item[i].kind \in ToolKinds, EmitToolCallOnce(i)
  PROVE  /\ startedTools' \subseteq Items /\ startedTools \subseteq startedTools'
         /\ IsFiniteSet(startedTools')
         /\ toolNames' \in [Items -> Names \cup {NoName}]
         /\ toolCalls' \in [Threads -> 0..Cardinality(startedTools')]
         /\ called' \in [Items -> Seq(Names)]
<1> USE DEF TypeInv
<1>1. CASE i \in startedTools
  BY <1>1 DEF EmitToolCallOnce, TypeOK
<1>2. CASE i \notin startedTools
  <2>1. /\ startedTools' = startedTools \cup {i}
        /\ toolNames' = [toolNames EXCEPT ![i] = CallName(item[i].kind)]
        /\ toolCalls' = [toolCalls EXCEPT ![item[i].thread] = @ + 1]
        /\ called' = [called EXCEPT ![i] = Append(@, CallName(item[i].kind))]
    BY <1>2 DEF EmitToolCallOnce
  <2>2. /\ IsFiniteSet(startedTools')
        /\ Cardinality(startedTools') = Cardinality(startedTools) + 1
        /\ Cardinality(startedTools) \in Nat
    BY <1>2, <2>1, FS_AddElement, FS_CardinalityType
  <2>3. toolCalls' \in [Threads -> 0..Cardinality(startedTools')]
    <3>1. toolCalls \in [Threads -> 0..Cardinality(startedTools)]
      BY DEF TypeOK
    <3>2. \A t \in Threads : {toolCalls[t], toolCalls[t] + 1} \subseteq 0..Cardinality(startedTools')
      BY <2>2, <3>1
    <3>3. item[i].thread \in Threads
      BY ItemFields
    <3>4. QED BY <2>1, <3>1, <3>2, <3>3
  <2>4. CallName(item[i].kind) \in Names
    BY DEF CallName, Names
  <2>5. called[i] \in Seq(Names)
    BY DEF TypeOK
  <2>6. Append(called[i], CallName(item[i].kind)) \in Seq(Names)
    BY <2>4, <2>5, AppendProperties
  <2>7. called' \in [Items -> Seq(Names)]
    BY <2>1, <2>6 DEF TypeOK
  <2>8. QED BY <2>1, <2>2, <2>3, <2>4, <2>7 DEF TypeOK
<1>3. QED BY <1>1, <1>2

\* A result is emitted, or was before.
LEMMA ResultType ==
  ASSUME TypeInv, NEW i \in Items, NEW given \in BOOLEAN, NEW notice,
         i \in startedTools, EmitToolResultOnce(i, given, notice)
  PROVE  /\ completedTools' \subseteq startedTools
         /\ toolOutput' \in [Items -> 0..MaxDeltas]
         /\ \A j \in Items : toolOutput'[j] <= toolOutput[j]
         /\ results' \in [Items -> Seq([name : Names, output : Outputs, given : BOOLEAN])]
<1> USE DEF TypeInv
<1>1. /\ toolOutput' \in [Items -> 0..MaxDeltas]
      /\ \A j \in Items : toolOutput'[j] <= toolOutput[j]
  <2>1. MaxDeltas \in Nat /\ toolOutput \in [Items -> 0..MaxDeltas]
    BY TranslationAssumption DEF TypeOK
  <2>2. toolOutput' = [toolOutput EXCEPT ![i] = 0]
    BY DEF EmitToolResultOnce
  <2>3. QED BY <2>1, <2>2
<1>2. CASE i \in completedTools
  BY <1>1, <1>2 DEF EmitToolResultOnce, TypeOK
<1>3. CASE i \notin completedTools
  <2> DEFINE r == [name |-> ResultName(i, CompletionName(item[i].kind, notice)),
                   output |-> TakenOutput(i, given, notice), given |-> given]
  <2>1. completedTools' = completedTools \cup {i} /\ results' = [results EXCEPT ![i] = Append(@, r)]
    BY <1>3 DEF EmitToolResultOnce
  <2>2. ResultName(i, CompletionName(item[i].kind, notice)) \in Names
    BY DEF ResultName, CompletionName, CallName, TypeOK, Names
  <2>3. TakenOutput(i, given, notice) \in Outputs
    BY TranslationAssumption DEF TakenOutput, CodexOutput, Streamed, Outputs, TypeOK
  <2>4. r \in [name : Names, output : Outputs, given : BOOLEAN]
    BY <2>2, <2>3
  <2>5. results[i] \in Seq([name : Names, output : Outputs, given : BOOLEAN])
    BY DEF TypeOK
  <2>6. Append(results[i], r) \in Seq([name : Names, output : Outputs, given : BOOLEAN])
    BY <2>4, <2>5, AppendProperties
  <2>7. results' \in [Items -> Seq([name : Names, output : Outputs, given : BOOLEAN])]
    BY <2>1, <2>6 DEF TypeOK
  <2>8. QED BY <1>1, <2>1, <2>7 DEF TypeOK
<1>4. QED BY <1>2, <1>3

\* The Translator hears what is said of its own items and of no others.
LEMMA Heard ==
  ASSUME TypeInv, ItemInv, NEW i \in Items, Live(i)
  PROVE  /\ threadID = "own" /\ (OnThisThread(item[i].thread) <=> Own(i))
         /\ Own(i) /\ Tool(i) /\ Opened(i) => i \in startedTools
<1>1. item[i].kind # "none" /\ item[i].thread \in Threads
  BY ItemFields DEF TypeInv, Live, Kinds, ToolKinds
<1>2. threadID = "own"
  BY <1>1 DEF ItemInv, ThreadKnown
<1>3. QED BY <1>1, <1>2 DEF OnThisThread, Own, Unnamed, ItemInv, Remembered

\* A task frame is emitted, or was before.
LEMMA ActivityType ==
  ASSUME TypeOK, NEW i \in Items,
         SubagentActivity(i) \/ UNCHANGED <<subagentActivities, tasks>>
  PROVE  subagentActivities' \subseteq Items /\ tasks' \in [Items -> Nat]
<1>1. tasks \in [Items -> Nat] /\ subagentActivities \subseteq Items
  BY DEF TypeOK
<1>2. QED BY <1>1 DEF SubagentActivity

LEMMA StartedType ==
  ASSUME TypeInv, ItemInv, NEW i \in Items, ItemStarted(i) \/ LegacyStarted(i)
  PROVE  TypeInv'
<1> USE DEF TypeInv
<1>1. PICK notice \in {"item/started", "legacy/started"} : CodexSends(i, notice)
  BY DEF ItemStarted, LegacyStarted
<1>2. /\ item' \in [Items -> ItemType]
      /\ \A j \in Items : item'[j].deltas = item[j].deltas
      /\ UNCHANGED <<turn, running, spoken, spent>>
  BY <1>1, Sends DEF Notices
<1>3. UNCHANGED <<threadID, text, usage, completedTools, toolOutput, results>>
  BY DEF ItemStarted, LegacyStarted, Drop, turnVars, toolVars, toolEvents
<1>4. /\ startedTools' \subseteq Items /\ startedTools \subseteq startedTools'
      /\ IsFiniteSet(startedTools')
      /\ toolNames' \in [Items -> Names \cup {NoName}]
      /\ toolCalls' \in [Threads -> 0..Cardinality(startedTools')]
      /\ called' \in [Items -> Seq(Names)]
  <2>1. CASE item[i].kind \in ToolKinds /\ EmitToolCallOnce(i)
    BY <2>1, CallType
  <2>2. CASE UNCHANGED <<startedTools, toolNames, toolCalls, called>>
    BY <2>2 DEF TypeOK
  <2>3. QED
    BY <2>1, <2>2 DEF ItemStarted, LegacyStarted, Drop, turnVars, toolVars, toolEvents
<1>5. /\ finalAnswerIDs' \subseteq Items /\ subagentActivities' \subseteq Items
      /\ tasks' \in [Items -> Nat]
  <2>1. finalAnswerIDs' \subseteq Items
    BY DEF ItemStarted, LegacyStarted, Drop, TypeOK
  <2>2. SubagentActivity(i) \/ UNCHANGED <<subagentActivities, tasks>>
    BY DEF ItemStarted, LegacyStarted, Drop
  <2>3. QED BY <2>1, <2>2, ActivityType
<1>6. TypeOK'
  BY <1>2, <1>3, <1>4, <1>5 DEF TypeOK, ItemType
<1>7. QED BY <1>2, <1>3, <1>4, <1>6

LEMMA CompletedType ==
  ASSUME TypeInv, ItemInv, NEW i \in Items, NEW given \in BOOLEAN,
         ItemCompleted(i, given) \/ LegacyCompleted(i, given)
  PROVE  TypeInv'
<1> USE DEF TypeInv
<1>1. PICK notice \in {"item/completed", "legacy/completed"} : CodexSends(i, notice)
  BY DEF ItemCompleted, LegacyCompleted
<1>2. /\ item' \in [Items -> ItemType]
      /\ \A j \in Items : item'[j].deltas = item[j].deltas
      /\ UNCHANGED <<turn, running, spoken, spent>>
  BY <1>1, Sends DEF Notices
<1>3. UNCHANGED <<threadID, turnVars, finalAnswerIDs, startedTools, toolNames, called>>
  BY DEF ItemCompleted, LegacyCompleted, Drop, toolVars, toolEvents
<1>4. /\ completedTools' \subseteq startedTools
      /\ toolOutput' \in [Items -> 0..MaxDeltas]
      /\ \A j \in Items : toolOutput'[j] <= item[j].deltas
      /\ results' \in [Items -> Seq([name : Names, output : Outputs, given : BOOLEAN])]
  <2>1. MaxDeltas \in Nat /\ \A j \in Items : item[j].deltas \in Nat
    BY ItemFields, TranslationAssumption
  <2>2. CASE UNCHANGED <<completedTools, toolOutput, results>>
    BY <2>2 DEF TypeOK
  <2>3. ASSUME NEW n, Tool(i), OnThisThread(item[i].thread),
               EmitToolResultOnce(i, given, n)
        PROVE  /\ completedTools' \subseteq startedTools
               /\ toolOutput' \in [Items -> 0..MaxDeltas]
               /\ \A j \in Items : toolOutput'[j] <= item[j].deltas
               /\ results' \in [Items -> Seq([name : Names, output : Outputs, given : BOOLEAN])]
    <3>1. Opened(i) /\ Live(i)
      BY <1>1 DEF ItemCompleted, LegacyCompleted, Opened, CodexSends
    <3>2. i \in startedTools
      BY <2>3, <3>1, Heard
    <3>3. /\ completedTools' \subseteq startedTools
          /\ toolOutput' \in [Items -> 0..MaxDeltas]
          /\ \A j \in Items : toolOutput'[j] <= toolOutput[j]
          /\ results' \in
               [Items -> Seq([name : Names, output : Outputs, given : BOOLEAN])]
      BY <2>3, <3>2, ResultType
    <3>4. toolOutput \in [Items -> 0..MaxDeltas]
      BY DEF TypeOK
    <3>5. \A j \in Items : toolOutput'[j] <= item[j].deltas
      BY <2>1, <3>3, <3>4
    <3>6. QED BY <3>3, <3>5
  <2>4. Sent(i, "legacy/started") => Tool(i)
    BY DEF ItemInv, InOrder
  <2>5. QED
    BY <2>2, <2>3, <2>4 DEF ItemCompleted, LegacyCompleted, Drop, toolVars, toolEvents, Tool
<1>5. subagentActivities' \subseteq Items /\ tasks' \in [Items -> Nat]
  BY ActivityType DEF ItemCompleted, LegacyCompleted, Drop
<1>6. TypeOK'
  BY <1>2, <1>3, <1>4, <1>5 DEF TypeOK, ItemType, turnVars
<1>7. QED BY <1>2, <1>3, <1>4, <1>6

LEMMA DeltaType ==
  ASSUME TypeInv, NEW i \in Items, OutputDelta(i) \/ AgentMessageDelta(i)
  PROVE  TypeInv'
<1> USE DEF TypeInv
<1>1. /\ item' \in [Items -> ItemType]
      /\ \A j \in Items \ {i} : item'[j] = item[j]
      /\ item'[i].deltas = item[i].deltas + 1
      /\ UNCHANGED <<turn, running, spent>>
  BY Streams DEF OutputDelta, AgentMessageDelta
<1>2. /\ \A j \in Items : item[j].deltas \in Nat
      /\ item'[i].deltas \in 0..MaxDeltas /\ MaxDeltas \in Nat
  BY <1>1, ItemFields, TranslationAssumption DEF ItemType
<1>3. toolOutput \in [Items -> 0..MaxDeltas]
  BY DEF TypeOK
<1>4. /\ toolOutput' \in [Items -> 0..MaxDeltas]
      /\ \A j \in Items : toolOutput'[j] <= item'[j].deltas
  <2>1. CASE toolOutput' = toolOutput
    BY <1>1, <1>2, <1>3, <2>1
  <2>2. CASE toolOutput' = [toolOutput EXCEPT ![i] = @ + 1]
    <3>1. toolOutput[i] + 1 <= item'[i].deltas /\ toolOutput[i] + 1 \in 0..MaxDeltas
      BY <1>1, <1>2, <1>3
    <3>2. QED BY <1>1, <1>3, <2>2, <3>1
  <2>3. QED BY <2>1, <2>2 DEF OutputDelta, AgentMessageDelta, Drop, toolVars
<1>5. spoken' \in Seq(Items)
  <2>1. spoken \in Seq(Items)
    BY DEF TypeOK
  <2>2. QED BY <2>1, AppendProperties DEF OutputDelta, AgentMessageDelta
<1>6. text' \in [Threads -> Seq(Items)]
  <2>1. text \in [Threads -> Seq(Items)] /\ item[i].thread \in Threads
    BY ItemFields DEF TypeOK
  <2>2. Append(text[item[i].thread], i) \in Seq(Items)
    BY <2>1, AppendProperties
  <2>3. QED BY <2>1, <2>2 DEF OutputDelta, AgentMessageDelta, Drop, turnVars
<1>7. UNCHANGED <<threadID, toolCalls, usage, finalAnswerIDs, startedTools,
                  completedTools, toolNames, subagentActivities, called, results, tasks>>
  BY DEF OutputDelta, AgentMessageDelta, Drop, turnVars, toolVars, toolEvents
<1>8. TypeOK'
  BY <1>1, <1>4, <1>5, <1>6, <1>7 DEF TypeOK, ItemType
<1>9. QED BY <1>1, <1>4, <1>7, <1>8

LEMMA UsageType ==
  ASSUME TypeInv, NEW t \in Threads, NEW size \in Sizes, TokenUsageUpdated(t, size)
  PROVE  TypeInv'
<1> USE DEF TypeInv
<1>1. spent' \in Seq(Sizes)
  <2>1. spent \in Seq(Sizes)
    BY DEF TypeOK
  <2>2. QED BY <2>1, AppendProperties DEF TokenUsageUpdated
<1>2. usage' \in [Threads -> [total : Nat, context : Sizes \cup {0}]]
  <2>1. usage \in [Threads -> [total : Nat, context : Sizes \cup {0}]]
    BY DEF TypeOK
  <2>2. AddCall(usage[t], size) \in [total : Nat, context : Sizes \cup {0}]
    BY <2>1, TranslationAssumption DEF AddCall
  <2>3. QED BY <2>1, <2>2 DEF TokenUsageUpdated
<1>3. QED
  BY <1>1, <1>2 DEF TokenUsageUpdated, TypeOK, toolVars, toolEvents

LEMMA TurnType ==
  ASSUME TypeInv, ItemInv, NEW t \in Threads, TurnCompleted(t) \/ TurnFailed(t)
  PROVE  TypeInv'
<1> USE DEF TypeInv
<1>1. /\ running' \subseteq running
      /\ UNCHANGED <<turn, item, spoken, spent, threadID, called, results, tasks>>
  BY DEF TurnCompleted, TurnFailed, CodexEndsTurn, Drop, toolEvents
<1>2. CASE Drop
  BY <1>1, <1>2 DEF Drop, turnVars, toolVars, TypeOK
<1>3. CASE ResetTurn(t) /\ OnThisThread(t)
  <2>1. IsFiniteSet(startedTools') /\ Cardinality(startedTools') = 0
    BY <1>3, FS_EmptySet DEF ResetTurn
  <2>2. toolCalls' \in [Threads -> 0..Cardinality(startedTools')]
    <3>1. t = "own"
      BY <1>3 DEF TurnCompleted, TurnFailed, CodexEndsTurn, OnThisThread, ItemInv,
                  ThreadKnown, Unnamed
    <3>2. toolCalls["child"] = 0 /\ toolCalls \in [Threads -> 0..Cardinality(startedTools)]
      BY DEF ItemInv, ThreadKnown, TypeOK
    <3>3. QED BY <1>3, <2>1, <3>1, <3>2 DEF ResetTurn, Threads
  <2>3. text' \in [Threads -> Seq(Items)]
    <3>1. text \in [Threads -> Seq(Items)] /\ <<>> \in Seq(Items)
      BY DEF TypeOK
    <3>2. QED BY <1>3, <3>1 DEF ResetTurn
  <2>4. usage' \in [Threads -> [total : Nat, context : Sizes \cup {0}]]
    BY <1>3 DEF ResetTurn, TypeOK, NoUsage
  <2>5. /\ toolOutput' \in [Items -> 0..MaxDeltas]
        /\ \A i \in Items : toolOutput'[i] <= item'[i].deltas
    <3>1. MaxDeltas \in Nat /\ \A i \in Items : item[i].deltas \in Nat
      BY ItemFields, TranslationAssumption
    <3>2. QED BY <1>1, <1>3, <3>1 DEF ResetTurn
  <2>6. toolNames' \in [Items -> Names \cup {NoName}]
    BY <1>3 DEF ResetTurn
  <2>7. /\ finalAnswerIDs' = {} /\ startedTools' = {} /\ completedTools' = {}
        /\ subagentActivities' = {}
    BY <1>3 DEF ResetTurn
  <2>8. TypeOK'
    BY <1>1, <2>2, <2>3, <2>4, <2>5, <2>6, <2>7 DEF TypeOK
  <2>9. QED BY <1>1, <2>1, <2>5, <2>8
<1>4. QED BY <1>2, <1>3 DEF TurnCompleted, TurnFailed

LEMMA CodexType ==
  ASSUME TypeInv, SetSessionID \/ Codex \/ UNCHANGED vars
  PROVE  TypeInv'
<1> USE DEF TypeInv
<1>1. ASSUME NEW t \in Threads, CodexStartsTurn(t) PROVE TypeInv'
  <2>1. turn' \in [Threads -> Nat] /\ \A u \in Threads : turn'[u] \in 0..MaxTurns[u]
    <3>1. \A u \in Threads : MaxTurns[u] \in Nat /\ turn[u] \in 0..MaxTurns[u]
      BY TranslationAssumption DEF TypeOK
    <3>2. turn' = [turn EXCEPT ![t] = @ + 1] /\ turn[t] < MaxTurns[t]
      BY <1>1 DEF CodexStartsTurn
    <3>3. QED BY <3>1, <3>2
  <2>2. spoken' \in Seq(Items) /\ spent' \in Seq(Sizes)
    <3>1. spoken' \in {spoken, <<>>} /\ spent' \in {spent, <<>>}
      BY <1>1 DEF CodexStartsTurn
    <3>2. spoken \in Seq(Items) /\ spent \in Seq(Sizes)
      BY DEF TypeOK
    <3>3. <<>> \in Seq(Items) /\ <<>> \in Seq(Sizes)
      OBVIOUS
    <3>4. spoken' \in Seq(Items)
      BY <3>1, <3>2, <3>3
    <3>5. spent' \in Seq(Sizes)
      BY <3>1, <3>2, <3>3
    <3>6. QED BY <3>4, <3>5
  <2>3. QED
    BY <1>1, <2>1, <2>2 DEF CodexStartsTurn, TypeOK, turnVars, toolVars, toolEvents
<1>2. ASSUME NEW t \in Threads, NEW i \in Items, NEW k \in Kinds, CodexOpensItem(i, t, k)
      PROVE  TypeInv'
  <2>1. /\ item' \in [Items -> ItemType]
        /\ \A j \in Items : item'[j].deltas = item[j].deltas
    BY <1>2, Opens
  <2>2. QED
    BY <1>2, <2>1 DEF CodexOpensItem, TypeOK, ItemType, turnVars, toolVars, toolEvents
<1>3. CASE SetSessionID \/ UNCHANGED vars
  BY <1>3 DEF SetSessionID, vars, codexVars, turnVars, toolVars, toolEvents, TypeOK
<1>4. QED BY <1>1, <1>2, <1>3 DEF Codex

LEMMA TypeNext == TypeInv /\ ItemInv /\ [Next]_vars => TypeInv'
BY StartedType, CompletedType, DeltaType, UsageType, TurnType, CodexType
   DEF Next, Handlers

-----------------------------------------------------------------------------
(* What is emitted. *)

LEMMA ItemInit == Init => ItemInv
BY DEF Init, ItemInv, ThreadKnown, InOrder, Remembered, Emitted, Unused, Item, Live, Own,
       Tool, Activity, Sent, Opened, Closed, Kinds, ToolKinds, Threads

\* Nothing new was said or emitted of the item; its turn may have ended.
LEMMA Untouched ==
  ASSUME TypeInv, TypeInv', NEW i \in Items, InOrder(i), Remembered(i), Emitted(i),
         item'[i] = item[i], turn[item[i].thread] <= turn'[item[i].thread],
         Live(i)' => Live(i),
         i \in startedTools' <=> i \in startedTools,
         i \in completedTools' <=> i \in completedTools,
         i \in subagentActivities' <=> i \in subagentActivities,
         toolNames'[i] = toolNames[i], toolOutput'[i] = toolOutput[i],
         called'[i] = called[i], results'[i] = results[i], tasks'[i] = tasks[i]
  PROVE  InOrder(i)' /\ Remembered(i)' /\ Emitted(i)'
<1>1. item[i].turn \in Nat /\ item[i].thread \in Threads
  BY ItemFields DEF TypeInv
<1>2. turn[item[i].thread] \in Nat /\ turn'[item[i].thread] \in Nat
  BY <1>1 DEF TypeInv
<1>3. InOrder(i)'
  BY <1>1, <1>2 DEF InOrder, Sent, Tool
<1>4. Remembered(i)'
  BY DEF Remembered, Own, Tool, Activity, Opened, Closed, Sent
<1>5. Emitted(i)'
  BY DEF Emitted, ResultOf, Own, Tool, Activity, Opened, Closed, Sent
<1>6. QED BY <1>3, <1>4, <1>5

LEMMA StartedItem ==
  ASSUME TypeInv, ItemInv, TypeInv', NEW i \in Items, ItemStarted(i) \/ LegacyStarted(i)
  PROVE  ItemInv'
<1>1. PICK notice \in {"item/started", "legacy/started"} :
        /\ CodexSends(i, notice)
        /\ notice = "legacy/started" => Tool(i)
  BY DEF ItemStarted, LegacyStarted, Tool
<1>2. /\ \A j \in Items \ {i} : item'[j] = item[j]
      /\ item'[i].sent = item[i].sent \cup {notice}
      /\ item'[i].kind = item[i].kind /\ item'[i].thread = item[i].thread
      /\ item'[i].turn = item[i].turn /\ item'[i].deltas = item[i].deltas
      /\ UNCHANGED <<turn, running, spoken, spent>>
  BY <1>1, Sends DEF Notices, TypeInv
<1>3. Live(i) /\ (OnThisThread(item[i].thread) <=> Own(i))
  BY <1>1, Heard DEF CodexSends
<1>4. InOrder(i) /\ Remembered(i) /\ Emitted(i)
  BY DEF ItemInv
<1>5. UNCHANGED <<threadID, completedTools, toolOutput, results>>
  BY DEF ItemStarted, LegacyStarted, Drop, turnVars, toolVars, toolEvents
<1>6. \/ Own(i) /\ Tool(i) /\ EmitToolCallOnce(i)
      \/ ~(Own(i) /\ Tool(i)) /\ UNCHANGED <<startedTools, toolNames, toolCalls, called>>
  BY <1>3 DEF ItemStarted, LegacyStarted, Drop, turnVars, toolVars, toolEvents, Tool
<1>7. \/ Own(i) /\ Activity(i) /\ SubagentActivity(i)
      \/ ~(Own(i) /\ Activity(i)) /\ UNCHANGED <<subagentActivities, tasks>>
  BY <1>3 DEF ItemStarted, LegacyStarted, Drop, Activity, ToolKinds
<1>8. /\ i \in startedTools' <=> i \in startedTools \/ (Own(i) /\ Tool(i))
      /\ i \in startedTools' => toolNames'[i] = CallName(item[i].kind)
      /\ called'[i] = IF Tool(i) /\ Own(i) THEN <<CallName(item[i].kind)>> ELSE <<>>
      /\ toolCalls'["child"] = toolCalls["child"]
      /\ \A j \in Items \ {i} :
           /\ j \in startedTools' <=> j \in startedTools
           /\ toolNames'[j] = toolNames[j] /\ called'[j] = called[j]
  <2>1. CASE Own(i) /\ Tool(i) /\ EmitToolCallOnce(i)
    <3>1. CASE i \in startedTools
      BY <1>4, <2>1, <3>1 DEF EmitToolCallOnce, Remembered, Emitted
    <3>2. CASE i \notin startedTools
      <4>1. called[i] = <<>>
        BY <1>3, <1>4, <2>1, <3>2 DEF Remembered, Emitted
      <4>2. /\ startedTools' = startedTools \cup {i}
            /\ toolNames' = [toolNames EXCEPT ![i] = CallName(item[i].kind)]
            /\ toolCalls' = [toolCalls EXCEPT !["own"] = @ + 1]
            /\ called' = [called EXCEPT ![i] = Append(@, CallName(item[i].kind))]
        BY <2>1, <3>2 DEF EmitToolCallOnce, Own
      <4>3. /\ toolNames \in [Items -> Names \cup {NoName}]
            /\ called \in [Items -> Seq(Names)]
            /\ toolCalls \in [Threads -> 0..Cardinality(startedTools)]
        BY DEF TypeInv, TypeOK
      <4>4. called'[i] = <<CallName(item[i].kind)>>
        BY <4>1, <4>2, <4>3
      <4>5. QED BY <2>1, <4>2, <4>3, <4>4 DEF Threads
    <3>3. QED BY <3>1, <3>2
  <2>2. CASE ~(Own(i) /\ Tool(i)) /\ UNCHANGED <<startedTools, toolNames, toolCalls, called>>
    BY <1>4, <2>2 DEF Remembered, Emitted
  <2>3. QED BY <1>6, <2>1, <2>2
<1>9. /\ i \in subagentActivities' <=> i \in subagentActivities \/ (Own(i) /\ Activity(i))
      /\ tasks'[i] = IF Activity(i) /\ Own(i) THEN 1 ELSE 0
      /\ \A j \in Items \ {i} :
           (j \in subagentActivities' <=> j \in subagentActivities) /\ tasks'[j] = tasks[j]
  <2>1. tasks \in [Items -> Nat]
    BY DEF TypeInv, TypeOK
  <2>2. CASE Own(i) /\ Activity(i) /\ SubagentActivity(i)
    <3>1. tasks[i] = IF i \in subagentActivities THEN 1 ELSE 0
      BY <1>3, <1>4, <2>2 DEF Remembered, Emitted
    <3>2. QED BY <2>1, <2>2, <3>1 DEF SubagentActivity
  <2>3. CASE ~(Own(i) /\ Activity(i)) /\ UNCHANGED <<subagentActivities, tasks>>
    BY <1>4, <2>3 DEF Emitted
  <2>4. QED BY <1>7, <2>2, <2>3
<1>10. ThreadKnown'
  BY <1>2, <1>5, <1>8 DEF ItemInv, ThreadKnown
<1>11. ASSUME NEW j \in Items \ {i} PROVE InOrder(j)' /\ Remembered(j)' /\ Emitted(j)'
  <2>1. item[j].thread \in Threads /\ Live(j)' = Live(j)
        /\ turn[item[j].thread] \in Nat /\ InOrder(j) /\ Remembered(j) /\ Emitted(j)
    BY <1>2, ItemFields DEF Live, TypeInv, ItemInv
  <2>2. QED BY <1>2, <1>5, <1>8, <1>9, <2>1, Untouched
<1>12. /\ Opened(i)' /\ (Closed(i)' <=> Closed(i)) /\ (Own(i)' <=> Own(i))
       /\ (Tool(i)' <=> Tool(i)) /\ (Activity(i)' <=> Activity(i))
       /\ (Live(i)' <=> Live(i)) /\ item[i].kind # "none"
  BY <1>1, <1>2, <1>3 DEF Opened, Closed, Sent, Own, Tool, Activity, Live, Kinds, ToolKinds
<1>13. InOrder(i)'
  BY <1>1, <1>2, <1>4, <1>12 DEF InOrder, Sent
<1>14. Remembered(i)'
  BY <1>2, <1>4, <1>5, <1>8, <1>9, <1>12 DEF Remembered
<1>15. Emitted(i)'
  BY <1>2, <1>4, <1>5, <1>8, <1>9, <1>12 DEF Emitted, ResultOf
<1>16. QED BY <1>10, <1>11, <1>13, <1>14, <1>15 DEF ItemInv

LEMMA CompletedItem ==
  ASSUME TypeInv, ItemInv, TypeInv', NEW i \in Items, NEW given \in BOOLEAN,
         ItemCompleted(i, given) \/ LegacyCompleted(i, given)
  PROVE  ItemInv'
<1>1. PICK notice \in {"item/completed", "legacy/completed"} :
        /\ CodexSends(i, notice)
        /\ notice = "item/completed" => Sent(i, "item/started")
        /\ notice = "legacy/completed" => Sent(i, "legacy/started")
        /\ Own(i) /\ Tool(i) => EmitToolResultOnce(i, given, notice)
  <2>1. CASE ItemCompleted(i, given)
    BY <2>1, Heard DEF ItemCompleted, CodexSends, Tool
  <2>2. CASE LegacyCompleted(i, given)
    BY <2>2, Heard DEF LegacyCompleted, CodexSends
  <2>3. QED BY <2>1, <2>2
<1>2. /\ \A j \in Items \ {i} : item'[j] = item[j]
      /\ item'[i].sent = item[i].sent \cup {notice}
      /\ item'[i].kind = item[i].kind /\ item'[i].thread = item[i].thread
      /\ item'[i].turn = item[i].turn /\ item'[i].deltas = item[i].deltas
      /\ UNCHANGED <<turn, running, spoken, spent>>
  BY <1>1, Sends DEF Notices, TypeInv
<1>3. /\ Live(i) /\ Opened(i) /\ (OnThisThread(item[i].thread) <=> Own(i))
      /\ InOrder(i) /\ Remembered(i) /\ Emitted(i)
  BY <1>1, Heard DEF CodexSends, Opened, ItemInv
<1>4. UNCHANGED <<threadID, toolCalls, startedTools, toolNames, called>>
  BY DEF ItemCompleted, LegacyCompleted, Drop, turnVars, toolVars, toolEvents
<1>5. Sent(i, "legacy/started") => Tool(i)
  BY <1>3 DEF InOrder
<1>6. ~(Own(i) /\ Tool(i)) => UNCHANGED <<completedTools, toolOutput, results>>
  BY <1>3, <1>5 DEF ItemCompleted, LegacyCompleted, Drop, toolVars, toolEvents, Tool
<1>7. /\ i \in completedTools' <=> i \in completedTools \/ (Own(i) /\ Tool(i))
      /\ IF Tool(i) /\ Own(i) THEN \E g \in BOOLEAN : results'[i] = <<ResultOf(i, g)>>
         ELSE results'[i] = <<>>
      /\ \A j \in Items \ {i} :
           /\ j \in completedTools' <=> j \in completedTools
           /\ toolOutput'[j] = toolOutput[j] /\ results'[j] = results[j]
  <2>1. CASE Own(i) /\ Tool(i)
    <3>1. EmitToolResultOnce(i, given, notice) /\ toolOutput \in [Items -> 0..MaxDeltas]
      BY <1>1, <2>1 DEF TypeInv, TypeOK
    <3>2. \A j \in Items \ {i} : toolOutput'[j] = toolOutput[j]
      BY <3>1 DEF EmitToolResultOnce
    <3>3. CASE i \in completedTools
      BY <1>3, <2>1, <3>1, <3>2, <3>3 DEF EmitToolResultOnce, Remembered, Emitted
    <3>4. CASE i \notin completedTools
      <4> DEFINE name == ResultName(i, CompletionName(item[i].kind, notice))
      <4> DEFINE r == [name |-> name, output |-> TakenOutput(i, given, notice), given |-> given]
      <4>1. ~Closed(i) /\ results[i] = <<>>
        BY <1>3, <2>1, <3>4 DEF Remembered, Emitted
      <4>2. name = CallName(item[i].kind)
        BY <1>3, <2>1 DEF Remembered, ResultName, CallName, NoName
      <4>3. TakenOutput(i, given, notice) =
              IF given \/ item[i].kind = "mcp" THEN CodexOutput ELSE Streamed(item[i].deltas)
        BY <1>3, <2>1, <4>1 DEF TakenOutput, Remembered, Tool, ToolKinds
      <4>4. r = ResultOf(i, given)
        BY <4>2, <4>3 DEF ResultOf
      <4>5. /\ completedTools' = completedTools \cup {i}
            /\ results' = [results EXCEPT ![i] = Append(@, r)]
        BY <3>1, <3>4 DEF EmitToolResultOnce
      <4> HIDE DEF r
      <4>6. results \in [Items -> Seq([name : Names, output : Outputs, given : BOOLEAN])]
        BY DEF TypeInv, TypeOK
      <4>7. results'[i] = <<r>>
        BY <4>1, <4>5, <4>6
      <4>8. QED BY <2>1, <3>2, <4>4, <4>5, <4>6, <4>7
    <3>5. QED BY <3>3, <3>4
  <2>2. CASE ~(Own(i) /\ Tool(i))
    BY <1>3, <1>6, <2>2 DEF Remembered, Emitted
  <2>3. QED BY <2>1, <2>2
<1>8. /\ i \in subagentActivities' <=> i \in subagentActivities \/ (Own(i) /\ Activity(i))
      /\ tasks'[i] = tasks[i]
      /\ \A j \in Items \ {i} :
           (j \in subagentActivities' <=> j \in subagentActivities) /\ tasks'[j] = tasks[j]
  <2>1. CASE Own(i) /\ Activity(i)
    <3>1. i \in subagentActivities
      BY <1>3, <2>1 DEF Remembered
    <3>2. SubagentActivity(i) \/ UNCHANGED <<subagentActivities, tasks>>
      BY DEF ItemCompleted, LegacyCompleted, Drop
    <3>3. QED BY <2>1, <3>1, <3>2 DEF SubagentActivity
  <2>2. CASE ~(Own(i) /\ Activity(i))
    BY <1>3, <2>2 DEF ItemCompleted, LegacyCompleted, Drop, Activity
  <2>3. QED BY <2>1, <2>2
<1>9. ThreadKnown'
  BY <1>2, <1>4 DEF ItemInv, ThreadKnown
<1>10. ASSUME NEW j \in Items \ {i} PROVE InOrder(j)' /\ Remembered(j)' /\ Emitted(j)'
  <2>1. item[j].thread \in Threads /\ Live(j)' = Live(j)
        /\ turn[item[j].thread] \in Nat /\ InOrder(j) /\ Remembered(j) /\ Emitted(j)
    BY <1>2, ItemFields DEF Live, TypeInv, ItemInv
  <2>2. QED BY <1>2, <1>4, <1>7, <1>8, <2>1, Untouched
<1>11. /\ Opened(i)' /\ Closed(i)' /\ (Own(i)' <=> Own(i))
       /\ (Tool(i)' <=> Tool(i)) /\ (Activity(i)' <=> Activity(i))
       /\ (Live(i)' <=> Live(i)) /\ item[i].kind # "none"
       /\ \A g \in BOOLEAN : ResultOf(i, g)' = ResultOf(i, g)
  BY <1>1, <1>2, <1>3
     DEF Opened, Closed, Sent, Own, Tool, Activity, Live, Kinds, ToolKinds, ResultOf
<1>12. InOrder(i)'
  BY <1>1, <1>2, <1>3, <1>11 DEF InOrder, Sent
<1>13. Remembered(i)'
  BY <1>2, <1>3, <1>4, <1>7, <1>8, <1>11 DEF Remembered
<1>14. Emitted(i)'
  BY <1>2, <1>3, <1>4, <1>7, <1>8, <1>11 DEF Emitted
<1>15. QED BY <1>9, <1>10, <1>12, <1>13, <1>14 DEF ItemInv

LEMMA DeltaItem ==
  ASSUME TypeInv, ItemInv, TypeInv', NEW i \in Items, OutputDelta(i) \/ AgentMessageDelta(i)
  PROVE  ItemInv'
<1>1. CodexStreams(i) /\ Live(i) /\ Opened(i) /\ ~Closed(i) /\ item[i].kind \notin {"mcp", "none"}
  BY DEF OutputDelta, AgentMessageDelta, CodexStreams
<1>2. /\ \A j \in Items \ {i} : item'[j] = item[j]
      /\ item'[i].deltas = item[i].deltas + 1
      /\ item'[i].kind = item[i].kind /\ item'[i].thread = item[i].thread
      /\ item'[i].turn = item[i].turn /\ item'[i].sent = item[i].sent
      /\ UNCHANGED <<turn, running>>
  BY <1>1, Streams DEF TypeInv
<1>3. (OnThisThread(item[i].thread) <=> Own(i)) /\ InOrder(i) /\ Remembered(i) /\ Emitted(i)
  BY <1>1, Heard DEF ItemInv
<1>4. UNCHANGED <<threadID, toolCalls, startedTools, completedTools, toolNames,
                  subagentActivities, called, results, tasks>>
  BY DEF OutputDelta, AgentMessageDelta, Drop, turnVars, toolVars, toolEvents
<1>5. /\ Own(i) /\ item[i].kind = "command" => toolOutput'[i] = toolOutput[i] + 1
      /\ \A j \in Items \ {i} : toolOutput'[j] = toolOutput[j]
  <2>1. toolOutput \in [Items -> 0..MaxDeltas]
    BY DEF TypeInv, TypeOK
  <2>2. QED BY <1>3, <2>1 DEF OutputDelta, AgentMessageDelta, Drop, toolVars
<1>6. ThreadKnown'
  BY <1>2, <1>4 DEF ItemInv, ThreadKnown
<1>7. ASSUME NEW j \in Items \ {i} PROVE InOrder(j)' /\ Remembered(j)' /\ Emitted(j)'
  <2>1. item[j].thread \in Threads /\ Live(j)' = Live(j)
        /\ turn[item[j].thread] \in Nat /\ InOrder(j) /\ Remembered(j) /\ Emitted(j)
    BY <1>2, ItemFields DEF Live, TypeInv, ItemInv
  <2>2. QED BY <1>2, <1>4, <1>5, <2>1, Untouched
<1>8. /\ (Opened(i)' <=> Opened(i)) /\ ~Closed(i)' /\ (Own(i)' <=> Own(i))
      /\ (Tool(i)' <=> Tool(i)) /\ (Activity(i)' <=> Activity(i))
      /\ (Live(i)' <=> Live(i))
  BY <1>1, <1>2 DEF Opened, Closed, Sent, Own, Tool, Activity, Live
<1>9. InOrder(i)'
  BY <1>1, <1>2, <1>3, <1>8 DEF InOrder, Sent
<1>10. Remembered(i)'
  BY <1>1, <1>2, <1>3, <1>4, <1>5, <1>8 DEF Remembered
<1>11. Emitted(i)'
  BY <1>1, <1>2, <1>3, <1>4, <1>8 DEF Emitted
<1>12. QED BY <1>6, <1>7, <1>9, <1>10, <1>11 DEF ItemInv

LEMMA TurnItem ==
  ASSUME TypeInv, ItemInv, TypeInv', NEW t \in Threads, TurnCompleted(t) \/ TurnFailed(t)
  PROVE  ItemInv'
<1>1. /\ running' = running \ {t} /\ t \in running
      /\ UNCHANGED <<turn, item, threadID, called, results, tasks>>
  BY DEF TurnCompleted, TurnFailed, CodexEndsTurn, Drop, toolEvents
<1>2. OnThisThread(t) <=> t = "own"
  BY <1>1 DEF ItemInv, ThreadKnown, OnThisThread, Unnamed
<1>3. \A i \in Items : /\ item[i].thread \in Threads
                       /\ Live(i)' => Live(i)
                       /\ turn[item[i].thread] \in Nat
                       /\ InOrder(i) /\ Remembered(i) /\ Emitted(i)
  BY <1>1, ItemFields DEF Live, TypeInv, ItemInv
<1>4. CASE t # "own"
  <2>1. Drop
    BY <1>2, <1>4 DEF TurnCompleted, TurnFailed
  <2>2. UNCHANGED <<startedTools, completedTools, subagentActivities, toolNames, toolOutput,
                    toolCalls>>
    BY <2>1 DEF Drop, turnVars, toolVars
  <2>3. ASSUME NEW i \in Items PROVE InOrder(i)' /\ Remembered(i)' /\ Emitted(i)'
    <3>1. /\ item'[i] = item[i] /\ turn[item[i].thread] <= turn'[item[i].thread]
          /\ InOrder(i) /\ Remembered(i) /\ Emitted(i)
      BY <1>1, <1>3
    <3>2. Live(i)' => Live(i)
      BY <1>3
    <3>3. QED BY <1>1, <2>2, <3>1, <3>2, Untouched
  <2>4. ThreadKnown'
    BY <1>1, <2>2 DEF ItemInv, ThreadKnown
  <2>5. QED BY <2>3, <2>4 DEF ItemInv
<1>5. CASE t = "own"
  <2>1. ResetTurn("own")
    BY <1>2, <1>5 DEF TurnCompleted, TurnFailed
  <2>2. /\ startedTools' = {} /\ completedTools' = {} /\ subagentActivities' = {}
        /\ \A i \in Items : toolOutput'[i] = 0
        /\ toolCalls'["child"] = toolCalls["child"]
    BY <2>1 DEF ResetTurn, TypeInv, TypeOK, Threads
  <2>3. ASSUME NEW i \in Items PROVE InOrder(i)' /\ Remembered(i)' /\ Emitted(i)'
    <3>1. ~(Live(i)' /\ Own(i)')
      BY <1>1, <1>5 DEF Live, Own
    <3>2. InOrder(i)'
      BY <1>1, <1>3 DEF InOrder, Sent, Tool
    <3>3. Remembered(i)'
      BY <2>2, <3>1 DEF Remembered
    <3>4. Emitted(i)'
      BY <1>1, <1>3 DEF Emitted, ResultOf, Own, Tool, Activity, Opened, Closed, Sent
    <3>5. QED BY <3>2, <3>3, <3>4
  <2>4. ThreadKnown'
    BY <1>1, <2>2 DEF ItemInv, ThreadKnown
  <2>5. QED BY <2>3, <2>4 DEF ItemInv
<1>6. QED BY <1>4, <1>5

LEMMA OpensItem ==
  ASSUME TypeInv, ItemInv, TypeInv', NEW i \in Items, NEW t \in Threads, NEW k \in Kinds,
         CodexOpensItem(i, t, k)
  PROVE  ItemInv'
<1>1. /\ \A j \in Items \ {i} : item'[j] = item[j]
      /\ item[i].kind = "none" /\ item[i].deltas = 0
      /\ item'[i].kind = k /\ item'[i].thread = t /\ item'[i].turn = turn[t]
      /\ item'[i].sent = {} /\ item'[i].deltas = 0
  BY Opens DEF TypeInv
<1>2. t \in running
      /\ UNCHANGED <<turn, running, threadID, toolCalls, startedTools, completedTools,
                      toolNames, toolOutput, subagentActivities, called, results, tasks>>
  BY DEF CodexOpensItem, turnVars, toolVars, toolEvents
<1>3. \A j \in Items : /\ item[j].thread \in Threads /\ turn[item[j].thread] \in Nat
                       /\ InOrder(j) /\ Remembered(j) /\ Emitted(j)
  BY ItemFields DEF TypeInv, ItemInv
<1>4. ThreadKnown'
  BY <1>1, <1>2 DEF ItemInv, ThreadKnown
<1>5. ASSUME NEW j \in Items \ {i} PROVE InOrder(j)' /\ Remembered(j)' /\ Emitted(j)'
  <2>1. Live(j)' = Live(j)
    BY <1>1, <1>2 DEF Live
  <2>2. QED BY <1>1, <1>2, <1>3, <2>1, Untouched
<1>6. /\ ~Opened(i) /\ ~Closed(i) /\ ~Opened(i)' /\ ~Closed(i)'
      /\ ~Tool(i) /\ ~Activity(i)
  BY <1>1, <1>3 DEF Opened, Closed, Sent, InOrder, Tool, Activity, ToolKinds
<1>7. InOrder(i)'
  BY <1>1, <1>2 DEF InOrder, Sent, TypeInv, Kinds, ToolKinds
<1>8. Remembered(i)'
  BY <1>1, <1>2, <1>3, <1>6 DEF Remembered, Kinds, ToolKinds
<1>9. Emitted(i)'
  BY <1>2, <1>3, <1>6 DEF Emitted
<1>10. QED BY <1>4, <1>5, <1>7, <1>8, <1>9 DEF ItemInv

LEMMA StartsTurnItem ==
  ASSUME TypeInv, ItemInv, TypeInv', NEW t \in Threads, CodexStartsTurn(t)
  PROVE  ItemInv'
<1>1. /\ turn' = [turn EXCEPT ![t] = @ + 1] /\ running' = running \cup {t}
      /\ t = "own" => threadID = "own"
      /\ t = "child" => turn["own"] > 0
      /\ UNCHANGED <<item, threadID, toolCalls, startedTools, completedTools, toolNames,
                      toolOutput, subagentActivities, called, results, tasks>>
  BY DEF CodexStartsTurn, turnVars, toolVars, toolEvents
<1>2. threadID = "own"
  BY <1>1 DEF ItemInv, ThreadKnown, Threads
<1>3. ASSUME NEW i \in Items PROVE InOrder(i)' /\ Remembered(i)' /\ Emitted(i)'
  <2>1. /\ item[i].thread \in Threads /\ turn[item[i].thread] \in Nat /\ item[i].turn \in Nat
        /\ InOrder(i) /\ Remembered(i) /\ Emitted(i)
    BY ItemFields DEF TypeInv, ItemInv
  <2>2. /\ turn[item[i].thread] <= turn'[item[i].thread]
        /\ item[i].thread = t => turn'[item[i].thread] = turn[item[i].thread] + 1
        /\ item[i].thread # t => turn'[item[i].thread] = turn[item[i].thread]
    BY <1>1, <2>1 DEF TypeInv
  <2>3. Live(i)' => Live(i)
    BY <1>1, <2>1, <2>2 DEF Live, InOrder
  <2>4. QED BY <1>1, <2>1, <2>2, <2>3, Untouched
<1>4. ThreadKnown'
  BY <1>1, <1>2 DEF ItemInv, ThreadKnown
<1>5. QED BY <1>3, <1>4 DEF ItemInv

LEMMA OtherItem ==
  ASSUME TypeInv, ItemInv, TypeInv',
         \/ SetSessionID \/ UNCHANGED vars
         \/ \E t \in Threads, size \in Sizes : TokenUsageUpdated(t, size)
  PROVE  ItemInv'
<1>1. /\ threadID' \in {threadID, "own"}
      /\ UNCHANGED <<turn, running, item, toolCalls, startedTools, completedTools, toolNames,
                      toolOutput, subagentActivities, called, results, tasks>>
  BY DEF SetSessionID, TokenUsageUpdated, vars, codexVars, turnVars, toolVars, toolEvents
<1>2. ASSUME NEW i \in Items PROVE InOrder(i)' /\ Remembered(i)' /\ Emitted(i)'
  <2>1. /\ item[i].thread \in Threads /\ turn[item[i].thread] \in Nat
        /\ InOrder(i) /\ Remembered(i) /\ Emitted(i)
    BY ItemFields DEF TypeInv, ItemInv
  <2>2. Live(i)' => Live(i)
    BY <1>1 DEF Live
  <2>3. QED BY <1>1, <2>1, <2>2, Untouched
<1>3. ThreadKnown'
  BY <1>1 DEF ItemInv, ThreadKnown
<1>4. QED BY <1>2, <1>3 DEF ItemInv

LEMMA ItemNext == TypeInv /\ ItemInv /\ TypeInv' /\ [Next]_vars => ItemInv'
BY StartedItem, CompletedItem, DeltaItem, TurnItem, OpensItem, StartsTurnItem, OtherItem
   DEF Next, Handlers, Codex

LEMMA ItemAlways == Spec => [](TypeInv /\ ItemInv)
<1>1. Init => TypeInv /\ ItemInv
  BY TypeInit, ItemInit
<1>2. TypeInv /\ ItemInv /\ [Next]_vars => (TypeInv /\ ItemInv)'
  BY TypeNext, ItemNext
<1>3. QED BY <1>1, <1>2, PTL DEF Spec

\* Every reachable state of EventTranslation is of its type.
THEOREM TypeCorrect == Spec => []TypeOK
<1>1. TypeInv => TypeOK
  BY DEF TypeInv
<1>2. QED BY <1>1, ItemAlways, PTL

\* Each tool call of this thread, each result and each subagent activity is reported
\* exactly once, whichever dialects codex uses, and nothing of another thread is.
THEOREM AlwaysReportedOnce == Spec => []ReportedOnce
<1>1. ItemInv => ReportedOnce
  <2> SUFFICES ASSUME ItemInv, NEW i \in Items
               PROVE  /\ Len(called[i]) = IF Tool(i) /\ Own(i) /\ Opened(i) THEN 1 ELSE 0
                      /\ Len(results[i]) = IF Tool(i) /\ Own(i) /\ Closed(i) THEN 1 ELSE 0
                      /\ tasks[i] = IF Activity(i) /\ Own(i) /\ Opened(i) THEN 1 ELSE 0
    BY DEF ReportedOnce, Tool, Activity
  <2>1. Emitted(i)
    BY DEF ItemInv
  <2>2. Len(called[i]) = IF Tool(i) /\ Own(i) /\ Opened(i) THEN 1 ELSE 0
    BY <2>1 DEF Emitted
  <2>3. Len(results[i]) = IF Tool(i) /\ Own(i) /\ Closed(i) THEN 1 ELSE 0
    <3>1. CASE Tool(i) /\ Own(i) /\ Closed(i)
      <4>1. PICK given \in BOOLEAN : results[i] = <<ResultOf(i, given)>>
        BY <2>1, <3>1 DEF Emitted
      <4>2. QED BY <3>1, <4>1
    <3>2. CASE ~(Tool(i) /\ Own(i) /\ Closed(i))
      BY <2>1, <3>2 DEF Emitted
    <3>3. QED BY <3>1, <3>2
  <2>4. QED BY <2>1, <2>2, <2>3 DEF Emitted
<1>2. QED BY <1>1, ItemAlways, PTL

\* A result bears the name its call was reported under.
THEOREM ResultAlwaysMatches == Spec => []ResultMatchesCall
<1>1. TypeInv /\ ItemInv => ResultMatchesCall
  <2> SUFFICES ASSUME TypeInv, ItemInv, NEW i \in Items, results[i] # <<>>
               PROVE  called[i] # <<>> /\ results[i][1].name = called[i][1]
    BY DEF ResultMatchesCall
  <2>1. Emitted(i) /\ InOrder(i)
    BY DEF ItemInv
  <2>2. Tool(i) /\ Own(i) /\ Closed(i)
    BY <2>1 DEF Emitted
  <2>3. Opened(i)
    BY <2>1, <2>2 DEF InOrder, Opened, Closed
  <2>4. PICK given \in BOOLEAN : results[i] = <<ResultOf(i, given)>>
    BY <2>1, <2>2 DEF Emitted
  <2>5. called[i] = <<CallName(item[i].kind)>>
    BY <2>1, <2>2, <2>3 DEF Emitted
  <2>6. QED BY <2>4, <2>5 DEF ResultOf
<1>2. QED BY <1>1, ItemAlways, PTL

\* A command's result is the output its completion carried or every piece streamed.
THEOREM OutputAlwaysComplete == Spec => []OutputComplete
<1>1. TypeInv /\ ItemInv => OutputComplete
  <2> SUFFICES ASSUME TypeInv, ItemInv, NEW i \in Items, results[i] # <<>>
               PROVE  results[i][1].output =
                        IF results[i][1].given \/ item[i].kind = "mcp"
                        THEN CodexOutput ELSE Streamed(item[i].deltas)
    BY DEF OutputComplete
  <2>1. PICK given \in BOOLEAN : results[i] = <<ResultOf(i, given)>>
    BY DEF ItemInv, Emitted
  <2>2. QED BY <2>1 DEF ResultOf
<1>2. QED BY <1>1, ItemAlways, PTL

-----------------------------------------------------------------------------
(* The tokens of a turn's model calls. *)

\* g holds the tokens of the first calls.
PrefixSums(g, calls) ==
  /\ g \in [0..Len(calls) -> Nat] /\ g[0] = 0
  /\ \A n \in 1..Len(calls) : g[n] = g[n - 1] + calls[n]

LEMMA TokensAre ==
  ASSUME NEW calls \in Seq(Nat)
  PROVE  \E g : PrefixSums(g, calls) /\ TokensOf(calls) = g[Len(calls)]
<1> DEFINE step == [n \in 1..Len(calls) |-> [sum \in Nat |-> sum + calls[n]]]
           Def(g) == [n \in 0..Len(calls) |-> IF n = 0 THEN 0 ELSE g[n - 1] + calls[n]]
<1>1. Len(calls) \in Nat /\ \A n \in 1..Len(calls) : calls[n] \in Nat
  BY LenProperties, ElementOfSeq
<1>2. step \in [1..Len(calls) -> [Nat -> Nat]]
  <2>1. \A n \in 1..Len(calls), sum \in Nat : sum + calls[n] \in Nat
    BY <1>1
  <2>2. QED BY <2>1
<1>3. \A n \in 1..Len(calls), sum \in Nat : step[n][sum] = sum + calls[n]
  OBVIOUS
<1> HIDE DEF step
<1>4. PICK h : IsRecursion(h, Len(calls), Nat, 0, step)
  BY <1>1, <1>2, RecursionExists
<1>5. PrefixSums(h, calls)
  <2>1. ASSUME NEW n \in 1..Len(calls) PROVE h[n] = h[n - 1] + calls[n]
    <3>1. n - 1 \in 0..Len(calls)
      BY <1>1
    <3>2. h[n - 1] \in Nat /\ h[n] = step[n][h[n - 1]]
      BY <1>4, <3>1 DEF IsRecursion
    <3>3. QED BY <1>3, <3>2
  <2>2. QED BY <1>4, <2>1 DEF IsRecursion, PrefixSums
<1>6. h = Def(h)
  <2>1. h = [n \in 0..Len(calls) |-> h[n]]
    BY <1>5 DEF PrefixSums
  <2>2. ASSUME NEW n \in 0..Len(calls) PROVE h[n] = Def(h)[n]
    <3>1. n = 0 \/ n \in 1..Len(calls)
      BY <1>1
    <3>2. QED BY <1>5, <3>1 DEF PrefixSums
  <2>3. QED BY <2>1, <2>2
<1> DEFINE upTo == CHOOSE g : g = Def(g)
<1>7. upTo = Def(upTo)
  BY <1>6
<1>8. TokensOf(calls) = upTo[Len(calls)]
  BY DEF TokensOf
<1> HIDE DEF upTo
<1>9. \A n \in 0..Len(calls) : upTo[n] = h[n]
  <2>1. upTo[0] = h[0]
    <3>1. 0 \in 0..Len(calls)
      BY <1>1
    <3>2. upTo[0] = 0
      BY <1>7, <3>1
    <3>3. QED BY <1>5, <3>2 DEF PrefixSums
  <2>2. ASSUME NEW n \in 1..Len(calls), upTo[n - 1] = h[n - 1] PROVE upTo[n] = h[n]
    <3>1. n \in 0..Len(calls) /\ n # 0
      BY <1>1
    <3>2. upTo[n] = upTo[n - 1] + calls[n]
      BY <1>7, <3>1
    <3>3. QED BY <1>5, <2>2, <3>2 DEF PrefixSums
  <2>3. QED BY <1>1, <2>1, <2>2, RecursionUnique
<1>10. TokensOf(calls) = h[Len(calls)]
  BY <1>1, <1>8, <1>9
<1>11. QED BY <1>5, <1>10

LEMMA TokensOfNone == TokensOf(<<>>) = 0
<1>1. <<>> \in Seq(Nat) /\ Len(<<>>) = 0
  OBVIOUS
<1>2. QED BY <1>1, TokensAre DEF PrefixSums

LEMMA TokensOfOneMore ==
  ASSUME NEW calls \in Seq(Nat), NEW size \in Nat
  PROVE  TokensOf(Append(calls, size)) = TokensOf(calls) + size
<1>1. PICK more : more = Append(calls, size)
  OBVIOUS
<1>2. /\ more \in Seq(Nat) /\ Len(calls) \in Nat /\ Len(more) = Len(calls) + 1
      /\ more[Len(calls) + 1] = size
      /\ \A n \in 1..Len(calls) : more[n] = calls[n]
  BY <1>1, AppendProperties, LenProperties
<1>3. PICK g : PrefixSums(g, calls) /\ TokensOf(calls) = g[Len(calls)]
  BY TokensAre
<1>4. PICK h : PrefixSums(h, more) /\ TokensOf(more) = h[Len(more)]
  BY <1>2, TokensAre
<1>5. \A n \in 0..Len(calls) : g[n] = h[n]
  <2>1. g[0] = h[0]
    BY <1>3, <1>4 DEF PrefixSums
  <2>2. ASSUME NEW n \in 1..Len(calls), g[n - 1] = h[n - 1] PROVE g[n] = h[n]
    <3>1. n \in 1..Len(more)
      BY <1>2
    <3>2. g[n] = g[n - 1] + calls[n] /\ h[n] = h[n - 1] + more[n]
      BY <1>3, <1>4, <3>1 DEF PrefixSums
    <3>3. QED BY <1>2, <2>2, <3>2
  <2>3. Len(calls) \in Nat
    BY <1>2
  <2>4. QED BY <2>1, <2>2, <2>3, RecursionUnique
<1>6. Len(calls) + 1 \in 1..Len(more) /\ (Len(calls) + 1) - 1 = Len(calls)
  BY <1>2
<1>7. h[Len(more)] = h[Len(calls)] + size
  BY <1>2, <1>4, <1>6 DEF PrefixSums
<1>8. h[Len(calls)] = g[Len(calls)]
  BY <1>2, <1>5
<1>9. QED BY <1>1, <1>3, <1>4, <1>7, <1>8

-----------------------------------------------------------------------------
(* What a turn's report sums up. *)

\* The calls counted are those of the turn, and what is an answer is known.
OwnTurn ==
  /\ toolCalls["own"] = Cardinality(startedTools)
  /\ startedTools \subseteq ToolsOf("own", turn["own"])
  /\ \A i \in finalAnswerIDs : item[i].kind = "answer"
  /\ IF "own" \in running
     THEN /\ text["own"] = spoken /\ usage["own"].total = TokensOf(spent)
          /\ spent # <<>> => usage["own"].context = Last(spent)
          /\ \A i \in Items :
               Live(i) /\ Own(i) /\ item[i].kind = "answer" /\ Opened(i) => i \in finalAnswerIDs
     ELSE text["own"] = <<>> /\ usage["own"] = NoUsage /\ startedTools = {}

\* A turn that has ended: nothing of it can change any more.
Past(n) == n <= turn["own"] /\ ("own" \in running => n < turn["own"])

ReportType ==
  [turn : Nat, thread : Threads, text : Seq(Items), tools : Nat,
   usage : [total : Nat, context : Sizes \cup {0}], spoken : Seq(Items), spent : Seq(Sizes)]

Exact(r) ==
  /\ r.thread = "own" /\ r.text = r.spoken
  /\ r.tools = Cardinality(ToolsOf("own", r.turn))
  /\ r.usage.total = TokensOf(r.spent)
  /\ r.spent # <<>> => r.usage.context = Last(r.spent)

ReportInv ==
  /\ reports \in Seq(ReportType)
  /\ \A n \in DOMAIN reports : Past(reports[n].turn) /\ Exact(reports[n])

LEMMA ReportInit == Init => OwnTurn /\ ReportInv
<1> SUFFICES ASSUME Init PROVE OwnTurn /\ ReportInv
  OBVIOUS
<1>1. Cardinality(startedTools) = 0 /\ startedTools = {} /\ finalAnswerIDs = {}
  BY FS_EmptySet DEF Init
<1>2. "own" \notin running /\ toolCalls["own"] = 0 /\ text["own"] = <<>> /\ usage["own"] = NoUsage
  BY DEF Init, Threads
<1>3. reports \in Seq(ReportType) /\ DOMAIN reports = {}
  BY DEF Init
<1>4. QED BY <1>1, <1>2, <1>3 DEF OwnTurn, ReportInv

\* A step touches an item whose turn is running, or opens one.
LEMMA ItemSteps ==
  ASSUME TypeInv, [Next]_vars, NEW i \in Items
  PROVE  \/ item'[i] = item[i]
         \/ /\ Live(i) /\ item'[i].kind = item[i].kind
            /\ item'[i].thread = item[i].thread /\ item'[i].turn = item[i].turn
         \/ item[i].kind = "none" /\ item'[i].sent = {}
<1> DEFINE Touched == \/ item'[i] = item[i]
                      \/ /\ Live(i) /\ item'[i].kind = item[i].kind
                         /\ item'[i].thread = item[i].thread /\ item'[i].turn = item[i].turn
                      \/ item[i].kind = "none" /\ item'[i].sent = {}
<1>1. TypeOK /\ turn \in [Threads -> Nat]
  BY DEF TypeInv
<1>2. ASSUME NEW j \in Items, NEW notice \in Notices, CodexSends(j, notice) PROVE Touched
  BY <1>1, <1>2, Sends DEF CodexSends
<1>3. ASSUME NEW j \in Items, CodexStreams(j) PROVE Touched
  BY <1>1, <1>3, Streams DEF CodexStreams
<1>4. ASSUME NEW j \in Items, NEW t \in Threads, NEW k \in Kinds, CodexOpensItem(j, t, k)
      PROVE  Touched
  BY <1>1, <1>4, Opens
<1>5. CASE UNCHANGED item
  BY <1>5
<1>6. CASE Codex
  BY <1>4, <1>5, <1>6 DEF Codex, CodexStartsTurn
<1>7. ASSUME Handlers PROVE Touched
  <2>1. ASSUME NEW j \in Items, ItemStarted(j) \/ LegacyStarted(j) PROVE Touched
    BY <1>2, <2>1 DEF ItemStarted, LegacyStarted, Notices
  <2>2. ASSUME NEW j \in Items, OutputDelta(j) \/ AgentMessageDelta(j) PROVE Touched
    BY <1>3, <2>2 DEF OutputDelta, AgentMessageDelta
  <2>3. ASSUME NEW j \in Items, NEW given \in BOOLEAN,
               ItemCompleted(j, given) \/ LegacyCompleted(j, given)
        PROVE  Touched
    BY <1>2, <2>3 DEF ItemCompleted, LegacyCompleted, Notices
  <2>4. ASSUME NEW t \in Threads, TurnCompleted(t) \/ TurnFailed(t) PROVE Touched
    BY <1>5, <2>4 DEF TurnCompleted, TurnFailed, CodexEndsTurn
  <2>5. ASSUME NEW t \in Threads, NEW size \in Sizes, TokenUsageUpdated(t, size)
        PROVE  Touched
    BY <1>5, <2>5 DEF TokenUsageUpdated
  <2> HIDE DEF Touched
  <2>6. QED BY <1>7, <2>1, <2>2, <2>3, <2>4, <2>5 DEF Handlers
<1>8. CASE SetSessionID \/ UNCHANGED vars
  BY <1>5, <1>8 DEF SetSessionID, vars, codexVars
<1>9. QED BY <1>6, <1>7, <1>8 DEF Next

\* A turn that ended stays ended, and its tools stay what they were.
LEMMA PastStays ==
  ASSUME TypeInv, ItemInv, [Next]_vars, NEW n \in Nat, Past(n)
  PROVE  Past(n)' /\ ToolsOf("own", n)' = ToolsOf("own", n)
<1>1. turn["own"] \in Nat /\ turn \in [Threads -> Nat]
  BY DEF TypeInv, Threads
<1>2. Past(n)'
  <2>1. ASSUME NEW t \in Threads, CodexStartsTurn(t) PROVE Past(n)'
    BY <1>1, <2>1 DEF CodexStartsTurn, Past, Threads
  <2>2. ASSUME turn' = turn, running' \subseteq running PROVE Past(n)'
    BY <1>1, <2>2 DEF Past
  <2>3. (\E t \in Threads : CodexStartsTurn(t)) \/ (turn' = turn /\ running' \subseteq running)
    <3>1. CASE SetSessionID \/ UNCHANGED vars
      BY <3>1 DEF SetSessionID, vars, codexVars
    <3>2. CASE Codex
      BY <3>2 DEF Codex, CodexOpensItem
    <3>3. CASE Handlers
      BY <3>3 DEF Handlers, ItemStarted, LegacyStarted, OutputDelta, AgentMessageDelta,
         ItemCompleted, LegacyCompleted, TokenUsageUpdated, TurnCompleted, TurnFailed,
         CodexSends, CodexStreams, CodexEndsTurn
    <3>4. QED BY <3>1, <3>2, <3>3 DEF Next
  <2>4. QED BY <2>1, <2>2, <2>3
<1>3. ASSUME NEW i \in Items
      PROVE  i \in ToolsOf("own", n)' <=> i \in ToolsOf("own", n)
  <2>1. CASE item'[i] = item[i]
    BY <2>1 DEF ToolsOf, Opened, Sent
  <2>2. CASE /\ Live(i) /\ item'[i].kind = item[i].kind
             /\ item'[i].thread = item[i].thread /\ item'[i].turn = item[i].turn
    <3>1. ~(item[i].thread = "own" /\ item[i].turn = n)
      BY <1>1, <2>2 DEF Live, Past
    <3>2. QED BY <2>2, <3>1 DEF ToolsOf
  <2>3. CASE item[i].kind = "none" /\ item'[i].sent = {}
    BY <2>3 DEF ToolsOf, Opened, Sent, ToolKinds
  <2>4. QED BY <2>1, <2>2, <2>3, ItemSteps
<1>4. ToolsOf("own", n)' \subseteq Items /\ ToolsOf("own", n) \subseteq Items
  BY DEF ToolsOf
<1>5. QED BY <1>2, <1>3, <1>4

\* The tools of the turn that runs are those the Translator counted.
LEMMA CountedTools ==
  ASSUME TypeInv, ItemInv, OwnTurn, "own" \in running
  PROVE  ToolsOf("own", turn["own"]) = startedTools
<1>1. ASSUME NEW i \in ToolsOf("own", turn["own"]) PROVE i \in startedTools
  <2>1. /\ i \in Items /\ item[i].kind \in ToolKinds /\ Opened(i)
        /\ item[i].thread = "own" /\ item[i].turn = turn["own"]
    BY DEF ToolsOf
  <2>2. Live(i) /\ Own(i) /\ Tool(i)
    BY <2>1 DEF Live, Own, Tool, Kinds
  <2>3. QED BY <2>1, <2>2 DEF ItemInv, Remembered
<1>2. QED BY <1>1 DEF OwnTurn

LEMMA ExactStays ==
  ASSUME TypeInv, ItemInv, [Next]_vars, NEW r \in ReportType, Past(r.turn), Exact(r)
  PROVE  Past(r.turn)' /\ Exact(r)'
<1>1. PICK n \in Nat : n = r.turn
  BY DEF ReportType
<1>2. Past(n)' /\ ToolsOf("own", n)' = ToolsOf("own", n)
  BY <1>1, PastStays
<1>3. QED BY <1>1, <1>2 DEF Exact, Past

LEMMA ReportNext ==
  ASSUME TypeInv, ItemInv, OwnTurn, ReportInv, [Next]_vars
  PROVE  ReportInv'
<1>1. reports \in Seq(ReportType)
  BY DEF ReportInv
<1>2. ASSUME NEW n \in DOMAIN reports, NEW r, r = reports[n] PROVE Past(r.turn)' /\ Exact(r)'
  <2>1. DOMAIN reports = 1..Len(reports)
    BY <1>1, LenProperties
  <2>2. r \in ReportType /\ Past(r.turn) /\ Exact(r)
    BY <1>1, <1>2, <2>1, ElementOfSeq DEF ReportInv
  <2>3. QED BY <2>2, ExactStays
<1>3. CASE UNCHANGED reports
  <2>1. ASSUME NEW n \in DOMAIN reports PROVE (Past(reports[n].turn) /\ Exact(reports[n]))'
    <3>1. PICK r : r = reports[n]
      OBVIOUS
    <3>2. r = reports'[n]
      BY <1>3, <3>1
    <3>3. QED BY <1>2, <3>1, <3>2 DEF Past, Exact
  <2>2. QED BY <1>1, <1>3, <2>1 DEF ReportInv
<1>4. CASE TurnCompleted("own") /\ OnThisThread("own")
  <2>1. PICK r : r = Report("own")
    OBVIOUS
  <2>2. reports' = Append(reports, r) /\ running' = running \ {"own"} /\ "own" \in running
        /\ UNCHANGED <<turn, item>>
    BY <1>4, <2>1 DEF TurnCompleted, CodexEndsTurn
  <2>3. r \in ReportType
    <3>1. /\ "own" \in Threads /\ turn["own"] \in Nat /\ toolCalls["own"] \in Nat
          /\ text["own"] \in Seq(Items) /\ spoken \in Seq(Items) /\ spent \in Seq(Sizes)
          /\ usage["own"] \in [total : Nat, context : Sizes \cup {0}]
      BY FS_CardinalityType DEF TypeInv, TypeOK, OwnTurn, Threads
    <3>2. QED BY <2>1, <3>1 DEF Report, ReportType
  <2>4. Past(r.turn)' /\ Exact(r)'
    <3>1. /\ r.turn = turn["own"] /\ r.thread = "own" /\ r.text = text["own"]
          /\ r.tools = toolCalls["own"] /\ r.usage = usage["own"]
          /\ r.spoken = spoken /\ r.spent = spent
      BY <2>1 DEF Report
    <3>2. Past(r.turn)'
      BY <2>2, <3>1 DEF Past, TypeInv, Threads
    <3>3. ToolsOf("own", r.turn) = startedTools
      BY <2>2, <3>1, CountedTools
    <3>4. ToolsOf("own", r.turn)' = ToolsOf("own", r.turn)
      BY <2>2 DEF ToolsOf, Opened, Sent
    <3>5. Exact(r)'
      BY <2>2, <3>1, <3>3, <3>4 DEF Exact, OwnTurn
    <3>6. QED BY <3>2, <3>5
  <2>5. PICK old : old = reports
    OBVIOUS
  <2>6. reports' = Append(old, r) /\ old \in Seq(ReportType)
    BY <1>1, <2>2, <2>5
  <2>7. /\ reports' \in Seq(ReportType) /\ Len(old) \in Nat
        /\ DOMAIN reports' = 1..Len(old) + 1 /\ DOMAIN old = 1..Len(old)
        /\ reports'[Len(old) + 1] = r
        /\ \A n \in 1..Len(old) : reports'[n] = old[n]
    BY <2>3, <2>6, AppendProperties, LenProperties
  <2>8. ASSUME NEW n \in DOMAIN reports' PROVE (Past(reports[n].turn) /\ Exact(reports[n]))'
    <3>1. CASE n \in 1..Len(old)
      <4>1. PICK s : s = reports[n]
        OBVIOUS
      <4>2. s = reports'[n] /\ n \in DOMAIN reports
        BY <2>5, <2>7, <3>1, <4>1
      <4>3. QED BY <1>2, <4>1, <4>2 DEF Past, Exact
    <3>2. CASE n = Len(old) + 1
      BY <2>4, <2>7, <3>2 DEF Past, Exact
    <3>3. QED BY <2>7, <2>8, <3>1, <3>2
  <2>9. QED BY <2>7, <2>8 DEF ReportInv
<1>5. UNCHANGED reports \/ (TurnCompleted("own") /\ OnThisThread("own"))
  <2>1. CASE SetSessionID \/ UNCHANGED vars
    BY <2>1 DEF SetSessionID, vars
  <2>2. CASE Codex
    BY <2>2 DEF Codex, CodexOpensItem, CodexStartsTurn
  <2>3. CASE Handlers
    <3>1. ASSUME NEW t \in Threads, TurnCompleted(t), OnThisThread(t) PROVE t = "own"
      BY <3>1 DEF TurnCompleted, CodexEndsTurn, OnThisThread, ItemInv, ThreadKnown, Unnamed
    <3>2. QED
      BY <2>3, <3>1 DEF Handlers, ItemStarted, LegacyStarted, OutputDelta, AgentMessageDelta,
         ItemCompleted, LegacyCompleted, TokenUsageUpdated, TurnCompleted, TurnFailed, Drop
  <2>4. QED BY <2>1, <2>2, <2>3 DEF Next
<1>6. QED BY <1>3, <1>4, <1>5

\* Nothing is said, counted or ended in the own turn; pieces of its items may come.
LEMMA QuietTurn ==
  ASSUME TypeInv, OwnTurn, [Next]_vars,
         UNCHANGED <<toolCalls, usage, startedTools, finalAnswerIDs, spent>>,
         turn'["own"] = turn["own"], "own" \in running' <=> "own" \in running,
         IF "own" \in running THEN text'["own"] = spoken' ELSE text'["own"] = text["own"],
         \A i \in Items :
           \/ item'[i].kind = item[i].kind /\ item'[i].thread = item[i].thread
              /\ item'[i].turn = item[i].turn /\ (Opened(i)' <=> Opened(i))
           \/ item[i].kind = "none" /\ item'[i].sent = {}
  PROVE  OwnTurn'
<1>1. toolCalls'["own"] = Cardinality(startedTools')
  BY DEF OwnTurn
<1>2. startedTools' \subseteq ToolsOf("own", turn["own"])'
  <2> SUFFICES ASSUME NEW i \in startedTools PROVE i \in ToolsOf("own", turn["own"])'
    OBVIOUS
  <2>1. /\ i \in Items /\ item[i].kind \in ToolKinds /\ Opened(i)
        /\ item[i].thread = "own" /\ item[i].turn = turn["own"]
    BY DEF OwnTurn, ToolsOf
  <2>2. QED BY <2>1 DEF ToolsOf, ToolKinds
<1>3. \A i \in finalAnswerIDs' : item'[i].kind = "answer"
  BY DEF OwnTurn, TypeInv, TypeOK
<1>4. CASE "own" \in running
  <2>1. ASSUME NEW i \in Items, Live(i)', Own(i)', item'[i].kind = "answer", Opened(i)'
        PROVE  i \in finalAnswerIDs'
    <3>1. Live(i) /\ Own(i) /\ item[i].kind = "answer" /\ Opened(i)
      BY <1>4, <2>1 DEF Live, Own, Opened, Sent
    <3>2. QED BY <1>4, <3>1 DEF OwnTurn
  <2>2. text'["own"] = spoken' /\ usage'["own"].total = TokensOf(spent')
    BY <1>4 DEF OwnTurn
  <2>3. spent' # <<>> => usage'["own"].context = Last(spent')
    BY <1>4 DEF OwnTurn
  <2>4. QED BY <1>1, <1>2, <1>3, <1>4, <2>1, <2>2, <2>3 DEF OwnTurn
<1>5. CASE "own" \notin running
  <2>1. text'["own"] = <<>> /\ usage'["own"] = NoUsage /\ startedTools' = {}
    BY <1>5 DEF OwnTurn
  <2>2. QED BY <1>1, <1>2, <1>3, <1>5, <2>1 DEF OwnTurn
<1>6. QED BY <1>4, <1>5

LEMMA StartedTurn ==
  ASSUME TypeInv, ItemInv, OwnTurn, NEW i \in Items, ItemStarted(i) \/ LegacyStarted(i)
  PROVE  OwnTurn'
<1>1. PICK notice \in {"item/started", "legacy/started"} :
        /\ CodexSends(i, notice)
        /\ notice = "legacy/started" => Tool(i)
        /\ notice = "item/started" => ItemStarted(i)
  BY DEF ItemStarted, LegacyStarted, Tool
<1>2. /\ \A j \in Items \ {i} : item'[j] = item[j]
      /\ item'[i].sent = item[i].sent \cup {notice}
      /\ item'[i].kind = item[i].kind /\ item'[i].thread = item[i].thread
      /\ item'[i].turn = item[i].turn /\ item'[i].deltas = item[i].deltas
      /\ UNCHANGED <<turn, running, spoken, spent>>
  BY <1>1, Sends DEF Notices, TypeInv
<1>3. Live(i) /\ (OnThisThread(item[i].thread) <=> Own(i))
  BY <1>1, Heard DEF CodexSends
<1>4. UNCHANGED <<text, usage>>
  BY DEF ItemStarted, LegacyStarted, Drop, turnVars
<1>5. /\ finalAnswerIDs \subseteq finalAnswerIDs' /\ finalAnswerIDs' \subseteq finalAnswerIDs \cup {i}
      /\ i \in finalAnswerIDs' => i \in finalAnswerIDs \/ item[i].kind = "answer"
      /\ Own(i) /\ item[i].kind = "answer" => i \in finalAnswerIDs'
  BY <1>1, <1>3 DEF ItemStarted, LegacyStarted, Drop, Tool, ToolKinds
<1>6. \/ Own(i) /\ Tool(i) /\ EmitToolCallOnce(i)
      \/ UNCHANGED <<startedTools, toolCalls>>
  BY <1>3 DEF ItemStarted, LegacyStarted, Drop, turnVars, toolVars, Tool
<1>7. /\ toolCalls'["own"] = Cardinality(startedTools')
      /\ startedTools' = startedTools \/ (Own(i) /\ Tool(i) /\ startedTools' = startedTools \cup {i})
  <2>1. CASE UNCHANGED <<startedTools, toolCalls>>
    BY <2>1 DEF OwnTurn
  <2>2. CASE Own(i) /\ Tool(i) /\ EmitToolCallOnce(i) /\ i \notin startedTools
    <3>1. startedTools' = startedTools \cup {i} /\ toolCalls' = [toolCalls EXCEPT !["own"] = @ + 1]
      BY <2>2 DEF EmitToolCallOnce, Own
    <3>2. IsFiniteSet(startedTools) /\ toolCalls \in [Threads -> 0..Cardinality(startedTools)]
      BY DEF TypeInv, TypeOK
    <3>3. Cardinality(startedTools') = Cardinality(startedTools) + 1
      BY <2>2, <3>1, <3>2, FS_AddElement
    <3>4. toolCalls'["own"] = toolCalls["own"] + 1
      BY <3>1, <3>2 DEF Threads
    <3>5. QED BY <2>2, <3>1, <3>3, <3>4 DEF OwnTurn
  <2>3. QED BY <1>6, <2>1, <2>2 DEF EmitToolCallOnce
<1>8. \A j \in Items : /\ item'[j].kind = item[j].kind /\ item'[j].thread = item[j].thread
                       /\ item'[j].turn = item[j].turn /\ (Opened(j) => Opened(j)')
                       /\ j # i => (Opened(j)' => Opened(j))
  BY <1>2 DEF Opened, Sent
<1>9. startedTools' \subseteq ToolsOf("own", turn["own"])'
  <2>1. ASSUME NEW j \in startedTools PROVE j \in ToolsOf("own", turn["own"])'
    BY <1>2, <1>8, <2>1 DEF OwnTurn, ToolsOf
  <2>2. Own(i) /\ Tool(i) => i \in ToolsOf("own", turn["own"])'
    <3>1. Opened(i)'
      BY <1>2 DEF Opened, Sent
    <3>2. QED BY <1>2, <1>3, <3>1 DEF ToolsOf, Own, Tool, Live
  <2>3. QED BY <1>7, <2>1, <2>2
<1>10. \A j \in finalAnswerIDs' : item'[j].kind = "answer"
  BY <1>5, <1>8 DEF OwnTurn, TypeInv, TypeOK
<1>11. CASE "own" \in running
  <2>1. ASSUME NEW j \in Items, Live(j)', Own(j)', item'[j].kind = "answer", Opened(j)'
        PROVE  j \in finalAnswerIDs'
    <3>1. Live(j) /\ Own(j) /\ item[j].kind = "answer"
      BY <1>2, <1>8, <2>1 DEF Live, Own
    <3>2. CASE j = i
      BY <1>5, <3>1, <3>2
    <3>3. CASE j # i
      BY <1>5, <1>8, <1>11, <2>1, <3>1, <3>3 DEF OwnTurn
    <3>4. QED BY <3>2, <3>3
  <2>2. text'["own"] = spoken' /\ usage'["own"].total = TokensOf(spent')
    BY <1>2, <1>4, <1>11 DEF OwnTurn
  <2>3. spent' # <<>> => usage'["own"].context = Last(spent')
    BY <1>2, <1>4, <1>11 DEF OwnTurn
  <2>4. QED BY <1>2, <1>7, <1>9, <1>10, <1>11, <2>1, <2>2, <2>3 DEF OwnTurn
<1>12. CASE "own" \notin running
  <2>1. ~Own(i)
    BY <1>3, <1>12 DEF Live, Own
  <2>2. text'["own"] = <<>> /\ usage'["own"] = NoUsage /\ startedTools' = {}
    BY <1>4, <1>7, <1>12, <2>1 DEF OwnTurn
  <2>3. QED BY <1>2, <1>7, <1>9, <1>10, <1>12, <2>2 DEF OwnTurn
<1>13. QED BY <1>11, <1>12

LEMMA CompletedTurn ==
  ASSUME TypeInv, ItemInv, OwnTurn, [Next]_vars, NEW i \in Items, NEW given \in BOOLEAN,
         ItemCompleted(i, given) \/ LegacyCompleted(i, given)
  PROVE  OwnTurn'
<1>1. PICK notice \in {"item/completed", "legacy/completed"} : CodexSends(i, notice)
  BY DEF ItemCompleted, LegacyCompleted
<1>2. /\ \A j \in Items \ {i} : item'[j] = item[j]
      /\ item'[i].sent = item[i].sent \cup {notice}
      /\ item'[i].kind = item[i].kind /\ item'[i].thread = item[i].thread
      /\ item'[i].turn = item[i].turn
      /\ UNCHANGED <<turn, running, spoken, spent>>
  BY <1>1, Sends DEF Notices, TypeInv
<1>3. UNCHANGED <<text, toolCalls, usage, startedTools, finalAnswerIDs>>
  BY DEF ItemCompleted, LegacyCompleted, Drop, turnVars, toolVars
<1>4. \A j \in Items : /\ item'[j].kind = item[j].kind /\ item'[j].thread = item[j].thread
                       /\ item'[j].turn = item[j].turn /\ (Opened(j)' <=> Opened(j))
  BY <1>2 DEF Opened, Sent
<1>5. IF "own" \in running THEN text'["own"] = spoken' ELSE text'["own"] = text["own"]
  BY <1>2, <1>3 DEF OwnTurn
<1>6. QED BY <1>2, <1>3, <1>4, <1>5, QuietTurn

LEMMA DeltaTurn ==
  ASSUME TypeInv, ItemInv, OwnTurn, [Next]_vars, NEW i \in Items,
         OutputDelta(i) \/ AgentMessageDelta(i)
  PROVE  OwnTurn'
<1>1. CodexStreams(i) /\ Live(i) /\ Opened(i)
  BY DEF OutputDelta, AgentMessageDelta, CodexStreams
<1>2. /\ \A j \in Items \ {i} : item'[j] = item[j]
      /\ item'[i].kind = item[i].kind /\ item'[i].thread = item[i].thread
      /\ item'[i].turn = item[i].turn /\ item'[i].sent = item[i].sent
      /\ UNCHANGED <<turn, running, spent>>
  BY <1>1, Streams DEF TypeInv
<1>3. threadID = "own" /\ (OnThisThread(item[i].thread) <=> Own(i))
  BY <1>1, Heard
<1>4. UNCHANGED <<toolCalls, usage, startedTools, finalAnswerIDs>>
  BY DEF OutputDelta, AgentMessageDelta, Drop, turnVars, toolVars
<1>5. \A j \in Items : /\ item'[j].kind = item[j].kind /\ item'[j].thread = item[j].thread
                       /\ item'[j].turn = item[j].turn /\ (Opened(j)' <=> Opened(j))
  BY <1>2 DEF Opened, Sent
<1>6. text \in [Threads -> Seq(Items)] /\ "own" \in Threads
  BY DEF TypeInv, TypeOK, Threads
<1>7. IF "own" \in running THEN text'["own"] = spoken' ELSE text'["own"] = text["own"]
  <2>1. CASE Own(i) /\ item[i].kind = "answer"
    <3>1. "own" \in running /\ i \in finalAnswerIDs /\ text["own"] = spoken
      BY <1>1, <2>1 DEF OwnTurn, Live, Own
    <3>2. spoken' = Append(spoken, i) /\ text' = [text EXCEPT !["own"] = Append(@, i)]
      BY <1>3, <2>1, <3>1 DEF OutputDelta, AgentMessageDelta, Own
    <3>3. QED BY <1>6, <3>1, <3>2
  <2>2. CASE ~(Own(i) /\ item[i].kind = "answer")
    <3>1. spoken' = spoken
      BY <2>2 DEF OutputDelta, AgentMessageDelta
    <3>2. text' = text
      BY <1>3, <2>2 DEF OutputDelta, AgentMessageDelta, OwnTurn, Drop, turnVars
    <3>3. QED BY <3>1, <3>2 DEF OwnTurn
  <2>3. QED BY <2>1, <2>2
<1>8. QED BY <1>2, <1>4, <1>5, <1>7, QuietTurn

LEMMA EndedTurn ==
  ASSUME TypeInv, ItemInv, OwnTurn, [Next]_vars, NEW t \in Threads,
         TurnCompleted(t) \/ TurnFailed(t)
  PROVE  OwnTurn'
<1>1. running' = running \ {t} /\ t \in running /\ UNCHANGED <<turn, item, spoken, spent, threadID>>
  BY DEF TurnCompleted, TurnFailed, CodexEndsTurn
<1>2. OnThisThread(t) <=> t = "own"
  BY <1>1 DEF ItemInv, ThreadKnown, OnThisThread, Unnamed
<1>3. CASE t # "own"
  <2>1. UNCHANGED <<text, toolCalls, usage, startedTools, finalAnswerIDs>>
    BY <1>2, <1>3 DEF TurnCompleted, TurnFailed, Drop, turnVars, toolVars
  <2>2. \A j \in Items : /\ item'[j].kind = item[j].kind /\ item'[j].thread = item[j].thread
                         /\ item'[j].turn = item[j].turn /\ (Opened(j)' <=> Opened(j))
    BY <1>1 DEF Opened, Sent
  <2>3. IF "own" \in running THEN text'["own"] = spoken' ELSE text'["own"] = text["own"]
    BY <1>1, <2>1 DEF OwnTurn
  <2>4. QED BY <1>1, <1>3, <2>1, <2>2, <2>3, QuietTurn
<1>4. CASE t = "own"
  <2>1. ResetTurn("own")
    BY <1>2, <1>4 DEF TurnCompleted, TurnFailed
  <2>2. /\ toolCalls \in [Threads -> 0..Cardinality(startedTools)]
        /\ text \in [Threads -> Seq(Items)]
        /\ usage \in [Threads -> [total : Nat, context : Sizes \cup {0}]]
    BY DEF TypeInv, TypeOK
  <2>3. /\ toolCalls'["own"] = 0 /\ text'["own"] = <<>> /\ usage'["own"] = NoUsage
        /\ startedTools' = {} /\ finalAnswerIDs' = {}
    BY <2>1, <2>2 DEF ResetTurn, Threads
  <2>4. Cardinality(startedTools') = 0
    BY <2>3, FS_EmptySet
  <2>5. QED BY <1>1, <1>4, <2>3, <2>4 DEF OwnTurn
<1>5. QED BY <1>3, <1>4

LEMMA UsageTurn ==
  ASSUME TypeInv, ItemInv, OwnTurn, [Next]_vars, NEW t \in Threads, NEW size \in Sizes,
         TokenUsageUpdated(t, size)
  PROVE  OwnTurn'
<1>1. /\ t \in running
      /\ UNCHANGED <<turn, running, item, spoken, threadID, text, toolCalls, startedTools,
                     finalAnswerIDs>>
  BY DEF TokenUsageUpdated, toolVars
<1>2. OnThisThread(t) <=> t = "own"
  BY <1>1 DEF ItemInv, ThreadKnown, OnThisThread, Unnamed
<1>3. CASE t # "own"
  <2>1. UNCHANGED <<usage, spent>>
    BY <1>2, <1>3 DEF TokenUsageUpdated
  <2>2. \A j \in Items : /\ item'[j].kind = item[j].kind /\ item'[j].thread = item[j].thread
                         /\ item'[j].turn = item[j].turn /\ (Opened(j)' <=> Opened(j))
    BY <1>1 DEF Opened, Sent
  <2>3. IF "own" \in running THEN text'["own"] = spoken' ELSE text'["own"] = text["own"]
    BY <1>1 DEF OwnTurn
  <2>4. QED BY <1>1, <2>1, <2>2, <2>3, QuietTurn
<1>4. CASE t = "own"
  <2>1. /\ spent' = Append(spent, size)
        /\ usage' = [usage EXCEPT !["own"] = AddCall(@, size)]
    BY <1>2, <1>4 DEF TokenUsageUpdated
  <2>2. usage \in [Threads -> [total : Nat, context : Sizes \cup {0}]] /\ "own" \in Threads
    BY DEF TypeInv, TypeOK, Threads
  <2>3. usage'["own"].total = usage["own"].total + size /\ usage'["own"].context = size
    BY <2>1, <2>2 DEF AddCall
  <2>4. spent \in Seq(Sizes) /\ spent \in Seq(Nat) /\ size \in Nat
    <3>1. spent \in Seq(Sizes) /\ Sizes \subseteq Nat
      BY TranslationAssumption DEF TypeInv, TypeOK
    <3>2. QED BY <3>1, SeqMonotonic
  <2>5. usage'["own"].total = TokensOf(spent')
    BY <1>1, <1>4, <2>1, <2>3, <2>4, TokensOfOneMore DEF OwnTurn
  <2>6. usage'["own"].context = Last(spent')
    BY <2>1, <2>3, <2>4, AppendProperties, LenProperties DEF Last
  <2>7. ToolsOf("own", turn["own"])' = ToolsOf("own", turn["own"])
    BY <1>1 DEF ToolsOf, Opened, Sent
  <2>8. \A i \in Items : Live(i)' /\ Own(i)' /\ item'[i].kind = "answer" /\ Opened(i)'
          => i \in finalAnswerIDs'
    BY <1>1, <1>4 DEF OwnTurn, Live, Own, Opened, Sent
  <2>9. QED BY <1>1, <1>4, <2>5, <2>6, <2>7, <2>8 DEF OwnTurn
<1>5. QED BY <1>3, <1>4

LEMMA CodexTurn ==
  ASSUME TypeInv, ItemInv, OwnTurn, [Next]_vars, SetSessionID \/ Codex \/ UNCHANGED vars
  PROVE  OwnTurn'
<1>1. UNCHANGED <<text, toolCalls, usage, startedTools, finalAnswerIDs>>
  BY DEF SetSessionID, Codex, CodexStartsTurn, CodexOpensItem, vars, turnVars, toolVars
<1>2. CASE CodexStartsTurn("own")
  <2>1. /\ "own" \notin running /\ turn' = [turn EXCEPT !["own"] = @ + 1]
        /\ running' = running \cup {"own"} /\ spoken' = <<>> /\ spent' = <<>> /\ item' = item
    BY <1>2 DEF CodexStartsTurn
  <2>2. startedTools' = {} /\ text'["own"] = <<>> /\ usage'["own"] = NoUsage
    BY <1>1, <2>1 DEF OwnTurn
  <2>3. TokensOf(spent') = 0
    BY <2>1, TokensOfNone
  <2>4. ASSUME NEW i \in Items, Live(i)', Own(i)' PROVE FALSE
    <3>1. turn'["own"] = turn["own"] + 1 /\ turn["own"] \in Nat
      BY <2>1 DEF TypeInv, Threads
    <3>2. item[i].thread = "own" /\ item[i].turn = turn["own"] + 1 /\ InOrder(i)
      BY <2>1, <2>4, <3>1 DEF Live, Own, ItemInv
    <3>3. QED BY <3>1, <3>2 DEF InOrder
  <2>5. QED BY <1>1, <2>1, <2>2, <2>3, <2>4 DEF OwnTurn, NoUsage
<1>3. ASSUME NEW i \in Items, NEW t \in Threads, NEW k \in Kinds, CodexOpensItem(i, t, k)
      PROVE  OwnTurn'
  <2>1. /\ \A j \in Items \ {i} : item'[j] = item[j]
        /\ item[i].kind = "none" /\ item'[i].sent = {}
    BY <1>3, Opens DEF TypeInv
  <2>2. UNCHANGED <<turn, running, spoken, spent>>
    BY <1>3 DEF CodexOpensItem
  <2>3. \A j \in Items :
          \/ item'[j].kind = item[j].kind /\ item'[j].thread = item[j].thread
             /\ item'[j].turn = item[j].turn /\ (Opened(j)' <=> Opened(j))
          \/ item[j].kind = "none" /\ item'[j].sent = {}
    BY <2>1 DEF Opened, Sent
  <2>4. IF "own" \in running THEN text'["own"] = spoken' ELSE text'["own"] = text["own"]
    BY <1>1, <2>2 DEF OwnTurn
  <2>5. QED BY <1>1, <2>2, <2>3, <2>4, QuietTurn
<1>4. CASE CodexStartsTurn("child") \/ SetSessionID \/ UNCHANGED vars
  <2>1. /\ UNCHANGED <<item, spoken, spent>> /\ turn'["own"] = turn["own"]
        /\ "own" \in running' <=> "own" \in running
    BY <1>4 DEF CodexStartsTurn, SetSessionID, vars, codexVars, TypeInv, Threads
  <2>2. \A j \in Items : /\ item'[j].kind = item[j].kind /\ item'[j].thread = item[j].thread
                         /\ item'[j].turn = item[j].turn /\ (Opened(j)' <=> Opened(j))
    BY <2>1 DEF Opened, Sent
  <2>3. IF "own" \in running THEN text'["own"] = spoken' ELSE text'["own"] = text["own"]
    BY <1>1, <2>1 DEF OwnTurn
  <2>4. QED BY <1>1, <2>1, <2>2, <2>3, QuietTurn
<1>5. QED BY <1>2, <1>3, <1>4 DEF Codex, Threads

LEMMA OwnTurnNext == TypeInv /\ ItemInv /\ OwnTurn /\ [Next]_vars => OwnTurn'
BY StartedTurn, CompletedTurn, DeltaTurn, EndedTurn, UsageTurn, CodexTurn
   DEF Next, Handlers

\* A turn's result says what codex said in that turn, counts the tools it called and
\* the tokens it used, and nothing of a subagent's turn or of a turn that failed.
THEOREM TurnReportAlwaysExact == Spec => []TurnReportExact
<1>1. Init => TypeInv /\ ItemInv /\ OwnTurn /\ ReportInv
  BY TypeInit, ItemInit, ReportInit
<1>2. TypeInv /\ ItemInv /\ OwnTurn /\ ReportInv /\ [Next]_vars
        => (TypeInv /\ ItemInv /\ OwnTurn /\ ReportInv)'
  BY TypeNext, ItemNext, OwnTurnNext, ReportNext
<1>3. ReportInv => TurnReportExact
  BY DEF ReportInv, Exact, TurnReportExact
<1>4. QED BY <1>1, <1>2, <1>3, PTL DEF Spec
=============================================================================
