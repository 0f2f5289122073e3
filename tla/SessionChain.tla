---------------------------- MODULE SessionChain ----------------------------
(***************************************************************************)
(* The session chain kept in state.db, and everything that writes to it:   *)
(* the wrapper process of each bridge session (Bridge.Init with its boot   *)
(* recovery, HandleStart, HandleResumeThread, recordChain), and the        *)
(* discover subcommand, whose cold import files the rollouts it finds on   *)
(* disk.  state.db is one file shared by all of them, so every SQL         *)
(* statement is one step and the processes interleave between statements. *)
(* A process may be killed between any two steps.                          *)
(*                                                                         *)
(* codex itself is external: it mints a thread when asked, or fails, or    *)
(* mints one nobody hears of, and writes the rollout file of a thread at   *)
(* some later time.                                                        *)
(***************************************************************************)
EXTENDS Naturals, Sequences, FiniteSets

CONSTANTS
  Sessions,         \* bridge session ids, one wrapper process each
  Threads,          \* codex thread ids (harness_session_id)
  Discoverers,      \* concurrent runs of the discover subcommand
  MaxWal,           \* bound: wal rows ever opened
  BusyStatements,   \* statements that may fail with SQLITE_BUSY
  ResumeMayKeepId,  \* may thread/resume answer with the id it was given?
  NoThread,         \* the empty thread id
  NoRow             \* sessions has no row under this id

Statements == {"reads", "sessions", "rollouts", "commit", "orphan"}

ASSUME ChainAssumption ==
  /\ Sessions \cap Threads = {}
  /\ NoThread \notin Threads
  /\ NoRow \notin Threads /\ NoRow # NoThread
  /\ MaxWal \in Nat
  /\ BusyStatements \subseteq Statements
  /\ ResumeMayKeepId \in BOOLEAN

VARIABLES
  \* state.db
  current,    \* sessions: current_harness_id of each row
  rollouts,   \* rollouts: one row per thread
  wal,        \* wal: the rows in id order
  \* codex
  minted,     \* threads that exist
  disk,       \* threads whose rollout file is on disk
  \* one wrapper process per session
  pc,         \* where it is
  toRecover,  \* ids ListPendingWAL returned that are still to be orphaned
  op,         \* arguments of the recordChain call in progress
  newId,      \* thread id codex answered with
  threadID,   \* Bridge.threadID: the thread its turns run on
  \* each run of discover
  dpc, known, item,
  \* history
  tip         \* the thread each conversation was last carried on by

dbVars == <<current, rollouts, wal>>
codexVars == <<minted, disk>>
procVars == <<pc, toRecover, op, newId, threadID>>
discoverVars == <<dpc, known, item>>
vars == <<dbVars, codexVars, procVars, discoverVars, tip>>

Chains == Sessions \cup Threads     \* primary key of sessions

RolloutRows ==
  [thread : Threads, session : Chains, seq : Nat,
   parent : Threads \cup {NoThread}]

WalRows ==
  [session : Sessions, status : {"pending", "committed", "orphaned"},
   new : Threads \cup {NoThread}]

\* A start has no parent thread; a fork and a resume have one.
Ops ==
  [intent : {"none", "start"}, parent : {NoThread}, seq : Nat, wal : Nat]
    \cup [intent : {"fork", "resume"}, parent : Threads, seq : Nat, wal : Nat]

NoOp == [intent |-> "none", parent |-> NoThread, seq |-> 0, wal |-> 0]

Recording == {"minting", "rollout", "rotate"}   \* inside recordChain

TypeOK ==
  /\ current \in [Chains -> Threads \cup {NoThread, NoRow}]
  /\ rollouts \subseteq RolloutRows
  /\ wal \in Seq(WalRows)
  /\ minted \subseteq Threads
  /\ disk \subseteq minted
  /\ pc \in [Sessions -> {"down", "recover", "handle", "waiting"} \cup Recording]
  /\ toRecover \in [Sessions -> SUBSET Nat]
  /\ op \in [Sessions -> Ops]
  /\ newId \in [Sessions -> Threads \cup {NoThread}]
  /\ threadID \in [Sessions -> Threads \cup {NoThread}]
  /\ dpc \in [Discoverers -> {"off", "walk", "insert"}]
  /\ known \in [Discoverers -> SUBSET Threads]
  /\ item \in [Discoverers -> Threads \cup {NoThread}]
  /\ tip \in [Sessions -> Threads \cup {NoThread}]

Init ==
  /\ current = [c \in Chains |-> NoRow]
  /\ rollouts = {}
  /\ wal = <<>>
  /\ minted = {} /\ disk = {}
  /\ pc = [s \in Sessions |-> "down"]
  /\ toRecover = [s \in Sessions |-> {}]
  /\ op = [s \in Sessions |-> NoOp]
  /\ newId = [s \in Sessions |-> NoThread]
  /\ threadID = [s \in Sessions |-> NoThread]
  /\ dpc = [d \in Discoverers |-> "off"]
  /\ known = [d \in Discoverers |-> {}]
  /\ item = [d \in Discoverers |-> NoThread]
  /\ tip = [s \in Sessions |-> NoThread]

-----------------------------------------------------------------------------
(* The statements of state.go. *)

Pending(i) == wal[i].status = "pending"

Busy(statement) == statement \in BusyStatements

ListPendingWAL == {i \in DOMAIN wal : Pending(i)}

\* A bug: WHERE id = ? without AND status = 'pending'.
OrphanWALUnguarded(i) == [wal EXCEPT ![i].status = "orphaned"]

\* The table after OrphanWAL(i): a row that is not pending is left alone.
OrphanWAL(i) ==
  IF Pending(i) THEN [wal EXCEPT ![i].status = "orphaned"] ELSE wal

\* The table after CommitWAL(i, t).
CommitWAL(i, t) ==
  IF Pending(i)
  THEN [wal EXCEPT ![i] = [session |-> @.session, status |-> "committed", new |-> t]]
  ELSE wal

\* A bug: the number of rows the UPDATE changed is not looked at.
CommitSucceedsUnchecked(i) == TRUE

CommitSucceeds(i) == Pending(i)

Filed == {r.thread : r \in rollouts}

\* The table after InsertRollout(r): harness_session_id is the primary key.
InsertRollout(r) ==
  IF r.thread \in Filed THEN rollouts ELSE rollouts \cup {r}

ListRollouts(c) == {r \in rollouts : r.session = c}

\* A bug: ORDER BY sequence DESC.
LastRolloutsDescending(c) ==
  {r \in ListRollouts(c) : \A q \in ListRollouts(c) : r.seq <= q.seq}

\* The last row of ListRollouts, ordered by sequence (rows that tie come in
\* any order).
LastRollouts(c) ==
  {r \in ListRollouts(c) : \A q \in ListRollouts(c) : q.seq <= r.seq}

\* A bug: the new rollout gets the sequence of the last one.
NextSequenceWithoutIncrement(s) ==
  {r.seq : r \in LastRollouts(s)}
    \cup {n \in {0} : ListRollouts(s) = {} \/ Busy("reads")}

\* The sequences nextSequence may answer with: a chain it cannot read counts as
\* empty.
NextSequence(s) ==
  {r.seq + 1 : r \in LastRollouts(s)}
    \cup {n \in {0} : ListRollouts(s) = {} \/ Busy("reads")}

-----------------------------------------------------------------------------
(* Bridge.Init, run by every start request: open state.db and list the     *)
(* pending rows, orphan them one by one, register the session.  A failure  *)
(* to list them is only logged.                                            *)

Boot(s) ==
  /\ pc[s] \in {"down", "waiting"}
  /\ pc' = [pc EXCEPT ![s] = "recover"]
  /\ \E ids \in {ListPendingWAL} \cup {none \in {{}} : Busy("reads")} :
       toRecover' = [toRecover EXCEPT ![s] = ids]
  /\ UNCHANGED <<dbVars, codexVars, op, newId, threadID, discoverVars, tip>>

\* A bug: an error on one row ends the recovery.
StillToRecoverUntilError(s, i) ==
  IF Pending(i) THEN toRecover[s] \ {i} ELSE {}

\* An error on one row is logged and the loop continues.
StillToRecover(s, i) == toRecover[s] \ {i}

Recover(s) ==
  /\ pc[s] = "recover"
  /\ \E i \in toRecover[s] :
       /\ \A j \in toRecover[s] : i <= j
       /\ \/ wal' = OrphanWAL(i)
          \/ Busy("orphan") /\ UNCHANGED wal
       /\ toRecover' = [toRecover EXCEPT ![s] = StillToRecover(s, i)]
  /\ UNCHANGED <<current, rollouts, codexVars, pc, op, newId, threadID,
                 discoverVars, tip>>

\* UpsertSession(bridgeID, ""): overwrites the row of an earlier run.
Register(s) ==
  /\ pc[s] = "recover" /\ toRecover[s] = {}
  /\ current' = [current EXCEPT ![s] = NoThread]
  /\ pc' = [pc EXCEPT ![s] = "handle"]
  /\ UNCHANGED <<rollouts, wal, codexVars, toRecover, op, newId, threadID,
                 discoverVars, tip>>

\* A bug: a session that could not be registered is only logged, like the rows that
\* could not be recovered.
InitFailsOnlyLogged(s) ==
  /\ pc[s] = "recover" /\ toRecover[s] = {}
  /\ Busy("sessions")
  /\ pc' = [pc EXCEPT ![s] = "handle"]
  /\ UNCHANGED <<dbVars, codexVars, toRecover, op, newId, threadID,
                 discoverVars, tip>>

InitFails(s) ==
  /\ pc[s] = "recover" /\ toRecover[s] = {}
  /\ Busy("sessions")
  /\ pc' = [pc EXCEPT ![s] = "waiting"]
  /\ UNCHANGED <<dbVars, codexVars, toRecover, op, newId, threadID,
                 discoverVars, tip>>

-----------------------------------------------------------------------------
(* HandleStart and HandleResumeThread, up to the wal row. *)

\* The threads threadToResume may answer with; none is its error.
ThreadToResumeOrEmpty(s, sent) ==
  IF ListRollouts(s) # {} THEN {r.thread : r \in LastRollouts(s)} ELSE {sent}

ThreadToResume(s, sent) ==
  LET chain == {r.session : r \in {q \in rollouts : q.thread = sent}}
      rows  == IF ListRollouts(s) # {} THEN LastRollouts(s)
               ELSE UNION {LastRollouts(c) : c \in chain}
  IN  IF rows # {} THEN {r.thread : r \in rows} ELSE {sent} \ {NoThread}

InsertWAL(s, intent, parent) ==
  /\ pc[s] = "handle" /\ Len(wal) < MaxWal
  /\ wal' = Append(wal, [session |-> s, status |-> "pending", new |-> NoThread])
  /\ \E n \in NextSequence(s) :
       op' = [op EXCEPT ![s] = [intent |-> intent, parent |-> parent,
                                seq |-> n, wal |-> Len(wal) + 1]]
  /\ pc' = [pc EXCEPT ![s] = "minting"]
  /\ UNCHANGED <<current, rollouts, codexVars, toRecover, newId, threadID,
                 discoverVars, tip>>

HandleStart(s) ==
  \/ InsertWAL(s, "start", NoThread)
  \/ \E p \in minted : InsertWAL(s, "fork", p)

HandleResumeThread(s) ==
  \E sent \in minted \cup {NoThread} :
    \E p \in ThreadToResume(s, sent) : InsertWAL(s, "resume", p)

\* Configuration, the app-server, the reads or the wal insert failed, or there
\* is nothing to resume: the request ends in an error event.
HandlerFails(s) ==
  /\ pc[s] = "handle"
  /\ pc' = [pc EXCEPT ![s] = "waiting"]
  /\ UNCHANGED <<dbVars, codexVars, toRecover, op, newId, threadID,
                 discoverVars, tip>>

-----------------------------------------------------------------------------
(* recordChain, from the mint to the row that names the thread current. *)

Return(s) ==
  /\ pc' = [pc EXCEPT ![s] = "waiting"]
  /\ op' = [op EXCEPT ![s] = NoOp]
  /\ newId' = [newId EXCEPT ![s] = NoThread]

\* codex creates the thread and its answer reaches the process.
CodexMints(s) ==
  /\ pc[s] = "minting" /\ newId[s] = NoThread
  /\ \E t \in Threads :
       /\ \/ t \notin minted
          \/ ResumeMayKeepId /\ op[s].intent = "resume" /\ t = op[s].parent
       /\ minted' = minted \cup {t}
       /\ newId' = [newId EXCEPT ![s] = t]
  /\ UNCHANGED <<dbVars, disk, pc, toRecover, op, threadID, discoverVars, tip>>

\* codex refused, or the answer was lost.
MintFails(s) ==
  /\ pc[s] = "minting"
  /\ \/ wal' = OrphanWAL(op[s].wal)
     \/ Busy("orphan") /\ UNCHANGED wal
  /\ Return(s)
  /\ UNCHANGED <<current, rollouts, codexVars, toRecover, threadID,
                 discoverVars, tip>>

CommitStep(s) ==
  LET i == op[s].wal IN
  /\ pc[s] = "minting" /\ newId[s] # NoThread
  /\ CommitSucceeds(i)
  /\ wal' = CommitWAL(i, newId[s])
  /\ pc' = [pc EXCEPT ![s] = "rollout"]
  /\ UNCHANGED <<current, rollouts, codexVars, toRecover, op, newId, threadID,
                 discoverVars, tip>>

\* The row is no longer pending, or the statement failed: the thread is lost
\* to the session.
CommitFails(s) ==
  /\ pc[s] = "minting" /\ newId[s] # NoThread
  /\ ~CommitSucceeds(op[s].wal) \/ Busy("commit")
  /\ Return(s)
  /\ UNCHANGED <<dbVars, codexVars, toRecover, threadID, discoverVars, tip>>

\* A failed insert is only logged.
RolloutStep(s) ==
  LET r == [thread |-> newId[s], session |-> s, seq |-> op[s].seq,
            parent |-> op[s].parent] IN
  /\ pc[s] = "rollout"
  /\ \/ rollouts' = InsertRollout(r)
     \/ Busy("rollouts") /\ UNCHANGED rollouts
  /\ pc' = [pc EXCEPT ![s] = "rotate"]
  /\ tip' = IF r \in rollouts' \ rollouts THEN [tip EXCEPT ![s] = newId[s]] ELSE tip
  /\ UNCHANGED <<current, wal, codexVars, toRecover, op, newId, threadID,
                 discoverVars>>

\* UpsertSession(bridgeID, newID), whose failure is only logged, and the
\* handler's b.threadID = newID.
RotateStep(s) ==
  /\ pc[s] = "rotate"
  /\ \/ current' = [current EXCEPT ![s] = newId[s]]
     \/ Busy("sessions") /\ UNCHANGED current
  /\ threadID' = [threadID EXCEPT ![s] = newId[s]]
  /\ tip' = [tip EXCEPT ![s] = newId[s]]
  /\ Return(s)
  /\ UNCHANGED <<rollouts, wal, codexVars, toRecover, discoverVars>>

\* The process is killed, crashes, or ends because its stdin closed.
Crash(s) ==
  /\ pc[s] # "down"
  /\ pc' = [pc EXCEPT ![s] = "down"]
  /\ toRecover' = [toRecover EXCEPT ![s] = {}]
  /\ op' = [op EXCEPT ![s] = NoOp]
  /\ newId' = [newId EXCEPT ![s] = NoThread]
  /\ threadID' = [threadID EXCEPT ![s] = NoThread]
  /\ UNCHANGED <<dbVars, codexVars, discoverVars, tip>>

-----------------------------------------------------------------------------
(* codex on its own: a terminal session, or a request whose caller is gone. *)

CodexMintsElsewhere(t) ==
  /\ t \notin minted
  /\ minted' = minted \cup {t}
  /\ UNCHANGED <<dbVars, disk, procVars, discoverVars, tip>>

CodexWritesRollout(t) ==
  /\ t \in minted \ disk
  /\ disk' = disk \cup {t}
  /\ UNCHANGED <<dbVars, minted, procVars, discoverVars, tip>>

-----------------------------------------------------------------------------
(* discover.  -discover reads the filed threads once per rollout tree and  *)
(* then walks the tree; -changed-since looks each thread up just before it *)
(* imports it, which is a load followed by one import.                     *)

LoadKnown(d) ==
  /\ dpc[d] \in {"off", "walk"}
  /\ dpc' = [dpc EXCEPT ![d] = "walk"]
  /\ known' = [known EXCEPT ![d] = Filed]
  /\ UNCHANGED <<dbVars, codexVars, procVars, item, tip>>

ImportSession(d, t) ==
  /\ dpc[d] = "walk" /\ t \in disk \ known[d]
  /\ current' = [current EXCEPT ![t] = t]
  /\ item' = [item EXCEPT ![d] = t]
  /\ dpc' = [dpc EXCEPT ![d] = "insert"]
  /\ UNCHANGED <<rollouts, wal, codexVars, procVars, known, tip>>

\* A refused insert ends the run with an error, the sessions row stays.
ImportRollout(d) ==
  LET t == item[d] IN
  /\ dpc[d] = "insert"
  /\ rollouts' = InsertRollout([thread |-> t, session |-> t, seq |-> 0,
                                parent |-> NoThread])
  /\ IF t \in Filed
     THEN dpc' = [dpc EXCEPT ![d] = "off"] /\ known' = [known EXCEPT ![d] = {}]
     ELSE known' = [known EXCEPT ![d] = @ \cup {t}] /\ dpc' = [dpc EXCEPT ![d] = "walk"]
  /\ item' = [item EXCEPT ![d] = NoThread]
  /\ UNCHANGED <<current, wal, codexVars, procVars, tip>>

\* The walk is over, a statement failed, or the process was killed.
DiscoverEnds(d) ==
  /\ dpc[d] # "off"
  /\ dpc' = [dpc EXCEPT ![d] = "off"]
  /\ known' = [known EXCEPT ![d] = {}]
  /\ item' = [item EXCEPT ![d] = NoThread]
  /\ UNCHANGED <<dbVars, codexVars, procVars, tip>>

-----------------------------------------------------------------------------
RecordStep(s) ==
  \/ CodexMints(s) \/ MintFails(s)
  \/ CommitStep(s) \/ CommitFails(s)
  \/ RolloutStep(s) \/ RotateStep(s)

BridgeStep(s) ==
  \/ Boot(s) \/ Recover(s) \/ Register(s) \/ InitFails(s)
  \/ HandleStart(s) \/ HandleResumeThread(s) \/ HandlerFails(s)
  \/ RecordStep(s)
  \/ Crash(s)

DiscoverStep(d) ==
  \/ LoadKnown(d)
  \/ \E t \in Threads : ImportSession(d, t)
  \/ ImportRollout(d)
  \/ DiscoverEnds(d)

CodexStep ==
  \E t \in Threads : CodexMintsElsewhere(t) \/ CodexWritesRollout(t)

Next ==
  \/ \E s \in Sessions : BridgeStep(s)
  \/ \E d \in Discoverers : DiscoverStep(d)
  \/ CodexStep

Spec == Init /\ [][Next]_vars

\* Init runs to its end once called: it waits for nothing but the database.
FairSpec == Spec /\ \A s \in Sessions : WF_vars(Recover(s) \/ Register(s))

-----------------------------------------------------------------------------
(* Safety. *)

RecordedFor(s, t) ==
  \E i \in DOMAIN wal :
    wal[i].session = s /\ wal[i].status = "committed" /\ wal[i].new = t

\* The thread a session's turns run on, and the thread its sessions row names
\* current, were committed to the wal for that session first, whatever another
\* process's recovery, a crash or a failed mint did in between (HandleStart:
\* "durable before any turn runs against it").
LiveThreadRecorded ==
  \A s \in Sessions :
    /\ threadID[s] # NoThread => RecordedFor(s, threadID[s])
    /\ current[s] \in Threads => RecordedFor(s, current[s])

\* The rows of one chain carry different sequences, and a row comes after the
\* row it was resumed from, so "ordered by sequence" is an order and its last
\* row is well defined (nextSequence, ListRollouts).  Needs the reads not to
\* fail: nextSequence answers 0 when they do.
ChainOrdered ==
  \A r, q \in rollouts :
    r.session = q.session /\ r # q =>
      /\ r.seq # q.seq
      /\ r.parent = q.thread => q.seq < r.seq

\* A resume continues the thread the conversation was last carried on by, as
\* long as that thread's row is filed under the session: crashes, failed mints
\* and new threads never make threadToResume fall back to an older one.
ResumeContinuesChain ==
  \A s \in Sessions :
    LET filedTip == {r \in ListRollouts(s) : r.thread = tip[s]}
    IN  pc[s] = "minting" /\ op[s].intent = "resume" /\ filedTip # {} =>
          op[s].parent = tip[s]

\* The chain of every filed thread has a sessions row, whichever process filed it
\* and wherever it was stopped or failed: Init registers the session "so subsequent
\* rollout inserts have a parent row", a cold import's two inserts are no
\* transaction, and -changed-since gives up on every rollout when one of them names a
\* session "which state.db has no row for".
FiledUnderASession == \A r \in rollouts : current[r.session] # NoRow

\* The wal table as the other modules may use it.
WalTable ==
  INSTANCE WalLifecycle WITH
    Sessions <- Sessions, Threads <- Threads, NoThread <- NoThread, wal <- wal
WalImplemented == WalTable!Spec

\* A row the recovery of a boot listed is settled, unless that process dies:
\* rows other processes settle meanwhile do not stop it (recoverOrphansOnBoot).
RecoverySettles ==
  \A s \in Sessions, i \in 1..MaxWal :
    i \in toRecover[s] ~>
      \/ pc[s] = "down"
      \/ i \in DOMAIN wal /\ ~Pending(i)

-----------------------------------------------------------------------------
(* What comments and tests say and the code does not do. *)

\* "recoverOrphansOnBoot marks any pending WAL rows from a prior crash": the
\* row of a recordChain call still in progress is not one of them.
InFlightRowPending ==
  \A s \in Sessions : pc[s] = "minting" => Pending(op[s].wal)

=============================================================================
