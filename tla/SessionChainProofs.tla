------------------------- MODULE SessionChainProofs -------------------------
(***************************************************************************)
(* Theorems about SessionChain, for every number of sessions, threads and  *)
(* discover runs.                                                          *)
(***************************************************************************)
EXTENDS SessionChain, SequenceTheorems, TLAPS

\* The wal ids processes hold are ids of rows of the table, and the row a
\* recordChain call holds is one its own session opened.
WalIds ==
  \A s \in Sessions :
    /\ toRecover[s] \subseteq DOMAIN wal
    /\ pc[s] \in Recording =>
         op[s].wal \in DOMAIN wal /\ wal[op[s].wal].session = s

TypeInv == TypeOK /\ WalIds

\* What any step does to the wal table: rows stay, keep their session, and are
\* left alone once they are settled.
WalStep ==
  /\ DOMAIN wal \subseteq DOMAIN wal'
  /\ \A i \in DOMAIN wal :
       /\ wal'[i].session = wal[i].session
       /\ ~Pending(i) => wal'[i] = wal[i]

LEMMA WalDomain == TypeOK => DOMAIN wal = 1..Len(wal) /\ Len(wal) \in Nat
BY DEF TypeOK

\* Settling one row keeps the table well formed and every other row.
LEMMA SettleRow ==
  ASSUME TypeOK, NEW i \in DOMAIN wal, NEW r \in WalRows, Pending(i),
         r.session = wal[i].session,
         wal' = [wal EXCEPT ![i] = r]
  PROVE  wal' \in Seq(WalRows) /\ DOMAIN wal' = DOMAIN wal /\ WalStep
<1>1. wal \in Seq(WalRows) /\ i \in 1..Len(wal) /\ DOMAIN wal = 1..Len(wal)
  BY WalDomain DEF TypeOK
<1>2. wal' \in Seq(WalRows) /\ Len(wal') = Len(wal)
  BY <1>1, ExceptSeq
<1>3. DOMAIN wal' = DOMAIN wal
  BY <1>1
<1>4. WalStep
  BY <1>1, <1>3 DEF WalStep, Pending
<1>5. QED BY <1>2, <1>3, <1>4

LEMMA OrphanRow ==
  ASSUME TypeOK, NEW i \in DOMAIN wal, wal' = OrphanWAL(i)
  PROVE  wal' \in Seq(WalRows) /\ DOMAIN wal' = DOMAIN wal /\ WalStep
<1>1. wal[i] \in WalRows
  BY WalDomain DEF TypeOK
<1>2. CASE Pending(i)
  <2>1. [wal[i] EXCEPT !.status = "orphaned"] \in WalRows
    BY <1>1 DEF WalRows
  <2>2. wal' = [wal EXCEPT ![i] = [wal[i] EXCEPT !.status = "orphaned"]]
    BY <1>2 DEF OrphanWAL
  <2>3. [wal[i] EXCEPT !.status = "orphaned"].session = wal[i].session
    BY <1>1 DEF WalRows
  <2>4. QED BY ONLY <2>1, <2>2, <2>3, <1>2, TypeOK, i \in DOMAIN wal, SettleRow
<1>3. CASE ~Pending(i)
  BY <1>3 DEF OrphanWAL, WalStep, TypeOK
<1>4. QED BY <1>2, <1>3

LEMMA CommitRow ==
  ASSUME TypeOK, NEW i \in DOMAIN wal, NEW t \in Threads, Pending(i),
         wal' = CommitWAL(i, t)
  PROVE  /\ wal' \in Seq(WalRows) /\ DOMAIN wal' = DOMAIN wal /\ WalStep
         /\ wal'[i].status = "committed" /\ wal'[i].new = t
         /\ wal'[i].session = wal[i].session
<1> DEFINE r == [session |-> wal[i].session, status |-> "committed", new |-> t]
<1>0. wal[i] \in WalRows
  BY WalDomain DEF TypeOK
<1>1. r \in WalRows
  BY <1>0 DEF WalRows
<1>4. wal' = [wal EXCEPT ![i] = r]
  BY DEF CommitWAL
<1>5. wal' \in Seq(WalRows) /\ DOMAIN wal' = DOMAIN wal /\ WalStep
  <2>1. r.session = wal[i].session OBVIOUS
  <2>2. QED BY ONLY <1>1, <1>4, <2>1, TypeOK, i \in DOMAIN wal, Pending(i), SettleRow
<1>6. wal'[i] = r
  BY <1>4
<1>7. QED BY <1>5, <1>6

LEMMA OpenRow ==
  ASSUME TypeOK, NEW s \in Sessions,
         wal' = Append(wal, [session |-> s, status |-> "pending", new |-> NoThread])
  PROVE  /\ wal' \in Seq(WalRows) /\ WalStep
         /\ Len(wal) + 1 \in DOMAIN wal'
         /\ wal'[Len(wal) + 1].session = s
<1>1. [session |-> s, status |-> "pending", new |-> NoThread] \in WalRows
  BY DEF WalRows
<1>2. wal \in Seq(WalRows)
  BY DEF TypeOK
<1>3. wal' \in Seq(WalRows) /\ Len(wal') = Len(wal) + 1
  BY <1>1, <1>2, AppendProperties
<1>4. DOMAIN wal = 1..Len(wal) /\ DOMAIN wal' = 1..(Len(wal) + 1) /\ Len(wal) \in Nat
  BY <1>2, <1>3
<1>5. \A i \in DOMAIN wal : wal'[i] = wal[i]
  BY <1>2, <1>4
<1>6. wal'[Len(wal) + 1].session = s
  BY <1>2, <1>4
<1>7. QED BY <1>3, <1>4, <1>5, <1>6 DEF WalStep
-----------------------------------------------------------------------------
(* Type correctness, with the wal ids, and what a step does to the wal. *)

LEMMA TypeInit == Init => TypeInv
BY ChainAssumption
   DEF Init, TypeInv, TypeOK, WalIds, Chains, Ops, NoOp, Recording, WalRows

\* A step that leaves the wal alone.
LEMMA SameWal == UNCHANGED wal => WalStep
BY DEF WalStep

\* A step that leaves every process alone keeps the ids.
LEMMA SameProcesses == WalIds /\ WalStep /\ UNCHANGED procVars => WalIds'
BY DEF WalIds, WalStep, procVars

LEMMA BootType ==
  ASSUME TypeInv, NEW s \in Sessions,
         \/ Boot(s) \/ Register(s) \/ InitFails(s) \/ HandlerFails(s) \/ Crash(s)
  PROVE  TypeInv' /\ WalStep
<1> USE ChainAssumption DEF TypeInv, dbVars, codexVars, procVars, discoverVars
<1>1. UNCHANGED wal /\ WalStep
  BY SameWal DEF Boot, Register, InitFails, HandlerFails, Crash
<1>2. DOMAIN wal \subseteq Nat
  BY WalDomain
<1>3. CASE Boot(s)
  <2>1. PICK ids \in SUBSET (DOMAIN wal) :
          toRecover' = [toRecover EXCEPT ![s] = ids]
    BY <1>3 DEF Boot, ListPendingWAL
  <2>2. QED BY <1>1, <1>2, <1>3, <2>1 DEF Boot, TypeOK, WalIds, Recording
<1>4. CASE Register(s)
  BY <1>1, <1>4 DEF Register, TypeOK, WalIds, Recording
<1>5. CASE InitFails(s)
  BY <1>1, <1>5 DEF InitFails, TypeOK, WalIds, Recording
<1>6. CASE HandlerFails(s)
  BY <1>1, <1>6 DEF HandlerFails, TypeOK, WalIds, Recording
<1>7. CASE Crash(s)
  <2>1. NoOp \in Ops
    BY DEF NoOp, Ops
  <2>2. QED BY <1>1, <1>7, <2>1 DEF Crash, TypeOK, WalIds, Recording
<1>8. QED BY <1>3, <1>4, <1>5, <1>6, <1>7

LEMMA RecoverType ==
  ASSUME TypeInv, NEW s \in Sessions, Recover(s)
  PROVE  TypeInv' /\ WalStep
<1> USE DEF TypeInv, codexVars, discoverVars
<1>1. PICK i \in toRecover[s] :
        /\ wal' = OrphanWAL(i) \/ UNCHANGED wal
        /\ toRecover' = [toRecover EXCEPT ![s] = StillToRecover(s, i)]
  BY DEF Recover
<1>2. i \in DOMAIN wal
  BY DEF WalIds
<1>3. wal' \in Seq(WalRows) /\ DOMAIN wal' = DOMAIN wal /\ WalStep
  BY <1>1, <1>2, OrphanRow, SameWal DEF TypeOK
<1>4. TypeOK'
  BY <1>1, <1>3 DEF Recover, TypeOK, StillToRecover
<1>5. WalIds'
  BY <1>1, <1>3 DEF Recover, WalIds, WalStep, StillToRecover, TypeOK
<1>6. QED BY <1>3, <1>4, <1>5

LEMMA ResumeParent ==
  ASSUME TypeOK, NEW s \in Sessions, NEW sent \in minted \cup {NoThread},
         NEW p \in ThreadToResume(s, sent)
  PROVE  p \in Threads
<1>1. \A c : \A r \in LastRollouts(c) : r.thread \in Threads
  BY DEF TypeOK, LastRollouts, ListRollouts, RolloutRows
<1>2. sent \in Threads \cup {NoThread}
  BY DEF TypeOK
<1>3. QED BY <1>1, <1>2 DEF ThreadToResume

LEMMA NextSequenceType ==
  ASSUME TypeOK, NEW s \in Sessions
  PROVE  NextSequence(s) \subseteq Nat
BY DEF TypeOK, NextSequence, LastRollouts, ListRollouts, RolloutRows

LEMMA InsertType ==
  ASSUME TypeInv, NEW s \in Sessions, NEW intent, NEW parent,
         \/ intent = "start" /\ parent = NoThread
         \/ intent \in {"fork", "resume"} /\ parent \in Threads,
         InsertWAL(s, intent, parent)
  PROVE  TypeInv' /\ WalStep
<1> USE DEF TypeInv, codexVars, discoverVars
<1>1. /\ wal' \in Seq(WalRows) /\ WalStep
      /\ Len(wal) + 1 \in DOMAIN wal' /\ wal'[Len(wal) + 1].session = s
  BY OpenRow DEF InsertWAL
<1>2. PICK n \in NextSequence(s) :
        op' = [op EXCEPT ![s] = [intent |-> intent, parent |-> parent,
                                 seq |-> n, wal |-> Len(wal) + 1]]
  BY DEF InsertWAL
<1>3. [intent |-> intent, parent |-> parent, seq |-> n, wal |-> Len(wal) + 1] \in Ops
  BY NextSequenceType, WalDomain DEF Ops
<1>4. TypeOK'
  BY <1>1, <1>2, <1>3 DEF InsertWAL, TypeOK, Recording
<1>5. WalIds'
  BY <1>1, <1>2 DEF InsertWAL, WalIds, WalStep, TypeOK
<1>6. QED BY <1>1, <1>4, <1>5

LEMMA HandlerType ==
  ASSUME TypeInv, NEW s \in Sessions, HandleStart(s) \/ HandleResumeThread(s)
  PROVE  TypeInv' /\ WalStep
<1>1. minted \subseteq Threads /\ TypeOK
  BY DEF TypeInv, TypeOK
<1>2. CASE HandleStart(s)
  BY <1>1, <1>2, InsertType DEF HandleStart
<1>3. CASE HandleResumeThread(s)
  <2>1. PICK sent \in minted \cup {NoThread} :
          \E p \in ThreadToResume(s, sent) : InsertWAL(s, "resume", p)
    BY <1>3 DEF HandleResumeThread
  <2>2. PICK p \in ThreadToResume(s, sent) : InsertWAL(s, "resume", p)
    BY <2>1
  <2>3. p \in Threads
    BY <1>1, ResumeParent
  <2>4. QED BY <2>2, <2>3, InsertType
<1>4. QED BY <1>2, <1>3
LEMMA MintType ==
  ASSUME TypeInv, NEW s \in Sessions,
         CodexMints(s) \/ MintFails(s) \/ CommitFails(s)
  PROVE  TypeInv' /\ WalStep
<1> USE DEF TypeInv, dbVars, codexVars, discoverVars
<1>0. NoOp \in Ops
  BY DEF NoOp, Ops
<1>1. CASE CodexMints(s)
  BY <1>1, SameWal DEF CodexMints, TypeOK, WalIds
<1>2. CASE MintFails(s)
  <2>1. op[s].wal \in DOMAIN wal
    BY <1>2 DEF MintFails, WalIds, Recording
  <2>2. wal' \in Seq(WalRows) /\ DOMAIN wal' = DOMAIN wal /\ WalStep
    BY <1>2, <2>1, OrphanRow, SameWal DEF MintFails, TypeOK
  <2>3. TypeOK'
    BY <1>0, <1>2, <2>2 DEF MintFails, Return, TypeOK
  <2>4. WalIds'
    BY <1>2, <2>2 DEF MintFails, Return, WalIds, WalStep, TypeOK, Recording
  <2>5. QED BY <2>2, <2>3, <2>4
<1>3. CASE CommitFails(s)
  <2>1. TypeOK'
    BY <1>0, <1>3 DEF CommitFails, Return, TypeOK
  <2>2. WalIds'
    BY <1>3 DEF CommitFails, Return, WalIds, TypeOK, Recording
  <2>3. QED BY <1>3, <2>1, <2>2, SameWal DEF CommitFails
<1>4. QED BY <1>1, <1>2, <1>3

LEMMA CommitType ==
  ASSUME TypeInv, NEW s \in Sessions, CommitStep(s)
  PROVE  /\ TypeInv' /\ WalStep
         /\ wal'[op[s].wal].status = "committed"
         /\ wal'[op[s].wal].new = newId[s]
<1> USE DEF TypeInv, codexVars, discoverVars
<1>1. op[s].wal \in DOMAIN wal /\ Pending(op[s].wal) /\ newId[s] \in Threads
  BY DEF CommitStep, CommitSucceeds, WalIds, TypeOK, Recording
<1>2. /\ wal' \in Seq(WalRows) /\ DOMAIN wal' = DOMAIN wal /\ WalStep
      /\ wal'[op[s].wal].status = "committed"
      /\ wal'[op[s].wal].new = newId[s]
  BY <1>1, CommitRow DEF CommitStep
<1>3. TypeOK'
  BY <1>2 DEF CommitStep, TypeOK, Recording
<1>4. WalIds'
  BY <1>2 DEF CommitStep, WalIds, WalStep, TypeOK, Recording
<1>5. QED BY <1>2, <1>3, <1>4

LEMMA RowType ==
  ASSUME TypeInv, NEW s \in Sessions, RolloutStep(s) \/ RotateStep(s),
         pc[s] \in {"rollout", "rotate"} => newId[s] \in Threads
  PROVE  TypeInv' /\ WalStep
<1> USE DEF TypeInv, codexVars, discoverVars
<1>1. CASE RolloutStep(s)
  <2>1. newId[s] \in Threads
    BY <1>1 DEF RolloutStep
  <2>2. op[s] \in Ops
    BY DEF TypeOK
  <2>3. op[s].seq \in Nat /\ op[s].parent \in Threads \cup {NoThread}
    BY <2>2 DEF Ops
  <2>4. [thread |-> newId[s], session |-> s, seq |-> op[s].seq,
         parent |-> op[s].parent] \in RolloutRows
    BY <2>1, <2>3 DEF RolloutRows, Chains
  <2>5. rollouts' \subseteq RolloutRows
    BY <1>1, <2>4 DEF RolloutStep, InsertRollout, TypeOK
  <2>6. tip' \in [Sessions -> Threads \cup {NoThread}]
    BY <1>1, <2>1 DEF RolloutStep, TypeOK
  <2>7. TypeOK'
    BY <1>1, <2>5, <2>6 DEF RolloutStep, TypeOK, Recording
  <2>8. WalIds'
    BY <1>1 DEF RolloutStep, WalIds, TypeOK, Recording
  <2>9. QED BY <1>1, <2>7, <2>8, SameWal DEF RolloutStep
<1>2. CASE RotateStep(s)
  <2>1. NoOp \in Ops
    BY DEF NoOp, Ops
  <2>2. newId[s] \in Threads /\ s \in Chains
    BY <1>2 DEF RotateStep, Chains
  <2>3. TypeOK'
    BY <1>2, <2>1, <2>2 DEF RotateStep, Return, TypeOK
  <2>4. WalIds'
    BY <1>2 DEF RotateStep, Return, WalIds, TypeOK, Recording
  <2>5. QED BY <1>2, <2>3, <2>4, SameWal DEF RotateStep
<1>3. QED BY <1>1, <1>2

LEMMA CodexType ==
  ASSUME TypeInv, CodexStep
  PROVE  TypeInv' /\ WalStep /\ UNCHANGED <<dbVars, procVars>>
<1>1. UNCHANGED <<dbVars, procVars, discoverVars, tip>>
  BY DEF CodexStep, CodexMintsElsewhere, CodexWritesRollout
<1>2. minted' \subseteq Threads /\ disk' \subseteq minted'
  BY DEF CodexStep, CodexMintsElsewhere, CodexWritesRollout, TypeInv, TypeOK
<1>3. TypeOK'
  BY <1>1, <1>2 DEF TypeInv, TypeOK, dbVars, procVars, discoverVars
<1>4. QED BY <1>1, <1>3, SameWal, SameProcesses DEF TypeInv, dbVars

\* A discover run writes sessions and rollouts rows under thread ids only.
LEMMA DiscoverType ==
  ASSUME TypeInv, NEW d \in Discoverers, DiscoverStep(d),
         dpc[d] = "insert" => item[d] \in Threads
  PROVE  /\ TypeInv' /\ WalStep /\ UNCHANGED <<wal, procVars, tip>>
         /\ \A s \in Sessions : current'[s] = current[s]
<1> USE ChainAssumption DEF TypeInv, dbVars, codexVars
<1>1. UNCHANGED <<wal, procVars, tip>>
  BY DEF DiscoverStep, LoadKnown, ImportSession, ImportRollout, DiscoverEnds
<1>2. WalIds' /\ WalStep
  BY <1>1, SameWal, SameProcesses
<1>3. CASE LoadKnown(d)
  <2>1. Filed \subseteq Threads
    BY DEF TypeOK, Filed, RolloutRows
  <2>2. TypeOK'
    BY <1>1, <1>3, <2>1 DEF LoadKnown, TypeOK, procVars
  <2>3. QED BY <1>1, <1>2, <1>3, <2>2 DEF LoadKnown
<1>4. ASSUME NEW t \in Threads, ImportSession(d, t)
      PROVE  TypeOK' /\ \A s \in Sessions : current'[s] = current[s]
  BY <1>1, <1>4 DEF ImportSession, TypeOK, procVars, Chains
<1>5. CASE ImportRollout(d)
  <2>1. item[d] \in Threads
    BY <1>5 DEF ImportRollout
  <2>2. [thread |-> item[d], session |-> item[d], seq |-> 0,
         parent |-> NoThread] \in RolloutRows
    BY <2>1 DEF RolloutRows, Chains
  <2>3. rollouts' \subseteq RolloutRows
    BY <1>5, <2>2 DEF ImportRollout, InsertRollout, TypeOK
  <2>4. /\ known' \in [Discoverers -> SUBSET Threads]
        /\ dpc' \in [Discoverers -> {"off", "walk", "insert"}]
        /\ item' \in [Discoverers -> Threads \cup {NoThread}]
    <3>1. CASE item[d] \in Filed
      BY <1>5, <3>1 DEF ImportRollout, TypeOK
    <3>2. CASE item[d] \notin Filed
      <4>1. /\ known' = [known EXCEPT ![d] = known[d] \cup {item[d]}]
            /\ dpc' = [dpc EXCEPT ![d] = "walk"]
            /\ item' = [item EXCEPT ![d] = NoThread]
        BY <1>5, <3>2 DEF ImportRollout
      <4>2. /\ known \in [Discoverers -> SUBSET Threads]
            /\ dpc \in [Discoverers -> {"off", "walk", "insert"}]
            /\ item \in [Discoverers -> Threads \cup {NoThread}]
        BY DEF TypeOK
      <4>3. known[d] \cup {item[d]} \in SUBSET Threads
        BY <2>1, <4>2
      <4>4. QED BY <4>1, <4>2, <4>3
    <3>3. QED BY <3>1, <3>2
  <2>5. TypeOK'
    BY <1>1, <1>5, <2>3, <2>4 DEF ImportRollout, TypeOK, procVars
  <2>6. QED BY <1>1, <1>2, <1>5, <2>5 DEF ImportRollout
<1>6. CASE DiscoverEnds(d)
  BY <1>1, <1>2, <1>6 DEF DiscoverEnds, TypeOK, procVars
<1>7. QED BY <1>1, <1>2, <1>3, <1>4, <1>5, <1>6 DEF DiscoverStep
-----------------------------------------------------------------------------
(* The thread a session runs on is recorded.  The invariant that makes it  *)
(* inductive: once past the commit, the row a recordChain call holds is    *)
(* committed with the thread it is about to adopt.                         *)

HeldRowCommitted ==
  /\ \A s \in Sessions :
       pc[s] \in {"rollout", "rotate"} =>
         /\ newId[s] \in Threads
         /\ wal[op[s].wal].status = "committed"
         /\ wal[op[s].wal].new = newId[s]
  /\ \A d \in Discoverers : dpc[d] = "insert" => item[d] \in Threads

RecordInv == TypeInv /\ HeldRowCommitted /\ LiveThreadRecorded

LEMMA RecordedStays ==
  ASSUME WalStep
  PROVE  \A s, t : RecordedFor(s, t) => RecordedFor(s, t)'
BY DEF RecordedFor, WalStep, Pending

\* The held rows stay committed when the processes do not move.
LEMMA HeldStays ==
  ASSUME TypeInv, HeldRowCommitted, WalStep, NEW s \in Sessions,
         pc[s] \in {"rollout", "rotate"}
  PROVE  /\ wal'[op[s].wal].status = "committed"
         /\ wal'[op[s].wal].new = newId[s]
<1>1. op[s].wal \in DOMAIN wal
  BY DEF TypeInv, WalIds, Recording
<1>2. ~Pending(op[s].wal)
  BY DEF HeldRowCommitted, Pending
<1>3. QED BY <1>1, <1>2 DEF WalStep, HeldRowCommitted

\* Every step of a wrapper process keeps the types.
LEMMA BridgeType ==
  ASSUME RecordInv, NEW s \in Sessions, BridgeStep(s)
  PROVE  TypeInv' /\ WalStep
<1>1. TypeInv /\ (pc[s] \in {"rollout", "rotate"} => newId[s] \in Threads)
  BY DEF RecordInv, HeldRowCommitted
<1>2. QED
  BY <1>1, BootType, RecoverType, HandlerType, MintType, CommitType, RowType
  DEF BridgeStep, RecordStep

LEMMA BridgeHeld ==
  ASSUME RecordInv, NEW s \in Sessions, BridgeStep(s), TypeInv', WalStep
  PROVE  HeldRowCommitted'
<1> USE DEF RecordInv, TypeInv, discoverVars
<1>1. UNCHANGED discoverVars
  BY DEF BridgeStep, RecordStep, Boot, Recover, Register, InitFails, HandleStart,
         HandleResumeThread, InsertWAL, HandlerFails, CodexMints, MintFails,
         CommitStep, CommitFails, RolloutStep, RotateStep, Crash
<1>2. \A u \in Sessions \ {s} :
        pc'[u] = pc[u] /\ op'[u] = op[u] /\ newId'[u] = newId[u]
  BY DEF BridgeStep, RecordStep, Boot, Recover, Register, InitFails, HandleStart,
         HandleResumeThread, InsertWAL, HandlerFails, CodexMints, MintFails,
         CommitStep, CommitFails, RolloutStep, RotateStep, Crash, Return, TypeOK
<1>3. \A u \in Sessions \ {s} :
        pc'[u] \in {"rollout", "rotate"} =>
          /\ newId'[u] \in Threads
          /\ wal'[op'[u].wal].status = "committed"
          /\ wal'[op'[u].wal].new = newId'[u]
  BY <1>2, HeldStays DEF HeldRowCommitted
<1>4. ASSUME pc'[s] \in {"rollout", "rotate"}
      PROVE  /\ newId'[s] \in Threads
             /\ wal'[op'[s].wal].status = "committed"
             /\ wal'[op'[s].wal].new = newId'[s]
  <2>1. CommitStep(s) \/ RolloutStep(s)
    BY <1>4 DEF BridgeStep, RecordStep, Boot, Recover, Register, InitFails,
         HandleStart, HandleResumeThread, InsertWAL, HandlerFails, CodexMints,
         MintFails, CommitFails, RotateStep, Crash, Return, TypeOK
  <2>2. CASE CommitStep(s)
    <3>1. newId[s] \in Threads
      BY <2>2 DEF CommitStep, TypeOK
    <3>2. op' = op /\ newId' = newId
      BY <2>2 DEF CommitStep
    <3>3. QED BY <2>2, <3>1, <3>2, CommitType
  <2>3. CASE RolloutStep(s)
    BY <2>3, HeldStays DEF RolloutStep, HeldRowCommitted
  <2>4. QED BY <2>1, <2>2, <2>3
<1>5. QED BY <1>1, <1>3, <1>4 DEF HeldRowCommitted

LEMMA BridgeRecorded ==
  ASSUME RecordInv, NEW s \in Sessions, BridgeStep(s), TypeInv', WalStep
  PROVE  LiveThreadRecorded'
<1> USE DEF RecordInv, TypeInv
<1>1. CASE RotateStep(s)
  <2>1. PICK t \in Threads : t = newId[s] /\ RecordedFor(s, t)
    BY <1>1 DEF RotateStep, HeldRowCommitted, WalIds, Recording, RecordedFor
  <2>2. RecordedFor(s, t)'
    BY <2>1, RecordedStays
  <2>3. /\ threadID'[s] = t /\ current'[s] \in {current[s], t}
        /\ \A u \in Sessions \ {s} :
             threadID'[u] = threadID[u] /\ current'[u] = current[u]
    BY <1>1, <2>1 DEF RotateStep, TypeOK, Chains
  <2>4. \A u \in Sessions : \A q : RecordedFor(u, q) => RecordedFor(u, q)'
    BY RecordedStays
  <2>5. QED BY <2>2, <2>3, <2>4 DEF LiveThreadRecorded
<1>2. CASE ~RotateStep(s)
  <2>1. \A u \in Sessions :
          /\ threadID'[u] = threadID[u] \/ threadID'[u] = NoThread
          /\ current'[u] = current[u] \/ current'[u] = NoThread
    BY <1>2 DEF BridgeStep, RecordStep, Boot, Recover, Register, InitFails,
         HandleStart, HandleResumeThread, InsertWAL, HandlerFails, CodexMints,
         MintFails, CommitStep, CommitFails, RolloutStep, Crash, TypeOK, dbVars, Chains
  <2>2. QED BY <2>1, RecordedStays, ChainAssumption DEF LiveThreadRecorded
<1>3. QED BY <1>1, <1>2
LEMMA DiscoverRecord ==
  ASSUME RecordInv, NEW d \in Discoverers, DiscoverStep(d)
  PROVE  RecordInv'
<1>1. dpc[d] = "insert" => item[d] \in Threads
  BY DEF RecordInv, HeldRowCommitted
<1>2. /\ TypeInv' /\ WalStep /\ UNCHANGED <<wal, procVars, tip>>
      /\ \A s \in Sessions : current'[s] = current[s]
  BY <1>1, DiscoverType DEF RecordInv
<1>3. LiveThreadRecorded'
  BY <1>2, RecordedStays DEF RecordInv, LiveThreadRecorded, procVars
<1>4. \A e \in Discoverers : dpc'[e] = "insert" => item'[e] \in Threads
  BY DEF RecordInv, HeldRowCommitted, TypeInv, TypeOK, DiscoverStep, LoadKnown,
         ImportSession, ImportRollout, DiscoverEnds
<1>5. HeldRowCommitted'
  BY <1>2, <1>4 DEF RecordInv, HeldRowCommitted, procVars
<1>6. QED BY <1>2, <1>3, <1>5 DEF RecordInv

LEMMA RecordNext == RecordInv /\ [Next]_vars => RecordInv' /\ WalStep
<1> SUFFICES ASSUME RecordInv, [Next]_vars PROVE RecordInv' /\ WalStep
  OBVIOUS
<1>1. ASSUME NEW s \in Sessions, BridgeStep(s) PROVE RecordInv' /\ WalStep
  <2>1. TypeInv' /\ WalStep
    BY <1>1, BridgeType
  <2>2. HeldRowCommitted' /\ LiveThreadRecorded'
    BY <1>1, <2>1, BridgeHeld, BridgeRecorded
  <2>3. QED BY <2>1, <2>2 DEF RecordInv
<1>2. ASSUME NEW d \in Discoverers, DiscoverStep(d) PROVE RecordInv' /\ WalStep
  <2>1. WalStep
    BY <1>2, DiscoverType DEF RecordInv, HeldRowCommitted
  <2>2. QED BY <1>2, <2>1, DiscoverRecord
<1>3. CASE CodexStep
  <2>1. TypeInv' /\ WalStep /\ UNCHANGED <<dbVars, procVars>>
    BY <1>3, CodexType DEF RecordInv
  <2>2. UNCHANGED discoverVars
    BY <1>3 DEF CodexStep, CodexMintsElsewhere, CodexWritesRollout
  <2>3. HeldRowCommitted' /\ LiveThreadRecorded'
    BY <2>1, <2>2 DEF RecordInv, HeldRowCommitted, LiveThreadRecorded, RecordedFor,
       dbVars, procVars, discoverVars
  <2>4. QED BY <2>1, <2>3 DEF RecordInv
<1>4. CASE UNCHANGED vars
  <2>1. UNCHANGED <<dbVars, codexVars, procVars, discoverVars, tip>>
    BY <1>4 DEF vars
  <2>2. TypeInv' /\ WalStep
    BY <2>1, SameWal DEF RecordInv, TypeInv, TypeOK, WalIds, dbVars, codexVars,
       procVars, discoverVars
  <2>3. HeldRowCommitted' /\ LiveThreadRecorded'
    BY <2>1 DEF RecordInv, HeldRowCommitted, LiveThreadRecorded, RecordedFor,
       dbVars, procVars, discoverVars
  <2>4. QED BY <2>2, <2>3 DEF RecordInv
<1>5. QED BY <1>1, <1>2, <1>3, <1>4 DEF Next

LEMMA RecordInit == Init => RecordInv
BY TypeInit, ChainAssumption
   DEF Init, RecordInv, HeldRowCommitted, LiveThreadRecorded, Chains

LEMMA RecordAlways == Spec => []RecordInv
<1>1. Init => RecordInv
  BY RecordInit
<1>2. RecordInv /\ [Next]_vars => RecordInv'
  BY RecordNext
<1>3. QED BY <1>1, <1>2, PTL DEF Spec

\* The variables keep their types: in particular only a start has no parent
\* thread, so a resume with nothing to continue never reaches codex.
THEOREM TypeCorrect == Spec => []TypeOK
<1>1. RecordInv => TypeOK
  BY DEF RecordInv, TypeInv
<1>2. QED BY <1>1, RecordAlways, PTL

\* No turn runs on a thread, and no sessions row names one, that was not first
\* committed to the wal for that session: with any number of wrapper processes
\* and recoveries on one state.db, crashes anywhere and any write refused.
THEOREM RecordedBeforeUse == Spec => []LiveThreadRecorded
<1>1. RecordInv => LiveThreadRecorded
  BY DEF RecordInv
<1>2. QED BY <1>1, RecordAlways, PTL
-----------------------------------------------------------------------------
(* The wal table implements WalLifecycle. *)

LEMMA OrphanImplemented ==
  ASSUME NEW i \in DOMAIN wal, wal' = OrphanWAL(i)
  PROVE  [WalTable!Next]_wal
BY DEF OrphanWAL, Pending, WalTable!Next, WalTable!Orphan

LEMMA WalStepImplemented == RecordInv /\ [Next]_vars => [WalTable!Next]_wal
<1> SUFFICES ASSUME RecordInv, [Next]_vars, wal' # wal PROVE WalTable!Next
  OBVIOUS
<1> USE DEF RecordInv, TypeInv
<1>1. PICK s \in Sessions : BridgeStep(s)
  BY DEF Next, DiscoverStep, LoadKnown, ImportSession, ImportRollout, DiscoverEnds,
         CodexStep, CodexMintsElsewhere, CodexWritesRollout, vars, dbVars
<1>2. \/ Recover(s) \/ HandleStart(s) \/ HandleResumeThread(s)
      \/ MintFails(s) \/ CommitStep(s)
  BY <1>1 DEF BridgeStep, RecordStep, Boot, Register, InitFails, HandlerFails,
         CodexMints, CommitFails, RolloutStep, RotateStep, Crash, dbVars
<1>3. CASE Recover(s)
  <2>1. PICK i \in toRecover[s] : wal' = OrphanWAL(i)
    BY <1>3 DEF Recover
  <2>2. i \in DOMAIN wal
    BY DEF WalIds
  <2>3. QED BY <2>1, <2>2, OrphanImplemented
<1>4. CASE HandleStart(s) \/ HandleResumeThread(s)
  BY <1>4 DEF HandleStart, HandleResumeThread, InsertWAL, WalTable!Next, WalTable!Open
<1>5. CASE MintFails(s)
  <2>1. wal' = OrphanWAL(op[s].wal) /\ op[s].wal \in DOMAIN wal
    BY <1>5 DEF MintFails, WalIds, Recording
  <2>2. QED BY <2>1, OrphanImplemented
<1>6. CASE CommitStep(s)
  <2>1. /\ Pending(op[s].wal) /\ wal' = CommitWAL(op[s].wal, newId[s])
        /\ op[s].wal \in DOMAIN wal /\ newId[s] \in Threads
    BY <1>6 DEF CommitStep, CommitSucceeds, WalIds, Recording, TypeOK
  <2>2. WalTable!Commit(op[s].wal, newId[s])
    BY <2>1 DEF CommitWAL, Pending, WalTable!Commit
  <2>3. QED BY <2>1, <2>2 DEF WalTable!Next
<1>7. QED BY <1>2, <1>3, <1>4, <1>5, <1>6

\* Whatever the wrappers' calls, recoveries and crashes interleave to, the wal
\* table behaves as WalLifecycle: each row settles at most once and for good.
THEOREM WalTableImplemented == Spec => WalImplemented
<1>1. Init => WalTable!Init
  BY DEF Init, WalTable!Init
<1>2. RecordInv /\ [Next]_vars => [WalTable!Next]_wal
  BY WalStepImplemented
<1>3. QED BY <1>1, <1>2, RecordAlways, PTL DEF Spec, WalImplemented, WalTable!Spec
-----------------------------------------------------------------------------
(* The order of the chains, as long as the statements it rests on do not fail. *)

\* Each thread is filed once, is one that exists and was resumed from one that
\* exists; the chain of an imported thread is that thread alone.
RowsMade ==
  /\ \A r \in rollouts :
       /\ r.thread \in minted
       /\ r.parent \in minted \cup {NoThread}
       /\ r.session \in Threads => r.session = r.thread
  /\ \A r, q \in rollouts : r.thread = q.thread => r = q
  /\ \A d \in Discoverers : item[d] \in minted \cup {NoThread}

\* The threads a recordChain call works on exist.
HoldsMinted(s) ==
  /\ newId[s] \in minted \cup {NoThread}
  /\ pc[s] \notin Recording => newId[s] = NoThread
  /\ pc[s] \in Recording => op[s].parent \in minted \cup {NoThread}
  /\ pc[s] \in {"rollout", "rotate"} => newId[s] # NoThread

\* The row a call is about to file comes after every row of its chain, and no
\* row of the chain was resumed from the new thread, unless it has a row already.
Ahead(s) ==
  pc[s] \in {"minting", "rollout"} =>
    \A r \in ListRollouts(s) :
      /\ r.seq < op[s].seq
      /\ newId[s] # NoThread /\ r.parent = newId[s] => newId[s] \in Filed

\* A call that resumes does so from the last row of the chain, if there is one.
ResumesLast(s) ==
  pc[s] = "minting" /\ op[s].intent = "resume" /\ ListRollouts(s) # {} =>
    \E r \in LastRollouts(s) : r.thread = op[s].parent

\* A chain has a last row.  The thread the conversation was last carried on by, and
\* the one it is about to be carried on by, are filed there if they are in the chain.
KnowsLast(s) ==
  /\ ListRollouts(s) # {} => LastRollouts(s) # {}
  /\ \A r \in ListRollouts(s) : r.thread \in {newId[s], tip[s]} => r \in LastRollouts(s)

CallInv(s) == HoldsMinted(s) /\ Ahead(s) /\ ResumesLast(s) /\ KnowsLast(s)

OrderInv == RowsMade /\ ChainOrdered /\ \A s \in Sessions : CallInv(s)

\* The row is there from Init to the end of the request, and from the first to the
\* second insert of a cold import; no statement removes one.
FiledInv ==
  /\ FiledUnderASession
  /\ \A s \in Sessions : pc[s] \in {"handle"} \cup Recording => current[s] # NoRow
  /\ \A d \in Discoverers : dpc[d] = "insert" => current[item[d]] # NoRow

OrderType == RecordInv /\ OrderInv

-----------------------------------------------------------------------------
(* A session is only disturbed by its own process and by new rows of its    *)
(* own chain.                                                              *)

LEMMA OtherCall ==
  ASSUME NEW z \in Sessions, CallInv(z), minted \subseteq minted',
         Filed \subseteq Filed', ListRollouts(z)' = ListRollouts(z),
         pc'[z] = pc[z], op'[z] = op[z], newId'[z] = newId[z], tip'[z] = tip[z]
  PROVE  CallInv(z)'
<1>1. LastRollouts(z)' = LastRollouts(z)
  BY DEF LastRollouts
<1>2. HoldsMinted(z)'
  BY DEF CallInv, HoldsMinted
<1>3. Ahead(z)'
  BY DEF CallInv, Ahead
<1>4. ResumesLast(z)' /\ KnowsLast(z)'
  BY <1>1 DEF CallInv, ResumesLast, KnowsLast
<1>5. QED BY <1>2, <1>3, <1>4 DEF CallInv

\* The same for a step that files nothing.
LEMMA NothingFiled ==
  ASSUME NEW z \in Sessions, CallInv(z), minted \subseteq minted', UNCHANGED rollouts,
         pc'[z] = pc[z], op'[z] = op[z], newId'[z] = newId[z], tip'[z] = tip[z]
  PROVE  CallInv(z)'
<1>1. Filed' = Filed /\ ListRollouts(z)' = ListRollouts(z)
  BY DEF Filed, ListRollouts
<1>2. QED BY <1>1, OtherCall

\* A step that files nothing keeps the table in order.
LEMMA SameTable ==
  ASSUME RowsMade, ChainOrdered, UNCHANGED rollouts, minted \subseteq minted',
         \A d \in Discoverers : item'[d] \in minted' \cup {NoThread}
  PROVE  RowsMade' /\ ChainOrdered'
BY DEF RowsMade, ChainOrdered

\* A step of one process that files nothing and mints nothing outside a call, or
\* ends one.
LEMMA QuietOrder ==
  ASSUME OrderType, NEW s \in Sessions,
         \/ Boot(s) \/ Recover(s) \/ Register(s) \/ InitFails(s) \/ HandlerFails(s)
         \/ MintFails(s) \/ CommitFails(s) \/ RotateStep(s) \/ Crash(s)
  PROVE  OrderInv'
<1> USE DEF codexVars, discoverVars, dbVars
<1>1. TypeOK
  BY DEF OrderType, RecordInv, TypeInv
<1>2. UNCHANGED <<rollouts, minted, item>>
  BY DEF Boot, Recover, Register, InitFails, HandlerFails, MintFails, CommitFails,
     RotateStep, Crash
<1>3. RowsMade' /\ ChainOrdered'
  BY <1>2, SameTable DEF OrderType, OrderInv, RowsMade
<1>4. pc'[s] \notin Recording
  BY <1>1 DEF Boot, Recover, Register, InitFails, HandlerFails, MintFails, CommitFails,
     RotateStep, Crash, Return, Recording, TypeOK
<1>5. newId'[s] = NoThread /\ tip'[s] \in {newId[s], tip[s]}
  <2>1. pc[s] \notin Recording => newId[s] = NoThread
    BY DEF OrderType, OrderInv, CallInv, HoldsMinted
  <2>2. QED BY <1>1, <2>1 DEF Boot, Recover, Register, InitFails, HandlerFails, MintFails,
        CommitFails, RotateStep, Crash, Return, TypeOK, Recording
<1>6. \A z \in Sessions \ {s} :
        /\ pc'[z] = pc[z] /\ op'[z] = op[z]
        /\ newId'[z] = newId[z] /\ tip'[z] = tip[z]
  BY <1>1 DEF Boot, Recover, Register, InitFails, HandlerFails, MintFails, CommitFails,
     RotateStep, Crash, Return, TypeOK
<1>7. ASSUME NEW z \in Sessions \ {s} PROVE CallInv(z)'
  BY <1>2, <1>6, NothingFiled DEF OrderType, OrderInv
<1>8. CallInv(s)'
  <2>1. HoldsMinted(s)'
    BY <1>2, <1>4, <1>5 DEF OrderType, OrderInv, CallInv, HoldsMinted, Recording
  <2>2. Ahead(s)' /\ ResumesLast(s)'
    BY <1>4 DEF Ahead, ResumesLast, Recording
  <2>3. \A r \in ListRollouts(s) : r.thread # NoThread
    BY <1>1, ChainAssumption DEF TypeOK, RolloutRows, ListRollouts
  <2>4. ListRollouts(s)' = ListRollouts(s) /\ LastRollouts(s)' = LastRollouts(s)
    BY <1>2 DEF ListRollouts, LastRollouts
  <2>5. KnowsLast(s)'
    BY <1>5, <2>3, <2>4 DEF OrderType, OrderInv, CallInv, KnowsLast
  <2>6. QED BY <2>1, <2>2, <2>5 DEF CallInv
<1>9. QED BY <1>3, <1>7, <1>8 DEF OrderInv

\* The sequence of a new row exceeds those of its chain when the chain is read.
LEMMA NextSequenceExceeds ==
  ASSUME ~Busy("reads"), TypeOK, NEW s \in Sessions, NEW n \in NextSequence(s),
         NEW r \in ListRollouts(s)
  PROVE  r.seq < n
<1>1. PICK q \in LastRollouts(s) : n = q.seq + 1
  BY DEF NextSequence
<1>2. r.seq <= q.seq /\ r.seq \in Nat /\ q.seq \in Nat
  BY DEF LastRollouts, ListRollouts, TypeOK, RolloutRows
<1>3. QED BY <1>1, <1>2

\* A call begins: what it will resume from and file is read from the table.
LEMMA InsertOrder ==
  ASSUME ~Busy("reads"), OrderType,
         NEW s \in Sessions, NEW intent, NEW parent, InsertWAL(s, intent, parent),
         parent \in minted \cup {NoThread},
         intent = "resume" /\ ListRollouts(s) # {} =>
           \E r \in LastRollouts(s) : r.thread = parent
  PROVE  OrderInv'
<1> USE DEF codexVars, discoverVars
<1>1. TypeOK
  BY DEF OrderType, RecordInv, TypeInv
<1>2. UNCHANGED <<rollouts, minted, item, newId, tip>> /\ pc[s] = "handle"
  BY DEF InsertWAL
<1>3. RowsMade' /\ ChainOrdered'
  BY <1>2, SameTable DEF OrderType, OrderInv, RowsMade
<1>4. PICK n \in NextSequence(s) :
        op' = [op EXCEPT ![s] = [intent |-> intent, parent |-> parent,
                                 seq |-> n, wal |-> Len(wal) + 1]]
  BY DEF InsertWAL
<1>5. ASSUME NEW z \in Sessions \ {s} PROVE CallInv(z)'
  <2>1. pc'[z] = pc[z] /\ op'[z] = op[z]
    BY <1>1 DEF InsertWAL, TypeOK
  <2>2. QED BY <1>2, <2>1, NothingFiled DEF OrderType, OrderInv
<1>6. CallInv(s)'
  <2>1. /\ pc'[s] = "minting" /\ op'[s].intent = intent
        /\ op'[s].parent = parent /\ op'[s].seq = n
    BY <1>1, <1>4 DEF InsertWAL, TypeOK
  <2>2. ListRollouts(s)' = ListRollouts(s) /\ LastRollouts(s)' = LastRollouts(s)
    BY <1>2 DEF ListRollouts, LastRollouts
  <2>3. newId[s] = NoThread
    BY <1>2 DEF OrderType, OrderInv, CallInv, HoldsMinted, Recording
  <2>4. HoldsMinted(s)'
    BY <1>2, <2>1, <2>3 DEF HoldsMinted, Recording
  <2>5. Ahead(s)'
    BY <1>1, <1>2, <2>1, <2>2, <2>3, NextSequenceExceeds DEF Ahead
  <2>6. ResumesLast(s)'
    BY <2>1, <2>2 DEF ResumesLast
  <2>7. KnowsLast(s)'
    BY <1>2, <2>2 DEF OrderType, OrderInv, CallInv, KnowsLast
  <2>8. QED BY <2>4, <2>5, <2>6, <2>7 DEF CallInv
<1>7. QED BY <1>3, <1>5, <1>6 DEF OrderInv

LEMMA HandlerOrder ==
  ASSUME ~Busy("reads"), OrderType, NEW s \in Sessions,
         HandleStart(s) \/ HandleResumeThread(s)
  PROVE  OrderInv'
<1>1. CASE HandleStart(s)
  BY <1>1, InsertOrder DEF HandleStart
<1>2. CASE HandleResumeThread(s)
  <2>1. PICK sent \in minted \cup {NoThread} :
          \E p \in ThreadToResume(s, sent) : InsertWAL(s, "resume", p)
    BY <1>2 DEF HandleResumeThread
  <2>2. PICK p \in ThreadToResume(s, sent) : InsertWAL(s, "resume", p)
    BY <2>1
  <2>3. \A c : \A r \in LastRollouts(c) : r.thread \in minted
    BY DEF LastRollouts, ListRollouts, OrderType, OrderInv, RowsMade
  <2>4. p \in minted \cup {NoThread}
    BY <2>1, <2>2, <2>3 DEF ThreadToResume
  <2>5. ListRollouts(s) # {} => \E r \in LastRollouts(s) : r.thread = p
    <3>1. ListRollouts(s) # {} => LastRollouts(s) # {}
      BY DEF OrderType, OrderInv, CallInv, KnowsLast
    <3>2. QED BY <2>2, <3>1 DEF ThreadToResume
  <2>6. QED BY <2>2, <2>4, <2>5, InsertOrder
<1>3. QED BY <1>1, <1>2

\* The thread codex answers with is new to the chain, or is the last one of it.
LEMMA MintOrder ==
  ASSUME OrderType, NEW s \in Sessions, CodexMints(s)
  PROVE  OrderInv'
<1> USE DEF dbVars, discoverVars
<1>1. TypeOK
  BY DEF OrderType, RecordInv, TypeInv
<1>2. UNCHANGED <<rollouts, item, pc, op, tip>> /\ pc[s] = "minting"
  BY DEF CodexMints
<1>3. PICK t \in Threads :
        /\ t \notin minted \/ (op[s].intent = "resume" /\ t = op[s].parent)
        /\ minted' = minted \cup {t}
        /\ newId' = [newId EXCEPT ![s] = t]
  BY DEF CodexMints
<1>4. minted \subseteq minted'
  BY <1>3
<1>5. RowsMade' /\ ChainOrdered'
  BY <1>2, <1>4, SameTable DEF OrderType, OrderInv, RowsMade
<1>6. ASSUME NEW z \in Sessions \ {s} PROVE CallInv(z)'
  <2>1. newId'[z] = newId[z]
    BY <1>1, <1>3 DEF TypeOK
  <2>2. QED BY <1>2, <1>4, <2>1, NothingFiled DEF OrderType, OrderInv
<1>7. CallInv(s)'
  <2>1. newId'[s] = t /\ t \in minted'
    BY <1>1, <1>3 DEF TypeOK
  <2>2. /\ ListRollouts(s)' = ListRollouts(s) /\ LastRollouts(s)' = LastRollouts(s)
        /\ Filed' = Filed
    BY <1>2 DEF ListRollouts, LastRollouts, Filed
  <2>3. HoldsMinted(s)'
    BY <1>2, <1>4, <2>1, ChainAssumption
       DEF OrderType, OrderInv, CallInv, HoldsMinted, Recording
  <2>4. ASSUME NEW r \in ListRollouts(s)
        PROVE  /\ r.parent = t => t \in Filed
               /\ r.thread = t => r \in LastRollouts(s)
    <3>1. r \in rollouts /\ r.thread \in minted /\ r.parent \in minted \cup {NoThread}
      BY DEF ListRollouts, OrderType, OrderInv, RowsMade
    <3>2. CASE t \notin minted
      BY <3>1, <3>2, ChainAssumption
    <3>3. CASE op[s].intent = "resume" /\ t = op[s].parent
      <4>1. PICK q \in LastRollouts(s) : q.thread = t
        BY <1>2, <3>3 DEF OrderType, OrderInv, CallInv, ResumesLast
      <4>2. q \in rollouts
        BY DEF LastRollouts, ListRollouts
      <4>3. r.thread = t => r = q
        BY <3>1, <4>1, <4>2 DEF OrderType, OrderInv, RowsMade
      <4>4. QED BY <4>1, <4>2, <4>3 DEF Filed
    <3>4. QED BY <1>3, <3>2, <3>3
  <2>5. Ahead(s)'
    BY <1>2, <2>1, <2>2, <2>4 DEF OrderType, OrderInv, CallInv, Ahead
  <2>6. ResumesLast(s)'
    BY <1>2, <2>2 DEF OrderType, OrderInv, CallInv, ResumesLast
  <2>7. KnowsLast(s)'
    BY <1>2, <2>1, <2>2, <2>4 DEF OrderType, OrderInv, CallInv, KnowsLast
  <2>8. QED BY <2>3, <2>5, <2>6, <2>7 DEF CallInv
<1>8. QED BY <1>5, <1>6, <1>7 DEF OrderInv

LEMMA CommitOrder ==
  ASSUME OrderType, NEW s \in Sessions, CommitStep(s)
  PROVE  OrderInv'
<1> USE DEF codexVars, discoverVars
<1>1. TypeOK
  BY DEF OrderType, RecordInv, TypeInv
<1>2. UNCHANGED <<rollouts, minted, item, op, newId, tip>>
  BY DEF CommitStep
<1>3. RowsMade' /\ ChainOrdered'
  BY <1>2, SameTable DEF OrderType, OrderInv, RowsMade
<1>4. pc[s] = "minting" /\ pc'[s] = "rollout" /\ newId[s] # NoThread
  BY <1>1 DEF CommitStep, TypeOK
<1>5. ASSUME NEW z \in Sessions \ {s} PROVE CallInv(z)'
  <2>1. pc'[z] = pc[z]
    BY <1>1 DEF CommitStep, TypeOK
  <2>2. QED BY <1>2, <2>1, NothingFiled DEF OrderType, OrderInv
<1>6. CallInv(s)'
  <2>1. /\ ListRollouts(s)' = ListRollouts(s) /\ LastRollouts(s)' = LastRollouts(s)
        /\ Filed' = Filed
    BY <1>2 DEF ListRollouts, LastRollouts, Filed
  <2>2. HoldsMinted(s)'
    BY <1>2, <1>4 DEF OrderType, OrderInv, CallInv, HoldsMinted, Recording
  <2>3. Ahead(s)' /\ ResumesLast(s)'
    BY <1>2, <1>4, <2>1 DEF OrderType, OrderInv, CallInv, Ahead, ResumesLast
  <2>4. KnowsLast(s)'
    BY <1>2, <2>1 DEF OrderType, OrderInv, CallInv, KnowsLast
  <2>5. QED BY <2>2, <2>3, <2>4 DEF CallInv
<1>7. QED BY <1>3, <1>5, <1>6 DEF OrderInv
-----------------------------------------------------------------------------
(* The steps that file a row. *)

\* A row for a thread without one keeps the table's keys.
LEMMA NewRow ==
  ASSUME RowsMade, NEW r, rollouts' = rollouts \cup {r}, r.thread \notin Filed,
         minted' = minted, r.thread \in minted, r.parent \in minted \cup {NoThread},
         r.session \in Threads => r.session = r.thread,
         \A d \in Discoverers : item'[d] \in minted \cup {NoThread}
  PROVE  RowsMade'
<1>1. \A q \in rollouts : q.thread # r.thread
  BY DEF Filed
<1>2. QED BY <1>1 DEF RowsMade

\* The rollout of a call is the last of its chain.
LEMMA RolloutOrder ==
  ASSUME OrderType, NEW s \in Sessions, RolloutStep(s)
  PROVE  OrderInv'
<1> USE DEF codexVars, discoverVars
<1> DEFINE r == [thread |-> newId[s], session |-> s, seq |-> op[s].seq,
                 parent |-> op[s].parent]
<1>1. TypeOK
  BY DEF OrderType, RecordInv, TypeInv
<1>2. /\ UNCHANGED <<minted, item, op, newId>> /\ pc[s] = "rollout"
      /\ pc' = [pc EXCEPT ![s] = "rotate"]
  BY DEF RolloutStep
<1>3. /\ newId[s] \in minted /\ op[s].parent \in minted \cup {NoThread}
      /\ newId[s] # NoThread
  BY <1>2 DEF OrderType, OrderInv, CallInv, HoldsMinted, Recording
<1>4. pc'[s] = "rotate" /\ \A z \in Sessions \ {s} : pc'[z] = pc[z]
  BY <1>1, <1>2 DEF TypeOK
<1>5. HoldsMinted(s)'
  BY <1>2, <1>3, <1>4 DEF HoldsMinted, Recording
<1>6. Ahead(s)' /\ ResumesLast(s)'
  BY <1>4 DEF Ahead, ResumesLast
<1>7. CASE UNCHANGED rollouts
  <2>1. tip' = tip
    BY <1>7 DEF RolloutStep
  <2>2. RowsMade' /\ ChainOrdered'
    BY <1>2, <1>7, SameTable DEF OrderType, OrderInv, RowsMade
  <2>3. \A z \in Sessions \ {s} : CallInv(z)'
    BY <1>2, <1>4, <1>7, <2>1, NothingFiled DEF OrderType, OrderInv
  <2>4. ListRollouts(s)' = ListRollouts(s) /\ LastRollouts(s)' = LastRollouts(s)
    BY <1>7 DEF ListRollouts, LastRollouts
  <2>5. KnowsLast(s)'
    BY <1>2, <2>1, <2>4 DEF OrderType, OrderInv, CallInv, KnowsLast
  <2>6. QED BY <1>5, <1>6, <2>2, <2>3, <2>5 DEF OrderInv, CallInv
<1>8. CASE rollouts' = rollouts \cup {r} /\ newId[s] \notin Filed
  <2>1. \A q \in rollouts : q.thread # newId[s]
    BY <1>8 DEF Filed
  <2>2. r \notin rollouts
    BY <2>1
  <2>3. tip' = [tip EXCEPT ![s] = newId[s]]
    BY <1>8, <2>2 DEF RolloutStep
  <2>4. tip'[s] = newId[s] /\ \A z \in Sessions \ {s} : tip'[z] = tip[z]
    BY <1>1, <2>3 DEF TypeOK
  <2>5. s \notin Threads
    BY ChainAssumption
  <2>6. RowsMade'
    <3>1. RowsMade /\ \A d \in Discoverers : item'[d] \in minted \cup {NoThread}
      BY <1>2 DEF OrderType, OrderInv, RowsMade
    <3>2. r.thread = newId[s] /\ r.session = s /\ r.parent = op[s].parent
      OBVIOUS
    <3>3. QED BY <1>2, <1>3, <1>8, <2>5, <3>1, <3>2, NewRow
  <2>7. \A q \in ListRollouts(s) : q.seq < op[s].seq /\ q.parent # newId[s]
    BY <1>2, <1>3, <1>8 DEF OrderType, OrderInv, CallInv, Ahead
  <2>8. op[s].seq \in Nat /\ \A q \in rollouts : q.seq \in Nat
    BY <1>1 DEF TypeOK, Ops, RolloutRows
  <2>9. ChainOrdered'
    <3> SUFFICES ASSUME NEW p \in rollouts', NEW q \in rollouts',
                        p.session = q.session, p # q
                 PROVE  p.seq # q.seq /\ (p.parent = q.thread => q.seq < p.seq)
      BY DEF ChainOrdered
    <3>1. CASE p \in rollouts /\ q \in rollouts
      BY <3>1 DEF OrderType, OrderInv, ChainOrdered
    <3>2. CASE p = r /\ q \in rollouts
      <4>1. q \in ListRollouts(s)
        BY <3>2 DEF ListRollouts
      <4>2. QED BY <2>7, <2>8, <3>2, <4>1
    <3>3. CASE q = r /\ p \in rollouts
      <4>1. p \in ListRollouts(s)
        BY <3>3 DEF ListRollouts
      <4>2. QED BY <2>7, <2>8, <3>3, <4>1
    <3>4. QED BY <1>8, <3>1, <3>2, <3>3
  <2>10. ASSUME NEW z \in Sessions \ {s} PROVE CallInv(z)'
    <3>1. ListRollouts(z)' = ListRollouts(z) /\ Filed \subseteq Filed'
      BY <1>8 DEF ListRollouts, Filed
    <3>2. QED BY <1>2, <1>4, <2>4, <3>1, OtherCall DEF OrderType, OrderInv
  <2>11. KnowsLast(s)'
    <3>1. ListRollouts(s)' = ListRollouts(s) \cup {r}
      BY <1>8 DEF ListRollouts
    <3>2. r \in LastRollouts(s)'
      <4>1. ListRollouts(s) \subseteq rollouts
        BY DEF ListRollouts
      <4>2. \A q \in ListRollouts(s)' : q.seq <= r.seq
        BY <2>7, <2>8, <3>1, <4>1
      <4>3. LastRollouts(s)' =
              {x \in ListRollouts(s)' : \A q \in ListRollouts(s)' : q.seq <= x.seq}
        BY DEF LastRollouts
      <4>4. QED BY <3>1, <4>2, <4>3
    <3>3. \A q \in ListRollouts(s)' : q.thread = newId[s] => q = r
      BY <2>1, <3>1 DEF ListRollouts
    <3>4. QED BY <1>2, <2>4, <3>2, <3>3 DEF KnowsLast
  <2>12. QED BY <1>5, <1>6, <2>6, <2>9, <2>10, <2>11 DEF OrderInv, CallInv
<1>9. QED BY <1>7, <1>8 DEF RolloutStep, InsertRollout

\* An imported thread makes a chain of its own and leaves every session's alone.
LEMMA ImportOrder ==
  ASSUME OrderType, NEW d \in Discoverers, ImportRollout(d)
  PROVE  OrderInv'
<1> USE DEF codexVars, procVars
<1> DEFINE t == item[d]
           r == [thread |-> t, session |-> t, seq |-> 0, parent |-> NoThread]
<1>1. TypeOK /\ t \in Threads
  BY DEF OrderType, RecordInv, TypeInv, HeldRowCommitted, ImportRollout
<1>2. /\ UNCHANGED <<minted, pc, op, newId, tip>>
      /\ item' = [item EXCEPT ![d] = NoThread]
  BY DEF ImportRollout
<1>3. t \in minted
  BY <1>1, ChainAssumption DEF OrderType, OrderInv, RowsMade
<1>4. \A e \in Discoverers : item'[e] \in minted \cup {NoThread}
  BY <1>1, <1>2 DEF OrderType, OrderInv, RowsMade, TypeOK
<1>5. CASE UNCHANGED rollouts
  <2>1. RowsMade' /\ ChainOrdered'
    BY <1>2, <1>4, <1>5, SameTable DEF OrderType, OrderInv
  <2>2. \A z \in Sessions : CallInv(z)'
    BY <1>2, <1>5, NothingFiled DEF OrderType, OrderInv
  <2>3. QED BY <2>1, <2>2 DEF OrderInv
<1>6. CASE rollouts' = rollouts \cup {r} /\ t \notin Filed
  <2>1. RowsMade'
    <3>1. r.thread = t /\ r.session = t /\ r.parent = NoThread
      OBVIOUS
    <3>2. RowsMade
      BY DEF OrderType, OrderInv
    <3>3. QED BY <1>2, <1>3, <1>4, <1>6, <3>1, <3>2, NewRow
  <2>2. \A q \in rollouts : q.session # t
    BY <1>1, <1>6 DEF OrderType, OrderInv, RowsMade, Filed
  <2>3. ChainOrdered'
    BY <1>6, <2>2 DEF OrderType, OrderInv, ChainOrdered
  <2>4. ASSUME NEW z \in Sessions PROVE CallInv(z)'
    <3>1. t # z
      BY <1>1, ChainAssumption
    <3>2. ListRollouts(z)' = ListRollouts(z) /\ Filed \subseteq Filed'
      BY <1>6, <3>1 DEF ListRollouts, Filed
    <3>3. QED BY <1>2, <3>2, OtherCall DEF OrderType, OrderInv
  <2>5. QED BY <2>1, <2>3, <2>4 DEF OrderInv
<1>7. QED BY <1>5, <1>6 DEF ImportRollout, InsertRollout

\* The other steps of codex and of a discover.
LEMMA OutsideOrder ==
  ASSUME OrderType,
         \/ CodexStep
         \/ \E d \in Discoverers :
              LoadKnown(d) \/ DiscoverEnds(d) \/ \E t \in Threads : ImportSession(d, t)
         \/ UNCHANGED vars
  PROVE  OrderInv'
<1> USE DEF dbVars, codexVars, procVars, discoverVars
<1>1. TypeOK
  BY DEF OrderType, RecordInv, TypeInv
<1>2. UNCHANGED <<rollouts, pc, op, newId, tip>> /\ minted \subseteq minted'
  BY DEF CodexStep, CodexMintsElsewhere, CodexWritesRollout, LoadKnown, DiscoverEnds,
     ImportSession, vars
<1>3. \A e \in Discoverers : item'[e] \in minted' \cup {NoThread}
  <2>1. \A e \in Discoverers : item[e] \in minted \cup {NoThread}
    BY DEF OrderType, OrderInv, RowsMade
  <2>2. CASE UNCHANGED item
    BY <1>2, <2>1, <2>2
  <2>3. CASE \E d \in Discoverers : DiscoverEnds(d)
    BY <1>1, <1>2, <2>1, <2>3 DEF DiscoverEnds, TypeOK
  <2>4. CASE \E d \in Discoverers, t \in Threads : ImportSession(d, t)
    BY <1>1, <1>2, <2>1, <2>4 DEF ImportSession, TypeOK
  <2>5. QED BY <2>2, <2>3, <2>4 DEF CodexStep, CodexMintsElsewhere, CodexWritesRollout,
        LoadKnown, vars
<1>4. RowsMade' /\ ChainOrdered'
  BY <1>2, <1>3, SameTable DEF OrderType, OrderInv
<1>5. \A z \in Sessions : CallInv(z)'
  BY <1>2, NothingFiled DEF OrderType, OrderInv
<1>6. QED BY <1>4, <1>5 DEF OrderInv
-----------------------------------------------------------------------------
(* The theorems.  That the reads answer is what they rest on: nextSequence  *)
(* takes a chain it cannot read for an empty one.                          *)

LEMMA OrderInit == Init => OrderInv
BY ChainAssumption
   DEF Init, OrderInv, RowsMade, ChainOrdered, CallInv, HoldsMinted, Ahead, ResumesLast,
       KnowsLast, ListRollouts, Recording

LEMMA OrderNext ==
  ASSUME ~Busy("reads"), OrderType, [Next]_vars
  PROVE  OrderInv'
<1>1. CASE \E s \in Sessions : BridgeStep(s)
  BY <1>1, QuietOrder, HandlerOrder, MintOrder, CommitOrder, RolloutOrder
     DEF BridgeStep, RecordStep
<1>2. CASE \E d \in Discoverers : DiscoverStep(d)
  BY <1>2, ImportOrder, OutsideOrder DEF DiscoverStep
<1>3. CASE CodexStep \/ UNCHANGED vars
  BY <1>3, OutsideOrder
<1>4. QED BY <1>1, <1>2, <1>3 DEF Next

LEMMA OrderAlways ==
  ASSUME ~Busy("reads")
  PROVE  Spec => []OrderType
<1>1. Init => OrderType
  BY RecordInit, OrderInit DEF OrderType
<1>2. OrderType /\ [Next]_vars => OrderType'
  BY RecordNext, OrderNext DEF OrderType
<1>3. QED BY <1>1, <1>2, PTL DEF Spec

\* As long as the chain can be read, "ordered by sequence" is an order in every
\* chain: nextSequence gives each rollout a sequence of its own, after those
\* already there and after that of the thread it was resumed from, however calls
\* fail, crash, and race with cold imports.
THEOREM ChainAlwaysOrdered ==
  ASSUME ~Busy("reads")
  PROVE  Spec => []ChainOrdered
<1>1. OrderType => ChainOrdered
  BY DEF OrderType, OrderInv
<1>2. QED BY <1>1, OrderAlways, PTL

\* As long as the chain can be read, threadToResume answers with the thread the
\* conversation was last carried on by when that thread is filed in the chain.
THEOREM ResumeAlwaysContinues ==
  ASSUME ~Busy("reads")
  PROVE  Spec => []ResumeContinuesChain
<1>1. OrderType => ResumeContinuesChain
  <2> SUFFICES ASSUME OrderType, NEW s \in Sessions, pc[s] = "minting",
                      op[s].intent = "resume",
                      NEW r \in ListRollouts(s), r.thread = tip[s]
               PROVE  op[s].parent = tip[s]
    BY DEF ResumeContinuesChain
  <2>1. PICK q \in LastRollouts(s) : q.thread = op[s].parent
    BY DEF OrderType, OrderInv, CallInv, ResumesLast
  <2>2. r \in LastRollouts(s)
    BY DEF OrderType, OrderInv, CallInv, KnowsLast
  <2>3. /\ r \in rollouts /\ q \in rollouts /\ r.session = s /\ q.session = s
        /\ r.seq <= q.seq /\ q.seq <= r.seq /\ r.seq \in Nat /\ q.seq \in Nat
    BY <2>2 DEF LastRollouts, ListRollouts, OrderType, RecordInv, TypeInv, TypeOK,
       RolloutRows
  <2>4. r = q
    BY <2>3 DEF OrderType, OrderInv, ChainOrdered
  <2>5. QED BY <2>1, <2>4
<1>2. QED BY <1>1, OrderAlways, PTL

\* A sessions row is only ever overwritten by another.
LEMMA RowsStay ==
  ASSUME RecordInv, [Next]_vars, NEW c \in Chains, current[c] # NoRow
  PROVE  current'[c] # NoRow
<1> USE DEF dbVars, codexVars, procVars, discoverVars
<1>1. TypeOK
  BY DEF RecordInv, TypeInv
<1>2. CASE UNCHANGED current
  BY <1>2
<1>3. ASSUME NEW s \in Sessions, Register(s) PROVE current'[c] # NoRow
  BY <1>1, <1>3, ChainAssumption DEF Register, TypeOK, Chains
<1>4. ASSUME NEW s \in Sessions, RotateStep(s) PROVE current'[c] # NoRow
  BY <1>1, <1>4, ChainAssumption DEF RotateStep, TypeOK, Chains
<1>5. ASSUME NEW d \in Discoverers, NEW t \in Threads, ImportSession(d, t)
      PROVE  current'[c] # NoRow
  BY <1>1, <1>5, ChainAssumption DEF ImportSession, TypeOK, Chains
<1>6. \/ UNCHANGED current
      \/ \E s \in Sessions : Register(s) \/ RotateStep(s)
      \/ \E d \in Discoverers, t \in Threads : ImportSession(d, t)
  BY DEF Next, BridgeStep, DiscoverStep, CodexStep, Boot, Recover, InitFails,
     HandleStart, HandleResumeThread, InsertWAL, HandlerFails, RecordStep, CodexMints,
     MintFails, CommitStep, CommitFails, RolloutStep, Crash, LoadKnown,
     ImportRollout, DiscoverEnds, CodexMintsElsewhere, CodexWritesRollout, vars
<1>7. QED BY <1>2, <1>3, <1>4, <1>5, <1>6

LEMMA FiledNext ==
  ASSUME RecordInv, FiledInv, [Next]_vars
  PROVE  FiledInv'
<1> USE DEF dbVars, codexVars, procVars, discoverVars
<1>1. TypeOK
  BY DEF RecordInv, TypeInv
<1>2. \A c \in Chains : current[c] # NoRow => current'[c] # NoRow
  BY RowsStay
<1>3. Sessions \subseteq Chains /\ Threads \subseteq Chains
  BY DEF Chains
<1>4. \A r \in rollouts : r.session \in Chains /\ current[r.session] # NoRow
  BY <1>1 DEF FiledInv, FiledUnderASession, TypeOK, RolloutRows
<1>5. ASSUME NEW s \in Sessions, pc'[s] \in {"handle"} \cup Recording
      PROVE  current'[s] # NoRow
  <2>1. CASE pc[s] \in {"handle"} \cup Recording
    BY <1>2, <1>3, <2>1 DEF FiledInv
  <2>2. CASE pc[s] \notin {"handle"} \cup Recording
    <3>1. pc'[s] # pc[s]
      BY <1>5, <2>2
    <3>2. PICK z \in Sessions : BridgeStep(z)
      BY <3>1 DEF Next, DiscoverStep, CodexStep, LoadKnown, ImportSession, ImportRollout,
         DiscoverEnds, CodexMintsElsewhere, CodexWritesRollout, vars
    <3>3. z = s
      <4>1. \A y \in Sessions \ {z} : pc'[y] = pc[y]
        BY <1>1, <3>2 DEF BridgeStep, Boot, Recover, Register, InitFails, HandleStart,
           HandleResumeThread, InsertWAL, HandlerFails, RecordStep, CodexMints,
           MintFails, CommitStep, CommitFails, RolloutStep, RotateStep, Crash, Return,
           TypeOK
      <4>2. QED BY <3>1, <4>1
    <3>4. Register(s)
      BY <1>1, <1>5, <2>2, <3>2, <3>3 DEF BridgeStep, Boot, Recover,
         InitFails, HandleStart, HandleResumeThread, InsertWAL, HandlerFails, RecordStep,
         CodexMints, MintFails, CommitStep, CommitFails, RolloutStep, RotateStep, Crash,
         Return, TypeOK, Recording
    <3>5. QED BY <1>1, <1>3, <3>4, ChainAssumption DEF Register, TypeOK
  <2>3. QED BY <2>1, <2>2
<1>6. ASSUME NEW d \in Discoverers, dpc'[d] = "insert" PROVE current'[item'[d]] # NoRow
  <2>1. CASE \E t \in Threads : ImportSession(d, t)
    <3>1. PICK t \in Threads : ImportSession(d, t)
      BY <2>1
    <3>2. item'[d] = t /\ current'[t] = t /\ t # NoRow
      BY <1>1, <1>3, <3>1, ChainAssumption DEF ImportSession, TypeOK
    <3>3. QED BY <3>2
  <2>2. CASE ~\E t \in Threads : ImportSession(d, t)
    <3>1. dpc[d] = "insert" /\ item'[d] = item[d]
      <4>1. CASE UNCHANGED <<dpc, item>>
        BY <1>6, <4>1
      <4>2. ASSUME NEW e \in Discoverers,
                   LoadKnown(e) \/ ImportRollout(e) \/ DiscoverEnds(e)
            PROVE  dpc[d] = "insert" /\ item'[d] = item[d]
        BY <1>1, <1>6, <4>2 DEF LoadKnown, ImportRollout, DiscoverEnds, TypeOK
      <4>3. ASSUME NEW e \in Discoverers, NEW t \in Threads, ImportSession(e, t)
            PROVE  dpc[d] = "insert" /\ item'[d] = item[d]
        <5>1. e # d
          BY <2>2, <4>3
        <5>2. QED BY <1>1, <1>6, <4>3, <5>1 DEF ImportSession, TypeOK
      <4>4. \/ UNCHANGED <<dpc, item>>
            \/ \E e \in Discoverers : LoadKnown(e) \/ ImportRollout(e) \/ DiscoverEnds(e)
            \/ \E e \in Discoverers, t \in Threads : ImportSession(e, t)
        BY DEF Next, BridgeStep, DiscoverStep, CodexStep, Boot, Recover,
           Register, InitFails, HandleStart, HandleResumeThread, InsertWAL, HandlerFails,
           RecordStep, CodexMints, MintFails, CommitStep, CommitFails, RolloutStep,
           RotateStep, Crash, CodexMintsElsewhere, CodexWritesRollout, vars
      <4>5. QED BY <4>1, <4>2, <4>3, <4>4
    <3>2. item[d] \in Chains
      BY <1>1, <1>3, <3>1 DEF RecordInv, HeldRowCommitted
    <3>3. QED BY <1>2, <3>1, <3>2 DEF FiledInv
  <2>3. QED BY <2>1, <2>2
<1>7. ASSUME NEW r \in rollouts' PROVE current'[r.session] # NoRow
  <2>1. CASE r \in rollouts
    BY <1>2, <1>4, <2>1
  <2>2. CASE r \notin rollouts
    <3>1. CASE \E s \in Sessions : RolloutStep(s)
      <4>1. PICK s \in Sessions : RolloutStep(s)
        BY <3>1
      <4>2. r.session = s /\ pc[s] = "rollout"
        BY <2>2, <4>1 DEF RolloutStep, InsertRollout
      <4>3. QED BY <1>2, <1>3, <4>2 DEF FiledInv, Recording
    <3>2. CASE \E d \in Discoverers : ImportRollout(d)
      <4>1. PICK d \in Discoverers : ImportRollout(d)
        BY <3>2
      <4>2. r.session = item[d] /\ dpc[d] = "insert"
        BY <2>2, <4>1 DEF ImportRollout, InsertRollout
      <4>3. item[d] \in Chains
        BY <1>1, <1>3, <4>2 DEF RecordInv, HeldRowCommitted
      <4>4. QED BY <1>2, <4>2, <4>3 DEF FiledInv
    <3>3. CASE UNCHANGED rollouts
      BY <2>2, <3>3
    <3>4. QED BY <3>1, <3>2, <3>3 DEF Next, BridgeStep, DiscoverStep, CodexStep, Boot,
          Recover, Register, InitFails, HandleStart, HandleResumeThread, InsertWAL,
          HandlerFails, RecordStep, CodexMints, MintFails, CommitStep, CommitFails,
          RotateStep, Crash, LoadKnown, ImportSession, DiscoverEnds,
          CodexMintsElsewhere, CodexWritesRollout, vars
  <2>3. QED BY <2>1, <2>2
<1>8. QED BY <1>5, <1>6, <1>7 DEF FiledInv, FiledUnderASession

\* Whatever statements fail and wherever processes are stopped, the chain of every
\* filed thread has a sessions row.
THEOREM FiledAlwaysUnderASession == Spec => []FiledUnderASession
<1>1. Init => RecordInv /\ FiledInv
  BY RecordInit DEF Init, FiledInv, FiledUnderASession, Recording
<1>2. RecordInv /\ FiledInv /\ [Next]_vars => (RecordInv /\ FiledInv)'
  BY RecordNext, FiledNext
<1>3. RecordInv /\ FiledInv => FiledUnderASession
  BY DEF FiledInv
<1>4. QED BY <1>1, <1>2, <1>3, PTL DEF Spec
=============================================================================
