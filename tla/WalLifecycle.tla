---------------------------- MODULE WalLifecycle ----------------------------
(***************************************************************************)
(* What the wal table of state.db promises, whoever writes to it: a row is *)
(* opened pending on behalf of one session, is settled at most once, as    *)
(* committed with the thread codex minted or as orphaned with none, and    *)
(* never changes afterwards.  SessionChain, in which several wrapper       *)
(* processes and their boot-time recoveries write to the one table, is     *)
(* shown to implement this specification.                                  *)
(***************************************************************************)
EXTENDS Naturals, Sequences

CONSTANTS
  Sessions,   \* bridge session ids
  Threads,    \* codex thread ids
  NoThread    \* new_harness_id of a row that was not committed

VARIABLE wal

Init == wal = <<>>

Open(s) ==
  wal' = Append(wal, [session |-> s, status |-> "pending", new |-> NoThread])

Commit(i, t) ==
  /\ wal[i].status = "pending"
  /\ wal' = [wal EXCEPT ![i] = [session |-> @.session, status |-> "committed",
                                new |-> t]]

Orphan(i) ==
  /\ wal[i].status = "pending"
  /\ wal' = [wal EXCEPT ![i].status = "orphaned"]

Next ==
  \/ \E s \in Sessions : Open(s)
  \/ \E i \in DOMAIN wal : Orphan(i) \/ \E t \in Threads : Commit(i, t)

Spec == Init /\ [][Next]_wal
=============================================================================
