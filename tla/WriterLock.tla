----------------------------- MODULE WriterLock -----------------------------
(***************************************************************************)
(* releaseThreadWriterLock: stops the codex terminal that holds a thread's *)
(* writer lock, so that this wrapper's app-server can resume the thread.   *)
(* It finds the holders, climbs from each to the top of the process tree   *)
(* reading one process at a time, and signals the codex processes it       *)
(* found, while processes exit and codex starts new ones.                  *)
(*                                                                         *)
(* A process that exits leaves its children to init; process ids are not   *)
(* reused while the release runs.                                          *)
(***************************************************************************)
EXTENDS Naturals, Sequences, SequencesExt

CONSTANTS
  Processes,  \* processes at the start
  Later,      \* processes codex may start meanwhile
  Own         \* the wrapper that runs the release

Pids == Processes \cup Later

\* Parents are born before their children, init before all.
ASSUME LockAssumption ==
  /\ Pids \subseteq Nat \ {0, 1} /\ Processes \cap Later = {}
  /\ \A p \in Processes, q \in Later : p < q
  /\ Own \in Processes

VARIABLES
  \* the operating system
  kind, parent, state, holds,
  \* releaseThreadWriterLock
  pc,
  todo,       \* holders still to be climbed from
  current,    \* the process read last, as it was then
  chain,      \* codex processes met on this climb, as they were read
  unread,     \* history: living processes a climb ended at for want of a reading
  stopping,   \* the processes to stop, top-down
  index,      \* how many of them this round of signals has reached
  sent        \* history: the processes each signal was sent to

systemVars == <<kind, parent, state, holds>>
climbVars == <<todo, current, chain, unread>>
signalVars == <<stopping, index, sent>>
vars == <<systemVars, pc, climbVars, signalVars>>

Kinds == {"codex", "wrapper", "other"}
Readings == [pid : Pids, parent : Nat]
Nobody == [pid |-> 0, parent |-> 0]

Alive(p) == state[p] = "alive"
Holders == {p \in holds : Alive(p)}

TypeOK ==
  /\ kind \in [Pids -> Kinds]
  /\ parent \in [Pids -> Nat]
  /\ state \in [Pids -> {"unborn", "alive", "dead"}]
  /\ holds \subseteq Pids
  /\ pc \in {"find", "holder", "climb", "term", "await", "kill", "awaitKilled",
             "released", "refused"}
  /\ todo \subseteq Pids
  /\ current \in Readings \cup {Nobody}
  /\ chain \in Seq(Readings)
  /\ unread \subseteq Pids
  /\ stopping \in Seq(Pids) /\ IsInjective(stopping)
  /\ index \in 0..Len(stopping)
  /\ sent \in [{"TERM", "KILL"} -> SUBSET ToSet(stopping)]

Init ==
  /\ kind \in {k \in [Pids -> Kinds] :
                 k[Own] = "wrapper" /\ \A p \in Later : k[p] = "codex"}
  /\ parent \in {f \in [Pids -> {1} \cup Processes] :
                   \A p \in Pids : f[p] < p /\ (p \in Later => f[p] = 1)}
  /\ state = [p \in Pids |-> IF p \in Processes THEN "alive" ELSE "unborn"]
  /\ holds \in SUBSET Processes
  /\ pc = "find"
  /\ todo = {} /\ current = Nobody /\ chain = <<>> /\ unread = {}
  /\ stopping = <<>> /\ index = 0 /\ sent = [s \in {"TERM", "KILL"} |-> {}]

-----------------------------------------------------------------------------
(* The climb. *)

FindHolders ==
  /\ pc = "find"
  /\ todo' = Holders
  /\ pc' = IF Holders = {} THEN "refused" ELSE "holder"
  /\ UNCHANGED <<systemVars, current, chain, unread, signalVars>>

Reading(p) == [pid |-> p, parent |-> parent[p]]

ReadHolder(h) ==
  /\ pc = "holder" /\ h \in todo /\ Alive(h) /\ kind[h] = "codex"
  /\ pc' = "climb"
  /\ todo' = todo \ {h}
  /\ current' = Reading(h) /\ chain' = <<Reading(h)>>
  /\ UNCHANGED <<systemVars, unread, signalVars>>

\* The holder is gone or cannot be read, or it is not codex.
RefuseHolder ==
  /\ pc = "holder"
  /\ pc' = "refused"
  /\ UNCHANGED <<systemVars, climbVars, signalVars>>

\* A bug: only the process that holds the lock is looked at.
MustNotStopHolderOnly == current = Head(chain) /\ kind[current.pid] = "wrapper"

MustNotStop == current.pid = Own \/ kind[current.pid] = "wrapper"

Refuse ==
  /\ pc = "climb" /\ MustNotStop
  /\ pc' = "refused"
  /\ UNCHANGED <<systemVars, climbVars, signalVars>>

\* There is nothing above to read: init, or a process that has exited.
AtTop == current.parent \notin {p \in Pids : Alive(p)}

Climb ==
  /\ pc = "climb" /\ ~MustNotStop /\ ~AtTop
  /\ LET above == Reading(current.parent) IN
       /\ current' = above
       /\ chain' = IF kind[above.pid] = "codex" THEN Append(chain, above) ELSE chain
  /\ UNCHANGED <<systemVars, pc, todo, unread, signalVars>>

\* A bug: every codex process above the holder is taken.
RunThroughGaps(c) == c

\* The unbroken run of codex processes from the holder upward.
Run(c) ==
  LET unbroken(n) == \A i \in 2..n : c[i - 1].parent = c[i].pid
  IN  SubSeq(c, 1, CHOOSE n \in DOMAIN c :
                     unbroken(n) /\ \A m \in DOMAIN c : unbroken(m) => m <= n)

\* A bug: the holder comes first.
BottomUp(c) == [i \in DOMAIN c |-> c[i].pid]

TopDown(c) == [i \in DOMAIN c |-> c[Len(c) + 1 - i].pid]

\* s and then each of new that has not been seen.
AddUnseen(s, new) ==
  LET added[n \in 0..Len(new)] ==
        IF n = 0 THEN s
        ELSE IF new[n] \in ToSet(added[n - 1]) THEN added[n - 1]
             ELSE Append(added[n - 1], new[n])
  IN  added[Len(new)]

\* The climb ends at the top, or at a living process whose command line or status
\* cannot be read: either way what it met is to be stopped.
EndClimb ==
  /\ pc = "climb" /\ ~MustNotStop
  /\ unread' = IF AtTop THEN unread ELSE unread \cup {current.parent}
  /\ stopping' = AddUnseen(stopping, TopDown(Run(chain)))
  /\ pc' = IF todo = {} THEN "term" ELSE "holder"
  /\ current' = Nobody /\ chain' = <<>>
  /\ UNCHANGED <<systemVars, todo, index, sent>>

-----------------------------------------------------------------------------
(* The signals, in the order of stopping. *)

Send(signal) ==
  /\ index < Len(stopping)
  /\ index' = index + 1
  /\ sent' = [sent EXCEPT ![signal] = @ \cup {stopping[index + 1]}]
  /\ UNCHANGED <<systemVars, climbVars, stopping>>

Terminate == pc = "term" /\ Send("TERM") /\ UNCHANGED pc

Kill == pc = "kill" /\ Send("KILL") /\ UNCHANGED pc

\* The signal was refused; a process that is gone is no error.
SignalFails ==
  /\ pc \in {"term", "kill"} /\ index < Len(stopping)
  /\ Alive(stopping[index + 1])
  /\ pc' = "refused"
  /\ UNCHANGED <<systemVars, climbVars, signalVars>>

AllSignalled ==
  /\ pc \in {"term", "kill"} /\ index = Len(stopping)
  /\ pc' = IF pc = "term" THEN "await" ELSE "awaitKilled"
  /\ index' = 0
  /\ UNCHANGED <<systemVars, climbVars, stopping, sent>>

\* lockFreed: the lock is free, or it is still held at the deadline.
LockFreed ==
  /\ pc \in {"await", "awaitKilled"} /\ Holders = {}
  /\ pc' = "released"
  /\ UNCHANGED <<systemVars, climbVars, signalVars>>

WaitExpires ==
  /\ pc \in {"await", "awaitKilled"} /\ Holders # {}
  /\ pc' = IF pc = "await" THEN "kill" ELSE "refused"
  /\ UNCHANGED <<systemVars, climbVars, signalVars>>

-----------------------------------------------------------------------------
(* The other processes, signalled or not. *)

Exits(p) ==
  /\ Alive(p) /\ p # Own
  /\ state' = [state EXCEPT ![p] = "dead"]
  /\ parent' = [q \in Pids |-> IF parent[q] = p THEN 1 ELSE parent[q]]
  /\ holds' = holds \ {p}
  /\ UNCHANGED <<kind, pc, climbVars, signalVars>>

\* codex starts a server that takes the lock.
CodexStarts(p, q) ==
  /\ Alive(p) /\ kind[p] = "codex" /\ state[q] = "unborn"
  /\ Holders = {}
  /\ state' = [state EXCEPT ![q] = "alive"]
  /\ parent' = [parent EXCEPT ![q] = p]
  /\ holds' = {q}
  /\ UNCHANGED <<kind, pc, climbVars, signalVars>>

-----------------------------------------------------------------------------
Release ==
  \/ FindHolders \/ (\E h \in Pids : ReadHolder(h)) \/ RefuseHolder
  \/ Refuse \/ Climb \/ EndClimb
  \/ Terminate \/ Kill \/ SignalFails \/ AllSignalled
  \/ LockFreed \/ WaitExpires

System ==
  \/ \E p \in Pids : Exits(p)
  \/ \E p \in Pids, q \in Later : CodexStarts(p, q)

Next == Release \/ System

Spec == Init /\ [][Next]_vars

-----------------------------------------------------------------------------
\* p and the processes above it, as far up as every one could be read.
Lineage(p) ==
  LET up[q \in Pids] ==
        {q} \cup IF parent[q] \in Pids \ unread THEN up[parent[q]] ELSE {}
  IN  up[p]

Signalled == sent["TERM"] \cup sent["KILL"]

\* No process is signalled while it runs under a living wrapper, this one's
\* own app-server included, however the tree changed since it was read: the
\* codex of another bridge session is never stopped.  It takes a living process
\* between the two that could not be read for a wrapper to go unseen.
SparesBridgeSessions ==
  [][\A signal \in DOMAIN sent : \A p \in sent'[signal] \ sent[signal] :
       Alive(p) => \A q \in Lineage(p) : kind[q] # "wrapper"]_vars

\* Only codex is signalled, and only the unbroken run of codex processes from a
\* holder upward: a living process among those to stop holds the lock or is the
\* parent of another of them, whatever else has exited since the tree was read.
\* A codex that merely runs above a shell that runs another codex stays.
StopsOnlyTheRun ==
  /\ \A p \in Signalled : kind[p] = "codex"
  /\ \A p \in ToSet(stopping) :
       Alive(p) => p \in holds \/ \E q \in ToSet(stopping) : parent[q] = p

\* A terminal is signalled before the supervisor and the server below it, which
\* it would start again otherwise, whatever the order its servers were found in;
\* only a terminal that could not be read on one climb, and could on the next,
\* comes too late.
ParentsFirst ==
  \A i, j \in DOMAIN stopping :
    parent[stopping[j]] = stopping[i] => i < j \/ stopping[i] \in unread

=============================================================================
