----------------------------- MODULE PtySidecar -----------------------------
(***************************************************************************)
(* runPTYSidecar: follows the rollout codex writes for a session driven in *)
(* codex's own screen and posts the events of each line.  Codex writes a   *)
(* line in pieces, the sidecar reads whatever there is, and the server may *)
(* stop it at any time.  Beside it, -import-history may read the same file *)
(* as it is.                                                               *)
(***************************************************************************)
EXTENDS RolloutReader

CONSTANTS
  MaxPieces,  \* bound: pieces codex writes
  MaxEarlier  \* bound: pieces a resumed rollout holds at the start

ASSUME SidecarAssumption == MaxPieces \in Nat /\ MaxEarlier \in 0..MaxPieces

VARIABLES
  file,      \* the rollout: its pieces, the entry for one that ends a line
  tail,      \* its unfinished line: none, truncated, or the entry of a whole record
  resumed,   \* LLMBRIDGE_PTY_RESUME_ID names a rollout
  pc,
  stop,      \* stdin is closed or a signal came
  existing,  \* pieces in the file when it was opened, 0 for a new one
  offset,    \* pieces read
  pending,   \* of them, those of a line without its end
  stopping,
  state,     \* the rolloutReader
  posted,    \* the events posted, each with the pieces of its line
  atStop     \* history: lines complete when stop was closed

vars == <<file, tail, resumed, pc, stop, existing, offset, pending, stopping, state,
          posted, atStop>>
reader == <<existing, offset, pending, stopping, state, posted>>

\* The other pieces end no line.
Ends(i) == file[i] # Partial

None == "none"

\* The lines complete in the first n pieces of the file.
LinesIn(n) == Cardinality({i \in 1..n : Ends(i)})
Complete == LinesIn(Len(file))
Line(k) == {i \in 1..Len(file) : LinesIn(i - 1) = k - 1}
EndOf(k) == CHOOSE i \in 1..Len(file) : Ends(i) /\ LinesIn(i) = k
Lines == [k \in 1..Complete |-> file[EndOf(k)]]

TypeOK ==
  /\ file \in Seq(Entries \cup {Partial}) /\ Len(file) <= MaxPieces
  /\ tail \in Entries \cup {Partial, None}
  /\ tail = None <=> file = <<>> \/ Ends(Len(file))
  /\ resumed \in BOOLEAN /\ stop \in BOOLEAN /\ stopping \in BOOLEAN
  /\ pc \in {"find", "wait", "read", "eof", "done", "failed"}
  /\ existing \in 0..Len(file) /\ offset \in 0..Len(file)
  /\ pending = {i \in Line(LinesIn(offset) + 1) : i <= offset}
  /\ state.named \in BOOLEAN /\ state.usage \in 0..Len(file)
  /\ \A n \in DOMAIN posted : posted[n].line \subseteq 1..Len(file)
  /\ atStop \in 0..Complete
  /\ stopping => stop

\* A call comes once, an output after its call and a finished turn's end after a
\* model call.
CodexMayWrite(before, entry) ==
  LET Has(e) == \E i \in DOMAIN before : before[i] = e IN
  /\ entry = "call" => ~Has("call")
  /\ entry = "output" => Has("call") /\ ~Has("output")
  /\ entry = "complete" => Has("usage")

\* The records codex may write whole.
Whole(before) == {e \in Entries \ {"unreadable"} : CodexMayWrite(before, e)}

\* The piece after these and the unfinished line it leaves: the record goes on or is
\* ended, or codex died in it and goes on after, which makes a line that cannot be
\* read.
MayFollow(before, t, piece, next) ==
  \/ piece \in Whole(before) /\ t \in {None, Partial, piece} /\ next = None
  \/ piece = Partial /\ t \in {None, Partial} /\ next \in {Partial} \cup Whole(before)
  \/ piece = Partial /\ t \in Entries /\ next = "unreadable"
  \/ piece = "unreadable" /\ t # None /\ next = None

Init ==
  /\ resumed \in BOOLEAN
  /\ \E n \in 0..MaxEarlier :
       \E tails \in [0..n -> Entries \cup {Partial, None}] :
         /\ file \in [1..n -> Entries \cup {Partial}] /\ tail = tails[n]
         /\ tails[0] = None
         /\ \A i \in 1..n :
              MayFollow(SubSeq(file, 1, i - 1), tails[i - 1], file[i], tails[i])
  /\ resumed <=> file # <<>>
  /\ pc = "find" /\ stop = FALSE
  /\ existing = 0 /\ offset = 0 /\ pending = {} /\ stopping = FALSE
  /\ state = NewReader /\ posted = <<>> /\ atStop = 0

-----------------------------------------------------------------------------
CodexWrites(piece, next) ==
  /\ Len(file) < MaxPieces
  /\ MayFollow(file, tail, piece, next)
  /\ file' = Append(file, piece) /\ tail' = next
  /\ UNCHANGED <<resumed, pc, stop, reader, atStop>>

\* What -import-history of the file writes.  It keeps nothing, so it is a function
\* of the file at the time.
ImportHistory == Import(Lines, tail)

\* The server closes stdin or sends SIGTERM.
Stop ==
  /\ ~stop
  /\ stop' = TRUE /\ atStop' = Complete
  /\ UNCHANGED <<file, tail, resumed, pc, reader>>

-----------------------------------------------------------------------------
(* A new session's rollout is found once its first line, which stands for  *)
(* the session_meta before it too, is complete and can be read.            *)

Found == Complete > 0 /\ Lines[1] # "unreadable"

OpenResumed ==
  /\ pc = "find" /\ resumed
  /\ existing' = Len(file)
  /\ pc' = "read"
  /\ UNCHANGED <<file, tail, resumed, stop, offset, pending, stopping, state, posted, atStop>>

FindNew ==
  /\ pc = "find" /\ ~resumed
  /\ pc' = IF Found THEN "read" ELSE "wait"
  /\ UNCHANGED <<file, tail, resumed, stop, reader, atStop>>

\* The select of waitForNewRollout: stopped, or time to look again.
WaitStopped ==
  /\ pc = "wait" /\ stop
  /\ pc' = "done"
  /\ UNCHANGED <<file, tail, resumed, stop, reader, atStop>>

WaitExpires ==
  /\ pc = "wait"
  /\ pc' = "find"
  /\ UNCHANGED <<file, tail, resumed, stop, reader, atStop>>

-----------------------------------------------------------------------------
(* followRollout. *)

\* A bug: the last line of a resumed rollout counts as new.
PostsFromExisting(end) == end >= existing

PostsLine(end) == end > existing

\* A bug: what was read of an unfinished line is dropped.
KeepNothing(end) == {}

KeepPending(end) == pending \cup (offset + 1)..end

\* A bug: the lines that were there when the file was opened are skipped unread.
StateAfterNewLine(end) ==
  IF PostsLine(end) THEN ReaderAfter(state, file[end]) ELSE state

\* Every line updates the reader, also one whose events are not posted.
StateAfterLine(end) == ReaderAfter(state, file[end])

\* ReadBytes, up to the end of a line, and its events; a post that fails is only
\* logged.
ReadLine ==
  /\ pc = "read"
  /\ \E end \in offset + 1..Len(file) :
       /\ Ends(end) /\ \A i \in offset + 1..end - 1 : ~Ends(i)
       /\ state' = StateAfterLine(end)
       /\ posted' =
            IF PostsLine(end)
            THEN posted \o [n \in DOMAIN EventsOf(state, file[end]) |->
                   [line |-> KeepPending(end), event |-> EventsOf(state, file[end])[n]]]
            ELSE posted
       /\ offset' = end
  /\ pending' = {}
  /\ UNCHANGED <<file, tail, resumed, pc, stop, existing, stopping, atStop>>

\* A bug: the end of the file ends the session.
ReadEOFEnds ==
  /\ pc = "read"
  /\ \A i \in offset + 1..Len(file) : ~Ends(i)
  /\ pending' = KeepPending(Len(file))
  /\ offset' = Len(file)
  /\ pc' = "done"
  /\ UNCHANGED <<file, tail, resumed, stop, existing, stopping, state, posted, atStop>>

\* ReadBytes meets the end of the file; after the last pass the sidecar ends.
ReadEOF ==
  /\ pc = "read"
  /\ \A i \in offset + 1..Len(file) : ~Ends(i)
  /\ pending' = KeepPending(Len(file))
  /\ offset' = Len(file)
  /\ pc' = IF stopping THEN "done" ELSE "eof"
  /\ UNCHANGED <<file, tail, resumed, stop, existing, stopping, state, posted, atStop>>

\* The file cannot be opened or read.
ReadFails ==
  /\ pc = "read" \/ (pc = "find" /\ (resumed \/ Found))
  /\ pc' = "failed"
  /\ UNCHANGED <<file, tail, resumed, stop, reader, atStop>>

\* A bug: no last pass.
EndAtOnce ==
  /\ pc = "eof" /\ stop
  /\ stopping' = TRUE /\ pc' = "done"
  /\ UNCHANGED <<file, tail, resumed, stop, existing, offset, pending, state, posted, atStop>>

\* A bug: the last pass is not marked as the last.
SeeStopForgotten ==
  /\ pc = "eof" /\ stop
  /\ stopping' = FALSE /\ pc' = "read"
  /\ UNCHANGED <<file, tail, resumed, stop, existing, offset, pending, state, posted, atStop>>

SeeStop ==
  /\ pc = "eof" /\ stop
  /\ stopping' = TRUE /\ pc' = "read"
  /\ UNCHANGED <<file, tail, resumed, stop, existing, offset, pending, state, posted, atStop>>

PauseExpires ==
  /\ pc = "eof"
  /\ pc' = "read"
  /\ UNCHANGED <<file, tail, resumed, stop, reader, atStop>>

-----------------------------------------------------------------------------
Sidecar ==
  \/ OpenResumed \/ FindNew \/ WaitStopped \/ WaitExpires
  \/ ReadLine \/ ReadEOF \/ ReadFails \/ SeeStop \/ PauseExpires

Next ==
  \/ Sidecar \/ Stop
  \/ \E piece \in Entries \cup {Partial}, next \in Entries \cup {Partial, None} :
       CodexWrites(piece, next)

Spec == Init /\ [][Next]_vars

\* The sidecar is scheduled, and a select with two ready cases takes either in
\* the long run.
FairSpec ==
  /\ Spec /\ WF_vars(Sidecar)
  /\ SF_vars(SeeStop) /\ SF_vars(WaitStopped)

-----------------------------------------------------------------------------
Opened == pc \in {"read", "eof", "done"}

\* Lines with an event of their own.
Reported(k) == Lines[k] \notin {"usage", "unreadable"}

\* The lines posted are those that were not complete when the file was opened,
\* each once and in order: one that was half written then is posted whole, one
\* that was there already is not.
PostedOnce ==
  LET new == {k \in LinesIn(existing) + 1..LinesIn(offset) : Reported(k)} IN
    /\ Len(posted) = Cardinality(new)
    /\ \A n \in DOMAIN posted :
         \E k \in new :
           /\ posted[n].line = Line(k)
           /\ n = Cardinality({j \in new : j <= k})

\* The usages since the turn before the k-th line ended.
UsagesOfTurn(k) ==
  {j \in 1..k - 1 : Lines[j] = "usage"
     /\ \A i \in j..k - 1 : Lines[i] \notin {"complete", "aborted"}}

\* What is posted of a line is what the whole rollout says of it, though the
\* sidecar of a resumed session posts only its end: the output of a call made
\* before the file was opened carries the call's name, and the result of a turn
\* sums up every model call of that turn and none of another.
PostedInContext ==
  \A n \in DOMAIN posted :
    LET k == LinesIn(Max(posted[n].line))  e == posted[n].event IN
      /\ e.kind = "output" => e.named
      /\ e.kind = "turn" => e.usage = Cardinality(UsagesOfTurn(k))

\* Codex died before the end of a line whose record is whole, and goes on after it.
AbandonsRecord == tail \in Entries /\ Last(file') # tail

\* An import made later starts with everything an earlier one wrote.  A record codex
\* was still writing is left out until it is whole ("retried from disk on the next
\* revision, never checkpointed"); once whole it is imported, its line ended or not,
\* and the end of the line changes nothing.  Only a record codex died in and went on
\* after is taken back again, and never one of a line that was complete.
ImportOnlyGrows ==
  [][file' # file =>
       IsPrefix(IF AbandonsRecord THEN Import(Lines, None) ELSE ImportHistory,
                ImportHistory')]_vars

\* "It runs until stdin closes or SIGTERM, then reads once more so the turn's
\* last lines are not lost": a sidecar that followed a rollout ends having read
\* every line complete when it was stopped.
LastLinesRead == pc = "done" /\ offset > 0 => LinesIn(offset) >= atStop

\* A line completed after the sidecar opened the file is posted, unless the
\* sidecar is stopped or cannot read on: the end of the file does not end it.
LinesReachServer ==
  \A n \in 1..MaxPieces :
    Opened /\ LinesIn(existing) < n /\ n <= Complete /\ Reported(n)
      ~> (\E e \in Range(posted) : e.line = Line(n)) \/ stop \/ pc = "failed"

\* A stop ends the sidecar wherever it is, unless codex writes lines faster than
\* they are posted for ever: the stop is looked at only at the end of the file.
StopEnds == []<>(pc # "read") => (stop ~> pc \in {"done", "failed"})
=============================================================================
