---------------------------- MODULE RolloutReader ----------------------------
(***************************************************************************)
(* How a rollout's entries become events, in its two readers: translateLine*)
(* (rollout_reader.go), which follows a file line by line and carries what *)
(* later lines need, and importCodexHistory (import_history.go), which     *)
(* reads the whole file as it is.  An entry stands for one line: a tool    *)
(* call, its output, the token count of one model call, the two ends of a  *)
(* turn, or a line that cannot be read.                                    *)
(***************************************************************************)
EXTENDS Naturals, Sequences, FiniteSets, SequencesExt

Entries == {"call", "output", "usage", "complete", "aborted", "unreadable"}

\* toolCallNames (of the one call id there is) and the turn's usage so far.
NewReader == [named |-> FALSE, usage |-> 0]

Called == [kind |-> "call"]
ToolResult(named) == [kind |-> "output", named |-> named]
TurnResult(error, usage) == [kind |-> "turn", error |-> error, usage |-> usage]

\* addCallToTurnUsage, and the reset at the end of a turn.
UsageAfter(r, e) ==
  CASE e = "usage" -> r.usage + 1
    [] e \in {"complete", "aborted"} -> 0
    [] OTHER -> r.usage

ReaderAfter(r, e) ==
  [named |-> e = "call" \/ (r.named /\ e # "output"), usage |-> UsageAfter(r, e)]

\* The events of one entry, none or one.
EventsOf(r, e) ==
  CASE e = "call"     -> <<Called>>
    [] e = "output"   -> <<ToolResult(r.named)>>
    [] e = "complete" -> <<TurnResult(FALSE, r.usage)>>
    [] e = "aborted"  -> <<TurnResult(TRUE, r.usage)>>
    [] OTHER          -> <<>>

-----------------------------------------------------------------------------
(* importCodexHistory: an event for each record, most of them only its raw *)
(* text; a record that cannot be read ends the import with an error.       *)

Raw == [kind |-> "raw"]

ImportedEvent(before, e) ==
  CASE e = "call"     -> Called
    [] e = "output"   -> ToolResult("call" \in before)
    [] e = "complete" -> TurnResult(FALSE, 0)
    [] OTHER          -> Raw

Readable(lines) ==
  {n \in DOMAIN lines : \A k \in 1..n : lines[k] # "unreadable"}

\* An unfinished last line: what is there of its record is truncated.  An entry in
\* its place is the whole record, with only the end of the line missing.
Partial == "partial"

\* A truncated last record is left out, a whole one is read like any other.
Records(lines, tail) == lines \o IF tail \in Entries THEN <<tail>> ELSE <<>>

\* A bug: a record codex is still writing is taken as it is.
ImportWithTail(lines, tail) ==
  [n \in Readable(lines) |->
     ImportedEvent({lines[k] : k \in 1..n - 1}, lines[n])]
    \o IF tail = Partial THEN <<Raw>> ELSE <<>>

\* What an import writes of a rollout with these lines and this unfinished one.
Import(lines, tail) ==
  LET records == Records(lines, tail) IN
    [n \in Readable(records) |->
       ImportedEvent({records[k] : k \in 1..n - 1}, records[n])]
=============================================================================
