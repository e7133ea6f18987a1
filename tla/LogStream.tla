------------------------------ MODULE LogStream ------------------------------
(***************************************************************************)
(* One job's log: the lines the executor appends to its file, and a client *)
(* that follows it over GET /jobs/{id}/logs.  The handler reads the file   *)
(* and the job's row at different moments and without any lock, while the  *)
(* executor appends lines, then sets the final status.                     *)
(* internal/api/jobs.go:97-190, internal/db/jobs.go:193-271,               *)
(* internal/jobs/executor.go:59-129.                                       *)
(*                                                                         *)
(* A line is two pieces, of which the second ends with the newline: the    *)
(* reader may come between them.  Lines are numbered; 1 is the "queued"    *)
(* line of Submit, the last one the executor's result line.                *)
(*                                                                         *)
(* Faults: "log"   opening the file or an append fails, which is only      *)
(*                 logged                                                  *)
(*         "db"    a write of the status fails, which is only logged       *)
(*         "torn"  a line becomes visible in two pieces                    *)
(*         "crash" the process is killed and started again                 *)
(*         "reap"  the retention sweep removes a file that has grown old   *)
(***************************************************************************)
EXTENDS Naturals, Sequences, SequencesExt

CONSTANTS Lines,    \* how many lines the job logs
          Faults

ASSUME LogStreamAssumption ==
  /\ Lines \in Nat /\ Lines >= 2
  /\ Faults \subseteq {"log", "db", "torn", "crash", "reap"}

VARIABLES status,    \* the row: "none", "queued", "running", "final"
          writer,    \* the position of Submit, then run; "refused" by the
                     \* queue; "gone" with its process
          line,      \* the next line to log
          torn,      \* whether the first piece of it is in the file
          fileThere, \* whether the path exists
          file,      \* the pieces in the file
          reader,    \* the handler's position; "idle" with no client
          terminal,  \* isTerminal of the row the handler read first
          pos,       \* how many pieces it has consumed
          partial,   \* `line` at EOF: what follows the last newline
          events     \* the lines sent, each a sequence of pieces

writerVars == <<status, writer, line, torn, fileThere, file>>
readerVars == <<reader, terminal, pos, partial, events>>
vars == <<writerVars, readerVars>>

Head1(l) == <<l, "text">>
Tail1(l) == <<l, "newline">>

Init ==
  /\ status = "none"
  /\ writer = "insert"
  /\ line = 1
  /\ torn = FALSE
  /\ fileThere = FALSE
  /\ file = <<>>
  /\ reader = "idle"
  /\ terminal = FALSE
  /\ pos = 0
  /\ partial = <<>>
  /\ events = <<>>

-----------------------------------------------------------------------------
\* The writer: Submit, then run.

\* AppendLogLine: one write of a whole line, which may be seen in two pieces,
\* or may fail.
AppendLogLine ==
  \/ /\ file' = file \o (IF torn THEN <<Tail1(line)>> ELSE <<Head1(line), Tail1(line)>>)
     /\ line' = line + 1
     /\ torn' = FALSE
  \/ /\ "torn" \in Faults
     /\ ~torn
     /\ file' = Append(file, Head1(line))
     /\ torn' = TRUE
     /\ UNCHANGED line
  \/ /\ "log" \in Faults
     /\ ~torn
     /\ line' = line + 1
     /\ UNCHANGED <<file, torn>>

\* Without its row there is no job: a failing insert is no step.
SubmitInsert ==
  /\ writer = "insert"
  /\ status' = "queued"
  /\ writer' = "first"
  /\ UNCHANGED <<line, torn, fileThere, file>>

\* AppendLog creates the file, or fails to; the queue then takes the job or
\* refuses it, and row and file stay either way.
SubmitLog ==
  /\ writer = "first"
  /\ AppendLogLine
  /\ fileThere' = TRUE \/ (file' = file /\ UNCHANGED fileThere)
  /\ writer' \in IF line' = 2 THEN {"open", "refused"} ELSE {"first"}
  /\ UNCHANGED status

\* The worker starts the job.  OpenLog creates the file if need be; when it
\* fails, nothing of this run is logged.
RunOpenLog ==
  /\ writer = "open"
  /\ \/ fileThere' = TRUE /\ UNCHANGED line
     \/ "log" \in Faults /\ line' = Lines + 1 /\ UNCHANGED fileThere
  /\ writer' = "mark"
  /\ UNCHANGED <<status, torn, file>>

RunMark ==
  /\ writer = "mark"
  /\ status' = "running" \/ ("db" \in Faults /\ UNCHANGED status)
  /\ writer' = "lines"
  /\ UNCHANGED <<line, torn, fileThere, file>>

\* Through the open handle: a path that the sweep has removed stays removed.
RunLog ==
  /\ writer = "lines"
  /\ line <= Lines
  /\ AppendLogLine
  /\ UNCHANGED <<status, writer, fileThere>>

\* Mistake: the final status is written before the result line.
RunFinishEarly ==
  /\ writer = "lines"
  /\ line >= Lines
  /\ status' = "final" \/ ("db" \in Faults /\ UNCHANGED status)
  /\ writer' = IF line > Lines THEN "end" ELSE "lines"
  /\ UNCHANGED <<line, torn, fileThere, file>>

\* UpdateStatus(finalStatus), after the result line.
RunFinish ==
  /\ writer = "lines"
  /\ line > Lines
  /\ status' = "final" \/ ("db" \in Faults /\ UNCHANGED status)
  /\ writer' = "end"
  /\ UNCHANGED <<line, torn, fileThere, file>>

-----------------------------------------------------------------------------
\* The handler

Connect ==
  /\ reader = "idle"
  /\ status # "none"
  /\ reader' = "open"
  /\ terminal' = (status = "final")
  /\ pos' = 0
  /\ partial' = <<>>
  /\ events' = <<>>

OpenLog ==
  /\ reader \in {"open", "retry"}
  /\ fileThere
  /\ reader' = "read"
  /\ UNCHANGED <<terminal, pos, partial, events>>

\* No file: "removed by retention policy" and [DONE] for a finished job, a
\* retry otherwise.
OpenFails ==
  /\ reader = "open"
  /\ ~fileThere
  /\ reader' = IF terminal THEN "removed" ELSE "retry"
  /\ UNCHANGED <<terminal, pos, partial, events>>

\* The twentieth attempt failed too: [DONE].
RetryGivesUp ==
  /\ reader = "retry"
  /\ ~fileThere
  /\ reader' = "given up"
  /\ UNCHANGED <<terminal, pos, partial, events>>

NewlinesAhead == {k \in (pos + 1)..Len(file) : file[k][2] = "newline"}

\* Mistake: up to any newline there is.
ReadSomeLines ==
  /\ reader = "read"
  /\ \E k \in NewlinesAhead :
        /\ events' = Append(events, SubSeq(file, pos + 1, k))
        /\ pos' = k
  /\ UNCHANGED <<reader, terminal, partial>>

\* ReadString returns a complete line.
ReadLine ==
  /\ reader = "read"
  /\ \E k \in NewlinesAhead :
        /\ \A m \in NewlinesAhead : k <= m
        /\ events' = Append(events, SubSeq(file, pos + 1, k))
        /\ pos' = k
  /\ UNCHANGED <<reader, terminal, partial>>

\* ReadString returns io.EOF and whatever followed the last newline.
ReadEOF ==
  /\ reader = "read"
  /\ NewlinesAhead = {}
  /\ partial' = SubSeq(file, pos + 1, Len(file))
  /\ pos' = Len(file)
  /\ reader' = "check"
  /\ UNCHANGED <<terminal, events>>

\* Mistake: the status read at the start decides.
CheckFinalStale ==
  /\ reader = "check"
  /\ terminal
  /\ events' = IF partial = <<>> THEN events ELSE Append(events, partial)
  /\ partial' = <<>>
  /\ reader' = "done"
  /\ UNCHANGED <<terminal, pos>>

\* Only now the row is read.  Final: send the partial line, then [DONE].
CheckFinal ==
  /\ reader = "check"
  /\ status = "final"
  /\ events' = IF partial = <<>> THEN events ELSE Append(events, partial)
  /\ partial' = <<>>
  /\ reader' = "done"
  /\ UNCHANGED <<terminal, pos>>

\* Not final: wait and read on.  The next ReadString starts with an empty line.
CheckAgain ==
  /\ reader = "check"
  /\ status # "final"
  /\ partial' = <<>>
  /\ reader' = "read"
  /\ UNCHANGED <<terminal, pos, events>>

HangUp ==
  /\ reader' = "idle"
  /\ terminal' = FALSE
  /\ pos' = 0
  /\ partial' = <<>>
  /\ events' = <<>>

\* The client goes away, or has read the stream to its end.
Leave ==
  /\ reader # "idle"
  /\ HangUp

-----------------------------------------------------------------------------
\* Around them

\* The process dies; the next one marks a running job failed.
CrashAndBoot ==
  /\ "crash" \in Faults
  /\ writer # "insert"
  /\ writer' = "gone"
  /\ \/ status' = IF status = "running" THEN "final" ELSE status
     \/ "db" \in Faults /\ UNCHANGED status
  /\ HangUp
  /\ UNCHANGED <<line, torn, fileThere, file>>

\* The file has not been modified for ROLLHOOK_LOG_RETENTION_DAYS, whatever its
\* row says.  A bound of the model: no job waits in the queue for that long.
Reap ==
  /\ "reap" \in Faults
  /\ fileThere
  /\ writer \notin {"first", "open"}
  /\ fileThere' = FALSE
  /\ UNCHANGED <<status, writer, line, torn, file>>

Writer == SubmitInsert \/ SubmitLog \/ RunOpenLog \/ RunMark \/ RunLog \/ RunFinish

Reader == \/ OpenLog \/ OpenFails \/ RetryGivesUp \/ ReadLine \/ ReadEOF
          \/ CheckFinal \/ CheckAgain

Next ==
  \/ Writer /\ UNCHANGED readerVars
  \/ (Connect \/ Reader \/ Leave) /\ UNCHANGED writerVars
  \/ CrashAndBoot
  \/ Reap /\ UNCHANGED readerVars

Spec == Init /\ [][Next]_vars

(* The writer and the handler are goroutines that run.  Neither the wait   *)
(* in the queue nor the job's own steps need ever end.                     *)
FairSpec == Spec /\ WF_vars((SubmitLog \/ RunMark \/ RunFinish) /\ UNCHANGED readerVars)
                 /\ WF_vars(Reader /\ UNCHANGED writerVars)

-----------------------------------------------------------------------------
\* Properties

Opened == reader \in {"read", "check", "done"}

Sent == FlattenSeq(events)

LineEnds(s) ==
  FlattenSeq([k \in DOMAIN s |-> IF s[k][2] = "newline" THEN <<s[k]>> ELSE <<>>])

\* The client receives every line of the file it has read past, none twice and
\* none out of order, each in an event of its own; no event mixes lines, and
\* only the last before [DONE] may lack its end, however the reads fall between
\* the appends (jobs.go:153-188).  An event may lack the line's beginning: what
\* ReadString returns with io.EOF is dropped when the job still runs.
StreamFollowsFile ==
  Opened =>
    /\ LineEnds(Sent) = LineEnds(SubSeq(file, 1, pos))
    /\ \A e \in DOMAIN events :
          /\ \A m, n \in DOMAIN events[e] : events[e][m][1] = events[e][n][1]
          /\ LineEnds(events[e]) # <<>> \/ (reader = "done" /\ e = Len(events))

\* A client that connects after the job has ended gets the whole log before
\* [DONE], also when the process died inside a line or inside the job
\* (executor.go:119-129: the result line comes before the final status).
LateReaderSeesAll ==
  reader = "done" /\ terminal => Sent = file

\* The queue comes to the job, and the job's steps return.
JobReturns == []<>(writer # "open") /\ []<>(writer # "lines")

\* Nobody will write the row any more, and it is not final: the queue refused
\* the job, its last write failed, or a restart did not find it running
\* (executor.go:72-74, 127-129; jobs.go:184-189).
Orphaned == writer \in {"refused", "end", "gone"} /\ status # "final"

\* If its job returns, a stream ends by itself: an open connection reaches
\* [DONE] or is left, whatever fails around it, unless the row is orphaned, and
\* then it is polled until the client goes (jobs.go:145-149, 169-180).
StreamEnds ==
  JobReturns =>
  (reader = "open" ~> reader \in {"done", "removed", "given up", "idle"} \/ Orphaned)

=============================================================================
