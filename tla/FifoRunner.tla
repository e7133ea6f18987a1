----------------------------- MODULE FifoRunner -----------------------------
(***************************************************************************)
(* What internal/jobs/queue.go promises its callers, without its mutex,    *)
(* its channel and its worker loop: "a buffered FIFO job runner [...] only *)
(* one job runs at a time" (queue.go:16-17).                               *)
(*                                                                         *)
(* The jobs ever accepted form one sequence.  The runner moves a head over *)
(* it: the first `ended` jobs have run to their end, the next one, when    *)
(* `begun` is ahead of `ended`, is running, the others wait.  An operation *)
(* is one step here.  JobQueue refines this module, and JobService builds  *)
(* the deployment service on top of it.                                    *)
(***************************************************************************)
EXTENDS Naturals, Sequences, Functions

CONSTANTS Jobs,     \* the job functions a caller may enqueue
          Capacity  \* the channel's buffer, 1024 in queue.go

ASSUME CapacityAssumption == Capacity \in Nat \ {0}

VARIABLES open,      \* TRUE until Drain has marked the queue drained
          accepted,  \* the jobs Enqueue returned nil for, in that order
          begun,     \* how many of them the worker has received
          ended      \* how many of them have returned

queueVars == <<open, accepted, begun, ended>>

QueueInit ==
  /\ open = TRUE
  /\ accepted = <<>>
  /\ begun = 0
  /\ ended = 0

-----------------------------------------------------------------------------

Buffered == Len(accepted) - begun

Full == Buffered >= Capacity

Running == ended < begun

CurrentJob == accepted[begun]

\* Enqueue returned nil.
Accept(j) ==
  /\ open
  /\ ~Full
  /\ j \notin Range(accepted)
  /\ accepted' = Append(accepted, j)
  /\ UNCHANGED <<open, begun, ended>>

\* Drain's locked part: nothing is accepted from here on.
Close ==
  /\ open
  /\ open' = FALSE
  /\ UNCHANGED <<accepted, begun, ended>>

\* The worker receives the next function and calls it.
Begin ==
  /\ begun = ended
  /\ begun < Len(accepted)
  /\ begun' = begun + 1
  /\ UNCHANGED <<open, accepted, ended>>

\* The function returns to the worker's loop.
End ==
  /\ Running
  /\ ended' = ended + 1
  /\ UNCHANGED <<open, accepted, begun>>

\* Mistake: what is still in the buffer does not count.
DrainedButForBuffer == ~open /\ ~Running

\* Everything accepted has run, and nothing can be accepted any more.
Drained == ~open /\ ended = Len(accepted)

QueueNext ==
  \/ \E j \in Jobs : Accept(j)
  \/ Close
  \/ Begin
  \/ End

QueueSpec == QueueInit /\ [][QueueNext]_queueVars

=============================================================================
