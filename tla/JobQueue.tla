------------------------------ MODULE JobQueue ------------------------------
(***************************************************************************)
(* internal/jobs/queue.go at the granularity at which its goroutines can   *)
(* interleave: every Enqueue and Drain call takes q.mu, looks at           *)
(* q.drained, and sends on or closes q.ch; the worker goroutine receives   *)
(* from q.ch without the lock.                                             *)
(*                                                                         *)
(* Each job is enqueued by at most one call (Submit makes a fresh job, and *)
(* no caller retries), so an Enqueue call is named by its job.             *)
(***************************************************************************)
EXTENDS Naturals, Sequences, Functions

CONSTANTS Jobs,      \* the Enqueue calls, named by the job they carry
          Drainers,  \* the Drain calls; main.go makes one
          Capacity   \* 1024 in queue.go

ASSUME CapacityAssumption == Capacity \in Nat \ {0}
ASSUME CallersAssumption  == Jobs \cap Drainers = {}

VARIABLES mu,        \* the holders of q.mu: empty when unlocked
          drained,   \* q.drained
          ch,        \* the buffered elements of q.ch
          closed,    \* whether close(q.ch) has run
          worker,    \* "loop": in the range loop; "done": wg.Done has run
          running,   \* <<j>> while the worker is inside fn(q.ctx), else <<>>
          finished,  \* history: the jobs that returned, in order
          enq,       \* each Enqueue call's position or result
          drn,       \* each Drain call's position or result
          closer     \* history: the Drain calls that closed the channel

vars == <<mu, drained, ch, closed, worker, running, finished, enq, drn, closer>>

\* What Enqueue returns.
EnqueueResults == {"nil", "ErrQueueFull", "ErrQueueDrained"}

Init ==
  /\ mu = {}
  /\ drained = FALSE
  /\ ch = <<>>
  /\ closed = FALSE
  /\ worker = "loop"
  /\ running = <<>>
  /\ finished = <<>>
  /\ enq = [j \in Jobs |-> "idle"]
  /\ drn = [d \in Drainers |-> "idle"]
  /\ closer = {}

-----------------------------------------------------------------------------
\* The mutex.

\* Mistake: no mutual exclusion.
LockNothing(p) == mu' = {p}

Lock(p)   == mu = {} /\ mu' = {p}
Unlock(p) == mu' = mu \ {p}

-----------------------------------------------------------------------------
\* Enqueue

\* Mistake: one element more than the buffer holds.
HasRoomForOneMore == Len(ch) <= Capacity

HasRoom == Len(ch) < Capacity

EnqueueCall(j) ==
  /\ enq[j] = "idle"
  /\ enq' = [enq EXCEPT ![j] = "lock"]
  /\ UNCHANGED <<mu, drained, ch, closed, worker, running, finished, drn, closer>>

EnqueueLock(j) ==
  /\ enq[j] = "lock"
  /\ Lock(j)
  /\ enq' = [enq EXCEPT ![j] = "check"]
  /\ UNCHANGED <<drained, ch, closed, worker, running, finished, drn, closer>>

\* `if q.drained` with its early return, or on to the send.
EnqueueCheck(j) ==
  /\ enq[j] = "check"
  /\ \/ /\ drained
        /\ Unlock(j)
        /\ enq' = [enq EXCEPT ![j] = "ErrQueueDrained"]
     \/ /\ ~drained
        /\ enq' = [enq EXCEPT ![j] = "send"]
        /\ UNCHANGED mu
  /\ UNCHANGED <<drained, ch, closed, worker, running, finished, drn, closer>>

\* Mistake: the default branch forgets its error.
EnqueueSendNoError(j) ==
  /\ enq[j] = "send"
  /\ ch' = IF HasRoom THEN Append(ch, j) ELSE ch
  /\ enq' = [enq EXCEPT ![j] = "nil"]
  /\ Unlock(j)
  /\ UNCHANGED <<drained, closed, worker, running, finished, drn, closer>>

\* The non-blocking send: into the buffer when it has room, else the default.
EnqueueSend(j) ==
  /\ enq[j] = "send"
  /\ \/ /\ HasRoom
        /\ ch' = Append(ch, j)
        /\ enq' = [enq EXCEPT ![j] = "nil"]
     \/ /\ ~HasRoom
        /\ enq' = [enq EXCEPT ![j] = "ErrQueueFull"]
        /\ UNCHANGED ch
  /\ Unlock(j)
  /\ UNCHANGED <<drained, closed, worker, running, finished, drn, closer>>

-----------------------------------------------------------------------------
\* The worker goroutine

\* Mistake: the youngest first.
ReceiveLast ==
  /\ worker = "loop"
  /\ running = <<>>
  /\ ch # <<>>
  /\ running' = <<ch[Len(ch)]>>
  /\ ch' = SubSeq(ch, 1, Len(ch) - 1)
  /\ UNCHANGED <<mu, drained, closed, worker, finished, enq, drn, closer>>

Receive ==
  /\ worker = "loop"
  /\ running = <<>>
  /\ ch # <<>>
  /\ running' = <<Head(ch)>>
  /\ ch' = Tail(ch)
  /\ UNCHANGED <<mu, drained, closed, worker, finished, enq, drn, closer>>

\* fn(q.ctx) returns.
Return ==
  /\ running # <<>>
  /\ finished' = finished \o running
  /\ running' = <<>>
  /\ UNCHANGED <<mu, drained, ch, closed, worker, enq, drn, closer>>

\* Mistake: the loop ends at the close, as with a separate done channel.
LoopEndsAtClose == closed

\* The range loop ends when the channel is closed and empty.
LoopEnds == closed /\ ch = <<>>

WorkerExit ==
  /\ worker = "loop"
  /\ running = <<>>
  /\ LoopEnds
  /\ worker' = "done"
  /\ UNCHANGED <<mu, drained, ch, closed, running, finished, enq, drn, closer>>

-----------------------------------------------------------------------------
\* Drain

DrainCall(d) ==
  /\ drn[d] = "idle"
  /\ drn' = [drn EXCEPT ![d] = "lock"]
  /\ UNCHANGED <<mu, drained, ch, closed, worker, running, finished, enq, closer>>

DrainLock(d) ==
  /\ drn[d] = "lock"
  /\ Lock(d)
  /\ drn' = [drn EXCEPT ![d] = "check"]
  /\ UNCHANGED <<drained, ch, closed, worker, running, finished, enq, closer>>

\* Mistake: the early return keeps the lock.
DrainCheckKeepsLock(d) ==
  /\ drn[d] = "check"
  /\ drained' = TRUE
  /\ drn' = [drn EXCEPT ![d] = IF drained THEN "true" ELSE "close"]
  /\ UNCHANGED <<mu, ch, closed, worker, running, finished, enq, closer>>

\* A second call returns true at once; the first marks the queue drained.
DrainCheck(d) ==
  /\ drn[d] = "check"
  /\ \/ /\ drained
        /\ Unlock(d)
        /\ drn' = [drn EXCEPT ![d] = "true"]
        /\ UNCHANGED drained
     \/ /\ ~drained
        /\ drained' = TRUE
        /\ drn' = [drn EXCEPT ![d] = "close"]
        /\ UNCHANGED mu
  /\ UNCHANGED <<ch, closed, worker, running, finished, enq, closer>>

DrainClose(d) ==
  /\ drn[d] = "close"
  /\ closed' = TRUE
  /\ closer' = closer \cup {d}
  /\ Unlock(d)
  /\ drn' = [drn EXCEPT ![d] = "waiting"]
  /\ UNCHANGED <<drained, ch, worker, running, finished, enq>>

\* The select: wg.Wait has returned, or the timer has fired.  When both are
\* ready Go picks either.
DrainDone(d) ==
  /\ drn[d] = "waiting"
  /\ worker = "done"
  /\ drn' = [drn EXCEPT ![d] = "true"]
  /\ UNCHANGED <<mu, drained, ch, closed, worker, running, finished, enq, closer>>

DrainTimeout(d) ==
  /\ drn[d] = "waiting"
  /\ drn' = [drn EXCEPT ![d] = "false"]
  /\ UNCHANGED <<mu, drained, ch, closed, worker, running, finished, enq, closer>>

-----------------------------------------------------------------------------

Enqueue(j) == EnqueueCall(j) \/ EnqueueLock(j) \/ EnqueueCheck(j) \/ EnqueueSend(j)

Drain(d) == \/ DrainCall(d) \/ DrainLock(d) \/ DrainCheck(d) \/ DrainClose(d)
            \/ DrainDone(d) \/ DrainTimeout(d)

Worker == Receive \/ Return \/ WorkerExit

Next ==
  \/ \E j \in Jobs : Enqueue(j)
  \/ Worker
  \/ \E d \in Drainers : Drain(d)

Spec == Init /\ [][Next]_vars

(* Goroutines that can run do run, sync.Mutex is starvation free, and the  *)
(* timer of Drain fires.  Nobody is obliged to make a call.                *)
EnqueueFairness(j) ==
  /\ WF_vars(EnqueueLock(j))
  /\ WF_vars(EnqueueCheck(j))
  /\ WF_vars(EnqueueSend(j))

DrainFairness(d) ==
  /\ WF_vars(DrainLock(d))
  /\ WF_vars(DrainCheck(d))
  /\ WF_vars(DrainClose(d))
  /\ WF_vars(DrainDone(d) \/ DrainTimeout(d))

WorkerFairness == WF_vars(Receive) /\ WF_vars(WorkerExit)

CallFairness ==
  /\ \A j \in Jobs : EnqueueFairness(j)
  /\ \A d \in Drainers : DrainFairness(d)
  /\ WorkerFairness

\* Job functions may run for ever: the callers must not notice.
FairSpec == Spec /\ CallFairness

-----------------------------------------------------------------------------
\* Properties

\* Every variable stays in its domain; the buffer never exceeds its capacity
\* and the worker holds at most one job (queue.go:16-17, 31).
TypeOK ==
  /\ mu \subseteq Jobs \cup Drainers
  /\ drained \in BOOLEAN
  /\ ch \in Seq(Jobs)
  /\ Len(ch) \in 0..Capacity
  /\ closed \in BOOLEAN
  /\ worker \in {"loop", "done"}
  /\ running \in Seq(Jobs)
  /\ Len(running) \in 0..1
  /\ finished \in Seq(Jobs)
  /\ enq \in [Jobs -> {"idle", "lock", "check", "send"} \cup EnqueueResults]
  /\ drn \in [Drainers -> {"idle", "lock", "check", "close", "waiting", "true", "false"}]
  /\ closer \subseteq Drainers

\* The two panics the mutex and the drained flag are there to prevent: a send
\* on the closed channel, and a second close (queue.go:47-54, 64-71).
NoPanic ==
  /\ \A j \in Jobs : enq[j] = "send" => ~closed
  /\ \A d \in Drainers : drn[d] = "close" => ~closed

\* When the Drain call that closed the queue answers true, every job for which
\* Enqueue returned nil has run to its end, and none is left to run
\* (queue.go:61-62, and main.go:225, which stops the registry on that answer).
DrainTrueMeansAllFinished ==
  \A d \in closer : drn[d] = "true" =>
     \A j \in Jobs : enq[j] = "nil" => j \in Range(finished)

\* A caller that was refused must not find its job executed later, nor may an
\* accepted job be lost between the buffer and the worker (queue.go:50-58).
RunIffAccepted ==
  \A j \in Jobs : enq[j] = "nil" <=> j \in Range(finished \o running \o ch)

\* queue.go implements FifoRunner: jobs run one at a time, each once, in the
\* order in which Enqueue accepted them, and none is accepted after Drain.
Fifo == INSTANCE FifoRunner WITH
          open     <- ~drained,
          accepted <- finished \o running \o ch,
          begun    <- Len(finished) + Len(running),
          ended    <- Len(finished)

ImplementsFifo == Fifo!QueueSpec

\* A started Enqueue or Drain call returns whatever the jobs do: "the
\* non-blocking send prevents HTTP handler goroutines from hanging
\* indefinitely" (queue.go:46), and Drain gives up after its timeout.
CallsReturn ==
  /\ \A j \in Jobs : enq[j] = "lock" ~> enq[j] \in EnqueueResults
  /\ \A d \in Drainers : drn[d] = "lock" ~> drn[d] \in {"true", "false"}

\* If job functions return, every accepted job is eventually run to its end,
\* even one that is still in the buffer when the channel is closed
\* (queue.go:39-41).
AcceptedIsFinished ==
  WF_vars(Return) => \A j \in Jobs : enq[j] = "nil" ~> j \in Range(finished)

=============================================================================
