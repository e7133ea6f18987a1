--------------------------- MODULE JobQueueProofs ---------------------------
(***************************************************************************)
(* Proofs about JobQueue for every set of callers and every capacity: its  *)
(* invariants, and that it implements FifoRunner.                          *)
(***************************************************************************)
EXTENDS JobQueue, TLAPS, SequenceTheorems

-----------------------------------------------------------------------------
\* The elements of a sequence, under the sequence operations of the queue.

LEMMA RangeSingle ==
  ASSUME NEW e
  PROVE  Range(<<e>>) = {e}
  BY DEF Range

LEMMA HeadAndTail ==
  ASSUME NEW S, NEW s \in Seq(S), s # <<>>
  PROVE  /\ Head(s) \in S
         /\ Tail(s) \in Seq(S)
         /\ Len(Tail(s)) = Len(s) - 1
         /\ s = <<Head(s)>> \o Tail(s)
<1>1. Head(s) \in S /\ Tail(s) \in Seq(S) /\ Len(Tail(s)) = Len(s) - 1
  BY HeadTailProperties
<1>2. s = <<Head(s)>> \o Tail(s)
  BY <1>1
<1> QED BY <1>1, <1>2

\* Everything the queue has ever taken charge of, in order.
Taken == finished \o running \o ch

LEMMA TakenRange ==
  ASSUME TypeOK
  PROVE  /\ Taken \in Seq(Jobs)
         /\ Range(Taken) = Range(finished) \cup Range(running) \cup Range(ch)
         /\ Len(Taken) = Len(finished) + Len(running) + Len(ch)
<1> ch \in Seq(Jobs) /\ running \in Seq(Jobs) /\ finished \in Seq(Jobs)
  BY DEF TypeOK
<1>1. /\ finished \o running \in Seq(Jobs)
      /\ Len(finished \o running) = Len(finished) + Len(running)
  BY ConcatProperties
<1>2. /\ Taken \in Seq(Jobs)
      /\ Len(Taken) = Len(finished \o running) + Len(ch)
  BY <1>1, ConcatProperties DEF Taken
<1>3. Range(Taken) = Range(finished \o running) \cup Range(ch)
  BY <1>1, RangeConcatenation DEF Taken
<1>4. Range(finished \o running) = Range(finished) \cup Range(running)
  BY RangeConcatenation
<1> QED BY <1>1, <1>2, <1>3, <1>4

-----------------------------------------------------------------------------
\* The inductive invariant.

\* Whoever is inside a locked section holds the mutex.
LockHeld ==
  /\ \A j \in Jobs : enq[j] \in {"check", "send"} => mu = {j}
  /\ \A d \in Drainers : drn[d] \in {"check", "close"} => mu = {d}

\* The flag a sender has looked at cannot change before its send, and only one
\* caller ever gets to close the channel.
FlagAndChannel ==
  /\ closed => drained
  /\ \A j \in Jobs : enq[j] = "send" => ~drained
  /\ \A d \in Drainers : drn[d] = "close" => drained /\ ~closed

\* The call that closed the channel answers true only after the worker's exit,
\* and the worker exits only with everything finished.
Closing ==
  /\ worker = "done" => closed /\ ch = <<>> /\ running = <<>>
  /\ \A d \in Drainers : drn[d] = "waiting" => d \in closer
  /\ \A d \in closer : /\ drn[d] \in {"waiting", "true", "false"}
                       /\ drn[d] = "true" => worker = "done"

IInv ==
  /\ TypeOK
  /\ LockHeld
  /\ FlagAndChannel
  /\ Closing
  /\ RunIffAccepted

-----------------------------------------------------------------------------
\* What each step does to the jobs taken charge of.

LEMMA SendTakes ==
  ASSUME TypeOK, NEW j \in Jobs, EnqueueSend(j), HasRoom
  PROVE  Taken' = Append(Taken, j) /\ Range(Taken') = Range(Taken) \cup {j}
<1> ch \in Seq(Jobs) /\ running \in Seq(Jobs) /\ finished \in Seq(Jobs)
  BY DEF TypeOK
<1>1. ch' = ch \o <<j>> /\ finished' = finished /\ running' = running
  <2>1. ch' = Append(ch, j)
    BY CapacityAssumption DEF EnqueueSend, HasRoom, TypeOK
  <2> QED BY <2>1, AppendIsConcat DEF EnqueueSend
<1>2. finished \o running \in Seq(Jobs) /\ <<j>> \in Seq(Jobs)
  BY ConcatProperties
<1>3. Taken' = Taken \o <<j>>
  BY <1>1, <1>2, ConcatAssociative DEF Taken
<1>4. Taken \in Seq(Jobs)
  BY TakenRange
<1>5. Taken' = Append(Taken, j)
  BY <1>3, <1>4, AppendIsConcat
<1>6. Range(Taken') = Range(Taken) \cup {j}
  <2>1. Range(Taken \o <<j>>) = Range(Taken) \cup Range(<<j>>)
    BY <1>2, <1>4, RangeConcatenation
  <2> QED BY <1>3, <2>1, RangeSingle
<1> QED BY <1>5, <1>6

LEMMA ReceiveKeeps ==
  ASSUME TypeOK, Receive
  PROVE  Taken' = Taken
<1> ch \in Seq(Jobs) /\ finished \in Seq(Jobs) /\ ch # <<>> /\ running = <<>>
  BY DEF TypeOK, Receive
<1>1. /\ Head(ch) \in Jobs /\ Tail(ch) \in Seq(Jobs) /\ ch = <<Head(ch)>> \o Tail(ch)
      /\ <<Head(ch)>> \in Seq(Jobs)
  BY HeadAndTail
<1>2. Taken' = (finished \o <<Head(ch)>>) \o Tail(ch)
  BY DEF Receive, Taken
<1>3. Taken = finished \o ch
  BY ConcatEmptySeq DEF Taken
<1>4. finished \o (<<Head(ch)>> \o Tail(ch)) = (finished \o <<Head(ch)>>) \o Tail(ch)
  BY <1>1, ConcatAssociative
<1> QED BY <1>1, <1>2, <1>3, <1>4

LEMMA ReturnKeeps ==
  ASSUME TypeOK, Return
  PROVE  Taken' = Taken
<1> running \in Seq(Jobs) /\ finished \in Seq(Jobs)
  BY DEF TypeOK
<1>1. finished \o running \in Seq(Jobs)
  BY ConcatProperties
<1>2. Taken' = (finished \o running) \o <<>> \o ch
  BY DEF Return, Taken
<1> QED BY <1>1, <1>2, ConcatEmptySeq DEF Taken

LEMMA OthersKeep ==
  ASSUME UNCHANGED <<finished, running, ch>>
  PROVE  Taken' = Taken
  BY DEF Taken

-----------------------------------------------------------------------------
\* The invariant holds initially and every step keeps it.

LEMMA InitIInv == Init => IInv
<1> SUFFICES ASSUME Init PROVE IInv
  OBVIOUS
<1>1. TypeOK
  <2>1. Len(<<>>) = 0 /\ 0 \in 0..Capacity /\ 0 \in 0..1 /\ <<>> \in Seq(Jobs)
    BY CapacityAssumption
  <2>2. /\ enq \in [Jobs -> {"idle", "lock", "check", "send"} \cup EnqueueResults]
        /\ drn \in [Drainers -> {"idle", "lock", "check", "close", "waiting", "true", "false"}]
    BY DEF Init, EnqueueResults
  <2> QED BY <2>1, <2>2 DEF Init, TypeOK
<1>2. LockHeld /\ FlagAndChannel /\ Closing
  BY DEF Init, LockHeld, FlagAndChannel, Closing
<1>3. RunIffAccepted
  <2>1. Range(Taken) = {}
    BY DEF Init, Taken, Range
  <2> QED BY <2>1 DEF Init, Taken, RunIffAccepted
<1> QED BY <1>1, <1>2, <1>3 DEF IInv

LEMMA StepTypeOK == TypeOK /\ [Next]_vars => TypeOK'
<1> SUFFICES ASSUME TypeOK, [Next]_vars PROVE TypeOK'
  OBVIOUS
<1> USE CapacityAssumption DEF TypeOK, EnqueueResults, Lock, Unlock
<1>1. ASSUME NEW j \in Jobs, Enqueue(j) PROVE TypeOK'
  <2>1. CASE EnqueueSend(j)
    <3>1. ch' = ch \/ (HasRoom /\ ch' = Append(ch, j))
      BY <2>1 DEF EnqueueSend, HasRoom
    <3>2. ch' \in Seq(Jobs) /\ Len(ch') \in 0..Capacity
      <4>1. Append(ch, j) \in Seq(Jobs) /\ Len(Append(ch, j)) = Len(ch) + 1
        BY AppendProperties
      <4>2. CASE ch' = ch
        BY <4>2
      <4>3. CASE HasRoom /\ ch' = Append(ch, j)
        <5>1. Len(ch') = Len(ch) + 1 /\ ch' \in Seq(Jobs)
          BY <4>1, <4>3
        <5>2. Len(ch) \in Nat /\ HasRoom
          BY <4>3
        <5> QED BY <5>1, <5>2 DEF HasRoom
      <4> QED BY <3>1, <4>2, <4>3
    <3> QED BY <2>1, <3>2 DEF EnqueueSend
  <2> QED BY <1>1, <2>1 DEF Enqueue, EnqueueCall, EnqueueLock, EnqueueCheck
<1>2. CASE Receive
  <2>1. /\ Head(ch) \in Jobs /\ Tail(ch) \in Seq(Jobs) /\ Len(Tail(ch)) = Len(ch) - 1
        /\ Len(ch) # 0
    BY <1>2, HeadAndTail, EmptySeq DEF Receive
  <2>2. running' \in Seq(Jobs) /\ Len(running') = 1
    BY <1>2, <2>1 DEF Receive
  <2> QED BY <1>2, <2>1, <2>2 DEF Receive
<1>3. CASE Return
  <2>1. finished' \in Seq(Jobs)
    BY <1>3, ConcatProperties DEF Return
  <2> QED BY <1>3, <2>1 DEF Return
<1>4. CASE WorkerExit
  BY <1>4 DEF WorkerExit
<1>5. ASSUME NEW d \in Drainers, Drain(d) PROVE TypeOK'
  BY <1>5 DEF Drain, DrainCall, DrainLock, DrainCheck, DrainClose, DrainDone, DrainTimeout
<1>6. CASE UNCHANGED vars
  BY <1>6 DEF vars
<1> QED BY <1>1, <1>2, <1>3, <1>4, <1>5, <1>6 DEF Next, Worker

LEMMA StepLockHeld == TypeOK /\ LockHeld /\ [Next]_vars => LockHeld'
<1> SUFFICES ASSUME TypeOK, LockHeld, [Next]_vars PROVE LockHeld'
  OBVIOUS
<1> USE CallersAssumption DEF LockHeld, TypeOK, EnqueueResults
<1>1. ASSUME NEW j \in Jobs, Enqueue(j) PROVE LockHeld'
  BY <1>1 DEF Enqueue, EnqueueCall, EnqueueLock, EnqueueCheck, EnqueueSend, Lock, Unlock
<1>2. CASE Worker
  BY <1>2 DEF Worker, Receive, Return, WorkerExit
<1>3. ASSUME NEW d \in Drainers, Drain(d) PROVE LockHeld'
  BY <1>3 DEF Drain, DrainCall, DrainLock, DrainCheck, DrainClose, DrainDone, DrainTimeout,
              Lock, Unlock
<1>4. CASE UNCHANGED vars
  BY <1>4 DEF vars
<1> QED BY <1>1, <1>2, <1>3, <1>4 DEF Next

\* The lock is what keeps the flag a sender has seen, and the channel it sends
\* on, as they were.
LEMMA StepFlagAndChannel ==
  TypeOK /\ LockHeld /\ FlagAndChannel /\ [Next]_vars => FlagAndChannel'
<1> SUFFICES ASSUME TypeOK, LockHeld, FlagAndChannel, [Next]_vars PROVE FlagAndChannel'
  OBVIOUS
<1> USE CallersAssumption DEF FlagAndChannel, TypeOK, EnqueueResults
<1>1. ASSUME NEW j \in Jobs, Enqueue(j) PROVE FlagAndChannel'
  BY <1>1 DEF Enqueue, EnqueueCall, EnqueueLock, EnqueueCheck, EnqueueSend
<1>2. CASE Worker
  BY <1>2 DEF Worker, Receive, Return, WorkerExit
<1>3. ASSUME NEW d \in Drainers, Drain(d) PROVE FlagAndChannel'
  <2>1. CASE DrainCheck(d)
    BY <2>1 DEF DrainCheck, LockHeld
  <2>2. CASE DrainClose(d)
    BY <2>2 DEF DrainClose, LockHeld
  <2> QED BY <1>3, <2>1, <2>2 DEF Drain, DrainCall, DrainLock, DrainDone, DrainTimeout
<1>4. CASE UNCHANGED vars
  BY <1>4 DEF vars
<1> QED BY <1>1, <1>2, <1>3, <1>4 DEF Next

LEMMA StepClosing ==
  TypeOK /\ FlagAndChannel /\ Closing /\ [Next]_vars => Closing'
<1> SUFFICES ASSUME TypeOK, FlagAndChannel, Closing, [Next]_vars PROVE Closing'
  OBVIOUS
<1> USE DEF Closing, TypeOK, EnqueueResults
<1>1. ASSUME NEW j \in Jobs, Enqueue(j) PROVE Closing'
  <2>1. CASE EnqueueSend(j)
    BY <2>1 DEF EnqueueSend, FlagAndChannel
  <2> QED BY <1>1, <2>1 DEF Enqueue, EnqueueCall, EnqueueLock, EnqueueCheck
<1>2. CASE Worker
  BY <1>2 DEF Worker, Receive, Return, WorkerExit, LoopEnds
<1>3. ASSUME NEW d \in Drainers, Drain(d) PROVE Closing'
  BY <1>3 DEF Drain, DrainCall, DrainLock, DrainCheck, DrainClose, DrainDone, DrainTimeout
<1>4. CASE UNCHANGED vars
  BY <1>4 DEF vars
<1> QED BY <1>1, <1>2, <1>3, <1>4 DEF Next

LEMMA StepRunIffAccepted == TypeOK /\ RunIffAccepted /\ [Next]_vars => RunIffAccepted'
<1> SUFFICES ASSUME TypeOK, RunIffAccepted, [Next]_vars PROVE RunIffAccepted'
  OBVIOUS
<1>1. \A j \in Jobs : enq[j] = "nil" <=> j \in Range(Taken)
  BY DEF RunIffAccepted, Taken
<1>2. SUFFICES \A j \in Jobs : enq'[j] = "nil" <=> j \in Range(Taken')
  BY DEF RunIffAccepted, Taken
<1>3. CASE UNCHANGED enq /\ Taken' = Taken
  BY <1>1, <1>3
<1>4. ASSUME NEW i \in Jobs, Enqueue(i) PROVE \A j \in Jobs : enq'[j] = "nil" <=> j \in Range(Taken')
  <2>1. CASE EnqueueSend(i) /\ HasRoom
    <3>1. Range(Taken') = Range(Taken) \cup {i}
      BY <2>1, SendTakes
    <3>2. enq' = [enq EXCEPT ![i] = "nil"]
      BY <2>1, CapacityAssumption DEF EnqueueSend, HasRoom, TypeOK
    <3> QED BY <1>1, <3>1, <3>2 DEF TypeOK
  <2>2. CASE ~(EnqueueSend(i) /\ HasRoom)
    <3>1. Taken' = Taken
      BY <1>4, <2>2, OthersKeep DEF Enqueue, EnqueueCall, EnqueueLock, EnqueueCheck, EnqueueSend
    <3>2. \E r \in {"lock", "check", "send", "ErrQueueDrained", "ErrQueueFull"} :
             enq' = [enq EXCEPT ![i] = r]
      BY <1>4, <2>2 DEF Enqueue, EnqueueCall, EnqueueLock, EnqueueCheck, EnqueueSend
    <3>3. enq[i] # "nil"
      BY <1>4 DEF Enqueue, EnqueueCall, EnqueueLock, EnqueueCheck, EnqueueSend
    <3> QED BY <1>1, <3>1, <3>2, <3>3 DEF TypeOK
  <2> QED BY <2>1, <2>2
<1>5. CASE Worker
  <2>1. Taken' = Taken /\ UNCHANGED enq
    BY <1>5, ReceiveKeeps, ReturnKeeps, OthersKeep DEF Worker, Receive, Return, WorkerExit
  <2> QED BY <1>3, <2>1
<1>6. ASSUME NEW d \in Drainers, Drain(d) PROVE UNCHANGED enq /\ Taken' = Taken
  BY <1>6, OthersKeep
     DEF Drain, DrainCall, DrainLock, DrainCheck, DrainClose, DrainDone, DrainTimeout
<1>7. CASE UNCHANGED vars
  BY <1>3, <1>7, OthersKeep DEF vars
<1> QED BY <1>3, <1>4, <1>5, <1>6, <1>7 DEF Next

LEMMA StepIInv == IInv /\ [Next]_vars => IInv'
  BY StepTypeOK, StepLockHeld, StepFlagAndChannel, StepClosing, StepRunIffAccepted DEF IInv

-----------------------------------------------------------------------------
\* The results.

\* The inductive invariant holds in every reachable state of the queue.
THEOREM Invariance == Spec => []IInv
  BY InitIInv, StepIInv, PTL DEF Spec

\* Every variable of the queue keeps to its domain: the buffer never exceeds
\* its capacity and at most one job runs (queue.go:16-17, 31).
THEOREM TypeCorrect == Spec => []TypeOK
<1>1. IInv => TypeOK
  BY DEF IInv
<1> QED BY Invariance, <1>1, PTL

\* No interleaving of Enqueue and Drain calls sends on the closed channel or
\* closes it twice (queue.go:47-54, 64-71).
THEOREM NeverPanics == Spec => []NoPanic
<1>1. IInv => NoPanic
  BY DEF IInv, FlagAndChannel, NoPanic
<1> QED BY Invariance, <1>1, PTL

\* A job is run, running or buffered exactly when its Enqueue call returned
\* nil: no refused job is ever run, no accepted one is lost (queue.go:50-58).
THEOREM RunExactlyAccepted == Spec => []RunIffAccepted
<1>1. IInv => RunIffAccepted
  BY DEF IInv
<1> QED BY Invariance, <1>1, PTL

\* When the Drain call that closed the queue answers true, every accepted job
\* has finished (queue.go:61-62).
THEOREM DrainKeepsItsPromise == Spec => []DrainTrueMeansAllFinished
<1>1. IInv => DrainTrueMeansAllFinished
  <2> SUFFICES ASSUME IInv, NEW d \in closer, drn[d] = "true",
                      NEW j \in Jobs, enq[j] = "nil"
               PROVE  j \in Range(finished)
    BY DEF DrainTrueMeansAllFinished
  <2>1. ch = <<>> /\ running = <<>>
    BY DEF IInv, Closing
  <2>2. j \in Range(finished) \cup Range(running) \cup Range(ch)
    BY TakenRange DEF IInv, RunIffAccepted, Taken
  <2>3. Range(<<>>) = {}
    BY DEF Range
  <2> QED BY <2>1, <2>2, <2>3
<1> QED BY Invariance, <1>1, PTL

-----------------------------------------------------------------------------
\* The queue implements FifoRunner.

LEMMA InitImplements == Init => Fifo!QueueInit
<1> SUFFICES ASSUME Init PROVE Fifo!QueueInit
  OBVIOUS
<1>1. finished = <<>> /\ running = <<>> /\ ch = <<>> /\ drained = FALSE
  BY DEF Init
<1>2. finished \o running \o ch = <<>>
  BY <1>1
<1>3. Len(finished) = 0 /\ Len(running) = 0
  BY <1>1
<1> QED BY <1>1, <1>2, <1>3 DEF Fifo!QueueInit

\* Each step of the queue is a step of FifoRunner or leaves its state alone.
LEMMA StepImplements == IInv /\ [Next]_vars => [Fifo!QueueNext]_(Fifo!queueVars)
<1> SUFFICES ASSUME IInv, [Next]_vars PROVE [Fifo!QueueNext]_(Fifo!queueVars)
  OBVIOUS
<1> DEFINE begunNow == Len(finished) + Len(running)
<1> DEFINE endedNow == Len(finished)
<1> DEFINE Stutter == /\ drained' = drained
                      /\ Taken' = Taken
                      /\ begunNow' = begunNow
                      /\ endedNow' = endedNow
<1>a. TypeOK
  BY DEF IInv
<1>b. /\ Taken \in Seq(Jobs)
      /\ Len(Taken) = Len(finished) + Len(running) + Len(ch)
      /\ Len(finished) \in Nat /\ Len(running) \in Nat /\ Len(ch) \in Nat
  BY <1>a, TakenRange DEF TypeOK
<1>c. Stutter => [Fifo!QueueNext]_(Fifo!queueVars)
  BY DEF Fifo!queueVars, Taken
<1>1. ASSUME NEW j \in Jobs, Enqueue(j) PROVE [Fifo!QueueNext]_(Fifo!queueVars)
  <2>1. CASE EnqueueSend(j) /\ HasRoom
    <3>1. Taken' = Append(Taken, j) /\ UNCHANGED <<drained, finished, running>>
      BY <1>a, <2>1, SendTakes DEF EnqueueSend
    <3>2. ~drained
      BY <2>1 DEF IInv, FlagAndChannel, EnqueueSend
    <3>3. j \notin Fifo!Range(Taken)
      <4>1. j \notin Range(Taken)
        BY <2>1 DEF IInv, RunIffAccepted, EnqueueSend, Taken
      <4> QED BY <4>1 DEF Range, Fifo!Range
    <3>4. ~(Len(Taken) - begunNow >= Capacity)
      BY <1>b, <2>1, CapacityAssumption DEF HasRoom
    <3>5. ~Fifo!Full
      BY <3>4 DEF Fifo!Full, Fifo!Buffered, Taken
    <3>6. UNCHANGED <<~drained, begunNow, endedNow>>
      BY <3>1
    <3>7. Fifo!Accept(j)
      BY <3>1, <3>2, <3>3, <3>5, <3>6 DEF Fifo!Accept, Taken
    <3> QED BY <3>7 DEF Fifo!QueueNext
  <2>2. CASE ~(EnqueueSend(j) /\ HasRoom)
    <3>1. UNCHANGED <<drained, finished, running, ch>>
      BY <1>1, <2>2 DEF Enqueue, EnqueueCall, EnqueueLock, EnqueueCheck, EnqueueSend
    <3> QED BY <1>c, <3>1, OthersKeep
  <2> QED BY <2>1, <2>2
<1>2. CASE Receive
  <2>1. Taken' = Taken /\ UNCHANGED <<drained, finished>>
    BY <1>a, <1>2, ReceiveKeeps DEF Receive
  <2>2. Len(running) = 0 /\ Len(running') = 1 /\ Len(ch) > 0
    BY <1>2, <1>b, EmptySeq DEF Receive, IInv, TypeOK
  <2>3. begunNow = endedNow /\ begunNow < Len(Taken) /\ begunNow' = begunNow + 1
    BY <1>b, <2>1, <2>2
  <2>4. Fifo!Begin
    BY <2>1, <2>3 DEF Fifo!Begin, Taken
  <2> QED BY <2>4 DEF Fifo!QueueNext
<1>3. CASE Return
  <2>1. Taken' = Taken /\ UNCHANGED drained
    BY <1>a, <1>3, ReturnKeeps DEF Return
  <2>2. Len(running) = 1
    BY <1>3, <1>a, EmptySeq DEF Return, TypeOK
  <2>3. Len(finished') = Len(finished) + Len(running)
    BY <1>3, <1>a, ConcatProperties DEF Return, TypeOK
  <2>4. Len(running') = 0
    BY <1>3 DEF Return
  <2>5. endedNow < begunNow /\ endedNow' = endedNow + 1 /\ begunNow' = begunNow
    BY <1>b, <2>2, <2>3, <2>4
  <2>6. Fifo!End
    BY <2>1, <2>5 DEF Fifo!End, Fifo!Running, Taken
  <2> QED BY <2>6 DEF Fifo!QueueNext
<1>4. CASE WorkerExit
  BY <1>c, <1>4, OthersKeep DEF WorkerExit
<1>5. ASSUME NEW d \in Drainers, Drain(d) PROVE [Fifo!QueueNext]_(Fifo!queueVars)
  <2>1. CASE DrainCheck(d) /\ ~drained
    <3>1. drained' /\ UNCHANGED <<finished, running, ch>>
      BY <2>1 DEF DrainCheck
    <3>2. Fifo!Close
      BY <2>1, <3>1 DEF Fifo!Close
    <3> QED BY <3>2 DEF Fifo!QueueNext
  <2>2. CASE ~(DrainCheck(d) /\ ~drained)
    <3>1. UNCHANGED <<drained, finished, running, ch>>
      BY <1>5, <2>2
         DEF Drain, DrainCall, DrainLock, DrainCheck, DrainClose, DrainDone, DrainTimeout
    <3> QED BY <1>c, <3>1, OthersKeep
  <2> QED BY <2>1, <2>2
<1>6. CASE UNCHANGED vars
  BY <1>c, <1>6, OthersKeep DEF vars
<1> QED BY <1>1, <1>2, <1>3, <1>4, <1>5, <1>6 DEF Next, Worker

\* queue.go implements FifoRunner for any number of callers and any capacity:
\* one job at a time, each once, in the order of acceptance, none after Drain.
THEOREM QueueImplementsFifo == Spec => ImplementsFifo
  BY Invariance, InitImplements, StepImplements, PTL DEF Spec, ImplementsFifo, Fifo!QueueSpec

=============================================================================
