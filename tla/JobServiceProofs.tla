--------------------------- MODULE JobServiceProofs ---------------------------
(***************************************************************************)
(* Proofs about JobService for every set of jobs, every capacity of the    *)
(* queue and any number of process starts, crashes and failed writes: its  *)
(* invariants, and that rows only advance.                                 *)
(*                                                                         *)
(* The argument.  Three places know of a job: its handler, the queue and   *)
(* the table.  Until its handler has handed it over, the queue does not    *)
(* have it and nobody has touched its row but the handler; in the buffer   *)
(* it is still untouched; in the worker's hand, the position inside        *)
(* Executor.run says what its row, its deploy and its notification are;    *)
(* once returned, its row is final.  As no job is accepted twice, a step   *)
(* about the job in hand leaves every other handler, buffered job and      *)
(* returned job as it was.  When the process goes, the first three kinds   *)
(* of job are all that the table can still show as queued or running.      *)
(***************************************************************************)
EXTENDS JobService, TLAPS, SequenceTheorems

-----------------------------------------------------------------------------
\* The inductive invariant.

Refused == {"503 busy", "500 submit error"}

\* No job is accepted twice, and nothing is once Drain has begun.
Accepted ==
  /\ \A i, k \in 1..Len(accepted) : accepted[i] = accepted[k] => i = k
  /\ phase \in {"draining", "stopping", "exiting"} => ~open
  /\ phase \in {"stopping", "exiting"} /\ ~cancelled => ended = Len(accepted)
  /\ phase = "down" => accepted = <<>>

\* Nothing has been done for the job yet.
Untouched(j) == outcome[j] = "none" /\ notified[j] = "none" /\ errorCol[j] = "none"

Unaccepted(j) == \A i \in 1..Len(accepted) : accepted[i] # j

\* A request whose job the queue does not have, yet or ever.
RequestAndRow(j) ==
  /\ handler[j] \in {"idle", "insert", "enqueue"} \cup Refused =>
       Untouched(j) /\ Unaccepted(j)
  /\ handler[j] \in {"idle", "insert"} => status[j] = "none"
  /\ handler[j] = "enqueue" => status[j] = "queued"
  /\ handler[j] \in Refused => status[j] \in {"none", "queued"}

NotHandedOver == \A j \in Jobs : RequestAndRow(j)

\* A job in the buffer.
Buffer ==
  \A i \in (begun + 1)..Len(accepted) :
     Untouched(accepted[i]) /\ status[accepted[i]] = "queued"

\* The job in the worker's hand, by how far the worker has come.
InHand ==
  LET j == CurrentJob IN
  Running =>
     /\ notified[j] = "none"
     /\ step # "notify" => errorCol[j] = "none"
     /\ step = "mark" => status[j] = "queued"
     /\ step \notin {"mark", "notify"} => status[j] = "running" \/ (j \in lost /\ status[j] = "queued")
     /\ step = "notify" => status[j] = verdict \/ (j \in lost /\ status[j] \in {"queued", "running"})
     /\ step \notin {"finish", "notify"} => verdict = "success"
     /\ step \in {"mark", "discover", "validate", "pull"} => outcome[j] = "none"
     /\ step \notin {"mark", "discover"} /\ verdict = "success" => discovered[j] \/ j \in lost
     /\ step \in {"prune", "finish", "notify"} =>
          IF verdict = "success" THEN outcome[j] = "success" ELSE outcome[j] \in {"none", "failed"}

\* A job the worker has returned from.
Returned ==
  \A i \in 1..ended : status[accepted[i]] \in Store!Terminal \/ accepted[i] \in lost

\* The service under deployment: the first version is never taken for one that
\* a job has replaced.
Contract ==
  /\ outcome[First] = "success"
  /\ \A j \in Jobs : outcome[j] = "committed" => j \in serving
  /\ \A j \in Jobs : outcome[j] = "success" =>
        j \in serving \/ \E k \in Jobs \ {j} : outcome[k] \in {"committed", "success", "cut"}

\* RowTellsTheDeploy, as far as a row and its own deploy go.
RowFollowsItsDeploy ==
  \A j \in Jobs :
     /\ status[j] = "success" => outcome[j] = "success" /\ (discovered[j] \/ j \in lost)
     /\ errorCol[j] = "deploy" => outcome[j] \in {"none", "failed"}
     /\ errorCol[j] # "none" <=> status[j] = "failed"

IInv ==
  /\ TypeOK
  /\ Accepted
  /\ NotHandedOver
  /\ Buffer
  /\ InHand
  /\ Returned
  /\ Contract
  /\ RunningRowIsInHand
  /\ RowFollowsItsDeploy
  /\ ToldAgreesWithRow

-----------------------------------------------------------------------------
\* What leaves a part of the invariant alone.

LEMMA AcceptedStays ==
  ASSUME Accepted, UNCHANGED <<open, accepted, ended, phase, cancelled>>
  PROVE  Accepted'
  BY DEF Accepted

LEMMA NotHandedOverStays ==
  ASSUME NotHandedOver, UNCHANGED <<handler, accepted, status, errorCol, outcome, notified>>
  PROVE  NotHandedOver'
  BY DEF NotHandedOver, RequestAndRow, Untouched, Unaccepted

LEMMA BufferStays ==
  ASSUME Buffer, UNCHANGED <<accepted, begun, status, errorCol, outcome, notified>>
  PROVE  Buffer'
  BY DEF Buffer, Untouched

LEMMA InHandStays ==
  ASSUME InHand,
         UNCHANGED <<accepted, begun, ended, storeVars, lost, outcome, notified, step, verdict>>
  PROVE  InHand'
  BY DEF InHand, CurrentJob, Running, storeVars

LEMMA ReturnedStays ==
  ASSUME Returned, UNCHANGED <<accepted, ended, status, lost>>
  PROVE  Returned'
  BY DEF Returned

LEMMA ContractStays ==
  ASSUME Contract, UNCHANGED <<serving, outcome>>
  PROVE  Contract'
  BY DEF Contract

LEMMA RunningRowIsInHandStays ==
  ASSUME RunningRowIsInHand, Up' => Up,
         UNCHANGED <<accepted, begun, ended, status, lost, unmarked, step>>
  PROVE  RunningRowIsInHand'
  BY DEF RunningRowIsInHand, CurrentJob, Running

LEMMA RowFollowsItsDeployStays ==
  ASSUME RowFollowsItsDeploy, UNCHANGED <<storeVars, lost, outcome>>
  PROVE  RowFollowsItsDeploy'
  BY DEF RowFollowsItsDeploy, storeVars

LEMMA ToldAgreesWithRowStays ==
  ASSUME ToldAgreesWithRow, UNCHANGED <<handler, status, errorCol, notified, lost>>
  PROVE  ToldAgreesWithRow'
  BY DEF ToldAgreesWithRow

-----------------------------------------------------------------------------
\* The job in hand, and the others.

LEMMA InHandIsAccepted ==
  ASSUME TypeOK, Running
  PROVE  /\ CurrentJob \in Jobs /\ CurrentJob = accepted[begun]
         /\ begun \in 1..Len(accepted) /\ begun = ended + 1
         /\ CurrentJob \in Range(accepted)
<1>1. begun \in 1..Len(accepted) /\ begun = ended + 1 /\ accepted \in Seq(Jobs)
  BY DEF TypeOK, Running
<1> QED
  BY <1>1 DEF CurrentJob, Range

LEMMA InHandIsElsewhere ==
  ASSUME TypeOK, Accepted, NotHandedOver, Running
  PROVE  /\ handler[CurrentJob] \notin {"idle", "insert", "enqueue"} \cup Refused
         /\ \A i \in (begun + 1)..Len(accepted) : accepted[i] # CurrentJob
         /\ \A i \in 1..ended : accepted[i] # CurrentJob
<1>1. /\ CurrentJob \in Jobs /\ CurrentJob = accepted[begun]
      /\ begun \in 1..Len(accepted) /\ ended \in Nat /\ begun = ended + 1 /\ Len(accepted) \in Nat
  BY InHandIsAccepted DEF TypeOK
<1>2. handler[CurrentJob] \notin {"idle", "insert", "enqueue"} \cup Refused
  BY <1>1 DEF NotHandedOver, RequestAndRow, Unaccepted
<1>3. \A i \in (begun + 1)..Len(accepted) : accepted[i] # CurrentJob
  BY <1>1 DEF Accepted
<1>4. \A i \in 1..ended : accepted[i] # CurrentJob
  BY <1>1 DEF Accepted
<1> QED
  BY <1>2, <1>3, <1>4

\* What is said of a job stays as it was for all but one.
OnlyAbout(j) ==
  \A k \in Jobs \ {j} :
     /\ status'[k] = status[k] /\ errorCol'[k] = errorCol[k] /\ discovered'[k] = discovered[k]
     /\ outcome'[k] = outcome[k] /\ notified'[k] = notified[k]

LEMMA WorkerLeavesOthers ==
  ASSUME TypeOK, Accepted, NotHandedOver, Buffer, Returned, Running,
         OnlyAbout(CurrentJob), UNCHANGED <<queueVars, handler>>, lost \subseteq lost'
  PROVE  NotHandedOver' /\ Buffer' /\ Returned'
<1>1. UNCHANGED <<accepted, begun, ended>>
  BY DEF queueVars
<1>2. NotHandedOver'
  <2> SUFFICES ASSUME NEW j \in Jobs PROVE RequestAndRow(j)'
    BY DEF NotHandedOver
  <2>1. CASE j = CurrentJob
    BY <2>1, InHandIsElsewhere DEF RequestAndRow
  <2>2. CASE j # CurrentJob
    BY <1>1, <2>2 DEF NotHandedOver, RequestAndRow, OnlyAbout, Untouched, Unaccepted
  <2> QED
    BY <2>1, <2>2
<1>3. \A i \in 1..Len(accepted) : accepted[i] \in Jobs
  BY DEF TypeOK
<1>4. Len(accepted) \in Nat /\ begun \in Nat /\ ended \in Nat /\ ended <= begun /\ begun <= Len(accepted)
  BY DEF TypeOK
<1>5. Buffer'
  BY <1>1, <1>3, <1>4, InHandIsElsewhere DEF Buffer, OnlyAbout, Untouched
<1>6. Returned'
  BY <1>1, <1>3, <1>4, InHandIsElsewhere DEF Returned, OnlyAbout
<1> QED
  BY <1>2, <1>5, <1>6

-----------------------------------------------------------------------------
\* The table under a handler's insert: only a job that is not accepted.

LEMMA HandlerLeavesOthers ==
  ASSUME TypeOK, Buffer, InHand, Returned, NEW j \in Jobs,
         Unaccepted(j),
         OnlyAbout(j), UNCHANGED <<accepted, begun, ended, step, verdict, lost>>
  PROVE  Buffer' /\ InHand' /\ Returned'
<1>1. /\ \A i \in 1..Len(accepted) : accepted[i] \in Jobs
      /\ Len(accepted) \in Nat /\ begun \in Nat /\ ended \in Nat
      /\ ended <= begun /\ begun <= Len(accepted)
  BY DEF TypeOK
<1>2. Buffer'
  BY <1>1 DEF Buffer, OnlyAbout, Untouched, Unaccepted
<1>3. Returned'
  BY <1>1 DEF Returned, OnlyAbout, Unaccepted
<1>4. InHand'
  <2> SUFFICES ASSUME Running' PROVE InHand'
    BY DEF InHand
  <2>1. Running /\ CurrentJob' = CurrentJob
    BY DEF Running, CurrentJob
  <2>2. CurrentJob \in Jobs \ {j}
    BY <2>1, InHandIsAccepted DEF Unaccepted
  <2>3. /\ status'[CurrentJob] = status[CurrentJob]
        /\ errorCol'[CurrentJob] = errorCol[CurrentJob]
        /\ discovered'[CurrentJob] = discovered[CurrentJob]
        /\ outcome'[CurrentJob] = outcome[CurrentJob]
        /\ notified'[CurrentJob] = notified[CurrentJob]
    BY <2>2 DEF OnlyAbout
  <2> QED
    BY <2>1, <2>3 DEF InHand
<1> QED
  BY <1>2, <1>3, <1>4

-----------------------------------------------------------------------------
\* The handlers

LEMMA RequestKeepsIInv ==
  ASSUME IInv, NEW j \in Jobs, Request(j)
  PROVE  IInv'
<1> USE DEF IInv
<1>1. /\ handler[j] = "idle" /\ handler' = [handler EXCEPT ![j] = "insert"]
      /\ UNCHANGED <<queueVars, storeVars, lost, unmarked, workerVars, processVars>>
  BY DEF Request, Goto, tableVars
<1>2. UNCHANGED <<open, accepted, begun, ended, status, errorCol, discovered, step, verdict,
                  serving, outcome, notified, phase, cancelled, boots>>
  BY <1>1 DEF queueVars, storeVars, workerVars, deployVars, processVars
<1>3. TypeOK'
  BY <1>1, <1>2 DEF TypeOK, CurrentJob, Running
<1>4. NotHandedOver'
  BY <1>1, <1>2 DEF NotHandedOver, RequestAndRow, Untouched, Unaccepted
<1>5. ToldAgreesWithRow'
  BY <1>1, <1>2 DEF ToldAgreesWithRow, TypeOK
<1>6. /\ Accepted' /\ Buffer' /\ InHand' /\ Returned' /\ Contract'
      /\ RunningRowIsInHand' /\ RowFollowsItsDeploy'
  BY <1>1, <1>2, AcceptedStays, BufferStays, InHandStays, ReturnedStays, ContractStays,
     RunningRowIsInHandStays, RowFollowsItsDeployStays DEF Up
<1> QED
  BY <1>3, <1>4, <1>5, <1>6

LEMMA SubmitInsertKeepsIInv ==
  ASSUME IInv, NEW j \in Jobs, SubmitInsert(j)
  PROVE  IInv'
<1> USE DEF IInv
<1>1. /\ handler[j] = "insert" /\ UNCHANGED <<queueVars, workerVars, processVars>>
      /\ UNCHANGED <<errorCol, discovered>>
      /\ \/ /\ handler' = [handler EXCEPT ![j] = "enqueue"]
            /\ status' = [status EXCEPT ![j] = "queued"]
         \/ /\ handler' = [handler EXCEPT ![j] = "500 submit error"]
            /\ status' = status
  BY DEF SubmitInsert, Goto, Store!Insert, storeVars, tableVars
<1>2. UNCHANGED <<open, accepted, begun, ended, errorCol, discovered, lost, unmarked, step, verdict,
                  serving, outcome, notified, phase, cancelled, boots>>
  BY <1>1 DEF SubmitInsert, Written, tableVars, queueVars, workerVars, deployVars, processVars
<1>3. /\ status[j] = "none" /\ Untouched(j) /\ Unaccepted(j)
  BY <1>1 DEF NotHandedOver, RequestAndRow
<1>4. TypeOK'
  <2>1. open' \in BOOLEAN /\ cancelled' \in BOOLEAN
    BY <1>1, <1>2 DEF TypeOK
  <2>2. /\ status' \in [Jobs -> Store!Statuses]
        /\ handler' \in [Jobs -> {"idle", "insert", "enqueue", "polling"} \cup Answers]
    BY <1>1 DEF TypeOK, Store!Statuses, Answers
  <2>3. (Running' <=> Running) /\ CurrentJob' = CurrentJob
    BY <1>2 DEF Running, CurrentJob
  <2> QED
    BY <1>2, <2>1, <2>2, <2>3 DEF TypeOK
<1>5. /\ \A k \in Jobs \ {j} : status'[k] = status[k] /\ handler'[k] = handler[k]
      /\ \/ handler'[j] = "enqueue" /\ status'[j] = "queued"
         \/ handler'[j] = "500 submit error" /\ status'[j] = "none"
  BY <1>1, <1>3 DEF TypeOK
<1>6. NotHandedOver'
  <2> SUFFICES ASSUME NEW k \in Jobs PROVE RequestAndRow(k)'
    BY DEF NotHandedOver
  <2>1. CASE k # j
    BY <1>2, <1>5, <2>1 DEF NotHandedOver, RequestAndRow, Untouched, Unaccepted
  <2>2. CASE k = j
    BY <1>2, <1>3, <1>5, <2>2 DEF RequestAndRow, Untouched, Unaccepted
  <2> QED
    BY <2>1, <2>2
<1>7. OnlyAbout(j)
  BY <1>1, <1>2 DEF OnlyAbout, TypeOK
<1>8. Buffer' /\ InHand' /\ Returned'
  BY <1>2, <1>3, <1>7, HandlerLeavesOthers
<1>9. RunningRowIsInHand'
  BY <1>2, <1>5 DEF RunningRowIsInHand, Running, CurrentJob, Up
<1>10. RowFollowsItsDeploy'
  BY <1>2, <1>3, <1>5 DEF RowFollowsItsDeploy
<1>11. ToldAgreesWithRow'
  BY <1>2, <1>3, <1>5 DEF ToldAgreesWithRow
<1>12. Accepted' /\ Contract'
  BY <1>2, AcceptedStays, ContractStays
<1> QED
  BY <1>4, <1>6, <1>8, <1>9, <1>10, <1>11, <1>12

LEMMA AcceptKeepsQueue ==
  ASSUME TypeOK, Accepted, Buffer, InHand, Returned, RunningRowIsInHand,
         NEW j \in Jobs, Untouched(j), Unaccepted(j), status[j] = "queued",
         open, phase # "down", accepted' = Append(accepted, j),
         UNCHANGED <<open, begun, ended, status, errorCol, discovered, lost, unmarked, step, verdict,
                     outcome, notified, phase, cancelled>>
  PROVE  /\ accepted' \in Seq(Jobs) /\ begun' \in 0..Len(accepted')
         /\ Running' <=> Running
         /\ Running => CurrentJob' = CurrentJob
         /\ \A k \in Jobs \ {j} : Unaccepted(k) => Unaccepted(k)'
         /\ Accepted' /\ Buffer' /\ InHand' /\ Returned' /\ RunningRowIsInHand'
<1>1. /\ accepted \in Seq(Jobs) /\ Len(accepted) \in Nat
      /\ begun \in 0..Len(accepted) /\ ended \in 0..begun /\ begun <= ended + 1
  BY DEF TypeOK
<1>2. /\ accepted' \in Seq(Jobs) /\ Len(accepted') = Len(accepted) + 1
      /\ \A i \in 1..Len(accepted) : accepted'[i] = accepted[i]
      /\ accepted'[Len(accepted) + 1] = j
  BY <1>1
<1>3. /\ begun' \in 0..Len(accepted')
      /\ Running' <=> Running
      /\ Running => CurrentJob' = CurrentJob
  BY <1>1 DEF Running, CurrentJob
<1>4. \A k \in Jobs \ {j} : Unaccepted(k) => Unaccepted(k)'
  BY DEF Unaccepted
<1>5. Accepted'
  <2>1. \A i, k \in 1..Len(accepted') : accepted'[i] = accepted'[k] => i = k
    BY DEF Accepted, Unaccepted
  <2> QED
    BY <2>1 DEF Accepted
<1>6. Buffer'
  BY <1>1 DEF Buffer, Untouched
<1>7. InHand'
  BY <1>3 DEF InHand
<1>8. Returned'
  BY <1>1 DEF Returned
<1>9. RunningRowIsInHand'
  <2>1. Range(accepted) \subseteq Range(accepted')
    BY <1>1, <1>2 DEF Range
  <2> QED
    BY <1>3, <2>1 DEF RunningRowIsInHand, Up
<1> QED
  BY <1>2, <1>3, <1>4, <1>5, <1>6, <1>7, <1>8, <1>9

LEMMA AcceptKeepsIInv ==
  ASSUME IInv, NEW j \in Jobs, handler[j] = "enqueue", phase # "down",
         open, accepted' = Append(accepted, j),
         NEW a \in {"200 queued", "polling"}, handler' = [handler EXCEPT ![j] = a],
         UNCHANGED <<open, begun, ended, status, errorCol, discovered, lost, unmarked, step, verdict,
                     serving, outcome, notified, phase, cancelled, boots>>
  PROVE  IInv'
<1> USE DEF IInv
<1>1. status[j] = "queued" /\ Untouched(j) /\ Unaccepted(j)
  BY DEF NotHandedOver, RequestAndRow
<1>2. /\ accepted' \in Seq(Jobs) /\ begun' \in 0..Len(accepted')
      /\ Running' <=> Running
      /\ Running => CurrentJob' = CurrentJob
      /\ \A k \in Jobs \ {j} : Unaccepted(k) => Unaccepted(k)'
      /\ Accepted' /\ Buffer' /\ InHand' /\ Returned' /\ RunningRowIsInHand'
  BY <1>1, AcceptKeepsQueue
<1>3. TypeOK'
  <2>1. handler' \in [Jobs -> {"idle", "insert", "enqueue", "polling"} \cup Answers]
    BY DEF TypeOK, Answers
  <2> QED
    BY <1>2, <2>1 DEF TypeOK
<1>4. NotHandedOver'
  <2> SUFFICES ASSUME NEW k \in Jobs PROVE RequestAndRow(k)'
    BY DEF NotHandedOver
  <2>1. CASE k # j
    BY <1>2, <2>1 DEF NotHandedOver, RequestAndRow, Untouched, TypeOK
  <2>2. CASE k = j
    BY <2>2 DEF RequestAndRow, TypeOK, Refused
  <2> QED
    BY <2>1, <2>2
<1>5. ToldAgreesWithRow'
  BY DEF ToldAgreesWithRow, TypeOK
<1>6. Contract' /\ RowFollowsItsDeploy'
  BY ContractStays, RowFollowsItsDeployStays DEF storeVars
<1> QED
  BY <1>2, <1>3, <1>4, <1>5, <1>6

\* A handler answers; a refusal comes from the queue.
LEMMA AnswerKeepsIInv ==
  ASSUME IInv, NEW j \in Jobs, NEW a \in Answers, handler' = [handler EXCEPT ![j] = a],
         IF a \in Refused THEN handler[j] = "enqueue" ELSE handler[j] = "polling",
         a = "200 success" => status[j] = "success",
         a = "500 failed" => status[j] = "failed",
         UNCHANGED <<open, accepted, begun, ended, status, errorCol, discovered, lost, unmarked, step,
                     verdict, serving, outcome, notified, phase, cancelled, boots>>
  PROVE  IInv'
<1> USE DEF IInv
<1>1. handler'[j] = a /\ \A k \in Jobs \ {j} : handler'[k] = handler[k]
  BY DEF TypeOK
<1>2. TypeOK'
  <2>1. handler' \in [Jobs -> {"idle", "insert", "enqueue", "polling"} \cup Answers]
    BY DEF TypeOK
  <2>2. (Running' <=> Running) /\ CurrentJob' = CurrentJob
    BY DEF Running, CurrentJob
  <2> QED
    BY <2>1, <2>2 DEF TypeOK
<1>3. NotHandedOver'
  <2> SUFFICES ASSUME NEW k \in Jobs PROVE RequestAndRow(k)'
    BY DEF NotHandedOver
  <2>1. RequestAndRow(k)
    BY DEF NotHandedOver
  <2>2. CASE k # j
    <3>1. handler'[k] = handler[k]
      BY <1>1, <2>2
    <3> QED
      BY <2>1, <3>1 DEF RequestAndRow, Untouched, Unaccepted
  <2>3. CASE k = j
    BY <1>1, <2>1 DEF RequestAndRow, Untouched, Unaccepted, Answers
  <2> QED
    BY <2>2, <2>3
<1>4. ToldAgreesWithRow'
  BY <1>1 DEF ToldAgreesWithRow
<1>5. /\ Accepted' /\ Buffer' /\ InHand' /\ Returned' /\ Contract'
      /\ RunningRowIsInHand' /\ RowFollowsItsDeploy'
  BY AcceptedStays, BufferStays, InHandStays, ReturnedStays, ContractStays,
     RunningRowIsInHandStays, RowFollowsItsDeployStays DEF Up, storeVars
<1> QED
  BY <1>2, <1>3, <1>4, <1>5

LEMMA SubmitEnqueueKeepsIInv ==
  ASSUME IInv, NEW j \in Jobs, SubmitEnqueue(j)
  PROVE  IInv'
<1>1. /\ handler[j] = "enqueue" /\ phase # "down"
      /\ \/ /\ open /\ accepted' = Append(accepted, j)
            /\ \E a \in {"200 queued", "polling"} : handler' = [handler EXCEPT ![j] = a]
         \/ handler' = [handler EXCEPT ![j] = "503 busy"] /\ UNCHANGED accepted
  BY DEF SubmitEnqueue, Goto, Accept, queueVars, Up
<1>2. UNCHANGED <<open, begun, ended, status, errorCol, discovered, lost, unmarked, step, verdict,
                  serving, outcome, notified, phase, cancelled, boots>>
  BY DEF SubmitEnqueue, Accept, queueVars, tableVars, storeVars, workerVars, deployVars, processVars
<1> QED
  BY <1>1, <1>2, AcceptKeepsIInv, AnswerKeepsIInv DEF Answers, Refused

LEMMA PollKeepsIInv ==
  ASSUME IInv, NEW j \in Jobs, PollAnswers(j) \/ PollDeadline(j) \/ PollCancelled(j)
  PROVE  IInv'
<1>1. /\ handler[j] = "polling"
      /\ UNCHANGED <<queueVars, tableVars, workerVars, processVars>>
  BY DEF PollAnswers, PollDeadline, PollCancelled
<1>2. UNCHANGED <<open, accepted, begun, ended, status, errorCol, discovered, lost, unmarked, step,
                  verdict, serving, outcome, notified, phase, cancelled, boots>>
  BY <1>1 DEF queueVars, tableVars, storeVars, workerVars, deployVars, processVars
<1>3. PICK a \in {"200 success", "500 failed", "500 timed out", "503 cancelled"} :
        /\ handler' = [handler EXCEPT ![j] = a]
        /\ a = "200 success" => status[j] = "success"
        /\ a = "500 failed" => status[j] = "failed"
  BY DEF PollAnswers, PollDeadline, PollCancelled, Goto
<1> QED
  BY <1>1, <1>2, <1>3, AnswerKeepsIInv DEF Answers, Refused

-----------------------------------------------------------------------------
\* The worker

LEMMA RunStartKeepsIInv ==
  ASSUME IInv, RunStart
  PROVE  IInv'
<1> USE DEF IInv
<1>1. /\ step = "idle" /\ begun = ended /\ begun < Len(accepted) /\ begun' = begun + 1
      /\ step' = "mark" /\ verdict' = "success"
  BY DEF RunStart, At, Begin
<1>2. UNCHANGED <<open, accepted, ended, status, errorCol, discovered, lost, unmarked, handler,
                  serving, outcome, notified, phase, cancelled, boots>>
  BY DEF RunStart, Begin, tableVars, storeVars, deployVars, processVars
<1>3. /\ accepted \in Seq(Jobs) /\ Len(accepted) \in Nat /\ begun \in Nat /\ ended \in Nat
      /\ ~Running
  BY <1>1 DEF TypeOK
<1>4. Running' /\ CurrentJob' = accepted[begun + 1] /\ begun + 1 \in (begun + 1)..Len(accepted)
  BY <1>1, <1>2, <1>3 DEF Running, CurrentJob
<1>5. TypeOK'
  <2>1. open' \in BOOLEAN /\ cancelled' \in BOOLEAN /\ lost' \subseteq Jobs /\ unmarked' \subseteq Jobs
    BY <1>2 DEF TypeOK
  <2>2. begun' \in 0..Len(accepted') /\ ended' \in 0..begun' /\ begun' <= ended' + 1
    BY <1>1, <1>2, <1>3
  <2>3. \A v \in Jobs \cup {First} : outcome[v] \notin Deploy!Active
    BY <1>1 DEF TypeOK
  <2> QED
    BY <1>1, <1>2, <1>4, <2>1, <2>2, <2>3 DEF TypeOK, Store!Terminal
<1>6. Buffer'
  BY <1>1, <1>2 DEF Buffer, Untouched
<1>7. InHand'
  BY <1>1, <1>2, <1>4 DEF Buffer, InHand, Untouched
<1>8. RunningRowIsInHand'
  BY <1>2, <1>3 DEF RunningRowIsInHand, Up
<1>9. /\ Accepted' /\ NotHandedOver' /\ Returned' /\ Contract'
      /\ RowFollowsItsDeploy' /\ ToldAgreesWithRow'
  BY <1>2, AcceptedStays, NotHandedOverStays, ReturnedStays, ContractStays,
     RowFollowsItsDeployStays, ToldAgreesWithRowStays DEF storeVars
<1> QED
  BY <1>5, <1>6, <1>7, <1>8, <1>9

\* What holds before each step inside a job.
LEMMA InsideJob ==
  ASSUME IInv, step # "idle"
  PROVE  /\ Running /\ CurrentJob \in Jobs
         /\ (UNCHANGED <<accepted, begun, ended>>) => Running' /\ CurrentJob' = CurrentJob
<1>1. Running
  BY DEF IInv, TypeOK
<1> QED
  BY <1>1, InHandIsAccepted DEF IInv, Running, CurrentJob

LEMMA MarkRunningKeepsIInv ==
  ASSUME IInv, MarkRunning
  PROVE  IInv'
<1> USE DEF IInv
<1>1. /\ step = "mark" /\ step' = "discover"
      /\ \/ status' = [status EXCEPT ![CurrentJob] = "running"]
            /\ errorCol' = [errorCol EXCEPT ![CurrentJob] = "none"]
            /\ lost' = lost
         \/ status' = status /\ errorCol' = errorCol /\ lost' = lost \cup {CurrentJob}
  BY DEF MarkRunning, At, Advance, Store!UpdateStatus, Written, WriteLost, storeVars
<1>2. UNCHANGED <<open, accepted, begun, ended, discovered, unmarked, handler, verdict,
                  serving, outcome, notified, phase, cancelled, boots>>
  BY DEF MarkRunning, Advance, Store!UpdateStatus, Written, WriteLost, storeVars,
         queueVars, deployVars, processVars
<1>3. Running /\ CurrentJob \in Jobs /\ Running' /\ CurrentJob' = CurrentJob
  BY <1>1, <1>2, InsideJob
<1>4. lost \subseteq lost'
  BY <1>1
<1>5. TypeOK'
  BY <1>1, <1>2, <1>3 DEF TypeOK, Store!Statuses
<1>6. /\ status[CurrentJob] = "queued" /\ errorCol[CurrentJob] = "none"
      /\ outcome[CurrentJob] = "none" /\ notified[CurrentJob] = "none"
      /\ verdict = "success"
  BY <1>1, <1>3 DEF InHand
<1>7. NotHandedOver' /\ Buffer' /\ Returned'
  <2>1. OnlyAbout(CurrentJob)
    BY <1>1, <1>2 DEF OnlyAbout, TypeOK
  <2> QED
    BY <1>2, <1>3, <1>4, <2>1, WorkerLeavesOthers DEF queueVars
<1>8. InHand'
  BY <1>1, <1>2, <1>3 DEF InHand, TypeOK
<1>9. RunningRowIsInHand'
  <2>1. \A k \in Jobs \ {CurrentJob} : status'[k] = status[k]
    BY <1>1 DEF TypeOK
  <2>2. step' \notin {"mark", "notify"}
    BY <1>1
  <2>3. ASSUME NEW k \in Jobs, Up', status'[k] = "running", k # CurrentJob
        PROVE  k \in lost \cap Range(accepted) \/ k \in unmarked
    <3>1. Up /\ status[k] = "running"
      BY <1>2, <2>1, <2>3 DEF Up
    <3> QED
      BY <2>3, <3>1 DEF RunningRowIsInHand
  <2>4. accepted' = accepted /\ unmarked' = unmarked
    BY <1>2
  <2> QED
    BY <1>3, <1>4, <2>2, <2>3, <2>4 DEF RunningRowIsInHand
<1>10. RowFollowsItsDeploy'
  BY <1>1, <1>2 DEF RowFollowsItsDeploy, TypeOK
<1>11. ToldAgreesWithRow'
  <2>1. UNCHANGED <<handler, notified>> /\ notified[CurrentJob] = "none"
    BY <1>2, <1>6
  <2>2. \A k \in Jobs \ {CurrentJob} : status'[k] = status[k] /\ errorCol'[k] = errorCol[k]
    BY <1>1 DEF TypeOK
  <2>3. ASSUME NEW k \in Jobs, k # CurrentJob
        PROVE  /\ handler'[k] = "200 success" => status'[k] = "success"
               /\ handler'[k] = "500 failed" => status'[k] = "failed"
               /\ notified'[k] # "none" =>
                    \/ notified'[k] = status'[k]
                    \/ /\ k \in lost'
                       /\ status'[k] \in {"queued", "running"} \/ errorCol'[k] = "interrupted"
    BY <1>4, <2>1, <2>2, <2>3 DEF ToldAgreesWithRow
  <2>4. handler[CurrentJob] \notin {"200 success", "500 failed"}
    BY <1>3, <1>6 DEF ToldAgreesWithRow
  <2> QED
    BY <2>1, <2>3, <2>4 DEF ToldAgreesWithRow
<1>12. Accepted' /\ Contract'
  BY <1>2, AcceptedStays, ContractStays
<1> QED
  BY <1>5, <1>7, <1>8, <1>9, <1>10, <1>11, <1>12

LEMMA RunDiscoverKeepsIInv ==
  ASSUME IInv, RunDiscover
  PROVE  IInv'
<1> USE DEF IInv
<1>1. /\ step = "discover"
      /\ \/ step' = "finish" /\ verdict' = "failed" /\ UNCHANGED <<discovered, lost>>
         \/ /\ step' = "validate" /\ verdict' = verdict
            /\ \/ discovered' = [discovered EXCEPT ![CurrentJob] = TRUE] /\ UNCHANGED lost
               \/ discovered' = discovered /\ lost' = lost \cup {CurrentJob}
  BY DEF RunDiscover, At, Fail, Advance, Store!UpdateDiscovery, Written, WriteLost,
         tableVars, storeVars
<1>2. UNCHANGED <<open, accepted, begun, ended, status, errorCol, unmarked, handler,
                  serving, outcome, notified, phase, cancelled, boots>>
  BY DEF RunDiscover, Store!UpdateDiscovery, Written, WriteLost, tableVars, storeVars,
         queueVars, deployVars, processVars
<1>3. Running /\ CurrentJob \in Jobs /\ Running' /\ CurrentJob' = CurrentJob
  BY <1>1, <1>2, InsideJob
<1>4. lost \subseteq lost' /\ \A k \in Jobs : discovered[k] => discovered'[k]
  BY <1>1 DEF TypeOK
<1>5. TypeOK'
  <2>1. /\ open' \in BOOLEAN /\ cancelled' \in BOOLEAN /\ lost' \subseteq Jobs /\ unmarked' \subseteq Jobs
        /\ discovered' \in [Jobs -> BOOLEAN]
    BY <1>1, <1>2, <1>3 DEF TypeOK
  <2>2. step' \in {"finish", "validate"} /\ verdict' \in Store!Terminal
    BY <1>1 DEF TypeOK, Store!Terminal
  <2>3. \A v \in Jobs \cup {First} : outcome[v] \notin Deploy!Active
    BY <1>1 DEF TypeOK
  <2> QED
    BY <1>2, <1>3, <2>1, <2>2, <2>3 DEF TypeOK
<1>6. InHand'
  BY <1>1, <1>2, <1>3 DEF InHand, TypeOK
<1>7. RunningRowIsInHand'
  BY <1>1, <1>2, <1>3 DEF RunningRowIsInHand, Up
<1>8. RowFollowsItsDeploy'
  BY <1>2, <1>4 DEF RowFollowsItsDeploy
<1>9. ToldAgreesWithRow'
  BY <1>2, <1>4 DEF ToldAgreesWithRow
<1>10. Returned'
  BY <1>2, <1>4 DEF Returned
<1>11. Accepted' /\ NotHandedOver' /\ Buffer' /\ Contract'
  BY <1>2, AcceptedStays, NotHandedOverStays, BufferStays, ContractStays
<1> QED
  BY <1>5, <1>6, <1>7, <1>8, <1>9, <1>10, <1>11

\* A step of the worker that moves its position and no more.
LEMMA PositionKeepsIInv ==
  ASSUME IInv, RunValidate \/ RunPrune
  PROVE  IInv'
<1> USE DEF IInv
<1>1. \/ step = "validate" /\ step' = "finish" /\ verdict' = "failed"
      \/ step = "validate" /\ step' = "pull" /\ verdict' = verdict
      \/ step = "prune" /\ step' = "finish" /\ verdict' = verdict
  BY DEF RunValidate, RunPrune, At, Fail, Advance
<1>2. UNCHANGED <<open, accepted, begun, ended, status, errorCol, discovered, lost, unmarked, handler,
                  serving, outcome, notified, phase, cancelled, boots>>
  BY DEF RunValidate, RunPrune, tableVars, storeVars, queueVars, deployVars, processVars
<1>3. Running /\ CurrentJob \in Jobs /\ Running' /\ CurrentJob' = CurrentJob
  BY <1>1, <1>2, InsideJob
<1>4. TypeOK'
  <2>1. step' \in {"finish", "pull"} /\ verdict' \in Store!Terminal
    BY <1>1 DEF TypeOK, Store!Terminal
  <2>2. \A v \in Jobs \cup {First} : outcome[v] \notin Deploy!Active
    BY <1>1 DEF TypeOK
  <2> QED
    BY <1>2, <1>3, <2>1, <2>2 DEF TypeOK
<1>5. InHand'
  BY <1>1, <1>2, <1>3 DEF InHand
<1>6. RunningRowIsInHand'
  BY <1>1, <1>2, <1>3 DEF RunningRowIsInHand, Up
<1>7. /\ Accepted' /\ NotHandedOver' /\ Buffer' /\ Returned' /\ Contract'
      /\ RowFollowsItsDeploy' /\ ToldAgreesWithRow'
  BY <1>2, AcceptedStays, NotHandedOverStays, BufferStays, ReturnedStays, ContractStays,
     RowFollowsItsDeployStays, ToldAgreesWithRowStays DEF storeVars
<1> QED
  BY <1>4, <1>5, <1>6, <1>7

-----------------------------------------------------------------------------
\* The worker's deploy, and the containers

\* The deploy of the job in hand goes on to o; no other deploy is touched, and
\* no row.
LEMMA DeployMoves ==
  ASSUME IInv, Running, NEW o \in Deploy!Outcomes \ {"none"},
         outcome' = [outcome EXCEPT ![CurrentJob] = o],
         UNCHANGED <<open, accepted, begun, ended, status, errorCol, discovered, lost, unmarked, handler,
                     notified, phase, cancelled, boots>>,
         status[CurrentJob] \in {"queued", "running"}, errorCol[CurrentJob] = "none"
  PROVE  /\ Accepted' /\ NotHandedOver' /\ Buffer' /\ Returned'
         /\ RowFollowsItsDeploy' /\ ToldAgreesWithRow'
<1> USE DEF IInv
<1>1. NotHandedOver' /\ Buffer' /\ Returned'
  <2>1. OnlyAbout(CurrentJob)
    BY DEF OnlyAbout
  <2> QED
    BY <2>1, WorkerLeavesOthers DEF queueVars
<1>2. RowFollowsItsDeploy'
  BY DEF RowFollowsItsDeploy
<1>3. Accepted' /\ ToldAgreesWithRow'
  BY AcceptedStays, ToldAgreesWithRowStays
<1> QED
  BY <1>1, <1>2, <1>3

LEMMA RunPullKeepsIInv ==
  ASSUME IInv, RunPull
  PROVE  IInv'
<1> USE DEF IInv
<1>1. /\ step = "pull"
      /\ \/ /\ step' = "finish" /\ verdict' = "failed" /\ outcome' = outcome
         \/ /\ step' = "rollout" /\ verdict' = verdict
            /\ outcome' = [outcome EXCEPT ![CurrentJob] = "preparing"]
  BY DEF RunPull, At, Fail, Advance, Deploy!BeginDeploy, Deploy!Becomes, deployVars
<1>2. UNCHANGED <<open, accepted, begun, ended, status, errorCol, discovered, lost, unmarked, handler,
                  serving, notified, phase, cancelled, boots>>
  BY DEF RunPull, Deploy!BeginDeploy, tableVars, storeVars, queueVars, deployVars, processVars
<1>3. Running /\ CurrentJob \in Jobs /\ Running' /\ CurrentJob' = CurrentJob
  BY <1>1, <1>2, InsideJob
<1>4. /\ status[CurrentJob] \in {"queued", "running"} /\ errorCol[CurrentJob] = "none"
      /\ outcome[CurrentJob] = "none"
  BY <1>1, <1>3 DEF InHand
<1>5. TypeOK'
  <2>1. /\ outcome' \in [Jobs \cup {First} -> Deploy!Outcomes]
        /\ \A v \in Jobs \cup {First} :
             outcome'[v] \in Deploy!Active <=> step' = "rollout" /\ v = CurrentJob
    BY <1>1 DEF TypeOK, Deploy!Outcomes, Deploy!Active
  <2>2. step' \in {"finish", "rollout"} /\ verdict' \in Store!Terminal
    BY <1>1 DEF TypeOK, Store!Terminal
  <2> QED
    BY <1>2, <1>3, <2>1, <2>2 DEF TypeOK
<1>6. InHand'
  BY <1>1, <1>2, <1>3 DEF InHand
<1>7. RunningRowIsInHand'
  BY <1>1, <1>2, <1>3 DEF RunningRowIsInHand, Up
<1>8. Contract'
  BY <1>1, <1>2, <1>4 DEF Contract, TypeOK
<1>9. /\ Accepted' /\ NotHandedOver' /\ Buffer' /\ Returned'
      /\ RowFollowsItsDeploy' /\ ToldAgreesWithRow'
  <2>1. CASE outcome' = outcome
    BY <1>2, <2>1, AcceptedStays, NotHandedOverStays, BufferStays, ReturnedStays,
       RowFollowsItsDeployStays, ToldAgreesWithRowStays DEF storeVars
  <2>2. CASE outcome' = [outcome EXCEPT ![CurrentJob] = "preparing"]
    BY <1>2, <1>3, <1>4, <2>2, DeployMoves DEF Deploy!Outcomes, Deploy!Active
  <2> QED
    BY <1>1, <2>1, <2>2
<1> QED
  BY <1>5, <1>6, <1>7, <1>8, <1>9

LEMMA RolloutStepKeepsIInv ==
  ASSUME IInv, RolloutStep
  PROVE  IInv'
<1> USE DEF IInv
<1>1. /\ step = "rollout"
      /\ \/ /\ outcome[CurrentJob] = "preparing" /\ serving' = serving \ {CurrentJob}
            /\ outcome' = outcome
         \/ /\ outcome[CurrentJob] = "preparing" /\ CurrentJob \in serving
            /\ outcome' = [outcome EXCEPT ![CurrentJob] = "committed"] /\ serving' = serving
         \/ /\ outcome[CurrentJob] = "committed" /\ outcome' = outcome
            /\ \E others \in SUBSET serving :
                 CurrentJob \in serving \ others /\ serving' = serving \ others
  BY DEF RolloutStep, At, Deploy!Withdraw, Deploy!Commit, Deploy!Retire, Deploy!Becomes
<1>2. UNCHANGED <<open, accepted, begun, ended, status, errorCol, discovered, lost, unmarked, handler,
                  step, verdict, notified, phase, cancelled, boots>>
  BY DEF RolloutStep, tableVars, storeVars, queueVars, processVars
<1>3. Running /\ CurrentJob \in Jobs /\ Running' /\ CurrentJob' = CurrentJob
  BY <1>1, <1>2, InsideJob
<1>4. /\ status[CurrentJob] \in {"queued", "running"} /\ errorCol[CurrentJob] = "none"
  BY <1>1, <1>3 DEF InHand
<1>5. TypeOK'
  <2>1. /\ serving' \subseteq Jobs \cup {First}
        /\ outcome' \in [Jobs \cup {First} -> Deploy!Outcomes]
        /\ \A v \in Jobs \cup {First} :
             outcome'[v] \in Deploy!Active <=> step = "rollout" /\ v = CurrentJob
    BY <1>1 DEF TypeOK, Deploy!Outcomes, Deploy!Active
  <2> QED
    BY <1>2, <1>3, <2>1 DEF TypeOK
<1>6. InHand'
  BY <1>1, <1>2, <1>3 DEF InHand
<1>7. RunningRowIsInHand'
  BY <1>2, <1>3 DEF RunningRowIsInHand, Up
<1>8. Contract'
  <2>1. \A v \in Jobs \ {CurrentJob} : outcome[v] # "committed"
    BY DEF TypeOK, Deploy!Active
  <2>2. /\ \A v \in (Jobs \cup {First}) \ {CurrentJob} : outcome'[v] = outcome[v]
        /\ outcome'[CurrentJob] \in {"preparing", "committed"}
        /\ outcome'[CurrentJob] = "committed" => CurrentJob \in serving'
        /\ outcome[CurrentJob] \in {"preparing", "committed"}
        /\ outcome[CurrentJob] = "committed" => outcome'[CurrentJob] = "committed"
    BY <1>1 DEF TypeOK
  <2>3. outcome'[First] = "success" /\ \A j \in Jobs : outcome'[j] = "committed" => j \in serving'
    BY <2>1, <2>2 DEF Contract
  <2>4. ASSUME NEW j \in Jobs, outcome'[j] = "success"
        PROVE  j \in serving' \/ \E k \in Jobs \ {j} : outcome'[k] \in {"committed", "success", "cut"}
    <3>1. j # CurrentJob /\ outcome[j] = "success"
      BY <2>2, <2>4
    <3>2. CASE j \in serving
      BY <1>1, <1>3, <3>1, <3>2
    <3>3. CASE j \notin serving
      BY <2>2, <3>1, <3>3 DEF Contract
    <3> QED
      BY <3>2, <3>3
  <2> QED
    BY <2>3, <2>4 DEF Contract
<1>9. /\ Accepted' /\ NotHandedOver' /\ Buffer' /\ Returned'
      /\ RowFollowsItsDeploy' /\ ToldAgreesWithRow'
  <2>1. CASE outcome' = outcome
    BY <1>2, <2>1, AcceptedStays, NotHandedOverStays, BufferStays, ReturnedStays,
       RowFollowsItsDeployStays, ToldAgreesWithRowStays DEF storeVars
  <2>2. CASE outcome' = [outcome EXCEPT ![CurrentJob] = "committed"]
    BY <1>2, <1>3, <1>4, <2>2, DeployMoves DEF Deploy!Outcomes, Deploy!Active
  <2> QED
    BY <1>1, <2>1, <2>2
<1> QED
  BY <1>5, <1>6, <1>7, <1>8, <1>9

LEMMA ContainerServesKeepsIInv ==
  ASSUME IInv, ContainerServes
  PROVE  IInv'
<1> USE DEF IInv
<1>1. PICK v \in Jobs \cup {First} : serving' = serving \cup {v}
  BY DEF ContainerServes, Deploy!EnterService
<1>2. UNCHANGED <<open, accepted, begun, ended, status, errorCol, discovered, lost, unmarked, handler,
                  step, verdict, outcome, notified, phase, cancelled, boots>>
  BY DEF ContainerServes, Deploy!EnterService, tableVars, storeVars, queueVars, processVars
<1>3. TypeOK'
  <2>1. (Running' <=> Running) /\ CurrentJob' = CurrentJob
    BY <1>2 DEF Running, CurrentJob
  <2> QED
    BY <1>1, <1>2, <2>1 DEF TypeOK
<1>4. Contract'
  BY <1>1, <1>2 DEF Contract
<1>5. /\ Accepted' /\ NotHandedOver' /\ Buffer' /\ InHand' /\ Returned'
      /\ RunningRowIsInHand' /\ RowFollowsItsDeploy' /\ ToldAgreesWithRow'
  BY <1>2, AcceptedStays, NotHandedOverStays, BufferStays, InHandStays, ReturnedStays,
     RunningRowIsInHandStays, RowFollowsItsDeployStays, ToldAgreesWithRowStays DEF Up, storeVars
<1> QED
  BY <1>3, <1>4, <1>5

LEMMA RunRolloutKeepsIInv ==
  ASSUME IInv, RunRollout
  PROVE  IInv'
<1> USE DEF IInv
<1>1. PICK o \in {"failed", "success"} :
        /\ step = "rollout"
        /\ outcome' = [outcome EXCEPT ![CurrentJob] = o]
        /\ o = "failed" => /\ step' = "finish" /\ verdict' = "failed"
                           /\ outcome[CurrentJob] = "preparing"
        /\ o = "success" => /\ step' = "prune" /\ verdict' = verdict
                            /\ outcome[CurrentJob] = "committed"
  BY DEF RunRollout, At, Fail, Advance, Deploy!Abort, Deploy!Succeed, Deploy!Becomes
<1>2. UNCHANGED <<open, accepted, begun, ended, status, errorCol, discovered, lost, unmarked, handler,
                  serving, notified, phase, cancelled, boots>>
  BY DEF RunRollout, Deploy!Abort, Deploy!Succeed, tableVars, storeVars, queueVars, processVars
<1>3. Running /\ CurrentJob \in Jobs /\ Running' /\ CurrentJob' = CurrentJob
  BY <1>1, <1>2, InsideJob
<1>4. status[CurrentJob] \in {"queued", "running"} /\ errorCol[CurrentJob] = "none"
  BY <1>1, <1>3 DEF InHand
<1>5. TypeOK'
  <2>1. /\ outcome' \in [Jobs \cup {First} -> Deploy!Outcomes]
        /\ \A v \in Jobs \cup {First} : outcome'[v] \notin Deploy!Active
    BY <1>1 DEF TypeOK, Deploy!Outcomes, Deploy!Active
  <2>2. step' \in {"finish", "prune"} /\ verdict' \in Store!Terminal
    BY <1>1 DEF TypeOK, Store!Terminal
  <2> QED
    BY <1>2, <1>3, <2>1, <2>2 DEF TypeOK
<1>6. InHand'
  BY <1>1, <1>2, <1>3 DEF InHand, TypeOK
<1>7. RunningRowIsInHand'
  BY <1>1, <1>2, <1>3 DEF RunningRowIsInHand, Up
<1>8. Contract'
  <2>1. /\ \A v \in (Jobs \cup {First}) \ {CurrentJob} : outcome'[v] = outcome[v]
        /\ outcome'[CurrentJob] = o
        /\ outcome[CurrentJob] = "committed" => o = "success"
        /\ outcome[CurrentJob] \in {"preparing", "committed"}
        /\ o = "success" => outcome[CurrentJob] = "committed"
    BY <1>1, <1>3 DEF TypeOK
  <2> QED
    BY <1>2, <2>1 DEF Contract
<1>9. /\ Accepted' /\ NotHandedOver' /\ Buffer' /\ Returned'
      /\ RowFollowsItsDeploy' /\ ToldAgreesWithRow'
  BY <1>1, <1>2, <1>3, <1>4, DeployMoves DEF Deploy!Outcomes
<1> QED
  BY <1>5, <1>6, <1>7, <1>8, <1>9

LEMMA RunFinishKeepsIInv ==
  ASSUME IInv, RunFinish
  PROVE  IInv'
<1> USE DEF IInv
<1>1. /\ step = "finish" /\ step' = "notify"
      /\ \/ /\ status' = [status EXCEPT ![CurrentJob] = verdict]
            /\ errorCol' = [errorCol EXCEPT ![CurrentJob] =
                              IF verdict = "failed" THEN "deploy" ELSE "none"]
            /\ lost' = lost
         \/ status' = status /\ errorCol' = errorCol /\ lost' = lost \cup {CurrentJob}
  BY DEF RunFinish, At, Advance, Store!UpdateStatus, Written, WriteLost, storeVars
<1>2. UNCHANGED <<open, accepted, begun, ended, discovered, unmarked, handler, verdict,
                  serving, outcome, notified, phase, cancelled, boots>>
  BY DEF RunFinish, Advance, Store!UpdateStatus, Written, WriteLost, storeVars,
         queueVars, deployVars, processVars
<1>3. Running /\ CurrentJob \in Jobs /\ Running' /\ CurrentJob' = CurrentJob
  BY <1>1, <1>2, InsideJob
<1>4. lost \subseteq lost' /\ verdict \in {"success", "failed"}
  BY <1>1 DEF TypeOK, Store!Terminal
<1>5. TypeOK'
  <2>1. /\ status' \in [Jobs -> Store!Statuses]
        /\ errorCol' \in [Jobs -> {"none", "deploy", "interrupted"}]
    BY <1>1 DEF TypeOK, Store!Statuses
  <2> QED
    BY <1>1, <1>2, <1>3, <2>1 DEF TypeOK
<1>6. /\ status[CurrentJob] = "running" \/ (CurrentJob \in lost /\ status[CurrentJob] = "queued")
      /\ errorCol[CurrentJob] = "none" /\ notified[CurrentJob] = "none"
      /\ verdict = "success" => /\ outcome[CurrentJob] = "success"
                                /\ discovered[CurrentJob] \/ CurrentJob \in lost
      /\ verdict # "success" => outcome[CurrentJob] \in {"none", "failed"}
  BY <1>1, <1>3 DEF InHand
<1>7. NotHandedOver' /\ Buffer' /\ Returned'
  <2>1. OnlyAbout(CurrentJob)
    BY <1>1, <1>2 DEF OnlyAbout, TypeOK
  <2> QED
    BY <1>2, <1>3, <1>4, <2>1, WorkerLeavesOthers DEF queueVars
<1>8. InHand'
  BY <1>1, <1>2, <1>3 DEF InHand, TypeOK
<1>9. RunningRowIsInHand'
  <2>1. CurrentJob \in Range(accepted')
    BY <1>2, <1>3, InHandIsAccepted
  <2>2. status'[CurrentJob] = "running" => CurrentJob \in lost'
    BY <1>1, <1>3, <1>4 DEF TypeOK
  <2>3. \A k \in Jobs \ {CurrentJob} : status'[k] = status[k]
    BY <1>1 DEF TypeOK
  <2> QED
    BY <1>2, <1>3, <1>4, <2>1, <2>2, <2>3 DEF RunningRowIsInHand, Up
<1>10. RowFollowsItsDeploy'
  BY <1>1, <1>2, <1>6 DEF RowFollowsItsDeploy, TypeOK
<1>11. ToldAgreesWithRow'
  <2>1. /\ status[CurrentJob] \notin {"success", "failed"} /\ notified[CurrentJob] = "none"
        /\ \A k \in Jobs \ {CurrentJob} : status'[k] = status[k] /\ errorCol'[k] = errorCol[k]
    BY <1>1, <1>6 DEF TypeOK
  <2> QED
    BY <1>2, <1>3, <1>4, <2>1 DEF ToldAgreesWithRow
<1>12. Accepted' /\ Contract'
  BY <1>2, AcceptedStays, ContractStays
<1> QED
  BY <1>5, <1>7, <1>8, <1>9, <1>10, <1>11, <1>12

LEMMA RunNotifyKeepsIInv ==
  ASSUME IInv, RunNotify
  PROVE  IInv'
<1> USE DEF IInv
<1>1. /\ step = "notify" /\ step' = "idle"
      /\ notified' = [notified EXCEPT ![CurrentJob] = verdict]
      /\ ended' = ended + 1
  BY DEF RunNotify, At, Advance, Notify, End
<1>2. UNCHANGED <<open, accepted, begun, status, errorCol, discovered, lost, unmarked, handler, verdict,
                  serving, outcome, phase, cancelled, boots>>
  BY DEF RunNotify, Advance, End, tableVars, storeVars, deployVars, processVars
<1>3. /\ Running /\ CurrentJob \in Jobs /\ CurrentJob = accepted[begun]
      /\ begun = ended + 1 /\ begun \in 1..Len(accepted)
      /\ Len(accepted) \in Nat /\ begun \in Nat /\ ended \in Nat
  BY <1>1, InHandIsAccepted DEF TypeOK
<1>4. ~Running'
  BY <1>1, <1>2, <1>3 DEF Running
<1>5. /\ verdict \in {"success", "failed"}
      /\ status[CurrentJob] = verdict \/ (CurrentJob \in lost /\ status[CurrentJob] \in {"queued", "running"})
  BY <1>1 DEF InHand, TypeOK, Store!Terminal
<1>6. TypeOK'
  <2>1. begun' \in 0..Len(accepted') /\ ended' \in 0..begun' /\ begun' <= ended' + 1
    BY <1>1, <1>2, <1>3
  <2> QED
    BY <1>1, <1>2, <1>4, <2>1 DEF TypeOK
<1>7. Accepted'
  <2>1. phase \in {"stopping", "exiting"} /\ ~cancelled => ended = Len(accepted)
    BY DEF Accepted
  <2>2. phase \in {"stopping", "exiting"} => cancelled
    BY <1>3, <2>1
  <2> QED
    BY <1>2, <2>2 DEF Accepted
<1>8. NotHandedOver'
  <2> SUFFICES ASSUME NEW j \in Jobs PROVE RequestAndRow(j)'
    BY DEF NotHandedOver
  <2>1. CASE j = CurrentJob
    BY <1>2, <1>3, <2>1, InHandIsElsewhere DEF RequestAndRow
  <2>2. CASE j # CurrentJob
    BY <1>1, <1>2, <2>2 DEF NotHandedOver, RequestAndRow, Untouched, Unaccepted
  <2> QED
    BY <2>1, <2>2
<1>9. Buffer'
  <2>1. \A i \in (begun + 1)..Len(accepted) : accepted[i] # CurrentJob /\ accepted[i] \in Jobs
    BY <1>3, InHandIsElsewhere DEF TypeOK
  <2> QED
    BY <1>1, <1>2, <2>1 DEF Buffer, Untouched
<1>10. InHand'
  BY <1>4 DEF InHand
<1>11. Returned'
  BY <1>1, <1>2, <1>3, <1>5 DEF Returned, Store!Terminal
<1>12. RunningRowIsInHand'
  BY <1>1, <1>2 DEF RunningRowIsInHand, Up
<1>13. ToldAgreesWithRow'
  BY <1>1, <1>2, <1>5 DEF ToldAgreesWithRow, TypeOK
<1>14. Contract' /\ RowFollowsItsDeploy'
  BY <1>2, ContractStays, RowFollowsItsDeployStays DEF storeVars
<1> QED
  BY <1>6, <1>7, <1>8, <1>9, <1>10, <1>11, <1>12, <1>13, <1>14

-----------------------------------------------------------------------------
\* The process

\* main and its shutdown goroutine go from one phase to another of a process
\* that is up; nothing else changes but the queue's flag and the job context.
LEMMA PhaseKeepsIInv ==
  ASSUME IInv, Up, Accepted',
         phase' \in {"serving", "grace", "draining", "stopping", "exiting"},
         open' \in BOOLEAN, cancelled' \in BOOLEAN,
         UNCHANGED <<accepted, begun, ended, tableVars, handler, workerVars, boots>>
  PROVE  IInv'
<1> USE DEF IInv
<1>1. UNCHANGED <<accepted, begun, ended, status, errorCol, discovered, lost, unmarked, handler,
                  step, verdict, serving, outcome, notified, boots>>
  BY DEF tableVars, storeVars, workerVars, deployVars
<1>2. TypeOK'
  <2>1. (Running' <=> Running) /\ CurrentJob' = CurrentJob
    BY DEF Running, CurrentJob
  <2> QED
    BY <1>1, <2>1 DEF TypeOK
<1>3. RunningRowIsInHand'
  BY <1>1, RunningRowIsInHandStays
<1>4. /\ NotHandedOver' /\ Buffer' /\ InHand' /\ Returned' /\ Contract'
      /\ RowFollowsItsDeploy' /\ ToldAgreesWithRow'
  BY <1>1, NotHandedOverStays, BufferStays, InHandStays, ReturnedStays, ContractStays,
     RowFollowsItsDeployStays, ToldAgreesWithRowStays DEF storeVars
<1> QED
  BY <1>2, <1>3, <1>4

LEMMA ShutdownKeepsIInv ==
  ASSUME IInv, Sigterm \/ DrainStart \/ DrainDone \/ DrainTimeout \/ StopRegistry
  PROVE  IInv'
<1>1. UNCHANGED <<accepted, begun, ended, tableVars, handler, workerVars, boots>>
  BY DEF Sigterm, DrainStart, DrainDone, DrainTimeout, StopRegistry, Enter, Close, queueVars
<1>2. Up /\ phase' \in {"serving", "grace", "draining", "stopping", "exiting"}
  BY DEF Sigterm, DrainStart, DrainDone, DrainTimeout, StopRegistry, Enter, Up
<1>3. open' \in BOOLEAN /\ cancelled' \in BOOLEAN
  BY DEF Sigterm, DrainStart, DrainDone, DrainTimeout, StopRegistry, Enter, Close, queueVars,
         IInv, TypeOK
<1>4. Accepted'
  <2> USE DEF IInv
  <2>1. CASE Sigterm
    BY <2>1 DEF Sigterm, Enter, queueVars, Accepted
  <2>2. CASE DrainStart
    BY <2>2 DEF DrainStart, Enter, Close, Accepted
  <2>3. CASE DrainDone
    BY <2>3 DEF DrainDone, Drained, Enter, queueVars, Accepted
  <2>4. CASE DrainTimeout
    BY <2>4 DEF DrainTimeout, queueVars, Accepted
  <2>5. CASE StopRegistry
    BY <2>5 DEF StopRegistry, Enter, queueVars, Accepted
  <2> QED
    BY <2>1, <2>2, <2>3, <2>4, <2>5
<1> QED
  BY <1>1, <1>2, <1>3, <1>4, PhaseKeepsIInv

\* The process goes, and leaves the table, the service and what was told.
LEMMA LoseMemoryKeepsIInv ==
  ASSUME IInv, LoseMemory
  PROVE  IInv'
<1> USE DEF IInv
<1>1. /\ phase' = "down" /\ cancelled' = FALSE /\ open' = TRUE
      /\ accepted' = <<>> /\ begun' = 0 /\ ended' = 0
      /\ step' = "idle" /\ verdict' = "success"
  BY DEF LoseMemory
<1>2. handler' = [j \in Jobs |-> IF handler[j] \in {"insert", "enqueue", "polling"}
                              THEN "connection lost" ELSE handler[j]]
  BY DEF LoseMemory
<1>3. UNCHANGED <<status, errorCol, discovered, lost, unmarked, notified, serving, boots>>
  BY DEF LoseMemory, Deploy!CutOff, tableVars, storeVars, deployVars
<1>4. \/ step # "rollout" /\ outcome' = outcome
      \/ step = "rollout" /\ outcome' = [outcome EXCEPT ![CurrentJob] = "cut"]
  BY DEF LoseMemory, Deploy!CutOff, Deploy!Becomes, deployVars
<1>5. accepted' \in Seq(Jobs) /\ Len(accepted') = 0
  BY <1>1
<1>6. ~Running'
  BY <1>1 DEF Running
<1>7. step = "rollout" =>
        /\ Running /\ CurrentJob \in Jobs
        /\ status[CurrentJob] \in {"queued", "running"} /\ errorCol[CurrentJob] = "none"
        /\ outcome[CurrentJob] \in Deploy!Active
        /\ handler[CurrentJob] \notin {"idle", "insert", "enqueue"} \cup Refused
  <2> HAVE step = "rollout"
  <2>1. Running
    BY DEF TypeOK
  <2>2. CurrentJob \in Jobs
    BY <2>1, InHandIsAccepted
  <2>3. status[CurrentJob] \in {"queued", "running"} /\ errorCol[CurrentJob] = "none"
    BY <2>1 DEF InHand
  <2>4. outcome[CurrentJob] \in Deploy!Active
    BY <2>2 DEF TypeOK
  <2>5. handler[CurrentJob] \notin {"idle", "insert", "enqueue"} \cup Refused
    BY <2>1, InHandIsElsewhere
  <2> QED
    BY <2>1, <2>2, <2>3, <2>4, <2>5
<1>8. TypeOK'
  <2>1. open' \in BOOLEAN /\ cancelled' \in BOOLEAN /\ lost' \subseteq Jobs /\ unmarked' \subseteq Jobs
    BY <1>1, <1>3 DEF TypeOK
  <2>2. handler' \in [Jobs -> {"idle", "insert", "enqueue", "polling"} \cup Answers]
    BY <1>2 DEF TypeOK, Answers
  <2>3. /\ outcome' \in [Jobs \cup {First} -> Deploy!Outcomes]
        /\ \A v \in Jobs \cup {First} : outcome'[v] \notin Deploy!Active
    BY <1>4 DEF TypeOK, Deploy!Outcomes, Deploy!Active
  <2>4. /\ begun' \in 0..Len(accepted') /\ ended' \in 0..begun' /\ begun' <= ended' + 1
    BY <1>1
  <2>5. verdict' \in Store!Terminal /\ phase' = "down" /\ step' = "idle"
    BY <1>1 DEF Store!Terminal
  <2> QED
    BY <1>3, <1>5, <1>6, <2>1, <2>2, <2>3, <2>4, <2>5 DEF TypeOK
<1>9. Accepted'
  BY <1>1 DEF Accepted
<1>10. NotHandedOver'
  <2> SUFFICES ASSUME NEW j \in Jobs PROVE RequestAndRow(j)'
    BY DEF NotHandedOver
  <2>1. handler'[j] \notin {"insert", "enqueue", "polling"}
    BY <1>2
  <2>2. handler'[j] \in {"idle"} \cup Refused => handler[j] = handler'[j] /\ outcome'[j] = outcome[j]
    BY <1>2, <1>4, <1>7 DEF TypeOK, Refused
  <2>3. Unaccepted(j)'
    BY <1>5 DEF Unaccepted
  <2> QED
    BY <1>3, <2>1, <2>2, <2>3 DEF NotHandedOver, RequestAndRow, Untouched
<1>11. Buffer' /\ Returned' /\ InHand'
  BY <1>1, <1>6 DEF Buffer, Returned, InHand
<1>12. Contract'
  BY <1>3, <1>4 DEF Contract, TypeOK, Deploy!Active
<1>13. RunningRowIsInHand'
  BY <1>1 DEF RunningRowIsInHand, Up
<1>14. RowFollowsItsDeploy'
  BY <1>3, <1>4, <1>7 DEF RowFollowsItsDeploy, TypeOK
<1>15. ToldAgreesWithRow'
  BY <1>2, <1>3 DEF ToldAgreesWithRow
<1> QED
  BY <1>8, <1>9, <1>10, <1>11, <1>12, <1>13, <1>14, <1>15

\* A new process finds nobody's job running once it has marked the rows.
LEMMA BootKeepsIInv ==
  ASSUME IInv, Boot
  PROVE  IInv'
<1> USE DEF IInv
<1>1. /\ phase = "down" /\ phase' = "serving" /\ boots' = boots + 1 /\ boots < MaxBoots
      /\ \/ /\ status' = [j \in Jobs |-> IF status[j] = "running" THEN "failed" ELSE status[j]]
            /\ errorCol' = [j \in Jobs |-> IF status[j] = "running" THEN "interrupted"
                                           ELSE errorCol[j]]
            /\ unmarked' = {}
         \/ /\ status' = status /\ errorCol' = errorCol
            /\ unmarked' = {j \in Jobs : status[j] = "running"}
  BY DEF Boot, Store!MarkInterruptedJobsFailed, storeVars
<1>2. UNCHANGED <<open, accepted, begun, ended, discovered, lost, handler, step, verdict,
                  serving, outcome, notified, cancelled>>
  BY DEF Boot, Store!MarkInterruptedJobsFailed, storeVars, queueVars, workerVars,
         deployVars
<1>3. accepted = <<>> /\ Len(accepted) = 0 /\ begun = 0 /\ ended = 0
  BY <1>1 DEF Accepted, TypeOK
<1>4. TypeOK'
  <2>1. /\ status' \in [Jobs -> Store!Statuses]
        /\ errorCol' \in [Jobs -> {"none", "deploy", "interrupted"}]
    BY <1>1 DEF TypeOK, Store!Statuses, Store!Terminal
  <2>2. boots' \in 1..MaxBoots
    BY <1>1, MaxBootsAssumption DEF TypeOK
  <2>3. (Running' <=> Running) /\ CurrentJob' = CurrentJob
    BY <1>2 DEF Running, CurrentJob
  <2> QED
    BY <1>1, <1>2, <2>1, <2>2, <2>3 DEF TypeOK
<1>5. Accepted'
  BY <1>1, <1>2 DEF Accepted
<1>6. NotHandedOver'
  <2>1. \A j \in Jobs : status[j] # "running" => status'[j] = status[j] /\ errorCol'[j] = errorCol[j]
    BY <1>1
  <2> QED
    BY <1>2, <2>1 DEF NotHandedOver, RequestAndRow, Untouched, Unaccepted
<1>7. Buffer' /\ Returned' /\ InHand'
  BY <1>2, <1>3 DEF Buffer, Returned, InHand, Running
<1>8. RunningRowIsInHand'
  BY <1>1 DEF RunningRowIsInHand
<1>9. RowFollowsItsDeploy'
  BY <1>1, <1>2 DEF RowFollowsItsDeploy
<1>10. ToldAgreesWithRow'
  <2> SUFFICES ASSUME NEW j \in Jobs
               PROVE  /\ handler[j] = "200 success" => status'[j] = "success"
                      /\ handler[j] = "500 failed" => status'[j] = "failed"
                      /\ notified[j] # "none" =>
                           \/ notified[j] = status'[j]
                           \/ j \in lost /\ (status'[j] \in {"queued", "running"} \/ errorCol'[j] = "interrupted")
    BY <1>2 DEF ToldAgreesWithRow
  <2>1. /\ status[j] # "running" => status'[j] = status[j] /\ errorCol'[j] = errorCol[j]
        /\ status[j] = "running" => \/ status'[j] = "running"
                                   \/ errorCol'[j] = "interrupted"
    BY <1>1
  <2>2. notified[j] # "none" => notified[j] # "running"
    BY DEF TypeOK, Store!Terminal
  <2>3. errorCol[j] = "interrupted" => status[j] = "failed"
    BY DEF RowFollowsItsDeploy
  <2> QED
    BY <2>1, <2>2, <2>3 DEF ToldAgreesWithRow
<1>11. Contract'
  BY <1>2, ContractStays
<1> QED
  BY <1>4, <1>5, <1>6, <1>7, <1>8, <1>9, <1>10, <1>11

-----------------------------------------------------------------------------
\* IInv holds at all times.

LEMMA InitIInv == Init => IInv
<1> SUFFICES ASSUME Init PROVE IInv
  OBVIOUS
<1>1. /\ open = TRUE /\ accepted = <<>> /\ begun = 0 /\ ended = 0
      /\ step = "idle" /\ verdict = "success" /\ phase = "serving" /\ cancelled = FALSE
      /\ boots = 1 /\ lost = {} /\ unmarked = {} /\ serving = {First}
  BY DEF Init, QueueInit, Deploy!DeployInit
<1>2. /\ status = [j \in Jobs |-> "none"] /\ errorCol = [j \in Jobs |-> "none"]
      /\ discovered = [j \in Jobs |-> FALSE]
      /\ handler = [j \in Jobs |-> "idle"] /\ notified = [j \in Jobs |-> "none"]
      /\ outcome = [v \in Jobs \cup {First} |-> IF v = First THEN "success" ELSE "none"]
  BY DEF Init, Store!StoreInit, Deploy!DeployInit
<1>3. accepted \in Seq(Jobs) /\ Len(accepted) = 0
  BY <1>1
<1>4. ~Running
  BY <1>1 DEF Running
<1>5. TypeOK
  <2>1. open \in BOOLEAN /\ cancelled \in BOOLEAN /\ lost \subseteq Jobs /\ unmarked \subseteq Jobs
    BY <1>1
  <2>2. begun \in 0..Len(accepted) /\ ended \in 0..begun /\ begun <= ended + 1 /\ boots \in 1..MaxBoots
    BY <1>1, MaxBootsAssumption
  <2>3. /\ status \in [Jobs -> Store!Statuses]
        /\ errorCol \in [Jobs -> {"none", "deploy", "interrupted"}]
        /\ discovered \in [Jobs -> BOOLEAN]
        /\ handler \in [Jobs -> {"idle", "insert", "enqueue", "polling"} \cup Answers]
        /\ notified \in [Jobs -> {"none"} \cup Store!Terminal]
    BY <1>2 DEF Store!Statuses
  <2>4. /\ outcome \in [Jobs \cup {First} -> Deploy!Outcomes]
        /\ \A v \in Jobs \cup {First} : outcome[v] \notin Deploy!Active
    BY <1>2 DEF Deploy!Outcomes, Deploy!Active
  <2>5. verdict \in Store!Terminal
    BY <1>1 DEF Store!Terminal
  <2> QED
    BY <1>1, <1>4, <2>1, <2>2, <2>3, <2>4, <2>5 DEF TypeOK
<1>6. Accepted
  BY <1>1 DEF Accepted
<1>7. NotHandedOver
  <2>1. \A j \in Jobs : Unaccepted(j)
    BY <1>3 DEF Unaccepted
  <2> QED
    BY <1>2, <2>1, FirstIsNoJob DEF NotHandedOver, RequestAndRow, Untouched
<1>8. Buffer /\ InHand /\ Returned
  BY <1>1, <1>4 DEF Buffer, InHand, Returned
<1>9. Contract
  BY <1>2, FirstIsNoJob DEF Contract
<1>10. RunningRowIsInHand /\ RowFollowsItsDeploy /\ ToldAgreesWithRow
  BY <1>2 DEF RunningRowIsInHand, RowFollowsItsDeploy, ToldAgreesWithRow
<1> QED
  BY <1>5, <1>6, <1>7, <1>8, <1>9, <1>10 DEF IInv

LEMMA NextIInv == IInv /\ [Next]_vars => IInv'
<1> SUFFICES ASSUME IInv, [Next]_vars PROVE IInv'
  OBVIOUS
<1>1. ASSUME NEW j \in Jobs, Request(j) \/ Handler(j) \/ PollCancelled(j) PROVE IInv'
  BY <1>1, RequestKeepsIInv, SubmitInsertKeepsIInv, SubmitEnqueueKeepsIInv, PollKeepsIInv
     DEF Handler
<1>2. CASE LocalStep \/ DockerStep
  BY <1>2, RunStartKeepsIInv, MarkRunningKeepsIInv, RunDiscoverKeepsIInv, PositionKeepsIInv,
     RunPullKeepsIInv, RunRolloutKeepsIInv, RunFinishKeepsIInv DEF LocalStep, DockerStep
<1>3. CASE RolloutStep \/ ContainerServes \/ RunNotify
  BY <1>3, RolloutStepKeepsIInv, ContainerServesKeepsIInv, RunNotifyKeepsIInv
<1>4. CASE Sigterm \/ Shutdown
  BY <1>4, ShutdownKeepsIInv, LoseMemoryKeepsIInv DEF Shutdown, Exit
<1>5. CASE Crash \/ Boot
  BY <1>5, LoseMemoryKeepsIInv, BootKeepsIInv DEF Crash
<1>6. CASE UNCHANGED vars
  <2>1. UNCHANGED <<open, accepted, begun, ended, status, errorCol, discovered, lost, unmarked, handler,
                    step, verdict, serving, outcome, notified, phase, cancelled, boots>>
    BY <1>6 DEF vars, queueVars, tableVars, storeVars, workerVars, deployVars, processVars
  <2>2. TypeOK'
    <3>1. (Running' <=> Running) /\ CurrentJob' = CurrentJob
      BY <2>1 DEF Running, CurrentJob
    <3> QED
      BY <2>1, <3>1 DEF IInv, TypeOK
  <2> QED
    BY <2>1, <2>2, AcceptedStays, NotHandedOverStays, BufferStays, InHandStays, ReturnedStays,
       ContractStays, RunningRowIsInHandStays, RowFollowsItsDeployStays, ToldAgreesWithRowStays
       DEF IInv, Up, storeVars
<1> QED
  BY <1>1, <1>2, <1>3, <1>4, <1>5, <1>6 DEF Next

LEMMA Inductive == Spec => []IInv
  BY InitIInv, NextIInv, PTL DEF Spec

-----------------------------------------------------------------------------
\* The invariants of the service

\* The type invariant, for any number of jobs, process starts and failed
\* writes, and any capacity of the queue.
THEOREM TypeCorrect == Spec => []TypeOK
<1>1. IInv => TypeOK
  BY DEF IInv
<1> QED
  BY Inductive, <1>1, PTL

\* No row stays running behind a process that does not run it, whenever the
\* process is killed and however often it is started (jobs.go:182-189).
THEOREM RunningRowsAreInHand == Spec => []RunningRowIsInHand
<1>1. IInv => RunningRowIsInHand
  BY DEF IInv
<1> QED
  BY Inductive, <1>1, PTL

\* A row that says success or blames the deploy tells what happened to the
\* service (executor.go:112-127).
THEOREM RowsTellTheDeploy == Spec => []RowTellsTheDeploy
<1>1. IInv => RowTellsTheDeploy
  BY DEF IInv, Contract, RowFollowsItsDeploy, RowTellsTheDeploy
<1> QED
  BY Inductive, <1>1, PTL

\* What clients were told of a job's end is what its row says for ever after,
\* and so is what a notification told, unless the run's own write was lost
\* (deploy.go:141-148, executor.go:127-142).
THEOREM ToldIsTrue == Spec => []ToldAgreesWithRow
<1>1. IInv => ToldAgreesWithRow
  BY DEF IInv
<1> QED
  BY Inductive, <1>1, PTL

\* A client that was refused may send its request again: the refused job is
\* never rolled out (deploy.go:106-111).
THEOREM RefusedNeverRuns == Spec => []RefusedIsNeverRun
<1>1. IInv => RefusedIsNeverRun
  BY DEF IInv, NotHandedOver, RequestAndRow, Untouched, Refused, RefusedIsNeverRun
<1> QED
  BY Inductive, <1>1, PTL

\* When Drain returns true, every job this process accepted has a final status
\* (main.go:225-232, queue.go:61-62).
THEOREM DrainedMeansFinal == Spec => []CleanDrainLeavesNoWork
<1>1. IInv => CleanDrainLeavesNoWork
  <2> SUFFICES ASSUME IInv, phase \in {"stopping", "exiting"}, ~cancelled,
                      NEW j \in Range(accepted)
               PROVE  status[j] \in Store!Terminal \/ j \in lost
    BY DEF CleanDrainLeavesNoWork
  <2>1. ended = Len(accepted)
    BY DEF IInv, Accepted
  <2>2. PICK i \in 1..Len(accepted) : j = accepted[i]
    BY DEF Range
  <2> QED
    BY <2>1, <2>2 DEF IInv, Returned
<1> QED
  BY Inductive, <1>1, PTL

-----------------------------------------------------------------------------
\* The steps of the service

RowsAdvance ==
  \A j \in Jobs :
     /\ status[j] \in Store!Terminal => status'[j] = status[j] /\ errorCol'[j] = errorCol[j]
     /\ status[j] = "running" => status'[j] # "queued"

\* The writers of the two columns are a handler's insert, the worker's two
\* updates, and the marking at a start.
LEMMA NextRowsAdvance ==
  ASSUME IInv, [Next]_vars
  PROVE  RowsAdvance
<1>1. CASE UNCHANGED <<status, errorCol>>
  BY <1>1 DEF RowsAdvance
<1>2. ASSUME NEW j \in Jobs, SubmitInsert(j) PROVE RowsAdvance
  <2>1. status[j] = "none"
    BY <1>2 DEF SubmitInsert, IInv, NotHandedOver, RequestAndRow
  <2>2. UNCHANGED errorCol /\ (status' = status \/ status' = [status EXCEPT ![j] = "queued"])
    BY <1>2 DEF SubmitInsert, Store!Insert, tableVars, storeVars
  <2> QED
    BY <2>1, <2>2 DEF RowsAdvance, Store!Terminal, IInv, TypeOK
<1>3. CASE MarkRunning \/ RunFinish
  <2>1. /\ step \in {"mark", "finish"}
        /\ \/ \E new, e : /\ status' = [status EXCEPT ![CurrentJob] = new]
                          /\ errorCol' = [errorCol EXCEPT ![CurrentJob] = e]
                          /\ new \in {"running", verdict}
           \/ UNCHANGED <<status, errorCol>>
    BY <1>3 DEF MarkRunning, RunFinish, At, Store!UpdateStatus, WriteLost, storeVars
  <2>2. status[CurrentJob] \in {"queued", "running"} /\ verdict \in Store!Terminal
    BY <2>1 DEF IInv, InHand, TypeOK
  <2> QED
    BY <2>1, <2>2 DEF RowsAdvance, Store!Terminal, IInv, TypeOK
<1>4. CASE Boot
  BY <1>4 DEF Boot, Store!MarkInterruptedJobsFailed, storeVars, RowsAdvance,
              Store!Terminal
<1>5. \/ \E j \in Jobs : SubmitInsert(j)
      \/ MarkRunning \/ RunFinish
      \/ Boot
      \/ UNCHANGED <<status, errorCol>>
  <2>1. CASE \E j \in Jobs : Request(j) \/ Handler(j) \/ PollCancelled(j)
    BY <2>1 DEF Handler, Request, SubmitEnqueue, PollAnswers, PollDeadline, PollCancelled,
                tableVars, storeVars
  <2>2. CASE LocalStep \/ DockerStep
    <3>1. CASE RunDiscover
      BY <3>1 DEF RunDiscover, Store!UpdateDiscovery, WriteLost, tableVars, storeVars
    <3> QED
      BY <2>2, <3>1 DEF LocalStep, DockerStep, RunStart, RunValidate, RunPull, RunRollout, RunPrune,
                        tableVars, storeVars
  <2>3. CASE RolloutStep \/ ContainerServes \/ RunNotify
    BY <2>3 DEF RolloutStep, ContainerServes, RunNotify, tableVars, storeVars
  <2>4. CASE Sigterm \/ Shutdown \/ Crash
    BY <2>4 DEF Sigterm, Shutdown, DrainStart, DrainDone, DrainTimeout, StopRegistry, Exit, Crash,
                LoseMemory, tableVars, storeVars
  <2>5. CASE UNCHANGED vars
    BY <2>5 DEF vars, tableVars, storeVars
  <2> QED
    BY <2>1, <2>2, <2>3, <2>4, <2>5 DEF Next
<1> QED
  BY <1>1, <1>2, <1>3, <1>4, <1>5

\* A final status never changes again, and no row goes back to queued,
\* whatever a late worker, a restart or a failed write does (jobs.go:92-101,
\* 182-189).
THEOREM RowsNeverGoBack == Spec => RowsOnlyAdvance
<1>1. IInv /\ [Next]_vars => [RowsAdvance]_vars
  BY NextRowsAdvance
<1>2. RowsOnlyAdvance <=> [][RowsAdvance]_vars
  BY PTL DEF RowsOnlyAdvance, RowsAdvance
<1> QED
  BY Inductive, <1>1, <1>2, PTL DEF Spec

=============================================================================
