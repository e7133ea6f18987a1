----------------------------- MODULE JobService -----------------------------
(***************************************************************************)
(* The deployment service as one process: the POST /deploy handlers of     *)
(* internal/api/deploy.go, the executor of internal/jobs/executor.go, the  *)
(* queue (FifoRunner, which JobQueue implements), the jobs table           *)
(* (JobStore), the service being deployed (ServiceDeploy, which Rollout    *)
(* implements), and the start and shutdown sequence of                     *)
(* cmd/rollhook/main.go.  A step of the worker may interleave with every   *)
(* handler and with the shutdown goroutine; the process may stop at any    *)
(* point and be started again on the same table.                           *)
(*                                                                         *)
(* Each request makes a fresh job, so a request is named by its job, and   *)
(* so is the version it deploys.                                           *)
(***************************************************************************)
EXTENDS Naturals, Sequences, Functions, FifoRunner

CONSTANTS Faults,     \* "db": writes fail; "crash": the process is killed
          MaxBoots,   \* bound on the number of process starts
          First       \* the version in service before the first job

ASSUME FaultsAssumption   == Faults \subseteq {"db", "crash"}
ASSUME MaxBootsAssumption == MaxBoots \in Nat \ {0}
ASSUME FirstIsNoJob       == First \notin Jobs

VARIABLES status,     \* the jobs table: see JobStore
          errorCol,
          discovered,
          handler,    \* each request's position, or its answer
          step,       \* the worker's position inside Executor.run
          verdict,    \* finalStatus of the run
          serving,    \* the service's containers: see ServiceDeploy
          outcome,
          notified,   \* the status each job's notification told, or "none"
          phase,      \* how far main and its shutdown goroutine have come
          cancelled,  \* whether cancelJobs has run
          boots,      \* process starts so far
          lost,       \* history: the jobs a write of whose run has failed
          unmarked    \* history: the rows this process's start left running

Store == INSTANCE JobStore

Deploy == INSTANCE ServiceDeploy WITH Versions <- Jobs \cup {First}

storeVars   == <<status, errorCol, discovered>>
deployVars  == <<serving, outcome>>
workerVars  == <<step, verdict, deployVars, notified>>
processVars == <<phase, cancelled, boots>>
tableVars   == <<storeVars, lost, unmarked>>
vars == <<queueVars, tableVars, handler, workerVars, processVars>>

\* A statement of the worker that takes effect, and one whose error is only
\* logged: the run goes on without it.
Written == UNCHANGED <<lost, unmarked>>
WriteLost ==
  /\ "db" \in Faults
  /\ lost' = lost \cup {CurrentJob}
  /\ UNCHANGED <<storeVars, unmarked>>

Answers == {"200 queued", "200 success", "500 failed", "500 submit error",
            "503 busy", "500 timed out", "503 cancelled", "connection lost"}

Up == phase # "down"

\* srv.Shutdown closes the listener; until then requests come in.
Listening == phase \in {"serving", "grace", "draining", "stopping"}

Init ==
  /\ QueueInit
  /\ Store!StoreInit
  /\ handler = [j \in Jobs |-> "idle"]
  /\ step = "idle"
  /\ verdict = "success"
  /\ Deploy!DeployInit
  /\ notified = [j \in Jobs |-> "none"]
  /\ phase = "serving"
  /\ cancelled = FALSE
  /\ boots = 1
  /\ lost = {} /\ unmarked = {}

-----------------------------------------------------------------------------
\* POST /deploy

Goto(j, position) == handler' = [handler EXCEPT ![j] = position]

\* NewJob: a new id, CreatedAt = now.
Request(j) ==
  /\ Listening
  /\ handler[j] = "idle"
  /\ Goto(j, "insert")
  /\ UNCHANGED <<queueVars, tableVars, workerVars, processVars>>

\* Submit, as far as store.Insert: when the log directory or the insert fails
\* the client gets the error, and there is no row.
SubmitInsert(j) ==
  /\ Up
  /\ handler[j] = "insert"
  /\ \/ Store!Insert(j) /\ Written /\ Goto(j, "enqueue")
     \/ "db" \in Faults /\ UNCHANGED tableVars /\ Goto(j, "500 submit error")
  /\ UNCHANGED <<queueVars, workerVars, processVars>>

\* Mistake: the last free slot is taken and reported as taken.
SubmitEnqueueLastSlotBusy(j) ==
  /\ Up
  /\ handler[j] = "enqueue"
  /\ \/ Accept(j) /\ Goto(j, IF Buffered + 1 = Capacity THEN "503 busy" ELSE "polling")
     \/ (~open \/ Full) /\ Goto(j, "503 busy") /\ UNCHANGED queueVars
  /\ UNCHANGED <<tableVars, workerVars, processVars>>

\* Submit, queue.Enqueue: an error goes back to the client, the row stays.  On
\* success the request's ?async flag decides between answering and polling.
SubmitEnqueue(j) ==
  /\ Up
  /\ handler[j] = "enqueue"
  /\ \/ /\ Accept(j)
        /\ Goto(j, "200 queued") \/ Goto(j, "polling")
     \/ /\ ~open \/ Full
        /\ Goto(j, "503 busy")
        /\ UNCHANGED queueVars
  /\ UNCHANGED <<tableVars, workerVars, processVars>>

\* Mistake: everything but a failure counts as success.
PollAnswersTooEarly(j) ==
  /\ Up
  /\ handler[j] = "polling"
  /\ Goto(j, IF status[j] = "failed" THEN "500 failed" ELSE "200 success")
  /\ UNCHANGED <<queueVars, tableVars, workerVars, processVars>>

\* A tick of the polling loop that finds the row terminal.
PollAnswers(j) ==
  /\ Up
  /\ handler[j] = "polling"
  /\ \/ status[j] = "success" /\ Goto(j, "200 success")
     \/ status[j] = "failed"  /\ Goto(j, "500 failed")
  /\ UNCHANGED <<queueVars, tableVars, workerVars, processVars>>

\* Mistake: the deadline is looked at only after a tick that found an answer.
PollDeadlineTooLate(j) ==
  /\ Up
  /\ handler[j] = "polling"
  /\ status[j] \in Store!Terminal
  /\ Goto(j, "500 timed out")
  /\ UNCHANGED <<queueVars, tableVars, workerVars, processVars>>

\* The deadline of syncTimeout.
PollDeadline(j) ==
  /\ Up
  /\ handler[j] = "polling"
  /\ Goto(j, "500 timed out")
  /\ UNCHANGED <<queueVars, tableVars, workerVars, processVars>>

\* The client went away: ctx.Done.
PollCancelled(j) ==
  /\ Up
  /\ handler[j] = "polling"
  /\ Goto(j, "503 cancelled")
  /\ UNCHANGED <<queueVars, tableVars, workerVars, processVars>>

-----------------------------------------------------------------------------
\* The worker: Executor.run and Executor.execute on the current job.

At(s) == Up /\ step = s

\* Mistake: the error path returns before the final UpdateStatus.
FailWithoutFinish == step' = "notify" /\ verdict' = "failed"

Fail == step' = "finish" /\ verdict' = "failed"

Advance(s) == step' = s /\ UNCHANGED verdict

\* The worker goroutine receives the job and run opens its log.
RunStart ==
  /\ At("idle")
  /\ Begin
  /\ step' = "mark"
  /\ verdict' = "success"
  /\ UNCHANGED <<tableVars, handler, deployVars, notified, processVars>>

\* UpdateStatus(running); an error is only logged.
MarkRunning ==
  /\ At("mark")
  /\ \/ Store!UpdateStatus(CurrentJob, "running", "none") /\ Written
     \/ WriteLost
  /\ Advance("discover")
  /\ UNCHANGED <<queueVars, handler, deployVars, notified, processVars>>

\* Executor.execute calls the steps one after the other and returns the first
\* error.  Discover lists and inspects with the job context, so a cancelled
\* context fails it.  An UpdateDiscovery error is only logged.
RunDiscover ==
  /\ At("discover")
  /\ \/ Fail /\ UNCHANGED tableVars
     \/ /\ ~cancelled
        /\ (Store!UpdateDiscovery(CurrentJob) /\ Written) \/ WriteLost
        /\ Advance("validate")
  /\ UNCHANGED <<queueVars, handler, deployVars, notified, processVars>>

\* steps.Validate reads the compose file without the job context.
RunValidate ==
  /\ At("validate")
  /\ Fail \/ Advance("pull")
  /\ UNCHANGED <<queueVars, tableVars, handler, deployVars, notified, processVars>>

\* PullImage fails on the first error event, and when its context is cancelled.
RunPull ==
  /\ At("pull")
  /\ \/ Fail /\ UNCHANGED deployVars
     \/ ~cancelled /\ Advance("rollout") /\ Deploy!BeginDeploy(CurrentJob)
  /\ UNCHANGED <<queueVars, tableVars, handler, notified, processVars>>

\* What steps.Rollout does to the service before it returns.
RolloutStep ==
  /\ At("rollout")
  /\ \/ Deploy!Withdraw(CurrentJob)
     \/ Deploy!Commit(CurrentJob)
     \/ \E others \in SUBSET serving : Deploy!Retire(CurrentJob, others)
  /\ UNCHANGED <<queueVars, tableVars, handler, step, verdict, notified, processVars>>

\* Containers turn healthy, with or without a process.
ContainerServes ==
  /\ \E v \in Jobs \cup {First} : Deploy!EnterService(v)
  /\ UNCHANGED <<queueVars, tableVars, handler, step, verdict, notified, processVars>>

\* Mistake: the rollout's error is only logged.
RunRolloutIgnoringError ==
  /\ At("rollout")
  /\ Advance("prune")
  /\ Deploy!Abort(CurrentJob) \/ Deploy!Succeed(CurrentJob)
  /\ UNCHANGED <<queueVars, tableVars, handler, notified, processVars>>

\* steps.Rollout returns.  A cancelled context does not force a failure: the
\* drain loop ignores it.
RunRollout ==
  /\ At("rollout")
  /\ \/ Fail /\ Deploy!Abort(CurrentJob)
     \/ Advance("prune") /\ Deploy!Succeed(CurrentJob)
  /\ UNCHANGED <<queueVars, tableVars, handler, notified, processVars>>

\* steps.Prune (module ImagePrune) skips when cancelled; its error never fails
\* the deploy.
RunPrune ==
  /\ At("prune")
  /\ Advance("finish")
  /\ UNCHANGED <<queueVars, tableVars, handler, deployVars, notified, processVars>>

\* UpdateStatus(finalStatus, finalErr); an error is only logged.
RunFinish ==
  /\ At("finish")
  /\ \/ /\ Store!UpdateStatus(CurrentJob, verdict,
                             IF verdict = "failed" THEN "deploy" ELSE "none")
        /\ Written
     \/ WriteLost
  /\ Advance("notify")
  /\ UNCHANGED <<queueVars, handler, deployVars, notified, processVars>>

Notify == notified' = [notified EXCEPT ![CurrentJob] = verdict]

\* Mistake: the worker takes the next job with this one still in hand.
RunNotifyWithoutReturn ==
  /\ At("notify")
  /\ Notify
  /\ Advance("idle")
  /\ UNCHANGED <<queueVars, tableVars, handler, deployVars, processVars>>

\* notifier.Notify returns, and with it the job's function.
RunNotify ==
  /\ At("notify")
  /\ Notify
  /\ End
  /\ Advance("idle")
  /\ UNCHANGED <<tableVars, handler, deployVars, processVars>>

-----------------------------------------------------------------------------
\* main: signal, drain, stop, exit, and start.

Enter(p) == phase' = p /\ UNCHANGED <<cancelled, boots>>

\* SIGTERM: /health answers 503 and the goroutine sleeps three seconds.
Sigterm ==
  /\ phase = "serving"
  /\ Enter("grace")
  /\ UNCHANGED <<queueVars, tableVars, handler, workerVars>>

\* Drain's locked part; its select begins.
DrainStart ==
  /\ phase = "grace"
  /\ Close
  /\ Enter("draining")
  /\ UNCHANGED <<tableVars, handler, workerVars>>

DrainDone ==
  /\ phase = "draining"
  /\ Drained
  /\ Enter("stopping")
  /\ UNCHANGED <<queueVars, tableVars, handler, workerVars>>

\* Mistake: Drain waits without a timeout.
DrainTimeoutNever ==
  /\ phase = "draining"
  /\ Drained
  /\ phase' = "stopping"
  /\ cancelled' = TRUE
  /\ UNCHANGED <<boots, queueVars, tableVars, handler, workerVars>>

\* After five minutes: cancelJobs.
DrainTimeout ==
  /\ phase = "draining"
  /\ phase' = "stopping"
  /\ cancelled' = TRUE
  /\ UNCHANGED <<boots, queueVars, tableVars, handler, workerVars>>

\* mgr.Stop returns and srv.Shutdown is called: ListenAndServe returns in main.
StopRegistry ==
  /\ phase = "stopping"
  /\ Enter("exiting")
  /\ UNCHANGED <<queueVars, tableVars, handler, workerVars>>

\* The process is gone: its queue, its goroutines and its connections with it.
LoseMemory ==
  /\ phase' = "down"
  /\ cancelled' = FALSE
  /\ open' = TRUE /\ accepted' = <<>> /\ begun' = 0 /\ ended' = 0
  /\ handler' = [j \in Jobs |-> IF handler[j] \in {"insert", "enqueue", "polling"}
                                THEN "connection lost" ELSE handler[j]]
  /\ step' = "idle"
  /\ verdict' = "success"
  /\ IF step = "rollout" THEN Deploy!CutOff(CurrentJob) ELSE UNCHANGED deployVars
  /\ UNCHANGED <<boots, tableVars, notified>>

\* main returns; the deferred cancelJobs has nobody left to stop.
Exit ==
  /\ phase = "exiting"
  /\ LoseMemory

\* SIGKILL (also the one that ends compose.yml's stop_grace_period), a panic,
\* a power failure.  MaxBoots also bounds the crashes: the last process of a
\* behaviour is not killed.
Crash ==
  /\ "crash" \in Faults
  /\ boots < MaxBoots
  /\ Up
  /\ LoseMemory

\* A new process opens the table, marks what was running, and listens.  The
\* error of the marking statement is dropped.
Boot ==
  /\ phase = "down"
  /\ boots < MaxBoots
  /\ \/ Store!MarkInterruptedJobsFailed /\ unmarked' = {}
     \/ /\ "db" \in Faults
        /\ UNCHANGED storeVars
        /\ unmarked' = {j \in Jobs : status[j] = "running"}
  /\ phase' = "serving"
  /\ boots' = boots + 1
  /\ UNCHANGED <<lost, cancelled, queueVars, handler, workerVars>>

-----------------------------------------------------------------------------

Handler(j) == \/ SubmitInsert(j) \/ SubmitEnqueue(j)
              \/ PollAnswers(j) \/ PollDeadline(j)

\* What the worker does by itself, and what it asks Docker and compose to do.
LocalStep  == RunStart \/ MarkRunning \/ RunValidate \/ RunFinish
DockerStep == RunDiscover \/ RunPull \/ RunRollout \/ RunPrune

Shutdown == DrainStart \/ DrainDone \/ DrainTimeout \/ StopRegistry \/ Exit

Next ==
  \/ \E j \in Jobs : Request(j) \/ Handler(j) \/ PollCancelled(j)
  \/ LocalStep
  \/ DockerStep
  \/ RolloutStep
  \/ ContainerServes
  \/ RunNotify
  \/ Sigterm
  \/ Shutdown
  \/ Crash
  \/ Boot

Spec == Init /\ [][Next]_vars

(* Fairness: goroutines run, timers fire, and the container's restart      *)
(* policy starts the process again.  Requests, leaving clients, signals    *)
(* and crashes just happen.  No call the worker makes to the outside need  *)
(* ever return: the job context has no deadline (main.go:121) and neither  *)
(* has http.DefaultClient (notifier.go:29).                                *)
Fairness ==
  /\ \A j \in Jobs : WF_vars(Handler(j))
  /\ WF_vars(LocalStep)
  /\ WF_vars(Shutdown)
  /\ WF_vars(Boot)

FairSpec == Spec /\ Fairness

-----------------------------------------------------------------------------
\* Properties

\* Every variable stays in its domain, and the worker is inside a job exactly
\* when the queue says one is running.
TypeOK ==
  /\ open \in BOOLEAN
  /\ accepted \in Seq(Jobs)
  /\ begun \in 0..Len(accepted)
  /\ ended \in 0..begun
  /\ begun <= ended + 1
  /\ status \in [Jobs -> Store!Statuses]
  /\ errorCol \in [Jobs -> {"none", "deploy", "interrupted"}]
  /\ discovered \in [Jobs -> BOOLEAN]
  /\ handler \in [Jobs -> {"idle", "insert", "enqueue", "polling"} \cup Answers]
  /\ step \in {"idle", "mark", "discover", "validate", "pull", "rollout", "prune",
               "finish", "notify"}
  /\ verdict \in Store!Terminal
  /\ serving \subseteq Jobs \cup {First}
  /\ outcome \in [Jobs \cup {First} -> Deploy!Outcomes]
  /\ notified \in [Jobs -> {"none"} \cup Store!Terminal]
  /\ phase \in {"serving", "grace", "draining", "stopping", "exiting", "down"}
  /\ cancelled \in BOOLEAN
  /\ boots \in 1..MaxBoots
  /\ lost \subseteq Jobs /\ unmarked \subseteq Jobs
  /\ step = "idle" <=> ~Running
  /\ \A v \in Jobs \cup {First} : outcome[v] \in Deploy!Active <=>
                                    step = "rollout" /\ v = CurrentJob

\* What the job API may be relied on for: a terminal status never changes
\* again, whatever a late worker, a restart or a failed write does, and a row
\* never goes back to queued (deploy.go:141-148 answers on the first terminal
\* read; executor.go:112, 127; jobs.go:184-189).
RowsOnlyAdvance ==
  [][\A j \in Jobs :
       /\ status[j] \in Store!Terminal => status'[j] = status[j] /\ errorCol'[j] = errorCol[j]
       /\ status[j] = "running" => status'[j] # "queued"]_vars

\* What a row says of the service: success, that the job's version went into
\* service and left it only to a deploy that had committed itself; blame on the
\* deploy, that it took no other version out of service.  "error is set only
\* when status is failed" (api/jobs.go:76), and a failed job always has one
\* (executor.go:116-127).
RowTellsTheDeploy ==
  \A j \in Jobs :
     /\ status[j] = "success" =>
          /\ outcome[j] = "success"
          /\ discovered[j] \/ j \in lost
          /\ \/ j \in serving
             \/ \E k \in Jobs \ {j} : outcome[k] \in {"committed", "success", "cut"}
     /\ errorCol[j] = "deploy" => outcome[j] \in {"none", "failed"}
     /\ errorCol[j] # "none" <=> status[j] = "failed"

\* What the outside was told stays what the table says, restarts included: an
\* answer with a final status is that row's status for ever after, and so is
\* the status a notification carries.  A notification sent after a write of its
\* run was lost may find its row unfinished, and a restart may then blame the
\* interruption on it, but never another deploy's end (deploy.go:141-148,
\* executor.go:127-142).
ToldAgreesWithRow ==
  \A j \in Jobs :
     /\ handler[j] = "200 success" => status[j] = "success"
     /\ handler[j] = "500 failed" => status[j] = "failed"
     /\ notified[j] # "none" =>
          \/ notified[j] = status[j]
          \/ j \in lost /\ (status[j] \in {"queued", "running"} \/ errorCol[j] = "interrupted")

\* A client told "server busy, try again later" or given a submit error may
\* retry: its first job is never rolled out (deploy.go:106-111).
RefusedIsNeverRun ==
  \A j \in Jobs : handler[j] \in {"503 busy", "500 submit error"} =>
     outcome[j] = "none" /\ status[j] \in {"none", "queued"}

\* A row that says running is the job the worker has in hand: none stays
\* running behind a process that no longer runs it, across crashes, restarts
\* and shutdowns (jobs.go:182-189).  The exceptions are a job of this very
\* process whose last write was lost (executor.go:127-129), until the next
\* start, and a row this start failed to mark (main.go:86).
RunningRowIsInHand ==
  Up => \A j \in Jobs : status[j] = "running" =>
           \/ Running /\ j = CurrentJob /\ step \notin {"mark", "notify"}
           \/ j \in lost \cap Range(accepted)
           \/ j \in unmarked

\* When the queue drained in time, the registry and the server are stopped
\* with every job ever accepted by this process in a final state, but for one
\* whose own write was lost (main.go:225-232, queue.go:61-62).
CleanDrainLeavesNoWork ==
  phase \in {"stopping", "exiting"} /\ ~cancelled =>
     \A j \in Range(accepted) : status[j] \in Store!Terminal \/ j \in lost

\* No call to Docker, to compose or to a notification endpoint keeps the worker
\* for ever.
CallsReturn ==
  \A s \in {"discover", "pull", "rollout", "prune", "notify"} : []<>(step # s)

\* Nothing of RollHook's own keeps an accepted job from a final status while
\* the process is up: not the queue, a full buffer, a drain, a failing step or
\* another job.  Only one outside call that never returns does
\* (executor.go:91-143).  Writes succeed here.
AcceptedBecomesFinal ==
  CallsReturn =>
  \A j \in Jobs : handler[j] \in {"200 queued", "polling"} ~>
                     status[j] \in Store!Terminal \/ phase = "down"

\* A waiting client is answered or cut off, even while the worker is stuck in
\* a pull, a rollout or a notification (deploy.go:128-151).
WaitingClientIsAnswered ==
  \A j \in Jobs : handler[j] = "polling" ~> handler[j] \in Answers

\* SIGTERM ends the process, even while the worker is stuck: Drain's timeout
\* is the safety valve (main.go:119-120, 217-234).
SigtermEndsProcess == phase = "grace" ~> phase = "down"

-----------------------------------------------------------------------------
\* What the repository says of the service and the code does not do.

\* "Job must eventually reach a terminal state" (e2e/tests/deploy.test.ts:113),
\* said of a job accepted with ?async=true, in a behaviour in which the service
\* is up and serving from some point on and every outside call returns.
AsyncJobBecomesFinal ==
  CallsReturn /\ <>[](phase = "serving") =>
  \A j \in Jobs : handler[j] = "200 queued" ~> status[j] \in Store!Terminal

=============================================================================
