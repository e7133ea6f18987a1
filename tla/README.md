# RollHook: a verification development

RollHook is one Go process that deploys Compose services without downtime. A
client posts an image tag; the process queues a job, finds the running
container that belongs to the image, scales its service up with the new image,
waits until the new containers are healthy, and drains the old ones. The same
process supervises an image registry (Zot) and streams job logs.

This directory holds TLA+ models of that program, their TLC configurations and
TLAPS proofs. Paths below are relative to the repository.

## 1. Inventory

| Part | State it keeps | Operations | Interacts with |
|---|---|---|---|
| Job queue `internal/jobs/queue.go` | a channel of 1024 functions, `drained`, a mutex, one worker goroutine | `Enqueue`, `Drain`, the worker loop | called by the executor and by the shutdown goroutine |
| Jobs table `internal/db/jobs.go` | one SQLite row per job; survives the process | `Insert`, `UpdateStatus`, `UpdateDiscovery`, `MarkInterruptedJobsFailed`, reads | written by executor and `main`, read by handlers |
| Executor `internal/jobs/executor.go` | none of its own | `Submit`; `run`: mark running, discover, validate, pull, roll out, prune, final status, notify | queue, table, log file, steps, notifier |
| Deploy API `internal/api/deploy.go` | one goroutine per request | `POST /deploy`, asynchronous or polling the row until final | executor, table |
| Process `cmd/rollhook/main.go` | two contexts: the signal's and the jobs' | start, signal, three seconds' grace, drain (five minutes), cancel, stop, exit | all of the others |
| Rolling deploy `internal/jobs/steps/rollout.go` | the containers, outside of the process | list, `compose up --scale`, poll, wait for health, drain or roll back | Docker, through `internal/docker/api.go` |
| Discover `internal/jobs/steps/discover.go` | none | list the running containers, match one to an image reference, inspect it | Docker; called by the executor and by the exchange of tokens |
| Validate, pull `internal/jobs/steps/`, `docker/api.go` | none | check the compose file; pull with RollHook's password and follow the daemon's events | compose file, Docker |
| Prune `internal/docker/api.go`, `steps/prune.go` | the images on the host | list images, list containers, remove old ones | Docker, other users of the host |
| Job log `internal/db/jobs.go`, `internal/api/jobs.go` | one file per job | append (writer), follow over SSE (reader), retention sweep | the row's status tells the reader when to stop |
| Registry manager `internal/registry/manager.go` | `m.cmd`, `m.done`, a crash counter | `Start`, `watch`, one `Wait` goroutine per child, `Stop` | the Zot process, `main` |
| Token exchange `internal/api/auth.go`, `internal/middleware/huma_auth.go` | none; what it has granted is in the client's hands | OIDC token in, API secret and registry token out, by the labels of the running service | Discover |
| Registry proxy `internal/registry/proxy.go`, `token.go` | none; tokens carry repository and expiry | authorise each request by its path, forward it, rewrite redirects | Zot, docker clients |
| Health endpoint, notifier formats, dashboard | none, or one flag | text | not modelled, see section 7 |

What is hard in it, and what makes each part correct:

- **Queue.** Senders race the close of the channel; a full buffer must refuse
  without blocking; what is buffered at the close still has to run. Correct:
  jobs run one at a time, each accepted one exactly once and in order, nothing
  refused is ever run, and `Drain` says true only when nothing is left.
- **Service.** The row, the position in the queue and the client's answer are
  three states changed at different moments, by three goroutines, one of which
  may die between any two of its steps. Correct: rows only advance, an answer
  agrees with its row for ever, no row stays `running` without a worker, a
  shutdown ends and loses nothing it has time for. No call that the worker makes
  to Docker, compose or a notification endpoint has a deadline, so a hanging one
  holds up every later job; nothing else may.
- **Rollout.** It acts on health it read earlier, on a host where everything
  may fail or change between two calls, and the next deploy starts from
  whatever the last one left. Correct: never fewer healthy containers than
  before; old ones go only behind healthy new ones.
- **Log stream.** Reader and writer share a file and a row without a lock.
  Correct: no line doubled or reordered, none lost on a client that comes after
  the end; a stream that ends if the row can still become final.
- **Registry manager.** Four kinds of goroutine share one "current child".
  Correct: never two children, never an unknown one, a `Stop` that returns.
- **Prune.** The list of used images is stale as soon as it is made.
- **Getting an image in.** Exchange, push and deploy are half a dozen requests
  that share nothing but names: the exchange knows the image by its bare name,
  the push by paths, the deploy by a full reference. Correct: nothing is had
  with an OIDC token before a service of the name asked for has admitted it, a
  service that runs is found by each spelling, and a registry token works for
  its repository until it expires.
- **A deploy's files.** The compose file is read three times, the .env once, by
  two programs, while the administrator edits them. Correct: new containers run
  the image asked for, as this deploy pulled it, everything else as the user
  wrote it.

`PROJECT.json` lists these hazards line by line, with the properties that
cover them.

## 2. Modules

| Module | Models | State and actions in terms of the code |
|---|---|---|
| `FifoRunner` | what the queue promises | one sequence of accepted jobs and a head over it; one step per operation |
| `JobQueue` | `queue.go` | a `pc` for each `Enqueue` and `Drain` call, the mutex as the set of its holders, the channel as a sequence; a lock, a check, a send, a close are steps of their own. Refines `FifoRunner` |
| `JobQueueProofs` | - | invariants and refinement of `JobQueue`, for every instance |
| `JobStore` | the table | one operator per SQL statement; a row is its status, the origin of its error, and whether discovery filled it |
| `ServiceDeploy` | what `rollout.go` promises of a service | which versions have a healthy container, and how far each deploy has come: preparing, committed, ended |
| `JobService` | deploy handlers, executor, `main` | EXTENDS `FifoRunner`, INSTANCEs `JobStore` and `ServiceDeploy`; a `pc` for each request (`handler`), for the worker (`step`), for the process (`phase`); what notifications have told |
| `DockerHost` | `docker/api.go` on containers; Docker and Compose themselves as far as `rollout.go` relies on them | each container's life, health and image |
| `JobServiceProofs` | - | invariants of `JobService`, for every instance |
| `Rollout` | `rollout.go`, called deploy after deploy, in a process that may be cancelled, exit, be killed and come back | EXTENDS `DockerHost`; the local variables `oldIDs`, `newIDs` and what the loops have still to do. Refines `ServiceDeploy` |
| `RolloutProofs` | - | invariants of `Rollout`, its refinement of `ServiceDeploy` and what becomes of a successful version, for every number of replicas and deploys |
| `LogStream` | one log file, its writer and an SSE reader | pieces of lines in the file, the reader's offset, partial line and events |
| `LogStreamProofs` | - | what the stream sends, for a log of any length |
| `RegistryManager` | `manager.go` | children numbered in order of start; `m.cmd` and `m.done` hold a number |
| `RegistryManagerProofs` | - | invariants of `RegistryManager` and what `Stop` leaves, for every number of children |
| `Discovery` | `discover.go`, `RepoFromRef`; the containers it looks among | references as sequences of words and separators; the list and inspect calls as two steps |
| `RegistryAccess` | `auth.go`, `huma_auth.go`, `proxy.go`, `token.go`, `checkOIDCLabels` | EXTENDS `Discovery`; one `pc` for each CI workflow, from the exchange through the requests of a push, and a deploy that may come between any two of them; a clock |
| `RegistryAccessProofs` | - | what tokens open, what is found and who is admitted, for names of any length |
| `DeployFiles` | `validate.go`, `PullImage`, `writeTempEnv`, `setEnvLine`, and what docker compose does with them | a .env file as its lines, the compose file as what the steps check of it, with the image as it is written and as it is resolved, the pull as its events |
| `DeployFilesProofs` | - | what new containers run, and with what, for every .env and compose file |
| `ImagePrune` | `PruneImages` | images with age, repositories, users; the candidate list and its index |
| `ImagePruneProofs` | - | what goes and what stays, for every set of images |

`MCJobService`, `MCRollout` and `MCImagePrune` add symmetry sets and the ranges
of deploy numbers, `MCRegistryAccess` and `MCDeployFiles` the containers,
requests, compose files and lines to try; the other configurations use their
module directly.

How they compose, twice by way of an abstract module in the middle. `JobQueue`
implements `FifoRunner`, and `JobService` is built on `FifoRunner`, so what is
checked of the service is checked on top of exactly the promise the queue is
proved to keep. `Rollout` implements `ServiceDeploy` (`ImplementsDeploy`), and
`JobService` takes the steps of `ServiceDeploy` as its rollout step: so a row
that says success can be held against the versions that serve
(`RowTellsTheDeploy`). The mapping makes a version serve when it has a healthy
running container, and a deploy committed when it has entered the drain loop.

The other steps of `JobService` have two outcomes there and a module of their
own: `RunDiscover` is `Discovery`, which `RegistryAccess` composes with the
exchange that uses it too; `RunValidate` and `RunPull` and the first half of
the rollout are `DeployFiles`; `RunPrune` is `ImagePrune`; `LogStream` has the
log lines of the same run, and `StopRegistry` is `RegistryManager`'s `Stop`.

In each module a definition commented "Mistake" is a plausible bug of the
definition next to it. It is not part of the model: it is what the property it
was written for is tested against, by putting it in the definition's place and
letting TLC find the violation.

## 3. Runs

Each passing run explores its whole state space.

| Run | Instance | What it shows |
|---|---|---|
| `JobQueue` | 3 enqueuers, 2 drainers, capacity 2, job functions that may hang | no send on or second close of the channel; a job is in the queue's hands exactly if its call returned nil; true from the draining call means all done; calls return even while a job hangs; if jobs return, every accepted job runs; the FIFO refinement |
| `JobServiceSafety` | 2 requests, capacity 1, 2 process starts, failing writes, kills | rows only advance; a successful row's version went into service, and a deploy blamed for its failure took nothing else out; error exactly on failure; answers and notifications agree with rows; a refused job never runs; a running row is in the worker's hand; a clean drain leaves no work |
| `JobServiceLive` | 2 requests, capacity 1, one process | if no outside call lasts for ever (`CallsReturn`), accepted jobs become final; waiting clients are answered and SIGTERM ends the process, also with the worker stuck in one |
| `RolloutFaults` | 2 replicas, 2 deploys, 6 container IDs; failing Docker and compose calls, cancellation, kills | zero downtime; old containers are stopped only by the drain, behind healthy new ones; the rollout implements `ServiceDeploy`: up to its last health check a deploy takes back only its own version, after it only others, and it reports success exactly if it got there |
| `RolloutContainers` | 2 replicas, 1 deploy; containers die, restart, turn unhealthy and recover | replicas and image are preserved; a health failure is rolled back completely; Rollout returns |
| `LogStream` | 4 lines; appends and row writes that fail, lines that become visible in pieces, a log that cannot be opened, a refused job, a kill, the retention sweep | the stream follows the file; a late client gets everything; if the job returns (`JobReturns`), the stream ends, unless the row is left for ever without a final status (`Orphaned`) |
| `RegistryManager` | 4 children; crashes, failing forks, a child deaf to SIGTERM | one child at a time; the running child is known; `Stop` returns and leaves none; a child that ended is replaced |
| `ImagePrune` | 4 images, 2 ages, keep 1; images of a second repository, racing containers, failing calls | only superseded images go, none that had a container when the pruner looked; undisturbed, nothing else is left |
| `RegistryAccess` | one workflow, any of 7 requests; 2 containers of any of 5 kinds, two of them services of one base name, replaced at any time, tags moved; a token of one tick, a clock of two | a service that runs is found by every spelling of its image; a token opens its repository at each request until it expires, and no other; who came with an OIDC token has a token, the secret or a deploy only after a service of the name asked for admitted it, and what is deployed is called as was asked |
| `DeployFiles` | 10 compose files, every .env of up to 3 lines over 5, own and foreign registries, an earlier image of the name on the host or none, edits and failures at any step | new containers run the image asked for, short of a line that only docker compose reads, and the user's other variables, trailing newline included; they run what this deploy pulled, never the earlier image |

Two further runs show what a document, a comment or a test of the repository
says and the code does not do (`PROJECT.json`, "findings"):

- `JobServiceStranded`: a job still queued when the process goes down stays
  `queued` for ever: the restart marks only `running` rows, and nothing reads
  queued ones.
- `RegistryCrashLoop`: the crash counter is reset by the fork, so a registry
  that crashes at every start is restarted for ever.

Further disagreements met while modelling; the model contains the behaviour,
no run is spent on it:

- With the job context cancelled after the last health check, the drain loop
  fails on every container, logs it, and reports success: both versions stay up
  (`rollout.go:103-116`), where `e2e/tests/zero-downtime.test.ts:116` says
  "Rolling update must not leave extra containers behind".
- Lines appended between the log reader's EOF and its look at the row are never
  sent, though `[DONE]` is (`api/jobs.go:169-180`), where
  `cmd/gendocs/main.go:65` says the stream ends when the job is terminal. A
  client that connects later gets them (`LateReaderSeesAll`).
- Validate accepts an image that contains the letters IMAGE_TAG in any way, as
  in `${MY_IMAGE_TAG}`, and does not look at one inherited by `extends` or
  included (`validate.go:74-84`); `validate.go:29` says that the field references
  `${IMAGE_TAG}`. `DeployFiles` has such files ("mentions", and an image where
  the service's own section has none): they are rolled out with their fixed
  image, and the deploy succeeds.
- `setEnvLine` does not see `export IMAGE_TAG=...` or `IMAGE_TAG = ...`, which
  docker compose reads as settings: behind a plain `IMAGE_TAG=` line they win
  (`rollout.go:273`), against `rollout.go:46-48`. `DeployFiles` has such lines,
  and `StartsWhatWasAsked` excepts exactly them (`Shadowed`). An IMAGE_TAG in
  RollHook's own environment wins too, and is not modelled.
- A second `Drain` call answers true at once (`queue.go:65`) against its
  comment (`queue.go:61-62`); `main` calls it once.
- `notifier.Notify` runs on the worker with a client that has no timeout
  (`notifier.go:29`), so a hanging endpoint holds up every later job, against
  `README.md:189`. This is why no fairness is assumed of `RunNotify`.
- `main` returns as soon as the listener is closed, not when `srv.Shutdown` has
  waited for the handlers (`main.go:237`): a polling client may be cut off
  though its job has ended ("connection lost" in `JobService`).
- `created_at` is stamped before the row is inserted and the job enqueued
  (`executor.go:48`), so its order need not be the order of execution that
  `e2e/tests/queue.test.ts:43` expects.
- A failing `compose up` or poll returns without rolling back
  (`rollout.go:74, 84`), against `rollout.go:27`; the next deploy takes such
  leftovers, and those of a kill, for old containers and doubles them.
- The new containers are checked one after the other and never again, so an
  earlier one may be unhealthy again when the drain starts (`rollout.go:102`).
- A rollback is cut short when the process exits after the drain timeout, in
  spite of its background context (`rollout.go:171`).
- What `ReadString` returns together with EOF is dropped while the job runs
  (`api/jobs.go:155-188`): a line read in two pieces loses its beginning.
- Discover returns the first container that matches in either way, where its
  comment says exact matches are tried first (`discover.go:62-63`). With two
  services of one base name Docker's order decides which of them admits a
  workflow and which is deployed; `RegistryAccess` has both orders, and
  `AdmittedBeforeAll` says what holds in either.
- The secret that an exchange returns is the API secret itself: with it any
  service may be deployed, without another look at labels (`auth.go:74-75`,
  `huma_auth.go:67-71`). `RegistryAccess` lets a workflow deploy whatever it asks
  for, at any time.
- A job that the queue refuses has a row and a log already, and a final status
  that cannot be written is only logged (`executor.go:72-74, 127-129`): nobody
  makes such a row final, and a client of its stream polls until it goes.

## 4. Bounds

- *Requests, capacity.* A small capacity stands for 1024. Two jobs in the
  queue's buffer have an order, and a third caller finds it full; in the
  service, two requests and a capacity of one reach a job running with another
  queued, a full buffer and a refusal. A request makes one fresh job, so a retry by a client is another
  request. The queue's own properties are proved for every capacity.
- *Process starts.* Two: what a start does depends only on the table, and two
  let a table of a killed process meet a new one that is itself shut down. The
  last process of a behaviour is not killed, so that something can be said of
  what follows.
- *Containers, deploys.* Two replicas make the waits, the drain and the
  rollback real loops. Six IDs are enough for two complete deploys and for a
  second one after three containers were left; a second deploy that finds four
  stops at the scale-up, by this bound.
- *Lines.* Four: the queued line, two of the job, the result. A line is seen in
  at most two pieces, which is all the reader can tell apart.
- *Children.* Four, the last of which does not crash by itself: enough for a
  failing fork between two restarts. Three backoffs are the code's number.
- *Workflow, containers.* One workflow: workflows share nothing but the host,
  whose containers change at any time anyway. Two containers can be two
  services, of one base name or not, or two of one with other labels, or one in
  place of another. The kinds are a registry with a port, by tag and by digest,
  another service's image of the same base name, a local image with words of the
  API in its name, and a container without labels. A workflow exchanges its OIDC
  token successfully once and deploys once, at any point; what it is refused it
  may ask again. A token of one
  tick and a clock of two put the expiry before, at and after each request.
- *.env, pull.* Three lines hold a setting of IMAGE_TAG before and after another
  line, twice, commented out, in a form that only docker compose reads, and a trailing newline or none. One event before
  the end of a pull is enough for a loop that looks at one at a time. The .env
  is not edited once it has been copied, as nobody reads it again.
- *Images.* Four with two ages and keep 1: equal ages, several removals, the
  deployed image in every position, every set of them in use or tagged in
  another repository as well.

Deadlock checking is off (`CHECK_DEADLOCK FALSE`) where the system may stop:
requests run out, the process has exited, a deploy is over, a job hangs by
assumption. In `RegistryAccess` the host never stops, and it is on.

Assumptions about the constants are named in the modules and checked of each
instance. Three are more than the kind of a constant. In `RegistryAccess`, no tag
is called `manifests`, `tags`, `referrers`, `blobs` or `uploads`
(`TagsAreNoKeywords`): a restriction of the model, as the proxy takes such a tag
for the call and denies the push (`proxy.go:44-78`). In `Discovery`, an app's name
is the last word of its image's path, in front of tag and digest, which defines
the name (`DiscoveryAssumption`; that this is what `baseName(RepoFromRef(...))`
computes is the lemma `BaseOfRef`). In `DeployFiles`, only the blank line sets no
variable, and an image written in the service's own section resolves to IMAGE_TAG
exactly if it says so (`DeployFilesAssumption`).

## 5. Fairness

- `JobQueue.FairSpec`: goroutines that can run do, the mutex is starvation free
  (Go's is), the timer of `Drain` fires. No call has to be made, and no job
  function has to return; the one property that needs the latter states it as
  its premise (`WF_vars(Return)`).
- `JobService.FairSpec`: handlers poll and time out; the worker takes the next
  job and does what needs nobody else (`LocalStep`); the shutdown goroutine
  proceeds; the container's restart policy starts the process again. Not fair:
  requests, signals, kills, clients that leave, and every call of the worker to
  the outside (`DockerStep`, the notification). The job context has no deadline
  (`main.go:121`; `executor.go:147, 164, 169` pass it on), only a rollback has
  one, of 30 seconds, and `http.DefaultClient` has none. So
  `AcceptedBecomesFinal` has the premise `CallsReturn`, that no such call keeps
  the worker for ever; the other two properties of the run need no premise.
- `Rollout.FairSpec`: Rollout's own steps, among them each Docker and compose
  call: `RolloutReturns` shows that its loops end if these return. Containers
  owe it nothing, since `waitHealthy` has a deadline.
- `LogStream.FairSpec`: the reader runs, and so does the writer where it waits
  for nobody. The wait in the queue and the job's own steps need not end;
  `StreamEnds` has it as its premise that they do (`JobReturns`).
- `RegistryManager.FairSpec`: goroutines run, timers fire, a killed child ends,
  a signalled one too unless it is deaf. Forks may fail for ever.

## 6. Proofs

Every safety property that a passing run checks is also proved, for every value
of the constants. Each proof goes the same way: the properties are not inductive as they stand, so each module states the
strengthening that is (`IInv`, a conjunction of named parts), which TLC checked
on the run's instance before it was proved; there is one lemma per action, under
it one step per part the action can disturb, and frame lemmas for the parts it
cannot. Every proof extends the very module the run checks.

| Module | Theorems, and the property each states |
|---|---|
| `JobQueueProofs` | `TypeCorrect` (`TypeOK`), `NeverPanics` (`NoPanic`), `RunExactlyAccepted` (`RunIffAccepted`), `DrainKeepsItsPromise` (`DrainTrueMeansAllFinished`), `QueueImplementsFifo` (`ImplementsFifo`) |
| `JobServiceProofs` | `TypeCorrect` (`TypeOK`), `RunningRowsAreInHand` (`RunningRowIsInHand`), `RowsTellTheDeploy` (`RowTellsTheDeploy`), `ToldIsTrue` (`ToldAgreesWithRow`), `RefusedNeverRuns` (`RefusedIsNeverRun`), `DrainedMeansFinal` (`CleanDrainLeavesNoWork`), `RowsNeverGoBack` (`RowsOnlyAdvance`) |
| `RolloutProofs` | `NoDowntime` (`ZeroDowntime`), `OldOnesStopLast` (`OldStoppedOnlyByDrain`), `DeploysInTwoPhases` (`ImplementsDeploy`), `SuccessesAreKept` (its own `SuccessIsKept`), `ReplicasPreserved` (`ReplicasArePreserved`), `FailureRollsBack` (`HealthFailureRollsBack`) |
| `LogStreamProofs` | `FollowsTheFile` (`StreamFollowsFile`), `LateReadersSeeAll` (`LateReaderSeesAll`) |
| `RegistryManagerProofs` | `TypeCorrect` (`TypeOK`), `OneAtATime` (`OneChildAtATime`), `RunningIsKnown` (`RunningChildIsKnown`), `StopLeavesNone` (`NothingOutlivesStop`) |
| `RegistryAccessProofs` | `FoundIfItRan` (`NotFoundMeansNoneRan`), `TokenOpensOneRepository` (`TokenOpensItsRepository`), `NothingBeforeAdmission` (`AdmittedBeforeAll`) |
| `DeployFilesProofs` | `RunsWhatWasAsked` (`StartsWhatWasAsked`), `RunsWhatWasPulled` (`StartsWhatWasPulled`) |
| `ImagePruneProofs` | `NewestStay` (`OnlySupersededGo`), `RestGoes` (`NothingElseIsLeft`), `NeverFromUnderAContainer` (`UsedImagesStay`) |

*The queue.* `NoPanic` needs to know that a caller between its check and its
send or close holds the mutex (`LockHeld`), and that the flag it has read cannot
have changed since (`FlagAndChannel`). `DrainTrueMeansAllFinished` needs that
the channel is closed only after the flag is set, and that the worker leaves its
loop only when the channel is closed and empty (`Closing`). The refinement maps
each step to the step of the abstract runner or to a stutter: a send is
`Accept`, the flag `Close`, a receive `Begin`, a return `End`, everything else
changes only what the mapping forgets. Assumed: a capacity above 0, callers that
either enqueue or drain.

*The service.* Three places know of a job: its handler, the queue and the table.
The invariant says what the row and the deploy of a job are by the place it is
in: not handed over or refused, and untouched (`NotHandedOver`); buffered, and
untouched but for the insert (`Buffer`); in the worker's hand, as far as its
position inside `run` says (`InHand`); returned, and final (`Returned`). These
are four different sets of jobs because no job is accepted twice (`Accepted`),
which is what makes a step about one leave the others alone. A restart forgets
the queue, and this is where `RunningRowIsInHand` is at stake: what is running
in the table then was in the worker's hand, and is failed by the repair. A
failed write of the worker is remembered by job (`lost`), a failed repair by the
rows it left (`unmarked`), and the parts say what is still true of those. An
insert that fails leaves nothing behind and is not one of them.

*The rollout.* For every number of replicas, deploys and container IDs, and for
the faults of the run that checks the property, stated as an assumption on
`Faults`. `Steady` is that of `RolloutFaults`: containers keep their health once
they have it, and every Docker and compose call may fail, the process may be
cancelled or killed at any point. `NoDowntime`, `OldOnesStopLast` and the
refinement are proved under it; without it there is nothing to prove, since a
container that dies between two looks takes the service down whatever the code
does. `Calm` is that of `RolloutContainers`: containers die, restart and change
their health as they like, calls succeed and the process runs. Counting
replicas needs it: a rollback whose calls fail leaves containers behind.
The invariant has a part that holds whatever fails (`Base`: `oldIDs` was there
before, `newIDs` is of this deploy, the loops stay inside their own set), one
for `Steady` (`EnoughServe`: the deploy is always backed by enough containers
it will not touch, old ones up to the last health check and new ones after it),
and one for `Calm` (`Inventory`: how many containers there are at each point).
`DeploysInTwoPhases` maps each step to one of the contract or to a stutter
(`NextMaps`). `SuccessesAreKept` uses that map again: a version whose deploy
reported success stays in service or gives way to one whose deploy did not fail.
A `Retire` could take it for a version that is not in service itself, if the
deploy it is done for were not backed by its new containers; that it is follows
from `EnoughServe`.

*The log stream.* For a job of any number of lines and every set of faults.
Nothing comes between the two pieces of a line (`PiecesAdjoin`), so what
`ReadString` returns, up to the first newline it finds, is a line or the end of
one (`ChunkFacts`), and what it returns at the end of the file has no newline:
the ends of lines sent stay those read past (`Received`), whether or not the
handler has dropped the beginning of a line. A final row is of a file that does
not grow any more (`LogIsComplete`: the writer is past its last line or gone),
so a client that came after it reads to the end once (`Position`) and drops
nothing. Both properties speak of `FlattenSeq`, a recursive function; that it
exists, is the only one, and puts one more sequence behind what there was
(`FlattenAppend`) is shown from the least length for which it would not be so,
which needs no induction principle.

*The registry manager.* For every number of children and every set of faults.
One goroutine at a time is in a position to fork (`Positions`), and it has seen
the end of all earlier children (`EarlierEnded`), which is the end of their
`Wait` goroutines too (`WaiterFollowsLife`): so those cannot wipe out the `m.cmd`
of a later child (`CmdFollowsWaiter`). `NothingOutlivesStop` is an action
property over a condition on the schedule; it is proved with a second invariant
of what `Stop` has in hand (`Stopping`).

*Discovery, tokens, the proxy.* For any number of workflows and containers, and
names of any number of segments. Three facts about the operators carry it. The
base name of a reference is the last segment of its name whatever registry, port
and tag are around it (`BaseOfRef`, `BaseOfName`), so bare names and full
references find by the same thing (`MatchingFacts`, `ListingFacts`). The
repository in a path is what is in front of the last call, also when its own
segments are words of the API (`RepoInFront`, `BehindTheRepo`). And a token lets
requests through exactly for its repository and time (`PushAuth`). The invariant
then follows a workflow: what is about to be inspected is called as was asked,
however long ago Docker listed it (`FoundItsService`); the secret and a registry
token come from one exchange, with the service that admitted it (`Holds`), and
only the secret deploys (`DeployedAsAsked`). Assumed, by name:
`TagsAreNoKeywords`, and two about what the constants are (`RequestsAssumption`,
`DiscoveryAssumption`).

*The files of a deploy.* For every compose file, every .env over any lines and
every stream of events. What counts in an .env is the last line that sets a
variable (`LastOfFacts`); `setEnvLine` makes its own the last plain one of its
kind and moves no other (`SetEnvLineFacts`). `Copies` says that what compose gets
is such a copy; `Replaced`, that behind the pull the earlier image is gone, since
nothing but the end of the stream leads there.

*Image pruning.* For every set of images and every `Keep`. The candidates once
sorted do not change, nor do ages; what goes is one that the loop has passed and
not kept (`OnlyPassedGo`), so the first `Keep` are still there, and so is what had
a container when the lists were made (`NoneWasUsed`). `ListsAreTrue` is
what the lists are worth while nobody interferes; `NothingElseIsLeft` then is a
count.

Only model-checked, and why:

- the liveness properties (`StreamEnds`, `RolloutReturns` and the others under a
  `FairSpec`): fairness is stated with ENABLED, outside of what the provers
  handle;
- the two runs that expect a violation, which are counterexamples.

## 7. Not modelled

- Text: log lines, notification formats, the encoding of tokens and headers,
  the configuration file of Zot, YAML and JSON parsing.
- Signatures: that a JWT verifies is nondeterministic, that only RollHook mints
  its tokens is taken for granted. A secret that begins like a JWT (`eyJ`)
  would be taken for one (`oidc/verifier.go:72-75`) and is left out.
- `/health` and the server's routing: one flag, set once and read.
- Containers whose tag has been moved are listed by Docker under their image's
  ID and are found by nobody; `RegistryAccess` contains it (`TagMoves`) and
  says nothing of it. Tags that are never moved avoid it.
- The mount of a blob from another repository (`POST /blobs/uploads/?from=`).
- Untagged parents of an image, which its removal takes along
  (`PruneChildren`, `api.go:258`); Docker keeps those that are in use.
- Values of an .env that span lines, of which `setEnvLine` would take one that
  begins with `IMAGE_TAG=` for a setting.
- The other services of a compose project, which `compose up` also brings up.
- `store.Get` failing inside a handler: the handler only tries again, and its
  deadline is modelled.
- An unexpected read error in the log stream, which ends it.
- The orphan left when `main` ends by `log.Fatal` after the registry was forked
  (`main.go:77`): in the shipped container the PID namespace ends with it.
- Docker and Compose are external: `DockerHost` says what `rollout.go` expects
  of them, and lets every call fail.

## 8. Plan

Done: the queue; the service on top of it; the rollout; the log stream; the
registry manager; the image pruner; the deploy contract between rollout and
service; discovery, token exchange, push and deploy; the files of a deploy; and
the proofs of section 6. Next:

1. `Discovery` composed with `Rollout`: the service found is gone or replaced
   when the rollout lists its containers.
