------------------------------- MODULE Rollout -------------------------------
(***************************************************************************)
(* steps.Rollout of internal/jobs/steps/rollout.go, called for one service *)
(* once per deploy, one deploy after the other (the queue sees to that),   *)
(* against a Docker host whose containers change state between any two of  *)
(* its steps.  The job context may be cancelled between any two steps (the *)
(* shutdown's Drain timed out, main.go:225-227), after which the process   *)
(* exits; the process may also be killed, and is started again.            *)
(*                                                                         *)
(* Further faults: "cancel" and "crash".                                   *)
(***************************************************************************)
EXTENDS DockerHost

CONSTANTS Replicas,   \* containers of the service before the first deploy
          Rounds      \* bound on the number of deploys

ASSUME RolloutAssumption ==
  /\ Replicas \in Nat \ {0}
  /\ Rounds \in Nat
  /\ Tags = 0..Rounds     \* deploy r brings image r

VARIABLES pc,         \* where Rollout is; "idle" between calls
          round,      \* the number of the current deploy
          result,     \* how each deploy ended
          old,        \* oldIDs
          newIds,     \* newIDs
          todo,       \* containers the current loop has still to handle
          doing,      \* the container the loop is at: {} or one
          cancelled   \* the job context is cancelled

loopVars == <<old, newIds, todo, doing>>
vars == <<hostVars, pc, round, result, loopVars, cancelled>>

Init ==
  /\ \E first \in SUBSET Ids :
        /\ Cardinality(first) = Replicas
        /\ life = [i \in Ids |-> IF i \in first THEN "running" ELSE "none"]
        /\ health = [i \in Ids |-> IF i \in first THEN "healthy" ELSE "starting"]
  /\ image = [i \in Ids |-> 0]
  /\ pc = "idle"
  /\ round = 0
  /\ result = [r \in 1..Rounds |-> "none"]
  /\ old = {}
  /\ newIds = {}
  /\ todo = {}
  /\ doing = {}
  /\ cancelled = FALSE

-----------------------------------------------------------------------------

Finish(how) ==
  /\ pc' = "idle"
  /\ result' = [result EXCEPT ![round] = how]
  /\ UNCHANGED <<round, cancelled>>

Goto(p) == pc' = p /\ UNCHANGED <<round, result, cancelled>>

Stay == UNCHANGED <<pc, round, result, cancelled>>

\* 0 containers scale to 1, more to twice as many.
scaleTargetOneMore(n) == n + 1   \* mistake: one more instead of twice

scaleTarget(n) == IF n = 0 THEN 1 ELSE 2 * n

\* expectedNew in Rollout, never less than one.
ExpectedNew == IF scaleTarget(Cardinality(old)) - Cardinality(old) < 1 THEN 1
               ELSE scaleTarget(Cardinality(old)) - Cardinality(old)

\* Discover found a running container of the service; Rollout is called.
Start ==
  /\ pc = "idle"
  /\ ~cancelled
  /\ round < Rounds
  /\ \E i \in Ids : life[i] = "running"
  /\ round' = round + 1
  /\ pc' = "list"
  /\ UNCHANGED <<hostVars, result, loopVars, cancelled>>

\* Mistake: the old containers are not filtered out.
findAnyContainers == Existing

findNewContainers == Existing \ old

\* The containers before the scale-up, in any state.
ListOld ==
  /\ pc = "list"
  /\ ~cancelled
  /\ old' = Existing
  /\ newIds' = {}
  /\ Goto("compose")
  /\ UNCHANGED <<hostVars, todo, doing>>

\* The list call or writeTempEnv fails.
ListOldFails ==
  /\ pc = "list"
  /\ cancelled \/ "api" \in Faults
  /\ old' = {}
  /\ newIds' = {}
  /\ Finish("failed")
  /\ UNCHANGED <<hostVars, todo, doing>>

ScaleUp ==
  /\ pc = "compose"
  /\ ~cancelled
  /\ ComposeUp(scaleTarget(Cardinality(old)), round)
  /\ Goto("poll")
  /\ UNCHANGED loopVars

\* compose exits with an error, or is killed by the cancelled context: return.
ScaleUpFails ==
  /\ pc = "compose"
  /\ cancelled \/ "compose" \in Faults
  /\ ComposeUpFails(scaleTarget(Cardinality(old)), round)
  /\ Finish("failed")
  /\ UNCHANGED loopVars

\* pollNewContainers sees as many new containers as it expects.
PollFinds ==
  /\ pc = "poll"
  /\ ~cancelled
  /\ Cardinality(findNewContainers) >= ExpectedNew
  /\ newIds' = findNewContainers
  /\ todo' = findNewContainers
  /\ Goto("wait")
  /\ UNCHANGED <<hostVars, old, doing>>

\* Its list call fails, the context is done, or Docker's list lags for all of
\* its attempts: return.
PollFails ==
  /\ pc = "poll"
  /\ cancelled \/ "api" \in Faults
  /\ Finish("failed")
  /\ UNCHANGED <<hostVars, loopVars>>

\* The new containers are waited for one after the other.
WaitNext ==
  /\ pc = "wait"
  /\ doing = {}
  /\ \E i \in todo : doing' = {i}
  /\ Stay
  /\ UNCHANGED <<hostVars, old, newIds, todo>>

\* Mistake: whatever is not unhealthy passes.
NotUnhealthy(i) == health[i] # "unhealthy"

Healthy(i) == health[i] = "healthy"

\* waitHealthy inspects its container and sees it healthy.
WaitSucceeds ==
  /\ pc = "wait"
  /\ ~cancelled
  /\ \E i \in doing : Healthy(i)
  /\ todo' = todo \ doing
  /\ doing' = {}
  /\ Stay
  /\ UNCHANGED <<hostVars, old, newIds>>

\* Mistake: everything is rolled back, the old containers too.
WaitFailsClearsAll ==
  /\ pc = "wait"
  /\ doing # {}
  /\ todo' = Existing
  /\ doing' = {}
  /\ Goto("rollback")
  /\ UNCHANGED <<hostVars, old, newIds>>

\* Mistake: only the container that failed is rolled back.
WaitFailsClearsOne ==
  /\ pc = "wait"
  /\ doing # {}
  /\ todo' = doing
  /\ doing' = {}
  /\ Goto("rollback")
  /\ UNCHANGED <<hostVars, old, newIds>>

\* Mistake: no deadline.
WaitFailsWithoutDeadline ==
  /\ pc = "wait"
  /\ \E i \in doing : health[i] = "unhealthy"
  /\ todo' = newIds
  /\ doing' = {}
  /\ Goto("rollback")
  /\ UNCHANGED <<hostVars, old, newIds>>

\* waitHealthy returns an error: unhealthy, no healthcheck, an inspect error,
\* a done context, or its deadline, which may pass at any time.
WaitFails ==
  /\ pc = "wait"
  /\ doing # {}
  /\ todo' = newIds
  /\ doing' = {}
  /\ Goto("rollback")
  /\ UNCHANGED <<hostVars, old, newIds>>

AllAreHealthy == todo = {}

WaitedForAll ==
  /\ pc = "wait"
  /\ AllAreHealthy
  /\ todo' = old
  /\ Goto("drain")
  /\ UNCHANGED <<hostVars, old, newIds, doing>>

\* The drain and the rollback loop stop, then remove, one container at a time
\* and only log an error.  The drain uses the job context, the rollback its own.
CallsFail == pc = "drain" /\ cancelled /\ UNCHANGED hostVars

StopNext ==
  /\ pc \in {"drain", "rollback"}
  /\ doing = {}
  /\ \E i \in todo :
        /\ doing' = {i}
        /\ \/ ~(pc = "drain" /\ cancelled) /\ StopContainer(i)
           \/ CallsFail
           \/ ApiFails
  /\ Stay
  /\ UNCHANGED <<old, newIds, todo>>

RemoveNext ==
  /\ pc \in {"drain", "rollback"}
  /\ \E i \in doing :
        \/ ~(pc = "drain" /\ cancelled) /\ (RemoveContainer(i) \/ RemoveRefused(i))
        \/ CallsFail
        \/ ApiFails
  /\ todo' = todo \ doing
  /\ doing' = {}
  /\ Stay
  /\ UNCHANGED <<old, newIds>>

DrainEnds ==
  /\ pc = "drain"
  /\ todo = {}
  /\ Finish("success")
  /\ UNCHANGED <<hostVars, loopVars>>

RollbackEnds ==
  /\ pc = "rollback"
  /\ todo = {}
  /\ Finish("failed")
  /\ UNCHANGED <<hostVars, loopVars>>

-----------------------------------------------------------------------------
\* The process around it.

Busy == pc \notin {"idle", "down"}

\* The shutdown's Drain timed out: cancelJobs.
Cancel ==
  /\ "cancel" \in Faults
  /\ Busy
  /\ ~cancelled
  /\ cancelled' = TRUE
  /\ UNCHANGED <<hostVars, pc, round, result, loopVars>>

\* A scale-up under way stops with any part of it done.
GoDown ==
  /\ \/ pc = "compose" /\ ComposeUpFails(scaleTarget(Cardinality(old)), round)
     \/ pc # "compose" /\ UNCHANGED hostVars
  /\ pc' = "down"
  /\ result' = IF Busy THEN [result EXCEPT ![round] = "cut"] ELSE result
  /\ cancelled' = FALSE
  /\ todo' = {}
  /\ doing' = {}
  /\ UNCHANGED <<round, old, newIds>>

\* main stops the registry and the server and returns, whatever Rollout does.
Exit ==
  /\ cancelled
  /\ GoDown

Crash ==
  /\ "crash" \in Faults
  /\ pc # "down"
  /\ GoDown

Boot ==
  /\ pc = "down"
  /\ Goto("idle")
  /\ UNCHANGED <<hostVars, loopVars>>

-----------------------------------------------------------------------------

RolloutStep == \/ ListOld \/ ListOldFails \/ ScaleUp \/ ScaleUpFails
               \/ PollFinds \/ PollFails \/ WaitNext \/ WaitSucceeds \/ WaitFails
               \/ WaitedForAll \/ StopNext \/ RemoveNext \/ DrainEnds \/ RollbackEnds

Containers ==
  /\ \E i \in Ids : ContainerStep(i)
  /\ UNCHANGED <<pc, round, result, loopVars, cancelled>>

Next ==
  \/ Start
  \/ RolloutStep
  \/ Containers
  \/ Cancel
  \/ Exit
  \/ Crash
  \/ Boot

Spec == Init /\ [][Next]_vars

(* Rollout's own steps are taken: its Docker and compose calls return, and *)
(* the deadline of waitHealthy fires.  Containers owe it nothing.          *)
FairSpec == Spec /\ WF_vars(RolloutStep)

-----------------------------------------------------------------------------
\* Properties

\* The latest deploy has ended, and this is how.
Reported(how) == pc = "idle" /\ round > 0 /\ result[round] = how

\* Zero downtime, the purpose of the program: while the containers themselves
\* neither die nor lose their health, the service always has as many healthy
\* containers as it started with, through failed calls, a failed or partial
\* scale-up, cancellation, crashes and the deploys that follow them
\* (rollout.go:25-27, zero-downtime.test.ts:93).
ZeroDowntime == Cardinality(Serving) >= Replicas

\* A container that was there before the deploy is stopped or removed only
\* when each new one has been seen healthy, and never by a deploy that ends
\* as failed (rollout.go:91-112, rollout-failure.test.ts:11).
OldStoppedOnlyByDrain ==
  [][\A i \in old :
       life[i] = "running" /\ life'[i] # "running" =>
          pc = "drain" /\ newIds # {} /\ newIds \cap old = {}
          /\ newIds \subseteq Serving]_vars

\* When a health check fails and Docker answers, nothing of the new image is
\* left behind and the deploy can be repeated, whatever the containers do in
\* the meantime: die, restart, turn healthy late (rollout.go:97-99).
HealthFailureRollsBack ==
  Reported("failed") => \A i \in Existing : image[i] # round

\* Between deploys the service has exactly the containers it started with,
\* during one never more than twice as many, and after a successful one they
\* all run the new image (zero-downtime.test.ts:93, 115-117,
\* queue.test.ts:53-54).  Containers die, restart and change their health at
\* any time; calls succeed.
ReplicasArePreserved ==
  /\ Cardinality(Existing) <= 2 * Replicas
  /\ pc = "idle" => Cardinality(Existing) = Replicas
  /\ Reported("success") => \A i \in Existing : image[i] = round

\* Rollout is a deploy in two phases: whatever calls fail, whatever is cut off
\* and whatever earlier deploys left behind, up to the last health check only
\* its own containers are taken out of service, after it only others, some
\* version always serves, and it reports success exactly if it passed that
\* check (rollout.go:25-27, 97-116, rollout-failure.test.ts:11).
Deploys == INSTANCE ServiceDeploy WITH
  Versions <- Tags,
  First    <- 0,
  serving  <- {image[i] : i \in Serving},
  outcome  <- [r \in Tags |->
                 IF r = 0 THEN "success"
                 ELSE IF r = round /\ Busy
                   THEN IF pc = "drain" THEN "committed" ELSE "preparing"
                 ELSE result[r]]

ImplementsDeploy == Deploys!DeploySpec

\* Rollout returns even if a new container never leaves "starting"
\* (rollout.go:129-136).
RolloutReturns == pc = "list" ~> ~Busy

=============================================================================
