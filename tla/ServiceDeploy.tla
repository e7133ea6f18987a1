---------------------------- MODULE ServiceDeploy ----------------------------
(***************************************************************************)
(* What steps.Rollout promises of one service, deploy after deploy, with   *)
(* containers reduced to the versions that have a healthy one: "It scales  *)
(* up new containers, waits for them to be healthy, then drains the old    *)
(* ones" (rollout.go:25-27).  A deploy prepares, and may still fail and    *)
(* leave everything in service as it was, until it commits, its version    *)
(* being in service; only then are other versions taken out.  The process  *)
(* may end at any point and leave a deploy cut off.                        *)
(*                                                                         *)
(* The promise is about containers that keep their health.  Rollout        *)
(* implements this module, and JobService uses it as its rollout step.     *)
(***************************************************************************)
CONSTANTS Versions,  \* what may be deployed, each at most once
          First      \* the version in service before the first deploy

VARIABLES serving,   \* the versions with a container clients may be routed to
          outcome    \* how far the deploy of each version has come, or how it ended

deployVars == <<serving, outcome>>

Active == {"preparing", "committed"}

Outcomes == {"none", "success", "failed", "cut"} \cup Active

DeployInit ==
  /\ serving = {First}
  /\ outcome = [v \in Versions |-> IF v = First THEN "success" ELSE "none"]

-----------------------------------------------------------------------------

Becomes(v, how) == outcome' = [outcome EXCEPT ![v] = how]

\* One deploy at a time.
BeginDeploy(v) ==
  /\ outcome[v] = "none"
  /\ \A w \in Versions : outcome[w] \notin Active
  /\ Becomes(v, "preparing")
  /\ UNCHANGED serving

\* A container turns healthy: of the deploy under way, or one that an earlier
\* deploy has left behind.
EnterService(v) ==
  /\ outcome[v] # "none"
  /\ serving' = serving \cup {v}
  /\ UNCHANGED outcome

\* A deploy that has not committed takes back its own version, and no other.
Withdraw(v) ==
  /\ outcome[v] = "preparing"
  /\ serving' = serving \ {v}
  /\ serving' # {}
  /\ UNCHANGED outcome

Commit(v) ==
  /\ outcome[v] = "preparing"
  /\ v \in serving
  /\ Becomes(v, "committed")
  /\ UNCHANGED serving

Retire(v, others) ==
  /\ outcome[v] = "committed"
  /\ v \in serving \ others
  /\ serving' = serving \ others
  /\ UNCHANGED outcome

Succeed(v) ==
  /\ outcome[v] = "committed"
  /\ Becomes(v, "success")
  /\ UNCHANGED serving

Abort(v) ==
  /\ outcome[v] = "preparing"
  /\ Becomes(v, "failed")
  /\ UNCHANGED serving

CutOff(v) ==
  /\ outcome[v] \in Active
  /\ Becomes(v, "cut")
  /\ UNCHANGED serving

DeployNext ==
  \E v \in Versions :
     \/ BeginDeploy(v) \/ EnterService(v) \/ Withdraw(v) \/ Commit(v)
     \/ \E others \in SUBSET Versions : Retire(v, others)
     \/ Succeed(v) \/ Abort(v) \/ CutOff(v)

DeploySpec == DeployInit /\ [][DeployNext]_deployVars

=============================================================================
