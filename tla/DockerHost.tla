----------------------------- MODULE DockerHost -----------------------------
(***************************************************************************)
(* The containers of one Compose service on the Docker host, as            *)
(* internal/docker/api.go sees and changes them, and what Docker and       *)
(* `docker compose up --no-recreate --scale` do to them by themselves.     *)
(* Docker and Compose are not part of the repository: their behaviour is   *)
(* the one internal/jobs/steps/rollout.go relies on.                       *)
(*                                                                         *)
(* Faults: "api"      a Docker call returns an error                       *)
(*         "compose"  compose up exits with an error part of the way       *)
(*         "die"      a container's process ends, and may be restarted     *)
(*         "flap"     a healthy container turns unhealthy, and back        *)
(***************************************************************************)
EXTENDS Naturals, FiniteSets

CONSTANTS Ids,      \* container IDs, none of them ever used twice
          Tags,     \* the images of the service
          Faults    \* which faults may happen

ASSUME IdsAssumption == IsFiniteSet(Ids)

VARIABLES life,     \* "none"; "running"; "exited" by itself; "stopped" by a call,
                    \* or never started; "removed"
          health,   \* State.Health.Status
          image     \* the image each container was created from

hostVars == <<life, health, image>>

\* All: true lists a container in any state.
Existing == {i \in Ids : life[i] \in {"running", "exited", "stopped"}}

NotRunning == {i \in Ids : life[i] \in {"exited", "stopped"}}

\* The containers the proxy may route to.
Serving == {i \in Ids : life[i] = "running" /\ health[i] = "healthy"}

Unused == {i \in Ids : life[i] = "none"}

ApiFails == "api" \in Faults /\ UNCHANGED hostVars

-----------------------------------------------------------------------------
\* internal/docker/api.go

\* Stopping a stopped container is a success.  A stopped container's health
\* monitor reports unhealthy.
StopContainer(i) ==
  /\ life' = [life EXCEPT ![i] = "stopped"]
  /\ health' = [health EXCEPT ![i] = "unhealthy"]
  /\ UNCHANGED image

\* Without Force Docker refuses to remove a running container.
RemoveContainer(i) ==
  /\ life[i] # "running"
  /\ life' = [life EXCEPT ![i] = "removed"]
  /\ UNCHANGED <<health, image>>

RemoveRefused(i) == life[i] = "running" /\ UNCHANGED hostVars

-----------------------------------------------------------------------------
\* docker compose up -d --no-recreate --scale service=n

\* `new` are created from `tag`; `new` and the stopped containers in `started`
\* begin to run.  A container without a healthcheck never passes waitHealthy:
\* it is born unhealthy.
Bring(new, started, tag) ==
  /\ life' = [i \in Ids |-> IF i \in started THEN "running"
                            ELSE IF i \in new THEN "stopped"
                            ELSE life[i]]
  /\ image' = [i \in Ids |-> IF i \in new THEN tag ELSE image[i]]
  /\ \E born \in [new -> {"starting", "unhealthy"}] :
        health' = [i \in Ids |-> IF i \in new THEN born[i]
                                 ELSE IF i \in started THEN "starting"
                                 ELSE health[i]]

\* It creates what is missing and starts everything that does not run.
ComposeUp(n, tag) ==
  \E new \in SUBSET Unused :
     /\ Cardinality(new) + Cardinality(Existing) = n
     /\ Bring(new, new \cup NotRunning, tag)

\* It stops on an error, or is killed, with any part of that done.
ComposeUpFails(n, tag) ==
  \E new \in SUBSET Unused : \E started \in SUBSET (new \cup NotRunning) :
     /\ Cardinality(new) + Cardinality(Existing) <= n
     /\ Bring(new, started, tag)

-----------------------------------------------------------------------------
\* What containers do by themselves.

BecomeHealthy(i) ==
  /\ life[i] = "running"
  /\ health[i] = "starting"
  /\ health' = [health EXCEPT ![i] = "healthy"]
  /\ UNCHANGED <<life, image>>

FailHealthcheck(i) ==
  /\ life[i] = "running"
  /\ \/ health[i] = "starting"
     \/ health[i] = "healthy" /\ "flap" \in Faults
  /\ health' = [health EXCEPT ![i] = "unhealthy"]
  /\ UNCHANGED <<life, image>>

Recover(i) ==
  /\ "flap" \in Faults
  /\ life[i] = "running"
  /\ health[i] = "unhealthy"
  /\ health' = [health EXCEPT ![i] = "healthy"]
  /\ UNCHANGED <<life, image>>

Die(i) ==
  /\ "die" \in Faults
  /\ life[i] = "running"
  /\ life' = [life EXCEPT ![i] = "exited"]
  /\ health' = [health EXCEPT ![i] = "unhealthy"]
  /\ UNCHANGED image

\* restart: unless-stopped
RestartPolicy(i) ==
  /\ "die" \in Faults
  /\ life[i] = "exited"
  /\ life' = [life EXCEPT ![i] = "running"]
  /\ health' = [health EXCEPT ![i] = "starting"]
  /\ UNCHANGED image

ContainerStep(i) == \/ BecomeHealthy(i) \/ FailHealthcheck(i) \/ Recover(i)
                    \/ Die(i) \/ RestartPolicy(i)

=============================================================================
