---------------------------- MODULE RolloutProofs ----------------------------
(***************************************************************************)
(* Proofs about Rollout for every number of containers, replicas and       *)
(* deploys.                                                                *)
(*                                                                         *)
(* What a theorem needs of the host is an assumption on Faults, the one    *)
(* under which the corresponding run checks it.  Steady: containers keep   *)
(* their health once they have it; calls may fail, compose may stop half   *)
(* way, the process may be cancelled or killed at any point.  Calm: calls  *)
(* and the process are reliable; containers may do what they like.         *)
(*                                                                         *)
(* The argument.  oldIDs and newIDs are disjoint and of different images,  *)
(* and the loops keep within them (Base).  Up to the last health check     *)
(* enough of the old containers serve and only new ones are touched; the   *)
(* drain begins when all new ones serve, and they are as many as the old   *)
(* ones (EnoughServe).  When nothing fails, both sets can be counted at    *)
(* each point of a deploy (Inventory).                                     *)
(*                                                                         *)
(* What a successful deploy leaves in service follows from the steps of    *)
(* ServiceDeploy that those of Rollout are (NextMaps).                     *)
(***************************************************************************)
EXTENDS Rollout, TLAPS, FiniteSetTheorems

-----------------------------------------------------------------------------
\* The invariant, whatever fails

Lives   == {"none", "running", "exited", "stopped", "removed"}
Healths == {"starting", "healthy", "unhealthy"}
Ends    == {"none", "success", "failed", "cut"}

InLoop    == pc \in {"wait", "drain", "rollback"}
AfterList == InLoop \/ pc \in {"compose", "poll"}

TypeOK ==
  /\ life \in [Ids -> Lives]
  /\ health \in [Ids -> Healths]
  /\ image \in [Ids -> Tags]
  /\ pc \in {"idle", "down", "list", "compose", "poll", "wait", "drain", "rollback"}
  /\ round \in 0..Rounds
  /\ result \in [1..Rounds -> Ends]
  /\ old \subseteq Ids /\ newIds \subseteq Ids /\ todo \subseteq Ids /\ doing \subseteq Ids
  /\ cancelled \in BOOLEAN

\* The deploys up to the current one have ended, or it is under way.
Results ==
  /\ Busy => round \in 1..Rounds
  /\ \A r \in 1..Rounds : result[r] = "none" <=> r > round \/ (r = round /\ Busy)

\* What is in oldIDs was there before the deploy, what is in newIDs was brought
\* by it; until a loop removes them they are there.
Generations ==
  /\ \A i \in Ids : image[i] <= round
  /\ pc = "list" => \A i \in Existing : image[i] # round
  /\ AfterList => \A i \in old : image[i] # round
  /\ AfterList /\ pc # "drain" => old \subseteq Existing
  /\ pc = "compose" => Existing \subseteq old
  /\ pc = "poll" => \A i \in Existing \ old : image[i] = round
  /\ InLoop => newIds \cap old = {} /\ \A i \in newIds : image[i] = round
  /\ pc = "wait" => newIds \subseteq Existing

\* The loops go over their own containers, one at a time.
Loops ==
  /\ \A i, k \in doing : i = k
  /\ IF InLoop THEN doing \subseteq todo /\ todo \subseteq Existing ELSE doing = {}
  /\ pc \in {"wait", "rollback"} => todo \subseteq newIds
  /\ pc = "drain" => todo \subseteq old

HealthyRuns == \A i \in Ids : health[i] = "healthy" => life[i] = "running"

Base == TypeOK /\ Results /\ Generations /\ Loops /\ HealthyRuns

-----------------------------------------------------------------------------
\* While containers neither die nor lose their health

Steady == "die" \notin Faults /\ "flap" \notin Faults

\* Enough containers serve that this deploy does not touch: before the last
\* health check old ones, after it new ones.
EnoughServe ==
  /\ ~AfterList => Cardinality(Serving) >= Replicas
  /\ AfterList /\ pc # "drain" => Cardinality(Serving \cap old) >= Replicas
  /\ pc \in {"wait", "drain"} => Cardinality(newIds) >= Replicas
  /\ pc = "wait" => newIds \ todo \subseteq Serving
  /\ pc = "drain" => newIds \subseteq Serving

-----------------------------------------------------------------------------
\* While every call succeeds and the process runs

Calm == Faults \cap {"api", "compose", "cancel", "crash"} = {}

\* The containers there are, at each point of a deploy.
Inventory ==
  /\ ~cancelled /\ pc # "down"
  /\ pc \in {"idle", "list"} => Cardinality(Existing) = Replicas
  /\ AfterList => Cardinality(old) = Replicas
  /\ pc = "compose" => Existing = old
  /\ pc \in {"poll", "wait"} => Cardinality(Existing) = 2 * Replicas
  /\ pc = "wait" => newIds = Existing \ old
  /\ pc = "rollback" => Existing = old \cup todo
  /\ pc = "drain" => Existing = newIds \cup todo
  /\ InLoop => Cardinality(newIds) = Replicas
  /\ pc \in {"drain", "rollback"} => \A i \in doing : life[i] = "stopped"
  /\ Reported("success") => \A i \in Existing : image[i] = round
  /\ Reported("failed") => \A i \in Existing : image[i] # round
-----------------------------------------------------------------------------
\* The host's operations

\* What compose up creates and starts serves nobody yet, and what serves is
\* left alone.
LEMMA BringFacts ==
  ASSUME TypeOK, HealthyRuns, NEW tag \in Tags,
         NEW new \in SUBSET Unused, NEW started \in SUBSET (new \cup NotRunning),
         Bring(new, started, tag)
  PROVE  /\ life' \in [Ids -> Lives] /\ health' \in [Ids -> Healths] /\ image' \in [Ids -> Tags]
         /\ HealthyRuns'
         /\ Existing' = Existing \cup new
         /\ Serving' = Serving
         /\ \A i \in Ids : life[i] # "none" => life'[i] # "none" /\ image'[i] = image[i]
         /\ \A i \in new : life'[i] # "none" /\ image'[i] = tag
         /\ \A i \in Ids \ new : image'[i] = image[i]
<1>1. PICK born \in [new -> {"starting", "unhealthy"}] :
        health' = [i \in Ids |-> IF i \in new THEN born[i]
                                 ELSE IF i \in started THEN "starting"
                                 ELSE health[i]]
  BY DEF Bring
<1>2. /\ life' = [i \in Ids |-> IF i \in started THEN "running"
                                ELSE IF i \in new THEN "stopped"
                                ELSE life[i]]
      /\ image' = [i \in Ids |-> IF i \in new THEN tag ELSE image[i]]
  BY DEF Bring
<1>3. /\ new \subseteq Ids /\ \A i \in new : life[i] = "none"
      /\ started \subseteq Ids
      /\ \A i \in started : life[i] \in {"none", "exited", "stopped"}
      /\ \A i \in started : i \notin new => life[i] \in {"exited", "stopped"}
  BY DEF Unused, NotRunning
<1>4. life' \in [Ids -> Lives] /\ health' \in [Ids -> Healths] /\ image' \in [Ids -> Tags]
  BY <1>1, <1>2, <1>3 DEF TypeOK, Lives, Healths
<1>5. \A i \in Ids : health'[i] = "healthy" <=> health[i] = "healthy" /\ i \notin new \cup started
  BY <1>1, <1>3
<1>6. \A i \in Ids : health[i] = "healthy" => i \notin new \cup started
  BY <1>3 DEF HealthyRuns
<1>7. HealthyRuns'
  BY <1>2, <1>5 DEF HealthyRuns
<1>8. Existing' = Existing \cup new
  BY <1>2, <1>3 DEF Existing
<1>9. Serving' = Serving
  BY <1>2, <1>3, <1>5, <1>6 DEF Serving
<1>10. /\ \A i \in Ids : life[i] # "none" => life'[i] # "none" /\ image'[i] = image[i]
       /\ \A i \in new : life'[i] # "none" /\ image'[i] = tag
       /\ \A i \in Ids \ new : image'[i] = image[i]
  BY <1>2, <1>3
<1> QED
  BY <1>4, <1>7, <1>8, <1>9, <1>10

\* compose up creates some containers, whether it ends well or not.
LEMMA ComposeFacts ==
  ASSUME TypeOK, HealthyRuns, NEW n, NEW tag \in Tags,
         ComposeUp(n, tag) \/ ComposeUpFails(n, tag)
  PROVE  \E new \in SUBSET Unused :
           /\ ComposeUp(n, tag) => Cardinality(new) + Cardinality(Existing) = n
           /\ life' \in [Ids -> Lives] /\ health' \in [Ids -> Healths] /\ image' \in [Ids -> Tags]
           /\ HealthyRuns'
           /\ Existing' = Existing \cup new
           /\ Serving' = Serving
           /\ \A i \in Ids : life[i] # "none" => life'[i] # "none" /\ image'[i] = image[i]
           /\ \A i \in new : life'[i] # "none" /\ image'[i] = tag
           /\ \A i \in Ids \ new : image'[i] = image[i]
<1>1. CASE ComposeUp(n, tag)
  <2>1. PICK new \in SUBSET Unused : /\ Cardinality(new) + Cardinality(Existing) = n
                                     /\ Bring(new, new \cup NotRunning, tag)
    BY <1>1 DEF ComposeUp
  <2>2. PICK started \in SUBSET (new \cup NotRunning) : Bring(new, started, tag)
    BY <2>1
  <2> QED
    BY <2>1, <2>2, BringFacts
<1>2. CASE ~ComposeUp(n, tag) /\ ComposeUpFails(n, tag)
  <2>1. PICK new \in SUBSET Unused : \E started \in SUBSET (new \cup NotRunning) :
               Bring(new, started, tag)
    BY <1>2 DEF ComposeUpFails
  <2> QED
    BY <1>2, <2>1, BringFacts
<1> QED
  BY <1>1, <1>2

LEMMA StopFacts ==
  ASSUME TypeOK, HealthyRuns, NEW i \in Existing, StopContainer(i)
  PROVE  /\ life' \in [Ids -> Lives] /\ health' \in [Ids -> Healths] /\ image' = image
         /\ HealthyRuns'
         /\ Existing' = Existing
         /\ Serving' = Serving \ {i}
         /\ life'[i] = "stopped"
         /\ \A k \in Ids \ {i} : life'[k] = life[k]
<1>1. /\ life' = [life EXCEPT ![i] = "stopped"]
      /\ health' = [health EXCEPT ![i] = "unhealthy"]
      /\ image' = image
  BY DEF StopContainer
<1>2. i \in Ids /\ life[i] # "none" /\ life[i] # "removed"
  BY DEF Existing
<1>3. life' \in [Ids -> Lives] /\ health' \in [Ids -> Healths]
  BY <1>1 DEF TypeOK, Lives, Healths
<1>4. HealthyRuns'
  BY <1>1 DEF HealthyRuns, TypeOK
<1>5. Existing' = Existing
  BY <1>1 DEF Existing, TypeOK
<1>6. Serving' = Serving \ {i}
  BY <1>1 DEF Serving, TypeOK
<1>7. life'[i] = "stopped" /\ \A k \in Ids \ {i} : life'[k] = life[k]
  BY <1>1, <1>2 DEF TypeOK
<1> QED
  BY <1>1, <1>3, <1>4, <1>5, <1>6, <1>7

LEMMA RemoveFacts ==
  ASSUME TypeOK, HealthyRuns, NEW i \in Ids, RemoveContainer(i)
  PROVE  /\ life' \in [Ids -> Lives] /\ health' \in [Ids -> Healths] /\ image' = image
         /\ HealthyRuns'
         /\ Existing' = Existing \ {i}
         /\ Serving' = Serving
         /\ life[i] # "running"
         /\ \A k \in Ids \ {i} : life'[k] = life[k]
<1>1. /\ life[i] # "running"
      /\ life' = [life EXCEPT ![i] = "removed"]
      /\ health' = health /\ image' = image
  BY DEF RemoveContainer
<1>2. life' \in [Ids -> Lives] /\ health' \in [Ids -> Healths]
  BY <1>1 DEF TypeOK, Lives
<1>3. HealthyRuns' /\ Existing' = Existing \ {i} /\ Serving' = Serving
  BY <1>1 DEF HealthyRuns, Existing, Serving, TypeOK
<1>4. \A k \in Ids \ {i} : life'[k] = life[k]
  BY <1>1 DEF TypeOK
<1> QED
  BY <1>1, <1>2, <1>3, <1>4

LEMMA ContainerFacts ==
  ASSUME TypeOK, HealthyRuns, NEW i \in Ids, ContainerStep(i)
  PROVE  /\ life' \in [Ids -> Lives] /\ health' \in [Ids -> Healths] /\ image' = image
         /\ HealthyRuns'
         /\ Existing' = Existing
         /\ \A k \in Ids : life[k] = "stopped" => life'[k] = "stopped"
         /\ Steady => /\ Serving' = Serving \/ Serving' = Serving \cup {i}
                      /\ life' = life
<1>1. CASE Die(i) \/ RestartPolicy(i)
  <2>1. PICK l \in {"exited", "running"}, h \in {"unhealthy", "starting"} :
          /\ life[i] \in {"exited", "running"}
          /\ life' = [life EXCEPT ![i] = l]
          /\ health' = [health EXCEPT ![i] = h]
          /\ image' = image /\ ~Steady
    BY <1>1 DEF Die, RestartPolicy, Steady
  <2>2. life' \in [Ids -> Lives] /\ health' \in [Ids -> Healths]
    BY <2>1 DEF TypeOK, Lives, Healths
  <2>3. HealthyRuns' /\ Existing' = Existing
    BY <2>1 DEF HealthyRuns, Existing, TypeOK
  <2>4. \A k \in Ids : life[k] = "stopped" => life'[k] = "stopped"
    BY <2>1 DEF TypeOK
  <2> QED
    BY <2>1, <2>2, <2>3, <2>4
<1>2. CASE BecomeHealthy(i) \/ FailHealthcheck(i) \/ Recover(i)
  <2>1. PICK h \in {"unhealthy", "healthy"} :
          /\ life[i] = "running"
          /\ health' = [health EXCEPT ![i] = h]
          /\ life' = life /\ image' = image
          /\ Steady => health[i] = "starting"
    BY <1>2 DEF BecomeHealthy, FailHealthcheck, Recover, Steady
  <2>2. health' \in [Ids -> Healths]
    BY <2>1 DEF TypeOK, Healths
  <2>3. HealthyRuns' /\ Existing' = Existing
    BY <2>1 DEF HealthyRuns, Existing, TypeOK
  <2>4. Steady => Serving' = Serving \/ Serving' = Serving \cup {i}
    BY <2>1 DEF Serving, TypeOK
  <2> QED
    BY <2>1, <2>2, <2>3, <2>4 DEF TypeOK
<1> QED
  BY <1>1, <1>2 DEF ContainerStep
-----------------------------------------------------------------------------
\* The deploys one after the other

LEMMA FinishFacts ==
  ASSUME TypeOK, Results, Busy, NEW how \in {"success", "failed"}, Finish(how)
  PROVE  /\ pc' = "idle" /\ round' = round /\ cancelled' = cancelled
         /\ result' \in [1..Rounds -> Ends]
         /\ result'[round] = how
         /\ Results'
<1>1. /\ pc' = "idle" /\ round' = round /\ cancelled' = cancelled
      /\ result' = [result EXCEPT ![round] = how]
  BY DEF Finish
<1>2. round \in 1..Rounds
  BY DEF Results
<1>3. result' \in [1..Rounds -> Ends]
  BY <1>1 DEF TypeOK, Ends
<1>4. /\ result'[round] = how
      /\ \A r \in 1..Rounds : r # round => result'[r] = result[r]
  BY <1>1, <1>2 DEF TypeOK
<1>5. Results'
  BY <1>1, <1>2, <1>4 DEF Results, Busy
<1> QED
  BY <1>1, <1>3, <1>4, <1>5

\* Between two positions of a deploy.
LEMMA BusyStays ==
  ASSUME Results, Busy, Busy', UNCHANGED <<round, result>>
  PROVE  Results'
  BY DEF Results

LEMMA HostStays ==
  ASSUME UNCHANGED hostVars
  PROVE  /\ UNCHANGED <<life, health, image, Existing, Serving>>
         /\ HealthyRuns => HealthyRuns'
  BY DEF hostVars, Existing, Serving, HealthyRuns

\* A step of Rollout, or of the process, that leaves the host alone.
Quiet == \/ Start \/ ListOld \/ ListOldFails \/ PollFinds \/ PollFails
         \/ WaitNext \/ WaitSucceeds \/ WaitFails \/ WaitedForAll
         \/ DrainEnds \/ RollbackEnds \/ Cancel \/ Boot

LEMMA QuietKeepsBase ==
  ASSUME Base, Quiet
  PROVE  Base'
<1> USE DEF Base
<1>1. UNCHANGED hostVars
  BY DEF Quiet, Start, ListOld, ListOldFails, PollFinds, PollFails, WaitNext, WaitSucceeds,
         WaitFails, WaitedForAll, DrainEnds, RollbackEnds, Cancel, Boot
<1>2. UNCHANGED <<life, health, image, Existing, Serving>> /\ HealthyRuns'
  BY <1>1, HostStays
<1>3. Existing \subseteq Ids
  BY DEF Existing
<1>4. CASE Start
  <2>1. /\ pc = "idle" /\ round < Rounds /\ round' = round + 1 /\ pc' = "list"
        /\ UNCHANGED <<result, old, newIds, todo, doing, cancelled>>
    BY <1>4 DEF Start, loopVars
  <2>2. round' \in 1..Rounds /\ round \in 0..Rounds /\ round \in Nat
    BY <2>1, RolloutAssumption DEF TypeOK
  <2>3. TypeOK'
    BY <1>2, <2>1, <2>2 DEF TypeOK
  <2>4. Results'
    BY <2>1, <2>2 DEF Results, Busy
  <2>5. Generations'
    <3>1. \A i \in Ids : image[i] \in Nat /\ image[i] <= round
      BY RolloutAssumption DEF TypeOK, Generations
    <3>2. \A i \in Ids : image[i] <= round' /\ image[i] # round'
      BY <2>1, <2>2, <3>1
    <3> QED
      BY <1>2, <1>3, <2>1, <3>2 DEF Generations, AfterList, InLoop
  <2>6. Loops'
    BY <2>1 DEF Loops, InLoop
  <2> QED
    BY <1>2, <2>3, <2>4, <2>5, <2>6
<1>5. CASE ListOld
  <2>1. /\ pc = "list" /\ pc' = "compose" /\ old' = Existing /\ newIds' = {}
        /\ UNCHANGED <<round, result, todo, doing, cancelled>>
    BY <1>5 DEF ListOld, Goto
  <2>2. TypeOK'
    BY <1>2, <1>3, <2>1 DEF TypeOK
  <2>3. Results'
    BY <2>1, BusyStays DEF Busy
  <2>4. Generations' /\ Loops'
    BY <1>2, <2>1 DEF Generations, Loops, AfterList, InLoop
  <2> QED
    BY <1>2, <2>2, <2>3, <2>4
<1>6. CASE ListOldFails \/ PollFails \/ DrainEnds \/ RollbackEnds
  <2>1. PICK how \in {"success", "failed"} : Finish(how)
    BY <1>6 DEF ListOldFails, PollFails, DrainEnds, RollbackEnds
  <2>2. /\ Busy
        /\ old' \in {old, {}} /\ newIds' \in {newIds, {}} /\ UNCHANGED <<todo, doing>>
        /\ InLoop => todo = {}
    BY <1>6 DEF ListOldFails, PollFails, DrainEnds, RollbackEnds, Busy, InLoop, loopVars
  <2>3. /\ pc' = "idle" /\ round' = round /\ cancelled' = cancelled
        /\ result' \in [1..Rounds -> Ends] /\ Results'
    BY <2>1, <2>2, FinishFacts
  <2>4. TypeOK'
    BY <1>2, <2>2, <2>3 DEF TypeOK
  <2>5. Generations'
    BY <1>2, <2>3 DEF Generations, AfterList, InLoop
  <2>6. Loops'
    BY <2>2, <2>3 DEF Loops, InLoop
  <2> QED
    BY <1>2, <2>3, <2>4, <2>5, <2>6
<1>7. CASE PollFinds
  <2>1. /\ pc = "poll" /\ pc' = "wait" /\ newIds' = Existing \ old /\ todo' = Existing \ old
        /\ UNCHANGED <<round, result, old, doing, cancelled>>
    BY <1>7 DEF PollFinds, Goto, findNewContainers
  <2>2. TypeOK'
    BY <1>2, <1>3, <2>1 DEF TypeOK
  <2>3. Results'
    BY <2>1, BusyStays DEF Busy
  <2>4. Generations'
    BY <1>2, <2>1 DEF Generations, AfterList, InLoop
  <2>5. Loops'
    BY <1>2, <2>1 DEF Loops, InLoop
  <2> QED
    BY <1>2, <2>2, <2>3, <2>4, <2>5
<1>8. CASE WaitNext \/ WaitSucceeds
  <2>1. /\ pc = "wait" /\ pc' = "wait"
        /\ UNCHANGED <<round, result, old, newIds, cancelled>>
        /\ todo' \subseteq todo /\ doing' \subseteq todo'
        /\ \A i, k \in doing' : i = k
    BY <1>8 DEF WaitNext, WaitSucceeds, Stay
  <2>2. TypeOK'
    BY <1>2, <2>1 DEF TypeOK
  <2>3. Results'
    BY <2>1, BusyStays DEF Busy
  <2>4. Generations'
    BY <1>2, <2>1 DEF Generations, AfterList, InLoop
  <2>5. Loops'
    BY <1>2, <2>1 DEF Loops, InLoop
  <2> QED
    BY <1>2, <2>2, <2>3, <2>4, <2>5
<1>9. CASE WaitFails \/ WaitedForAll
  <2>1. /\ pc = "wait" /\ doing' = {}
        /\ \/ pc' = "rollback" /\ todo' = newIds
           \/ pc' = "drain" /\ todo' = old
        /\ UNCHANGED <<round, result, old, newIds, cancelled>>
    BY <1>9 DEF WaitFails, WaitedForAll, AllAreHealthy, Goto, Loops, InLoop
  <2>2. TypeOK'
    BY <1>2, <2>1 DEF TypeOK
  <2>3. Results'
    BY <2>1, BusyStays DEF Busy
  <2>4. Generations'
    BY <1>2, <2>1 DEF Generations, AfterList, InLoop
  <2>5. Loops'
    BY <1>2, <2>1 DEF Loops, InLoop, Generations, AfterList
  <2> QED
    BY <1>2, <2>2, <2>3, <2>4, <2>5
<1>10. CASE Cancel \/ Boot
  <2>1. /\ UNCHANGED <<round, result, old, newIds, todo, doing>>
        /\ cancelled' \in BOOLEAN
        /\ \/ pc' = pc
           \/ pc = "down" /\ pc' = "idle"
    BY <1>10 DEF Cancel, Boot, Goto, loopVars, TypeOK
  <2>2. TypeOK'
    BY <1>2, <2>1 DEF TypeOK
  <2>3. Results'
    BY <2>1 DEF Results, Busy
  <2>4. Generations'
    BY <1>2, <2>1 DEF Generations, AfterList, InLoop
  <2>5. Loops'
    BY <1>2, <2>1 DEF Loops, InLoop
  <2> QED
    BY <1>2, <2>2, <2>3, <2>4, <2>5
<1> QED
  BY <1>4, <1>5, <1>6, <1>7, <1>8, <1>9, <1>10 DEF Quiet

\* compose up, however far it came.
LEMMA ScaleUpKeepsBase ==
  ASSUME Base, ScaleUp \/ ScaleUpFails
  PROVE  Base'
<1> USE DEF Base
<1>1. /\ pc = "compose" /\ UNCHANGED <<old, newIds, todo, doing>>
      /\ \/ pc' = "poll" /\ UNCHANGED <<round, result, cancelled>>
         \/ Finish("failed")
  BY DEF ScaleUp, ScaleUpFails, Goto, loopVars
<1>2. /\ round' = round /\ cancelled' = cancelled
      /\ pc' \in {"poll", "idle"}
      /\ result' \in [1..Rounds -> Ends] /\ Results'
  <2>1. Busy
    BY <1>1 DEF Busy
  <2>2. CASE pc' = "poll" /\ UNCHANGED <<round, result, cancelled>>
    BY <2>1, <2>2, BusyStays DEF Busy, TypeOK
  <2> QED
    BY <1>1, <2>1, <2>2, FinishFacts
<1>3. round \in Tags /\ round \in Nat
  BY RolloutAssumption DEF TypeOK
<1>4. PICK new \in SUBSET Unused :
        /\ life' \in [Ids -> Lives] /\ health' \in [Ids -> Healths] /\ image' \in [Ids -> Tags]
        /\ HealthyRuns'
        /\ Existing' = Existing \cup new
        /\ \A i \in Ids : life[i] # "none" => image'[i] = image[i]
        /\ \A i \in new : image'[i] = round
        /\ \A i \in Ids \ new : image'[i] = image[i]
  BY <1>3, ComposeFacts DEF ScaleUp, ScaleUpFails
<1>5. TypeOK'
  BY <1>1, <1>2, <1>4 DEF TypeOK
<1>6. Generations'
  <2>1. \A i \in Existing : i \in Ids /\ life[i] # "none"
    BY DEF Existing
  <2>2. Existing = old
    BY <1>1 DEF Generations, AfterList
  <2>3. \A i \in old : image'[i] # round'
    BY <1>1, <1>2, <1>4, <2>1, <2>2 DEF Generations, AfterList
  <2>4. \A i \in Ids : image'[i] <= round'
    BY <1>2, <1>3, <1>4 DEF Generations
  <2> QED
    BY <1>1, <1>2, <1>4, <2>2, <2>3, <2>4 DEF Generations, AfterList, InLoop
<1>7. Loops'
  BY <1>1, <1>2 DEF Loops, InLoop
<1> QED
  BY <1>2, <1>4, <1>5, <1>6, <1>7

\* One container of the loop is stopped, or removed, or the call fails.
LEMMA LoopFacts ==
  ASSUME Base, StopNext \/ RemoveNext
  PROVE  /\ pc \in {"drain", "rollback"} /\ UNCHANGED <<pc, round, result, cancelled, old, newIds>>
         /\ life' \in [Ids -> Lives] /\ health' \in [Ids -> Healths] /\ image' = image
         /\ HealthyRuns'
         /\ \E i \in todo :
              /\ \/ StopNext /\ doing' = {i} /\ todo' = todo /\ Existing' = Existing
                 \/ /\ RemoveNext /\ doing = {i} /\ doing' = {} /\ todo' = todo \ {i}
                    /\ Existing' \in {Existing, Existing \ {i}} /\ Serving' = Serving
              /\ Serving' \in {Serving, Serving \ {i}}
              /\ \A k \in Ids \ {i} : life'[k] = life[k]
<1> USE DEF Base
<1>1. pc \in {"drain", "rollback"} /\ UNCHANGED <<pc, round, result, cancelled, old, newIds>>
  BY DEF StopNext, RemoveNext, Stay
<1>2. todo \subseteq Existing /\ doing \subseteq todo /\ todo \subseteq Ids
  BY <1>1 DEF Loops, InLoop, TypeOK
<1>3. CASE StopNext
  <2>1. PICK i \in todo : /\ doing' = {i} /\ todo' = todo
                          /\ StopContainer(i) \/ UNCHANGED hostVars
    BY <1>3 DEF StopNext, CallsFail, ApiFails
  <2>2. CASE StopContainer(i)
    BY <1>1, <1>2, <1>3, <2>1, <2>2, StopFacts
  <2>3. CASE UNCHANGED hostVars
    BY <1>1, <1>2, <1>3, <2>1, <2>3, HostStays DEF TypeOK
  <2> QED
    BY <2>1, <2>2, <2>3
<1>4. CASE RemoveNext
  <2>1. PICK i \in doing : RemoveContainer(i) \/ UNCHANGED hostVars
    BY <1>4 DEF RemoveNext, CallsFail, ApiFails, RemoveRefused
  <2>2. doing = {i} /\ doing' = {} /\ todo' = todo \ {i} /\ i \in todo
    BY <1>2, <1>4, <2>1 DEF RemoveNext, Loops
  <2>3. CASE RemoveContainer(i)
    BY <1>1, <1>2, <1>4, <2>2, <2>3, RemoveFacts
  <2>4. CASE UNCHANGED hostVars
    BY <1>1, <1>2, <1>4, <2>2, <2>4, HostStays DEF TypeOK
  <2> QED
    BY <2>1, <2>3, <2>4
<1> QED
  BY <1>3, <1>4

LEMMA LoopKeepsBase ==
  ASSUME Base, StopNext \/ RemoveNext
  PROVE  Base'
<1> USE DEF Base
<1>1. /\ pc \in {"drain", "rollback"} /\ UNCHANGED <<pc, round, result, cancelled, old, newIds>>
      /\ life' \in [Ids -> Lives] /\ health' \in [Ids -> Healths] /\ image' = image
      /\ HealthyRuns'
  BY LoopFacts
<1>2. PICK i \in todo :
        \/ doing' = {i} /\ todo' = todo /\ Existing' = Existing
        \/ /\ doing = {i} /\ doing' = {} /\ todo' = todo \ {i}
           /\ Existing' \in {Existing, Existing \ {i}}
  BY LoopFacts
<1>3. todo \subseteq Existing /\ doing \subseteq todo /\ todo \subseteq Ids
  BY <1>1 DEF Loops, InLoop, TypeOK
<1>4. TypeOK'
  BY <1>1, <1>2, <1>3 DEF TypeOK
<1>5. Results'
  BY <1>1, BusyStays DEF Busy
<1>6. Loops'
  <2>1. /\ doing' \subseteq todo' /\ todo' \subseteq Existing' /\ todo' \subseteq todo
        /\ \A j, k \in doing' : j = k
    BY <1>2, <1>3
  <2> QED
    BY <1>1, <2>1 DEF Loops, InLoop
<1>7. Generations'
  <2>1. pc # "drain" => old \subseteq Existing'
    BY <1>1, <1>2 DEF Generations, AfterList, InLoop, Loops
  <2> QED
    BY <1>1, <2>1 DEF Generations, AfterList, InLoop
<1> QED
  BY <1>1, <1>4, <1>5, <1>6, <1>7

\* The process goes; a compose up under way may have done some of its work.
LEMMA GoDownFacts ==
  ASSUME Base, GoDown
  PROVE  /\ life' \in [Ids -> Lives] /\ health' \in [Ids -> Healths] /\ image' \in [Ids -> Tags]
         /\ HealthyRuns'
         /\ Serving' = Serving
         /\ \A i \in Serving : image'[i] = image[i]
         /\ \A i \in Ids : image'[i] <= round
<1> USE DEF Base
<1>1. \A i \in Serving : i \in Ids /\ life[i] # "none"
  BY DEF Serving
<1>2. CASE UNCHANGED hostVars
  BY <1>2, HostStays DEF TypeOK, Generations
<1>3. CASE pc = "compose" /\ ComposeUpFails(scaleTarget(Cardinality(old)), round)
  <2>1. round \in Tags /\ round <= round
    BY RolloutAssumption DEF TypeOK
  <2>2. PICK new \in SUBSET Unused :
          /\ life' \in [Ids -> Lives] /\ health' \in [Ids -> Healths] /\ image' \in [Ids -> Tags]
          /\ HealthyRuns' /\ Serving' = Serving
          /\ \A i \in Ids : life[i] # "none" => image'[i] = image[i]
          /\ \A i \in new : image'[i] = round
          /\ \A i \in Ids \ new : image'[i] = image[i]
    BY <1>3, <2>1, ComposeFacts
  <2> QED
    BY <1>1, <2>1, <2>2 DEF Generations
<1> QED
  BY <1>2, <1>3 DEF GoDown

LEMMA GoDownKeepsBase ==
  ASSUME Base, GoDown
  PROVE  Base'
<1> USE DEF Base
<1>1. /\ pc' = "down" /\ cancelled' = FALSE /\ todo' = {} /\ doing' = {}
      /\ UNCHANGED <<round, old, newIds>>
      /\ result' = IF Busy THEN [result EXCEPT ![round] = "cut"] ELSE result
  BY DEF GoDown
<1>2. result' \in [1..Rounds -> Ends]
  BY <1>1 DEF TypeOK, Ends
<1>3. TypeOK' /\ HealthyRuns'
  BY <1>1, <1>2, GoDownFacts DEF TypeOK
<1>4. Results'
  BY <1>1 DEF Results, TypeOK, Busy
<1>5. Generations' /\ Loops'
  BY <1>1, GoDownFacts DEF Generations, Loops, AfterList, InLoop
<1> QED
  BY <1>3, <1>4, <1>5

LEMMA ContainersKeepBase ==
  ASSUME Base, Containers
  PROVE  Base'
<1> USE DEF Base
<1>1. UNCHANGED <<pc, round, result, old, newIds, todo, doing, cancelled>>
  BY DEF Containers, loopVars
<1>2. /\ life' \in [Ids -> Lives] /\ health' \in [Ids -> Healths] /\ image' = image
      /\ HealthyRuns' /\ Existing' = Existing
  BY ContainerFacts DEF Containers
<1>3. TypeOK'
  BY <1>1, <1>2 DEF TypeOK
<1>4. Results'
  BY <1>1 DEF Results, Busy
<1>5. Generations' /\ Loops'
  BY <1>1, <1>2 DEF Generations, Loops, AfterList, InLoop
<1> QED
  BY <1>2, <1>3, <1>4, <1>5

LEMMA InitBase == Init => Base
<1> SUFFICES ASSUME Init PROVE Base
  OBVIOUS
<1>1. PICK first \in SUBSET Ids :
        /\ life = [i \in Ids |-> IF i \in first THEN "running" ELSE "none"]
        /\ health = [i \in Ids |-> IF i \in first THEN "healthy" ELSE "starting"]
  BY DEF Init
<1>2. /\ image = [i \in Ids |-> 0] /\ pc = "idle" /\ round = 0
      /\ result = [r \in 1..Rounds |-> "none"]
      /\ old = {} /\ newIds = {} /\ todo = {} /\ doing = {} /\ cancelled = FALSE
  BY DEF Init
<1>3. 0 \in Tags /\ 0 \in 0..Rounds
  BY RolloutAssumption
<1>4. life \in [Ids -> Lives] /\ health \in [Ids -> Healths] /\ HealthyRuns
  BY <1>1 DEF Lives, Healths, HealthyRuns
<1>5. TypeOK
  BY <1>2, <1>3, <1>4 DEF TypeOK, Ends
<1>6. Results
  BY <1>2 DEF Results, Busy
<1>7. Generations /\ Loops
  BY <1>2 DEF Generations, Loops, AfterList, InLoop
<1> QED
  BY <1>4, <1>5, <1>6, <1>7 DEF Base

\* Every step of the system is of one of five kinds.
LEMMA StepKinds ==
  ASSUME [Next]_vars
  PROVE  \/ Quiet \/ ScaleUp \/ ScaleUpFails \/ StopNext \/ RemoveNext
         \/ Containers
         \/ GoDown /\ (Exit \/ Crash)
         \/ UNCHANGED vars
  BY DEF Next, RolloutStep, Quiet, Exit, Crash

LEMMA NextBase == Base /\ [Next]_vars => Base'
<1> SUFFICES ASSUME Base, [Next]_vars PROVE Base'
  OBVIOUS
<1>1. CASE UNCHANGED vars
  <2>1. UNCHANGED <<life, health, image, pc, round, result, old, newIds, todo, doing, cancelled>>
    BY <1>1 DEF vars, hostVars, loopVars
  <2> QED
    BY <2>1 DEF Base, TypeOK, Results, Generations, Loops, HealthyRuns, Busy, AfterList, InLoop,
                Existing
<1> QED
  BY <1>1, StepKinds, QuietKeepsBase, ScaleUpKeepsBase, LoopKeepsBase, ContainersKeepBase,
     GoDownKeepsBase

LEMMA AlwaysBase == Spec => []Base
  BY InitBase, NextBase, PTL DEF Spec

-----------------------------------------------------------------------------
\* Zero downtime

LEMMA Sizes ==
  ASSUME NEW S \in SUBSET Ids, NEW T \in SUBSET S
  PROVE  /\ Cardinality(S) \in Nat /\ Cardinality(T) \in Nat
         /\ Cardinality(T) <= Cardinality(S)
<1>1. IsFiniteSet(S)
  BY IdsAssumption, FS_Subset
<1>2. IsFiniteSet(T) /\ Cardinality(T) <= Cardinality(S)
  BY <1>1, FS_Subset
<1> QED
  BY <1>1, <1>2, FS_CardinalityType

\* What Rollout waits for is no fewer containers than there were, if there
\* were any.
LEMMA ExpectsAsMany ==
  ASSUME old \subseteq Ids, Cardinality(old) >= Replicas
  PROVE  ExpectedNew = Cardinality(old) /\ scaleTarget(Cardinality(old)) = 2 * Cardinality(old)
<1>1. Cardinality(old) \in Nat /\ Replicas \in Nat \ {0}
  BY Sizes, RolloutAssumption
<1> QED
  BY <1>1 DEF ExpectedNew, scaleTarget

LEMMA EnoughServeNow ==
  ASSUME Base, EnoughServe
  PROVE  ZeroDowntime
<1> USE DEF Base, EnoughServe
<1>1. Serving \subseteq Ids /\ Serving \in SUBSET Ids /\ Replicas \in Nat
  BY RolloutAssumption DEF Serving
<1>2. CASE ~AfterList
  BY <1>2 DEF ZeroDowntime
<1>3. CASE AfterList /\ pc # "drain"
  <2>1. Cardinality(Serving \cap old) <= Cardinality(Serving)
    BY <1>1, Sizes
  <2> QED
    BY <1>1, <1>3, <2>1, Sizes DEF ZeroDowntime
<1>4. CASE pc = "drain"
  <2>1. newIds \in SUBSET Serving
    BY <1>4
  <2> QED
    BY <1>1, <1>4, <2>1, Sizes DEF ZeroDowntime
<1> QED
  BY <1>2, <1>3, <1>4

LEMMA QuietKeepsServing ==
  ASSUME Base, EnoughServe, Quiet
  PROVE  EnoughServe'
<1> USE DEF Base
<1>1. UNCHANGED hostVars
  BY DEF Quiet, Start, ListOld, ListOldFails, PollFinds, PollFails, WaitNext, WaitSucceeds,
         WaitFails, WaitedForAll, DrainEnds, RollbackEnds, Cancel, Boot
<1>2. UNCHANGED <<life, health, Existing, Serving>>
  BY <1>1, HostStays
<1>3. Existing \subseteq Ids /\ Serving \subseteq Existing
  BY DEF Existing, Serving
<1>4. Cardinality(Serving) >= Replicas
  BY EnoughServeNow DEF ZeroDowntime
<1>5. CASE Start \/ ListOldFails \/ PollFails \/ DrainEnds \/ RollbackEnds \/ Boot
  <2>1. pc' \in {"idle", "list"}
    BY <1>5 DEF Start, ListOldFails, PollFails, DrainEnds, RollbackEnds, Boot, Finish, Goto
  <2> QED
    BY <1>2, <1>4, <2>1 DEF EnoughServe, AfterList, InLoop
<1>6. CASE ListOld
  <2>1. pc' = "compose" /\ old' = Existing
    BY <1>6 DEF ListOld, Goto
  <2>2. Serving \cap Existing = Serving
    BY <1>3
  <2> QED
    BY <1>2, <1>4, <2>1, <2>2 DEF EnoughServe, AfterList, InLoop
<1>7. CASE PollFinds
  <2>1. /\ pc = "poll" /\ pc' = "wait" /\ newIds' = Existing \ old /\ todo' = Existing \ old
        /\ old' = old /\ Cardinality(Existing \ old) >= ExpectedNew
    BY <1>7 DEF PollFinds, Goto, findNewContainers
  <2>2. Cardinality(Serving \cap old) >= Replicas
    BY <2>1 DEF EnoughServe, AfterList, InLoop
  <2>3. old \in SUBSET Ids /\ Serving \cap old \in SUBSET old /\ Replicas \in Nat
    BY RolloutAssumption DEF TypeOK
  <2>4. Cardinality(old) >= Replicas /\ Cardinality(old) \in Nat
    BY <2>2, <2>3, Sizes
  <2>5. Existing \ old \in SUBSET Ids
    BY <1>3
  <2>6. Cardinality(Existing \ old) >= Replicas
    BY <2>1, <2>3, <2>4, <2>5, ExpectsAsMany, Sizes
  <2> QED
    BY <1>2, <2>1, <2>2, <2>6 DEF EnoughServe, AfterList, InLoop
<1>8. CASE WaitNext
  BY <1>2, <1>8 DEF WaitNext, Stay, EnoughServe, AfterList, InLoop
<1>9. CASE WaitSucceeds
  <2>1. PICK i \in doing : Healthy(i)
    BY <1>9 DEF WaitSucceeds
  <2>2. /\ pc = "wait" /\ UNCHANGED <<pc, old, newIds>> /\ todo' = todo \ doing
    BY <1>9 DEF WaitSucceeds, Stay
  <2>3. doing = {i} /\ i \in Ids
    BY <2>1 DEF Loops, TypeOK
  <2>4. i \in Serving
    BY <2>1, <2>3 DEF Healthy, HealthyRuns, Serving
  <2> QED
    BY <1>2, <2>2, <2>3, <2>4 DEF EnoughServe, AfterList, InLoop
<1>10. CASE WaitFails
  BY <1>2, <1>10 DEF WaitFails, Goto, EnoughServe, AfterList, InLoop
<1>11. CASE WaitedForAll
  BY <1>2, <1>11 DEF WaitedForAll, AllAreHealthy, Goto, EnoughServe, AfterList, InLoop
<1>12. CASE Cancel
  BY <1>2, <1>12 DEF Cancel, loopVars, EnoughServe, AfterList, InLoop
<1> QED
  BY <1>5, <1>6, <1>7, <1>8, <1>9, <1>10, <1>11, <1>12 DEF Quiet

\* Compose, the containers and the end of the process take nothing out of
\* service.
LEMMA OthersKeepServing ==
  ASSUME Steady, Base, EnoughServe,
         ScaleUp \/ ScaleUpFails \/ Containers \/ GoDown \/ UNCHANGED vars
  PROVE  EnoughServe'
<1> USE DEF Base
<1>1. Cardinality(Serving) >= Replicas
  BY EnoughServeNow DEF ZeroDowntime
<1>2. CASE ScaleUp \/ ScaleUpFails
  <2>1. round \in Tags
    BY RolloutAssumption DEF TypeOK
  <2>2. Serving' = Serving
    BY <1>2, <2>1, ComposeFacts DEF ScaleUp, ScaleUpFails
  <2>3. pc = "compose" /\ pc' \in {"poll", "idle"} /\ old' = old
    BY <1>2 DEF ScaleUp, ScaleUpFails, Goto, Finish, loopVars
  <2> QED
    BY <1>1, <2>2, <2>3 DEF EnoughServe, AfterList, InLoop
<1>3. CASE Containers
  <2>1. UNCHANGED <<pc, old, newIds, todo>>
    BY <1>3 DEF Containers, loopVars
  <2>2. PICK i \in Ids : Serving' = Serving \/ Serving' = Serving \cup {i}
    BY <1>3, ContainerFacts DEF Containers
  <2>3. /\ Serving' \in SUBSET Ids /\ Serving \in SUBSET Serving'
        /\ Serving' \cap old \in SUBSET Ids /\ Serving \cap old \in SUBSET (Serving' \cap old)
        /\ Replicas \in Nat
    BY <2>2, RolloutAssumption DEF Serving
  <2>4. /\ Cardinality(Serving') >= Cardinality(Serving)
        /\ Cardinality(Serving' \cap old) >= Cardinality(Serving \cap old)
        /\ Cardinality(Serving') \in Nat /\ Cardinality(Serving' \cap old) \in Nat
        /\ Cardinality(Serving) \in Nat /\ Cardinality(Serving \cap old) \in Nat
    BY <2>3, Sizes
  <2>5. ~AfterList => Cardinality(Serving') >= Replicas
    BY <1>1, <2>3, <2>4
  <2>6. AfterList /\ pc # "drain" => Cardinality(Serving' \cap old) >= Replicas
    BY <2>3, <2>4 DEF EnoughServe
  <2> QED
    BY <2>1, <2>3, <2>5, <2>6 DEF EnoughServe, AfterList, InLoop
<1>4. CASE GoDown
  <2>1. pc' = "down" /\ Serving' = Serving
    BY <1>4, GoDownFacts DEF GoDown
  <2> QED
    BY <1>1, <2>1 DEF EnoughServe, AfterList, InLoop
<1>5. CASE UNCHANGED vars
  <2>1. UNCHANGED <<Serving, pc, old, newIds, todo>>
    BY <1>5, HostStays DEF vars, loopVars
  <2> QED
    BY <2>1 DEF EnoughServe, AfterList, InLoop
<1> QED
  BY <1>2, <1>3, <1>4, <1>5

\* The drain stops old containers, the rollback new ones.
LEMMA LoopKeepsServing ==
  ASSUME Base, EnoughServe, StopNext \/ RemoveNext
  PROVE  EnoughServe'
<1> USE DEF Base
<1>1. pc \in {"drain", "rollback"} /\ UNCHANGED <<pc, old, newIds>>
  BY LoopFacts
<1>2. PICK i \in todo : Serving' \in {Serving, Serving \ {i}}
  BY LoopFacts
<1>3. newIds \cap old = {} /\ (pc = "rollback" => i \in newIds) /\ (pc = "drain" => i \in old)
  BY <1>1, <1>2 DEF Generations, Loops, InLoop
<1>4. CASE pc = "drain"
  BY <1>1, <1>2, <1>3, <1>4 DEF EnoughServe, AfterList, InLoop
<1>5. CASE pc = "rollback"
  <2>1. Serving' \cap old = Serving \cap old
    BY <1>2, <1>3, <1>5
  <2> QED
    BY <1>1, <1>5, <2>1 DEF EnoughServe, AfterList, InLoop
<1> QED
  BY <1>1, <1>4, <1>5

LEMMA InitServing == Init => EnoughServe
<1> SUFFICES ASSUME Init PROVE EnoughServe
  OBVIOUS
<1>1. PICK first \in SUBSET Ids :
        /\ Cardinality(first) = Replicas
        /\ life = [i \in Ids |-> IF i \in first THEN "running" ELSE "none"]
        /\ health = [i \in Ids |-> IF i \in first THEN "healthy" ELSE "starting"]
  BY DEF Init
<1>2. Serving = first
  BY <1>1 DEF Serving
<1>3. pc = "idle" /\ Replicas \in Nat
  BY RolloutAssumption DEF Init
<1> QED
  BY <1>1, <1>2, <1>3 DEF EnoughServe, AfterList, InLoop

LEMMA NextServing == Steady /\ Base /\ EnoughServe /\ [Next]_vars => EnoughServe'
  BY StepKinds, QuietKeepsServing, OthersKeepServing, LoopKeepsServing

LEMMA AlwaysEnoughServe ==
  ASSUME Steady
  PROVE  Spec => []EnoughServe
<1>1. Base /\ EnoughServe /\ [Next]_vars => EnoughServe'
  BY NextServing
<1> QED
  BY AlwaysBase, InitServing, <1>1, PTL DEF Spec

\* The purpose of the program, for every number of containers, deploys and
\* replicas: while the containers themselves neither die nor lose their health,
\* the service never has fewer healthy ones than it started with, whatever
\* calls fail, however far a scale-up comes, and whenever the process is
\* cancelled or killed (rollout.go:25-27, 91-112).
THEOREM NoDowntime ==
  ASSUME Steady
  PROVE  Spec => []ZeroDowntime
<1>1. Base /\ EnoughServe => ZeroDowntime
  BY EnoughServeNow
<1> QED
  BY AlwaysBase, AlwaysEnoughServe, <1>1, PTL

\* A container that was there before the deploy is stopped only by the drain,
\* with every new one healthy (rollout.go:91-112).
THEOREM OldOnesStopLast ==
  ASSUME Steady
  PROVE  Spec => OldStoppedOnlyByDrain
<1> DEFINE StopsLast == \A i \in old :
       life[i] = "running" /\ life'[i] # "running" =>
          pc = "drain" /\ newIds # {} /\ newIds \cap old = {} /\ newIds \subseteq Serving
<1>1. ASSUME Base, EnoughServe, [Next]_vars PROVE [StopsLast]_vars
  <2> SUFFICES ASSUME NEW i \in old, life[i] = "running", life'[i] # "running"
               PROVE  /\ pc = "drain" /\ newIds # {} /\ newIds \cap old = {}
                      /\ newIds \subseteq Serving
    OBVIOUS
  <2> USE <1>1 DEF Base
  <2>1. i \in Ids
    BY DEF TypeOK
  <2>2. ~Quiet /\ ~(UNCHANGED vars)
    BY DEF Quiet, Start, ListOld, ListOldFails, PollFinds, PollFails, WaitNext, WaitSucceeds,
           WaitFails, WaitedForAll, DrainEnds, RollbackEnds, Cancel, Boot, hostVars, vars
  <2>3. ~Containers
    BY <2>1, ContainerFacts DEF Containers
  <2>4. ~(ScaleUp \/ ScaleUpFails \/ GoDown)
    <3>1. ASSUME NEW n, ComposeUp(n, round) \/ ComposeUpFails(n, round) PROVE FALSE
      <4>1. PICK new \in SUBSET Unused : \E started \in SUBSET (new \cup NotRunning) :
                   Bring(new, started, round)
        BY <3>1 DEF ComposeUp, ComposeUpFails
      <4>2. i \notin new
        BY DEF Unused
      <4> QED
        BY <2>1, <4>1, <4>2 DEF Bring
    <3> QED
      BY <3>1 DEF ScaleUp, ScaleUpFails, GoDown, hostVars
  <2>5. StopNext \/ RemoveNext
    BY <2>2, <2>3, <2>4, StepKinds
  <2>6. /\ pc \in {"drain", "rollback"} /\ i \in todo
    BY <2>1, <2>5, LoopFacts
  <2>7. pc = "drain" /\ newIds \cap old = {}
    BY <2>6 DEF Loops, Generations, InLoop
  <2>8. newIds \subseteq Serving /\ newIds # {}
    <3>1. Cardinality(newIds) >= Replicas /\ newIds \subseteq Serving
      BY <2>7 DEF EnoughServe
    <3>2. Cardinality({}) = 0 /\ Replicas \in Nat \ {0}
      BY FS_EmptySet, RolloutAssumption
    <3> QED
      BY <3>1, <3>2
  <2> QED
    BY <2>7, <2>8
<1>2. OldStoppedOnlyByDrain <=> [][StopsLast]_vars
  BY PTL DEF OldStoppedOnlyByDrain
<1> QED
  BY AlwaysBase, AlwaysEnoughServe, <1>1, <1>2, PTL DEF Spec

-----------------------------------------------------------------------------
\* No container lost, none left over

LEMMA SizeOfUnion ==
  ASSUME NEW S \in SUBSET Ids, NEW T \in SUBSET Ids, S \cap T = {}
  PROVE  Cardinality(S \cup T) = Cardinality(S) + Cardinality(T)
<1>1. IsFiniteSet(S) /\ IsFiniteSet(T)
  BY IdsAssumption, FS_Subset
<1>2. Cardinality(S \cap T) = 0
  BY FS_EmptySet
<1>3. Cardinality(S) \in Nat /\ Cardinality(T) \in Nat
  BY <1>1, FS_CardinalityType
<1>4. Cardinality(S \cup T) = Cardinality(S) + Cardinality(T) - Cardinality(S \cap T)
  BY <1>1, FS_Union
<1> QED
  BY <1>2, <1>3, <1>4

\* While every call succeeds, these steps are never taken.
LEMMA CalmSteps ==
  ASSUME Calm, Inventory
  PROVE  ~(ListOldFails \/ PollFails \/ ScaleUpFails \/ Cancel \/ Exit \/ Crash \/ Boot)
  BY DEF Calm, Inventory, ListOldFails, PollFails, ScaleUpFails, Cancel, Exit, Crash, Boot

\* The container that is stopped stays so until it is removed.
LEMMA CalmLoopFacts ==
  ASSUME Calm, Base, Inventory, StopNext \/ RemoveNext
  PROVE  \E i \in todo :
           \/ doing' = {i} /\ todo' = todo /\ Existing' = Existing /\ life'[i] = "stopped"
           \/ doing' = {} /\ todo' = todo \ {i} /\ Existing' = Existing \ {i}
<1> USE DEF Base
<1>1. pc \in {"drain", "rollback"}
  BY LoopFacts
<1>2. todo \subseteq Existing /\ doing \subseteq todo /\ Existing \subseteq Ids
  BY <1>1 DEF Loops, InLoop, Existing
<1>3. CASE StopNext
  <2>1. PICK i \in todo : doing' = {i} /\ todo' = todo /\ StopContainer(i)
    BY <1>3 DEF StopNext, CallsFail, ApiFails, Calm, Inventory
  <2> QED
    BY <1>2, <2>1, StopFacts
<1>4. CASE RemoveNext
  <2>1. PICK i \in doing : RemoveContainer(i) \/ RemoveRefused(i)
    BY <1>4 DEF RemoveNext, CallsFail, ApiFails, Calm, Inventory
  <2>2. life[i] = "stopped"
    BY <1>1, <2>1 DEF Inventory
  <2>3. RemoveContainer(i)
    BY <2>1, <2>2 DEF RemoveRefused
  <2>4. doing = {i} /\ doing' = {} /\ todo' = todo \ {i} /\ i \in todo
    BY <1>2, <1>4, <2>1 DEF RemoveNext, Loops
  <2> QED
    BY <1>2, <2>3, <2>4, RemoveFacts
<1> QED
  BY <1>3, <1>4

LEMMA QuietKeepsInventory ==
  ASSUME Calm, Base, Inventory, Quiet
  PROVE  Inventory'
<1> USE DEF Base
<1>1. UNCHANGED hostVars
  BY DEF Quiet, Start, ListOld, ListOldFails, PollFinds, PollFails, WaitNext, WaitSucceeds,
         WaitFails, WaitedForAll, DrainEnds, RollbackEnds, Cancel, Boot
<1>2. UNCHANGED <<life, image, Existing>>
  BY <1>1, HostStays
<1>3. ~cancelled /\ ~cancelled' /\ pc' # "down"
  BY CalmSteps DEF Quiet, Inventory, Start, ListOld, PollFinds, WaitNext, WaitSucceeds,
                   WaitFails, WaitedForAll, DrainEnds, RollbackEnds, Finish, Goto, Stay
<1>4. CASE Start
  <2>1. pc = "idle" /\ pc' = "list" /\ doing' = doing
    BY <1>4 DEF Start, loopVars
  <2> QED
    BY <1>2, <1>3, <2>1 DEF Inventory, AfterList, InLoop, Reported
<1>5. CASE ListOld
  <2>1. pc = "list" /\ pc' = "compose" /\ old' = Existing
    BY <1>5 DEF ListOld, Goto
  <2> QED
    BY <1>2, <1>3, <2>1 DEF Inventory, AfterList, InLoop, Reported
<1>6. CASE PollFinds
  <2>1. pc = "poll" /\ pc' = "wait" /\ newIds' = Existing \ old /\ old' = old
    BY <1>6 DEF PollFinds, Goto, findNewContainers
  <2>2. /\ old \in SUBSET Ids /\ Existing \ old \in SUBSET Ids
        /\ old \cup (Existing \ old) = Existing
        /\ Cardinality(old) = Replicas /\ Cardinality(Existing) = 2 * Replicas
    BY <2>1 DEF TypeOK, Existing, Generations, AfterList, Inventory
  <2>3. Cardinality(Existing) = Cardinality(old) + Cardinality(Existing \ old)
    BY <2>2, SizeOfUnion
  <2>4. Cardinality(Existing \ old) = Replicas
    BY <2>2, <2>3, Sizes, RolloutAssumption
  <2> QED
    BY <1>2, <1>3, <2>1, <2>2, <2>4 DEF Inventory, AfterList, InLoop, Reported
<1>7. CASE WaitNext \/ WaitSucceeds
  <2>1. pc = "wait" /\ pc' = "wait" /\ old' = old /\ newIds' = newIds
    BY <1>7 DEF WaitNext, WaitSucceeds, Stay
  <2> QED
    BY <1>2, <1>3, <2>1 DEF Inventory, AfterList, InLoop, Reported
<1>8. CASE WaitFails \/ WaitedForAll
  <2>1. /\ pc = "wait" /\ doing' = {} /\ old' = old /\ newIds' = newIds
        /\ \/ pc' = "rollback" /\ todo' = newIds
           \/ pc' = "drain" /\ todo' = old
    BY <1>8 DEF WaitFails, WaitedForAll, AllAreHealthy, Goto, Loops, InLoop
  <2>2. Existing = old \cup newIds
    BY <2>1 DEF Inventory, Generations, AfterList, InLoop
  <2> QED
    BY <1>2, <1>3, <2>1, <2>2 DEF Inventory, AfterList, InLoop, Reported
<1>9. CASE DrainEnds
  <2>1. pc = "drain" /\ todo = {} /\ Finish("success") /\ Busy
    BY <1>9 DEF DrainEnds, Busy
  <2>2. pc' = "idle" /\ round' = round /\ result'[round] = "success"
    BY <2>1, FinishFacts
  <2>3. /\ Existing = newIds /\ Cardinality(newIds) = Replicas
        /\ \A i \in newIds : image[i] = round
    BY <2>1 DEF Inventory, Generations, InLoop
  <2> QED
    BY <1>2, <1>3, <2>2, <2>3 DEF Inventory, AfterList, InLoop, Reported
<1>10. CASE RollbackEnds
  <2>1. pc = "rollback" /\ todo = {} /\ Finish("failed") /\ Busy
    BY <1>10 DEF RollbackEnds, Busy
  <2>2. pc' = "idle" /\ round' = round /\ result'[round] = "failed"
    BY <2>1, FinishFacts
  <2>3. /\ Existing = old /\ Cardinality(old) = Replicas
        /\ \A i \in old : image[i] # round
    BY <2>1 DEF Inventory, Generations, InLoop, AfterList
  <2> QED
    BY <1>2, <1>3, <2>2, <2>3 DEF Inventory, AfterList, InLoop, Reported
<1> QED
  BY <1>4, <1>5, <1>6, <1>7, <1>8, <1>9, <1>10, CalmSteps DEF Quiet

LEMMA ScaleUpKeepsInventory ==
  ASSUME Base, Inventory, ScaleUp
  PROVE  Inventory'
<1> USE DEF Base
<1>1. /\ pc = "compose" /\ pc' = "poll" /\ old' = old /\ cancelled' = cancelled
      /\ ComposeUp(scaleTarget(Cardinality(old)), round)
  BY DEF ScaleUp, Goto, loopVars
<1>2. /\ Existing = old /\ Cardinality(old) = Replicas /\ old \in SUBSET Ids
      /\ ~cancelled /\ Replicas \in Nat
  BY <1>1, RolloutAssumption DEF Inventory, AfterList, TypeOK
<1>3. PICK new \in SUBSET Unused :
        /\ Cardinality(new) + Cardinality(Existing) = scaleTarget(Cardinality(old))
        /\ Existing' = Existing \cup new
  <2>1. round \in Tags
    BY RolloutAssumption DEF TypeOK
  <2> QED
    BY <1>1, <2>1, ComposeFacts
<1>4. scaleTarget(Cardinality(old)) = 2 * Replicas
  BY <1>2, ExpectsAsMany
<1>5. new \in SUBSET Ids /\ Existing \cap new = {}
  BY DEF Unused, Existing
<1>6. Cardinality(Existing') = 2 * Replicas
  BY <1>2, <1>3, <1>4, <1>5, Sizes, SizeOfUnion
<1> QED
  BY <1>1, <1>2, <1>6 DEF Inventory, AfterList, InLoop, Reported

LEMMA LoopKeepsInventory ==
  ASSUME Calm, Base, Inventory, StopNext \/ RemoveNext
  PROVE  Inventory'
<1> USE DEF Base
<1>1. /\ pc \in {"drain", "rollback"} /\ UNCHANGED <<pc, cancelled, old, newIds>>
      /\ image' = image
  BY LoopFacts
<1>2. PICK i \in todo :
        \/ doing' = {i} /\ todo' = todo /\ Existing' = Existing /\ life'[i] = "stopped"
        \/ doing' = {} /\ todo' = todo \ {i} /\ Existing' = Existing \ {i}
  BY CalmLoopFacts
<1>3. newIds \cap old = {} /\ (pc = "rollback" => i \in newIds) /\ (pc = "drain" => i \in old)
  BY <1>1, <1>2 DEF Generations, Loops, InLoop
<1>4. pc = "rollback" => Existing' = old \cup todo'
  BY <1>2, <1>3 DEF Inventory
<1>5. pc = "drain" => Existing' = newIds \cup todo'
  BY <1>2, <1>3 DEF Inventory
<1>6. \A k \in doing' : life'[k] = "stopped"
  BY <1>2
<1> QED
  BY <1>1, <1>4, <1>5, <1>6 DEF Inventory, AfterList, InLoop, Reported

LEMMA ContainersKeepInventory ==
  ASSUME Base, Inventory, Containers \/ UNCHANGED vars
  PROVE  Inventory'
<1> USE DEF Base
<1>1. /\ UNCHANGED <<pc, round, result, old, newIds, todo, doing, cancelled>>
      /\ image' = image
      /\ Existing' = Existing
      /\ \A k \in Ids : life[k] = "stopped" => life'[k] = "stopped"
  <2>1. CASE Containers
    BY <2>1, ContainerFacts DEF Containers, loopVars
  <2>2. CASE UNCHANGED vars
    BY <2>2, HostStays DEF vars, loopVars, hostVars
  <2> QED
    BY <2>1, <2>2
<1>2. doing \subseteq Ids
  BY DEF TypeOK
<1> QED
  BY <1>1, <1>2 DEF Inventory, AfterList, InLoop, Reported

LEMMA InitInventory == Init => Inventory
<1> SUFFICES ASSUME Init PROVE Inventory
  OBVIOUS
<1>1. PICK first \in SUBSET Ids :
        /\ Cardinality(first) = Replicas
        /\ life = [i \in Ids |-> IF i \in first THEN "running" ELSE "none"]
  BY DEF Init
<1>2. Existing = first
  BY <1>1 DEF Existing
<1>3. pc = "idle" /\ round = 0 /\ cancelled = FALSE
  BY DEF Init
<1> QED
  BY <1>1, <1>2, <1>3 DEF Inventory, AfterList, InLoop, Reported

LEMMA NextInventory == Calm /\ Base /\ Inventory /\ [Next]_vars => Inventory'
  BY StepKinds, CalmSteps, QuietKeepsInventory, ScaleUpKeepsInventory, LoopKeepsInventory,
     ContainersKeepInventory

LEMMA AlwaysInventory ==
  ASSUME Calm
  PROVE  Spec => []Inventory
<1>1. Base /\ Inventory /\ [Next]_vars => Inventory'
  BY NextInventory
<1> QED
  BY AlwaysBase, InitInventory, <1>1, PTL DEF Spec

\* Between deploys the service has exactly the containers it started with, and
\* all of the new image after a success, whatever the containers do meanwhile,
\* for every number of replicas and deploys (zero-downtime.test.ts:93).
THEOREM ReplicasPreserved ==
  ASSUME Calm
  PROVE  Spec => []ReplicasArePreserved
<1>1. Base /\ Inventory => ReplicasArePreserved
  <2> SUFFICES ASSUME Base, Inventory PROVE Cardinality(Existing) <= 2 * Replicas
    BY DEF Inventory, ReplicasArePreserved
  <2> USE DEF Base
  <2>1. Replicas \in Nat /\ Existing \in SUBSET Ids
    BY RolloutAssumption DEF Existing
  <2>2. CASE ~InLoop
    BY <2>1, <2>2 DEF Inventory, TypeOK, InLoop, AfterList
  <2>3. CASE InLoop
    <3>1. Existing \subseteq old \cup newIds
      BY <2>3 DEF Inventory, Loops, InLoop
    <3>2. /\ old \in SUBSET Ids /\ newIds \in SUBSET Ids /\ old \cap newIds = {}
          /\ Cardinality(old) = Replicas /\ Cardinality(newIds) = Replicas
      BY <2>3 DEF TypeOK, Generations, Inventory, AfterList
    <3>3. Cardinality(old \cup newIds) = 2 * Replicas
      BY <2>1, <3>2, SizeOfUnion
    <3> QED
      BY <3>1, <3>2, <3>3, Sizes
  <2> QED
    BY <2>2, <2>3
<1> QED
  BY AlwaysBase, AlwaysInventory, <1>1, PTL

\* A failed health check leaves nothing of the new image behind
\* (rollout.go:97-99).
THEOREM FailureRollsBack ==
  ASSUME Calm
  PROVE  Spec => []HealthFailureRollsBack
<1>1. Inventory => HealthFailureRollsBack
  BY DEF Inventory, HealthFailureRollsBack
<1> QED
  BY AlwaysInventory, <1>1, PTL
-----------------------------------------------------------------------------
\* The promise of ServiceDeploy

\* What the abstract specification sees of a state.
Served == {image[i] : i \in Serving}

OutcomeOf ==
  [r \in Tags |-> IF r = 0 THEN "success"
                  ELSE IF r = round /\ Busy
                    THEN IF pc = "drain" THEN "committed" ELSE "preparing"
                  ELSE result[r]]

LEMMA OutcomeFacts ==
  ASSUME Base
  PROVE  /\ round \in Tags /\ (Busy => round # 0)
         /\ \A r \in Tags : OutcomeOf[r] \in {"preparing", "committed"} <=> r = round /\ Busy
         /\ \A r \in Tags : OutcomeOf[r] = "none" <=> r > round
         /\ Busy => OutcomeOf[round] = IF pc = "drain" THEN "committed" ELSE "preparing"
<1> USE DEF Base
<1>1. Tags = 0..Rounds /\ Rounds \in Nat /\ round \in 0..Rounds
  BY RolloutAssumption DEF TypeOK
<1>2. \A r \in Tags : r # 0 => r \in 1..Rounds /\ result[r] \in Ends
  BY <1>1 DEF TypeOK
<1>3. Busy => round \in 1..Rounds
  BY DEF Results
<1>4. \A r \in Tags : OutcomeOf[r] \in {"preparing", "committed"} <=> r = round /\ Busy
  BY <1>2, <1>3 DEF OutcomeOf, Ends
<1>5. \A r \in Tags : OutcomeOf[r] = "none" <=> r > round
  BY <1>1, <1>2, <1>3 DEF OutcomeOf, Results
<1> QED
  BY <1>1, <1>3, <1>4, <1>5 DEF OutcomeOf

\* A step that ends, or moves, only the current deploy.
LEMMA OnlyCurrent ==
  ASSUME Base, round' = round,
         \A r \in 1..Rounds : r # round => result'[r] = result[r],
         NEW how, Busy,
         how = IF ~Busy' THEN result'[round]
               ELSE IF pc' = "drain" THEN "committed" ELSE "preparing"
  PROVE  OutcomeOf' = [OutcomeOf EXCEPT ![round] = how]
<1> USE DEF Base
<1>1. \A r \in Tags : r # 0 => r \in 1..Rounds
  BY RolloutAssumption
<1>2. round \in Tags /\ round # 0
  BY OutcomeFacts
<1> QED
  BY <1>1, <1>2 DEF OutcomeOf

LEMMA SameOutcome ==
  ASSUME UNCHANGED <<round, result>>, Busy' = Busy, pc' = "drain" <=> pc = "drain"
  PROVE  OutcomeOf' = OutcomeOf
  BY DEF OutcomeOf

LEMMA StutterMaps ==
  ASSUME Served' = Served, OutcomeOf' = OutcomeOf
  PROVE  UNCHANGED Deploys!deployVars
  BY DEF Deploys!deployVars, Served, OutcomeOf

\* A deploy ends without having committed.
LEMMA AbortMaps ==
  ASSUME Base, Served' = Served, Busy, pc # "drain", Finish("failed")
  PROVE  Deploys!DeployNext
<1> USE DEF Base
<1>1. /\ round' = round /\ ~Busy' /\ result' = [result EXCEPT ![round] = "failed"]
      /\ round \in 1..Rounds
  BY DEF Finish, Busy, Results
<1>2. result'[round] = "failed" /\ \A r \in 1..Rounds : r # round => result'[r] = result[r]
  BY <1>1 DEF TypeOK
<1>3. OutcomeOf' = [OutcomeOf EXCEPT ![round] = "failed"]
  BY <1>1, <1>2, OnlyCurrent
<1>4. OutcomeOf[round] = "preparing" /\ round \in Tags
  BY OutcomeFacts
<1>5. PICK v \in Tags : v = round
  BY <1>4
<1>6. Deploys!Abort(v)
  BY <1>3, <1>4, <1>5 DEF Deploys!Abort, Deploys!Becomes, Served, OutcomeOf
<1> QED
  BY <1>6 DEF Deploys!DeployNext

LEMMA QuietMaps ==
  ASSUME Base, EnoughServe, EnoughServe', Base', Quiet
  PROVE  [Deploys!DeployNext]_(Deploys!deployVars)
<1> USE DEF Base
<1>1. UNCHANGED hostVars
  BY DEF Quiet, Start, ListOld, ListOldFails, PollFinds, PollFails, WaitNext, WaitSucceeds,
         WaitFails, WaitedForAll, DrainEnds, RollbackEnds, Cancel, Boot
<1>2. Served' = Served
  BY <1>1, HostStays DEF Served
<1>3. CASE Start
  <2>1. /\ ~Busy /\ Busy' /\ pc' = "list" /\ result' = result /\ round' = round + 1
        /\ round' \in Tags /\ round' # 0 /\ round' > round
    BY <1>3, RolloutAssumption DEF Start, Busy, TypeOK
  <2>2. OutcomeOf' = [OutcomeOf EXCEPT ![round'] = "preparing"]
    BY <2>1 DEF OutcomeOf
  <2>3. OutcomeOf[round'] = "none" /\ \A r \in Tags : OutcomeOf[r] \notin {"preparing", "committed"}
    BY <2>1, OutcomeFacts
  <2>4. PICK v \in Tags : v = round'
    BY <2>1
  <2>5. Deploys!BeginDeploy(v)
    BY <1>2, <2>2, <2>3, <2>4
       DEF Deploys!BeginDeploy, Deploys!Becomes, Deploys!Active, Served, OutcomeOf
  <2> QED
    BY <2>5 DEF Deploys!DeployNext
<1>4. CASE ListOld \/ PollFinds \/ WaitNext \/ WaitSucceeds \/ WaitFails \/ Cancel \/ Boot
  <2>1. UNCHANGED <<round, result>> /\ Busy' = Busy /\ (pc' = "drain" <=> pc = "drain")
    BY <1>4 DEF ListOld, PollFinds, WaitNext, WaitSucceeds, WaitFails, Cancel, Boot, Goto, Stay,
                Busy
  <2> QED
    BY <1>2, <2>1, SameOutcome, StutterMaps
<1>5. CASE ListOldFails \/ PollFails \/ RollbackEnds
  BY <1>2, <1>5, AbortMaps DEF ListOldFails, PollFails, RollbackEnds, Busy
<1>6. CASE WaitedForAll
  <2>1. /\ pc = "wait" /\ pc' = "drain" /\ Busy /\ Busy' /\ UNCHANGED <<round, result, newIds>>
    BY <1>6 DEF WaitedForAll, Goto, Busy
  <2>2. OutcomeOf' = [OutcomeOf EXCEPT ![round] = "committed"]
    BY <2>1, OnlyCurrent
  <2>3. OutcomeOf[round] = "preparing" /\ round \in Tags
    BY <2>1, OutcomeFacts
  <2>4. round \in Served
    <3>1. newIds \subseteq Serving
      BY <1>1, <2>1, HostStays DEF EnoughServe
    <3>2. newIds # {}
      BY <2>1, RolloutAssumption, FS_EmptySet DEF EnoughServe
    <3>3. \A i \in newIds : image[i] = round
      BY <2>1 DEF Generations, InLoop
    <3> QED
      BY <3>1, <3>2, <3>3 DEF Served
  <2>5. PICK v \in Tags : v = round
    BY <2>3
  <2>6. Deploys!Commit(v)
    BY <1>2, <2>2, <2>3, <2>4, <2>5 DEF Deploys!Commit, Deploys!Becomes, Served, OutcomeOf
  <2> QED
    BY <2>6 DEF Deploys!DeployNext
<1>7. CASE DrainEnds
  <2>1. /\ pc = "drain" /\ Busy /\ ~Busy' /\ round' = round
        /\ result' = [result EXCEPT ![round] = "success"] /\ round \in 1..Rounds
    BY <1>7 DEF DrainEnds, Finish, Busy, Results
  <2>2. result'[round] = "success" /\ \A r \in 1..Rounds : r # round => result'[r] = result[r]
    BY <2>1 DEF TypeOK
  <2>3. OutcomeOf' = [OutcomeOf EXCEPT ![round] = "success"]
    BY <2>1, <2>2, OnlyCurrent
  <2>4. OutcomeOf[round] = "committed" /\ round \in Tags
    BY <2>1, OutcomeFacts
  <2>5. PICK v \in Tags : v = round
    BY <2>4
  <2>6. Deploys!Succeed(v)
    BY <1>2, <2>3, <2>4, <2>5 DEF Deploys!Succeed, Deploys!Becomes, Served, OutcomeOf
  <2> QED
    BY <2>6 DEF Deploys!DeployNext
<1> QED
  BY <1>3, <1>4, <1>5, <1>6, <1>7 DEF Quiet

\* Compose brings containers that do not serve yet.
LEMMA ScaleUpMaps ==
  ASSUME Base, ScaleUp \/ ScaleUpFails
  PROVE  [Deploys!DeployNext]_(Deploys!deployVars)
<1> USE DEF Base
<1>1. round \in Tags
  BY OutcomeFacts
<1>2. Serving' = Serving /\ \A i \in Ids : life[i] # "none" => image'[i] = image[i]
  BY <1>1, ComposeFacts DEF ScaleUp, ScaleUpFails
<1>3. \A i \in Serving : i \in Ids /\ life[i] # "none"
  BY DEF Serving
<1>4. Served' = Served
  BY <1>2, <1>3 DEF Served
<1>5. CASE ScaleUp
  BY <1>4, <1>5, SameOutcome, StutterMaps DEF ScaleUp, Goto, Busy
<1>6. CASE ScaleUpFails
  BY <1>4, <1>6, AbortMaps DEF ScaleUpFails, Busy
<1> QED
  BY <1>5, <1>6

LEMMA LoopMaps ==
  ASSUME Base, EnoughServe, StopNext \/ RemoveNext
  PROVE  [Deploys!DeployNext]_(Deploys!deployVars)
<1> USE DEF Base
<1>1. /\ pc \in {"drain", "rollback"} /\ UNCHANGED <<pc, round, result>> /\ image' = image
  BY LoopFacts
<1>2. PICK i \in todo : Serving' \in {Serving, Serving \ {i}}
  BY LoopFacts
<1>3. i \in Ids /\ image[i] \in Tags
  BY <1>2 DEF TypeOK
<1>4. Served' \in {Served, Served \ {image[i]}}
  BY <1>1, <1>2 DEF Served
<1>5. Busy /\ Busy' /\ OutcomeOf' = OutcomeOf
  BY <1>1, SameOutcome DEF Busy
<1>6. round \in Tags /\ OutcomeOf[round] = IF pc = "drain" THEN "committed" ELSE "preparing"
  BY <1>5, OutcomeFacts
<1>7. CASE Served' = Served
  BY <1>5, <1>7, StutterMaps
<1>8. CASE pc = "drain" /\ Served' = Served \ {image[i]}
  <2>1. image[i] # round
    BY <1>2, <1>8 DEF Loops, Generations, InLoop, AfterList
  <2>2. newIds \subseteq Serving /\ newIds # {}
    <3>1. newIds \subseteq Serving /\ Cardinality(newIds) >= Replicas
      BY <1>8 DEF EnoughServe
    <3>2. Cardinality({}) = 0 /\ Replicas \in Nat \ {0}
      BY FS_EmptySet, RolloutAssumption
    <3> QED
      BY <3>1, <3>2
  <2>3. \A k \in newIds : image[k] = round
    BY <1>8 DEF Generations, InLoop
  <2>4. round \in Served
    BY <2>2, <2>3 DEF Served
  <2>5. PICK v \in Tags, others \in SUBSET Tags : v = round /\ others = {image[i]}
    BY <1>3, <1>6
  <2>6. Deploys!Retire(v, others)
    BY <1>5, <1>6, <1>8, <2>1, <2>4, <2>5 DEF Deploys!Retire, Served, OutcomeOf
  <2> QED
    BY <2>6 DEF Deploys!DeployNext
<1>9. CASE pc = "rollback" /\ Served' = Served \ {image[i]}
  <2>1. image[i] = round
    BY <1>2, <1>9 DEF Loops, Generations, InLoop
  <2>2. \A k \in old : image[k] # round
    BY <1>9 DEF Generations, AfterList, InLoop
  <2>3. Serving \cap old # {}
    BY <1>9, RolloutAssumption, FS_EmptySet DEF EnoughServe, AfterList, InLoop
  <2>4. Served' # {}
    BY <1>9, <2>1, <2>2, <2>3 DEF Served
  <2>5. PICK v \in Tags : v = round
    BY <1>6
  <2>6. Deploys!Withdraw(v)
    BY <1>5, <1>6, <1>9, <2>1, <2>4, <2>5 DEF Deploys!Withdraw, Served, OutcomeOf
  <2> QED
    BY <2>6 DEF Deploys!DeployNext
<1> QED
  BY <1>1, <1>4, <1>7, <1>8, <1>9

LEMMA ContainersMap ==
  ASSUME Steady, Base, Containers
  PROVE  [Deploys!DeployNext]_(Deploys!deployVars)
<1> USE DEF Base
<1>1. PICK i \in Ids : ContainerStep(i)
  BY DEF Containers
<1>2. Serving' \in {Serving, Serving \cup {i}} /\ image' = image
  BY <1>1, ContainerFacts
<1>3. Served' \in {Served, Served \cup {image[i]}}
  BY <1>2 DEF Served
<1>4. OutcomeOf' = OutcomeOf
  BY SameOutcome DEF Containers, Busy
<1>5. image[i] \in Tags /\ OutcomeOf[image[i]] # "none"
  <2>1. image[i] \in Tags /\ image[i] <= round
    BY DEF TypeOK, Generations
  <2>2. ~(image[i] > round)
    BY <2>1, RolloutAssumption DEF TypeOK
  <2> QED
    BY <2>1, <2>2, OutcomeFacts
<1>6. CASE Served' = Served \cup {image[i]}
  <2>1. PICK v \in Tags : v = image[i]
    BY <1>5
  <2>2. Deploys!EnterService(v)
    BY <1>4, <1>5, <1>6, <2>1 DEF Deploys!EnterService, Served, OutcomeOf
  <2> QED
    BY <2>2 DEF Deploys!DeployNext
<1> QED
  BY <1>3, <1>4, <1>6, StutterMaps

LEMMA GoDownMaps ==
  ASSUME Base, GoDown
  PROVE  [Deploys!DeployNext]_(Deploys!deployVars)
<1> USE DEF Base
<1>1. Serving' = Serving /\ \A i \in Serving : image'[i] = image[i]
  BY GoDownFacts
<1>2. Served' = Served
  BY <1>1 DEF Served
<1>3. /\ ~Busy' /\ pc' = "down" /\ round' = round
      /\ result' = IF Busy THEN [result EXCEPT ![round] = "cut"] ELSE result
  BY DEF GoDown, Busy
<1>4. CASE ~Busy
  BY <1>2, <1>3, <1>4, SameOutcome, StutterMaps DEF Busy
<1>5. CASE Busy
  <2>1. round \in 1..Rounds
    BY <1>5 DEF Results
  <2>2. result'[round] = "cut" /\ \A r \in 1..Rounds : r # round => result'[r] = result[r]
    BY <1>3, <1>5, <2>1 DEF TypeOK
  <2>3. OutcomeOf' = [OutcomeOf EXCEPT ![round] = "cut"]
    BY <1>3, <1>5, <2>2, OnlyCurrent
  <2>4. OutcomeOf[round] \in {"preparing", "committed"} /\ round \in Tags
    BY <1>5, OutcomeFacts
  <2>5. PICK v \in Tags : v = round
    BY <2>4
  <2>6. Deploys!CutOff(v)
    BY <1>2, <2>3, <2>4, <2>5 DEF Deploys!CutOff, Deploys!Becomes, Deploys!Active, Served, OutcomeOf
  <2> QED
    BY <2>6 DEF Deploys!DeployNext
<1> QED
  BY <1>4, <1>5

LEMMA InitMaps == Init => Deploys!DeployInit
<1> SUFFICES ASSUME Init PROVE Deploys!DeployInit
  OBVIOUS
<1>1. PICK first \in SUBSET Ids :
        /\ Cardinality(first) = Replicas
        /\ life = [i \in Ids |-> IF i \in first THEN "running" ELSE "none"]
        /\ health = [i \in Ids |-> IF i \in first THEN "healthy" ELSE "starting"]
  BY DEF Init
<1>2. image = [i \in Ids |-> 0] /\ pc = "idle" /\ result = [r \in 1..Rounds |-> "none"]
  BY DEF Init
<1>3. Serving = first
  BY <1>1 DEF Serving
<1>4. first # {}
  BY <1>1, RolloutAssumption, FS_EmptySet
<1>5. Served = {0}
  BY <1>2, <1>3, <1>4 DEF Served
<1>6. OutcomeOf = [r \in Tags |-> IF r = 0 THEN "success" ELSE "none"]
  BY <1>2, RolloutAssumption DEF OutcomeOf, Busy
<1> QED
  BY <1>5, <1>6 DEF Deploys!DeployInit, Served, OutcomeOf

LEMMA NextMaps ==
  ASSUME Steady, Base, Base', EnoughServe, EnoughServe', [Next]_vars
  PROVE  [Deploys!DeployNext]_(Deploys!deployVars)
<1>1. CASE UNCHANGED vars
  <2>1. UNCHANGED <<Serving, image, pc, round, result>>
    BY <1>1, HostStays DEF vars
  <2> QED
    BY <2>1, StutterMaps DEF Served, OutcomeOf, Busy
<1> QED
  BY <1>1, StepKinds, QuietMaps, ScaleUpMaps, LoopMaps, ContainersMap, GoDownMaps

\* Rollout is a deploy in two phases: up to the last health check it can be
\* taken back and touches only its own containers, after it only others, it
\* reports success exactly if it passed that check, and some version always
\* serves (rollout.go:25-27, 91-116).
THEOREM DeploysInTwoPhases ==
  ASSUME Steady
  PROVE  Spec => ImplementsDeploy
<1>1. Base /\ Base' /\ EnoughServe /\ EnoughServe' /\ [Next]_vars
      => [Deploys!DeployNext]_(Deploys!deployVars)
  BY NextMaps
<1> QED
  BY AlwaysBase, AlwaysEnoughServe, InitMaps, <1>1, PTL
     DEF Spec, ImplementsDeploy, Deploys!DeploySpec

-----------------------------------------------------------------------------
\* What a successful deploy leaves behind

\* The deploys a later one may hand the service over to: it has passed its
\* health check, or the process went down in the middle of it.
Heirs == {"committed", "success", "cut"}

\* A version whose deploy succeeded has a healthy container, or a later version
\* has one whose deploy did not fail: neither a deploy that is still preparing
\* nor one that failed ever leaves clients to its own containers alone
\* (rollout.go:97-112).
SuccessIsKept ==
  \A r \in Tags : OutcomeOf[r] = "success" =>
     \E w \in Served : w = r \/ (w > r /\ OutcomeOf[w] \in Heirs)

\* The deploy under way is the latest, and once it drains it serves.
LEMMA CommittedFacts ==
  ASSUME Base, EnoughServe
  PROVE  /\ Served \subseteq Tags
         /\ \A r \in Tags : OutcomeOf[r] \in {"preparing", "committed"} =>
              \A q \in Tags : OutcomeOf[q] = "success" => r > q
         /\ \A r \in Tags : OutcomeOf[r] = "committed" => r \in Served
<1> USE DEF Base
<1>1. /\ round \in Tags /\ Tags = 0..Rounds /\ Rounds \in Nat
      /\ \A r \in Tags : OutcomeOf[r] \in {"preparing", "committed"} <=> r = round /\ Busy
      /\ \A r \in Tags : OutcomeOf[r] = "none" <=> r > round
      /\ Busy => OutcomeOf[round] = IF pc = "drain" THEN "committed" ELSE "preparing"
  BY OutcomeFacts, RolloutAssumption
<1>2. Served \subseteq Tags
  BY DEF Served, Serving, TypeOK
<1>3. ASSUME NEW r \in Tags, OutcomeOf[r] \in {"preparing", "committed"},
             NEW q \in Tags, OutcomeOf[q] = "success"
      PROVE  r > q
  BY <1>1, <1>3
<1>4. ASSUME NEW r \in Tags, OutcomeOf[r] = "committed" PROVE r \in Served
  <2>1. r = round /\ pc = "drain"
    BY <1>1, <1>4
  <2>2. Cardinality(newIds) >= Replicas /\ newIds \subseteq Serving
    BY <2>1 DEF EnoughServe
  <2>3. Cardinality({}) = 0 /\ Replicas \in Nat \ {0}
    BY FS_EmptySet, RolloutAssumption
  <2>4. PICK i \in newIds : i \in Serving
    BY <2>2, <2>3
  <2>5. image[i] = round
    BY <2>1, <2>4 DEF Generations, InLoop
  <2> QED
    BY <2>1, <2>4, <2>5 DEF Served
<1> QED
  BY <1>2, <1>3, <1>4

LEMMA BecomesKeepsSuccess ==
  ASSUME Base, EnoughServe, SuccessIsKept,
         NEW v \in Tags, NEW how, OutcomeOf' = [OutcomeOf EXCEPT ![v] = how],
         Served' = Served,
         OutcomeOf[v] \in Heirs => how \in Heirs,
         how = "success" => OutcomeOf[v] \in {"committed", "success"}
  PROVE  SuccessIsKept'
<1>1. \A r \in Tags : OutcomeOf'[r] = IF r = v THEN how ELSE OutcomeOf[r]
  BY DEF OutcomeOf
<1>2. SUFFICES ASSUME NEW r \in Tags, OutcomeOf'[r] = "success"
               PROVE  \E w \in Served : w = r \/ (w > r /\ OutcomeOf'[w] \in Heirs)
  BY DEF SuccessIsKept
<1>3. CASE OutcomeOf[r] = "committed"
  BY <1>3, CommittedFacts
<1>4. CASE OutcomeOf[r] = "success"
  <2>1. PICK w \in Served : w = r \/ (w > r /\ OutcomeOf[w] \in Heirs)
    BY <1>4 DEF SuccessIsKept
  <2>2. w \in Tags
    BY CommittedFacts
  <2>3. w = r \/ (w > r /\ OutcomeOf'[w] \in Heirs)
    BY <1>1, <2>1, <2>2
  <2> QED
    BY <2>3
<1> QED
  BY <1>1, <1>2, <1>3, <1>4

LEMMA NextSuccessIsKept ==
  ASSUME Base, EnoughServe, SuccessIsKept, [Deploys!DeployNext]_(Deploys!deployVars)
  PROVE  SuccessIsKept'
<1>1. CASE UNCHANGED Deploys!deployVars
  BY <1>1 DEF Deploys!deployVars, SuccessIsKept, Served, OutcomeOf
<1>2. ASSUME NEW v \in Tags, NEW how, Deploys!Becomes(v, how), Served' = Served,
             OutcomeOf[v] \in Heirs => how \in Heirs,
             how = "success" => OutcomeOf[v] \in {"committed", "success"}
      PROVE  SuccessIsKept'
  <2>1. OutcomeOf' = [OutcomeOf EXCEPT ![v] = how]
    BY <1>2 DEF Deploys!Becomes, OutcomeOf
  <2> QED
    BY <1>2, <2>1, BecomesKeepsSuccess
<1>3. ASSUME NEW v \in Tags,
             \/ Deploys!BeginDeploy(v) \/ Deploys!Commit(v) \/ Deploys!Succeed(v)
             \/ Deploys!Abort(v) \/ Deploys!CutOff(v)
      PROVE  SuccessIsKept'
  <2>1. PICK how \in {"preparing", "committed", "success", "failed", "cut"} :
          /\ Deploys!Becomes(v, how) /\ Served' = Served
          /\ OutcomeOf[v] \in Heirs => how \in Heirs
          /\ how = "success" => OutcomeOf[v] \in {"committed", "success"}
    BY <1>3 DEF Deploys!BeginDeploy, Deploys!Commit, Deploys!Succeed, Deploys!Abort,
                Deploys!CutOff, Deploys!Active, Served, OutcomeOf, Heirs
  <2> QED
    BY <1>2, <2>1
<1>4. ASSUME NEW v \in Tags, Deploys!EnterService(v) PROVE SuccessIsKept'
  <2>1. Served' = Served \cup {v} /\ OutcomeOf' = OutcomeOf
    BY <1>4 DEF Deploys!EnterService, Served, OutcomeOf
  <2> QED
    BY <2>1 DEF SuccessIsKept
<1>5. ASSUME NEW v \in Tags, Deploys!Withdraw(v) PROVE SuccessIsKept'
  <2>1. Served' = Served \ {v} /\ OutcomeOf' = OutcomeOf /\ OutcomeOf[v] = "preparing"
    BY <1>5 DEF Deploys!Withdraw, Served, OutcomeOf
  <2> QED
    BY <2>1 DEF SuccessIsKept, Heirs
<1>6. ASSUME NEW v \in Tags, NEW others \in SUBSET Tags, Deploys!Retire(v, others)
      PROVE  SuccessIsKept'
  <2>1. v \in Served' /\ OutcomeOf' = OutcomeOf /\ OutcomeOf[v] = "committed"
    BY <1>6 DEF Deploys!Retire, Served, OutcomeOf
  <2> QED
    BY <2>1, CommittedFacts DEF SuccessIsKept, Heirs
<1> QED
  BY <1>1, <1>3, <1>4, <1>5, <1>6 DEF Deploys!DeployNext

\* The version of a successful deploy is never given up for one whose deploy
\* failed or has not yet passed its health check, through failed calls, partial
\* scale-ups, cut-off rollbacks, kills and the deploys that follow them
\* (rollout.go:91-116).
THEOREM SuccessesAreKept ==
  ASSUME Steady
  PROVE  Spec => []SuccessIsKept
<1>1. Init => SuccessIsKept
  <2> SUFFICES ASSUME Init PROVE SuccessIsKept
    OBVIOUS
  <2>1. Served = {0} /\ \A r \in Tags : OutcomeOf[r] = "success" => r = 0
    BY InitMaps DEF Deploys!DeployInit, Served, OutcomeOf
  <2> QED
    BY <2>1 DEF SuccessIsKept
<1>2. Base /\ Base' /\ EnoughServe /\ EnoughServe' /\ SuccessIsKept /\ [Next]_vars
      => SuccessIsKept'
  BY NextMaps, NextSuccessIsKept
<1> QED
  BY AlwaysBase, AlwaysEnoughServe, <1>1, <1>2, PTL DEF Spec

=============================================================================
