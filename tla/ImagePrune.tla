------------------------------ MODULE ImagePrune ------------------------------
(***************************************************************************)
(* docker.PruneImages of internal/docker/api.go, the last step of a        *)
(* deploy: list the images of the deployed repository, list the            *)
(* containers, sort what no container uses by age, and remove what is      *)
(* neither among the newest Keep nor the image just deployed.  Anybody on  *)
(* the host may create and remove containers between two of its calls.  An *)
(* image may have a tag of another repository as well, which makes Docker  *)
(* keep it.                                                                *)
(*                                                                         *)
(* Faults: "race"  containers come and go meanwhile                        *)
(*         "api"   a Docker call returns an error                          *)
(***************************************************************************)
EXTENDS Naturals, FiniteSets, Sequences, SequencesExt

CONSTANTS Images,   \* the images on the host
          Ages,     \* what Created may be
          Keep,     \* ROLLHOOK_IMAGE_KEEP_COUNT
          Faults

ASSUME ImagePruneAssumption ==
  /\ IsFiniteSet(Images) /\ Ages \subseteq Nat /\ Keep \in Nat
  /\ Faults \subseteq {"race", "api"}

VARIABLES created,     \* each image's Created
          ofRepo,      \* images that carry a tag of the repository
          deployed,    \* the one of them tagged imageTag: {} or one
          elsewhere,   \* those of them that carry a tag of another repository too
          present,     \* images on the host
          inUse,       \* images that back a container, running or stopped
          pc,          \* "start", "images", "containers", "loop", "done"
          listed,      \* what ImageList returned
          candidates,  \* the unused ones, newest first
          next,        \* the loop's index
          usedThen,    \* history: inUse when the containers were listed
          disturbed    \* history: a race or an error has happened

hostVars == <<created, ofRepo, deployed, elsewhere, present, inUse>>
vars == <<hostVars, pc, listed, candidates, next, usedThen, disturbed>>

Init ==
  /\ created \in [Images -> Ages]
  /\ ofRepo \in SUBSET Images
  /\ deployed \in {{i} : i \in ofRepo} \cup {{}}
  /\ elsewhere \in SUBSET ofRepo
  /\ present = Images
  /\ inUse \in SUBSET Images
  /\ pc = "start"
  /\ listed = {}
  /\ candidates = <<>>
  /\ next = 1
  /\ usedThen = {}
  /\ disturbed = FALSE

-----------------------------------------------------------------------------

\* keep <= 0 is a no-op.
Begin ==
  /\ pc = "start"
  /\ pc' = IF Keep = 0 THEN "done" ELSE "images"
  /\ UNCHANGED <<hostVars, listed, candidates, next, usedThen, disturbed>>

\* The reference filter does not see an image without a tag of the repository.
ListImages ==
  /\ pc = "images"
  /\ listed' = present \cap ofRepo
  /\ pc' = "containers"
  /\ UNCHANGED <<hostVars, candidates, next, usedThen, disturbed>>

\* sort.Slice: images of one age come in any order.
NewestFirst(s) ==
  \A a, b \in DOMAIN s : a < b => created[s[a]] >= created[s[b]]

\* Mistake: only the newest and the deployed image are spared.
ListContainersUnread ==
  /\ pc = "containers"
  /\ candidates' \in {s \in SetToSeqs(listed) : NewestFirst(s)}
  /\ usedThen' = inUse
  /\ pc' = "loop"
  /\ UNCHANGED <<hostVars, listed, next, disturbed>>

ListContainers ==
  /\ pc = "containers"
  /\ candidates' \in {s \in SetToSeqs(listed \ inUse) : NewestFirst(s)}
  /\ usedThen' = inUse
  /\ pc' = "loop"
  /\ UNCHANGED <<hostVars, listed, next, disturbed>>

ListFails ==
  /\ pc \in {"images", "containers"}
  /\ "api" \in Faults
  /\ pc' = "done"
  /\ disturbed' = TRUE
  /\ UNCHANGED <<hostVars, listed, candidates, next, usedThen>>

\* Mistake: the position alone decides.
IsAmongNewest(k) == k <= Keep

\* i < keep || hasTag(img, imageTag)
IsKept(k) == k <= Keep \/ candidates[k] \in deployed

KeepNext ==
  /\ pc = "loop"
  /\ next <= Len(candidates)
  /\ IsKept(next)
  /\ next' = next + 1
  /\ UNCHANGED <<hostVars, pc, listed, candidates, usedThen, disturbed>>

\* Docker removes an image that no container uses and no second repository has
\* a tag of, with the untagged images below it, which are of no repository; without
\* Force a conflict is an error, which is logged like any other.
ImageRemove(i) ==
  \/ i \notin inUse \cup elsewhere /\ present' = present \ {i} /\ UNCHANGED disturbed
  \/ i \in inUse \cup elsewhere /\ UNCHANGED <<present, disturbed>>
  \/ "api" \in Faults /\ disturbed' = TRUE /\ UNCHANGED present

RemoveNext ==
  /\ pc = "loop"
  /\ next <= Len(candidates)
  /\ ~IsKept(next)
  /\ ImageRemove(candidates[next])
  /\ next' = next + 1
  /\ UNCHANGED <<created, ofRepo, deployed, elsewhere, inUse, pc, listed, candidates, usedThen>>

\* Mistake: a kept image ends the loop.
EndsAtKept ==
  /\ pc = "loop"
  /\ next > Len(candidates) \/ (next \in (Keep + 1)..Len(candidates) /\ IsKept(next))
  /\ pc' = "done"
  /\ UNCHANGED <<hostVars, listed, candidates, next, usedThen, disturbed>>

End ==
  /\ pc = "loop"
  /\ next > Len(candidates)
  /\ pc' = "done"
  /\ UNCHANGED <<hostVars, listed, candidates, next, usedThen, disturbed>>

\* Somebody else's containers.
Race ==
  /\ "race" \in Faults
  /\ pc # "done"
  /\ \/ \E i \in present : inUse' = inUse \cup {i}
     \/ \E i \in inUse : inUse' = inUse \ {i}
  /\ disturbed' = TRUE
  /\ UNCHANGED <<created, ofRepo, deployed, elsewhere, present, pc, listed, candidates, next, usedThen>>

Next == \/ Begin \/ ListImages \/ ListContainers \/ ListFails
        \/ KeepNext \/ RemoveNext \/ End \/ Race

Spec == Init /\ [][Next]_vars

-----------------------------------------------------------------------------
\* Properties

Removed == Images \ present

\* "Never removes an image backing any container, running or stopped"
\* (api.go:196-197), also when that container goes in the middle of the loop, so
\* that Docker would let the image go, and whatever calls fail.
UsedImagesStay ==
  Removed \cap usedThen = {}

\* What goes is superseded, whatever happened meanwhile: it is of the
\* repository, it is not the image just deployed, even when that is old, was
\* rolled back to, or its containers have just died, and at least Keep images
\* that are no older stay (api.go:194-196).
OnlySupersededGo ==
  \A i \in Removed :
     /\ i \in ofRepo \ deployed
     /\ Keep <= Cardinality({k \in present \cap ofRepo : created[k] >= created[i]})

\* When nothing interferes, what is left unused of the repository alone is the
\* newest Keep and possibly the deployed image: the disk does not fill up
\* (README.md:198).
NothingElseIsLeft ==
  pc = "done" /\ Keep > 0 /\ ~disturbed =>
     Cardinality((present \cap ofRepo) \ (inUse \cup elsewhere \cup deployed)) <= Keep

=============================================================================
