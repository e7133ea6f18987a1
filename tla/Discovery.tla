------------------------------ MODULE Discovery ------------------------------
(***************************************************************************)
(* steps.Discover of internal/jobs/steps/discover.go: which running        *)
(* container, and with it which Compose service, an image reference stands *)
(* for.  The containers are listed, the first whose image matches is       *)
(* inspected by a second Docker call, and its labels name the service.     *)
(* Containers start and end between the two calls, and an image tag may be *)
(* moved to another image, after which Docker lists the containers of the  *)
(* old one under its ID.                                                   *)
(*                                                                         *)
(* A reference is the sequence of its words and of the separators between  *)
(* them, for instance <<"host", ":", "port", "/", "app", ":", "v1">>.      *)
(***************************************************************************)
EXTENDS Naturals, FiniteSets, Sequences, SequencesExt

CONSTANTS Containers,
          Apps,       \* what a container may be started from: its image reference
                      \* and what its labels say
          Seekers     \* callers of Discover

VARIABLES app,        \* each container's member of Apps
          running,    \* the containers that run
          moved,      \* those whose tag now names another image
          seen,       \* what each seeker's list call returned under its reference,
                      \* when nothing matched
          match       \* {} or the container the seeker inspects next

hostVars == <<app, running, moved>>
seekVars == <<seen, match>>

-----------------------------------------------------------------------------
\* Image references

Index(ref, sep)     == SelectInSeq(ref, LAMBDA t : t = sep)
LastIndex(ref, sep) == SelectLastInSeq(ref, LAMBDA t : t = sep)

WithoutDigest(ref) ==
  IF Index(ref, "@") = 0 THEN ref ELSE SubSeq(ref, 1, Index(ref, "@") - 1)

\* Mistake: the port of a registry is taken for a tag.
RepoToFirstColon(ref) ==
  IF Index(ref, ":") = 0 THEN ref ELSE SubSeq(ref, 1, Index(ref, ":") - 1)

\* What is left without digest and tag, the tag being behind the last slash.
RepoFromRef(ref) ==
  LET r     == WithoutDigest(ref)
      slash == LastIndex(r, "/")
      colon == Index(SubSeq(r, slash + 1, Len(r)), ":")
  IN IF colon = 0 THEN r ELSE SubSeq(r, 1, slash + colon - 1)

baseName(image) == SubSeq(image, LastIndex(image, "/") + 1, Len(image))

\* The last word of a reference's path, in front of tag and digest, is at n.
NameIsAt(ref, n) ==
  /\ ref[n] \notin {"/", ":", "@"}
  /\ n = 1 \/ ref[n - 1] = "/"
  /\ n = Len(ref) \/ ref[n + 1] \in {":", "@"}
  /\ \A k \in 1..Len(ref) : (k < n => ref[k] # "@") /\ (k > n => ref[k] # "/")

\* An app's name is the last word of its image's path.
ASSUME DiscoveryAssumption ==
  /\ IsFiniteSet(Containers)
  /\ \A a \in Apps :
       /\ a.image \in Seq(STRING)
       /\ \E n \in 1..Len(a.image) : NameIsAt(a.image, n) /\ a.image[n] = a.name

-----------------------------------------------------------------------------
\* Discover

\* The Image field of a listed container: the reference it was started with,
\* or its image's ID.
ListedImage(c) == IF c \in moved THEN <<"sha256", ":", "id">> ELSE app[c].image

Matches(c, imageName) ==
  LET cName == RepoFromRef(ListedImage(c))
  IN cName = imageName \/ baseName(cName) = baseName(imageName)

\* The first in the order of the list that matches in either way: one of the
\* exact name that is listed later is passed over.
FindMatchingContainer(list, imageName) ==
  LET i == SelectInSeq(list, LAMBDA c : Matches(c, imageName))
  IN IF i = 0 THEN {} ELSE {list[i]}

ListRunningContainers(s, ref) ==
  /\ \E list \in SetToSeqs(running) :
        match' = [match EXCEPT ![s] = FindMatchingContainer(list, RepoFromRef(ref))]
  /\ seen' = [seen EXCEPT ![s] = IF match'[s] = {} THEN {app[c] : c \in running \ moved} ELSE {}]

\* A stopped container can be inspected until it is removed.  One that was not
\* started by Compose lacks a label.
Inspected(s, a) == \E c \in match[s] : a = app[c] /\ a.composed

\* Removed, not of Compose, or the daemon does not answer.
InspectFails(s) == match[s] # {}

-----------------------------------------------------------------------------
\* The host

HostInit ==
  /\ app \in [Containers -> Apps]
  /\ running \in SUBSET Containers
  /\ moved = {}
  /\ seen = [s \in Seekers |-> {}]
  /\ match = [s \in Seekers |-> {}]

ContainerEnds(c) ==
  /\ c \in running
  /\ running' = running \ {c}
  /\ UNCHANGED <<app, moved>>

\* A new container of some service, with the labels that service has by now;
\* the ID of one that a seeker is about to inspect is not used again.
ContainerStarts(c) ==
  /\ c \notin running
  /\ \A s \in Seekers : c \notin match[s]
  /\ running' = running \cup {c}
  /\ \E a \in Apps : app' = [app EXCEPT ![c] = a]
  /\ moved' = moved \ {c}

TagMoves(c) ==
  /\ moved' = moved \cup {c}
  /\ UNCHANGED <<app, running>>

=============================================================================
