--------------------------- MODULE ImagePruneProofs ---------------------------
(***************************************************************************)
(* Proofs about ImagePrune for every number of images, every Keep and      *)
(* whatever anybody else does on the host: what goes is superseded and had *)
(* no container, and undisturbed nothing else is left.                     *)
(*                                                                         *)
(* The argument.  The candidates, once sorted, never change, and neither   *)
(* do the images' ages: what is removed is one of them behind the first    *)
(* Keep, and those, being kept whatever happens, are no older.             *)
(***************************************************************************)
EXTENDS ImagePrune, TLAPS, FiniteSetTheorems, SequenceTheorems

TypeOK ==
  /\ created \in [Images -> Ages]
  /\ ofRepo \subseteq Images
  /\ deployed \subseteq ofRepo
  /\ elsewhere \subseteq ofRepo
  /\ present \subseteq Images
  /\ pc \in {"start", "images", "containers", "loop", "done"}
  /\ listed \subseteq ofRepo
  /\ candidates \in Seq(ofRepo)
  /\ next \in Nat \ {0}

Sorted ==
  /\ \A a, b \in DOMAIN candidates : a # b => candidates[a] # candidates[b]
  /\ NewestFirst(candidates)

\* The loop has removed what it has passed and not kept, and nothing else.
OnlyPassedGo ==
  \A i \in Removed : \E k \in DOMAIN candidates :
     candidates[k] = i /\ k < next /\ ~IsKept(k)

\* The candidates are chosen once.
ChosenOnce == pc \in {"start", "images", "containers"} => candidates = <<>> /\ next = 1

\* What backed a container when the lists were made is no candidate.
NoneWasUsed == \A k \in DOMAIN candidates : candidates[k] \notin usedThen

\* While nobody interferes, the lists stay true.
ListsAreTrue ==
  ~disturbed =>
     /\ pc = "containers" => listed = present \cap ofRepo
     /\ \A k \in DOMAIN candidates : candidates[k] \notin inUse
     /\ \A k \in DOMAIN candidates : k < next /\ candidates[k] \in present =>
          IsKept(k) \/ candidates[k] \in elsewhere
     /\ pc \in {"loop", "done"} /\ Keep > 0 =>
          \A i \in (present \cap ofRepo) \ inUse : \E k \in DOMAIN candidates : candidates[k] = i
     /\ pc = "done" => \A k \in DOMAIN candidates : k < next

IInv == TypeOK /\ Sorted /\ OnlyPassedGo /\ ChosenOnce /\ NoneWasUsed /\ ListsAreTrue

-----------------------------------------------------------------------------

\* What ListContainers sorts is a sequence without repetitions of everything
\* in the set.
LEMMA SetToSeqsFacts ==
  ASSUME NEW S, IsFiniteSet(S), NEW s \in SetToSeqs(S)
  PROVE  /\ s \in Seq(S)
         /\ \A a, b \in DOMAIN s : a # b => s[a] # s[b]
         /\ \A i \in S : \E k \in DOMAIN s : s[k] = i
<1> DEFINE n == Cardinality(S)
<1>1. n \in Nat
  BY FS_CardinalityType
<1>2. s \in [1..n -> S] /\ \A a, b \in 1..n : a # b => s[a] # s[b]
  BY DEF SetToSeqs
<1>3. s \in Injection(1..n, S)
  BY <1>2 DEF Injection, IsInjective
<1>4. Cardinality(1..n) = n
  BY <1>1, FS_Interval
<1>5. s \in Surjection(1..n, S)
  BY <1>3, <1>4, FS_Injection
<1>6. s \in Seq(S)
  BY <1>1, <1>2, SeqDef
<1> QED
  BY <1>2, <1>5, <1>6 DEF Surjection

LEMMA InitInv == Init => IInv
<1> SUFFICES ASSUME Init PROVE IInv
  OBVIOUS
<1>1. TypeOK
  BY DEF Init, TypeOK
<1>2. candidates = <<>> /\ Removed = {} /\ pc = "start" /\ next = 1
  BY DEF Init, Removed
<1>3. DOMAIN candidates = {}
  BY <1>2
<1> QED
  BY <1>1, <1>2, <1>3 DEF IInv, Sorted, NewestFirst, OnlyPassedGo, ChosenOnce, NoneWasUsed, ListsAreTrue

\* Before the loop nothing has been removed.
LEMMA BeforeTheLoop ==
  ASSUME IInv, candidates = <<>>
  PROVE  Removed = {} /\ DOMAIN candidates = {}
  BY DEF IInv, OnlyPassedGo

\* Steps that leave the candidates and the host alone.
LEMMA ListingKeepsInv ==
  ASSUME IInv, Begin \/ ListImages \/ ListFails \/ End \/ UNCHANGED vars
  PROVE  IInv'
<1> USE DEF IInv
<1>1. UNCHANGED <<created, ofRepo, deployed, elsewhere, present, inUse, candidates, next, usedThen>>
  BY DEF Begin, ListImages, ListFails, End, hostVars, vars
<1>2. /\ pc' \in {"start", "images", "containers", "loop", "done"}
      /\ listed' \in {listed, present \cap ofRepo}
  BY DEF Begin, ListImages, ListFails, End, vars, TypeOK
<1>3. TypeOK'
  BY <1>1, <1>2 DEF TypeOK
<1>4. Sorted' /\ OnlyPassedGo' /\ NoneWasUsed'
  BY <1>1 DEF Sorted, NewestFirst, OnlyPassedGo, Removed, IsKept, NoneWasUsed
<1>5. ChosenOnce'
  BY <1>1 DEF Begin, ListImages, ListFails, End, vars, ChosenOnce
<1>6. CASE Begin
  <2>1. /\ pc = "start" /\ pc' = IF Keep = 0 THEN "done" ELSE "images"
        /\ disturbed' = disturbed /\ candidates = <<>>
    BY <1>6 DEF Begin, ChosenOnce
  <2>2. DOMAIN candidates = {}
    BY <2>1
  <2>3. ListsAreTrue'
    BY <1>1, <2>1, <2>2, ImagePruneAssumption DEF ListsAreTrue
  <2> QED
    BY <1>3, <1>4, <1>5, <2>3
<1>7. CASE ListImages
  <2>1. pc = "images" /\ pc' = "containers" /\ listed' = present \cap ofRepo /\ candidates = <<>>
    BY <1>7 DEF ListImages, ChosenOnce
  <2>2. DOMAIN candidates = {}
    BY <2>1
  <2>3. ListsAreTrue'
    BY <1>1, <2>1, <2>2 DEF ListsAreTrue
  <2> QED
    BY <1>3, <1>4, <1>5, <2>3
<1>8. CASE ListFails
  <2>1. ListsAreTrue'
    BY <1>8 DEF ListFails, ListsAreTrue
  <2> QED
    BY <1>3, <1>4, <1>5, <2>1
<1>9. CASE End
  <2>1. /\ pc = "loop" /\ pc' = "done" /\ next > Len(candidates)
        /\ disturbed' = disturbed
    BY <1>9 DEF End
  <2>2. \A k \in DOMAIN candidates : k < next
    BY <2>1, LenProperties DEF TypeOK
  <2>3. ListsAreTrue'
    BY <1>1, <2>1, <2>2 DEF ListsAreTrue, IsKept
  <2> QED
    BY <1>3, <1>4, <1>5, <2>3
<1>10. CASE UNCHANGED vars
  <2>1. UNCHANGED <<pc, listed, disturbed>>
    BY <1>10 DEF vars
  <2>2. ListsAreTrue'
    BY <1>1, <2>1 DEF ListsAreTrue, IsKept
  <2> QED
    BY <1>3, <1>4, <1>5, <2>2
<1> QED
  BY <1>6, <1>7, <1>8, <1>9, <1>10

LEMMA ListContainersKeepsInv ==
  ASSUME IInv, ListContainers
  PROVE  IInv'
<1> USE DEF IInv
<1>1. /\ pc = "containers" /\ pc' = "loop"
      /\ UNCHANGED <<created, ofRepo, deployed, elsewhere, present, inUse, listed, next, disturbed>>
      /\ usedThen' = inUse
  BY DEF ListContainers, hostVars
<1>2. candidates' \in SetToSeqs(listed \ inUse) /\ NewestFirst(candidates')
  BY DEF ListContainers
<1>3. IsFiniteSet(listed \ inUse)
  BY ImagePruneAssumption, FS_Subset DEF TypeOK
<1>4. /\ candidates' \in Seq(listed \ inUse)
      /\ \A a, b \in DOMAIN candidates' : a # b => candidates'[a] # candidates'[b]
      /\ \A i \in listed \ inUse : \E k \in DOMAIN candidates' : candidates'[k] = i
  BY <1>2, <1>3, SetToSeqsFacts
<1>5. \A k \in DOMAIN candidates' : candidates'[k] \in listed \ inUse
  BY <1>4, ElementOfSeq, LenProperties
<1>6. candidates' \in Seq(ofRepo)
  BY <1>4, SeqMonotonic DEF TypeOK
<1>7. Removed = {} /\ Removed' = {}
  BY <1>1, BeforeTheLoop DEF ChosenOnce, Removed
<1>8. TypeOK'
  BY <1>1, <1>6 DEF TypeOK
<1>9. Sorted'
  BY <1>1, <1>2, <1>4 DEF Sorted, NewestFirst
<1>10. OnlyPassedGo' /\ ChosenOnce' /\ NoneWasUsed'
  BY <1>1, <1>5, <1>7 DEF OnlyPassedGo, ChosenOnce, NoneWasUsed
<1>11. ListsAreTrue'
  <2> SUFFICES ASSUME ~disturbed PROVE ListsAreTrue'
    BY <1>1 DEF ListsAreTrue
  <2>1. listed = present \cap ofRepo
    BY <1>1 DEF ListsAreTrue
  <2>2. next = 1
    BY <1>1 DEF ChosenOnce
  <2> QED
    BY <1>1, <1>4, <1>5, <2>1, <2>2 DEF ListsAreTrue
<1> QED
  BY <1>8, <1>9, <1>10, <1>11

\* The loop goes on, with the image at next kept or not.
LEMMA KeepNextKeepsInv ==
  ASSUME IInv, KeepNext
  PROVE  IInv'
<1> USE DEF IInv
<1>1. /\ pc = "loop" /\ next \in DOMAIN candidates /\ IsKept(next) /\ next' = next + 1
      /\ UNCHANGED <<created, ofRepo, deployed, elsewhere, present, inUse, pc, listed, candidates,
                     usedThen, disturbed>>
  BY LenProperties DEF KeepNext, hostVars, TypeOK
<1>2. \A k \in DOMAIN candidates : k < next' <=> k < next \/ k = next
  BY <1>1, LenProperties DEF TypeOK
<1>3. TypeOK' /\ Sorted' /\ ChosenOnce' /\ NoneWasUsed'
  BY <1>1 DEF TypeOK, Sorted, NewestFirst, ChosenOnce, NoneWasUsed
<1>4. OnlyPassedGo'
  BY <1>1, <1>2 DEF OnlyPassedGo, Removed, IsKept
<1>5. ListsAreTrue'
  BY <1>1, <1>2 DEF ListsAreTrue, IsKept
<1> QED
  BY <1>3, <1>4, <1>5

LEMMA RemoveNextKeepsInv ==
  ASSUME IInv, RemoveNext
  PROVE  IInv'
<1> USE DEF IInv
<1>1. /\ pc = "loop" /\ next \in DOMAIN candidates /\ ~IsKept(next) /\ next' = next + 1
      /\ UNCHANGED <<created, ofRepo, deployed, elsewhere, inUse, pc, listed, candidates, usedThen>>
  BY LenProperties DEF RemoveNext, TypeOK
<1>2. /\ present' \in {present, present \ {candidates[next]}}
      /\ \/ disturbed' \/ candidates[next] \in inUse \cup elsewhere
         \/ present' = present \ {candidates[next]}
      /\ disturbed => disturbed'
  BY DEF RemoveNext, ImageRemove
<1>3. \A k \in DOMAIN candidates : k < next' <=> k < next \/ k = next
  BY <1>1, LenProperties DEF TypeOK
<1>4. TypeOK' /\ Sorted' /\ ChosenOnce' /\ NoneWasUsed'
  BY <1>1, <1>2 DEF TypeOK, Sorted, NewestFirst, ChosenOnce, NoneWasUsed
<1>5. OnlyPassedGo'
  <2>1. Removed' \subseteq Removed \cup {candidates[next]}
    BY <1>2 DEF Removed
  <2> QED
    BY <1>1, <1>3, <2>1 DEF OnlyPassedGo, IsKept
<1>6. ListsAreTrue'
  <2> SUFFICES ASSUME ~disturbed' PROVE ListsAreTrue'
    BY DEF ListsAreTrue
  <2>1. /\ ~disturbed
        /\ candidates[next] \in elsewhere \/ present' = present \ {candidates[next]}
    BY <1>1, <1>2 DEF ListsAreTrue
  <2>2. present' \in {present, present \ {candidates[next]}}
    BY <1>2
  <2> QED
    BY <1>1, <1>3, <2>1, <2>2 DEF ListsAreTrue, IsKept
<1> QED
  BY <1>4, <1>5, <1>6

LEMMA RaceKeepsInv ==
  ASSUME IInv, Race
  PROVE  IInv'
<1> USE DEF IInv
<1>1. /\ disturbed'
      /\ UNCHANGED <<created, ofRepo, deployed, elsewhere, present, pc, listed, candidates, next,
                     usedThen>>
  BY DEF Race
<1>2. TypeOK' /\ Sorted' /\ ChosenOnce' /\ NoneWasUsed'
  BY <1>1 DEF TypeOK, Sorted, NewestFirst, ChosenOnce, NoneWasUsed
<1>3. OnlyPassedGo' /\ ListsAreTrue'
  BY <1>1 DEF OnlyPassedGo, Removed, IsKept, ListsAreTrue
<1> QED
  BY <1>2, <1>3

LEMMA NextInv == IInv /\ [Next]_vars => IInv'
  BY ListingKeepsInv, ListContainersKeepsInv, KeepNextKeepsInv, RemoveNextKeepsInv, RaceKeepsInv
     DEF Next

LEMMA AlwaysInv == Spec => []IInv
  BY InitInv, NextInv, PTL DEF Spec

-----------------------------------------------------------------------------

\* The images at some of the positions of the candidates are no fewer, and no
\* more, than the positions.
LEMMA CandidatesAt ==
  ASSUME Sorted, NEW K \in SUBSET DOMAIN candidates, IsFiniteSet(K)
  PROVE  LET those == {candidates[k] : k \in K}
         IN  IsFiniteSet(those) /\ Cardinality(those) = Cardinality(K)
<1> DEFINE those == {candidates[k] : k \in K}
           at == [k \in K |-> candidates[k]]
<1>1. at \in Bijection(K, those)
  BY DEF Bijection, Injection, Surjection, IsInjective, Sorted
<1> QED
  BY <1>1, FS_Bijection DEF ExistsBijection

\* What goes is of the repository and not the image just deployed, and at least
\* Keep images that are no older stay, whatever calls fail and whoever creates
\* or removes containers meanwhile (api.go:194-196).
THEOREM NewestStay == Spec => []OnlySupersededGo
<1>1. ASSUME IInv PROVE OnlySupersededGo
  <2> USE <1>1 DEF IInv
  <2> SUFFICES ASSUME NEW i \in Removed
               PROVE  /\ i \in ofRepo \ deployed
                      /\ Keep <= Cardinality({k \in present \cap ofRepo : created[k] >= created[i]})
    BY DEF OnlySupersededGo
  <2>1. PICK n \in DOMAIN candidates : candidates[n] = i /\ ~IsKept(n)
    BY DEF OnlyPassedGo
  <2>2. i \in ofRepo \ deployed /\ n > Keep
    BY <2>1, ImagePruneAssumption, LenProperties, ElementOfSeq DEF IsKept, TypeOK
  <2> DEFINE kept == {candidates[k] : k \in 1..Keep}
             noOlder == {k \in present \cap ofRepo : created[k] >= created[i]}
  <2>3. DOMAIN candidates = 1..Len(candidates) /\ Len(candidates) \in Nat
    BY LenProperties DEF TypeOK
  <2>4. 1..Keep \subseteq DOMAIN candidates /\ \A k \in 1..Keep : k < n
    BY <2>2, <2>3, ImagePruneAssumption
  <2>5. IsFiniteSet(1..Keep) /\ Cardinality(1..Keep) = Keep
    BY FS_Interval, ImagePruneAssumption
  <2>6. Cardinality(kept) = Keep
    BY <2>4, <2>5, CandidatesAt
  <2>7. ASSUME NEW k \in 1..Keep PROVE candidates[k] \in noOlder
    <3>1. candidates[k] \in ofRepo /\ created[candidates[k]] >= created[i]
      BY <2>1, <2>3, <2>4, ElementOfSeq DEF TypeOK, Sorted, NewestFirst
    <3>2. candidates[k] \notin Removed
      BY <2>3, <2>4 DEF OnlyPassedGo, Sorted, IsKept
    <3> QED
      BY <3>1, <3>2 DEF Removed, TypeOK
  <2>8. kept \subseteq noOlder /\ noOlder \subseteq Images
    BY <2>7 DEF TypeOK
  <2>9. Cardinality(kept) <= Cardinality(noOlder)
    BY <2>8, ImagePruneAssumption, FS_Subset
  <2> QED
    BY <2>2, <2>6, <2>9
<1> QED
  BY AlwaysInv, <1>1, PTL

\* Undisturbed, no more than the newest Keep and the deployed image is left
\* unused of those that are of this repository alone, however many there were
\* (README.md:198).
THEOREM RestGoes == Spec => []NothingElseIsLeft
<1>1. ASSUME IInv PROVE NothingElseIsLeft
  <2> USE <1>1 DEF IInv
  <2> SUFFICES ASSUME pc = "done", Keep > 0, ~disturbed
               PROVE  Cardinality((present \cap ofRepo) \ (inUse \cup elsewhere \cup deployed)) <= Keep
    BY DEF NothingElseIsLeft
  <2> DEFINE left == (present \cap ofRepo) \ (inUse \cup elsewhere \cup deployed)
             K == {k \in DOMAIN candidates : k <= Keep}
             kept == {candidates[k] : k \in K}
  <2>1. \A i \in left : \E k \in DOMAIN candidates : candidates[k] = i /\ IsKept(k)
    BY DEF ListsAreTrue
  <2>2. left \subseteq kept
    BY <2>1 DEF IsKept
  <2>3. K \subseteq 1..Keep
    BY LenProperties DEF TypeOK
  <2>4. IsFiniteSet(1..Keep) /\ Cardinality(1..Keep) = Keep
    BY FS_Interval, ImagePruneAssumption
  <2>5. IsFiniteSet(K) /\ Cardinality(K) <= Keep
    BY <2>3, <2>4, FS_Subset
  <2>6. IsFiniteSet(kept) /\ Cardinality(kept) = Cardinality(K)
    BY <2>5, CandidatesAt
  <2>7. Cardinality(left) <= Cardinality(kept)
    BY <2>2, <2>6, FS_Subset
  <2>8. Cardinality(left) \in Nat /\ Cardinality(K) \in Nat /\ Keep \in Nat
    BY <2>2, <2>5, <2>6, FS_Subset, FS_CardinalityType, ImagePruneAssumption
  <2> QED
    BY <2>5, <2>6, <2>7, <2>8
<1> QED
  BY AlwaysInv, <1>1, PTL

\* No image goes that backed a container when the containers were listed, also
\* when the container goes before the loop gets to it (api.go:196-197).
THEOREM NeverFromUnderAContainer == Spec => []UsedImagesStay
<1>1. IInv => UsedImagesStay
  BY DEF IInv, OnlyPassedGo, NoneWasUsed, UsedImagesStay
<1> QED
  BY AlwaysInv, <1>1, PTL

=============================================================================
