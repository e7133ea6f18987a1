------------------------- MODULE RegistryAccessProofs -------------------------
(***************************************************************************)
(* Proofs about RegistryAccess for any number of workflows and containers, *)
(* and names of any length: who is not found, what a registry token opens, *)
(* and which service a workflow gets to deploy.                            *)
(*                                                                         *)
(* The argument.  However an image reference is written, its base name is  *)
(* what Discover compares, and the repository in a request's path is what  *)
(* is in front of its last call.  So exchange and deploy each find         *)
(* containers by the base name they were asked for, and hold on to the one *)
(* they found; the secret comes from nowhere but an exchange.              *)
(***************************************************************************)
EXTENDS RegistryAccess, TLAPS, FiniteSetTheorems, SequenceTheorems, WellFoundedInduction

-----------------------------------------------------------------------------
\* The inductive invariant

TypeOK ==
  /\ app \in [Containers -> Apps]
  /\ running \subseteq Containers
  /\ DOMAIN seen = Workflows
  /\ match \in [Workflows -> SUBSET Containers]
  /\ req \in [Workflows -> Requests]
  /\ held \in [Workflows -> {"jwt", "secret"}]
  /\ DOMAIN pc = Workflows /\ DOMAIN token = Workflows
  /\ DOMAIN location = Workflows /\ DOMAIN answer = Workflows
  /\ settledAt \in [Workflows -> Nat]
  /\ authorised \in [Workflows -> SUBSET Apps]
  /\ deployed \in [Workflows -> SUBSET Apps]
  /\ now \in Nat

\* What is about to be inspected is called as was asked.
FoundItsService(w) ==
  \A c \in match[w] :
     /\ pc[w] = "grant" => IsUnder(app[c], req[w].name)
     /\ pc[w] = "inspect" => IsUnder(app[c], req[w].to)

\* The answer that nothing was found is about what was seen.
SawNone(w) ==
  /\ answer[w] = "not found" =>
       /\ held[w] = "jwt" /\ pc[w] = "exchange"
       /\ \A a \in seen[w] : a.name # Last(req[w].name)
  /\ answer[w] = "no service" =>
       pc[w] = "end" /\ \A a \in seen[w] : a.name # Last(req[w].to)

\* The service that let the workflow in.
Admitted(w) == \E a \in authorised[w] : IsUnder(a, req[w].name) /\ checkOIDCLabels(req[w], a)

\* The secret comes with a token, for the name that was asked.
Holds(w) ==
  /\ pc[w] \in {"exchange", "grant"} => held[w] = req[w].auth /\ token[w] = {}
  /\ pc[w] = "grant" => held[w] = "jwt" /\ IsImageName(req[w].name)
  /\ held[w] = "jwt" => pc[w] \in {"exchange", "grant"}
  /\ \A t, u \in token[w] : t = u
  /\ \A t \in token[w] : t.expiry \in Nat
  /\ req[w].auth = "jwt" /\ held[w] = "secret" => Admitted(w)

\* Only the secret deploys.
DeployedAsAsked(w) ==
  /\ deployed[w] # {} => held[w] = "secret"
  /\ \A a \in deployed[w] : IsUnder(a, req[w].to)

IsBehindTheProxy(l) == l.host = ""

Located(w) ==
  IsBehindTheProxy(location[w]) /\ location[w].path = req[w].to \o <<"blobs", "uploads", "uuid">>

Uploads(w) == pc[w] = "blob" => Located(w)

Settled(w) ==
  \A t \in token[w] :
     /\ answer[w] = "denied" => req[w].to # t.image \/ settledAt[w] > t.expiry
     /\ answer[w] = "pushed" => req[w].to = t.image /\ settledAt[w] <= t.expiry

FlowOK(w) ==
  FoundItsService(w) /\ SawNone(w) /\ Holds(w) /\ DeployedAsAsked(w) /\ Uploads(w) /\ Settled(w)

IInv == TypeOK /\ \A w \in Workflows : FlowOK(w)

-----------------------------------------------------------------------------
\* Positions in a sequence

LEMMA LeastOf ==
  ASSUME NEW I \in SUBSET Nat, I # {}
  PROVE  Min(I) \in I /\ \A k \in I : Min(I) <= k
<1>1. PICK i \in I : \A k \in I : ~(<<k, i>> \in OpToRel(<, Nat))
  BY NatLessThanWellFounded, WFMin, Zenon
<1>2. \A k \in I : ~(k < i)
  BY <1>1 DEF OpToRel
<1>3. \E m \in I : \A k \in I : m =< k
  BY <1>2
<1> QED
  BY <1>3 DEF Min

LEMMA GreatestOf ==
  ASSUME NEW n \in Nat, NEW I \in SUBSET (1..n), I # {}
  PROVE  Max(I) \in I /\ \A k \in I : Max(I) >= k
<1> DEFINE J == {n - i : i \in I}
<1>1. J \subseteq Nat /\ J # {}
  <2>1. \A i \in I : n - i \in Nat
    OBVIOUS
  <2>2. PICK i \in I : TRUE
    OBVIOUS
  <2>3. n - i \in J
    BY <2>2
  <2> QED
    BY <2>1, <2>3
<1>2. PICK j \in J : \A k \in J : j <= k
  BY <1>1, LeastOf
<1>3. \E i \in I : \A k \in I : i >= k
  BY <1>2
<1> QED
  BY <1>3 DEF Max

LEMMA IndexFacts ==
  ASSUME NEW S, NEW s \in Seq(S), NEW sep
  PROVE  \/ /\ Index(s, sep) = 0
            /\ \A k \in 1..Len(s) : s[k] # sep
         \/ /\ Index(s, sep) \in 1..Len(s)
            /\ s[Index(s, sep)] = sep
            /\ \A k \in 1..Len(s) : k < Index(s, sep) => s[k] # sep
<1> DEFINE I == {k \in 1..Len(s) : s[k] = sep}
           m == Min(I)
<1>1. Index(s, sep) = IF I # {} THEN Min(I) ELSE 0
  BY DEF Index, SelectInSeq
<1>2. Len(s) \in Nat
  BY LenProperties
<1>3. CASE I = {}
  BY <1>1, <1>3
<1>4. CASE I # {}
  <2>1. I \subseteq Nat
    BY <1>2
  <2>2. Index(s, sep) = m /\ m \in I /\ \A k \in I : m <= k
    BY <1>1, <1>4, <2>1, LeastOf
  <2> HIDE DEF m
  <2>3. \A k \in 1..Len(s) : k < m => k \notin I
    BY <1>2, <2>2
  <2> QED
    BY <2>2, <2>3
<1> QED
  BY <1>3, <1>4

LEMMA LastIndexFacts ==
  ASSUME NEW S, NEW s \in Seq(S), NEW sep
  PROVE  \/ /\ LastIndex(s, sep) = 0
            /\ \A k \in 1..Len(s) : s[k] # sep
         \/ /\ LastIndex(s, sep) \in 1..Len(s)
            /\ s[LastIndex(s, sep)] = sep
            /\ \A k \in 1..Len(s) : k > LastIndex(s, sep) => s[k] # sep
<1> DEFINE I == {k \in 1..Len(s) : s[k] = sep}
           m == Max(I)
<1>1. LastIndex(s, sep) = IF I # {} THEN Max(I) ELSE 0
  BY DEF LastIndex, SelectLastInSeq
<1>2. Len(s) \in Nat
  BY LenProperties
<1>3. CASE I = {}
  BY <1>1, <1>3
<1>4. CASE I # {}
  <2>1. LastIndex(s, sep) = m /\ m \in I /\ \A k \in I : m >= k
    BY <1>1, <1>2, <1>4, GreatestOf
  <2> HIDE DEF m
  <2>2. \A k \in 1..Len(s) : k > m => k \notin I
    BY <1>2, <2>1
  <2> QED
    BY <2>1, <2>2
<1> QED
  BY <1>3, <1>4

LEMMA Prefix ==
  ASSUME NEW S, NEW s \in Seq(S), NEW m \in 1..Len(s), NEW n \in m..Len(s)
  PROVE  /\ SubSeq(s, m, n) \in Seq(S)
         /\ Len(SubSeq(s, m, n)) = n - m + 1
         /\ \A k \in 1..n - m + 1 : SubSeq(s, m, n)[k] = s[m + k - 1]
<1>1. Len(s) \in Nat
  BY LenProperties
<1>2. m \in Int /\ n \in Int /\ m <= n
  BY <1>1
<1>3. \A k \in m..n : s[k] \in S
  BY <1>1, ElementOfSeq
<1> QED
  BY <1>2, <1>3, SubSeqProperties

LEMMA SetToSeqsFacts ==
  ASSUME NEW S, IsFiniteSet(S), NEW s \in SetToSeqs(S)
  PROVE  /\ s \in Seq(S)
         /\ \A a, b \in DOMAIN s : a # b => s[a] # s[b]
         /\ \A i \in S : \E k \in DOMAIN s : s[k] = i
<1> DEFINE n == Cardinality(S)
<1>1. n \in Nat
  BY FS_CardinalityType
<1>2. s \in [1..n -> S] /\ \A a, b \in 1..n : a # b => s[a] # s[b]
  BY DEF SetToSeqs
<1>3. s \in Injection(1..n, S)
  BY <1>2 DEF Injection, IsInjective
<1>4. Cardinality(1..n) = n
  BY <1>1, FS_Interval
<1>5. s \in Surjection(1..n, S)
  BY <1>3, <1>4, FS_Injection
<1>6. s \in Seq(S)
  BY <1>1, <1>2, SeqDef
<1> QED
  BY <1>2, <1>5, <1>6 DEF Surjection

-----------------------------------------------------------------------------
\* Image references

\* Whatever is around it, the base name is what Discover compares.
LEMMA BaseOfRef ==
  ASSUME NEW S, NEW r \in Seq(S), NEW n \in 1..Len(r), NameIsAt(r, n)
  PROVE  baseName(RepoFromRef(r)) = <<r[n]>>
<1> DEFINE w == WithoutDigest(r)
           l == Len(w)
<1>1. Len(r) \in Nat /\ n \in Nat /\ n > 0 /\ n <= Len(r)
  BY LenProperties
<1>2. /\ w \in Seq(S) /\ l \in Nat /\ n <= l /\ l <= Len(r)
      /\ \A k \in 1..l : w[k] = r[k]
      /\ l < Len(r) => r[l + 1] = "@"
      /\ \A k \in 1..l : r[k] # "@"
  <2> DEFINE at == Index(r, "@")
  <2>1. CASE at = 0
    <3>1. w = r
      BY <2>1 DEF WithoutDigest
    <3>2. \A k \in 1..Len(r) : r[k] # "@"
      BY <1>1, <2>1, IndexFacts
    <3> HIDE DEF w
    <3> QED
      BY <1>1, <3>1, <3>2
  <2>2. CASE at # 0
    <3>1. at \in 1..Len(r) /\ r[at] = "@" /\ \A k \in 1..Len(r) : k < at => r[k] # "@"
      BY <2>2, IndexFacts
    <3>2. n < at
      <4>1. \A k \in 1..Len(r) : k <= n => r[k] # "@"
        BY DEF NameIsAt
      <4> QED
        BY <1>1, <3>1, <4>1
    <3>3. w = SubSeq(r, 1, at - 1)
      BY <2>2 DEF WithoutDigest
    <3> HIDE DEF at, w
    <3>4. 1 \in 1..Len(r) /\ at - 1 \in 1..Len(r) /\ at - 1 - 1 + 1 = at - 1
      BY <1>1, <3>1, <3>2
    <3>5. w \in Seq(S) /\ l = at - 1 /\ \A k \in 1..at - 1 : w[k] = r[1 + k - 1]
      BY <3>3, <3>4, Prefix
    <3>6. \A k \in 1..at - 1 : 1 + k - 1 = k /\ k \in 1..Len(r) /\ k < at
      BY <1>1, <3>1
    <3>7. at - 1 \in Nat /\ n <= at - 1 /\ (at - 1) + 1 = at
      BY <1>1, <3>1, <3>2
    <3> QED
      BY <3>1, <3>5, <3>6, <3>7
  <2> QED
    BY <2>1, <2>2
<1> HIDE DEF w, l
<1>3. /\ w[n] = r[n] /\ w[n] \notin {"/", ":"}
      /\ n = 1 \/ w[n - 1] = "/"
      /\ \A k \in 1..l : k > n => w[k] # "/"
      /\ n < l => w[n + 1] = ":"
  <2>1. /\ n \in 1..l /\ (n # 1 => n - 1 \in 1..l)
        /\ n < l => n + 1 \in 1..l /\ n # Len(r)
        /\ \A k \in 1..l : k \in 1..Len(r)
    BY <1>1, <1>2
  <2>2. /\ r[n] \notin {"/", ":"}
        /\ n = 1 \/ r[n - 1] = "/"
        /\ n = Len(r) \/ r[n + 1] \in {":", "@"}
        /\ \A k \in 1..Len(r) : k > n => r[k] # "/"
    BY DEF NameIsAt
  <2>3. w[n] = r[n] /\ (n = 1 \/ w[n - 1] = "/")
    BY <1>2, <2>1, <2>2
  <2>4. \A k \in 1..l : k > n => w[k] # "/"
    BY <1>2, <2>1, <2>2
  <2>5. n < l => w[n + 1] = ":"
    BY <1>2, <2>1, <2>2
  <2> QED
    BY <2>2, <2>3, <2>4, <2>5
<1>4. LastIndex(w, "/") = n - 1
  <2>1. \A k \in 1..l : k > n - 1 => w[k] # "/"
    BY <1>1, <1>2, <1>3
  <2>2. LastIndex(w, "/") \in 0..n - 1
    BY <1>1, <1>2, <2>1, LastIndexFacts DEF l
  <2> QED
    BY <1>1, <1>2, <1>3, <2>2, LastIndexFacts DEF l
<1> DEFINE p == RepoFromRef(r)
<1>5. p \in Seq(S) /\ Len(p) = n /\ \A k \in 1..n : p[k] = r[k]
  <2> DEFINE u == SubSeq(w, n, l)
  <2>1. p = IF Index(u, ":") = 0 THEN w ELSE SubSeq(w, 1, (n - 1) + Index(u, ":") - 1)
    <3>1. (n - 1) + 1 = n
      BY <1>1
    <3> QED
      BY <1>4, <3>1 DEF RepoFromRef, w, l
  <2> HIDE DEF p
  <2>2. n \in 1..Len(w) /\ l \in n..Len(w) /\ 1 \in 1..Len(w)
    BY <1>1, <1>2 DEF l
  <2>3. u \in Seq(S) /\ Len(u) = l - n + 1 /\ \A k \in 1..l - n + 1 : u[k] = w[n + k - 1]
    BY <1>2, <2>2, Prefix
  <2> HIDE DEF u
  <2>4. u[1] # ":"
    <3>1. 1 \in 1..l - n + 1 /\ n + 1 - 1 = n
      BY <1>1, <1>2
    <3> QED
      BY <1>3, <2>3, <3>1
  <2>5. CASE l = n
    <3>1. Index(u, ":") = 0
      <4>1. Len(u) = 1
        BY <1>1, <2>3, <2>5
      <4> QED
        BY <2>3, <2>4, <4>1, IndexFacts
    <3> QED
      BY <1>2, <2>1, <2>5, <3>1 DEF l
  <2>6. CASE l # n
    <3>1. n < l /\ 2 \in 1..l - n + 1 /\ n + 2 - 1 = n + 1 /\ l - n + 1 \in Nat
      BY <1>1, <1>2, <2>6
    <3>2. u[2] = ":"
      BY <1>3, <2>3, <3>1
    <3>3. Index(u, ":") = 2
      <4>1. Len(u) \in Nat /\ 1 \in 1..Len(u) /\ 2 \in 1..Len(u)
        BY <2>3, <3>1
      <4>2. Index(u, ":") # 0
        BY <2>3, <3>2, <4>1, IndexFacts
      <4>3. /\ Index(u, ":") \in 1..Len(u)
            /\ u[Index(u, ":")] = ":"
            /\ \A k \in 1..Len(u) : k < Index(u, ":") => u[k] # ":"
        BY <2>3, <4>2, IndexFacts
      <4>4. Index(u, ":") # 1
        BY <2>4, <4>3
      <4>5. ~(2 < Index(u, ":"))
        BY <3>2, <4>1, <4>3
      <4> QED
        BY <4>1, <4>3, <4>4, <4>5
    <3>4. (n - 1) + 2 - 1 = n /\ n - 1 + 1 = n
      BY <1>1
    <3>5. p = SubSeq(w, 1, n)
      BY <2>1, <3>3, <3>4
    <3>6. p \in Seq(S) /\ Len(p) = n /\ \A k \in 1..n : p[k] = w[1 + k - 1]
      BY <1>2, <2>2, <3>4, <3>5, Prefix
    <3>7. \A k \in 1..n : 1 + k - 1 = k /\ k \in 1..l
      BY <1>1, <1>2
    <3> QED
      BY <1>2, <3>6, <3>7
  <2> QED
    BY <2>5, <2>6
<1> HIDE DEF p
<1>6. LastIndex(p, "/") = n - 1
  <2>1. p[n] # "/" /\ (n = 1 \/ p[n - 1] = "/")
    <3>1. n \in 1..n /\ (n # 1 => n - 1 \in 1..n /\ n - 1 \in 1..l)
      BY <1>1, <1>2
    <3> QED
      BY <1>2, <1>3, <1>5, <3>1
  <2>2. \A k \in 1..n : k > n - 1 => p[k] # "/"
    BY <1>1, <2>1
  <2>3. LastIndex(p, "/") \in 0..n - 1
    BY <1>1, <1>5, <2>2, LastIndexFacts
  <2> QED
    BY <1>1, <1>5, <2>1, <2>3, LastIndexFacts
<1>7. SubSeq(p, n, n) = <<p[n]>>
  <2> DEFINE b == SubSeq(p, n, n)
  <2>1. n \in 1..Len(p) /\ n \in n..Len(p)
    BY <1>1, <1>5
  <2>2. n - n + 1 = 1 /\ n + 1 - 1 = n
    BY <1>1
  <2>3. b \in Seq(S) /\ Len(b) = 1 /\ b[1] = p[n]
    BY <1>5, <2>1, <2>2, Prefix
  <2> HIDE DEF b
  <2>4. b = <<p[n]>>
    BY <2>3
  <2> QED
    BY <2>4 DEF b
<1>8. p[n] = r[n] /\ (n - 1) + 1 = n
  BY <1>1, <1>5
<1> QED
  BY <1>5, <1>6, <1>7, <1>8 DEF baseName, p

LEMMA JoinedFacts ==
  ASSUME NEW S, NEW s \in Seq(S), s # <<>>, "/" \in S
  PROVE  /\ Joined(s) \in Seq(S)
         /\ Len(Joined(s)) = 2 * Len(s) - 1
         /\ Joined(s)[2 * Len(s) - 1] = Last(s)
         /\ Len(s) > 1 => Joined(s)[2 * Len(s) - 2] = "/"
         /\ \A k \in 1..2 * Len(s) - 1 : Joined(s)[k] = "/" \/ \E i \in DOMAIN s : Joined(s)[k] = s[i]
<1> DEFINE n == Len(s)
           at(k) == (k + 1) \div 2
<1>1. n \in Nat /\ n > 0 /\ DOMAIN s = 1..n
  BY LenProperties, EmptySeq
<1>2. \A k \in 1..2 * n - 1 : k % 2 = 1 => at(k) \in 1..n
  <2> HIDE DEF n
  <2> QED
    BY <1>1
<1>3. \A k \in 1..2 * n - 1 : Joined(s)[k] = IF k % 2 = 1 THEN s[at(k)] ELSE "/"
  BY DEF Joined
<1>4. /\ (2 * n - 1) % 2 = 1 /\ at(2 * n - 1) = n /\ 2 * n - 1 \in 1..2 * n - 1
      /\ n > 1 => (2 * n - 2) % 2 = 0 /\ 2 * n - 2 \in 1..2 * n - 1
  <2> HIDE DEF n
  <2> QED
    BY <1>1
<1>5. \A i \in 1..n : s[i] \in S
  BY ElementOfSeq
<1>6. Joined(s) \in [1..2 * n - 1 -> S]
  <2>1. \A k \in 1..2 * n - 1 : Joined(s)[k] \in S
    BY <1>2, <1>3, <1>5
  <2>2. Joined(s) = [k \in 1..2 * n - 1 |-> Joined(s)[k]]
    BY DEF Joined
  <2> QED
    BY <2>1, <2>2
<1>7. Joined(s) \in Seq(S) /\ Len(Joined(s)) = 2 * n - 1
  <2>1. 2 * n - 1 \in Nat
    BY <1>1
  <2> QED
    BY <1>6, <2>1
<1>8. ASSUME NEW k \in 1..2 * n - 1
      PROVE  Joined(s)[k] = "/" \/ \E i \in DOMAIN s : Joined(s)[k] = s[i]
  BY <1>1, <1>2, <1>3
<1>9. Joined(s)[2 * n - 1] = Last(s) /\ (n > 1 => Joined(s)[2 * n - 2] = "/")
  BY <1>3, <1>4 DEF Last
<1> QED
  BY <1>7, <1>8, <1>9

\* However deep a repository is and wherever its registry: what Discover
\* compares is the last segment.
LEMMA BaseOfName ==
  ASSUME NEW S, "/" \in S, ":" \in S,
         NEW s \in Seq(S), s # <<>>, \A i \in DOMAIN s : s[i] \notin {"/", ":", "@"},
         NEW q \in Seq(S), q # <<>> => Last(q) = "/", \A i \in DOMAIN q : q[i] # "@",
         NEW tag \in S, tag # "/"
  PROVE  baseName(RepoFromRef(q \o Joined(s) \o <<":", tag>>)) = <<Last(s)>>
<1> DEFINE j == Joined(s)
           l == Len(q)
           m == 2 * Len(s) - 1
           n == l + m
           r == q \o j \o <<":", tag>>
<1>1. /\ j \in Seq(S) /\ Len(j) = m /\ j[m] = Last(s)
      /\ Len(s) > 1 => j[m - 1] = "/"
      /\ \A k \in 1..m : j[k] # "@"
  <2>1. /\ j \in Seq(S) /\ Len(j) = m /\ j[m] = Last(s)
        /\ Len(s) > 1 => j[2 * Len(s) - 2] = "/"
        /\ \A k \in 1..m : j[k] = "/" \/ \E i \in DOMAIN s : j[k] = s[i]
    BY JoinedFacts
  <2>2. m - 1 = 2 * Len(s) - 2
    BY LenProperties
  <2> HIDE DEF j, m
  <2> QED
    BY <2>1, <2>2
<1>2. /\ l \in Nat /\ Len(s) \in Nat /\ Len(s) > 0 /\ DOMAIN q = 1..l /\ DOMAIN s = 1..Len(s)
      /\ q # <<>> => l > 0 /\ q[l] = "/"
      /\ q = <<>> => l = 0
  BY LenProperties, EmptySeq DEF Last
<1>3. m \in Nat /\ m > 0 /\ n \in Nat /\ n > 0 /\ (Len(s) > 1 <=> m > 1)
  BY <1>2
<1> HIDE DEF j, l, m
<1>4. /\ q \o j \in Seq(S) /\ Len(q \o j) = n
      /\ \A k \in 1..l : (q \o j)[k] = q[k]
      /\ \A k \in 1..m : (q \o j)[l + k] = j[k]
  <2>1. /\ q \o j \in Seq(S) /\ Len(q \o j) = l + m
        /\ \A k \in 1..l + m : (q \o j)[k] = IF k <= l THEN q[k] ELSE j[k - l]
    BY <1>1, ConcatProperties DEF l
  <2>2. ASSUME NEW k \in 1..m PROVE (q \o j)[l + k] = j[k]
    <3>1. l + k \in 1..l + m /\ ~(l + k <= l) /\ (l + k) - l = k
      BY <1>2, <1>3
    <3> QED
      BY <2>1, <3>1
  <2>3. \A k \in 1..l : k \in 1..l + m /\ k <= l
    BY <1>2, <1>3
  <2> QED
    BY <2>1, <2>2, <2>3
<1>5. <<":", tag>> \in Seq(S)
  OBVIOUS
<1>6. /\ r \in Seq(S) /\ Len(r) = n + 2
      /\ \A k \in 1..n : r[k] = (q \o j)[k]
      /\ r[n + 1] = ":" /\ r[n + 2] = tag
  <2> DEFINE qj == q \o j
             e == <<":", tag>>
  <2>1. Len(e) = 2 /\ e[1] = ":" /\ e[2] = tag
    OBVIOUS
  <2>2. qj \in Seq(S) /\ Len(qj) = n /\ e \in Seq(S)
    BY <1>4, <1>5
  <2> HIDE DEF qj, e, n
  <2>3. /\ qj \o e \in Seq(S) /\ Len(qj \o e) = n + 2
        /\ \A k \in 1..n + 2 : (qj \o e)[k] = IF k <= n THEN qj[k] ELSE e[k - n]
    <3>1. /\ qj \o e \in Seq(S) /\ Len(qj \o e) = Len(qj) + Len(e)
          /\ \A k \in 1..Len(qj) + Len(e) :
                (qj \o e)[k] = IF k <= Len(qj) THEN qj[k] ELSE e[k - Len(qj)]
      BY <2>2, ConcatProperties, Zenon
    <3> QED
      BY <2>1, <2>2, <3>1
  <2>4. /\ n + 1 \in 1..n + 2 /\ ~(n + 1 <= n) /\ (n + 1) - n = 1
        /\ n + 2 \in 1..n + 2 /\ ~(n + 2 <= n) /\ (n + 2) - n = 2
        /\ \A k \in 1..n : k \in 1..n + 2 /\ k <= n
    BY <1>3
  <2>5. /\ qj \o e \in Seq(S) /\ Len(qj \o e) = n + 2
        /\ \A k \in 1..n : (qj \o e)[k] = qj[k]
        /\ (qj \o e)[n + 1] = ":" /\ (qj \o e)[n + 2] = tag
    BY <2>1, <2>3, <2>4
  <2> QED
    BY <2>5 DEF qj, e
<1> HIDE DEF r
<1>7. r[n] = Last(s) /\ (n = 1 \/ r[n - 1] = "/")
  <2>1. (q \o j)[n] = Last(s) /\ n \in 1..n
    BY <1>1, <1>3, <1>4
  <2>2. CASE m > 1
    <3>1. n - 1 \in 1..n /\ n - 1 = l + (m - 1) /\ m - 1 \in 1..m
      BY <1>2, <1>3, <2>2
    <3>2. (q \o j)[n - 1] = "/"
      BY <1>1, <1>3, <1>4, <2>2, <3>1
    <3> QED
      BY <1>6, <2>1, <3>1, <3>2
  <2>3. CASE m = 1 /\ l > 0
    <3>1. n - 1 = l /\ l \in 1..l /\ l \in 1..n
      BY <1>2, <2>3
    <3> QED
      BY <1>2, <1>4, <1>6, <2>1, <2>3, <3>1
  <2>4. CASE m = 1 /\ l = 0
    <3>1. n = 1
      BY <2>4
    <3> QED
      BY <1>6, <2>1, <3>1
  <2> QED
    BY <1>2, <1>3, <2>2, <2>3, <2>4
<1>8. Last(s) \notin {"/", ":", "@"}
  BY <1>2 DEF Last
<1>9. \A k \in 1..n : r[k] # "@"
  <2>1. ASSUME NEW k \in 1..n PROVE r[k] # "@"
    <3>1. CASE k \in 1..l
      BY <1>2, <1>4, <1>6, <3>1
    <3>2. CASE k \notin 1..l
      <4>1. k - l \in 1..m /\ k = l + (k - l)
        BY <1>2, <1>3, <3>2
      <4>2. (q \o j)[k] = j[k - l] /\ j[k - l] # "@"
        BY <1>1, <1>4, <4>1
      <4> QED
        BY <1>6, <4>2
    <3> QED
      BY <3>1, <3>2
  <2> QED
    BY <2>1
<1> HIDE DEF n
<1>10. baseName(RepoFromRef(r)) = <<r[n]>>
  <2>1. /\ Len(r) = n + 2 /\ n \in 1..Len(r) /\ n # Len(r)
        /\ \A k \in 1..Len(r) : k > n => k = n + 1 \/ k = n + 2
        /\ \A k \in 1..Len(r) : k < n => k \in 1..n
    BY <1>3, <1>6
  <2>2. \A k \in 1..Len(r) : (k < n => r[k] # "@") /\ (k > n => r[k] # "/")
    BY <1>6, <1>9, <2>1
  <2>3. NameIsAt(r, n)
    BY <1>6, <1>7, <1>8, <2>1, <2>2 DEF NameIsAt
  <2> QED
    BY <1>6, <2>1, <2>3, BaseOfRef
<1> QED
  BY <1>7, <1>10 DEF r, j

-----------------------------------------------------------------------------
\* Discover, for the references that workflows write

Words ==
  STRING \cup {"/", ":", "latest", "sha256", "id", "blobs", "uploads", "uuid", "manifests"}

LEMMA RequestFacts ==
  ASSUME NEW r \in Requests
  PROVE  /\ r.auth \in {"jwt", "secret"}
         /\ r.name \in Seq(Words) /\ r.to \in Seq(Words)
         /\ r.to # <<>> /\ (\A i \in DOMAIN r.to : r.to[i] \notin {"/", ":", "@"})
         /\ IsImageName(r.name) =>
              r.name # <<>> /\ \A i \in DOMAIN r.name : r.name[i] \notin {"/", ":", "@"}
         /\ r.tag \in Words /\ r.tag \notin Keywords \cup {"uploads", "/"}
<1>1. STRING \subseteq Words
  BY Zenon DEF Words
<1>2. /\ r.auth \in {"jwt", "secret"}
      /\ r.name \in Seq(STRING) /\ r.to \in Seq(STRING) /\ r.to # <<>>
      /\ r.tag \in STRING /\ r.tag # "/"
  BY RequestsAssumption, Zenon
<1>3. r.name \in Seq(Words) /\ r.to \in Seq(Words) /\ r.tag \in Words
  BY <1>1, <1>2, SeqMonotonic, Zenon
<1>4. /\ \A i \in DOMAIN r.name : r.name[i] \notin {"/", "@"}
      /\ \A i \in DOMAIN r.to : r.to[i] \notin {"/", ":", "@"}
  BY RequestsAssumption, Zenon
<1>5. IsImageName(r.name) =>
        r.name # <<>> /\ \A i \in DOMAIN r.name : r.name[i] \notin {"/", ":", "@"}
  BY <1>4 DEF IsImageName
<1>6. r.tag \notin Keywords \cup {"uploads"}
  BY TagsAreNoKeywords
<1> QED
  BY <1>2, <1>3, <1>4, <1>5, <1>6

LEMMA FullReference ==
  ASSUME NEW r \in Requests
  PROVE  baseName(RepoFromRef(Host \o Joined(r.to) \o <<":", r.tag>>)) = <<Last(r.to)>>
<1>1. "/" \in Words /\ ":" \in Words /\ STRING \subseteq Words
  BY Zenon DEF Words
<1>2. /\ Host \in Seq(Words) /\ (Host # <<>> => Last(Host) = "/")
      /\ \A i \in DOMAIN Host : Host[i] # "@"
  BY <1>1, RequestsAssumption, SeqMonotonic, Zenon
<1>3. /\ r.to \in Seq(Words) /\ r.to # <<>> /\ (\A i \in DOMAIN r.to : r.to[i] \notin {"/", ":", "@"})
      /\ r.tag \in Words /\ r.tag # "/"
  BY RequestFacts
<1> QED
  BY <1>1, <1>2, <1>3, BaseOfName

LEMMA BareName ==
  ASSUME NEW r \in Requests, IsImageName(r.name)
  PROVE  baseName(RepoFromRef(Joined(r.name) \o <<":", "latest">>)) = <<Last(r.name)>>
<1>1. "/" \in Words /\ ":" \in Words /\ "latest" \in Words
  BY Zenon DEF Words
<1>2. /\ r.name \in Seq(Words) /\ r.name # <<>>
      /\ \A i \in DOMAIN r.name : r.name[i] \notin {"/", ":", "@"}
  BY RequestFacts
<1>3. <<>> \in Seq(Words) /\ (\A i \in DOMAIN <<>> : <<>>[i] # "@")
  BY EmptySeq
<1>4. "latest" # "/"
  OBVIOUS
<1>5. baseName(RepoFromRef(<<>> \o Joined(r.name) \o <<":", "latest">>)) = <<Last(r.name)>>
  BY <1>1, <1>2, <1>3, <1>4, BaseOfName
<1>6. <<>> \o Joined(r.name) = Joined(r.name)
  BY <1>1, <1>2, JoinedFacts, ConcatEmptySeq
<1> QED
  BY <1>5, <1>6

LEMMA ImageID == baseName(RepoFromRef(<<"sha256", ":", "id">>)) = <<"sha256">>
<1> DEFINE r == <<"sha256", ":", "id">>
           n == 1
<1>1. "sha256" \in Words /\ ":" \in Words /\ "id" \in Words
  BY Zenon DEF Words
<1>2. r \in Seq(Words)
  BY <1>1
<1>3. /\ n \in Nat /\ n > 0 /\ Len(r) = n + 2
      /\ r[n] = "sha256" /\ r[n + 1] = ":" /\ r[n + 2] = "id"
      /\ n = 1 \/ r[n - 1] = "/"
      /\ \A k \in 1..n + 2 : r[k] # "@"
  OBVIOUS
<1> HIDE DEF r, n
<1>4. r[n] \notin {"/", ":"} /\ r[n + 2] # "/"
  BY <1>3
<1>5. baseName(RepoFromRef(r)) = <<r[n]>>
  <2>1. /\ Len(r) = 3 /\ n \in 1..Len(r) /\ n = 1
        /\ r[n] \notin {"/", ":", "@"} /\ r[2] = ":" /\ r[3] # "/"
    BY <1>3, <1>4 DEF n
  <2>2. \A k \in 1..Len(r) : (k < n => r[k] # "@") /\ (k > n => r[k] # "/")
    <3>1. \A k \in 1..Len(r) : ~(k < n) /\ (k > n => k = 2 \/ k = 3)
      BY <2>1
    <3> QED
      BY <2>1, <3>1
  <2>3. NameIsAt(r, n)
    BY <1>3, <2>1, <2>2 DEF NameIsAt
  <2> QED
    BY <1>2, <2>1, <2>3, BaseOfRef
<1> QED
  BY <1>3, <1>5 DEF r

\* What is compared is base names.
LEMMA MatchingFacts ==
  ASSUME TypeOK, NEW c \in Containers, NEW ref, NEW name,
         baseName(RepoFromRef(ref)) = <<name>>
  PROVE  Matches(c, RepoFromRef(ref)) <=> (IF c \in moved THEN "sha256" ELSE app[c].name) = name
<1> DEFINE base == IF c \in moved THEN "sha256" ELSE app[c].name
<1>1. baseName(RepoFromRef(ListedImage(c))) = <<base>>
  <2>1. app[c] \in Apps
    BY DEF TypeOK
  <2>2. baseName(RepoFromRef(app[c].image)) = <<app[c].name>>
    <3>1. PICK n \in 1..Len(app[c].image) :
            NameIsAt(app[c].image, n) /\ app[c].image[n] = app[c].name
      BY <2>1, DiscoveryAssumption, Zenon
    <3>2. app[c].image \in Seq(STRING)
      BY <2>1, DiscoveryAssumption, Zenon
    <3> QED
      BY <3>1, <3>2, BaseOfRef, Zenon
  <2> QED
    BY <2>2, ImageID DEF ListedImage
<1>2. Matches(c, RepoFromRef(ref)) <=>
        baseName(RepoFromRef(ListedImage(c))) = baseName(RepoFromRef(ref))
  BY Zenon DEF Matches
<1>3. <<base>> = <<name>> <=> base = name
  OBVIOUS
<1> QED
  BY <1>1, <1>2, <1>3, Zenon

LEMMA ListingFacts ==
  ASSUME TypeOK, NEW list \in SetToSeqs(running), NEW ref, NEW name,
         baseName(RepoFromRef(ref)) = <<name>>
  PROVE  LET found == FindMatchingContainer(list, RepoFromRef(ref)) IN
         /\ found \subseteq running
         /\ \A c \in found : name = "sha256" \/ app[c].name = name
         /\ found = {} => \A c \in running \ moved : app[c].name # name
<1> DEFINE at == SelectInSeq(list, LAMBDA c : Matches(c, RepoFromRef(ref)))
           I == {k \in 1..Len(list) : Matches(list[k], RepoFromRef(ref))}
<1>1. IsFiniteSet(running)
  BY DiscoveryAssumption, FS_Subset DEF TypeOK
<1>2. /\ list \in Seq(running) /\ Len(list) \in Nat /\ DOMAIN list = 1..Len(list)
      /\ \A c \in running : \E k \in DOMAIN list : list[k] = c
  BY <1>1, SetToSeqsFacts, LenProperties
<1>3. at = IF I # {} THEN Min(I) ELSE 0
  BY DEF SelectInSeq
<1>4. I # {} => at \in I
  <2>1. I \subseteq Nat
    BY <1>2
  <2> HIDE DEF I
  <2> QED
    BY <1>3, <2>1, LeastOf
<1>5. FindMatchingContainer(list, RepoFromRef(ref)) = IF at = 0 THEN {} ELSE {list[at]}
  BY DEF FindMatchingContainer
<1> HIDE DEF at
<1>6. CASE I = {}
  <2>1. FindMatchingContainer(list, RepoFromRef(ref)) = {}
    BY <1>3, <1>5, <1>6
  <2>2. ASSUME NEW c \in running \ moved PROVE app[c].name # name
    <3>1. c \in Containers /\ ~Matches(c, RepoFromRef(ref))
      BY <1>2, <1>6 DEF TypeOK
    <3> QED
      BY <3>1, MatchingFacts
  <2> QED
    BY <2>1, <2>2
<1>7. CASE I # {}
  <2>1. at \in 1..Len(list) /\ Matches(list[at], RepoFromRef(ref))
    BY <1>4, <1>7
  <2>2. list[at] \in running
    BY <1>2, <2>1, ElementOfSeq
  <2>3. FindMatchingContainer(list, RepoFromRef(ref)) = {list[at]}
    BY <1>2, <1>5, <2>1
  <2>4. name = "sha256" \/ app[list[at]].name = name
    BY <2>1, <2>2, MatchingFacts DEF TypeOK
  <2> QED
    BY <2>2, <2>3, <2>4
<1> QED
  BY <1>6, <1>7

-----------------------------------------------------------------------------
\* The proxy

\* What is in front of the last call in a path.
LEMMA RepoInFront ==
  ASSUME NEW s \in Seq(Words), NEW e \in Seq(Words), NEW m \in CallAt(s \o e),
         \A k \in CallAt(s \o e) : k <= m,
         Len(s) = IF (s \o e)[m] = "uploads" THEN m - 2 ELSE m - 1
  PROVE  extractRepoFromPath(s \o e) = s
<1> DEFINE p == s \o e
<1>1. /\ p \in Seq(Words) /\ Len(p) = Len(s) + Len(e) /\ DOMAIN p = 1..Len(p)
      /\ Len(s) \in Nat /\ Len(e) \in Nat /\ Len(p) \in Nat
  BY ConcatProperties, LenProperties
<1>2. CallAt(p) \in SUBSET (1..Len(p)) /\ CallAt(p) # {}
  BY <1>1 DEF CallAt
<1>3. Max(CallAt(p)) = m
  <2>1. Max(CallAt(p)) \in CallAt(p) /\ \A k \in CallAt(p) : Max(CallAt(p)) >= k
    BY <1>1, <1>2, GreatestOf
  <2>2. m \in 1..Len(p) /\ Max(CallAt(p)) \in 1..Len(p)
    BY <1>2, <2>1
  <2>3. Max(CallAt(p)) >= m /\ Max(CallAt(p)) <= m
    BY <2>1
  <2> QED
    BY <1>1, <2>2, <2>3
<1>4. extractRepoFromPath(p) = SubSeq(p, 1, Len(s))
  BY <1>2, <1>3 DEF extractRepoFromPath
<1>5. SubSeq(p, 1, Len(s)) = s
  <2>1. CASE Len(s) = 0
    <3>1. s = <<>>
      BY <2>1, EmptySeq
    <3>2. SubSeq(p, 1, 0) = <<>>
      BY SubSeqEmpty
    <3> QED
      BY <2>1, <3>1, <3>2
  <2>2. CASE Len(s) # 0
    <3>1. 1 \in 1..Len(s) /\ Len(s) \in 1..Len(s)
      <4>1. \A l \in Nat : l # 0 => 1 \in 1..l /\ l \in 1..l
        OBVIOUS
      <4> QED
        BY <1>1, <2>2, <4>1, Zenon
    <3>2. SubSeq(p, 1, Len(s)) = SubSeq(s, 1, Len(s))
      BY <3>1, SubSeqOfConcat1, Zenon
    <3> QED
      BY <3>2, SubSeqFull
  <2> QED
    BY <2>1, <2>2
<1> QED
  BY <1>4, <1>5

LEMMA BehindTheRepo ==
  ASSUME NEW r \in Requests
  PROVE  /\ extractRepoFromPath(r.to \o <<"blobs", "uploads">>) = r.to
         /\ extractRepoFromPath(r.to \o <<"blobs", "uploads", "uuid">>) = r.to
         /\ extractRepoFromPath(r.to \o <<"manifests", r.tag>>) = r.to
<1> DEFINE s == r.to
           n == Len(r.to)
<1>1. /\ "blobs" \in Words /\ "uploads" \in Words /\ "uuid" \in Words /\ "manifests" \in Words
      /\ r.tag \in Words
  BY RequestFacts, Zenon DEF Words
<1>2. /\ s \in Seq(Words) /\ n \in Nat
      /\ r.tag \notin Keywords \cup {"uploads"}
  BY RequestFacts, LenProperties
<1> HIDE DEF s, n
<1>3. ASSUME NEW e \in Seq(Words), NEW m \in 1..2, m <= Len(e),
             e[1] \in {"blobs", "manifests"},
             m = 2 <=> e[2] = "uploads", m = 2 => e[1] = "blobs",
             \A k \in 2..Len(e) : k # m => e[k] \notin Keywords \cup {"uploads"}
      PROVE  extractRepoFromPath(s \o e) = s
  <2> DEFINE p == s \o e
  <2>1. /\ p \in Seq(Words) /\ Len(p) = n + Len(e) /\ DOMAIN p = 1..n + Len(e) /\ Len(e) \in Nat
        /\ \A k \in 1..n + Len(e) : p[k] = IF k <= n THEN s[k] ELSE e[k - n]
    BY <1>2, ConcatProperties, LenProperties DEF s, n
  <2> HIDE DEF p
  <2>2. n + m \in 1..n + Len(e) /\ n + 1 \in 1..n + Len(e) /\ ~(n + 1 <= n) /\ (n + 1) - n = 1
        /\ ~(n + m <= n) /\ (n + m) - n = m
    BY <1>2, <1>3, <2>1
  <2>3. p[n + m] = e[m] /\ p[n + 1] = e[1]
    BY <2>1, <2>2
  <2>4. n + m \in CallAt(p)
    <3>1. CASE m = 1
      BY <1>3, <2>1, <2>2, <2>3, <3>1 DEF CallAt, Keywords
    <3>2. CASE m = 2
      <4>1. n + 2 > 1 /\ (n + 2) - 1 = n + 1
        BY <1>2
      <4> QED
        BY <1>3, <2>1, <2>2, <2>3, <3>2, <4>1 DEF CallAt
    <3> QED
      BY <3>1, <3>2
  <2>5. ASSUME NEW k \in CallAt(p) PROVE k <= n + m
    <3> SUFFICES ASSUME ~(k <= n + m) PROVE FALSE
      OBVIOUS
    <3>1. k \in 1..n + Len(e) /\ p[k] \in Keywords \cup {"uploads"}
      BY <2>1 DEF CallAt
    <3>2. ~(k <= n) /\ k - n \in 2..Len(e) /\ k - n # m
      BY <1>2, <2>1, <3>1
    <3>3. p[k] = e[k - n]
      BY <2>1, <3>1, <3>2
    <3> QED
      BY <1>3, <3>1, <3>2, <3>3
  <2>6. n = IF p[n + m] = "uploads" THEN (n + m) - 2 ELSE (n + m) - 1
    <3>1. CASE m = 1
      BY <1>2, <1>3, <2>3, <3>1
    <3>2. CASE m = 2
      BY <1>2, <1>3, <2>3, <3>2
    <3> QED
      BY <3>1, <3>2
  <2> QED
    BY <1>2, <2>4, <2>5, <2>6, RepoInFront DEF p, n, s
<1>4. extractRepoFromPath(s \o <<"blobs", "uploads">>) = s
  <2> DEFINE e == <<"blobs", "uploads">>
             m == 2
  <2>1. /\ e \in Seq(Words) /\ Len(e) = 2 /\ e[1] = "blobs" /\ e[2] = "uploads"
        /\ m \in 1..2 /\ m = 2
    BY <1>1
  <2> HIDE DEF e, m
  <2>2. \A k \in 2..Len(e) : k = m
    BY <2>1
  <2>3. m <= Len(e)
    BY <2>1
  <2>4. extractRepoFromPath(s \o e) = s
    BY <1>3, <2>1, <2>2, <2>3
  <2> QED
    BY <2>4 DEF e
<1>5. extractRepoFromPath(s \o <<"blobs", "uploads", "uuid">>) = s
  <2> DEFINE e == <<"blobs", "uploads", "uuid">>
             m == 2
  <2>1. /\ e \in Seq(Words) /\ Len(e) = 3 /\ e[1] = "blobs" /\ e[2] = "uploads" /\ e[3] = "uuid"
        /\ m \in 1..2 /\ m = 2
    BY <1>1
  <2> HIDE DEF e, m
  <2>2. \A k \in 2..Len(e) : k # m => k = 3
    BY <2>1
  <2>3. m <= Len(e)
    BY <2>1
  <2>4. "uuid" \notin Keywords \cup {"uploads"}
    BY DEF Keywords
  <2>5. extractRepoFromPath(s \o e) = s
    BY <1>3, <2>1, <2>2, <2>3, <2>4
  <2> QED
    BY <2>5 DEF e
<1>6. extractRepoFromPath(s \o <<"manifests", r.tag>>) = s
  <2> DEFINE e == <<"manifests", r.tag>>
             m == 1
  <2>1. /\ e \in Seq(Words) /\ Len(e) = 2 /\ e[1] = "manifests" /\ e[2] = r.tag
        /\ m \in 1..2 /\ m = 1
    BY <1>1
  <2> HIDE DEF e, m
  <2>2. \A k \in 2..Len(e) : k # m => k = 2
    BY <2>1
  <2>3. m <= Len(e) /\ e[2] # "uploads"
    BY <1>2, <2>1
  <2>4. extractRepoFromPath(s \o e) = s
    BY <1>2, <1>3, <2>1, <2>2, <2>3
  <2> QED
    BY <2>4 DEF e
<1> QED
  BY <1>4, <1>5, <1>6 DEF s

\* What opens the registry to a workflow.
LEMMA LoginAuth ==
  ASSUME NEW w \in Workflows
  PROVE  validateProxyAuth(w, <<>>) <=> \A t \in token[w] : now <= t.expiry
<1>1. CallAt(<<>>) = {}
  BY DEF CallAt
<1>2. extractRepoFromPath(<<>>) = <<>>
  BY <1>1 DEF extractRepoFromPath
<1> QED
  BY <1>2, Zenon DEF validateProxyAuth, ValidateRegistryToken

LEMMA PushAuth ==
  ASSUME NEW w \in Workflows, NEW path, extractRepoFromPath(path) = req[w].to, req[w] \in Requests
  PROVE  validateProxyAuth(w, path) <=> \A t \in token[w] : t.image = req[w].to /\ now <= t.expiry
<1>1. extractRepoFromPath(path) # <<>>
  BY RequestFacts
<1> QED
  BY <1>1, Zenon DEF validateProxyAuth, ValidateRegistryTokenForRepo, ValidateRegistryToken

-----------------------------------------------------------------------------
\* The invariant holds initially and every step keeps it

LEMMA InitInv == Init => IInv
<1> SUFFICES ASSUME Init PROVE IInv
  OBVIOUS
<1>1. /\ app \in [Containers -> Apps] /\ running \subseteq Containers
      /\ req \in [Workflows -> Requests]
      /\ seen = [w \in Workflows |-> {}] /\ match = [w \in Workflows |-> {}]
      /\ pc = [w \in Workflows |-> "exchange"] /\ held = [w \in Workflows |-> req[w].auth]
      /\ token = [w \in Workflows |-> {}] /\ DOMAIN location = Workflows
      /\ answer = [w \in Workflows |-> "none"] /\ settledAt = [w \in Workflows |-> 0]
      /\ authorised = [w \in Workflows |-> {}] /\ deployed = [w \in Workflows |-> {}]
      /\ now = 0
  BY Zenon DEF Init, HostInit, Workflows
<1>2. TypeOK
  <2>1. held \in [Workflows -> {"jwt", "secret"}]
    BY <1>1, RequestFacts
  <2> QED
    BY <1>1, <2>1 DEF TypeOK
<1>3. ASSUME NEW w \in Workflows PROVE FlowOK(w)
  <2>1. /\ match[w] = {} /\ pc[w] = "exchange" /\ held[w] = req[w].auth /\ token[w] = {}
        /\ answer[w] = "none" /\ deployed[w] = {}
    BY <1>1
  <2>2. req[w].auth = "jwt" => held[w] # "secret"
    BY <2>1
  <2> QED
    BY <2>1, <2>2 DEF FlowOK, FoundItsService, SawNone, Holds, DeployedAsAsked, Uploads, Settled
<1> QED
  BY <1>2, <1>3 DEF IInv

\* A workflow that a step does not touch.
LEMMA Untouched ==
  ASSUME NEW v \in Workflows, FlowOK(v), \A c \in match[v] : app'[c] = app[c],
         match'[v] = match[v], seen'[v] = seen[v], req'[v] = req[v], pc'[v] = pc[v],
         held'[v] = held[v], token'[v] = token[v], location'[v] = location[v],
         answer'[v] = answer[v], settledAt'[v] = settledAt[v],
         authorised'[v] = authorised[v], deployed'[v] = deployed[v]
  PROVE  FlowOK(v)'
<1>1. FoundItsService(v)' /\ SawNone(v)'
  BY DEF FlowOK, FoundItsService, SawNone, IsUnder
<1>2. Holds(v)'
  BY DEF FlowOK, Holds, Admitted
<1>3. DeployedAsAsked(v)' /\ Settled(v)'
  BY DEF FlowOK, DeployedAsAsked, Settled
<1>4. Uploads(v)'
  BY DEF FlowOK, Uploads, Located, IsBehindTheProxy
<1> QED
  BY <1>1, <1>2, <1>3, <1>4 DEF FlowOK

\* A step of w alone: it is enough to look at w.
MovesAlone(w) ==
  /\ UNCHANGED <<app, running, req, now>>
  /\ \A v \in Workflows \ {w} :
        /\ match'[v] = match[v] /\ seen'[v] = seen[v] /\ pc'[v] = pc[v]
        /\ held'[v] = held[v] /\ token'[v] = token[v] /\ location'[v] = location[v]
        /\ answer'[v] = answer[v] /\ settledAt'[v] = settledAt[v]
        /\ authorised'[v] = authorised[v] /\ deployed'[v] = deployed[v]

LEMMA AloneKeepsInv ==
  ASSUME IInv, NEW w \in Workflows, MovesAlone(w), TypeOK', FlowOK(w)'
  PROVE  IInv'
<1>1. ASSUME NEW v \in Workflows PROVE FlowOK(v)'
  <2>1. CASE v # w
    BY <2>1, Untouched DEF MovesAlone, IInv
  <2> QED
    BY <2>1
<1> QED
  BY <1>1 DEF IInv

LEMMA HumaAuthFacts ==
  ASSUME NEW bearer \in {"jwt", "secret"}
  PROVE  /\ "claims" \in HumaAuth("post-auth-token", bearer) => bearer = "jwt"
         /\ "admin" \in HumaAuth("post-deploy", bearer) => bearer = "secret"
         /\ "denied" \in HumaAuth("post-deploy", bearer) => bearer = "jwt"
<1>1. CASE bearer = "jwt"
  <2>1. HumaAuth("post-deploy", "jwt") = {"denied"}
    BY DEF HumaAuth
  <2> QED
    BY <1>1, <2>1
<1>2. CASE bearer = "secret"
  <2>1. \A o : HumaAuth(o, "secret") = {"admin"}
    BY DEF HumaAuth
  <2> QED
    BY <1>2, <2>1
<1> QED
  BY <1>1, <1>2

LEMMA ExchangeRefusedKeepsInv ==
  ASSUME IInv, NEW w \in Workflows, ExchangeRefused(w)
  PROVE  IInv'
<1>1. PICK what : what \in {"forbidden", "bad request", "none"} /\ Ends(w, what)
  BY Zenon DEF ExchangeRefused
<1>2. /\ pc[w] = "exchange" /\ pc' = pc
      /\ answer' = [answer EXCEPT ![w] = what] /\ match' = [match EXCEPT ![w] = {}]
      /\ UNCHANGED <<app, running, seen, req, held, token, location, settledAt, authorised,
                     deployed, now>>
  BY <1>1 DEF ExchangeRefused, Ends, hostVars
<1>3. TypeOK' /\ MovesAlone(w)
  BY <1>2 DEF IInv, TypeOK, MovesAlone
<1>4. /\ pc'[w] = "exchange" /\ answer'[w] = what /\ match'[w] = {}
      /\ FlowOK(w)
  BY <1>2 DEF IInv, TypeOK
<1>5. FlowOK(w)'
  BY <1>1, <1>2, <1>4 DEF FlowOK, FoundItsService, SawNone, Holds, DeployedAsAsked, Uploads,
                          Settled, Admitted
<1> QED
  BY <1>3, <1>5, AloneKeepsInv

\* The list call succeeds or fails; nothing but the caller's own is changed.
LEMMA ExchangeKeepsInv ==
  ASSUME IInv, NEW w \in Workflows, Exchange(w)
  PROVE  IInv'
<1> DEFINE ref == Joined(req[w].name) \o <<":", "latest">>
           name == Last(req[w].name)
<1>1. /\ pc[w] = "exchange" /\ held[w] = "jwt" /\ IsImageName(req[w].name) /\ FlowOK(w)
      /\ UNCHANGED <<app, running, req, held, token, location, settledAt, authorised, deployed, now>>
  BY HumaAuthFacts DEF Exchange, hostVars, IInv, TypeOK
<1>2. CASE Ends(w, "error") /\ UNCHANGED <<seen, pc>>
  <2>1. /\ answer' = [answer EXCEPT ![w] = "error"] /\ match' = [match EXCEPT ![w] = {}]
        /\ UNCHANGED <<seen, pc>>
    BY <1>2 DEF Ends
  <2>2. TypeOK' /\ MovesAlone(w)
    BY <1>1, <2>1 DEF IInv, TypeOK, MovesAlone
  <2>3. answer'[w] = "error" /\ match'[w] = {}
    BY <2>1 DEF IInv, TypeOK
  <2>4. FlowOK(w)'
    BY <1>1, <2>1, <2>3 DEF FlowOK, FoundItsService, SawNone, Holds, DeployedAsAsked, Uploads,
                            Settled
  <2> QED
    BY <2>2, <2>4, AloneKeepsInv
<1>3. CASE /\ ListRunningContainers(w, ref)
           /\ pc' = [pc EXCEPT ![w] = IF match'[w] = {} THEN @ ELSE "grant"]
           /\ answer' = [answer EXCEPT ![w] = IF match'[w] = {} THEN "not found" ELSE "none"]
  <2> DEFINE Names(found) ==
               /\ found \subseteq running
               /\ \A c \in found : name = "sha256" \/ app[c].name = name
               /\ found = {} => \A c \in running \ moved : app[c].name # name
  <2>0. seen' = [seen EXCEPT ![w] = IF match'[w] = {} THEN {app[c] : c \in running \ moved}
                                                       ELSE {}]
    BY <1>3 DEF ListRunningContainers
  <2>1. PICK found : match' = [match EXCEPT ![w] = found] /\ Names(found)
    <3>1. PICK list \in SetToSeqs(running) :
             match' = [match EXCEPT ![w] = FindMatchingContainer(list, RepoFromRef(ref))]
      BY <1>3 DEF ListRunningContainers
    <3>2. baseName(RepoFromRef(ref)) = <<name>>
      BY <1>1, BareName DEF IInv, TypeOK
    <3> HIDE DEF ref, name
    <3>3. Names(FindMatchingContainer(list, RepoFromRef(ref)))
      BY <3>2, ListingFacts DEF IInv
    <3> HIDE DEF Names
    <3> QED
      BY <3>1, <3>3
  <2>2. /\ match'[w] = found /\ seen'[w] = IF found = {} THEN {app[c] : c \in running \ moved} ELSE {}
        /\ pc'[w] = IF found = {} THEN "exchange" ELSE "grant"
        /\ answer'[w] = IF found = {} THEN "not found" ELSE "none"
    BY <1>1, <1>3, <2>0, <2>1 DEF IInv, TypeOK
  <2>3. TypeOK' /\ MovesAlone(w)
    <3>1. match' \in [Workflows -> SUBSET Containers]
      BY <2>1 DEF IInv, TypeOK
    <3>2. DOMAIN seen' = Workflows /\ DOMAIN pc' = Workflows /\ DOMAIN answer' = Workflows
      BY <1>3, <2>0 DEF IInv, TypeOK
    <3>3. TypeOK'
      BY <1>1, <3>1, <3>2 DEF IInv, TypeOK
    <3>4. \A v \in Workflows \ {w} : /\ match'[v] = match[v] /\ seen'[v] = seen[v]
                                     /\ pc'[v] = pc[v] /\ answer'[v] = answer[v]
      BY <1>3, <2>0, <2>1 DEF IInv, TypeOK
    <3> QED
      BY <1>1, <3>3, <3>4 DEF MovesAlone
  <2>4. FoundItsService(w)'
    BY <1>1, <2>1, <2>2 DEF FoundItsService, IsUnder
  <2>5. SawNone(w)'
    <3>1. ASSUME found = {} PROVE \A a \in seen'[w] : a.name # name
      <4>1. seen'[w] = {app[c] : c \in running \ moved}
        BY <2>2, <3>1
      <4>2. \A c \in running \ moved : app[c].name # name
        BY <2>1, <3>1
      <4> HIDE DEF name
      <4> QED
        BY <4>1, <4>2
    <3> QED
      BY <1>1, <2>2, <3>1 DEF SawNone
  <2>6. Holds(w)'
    BY <1>1, <2>2 DEF FlowOK, Holds
  <2>7. DeployedAsAsked(w)' /\ Uploads(w)' /\ Settled(w)'
    BY <1>1, <2>2 DEF FlowOK, DeployedAsAsked, Uploads, Settled
  <2> QED
    BY <2>3, <2>4, <2>5, <2>6, <2>7, AloneKeepsInv DEF FlowOK
<1> QED
  BY <1>2, <1>3 DEF Exchange

LEMMA GrantKeepsInv ==
  ASSUME IInv, NEW w \in Workflows, Grant(w)
  PROVE  IInv'
<1>1. PICK a \in Apps :
        Inspected(w, a) /\ checkOIDCLabels(req[w], a) /\ authorised' = [authorised EXCEPT ![w] = {a}]
  BY DEF Grant
<1>2. PICK t : t = MintRegistryToken(req[w].name)
  OBVIOUS
<1>3. /\ pc[w] = "grant" /\ token' = [token EXCEPT ![w] = {t}]
      /\ held' = [held EXCEPT ![w] = "secret"] /\ pc' = [pc EXCEPT ![w] = "login"]
      /\ answer' = [answer EXCEPT ![w] = "granted"] /\ match' = [match EXCEPT ![w] = {}]
      /\ UNCHANGED <<app, running, seen, req, location, settledAt, deployed, now>>
  BY <1>2 DEF Grant, Ends, hostVars
<1>4. /\ authorised'[w] = {a} /\ token'[w] = {t} /\ held'[w] = "secret" /\ pc'[w] = "login"
      /\ answer'[w] = "granted" /\ match'[w] = {} /\ FlowOK(w)
  BY <1>1, <1>3 DEF IInv, TypeOK
<1>5. t.expiry \in Nat
  BY <1>2, RequestsAssumption DEF MintRegistryToken, IInv, TypeOK
<1>6. IsUnder(a, req[w].name) /\ checkOIDCLabels(req[w], a)
  BY <1>1, <1>3, <1>4 DEF FlowOK, FoundItsService, Inspected
<1>7. deployed[w] = {}
  <2>1. held[w] = "jwt"
    BY <1>3, <1>4 DEF FlowOK, Holds
  <2> QED
    BY <1>4, <2>1 DEF FlowOK, DeployedAsAsked
<1>8. TypeOK' /\ MovesAlone(w)
  BY <1>1, <1>3 DEF IInv, TypeOK, MovesAlone
<1>9. Holds(w)'
  <2>1. Admitted(w)'
    BY <1>3, <1>4, <1>6 DEF Admitted
  <2> QED
    BY <1>3, <1>4, <1>5, <2>1 DEF Holds
<1>10. FoundItsService(w)' /\ SawNone(w)' /\ DeployedAsAsked(w)' /\ Uploads(w)' /\ Settled(w)'
  BY <1>3, <1>4, <1>7 DEF FoundItsService, SawNone, DeployedAsAsked, Uploads, Settled
<1> QED
  BY <1>8, <1>9, <1>10, AloneKeepsInv DEF FlowOK

LEMMA GrantRefusedKeepsInv ==
  ASSUME IInv, NEW w \in Workflows, GrantRefused(w)
  PROVE  IInv'
<1>1. PICK what : what \in {"error", "forbidden"} /\ Ends(w, what)
  BY Zenon DEF GrantRefused
<1>2. /\ pc[w] = "grant" /\ pc' = [pc EXCEPT ![w] = "exchange"]
      /\ answer' = [answer EXCEPT ![w] = what] /\ match' = [match EXCEPT ![w] = {}]
      /\ UNCHANGED <<app, running, seen, req, held, token, location, settledAt, authorised,
                     deployed, now>>
  BY <1>1 DEF GrantRefused, Ends, hostVars
<1>3. TypeOK' /\ MovesAlone(w)
  BY <1>2 DEF IInv, TypeOK, MovesAlone
<1>4. /\ pc'[w] = "exchange" /\ answer'[w] = what /\ match'[w] = {}
      /\ FlowOK(w)
  BY <1>2 DEF IInv, TypeOK
<1>5. FlowOK(w)'
  BY <1>1, <1>2, <1>4 DEF FlowOK, FoundItsService, SawNone, Holds, DeployedAsAsked, Uploads, Settled
<1> QED
  BY <1>3, <1>5, AloneKeepsInv

LEMMA UseSecretKeepsInv ==
  ASSUME IInv, NEW w \in Workflows, UseSecret(w)
  PROVE  IInv'
<1>1. /\ pc[w] = "exchange" /\ held[w] = "secret" /\ pc' = [pc EXCEPT ![w] = "login"]
      /\ UNCHANGED <<app, running, seen, match, req, held, token, location, answer, settledAt,
                     authorised, deployed, now>>
  BY DEF UseSecret, hostVars, seekVars
<1>2. TypeOK' /\ MovesAlone(w)
  BY <1>1 DEF IInv, TypeOK, MovesAlone
<1>3. pc'[w] = "login" /\ FlowOK(w)
  BY <1>1 DEF IInv, TypeOK
<1>4. FlowOK(w)'
  BY <1>1, <1>3 DEF FlowOK, FoundItsService, SawNone, Holds, DeployedAsAsked, Uploads, Settled,
                          Admitted
<1> QED
  BY <1>2, <1>4, AloneKeepsInv

\* A request of the push, for the repository that is pushed unless it is the
\* login.
LEMMA RequestKeepsInv ==
  ASSUME IInv, NEW w \in Workflows, NEW path, NEW next \in {"upload", "blob", "manifest", "pushed"},
         Request(w, path, next), pc[w] \in {"login", "upload", "blob", "manifest"},
         \/ path = <<>> /\ next # "pushed"
         \/ extractRepoFromPath(path) = req[w].to,
         DOMAIN location' = Workflows, \A v \in Workflows \ {w} : location'[v] = location[v],
         pc[w] = "blob" \/ next = "blob" => Located(w)'
  PROVE  IInv'
<1> DEFINE ok == validateProxyAuth(w, path)
           p == pc'[w]
           a == answer'[w]
           s == settledAt'[w]
<1>1. /\ DOMAIN pc' = Workflows /\ \A v \in Workflows \ {w} : pc'[v] = pc[v]
      /\ DOMAIN answer' = Workflows /\ settledAt' \in [Workflows -> Nat]
      /\ \A v \in Workflows \ {w} : answer'[v] = answer[v] /\ settledAt'[v] = settledAt[v]
      /\ \/ ok /\ p = next /\ next = "pushed" /\ a = "pushed" /\ s = now
         \/ ok /\ p = next /\ next # "pushed" /\ a = answer[w] /\ s = settledAt[w]
         \/ ~ok /\ p = pc[w] /\ a = "denied" /\ s = now
         \/ ok /\ p = pc[w] /\ a = "bad gateway" /\ s = now
  <2> HIDE DEF ok
  <2>1. \/ /\ ok /\ pc' = [pc EXCEPT ![w] = next]
           /\ \/ next = "pushed" /\ Settle(w, "pushed")
              \/ next # "pushed" /\ answer' = answer /\ settledAt' = settledAt
        \/ ~ok /\ pc' = pc /\ Settle(w, "denied")
        \/ ok /\ pc' = pc /\ Settle(w, "bad gateway")
    BY DEF Request, ok
  <2>2. /\ DOMAIN pc = Workflows /\ DOMAIN answer = Workflows
        /\ settledAt \in [Workflows -> Nat] /\ now \in Nat
    BY DEF IInv, TypeOK
  <2>3. ASSUME NEW what, Settle(w, what)
        PROVE  /\ DOMAIN answer' = Workflows /\ settledAt' \in [Workflows -> Nat]
               /\ \A v \in Workflows \ {w} : answer'[v] = answer[v] /\ settledAt'[v] = settledAt[v]
               /\ a = what /\ s = now
    BY <2>2, <2>3 DEF Settle
  <2>4. DOMAIN pc' = Workflows /\ \A v \in Workflows \ {w} : pc'[v] = pc[v]
    BY <2>1, <2>2
  <2>5. CASE /\ ok /\ pc' = [pc EXCEPT ![w] = next] /\ next # "pushed"
             /\ answer' = answer /\ settledAt' = settledAt
    BY <2>2, <2>4, <2>5
  <2>6. CASE ok /\ pc' = [pc EXCEPT ![w] = next] /\ next = "pushed" /\ Settle(w, "pushed")
    BY <2>2, <2>3, <2>4, <2>6
  <2>7. CASE ~ok /\ pc' = pc /\ Settle(w, "denied")
    BY <2>2, <2>3, <2>4, <2>7
  <2>8. CASE ok /\ pc' = pc /\ Settle(w, "bad gateway")
    BY <2>2, <2>3, <2>4, <2>8
  <2> QED
    BY <2>1, <2>5, <2>6, <2>7, <2>8
<1>2. UNCHANGED <<app, running, match, seen, req, held, token, authorised, deployed, now>>
  BY DEF Request, hostVars, seekVars
<1>3. pc'[w] = p /\ answer'[w] = a /\ settledAt'[w] = s /\ FlowOK(w)
  BY DEF IInv
<1> HIDE DEF p, a, s
<1>4. req[w] \in Requests /\ now \in Nat /\ settledAt[w] \in Nat
  BY DEF IInv, TypeOK
<1>5. \/ next # "pushed" /\ (ok <=> \A t \in token[w] : now <= t.expiry)
      \/ ok <=> \A t \in token[w] : t.image = req[w].to /\ now <= t.expiry
  BY <1>4, LoginAuth, PushAuth
<1> HIDE DEF ok
<1>6. TypeOK' /\ MovesAlone(w)
  BY <1>1, <1>2 DEF IInv, TypeOK, MovesAlone
<1>7. held[w] # "jwt" /\ answer[w] # "not found" /\ answer[w] # "no service"
  BY <1>3 DEF FlowOK, Holds, SawNone
<1>8. FoundItsService(w)' /\ SawNone(w)' /\ Holds(w)'
  <2>1. p \in {"login", "upload", "blob", "manifest", "pushed"} /\ a # "not found" /\ a # "no service"
    BY <1>1, <1>7
  <2>2. FoundItsService(w)' /\ SawNone(w)'
    BY <1>3, <2>1 DEF FoundItsService, SawNone
  <2>3. Holds(w)'
    BY <1>2, <1>3, <1>7, <2>1 DEF FlowOK, Holds, Admitted
  <2> QED
    BY <2>2, <2>3
<1>9. DeployedAsAsked(w)' /\ Settled(w)'
  <2>1. /\ \A t, u \in token[w] : t = u
        /\ \A t \in token[w] : t.expiry \in Nat
    BY <1>3 DEF FlowOK, Holds
  <2>3. DeployedAsAsked(w)'
    BY <1>2, <1>3 DEF FlowOK, DeployedAsAsked
  <2>4. ASSUME NEW t \in token[w]
        PROVE  /\ a = "denied" => req[w].to # t.image \/ s > t.expiry
               /\ a = "pushed" => req[w].to = t.image /\ s <= t.expiry
    <3>1. /\ t.expiry \in Nat
          /\ \/ next # "pushed" /\ (ok <=> now <= t.expiry)
             \/ ok <=> t.image = req[w].to /\ now <= t.expiry
      BY <1>5, <2>1
    <3>2. CASE s = now /\ (a = "denied" => ~ok) /\ (a = "pushed" => ok /\ next = "pushed")
      BY <1>4, <3>1, <3>2
    <3>3. CASE a = answer[w] /\ s = settledAt[w]
      BY <1>3, <3>3 DEF FlowOK, Settled
    <3> QED
      BY <1>1, <3>2, <3>3
  <2>5. Settled(w)'
    BY <1>2, <1>3, <2>4 DEF Settled
  <2> QED
    BY <2>3, <2>5
<1>10. Uploads(w)'
  <2>1. p # "blob" \/ pc[w] = "blob" \/ next = "blob"
    BY <1>1
  <2> QED
    BY <1>3, <2>1 DEF Uploads
<1> QED
  BY <1>6, <1>8, <1>9, <1>10, AloneKeepsInv DEF FlowOK

LEMMA PushKeepsInv ==
  ASSUME IInv, NEW w \in Workflows,
         Login(w) \/ StartUpload(w) \/ PutBlob(w) \/ PutManifest(w)
  PROVE  IInv'
<1>1. req[w] \in Requests /\ DOMAIN location = Workflows /\ FlowOK(w)
  BY DEF IInv, TypeOK
<1>2. CASE Login(w)
  <2>1. pc[w] = "login" /\ Request(w, <<>>, "upload") /\ location' = location
    BY <1>2 DEF Login
  <2> QED
    BY <1>1, <2>1, RequestKeepsInv
<1>3. CASE StartUpload(w)
  <2> DEFINE path == req[w].to \o <<"blobs", "uploads">>
  <2>1. pc[w] = "upload" /\ Request(w, path, "blob")
    BY <1>3, Zenon DEF StartUpload
  <2>2. PICK l : /\ location' = [location EXCEPT ![w] = l]
                 /\ IsBehindTheProxy(l) /\ l.path = req[w].to \o <<"blobs", "uploads", "uuid">>
    <3>1. PICK host :
             location' = [location EXCEPT ![w] = RewriteLocation(
               [host |-> host, path |-> req[w].to \o <<"blobs", "uploads", "uuid">>])]
      BY <1>3, Zenon DEF StartUpload
    <3>2. ASSUME NEW l0, l0 = [host |-> host, path |-> req[w].to \o <<"blobs", "uploads", "uuid">>]
          PROVE  /\ IsBehindTheProxy(RewriteLocation(l0))
                 /\ RewriteLocation(l0).path = req[w].to \o <<"blobs", "uploads", "uuid">>
      BY <3>2, Zenon DEF RewriteLocation, IsBehindTheProxy
    <3> QED
      BY <3>1, <3>2, Zenon
  <2>3. extractRepoFromPath(path) = req[w].to
    BY <1>1, BehindTheRepo
  <2>4. req' = req
    BY <2>1 DEF Request
  <2>5. /\ Located(w)' /\ DOMAIN location' = Workflows
        /\ \A v \in Workflows \ {w} : location'[v] = location[v]
    <3>1. /\ location'[w] = l /\ DOMAIN location' = Workflows
          /\ \A v \in Workflows \ {w} : location'[v] = location[v]
      BY <1>1, <2>2
    <3> QED
      BY <2>2, <2>4, <3>1 DEF Located, IsBehindTheProxy
  <2> HIDE DEF path
  <2> QED
    BY <2>1, <2>3, <2>5, RequestKeepsInv
<1>4. CASE PutBlob(w)
  <2>1. pc[w] = "blob" /\ Request(w, location[w].path, "manifest") /\ location' = location
    BY <1>4 DEF PutBlob
  <2>2. extractRepoFromPath(location[w].path) = req[w].to
    BY <1>1, <2>1, BehindTheRepo DEF FlowOK, Uploads, Located
  <2>3. Located(w)'
    <3>1. req' = req
      BY <2>1 DEF Request
    <3> QED
      BY <1>1, <2>1, <3>1 DEF FlowOK, Uploads, Located, IsBehindTheProxy
  <2> QED
    BY <1>1, <2>1, <2>2, <2>3, RequestKeepsInv
<1>5. CASE PutManifest(w)
  <2> DEFINE path == req[w].to \o <<"manifests", req[w].tag>>
  <2>1. pc[w] = "manifest" /\ Request(w, path, "pushed") /\ location' = location
    BY <1>5 DEF PutManifest
  <2>2. extractRepoFromPath(path) = req[w].to
    BY <1>1, BehindTheRepo
  <2> HIDE DEF path
  <2> QED
    BY <1>1, <2>1, <2>2, RequestKeepsInv
<1> QED
  BY <1>2, <1>3, <1>4, <1>5

LEMMA DeployDeniedKeepsInv ==
  ASSUME IInv, NEW w \in Workflows, DeployDenied(w)
  PROVE  IInv'
<1>1. /\ held[w] = "jwt" /\ answer' = [answer EXCEPT ![w] = "forbidden"]
      /\ UNCHANGED <<app, running, seen, match, req, pc, held, token, location, settledAt,
                     authorised, deployed, now>>
  BY HumaAuthFacts DEF DeployDenied, hostVars, seekVars, IInv, TypeOK
<1>2. TypeOK' /\ MovesAlone(w)
  BY <1>1 DEF IInv, TypeOK, MovesAlone
<1>3. answer'[w] = "forbidden" /\ FlowOK(w)
  BY <1>1 DEF IInv, TypeOK
<1>4. FoundItsService(w)' /\ SawNone(w)' /\ Settled(w)'
  BY <1>1, <1>3 DEF FlowOK, FoundItsService, SawNone, Settled
<1>5. Holds(w)' /\ DeployedAsAsked(w)'
  BY <1>1, <1>3 DEF FlowOK, Holds, DeployedAsAsked, Admitted
<1>6. Uploads(w)'
  BY <1>1, <1>3 DEF FlowOK, Uploads, Located, IsBehindTheProxy
<1> QED
  BY <1>2, <1>4, <1>5, <1>6, AloneKeepsInv DEF FlowOK

LEMMA DeployKeepsInv ==
  ASSUME IInv, NEW w \in Workflows, Deploy(w)
  PROVE  IInv'
<1> DEFINE ref == Host \o Joined(req[w].to) \o <<":", req[w].tag>>
           name == Last(req[w].to)
<1>1. /\ pc[w] \notin {"grant", "inspect", "end"} /\ held[w] = "secret" /\ FlowOK(w)
      /\ UNCHANGED <<app, running, req, held, token, location, settledAt, authorised, deployed, now>>
  BY HumaAuthFacts DEF Deploy, BetweenCalls, hostVars, IInv, TypeOK
<1>2. CASE Ends(w, "error") /\ pc' = [pc EXCEPT ![w] = "end"] /\ UNCHANGED seen
  <2>1. /\ answer' = [answer EXCEPT ![w] = "error"] /\ match' = [match EXCEPT ![w] = {}]
        /\ pc' = [pc EXCEPT ![w] = "end"] /\ UNCHANGED seen
    BY <1>2 DEF Ends
  <2>2. TypeOK' /\ MovesAlone(w)
    BY <1>1, <2>1 DEF IInv, TypeOK, MovesAlone
  <2>3. answer'[w] = "error" /\ match'[w] = {} /\ pc'[w] = "end"
    BY <2>1 DEF IInv, TypeOK
  <2>4. FoundItsService(w)' /\ SawNone(w)' /\ DeployedAsAsked(w)' /\ Uploads(w)' /\ Settled(w)'
    BY <1>1, <2>1, <2>3 DEF FlowOK, FoundItsService, SawNone, DeployedAsAsked, Uploads, Settled
  <2>5. Holds(w)'
    BY <1>1, <2>3 DEF FlowOK, Holds, Admitted
  <2> QED
    BY <2>2, <2>4, <2>5, AloneKeepsInv DEF FlowOK
<1>3. CASE /\ ListRunningContainers(w, ref)
           /\ pc' = [pc EXCEPT ![w] = IF match'[w] = {} THEN "end" ELSE "inspect"]
           /\ answer' = [answer EXCEPT ![w] = IF match'[w] = {} THEN "no service" ELSE "none"]
  <2> DEFINE Names(found) ==
               /\ found \subseteq running
               /\ \A c \in found : name = "sha256" \/ app[c].name = name
               /\ found = {} => \A c \in running \ moved : app[c].name # name
  <2>0. seen' = [seen EXCEPT ![w] = IF match'[w] = {} THEN {app[c] : c \in running \ moved}
                                                       ELSE {}]
    BY <1>3 DEF ListRunningContainers
  <2>1. PICK found : match' = [match EXCEPT ![w] = found] /\ Names(found)
    <3>1. PICK list \in SetToSeqs(running) :
             match' = [match EXCEPT ![w] = FindMatchingContainer(list, RepoFromRef(ref))]
      BY <1>3 DEF ListRunningContainers
    <3>2. baseName(RepoFromRef(ref)) = <<name>>
      BY <1>1, FullReference DEF IInv, TypeOK
    <3> HIDE DEF ref, name
    <3>3. Names(FindMatchingContainer(list, RepoFromRef(ref)))
      BY <3>2, ListingFacts DEF IInv
    <3> HIDE DEF Names
    <3> QED
      BY <3>1, <3>3
  <2>2. /\ match'[w] = found /\ seen'[w] = IF found = {} THEN {app[c] : c \in running \ moved} ELSE {}
        /\ pc'[w] = IF found = {} THEN "end" ELSE "inspect"
        /\ answer'[w] = IF found = {} THEN "no service" ELSE "none"
    BY <1>1, <1>3, <2>0, <2>1 DEF IInv, TypeOK
  <2>3. TypeOK' /\ MovesAlone(w)
    <3>1. match' \in [Workflows -> SUBSET Containers]
      BY <2>1 DEF IInv, TypeOK
    <3>2. DOMAIN seen' = Workflows /\ DOMAIN pc' = Workflows /\ DOMAIN answer' = Workflows
      BY <1>3, <2>0 DEF IInv, TypeOK
    <3>3. TypeOK'
      BY <1>1, <3>1, <3>2 DEF IInv, TypeOK
    <3>4. \A v \in Workflows \ {w} : /\ match'[v] = match[v] /\ seen'[v] = seen[v]
                                     /\ pc'[v] = pc[v] /\ answer'[v] = answer[v]
      BY <1>3, <2>0, <2>1 DEF IInv, TypeOK
    <3> QED
      BY <1>1, <3>3, <3>4 DEF MovesAlone
  <2>4. FoundItsService(w)'
    BY <1>1, <2>1, <2>2 DEF FoundItsService, IsUnder
  <2>5. SawNone(w)'
    <3>1. ASSUME found = {} PROVE \A a \in seen'[w] : a.name # name
      <4>1. seen'[w] = {app[c] : c \in running \ moved}
        BY <2>2, <3>1
      <4>2. \A c \in running \ moved : app[c].name # name
        BY <2>1, <3>1
      <4> HIDE DEF name
      <4> QED
        BY <4>1, <4>2
    <3> QED
      BY <1>1, <2>2, <3>1 DEF SawNone
  <2>6. Holds(w)'
    BY <1>1, <2>2 DEF FlowOK, Holds, Admitted
  <2>7. DeployedAsAsked(w)' /\ Uploads(w)' /\ Settled(w)'
    BY <1>1, <2>2 DEF FlowOK, DeployedAsAsked, Uploads, Settled
  <2> QED
    BY <2>3, <2>4, <2>5, <2>6, <2>7, AloneKeepsInv DEF FlowOK
<1> QED
  BY <1>2, <1>3 DEF Deploy

LEMMA DiscoveredKeepsInv ==
  ASSUME IInv, NEW w \in Workflows, Discovered(w)
  PROVE  IInv'
<1>1. PICK what, d :
         /\ what \in {"deployed", "error"} /\ Ends(w, what)
         /\ deployed' = [deployed EXCEPT ![w] = d]
         /\ d = deployed[w] \/ \E a \in Apps : Inspected(w, a) /\ d = {a}
  <2>1. deployed = [deployed EXCEPT ![w] = deployed[w]]
    BY DEF IInv, TypeOK
  <2> QED
    BY <2>1, Zenon DEF Discovered
<1>2. /\ pc[w] = "inspect" /\ pc' = [pc EXCEPT ![w] = "end"]
      /\ answer' = [answer EXCEPT ![w] = what] /\ match' = [match EXCEPT ![w] = {}]
      /\ UNCHANGED <<app, running, seen, req, held, token, location, settledAt, authorised, now>>
  BY <1>1 DEF Discovered, Ends, hostVars
<1>3. /\ pc'[w] = "end" /\ answer'[w] = what /\ match'[w] = {} /\ deployed'[w] = d
      /\ held[w] \in {"jwt", "secret"} /\ FlowOK(w)
  BY <1>1, <1>2 DEF IInv, TypeOK
<1>4. TypeOK' /\ MovesAlone(w)
  <2>1. d \in SUBSET Apps
    BY <1>1 DEF IInv, TypeOK
  <2> QED
    BY <1>1, <1>2, <2>1 DEF IInv, TypeOK, MovesAlone
<1>5. FoundItsService(w)' /\ SawNone(w)' /\ Uploads(w)' /\ Settled(w)'
  BY <1>1, <1>3 DEF FoundItsService, SawNone, Uploads, Settled
<1>6. held[w] = "secret" /\ Holds(w)'
  BY <1>2, <1>3 DEF FlowOK, Holds, Admitted
<1>7. DeployedAsAsked(w)'
  <2>1. \A a \in d : IsUnder(a, req[w].to)
    BY <1>1, <1>2, <1>3 DEF FlowOK, FoundItsService, Inspected, DeployedAsAsked
  <2> QED
    BY <1>2, <1>3, <1>6, <2>1 DEF DeployedAsAsked
<1> QED
  BY <1>4, <1>5, <1>6, <1>7, AloneKeepsInv DEF FlowOK

\* Containers come and go, but what a workflow is about to inspect stays what
\* it is.
LEMMA HostKeepsInv ==
  ASSUME IInv, HostStep \/ Tick \/ UNCHANGED vars
  PROVE  IInv'
<1>1. UNCHANGED <<seen, match, flowVars>>
  BY DEF HostStep, Tick, vars, seekVars
<1>2. /\ app' \in [Containers -> Apps] /\ running' \subseteq Containers /\ now' \in Nat
      /\ \A v \in Workflows : \A c \in match[v] : app'[c] = app[c]
  <2>1. CASE HostStep
    <3>1. PICK c \in Containers : ContainerEnds(c) \/ ContainerStarts(c) \/ TagMoves(c)
      BY <2>1 DEF HostStep
    <3>2. now' = now
      BY <2>1 DEF HostStep
    <3>3. CASE ContainerEnds(c) \/ TagMoves(c)
      BY <3>2, <3>3 DEF ContainerEnds, TagMoves, IInv, TypeOK
    <3>4. CASE ContainerStarts(c)
      <4>1. PICK a \in Apps : app' = [app EXCEPT ![c] = a]
        BY <3>4 DEF ContainerStarts
      <4>2. running' = running \cup {c} /\ \A v \in Workflows : c \notin match[v]
        BY <3>4 DEF ContainerStarts, Workflows
      <4> QED
        BY <3>2, <4>1, <4>2 DEF IInv, TypeOK
    <3> QED
      BY <3>1, <3>3, <3>4
  <2>2. CASE Tick
    BY <2>2 DEF Tick, hostVars, IInv, TypeOK
  <2>3. CASE UNCHANGED vars
    BY <2>3 DEF vars, hostVars, IInv, TypeOK
  <2> QED
    BY <2>1, <2>2, <2>3
<1>3. TypeOK'
  BY <1>1, <1>2 DEF flowVars, IInv, TypeOK
<1>4. ASSUME NEW v \in Workflows PROVE FlowOK(v)'
  BY <1>1, <1>2, Untouched DEF flowVars, IInv
<1> QED
  BY <1>3, <1>4 DEF IInv

LEMMA AlwaysInv == Spec => []IInv
<1>1. ASSUME IInv, [Next]_vars PROVE IInv'
  <2>1. ASSUME NEW w \in Workflows,
               \/ ExchangeRefused(w) \/ Exchange(w) \/ Grant(w) \/ GrantRefused(w) \/ UseSecret(w)
               \/ Login(w) \/ StartUpload(w) \/ PutBlob(w) \/ PutManifest(w)
               \/ DeployDenied(w) \/ Deploy(w) \/ Discovered(w)
        PROVE  IInv'
    BY <1>1, <2>1, ExchangeRefusedKeepsInv, ExchangeKeepsInv, GrantKeepsInv, GrantRefusedKeepsInv,
       UseSecretKeepsInv, PushKeepsInv, DeployDeniedKeepsInv, DeployKeepsInv, DiscoveredKeepsInv
  <2>2. CASE HostStep \/ Tick \/ UNCHANGED vars
    BY <1>1, <2>2, HostKeepsInv
  <2> QED
    BY <1>1, <2>1, <2>2 DEF Next
<1> QED
  BY <1>1, InitInv, PTL DEF Spec

-----------------------------------------------------------------------------
\* Theorems

\* Whatever registry, port, tag or digest the containers were started with: a
\* service that ran under its reference when Docker was asked is found by the
\* exchange, which has its bare name, and by the deploy, which has a full one
\* (discover.go:61-75, auth.go:59-63).
THEOREM FoundIfItRan == Spec => []NotFoundMeansNoneRan
<1>1. IInv => NotFoundMeansNoneRan
  BY DEF IInv, FlowOK, SawNone, NotFoundMeansNoneRan
<1> QED
  BY <1>1, AlwaysInv, PTL

\* However a repository is called, the words of registry calls included: its
\* token opens it at every request of a push until it expires, and opens no
\* other (token.go:74-97, proxy.go:44-104).
THEOREM TokenOpensOneRepository == Spec => []TokenOpensItsRepository
<1>1. IInv => TokenOpensItsRepository
  BY DEF IInv, FlowOK, Settled, TokenOpensItsRepository
<1> QED
  BY <1>1, AlwaysInv, PTL

\* A workflow that came with an OIDC token has a registry token, the secret or
\* a deploy only after labels admitted it that a container of the name it asked
\* for carries, and what is deployed is called as was asked, however many
\* services share a base name and whatever is replaced in between
\* (huma_auth.go:51-64, auth.go:41-75, discover.go:61-75).
THEOREM NothingBeforeAdmission == Spec => []AdmittedBeforeAll
<1>1. ASSUME IInv, NEW w \in Workflows
      PROVE  /\ req[w].auth = "jwt" /\ (held[w] = "secret" \/ token[w] # {} \/ deployed[w] # {}) =>
                  \E a \in authorised[w] : IsUnder(a, req[w].name) /\ checkOIDCLabels(req[w], a)
             /\ \A a \in deployed[w] : IsUnder(a, req[w].to)
  <2>1. FlowOK(w) /\ held[w] \in {"jwt", "secret"}
    BY <1>1 DEF IInv, TypeOK
  <2>2. token[w] # {} \/ deployed[w] # {} => held[w] = "secret"
    BY <2>1 DEF FlowOK, Holds, DeployedAsAsked
  <2> QED
    BY <2>1, <2>2 DEF FlowOK, Holds, Admitted, DeployedAsAsked
<1>2. IInv => AdmittedBeforeAll
  BY <1>1 DEF AdmittedBeforeAll
<1> QED
  BY <1>2, AlwaysInv, PTL

=============================================================================
