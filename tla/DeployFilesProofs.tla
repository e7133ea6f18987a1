--------------------------- MODULE DeployFilesProofs ---------------------------
(***************************************************************************)
(* Proofs about DeployFiles for every compose file, every .env and every   *)
(* stream of pull events: what new containers run, and with what.          *)
(*                                                                         *)
(* The argument.  What counts in an .env is the last line that sets a      *)
(* variable; setEnvLine moves no such line of another variable, and makes  *)
(* its own the last plain one of its kind.  The steps behind the pull are  *)
(* reached by its end alone, which replaces the earlier image; from there  *)
(* on it can only be removed.                                              *)
(***************************************************************************)
EXTENDS DeployFiles, TLAPS, SequenceTheorems, WellFoundedInduction

AnyLine == Lines \cup {Blank}

TypeOK ==
  /\ file \subseteq Files
  /\ dotEnv \subseteq Texts
  /\ onHost \in {"nothing", "earlier", "pulled"}

\* The temporary file is a copy with IMAGE_TAG set.
IsCopy(env) ==
  /\ env.from \in Seq(AnyLine) /\ env.from # <<>>
  /\ env.lines = setEnvLine(env.from, Set("IMAGE_TAG", "asked"))

Copies ==
  /\ \A t \in tmpEnv : IsCopy(t)
  /\ \A c \in started : IsCopy(c.env) /\ \E f \in Files : c.image = ImageOf(f, c.env.lines)

\* Behind the pull there is no earlier image any more.
Replaced ==
  /\ pc \in {"env", "up"} => onHost # "earlier"
  /\ \A c \in started : c.image = "asked" => c.copy = "pulled"

IInv == TypeOK /\ Copies /\ Replaced

-----------------------------------------------------------------------------
\* The last line that sets a variable

LEMMA LeastOf ==
  ASSUME NEW I \in SUBSET Nat, I # {}
  PROVE  \E i \in I : \A k \in I : i <= k
<1>1. PICK i \in I : \A k \in I : ~(<<k, i>> \in OpToRel(<, Nat))
  BY NatLessThanWellFounded, WFMin
<1>2. \A k \in I : ~(k < i)
  BY <1>1 DEF OpToRel
<1> QED
  BY <1>2

LEMMA GreatestOf ==
  ASSUME NEW n \in Nat, NEW I \in SUBSET (1..n), I # {}
  PROVE  Max(I) \in I /\ \A k \in I : Max(I) >= k
<1> DEFINE J == {n - i : i \in I}
<1>1. J \subseteq Nat /\ J # {}
  <2>1. \A i \in I : n - i \in Nat
    OBVIOUS
  <2>2. PICK i \in I : TRUE
    OBVIOUS
  <2>3. n - i \in J
    BY <2>2
  <2> QED
    BY <2>1, <2>3
<1>2. PICK j \in J : \A k \in J : j <= k
  BY <1>1, LeastOf
<1>3. \E i \in I : \A k \in I : i >= k
  BY <1>2
<1> QED
  BY <1>3 DEF Max

LEMMA LastAtFacts ==
  ASSUME NEW n \in Nat, NEW I \in SUBSET (1..n)
  PROVE  \/ LastAt(I) = 0 /\ I = {}
         \/ LastAt(I) \in I /\ \A k \in I : ~(k > LastAt(I))
<1>1. CASE I = {}
  BY <1>1 DEF LastAt
<1>2. CASE I # {}
  <2> DEFINE m == Max(I)
  <2>1. LastAt(I) = m /\ m \in I /\ \A k \in I : m >= k
    BY <1>2, GreatestOf DEF LastAt
  <2> HIDE DEF m
  <2> QED
    BY <2>1
<1> QED
  BY <1>1, <1>2

LEMMA LastOfFacts ==
  ASSUME NEW S, NEW lines \in Seq(S), NEW key
  PROVE  \/ /\ LastOf(lines, key) = 0
            /\ \A k \in 1..Len(lines) : lines[k].key # key
         \/ /\ LastOf(lines, key) \in 1..Len(lines)
            /\ lines[LastOf(lines, key)].key = key
            /\ \A k \in 1..Len(lines) : k > LastOf(lines, key) => lines[k].key # key
<1> DEFINE I == {k \in 1..Len(lines) : lines[k].key = key}
<1>1. LastOf(lines, key) = LastAt(I)
  BY DEF LastOf
<1>2. Len(lines) \in Nat /\ I \in SUBSET (1..Len(lines))
  BY LenProperties
<1>3. \A k \in 1..Len(lines) : k \in I <=> lines[k].key = key
  OBVIOUS
<1> HIDE DEF I
<1>4. \/ LastAt(I) = 0 /\ I = {}
      \/ LastAt(I) \in I /\ \A k \in I : ~(k > LastAt(I))
  BY <1>2, LastAtFacts
<1> QED
  BY <1>1, <1>2, <1>3, <1>4

LEMMA LastPlainFacts ==
  ASSUME NEW S, NEW lines \in Seq(S), NEW key
  PROVE  \/ LastPlain(lines, key) = 0
         \/ /\ LastPlain(lines, key) \in 1..Len(lines)
            /\ lines[LastPlain(lines, key)].key = key
<1> DEFINE I == {k \in 1..Len(lines) : lines[k].key = key /\ lines[k].plain}
<1>1. LastPlain(lines, key) = LastAt(I)
  BY DEF LastPlain
<1>2. Len(lines) \in Nat /\ I \in SUBSET (1..Len(lines))
  BY LenProperties
<1>3. \A k \in I : k \in 1..Len(lines) /\ lines[k].key = key
  OBVIOUS
<1> HIDE DEF I
<1>4. LastAt(I) = 0 \/ LastAt(I) \in I
  BY <1>2, LastAtFacts
<1> QED
  BY <1>1, <1>3, <1>4

\* A variable has the same value in two files that set it on the same lines.
LEMMA SameValue ==
  ASSUME NEW S, NEW s \in Seq(S), NEW T, NEW t \in Seq(T), NEW key, NEW m \in Nat,
         m <= Len(s), m <= Len(t),
         \A k \in 1..m : s[k].key = key \/ t[k].key = key => s[k] = t[k],
         \A k \in 1..Len(s) : k > m => s[k].key # key,
         \A k \in 1..Len(t) : k > m => t[k].key # key
  PROVE  Value(s, key) = Value(t, key)
<1>1. Len(s) \in Nat /\ Len(t) \in Nat
  BY LenProperties
<1>2. LastOf(s, key) \in 0..m /\ LastOf(t, key) \in 0..m
  BY <1>1, LastOfFacts
<1>3. LastOf(s, key) = LastOf(t, key)
  <2>1. CASE LastOf(s, key) = 0
    <3>1. \A k \in 1..m : t[k].key # key
      BY <1>1, <2>1, LastOfFacts
    <3> QED
      BY <1>1, <1>2, <2>1, <3>1, LastOfFacts
  <2>2. CASE LastOf(t, key) = 0
    <3>1. \A k \in 1..m : s[k].key # key
      BY <1>1, <2>2, LastOfFacts
    <3> QED
      BY <1>1, <1>2, <2>2, <3>1, LastOfFacts
  <2>3. CASE LastOf(s, key) \in 1..m /\ LastOf(t, key) \in 1..m
    <3>1. s[LastOf(s, key)].key = key /\ t[LastOf(t, key)].key = key
      BY <2>3, LastOfFacts
    <3>2. s[LastOf(t, key)].key = key /\ t[LastOf(s, key)].key = key
      BY <2>3, <3>1
    <3>3. ~(LastOf(t, key) > LastOf(s, key)) /\ ~(LastOf(s, key) > LastOf(t, key))
      BY <1>1, <2>3, <3>2, LastOfFacts
    <3> QED
      BY <2>3, <3>3
  <2> QED
    BY <1>2, <2>1, <2>2, <2>3
<1> QED
  BY <1>2, <1>3, LastOfFacts DEF Value

LEMMA ValueIs ==
  ASSUME NEW S, NEW s \in Seq(S), NEW key, NEW n \in 1..Len(s), s[n].key = key,
         \A k \in 1..Len(s) : k > n => s[k].key # key
  PROVE  Value(s, key) = s[n].val
<1>1. Len(s) \in Nat
  BY LenProperties
<1>2. LastOf(s, key) = n
  BY <1>1, LastOfFacts
<1> QED
  BY <1>2 DEF Value

\* What setEnvLine sets is set, unless a line that is not plain stands behind it,
\* and nothing else changes.
LEMMA SetEnvLineFacts ==
  ASSUME NEW from \in Seq(AnyLine), from # <<>>,
         NEW line, line.key # Blank.key,
         NEW lines, lines = setEnvLine(from, line)
  PROVE  /\ \/ Value(lines, line.key) = line.val
            \/ /\ LastPlain(from, line.key) # 0
               /\ LastOf(from, line.key) > LastPlain(from, line.key)
         /\ \A key : key # Blank.key /\ key # line.key => Value(lines, key) = Value(from, key)
         /\ Last(lines) = Blank <=> Len(from) > 1 /\ Last(from) = Blank
<1> DEFINE S == AnyLine \cup {line}
           n == Len(from)
           at == LastPlain(from, line.key)
<1>1. from \in Seq(S) /\ n \in Nat \ {0} /\ line \in S /\ Blank \in S
  BY SeqMonotonic, LenProperties, EmptySeq DEF AnyLine
<1>2. Blank # line
  OBVIOUS
<1>3. CASE at # 0
  <2>1. at \in 1..n /\ from[at].key = line.key
    BY <1>3, LastPlainFacts
  <2>2. ~(LastOf(from, line.key) > at) => \A k \in 1..n : k > at => from[k].key # line.key
    BY <1>1, <2>1, LastOfFacts
  <2>3. lines = [from EXCEPT ![at] = line]
    <3>1. from # <<Blank>>
      BY <2>1
    <3> QED
      BY <1>3, <3>1, Zenon DEF setEnvLine
  <2>4. /\ lines \in Seq(S) /\ Len(lines) = n /\ lines[at] = line
        /\ \A k \in 1..n : k # at => lines[k] = from[k]
    BY <1>1, <2>1, <2>3, ExceptSeq
  <2>5. ASSUME ~(LastOf(from, line.key) > at) PROVE Value(lines, line.key) = line.val
    <3>1. /\ at \in 1..Len(lines) /\ lines[at].key = line.key
          /\ \A k \in 1..Len(lines) : k > at => lines[k].key # line.key
      BY <2>1, <2>2, <2>4, <2>5
    <3> HIDE DEF at, S
    <3> QED
      BY <2>4, <3>1, ValueIs
  <2>6. ASSUME NEW key, key # line.key PROVE Value(lines, key) = Value(from, key)
    <3>1. \A k \in 1..n : lines[k].key = key \/ from[k].key = key => lines[k] = from[k]
      BY <2>1, <2>4, <2>6
    <3>2. n <= Len(from) /\ n <= Len(lines) /\ \A k \in 1..n : ~(k > n)
      BY <1>1, <2>4
    <3>3. n \in Nat /\ from \in Seq(S) /\ lines \in Seq(S) /\ Len(lines) = n
      BY <1>1, <2>4
    <3> HIDE DEF n, S
    <3>4. /\ \A k \in 1..Len(lines) : k > n => lines[k].key # key
          /\ \A k \in 1..Len(from) : k > n => from[k].key # key
      BY <3>2, <3>3 DEF n
    <3> QED
      BY <3>1, <3>2, <3>3, <3>4, SameValue
  <2>7. Last(lines) = Blank <=> n > 1 /\ Last(from) = Blank
    <3>1. CASE at = n
      BY <1>2, <2>1, <2>4, <3>1 DEF Last
    <3>2. CASE at # n
      BY <1>1, <2>1, <2>4, <3>2 DEF Last
    <3> QED
      BY <3>1, <3>2
  <2> QED
    BY <1>3, <2>5, <2>6, <2>7
<1>4. CASE at = 0 /\ from = <<Blank>>
  <2>1. lines = <<line>>
    BY <1>4 DEF setEnvLine
  <2>2. n = 1 /\ from[1] = Blank
    BY <1>4
  <2>3. lines \in Seq(S) /\ Len(lines) = 1 /\ lines[1] = line
    BY <1>1, <2>1
  <2>4. Value(lines, line.key) = line.val
    BY <2>3, ValueIs
  <2>5. ASSUME NEW key, key # Blank.key, key # line.key PROVE Value(lines, key) = Value(from, key)
    BY <1>1, <1>2, <2>2, <2>3, <2>5, SameValue
  <2>6. Last(lines) = Blank <=> n > 1 /\ Last(from) = Blank
    BY <1>2, <2>2, <2>3 DEF Last
  <2> QED
    BY <2>4, <2>5, <2>6
<1>5. CASE at = 0 /\ from # <<Blank>> /\ Last(from) = Blank
  <2>1. lines = Front(from) \o <<line, Blank>>
    BY <1>5 DEF setEnvLine
  <2>2. n > 1
    <3>1. n = 1 => from = <<from[1]>>
      BY <1>1
    <3>2. from[n] = Blank
      BY <1>5 DEF Last
    <3>3. n # 1
      BY <1>5, <3>1, <3>2
    <3> QED
      <4> HIDE DEF n
      <4> QED
        BY <1>1, <3>3
  <2>3. /\ Front(from) \in Seq(S) /\ Len(Front(from)) = n - 1
        /\ \A k \in 1..n - 1 : Front(from)[k] = from[k]
    BY <1>1, <2>2, LenProperties, ElementOfSeq DEF Front
  <2>4. /\ lines \in Seq(S) /\ Len(lines) = n + 1
        /\ \A k \in 1..n - 1 : lines[k] = from[k]
        /\ lines[n] = line /\ lines[n + 1] = Blank
    BY <1>1, <2>1, <2>2, <2>3
  <2>5. Value(lines, line.key) = line.val
    BY <1>1, <1>2, <2>4, ValueIs
  <2>6. ASSUME NEW key, key # Blank.key, key # line.key PROVE Value(lines, key) = Value(from, key)
    <3>1. \A k \in 1..n + 1 : k > n - 1 => lines[k].key # key
      BY <1>1, <1>2, <2>4, <2>6
    <3>2. \A k \in 1..n : k > n - 1 => from[k].key # key
      BY <1>1, <1>2, <1>5, <2>6 DEF Last
    <3> QED
      <4> DEFINE m == n - 1
      <4>1. /\ m \in Nat /\ m <= Len(from) /\ m <= Len(lines)
            /\ from \in Seq(S) /\ lines \in Seq(S)
            /\ \A k \in 1..m : lines[k] = from[k]
            /\ \A k \in 1..Len(lines) : k > m => lines[k].key # key
            /\ \A k \in 1..Len(from) : k > m => from[k].key # key
        BY <1>1, <2>2, <2>4, <3>1, <3>2
      <4> HIDE DEF m, S
      <4> QED
        BY <4>1, SameValue
  <2>7. Last(lines) = Blank
    BY <2>4 DEF Last
  <2> QED
    BY <1>5, <2>2, <2>5, <2>6, <2>7
<1>6. CASE at = 0 /\ from # <<Blank>> /\ Last(from) # Blank
  <2>1. lines = Append(from, line)
    BY <1>6 DEF setEnvLine
  <2>2. /\ lines \in Seq(S) /\ Len(lines) = n + 1
        /\ \A k \in 1..n : lines[k] = from[k]
        /\ lines[n + 1] = line
    BY <1>1, <2>1, AppendProperties
  <2>3. Value(lines, line.key) = line.val
    <3> DEFINE last == n + 1
    <3>1. /\ last \in 1..Len(lines) /\ lines[last] = line
          /\ \A k \in 1..Len(lines) : k > last => lines[k].key # line.key
      BY <1>1, <2>2
    <3> HIDE DEF last, S
    <3> QED
      BY <2>2, <3>1, ValueIs
  <2>4. ASSUME NEW key, key # line.key PROVE Value(lines, key) = Value(from, key)
    <3>1. /\ n <= Len(lines) /\ n <= Len(from)
          /\ \A k \in 1..n : lines[k].key = key \/ from[k].key = key => lines[k] = from[k]
          /\ \A k \in 1..Len(lines) : k > n => lines[k].key # key
          /\ \A k \in 1..Len(from) : k > n => from[k].key # key
      BY <1>1, <2>2, <2>4
    <3> HIDE DEF n, S
    <3> QED
      BY <1>1, <2>2, <3>1, SameValue
  <2>5. Last(lines) # Blank
    BY <1>2, <2>2 DEF Last
  <2> QED
    BY <1>6, <2>3, <2>4, <2>5
<1> QED
  BY <1>3, <1>4, <1>5, <1>6

-----------------------------------------------------------------------------
\* The deploy

LEMMA InitInv == Init => IInv
<1> SUFFICES ASSUME Init PROVE IInv
  OBVIOUS
<1>1. /\ \E f \in Files : file = {f}
      /\ onHost \in {"nothing", "earlier"} /\ pc = "validate" /\ tmpEnv = {} /\ started = {}
  BY DEF Init
<1>2. dotEnv \subseteq Texts
  BY DEF Init
<1> QED
  BY <1>1, <1>2 DEF IInv, TypeOK, Copies, Replaced

\* The steps in front of the pull's end, and those that fail.
LEMMA EarlyStepKeepsInv ==
  ASSUME IInv, LoadProject \/ ReadRaw \/ PullImage \/ StepFails
  PROVE  IInv'
<1>1. UNCHANGED <<file, dotEnv, onHost, started>> /\ tmpEnv' \in {tmpEnv, {}}
  BY DEF LoadProject, ReadRaw, PullImage, StepFails, hostVars
<1>2. pc' \in {"raw", "pull", "stream", "failed"}
  BY DEF LoadProject, ReadRaw, PullImage, StepFails, Goto
<1> QED
  BY <1>1, <1>2 DEF IInv, TypeOK, Copies, IsCopy, Replaced

\* Only the end of the stream gets the deploy past it.
LEMMA StreamKeepsInv ==
  ASSUME IInv, parsePullStream
  PROVE  IInv'
<1>1. pc = "stream" /\ UNCHANGED <<file, dotEnv, tmpEnv, started>>
  BY DEF parsePullStream
<1>2. \/ pc' = "failed" /\ onHost' = onHost
      \/ pc' = "env" /\ onHost' = "pulled"
      \/ pc' = pc /\ onHost' = onHost
  BY DEF parsePullStream, Goto
<1> QED
  BY <1>1, <1>2 DEF IInv, TypeOK, Copies, IsCopy, Replaced

LEMMA WriteKeepsInv ==
  ASSUME IInv, writeTempEnv
  PROVE  IInv'
<1> USE DEF IInv
<1>1. pc = "env" /\ pc' = "up" /\ UNCHANGED <<file, dotEnv, onHost, started>>
  BY DEF writeTempEnv, Goto, hostVars
<1>2. ASSUME NEW t \in tmpEnv' PROVE IsCopy(t)
  <2>1. PICK from \in IF dotEnv = {} THEN {<<Blank>>} ELSE dotEnv :
          t = [from |-> from, lines |-> setEnvLine(from, Set("IMAGE_TAG", "asked"))]
    BY <1>2 DEF writeTempEnv
  <2>2. from \in Seq(AnyLine) /\ from # <<>>
    <3>1. CASE from = <<Blank>>
      BY <3>1 DEF AnyLine
    <3>2. CASE from \in Texts
      <4>1. PICK n \in 1..MaxLines : from \in [1..n -> AnyLine]
        BY <3>2 DEF Texts, AnyLine
      <4>2. n \in Nat /\ n > 0
        BY DeployFilesAssumption
      <4> QED
        BY <4>1, <4>2
    <3> QED
      BY <2>1, <3>1, <3>2 DEF TypeOK
  <2> QED
    BY <2>1, <2>2 DEF IsCopy
<1>3. TypeOK' /\ Copies' /\ Replaced'
  BY <1>1, <1>2 DEF TypeOK, Copies, IsCopy, Replaced
<1> QED
  BY <1>3

LEMMA ComposeUpKeepsInv ==
  ASSUME IInv, ComposeUp
  PROVE  IInv'
<1> USE DEF IInv
<1>1. /\ pc = "up" /\ pc' \in {"done", "failed"} /\ tmpEnv' = {}
      /\ UNCHANGED <<file, dotEnv, onHost>>
  BY DEF ComposeUp, Goto, hostVars
<1>2. \/ started' = started
      \/ \E f \in file, t \in tmpEnv :
           started' = {[image |-> ImageOf(f, t.lines), copy |-> CopyOf(ImageOf(f, t.lines)),
                        env |-> t]}
  BY DEF ComposeUp
<1>3. CASE started' = started
  BY <1>1, <1>3 DEF TypeOK, Copies, IsCopy, Replaced
<1>4. CASE \E f \in file, t \in tmpEnv :
             started' = {[image |-> ImageOf(f, t.lines), copy |-> CopyOf(ImageOf(f, t.lines)),
                          env |-> t]}
  <2>1. PICK f \in file, t \in tmpEnv :
          started' = {[image |-> ImageOf(f, t.lines), copy |-> CopyOf(ImageOf(f, t.lines)),
                       env |-> t]}
    BY <1>4
  <2> DEFINE image == ImageOf(f, t.lines)
  <2>2. onHost # "earlier"
    BY <1>1 DEF Replaced
  <2>3. CopyOf(image) = "pulled"
    BY <2>2 DEF CopyOf
  <2>4. IsCopy(t) /\ f \in Files
    BY DEF Copies, TypeOK
  <2>5. \A c \in started' : c.image = image /\ c.copy = "pulled" /\ c.env = t
    BY <2>1, <2>3
  <2>6. Copies'
    BY <1>1, <2>4, <2>5 DEF Copies, IsCopy
  <2>7. TypeOK' /\ Replaced'
    BY <1>1, <2>5 DEF TypeOK, Replaced
  <2> QED
    BY <2>6, <2>7
<1> QED
  BY <1>2, <1>3, <1>4

LEMMA OutsideKeepsInv ==
  ASSUME IInv, Edit \/ EditDotEnv \/ UNCHANGED vars
  PROVE  IInv'
<1>1. /\ UNCHANGED <<pc, tmpEnv, started>> /\ onHost' \in {onHost, "nothing"}
      /\ file' \subseteq Files /\ dotEnv' \subseteq Texts
  BY DEF Edit, EditDotEnv, vars, hostVars, IInv, TypeOK
<1> QED
  BY <1>1 DEF IInv, TypeOK, Copies, IsCopy, Replaced

LEMMA AlwaysInv == Spec => []IInv
<1>1. IInv /\ [Next]_vars => IInv'
  BY EarlyStepKeepsInv, StreamKeepsInv, WriteKeepsInv, ComposeUpKeepsInv, OutsideKeepsInv
  DEF Next
<1> QED
  BY InitInv, <1>1, PTL DEF Spec

\* New containers run what was asked for wherever the compose file leaves it to
\* IMAGE_TAG, unless the .env has a line behind it that only docker compose takes
\* for one of IMAGE_TAG, and every other variable keeps its value, for every .env
\* (rollout.go:45-48, 270-290).
THEOREM RunsWhatWasAsked == Spec => []StartsWhatWasAsked
<1>1. ASSUME IInv PROVE StartsWhatWasAsked
  <2> SUFFICES ASSUME NEW c \in started
               PROVE  /\ c.image \in {"asked", "fixed", "none"} \/ Shadowed(c.env.from)
                      /\ \A l \in Lines : l.key # "IMAGE_TAG" =>
                           Value(c.env.lines, l.key) = Value(c.env.from, l.key)
                      /\ Last(c.env.lines) = Blank <=>
                           Len(c.env.from) > 1 /\ Last(c.env.from) = Blank
    BY DEF StartsWhatWasAsked
  <2> DEFINE from == c.env.from
             lines == c.env.lines
             line == Set("IMAGE_TAG", "asked")
  <2>1. from \in Seq(AnyLine) /\ from # <<>> /\ lines = setEnvLine(from, line)
    BY <1>1 DEF IInv, Copies, IsCopy
  <2>2. PICK f \in Files : c.image = ImageOf(f, lines)
    BY <1>1 DEF IInv, Copies
  <2>3. line.key = "IMAGE_TAG" /\ line.val = "asked"
    BY DEF Set
  <2>4. line.key # Blank.key
    BY <2>3, Zenon DEF Blank, Set
  <2> HIDE DEF from, lines, line
  <2>5. /\ Value(lines, "IMAGE_TAG") = "asked" \/ Shadowed(from)
        /\ \A key : key # Blank.key /\ key # "IMAGE_TAG" => Value(lines, key) = Value(from, key)
        /\ Last(lines) = Blank <=> Len(from) > 1 /\ Last(from) = Blank
    BY <2>1, <2>3, <2>4, SetEnvLineFacts DEF Shadowed
  <2>6. c.image \in {"asked", "fixed", "none"} \/ Shadowed(from)
    BY <2>2, <2>5, DeployFilesAssumption DEF ImageOf
  <2> QED
    BY <2>5, <2>6, DeployFilesAssumption DEF from, lines
<1> QED
  BY AlwaysInv, <1>1, PTL

\* No container runs the earlier image of the name that was asked for, however the
\* pull goes and whoever removes images (docker/api.go:97-103, 170-191).
THEOREM RunsWhatWasPulled == Spec => []StartsWhatWasPulled
<1>1. IInv => StartsWhatWasPulled
  BY DEF IInv, Replaced, StartsWhatWasPulled
<1> QED
  BY AlwaysInv, <1>1, PTL

=============================================================================
