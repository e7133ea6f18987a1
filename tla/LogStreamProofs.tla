---------------------------- MODULE LogStreamProofs ----------------------------
(***************************************************************************)
(* Proofs about LogStream for a job of any number of lines, appended whole *)
(* or torn, and any order of the appends, the reads, the client's visits,  *)
(* a crash and the retention sweep.                                        *)
(*                                                                         *)
(* The argument.  Nothing comes between the two pieces of a line, so what  *)
(* ReadString returns, up to the first newline it finds, is a line or the  *)
(* end of one, and what it returns at the end of the file has no newline:  *)
(* the ends of lines that were sent are those that were read past, whether *)
(* or not the handler dropped the beginning of a line.  A row that says    *)
(* final is of a file that no longer grows, so a client that came after it *)
(* reads to the end once and drops nothing.                                *)
(***************************************************************************)
EXTENDS LogStream, TLAPS, SequenceTheorems, WellFoundedInduction

-----------------------------------------------------------------------------
\* Joining sequences: FlattenSeq is a recursive function, of which it has to
\* be shown that it exists and that it is the only one.

LEMMA LeastOf ==
  ASSUME NEW I \in SUBSET Nat, I # {}
  PROVE  \E i \in I : \A k \in I : i <= k
<1>1. PICK i \in I : \A k \in I : ~(<<k, i>> \in OpToRel(<, Nat))
  BY NatLessThanWellFounded, WFMin
<1>2. \A k \in I : ~(k < i)
  BY <1>1 DEF OpToRel
<1> QED
  BY <1>2

\* f[i] is what the first i sequences of s make when they are joined.
Joins(f, s, n) ==
  \A i \in 1..n : f[i] = IF i = 1 THEN s[i] ELSE f[i - 1] \o s[i]

\* The least length for which there were none would have one.
LEMMA JoinExists ==
  ASSUME NEW S, NEW s \in Seq(Seq(S)), NEW n \in 1..Len(s)
  PROVE  \E f \in [1..n -> Seq(S)] : Joins(f, s, n)
<1> DEFINE Ok(m) == \E f \in [1..m -> Seq(S)] : Joins(f, s, m)
           Bad == {m \in 1..Len(s) : ~Ok(m)}
<1>1. Len(s) \in Nat /\ \A i \in 1..Len(s) : s[i] \in Seq(S)
  BY LenProperties, ElementOfSeq
<1> SUFFICES ASSUME Bad # {} PROVE FALSE
  <2>1. n \in Bad \/ Ok(n)
    OBVIOUS
  <2> QED
    BY <2>1
<1> HIDE DEF Ok
<1>2. Bad \subseteq Nat
  BY <1>1
<1>3. PICK m \in Bad : \A k \in Bad : m <= k
  BY <1>2, LeastOf
<1>4. m \in 1..Len(s) /\ ~Ok(m) /\ (m # 1 => Ok(m - 1))
  <2>1. m \in 1..Len(s) /\ ~Ok(m)
    OBVIOUS
  <2>2. m # 1 => m - 1 \in 1..Len(s) /\ ~(m <= m - 1)
    BY <1>1, <2>1
  <2> QED
    BY <1>3, <2>1, <2>2
<1>5. CASE m = 1
  <2> DEFINE f == [i \in 1..1 |-> s[i]]
  <2>1. f \in [1..1 -> Seq(S)] /\ Joins(f, s, 1)
    BY <1>1, <1>4, <1>5 DEF Joins
  <2> QED
    BY <1>4, <1>5, <2>1 DEF Ok
<1>6. CASE m # 1
  <2>1. PICK f \in [1..m - 1 -> Seq(S)] : Joins(f, s, m - 1)
    BY <1>4, <1>6 DEF Ok
  <2> DEFINE g == [i \in 1..m |-> IF i = m THEN f[m - 1] \o s[m] ELSE f[i]]
  <2>2. m \in Nat /\ m - 1 \in 1..m - 1 /\ \A i \in 1..m : i # m => i \in 1..m - 1
    BY <1>1, <1>4, <1>6
  <2>3. f[m - 1] \in Seq(S) /\ s[m] \in Seq(S)
    BY <1>1, <1>4, <2>1, <2>2
  <2>4. f[m - 1] \o s[m] \in Seq(S)
    BY <2>3
  <2>5. g \in [1..m -> Seq(S)]
    BY <2>2, <2>4
  <2>6. Joins(g, s, m)
    <3> SUFFICES ASSUME NEW i \in 1..m
                 PROVE  g[i] = IF i = 1 THEN s[i] ELSE g[i - 1] \o s[i]
      BY DEF Joins
    <3>1. CASE i = m
      <4>1. i # 1 /\ i - 1 \in 1..m /\ i - 1 # m
        BY <1>6, <2>2, <3>1
      <4> QED
        BY <3>1, <4>1
    <3>2. CASE i # m
      <4>1. i \in 1..m - 1 /\ (i # 1 => i - 1 \in 1..m /\ i - 1 # m)
        BY <2>2, <3>2
      <4>2. f[i] = IF i = 1 THEN s[i] ELSE f[i - 1] \o s[i]
        BY <2>1, <4>1 DEF Joins
      <4> QED
        BY <3>2, <4>1, <4>2
    <3> QED
      BY <3>1, <3>2
  <2> QED
    BY <1>4, <2>5, <2>6 DEF Ok
<1> QED
  BY <1>5, <1>6

Agree(f, g, n) == \A i \in 1..n : f[i] = g[i]

LEMMA JoinsAgree ==
  ASSUME NEW s, NEW n \in Nat, NEW f, NEW g, Joins(f, s, n), Joins(g, s, n)
  PROVE  Agree(f, g, n)
<1> SUFFICES \A i \in 1..n : f[i] = g[i]
  BY DEF Agree
<1> DEFINE Bad == {i \in 1..n : f[i] # g[i]}
<1> SUFFICES ASSUME Bad # {} PROVE FALSE
  OBVIOUS
<1>1. PICK i \in Bad : \A k \in Bad : i <= k
  <2>1. Bad \subseteq Nat
    OBVIOUS
  <2> HIDE DEF Bad
  <2> QED
    BY <2>1, LeastOf
<1>2. f[i] = (IF i = 1 THEN s[i] ELSE f[i - 1] \o s[i])
      /\ g[i] = (IF i = 1 THEN s[i] ELSE g[i - 1] \o s[i])
  BY DEF Joins
<1>3. i # 1 => i - 1 \in 1..n /\ ~(i <= i - 1)
  OBVIOUS
<1> QED
  BY <1>1, <1>2, <1>3

\* FlattenSeq(s) is what the last step of a join makes.
LEMMA FlattenIsJoin ==
  ASSUME NEW S, NEW s \in Seq(Seq(S)), s # <<>>
  PROVE  \E f \in [1..Len(s) -> Seq(S)] : Joins(f, s, Len(s)) /\ FlattenSeq(s) = f[Len(s)]
<1>1. Len(s) \in Nat /\ Len(s) # 0 /\ Len(s) \in 1..Len(s)
  BY LenProperties, EmptySeq
<1> DEFINE P(f) == f = [i \in 1..Len(s) |-> IF i = 1 THEN s[i] ELSE f[i - 1] \o s[i]]
           c == CHOOSE f : P(f)
<1>2. FlattenSeq(s) = c[Len(s)]
  BY <1>1 DEF FlattenSeq
<1>3. \A f \in [1..Len(s) -> Seq(S)] : Joins(f, s, Len(s)) => P(f)
  BY DEF Joins
<1>4. \A f : P(f) => DOMAIN f = 1..Len(s) /\ Joins(f, s, Len(s))
  BY DEF Joins
<1>5. PICK f \in [1..Len(s) -> Seq(S)] : Joins(f, s, Len(s))
  BY <1>1, JoinExists
<1> HIDE DEF P
<1>6. P(c)
  BY <1>3, <1>5
<1>7. DOMAIN c = 1..Len(s) /\ Joins(c, s, Len(s))
  BY <1>4, <1>6
<1>8. \A i \in 1..Len(s) : c[i] = f[i]
  <2> HIDE DEF c
  <2>1. Agree(f, c, Len(s))
    BY <1>1, <1>5, <1>7, JoinsAgree
  <2> QED
    BY <2>1 DEF Agree
<1> QED
  BY <1>1, <1>2, <1>5, <1>8

\* Joining one more sequence puts it behind what there was.
LEMMA FlattenAppend ==
  ASSUME NEW S, NEW s \in Seq(Seq(S)), NEW t \in Seq(S)
  PROVE  /\ FlattenSeq(s) \in Seq(S)
         /\ FlattenSeq(Append(s, t)) = FlattenSeq(s) \o t
<1> DEFINE st == Append(s, t)
           n == Len(s)
<1>1. /\ st \in Seq(Seq(S)) /\ st # <<>> /\ Len(st) = n + 1 /\ n \in Nat
      /\ st[n + 1] = t /\ \A i \in 1..n : st[i] = s[i]
  BY AppendProperties, LenProperties
<1> HIDE DEF st
<1>2. PICK g \in [1..n + 1 -> Seq(S)] : Joins(g, st, n + 1) /\ FlattenSeq(st) = g[n + 1]
  BY <1>1, FlattenIsJoin
<1>3. CASE s = <<>>
  <2>1. n = 0 /\ FlattenSeq(s) = <<>>
    BY <1>3 DEF FlattenSeq
  <2>2. g[1] = t
    BY <1>1, <1>2, <2>1 DEF Joins
  <2>3. <<>> \o t = t
    BY ConcatEmptySeq
  <2> QED
    BY <1>2, <2>1, <2>2, <2>3, EmptySeq DEF st
<1>4. CASE s # <<>>
  <2>1. PICK f \in [1..n -> Seq(S)] : Joins(f, s, n) /\ FlattenSeq(s) = f[n]
    BY <1>4, FlattenIsJoin
  <2>2. n \in 1..n /\ n + 1 \in 1..n + 1 /\ n + 1 # 1 /\ (n + 1) - 1 = n
    BY <1>1, <1>4, EmptySeq
  <2>3. Joins(g, s, n)
    <3> SUFFICES ASSUME NEW i \in 1..n
                 PROVE  g[i] = IF i = 1 THEN s[i] ELSE g[i - 1] \o s[i]
      BY DEF Joins
    <3>1. i \in 1..n + 1 /\ st[i] = s[i]
      BY <1>1
    <3> QED
      BY <1>2, <3>1 DEF Joins
  <2>4. g[n] = f[n]
    <3> HIDE DEF n
    <3>1. n \in Nat /\ Joins(f, s, n) /\ Joins(g, s, n) /\ n \in 1..n
      BY <1>1, <2>1, <2>2, <2>3
    <3>2. Agree(f, g, n)
      BY <3>1, JoinsAgree
    <3> QED
      BY <3>1, <3>2 DEF Agree
  <2>5. g[n + 1] = g[n] \o t
    BY <1>1, <1>2, <2>2 DEF Joins
  <2> QED
    BY <1>2, <2>1, <2>2, <2>4, <2>5 DEF st
<1> QED
  BY <1>3, <1>4

-----------------------------------------------------------------------------
\* The ends of the lines in a sequence of pieces

Pieces == Nat \X {"text", "newline"}

EndOf(piece) == IF piece[2] = "newline" THEN <<piece>> ELSE <<>>

EndsOf(s) == [k \in DOMAIN s |-> EndOf(s[k])]

LEMMA LineEndsOfEmpty == LineEnds(<<>>) = <<>>
<1>1. EndsOf(<<>>) = <<>>
  BY DEF EndsOf
<1>2. LineEnds(<<>>) = FlattenSeq(EndsOf(<<>>))
  BY DEF LineEnds, EndsOf, EndOf
<1>3. Len(<<>>) = 0
  OBVIOUS
<1> QED
  BY <1>1, <1>2, <1>3 DEF FlattenSeq

\* One more piece
LEMMA LineEndsAppend ==
  ASSUME NEW s \in Seq(Pieces), NEW x \in Pieces
  PROVE  /\ LineEnds(s) \in Seq(Pieces)
         /\ LineEnds(s \o <<x>>) = LineEnds(s) \o EndOf(x)
<1> DEFINE sx == s \o <<x>>
<1>1. /\ sx = Append(s, x) /\ sx \in Seq(Pieces) /\ Len(sx) = Len(s) + 1 /\ Len(s) \in Nat
      /\ sx[Len(s) + 1] = x /\ \A k \in 1..Len(s) : sx[k] = s[k]
  BY AppendProperties, AppendIsConcat, LenProperties
<1> HIDE DEF sx
<1>2. \A y \in Pieces : EndOf(y) \in Seq(Pieces)
  BY DEF EndOf
<1>3. \A u \in Seq(Pieces) :
         /\ EndsOf(u) \in Seq(Seq(Pieces)) /\ Len(EndsOf(u)) = Len(u)
         /\ \A k \in 1..Len(u) : EndsOf(u)[k] = EndOf(u[k])
         /\ LineEnds(u) = FlattenSeq(EndsOf(u))
  <2> SUFFICES ASSUME NEW u \in Seq(Pieces)
               PROVE  /\ EndsOf(u) \in Seq(Seq(Pieces)) /\ Len(EndsOf(u)) = Len(u)
                      /\ \A k \in 1..Len(u) : EndsOf(u)[k] = EndOf(u[k])
                      /\ LineEnds(u) = FlattenSeq(EndsOf(u))
    OBVIOUS
  <2>1. LineEnds(u) = FlattenSeq(EndsOf(u))
    BY DEF LineEnds, EndsOf, EndOf
  <2>2. Len(u) \in Nat /\ DOMAIN u = 1..Len(u) /\ \A k \in 1..Len(u) : u[k] \in Pieces
    BY LenProperties, ElementOfSeq
  <2>3. EndsOf(u) \in [1..Len(u) -> Seq(Pieces)]
    BY <1>2, <2>2 DEF EndsOf
  <2>4. EndsOf(u) \in Seq(Seq(Pieces)) /\ Len(EndsOf(u)) = Len(u)
    BY <2>2, <2>3
  <2> QED
    BY <2>1, <2>2, <2>4 DEF EndsOf
<1>4. EndOf(x) \in Seq(Pieces)
  BY <1>2
<1>5. EndsOf(sx) = Append(EndsOf(s), EndOf(x))
  <2> DEFINE a == EndsOf(sx)
             b == Append(EndsOf(s), EndOf(x))
  <2>1. /\ a \in Seq(Seq(Pieces)) /\ Len(a) = Len(s) + 1
        /\ \A k \in 1..Len(s) + 1 : a[k] = EndOf(sx[k])
    BY <1>1, <1>3
  <2>2. /\ b \in Seq(Seq(Pieces)) /\ Len(b) = Len(s) + 1
        /\ \A k \in 1..Len(s) : b[k] = EndOf(s[k])
        /\ b[Len(s) + 1] = EndOf(x)
    <3>1. EndsOf(s) \in Seq(Seq(Pieces)) /\ Len(EndsOf(s)) = Len(s)
      BY <1>3
    <3> QED
      BY <1>3, <1>4, <3>1, AppendProperties
  <2> HIDE DEF a, b
  <2>3. \A k \in 1..Len(s) + 1 : k \in 1..Len(s) \/ k = Len(s) + 1
    BY <1>1
  <2>4. \A k \in 1..Len(a) : a[k] = b[k]
    BY <1>1, <2>1, <2>2, <2>3
  <2>5. a = b
    BY <2>1, <2>2, <2>4, SeqEqual
  <2> QED
    BY <2>5 DEF a, b
<1>6. EndsOf(s) \in Seq(Seq(Pieces))
  BY <1>3
<1>7. /\ FlattenSeq(EndsOf(s)) \in Seq(Pieces)
      /\ FlattenSeq(Append(EndsOf(s), EndOf(x))) = FlattenSeq(EndsOf(s)) \o EndOf(x)
  BY <1>4, <1>6, FlattenAppend
<1> QED
  BY <1>1, <1>3, <1>5, <1>7 DEF sx

\* A beginning is the one before and one piece more.
LEMMA LastPiece ==
  ASSUME NEW t \in Seq(Pieces), NEW n \in 1..Len(t)
  PROVE  /\ SubSeq(t, 1, n) = SubSeq(t, 1, n - 1) \o <<t[n]>>
         /\ SubSeq(t, 1, n - 1) \in Seq(Pieces)
         /\ t[n] \in Pieces
<1>1. /\ 1 \in 1..Len(t) /\ n \in 1..Len(t) /\ 1 \in Int /\ n - 1 \in Int
      /\ \A k \in 1..n - 1 : k \in 1..Len(t)
  BY LenProperties
<1>2. \A k \in 1..Len(t) : t[k] \in Pieces
  BY ElementOfSeq
<1>3. SubSeq(t, 1, n) = SubSeq(t, 1, n - 1) \o <<t[n]>>
  BY <1>1, SubSeqRecursiveSecond
<1>4. SubSeq(t, 1, n - 1) \in Seq(Pieces)
  BY <1>1, <1>2, SubSeqProperties
<1> QED
  BY <1>2, <1>3, <1>4

\* No newline, no end of a line.
LEMMA NoLineEnds ==
  ASSUME NEW t \in Seq(Pieces), \A i \in 1..Len(t) : t[i][2] # "newline"
  PROVE  LineEnds(t) = <<>>
<1> DEFINE u(n) == SubSeq(t, 1, n)
           Bad == {n \in 0..Len(t) : LineEnds(u(n)) # <<>>}
<1>1. Len(t) \in Nat /\ u(Len(t)) = t
  BY LenProperties, SubSeqFull
<1> HIDE DEF u
<1> SUFFICES ASSUME Bad # {} PROVE FALSE
  <2>1. Len(t) \in Bad \/ LineEnds(u(Len(t))) = <<>>
    BY <1>1
  <2> QED
    BY <1>1, <2>1
<1>2. LineEnds(u(0)) = <<>>
  <2>1. u(0) = <<>>
    BY SubSeqEmpty DEF u
  <2> QED
    BY <2>1, LineEndsOfEmpty
<1>3. PICK n \in Bad : \A k \in Bad : n <= k
  <2>1. Bad \subseteq Nat
    BY <1>1
  <2> HIDE DEF Bad
  <2> QED
    BY <2>1, LeastOf
<1>4. n \in 1..Len(t) /\ LineEnds(u(n)) # <<>> /\ LineEnds(u(n - 1)) = <<>>
  <2>1. n \in 0..Len(t) /\ LineEnds(u(n)) # <<>> /\ n # 0
    BY <1>2
  <2>2. n - 1 \in 0..Len(t) /\ ~(n <= n - 1)
    BY <1>1, <2>1
  <2> QED
    BY <1>3, <2>1, <2>2
<1>5. u(n) = u(n - 1) \o <<t[n]>> /\ u(n - 1) \in Seq(Pieces) /\ t[n] \in Pieces
  BY <1>4, LastPiece DEF u
<1>6. LineEnds(u(n)) = LineEnds(u(n - 1)) \o EndOf(t[n])
  BY <1>5, LineEndsAppend
<1>7. EndOf(t[n]) = <<>>
  BY <1>4 DEF EndOf
<1>8. <<>> \o <<>> = <<>>
  BY EmptySeq, ConcatEmptySeq
<1> QED
  BY <1>4, <1>6, <1>7, <1>8

LEMMA ConcatAssociates ==
  \A a, b, c \in Seq(Pieces) : (a \o b) \o c = a \o (b \o c)
  BY ConcatAssociative

LEMMA LineEndsOneMore ==
  ASSUME NEW s \in Seq(Pieces), NEW v \in Seq(Pieces), NEW x \in Pieces
  PROVE  LineEnds(s \o v) = LineEnds(s) \o LineEnds(v) =>
           LineEnds(s \o (v \o <<x>>)) = LineEnds(s) \o LineEnds(v \o <<x>>)
<1>1. <<x>> \in Seq(Pieces) /\ s \o v \in Seq(Pieces)
  BY ConcatProperties
<1>2. s \o (v \o <<x>>) = (s \o v) \o <<x>>
  BY <1>1, ConcatAssociates
<1>3. LineEnds(s) \in Seq(Pieces) /\ LineEnds(v) \in Seq(Pieces)
  BY LineEndsAppend
<1>4. LineEnds((s \o v) \o <<x>>) = LineEnds(s \o v) \o EndOf(x)
  BY <1>1, LineEndsAppend
<1>5. LineEnds(v \o <<x>>) = LineEnds(v) \o EndOf(x)
  BY LineEndsAppend
<1>6. EndOf(x) \in Seq(Pieces)
  BY DEF EndOf
<1>7. (LineEnds(s) \o LineEnds(v)) \o EndOf(x) = LineEnds(s) \o (LineEnds(v) \o EndOf(x))
  BY <1>3, <1>6, ConcatAssociates, SMTT(30)
<1> QED
  BY <1>2, <1>4, <1>5, <1>7

\* The ends of the lines of two sequences in a row are those of the first and
\* then those of the second.
LEMMA LineEndsConcat ==
  ASSUME NEW s \in Seq(Pieces), NEW t \in Seq(Pieces)
  PROVE  LineEnds(s \o t) = LineEnds(s) \o LineEnds(t)
<1> DEFINE u(n) == SubSeq(t, 1, n)
           Ok(n) == LineEnds(s \o u(n)) = LineEnds(s) \o LineEnds(u(n))
           Bad == {n \in 0..Len(t) : ~Ok(n)}
<1>1. Len(t) \in Nat /\ u(Len(t)) = t
  BY LenProperties, SubSeqFull
<1> HIDE DEF u
<1> SUFFICES ASSUME Bad # {} PROVE FALSE
  <2>1. Len(t) \in Bad \/ Ok(Len(t))
    BY <1>1
  <2> QED
    BY <1>1, <2>1
<1>2. \A n \in 1..Len(t) :
         u(n) = u(n - 1) \o <<t[n]>> /\ u(n - 1) \in Seq(Pieces) /\ t[n] \in Pieces
  BY LastPiece DEF u
<1>3. Ok(0)
  <2>1. u(0) = <<>>
    BY SubSeqEmpty DEF u
  <2>2. LineEnds(s) \in Seq(Pieces)
    <3>1. <<0, "text">> \in Pieces
      BY DEF Pieces
    <3> QED
      BY <3>1, LineEndsAppend
  <2>3. s \o <<>> = s /\ LineEnds(s) \o <<>> = LineEnds(s)
    BY <2>2, ConcatEmptySeq
  <2> QED
    BY <2>1, <2>3, LineEndsOfEmpty
<1> HIDE DEF Ok
<1>4. PICK n \in Bad : \A k \in Bad : n <= k
  <2>1. Bad \subseteq Nat
    BY <1>1
  <2> HIDE DEF Bad
  <2> QED
    BY <2>1, LeastOf
<1>5. n \in 1..Len(t) /\ ~Ok(n) /\ Ok(n - 1)
  <2>1. n \in 0..Len(t) /\ ~Ok(n) /\ n # 0
    BY <1>3
  <2>2. n - 1 \in 0..Len(t) /\ ~(n <= n - 1)
    BY <1>1, <2>1
  <2> QED
    BY <1>4, <2>1, <2>2
<1>6. /\ u(n) = u(n - 1) \o <<t[n]>> /\ u(n - 1) \in Seq(Pieces) /\ t[n] \in Pieces
      /\ LineEnds(s \o u(n - 1)) = LineEnds(s) \o LineEnds(u(n - 1))
  BY <1>2, <1>5 DEF Ok
<1>7. LineEnds(s \o (u(n - 1) \o <<t[n]>>)) = LineEnds(s) \o LineEnds(u(n - 1) \o <<t[n]>>)
  BY <1>6, LineEndsOneMore
<1>8. Ok(n)
  BY <1>6, <1>7 DEF Ok
<1> QED
  BY <1>5, <1>8

-----------------------------------------------------------------------------
\* The inductive invariant

TypeOK ==
  /\ status \in {"none", "queued", "running", "final"}
  /\ writer \in {"insert", "first", "open", "refused", "mark", "lines", "end", "gone"}
  /\ line \in Nat
  /\ torn \in BOOLEAN
  /\ fileThere \in BOOLEAN
  /\ file \in Seq(Pieces)
  /\ reader \in {"idle", "open", "retry", "removed", "given up", "read", "check", "done"}
  /\ terminal \in BOOLEAN
  /\ pos \in 0..Len(file)
  /\ partial \in Seq(Pieces)
  /\ events \in Seq(Seq(Pieces))

\* Nothing comes between the pieces of a line.
PiecesAdjoin ==
  /\ \A k \in 1..Len(file) :
        k # Len(file) /\ file[k][2] = "text" => file[k + 1] = Tail1(file[k][1])
  /\ IF torn THEN file # <<>> /\ file[Len(file)] = Head1(line)
             ELSE file = <<>> \/ file[Len(file)][2] = "newline"

\* One whole line at most is there when the worker starts.
BeforeRun ==
  /\ writer \in {"insert", "first"} => line = 1
  /\ writer = "open" => ~torn

\* A final status comes after the last line.
LogIsComplete ==
  /\ status = "final" => writer \in {"end", "gone"}
  /\ terminal => status = "final"

OneLine(e) == \A m, n \in DOMAIN e : e[m][1] = e[n][1]

\* What the handler holds at each of its positions.
Position ==
  /\ ~Opened => pos = 0 /\ events = <<>>
  /\ reader # "check" => partial = <<>>
  /\ LineEnds(partial) = <<>> /\ OneLine(partial)
  /\ terminal /\ reader \in {"check", "done"} => pos = Len(file)

\* What was sent, against what was read past.
Received ==
  /\ LineEnds(Sent) = LineEnds(SubSeq(file, 1, pos))
  /\ terminal => Sent \o partial = SubSeq(file, 1, pos)
  /\ \A e \in DOMAIN events :
        /\ OneLine(events[e])
        /\ LineEnds(events[e]) # <<>> \/ (reader = "done" /\ e = Len(events))

IInv == TypeOK /\ PiecesAdjoin /\ BeforeRun /\ LogIsComplete /\ Position /\ Received

LEMMA EmptyDomain == DOMAIN <<>> = {}
  OBVIOUS

LEMMA OneLineOfEmpty == OneLine(<<>>)
  BY EmptyDomain DEF OneLine

LEMMA NothingRead == \A s : SubSeq(s, 1, 0) = <<>>
  BY SubSeqEmpty

LEMMA InitIInv == Init => IInv
<1> SUFFICES ASSUME Init PROVE IInv
  OBVIOUS
<1>1. TypeOK /\ PiecesAdjoin /\ BeforeRun /\ LogIsComplete
  <2>1. TypeOK
    <3>1. <<>> \in Seq(Pieces) /\ <<>> \in Seq(Seq(Pieces)) /\ Len(<<>>) = 0
      BY EmptySeq
    <3> QED
      <4>1. file \in Seq(Pieces) /\ partial \in Seq(Pieces) /\ events \in Seq(Seq(Pieces))
            /\ pos \in 0..Len(file)
        BY <3>1 DEF Init
      <4> QED
        BY <4>1 DEF Init, TypeOK
  <2>2. PiecesAdjoin
    BY DEF Init, PiecesAdjoin
  <2>3. BeforeRun /\ LogIsComplete
    BY DEF Init, BeforeRun, LogIsComplete
  <2> QED
    BY <2>1, <2>2, <2>3
<1>2. SubSeq(file, 1, pos) = <<>> /\ Sent = <<>>
  BY SubSeqEmpty DEF Init, Sent, FlattenSeq
<1>3. Position
  BY LineEndsOfEmpty, OneLineOfEmpty DEF Init, Position
<1>4. Received
  <2>1. DOMAIN events = {} /\ terminal = FALSE
    BY DEF Init
  <2> QED
    BY <1>2, <2>1 DEF Received
<1> QED
  BY <1>1, <1>3, <1>4 DEF IInv

\* What the reader has read past stays where it is.
LEMMA FileGrows ==
  ASSUME IInv, NEW t \in Seq(Pieces), file' = file \o t, UNCHANGED readerVars,
         terminal => t = <<>>
  PROVE  pos' \in 0..Len(file') /\ Position' /\ Received'
<1>1. /\ file \in Seq(Pieces) /\ pos \in 0..Len(file) /\ Len(file) \in Nat /\ Len(t) \in Nat
      /\ Len(file') = Len(file) + Len(t)
  BY LenProperties, ConcatProperties DEF IInv, TypeOK
<1>2. SubSeq(file', 1, pos) = SubSeq(file, 1, pos)
  <2>1. CASE pos = 0
    BY <2>1, SubSeqEmpty
  <2>2. CASE pos # 0
    <3>1. pos \in 1..Len(file) /\ 1 \in 1..Len(file)
      BY <1>1, <2>2
    <3> QED
      BY <1>1, <3>1, SubSeqOfConcat1
  <2> QED
    BY <2>1, <2>2
<1>3. terminal => Len(file') = Len(file)
  BY <1>1, EmptySeq
<1>4. Sent' = Sent /\ (Opened' <=> Opened)
  BY DEF readerVars, Sent, Opened
<1>5. Position'
  BY <1>3, <1>4 DEF IInv, Position, readerVars
<1>6. Received'
  BY <1>2, <1>4 DEF IInv, Received, readerVars
<1> QED
  BY <1>1, <1>5, <1>6 DEF readerVars

\* One write of a line, or of a piece of it, or none.
LEMMA AppendKeepsIInv ==
  ASSUME IInv, AppendLogLine, status # "final", status' = status, fileThere' \in BOOLEAN,
         writer' \in {"insert", "first", "open", "refused", "mark", "lines", "end", "gone"},
         BeforeRun', UNCHANGED readerVars
  PROVE  IInv'
<1>1. ~terminal /\ ~terminal' /\ status' # "final"
  BY DEF IInv, LogIsComplete, readerVars
<1>2. LogIsComplete'
  BY <1>1 DEF LogIsComplete
<1>3. /\ Head1(line) \in Pieces /\ Tail1(line) \in Pieces
      /\ Head1(line)[2] = "text" /\ Tail1(line)[2] = "newline" /\ Head1(line)[1] = line
      /\ line + 1 \in Nat
  <2>1. line \in Nat
    BY DEF IInv, TypeOK
  <2> QED
    BY <2>1 DEF Head1, Tail1, Pieces
<1>4. file \in Seq(Pieces) /\ Len(file) \in Nat /\ (file # <<>> => Len(file) \in 1..Len(file))
  <2>1. file \in Seq(Pieces)
    BY DEF IInv, TypeOK
  <2> QED
    BY <2>1, LenProperties, EmptySeq
<1> DEFINE Wrote(t) ==
        /\ file' = file \o t
        /\ Len(t) \in Nat /\ Len(t) <= 2
        /\ line' \in Nat /\ torn' \in BOOLEAN
        /\ \/ Len(t) = 0 /\ torn' = torn /\ ~torn
           \/ Len(t) = 1 /\ ~torn /\ t[1] = Head1(line) /\ torn' /\ line' = line
           \/ Len(t) = 1 /\ torn /\ t[1] = Tail1(line) /\ ~torn'
           \/ Len(t) = 2 /\ ~torn /\ t[1] = Head1(line) /\ t[2] = Tail1(line) /\ ~torn'
<1>5. PICK t \in Seq(Pieces) : Wrote(t)
  <2>1. CASE file' = file \o (IF torn THEN <<Tail1(line)>> ELSE <<Head1(line), Tail1(line)>>)
             /\ line' = line + 1 /\ torn' = FALSE
    <3>1. CASE torn
      <4> DEFINE w == <<Tail1(line)>>
      <4>1. w \in Seq(Pieces) /\ Len(w) = 1 /\ w[1] = Tail1(line)
        BY <1>3
      <4> HIDE DEF w
      <4>2. file' = file \o w
        BY <2>1, <3>1 DEF w
      <4>3. line' = line + 1 /\ torn' = FALSE
        BY <2>1
      <4>4. Wrote(w)
        <5>1. file' = file \o w /\ Len(w) \in Nat /\ Len(w) <= 2
          BY <4>1, <4>2
        <5>2. line' \in Nat /\ torn' \in BOOLEAN
          BY <1>3, <4>3
        <5>3. torn /\ ~torn' /\ Len(w) = 1 /\ w[1] = Tail1(line)
          BY <3>1, <4>1, <4>3
        <5> QED
          BY <5>1, <5>2, <5>3
      <4> QED
        BY <4>1, <4>4
    <3>2. CASE ~torn
      <4> DEFINE w == <<Head1(line), Tail1(line)>>
      <4>1. w \in Seq(Pieces) /\ Len(w) = 2 /\ w[1] = Head1(line) /\ w[2] = Tail1(line)
        BY <1>3
      <4> HIDE DEF w
      <4>2. file' = file \o w
        BY <2>1, <3>2 DEF w
      <4>3. line' = line + 1 /\ torn' = FALSE
        BY <2>1
      <4>4. Wrote(w)
        <5>1. file' = file \o w /\ Len(w) \in Nat /\ Len(w) <= 2
          BY <4>1, <4>2
        <5>2. line' \in Nat /\ torn' \in BOOLEAN
          BY <1>3, <4>3
        <5>3. ~torn /\ ~torn' /\ Len(w) = 2 /\ w[1] = Head1(line) /\ w[2] = Tail1(line)
          BY <3>2, <4>1, <4>3
        <5> QED
          BY <5>1, <5>2, <5>3
      <4> QED
        BY <4>1, <4>4
    <3> QED
      BY <3>1, <3>2
  <2>2. CASE ~torn /\ file' = Append(file, Head1(line)) /\ torn' = TRUE
             /\ line' = line
    <3> DEFINE w == <<Head1(line)>>
    <3>1. w \in Seq(Pieces) /\ Len(w) = 1 /\ w[1] = Head1(line)
      BY <1>3
    <3>2. file' = file \o w
      BY <1>3, <1>4, <2>2, AppendIsConcat
    <3> HIDE DEF w
    <3>3. line' \in Nat
      BY <2>2 DEF IInv, TypeOK
    <3>4. Wrote(w)
      BY <2>2, <3>1, <3>2, <3>3
    <3> QED
      BY <3>1, <3>4
  <2>3. CASE ~torn /\ line' = line + 1 /\ UNCHANGED <<file, torn>>
    <3>1. <<>> \in Seq(Pieces) /\ Len(<<>>) = 0 /\ file \o <<>> = file
      BY <1>4, EmptySeq, ConcatEmptySeq
    <3>2. torn' \in BOOLEAN
      BY <2>3 DEF IInv, TypeOK
    <3>3. Wrote(<<>>)
      BY <1>3, <2>3, <3>1, <3>2
    <3> QED
      BY <3>1, <3>3
  <2> QED
    BY <2>1, <2>2, <2>3 DEF AppendLogLine
<1>6. pos' \in 0..Len(file') /\ Position' /\ Received'
  BY <1>1, <1>5, FileGrows
<1>7. /\ file' \in Seq(Pieces) /\ Len(file') = Len(file) + Len(t)
      /\ \A k \in 1..Len(file) + Len(t) :
            file'[k] = IF k <= Len(file) THEN file[k] ELSE t[k - Len(file)]
  BY <1>4, <1>5, ConcatProperties
<1>8. TypeOK'
  BY <1>1, <1>5, <1>6, <1>7 DEF IInv, TypeOK, readerVars
<1>9. PiecesAdjoin'
  <2>1. ASSUME NEW k \in 1..Len(file'), k # Len(file'), file'[k][2] = "text"
        PROVE  file'[k + 1] = Tail1(file'[k][1])
    <3>1. CASE k < Len(file)
      <4>1. /\ k \in 1..Len(file) /\ k # Len(file) /\ k + 1 \in 1..Len(file) + Len(t)
            /\ k + 1 <= Len(file) /\ k \in 1..Len(file) + Len(t) /\ k <= Len(file)
        BY <1>4, <1>5, <1>7, <3>1
      <4>2. file'[k] = file[k] /\ file'[k + 1] = file[k + 1]
        BY <1>7, <4>1
      <4> QED
        BY <2>1, <4>1, <4>2 DEF IInv, PiecesAdjoin
    <3>2. CASE k = Len(file)
      <4>1. /\ k \in 1..Len(file) + Len(t) /\ k <= Len(file) /\ file # <<>>
            /\ k + 1 \in 1..Len(file) + Len(t) /\ ~(k + 1 <= Len(file)) /\ (k + 1) - Len(file) = 1
        BY <1>4, <1>5, <1>7, <2>1, <3>2
      <4>2. file'[k] = file[Len(file)] /\ file'[k + 1] = t[1]
        BY <1>7, <3>2, <4>1
      <4>3. torn /\ file[Len(file)] = Head1(line)
        BY <2>1, <4>1, <4>2 DEF IInv, PiecesAdjoin
      <4>4. t[1] = Tail1(line)
        BY <1>5, <4>3
      <4> QED
        BY <1>3, <4>2, <4>3, <4>4
    <3>3. CASE k > Len(file)
      <4>1. /\ k \in 1..Len(file) + Len(t) /\ ~(k <= Len(file)) /\ Len(t) = 2
            /\ k - Len(file) = 1
            /\ k + 1 \in 1..Len(file) + Len(t) /\ ~(k + 1 <= Len(file)) /\ (k + 1) - Len(file) = 2
        <5>1. Len(t) \in Nat /\ Len(t) <= 2
          BY <1>5
        <5>2. k \in 1..Len(file) + Len(t) /\ k # Len(file) + Len(t)
          BY <1>7, <2>1
        <5>3. Len(file) \in Nat
          BY <1>4
        <5>4. Len(t) = 2 /\ k = Len(file) + 1
          <6> DEFINE a == Len(file)
                     b == Len(t)
          <6>1. a \in Nat /\ b \in Nat /\ b <= 2 /\ k \in 1..a + b /\ k # a + b /\ k > a
            BY <3>3, <5>1, <5>2, <5>3
          <6> HIDE DEF a, b
          <6>2. b = 2 /\ k = a + 1
            BY <6>1
          <6> QED
            BY <6>2 DEF a, b
        <5> QED
          BY <5>3, <5>4
      <4>2. file'[k] = t[1] /\ file'[k + 1] = t[2]
        BY <1>7, <4>1
      <4> QED
        BY <1>3, <1>5, <4>1, <4>2
    <3> QED
      BY <1>4, <1>7, <3>1, <3>2, <3>3
  <2>2. IF torn' THEN file' # <<>> /\ file'[Len(file')] = Head1(line')
                 ELSE file' = <<>> \/ file'[Len(file')][2] = "newline"
    <3>1. CASE Len(t) = 0
      <4>1. t = <<>> /\ file' = file
        BY <1>4, <1>5, <3>1, EmptySeq, ConcatEmptySeq
      <4>2. torn' = torn /\ ~torn
        BY <1>5, <3>1
      <4> QED
        BY <4>1, <4>2 DEF IInv, PiecesAdjoin
    <3>2. CASE Len(t) # 0
      <4> DEFINE n == Len(file) + Len(t)
      <4>1. n \in 1..n /\ ~(n <= Len(file)) /\ n - Len(file) = Len(t) /\ n # 0
        BY <1>4, <1>5, <3>2
      <4>2. file'[Len(file')] = t[Len(t)] /\ file' # <<>>
        BY <1>7, <4>1, EmptySeq
      <4> QED
        BY <1>3, <1>5, <3>2, <4>2
    <3> QED
      BY <3>1, <3>2
  <2> QED
    BY <2>1, <2>2 DEF PiecesAdjoin
<1> QED
  BY <1>2, <1>6, <1>8, <1>9 DEF IInv

\* What the handler reads is the end of what it will have read, and holds
\* pieces of one line.
LEMMA ChunkFacts ==
  ASSUME IInv, NEW k \in pos..Len(file), \A i \in pos + 1..k - 1 : file[i][2] # "newline"
  PROVE  LET chunk == SubSeq(file, pos + 1, k) IN
         /\ chunk \in Seq(Pieces)
         /\ SubSeq(file, 1, k) = SubSeq(file, 1, pos) \o chunk
         /\ SubSeq(file, 1, pos) \in Seq(Pieces)
         /\ OneLine(chunk)
         /\ k # pos /\ file[k][2] = "newline" => LineEnds(chunk) # <<>>
         /\ k = pos \/ file[k][2] # "newline" => LineEnds(chunk) = <<>>
<1> DEFINE chunk == SubSeq(file, pos + 1, k)
           l == Len(file)
<1>1. /\ file \in Seq(Pieces) /\ l \in Nat /\ pos \in Nat /\ pos <= l
      /\ \A i \in 1..l : file[i] \in Pieces
  <2>1. file \in Seq(Pieces) /\ pos \in 0..Len(file)
    BY DEF IInv, TypeOK
  <2> QED
    BY <2>1, LenProperties, ElementOfSeq
<1>2. k \in Nat /\ pos <= k /\ k <= l /\ pos + 1 \in Int
  BY <1>1
<1>3. /\ chunk \in Seq(Pieces) /\ Len(chunk) = k - pos
      /\ \A i \in 1..k - pos : chunk[i] = file[pos + i]
      /\ SubSeq(file, 1, pos) \in Seq(Pieces)
  <2>1. /\ \A i \in pos + 1..k : file[i] \in Pieces
        /\ \A i \in 1..pos : file[i] \in Pieces
        /\ 1 \in Int /\ pos \in Int /\ k \in Int
    BY <1>1, <1>2
  <2>2. SubSeq(file, 1, pos) \in Seq(Pieces)
    BY <2>1, SubSeqProperties
  <2>3. /\ chunk \in Seq(Pieces) /\ Len(chunk) = IF pos + 1 <= k THEN k - (pos + 1) + 1 ELSE 0
        /\ \A i \in 1..k - (pos + 1) + 1 : chunk[i] = file[(pos + 1) + i - 1]
    BY <1>2, <2>1, SubSeqProperties
  <2> HIDE DEF chunk
  <2>4. k - (pos + 1) + 1 = k - pos /\ \A i \in 1..k - pos : (pos + 1) + i - 1 = pos + i
    BY <1>1, <1>2
  <2> QED
    BY <1>1, <1>2, <2>2, <2>3, <2>4
<1>4. SubSeq(file, 1, k) = SubSeq(file, 1, pos) \o chunk
  <2>1. 1 \in 1..l + 1 /\ pos \in 1 - 1..l /\ k \in pos..l
    BY <1>1, <1>2
  <2> QED
    BY <1>1, <2>1, ConcatAdjacentSubSeq
<1>5. k - pos \in {0, 1, 2} /\ (k - pos = 2 => file[k] = Tail1(file[pos + 1][1]))
  <2>1. \A i \in pos + 1..k - 1 : i \in 1..l /\ i # l /\ file[i][2] = "text"
    <3>1. \A i \in pos + 1..k - 1 : i \in 1..l /\ i # l
      BY <1>1, <1>2
    <3> QED
      BY <1>1, <3>1 DEF Pieces
  <2>2. \A i \in pos + 1..k - 1 : file[i + 1] = Tail1(file[i][1])
    BY <2>1 DEF IInv, PiecesAdjoin
  <2>3. ~(pos + 2 < k)
    <3> SUFFICES ASSUME pos + 2 < k PROVE FALSE
      OBVIOUS
    <3>1. pos + 1 \in pos + 1..k - 1 /\ pos + 2 \in pos + 1..k - 1 /\ (pos + 1) + 1 = pos + 2
      BY <1>1, <1>2
    <3>2. file[pos + 2] = Tail1(file[pos + 1][1]) /\ file[pos + 2][2] = "text"
      BY <2>1, <2>2, <3>1
    <3> QED
      BY <3>2 DEF Tail1
  <2>4. ASSUME k - pos = 2 PROVE file[k] = Tail1(file[pos + 1][1])
    <3>1. pos + 1 \in pos + 1..k - 1 /\ (pos + 1) + 1 = k
      BY <1>1, <1>2, <2>4
    <3> QED
      BY <2>2, <3>1
  <2> QED
    BY <1>1, <1>2, <2>3, <2>4
<1> HIDE DEF chunk
<1>6. OneLine(chunk)
  <2>1. DOMAIN chunk = 1..k - pos
    BY <1>3, LenProperties
  <2>2. CASE k - pos = 2
    <3>1. chunk[1] = file[pos + 1] /\ chunk[2] = file[k]
      <4>1. 1 \in 1..k - pos /\ 2 \in 1..k - pos /\ pos + 2 = k
        BY <1>1, <1>2, <2>2
      <4> QED
        BY <1>3, <4>1
    <3>2. chunk[2][1] = chunk[1][1]
      BY <1>5, <2>2, <3>1 DEF Tail1
    <3>3. \A m \in 1..2 : m = 1 \/ m = 2
      OBVIOUS
    <3> QED
      BY <2>1, <2>2, <3>2, <3>3 DEF OneLine
  <2>3. CASE k - pos # 2
    <3>1. \A m, n \in 1..k - pos : m = n
      BY <1>1, <1>2, <1>5, <2>3
    <3> QED
      BY <2>1, <3>1 DEF OneLine
  <2> QED
    BY <2>2, <2>3
<1>7. CASE k = pos
  <2>1. Len(chunk) = 0
    BY <1>1, <1>3, <1>7
  <2>2. chunk = <<>>
    BY <1>3, <2>1, EmptySeq
  <2> QED
    BY <1>3, <1>4, <1>6, <1>7, <2>2, LineEndsOfEmpty DEF chunk
<1>8. CASE k # pos
  <2> DEFINE front == SubSeq(file, pos + 1, k - 1)
  <2>1. chunk = front \o <<file[k]>> /\ front \in Seq(Pieces) /\ file[k] \in Pieces
    <3>1. /\ pos + 1 \in 1..l /\ k \in pos + 1..l /\ k \in 1..l /\ k - 1 \in Int
          /\ \A i \in pos + 1..k - 1 : i \in 1..l
      BY <1>1, <1>2, <1>8
    <3>2. \A i \in pos + 1..k - 1 : file[i] \in Pieces
      BY <1>1, <3>1
    <3>3. front \in Seq(Pieces)
      BY <1>2, <3>1, <3>2, SubSeqProperties
    <3> QED
      BY <1>1, <3>1, <3>3, SubSeqRecursiveSecond DEF chunk
  <2> HIDE DEF front
  <2>2. LineEnds(chunk) = LineEnds(front) \o EndOf(file[k]) /\ LineEnds(front) \in Seq(Pieces)
    BY <2>1, LineEndsAppend
  <2>3. file[k][2] = "newline" => LineEnds(chunk) # <<>>
    <3> DEFINE a == LineEnds(front)
               b == EndOf(file[k])
    <3> SUFFICES ASSUME file[k][2] = "newline" PROVE a \o b # <<>>
      BY <2>2
    <3>1. b \in Seq(Pieces) /\ Len(b) = 1
      BY <2>1 DEF EndOf
    <3>2. a \in Seq(Pieces) /\ Len(a) \in Nat
      BY <2>2, LenProperties
    <3> HIDE DEF a, b
    <3>3. a \o b # <<>>
      <4>1. a \in Seq(Pieces) /\ b \in Seq(Pieces)
        BY <3>1, <3>2
      <4>2. a \o b = <<>> <=> a = <<>> /\ b = <<>>
        BY <4>1, ConcatEqualIffEmpty
      <4>3. Len(<<>>) = 0
        BY EmptySeq
      <4>4. b # <<>>
        BY <3>1, <4>3
      <4> QED
        BY <4>2, <4>4
    <3> QED
      BY <3>3
  <2>4. file[k][2] # "newline" => LineEnds(chunk) = <<>>
    <3> SUFFICES ASSUME file[k][2] # "newline" PROVE LineEnds(chunk) = <<>>
      OBVIOUS
    <3>1. \A i \in 1..k - pos : chunk[i][2] # "newline"
      <4> SUFFICES ASSUME NEW i \in 1..k - pos PROVE file[pos + i][2] # "newline"
        BY <1>3
      <4>1. pos + i = k \/ pos + i \in pos + 1..k - 1
        BY <1>1, <1>2
      <4> QED
        BY <4>1
    <3> QED
      BY <1>3, <3>1, NoLineEnds
  <2> QED
    BY <1>3, <1>4, <1>6, <1>8, <2>3, <2>4 DEF chunk
<1> QED
  BY <1>7, <1>8

\* Sending a chunk
LEMMA SendFacts ==
  ASSUME IInv, NEW e \in Seq(Pieces), events' = Append(events, e)
  PROVE  /\ Sent \in Seq(Pieces) /\ Sent' = Sent \o e
         /\ LineEnds(Sent') = LineEnds(Sent) \o LineEnds(e)
         /\ events' \in Seq(Seq(Pieces))
         /\ DOMAIN events' = 1..Len(events) + 1 /\ Len(events') = Len(events) + 1
         /\ Len(events) \in Nat /\ DOMAIN events = 1..Len(events)
         /\ \A i \in 1..Len(events) : events'[i] = events[i]
         /\ events'[Len(events) + 1] = e
<1>1. events \in Seq(Seq(Pieces))
  BY DEF IInv, TypeOK
<1>2. Sent \in Seq(Pieces) /\ Sent' = Sent \o e
  BY <1>1, FlattenAppend DEF Sent
<1>3. LineEnds(Sent') = LineEnds(Sent) \o LineEnds(e)
  BY <1>2, LineEndsConcat
<1>4. /\ events' \in Seq(Seq(Pieces)) /\ Len(events') = Len(events) + 1
      /\ Len(events) \in Nat /\ DOMAIN events = 1..Len(events)
      /\ \A i \in 1..Len(events) : events'[i] = events[i]
      /\ events'[Len(events) + 1] = e
  BY <1>1, AppendProperties, LenProperties
<1>5. DOMAIN events' = 1..Len(events) + 1
  BY <1>4, LenProperties
<1> QED
  BY <1>2, <1>3, <1>4, <1>5

LEMMA ReadLineKeepsIInv == IInv /\ ReadLine /\ UNCHANGED writerVars => IInv'
<1> SUFFICES ASSUME IInv, ReadLine, UNCHANGED writerVars PROVE IInv'
  OBVIOUS
<1>1. PICK k \in NewlinesAhead :
        /\ \A m \in NewlinesAhead : k <= m
        /\ events' = Append(events, SubSeq(file, pos + 1, k))
        /\ pos' = k
  BY DEF ReadLine
<1> DEFINE chunk == SubSeq(file, pos + 1, k)
<1>2. reader = "read" /\ reader' = "read" /\ terminal' = terminal /\ partial' = partial
      /\ partial = <<>> /\ Opened /\ Opened'
  BY DEF ReadLine, Opened, IInv, Position
<1>3. pos \in 0..Len(file) /\ Len(file) \in Nat /\ file \in Seq(Pieces)
  BY LenProperties DEF IInv, TypeOK
<1>4. /\ k \in pos..Len(file) /\ k # pos /\ k \in 0..Len(file) /\ file[k][2] = "newline"
      /\ \A i \in pos + 1..k - 1 : file[i][2] # "newline"
  <2>1. k \in pos + 1..Len(file) /\ file[k][2] = "newline"
    BY DEF NewlinesAhead
  <2>2. k \in pos..Len(file) /\ k # pos /\ k \in 0..Len(file)
    BY <1>3, <2>1
  <2>3. ASSUME NEW i \in pos + 1..k - 1, file[i][2] = "newline" PROVE FALSE
    <3>1. i \in pos + 1..Len(file) /\ ~(k <= i)
      BY <1>3, <2>1
    <3> QED
      BY <1>1, <2>3, <3>1 DEF NewlinesAhead
  <2> QED
    BY <2>1, <2>2, <2>3
<1>5. /\ chunk \in Seq(Pieces) /\ SubSeq(file, 1, pos) \in Seq(Pieces)
      /\ SubSeq(file, 1, k) = SubSeq(file, 1, pos) \o chunk
      /\ OneLine(chunk) /\ LineEnds(chunk) # <<>>
  BY <1>4, ChunkFacts
<1> HIDE DEF chunk
<1>6. /\ Sent \in Seq(Pieces) /\ Sent' = Sent \o chunk
      /\ LineEnds(Sent') = LineEnds(Sent) \o LineEnds(chunk)
      /\ events' \in Seq(Seq(Pieces))
      /\ DOMAIN events' = 1..Len(events) + 1 /\ Len(events') = Len(events) + 1
      /\ Len(events) \in Nat /\ DOMAIN events = 1..Len(events)
      /\ \A i \in 1..Len(events) : events'[i] = events[i]
      /\ events'[Len(events) + 1] = chunk
  <2>1. events' = Append(events, chunk)
    BY <1>1 DEF chunk
  <2> QED
    BY <1>5, <2>1, SendFacts
<1>7. TypeOK' /\ PiecesAdjoin' /\ BeforeRun' /\ LogIsComplete'
  <2>1. TypeOK'
    BY <1>1, <1>2, <1>4, <1>6 DEF IInv, TypeOK, writerVars
  <2> QED
    BY <1>2, <2>1 DEF IInv, PiecesAdjoin, BeforeRun, LogIsComplete, writerVars
<1>8. Position'
  BY <1>2 DEF IInv, Position
<1>9. Received'
  <2>1. SubSeq(file', 1, pos') = SubSeq(file, 1, pos) \o chunk
    BY <1>1, <1>5 DEF writerVars
  <2>2. LineEnds(Sent') = LineEnds(SubSeq(file', 1, pos'))
    <3>1. LineEnds(SubSeq(file, 1, pos) \o chunk) = LineEnds(SubSeq(file, 1, pos)) \o LineEnds(chunk)
      BY <1>5, LineEndsConcat
    <3> QED
      BY <1>6, <2>1, <3>1 DEF IInv, Received
  <2>3. terminal' => Sent' \o partial' = SubSeq(file', 1, pos')
    <3>1. Sent \o <<>> = Sent
      BY <1>6, ConcatEmptySeq
    <3>2. Sent \o chunk \in Seq(Pieces)
      BY <1>5, <1>6, ConcatProperties
    <3>3. (Sent \o chunk) \o <<>> = Sent \o chunk
      BY <3>2, ConcatEmptySeq
    <3> QED
      BY <1>2, <1>6, <2>1, <3>1, <3>3 DEF IInv, Received
  <2>4. ASSUME NEW e \in DOMAIN events'
        PROVE  OneLine(events'[e]) /\ LineEnds(events'[e]) # <<>>
    <3>1. CASE e \in 1..Len(events)
      <4>1. OneLine(events[e]) /\ LineEnds(events[e]) # <<>>
        BY <1>2, <1>6, <3>1 DEF IInv, Received
      <4> QED
        BY <1>6, <3>1, <4>1
    <3>2. CASE e \notin 1..Len(events)
      <4>1. e = Len(events) + 1
        BY <1>6, <3>2
      <4> QED
        BY <1>5, <1>6, <4>1
    <3> QED
      BY <3>1, <3>2
  <2> QED
    BY <2>2, <2>3, <2>4 DEF Received
<1> QED
  BY <1>7, <1>8, <1>9 DEF IInv

LEMMA ReadEOFKeepsIInv == IInv /\ ReadEOF /\ UNCHANGED writerVars => IInv'
<1> SUFFICES ASSUME IInv, ReadEOF, UNCHANGED writerVars PROVE IInv'
  OBVIOUS
<1> DEFINE k == Len(file)
           chunk == SubSeq(file, pos + 1, k)
<1>1. /\ NewlinesAhead = {} /\ partial' = chunk /\ pos' = k /\ reader = "read" /\ reader' = "check"
      /\ terminal' = terminal /\ events' = events /\ Sent' = Sent /\ partial = <<>>
      /\ Opened /\ Opened'
  BY DEF ReadEOF, Sent, Opened, IInv, Position
<1>2. pos \in 0..k /\ k \in Nat /\ file \in Seq(Pieces)
  BY LenProperties DEF IInv, TypeOK
<1>3. /\ k \in pos..Len(file)
      /\ \A i \in pos + 1..k - 1 : file[i][2] # "newline"
      /\ k = pos \/ file[k][2] # "newline"
  <2>1. \A i \in pos + 1..k : file[i][2] # "newline"
    BY <1>1 DEF NewlinesAhead
  <2>2. /\ k \in pos..Len(file) /\ (k # pos => k \in pos + 1..k)
        /\ \A i \in pos + 1..k - 1 : i \in pos + 1..k
    BY <1>2
  <2> QED
    BY <2>1, <2>2
<1>4. /\ chunk \in Seq(Pieces) /\ SubSeq(file, 1, pos) \in Seq(Pieces)
      /\ SubSeq(file, 1, k) = SubSeq(file, 1, pos) \o chunk
      /\ OneLine(chunk) /\ LineEnds(chunk) = <<>>
  BY <1>3, ChunkFacts
<1> HIDE DEF chunk
<1>5. Sent \in Seq(Pieces)
  <2>1. events \in Seq(Seq(Pieces)) /\ <<>> \in Seq(Pieces)
    BY EmptySeq DEF IInv, TypeOK
  <2> QED
    BY <2>1, FlattenAppend DEF Sent
<1>6. TypeOK' /\ PiecesAdjoin' /\ BeforeRun' /\ LogIsComplete'
  <2>1. TypeOK'
    BY <1>1, <1>2, <1>4 DEF IInv, TypeOK, writerVars
  <2> QED
    BY <1>1, <2>1 DEF IInv, PiecesAdjoin, BeforeRun, LogIsComplete, writerVars
<1>7. Position'
  BY <1>1, <1>4 DEF Position, OneLine, writerVars
<1>8. Received'
  <2>1. SubSeq(file', 1, pos') = SubSeq(file, 1, pos) \o chunk
    BY <1>1, <1>4 DEF writerVars
  <2>2. LineEnds(Sent') = LineEnds(SubSeq(file', 1, pos'))
    <3> DEFINE read == SubSeq(file, 1, pos)
    <3>1. LineEnds(read \o chunk) = LineEnds(read) \o <<>>
      BY <1>4, LineEndsConcat
    <3>2. LineEnds(read) \in Seq(Pieces)
      <4>1. <<0, "text">> \in Pieces
        BY DEF Pieces
      <4> QED
        BY <1>4, <4>1, LineEndsAppend
    <3>3. LineEnds(read) \o <<>> = LineEnds(read)
      BY <3>2, ConcatEmptySeq
    <3> QED
      BY <1>1, <2>1, <3>1, <3>3 DEF IInv, Received
  <2>3. terminal' => Sent' \o partial' = SubSeq(file', 1, pos')
    <3>1. Sent \o <<>> = Sent
      BY <1>5, ConcatEmptySeq
    <3> QED
      BY <1>1, <2>1, <3>1 DEF IInv, Received
  <2>4. \A e \in DOMAIN events : OneLine(events[e]) /\ LineEnds(events[e]) # <<>>
    BY <1>1 DEF IInv, Received
  <2> QED
    BY <1>1, <2>2, <2>3, <2>4 DEF Received
<1> QED
  BY <1>6, <1>7, <1>8 DEF IInv

LEMMA CheckFinalKeepsIInv == IInv /\ CheckFinal /\ UNCHANGED writerVars => IInv'
<1> SUFFICES ASSUME IInv, CheckFinal, UNCHANGED writerVars PROVE IInv'
  OBVIOUS
<1>1. /\ partial' = <<>> /\ reader = "check" /\ reader' = "done" /\ terminal' = terminal /\ pos' = pos
      /\ Opened /\ Opened' /\ events' = IF partial = <<>> THEN events ELSE Append(events, partial)
  BY DEF CheckFinal, Opened
<1>2. /\ partial \in Seq(Pieces) /\ events \in Seq(Seq(Pieces)) /\ <<>> \in Seq(Pieces)
  BY EmptySeq DEF IInv, TypeOK
<1>3. Sent \in Seq(Pieces) /\ LineEnds(Sent) \in Seq(Pieces)
  <2>1. Sent \in Seq(Pieces)
    BY <1>2, FlattenAppend DEF Sent
  <2>2. <<0, "text">> \in Pieces
    BY DEF Pieces
  <2> QED
    BY <2>1, <2>2, LineEndsAppend
<1>4. LineEnds(partial) = <<>> /\ OneLine(partial)
  BY DEF IInv, Position, OneLine
<1>5. /\ Sent' \in Seq(Pieces) /\ Sent' = Sent \o partial /\ LineEnds(Sent') = LineEnds(Sent)
      /\ events' \in Seq(Seq(Pieces))
      /\ \A e \in DOMAIN events' :
            OneLine(events'[e]) /\ (LineEnds(events'[e]) # <<>> \/ e = Len(events'))
  <2>1. CASE partial = <<>>
    <3>1. events' = events /\ Sent' = Sent
      BY <1>1, <2>1 DEF Sent
    <3>2. Sent \o <<>> = Sent
      BY <1>3, ConcatEmptySeq
    <3> QED
      BY <1>1, <1>2, <1>3, <2>1, <3>1, <3>2 DEF IInv, Received
  <2>2. CASE partial # <<>>
    <3>1. events' = Append(events, partial)
      BY <1>1, <2>2
    <3>2. /\ Sent' = Sent \o partial
          /\ LineEnds(Sent') = LineEnds(Sent) \o LineEnds(partial)
          /\ events' \in Seq(Seq(Pieces))
          /\ DOMAIN events' = 1..Len(events) + 1 /\ Len(events') = Len(events) + 1
          /\ Len(events) \in Nat /\ DOMAIN events = 1..Len(events)
          /\ \A i \in 1..Len(events) : events'[i] = events[i]
          /\ events'[Len(events) + 1] = partial
      BY <1>2, <3>1, SendFacts
    <3>3. LineEnds(Sent) \o <<>> = LineEnds(Sent)
      BY <1>3, ConcatEmptySeq
    <3>4. Sent' \in Seq(Pieces)
      BY <1>2, <1>3, <3>2, ConcatProperties
    <3>5. ASSUME NEW e \in DOMAIN events'
          PROVE  OneLine(events'[e]) /\ (LineEnds(events'[e]) # <<>> \/ e = Len(events'))
      <4>1. CASE e \in 1..Len(events)
        <5>1. OneLine(events[e]) /\ LineEnds(events[e]) # <<>>
          BY <1>1, <3>2, <4>1 DEF IInv, Received
        <5> QED
          BY <3>2, <4>1, <5>1
      <4>2. CASE e \notin 1..Len(events)
        <5>1. e = Len(events) + 1
          BY <3>2, <4>2
        <5> QED
          BY <1>4, <3>2, <5>1
      <4> QED
        BY <4>1, <4>2
    <3> QED
      BY <1>4, <3>2, <3>3, <3>4, <3>5
  <2> QED
    BY <2>1, <2>2
<1>6. TypeOK' /\ PiecesAdjoin' /\ BeforeRun' /\ LogIsComplete'
  <2>1. TypeOK'
    BY <1>1, <1>2, <1>5 DEF IInv, TypeOK, writerVars
  <2> QED
    BY <1>1, <2>1 DEF IInv, PiecesAdjoin, BeforeRun, LogIsComplete, writerVars
<1>7. Position'
  BY <1>1, LineEndsOfEmpty, OneLineOfEmpty DEF IInv, Position, writerVars
<1>8. Received'
  <2>1. terminal' => Sent' \o partial' = SubSeq(file', 1, pos')
    <3>1. Sent' \o <<>> = Sent'
      BY <1>5, ConcatEmptySeq
    <3> QED
      BY <1>1, <1>5, <3>1 DEF IInv, Received, writerVars
  <2>2. LineEnds(Sent') = LineEnds(SubSeq(file', 1, pos'))
    BY <1>1, <1>5 DEF IInv, Received, writerVars
  <2> QED
    BY <1>1, <1>5, <2>1, <2>2 DEF Received
<1> QED
  BY <1>6, <1>7, <1>8 DEF IInv

\* A stream that is not open holds nothing.
LEMMA NothingReceived ==
  ASSUME reader' \in {"idle", "open", "retry", "removed", "given up"},
         pos' = 0, partial' = <<>>, events' = <<>>
  PROVE  Position' /\ Received'
<1>1. ~Opened' /\ reader' # "check"
  BY DEF Opened
<1>2. Sent' = <<>> /\ SubSeq(file', 1, pos') = <<>>
  <2>1. Sent' = <<>>
    <3>1. FlattenSeq(<<>>) = <<>>
      BY DEF FlattenSeq
    <3> QED
      BY <3>1 DEF Sent
  <2>2. SubSeq(file', 1, pos') = <<>>
    BY NothingRead
  <2> QED
    BY <2>1, <2>2
<1>3. DOMAIN <<>> = {} /\ <<>> \o <<>> = <<>>
  <2>1. <<>> \o <<>> = <<>>
    BY EmptySeq, ConcatEmptySeq
  <2>2. DOMAIN <<>> = {}
    BY EmptyDomain
  <2> QED
    BY <2>1, <2>2
<1>4. Position'
  BY <1>1, LineEndsOfEmpty, OneLineOfEmpty DEF Position
<1>5. Received'
  BY <1>2, <1>3 DEF Received
<1> QED
  BY <1>4, <1>5

LEMMA WriterKeepsIInv == IInv /\ Writer /\ UNCHANGED readerVars => IInv'
<1> SUFFICES ASSUME IInv, Writer, UNCHANGED readerVars PROVE IInv'
  OBVIOUS
<1>0. /\ status \in {"none", "queued", "running", "final"} /\ fileThere \in BOOLEAN
      /\ torn \in BOOLEAN /\ line \in Nat /\ Lines + 1 \in Nat
  <2>1. Lines + 1 \in Nat
    BY LogStreamAssumption
  <2>2. /\ status \in {"none", "queued", "running", "final"} /\ line \in Nat
        /\ fileThere \in BOOLEAN /\ torn \in BOOLEAN
    BY DEF IInv, TypeOK
  <2> QED
    BY <2>1, <2>2
<1>1. ASSUME UNCHANGED <<line, torn, file>> \/ (writer = "open" /\ UNCHANGED <<torn, file>>),
             line' \in Nat, fileThere' \in BOOLEAN,
             status' \in {"none", "queued", "running", "final"},
             writer' \in {"insert", "first", "open", "refused", "mark", "lines", "end", "gone"},
             BeforeRun', LogIsComplete',
             status = "final" => status' = "final"
      PROVE  IInv'
  <2>0. UNCHANGED <<torn, file>>
    BY <1>1
  <2>1. TypeOK'
    BY <1>1, <2>0 DEF IInv, TypeOK, readerVars
  <2>2. PiecesAdjoin'
    <3>1. torn => line' = line
      BY <1>1 DEF IInv, BeforeRun
    <3> QED
      BY <2>0, <3>1 DEF IInv, PiecesAdjoin, Head1
  <2>4. Sent' = Sent /\ (Opened' <=> Opened)
    BY DEF readerVars, Sent, Opened
  <2>5. Position'
    BY <2>0, <2>4 DEF IInv, Position, readerVars
  <2>6. Received'
    BY <2>0, <2>4 DEF IInv, Received, readerVars
  <2> QED
    BY <1>1, <2>1, <2>2, <2>5, <2>6 DEF IInv
<1>2. CASE SubmitInsert
  <2>1. status # "final" /\ line = 1 /\ ~terminal
    BY <1>2 DEF SubmitInsert, IInv, BeforeRun, LogIsComplete
  <2>2. BeforeRun' /\ LogIsComplete'
    BY <1>2, <2>1 DEF SubmitInsert, BeforeRun, LogIsComplete, readerVars
  <2> QED
    BY <1>0, <1>1, <1>2, <2>1, <2>2 DEF SubmitInsert
<1>3. CASE SubmitLog
  <2>1. /\ line = 1 /\ AppendLogLine /\ status # "final" /\ status' = status
        /\ writer' \in IF line' = 2 THEN {"open", "refused"} ELSE {"first"}
    BY <1>3 DEF SubmitLog, IInv, BeforeRun, LogIsComplete
  <2>2. fileThere' \in BOOLEAN
    BY <1>0, <1>3 DEF SubmitLog
  <2>3. line' = 1 \/ (line' = 2 /\ ~torn')
    BY <2>1 DEF AppendLogLine
  <2>4. BeforeRun' /\ writer' \in {"first", "open", "refused"}
    BY <2>1, <2>3 DEF BeforeRun
  <2> QED
    BY <2>1, <2>2, <2>4, AppendKeepsIInv
<1>4. CASE RunOpenLog
  <2>1. status # "final" /\ writer' = "mark" /\ ~terminal /\ writer = "open"
    BY <1>4 DEF RunOpenLog, IInv, LogIsComplete
  <2>2. BeforeRun' /\ LogIsComplete'
    BY <1>4, <2>1 DEF RunOpenLog, BeforeRun, LogIsComplete, readerVars
  <2>3. UNCHANGED <<status, torn, file>> /\ line' \in Nat /\ fileThere' \in BOOLEAN
    BY <1>0, <1>4 DEF RunOpenLog
  <2> QED
    BY <1>0, <1>1, <2>1, <2>2, <2>3
<1>5. CASE RunMark
  <2>1. status # "final" /\ writer' = "lines" /\ ~terminal
    BY <1>5 DEF RunMark, IInv, LogIsComplete
  <2>2. UNCHANGED <<line, torn, fileThere, file>> /\ status' \in {"running", status}
    BY <1>5 DEF RunMark
  <2>3. BeforeRun' /\ LogIsComplete'
    BY <2>1, <2>2 DEF BeforeRun, LogIsComplete, readerVars
  <2> QED
    BY <1>0, <1>1, <2>1, <2>2, <2>3
<1>6. CASE RunLog
  <2>1. /\ AppendLogLine /\ status # "final" /\ UNCHANGED <<status, writer, fileThere>>
        /\ writer = "lines"
    BY <1>6 DEF RunLog, IInv, LogIsComplete
  <2>2. BeforeRun'
    BY <2>1 DEF BeforeRun
  <2> QED
    BY <1>0, <2>1, <2>2, AppendKeepsIInv
<1>7. CASE RunFinish
  <2>1. /\ writer' = "end" /\ UNCHANGED <<line, torn, fileThere, file>>
        /\ status' \in {"final", status} /\ status # "final" /\ ~terminal
    BY <1>7 DEF RunFinish, IInv, LogIsComplete
  <2>2. BeforeRun' /\ LogIsComplete'
    BY <2>1 DEF BeforeRun, LogIsComplete, readerVars
  <2> QED
    BY <1>0, <1>1, <2>1, <2>2
<1> QED
  BY <1>2, <1>3, <1>4, <1>5, <1>6, <1>7 DEF Writer

\* A step of the handler's that neither reads nor sends.
LEMMA TurnKeepsIInv ==
  ASSUME IInv, UNCHANGED writerVars,
         \/ Connect \/ OpenLog \/ OpenFails \/ RetryGivesUp \/ CheckAgain \/ Leave
  PROVE  IInv'
<1>1. PiecesAdjoin' /\ BeforeRun'
  BY DEF IInv, PiecesAdjoin, BeforeRun, writerVars
<1>2. file \in Seq(Pieces) /\ Len(file) \in Nat /\ 0 \in 0..Len(file)
  <2>1. file \in Seq(Pieces)
    BY DEF IInv, TypeOK
  <2> QED
    BY <2>1, LenProperties
<1>3. <<>> \in Seq(Pieces) /\ <<>> \in Seq(Seq(Pieces))
  BY EmptySeq
<1>4. CASE Connect \/ Leave
  <2>1. /\ reader' \in {"idle", "open"} /\ pos' = 0 /\ partial' = <<>> /\ events' = <<>>
        /\ terminal' \in BOOLEAN /\ (terminal' => status = "final")
    BY <1>4 DEF Connect, Leave, HangUp
  <2>2. Position' /\ Received'
    BY <2>1, NothingReceived
  <2>3. TypeOK'
    BY <1>2, <1>3, <2>1 DEF IInv, TypeOK, writerVars
  <2>4. LogIsComplete'
    BY <2>1 DEF IInv, LogIsComplete, writerVars
  <2> QED
    BY <1>1, <2>2, <2>3, <2>4 DEF IInv
<1>5. CASE OpenFails \/ RetryGivesUp
  <2>1. /\ reader \in {"open", "retry"} /\ reader' \in {"removed", "retry", "given up"}
        /\ UNCHANGED <<terminal, pos, partial, events>>
    BY <1>5 DEF OpenFails, RetryGivesUp
  <2>2. pos = 0 /\ partial = <<>> /\ events = <<>>
    BY <2>1 DEF IInv, Position, Opened
  <2>3. Position' /\ Received'
    BY <2>1, <2>2, NothingReceived
  <2>4. TypeOK' /\ LogIsComplete'
    BY <2>1 DEF IInv, TypeOK, LogIsComplete, writerVars
  <2> QED
    BY <1>1, <2>3, <2>4 DEF IInv
<1>6. CASE OpenLog
  <2>1. /\ reader \in {"open", "retry"} /\ reader' = "read"
        /\ UNCHANGED <<terminal, pos, partial, events>> /\ Opened'
    BY <1>6 DEF OpenLog, Opened
  <2>2. pos = 0 /\ partial = <<>> /\ events = <<>>
    BY <2>1 DEF IInv, Position, Opened
  <2>3. Position'
    BY <2>1 DEF IInv, Position
  <2>4. Received'
    BY <2>1, <2>2 DEF IInv, Received, Sent, writerVars
  <2>5. TypeOK' /\ LogIsComplete'
    BY <2>1 DEF IInv, TypeOK, LogIsComplete, writerVars
  <2> QED
    BY <1>1, <2>3, <2>4, <2>5 DEF IInv
<1>7. CASE CheckAgain
  <2>1. /\ reader = "check" /\ reader' = "read" /\ partial' = <<>> /\ ~terminal
        /\ UNCHANGED <<terminal, pos, events>> /\ Opened' /\ Sent' = Sent
    BY <1>7 DEF CheckAgain, Opened, Sent, IInv, LogIsComplete
  <2>2. Position'
    BY <2>1, LineEndsOfEmpty, OneLineOfEmpty DEF Position
  <2>3. Received'
    BY <2>1 DEF IInv, Received, writerVars
  <2>4. TypeOK' /\ LogIsComplete'
    BY <1>3, <2>1 DEF IInv, TypeOK, LogIsComplete, writerVars
  <2> QED
    BY <1>1, <2>2, <2>3, <2>4 DEF IInv
<1> QED
  BY <1>4, <1>5, <1>6, <1>7

LEMMA CrashKeepsIInv == IInv /\ CrashAndBoot => IInv'
<1> SUFFICES ASSUME IInv, CrashAndBoot PROVE IInv'
  OBVIOUS
<1> USE DEF CrashAndBoot, HangUp
<1>1. PiecesAdjoin' /\ BeforeRun'
  BY DEF IInv, PiecesAdjoin, BeforeRun
<1>2. /\ file \in Seq(Pieces) /\ Len(file) \in Nat /\ 0 \in 0..Len(file)
      /\ <<>> \in Seq(Pieces) /\ <<>> \in Seq(Seq(Pieces))
  <2>1. file \in Seq(Pieces)
    BY DEF IInv, TypeOK
  <2> QED
    BY <2>1, LenProperties, EmptySeq
<1>3. Position' /\ Received'
  BY NothingReceived
<1>4. TypeOK'
  BY <1>2 DEF IInv, TypeOK
<1>5. LogIsComplete'
  BY DEF LogIsComplete
<1> QED
  BY <1>1, <1>3, <1>4, <1>5 DEF IInv

LEMMA ReapKeepsIInv == IInv /\ Reap /\ UNCHANGED readerVars => IInv'
<1> SUFFICES ASSUME IInv, Reap, UNCHANGED readerVars PROVE IInv'
  OBVIOUS
<1>1. TypeOK' /\ PiecesAdjoin' /\ BeforeRun' /\ LogIsComplete'
  <2>1. UNCHANGED <<status, writer, line, torn, file>> /\ fileThere' = FALSE
    BY DEF Reap
  <2>2. UNCHANGED <<reader, terminal, pos, partial, events>>
    BY DEF readerVars
  <2>3. TypeOK'
    BY <2>1, <2>2 DEF IInv, TypeOK
  <2>4. PiecesAdjoin'
    BY <2>1 DEF IInv, PiecesAdjoin
  <2>5. BeforeRun'
    BY <2>1 DEF IInv, BeforeRun
  <2>6. LogIsComplete'
    BY <2>1, <2>2 DEF IInv, LogIsComplete
  <2> QED
    BY <2>3, <2>4, <2>5, <2>6
<1>2. Sent' = Sent /\ (Opened' <=> Opened) /\ file' = file
  BY DEF Reap, readerVars, Sent, Opened
<1>3. Position' /\ Received'
  BY <1>2 DEF IInv, Position, Received, readerVars
<1> QED
  BY <1>1, <1>3 DEF IInv

LEMMA StutterKeepsIInv == IInv /\ UNCHANGED vars => IInv'
<1> SUFFICES ASSUME IInv, UNCHANGED vars PROVE IInv'
  OBVIOUS
<1>1. TypeOK' /\ PiecesAdjoin' /\ BeforeRun' /\ LogIsComplete'
  <2>1. /\ UNCHANGED <<status, writer, line, torn, fileThere, file>>
        /\ UNCHANGED <<reader, terminal, pos, partial, events>>
    BY DEF vars, readerVars, writerVars
  <2>2. TypeOK'
    <3>1. TypeOK
      BY DEF IInv
    <3>2. /\ status' \in {"none", "queued", "running", "final"} /\ line' \in Nat
          /\ writer' \in {"insert", "first", "open", "refused", "mark", "lines", "end", "gone"}
          /\ torn' \in BOOLEAN /\ fileThere' \in BOOLEAN /\ file' \in Seq(Pieces)
      BY <2>1, <3>1 DEF TypeOK
    <3>3. /\ reader' \in {"idle", "open", "retry", "removed", "given up", "read", "check", "done"}
          /\ terminal' \in BOOLEAN /\ pos' \in 0..Len(file')
          /\ partial' \in Seq(Pieces) /\ events' \in Seq(Seq(Pieces))
      BY <2>1, <3>1 DEF TypeOK
    <3> QED
      BY <3>2, <3>3 DEF TypeOK
  <2>3. PiecesAdjoin'
    BY <2>1 DEF IInv, PiecesAdjoin
  <2>4. BeforeRun' /\ LogIsComplete'
    BY <2>1 DEF IInv, BeforeRun, LogIsComplete
  <2> QED
    BY <2>2, <2>3, <2>4
<1>2. Sent' = Sent /\ (Opened' <=> Opened) /\ file' = file /\ UNCHANGED readerVars
  BY DEF vars, writerVars, readerVars, Sent, Opened
<1>3. Position' /\ Received'
  BY <1>2 DEF IInv, Position, Received, readerVars
<1> QED
  BY <1>1, <1>3 DEF IInv

LEMMA NextIInv == IInv /\ [Next]_vars => IInv'
<1> SUFFICES ASSUME IInv, [Next]_vars PROVE IInv'
  OBVIOUS
<1>1. CASE Writer /\ UNCHANGED readerVars
  BY <1>1, WriterKeepsIInv
<1>2. CASE (Connect \/ Reader \/ Leave) /\ UNCHANGED writerVars
  BY <1>2, ReadLineKeepsIInv, ReadEOFKeepsIInv, CheckFinalKeepsIInv, TurnKeepsIInv DEF Reader
<1>3. CASE CrashAndBoot
  BY <1>3, CrashKeepsIInv
<1>4. CASE Reap /\ UNCHANGED readerVars
  BY <1>4, ReapKeepsIInv
<1>5. CASE UNCHANGED vars
  BY <1>5, StutterKeepsIInv
<1> QED
  BY <1>1, <1>2, <1>3, <1>4, <1>5 DEF Next

\* IInv holds in every behaviour.
LEMMA Inductive == Spec => []IInv
  BY InitIInv, NextIInv, PTL DEF Spec

\* A client receives every line it has been read past exactly once, in order
\* and in an event of its own, for any number of lines and however the reads
\* fall between the appends (jobs.go:153-188).
THEOREM FollowsTheFile == Spec => []StreamFollowsFile
<1>1. IInv => StreamFollowsFile
  BY DEF IInv, Received, StreamFollowsFile, OneLine
<1> QED
  BY Inductive, <1>1, PTL

\* A client that connects when the job has ended receives the whole file, also
\* after a crash inside a line (executor.go:119-129, jobs.go:169-180).
THEOREM LateReadersSeeAll == Spec => []LateReaderSeesAll
<1>1. IInv => LateReaderSeesAll
  <2> SUFFICES ASSUME IInv, reader = "done", terminal PROVE Sent = file
    BY DEF LateReaderSeesAll
  <2>1. pos = Len(file) /\ partial = <<>> /\ Sent \o partial = SubSeq(file, 1, pos)
    BY DEF IInv, Position, Received
  <2>2. file \in Seq(Pieces) /\ events \in Seq(Seq(Pieces)) /\ <<>> \in Seq(Pieces)
    BY EmptySeq DEF IInv, TypeOK
  <2>3. Sent \in Seq(Pieces)
    BY <2>2, FlattenAppend DEF Sent
  <2>4. Sent \o <<>> = Sent
    BY <2>3, ConcatEmptySeq
  <2>5. SubSeq(file, 1, Len(file)) = file
    BY <2>2, SubSeqFull
  <2> QED
    BY <2>1, <2>4, <2>5
<1> QED
  BY Inductive, <1>1, PTL

====
