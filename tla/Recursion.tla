------------------------------ MODULE Recursion ------------------------------
(***************************************************************************)
(* Induction over positions, functions defined by recursion over them, and *)
(* flattened sequences: what the proofs about the relays of a bridge and   *)
(* about the line editor share.                                            *)
(***************************************************************************)
EXTENDS SequencesExt, SequenceTheorems, WellFoundedInduction, TLAPS

(* A set that holds zero, and with every number the next one, up to N      *)
LEMMA Upward ==
  ASSUME NEW N \in Nat, NEW S, 0 \in S, \A n \in 1 .. N : n - 1 \in S => n \in S
  PROVE  0 .. N \subseteq S
<1> DEFINE T == {n \in 0 .. N : n \notin S}
<1>1. SUFFICES ASSUME T # {} PROVE FALSE
  OBVIOUS
<1>2. \A j, k \in Nat : <<j, k>> \in OpToRel(<, Nat) <=> j < k
  BY DEF OpToRel
<1>3. PICK n \in T : \A k \in T : ~ k < n
  <2>1. T \subseteq Nat
    OBVIOUS
  <2>2. IsWellFoundedOn(OpToRel(<, Nat), Nat)
    BY NatLessThanWellFounded
  <2> HIDE DEF T
  <2>3. \E n \in T : \A k \in T : <<k, n>> \notin OpToRel(<, Nat)
    BY <1>1, <2>1, <2>2, WFMin
  <2> QED
    BY <1>2, <2>1, <2>3
<1>4. n \in 1 .. N
  OBVIOUS
<1>5. n - 1 \in 0 .. N /\ n - 1 < n
  BY <1>4
<1> QED
  BY <1>3, <1>4, <1>5

(* f is the function that starts with b and gets its value at n from its   *)
(* value at n - 1 by g.                                                    *)
Recurrence(f, N, b, g) == f[0] = b /\ \A n \in 1 .. N : f[n] = g[<<n, f[n - 1]>>]

(* There is such a function.                                               *)
LEMMA Recurs ==
  ASSUME NEW N \in Nat, NEW V, NEW b \in V, NEW g \in [(1 .. N) \X V -> V]
  PROVE  \E f \in [0 .. N -> V] : Recurrence(f, N, b, g)
<1> USE DEF Recurrence
<1> DEFINE Run(f, n) == Recurrence(f, n, b, g)
           S == {n \in 0 .. N : \E f \in [0 .. n -> V] : Run(f, n)}
<1>1. 0 \in S
  <2> DEFINE f == [k \in 0 .. 0 |-> b]
  <2>1. f \in [0 .. 0 -> V] /\ Run(f, 0)
    OBVIOUS
  <2> HIDE DEF f, Run
  <2>2. 0 \in 0 .. N /\ \E h \in [0 .. 0 -> V] : Run(h, 0)
    BY <2>1
  <2> QED
    BY <2>2
<1>2. ASSUME NEW n \in 1 .. N, n - 1 \in S PROVE n \in S
  <2>1. PICK f \in [0 .. n - 1 -> V] : Run(f, n - 1)
    BY <1>2
  <2>2. n \in Nat /\ n - 1 \in 0 .. n - 1 /\ n \in 1 .. N
    OBVIOUS
  <2>3. f[n - 1] \in V
    BY <2>2
  <2>4. g[<<n, f[n - 1]>>] \in V
    BY <2>2, <2>3
  <2> DEFINE new == g[<<n, f[n - 1]>>]
             h == [k \in 0 .. n |-> IF k = n THEN new ELSE f[k]]
  <2>5. h \in [0 .. n -> V]
    <3> HIDE DEF new
    <3>1. new \in V
      BY <2>4 DEF new
    <3>2. \A k \in 0 .. n : k # n => k \in 0 .. n - 1
      OBVIOUS
    <3> QED
      BY <3>1, <3>2
  <2>6. ASSUME NEW k \in 1 .. n PROVE h[k] = g[<<k, h[k - 1]>>]
    <3>1. h[k - 1] = f[k - 1]
      OBVIOUS
    <3>2. CASE k = n
      <4>1. h[k] = new /\ h[k - 1] = f[n - 1]
        BY <3>1, <3>2
      <4> QED
        BY <3>2, <4>1
    <3>3. CASE k # n
      <4>1. k \in 1 .. n - 1
        BY <3>3
      <4>2. f[k] = g[<<k, f[k - 1]>>]
        BY <2>1, <4>1
      <4>3. h[k] = f[k]
        BY <3>3
      <4> QED
        BY <3>1, <4>2, <4>3
    <3> QED
      BY <3>2, <3>3
  <2>7. h[0] = b
    BY <2>1, <2>2
  <2> HIDE DEF h
  <2>8. Run(h, n)
    BY <2>6, <2>7
  <2> QED
    BY <2>2, <2>5, <2>8
<1>3. N \in S
  <2> HIDE DEF S
  <2>1. 0 .. N \subseteq S
    BY <1>1, <1>2, Upward
  <2> QED
    BY <2>1
<1> HIDE DEF Recurrence
<1> QED
  BY <1>3

(* Two functions with one recurrence are one.                              *)
InStep(f, h, N) == f[0] = h[0] /\ \A n \in 1 .. N : f[n - 1] = h[n - 1] => f[n] = h[n]
Same(f, h, N) == \A n \in 0 .. N : f[n] = h[n]

LEMMA Agree ==
  ASSUME NEW N \in Nat, NEW f, NEW h, InStep(f, h, N)
  PROVE  Same(f, h, N)
<1> DEFINE S == {n \in 0 .. N : f[n] = h[n]}
<1>1. 0 \in S /\ \A n \in 1 .. N : n - 1 \in S => n \in S
  BY DEF InStep
<1> HIDE DEF S
<1>2. 0 .. N \subseteq S
  BY <1>1, Upward
<1> QED
  BY <1>2 DEF S, Same

-----------------------------------------------------------------------------
(* Pieces of sequences *)

(* Concatenation is associative.                                           *)
LEMMA Threefold ==
  ASSUME NEW X, NEW a \in Seq(X), NEW b \in Seq(X), NEW c \in Seq(X)
  PROVE  (a \o b) \o c = a \o (b \o c)
BY ConcatAssociative

LEMMA OneMore ==
  ASSUME NEW X, NEW p \in Seq(X), NEW x \in X
  PROVE  /\ p \o <<x>> \in Seq(X) /\ Len(p \o <<x>>) = Len(p) + 1
         /\ (p \o <<x>>)[Len(p) + 1] = x
         /\ \A j \in 1 .. Len(p) : (p \o <<x>>)[j] = p[j]
OBVIOUS

LEMMA TwoMore ==
  ASSUME NEW X, NEW p \in Seq(X), NEW x \in X, NEW y \in X
  PROVE  /\ p \o <<x, y>> \in Seq(X)
         /\ (p \o <<x>>) \o <<y>> = p \o <<x, y>>
<1>1. PICK u \in Seq(X), v \in Seq(X), w \in Seq(X) : u = <<x>> /\ v = <<y>> /\ w = <<x, y>>
  <2>1. <<x>> \in Seq(X)
    OBVIOUS
  <2>2. <<y>> \in Seq(X)
    OBVIOUS
  <2>3. <<x, y>> \in Seq(X)
    OBVIOUS
  <2> QED
    BY <2>1, <2>2, <2>3, Zenon
<1>2. /\ Len(u) = 1 /\ Len(v) = 1 /\ Len(w) = 2
      /\ u[1] = x /\ v[1] = y /\ w[1] = x /\ w[2] = y
  BY <1>1
<1>3. PICK z \in Seq(X) : z = u \o v
  BY ConcatProperties
<1>4. Len(z) = 2 /\ z[1] = x /\ z[2] = y
  <2>1. /\ Len(z) = Len(u) + Len(v)
        /\ \A j \in 1 .. Len(u) + Len(v) : z[j] = IF j <= Len(u) THEN u[j] ELSE v[j - Len(u)]
    BY <1>3, ConcatProperties
  <2> QED
    BY <1>2, <2>1
<1>5. z = w
  <2>1. \A j \in 1 .. 2 : z[j] = w[j]
    BY <1>2, <1>4
  <2> QED
    BY <1>2, <1>4, <2>1, SeqEqual
<1>6. (p \o u) \o v = p \o (u \o v)
  BY ConcatAssociative
<1>7. p \o w \in Seq(X)
  BY ConcatProperties
<1> QED
  BY <1>1, <1>3, <1>5, <1>6, <1>7

LEMMA Slice ==
  ASSUME NEW X, NEW s \in Seq(X), NEW m \in Nat, NEW n \in Nat, m <= n, n <= Len(s)
  PROVE  /\ SubSeq(s, m + 1, n) \in Seq(X) /\ Len(SubSeq(s, m + 1, n)) = n - m
         /\ \A j \in 1 .. n - m : SubSeq(s, m + 1, n)[j] = s[m + j]
OBVIOUS

LEMMA Start ==
  ASSUME NEW X, NEW s \in Seq(X), NEW n \in Nat, n <= Len(s)
  PROVE  /\ SubSeq(s, 1, n) \in Seq(X) /\ Len(SubSeq(s, 1, n)) = n
         /\ \A j \in 1 .. n : SubSeq(s, 1, n)[j] = s[j]
OBVIOUS

(* Around the i-th element of a sequence                                   *)
LEMMA Around ==
  ASSUME NEW X, NEW p \in Seq(X), NEW x \in X, NEW q \in Seq(X), NEW l \in Seq(X), NEW i \in Nat,
         l = p \o <<x>> \o q, i = Len(p) + 1
  PROVE  /\ Len(l) = Len(p) + 1 + Len(q) /\ l[i] = x
         /\ SubSeq(l, 1, i - 1) = p
         /\ SubSeq(l, 1, i) = p \o <<x>>
         /\ SubSeq(l, i + 1, Len(l)) = q
<1>1. PICK a \in Nat, b \in Nat : a = Len(p) /\ b = Len(q) /\ i = a + 1
  OBVIOUS
<1>2. PICK r \in Seq(X) : r = p \o <<x>>
  BY OneMore
<1>3. Len(r) = i /\ r[i] = x /\ \A j \in 1 .. a : r[j] = p[j]
  BY <1>1, <1>2, OneMore
<1>4. Len(l) = i + b /\ \A j \in 1 .. i + b : l[j] = IF j <= i THEN r[j] ELSE q[j - i]
  <2>1. PICK z : z = r \o q
    OBVIOUS
  <2>2. /\ Len(z) = Len(r) + Len(q)
        /\ \A j \in 1 .. Len(r) + Len(q) : z[j] = IF j <= Len(r) THEN r[j] ELSE q[j - Len(r)]
    BY <2>1, ConcatProperties
  <2>3. l = z
    BY <1>2, <2>1
  <2> QED
    BY <1>1, <1>3, <2>2, <2>3
<1>5. l[i] = x
  BY <1>1, <1>3, <1>4
<1>6. SubSeq(l, 1, a) = p
  <2>1. PICK u : u = SubSeq(l, 1, a)
    OBVIOUS
  <2>2. u \in Seq(X) /\ Len(u) = a /\ \A j \in 1 .. a : u[j] = l[j]
    BY <1>1, <1>4, <2>1, Start
  <2>3. \A j \in 1 .. a : u[j] = p[j]
    BY <1>1, <1>3, <1>4, <2>2
  <2>4. u = p
    BY <1>1, <2>2, <2>3, SeqEqual
  <2> QED
    BY <2>1, <2>4
<1>7. SubSeq(l, 1, i) = r
  <2>1. PICK u : u = SubSeq(l, 1, i)
    OBVIOUS
  <2>2. u \in Seq(X) /\ Len(u) = i /\ \A j \in 1 .. i : u[j] = l[j]
    BY <1>1, <1>4, <2>1, Start
  <2>3. \A j \in 1 .. i : u[j] = r[j]
    <3> TAKE j \in 1 .. i
    <3>1. j \in 1 .. i + b /\ j <= i
      BY <1>1
    <3> QED
      BY <1>4, <2>2, <3>1
  <2>4. u = r
    BY <1>3, <2>2, <2>3, SeqEqual
  <2> QED
    BY <2>1, <2>4
<1>8. SubSeq(l, i + 1, i + b) = q
  <2>1. PICK u : u = SubSeq(l, i + 1, i + b)
    OBVIOUS
  <2>2. PICK n \in Nat : n = i + b /\ i <= n /\ n <= Len(l) /\ n - i = b
    BY <1>1, <1>4
  <2>3. u \in Seq(X) /\ Len(u) = n - i /\ \A j \in 1 .. n - i : u[j] = l[i + j]
    <3>1. u = SubSeq(l, i + 1, n)
      BY <2>1, <2>2
    <3>2. SubSeq(l, i + 1, n) \in Seq(X)
      BY <2>2, Slice
    <3>3. Len(SubSeq(l, i + 1, n)) = n - i
      BY <2>2, Slice
    <3>4. \A j \in 1 .. n - i : SubSeq(l, i + 1, n)[j] = l[i + j]
      BY <2>2, Slice
    <3> QED
      BY <3>1, <3>2, <3>3, <3>4
  <2>4. \A j \in 1 .. b : u[j] = q[j]
    <3> TAKE j \in 1 .. b
    <3>1. i + j \in 1 .. i + b /\ ~ i + j <= i /\ i + j - i = j
      BY <1>1
    <3>2. u[j] = l[i + j]
      BY <2>2, <2>3
    <3>3. PICK k \in 1 .. i + b : k = i + j /\ ~ k <= i /\ k - i = j
      BY <3>1
    <3>4. l[k] = q[k - i]
      BY <1>4, <3>3
    <3> QED
      BY <3>2, <3>3, <3>4
  <2>5. u = q
    BY <1>1, <2>2, <2>3, <2>4, SeqEqual
  <2> QED
    BY <2>1, <2>5
<1>9. i - 1 = a /\ Len(l) = Len(p) + 1 + Len(q)
  BY <1>1, <1>4
<1> QED
  BY <1>2, <1>4, <1>5, <1>6, <1>7, <1>8, <1>9

-----------------------------------------------------------------------------
(* Flattened sequences *)

LEMMA FlatEmpty == FlattenSeq(<<>>) = <<>>
BY DEF FlattenSeq

(* The parts put together one after the other *)
LEMMA PartsTogether ==
  ASSUME NEW X, NEW s \in Seq(Seq(X))
  PROVE  \E f \in [0 .. Len(s) -> Seq(X)] :
           f[0] = <<>> /\ \A n \in 1 .. Len(s) : f[n] = f[n - 1] \o s[n]
<1> DEFINE N == Len(s)
           V == Seq(X)
           g == [p \in (1 .. N) \X V |-> p[2] \o s[p[1]]]
<1>1. g \in [(1 .. N) \X V -> V]
  OBVIOUS
<1>2. <<>> \in V /\ N \in Nat
  OBVIOUS
<1>3. PICK f \in [0 .. N -> V] : Recurrence(f, N, <<>>, g)
  <2> HIDE DEF g, N, V
  <2> QED
    BY <1>1, <1>2, Recurs
<1>4. ASSUME NEW n \in 1 .. N PROVE f[n] = f[n - 1] \o s[n]
  <2>1. f[n - 1] \in V
    OBVIOUS
  <2>2. <<n, f[n - 1]>> \in (1 .. N) \X V
    BY <2>1
  <2> QED
    BY <1>3, <2>2 DEF Recurrence
<1> QED
  BY <1>3, <1>4 DEF Recurrence

(* What FlattenSeq computes, part after part *)
LEMMA FlatRun ==
  ASSUME NEW X, NEW s \in Seq(Seq(X)), NEW f \in [0 .. Len(s) -> Seq(X)],
         f[0] = <<>>, \A n \in 1 .. Len(s) : f[n] = f[n - 1] \o s[n]
  PROVE  FlattenSeq(s) = f[Len(s)]
<1>1. CASE Len(s) = 0
  <2>1. s = <<>> /\ FlattenSeq(s) = s
    BY <1>1 DEF FlattenSeq
  <2> QED
    BY <1>1, <2>1
<1>2. CASE Len(s) # 0
  <2> DEFINE N == Len(s)
             R(u) == [i \in 1 .. N |-> IF i = 1 THEN s[i] ELSE u[i - 1] \o s[i]]
             flatten == CHOOSE u : u = R(u)
             h == [i \in 1 .. N |-> f[i]]
  <2>1. N \in Nat \ {0} /\ 1 \in 1 .. N
    BY <1>2
  <2>2. f[1] = s[1]
    <3>1. s[1] \in Seq(X)
      BY <2>1
    <3>2. <<>> \o s[1] = s[1]
      BY <3>1, ConcatEmptySeq
    <3>3. f[1] = f[1 - 1] \o s[1]
      BY <2>1
    <3> QED
      BY <3>2, <3>3
  <2>3. h = R(h)
    <3>1. ASSUME NEW i \in 1 .. N PROVE f[i] = IF i = 1 THEN s[i] ELSE h[i - 1] \o s[i]
      <4>1. CASE i = 1
        BY <2>2, <4>1
      <4>2. CASE i # 1
        <5>1. h[i - 1] = f[i - 1]
          BY <4>2
        <5>2. f[i] = f[i - 1] \o s[i]
          OBVIOUS
        <5> QED
          BY <4>2, <5>1, <5>2
      <4> QED
        BY <4>1, <4>2
    <3> QED
      BY <3>1
  <2>4. flatten = R(flatten)
    <3> HIDE DEF h
    <3> QED
      BY <2>3
  <2>5. FlattenSeq(s) = flatten[N]
    BY <1>2 DEF FlattenSeq
  <2> HIDE DEF flatten
  <2>6. PICK e : e = [i \in 0 .. N |-> IF i = 0 THEN <<>> ELSE flatten[i]]
    OBVIOUS
  <2>7. \A n \in 1 .. N : e[n - 1] = f[n - 1] => e[n] = f[n]
    <3> TAKE n \in 1 .. N
    <3>1. flatten[n] = IF n = 1 THEN s[n] ELSE flatten[n - 1] \o s[n]
      BY <2>4
    <3>2. e[n] = flatten[n] /\ (n # 1 => e[n - 1] = flatten[n - 1])
      BY <2>6
    <3>3. f[n] = f[n - 1] \o s[n]
      OBVIOUS
    <3> QED
      BY <2>2, <3>1, <3>2, <3>3
  <2>8. e[0] = f[0] /\ e[N] = flatten[N]
    BY <2>1, <2>6
  <2>9. Same(e, f, N)
    BY <2>1, <2>7, <2>8, Agree DEF InStep
  <2> QED
    BY <2>1, <2>5, <2>8, <2>9 DEF Same
<1> QED
  BY <1>1, <1>2

(* Flattening gives a sequence, one part more adds that part.              *)
LEMMA FlatAppend ==
  ASSUME NEW X, NEW s \in Seq(Seq(X)), NEW x \in Seq(X)
  PROVE  /\ FlattenSeq(s) \in Seq(X)
         /\ FlattenSeq(Append(s, x)) = FlattenSeq(s) \o x
<1> DEFINE t == Append(s, x)
           N == Len(s)
<1>1. /\ t \in Seq(Seq(X)) /\ N \in Nat /\ Len(t) = N + 1 /\ t[N + 1] = x
      /\ \A i \in 1 .. N : t[i] = s[i]
  OBVIOUS
<1> HIDE DEF t
<1>2. PICK f \in [0 .. Len(t) -> Seq(X)] :
        f[0] = <<>> /\ \A n \in 1 .. Len(t) : f[n] = f[n - 1] \o t[n]
  BY <1>1, PartsTogether
<1>3. FlattenSeq(t) = f[Len(t)]
  BY <1>1, <1>2, FlatRun
<1>4. PICK h : h = [n \in 0 .. N |-> f[n]]
  OBVIOUS
<1>5. h \in [0 .. N -> Seq(X)]
  BY <1>1, <1>4
<1>6. h[0] = <<>> /\ \A n \in 1 .. N : h[n] = h[n - 1] \o s[n]
  <2>1. h[0] = <<>>
    BY <1>1, <1>2, <1>4
  <2>2. ASSUME NEW n \in 1 .. N PROVE h[n] = h[n - 1] \o s[n]
    <3>1. n \in 1 .. Len(t) /\ n \in 0 .. N /\ n - 1 \in 0 .. N
      BY <1>1
    <3>2. f[n] = f[n - 1] \o t[n] /\ t[n] = s[n]
      BY <1>1, <1>2, <3>1
    <3>3. h[n] = f[n] /\ h[n - 1] = f[n - 1]
      BY <1>4, <3>1
    <3> QED
      BY <3>2, <3>3
  <2> QED
    BY <2>1, <2>2
<1>7. FlattenSeq(s) = h[N]
  BY <1>5, <1>6, FlatRun
<1>8. h[N] = f[N] /\ f[N] \in Seq(X) /\ f[N + 1] = f[N] \o x
  <2>1. N + 1 \in 1 .. Len(t) /\ N \in 0 .. N /\ N \in 0 .. Len(t) /\ N + 1 - 1 = N
    BY <1>1
  <2>2. PICK k \in 1 .. Len(t) : k = N + 1
    BY <2>1
  <2>3. f[k] = f[k - 1] \o t[k]
    BY <1>2
  <2>4. k - 1 = N
    BY <1>1, <2>2
  <2> QED
    BY <1>1, <1>4, <2>1, <2>2, <2>3, <2>4
<1> QED
  BY <1>1, <1>3, <1>7, <1>8 DEF t

(* The parts after the m-th and up to the n-th, flattened                  *)
Joined(s, m, n) == FlattenSeq(SubSeq(s, m + 1, n))

LEMMA JoinedType ==
  ASSUME NEW X, NEW s \in Seq(Seq(X)), NEW m \in Nat, NEW n \in Nat, n <= Len(s)
  PROVE  Joined(s, m, n) \in Seq(X)
<1>1. SubSeq(s, m + 1, n) \in Seq(Seq(X)) /\ <<>> \in Seq(X)
  OBVIOUS
<1> QED
  BY <1>1, FlatAppend DEF Joined

LEMMA JoinedNone ==
  ASSUME NEW s, NEW m \in Nat
  PROVE  Joined(s, m, m) = <<>>
<1>1. SubSeq(s, m + 1, m) = <<>>
  BY SubSeqEmpty
<1> QED
  BY <1>1, FlatEmpty DEF Joined

LEMMA JoinedNext ==
  ASSUME NEW X, NEW s \in Seq(Seq(X)), NEW m \in Nat, NEW n \in 1 .. Len(s), m < n
  PROVE  Joined(s, m, n) = Joined(s, m, n - 1) \o s[n]
<1>1. m + 1 \in 1 .. Len(s) /\ n \in m + 1 .. Len(s) /\ n - 1 \in Nat /\ n - 1 <= Len(s)
  OBVIOUS
<1>2. SubSeq(s, m + 1, n - 1) \in Seq(Seq(X))
  BY <1>1
<1>3. s[n] \in Seq(X)
  BY <1>1
<1>4. SubSeq(s, m + 1, n) = SubSeq(s, m + 1, n - 1) \o <<s[n]>>
  BY <1>1, SubSeqRecursiveSecond
<1>5. SubSeq(s, m + 1, n) = Append(SubSeq(s, m + 1, n - 1), s[n])
  BY <1>2, <1>3, <1>4, AppendIsConcat
<1>6. FlattenSeq(Append(SubSeq(s, m + 1, n - 1), s[n])) = FlattenSeq(SubSeq(s, m + 1, n - 1)) \o s[n]
  BY <1>2, <1>3, FlatAppend
<1> QED
  BY <1>5, <1>6 DEF Joined

LEMMA JoinedOnto ==
  ASSUME NEW X, NEW s \in Seq(Seq(X)), NEW m \in Nat, NEW n \in 1 .. Len(s), m < n, NEW w \in Seq(X)
  PROVE  w \o Joined(s, m, n) = (w \o Joined(s, m, n - 1)) \o s[n]
<1>1. n - 1 \in Nat /\ n - 1 <= Len(s) /\ s[n] \in Seq(X)
  OBVIOUS
<1>2. PICK y \in Seq(X), z \in Seq(X) : y = Joined(s, m, n - 1) /\ z = s[n]
  BY <1>1, JoinedType
<1>3. (w \o y) \o z = w \o (y \o z)
  BY Threefold
<1> QED
  BY <1>2, <1>3, JoinedNext

(* The parts up to the m-th and those after it                             *)
LEMMA JoinedSplit ==
  ASSUME NEW X, NEW s \in Seq(Seq(X)), NEW a \in Nat, NEW m \in Nat, NEW n \in Nat,
         a <= m, m <= n, n <= Len(s)
  PROVE  Joined(s, a, n) = Joined(s, a, m) \o Joined(s, m, n)
<1> DEFINE S == {k \in 0 .. n - m : Joined(s, a, m + k) = Joined(s, a, m) \o Joined(s, m, m + k)}
<1>1. Joined(s, a, m) \in Seq(X)
  BY JoinedType
<1>2. 0 \in S
  <2>1. Joined(s, m, m) = <<>>
    BY JoinedNone
  <2>2. Joined(s, a, m) = Joined(s, a, m) \o <<>>
    BY <1>1, ConcatEmptySeq
  <2>3. m + 0 = m /\ 0 \in 0 .. n - m
    OBVIOUS
  <2> QED
    BY <2>1, <2>2, <2>3
<1>3. ASSUME NEW k \in 1 .. n - m, k - 1 \in S PROVE k \in S
  <2>1. PICK l \in Nat : l = m + k
    OBVIOUS
  <2>2. l \in 1 .. Len(s) /\ m < l /\ a < l /\ l - 1 = m + (k - 1) /\ l - 1 \in Nat /\ l - 1 <= Len(s)
    BY <2>1
  <2>3. Joined(s, a, l) = Joined(s, a, l - 1) \o s[l]
    BY <2>2, JoinedNext
  <2>4. Joined(s, m, l) = Joined(s, m, l - 1) \o s[l]
    BY <2>2, JoinedNext
  <2>5. Joined(s, m, l - 1) \in Seq(X)
    BY <2>2, JoinedType
  <2>6. s[l] \in Seq(X)
    BY <2>2
  <2>7. Joined(s, a, l - 1) = Joined(s, a, m) \o Joined(s, m, l - 1)
    BY <1>3, <2>2
  <2>8. Joined(s, a, l) = Joined(s, a, m) \o (Joined(s, m, l - 1) \o s[l])
    <3>1. (Joined(s, a, m) \o Joined(s, m, l - 1)) \o s[l] = Joined(s, a, m) \o (Joined(s, m, l - 1) \o s[l])
      <4> DEFINE A == Joined(s, a, m)
                 B == Joined(s, m, l - 1)
                 C == s[l]
      <4>1. A \in Seq(X) /\ B \in Seq(X) /\ C \in Seq(X)
        BY <1>1, <2>5, <2>6
      <4> HIDE DEF A, B, C
      <4>2. (A \o B) \o C = A \o (B \o C)
        BY <4>1, ConcatAssociative
      <4> QED
        BY <4>2 DEF A, B, C
    <3> QED
      BY <2>3, <2>7, <3>1, Zenon
  <2>9. Joined(s, a, l) = Joined(s, a, m) \o Joined(s, m, l)
    BY <2>4, <2>8
  <2> QED
    BY <2>1, <2>9
<1>4. n - m \in S
  <2>1. n - m \in Nat
    OBVIOUS
  <2> HIDE DEF S
  <2>2. 0 .. n - m \subseteq S
    BY <1>2, <1>3, <2>1, Upward
  <2> QED
    BY <2>1, <2>2
<1>5. m + (n - m) = n
  OBVIOUS
<1> QED
  BY <1>4, <1>5

LEMMA JoinedOne ==
  ASSUME NEW X, NEW s \in Seq(Seq(X)), NEW n \in 1 .. Len(s)
  PROVE  Joined(s, n - 1, n) = s[n]
<1>1. PICK m \in Nat : m = n - 1 /\ m < n
  OBVIOUS
<1>2. Joined(s, m, n) = Joined(s, m, n - 1) \o s[n]
  BY <1>1, JoinedNext
<1>3. Joined(s, m, n - 1) = <<>>
  BY <1>1, JoinedNone
<1>4. s[n] \in Seq(X)
  OBVIOUS
<1>5. <<>> \o s[n] = s[n]
  BY <1>4, ConcatEmptySeq
<1> QED
  BY <1>1, <1>2, <1>3, <1>5
=============================================================================
