--------------------------- MODULE LoweringProofs ---------------------------
(* The graph the lowerer builds is one the verifier accepts, and its user      *)
(* lists match its edges one for one, for every program.                       *)
EXTENDS Lowering, FiniteSetTheorems, SequenceTheorems, WellFoundedInduction, TLAPS

-----------------------------------------------------------------------------
(* Induction, and functions defined by recursion on 0 .. n.                    *)

(* A set of naturals that holds 0 and every successor holds them all.          *)
LEMMA NatSetInduction ==
  ASSUME NEW T, 0 \in T, \A n \in Nat : n \in T => n + 1 \in T
  PROVE  Nat \subseteq T
<1> DEFINE R == {ss \in Nat \X Nat : ss[1] < ss[2]}
<1>1. IsWellFoundedOn(R, Nat)
  BY NatLessThanWellFounded DEF OpToRel
<1> SUFFICES ASSUME Nat \ T # {} PROVE FALSE
  OBVIOUS
<1>2. PICK x \in Nat \ T : \A y \in Nat \ T : ~ (<<y, x>> \in R)
  <2> HIDE DEF R
  <2> QED BY <1>1, WFMin
<1>3. x # 0 /\ x - 1 \in Nat /\ <<x - 1, x>> \in R
  OBVIOUS
<1>4. x - 1 \in T
  BY <1>2, <1>3
<1>5. (x - 1) + 1 \in T
  BY <1>3, <1>4
<1> QED BY <1>5

(* What holds at 0 and is kept from k - 1 to k holds up to n.                  *)
LEMMA UpTo ==
  ASSUME NEW n \in Nat, NEW T, 0 \in T, \A k \in 1 .. n : k - 1 \in T => k \in T
  PROVE  \A k \in 0 .. n : k \in T
<1> DEFINE U == {k \in Nat : k =< n => k \in T}
<1>1. 0 \in U
  OBVIOUS
<1>2. ASSUME NEW k \in Nat, k \in U PROVE k + 1 \in U
  <2> SUFFICES ASSUME k + 1 =< n PROVE k + 1 \in T
    OBVIOUS
  <2>1. k \in T /\ k + 1 \in 1 .. n /\ (k + 1) - 1 = k
    BY <1>2
  <2> QED BY <2>1
<1>3. Nat \subseteq U
  <2> HIDE DEF U
  <2> QED BY <1>1, <1>2, NatSetInduction
<1> QED BY <1>3

(* n steps from a base in T[0], where step k leads from T[k - 1] to T[k].      *)
Iteration(f, n, T, base, step) ==
  /\ f = [k \in 0 .. n |-> f[k]] /\ f[0] = base
  /\ \A k \in 1 .. n : f[k] = step[<<f[k - 1], k>>]
  /\ \A k \in 0 .. n : f[k] \in T[k]

LEMMA Iterates ==
  ASSUME NEW n \in Nat, NEW T, NEW base \in T[0], NEW step,
         \A k \in 1 .. n : \A s \in T[k - 1] : step[<<s, k>>] \in T[k]
  PROVE  \E f : Iteration(f, n, T, base, step)
<1> DEFINE U == {m \in 0 .. n : \E f : Iteration(f, m, T, base, step)}
<1>1. 0 \in U
  <2> DEFINE f == [k \in 0 .. 0 |-> base]
  <2>1. Iteration(f, 0, T, base, step)
    BY DEF Iteration
  <2> HIDE DEF f
  <2> QED BY <2>1
<1>2. ASSUME NEW m \in 1 .. n, m - 1 \in U PROVE m \in U
  <2>1. PICK f : Iteration(f, m - 1, T, base, step)
    BY <1>2
  <2> DEFINE h == [k \in 0 .. m |-> IF k < m THEN f[k] ELSE step[<<f[m - 1], m>>]]
  <2>2. h = [k \in 0 .. m |-> h[k]]
    OBVIOUS
  <2>3. \A k \in 0 .. m - 1 : h[k] = f[k] /\ h[k] \in T[k]
    BY <2>1 DEF Iteration
  <2>4. h[m] = step[<<f[m - 1], m>>] /\ f[m - 1] \in T[m - 1]
    BY <2>1 DEF Iteration
  <2> HIDE DEF h
  <2>5. h[m] = step[<<h[m - 1], m>>] /\ h[m] \in T[m]
    BY <2>3, <2>4
  <2>6. ASSUME NEW k \in 1 .. m - 1 PROVE h[k] = step[<<h[k - 1], k>>]
    <3>1. k \in 0 .. m - 1 /\ k - 1 \in 0 .. m - 1
      OBVIOUS
    <3>2. f[k] = step[<<f[k - 1], k>>]
      BY <2>1 DEF Iteration
    <3> QED BY <2>3, <3>1, <3>2
  <2>7. Iteration(h, m, T, base, step)
    <3>1. h[0] = base
      BY <2>1, <2>3 DEF Iteration
    <3>2. \A k \in 1 .. m : k = m \/ k \in 1 .. m - 1
      OBVIOUS
    <3>3. \A k \in 0 .. m : k = m \/ k \in 0 .. m - 1
      OBVIOUS
    <3>4. \A k \in 1 .. m : h[k] = step[<<h[k - 1], k>>]
      BY <2>5, <2>6, <3>2
    <3>5. \A k \in 0 .. m : h[k] \in T[k]
      BY <2>3, <2>5, <3>3
    <3> QED BY <2>2, <3>1, <3>4, <3>5 DEF Iteration
  <2> QED BY <2>7
<1>3. n \in U
  <2> HIDE DEF U
  <2> QED BY <1>1, <1>2, UpTo
<1> QED BY <1>3

-----------------------------------------------------------------------------
(* Counting edges.                                                             *)
One(x, y) == IF x = y THEN 1 ELSE 0
At(s, x) == {i \in DOMAIN s : s[i] = x}

(* A count is a natural number, 0 exactly when x is not there.                 *)
LEMMA CountType ==
  ASSUME NEW S, NEW s \in Seq(S), NEW x
  PROVE  /\ IsFiniteSet(At(s, x)) /\ EdgeCount(s, x) = Cardinality(At(s, x))
         /\ EdgeCount(s, x) \in Nat
         /\ EdgeCount(s, x) = 0 <=> \A i \in 1 .. Len(s) : s[i] # x
<1>1. DOMAIN s = 1 .. Len(s) /\ Len(s) \in Nat
  OBVIOUS
<1>2. IsFiniteSet(1 .. Len(s))
  BY <1>1, FS_Interval
<1>3. At(s, x) \subseteq 1 .. Len(s)
  BY <1>1 DEF At
<1>4. IsFiniteSet(At(s, x)) /\ EdgeCount(s, x) = Cardinality(At(s, x))
  BY <1>2, <1>3, FS_Subset DEF At, EdgeCount
<1>5. EdgeCount(s, x) \in Nat
  BY <1>4, FS_CardinalityType
<1>6. EdgeCount(s, x) = 0 <=> At(s, x) = {}
  BY <1>4, FS_EmptySet
<1>7. At(s, x) = {} <=> \A i \in 1 .. Len(s) : s[i] # x
  BY <1>1 DEF At
<1> QED BY <1>4, <1>5, <1>6, <1>7

LEMMA CountEmpty ==
  ASSUME NEW x
  PROVE  EdgeCount(<< >>, x) = 0
<1>1. At(<< >>, x) = {}
  BY DEF At
<1> QED BY <1>1, FS_EmptySet DEF At, EdgeCount

(* k copies of n.                                                              *)
LEMMA CountCopies ==
  ASSUME NEW S, NEW s \in Seq(S), NEW n \in S, NEW x, \A e \in 1 .. Len(s) : s[e] = n
  PROVE  EdgeCount(s, x) = IF x = n THEN Len(s) ELSE 0
<1> DEFINE k == Len(s)
<1>1. k \in Nat /\ DOMAIN s = 1 .. k /\ \A e \in 1 .. k : s[e] = n
  OBVIOUS
<1> HIDE DEF k
<1>2. EdgeCount(s, x) = Cardinality(At(s, x))
  BY DEF EdgeCount, At
<1>3. ASSUME x = n PROVE EdgeCount(s, x) = k
  <2>1. At(s, x) = 1 .. k
    BY <1>1, <1>3 DEF At
  <2>2. Cardinality(1 .. k) = IF 1 > k THEN 0 ELSE k - 1 + 1
    BY <1>1, FS_Interval
  <2>3. (IF 1 > k THEN 0 ELSE k - 1 + 1) = k
    BY <1>1
  <2> QED BY <1>2, <2>1, <2>2, <2>3
<1>4. ASSUME x # n PROVE EdgeCount(s, x) = 0
  <2>1. At(s, x) = {}
    BY <1>1, <1>4 DEF At
  <2> QED BY <1>2, <2>1, FS_EmptySet
<1>5. EdgeCount(s, x) = IF x = n THEN k ELSE 0
  BY <1>3, <1>4
<1> QED BY <1>5 DEF k

LEMMA CountConcat ==
  ASSUME NEW S, NEW s \in Seq(S), NEW t \in Seq(S), NEW x
  PROVE  EdgeCount(s \o t, x) = EdgeCount(s, x) + EdgeCount(t, x)
<1> DEFINE n == Len(s)
           A == At(s, x)
           B == At(t, x)
           C == {i \in n + 1 .. n + Len(t) : t[i - n] = x}
<1>1. n \in Nat /\ Len(t) \in Nat /\ DOMAIN s = 1 .. n /\ DOMAIN t = 1 .. Len(t)
  OBVIOUS
<1>2. /\ s \o t \in Seq(S) /\ DOMAIN (s \o t) = 1 .. n + Len(t)
      /\ \A i \in 1 .. n + Len(t) : (s \o t)[i] = IF i =< n THEN s[i] ELSE t[i - n]
  BY ConcatProperties, LenProperties
<1>3. At(s \o t, x) = A \cup C
  <2>1. ASSUME NEW i \in 1 .. n + Len(t)
        PROVE  (s \o t)[i] = x <=> i \in A \cup C
    <3>1. CASE i =< n
      BY <1>1, <1>2, <3>1 DEF At
    <3>2. CASE i > n
      <4>1. i \in n + 1 .. n + Len(t) /\ ~ i \in A /\ (s \o t)[i] = t[i - n]
        BY <1>1, <1>2, <3>2 DEF At
      <4> QED BY <4>1
    <3> QED BY <1>1, <3>1, <3>2
  <2>2. A \cup C \subseteq 1 .. n + Len(t)
    BY <1>1 DEF At
  <2> QED BY <1>2, <2>1, <2>2 DEF At
<1>4. A \cap C = {}
  BY <1>1 DEF At
<1>5. IsFiniteSet(A) /\ IsFiniteSet(B)
  BY CountType
<1>6. IsFiniteSet(C) /\ Cardinality(C) = Cardinality(B)
  <2> DEFINE f == [j \in B |-> n + j]
  <2>1. B \subseteq 1 .. Len(t) /\ \A j \in B : t[j] = x
    BY <1>1 DEF At
  <2>2. f \in [B -> C]
    <3>1. ASSUME NEW j \in B PROVE n + j \in C
      <4>1. j \in 1 .. Len(t) /\ (n + j) - n = j /\ n + j \in n + 1 .. n + Len(t)
        BY <1>1, <2>1
      <4> QED BY <2>1, <4>1
    <3> HIDE DEF B, C
    <3> QED BY <3>1
  <2>3. \A i, j \in B : f[i] = f[j] => i = j
    BY <1>1, <2>1
  <2>4. ASSUME NEW i \in C PROVE \E j \in B : f[j] = i
    <3>1. i - n \in 1 .. Len(t) /\ t[i - n] = x /\ n + (i - n) = i
      BY <1>1
    <3>2. i - n \in B
      BY <1>1, <3>1 DEF At
    <3> QED BY <3>1, <3>2
  <2>5. f \in Bijection(B, C)
    <3> HIDE DEF f, B, C
    <3> QED BY <2>2, <2>3, <2>4 DEF Bijection, Injection, Surjection, IsInjective
  <2>6. ExistsBijection(B, C)
    BY <2>5 DEF ExistsBijection
  <2> HIDE DEF f, B, C
  <2> QED BY <1>5, <2>6, FS_Bijection
<1>7. Cardinality(A \cup C) = Cardinality(A) + Cardinality(B)
  <2>1. Cardinality(A) \in Nat /\ Cardinality(C) \in Nat /\ Cardinality({}) = 0
    BY <1>5, <1>6, FS_CardinalityType, FS_EmptySet
  <2> HIDE DEF A, B, C
  <2>2. Cardinality(A \cup C) = Cardinality(A) + Cardinality(C) - Cardinality(A \cap C)
    BY <1>5, <1>6, FS_Union
  <2>3. Cardinality(A \cap C) = 0
    BY <1>4, <2>1
  <2>4. Cardinality(B) \in Nat /\ Cardinality(A) \in Nat /\ Cardinality(C) = Cardinality(B)
    BY <1>6, <2>1
  <2> QED BY <2>2, <2>3, <2>4
<1>8. EdgeCount(s \o t, x) = Cardinality(At(s \o t, x))
  BY DEF EdgeCount, At
<1>9. EdgeCount(s, x) = Cardinality(A) /\ EdgeCount(t, x) = Cardinality(B)
  BY DEF EdgeCount, At
<1> QED BY <1>3, <1>7, <1>8, <1>9

LEMMA CountAppend ==
  ASSUME NEW S, NEW s \in Seq(S), NEW v \in S, NEW x
  PROVE  EdgeCount(Append(s, v), x) = EdgeCount(s, x) + One(x, v)
<1> DEFINE t == Append(s, v)
           n == Len(s) + 1
<1>1. Len(s) \in Nat /\ DOMAIN s = 1 .. Len(s) /\ t \in Seq(S) /\ DOMAIN t = 1 .. n
      /\ t[n] = v /\ \A i \in 1 .. Len(s) : t[i] = s[i]
  OBVIOUS
<1>2. EdgeCount(t, x) = Cardinality(At(t, x))
  BY DEF EdgeCount, At
<1>3. IsFiniteSet(At(s, x)) /\ EdgeCount(s, x) = Cardinality(At(s, x)) /\ EdgeCount(s, x) \in Nat
  BY CountType
<1> HIDE DEF t
<1>4. At(t, x) = IF x = v THEN At(s, x) \cup {n} ELSE At(s, x)
  <2>1. DOMAIN t = DOMAIN s \cup {n}
    BY <1>1
  <2> QED BY <1>1, <2>1 DEF At
<1>5. n \notin At(s, x)
  BY <1>1 DEF At
<1>6. Cardinality(At(s, x) \cup {n}) = IF n \in At(s, x) THEN Cardinality(At(s, x)) ELSE Cardinality(At(s, x)) + 1
  BY <1>3, FS_AddElement
<1>7. EdgeCount(t, x) = EdgeCount(s, x) + One(x, v)
  BY <1>2, <1>3, <1>4, <1>5, <1>6 DEF One
<1> QED BY <1>7 DEF t

(* One entry overwritten; the last one dropped.                                *)
LEMMA CountExcept ==
  ASSUME NEW S, NEW s \in Seq(S), NEW i \in 1 .. Len(s), NEW v \in S, NEW x,
         NEW t \in Seq(S), Len(t) = Len(s), \A j \in 1 .. Len(s) : t[j] = IF j = i THEN v ELSE s[j]
  PROVE  EdgeCount(t, x) + One(x, s[i]) = EdgeCount(s, x) + One(x, v)
<1>1. t \in Seq(S) /\ DOMAIN t = DOMAIN s /\ i \in DOMAIN s /\ t[i] = v
      /\ \A j \in DOMAIN s : j # i => t[j] = s[j]
  BY LenProperties
<1>2. /\ IsFiniteSet(At(t, x)) /\ EdgeCount(t, x) = Cardinality(At(t, x)) /\ EdgeCount(t, x) \in Nat
      /\ IsFiniteSet(At(s, x)) /\ EdgeCount(s, x) = Cardinality(At(s, x)) /\ EdgeCount(s, x) \in Nat
  <2> QED BY <1>1, CountType
<1>3. At(t, x) \ {i} = At(s, x) \ {i}
  <2> QED BY <1>1 DEF At
<1>4. (i \in At(t, x) <=> x = v) /\ (i \in At(s, x) <=> x = s[i])
  <2> QED BY <1>1 DEF At
<1>5. /\ Cardinality(At(t, x) \ {i}) = Cardinality(At(t, x)) - One(x, v)
      /\ Cardinality(At(s, x) \ {i}) = Cardinality(At(s, x)) - One(x, s[i])
  <2>1. /\ Cardinality(At(t, x) \ {i}) = IF i \in At(t, x) THEN Cardinality(At(t, x)) - 1 ELSE Cardinality(At(t, x))
        /\ Cardinality(At(s, x) \ {i}) = IF i \in At(s, x) THEN Cardinality(At(s, x)) - 1 ELSE Cardinality(At(s, x))
    BY <1>2, FS_RemoveElement
  <2> QED BY <1>2, <1>4, <2>1 DEF One
<1>6. EdgeCount(t, x) + One(x, s[i]) = EdgeCount(s, x) + One(x, v)
  <2>1. One(x, v) \in Nat /\ One(x, s[i]) \in Nat
    BY DEF One
  <2>2. Cardinality(At(t, x)) - One(x, v) = Cardinality(At(s, x)) - One(x, s[i])
    BY <1>3, <1>5
  <2>3. Cardinality(At(t, x)) \in Nat /\ Cardinality(At(s, x)) \in Nat
    BY <1>2
  <2>4. Cardinality(At(t, x)) + One(x, s[i]) = Cardinality(At(s, x)) + One(x, v)
    <3> DEFINE a == Cardinality(At(t, x))
               b == One(x, v)
               c == Cardinality(At(s, x))
               d == One(x, s[i])
    <3>1. a \in Int /\ b \in Int /\ c \in Int /\ d \in Int /\ a - b = c - d
      BY <2>1, <2>2, <2>3
    <3> HIDE DEF a, b, c, d
    <3>2. a + d = c + b
      BY <3>1
    <3> QED BY <3>2 DEF a, b, c, d
  <2> QED BY <1>2, <2>4
<1> QED BY <1>6

LEMMA CountFront ==
  ASSUME NEW S, NEW s \in Seq(S), s # << >>, NEW x
  PROVE  /\ Front(s) \in Seq(S) /\ Len(Front(s)) = Len(s) - 1
         /\ \A i \in 1 .. Len(s) - 1 : Front(s)[i] = s[i]
         /\ EdgeCount(Front(s), x) + One(x, s[Len(s)]) = EdgeCount(s, x)
<1> DEFINE t == Front(s)
           n == Len(s)
<1>1. n \in Nat \ {0} /\ DOMAIN s = 1 .. n
  BY EmptySeq
<1>2. t \in Seq(S) /\ Len(t) = n - 1 /\ \A i \in 1 .. n - 1 : t[i] = s[i]
  <2>1. t = SubSeq(s, 1, n - 1)
    BY DEF Front
  <2>2. \A i \in 1 .. n - 1 : s[i] \in S
    BY <1>1, ElementOfSeq
  <2>3. \A i \in 1 .. n - 1 : 1 + i - 1 = i
    BY <1>1
  <2>4. /\ SubSeq(s, 1, n - 1) \in Seq(S)
        /\ Len(SubSeq(s, 1, n - 1)) = IF 1 =< n - 1 THEN (n - 1) - 1 + 1 ELSE 0
        /\ \A i \in 1 .. (n - 1) - 1 + 1 : SubSeq(s, 1, n - 1)[i] = s[1 + i - 1]
    BY <1>1, <2>2, SubSeqProperties
  <2>5. (n - 1) - 1 + 1 = n - 1 /\ (IF 1 =< n - 1 THEN (n - 1) - 1 + 1 ELSE 0) = n - 1
    BY <1>1
  <2> QED BY <2>1, <2>3, <2>4, <2>5
<1> HIDE DEF t, n
<1>3. At(t, x) = At(s, x) \ {n}
  <2>1. DOMAIN t = 1 .. n - 1 /\ 1 .. n - 1 = (1 .. n) \ {n}
    BY <1>1, <1>2, LenProperties
  <2> QED BY <1>1, <1>2, <2>1 DEF At
<1>4. n \in At(s, x) <=> x = s[n]
  BY <1>1 DEF At
<1>5. /\ EdgeCount(t, x) = Cardinality(At(t, x)) /\ EdgeCount(t, x) \in Nat
      /\ IsFiniteSet(At(s, x)) /\ EdgeCount(s, x) = Cardinality(At(s, x)) /\ EdgeCount(s, x) \in Nat
  BY <1>2, CountType
<1>6. Cardinality(At(s, x) \ {n}) = IF n \in At(s, x) THEN Cardinality(At(s, x)) - 1 ELSE Cardinality(At(s, x))
  BY <1>5, FS_RemoveElement
<1>7. EdgeCount(t, x) + One(x, s[n]) = EdgeCount(s, x)
  BY <1>3, <1>4, <1>5, <1>6 DEF One
<1> QED BY <1>2, <1>7 DEF t, n

(* A set of naturals has a least element.                                      *)
LEMMA LeastNat ==
  ASSUME NEW S, S \subseteq Nat, S # {}
  PROVE  \E x \in S : \A y \in S : x =< y
<1> DEFINE R == {ss \in Nat \X Nat : ss[1] < ss[2]}
<1>1. IsWellFoundedOn(R, Nat)
  BY NatLessThanWellFounded DEF OpToRel
<1>2. PICK x \in S : \A y \in S : ~ (<<y, x>> \in R)
  <2> HIDE DEF R
  <2> QED BY <1>1, WFMin
<1>3. ASSUME NEW y \in S PROVE x =< y
  <2>1. x \in Nat /\ y \in Nat /\ ~ (<<y, x>> \in R)
    BY <1>2
  <2> QED BY <2>1
<1> QED BY <1>3

(* OutputList::remove takes one entry equal to x out, if there is one.         *)
LEMMA CountDrop ==
  ASSUME NEW S, NEW s \in Seq(S), NEW x
  PROVE  /\ DropEntry(s, x) \in Seq(S)
         /\ EdgeCount(s, x) > 0 =>
              \A y : EdgeCount(DropEntry(s, x), y) + One(y, x) = EdgeCount(s, y)
<1> DEFINE at == {i \in DOMAIN s : s[i] = x}
           hole == CHOOSE i \in at : \A j \in at : i =< j
           n == Len(s)
           t == [s EXCEPT ![hole] = s[n]]
<1>0. n \in Nat /\ DOMAIN s = 1 .. n
  OBVIOUS
<1>1. CASE at = {}
  <2>1. DropEntry(s, x) = s
    BY <1>1 DEF DropEntry
  <2>2. EdgeCount(s, x) = 0
    BY <1>1, FS_EmptySet DEF EdgeCount
  <2> QED BY <2>1, <2>2
<1>2. CASE at # {}
  <2>1. hole \in 1 .. n /\ s[hole] = x
    <3>1. at \subseteq Nat
      BY <1>0
    <3>2. \E i \in at : \A j \in at : i =< j
      <4> HIDE DEF at
      <4> QED BY <1>2, <3>1, LeastNat
    <3>3. hole \in at
      <4> HIDE DEF at
      <4> QED BY <3>2
    <3> QED BY <1>0, <3>3
  <2>2. DropEntry(s, x) = Front(t)
    BY <1>2 DEF DropEntry, Last
  <2> HIDE DEF hole, at
  <2>3. n \in 1 .. n /\ s[n] \in S
    BY <1>0, <2>1, ElementOfSeq
  <2>4. t \in Seq(S) /\ Len(t) = n /\ t # << >> /\ t[n] = s[n]
    <3>1. t \in Seq(S) /\ Len(t) = n /\ \A j \in 1 .. n : t[j] = IF j = hole THEN s[n] ELSE s[j]
      BY <2>1, <2>3, ExceptSeq
    <3> HIDE DEF t
    <3> QED BY <1>0, <2>3, <3>1, EmptySeq
  <2>5. Front(t) \in Seq(S)
    <3> HIDE DEF t
    <3> QED BY <2>4, CountFront
  <2>6. ASSUME NEW y PROVE EdgeCount(Front(t), y) + One(y, x) = EdgeCount(s, y)
    <3>0. t \in Seq(S) /\ Len(t) = n /\ \A j \in 1 .. n : t[j] = IF j = hole THEN s[n] ELSE s[j]
      BY <2>1, <2>3, ExceptSeq
    <3> HIDE DEF t
    <3>1. EdgeCount(t, y) + One(y, s[hole]) = EdgeCount(s, y) + One(y, s[n])
      BY <2>1, <2>3, <3>0, CountExcept
    <3>2. EdgeCount(Front(t), y) + One(y, t[Len(t)]) = EdgeCount(t, y)
      BY <2>4, CountFront
    <3>3. EdgeCount(Front(t), y) \in Nat /\ EdgeCount(t, y) \in Nat /\ EdgeCount(s, y) \in Nat
          /\ One(y, x) \in Nat /\ One(y, s[n]) \in Nat
      BY <2>4, <2>5, CountType DEF One
    <3>4. EdgeCount(Front(t), y) + One(y, s[n]) + One(y, x) = EdgeCount(s, y) + One(y, s[n])
      BY <2>1, <2>4, <3>1, <3>2, <3>3
    <3> QED BY <3>3, <3>4
  <2> QED BY <2>2, <2>5, <2>6
<1> QED BY <1>1, <1>2

-----------------------------------------------------------------------------
(* The lowerer's graphs: live nodes with the inputs their kind takes, each a   *)
(* node or none, and a user list for each.                                     *)
Kinds == {"Start", "Constant", "Parameter", "Proj", "If", "Loop", "Region", "Phi",
          "CallAltered", "Return"} \cup UnaryKinds \cup BinaryKinds
Arity(k) == CASE k \in {"Start", "Constant", "Parameter"} -> 0
              [] k \in {"Proj"} \cup UnaryKinds -> 1
              [] k \in {"Phi", "CallAltered", "Return"} -> 3
              [] OTHER -> 2

NodeRecords == [kind : Kinds, val : Int, ins : Seq(Nat), dead : {FALSE}]
Lists == UNION {[1 .. k -> Seq(1 .. k)] : k \in Nat}
Linked(G) ==
  /\ G.outs \in [Ids(G) -> Seq(Ids(G))]
  /\ \A n \in Ids(G) : /\ Ins(G, n) \in Seq(0 .. Len(G.nodes))
                       /\ Len(Ins(G, n)) = Arity(Kind(G, n))
Graphs == {G \in [nodes : Seq(NodeRecords), outs : Lists] : Linked(G)}

(* Every edge has its user entry and every user entry its edge; and every call *)
(* has an effect input, unless it is dead code.                                *)
Matched(G) == \A m, u \in Ids(G) : EdgeCount(Users(G, m), u) = EdgeCount(Ins(G, u), m)
Chained(G) == \A n \in Ids(G) : Kind(G, n) = "CallAltered" => DeadCode \/ Ins(G, n)[2] # NoNode
Sound      == {G \in Graphs : Matched(G) /\ Chained(G)}

(* What no step of the lowerer undoes: a node keeps its kind, and a region its *)
(* inputs.                                                                     *)
Grown(G, H) ==
  /\ Len(G.nodes) =< Len(H.nodes)
  /\ \A n \in Ids(G) : /\ Kind(H, n) = Kind(G, n)
                       /\ Kind(G, n) = "Region" => Ins(H, n) = Ins(G, n)

LEMMA GraphFacts ==
  ASSUME NEW G \in Graphs
  PROVE  /\ Len(G.nodes) \in Nat /\ Ids(G) = 1 .. Len(G.nodes)
         /\ DOMAIN G.outs = Ids(G) /\ G.nodes \in Seq(NodeRecords)
         /\ G = [nodes |-> G.nodes, outs |-> G.outs]
         /\ \A n \in Ids(G) : /\ G.nodes[n] \in NodeRecords /\ Kind(G, n) \in Kinds
                              /\ Ins(G, n) \in Seq(0 .. Len(G.nodes)) /\ Len(Ins(G, n)) = Arity(Kind(G, n))
                              /\ Users(G, n) \in Seq(Ids(G))
<1>1. G.nodes \in Seq(NodeRecords) /\ Linked(G) /\ G = [nodes |-> G.nodes, outs |-> G.outs]
  BY DEF Graphs
<1>2. Len(G.nodes) \in Nat /\ Ids(G) = 1 .. Len(G.nodes) /\ DOMAIN G.outs = Ids(G)
  BY <1>1 DEF Ids, Linked
<1>3. ASSUME NEW n \in Ids(G)
      PROVE  /\ G.nodes[n] \in NodeRecords /\ Kind(G, n) \in Kinds
             /\ Ins(G, n) \in Seq(0 .. Len(G.nodes)) /\ Len(Ins(G, n)) = Arity(Kind(G, n))
             /\ Users(G, n) \in Seq(Ids(G))
  <2>1. G.nodes[n] \in NodeRecords
    BY <1>1, <1>2, ElementOfSeq
  <2>2. Kind(G, n) \in Kinds
    BY <2>1 DEF Kind, NodeRecords
  <2>3. Ins(G, n) \in Seq(0 .. Len(G.nodes)) /\ Len(Ins(G, n)) = Arity(Kind(G, n)) /\ Users(G, n) \in Seq(Ids(G))
    BY <1>1 DEF Linked, Users
  <2> QED BY <2>1, <2>2, <2>3
<1> QED BY <1>1, <1>2, <1>3

LEMMA WiderSeq ==
  ASSUME NEW S, NEW T, S \subseteq T, NEW s \in Seq(S)
  PROVE  s \in Seq(T)
  OBVIOUS

LEMMA CountsAreNat ==
  ASSUME NEW G \in Graphs, NEW m \in Ids(G), NEW u \in Ids(G)
  PROVE  EdgeCount(Users(G, m), u) \in Nat /\ EdgeCount(Ins(G, u), m) \in Nat
<1>1. Users(G, m) \in Seq(Ids(G)) /\ Ins(G, u) \in Seq(0 .. Len(G.nodes))
  BY GraphFacts
<1> QED BY <1>1, CountType

(* A graph is known by its parts.                                              *)
LEMMA GraphOf ==
  ASSUME NEW nodes \in Seq(NodeRecords), NEW outs,
         outs \in [1 .. Len(nodes) -> Seq(1 .. Len(nodes))],
         \A n \in 1 .. Len(nodes) : /\ nodes[n].ins \in Seq(0 .. Len(nodes))
                                    /\ Len(nodes[n].ins) = Arity(nodes[n].kind)
  PROVE  [nodes |-> nodes, outs |-> outs] \in Graphs
<1> DEFINE G == [nodes |-> nodes, outs |-> outs]
<1>1. G.nodes = nodes /\ G.outs = outs
  OBVIOUS
<1>2. Len(nodes) \in Nat
  OBVIOUS
<1>3. outs \in Lists
  BY <1>2 DEF Lists
<1>4. G \in [nodes : Seq(NodeRecords), outs : Lists]
  BY <1>3
<1> HIDE DEF G
<1>5. Linked(G)
  BY <1>1 DEF Linked, Ids, Ins, Kind
<1>6. G \in Graphs
  BY <1>4, <1>5 DEF Graphs
<1> QED BY <1>6 DEF G

(* A graph with other user lists.                                              *)
LEMMA WithLists ==
  ASSUME NEW G \in Graphs, NEW outs \in [Ids(G) -> Seq(Ids(G))]
  PROVE  [nodes |-> G.nodes, outs |-> outs] \in Graphs
<1>1. /\ Ids(G) = 1 .. Len(G.nodes) /\ G.nodes \in Seq(NodeRecords)
      /\ \A n \in Ids(G) : Ins(G, n) \in Seq(0 .. Len(G.nodes)) /\ Len(Ins(G, n)) = Arity(Kind(G, n))
  BY GraphFacts
<1> QED BY <1>1, GraphOf DEF Ins, Kind

(* Link and Unlink are about one entry of one user list.                       *)
Entry(m, u, in, n) == IF m = in /\ u = n THEN 1 ELSE 0

LEMMA LinkUses ==
  ASSUME NEW G \in Graphs, NEW n \in Ids(G), NEW in \in 0 .. Len(G.nodes)
  PROVE  /\ Link(G, n, in) \in Graphs /\ Link(G, n, in).nodes = G.nodes
         /\ \A m, u \in Ids(G) : EdgeCount(Users(Link(G, n, in), m), u)
                                   = EdgeCount(Users(G, m), u) + Entry(m, u, in, n)
<1> USE GraphFacts
<1> DEFINE H == Link(G, n, in)
<1>0. \A m, u \in Ids(G) : EdgeCount(Users(G, m), u) \in Nat
  BY CountType
<1>1. CASE in = NoNode
  <2>1. H = G
    BY <1>1 DEF Link
  <2>2. \A m, u \in Ids(G) : Entry(m, u, in, n) = 0
    BY <1>1 DEF NoNode, Entry
  <2> HIDE DEF H
  <2>3. H \in Graphs /\ H.nodes = G.nodes /\ \A m, u \in Ids(G) : EdgeCount(Users(H, m), u) = EdgeCount(Users(G, m), u) + Entry(m, u, in, n)
    BY <1>0, <2>1, <2>2
  <2> QED BY <2>3 DEF H
<1>2. CASE in # NoNode
  <2>1. in \in Ids(G) /\ Append(Users(G, in), n) \in Seq(Ids(G))
    BY <1>2 DEF NoNode
  <2>2. H = [G EXCEPT !.outs[in] = Append(Users(G, in), n)]
    BY <1>2, <2>1 DEF Link, Users
  <2> HIDE DEF H
  <2>3. /\ H \in Graphs /\ H.nodes = G.nodes
        /\ \A k \in Ids(G) : Users(H, k) = IF k = in THEN Append(Users(G, in), n) ELSE Users(G, k)
    <3> DEFINE s == Append(Users(G, in), n)
               outs == [G.outs EXCEPT ![in] = s]
    <3> HIDE DEF s
    <3>1. H = [nodes |-> G.nodes, outs |-> outs]
      <4>1. G = [nodes |-> G.nodes, outs |-> G.outs]
        OBVIOUS
      <4> QED BY <2>2, <4>1 DEF s
    <3>2. G.outs \in [Ids(G) -> Seq(Ids(G))]
      BY DEF Graphs, Linked
    <3>3. outs \in [Ids(G) -> Seq(Ids(G))]
      BY <2>1, <3>2 DEF s
    <3>4. \A k \in Ids(G) : outs[k] = IF k = in THEN s ELSE Users(G, k)
      BY <2>1, <3>2 DEF Users
    <3> HIDE DEF outs
    <3>5. H \in Graphs
      BY <3>1, <3>3, WithLists
    <3> QED BY <3>1, <3>4, <3>5 DEF Users, s
  <2>4. ASSUME NEW m \in Ids(G), NEW u \in Ids(G)
        PROVE  EdgeCount(Users(H, m), u) = EdgeCount(Users(G, m), u) + Entry(m, u, in, n)
    <3>1. CASE m = in
      <4>1. EdgeCount(Append(Users(G, m), n), u) = EdgeCount(Users(G, m), u) + One(u, n)
        BY CountAppend
      <4> QED BY <2>3, <3>1, <4>1 DEF One, Entry
    <3>2. CASE m # in
      BY <1>0, <2>3, <3>2 DEF Entry
    <3> QED BY <3>1, <3>2
  <2>5. H \in Graphs /\ H.nodes = G.nodes /\ \A m, u \in Ids(G) : EdgeCount(Users(H, m), u) = EdgeCount(Users(G, m), u) + Entry(m, u, in, n)
    BY <2>3, <2>4
  <2> QED BY <2>5 DEF H
<1> QED BY <1>1, <1>2

LEMMA UnlinkUses ==
  ASSUME NEW G \in Graphs, NEW n \in Ids(G), NEW in \in 0 .. Len(G.nodes),
         in # NoNode => EdgeCount(Users(G, in), n) > 0
  PROVE  /\ Unlink(G, n, in) \in Graphs /\ Unlink(G, n, in).nodes = G.nodes
         /\ \A m, u \in Ids(G) : EdgeCount(Users(Unlink(G, n, in), m), u) + Entry(m, u, in, n)
                                   = EdgeCount(Users(G, m), u)
<1> USE GraphFacts
<1> DEFINE H == Unlink(G, n, in)
<1>0. \A m, u \in Ids(G) : EdgeCount(Users(G, m), u) \in Nat
  BY CountType
<1>1. CASE in = NoNode
  <2>1. H = G
    BY <1>1 DEF Unlink
  <2>2. \A m, u \in Ids(G) : Entry(m, u, in, n) = 0
    BY <1>1 DEF NoNode, Entry
  <2> HIDE DEF H
  <2>3. H \in Graphs /\ H.nodes = G.nodes /\ \A m, u \in Ids(G) : EdgeCount(Users(H, m), u) + Entry(m, u, in, n) = EdgeCount(Users(G, m), u)
    BY <1>0, <2>1, <2>2
  <2> QED BY <2>3 DEF H
<1>2. CASE in # NoNode
  <2>1. in \in Ids(G) /\ DropEntry(Users(G, in), n) \in Seq(Ids(G))
    BY <1>2, CountDrop DEF NoNode
  <2>2. H = [G EXCEPT !.outs[in] = DropEntry(Users(G, in), n)]
    BY <1>2, <2>1 DEF Unlink, Users
  <2> HIDE DEF H
  <2>3. /\ H \in Graphs /\ H.nodes = G.nodes
        /\ \A k \in Ids(G) : Users(H, k) = IF k = in THEN DropEntry(Users(G, in), n) ELSE Users(G, k)
    <3> DEFINE s == DropEntry(Users(G, in), n)
               outs == [G.outs EXCEPT ![in] = s]
    <3> HIDE DEF s
    <3>1. H = [nodes |-> G.nodes, outs |-> outs]
      <4>1. G = [nodes |-> G.nodes, outs |-> G.outs]
        OBVIOUS
      <4> QED BY <2>2, <4>1 DEF s
    <3>2. G.outs \in [Ids(G) -> Seq(Ids(G))]
      BY DEF Graphs, Linked
    <3>3. outs \in [Ids(G) -> Seq(Ids(G))]
      BY <2>1, <3>2 DEF s
    <3>4. \A k \in Ids(G) : outs[k] = IF k = in THEN s ELSE Users(G, k)
      BY <2>1, <3>2 DEF Users
    <3> HIDE DEF outs
    <3>5. H \in Graphs
      BY <3>1, <3>3, WithLists
    <3> QED BY <3>1, <3>4, <3>5 DEF Users, s
  <2>4. ASSUME NEW m \in Ids(G), NEW u \in Ids(G)
        PROVE  EdgeCount(Users(H, m), u) + Entry(m, u, in, n) = EdgeCount(Users(G, m), u)
    <3>1. CASE m = in
      <4>1. EdgeCount(DropEntry(Users(G, m), n), u) + One(u, n) = EdgeCount(Users(G, m), u)
        BY <1>2, <3>1, CountDrop
      <4> QED BY <2>3, <3>1, <4>1 DEF One, Entry
    <3>2. CASE m # in
      BY <1>0, <2>3, <3>2 DEF Entry
    <3> QED BY <3>1, <3>2
  <2>5. H \in Graphs /\ H.nodes = G.nodes /\ \A m, u \in Ids(G) : EdgeCount(Users(H, m), u) + Entry(m, u, in, n) = EdgeCount(Users(G, m), u)
    BY <2>3, <2>4
  <2> QED BY <2>5 DEF H
<1> QED BY <1>1, <1>2

(* set_input moves one edge and the entry that goes with it.                   *)
LEMMA SetInputSound ==
  ASSUME NEW G \in Sound, NEW n \in Ids(G), NEW i \in 1 .. Arity(Kind(G, n)),
         NEW new \in 0 .. Len(G.nodes), Kind(G, n) \in {"Phi", "Loop"}
  PROVE  /\ SetInput(G, n, i, new) \in Sound /\ Grown(G, SetInput(G, n, i, new))
         /\ Len(SetInput(G, n, i, new).nodes) = Len(G.nodes)
<1>0. G \in Graphs /\ Matched(G) /\ Chained(G)
  BY DEF Sound
<1>f. /\ Len(G.nodes) \in Nat /\ Ids(G) = 1 .. Len(G.nodes)
      /\ DOMAIN G.outs = Ids(G) /\ G.nodes \in Seq(NodeRecords)
      /\ \A m \in Ids(G) : /\ G.nodes[m] \in NodeRecords /\ Kind(G, m) \in Kinds
                           /\ Ins(G, m) \in Seq(0 .. Len(G.nodes)) /\ Len(Ins(G, m)) = Arity(Kind(G, m))
                           /\ Users(G, m) \in Seq(Ids(G))
  BY <1>0, GraphFacts
<1>g. \A nodes : [G EXCEPT !.nodes = nodes] = [nodes |-> nodes, outs |-> G.outs]
  <2>1. PICK a, b : G = [nodes |-> a, outs |-> b]
    BY <1>0, GraphFacts
  <2> QED BY <2>1
<1>c. ASSUME NEW m
      PROVE  EdgeCount([Ins(G, n) EXCEPT ![i] = new], m) + One(m, Ins(G, n)[i]) = EdgeCount(Ins(G, n), m) + One(m, new)
  <2> DEFINE s == Ins(G, n)
             S == 0 .. Len(G.nodes)
             t == [s EXCEPT ![i] = new]
  <2>1. s \in Seq(S) /\ i \in 1 .. Len(s) /\ new \in S
    BY <1>f
  <2> HIDE DEF s, S
  <2>2. t \in Seq(S) /\ Len(t) = Len(s) /\ \A j \in 1 .. Len(s) : t[j] = IF j = i THEN new ELSE s[j]
    BY <2>1, ExceptSeq
  <2> HIDE DEF t
  <2>3. EdgeCount(t, m) + One(m, s[i]) = EdgeCount(s, m) + One(m, new)
    BY <2>1, <2>2, CountExcept
  <2> QED BY <2>3 DEF s, t
<1> USE <1>0, <1>f
<1> DEFINE old == Ins(G, n)[i]
           ins == [Ins(G, n) EXCEPT ![i] = new]
           H == [G EXCEPT !.nodes[n].ins[i] = new]
           K == Unlink(H, n, old)
           M == Link(K, n, new)
<1>1. i \in 1 .. Len(Ins(G, n)) /\ old \in 0 .. Len(G.nodes)
  BY ElementOfSeq
<1>2. CASE old = new
  <2>1. SetInput(G, n, i, new) = G
    BY <1>2 DEF SetInput
  <2> QED BY <2>1 DEF Grown
<1>3. CASE old # new
  <2>1. SetInput(G, n, i, new) = M
    BY <1>3 DEF SetInput
  <2>2. ins \in Seq(0 .. Len(G.nodes)) /\ Len(ins) = Arity(Kind(G, n))
    BY <1>1, ExceptSeq
  <2> DEFINE node == [G.nodes[n] EXCEPT !.ins = ins]
             nodes == [G.nodes EXCEPT ![n] = node]
  <2>3. H = [nodes |-> nodes, outs |-> G.outs]
    <3>1. H = [G EXCEPT !.nodes = nodes]
      BY DEF Ins
    <3> HIDE DEF H, nodes
    <3> QED BY <1>g, <3>1
  <2>31. node \in NodeRecords /\ node.kind = G.nodes[n].kind /\ node.ins = ins
    <3>1. ins \in Seq(Nat) /\ G.nodes[n] \in NodeRecords
      BY <2>2
    <3> HIDE DEF ins
    <3> QED BY <3>1 DEF NodeRecords
  <2>4. /\ H.nodes = nodes /\ H.outs = G.outs
        /\ Len(H.nodes) = Len(G.nodes) /\ H.nodes \in Seq(NodeRecords)
        /\ \A m \in Ids(G) : H.nodes[m] = IF m = n THEN node ELSE G.nodes[m]
    <3>1. H.nodes = nodes /\ H.outs = G.outs
      <4> HIDE DEF H, nodes
      <4> QED BY <2>3
    <3>2. nodes \in Seq(NodeRecords) /\ Len(nodes) = Len(G.nodes)
          /\ \A m \in 1 .. Len(G.nodes) : nodes[m] = IF m = n THEN node ELSE G.nodes[m]
      <4>1. G.nodes \in Seq(NodeRecords) /\ n \in 1 .. Len(G.nodes)
        OBVIOUS
      <4> HIDE DEF node
      <4> QED BY <2>31, <4>1, ExceptSeq
    <3> HIDE DEF H, nodes, node
    <3> QED BY <3>1, <3>2
  <2>5. /\ \A m \in Ids(G) : Kind(H, m) = Kind(G, m) /\ Ins(H, m) = IF m = n THEN ins ELSE Ins(G, m)
        /\ Ids(H) = Ids(G) /\ \A m \in Ids(G) : Users(H, m) = Users(G, m)
    <3> HIDE DEF H, ins, node, nodes
    <3> QED BY <2>31, <2>4 DEF Kind, Ins, Ids, Users
  <2>6. H \in Graphs
    <3>1. G.outs \in [Ids(G) -> Seq(Ids(G))]
      BY DEF Graphs, Linked
    <3>2. \A m \in Ids(G) : Ins(H, m) \in Seq(0 .. Len(G.nodes)) /\ Len(Ins(H, m)) = Arity(Kind(H, m))
      <4> HIDE DEF H, ins
      <4> QED BY <2>2, <2>5
    <3>3. \A m \in 1 .. Len(H.nodes) : H.nodes[m].ins \in Seq(0 .. Len(H.nodes)) /\ Len(H.nodes[m].ins) = Arity(H.nodes[m].kind)
      <4> HIDE DEF H, ins, node, nodes
      <4> QED BY <2>4, <3>2 DEF Ins, Kind
    <3>4. G.outs \in [1 .. Len(H.nodes) -> Seq(1 .. Len(H.nodes))]
      BY <2>4, <3>1
    <3>5. H = [nodes |-> H.nodes, outs |-> G.outs]
      BY <2>3, <2>4
    <3> HIDE DEF H, node, nodes
    <3>6. [nodes |-> H.nodes, outs |-> G.outs] \in Graphs
      BY <2>4, <3>3, <3>4, GraphOf
    <3> QED BY <3>5, <3>6
  <2>7. old # NoNode => EdgeCount(Users(H, old), n) > 0
    <3> SUFFICES ASSUME old # NoNode PROVE EdgeCount(Users(H, old), n) > 0
      OBVIOUS
    <3>1. old \in Ids(G)
      BY <1>1 DEF NoNode
    <3>2. EdgeCount(Ins(G, n), old) \in Nat /\ EdgeCount(Ins(G, n), old) # 0
      BY <1>1, CountType
    <3>3. Users(H, old) = Users(G, old) /\ EdgeCount(Users(G, old), n) = EdgeCount(Ins(G, n), old)
      BY <2>5, <3>1 DEF Matched
    <3> HIDE DEF H, old
    <3> QED BY <3>2, <3>3
  <2>8. /\ K \in Graphs /\ K.nodes = H.nodes
        /\ \A m, u \in Ids(G) : EdgeCount(Users(K, m), u) + Entry(m, u, old, n) = EdgeCount(Users(H, m), u)
    <3> HIDE DEF H, old
    <3>1. n \in Ids(H) /\ old \in 0 .. Len(H.nodes) /\ Ids(H) = Ids(G)
      BY <1>1, <2>4, <2>5
    <3>2. /\ Unlink(H, n, old) \in Graphs /\ Unlink(H, n, old).nodes = H.nodes
          /\ \A m, u \in Ids(H) : EdgeCount(Users(Unlink(H, n, old), m), u) + Entry(m, u, old, n)
                                    = EdgeCount(Users(H, m), u)
      BY <2>6, <2>7, <3>1, UnlinkUses
    <3> QED BY <3>1, <3>2
  <2>9. /\ M \in Graphs /\ M.nodes = H.nodes
        /\ \A m, u \in Ids(G) : EdgeCount(Users(M, m), u) = EdgeCount(Users(K, m), u) + Entry(m, u, new, n)
    <3>1. Ids(K) = Ids(G) /\ Len(K.nodes) = Len(G.nodes)
      <4> HIDE DEF H, K
      <4> QED BY <2>4, <2>8 DEF Ids
    <3>2. n \in Ids(K) /\ new \in 0 .. Len(K.nodes)
      BY <3>1
    <3> HIDE DEF H, old, K
    <3>3. /\ Link(K, n, new) \in Graphs /\ Link(K, n, new).nodes = K.nodes
          /\ \A m, u \in Ids(K) : EdgeCount(Users(Link(K, n, new), m), u)
                                    = EdgeCount(Users(K, m), u) + Entry(m, u, new, n)
      BY <2>8, <3>2, LinkUses
    <3> QED BY <2>8, <3>1, <3>3
  <2>10. \A m \in Ids(G) : Kind(M, m) = Kind(G, m) /\ Ins(M, m) = IF m = n THEN ins ELSE Ins(G, m)
    <3> HIDE DEF H, M, ins
    <3> QED BY <2>5, <2>9 DEF Kind, Ins
  <2>11. Ids(M) = Ids(G) /\ Len(M.nodes) = Len(G.nodes)
    <3> HIDE DEF H, M
    <3> QED BY <2>4, <2>9 DEF Ids
  <2>12. ASSUME NEW m \in Ids(G), NEW u \in Ids(G)
         PROVE  EdgeCount(Users(M, m), u) = EdgeCount(Ins(M, u), m)
    <3>1. EdgeCount(Users(K, m), u) + Entry(m, u, old, n) = EdgeCount(Ins(G, u), m)
      BY <2>5, <2>8 DEF Matched
    <3>2. EdgeCount(Users(M, m), u) = EdgeCount(Users(K, m), u) + Entry(m, u, new, n)
      BY <2>9
    <3>3. EdgeCount(Ins(M, u), m) + Entry(m, u, old, n) = EdgeCount(Ins(G, u), m) + Entry(m, u, new, n)
      <4>1. CASE u = n
        <5>1. EdgeCount(ins, m) + One(m, old) = EdgeCount(Ins(G, n), m) + One(m, new)
          BY <1>c
        <5>2. One(m, old) = Entry(m, u, old, n) /\ One(m, new) = Entry(m, u, new, n)
          BY <4>1 DEF One, Entry
        <5> HIDE DEF ins, old, M
        <5> QED BY <2>10, <4>1, <5>1, <5>2
      <4>2. CASE u # n
        <5>1. Entry(m, u, old, n) = 0 /\ Entry(m, u, new, n) = 0
          BY <4>2 DEF Entry
        <5> HIDE DEF ins, old, M
        <5> QED BY <2>10, <4>2, <5>1
      <4> QED BY <4>1, <4>2
    <3>4. /\ EdgeCount(Users(K, m), u) \in Nat /\ EdgeCount(Users(M, m), u) \in Nat
          /\ EdgeCount(Ins(G, u), m) \in Nat /\ EdgeCount(Ins(M, u), m) \in Nat
          /\ Entry(m, u, old, n) \in Nat /\ Entry(m, u, new, n) \in Nat
      <4>1. Ids(K) = Ids(G)
        <5> HIDE DEF H, K
        <5> QED BY <2>4, <2>8 DEF Ids
      <4>2. EdgeCount(Users(K, m), u) \in Nat
        <5> HIDE DEF K
        <5> QED BY <2>8, <4>1, CountsAreNat
      <4>3. EdgeCount(Users(M, m), u) \in Nat /\ EdgeCount(Ins(M, u), m) \in Nat
        <5> HIDE DEF M
        <5> QED BY <2>9, <2>11, CountsAreNat
      <4>4. EdgeCount(Ins(G, u), m) \in Nat
        BY CountsAreNat
      <4> QED BY <4>2, <4>3, <4>4 DEF Entry
    <3> HIDE DEF H, K, M, old
    <3> QED BY <3>1, <3>2, <3>3, <3>4
  <2>13. Chained(M)
    <3> HIDE DEF M
    <3> QED BY <2>10, <2>11 DEF Chained
  <2>14. Grown(G, M)
    <3> HIDE DEF M
    <3> QED BY <2>10, <2>11 DEF Grown
  <2>15. M \in Sound
    <3> HIDE DEF M
    <3> QED BY <2>9, <2>11, <2>12, <2>13 DEF Sound, Matched
  <2> HIDE DEF M
  <2> QED BY <2>1, <2>11, <2>14, <2>15
<1> QED BY <1>2, <1>3

(* make_node adds a node with its edges, each with its entry.                  *)
LEMMA MakeNodeSound ==
  ASSUME NEW G \in Sound, NEW kind \in Kinds, NEW val \in Int, NEW ins \in Seq(0 .. Len(G.nodes)),
         Len(ins) = Arity(kind), kind = "CallAltered" => DeadCode \/ ins[2] # NoNode
  PROVE  /\ MakeNode(G, kind, val, ins) \in Sound /\ Grown(G, MakeNode(G, kind, val, ins))
         /\ Len(MakeNode(G, kind, val, ins).nodes) = NewId(G)
         /\ Kind(MakeNode(G, kind, val, ins), NewId(G)) = kind
         /\ Ins(MakeNode(G, kind, val, ins), NewId(G)) = ins
<1> DEFINE N == Len(G.nodes)
           new == NewId(G)
           rec == [kind |-> kind, val |-> val, ins |-> ins, dead |-> FALSE]
           users(n) == IF n \in Ids(G) THEN Users(G, n) ELSE << >>
           copies(n) == [e \in 1 .. EdgeCount(ins, n) |-> new]
           outs == [n \in 1 .. new |-> users(n) \o copies(n)]
           nodes == Append(G.nodes, rec)
           H == MakeNode(G, kind, val, ins)
<1>0. G \in Graphs /\ Matched(G) /\ Chained(G)
  BY DEF Sound
<1>f. /\ N \in Nat /\ Ids(G) = 1 .. N /\ G.nodes \in Seq(NodeRecords) /\ new = N + 1
      /\ \A m \in Ids(G) : /\ Ins(G, m) \in Seq(0 .. N) /\ Len(Ins(G, m)) = Arity(Kind(G, m))
                           /\ Users(G, m) \in Seq(Ids(G))
  BY <1>0, GraphFacts DEF NewId
<1>1. H = [nodes |-> nodes, outs |-> outs]
  BY DEF MakeNode
<1>2. rec \in NodeRecords
  <2>1. ins \in Seq(Nat)
    BY <1>f
  <2> QED BY <2>1 DEF NodeRecords
<1>3. /\ nodes \in Seq(NodeRecords) /\ Len(nodes) = new /\ nodes[new] = rec
      /\ \A n \in 1 .. N : nodes[n] = G.nodes[n]
  <2> HIDE DEF rec
  <2> QED BY <1>2, <1>f, AppendProperties
<1>4. \A n : EdgeCount(ins, n) \in Nat
  BY CountType
<1>5. ASSUME NEW n \in 1 .. new
      PROVE  /\ users(n) \in Seq(1 .. new) /\ copies(n) \in Seq(1 .. new)
             /\ \A u : EdgeCount(copies(n), u) = IF u = new THEN EdgeCount(ins, n) ELSE 0
             /\ n \in Ids(G) => users(n) = Users(G, n)
             /\ n \notin Ids(G) => users(n) = << >>
  <2>1. new \in 1 .. new
    BY <1>f
  <2>2. copies(n) \in Seq(1 .. new)
    BY <1>4, <2>1
  <2>3. users(n) \in Seq(1 .. new)
    <3>1. CASE n \in Ids(G)
      <4>1. Users(G, n) \in Seq(1 .. N)
        BY <1>f, <3>1
      <4>2. 1 .. N \subseteq 1 .. new
        BY <1>f
      <4>3. Users(G, n) \in Seq(1 .. new)
        BY <4>1, <4>2, <1>f
      <4> QED BY <3>1, <4>3
    <3>2. CASE n \notin Ids(G)
      BY <3>2
    <3> QED BY <3>1, <3>2
  <2>4. ASSUME NEW u PROVE EdgeCount(copies(n), u) = IF u = new THEN EdgeCount(ins, n) ELSE 0
    <3>1. DOMAIN copies(n) = 1 .. EdgeCount(ins, n) /\ \A e \in 1 .. EdgeCount(ins, n) : copies(n)[e] = new
      OBVIOUS
    <3> DEFINE k == EdgeCount(ins, n)
               s == copies(n)
    <3>2. k \in Nat /\ s \in Seq(1 .. new) /\ new \in 1 .. new
      BY <1>4, <2>1, <2>2
    <3>4. Len(s) = k /\ \A e \in 1 .. Len(s) : s[e] = new
      <4>1. ASSUME NEW j \in Nat PROVE 1 .. j = 1 .. k => j = k
        <5> HIDE DEF k
        <5> SUFFICES ASSUME 1 .. j = 1 .. k PROVE j = k
          OBVIOUS
        <5>0. j # 0 => j \in 1 .. j
          OBVIOUS
        <5>1. j # 0 => j \in 1 .. k
          BY <5>0
        <5>2. k # 0 => k \in 1 .. j
          BY <3>2
        <5> QED BY <3>2, <5>1, <5>2
      <4>2. Len(s) \in Nat /\ 1 .. Len(s) = 1 .. k
        <5> HIDE DEF copies, k, new
        <5> QED BY <3>1, <3>2, LenProperties DEF k
      <4> HIDE DEF copies, k, new
      <4>3. Len(s) = k
        BY <4>1, <4>2
      <4> QED BY <3>1, <4>3 DEF k
    <3> HIDE DEF s, k, new
    <3>3. EdgeCount(s, u) = IF u = new THEN k ELSE 0
      BY <3>2, <3>4, CountCopies
    <3> QED BY <3>3 DEF s, k
  <2> HIDE DEF copies
  <2> QED BY <2>2, <2>3, <2>4
<1> HIDE DEF copies
<1>6. ASSUME NEW n \in 1 .. new, NEW u \in 1 .. new
      PROVE  /\ outs[n] \in Seq(1 .. new)
             /\ EdgeCount(outs[n], u) = EdgeCount(users(n), u) + (IF u = new THEN EdgeCount(ins, n) ELSE 0)
  <2>1. outs[n] = users(n) \o copies(n)
    OBVIOUS
  <2> HIDE DEF users, outs
  <2>2. EdgeCount(users(n) \o copies(n), u) = EdgeCount(users(n), u) + EdgeCount(copies(n), u)
    BY <1>5, CountConcat
  <2>3. users(n) \o copies(n) \in Seq(1 .. new)
    BY <1>5, ConcatProperties
  <2> QED BY <1>5, <2>1, <2>2, <2>3
<1>7. H.nodes = nodes /\ H.outs = outs
  <2> HIDE DEF H, nodes, outs
  <2> QED BY <1>1
<1>8. /\ Ids(H) = 1 .. new /\ Len(H.nodes) = new
      /\ \A n \in 1 .. N : Kind(H, n) = Kind(G, n) /\ Ins(H, n) = Ins(G, n)
      /\ Kind(H, new) = kind /\ Ins(H, new) = ins
      /\ \A n \in 1 .. new : Users(H, n) = outs[n]
  <2> HIDE DEF H, nodes, outs
  <2> QED BY <1>3, <1>7 DEF Ids, Kind, Ins, Users
<1>9. H \in Graphs
  <2>1. ASSUME NEW n \in 1 .. Len(nodes)
        PROVE  nodes[n].ins \in Seq(0 .. Len(nodes)) /\ Len(nodes[n].ins) = Arity(nodes[n].kind)
    <3>1. 0 .. N \subseteq 0 .. new
      BY <1>f
    <3>2. CASE n \in 1 .. N
      <4>1. nodes[n].ins = Ins(G, n) /\ nodes[n].kind = Kind(G, n)
        <5> HIDE DEF nodes
        <5> QED BY <1>3, <3>2 DEF Ins, Kind
      <4>2. Ins(G, n) \in Seq(0 .. N) /\ Len(Ins(G, n)) = Arity(Kind(G, n))
        BY <1>f, <3>2
      <4>3. Ins(G, n) \in Seq(0 .. new)
        BY <3>1, <4>2, WiderSeq
      <4> HIDE DEF nodes
      <4> QED BY <1>3, <4>1, <4>2, <4>3
    <3>3. CASE n = new
      <4>1. nodes[n].ins = ins /\ nodes[n].kind = kind
        <5> HIDE DEF nodes
        <5> QED BY <1>3, <3>3
      <4>2. ins \in Seq(0 .. new)
        BY <3>1, WiderSeq
      <4> HIDE DEF nodes
      <4> QED BY <1>3, <4>1, <4>2
    <3> QED BY <1>3, <1>f, <3>2, <3>3
  <2>2. outs \in [1 .. Len(nodes) -> Seq(1 .. Len(nodes))]
    <3>1. DOMAIN outs = 1 .. new /\ outs = [n \in 1 .. new |-> outs[n]]
      OBVIOUS
    <3> HIDE DEF outs, nodes
    <3> QED BY <1>3, <1>6, <3>1
  <2> HIDE DEF nodes, outs, H
  <2>3. [nodes |-> nodes, outs |-> outs] \in Graphs
    BY <1>3, <2>1, <2>2, GraphOf
  <2> QED BY <1>1, <2>3
<1>10. ASSUME NEW m \in 1 .. new, NEW u \in 1 .. new
       PROVE  EdgeCount(Users(H, m), u) = EdgeCount(Ins(H, u), m)
  <2>1. EdgeCount(Users(H, m), u) = EdgeCount(users(m), u) + (IF u = new THEN EdgeCount(ins, m) ELSE 0)
    <3> HIDE DEF H, outs, users
    <3> QED BY <1>6, <1>8
  <2>2. CASE u = new
    <3>1. EdgeCount(users(m), u) = 0
      <4>1. CASE m \in Ids(G)
        <5>1. Users(G, m) \in Seq(1 .. N) /\ users(m) = Users(G, m)
          BY <1>f, <1>5, <4>1
        <5>2. \A i \in 1 .. Len(Users(G, m)) : Users(G, m)[i] \in 1 .. N
          BY <5>1, ElementOfSeq
        <5>3. \A i \in 1 .. Len(Users(G, m)) : Users(G, m)[i] # u
          BY <1>f, <2>2, <5>2
        <5> HIDE DEF users
        <5> QED BY <5>1, <5>3, CountType
      <4>2. CASE m \notin Ids(G)
        BY <1>5, <4>2, CountEmpty
      <4> QED BY <4>1, <4>2
    <3> HIDE DEF H, users
    <3> QED BY <1>4, <1>8, <2>1, <2>2, <3>1
  <2>3. CASE u # new
    <3>1. u \in Ids(G)
      BY <1>f, <2>3
    <3>2. EdgeCount(users(m), u) = EdgeCount(Ins(G, u), m)
      <4>1. CASE m \in Ids(G)
        BY <1>0, <1>5, <3>1, <4>1 DEF Matched
      <4>2. CASE m \notin Ids(G)
        <5>1. EdgeCount(users(m), u) = 0
          BY <1>5, <4>2, CountEmpty
        <5>2. Ins(G, u) \in Seq(0 .. N) /\ m = new
          <6>1. Ins(G, u) \in Seq(0 .. N)
            BY <1>f, <3>1
          <6>2. m \notin 1 .. N /\ m \in 1 .. N + 1 /\ N \in Nat
            BY <1>f, <4>2
          <6> HIDE DEF N
          <6> QED BY <1>f, <6>1, <6>2
        <5>3. \A i \in 1 .. Len(Ins(G, u)) : Ins(G, u)[i] \in 0 .. N
          BY <5>2, ElementOfSeq
        <5>4. \A i \in 1 .. Len(Ins(G, u)) : Ins(G, u)[i] # m
          BY <1>f, <5>2, <5>3
        <5>5. EdgeCount(Ins(G, u), m) = 0
          BY <5>2, <5>4, CountType
        <5> HIDE DEF users
        <5> QED BY <5>1, <5>5
      <4> QED BY <4>1, <4>2
    <3>3. EdgeCount(Ins(G, u), m) \in Nat /\ Ins(H, u) = Ins(G, u)
      <4>1. Ins(G, u) \in Seq(0 .. N)
        BY <1>f, <3>1
      <4> HIDE DEF H
      <4> QED BY <1>8, <1>f, <3>1, <4>1, CountType
    <3> HIDE DEF H, users
    <3> QED BY <2>1, <2>3, <3>2, <3>3
  <2> QED BY <2>2, <2>3
<1> HIDE DEF H
<1>11. Chained(H)
  <2>1. ASSUME NEW n \in 1 .. new, Kind(H, n) = "CallAltered"
        PROVE  DeadCode \/ Ins(H, n)[2] # NoNode
    <3>1. CASE n \in 1 .. N
      BY <1>0, <1>8, <1>f, <2>1, <3>1 DEF Chained
    <3>2. CASE n = new
      BY <1>8, <2>1, <3>2
    <3> QED BY <1>f, <3>1, <3>2
  <2> QED BY <1>8, <2>1 DEF Chained
<1>12. H \in Sound
  BY <1>8, <1>9, <1>10, <1>11 DEF Sound, Matched
<1>13. Grown(G, H)
  BY <1>8, <1>f DEF Grown
<1> QED BY <1>8, <1>12, <1>13 DEF H

(* A sound graph is one the verifier accepts, but for the effect inputs of     *)
(* dead calls.                                                                 *)
LEMMA SoundIsAccepted ==
  ASSUME NEW G \in Sound
  PROVE  /\ InputsAlive(G) /\ UsersConsistent(G) /\ UseDefBalanced(G)
         /\ ~ DeadCode => EffectChained(G)
<1>0. G \in Graphs /\ Matched(G) /\ Chained(G)
  BY DEF Sound
<1>1. /\ Len(G.nodes) \in Nat /\ Ids(G) = 1 .. Len(G.nodes)
      /\ \A m \in Ids(G) : /\ G.nodes[m] \in NodeRecords /\ Kind(G, m) \in Kinds
                           /\ Ins(G, m) \in Seq(0 .. Len(G.nodes)) /\ Len(Ins(G, m)) = Arity(Kind(G, m))
                           /\ Users(G, m) \in Seq(Ids(G))
  BY <1>0, GraphFacts
<1>2. \A m \in Ids(G) : G.nodes[m].dead = FALSE
  BY <1>1 DEF NodeRecords
<1>3. InputsAlive(G)
  <2>1. ASSUME NEW n \in Ids(G), NEW in \in ToSet(Ins(G, n)) \ {NoNode}
        PROVE  in \in Ids(G) /\ ~ G.nodes[in].dead
    <3>1. PICK i \in 1 .. Len(Ins(G, n)) : Ins(G, n)[i] = in
      BY <1>1 DEF ToSet
    <3>2. in \in 0 .. Len(G.nodes)
      BY <1>1, <3>1, ElementOfSeq
    <3>3. in \in Ids(G)
      BY <1>1, <3>2 DEF NoNode
    <3> QED BY <1>2, <3>3
  <2> QED BY <2>1 DEF InputsAlive, LiveIds
<1>4. ASSUME NEW n \in Ids(G), NEW u \in ToSet(Users(G, n))
      PROVE  u \in Ids(G) /\ n \in ToSet(Ins(G, u))
  <2>1. PICK i \in 1 .. Len(Users(G, n)) : Users(G, n)[i] = u
    BY <1>1 DEF ToSet
  <2>2. u \in Ids(G)
    BY <1>1, <2>1, ElementOfSeq
  <2>3. EdgeCount(Users(G, n), u) # 0
    BY <1>1, <2>1, CountType
  <2>4. EdgeCount(Ins(G, u), n) # 0 /\ Ins(G, u) \in Seq(0 .. Len(G.nodes))
    BY <1>0, <1>1, <2>2, <2>3 DEF Matched
  <2>5. PICK j \in 1 .. Len(Ins(G, u)) : Ins(G, u)[j] = n
    BY <2>4, CountType
  <2> QED BY <2>2, <2>4, <2>5 DEF ToSet
<1>5. UsersConsistent(G)
  BY <1>4 DEF UsersConsistent
<1>6. UseDefBalanced(G)
  <2>1. ASSUME NEW m \in Ids(G), NEW n \in ToSet(Ins(G, m)) \ {NoNode}
        PROVE  n \in Ids(G)
    <3>1. PICK i \in 1 .. Len(Ins(G, m)) : Ins(G, m)[i] = n
      BY <1>1 DEF ToSet
    <3>2. n \in 0 .. Len(G.nodes)
      BY <1>1, <3>1, ElementOfSeq
    <3> QED BY <1>1, <3>2 DEF NoNode
  <2> QED BY <1>0, <1>4, <2>1 DEF UseDefBalanced, Balanced, Matched
<1>7. ASSUME ~ DeadCode PROVE EffectChained(G)
  <2>1. ASSUME NEW n \in Ids(G), ~ IsPure(Kind(G, n)) PROVE EffIn(G, n) # NoNode
    <3>1. Kind(G, n) = "CallAltered"
      BY <1>1, <2>1 DEF IsPure, AlteredKinds, CrowdedKinds, Kinds, UnaryKinds, BinaryKinds
    <3>2. Len(Ins(G, n)) = 3
      BY <1>1, <3>1 DEF Arity, UnaryKinds, BinaryKinds
    <3>3. Ins(G, n)[2] # NoNode
      BY <1>0, <1>7, <3>1 DEF Chained
    <3> QED BY <3>2, <3>3 DEF EffIn
  <2> QED BY <2>1 DEF EffectChained, LiveIds
<1> QED BY <1>3, <1>5, <1>6, <1>7

-----------------------------------------------------------------------------
(* The lowerer.                                                                *)

(* The names a loop carries are names.                                         *)
LEMMA NotedType ==
  ASSUME NEW b, NEW out \in Seq(Names), NEW st \in StepsOf
  PROVE  Noted(b, out, st) \in Seq(Names)
<1>1. CASE st.do = "assign"
  <2>1. st \in [do : {"let", "assign", "expr"}, x : Names, e : Expressions]
    BY <1>1 DEF StepsOf, End
  <2>2. st.x \in Names
    BY <2>1
  <2> QED BY <2>2 DEF Noted
<1>2. CASE st.do # "assign"
  BY <1>2 DEF Noted
<1> QED BY <1>1, <1>2

LEMMA AccumulatorsType ==
  ASSUME NEW b, NEW body \in Seq(StepsOf)
  PROVE  Accumulators(b, body) \in Seq(Names)
<1> DEFINE n == Len(body)
           S == Seq(Names)
           T == [k \in 0 .. n |-> S]
           step == [p \in S \X (1 .. n) |-> Noted(b, p[1], body[n + 1 - p[2]])]
           Loop(f) == f = [k \in 0 .. n |-> IF k = 0 THEN << >> ELSE Noted(b, f[k - 1], body[n + 1 - k])]
<1>0. n \in Nat
  OBVIOUS
<1>1. ASSUME NEW k \in 1 .. n, NEW s \in S PROVE Noted(b, s, body[n + 1 - k]) \in S
  <2>1. n + 1 - k \in 1 .. n
    BY <1>0
  <2>2. body[n + 1 - k] \in StepsOf
    BY <2>1, ElementOfSeq
  <2> HIDE DEF n
  <2> QED BY <2>2, NotedType
<1>2. \E f : Loop(f)
  <2>1. \A k \in 1 .. n : \A s \in S : step[<<s, k>>] = Noted(b, s, body[n + 1 - k])
    <3> HIDE DEF n, S
    <3> QED OBVIOUS
  <2>2. << >> \in T[0] /\ \A k \in 0 .. n : T[k] = S
    BY <1>0
  <2> HIDE DEF step, n, S, T
  <2>3. ASSUME NEW k \in 1 .. n, NEW s \in T[k - 1] PROVE step[<<s, k>>] \in T[k]
    <3>1. T[k - 1] = S /\ T[k] = S
      BY <1>0, <2>2
    <3>2. step[<<s, k>>] = Noted(b, s, body[n + 1 - k])
      BY <2>1, <3>1
    <3>3. Noted(b, s, body[n + 1 - k]) \in S
      BY <1>1, <3>1
    <3> QED BY <3>1, <3>2, <3>3
  <2>4. PICK f : Iteration(f, n, T, << >>, step)
    BY <1>0, <2>2, <2>3, Iterates
  <2>5. ASSUME NEW k \in 0 .. n
        PROVE  f[k] = IF k = 0 THEN << >> ELSE Noted(b, f[k - 1], body[n + 1 - k])
    <3>1. CASE k = 0
      BY <2>4, <3>1 DEF Iteration
    <3>2. CASE k # 0
      <4>1. k \in 1 .. n /\ k - 1 \in 0 .. n
        BY <1>0, <3>2
      <4> QED BY <2>1, <2>2, <2>4, <3>2, <4>1 DEF Iteration
    <3> QED BY <3>1, <3>2
  <2>6. Loop(f)
    BY <2>4, <2>5 DEF Iteration
  <2> HIDE DEF Loop
  <2> QED BY <2>6
<1> DEFINE f == Collect(b, body)
<1>3. Loop(f)
  <2>1. f = CHOOSE h : Loop(h)
    BY DEF Collect
  <2> HIDE DEF Loop, f
  <2> QED BY <1>2, <2>1
<1>4. \A k \in 0 .. n : f[k] \in S
  <2> DEFINE U == {k \in 0 .. n : f[k] \in S}
  <2> HIDE DEF f
  <2>1. 0 \in U
    BY <1>0, <1>3
  <2>2. ASSUME NEW k \in 1 .. n, k - 1 \in U PROVE k \in U
    <3>1. k \in 0 .. n /\ k # 0 /\ f[k - 1] \in S
      BY <1>0, <2>2
    <3>2. f[k] = Noted(b, f[k - 1], body[n + 1 - k])
      BY <1>3, <3>1
    <3> HIDE DEF S, n
    <3> QED BY <1>1, <3>1, <3>2
  <2>3. \A k \in 0 .. n : k \in U
    <3> HIDE DEF U
    <3> QED BY <1>0, <2>1, <2>2, UpTo
  <2> QED BY <2>3
<1>5. f[n] \in S
  <2> HIDE DEF f
  <2> QED BY <1>0, <1>4
<1> QED BY <1>5 DEF Accumulators

(* What every step keeps holds throughout.                                     *)
LEMMA Follows ==
  ASSUME NEW n \in Nat, NEW T, NEW f, f[0] \in T[0],
         \A k \in 1 .. n : f[k - 1] \in T[k - 1] => f[k] \in T[k]
  PROVE  \A k \in 0 .. n : f[k] \in T[k]
<1> DEFINE U == {k \in 0 .. n : f[k] \in T[k]}
<1>1. 0 \in U /\ \A k \in 1 .. n : k - 1 \in U => k \in U
  OBVIOUS
<1>2. \A k \in 0 .. n : k \in U
  <2> HIDE DEF U
  <2> QED BY <1>1, UpTo
<1> QED BY <1>2

(* H is G with one more node.                                                  *)
Added(G, H, kind, ins) ==
  /\ H \in Sound /\ Grown(G, H) /\ Len(H.nodes) = Len(G.nodes) + 1
  /\ Kind(H, Len(G.nodes) + 1) = kind /\ Ins(H, Len(G.nodes) + 1) = ins

LEMMA GrownTrans ==
  ASSUME NEW G \in Sound, NEW H \in Sound, NEW K \in Sound, Grown(G, H), Grown(H, K)
  PROVE  Grown(G, K)
<1>1. /\ Len(G.nodes) \in Nat /\ Len(H.nodes) \in Nat /\ Len(K.nodes) \in Nat
      /\ Ids(G) = 1 .. Len(G.nodes) /\ Ids(H) = 1 .. Len(H.nodes)
  BY GraphFacts DEF Sound
<1>2. Ids(G) \subseteq Ids(H)
  BY <1>1 DEF Grown
<1> QED BY <1>1, <1>2 DEF Grown

LEMMA AddNode ==
  ASSUME NEW G \in Sound, NEW kind \in Kinds, NEW val \in Int, NEW ins \in Seq(0 .. Len(G.nodes)),
         Len(ins) = Arity(kind), kind = "CallAltered" => DeadCode \/ ins[2] # NoNode
  PROVE  Added(G, MakeNode(G, kind, val, ins), kind, ins)
BY MakeNodeSound DEF Added, NewId

LEMMA AddThree ==
  ASSUME NEW G \in Sound, NEW kind \in {"Phi", "CallAltered", "Return"}, NEW val \in Int,
         NEW x \in 0 .. Len(G.nodes), NEW y \in 0 .. Len(G.nodes), NEW z \in 0 .. Len(G.nodes),
         kind = "CallAltered" => DeadCode \/ y # NoNode
  PROVE  Added(G, MakeNode(G, kind, val, <<x, y, z>>), kind, <<x, y, z>>)
<1>1. kind \in Kinds /\ Arity(kind) = 3
  BY DEF Kinds, Arity, UnaryKinds
<1>2. <<x, y, z>> \in Seq(0 .. Len(G.nodes)) /\ Len(<<x, y, z>>) = 3 /\ <<x, y, z>>[2] = y
  OBVIOUS
<1> QED BY <1>1, <1>2, AddNode

LEMMA AddTwo ==
  ASSUME NEW G \in Sound, NEW kind \in {"If", "Loop", "Region"} \cup BinaryKinds, NEW val \in Int,
         NEW x \in 0 .. Len(G.nodes), NEW y \in 0 .. Len(G.nodes)
  PROVE  Added(G, MakeNode(G, kind, val, <<x, y>>), kind, <<x, y>>)
<1>1. kind \in Kinds /\ Arity(kind) = 2 /\ kind # "CallAltered"
  BY DEF Kinds, Arity, UnaryKinds, BinaryKinds
<1>2. <<x, y>> \in Seq(0 .. Len(G.nodes)) /\ Len(<<x, y>>) = 2
  OBVIOUS
<1> QED BY <1>1, <1>2, AddNode

LEMMA AddOne ==
  ASSUME NEW G \in Sound, NEW kind \in {"Proj"} \cup UnaryKinds, NEW val \in Int, NEW x \in 0 .. Len(G.nodes)
  PROVE  Added(G, MakeNode(G, kind, val, <<x>>), kind, <<x>>)
<1>1. kind \in Kinds /\ Arity(kind) = 1 /\ kind # "CallAltered"
  BY DEF Kinds, Arity, UnaryKinds
<1>2. <<x>> \in Seq(0 .. Len(G.nodes)) /\ Len(<<x>>) = 1
  OBVIOUS
<1> QED BY <1>1, <1>2, AddNode

LEMMA AddLeaf ==
  ASSUME NEW G \in Sound, NEW kind \in {"Constant", "Parameter"}, NEW val \in Int
  PROVE  Added(G, MakeNode(G, kind, val, << >>), kind, << >>)
<1>1. kind \in Kinds /\ Arity(kind) = 0 /\ kind # "CallAltered"
  BY DEF Kinds, Arity, UnaryKinds
<1>2. << >> \in Seq(0 .. Len(G.nodes)) /\ Len(<< >>) = 0
  OBVIOUS
<1> QED BY <1>1, <1>2, AddNode

(* What a later graph keeps of an earlier one, said with its length.           *)
LEMMA GrownFacts ==
  ASSUME NEW G \in Sound, NEW H \in Sound, Grown(G, H)
  PROVE  /\ Len(G.nodes) \in Nat /\ Len(H.nodes) \in Nat /\ Len(G.nodes) =< Len(H.nodes)
         /\ Ids(G) = 1 .. Len(G.nodes) /\ Ids(H) = 1 .. Len(H.nodes)
         /\ \A n \in 1 .. Len(G.nodes) : n \in Ids(H) /\ Kind(H, n) = Kind(G, n)
<1>1. /\ Len(G.nodes) \in Nat /\ Len(H.nodes) \in Nat
      /\ Ids(G) = 1 .. Len(G.nodes) /\ Ids(H) = 1 .. Len(H.nodes)
  BY GraphFacts DEF Sound
<1> QED BY <1>1 DEF Grown

(* The accumulators' phis.                                                     *)
LEMMA AccPhisSound ==
  ASSUME NEW G \in Sound, NEW loop \in 0 .. Len(G.nodes), NEW b, NEW accs \in Seq(Names),
         \A x \in Names : b[x] \in 0 .. Len(G.nodes),
         NEW H, H = AccPhis(G, loop, b, accs)[Len(accs)]
  PROVE  /\ H \in Sound /\ Grown(G, H) /\ Len(H.nodes) = Len(G.nodes) + Len(accs)
         /\ \A i \in 1 .. Len(accs) : Kind(H, Len(G.nodes) + i) = "Phi"
<1> DEFINE n == Len(accs)
           N == Len(G.nodes)
           With(k) == {K \in Sound : /\ Grown(G, K) /\ Len(K.nodes) = N + k
                                     /\ \A i \in 1 .. k : Kind(K, N + i) = "Phi"}
           T == [k \in 0 .. n |-> With(k)]
           next(K, k) == MakeNode(K, "Phi", 0, <<loop, b[accs[k]], NoNode>>)
           step == [p \in Sound \X (1 .. n) |-> next(p[1], p[2])]
           Loop(f) == f = [k \in 0 .. n |-> IF k = 0 THEN G ELSE next(f[k - 1], k)]
<1>0. n \in Nat /\ N \in Nat /\ Ids(G) = 1 .. N
  BY GraphFacts DEF Sound
<1>1. ASSUME NEW k \in 1 .. n, NEW K \in With(k - 1) PROVE next(K, k) \in With(k)
  <2>1. K \in Sound /\ Grown(G, K) /\ Len(K.nodes) = N + (k - 1) /\ \A i \in 1 .. k - 1 : Kind(K, N + i) = "Phi"
    OBVIOUS
  <2>2. accs[k] \in Names
    BY ElementOfSeq
  <2>3. loop \in 0 .. Len(K.nodes) /\ b[accs[k]] \in 0 .. Len(K.nodes) /\ NoNode \in 0 .. Len(K.nodes)
    BY <1>0, <2>1, <2>2 DEF NoNode
  <2>4. Added(K, next(K, k), "Phi", <<loop, b[accs[k]], NoNode>>)
    <3>1. "Phi" \in {"Phi", "CallAltered", "Return"} /\ "Phi" # "CallAltered" /\ 0 \in Int
      OBVIOUS
    <3> DEFINE v == b[accs[k]]
               z == 0
    <3> HIDE DEF v, z
    <3>2. Added(K, MakeNode(K, "Phi", z, <<loop, v, NoNode>>), "Phi", <<loop, v, NoNode>>)
      BY <2>1, <2>3, <3>1, AddThree DEF v, z
    <3> QED BY <3>2 DEF v, z
  <2> DEFINE M == next(K, k)
  <2> HIDE DEF M
  <2>5. M \in Sound /\ Grown(K, M) /\ Len(M.nodes) = Len(K.nodes) + 1 /\ Kind(M, Len(K.nodes) + 1) = "Phi"
    BY <2>4 DEF Added, M
  <2>6. Grown(G, M) /\ Len(M.nodes) = N + k
    BY <1>0, <2>1, <2>5, GrownTrans
  <2>7. ASSUME NEW i \in 1 .. k PROVE Kind(M, N + i) = "Phi"
    <3>1. CASE i = k
      BY <1>0, <2>1, <2>5, <3>1
    <3>2. CASE i \in 1 .. k - 1
      <4>1. N + i \in 1 .. Len(K.nodes)
        BY <1>0, <2>1, <3>2
      <4>2. Kind(M, N + i) = Kind(K, N + i)
        BY <2>1, <2>5, <4>1, GrownFacts
      <4> QED BY <2>1, <3>2, <4>2
    <3> QED BY <3>1, <3>2
  <2>8. M \in With(k)
    BY <2>5, <2>6, <2>7
  <2> QED BY <2>8 DEF M
<1>2. G \in With(0) /\ \A k \in 0 .. n : T[k] = With(k) /\ With(k) \subseteq Sound
  BY <1>0 DEF Grown
<1>3. \E f : Loop(f)
  <2>1. \A k \in 1 .. n : \A K \in Sound : step[<<K, k>>] = next(K, k)
    <3> HIDE DEF next
    <3> QED OBVIOUS
  <2> HIDE DEF step, n, T, With, next
  <2>2. ASSUME NEW k \in 1 .. n, NEW s \in T[k - 1] PROVE step[<<s, k>>] \in T[k]
    <3>1. T[k - 1] = With(k - 1) /\ T[k] = With(k) /\ s \in Sound
      BY <1>0, <1>2
    <3> QED BY <1>1, <2>1, <3>1
  <2>3. G \in T[0]
    BY <1>0, <1>2
  <2>4. PICK f : Iteration(f, n, T, G, step)
    BY <1>0, <2>2, <2>3, Iterates
  <2>5. ASSUME NEW k \in 0 .. n PROVE f[k] = IF k = 0 THEN G ELSE next(f[k - 1], k)
    <3>1. CASE k = 0
      BY <2>4, <3>1 DEF Iteration
    <3>2. CASE k # 0
      <4>1. k \in 1 .. n /\ k - 1 \in 0 .. n
        BY <1>0, <3>2
      <4>2. f[k] = step[<<f[k - 1], k>>] /\ f[k - 1] \in Sound
        BY <1>2, <2>4, <4>1 DEF Iteration
      <4> QED BY <2>1, <3>2, <4>1, <4>2
    <3> QED BY <3>1, <3>2
  <2>6. Loop(f)
    BY <2>4, <2>5 DEF Iteration
  <2> HIDE DEF Loop
  <2> QED BY <2>6
<1> DEFINE f == AccPhis(G, loop, b, accs)
<1>4. Loop(f)
  <2>1. f = CHOOSE h : Loop(h)
    BY DEF AccPhis
  <2> HIDE DEF Loop, f
  <2> QED BY <1>3, <2>1
<1> HIDE DEF f, next, With, n, N
<1>5. f[0] = G /\ \A k \in 1 .. n : f[k] = next(f[k - 1], k)
  BY <1>0, <1>4
<1>6. \A k \in 0 .. n : f[k] \in T[k]
  <2>1. f[0] \in T[0]
    BY <1>0, <1>2, <1>5
  <2>2. ASSUME NEW k \in 1 .. n, f[k - 1] \in T[k - 1] PROVE f[k] \in T[k]
    <3>1. f[k - 1] \in With(k - 1) /\ T[k] = With(k)
      BY <1>0, <1>2, <2>2
    <3> QED BY <1>1, <1>5, <3>1
  <2> HIDE DEF T
  <2> QED BY <1>0, <2>1, <2>2, Follows
<1>7. f[n] \in With(n)
  BY <1>0, <1>2, <1>6
<1> QED BY <1>7 DEF With, f, n, N

(* The nodes the lowerer makes.                                                *)
LEMMA AddPhi ==
  ASSUME NEW G \in Sound, NEW x \in 0 .. Len(G.nodes), NEW y \in 0 .. Len(G.nodes), NEW z \in 0 .. Len(G.nodes)
  PROVE  Added(G, MakeNode(G, "Phi", 0, <<x, y, z>>), "Phi", <<x, y, z>>)
<1> DEFINE val == 0
<1>1. "Phi" \in {"Phi", "CallAltered", "Return"} /\ val \in Int /\ "Phi" # "CallAltered"
  OBVIOUS
<1> HIDE DEF val
<1>2. Added(G, MakeNode(G, "Phi", val, <<x, y, z>>), "Phi", <<x, y, z>>)
  BY <1>1, AddThree
<1> QED BY <1>2 DEF val, MakeProj, MakeConstant

LEMMA AddReturn ==
  ASSUME NEW G \in Sound, NEW x \in 0 .. Len(G.nodes), NEW y \in 0 .. Len(G.nodes), NEW z \in 0 .. Len(G.nodes)
  PROVE  Added(G, MakeNode(G, "Return", 0, <<x, y, z>>), "Return", <<x, y, z>>)
<1> DEFINE val == 0
<1>1. "Return" \in {"Phi", "CallAltered", "Return"} /\ val \in Int /\ "Return" # "CallAltered"
  OBVIOUS
<1> HIDE DEF val
<1>2. Added(G, MakeNode(G, "Return", val, <<x, y, z>>), "Return", <<x, y, z>>)
  BY <1>1, AddThree
<1> QED BY <1>2 DEF val, MakeProj, MakeConstant

LEMMA AddCall ==
  ASSUME NEW G \in Sound, NEW x \in 0 .. Len(G.nodes), NEW y \in 0 .. Len(G.nodes), NEW z \in 0 .. Len(G.nodes), DeadCode \/ y # NoNode
  PROVE  Added(G, MakeNode(G, "CallAltered", 0, <<x, y, z>>), "CallAltered", <<x, y, z>>)
<1> DEFINE val == 0
<1>1. "CallAltered" \in {"Phi", "CallAltered", "Return"} /\ val \in Int
  OBVIOUS
<1> HIDE DEF val
<1>2. Added(G, MakeNode(G, "CallAltered", val, <<x, y, z>>), "CallAltered", <<x, y, z>>)
  BY <1>1, AddThree
<1> QED BY <1>2 DEF val, MakeProj, MakeConstant

LEMMA AddIf ==
  ASSUME NEW G \in Sound, NEW x \in 0 .. Len(G.nodes), NEW y \in 0 .. Len(G.nodes)
  PROVE  Added(G, MakeNode(G, "If", 0, <<x, y>>), "If", <<x, y>>)
<1> DEFINE val == 0
<1>1. "If" \in {"If", "Loop", "Region"} \cup BinaryKinds /\ val \in Int
  OBVIOUS
<1> HIDE DEF val
<1>2. Added(G, MakeNode(G, "If", val, <<x, y>>), "If", <<x, y>>)
  BY <1>1, AddTwo
<1> QED BY <1>2 DEF val, MakeProj, MakeConstant

LEMMA AddLoop ==
  ASSUME NEW G \in Sound, NEW x \in 0 .. Len(G.nodes), NEW y \in 0 .. Len(G.nodes)
  PROVE  Added(G, MakeNode(G, "Loop", 0, <<x, y>>), "Loop", <<x, y>>)
<1> DEFINE val == 0
<1>1. "Loop" \in {"If", "Loop", "Region"} \cup BinaryKinds /\ val \in Int
  OBVIOUS
<1> HIDE DEF val
<1>2. Added(G, MakeNode(G, "Loop", val, <<x, y>>), "Loop", <<x, y>>)
  BY <1>1, AddTwo
<1> QED BY <1>2 DEF val, MakeProj, MakeConstant

LEMMA AddRegion ==
  ASSUME NEW G \in Sound, NEW x \in 0 .. Len(G.nodes), NEW y \in 0 .. Len(G.nodes)
  PROVE  Added(G, MakeNode(G, "Region", 0, <<x, y>>), "Region", <<x, y>>)
<1> DEFINE val == 0
<1>1. "Region" \in {"If", "Loop", "Region"} \cup BinaryKinds /\ val \in Int
  OBVIOUS
<1> HIDE DEF val
<1>2. Added(G, MakeNode(G, "Region", val, <<x, y>>), "Region", <<x, y>>)
  BY <1>1, AddTwo
<1> QED BY <1>2 DEF val, MakeProj, MakeConstant

LEMMA AddBinary ==
  ASSUME NEW G \in Sound, NEW x \in 0 .. Len(G.nodes), NEW y \in 0 .. Len(G.nodes), NEW kind \in BinaryKinds
  PROVE  Added(G, MakeNode(G, kind, 0, <<x, y>>), kind, <<x, y>>)
<1> DEFINE val == 0
<1>1. kind \in {"If", "Loop", "Region"} \cup BinaryKinds /\ val \in Int
  OBVIOUS
<1> HIDE DEF val
<1>2. Added(G, MakeNode(G, kind, val, <<x, y>>), kind, <<x, y>>)
  BY <1>1, AddTwo
<1> QED BY <1>2 DEF val, MakeProj, MakeConstant

LEMMA AddUnary ==
  ASSUME NEW G \in Sound, NEW x \in 0 .. Len(G.nodes), NEW kind \in UnaryKinds
  PROVE  Added(G, MakeNode(G, kind, 0, <<x>>), kind, <<x>>)
<1> DEFINE val == 0
<1>1. kind \in {"Proj"} \cup UnaryKinds /\ val \in Int
  OBVIOUS
<1> HIDE DEF val
<1>2. Added(G, MakeNode(G, kind, val, <<x>>), kind, <<x>>)
  BY <1>1, AddOne
<1> QED BY <1>2 DEF val, MakeProj, MakeConstant

LEMMA AddProj ==
  ASSUME NEW G \in Sound, NEW x \in 0 .. Len(G.nodes), NEW which \in Int
  PROVE  Added(G, MakeProj(G, x, which), "Proj", <<x>>)
<1> DEFINE val == which
<1>1. "Proj" \in {"Proj"} \cup UnaryKinds /\ val \in Int
  OBVIOUS
<1> HIDE DEF val
<1>2. Added(G, MakeNode(G, "Proj", val, <<x>>), "Proj", <<x>>)
  BY <1>1, AddOne
<1> QED BY <1>2 DEF val, MakeProj, MakeConstant

LEMMA AddConstant ==
  ASSUME NEW G \in Sound, NEW v \in Int
  PROVE  Added(G, MakeConstant(G, v), "Constant", << >>)
<1> DEFINE val == v
<1>1. "Constant" \in {"Constant", "Parameter"} /\ val \in Int
  OBVIOUS
<1> HIDE DEF val
<1>2. Added(G, MakeNode(G, "Constant", val, << >>), "Constant", << >>)
  BY <1>1, AddLeaf
<1> QED BY <1>2 DEF val, MakeProj, MakeConstant

LEMMA AddParameter ==
  ASSUME NEW G \in Sound, NEW v \in Int
  PROVE  Added(G, MakeNode(G, "Parameter", v, << >>), "Parameter", << >>)
<1> DEFINE val == v
<1>1. "Parameter" \in {"Constant", "Parameter"} /\ val \in Int
  OBVIOUS
<1> HIDE DEF val
<1>2. Added(G, MakeNode(G, "Parameter", val, << >>), "Parameter", << >>)
  BY <1>1, AddLeaf
<1> QED BY <1>2 DEF val, MakeProj, MakeConstant

(* The back edges of the accumulators' phis.                                   *)
LEMMA BackEdgesSound ==
  ASSUME NEW G \in Sound, NEW loop, NEW b, NEW accs \in Seq(Names),
         \A x \in Names : b[x] \in 0 .. Len(G.nodes),
         \A k \in 1 .. Len(accs) : PhiAt(loop, k) \in Ids(G) /\ Kind(G, PhiAt(loop, k)) = "Phi",
         NEW H, H = BackEdges(G, loop, b, accs)[Len(accs)]
  PROVE  H \in Sound /\ Grown(G, H) /\ Len(H.nodes) = Len(G.nodes)
<1> DEFINE n == Len(accs)
           N == Len(G.nodes)
           S == {K \in Sound : Grown(G, K) /\ Len(K.nodes) = N}
           T == [k \in 0 .. n |-> S]
           next(K, k) == SetInput(K, PhiAt(loop, k), 3, b[accs[k]])
           step == [p \in Sound \X (1 .. n) |-> next(p[1], p[2])]
           Loop(f) == f = [k \in 0 .. n |-> IF k = 0 THEN G ELSE next(f[k - 1], k)]
<1>0. n \in Nat /\ N \in Nat /\ Ids(G) = 1 .. N
  BY GraphFacts DEF Sound
<1>1. ASSUME NEW k \in 1 .. n, NEW K \in S PROVE next(K, k) \in S
  <2>1. K \in Sound /\ Grown(G, K) /\ Len(K.nodes) = N /\ Ids(K) = Ids(G)
    BY DEF Ids
  <2>2. accs[k] \in Names
    BY ElementOfSeq
  <2> DEFINE phi == PhiAt(loop, k)
             v == b[accs[k]]
  <2>3. phi \in Ids(K) /\ Kind(K, phi) = "Phi" /\ v \in 0 .. Len(K.nodes)
    BY <2>1, <2>2 DEF Grown
  <2>4. Arity(Kind(K, phi)) = 3
    BY <2>3 DEF Arity, UnaryKinds
  <2> DEFINE i == 3
  <2>5. i \in 1 .. Arity(Kind(K, phi)) /\ Kind(K, phi) \in {"Phi", "Loop"}
    BY <2>3, <2>4
  <2> HIDE DEF phi, v, i
  <2> DEFINE M == SetInput(K, phi, i, v)
  <2>6. M \in Sound /\ Grown(K, M) /\ Len(M.nodes) = Len(K.nodes)
    BY <2>1, <2>3, <2>5, SetInputSound
  <2> HIDE DEF M
  <2>7. M \in S
    BY <2>1, <2>6, GrownTrans
  <2> QED BY <2>7 DEF M, phi, v, i
<1>2. G \in S /\ S \subseteq Sound /\ \A k \in 0 .. n : T[k] = S
  BY <1>0 DEF Grown
<1>3. \E f : Loop(f)
  <2>1. \A k \in 1 .. n : \A K \in Sound : step[<<K, k>>] = next(K, k)
    <3> HIDE DEF next
    <3> QED OBVIOUS
  <2> HIDE DEF step, n, T, S, next
  <2>2. ASSUME NEW k \in 1 .. n, NEW s \in T[k - 1] PROVE step[<<s, k>>] \in T[k]
    <3>1. T[k - 1] = S /\ T[k] = S /\ s \in Sound
      BY <1>0, <1>2
    <3> QED BY <1>1, <2>1, <3>1
  <2>3. G \in T[0]
    BY <1>0, <1>2
  <2>4. PICK f : Iteration(f, n, T, G, step)
    BY <1>0, <2>2, <2>3, Iterates
  <2>5. ASSUME NEW k \in 0 .. n PROVE f[k] = IF k = 0 THEN G ELSE next(f[k - 1], k)
    <3>1. CASE k = 0
      BY <2>4, <3>1 DEF Iteration
    <3>2. CASE k # 0
      <4>1. k \in 1 .. n /\ k - 1 \in 0 .. n
        BY <1>0, <3>2
      <4>2. f[k] = step[<<f[k - 1], k>>] /\ f[k - 1] \in Sound
        BY <1>2, <2>4, <4>1 DEF Iteration
      <4> QED BY <2>1, <3>2, <4>1, <4>2
    <3> QED BY <3>1, <3>2
  <2>6. Loop(f)
    BY <2>4, <2>5 DEF Iteration
  <2> HIDE DEF Loop
  <2> QED BY <2>6
<1> DEFINE f == BackEdges(G, loop, b, accs)
<1>4. Loop(f)
  <2>1. f = CHOOSE h : Loop(h)
    BY DEF BackEdges
  <2> HIDE DEF Loop, f
  <2> QED BY <1>3, <2>1
<1> HIDE DEF f, next, S, n, N
<1>5. f[0] = G /\ \A k \in 1 .. n : f[k] = next(f[k - 1], k)
  BY <1>0, <1>4
<1>6. \A k \in 0 .. n : f[k] \in T[k]
  <2>1. f[0] \in T[0]
    BY <1>0, <1>2, <1>5
  <2>2. ASSUME NEW k \in 1 .. n, f[k - 1] \in T[k - 1] PROVE f[k] \in T[k]
    <3>1. f[k - 1] \in S /\ T[k] = S
      BY <1>0, <1>2, <2>2
    <3> QED BY <1>1, <1>5, <3>1
  <2> HIDE DEF T
  <2> QED BY <1>0, <2>1, <2>2, Follows
<1>7. f[n] \in S
  BY <1>0, <1>2, <1>6
<1> QED BY <1>7 DEF S, f, n, N

-----------------------------------------------------------------------------
(* The lowerer's state: everything it holds is a node of the graph or none, a  *)
(* loop that is open has its nodes, and only dead code has no effect.          *)
HeadRecords == [loop : Nat, accs : Seq(Names), b : [Names -> Nat], eff : Nat]
Tables == UNION {[K -> Nat] : K \in SUBSET (Kinds \X Seq(Nat))}
LowererRecords == [g : Sound, hc : Tables, ctrl : Nat, eff : Nat, b : [Names -> Nat], id : Nat,
                   heads : Seq(HeadRecords), sites : Seq(Nat)]

Bound(G, b) == \A x \in Names : b[x] \in 0 .. Len(G.nodes)
HeadFits(G, h) ==
  /\ h.loop \in 1 .. Len(G.nodes) /\ Kind(G, h.loop) = "Loop"
  /\ \A k \in 0 .. Len(h.accs) : PhiAt(h.loop, k) \in 1 .. Len(G.nodes) /\ Kind(G, PhiAt(h.loop, k)) = "Phi"
  /\ TestAt(h.loop, h.accs) + 2 \in 1 .. Len(G.nodes)
  /\ Bound(G, h.b) /\ h.eff \in 0 .. Len(G.nodes)
HcFits(G, table) == \A key \in DOMAIN table : table[key] \in 0 .. Len(G.nodes)
Fits(G, s) ==
  /\ s.ctrl \in 0 .. Len(G.nodes) /\ s.eff \in 0 .. Len(G.nodes) /\ s.id \in 0 .. Len(G.nodes)
  /\ Bound(G, s.b) /\ HcFits(G, s.hc)
  /\ \A i \in 1 .. Len(s.heads) : HeadFits(G, s.heads[i])
Lowerers == {s \in LowererRecords : Fits(s.g, s) /\ (DeadCode \/ s.eff # NoNode)}

(* What fits a graph fits what it grows into.                                  *)
LEMMA BoundStays ==
  ASSUME NEW G \in Sound, NEW H \in Sound, Grown(G, H), NEW b, Bound(G, b)
  PROVE  Bound(H, b)
<1>1. Len(G.nodes) \in Nat /\ Len(H.nodes) \in Nat /\ Len(G.nodes) =< Len(H.nodes)
  BY GrownFacts
<1> QED BY <1>1 DEF Bound

LEMMA HeadStays ==
  ASSUME NEW G \in Sound, NEW H \in Sound, Grown(G, H), NEW h, HeadFits(G, h)
  PROVE  HeadFits(H, h)
<1>1. /\ Len(G.nodes) \in Nat /\ Len(H.nodes) \in Nat /\ Len(G.nodes) =< Len(H.nodes)
      /\ \A n \in 1 .. Len(G.nodes) : n \in 1 .. Len(H.nodes) /\ Kind(H, n) = Kind(G, n)
  BY GrownFacts
<1>2. Bound(H, h.b)
  BY BoundStays DEF HeadFits
<1>3. h.loop \in 1 .. Len(H.nodes) /\ Kind(H, h.loop) = "Loop"
  BY <1>1 DEF HeadFits
<1>4. \A k \in 0 .. Len(h.accs) : PhiAt(h.loop, k) \in 1 .. Len(H.nodes) /\ Kind(H, PhiAt(h.loop, k)) = "Phi"
  BY <1>1 DEF HeadFits
<1>5. TestAt(h.loop, h.accs) + 2 \in 1 .. Len(H.nodes)
  BY <1>1 DEF HeadFits
<1>6. h.eff \in 0 .. Len(H.nodes)
  BY <1>1 DEF HeadFits
<1> QED BY <1>2, <1>3, <1>4, <1>5, <1>6 DEF HeadFits

LEMMA FitsStays ==
  ASSUME NEW s \in Lowerers, NEW G \in Sound, Grown(s.g, G)
  PROVE  Fits(G, s)
<1>1. s.g \in Sound /\ Fits(s.g, s)
  BY DEF Lowerers, LowererRecords
<1>2. Len(s.g.nodes) \in Nat /\ Len(G.nodes) \in Nat /\ Len(s.g.nodes) =< Len(G.nodes)
  BY <1>1, GrownFacts
<1>3. Bound(G, s.b)
  BY <1>1, BoundStays DEF Fits
<1>4. ASSUME NEW i \in 1 .. Len(s.heads) PROVE HeadFits(G, s.heads[i])
  BY <1>1, HeadStays DEF Fits
<1>5. HcFits(G, s.hc)
  BY <1>1, <1>2 DEF Fits, HcFits
<1>6. s.ctrl \in 0 .. Len(G.nodes) /\ s.eff \in 0 .. Len(G.nodes) /\ s.id \in 0 .. Len(G.nodes)
  BY <1>1, <1>2 DEF Fits
<1> QED BY <1>3, <1>4, <1>5, <1>6 DEF Fits

(* t is s after an expression.                                                 *)
After(s, t) ==
  /\ t \in Lowerers /\ Grown(s.g, t.g)
  /\ t.ctrl = s.ctrl /\ t.b = s.b /\ t.heads = s.heads /\ t.sites = s.sites

LEMMA AfterOf ==
  ASSUME NEW s \in Lowerers, NEW t \in LowererRecords, Grown(s.g, t.g),
         t.ctrl = s.ctrl, t.b = s.b, t.heads = s.heads, t.sites = s.sites,
         t.eff = s.eff \/ t.eff \in 1 .. Len(t.g.nodes),
         t.hc = s.hc \/ HcFits(t.g, t.hc), t.id \in 0 .. Len(t.g.nodes)
  PROVE  After(s, t)
<1>1. t.g \in Sound /\ (DeadCode \/ s.eff # NoNode)
  BY DEF Lowerers, LowererRecords
<1>2. Fits(t.g, s)
  BY <1>1, FitsStays
<1>3. Len(t.g.nodes) \in Nat
  BY <1>1, GraphFacts DEF Sound
<1>4. t.eff \in 0 .. Len(t.g.nodes) /\ (DeadCode \/ t.eff # NoNode)
  BY <1>1, <1>2, <1>3 DEF Fits, NoNode
<1>5. Fits(t.g, t)
  BY <1>2, <1>4 DEF Fits
<1> QED BY <1>4, <1>5 DEF After, Lowerers

LEMMA AfterTrans ==
  ASSUME NEW s \in Lowerers, NEW t, NEW u, After(s, t), After(t, u)
  PROVE  After(s, u)
<1>1. s.g \in Sound /\ t.g \in Sound /\ u.g \in Sound
  BY DEF After, Lowerers, LowererRecords
<1>2. Grown(s.g, u.g)
  BY <1>1, GrownTrans DEF After
<1> QED BY <1>2 DEF After

LEMMA LowererFacts ==
  ASSUME NEW s \in Lowerers
  PROVE  /\ s.g \in Sound /\ s \in LowererRecords /\ Len(s.g.nodes) \in Nat
         /\ s.ctrl \in 0 .. Len(s.g.nodes) /\ s.eff \in 0 .. Len(s.g.nodes) /\ s.id \in 0 .. Len(s.g.nodes)
         /\ DeadCode \/ s.eff # NoNode
         /\ \A x \in Names : s.b[x] \in 0 .. Len(s.g.nodes)
<1>1. s.g \in Sound /\ s \in LowererRecords /\ Fits(s.g, s) /\ (DeadCode \/ s.eff # NoNode)
  BY DEF Lowerers, LowererRecords
<1> QED BY <1>1, GraphFacts DEF Fits, Bound, Sound

(* Atoms.                                                                      *)
LEMMA LowerAtomSound ==
  ASSUME NEW s \in Lowerers, NEW a \in Atoms
  PROVE  After(s, LowerAtom(s, a))
<1> DEFINE t == LowerAtom(s, a)
<1>0. /\ s.g \in Sound /\ s \in LowererRecords /\ Len(s.g.nodes) \in Nat
      /\ \A x \in Names : s.b[x] \in 0 .. Len(s.g.nodes)
  BY LowererFacts
<1>1. CASE a.op = "lit"
  <2> DEFINE G == MakeConstant(s.g, a.v)
  <2>1. a.v \in Int
    BY <1>1 DEF Atoms
  <2>2. Added(s.g, G, "Constant", << >>)
    BY <1>0, <2>1, AddConstant
  <2>3. t = [s EXCEPT !.g = G, !.id = NewId(s.g)]
    BY <1>1 DEF LowerAtom
  <2> HIDE DEF G, t
  <2>4. G \in Sound /\ Grown(s.g, G) /\ NewId(s.g) = Len(G.nodes) /\ Len(G.nodes) \in Nat
    BY <1>0, <2>2 DEF Added, NewId
  <2>5. /\ t \in LowererRecords /\ t.g = G /\ t.id = Len(G.nodes) /\ t.ctrl = s.ctrl /\ t.b = s.b
        /\ t.heads = s.heads /\ t.sites = s.sites /\ t.eff = s.eff /\ t.hc = s.hc
    BY <1>0, <2>3, <2>4 DEF LowererRecords
  <2>6. After(s, t)
    BY <2>4, <2>5, AfterOf
  <2> QED BY <2>6 DEF t
<1>2. CASE a.op # "lit"
  <2>1. a.x \in Names
    BY <1>2 DEF Atoms
  <2> DEFINE v == s.b[a.x]
  <2>2. t = [s EXCEPT !.id = v]
    BY <1>2 DEF LowerAtom
  <2>3. v \in 0 .. Len(s.g.nodes) /\ v \in Nat
    BY <1>0, <2>1
  <2> HIDE DEF t, v
  <2>4. /\ t \in LowererRecords /\ t.g = s.g /\ t.id = v /\ t.ctrl = s.ctrl /\ t.b = s.b
        /\ t.heads = s.heads /\ t.sites = s.sites /\ t.eff = s.eff /\ t.hc = s.hc
    BY <1>0, <2>2, <2>3 DEF LowererRecords
  <2>5. Grown(s.g, t.g)
    BY <1>0, <2>4 DEF Grown
  <2>6. After(s, t)
    BY <2>3, <2>4, <2>5, AfterOf
  <2> QED BY <2>6 DEF t
<1> QED BY <1>1, <1>2

(* HashCons::lookup_or_insert.                                                 *)
LEMMA LookupSound ==
  ASSUME NEW s \in Lowerers, NEW kind \in UnaryKinds \cup BinaryKinds, NEW ins \in Seq(0 .. Len(s.g.nodes)),
         Added(s.g, MakeNode(s.g, kind, 0, ins), kind, ins)
  PROVE  After(s, LookupOrInsert(s, kind, ins))
<1> DEFINE t == LookupOrInsert(s, kind, ins)
           key == <<kind, ins>>
           G == MakeNode(s.g, kind, 0, ins)
           hc1 == [k \in DOMAIN s.hc \cup {key} |-> IF k = key THEN NewId(s.g) ELSE s.hc[k]]
<1>0. /\ s.g \in Sound /\ s \in LowererRecords /\ Len(s.g.nodes) \in Nat /\ Fits(s.g, s)
  BY LowererFacts DEF Lowerers
<1>1. PICK K \in SUBSET (Kinds \X Seq(Nat)) : s.hc \in [K -> Nat]
  BY <1>0 DEF LowererRecords, Tables
<1>2. \A k \in DOMAIN s.hc : s.hc[k] \in 0 .. Len(s.g.nodes)
  BY <1>0 DEF Fits, HcFits
<1>3. CASE key \in DOMAIN s.hc
  <2> DEFINE v == s.hc[key]
  <2>1. t = [s EXCEPT !.id = v]
    BY <1>3 DEF LookupOrInsert
  <2>2. v \in 0 .. Len(s.g.nodes) /\ v \in Nat
    BY <1>0, <1>2, <1>3
  <2> HIDE DEF t, v
  <2>3. /\ t \in LowererRecords /\ t.g = s.g /\ t.id = v /\ t.ctrl = s.ctrl /\ t.b = s.b
        /\ t.heads = s.heads /\ t.sites = s.sites /\ t.eff = s.eff /\ t.hc = s.hc
    BY <1>0, <2>1, <2>2 DEF LowererRecords
  <2>4. Grown(s.g, t.g)
    BY <1>0, <2>3 DEF Grown
  <2>5. After(s, t)
    BY <2>2, <2>3, <2>4, AfterOf
  <2> QED BY <2>5 DEF t
<1>4. CASE key \notin DOMAIN s.hc
  <2>1. t = [s EXCEPT !.g = G, !.id = NewId(s.g), !.hc = hc1]
    BY <1>4 DEF LookupOrInsert
  <2>2. G \in Sound /\ Grown(s.g, G) /\ NewId(s.g) = Len(G.nodes) /\ Len(G.nodes) \in Nat
    BY <1>0 DEF Added, NewId
  <2>3. hc1 \in [K \cup {key} -> Nat]
    <3>1. DOMAIN s.hc = K /\ NewId(s.g) \in Nat
      BY <1>1, <2>2
    <3>2. \A k \in K : s.hc[k] \in Nat
      BY <1>1
    <3> HIDE DEF key
    <3> QED BY <3>1, <3>2
  <2>4. K \cup {key} \in SUBSET (Kinds \X Seq(Nat))
    <3>1. kind \in Kinds
      BY DEF Kinds
    <3>2. 0 .. Len(s.g.nodes) \subseteq Nat
      OBVIOUS
    <3>3. ins \in Seq(Nat)
      BY <3>2, WiderSeq
    <3> QED BY <3>1, <3>3
  <2>5. hc1 \in Tables
    <3> HIDE DEF hc1, key
    <3> QED BY <2>3, <2>4 DEF Tables
  <2>6. HcFits(G, hc1)
    <3>1. ASSUME NEW k \in DOMAIN hc1 PROVE hc1[k] \in 0 .. Len(G.nodes)
      <4>1. CASE k = key
        BY <2>2, <4>1
      <4>2. CASE k # key
        <5>1. k \in DOMAIN s.hc /\ hc1[k] = s.hc[k]
          BY <4>2
        <5>2. Len(s.g.nodes) =< Len(G.nodes)
          BY <2>2 DEF Grown
        <5> HIDE DEF hc1, G, key
        <5> QED BY <1>0, <1>2, <2>2, <5>1, <5>2
      <4> QED BY <4>1, <4>2
    <3> HIDE DEF hc1, G
    <3> QED BY <3>1 DEF HcFits
  <2> HIDE DEF G, t, hc1, key
  <2>7. /\ t \in LowererRecords /\ t.g = G /\ t.id = Len(G.nodes) /\ t.ctrl = s.ctrl /\ t.b = s.b
        /\ t.heads = s.heads /\ t.sites = s.sites /\ t.eff = s.eff /\ t.hc = hc1
    BY <1>0, <2>1, <2>2, <2>5 DEF LowererRecords
  <2>8. After(s, t)
    BY <2>2, <2>6, <2>7, AfterOf
  <2> QED BY <2>8 DEF t
<1> QED BY <1>3, <1>4

(* A call and the projection of its result.                                    *)
LEMMA LowerCallSound ==
  ASSUME NEW s \in Lowerers, NEW arg \in 0 .. Len(s.g.nodes)
  PROVE  After(s, LowerCall(s, arg))
<1> DEFINE t == LowerCall(s, arg)
           call == NewId(s.g)
           G == MakeNode(s.g, "CallAltered", 0, <<s.ctrl, s.eff, arg>>)
           H == MakeProj(G, call, 0)
<1>0. /\ s.g \in Sound /\ s \in LowererRecords /\ Len(s.g.nodes) \in Nat
      /\ s.ctrl \in 0 .. Len(s.g.nodes) /\ s.eff \in 0 .. Len(s.g.nodes) /\ (DeadCode \/ s.eff # NoNode)
  BY LowererFacts
<1>1. Added(s.g, G, "CallAltered", <<s.ctrl, s.eff, arg>>)
  <2> DEFINE x == s.ctrl
             y == s.eff
  <2>1. x \in 0 .. Len(s.g.nodes) /\ y \in 0 .. Len(s.g.nodes) /\ (DeadCode \/ y # NoNode)
    BY <1>0
  <2> HIDE DEF x, y
  <2>2. Added(s.g, MakeNode(s.g, "CallAltered", 0, <<x, y, arg>>), "CallAltered", <<x, y, arg>>)
    BY <1>0, <2>1, AddCall
  <2> QED BY <2>2 DEF x, y
<1> HIDE DEF G
<1>2. G \in Sound /\ Grown(s.g, G) /\ call = Len(G.nodes) /\ Len(G.nodes) = Len(s.g.nodes) + 1
  BY <1>1 DEF Added, NewId
<1>3. Added(G, H, "Proj", <<call>>)
  <2> DEFINE z == 0
  <2>1. z \in Int /\ call \in 0 .. Len(G.nodes)
    BY <1>0, <1>2
  <2> HIDE DEF z, call
  <2>2. Added(G, MakeProj(G, call, z), "Proj", <<call>>)
    BY <1>2, <2>1, AddProj
  <2> QED BY <2>2 DEF z
<1> HIDE DEF H
<1>4. H \in Sound /\ Grown(s.g, H) /\ call + 1 = Len(H.nodes) /\ call \in 1 .. Len(H.nodes) /\ call + 1 \in Nat /\ call \in Nat
  <2>1. H \in Sound /\ Grown(G, H) /\ Len(H.nodes) = Len(G.nodes) + 1
    BY <1>3 DEF Added
  <2> HIDE DEF call
  <2> QED BY <1>0, <1>2, <2>1, GrownTrans
<1>5. t = [s EXCEPT !.g = H, !.eff = call, !.id = call + 1]
  BY DEF LowerCall, G, H
<1> HIDE DEF t, call
<1>6. /\ t \in LowererRecords /\ t.g = H /\ t.id = call + 1 /\ t.ctrl = s.ctrl /\ t.b = s.b
      /\ t.heads = s.heads /\ t.sites = s.sites /\ t.eff = call /\ t.hc = s.hc
  BY <1>0, <1>4, <1>5 DEF LowererRecords
<1>7. After(s, t)
  BY <1>4, <1>6, AfterOf
<1> QED BY <1>7 DEF t

(* lower_expr.                                                                 *)
LEMMA LowerExprSound ==
  ASSUME NEW s \in Lowerers, NEW e \in Expressions
  PROVE  After(s, LowerExpr(s, e))
<1> DEFINE s1 == LowerAtom(s, e.l)
           s2 == LowerAtom(s1, e.r)
<1>1. e.l \in Atoms /\ e.r \in Atoms /\ e.op \in {"atom", "Call"} \cup UnaryKinds \cup BinaryKinds
  BY DEF Expressions
<1>2. After(s, s1)
  BY <1>1, LowerAtomSound
<1> HIDE DEF s1
<1>3. s1 \in Lowerers
  BY <1>2 DEF After
<1>4. After(s1, s2)
  BY <1>1, <1>3, LowerAtomSound
<1> HIDE DEF s2
<1>5. s2 \in Lowerers /\ After(s, s2)
  BY <1>2, <1>4, AfterTrans DEF After
<1>6. /\ s1.g \in Sound /\ s2.g \in Sound /\ s1.id \in 0 .. Len(s1.g.nodes) /\ s2.id \in 0 .. Len(s2.g.nodes)
      /\ Len(s1.g.nodes) \in Nat /\ Len(s2.g.nodes) \in Nat /\ Len(s1.g.nodes) =< Len(s2.g.nodes)
  BY <1>3, <1>4, <1>5, LowererFacts DEF After, Grown
<1> DEFINE x == s1.id
           y == s2.id
<1>7. x \in 0 .. Len(s1.g.nodes) /\ x \in 0 .. Len(s2.g.nodes) /\ y \in 0 .. Len(s2.g.nodes)
  BY <1>6
<1> HIDE DEF x, y
<1>8. CASE e.op = "atom"
  <2>1. LowerExpr(s, e) = s1
    BY <1>8 DEF LowerExpr, s1, UnaryKinds
  <2> QED BY <1>2, <2>1
<1>9. CASE e.op = "Call"
  <2>1. LowerExpr(s, e) = LowerCall(s1, x)
    BY <1>9 DEF LowerExpr, s1, x, UnaryKinds
  <2>2. After(s1, LowerCall(s1, x))
    BY <1>3, <1>7, LowerCallSound
  <2>3. After(s, LowerCall(s1, x))
    BY <1>2, <2>2, AfterTrans
  <2> QED BY <2>1, <2>3
<1>10. CASE e.op \in UnaryKinds
  <2> DEFINE kind == e.op
             t == LookupOrInsert(s1, kind, <<x>>)
  <2>1. LowerExpr(s, e) = t
    BY <1>10 DEF LowerExpr, s1, x, UnaryKinds
  <2>2. kind \in UnaryKinds /\ kind \in UnaryKinds \cup BinaryKinds
    BY <1>10
  <2> HIDE DEF kind
  <2>3. Added(s1.g, MakeNode(s1.g, kind, 0, <<x>>), kind, <<x>>)
    BY <1>6, <1>7, <2>2, AddUnary
  <2>4. <<x>> \in Seq(0 .. Len(s1.g.nodes))
    BY <1>7
  <2>5. After(s1, t)
    BY <1>3, <2>2, <2>3, <2>4, LookupSound
  <2> HIDE DEF t
  <2>6. After(s, t)
    BY <1>2, <2>5, AfterTrans
  <2> QED BY <2>1, <2>6
<1>11. CASE e.op \in BinaryKinds
  <2> DEFINE kind == e.op
             t == LookupOrInsert(s2, kind, <<x, y>>)
  <2>1. LowerExpr(s, e) = t
    BY <1>11 DEF LowerExpr, s1, s2, x, y, UnaryKinds, BinaryKinds
  <2>2. kind \in BinaryKinds /\ kind \in UnaryKinds \cup BinaryKinds
    BY <1>11
  <2> HIDE DEF kind
  <2>3. Added(s2.g, MakeNode(s2.g, kind, 0, <<x, y>>), kind, <<x, y>>)
    BY <1>6, <1>7, <2>2, AddBinary
  <2>4. <<x, y>> \in Seq(0 .. Len(s2.g.nodes))
    BY <1>7
  <2>5. After(s2, t)
    BY <1>5, <2>2, <2>3, <2>4, LookupSound
  <2> HIDE DEF t
  <2>6. After(s, t)
    BY <1>5, <2>5, AfterTrans
  <2> QED BY <2>1, <2>6
<1> QED BY <1>1, <1>8, <1>9, <1>10, <1>11

(* In a loop every name is still bound to a node or to none.                   *)
LEMMA InLoopBound ==
  ASSUME NEW G \in Sound, NEW b \in [Names -> Nat], Bound(G, b), NEW loop, NEW accs \in Seq(Names),
         \A k \in 0 .. Len(accs) : PhiAt(loop, k) \in 1 .. Len(G.nodes)
  PROVE  InLoop(b, loop, accs) \in [Names -> Nat] /\ Bound(G, InLoop(b, loop, accs))
<1> DEFINE c == InLoop(b, loop, accs)
           at(x) == CHOOSE k \in DOMAIN accs : accs[k] = x
<1>0. Len(G.nodes) \in Nat /\ DOMAIN b = Names
  BY GraphFacts DEF Sound
<1>1. c = [x \in Names |-> IF x \in ToSet(accs) THEN PhiAt(loop, at(x)) ELSE b[x]]
  BY <1>0 DEF InLoop
<1>2. ASSUME NEW x \in Names PROVE c[x] \in 0 .. Len(G.nodes) /\ c[x] \in Nat
  <2>1. CASE x \in ToSet(accs)
    <3>1. \E k \in DOMAIN accs : accs[k] = x
      BY <2>1 DEF ToSet
    <3>2. at(x) \in DOMAIN accs
      BY <3>1
    <3> HIDE DEF at
    <3>3. at(x) \in 0 .. Len(accs)
      BY <3>2
    <3>4. PhiAt(loop, at(x)) \in 1 .. Len(G.nodes)
      BY <3>3
    <3>5. c[x] = PhiAt(loop, at(x))
      BY <1>1, <2>1
    <3> HIDE DEF c
    <3> QED BY <1>0, <3>4, <3>5
  <2>2. CASE x \notin ToSet(accs)
    <3>1. c[x] = b[x]
      BY <1>1, <2>2
    <3>2. b[x] \in 0 .. Len(G.nodes) /\ b[x] \in Nat
      BY DEF Bound
    <3> HIDE DEF c
    <3> QED BY <3>1, <3>2
  <2> QED BY <2>1, <2>2
<1>3. c = [x \in Names |-> c[x]]
  BY <1>1
<1> HIDE DEF c
<1>4. c \in [Names -> Nat] /\ Bound(G, c)
  BY <1>2, <1>3 DEF Bound
<1> QED BY <1>4 DEF c

(* A step that opens or closes a loop.                                         *)
Steps(s, t) == t \in Lowerers /\ Grown(s.g, t.g)

(* The head of a loop: the exit test is made after the phis it reads.          *)
LEMMA ForHeaderSound ==
  ASSUME NEW s \in Lowerers, NEW f, f.lo \in Expressions, f.hi \in Expressions, f.x \in Names,
         NEW body \in Seq(StepsOf)
  PROVE  Steps(s, ForHeader(s, f, body)) /\ Len(ForHeader(s, f, body).heads) = Len(s.heads) + 1
<1> DEFINE lo == LowerExpr(s, f.lo)
           hi == LowerExpr(lo, f.hi)
           accs == Accumulators(s.b, body)
           loop == NewId(hi.g)
           test == TestAt(loop, accs)
           A1 == MakeNode(hi.g, "Loop", 0, <<s.ctrl, s.ctrl>>)
           A2 == MakeNode(A1, "Phi", 0, <<loop, lo.id, NoNode>>)
           A3 == AccPhis(A2, loop, s.b, accs)[Len(accs)]
           A4 == MakeNode(A3, "CmpLt", 0, <<PhiAt(loop, 0), hi.id>>)
           A5 == MakeNode(A4, "If", 0, <<loop, test - 1>>)
           A6 == MakeProj(A5, test, 0)
           A7 == MakeProj(A6, test, 1)
           h == [loop |-> loop, accs |-> accs, b |-> s.b, eff |-> hi.eff]
           c == [InLoop(s.b, loop, accs) EXCEPT ![f.x] = PhiAt(loop, 0)]
           t == ForHeader(s, f, body)
           N == Len(hi.g.nodes)
           n == Len(accs)
<1>t. t = [hi EXCEPT !.g = A7, !.ctrl = test + 1, !.b = c, !.heads = Append(@, h)]
  BY DEF ForHeader, LoopOpened
<1> HIDE DEF t
<1>1. After(s, lo)
  BY LowerExprSound
<1> HIDE DEF lo
<1>2. After(lo, hi)
  BY <1>1, LowerExprSound DEF After
<1> HIDE DEF hi
<1>3. After(s, hi)
  BY <1>1, <1>2, AfterTrans
<1>4. accs \in Seq(Names)
  BY AccumulatorsType
<1> HIDE DEF accs
<1>5. /\ N \in Nat /\ n \in Nat /\ hi.g \in Sound /\ lo.g \in Sound /\ s.g \in Sound /\ Grown(s.g, hi.g)
      /\ s.ctrl \in 0 .. N /\ lo.id \in 0 .. N /\ hi.id \in 0 .. N /\ hi.eff \in 0 .. N
      /\ s.b \in [Names -> Nat] /\ Bound(hi.g, s.b)
      /\ DeadCode \/ hi.eff # NoNode
  <2>1. /\ hi \in Lowerers /\ hi.ctrl = s.ctrl /\ hi.b = s.b /\ Grown(lo.g, hi.g) /\ Grown(s.g, hi.g) /\ lo \in Lowerers
    BY <1>1, <1>2, <1>3 DEF After
  <2>2. /\ hi.g \in Sound /\ lo.g \in Sound /\ s.g \in Sound /\ N \in Nat /\ lo.id \in 0 .. Len(lo.g.nodes)
        /\ hi.ctrl \in 0 .. N /\ hi.id \in 0 .. N /\ hi.eff \in 0 .. N /\ (DeadCode \/ hi.eff # NoNode)
        /\ Len(lo.g.nodes) \in Nat
    BY <2>1, LowererFacts
  <2>3. lo.id \in 0 .. N
    BY <2>1, <2>2 DEF Grown
  <2>4. s.b \in [Names -> Nat] /\ Bound(hi.g, s.b)
    BY <2>1 DEF Lowerers, LowererRecords, Fits
  <2>5. n \in Nat
    BY <1>4
  <2> QED BY <2>1, <2>2, <2>3, <2>4, <2>5
<1>6. loop = N + 1 /\ test = N + n + 4 /\ PhiAt(loop, 0) = N + 2 /\ \A k \in Nat : PhiAt(loop, k) = N + 2 + k
  BY <1>5 DEF NewId, TestAt, PhiAt
<1>61. N = Len(hi.g.nodes) /\ n = Len(accs) /\ loop = NewId(hi.g) /\ test = TestAt(loop, accs)
  OBVIOUS
<1> HIDE DEF N, n, loop, test
<1>62. N \in Nat /\ n \in Nat /\ loop \in Nat /\ test \in Nat /\ loop = N + 1 /\ test = N + n + 4 /\ PhiAt(loop, 0) = N + 2
  BY <1>5, <1>6
<1>7. Added(hi.g, A1, "Loop", <<s.ctrl, s.ctrl>>)
  <2> DEFINE x == s.ctrl
  <2>1. x \in 0 .. Len(hi.g.nodes)
    BY <1>5, <1>61
  <2> HIDE DEF x
  <2>2. Added(hi.g, MakeNode(hi.g, "Loop", 0, <<x, x>>), "Loop", <<x, x>>)
    BY <1>5, <2>1, AddLoop
  <2> QED BY <2>2 DEF x
<1> HIDE DEF A1
<1>8. A1 \in Sound /\ Len(A1.nodes) = N + 1 /\ Grown(s.g, A1) /\ Kind(A1, loop) = "Loop" /\ Grown(hi.g, A1)
  BY <1>5, <1>61, <1>62, <1>7, GrownTrans DEF Added
<1>9. Added(A1, A2, "Phi", <<loop, lo.id, NoNode>>)
  <2> DEFINE x == loop
             y == lo.id
  <2>1. x \in 0 .. Len(A1.nodes) /\ NoNode \in 0 .. Len(A1.nodes)
    BY <1>62, <1>8 DEF NoNode
  <2>3. y \in 0 .. Len(A1.nodes)
    <3>1. y \in 0 .. N /\ N \in Nat
      BY <1>5
    <3> HIDE DEF y
    <3> QED BY <1>8, <3>1
  <2> HIDE DEF x, y
  <2>2. Added(A1, MakeNode(A1, "Phi", 0, <<x, y, NoNode>>), "Phi", <<x, y, NoNode>>)
    BY <1>8, <2>1, <2>3, AddPhi
  <2> QED BY <2>2 DEF x, y
<1> HIDE DEF A2
<1>10. /\ A2 \in Sound /\ Len(A2.nodes) = N + 2 /\ Grown(s.g, A2) /\ Grown(A1, A2) /\ Kind(A2, N + 2) = "Phi"
       /\ Grown(hi.g, A2)
  <2>1. A2 \in Sound /\ Grown(A1, A2) /\ Len(A2.nodes) = Len(A1.nodes) + 1 /\ Kind(A2, Len(A1.nodes) + 1) = "Phi"
    BY <1>9 DEF Added
  <2>2. Len(A1.nodes) + 1 = N + 2
    BY <1>62, <1>8
  <2>3. Grown(s.g, A2) /\ Grown(hi.g, A2)
    BY <1>5, <1>8, <2>1, GrownTrans
  <2> QED BY <2>1, <2>2, <2>3
<1>11. /\ A3 \in Sound /\ Grown(A2, A3) /\ Len(A3.nodes) = N + 2 + n
       /\ \A i \in 1 .. n : Kind(A3, N + 2 + i) = "Phi"
  <2> DEFINE b == s.b
  <2>1. Bound(A2, b)
    BY <1>5, <1>10, BoundStays
  <2>2. loop \in 0 .. Len(A2.nodes) /\ \A x \in Names : b[x] \in 0 .. Len(A2.nodes)
    <3>1. loop \in 0 .. Len(A2.nodes)
      BY <1>62, <1>10
    <3> HIDE DEF b
    <3> QED BY <2>1, <3>1 DEF Bound
  <2> DEFINE H == AccPhis(A2, loop, b, accs)[Len(accs)]
  <2> HIDE DEF b, H
  <2>3. /\ H \in Sound /\ Grown(A2, H) /\ Len(H.nodes) = Len(A2.nodes) + Len(accs)
        /\ \A i \in 1 .. Len(accs) : Kind(H, Len(A2.nodes) + i) = "Phi"
    BY <1>4, <1>10, <2>2, AccPhisSound DEF H
  <2>4. H = A3
    BY DEF H, b
  <2> HIDE DEF A3
  <2> QED BY <1>10, <1>61, <2>3, <2>4
<1> HIDE DEF A3
<1>12. Added(A3, A4, "CmpLt", <<PhiAt(loop, 0), hi.id>>)
  <2> DEFINE x == PhiAt(loop, 0)
             y == hi.id
  <2>1. x \in 0 .. Len(A3.nodes) /\ "CmpLt" \in BinaryKinds
    <3>1. x = N + 2
      BY <1>62
    <3> HIDE DEF x
    <3> QED BY <1>62, <1>11, <3>1 DEF BinaryKinds
  <2>3. y \in 0 .. Len(A3.nodes)
    <3>1. y \in 0 .. N /\ N \in Nat
      BY <1>5
    <3> HIDE DEF y
    <3> QED BY <1>62, <1>11, <3>1
  <2> HIDE DEF x, y
  <2>2. Added(A3, MakeNode(A3, "CmpLt", 0, <<x, y>>), "CmpLt", <<x, y>>)
    BY <1>11, <2>1, <2>3, AddBinary
  <2> QED BY <2>2 DEF x, y
<1> HIDE DEF A4
<1>13. A4 \in Sound /\ Grown(A3, A4) /\ Len(A4.nodes) = N + n + 3
  <2>1. Len(A3.nodes) + 1 = N + n + 3
    BY <1>62, <1>11
  <2> QED BY <1>12, <2>1 DEF Added
<1>14. Added(A4, A5, "If", <<loop, test - 1>>)
  <2> DEFINE x == loop
             y == test - 1
  <2>1. x \in 0 .. Len(A4.nodes) /\ y \in 0 .. Len(A4.nodes)
    BY <1>62, <1>13
  <2> HIDE DEF x, y
  <2>2. Added(A4, MakeNode(A4, "If", 0, <<x, y>>), "If", <<x, y>>)
    BY <1>13, <2>1, AddIf
  <2> QED BY <2>2 DEF x, y
<1> HIDE DEF A5
<1>15. A5 \in Sound /\ Grown(A4, A5) /\ Len(A5.nodes) = test
  <2>1. Len(A4.nodes) + 1 = test
    BY <1>62, <1>13
  <2> QED BY <1>14, <2>1 DEF Added
<1>16. Added(A5, A6, "Proj", <<test>>)
  <2> DEFINE x == test
             w == 0
  <2>1. x \in 0 .. Len(A5.nodes) /\ w \in Int
    BY <1>62, <1>15
  <2> HIDE DEF x, w
  <2>2. Added(A5, MakeProj(A5, x, w), "Proj", <<x>>)
    BY <1>15, <2>1, AddProj
  <2> QED BY <2>2 DEF x, w
<1> HIDE DEF A6
<1>17. A6 \in Sound /\ Grown(A5, A6) /\ Len(A6.nodes) = test + 1
  BY <1>15, <1>16 DEF Added
<1>18. Added(A6, A7, "Proj", <<test>>)
  <2> DEFINE x == test
             w == 1
  <2>1. x \in 0 .. Len(A6.nodes) /\ w \in Int
    BY <1>62, <1>17
  <2> HIDE DEF x, w
  <2>2. Added(A6, MakeProj(A6, x, w), "Proj", <<x>>)
    BY <1>17, <2>1, AddProj
  <2> QED BY <2>2 DEF x, w
<1> HIDE DEF A7
<1>19. A7 \in Sound /\ Grown(A6, A7) /\ Len(A7.nodes) = test + 2
  <2>1. Len(A6.nodes) + 1 = test + 2
    BY <1>62, <1>17
  <2> QED BY <1>18, <2>1 DEF Added
<1>20. Grown(A3, A7)
  <2>1. Grown(A3, A5)
    BY <1>11, <1>13, <1>15, GrownTrans
  <2>2. Grown(A3, A6)
    BY <1>11, <1>15, <1>17, <2>1, GrownTrans
  <2> QED BY <1>11, <1>17, <1>19, <2>2, GrownTrans
<1>21. Grown(A1, A7) /\ Grown(s.g, A7) /\ Grown(hi.g, A7) /\ Grown(A2, A7)
  <2>1. Grown(A2, A7)
    BY <1>10, <1>11, <1>19, <1>20, GrownTrans
  <2> QED BY <1>5, <1>8, <1>10, <1>19, <2>1, GrownTrans
<1>22. /\ loop \in 1 .. Len(A7.nodes) /\ Kind(A7, loop) = "Loop"
       /\ \A k \in 0 .. n : PhiAt(loop, k) \in 1 .. Len(A7.nodes) /\ Kind(A7, PhiAt(loop, k)) = "Phi"
  <2>1. loop \in 1 .. Len(A7.nodes) /\ Kind(A7, loop) = "Loop"
    <3>1. loop \in 1 .. Len(A1.nodes)
      BY <1>62, <1>8
    <3>2. Kind(A7, loop) = Kind(A1, loop) /\ loop \in Ids(A7) /\ Ids(A7) = 1 .. Len(A7.nodes)
      BY <1>8, <1>19, <1>21, <3>1, GrownFacts
    <3> QED BY <1>8, <3>2
  <2>2. ASSUME NEW k \in 0 .. n PROVE PhiAt(loop, k) \in 1 .. Len(A7.nodes) /\ Kind(A7, PhiAt(loop, k)) = "Phi"
    <3> DEFINE p == N + 2 + k
    <3>0. PhiAt(loop, k) = p
      BY <1>62, <1>6
    <3>1. p \in 1 .. Len(A3.nodes)
      BY <1>62, <1>11
    <3>2. Kind(A3, p) = "Phi"
      <4>1. CASE k = 0
        <5>1. p = N + 2 /\ p \in 1 .. Len(A2.nodes)
          BY <1>62, <1>10, <4>1
        <5> HIDE DEF p
        <5>2. Kind(A3, p) = Kind(A2, p)
          BY <1>10, <1>11, <5>1, GrownFacts
        <5> QED BY <1>10, <5>1, <5>2
      <4>2. CASE k # 0
        <5>1. k \in 1 .. n
          BY <1>62, <4>2
        <5> QED BY <1>11, <5>1
      <4> QED BY <4>1, <4>2
    <3> HIDE DEF p
    <3>3. Kind(A7, p) = Kind(A3, p) /\ p \in Ids(A7) /\ Ids(A7) = 1 .. Len(A7.nodes)
      BY <1>11, <1>19, <1>20, <3>1, GrownFacts
    <3> QED BY <3>0, <3>2, <3>3
  <2> QED BY <2>1, <2>2
<1>23. c \in [Names -> Nat] /\ Bound(A7, c)
  <2> DEFINE b == s.b
             d == InLoop(b, loop, accs)
  <2>1. b \in [Names -> Nat] /\ Bound(A7, b)
    BY <1>5, <1>19, <1>21, BoundStays
  <2>2. d \in [Names -> Nat] /\ Bound(A7, d)
    <3> HIDE DEF b
    <3> QED BY <1>4, <1>19, <1>22, <1>61, <2>1, InLoopBound
  <2>3. PhiAt(loop, 0) \in Nat /\ PhiAt(loop, 0) \in 0 .. Len(A7.nodes)
    BY <1>62, <1>19
  <2> DEFINE v == PhiAt(loop, 0)
  <2> HIDE DEF d, v
  <2>4. [d EXCEPT ![f.x] = v] \in [Names -> Nat] /\ Bound(A7, [d EXCEPT ![f.x] = v])
    BY <2>2, <2>3 DEF Bound, v
  <2> QED BY <2>4 DEF d, v
<1>24. h \in HeadRecords /\ HeadFits(A7, h)
  <2>1. h \in HeadRecords
    <3>1. hi.eff \in Nat /\ s.b \in [Names -> Nat]
      BY <1>5
    <3> QED BY <1>4, <1>62, <3>1 DEF HeadRecords
  <2>2. h.loop = loop /\ h.accs = accs /\ h.b = s.b /\ h.eff = hi.eff
    OBVIOUS
  <2>3. TestAt(loop, accs) + 2 \in 1 .. Len(A7.nodes)
    BY <1>61, <1>62, <1>19
  <2>5. hi.eff \in 0 .. Len(A7.nodes)
    <3> DEFINE e == hi.eff
    <3>1. e \in 0 .. N
      BY <1>5
    <3> HIDE DEF e
    <3>2. e \in 0 .. Len(A7.nodes)
      BY <1>62, <1>19, <3>1
    <3> QED BY <3>2 DEF e
  <2>4. Bound(A7, s.b)
    BY <1>5, <1>19, <1>21, BoundStays
  <2> HIDE DEF h
  <2> QED BY <1>22, <1>61, <2>1, <2>2, <2>3, <2>4, <2>5 DEF HeadFits
<1>25. hi \in LowererRecords /\ hi \in Lowerers /\ hi.heads = s.heads /\ hi.heads \in Seq(HeadRecords)
  BY <1>3 DEF After, Lowerers, LowererRecords
<1>26. test + 1 \in Nat /\ test + 1 \in 0 .. Len(A7.nodes)
  BY <1>62, <1>19
<1> DEFINE k == test + 1
           hs == Append(hi.heads, h)
<1> HIDE DEF c, h
<1>27. hs \in Seq(HeadRecords) /\ Len(hs) = Len(s.heads) + 1 /\ \A i \in 1 .. Len(hs) : HeadFits(A7, hs[i])
  <2>1. Fits(A7, hi)
    BY <1>19, <1>21, <1>25, FitsStays
  <2>2. \A i \in 1 .. Len(hi.heads) : HeadFits(A7, hi.heads[i])
    BY <2>1 DEF Fits
  <2>3. /\ hs \in Seq(HeadRecords) /\ Len(hs) = Len(hi.heads) + 1 /\ Len(hi.heads) \in Nat
        /\ hs[Len(hi.heads) + 1] = h /\ \A i \in 1 .. Len(hi.heads) : hs[i] = hi.heads[i]
    BY <1>24, <1>25, AppendProperties
  <2> HIDE DEF hs
  <2>4. ASSUME NEW i \in 1 .. Len(hs) PROVE HeadFits(A7, hs[i])
    <3>1. CASE i = Len(hi.heads) + 1
      BY <1>24, <2>3, <3>1
    <3>2. CASE i # Len(hi.heads) + 1
      <4>1. i \in 1 .. Len(hi.heads)
        BY <2>3, <3>2
      <4> QED BY <2>2, <2>3, <4>1
    <3> QED BY <3>1, <3>2
  <2> QED BY <1>25, <2>3, <2>4
<1>28. t = [hi EXCEPT !.g = A7, !.ctrl = k, !.b = c, !.heads = hs]
  BY <1>t
<1> HIDE DEF hs, k
<1>29. /\ t \in LowererRecords /\ t.g = A7 /\ t.id = hi.id /\ t.ctrl = k /\ t.b = c
       /\ t.heads = hs /\ t.eff = hi.eff /\ t.hc = hi.hc
  BY <1>19, <1>23, <1>25, <1>26, <1>27, <1>28 DEF LowererRecords, k
<1>30. Fits(A7, t)
  <2>1. Fits(A7, hi)
    BY <1>19, <1>21, <1>25, FitsStays
  <2>2. k \in 0 .. Len(A7.nodes)
    BY <1>26 DEF k
  <2> QED BY <1>23, <1>27, <1>29, <2>1, <2>2 DEF Fits
<1>31. t \in Lowerers
  BY <1>5, <1>29, <1>30 DEF Lowerers
<1> QED BY <1>21, <1>27, <1>29, <1>31 DEF Steps, t

LEMMA FrontFacts ==
  ASSUME NEW S, NEW s \in Seq(S), s # << >>
  PROVE  /\ Front(s) \in Seq(S) /\ Len(Front(s)) = Len(s) - 1
         /\ \A i \in 1 .. Len(s) - 1 : Front(s)[i] = s[i]
<1> DEFINE x == 0
<1> HIDE DEF x
<1>1. /\ Front(s) \in Seq(S) /\ Len(Front(s)) = Len(s) - 1
      /\ \A i \in 1 .. Len(s) - 1 : Front(s)[i] = s[i]
      /\ EdgeCount(Front(s), x) + One(x, s[Len(s)]) = EdgeCount(s, x)
  BY CountFront
<1> QED BY <1>1

(* The end of a loop: the back edges are set and the names get their phis.     *)
LEMMA ForEndSound ==
  ASSUME NEW s \in Lowerers, Len(s.heads) > 0
  PROVE  Steps(s, ForEnd(s)) /\ Len(ForEnd(s).heads) = Len(s.heads) - 1
<1> DEFINE h == Last(s.heads)
           exit == TestAt(h.loop, h.accs) + 2
           phi == PhiAt(h.loop, 0)
           s0 == [s EXCEPT !.g = MakeConstant(@, 1)]
           next == LookupOrInsert(s0, "Add", <<phi, NewId(s.g)>>)
           B1 == SetInput(next.g, phi, 3, next.id)
           B2 == BackEdges(B1, h.loop, next.b, h.accs)[Len(h.accs)]
           B3 == SetInput(B2, h.loop, 1, next.ctrl)
           B4 == MakeNode(B3, "Phi", 0, <<exit, h.eff, next.eff>>)
           c == InLoop(h.b, h.loop, h.accs)
           t == ForEnd(s)
<1>t. t = [next EXCEPT !.g = B4, !.ctrl = exit, !.eff = NewId(next.g), !.b = c, !.heads = Front(@)]
  BY DEF ForEnd
<1> HIDE DEF t
<1>1. /\ s.g \in Sound /\ s \in LowererRecords /\ Len(s.g.nodes) \in Nat /\ Fits(s.g, s)
      /\ s.heads \in Seq(HeadRecords) /\ s.heads # << >>
  <2>1. s.heads \in Seq(HeadRecords)
    BY DEF Lowerers, LowererRecords
  <2> QED BY <2>1, LowererFacts DEF Lowerers
<1>2. h \in HeadRecords /\ HeadFits(s.g, h)
  <2>1. Len(s.heads) \in 1 .. Len(s.heads) /\ h = s.heads[Len(s.heads)]
    BY <1>1 DEF Last
  <2>2. h \in HeadRecords
    BY <1>1, <2>1, ElementOfSeq
  <2> HIDE DEF h
  <2> QED BY <1>1, <2>1, <2>2 DEF Fits
<1> HIDE DEF h
<1>3. h.accs \in Seq(Names) /\ h.b \in [Names -> Nat]
  BY <1>2 DEF HeadRecords
<1>4. After(s, s0) /\ NewId(s.g) \in 0 .. Len(s0.g.nodes)
  <2> DEFINE G == MakeConstant(s.g, 1)
  <2>1. Added(s.g, G, "Constant", << >>)
    <3> DEFINE v == 1
    <3>1. v \in Int
      OBVIOUS
    <3> HIDE DEF v
    <3>2. Added(s.g, MakeConstant(s.g, v), "Constant", << >>)
      BY <1>1, <3>1, AddConstant
    <3> QED BY <3>2 DEF v
  <2>2. s0 = [s EXCEPT !.g = G]
    OBVIOUS
  <2> HIDE DEF G, s0
  <2>3. G \in Sound /\ Grown(s.g, G) /\ NewId(s.g) = Len(G.nodes) /\ Len(G.nodes) \in Nat
    BY <1>1, <2>1 DEF Added, NewId
  <2>4. /\ s0 \in LowererRecords /\ s0.g = G /\ s0.id = s.id /\ s0.ctrl = s.ctrl /\ s0.b = s.b
        /\ s0.heads = s.heads /\ s0.sites = s.sites /\ s0.eff = s.eff /\ s0.hc = s.hc
    BY <1>1, <2>2, <2>3 DEF LowererRecords
  <2>5. s.id \in 0 .. Len(G.nodes)
    <3>1. Fits(G, s)
      BY <2>3, FitsStays
    <3> QED BY <3>1 DEF Fits
  <2>6. After(s, s0)
    BY <2>3, <2>4, <2>5, AfterOf
  <2> QED BY <2>3, <2>4, <2>6
<1> HIDE DEF s0
<1>5. s0 \in Lowerers /\ s0.g \in Sound /\ HeadFits(s0.g, h)
  <2>1. s0 \in Lowerers /\ s0.g \in Sound /\ Grown(s.g, s0.g)
    BY <1>4, LowererFacts DEF After
  <2> QED BY <1>1, <1>2, <2>1, HeadStays
<1>6. After(s0, next)
  <2> DEFINE x == phi
             y == NewId(s.g)
  <2>1. Len(h.accs) \in Nat
    BY <1>3
  <2>2. 0 \in 0 .. Len(h.accs)
    BY <2>1
  <2>3. x \in 0 .. Len(s0.g.nodes) /\ y \in 0 .. Len(s0.g.nodes) /\ "Add" \in BinaryKinds
    BY <1>4, <1>5, <2>2 DEF HeadFits, BinaryKinds
  <2> HIDE DEF x, y
  <2>4. Added(s0.g, MakeNode(s0.g, "Add", 0, <<x, y>>), "Add", <<x, y>>)
    BY <1>5, <2>3, AddBinary
  <2>5. <<x, y>> \in Seq(0 .. Len(s0.g.nodes)) /\ "Add" \in UnaryKinds \cup BinaryKinds
    BY <2>3
  <2>6. After(s0, LookupOrInsert(s0, "Add", <<x, y>>))
    BY <1>5, <2>4, <2>5, LookupSound
  <2> QED BY <2>6 DEF x, y
<1> HIDE DEF next
<1>7. After(s, next)
  BY <1>4, <1>6, AfterTrans
<1> DEFINE G == next.g
           N == Len(G.nodes)
<1>8. /\ next \in Lowerers /\ next \in LowererRecords /\ G \in Sound /\ Grown(s.g, G) /\ N \in Nat /\ Ids(G) = 1 .. N
      /\ next.heads = s.heads
  <2>1. next \in Lowerers /\ Grown(s.g, next.g) /\ next.heads = s.heads
    BY <1>7 DEF After
  <2>2. next.g \in Sound /\ next \in LowererRecords
    BY <2>1, LowererFacts
  <2> QED BY <2>1, <2>2, GraphFacts DEF Sound
<1>9. HeadFits(G, h) /\ Fits(G, next)
  BY <1>1, <1>2, <1>8, HeadStays DEF Lowerers
<1>10. /\ phi \in 1 .. N /\ Kind(G, phi) = "Phi" /\ h.loop \in 1 .. N /\ Kind(G, h.loop) = "Loop"
       /\ \A k \in 0 .. Len(h.accs) : PhiAt(h.loop, k) \in 1 .. N /\ Kind(G, PhiAt(h.loop, k)) = "Phi"
       /\ exit \in 1 .. N /\ h.eff \in 0 .. N /\ next.eff \in 0 .. N /\ next.ctrl \in 0 .. N /\ next.id \in 0 .. N
       /\ \A x \in Names : next.b[x] \in 0 .. N
  <2>1. 0 \in 0 .. Len(h.accs)
    BY <1>3
  <2> HIDE DEF G
  <2> QED BY <1>9, <2>1 DEF HeadFits, Fits, Bound
<1>11. B1 \in Sound /\ Grown(G, B1) /\ Len(B1.nodes) = N
  <2> DEFINE p == phi
             v == next.id
             i == 3
  <2>1. p \in Ids(G) /\ Kind(G, p) \in {"Phi", "Loop"} /\ v \in 0 .. Len(G.nodes)
    BY <1>8, <1>10
  <2>2. i \in 1 .. Arity(Kind(G, p))
    BY <1>10 DEF Arity, UnaryKinds
  <2> HIDE DEF p, v, i, G
  <2>3. /\ SetInput(G, p, i, v) \in Sound /\ Grown(G, SetInput(G, p, i, v))
        /\ Len(SetInput(G, p, i, v).nodes) = Len(G.nodes)
    BY <1>8, <2>1, <2>2, SetInputSound
  <2> QED BY <2>3 DEF p, v, i, G
<1> HIDE DEF B1
<1>12. B2 \in Sound /\ Grown(B1, B2) /\ Len(B2.nodes) = N
  <2> DEFINE b == next.b
             loop == h.loop
             accs == h.accs
             H == BackEdges(B1, loop, b, accs)[Len(accs)]
  <2>1. accs \in Seq(Names) /\ \A x \in Names : b[x] \in 0 .. Len(B1.nodes)
    BY <1>3, <1>10, <1>11
  <2>2. \A k \in 1 .. Len(accs) : PhiAt(loop, k) \in Ids(B1) /\ Kind(B1, PhiAt(loop, k)) = "Phi"
    <3>1. Len(accs) \in Nat
      BY <2>1
    <3>2. \A k \in 1 .. Len(accs) : PhiAt(loop, k) \in 1 .. N /\ Kind(G, PhiAt(loop, k)) = "Phi"
      BY <1>10, <3>1
    <3>3. \A n \in 1 .. N : n \in Ids(B1) /\ Kind(B1, n) = Kind(G, n)
      BY <1>8, <1>11, GrownFacts
    <3> HIDE DEF G, N, loop, accs
    <3> QED BY <3>2, <3>3
  <2> HIDE DEF b, loop, accs, H, G, N
  <2>3. H \in Sound /\ Grown(B1, H) /\ Len(H.nodes) = Len(B1.nodes)
    BY <1>11, <2>1, <2>2, BackEdgesSound DEF H
  <2>4. H = B2
    BY DEF H, b, loop, accs
  <2> HIDE DEF B2
  <2> QED BY <1>11, <2>3, <2>4
<1> HIDE DEF B2
<1>13. B3 \in Sound /\ Grown(B2, B3) /\ Len(B3.nodes) = N
  <2> DEFINE p == h.loop
             v == next.ctrl
             i == 1
  <2>1. Kind(B2, p) = "Loop" /\ p \in Ids(B2)
    <3>1. Grown(G, B2)
      BY <1>8, <1>11, <1>12, GrownTrans
    <3>2. \A n \in 1 .. Len(G.nodes) : n \in Ids(B2) /\ Kind(B2, n) = Kind(G, n)
      BY <1>8, <1>12, <3>1, GrownFacts
    <3> HIDE DEF p
    <3> QED BY <1>10, <3>2 DEF p
  <2>2. v \in 0 .. Len(B2.nodes)
    BY <1>10, <1>12
  <2>3. i \in 1 .. Arity(Kind(B2, p)) /\ Kind(B2, p) \in {"Phi", "Loop"}
    BY <2>1 DEF Arity, UnaryKinds
  <2> HIDE DEF p, v, i, G, N
  <2>4. /\ SetInput(B2, p, i, v) \in Sound /\ Grown(B2, SetInput(B2, p, i, v))
        /\ Len(SetInput(B2, p, i, v).nodes) = Len(B2.nodes)
    BY <1>12, <2>1, <2>2, <2>3, SetInputSound
  <2> QED BY <1>12, <2>4 DEF p, v, i
<1> HIDE DEF B3
<1>14. Added(B3, B4, "Phi", <<exit, h.eff, next.eff>>)
  <2> DEFINE x == exit
             y == h.eff
             z == next.eff
  <2>1. x \in 0 .. Len(B3.nodes) /\ y \in 0 .. Len(B3.nodes) /\ z \in 0 .. Len(B3.nodes)
    BY <1>10, <1>13
  <2> HIDE DEF x, y, z
  <2>2. Added(B3, MakeNode(B3, "Phi", 0, <<x, y, z>>), "Phi", <<x, y, z>>)
    BY <1>13, <2>1, AddPhi
  <2> QED BY <2>2 DEF x, y, z
<1> HIDE DEF B4
<1>15. B4 \in Sound /\ Grown(G, B4) /\ Grown(s.g, B4) /\ Len(B4.nodes) = N + 1
  <2>1. B4 \in Sound /\ Grown(B3, B4) /\ Len(B4.nodes) = N + 1
    BY <1>13, <1>14 DEF Added
  <2> HIDE DEF G, N
  <2>2. Grown(B2, B4)
    BY <1>12, <1>13, <2>1, GrownTrans
  <2>3. Grown(B1, B4)
    BY <1>11, <1>12, <2>1, <2>2, GrownTrans
  <2>4. Grown(G, B4)
    BY <1>8, <1>11, <2>1, <2>3, GrownTrans
  <2>5. Grown(s.g, B4)
    BY <1>1, <1>8, <2>1, <2>4, GrownTrans
  <2> QED BY <2>1, <2>4, <2>5
<1>16. c \in [Names -> Nat] /\ Bound(B4, c)
  <2> DEFINE b == h.b
             loop == h.loop
             accs == h.accs
  <2>1. b \in [Names -> Nat] /\ accs \in Seq(Names) /\ HeadFits(B4, h)
    BY <1>3, <1>8, <1>9, <1>15, HeadStays
  <2>2. Bound(B4, b) /\ \A k \in 0 .. Len(accs) : PhiAt(loop, k) \in 1 .. Len(B4.nodes)
    BY <2>1 DEF HeadFits
  <2> HIDE DEF b, loop, accs
  <2>3. InLoop(b, loop, accs) \in [Names -> Nat] /\ Bound(B4, InLoop(b, loop, accs))
    BY <1>15, <2>1, <2>2, InLoopBound
  <2> QED BY <2>3 DEF b, loop, accs
<1>17. NewId(next.g) = N + 1
  BY DEF NewId
<1> DEFINE e == NewId(next.g)
           hs == Front(next.heads)
<1>18. e \in 1 .. Len(B4.nodes) /\ e \in Nat /\ exit \in 0 .. Len(B4.nodes) /\ exit \in Nat
  <2> HIDE DEF N
  <2> DEFINE x == exit
  <2>1. x \in 1 .. N /\ N \in Nat
    BY <1>8, <1>10
  <2> HIDE DEF x, e
  <2>2. e = N + 1
    BY <1>17 DEF e
  <2>3. x \in 0 .. Len(B4.nodes) /\ x \in Nat /\ e \in 1 .. Len(B4.nodes) /\ e \in Nat
    BY <1>15, <2>1, <2>2
  <2> QED BY <2>3 DEF x
<1> DEFINE x == exit
<1> HIDE DEF c
<1>19. hs \in Seq(HeadRecords) /\ Len(hs) = Len(s.heads) - 1 /\ \A i \in 1 .. Len(hs) : HeadFits(B4, hs[i])
  <2>1. Fits(B4, next)
    <3> HIDE DEF G
    <3> QED BY <1>8, <1>15, FitsStays DEF G
  <2>2. \A i \in 1 .. Len(next.heads) : HeadFits(B4, next.heads[i])
    BY <2>1 DEF Fits
  <2> DEFINE q == next.heads
  <2>3. q \in Seq(HeadRecords) /\ q # << >> /\ Len(q) = Len(s.heads) /\ Len(q) \in Nat
    BY <1>1, <1>8
  <2>4. hs = Front(q)
    OBVIOUS
  <2>5. \A i \in 1 .. Len(q) : HeadFits(B4, q[i])
    BY <2>2
  <2> HIDE DEF hs, q
  <2>6. hs \in Seq(HeadRecords) /\ Len(hs) = Len(q) - 1 /\ \A i \in 1 .. Len(q) - 1 : hs[i] = q[i]
    BY <2>3, <2>4, FrontFacts
  <2>7. \A i \in 1 .. Len(hs) : i \in 1 .. Len(q) /\ i \in 1 .. Len(q) - 1
    BY <2>3, <2>6
  <2> QED BY <2>3, <2>5, <2>6, <2>7
<1>20. t = [next EXCEPT !.g = B4, !.ctrl = x, !.eff = e, !.b = c, !.heads = hs]
  BY <1>t
<1> HIDE DEF hs, e, x
<1>21. /\ t \in LowererRecords /\ t.g = B4 /\ t.id = next.id /\ t.ctrl = x /\ t.b = c
       /\ t.heads = hs /\ t.eff = e /\ t.hc = next.hc
  <2>1. x \in Nat
    BY <1>18 DEF x
  <2> HIDE DEF N, G, exit
  <2> QED BY <1>8, <1>15, <1>16, <1>18, <1>19, <1>20, <2>1 DEF LowererRecords
<1>22. Fits(B4, t)
  <2>1. Fits(B4, next)
    <3> HIDE DEF G
    <3> QED BY <1>8, <1>15, FitsStays DEF G
  <2>2. x \in 0 .. Len(B4.nodes) /\ e \in 0 .. Len(B4.nodes)
    BY <1>18 DEF x
  <2> HIDE DEF N, G, exit
  <2> QED BY <1>16, <1>19, <1>21, <2>1, <2>2 DEF Fits
<1>23. t \in Lowerers
  <2>1. e # NoNode
    BY <1>18 DEF NoNode
  <2> QED BY <1>21, <1>22, <2>1 DEF Lowerers
<1> QED BY <1>15, <1>19, <1>21, <1>23 DEF Steps, t

-----------------------------------------------------------------------------
(* Statements as step sequences.  A step opens a loop, closes one or neither.  *)
Opens(st) == IF st.do = "for" THEN 1 ELSE IF st.do = "end" THEN -1 ELSE 0

LEMMA DepthFacts ==
  ASSUME NEW prog, NEW k \in Nat
  PROVE  /\ Depth(prog, 0) = 0 /\ Depth(prog, k) \in Int
         /\ k > 0 => Depth(prog, k) = Depth(prog, k - 1) + Opens(prog[k])
<1>1. ASSUME NEW n \in Nat
      PROVE  /\ IsFiniteSet(Heads(prog, n)) /\ Cardinality(Heads(prog, n)) \in Nat
             /\ IsFiniteSet(Ends(prog, n)) /\ Cardinality(Ends(prog, n)) \in Nat
  <2>1. IsFiniteSet(1 .. n)
    BY FS_Interval
  <2>2. Heads(prog, n) \subseteq 1 .. n /\ Ends(prog, n) \subseteq 1 .. n
    BY DEF Heads, Ends
  <2>3. IsFiniteSet(Heads(prog, n)) /\ IsFiniteSet(Ends(prog, n))
    BY <2>1, <2>2, FS_Subset
  <2> QED BY <2>3, FS_CardinalityType
<1>2. Depth(prog, k) \in Int
  BY <1>1 DEF Depth
<1>3. Depth(prog, 0) = 0
  <2>1. Heads(prog, 0) = {} /\ Ends(prog, 0) = {}
    BY DEF Heads, Ends
  <2>2. Cardinality({}) = 0
    BY FS_EmptySet
  <2> QED BY <2>1, <2>2 DEF Depth
<1>4. ASSUME k > 0 PROVE Depth(prog, k) = Depth(prog, k - 1) + Opens(prog[k])
  <2> DEFINE m == k - 1
  <2>1. m \in Nat /\ k \notin 1 .. m /\ 1 .. k = (1 .. m) \cup {k}
    BY <1>4
  <2> HIDE DEF m
  <2>2. /\ k \notin Heads(prog, m) /\ k \notin Ends(prog, m)
        /\ Heads(prog, k) = IF prog[k].do = "for" THEN Heads(prog, m) \cup {k} ELSE Heads(prog, m)
        /\ Ends(prog, k) = IF prog[k].do = "end" THEN Ends(prog, m) \cup {k} ELSE Ends(prog, m)
    BY <2>1 DEF Heads, Ends
  <2>3. /\ Cardinality(Heads(prog, m) \cup {k}) = Cardinality(Heads(prog, m)) + 1
        /\ Cardinality(Ends(prog, m) \cup {k}) = Cardinality(Ends(prog, m)) + 1
    BY <1>1, <2>1, <2>2, FS_AddElement
  <2>4. Depth(prog, k) = Depth(prog, m) + Opens(prog[k])
    BY <1>1, <2>1, <2>2, <2>3 DEF Depth, Opens
  <2> QED BY <2>4 DEF m
<1> QED BY <1>2, <1>3, <1>4

(* The body of a loop of a statement ends where the loop is closed.            *)
LEMMA BodyType ==
  ASSUME NEW prog, IsLoop(prog), NEW k \in 1 .. Len(prog), prog[k].do = "for"
  PROVE  Body(prog, k) \in Seq(StepsOf)
<1> DEFINE n == Len(prog)
           d(i) == Depth(prog, i)
<1>0. prog \in Seq(StepsOf) /\ n \in Nat /\ d(n) = 0 /\ \A i \in 1 .. n - 1 : d(i) > 0
  BY DEF IsLoop
<1>1. d(0) = 0 /\ \A i \in 0 .. n : d(i) \in Int
  BY DepthFacts
<1>2. \A i \in 1 .. n : d(i) = d(i - 1) + Opens(prog[i])
  BY DepthFacts
<1>3. d(k) = d(k - 1) + 1
  BY <1>2 DEF Opens
<1>4. \A i \in 1 .. n : Opens(prog[i]) \in {-1, 0, 1}
  BY DEF Opens
<1> HIDE DEF d, n
<1>n. k \in 1 .. n
  BY DEF n
<1>5. k < n
  <2>1. CASE k = n
    <3>1. CASE n = 1
      BY <1>0, <1>1, <1>3, <2>1, <3>1
    <3>2. CASE n # 1
      <4>1. n - 1 \in 1 .. n - 1 /\ n - 1 \in 0 .. n
        BY <1>n, <1>0, <2>1, <3>2
      <4>2. d(n - 1) > 0 /\ d(n - 1) \in Int
        BY <1>0, <1>1, <4>1
      <4> QED BY <1>0, <1>3, <2>1, <4>2
    <3> QED BY <3>1, <3>2
  <2> QED BY <1>n, <1>0, <2>1
<1>6. d(k) > 0 /\ d(k) \in Int
  BY <1>n, <1>0, <1>1, <1>5
<1> DEFINE S == {j \in k + 1 .. n : d(j) < d(k)}
<1>7. PICK j \in S : \A i \in S : j =< i
  <2>1. n \in S
    BY <1>n, <1>0, <1>5, <1>6
  <2>2. S \subseteq Nat
    BY <1>n, <1>0
  <2> HIDE DEF S
  <2> QED BY <2>1, <2>2, LeastNat
<1>8. j \in k + 1 .. n /\ d(j) < d(k)
  BY <1>7
<1>9. ASSUME NEW i \in k .. j - 1 PROVE d(i) >= d(k)
  <2>1. i \in Nat /\ i =< j - 1 /\ i >= k /\ i \in 0 .. n
    BY <1>n, <1>0, <1>8
  <2>2. CASE i = k
    BY <1>6, <2>2
  <2>3. CASE i > k
    <3>1. i \in k + 1 .. n
      BY <1>n, <1>0, <1>8, <2>1, <2>3
    <3>2. i \notin S
      BY <1>n, <1>7, <1>8, <2>1
    <3> QED BY <1>1, <1>6, <2>1, <3>1, <3>2
  <2> QED BY <1>n, <2>1, <2>2, <2>3
<1>10. d(j) = d(k) - 1
  <2>1. j - 1 \in k .. j - 1 /\ j \in 1 .. n /\ j - 1 \in 0 .. n /\ j \in 0 .. n
    BY <1>n, <1>0, <1>8
  <2>2. d(j - 1) >= d(k) /\ d(j) = d(j - 1) + Opens(prog[j]) /\ Opens(prog[j]) \in {-1, 0, 1}
    BY <1>2, <1>4, <1>9, <2>1
  <2>3. d(j) \in Int /\ d(j - 1) \in Int
    BY <1>1, <2>1
  <2> DEFINE o == Opens(prog[j])
             before == d(j - 1)
             at == d(j)
             from == d(k)
  <2>4. before >= from /\ at = before + o /\ o \in {-1, 0, 1} /\ at < from
        /\ at \in Int /\ before \in Int /\ from \in Int
    BY <1>6, <1>8, <2>2, <2>3
  <2> HIDE DEF o, before, at, from
  <2>5. at = from - 1
    BY <2>4
  <2> QED BY <2>5 DEF at, from
<1>11. EndOf(prog, k) \in k + 1 .. n
  <2> DEFINE P(i) == /\ Depth(prog, i) = Depth(prog, k) - 1
                     /\ \A l \in k .. i - 1 : Depth(prog, l) >= Depth(prog, k)
  <2>1. \E i \in k + 1 .. n : P(i)
    BY <1>8, <1>9, <1>10 DEF d
  <2>2. EndOf(prog, k) = CHOOSE i \in k + 1 .. n : P(i)
    BY DEF EndOf, n
  <2> HIDE DEF P
  <2> QED BY <2>1, <2>2
<1> DEFINE a == k + 1
           b == EndOf(prog, k) - 1
<1>12. a \in 1 .. n + 1 /\ b \in a - 1 .. n
  BY <1>n, <1>0, <1>11
<1>13. Body(prog, k) = SubSeq(prog, a, b)
  BY DEF Body
<1> HIDE DEF a, b
<1>14. a \in Int /\ b \in Int /\ \A i \in a .. b : prog[i] \in StepsOf
  <2>1. ASSUME NEW i \in a .. b PROVE prog[i] \in StepsOf
    <3>1. i \in 1 .. Len(prog)
      BY <1>n, <1>0, <1>12 DEF n
    <3> QED BY <1>0, <3>1, ElementOfSeq
  <2> QED BY <1>n, <1>0, <1>12, <2>1
<1> QED BY <1>13, <1>14, SubSeqProperties

(* What the lowerer needs of a step of a statement.                            *)
Legal(prog, k) ==
  \/ /\ prog[k].do = "for" /\ prog[k].lo \in Expressions /\ prog[k].hi \in Expressions
     /\ prog[k].x \in Names /\ Body(prog, k) \in Seq(StepsOf)
  \/ prog[k].do = "end" /\ Depth(prog, k - 1) > 0
  \/ prog[k].do = "expr" /\ prog[k].e \in Expressions
  \/ prog[k].do \in {"let", "assign"} /\ prog[k].e \in Expressions /\ prog[k].x \in Names

LEMMA SiteNoted ==
  ASSUME NEW s \in Lowerers, NEW t, t = [s EXCEPT !.sites = Append(@, s.eff)]
  PROVE  t \in Lowerers /\ t.g = s.g /\ t.heads = s.heads
<1>1. s \in LowererRecords /\ Fits(s.g, s) /\ (DeadCode \/ s.eff # NoNode)
  BY DEF Lowerers
<1> DEFINE q == Append(s.sites, s.eff)
<1>2. q \in Seq(Nat)
  BY <1>1 DEF LowererRecords
<1>3. t = [s EXCEPT !.sites = q]
  OBVIOUS
<1> HIDE DEF q
<1>4. /\ t \in LowererRecords /\ t.g = s.g /\ t.ctrl = s.ctrl /\ t.eff = s.eff /\ t.b = s.b
      /\ t.id = s.id /\ t.heads = s.heads /\ t.hc = s.hc
  BY <1>1, <1>2, <1>3 DEF LowererRecords
<1>5. Fits(t.g, t)
  BY <1>1, <1>4 DEF Fits
<1> QED BY <1>1, <1>4, <1>5 DEF Lowerers

LEMMA Rebound ==
  ASSUME NEW s \in Lowerers, NEW x \in Names, NEW t, t = [s EXCEPT !.b[x] = s.id]
  PROVE  t \in Lowerers /\ t.g = s.g /\ t.heads = s.heads
<1>1. s \in LowererRecords /\ Fits(s.g, s) /\ (DeadCode \/ s.eff # NoNode)
  BY DEF Lowerers
<1>2. s.b \in [Names -> Nat] /\ s.id \in Nat /\ s.id \in 0 .. Len(s.g.nodes) /\ Bound(s.g, s.b)
  BY <1>1 DEF LowererRecords, Fits
<1> DEFINE q == [s.b EXCEPT ![x] = s.id]
<1>3. q \in [Names -> Nat] /\ Bound(s.g, q)
  BY <1>2 DEF Bound
<1>4. t = [s EXCEPT !.b = q]
  BY <1>1 DEF LowererRecords
<1> HIDE DEF q
<1>5. /\ t \in LowererRecords /\ t.g = s.g /\ t.ctrl = s.ctrl /\ t.eff = s.eff /\ t.b = q
      /\ t.id = s.id /\ t.heads = s.heads /\ t.hc = s.hc
  BY <1>1, <1>3, <1>4 DEF LowererRecords
<1>6. Fits(t.g, t)
  BY <1>1, <1>3, <1>5 DEF Fits
<1> QED BY <1>1, <1>5, <1>6 DEF Lowerers

LEMMA LowerStmtSound ==
  ASSUME NEW s \in Lowerers, NEW prog, NEW k \in Nat \ {0}, Legal(prog, k),
         Len(s.heads) = Depth(prog, k - 1)
  PROVE  /\ Steps(s, LowerStmt(s, prog, k))
         /\ Len(LowerStmt(s, prog, k).heads) = Depth(prog, k)
<1> DEFINE st == prog[k]
           r == CASE st.do = "for"  -> ForHeader(s, st, Body(prog, k))
                  [] st.do = "end"  -> ForEnd(s)
                  [] st.do = "expr" -> LowerExpr(s, st.e)
                  [] OTHER -> LET v == LowerExpr(s, st.e) IN [v EXCEPT !.b[st.x] = v.id]
           t == LowerStmt(s, prog, k)
<1>1. t = [r EXCEPT !.sites = Append(@, r.eff)]
  BY DEF LowerStmt
<1>2. Depth(prog, k) = Len(s.heads) + Opens(st)
  BY DepthFacts
<1>3. Steps(s, r) /\ Len(r.heads) = Depth(prog, k)
  <2>1. CASE st.do = "for"
    <3> DEFINE body == Body(prog, k)
    <3>1. st.lo \in Expressions /\ st.hi \in Expressions /\ st.x \in Names /\ body \in Seq(StepsOf)
      BY <2>1 DEF Legal
    <3>2. r = ForHeader(s, st, body)
      BY <2>1
    <3> HIDE DEF r, body
    <3>3. Steps(s, r) /\ Len(r.heads) = Len(s.heads) + 1
      BY <3>1, <3>2, ForHeaderSound
    <3> QED BY <1>2, <2>1, <3>3 DEF Opens
  <2>2. CASE st.do = "end"
    <3>1. Len(s.heads) > 0
      BY <2>2 DEF Legal
    <3>2. r = ForEnd(s)
      BY <2>2
    <3> HIDE DEF r
    <3>3. Steps(s, r) /\ Len(r.heads) = Len(s.heads) - 1
      BY <3>1, <3>2, ForEndSound
    <3>4. Len(s.heads) \in Nat
      BY DEF Lowerers, LowererRecords
    <3> QED BY <1>2, <2>2, <3>3, <3>4 DEF Opens
  <2>3. CASE st.do = "expr"
    <3>1. st.e \in Expressions
      BY <2>3 DEF Legal
    <3>2. r = LowerExpr(s, st.e)
      BY <2>3
    <3> HIDE DEF r
    <3>3. After(s, r)
      BY <3>1, <3>2, LowerExprSound
    <3>4. Len(s.heads) \in Nat
      BY DEF Lowerers, LowererRecords
    <3> QED BY <1>2, <2>3, <3>3, <3>4 DEF Opens, After, Steps
  <2>4. CASE st.do \in {"let", "assign"}
    <3> DEFINE v == LowerExpr(s, st.e)
               x == st.x
    <3>1. st.e \in Expressions /\ x \in Names
      BY <2>4 DEF Legal
    <3>2. r = [v EXCEPT !.b[x] = v.id]
      BY <2>4
    <3>3. After(s, v)
      BY <3>1, LowerExprSound
    <3> HIDE DEF r, v, x
    <3>4. r \in Lowerers /\ r.g = v.g /\ r.heads = v.heads
      BY <3>1, <3>2, <3>3, Rebound DEF After
    <3>5. Len(s.heads) \in Nat
      BY DEF Lowerers, LowererRecords
    <3> QED BY <1>2, <2>4, <3>3, <3>4, <3>5 DEF Opens, After, Steps
  <2> QED BY <2>1, <2>2, <2>3, <2>4 DEF Legal
<1> HIDE DEF r, t
<1>4. t \in Lowerers /\ t.g = r.g /\ t.heads = r.heads
  BY <1>1, <1>3, SiteNoted DEF Steps
<1> QED BY <1>3, <1>4 DEF Steps, t

(* The steps of a statement leave no loop open that they did not find open.    *)
LEMMA LowerBodySound ==
  ASSUME NEW s \in Lowerers, s.heads = << >>, NEW prog, Len(prog) \in Nat,
         \A k \in 1 .. Len(prog) : Legal(prog, k),
         NEW t, t = LowerBody(s, prog)[Len(prog)]
  PROVE  Steps(s, t)
<1> DEFINE n == Len(prog)
           With(k) == {r \in Lowerers : Grown(s.g, r.g) /\ Len(r.heads) = Depth(prog, k)}
           T == [k \in 0 .. n |-> With(k)]
           next(r, k) == LowerStmt(r, prog, k)
           step == [p \in Lowerers \X (1 .. n) |-> next(p[1], p[2])]
           Loop(f) == f = [k \in 0 .. n |-> IF k = 0 THEN s ELSE next(f[k - 1], k)]
<1>0. n \in Nat
  OBVIOUS
<1>1. ASSUME NEW k \in 1 .. n, NEW r \in With(k - 1) PROVE next(r, k) \in With(k)
  <2>1. r \in Lowerers /\ Grown(s.g, r.g) /\ Len(r.heads) = Depth(prog, k - 1)
    OBVIOUS
  <2>2. k \in Nat \ {0} /\ Legal(prog, k)
    OBVIOUS
  <2> DEFINE q == LowerStmt(r, prog, k)
  <2>3. Steps(r, q) /\ Len(q.heads) = Depth(prog, k)
    BY <2>1, <2>2, LowerStmtSound
  <2> HIDE DEF q
  <2>4. s.g \in Sound /\ r.g \in Sound /\ q.g \in Sound
    BY <2>1, <2>3 DEF Steps, Lowerers, LowererRecords
  <2>5. q \in Lowerers /\ Grown(s.g, q.g)
    BY <2>1, <2>3, <2>4, GrownTrans DEF Steps
  <2>6. q \in With(k)
    BY <2>3, <2>5
  <2> QED BY <2>6 DEF q
<1>2. s \in With(0) /\ \A k \in 0 .. n : T[k] = With(k) /\ With(k) \subseteq Lowerers
  <2>1. s.g \in Sound
    BY DEF Lowerers, LowererRecords
  <2>2. Len(s.heads) = 0 /\ Depth(prog, 0) = 0
    BY DepthFacts
  <2>3. Grown(s.g, s.g)
    <3>1. Len(s.g.nodes) \in Nat
      BY <2>1, GraphFacts DEF Sound
    <3> QED BY <3>1 DEF Grown
  <2> QED BY <2>2, <2>3
<1>3. \E f : Loop(f)
  <2>1. \A k \in 1 .. n : \A r \in Lowerers : step[<<r, k>>] = next(r, k)
    <3> HIDE DEF next
    <3> QED OBVIOUS
  <2> HIDE DEF step, n, T, With, next
  <2>2. ASSUME NEW k \in 1 .. n, NEW r \in T[k - 1] PROVE step[<<r, k>>] \in T[k]
    <3>1. T[k - 1] = With(k - 1) /\ T[k] = With(k) /\ r \in Lowerers
      BY <1>0, <1>2
    <3> QED BY <1>1, <2>1, <3>1
  <2>3. s \in T[0]
    BY <1>0, <1>2
  <2>4. PICK f : Iteration(f, n, T, s, step)
    BY <1>0, <2>2, <2>3, Iterates
  <2>5. ASSUME NEW k \in 0 .. n PROVE f[k] = IF k = 0 THEN s ELSE next(f[k - 1], k)
    <3>1. CASE k = 0
      BY <2>4, <3>1 DEF Iteration
    <3>2. CASE k # 0
      <4>1. k \in 1 .. n /\ k - 1 \in 0 .. n
        BY <1>0, <3>2
      <4>2. f[k] = step[<<f[k - 1], k>>] /\ f[k - 1] \in Lowerers
        BY <1>2, <2>4, <4>1 DEF Iteration
      <4> QED BY <2>1, <3>2, <4>1, <4>2
    <3> QED BY <3>1, <3>2
  <2>6. Loop(f)
    BY <2>4, <2>5 DEF Iteration
  <2> HIDE DEF Loop
  <2> QED BY <2>6
<1> DEFINE f == LowerBody(s, prog)
<1>4. Loop(f)
  <2>1. f = CHOOSE h : Loop(h)
    BY DEF LowerBody
  <2> HIDE DEF Loop, f
  <2> QED BY <1>3, <2>1
<1> HIDE DEF f, next, With, n
<1>5. f[0] = s /\ \A k \in 1 .. n : f[k] = next(f[k - 1], k)
  BY <1>0, <1>4
<1>6. \A k \in 0 .. n : f[k] \in T[k]
  <2>1. f[0] \in T[0]
    BY <1>0, <1>2, <1>5
  <2>2. ASSUME NEW k \in 1 .. n, f[k - 1] \in T[k - 1] PROVE f[k] \in T[k]
    <3>1. f[k - 1] \in With(k - 1) /\ T[k] = With(k)
      BY <1>0, <1>2, <2>2
    <3> QED BY <1>1, <1>5, <3>1
  <2> HIDE DEF T
  <2> QED BY <1>0, <2>1, <2>2, Follows
<1>7. f[n] \in With(n)
  BY <1>0, <1>2, <1>6
<1> QED BY <1>7 DEF With, f, n, Steps

(* The statements of a program have legal steps.                               *)
LEMMA LoopLegal ==
  ASSUME NEW prog, IsLoop(prog)
  PROVE  Len(prog) \in Nat /\ \A k \in 1 .. Len(prog) : Legal(prog, k)
<1>1. /\ prog \in Seq(StepsOf) /\ Len(prog) \in Nat /\ prog[1].do = "for"
      /\ \A k \in 1 .. Len(prog) - 1 : Depth(prog, k) > 0
  BY DEF IsLoop
<1>2. ASSUME NEW k \in 1 .. Len(prog) PROVE Legal(prog, k)
  <2> DEFINE st == prog[k]
  <2>1. st \in StepsOf
    BY <1>1, ElementOfSeq
  <2>2. CASE st \in [do : {"let", "assign", "expr"}, x : Names, e : Expressions]
    BY <2>2 DEF Legal
  <2>3. CASE st \in [do : {"for"}, x : LoopVars, lo : Expressions, hi : Expressions]
    <3>1. st.do = "for" /\ st.lo \in Expressions /\ st.hi \in Expressions /\ st.x \in Names
      BY <2>3 DEF Names
    <3> HIDE DEF st
    <3>2. Body(prog, k) \in Seq(StepsOf)
      BY <3>1, BodyType DEF st
    <3> QED BY <3>1, <3>2 DEF Legal, st
  <2>4. CASE st = End
    <3>1. st.do = "end"
      BY <2>4 DEF End
    <3>2. k # 1
      BY <1>1, <3>1
    <3>3. k - 1 \in 1 .. Len(prog) - 1
      BY <1>1, <3>2
    <3>4. Depth(prog, k - 1) > 0
      BY <1>1, <3>3
    <3> QED BY <3>1, <3>4 DEF Legal
  <2> QED BY <2>1, <2>2, <2>3, <2>4 DEF StepsOf
<1> QED BY <1>1, <1>2

LEMMA StmtLegal ==
  ASSUME NEW x \in Names, NEW e \in Expressions, NEW prog,
         prog = <<Stmt("let", x, e)>> \/ prog = <<[do |-> "expr", e |-> e]>>
  PROVE  Len(prog) \in Nat /\ \A k \in 1 .. Len(prog) : Legal(prog, k)
<1>1. Len(prog) = 1
  OBVIOUS
<1>2. CASE prog = <<Stmt("let", x, e)>>
  <2>1. prog[1].do = "let" /\ prog[1].e = e /\ prog[1].x = x
    BY <1>2 DEF Stmt
  <2>2. Legal(prog, 1)
    BY <2>1 DEF Legal
  <2> QED BY <1>1, <2>2
<1>3. CASE prog = <<[do |-> "expr", e |-> e]>>
  <2>1. prog[1].do = "expr" /\ prog[1].e = e
    BY <1>3
  <2>2. Legal(prog, 1)
    BY <2>1 DEF Legal
  <2> QED BY <1>1, <2>2
<1> QED BY <1>2, <1>3

-----------------------------------------------------------------------------
(* The phis of a merge, one for each name of a finite set.                     *)
LEMMA NamesFinite == IsFiniteSet(Names)
<1>1. IsFiniteSet(Vars) /\ IsFiniteSet(LoopVars) /\ ParamNames \in Seq(STRING)
  BY LoweringAssumption
<1>2. IsFiniteSet(ToSet(ParamNames))
  <2>1. ParamNames \in Surjection(1 .. Len(ParamNames), ToSet(ParamNames))
    BY <1>1 DEF Surjection, ToSet
  <2>2. IsFiniteSet(1 .. Len(ParamNames))
    BY <1>1, FS_Interval
  <2> QED BY <2>1, <2>2, FS_Surjection
<1>3. IsFiniteSet(Vars \cup LoopVars)
  BY <1>1, FS_Union
<1> QED BY <1>2, <1>3, FS_Union DEF Names

LEMMA SetToSeqType ==
  ASSUME NEW S, IsFiniteSet(S)
  PROVE  SetToSeq(S) \in Seq(S)
<1> DEFINE n == Cardinality(S)
<1>1. PICK m \in Nat : ExistsBijection(1 .. m, S)
  BY FS_NatBijection
<1>2. n = m
  BY <1>1, FS_CountingElements
<1>3. \E f \in [1 .. n -> S] : IsInjective(f)
  <2>1. PICK f \in Bijection(1 .. m, S) : TRUE
    BY <1>1 DEF ExistsBijection
  <2>2. f \in [1 .. m -> S] /\ IsInjective(f)
    BY <2>1 DEF Bijection, Injection
  <2> QED BY <1>2, <2>2
<1>4. SetToSeq(S) \in [1 .. n -> S]
  BY <1>3 DEF SetToSeq
<1> QED BY <1>1, <1>2, <1>4

Merges == [g : Sound, b : [Names -> Nat]]
Merged(G, acc) == acc \in Merges /\ Grown(G, acc.g) /\ Bound(acc.g, acc.b)

LEMMA MergePhiSound ==
  ASSUME NEW G \in Sound, NEW acc, Merged(G, acc), NEW merge \in 0 .. Len(G.nodes), NEW x \in Names,
         NEW then, Bound(G, then), NEW else, Bound(G, else)
  PROVE  Merged(G, MergePhi(acc, merge, x, then, else))
<1> DEFINE v == then[x]
           w == else[x]
           z == 0
           M == MakeNode(acc.g, "Phi", z, <<merge, v, w>>)
           n == NewId(acc.g)
           c == [acc.b EXCEPT ![x] = n]
<1>1. acc.g \in Sound /\ Grown(G, acc.g) /\ acc.b \in [Names -> Nat] /\ Bound(acc.g, acc.b)
  BY DEF Merged, Merges
<1>2. Len(G.nodes) \in Nat /\ Len(acc.g.nodes) \in Nat /\ Len(G.nodes) =< Len(acc.g.nodes)
  BY <1>1, GrownFacts
<1>3. merge \in 0 .. Len(acc.g.nodes) /\ v \in 0 .. Len(acc.g.nodes) /\ w \in 0 .. Len(acc.g.nodes)
  <2>1. v \in 0 .. Len(G.nodes) /\ w \in 0 .. Len(G.nodes)
    BY DEF Bound
  <2> DEFINE N == Len(G.nodes)
             M1 == Len(acc.g.nodes)
  <2>2. N \in Nat /\ M1 \in Nat /\ N =< M1 /\ merge \in 0 .. N /\ v \in 0 .. N /\ w \in 0 .. N
    BY <1>2, <2>1
  <2> HIDE DEF v, w, N, M1
  <2>3. merge \in 0 .. M1 /\ v \in 0 .. M1 /\ w \in 0 .. M1
    BY <2>2
  <2> QED BY <2>3 DEF M1
<1>4. "Phi" \in {"Phi", "CallAltered", "Return"} /\ "Phi" # "CallAltered" /\ z \in Int
  OBVIOUS
<1> HIDE DEF v, w, z
<1>5. Added(acc.g, M, "Phi", <<merge, v, w>>)
  BY <1>1, <1>3, <1>4, AddThree
<1>6. MergePhi(acc, merge, x, then, else) = [g |-> M, b |-> c]
  BY DEF MergePhi, v, w, z
<1> HIDE DEF M
<1>7. M \in Sound /\ Grown(acc.g, M) /\ Len(M.nodes) = Len(acc.g.nodes) + 1
  BY <1>5 DEF Added
<1>8. Grown(G, M)
  BY <1>1, <1>7, GrownTrans
<1>9. n \in Nat /\ n = Len(M.nodes)
  BY <1>2, <1>7 DEF NewId
<1> HIDE DEF n
<1>10. c \in [Names -> Nat]
  BY <1>1, <1>9
<1>11. ASSUME NEW y \in Names PROVE c[y] \in 0 .. Len(M.nodes)
  <2>1. c[y] = IF y = x THEN n ELSE acc.b[y]
    BY <1>1
  <2>2. acc.b[y] \in 0 .. Len(acc.g.nodes)
    BY <1>1 DEF Bound
  <2> HIDE DEF c
  <2> QED BY <1>2, <1>7, <1>9, <2>1, <2>2
<1> HIDE DEF c
<1> QED BY <1>6, <1>7, <1>8, <1>10, <1>11 DEF Merged, Merges, Bound

LEMMA MergePhisSound ==
  ASSUME NEW G \in Sound, NEW merge \in 0 .. Len(G.nodes),
         NEW then \in [Names -> Nat], Bound(G, then), NEW else \in [Names -> Nat], Bound(G, else)
  PROVE  Merged(G, MergePhis(G, merge, then, else))
<1> DEFINE names == SetToSeq({x \in Names : then[x] # NoNode /\ else[x] # NoNode /\ then[x] # else[x]})
           n == Len(names)
           base == [g |-> G, b |-> [x \in Names |-> IF then[x] # NoNode THEN then[x] ELSE else[x]]]
           S == {acc \in Merges : Merged(G, acc)}
           T == [k \in 0 .. n |-> S]
           next(acc, k) == MergePhi(acc, merge, names[k], then, else)
           step == [p \in S \X (1 .. n) |-> next(p[1], p[2])]
           Loop(f) == f = [k \in 0 .. n |-> IF k = 0 THEN base ELSE next(f[k - 1], k)]
<1>a. MergePhis(G, merge, then, else) = MergedPhis(G, merge, then, else, names)[n]
  BY DEF MergePhis
<1>0. names \in Seq(Names) /\ n \in Nat
  <2> DEFINE D == {x \in Names : then[x] # NoNode /\ else[x] # NoNode /\ then[x] # else[x]}
  <2>1. D \subseteq Names
    OBVIOUS
  <2>2. names = SetToSeq(D)
    OBVIOUS
  <2> HIDE DEF D, names
  <2>3. names \in Seq(D)
    BY <2>1, <2>2, NamesFinite, FS_Subset, SetToSeqType
  <2> QED BY <2>1, <2>3
<1> HIDE DEF names
<1>1. ASSUME NEW k \in 1 .. n, NEW acc \in S PROVE next(acc, k) \in S
  <2>1. names[k] \in Names
    BY <1>0, ElementOfSeq
  <2> DEFINE x == names[k]
             q == MergePhi(acc, merge, x, then, else)
  <2> HIDE DEF x, q
  <2>2. Merged(G, q)
    BY <2>1, MergePhiSound DEF x, q
  <2>3. q \in S
    BY <2>2 DEF Merged
  <2> QED BY <2>3 DEF q, x
<1>2. base \in S /\ \A k \in 0 .. n : T[k] = S
  <2>1. Len(G.nodes) \in Nat
    BY GraphFacts DEF Sound
  <2>2. base.g = G /\ base.b \in [Names -> Nat] /\ base \in Merges
    BY DEF Merges
  <2>3. Bound(G, base.b) /\ Grown(G, G)
    BY <2>1 DEF Bound, Grown
  <2> QED BY <2>2, <2>3 DEF Merged
<1> HIDE DEF base
<1>3. \E f : Loop(f)
  <2>1. \A k \in 1 .. n : \A acc \in S : step[<<acc, k>>] = next(acc, k)
    <3> HIDE DEF next
    <3> QED OBVIOUS
  <2> HIDE DEF step, n, T, S, next
  <2>2. ASSUME NEW k \in 1 .. n, NEW acc \in T[k - 1] PROVE step[<<acc, k>>] \in T[k]
    <3>1. T[k - 1] = S /\ T[k] = S
      BY <1>0, <1>2
    <3> QED BY <1>1, <2>1, <3>1
  <2>3. base \in T[0]
    BY <1>0, <1>2
  <2>4. PICK f : Iteration(f, n, T, base, step)
    BY <1>0, <2>2, <2>3, Iterates
  <2>5. ASSUME NEW k \in 0 .. n PROVE f[k] = IF k = 0 THEN base ELSE next(f[k - 1], k)
    <3>1. CASE k = 0
      BY <2>4, <3>1 DEF Iteration
    <3>2. CASE k # 0
      <4>1. k \in 1 .. n /\ k - 1 \in 0 .. n
        BY <1>0, <3>2
      <4>2. f[k] = step[<<f[k - 1], k>>] /\ f[k - 1] \in S
        BY <1>2, <2>4, <4>1 DEF Iteration
      <4> QED BY <2>1, <3>2, <4>1, <4>2
    <3> QED BY <3>1, <3>2
  <2>6. Loop(f)
    BY <2>4, <2>5 DEF Iteration
  <2> HIDE DEF Loop
  <2> QED BY <2>6
<1> DEFINE f == MergedPhis(G, merge, then, else, names)
<1>4. Loop(f)
  <2>1. f = CHOOSE h : Loop(h)
    BY DEF MergedPhis, base
  <2> HIDE DEF Loop, f
  <2> QED BY <1>3, <2>1
<1> HIDE DEF f, next, S, n
<1>5. f[0] = base /\ \A k \in 1 .. n : f[k] = next(f[k - 1], k)
  BY <1>0, <1>4
<1>6. \A k \in 0 .. n : f[k] \in T[k]
  <2>1. f[0] \in T[0]
    BY <1>0, <1>2, <1>5
  <2>2. ASSUME NEW k \in 1 .. n, f[k - 1] \in T[k - 1] PROVE f[k] \in T[k]
    <3>1. f[k - 1] \in S /\ T[k] = S
      BY <1>0, <1>2, <2>2
    <3> QED BY <1>1, <1>5, <3>1
  <2> HIDE DEF T
  <2> QED BY <1>0, <2>1, <2>2, Follows
<1>7. f[n] \in S
  BY <1>0, <1>2, <1>6
<1> QED BY <1>a, <1>7 DEF S, f, n

-----------------------------------------------------------------------------
(* Control that no path gets to stays so: the graph only grows, and a region   *)
(* keeps its inputs.                                                           *)
Blind(G, cut) ==
  /\ cut \in SUBSET {n \in Ids(G) : Kind(G, n) = "Region"}
  /\ \A n \in cut : ToSet(Ins(G, n)) \ {NoNode} \subseteq cut
Unreached(G, c) == c = NoNode \/ \E cut : Blind(G, cut) /\ c \in cut

LEMMA ContinuesIsReached ==
  ASSUME NEW c
  PROVE  Continues(c) <=> ~ Unreached(g, c)
BY DEF Continues, Unreached, Blind

LEMMA BlindStays ==
  ASSUME NEW G \in Sound, NEW H \in Sound, Grown(G, H), NEW cut, Blind(G, cut)
  PROVE  Blind(H, cut)
<1>1. /\ \A n \in Ids(G) : n \in Ids(H) /\ Kind(H, n) = Kind(G, n)
      /\ \A n \in Ids(G) : Kind(G, n) = "Region" => Ins(H, n) = Ins(G, n)
  <2>1. \A n \in Ids(G) : n \in Ids(H) /\ Kind(H, n) = Kind(G, n)
    BY GrownFacts
  <2> QED BY <2>1 DEF Grown
<1> QED BY <1>1 DEF Blind

LEMMA UnreachedStays ==
  ASSUME NEW G \in Sound, NEW H \in Sound, Grown(G, H), NEW c, Unreached(G, c)
  PROVE  Unreached(H, c)
BY BlindStays DEF Unreached

LEMMA MergeUnreached ==
  ASSUME NEW G \in Sound, NEW H \in Sound, Grown(G, H), NEW x, NEW y, Unreached(G, x), Unreached(G, y),
         NEW m \in Ids(H), Kind(H, m) = "Region", Ins(H, m) = <<x, y>>
  PROVE  Unreached(H, m)
<1>1. ASSUME NEW c, Unreached(G, c)
      PROVE  \E cut : Blind(H, cut) /\ {c} \ {NoNode} \subseteq cut
  <2>1. CASE c = NoNode
    <3>1. Blind(H, {}) /\ {c} \ {NoNode} \subseteq {}
      BY <2>1 DEF Blind
    <3> QED BY <3>1
  <2>2. CASE c # NoNode
    <3>1. PICK cut : Blind(G, cut) /\ c \in cut
      BY <1>1, <2>2 DEF Unreached
    <3>2. Blind(H, cut)
      BY <3>1, BlindStays
    <3> QED BY <3>1, <3>2
  <2> QED BY <2>1, <2>2
<1>2. PICK A : Blind(H, A) /\ {x} \ {NoNode} \subseteq A
  BY <1>1
<1>3. PICK B : Blind(H, B) /\ {y} \ {NoNode} \subseteq B
  BY <1>1
<1> DEFINE C == {m} \cup A \cup B
<1>4. C \in SUBSET {n \in Ids(H) : Kind(H, n) = "Region"}
  BY <1>2, <1>3 DEF Blind
<1>5. ASSUME NEW n \in C PROVE ToSet(Ins(H, n)) \ {NoNode} \subseteq C
  <2>1. CASE n = m
    <3>1. ToSet(<<x, y>>) = {x, y}
      BY DEF ToSet
    <3> QED BY <1>2, <1>3, <2>1, <3>1
  <2>2. CASE n \in A
    BY <1>2, <2>2 DEF Blind
  <2>3. CASE n \in B
    BY <1>3, <2>3 DEF Blind
  <2> QED BY <2>1, <2>2, <2>3
<1>6. Blind(H, C) /\ m \in C
  BY <1>4, <1>5 DEF Blind
<1> QED BY <1>6 DEF Unreached

-----------------------------------------------------------------------------
(* The inductive invariant.  Without dead code an effect is missing only where *)
(* no control gets to: in the function, and behind a then branch.              *)
OnlyDead(G, c, e) == DeadCode \/ (e = NoNode => Unreached(G, c))

ThenRecords == [half : {"then"}, fproj : Nat, eff : Nat, bindings : [Names -> Nat], visible : SUBSET Names,
                took : SUBSET Params, on : SUBSET Params]
ElseRecords == [half : {"else"}, eff : Nat, ctrl : Nat, bindings : [Names -> Nat], visible : SUBSET Names,
                before : SUBSET Names, on : SUBSET Params]
ThenFits(G, f) ==
  /\ f \in ThenRecords /\ f.fproj \in 0 .. Len(G.nodes) /\ f.eff \in 0 .. Len(G.nodes)
  /\ Bound(G, f.bindings) /\ (DeadCode \/ f.eff # NoNode)
ElseFits(G, f) ==
  /\ f \in ElseRecords /\ f.ctrl \in 0 .. Len(G.nodes) /\ f.eff \in 0 .. Len(G.nodes)
  /\ Bound(G, f.bindings) /\ OnlyDead(G, f.ctrl, f.eff)
IfFits(G, f) == ThenFits(G, f) \/ ElseFits(G, f)

ScopeFits(G) ==
  /\ hc \in Tables /\ HcFits(G, hc)
  /\ bindings \in [Names -> Nat] /\ Bound(G, bindings)
  /\ ctrl \in 0 .. Len(G.nodes) /\ eff \in 0 .. Len(G.nodes) /\ OnlyDead(G, ctrl, eff)
IfList(G, q) ==
  q \in Seq(ThenRecords \cup ElseRecords) /\ \A i \in 1 .. Len(q) : IfFits(G, q[i])
IfsFit(G) == visible \in SUBSET Names /\ IfList(G, ifs)
LowererInv == g \in Sound /\ ScopeFits(g) /\ IfsFit(g)

LEMMA IfStays ==
  ASSUME NEW G \in Sound, NEW H \in Sound, Grown(G, H), NEW f, IfFits(G, f)
  PROVE  IfFits(H, f)
<1>1. Len(G.nodes) \in Nat /\ Len(H.nodes) \in Nat /\ Len(G.nodes) =< Len(H.nodes)
  BY GrownFacts
<1>2. ASSUME NEW c \in 0 .. Len(G.nodes) PROVE c \in 0 .. Len(H.nodes)
  BY <1>1
<1>3. CASE ThenFits(G, f)
  <2>1. Bound(H, f.bindings)
    BY <1>3, BoundStays DEF ThenFits
  <2>2. ThenFits(H, f)
    BY <1>2, <1>3, <2>1 DEF ThenFits
  <2> QED BY <2>2 DEF IfFits
<1>4. CASE ElseFits(G, f)
  <2>1. Bound(H, f.bindings) /\ OnlyDead(H, f.ctrl, f.eff)
    BY <1>4, BoundStays, UnreachedStays DEF ElseFits, OnlyDead
  <2>2. ElseFits(H, f)
    BY <1>2, <1>4, <2>1 DEF ElseFits
  <2> QED BY <2>2 DEF IfFits
<1> QED BY <1>3, <1>4 DEF IfFits

LEMMA ListStays ==
  ASSUME NEW G \in Sound, NEW H \in Sound, Grown(G, H), NEW q, IfList(G, q)
  PROVE  IfList(H, q)
<1>1. \A i \in 1 .. Len(q) : IfFits(H, q[i])
  BY IfStays DEF IfList
<1> QED BY <1>1 DEF IfList

LEMMA IfPushed ==
  ASSUME NEW G, NEW q, IfList(G, q), NEW f, IfFits(G, f)
  PROVE  IfList(G, Append(q, f))
<1>1. q \in Seq(ThenRecords \cup ElseRecords) /\ f \in ThenRecords \cup ElseRecords
  BY DEF IfList, IfFits, ThenFits, ElseFits
<1> DEFINE S == ThenRecords \cup ElseRecords
           r == Append(q, f)
<1> HIDE DEF S
<1>2. r \in Seq(S) /\ Len(r) = Len(q) + 1 /\ Len(q) \in Nat
      /\ \A i \in 1 .. Len(q) + 1 : r[i] = IF i =< Len(q) THEN q[i] ELSE f
  BY <1>1 DEF S
<1> HIDE DEF r
<1>3. ASSUME NEW i \in 1 .. Len(r) PROVE IfFits(G, r[i])
  <2>1. CASE i =< Len(q)
    <3>1. i \in 1 .. Len(q) /\ r[i] = q[i]
      BY <1>2, <2>1
    <3> QED BY <3>1 DEF IfList
  <2>2. CASE ~ (i =< Len(q))
    BY <1>2, <2>2
  <2> QED BY <2>1, <2>2
<1> QED BY <1>2, <1>3 DEF IfList, r, S

LEMMA IfPopped ==
  ASSUME NEW G, NEW q, IfList(G, q), q # << >>
  PROVE  IfList(G, Front(q)) /\ IfFits(G, Last(q))
<1> DEFINE S == ThenRecords \cup ElseRecords
           r == Front(q)
<1>0. q \in Seq(S) /\ \A i \in 1 .. Len(q) : IfFits(G, q[i])
  BY DEF IfList
<1> HIDE DEF S
<1>1. r \in Seq(S) /\ Len(r) = Len(q) - 1 /\ \A i \in 1 .. Len(q) - 1 : r[i] = q[i]
  BY <1>0, FrontFacts
<1>2. Len(q) \in Nat \ {0}
  BY <1>0, EmptySeq
<1> HIDE DEF r
<1>3. \A i \in 1 .. Len(r) : i \in 1 .. Len(q) /\ r[i] = q[i]
  BY <1>1, <1>2
<1>4. IfList(G, r)
  BY <1>0, <1>1, <1>3 DEF IfList, S
<1>5. IfFits(G, Last(q))
  BY <1>0, <1>2 DEF Last
<1> QED BY <1>4, <1>5 DEF r

(* The lowerer between statements, as the record its steps work on.            *)
LEMMA HereFits ==
  ASSUME LowererInv, DeadCode \/ Continues(ctrl)
  PROVE  /\ Here \in Lowerers /\ Here.g = g /\ Here.ctrl = ctrl /\ Here.heads = << >>
         /\ g \in Sound /\ Len(g.nodes) \in Nat /\ ctrl \in 0 .. Len(g.nodes)
<1>1. g \in Sound /\ hc \in Tables /\ HcFits(g, hc) /\ bindings \in [Names -> Nat] /\ Bound(g, bindings)
      /\ ctrl \in 0 .. Len(g.nodes) /\ eff \in 0 .. Len(g.nodes) /\ OnlyDead(g, ctrl, eff)
  BY DEF LowererInv, ScopeFits
<1>2. Len(g.nodes) \in Nat
  BY <1>1, GraphFacts DEF Sound
<1>3. DeadCode \/ eff # NoNode
  BY <1>1, ContinuesIsReached DEF OnlyDead
<1> DEFINE z == NoNode
           h == << >>
           q == << >>
           s == [g |-> g, hc |-> hc, ctrl |-> ctrl, eff |-> eff, b |-> bindings, id |-> z, heads |-> h, sites |-> q]
<1>4. z \in Nat /\ h \in Seq(HeadRecords) /\ Len(h) = 0 /\ q \in Seq(Nat) /\ z \in 0 .. Len(g.nodes)
  BY <1>2 DEF NoNode
<1>5. Here = s
  BY DEF Here
<1> HIDE DEF z, h, q
<1>6. /\ s \in LowererRecords /\ s.g = g /\ s.ctrl = ctrl /\ s.eff = eff /\ s.b = bindings /\ s.id = z
      /\ s.heads = h /\ s.hc = hc
  <2>1. ctrl \in Nat /\ eff \in Nat
    BY <1>1, <1>2
  <2> QED BY <1>1, <1>4, <2>1 DEF LowererRecords
<1> HIDE DEF s
<1>7. Fits(g, s)
  BY <1>1, <1>4, <1>6 DEF Fits
<1>8. s \in Lowerers
  BY <1>3, <1>6, <1>7 DEF Lowerers
<1> QED BY <1>1, <1>2, <1>5, <1>6, <1>8 DEF h

(* What an expression leaves, in whatever graph it grows into.                 *)
LEMMA ExprFits ==
  ASSUME LowererInv, DeadCode \/ Continues(ctrl), NEW e \in Expressions, NEW s, s = LowerExpr(Here, e)
  PROVE  /\ s \in Lowerers /\ Grown(g, s.g)
         /\ s.g \in Sound /\ Len(s.g.nodes) \in Nat /\ ctrl \in 0 .. Len(s.g.nodes)
         /\ s.eff \in 0 .. Len(s.g.nodes) /\ s.id \in 0 .. Len(s.g.nodes)
         /\ DeadCode \/ s.eff # NoNode
<1>1. Here \in Lowerers /\ Here.g = g /\ Here.ctrl = ctrl
  BY HereFits
<1>2. After(Here, s)
  BY <1>1, LowerExprSound
<1>3. s \in Lowerers /\ Grown(g, s.g) /\ s.ctrl = ctrl
  BY <1>1, <1>2 DEF After
<1> QED BY <1>3, LowererFacts

LEMMA ScopeStays ==
  ASSUME LowererInv, NEW G \in Sound, Grown(g, G)
  PROVE  bindings \in [Names -> Nat] /\ Bound(G, bindings) /\ IfsFit(G)
<1>1. g \in Sound /\ bindings \in [Names -> Nat] /\ Bound(g, bindings) /\ IfsFit(g)
  BY DEF LowererInv, ScopeFits
<1>2. Bound(G, bindings)
  BY <1>1, BoundStays
<1>3. IfsFit(G)
  BY <1>1, ListStays DEF IfsFit
<1> QED BY <1>1, <1>2, <1>3

LEMMA TableStays ==
  ASSUME NEW s \in Lowerers, NEW G \in Sound, Grown(s.g, G)
  PROVE  s.hc \in Tables /\ HcFits(G, s.hc)
BY FitsStays DEF Lowerers, LowererRecords, Fits

-----------------------------------------------------------------------------
(* Every action keeps it.                                                      *)
LEMMA PerformSound ==
  ASSUME LowererInv, DeadCode \/ Continues(ctrl), NEW prog, Len(prog) \in Nat,
         \A k \in 1 .. Len(prog) : Legal(prog, k), Perform(prog), visible' \in SUBSET Names
  PROVE  LowererInv'
<1> DEFINE s == LowerBody(Here, prog)[Len(prog)]
<1>1. /\ g' = s.g /\ hc' = s.hc /\ ctrl' = s.ctrl /\ eff' = s.eff /\ bindings' = s.b
      /\ ifs' = ifs
  BY DEF Perform
<1>2. Here \in Lowerers /\ Here.g = g /\ Here.heads = << >>
  BY HereFits
<1>3. Steps(Here, s)
  <2> HIDE DEF s
  <2>1. s = LowerBody(Here, prog)[Len(prog)]
    BY DEF s
  <2> QED BY <1>2, <2>1, LowerBodySound
<1> HIDE DEF s
<1>4. s \in Lowerers /\ Grown(g, s.g)
  BY <1>2, <1>3 DEF Steps
<1>5. s \in LowererRecords /\ Fits(s.g, s) /\ (DeadCode \/ s.eff # NoNode)
  BY <1>4 DEF Lowerers
<1>6. s.g \in Sound /\ s.hc \in Tables /\ s.b \in [Names -> Nat]
  BY <1>5 DEF LowererRecords
<1>7. ScopeFits(g)'
  BY <1>1, <1>5, <1>6 DEF ScopeFits, Fits, OnlyDead
<1>8. IfsFit(s.g)
  BY <1>4, <1>6, ScopeStays
<1>9. IfsFit(g)'
  BY <1>1, <1>8 DEF IfsFit
<1> QED BY <1>1, <1>6, <1>7, <1>9 DEF LowererInv

LEMMA ExprsAreExpressions ==
  /\ \A e \in Exprs \cup Conds : e \in Expressions
  /\ \A f \in Loops : IsLoop(f)
BY LoweringAssumption

LEMMA BindSound ==
  ASSUME LowererInv, NEW x \in Vars, NEW e \in Exprs, Bind(x, e)
  PROVE  LowererInv'
<1> DEFINE prog == <<Stmt("let", x, e)>>
<1>1. Perform(prog) /\ (DeadCode \/ Continues(ctrl)) /\ visible' = visible \cup {x}
  BY DEF Bind, MayLower
<1>2. x \in Names /\ e \in Expressions
  BY ExprsAreExpressions DEF Names
<1>3. Len(prog) \in Nat /\ \A k \in 1 .. Len(prog) : Legal(prog, k)
  BY <1>2, StmtLegal
<1>4. visible' \in SUBSET Names
  BY <1>1, <1>2 DEF LowererInv, IfsFit
<1> HIDE DEF prog
<1> QED BY <1>1, <1>3, <1>4, PerformSound

LEMMA ExprStmtSound ==
  ASSUME LowererInv, NEW e \in Exprs, ExprStmt(e)
  PROVE  LowererInv'
<1> DEFINE prog == <<[do |-> "expr", e |-> e]>>
<1>1. Perform(prog) /\ (DeadCode \/ Continues(ctrl)) /\ visible' = visible
  BY DEF ExprStmt, MayLower
<1>2. e \in Expressions
  BY ExprsAreExpressions
<1>3. Len(prog) = 1 /\ prog[1].do = "expr" /\ prog[1].e = e
  OBVIOUS
<1> HIDE DEF prog
<1>4. Len(prog) \in Nat /\ \A k \in 1 .. Len(prog) : Legal(prog, k)
  <2>1. Legal(prog, 1)
    BY <1>2, <1>3 DEF Legal
  <2> QED BY <1>3, <2>1
<1>5. visible' \in SUBSET Names
  BY <1>1 DEF LowererInv, IfsFit
<1> QED BY <1>1, <1>4, <1>5, PerformSound

LEMMA ForStmtSound ==
  ASSUME LowererInv, NEW f \in Loops, ForStmt(f)
  PROVE  LowererInv'
<1>1. Perform(f) /\ (DeadCode \/ Continues(ctrl)) /\ visible' = visible
  BY DEF ForStmt, MayLower
<1>2. Len(f) \in Nat /\ \A k \in 1 .. Len(f) : Legal(f, k)
  BY ExprsAreExpressions, LoopLegal
<1>3. visible' \in SUBSET Names
  BY <1>1 DEF LowererInv, IfsFit
<1> QED BY <1>1, <1>2, <1>3, PerformSound

LEMMA ReturnStmtSound ==
  ASSUME LowererInv, NEW e \in Exprs, ReturnStmt(e)
  PROVE  LowererInv'
<1> DEFINE s == LowerExpr(Here, e)
           H == MakeNode(s.g, "Return", 0, <<ctrl, s.eff, s.id>>)
<1>1. /\ DeadCode \/ Continues(ctrl)
      /\ g' = H /\ hc' = s.hc /\ ctrl' = NoNode /\ eff' = NoNode
      /\ bindings' = bindings /\ visible' = visible /\ ifs' = ifs
  BY Zenon DEF ReturnStmt, MayLower
<1>2. e \in Expressions
  BY ExprsAreExpressions
<1>s. s = LowerExpr(Here, e)
  OBVIOUS
<1> HIDE DEF s
<1>3. /\ s \in Lowerers /\ Grown(g, s.g)
      /\ s.g \in Sound /\ Len(s.g.nodes) \in Nat /\ ctrl \in 0 .. Len(s.g.nodes)
      /\ s.eff \in 0 .. Len(s.g.nodes) /\ s.id \in 0 .. Len(s.g.nodes)
  BY <1>1, <1>2, <1>s, ExprFits
<1>4. Added(s.g, H, "Return", <<ctrl, s.eff, s.id>>)
  <2> DEFINE x == s.eff
             y == s.id
  <2> HIDE DEF x, y
  <2>1. Added(s.g, MakeNode(s.g, "Return", 0, <<ctrl, x, y>>), "Return", <<ctrl, x, y>>)
    BY <1>3, AddReturn DEF x, y
  <2> QED BY <2>1 DEF x, y
<1> HIDE DEF H
<1>5. H \in Sound /\ Grown(s.g, H) /\ Len(H.nodes) \in Nat
  BY <1>3, <1>4 DEF Added
<1>6. Grown(g, H)
  BY <1>3, <1>5, GrownTrans DEF LowererInv
<1>7. bindings \in [Names -> Nat] /\ Bound(H, bindings) /\ IfsFit(H)
  BY <1>5, <1>6, ScopeStays
<1>8. s.hc \in Tables /\ HcFits(H, s.hc)
  BY <1>3, <1>5, TableStays
<1>9. NoNode \in 0 .. Len(H.nodes) /\ OnlyDead(H, NoNode, NoNode)
  BY <1>5 DEF NoNode, OnlyDead, Unreached
<1>10. ScopeFits(g)'
  BY <1>1, <1>7, <1>8, <1>9 DEF ScopeFits
<1>11. IfsFit(g)'
  BY <1>1, <1>7 DEF IfsFit
<1> QED BY <1>1, <1>5, <1>10, <1>11 DEF LowererInv

LEMMA FinishFnSound ==
  ASSUME LowererInv, FinishFn
  PROVE  LowererInv'
<1> DEFINE z == 0
           C == MakeConstant(g, z)
           v == NewId(g)
           R == MakeNode(C, "Return", 0, <<ctrl, eff, v>>)
<1>1. /\ g' = g \/ g' = R
      /\ hc' = hc /\ ctrl' = ctrl /\ eff' = eff
      /\ bindings' = bindings /\ visible' = visible /\ ifs' = ifs
  BY Zenon DEF FinishFn
<1>2. /\ g \in Sound /\ hc \in Tables /\ HcFits(g, hc) /\ ctrl \in 0 .. Len(g.nodes) /\ eff \in 0 .. Len(g.nodes)
      /\ OnlyDead(g, ctrl, eff)
  BY DEF LowererInv, ScopeFits
<1>3. Len(g.nodes) \in Nat
  BY <1>2, GraphFacts DEF Sound
<1>4. z \in Int
  OBVIOUS
<1> HIDE DEF z
<1>5. Added(g, C, "Constant", << >>)
  BY <1>2, <1>4, AddConstant
<1> HIDE DEF C
<1>6. C \in Sound /\ Grown(g, C) /\ Len(C.nodes) = Len(g.nodes) + 1
  BY <1>5 DEF Added
<1>7. ctrl \in 0 .. Len(C.nodes) /\ eff \in 0 .. Len(C.nodes) /\ v \in 0 .. Len(C.nodes)
  <2> DEFINE N == Len(g.nodes)
             M == Len(C.nodes)
  <2>1. N \in Nat /\ M = N + 1 /\ v = N + 1 /\ ctrl \in 0 .. N /\ eff \in 0 .. N
    BY <1>2, <1>3, <1>6 DEF NewId
  <2> HIDE DEF N, M, v
  <2>2. ctrl \in 0 .. M /\ eff \in 0 .. M /\ v \in 0 .. M
    BY <2>1
  <2> QED BY <2>2 DEF M
<1> HIDE DEF v
<1>8. Added(C, R, "Return", <<ctrl, eff, v>>)
  BY <1>6, <1>7, AddReturn
<1> HIDE DEF R
<1>9. R \in Sound /\ Grown(g, R)
  <2>1. R \in Sound /\ Grown(C, R)
    BY <1>8 DEF Added
  <2> QED BY <1>2, <1>6, <2>1, GrownTrans
<1>10. PICK H : g' = H /\ H \in Sound /\ Grown(g, H)
  <2>1. Grown(g, g)
    BY <1>2, <1>3, GraphFacts DEF Grown
  <2> QED BY <1>1, <1>2, <1>9, <2>1
<1>11. Len(H.nodes) \in Nat /\ Len(g.nodes) =< Len(H.nodes)
  BY <1>2, <1>10, GrownFacts
<1>12. bindings \in [Names -> Nat] /\ Bound(H, bindings) /\ IfsFit(H)
  BY <1>10, ScopeStays
<1>13. HcFits(H, hc)
  BY <1>2, <1>3, <1>11 DEF HcFits
<1>14. ctrl \in 0 .. Len(H.nodes) /\ eff \in 0 .. Len(H.nodes)
  BY <1>2, <1>3, <1>11
<1>15. OnlyDead(H, ctrl, eff)
  BY <1>2, <1>10, UnreachedStays DEF OnlyDead
<1>16. ScopeFits(g)'
  BY <1>1, <1>2, <1>10, <1>12, <1>13, <1>14, <1>15 DEF ScopeFits
<1>17. IfsFit(g)'
  BY <1>1, <1>10, <1>12 DEF IfsFit
<1> QED BY <1>10, <1>16, <1>17 DEF LowererInv

LEMMA IfBeginSound ==
  ASSUME LowererInv, NEW e \in Conds, IfBegin(e)
  PROVE  LowererInv'
<1> DEFINE s == LowerExpr(Here, e)
           n == NewId(s.g)
           H1 == MakeNode(s.g, "If", 0, <<ctrl, s.id>>)
           H2 == MakeProj(H1, n, 0)
           H == MakeProj(H2, n, 1)
           hold == {p \in Params : SourceValue(e, run[p].env) # 0}
           on == {p \in Params : run[p].on}
           f == [half |-> "then", fproj |-> n + 2, eff |-> s.eff, bindings |-> bindings, visible |-> visible,
                 took |-> hold, on |-> on]
<1>1. /\ DeadCode \/ Continues(ctrl)
      /\ g' = H /\ hc' = s.hc /\ ctrl' = n + 1 /\ eff' = s.eff
      /\ bindings' = bindings /\ visible' = visible /\ ifs' = Append(ifs, f)
  BY Zenon DEF IfBegin, MayLower
<1>2. e \in Expressions
  BY ExprsAreExpressions
<1>o. hold \in SUBSET Params /\ on \in SUBSET Params
  OBVIOUS
<1>s. s = LowerExpr(Here, e)
  OBVIOUS
<1> HIDE DEF s, hold, on
<1>3. /\ s \in Lowerers /\ Grown(g, s.g)
      /\ s.g \in Sound /\ Len(s.g.nodes) \in Nat /\ ctrl \in 0 .. Len(s.g.nodes)
      /\ s.eff \in 0 .. Len(s.g.nodes) /\ s.id \in 0 .. Len(s.g.nodes)
      /\ DeadCode \/ s.eff # NoNode
  BY <1>1, <1>2, <1>s, ExprFits
<1>4. n = Len(s.g.nodes) + 1
  BY DEF NewId
<1> HIDE DEF n
<1>5. Added(s.g, H1, "If", <<ctrl, s.id>>)
  <2> DEFINE y == s.id
  <2> HIDE DEF y
  <2>1. Added(s.g, MakeNode(s.g, "If", 0, <<ctrl, y>>), "If", <<ctrl, y>>)
    BY <1>3, AddIf DEF y
  <2> QED BY <2>1 DEF y
<1> HIDE DEF H1
<1>6. H1 \in Sound /\ Grown(s.g, H1) /\ Len(H1.nodes) = Len(s.g.nodes) + 1 /\ n \in 0 .. Len(H1.nodes)
  BY <1>3, <1>4, <1>5 DEF Added
<1>7. Added(H1, H2, "Proj", <<n>>)
  <2> DEFINE z == 0
  <2>1. z \in Int
    OBVIOUS
  <2> HIDE DEF z
  <2>2. Added(H1, MakeProj(H1, n, z), "Proj", <<n>>)
    BY <1>6, <2>1, AddProj
  <2> QED BY <2>2 DEF z
<1> HIDE DEF H2
<1>8. H2 \in Sound /\ Grown(H1, H2) /\ Len(H2.nodes) = Len(s.g.nodes) + 2 /\ n \in 0 .. Len(H2.nodes)
  BY <1>3, <1>6, <1>7 DEF Added
<1>9. Added(H2, H, "Proj", <<n>>)
  <2> DEFINE z == 1
  <2>1. z \in Int
    OBVIOUS
  <2> HIDE DEF z
  <2>2. Added(H2, MakeProj(H2, n, z), "Proj", <<n>>)
    BY <1>8, <2>1, AddProj
  <2> QED BY <2>2 DEF z
<1> HIDE DEF H
<1>10. H \in Sound /\ Grown(H2, H) /\ Len(H.nodes) = Len(s.g.nodes) + 3
  BY <1>3, <1>8, <1>9 DEF Added
<1>11. Grown(s.g, H) /\ Grown(g, H)
  <2>1. Grown(s.g, H2)
    BY <1>3, <1>6, <1>8, GrownTrans
  <2>2. Grown(s.g, H)
    BY <1>3, <1>8, <1>10, <2>1, GrownTrans
  <2> QED BY <1>3, <1>10, <2>2, GrownTrans DEF LowererInv
<1>12. bindings \in [Names -> Nat] /\ Bound(H, bindings) /\ IfsFit(H)
  BY <1>10, <1>11, ScopeStays
<1>13. s.hc \in Tables /\ HcFits(H, s.hc)
  BY <1>3, <1>10, <1>11, TableStays
<1>14. n + 1 \in 0 .. Len(H.nodes) /\ n + 2 \in 0 .. Len(H.nodes) /\ s.eff \in 0 .. Len(H.nodes)
       /\ n + 2 \in Nat /\ s.eff \in Nat
  <2> DEFINE N == Len(s.g.nodes)
             M == Len(H.nodes)
             v == s.eff
  <2>1. N \in Nat /\ M = N + 3 /\ n = N + 1 /\ v \in 0 .. N
    BY <1>3, <1>4, <1>10
  <2> HIDE DEF N, M, v
  <2>2. n + 1 \in 0 .. M /\ n + 2 \in 0 .. M /\ v \in 0 .. M /\ n + 2 \in Nat /\ v \in Nat
    BY <2>1
  <2> QED BY <2>2 DEF M, v
<1>15. ScopeFits(g)'
  BY <1>1, <1>3, <1>12, <1>13, <1>14 DEF ScopeFits, OnlyDead
<1>16. IfFits(H, f)
  <2> DEFINE v == s.eff
             p == n + 2
  <2>1. visible \in SUBSET Names /\ v \in Nat /\ p \in Nat /\ p \in 0 .. Len(H.nodes) /\ v \in 0 .. Len(H.nodes)
        /\ (DeadCode \/ v # NoNode)
    BY <1>3, <1>12, <1>14 DEF IfsFit
  <2>2. f = [half |-> "then", fproj |-> p, eff |-> v, bindings |-> bindings, visible |-> visible,
             took |-> hold, on |-> on]
    OBVIOUS
  <2> HIDE DEF v, p, f
  <2>3. /\ f \in ThenRecords /\ f.fproj = p /\ f.eff = v /\ f.bindings = bindings
    BY <1>o, <1>12, <2>1, <2>2 DEF ThenRecords
  <2> QED BY <1>12, <2>1, <2>3 DEF IfFits, ThenFits
<1> HIDE DEF f
<1>17. IfsFit(g)'
  <2>1. IfList(H, Append(ifs, f))
    BY <1>12, <1>16, IfPushed DEF IfsFit
  <2> QED BY <1>1, <1>12, <2>1 DEF IfsFit
<1> QED BY <1>1, <1>10, <1>15, <1>17 DEF LowererInv

LEMMA IfElseSound ==
  ASSUME LowererInv, IfElse
  PROVE  LowererInv'
<1> DEFINE f == Last(ifs)
           r == [half |-> "else", eff |-> eff, ctrl |-> ctrl, bindings |-> bindings, visible |-> visible,
                 before |-> f.visible, on |-> f.on]
<1>1. /\ ifs # << >> /\ f.half = "then"
      /\ g' = g /\ hc' = hc /\ ctrl' = f.fproj /\ eff' = f.eff
      /\ bindings' = f.bindings /\ visible' = f.visible /\ ifs' = Append(Front(ifs), r)
  BY Zenon DEF IfElse
<1>2. /\ g \in Sound /\ hc \in Tables /\ HcFits(g, hc) /\ bindings \in [Names -> Nat] /\ Bound(g, bindings)
      /\ ctrl \in 0 .. Len(g.nodes) /\ eff \in 0 .. Len(g.nodes) /\ OnlyDead(g, ctrl, eff)
      /\ visible \in SUBSET Names /\ IfList(g, ifs)
  BY DEF LowererInv, ScopeFits, IfsFit
<1>3. IfList(g, Front(ifs)) /\ IfFits(g, f)
  BY <1>1, <1>2, IfPopped
<1>r. r = [half |-> "else", eff |-> eff, ctrl |-> ctrl, bindings |-> bindings, visible |-> visible,
           before |-> f.visible, on |-> f.on]
  OBVIOUS
<1> HIDE DEF f, r
<1>4. ThenFits(g, f)
  <2>1. f.half # "else"
    BY <1>1
  <2> QED BY <1>3, <2>1 DEF IfFits, ElseFits, ElseRecords
<1>5. /\ f.fproj \in 0 .. Len(g.nodes) /\ f.eff \in 0 .. Len(g.nodes) /\ Bound(g, f.bindings)
      /\ (DeadCode \/ f.eff # NoNode)
      /\ f.bindings \in [Names -> Nat] /\ f.visible \in SUBSET Names /\ f.on \in SUBSET Params
  BY <1>4 DEF ThenFits, ThenRecords
<1>6. ScopeFits(g)'
  BY <1>1, <1>2, <1>5 DEF ScopeFits, OnlyDead
<1>7. IfFits(g, r)
  <2>1. Len(g.nodes) \in Nat
    BY <1>2, GraphFacts DEF Sound
  <2>2. ctrl \in Nat /\ eff \in Nat
    BY <1>2, <2>1
  <2> DEFINE v == f.visible
             o == f.on
  <2> HIDE DEF v, o
  <2>3. r = [half |-> "else", eff |-> eff, ctrl |-> ctrl, bindings |-> bindings, visible |-> visible,
             before |-> v, on |-> o]
    BY <1>r DEF v, o
  <2>4. v \in SUBSET Names /\ o \in SUBSET Params
    BY <1>5 DEF v, o
  <2>5. r \in ElseRecords /\ r.ctrl = ctrl /\ r.eff = eff /\ r.bindings = bindings
    BY <1>2, <2>2, <2>3, <2>4 DEF ElseRecords
  <2> QED BY <1>2, <2>5 DEF IfFits, ElseFits
<1>8. IfsFit(g)'
  <2>1. IfList(g, Append(Front(ifs), r))
    BY <1>3, <1>7, IfPushed
  <2> QED BY <1>1, <1>5, <2>1 DEF IfsFit
<1> QED BY <1>1, <1>2, <1>6, <1>8 DEF LowererInv

LEMMA IfEndSound ==
  ASSUME LowererInv, IfEnd
  PROVE  LowererInv'
<1> DEFINE f == Last(ifs)
           m == NewId(g)
           H == MakeNode(g, "Region", 0, <<f.ctrl, ctrl>>)
           r == MergePhis(H, m, f.bindings, bindings)
<1>1. /\ ifs # << >> /\ f.half = "else"
      /\ g' = r.g /\ hc' = hc /\ ctrl' = m /\ eff' = EffAfterIf(f.eff, eff)
      /\ bindings' = r.b /\ visible' = VisibleAfterIf(f.before, f.visible, visible) /\ ifs' = Front(ifs)
  BY Zenon DEF IfEnd
<1>2. /\ g \in Sound /\ hc \in Tables /\ HcFits(g, hc) /\ bindings \in [Names -> Nat] /\ Bound(g, bindings)
      /\ ctrl \in 0 .. Len(g.nodes) /\ eff \in 0 .. Len(g.nodes) /\ OnlyDead(g, ctrl, eff)
      /\ visible \in SUBSET Names /\ IfList(g, ifs)
  BY DEF LowererInv, ScopeFits, IfsFit
<1>3. IfList(g, Front(ifs)) /\ IfFits(g, f)
  BY <1>1, <1>2, IfPopped
<1>4. Len(g.nodes) \in Nat /\ m = Len(g.nodes) + 1
  BY <1>2, GraphFacts DEF Sound, NewId
<1> HIDE DEF f, m
<1>5. ElseFits(g, f)
  <2>1. f.half # "then"
    BY <1>1
  <2> QED BY <1>3, <2>1 DEF IfFits, ThenFits, ThenRecords
<1>6. /\ f.ctrl \in 0 .. Len(g.nodes) /\ f.eff \in 0 .. Len(g.nodes) /\ Bound(g, f.bindings)
      /\ OnlyDead(g, f.ctrl, f.eff)
      /\ f.bindings \in [Names -> Nat] /\ f.visible \in SUBSET Names /\ f.before \in SUBSET Names
  BY <1>5 DEF ElseFits, ElseRecords
<1> DEFINE x == f.ctrl
           v == f.eff
           then == f.bindings
<1>7. /\ x \in 0 .. Len(g.nodes) /\ v \in 0 .. Len(g.nodes) /\ then \in [Names -> Nat] /\ Bound(g, then)
      /\ OnlyDead(g, x, v)
      /\ H = MakeNode(g, "Region", 0, <<x, ctrl>>) /\ r = MergePhis(H, m, then, bindings)
      /\ eff' = EffAfterIf(v, eff)
  BY <1>1, <1>6
<1> HIDE DEF x, v, then, H, r
<1>8. Added(g, H, "Region", <<x, ctrl>>)
  BY <1>2, <1>7, AddRegion
<1>9. /\ H \in Sound /\ Grown(g, H) /\ Len(H.nodes) = Len(g.nodes) + 1
      /\ Kind(H, m) = "Region" /\ Ins(H, m) = <<x, ctrl>> /\ m \in 0 .. Len(H.nodes) /\ m \in 1 .. Len(H.nodes)
  BY <1>4, <1>8 DEF Added
<1>10. Bound(H, then) /\ Bound(H, bindings)
  BY <1>2, <1>7, <1>9, BoundStays
<1>11. Merged(H, r)
  BY <1>2, <1>7, <1>9, <1>10, MergePhisSound
<1>12. r.g \in Sound /\ Grown(H, r.g) /\ r.b \in [Names -> Nat] /\ Bound(r.g, r.b)
  BY <1>11 DEF Merged, Merges
<1>13. Grown(g, r.g)
  BY <1>2, <1>9, <1>12, GrownTrans
<1>14. /\ Len(r.g.nodes) \in Nat /\ Len(H.nodes) =< Len(r.g.nodes) /\ Len(H.nodes) \in Nat
       /\ Ids(r.g) = 1 .. Len(r.g.nodes) /\ Ids(H) = 1 .. Len(H.nodes)
       /\ Kind(r.g, m) = "Region"
  BY <1>9, <1>12, GrownFacts
<1>15. /\ m \in 0 .. Len(r.g.nodes) /\ m \in Ids(r.g) /\ Ins(r.g, m) = <<x, ctrl>>
       /\ EffAfterIf(v, eff) \in 0 .. Len(r.g.nodes)
  <2>1. Ins(r.g, m) = Ins(H, m)
    BY <1>9, <1>12, <1>14 DEF Grown
  <2> DEFINE L == Len(r.g.nodes)
             M == Len(H.nodes)
             N == Len(g.nodes)
             w == EffAfterIf(v, eff)
  <2>2. N \in Nat /\ M = N + 1 /\ L \in Nat /\ M =< L /\ m = N + 1 /\ Ids(r.g) = 1 .. L
    BY <1>4, <1>9, <1>14
  <2>3. w \in 0 .. N
    BY <1>2, <1>7 DEF EffAfterIf
  <2> HIDE DEF L, M, N, w
  <2>4. m \in 0 .. L /\ m \in 1 .. L /\ w \in 0 .. L
    BY <2>2, <2>3
  <2> QED BY <1>9, <2>1, <2>2, <2>4 DEF L, w
<1>16. OnlyDead(r.g, m, EffAfterIf(v, eff))
  <2> SUFFICES ASSUME ~ DeadCode, EffAfterIf(v, eff) = NoNode PROVE Unreached(r.g, m)
    BY DEF OnlyDead
  <2>1. v = NoNode /\ eff = NoNode
    BY DEF EffAfterIf
  <2>2. Unreached(g, x) /\ Unreached(g, ctrl)
    BY <1>2, <1>7, <2>1 DEF OnlyDead
  <2> QED BY <1>2, <1>12, <1>13, <1>14, <1>15, <2>2, MergeUnreached
<1>17. HcFits(r.g, hc)
  <2> DEFINE L == Len(r.g.nodes)
             N == Len(g.nodes)
  <2>1. N \in Nat /\ L \in Nat /\ N =< L
    BY <1>4, <1>9, <1>14
  <2>2. \A key \in DOMAIN hc : hc[key] \in 0 .. N
    BY <1>2 DEF HcFits
  <2> HIDE DEF L, N
  <2>3. \A key \in DOMAIN hc : hc[key] \in 0 .. L
    BY <2>1, <2>2
  <2> QED BY <2>3 DEF HcFits, L
<1>18. ScopeFits(g)'
  BY <1>1, <1>2, <1>7, <1>12, <1>15, <1>16, <1>17 DEF ScopeFits
<1>19. IfsFit(g)'
  <2>1. IfList(r.g, Front(ifs))
    BY <1>2, <1>3, <1>12, <1>13, ListStays
  <2>2. visible' \in SUBSET Names
    BY <1>1, <1>2, <1>6 DEF VisibleAfterIf
  <2> QED BY <1>1, <2>1, <2>2 DEF IfsFit
<1> QED BY <1>1, <1>12, <1>18, <1>19 DEF LowererInv

-----------------------------------------------------------------------------
(* The initial graph: Start, its two projections and the parameters.           *)
LEMMA EmptySound == EmptyGraph \in Sound /\ Len(EmptyGraph.nodes) = 1
<1> DEFINE z == 0
           one == [kind |-> "Start", val |-> z, ins |-> << >>, dead |-> FALSE]
           ns == <<one>>
           ls == << << >> >>
           G == [nodes |-> ns, outs |-> ls]
<1>1. G = EmptyGraph
  BY DEF EmptyGraph
<1>2. one \in NodeRecords /\ one.kind = "Start" /\ one.ins = << >>
  <2>1. "Start" \in Kinds /\ z \in Int /\ << >> \in Seq(Nat)
    BY DEF Kinds
  <2> HIDE DEF z
  <2> QED BY <2>1 DEF NodeRecords
<1> HIDE DEF one
<1>3. ns \in Seq(NodeRecords) /\ Len(ns) = 1 /\ ns[1] = one
  BY <1>2
<1>4. ls \in [1 .. 1 -> Seq(1 .. 1)] /\ ls[1] = << >>
  <2>1. ls = [i \in 1 .. 1 |-> << >>]
    OBVIOUS
  <2>2. << >> \in Seq(1 .. 1)
    OBVIOUS
  <2> QED BY <2>1, <2>2
<1>5. ls \in Lists
  BY <1>4 DEF Lists
<1> HIDE DEF ns, ls
<1>6. G.nodes = ns /\ G.outs = ls /\ Ids(G) = 1 .. 1 /\ G \in [nodes : Seq(NodeRecords), outs : Lists]
  BY <1>3, <1>5 DEF Ids
<1>7. \A n \in Ids(G) : n = 1 /\ Kind(G, n) = "Start" /\ Ins(G, n) = << >> /\ Users(G, n) = << >>
  BY <1>2, <1>3, <1>4, <1>6 DEF Kind, Ins, Users
<1> HIDE DEF G
<1>8. Linked(G)
  <2>1. << >> \in Seq(0 .. Len(G.nodes)) /\ Len(<< >>) = 0 /\ Arity("Start") = 0
    <3> DEFINE k == "Start"
    <3>1. k \in {"Start", "Constant", "Parameter"}
      OBVIOUS
    <3> HIDE DEF k
    <3>2. Arity(k) = 0
      BY <3>1 DEF Arity, UnaryKinds
    <3> QED BY <3>2 DEF k
  <2>2. G.outs \in [Ids(G) -> Seq(Ids(G))]
    BY <1>4, <1>6
  <2> QED BY <1>7, <2>1, <2>2 DEF Linked
<1>9. Matched(G)
  BY <1>7 DEF Matched
<1>10. Chained(G)
  BY <1>7 DEF Chained
<1> QED BY <1>1, <1>3, <1>6, <1>8, <1>9, <1>10 DEF Sound, Graphs

LEMMA ParamNodesSound ==
  ASSUME NEW G \in Sound
  PROVE  /\ ParamNodes(G)[Len(ParamNames)] \in Sound
         /\ Len(ParamNodes(G)[Len(ParamNames)].nodes) = Len(G.nodes) + Len(ParamNames)
<1> DEFINE n == Len(ParamNames)
           N == Len(G.nodes)
           With(k) == {K \in Sound : Len(K.nodes) = N + k}
           T == [k \in 0 .. n |-> With(k)]
           next(K, k) == MakeNode(K, "Parameter", k, << >>)
           step == [p \in Sound \X (1 .. n) |-> next(p[1], p[2])]
           Loop(f) == f = [k \in 0 .. n |-> IF k = 0 THEN G ELSE next(f[k - 1], k)]
<1>0. n \in Nat /\ N \in Nat
  <2>1. ParamNames \in Seq(STRING)
    BY LoweringAssumption
  <2>2. N \in Nat
    BY GraphFacts DEF Sound
  <2> QED BY <2>1, <2>2
<1>1. ASSUME NEW k \in 1 .. n, NEW K \in With(k - 1) PROVE next(K, k) \in With(k)
  <2>1. K \in Sound /\ Len(K.nodes) = N + (k - 1) /\ k \in Int
    BY <1>0
  <2> DEFINE M == next(K, k)
  <2>2. Added(K, M, "Parameter", << >>)
    BY <2>1, AddParameter
  <2> HIDE DEF M
  <2>3. M \in Sound /\ Len(M.nodes) = Len(K.nodes) + 1
    BY <2>2 DEF Added
  <2>4. Len(M.nodes) = N + k
    BY <1>0, <2>1, <2>3
  <2> QED BY <2>3, <2>4 DEF M
<1>2. G \in With(0) /\ \A k \in 0 .. n : T[k] = With(k) /\ With(k) \subseteq Sound
  BY <1>0
<1>3. \E f : Loop(f)
  <2>1. \A k \in 1 .. n : \A K \in Sound : step[<<K, k>>] = next(K, k)
    <3> HIDE DEF next
    <3> QED OBVIOUS
  <2> HIDE DEF step, n, T, With, next
  <2>2. ASSUME NEW k \in 1 .. n, NEW K \in T[k - 1] PROVE step[<<K, k>>] \in T[k]
    <3>1. T[k - 1] = With(k - 1) /\ T[k] = With(k) /\ K \in Sound
      BY <1>0, <1>2
    <3> QED BY <1>1, <2>1, <3>1
  <2>3. G \in T[0]
    BY <1>0, <1>2
  <2>4. PICK f : Iteration(f, n, T, G, step)
    BY <1>0, <2>2, <2>3, Iterates
  <2>5. ASSUME NEW k \in 0 .. n PROVE f[k] = IF k = 0 THEN G ELSE next(f[k - 1], k)
    <3>1. CASE k = 0
      BY <2>4, <3>1 DEF Iteration
    <3>2. CASE k # 0
      <4>1. k \in 1 .. n /\ k - 1 \in 0 .. n
        BY <1>0, <3>2
      <4>2. f[k] = step[<<f[k - 1], k>>] /\ f[k - 1] \in Sound
        BY <1>2, <2>4, <4>1 DEF Iteration
      <4> QED BY <2>1, <3>2, <4>1, <4>2
    <3> QED BY <3>1, <3>2
  <2>6. Loop(f)
    BY <2>4, <2>5 DEF Iteration
  <2> HIDE DEF Loop
  <2> QED BY <2>6
<1> DEFINE f == ParamNodes(G)
<1>4. Loop(f)
  <2>1. f = CHOOSE h : Loop(h)
    BY DEF ParamNodes
  <2> HIDE DEF Loop, f
  <2> QED BY <1>3, <2>1
<1> HIDE DEF f, next, With, n
<1>5. f[0] = G /\ \A k \in 1 .. n : f[k] = next(f[k - 1], k)
  BY <1>0, <1>4
<1>6. \A k \in 0 .. n : f[k] \in T[k]
  <2>1. f[0] \in T[0]
    BY <1>0, <1>2, <1>5
  <2>2. ASSUME NEW k \in 1 .. n, f[k - 1] \in T[k - 1] PROVE f[k] \in T[k]
    <3>1. f[k - 1] \in With(k - 1) /\ T[k] = With(k)
      BY <1>0, <1>2, <2>2
    <3> QED BY <1>1, <1>5, <3>1
  <2> HIDE DEF T
  <2> QED BY <1>0, <2>1, <2>2, Follows
<1>7. f[n] \in With(n)
  BY <1>0, <1>2, <1>6
<1> QED BY <1>7 DEF With, f, n

LEMMA LowerInitSound ==
  ASSUME LowerInit
  PROVE  LowererInv
<1> DEFINE G1 == MakeProj(EmptyGraph, StartNode, 0)
           G2 == MakeProj(G1, StartNode, 1)
           n == Len(ParamNames)
<1>1. /\ g = ParamNodes(G2)[n] /\ ctrl = 2 /\ eff = 3 /\ hc = << >> /\ ifs = << >>
      /\ bindings = [x \in Names |-> IF x \in ToSet(ParamNames) THEN ParamNode(x) ELSE NoNode]
      /\ visible = ToSet(ParamNames)
  BY Zenon DEF LowerInit
<1>2. Added(EmptyGraph, G1, "Proj", <<StartNode>>)
  <2> DEFINE z == 0
             s == StartNode
  <2>1. z \in Int /\ EmptyGraph \in Sound /\ s \in 0 .. Len(EmptyGraph.nodes)
    BY EmptySound DEF StartNode
  <2> HIDE DEF z, s
  <2>2. Added(EmptyGraph, MakeProj(EmptyGraph, s, z), "Proj", <<s>>)
    BY <2>1, AddProj
  <2> QED BY <2>2 DEF z, s
<1> HIDE DEF G1
<1>3. G1 \in Sound /\ Len(G1.nodes) = 2
  BY <1>2, EmptySound DEF Added
<1>4. Added(G1, G2, "Proj", <<StartNode>>)
  <2> DEFINE z == 1
             s == StartNode
  <2>1. z \in Int /\ G1 \in Sound /\ s \in 0 .. Len(G1.nodes)
    BY <1>3 DEF StartNode
  <2> HIDE DEF z, s
  <2>2. Added(G1, MakeProj(G1, s, z), "Proj", <<s>>)
    BY <2>1, AddProj
  <2> QED BY <2>2 DEF z, s
<1> HIDE DEF G2
<1>5. G2 \in Sound /\ Len(G2.nodes) = 3
  BY <1>3, <1>4 DEF Added
<1>6. g \in Sound /\ Len(g.nodes) = 3 + n /\ n \in Nat
  <2>1. g \in Sound /\ Len(g.nodes) = Len(G2.nodes) + n
    BY <1>1, <1>5, ParamNodesSound
  <2>2. n \in Nat
    BY LoweringAssumption
  <2> QED BY <1>5, <2>1, <2>2
<1>7. ASSUME NEW x \in Names PROVE bindings[x] \in 0 .. Len(g.nodes) /\ bindings[x] \in Nat
  <2>1. bindings[x] = IF x \in ToSet(ParamNames) THEN ParamNode(x) ELSE NoNode
    BY <1>1
  <2>2. CASE x \in ToSet(ParamNames)
    <3>1. \E i \in DOMAIN ParamNames : ParamNames[i] = x
      BY <2>2 DEF ToSet
    <3>2. PICK i \in DOMAIN ParamNames : ParamNode(x) = 3 + i
      BY <3>1 DEF ParamNode
    <3>3. i \in 1 .. n
      BY <3>2, LoweringAssumption
    <3>4. bindings[x] = 3 + i
      BY <2>1, <2>2, <3>2
    <3> QED BY <1>6, <3>3, <3>4
  <2>3. CASE x \notin ToSet(ParamNames)
    BY <1>6, <2>1, <2>3 DEF NoNode
  <2> QED BY <2>2, <2>3
<1>8. bindings \in [Names -> Nat] /\ Bound(g, bindings)
  <2>1. bindings = [x \in Names |-> bindings[x]]
    BY <1>1
  <2> QED BY <1>7, <2>1 DEF Bound
<1>9. hc \in Tables /\ HcFits(g, hc)
  <2>1. hc \in [{} -> Nat] /\ DOMAIN hc = {}
    BY <1>1
  <2>2. {} \in SUBSET (Kinds \X Seq(Nat))
    OBVIOUS
  <2>3. hc \in Tables
    BY <2>1, <2>2 DEF Tables
  <2> QED BY <2>1, <2>3 DEF HcFits
<1>10. ctrl \in 0 .. Len(g.nodes) /\ eff \in 0 .. Len(g.nodes) /\ OnlyDead(g, ctrl, eff)
  BY <1>1, <1>6 DEF OnlyDead, NoNode
<1>11. IfsFit(g)
  <2>1. visible \in SUBSET Names
    BY <1>1 DEF Names
  <2>2. IfList(g, ifs)
    BY <1>1 DEF IfList
  <2> QED BY <2>1, <2>2 DEF IfsFit
<1> QED BY <1>6, <1>8, <1>9, <1>10, <1>11 DEF LowererInv, ScopeFits

-----------------------------------------------------------------------------
(* The lowerer keeps its graph, bindings, hash-cons table and pending ifs      *)
(* together (Lowerer::lower_fn): whatever it holds is a node of the graph or   *)
(* none, and a call is never about to be lowered without an effect to hang it  *)
(* on, because only after a return, in both branches of an if or neither, has  *)
(* control no effect beside it.                                                *)
THEOREM LowererKeepsItsState == LowerSpec => []LowererInv
<1>1. LowerInit => LowererInv
  BY LowerInitSound
<1>2. LowererInv /\ [LowerStep]_lvars => LowererInv'
  <2> SUFFICES ASSUME LowererInv, [LowerStep]_lvars PROVE LowererInv'
    OBVIOUS
  <2>1. CASE \E x \in Vars, e \in Exprs : Bind(x, e)
    BY <2>1, BindSound
  <2>2. CASE \E e \in Exprs : ExprStmt(e)
    BY <2>2, ExprStmtSound
  <2>3. CASE \E f \in Loops : ForStmt(f)
    BY <2>3, ForStmtSound
  <2>4. CASE \E e \in Exprs : ReturnStmt(e)
    BY <2>4, ReturnStmtSound
  <2>5. CASE \E e \in Conds : IfBegin(e)
    BY <2>5, IfBeginSound
  <2>6. CASE IfElse
    BY <2>6, IfElseSound
  <2>7. CASE IfEnd
    BY <2>7, IfEndSound
  <2>8. CASE FinishFn
    BY <2>8, FinishFnSound
  <2>9. CASE UNCHANGED lvars
    BY <2>9 DEF lvars, state, LowererInv, ScopeFits, IfsFit
  <2> QED BY <2>1, <2>2, <2>3, <2>4, <2>5, <2>6, <2>7, <2>8, <2>9 DEF LowerStep
<1> QED BY <1>1, <1>2, PTL DEF LowerSpec

(* Graph::verify accepts every graph the Lowerer builds from a program whose   *)
(* statements control can get to, and each input edge has its one user entry,  *)
(* whatever ifs, merges, loops, calls and returns the program is made of.      *)
THEOREM GraphIsSoundHolds ==
  ASSUME ~ DeadCode
  PROVE  LowerSpec => []GraphIsSound
<1>1. LowererInv => GraphIsSound
  BY SoundIsAccepted DEF LowererInv, GraphIsSound, Verify
<1> QED BY <1>1, LowererKeepsItsState, PTL

(* With statements after a return too, only a call of dead code may miss its   *)
(* effect: no input names a missing or dead node, every user entry has its     *)
(* edge and every edge its user entry.                                         *)
EdgesAgree == InputsAlive(g) /\ UsersConsistent(g) /\ UseDefBalanced(g)
THEOREM EdgesAgreeHolds == LowerSpec => []EdgesAgree
<1>1. LowererInv => EdgesAgree
  BY SoundIsAccepted DEF LowererInv, EdgesAgree
<1> QED BY <1>1, LowererKeepsItsState, PTL

=============================================================================
