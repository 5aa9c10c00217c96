-------------------------- MODULE SparseSetProofs ---------------------------
(* SparseSet for every word width and universe: dense_ and sparse_ mirror each *)
(* other, and the class is a set.  What a step relies on besides is that no    *)
(* entry is from a later epoch than the current one, and that a set that lacks *)
(* a number of the universe has room in dense_ for it.                         *)
EXTENDS SparseSet, FiniteSetTheorems, TLAPS

Dated == \A v \in Universe : sparse[v].epoch =< epoch
Inv   == TypeOK /\ Mirrored /\ Dated

-----------------------------------------------------------------------------
\* The universe has as many numbers as sparse_ has entries.
LEMMA NumbersOfUniverse ==
  ASSUME TypeOK
  PROVE  /\ n \in Nat /\ n =< Modulus - 1 /\ Modulus \in Nat /\ Modulus > 1
         /\ IsFiniteSet(Universe) /\ Cardinality(Universe) = n
<1>1. n \in Nat /\ n =< Modulus - 1 /\ Modulus \in Nat /\ Modulus > 1
  BY WidthAssumption DEF TypeOK
<1>2. /\ IsFiniteSet(0 .. n - 1)
      /\ Cardinality(0 .. n - 1) = IF 0 > n - 1 THEN 0 ELSE (n - 1) - 0 + 1
  BY <1>1, FS_Interval
<1>3. QED
  BY <1>1, <1>2 DEF Universe

\* Members stand at different places, so there are no more of them than numbers
\* in the set they are from.
LEMMA PlacesDiffer ==
  ASSUME TypeOK, Mirrored, NEW S, IsFiniteSet(S), \A i \in 1 .. Len(dense) : dense[i] \in S
  PROVE  Len(dense) =< Cardinality(S)
<1>1. Len(dense) \in Nat /\ dense \in [1 .. Len(dense) -> S]
  BY DEF TypeOK
<1>2. ASSUME NEW i \in 1 .. Len(dense), NEW j \in 1 .. Len(dense), dense[i] = dense[j]
      PROVE  i = j
  <2>1. Entry(i - 1, epoch) = Entry(j - 1, epoch)
    BY <1>2 DEF Mirrored
  <2>2. i - 1 = j - 1
    BY <2>1 DEF Entry
  <2>3. QED
    BY <1>1, <2>2
<1>3. IsFiniteSet(1 .. Len(dense)) /\ Cardinality(1 .. Len(dense)) = Len(dense)
  BY <1>1, FS_Interval
<1>4. Cardinality(S) \in Nat
  BY FS_CardinalityType
<1>5. ~ (Cardinality(S) < Cardinality(1 .. Len(dense)))
  BY <1>1, <1>2, <1>3, FS_PigeonHole
<1>6. QED
  BY <1>1, <1>3, <1>4, <1>5

\* There are never more members than numbers, so no place is the sentinel.
LEMMA Room ==
  ASSUME TypeOK, Mirrored
  PROVE  /\ Len(dense) =< n
         /\ \A i \in 1 .. Len(dense) : Contains(dense[i])
<1>1. n \in Nat /\ n =< Modulus - 1 /\ Modulus \in Nat
  BY NumbersOfUniverse
<1>2. IsFiniteSet(Universe) /\ Cardinality(Universe) = n
  BY NumbersOfUniverse
<1>3. \A i \in 1 .. Len(dense) : dense[i] \in Universe
  BY DEF TypeOK
<1>4. Len(dense) =< n
  BY <1>2, <1>3, PlacesDiffer
<1>5. ASSUME NEW i \in 1 .. Len(dense) PROVE Contains(dense[i])
  <2>1. sparse[dense[i]] = Entry(i - 1, epoch)
    BY DEF Mirrored
  <2>2. i - 1 # Modulus - 1
    BY <1>1, <1>4 DEF TypeOK
  <2>3. QED
    BY <1>3, <2>1, <2>2 DEF Contains, Entry, Sentinel
<1>6. QED
  BY <1>4, <1>5

LEMMA RoomForOneMore ==
  ASSUME TypeOK, Mirrored, NEW v \in Universe, ~ Contains(v)
  PROVE  Len(dense) < n
<1>1. n \in Nat /\ Len(dense) \in Nat
  BY DEF TypeOK
<1>2. IsFiniteSet(Universe) /\ Cardinality(Universe) = n
  BY NumbersOfUniverse
<1>3. IsFiniteSet(Universe \ {v}) /\ Cardinality(Universe \ {v}) = n - 1
  BY <1>2, FS_RemoveElement
<1>4. \A i \in 1 .. Len(dense) : dense[i] \in Universe \ {v}
  BY Room DEF TypeOK
<1>5. Len(dense) =< n - 1
  BY <1>3, <1>4, PlacesDiffer
<1>6. QED
  BY <1>1, <1>5

-----------------------------------------------------------------------------
\* What each call does to the invariant and to who is a member.
LEMMA ResizeStep ==
  ASSUME Inv, NEW size \in 0 .. MaxUniverse, Resize(size)
  PROVE  Inv' /\ \A w : ~ Contains(w)'
<1>1. Modulus \in Nat /\ Modulus > 1 /\ size \in Nat /\ MaxUniverse \in Nat
  BY WidthAssumption
<1>2. Universe' = 0 .. size - 1 /\ sparse' = [v \in 0 .. size - 1 |-> Entry(Sentinel, 0)]
  BY DEF Resize, Universe, Untouched
<1>3. \A w : ~ Contains(w)'
  BY <1>2 DEF Contains, Entry
<1>4. TypeOK'
  BY <1>1, <1>2 DEF Inv, TypeOK, Resize, Entry, Sentinel, Word
<1>5. Mirrored'
  BY <1>3 DEF Mirrored, Resize
<1>6. Dated'
  BY <1>2 DEF Dated, Resize, Entry
<1>7. QED
  BY <1>3, <1>4, <1>5, <1>6 DEF Inv

LEMMA ClearStep ==
  ASSUME Inv, Clear
  PROVE  Inv' /\ \A w : ~ Contains(w)'
<1>1. Modulus \in Nat /\ Modulus > 1 /\ epoch \in Word \ {0} /\ Universe' = Universe
  BY WidthAssumption DEF Inv, TypeOK, Clear, Universe
<1>2. CASE epoch = Modulus - 1
  <2>1. (epoch + 1) % Modulus = 0
    BY <1>1, <1>2
  <2>2. epoch' = 1 /\ sparse' = [v \in Universe |-> Entry(Sentinel, 0)] /\ dense' = << >>
    BY <2>1 DEF Clear, Survivors, Untouched, Universe
  <2>3. \A w : ~ Contains(w)'
    BY <1>1, <2>2 DEF Contains, Entry
  <2>4. TypeOK'
    BY <1>1, <2>2 DEF Inv, TypeOK, Clear, Entry, Sentinel, Word
  <2>5. Mirrored'
    BY <2>2, <2>3 DEF Mirrored
  <2>6. Dated'
    BY <1>1, <2>2 DEF Dated, Entry
  <2>7. QED
    BY <2>3, <2>4, <2>5, <2>6 DEF Inv
<1>3. CASE epoch # Modulus - 1
  <2>1. (epoch + 1) % Modulus = epoch + 1 /\ epoch + 1 # 0 /\ epoch + 1 \in Word
    BY <1>1, <1>3 DEF Word
  <2>2. epoch' = epoch + 1 /\ sparse' = sparse /\ dense' = << >>
    BY <2>1 DEF Clear, Survivors
  <2>3. \A v \in Universe : sparse[v].epoch \in Nat /\ sparse[v].epoch =< epoch
    BY DEF Inv, TypeOK, Dated, Word
  <2>4. epoch \in Nat
    BY <1>1 DEF Word
  <2>5. \A v \in Universe : sparse[v].epoch =< epoch + 1 /\ sparse[v].epoch # epoch + 1
    BY <2>3, <2>4
  <2>6. \A w : ~ Contains(w)'
    BY <1>1, <2>2, <2>5 DEF Contains
  <2>7. TypeOK'
    BY <1>1, <2>1, <2>2 DEF Inv, TypeOK, Clear
  <2>8. Mirrored'
    BY <2>2, <2>6 DEF Mirrored
  <2>9. Dated'
    BY <1>1, <2>2, <2>5 DEF Dated
  <2>10. QED
    BY <2>6, <2>7, <2>8, <2>9 DEF Inv
<1>4. QED
  BY <1>2, <1>3

LEMMA InsertStep ==
  ASSUME Inv, NEW v \in 0 .. MaxUniverse, Insert(v)
  PROVE  Inv' /\ \A w : Contains(w)' <=> Contains(w) \/ w = v
<1>1. v \in Universe /\ Universe' = Universe /\ epoch' = epoch /\ n' = n
  BY DEF Insert, Universe
<1>2. answer' \in BOOLEAN
  BY DEF Insert, Contains
<1>3. CASE Contains(v)
  <2>1. sparse' = sparse /\ dense' = dense
    BY <1>3 DEF Insert
  <2>2. \A w : Contains(w)' <=> Contains(w)
    BY <1>1, <2>1 DEF Contains
  <2>3. TypeOK' /\ Mirrored' /\ Dated'
    BY <1>1, <1>2, <2>1, <2>2 DEF Inv, TypeOK, Mirrored, Dated
  <2>4. QED
    BY <1>3, <2>2, <2>3 DEF Inv
<1>4. CASE ~ Contains(v)
  <2> DEFINE L == Len(dense)
  <2>1. /\ sparse' = [sparse EXCEPT ![v] = Entry(L, epoch)]
        /\ dense' = Append(dense, v)
    BY <1>4 DEF Insert
  <2>2. L \in Nat /\ L < n /\ n \in Nat /\ n =< Modulus - 1 /\ Modulus \in Nat
    BY <1>1, <1>4, RoomForOneMore, NumbersOfUniverse DEF Inv, TypeOK
  <2>3. L \in Word /\ L # Sentinel /\ epoch \in Word /\ epoch \in Nat
    BY <2>2 DEF Inv, TypeOK, Word, Sentinel
  <2>4. /\ \A w \in Universe : sparse'[w] = IF w = v THEN Entry(L, epoch) ELSE sparse[w]
        /\ Len(dense') = L + 1
        /\ \A i \in 1 .. L + 1 : dense'[i] = IF i = L + 1 THEN v ELSE dense[i]
    BY <1>1, <2>1 DEF Inv, TypeOK
  <2>5. ASSUME NEW w PROVE Contains(w)' <=> Contains(w) \/ w = v
    <3>1. CASE w = v
      <4>1. sparse'[v] = Entry(L, epoch)
        BY <1>1, <2>4
      <4>2. Contains(v)'
        BY <1>1, <2>3, <4>1 DEF Contains, Entry
      <4>3. QED
        BY <3>1, <4>2
    <3>2. CASE w # v
      <4>1. w \in Universe => sparse'[w] = sparse[w]
        BY <2>4, <3>2
      <4>2. QED
        BY <1>1, <3>2, <4>1 DEF Contains
    <3>3. QED
      BY <3>1, <3>2
  <2>6. TypeOK'
    <3>1. sparse' \in [Universe' -> [idx : Word, epoch : Word]]
      BY <1>1, <2>1, <2>3 DEF Inv, TypeOK, Entry
    <3>2. dense' \in Seq(Universe')
      BY <1>1, <2>1 DEF Inv, TypeOK
    <3>3. QED
      BY <1>1, <1>2, <3>1, <3>2 DEF Inv, TypeOK
  <2>7. Mirrored'
    <3>1. ASSUME NEW i \in 1 .. L + 1 PROVE sparse'[dense'[i]] = Entry(i - 1, epoch)
      <4>1. CASE i = L + 1
        BY <1>1, <2>2, <2>4, <4>1
      <4>2. CASE i # L + 1
        <5>1. i \in 1 .. L /\ dense'[i] = dense[i]
          BY <2>2, <2>4, <4>2
        <5>2. dense[i] # v /\ dense[i] \in Universe
          BY <1>4, <5>1, Room DEF Inv, TypeOK
        <5>3. QED
          BY <2>4, <5>1, <5>2 DEF Inv, Mirrored
      <4>3. QED
        BY <4>1, <4>2
    <3>2. ASSUME NEW w \in Universe, Contains(w)'
          PROVE  sparse'[w].idx < L + 1 /\ dense'[sparse'[w].idx + 1] = w
      <4>1. CASE w = v
        BY <1>1, <2>2, <2>4, <4>1 DEF Entry
      <4>2. CASE w # v
        <5>1. Contains(w) /\ sparse'[w] = sparse[w] /\ sparse[w].idx \in Nat
          BY <2>4, <2>5, <3>2, <4>2 DEF Inv, TypeOK, Word
        <5>2. sparse[w].idx < L /\ dense[sparse[w].idx + 1] = w
          BY <5>1 DEF Inv, Mirrored
        <5>3. QED
          BY <2>2, <2>4, <5>1, <5>2
      <4>3. QED
        BY <4>1, <4>2
    <3>3. QED
      BY <1>1, <2>4, <3>1, <3>2 DEF Mirrored
  <2>8. ASSUME NEW w \in Universe PROVE sparse'[w].epoch =< epoch
    <3>1. CASE w = v
      BY <2>3, <2>4, <3>1 DEF Entry
    <3>2. CASE w # v
      BY <2>4, <3>2 DEF Inv, Dated
    <3>3. QED
      BY <3>1, <3>2
  <2>9. Dated'
    BY <1>1, <2>8 DEF Dated
  <2>10. QED
    BY <2>5, <2>6, <2>7, <2>9 DEF Inv
<1>5. QED
  BY <1>3, <1>4

LEMMA EraseStep ==
  ASSUME Inv, NEW v \in 0 .. MaxUniverse, Erase(v)
  PROVE  Inv' /\ \A w : Contains(w)' <=> Contains(w) /\ w # v
<1>1. Universe' = Universe /\ epoch' = epoch /\ n' = n
  BY DEF Erase, Universe
<1>2. answer' \in BOOLEAN
  BY DEF Erase, Contains
<1>3. CASE ~ Contains(v)
  <2>1. sparse' = sparse /\ dense' = dense
    BY <1>3 DEF Erase
  <2>2. \A w : Contains(w)' <=> Contains(w)
    BY <1>1, <2>1 DEF Contains
  <2>3. TypeOK' /\ Mirrored' /\ Dated'
    BY <1>1, <1>2, <2>1, <2>2 DEF Inv, TypeOK, Mirrored, Dated
  <2>4. QED
    BY <1>3, <2>2, <2>3 DEF Inv
<1>4. CASE Contains(v)
  <2> DEFINE L    == Len(dense)
             last == dense[L]
             p    == sparse[v].idx
  <2>1. /\ v \in Universe /\ p \in Nat /\ p < L /\ dense[p + 1] = v /\ L \in Nat
        /\ p \in Word /\ p # Sentinel /\ epoch \in Word /\ epoch \in Nat /\ epoch # 0
    BY <1>4 DEF Inv, TypeOK, Mirrored, Contains, Word
  <2>2. last \in Universe /\ Contains(last) /\ sparse[last] = Entry(L - 1, epoch)
    BY <2>1, Room DEF Inv, TypeOK, Mirrored
  <2>3. /\ dense' = SubSeq([dense EXCEPT ![p + 1] = last], 1, L - 1)
        /\ sparse' = [sparse EXCEPT ![last].idx = p, ![v] = Entry(Sentinel, 0)]
    BY <1>4 DEF Erase, MovedInto
  <2>4. Sentinel \in Word /\ 0 \in Word
    BY WidthAssumption DEF Word, Sentinel
  <2>5. /\ sparse'[v] = Entry(Sentinel, 0)
        /\ last # v => sparse'[last] = Entry(p, epoch)
        /\ \A w \in Universe : w # v /\ w # last => sparse'[w] = sparse[w]
    BY <2>1, <2>2, <2>3 DEF Inv, TypeOK, Entry
  <2>6. /\ Len(dense') = L - 1
        /\ \A i \in 1 .. L - 1 : dense'[i] = IF i = p + 1 THEN last ELSE dense[i]
    <3> DEFINE D == [dense EXCEPT ![p + 1] = last]
    <3>1. dense \in Seq(Universe) /\ p + 1 \in 1 .. L
      BY <2>1 DEF Inv, TypeOK
    <3>2. /\ D \in Seq(Universe) /\ Len(D) = L
          /\ \A i \in 1 .. L : D[i] = IF i = p + 1 THEN last ELSE dense[i]
      BY <2>1, <2>2, <3>1
    <3>3. L - 1 \in Nat /\ dense' = SubSeq(D, 1, L - 1)
      BY <2>1, <2>3
    <3> HIDE DEF D, L, p, last
    <3>4. Len(SubSeq(D, 1, L - 1)) = L - 1
      BY <2>1, <3>2, <3>3
    <3>5. \A i \in 1 .. L - 1 : SubSeq(D, 1, L - 1)[i] = D[i]
      BY <2>1, <3>2, <3>3
    <3>6. \A i \in 1 .. L - 1 : i \in 1 .. L
      BY <2>1
    <3>7. QED
      BY <3>2, <3>3, <3>4, <3>5, <3>6
  <2>7. ASSUME NEW w PROVE Contains(w)' <=> Contains(w) /\ w # v
    <3>1. CASE w = v
      BY <1>1, <2>1, <2>5, <3>1 DEF Contains, Entry
    <3>2. CASE w # v /\ w = last
      BY <1>1, <2>1, <2>2, <2>5, <3>2 DEF Contains, Entry
    <3>3. CASE w # v /\ w # last
      BY <1>1, <2>5, <3>3 DEF Contains
    <3>4. QED
      BY <3>1, <3>2, <3>3
  <2>8. TypeOK'
    <3>1. sparse' \in [Universe' -> [idx : Word, epoch : Word]]
      BY <1>1, <2>1, <2>2, <2>3, <2>4 DEF Inv, TypeOK, Entry
    <3>2. dense' \in Seq(Universe')
      BY <1>1, <2>1, <2>2, <2>3 DEF Inv, TypeOK
    <3>3. QED
      BY <1>1, <1>2, <3>1, <3>2 DEF Inv, TypeOK
  <2>9. ASSUME NEW i \in 1 .. L - 1 PROVE sparse'[dense'[i]] = Entry(i - 1, epoch)
    <3>1. sparse[dense[i]] = Entry(i - 1, epoch) /\ dense[i] \in Universe /\ i \in 1 .. L
      BY <2>1 DEF Inv, TypeOK, Mirrored
    <3>2. CASE i = p + 1
      <4>1. dense'[i] = last /\ p = i - 1
        <5> HIDE DEF L, p, last
        <5>1. QED
          BY <2>1, <2>6, <3>2
      <4>2. last # v
        BY <2>1, <2>2, <3>2 DEF Entry
      <4>3. QED
        BY <2>5, <4>1, <4>2
    <3>3. CASE i # p + 1
      <4>1. dense'[i] = dense[i]
        BY <2>6, <3>3
      <4>2. dense[i] # v
        BY <2>1, <3>1, <3>3 DEF Entry
      <4>3. dense[i] # last
        BY <2>1, <2>2, <3>1 DEF Entry
      <4>4. QED
        BY <2>5, <3>1, <4>1, <4>2, <4>3
    <3>4. QED
      BY <3>2, <3>3
  <2>10. ASSUME NEW w \in Universe, Contains(w)'
         PROVE  sparse'[w].idx < L - 1 /\ dense'[sparse'[w].idx + 1] = w
    <3>1. Contains(w) /\ w # v
      BY <2>7, <2>10
    <3>2. CASE w = last
      <4>1. p # L - 1
        BY <2>1, <3>1, <3>2
      <4>2. sparse'[w].idx = p /\ p + 1 \in 1 .. L - 1
        BY <2>1, <2>5, <3>1, <3>2, <4>1 DEF Entry
      <4>3. QED
        BY <2>1, <2>6, <3>2, <4>2
    <3>3. CASE w # last
      <4> DEFINE q == sparse[w].idx
      <4>1. sparse'[w] = sparse[w] /\ q \in Nat /\ q < L /\ dense[q + 1] = w
        BY <2>5, <3>1, <3>3 DEF Inv, TypeOK, Mirrored, Word
      <4>2. q # L - 1 /\ q # p
        BY <2>1, <3>1, <3>3, <4>1
      <4>3. q + 1 \in 1 .. L - 1 /\ q + 1 # p + 1
        BY <2>1, <4>1, <4>2
      <4>4. dense'[q + 1] = dense[q + 1]
        <5> HIDE DEF L, p, q, last
        <5>1. QED
          BY <2>6, <4>3
      <4>5. q < L - 1
        BY <2>1, <4>1, <4>2
      <4>6. QED
        BY <4>1, <4>4, <4>5
    <3>4. QED
      BY <3>2, <3>3
  <2>11. Mirrored'
    BY <1>1, <2>6, <2>9, <2>10 DEF Mirrored
  <2>12. ASSUME NEW w \in Universe PROVE sparse'[w].epoch =< epoch
    <3>1. CASE w = v
      BY <2>1, <2>5, <3>1 DEF Entry
    <3>2. CASE w # v /\ w = last
      BY <2>1, <2>5, <3>2 DEF Entry
    <3>3. CASE w # v /\ w # last
      BY <2>5, <3>3 DEF Inv, Dated
    <3>4. QED
      BY <3>1, <3>2, <3>3
  <2>13. Dated'
    BY <1>1, <2>12 DEF Dated
  <2>14. QED
    BY <2>7, <2>8, <2>11, <2>13 DEF Inv
<1>5. QED
  BY <1>3, <1>4

LEMMA AskStep ==
  ASSUME Inv, NEW v \in 0 .. MaxUniverse, Ask(v)
  PROVE  Inv' /\ \A w : Contains(w)' <=> Contains(w)
<1>1. /\ Universe' = Universe /\ n' = n /\ sparse' = sparse /\ dense' = dense /\ epoch' = epoch
      /\ answer' \in BOOLEAN
  BY DEF Ask, Universe, Contains
<1>2. \A w : Contains(w)' <=> Contains(w)
  BY <1>1 DEF Contains
<1>3. QED
  BY <1>1, <1>2 DEF Inv, TypeOK, Mirrored, Dated

-----------------------------------------------------------------------------
LEMMA InitInv ==
  ASSUME Init
  PROVE  Inv /\ \A w : ~ Contains(w)
<1>1. Modulus \in Nat /\ Modulus > 1 /\ MaxUniverse \in Nat /\ Universe = {}
  BY WidthAssumption DEF Init, Universe
<1>2. sparse = [v \in Universe |-> Entry(Sentinel, 0)] /\ dense = << >>
  BY DEF Init, Untouched, Universe
<1>3. TypeOK
  <2>1. sparse \in [Universe -> [idx : Word, epoch : Word]]
    BY <1>1, <1>2
  <2>2. dense \in Seq(Universe)
    BY <1>1, <1>2
  <2>3. n \in 0 .. MaxUniverse /\ epoch \in Word \ {0} /\ answer \in BOOLEAN
    <3>1. n = 0 /\ epoch = 1 /\ answer = FALSE
      BY DEF Init
    <3>2. 1 \in Word /\ 0 \in 0 .. MaxUniverse
      BY <1>1 DEF Word
    <3>3. answer \in BOOLEAN
      BY <3>1, Zenon
    <3>4. n \in 0 .. MaxUniverse /\ epoch \in Word \ {0}
      BY <3>1, <3>2
    <3>5. QED
      BY <3>3, <3>4
  <2>4. QED
    BY <2>1, <2>2, <2>3 DEF TypeOK
<1>4. QED
  BY <1>1, <1>2, <1>3 DEF Init, Inv, Mirrored, Dated, Contains

LEMMA NextInv ==
  ASSUME Inv, [Next]_vars
  PROVE  Inv'
<1>1. CASE UNCHANGED vars
  <2>1. Universe' = Universe /\ \A w : Contains(w)' <=> Contains(w)
    BY <1>1 DEF vars, Universe, Contains
  <2>2. QED
    BY <1>1, <2>1 DEF Inv, TypeOK, Mirrored, Dated, vars
<1>2. CASE Next
  BY <1>2, ResizeStep, InsertStep, EraseStep, AskStep, ClearStep DEF Next
<1>3. QED
  BY <1>1, <1>2

LEMMA Invariance == Spec => []Inv
<1>1. Init => Inv
  BY InitInv
<1>2. Inv /\ [Next]_vars => Inv'
  BY NextInv
<1>3. QED
  BY <1>1, <1>2, PTL DEF Spec

\* The variables keep their types: in particular no index or epoch stored ever
\* leaves its width (SparseSet.hpp:36-77).
THEOREM TypeCorrect == Spec => []TypeOK
<1>1. Inv => TypeOK
  BY DEF Inv
<1>2. QED
  BY <1>1, Invariance, PTL

\* sparse_ and dense_ mirror each other after any calls of insert, erase, clear
\* and resize (SparseSet.hpp:28-77).
THEOREM MirroredHolds == Spec => []Mirrored
<1>1. Inv => Mirrored
  BY DEF Inv
<1>2. QED
  BY <1>1, Invariance, PTL

-----------------------------------------------------------------------------
Members == {v \in Universe : Contains(v)}

LEMMA RefineInit ==
  ASSUME Init
  PROVE  Abs!AbsInit
BY InitInv DEF Init, Abs!AbsInit

LEMMA RefineNext ==
  ASSUME Inv, [Next]_vars
  PROVE  [Abs!AbsNext]_<<n, Members, answer>>
<1>1. CASE UNCHANGED vars
  BY <1>1 DEF vars, Members, Universe, Contains
<1>2. ASSUME NEW size \in 0 .. MaxUniverse, Resize(size)
      PROVE  Abs!AbsNext
  <2>1. Members' = {} /\ n' = size /\ answer' = answer
    BY <1>2, ResizeStep DEF Resize, Members
  <2>2. Abs!AbsResize(size)
    BY <2>1 DEF Abs!AbsResize, Members
  <2>3. QED
    BY <2>2 DEF Abs!AbsNext
<1>3. ASSUME NEW v \in 0 .. MaxUniverse, Insert(v)
      PROVE  Abs!AbsNext
  <2>1. v \in Universe /\ Universe' = Universe /\ n' = n /\ answer' = ~ Contains(v)
    BY <1>3 DEF Insert, Universe
  <2>2. Members' = Members \cup {v}
    BY <1>3, <2>1, InsertStep DEF Members
  <2>3. v < n /\ Abs!AbsInsert(v)
    BY <2>1, <2>2 DEF Abs!AbsInsert, Members, Universe, Inv, TypeOK
  <2>4. QED
    BY <2>3 DEF Abs!AbsNext
<1>4. ASSUME NEW v \in 0 .. MaxUniverse, Erase(v)
      PROVE  Abs!AbsNext
  <2>1. Universe' = Universe /\ n' = n /\ answer' = Contains(v)
    BY <1>4 DEF Erase, Universe
  <2>2. Members' = Members \ {v}
    BY <1>4, <2>1, EraseStep DEF Members
  <2>3. Abs!AbsErase(v)
    BY <2>1, <2>2 DEF Abs!AbsErase, Members, Contains
  <2>4. QED
    BY <2>3 DEF Abs!AbsNext
<1>5. ASSUME NEW v \in 0 .. MaxUniverse, Ask(v)
      PROVE  Abs!AbsNext
  <2>1. Universe' = Universe /\ n' = n /\ answer' = Contains(v)
    BY <1>5 DEF Ask, Universe
  <2>2. Members' = Members
    BY <1>5, <2>1, AskStep DEF Members
  <2>3. Abs!AbsAsk(v)
    BY <2>1, <2>2 DEF Abs!AbsAsk, Members, Contains
  <2>4. QED
    BY <2>3 DEF Abs!AbsNext
<1>6. CASE Clear
  <2>1. Members' = {} /\ n' = n /\ answer' = answer
    BY <1>6, ClearStep DEF Clear, Members
  <2>2. Abs!AbsClear
    BY <2>1 DEF Abs!AbsClear, Members
  <2>3. QED
    BY <2>2 DEF Abs!AbsNext
<1>7. QED
  BY <1>1, <1>2, <1>3, <1>4, <1>5, <1>6 DEF Next

\* Every behaviour of the class is one of a set (SparseSet.hpp:28-77): nothing
\* erased, cleared or of an epoch gone by is ever found again, wrapping of the
\* epoch included, for every width of the counters and every universe.
THEOREM SetRefinement == Spec => ImplementsSet
<1>1. Init => Abs!AbsInit
  BY RefineInit
<1>2. Inv /\ [Next]_vars => [Abs!AbsNext]_<<n, {v \in Universe : Contains(v)}, answer>>
  BY RefineNext DEF Members
<1>3. QED
  BY <1>1, <1>2, Invariance, PTL DEF Spec, ImplementsSet, Abs!AbsSpec
=============================================================================
