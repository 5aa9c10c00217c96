-------------------------- MODULE ExecEncoderProofs --------------------------
(* For every function the selector gives and any register file, the emitted    *)
(* code stays in its registers and gives the callee-saved ones back.  For      *)
(* every conforming function it also means what the machine function means:    *)
(* parallel moves are simultaneous, every operand is read from where its value *)
(* is, and arguments arrive.                                                   *)
EXTENDS LinearScanProofs, SequenceTheorems, WellFoundedInduction

Regs == 0 .. NumGpr + 1
Move == [src : Regs, dst : Regs]
PlainMove == [src : Regs \ {Rax}, dst : Regs \ {Rax}]     \* no scratch register in it

-----------------------------------------------------------------------------
(* Induction and least elements, from the well-foundedness of < on Nat.        *)

(* A set of naturals that holds 0 and every successor holds them all.          *)
LEMMA NatSetInduction ==
  ASSUME NEW T, 0 \in T, \A n \in Nat : n \in T => n + 1 \in T
  PROVE  Nat \subseteq T
<1> DEFINE R == {ss \in Nat \X Nat : ss[1] < ss[2]}
<1>1. IsWellFoundedOn(R, Nat)
  BY NatLessThanWellFounded DEF OpToRel
<1> SUFFICES ASSUME Nat \ T # {} PROVE FALSE
  OBVIOUS
<1>2. PICK x \in Nat \ T : \A y \in Nat \ T : ~ (<<y, x>> \in R)
  <2> HIDE DEF R
  <2> QED BY <1>1, WFMin
<1>3. x # 0 /\ x - 1 \in Nat /\ <<x - 1, x>> \in R
  OBVIOUS
<1>4. x - 1 \in T
  BY <1>2, <1>3
<1>5. (x - 1) + 1 \in T
  BY <1>3, <1>4
<1> QED BY <1>5

(* A set of naturals has a least element.                                      *)
LEMMA LeastNat ==
  ASSUME NEW S, S \subseteq Nat, S # {}
  PROVE  \E x \in S : \A y \in S : x =< y
<1> DEFINE R == {ss \in Nat \X Nat : ss[1] < ss[2]}
<1>1. IsWellFoundedOn(R, Nat)
  BY NatLessThanWellFounded DEF OpToRel
<1>2. PICK x \in S : \A y \in S : ~ (<<y, x>> \in R)
  <2> HIDE DEF R
  <2> QED BY <1>1, WFMin
<1>3. ASSUME NEW y \in S PROVE x =< y
  <2>1. x \in Nat /\ y \in Nat /\ ~ (<<y, x>> \in R)
    BY <1>2
  <2> QED BY <2>1
<1> QED BY <1>3

-----------------------------------------------------------------------------
(* Parallel moves.                                                             *)

(* The moves are made one after the other.                                     *)
LEMMA MovesInTurn ==
  ASSUME NEW r, NEW moves, Len(moves) \in Nat
  PROVE  /\ AfterEach(r, moves)[0] = r
         /\ \A k \in 0 .. Len(moves) - 1 :
              AfterEach(r, moves)[k + 1] = MovRR(AfterEach(r, moves)[k], moves[k + 1])
<1> DEFINE n == Len(moves)
           Def(g, k) == IF k = 0 THEN r ELSE MovRR(g[k - 1], moves[k])
           Loop(g, m) == g = [k \in 0 .. m |-> Def(g, k)]
           T == {m \in Nat : \E g : Loop(g, m)}
<1>1. 0 \in T
  <2> DEFINE g == [k \in 0 .. 0 |-> r]
  <2>1. Loop(g, 0)
    OBVIOUS
  <2> QED BY <2>1
<1>2. ASSUME NEW m \in Nat, m \in T PROVE m + 1 \in T
  <2>1. PICK g : Loop(g, m)
    BY <1>2
  <2> DEFINE h == [k \in 0 .. m + 1 |-> IF k =< m THEN g[k] ELSE MovRR(g[m], moves[m + 1])]
  <2>2. ASSUME NEW k \in 0 .. m + 1 PROVE h[k] = Def(h, k)
    <3>1. CASE k = 0
      BY <2>1, <3>1
    <3>2. CASE k \in 1 .. m
      <4>1. h[k] = g[k] /\ h[k - 1] = g[k - 1] /\ g[k] = Def(g, k)
        BY <2>1, <3>2
      <4> QED BY <3>2, <4>1
    <3>3. CASE k = m + 1
      <4>1. h[k] = MovRR(g[m], moves[m + 1]) /\ h[m] = g[m] /\ k - 1 = m /\ k # 0
        BY <3>3
      <4> QED BY <3>3, <4>1
    <3> QED BY <3>1, <3>2, <3>3
  <2>3. Loop(h, m + 1)
    BY <2>2
  <2>4. \E w : Loop(w, m + 1)
    <3> HIDE DEF h, Loop
    <3> QED BY <2>3
  <2> QED BY <2>4
<1>3. \E g : Loop(g, n)
  <2>1. Nat \subseteq T
    <3> HIDE DEF T
    <3> QED BY <1>1, <1>2, NatSetInduction
  <2> QED BY <2>1
<1> DEFINE a == AfterEach(r, moves)
<1>4. Loop(a, n)
  <2>1. a = CHOOSE g : Loop(g, n)
    BY DEF AfterEach
  <2> HIDE DEF a, Loop
  <2> QED BY <1>3, <2>1
<1>5. \A k \in 0 .. n : a[k] = Def(a, k)
  <2> HIDE DEF a
  <2> QED BY <1>4
<1>6. a[0] = r
  <2> HIDE DEF a
  <2> QED BY <1>5
<1>7. ASSUME NEW k \in 0 .. n - 1 PROVE a[k + 1] = MovRR(a[k], moves[k + 1])
  <2>1. k + 1 \in 0 .. n /\ k + 1 # 0 /\ (k + 1) - 1 = k
    OBVIOUS
  <2> HIDE DEF a
  <2> QED BY <1>5, <2>1
<1> QED BY <1>6, <1>7

(* What moves made in turn achieve when none overwrites a later source.        *)
Assigns(a, r, moves) ==
  /\ DOMAIN a = Regs
  /\ \A i \in DOMAIN moves : a[moves[i].dst] = r[moves[i].src]
  /\ \A q \in Regs : (\A i \in DOMAIN moves : q # moves[i].dst) => a[q] = r[q]

Distinct(moves) == \A i, j \in DOMAIN moves : i # j => moves[i].dst # moves[j].dst

LEMMA SafeMovesAssign ==
  ASSUME NEW r, DOMAIN r = Regs, NEW moves \in Seq(Move), Distinct(moves),
         \A i \in DOMAIN moves : \A j \in 1 .. i - 1 : moves[j].dst # moves[i].src
  PROVE  Assigns(AfterMoves(r, moves), r, moves)
<1> DEFINE n == Len(moves)
           a == AfterEach(r, moves)
           Done(k) == /\ DOMAIN a[k] = Regs
                      /\ \A i \in 1 .. k : a[k][moves[i].dst] = r[moves[i].src]
                      /\ \A q \in Regs : (\A i \in 1 .. k : q # moves[i].dst) => a[k][q] = r[q]
           T == {k \in Nat : k =< n => Done(k)}
<1>0. n \in Nat /\ DOMAIN moves = 1 .. n
  OBVIOUS
<1>1. 0 \in T
  <2>1. a[0] = r
    BY <1>0, MovesInTurn
  <2> HIDE DEF a
  <2> QED BY <2>1
<1>2. ASSUME NEW k \in Nat, k \in T PROVE k + 1 \in T
  <2> SUFFICES ASSUME k + 1 =< n PROVE Done(k + 1)
    OBVIOUS
  <2> DEFINE m == moves[k + 1]
  <2>1. k \in 0 .. n - 1 /\ k + 1 \in 1 .. n /\ Done(k)
    BY <1>0, <1>2
  <2>2. a[k + 1] = MovRR(a[k], m)
    BY <1>0, <2>1, MovesInTurn
  <2>3. m \in Move
    BY <1>0, <2>1
  <2>4. \A i \in 1 .. k : moves[i].dst # m.src /\ moves[i].dst # m.dst /\ moves[i].dst \in Regs
    <3> SUFFICES ASSUME NEW i \in 1 .. k PROVE moves[i].dst # m.src /\ moves[i].dst # m.dst /\ moves[i].dst \in Regs
      OBVIOUS
    <3>1. i \in 1 .. n /\ i \in 1 .. (k + 1) - 1 /\ i # k + 1
      BY <2>1
    <3>2. moves[i] \in Move
      BY <1>0, <3>1
    <3> QED BY <1>0, <2>1, <3>1, <3>2 DEF Distinct, Move
  <2>5. a[k][m.src] = r[m.src]
    <3> HIDE DEF a, m
    <3> QED BY <2>1, <2>3, <2>4 DEF Move
  <2>6. DOMAIN a[k + 1] = Regs /\ a[k + 1][m.dst] = r[m.src]
        /\ \A q \in Regs : q # m.dst => a[k + 1][q] = a[k][q]
    <3> HIDE DEF a, m
    <3> QED BY <2>1, <2>2, <2>3, <2>5 DEF MovRR, Move
  <2>7. ASSUME NEW i \in 1 .. k + 1 PROVE a[k + 1][moves[i].dst] = r[moves[i].src]
    <3>1. CASE i = k + 1
      BY <2>6, <3>1
    <3>2. CASE i \in 1 .. k
      <4> HIDE DEF a, m
      <4> QED BY <2>1, <2>4, <2>6, <3>2
    <3> QED BY <3>1, <3>2
  <2>8. ASSUME NEW q \in Regs, \A i \in 1 .. k + 1 : q # moves[i].dst PROVE a[k + 1][q] = r[q]
    <3>1. q # m.dst /\ \A i \in 1 .. k : q # moves[i].dst
      BY <2>1, <2>8
    <3> HIDE DEF a, m
    <3> QED BY <2>1, <2>6, <3>1
  <2> QED BY <2>6, <2>7, <2>8
<1>3. n \in T
  <2> HIDE DEF T
  <2> QED BY <1>0, <1>1, <1>2, NatSetInduction
<1>4. Done(n) /\ AfterMoves(r, moves) = a[n]
  BY <1>0, <1>3 DEF AfterMoves
<1> QED
  <2> HIDE DEF a
  <2> QED BY <1>0, <1>4 DEF Assigns

(* One more move in front.                                                     *)
LEMMA FirstMoveThenRest ==
  ASSUME NEW r, NEW m \in Move, NEW moves \in Seq(Move)
  PROVE  AfterMoves(r, <<m>> \o moves) = AfterMoves(MovRR(r, m), moves)
<1> DEFINE n == Len(moves)
           s == <<m>> \o moves
           a == AfterEach(r, s)
           b == AfterEach(MovRR(r, m), moves)
           T == {k \in Nat : k =< n => a[k + 1] = b[k]}
<1>1. n \in Nat /\ Len(s) = n + 1 /\ s[1] = m /\ \A k \in 1 .. n : s[k + 1] = moves[k]
  OBVIOUS
<1>2. a[0] = r /\ \A k \in 0 .. n : a[k + 1] = MovRR(a[k], s[k + 1])
  <2> HIDE DEF s, n
  <2>1. Len(s) \in Nat /\ Len(s) - 1 = n
    BY <1>1
  <2>2. a[0] = r /\ \A k \in 0 .. Len(s) - 1 : a[k + 1] = MovRR(a[k], s[k + 1])
    BY <2>1, MovesInTurn
  <2> QED BY <2>1, <2>2
<1>3. b[0] = MovRR(r, m) /\ \A k \in 0 .. n - 1 : b[k + 1] = MovRR(b[k], moves[k + 1])
  BY <1>1, MovesInTurn
<1> HIDE DEF a, b, s, n
<1>4. 0 \in T
  <2>1. a[0 + 1] = MovRR(a[0], s[0 + 1])
    BY <1>1, <1>2
  <2> QED BY <1>1, <1>2, <1>3, <2>1
<1>5. ASSUME NEW k \in Nat, k \in T PROVE k + 1 \in T
  <2> SUFFICES ASSUME k + 1 =< n PROVE a[(k + 1) + 1] = b[k + 1]
    OBVIOUS
  <2>1. k \in 0 .. n - 1 /\ k + 1 \in 0 .. n /\ k + 1 \in 1 .. n /\ a[k + 1] = b[k]
    BY <1>1, <1>5
  <2>2. a[(k + 1) + 1] = MovRR(a[k + 1], s[(k + 1) + 1])
    BY <1>2, <2>1
  <2>3. s[(k + 1) + 1] = moves[k + 1] /\ b[k + 1] = MovRR(b[k], moves[k + 1])
    BY <1>1, <1>3, <2>1
  <2> QED BY <2>1, <2>2, <2>3
<1>6. n \in T
  <2> HIDE DEF T
  <2> QED BY <1>1, <1>4, <1>5, NatSetInduction
<1> QED BY <1>1, <1>6 DEF AfterMoves, a, b, s, n

(* A set of sequences of naturals of one length has a lexicographically least  *)
(* member: std::next_permutation meets the first safe order.                   *)
LEMMA LexLeast ==
  ASSUME NEW n \in Nat, NEW Q, Q \subseteq [1 .. n -> Nat], Q # {}
  PROVE  \E o \in Q : \A q \in Q : q = o \/ LexBefore(o, q)
<1> DEFINE Same(o, q, m) == \A j \in 1 .. m : o[j] = q[j]
           T == {m \in Nat : m =< n => \E o \in Q : \A q \in Q : Same(o, q, m) \/ LexBefore(o, q)}
<1>1. 0 \in T
  OBVIOUS
<1>2. ASSUME NEW m \in Nat, m \in T PROVE m + 1 \in T
  <2> SUFFICES ASSUME m + 1 =< n
               PROVE  \E o \in Q : \A q \in Q : Same(o, q, m + 1) \/ LexBefore(o, q)
    OBVIOUS
  <2>1. PICK o \in Q : \A q \in Q : Same(o, q, m) \/ LexBefore(o, q)
    BY <1>2
  <2> DEFINE C == {q \in Q : Same(o, q, m)}
             V == {q[m + 1] : q \in C}
  <2>2. V \subseteq Nat /\ V # {}
    BY <2>1
  <2>3. PICK x \in V : \A y \in V : x =< y
    <3> HIDE DEF V
    <3> QED BY <2>2, LeastNat
  <2>4. PICK p \in C : p[m + 1] = x
    BY <2>3
  <2>5. ASSUME NEW q \in Q PROVE Same(p, q, m + 1) \/ LexBefore(p, q)
    <3>1. DOMAIN p = 1 .. n /\ DOMAIN o = 1 .. n /\ p \in Q /\ Same(o, p, m)
      BY <2>4
    <3>2. CASE Same(o, q, m)
      <4>1. q[m + 1] \in V /\ q[m + 1] \in Nat /\ p[m + 1] \in Nat
        BY <3>2, <2>2, <2>4
      <4>2. p[m + 1] =< q[m + 1]
        BY <2>3, <2>4, <4>1
      <4>0. \A j \in 1 .. m : p[j] = q[j]
        BY <3>1, <3>2
      <4>3. CASE p[m + 1] = q[m + 1]
        <5>1. \A j \in 1 .. m + 1 : j \in 1 .. m \/ j = m + 1
          OBVIOUS
        <5>2. \A j \in 1 .. m + 1 : p[j] = q[j]
          <6> HIDE DEF C, V
          <6> QED BY <4>0, <4>3, <5>1
        <5> QED BY <5>2
      <4>4. CASE p[m + 1] < q[m + 1]
        <5>1. \A j \in 1 .. (m + 1) - 1 : p[j] = q[j]
          BY <4>0
        <5>2. m + 1 \in DOMAIN p
          BY <3>1
        <5>3. LexBefore(p, q)
          BY <4>4, <5>1, <5>2 DEF LexBefore
        <5> QED BY <5>3
      <4> HIDE DEF Same, C, V, T
      <4>5. p[m + 1] = q[m + 1] \/ p[m + 1] < q[m + 1]
        <5>1. \A x1, y1 \in Nat : x1 =< y1 => x1 = y1 \/ x1 < y1
          OBVIOUS
        <5> QED BY ONLY <4>1, <4>2, <5>1
      <4> QED BY <4>3, <4>4, <4>5
    <3>3. CASE ~ Same(o, q, m)
      <4>1. PICK i \in 1 .. n : o[i] < q[i] /\ \A j \in 1 .. i - 1 : o[j] = q[j]
        BY <2>1, <3>1, <3>3 DEF LexBefore
      <4>2. i =< m
        BY <3>3, <4>1
      <4>3. \A j \in 1 .. m : p[j] = o[j]
        BY <3>1
      <4>4. i \in 1 .. m /\ \A j \in 1 .. i - 1 : j \in 1 .. m
        BY <4>2
      <4>5. p[i] < q[i] /\ \A j \in 1 .. i - 1 : p[j] = q[j]
        BY ONLY <4>1, <4>3, <4>4
      <4> QED BY <3>1, <4>5 DEF LexBefore
    <3> QED BY <3>2, <3>3
  <2> QED BY <2>4, <2>5
<1>3. n \in T
  <2> HIDE DEF T
  <2> QED BY <1>1, <1>2, NatSetInduction
<1>4. PICK o \in Q : \A q \in Q : Same(o, q, n) \/ LexBefore(o, q)
  BY <1>3
<1>5. \A q \in Q : Same(o, q, n) => q = o
  OBVIOUS
<1> QED BY <1>4, <1>5

(* The chosen order of the moves is a safe one.                                *)
LEMMA OrderIsSafe ==
  ASSUME NEW moves \in Seq(Move), Orders(moves) # {}
  PROVE  \E o \in Orders(moves) : Ordered(moves) = [k \in DOMAIN moves |-> moves[o[k]]]
<1> DEFINE n == Len(moves)
           o == CHOOSE o \in Orders(moves) : \A q \in Orders(moves) : q = o \/ LexBefore(o, q)
<1>1. n \in Nat /\ DOMAIN moves = 1 .. n
  OBVIOUS
<1>2. Orders(moves) \subseteq [1 .. n -> Nat]
  BY <1>1 DEF Orders
<1>3. \E p \in Orders(moves) : \A q \in Orders(moves) : q = p \/ LexBefore(p, q)
  <2> HIDE DEF n
  <2> QED BY <1>1, <1>2, LexLeast
<1>4. o \in Orders(moves)
  BY <1>3
<1>5. Ordered(moves) = [k \in DOMAIN moves |-> moves[o[k]]]
  BY DEF Ordered
<1> HIDE DEF o
<1> QED BY <1>4, <1>5

(* Moves put into a safe order are simultaneous.                               *)
LEMMA OrderedAssigns ==
  ASSUME NEW r, DOMAIN r = Regs, NEW moves \in Seq(Move), Distinct(moves), Orders(moves) # {}
  PROVE  Ordered(moves) \in Seq(Move) /\ Assigns(AfterMoves(r, Ordered(moves)), r, moves)
<1> DEFINE n == Len(moves)
           D == 1 .. n
           s == Ordered(moves)
<1>1. n \in Nat /\ DOMAIN moves = D /\ \A i \in D : moves[i] \in Move
  OBVIOUS
<1>2. PICK o \in Orders(moves) : s = [k \in D |-> moves[o[k]]]
  BY <1>1, OrderIsSafe
<1>3. o \in [D -> D] /\ (\A i, j \in D : i # j => o[i] # o[j]) /\ Safe(moves, o)
  BY <1>1 DEF Orders
<1>4. \A i \in D : \E k \in D : o[k] = i
  <2> HIDE DEF D
  <2>1. IsFiniteSet(D)
    BY <1>1, FS_Interval DEF D
  <2>2. o \in Injection(D, D)
    BY <1>3 DEF Injection, IsInjective
  <2>3. o \in Surjection(D, D)
    BY <2>1, <2>2, FS_Injection
  <2> QED BY <2>3 DEF Surjection
<1>5. s \in Seq(Move) /\ Len(s) = n /\ DOMAIN s = D
  <2> HIDE DEF s
  <2>1. s \in [D -> Move]
    BY <1>1, <1>2, <1>3
  <2> QED BY <1>1, <2>1
<1>6. Distinct(s)
  <2> HIDE DEF s, n
  <2> QED BY <1>1, <1>2, <1>3 DEF Distinct
<1>7. ASSUME NEW i \in D, NEW j \in 1 .. i - 1 PROVE s[j].dst # s[i].src
  <2>1. j \in D /\ j # i
    BY <1>1
  <2>2. o[i] \in D /\ o[j] \in D /\ o[i] # o[j]
    BY <1>3, <2>1
  <2>3. moves[o[j]].dst # moves[o[i]].dst
    BY <1>1, <2>2 DEF Distinct
  <2>4. moves[o[j]].dst = moves[o[i]].src => moves[o[i]].src = moves[o[i]].dst
    BY <1>1, <1>3 DEF Safe
  <2> HIDE DEF s
  <2> QED BY <1>2, <2>1, <2>3, <2>4
<1>8. Assigns(AfterMoves(r, s), r, s)
  <2> HIDE DEF s
  <2> QED BY <1>5, <1>6, <1>7, SafeMovesAssign
<1>9. \A i \in D : \E k \in D : s[k] = moves[i]
  <2> HIDE DEF s
  <2> QED BY <1>2, <1>4
<1>10. \A k \in D : \E i \in D : s[k] = moves[i]
  <2> HIDE DEF s
  <2> QED BY <1>2, <1>3
<1>11. ASSUME NEW i \in D PROVE AfterMoves(r, s)[moves[i].dst] = r[moves[i].src]
  <2>1. PICK k \in D : s[k] = moves[i]
    BY <1>9
  <2> HIDE DEF s, D
  <2> QED BY <1>5, <1>8, <2>1 DEF Assigns
<1>12. ASSUME NEW q \in Regs, \A i \in D : q # moves[i].dst PROVE AfterMoves(r, s)[q] = r[q]
  <2> HIDE DEF s, D
  <2>1. \A k \in D : q # s[k].dst
    BY <1>10, <1>12
  <2> QED BY <1>5, <1>8, <2>1 DEF Assigns
<1> QED
  <2> HIDE DEF s, D
  <2>1. DOMAIN AfterMoves(r, s) = Regs
    BY <1>8 DEF Assigns
  <2>2. Assigns(AfterMoves(r, s), r, moves)
    BY <1>1, <1>11, <1>12, <2>1 DEF Assigns
  <2> QED BY <1>5, <2>2 DEF s

(* No moves are in order already: a cycle has a first move to stage.           *)
LEMMA NoMovesAreSafe ==
  ASSUME NEW moves \in Seq(Move), Orders(moves) = {}
  PROVE  Len(moves) >= 1
<1> SUFFICES ASSUME Len(moves) = 0 PROVE FALSE
  OBVIOUS
<1>1. DOMAIN moves = {}
  OBVIOUS
<1>2. [k \in {} |-> k] \in Orders(moves)
  BY <1>1 DEF Orders, Safe
<1> QED BY <1>2

(* The moves the encoder emits are simultaneous, cycles included: but for RAX, *)
(* each destination gets what its source held before all of them, and nothing  *)
(* else changes (ExecEncoder.cpp:331-370, 522-555).                            *)
LEMMA EmittedAssigns ==
  ASSUME NEW r, DOMAIN r = Regs, NEW moves \in Seq(PlainMove),
         Distinct(moves), Resolvable(moves), NEW a, a = AfterMoves(r, Emitted(moves))
  PROVE  /\ DOMAIN a = Regs
         /\ \A i \in DOMAIN moves : a[moves[i].dst] = r[moves[i].src]
         /\ \A q \in Regs \ {Rax} : (\A i \in DOMAIN moves : q # moves[i].dst) => a[q] = r[q]
<1>1. Rax \in Regs /\ NumGpr \in Nat
  BY LinearScanAssumption DEF Rax, Regs
<1>2. moves \in Seq(Move) /\ \A i \in DOMAIN moves : moves[i] \in [src : Regs \ {Rax}, dst : Regs \ {Rax}]
  <2>1. PlainMove \subseteq Move
    BY DEF Move, PlainMove
  <2>2. moves \in [1 .. Len(moves) -> PlainMove] /\ Len(moves) \in Nat
    OBVIOUS
  <2>3. moves \in [1 .. Len(moves) -> Move]
    BY <2>1, <2>2
  <2> QED BY <2>2, <2>3 DEF PlainMove
<1>3. CASE Orders(moves) # {}
  <2>1. Emitted(moves) = Ordered(moves)
    BY <1>3 DEF Emitted
  <2>2. Assigns(a, r, moves)
    BY <1>2, <1>3, <2>1, OrderedAssigns
  <2> QED BY <2>2 DEF Assigns
<1>4. CASE Orders(moves) = {}
  <2> DEFINE m == [src |-> moves[1].src, dst |-> Rax]
             st == Staged(moves)
             r1 == MovRR(r, m)
  <2>1. 1 \in DOMAIN moves
    BY <1>2, <1>4, NoMovesAreSafe
  <2>2. m \in Move
    BY <1>1, <1>2, <2>1 DEF Move
  <2>3. /\ DOMAIN st = DOMAIN moves
        /\ \A i \in DOMAIN moves : st[i].dst = moves[i].dst /\ st[i] \in Move
        /\ st[1].src = Rax
        /\ \A i \in DOMAIN moves : i # 1 => st[i].src = moves[i].src
    BY <1>1, <1>2, <2>1 DEF Staged, Move
  <2>4. st \in Seq(Move)
    <3>1. DOMAIN moves = 1 .. Len(moves) /\ Len(moves) \in Nat
      BY <1>2
    <3>2. st = [i \in DOMAIN moves |-> st[i]]
      BY DEF Staged
    <3> HIDE DEF st
    <3>3. st \in [1 .. Len(moves) -> Move]
      BY <2>3, <3>1, <3>2
    <3> QED BY <3>1, <3>3
  <2>5. Distinct(st)
    <3> HIDE DEF st
    <3> QED BY <2>3 DEF Distinct
  <2>6. Orders(st) # {}
    BY <1>4 DEF Resolvable
  <2>7. DOMAIN r1 = Regs /\ r1[Rax] = r[moves[1].src] /\ \A q \in Regs \ {Rax} : r1[q] = r[q]
    BY <1>1 DEF MovRR
  <2>8. Emitted(moves) = <<m>> \o Ordered(st)
    BY <1>4 DEF Emitted
  <2>9. a = AfterMoves(r1, Ordered(st)) /\ Assigns(a, r1, st)
    <3> HIDE DEF m, st
    <3>1. DOMAIN MovRR(r, m) = Regs
      BY <2>7
    <3>2. Ordered(st) \in Seq(Move) /\ Assigns(AfterMoves(MovRR(r, m), Ordered(st)), MovRR(r, m), st)
      BY <2>4, <2>5, <2>6, <3>1, OrderedAssigns
    <3>3. AfterMoves(r, <<m>> \o Ordered(st)) = AfterMoves(MovRR(r, m), Ordered(st))
      BY <2>2, <3>2, FirstMoveThenRest
    <3> QED BY <2>8, <3>2, <3>3
  <2>10. ASSUME NEW i \in DOMAIN moves PROVE a[moves[i].dst] = r[moves[i].src]
    <3>1. a[moves[i].dst] = r1[st[i].src]
      <4> HIDE DEF st, r1
      <4> QED BY <2>3, <2>9 DEF Assigns
    <3>2. r1[st[i].src] = r[moves[i].src]
      <4> HIDE DEF st, r1
      <4> QED BY <1>2, <2>3, <2>7
    <3> QED BY <3>1, <3>2
  <2>11. ASSUME NEW q \in Regs \ {Rax}, \A i \in DOMAIN moves : q # moves[i].dst PROVE a[q] = r[q]
    <3> HIDE DEF st, r1
    <3> QED BY <2>3, <2>7, <2>9, <2>11 DEF Assigns
  <2> QED
    <3> HIDE DEF r1, st
    <3> QED BY <2>9, <2>10, <2>11 DEF Assigns
<1> QED BY <1>3, <1>4

-----------------------------------------------------------------------------
(* Intervals.                                                                  *)

(* Loop heads widen an interval one after the other, in code order             *)
(* (LinearScan.cpp:62-103).                                                    *)
LEMMA WidenedInTurn ==
  ASSUME NEW f \in Functions, NEW first, NEW last
  PROVE  /\ WidenedBy(f, first, last)[0] = last
         /\ \A k \in 0 .. Len(f) - 1 :
              WidenedBy(f, first, last)[k + 1] = WidenAt(f, k + 1, first, WidenedBy(f, first, last)[k])
<1> DEFINE n == Len(f)
           Def(g, k) == IF k = 0 THEN last ELSE WidenAt(f, k, first, g[k - 1])
           Loop(g, m) == g = [k \in 0 .. m |-> Def(g, k)]
           T == {m \in Nat : \E g : Loop(g, m)}
<1>1. 0 \in T
  <2> DEFINE g == [k \in 0 .. 0 |-> last]
  <2>1. Loop(g, 0)
    OBVIOUS
  <2> QED BY <2>1
<1>2. ASSUME NEW m \in Nat, m \in T PROVE m + 1 \in T
  <2>1. PICK g : Loop(g, m)
    BY <1>2
  <2> DEFINE h == [k \in 0 .. m + 1 |-> IF k =< m THEN g[k] ELSE WidenAt(f, m + 1, first, g[m])]
  <2>2. ASSUME NEW k \in 0 .. m + 1 PROVE h[k] = Def(h, k)
    <3>1. CASE k = 0
      BY <2>1, <3>1
    <3>2. CASE k \in 1 .. m
      <4>1. h[k] = g[k] /\ h[k - 1] = g[k - 1] /\ g[k] = Def(g, k)
        BY <2>1, <3>2
      <4> QED BY <3>2, <4>1
    <3>3. CASE k = m + 1
      <4>1. h[k] = WidenAt(f, m + 1, first, g[m]) /\ h[m] = g[m] /\ k - 1 = m /\ k # 0
        BY <3>3
      <4> QED BY <3>3, <4>1
    <3> QED BY <3>1, <3>2, <3>3
  <2>3. Loop(h, m + 1)
    BY <2>2
  <2>4. \E w : Loop(w, m + 1)
    <3> HIDE DEF h, Loop
    <3> QED BY <2>3
  <2> QED BY <2>4
<1>3. \E g : Loop(g, n)
  <2>0. n \in Nat
    BY LinearScanAssumption
  <2>1. Nat \subseteq T
    <3> HIDE DEF T
    <3> QED BY <1>1, <1>2, NatSetInduction
  <2> QED BY <2>0, <2>1
<1> DEFINE a == WidenedBy(f, first, last)
<1>4. Loop(a, n)
  <2>1. a = CHOOSE g : Loop(g, n)
    BY DEF WidenedBy
  <2> HIDE DEF a, Loop
  <2> QED BY <1>3, <2>1
<1>5. \A k \in 0 .. n : a[k] = Def(a, k)
  <2> HIDE DEF a
  <2> QED BY <1>4
<1>6. a[0] = last
  <2> HIDE DEF a
  <2> QED BY <1>5
<1>7. ASSUME NEW k \in 0 .. n - 1 PROVE a[k + 1] = WidenAt(f, k + 1, first, a[k])
  <2>1. k + 1 \in 0 .. n /\ k + 1 # 0 /\ (k + 1) - 1 = k
    OBVIOUS
  <2> HIDE DEF a
  <2> QED BY <1>5, <2>1
<1> QED BY <1>6, <1>7


(* A loop has one back edge, so widening at its head goes just there.          *)
LEMMA WidenedOnce ==
  ASSUME NEW f \in Functions, NEW h \in Nat, NEW first \in Nat, NEW l \in DOMAIN f
  PROVE  LET w == WidenAt(f, h, first, l)
         IN  /\ w \in DOMAIN f /\ l =< w
             /\ w # l => h =< l
             /\ \A t \in DOMAIN f : BackEdge(f, h, t) /\ first < h /\ h =< l => t =< w
<1> DEFINE w == WidenAt(f, h, first, l)
<1>1. DOMAIN f = 1 .. Len(f) /\ Len(f) \in Nat
  BY LinearScanAssumption
<1>2. ASSUME NEW t \in DOMAIN f, NEW u \in DOMAIN f, BackEdge(f, h, t), BackEdge(f, h, u) PROVE t = u
  <2>1. ~ (t < u) /\ ~ (u < t)
    BY <1>1, <1>2 DEF BackEdge
  <2> QED BY <1>1, <2>1
<1>3. CASE \E t \in DOMAIN f : BackEdge(f, h, t) /\ first < h /\ h =< l /\ l < t
  <2>1. PICK t \in DOMAIN f : BackEdge(f, h, t) /\ first < h /\ h =< l /\ l < t
    BY <1>3
  <2>2. w = CHOOSE u \in DOMAIN f : BackEdge(f, h, u)
    BY <1>3 DEF WidenAt
  <2>3. w \in DOMAIN f /\ BackEdge(f, h, w)
    BY <2>1, <2>2
  <2>4. w = t
    BY <1>2, <2>1, <2>3
  <2>5. \A u \in DOMAIN f : BackEdge(f, h, u) => u = t
    BY <1>2, <2>1
  <2>6. w \in DOMAIN f /\ l =< w /\ (w # l => h =< l) /\ \A u \in DOMAIN f : BackEdge(f, h, u) => u =< w
    <3> HIDE DEF w
    <3> QED BY <1>1, <2>1, <2>4, <2>5
  <2> QED BY <2>6
<1>4. CASE ~ \E t \in DOMAIN f : BackEdge(f, h, t) /\ first < h /\ h =< l /\ l < t
  <2>1. w = l
    BY <1>4 DEF WidenAt
  <2>2. \A t \in DOMAIN f : BackEdge(f, h, t) /\ first < h /\ h =< l => t =< w
    <3> HIDE DEF w
    <3> QED BY <1>1, <1>4, <2>1
  <2>3. l =< w
    BY <1>1, <2>1
  <2> QED BY <2>1, <2>2, <2>3
<1> QED BY <1>3, <1>4

(* Once all heads have been looked at, a value that is in a loop from before   *)
(* it is there to its end: no later head undoes or misses a widening.          *)
LEMMA WidenedOverLoops ==
  ASSUME NEW f \in Functions, NEW first \in DOMAIN f, NEW last \in DOMAIN f
  PROVE  LET w == Widened(f, first, last)
         IN  /\ w \in DOMAIN f /\ last =< w
             /\ \A h, t \in DOMAIN f : BackEdge(f, h, t) /\ first < h /\ h =< w => t =< w
<1> DEFINE n == Len(f)
           a == WidenedBy(f, first, last)
<1>1. n \in Nat /\ DOMAIN f = 1 .. n
  BY LinearScanAssumption
<1>2. a[0] = last /\ \A k \in 0 .. n - 1 : a[k + 1] = WidenAt(f, k + 1, first, a[k])
  BY WidenedInTurn
<1>3. Widened(f, first, last) = a[n]
  BY DEF Widened
<1> HIDE DEF a, n
<1>4. \A k \in 0 .. n : a[k] \in DOMAIN f /\ last =< a[k]
  <2> DEFINE T == {k \in Nat : k =< n => a[k] \in DOMAIN f /\ last =< a[k]}
  <2>1. 0 \in T
    BY <1>1, <1>2
  <2>2. ASSUME NEW k \in Nat, k \in T PROVE k + 1 \in T
    <3> SUFFICES ASSUME k + 1 =< n PROVE a[k + 1] \in DOMAIN f /\ last =< a[k + 1]
      OBVIOUS
    <3>1. k \in 0 .. n - 1 /\ a[k] \in DOMAIN f /\ last =< a[k] /\ first \in Nat
      BY <1>1, <2>2
    <3>2. a[k + 1] \in DOMAIN f /\ a[k] =< a[k + 1]
      BY <1>2, <3>1, WidenedOnce
    <3> QED BY <1>1, <3>1, <3>2
  <2>3. Nat \subseteq T
    <3> HIDE DEF T
    <3> QED BY <2>1, <2>2, NatSetInduction
  <2> QED BY <1>1, <2>3
<1>5. \A k \in 0 .. n - 1 : /\ a[k] =< a[k + 1]
                            /\ a[k + 1] # a[k] => k + 1 =< a[k]
                            /\ \A t \in DOMAIN f : BackEdge(f, k + 1, t) /\ first < k + 1 /\ k + 1 =< a[k] => t =< a[k + 1]
  <2> SUFFICES ASSUME NEW k \in 0 .. n - 1
               PROVE  /\ a[k] =< a[k + 1]
                      /\ a[k + 1] # a[k] => k + 1 =< a[k]
                      /\ \A t \in DOMAIN f : BackEdge(f, k + 1, t) /\ first < k + 1 /\ k + 1 =< a[k] => t =< a[k + 1]
    OBVIOUS
  <2>1. a[k] \in DOMAIN f /\ k + 1 \in Nat /\ first \in Nat
    BY <1>1, <1>4
  <2>2. a[k + 1] = WidenAt(f, k + 1, first, a[k])
    BY <1>2
  <2> QED BY <2>1, <2>2, WidenedOnce
<1>6. ASSUME NEW h \in DOMAIN f, NEW t \in DOMAIN f, BackEdge(f, h, t), first < h, h =< a[n]
      PROVE  t =< a[n]
  <2>0. h \in 1 .. n /\ h - 1 \in 0 .. n - 1 /\ (h - 1) + 1 = h
    BY <1>1
  <2>1. h =< a[h - 1]
    <3> SUFFICES ASSUME a[h - 1] < h PROVE FALSE
      BY <1>1, <1>4, <2>0
    <3> DEFINE T == {k \in Nat : (h - 1) + k =< n => a[(h - 1) + k] = a[h - 1]}
    <3>1. 0 \in T
      BY <2>0
    <3>2. ASSUME NEW k \in Nat, k \in T PROVE k + 1 \in T
      <4> SUFFICES ASSUME (h - 1) + (k + 1) =< n PROVE a[(h - 1) + (k + 1)] = a[h - 1]
        OBVIOUS
      <4> DEFINE j == (h - 1) + k
      <4>1. j \in 0 .. n - 1 /\ j + 1 = (h - 1) + (k + 1) /\ h =< j + 1
        BY <1>1, <2>0
      <4>2. a[j] = a[h - 1]
        <5>1. (h - 1) + k =< n
          BY <1>1, <2>0
        <5> QED BY <3>2, <5>1
      <4>3. ~ (j + 1 =< a[j])
        <5>0. h - 1 \in 0 .. n /\ h \in Nat /\ j \in Nat
          BY <1>1, <2>0, <4>1
        <5>1. a[h - 1] \in Nat /\ h \in Nat /\ j \in Nat
          BY <1>1, <1>4, <5>0
        <5> HIDE DEF j
        <5> QED BY <4>1, <4>2, <5>1
      <4> HIDE DEF j
      <4>4. a[j + 1] = a[j]
        BY <1>5, <4>1, <4>3
      <4> QED BY <4>1, <4>2, <4>4
    <3>3. n - (h - 1) \in T
      <4> HIDE DEF T
      <4>1. n - (h - 1) \in Nat
        BY <1>1, <2>0
      <4> QED BY <3>1, <3>2, <4>1, NatSetInduction
    <3>4. a[n] = a[h - 1]
      <4>1. (h - 1) + (n - (h - 1)) = n
        BY <1>1, <2>0
      <4> QED BY <1>1, <3>3, <4>1
    <3> QED BY <1>1, <1>4, <1>6, <2>0, <3>4
  <2>2. t =< a[h]
    BY <1>5, <1>6, <2>0, <2>1
  <2> DEFINE T == {k \in Nat : h + k =< n => t =< a[h + k]}
  <2>3. 0 \in T
    BY <2>0, <2>2
  <2>4. ASSUME NEW k \in Nat, k \in T PROVE k + 1 \in T
    <3> SUFFICES ASSUME h + (k + 1) =< n PROVE t =< a[h + (k + 1)]
      OBVIOUS
    <3>1. h + k \in 0 .. n - 1 /\ (h + k) + 1 = h + (k + 1) /\ h + k \in 0 .. n /\ h + (k + 1) \in 0 .. n
      BY <1>1, <2>0
    <3>2. t =< a[h + k]
      BY <1>1, <2>0, <2>4
    <3>3. a[h + k] =< a[h + (k + 1)]
      BY <1>5, <3>1
    <3> QED BY <1>1, <1>4, <3>1, <3>2, <3>3
  <2>5. n - h \in T
    <3> HIDE DEF T
    <3>1. n - h \in Nat
      BY <1>1, <2>0
    <3> QED BY <2>3, <2>4, <3>1, NatSetInduction
  <2>6. h + (n - h) = n
    BY <1>1, <2>0
  <2> QED BY <1>1, <2>5, <2>6
<1>7. n \in 0 .. n
  BY <1>1
<1> QED BY <1>3, <1>4, <1>6, <1>7

(* Each vreg has an interval: from its first mention to its last, and on to    *)
(* the end of every loop it is alive in from before.                           *)
Spans(f, iv, v) ==
  /\ iv.vreg = v /\ iv.start \in DOMAIN f /\ iv.end - 1 \in DOMAIN f
  /\ \A i \in Mentions(f, v) : iv.start =< i /\ i < iv.end
  /\ \A h, t \in DOMAIN f : BackEdge(f, h, t) /\ iv.start < h /\ h < iv.end => t < iv.end

LEMMA EachHasAnInterval ==
  ASSUME NEW f \in Functions, NEW v \in VRegsOf(f)
  PROVE  \E iv \in Intervals(f) : Spans(f, iv, v)
<1> DEFINE n == Len(f)
           M == Mentions(f, v)
<1>1. n \in Nat /\ DOMAIN f = 1 .. n
  BY LinearScanAssumption
<1>2. M \subseteq DOMAIN f /\ M # {}
  BY DEF VRegsOf, Mentions
<1> HIDE DEF n, M
<1>3. PICK i \in M : \A j \in M : i =< j
  <2>1. M \subseteq Nat
    BY <1>1, <1>2
  <2> QED BY <1>2, <2>1, LeastNat
<1>4. PICK l \in M : \A j \in M : j =< l
  <2> DEFINE S == {n - j : j \in M}
  <2>1. S \subseteq Nat /\ S # {}
    BY <1>1, <1>2
  <2>2. PICK x \in S : \A y \in S : x =< y
    <3> HIDE DEF S
    <3> QED BY <2>1, LeastNat
  <2>3. PICK l \in M : x = n - l
    BY <2>2
  <2>4. ASSUME NEW j \in M PROVE j =< l
    <3>1. n - l =< n - j
      BY <2>2, <2>3
    <3>2. j \in 1 .. n /\ l \in 1 .. n
      BY <1>1, <1>2
    <3> QED BY <1>1, <3>1, <3>2
  <2> QED BY <2>4
<1>5. IsFirst(f, v, i) /\ IsLast(f, v, l)
  BY <1>3, <1>4 DEF IsFirst, IsLast, M
<1> DEFINE e == Widened(f, i, l)
           iv == [vreg |-> v, start |-> i, end |-> e + 1, spansCall |-> SpansCall(f, i, e)]
<1>6. /\ e \in DOMAIN f /\ l =< e
      /\ \A h, t \in DOMAIN f : BackEdge(f, h, t) /\ i < h /\ h =< e => t =< e
  BY <1>2, WidenedOverLoops
<1>7. iv \in Intervals(f)
  <2>1. e \in LastIndex(f, v, i)
    BY <1>2, <1>5, <1>6 DEF LastIndex
  <2>2. <<v, i>> \in Starts(f)
    BY <1>2, <1>5 DEF Starts
  <2> HIDE DEF e
  <2> QED BY <2>1, <2>2 DEF Intervals
<1>8. Spans(f, iv, v)
  <2> HIDE DEF e
  <2>1. i \in 1 .. n /\ l \in 1 .. n /\ e \in 1 .. n
    BY <1>1, <1>2, <1>6
  <2>2. iv.vreg = v /\ iv.start = i /\ iv.end = e + 1 /\ iv.end - 1 = e
    BY <2>1
  <2> HIDE DEF iv
  <2>3. \A j \in M : iv.start =< j /\ j < iv.end
    <3>1. \A j \in M : j \in 1 .. n /\ i =< j /\ j =< l
      BY <1>1, <1>2, <1>3, <1>4
    <3> QED BY <1>6, <2>1, <2>2, <3>1
  <2>4. \A h, t \in DOMAIN f : BackEdge(f, h, t) /\ iv.start < h /\ h < iv.end => t < iv.end
    <3>1. \A h \in 1 .. n : (h < e + 1 <=> h =< e)
      BY <2>1
    <3> QED BY <1>1, <1>6, <2>2, <3>1
  <2> QED BY <1>1, <2>1, <2>2, <2>3, <2>4 DEF Spans, M
<1> QED
  <2> HIDE DEF iv
  <2> QED BY <1>7, <1>8

(* Intervals(f) holds no others.                                               *)
LEMMA AllSpan ==
  ASSUME NEW f \in Functions, NEW iv \in Intervals(f)
  PROVE  iv.vreg \in VRegsOf(f) /\ Spans(f, iv, iv.vreg)
<1>1. iv.vreg \in VRegsOf(f)
  BY IntervalsTyped
<1>2. PICK a \in Intervals(f) : Spans(f, a, iv.vreg)
  BY <1>1, EachHasAnInterval
<1>3. a = iv
  BY <1>2, IntervalsTyped DEF Spans
<1> QED BY <1>1, <1>2, <1>3

-----------------------------------------------------------------------------
(* What every conforming function is known to be.                              *)

(* The parameters are the first instructions, and one each.                    *)
LEMMA ParamsAreAPrefix ==
  ASSUME NEW f \in Functions, Conforming(f)
  PROVE  \E np \in 0 .. Len(f) : \A j \in DOMAIN f : f[j].op = "param" <=> j =< np
<1> DEFINE n == Len(f)
           S == {j \in 1 .. n : f[j].op # "param"} \cup {n + 1}
<1>1. n \in Nat /\ DOMAIN f = 1 .. n
  BY LinearScanAssumption
<1>2. PICK x \in S : \A y \in S : x =< y
  <2>1. S \subseteq Nat /\ S # {}
    BY <1>1
  <2> HIDE DEF S
  <2> QED BY <2>1, LeastNat
<1>3. x - 1 \in 0 .. n
  BY <1>1
<1>4. ASSUME NEW j \in 1 .. n PROVE f[j].op = "param" <=> j =< x - 1
  <2>1. j =< x - 1 => j \notin S
    BY <1>1, <1>2
  <2>2. ASSUME f[j].op = "param", ~ (j =< x - 1) PROVE FALSE
    <3>1. x # j
      BY <1>1, <2>2
    <3>2. x \in 1 .. n /\ x \in 1 .. j - 1
      BY <1>1, <2>2, <3>1
    <3>3. f[x].op = "param"
      BY <1>1, <2>2, <3>2 DEF Conforming, ParamsFirst
    <3>4. x = n + 1
      BY <3>3
    <3> QED BY <1>1, <3>2, <3>4
  <2> QED BY <1>1, <2>1, <2>2
<1> QED BY <1>1, <1>3, <1>4

(* A value that is set wherever control comes from was defined further up; so  *)
(* its interval has begun.                                                     *)
LEMMA SetIsBegun ==
  ASSUME NEW f \in Functions, Conforming(f), NEW iv \in Intervals(f), NEW i \in DOMAIN f, iv.vreg \notin Unset(f)[i]
  PROVE  iv.start < i /\ \E j \in 1 .. i - 1 : f[j].def = iv.vreg
<1>1. DOMAIN f = 1 .. Len(f) /\ Len(f) \in Nat
  BY LinearScanAssumption
<1>2. iv.vreg \in VRegsOf(f) /\ Spans(f, iv, iv.vreg)
  BY AllSpan
<1>3. VRegsOf(f) \ {f[j].def : j \in 1 .. i - 1} \subseteq Unset(f)[i]
  BY DEF Conforming, DefinedFirst
<1>4. PICK j \in 1 .. i - 1 : f[j].def = iv.vreg
  BY <1>2, <1>3
<1>5. j \in DOMAIN f /\ j \in Mentions(f, iv.vreg)
  BY <1>1, <1>4 DEF Mentions
<1>6. iv.start =< j /\ iv.start \in DOMAIN f
  BY <1>2, <1>5 DEF Spans
<1> QED BY <1>1, <1>4, <1>6

(* A value alive where control goes was alive where it came from: also around  *)
(* a back edge, because the interval was widened over the loop.                *)
LEMMA AliveBefore ==
  ASSUME NEW f \in Functions, Conforming(f), NEW iv \in Intervals(f), NEW i \in DOMAIN f, NEW j \in Succs(f, i),
         iv.vreg \notin Unset(f)[j], j < iv.end, iv.vreg # f[i].def
  PROVE  iv.vreg \notin Unset(f)[i] /\ iv.start < i /\ i < iv.end /\ iv.end \in Nat
<1>1. DOMAIN f = 1 .. Len(f) /\ Len(f) \in Nat
  BY LinearScanAssumption
<1>2. iv.vreg \in VRegsOf(f) /\ Spans(f, iv, iv.vreg)
  BY AllSpan
<1>3. j \in DOMAIN f /\ Unset(f)[i] \ {f[i].def} \subseteq Unset(f)[j]
  BY SelectorAssumption DEF StaysInside, Conforming, DefinedFirst
<1>4. iv.vreg \notin Unset(f)[i]
  BY <1>3
<1>5. iv.start < i /\ iv.start < j
  BY <1>3, <1>4, SetIsBegun
<1>6. iv.end \in Nat /\ iv.start \in Nat
  BY <1>1, <1>2, IntervalsTyped DEF IntervalType
<1>7. CASE i < j
  BY <1>1, <1>3, <1>4, <1>5, <1>6, <1>7
<1>8. CASE j =< i
  <2>1. f[i].op = "jmp" /\ j \in Targets(f, i)
    <3>1. f[i].op # "ret" /\ j # i + 1
      BY <1>1, <1>8 DEF Succs
    <3>2. f[i].op = "jz" => j \notin Targets(f, i)
      BY <1>1, <1>3, <1>8, SelectorAssumption DEF Structured
    <3> QED BY <3>1, <3>2 DEF Succs
  <2>2. f[j].op = "label" /\ f[j].imm = f[i].imm /\ j < i
    BY <1>1, <1>3, <1>8, <2>1 DEF Targets
  <2>3. \A k \in j + 1 .. Len(f) : f[k].op = "jmp" /\ f[k].imm = f[i].imm => k = i
    BY <2>1, <2>2, SelectorAssumption DEF Structured
  <2>4. BackEdge(f, j, i)
    BY <1>1, <1>3, <2>1, <2>2, <2>3 DEF BackEdge
  <2>5. i < iv.end
    BY <1>2, <1>3, <1>5, <2>4 DEF Spans
  <2> QED BY <1>4, <1>5, <1>6, <2>5
<1> QED BY <1>1, <1>3, <1>7, <1>8

-----------------------------------------------------------------------------
(* The invariant.                                                              *)
AllocFacts == mf \in Functions /\ AllocInv /\ CountInv /\ FloorKept /\ SpansKnown

(* Every value that is set and still to be read, on this round of a loop or a  *)
(* later one, is in its home.                                                  *)
Agree ==
  \A iv \in intervals :
    iv.vreg \notin Unset(mf)[pc] /\ pc < iv.end => regs[Home(iv.vreg)] = env[iv.vreg]

(* The first param puts all the arguments into their homes, and they stay there*)
(* until the last param has passed.                                            *)
ArgOf(k) == <<"arg", mf[k].imm, 0>>
ParamsPlaced ==
  mf[pc].op = "param" =>
    IF pc = 1 THEN regs = Entered
    ELSE \A k \in DOMAIN mf : mf[k].op = "param" => regs[Home(mf[k].def)] = ArgOf(k)

Pushed == stack = [k \in 1 .. Cardinality(Saved) |-> Entered[CalleeSavedFrom + k - 1]]

Entering == stage = "allocate" => pc = 1 /\ regs = Entered
Running == stage = "run" => todo = {} /\ Encodable /\ Pushed
RunMeans == stage = "run" => Agree /\ ParamsPlaced
Passed == handed.got = handed.want

(* What holds of every function; what holds of the conforming ones; both.      *)
BInv == AllocFacts /\ TypeOK /\ Entering /\ Running /\ SavedRestored
Meaning == RunMeans /\ Passed
XInv == BInv /\ Conforming(mf) /\ Meaning

-----------------------------------------------------------------------------
(* What an instruction finds in the registers.                                 *)

(* Mentioned values have intervals around the place.                           *)
LEMMA MentionedHere ==
  ASSUME AllocFacts, NEW i \in DOMAIN mf, NEW v \in VRegsOf(mf), i \in Mentions(mf, v)
  PROVE  \E iv \in intervals : iv.vreg = v /\ iv.start =< i /\ i < iv.end
BY EachHasAnInterval DEF AllocFacts, SpansKnown, Spans

(* While the code runs, two values alive together have different homes, and    *)
(* none is RAX or RDX.                                                         *)
LEMMA HomesApart ==
  ASSUME AllocFacts, todo = {}, Encodable
  PROVE  /\ \A v \in VRegsOf(mf) : Home(v) \in Regs /\ Home(v) # Rax /\ Home(v) # Rdx
         /\ \A a, b \in intervals : a.vreg # b.vreg /\ Overlap(a, b) => Home(a.vreg) # Home(b.vreg)
         /\ \A iv \in intervals : iv.vreg \in VRegsOf(mf) /\ iv.end \in Nat
<1>1. \A v \in VRegsOf(mf) : v \notin spilled /\ Home(v) \in 0 .. NumGpr - 1
  BY DEF Encodable, HomesKnown, Homes, PRegs
<1>2. \A iv \in intervals : iv.vreg \in VRegsOf(mf) /\ iv.end \in Nat
  BY IntervalsTyped DEF AllocFacts, SpansKnown, IntervalType
<1>3. \A v \in VRegsOf(mf) : Home(v) \in Regs /\ Home(v) # Rax /\ Home(v) # Rdx
  BY <1>1, LinearScanAssumption DEF Regs, Rax, Rdx
<1>4. ASSUME NEW a \in intervals, NEW b \in intervals, a.vreg # b.vreg, Overlap(a, b)
      PROVE  Home(a.vreg) # Home(b.vreg)
  <2>1. a \in Placed /\ b \in Placed /\ {a.vreg, b.vreg} \cap spilled = {}
    BY <1>1, <1>2 DEF Placed
  <2> QED BY <1>4, <2>1 DEF AllocFacts, AllocInv, NoSharing, Home
<1> QED BY <1>2, <1>3, <1>4

(* Two values the same instruction mentions have different homes: no operation *)
(* overwrites an operand before it has read it.                                *)
LEMMA MentionedApart ==
  ASSUME AllocFacts, todo = {}, Encodable, NEW i \in DOMAIN mf,
         NEW v \in VRegsOf(mf), NEW w \in VRegsOf(mf), v # w,
         i \in Mentions(mf, v), i \in Mentions(mf, w)
  PROVE  Home(v) # Home(w)
<1>1. PICK a \in intervals : a.vreg = v /\ a.start =< i /\ i < a.end
  BY MentionedHere
<1>2. PICK b \in intervals : b.vreg = w /\ b.start =< i /\ i < b.end
  BY MentionedHere
<1>3. Overlap(a, b)
  <2>1. a \in IntervalType /\ b \in IntervalType /\ i \in Nat
    BY LinearScanAssumption DEF AllocFacts, AllocInv, Typed
  <2> QED BY <1>1, <1>2, <2>1 DEF Overlap, IntervalType
<1> QED BY <1>1, <1>2, <1>3, HomesApart

(* The operands of the next instruction.                                       *)
LEMMA OperandsAgree ==
  ASSUME XInv, stage = "run", NEW k \in DOMAIN mf[pc].uses
  PROVE  LET v == mf[pc].uses[k]
         IN  /\ v \in VRegsOf(mf) /\ pc \in Mentions(mf, v)
             /\ regs[Home(v)] = env[v]
<1> DEFINE v == mf[pc].uses[k]
<1>1. pc \in DOMAIN mf /\ v \in Uses(mf, pc) /\ mf \in Functions
  BY DEF XInv, BInv, TypeOK, AllocFacts, Uses
<1>2. v \in VRegsOf(mf) /\ pc \in Mentions(mf, v)
  BY <1>1 DEF VRegsOf, Mentions
<1>3. v \notin Unset(mf)[pc]
  BY <1>1 DEF XInv, Conforming, DefinedFirst
<1>4. PICK iv \in intervals : iv.vreg = v /\ pc < iv.end
  BY <1>1, <1>2, MentionedHere DEF XInv, BInv
<1>5. regs[Home(v)] = env[v]
  BY <1>3, <1>4 DEF XInv, Meaning, RunMeans, Agree
<1> QED BY <1>2, <1>5

(* A value alive after the next instruction and not its result: it is in its   *)
(* home now, and the result goes elsewhere.                                    *)
LEMMA OthersAgree ==
  ASSUME XInv, stage = "run", NEW j \in Succs(mf, pc), NEW iv \in intervals,
         iv.vreg \notin Unset(mf)[j], j < iv.end, iv.vreg # mf[pc].def
  PROVE  /\ iv.vreg \notin Unset(mf)[pc] /\ iv.start < pc /\ pc < iv.end
         /\ regs[Home(iv.vreg)] = env[iv.vreg]
         /\ mf[pc].def # NoVReg => Home(iv.vreg) # Home(mf[pc].def)
<1>1. /\ pc \in DOMAIN mf /\ mf \in Functions /\ intervals = Intervals(mf) /\ AllocFacts /\ todo = {} /\ Encodable
      /\ Conforming(mf)
  BY DEF XInv, BInv, TypeOK, AllocFacts, SpansKnown, Running
<1>2. iv.vreg \notin Unset(mf)[pc] /\ iv.start < pc /\ pc < iv.end /\ iv.end \in Nat
  BY <1>1, AliveBefore
<1>3. regs[Home(iv.vreg)] = env[iv.vreg]
  BY <1>2 DEF XInv, Meaning, RunMeans, Agree
<1>4. ASSUME mf[pc].def # NoVReg PROVE Home(iv.vreg) # Home(mf[pc].def)
  <2>1. mf[pc].def \in VRegsOf(mf) /\ pc \in Mentions(mf, mf[pc].def)
    BY <1>1, <1>4 DEF VRegsOf, Mentions
  <2>2. PICK d \in intervals : d.vreg = mf[pc].def /\ d.start =< pc /\ pc < d.end
    BY <1>1, <2>1, MentionedHere
  <2>3. Overlap(iv, d)
    <3>1. iv \in IntervalType /\ d \in IntervalType /\ pc \in Nat
      BY <1>1, LinearScanAssumption DEF AllocFacts, AllocInv, Typed
    <3> QED BY <1>2, <2>2, <3>1 DEF Overlap, IntervalType
  <2> QED BY <1>1, <2>2, <2>3, HomesApart
<1> QED BY <1>2, <1>3, <1>4

(* Each argument register is entered with its argument.                        *)
LEMMA ArgRegsHold ==
  /\ NumGpr \in Nat /\ CalleeSavedFrom \in Nat /\ Saved \subseteq Regs \ {Rax, Rdx}
  /\ \A k \in DOMAIN ArgRegs : /\ ArgRegs[k] \in Regs \ {Rax} /\ ArgRegs[k] \notin Saved
                               /\ Entered[ArgRegs[k]] = <<"arg", k - 1, 0>>
  /\ DOMAIN ArgRegs = 1 .. Len(ArgRegs) /\ Len(ArgRegs) \in Nat
  /\ \A q \in Saved : Entered[q] = <<"saved", q, 0>>
  /\ DOMAIN Entered = Regs
<1>1. NumGpr \in Nat /\ CalleeSavedFrom \in Nat /\ Saved \subseteq Regs \ {Rax, Rdx}
  BY LinearScanAssumption DEF Saved, Regs, Rax, Rdx
<1>2. DOMAIN ArgRegs = 1 .. Len(ArgRegs) /\ Len(ArgRegs) \in Nat
      /\ \A k \in DOMAIN ArgRegs : ArgRegs[k] \in (Homes \cup {Rdx}) \ Saved
  BY EncoderAssumption
<1>3. ASSUME NEW k \in DOMAIN ArgRegs
      PROVE  /\ ArgRegs[k] \in Regs \ {Rax} /\ ArgRegs[k] \notin Saved
             /\ Entered[ArgRegs[k]] = <<"arg", k - 1, 0>>
  <2>1. ArgRegs[k] \in Regs \ {Rax} /\ ArgRegs[k] \notin Saved
    BY <1>1, <1>2 DEF Homes, PRegs, Regs, Rax, Rdx
  <2>2. (CHOOSE m \in DOMAIN ArgRegs : ArgRegs[m] = ArgRegs[k]) = k
    BY EncoderAssumption
  <2>3. Entered[ArgRegs[k]] = <<"arg", (CHOOSE m \in DOMAIN ArgRegs : ArgRegs[m] = ArgRegs[k]) - 1, 0>>
    BY <2>1 DEF Entered, Regs
  <2> QED BY <2>1, <2>2, <2>3
<1>4. \A q \in Saved : Entered[q] = <<"saved", q, 0>>
  <2>1. \A q \in Saved : ~ \E k \in DOMAIN ArgRegs : ArgRegs[k] = q
    BY <1>3
  <2> QED BY <1>1, <2>1 DEF Entered, Regs
<1>5. DOMAIN Entered = Regs
  BY DEF Entered, Regs
<1> QED BY <1>1, <1>2, <1>3, <1>4, <1>5

(* The k-th parameter move belongs to the k-th instruction.                    *)
LEMMA ParamMovesAre ==
  ASSUME mf \in Functions, NEW np \in 0 .. Len(mf),
         \A j \in DOMAIN mf : mf[j].op = "param" <=> j =< np
  PROVE  /\ ParamMoves = [k \in 1 .. np |-> [src |-> ArgRegs[mf[k].imm + 1], dst |-> Home(mf[k].def)]]
         /\ \A i \in 1 .. np : Cardinality(ParamsUpTo(i)) = i
<1>1. DOMAIN mf = 1 .. Len(mf) /\ Len(mf) \in Nat
  BY LinearScanAssumption
<1>2. \A i \in 0 .. np : ParamsUpTo(i) = 1 .. i
  BY <1>1 DEF ParamsUpTo
<1>3. ParamsUpTo(Len(mf)) = 1 .. np
  BY <1>1 DEF ParamsUpTo
<1>4. \A i \in 0 .. np : Cardinality(1 .. i) = i
  <2> SUFFICES ASSUME NEW i \in 0 .. np PROVE Cardinality(1 .. i) = i
    OBVIOUS
  <2>1. i \in Nat
    BY <1>1
  <2>2. Cardinality(1 .. i) = IF 1 > i THEN 0 ELSE i - 1 + 1
    <3>1. 1 \in Int /\ i \in Int
      BY <2>1
    <3> HIDE DEF ParamsUpTo
    <3> QED BY ONLY <3>1, FS_Interval, Zenon
  <2> QED BY <2>1, <2>2
<1> DEFINE at(k) == CHOOSE i \in ParamsUpTo(Len(mf)) : Cardinality(ParamsUpTo(i)) = k
<1>5. ASSUME NEW k \in 1 .. np PROVE at(k) = k
  <2>1. \A i \in 1 .. np : Cardinality(ParamsUpTo(i)) = i
    BY <1>1, <1>2, <1>4
  <2>2. \A i \in 1 .. np : Cardinality(ParamsUpTo(i)) = k <=> i = k
    BY <2>1
  <2>3. at(k) = CHOOSE i \in 1 .. np : Cardinality(ParamsUpTo(i)) = k
    BY <1>3
  <2> HIDE DEF at
  <2>4. at(k) \in 1 .. np /\ Cardinality(ParamsUpTo(at(k))) = k
    BY <2>2, <2>3
  <2> QED BY <2>2, <2>4
<1>6. ParamMoves = [k \in 1 .. Cardinality(ParamsUpTo(Len(mf))) |->
                      [src |-> ArgRegs[mf[at(k)].imm + 1], dst |-> Home(mf[at(k)].def)]]
  BY DEF ParamMoves
<1>7. Cardinality(ParamsUpTo(Len(mf))) = np
  <2>1. np \in 0 .. np
    BY <1>1
  <2> QED BY <1>3, <1>4, <2>1
<1>8. \A i \in 1 .. np : Cardinality(ParamsUpTo(i)) = i
  BY <1>1, <1>2, <1>4
<1> QED
  <2> HIDE DEF at
  <2> QED BY <1>5, <1>6, <1>7, <1>8

(* The moves made at the first param put every argument into its home.         *)
LEMMA ArgumentsPlaced ==
  ASSUME XInv, stage = "run", mf[pc].op = "param", pc = 1,
         NEW a, a = AfterMoves(regs, Emitted(ParamMoves))
  PROVE  /\ DOMAIN a = Regs
         /\ \A k \in DOMAIN mf : mf[k].op = "param" => a[Home(mf[k].def)] = ArgOf(k)
<1>1. /\ mf \in Functions /\ AllocFacts /\ todo = {} /\ Encodable /\ regs = Entered
      /\ Conforming(mf)
  BY DEF XInv, BInv, AllocFacts, Running, Meaning, RunMeans, ParamsPlaced
<1>2. DOMAIN mf = 1 .. Len(mf) /\ Len(mf) \in Nat
  BY <1>1, LinearScanAssumption
<1>3. PICK np \in 0 .. Len(mf) : \A j \in DOMAIN mf : mf[j].op = "param" <=> j =< np
  BY <1>1, ParamsAreAPrefix
<1> DEFINE moves == ParamMoves
<1>4. moves = [k \in 1 .. np |-> [src |-> ArgRegs[mf[k].imm + 1], dst |-> Home(mf[k].def)]]
  BY <1>1, <1>3, ParamMovesAre
<1>5. ASSUME NEW k \in 1 .. np
      PROVE  /\ k \in DOMAIN mf /\ mf[k].op = "param" /\ mf[k].imm + 1 \in DOMAIN ArgRegs
             /\ mf[k].imm \in Nat
             /\ mf[k].def \in VRegsOf(mf) /\ k \in Mentions(mf, mf[k].def)
             /\ \E i \in DOMAIN mf : np < i /\ i \in Mentions(mf, mf[k].def)
  <2>1. k \in DOMAIN mf /\ mf[k].op = "param"
    BY <1>2, <1>3
  <2>2. mf[k].imm \in 0 .. Len(ArgRegs) - 1
    BY <1>1, <2>1 DEF Encodable, ParamsInRange
  <2>3. mf[k].imm + 1 \in DOMAIN ArgRegs /\ mf[k].imm \in Nat
    BY <2>2, ArgRegsHold
  <2>4. mf[k].def # NoVReg
    BY <1>1, <2>1, SelectorAssumption DEF WellTyped, Computing
  <2>5. mf[k].def \in VRegsOf(mf) /\ k \in Mentions(mf, mf[k].def)
    BY <2>1, <2>4 DEF VRegsOf, Mentions
  <2>6. PICK i \in DOMAIN mf : mf[i].op # "param" /\ mf[k].def \in Uses(mf, i)
    BY <1>1, <2>1 DEF Conforming, ParamsFirst
  <2>7. np < i /\ i \in Mentions(mf, mf[k].def)
    BY <1>2, <1>3, <2>6 DEF Uses, Mentions
  <2> QED BY <2>1, <2>3, <2>5, <2>6, <2>7
<1>6. moves \in Seq(PlainMove)
  <2> HIDE DEF moves
  <2>1. \A k \in 1 .. np : moves[k] \in PlainMove
    BY <1>1, <1>4, <1>5, HomesApart, ArgRegsHold DEF PlainMove
  <2>2. moves \in [1 .. np -> PlainMove] /\ np \in Nat
    BY <1>2, <1>4, <2>1
  <2> QED BY <2>2
<1>7. ASSUME NEW k \in 1 .. np, NEW l \in 1 .. np, k < l PROVE Home(mf[k].def) # Home(mf[l].def)
  <2>1. mf[k].def # mf[l].def
    <3>1. k \in 1 .. l - 1
      BY <1>2, <1>7
    <3> QED BY <1>1, <1>5, <3>1 DEF Conforming, ParamsFirst
  <2>2. PICK a1 \in intervals : a1.vreg = mf[k].def /\ a1.start =< k /\ np < a1.end
    <3>1. PICK b \in intervals : Spans(mf, b, mf[k].def)
      BY <1>1, <1>5, EachHasAnInterval DEF AllocFacts, SpansKnown
    <3>2. PICK i \in DOMAIN mf : np < i /\ i \in Mentions(mf, mf[k].def)
      BY <1>5
    <3>3. b.end \in Nat /\ i < b.end /\ b.start =< k
      BY <1>1, <1>5, <3>1, <3>2, HomesApart DEF Spans
    <3> QED BY <1>2, <3>1, <3>2, <3>3 DEF Spans
  <2>3. PICK b1 \in intervals : b1.vreg = mf[l].def /\ b1.start =< l /\ np < b1.end
    <3>1. PICK b \in intervals : Spans(mf, b, mf[l].def)
      BY <1>1, <1>5, EachHasAnInterval DEF AllocFacts, SpansKnown
    <3>2. PICK i \in DOMAIN mf : np < i /\ i \in Mentions(mf, mf[l].def)
      BY <1>5
    <3>3. b.end \in Nat /\ i < b.end /\ b.start =< l
      BY <1>1, <1>5, <3>1, <3>2, HomesApart DEF Spans
    <3> QED BY <1>2, <3>1, <3>2, <3>3 DEF Spans
  <2>4. Overlap(a1, b1)
    <3>1. a1 \in IntervalType /\ b1 \in IntervalType
      BY DEF XInv, BInv, AllocFacts, AllocInv, Typed
    <3> QED BY <1>2, <2>2, <2>3, <3>1 DEF Overlap, IntervalType
  <2> QED BY <1>1, <2>1, <2>2, <2>3, <2>4, HomesApart
<1>8. Distinct(moves)
  <2> HIDE DEF moves
  <2>1. ASSUME NEW k \in 1 .. np, NEW l \in 1 .. np, k # l PROVE Home(mf[k].def) # Home(mf[l].def)
    <3>1. k < l \/ l < k
      BY <1>2, <2>1
    <3> QED BY <1>7, <3>1
  <2> QED BY <1>4, <2>1 DEF Distinct
<1>9. Resolvable(moves)
  BY <1>1 DEF Encodable
<1>10. DOMAIN regs = Regs
  BY <1>1, ArgRegsHold
<1>11. DOMAIN a = Regs /\ \A k \in DOMAIN moves : a[moves[k].dst] = regs[moves[k].src]
  <2> HIDE DEF moves
  <2>1. a = AfterMoves(regs, Emitted(moves))
    BY DEF moves
  <2> QED BY <1>6, <1>8, <1>9, <1>10, <2>1, EmittedAssigns
<1>12. ASSUME NEW k \in 1 .. np PROVE a[Home(mf[k].def)] = ArgOf(k)
  <2> HIDE DEF moves
  <2>1. a[Home(mf[k].def)] = regs[ArgRegs[mf[k].imm + 1]]
    BY <1>4, <1>11
  <2>2. regs[ArgRegs[mf[k].imm + 1]] = <<"arg", (mf[k].imm + 1) - 1, 0>>
    BY <1>1, <1>5, ArgRegsHold
  <2>3. (mf[k].imm + 1) - 1 = mf[k].imm
    BY <1>5
  <2> QED BY <2>1, <2>2, <2>3 DEF ArgOf
<1>13. \A k \in DOMAIN mf : mf[k].op = "param" => k \in 1 .. np
  BY <1>2, <1>3
<1> QED BY <1>11, <1>12, <1>13

(* The moves before a call put the values of its operands into the argument    *)
(* registers, and touch no callee-saved register.                              *)
LEMMA CallMovesArrive ==
  ASSUME XInv, stage = "run", mf[pc].op = "call",
         NEW u, u = mf[pc].uses, NEW r, r = AfterMoves(regs, Emitted(CallMoves(u)))
  PROVE  /\ DOMAIN r = Regs
         /\ \A k \in DOMAIN u : r[ArgRegs[k]] = env[u[k]]
         /\ \A q \in Saved : r[q] = regs[q]
<1>1. mf \in Functions /\ AllocFacts /\ todo = {} /\ Encodable /\ pc \in DOMAIN mf /\ DOMAIN regs = Regs
  BY DEF XInv, BInv, AllocFacts, Running, TypeOK, Regs
<1>2. u \in Seq(VRegsOf(mf)) /\ Len(u) =< Len(ArgRegs)
  BY <1>1, SelectorAssumption DEF WellTyped
<1> DEFINE moves == CallMoves(u)
<1>3. DOMAIN u = 1 .. Len(u) /\ Len(u) \in Nat /\ \A k \in DOMAIN u : k \in DOMAIN ArgRegs
  BY <1>2, ArgRegsHold
<1>4. moves = [k \in DOMAIN u |-> [src |-> Home(u[k]), dst |-> ArgRegs[k]]]
  BY DEF CallMoves
<1>5. \A k \in DOMAIN u : u[k] \in VRegsOf(mf) /\ regs[Home(u[k])] = env[u[k]]
  BY OperandsAgree
<1> HIDE DEF moves
<1>6. moves \in Seq(PlainMove)
  <2>1. \A k \in DOMAIN u : moves[k] \in PlainMove
    BY <1>1, <1>3, <1>4, <1>5, HomesApart, ArgRegsHold DEF PlainMove
  <2>2. moves \in [1 .. Len(u) -> PlainMove]
    BY <1>3, <1>4, <2>1
  <2> QED BY <1>3, <2>2
<1>7. Distinct(moves)
  BY <1>3, <1>4, EncoderAssumption DEF Distinct
<1>8. Resolvable(moves)
  BY <1>1 DEF Encodable, CallsResolvable, moves
<1>9. /\ DOMAIN r = Regs
      /\ \A k \in DOMAIN moves : r[moves[k].dst] = regs[moves[k].src]
      /\ \A q \in Regs \ {Rax} : (\A k \in DOMAIN moves : q # moves[k].dst) => r[q] = regs[q]
  <2>1. r = AfterMoves(regs, Emitted(moves))
    BY DEF moves
  <2> QED BY <1>1, <1>6, <1>7, <1>8, <2>1, EmittedAssigns
<1>10. ASSUME NEW k \in DOMAIN u PROVE r[ArgRegs[k]] = env[u[k]]
  <2>1. moves[k].dst = ArgRegs[k] /\ moves[k].src = Home(u[k]) /\ k \in DOMAIN moves
    BY <1>4
  <2>2. r[moves[k].dst] = regs[moves[k].src]
    BY <1>9, <2>1
  <2> QED BY <1>5, <2>1, <2>2
<1>11. ASSUME NEW q \in Saved PROVE r[q] = regs[q]
  <2>1. q \in Regs \ {Rax} /\ \A k \in DOMAIN u : q # ArgRegs[k]
    BY <1>3, ArgRegsHold
  <2> QED BY <1>4, <1>9, <2>1
<1> QED BY <1>9, <1>10, <1>11

-----------------------------------------------------------------------------
(* Steps of the running code.                                                  *)

(* Nothing comes before a parameter but parameters.                            *)
LEMMA NoParamAfter ==
  ASSUME NEW f \in Functions, Conforming(f), NEW i \in DOMAIN f, NEW j \in Succs(f, i), f[i].op # "param"
  PROVE  f[j].op # "param"
<1>1. DOMAIN f = 1 .. Len(f) /\ Len(f) \in Nat
  BY LinearScanAssumption
<1>2. j \in DOMAIN f
  BY SelectorAssumption DEF StaysInside
<1>3. j = i + 1 \/ j \in Targets(f, i)
  BY DEF Succs
<1>4. CASE j = i + 1
  <2>1. i \in 1 .. j - 1
    BY <1>1, <1>4
  <2> QED BY <1>2, <2>1 DEF Conforming, ParamsFirst
<1>5. CASE j \in Targets(f, i)
  BY <1>5 DEF Targets
<1> QED BY <1>3, <1>4, <1>5

(* After a step every value alive is in its home, if the result is and the     *)
(* others still are.                                                           *)
LEMMA StepAgrees ==
  ASSUME XInv, stage = "run", UNCHANGED rvars, pc' \in Succs(mf, pc),
         mf[pc].def # NoVReg => regs'[Home(mf[pc].def)] = env'[mf[pc].def],
         \A iv \in intervals :
           iv.vreg \notin Unset(mf)[pc'] /\ pc' < iv.end /\ iv.vreg # mf[pc].def =>
             regs'[Home(iv.vreg)] = env'[iv.vreg]
  PROVE  Agree'
<1>1. mf' = mf /\ intervals' = intervals /\ \A v : Home(v)' = Home(v)
  BY DEF rvars, Home
<1>2. \A iv \in intervals : iv.vreg # NoVReg
  <2>1. \A iv \in intervals : iv.vreg \in Nat
    BY DEF XInv, BInv, AllocFacts, AllocInv, Typed, IntervalType
  <2> QED BY <2>1 DEF NoVReg
<1>3. ASSUME NEW iv \in intervals, iv.vreg \notin Unset(mf)[pc'], pc' < iv.end
      PROVE  regs'[Home(iv.vreg)] = env'[iv.vreg]
  BY <1>2, <1>3
<1> QED BY <1>1, <1>3 DEF Agree

(* Placing an interval keeps what is proved of the allocator.                  *)
LEMMA AllocFactsKept ==
  ASSUME AllocFacts, [Place]_rvars
  PROVE  AllocFacts'
<1>1. mf' = mf
  BY DEF Place, TakeFree, Steal, SpillNew, rvars
<1>2. AllocInv' /\ CountInv' /\ FloorKept' /\ SpansKnown'
  BY AllocSteps, CountSteps, FloorSteps, SpansSteps DEF AllocFacts
<1> QED BY <1>1, <1>2 DEF AllocFacts

(* What the encoder accepted stays accepted.                                   *)
LEMMA EncodableKept ==
  ASSUME UNCHANGED rvars
  PROVE  Encodable' <=> Encodable
BY DEF rvars, Encodable, HomesKnown, ParamsInRange, CallsResolvable, Returns, LabelsPlaced, Home, ParamMoves,
       ParamsUpTo, CallMoves

(* A step of the running code keeps what holds of every function.              *)
LEMMA RunKeepsBase ==
  ASSUME BInv, stage = "run", UNCHANGED <<rvars, stage, stack>>, pc' \in Succs(mf, pc),
         DOMAIN env' = DOMAIN env, DOMAIN regs' = Regs, phase' \in 0 .. 1
  PROVE  BInv'
<1>1. mf \in Functions /\ pc \in DOMAIN mf
  BY DEF BInv, AllocFacts, TypeOK
<1>2. pc' \in DOMAIN mf
  BY <1>1, SelectorAssumption DEF StaysInside
<1>3. AllocFacts'
  BY AllocFactsKept DEF BInv
<1>4. TypeOK'
  BY <1>2 DEF BInv, TypeOK, rvars, Regs
<1>5. Entering' /\ SavedRestored'
  BY DEF Entering, SavedRestored
<1>6. Running'
  BY EncodableKept DEF BInv, Running, Pushed, rvars
<1> QED BY <1>3, <1>4, <1>5, <1>6 DEF BInv

(* What the instruction at pc is known to be.                                  *)
LEMMA HereFacts ==
  ASSUME BInv, stage = "run"
  PROVE  /\ mf \in Functions /\ AllocFacts /\ todo = {} /\ Encodable /\ intervals = Intervals(mf)
         /\ pc \in DOMAIN mf /\ pc \in Nat /\ DOMAIN regs = Regs /\ DOMAIN env = VRegsOf(mf)
         /\ DOMAIN mf[pc].uses = 1 .. Len(mf[pc].uses) /\ Len(mf[pc].uses) \in Nat
         /\ mf[pc].op \in Computing => /\ mf[pc].def # NoVReg /\ mf[pc].def \in VRegsOf(mf)
                                       /\ pc \in Mentions(mf, mf[pc].def)
                                       /\ Home(mf[pc].def) \in Regs
                                       /\ Home(mf[pc].def) # Rax /\ Home(mf[pc].def) # Rdx
                                       /\ Succs(mf, pc) = {pc + 1}
         /\ mf[pc].op \notin Computing => mf[pc].def = NoVReg
<1>1. mf \in Functions /\ AllocFacts /\ todo = {} /\ Encodable /\ pc \in DOMAIN mf
      /\ DOMAIN regs = Regs /\ DOMAIN env = VRegsOf(mf)
  BY DEF BInv, AllocFacts, Running, TypeOK, Regs
<1>2. pc \in Nat /\ intervals = Intervals(mf)
  BY <1>1, LinearScanAssumption DEF AllocFacts, SpansKnown
<1>3. mf[pc].uses \in Seq(VRegsOf(mf)) /\ (mf[pc].op \in Computing <=> mf[pc].def # NoVReg)
  BY <1>1, SelectorAssumption DEF WellTyped
<1>4. ASSUME mf[pc].op \in Computing
      PROVE  /\ mf[pc].def \in VRegsOf(mf) /\ pc \in Mentions(mf, mf[pc].def)
             /\ Succs(mf, pc) = {pc + 1}
  BY <1>1, <1>3, <1>4 DEF VRegsOf, Mentions, Succs, Computing
<1> QED BY <1>1, <1>2, <1>3, <1>4, HomesApart

(* An instruction that puts the right value into its result's home, and        *)
(* changes no other home but perhaps RAX and RDX, keeps the meaning.           *)
LEMMA ComputingKeeps ==
  ASSUME XInv, stage = "run", mf[pc].op \in Computing \ {"param"},
         UNCHANGED <<rvars, stage, phase, stack, handed>>, pc' = pc + 1,
         NEW x, env' = [env EXCEPT ![mf[pc].def] = x],
         DOMAIN regs' = Regs, regs'[Home(mf[pc].def)] = x,
         \A q \in Regs : q # Home(mf[pc].def) /\ q # Rax /\ q # Rdx => regs'[q] = regs[q]
  PROVE  Meaning'
<1>0. BInv
  BY DEF XInv
<1> USE <1>0
<1>1. pc' \in Succs(mf, pc) /\ DOMAIN env' = DOMAIN env /\ env'[mf[pc].def] = x
  BY HereFacts
<1>2. ASSUME NEW iv \in intervals, iv.vreg \notin Unset(mf)[pc'], pc' < iv.end, iv.vreg # mf[pc].def
      PROVE  regs'[Home(iv.vreg)] = env'[iv.vreg]
  <2>1. regs[Home(iv.vreg)] = env[iv.vreg] /\ Home(iv.vreg) # Home(mf[pc].def)
    BY <1>1, <1>2, OthersAgree, HereFacts
  <2>2. iv.vreg \in VRegsOf(mf) /\ Home(iv.vreg) \in Regs /\ Home(iv.vreg) # Rax /\ Home(iv.vreg) # Rdx
    BY HereFacts, HomesApart
  <2>3. env'[iv.vreg] = env[iv.vreg]
    BY <1>2, <2>2, HereFacts
  <2> QED BY <2>1, <2>2, <2>3
<1>3. Agree'
  BY <1>1, <1>2, StepAgrees
<1>4. ParamsPlaced'
  <2>1. mf[pc'].op # "param"
    BY <1>1, HereFacts, NoParamAfter DEF XInv
  <2> QED BY <2>1 DEF ParamsPlaced, rvars
<1>5. Passed'
  BY DEF XInv, Meaning, Passed
<1> QED BY <1>3, <1>4, <1>5 DEF Meaning, RunMeans

(* A move between homes.                                                       *)
LEMMA MovStep ==
  ASSUME XInv, Mov
  PROVE  Meaning'
<1>0. BInv
  BY DEF XInv
<1> USE <1>0
<1>1. stage = "run" /\ mf[pc].op = "mov" /\ mf[pc].op \in Computing \ {"param"}
  BY DEF Mov, At, Computing
<1>2. Len(mf[pc].uses) = 1 /\ 1 \in DOMAIN mf[pc].uses
  BY <1>1, HereFacts, SelectorAssumption DEF WellTyped
<1>3. regs[Home(mf[pc].uses[1])] = env[mf[pc].uses[1]]
  BY <1>1, <1>2, OperandsAgree
<1>4. /\ regs' = [regs EXCEPT ![Home(mf[pc].def)] = env[mf[pc].uses[1]]]
      /\ env' = [env EXCEPT ![mf[pc].def] = env[mf[pc].uses[1]]]
      /\ UNCHANGED <<rvars, stage, phase, stack, handed>> /\ pc' = pc + 1
  BY <1>3 DEF Mov, NextInstr, Goto
<1>5. /\ DOMAIN regs' = Regs /\ regs'[Home(mf[pc].def)] = env[mf[pc].uses[1]]
      /\ \A q \in Regs : q # Home(mf[pc].def) => regs'[q] = regs[q]
  BY <1>1, <1>4, HereFacts
<1> QED BY <1>1, <1>4, <1>5, ComputingKeeps

(* dst = a OP b: overwriting dst with a leaves b alone, because b is read here *)
(* and dst is not b (ExecEncoder.cpp:391-405).                                 *)
LEMMA TwoOperandComputes ==
  ASSUME XInv, stage = "run", mf[pc].op \in {"mov_imm", "alu"}
  PROVE  /\ DOMAIN TwoOperand = Regs /\ TwoOperand[Home(mf[pc].def)] = Made
         /\ \A q \in Regs : q # Home(mf[pc].def) => TwoOperand[q] = regs[q]
<1>0. BInv
  BY DEF XInv
<1> USE <1>0
<1> DEFINE u == mf[pc].uses
           d == Home(mf[pc].def)
           r == IF u = << >> THEN regs ELSE [regs EXCEPT ![d] = regs[Home(u[1])]]
           read == [k \in DOMAIN u |-> IF k = 1 THEN r[d] ELSE r[Home(u[k])]]
<1>1. /\ mf \in Functions /\ AllocFacts /\ todo = {} /\ Encodable /\ pc \in DOMAIN mf /\ DOMAIN regs = Regs
      /\ mf[pc].def \in VRegsOf(mf) /\ pc \in Mentions(mf, mf[pc].def) /\ d \in Regs
  BY HereFacts DEF Computing
<1>2. mf[pc].def \notin Uses(mf, pc)
  <2>1. mf[pc].op = "mov_imm" => mf[pc].uses = << >>
    BY <1>1, SelectorAssumption DEF WellTyped
  <2>2. mf[pc].op = "alu" => mf[pc].def \notin Uses(mf, pc)
    BY <1>1, SelectorAssumption DEF WellTyped
  <2> QED BY <2>1, <2>2 DEF Uses
<1>3. ASSUME NEW k \in DOMAIN u
      PROVE  regs[Home(u[k])] = env[u[k]] /\ Home(u[k]) # d /\ Home(u[k]) \in Regs
  <2>1. u[k] \in VRegsOf(mf) /\ pc \in Mentions(mf, u[k]) /\ regs[Home(u[k])] = env[u[k]]
    BY OperandsAgree
  <2>2. u[k] # mf[pc].def
    BY <1>2 DEF Uses
  <2> QED BY <1>1, <2>1, <2>2, MentionedApart, HomesApart
<1>4. ASSUME NEW k \in DOMAIN u PROVE read[k] = env[u[k]]
  <2>1. u # << >> /\ 1 \in DOMAIN u
    BY HereFacts
  <2>2. r[d] = regs[Home(u[1])] /\ \A q \in Regs : q # d => r[q] = regs[q]
    BY <1>1, <2>1
  <2>3. read[k] = IF k = 1 THEN r[d] ELSE r[Home(u[k])]
    OBVIOUS
  <2> HIDE DEF r, read
  <2> QED BY <1>3, <2>1, <2>2, <2>3
<1>5. read = [k \in DOMAIN u |-> env[u[k]]]
  <2>1. DOMAIN read = DOMAIN u /\ read = [k \in DOMAIN u |-> read[k]]
    OBVIOUS
  <2> HIDE DEF read
  <2> QED BY <1>4, <2>1
<1>6. Result(read) = Made
  <2> HIDE DEF read
  <2> QED BY <1>5 DEF Result
<1>7. TwoOperand = [r EXCEPT ![d] = Result(read)]
  BY DEF TwoOperand
<1>8. DOMAIN r = Regs /\ \A q \in Regs : q # d => r[q] = regs[q]
  BY <1>1
<1>9. DOMAIN TwoOperand = Regs /\ TwoOperand[d] = Made /\ \A q \in Regs : q # d => TwoOperand[q] = regs[q]
  <2> HIDE DEF r, read, d
  <2> QED BY <1>1, <1>6, <1>7, <1>8
<1> QED BY <1>9

(* Division and comparison go through RAX and RDX, which are no homes.         *)
LEMMA ThroughRaxComputes ==
  ASSUME XInv, stage = "run", mf[pc].op \in {"div", "cmp"}, NEW scratch \in SUBSET {Rax, Rdx}
  PROVE  /\ DOMAIN ThroughRax(scratch) = Regs /\ ThroughRax(scratch)[Home(mf[pc].def)] = Made
         /\ \A q \in Regs : q # Home(mf[pc].def) /\ q # Rax /\ q # Rdx => ThroughRax(scratch)[q] = regs[q]
<1>0. BInv
  BY DEF XInv
<1> USE <1>0
<1> DEFINE u == mf[pc].uses
           read == [k \in DOMAIN u |-> regs[Home(u[k])]]
<1>1. DOMAIN regs = Regs /\ Home(mf[pc].def) \in Regs
  BY HereFacts DEF Computing
<1>2. \A k \in DOMAIN u : read[k] = env[u[k]]
  BY OperandsAgree
<1>3. read = [k \in DOMAIN u |-> env[u[k]]]
  BY <1>2
<1>4. Result(read) = Made
  <2> HIDE DEF read
  <2> QED BY <1>3 DEF Result
<1>5. ThroughRax(scratch) = [r \in DOMAIN regs |-> IF r = Home(mf[pc].def) THEN Result(read)
                                                 ELSE IF r \in scratch THEN Junk ELSE regs[r]]
  BY DEF ThroughRax
<1> HIDE DEF read
<1> QED BY <1>1, <1>4, <1>5

(* An operation, in two-operand form or through RAX.                           *)
LEMMA OperateStep ==
  ASSUME XInv, Operate
  PROVE  Meaning'
<1>1. /\ stage = "run" /\ env' = [env EXCEPT ![mf[pc].def] = Made] /\ pc' = pc + 1
      /\ UNCHANGED <<rvars, stage, phase, stack, handed>>
  BY DEF Operate, NextInstr, Goto
<1>2. CASE mf[pc].op \in {"mov_imm", "alu"} /\ regs' = TwoOperand
  <2>1. mf[pc].op \in Computing \ {"param"}
    BY <1>2 DEF Computing
  <2>2. /\ DOMAIN regs' = Regs /\ regs'[Home(mf[pc].def)] = Made
        /\ \A q \in Regs : q # Home(mf[pc].def) => regs'[q] = regs[q]
    BY <1>1, <1>2, TwoOperandComputes
  <2> QED BY <1>1, <2>1, <2>2, ComputingKeeps
<1>3. ASSUME NEW scratch \in SUBSET {Rax, Rdx}, mf[pc].op \in {"div", "cmp"}, regs' = ThroughRax(scratch)
      PROVE  Meaning'
  <2>1. mf[pc].op \in Computing \ {"param"}
    BY <1>3 DEF Computing
  <2>2. /\ DOMAIN regs' = Regs /\ regs'[Home(mf[pc].def)] = Made
        /\ \A q \in Regs : q # Home(mf[pc].def) /\ q # Rax /\ q # Rdx => regs'[q] = regs[q]
    BY <1>1, <1>3, ThroughRaxComputes
  <2> QED BY <1>1, <2>1, <2>2, ComputingKeeps
<1>4. \/ mf[pc].op \in {"mov_imm", "alu"} /\ regs' = TwoOperand
      \/ mf[pc].op = "div" /\ regs' = ThroughRax({Rax, Rdx})
      \/ mf[pc].op = "cmp" /\ regs' = ThroughRax({Rax})
  BY DEF Operate
<1>5. {Rax, Rdx} \in SUBSET {Rax, Rdx} /\ {Rax} \in SUBSET {Rax, Rdx}
  OBVIOUS
<1> QED BY <1>2, <1>3, <1>4, <1>5

(* The first param makes all the moves, the others none.                       *)
LEMMA ParamStep ==
  ASSUME XInv, Param
  PROVE  Meaning'
<1>0. BInv
  BY DEF XInv
<1> USE <1>0
<1>1. /\ stage = "run" /\ mf[pc].op = "param" /\ pc' = pc + 1
      /\ regs' = ParamBlock(regs, Cardinality(ParamsUpTo(pc)))
      /\ env' = [env EXCEPT ![mf[pc].def] = ArgOf(pc)]
      /\ UNCHANGED <<rvars, stage, phase, stack, handed>>
  BY DEF Param, At, NextInstr, Goto, ArgOf
<1>2. /\ mf \in Functions /\ pc \in DOMAIN mf /\ pc \in Nat /\ DOMAIN regs = Regs /\ DOMAIN env = VRegsOf(mf)
      /\ mf[pc].def \in VRegsOf(mf) /\ Succs(mf, pc) = {pc + 1} /\ DOMAIN mf = 1 .. Len(mf) /\ Len(mf) \in Nat
  BY <1>1, HereFacts, LinearScanAssumption DEF Computing
<1>3. PICK np \in 0 .. Len(mf) : \A j \in DOMAIN mf : mf[j].op = "param" <=> j =< np
  BY <1>2, ParamsAreAPrefix DEF XInv
<1>4. pc \in 1 .. np /\ Cardinality(ParamsUpTo(pc)) = pc
  <2>1. pc \in 1 .. np
    BY <1>1, <1>2, <1>3
  <2> QED BY <1>2, <1>3, <2>1, ParamMovesAre
<1>5. /\ DOMAIN regs' = Regs
      /\ \A k \in DOMAIN mf : mf[k].op = "param" => regs'[Home(mf[k].def)] = ArgOf(k)
  <2>1. CASE pc = 1
    <3>1. regs' = AfterMoves(regs, Emitted(ParamMoves))
      BY <1>1, <1>4, <2>1 DEF ParamBlock
    <3> QED BY <1>1, <2>1, <3>1, ArgumentsPlaced
  <2>2. CASE pc # 1
    <3>1. regs' = regs
      BY <1>1, <1>4, <2>2 DEF ParamBlock
    <3> QED BY <1>1, <1>2, <2>2, <3>1 DEF XInv, Meaning, RunMeans, ParamsPlaced
  <2> QED BY <2>1, <2>2
<1>6. pc' \in Succs(mf, pc) /\ DOMAIN env' = DOMAIN env
  BY <1>1, <1>2
<1>7. regs'[Home(mf[pc].def)] = env'[mf[pc].def]
  BY <1>1, <1>2, <1>5
<1>8. ASSUME NEW iv \in intervals, iv.vreg \notin Unset(mf)[pc'], pc' < iv.end, iv.vreg # mf[pc].def
      PROVE  regs'[Home(iv.vreg)] = env'[iv.vreg]
  <2>1. iv.vreg \notin Unset(mf)[pc] /\ regs[Home(iv.vreg)] = env[iv.vreg]
    BY <1>1, <1>6, <1>8, OthersAgree
  <2>2. pc # 1
    <3>1. \E j \in 1 .. pc - 1 : mf[j].def = iv.vreg
      BY <1>1, <1>2, <2>1, SetIsBegun, HereFacts DEF XInv
    <3> QED BY <3>1
  <2>3. regs' = regs
    BY <1>1, <1>4, <2>2 DEF ParamBlock
  <2>4. env'[iv.vreg] = env[iv.vreg]
    <3>1. iv.vreg \in VRegsOf(mf)
      BY <1>1, HereFacts, HomesApart
    <3> QED BY <1>1, <1>2, <1>8, <3>1
  <2> QED BY <2>1, <2>3, <2>4
<1>9. Agree'
  BY <1>1, <1>6, <1>7, <1>8, StepAgrees
<1>10. ParamsPlaced'
  <2>1. pc' # 1
    BY <1>1, <1>4
  <2>2. mf' = mf /\ assignment' = assignment
    BY <1>1 DEF rvars
  <2> QED BY <1>5, <2>1, <2>2 DEF ParamsPlaced, ArgOf, Home
<1>11. Passed'
  BY <1>1 DEF XInv, Meaning, Passed
<1> QED BY <1>9, <1>10, <1>11 DEF Meaning, RunMeans

(* A call destroys what the callee does not save; what lives across it is      *)
(* saved (ExecEncoder.cpp:510-565).                                            *)
LEMMA CallStep ==
  ASSUME XInv, CallFn
  PROVE  Meaning'
<1>0. BInv
  BY DEF XInv
<1> USE <1>0
<1> DEFINE u == mf[pc].uses
           r == AfterMoves(regs, Emitted(CallMoves(u)))
           d == Home(mf[pc].def)
<1>1. /\ stage = "run" /\ mf[pc].op = "call" /\ pc' = pc + 1
      /\ handed' = [want |-> [k \in DOMAIN u |-> env[u[k]]], got |-> [k \in DOMAIN u |-> r[ArgRegs[k]]]]
      /\ regs' = [q \in DOMAIN r |-> IF q = d THEN Made ELSE IF q \in Saved THEN r[q] ELSE Junk]
      /\ env' = [env EXCEPT ![mf[pc].def] = Made]
      /\ UNCHANGED <<rvars, stage, phase, stack>>
  BY DEF CallFn, At, NextInstr, Goto
<1>2. /\ mf \in Functions /\ AllocFacts /\ todo = {} /\ Encodable /\ pc \in DOMAIN mf /\ pc \in Nat
      /\ DOMAIN env = VRegsOf(mf) /\ mf[pc].def \in VRegsOf(mf) /\ Succs(mf, pc) = {pc + 1} /\ d \in Regs
      /\ intervals = Intervals(mf)
  BY <1>1, HereFacts DEF Computing
<1>3. DOMAIN r = Regs /\ (\A k \in DOMAIN u : r[ArgRegs[k]] = env[u[k]]) /\ \A q \in Saved : r[q] = regs[q]
  BY <1>1, CallMovesArrive
<1> HIDE DEF r
<1>4. /\ DOMAIN regs' = Regs /\ regs'[d] = Made
      /\ \A q \in Saved : q # d => regs'[q] = regs[q]
  <2>1. Saved \subseteq Regs
    BY ArgRegsHold
  <2> HIDE DEF d
  <2> QED BY <1>1, <1>2, <1>3, <2>1
<1>5. Passed'
  BY <1>1, <1>3 DEF Passed
<1>6. pc' \in Succs(mf, pc) /\ DOMAIN env' = DOMAIN env /\ env'[mf[pc].def] = Made
  BY <1>1, <1>2
<1>7. spills = 0
  <2>1. spilled \subseteq VRegsOf(mf) /\ \A v \in VRegsOf(mf) : v \notin spilled
    BY <1>2 DEF BInv, TypeOK, Encodable, HomesKnown
  <2>2. spilled = {}
    BY <2>1
  <2> QED BY <1>2, <2>2, FS_EmptySet DEF AllocFacts, CountInv
<1>8. ASSUME NEW iv \in intervals, iv.vreg \notin Unset(mf)[pc'], pc' < iv.end, iv.vreg # mf[pc].def
      PROVE  regs'[Home(iv.vreg)] = env'[iv.vreg]
  <2>1. /\ regs[Home(iv.vreg)] = env[iv.vreg] /\ iv.start < pc
        /\ Home(iv.vreg) # d
    BY <1>1, <1>6, <1>8, OthersAgree, HereFacts DEF Computing
  <2>2. iv.vreg \in VRegsOf(mf) /\ iv.end \in Nat
    BY <1>2, HomesApart
  <2>3. SpansCall(mf, iv.start, iv.end - 1)
    BY <1>1, <1>2, <1>8, <2>1, <2>2 DEF SpansCall
  <2>4. iv.spansCall
    BY <1>2, <2>3 DEF AllocFacts, SpansKnown
  <2>5. Home(iv.vreg) >= CalleeSavedFrom
    BY <1>2, <1>7, <2>4 DEF AllocFacts, FloorKept, Placed, Home
  <2>6. Home(iv.vreg) \in Saved
    <3>1. Home(iv.vreg) \in 0 .. NumGpr - 1
      BY <1>2, <2>2 DEF Encodable, HomesKnown, Homes, PRegs
    <3> QED BY <2>5, <3>1, LinearScanAssumption DEF Saved
  <2>7. regs'[Home(iv.vreg)] = regs[Home(iv.vreg)]
    BY <1>4, <2>1, <2>6
  <2>8. env'[iv.vreg] = env[iv.vreg]
    BY <1>1, <1>2, <1>8, <2>2
  <2> QED BY <2>1, <2>7, <2>8
<1>9. Agree'
  BY <1>1, <1>4, <1>6, <1>8, StepAgrees
<1>10. ParamsPlaced'
  <2>1. mf[pc'].op # "param"
    BY <1>1, <1>2, <1>6, NoParamAfter DEF XInv, Computing
  <2> QED BY <1>1, <2>1 DEF ParamsPlaced, rvars
<1> QED BY <1>5, <1>9, <1>10 DEF Meaning, RunMeans

(* Control goes on without a result.                                           *)
LEMMA ControlStep ==
  ASSUME XInv, stage = "run", mf[pc].op \in {"label", "jmp", "jz"}, pc' \in Succs(mf, pc),
         UNCHANGED <<rvars, stage, env, regs, stack, handed>>
  PROVE  Meaning'
<1>0. BInv
  BY DEF XInv
<1> USE <1>0
<1>1. mf[pc].def = NoVReg /\ DOMAIN regs = Regs /\ mf \in Functions /\ pc \in DOMAIN mf
  BY HereFacts DEF Computing
<1>2. ASSUME NEW iv \in intervals, iv.vreg \notin Unset(mf)[pc'], pc' < iv.end, iv.vreg # mf[pc].def
      PROVE  regs'[Home(iv.vreg)] = env'[iv.vreg]
  BY <1>2, OthersAgree
<1>3. Agree'
  BY <1>1, <1>2, StepAgrees
<1>4. ParamsPlaced'
  <2>1. mf[pc'].op # "param"
    BY <1>1, NoParamAfter DEF XInv
  <2> QED BY <2>1 DEF ParamsPlaced, rvars
<1>5. Passed'
  BY DEF XInv, Meaning, Passed
<1> QED BY <1>3, <1>4, <1>5 DEF Meaning, RunMeans

(* A jump's target stands in the code, or it would not have been encoded.      *)
LEMMA TargetStands ==
  ASSUME BInv, stage = "run", mf[pc].op \in {"jmp", "jz"}
  PROVE  LabelAt(mf[pc].imm) \in Succs(mf, pc)
<1>1. \E l \in DOMAIN mf : mf[l].op = "label" /\ mf[l].imm = mf[pc].imm
  BY HereFacts DEF Encodable, LabelsPlaced
<1>2. LabelAt(mf[pc].imm) \in Targets(mf, pc)
  BY <1>1 DEF LabelAt, Targets
<1> QED BY <1>2 DEF Succs

(* Labels and jumps lead to a successor and leave everything where it is.      *)
LEMMA JumpsGo ==
  ASSUME BInv, Label \/ Jmp \/ Jz
  PROVE  /\ stage = "run" /\ mf[pc].op \in {"label", "jmp", "jz"} /\ pc' \in Succs(mf, pc) /\ phase' \in 0 .. 1
         /\ UNCHANGED <<rvars, stage, env, regs, stack, handed>>
<1>0. phase \in 0 .. 1
  BY DEF BInv, TypeOK
<1>1. CASE Label
  BY <1>0, <1>1 DEF Label, At, NextInstr, Goto, Succs
<1>2. CASE Jmp
  BY <1>0, <1>2, TargetStands DEF Jmp, At, Goto
<1>3. CASE Jz
  <2>1. stage = "run" /\ mf[pc].op = "jz" /\ (pc' = LabelAt(mf[pc].imm) \/ pc' = pc + 1)
        /\ UNCHANGED <<rvars, stage, phase, env, regs, stack, handed>>
    BY <1>3 DEF Jz, At, Goto, NextInstr
  <2>2. pc + 1 \in Succs(mf, pc)
    BY <2>1 DEF Succs
  <2> QED BY <1>0, <2>1, <2>2, TargetStands
<1> QED BY <1>1, <1>2, <1>3

(* A return hands over the value it was given.                                 *)
LEMMA RetStep ==
  ASSUME XInv, Ret
  PROVE  Meaning'
<1>0. BInv
  BY DEF XInv
<1> DEFINE v == mf[pc].uses[1]
<1>1. /\ stage = "run" /\ mf[pc].op = "ret" /\ stage' = "returned"
      /\ handed' = [want |-> <<env[v]>>, got |-> <<regs[Home(v)]>>]
  BY DEF Ret, At
<1>2. 1 \in DOMAIN mf[pc].uses
  BY <1>0, <1>1, HereFacts, SelectorAssumption DEF WellTyped
<1>3. regs[Home(v)] = env[v]
  BY <1>1, <1>2, OperandsAgree
<1> QED BY <1>1, <1>3 DEF Meaning, RunMeans, Passed

(* Before the first instruction no value is set: the meaning holds from there. *)
LEMMA EncodeStep ==
  ASSUME XInv, Encode
  PROVE  Meaning'
<1>1. UNCHANGED <<rvars, pc, phase, env, regs, handed>> /\ pc = 1 /\ regs = Entered
  BY DEF Encode, XInv, BInv, Entering
<1>2. ParamsPlaced'
  BY <1>1 DEF ParamsPlaced
<1>3. ASSUME NEW iv \in intervals PROVE iv.vreg \in Unset(mf)[1]
  <2>1. mf \in Functions /\ Conforming(mf) /\ 1 \in DOMAIN mf /\ iv \in Intervals(mf)
    BY <1>1 DEF XInv, BInv, AllocFacts, TypeOK, SpansKnown
  <2>2. ~ \E j \in 1 .. 1 - 1 : mf[j].def = iv.vreg
    OBVIOUS
  <2> QED BY <2>1, <2>2, SetIsBegun
<1>4. Agree'
  BY <1>1, <1>3 DEF Agree, rvars
<1>5. Passed'
  BY <1>1 DEF XInv, Meaning, Passed
<1> QED BY <1>2, <1>4, <1>5 DEF Meaning, RunMeans

-----------------------------------------------------------------------------
(* The registers and ends of active entries stay in range, and so do the homes.*)
InRange ==
  /\ \A e \in active : e.vreg \in VRegsOf(mf) /\ e.preg \in PRegs /\ e.end \in 2 .. Len(mf) + 1
  /\ assignment \in [VRegsOf(mf) -> PRegs \cup {NoPReg}]
  /\ spilled \subseteq VRegsOf(mf)

(* Placing an interval, with or without a spill, uses registers of the file.   *)
LEMMA PlaceInRange ==
  ASSUME AllocFacts, InRange, Place
  PROVE  InRange'
<1>1. mf' = mf
  BY DEF Place, TakeFree, Steal, SpillNew
<1> DEFINE VR == VRegsOf(mf)
           Ends == 2 .. Len(mf) + 1
<1>2. PICK iv \in todo : TakeFree(iv) \/ Steal(iv) \/ SpillNew(iv)
  BY DEF Place
<1>3. iv.vreg \in VR /\ iv.end \in Ends
  <2>1. iv \in Intervals(mf) /\ mf \in Functions
    BY DEF AllocFacts, AllocInv, Typed, SpansKnown
  <2>2. iv.vreg \in VR /\ Spans(mf, iv, iv.vreg) /\ iv.end \in Nat
    BY <2>1, AllSpan, IntervalsTyped DEF IntervalType
  <2>3. iv.end - 1 \in 1 .. Len(mf) /\ Len(mf) \in Nat
    BY <2>1, <2>2, LinearScanAssumption DEF Spans
  <2> QED BY <2>2, <2>3
<1> HIDE DEF VR, Ends
<1>4. \A e \in Expire(iv) : e.vreg \in VR /\ e.preg \in PRegs /\ e.end \in Ends
  BY DEF InRange, Expire, VR, Ends
<1>5. assignment \in [VR -> PRegs \cup {NoPReg}] /\ spilled \subseteq VR
  BY DEF InRange, VR
<1>6. ASSUME NEW p, Entry(iv, p).preg \notin PRegs \/ Entry(iv, p).vreg \notin VR \/ Entry(iv, p).end \notin Ends
      PROVE  p \notin PRegs
  BY <1>3, <1>6 DEF Entry
<1>7. ASSUME TakeFree(iv)
      PROVE  /\ \A e \in active' : e.vreg \in VR /\ e.preg \in PRegs /\ e.end \in Ends
             /\ assignment' \in [VR -> PRegs \cup {NoPReg}] /\ spilled' \subseteq VR
  <2>1. PICK p \in Free(iv) : /\ assignment' = [assignment EXCEPT ![iv.vreg] = p]
                              /\ active' = Expire(iv) \cup {Entry(iv, p)}
    BY <1>7 DEF TakeFree
  <2>2. p \in PRegs
    BY DEF Free
  <2>3. spilled' = spilled
    BY <1>7 DEF TakeFree
  <2> QED BY <1>3, <1>4, <1>5, <1>6, <2>1, <2>2, <2>3
<1>8. ASSUME Steal(iv)
      PROVE  /\ \A e \in active' : e.vreg \in VR /\ e.preg \in PRegs /\ e.end \in Ends
             /\ assignment' \in [VR -> PRegs \cup {NoPReg}] /\ spilled' \subseteq VR
  <2>1. PICK e \in Furthest(iv) : /\ spilled' = spilled \cup {e.vreg}
                                  /\ assignment' = [assignment EXCEPT ![iv.vreg] = e.preg]
                                  /\ active' = (Expire(iv) \ {e}) \cup {Entry(iv, e.preg)}
    BY <1>8 DEF Steal
  <2>2. e \in Expire(iv)
    BY DEF Furthest
  <2> QED BY <1>3, <1>4, <1>5, <1>6, <2>1, <2>2
<1>9. ASSUME SpillNew(iv)
      PROVE  /\ \A e \in active' : e.vreg \in VR /\ e.preg \in PRegs /\ e.end \in Ends
             /\ assignment' \in [VR -> PRegs \cup {NoPReg}] /\ spilled' \subseteq VR
  <2>1. /\ spilled' = spilled \cup {iv.vreg} /\ active' = Expire(iv)
        /\ assignment' = [assignment EXCEPT ![iv.vreg] = NoPReg]
    BY <1>9 DEF SpillNew
  <2> QED BY <1>3, <1>4, <1>5, <2>1
<1>10. /\ \A e \in active' : e.vreg \in VR /\ e.preg \in PRegs /\ e.end \in Ends
       /\ assignment' \in [VR -> PRegs \cup {NoPReg}] /\ spilled' \subseteq VR
  BY <1>2, <1>7, <1>8, <1>9
<1> QED BY <1>1, <1>10 DEF InRange, VR, Ends

(* The allocator's steps, before any code runs.                                *)
LEMMA AllocateStep ==
  ASSUME BInv, Allocate
  PROVE  BInv'
<1>1. stage = "allocate" /\ Place /\ UNCHANGED <<stage, pc, phase, env, regs, stack, handed>>
  BY DEF Allocate
<1>2. AllocFacts' /\ mf' = mf
  BY <1>1, AllocFactsKept DEF BInv, Place, TakeFree, Steal, SpillNew
<1>3. InRange'
  BY <1>1, PlaceInRange DEF BInv, TypeOK, InRange
<1>4. todo' \subseteq intervals' /\ spills' \in Nat
  BY <1>2 DEF AllocFacts, AllocInv, Typed, CountInv
<1>5. TypeOK'
  BY <1>1, <1>2, <1>3, <1>4 DEF BInv, TypeOK, InRange
<1>6. Entering' /\ Running' /\ SavedRestored'
  BY <1>1 DEF Entering, Running, SavedRestored, BInv
<1> QED BY <1>2, <1>5, <1>6 DEF BInv

(* The prologue pushes the callee-saved homes as the function was entered.     *)
LEMMA EncodeBase ==
  ASSUME BInv, Encode
  PROVE  BInv'
<1>1. /\ stage = "allocate" /\ todo = {} /\ stage' \in {"run", "rejected"}
      /\ UNCHANGED <<rvars, pc, phase, env, regs, handed>>
      /\ pc = 1 /\ regs = Entered
  BY DEF Encode, BInv, Entering
<1>2. AllocFacts'
  BY <1>1, AllocFactsKept DEF BInv
<1>3. TypeOK'
  BY <1>1 DEF BInv, TypeOK, rvars
<1>4. Entering' /\ SavedRestored'
  BY <1>1 DEF Entering, SavedRestored
<1>5. ASSUME stage' = "run" PROVE todo' = {} /\ Encodable' /\ Pushed'
  <2>1. Encodable /\ stack' = [k \in 1 .. Cardinality(Saved) |-> regs[CalleeSavedFrom + k - 1]]
    BY <1>5 DEF Encode
  <2>2. Encodable'
    BY <1>1, <2>1, EncodableKept
  <2>3. Pushed'
    BY <1>1, <2>1 DEF Pushed
  <2> QED BY <1>1, <2>2, <2>3 DEF rvars
<1>6. Running'
  BY <1>5 DEF Running
<1> QED BY <1>2, <1>3, <1>4, <1>6 DEF BInv

(* Moves write registers and add none.                                         *)
LEMMA MovesKeepDomain ==
  ASSUME NEW r, NEW moves, Len(moves) \in Nat
  PROVE  DOMAIN AfterMoves(r, moves) = DOMAIN r
<1> DEFINE n == Len(moves)
           a == AfterEach(r, moves)
           T == {k \in Nat : k =< n => DOMAIN a[k] = DOMAIN r}
<1>1. a[0] = r /\ \A k \in 0 .. n - 1 : a[k + 1] = MovRR(a[k], moves[k + 1])
  BY MovesInTurn
<1> HIDE DEF a
<1>2. 0 \in T
  BY <1>1
<1>3. ASSUME NEW k \in Nat, k \in T PROVE k + 1 \in T
  <2> SUFFICES ASSUME k + 1 =< n PROVE DOMAIN a[k + 1] = DOMAIN r
    OBVIOUS
  <2>1. k \in 0 .. n - 1 /\ DOMAIN a[k] = DOMAIN r
    BY <1>3
  <2>2. a[k + 1] = MovRR(a[k], moves[k + 1])
    BY <1>1, <2>1
  <2> QED BY <2>1, <2>2 DEF MovRR
<1>4. n \in T
  <2> HIDE DEF T
  <2> QED BY <1>2, <1>3, NatSetInduction
<1> QED BY <1>4 DEF AfterMoves, a

(* Whatever the moves, finitely many are emitted for finitely many.            *)
LEMMA EmittedIsFinite ==
  ASSUME NEW n \in Nat, NEW moves, DOMAIN moves = 1 .. n
  PROVE  Len(Emitted(moves)) \in Nat
<1> DEFINE st == Staged(moves)
           first == <<[src |-> moves[1].src, dst |-> Rax]>>
           s == Ordered(st)
<1>1. DOMAIN st = 1 .. n
  BY DEF Staged
<1>2. DOMAIN Ordered(moves) = 1 .. n /\ DOMAIN s = 1 .. n
  BY <1>1 DEF Ordered
<1>3. Len(Ordered(moves)) = n
  BY <1>2
<1>4. s \in Seq({s[k] : k \in 1 .. n})
  <2>1. s = [k \in 1 .. n |-> s[k]]
    BY <1>2 DEF Ordered
  <2> HIDE DEF s
  <2> QED BY <2>1
<1>5. Len(first \o s) \in Nat
  <2> DEFINE S == {s[k] : k \in 1 .. n} \cup {first[1]}
  <2>1. first \in Seq(S) /\ s \in Seq(S)
    BY <1>4
  <2> HIDE DEF S, s, first
  <2> QED BY <2>1
<1> QED BY <1>3, <1>5 DEF Emitted

(* An instruction that computes a value writes registers that there are.       *)
LEMMA ComputingBase ==
  ASSUME BInv, Param \/ Operate \/ Mov \/ CallFn
  PROVE  BInv'
<1>1. stage = "run" /\ mf[pc].op \in Computing
  BY DEF Param, Operate, Mov, CallFn, At, Computing
<1>2. UNCHANGED <<rvars, stage, stack>> /\ pc' = pc + 1 /\ phase' = phase /\ DOMAIN env' = DOMAIN env
  BY DEF Param, Operate, Mov, CallFn, NextInstr, Goto
<1>3. DOMAIN regs = Regs /\ pc' \in Succs(mf, pc) /\ DOMAIN mf[pc].uses = 1 .. Len(mf[pc].uses)
      /\ Len(mf[pc].uses) \in Nat /\ mf \in Functions
  BY <1>1, <1>2, HereFacts
<1>4. CASE Param
  <2>1. Len(Emitted(ParamMoves)) \in Nat
    <3>1. ParamsUpTo(Len(mf)) \subseteq 1 .. Len(mf) /\ Len(mf) \in Nat
      BY <1>3, LinearScanAssumption DEF ParamsUpTo
    <3>2. Cardinality(ParamsUpTo(Len(mf))) \in Nat
      <4>1. IsFiniteSet(1 .. Len(mf))
        <5>1. 1 \in Int /\ Len(mf) \in Int
          BY <3>1
        <5> QED BY ONLY <5>1, FS_Interval, Zenon
      <4>2. IsFiniteSet(ParamsUpTo(Len(mf)))
        BY <3>1, <4>1, FS_Subset, Zenon
      <4> QED BY <4>2, FS_CardinalityType, Zenon
    <3>3. DOMAIN ParamMoves = 1 .. Cardinality(ParamsUpTo(Len(mf)))
      BY DEF ParamMoves
    <3> QED BY <3>2, <3>3, EmittedIsFinite
  <2>2. DOMAIN AfterMoves(regs, Emitted(ParamMoves)) = DOMAIN regs
    BY <2>1, MovesKeepDomain
  <2>3. DOMAIN regs' = Regs
    BY <1>3, <1>4, <2>2 DEF Param, ParamBlock
  <2> QED BY <1>1, <1>2, <1>3, <2>3, RunKeepsBase DEF BInv, TypeOK
<1>5. CASE Operate
  <2>1. DOMAIN TwoOperand = DOMAIN regs
    BY DEF TwoOperand
  <2>2. \A scratch : DOMAIN ThroughRax(scratch) = DOMAIN regs
    BY DEF ThroughRax
  <2>3. DOMAIN regs' = Regs
    BY <1>3, <1>5, <2>1, <2>2 DEF Operate
  <2> QED BY <1>1, <1>2, <1>3, <2>3, RunKeepsBase DEF BInv, TypeOK
<1>6. CASE Mov
  <2>1. DOMAIN regs' = Regs
    BY <1>3, <1>6 DEF Mov
  <2> QED BY <1>1, <1>2, <1>3, <2>1, RunKeepsBase DEF BInv, TypeOK
<1>7. CASE CallFn
  <2>1. Len(Emitted(CallMoves(mf[pc].uses))) \in Nat
    <3>1. DOMAIN CallMoves(mf[pc].uses) = 1 .. Len(mf[pc].uses)
      BY <1>3 DEF CallMoves
    <3> QED BY <1>3, <3>1, EmittedIsFinite
  <2>2. DOMAIN AfterMoves(regs, Emitted(CallMoves(mf[pc].uses))) = DOMAIN regs
    BY <2>1, MovesKeepDomain
  <2>3. DOMAIN regs' = Regs
    BY <1>3, <1>7, <2>2 DEF CallFn
  <2> QED BY <1>1, <1>2, <1>3, <2>3, RunKeepsBase DEF BInv, TypeOK
<1> QED BY <1>4, <1>5, <1>6, <1>7

(* A return pops what the prologue pushed, in the reverse order                *)
(* (ExecEncoder.cpp:285-287, 377-379).                                         *)
LEMMA RetBase ==
  ASSUME BInv, Ret
  PROVE  BInv'
<1> DEFINE v == mf[pc].uses[1]
<1>1. /\ stage = "run" /\ stage' = "returned"
      /\ regs' = [r \in DOMAIN regs |-> IF r = Rax THEN regs[Home(v)]
                                        ELSE IF r \in Saved THEN Popped(r - CalleeSavedFrom + 1)
                                        ELSE regs[r]]
      /\ UNCHANGED <<rvars, pc, phase, env, stack>>
  BY DEF Ret, At
<1>2. DOMAIN regs = Regs
  BY <1>1, HereFacts
<1>3. ASSUME NEW r \in Saved PROVE regs'[r] = Entered[r]
  <2>1. r \in Regs \ {Rax} /\ CalleeSavedFrom \in Nat /\ NumGpr \in Nat /\ r \in CalleeSavedFrom .. NumGpr - 1
    BY ArgRegsHold DEF Saved
  <2>2. regs'[r] = stack[r - CalleeSavedFrom + 1]
    BY <1>1, <1>2, <2>1 DEF Popped
  <2>3. Cardinality(Saved) = NumGpr - CalleeSavedFrom
    <3>1. CalleeSavedFrom \in Int /\ NumGpr - 1 \in Int
      BY <2>1
    <3>2. Cardinality(CalleeSavedFrom .. NumGpr - 1)
            = IF CalleeSavedFrom > NumGpr - 1 THEN 0 ELSE (NumGpr - 1) - CalleeSavedFrom + 1
      BY ONLY <3>1, FS_Interval, Zenon
    <3> QED BY <2>1, <3>2 DEF Saved
  <2>4. r - CalleeSavedFrom + 1 \in 1 .. Cardinality(Saved)
        /\ CalleeSavedFrom + (r - CalleeSavedFrom + 1) - 1 = r
    BY <2>1, <2>3
  <2>5. stack = [k \in 1 .. Cardinality(Saved) |-> Entered[CalleeSavedFrom + k - 1]]
    BY <1>1 DEF BInv, Running, Pushed
  <2> QED BY <2>2, <2>4, <2>5
<1>4. SavedRestored'
  <2>1. Saved' = Saved /\ \A r \in Saved : Entered[r]' = Entered[r]
    BY DEF Saved, Entered
  <2> QED BY <1>3, <2>1 DEF SavedRestored
<1>5. AllocFacts'
  BY <1>1, AllocFactsKept DEF BInv
<1>6. TypeOK'
  <2>1. DOMAIN regs' = DOMAIN regs
    BY <1>1
  <2> QED BY <1>1, <2>1 DEF BInv, TypeOK, rvars
<1>7. Entering' /\ Running'
  BY <1>1 DEF Entering, Running
<1> QED BY <1>4, <1>5, <1>6, <1>7 DEF BInv

(* Before the first placement: every vreg stands in register 0, as the         *)
(* allocator's vector is filled, and the code at its entry.                    *)
LEMMA InitStep == Init => BInv /\ Meaning
<1> SUFFICES ASSUME Init PROVE BInv /\ Meaning
  OBVIOUS
<1>1. /\ AllocInit /\ stage = "allocate" /\ pc = 1 /\ phase = 0 /\ regs = Entered
      /\ env = [v \in VRegsOf(mf) |-> Junk] /\ handed = [want |-> << >>, got |-> << >>]
  BY DEF Init
<1>2. AllocFacts
  BY <1>1, AllocInitially, CountInitially, SpansSteps DEF AllocFacts, AllocInit
<1>3. TypeOK
  <2>1. /\ mf \in Functions /\ todo = intervals /\ active = {} /\ spilled = {} /\ spills = 0
        /\ assignment = [v \in VRegsOf(mf) |-> 0]
    BY <1>1 DEF AllocInit
  <2>2. 0 \in PRegs
    BY EncoderAssumption, LinearScanAssumption DEF PRegs
  <2>3. pc \in DOMAIN mf
    <3>1. mf # << >> /\ Len(mf) \in Nat /\ DOMAIN mf = 1 .. Len(mf)
      BY <2>1, SelectorAssumption, LinearScanAssumption DEF WellTyped
    <3> QED BY <1>1, <3>1
  <2>4. DOMAIN regs = 0 .. NumGpr + 1 /\ DOMAIN env = VRegsOf(mf)
    BY <1>1 DEF Entered
  <2> QED BY <1>1, <2>1, <2>2, <2>3, <2>4 DEF TypeOK
<1>4. Entering /\ Running /\ SavedRestored /\ Meaning
  BY <1>1 DEF Entering, Running, SavedRestored, Meaning, RunMeans, Passed
<1> QED BY <1>2, <1>3, <1>4 DEF BInv

(* Every step of the allocator and of the emitted code keeps what holds of     *)
(* every function.                                                             *)
LEMMA BInvKept == BInv /\ [Next]_xvars => BInv'
<1> SUFFICES ASSUME BInv, [Next]_xvars PROVE BInv'
  OBVIOUS
<1>1. CASE UNCHANGED xvars
  <2>1. AllocFacts'
    BY <1>1, AllocFactsKept DEF BInv, xvars
  <2>2. TypeOK' /\ Entering' /\ SavedRestored'
    BY <1>1 DEF xvars, rvars, BInv, TypeOK, Entering, SavedRestored
  <2>3. Running'
    BY <1>1, EncodableKept DEF BInv, Running, Pushed, xvars, rvars
  <2> QED BY <2>1, <2>2, <2>3 DEF BInv
<1>2. CASE Label \/ Jmp \/ Jz
  <2>1. DOMAIN regs = Regs
    BY <1>2, JumpsGo, HereFacts
  <2> QED BY <1>2, <2>1, JumpsGo, RunKeepsBase
<1> QED
  BY <1>1, <1>2, AllocateStep, EncodeBase, ComputingBase, RetBase DEF Next

(* In a conforming function every step keeps the meaning.                      *)
LEMMA MeaningKept == XInv /\ [Next]_xvars => Meaning'
<1> SUFFICES ASSUME XInv, [Next]_xvars PROVE Meaning'
  OBVIOUS
<1>1. CASE UNCHANGED xvars
  <2>1. Agree => Agree'
    BY <1>1 DEF xvars, rvars, Agree, Home
  <2>2. ASSUME ParamsPlaced PROVE ParamsPlaced'
    <3>1. mf' = mf /\ pc' = pc /\ regs' = regs /\ assignment' = assignment
      BY <1>1 DEF xvars, rvars
    <3>2. pc' = 1 => (mf'[pc'].op = "param" => regs' = Entered)
      BY <2>2, <3>1 DEF ParamsPlaced
    <3>3. ASSUME mf'[pc'].op = "param", pc' # 1, NEW k \in DOMAIN mf', mf'[k].op = "param"
          PROVE  regs'[Home(mf[k].def)] = ArgOf(k)
      <4>1. mf[pc].op = "param" /\ pc # 1 /\ k \in DOMAIN mf /\ mf[k].op = "param"
        BY <3>1, <3>3
      <4>2. regs[Home(mf[k].def)] = ArgOf(k)
        BY <2>2, <4>1 DEF ParamsPlaced
      <4> QED BY <3>1, <4>2
    <3>4. Entered' = Entered /\ \A k \in DOMAIN mf : Home(mf[k].def)' = Home(mf[k].def) /\ ArgOf(k)' = ArgOf(k)
      BY <3>1 DEF Home, ArgOf, Entered
    <3> QED BY <3>1, <3>2, <3>3, <3>4 DEF ParamsPlaced
  <2>3. Passed' /\ stage' = stage
    BY <1>1 DEF xvars, XInv, Meaning, Passed
  <2> QED BY <2>1, <2>2, <2>3 DEF XInv, Meaning, RunMeans
<1>2. CASE Allocate
  BY <1>2 DEF Allocate, XInv, Meaning, RunMeans, Passed
<1>3. CASE Label \/ Jmp \/ Jz
  BY <1>3, JumpsGo, ControlStep DEF XInv
<1> QED
  BY <1>1, <1>2, <1>3, EncodeStep, ParamStep, OperateStep, MovStep, CallStep, RetStep DEF Next

(* The function stays the one it was.                                          *)
LEMMA FunctionStays == [Next]_xvars => mf' = mf
BY DEF Next, xvars, rvars, Allocate, Place, TakeFree, Steal, SpillNew, Encode, Param, Operate, Mov, CallFn, Label, Jmp,
       Jz, Ret

(* The inductive invariant of the encoded code.                                *)
LEMMA InvariantsHold == Spec => []BInv /\ [](Conforming(mf) => Meaning)
<1> DEFINE IInv == BInv /\ (Conforming(mf) => Meaning)
<1>1. Init => IInv
  BY InitStep
<1>2. IInv /\ [Next]_xvars => IInv'
  <2> SUFFICES ASSUME IInv, [Next]_xvars PROVE IInv'
    OBVIOUS
  <2>1. BInv'
    BY BInvKept
  <2>2. ASSUME Conforming(mf) PROVE Meaning'
    BY <2>2, MeaningKept DEF XInv
  <2>3. Conforming(mf)' => Conforming(mf)
    BY FunctionStays
  <2> QED BY <2>1, <2>2, <2>3
<1>3. IInv => BInv /\ (Conforming(mf) => Meaning)
  OBVIOUS
<1> HIDE DEF IInv
<1> QED BY <1>1, <1>2, <1>3, PTL DEF Spec

-----------------------------------------------------------------------------
(* Whatever function the selector gives, conforming or not, the allocator      *)
(* assigns registers of its file and the code stays inside the function it     *)
(* encodes (LinearScan.cpp:137-183, ExecEncoder.cpp:312-318).                  *)
THEOREM TypeCorrect == Spec => []TypeOK
<1>1. BInv => TypeOK
  BY DEF BInv
<1> QED BY <1>1, InvariantsHold, PTL

(* In a function whose parameters come first and are read, and that assigns    *)
(* every vreg before it reads it, each instruction of the emitted code reads   *)
(* in its operands' homes the values the function computed: no loop, call, RAX *)
(* or RDX sequence, or parameter move comes between (encode_one,               *)
(* ExecEncoder.cpp:312-599).                                                   *)
THEOREM UsesReadTheirDefsHolds == Spec => []UsesReadTheirDefs
<1>1. BInv /\ (Conforming(mf) => Meaning) => UsesReadTheirDefs
  BY OperandsAgree DEF UsesReadTheirDefs, XInv
<1> QED BY <1>1, InvariantsHold, PTL

(* In such a function arguments reach the argument registers of a call, and    *)
(* results RAX, out of whatever homes they had (encode_one's ordering loop,    *)
(* ExecEncoder.cpp:514-557).                                                   *)
THEOREM ArgumentsArriveHolds == Spec => []ArgumentsArrive
<1>1. (Conforming(mf) => Meaning) => ArgumentsArrive
  BY DEF Meaning, Passed, ArgumentsArrive
<1> QED BY <1>1, InvariantsHold, PTL

(* Whatever function the selector gives, conforming or not, a return leaves    *)
(* every callee-saved register as the caller had it (prologue and epilogue,    *)
(* ExecEncoder.cpp:285-287, 377-379).                                          *)
THEOREM SavedRestoredHolds == Spec => []SavedRestored
<1>1. BInv => SavedRestored
  BY DEF BInv
<1> QED BY <1>1, InvariantsHold, PTL
=============================================================================
