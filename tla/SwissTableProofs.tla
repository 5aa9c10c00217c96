-------------------------- MODULE SwissTableProofs --------------------------
(***************************************************************************)
(* SwissTable for every set of keys and values, every hash and every       *)
(* capacity: no key in two slots, no probe path broken, room left at every *)
(* load, and the table is a map.  Sound is the invariant of one table;     *)
(* inserting, erasing and rehashing each keep it.                          *)
(***************************************************************************)
EXTENDS SwissTable, FiniteSetTheorems, WellFoundedInduction, TLAPS

Slot == {Empty, Deleted} \cup [ctrl : {"live"}, key : Keys, val : Vals]
Table(c) == [0..(c - 1) -> Slot]

NoTwin(t) == \A i, j \in LiveAt(t) : t[i].key = t[j].key => i = j

\* Probing for k, p is met before any EMPTY slot.
Reached(t, c, p, k) ==
  \E n \in 0..(c - 1) : /\ Probe(c, k, n) = p
                        /\ \A m \in 0..(n - 1) : t[Probe(c, k, m)] # Empty

Sound(t, c) ==
  /\ t \in Table(c)
  /\ NoTwin(t)
  /\ \A p \in LiveAt(t) : Reached(t, c, p, t[p].key)

\* The entries of a table, as a set of pairs.
Entries(t) == {<<t[i].key, t[i].val>> : i \in LiveAt(t)}

-----------------------------------------------------------------------------
(* Induction and least elements, from the well-foundedness of < on Nat.    *)

\* A set of naturals that holds 0 and the successor of each member holds all
\* (the loops over slots and probes run upwards from 0).
LEMMA NatSetInduction ==
  ASSUME NEW T, 0 \in T, \A n \in Nat : n \in T => n + 1 \in T
  PROVE  Nat \subseteq T
<1> DEFINE R == {ss \in Nat \X Nat : ss[1] < ss[2]}
<1>1. IsWellFoundedOn(R, Nat)
  BY NatLessThanWellFounded DEF OpToRel
<1> SUFFICES ASSUME Nat \ T # {} PROVE FALSE
  OBVIOUS
<1>2. PICK x \in Nat \ T : \A y \in Nat \ T : ~ (<<y, x>> \in R)
  <2> HIDE DEF R
  <2> QED BY <1>1, WFMin
<1>3. x # 0 /\ x - 1 \in Nat /\ <<x - 1, x>> \in R
  OBVIOUS
<1>4. x - 1 \in T
  BY <1>2, <1>3
<1>5. (x - 1) + 1 \in T
  BY <1>3, <1>4
<1> QED BY <1>5

\* Min of a set of naturals is its least element (the first stop of a probe).
LEMMA LeastElement ==
  ASSUME NEW S, S \subseteq Nat, S # {}
  PROVE  Min(S) \in S /\ \A y \in S : Min(S) <= y
<1> DEFINE R == {ss \in Nat \X Nat : ss[1] < ss[2]}
<1>1. IsWellFoundedOn(R, Nat)
  BY NatLessThanWellFounded DEF OpToRel
<1>2. PICK x \in S : \A y \in S : ~ (<<y, x>> \in R)
  <2> HIDE DEF R
  <2> QED BY <1>1, WFMin
<1>3. ASSUME NEW y \in S PROVE x <= y
  <2>1. x \in Nat /\ y \in Nat /\ ~ (<<y, x>> \in R)
    BY <1>2
  <2> QED BY <2>1
<1>4. \E z \in S : \A y \in S : z <= y
  BY <1>3
<1> QED BY ONLY <1>4, Zenon DEF Min

-----------------------------------------------------------------------------
(* Probe sequences.                                                        *)

\* The quotient and the remainder of a probe position by the capacity.
LEMMA DivMod ==
  ASSUME NEW c \in Nat \ {0}, NEW h \in Nat
  PROVE  /\ h \div c \in Nat
         /\ h % c \in 0..(c - 1)
         /\ h = c * (h \div c) + (h % c)
OBVIOUS

\* Two probes of one sequence meet different slots (SwissTable.hpp:87-92).
LEMMA ProbesDiffer ==
  ASSUME NEW c \in Nat \ {0}, NEW k \in Keys, NEW i \in 0..(c - 1), NEW j \in 0..(c - 1),
         Probe(c, k, i) = Probe(c, k, j)
  PROVE  i = j
<1> DEFINE h == Hash[k]
           r == (h + i) % c
           q == (h + i) \div c
           s == (h + j) \div c
<1>1. h \in Nat
  BY HashAssumption
<1>2. /\ q \in Nat /\ s \in Nat /\ r \in Int
      /\ h + i = c * q + r /\ h + j = c * s + r
  <2>1. h + i \in Nat /\ h + j \in Nat
    BY <1>1
  <2>2. (h + j) % c = r
    BY DEF Probe
  <2>3. q \in Nat /\ r \in 0..(c - 1) /\ h + i = c * q + r
    BY <2>1, DivMod
  <2>4. s \in Nat /\ h + j = c * s + ((h + j) % c)
    BY <2>1, DivMod
  <2> HIDE DEF h, r, q, s
  <2> QED BY <2>2, <2>3, <2>4
<1> HIDE DEF h, q, s, r
<1>3. c * q \in Int /\ c * s \in Int
  BY <1>2
<1>4. i - j = c * q - c * s
  BY <1>1, <1>2, <1>3
<1>5. CASE q > s
  <2>1. q - s >= 1 /\ c * (q - s) = c * q - c * s
    BY <1>2, <1>5
  <2>2. c * (q - s) >= c
    BY <2>1, <1>2
  <2> QED BY <1>3, <1>4, <2>1, <2>2
<1>6. CASE s > q
  <2>1. s - q >= 1 /\ c * (s - q) = c * s - c * q
    BY <1>2, <1>6
  <2>2. c * (s - q) >= c
    BY <2>1, <1>2
  <2> QED BY <1>3, <1>4, <2>1, <2>2
<1> QED BY <1>2, <1>3, <1>4, <1>5, <1>6

\* A probe stays in the table (SwissTable.hpp:82-86).
LEMMA ProbeType ==
  ASSUME NEW c \in Nat \ {0}, NEW k \in Keys, NEW i \in Nat
  PROVE  Probe(c, k, i) \in 0..(c - 1)
BY HashAssumption, DivMod DEF Probe

\* A full round of probes visits every slot (SwissTable.hpp:169).
LEMMA ProbesCover ==
  ASSUME NEW c \in Nat \ {0}, NEW k \in Keys, NEW p \in 0..(c - 1)
  PROVE  \E i \in 0..(c - 1) : Probe(c, k, i) = p
<1> DEFINE D == 0..(c - 1)
           f == [i \in D |-> Probe(c, k, i)]
<1>1. f \in [D -> D]
  BY ProbeType
<1>2. f \in Injection(D, D)
  BY <1>1, ProbesDiffer DEF Injection, IsInjective
<1>3. IsFiniteSet(D)
  BY FS_Interval
<1>4. f \in Surjection(D, D)
  BY <1>2, <1>3, FS_Injection
<1> QED BY <1>4 DEF Surjection

-----------------------------------------------------------------------------
(* find.                                                                   *)

\* A slot is EMPTY, a tombstone or a live entry, and no two of these.
LEMMA SlotKinds ==
  /\ ~ Live(Empty) /\ ~ Live(Deleted) /\ Empty # Deleted
  /\ \A k \in Keys, v \in Vals : /\ Entry(k, v) \in Slot /\ Live(Entry(k, v))
                                 /\ Entry(k, v).key = k /\ Entry(k, v).val = v
  /\ \A s \in Slot : Live(s) => s.key \in Keys /\ s.val \in Vals /\ s # Empty
  /\ \A s \in Slot : s = Empty \/ s = Deleted \/ Live(s)
BY DEF Slot, Empty, Deleted, Entry, Live

\* The probe's first stop: an EMPTY slot or the key, with neither before it.
LEMMA FirstStop ==
  ASSUME NEW c \in Nat \ {0}, NEW k \in Keys, NEW t \in Table(c), Stops(t, c, k) # {}
  PROVE  LET s == Min(Stops(t, c, k))
         IN  /\ s \in 0..(c - 1) /\ Probe(c, k, s) \in 0..(c - 1)
             /\ t[Probe(c, k, s)] = Empty \/ Holds(t, Probe(c, k, s), k)
             /\ \A m \in 0..(s - 1) : /\ t[Probe(c, k, m)] # Empty
                                      /\ ~ Holds(t, Probe(c, k, m), k)
<1> DEFINE S == Stops(t, c, k)
           s == Min(S)
<1>1. S \subseteq Nat
  BY DEF Stops
<1>2. s \in S /\ \A m \in S : s <= m
  <2>1. S # {}
    OBVIOUS
  <2> HIDE DEF S
  <2> QED BY <1>1, <2>1, LeastElement
<1>3. s \in 0..(c - 1) /\ (t[Probe(c, k, s)] = Empty \/ Holds(t, Probe(c, k, s), k))
  BY <1>2 DEF Stops
<1>4. ASSUME NEW m \in 0..(s - 1)
      PROVE  t[Probe(c, k, m)] # Empty /\ ~ Holds(t, Probe(c, k, m), k)
  <2>1. m \in 0..(c - 1) /\ ~ (s <= m)
    BY <1>3
  <2>2. m \notin S
    BY <1>2, <2>1
  <2> QED BY <2>1, <2>2 DEF Stops
<1>5. Probe(c, k, s) \in 0..(c - 1)
  BY <1>3, ProbeType
<1> QED BY <1>3, <1>4, <1>5

\* A key that is in the table stops its own probe, and the first stop is its slot.
LEMMA KeyIsFirstStop ==
  ASSUME NEW c \in Nat \ {0}, NEW t, Sound(t, c), NEW k \in Keys,
         NEW p \in 0..(c - 1), Holds(t, p, k)
  PROVE  Stops(t, c, k) # {} /\ Probe(c, k, Min(Stops(t, c, k))) = p
<1>1. t \in Table(c) /\ p \in LiveAt(t) /\ t[p].key = k
  BY DEF Sound, Table, LiveAt, Holds
<1>2. PICK n \in 0..(c - 1) : /\ Probe(c, k, n) = p
                              /\ \A m \in 0..(n - 1) : t[Probe(c, k, m)] # Empty
  BY <1>1 DEF Sound, Reached
<1>3. n \in Stops(t, c, k)
  BY <1>2 DEF Stops
<1> DEFINE s == Min(Stops(t, c, k))
<1>4. /\ s \in 0..(c - 1) /\ Probe(c, k, s) \in 0..(c - 1)
      /\ t[Probe(c, k, s)] = Empty \/ Holds(t, Probe(c, k, s), k)
      /\ \A m \in 0..(s - 1) : ~ Holds(t, Probe(c, k, m), k)
  BY <1>1, <1>3, FirstStop
<1>5. s <= n
  <2>1. ~ (n \in 0..(s - 1))
    BY <1>2, <1>4
  <2> HIDE DEF s
  <2> QED BY <1>4, <2>1
<1>6. Holds(t, Probe(c, k, s), k)
  <2>1. CASE s = n
    BY <1>2, <2>1
  <2>2. CASE s < n
    <3>1. s \in 0..(n - 1)
      BY <1>4, <2>2
    <3> QED BY <1>2, <1>4, <3>1
  <2> HIDE DEF s
  <2> QED BY <1>4, <1>5, <2>1, <2>2
<1>7. Probe(c, k, s) = p
  BY <1>1, <1>4, <1>6 DEF Sound, NoTwin, LiveAt, Holds, Table
<1> QED BY <1>3, <1>7

\* find finds exactly the slot that holds the key (SwissTable.hpp:81-94).
LEMMA FindIsExact ==
  ASSUME NEW c \in Nat \ {0}, NEW t, Sound(t, c), NEW k \in Keys
  PROVE  /\ \A p \in 0..(c - 1) : Holds(t, p, k) => Find(t, c, k) = p
         /\ Find(t, c, k) # NotFound => Find(t, c, k) \in LiveAt(t) /\ Holds(t, Find(t, c, k), k)
<1>1. ASSUME NEW p \in 0..(c - 1), Holds(t, p, k)
      PROVE  Find(t, c, k) = p
  BY <1>1, KeyIsFirstStop DEF Find
<1>2. ASSUME Find(t, c, k) # NotFound
      PROVE  Find(t, c, k) \in LiveAt(t) /\ Holds(t, Find(t, c, k), k)
  <2>1. t \in Table(c)
    BY DEF Sound
  <2>2. Stops(t, c, k) # {} /\ Holds(t, Find(t, c, k), k)
        /\ Find(t, c, k) = Probe(c, k, Min(Stops(t, c, k)))
    BY <1>2 DEF Find
  <2>3. Find(t, c, k) \in 0..(c - 1)
    BY <2>1, <2>2, FirstStop
  <2> QED BY <2>1, <2>2, <2>3 DEF Table, LiveAt, Holds
<1> QED BY <1>1, <1>2

-----------------------------------------------------------------------------
(* find_or_insert.                                                         *)

\* The slot find_or_insert chooses is the key's own, or a free one the key's probe
\* reaches when no slot holds the key (SwissTable.hpp:163-188).
LEMMA ChosenSlot ==
  ASSUME NEW c \in Nat \ {0}, NEW t, Sound(t, c), NEW k \in Keys, Stops(t, c, k) # {}
  PROVE  LET r == FindOrInsert(t, c, k)
         IN  /\ r.pos \in 0..(c - 1) /\ r.isNew \in BOOLEAN
             /\ Reached(t, c, r.pos, k)
             /\ r.isNew => ~ Live(t[r.pos]) /\ \A p \in LiveAt(t) : t[p].key # k
             /\ ~ r.isNew => Holds(t, r.pos, k)
<1> DEFINE s == Min(Stops(t, c, k))
           stop == Probe(c, k, s)
           r == FindOrInsert(t, c, k)
<1>1. t \in Table(c)
  BY DEF Sound
<1>2. /\ s \in 0..(c - 1) /\ stop \in 0..(c - 1)
      /\ t[stop] = Empty \/ Holds(t, stop, k)
      /\ \A m \in 0..(s - 1) : t[Probe(c, k, m)] # Empty
  BY <1>1, FirstStop
<1>3. CASE Holds(t, stop, k)
  <2>1. r = [pos |-> stop, isNew |-> FALSE]
    BY <1>3 DEF FindOrInsert
  <2>2. Reached(t, c, stop, k)
    BY <1>2 DEF Reached
  <2> QED BY <1>2, <1>3, <2>1, <2>2
<1>4. CASE ~ Holds(t, stop, k)
  <2>1. \A p \in LiveAt(t) : t[p].key # k
    <3>1. SUFFICES ASSUME NEW p \in LiveAt(t), t[p].key = k PROVE FALSE
      OBVIOUS
    <3>2. p \in 0..(c - 1) /\ Holds(t, p, k)
      BY <1>1, <3>1 DEF Table, LiveAt, Holds
    <3>3. stop = p
      BY <3>2, KeyIsFirstStop
    <3> QED BY <1>4, <3>2, <3>3
  <2>2. CASE Passed(t, c, k) = {}
    <3>1. r = [pos |-> stop, isNew |-> TRUE]
      BY <1>4, <2>2 DEF FindOrInsert
    <3>2. Reached(t, c, stop, k)
      BY <1>2 DEF Reached
    <3>3. ~ Live(t[stop])
      BY <1>2, <1>4, SlotKinds
    <3> QED BY <1>2, <2>1, <3>1, <3>2, <3>3
  <2>3. CASE Passed(t, c, k) # {}
    <3> DEFINE m == Min(Passed(t, c, k))
    <3>1. r = [pos |-> Probe(c, k, m), isNew |-> TRUE]
      BY <1>4, <2>3 DEF FindOrInsert
    <3>2. m \in Passed(t, c, k)
      <4>1. Passed(t, c, k) \subseteq Nat
        BY DEF Passed
      <4> QED BY <2>3, <4>1, LeastElement
    <3>3. m \in 0..(s - 1) /\ t[Probe(c, k, m)] = Deleted
      BY <3>2 DEF Passed
    <3> HIDE DEF m
    <3>4. m \in 0..(c - 1) /\ \A l \in 0..(m - 1) : l \in 0..(s - 1)
      BY <1>2, <3>3
    <3>5. Reached(t, c, Probe(c, k, m), k)
      BY <1>2, <3>4 DEF Reached
    <3>6. ~ Live(t[Probe(c, k, m)]) /\ Probe(c, k, m) \in 0..(c - 1)
      BY <3>3, <3>4, SlotKinds, ProbeType
    <3> QED BY <2>1, <3>1, <3>5, <3>6
  <2> QED BY <2>2, <2>3
<1> QED BY <1>3, <1>4

Put(t, q, k, v) == [t EXCEPT ![q] = Entry(k, v)]

\* Writing an entry changes one slot.
LEMMA Written ==
  ASSUME NEW c \in Nat, NEW t \in Table(c), NEW q \in 0..(c - 1), NEW k \in Keys, NEW v \in Vals
  PROVE  LET u == Put(t, q, k, v)
         IN  u \in Table(c) /\ u[q] = Entry(k, v) /\ \A p \in 0..(c - 1) : p # q => u[p] = t[p]
BY SlotKinds DEF Table, Put

\* Writing an entry to a slot its probe reaches keeps the table sound, when no
\* other slot has the key: no EMPTY slot is made, so no path breaks.
LEMMA WriteKeepsSound ==
  ASSUME NEW c \in Nat \ {0}, NEW t, Sound(t, c), NEW k \in Keys, NEW v \in Vals,
         NEW q \in 0..(c - 1), Reached(t, c, q, k),
         \A p \in LiveAt(t) : t[p].key = k => p = q,
         NEW u \in Table(c), u[q] = Entry(k, v), \A p \in 0..(c - 1) : p # q => u[p] = t[p]
  PROVE  Sound(u, c) /\ LiveAt(u) = LiveAt(t) \cup {q}
<1>1. t \in Table(c) /\ DOMAIN t = 0..(c - 1)
  BY DEF Sound, Table
<1>2. u \in Table(c) /\ DOMAIN u = 0..(c - 1)
  BY DEF Table
<1>3. u[q] = Entry(k, v) /\ \A p \in 0..(c - 1) : p # q => u[p] = t[p]
  OBVIOUS
<1>4. LiveAt(u) = LiveAt(t) \cup {q}
  BY <1>1, <1>2, <1>3, SlotKinds DEF LiveAt
<1>5. NoTwin(u)
  BY <1>3, <1>4, <1>1, SlotKinds DEF NoTwin, Sound, LiveAt
<1>6. ASSUME NEW p \in LiveAt(u) PROVE Reached(u, c, p, u[p].key)
  <2>1. Reached(t, c, p, u[p].key) /\ u[p].key \in Keys
    <3>1. CASE p = q
      BY <1>3, <3>1, SlotKinds
    <3>2. CASE p # q
      <4>1. p \in LiveAt(t) /\ u[p] = t[p] /\ t[p] \in Slot /\ Live(t[p])
        BY <1>1, <1>3, <1>4, <3>2 DEF LiveAt, Table
      <4> QED BY <4>1, SlotKinds DEF Sound
    <3> QED BY <3>1, <3>2
  <2>2. PICK n \in 0..(c - 1) : /\ Probe(c, u[p].key, n) = p
                                /\ \A m \in 0..(n - 1) : t[Probe(c, u[p].key, m)] # Empty
    BY <2>1 DEF Reached
  <2>3. ASSUME NEW m \in 0..(n - 1) PROVE u[Probe(c, u[p].key, m)] # Empty
    <3>1. Probe(c, u[p].key, m) \in 0..(c - 1)
      BY <2>1, ProbeType
    <3> QED BY <1>3, <2>2, <3>1, SlotKinds
  <2> QED BY <2>2, <2>3 DEF Reached
<1> QED BY <1>2, <1>3, <1>4, <1>5, <1>6 DEF Sound

Buried(t, q) == [t EXCEPT ![q] = Deleted]

\* erase's tombstone keeps every other probe path (SwissTable.hpp:106-111).
LEMMA TombstoneKeepsSound ==
  ASSUME NEW c \in Nat \ {0}, NEW t, Sound(t, c), NEW q \in LiveAt(t)
  PROVE  LET u == Buried(t, q)
         IN  /\ Sound(u, c)
             /\ LiveAt(u) = LiveAt(t) \ {q}
             /\ \A p \in LiveAt(u) : u[p] = t[p]
<1> DEFINE u == Buried(t, q)
<1>1. t \in Table(c) /\ DOMAIN t = 0..(c - 1) /\ q \in 0..(c - 1)
  BY DEF Sound, Table, LiveAt
<1>2. u \in Table(c) /\ DOMAIN u = 0..(c - 1)
  BY <1>1 DEF Table, Slot, Buried
<1>3. u[q] = Deleted /\ \A p \in 0..(c - 1) : p # q => u[p] = t[p]
  BY <1>1 DEF Buried
<1> HIDE DEF u
<1>4. LiveAt(u) = LiveAt(t) \ {q} /\ \A p \in LiveAt(u) : u[p] = t[p]
  BY <1>1, <1>2, <1>3, SlotKinds DEF LiveAt
<1>5. NoTwin(u)
  BY <1>4 DEF NoTwin, Sound
<1>6. ASSUME NEW p \in LiveAt(u) PROVE Reached(u, c, p, u[p].key)
  <2>1. p \in LiveAt(t) /\ u[p] = t[p] /\ t[p].key \in Keys
    BY <1>1, <1>4, SlotKinds DEF LiveAt, Table
  <2>2. PICK n \in 0..(c - 1) : /\ Probe(c, t[p].key, n) = p
                                /\ \A m \in 0..(n - 1) : t[Probe(c, t[p].key, m)] # Empty
    BY <2>1 DEF Reached, Sound
  <2>3. ASSUME NEW m \in 0..(n - 1) PROVE u[Probe(c, t[p].key, m)] # Empty
    <3>1. Probe(c, t[p].key, m) \in 0..(c - 1)
      BY <2>1, ProbeType
    <3> QED BY <1>3, <2>2, <3>1, SlotKinds
  <2> QED BY <2>1, <2>2, <2>3 DEF Reached
<1> QED BY <1>2, <1>4, <1>5, <1>6 DEF Sound, u

-----------------------------------------------------------------------------
(* rehash.                                                                 *)

Fresh(c) == [p \in 0..(c - 1) |-> Empty]

\* Carried is the loop over the old slots: each table comes from the one before
\* (SwissTable.hpp:148-157).
LEMMA CarriedStep ==
  ASSUME NEW t, NEW n \in Nat, NEW c
  PROVE  LET f == Carried(t, n, c)
         IN  /\ f[0] = Fresh(c)
             /\ \A i \in 0..(n - 1) : f[i + 1] = CarryOver(f[i], c, t[i])
<1> DEFINE Def(g, i) == IF i = 0 THEN Fresh(c) ELSE CarryOver(g[i - 1], c, t[i - 1])
           Loop(g, m) == g = [i \in 0..m |-> Def(g, i)]
           T == {m \in Nat : \E g : Loop(g, m)}
<1>1. 0 \in T
  <2> DEFINE g == [i \in 0..0 |-> Fresh(c)]
  <2>1. Loop(g, 0)
    OBVIOUS
  <2> QED BY <2>1
<1>2. ASSUME NEW m \in Nat, m \in T PROVE m + 1 \in T
  <2>1. PICK g : Loop(g, m)
    BY <1>2
  <2> DEFINE h == [i \in 0..(m + 1) |-> IF i <= m THEN g[i] ELSE CarryOver(g[m], c, t[m])]
  <2>2. ASSUME NEW i \in 0..(m + 1) PROVE h[i] = Def(h, i)
    <3>1. CASE i = 0
      BY <2>1, <3>1
    <3>2. CASE i \in 1..m
      <4>1. h[i] = g[i] /\ h[i - 1] = g[i - 1] /\ g[i] = Def(g, i)
        BY <2>1, <3>2
      <4> QED BY <3>2, <4>1
    <3>3. CASE i = m + 1
      <4>1. h[i] = CarryOver(g[m], c, t[m]) /\ h[m] = g[m] /\ i - 1 = m /\ i # 0
        BY <3>3
      <4> QED BY <4>1
    <3> QED BY <3>1, <3>2, <3>3
  <2>3. Loop(h, m + 1)
    BY <2>2
  <2>4. \E w : Loop(w, m + 1)
    <3> HIDE DEF h, Loop
    <3> QED BY <2>3
  <2> QED BY <2>4
<1>3. \E g : Loop(g, n)
  <2>1. Nat \subseteq T
    <3> HIDE DEF T
    <3> QED BY <1>1, <1>2, NatSetInduction
  <2> QED BY <2>1
<1> DEFINE f == Carried(t, n, c)
<1>4. Loop(f, n)
  <2>1. f = CHOOSE g : Loop(g, n)
    BY DEF Carried, Fresh
  <2> HIDE DEF f, Loop
  <2> QED BY <1>3, <2>1
<1>5. \A i \in 0..n : f[i] = Def(f, i)
  <2> HIDE DEF f
  <2> QED BY <1>4
<1>6. f[0] = Fresh(c)
  <2> HIDE DEF f
  <2> QED BY <1>5
<1>7. ASSUME NEW i \in 0..(n - 1) PROVE f[i + 1] = CarryOver(f[i], c, t[i])
  <2>1. i + 1 \in 0..n /\ i + 1 # 0 /\ (i + 1) - 1 = i
    OBVIOUS
  <2> HIDE DEF f
  <2> QED BY <1>5, <2>1
<1> QED BY <1>6, <1>7

LiveBelow(t, i) == {j \in LiveAt(t) : j < i}
EntriesBelow(t, i) == {<<t[j].key, t[j].val>> : j \in LiveBelow(t, i)}

\* The table rehash has built from the first i slots of t.
Copied(u, t, c, i) ==
  /\ Sound(u, c)
  /\ \A p \in 0..(c - 1) : u[p] # Deleted
  /\ Entries(u) = EntriesBelow(t, i)
  /\ IsFiniteSet(LiveAt(u)) /\ Cardinality(LiveAt(u)) = Cardinality(LiveBelow(t, i))

\* The entries a rehash has copied so far are at most the slots it has passed.
LEMMA LiveBelowIsSmall ==
  ASSUME NEW t, NEW n \in Nat, DOMAIN t = 0..(n - 1), NEW i \in 0..n
  PROVE  IsFiniteSet(LiveBelow(t, i)) /\ Cardinality(LiveBelow(t, i)) <= i
<1>1. IsFiniteSet(0..(i - 1)) /\ Cardinality(0..(i - 1)) = i
  BY FS_Interval
<1>2. LiveBelow(t, i) \in SUBSET (0..(i - 1))
  BY DEF LiveBelow, LiveAt
<1> QED BY <1>1, <1>2, FS_Subset

\* A table with fewer live slots than slots, and no tombstone, ends every probe.
LEMMA RoomToStop ==
  ASSUME NEW c \in Nat \ {0}, NEW u \in Table(c), NEW k \in Keys,
         \A p \in 0..(c - 1) : u[p] # Deleted, Cardinality(LiveAt(u)) < c
  PROVE  Stops(u, c, k) # {}
<1>1. Cardinality(0..(c - 1)) = c
  BY FS_Interval
<1>2. LiveAt(u) # 0..(c - 1)
  BY <1>1
<1>3. PICK p \in 0..(c - 1) : u[p] = Empty
  BY <1>2, SlotKinds DEF LiveAt, Table
<1>4. PICK i \in 0..(c - 1) : Probe(c, k, i) = p
  BY ProbesCover
<1> QED BY <1>3, <1>4 DEF Stops

\* One slot more: a live entry's key is not in the new table yet - what
\* [[assume(is_new)]] says - and there is room for it.
LEMMA CarryOverCopies ==
  ASSUME NEW n \in Nat, NEW t, DOMAIN t = 0..(n - 1), \A j \in 0..(n - 1) : t[j] \in Slot, NoTwin(t),
         NEW c \in Nat, n < c, NEW i \in 0..(n - 1), NEW u, Copied(u, t, c, i)
  PROVE  Copied(CarryOver(u, c, t[i]), t, c, i + 1)
<1>1. CASE ~ Live(t[i])
  <2>1. CarryOver(u, c, t[i]) = u
    BY <1>1 DEF CarryOver
  <2>2. LiveBelow(t, i + 1) = LiveBelow(t, i)
    BY <1>1 DEF LiveBelow, LiveAt
  <2> QED BY <2>1, <2>2 DEF Copied, EntriesBelow
<1>2. CASE Live(t[i])
  <2> DEFINE k == t[i].key
             v == t[i].val
             r == FindOrInsert(u, c, k)
             w == Put(u, r.pos, k, v)
  <2>1. k \in Keys /\ v \in Vals /\ t[i] = Entry(k, v)
    BY <1>2 DEF Slot, Live, Entry, Empty, Deleted
  <2>2. c \in Nat \ {0} /\ Sound(u, c) /\ u \in Table(c) /\ DOMAIN u = 0..(c - 1)
    BY DEF Copied, Sound, Table
  <2>3. CarryOver(u, c, t[i]) = w
    BY <1>2, <2>1 DEF CarryOver, Put
  <2>4. LiveBelow(t, i + 1) = LiveBelow(t, i) \cup {i} /\ i \notin LiveBelow(t, i)
    BY <1>2 DEF LiveBelow, LiveAt
  <2>5. IsFiniteSet(LiveBelow(t, i)) /\ Cardinality(LiveBelow(t, i)) <= i
    BY LiveBelowIsSmall
  <2>6. Stops(u, c, k) # {}
    <3>1. Cardinality(LiveAt(u)) < c
      <4>1. Cardinality(LiveBelow(t, i)) \in Nat
        BY <2>5, FS_CardinalityType
      <4> QED BY <2>5, <4>1 DEF Copied
    <3> QED BY <2>1, <2>2, <3>1, RoomToStop DEF Copied
  <2>7. \A p \in LiveAt(u) : u[p].key # k
    <3>1. SUFFICES ASSUME NEW p \in LiveAt(u), u[p].key = k PROVE FALSE
      OBVIOUS
    <3>2. <<k, u[p].val>> \in EntriesBelow(t, i)
      BY <3>1 DEF Copied, Entries
    <3>3. PICK j \in LiveBelow(t, i) : t[j].key = k
      BY <3>2 DEF EntriesBelow
    <3> QED BY <1>2, <3>3 DEF LiveBelow, LiveAt, NoTwin
  <2>8. /\ r.pos \in 0..(c - 1) /\ Reached(u, c, r.pos, k) /\ r.pos \notin LiveAt(u)
    BY <2>1, <2>2, <2>6, <2>7, ChosenSlot DEF LiveAt, Holds
  <2> HIDE DEF k, v, r
  <2>9. /\ Sound(w, c) /\ LiveAt(w) = LiveAt(u) \cup {r.pos}
        /\ w[r.pos] = Entry(k, v) /\ \A p \in 0..(c - 1) : p # r.pos => w[p] = u[p]
    <3> DEFINE q == r.pos
    <3>1. q \in 0..(c - 1) /\ Reached(u, c, q, k) /\ \A p \in LiveAt(u) : u[p].key = k => p = q
      BY <2>7, <2>8
    <3>2. w \in Table(c) /\ w[q] = Entry(k, v) /\ \A p \in 0..(c - 1) : p # q => w[p] = u[p]
      BY <2>1, <2>2, <3>1, Written
    <3> HIDE DEF q, w
    <3>3. Sound(w, c) /\ LiveAt(w) = LiveAt(u) \cup {q}
      BY <2>1, <2>2, <3>1, <3>2, WriteKeepsSound
    <3> QED BY <3>2, <3>3 DEF q
  <2> HIDE DEF w
  <2>10. \A p \in 0..(c - 1) : w[p] # Deleted
    <3>1. Entry(k, v) # Deleted
      BY DEF Entry, Deleted
    <3> QED BY <2>9, <3>1 DEF Copied
  <2>11. Entries(w) = Entries(u) \cup {<<k, v>>}
    <3>1. \A p \in LiveAt(u) : w[p] = u[p]
      BY <2>2, <2>8, <2>9 DEF LiveAt
    <3>2. w[r.pos].key = k /\ w[r.pos].val = v
      BY <2>1, <2>9, SlotKinds
    <3> QED BY <2>9, <3>1, <3>2 DEF Entries
  <2>12. EntriesBelow(t, i + 1) = EntriesBelow(t, i) \cup {<<k, v>>}
    BY <2>4 DEF EntriesBelow, k, v
  <2>13. /\ IsFiniteSet(LiveAt(w)) /\ Cardinality(LiveAt(w)) = Cardinality(LiveAt(u)) + 1
    BY <2>8, <2>9, FS_AddElement DEF Copied
  <2>14. Cardinality(LiveBelow(t, i + 1)) = Cardinality(LiveBelow(t, i)) + 1
    BY <2>4, <2>5, FS_AddElement
  <2> QED BY <2>3, <2>9, <2>10, <2>11, <2>12, <2>13, <2>14 DEF Copied
<1> QED BY <1>1, <1>2

\* An empty table is sound (clear, and rehash before its loop).
LEMMA FreshIsSound ==
  ASSUME NEW c \in Nat
  PROVE  /\ Sound(Fresh(c), c) /\ LiveAt(Fresh(c)) = {}
         /\ \A p \in 0..(c - 1) : Fresh(c)[p] # Deleted
<1>1. LiveAt(Fresh(c)) = {} /\ Fresh(c) \in Table(c)
  BY SlotKinds DEF LiveAt, Fresh, Table, Slot
<1>2. \A p \in 0..(c - 1) : Fresh(c)[p] # Deleted
  BY SlotKinds DEF Fresh
<1> QED BY <1>1, <1>2 DEF Sound, NoTwin

\* Growing loses nothing and breaks no path: the new table is sound, has the same
\* entries, as many live slots, and no tombstone (SwissTable.hpp:135-158).
LEMMA RehashCopiesAll ==
  ASSUME NEW n \in Nat, NEW t, DOMAIN t = 0..(n - 1), \A j \in 0..(n - 1) : t[j] \in Slot, NoTwin(t),
         NEW c \in Nat, n < c
  PROVE  LET u == Rehash(t, n, c)
         IN  /\ Sound(u, c)
             /\ \A p \in 0..(c - 1) : u[p] # Deleted
             /\ Entries(u) = Entries(t)
             /\ IsFiniteSet(LiveAt(u)) /\ Cardinality(LiveAt(u)) = Cardinality(LiveAt(t))
<1> DEFINE f == Carried(t, n, c)
           T == {i \in Nat : i <= n => Copied(f[i], t, c, i)}
<1>1. 0 \in T
  <2>1. f[0] = Fresh(c)
    BY CarriedStep
  <2>2. LiveBelow(t, 0) = {}
    BY DEF LiveBelow, LiveAt
  <2>3. Entries(Fresh(c)) = EntriesBelow(t, 0)
    BY <2>2, FreshIsSound DEF Entries, EntriesBelow
  <2>7. Copied(Fresh(c), t, c, 0)
    BY <2>2, <2>3, FreshIsSound, FS_EmptySet DEF Copied
  <2> HIDE DEF f
  <2> QED BY <2>1, <2>7
<1>2. ASSUME NEW i \in Nat, i \in T PROVE i + 1 \in T
  <2>1. CASE i + 1 <= n
    <3>1. i \in 0..(n - 1) /\ Copied(f[i], t, c, i)
      BY <1>2, <2>1
    <3>2. f[i + 1] = CarryOver(f[i], c, t[i])
      BY <3>1, CarriedStep
    <3> HIDE DEF f
    <3>3. Copied(f[i + 1], t, c, i + 1)
      BY <3>1, <3>2, CarryOverCopies
    <3> QED BY <3>3
  <2>2. CASE ~ (i + 1 <= n)
    BY <2>2
  <2> QED BY <2>1, <2>2
<1>3. n \in T
  <2> HIDE DEF T
  <2> QED BY <1>1, <1>2, NatSetInduction
<1>4. Copied(f[n], t, c, n)
  <2> HIDE DEF f
  <2> QED BY <1>3
<1>5. LiveBelow(t, n) = LiveAt(t)
  BY DEF LiveBelow, LiveAt
<1> QED BY <1>4, <1>5 DEF Copied, Rehash, EntriesBelow, Entries

-----------------------------------------------------------------------------
(* What a lookup returns, in terms of the entries.                         *)

Good(t, c) ==
  /\ c \in Nat /\ DOMAIN t = 0..(c - 1)
  /\ c # 0 => Sound(t, c)

Found(t, c, k) ==
  IF c = 0 \/ Find(t, c, k) = NotFound THEN NoVal ELSE t[Find(t, c, k)].val

\* get(k) returns the entry of k, or nothing when there is none.
LEMMA FoundIsEntry ==
  ASSUME NEW t, NEW c, Good(t, c), NEW k \in Keys
  PROVE  /\ \A v : <<k, v>> \in Entries(t) => Found(t, c, k) = v
         /\ (\A v : <<k, v>> \notin Entries(t)) => Found(t, c, k) = NoVal
<1>1. ASSUME NEW v, <<k, v>> \in Entries(t) PROVE Found(t, c, k) = v
  <2>1. PICK p \in LiveAt(t) : t[p].key = k /\ t[p].val = v
    BY <1>1 DEF Entries
  <2>2. p \in 0..(c - 1) /\ c \in Nat \ {0} /\ Holds(t, p, k) /\ Sound(t, c)
    BY <2>1 DEF Good, LiveAt, Holds
  <2>3. Find(t, c, k) = p
    BY <2>2, FindIsExact
  <2> QED BY <2>1, <2>2, <2>3 DEF Found, NotFound
<1>2. ASSUME \A v : <<k, v>> \notin Entries(t) PROVE Found(t, c, k) = NoVal
  <2>1. CASE c # 0 /\ Find(t, c, k) # NotFound
    <3>1. Find(t, c, k) \in LiveAt(t) /\ Holds(t, Find(t, c, k), k)
      BY <2>1, FindIsExact DEF Good
    <3>2. <<k, t[Find(t, c, k)].val>> \in Entries(t)
      BY <3>1 DEF Entries, Holds
    <3> QED BY <1>2, <3>2
  <2>2. CASE ~ (c # 0 /\ Find(t, c, k) # NotFound)
    BY <2>2 DEF Found
  <2> QED BY <2>1, <2>2
<1> QED BY <1>1, <1>2

\* Two sound tables with the same entries answer find alike.
LEMMA SameEntriesSameFound ==
  ASSUME NEW t, NEW c, Good(t, c), NEW u, NEW d, Good(u, d), NEW k \in Keys,
         \A v : <<k, v>> \in Entries(t) <=> <<k, v>> \in Entries(u)
  PROVE  Found(t, c, k) = Found(u, d, k)
<1>1. CASE \E v : <<k, v>> \in Entries(t)
  <2>1. PICK v : <<k, v>> \in Entries(t)
    BY <1>1
  <2>2. Found(t, c, k) = v
    BY <2>1, FoundIsEntry
  <2>3. Found(u, d, k) = v
    BY <2>1, FoundIsEntry
  <2> QED BY <2>2, <2>3
<1>2. CASE \A v : <<k, v>> \notin Entries(t)
  <2>1. Found(t, c, k) = NoVal
    BY <1>2, FoundIsEntry
  <2>2. Found(u, d, k) = NoVal
    BY <1>2, FoundIsEntry
  <2> QED BY <2>1, <2>2
<1> QED BY <1>1, <1>2

-----------------------------------------------------------------------------
(* The inductive invariant and the steps.                                  *)

Counted == IsFiniteSet(LiveAt(slots)) /\ size = Cardinality(LiveAt(slots))
Inv     == TypeOK /\ Good(slots, capacity) /\ Counted

\* What the invariant says of the table, allocated or not.
LEMMA InvFacts ==
  ASSUME Inv
  PROVE  /\ DOMAIN slots = 0..(capacity - 1) /\ NoTwin(slots)
         /\ \A j \in 0..(capacity - 1) : slots[j] \in Slot
         /\ capacity \in Nat /\ IsFiniteSet(LiveAt(slots)) /\ size = Cardinality(LiveAt(slots))
<1>1. CASE capacity = 0
  BY <1>1 DEF Inv, TypeOK, Good, NoTwin, LiveAt, Counted
<1>2. CASE capacity # 0
  BY <1>2 DEF Inv, TypeOK, Good, Sound, Table, Counted
<1> QED BY <1>1, <1>2

\* The table a step works on: the one there is, or a larger copy.
LEMMA WorkingTable ==
  ASSUME Inv, NEW c \in Nat \ {0}, NEW t, NEW n,
         \/ c = capacity /\ t = slots /\ n = size
         \/ c > capacity /\ t = Rehash(slots, capacity, c) /\ n = Cardinality(LiveAt(slots))
  PROVE  /\ Sound(t, c) /\ Entries(t) = Entries(slots)
         /\ IsFiniteSet(LiveAt(t)) /\ n = Cardinality(LiveAt(t)) /\ n \in Nat
<1>1. Sound(t, c) /\ Entries(t) = Entries(slots) /\ IsFiniteSet(LiveAt(t)) /\ n = Cardinality(LiveAt(t))
  <2>1. CASE c = capacity /\ t = slots /\ n = size
    BY <2>1 DEF Inv, Good, Counted
  <2>2. CASE c > capacity /\ t = Rehash(slots, capacity, c) /\ n = Cardinality(LiveAt(slots))
    BY <2>2, InvFacts, RehashCopiesAll
  <2> QED BY <2>1, <2>2
<1> QED BY <1>1, FS_CardinalityType

\* Twice a power of two is one: an odd divisor 2a + 1 of 2n divides n, with the
\* quotient n - a * q (SwissTable.hpp:65).
LEMMA DoubledPow2 ==
  ASSUME NEW n, IsPow2(n)
  PROVE  2 * n \in Nat \ {0} /\ 2 * n > n /\ IsPow2(2 * n)
<1>1. n \in Nat \ {0} /\ \A a, q \in 1..n : (2 * a + 1) * q # n
  BY DEF IsPow2
<1>2. ASSUME NEW a \in 1..(2 * n), NEW q \in 1..(2 * n), (2 * a + 1) * q = 2 * n
      PROVE  FALSE
  <2> DEFINE b == a * q
             r == n - b
  <2>1. b \in Nat /\ b >= a /\ b >= q
    OBVIOUS
  <2>2. 2 * b + q = 2 * n
    <3>1. (2 * a + 1) * q = 2 * (a * q) + q
      OBVIOUS
    <3> QED BY <1>2, <3>1
  <2>3. (2 * a + 1) * r = n
    <3>1. q = 2 * r /\ r \in Int
      <4> HIDE DEF b
      <4> QED BY <1>1, <2>1, <2>2
    <3>2. b = 2 * (a * r)
      <4>1. a * (2 * r) = 2 * (a * r)
        <5> HIDE DEF r
        <5> QED BY <3>1
      <4> HIDE DEF r
      <4> QED BY <3>1, <4>1
    <3>3. (2 * a + 1) * r = 2 * (a * r) + r
      <4> HIDE DEF r
      <4> QED BY <3>1
    <3>4. r + b = n
      <4> HIDE DEF b
      <4> QED BY <1>1, <2>1
    <3>5. r \in Int /\ a * r \in Int
      <4> HIDE DEF r
      <4> QED BY <3>1
    <3> DEFINE ar == a * r
               lhs == (2 * a + 1) * r
    <3>6. lhs = 2 * ar + r /\ r + 2 * ar = n /\ ar \in Int /\ r \in Int
      <4> HIDE DEF b, r
      <4> QED BY <3>2, <3>3, <3>4, <3>5
    <3>7. lhs = n
      <4> HIDE DEF ar, lhs, r
      <4> QED BY <1>1, <3>6
    <3> QED BY <3>7
  <2>4. r \in 1..n /\ a \in 1..n
    <3> HIDE DEF b
    <3> QED BY <1>1, <2>1, <2>2
  <2> HIDE DEF b, r
  <2> QED BY <1>1, <2>3, <2>4
<1>3. IsPow2(2 * n)
  BY <1>1, <1>2 DEF IsPow2
<1> QED BY <1>1, <1>3

\* emplace doubles the capacity, or allocates the first one (SwissTable.hpp:63-66).
LEMMA GrownCapacity ==
  ASSUME Inv, Grown <= MaxCapacity
  PROVE  /\ Grown \in Nat \ {0} /\ IsPow2(Grown)
         /\ Grown = capacity \/ Grown > capacity
<1>1. capacity \in Nat /\ size \in Nat /\ (capacity = 0 \/ IsPow2(capacity))
  BY DEF Inv, TypeOK, Good
<1>2. CASE capacity = 0
  <2>1. Grown = MinCapacity
    BY <1>1, <1>2 DEF Grown, MustGrow
  <2> QED BY <1>2, <2>1, CapacityAssumption DEF IsPow2
<1>3. CASE capacity # 0
  <2>1. Grown = capacity \/ Grown = 2 * capacity
    BY <1>3 DEF Grown
  <2>2. 2 * capacity \in Nat \ {0} /\ 2 * capacity > capacity /\ IsPow2(2 * capacity)
    BY <1>1, <1>3, DoubledPow2
  <2> QED BY <1>1, <1>3, <2>1, <2>2
<1> QED BY <1>2, <1>3

\* A sound table with its size and a capacity in range satisfies the invariant.
LEMMA InvFromSound ==
  ASSUME NEW t, NEW c \in Nat \ {0}, IsPow2(c), Sound(t, c), NEW n, n = Cardinality(LiveAt(t)), IsFiniteSet(LiveAt(t)),
         slots' = t, capacity' = c, size' = n, fault' \in BOOLEAN
  PROVE  Inv'
<1>1. n \in Nat
  BY FS_CardinalityType
<1>2. DOMAIN t = 0..(c - 1) /\ \A i \in DOMAIN t : t[i] \in Slot
  BY DEF Sound, Table
<1> QED BY <1>1, <1>2 DEF Inv, TypeOK, Good, Counted, Slot

\* Insert or assign in one table: k's entry is set, no other changes, and a live
\* slot is added exactly when find_or_insert says the key is new.
LEMMA PutKeepsSound ==
  ASSUME NEW c \in Nat \ {0}, NEW t, Sound(t, c), IsFiniteSet(LiveAt(t)),
         NEW k \in Keys, NEW v \in Vals, Stops(t, c, k) # {},
         NEW r, r = FindOrInsert(t, c, k)
  PROVE  LET u == Put(t, r.pos, k, v) IN
         /\ Sound(u, c)
         /\ Entries(u) = {e \in Entries(t) : e[1] # k} \cup {<<k, v>>}
         /\ IsFiniteSet(LiveAt(u))
         /\ Cardinality(LiveAt(u)) = Cardinality(LiveAt(t)) + (IF r.isNew THEN 1 ELSE 0)
<1> DEFINE q == r.pos
           u == Put(t, q, k, v)
<1>1. /\ q \in 0..(c - 1) /\ r.isNew \in BOOLEAN /\ Reached(t, c, q, k)
      /\ r.isNew => ~ Live(t[q]) /\ \A p \in LiveAt(t) : t[p].key # k
      /\ ~ r.isNew => Holds(t, q, k)
  BY ChosenSlot
<1> HIDE DEF q
<1>2. DOMAIN t = 0..(c - 1)
  BY DEF Sound, Table
<1>3. \A p \in LiveAt(t) : t[p].key = k => p = q
  BY <1>1, <1>2 DEF Sound, NoTwin, LiveAt, Holds
<1>4. /\ Sound(u, c) /\ LiveAt(u) = LiveAt(t) \cup {q}
      /\ u[q] = Entry(k, v) /\ \A p \in 0..(c - 1) : p # q => u[p] = t[p]
  <2>1. t \in Table(c)
    BY DEF Sound
  <2>2. u \in Table(c) /\ u[q] = Entry(k, v) /\ \A p \in 0..(c - 1) : p # q => u[p] = t[p]
    BY <1>1, <2>1, Written
  <2> HIDE DEF u
  <2> QED BY <1>1, <1>3, <2>2, WriteKeepsSound
<1> HIDE DEF u
<1>5. Entries(u) = {e \in Entries(t) : e[1] # k} \cup {<<k, v>>}
  <2>1. u[q].key = k /\ u[q].val = v
    BY <1>4, SlotKinds
  <2>2. \A p \in LiveAt(t) : p # q => u[p] = t[p] /\ t[p].key # k
    BY <1>2, <1>3, <1>4 DEF LiveAt
  <2>3. q \in LiveAt(t) => t[q].key = k
    BY <1>1, <1>3 DEF LiveAt, Holds
  <2> QED BY <1>4, <2>1, <2>2, <2>3 DEF Entries
<1>6. r.isNew <=> q \notin LiveAt(t)
  BY <1>1, <1>2 DEF LiveAt, Holds
<1>7. /\ IsFiniteSet(LiveAt(t) \cup {q})
      /\ Cardinality(LiveAt(t) \cup {q}) = IF q \in LiveAt(t) THEN Cardinality(LiveAt(t))
                                           ELSE Cardinality(LiveAt(t)) + 1
  BY FS_AddElement
<1>8. Cardinality(LiveAt(t)) \in Nat
  BY FS_CardinalityType
<1>9. /\ IsFiniteSet(LiveAt(u))
      /\ Cardinality(LiveAt(u)) = Cardinality(LiveAt(t)) + (IF r.isNew THEN 1 ELSE 0)
  BY <1>1, <1>4, <1>6, <1>7, <1>8
<1> QED BY <1>4, <1>5, <1>9 DEF q, u

\* What a successful emplace leaves: the invariant, and the entries with k's set.
LEMMA EmplaceStep ==
  ASSUME Inv, NEW k \in Keys, NEW v \in Vals, Emplace(k, v)
  PROVE  /\ Inv'
         /\ \/ UNCHANGED <<slots, capacity>>
            \/ Entries(slots') = {e \in Entries(slots) : e[1] # k} \cup {<<k, v>>}
<1> DEFINE c == Grown
           t == IF c = capacity THEN slots ELSE Rehash(slots, capacity, c)
           n == IF c = capacity THEN size ELSE Cardinality(LiveAt(slots))
           r == FindOrInsert(t, c, k)
<1>1. c <= MaxCapacity /\ fault = FALSE
  BY DEF Emplace, Inv, TypeOK
<1>2. c \in Nat \ {0} /\ IsPow2(c) /\ (c = capacity \/ c > capacity)
  BY <1>1, GrownCapacity
<1>3. capacity \in Nat
  BY InvFacts
<1>4. /\ Sound(t, c) /\ Entries(t) = Entries(slots)
      /\ IsFiniteSet(LiveAt(t)) /\ n = Cardinality(LiveAt(t)) /\ n \in Nat
  <2>1. \/ c = capacity /\ t = slots /\ n = size
        \/ c > capacity /\ t = Rehash(slots, capacity, c) /\ n = Cardinality(LiveAt(slots))
    BY <1>2, <1>3
  <2> HIDE DEF c, t, n
  <2> QED BY <1>2, <2>1, WorkingTable
<1>5. CASE Stops(t, c, k) = {}
  <2>1. UNCHANGED <<slots, capacity, size>> /\ fault' = TRUE
    BY <1>5 DEF Emplace
  <2> QED BY <2>1 DEF Inv, TypeOK, Good, Counted
<1>6. CASE Stops(t, c, k) # {}
  <2> DEFINE u == Put(t, r.pos, k, v)
             m == n + (IF r.isNew THEN 1 ELSE 0)
  <2>1. slots' = u /\ capacity' = c /\ size' = m /\ fault' \in BOOLEAN
    BY <1>1, <1>6 DEF Emplace, Put
  <2>2. /\ Sound(u, c) /\ Entries(u) = {e \in Entries(t) : e[1] # k} \cup {<<k, v>>}
        /\ IsFiniteSet(LiveAt(u)) /\ m = Cardinality(LiveAt(u))
    <3>1. r = FindOrInsert(t, c, k)
      OBVIOUS
    <3> HIDE DEF c, t, n, r
    <3> QED BY <1>2, <1>4, <1>6, <3>1, PutKeepsSound
  <2> HIDE DEF c, t, n, r, u, m
  <2>3. Inv'
    BY <1>2, <2>1, <2>2, InvFromSound
  <2> QED BY <1>4, <2>1, <2>2, <2>3
<1> QED BY <1>5, <1>6

\* erase of a key that is there removes its entry and no other.
LEMMA EraseStep ==
  ASSUME Inv, NEW k \in Keys, Erase(k)
  PROVE  Inv' /\ capacity' = capacity /\ Entries(slots') = {e \in Entries(slots) : e[1] # k}
<1> DEFINE i == Find(slots, capacity, k)
           u == Buried(slots, i)
<1>1. /\ i # NotFound /\ slots' = u /\ size' = size - 1 /\ capacity' = capacity
      /\ fault' = fault /\ capacity > 0
  BY DEF Erase, Buried
<1>2. capacity \in Nat \ {0} /\ Sound(slots, capacity) /\ IsPow2(capacity) /\ fault \in BOOLEAN
  BY <1>1 DEF Inv, Good, TypeOK
<1>3. i \in LiveAt(slots) /\ Holds(slots, i, k)
  BY <1>1, <1>2, FindIsExact
<1> HIDE DEF i
<1>4. /\ Sound(u, capacity) /\ LiveAt(u) = LiveAt(slots) \ {i}
      /\ \A p \in LiveAt(u) : u[p] = slots[p]
  BY <1>2, <1>3, TombstoneKeepsSound
<1> HIDE DEF u
<1>5. IsFiniteSet(LiveAt(slots)) /\ size = Cardinality(LiveAt(slots))
  BY InvFacts
<1>6. IsFiniteSet(LiveAt(u)) /\ Cardinality(LiveAt(u)) = size - 1
  <2>1. /\ IsFiniteSet(LiveAt(slots) \ {i})
        /\ Cardinality(LiveAt(slots) \ {i}) = IF i \in LiveAt(slots) THEN Cardinality(LiveAt(slots)) - 1
                                              ELSE Cardinality(LiveAt(slots))
    BY <1>5, FS_RemoveElement
  <2> QED BY <1>3, <1>4, <1>5, <2>1
<1>7. Inv'
  BY <1>1, <1>2, <1>4, <1>6, InvFromSound
<1>8. Entries(u) = {e \in Entries(slots) : e[1] # k}
  <2>1. \A p \in LiveAt(slots) : slots[p].key = k <=> p = i
    BY <1>2, <1>3 DEF Sound, NoTwin, Holds
  <2> QED BY <1>4, <2>1 DEF Entries
<1> QED BY <1>1, <1>7, <1>8

\* clear empties every slot (SwissTable.hpp:113-118).
LEMMA ClearStep ==
  ASSUME Inv, Clear
  PROVE  Inv' /\ Entries(slots') = {}
<1>1. capacity \in Nat \ {0} /\ IsPow2(capacity) /\ DOMAIN slots = 0..(capacity - 1) /\ fault \in BOOLEAN
  BY DEF Clear, Inv, TypeOK, Good
<1>2. /\ slots' = Fresh(capacity) /\ capacity' = capacity /\ size' = 0 /\ fault' = fault
  BY <1>1 DEF Clear, Fresh
<1>3. Sound(Fresh(capacity), capacity) /\ LiveAt(Fresh(capacity)) = {}
  BY <1>1, FreshIsSound
<1>4. Inv'
  BY <1>1, <1>2, <1>3, FS_EmptySet, InvFromSound
<1> QED BY <1>2, <1>3, <1>4 DEF Entries

\* reserve rehashes into a larger table or does nothing (SwissTable.hpp:56-59).
LEMMA ReserveStep ==
  ASSUME Inv, NEW n \in 1..MaxCapacity, Reserve(n)
  PROVE  Inv' /\ Entries(slots') = Entries(slots)
<1> DEFINE W == {p \in 1..MaxCapacity : IsPow2(p) /\ p >= (n * 8 + 6) \div 7 /\ p >= MinCapacity}
                  \cup {2 * MaxCapacity}
           want == Min(W)
<1>1. MaxCapacity \in Nat \ {0}
  BY CapacityAssumption
<1>2. want \in W
  <2>1. W \subseteq Nat /\ W # {}
    BY <1>1
  <2> HIDE DEF W
  <2> QED BY <2>1, LeastElement
<1>3. /\ want > capacity /\ want <= MaxCapacity /\ slots' = Rehash(slots, capacity, want)
      /\ capacity' = want /\ size' = Cardinality(LiveAt(slots)) /\ fault' = fault
  BY DEF Reserve
<1>4. want \in Nat \ {0} /\ IsPow2(want)
  <2>1. want # 2 * MaxCapacity
    <3> HIDE DEF want
    <3> QED BY <1>1, <1>3
  <2> HIDE DEF want
  <2> QED BY <1>1, <1>2, <2>1
<1> HIDE DEF want
<1>5. /\ Sound(slots', want) /\ Entries(slots') = Entries(slots)
      /\ IsFiniteSet(LiveAt(slots')) /\ size' = Cardinality(LiveAt(slots'))
  BY <1>3, <1>4, WorkingTable
<1>6. fault' \in BOOLEAN
  BY <1>3 DEF Inv, TypeOK
<1>7. Inv'
  BY <1>3, <1>4, <1>5, <1>6, InvFromSound
<1> QED BY <1>5, <1>7

\* A new table has no slots (SwissTable.hpp:190-193).
LEMMA InitInv ==
  ASSUME Init
  PROVE  Inv /\ \A k \in Keys : Lookup(k) = NoVal
<1>1. DOMAIN slots = {} /\ LiveAt(slots) = {} /\ capacity = 0 /\ size = 0 /\ fault = FALSE
  BY DEF Init, LiveAt
<1>2. 0..(capacity - 1) = {}
  BY <1>1
<1>3. Counted
  BY <1>1, FS_EmptySet DEF Counted
<1>4. Good(slots, capacity)
  BY <1>1, <1>2 DEF Good
<1>5. TypeOK
  BY <1>1 DEF TypeOK
<1> QED BY <1>1, <1>3, <1>4, <1>5 DEF Inv, Lookup

\* Every operation keeps the invariant.
LEMMA NextInv ==
  ASSUME Inv, [Next]_vars
  PROVE  Inv'
<1>1. ASSUME NEW k \in Keys, NEW v \in Vals, Emplace(k, v) PROVE Inv'
  BY <1>1, EmplaceStep
<1>2. ASSUME NEW k \in Keys, Erase(k) PROVE Inv'
  BY <1>2, EraseStep
<1>3. CASE Clear
  BY <1>3, ClearStep
<1>4. ASSUME NEW n \in 1..MaxCapacity, Reserve(n) PROVE Inv'
  BY <1>4, ReserveStep
<1>5. CASE UNCHANGED vars
  BY <1>5 DEF vars, Inv, TypeOK, Good, Counted
<1> QED BY <1>1, <1>2, <1>3, <1>4, <1>5 DEF Next

-----------------------------------------------------------------------------
(* The theorems.                                                           *)

\* The invariant holds in every state.
LEMMA InvHolds == Spec => []Inv
<1>1. Init => Inv
  BY InitInv
<1>2. Inv /\ [Next]_vars => Inv'
  BY NextInv
<1> QED BY <1>1, <1>2, PTL DEF Spec

\* A table always has its capacity of slots, each empty, a tombstone or an entry.
THEOREM TypeCorrect == Spec => []TypeOK
<1>1. Inv => TypeOK
  BY DEF Inv
<1> QED BY <1>1, InvHolds, PTL

\* Whatever was inserted, erased and rehashed before, no key is live twice and
\* size_ is the number of live slots.
THEOREM OneSlotPerKeyHolds == Spec => []OneSlotPerKey
<1>1. Inv => OneSlotPerKey
  BY InvFacts DEF OneSlotPerKey, NoTwin
<1> QED BY <1>1, InvHolds, PTL

\* Tombstones and their reuse never cut a live entry off from its probe.
THEOREM ProbePathUnbrokenHolds == Spec => []ProbePathUnbroken
<1>1. ASSUME Inv PROVE ProbePathUnbroken
  <2>1. SUFFICES ASSUME NEW p \in LiveAt(slots)
                 PROVE  Find(slots, capacity, slots[p].key) = p
    BY DEF ProbePathUnbroken
  <2>2. capacity \in Nat \ {0} /\ p \in 0..(capacity - 1) /\ Sound(slots, capacity)
    BY <1>1 DEF Inv, Good, LiveAt
  <2>3. slots[p].key \in Keys /\ Holds(slots, p, slots[p].key)
    BY <1>1, <2>2, InvFacts, SlotKinds DEF LiveAt, Holds
  <2> QED BY <2>2, <2>3, FindIsExact
<1> QED BY <1>1, InvHolds, PTL

\* After the load test there is room for one entry more (SwissTable.hpp:64-66).
LEMMA GrownLeavesRoom ==
  ASSUME Inv, LoadLeavesRoom, Grown <= MaxCapacity
  PROVE  8 * (size + 1) < 7 * Grown
<1>1. capacity \in Nat /\ size \in Nat /\ (capacity = 0 => size = 0)
  BY InvFacts, FS_EmptySet DEF Inv, TypeOK, LiveAt
<1>2. MinCapacity \in Nat /\ MinCapacity >= 2
  BY CapacityAssumption DEF IsPow2
<1>3. capacity > 0 => 8 * size < 7 * capacity
  BY DEF LoadLeavesRoom
<1>4. CASE ~ MustGrow
  BY <1>1, <1>4 DEF MustGrow, Grown
<1>5. CASE MustGrow /\ capacity = 0
  BY <1>1, <1>2, <1>5 DEF Grown
<1>6. CASE MustGrow /\ capacity # 0
  BY <1>1, <1>3, <1>6 DEF Grown
<1> QED BY <1>4, <1>5, <1>6

\* A probe that runs off its loop met a tombstone in every slot but the live ones:
\* a table without tombstones, copied or not, has an EMPTY slot left.
LEMMA FaultNeedsTombstone ==
  ASSUME Inv, NEW c \in Nat \ {0}, NEW t, NEW n, 8 * (size + 1) < 7 * c,
         \/ c = capacity /\ t = slots /\ n = size
         \/ c > capacity /\ t = Rehash(slots, capacity, c) /\ n = Cardinality(LiveAt(slots)),
         NEW k \in Keys, Stops(t, c, k) = {}
  PROVE  \E i \in DOMAIN slots : slots[i] = Deleted
<1> SUFFICES ASSUME \A i \in DOMAIN slots : slots[i] # Deleted PROVE FALSE
  OBVIOUS
<1>1. t \in Table(c) /\ n = Cardinality(LiveAt(t)) /\ n \in Nat
  BY WorkingTable DEF Sound
<1>2. n = size
  BY InvFacts
<1>3. \A p \in 0..(c - 1) : t[p] # Deleted
  <2>1. CASE c = capacity /\ t = slots
    BY <2>1, InvFacts
  <2>2. CASE c > capacity /\ t = Rehash(slots, capacity, c)
    BY <2>2, InvFacts, RehashCopiesAll
  <2> QED BY <2>1, <2>2
<1>4. Cardinality(LiveAt(t)) < c
  BY <1>1, <1>2
<1> QED BY <1>1, <1>3, <1>4, RoomToStop

\* A larger table has room for as many entries.
LEMMA LargerLeavesRoom ==
  ASSUME NEW c \in Nat, NEW d \in Nat, d > c, NEW n \in Nat,
         c = 0 => n = 0, c > 0 => 8 * n < 7 * c
  PROVE  8 * n < 7 * d
<1>1. CASE c = 0
  BY <1>1
<1>2. CASE c > 0
  <2>1. 8 * n < 7 * c /\ 7 * c < 7 * d
    BY <1>2
  <2> QED BY <2>1
<1> QED BY <1>1, <1>2

\* Every operation keeps the load below 7/8.
LEMMA NextLeavesRoom ==
  ASSUME Inv, LoadLeavesRoom, [Next]_vars
  PROVE  LoadLeavesRoom'
<1>1. capacity \in Nat /\ size \in Nat /\ (capacity = 0 => size = 0)
  BY InvFacts, FS_EmptySet DEF Inv, TypeOK, LiveAt
<1>2. ASSUME NEW k \in Keys, NEW v \in Vals, Emplace(k, v) PROVE LoadLeavesRoom'
  <2> DEFINE c == Grown
             t == IF c = capacity THEN slots ELSE Rehash(slots, capacity, c)
             n == IF c = capacity THEN size ELSE Cardinality(LiveAt(slots))
             r == FindOrInsert(t, c, k)
  <2>1. c <= MaxCapacity /\ fault = FALSE
    BY <1>2 DEF Emplace, Inv, TypeOK
  <2>2. c \in Nat \ {0} /\ (c = capacity \/ c > capacity) /\ 8 * (size + 1) < 7 * c
    BY <2>1, GrownCapacity, GrownLeavesRoom
  <2>3. \/ c = capacity /\ t = slots /\ n = size
        \/ c > capacity /\ t = Rehash(slots, capacity, c) /\ n = Cardinality(LiveAt(slots))
    BY <1>1, <2>2
  <2>4. n = size
    BY InvFacts
  <2>5. CASE Stops(t, c, k) = {}
    <3>1. UNCHANGED <<slots, capacity, size>>
      BY <1>2, <2>5 DEF Emplace
    <3>2. \E i \in DOMAIN slots : slots[i] = Deleted
      <4> HIDE DEF c, t, n
      <4> QED BY <2>2, <2>3, <2>5, FaultNeedsTombstone
    <3> QED BY <3>1, <3>2 DEF LoadLeavesRoom
  <2>6. CASE Stops(t, c, k) # {}
    <3>1. /\ capacity' = c /\ fault' = FALSE
          /\ size' = n + (IF r.isNew THEN 1 ELSE 0)
      BY <1>2, <2>1, <2>6 DEF Emplace
    <3> HIDE DEF c, n, r
    <3> QED BY <1>1, <2>2, <2>4, <3>1 DEF LoadLeavesRoom
  <2> QED BY <2>5, <2>6
<1>3. ASSUME NEW k \in Keys, Erase(k) PROVE LoadLeavesRoom'
  <2>1. size' = size - 1 /\ capacity' = capacity /\ fault' = FALSE
    BY <1>3 DEF Erase, Inv, TypeOK
  <2> QED BY <1>1, <2>1 DEF LoadLeavesRoom
<1>4. CASE Clear
  <2>1. size' = 0 /\ capacity' = capacity /\ fault' = FALSE
    BY <1>4 DEF Clear, Inv, TypeOK
  <2> QED BY <1>1, <2>1 DEF LoadLeavesRoom
<1>5. ASSUME NEW n \in 1..MaxCapacity, Reserve(n) PROVE LoadLeavesRoom'
  <2>1. /\ capacity' > capacity /\ capacity' \in Nat
        /\ size' = Cardinality(LiveAt(slots)) /\ fault' = FALSE
    BY <1>5, ReserveStep DEF Reserve, Inv, TypeOK, Good
  <2>2. size' = size
    BY <2>1, InvFacts
  <2>3. 8 * size < 7 * capacity'
    <3>1. capacity > 0 => 8 * size < 7 * capacity
      BY DEF LoadLeavesRoom
    <3>2. capacity' > capacity /\ capacity' \in Nat
      BY <2>1
    <3> QED BY <1>1, <3>1, <3>2, LargerLeavesRoom
  <2> QED BY <2>1, <2>2, <2>3 DEF LoadLeavesRoom
<1>6. CASE UNCHANGED vars
  BY <1>6 DEF vars, LoadLeavesRoom
<1> QED BY <1>2, <1>3, <1>4, <1>5, <1>6 DEF Next

\* For every hash and capacity, only tombstones can take the last EMPTY slot: the
\* live entries stay below 7/8 of the table through every insert and rehash.
THEOREM LoadLeavesRoomHolds == Spec => []LoadLeavesRoom
<1>1. Init => LoadLeavesRoom
  BY DEF Init, LoadLeavesRoom
<1>2. Inv /\ LoadLeavesRoom /\ [Next]_vars => LoadLeavesRoom'
  BY NextLeavesRoom
<1> QED BY <1>1, <1>2, InvHolds, PTL DEF Spec

\* A step that leaves the entries of k alone leaves what get(k) returns alone.
LEMMA LookupKept ==
  ASSUME Inv, Inv', NEW k \in Keys, \A v : <<k, v>> \in Entries(slots) <=> <<k, v>> \in Entries(slots')
  PROVE  Lookup(k)' = Lookup(k)
<1>1. Good(slots, capacity) /\ Good(slots', capacity')
  BY DEF Inv
<1>2. Found(slots, capacity, k) = Found(slots', capacity', k)
  BY <1>1, SameEntriesSameFound
<1> QED BY <1>2 DEF Lookup, Found

\* get answers with the entry of the key, or with none (SwissTable.hpp:96-104).
LEMMA LookupIsEntry ==
  ASSUME Inv', NEW k \in Keys
  PROVE  /\ \A v : <<k, v>> \in Entries(slots') => Lookup(k)' = v
         /\ (\A v : <<k, v>> \notin Entries(slots')) => Lookup(k)' = NoVal
<1>1. Good(slots', capacity')
  BY DEF Inv
<1>2. /\ \A v : <<k, v>> \in Entries(slots') => Found(slots', capacity', k) = v
      /\ (\A v : <<k, v>> \notin Entries(slots')) => Found(slots', capacity', k) = NoVal
  BY <1>1, FoundIsEntry
<1> QED BY <1>2 DEF Lookup, Found

\* Each operation is the map's operation as get sees it: emplace sets one key,
\* erase forgets one, clear forgets all, reserve changes nothing.
LEMMA StepIsMapStep ==
  ASSUME Inv, Inv', [Next]_vars
  PROVE  [Abs!AbsNext]_([k \in Keys |-> Lookup(k)])
<1> DEFINE map == [k \in Keys |-> Lookup(k)]
<1>1. ASSUME NEW k \in Keys, NEW v \in Vals, Emplace(k, v)
      PROVE  map' = [map EXCEPT ![k] = v] \/ map' = map
  <2>1. CASE UNCHANGED <<slots, capacity>>
    BY <2>1 DEF Lookup
  <2>2. CASE Entries(slots') = {e \in Entries(slots) : e[1] # k} \cup {<<k, v>>}
    <3>1. Lookup(k)' = v
      BY <2>2, LookupIsEntry
    <3>2. ASSUME NEW j \in Keys, j # k PROVE Lookup(j)' = Lookup(j)
      BY <2>2, <3>2, LookupKept
    <3> QED BY <3>1, <3>2
  <2> QED BY <1>1, <2>1, <2>2, EmplaceStep
<1>2. ASSUME NEW k \in Keys, Erase(k)
      PROVE  map' = [map EXCEPT ![k] = NoVal]
  <2>1. Entries(slots') = {e \in Entries(slots) : e[1] # k}
    BY <1>2, EraseStep
  <2>2. Lookup(k)' = NoVal
    BY <2>1, LookupIsEntry
  <2>3. ASSUME NEW j \in Keys, j # k PROVE Lookup(j)' = Lookup(j)
    BY <2>1, <2>3, LookupKept
  <2> QED BY <2>2, <2>3
<1>3. CASE Clear
  <2>1. \A k \in Keys : Lookup(k)' = NoVal
    BY <1>3, ClearStep, LookupIsEntry
  <2> QED BY <2>1 DEF Abs!AbsNext, Abs!AbsClear
<1>4. ASSUME NEW n \in 1..MaxCapacity, Reserve(n) PROVE map' = map
  BY <1>4, ReserveStep, LookupKept
<1>5. CASE UNCHANGED vars
  BY <1>5 DEF vars, Lookup
<1> QED BY <1>1, <1>2, <1>3, <1>4, <1>5 DEF Next, Abs!AbsNext, Abs!AbsPut, Abs!AbsErase

\* The table implements the map of AbsMap: growth, tombstones and probing are
\* invisible through get.
THEOREM MapRefinement == Spec => ImplementsMap
<1>1. Init => Abs!AbsInit
  BY InitInv DEF Abs!AbsInit
<1>2. Inv /\ Inv' /\ [Next]_vars => [Abs!AbsNext]_([k \in Keys |-> Lookup(k)])
  BY StepIsMapStep
<1> QED BY <1>1, <1>2, InvHolds, PTL DEF Spec, ImplementsMap, Abs!AbsSpec
=============================================================================
