------------------------------ MODULE PciProofs ------------------------------
(***************************************************************************)
(* Proofs about Pci and the list of Bus, for any finite set of devices,    *)
(* any size of the BARs and any sequence of configuration writes.          *)
(*                                                                         *)
(* What a walk along the list meets is shown by induction.  The induction  *)
(* is the least-element principle for sets of naturals.                    *)
(***************************************************************************)
EXTENDS Pci, TLAPS, FiniteSetTheorems

(* The order of the naturals, as a set of pairs.                           *)
Below == {p \in Nat \X Nat : p[1] < p[2]}

(* A set of naturals that is not empty has a least element.                *)
LEMMA LeastElement ==
  ASSUME NEW S \in SUBSET Nat, S # {}
  PROVE  \E x \in S : \A y \in S : x <= y
<1>1. IsWellFoundedOn(Below, Nat)
  BY NatLessThanWellFounded DEF OpToRel, Below
<1>2. PICK x \in S : \A y \in S : ~(<<y, x>> \in Below)
  BY <1>1, WFMin, Zenon
<1>3. ASSUME NEW y \in S PROVE x <= y
  <2>1. <<y, x>> \in Nat \X Nat /\ <<y, x>>[1] = y /\ <<y, x>>[2] = x
    OBVIOUS
  <2>2. ~(y < x)
    BY <1>2, <2>1, Zenon DEF Below
  <2> QED
    BY <2>2
<1> QED
  BY <1>3

-----------------------------------------------------------------------------
(* A bus holds the n devices s[1], ..., s[n], in this order.               *)
Nth(n, s, i) == IF i \in 1 .. n THEN s[i] ELSE NULL

List(b, n, s) ==
    /\ n \in Nat
    /\ s \in [1 .. n -> Devs]
    /\ \A i, j \in 1 .. n : s[i] = s[j] => i = j
    /\ b.head = Nth(n, s, 1)
    /\ \A i \in 1 .. n : b.next[s[i]] = Nth(n, s, i + 1)

(* No list is longer than the set of devices.                              *)
LEMMA ListLength ==
  ASSUME NEW b, NEW n, NEW s, List(b, n, s)
  PROVE  Cardinality(Devs) \in Nat /\ n <= Cardinality(Devs)
<1>1. Cardinality(Devs) \in Nat /\ IsFiniteSet(Devs)
  BY BusAssumption, FS_CardinalityType
<1>2. n \in Nat /\ s \in [1 .. n -> Devs] /\ \A i, j \in 1 .. n : s[i] = s[j] => i = j
  BY DEF List
<1>3. IsFiniteSet(1 .. n) /\ Cardinality(1 .. n) = n
  BY <1>2, FS_Interval
<1>4. SUFFICES ASSUME Cardinality(Devs) < n PROVE FALSE
  BY <1>1, <1>2
<1>5. \E x, y \in 1 .. n : x # y /\ s[x] = s[y]
  BY <1>1, <1>2, <1>3, <1>4, FS_PigeonHole
<1> QED
  BY <1>2, <1>5

(* Following the next pointers from the head meets the devices of the list *)
(* in order and then NULL.                                                 *)
LEMMA WalkList ==
  ASSUME NEW b, NEW n, NEW s, List(b, n, s)
  PROVE  \A k \in Steps : Walk(b)[k] = Nth(n, s, k + 1)
<1> DEFINE G(w) == [k \in Steps |->
                      IF k = 0 THEN b.head
                      ELSE IF w[k - 1] = NULL THEN NULL ELSE b.next[w[k - 1]]]
<1> DEFINE F == [k \in Steps |-> Nth(n, s, k + 1)]
<1> DEFINE W == Walk(b)
<1>0. Cardinality(Devs) \in Nat /\ n \in Nat /\ n <= Cardinality(Devs)
  <2>1. n \in Nat
    BY DEF List
  <2> QED
    BY <2>1, ListLength
<1>1. W = CHOOSE w : w = G(w)
  BY Zenon DEF Walk
<1>2. F = G(F)
  <2>1. ASSUME NEW k \in Steps
        PROVE  F[k] = IF k = 0 THEN b.head
                      ELSE IF F[k - 1] = NULL THEN NULL ELSE b.next[F[k - 1]]
    <3>1. CASE k = 0
      BY <3>1 DEF List
    <3>2. CASE k # 0
      <4>1. k - 1 \in Steps /\ k \in Nat /\ (k - 1) + 1 = k
        BY <1>0, <3>2 DEF Steps
      <4>2. F[k - 1] = Nth(n, s, k) /\ F[k] = Nth(n, s, k + 1)
        BY <4>1
      <4>3. CASE k \in 1 .. n
        <5>1. Nth(n, s, k) = s[k] /\ s[k] \in Devs /\ s[k] # NULL
          BY <4>3, BusAssumption DEF Nth, List
        <5>2. b.next[s[k]] = Nth(n, s, k + 1)
          BY <4>3 DEF List
        <5> QED
          BY <3>2, <4>2, <5>1, <5>2, Zenon
      <4>4. CASE k \notin 1 .. n
        <5>1. k + 1 \notin 1 .. n
          BY <1>0, <3>2, <4>1, <4>4
        <5> QED
          BY <3>2, <4>2, <4>4, <5>1, Zenon DEF Nth
      <4> QED
        BY <4>3, <4>4
    <3> QED
      BY <3>1, <3>2
  <2> QED
    BY <2>1, Zenon
<1>3. W = G(W)
  <2> HIDE DEF W, G, F
  <2>1. \E w : w = G(w)
    BY <1>2, Zenon
  <2> QED
    BY <1>1, <2>1, Zenon
<1>4. SUFFICES ASSUME {k \in Steps : W[k] # F[k]} # {} PROVE FALSE
  BY Zenon
<1> DEFINE T == {k \in Steps : W[k] # F[k]}
<1>5. PICK k \in T : \A j \in T : k <= j
  <2>1. T \in SUBSET Nat
    BY <1>0 DEF Steps
  <2> QED
    BY <1>4, <2>1, LeastElement, Zenon
<1>6. k \in Steps /\ W[k] # F[k]
  BY <1>5
<1>7. W[k] = IF k = 0 THEN b.head ELSE IF W[k - 1] = NULL THEN NULL ELSE b.next[W[k - 1]]
  BY <1>3, <1>6, Zenon
<1>8. F[k] = IF k = 0 THEN b.head ELSE IF F[k - 1] = NULL THEN NULL ELSE b.next[F[k - 1]]
  BY <1>2, <1>6, Zenon
<1>9. k # 0 => W[k - 1] = F[k - 1]
  <2>1. k # 0 => k - 1 \in Steps /\ ~(k <= k - 1)
    BY <1>0, <1>6 DEF Steps
  <2> QED
    BY <1>5, <2>1, Zenon
<1> QED
  BY <1>6, <1>7, <1>8, <1>9, Zenon

(* The devices of the list are the ones on the bus, and the walk ends.     *)
LEMMA ListOnBus ==
  ASSUME NEW b, NEW n, NEW s, List(b, n, s)
  PROVE  OnBus(b) = {s[i] : i \in 1 .. n} /\ Terminates(b)
<1>1. Cardinality(Devs) \in Nat /\ n <= Cardinality(Devs)
  BY ListLength
<1>2. n \in Nat /\ s \in [1 .. n -> Devs]
  BY DEF List
<1>3. \A k \in Steps : Walk(b)[k] = Nth(n, s, k + 1)
  BY WalkList
<1>4. Terminates(b)
  <2>1. Cardinality(Devs) \in Steps /\ Cardinality(Devs) + 1 \notin 1 .. n
    BY <1>1, <1>2 DEF Steps
  <2> QED
    BY <1>3, <2>1, Zenon DEF Terminates, Nth
<1>5. ASSUME NEW k \in Steps, Walk(b)[k] # NULL
      PROVE  k + 1 \in 1 .. n /\ Walk(b)[k] = s[k + 1]
  BY <1>3, <1>5, Zenon DEF Nth
<1>6. ASSUME NEW i \in 1 .. n
      PROVE  i - 1 \in Steps /\ Walk(b)[i - 1] = s[i] /\ s[i] # NULL
  <2>1. i - 1 \in Steps /\ (i - 1) + 1 = i
    BY <1>1, <1>2 DEF Steps
  <2>2. s[i] \in Devs
    BY <1>2
  <2> QED
    BY <1>3, <2>1, <2>2, BusAssumption, Zenon DEF Nth
<1>7. OnBus(b) \subseteq {s[i] : i \in 1 .. n}
  BY <1>5, Zenon DEF OnBus
<1>8. {s[i] : i \in 1 .. n} \subseteq OnBus(b)
  BY <1>6, Zenon DEF OnBus
<1> QED
  BY <1>4, <1>7, <1>8, Zenon

(* bus_register_dev of a device that is not on the list puts it in front.  *)
LEMMA RegisterList ==
  ASSUME NEW b \in Buses, NEW n, NEW s, List(b, n, s),
         NEW d \in Devs, \A i \in 1 .. n : s[i] # d
  PROVE  /\ bus_register_dev(b, d) \in Buses
         /\ List(bus_register_dev(b, d), n + 1,
                 [i \in 1 .. n + 1 |-> IF i = 1 THEN d ELSE s[i - 1]])
<1> DEFINE c == bus_register_dev(b, d)
<1> DEFINE t == [i \in 1 .. n + 1 |-> IF i = 1 THEN d ELSE s[i - 1]]
<1>1. /\ n \in Nat /\ s \in [1 .. n -> Devs]
      /\ \A i, j \in 1 .. n : s[i] = s[j] => i = j
      /\ b.head = Nth(n, s, 1)
      /\ \A i \in 1 .. n : b.next[s[i]] = Nth(n, s, i + 1)
  BY Zenon DEF List
<1>2. b.next \in [Devs -> Pointers] /\ b.head \in Pointers
  BY DEF Buses
<1>3. c.head = d /\ c.next = [b.next EXCEPT ![d] = b.head]
  BY DEF bus_register_dev
<1>4. c \in Buses
  BY <1>2, Zenon DEF bus_register_dev, Buses, Pointers
<1>5. t[1] = d /\ 1 \in 1 .. n + 1
  BY <1>1
<1>6. ASSUME NEW i \in 1 .. n + 1, i # 1
      PROVE  i - 1 \in 1 .. n /\ t[i] = s[i - 1]
  BY <1>1, <1>6
<1> HIDE DEF t, c
<1>7. t \in [1 .. n + 1 -> Devs]
  BY <1>1, <1>5, <1>6 DEF t
<1>8. ASSUME NEW i \in 1 .. n + 1, NEW j \in 1 .. n + 1, t[i] = t[j] PROVE i = j
  <2>1. CASE i = 1 /\ j # 1
    BY <1>5, <1>6, <1>8, <2>1, Zenon
  <2>2. CASE i # 1 /\ j = 1
    BY <1>5, <1>6, <1>8, <2>2, Zenon
  <2>3. CASE i # 1 /\ j # 1
    <3>1. i - 1 \in 1 .. n /\ j - 1 \in 1 .. n /\ s[i - 1] = s[j - 1]
      BY <1>6, <1>8, <2>3
    <3>2. i - 1 = j - 1
      BY <1>1, <3>1, Zenon
    <3> QED
      BY <1>1, <3>2
  <2> QED
    BY <2>1, <2>2, <2>3
<1>9. c.head = Nth(n + 1, t, 1)
  BY <1>3, <1>5, Zenon DEF Nth
<1>10. ASSUME NEW i \in 1 .. n + 1 PROVE c.next[t[i]] = Nth(n + 1, t, i + 1)
  <2>1. i \in 1 .. n => i + 1 \in 1 .. n + 1 /\ i + 1 # 1 /\ (i + 1) - 1 = i
    BY <1>1
  <2>2. i \notin 1 .. n => i + 1 \notin 1 .. n + 1
    BY <1>1
  <2>3. Nth(n + 1, t, i + 1) = Nth(n, s, i)
    BY <1>6, <2>1, <2>2, Zenon DEF Nth
  <2>4. CASE i = 1
    BY <1>1, <1>2, <1>3, <1>5, <2>3, <2>4, Zenon
  <2>5. CASE i # 1
    <3>1. i - 1 \in 1 .. n /\ t[i] = s[i - 1] /\ (i - 1) + 1 = i
      BY <1>1, <1>6, <2>5
    <3>2. s[i - 1] # d /\ s[i - 1] \in Devs
      BY <1>1, <3>1, Zenon
    <3>3. c.next[s[i - 1]] = b.next[s[i - 1]]
      BY <1>2, <1>3, <3>2, Zenon
    <3> QED
      BY <1>1, <2>3, <3>1, <3>3, Zenon
  <2> QED
    BY <2>4, <2>5
<1>11. n + 1 \in Nat
  BY <1>1
<1>12. List(c, n + 1, t)
  BY <1>7, <1>8, <1>9, <1>10, <1>11, Zenon DEF List
<1> QED
  BY <1>4, <1>12 DEF c, t

(* bus_deregister_dev of a device on the list takes it out, and leaves the *)
(* others in their order.                                                  *)
LEMMA DeregisterList ==
  ASSUME NEW b \in Buses, NEW n, NEW s, List(b, n, s), NEW m \in 1 .. n
  PROVE  /\ bus_deregister_dev(b, s[m]) \in Buses
         /\ List(bus_deregister_dev(b, s[m]), n - 1,
                 [i \in 1 .. n - 1 |-> IF i < m THEN s[i] ELSE s[i + 1]])
<1> DEFINE d == s[m]
<1> DEFINE c == bus_deregister_dev(b, d)
<1> DEFINE t == [i \in 1 .. n - 1 |-> IF i < m THEN s[i] ELSE s[i + 1]]
<1>1. /\ n \in Nat /\ s \in [1 .. n -> Devs]
      /\ \A i, j \in 1 .. n : s[i] = s[j] => i = j
      /\ b.head = Nth(n, s, 1)
      /\ \A i \in 1 .. n : b.next[s[i]] = Nth(n, s, i + 1)
  BY Zenon DEF List
<1>2. b.next \in [Devs -> Pointers] /\ b.head \in Pointers
  BY DEF Buses
<1>3. d \in Devs /\ d \in OnBus(b) /\ b.next[d] \in Pointers /\ b.next[d] = Nth(n, s, m + 1)
  <2>1. OnBus(b) = {s[i] : i \in 1 .. n}
    BY ListOnBus
  <2>2. d \in Devs
    BY <1>1
  <2> QED
    BY <1>1, <1>2, <2>1, <2>2, Zenon
<1>4. n \in Nat /\ m \in Nat /\ m >= 1 /\ m <= n /\ n - 1 \in Nat
  BY <1>1
<1>5. /\ c \in Buses
      /\ m = 1 => c.head = b.next[d] /\ c.next = b.next
      /\ m # 1 => c.head = b.head /\ c.next = [b.next EXCEPT ![s[m - 1]] = b.next[d]]
  <2>1. CASE m = 1
    <3>1. b.head = d
      BY <1>1, <2>1, Zenon DEF Nth
    <3>2. c = [b EXCEPT !.head = b.next[d]]
      BY <1>3, <3>1, Zenon DEF bus_deregister_dev
    <3> QED
      BY <1>2, <1>3, <2>1, <3>2 DEF Buses
  <2>2. CASE m # 1
    <3>1. 1 \in 1 .. n /\ m - 1 \in 1 .. n /\ m - 1 \in Steps \ {0} /\ (m - 1) + 1 = m
          /\ (m - 1) - 1 \in Steps /\ ((m - 1) - 1) + 1 = m - 1
      BY <1>1, <1>4, <2>2, ListLength DEF Steps
    <3>2. b.head # d
      BY <1>1, <2>2, <3>1, Zenon DEF Nth
    <3>3. \A k \in Steps : Walk(b)[k] = Nth(n, s, k + 1)
      BY WalkList
    <3>4. ASSUME NEW k \in Steps PROVE Walk(b)[k] = d <=> k = m - 1
      <4>1. k \in Nat
        BY ListLength DEF Steps
      <4>2. Walk(b)[k] = d => k + 1 \in 1 .. n /\ s[k + 1] = d
        BY <1>3, <3>3, BusAssumption, Zenon DEF Nth
      <4>3. Walk(b)[k] = d => k + 1 = m
        BY <1>1, <4>2, Zenon
      <4>4. k = m - 1 => Walk(b)[k] = d
        BY <3>1, <3>3, Zenon DEF Nth
      <4> QED
        BY <1>4, <4>1, <4>3, <4>4
    <3> DEFINE First(k) == /\ Walk(b)[k] = d
                           /\ \A j \in Steps : j < k => Walk(b)[j] # d
    <3>5. \A k \in Steps \ {0} : First(k) <=> k = m - 1
      <4>1. \A j \in Steps : j < m - 1 => j # m - 1
        BY <1>4, ListLength DEF Steps
      <4> QED
        BY <3>1, <3>4, <4>1, Zenon
    <3>6. (CHOOSE k \in Steps \ {0} : First(k)) = m - 1
      <4> HIDE DEF First
      <4> QED
        BY <3>1, <3>5, Zenon
    <3>7. Walk(b)[(m - 1) - 1] = s[m - 1]
      BY <3>1, <3>3, Zenon DEF Nth
    <3>8. c = [b EXCEPT !.next[Walk(b)[(m - 1) - 1]] = b.next[d]]
      BY <1>3, <3>2, <3>6, Zenon DEF bus_deregister_dev
    <3>9. c = [b EXCEPT !.next = [b.next EXCEPT ![s[m - 1]] = b.next[d]]]
      BY <3>7, <3>8, Zenon
    <3>10. [b.next EXCEPT ![s[m - 1]] = b.next[d]] \in [Devs -> Pointers]
      BY <1>2, <1>3, Zenon
    <3> QED
      BY <2>2, <3>9, <3>10 DEF Buses
  <2> QED
    BY <2>1, <2>2
<1>6. ASSUME NEW i \in 1 .. n - 1
      PROVE  /\ i < m => t[i] = s[i] /\ i \in 1 .. n
             /\ ~(i < m) => t[i] = s[i + 1] /\ i + 1 \in 1 .. n
  BY <1>1, <1>4
<1> HIDE DEF t, c
<1>7. t \in [1 .. n - 1 -> Devs]
  BY <1>1, <1>6 DEF t
<1>8. ASSUME NEW i \in 1 .. n - 1, NEW j \in 1 .. n - 1, t[i] = t[j] PROVE i = j
  <2>1. CASE i < m /\ j < m
    BY <1>1, <1>6, <1>8, <2>1, ZenonT(60)
  <2>2. CASE i < m /\ ~(j < m)
    <3>1. i \in 1 .. n /\ j + 1 \in 1 .. n /\ s[i] = s[j + 1]
      BY <1>6, <1>8, <2>2
    <3>2. i = j + 1
      BY <1>1, <3>1, Zenon
    <3> QED
      BY <1>4, <2>2, <3>2
  <2>3. CASE ~(i < m) /\ j < m
    <3>1. i + 1 \in 1 .. n /\ j \in 1 .. n /\ s[i + 1] = s[j]
      BY <1>6, <1>8, <2>3
    <3>2. i + 1 = j
      BY <1>1, <3>1, Zenon
    <3> QED
      BY <1>4, <2>3, <3>2
  <2>4. CASE ~(i < m) /\ ~(j < m)
    <3>1. i + 1 \in 1 .. n /\ j + 1 \in 1 .. n /\ s[i + 1] = s[j + 1]
      BY <1>6, <1>8, <2>4
    <3>2. i + 1 = j + 1
      BY <1>1, <3>1, Zenon
    <3> QED
      BY <1>4, <3>2
  <2> QED
    BY <2>1, <2>2, <2>3, <2>4
<1>9. ASSUME NEW i \in Nat
      PROVE  Nth(n - 1, t, i) = IF i < m THEN Nth(n, s, i) ELSE Nth(n, s, i + 1)
  <2>1. CASE i \in 1 .. n - 1
    BY <1>6, <2>1, Zenon DEF Nth
  <2>2. CASE i \notin 1 .. n - 1
    <3>1. i < m => i \notin 1 .. n
      BY <1>4, <2>2
    <3>2. ~(i < m) => i + 1 \notin 1 .. n
      BY <1>4, <2>2
    <3> QED
      BY <2>2, <3>1, <3>2, Zenon DEF Nth
  <2> QED
    BY <2>1, <2>2
<1>10. c.head = Nth(n - 1, t, 1)
  <2>1. 1 \in Nat /\ (1 < m <=> m # 1)
    BY <1>4
  <2>2. CASE m = 1
    BY <1>3, <1>5, <1>9, <2>1, <2>2, Zenon
  <2>3. CASE m # 1
    BY <1>1, <1>5, <1>9, <2>1, <2>3, Zenon
  <2> QED
    BY <2>2, <2>3
<1>11. ASSUME NEW i \in 1 .. n - 1 PROVE c.next[t[i]] = Nth(n - 1, t, i + 1)
  <2>1. i \in Nat /\ i + 1 \in Nat
    BY <1>4
  <2>2. CASE i + 1 < m
    <3>1. i < m /\ i # m - 1 /\ m - 1 \in 1 .. n /\ m # 1
      BY <1>4, <2>1, <2>2
    <3>2. t[i] = s[i] /\ s[i] # s[m - 1] /\ s[i] \in Devs /\ i \in 1 .. n
      BY <1>1, <1>6, <3>1, Zenon
    <3>3. c.next[s[i]] = b.next[s[i]]
      BY <1>2, <1>5, <3>1, <3>2, Zenon
    <3> QED
      BY <1>1, <1>9, <2>1, <2>2, <3>2, <3>3, Zenon
  <2>3. CASE i + 1 = m
    <3>1. i < m /\ i = m - 1 /\ m # 1 /\ ~(i + 1 < m)
      BY <1>4, <2>1, <2>3
    <3>2. t[i] = s[m - 1] /\ s[m - 1] \in Devs
      BY <1>1, <1>6, <3>1, Zenon
    <3>3. c.next[s[m - 1]] = b.next[d]
      BY <1>2, <1>5, <3>1, <3>2, Zenon
    <3> QED
      BY <1>3, <1>9, <2>1, <2>3, <3>1, <3>2, <3>3, Zenon
  <2>4. CASE ~(i < m)
    <3>1. ~(i + 1 < m) /\ m - 1 # i + 1 /\ (m # 1 => m - 1 \in 1 .. n)
      BY <1>4, <2>1, <2>4
    <3>2. t[i] = s[i + 1] /\ i + 1 \in 1 .. n /\ s[i + 1] \in Devs
      BY <1>1, <1>6, <2>4, Zenon
    <3>3. m # 1 => s[i + 1] # s[m - 1]
      BY <1>1, <3>1, <3>2, Zenon
    <3>4. c.next[s[i + 1]] = b.next[s[i + 1]]
      BY <1>2, <1>5, <3>2, <3>3, Zenon
    <3> QED
      BY <1>1, <1>9, <2>1, <3>1, <3>2, <3>4, Zenon
  <2> QED
    BY <1>4, <2>1, <2>2, <2>3, <2>4
<1>12. List(c, n - 1, t)
  BY <1>4, <1>7, <1>8, <1>10, <1>11, Zenon DEF List
<1> QED
  BY <1>5, <1>12 DEF c, t

(* On any bus, a knotted one included, both keep the pointers pointers.    *)
LEMMA BusTypes ==
  ASSUME NEW b \in Buses, NEW d \in Devs
  PROVE  bus_register_dev(b, d) \in Buses /\ bus_deregister_dev(b, d) \in Buses
<1>1. b.next \in [Devs -> Pointers] /\ b.head \in Pointers /\ b.next[d] \in Pointers
  BY DEF Buses
<1>2. bus_register_dev(b, d) \in Buses
  BY <1>1, Zenon DEF bus_register_dev, Buses, Pointers
<1>3. [b EXCEPT !.head = b.next[d]] \in Buses
  BY <1>1 DEF Buses
<1>4. ASSUME NEW x PROVE [b EXCEPT !.next[x] = b.next[d]] \in Buses
  <2>1. [b.next EXCEPT ![x] = b.next[d]] \in [Devs -> Pointers]
    BY <1>1, Zenon
  <2> QED
    BY <2>1 DEF Buses
<1> QED
  BY <1>2, <1>3, <1>4, Zenon DEF bus_deregister_dev

-----------------------------------------------------------------------------
(* The inductive invariant.  bar_active is a copy of the command bit, and, *)
(* until a device is stranded, the bus is a list without repetition of     *)
(* devices that decode memory; a device whose BAR was not moved while it   *)
(* was decoded is on it exactly while it decodes at a place.               *)
(* OnBusIffDecoding alone does not say that a device is met only once,     *)
(* which its removal relies on, nor that one that does not decode is not   *)
(* met, which its insertion relies on.                                     *)
In(n, s, d) == \E i \in 1 .. n : s[i] = d

Decodes(n, s) ==
    /\ \A d \in Devs : In(n, s, d) => mem[d]
    /\ \A d \in Devs \ moved : In(n, s, d) <=> mem[d] /\ Placed(d)

Listed ==
    \E n \in Steps : \E s \in [1 .. n -> Devs] : List(bus, n, s) /\ Decodes(n, s)

Inv ==
    /\ TypeOK
    /\ bar_active = mem
    /\ \A d \in moved : mem[d]
    /\ ~stranded => Listed

(* x & ~(bar_size - 1) is aligned, and an aligned address is left alone.   *)
LEMMA MaskedAligned ==
  ASSUME NEW x \in Nat
  PROVE  /\ Masked(x) \in Nat /\ Masked(x) % BarSize = 0
         /\ x % BarSize = 0 => Masked(x) = x
<1>1. /\ x \div BarSize \in Nat /\ x % BarSize \in 0 .. BarSize - 1
      /\ x = (x \div BarSize) * BarSize + (x % BarSize)
  BY PciAssumption
<1>2. Masked(x) = (x \div BarSize) * BarSize /\ Masked(x) \in Nat
  BY <1>1, PciAssumption DEF Masked
<1>3. ASSUME NEW q \in Nat PROVE (q * BarSize) % BarSize = 0
  BY PciAssumption
<1>4. Masked(x) % BarSize = 0
  BY <1>1, <1>2, <1>3
<1>5. x % BarSize = 0 => Masked(x) = x
  BY <1>1 DEF Masked
<1> QED
  BY <1>2, <1>4, <1>5

(* Before the guest runs, the bus is the empty list.                       *)
LEMMA InitInv == Init => Inv
<1> SUFFICES ASSUME Init PROVE Inv
  OBVIOUS
<1>1. TypeOK
  <2>1. base \in [Devs -> {a \in Nat : a % BarSize = 0}]
    BY PciAssumption DEF Init
  <2>2. bus \in Buses
    BY DEF Init, bus_init, Buses, Pointers
  <2> QED
    BY <2>1, <2>2, Zenon DEF Init, TypeOK
<1>2. List(bus, 0, [i \in 1 .. 0 |-> NULL])
  <2>1. \A i : i \notin 1 .. 0
    OBVIOUS
  <2>2. bus.head = NULL
    BY DEF Init, bus_init
  <2>3. [i \in 1 .. 0 |-> NULL] \in [1 .. 0 -> Devs]
    BY <2>1, Zenon
  <2> QED
    BY <2>1, <2>2, <2>3, Zenon DEF List, Nth
<1>3. Decodes(0, [i \in 1 .. 0 |-> NULL])
  <2>1. \A i : i \notin 1 .. 0
    OBVIOUS
  <2> QED
    BY <2>1, Zenon DEF Init, Decodes, In
<1>4. Listed
  <2>1. 0 \in Steps /\ \A i : i \notin 1 .. 0
    BY BusAssumption, FS_CardinalityType DEF Steps
  <2>2. [i \in 1 .. 0 |-> NULL] \in [1 .. 0 -> Devs]
    BY <2>1, Zenon
  <2> QED
    BY <1>2, <1>3, <2>1, <2>2, Zenon DEF Listed
<1> QED
  BY <1>1, <1>4 DEF Inv, Init

(* The list the invariant speaks of.                                       *)
LEMMA BusIsList ==
  ASSUME Inv, ~stranded
  PROVE  \E n, s : List(bus, n, s) /\ Decodes(n, s)
<1>1. PICK n \in Steps : \E s \in [1 .. n -> Devs] : List(bus, n, s) /\ Decodes(n, s)
  BY Zenon DEF Inv, Listed
<1> QED
  BY <1>1, Zenon

(* And how it is shown again after a step.                                 *)
LEMMA ListIsBus ==
  ASSUME NEW n, NEW s, List(bus', n, s), Decodes(n, s)'
  PROVE  Listed'
<1>1. n \in Steps /\ s \in [1 .. n -> Devs]
  <2>1. n \in Nat /\ s \in [1 .. n -> Devs]
    BY DEF List
  <2> QED
    BY <2>1, ListLength DEF Steps
<1> QED
  BY <1>1, Zenon DEF Listed

(* What is on the list after an insertion.                                 *)
LEMMA InFront ==
  ASSUME NEW n \in Nat, NEW s, NEW d, NEW e
  PROVE  In(n + 1, [i \in 1 .. n + 1 |-> IF i = 1 THEN d ELSE s[i - 1]], e)
           <=> e = d \/ In(n, s, e)
<1> DEFINE t == [i \in 1 .. n + 1 |-> IF i = 1 THEN d ELSE s[i - 1]]
<1>1. 1 \in 1 .. n + 1 /\ t[1] = d
  OBVIOUS
<1>2. \A i \in 1 .. n + 1 : i # 1 => i - 1 \in 1 .. n /\ t[i] = s[i - 1]
  OBVIOUS
<1>3. \A i \in 1 .. n : i + 1 \in 1 .. n + 1 /\ t[i + 1] = s[i]
  OBVIOUS
<1> HIDE DEF t
<1>4. ASSUME NEW i \in 1 .. n + 1, t[i] = e PROVE e = d \/ In(n, s, e)
  BY <1>1, <1>2, <1>4, Zenon DEF In
<1>5. ASSUME NEW j \in 1 .. n, s[j] = e PROVE In(n + 1, t, e)
  BY <1>3, <1>5, Zenon DEF In
<1>6. In(n + 1, t, e) <=> e = d \/ In(n, s, e)
  BY <1>1, <1>4, <1>5, Zenon DEF In
<1> QED
  BY <1>6 DEF t

(* What is on it after a removal.                                          *)
LEMMA InWithout ==
  ASSUME NEW n \in Nat, NEW s, NEW m \in 1 .. n, NEW e,
         \A i, j \in 1 .. n : s[i] = s[j] => i = j
  PROVE  In(n - 1, [i \in 1 .. n - 1 |-> IF i < m THEN s[i] ELSE s[i + 1]], e)
           <=> e # s[m] /\ In(n, s, e)
<1> DEFINE t == [i \in 1 .. n - 1 |-> IF i < m THEN s[i] ELSE s[i + 1]]
<1>1. \A i \in 1 .. n - 1 : \E j \in 1 .. n : j # m /\ t[i] = s[j]
  <2>1. \A i \in 1 .. n - 1 : i < m => i \in 1 .. n /\ i # m /\ t[i] = s[i]
    OBVIOUS
  <2>2. \A i \in 1 .. n - 1 : ~(i < m) => i + 1 \in 1 .. n /\ i + 1 # m /\ t[i] = s[i + 1]
    OBVIOUS
  <2> QED
    BY <2>1, <2>2, Zenon
<1>2. \A j \in 1 .. n : j # m => \E i \in 1 .. n - 1 : t[i] = s[j]
  <2>1. \A j \in 1 .. n : j < m => j \in 1 .. n - 1 /\ t[j] = s[j]
    OBVIOUS
  <2>2. \A j \in 1 .. n : ~(j < m) /\ j # m => j - 1 \in 1 .. n - 1 /\ t[j - 1] = s[j]
    OBVIOUS
  <2> HIDE DEF t
  <2> QED
    BY <2>1, <2>2, Zenon
<1> HIDE DEF t
<1>3. ASSUME NEW i \in 1 .. n - 1, t[i] = e PROVE e # s[m] /\ In(n, s, e)
  BY <1>1, <1>3, Zenon DEF In
<1>4. ASSUME NEW j \in 1 .. n, s[j] = e, e # s[m] PROVE In(n - 1, t, e)
  BY <1>2, <1>4, Zenon DEF In
<1>5. In(n - 1, t, e) <=> e # s[m] /\ In(n, s, e)
  BY <1>3, <1>4, Zenon DEF In
<1> QED
  BY <1>5 DEF t

(* A write to the command register, by which no device is stranded,        *)
(* inserts the device, removes it, or leaves the list as it is.            *)
LEMMA CommandList ==
  ASSUME Inv, NEW d \in Devs, NEW on \in BOOLEAN, CommandWrite(d, on), ~stranded'
  PROVE  Listed'
<1>1. /\ mem \in [Devs -> BOOLEAN] /\ bar_active = mem /\ bus \in Buses
      /\ base' = base /\ mem' = [mem EXCEPT ![d] = on]
      /\ moved' = IF on THEN moved ELSE moved \ {d}
      /\ \A e \in moved : mem[e]
  BY DEF Inv, TypeOK, CommandWrite
<1>2. ~stranded /\ (on \/ d \notin moved \/ Placed(d))
  BY Zenon DEF CommandWrite
<1>3. \A e : Placed(e)' <=> Placed(e)
  BY <1>1 DEF Placed
<1>4. PICK n, s : List(bus, n, s) /\ Decodes(n, s)
  BY <1>2, BusIsList, Zenon
<1>5. /\ n \in Nat /\ s \in [1 .. n -> Devs]
      /\ \A i, j \in 1 .. n : s[i] = s[j] => i = j
  BY <1>4, Zenon DEF List
<1>6. /\ In(n, s, d) => mem[d]
      /\ d \notin moved => (In(n, s, d) <=> mem[d] /\ Placed(d))
  BY <1>4, Zenon DEF Decodes
<1> DEFINE X == on /\ (IF mem[d] THEN In(n, s, d) ELSE Placed(d))
<1>7. ASSUME NEW k, NEW t, List(bus', k, t),
             \A e \in Devs : In(k, t, e) <=> IF e = d THEN X ELSE In(n, s, e)
      PROVE  Listed'
  <2>1. ASSUME NEW e \in Devs, In(k, t, e) PROVE mem'[e]
    BY <1>1, <1>4, <1>7, <2>1, Zenon DEF Decodes
  <2>2. ASSUME NEW e \in Devs, e \notin moved'
        PROVE  In(k, t, e) <=> mem'[e] /\ Placed(e)'
    <3>1. CASE e = d
      BY <1>1, <1>3, <1>6, <1>7, <2>2, <3>1, Zenon
    <3>2. CASE e # d
      <4>1. e \notin moved /\ mem'[e] = mem[e]
        BY <1>1, <2>2, <3>2, Zenon
      <4> QED
        BY <1>3, <1>4, <1>7, <3>2, <4>1, Zenon DEF Decodes
    <3> QED
      BY <3>1, <3>2
  <2>3. Decodes(k, t)'
    BY <2>1, <2>2, Zenon DEF Decodes, In
  <2> QED
    BY <1>7, <2>3, ListIsBus
<1>8. CASE on /\ ~mem[d] /\ Placed(d)
  <2>1. bus' = bus_register_dev(bus, d)
    BY <1>1, <1>8, Zenon DEF CommandWrite, Activate
  <2>2. \A i \in 1 .. n : s[i] # d
    BY <1>6, <1>8, Zenon DEF In
  <2> DEFINE t == [i \in 1 .. n + 1 |-> IF i = 1 THEN d ELSE s[i - 1]]
  <2>3. List(bus', n + 1, t)
    BY <1>1, <1>4, <2>1, <2>2, RegisterList
  <2>4. \A e : In(n + 1, t, e) <=> e = d \/ In(n, s, e)
    BY <1>5, InFront
  <2> HIDE DEF t
  <2>5. \A e \in Devs : In(n + 1, t, e) <=> IF e = d THEN X ELSE In(n, s, e)
    BY <1>8, <2>4, Zenon
  <2> HIDE DEF X
  <2> QED
    BY <1>7, <2>3, <2>5
<1>9. CASE ~on /\ mem[d] /\ Placed(d) /\ In(n, s, d)
  <2>1. PICK m \in 1 .. n : s[m] = d
    BY <1>9, Zenon DEF In
  <2>2. bus' = bus_deregister_dev(bus, s[m])
    BY <1>1, <1>9, <2>1, Zenon DEF CommandWrite, Deactivate
  <2> DEFINE t == [i \in 1 .. n - 1 |-> IF i < m THEN s[i] ELSE s[i + 1]]
  <2>3. List(bus', n - 1, t)
    BY <1>1, <1>4, <2>2, DeregisterList
  <2>4. \A e : In(n - 1, t, e) <=> e # s[m] /\ In(n, s, e)
    BY <1>5, InWithout
  <2> HIDE DEF t
  <2>5. \A e \in Devs : In(n - 1, t, e) <=> IF e = d THEN X ELSE In(n, s, e)
    BY <1>9, <2>1, <2>4, Zenon
  <2> HIDE DEF X
  <2> QED
    BY <1>7, <2>3, <2>5
<1>10. CASE ~(on /\ ~mem[d] /\ Placed(d)) /\ ~(~on /\ mem[d] /\ Placed(d) /\ In(n, s, d))
  <2>1. OnBus(bus) = {s[i] : i \in 1 .. n}
    BY <1>4, ListOnBus
  <2>2. d \in OnBus(bus) <=> In(n, s, d)
    BY <2>1, Zenon DEF In
  <2>5. bus' = bus
    <3>1. CASE on
      BY <1>1, <1>10, <3>1, Zenon DEF CommandWrite, Activate
    <3>2. CASE ~on
      BY <1>1, <1>10, <2>2, <3>2, Zenon DEF CommandWrite, Deactivate, bus_deregister_dev
    <3> QED
      BY <3>1, <3>2
  <2>6. In(n, s, d) <=> X
    BY <1>2, <1>6, <1>10, Zenon
  <2>7. List(bus', n, s) /\ \A e \in Devs : In(n, s, e) <=> IF e = d THEN X ELSE In(n, s, e)
    BY <1>4, <2>5, <2>6, Zenon
  <2> HIDE DEF X
  <2> QED
    BY <1>7, <2>7
<1> QED
  BY <1>8, <1>9, <1>10, Zenon

(* A BAR that moves stays on or off the bus: it is as it should be, or it  *)
(* is recorded as moved.                                                   *)
LEMMA BarList ==
  ASSUME Inv, NEW d \in Devs, NEW v \in BarVals, BarWrite(d, v), ~stranded'
  PROVE  Listed'
<1>1. v \in Nat /\ base \in [Devs -> {a \in Nat : a % BarSize = 0}] /\ mem \in [Devs -> BOOLEAN]
  BY PciAssumption DEF Inv, TypeOK
<1>2. Masked(Masked(v)) = Masked(v)
  BY <1>1, MaskedAligned
<1>3. \A e \in Devs : base'[e] = IF e = d THEN Masked(v) ELSE base[e]
  BY <1>1, Zenon DEF BarWrite
<1>4. Placed(d)' <=> Masked(v) # 0
  BY <1>2, <1>3, Zenon DEF Placed
<1>5. \A e \in Devs : e # d => (Placed(e)' <=> Placed(e))
  BY <1>3, Zenon DEF Placed
<1>6. /\ mem' = mem /\ bus' = bus /\ ~stranded
      /\ moved' = IF mem[d] /\ (Placed(d) # (Masked(v) # 0)) THEN moved \cup {d} ELSE moved
  BY Zenon DEF BarWrite
<1>7. PICK n, s : List(bus, n, s) /\ Decodes(n, s)
  BY <1>6, BusIsList, Zenon
<1>8. ASSUME NEW e \in Devs, e \notin moved'
      PROVE  In(n, s, e) <=> mem'[e] /\ Placed(e)'
  <2>1. e \notin moved
    BY <1>6, <1>8, Zenon
  <2>2. In(n, s, e) <=> mem[e] /\ Placed(e)
    BY <1>7, <2>1, Zenon DEF Decodes
  <2>3. CASE e # d
    BY <1>5, <1>6, <2>2, <2>3, Zenon
  <2>4. CASE e = d
    <3>1. mem[d] => (Placed(d) <=> Masked(v) # 0)
      BY <1>6, <1>8, <2>4, Zenon
    <3> QED
      BY <1>4, <1>6, <2>2, <2>4, <3>1, Zenon
  <2> QED
    BY <2>3, <2>4
<1>9. Decodes(n, s)'
  BY <1>6, <1>7, <1>8, Zenon DEF Decodes, In
<1>10. List(bus', n, s)
  BY <1>6, <1>7
<1> QED
  BY <1>9, <1>10, ListIsBus

(* A step that leaves the devices and the bus alone keeps the list.        *)
LEMMA QuietStep ==
  ASSUME Inv, UNCHANGED <<mem, base, bar_active, bus, guest>>
  PROVE  bar_active' = mem' /\ (\A d \in moved' : mem'[d]) /\ (~stranded' => Listed')
<1>1. bar_active' = mem' /\ (\A d \in moved' : mem'[d]) /\ (stranded' <=> stranded)
  BY DEF Inv, guest
<1>2. ASSUME ~stranded' PROVE Listed'
  <2>1. PICK n, s : List(bus, n, s) /\ Decodes(n, s)
    BY <1>1, <1>2, BusIsList, Zenon
  <2>2. Decodes(n, s)'
    BY <2>1, Zenon DEF Decodes, In, Placed, guest
  <2>3. List(bus', n, s)
    BY <2>1
  <2> QED
    BY <2>2, <2>3, ListIsBus
<1> QED
  BY <1>1, <1>2

(* Every variable keeps its type in every step.                            *)
LEMMA NextType ==
  ASSUME TypeOK, [Next]_vars
  PROVE  TypeOK'
<1>1. ASSUME NEW a, AddressWrite(a),
             a = NoAddress \/ \E d \in Devs, r \in Regs : a = Address(d, r)
      PROVE  TypeOK'
  BY <1>1, Zenon DEF AddressWrite, TypeOK, guest
<1>2. ASSUME NEW d \in Devs, NEW on \in BOOLEAN, CommandWrite(d, on) PROVE TypeOK'
  <2>1. bus \in Buses /\ mem \in [Devs -> BOOLEAN] /\ bar_active \in [Devs -> BOOLEAN]
    BY DEF TypeOK
  <2>2. bus_register_dev(bus, d) \in Buses /\ bus_deregister_dev(bus, d) \in Buses
    BY <2>1, BusTypes
  <2>3. bus' \in Buses
    BY <1>2, <2>1, <2>2, Zenon DEF CommandWrite, Activate, Deactivate
  <2>4. mem' \in [Devs -> BOOLEAN] /\ bar_active' \in [Devs -> BOOLEAN]
    BY <1>2, <2>1, Zenon DEF CommandWrite, Activate, Deactivate
  <2>5. moved' \subseteq Devs /\ stranded' \in BOOLEAN
    BY <1>2, Zenon DEF CommandWrite, TypeOK
  <2> QED
    BY <1>2, <2>3, <2>4, <2>5, Zenon DEF CommandWrite, TypeOK
<1>3. ASSUME NEW d \in Devs, NEW v \in BarVals, BarWrite(d, v) PROVE TypeOK'
  <2>1. Masked(v) \in {a \in Nat : a % BarSize = 0}
    BY PciAssumption, MaskedAligned
  <2>2. base' \in [Devs -> {a \in Nat : a % BarSize = 0}] /\ moved' \subseteq Devs
    BY <1>3, <2>1, Zenon DEF BarWrite, TypeOK
  <2> QED
    BY <1>3, <2>2, Zenon DEF BarWrite, TypeOK
<1>4. CASE UNCHANGED vars
  BY <1>4, Zenon DEF vars, guest, TypeOK
<1>5. AddressWrite(NoAddress) => TypeOK'
  BY <1>1
<1>6. ASSUME NEW d \in Devs, NEW r \in Regs, AddressWrite(Address(d, r)) PROVE TypeOK'
  BY <1>1, <1>6, Zenon
<1> QED
  BY <1>2, <1>3, <1>4, <1>5, <1>6, Zenon DEF Next

(* Every step keeps the invariant.                                         *)
LEMMA NextInv ==
  ASSUME Inv, [Next]_vars
  PROVE  Inv'
<1>0. TypeOK' /\ mem \in [Devs -> BOOLEAN] /\ bar_active = mem /\ \A e \in moved : mem[e]
  BY NextType DEF Inv, TypeOK
<1>1. ASSUME NEW a, AddressWrite(a) PROVE Inv'
  BY <1>0, <1>1, QuietStep, Zenon DEF AddressWrite, Inv
<1>2. CASE UNCHANGED vars
  BY <1>0, <1>2, QuietStep, Zenon DEF vars, Inv
<1>3. ASSUME NEW d \in Devs, NEW on \in BOOLEAN, CommandWrite(d, on) PROVE Inv'
  <2>1. bar_active' = mem'
    BY <1>0, <1>3, Zenon DEF CommandWrite, Activate, Deactivate
  <2>2. ASSUME NEW e \in moved' PROVE mem'[e]
    <3>1. e \in moved /\ (e = d => on) /\ mem[e]
      BY <1>0, <1>3, Zenon DEF CommandWrite
    <3>2. mem' = [mem EXCEPT ![d] = on] /\ e \in Devs
      BY <1>3, <3>1 DEF CommandWrite, Inv, TypeOK
    <3> QED
      BY <1>0, <3>1, <3>2, Zenon
  <2> QED
    BY <1>0, <1>3, <2>1, <2>2, CommandList, Zenon DEF Inv
<1>4. ASSUME NEW d \in Devs, NEW v \in BarVals, BarWrite(d, v) PROVE Inv'
  <2>1. bar_active' = mem' /\ \A e \in moved' : mem'[e]
    BY <1>0, <1>4, Zenon DEF BarWrite
  <2> QED
    BY <1>0, <1>4, <2>1, BarList, Zenon DEF Inv
<1> QED
  BY <1>1, <1>2, <1>3, <1>4, Zenon DEF Next

(* The inductive invariant holds, whatever the guest writes.               *)
THEOREM Inductive == Spec => []Inv
<1>1. Init => Inv
  BY InitInv
<1>2. Inv /\ [Next]_vars => Inv'
  BY NextInv
<1> QED
  BY <1>1, <1>2, PTL DEF Spec

(* Every variable keeps its type, and BARs are always aligned to their     *)
(* size.                                                                   *)
THEOREM TypeCorrect == Spec => []TypeOK
  BY Inductive, PTL DEF Inv

(* Whatever a guest writes to the command registers and BARs, every lookup *)
(* of an address ends, unless it switched decoding off with the BAR at zero*)
(* after moving it while it was decoded: that is the only way to the knot. *)
THEOREM LookupsTerminate == Spec => []LookupTerminates
<1>1. Inv => LookupTerminates
  BY BusIsList, ListOnBus DEF LookupTerminates
<1> QED
  BY <1>1, Inductive, PTL

(* A device whose BAR did not go to or from zero while it was decoded is on*)
(* the bus exactly while it decodes memory at a place that is not zero,    *)
(* whatever the guest does to the other devices short of stranding one.    *)
THEOREM BusIsDecoding == Spec => []OnBusIffDecoding
<1>1. ASSUME Inv, ~stranded, NEW d \in Devs \ moved
      PROVE  d \in OnBus(bus) <=> mem[d] /\ Placed(d)
  <2>1. PICK n, s : List(bus, n, s) /\ Decodes(n, s)
    BY <1>1, BusIsList, Zenon
  <2>2. OnBus(bus) = {s[i] : i \in 1 .. n}
    BY <2>1, ListOnBus
  <2>3. d \in OnBus(bus) <=> In(n, s, d)
    BY <2>2, Zenon DEF In
  <2> QED
    BY <2>1, <2>3, Zenon DEF Decodes
<1>2. Inv => OnBusIffDecoding
  BY <1>1, Zenon DEF OnBusIffDecoding
<1> QED
  BY <1>2, Inductive, PTL

(* An access in a BAR reaches the device that decodes it, or nobody if it  *)
(* leaves the BAR, wherever the device is on the list.                     *)
THEOREM AccessesAreRouted == Spec => []AccessesRouted
<1>1. ASSUME Inv PROVE AccessesRouted
  <2>1. SUFFICES ASSUME ~stranded, NEW d \in Devs \ moved, mem[d], Placed(d),
                        \A e \in Devs \ {d} : mem[e] => BarRange(e) \cap BarRange(d) = {},
                        NEW a \in BarRange(d), NEW size \in {1, 2, 4}
                 PROVE  bus_handle_io(bus, base, BarSize, a, size) =
                          IF a + size - 1 \in BarRange(d) THEN d ELSE NULL
    BY Zenon DEF AccessesRouted
  <2>2. base \in [Devs -> Nat] /\ BarSize \in Nat \ {0} /\ a \in Nat
    BY <1>1, PciAssumption DEF Inv, TypeOK, BarRange
  <2>3. PICK n, s : List(bus, n, s) /\ Decodes(n, s)
    BY <1>1, <2>1, BusIsList, Zenon
  <2>4. n \in Nat /\ s \in [1 .. n -> Devs] /\ \A i, j \in 1 .. n : s[i] = s[j] => i = j
    BY <2>3, Zenon DEF List
  <2>5. PICK m \in 1 .. n : s[m] = d
    BY <2>1, <2>3, Zenon DEF Decodes, In
  <2>6. \A k \in Steps : Walk(bus)[k] = Nth(n, s, k + 1)
    BY <2>3, WalkList
  <2>7. m - 1 \in Steps /\ (m - 1) + 1 = m
    BY <2>3, <2>4, ListLength DEF Steps
  <2> DEFINE hits == {k \in Steps : /\ Walk(bus)[k] # NULL
                                     /\ InRange(a, base[Walk(bus)[k]], BarSize)}
  <2>8. ASSUME NEW e \in Devs PROVE InRange(a, base[e], BarSize) <=> a \in BarRange(e)
    BY <2>2 DEF InRange, BarRange
  <2>9. ASSUME NEW k \in hits PROVE k = m - 1
    <3>1. k + 1 \in 1 .. n /\ Walk(bus)[k] = s[k + 1] /\ k \in Steps
      BY <2>6, Zenon DEF Nth
    <3>2. s[k + 1] \in Devs /\ mem[s[k + 1]]
      <4>1. s[k + 1] \in Devs /\ In(n, s, s[k + 1])
        BY <2>4, <3>1, Zenon DEF In
      <4> QED
        BY <2>3, <4>1, Zenon DEF Decodes
    <3>3. a \in BarRange(s[k + 1])
      BY <2>8, <3>1, <3>2, Zenon
    <3>4. s[k + 1] = d
      BY <2>1, <3>2, <3>3, Zenon
    <3>5. k + 1 = m
      BY <2>4, <2>5, <3>1, <3>4, Zenon
    <3>6. k \in Nat
      BY <2>3, <3>1, ListLength DEF Steps
    <3> QED
      BY <2>4, <3>5, <3>6
  <2>10. Walk(bus)[m - 1] = d /\ m - 1 \in hits
    <3>1. Walk(bus)[m - 1] = d
      BY <2>5, <2>6, <2>7, Zenon DEF Nth
    <3> QED
      BY <2>1, <2>7, <2>8, <3>1, BusAssumption, Zenon
  <2>11. (CHOOSE k \in hits : \A j \in hits : k <= j) = m - 1
    <3> HIDE DEF hits
    <3>1. m - 1 <= m - 1
      BY <2>4
    <3>2. \A j \in hits : m - 1 <= j
      BY <2>9, <3>1, Zenon
    <3>3. \E k \in hits : \A j \in hits : k <= j
      BY <2>10, <3>2, Zenon
    <3>4. (CHOOSE k \in hits : \A j \in hits : k <= j) \in hits
      BY <3>3, Zenon
    <3> QED
      BY <2>9, <3>4, Zenon
  <2>12. bus_find_dev(bus, base, BarSize, a) = d
    BY <2>10, <2>11, Zenon DEF bus_find_dev
  <2>13. a + size - 1 <= base[d] + BarSize - 1 <=> a + size - 1 \in BarRange(d)
    BY <2>1, <2>2 DEF BarRange
  <2> QED
    BY <2>12, <2>13, BusAssumption, Zenon DEF bus_handle_io
<1> QED
  BY <1>1, Inductive, PTL
=============================================================================
