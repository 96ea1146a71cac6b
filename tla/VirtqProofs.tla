------------------------------ MODULE VirtqProofs ------------------------------
(***************************************************************************)
(* The arithmetic of positions in a packed ring, for every ring size.      *)
(***************************************************************************)
EXTENDS Virtq, TLAPS

(* How far slot i is ahead of position p, and the wrap counter a position  *)
(* that goes on from p has when it gets there.                             *)
Off(p, i) == IF i >= p.idx THEN i - p.idx ELSE i + QSize - p.idx
WrapAt(p, i) == IF i >= p.idx THEN p.wrap ELSE ~p.wrap

USE VirtqAssumption DEF Slots, Positions

(* The device's step past a descriptor and the driver's are the same.      *)
LEMMA StepIsAhead == ASSUME NEW p \in Positions PROVE Step(p) = Ahead(p, 1)
BY DEF Step, Ahead

(* The next position, with and without a wrap.                             *)
LEMMA AheadFields ==
    ASSUME NEW p \in Positions
    PROVE  /\ Ahead(p, 1) \in Positions
           /\ p.idx + 1 < QSize => Ahead(p, 1).idx = p.idx + 1 /\ Ahead(p, 1).wrap = p.wrap
           /\ p.idx + 1 = QSize => Ahead(p, 1).idx = 0 /\ Ahead(p, 1).wrap = ~p.wrap
BY DEF Ahead

(* The next position is another one, in a ring of one slot too.            *)
LEMMA AheadIsElsewhere == ASSUME NEW p \in Positions PROVE Ahead(p, 1) # p
BY AheadFields

(* The front of a window moves on.                                         *)
LEMMA FrontMoves ==
    ASSUME NEW p \in Positions, NEW r \in Positions, Dist(p, r) \in 0 .. QSize - 1
    PROVE  Dist(p, Ahead(r, 1)) = Dist(p, r) + 1
<1>1. CASE r.idx + 1 < QSize
  BY <1>1, AheadFields, SMTT(60) DEF Dist
<1>2. CASE r.idx + 1 = QSize
  BY <1>2, AheadFields DEF Dist
<1> QED BY <1>1, <1>2

(* The back of a window moves on.                                          *)
LEMMA BackMoves ==
    ASSUME NEW p \in Positions, NEW r \in Positions, Dist(p, r) \in 1 .. QSize
    PROVE  Dist(Ahead(p, 1), r) = Dist(p, r) - 1
<1>1. CASE p.idx + 1 < QSize
  BY <1>1, AheadFields, SMTT(60) DEF Dist
<1>2. CASE p.idx + 1 = QSize
  <2>1. p.wrap # r.wrap /\ Dist(p, r) = r.idx + 1
    BY <1>2 DEF Dist
  <2>2. Ahead(p, 1).idx = 0 /\ Ahead(p, 1).wrap = r.wrap
    BY <1>2, <2>1, AheadFields
  <2> QED BY <2>1, <2>2 DEF Dist
<1> QED BY <1>1, <1>2

(* The same for a slot: the one that is left is now the farthest.          *)
LEMMA OffMoves ==
    ASSUME NEW p \in Positions, NEW i \in Slots
    PROVE  /\ i = p.idx => Off(Ahead(p, 1), i) = QSize - 1 /\ WrapAt(Ahead(p, 1), i) = ~p.wrap
           /\ i # p.idx => /\ Off(Ahead(p, 1), i) = Off(p, i) - 1
                           /\ WrapAt(Ahead(p, 1), i) = WrapAt(p, i)
<1>1. CASE p.idx + 1 < QSize
  BY <1>1, AheadFields DEF Off, WrapAt
<1>2. CASE p.idx + 1 = QSize
  BY <1>2, AheadFields DEF Off, WrapAt
<1> QED BY <1>1, <1>2

(* An offset is less than the size and tells the slots apart; it is 0,     *)
(* with the position's own wrap counter, at the position's slot.           *)
LEMMA OffTypes ==
    ASSUME NEW p \in Positions, NEW i \in Slots
    PROVE  /\ Off(p, i) \in 0 .. QSize - 1 /\ WrapAt(p, i) \in BOOLEAN
           /\ Off(p, i) = 0 <=> i = p.idx
           /\ WrapAt(p, p.idx) = p.wrap
           /\ \A j \in Slots : Off(p, i) = Off(p, j) => i = j
<1>1. Off(p, i) \in 0 .. QSize - 1 /\ (Off(p, i) = 0 <=> i = p.idx)
  BY DEF Off
<1>2. WrapAt(p, i) \in BOOLEAN
  <2>1. p.wrap \in BOOLEAN
    OBVIOUS
  <2>2. (~p.wrap) \in BOOLEAN
    BY Zenon
  <2> QED BY <2>1, <2>2, Zenon DEF WrapAt
<1>4. WrapAt(p, p.idx) = p.wrap
  <2>1. p.idx >= p.idx
    OBVIOUS
  <2> QED BY <2>1, Zenon DEF WrapAt
<1>3. \A j \in Slots : Off(p, i) = Off(p, j) => i = j
  BY DEF Off
<1> QED BY <1>1, <1>2, <1>3, <1>4

(* The same of offsets alone, for all slots of one position.               *)
LEMMA OffRange ==
    ASSUME NEW p \in Positions
    PROVE  /\ \A i \in Slots : Off(p, i) \in 0 .. QSize - 1 /\ (Off(p, i) = 0 => i = p.idx)
           /\ \A i, j \in Slots : Off(p, i) = Off(p, j) => i = j
BY DEF Off

(* The slot at a position's index: its distance is the position's, and so  *)
(* is its wrap counter; a whole lap ahead, the wrap counter is the other.  *)
LEMMA SlotOfPosition ==
    ASSUME NEW p \in Positions, NEW r \in Positions, Dist(p, r) \in 0 .. QSize
    PROVE  /\ Dist(p, r) < QSize => Off(p, r.idx) = Dist(p, r) /\ WrapAt(p, r.idx) = r.wrap
           /\ Dist(p, r) = QSize => r.idx = p.idx /\ r.wrap = ~p.wrap
BY DEF Dist, Off, WrapAt

(* Two positions at the same distance from a third are the same.           *)
LEMMA SamePosition ==
    ASSUME NEW p \in Positions, NEW r \in Positions, NEW t \in Positions,
           Dist(p, r) \in 0 .. QSize, Dist(p, t) = Dist(p, r)
    PROVE  r = t
BY DEF Dist

-----------------------------------------------------------------------------
(* A ring f between the driver's positions l (the next used buffer) and a  *)
(* (the next it offers), with the device at d.  A slot's avail bit is that *)
(* of the lap from l on exactly inside the window; its used bit is not,    *)
(* from the device's position on.                                          *)
Flags == [avail : BOOLEAN, used : BOOLEAN, next : BOOLEAN]

Window(f, l, a, d) ==
    /\ Dist(l, a) \in 0 .. QSize /\ Dist(l, d) \in 0 .. Dist(l, a)
    /\ \A i \in Slots : /\ Off(l, i) < Dist(l, a) => f[i].avail = WrapAt(l, i)
                        /\ Off(l, i) >= Dist(l, a) => f[i].avail # WrapAt(l, i)
                        /\ Off(l, i) >= Dist(l, d) => f[i].used # WrapAt(l, i)

(* The device has taken the descriptor in slot c and not given it back.    *)
Held(f, l, d, c) ==
    Dist(l, d) >= 1 /\ Off(l, c) = Dist(l, d) - 1 /\ f[c].used # WrapAt(l, c)

(* The driver offers a buffer.                                             *)
LEMMA WindowOffered ==
    ASSUME NEW f \in [Slots -> Flags], NEW g \in [Slots -> Flags],
           NEW l \in Positions, NEW a \in Positions, NEW d \in Positions,
           Window(f, l, a, d), Dist(l, a) < QSize, g[a.idx] = AvailFlags(a.wrap, FALSE),
           \A i \in Slots : i # a.idx => g[i] = f[i]
    PROVE  /\ Window(g, l, Ahead(a, 1), d)
           /\ \A c \in Slots : Held(f, l, d, c) => Held(g, l, d, c)
<1>1. Dist(l, Ahead(a, 1)) = Dist(l, a) + 1 /\ Off(l, a.idx) = Dist(l, a) /\ WrapAt(l, a.idx) = a.wrap
  BY FrontMoves, SlotOfPosition DEF Window
<1>2. g[a.idx].avail = a.wrap /\ g[a.idx].used # a.wrap
  BY DEF AvailFlags
<1>3. \A i \in Slots : Off(l, i) \in 0 .. QSize - 1 /\ (Off(l, i) = Dist(l, a) => i = a.idx)
  <2>1. a.idx \in Slots
    OBVIOUS
  <2>2. Off(l, a.idx) = Dist(l, a)
    BY <1>1, Zenon
  <2>3. \A i \in Slots : Off(l, i) \in 0 .. QSize - 1
    BY OffRange, Zenon
  <2>4. \A i \in Slots : Off(l, i) = Off(l, a.idx) => i = a.idx
    BY <2>1, OffRange
  <2> QED BY <2>2, <2>3, <2>4, Zenon
<1>4. Dist(l, a) \in 0 .. QSize - 1 /\ Dist(l, d) \in 0 .. Dist(l, a)
  BY DEF Window
<1>5. ASSUME NEW i \in Slots
      PROVE  /\ Off(l, i) < Dist(l, a) + 1 => g[i].avail = WrapAt(l, i)
             /\ Off(l, i) >= Dist(l, a) + 1 => g[i].avail # WrapAt(l, i)
             /\ Off(l, i) >= Dist(l, d) => g[i].used # WrapAt(l, i)
  <2>1. CASE i = a.idx
    <3>1. Off(l, i) = Dist(l, a) /\ Dist(l, a) \in Int /\ g[i].avail = WrapAt(l, i)
            /\ g[i].used # WrapAt(l, i)
      <4>1. Dist(l, a) \in Int
        BY <1>4
      <4> QED BY <2>1, <1>1, <1>2, <4>1, Zenon
    <3> QED BY <3>1
  <2>2. CASE i # a.idx
    <3>1. g[i] = f[i] /\ (Off(l, i) < Dist(l, a) + 1 => Off(l, i) < Dist(l, a))
            /\ (Off(l, i) >= Dist(l, a) + 1 => Off(l, i) >= Dist(l, a))
      <4>1. Off(l, i) \in Int /\ Off(l, i) # Dist(l, a) /\ Dist(l, a) \in Int
        BY <2>2, <1>3, <1>4
      <4> QED BY <2>2, <4>1
    <3> QED BY <3>1 DEF Window
  <2> QED BY <2>1, <2>2
<1>6. Dist(l, a) + 1 \in 0 .. QSize /\ Dist(l, d) \in 0 .. Dist(l, a) + 1
  BY <1>4
<1>7. ASSUME NEW c \in Slots, Held(f, l, d, c) PROVE Held(g, l, d, c)
  BY <1>7, <1>1, <1>4, SMTT(60) DEF Held
<1> QED BY <1>1, <1>5, <1>6, <1>7, SMTT(60) DEF Window

(* The device takes an available descriptor, and then holds it.            *)
LEMMA WindowTaken ==
    ASSUME NEW f \in [Slots -> Flags],
           NEW l \in Positions, NEW a \in Positions, NEW d \in Positions,
           Window(f, l, a, d), IsAvail(f[d.idx], d.wrap)
    PROVE  /\ Dist(l, d) < Dist(l, a)
           /\ Window(f, l, a, Ahead(d, 1)) /\ Held(f, l, Ahead(d, 1), d.idx)
<1>1. Dist(l, a) \in 0 .. QSize /\ Dist(l, d) \in 0 .. Dist(l, a) /\ d.idx \in Slots /\ l.idx \in Slots
  BY DEF Window
<1>2. Dist(l, d) # QSize
  <2> SUFFICES ASSUME Dist(l, d) = QSize PROVE FALSE
    OBVIOUS
  <2>1. d.idx = l.idx /\ d.wrap # l.wrap
    BY <1>1, SlotOfPosition
  <2>2. Off(l, l.idx) = 0 /\ WrapAt(l, l.idx) = l.wrap /\ Dist(l, a) = QSize
    BY <1>1, OffTypes, SMTT(60)
  <2>3. f[l.idx].avail = l.wrap
    BY <1>1, <2>2 DEF Window
  <2> QED BY <2>1, <2>3 DEF IsAvail
<1>3. Off(l, d.idx) = Dist(l, d) /\ WrapAt(l, d.idx) = d.wrap
  BY <1>1, <1>2, SlotOfPosition
<1>4. Dist(l, d) < Dist(l, a)
  BY <1>1, <1>3 DEF Window, IsAvail
<1>5. Dist(l, Ahead(d, 1)) = Dist(l, d) + 1
  BY <1>1, <1>2, FrontMoves
<1>6. Held(f, l, Ahead(d, 1), d.idx)
  BY <1>1, <1>3, <1>5 DEF Held, IsAvail
<1>7. \A i \in Slots : Off(l, i) \in 0 .. QSize - 1
  BY OffRange, Zenon
<1>8. Dist(l, Ahead(d, 1)) \in 0 .. Dist(l, a)
  BY <1>1, <1>4, <1>5, SMTT(60)
<1>9. ASSUME NEW i \in Slots, Off(l, i) >= Dist(l, Ahead(d, 1)) PROVE f[i].used # WrapAt(l, i)
  <2>1. Off(l, i) >= Dist(l, d)
    BY <1>1, <1>5, <1>7, <1>9, SMTT(60)
  <2> QED BY <2>1, Zenon DEF Window
<1> QED BY <1>4, <1>6, <1>8, <1>9 DEF Window

(* The device marks the descriptor it holds as used.                       *)
LEMMA WindowMarked ==
    ASSUME NEW f \in [Slots -> Flags], NEW g \in [Slots -> Flags],
           NEW l \in Positions, NEW a \in Positions, NEW d \in Positions, NEW c \in Slots,
           Window(f, l, a, d), Held(f, l, d, c), g[c] = MarkUsed(f[c]),
           \A i \in Slots : i # c => g[i] = f[i]
    PROVE  Window(g, l, a, d) /\ g[c].used = WrapAt(l, c)
<1>1. g[c].avail = f[c].avail /\ g[c].used = ~f[c].used
  BY DEF MarkUsed, Flags
<1>2. g[c].used = WrapAt(l, c)
  <2>1. f[c].used # WrapAt(l, c) /\ f[c].used \in BOOLEAN
    BY DEF Held, Flags
  <2>2. WrapAt(l, c) \in BOOLEAN
    BY OffTypes
  <2>3. (~f[c].used) = WrapAt(l, c)
    BY <2>1, <2>2, Zenon
  <2> QED BY <1>1, <2>3, Zenon
<1>3. Dist(l, d) \in Int /\ Off(l, c) < Dist(l, d)
  BY DEF Held, Window
<1>4. ASSUME NEW i \in Slots
      PROVE  g[i].avail = f[i].avail /\ (Off(l, i) >= Dist(l, d) => g[i].used = f[i].used)
  <2>1. CASE i = c
    <3>1. ~(Off(l, i) >= Dist(l, d))
      <4>1. Off(l, c) \in Int
        BY OffRange
      <4> QED BY <2>1, <1>3, <4>1
    <3> QED BY <2>1, <3>1, <1>1, Zenon
  <2>2. CASE i # c
    BY <2>2
  <2> QED BY <2>1, <2>2, Zenon
<1> QED BY <1>2, <1>4, SMTT(60) DEF Window

(* The driver takes back a used buffer.                                    *)
LEMMA WindowReaped ==
    ASSUME NEW f \in [Slots -> Flags],
           NEW l \in Positions, NEW a \in Positions, NEW d \in Positions,
           Window(f, l, a, d), IsUsed(f[l.idx], l.wrap)
    PROVE  /\ Dist(l, d) >= 1 /\ Window(f, Ahead(l, 1), a, d)
           /\ \A c \in Slots : Held(f, l, d, c) => c # l.idx /\ Held(f, Ahead(l, 1), d, c)
<1> DEFINE m == Ahead(l, 1)
<1>1. Dist(l, a) \in 0 .. QSize /\ Dist(l, d) \in 0 .. Dist(l, a) /\ l.idx \in Slots
  BY DEF Window
<1>2. Off(l, l.idx) = 0 /\ WrapAt(l, l.idx) = l.wrap
  BY <1>1, OffTypes, Zenon
<1>3. Dist(l, d) >= 1
  BY <1>1, <1>2 DEF Window, IsUsed
<1>4. Dist(m, a) = Dist(l, a) - 1 /\ Dist(m, d) = Dist(l, d) - 1
  BY <1>1, <1>3, BackMoves
<1>5. ASSUME NEW i \in Slots
      PROVE  /\ i = l.idx => Off(m, i) = QSize - 1 /\ WrapAt(m, i) # l.wrap
             /\ i # l.idx => Off(m, i) = Off(l, i) - 1 /\ WrapAt(m, i) = WrapAt(l, i)
             /\ Off(l, i) \in 0 .. QSize - 1
  BY OffMoves, OffTypes, Zenon
<1> HIDE DEF m
<1>6. ASSUME NEW i \in Slots
      PROVE  /\ Off(m, i) < Dist(m, a) => f[i].avail = WrapAt(m, i)
             /\ Off(m, i) >= Dist(m, a) => f[i].avail # WrapAt(m, i)
             /\ Off(m, i) >= Dist(m, d) => f[i].used # WrapAt(m, i)
  <2>1. CASE i = l.idx
    <3>1. Off(m, i) = QSize - 1 /\ WrapAt(m, i) # l.wrap /\ ~(Off(m, i) < Dist(m, a))
      BY <2>1, <1>1, <1>4, <1>5
    <3> QED BY <2>1, <3>1 DEF IsUsed
  <2>2. CASE i # l.idx
    <3>1. Off(m, i) = Off(l, i) - 1 /\ WrapAt(m, i) = WrapAt(l, i) /\ Off(l, i) \in Int
      BY <2>2, <1>5
    <3>2. /\ Off(m, i) < Dist(m, a) => Off(l, i) < Dist(l, a)
          /\ Off(m, i) >= Dist(m, a) => Off(l, i) >= Dist(l, a)
          /\ Off(m, i) >= Dist(m, d) => Off(l, i) >= Dist(l, d)
      BY <3>1, <1>1, <1>4, SMTT(60)
    <3> QED BY <3>1, <3>2, Zenon DEF Window
  <2> QED BY <2>1, <2>2
<1>7. ASSUME NEW c \in Slots, Held(f, l, d, c) PROVE c # l.idx /\ Held(f, m, d, c)
  <2>1. c # l.idx
    BY <1>7, <1>2 DEF Held, IsUsed
  <2>2. Off(l, c) # 0
    BY <2>1, OffRange
  <2>3. Off(m, c) = Off(l, c) - 1 /\ WrapAt(m, c) = WrapAt(l, c) /\ Off(l, c) \in 0 .. QSize - 1
    BY <2>1, <1>5
  <2>4. Off(l, c) = Dist(l, d) - 1 /\ f[c].used # WrapAt(l, c)
    BY <1>7 DEF Held
  <2>5. Dist(m, d) >= 1 /\ Off(m, c) = Dist(m, d) - 1
    BY <2>2, <2>3, <2>4, <1>1, <1>4, SMTT(60)
  <2> QED BY <2>1, <2>3, <2>4, <2>5, Zenon DEF Held
<1>8. Dist(m, a) \in 0 .. QSize /\ Dist(m, d) \in 0 .. Dist(m, a)
  BY <1>1, <1>3, <1>4
<1> QED BY <1>3, <1>6, <1>7, <1>8 DEF m, Window

-----------------------------------------------------------------------------
(* The slots the device is done with or holds (H), and those it has still  *)
(* to take.  A slot whose transfer failed is neither.                      *)
Given(f, l, d, H, i) == Off(l, i) < Dist(l, d) /\ (f[i].used = WrapAt(l, i) \/ i \in H)
Waiting(l, a, d, i) == Dist(l, d) <= Off(l, i) /\ Off(l, i) < Dist(l, a)

(* Offering a buffer adds none to those given back or held.                *)
LEMMA GivenOffered ==
    ASSUME NEW f \in [Slots -> Flags], NEW g \in [Slots -> Flags],
           NEW l \in Positions, NEW a \in Positions, NEW d \in Positions, NEW H, NEW i \in Slots,
           Window(f, l, a, d), Dist(l, a) < QSize, \A j \in Slots : j # a.idx => g[j] = f[j],
           Given(g, l, d, H, i)
    PROVE  Given(f, l, d, H, i) /\ i # a.idx
<1>1. Off(l, a.idx) = Dist(l, a) /\ Dist(l, a) \in 0 .. QSize /\ Dist(l, d) \in 0 .. Dist(l, a)
  BY SlotOfPosition DEF Window
<1>2. i # a.idx
  BY <1>1 DEF Given
<1> QED BY <1>2, Zenon DEF Given

(* Offering a buffer adds it, as the last, to those waiting.               *)
LEMMA WaitingOffered ==
    ASSUME NEW f, NEW l \in Positions, NEW a \in Positions, NEW d \in Positions, NEW i \in Slots,
           Window(f, l, a, d), Dist(l, a) < QSize
    PROVE  /\ Waiting(l, Ahead(a, 1), d, i) => i = a.idx \/ Waiting(l, a, d, i)
           /\ Waiting(l, a, d, i) => Off(l, i) < Off(l, a.idx) /\ i # a.idx
<1>1. Dist(l, Ahead(a, 1)) = Dist(l, a) + 1 /\ Off(l, a.idx) = Dist(l, a)
  BY FrontMoves, SlotOfPosition DEF Window
<1>2. Dist(l, a) \in 0 .. QSize /\ Dist(l, d) \in 0 .. Dist(l, a) /\ a.idx \in Slots
  BY DEF Window
<1>3. Off(l, i) \in 0 .. QSize - 1 /\ (Off(l, i) = Off(l, a.idx) => i = a.idx)
  BY <1>2, OffRange, Zenon
<1> QED BY <1>1, <1>2, <1>3 DEF Waiting

(* Taking a descriptor adds it, as the last, to those given back or held.  *)
LEMMA GivenTaken ==
    ASSUME NEW f \in [Slots -> Flags],
           NEW l \in Positions, NEW a \in Positions, NEW d \in Positions, NEW H, NEW i \in Slots,
           \A x \in H : x = d.idx, Window(f, l, a, d), IsAvail(f[d.idx], d.wrap)
    PROVE  /\ Given(f, l, Ahead(d, 1), H, i) => Given(f, l, d, {}, i) \/ (i = d.idx /\ i \in H)
           /\ Given(f, l, d, {}, i) => Off(l, i) < Off(l, d.idx) /\ i # d.idx
<1>1. Dist(l, a) \in 0 .. QSize /\ Dist(l, d) \in 0 .. Dist(l, a) /\ d.idx \in Slots
        /\ Dist(l, d) < Dist(l, a)
  BY WindowTaken DEF Window
<1>2. Dist(l, Ahead(d, 1)) = Dist(l, d) + 1 /\ Off(l, d.idx) = Dist(l, d)
  BY <1>1, FrontMoves, SlotOfPosition
<1>3. Off(l, i) \in 0 .. QSize - 1
  BY OffRange, Zenon
<1>4. ASSUME Given(f, l, Ahead(d, 1), H, i), ~(i = d.idx /\ i \in H) PROVE Given(f, l, d, {}, i)
  <2>1. f[i].used = WrapAt(l, i)
    BY <1>4, Zenon DEF Given
  <2>2. ~(Off(l, i) >= Dist(l, d))
    BY <2>1, SMTT(60) DEF Window
  <2>3. Off(l, i) < Dist(l, d)
    BY <2>2, <1>1, <1>3
  <2> QED BY <2>1, <2>3, Zenon DEF Given
<1>5. Given(f, l, d, {}, i) => Off(l, i) < Off(l, d.idx) /\ i # d.idx
  <2> SUFFICES ASSUME Off(l, i) < Dist(l, d) PROVE Off(l, i) < Off(l, d.idx) /\ i # d.idx
    BY Zenon DEF Given
  <2> QED BY <1>1, <1>2, <1>3
<1> QED BY <1>4, <1>5, Zenon

(* Taking a descriptor removes the first of those waiting.                 *)
LEMMA WaitingTaken ==
    ASSUME NEW f \in [Slots -> Flags],
           NEW l \in Positions, NEW a \in Positions, NEW d \in Positions, NEW i \in Slots,
           Window(f, l, a, d), IsAvail(f[d.idx], d.wrap)
    PROVE  /\ Waiting(l, a, Ahead(d, 1), i) => Waiting(l, a, d, i) /\ Off(l, d.idx) < Off(l, i)
           /\ Waiting(l, a, d, d.idx)
<1>1. Dist(l, a) \in 0 .. QSize /\ Dist(l, d) \in 0 .. Dist(l, a) /\ Dist(l, d) < Dist(l, a)
  BY WindowTaken, Zenon DEF Window
<1>2. Dist(l, Ahead(d, 1)) = Dist(l, d) + 1 /\ Off(l, d.idx) = Dist(l, d)
  BY <1>1, FrontMoves, SlotOfPosition
<1>3. Off(l, i) \in 0 .. QSize - 1
  BY OffRange, Zenon
<1> QED BY <1>1, <1>2, <1>3, SMTT(60) DEF Waiting

(* Marking a descriptor turns it from held to given back.                  *)
LEMMA GivenMarked ==
    ASSUME NEW f \in [Slots -> Flags], NEW g \in [Slots -> Flags],
           NEW l \in Positions, NEW d \in Positions, NEW c \in Slots, NEW i \in Slots,
           \A j \in Slots : j # c => g[j] = f[j], Given(g, l, d, {}, i)
    PROVE  Given(f, l, d, {c}, i)
BY Zenon DEF Given

(* Reaping removes the first of those given back; the others come nearer.  *)
LEMMA GivenReaped ==
    ASSUME NEW f \in [Slots -> Flags],
           NEW l \in Positions, NEW a \in Positions, NEW d \in Positions, NEW H, NEW i \in Slots,
           Window(f, l, a, d), IsUsed(f[l.idx], l.wrap)
    PROVE  /\ Given(f, Ahead(l, 1), d, H, i) => /\ Given(f, l, d, H, i)
                                                /\ Off(l, l.idx) < Off(l, i)
                                                /\ Off(Ahead(l, 1), i) = Off(l, i) - 1
           /\ Given(f, l, d, H, l.idx)
<1> DEFINE m == Ahead(l, 1)
<1>1. Dist(l, a) \in 0 .. QSize /\ Dist(l, d) \in 0 .. Dist(l, a) /\ l.idx \in Slots /\ Dist(l, d) >= 1
  BY WindowReaped, Zenon DEF Window
<1>2. Dist(m, d) = Dist(l, d) - 1
  BY <1>1, BackMoves
<1>3. /\ i = l.idx => Off(m, i) = QSize - 1
      /\ i # l.idx => Off(m, i) = Off(l, i) - 1
  BY OffMoves
<1>4. i # l.idx => WrapAt(m, i) = WrapAt(l, i)
  BY OffMoves
<1>5. Off(l, l.idx) = 0 /\ WrapAt(l, l.idx) = l.wrap
  BY <1>1, OffTypes, Zenon
<1>6. Off(l, i) \in 0 .. QSize - 1 /\ (Off(l, i) = 0 => i = l.idx)
  BY OffRange, Zenon
<1> HIDE DEF m
<1>7. ASSUME Given(f, m, d, H, i)
      PROVE  Given(f, l, d, H, i) /\ Off(l, l.idx) < Off(l, i) /\ Off(m, i) = Off(l, i) - 1
  <2>1. Off(m, i) < Dist(m, d) /\ (f[i].used = WrapAt(m, i) \/ i \in H)
    BY <1>7, Zenon DEF Given
  <2>2. Off(m, i) < Dist(m, d)
    BY <2>1, Zenon
  <2>3. i # l.idx
    BY <2>2, <1>1, <1>2, <1>3
  <2>4. Off(m, i) = Off(l, i) - 1 /\ Off(l, i) < Dist(l, d) /\ Off(l, l.idx) < Off(l, i)
    <3>1. Off(l, l.idx) = 0
      BY <1>5, Zenon
    <3> QED BY <2>2, <2>3, <1>1, <1>2, <1>3, <1>6, <3>1, SMTT(60)
  <2> QED BY <2>1, <2>3, <2>4, <1>4, Zenon DEF Given
<1>8. Given(f, l, d, H, l.idx)
  <2>1. Off(l, l.idx) < Dist(l, d)
    <3>1. Off(l, l.idx) = 0
      BY <1>5, Zenon
    <3> QED BY <1>1, <3>1
  <2> QED BY <1>5, <2>1, Zenon DEF Given, IsUsed
<1> QED BY <1>7, <1>8 DEF m

(* Reaping adds none to those waiting; all come one slot nearer.           *)
LEMMA WaitingReaped ==
    ASSUME NEW f \in [Slots -> Flags],
           NEW l \in Positions, NEW a \in Positions, NEW d \in Positions, NEW i \in Slots,
           Window(f, l, a, d), IsUsed(f[l.idx], l.wrap), Waiting(Ahead(l, 1), a, d, i)
    PROVE  Waiting(l, a, d, i) /\ Off(Ahead(l, 1), i) = Off(l, i) - 1
<1> DEFINE m == Ahead(l, 1)
<1>1. Dist(l, a) \in 0 .. QSize /\ Dist(l, d) \in 0 .. Dist(l, a) /\ Dist(l, d) >= 1
  BY WindowReaped, Zenon DEF Window
<1>2. Dist(m, a) = Dist(l, a) - 1 /\ Dist(m, d) = Dist(l, d) - 1
  BY <1>1, BackMoves
<1>3. /\ i = l.idx => Off(m, i) = QSize - 1
      /\ i # l.idx => Off(m, i) = Off(l, i) - 1
  BY OffMoves
<1>4. Waiting(m, a, d, i) /\ Off(l, i) \in 0 .. QSize - 1
  BY OffRange
<1> HIDE DEF m
<1>5. i # l.idx
  BY <1>1, <1>2, <1>3, <1>4 DEF Waiting
<1>6. Waiting(l, a, d, i) /\ Off(m, i) = Off(l, i) - 1
  BY <1>1, <1>2, <1>3, <1>4, <1>5, SMTT(60) DEF Waiting
<1> QED BY <1>6 DEF m
================================================================================
