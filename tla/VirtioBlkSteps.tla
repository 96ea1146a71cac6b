--------------------------- MODULE VirtioBlkSteps ----------------------------
(***************************************************************************)
(* Proofs about VirtioBlk, for every ring of at least three descriptors,   *)
(* every disk and any number of requests: positions, types, which thread   *)
(* runs the handler, and the driver's side of the ring.                    *)
(*                                                                         *)
(* Every descriptor the driver ever makes available has a number: the k-th *)
(* of chain c is number 3 * c + k.  The number tells the slot and the lap. *)
(***************************************************************************)
EXTENDS VirtioBlk, TLAPS

Slot(n) == n % QSize
Lap(n) == (n \div QSize) % 2 = 0
Pos(n) == [idx |-> Slot(n), wrap |-> Lap(n)]

(* A number is its lap and its slot.                                       *)
LEMMA PosOf ==
  ASSUME NEW q \in Nat, NEW r \in Slots
  PROVE  Slot(q * QSize + r) = r /\ Lap(q * QSize + r) = (q % 2 = 0)
<1>1. (q * QSize + r) % QSize = r /\ (q * QSize + r) \div QSize = q
  BY VirtqAssumption DEF Slots
<1> QED
  BY <1>1, Zenon DEF Slot, Lap

(* Every number has a lap and a slot.                                      *)
LEMMA PosSplit ==
  ASSUME NEW n \in Nat
  PROVE  \E q \in Nat, r \in Slots : n = q * QSize + r
<1>1. /\ n \div QSize \in Nat /\ n % QSize \in Slots
      /\ n = (n \div QSize) * QSize + (n % QSize)
  BY VirtqAssumption DEF Slots
<1> QED
  BY <1>1, Zenon

(* The position of a number.                                               *)
LEMMA PosType ==
  ASSUME NEW n \in Nat
  PROVE  /\ Pos(n) \in Positions /\ Slot(n) \in Slots /\ Lap(n) \in BOOLEAN
         /\ Pos(n).idx = Slot(n) /\ Pos(n).wrap = Lap(n)
<1>1. Slot(n) \in Slots
  BY VirtqAssumption DEF Slots, Slot
<1>2. Lap(n) \in BOOLEAN
  BY Zenon DEF Lap
<1> QED
  BY <1>1, <1>2, Zenon DEF Pos, Positions

(* How k more descriptors move slot and lap.                               *)
LEMMA PosPlus ==
  ASSUME NEW n \in Nat, NEW k \in 0 .. QSize
  PROVE  IF Slot(n) + k >= QSize
           THEN Slot(n + k) = Slot(n) + k - QSize /\ Lap(n + k) = ~Lap(n)
           ELSE Slot(n + k) = Slot(n) + k /\ Lap(n + k) = Lap(n)
<1>1. PICK q \in Nat, r \in Slots : n = q * QSize + r
  BY PosSplit, Zenon
<1>2. Slot(n) = r /\ Lap(n) = (q % 2 = 0)
  BY <1>1, PosOf, Zenon
<1>3. CASE r + k >= QSize
  <2>1. n + k = (q + 1) * QSize + (r + k - QSize) /\ q + 1 \in Nat /\ r + k - QSize \in Slots
    BY <1>1, <1>3, VirtqAssumption DEF Slots
  <2>2. Slot(n + k) = r + k - QSize /\ Lap(n + k) = ((q + 1) % 2 = 0)
    BY <2>1, PosOf
  <2>3. ((q + 1) % 2 = 0) = ~(q % 2 = 0)
    OBVIOUS
  <2> QED
    BY <1>2, <1>3, <2>2, <2>3, Zenon
<1>4. CASE ~(r + k >= QSize)
  <2>1. n + k = q * QSize + (r + k) /\ r + k \in Slots
    BY <1>1, <1>4, VirtqAssumption DEF Slots
  <2>2. Slot(n + k) = r + k /\ Lap(n + k) = (q % 2 = 0)
    BY <2>1, PosOf
  <2> QED
    BY <1>2, <1>4, <2>2, Zenon
<1> QED
  BY <1>3, <1>4, Zenon

(* The lap after uses the same slots with the other wrap counter.          *)
LEMMA PosLap ==
  ASSUME NEW n \in Nat
  PROVE  Slot(n + QSize) = Slot(n) /\ Lap(n + QSize) = ~Lap(n)
  BY PosPlus, PosType, VirtqAssumption DEF Slots

(* The device's step and the driver's are additions of numbers.            *)
LEMMA PosAhead ==
  ASSUME NEW n \in Nat, NEW k \in 0 .. QSize
  PROVE  Ahead(Pos(n), k) = Pos(n + k)
  BY PosPlus, PosType, Zenon DEF Ahead, Pos

(* So is the device's step.                                                *)
LEMMA PosStep ==
  ASSUME NEW n \in Nat
  PROVE  Step(Pos(n)) = Pos(n + 1)
<1>1. Step(Pos(n)) = Ahead(Pos(n), 1)
  BY Zenon DEF Step, Ahead
<1> QED
  BY <1>1, PosAhead, VirtqAssumption

(* Within a lap, different numbers have different slots.                   *)
LEMMA PosApart ==
  ASSUME NEW n \in Nat, NEW m \in Nat, n < m, m < n + QSize
  PROVE  Slot(m) # Slot(n)
<1>1. m - n \in 0 .. QSize /\ n + (m - n) = m
  BY VirtqAssumption
<1>2. IF Slot(n) + (m - n) >= QSize THEN Slot(m) = Slot(n) + (m - n) - QSize
                                    ELSE Slot(m) = Slot(n) + (m - n)
  BY <1>1, PosPlus, Zenon
<1>3. Slot(n) \in Slots
  BY PosType, Zenon
<1> QED
  BY <1>2, <1>3, VirtqAssumption DEF Slots

(* Up to one lap, the distance of two positions is that of their numbers.  *)
LEMMA PosDist ==
  ASSUME NEW n \in Nat, NEW m \in Nat, n <= m, m <= n + QSize
  PROVE  Dist(Pos(n), Pos(m)) = m - n
<1>1. m - n \in 0 .. QSize /\ n + (m - n) = m
  BY VirtqAssumption
<1>2. Dist(Pos(n), Pos(m)) = IF Lap(n) = Lap(m) THEN Slot(m) - Slot(n)
                                                ELSE Slot(m) + QSize - Slot(n)
  BY PosType, Zenon DEF Dist
<1>3. Slot(n) \in Slots /\ Lap(n) \in BOOLEAN
  BY PosType, Zenon
<1>4. IF Slot(n) + (m - n) >= QSize
        THEN Slot(m) = Slot(n) + (m - n) - QSize /\ Lap(m) = ~Lap(n)
        ELSE Slot(m) = Slot(n) + (m - n) /\ Lap(m) = Lap(n)
  BY <1>1, PosPlus, ZenonT(60)
<1>5. IF Slot(n) + (m - n) >= QSize
        THEN Dist(Pos(n), Pos(m)) = Slot(m) + QSize - Slot(n)
        ELSE Dist(Pos(n), Pos(m)) = Slot(m) - Slot(n)
  BY <1>2, <1>3, <1>4, Zenon
<1> QED
  BY <1>3, <1>4, <1>5, VirtqAssumption DEF Slots

-----------------------------------------------------------------------------
(* Types, in the detail the proofs need.                                   *)
Contents == Vals \cup {"zero", "unwritten"}
Datas == {<<>>} \cup UNION {[0 .. l - 1 -> Contents] : l \in Lens}
Statuses == {"unwritten", "OK", "IOERR", "UNSUPP"}
Answers == [status : Statuses, data : Datas]
ReqRecords == {r \in [ask : Requests, status : Statuses, data : Datas] :
                  r.data \in [0 .. r.ask.len - 1 -> Contents]}
Flags == [avail : BOOLEAN, used : BOOLEAN, next : BOOLEAN]
Descs(n) == [flags : Flags, role : {"none", "hdr", "data", "status"}, req : 0 .. n]
Runs == [by : {"none", "vcpu", "avail"},
         pc : {"idle", "head", "data", "status", "used", "isr", "notify"},
         head : Slots, cur : Slots, type : {"none", "IN", "OUT", "GET_ID"},
         req : Nat, status : {"none", "OK", "IOERR", "UNSUPP"}]

TypeInv ==
    /\ ring \in [Slots -> Descs(Len(reqs))]
    /\ reqs \in Seq(ReqRecords)
    /\ answers \in Seq(Answers)
    /\ disk \in [Sectors -> Contents]
    /\ avail \in Positions /\ last_used \in Positions /\ dev \in Positions
    /\ h \in Runs /\ h.req <= Len(reqs)
    /\ gpc \in {"run", "clear", "reap"}
    /\ unkicked \in BOOLEAN /\ seen \in BOOLEAN /\ enable \in BOOLEAN
    /\ isr \in BOOLEAN /\ intr \in BOOLEAN /\ ioeventfd \in BOOLEAN /\ killed \in BOOLEAN
    \* a slot that was never written is neither available nor used
    /\ \A i \in Slots : ring[i].req = 0 => ring[i].flags.avail = ring[i].flags.used
    /\ h.pc \in {"data", "status", "used"} => ring[h.head].req # 0 /\ h.status # "none"

-----------------------------------------------------------------------------
(* A run of the handler is the vCPU thread's or the vq_avail_thread's, by  *)
(* the length of the doorbell.  The guest stands in its main code while    *)
(* the vCPU thread is out of it.                                           *)
RunInv ==
    /\ h.by = "none" <=> h.pc = "idle"
    /\ h.pc = "idle" => h = Idle
    /\ doorbell # NotifyCapLength => ~ioeventfd /\ h.by # "avail"
    /\ h.by = "vcpu" => gpc = "run" /\ doorbell # NotifyCapLength

-----------------------------------------------------------------------------
(* Sequences that grow by one, or have one element replaced.               *)
LEMMA Appended ==
  ASSUME NEW S, NEW q \in Seq(S), NEW e \in S
  PROVE  /\ Append(q, e) \in Seq(S) /\ Len(Append(q, e)) = Len(q) + 1 /\ Len(q) \in Nat
         /\ \A i \in 1 .. Len(q) : Append(q, e)[i] = q[i]
         /\ Append(q, e)[Len(q) + 1] = e
  OBVIOUS

(* One element is replaced.                                                *)
LEMMA Replaced ==
  ASSUME NEW S, NEW q \in Seq(S), NEW i \in 1 .. Len(q), NEW e \in S
  PROVE  /\ [q EXCEPT ![i] = e] \in Seq(S) /\ Len([q EXCEPT ![i] = e]) = Len(q)
         /\ \A j \in 1 .. Len(q) : [q EXCEPT ![i] = e][j] = IF j = i THEN e ELSE q[j]
  OBVIOUS

(* What a sequence is.                                                     *)
LEMMA SeqFacts ==
  ASSUME NEW S, NEW q \in Seq(S)
  PROVE  /\ Len(q) \in Nat /\ DOMAIN q = 1 .. Len(q) /\ q \in [1 .. Len(q) -> S]
         /\ \A i \in 1 .. Len(q) : q[i] \in S
  OBVIOUS

(* A position ahead of another is a position.                              *)
LEMMA AheadType ==
  ASSUME NEW p \in Positions, NEW k \in 0 .. 3
  PROVE  /\ Ahead(p, k) \in Positions /\ Ahead(p, k).idx \in Slots
         /\ Ahead(p, k).wrap \in BOOLEAN
<1>1. p.idx \in Slots /\ p.wrap \in BOOLEAN
  BY Zenon DEF Positions
<1>2. IF p.idx + k >= QSize THEN p.idx + k - QSize \in Slots ELSE p.idx + k \in Slots
  BY <1>1, VirtqAssumption, BlkAssumption DEF Slots
<1>3. Ahead(p, k) \in Positions
  BY <1>1, <1>2, Zenon DEF Ahead, Positions
<1> QED
  BY <1>3, Zenon DEF Positions

(* The next position is a position.                                        *)
LEMMA StepType ==
  ASSUME NEW p \in Positions
  PROVE  Step(p) \in Positions
<1>1. Step(p) = Ahead(p, 1)
  BY Zenon DEF Step, Ahead
<1> QED
  BY <1>1, AheadType

(* The descriptor the driver writes as the k-th of a chain.                *)
Written(k) == [flags |-> AvailFlags(Ahead(avail, k).wrap, k < 2),
               role |-> Roles[k + 1], req |-> Len(reqs) + 1]

(* Adding a chain writes three slots and no other.                         *)
LEMMA SubmitRing ==
  ASSUME NEW r, Submit(r), NEW i \in Slots
  PROVE  \/ \E k \in 0 .. 2 : i = Ahead(avail, k).idx /\ ring'[i] = Written(k)
         \/ (\A k \in 0 .. 2 : i # Ahead(avail, k).idx) /\ ring'[i] = ring[i]
<1> DEFINE chain == {Ahead(avail, k).idx : k \in 0 .. 2}
<1> DEFINE nth == CHOOSE k \in 0 .. 2 : Ahead(avail, k).idx = i
<1>1. ring'[i] = IF i \in chain
                   THEN [flags |-> AvailFlags(Ahead(avail, nth).wrap, nth < 2),
                         role |-> Roles[nth + 1], req |-> Len(reqs) + 1]
                   ELSE ring[i]
  BY Zenon DEF Submit
<1>2. CASE i \in chain
  <2>1. nth \in 0 .. 2 /\ Ahead(avail, nth).idx = i
    BY <1>2, Zenon
  <2> HIDE DEF nth
  <2>2. ring'[i] = Written(nth)
    BY <1>1, <1>2, Zenon DEF Written
  <2> QED
    BY <2>1, <2>2, Zenon
<1>3. CASE i \notin chain
  BY <1>1, <1>3, Zenon
<1> QED
  BY <1>2, <1>3, Zenon

-----------------------------------------------------------------------------
(* Types are preserved.  The steps of the driver come first.               *)
LEMMA InitType == Init => TypeInv
<1> SUFFICES ASSUME Init PROVE TypeInv
  BY Zenon
<1>1. 0 \in Slots
  BY VirtqAssumption DEF Slots
<1>2. FirstPosition \in Positions
  BY <1>1, Zenon DEF FirstPosition, Positions
<1>3. Idle \in Runs /\ Idle.req = 0 /\ Idle.pc = "idle"
  BY <1>1, Zenon DEF Idle, Runs
<1>4. Unused \in Descs(0) /\ Unused.req = 0 /\ Unused.flags.avail = Unused.flags.used
  <2>1. Unused.flags \in Flags /\ Unused.flags.avail = Unused.flags.used
    BY Zenon DEF Unused, Flags
  <2>2. Unused.role = "none" /\ Unused.req = 0 /\ 0 \in 0 .. 0
    BY DEF Unused
  <2> QED
    BY <2>1, <2>2, Zenon DEF Unused, Descs
<1>5. reqs \in Seq(ReqRecords) /\ Len(reqs) = 0 /\ answers \in Seq(Answers)
  BY DEF Init
<1>6. /\ ring \in [Slots -> Descs(Len(reqs))]
      /\ \A i \in Slots : ring[i].req = 0 => ring[i].flags.avail = ring[i].flags.used
  BY <1>4, <1>5, Zenon DEF Init
<1>7. disk \in [Sectors -> Contents]
  BY Zenon DEF Init, Contents
<1> QED
  BY <1>2, <1>3, <1>5, <1>6, <1>7, 0 <= 0, Zenon DEF Init, TypeInv

(* Enabling the queue.                                                     *)
LEMMA EnableType == ASSUME TypeInv, EnableVq PROVE TypeInv'
  BY Zenon DEF TypeInv, EnableVq, driver

(* Adding a chain.                                                         *)
LEMMA SubmitType ==
  ASSUME TypeInv, NEW r \in Requests, Submit(r)
  PROVE  TypeInv'
<1> DEFINE new == [ask |-> r, status |-> "unwritten",
                   data |-> [k \in 0 .. r.len - 1 |-> "unwritten"]]
<1>1. reqs' = Append(reqs, new) /\ avail' = Ahead(avail, 3) /\ unkicked' = TRUE
  BY Zenon DEF Submit
<1>2. new \in ReqRecords
  <2>1. r.len \in Lens
    BY Zenon DEF Requests
  <2>2. new.data \in [0 .. r.len - 1 -> Contents]
    BY Zenon DEF Contents
  <2>3. new.data \in Datas
    BY <2>1, <2>2, Zenon DEF Datas
  <2> QED
    BY <2>2, <2>3, Zenon DEF ReqRecords, Statuses
<1> HIDE DEF new
<1>3. reqs' \in Seq(ReqRecords) /\ Len(reqs') = Len(reqs) + 1 /\ Len(reqs) \in Nat
  BY <1>1, <1>2, Appended DEF TypeInv
<1>4. \A k \in 0 .. 2 : Written(k) \in Descs(Len(reqs')) /\ Written(k).req # 0
  <2> TAKE k \in 0 .. 2
  <2>1. Ahead(avail, k).wrap \in BOOLEAN
    BY AheadType DEF TypeInv
  <2>2. AvailFlags(Ahead(avail, k).wrap, k < 2) \in Flags
    BY <2>1, (k < 2) \in BOOLEAN, Zenon DEF AvailFlags, Flags
  <2>3. Roles[k + 1] \in {"none", "hdr", "data", "status"}
    BY DEF Roles
  <2>4. Len(reqs) + 1 \in 0 .. Len(reqs') /\ Len(reqs) + 1 # 0
    BY <1>3
  <2> QED
    BY <2>2, <2>3, <2>4, Zenon DEF Written, Descs
<1>5. \A d \in Descs(Len(reqs)) : d \in Descs(Len(reqs'))
  BY <1>3 DEF Descs
<1>0. \A i \in Slots :
        (\E k \in 0 .. 2 : ring'[i] = Written(k)) \/ ring'[i] = ring[i]
  BY SubmitRing, Zenon
<1>6. \A i \in Slots : ring'[i] \in Descs(Len(reqs'))
  BY <1>0, <1>4, <1>5, Zenon DEF TypeInv
<1>7. \A i \in Slots : ring'[i].req = 0 => ring'[i].flags.avail = ring'[i].flags.used
  BY <1>0, <1>4, Zenon DEF TypeInv
<1>8. ring' \in [Slots -> Descs(Len(reqs'))]
  BY <1>6, Zenon DEF Submit
<1>9. avail' \in Positions
  BY <1>1, AheadType DEF TypeInv
<1>10. h' = h /\ h.req <= Len(reqs')
  BY <1>3 DEF Submit, host, TypeInv, Runs
<1>11. h.pc \in {"data", "status", "used"} => ring'[h.head].req # 0
  <2> SUFFICES ASSUME h.pc \in {"data", "status", "used"} PROVE ring'[h.head].req # 0
    BY Zenon
  <2>1. h.head \in Slots /\ ring[h.head].req # 0
    BY Zenon DEF TypeInv, Runs
  <2> QED
    BY <2>1, <1>0, <1>4, Zenon
<1> QED
  BY <1>1, <1>3, <1>7, <1>8, <1>9, <1>10, <1>11, Zenon DEF Submit, host, TypeInv

(* The run a doorbell begins.                                              *)
LEMMA IdleRun ==
  ASSUME NEW w \in {"vcpu", "avail"}
  PROVE  LET i == [Idle EXCEPT !.by = w, !.pc = "head"]
         IN  /\ i \in Runs /\ i.by = w /\ i.pc = "head" /\ i.req = 0 /\ Idle \in Runs
             /\ Idle.req = 0 /\ Idle.pc = "idle" /\ Idle.by = "none"
<1>1. 0 \in Slots
  BY VirtqAssumption DEF Slots
<1> QED
  BY <1>1, Zenon DEF Idle, Runs

(* Ringing the doorbell.                                                   *)
LEMMA KickType == ASSUME TypeInv, Kick PROVE TypeInv'
<1>1. Len(reqs) \in Nat
  BY SeqFacts, Zenon DEF TypeInv
<1>2. h' \in Runs /\ h'.req <= Len(reqs) /\ (h' # h => h'.pc = "head")
  <2>1. h' = h \/ h' = [Idle EXCEPT !.by = "vcpu", !.pc = "head"]
    BY Zenon DEF Kick
  <2>2. CASE h' = h
    BY <2>2, Zenon DEF TypeInv
  <2>3. CASE h' = [Idle EXCEPT !.by = "vcpu", !.pc = "head"]
    <3>1. h' \in Runs /\ h'.pc = "head" /\ h'.req = 0
      BY <2>3, IdleRun, Zenon
    <3> QED
      BY <1>1, <3>1
  <2> QED
    BY <2>1, <2>2, <2>3, Zenon
<1>3. h'.pc \in {"data", "status", "used"} => ring[h'.head].req # 0 /\ h'.status # "none"
  BY <1>2, Zenon DEF TypeInv
<1> QED
  BY <1>2, <1>3, Zenon DEF TypeInv, Kick

(* Reading and clearing isr_status.                                        *)
LEMMA IrqType == ASSUME TypeInv, IsrRead \/ IsrClear PROVE TypeInv'
<1>1. CASE IsrRead
  BY <1>1, Zenon DEF TypeInv, IsrRead
<1>2. CASE IsrClear
  BY <1>2, Zenon DEF TypeInv, IsrClear
<1> QED
  BY <1>1, <1>2, Zenon

(* Taking a used chain back.                                               *)
LEMMA ReapType == ASSUME TypeInv, Reap PROVE TypeInv'
<1>1. last_used' \in Positions
  BY AheadType DEF TypeInv, Reap
<1>2. gpc' \in {"run", "clear", "reap"}
  BY Zenon DEF TypeInv, Reap
<1> QED
  BY <1>1, <1>2, Zenon DEF TypeInv, Reap, host

(* What the updates of a run of the handler leave as it was.               *)
LEMMA RunPc ==
  ASSUME h \in Runs, NEW x \in {"head", "isr", "notify"}, NEW g, g = [h EXCEPT !.pc = x]
  PROVE  /\ g \in Runs /\ g.pc = x /\ g.by = h.by /\ g.head = h.head /\ g.cur = h.cur
         /\ g.type = h.type /\ g.req = h.req /\ g.status = h.status
  BY Zenon DEF Runs

(* The descriptor at the device's position, when it is available.          *)
LEMMA HereType ==
  ASSUME TypeInv, IsAvail(Here.flags, dev.wrap)
  PROVE  /\ dev.idx \in Slots /\ Here.req \in 1 .. Len(reqs) /\ Len(reqs) \in Nat
         /\ Here.req # 0 /\ Step(dev) \in Positions
<1>1. dev.idx \in Slots
  BY Zenon DEF TypeInv, Positions
<1>2. Len(reqs) \in Nat
  BY SeqFacts, Zenon DEF TypeInv
<1>3. Here.req \in 0 .. Len(reqs)
  BY <1>1, Zenon DEF Here, TypeInv, Descs
<1>4. Here.req # 0
  BY <1>1, Zenon DEF Here, TypeInv, IsAvail
<1>5. Step(dev) \in Positions
  BY StepType, Zenon DEF TypeInv
<1> QED
  BY <1>1, <1>2, <1>3, <1>4, <1>5

(* The two threads.                                                        *)
LEMMA ThreadType == ASSUME TypeInv, AvailThread \/ BlkThread PROVE TypeInv'
<1>1. CASE AvailThread
  <2>1. Len(reqs) \in Nat
    BY SeqFacts, Zenon DEF TypeInv
  <2>2. h' \in Runs /\ h'.req = 0 /\ h'.pc = "head"
    BY <1>1, IdleRun, Zenon DEF AvailThread
  <2>3. h'.req <= Len(reqs)
    BY <2>1, <2>2
  <2>4. ~(h'.pc \in {"data", "status", "used"})
    BY <2>2, Zenon
  <2> QED
    BY <1>1, <2>2, <2>3, <2>4, Zenon DEF TypeInv, AvailThread, driver
<1>2. CASE BlkThread
  BY <1>2, Zenon DEF TypeInv, BlkThread, driver
<1> QED
  BY <1>1, <1>2, Zenon

(* The run a head begins.                                                  *)
LEMMA HeadRun ==
  ASSUME TypeInv, TakeHead, IsAvail(Here.flags, dev.wrap)
  PROVE  /\ dev' = Step(dev) /\ h' \in Runs /\ h'.by = h.by /\ h'.head = dev.idx
         /\ h'.cur = dev.idx /\ h'.req = Here.req /\ h'.status = "UNSUPP"
         /\ h'.type \in {"IN", "OUT", "GET_ID"}
         /\ h'.pc = IF h'.type \in {"IN", "OUT"} THEN "data" ELSE "status"
         /\ Here.role = "hdr" => h'.type = reqs[Here.req].ask.type
<1> DEFINE x(t) == IF t \in {"IN", "OUT"} THEN "data" ELSE "status"
<1>1. PICK t \in {"IN", "OUT", "GET_ID"} :
         /\ Here.role = "hdr" => t = reqs[Here.req].ask.type
         /\ h' = [h EXCEPT !.head = dev.idx, !.cur = dev.idx, !.type = t,
                           !.req = Here.req, !.status = "UNSUPP", !.pc = x(t)]
  <2>1. \A i \in 1 .. Len(reqs) : reqs[i] \in ReqRecords
    BY SeqFacts, Zenon DEF TypeInv
  <2>2. reqs[Here.req] \in ReqRecords
    BY <2>1, HereType, Zenon
  <2>3. reqs[Here.req].ask.type \in {"IN", "OUT", "GET_ID"}
    BY <2>2, BlkAssumption, Zenon DEF ReqRecords, Requests
  <2> QED
    BY <2>3, Zenon DEF TakeHead
<1>2. x(t) \in {"data", "status"}
  BY Zenon
<1>3. dev.idx \in Slots /\ Here.req \in Nat
  BY HereType
<1>4. h \in Runs
  BY Zenon DEF TypeInv
<1> DEFINE y == x(t)
<1>5. y = IF t \in {"IN", "OUT"} THEN "data" ELSE "status"
  BY Zenon
<1> HIDE DEF y
<1>6. h' = [h EXCEPT !.head = dev.idx, !.cur = dev.idx, !.type = t,
                     !.req = Here.req, !.status = "UNSUPP", !.pc = y]
  BY <1>1, Zenon DEF y
<1>7. y \in {"data", "status"}
  BY <1>2, Zenon DEF y
<1> HIDE DEF x
<1>8. /\ h' \in Runs /\ h'.pc = y /\ h'.by = h.by /\ h'.head = dev.idx /\ h'.cur = dev.idx
      /\ h'.type = t /\ h'.req = Here.req /\ h'.status = "UNSUPP"
  BY <1>3, <1>4, <1>6, <1>7, Zenon DEF Runs
<1>9. dev' = Step(dev)
  BY Zenon DEF TakeHead
<1> QED
  BY <1>1, <1>5, <1>8, <1>9, Zenon

(* Taking a head.                                                          *)
LEMMA HeadType == ASSUME TypeInv, TakeHead PROVE TypeInv'
<1>1. CASE IsAvail(Here.flags, dev.wrap)
  <2>1. /\ dev' = Step(dev) /\ h' \in Runs /\ h'.head = dev.idx /\ h'.req = Here.req
        /\ h'.status = "UNSUPP"
    BY <1>1, HeadRun, Zenon
  <2>2. h'.req <= Len(reqs) /\ ring[h'.head].req # 0 /\ h'.status # "none"
    BY <1>1, <2>1, HereType DEF Here
  <2> QED
    BY <1>1, <2>1, <2>2, HereType, ZenonT(60) DEF TypeInv, TakeHead, driver
<1>2. CASE ~IsAvail(Here.flags, dev.wrap)
  <2>1. h' \in Runs /\ h'.pc = "notify" /\ h'.req = h.req
    BY <1>2, RunPc, Zenon DEF TypeInv, TakeHead
  <2>2. ~(h'.pc \in {"data", "status", "used"})
    BY <2>1, Zenon
  <2> QED
    BY <1>2, <2>1, <2>2, ZenonT(60) DEF TypeInv, TakeHead, driver
<1> QED
  BY <1>1, <1>2, Zenon

(* The steps of the handler that touch no request.                         *)
LEMMA QuietType == ASSUME TypeInv, ChainEnds \/ SetIsr \/ Notify PROVE TypeInv'
<1>1. h \in Runs
  BY Zenon DEF TypeInv
<1>2. /\ h' \in Runs /\ h'.pc \in {"notify", "head", "idle"}
      /\ h'.req = h.req \/ h'.req = 0
  BY <1>1, RunPc, IdleRun, Zenon DEF ChainEnds, SetIsr, Notify
<1>3. h'.req <= Len(reqs)
  BY <1>2, SeqFacts DEF TypeInv
<1>4. ~(h'.pc \in {"data", "status", "used"})
  BY <1>2, Zenon
<1>5. UNCHANGED <<ring, reqs, driver, enable, dev, disk, ioeventfd, killed, answers>>
  BY Zenon DEF ChainEnds, SetIsr, Notify
<1>6. isr' \in BOOLEAN /\ intr' \in BOOLEAN
  BY Zenon DEF ChainEnds, SetIsr, Notify, TypeInv
<1> QED
  BY <1>2, <1>3, <1>4, <1>5, <1>6, Zenon DEF TypeInv, driver

(* The step over the data descriptor, with what it answers.                *)
LEMMA DataType ==
  ASSUME TypeInv, NextInChain, At("data"),
         NEW st \in {"OK", "IOERR"}, NEW d \in Datas, DataDone(st, d),
         reqs' \in Seq(ReqRecords), Len(reqs') = Len(reqs), disk' \in [Sectors -> Contents]
  PROVE  TypeInv'
<1>1. h' \in Runs /\ h'.head = h.head /\ h'.req = h.req /\ h'.status = st
  <2>1. h \in Runs /\ h' = [h EXCEPT !.pc = "status", !.cur = dev.idx, !.status = st]
    BY Zenon DEF TypeInv, DataDone
  <2>2. dev.idx \in Slots
    BY HereType, Zenon DEF NextInChain
  <2> QED
    BY <2>1, <2>2, Zenon DEF Runs
<1>2. h'.status # "none"
  BY <1>1, Zenon
<1>3. answers' \in Seq(Answers)
  <2>1. [status |-> st, data |-> d] \in Answers
    BY Zenon DEF Answers, Statuses
  <2> QED
    BY <2>1, Appended, Zenon DEF TypeInv, DataDone
<1>4. dev' \in Positions
  BY HereType, Zenon DEF NextInChain
<1>5. ring[h.head].req # 0
  BY Zenon DEF TypeInv, At
<1> QED
  BY <1>1, <1>2, <1>3, <1>4, <1>5, Zenon DEF TypeInv, DataDone, driver

(* The request of an available descriptor.                                 *)
LEMMA HereReq ==
  ASSUME TypeInv, IsAvail(Here.flags, dev.wrap)
  PROVE  /\ reqs[Here.req] \in ReqRecords
         /\ reqs[Here.req].ask \in Requests
         /\ reqs[Here.req].data \in [0 .. reqs[Here.req].ask.len - 1 -> Contents]
<1>1. \A i \in 1 .. Len(reqs) : reqs[i] \in ReqRecords
  BY SeqFacts, Zenon DEF TypeInv
<1>2. reqs[Here.req] \in ReqRecords
  BY <1>1, HereType, Zenon
<1> QED
  BY <1>2, Zenon DEF ReqRecords

(* A request's sectors are on the disk.                                    *)
LEMMA AskOnDisk ==
  ASSUME NEW a \in Requests
  PROVE  /\ a.len \in Lens /\ a.len \in Nat /\ a.len > 0 /\ a.sector \in Nat /\ a.val \in Vals
         /\ DataSize(a) \in Nat /\ DataSize(a) <= a.len
         /\ \A k \in 0 .. a.len - 1 : a.sector + k \in Sectors
<1>1. a.len \in Lens /\ a.sector \in Sectors /\ a.val \in Vals
      /\ a.sector + a.len - 1 \in Sectors
  BY Zenon DEF Requests
<1>2. a.len \in Nat /\ a.len > 0 /\ a.sector \in Nat
  <2>1. a.len \in Nat \ {0} /\ a.sector \in Nat
    BY <1>1, BlkAssumption, Zenon
  <2> QED
    BY <2>1
<1>3. DataSize(a) \in Nat /\ DataSize(a) <= a.len
  BY <1>2, BlkAssumption DEF DataSize
<1>4. ASSUME NEW k \in 0 .. a.len - 1 PROVE a.sector + k \in Sectors
  <2>1. a.sector + k \in 0 .. (a.sector + a.len - 1)
    BY <1>2
  <2> QED
    BY <1>1, <2>1, BlkAssumption, Zenon
<1> QED
  BY <1>1, <1>2, <1>3, <1>4, Zenon

(* What a read leaves in the request's buffer.                             *)
ReadData(q) == [k \in 0 .. reqs[q].ask.len - 1 |->
                  IF k < DataSize(reqs[q].ask) THEN disk[reqs[q].ask.sector + k]
                                               ELSE reqs[q].data[k]]

(* A read changes the data of one request and nothing else.                *)
LEMMA ReadType ==
  ASSUME TypeInv, DataIn
  PROVE  /\ ReadData(Here.req) \in Datas /\ DataDone("OK", ReadData(Here.req))
         /\ ReadData(Here.req) \in [0 .. reqs[Here.req].ask.len - 1 -> Contents]
         /\ reqs' \in Seq(ReqRecords) /\ Len(reqs') = Len(reqs) /\ NextInChain
         /\ \A j \in 1 .. Len(reqs) :
               /\ reqs'[j].ask = reqs[j].ask /\ reqs'[j].status = reqs[j].status
               /\ reqs'[j].data = IF j = Here.req THEN ReadData(Here.req) ELSE reqs[j].data
<1> DEFINE q == Here.req
<1> DEFINE a == reqs[q].ask
<1> DEFINE e == [reqs[q] EXCEPT !.data = ReadData(q)]
<1>1. NextInChain /\ IsAvail(Here.flags, dev.wrap)
  BY Zenon DEF DataIn, NextInChain
<1>2. reqs[q] \in ReqRecords /\ a \in Requests /\ reqs[q].data \in [0 .. a.len - 1 -> Contents]
  BY <1>1, HereReq, Zenon
<1>3. q \in 1 .. Len(reqs)
  BY <1>1, HereType, Zenon
<1>4. reqs' = [reqs EXCEPT ![q].data = ReadData(q)] /\ DataDone("OK", ReadData(q))
  BY Zenon DEF DataIn, ReadData
<1>5. ReadData(q) \in [0 .. a.len - 1 -> Contents]
  <2>1. ASSUME NEW k \in 0 .. a.len - 1
        PROVE  disk[a.sector + k] \in Contents /\ reqs[q].data[k] \in Contents
    BY <1>2, AskOnDisk, Zenon DEF TypeInv
  <2> QED
    BY <2>1, Zenon DEF ReadData
<1>6. ReadData(q) \in Datas
  BY <1>2, <1>5, AskOnDisk, Zenon DEF Datas
<1> HIDE DEF q
<1>7. /\ e \in ReqRecords /\ e.ask = reqs[q].ask /\ e.status = reqs[q].status
      /\ e.data = ReadData(q)
  BY <1>2, <1>5, <1>6, Zenon DEF ReqRecords
<1>8. reqs' = [reqs EXCEPT ![q] = e]
  BY <1>4, Zenon
<1> HIDE DEF e
<1>9. /\ reqs' \in Seq(ReqRecords) /\ Len(reqs') = Len(reqs)
      /\ \A j \in 1 .. Len(reqs) : reqs'[j] = IF j = q THEN e ELSE reqs[j]
  BY <1>3, <1>7, <1>8, Replaced DEF TypeInv
<1>10. \A j \in 1 .. Len(reqs) :
          /\ reqs'[j].ask = reqs[j].ask /\ reqs'[j].status = reqs[j].status
          /\ reqs'[j].data = IF j = q THEN ReadData(q) ELSE reqs[j].data
  BY <1>7, <1>9, Zenon
<1> QED
  BY <1>1, <1>4, <1>5, <1>6, <1>9, <1>10, Zenon DEF q

(* The step over the status descriptor.                                    *)
LEMMA StatusStep ==
  ASSUME TypeInv, Status
  PROVE  /\ NextInChain /\ Here.req \in 1 .. Len(reqs) /\ dev.idx \in Slots
         /\ h' \in Runs /\ h'.pc = "used" /\ h'.by = h.by /\ h'.head = h.head
         /\ h'.cur = dev.idx /\ h'.type = h.type /\ h'.req = h.req /\ h'.status = h.status
         /\ reqs' \in Seq(ReqRecords) /\ Len(reqs') = Len(reqs)
         /\ \A j \in 1 .. Len(reqs) :
               /\ reqs'[j].ask = reqs[j].ask /\ reqs'[j].data = reqs[j].data
               /\ reqs'[j].status = IF j = Here.req /\ Here.role = "status"
                                      THEN h.status ELSE reqs[j].status
         /\ answers' \in Seq(Answers)
<1> DEFINE q == Here.req
<1> DEFINE e == [reqs[q] EXCEPT !.status = h.status]
<1>1. NextInChain /\ IsAvail(Here.flags, dev.wrap)
  BY Zenon DEF Status, NextInChain
<1>2. reqs[q] \in ReqRecords
  BY <1>1, HereReq, Zenon
<1>3. q \in 1 .. Len(reqs) /\ dev.idx \in Slots
  BY <1>1, HereType, Zenon
<1>4. h.status \in Statuses
  <2>1. h.status \in {"none", "OK", "IOERR", "UNSUPP"} /\ h.status # "none"
    BY Zenon DEF TypeInv, Runs, Status, At
  <2> QED
    BY <2>1, Zenon DEF Statuses
<1> HIDE DEF q
<1>5. e \in ReqRecords /\ e.ask = reqs[q].ask /\ e.data = reqs[q].data /\ e.status = h.status
  BY <1>2, <1>4, Zenon DEF ReqRecords
<1>6. reqs' = IF Here.role = "status" THEN [reqs EXCEPT ![q] = e] ELSE reqs
  BY Zenon DEF Status, q
<1> HIDE DEF e
<1>7. /\ reqs' \in Seq(ReqRecords) /\ Len(reqs') = Len(reqs)
      /\ \A j \in 1 .. Len(reqs) :
            reqs'[j] = IF j = q /\ Here.role = "status" THEN e ELSE reqs[j]
  BY <1>3, <1>5, <1>6, Replaced DEF TypeInv
<1>8. \A j \in 1 .. Len(reqs) :
         /\ reqs'[j].ask = reqs[j].ask /\ reqs'[j].data = reqs[j].data
         /\ reqs'[j].status = IF j = q /\ Here.role = "status" THEN h.status
                                                               ELSE reqs[j].status
  BY <1>5, <1>7, Zenon
<1>9. answers' \in Seq(Answers)
  <2>1. [status |-> h.status, data |-> <<>>] \in Answers
    BY <1>4, Zenon DEF Answers, Datas
  <2>2. answers \in Seq(Answers)
    BY Zenon DEF TypeInv
  <2> QED
    BY <2>1, <2>2, Appended, Zenon DEF Status
<1>10. /\ h' \in Runs /\ h'.pc = "used" /\ h'.by = h.by /\ h'.head = h.head
       /\ h'.cur = dev.idx /\ h'.type = h.type /\ h'.req = h.req /\ h'.status = h.status
  <2>1. h \in Runs /\ h' = [h EXCEPT !.pc = "used", !.cur = dev.idx]
    BY Zenon DEF TypeInv, Status
  <2> QED
    BY <1>3, <2>1, Zenon DEF Runs
<1> QED
  BY <1>1, <1>3, <1>7, <1>8, <1>9, <1>10, Zenon DEF q

(* Types over that step.                                                   *)
LEMMA StatusType == ASSUME TypeInv, Status PROVE TypeInv'
<1>1. /\ NextInChain /\ h' \in Runs /\ h'.head = h.head /\ h'.req = h.req
      /\ h'.status = h.status /\ reqs' \in Seq(ReqRecords) /\ Len(reqs') = Len(reqs)
      /\ answers' \in Seq(Answers)
  BY StatusStep, Zenon
<1>2. dev' \in Positions
  BY <1>1, HereType, Zenon DEF NextInChain
<1>3. ring[h.head].req # 0 /\ h.status # "none"
  BY Zenon DEF TypeInv, Status, At
<1> QED
  BY <1>1, <1>2, <1>3, ZenonT(60) DEF TypeInv, Status, driver

(* Giving a chain back changes one flag of its head.                       *)
LEMMA UsedRing ==
  ASSUME TypeInv, Used
  PROVE  /\ h.head \in Slots /\ \A i \in Slots \ {h.head} : ring'[i] = ring[i]
         /\ ring'[h.head] = [ring[h.head] EXCEPT !.flags = MarkUsed(@)]
         /\ ring' \in [Slots -> Descs(Len(reqs))]
         /\ \A i \in Slots : ring'[i].req = ring[i].req
<1> DEFINE hd == h.head
<1>1. hd \in Slots /\ ring \in [Slots -> Descs(Len(reqs))]
  BY Zenon DEF TypeInv, Runs
<1>2. ring' = [ring EXCEPT ![hd] = [ring[hd] EXCEPT !.flags = MarkUsed(@)]]
  BY Zenon DEF Used
<1>3. ring[hd] \in Descs(Len(reqs))
  BY <1>1, Zenon
<1>4. MarkUsed(ring[hd].flags) \in Flags
  BY <1>3, Zenon DEF MarkUsed, Descs, Flags
<1> DEFINE e == [ring[hd] EXCEPT !.flags = MarkUsed(@)]
<1>5. e \in Descs(Len(reqs)) /\ e.req = ring[hd].req
  BY <1>3, <1>4, Zenon DEF Descs
<1> HIDE DEF hd
<1>6. ring'[hd] = e /\ \A i \in Slots \ {hd} : ring'[i] = ring[i]
  BY <1>1, <1>2, Zenon
<1>7. ring' \in [Slots -> Descs(Len(reqs))]
  <2> HIDE DEF e
  <2> QED
    BY <1>1, <1>2, <1>5, Zenon DEF e
<1>8. \A i \in Slots : ring'[i].req = ring[i].req
  BY <1>5, <1>6, Zenon
<1> QED
  BY <1>1, <1>6, <1>7, <1>8, Zenon DEF hd

(* Types when a chain is given back.                                       *)
LEMMA UsedType == ASSUME TypeInv, Used PROVE TypeInv'
<1>1. h' \in Runs /\ h'.pc = "isr" /\ h'.req = h.req
  BY RunPc, Zenon DEF TypeInv, Used
<1>2. ~(h'.pc \in {"data", "status", "used"})
  BY <1>1, Zenon
<1>3. ring[h.head].req # 0
  BY Zenon DEF TypeInv, Used, At
<1>4. ring' \in [Slots -> Descs(Len(reqs))]
  BY UsedRing, Zenon
<1>5. \A i \in Slots : ring'[i].req = 0 => ring'[i].flags.avail = ring'[i].flags.used
  BY <1>3, UsedRing, Zenon DEF TypeInv
<1> QED
  BY <1>1, <1>2, <1>4, <1>5, Zenon DEF TypeInv, Used, driver

(* Every step keeps the types.                                             *)
LEMMA NextType == ASSUME TypeInv, [Next]_vars PROVE TypeInv'
<1>1. CASE DataIn
  <2>1. /\ ReadData(Here.req) \in Datas /\ DataDone("OK", ReadData(Here.req))
        /\ reqs' \in Seq(ReqRecords) /\ Len(reqs') = Len(reqs) /\ NextInChain
    BY <1>1, ReadType, Zenon
  <2>2. At("data") /\ disk' \in [Sectors -> Contents]
    BY <1>1, Zenon DEF DataIn, TypeInv
  <2> QED
    BY <2>1, <2>2, DataType, Zenon
<1>2. CASE DataOut
  <2> DEFINE r == reqs[Here.req].ask
  <2>1. /\ At("data") /\ NextInChain /\ DataDone("OK", <<>>) /\ reqs' = reqs
        /\ disk' = [s \in Sectors |-> IF s \in r.sector .. r.sector + DataSize(r) - 1
                                        THEN r.val ELSE disk[s]]
    BY <1>2, Zenon DEF DataOut
  <2>2. r.val \in Contents
    <3>1. r \in Requests
      BY <2>1, HereReq, Zenon DEF NextInChain
    <3> QED
      BY <3>1, AskOnDisk, Zenon DEF Contents
  <2>3. disk' \in [Sectors -> Contents]
    BY <2>1, <2>2, Zenon DEF TypeInv
  <2>4. <<>> \in Datas
    BY Zenon DEF Datas
  <2>5. reqs' \in Seq(ReqRecords) /\ Len(reqs') = Len(reqs)
    BY <2>1, Zenon DEF TypeInv
  <2> QED
    BY <2>1, <2>3, <2>4, <2>5, DataType, Zenon
<1>3. CASE DataFails
  <2>1. /\ At("data") /\ NextInChain /\ DataDone("IOERR", <<>>)
        /\ reqs' \in Seq(ReqRecords) /\ Len(reqs') = Len(reqs)
        /\ disk' \in [Sectors -> Contents]
    BY <1>3, Zenon DEF DataFails, TypeInv
  <2>2. <<>> \in Datas
    BY Zenon DEF Datas
  <2> QED
    BY <2>1, <2>2, DataType, Zenon
<1>4. CASE UNCHANGED vars
  BY <1>4, ZenonT(60) DEF TypeInv, vars, driver, host
<1>5. CASE \E r \in Requests : Submit(r)
  BY <1>5, SubmitType, Zenon
<1> QED
  BY <1>1, <1>2, <1>3, <1>4, <1>5, EnableType, KickType, IrqType, ReapType, ThreadType,
     HeadType, QuietType, StatusType, UsedType, Zenon DEF Next, Handler, GuestIrq

-----------------------------------------------------------------------------
(* A step of the handler stays in its run, until the last.                 *)
LEMMA HandlerRun ==
  ASSUME TypeInv, Handler
  PROVE  /\ h.pc # "idle" /\ UNCHANGED driver /\ ioeventfd' = ioeventfd
         /\ (h'.by = h.by /\ h'.pc # "idle") \/ (h' = Idle /\ Notify)
<1> USE DEF At
<1>0. h \in Runs
  BY Zenon DEF TypeInv
<1>1. CASE TakeHead
  <2>1. CASE IsAvail(Here.flags, dev.wrap)
    BY <1>1, <2>1, HeadRun, Zenon DEF TakeHead
  <2>2. CASE ~IsAvail(Here.flags, dev.wrap)
    <3>1. h' = [h EXCEPT !.pc = "notify"]
      BY <1>1, <2>2, Zenon DEF TakeHead
    <3> QED
      BY <1>0, <1>1, <3>1, RunPc, Zenon DEF TakeHead
  <2> QED
    BY <2>1, <2>2, Zenon
<1>2. CASE ChainEnds \/ SetIsr \/ Used
  <2>1. \E x \in {"notify", "head", "isr"} : h' = [h EXCEPT !.pc = x]
    BY <1>2, Zenon DEF ChainEnds, SetIsr, Used
  <2>2. h'.by = h.by /\ h'.pc # "idle"
    BY <1>0, <2>1, RunPc
  <2> QED
    BY <1>2, <2>2, Zenon DEF ChainEnds, SetIsr, Used
<1>3. CASE DataIn \/ DataOut \/ DataFails
  <2>1. /\ h.pc = "data" /\ UNCHANGED driver /\ ioeventfd' = ioeventfd
        /\ \E st \in {"OK", "IOERR"} :
              h' = [h EXCEPT !.pc = "status", !.cur = dev.idx, !.status = st]
    BY <1>3, Zenon DEF DataIn, DataOut, DataFails, DataDone
  <2>2. h'.by = h.by /\ h'.pc = "status"
    BY <1>0, <2>1, Zenon DEF Runs
  <2> QED
    BY <2>1, <2>2, Zenon
<1>4. CASE Status
  BY <1>4, StatusStep, Zenon DEF Status
<1>5. CASE Notify
  BY <1>5, Zenon DEF Notify
<1> QED
  BY <1>1, <1>2, <1>3, <1>4, <1>5, Zenon DEF Handler

(* No run at the start.                                                    *)
LEMMA InitRun == Init => RunInv
  BY DEF Init, RunInv, Idle

(* Every step keeps who runs the handler.                                  *)
LEMMA NextRun == ASSUME TypeInv, RunInv, [Next]_vars PROVE RunInv'
<1>0. h \in Runs
  BY Zenon DEF TypeInv
<1>1. CASE Handler
  <2>1. CASE h' = Idle
    <3>1. h'.by = "none" /\ h'.pc = "idle"
      BY <2>1, Zenon DEF Idle
    <3>2. ioeventfd' = ioeventfd /\ doorbell' = doorbell
      BY <1>1, HandlerRun, Zenon DEF driver
    <3> QED
      BY <2>1, <3>1, <3>2, Zenon DEF RunInv
  <2>2. CASE h' # Idle
    <3>1. h.pc # "idle" /\ h'.by = h.by /\ h'.pc # "idle"
      BY <1>1, <2>2, HandlerRun, Zenon
    <3>2. ioeventfd' = ioeventfd /\ doorbell' = doorbell /\ gpc' = gpc
      BY <1>1, HandlerRun, Zenon DEF driver
    <3> QED
      BY <3>1, <3>2, Zenon DEF RunInv
  <2> QED
    BY <2>1, <2>2, Zenon
<1>2. CASE Kick
  <2>1. CASE h' = h
    <3>1. doorbell = NotifyCapLength \/ ioeventfd' = ioeventfd
      BY <1>2, Zenon DEF Kick
    <3>2. doorbell' = doorbell /\ gpc' = gpc
      BY <1>2, Zenon DEF Kick
    <3> QED
      BY <2>1, <3>1, <3>2 DEF RunInv
  <2>2. CASE h' # h
    <3>1. /\ doorbell # NotifyCapLength /\ ioeventfd' = ioeventfd
          /\ h' = [Idle EXCEPT !.by = "vcpu", !.pc = "head"]
      BY <1>2, <2>2, Zenon DEF Kick
    <3>2. h'.by = "vcpu" /\ h'.pc = "head"
      BY <3>1, IdleRun, Zenon
    <3>3. gpc' = "run" /\ doorbell' = doorbell
      BY <1>2, Zenon DEF Kick
    <3> QED
      BY <3>1, <3>2, <3>3, Zenon DEF RunInv
  <2> QED
    BY <2>1, <2>2, Zenon
<1>3. CASE AvailThread
  <2>1. h'.by = "avail" /\ h'.pc = "head"
    BY <1>3, IdleRun, Zenon DEF AvailThread
  <2>2. doorbell' = doorbell /\ gpc' = gpc /\ ioeventfd' = FALSE /\ ioeventfd
    BY <1>3, Zenon DEF AvailThread, driver
  <2> QED
    BY <2>1, <2>2, Zenon DEF RunInv
<1>4. CASE BlkThread \/ EnableVq \/ UNCHANGED vars \/ (\E r \in Requests : Submit(r))
  <2>1. h' = h /\ ioeventfd' = ioeventfd /\ doorbell' = doorbell /\ gpc' = gpc
    BY <1>4, Zenon DEF BlkThread, EnableVq, Submit, vars, driver, host
  <2> QED
    BY <2>1, Zenon DEF RunInv
<1>5. CASE GuestIrq
  <2>1. h' = h /\ ioeventfd' = ioeventfd /\ doorbell' = doorbell /\ h.by # "vcpu"
    BY <1>5, Zenon DEF GuestIrq, IsrRead, IsrClear, Reap, host, GuestRuns
  <2> QED
    BY <2>1, Zenon DEF RunInv
<1> QED
  BY <1>1, <1>2, <1>3, <1>4, <1>5, Zenon DEF Next

-----------------------------------------------------------------------------
(* Descriptor k of chain c, when the first u chains have been used.        *)
Desc(c, k, u) ==
    [flags |-> [avail |-> Lap(3 * c + k),
                used |-> IF k = 0 /\ c < u THEN Lap(3 * c + k) ELSE ~Lap(3 * c + k),
                next |-> k < 2],
     role |-> Roles[k + 1], req |-> c + 1]

(* The driver's side: the slots from last_used to avail hold the chains    *)
(* not taken back, the others the flags of the lap before.                 *)
RingInv(u) ==
    /\ taken \in Seq(Answers)
    /\ last_used = Pos(3 * Len(taken)) /\ avail = Pos(3 * Len(reqs))
    /\ Len(taken) <= u /\ u <= Len(reqs)
    /\ 3 * Len(reqs) <= 3 * Len(taken) + QSize
    /\ \A c \in Len(taken) .. Len(reqs) - 1 : \A k \in 0 .. 2 :
          ring[Slot(3 * c + k)] = Desc(c, k, u)
    /\ \A m \in 3 * Len(reqs) .. 3 * Len(taken) + QSize - 1 :
          ring[Slot(m)].flags.avail = ~Lap(m)

(* The lengths are numbers.                                                *)
LEMMA Lengths ==
  ASSUME TypeInv, NEW u \in Nat, RingInv(u)
  PROVE  Len(reqs) \in Nat /\ Len(taken) \in Nat /\ Len(answers) \in Nat
  BY SeqFacts, Zenon DEF TypeInv, RingInv

(* The fields of a descriptor of a chain.                                  *)
LEMMA DescFields ==
  ASSUME NEW c \in Nat, NEW k \in 0 .. 2, NEW u \in Nat
  PROVE  /\ Desc(c, k, u).flags.avail = Lap(3 * c + k)
         /\ k = 0 /\ c < u => Desc(c, k, u).flags.used = Lap(3 * c + k)
         /\ ~(k = 0 /\ c < u) => Desc(c, k, u).flags.used = ~Lap(3 * c + k)
         /\ Desc(c, k, u).flags.next <=> k < 2
         /\ Desc(c, k, u).role = Roles[k + 1] /\ Desc(c, k, u).req = c + 1
         /\ Lap(3 * c + k) \in BOOLEAN /\ 3 * c + k \in Nat
<1>1. 3 * c + k \in Nat
  OBVIOUS
<1>2. Lap(3 * c + k) \in BOOLEAN
  BY <1>1, PosType, Zenon
<1> QED
  BY <1>1, <1>2, Zenon DEF Desc

(* Where the device stands on a descriptor of a chain that it has not used *)
(* the head of, the descriptor is available.                               *)
LEMMA ChainAvail ==
  ASSUME TypeInv, NEW u \in Nat, RingInv(u), NEW c \in Nat, NEW k \in 0 .. 2,
         Len(taken) <= c, c < Len(reqs), c >= u \/ k # 0, dev = Pos(3 * c + k)
  PROVE  /\ IsAvail(Here.flags, dev.wrap) /\ dev.idx = Slot(3 * c + k)
         /\ Here.role = Roles[k + 1] /\ Here.req = c + 1
         /\ virtq_check_next(Here.flags) <=> k < 2
         /\ Step(dev) = Pos(3 * c + k + 1)
<1>1. c \in Len(taken) .. Len(reqs) - 1
  BY Lengths
<1>2. 3 * c + k \in Nat
  OBVIOUS
<1>3. dev.idx = Slot(3 * c + k) /\ dev.wrap = Lap(3 * c + k)
  BY <1>2, PosType, Zenon
<1>4. Here = Desc(c, k, u)
  BY <1>1, <1>3, Zenon DEF Here, RingInv
<1>5. ~(k = 0 /\ c < u)
  OBVIOUS
<1>6. Step(dev) = Pos(3 * c + k + 1)
  BY <1>2, PosStep, Zenon
<1>7. Lap(3 * c + k) \in BOOLEAN
  BY <1>2, PosType, Zenon
<1>8. /\ Desc(c, k, u).flags.avail = Lap(3 * c + k)
      /\ Desc(c, k, u).flags.used = ~Lap(3 * c + k)
      /\ Desc(c, k, u).flags.next <=> k < 2
      /\ Desc(c, k, u).role = Roles[k + 1] /\ Desc(c, k, u).req = c + 1
      /\ Lap(3 * c + k) \in BOOLEAN
  BY <1>5, <1>7, Zenon DEF Desc
<1> QED
  BY <1>3, <1>4, <1>6, <1>8, Zenon DEF IsAvail, virtq_check_next

(* The descriptor a run came from last, in the ring.                       *)
LEMMA ChainNext ==
  ASSUME TypeInv, NEW u \in Nat, RingInv(u), NEW c \in Nat, NEW k \in 0 .. 2,
         Len(taken) <= c, c < Len(reqs)
  PROVE  virtq_check_next(ring[Slot(3 * c + k)].flags) <=> k < 2
<1>1. c \in Len(taken) .. Len(reqs) - 1
  BY Lengths
<1>2. ring[Slot(3 * c + k)] = Desc(c, k, u)
  BY <1>1, Zenon DEF RingInv
<1>3. Desc(c, k, u).flags.next <=> k < 2
  BY DescFields, Zenon
<1> QED
  BY <1>2, <1>3, Zenon DEF virtq_check_next

(* Past the last chain nothing is available, on a full ring too.           *)
LEMMA NothingAvail ==
  ASSUME TypeInv, NEW u \in Nat, RingInv(u), dev = Pos(3 * Len(reqs))
  PROVE  ~IsAvail(Here.flags, dev.wrap)
<1> DEFINE m == 3 * Len(reqs)
<1>0. Len(reqs) \in Nat /\ Len(taken) \in Nat /\ m \in Nat
  BY Lengths
<1>1. dev.idx = Slot(m) /\ dev.wrap = Lap(m) /\ Lap(m) \in BOOLEAN
  BY <1>0, PosType, Zenon
<1>2. 3 * Len(reqs) <= 3 * Len(taken) + QSize
  BY Zenon DEF RingInv
<1>3. CASE m < 3 * Len(taken) + QSize
  <2>1. m \in 3 * Len(reqs) .. 3 * Len(taken) + QSize - 1
    BY <1>0, <1>3, VirtqAssumption
  <2>2. ring[Slot(m)].flags.avail = ~Lap(m)
    BY <2>1, Zenon DEF RingInv
  <2> QED
    BY <1>1, <2>2, Zenon DEF IsAvail, Here
<1>4. CASE ~(m < 3 * Len(taken) + QSize)
  <2> DEFINE t == 3 * Len(taken) + 0
  <2>1. m = t + QSize /\ t \in Nat /\ Len(taken) \in Len(taken) .. Len(reqs) - 1
    BY <1>0, <1>2, <1>4, VirtqAssumption, BlkAssumption
  <2>2. ring[Slot(t)] = Desc(Len(taken), 0, u)
    <3>1. 0 \in 0 .. 2
      OBVIOUS
    <3> QED
      BY <2>1, <3>1, Zenon DEF RingInv
  <2>3. ring[Slot(t)].flags.avail = Lap(t)
    BY <1>0, <2>2, DescFields
  <2> HIDE DEF t, m
  <2>4. Slot(m) = Slot(t) /\ Lap(m) = ~Lap(t)
    BY <2>1, PosLap, Zenon
  <2> QED
    BY <1>1, <2>3, <2>4, Zenon DEF IsAvail, Here
<1> QED
  BY <1>3, <1>4, Zenon

-----------------------------------------------------------------------------
(* The driver's side, through the steps that change it.                    *)
LEMMA RingFrame ==
  ASSUME NEW u, RingInv(u), UNCHANGED <<ring, taken, last_used, avail>>,
         Len(reqs') = Len(reqs)
  PROVE  RingInv(u)'
  BY Zenon DEF RingInv, Desc

(* Numbers of the window that share a slot are equal.                      *)
LEMMA SameSlot ==
  ASSUME NEW a \in Nat, NEW b \in Nat, a < b + QSize, b < a + QSize, Slot(a) = Slot(b)
  PROVE  a = b
<1>1. ~(a < b)
  BY PosApart, Zenon
<1>2. ~(b < a)
  BY PosApart, Zenon
<1> QED
  BY <1>1, <1>2

(* The driver's new chain is written where no chain it has not taken back  *)
(* lies.                                                                   *)
LEMMA SubmitKeeps ==
  ASSUME TypeInv, NEW u \in Nat, RingInv(u), NEW r \in Requests, Submit(r)
  PROVE  RingInv(u)' /\ 3 * Len(reqs) + 3 <= 3 * Len(taken) + QSize
<1> DEFINE R == Len(reqs)
<1> DEFINE T == Len(taken)
<1>0. R \in Nat /\ T \in Nat /\ T <= R /\ 3 * R <= 3 * T + QSize /\ T <= u /\ u <= R
  <2>1. R \in Nat /\ T \in Nat
    BY Lengths, Zenon
  <2>2. T <= u /\ u <= R /\ 3 * R <= 3 * T + QSize
    BY ZenonT(60) DEF RingInv
  <2> QED
    BY <2>1, <2>2
<1>1. Len(reqs') = R + 1
  BY Appended, SubmitType DEF Submit, TypeInv
<1>2. 3 * R + 3 <= 3 * T + QSize
  <2>1. Dist(last_used, avail) + 3 <= QSize
    BY Zenon DEF Submit
  <2>2. last_used = Pos(3 * T) /\ avail = Pos(3 * R)
    BY Zenon DEF RingInv
  <2>3. 3 * T \in Nat /\ 3 * R \in Nat /\ 3 * T <= 3 * R
    BY <1>0
  <2>4. Dist(Pos(3 * T), Pos(3 * R)) = 3 * R - 3 * T
    BY <1>0, <2>3, PosDist, Zenon
  <2> QED
    BY <1>0, <2>1, <2>2, <2>4, VirtqAssumption
<1>3. \A k \in 0 .. 2 : Ahead(avail, k) = Pos(3 * R + k) /\ 3 * R + k \in Nat
  <2> TAKE k \in 0 .. 2
  <2>1. 3 * R \in Nat /\ k \in 0 .. QSize /\ 3 * R + k \in Nat
    BY <1>0, VirtqAssumption, BlkAssumption
  <2>2. avail = Pos(3 * R)
    BY Zenon DEF RingInv
  <2> QED
    BY <2>1, <2>2, PosAhead, Zenon
<1>4. \A k \in 0 .. 2 : Ahead(avail, k).idx = Slot(3 * R + k) /\ Written(k) = Desc(R, k, u)
  <2> TAKE k \in 0 .. 2
  <2>1. Ahead(avail, k).idx = Slot(3 * R + k) /\ Ahead(avail, k).wrap = Lap(3 * R + k)
    BY <1>3, PosType, Zenon
  <2>2. ~(k = 0 /\ R < u)
    BY <1>0
  <2> QED
    BY <2>1, <2>2, Zenon DEF Written, Desc, AvailFlags
<1>5. avail' = Pos(3 * (R + 1))
  <2>1. avail' = Ahead(Pos(3 * R), 3)
    BY Zenon DEF Submit, RingInv
  <2>2. 3 * R \in Nat /\ 3 \in 0 .. QSize /\ 3 * R + 3 = 3 * (R + 1)
    BY <1>0, VirtqAssumption, BlkAssumption
  <2> QED
    BY <2>1, <2>2, PosAhead, Zenon
<1>6. \A m \in Nat : (\A k \in 0 .. 2 : Slot(m) # Slot(3 * R + k)) => ring'[Slot(m)] = ring[Slot(m)]
  <2> TAKE m \in Nat
  <2> HAVE \A k \in 0 .. 2 : Slot(m) # Slot(3 * R + k)
  <2>1. Slot(m) \in Slots
    BY PosType, Zenon
  <2>2. \A k \in 0 .. 2 : Slot(m) # Ahead(avail, k).idx
    BY <1>4, Zenon
  <2> QED
    BY <2>1, <2>2, SubmitRing, Zenon
<1>7. \A k \in 0 .. 2 : ring'[Slot(3 * R + k)] = Desc(R, k, u)
  <2> TAKE k \in 0 .. 2
  <2>1. Slot(3 * R + k) \in Slots
    BY <1>3, PosType, Zenon
  <2>2. PICK j \in 0 .. 2 : Slot(3 * R + k) = Slot(3 * R + j)
                            /\ ring'[Slot(3 * R + k)] = Desc(R, j, u)
    <3>1. Slot(3 * R + k) = Ahead(avail, k).idx
      BY <1>4, Zenon
    <3>2. \E j \in 0 .. 2 : Slot(3 * R + k) = Ahead(avail, j).idx
                            /\ ring'[Slot(3 * R + k)] = Written(j)
      BY <2>1, <3>1, SubmitRing, Zenon
    <3> QED
      BY <1>4, <3>2, Zenon
  <2>3. 3 * R + k = 3 * R + j
    BY <1>0, <1>3, <2>2, SameSlot, VirtqAssumption, BlkAssumption
  <2> QED
    BY <1>0, <2>2, <2>3
<1>8. \A c \in T .. R : \A k \in 0 .. 2 : ring'[Slot(3 * c + k)] = Desc(c, k, u)
  <2> TAKE c \in T .. R
  <2> TAKE k \in 0 .. 2
  <2>1. CASE c = R
    BY <1>7, <2>1, Zenon
  <2>2. CASE c # R
    <3>1. 3 * c + k \in Nat /\ c \in T .. R - 1
      BY <1>0, <2>2
    <3>2. ASSUME NEW j \in 0 .. 2 PROVE Slot(3 * c + k) # Slot(3 * R + j)
      <4>1. /\ 3 * R + j \in Nat /\ 3 * c + k < 3 * R + j + QSize
            /\ 3 * R + j < 3 * c + k + QSize /\ 3 * c + k # 3 * R + j
        BY <1>0, <1>2, <2>2, VirtqAssumption
      <4> QED
        BY <3>1, <4>1, SameSlot, Zenon
    <3>3. ring'[Slot(3 * c + k)] = ring[Slot(3 * c + k)]
      BY <1>6, <3>1, <3>2, Zenon
    <3>4. ring[Slot(3 * c + k)] = Desc(c, k, u)
      BY <3>1, Zenon DEF RingInv
    <3> QED
      BY <3>3, <3>4, Zenon
  <2> QED
    BY <2>1, <2>2, Zenon
<1>9. \A m \in 3 * (R + 1) .. 3 * T + QSize - 1 : ring'[Slot(m)].flags.avail = ~Lap(m)
  <2> TAKE m \in 3 * (R + 1) .. 3 * T + QSize - 1
  <2>1. m \in Nat /\ m \in 3 * R .. 3 * T + QSize - 1
    BY <1>0, VirtqAssumption
  <2>2. ASSUME NEW j \in 0 .. 2 PROVE Slot(m) # Slot(3 * R + j)
    <3>1. /\ 3 * R + j \in Nat /\ m < 3 * R + j + QSize
          /\ 3 * R + j < m + QSize /\ m # 3 * R + j
      BY <1>0, <1>2, VirtqAssumption
    <3> QED
      BY <2>1, <3>1, SameSlot, Zenon
  <2>3. ring'[Slot(m)] = ring[Slot(m)]
    BY <1>6, <2>1, <2>2, Zenon
  <2> QED
    BY <2>1, <2>3, Zenon DEF RingInv
<1>10. 3 * (R + 1) <= 3 * T + QSize /\ u <= R + 1 /\ R + 1 - 1 = R
  BY <1>0, <1>2, VirtqAssumption
<1>11. taken' = taken /\ last_used' = last_used
  BY Zenon DEF Submit
<1>12. /\ Len(taken') = T /\ Len(reqs') = R + 1 /\ last_used' = Pos(3 * T)
       /\ taken' \in Seq(Answers)
  BY <1>1, <1>11, Zenon DEF RingInv
<1> HIDE DEF R, T
<1>13. /\ taken' \in Seq(Answers)
       /\ last_used' = Pos(3 * Len(taken')) /\ avail' = Pos(3 * Len(reqs'))
       /\ Len(taken') <= u /\ u <= Len(reqs')
       /\ 3 * Len(reqs') <= 3 * Len(taken') + QSize
  BY <1>0, <1>5, <1>10, <1>12, Zenon
<1>14. \A c \in Len(taken') .. Len(reqs') - 1 : \A k \in 0 .. 2 :
          ring'[Slot(3 * c + k)] = Desc(c, k, u)
  <2>1. Len(taken') = T /\ Len(reqs') - 1 = R
    BY <1>0, <1>12
  <2> QED
    BY <1>8, <2>1, Zenon
<1>15. \A m \in 3 * Len(reqs') .. 3 * Len(taken') + QSize - 1 :
          ring'[Slot(m)].flags.avail = ~Lap(m)
  BY <1>9, <1>12, Zenon
<1>16. RingInv(u)'
  BY <1>13, <1>14, <1>15, Zenon DEF RingInv, Desc
<1> QED
  BY <1>2, <1>16, Zenon DEF R, T

(* The driver takes back exactly the chains that were used.                *)
LEMMA ReapIff ==
  ASSUME TypeInv, NEW u \in Nat, RingInv(u)
  PROVE  /\ IsUsed(ring[last_used.idx].flags, last_used.wrap) <=> Len(taken) < u
         /\ Len(taken) < u => ring[last_used.idx].req = Len(taken) + 1
<1> DEFINE R == Len(reqs)
<1> DEFINE T == Len(taken)
<1> DEFINE t == 3 * T + 0
<1>0. R \in Nat /\ T \in Nat /\ T <= u /\ u <= R
  <2>1. R \in Nat /\ T \in Nat
    BY Lengths, Zenon
  <2>2. T <= u /\ u <= R
    BY Zenon DEF RingInv
  <2> QED
    BY <2>1, <2>2, Zenon
<1>1. t \in Nat /\ 3 * T = t
  BY <1>0
<1>2. last_used.idx = Slot(t) /\ last_used.wrap = Lap(t) /\ Lap(t) \in BOOLEAN
  <2>1. last_used = Pos(t)
    BY <1>1, Zenon DEF RingInv
  <2> QED
    BY <1>1, <2>1, PosType, Zenon
<1>3. CASE T < R
  <2>1. T \in T .. R - 1 /\ 0 \in 0 .. 2
    BY <1>0, <1>3
  <2>2. ring[Slot(t)] = Desc(T, 0, u)
    BY <2>1, Zenon DEF RingInv
  <2>3. /\ Desc(T, 0, u).flags.avail = Lap(t) /\ Desc(T, 0, u).req = T + 1
        /\ T < u => Desc(T, 0, u).flags.used = Lap(t)
        /\ ~(T < u) => Desc(T, 0, u).flags.used = ~Lap(t)
    BY <1>2, Zenon DEF Desc
  <2>4. CASE T < u
    BY <1>2, <2>2, <2>3, <2>4, Zenon DEF IsUsed
  <2>5. CASE ~(T < u)
    BY <1>2, <2>2, <2>3, <2>5, Zenon DEF IsUsed
  <2> QED
    BY <2>4, <2>5, Zenon
<1>4. CASE ~(T < R)
  <2>1. ~(T < u) /\ t \in 3 * R .. 3 * T + QSize - 1
    BY <1>0, <1>1, <1>4, VirtqAssumption
  <2>2. ring[Slot(t)].flags.avail = ~Lap(t)
    BY <2>1, Zenon DEF RingInv
  <2> QED
    BY <1>2, <2>1, <2>2, Zenon DEF IsUsed
<1> QED
  BY <1>3, <1>4, Zenon

(* What it takes back becomes free with the flags of the lap before.       *)
LEMMA ReapKeeps ==
  ASSUME TypeInv, NEW u \in Nat, RingInv(u), Reap, Len(taken) < u
  PROVE  RingInv(u)' /\ taken' = Append(taken, AnswerSeen(reqs[Len(taken) + 1]))
         /\ Len(taken') = Len(taken) + 1 /\ gpc' = gpc
<1> DEFINE R == Len(reqs)
<1> DEFINE T == Len(taken)
<1>0. R \in Nat /\ T \in Nat /\ T < u /\ u <= R /\ 3 * R <= 3 * T + QSize
  <2>1. R \in Nat /\ T \in Nat
    BY Lengths, Zenon
  <2>2. u <= R /\ 3 * R <= 3 * T + QSize
    BY Zenon DEF RingInv
  <2> QED
    BY <2>1, <2>2, Zenon
<1>1. IsUsed(ring[last_used.idx].flags, last_used.wrap) /\ ring[last_used.idx].req = T + 1
  BY ReapIff, Zenon
<1>2. /\ taken' = Append(taken, AnswerSeen(reqs[T + 1])) /\ last_used' = Ahead(last_used, 3)
      /\ gpc' = gpc
  BY <1>1, Zenon DEF Reap
<1>3. AnswerSeen(reqs[T + 1]) \in Answers
  <2>1. T + 1 \in 1 .. Len(reqs)
    BY <1>0
  <2>2. reqs[T + 1] \in ReqRecords
    BY <2>1, SeqFacts, Zenon DEF TypeInv
  <2>3. <<>> \in Datas
    BY Zenon DEF Datas
  <2> QED
    BY <2>2, <2>3, Zenon DEF AnswerSeen, ReqRecords, Answers
<1>4. taken' \in Seq(Answers) /\ Len(taken') = T + 1
  BY <1>2, <1>3, Appended, ZenonT(60) DEF RingInv
<1>5. last_used' = Pos(3 * (T + 1))
  <2>1. last_used' = Ahead(Pos(3 * T), 3)
    BY <1>2, Zenon DEF RingInv
  <2>2. 3 * T \in Nat /\ 3 \in 0 .. QSize /\ 3 * T + 3 = 3 * (T + 1)
    BY <1>0, VirtqAssumption, BlkAssumption
  <2> QED
    BY <2>1, <2>2, PosAhead, Zenon
<1>6. \A m \in 3 * R .. 3 * (T + 1) + QSize - 1 : ring[Slot(m)].flags.avail = ~Lap(m)
  <2> TAKE m \in 3 * R .. 3 * (T + 1) + QSize - 1
  <2>1. CASE m < 3 * T + QSize
    <3>1. m \in 3 * R .. 3 * T + QSize - 1
      BY <1>0, <2>1, VirtqAssumption
    <3> QED
      BY <3>1, Zenon DEF RingInv
  <2>2. CASE ~(m < 3 * T + QSize)
    <3> DEFINE k == m - (3 * T + QSize)
    <3> DEFINE p == 3 * T + k
    <3>1. k \in 0 .. 2 /\ p \in Nat /\ m = p + QSize /\ T \in T .. R - 1
      BY <1>0, <2>2, VirtqAssumption
    <3> HIDE DEF k
    <3>2. ring[Slot(p)] = Desc(T, k, u)
      BY <3>1, Zenon DEF RingInv
    <3>3. Desc(T, k, u).flags.avail = Lap(p)
      <4>1. Lap(p) \in BOOLEAN
        BY <3>1, PosType, Zenon
      <4> QED
        BY <4>1, Zenon DEF Desc
    <3> HIDE DEF p
    <3>4. Slot(m) = Slot(p) /\ Lap(m) = ~Lap(p) /\ Lap(p) \in BOOLEAN
      BY <3>1, PosLap, PosType, Zenon
    <3> QED
      BY <3>2, <3>3, <3>4, Zenon
  <2> QED
    BY <2>1, <2>2, Zenon
<1>7. \A c \in T + 1 .. R - 1 : \A k \in 0 .. 2 : ring[Slot(3 * c + k)] = Desc(c, k, u)
  <2>1. \A c \in T + 1 .. R - 1 : c \in T .. R - 1
    BY <1>0
  <2> QED
    BY <2>1, Zenon DEF RingInv
<1>8. T + 1 <= u /\ 3 * R <= 3 * (T + 1) + QSize
  BY <1>0, VirtqAssumption
<1>9. reqs' = reqs /\ ring' = ring /\ avail' = avail /\ avail = Pos(3 * R)
  BY Zenon DEF Reap, RingInv
<1> HIDE DEF R, T
<1>10. RingInv(u)'
  <2>1. Len(reqs') = R /\ Len(taken') = T + 1
    BY <1>4, <1>9, Zenon DEF R
  <2>2. /\ last_used' = Pos(3 * Len(taken')) /\ avail' = Pos(3 * Len(reqs'))
        /\ Len(taken') <= u /\ u <= Len(reqs')
        /\ 3 * Len(reqs') <= 3 * Len(taken') + QSize
    BY <1>0, <1>5, <1>8, <1>9, <2>1, Zenon
  <2>3. \A c \in Len(taken') .. Len(reqs') - 1 : \A k \in 0 .. 2 :
           ring'[Slot(3 * c + k)] = Desc(c, k, u)
    BY <1>7, <1>9, <2>1, Zenon
  <2>4. \A m \in 3 * Len(reqs') .. 3 * Len(taken') + QSize - 1 :
           ring'[Slot(m)].flags.avail = ~Lap(m)
    BY <1>6, <1>9, <2>1, Zenon
  <2> QED
    BY <1>4, <2>2, <2>3, <2>4, Zenon DEF RingInv, Desc
<1> QED
  BY <1>2, <1>4, <1>10, Zenon DEF T

(* Flags with equal bits are equal.                                        *)
LEMMA FlagsEqual ==
  ASSUME NEW f \in Flags, NEW g \in Flags, f.avail = g.avail, f.used = g.used,
         f.next = g.next
  PROVE  f = g
  BY DEF Flags

(* Marking flags used changes one bit.                                     *)
LEMMA MarkedFlags ==
  ASSUME NEW f \in Flags
  PROVE  /\ MarkUsed(f) \in Flags /\ MarkUsed(f).avail = f.avail
         /\ MarkUsed(f).used = ~f.used /\ MarkUsed(f).next = f.next
  BY Zenon DEF MarkUsed, Flags

(* Marking the head of chain u used makes u + 1 chains used.               *)
LEMMA UsedKeeps ==
  ASSUME TypeInv, NEW u \in Nat, RingInv(u), Used, u < Len(reqs), h.head = Slot(3 * u)
  PROVE  RingInv(u + 1)'
<1> DEFINE R == Len(reqs)
<1> DEFINE T == Len(taken)
<1> DEFINE a == 3 * u + 0
<1>0. R \in Nat /\ T \in Nat /\ T <= u /\ u < R /\ 3 * R <= 3 * T + QSize
      /\ a \in Nat /\ 3 * u = a
  <2>1. R \in Nat /\ T \in Nat
    BY Lengths, Zenon
  <2>2. T <= u /\ 3 * R <= 3 * T + QSize
    BY Zenon DEF RingInv
  <2> QED
    BY <2>1, <2>2
<1>1. ring[Slot(a)] = Desc(u, 0, u)
  <2>1. u \in T .. R - 1 /\ 0 \in 0 .. 2
    BY <1>0
  <2> QED
    BY <2>1, Zenon DEF RingInv
<1>2. ring'[Slot(a)] = Desc(u, 0, u + 1)
  <2> DEFINE f == [avail |-> Lap(a), used |-> ~Lap(a), next |-> 0 < 2]
  <2> DEFINE g == [avail |-> Lap(a), used |-> Lap(a), next |-> 0 < 2]
  <2>1. Lap(a) \in BOOLEAN /\ (0 < 2) \in BOOLEAN
    BY <1>0, PosType
  <2>2. u < u + 1 /\ ~(u < u)
    OBVIOUS
  <2>3. ring[Slot(a)] = [flags |-> f, role |-> Roles[0 + 1], req |-> u + 1]
    BY <1>1, <2>2, Zenon DEF Desc
  <2>4. Desc(u, 0, u + 1) = [flags |-> g, role |-> Roles[0 + 1], req |-> u + 1]
    BY <2>2, Zenon DEF Desc
  <2>5. f \in Flags /\ g \in Flags /\ f.avail = g.avail /\ g.used = ~f.used /\ f.next = g.next
    BY <2>1, Zenon DEF Flags
  <2>6. ring'[Slot(a)] = [ring[Slot(a)] EXCEPT !.flags = MarkUsed(@)]
    BY <1>0, UsedRing, Zenon
  <2> HIDE DEF f, g
  <2>7. MarkUsed(f) = g
    <3>1. /\ MarkUsed(f) \in Flags /\ MarkUsed(f).avail = f.avail
          /\ MarkUsed(f).used = ~f.used /\ MarkUsed(f).next = f.next
      BY <2>5, MarkedFlags, Zenon
    <3>2. MarkUsed(f).avail = g.avail /\ MarkUsed(f).used = g.used /\ MarkUsed(f).next = g.next
      BY <2>5, <3>1, Zenon
    <3> QED
      BY <2>5, <3>1, <3>2, FlagsEqual, Zenon
  <2>8. [[flags |-> f, role |-> Roles[0 + 1], req |-> u + 1] EXCEPT !.flags = MarkUsed(@)]
           = [flags |-> MarkUsed(f), role |-> Roles[0 + 1], req |-> u + 1]
    OBVIOUS
  <2> QED
    BY <2>3, <2>4, <2>6, <2>7, <2>8, Zenon
<1>3. ASSUME NEW m \in Nat, m < a + QSize, a < m + QSize, m # a
      PROVE  ring'[Slot(m)] = ring[Slot(m)]
  <2>1. Slot(m) # Slot(a) /\ Slot(m) \in Slots
    BY <1>0, <1>3, SameSlot, PosType, Zenon
  <2> QED
    BY <1>0, <2>1, UsedRing, Zenon
<1>4. \A c \in T .. R - 1 : \A k \in 0 .. 2 : ring'[Slot(3 * c + k)] = Desc(c, k, u + 1)
  <2> TAKE c \in T .. R - 1
  <2> TAKE k \in 0 .. 2
  <2>1. CASE c = u /\ k = 0
    BY <1>2, <2>1, Zenon
  <2>2. CASE ~(c = u /\ k = 0)
    <3>1. /\ 3 * c + k \in Nat /\ 3 * c + k < a + QSize /\ a < 3 * c + k + QSize
          /\ 3 * c + k # a
      BY <1>0, <2>2, VirtqAssumption
    <3>2. ring'[Slot(3 * c + k)] = ring[Slot(3 * c + k)]
      BY <1>3, <3>1, Zenon
    <3>3. ring[Slot(3 * c + k)] = Desc(c, k, u)
      BY Zenon DEF RingInv
    <3>4. (k = 0 /\ c < u) <=> (k = 0 /\ c < u + 1)
      BY <1>0, <2>2
    <3>5. Desc(c, k, u) = Desc(c, k, u + 1)
      BY <3>4, Zenon DEF Desc
    <3> QED
      BY <3>2, <3>3, <3>5, Zenon
  <2> QED
    BY <2>1, <2>2, Zenon
<1>5. \A m \in 3 * R .. 3 * T + QSize - 1 : ring'[Slot(m)].flags.avail = ~Lap(m)
  <2> TAKE m \in 3 * R .. 3 * T + QSize - 1
  <2>1. m \in Nat /\ m < a + QSize /\ a < m + QSize /\ m # a
    BY <1>0, VirtqAssumption
  <2>2. ring'[Slot(m)] = ring[Slot(m)]
    BY <1>3, <2>1, Zenon
  <2> QED
    BY <2>2, Zenon DEF RingInv
<1>6. UNCHANGED <<reqs, taken, last_used, avail>>
  BY Zenon DEF Used, driver
<1>7. T <= u + 1 /\ u + 1 <= R
  BY <1>0
<1> QED
  BY <1>4, <1>5, <1>6, <1>7, Zenon DEF RingInv, Desc
=============================================================================
