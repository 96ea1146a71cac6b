--------------------------- MODULE VirtioBlkProofs ---------------------------
(***************************************************************************)
(* Proofs about VirtioBlk: the device's place in the ring, that used       *)
(* chains are announced, and that the device implements BlockDev.          *)
(***************************************************************************)
EXTENDS VirtioBlkSteps

(* The run is in chain u, of a type it moves data for, or of type GET_ID,  *)
(* which leaves the last descriptor of the chain to be taken for a head.   *)
InChain(u, t) ==
    /\ u < Len(reqs) /\ h.head = Slot(3 * u) /\ h.req = u + 1
    /\ h.type = t /\ reqs[u + 1].ask.type = t
Moves(u) == InChain(u, "IN") \/ InChain(u, "OUT")
Refuses(u) == InChain(u, "GET_ID") /\ h.by = "vcpu"
Left(u) == Len(taken) < u /\ h.by = "vcpu" /\ "GET_ID" \in Types
Stray(u, n) == n = 3 * u /\ Left(u) /\ h.cur = Slot(3 * u - 1)

(* The device's side: it stands at descriptor n, has used u chains and     *)
(* answered a requests.                                                    *)
DevInv(u, n, a) ==
    /\ dev = Pos(n)
    /\ h.pc \in {"idle", "notify"} => n = 3 * u /\ a = u
    /\ h.pc \in {"head", "isr"} =>
          /\ a = u
          /\ n = 3 * u \/ (n = 3 * u - 1 /\ Left(u))
    /\ h.pc = "data" =>
          /\ a = u
          /\ (n = 3 * u + 1 /\ Moves(u) /\ h.cur = Slot(3 * u)) \/ Stray(u, n)
    /\ h.pc = "status" =>
          \/ a = u + 1 /\ n = 3 * u + 2 /\ Moves(u) /\ h.cur = Slot(3 * u + 1)
          \/ a = u /\ n = 3 * u + 1 /\ Refuses(u) /\ h.cur = Slot(3 * u)
          \/ a = u /\ Stray(u, n)
    /\ h.pc = "used" =>
          /\ a = u + 1
          /\ (n = 3 * u + 3 /\ Moves(u)) \/ (n = 3 * u + 2 /\ Refuses(u))

(* While used chains are not taken back somebody is about to announce them.*)
AnnounceInv(u) ==
    doorbell # NotifyCapLength /\ Len(taken) < u =>
        IF h.pc = "idle"
          THEN (gpc = "run" => intr /\ isr) /\ (gpc = "clear" => seen)
          ELSE isr \/ h.pc = "isr"

(* What the driver will find for each request executed.                    *)
AnswerInv(u) ==
    "GET_ID" \notin Types =>
        /\ \A i \in 1 .. u : AnswerSeen(reqs[i]) = answers[i]
        /\ h.pc = "status" =>
              answers[u + 1] =
                [status |-> h.status,
                 data |-> IF h.type = "IN" /\ h.status = "OK" THEN reqs[u + 1].data
                                                              ELSE <<>>]
        /\ h.pc = "used" => AnswerSeen(reqs[u + 1]) = answers[u + 1]

(* GET_ID upsets the order of the ring only where the guest runs beside    *)
(* the handler.                                                            *)
Orderly == doorbell # NotifyCapLength \/ "GET_ID" \notin Types

OrderInv ==
    \E u \in 0 .. Len(reqs) : \E n \in 0 .. 3 * Len(reqs) :
        RingInv(u) /\ DevInv(u, n, Len(answers)) /\ AnnounceInv(u) /\ AnswerInv(u)

Inv == TypeInv /\ RunInv /\ (Orderly => OrderInv)

-----------------------------------------------------------------------------
(* OrderInv for given numbers.                                             *)
Order(u, n) == RingInv(u) /\ DevInv(u, n, Len(answers)) /\ AnnounceInv(u) /\ AnswerInv(u)

(* The two numbers of OrderInv, as naturals.                               *)
LEMMA OrderNumbers ==
  ASSUME TypeInv, OrderInv
  PROVE  \E u, n \in Nat : u <= Len(reqs) /\ n <= 3 * Len(reqs) /\ Order(u, n)
<1>1. Len(reqs) \in Nat
  BY SeqFacts, Zenon DEF TypeInv
<1>2. PICK u \in 0 .. Len(reqs) : \E n \in 0 .. 3 * Len(reqs) : Order(u, n)
  BY Zenon DEF OrderInv, Order
<1>3. PICK n \in 0 .. 3 * Len(reqs) : Order(u, n)
  BY <1>2, Zenon
<1>4. u \in Nat /\ n \in Nat /\ u <= Len(reqs) /\ n <= 3 * Len(reqs)
  BY <1>1
<1> QED
  BY <1>3, <1>4, Zenon

(* Two numbers for the state after a step are enough for OrderInv there.   *)
LEMMA OrderThen ==
  ASSUME TypeInv', NEW u \in Nat, NEW n \in Nat, u <= Len(reqs'), n <= 3 * Len(reqs'),
         Order(u, n)'
  PROVE  OrderInv'
<1>1. Len(reqs') \in Nat
  BY SeqFacts, Zenon DEF TypeInv
<1>2. u \in 0 .. Len(reqs') /\ n \in 0 .. 3 * Len(reqs')
  BY <1>1
<1> QED
  BY <1>2, Zenon DEF OrderInv, Order

(* What is not the device's or the driver's business.                      *)
LEMMA QuietOrder ==
  ASSUME TypeInv, TypeInv', RunInv, OrderInv,
         EnableVq \/ BlkThread \/ UNCHANGED vars \/ IsrRead \/ IsrClear
  PROVE  OrderInv'
<1>1. PICK u, n \in Nat : u <= Len(reqs) /\ n <= 3 * Len(reqs) /\ Order(u, n)
  BY OrderNumbers, Zenon
<1>2. UNCHANGED <<ring, reqs, taken, last_used, avail, h, dev, doorbell, answers>>
  BY Zenon DEF EnableVq, BlkThread, vars, driver, host, IsrRead, IsrClear
<1>3. RingInv(u)'
  BY <1>1, <1>2, RingFrame, Zenon DEF Order
<1>4. DevInv(u, n, Len(answers))'
  BY <1>1, <1>2, Zenon DEF Order, DevInv, Moves, Refuses, Stray, Left, InChain
<1>5. AnswerInv(u)'
  BY <1>1, <1>2, Zenon DEF Order, AnswerInv, AnswerSeen
<1>6. AnnounceInv(u)'
  <2>1. AnnounceInv(u)
    BY <1>1, Zenon DEF Order
  <2>2. CASE EnableVq \/ BlkThread \/ UNCHANGED vars
    <3>1. UNCHANGED <<gpc, seen, isr, intr>>
      BY <2>2, Zenon DEF EnableVq, BlkThread, vars, driver, host
    <3> QED
      BY <1>2, <2>1, <3>1, Zenon DEF AnnounceInv
  <2>3. CASE IsrRead \/ IsrClear
    <3> SUFFICES ASSUME doorbell # NotifyCapLength, Len(taken) < u
                 PROVE  /\ h.pc = "idle"
                        /\ gpc' = "run" => intr' /\ isr'
                        /\ gpc' = "clear" => seen'
      BY <1>2, Zenon DEF AnnounceInv
    <3>1. h.by = "none" /\ h.pc = "idle"
      <4>1. h.by # "vcpu" /\ h.by # "avail" /\ h.by \in {"none", "vcpu", "avail"}
        BY <2>3, Zenon DEF IsrRead, IsrClear, GuestRuns, RunInv, TypeInv, Runs
      <4> QED
        BY <4>1, Zenon DEF RunInv
    <3>2. (gpc = "run" => intr /\ isr) /\ (gpc = "clear" => seen)
      BY <2>1, <3>1, Zenon DEF AnnounceInv
    <3>3. CASE IsrRead
      BY <3>1, <3>2, <3>3, Zenon DEF IsrRead
    <3>4. CASE IsrClear
      BY <3>1, <3>2, <3>4, Zenon DEF IsrClear
    <3> QED
      BY <2>3, <3>3, <3>4, Zenon
  <2> QED
    BY <2>2, <2>3, Zenon
<1>7. Order(u, n)'
  BY <1>3, <1>4, <1>5, <1>6, Zenon DEF Order
<1> QED
  BY <1>1, <1>2, <1>7, OrderThen, Zenon

(* While the guest runs, no run of the vCPU thread is in progress.         *)
LEMMA GuestBeside ==
  ASSUME TypeInv, RunInv, GuestRuns
  PROVE  h.by # "vcpu" /\ (doorbell # NotifyCapLength => h = Idle /\ h.pc = "idle")
<1>1. h.by # "vcpu" /\ h.by \in {"none", "vcpu", "avail"}
  BY Zenon DEF GuestRuns, TypeInv, Runs
<1> QED
  BY <1>1, Zenon DEF RunInv

(* The driver takes a used chain back, or finds none.                      *)
LEMMA ReapOrder ==
  ASSUME TypeInv, TypeInv', RunInv, OrderInv, Reap
  PROVE  OrderInv'
<1>1. PICK u, n \in Nat : u <= Len(reqs) /\ n <= 3 * Len(reqs) /\ Order(u, n)
  BY OrderNumbers, Zenon
<1>2. RingInv(u) /\ DevInv(u, n, Len(answers)) /\ AnnounceInv(u) /\ AnswerInv(u)
  BY <1>1, Zenon DEF Order
<1>3. UNCHANGED <<ring, reqs, avail, h, dev, doorbell, answers>> /\ gpc = "reap"
  BY Zenon DEF Reap, host
<1>4. h.by # "vcpu" /\ (doorbell # NotifyCapLength => h.pc = "idle")
  BY GuestBeside, Zenon DEF Reap
<1>5. AnswerInv(u)'
  BY <1>2, <1>3, Zenon DEF AnswerInv, AnswerSeen
<1>6. DevInv(u, n, Len(answers))'
  BY <1>2, <1>3, <1>4, Zenon DEF DevInv, Moves, Refuses, Stray, Left, InChain
<1>7. RingInv(u)' /\ AnnounceInv(u)'
  <2>1. CASE Len(taken) < u
    <3>1. RingInv(u)' /\ gpc' = "reap"
      BY <1>2, <1>3, <2>1, ReapKeeps, Zenon
    <3>2. AnnounceInv(u)'
      BY <1>3, <1>4, <3>1, Zenon DEF AnnounceInv
    <3> QED
      BY <3>1, <3>2, Zenon
  <2>2. CASE ~(Len(taken) < u)
    <3>1. taken' = taken /\ last_used' = last_used
      BY <1>2, <2>2, ReapIff, Zenon DEF Reap
    <3>2. RingInv(u)'
      BY <1>2, <1>3, <3>1, RingFrame, Zenon
    <3>3. AnnounceInv(u)'
      BY <2>2, <3>1, Zenon DEF AnnounceInv
    <3> QED
      BY <3>2, <3>3, Zenon
  <2> QED
    BY <2>1, <2>2, Zenon
<1>8. Order(u, n)'
  BY <1>5, <1>6, <1>7, Zenon DEF Order
<1> QED
  BY <1>1, <1>3, <1>8, OrderThen, Zenon

(* The driver adds a chain.                                                *)
LEMMA SubmitOrder ==
  ASSUME TypeInv, TypeInv', RunInv, OrderInv, NEW r \in Requests, Submit(r)
  PROVE  OrderInv'
<1>1. PICK u, n \in Nat : u <= Len(reqs) /\ n <= 3 * Len(reqs) /\ Order(u, n)
  BY OrderNumbers, Zenon
<1>2. RingInv(u) /\ DevInv(u, n, Len(answers)) /\ AnnounceInv(u) /\ AnswerInv(u)
  BY <1>1, Zenon DEF Order
<1>3. UNCHANGED <<h, dev, doorbell, answers, taken, gpc, seen, isr, intr>>
  BY Zenon DEF Submit, host
<1>4. Len(reqs) \in Nat /\ Len(reqs') = Len(reqs) + 1
      /\ \A i \in 1 .. Len(reqs) : reqs'[i] = reqs[i]
  BY SeqFacts, Appended DEF Submit, TypeInv
<1>5. h.by # "vcpu"
  BY GuestBeside, Zenon DEF Submit
<1>6. u < Len(reqs) => u < Len(reqs') /\ reqs'[u + 1] = reqs[u + 1]
  BY <1>4
<1>7. DevInv(u, n, Len(answers))'
  BY <1>2, <1>3, <1>6, Zenon DEF DevInv, Moves, Refuses, Stray, Left, InChain
<1>8. AnnounceInv(u)'
  BY <1>2, <1>3, Zenon DEF AnnounceInv
<1>9. AnswerInv(u)'
  <2>1. \A i \in 1 .. u : reqs'[i] = reqs[i]
    BY <1>1, <1>4
  <2>2. h.pc \in {"status", "used"} => reqs'[u + 1] = reqs[u + 1]
    BY <1>2, <1>5, <1>6, Zenon DEF DevInv, Moves, Refuses, Stray, Left, InChain
  <2> QED
    BY <1>2, <1>3, <2>1, <2>2, ZenonT(60) DEF AnswerInv, AnswerSeen
<1>10. RingInv(u)'
  BY <1>2, SubmitKeeps, Zenon
<1>11. Order(u, n)'
  BY <1>7, <1>8, <1>9, <1>10, Zenon DEF Order
<1>12. u <= Len(reqs') /\ n <= 3 * Len(reqs')
  BY <1>1, <1>4
<1> QED
  BY <1>11, <1>12, OrderThen, Zenon

(* A run begins.                                                           *)
LEMMA StartOrder ==
  ASSUME TypeInv, TypeInv', RunInv, OrderInv, Kick \/ AvailThread
  PROVE  OrderInv'
<1>1. PICK u, n \in Nat : u <= Len(reqs) /\ n <= 3 * Len(reqs) /\ Order(u, n)
  BY OrderNumbers, Zenon
<1>2. RingInv(u) /\ DevInv(u, n, Len(answers)) /\ AnnounceInv(u) /\ AnswerInv(u)
  BY <1>1, Zenon DEF Order
<1>3. UNCHANGED <<ring, reqs, avail, last_used, taken, dev, doorbell, answers, gpc, seen,
                  isr, intr>>
  BY Zenon DEF Kick, AvailThread, driver
<1>4. RingInv(u)'
  BY <1>2, <1>3, RingFrame, Zenon
<1>5. CASE h' = h
  <2>1. DevInv(u, n, Len(answers))' /\ AnswerInv(u)' /\ AnnounceInv(u)'
    BY <1>2, <1>3, <1>5, ZenonT(60)
       DEF AnswerInv, AnswerSeen, AnnounceInv, DevInv, Moves, Refuses, Stray, Left, InChain
  <2>2. Order(u, n)'
    BY <1>4, <2>1, Zenon DEF Order
  <2> QED
    BY <1>1, <1>3, <2>2, OrderThen, Zenon
<1>6. CASE h' # h
  <2>1. h = Idle /\ h.pc = "idle" /\ h'.pc = "head"
    <3>1. CASE Kick
      <4>1. doorbell # NotifyCapLength /\ h' = [Idle EXCEPT !.by = "vcpu", !.pc = "head"]
        BY <1>6, <3>1, Zenon DEF Kick
      <4> QED
        BY <3>1, <4>1, GuestBeside, IdleRun, Zenon DEF Kick
    <3>2. CASE AvailThread
      BY <3>2, IdleRun, Zenon DEF AvailThread
    <3> QED
      BY <3>1, <3>2, Zenon
  <2>2. n = 3 * u /\ Len(answers) = u
    BY <1>2, <2>1, Zenon DEF DevInv
  <2>3. DevInv(u, n, Len(answers))'
    BY <1>2, <1>3, <2>1, <2>2, Zenon DEF DevInv
  <2>4. AnswerInv(u)'
    BY <1>2, <1>3, <2>1, Zenon DEF AnswerInv, AnswerSeen
  <2>5. AnnounceInv(u)'
    <3> SUFFICES ASSUME doorbell # NotifyCapLength, Len(taken) < u PROVE isr
      BY <1>3, <2>1, Zenon DEF AnnounceInv
    <3>1. Kick
      BY Zenon DEF AvailThread, RunInv
    <3> QED
      BY <1>2, <2>1, <3>1, Zenon DEF AnnounceInv, Kick
  <2>6. Order(u, n)'
    BY <1>4, <2>3, <2>4, <2>5, Zenon DEF Order
  <2> QED
    BY <1>1, <1>3, <2>6, OrderThen, Zenon
<1> QED
  BY <1>5, <1>6, Zenon

-----------------------------------------------------------------------------
(* The handler.  What a step that leaves the ring to the driver keeps.     *)
LEMMA DeviceOrder ==
  ASSUME TypeInv, TypeInv', NEW u \in Nat, NEW n \in Nat, NEW m \in Nat, Order(u, n),
         u <= Len(reqs), m <= 3 * Len(reqs), Len(reqs') = Len(reqs), ring' = ring,
         UNCHANGED driver, h.pc # "idle", h'.pc # "idle",
         (isr' /\ h.pc = "isr") \/ (isr' = isr /\ h.pc # "isr"),
         DevInv(u, m, Len(answers))', AnswerInv(u)'
  PROVE  OrderInv'
<1>1. RingInv(u) /\ AnnounceInv(u)
  BY Zenon DEF Order
<1>2. RingInv(u)'
  BY <1>1, RingFrame, Zenon DEF driver
<1>3. AnnounceInv(u)'
  <2>1. doorbell' = doorbell /\ taken' = taken
    BY Zenon DEF driver
  <2>2. doorbell # NotifyCapLength /\ Len(taken) < u => isr'
    BY <1>1 DEF AnnounceInv
  <2> QED
    BY <2>1, <2>2, Zenon DEF AnnounceInv
<1>4. Order(u, m)'
  BY <1>2, <1>3, Zenon DEF Order
<1> QED
  BY <1>4, OrderThen, Zenon

(* The handler takes a head: of the next chain, or the descriptor a GET_ID *)
(* left behind; or finds nothing.                                          *)
LEMMA HeadOrder ==
  ASSUME TypeInv, TypeInv', RunInv, Orderly, OrderInv, TakeHead
  PROVE  OrderInv'
<1>1. PICK u, n \in Nat : u <= Len(reqs) /\ n <= 3 * Len(reqs) /\ Order(u, n)
  BY OrderNumbers, Zenon
<1>2. RingInv(u) /\ DevInv(u, n, Len(answers)) /\ AnswerInv(u)
  BY <1>1, Zenon DEF Order
<1>3. h.pc = "head" /\ UNCHANGED <<ring, reqs, driver, isr, answers>>
  BY Zenon DEF TakeHead, At
<1>4. /\ Len(answers) = u /\ dev = Pos(n)
      /\ n = 3 * u \/ (n = 3 * u - 1 /\ Left(u))
  BY <1>2, <1>3, Zenon DEF DevInv
<1>5. Len(reqs) \in Nat /\ Len(taken) \in Nat /\ Len(taken) <= u
  BY <1>2, Lengths, Zenon DEF RingInv
<1>6. CASE n = 3 * u /\ u < Len(reqs)
  <2>1. dev = Pos(3 * u + 0) /\ 0 \in 0 .. 2 /\ u >= u /\ 3 * u + 0 = 3 * u
        /\ 3 * u + 0 + 1 = 3 * u + 1
    BY <1>4, <1>6
  <2>2. /\ IsAvail(Here.flags, dev.wrap) /\ dev.idx = Slot(3 * u)
        /\ Here.role = Roles[0 + 1] /\ Here.req = u + 1 /\ Step(dev) = Pos(3 * u + 1)
    BY <1>2, <1>5, <1>6, <2>1, ChainAvail
  <2>3. Here.role = "hdr"
    BY <2>2 DEF Roles
  <2>4. /\ dev' = Pos(3 * u + 1) /\ h'.by = h.by /\ h'.head = Slot(3 * u)
        /\ h'.cur = Slot(3 * u) /\ h'.req = u + 1 /\ h'.type \in {"IN", "OUT", "GET_ID"}
        /\ h'.pc = IF h'.type \in {"IN", "OUT"} THEN "data" ELSE "status"
        /\ h'.type = reqs[u + 1].ask.type
    BY <2>2, <2>3, HeadRun, Zenon
  <2>5. h'.type = "GET_ID" => "GET_ID" \in Types /\ h.by = "vcpu"
    <3> SUFFICES ASSUME h'.type = "GET_ID" PROVE "GET_ID" \in Types /\ h.by = "vcpu"
      BY Zenon
    <3>1. u + 1 \in 1 .. Len(reqs)
      BY <1>5, <1>6
    <3>2. reqs[u + 1] \in ReqRecords
      BY <3>1, SeqFacts, Zenon DEF TypeInv
    <3>3. reqs[u + 1].ask.type \in Types
      BY <3>2, Zenon DEF ReqRecords, Requests
    <3>4. "GET_ID" \in Types
      BY <2>4, <3>3, Zenon
    <3>5. h.by # "avail" /\ h.by # "none" /\ h.by \in {"none", "vcpu", "avail"}
      BY <1>3, <3>4, Zenon DEF Orderly, RunInv, TypeInv, Runs
    <3> QED
      BY <3>4, <3>5, Zenon
  <2>6. \A t \in {"IN", "OUT", "GET_ID"} : h'.type = t => InChain(u, t)'
    BY <1>3, <1>6, <2>4, Zenon DEF InChain
  <2>7. Len(answers') = u /\ 3 * u + 1 \in Nat /\ 3 * u + 1 <= 3 * Len(reqs)
    BY <1>3, <1>4, <1>5, <1>6
  <2>8. DevInv(u, 3 * u + 1, Len(answers))' /\ AnswerInv(u)'
    <3>1. CASE h'.type \in {"IN", "OUT"}
      <4>1. h'.pc = "data"
        BY <2>4, <3>1, Zenon
      <4>2. Moves(u)'
        BY <2>6, <3>1, Zenon DEF Moves
      <4>3. DevInv(u, 3 * u + 1, Len(answers))'
        BY <2>4, <2>7, <4>1, <4>2, Zenon DEF DevInv
      <4>4. AnswerInv(u)'
        BY <1>2, <1>3, <4>1, Zenon DEF AnswerInv, AnswerSeen
      <4> QED
        BY <4>3, <4>4, Zenon
    <3>2. CASE h'.type = "GET_ID"
      <4>1. h'.pc = "status"
        BY <2>4, <3>2, Zenon
      <4>2. Refuses(u)' /\ "GET_ID" \in Types
        BY <2>4, <2>5, <2>6, <3>2, Zenon DEF Refuses
      <4>3. DevInv(u, 3 * u + 1, Len(answers))'
        BY <2>4, <2>7, <4>1, <4>2, Zenon DEF DevInv
      <4>4. AnswerInv(u)'
        BY <4>2, Zenon DEF AnswerInv
      <4> QED
        BY <4>3, <4>4, Zenon
    <3> QED
      BY <2>4, <3>1, <3>2, Zenon
  <2>9. h'.pc # "idle"
    BY <2>4, Zenon
  <2> QED
    BY <1>1, <1>3, <2>7, <2>8, <2>9, DeviceOrder, Zenon
<1>7. CASE n = 3 * u - 1 /\ Left(u)
  <2>1. /\ u - 1 \in Nat /\ dev = Pos(3 * (u - 1) + 2) /\ 2 \in 0 .. 2
        /\ Len(taken) <= u - 1 /\ u - 1 < Len(reqs) /\ 2 # 0
        /\ 3 * (u - 1) + 2 = 3 * u - 1 /\ 3 * (u - 1) + 2 + 1 = 3 * u
    BY <1>1, <1>4, <1>5, <1>7 DEF Left
  <2>2. IsAvail(Here.flags, dev.wrap) /\ dev.idx = Slot(3 * u - 1) /\ Step(dev) = Pos(3 * u)
    BY <1>2, <2>1, ChainAvail
  <2>3. /\ dev' = Pos(3 * u) /\ h'.by = h.by /\ h'.cur = Slot(3 * u - 1)
        /\ h'.pc \in {"data", "status"}
    BY <2>2, HeadRun, Zenon
  <2>4. Stray(u, 3 * u)' /\ "GET_ID" \in Types
    BY <1>3, <1>7, <2>3, Zenon DEF Stray, Left, driver
  <2>5. Len(answers') = u /\ 3 * u \in Nat /\ 3 * u <= 3 * Len(reqs) /\ h'.pc # "idle"
    BY <1>1, <1>3, <1>4, <1>5, <2>3
  <2>6. DevInv(u, 3 * u, Len(answers))'
    BY <2>3, <2>4, <2>5, Zenon DEF DevInv
  <2>7. AnswerInv(u)'
    BY <2>4, Zenon DEF AnswerInv
  <2> QED
    BY <1>1, <1>3, <2>5, <2>6, <2>7, DeviceOrder, Zenon
<1>8. CASE n = 3 * u /\ ~(u < Len(reqs))
  <2>1. dev = Pos(3 * Len(reqs))
    BY <1>1, <1>4, <1>5, <1>8
  <2>2. ~IsAvail(Here.flags, dev.wrap)
    BY <1>2, <2>1, NothingAvail, Zenon
  <2>3. h' = [h EXCEPT !.pc = "notify"] /\ dev' = dev /\ h \in Runs
    BY <2>2, Zenon DEF TakeHead, TypeInv
  <2>4. h'.pc = "notify"
    BY <2>3, Zenon DEF Runs
  <2>5. DevInv(u, n, Len(answers))' /\ AnswerInv(u)'
    BY <1>2, <1>3, <1>4, <1>8, <2>3, <2>4, Zenon DEF DevInv, AnswerInv, AnswerSeen
  <2>6. h'.pc # "idle"
    BY <2>4, Zenon
  <2> QED
    BY <1>1, <1>3, <2>5, <2>6, DeviceOrder, Zenon
<1> QED
  BY <1>4, <1>6, <1>7, <1>8, Zenon

(* A run in chain u has a next descriptor; one on the descriptor a GET_ID  *)
(* left behind has none.                                                   *)
LEMMA RunNext ==
  ASSUME TypeInv, NEW u \in Nat, NEW n \in Nat, Order(u, n), u <= Len(reqs),
         h.pc \in {"data", "status"}
  PROVE  /\ virtq_check_next(ring[h.cur].flags) <=> ~Stray(u, n)
         /\ Stray(u, n) => n = 3 * u /\ Len(answers) = u /\ "GET_ID" \in Types
<1>1. RingInv(u) /\ DevInv(u, n, Len(answers))
  BY Zenon DEF Order
<1>2. Len(reqs) \in Nat /\ Len(taken) \in Nat /\ Len(taken) <= u
  BY <1>1, Lengths, Zenon DEF RingInv
<1>3. CASE Stray(u, n)
  <2>1. /\ u - 1 \in Nat /\ 2 \in 0 .. 2 /\ Len(taken) <= u - 1 /\ u - 1 < Len(reqs)
        /\ h.cur = Slot(3 * (u - 1) + 2) /\ ~(2 < 2)
    <3>1. Len(taken) < u /\ h.cur = Slot(3 * u - 1)
      BY <1>3, Zenon DEF Stray, Left
    <3>2. 3 * (u - 1) + 2 = 3 * u - 1
      OBVIOUS
    <3>3. u - 1 \in Nat /\ Len(taken) <= u - 1 /\ u - 1 < Len(reqs)
      BY <1>2, <3>1
    <3> QED
      BY <3>1, <3>2, <3>3
  <2>2. ~virtq_check_next(ring[h.cur].flags)
    BY <1>1, <2>1, ChainNext, Zenon
  <2>3. n = 3 * u /\ "GET_ID" \in Types
    BY <1>3, Zenon DEF Stray, Left
  <2>4. n # 3 * u + 1 /\ n # 3 * u + 2
    BY <2>3
  <2>5. Len(answers) = u
    BY <1>1, <2>4, Zenon DEF DevInv
  <2> QED
    BY <1>3, <2>2, <2>3, <2>5, Zenon
<1>4. CASE ~Stray(u, n)
  <2>1. u < Len(reqs) /\ (h.cur = Slot(3 * u) \/ h.cur = Slot(3 * u + 1))
    BY <1>1, <1>4, Zenon DEF DevInv, Moves, Refuses, InChain
  <2>2. \E k \in 0 .. 2 : k < 2 /\ h.cur = Slot(3 * u + k)
    <3>1. 3 * u = 3 * u + 0 /\ 0 \in 0 .. 2 /\ 1 \in 0 .. 2 /\ 0 < 2 /\ 1 < 2
      OBVIOUS
    <3> QED
      BY <2>1, <3>1, Zenon
  <2>3. virtq_check_next(ring[h.cur].flags)
    BY <1>1, <1>2, <2>1, <2>2, ChainNext, Zenon
  <2> QED
    BY <1>4, <2>3, Zenon
<1> QED
  BY <1>3, <1>4, Zenon

(* A chain ends early only at what a GET_ID left behind.                   *)
LEMMA EndsOrder ==
  ASSUME TypeInv, TypeInv', OrderInv, ChainEnds
  PROVE  OrderInv'
<1>1. PICK u, n \in Nat : u <= Len(reqs) /\ n <= 3 * Len(reqs) /\ Order(u, n)
  BY OrderNumbers, Zenon
<1>2. /\ h.pc \in {"data", "status"} /\ ~virtq_check_next(ring[h.cur].flags)
      /\ UNCHANGED <<ring, reqs, driver, isr, answers, dev>>
      /\ h' = [h EXCEPT !.pc = "notify"] /\ h \in Runs
  BY Zenon DEF ChainEnds, At, TypeInv
<1>3. n = 3 * u /\ Len(answers) = u /\ "GET_ID" \in Types
  BY <1>1, <1>2, RunNext, Zenon
<1>4. h'.pc = "notify"
  BY <1>2, Zenon DEF Runs
<1>5. DevInv(u, n, Len(answers))'
  BY <1>1, <1>2, <1>3, <1>4, Zenon DEF Order, DevInv
<1>6. AnswerInv(u)'
  BY <1>3, Zenon DEF AnswerInv
<1>7. h.pc # "idle" /\ h'.pc # "idle" /\ h.pc # "isr"
  BY <1>2, <1>4, Zenon
<1> QED
  BY <1>1, <1>2, <1>5, <1>6, <1>7, DeviceOrder, Zenon

(* Where a step over the data descriptor stands.                           *)
LEMMA DataHere ==
  ASSUME TypeInv, NEW u \in Nat, NEW n \in Nat, Order(u, n), u <= Len(reqs),
         At("data"), NextInChain
  PROVE  /\ n = 3 * u + 1 /\ Moves(u) /\ u < Len(reqs) /\ Len(answers) = u
         /\ Here.req = u + 1 /\ dev' = Pos(3 * u + 2) /\ dev.idx = Slot(3 * u + 1)
<1>1. RingInv(u) /\ DevInv(u, n, Len(answers))
  BY Zenon DEF Order
<1>2. h.pc = "data" /\ virtq_check_next(ring[h.cur].flags) /\ dev' = Step(dev)
  BY Zenon DEF At, NextInChain
<1>3. ~Stray(u, n)
  BY <1>2, RunNext, Zenon
<1>4. n = 3 * u + 1 /\ Moves(u) /\ Len(answers) = u /\ dev = Pos(n)
  BY <1>1, <1>2, <1>3, Zenon DEF DevInv
<1>5. u < Len(reqs)
  BY <1>4, Zenon DEF Moves, InChain
<1>6. /\ Len(taken) <= u /\ 1 \in 0 .. 2 /\ u >= u /\ dev = Pos(3 * u + 1)
      /\ 3 * u + 1 + 1 = 3 * u + 2
  BY <1>1, <1>4 DEF RingInv
<1>7. Here.req = u + 1 /\ Step(dev) = Pos(3 * u + 2) /\ dev.idx = Slot(3 * u + 1)
  BY <1>1, <1>5, <1>6, ChainAvail
<1> QED
  BY <1>2, <1>4, <1>5, <1>7, Zenon

(* The data is moved: the answer is what the driver will find.             *)
LEMMA DataOrder ==
  ASSUME TypeInv, TypeInv', OrderInv, At("data"), NextInChain,
         NEW st \in {"OK", "IOERR"}, NEW d, DataDone(st, d), Len(reqs') = Len(reqs),
         \A j \in 1 .. Len(reqs) : /\ reqs'[j].ask = reqs[j].ask
                                   /\ j # Here.req => reqs'[j] = reqs[j],
         d = IF h.type = "IN" /\ st = "OK" THEN reqs'[Here.req].data ELSE <<>>
  PROVE  OrderInv'
<1>1. PICK u, n \in Nat : u <= Len(reqs) /\ n <= 3 * Len(reqs) /\ Order(u, n)
  BY OrderNumbers, Zenon
<1>2. /\ n = 3 * u + 1 /\ Moves(u) /\ u < Len(reqs) /\ Len(answers) = u
      /\ Here.req = u + 1 /\ dev' = Pos(3 * u + 2) /\ dev.idx = Slot(3 * u + 1)
  BY <1>1, DataHere, Zenon
<1>3. /\ h.pc = "data" /\ UNCHANGED <<ring, driver, isr>> /\ h \in Runs
      /\ h' = [h EXCEPT !.pc = "status", !.cur = dev.idx, !.status = st]
      /\ answers' = Append(answers, [status |-> st, data |-> d])
  BY Zenon DEF At, DataDone, TypeInv
<1>4. /\ h'.pc = "status" /\ h'.by = h.by /\ h'.head = h.head /\ h'.cur = dev.idx
      /\ h'.type = h.type /\ h'.req = h.req /\ h'.status = st
  BY <1>3, Zenon DEF Runs
<1>5. Len(reqs) \in Nat /\ u + 1 \in 1 .. Len(reqs)
  BY <1>2, SeqFacts DEF TypeInv
<1>6. /\ Len(answers') = u + 1 /\ answers'[u + 1] = [status |-> st, data |-> d]
      /\ \A i \in 1 .. u : answers'[i] = answers[i]
  BY <1>2, <1>3 DEF TypeInv
<1>7. Moves(u)'
  BY <1>2, <1>4, <1>5, Zenon DEF Moves, InChain
<1>8. DevInv(u, 3 * u + 2, Len(answers))'
  BY <1>2, <1>4, <1>6, <1>7, Zenon DEF DevInv
<1>9. AnswerInv(u)'
  <2> SUFFICES ASSUME "GET_ID" \notin Types PROVE AnswerInv(u)'
    BY Zenon DEF AnswerInv
  <2>1. \A i \in 1 .. u : i \in 1 .. Len(reqs) /\ i # u + 1
    BY <1>2, <1>5
  <2>2. \A i \in 1 .. u : AnswerSeen(reqs[i]) = answers[i]
    BY <1>1, Zenon DEF Order, AnswerInv
  <2>3. \A i \in 1 .. u : reqs'[i] = reqs[i]
    BY <1>2, <2>1, Zenon
  <2>4. \A i \in 1 .. u : AnswerSeen(reqs'[i]) = answers'[i]
    BY <1>6, <2>2, <2>3, Zenon
  <2>5. answers'[u + 1] = [status |-> h'.status,
                           data |-> IF h'.type = "IN" /\ h'.status = "OK"
                                      THEN reqs'[u + 1].data ELSE <<>>]
    BY <1>2, <1>4, <1>6, Zenon
  <2>6. h'.pc # "used"
    BY <1>4, Zenon
  <2> QED
    BY <2>4, <2>5, <2>6, Zenon DEF AnswerInv, AnswerSeen
<1>10. 3 * u + 2 \in Nat /\ 3 * u + 2 <= 3 * Len(reqs)
  BY <1>2, <1>5
<1>11. h.pc # "idle" /\ h'.pc # "idle" /\ h.pc # "isr"
  BY <1>3, <1>4, Zenon
<1> QED
  BY <1>1, <1>3, <1>8, <1>9, <1>10, <1>11, DeviceOrder, Zenon

(* The status byte is written: of a GET_ID, it is not the status byte.     *)
LEMMA StatusOrder ==
  ASSUME TypeInv, TypeInv', OrderInv, Status
  PROVE  OrderInv'
<1>1. PICK u, n \in Nat : u <= Len(reqs) /\ n <= 3 * Len(reqs) /\ Order(u, n)
  BY OrderNumbers, Zenon
<1>2. RingInv(u) /\ DevInv(u, n, Len(answers)) /\ AnswerInv(u)
  BY <1>1, Zenon DEF Order
<1>3. /\ h.pc = "status" /\ UNCHANGED <<ring, driver, isr>> /\ NextInChain
      /\ answers' = IF h.type \in {"IN", "OUT"} THEN answers
                     ELSE Append(answers, [status |-> h.status, data |-> <<>>])
  BY Zenon DEF At, Status
<1>4. /\ h'.pc = "used" /\ h'.by = h.by /\ h'.head = h.head /\ h'.type = h.type
      /\ h'.req = h.req /\ Len(reqs') = Len(reqs)
  BY StatusStep, Zenon
<1>5. \A j \in 1 .. Len(reqs) :
         /\ reqs'[j].ask = reqs[j].ask /\ reqs'[j].data = reqs[j].data
         /\ reqs'[j].status = IF j = Here.req /\ Here.role = "status"
                                THEN h.status ELSE reqs[j].status
  BY StatusStep, Zenon
<1>6. virtq_check_next(ring[h.cur].flags) /\ dev' = Step(dev)
  BY <1>3, Zenon DEF NextInChain
<1>7. ~Stray(u, n) /\ dev = Pos(n)
  BY <1>1, <1>2, <1>3, <1>6, RunNext, Zenon DEF DevInv
<1>8. \/ Len(answers) = u + 1 /\ n = 3 * u + 2 /\ Moves(u)
      \/ Len(answers) = u /\ n = 3 * u + 1 /\ Refuses(u)
  BY <1>2, <1>3, <1>7, Zenon DEF DevInv
<1>9. /\ u < Len(reqs) /\ Len(taken) <= u /\ Len(reqs) \in Nat /\ u + 1 \in 1 .. Len(reqs)
      /\ u >= u /\ 1 \in 0 .. 2 /\ 2 \in 0 .. 2
  <2>1. u < Len(reqs)
    BY <1>8, Zenon DEF Moves, Refuses, InChain
  <2> QED
    BY <1>2, <2>1, Lengths DEF RingInv
<1>10. h.pc # "idle" /\ h'.pc # "idle" /\ h.pc # "isr"
  BY <1>3, <1>4, Zenon
<1>11. \A t : InChain(u, t) => InChain(u, t)'
  BY <1>4, <1>5, <1>9, Zenon DEF InChain
<1>12. CASE Len(answers) = u + 1 /\ n = 3 * u + 2 /\ Moves(u)
  <2>1. dev = Pos(3 * u + 2) /\ 3 * u + 2 + 1 = 3 * u + 3
    BY <1>7, <1>12
  <2>2. Here.req = u + 1 /\ Here.role = Roles[2 + 1] /\ dev' = Pos(3 * u + 3)
    BY <1>2, <1>6, <1>9, <2>1, ChainAvail
  <2>3. Here.role = "status"
    BY <2>2 DEF Roles
  <2>4. Moves(u)' /\ h.type \in {"IN", "OUT"} /\ h.type = reqs[u + 1].ask.type
    BY <1>11, <1>12, Zenon DEF Moves, InChain
  <2>5. answers' = answers
    BY <1>3, <2>4, Zenon
  <2>6. DevInv(u, 3 * u + 3, Len(answers))'
    BY <1>4, <1>12, <2>2, <2>4, <2>5, Zenon DEF DevInv
  <2>7. AnswerInv(u)'
    <3> SUFFICES ASSUME "GET_ID" \notin Types PROVE AnswerInv(u)'
      BY Zenon DEF AnswerInv
    <3>1. \A i \in 1 .. u : i \in 1 .. Len(reqs) /\ i # u + 1
      BY <1>9
    <3>2. \A i \in 1 .. u : AnswerSeen(reqs[i]) = answers[i]
      BY <1>2, Zenon DEF AnswerInv
    <3>3. \A i \in 1 .. u : /\ reqs'[i].ask = reqs[i].ask /\ reqs'[i].data = reqs[i].data
                            /\ reqs'[i].status = reqs[i].status
      BY <1>5, <2>2, <3>1, Zenon
    <3>4. \A i \in 1 .. u : AnswerSeen(reqs'[i]) = answers'[i]
      BY <2>5, <3>2, <3>3, ZenonT(60) DEF AnswerSeen
    <3>5. answers[u + 1] = [status |-> h.status,
                            data |-> IF h.type = "IN" /\ h.status = "OK"
                                       THEN reqs[u + 1].data ELSE <<>>]
      BY <1>2, <1>3, Zenon DEF AnswerInv
    <3>6. /\ reqs'[u + 1].ask = reqs[u + 1].ask /\ reqs'[u + 1].data = reqs[u + 1].data
          /\ reqs'[u + 1].status = h.status
      BY <1>5, <1>9, <2>2, <2>3, Zenon
    <3>7. AnswerSeen(reqs'[u + 1]) = answers'[u + 1]
      BY <2>4, <2>5, <3>5, <3>6, Zenon DEF AnswerSeen
    <3>8. h'.pc # "status"
      BY <1>4, Zenon
    <3> QED
      BY <3>4, <3>7, <3>8, Zenon DEF AnswerInv, AnswerSeen
  <2>8. 3 * u + 3 \in Nat /\ 3 * u + 3 <= 3 * Len(reqs)
    BY <1>9
  <2> QED
    BY <1>1, <1>3, <1>4, <1>10, <2>6, <2>7, <2>8, DeviceOrder, Zenon
<1>13. CASE Len(answers) = u /\ n = 3 * u + 1 /\ Refuses(u)
  <2>1. dev = Pos(3 * u + 1) /\ 3 * u + 1 + 1 = 3 * u + 2
    BY <1>7, <1>13
  <2>2. dev' = Pos(3 * u + 2)
    BY <1>2, <1>6, <1>9, <2>1, ChainAvail
  <2>3. Refuses(u)' /\ h.type = "GET_ID" /\ reqs[u + 1].ask.type = "GET_ID"
    BY <1>4, <1>11, <1>13, Zenon DEF Refuses, InChain
  <2>4. Len(answers') = u + 1
    <3>1. answers' = Append(answers, [status |-> h.status, data |-> <<>>])
      BY <1>3, <2>3, Zenon
    <3> QED
      BY <1>13, <3>1 DEF TypeInv
  <2>5. DevInv(u, 3 * u + 2, Len(answers))'
    BY <1>4, <2>2, <2>3, <2>4, Zenon DEF DevInv
  <2>6. "GET_ID" \in Types
    <3>1. reqs[u + 1] \in ReqRecords
      BY <1>9, SeqFacts, Zenon DEF TypeInv
    <3> QED
      BY <2>3, <3>1, Zenon DEF ReqRecords, Requests
  <2>7. AnswerInv(u)'
    BY <2>6, Zenon DEF AnswerInv
  <2>8. 3 * u + 2 \in Nat /\ 3 * u + 2 <= 3 * Len(reqs)
    BY <1>9
  <2> QED
    BY <1>1, <1>3, <1>4, <1>10, <2>5, <2>7, <2>8, DeviceOrder, Zenon
<1> QED
  BY <1>8, <1>12, <1>13, Zenon

(* The chain is given back.                                                *)
LEMMA UsedOrder ==
  ASSUME TypeInv, TypeInv', OrderInv, Used
  PROVE  OrderInv'
<1>1. PICK u, n \in Nat : u <= Len(reqs) /\ n <= 3 * Len(reqs) /\ Order(u, n)
  BY OrderNumbers, Zenon
<1>2. RingInv(u) /\ DevInv(u, n, Len(answers)) /\ AnnounceInv(u) /\ AnswerInv(u)
  BY <1>1, Zenon DEF Order
<1>3. /\ h.pc = "used" /\ UNCHANGED <<reqs, driver, dev, answers>> /\ h \in Runs
      /\ h' = [h EXCEPT !.pc = "isr"]
  BY Zenon DEF At, Used, TypeInv
<1>4. h'.pc = "isr" /\ h'.by = h.by
  BY <1>3, Zenon DEF Runs
<1>5. /\ Len(answers) = u + 1 /\ dev = Pos(n)
      /\ (n = 3 * u + 3 /\ Moves(u)) \/ (n = 3 * u + 2 /\ Refuses(u))
  BY <1>2, <1>3, Zenon DEF DevInv
<1>6. u < Len(reqs) /\ h.head = Slot(3 * u)
  BY <1>5, Zenon DEF Moves, Refuses, InChain
<1>7. Len(reqs) \in Nat /\ Len(taken) \in Nat /\ Len(taken) < u + 1 /\ u + 1 \in 1 .. Len(reqs)
  BY <1>2, <1>6, Lengths DEF RingInv
<1>8. RingInv(u + 1)'
  BY <1>2, <1>6, UsedKeeps, Zenon
<1>9. Refuses(u) => "GET_ID" \in Types /\ h.by = "vcpu"
  <2> SUFFICES ASSUME Refuses(u) PROVE "GET_ID" \in Types /\ h.by = "vcpu"
    BY Zenon
  <2>1. reqs[u + 1] \in ReqRecords
    BY <1>7, SeqFacts, Zenon DEF TypeInv
  <2>2. reqs[u + 1].ask.type = "GET_ID" /\ h.by = "vcpu"
    BY Zenon DEF Refuses, InChain
  <2> QED
    BY <2>1, <2>2, Zenon DEF ReqRecords, Requests
<1>10. n = 3 * (u + 1) \/ (n = 3 * (u + 1) - 1 /\ "GET_ID" \in Types /\ h.by = "vcpu")
  BY <1>5, <1>9
<1>11. n = 3 * (u + 1) \/ (n = 3 * (u + 1) - 1 /\ Left(u + 1)')
  BY <1>3, <1>4, <1>7, <1>10, Zenon DEF Left, driver
<1>12. DevInv(u + 1, n, Len(answers))'
  BY <1>3, <1>4, <1>5, <1>11, Zenon DEF DevInv
<1>13. AnnounceInv(u + 1)'
  BY <1>4, Zenon DEF AnnounceInv
<1>14. AnswerInv(u + 1)'
  <2> SUFFICES ASSUME "GET_ID" \notin Types PROVE AnswerInv(u + 1)'
    BY Zenon DEF AnswerInv
  <2>1. /\ \A i \in 1 .. u : AnswerSeen(reqs[i]) = answers[i]
        /\ AnswerSeen(reqs[u + 1]) = answers[u + 1]
    BY <1>2, <1>3, Zenon DEF AnswerInv
  <2>2. \A i \in 1 .. u + 1 : i = u + 1 \/ i \in 1 .. u
    OBVIOUS
  <2>3. \A i \in 1 .. u + 1 : AnswerSeen(reqs'[i]) = answers'[i]
    BY <1>3, <2>1, <2>2, Zenon
  <2>4. h'.pc # "status" /\ h'.pc # "used"
    BY <1>4, Zenon
  <2> QED
    BY <2>3, <2>4, Zenon DEF AnswerInv, AnswerSeen
<1>15. Order(u + 1, n)'
  BY <1>8, <1>12, <1>13, <1>14, Zenon DEF Order
<1>16. u + 1 \in Nat /\ u + 1 <= Len(reqs')
  BY <1>3, <1>7
<1> QED
  BY <1>1, <1>3, <1>15, <1>16, OrderThen, Zenon

(* isr_status is set before the next head.                                 *)
LEMMA IsrOrder ==
  ASSUME TypeInv, TypeInv', OrderInv, SetIsr
  PROVE  OrderInv'
<1>1. PICK u, n \in Nat : u <= Len(reqs) /\ n <= 3 * Len(reqs) /\ Order(u, n)
  BY OrderNumbers, Zenon
<1>2. DevInv(u, n, Len(answers)) /\ AnswerInv(u)
  BY <1>1, Zenon DEF Order
<1>3. /\ h.pc = "isr" /\ UNCHANGED <<ring, reqs, driver, dev, answers>> /\ h \in Runs
      /\ h' = [h EXCEPT !.pc = "head"] /\ isr' = TRUE
  BY Zenon DEF At, SetIsr, TypeInv
<1>4. h'.pc = "head" /\ h'.by = h.by
  BY <1>3, Zenon DEF Runs
<1>5. n = 3 * u \/ (n = 3 * u - 1 /\ Left(u))
  BY <1>2, <1>3, Zenon DEF DevInv
<1>6. n = 3 * u \/ (n = 3 * u - 1 /\ Left(u)')
  BY <1>3, <1>4, <1>5, Zenon DEF Left, driver
<1>7. DevInv(u, n, Len(answers))'
  BY <1>2, <1>3, <1>4, <1>6, Zenon DEF DevInv
<1>8. AnswerInv(u)'
  BY <1>2, <1>3, <1>4, Zenon DEF AnswerInv, AnswerSeen
<1>9. h.pc # "idle" /\ h'.pc # "idle" /\ isr'
  BY <1>3, <1>4, Zenon
<1> QED
  BY <1>1, <1>3, <1>7, <1>8, <1>9, DeviceOrder, Zenon

(* The run ends with an interrupt, after what it used was made known.      *)
LEMMA NotifyOrder ==
  ASSUME TypeInv, TypeInv', RunInv, OrderInv, Notify
  PROVE  OrderInv'
<1>1. PICK u, n \in Nat : u <= Len(reqs) /\ n <= 3 * Len(reqs) /\ Order(u, n)
  BY OrderNumbers, Zenon
<1>2. RingInv(u) /\ DevInv(u, n, Len(answers)) /\ AnnounceInv(u) /\ AnswerInv(u)
  BY <1>1, Zenon DEF Order
<1>3. /\ h.pc = "notify" /\ UNCHANGED <<ring, reqs, driver, dev, answers, isr>>
      /\ h' = Idle /\ intr' = TRUE
  BY Zenon DEF At, Notify
<1>4. h'.pc = "idle"
  BY <1>3, Zenon DEF Idle
<1>5. RingInv(u)'
  BY <1>2, <1>3, RingFrame, Zenon DEF driver
<1>6. DevInv(u, n, Len(answers))'
  BY <1>2, <1>3, <1>4, Zenon DEF DevInv
<1>7. AnswerInv(u)'
  BY <1>2, <1>3, <1>4, Zenon DEF AnswerInv, AnswerSeen
<1>8. AnnounceInv(u)'
  <2> SUFFICES ASSUME doorbell # NotifyCapLength, Len(taken) < u
               PROVE  gpc = "run" /\ isr
    BY <1>3, <1>4, Zenon DEF AnnounceInv, driver
  <2>1. h.by = "vcpu"
    <3>1. h.by # "avail" /\ h.by # "none" /\ h.by \in {"none", "vcpu", "avail"}
      BY <1>3, Zenon DEF RunInv, TypeInv, Runs
    <3> QED
      BY <3>1, Zenon
  <2> QED
    BY <1>2, <1>3, <2>1, Zenon DEF RunInv, AnnounceInv
<1>9. Order(u, n)'
  BY <1>5, <1>6, <1>7, <1>8, Zenon DEF Order
<1> QED
  BY <1>1, <1>3, <1>9, OrderThen, Zenon

(* The ring and the device at the start.                                   *)
LEMMA InitOrder == Init => OrderInv
<1> SUFFICES ASSUME Init PROVE OrderInv
  BY Zenon
<1>1. /\ Len(reqs) = 0 /\ Len(taken) = 0 /\ Len(answers) = 0 /\ taken \in Seq(Answers)
      /\ 3 * Len(reqs) = 0
  BY DEF Init
<1>2. Pos(0) = FirstPosition
  <2>1. Slot(0) = 0 /\ (0 \div QSize) % 2 = 0
    BY VirtqAssumption DEF Slot
  <2>2. Lap(0) = TRUE
    BY <2>1, Zenon DEF Lap
  <2> QED
    BY <2>1, <2>2, Zenon DEF Pos, FirstPosition
<1>3. \A m \in 0 .. QSize - 1 : ring[Slot(m)].flags.avail = ~Lap(m)
  <2> TAKE m \in 0 .. QSize - 1
  <2>1. m \in Slots /\ 0 * QSize + m = m /\ 0 \in Nat /\ 0 % 2 = 0
    BY VirtqAssumption DEF Slots
  <2>2. Slot(m) = m /\ Lap(m) = (0 % 2 = 0)
    BY <2>1, PosOf, ZenonT(60)
  <2>3. ring[m] = Unused
    BY <2>1, Zenon DEF Init
  <2>4. ring[Slot(m)].flags.avail = FALSE
    <3>1. Unused.flags.avail = FALSE
      BY Zenon DEF Unused
    <3> QED
      BY <2>2, <2>3, <3>1, Zenon
  <2>5. (~Lap(m)) = FALSE
    BY <2>1, <2>2, Zenon
  <2> QED
    BY <2>4, <2>5, Zenon
<1>4. RingInv(0)
  <2>1. last_used = Pos(3 * Len(taken)) /\ avail = Pos(3 * Len(reqs))
    BY <1>1, <1>2, Zenon DEF Init
  <2>2. \A c \in Len(taken) .. Len(reqs) - 1 : FALSE
    BY <1>1
  <2>3. \A m \in 3 * Len(reqs) .. 3 * Len(taken) + QSize - 1 : m \in 0 .. QSize - 1
    BY <1>1, VirtqAssumption
  <2>4. Len(taken) <= 0 /\ 0 <= Len(reqs) /\ 3 * Len(reqs) <= 3 * Len(taken) + QSize
    BY <1>1, VirtqAssumption
  <2> QED
    BY <1>1, <1>3, <2>1, <2>2, <2>3, <2>4, Zenon DEF RingInv
<1>5. h.pc = "idle"
  BY Zenon DEF Init, Idle
<1>6. DevInv(0, 0, Len(answers))
  BY <1>1, <1>2, <1>5, Zenon DEF DevInv, Init
<1>7. AnnounceInv(0) /\ AnswerInv(0)
  BY <1>1, <1>5 DEF AnnounceInv, AnswerInv
<1>8. 0 \in 0 .. Len(reqs) /\ 0 \in 0 .. 3 * Len(reqs)
  BY <1>1
<1> QED
  BY <1>4, <1>6, <1>7, <1>8, Zenon DEF OrderInv

(* Every step keeps the order.                                             *)
LEMMA NextOrder ==
  ASSUME TypeInv, TypeInv', RunInv, Orderly, OrderInv, [Next]_vars
  PROVE  OrderInv'
<1>1. CASE DataIn
  <2>1. /\ At("data") /\ NextInChain /\ h.type = "IN"
        /\ DataDone("OK", ReadData(Here.req)) /\ Len(reqs') = Len(reqs)
        /\ Here.req \in 1 .. Len(reqs)
    BY <1>1, ReadType, HereType, Zenon DEF DataIn, NextInChain
  <2>2. \A j \in 1 .. Len(reqs) :
           /\ reqs'[j].ask = reqs[j].ask
           /\ reqs'[j].data = IF j = Here.req THEN ReadData(Here.req) ELSE reqs[j].data
    BY <1>1, ReadType, Zenon
  <2>3. \A j \in 1 .. Len(reqs) : j # Here.req => reqs'[j] = reqs[j]
    <3>1. \E d : reqs' = [reqs EXCEPT ![Here.req].data = d]
      BY <1>1, Zenon DEF DataIn
    <3> QED
      BY <2>1, <3>1, SeqFacts DEF TypeInv
  <2>4. ReadData(Here.req) = IF h.type = "IN" /\ "OK" = "OK" THEN reqs'[Here.req].data
                                                             ELSE <<>>
    BY <2>1, <2>2, Zenon
  <2> QED
    BY <2>1, <2>2, <2>3, <2>4, DataOrder, Zenon
<1>2. CASE DataOut \/ DataFails
  <2>1. /\ At("data") /\ NextInChain /\ reqs' = reqs
        /\ (h.type = "OUT" /\ DataDone("OK", <<>>)) \/ DataDone("IOERR", <<>>)
    BY <1>2, Zenon DEF DataOut, DataFails
  <2>2. CASE h.type = "OUT" /\ DataDone("OK", <<>>)
    BY <2>1, <2>2, DataOrder, Zenon
  <2>3. CASE DataDone("IOERR", <<>>)
    BY <2>1, <2>3, DataOrder, Zenon
  <2> QED
    BY <2>1, <2>2, <2>3, Zenon
<1>3. CASE \E r \in Requests : Submit(r)
  BY <1>3, SubmitOrder, Zenon
<1> QED
  BY <1>1, <1>2, <1>3, QuietOrder, ReapOrder, StartOrder, HeadOrder, EndsOrder, StatusOrder,
     UsedOrder, IsrOrder, NotifyOrder, Zenon DEF Next, Handler, GuestIrq

-----------------------------------------------------------------------------
(* The inductive invariant holds in every reachable state.                 *)
THEOREM Inductive == Spec => []Inv
<1>1. Init => Inv
  BY InitType, InitRun, InitOrder, Zenon DEF Inv
<1>2. Inv /\ [Next]_vars => Inv'
  <2> SUFFICES ASSUME Inv, [Next]_vars PROVE Inv'
    BY Zenon
  <2>1. TypeInv /\ RunInv
    BY Zenon DEF Inv
  <2>2. TypeInv' /\ RunInv'
    BY <2>1, NextType, NextRun, Zenon
  <2>3. doorbell' = doorbell
    BY Zenon DEF Next, Handler, GuestIrq, EnableVq, Submit, Kick, IsrRead, IsrClear, Reap,
       AvailThread, BlkThread, TakeHead, ChainEnds, DataIn, DataOut, DataFails, DataDone,
       Status, Used, SetIsr, Notify, driver, vars
  <2>4. Orderly' => OrderInv'
    <3> SUFFICES ASSUME Orderly' PROVE OrderInv'
      BY Zenon
    <3>1. Orderly /\ OrderInv
      BY <2>3, Zenon DEF Orderly, Inv
    <3> QED
      BY <2>1, <2>2, <3>1, NextOrder, Zenon
  <2> QED
    BY <2>2, <2>4, Zenon DEF Inv
<1> QED
  BY <1>1, <1>2, PTL DEF Spec

(* Every variable keeps its type, whatever the requests and the doorbell:  *)
(* the handler never follows a descriptor that was never written.          *)
THEOREM TypeCorrect == Spec => []TypeOK
<1>1. Inv => TypeOK
  <2> SUFFICES ASSUME TypeInv PROVE TypeOK
    BY Zenon DEF Inv
  <2>1. ring \in [Slots -> [flags : [avail : BOOLEAN, used : BOOLEAN, next : BOOLEAN],
                            role : {"none", "hdr", "data", "status"}, req : 0 .. Len(reqs)]]
    BY Zenon DEF TypeInv, Descs, Flags
  <2>2. \A i \in DOMAIN reqs : reqs[i] \in ReqRecords
    BY SeqFacts, Zenon DEF TypeInv
  <2>3. \A i \in DOMAIN reqs : /\ reqs[i].ask \in Requests
                              /\ reqs[i].status \in {"unwritten", "OK", "IOERR", "UNSUPP"}
    BY <2>2, Zenon DEF ReqRecords, Statuses
  <2>4. /\ h.by \in {"none", "vcpu", "avail"}
        /\ h.pc \in {"idle", "head", "data", "status", "used", "isr", "notify"}
        /\ h.head \in Slots /\ h.cur \in Slots /\ h.req \in Nat /\ h.req <= Len(reqs)
    BY Zenon DEF TypeInv, Runs
  <2>5. h.req \in 0 .. Len(reqs)
    BY <2>4, SeqFacts DEF TypeInv
  <2> QED
    BY <2>1, <2>3, <2>4, <2>5, Zenon DEF TypeInv, TypeOK
<1> QED
  BY <1>1, Inductive, PTL

(* The device never runs past what the driver made available, nor behind   *)
(* what the driver took back.                                              *)
THEOREM StaysInWindow == Spec => [](Orderly => DeviceInWindow)
<1>1. Inv => (Orderly => DeviceInWindow)
  <2> SUFFICES ASSUME TypeInv, OrderInv PROVE DeviceInWindow
    BY Zenon DEF Inv
  <2>1. PICK u, n \in Nat : u <= Len(reqs) /\ n <= 3 * Len(reqs) /\ Order(u, n)
    BY OrderNumbers, Zenon
  <2>2. RingInv(u) /\ DevInv(u, n, Len(answers))
    BY <2>1, Zenon DEF Order
  <2>3. /\ Len(reqs) \in Nat /\ Len(taken) \in Nat /\ Len(taken) <= u
        /\ 3 * Len(reqs) <= 3 * Len(taken) + QSize
    BY <2>2, Lengths, Zenon DEF RingInv
  <2>4. h.pc \in {"idle", "head", "data", "status", "used", "isr", "notify"}
    BY Zenon DEF TypeInv, Runs
  <2>5. n >= 3 * u \/ (n = 3 * u - 1 /\ Len(taken) < u)
    BY <2>2, <2>4 DEF DevInv, Stray, Left
  <2>6. 3 * Len(taken) \in Nat /\ 3 * Len(reqs) \in Nat /\ 3 * Len(taken) <= n
    BY <2>3, <2>5
  <2>7. Dist(Pos(3 * Len(taken)), Pos(n)) = n - 3 * Len(taken)
    BY <2>1, <2>3, <2>6, PosDist, VirtqAssumption
  <2>8. Dist(Pos(3 * Len(taken)), Pos(3 * Len(reqs))) = 3 * Len(reqs) - 3 * Len(taken)
    BY <2>1, <2>3, <2>6, PosDist, VirtqAssumption
  <2>9. n - 3 * Len(taken) \in 0 .. (3 * Len(reqs) - 3 * Len(taken))
    BY <2>1, <2>6
  <2>10. last_used = Pos(3 * Len(taken)) /\ avail = Pos(3 * Len(reqs)) /\ dev = Pos(n)
    BY <2>2, Zenon DEF RingInv, DevInv
  <2> QED
    BY <2>7, <2>8, <2>9, <2>10, Zenon DEF DeviceInWindow
<1> QED
  BY <1>1, Inductive, PTL

(* virtq_get_avail, whose result is not tested inside a chain, finds the   *)
(* next descriptor there.                                                  *)
THEOREM ChainsAreComplete == Spec => [](Orderly => ChainComplete)
<1>1. Inv => (Orderly => ChainComplete)
  <2> SUFFICES ASSUME TypeInv, OrderInv, h.pc \in {"data", "status"},
                      virtq_check_next(ring[h.cur].flags)
               PROVE  IsAvail(Here.flags, dev.wrap)
    BY Zenon DEF Inv, ChainComplete, At
  <2>1. PICK u, n \in Nat : u <= Len(reqs) /\ n <= 3 * Len(reqs) /\ Order(u, n)
    BY OrderNumbers, Zenon
  <2>2. RingInv(u) /\ DevInv(u, n, Len(answers))
    BY <2>1, Zenon DEF Order
  <2>3. ~Stray(u, n)
    BY <2>1, RunNext, Zenon
  <2>4. dev = Pos(n) /\ u < Len(reqs) /\ (n = 3 * u + 1 \/ n = 3 * u + 2)
    BY <2>2, <2>3, Zenon DEF DevInv, Moves, Refuses, InChain
  <2>5. \E k \in 0 .. 2 : k # 0 /\ dev = Pos(3 * u + k)
    BY <2>4
  <2>6. Len(taken) <= u
    BY <2>2, Zenon DEF RingInv
  <2> QED
    BY <2>2, <2>4, <2>5, <2>6, ChainAvail, Zenon
<1> QED
  BY <1>1, Inductive, PTL

(* Where the doorbell is served on the vCPU thread, a used chain is never  *)
(* left with nobody to announce it.                                        *)
THEOREM UsedGetsAnnounced == Spec => [](doorbell # NotifyCapLength => UsedIsAnnounced)
<1>1. Inv => (doorbell # NotifyCapLength => UsedIsAnnounced)
  <2> SUFFICES ASSUME TypeInv, OrderInv, doorbell # NotifyCapLength,
                      IsUsed(ring[last_used.idx].flags, last_used.wrap)
               PROVE  h # Idle \/ (intr /\ isr) \/ gpc = "reap" \/ (gpc = "clear" /\ seen)
    BY Zenon DEF Inv, Orderly, UsedIsAnnounced
  <2>1. PICK u, n \in Nat : u <= Len(reqs) /\ n <= 3 * Len(reqs) /\ Order(u, n)
    BY OrderNumbers, Zenon
  <2>2. RingInv(u) /\ AnnounceInv(u)
    BY <2>1, Zenon DEF Order
  <2>3. Len(taken) < u
    BY <2>2, ReapIff, Zenon
  <2>4. h = Idle => h.pc = "idle"
    BY DEF Idle
  <2>5. gpc \in {"run", "clear", "reap"}
    BY Zenon DEF TypeInv
  <2> QED
    BY <2>2, <2>3, <2>4, <2>5, Zenon DEF AnnounceInv
<1> QED
  BY <1>1, Inductive, PTL

-----------------------------------------------------------------------------
(* The requests as the abstract device has them.                           *)
Asks == [i \in DOMAIN reqs |-> reqs[i].ask]

(* As many as the requests, one for one.                                   *)
LEMMA AsksAre ==
  ASSUME TypeInv
  PROVE  /\ Len(Asks) = Len(reqs) /\ Len(reqs) \in Nat /\ DOMAIN reqs = 1 .. Len(reqs)
         /\ \A i \in 1 .. Len(reqs) : Asks[i] = reqs[i].ask /\ Asks[i] \in Requests
<1>1. reqs \in Seq(ReqRecords) /\ Len(reqs) \in Nat /\ DOMAIN reqs = 1 .. Len(reqs)
  BY SeqFacts, Zenon DEF TypeInv
<1>2. \A i \in 1 .. Len(reqs) : reqs[i].ask \in Requests
  <2>1. \A i \in 1 .. Len(reqs) : reqs[i] \in ReqRecords
    BY SeqFacts, Zenon DEF TypeInv
  <2> QED
    BY <2>1, Zenon DEF ReqRecords
<1>3. Asks = [i \in 1 .. Len(reqs) |-> reqs[i].ask]
  BY <1>1, Zenon DEF Asks
<1> QED
  BY <1>1, <1>2, <1>3

(* Requests whose askings are the same are the same to the device.         *)
LEMMA AsksKept ==
  ASSUME TypeInv, TypeInv', Len(reqs') = Len(reqs),
         \A j \in 1 .. Len(reqs) : reqs'[j].ask = reqs[j].ask
  PROVE  Asks' = Asks
<1>1. DOMAIN reqs = 1 .. Len(reqs) /\ DOMAIN reqs' = 1 .. Len(reqs)
  BY SeqFacts, Zenon DEF TypeInv
<1> QED
  BY <1>1, Zenon DEF Asks

(* A chain added is a request submitted.                                   *)
LEMMA AsksGrow ==
  ASSUME TypeInv, TypeInv', NEW r \in Requests, Submit(r)
  PROVE  Asks' = Append(Asks, r)
<1> DEFINE e == [ask |-> r, status |-> "unwritten",
                 data |-> [k \in 0 .. r.len - 1 |-> "unwritten"]]
<1>1. reqs' = Append(reqs, e) /\ e.ask = r
  BY Zenon DEF Submit
<1> HIDE DEF e
<1>2. /\ Len(reqs) \in Nat /\ DOMAIN reqs = 1 .. Len(reqs) /\ reqs \in Seq(ReqRecords)
  BY SeqFacts, Zenon DEF TypeInv
<1>3. /\ DOMAIN reqs' = 1 .. Len(reqs) + 1
      /\ \A i \in 1 .. Len(reqs) : reqs'[i] = reqs[i]
      /\ reqs'[Len(reqs) + 1] = e
  BY <1>1, <1>2
<1>4. Asks' = [i \in 1 .. Len(reqs) + 1 |-> reqs'[i].ask]
  BY <1>3, Zenon DEF Asks
<1>5. Asks \in Seq(Requests) /\ Len(Asks) = Len(reqs)
  <2>1. Asks = [i \in 1 .. Len(reqs) |-> reqs[i].ask]
    BY <1>2, Zenon DEF Asks
  <2>2. \A i \in 1 .. Len(reqs) : reqs[i].ask \in Requests
    BY AsksAre, Zenon
  <2> QED
    BY <1>2, <2>1, <2>2
<1>6. /\ DOMAIN Append(Asks, r) = 1 .. Len(reqs) + 1
      /\ \A i \in 1 .. Len(reqs) : Append(Asks, r)[i] = Asks[i]
      /\ Append(Asks, r)[Len(reqs) + 1] = r
      /\ Append(Asks, r) \in [1 .. Len(reqs) + 1 -> Requests]
  <2>1. Append(Asks, r) \in Seq(Requests) /\ Len(Append(Asks, r)) = Len(reqs) + 1
    BY <1>2, <1>5, Appended
  <2>2. /\ \A i \in 1 .. Len(reqs) : Append(Asks, r)[i] = Asks[i]
        /\ Append(Asks, r)[Len(reqs) + 1] = r
    BY <1>2, <1>5
  <2>3. Append(Asks, r) \in [1 .. Len(Append(Asks, r)) -> Requests]
    BY <2>1, SeqFacts, Zenon
  <2>4. Append(Asks, r) \in [1 .. Len(reqs) + 1 -> Requests]
    BY <2>1, <2>3, Zenon
  <2> QED
    BY <2>2, <2>4, Zenon
<1>7. ASSUME NEW i \in 1 .. Len(reqs) + 1 PROVE reqs'[i].ask = Append(Asks, r)[i]
  <2>1. CASE i = Len(reqs) + 1
    BY <1>1, <1>3, <1>6, <2>1, Zenon
  <2>2. CASE i # Len(reqs) + 1
    <3>1. i \in 1 .. Len(reqs)
      BY <1>2, <2>2
    <3>2. Asks[i] = reqs[i].ask
      BY <3>1, AsksAre, Zenon
    <3> QED
      BY <1>3, <1>6, <3>1, <3>2, Zenon
  <2> QED
    BY <2>1, <2>2, Zenon
<1> QED
  BY <1>4, <1>6, <1>7, Zenon

(* The initial states are initial states of the abstract device.           *)
LEMMA InitBlockDev == Init => B!Init
<1> SUFFICES ASSUME Init PROVE B!Init
  BY Zenon
<1>1. reqs = <<>> /\ DOMAIN reqs = {}
  BY DEF Init
<1>2. [i \in DOMAIN reqs |-> reqs[i].ask] = <<>>
  BY <1>1
<1> QED
  BY <1>2, Zenon DEF Init, B!Init

(* Without GET_ID every run moves data, and lengths are kept whole.        *)
Plain == "GET_ID" \notin Types /\ \A l \in Lens : l < LEN_MOD

(* data_size holds the length asked for.                                   *)
LEMMA Whole ==
  ASSUME Plain, NEW a \in Requests
  PROVE  DataSize(a) = a.len
<1>1. a.len \in Lens /\ a.len \in Nat
  BY AskOnDisk, Zenon
<1>2. a.len < LEN_MOD
  BY <1>1, Zenon DEF Plain
<1> QED
  BY <1>1, <1>2, BlkAssumption DEF DataSize

(* A step over the data descriptor executes the next request.              *)
LEMMA DataExecutes ==
  ASSUME Inv, TypeInv', Plain, DataIn \/ DataOut \/ DataFails
  PROVE  B!Execute
<1>1. TypeInv /\ OrderInv
  BY Zenon DEF Inv, Orderly, Plain
<1>2. PICK u, n \in Nat : u <= Len(reqs) /\ n <= 3 * Len(reqs) /\ Order(u, n)
  BY <1>1, OrderNumbers, Zenon
<1>3. At("data") /\ NextInChain
  BY Zenon DEF DataIn, DataOut, DataFails
<1>4. Moves(u) /\ u < Len(reqs) /\ Len(answers) = u /\ Here.req = u + 1
  BY <1>1, <1>2, <1>3, DataHere, Zenon
<1> DEFINE a == reqs[u + 1].ask
<1>5. /\ u + 1 \in 1 .. Len(reqs) /\ Len(Asks) = Len(reqs) /\ Asks[u + 1] = a
      /\ a \in Requests
  BY <1>1, <1>4, AsksAre
<1>6. h.type = a.type /\ a.type \in {"IN", "OUT"}
  BY <1>4, Zenon DEF Moves, InChain
<1>7. Asks' = Asks /\ taken' = taken
  <2>1. Len(reqs') = Len(reqs) /\ \A j \in 1 .. Len(reqs) : reqs'[j].ask = reqs[j].ask
    <3>1. CASE DataIn
      BY <1>1, <3>1, ReadType, Zenon
    <3>2. CASE DataOut \/ DataFails
      BY <3>2, Zenon DEF DataOut, DataFails
    <3> QED
      BY <3>1, <3>2, Zenon
  <2>2. taken' = taken
    BY Zenon DEF DataIn, DataOut, DataFails, DataDone, driver
  <2> QED
    BY <1>1, <2>1, <2>2, AsksKept, Zenon
<1>8. DataSize(a) = a.len
  BY <1>5, Whole, Zenon
<1>9. B!Read(a) \/ B!Write(a) \/ B!Fail(a)
  <2>1. CASE DataIn
    <3>1. answers' = Append(answers, [status |-> "OK", data |-> ReadData(u + 1)])
      BY <1>1, <1>4, <2>1, ReadType, Zenon DEF DataDone
    <3>2. ReadData(u + 1) = [k \in 0 .. a.len - 1 |-> disk[a.sector + k]]
      <4>1. \A k \in 0 .. a.len - 1 : k < DataSize(a)
        BY <1>5, <1>8, AskOnDisk
      <4> QED
        BY <4>1, Zenon DEF ReadData
    <3>3. h.type = "IN" /\ disk' = disk
      BY <2>1, Zenon DEF DataIn
    <3> QED
      BY <1>6, <1>7, <3>1, <3>2, <3>3, Zenon DEF B!Read, B!Reply, B!Answer, Asks
  <2>2. CASE DataOut
    <3>1. answers' = Append(answers, [status |-> "OK", data |-> <<>>]) /\ h.type = "OUT"
      BY <2>2, Zenon DEF DataOut, DataDone
    <3>2. disk' = [s \in Sectors |-> IF s \in a.sector .. a.sector + DataSize(a) - 1
                                       THEN a.val ELSE disk[s]]
      BY <1>4, <2>2, Zenon DEF DataOut
    <3>3. disk' = [s \in Sectors |-> IF s \in B!Covered(a) THEN a.val ELSE disk[s]]
      BY <1>8, <3>2, Zenon DEF B!Covered
    <3> QED
      BY <1>6, <1>7, <3>1, <3>3, Zenon DEF B!Write, B!Reply, B!Answer, Asks
  <2>3. CASE DataFails
    <3>1. /\ answers' = Append(answers, [status |-> "IOERR", data |-> <<>>])
          /\ MayFail /\ disk' = disk
      BY <2>3, Zenon DEF DataFails, DataDone
    <3> QED
      BY <1>6, <1>7, <3>1, Zenon DEF B!Fail, B!Reply, B!Answer, Asks
  <2> QED
    BY <2>1, <2>2, <2>3, Zenon
<1>10. Len(answers) < Len(Asks) /\ Asks[Len(answers) + 1] = a
  BY <1>4, <1>5, Zenon
<1> HIDE DEF a
<1> QED
  BY <1>9, <1>10, Zenon DEF B!Execute, Asks

(* Every step is a step of the abstract device or none.                    *)
LEMMA StepBlockDev ==
  ASSUME Inv, Inv', Plain, [Next]_vars
  PROVE  [B!Next]_(B!vars)
<1>0. TypeInv /\ OrderInv /\ TypeInv'
  BY Zenon DEF Inv, Orderly, Plain
<1>1. ASSUME Asks' = Asks, UNCHANGED <<disk, answers, taken>> PROVE [B!Next]_(B!vars)
  BY <1>1, Zenon DEF B!vars, Asks
<1>2. ASSUME UNCHANGED <<reqs, disk, answers, taken>> PROVE [B!Next]_(B!vars)
  <2>1. Asks' = Asks
    BY <1>2, Zenon DEF Asks
  <2> QED
    BY <1>1, <1>2, <2>1, Zenon
<1>3. CASE EnableVq \/ Kick \/ IsrRead \/ IsrClear \/ AvailThread \/ BlkThread \/ UNCHANGED vars
  <2>1. UNCHANGED <<reqs, disk, answers, taken>>
    BY <1>3, Zenon DEF EnableVq, Kick, IsrRead, IsrClear, AvailThread, BlkThread, vars, driver,
       host
  <2> QED
    BY <1>2, <2>1, Zenon
<1>4. CASE TakeHead \/ ChainEnds \/ Used \/ SetIsr \/ Notify
  <2>1. UNCHANGED <<reqs, disk, answers, taken>>
    BY <1>4, Zenon DEF TakeHead, ChainEnds, Used, SetIsr, Notify, driver
  <2> QED
    BY <1>2, <2>1, Zenon
<1>5. CASE \E r \in Requests : Submit(r)
  <2>1. PICK r \in Requests : Submit(r)
    BY <1>5, Zenon
  <2>2. Asks' = Append(Asks, r) /\ UNCHANGED <<disk, answers, taken>>
    BY <1>0, <2>1, AsksGrow, Zenon DEF Submit, host
  <2>3. B!Submit(r)
    BY <2>2, Zenon DEF B!Submit, Asks
  <2> QED
    BY <2>3, Zenon DEF B!Next
<1>6. CASE DataIn \/ DataOut \/ DataFails
  <2>1. B!Execute
    BY <1>0, <1>6, DataExecutes, Zenon
  <2> QED
    BY <2>1, Zenon DEF B!Next
<1>7. PICK u, n \in Nat : u <= Len(reqs) /\ n <= 3 * Len(reqs) /\ Order(u, n)
  BY <1>0, OrderNumbers, Zenon
<1>8. RingInv(u) /\ DevInv(u, n, Len(answers)) /\ AnswerInv(u)
  BY <1>7, Zenon DEF Order
<1>9. CASE Status
  <2>1. h.pc = "status" /\ virtq_check_next(ring[h.cur].flags) /\ UNCHANGED <<disk, taken>>
    BY <1>9, Zenon DEF Status, At, NextInChain, driver
  <2>2. ~Stray(u, n)
    BY <1>0, <1>7, <2>1, RunNext, Zenon
  <2>3. Moves(u) \/ Refuses(u)
    BY <1>8, <2>1, <2>2, Zenon DEF DevInv
  <2>4. ~Refuses(u)
    <3> SUFFICES ASSUME Refuses(u) PROVE FALSE
      BY Zenon
    <3>1. u + 1 \in 1 .. Len(reqs) /\ reqs[u + 1].ask.type = "GET_ID"
      BY <1>0, <1>7, AsksAre DEF Refuses, InChain
    <3>2. reqs[u + 1].ask \in Requests
      BY <1>0, <3>1, AsksAre, Zenon
    <3> QED
      BY <3>1, <3>2, Zenon DEF Requests, Plain
  <2>5. h.type \in {"IN", "OUT"}
    BY <2>3, <2>4, Zenon DEF Moves, InChain
  <2>6. answers' = answers
    BY <1>9, <2>5, Zenon DEF Status
  <2>7. Asks' = Asks
    BY <1>0, <1>9, StatusStep, AsksKept, Zenon
  <2> QED
    BY <1>1, <2>1, <2>6, <2>7, Zenon
<1>10. CASE Reap
  <2>0. UNCHANGED <<reqs, disk, answers>>
    BY <1>10, Zenon DEF Reap, host
  <2>1. CASE Len(taken) < u
    <3>1. taken' = Append(taken, AnswerSeen(reqs[Len(taken) + 1]))
      BY <1>0, <1>8, <1>10, <2>1, ReapKeeps, Zenon
    <3>2. /\ Len(taken) + 1 \in 1 .. u /\ Len(taken) < Len(answers)
      <4>1. Len(taken) \in Nat /\ Len(answers) \in Nat
        BY <1>0, <1>8, Lengths, Zenon
      <4>2. h.pc \in {"idle", "head", "data", "status", "used", "isr", "notify"}
        BY <1>0, Zenon DEF TypeInv, Runs
      <4>3. Len(answers) >= u
        BY <1>8, <4>1, <4>2 DEF DevInv
      <4> QED
        BY <2>1, <4>1, <4>3
    <3>3. AnswerSeen(reqs[Len(taken) + 1]) = answers[Len(taken) + 1]
      BY <1>8, <3>2, Zenon DEF AnswerInv, Plain
    <3>4. Asks' = Asks
      BY <2>0, Zenon DEF Asks
    <3>5. B!Take
      BY <2>0, <3>1, <3>2, <3>3, <3>4, Zenon DEF B!Take, Asks
    <3> QED
      BY <3>5, Zenon DEF B!Next
  <2>2. CASE ~(Len(taken) < u)
    <3>1. taken' = taken
      BY <1>0, <1>8, <1>10, <2>2, ReapIff, Zenon DEF Reap
    <3> QED
      BY <1>2, <2>0, <3>1, Zenon
  <2> QED
    BY <2>1, <2>2, Zenon
<1> QED
  BY <1>3, <1>4, <1>5, <1>6, <1>9, <1>10, Zenon DEF Next, Handler, GuestIrq

(* The block device implements BlockDev for every ring, disk, number of    *)
(* requests and both ways a doorbell is served: requests are executed in   *)
(* order, each once and whole, and the driver finds for each what was      *)
(* done.  GET_ID, and lengths that do not fit data_size, are excluded: the *)
(* runs about them show what goes wrong.                                   *)
THEOREM ImplementsBlockDev == ASSUME Plain PROVE Spec => BlockDevSpec
  BY InitBlockDev, StepBlockDev, Inductive, PTL DEF Spec, BlockDevSpec, B!Spec
=============================================================================
