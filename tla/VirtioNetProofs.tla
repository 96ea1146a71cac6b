---------------------------- MODULE VirtioNetProofs ----------------------------
(***************************************************************************)
(* Theorems about VirtioNet, for rings of every size and any number of     *)
(* packets and of failed transfers.  First that every step keeps types,    *)
(* keeps the flags of both rings in agreement with the positions of driver *)
(* and device, and leaves no packet without a signal; then what a step     *)
(* does to the buffers; then the theorems.                                 *)
(***************************************************************************)
EXTENDS VirtioNet, VirtqProofs

F(q) == [i \in Slots |-> ring[q][i].flags]

(* The flags of a queue's slots agree with where the driver and the thread *)
(* are, and between taking a descriptor and giving it back the thread      *)
(* holds the last one.                                                     *)
QueueInv(q) ==
    /\ Window(F(q), last_used[q], avail[q], dev[q])
    /\ tpc[q] = "used" => Held(F(q), last_used[q], dev[q], cur[q])

(* What the tap has given and the device has not yet read.                 *)
TapTypes ==
    /\ tap_in \in Seq(Nat) /\ \A k \in DOMAIN tap_in : tap_in[k] \in 1 .. arrived
    /\ tap_out \in Seq(Nat) /\ got \in Seq(Nat)

-----------------------------------------------------------------------------
(* The five things that can happen to a queue, one of them at a time.      *)
Same(q) ==
    /\ \A i \in Slots : ring'[q][i] = ring[q][i]
    /\ UNCHANGED <<last_used[q], avail[q], dev[q], cur[q]>>
    /\ tpc'[q] = "used" => tpc[q] = "used"

Offers(q) ==
    /\ Dist(last_used[q], avail[q]) < QSize
    /\ ring'[q][avail[q].idx].flags = AvailFlags(avail[q].wrap, FALSE)
    /\ \A i \in Slots : i # avail[q].idx => ring'[q][i] = ring[q][i]
    /\ avail'[q] = Ahead(avail[q], 1)
    /\ UNCHANGED <<last_used[q], dev[q], cur[q], tpc[q]>>

Takes(q) ==
    /\ tpc[q] = "take" /\ IsAvail(ring[q][dev[q].idx].flags, dev[q].wrap)
    /\ \A i \in Slots : /\ ring'[q][i].flags = ring[q][i].flags
                        /\ i # dev[q].idx => ring'[q][i] = ring[q][i]
    /\ dev'[q] = Ahead(dev[q], 1) /\ cur'[q] = dev[q].idx
    /\ UNCHANGED <<last_used[q], avail[q]>>

Marks(q) ==
    /\ tpc[q] = "used" /\ tpc'[q] # "used"
    /\ ring'[q][cur[q]].flags = MarkUsed(ring[q][cur[q]].flags)
    /\ \A i \in Slots : ring'[q][i].pkt = ring[q][i].pkt /\ (i # cur[q] => ring'[q][i] = ring[q][i])
    /\ UNCHANGED <<last_used[q], avail[q], dev[q], cur[q]>>

Reaps(q) ==
    /\ HasUsed(q)
    /\ \A i \in Slots : ring'[q][i] = ring[q][i]
    /\ last_used'[q] = Ahead(last_used[q], 1)
    /\ UNCHANGED <<avail[q], dev[q], cur[q], tpc[q]>>

Buffers == [flags : Flags, pkt : 0 .. MaxPackets]

Pcs == {"off", "event", "poll", "take", "used", "isr", "notify"}

(* TypeOK, one variable at a time.                                         *)
Typed ==
    /\ ring \in [Queues -> [Slots -> Buffers]]
    /\ avail \in [Queues -> Positions] /\ last_used \in [Queues -> Positions]
    /\ dev \in [Queues -> Positions] /\ tpc \in [Queues -> Pcs] /\ cur \in [Queues -> Slots]
    /\ enable \in [Queues -> BOOLEAN] /\ event \in [Queues -> BOOLEAN]
    /\ gpc \in {"run", "clear", "reap"} /\ unkicked \in BOOLEAN /\ seen \in BOOLEAN
    /\ tx_ioeventfd \in BOOLEAN /\ isr \in BOOLEAN /\ intr \in BOOLEAN
    /\ xmit \in 0 .. MaxPackets /\ arrived \in 0 .. MaxPackets
    /\ faults \in [Queues -> 0 .. MaxFaults]

(* The type invariant, queue by queue.                                     *)
LEMMA Types == (TypeOK <=> Typed) /\ (TypeOK' <=> Typed')
BY Zenon DEF TypeOK, Typed, Flags, Buffers, Pcs

(* A buffer with its flags or its packet replaced is a buffer.             *)
LEMMA BufferUpdates ==
    ASSUME NEW b \in Buffers, NEW x \in Flags, NEW n \in 0 .. MaxPackets
    PROVE  [b EXCEPT !.flags = x] \in Buffers /\ [b EXCEPT !.pkt = n] \in Buffers
BY Zenon DEF Buffers

(* Whatever step is taken, it does one of the five to each queue.          *)
LEMMA Shape ==
    ASSUME TypeOK, [Next]_vars, NEW q \in Queues
    PROVE  Same(q) \/ Offers(q) \/ Takes(q) \/ Marks(q) \/ Reaps(q)
<1> USE Types DEF Queues, Typed, Pcs
<1>1. ASSUME NEW r \in Queues, EnableVq(r) PROVE Same(q)
  BY <1>1, Zenon DEF EnableVq, driver, Same
<1>2. ASSUME NEW r \in Queues, NEW p, Offer(r, p), UNCHANGED <<last_used, device>>
      PROVE Same(q) \/ Offers(q)
  <2> DEFINE b == [flags |-> AvailFlags(avail[r].wrap, FALSE), pkt |-> p]
  <2>1. b.flags = AvailFlags(avail[r].wrap, FALSE)
    BY Zenon
  <2>2. ring' = [ring EXCEPT ![r][avail[r].idx] = b] /\ Dist(last_used[r], avail[r]) < QSize
    BY <1>2, Zenon DEF Offer
  <2> HIDE DEF b
  <2>3. avail' = [avail EXCEPT ![r] = Ahead(avail[r], 1)] /\ UNCHANGED <<last_used, dev, cur, tpc>>
    BY <1>2, Zenon DEF Offer, device
  <2>4. avail[r].idx \in Slots
    BY Zenon DEF Positions
  <2>5. CASE q = r
    <3>1. ring'[q][avail[q].idx] = b /\ \A i \in Slots : i # avail[q].idx => ring'[q][i] = ring[q][i]
      BY <2>2, <2>4, <2>5, ZenonT(60)
    <3> QED BY <2>1, <2>2, <2>3, <2>5, <3>1, ZenonT(60) DEF Offers
  <2>6. CASE q # r
    BY <2>2, <2>3, <2>6, Zenon DEF Same
  <2> QED BY <2>5, <2>6, Zenon
<1>3. ASSUME KickTx \/ IsrRead \/ IsrClear \/ ReapDone \/ Arrive PROVE Same(q)
  BY <1>3, Zenon DEF KickTx, IsrRead, IsrClear, ReapDone, Arrive, driver, device, Same
<1>4. ASSUME NEW r \in Queues, Reap(r) PROVE Same(q) \/ Reaps(q)
  BY <1>4, Zenon DEF Reap, device, Same, Reaps
<1>5. ASSUME NEW r \in Queues, SetEvent(r) \/ NothingAvail(r) \/ SetIsr(r) \/ Notify(r)
      PROVE Same(q)
  BY <1>5, Zenon DEF SetEvent, NothingAvail, SetIsr, Notify, Goto, driver, Same
<1>6. ASSUME PollRx \/ PollTx \/ PollTxAgain PROVE Same(q)
  BY <1>6, Zenon DEF PollRx, PollTx, PollTxAgain, Goto, driver, Same
<1>7. ASSUME NEW r \in Queues, CanTake(r), Took(r), UNCHANGED driver,
             tpc' = [tpc EXCEPT ![r] = tpc'[r]],
             \A t \in Queues, i \in Slots : ring'[t][i].flags = ring[t][i].flags
                  /\ (t # r \/ i # dev[r].idx => ring'[t][i] = ring[t][i])
      PROVE Same(q) \/ Takes(q)
  <2>1. /\ tpc[r] = "take" /\ IsAvail(ring[r][dev[r].idx].flags, dev[r].wrap)
        /\ UNCHANGED <<last_used, avail>>
    BY <1>7, Zenon DEF CanTake, Here, driver
  <2>2. dev' = [dev EXCEPT ![r] = Ahead(dev[r], 1)] /\ cur' = [cur EXCEPT ![r] = dev[r].idx]
    <3>1. Step(dev[r]) = Ahead(dev[r], 1)
      BY StepIsAhead, Zenon
    <3> QED BY <1>7, <3>1, Zenon DEF Took
  <2>3. CASE q = r
    <3>1. dev'[q] = Ahead(dev[q], 1) /\ cur'[q] = dev[q].idx
      BY <2>2, <2>3, Zenon
    <3> QED BY <1>7, <2>1, <2>3, <3>1, ZenonT(60) DEF Takes
  <2>4. CASE q # r
    BY <1>7, <2>1, <2>2, <2>4, Zenon DEF Same
  <2> QED BY <2>3, <2>4, Zenon
<1>8. ASSUME NEW r \in Queues, Used(r) PROVE Same(q) \/ Marks(q)
  <2> DEFINE b == [ring[r][cur[r]] EXCEPT !.flags = MarkUsed(ring[r][cur[r]].flags)]
  <2>1. ring[r][cur[r]] \in Buffers /\ cur[r] \in Slots
    BY ZenonT(60)
  <2>2. b.flags = MarkUsed(ring[r][cur[r]].flags) /\ b.pkt = ring[r][cur[r]].pkt
    BY <2>1, Zenon DEF Buffers
  <2>3. ring' = [ring EXCEPT ![r][cur[r]] = b]
    BY <1>8, Zenon DEF Used
  <2>4. /\ tpc[r] = "used" /\ tpc' = [tpc EXCEPT ![r] = "isr"]
        /\ UNCHANGED <<last_used, avail, dev, cur>>
    BY <1>8, Zenon DEF Used, Goto, driver
  <2> HIDE DEF b
  <2>5. CASE q = r
    <3>1. ring'[q][cur[q]] = b /\ \A i \in Slots : i # cur[q] => ring'[q][i] = ring[q][i]
      BY <2>1, <2>3, <2>5, ZenonT(60)
    <3>2. tpc'[q] # "used"
      BY <2>4, <2>5, Zenon
    <3>3. \A i \in Slots : ring'[q][i].pkt = ring[q][i].pkt
      BY <2>2, <2>5, <3>1, Zenon
    <3> QED BY <2>2, <2>4, <2>5, <3>1, <3>2, <3>3, Zenon DEF Marks
  <2>6. CASE q # r
    BY <2>3, <2>4, <2>6, Zenon DEF Same
  <2> QED BY <2>5, <2>6, Zenon
<1>9. CASE UNCHANGED vars
  BY <1>9, Zenon DEF vars, driver, device, Same
<1>10. CASE PostRx
  <2>1. Offer("rx", 0) /\ UNCHANGED <<last_used, device>>
    BY <1>10, Zenon DEF PostRx
  <2> QED BY <2>1, <1>2, Zenon
<1>11. CASE Xmit
  <2>1. Offer("tx", xmit + 1) /\ UNCHANGED <<last_used, device>>
    BY <1>11, ZenonT(60) DEF Xmit
  <2> QED BY <2>1, <1>2, Zenon
<1>12. CASE RxPacket
  <2>1. CanTake("rx") /\ Took("rx") /\ UNCHANGED driver /\ tpc' = [tpc EXCEPT !["rx"] = "used"]
    BY <1>12, Zenon DEF RxPacket, Goto
  <2>2. ring' = [ring EXCEPT !["rx"][dev["rx"].idx].pkt = Head(tap_in)]
    BY <1>12, ZenonT(60) DEF RxPacket
  <2>3. \A t \in Queues, i \in Slots : ring'[t][i].flags = ring[t][i].flags
                  /\ (t # "rx" \/ i # dev["rx"].idx => ring'[t][i] = ring[t][i])
    BY <2>2 DEF Buffers
  <2> QED BY <2>1, <2>3, <1>7, Zenon
<1>13. CASE TxPacket
  <2>1. CanTake("tx") /\ Took("tx") /\ UNCHANGED driver /\ tpc' = [tpc EXCEPT !["tx"] = "used"]
          /\ UNCHANGED ring
    BY <1>13, Zenon DEF TxPacket, Goto
  <2> QED BY <2>1, <1>7, Zenon
<1>14. ASSUME NEW r \in Queues, TapFails(r) PROVE Same(q) \/ Takes(q)
  <2>1. CanTake(r) /\ Took(r) /\ UNCHANGED driver /\ tpc' = [tpc EXCEPT ![r] = "notify"]
          /\ UNCHANGED ring
    BY <1>14, Zenon DEF TapFails, Goto
  <2> QED BY <2>1, <1>7, Zenon
<1> HIDE Types DEF Queues, Typed, Pcs
<1>15. "rx" \in Queues /\ "tx" \in Queues
  BY Zenon DEF Queues
<1>16. CASE RxThread
  BY <1>16, <1>15, <1>5, <1>6, <1>8, <1>12, <1>14, Zenon DEF RxThread
<1>17. CASE TxThread
  BY <1>17, <1>15, <1>5, <1>6, <1>8, <1>13, <1>14, Zenon DEF TxThread
<1> QED BY <1>1, <1>3, <1>4, <1>9, <1>10, <1>11, <1>16, <1>17, Zenon DEF Next, GuestIrq

-----------------------------------------------------------------------------
(* Every step keeps the types.                                             *)
LEMMA TypeStep == TypeOK /\ TapTypes /\ [Next]_vars => TypeOK' /\ TapTypes'
<1> SUFFICES ASSUME Typed, TapTypes, [Next]_vars PROVE Typed' /\ TapTypes'
  BY Types, Zenon
<1> USE NetAssumption DEF Typed
<1>1. ASSUME NEW q \in Queues, EnableVq(q) PROVE Typed' /\ TapTypes'
  BY <1>1, Zenon DEF EnableVq, driver, tap, Pcs, TapTypes
<1>0. ASSUME NEW q \in Queues, NEW p \in 0 .. MaxPackets, Offer(q, p)
      PROVE  ring' \in [Queues -> [Slots -> Buffers]] /\ avail' \in [Queues -> Positions]
  <2> DEFINE b == [flags |-> AvailFlags(avail[q].wrap, FALSE), pkt |-> p]
  <2>1. avail[q].idx \in Slots /\ avail[q].wrap \in BOOLEAN /\ Ahead(avail[q], 1) \in Positions
    BY AheadFields, Zenon DEF Positions
  <2>2. AvailFlags(avail[q].wrap, FALSE) \in Flags
    <3>1. (~avail[q].wrap) \in BOOLEAN /\ FALSE \in BOOLEAN
      BY Zenon
    <3> QED BY <2>1, <3>1, Zenon DEF AvailFlags, Flags
  <2>3. b \in Buffers
    BY <2>2, Zenon DEF Buffers
  <2>4. ring' = [ring EXCEPT ![q][avail[q].idx] = b] /\ avail' = [avail EXCEPT ![q] = Ahead(avail[q], 1)]
    BY <1>0, Zenon DEF Offer
  <2> HIDE DEF b
  <2> QED BY <2>1, <2>3, <2>4, Zenon
<1>2. CASE PostRx
  <2>1. ring' \in [Queues -> [Slots -> Buffers]] /\ avail' \in [Queues -> Positions]
    <3>1. Offer("rx", 0) /\ "rx" \in Queues /\ 0 \in 0 .. MaxPackets
      BY <1>2 DEF PostRx, Queues
    <3> QED BY <3>1, <1>0, Zenon
  <2> QED BY <1>2, <2>1, Zenon DEF PostRx, device, tap, TapTypes
<1>3. CASE Xmit
  <2>1. ring' \in [Queues -> [Slots -> Buffers]] /\ avail' \in [Queues -> Positions]
    <3>1. Offer("tx", xmit + 1) /\ "tx" \in Queues /\ xmit + 1 \in 0 .. MaxPackets
      BY <1>3 DEF Xmit, Queues
    <3> QED BY <3>1, <1>0, Zenon
  <2>2. xmit' \in 0 .. MaxPackets /\ unkicked' \in BOOLEAN
    BY <1>3 DEF Xmit
  <2> QED BY <1>3, <2>1, <2>2, Zenon DEF Xmit, device, tap, TapTypes
<1>4. CASE KickTx
  BY <1>4, Zenon DEF KickTx, tap, TapTypes
<1>5. CASE IsrRead
  BY <1>5, Zenon DEF IsrRead, tap, TapTypes
<1>6. CASE IsrClear
  BY <1>6, Zenon DEF IsrClear, tap, TapTypes
<1>7. CASE ReapDone
  BY <1>7, Zenon DEF ReapDone, tap, device, TapTypes
<1>8. ASSUME NEW q \in Queues, Reap(q) PROVE Typed' /\ TapTypes'
  <2>1. last_used[q].idx \in Slots /\ Ahead(last_used[q], 1) \in Positions
    BY AheadFields, Zenon DEF Positions
  <2>2. ring[q][last_used[q].idx].pkt \in Nat
    BY <2>1, SMTT(60) DEF Buffers
  <2>3. last_used' \in [Queues -> Positions] /\ got' \in Seq(Nat)
    BY <1>8, <2>1, <2>2, SMTT(60) DEF Reap, TapTypes
  <2> QED BY <1>8, <2>3, Zenon DEF Reap, device, tap, TapTypes
<1>9. CASE Arrive
  BY <1>9, SMTT(60) DEF Arrive, driver, device, TapTypes
<1>10. ASSUME NEW q \in Queues, SetEvent(q) PROVE Typed' /\ TapTypes'
  BY <1>10, Zenon DEF SetEvent, Goto, driver, tap, Pcs, TapTypes
<1>11. CASE PollRx
  BY <1>11, Zenon DEF PollRx, Goto, driver, tap, Pcs, TapTypes
<1>12. CASE PollTx \/ PollTxAgain
  BY <1>12, ZenonT(60) DEF PollTx, PollTxAgain, Goto, driver, tap, Pcs, TapTypes
<1>13. ASSUME NEW q \in Queues, NothingAvail(q) PROVE Typed' /\ TapTypes'
  BY <1>13, Zenon DEF NothingAvail, Goto, driver, tap, Pcs, TapTypes
<1>t. ASSUME NEW q \in Queues, CanTake(q), Took(q)
      PROVE  dev' \in [Queues -> Positions] /\ cur' \in [Queues -> Slots] /\ dev[q].idx \in Slots
  <2>1. dev[q].idx \in Slots /\ Step(dev[q]) \in Positions
    BY AheadFields, StepIsAhead DEF Positions
  <2> QED BY <1>t, <2>1, Zenon DEF Took
<1>14. CASE RxPacket
  <2>1. dev' \in [Queues -> Positions] /\ cur' \in [Queues -> Slots] /\ dev["rx"].idx \in Slots
    BY <1>14, <1>t, Zenon DEF RxPacket, Queues
  <2>2. Head(tap_in) \in 0 .. MaxPackets /\ Tail(tap_in) \in Seq(Nat)
          /\ \A k \in DOMAIN Tail(tap_in) : Tail(tap_in)[k] \in 1 .. arrived
    BY <1>14, SMTT(60) DEF RxPacket, TapTypes
  <2>3. ring' \in [Queues -> [Slots -> Buffers]]
    <3>1. ring' = [ring EXCEPT !["rx"][dev["rx"].idx].pkt = Head(tap_in)]
      BY <1>14, Zenon DEF RxPacket
    <3> DEFINE b == [ring["rx"][dev["rx"].idx] EXCEPT !.pkt = Head(tap_in)]
    <3>2. b \in Buffers
      <4>1. ring["rx"][dev["rx"].idx] \in Buffers
        BY <2>1, ZenonT(60) DEF Queues
      <4>2. ring["rx"][dev["rx"].idx].flags \in Flags
        BY <4>1, Zenon DEF Buffers
      <4> QED BY <2>2, <4>1, <4>2, BufferUpdates, Zenon
    <3>3. ring' = [ring EXCEPT !["rx"][dev["rx"].idx] = b]
      BY <3>1, Zenon
    <3> HIDE DEF b
    <3> QED BY <2>1, <3>2, <3>3, Zenon DEF Queues
  <2>4. tpc' \in [Queues -> Pcs]
    BY <1>14, Zenon DEF RxPacket, Goto, Pcs
  <2> QED BY <1>14, <2>1, <2>2, <2>3, <2>4, Zenon DEF RxPacket, driver, TapTypes
<1>15. CASE TxPacket
  <2>1. dev' \in [Queues -> Positions] /\ cur' \in [Queues -> Slots] /\ dev["tx"].idx \in Slots
    BY <1>15, <1>t, Zenon DEF TxPacket, Queues
  <2>2. Here("tx").pkt \in Nat
    BY <2>1 DEF Here, Queues, Buffers
  <2>3. tap_out' \in Seq(Nat) /\ tpc' \in [Queues -> Pcs]
    <3>1. tap_out' = Append(tap_out, Here("tx").pkt) /\ tap_out \in Seq(Nat)
      BY <1>15, Zenon DEF TxPacket, TapTypes
    <3>2. tap_out' \in Seq(Nat)
      BY <2>2, <3>1
    <3>3. tpc' \in [Queues -> Pcs]
      BY <1>15, Zenon DEF TxPacket, Goto, Pcs
    <3> QED BY <3>2, <3>3, Zenon
  <2> QED BY <1>15, <2>1, <2>3, Zenon DEF TxPacket, driver, TapTypes
<1>16. ASSUME NEW q \in Queues, TapFails(q) PROVE Typed' /\ TapTypes'
  <2>1. dev' \in [Queues -> Positions] /\ cur' \in [Queues -> Slots]
    BY <1>16, <1>t, Zenon DEF TapFails
  <2>2. event' \in [Queues -> BOOLEAN] /\ tpc' \in [Queues -> Pcs]
    BY <1>16, SMTT(60) DEF TapFails, Goto, Pcs
  <2>3. faults[q] + 1 \in 0 .. MaxFaults
    <3>1. faults["rx"] \in 0 .. MaxFaults /\ faults["tx"] \in 0 .. MaxFaults
      BY Zenon DEF Queues
    <3>2. faults["rx"] + faults["tx"] < MaxFaults
      BY <1>16, Zenon DEF TapFails
    <3>3. q = "rx" \/ q = "tx"
      BY Zenon DEF Queues
    <3> QED BY <3>1, <3>2, <3>3, NetAssumption
  <2>4. faults' \in [Queues -> 0 .. MaxFaults]
    BY <1>16, <2>3, Zenon DEF TapFails
  <2> QED BY <1>16, <2>1, <2>2, <2>4, Zenon DEF TapFails, driver, TapTypes
<1>17. ASSUME NEW q \in Queues, Used(q) PROVE Typed' /\ TapTypes'
  <2>1. \A x \in Flags : MarkUsed(x) \in Flags
    BY Zenon DEF MarkUsed, Flags
  <2>2. ring' \in [Queues -> [Slots -> Buffers]]
    <3>1. ring' = [ring EXCEPT ![q][cur[q]].flags = MarkUsed(@)]
      BY <1>17, Zenon DEF Used
    <3> DEFINE b == [ring[q][cur[q]] EXCEPT !.flags = MarkUsed(ring[q][cur[q]].flags)]
    <3>2. b \in Buffers
      <4>1. ring[q][cur[q]] \in Buffers /\ 0 \in 0 .. MaxPackets
        OBVIOUS
      <4>2. MarkUsed(ring[q][cur[q]].flags) \in Flags
        BY <2>1, <4>1, Zenon DEF Buffers
      <4> QED BY <4>1, <4>2, BufferUpdates, Zenon
    <3>3. ring' = [ring EXCEPT ![q][cur[q]] = b]
      BY <3>1, Zenon
    <3> HIDE DEF b
    <3> QED BY <3>2, <3>3, Zenon
  <2> QED BY <1>17, <2>2, Zenon DEF Used, Goto, Pcs, driver, tap, TapTypes
<1>18. ASSUME NEW q \in Queues, SetIsr(q) PROVE Typed' /\ TapTypes'
  BY <1>18, Zenon DEF SetIsr, Goto, driver, tap, Pcs, TapTypes
<1>19. ASSUME NEW q \in Queues, Notify(q) PROVE Typed' /\ TapTypes'
  BY <1>19, Zenon DEF Notify, Goto, driver, tap, Pcs, TapTypes
<1>20. CASE UNCHANGED vars
  BY <1>20, Zenon DEF vars, driver, device, tap, TapTypes
<1>21. "rx" \in Queues /\ "tx" \in Queues
  BY Zenon DEF Queues
<1> HIDE DEF Typed
<1> QED BY <1>1, <1>2, <1>3, <1>4, <1>5, <1>6, <1>7, <1>8, <1>9, <1>10, <1>11, <1>12, <1>13,
            <1>14, <1>15, <1>16, <1>17, <1>18, <1>19, <1>20, <1>21, ZenonT(60)
         DEF Next, GuestIrq, RxThread, TxThread

(* Each of the five keeps the flags of the queue's slots in order.         *)
LEMMA QueueStep ==
    ASSUME TypeOK, TypeOK', NEW q \in Queues, QueueInv(q),
           Same(q) \/ Offers(q) \/ Takes(q) \/ Marks(q) \/ Reaps(q)
    PROVE  QueueInv(q)'
<1> DEFINE f == F(q)  g == F(q)'  l == last_used[q]  a == avail[q]  d == dev[q]  c == cur[q]
<1>1. /\ l \in Positions /\ a \in Positions /\ d \in Positions /\ c \in Slots
      /\ l.idx \in Slots /\ a.idx \in Slots /\ d.idx \in Slots
  BY Types, Zenon DEF Typed, Positions
<1>2. f \in [Slots -> Flags]
  BY Types DEF Typed, F, Buffers
<1>3. g \in [Slots -> Flags]
  <2>1. ring' \in [Queues -> [Slots -> Buffers]]
    BY Types, Zenon DEF Typed
  <2> QED BY <2>1, Zenon DEF F, Buffers
<1>4. \A i \in Slots : f[i] = ring[q][i].flags /\ g[i] = ring'[q][i].flags
  BY Zenon DEF F
<1>5. Window(f, l, a, d) /\ (tpc[q] = "used" => Held(f, l, d, c))
  BY Zenon DEF QueueInv
<1> SUFFICES /\ Window(g, last_used'[q], avail'[q], dev'[q])
             /\ tpc'[q] = "used" => Held(g, last_used'[q], dev'[q], cur'[q])
  BY Zenon DEF QueueInv
<1> HIDE DEF f, g
<1>6. CASE Same(q)
  <2>1. g = f
    BY <1>2, <1>3, <1>4, <1>6 DEF Same
  <2> QED BY <2>1, <1>5, <1>6, Zenon DEF Same
<1>7. CASE Offers(q)
  <2>1. Dist(l, a) < QSize /\ g[a.idx] = AvailFlags(a.wrap, FALSE) /\ \A i \in Slots : i # a.idx => g[i] = f[i]
    <3>1. /\ Dist(l, a) < QSize /\ ring'[q][a.idx].flags = AvailFlags(a.wrap, FALSE)
          /\ \A i \in Slots : i # a.idx => ring'[q][i] = ring[q][i]
      BY <1>7, Zenon DEF Offers
    <3>2. g[a.idx] = AvailFlags(a.wrap, FALSE)
      BY <1>1, <1>4, <3>1, Zenon
    <3>3. \A i \in Slots : i # a.idx => g[i] = f[i]
      BY <1>4, <3>1, Zenon
    <3> QED BY <3>1, <3>2, <3>3, Zenon
  <2>2. Window(g, l, Ahead(a, 1), d) /\ (Held(f, l, d, c) => Held(g, l, d, c))
    BY <1>1, <1>2, <1>3, <1>5, <2>1, WindowOffered, ZenonT(60)
  <2> QED BY <2>2, <1>5, <1>7, Zenon DEF Offers
<1>8. CASE Takes(q)
  <2>1. IsAvail(f[d.idx], d.wrap) /\ g = f
    BY <1>1, <1>2, <1>3, <1>4, <1>8 DEF Takes
  <2>2. Window(f, l, a, Ahead(d, 1)) /\ Held(f, l, Ahead(d, 1), d.idx)
    BY <1>1, <1>2, <1>5, <2>1, WindowTaken, Zenon
  <2> QED BY <2>1, <2>2, <1>8, Zenon DEF Takes
<1>9. CASE Marks(q)
  <2>1. Held(f, l, d, c) /\ g[c] = MarkUsed(f[c]) /\ \A i \in Slots : i # c => g[i] = f[i]
    <3>1. /\ tpc[q] = "used" /\ ring'[q][c].flags = MarkUsed(ring[q][c].flags)
          /\ \A i \in Slots : i # c => ring'[q][i] = ring[q][i]
      BY <1>9, Zenon DEF Marks
    <3>2. Held(f, l, d, c)
      BY <1>5, <3>1, Zenon
    <3>3. g[c] = MarkUsed(f[c])
      BY <1>1, <1>4, <3>1, Zenon
    <3>4. \A i \in Slots : i # c => g[i] = f[i]
      BY <1>4, <3>1, Zenon
    <3> QED BY <3>2, <3>3, <3>4, Zenon
  <2>2. Window(g, l, a, d)
    BY <1>1, <1>2, <1>3, <1>5, <2>1, WindowMarked
  <2> QED BY <2>2, <1>9, ZenonT(60) DEF Marks
<1>10. CASE Reaps(q)
  <2>1. IsUsed(f[l.idx], l.wrap) /\ g = f
    <3>1. IsUsed(ring[q][l.idx].flags, l.wrap) /\ \A i \in Slots : ring'[q][i] = ring[q][i]
      BY <1>10, Zenon DEF Reaps, HasUsed
    <3>2. IsUsed(f[l.idx], l.wrap) /\ \A i \in Slots : g[i] = f[i]
      BY <1>1, <1>4, <3>1, ZenonT(60)
    <3> QED BY <1>2, <1>3, <3>2
  <2>2. Window(f, Ahead(l, 1), a, d) /\ (Held(f, l, d, c) => Held(f, Ahead(l, 1), d, c))
    BY <1>1, <1>2, <1>5, <2>1, WindowReaped, Zenon
  <2> QED BY <2>1, <2>2, <1>5, <1>10, ZenonT(60) DEF Reaps
<1> QED BY <1>6, <1>7, <1>8, <1>9, <1>10, Zenon

-----------------------------------------------------------------------------
(* Without a signal the transmit thread is in the first part of its loop,  *)
(* its event flags ask for a doorbell, and the driver has one to ring if   *)
(* there is a packet.                                                      *)
SignalInv ==
    ~tx_ioeventfd => /\ event["tx"] /\ tpc["tx"] \in {"off", "event", "poll"}
                     /\ unkicked \/ dev["tx"] = avail["tx"]

(* Every step keeps the signal.                                            *)
LEMMA SignalStep == TypeOK /\ SignalInv /\ [Next]_vars => SignalInv'
<1> SUFFICES ASSUME Typed, SignalInv, [Next]_vars PROVE SignalInv'
  BY Types, Zenon
<1> USE DEF Typed, SignalInv, Queues
<1>1. ASSUME NEW q \in Queues, EnableVq(q) PROVE SignalInv'
  BY <1>1, Zenon DEF EnableVq, driver
<1>2. CASE PostRx
  BY <1>2, Zenon DEF PostRx, Offer, device
<1>3. CASE Xmit
  BY <1>3, Zenon DEF Xmit, device
<1>4. CASE KickTx
  BY <1>4, Zenon DEF KickTx
<1>5. CASE IsrRead \/ IsrClear \/ ReapDone \/ Arrive
  BY <1>5, Zenon DEF IsrRead, IsrClear, ReapDone, Arrive, driver, device
<1>6. ASSUME NEW q \in Queues, Reap(q) PROVE SignalInv'
  BY <1>6, Zenon DEF Reap, device
<1>7. ASSUME NEW q \in Queues, SetEvent(q) \/ SetIsr(q) \/ Notify(q) \/ Used(q) PROVE SignalInv'
  BY <1>7, Zenon DEF SetEvent, SetIsr, Notify, Used, Goto, driver
<1>8. CASE PollRx \/ PollTx \/ PollTxAgain
  BY <1>8, Zenon DEF PollRx, PollTx, PollTxAgain, Goto, driver
<1>9. ASSUME NEW q \in Queues, NothingAvail(q) \/ TapFails(q) PROVE SignalInv'
  BY <1>9, Zenon DEF NothingAvail, TapFails, CanTake, Took, Goto, driver
<1>10. CASE RxPacket
  BY <1>10, Zenon DEF RxPacket, Took, Goto, driver
<1>11. CASE TxPacket
  BY <1>11, Zenon DEF TxPacket, CanTake, driver
<1>12. CASE UNCHANGED vars
  BY <1>12, Zenon DEF vars, driver, device
<1>13. "rx" \in Queues /\ "tx" \in Queues
  BY Zenon
<1> HIDE DEF Typed, SignalInv, Queues
<1> QED BY <1>1, <1>2, <1>3, <1>4, <1>5, <1>6, <1>7, <1>8, <1>9, <1>10, <1>11, <1>12, <1>13, ZenonT(60)
         DEF Next, GuestIrq, RxThread, TxThread

-----------------------------------------------------------------------------
(* The buffers a thread is done with or holds (G), those it has still to   *)
(* take (Wt), and how far from last_used each one is (O).                  *)
Hold(q) == IF tpc[q] = "used" THEN {cur[q]} ELSE {}
G(q, i) == Given(F(q), last_used[q], dev[q], Hold(q), i)
Wt(q, i) == Waiting(last_used[q], avail[q], dev[q], i)
O(q, i) == Off(last_used[q], i)

(* The types of one queue's positions and flags.                           *)
LEMMA QueueTypes ==
    ASSUME TypeOK, NEW q \in Queues
    PROVE  /\ last_used[q] \in Positions /\ avail[q] \in Positions /\ dev[q] \in Positions
           /\ cur[q] \in Slots /\ last_used[q].idx \in Slots /\ avail[q].idx \in Slots
           /\ dev[q].idx \in Slots /\ F(q) \in [Slots -> Flags]
           /\ \A i \in Slots : F(q)[i] = ring[q][i].flags /\ O(q, i) \in Int
<1>1. /\ last_used[q] \in Positions /\ avail[q] \in Positions /\ dev[q] \in Positions
      /\ cur[q] \in Slots
  BY Types, Zenon DEF Typed
<1>2. last_used[q].idx \in Slots /\ avail[q].idx \in Slots /\ dev[q].idx \in Slots
  BY <1>1, Zenon DEF Positions
<1>3. F(q) \in [Slots -> Flags] /\ \A i \in Slots : F(q)[i] = ring[q][i].flags
  BY Types DEF Typed, F, Buffers
<1>4. \A i \in Slots : O(q, i) \in Int
  BY <1>1, OffRange DEF O
<1> QED BY <1>1, <1>2, <1>3, <1>4, Zenon

(* Whatever happens to a queue, the buffers done with or held were so      *)
(* before, but for one just taken; those waiting were waiting, but for one *)
(* just offered; and they are in the same order.                           *)
Moved(q, i) ==
    /\ G(q, i)' => \/ G(q, i) /\ ring'[q][i].pkt = ring[q][i].pkt
                   \/ tpc[q] # "used" /\ tpc'[q] = "used" /\ i = dev[q].idx
    /\ Wt(q, i)' => \/ Wt(q, i) /\ ring'[q][i].pkt = ring[q][i].pkt
                    \/ avail'[q] # avail[q] /\ i = avail[q].idx
    /\ G(q, i)' \/ Wt(q, i)' =>
          O(q, i)' = O(q, i) - (IF last_used'[q] = last_used[q] THEN 0 ELSE 1)

(* Each of the five kinds of change moves the buffers in this way.         *)
LEMMA Moves ==
    ASSUME TypeOK, TypeOK', NEW q \in Queues, QueueInv(q),
           Same(q) \/ Offers(q) \/ Takes(q) \/ Marks(q) \/ Reaps(q), NEW i \in Slots
    PROVE  Moved(q, i)
<1> USE DEF Moved
<1> DEFINE f == F(q)  g == F(q)'  l == last_used[q]  a == avail[q]  d == dev[q]  c == cur[q]
           H == Hold(q)  K == Hold(q)'
<1>1. /\ l \in Positions /\ a \in Positions /\ d \in Positions /\ c \in Slots
      /\ l.idx \in Slots /\ a.idx \in Slots /\ d.idx \in Slots /\ f \in [Slots -> Flags]
      /\ \A j \in Slots : f[j] = ring[q][j].flags
  BY QueueTypes, Zenon
<1>2. g \in [Slots -> Flags] /\ \A j \in Slots : g[j] = ring'[q][j].flags
  BY Types DEF Typed, F, Buffers
<1>3. Window(f, l, a, d)
  BY Zenon DEF QueueInv
<1>4. /\ H = IF tpc[q] = "used" THEN {c} ELSE {}
      /\ K = IF tpc'[q] = "used" THEN {cur'[q]} ELSE {}
  BY Zenon DEF Hold
<1>5. /\ G(q, i) <=> Given(f, l, d, H, i)
      /\ G(q, i)' <=> Given(g, last_used'[q], dev'[q], K, i)
      /\ Wt(q, i) <=> Waiting(l, a, d, i)
      /\ Wt(q, i)' <=> Waiting(last_used'[q], avail'[q], dev'[q], i)
      /\ O(q, i) = Off(l, i) /\ O(q, i)' = Off(last_used'[q], i)
  BY Zenon DEF G, Wt, O
<1>6. Off(l, i) \in Int /\ Off(l, i) = Off(l, i) - 0
  BY <1>1, OffRange, SMTT(60)
<1> HIDE DEF f, g, l, a, d, c, H, K
<1>f. \A j \in Slots : ring'[q][j] = ring[q][j] => g[j] = f[j]
  BY <1>1, <1>2, ZenonT(60)
<1>e. (\A j \in Slots : g[j] = f[j]) => g = f
  BY <1>1, <1>2
<1>7. CASE Same(q)
  <2>1. g = f
    <3>1. \A j \in Slots : ring'[q][j] = ring[q][j]
      BY <1>7, Zenon DEF Same
    <3> QED BY <1>e, <1>f, <3>1, Zenon
  <2>2. K = H \/ K = {}
    BY <1>4, <1>7, Zenon DEF Same, l, a, d, c
  <2>3. ring'[q][i].pkt = ring[q][i].pkt /\ last_used'[q] = l /\ avail'[q] = a /\ dev'[q] = d
    BY <1>7, Zenon DEF Same, l, a, d, c
  <2>4. Given(g, l, d, K, i) => Given(f, l, d, H, i)
    BY <2>1, <2>2, ZenonT(60) DEF Given
  <2> QED BY <1>5, <1>6, <2>3, <2>4, Zenon DEF l, a, d
<1>8. CASE Offers(q)
  <2>1. Dist(l, a) < QSize /\ \A j \in Slots : j # a.idx => g[j] = f[j]
    <3>1. Dist(l, a) < QSize /\ \A j \in Slots : j # a.idx => ring'[q][j] = ring[q][j]
      BY <1>8, Zenon DEF Offers, l, a
    <3> QED BY <1>f, <3>1, Zenon
  <2>2. K = H /\ last_used'[q] = l /\ dev'[q] = d /\ avail'[q] = Ahead(a, 1) /\ avail'[q] # a
    BY <1>1, <1>4, <1>8, AheadIsElsewhere, Zenon DEF Offers, l, a, d, c
  <2>3. i # a.idx => ring'[q][i].pkt = ring[q][i].pkt
    BY <1>8, ZenonT(60) DEF Offers, l, a, d, c
  <2>4. /\ Given(g, l, d, H, i) => Given(f, l, d, H, i) /\ i # a.idx
        /\ Waiting(l, Ahead(a, 1), d, i) => i = a.idx \/ Waiting(l, a, d, i)
    BY <1>1, <1>2, <1>3, <2>1, GivenOffered, WaitingOffered, SMTT(60)
  <2> QED BY <1>5, <1>6, <2>2, <2>3, <2>4, Zenon DEF l, a, d
<1>9. CASE Takes(q)
  <2>1. IsAvail(f[d.idx], d.wrap) /\ tpc[q] = "take"
    BY <1>1, <1>9, Zenon DEF Takes, l, a, d, c
  <2>2. g = f
    BY <1>1, <1>2, <1>9, <1>e, Zenon DEF Takes
  <2>3. H = {} /\ (\A x \in K : x = d.idx) /\ (K # {} => tpc'[q] = "used")
    BY <1>4, <1>9, <2>1, ZenonT(60) DEF Takes, l, a, d, c
  <2>4. last_used'[q] = l /\ avail'[q] = a /\ dev'[q] = Ahead(d, 1)
          /\ (i # d.idx => ring'[q][i].pkt = ring[q][i].pkt)
    BY <1>9, Zenon DEF Takes, l, a, d, c
  <2>5. /\ Given(f, l, Ahead(d, 1), K, i) => Given(f, l, d, {}, i) \/ (i = d.idx /\ i \in K)
        /\ Given(f, l, d, {}, i) => i # d.idx
        /\ Waiting(l, a, Ahead(d, 1), i) => Waiting(l, a, d, i) /\ Off(l, d.idx) < Off(l, i)
    <3>1. \A x \in K : x = d.idx
      BY <2>3, Zenon
    <3>2. IsAvail(f[d.idx], d.wrap)
      BY <2>1, Zenon
    <3> QED BY <1>1, <1>3, <3>1, <3>2, GivenTaken, WaitingTaken, ZenonT(60)
  <2>6. Off(l, d.idx) < Off(l, i) => i # d.idx
    BY <1>1, <1>6, OffRange
  <2> QED BY <1>5, <1>6, <2>1, <2>2, <2>3, <2>4, <2>5, <2>6, Zenon DEF l, a, d
<1>10. CASE Marks(q)
  <2>1. H = {c} /\ K = {} /\ \A j \in Slots : j # c => g[j] = f[j]
    <3>1. H = {c} /\ K = {}
      BY <1>4, <1>10, Zenon DEF Marks
    <3>2. \A j \in Slots : j # c => ring'[q][j] = ring[q][j]
      BY <1>10, Zenon DEF Marks, c
    <3>3. \A j \in Slots : j # c => g[j] = f[j]
      BY <1>f, <3>2, Zenon
    <3> QED BY <3>1, <3>3, Zenon
  <2>2. ring'[q][i].pkt = ring[q][i].pkt /\ last_used'[q] = l /\ avail'[q] = a /\ dev'[q] = d
    BY <1>10, Zenon DEF Marks, l, a, d, c
  <2>3. Given(g, l, d, K, i) => Given(f, l, d, H, i)
    BY <1>1, <1>2, <2>1, GivenMarked, Zenon
  <2> QED BY <1>5, <1>6, <2>2, <2>3, Zenon DEF l, a, d
<1>11. CASE Reaps(q)
  <2>1. g = f /\ IsUsed(f[l.idx], l.wrap)
    <3>1. IsUsed(ring[q][l.idx].flags, l.wrap) /\ \A j \in Slots : ring'[q][j] = ring[q][j]
      BY <1>11, Zenon DEF Reaps, HasUsed, l
    <3> QED BY <1>1, <1>2, <1>e, <3>1, ZenonT(60)
  <2>2. K = H /\ last_used'[q] = Ahead(l, 1) /\ last_used'[q] # l /\ avail'[q] = a /\ dev'[q] = d
    BY <1>1, <1>4, <1>11, AheadIsElsewhere, Zenon DEF Reaps, l, a, d, c
  <2>3. ring'[q][i].pkt = ring[q][i].pkt
    BY <1>11, ZenonT(60) DEF Reaps, l, a, d, c
  <2>4. /\ Given(f, Ahead(l, 1), d, H, i) => Given(f, l, d, H, i) /\ Off(Ahead(l, 1), i) = Off(l, i) - 1
        /\ Waiting(Ahead(l, 1), a, d, i) => Waiting(l, a, d, i) /\ Off(Ahead(l, 1), i) = Off(l, i) - 1
    <3>1. IsUsed(f[l.idx], l.wrap)
      BY <2>1, Zenon
    <3> QED BY <1>1, <1>3, <3>1, GivenReaped, WaitingReaped, SMTT(60)
  <2> QED BY <1>5, <2>1, <2>2, <2>3, <2>4, Zenon DEF l, a, d
<1> QED BY <1>7, <1>8, <1>9, <1>10, <1>11, Zenon

-----------------------------------------------------------------------------
(* What moves a packet: five actions, and all others leave alone the tap,  *)
(* what the driver has got and given, and begin no transfer.               *)
Quiet ==
    /\ UNCHANGED <<arrived, tap_in, tap_out, got, xmit>>
    /\ avail'["tx"] = avail["tx"]
    /\ \A q \in Queues : tpc'[q] = "used" => tpc[q] = "used"

(* Every step is one of the five or quiet.                                 *)
LEMMA Effects ==
    ASSUME TypeOK, [Next]_vars
    PROVE  Quiet \/ RxPacket \/ TxPacket \/ Arrive \/ Xmit \/ Reap("rx")
<1>0. Typed
  BY Types, Zenon
<1> USE <1>0 DEF Typed, Queues
<1>1. ASSUME NEW q \in Queues, EnableVq(q) PROVE Quiet
  BY <1>1, Zenon DEF EnableVq, driver, tap, Quiet
<1>2. CASE PostRx
  BY <1>2, Zenon DEF PostRx, Offer, device, tap, Quiet
<1>3. CASE KickTx \/ IsrRead \/ IsrClear \/ ReapDone \/ Reap("tx")
  BY <1>3, ZenonT(60) DEF KickTx, IsrRead, IsrClear, ReapDone, Reap, device, tap, Quiet
<1>4. ASSUME NEW q \in Queues, SetEvent(q) \/ SetIsr(q) \/ Notify(q) \/ Used(q) PROVE Quiet
  BY <1>4, Zenon DEF SetEvent, SetIsr, Notify, Used, Goto, driver, tap, Quiet
<1>5. CASE PollRx \/ PollTx \/ PollTxAgain
  BY <1>5, Zenon DEF PollRx, PollTx, PollTxAgain, Goto, driver, tap, Quiet
<1>6. ASSUME NEW q \in Queues, NothingAvail(q) \/ TapFails(q) PROVE Quiet
  BY <1>6, Zenon DEF NothingAvail, TapFails, Goto, driver, tap, Quiet
<1>7. CASE UNCHANGED vars
  BY <1>7, Zenon DEF vars, driver, device, tap, Quiet
<1>8. "rx" \in Queues /\ "tx" \in Queues /\ \A q \in Queues : q = "rx" \/ q = "tx"
  BY Zenon
<1> HIDE <1>0 DEF Typed, Queues
<1>9. CASE GuestIrq
  BY <1>3, <1>8, <1>9, Zenon DEF GuestIrq
<1> QED BY <1>1, <1>2, <1>3, <1>4, <1>5, <1>6, <1>7, <1>8, <1>9, ZenonT(60)
         DEF Next, RxThread, TxThread

-----------------------------------------------------------------------------
(* A buffer the thread is done with or holds has been through the tap.     *)
Done(q, i) ==
    IF q = "tx" THEN \E k \in DOMAIN tap_out : tap_out[k] = ring["tx"][i].pkt
                ELSE ring["rx"][i].pkt # 0

DoneInv == \A q \in Queues, i \in Slots : G(q, i) => Done(q, i)

(* Every step keeps that: a thread marks a buffer only after the transfer. *)
LEMMA DoneStep ==
    ASSUME TypeOK, TypeOK', TapTypes, [Next]_vars, DoneInv, \A q \in Queues : QueueInv(q)
    PROVE  DoneInv'
<1>1. \A k \in DOMAIN tap_out : k \in DOMAIN tap_out' /\ tap_out'[k] = tap_out[k]
  <2>1. CASE TxPacket
    <3>1. tap_out' = Append(tap_out, Here("tx").pkt) /\ tap_out \in Seq(Nat)
      BY <2>1, Zenon DEF TxPacket, TapTypes
    <3>2. Here("tx").pkt \in Nat
      BY QueueTypes, Types, SMTT(60) DEF Here, Typed, Buffers, Queues
    <3> QED BY <3>1, <3>2, SMTT(60)
  <2>2. CASE Quiet \/ RxPacket \/ Arrive \/ Xmit \/ Reap("rx")
    BY <2>2, Zenon DEF Quiet, RxPacket, Arrive, Xmit, Reap, tap
  <2> QED BY <2>1, <2>2, Effects, Zenon
<1>2. ASSUME NEW q \in Queues, tpc[q] # "used", tpc'[q] = "used", NEW i \in Slots, i = dev[q].idx
      PROVE  Done(q, i)'
  <2>0. tpc \in [Queues -> Pcs] /\ ring \in [Queues -> [Slots -> Buffers]]
    BY Types, Zenon DEF Typed
  <2>1. CASE Quiet \/ Arrive \/ Xmit \/ Reap("rx")
    BY <1>2, <2>1, Zenon DEF Quiet, Arrive, Xmit, Reap, device
  <2>2. CASE RxPacket
    <3>1. q = "rx"
      BY <1>2, <2>0, <2>2, Zenon DEF RxPacket, Goto, Queues
    <3>2. ring' = [ring EXCEPT !["rx"][i].pkt = Head(tap_in)] /\ tap_in # <<>>
      BY <1>2, <2>2, <3>1, Zenon DEF RxPacket
    <3>3. ring'["rx"][i].pkt = Head(tap_in)
      BY <2>0, <3>2, Zenon DEF Queues, Buffers
    <3>4. Head(tap_in) # 0
      BY <3>2 DEF TapTypes
    <3> QED BY <3>1, <3>3, <3>4, Zenon DEF Done
  <2>3. CASE TxPacket
    <3>1. q = "tx"
      BY <1>2, <2>0, <2>3, Zenon DEF TxPacket, Goto, Queues
    <3>2. tap_out' = Append(tap_out, ring["tx"][i].pkt) /\ tap_out \in Seq(Nat) /\ ring' = ring
      BY <1>2, <2>3, <3>1, Zenon DEF TxPacket, Here, TapTypes
    <3>3. ring["tx"][i].pkt \in Nat
      BY <2>0 DEF Queues, Buffers
    <3>4. Len(tap_out) + 1 \in DOMAIN tap_out' /\ tap_out'[Len(tap_out) + 1] = ring'["tx"][i].pkt
      BY <3>2, <3>3, SMTT(60)
    <3> QED BY <3>1, <3>4, Zenon DEF Done
  <2> QED BY <2>1, <2>2, <2>3, Effects, Zenon
<1>3. ASSUME NEW q \in Queues, NEW i \in Slots, Done(q, i), ring'[q][i].pkt = ring[q][i].pkt
      PROVE  Done(q, i)'
  BY <1>1, <1>3, Zenon DEF Done, Queues
<1>4. ASSUME NEW q \in Queues, NEW i \in Slots, G(q, i)' PROVE Done(q, i)'
  <2>1. \/ G(q, i) /\ ring'[q][i].pkt = ring[q][i].pkt
        \/ tpc[q] # "used" /\ tpc'[q] = "used" /\ i = dev[q].idx
    BY <1>4, Moves, Shape, Zenon DEF Moved
  <2> QED BY <2>1, <1>2, <1>3, Zenon DEF DoneInv
<1> QED BY <1>4, Zenon DEF DoneInv

-----------------------------------------------------------------------------
(* A number larger than all in an increasing sequence goes at its end.     *)
LEMMA AppendInOrder ==
    ASSUME NEW t \in Seq(Nat), NEW x \in Nat, Increasing(t), \A k \in DOMAIN t : t[k] < x
    PROVE  Increasing(Append(t, x))
BY DEF Increasing

(* The elements of a sequence with one appended.                           *)
LEMMA AppendElements ==
    ASSUME NEW t \in Seq(Nat), NEW x \in Nat, NEW k \in DOMAIN Append(t, x)
    PROVE  (k \in DOMAIN t /\ Append(t, x)[k] = t[k]) \/ Append(t, x)[k] = x
OBVIOUS

(* The rest of an increasing sequence is increasing, and above its head.   *)
LEMMA TailInOrder ==
    ASSUME NEW t \in Seq(Nat), t # <<>>, Increasing(t)
    PROVE  /\ Increasing(Tail(t)) /\ Tail(t) \in Seq(Nat) /\ 1 \in DOMAIN t /\ Head(t) = t[1]
           /\ \A k \in DOMAIN Tail(t) : /\ k + 1 \in DOMAIN t /\ Tail(t)[k] = t[k + 1]
                                        /\ Head(t) < Tail(t)[k]
BY SMTT(60) DEF Increasing

Pkt(q, i) == ring[q][i].pkt

(* Out: the packets still to be taken follow those sent, in the order the  *)
(* driver made them.                                                       *)
TxOrder ==
    /\ Increasing(tap_out) /\ \A k \in DOMAIN tap_out : tap_out[k] <= xmit
    /\ \A i \in Slots : Wt("tx", i) => /\ Pkt("tx", i) <= xmit
                                       /\ \A k \in DOMAIN tap_out : tap_out[k] < Pkt("tx", i)
    /\ \A i, j \in Slots : Wt("tx", i) /\ Wt("tx", j) /\ O("tx", i) < O("tx", j) =>
                             Pkt("tx", i) < Pkt("tx", j)

(* Every step keeps the order of the packets to be sent.                   *)
LEMMA TxStep ==
    ASSUME TypeOK, TypeOK', TapTypes, [Next]_vars, TxOrder, QueueInv("tx")
    PROVE  TxOrder'
<1>0. /\ "tx" \in Queues /\ ring \in [Queues -> [Slots -> Buffers]] /\ xmit \in Nat
      /\ tap_out \in Seq(Nat) /\ \A k \in DOMAIN tap_out : tap_out[k] \in Nat
  BY Types, SMTT(60) DEF Typed, Queues, TapTypes
<1>p. \A i \in Slots : Pkt("tx", i) \in Nat /\ O("tx", i) \in Int
  BY <1>0, QueueTypes DEF Pkt, Buffers
<1>1. ASSUME NEW i \in Slots
      PROVE  /\ Wt("tx", i)' => \/ Wt("tx", i) /\ Pkt("tx", i)' = Pkt("tx", i)
                                \/ avail'["tx"] # avail["tx"] /\ i = avail["tx"].idx
             /\ Wt("tx", i)' => O("tx", i)' = O("tx", i)
                                 - (IF last_used'["tx"] = last_used["tx"] THEN 0 ELSE 1)
  <2>1. /\ Wt("tx", i)' => \/ Wt("tx", i) /\ ring'["tx"][i].pkt = ring["tx"][i].pkt
                           \/ avail'["tx"] # avail["tx"] /\ i = avail["tx"].idx
        /\ G("tx", i)' \/ Wt("tx", i)' => O("tx", i)' = O("tx", i)
                                 - (IF last_used'["tx"] = last_used["tx"] THEN 0 ELSE 1)
    <3>1. Same("tx") \/ Offers("tx") \/ Takes("tx") \/ Marks("tx") \/ Reaps("tx")
      BY <1>0, Shape, Zenon
    <3>2. Moved("tx", i)
      BY <1>0, <3>1, Moves, Zenon
    <3> QED BY <3>2, Zenon DEF Moved
  <2> QED BY <2>1, Zenon DEF Pkt
<1>2. ASSUME NEW i \in Slots, NEW j \in Slots, Wt("tx", i)', Wt("tx", j)', O("tx", i)' < O("tx", j)'
      PROVE  O("tx", i) < O("tx", j)
  BY <1>1, <1>2, <1>p, SMTT(60)
<1>3. ASSUME UNCHANGED <<tap_out, xmit>>, avail'["tx"] = avail["tx"] PROVE TxOrder'
  <2>1. \A i \in Slots : Wt("tx", i)' => Wt("tx", i) /\ Pkt("tx", i)' = Pkt("tx", i)
    BY <1>1, <1>3, Zenon
  <2> QED BY <1>2, <1>3, <2>1, Zenon DEF TxOrder, Increasing
<1>4. CASE Xmit
  <2> DEFINE a == avail["tx"].idx
  <2>1. Offer("tx", xmit + 1) /\ UNCHANGED <<tap_out, last_used, dev>> /\ xmit' = xmit + 1
    BY <1>4, Zenon DEF Xmit, device, tap
  <2>2. a \in Slots /\ Dist(last_used["tx"], avail["tx"]) < QSize
          /\ \A i \in Slots : i = a => Pkt("tx", i)' = xmit + 1
    <3>1. a \in Slots
      BY <1>0, QueueTypes, Zenon
    <3>2. ring' = [ring EXCEPT !["tx"][a] =
                     [flags |-> AvailFlags(avail["tx"].wrap, FALSE), pkt |-> xmit + 1]]
      BY <2>1, Zenon DEF Offer
    <3>3. ring'["tx"][a].pkt = xmit + 1
      BY <1>0, <3>1, <3>2, Zenon
    <3> QED BY <2>1, <3>1, <3>3, Zenon DEF Offer, Pkt
  <2>3. ASSUME NEW i \in Slots, Wt("tx", i) PROVE O("tx", i) < O("tx", a) /\ i # a
    <3> DEFINE f == F("tx")  l == last_used["tx"]  p == avail["tx"]  d == dev["tx"]
    <3>1. f \in [Slots -> Flags] /\ l \in Positions /\ p \in Positions /\ d \in Positions
      BY <1>0, QueueTypes, Zenon
    <3>2. Window(f, l, p, d) /\ Dist(l, p) < QSize /\ Waiting(l, p, d, i)
      BY <2>2, <2>3, Zenon DEF QueueInv, Wt
    <3> HIDE DEF f, l, p, d
    <3>3. Off(l, i) < Off(l, p.idx) /\ i # p.idx
      BY <3>1, <3>2, WaitingOffered, Zenon
    <3> QED BY <3>3, Zenon DEF O, l, p
  <2> HIDE DEF a
  <2>4. \A i \in Slots : Wt("tx", i)' => i = a \/ (Wt("tx", i) /\ Pkt("tx", i)' = Pkt("tx", i))
    BY <1>1, Zenon DEF a
  <2>5. Increasing(tap_out') /\ \A k \in DOMAIN tap_out' : tap_out'[k] <= xmit'
    BY <1>0, <2>1, SMTT(60) DEF TxOrder, Increasing
  <2>6. ASSUME NEW i \in Slots, Wt("tx", i)'
        PROVE  Pkt("tx", i)' <= xmit' /\ \A k \in DOMAIN tap_out' : tap_out'[k] < Pkt("tx", i)'
    <3>1. CASE i = a
      BY <1>0, <2>1, <2>2, <3>1, SMTT(60) DEF TxOrder
    <3>2. CASE Wt("tx", i) /\ Pkt("tx", i)' = Pkt("tx", i)
      BY <1>0, <1>p, <2>1, <3>2, SMTT(60) DEF TxOrder
    <3> QED BY <2>4, <2>6, <3>1, <3>2, Zenon
  <2>7. ASSUME NEW i \in Slots, NEW j \in Slots, Wt("tx", i)', Wt("tx", j)', O("tx", i)' < O("tx", j)'
        PROVE  Pkt("tx", i)' < Pkt("tx", j)'
    <3>1. O("tx", i) < O("tx", j)
      BY <1>2, <2>7, Zenon
    <3>2. i # a
      BY <1>p, <2>2, <2>3, <2>4, <2>7, <3>1, SMTT(60)
    <3>3. Wt("tx", i) /\ Pkt("tx", i)' = Pkt("tx", i) /\ Pkt("tx", i) <= xmit
      BY <2>4, <2>7, <3>2, Zenon DEF TxOrder
    <3>4. CASE j = a
      BY <1>0, <1>p, <2>2, <3>3, <3>4, SMTT(60)
    <3>5. CASE Wt("tx", j) /\ Pkt("tx", j)' = Pkt("tx", j)
      BY <3>1, <3>3, <3>5, Zenon DEF TxOrder
    <3> QED BY <2>4, <2>7, <3>4, <3>5, Zenon
  <2> QED BY <2>5, <2>6, <2>7, Zenon DEF TxOrder
<1>5. CASE TxPacket
  <2> DEFINE c == dev["tx"].idx
  <2>1. /\ tap_out' = Append(tap_out, Pkt("tx", c)) /\ CanTake("tx") /\ Took("tx")
        /\ UNCHANGED <<xmit, avail, last_used>> /\ c \in Slots
    <3>1. c \in Slots
      BY <1>0, QueueTypes, Zenon
    <3> QED BY <1>5, <3>1, Zenon DEF TxPacket, driver, Here, Pkt
  <2>2. Wt("tx", c) /\ \A i \in Slots : Wt("tx", i)' => O("tx", c) < O("tx", i)
    <3> DEFINE f == F("tx")  l == last_used["tx"]  p == avail["tx"]  d == dev["tx"]
    <3>1. /\ f \in [Slots -> Flags] /\ l \in Positions /\ p \in Positions /\ d \in Positions
          /\ d.idx \in Slots /\ f[d.idx] = ring["tx"][d.idx].flags
      BY <1>0, QueueTypes, Zenon
    <3>2. Window(f, l, p, d)
      BY Zenon DEF QueueInv
    <3>3. IsAvail(f[d.idx], d.wrap)
      BY <2>1, <3>1, ZenonT(60) DEF CanTake, Here
    <3>4. dev'["tx"] = Ahead(d, 1)
      BY <1>0, <2>1, <3>1, StepIsAhead, Types, Zenon DEF Took, Typed
    <3>5. \A i \in Slots : Wt("tx", i)' <=> Waiting(l, p, Ahead(d, 1), i)
      BY <2>1, <3>4, Zenon DEF Wt
    <3>6. (Wt("tx", c) <=> Waiting(l, p, d, d.idx)) /\ \A i \in Slots : O("tx", i) = Off(l, i)
      BY Zenon DEF Wt, O
    <3> HIDE DEF f, l, p, d
    <3>7. ASSUME NEW i \in Slots
          PROVE  /\ Waiting(l, p, Ahead(d, 1), i) => Off(l, d.idx) < Off(l, i)
                 /\ Waiting(l, p, d, d.idx)
      BY <3>1, <3>2, <3>3, WaitingTaken, ZenonT(60)
    <3> QED BY <2>1, <3>5, <3>6, <3>7, ZenonT(60) DEF d
  <2> HIDE DEF c
  <2>3. \A i \in Slots : Wt("tx", i)' =>
            Wt("tx", i) /\ Pkt("tx", i)' = Pkt("tx", i) /\ Pkt("tx", c) < Pkt("tx", i)
    BY <1>1, <2>1, <2>2, Zenon DEF TxOrder
  <2>4. Pkt("tx", c) \in Nat /\ Pkt("tx", c) <= xmit /\ \A k \in DOMAIN tap_out : tap_out[k] < Pkt("tx", c)
    BY <1>p, <2>1, <2>2, Zenon DEF TxOrder
  <2>5. Increasing(tap_out')
    BY <1>0, <2>1, <2>4, AppendInOrder, Zenon DEF TxOrder
  <2>6. ASSUME NEW k \in DOMAIN tap_out'
        PROVE  (k \in DOMAIN tap_out /\ tap_out'[k] = tap_out[k]) \/ tap_out'[k] = Pkt("tx", c)
    BY <1>0, <2>1, <2>4, AppendElements, Zenon
  <2>7. \A k \in DOMAIN tap_out' : tap_out'[k] <= xmit'
    BY <2>1, <2>4, <2>6, Zenon DEF TxOrder
  <2>8. ASSUME NEW i \in Slots, Wt("tx", i)'
        PROVE  Pkt("tx", i)' <= xmit' /\ \A k \in DOMAIN tap_out' : tap_out'[k] < Pkt("tx", i)'
    BY <2>1, <2>3, <2>6, <2>8, Zenon DEF TxOrder
  <2>9. ASSUME NEW i \in Slots, NEW j \in Slots, Wt("tx", i)', Wt("tx", j)', O("tx", i)' < O("tx", j)'
        PROVE  Pkt("tx", i)' < Pkt("tx", j)'
    BY <1>2, <2>3, <2>9, Zenon DEF TxOrder
  <2> QED BY <2>5, <2>7, <2>8, <2>9, Zenon DEF TxOrder
<1>6. CASE Quiet \/ RxPacket \/ Arrive \/ Reap("rx")
  <2>1. UNCHANGED <<tap_out, xmit>> /\ avail'["tx"] = avail["tx"]
    BY <1>6, Zenon DEF Quiet, RxPacket, Arrive, Reap, driver, tap
  <2> QED BY <2>1, <1>3, ZenonT(60)
<1> QED BY <1>4, <1>5, <1>6, Effects, Zenon

(* In: what the driver has got comes before what is in the buffers given   *)
(* back or held, that before what waits on the tap, each in order.         *)
RxOrder ==
    /\ Increasing(got) /\ Increasing(tap_in)
    /\ \A k \in DOMAIN got : got[k] <= arrived /\ \A m \in DOMAIN tap_in : got[k] < tap_in[m]
    /\ \A i \in Slots : G("rx", i) => /\ Pkt("rx", i) <= arrived
                                      /\ \A k \in DOMAIN got : got[k] < Pkt("rx", i)
                                      /\ \A m \in DOMAIN tap_in : Pkt("rx", i) < tap_in[m]
    /\ \A i, j \in Slots : G("rx", i) /\ G("rx", j) /\ O("rx", i) < O("rx", j) =>
                             Pkt("rx", i) < Pkt("rx", j)

(* Every step keeps the order of the packets received.                     *)
LEMMA RxStep ==
    ASSUME TypeOK, TypeOK', TapTypes, [Next]_vars, RxOrder, QueueInv("rx")
    PROVE  RxOrder'
<1>0. /\ "rx" \in Queues /\ ring \in [Queues -> [Slots -> Buffers]] /\ arrived \in Nat
      /\ tpc \in [Queues -> Pcs]
      /\ got \in Seq(Nat) /\ \A k \in DOMAIN got : got[k] \in Nat
      /\ tap_in \in Seq(Nat) /\ \A m \in DOMAIN tap_in : tap_in[m] \in Nat /\ tap_in[m] <= arrived
  BY Types, SMTT(60) DEF Typed, Queues, TapTypes
<1>p. \A i \in Slots : Pkt("rx", i) \in Nat /\ O("rx", i) \in Int
  BY <1>0, QueueTypes DEF Pkt, Buffers
<1>1. ASSUME NEW i \in Slots
      PROVE  /\ G("rx", i)' => \/ G("rx", i) /\ Pkt("rx", i)' = Pkt("rx", i)
                               \/ tpc["rx"] # "used" /\ tpc'["rx"] = "used" /\ i = dev["rx"].idx
             /\ G("rx", i)' => O("rx", i)' = O("rx", i)
                                 - (IF last_used'["rx"] = last_used["rx"] THEN 0 ELSE 1)
  <2>1. Same("rx") \/ Offers("rx") \/ Takes("rx") \/ Marks("rx") \/ Reaps("rx")
    BY <1>0, Shape, Zenon
  <2>2. Moved("rx", i)
    BY <1>0, <2>1, Moves, Zenon
  <2> QED BY <2>2, Zenon DEF Moved, Pkt
<1>2. ASSUME NEW i \in Slots, NEW j \in Slots, G("rx", i)', G("rx", j)', O("rx", i)' < O("rx", j)'
      PROVE  O("rx", i) < O("rx", j)
  BY <1>1, <1>2, <1>p
<1>3. ASSUME tpc'["rx"] = "used" => tpc["rx"] = "used"
      PROVE  \A i \in Slots : G("rx", i)' => G("rx", i) /\ Pkt("rx", i)' = Pkt("rx", i)
  BY <1>1, <1>3, Zenon
<1>4. CASE Quiet \/ TxPacket \/ Xmit
  <2>1. UNCHANGED <<got, tap_in, arrived>> /\ (tpc'["rx"] = "used" => tpc["rx"] = "used")
    BY <1>0, <1>4, Zenon DEF Quiet, TxPacket, Xmit, Goto, driver, device, tap
  <2>2. \A i \in Slots : G("rx", i)' => G("rx", i) /\ Pkt("rx", i)' = Pkt("rx", i)
    BY <1>3, <2>1, Zenon
  <2> QED BY <1>2, <2>1, <2>2, Zenon DEF RxOrder, Increasing
<1>5. CASE Arrive
  <2>1. /\ got' = got /\ tap_in' = Append(tap_in, arrived + 1) /\ arrived' = arrived + 1
        /\ tpc' = tpc
    BY <1>5, Zenon DEF Arrive, driver, device
  <2>2. \A i \in Slots : G("rx", i)' => G("rx", i) /\ Pkt("rx", i)' = Pkt("rx", i)
    BY <1>3, <2>1, Zenon
  <2>3. Increasing(got') /\ Increasing(tap_in')
    BY <1>0, <2>1, AppendInOrder, SMTT(60) DEF RxOrder
  <2>4. \A m \in DOMAIN tap_in' : (m \in DOMAIN tap_in /\ tap_in'[m] = tap_in[m])
                                  \/ tap_in'[m] = arrived + 1
    BY <1>0, <2>1, AppendElements, SMTT(60)
  <2>5. \A k \in DOMAIN got' : got'[k] <= arrived' /\ \A m \in DOMAIN tap_in' : got'[k] < tap_in'[m]
    BY <1>0, <2>1, <2>4, SMTT(60) DEF RxOrder
  <2>6. ASSUME NEW i \in Slots, G("rx", i)'
        PROVE  /\ Pkt("rx", i)' <= arrived'
               /\ \A k \in DOMAIN got' : got'[k] < Pkt("rx", i)'
               /\ \A m \in DOMAIN tap_in' : Pkt("rx", i)' < tap_in'[m]
    BY <1>0, <1>p, <2>1, <2>2, <2>4, <2>6, SMTT(60) DEF RxOrder
  <2>7. ASSUME NEW i \in Slots, NEW j \in Slots, G("rx", i)', G("rx", j)', O("rx", i)' < O("rx", j)'
        PROVE  Pkt("rx", i)' < Pkt("rx", j)'
    BY <1>2, <2>2, <2>7, Zenon DEF RxOrder
  <2> QED BY <2>3, <2>5, <2>6, <2>7, Zenon DEF RxOrder
<1>6. CASE RxPacket
  <2> DEFINE c == dev["rx"].idx
  <2>1. /\ tap_in # <<>> /\ tap_in' = Tail(tap_in) /\ got' = got /\ arrived' = arrived
        /\ CanTake("rx") /\ ring' = [ring EXCEPT !["rx"][c].pkt = Head(tap_in)]
    BY <1>6, Zenon DEF RxPacket, driver
  <2>2. c \in Slots /\ \A i \in Slots : i = c => Pkt("rx", i)' = Head(tap_in)
    <3>1. c \in Slots
      BY <1>0, QueueTypes, Zenon
    <3>2. ring'["rx"][c].pkt = Head(tap_in)
      BY <1>0, <2>1, <3>1, SMTT(60) DEF Buffers
    <3> QED BY <3>1, <3>2, Zenon DEF Pkt
  <2>3. ASSUME NEW i \in Slots, G("rx", i) PROVE O("rx", i) < O("rx", c)
    <3> DEFINE f == F("rx")  l == last_used["rx"]  p == avail["rx"]  d == dev["rx"]
    <3>1. /\ f \in [Slots -> Flags] /\ l \in Positions /\ p \in Positions /\ d \in Positions
          /\ d.idx \in Slots /\ f[d.idx] = ring["rx"][d.idx].flags
      BY <1>0, QueueTypes, Zenon
    <3>2. Window(f, l, p, d)
      BY ZenonT(60) DEF QueueInv
    <3>3. IsAvail(f[d.idx], d.wrap) /\ Hold("rx") = {}
      BY <2>1, <3>1, Zenon DEF CanTake, Here, Hold
    <3>4. Given(f, l, d, {}, i)
      BY <2>3, <3>3, Zenon DEF G
    <3>5. O("rx", i) = Off(l, i) /\ O("rx", c) = Off(l, d.idx)
      BY Zenon DEF O
    <3> HIDE DEF f, l, p, d, c
    <3>6. \A x \in {} : x = d.idx
      BY Zenon
    <3>7. Off(l, i) < Off(l, d.idx)
      BY <3>1, <3>2, <3>3, <3>4, <3>6, GivenTaken, ZenonT(60)
    <3> QED BY <3>5, <3>7, Zenon
  <2> HIDE DEF c
  <2>4. /\ Increasing(Tail(tap_in)) /\ 1 \in DOMAIN tap_in /\ Head(tap_in) = tap_in[1]
        /\ \A m \in DOMAIN Tail(tap_in) : /\ m + 1 \in DOMAIN tap_in /\ Tail(tap_in)[m] = tap_in[m + 1]
                                          /\ Head(tap_in) < Tail(tap_in)[m]
    BY <1>0, <2>1, TailInOrder, Zenon DEF RxOrder
  <2>5. \A i \in Slots : G("rx", i)' => i = c \/ (G("rx", i) /\ Pkt("rx", i)' = Pkt("rx", i))
    BY <1>1, Zenon DEF c
  <2>6. \A k \in DOMAIN got' : got'[k] <= arrived' /\ \A m \in DOMAIN tap_in' : got'[k] < tap_in'[m]
    BY <2>1, <2>4, Zenon DEF RxOrder
  <2>7. ASSUME NEW i \in Slots, G("rx", i)'
        PROVE  /\ Pkt("rx", i)' <= arrived'
               /\ \A k \in DOMAIN got' : got'[k] < Pkt("rx", i)'
               /\ \A m \in DOMAIN tap_in' : Pkt("rx", i)' < tap_in'[m]
    <3>1. CASE i = c
      BY <1>0, <2>1, <2>2, <2>4, <3>1, ZenonT(60) DEF RxOrder
    <3>2. CASE G("rx", i) /\ Pkt("rx", i)' = Pkt("rx", i)
      BY <2>1, <2>4, <3>2, Zenon DEF RxOrder
    <3> QED BY <2>5, <2>7, <3>1, <3>2, Zenon
  <2>8. ASSUME NEW i \in Slots, NEW j \in Slots, G("rx", i)', G("rx", j)', O("rx", i)' < O("rx", j)'
        PROVE  Pkt("rx", i)' < Pkt("rx", j)'
    <3>1. O("rx", i) < O("rx", j)
      BY <1>2, <2>8, Zenon
    <3>2. i # c
      BY <1>p, <2>2, <2>3, <2>5, <2>8, <3>1, SMTT(60)
    <3>3. G("rx", i) /\ Pkt("rx", i)' = Pkt("rx", i) /\ Pkt("rx", i) < Head(tap_in)
      BY <2>4, <2>5, <2>8, <3>2, Zenon DEF RxOrder
    <3>4. CASE j = c
      BY <2>2, <3>3, <3>4, Zenon
    <3>5. CASE G("rx", j) /\ Pkt("rx", j)' = Pkt("rx", j)
      BY <3>1, <3>3, <3>5, ZenonT(60) DEF RxOrder
    <3> QED BY <2>5, <2>8, <3>4, <3>5, Zenon
  <2> QED BY <2>1, <2>4, <2>6, <2>7, <2>8, Zenon DEF RxOrder
<1>7. CASE Reap("rx")
  <2> DEFINE c == last_used["rx"].idx
  <2>1. /\ got' = Append(got, Pkt("rx", c)) /\ tap_in' = tap_in /\ arrived' = arrived /\ tpc' = tpc
        /\ last_used' = [last_used EXCEPT !["rx"] = Ahead(last_used["rx"], 1)]
        /\ UNCHANGED <<ring, dev, cur>> /\ HasUsed("rx")
    BY <1>7, ZenonT(60) DEF Reap, device, tap, Pkt
  <2>2. /\ c \in Slots /\ G("rx", c)
        /\ \A i \in Slots : G("rx", i)' => O("rx", c) < O("rx", i)
    <3> DEFINE f == F("rx")  l == last_used["rx"]  p == avail["rx"]  d == dev["rx"]  H == Hold("rx")
    <3>1. /\ f \in [Slots -> Flags] /\ l \in Positions /\ p \in Positions /\ d \in Positions
          /\ l.idx \in Slots /\ f[l.idx] = ring["rx"][l.idx].flags
      BY <1>0, QueueTypes, Zenon
    <3>2. Window(f, l, p, d)
      BY Zenon DEF QueueInv
    <3>3. IsUsed(f[l.idx], l.wrap)
      BY <2>1, <3>1, ZenonT(60) DEF HasUsed
    <3>4. last_used'["rx"] = Ahead(l, 1)
      BY <1>0, <2>1, Types, Zenon DEF Typed
    <3>5. \A i \in Slots : G("rx", i)' <=> Given(f, Ahead(l, 1), d, H, i)
      BY <2>1, <3>4, Zenon DEF G, F, Hold
    <3>6. (G("rx", c) <=> Given(f, l, d, H, l.idx)) /\ \A i \in Slots : O("rx", i) = Off(l, i)
      BY Zenon DEF G, O
    <3> HIDE DEF f, l, p, d, H
    <3>7. ASSUME NEW i \in Slots
          PROVE  /\ Given(f, Ahead(l, 1), d, H, i) => Off(l, l.idx) < Off(l, i)
                 /\ Given(f, l, d, H, l.idx)
      BY <3>1, <3>2, <3>3, GivenReaped, Zenon
    <3> QED BY <3>1, <3>5, <3>6, <3>7, ZenonT(60) DEF l
  <2> HIDE DEF c
  <2>3. \A i \in Slots : G("rx", i)' =>
            G("rx", i) /\ Pkt("rx", i)' = Pkt("rx", i) /\ Pkt("rx", c) < Pkt("rx", i)
    BY <1>3, <2>1, <2>2, Zenon DEF RxOrder
  <2>4. /\ Pkt("rx", c) \in Nat /\ Pkt("rx", c) <= arrived
        /\ \A k \in DOMAIN got : got[k] < Pkt("rx", c)
        /\ \A m \in DOMAIN tap_in : Pkt("rx", c) < tap_in[m]
    BY <1>p, <2>2, Zenon DEF RxOrder
  <2>5. Increasing(got') /\ Increasing(tap_in')
    BY <1>0, <2>1, <2>4, AppendInOrder, Zenon DEF RxOrder
  <2>6. ASSUME NEW k \in DOMAIN got'
        PROVE  (k \in DOMAIN got /\ got'[k] = got[k]) \/ got'[k] = Pkt("rx", c)
    BY <1>0, <2>1, <2>4, AppendElements, ZenonT(60)
  <2>7. \A k \in DOMAIN got' : got'[k] <= arrived' /\ \A m \in DOMAIN tap_in' : got'[k] < tap_in'[m]
    BY <2>1, <2>4, <2>6, Zenon DEF RxOrder
  <2>8. ASSUME NEW i \in Slots, G("rx", i)'
        PROVE  /\ Pkt("rx", i)' <= arrived'
               /\ \A k \in DOMAIN got' : got'[k] < Pkt("rx", i)'
               /\ \A m \in DOMAIN tap_in' : Pkt("rx", i)' < tap_in'[m]
    BY <2>1, <2>3, <2>6, <2>8, ZenonT(60) DEF RxOrder
  <2>9. ASSUME NEW i \in Slots, NEW j \in Slots, G("rx", i)', G("rx", j)', O("rx", i)' < O("rx", j)'
        PROVE  Pkt("rx", i)' < Pkt("rx", j)'
    BY <1>2, <2>3, <2>9, Zenon DEF RxOrder
  <2> QED BY <2>5, <2>7, <2>8, <2>9, Zenon DEF RxOrder
<1> QED BY <1>4, <1>5, <1>6, <1>7, Effects, Zenon

-----------------------------------------------------------------------------
Inv ==
    /\ TypeOK /\ TapTypes /\ SignalInv /\ \A q \in Queues : QueueInv(q)
    /\ DoneInv /\ TxOrder /\ RxOrder

(* The inductive invariant behind the theorems below.                      *)
THEOREM Inductive == Spec => []Inv
<1>1. Init => Inv
  <2> SUFFICES ASSUME Init PROVE Inv
    BY Zenon
  <2>1. FirstPosition \in Positions /\ Empty \in Buffers /\ 0 \in Slots
    <3>1. FirstPosition \in Positions /\ 0 \in Slots
      BY VirtqAssumption DEF FirstPosition, Positions, Slots
    <3>2. [avail |-> FALSE, used |-> FALSE, next |-> FALSE] \in Flags /\ 0 \in 0 .. MaxPackets
      BY NetAssumption DEF Flags
    <3> QED BY <3>1, <3>2, Zenon DEF Empty, Buffers
  <2>2. Typed
    <3>1. ring \in [Queues -> [Slots -> Buffers]]
      BY <2>1, Zenon DEF Init
    <3>2. /\ avail \in [Queues -> Positions] /\ last_used \in [Queues -> Positions]
          /\ dev \in [Queues -> Positions] /\ cur \in [Queues -> Slots]
      BY <2>1, Zenon DEF Init
    <3>3. /\ tpc \in [Queues -> Pcs] /\ enable \in [Queues -> BOOLEAN] /\ event \in [Queues -> BOOLEAN]
          /\ gpc \in {"run", "clear", "reap"} /\ unkicked \in BOOLEAN /\ seen \in BOOLEAN
          /\ tx_ioeventfd \in BOOLEAN /\ isr \in BOOLEAN /\ intr \in BOOLEAN
      BY Zenon DEF Init, Pcs
    <3>4. /\ xmit \in 0 .. MaxPackets /\ arrived \in 0 .. MaxPackets
          /\ faults \in [Queues -> 0 .. MaxFaults]
      BY NetAssumption DEF Init
    <3> QED BY <3>1, <3>2, <3>3, <3>4, Zenon DEF Typed
  <2>3. TapTypes /\ SignalInv
    BY DEF Init, TapTypes, SignalInv, Queues
  <2>4. ASSUME NEW q \in Queues PROVE QueueInv(q)
    <3>1. Dist(FirstPosition, FirstPosition) = 0
      BY DEF Dist, FirstPosition
    <3>2. \A i \in Slots : /\ Off(FirstPosition, i) \in 0 .. QSize - 1
                           /\ WrapAt(FirstPosition, i) = TRUE
      BY VirtqAssumption DEF Off, WrapAt, FirstPosition, Slots
    <3>3. \A i \in Slots : F(q)[i].avail = FALSE /\ F(q)[i].used = FALSE
      BY Zenon DEF Init, F, Empty
    <3>4. Window(F(q), FirstPosition, FirstPosition, FirstPosition)
      BY <3>1, <3>2, <3>3, VirtqAssumption, SMTT(60) DEF Window
    <3> QED BY <3>4, Zenon DEF QueueInv, Init
  <2>5. \A q \in Queues, i \in Slots : ~G(q, i) /\ ~Wt(q, i)
    <3>1. Dist(FirstPosition, FirstPosition) = 0
      BY DEF Dist, FirstPosition
    <3>2. \A i \in Slots : Off(FirstPosition, i) \in 0 .. QSize - 1
      BY VirtqAssumption DEF Off, FirstPosition, Slots
    <3>3. \A q \in Queues : /\ last_used[q] = FirstPosition /\ dev[q] = FirstPosition
                            /\ avail[q] = FirstPosition
      BY Zenon DEF Init
    <3> QED BY <3>1, <3>2, <3>3, SMTT(60) DEF G, Wt, Given, Waiting
  <2>6. DoneInv /\ TxOrder /\ RxOrder
    BY <2>5 DEF Init, DoneInv, TxOrder, RxOrder, Increasing, Queues
  <2> QED BY <2>2, <2>3, <2>4, <2>6, Types, Zenon DEF Inv
<1>2. Inv /\ [Next]_vars => Inv'
  <2> SUFFICES ASSUME Inv, [Next]_vars PROVE Inv'
    BY Zenon
  <2>1. TypeOK' /\ TapTypes' /\ SignalInv'
    BY TypeStep, SignalStep, Zenon DEF Inv
  <2>2. \A q \in Queues : QueueInv(q)'
    BY <2>1, QueueStep, Shape, Zenon DEF Inv
  <2>3. DoneInv' /\ TxOrder' /\ RxOrder'
    BY <2>1, DoneStep, TxStep, RxStep, Zenon DEF Inv, Queues
  <2> QED BY <2>1, <2>2, <2>3, Zenon DEF Inv
<1> QED BY <1>1, <1>2, PTL DEF Spec

(* The variables keep their types: next_avail_idx and the wrap counters of *)
(* both queues stay in range.                                              *)
THEOREM TypeCorrect == Spec => []TypeOK
BY Inductive, PTL DEF Inv

(* virtq_get_avail never runs ahead of the driver, nor is it ever lapped:  *)
(* for every ring size each thread stays between the driver's positions.   *)
THEOREM ThreadStaysInWindow == Spec => []DeviceInWindow
<1>1. Inv => DeviceInWindow
  BY Zenon DEF Inv, QueueInv, Window, DeviceInWindow
<1> QED BY <1>1, Inductive, PTL

(* virtio_net_virtq_available_tx: a packet past its doorbell decision is   *)
(* never hidden from the transmit thread.                                  *)
THEOREM PacketIsSeen == Spec => []PacketKeepsSignal
<1>1. Inv => PacketKeepsSignal
  BY Zenon DEF Inv, SignalInv, PacketKeepsSignal
<1> QED BY <1>1, Inductive, PTL

(* virtio_net_vq_handler: a used buffer's packet has been written to the   *)
(* tap or read from it, also when other transfers failed.                  *)
THEOREM UsedBuffersAreDone == Spec => []UsedMeansDone
<1>1. Inv => UsedMeansDone
  <2> SUFFICES ASSUME Inv, NEW q \in Queues, HasUsed(q) PROVE Done(q, last_used[q].idx)
    BY Zenon DEF UsedMeansDone, Done, Queues
  <2> DEFINE f == F(q)  l == last_used[q]  p == avail[q]  d == dev[q]  H == Hold(q)
  <2>1. /\ f \in [Slots -> Flags] /\ l \in Positions /\ p \in Positions /\ d \in Positions
        /\ l.idx \in Slots /\ f[l.idx] = ring[q][l.idx].flags
    BY QueueTypes, Zenon DEF Inv
  <2>2. Window(f, l, p, d)
    BY Zenon DEF Inv, QueueInv
  <2>3. IsUsed(f[l.idx], l.wrap)
    BY <2>1, Zenon DEF HasUsed
  <2>4. G(q, l.idx) <=> Given(f, l, d, H, l.idx)
    BY Zenon DEF G
  <2> HIDE DEF f, l, p, d, H
  <2>5. Given(f, l, d, H, l.idx)
    BY <2>1, <2>2, <2>3, GivenReaped, Zenon
  <2> QED BY <2>1, <2>4, <2>5, Zenon DEF Inv, DoneInv, l
<1> QED BY <1>1, Inductive, PTL

(* Packets are sent and received in order and once, for every ring size    *)
(* and any number of packets and of failed transfers.                      *)
THEOREM PacketsInOrder == Spec => []InOrderOnce
<1>1. Inv => InOrderOnce
  BY Zenon DEF Inv, TxOrder, RxOrder, InOrderOnce
<1> QED BY <1>1, Inductive, PTL
=============================================================================
