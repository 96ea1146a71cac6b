---------------------------- MODULE SerialProofs ----------------------------
(***************************************************************************)
(* Proofs about Serial, for every ring length, every counter width that is *)
(* a multiple of it, and any number of bytes typed.                        *)
(***************************************************************************)
EXTENDS Serial, TLAPS

(* A masked counter is an index of the ring.                               *)
LEMMA SlotInRing == \A x \in Nat : x % FIFO_LEN \in 0 .. FIFO_MASK
  BY FifoAssumption DEF FIFO_MASK

(* The counters' difference counts the bytes: zero exactly when empty.     *)
LEMMA FifoSize ==
  ASSUME NEW f \in Fifos
  PROVE  /\ fifo_capacity(f) \in Nat
         /\ fifo_is_empty(f) <=> fifo_capacity(f) = 0
         /\ fifo_is_full(f) <=> fifo_capacity(f) >= FIFO_LEN
  BY FifoAssumption, SMTT(60) DEF Fifos, fifo_capacity, fifo_is_empty, fifo_is_full, USub,
     FIFO_MASK

(* fifo_put into a ring with room adds one byte, across a wrap as well.    *)
LEMMA FifoPut ==
  ASSUME NEW f \in Fifos, NEW c \in Byte, ~fifo_is_full(f)
  PROVE  /\ fifo_put(f, c) \in Fifos
         /\ fifo_capacity(fifo_put(f, c)) = fifo_capacity(f) + 1
<1>0. f.tail \in Nat
  BY FifoAssumption DEF Fifos
<1>1. f.tail % FIFO_LEN \in 0 .. FIFO_MASK
  BY <1>0, SlotInRing
<1>2. UInc(f.tail) \in 0 .. UINT_MOD - 1
  BY FifoAssumption DEF Fifos, UInc
<1>3. fifo_put(f, c) \in Fifos
  BY <1>1, <1>2, Zenon DEF fifo_put, Fifos
<1>4. fifo_put(f, c).head = f.head /\ fifo_put(f, c).tail = UInc(f.tail)
  BY DEF fifo_put, Fifos
<1>5. f.head \in 0 .. UINT_MOD - 1 /\ f.tail \in 0 .. UINT_MOD - 1
  BY DEF Fifos
<1>6. USub(UInc(f.tail), f.head) = USub(f.tail, f.head) + 1
  BY <1>5, FifoAssumption DEF fifo_is_full, USub, UInc, FIFO_MASK
<1> QED
  BY <1>3, <1>4, <1>6 DEF fifo_capacity

(* fifo_get from a ring that holds a byte removes one.                     *)
LEMMA FifoGet ==
  ASSUME NEW f \in Fifos, ~fifo_is_empty(f)
  PROVE  /\ fifo_get(f) \in Fifos
         /\ fifo_front(f) \in Byte
         /\ fifo_capacity(fifo_get(f)) = fifo_capacity(f) - 1
<1>0. f.head \in Nat
  BY FifoAssumption DEF Fifos
<1>1. f.head % FIFO_LEN \in 0 .. FIFO_MASK
  BY <1>0, SlotInRing
<1>2. UInc(f.head) \in 0 .. UINT_MOD - 1
  BY FifoAssumption DEF Fifos, UInc
<1>3. fifo_get(f) \in Fifos
  BY <1>2 DEF fifo_get, Fifos
<1>4. fifo_get(f).tail = f.tail /\ fifo_get(f).head = UInc(f.head)
  BY DEF fifo_get, Fifos
<1>5. f.head \in 0 .. UINT_MOD - 1 /\ f.tail \in 0 .. UINT_MOD - 1
  BY DEF Fifos
<1>6. USub(f.tail, UInc(f.head)) = USub(f.tail, f.head) - 1
  <2>1. f.head # f.tail /\ UINT_MOD \in Nat \ {0}
    BY FifoAssumption DEF fifo_is_empty
  <2>2. CASE f.head = UINT_MOD - 1
    BY <1>5, <2>1, <2>2 DEF USub, UInc
  <2>3. CASE f.head # UINT_MOD - 1
    BY <1>5, <2>1, <2>3 DEF USub, UInc
  <2> QED
    BY <2>2, <2>3
<1>7. fifo_front(f) \in Byte
  BY <1>1, Zenon DEF fifo_front, Fifos
<1> QED
  BY <1>3, <1>4, <1>6, <1>7 DEF fifo_capacity

-----------------------------------------------------------------------------
(* The worker holds the mutex exactly inside its critical section.         *)
LockHeld == lock <=> wpc \in {"console", "ready", "iir", "irq"}

(* A byte in the ring that LSR.DR does not show is the one the worker has  *)
(* just put there.                                                         *)
DrStored ==
    /\ "DR" \in lsr \/ wpc = "ready" => ~fifo_is_empty(rx_buf)
    /\ ~fifo_is_empty(rx_buf) => "DR" \in lsr \/ wpc = "ready"

(* Between the worker's store to iir and its ioctl, iir is up to date.     *)
IirStored == wpc = "irq" => iir = IirOf(ier, lsr)

(* The inductive invariant: LineSettled and DataReady are not inductive    *)
(* alone, because the worker settles the line in two steps and shows a     *)
(* byte one step after the put, and WaiterHasBacklog needs the ring        *)
(* bounded.                                                                *)
IInv ==
    /\ TypeOK
    /\ RingBounded
    /\ DrStored
    /\ LineSettled
    /\ RdiHasData
    /\ WaiterHasBacklog
    /\ LockHeld
    /\ IirStored

(* What serial_update_irq stores is an interrupt identification.           *)
LEMMA IirOfType == \A i, l : IirOf(i, l) \in Iir
  BY DEF IirOf, Iir

(* The initial state satisfies the invariant.                              *)
LEMMA InitIInv == Init => IInv
<1> SUFFICES ASSUME Init PROVE IInv
  OBVIOUS
<1> USE DEF Init
<1>1. rx_buf \in Fifos
  BY FifoAssumption, SerialAssumption DEF Fifos, FIFO_MASK
<1>2. TypeOK
  <2>1. regs \in [StoredRegs -> RegVals]
    BY SerialAssumption
  <2>2. typed \in Seq(Byte) /\ received \in Seq(Byte) /\ rd \in 0 .. Len(typed)
    OBVIOUS
  <2> QED
    BY <1>1, <2>1, <2>2, Zenon DEF TypeOK, Lsr, Ier, Iir, WorkerPc
<1>3. fifo_capacity(rx_buf) = 0 /\ fifo_is_empty(rx_buf)
  BY FifoAssumption DEF fifo_capacity, fifo_is_empty, USub
<1>4. RingBounded /\ DrStored /\ RdiHasData /\ WaiterHasBacklog
  BY <1>3, FifoAssumption DEF RingBounded, DrStored, RdiHasData, WaiterHasBacklog
<1>5. LineSettled /\ LockHeld /\ IirStored
  BY Zenon DEF LineSettled, LockHeld, IirStored, IirOf
<1> QED
  BY <1>2, <1>4, <1>5 DEF IInv

(* What a byte does to the ring in serial_console's loop.                  *)
LEMMA ConsumeRing ==
  ASSUME TypeOK, RingBounded, NEW c \in Byte, Consume(c), ~fifo_is_full(rx_buf)
  PROVE  /\ rx_buf' \in Fifos
         /\ escaped' \in BOOLEAN /\ exited' \in BOOLEAN
         /\ RingBounded'
         /\ \/ rx_buf' = rx_buf /\ wpc' = wpc
            \/ ~fifo_is_empty(rx_buf') /\ wpc' = "ready"
<1>1. rx_buf \in Fifos
  BY DEF TypeOK
<1>2. fifo_capacity(rx_buf) \in Nat /\ fifo_capacity(rx_buf) < FIFO_LEN
  BY <1>1, FifoSize, FifoAssumption
<1>3. CASE UNCHANGED <<rx_buf, wpc>>
  BY <1>1, <1>3, Zenon DEF Consume, RingBounded, TypeOK
<1>4. CASE rx_buf' = fifo_put(rx_buf, c) /\ wpc' = "ready"
  <2>1. rx_buf' \in Fifos /\ fifo_capacity(rx_buf') = fifo_capacity(rx_buf) + 1
    BY <1>1, <1>4, FifoPut
  <2>2. ~fifo_is_empty(rx_buf') /\ RingBounded'
    BY <1>2, <2>1, FifoSize, FifoAssumption DEF RingBounded
  <2> QED
    BY <1>1, <1>4, <2>1, <2>2, Zenon DEF Consume, TypeOK
<1> QED
  BY <1>3, <1>4 DEF Consume

(* Every step keeps it.  The parts that are about the ring alone are kept  *)
(* by any step that leaves the ring and LSR alone.                         *)
LEMMA NextIInv == IInv /\ [Next]_vars => IInv'
<1> SUFFICES ASSUME IInv, [Next]_vars PROVE IInv'
  OBVIOUS
<1> DEFINE Parts == /\ RingBounded /\ DrStored /\ LineSettled /\ RdiHasData
                    /\ WaiterHasBacklog /\ LockHeld /\ IirStored
<1>a. TypeOK /\ Parts
  BY DEF IInv
<1>b. SUFFICES TypeOK' /\ Parts'
  BY DEF IInv
<1> USE DEF RingBounded, DrStored, LineSettled, RdiHasData, WaiterHasBacklog,
            LockHeld, IirStored
<1>1. CASE WorkerCheck
  BY <1>a, <1>1 DEF WorkerCheck, TypeOK, WorkerPc, device, threads, terminal
<1>2. CASE WorkerPoll
  BY <1>a, <1>2 DEF WorkerPoll, TypeOK, WorkerPc, device, threads, terminal
<1>3. CASE SpuriousWakeup
  BY <1>a, <1>3 DEF SpuriousWakeup, TypeOK, WorkerPc, device, threads, terminal
<1>4. CASE WorkerRelock
  BY <1>a, <1>4 DEF WorkerRelock, TypeOK, WorkerPc, device, threads, terminal
<1>5. CASE ConsoleReadFails
  BY <1>a, <1>5 DEF ConsoleReadFails, TypeOK, WorkerPc, device, threads, terminal
<1>6. CASE ConsoleEnd
  BY <1>a, <1>6 DEF ConsoleEnd, TypeOK, WorkerPc, device, threads, terminal
<1>7. CASE SerialExit
  BY <1>a, <1>7 DEF SerialExit, TypeOK, WorkerPc, device, threads, terminal
<1>8. CASE SerialJoin
  BY <1>a, <1>8 DEF SerialJoin, TypeOK, WorkerPc, device, threads, terminal
<1>9. CASE HangUp
  BY <1>a, <1>9 DEF HangUp, TypeOK, WorkerPc, device, threads, terminal
<1>10. CASE WorkerLock
  <2>1. fifo_is_full(rx_buf) => fifo_capacity(rx_buf) > FIFO_LEN \div 2
    BY <1>a, FifoSize, FifoAssumption DEF TypeOK
  <2> QED
    BY <1>a, <1>10, <2>1, ZenonT(60) DEF WorkerLock, TypeOK, WorkerPc, device, terminal
<1>11. CASE WorkerIir
  <2>1. TypeOK'
    BY <1>a, <1>11, IirOfType DEF WorkerIir, TypeOK, WorkerPc, terminal
  <2>2. iir' = "RDI" => "DR" \in lsr
    BY <1>11 DEF WorkerIir, IirOf
  <2> QED
    BY <1>a, <1>11, <2>1, <2>2 DEF WorkerIir
<1>12. CASE WorkerIrq
  BY <1>a, <1>12, ZenonT(60) DEF WorkerIrq, TypeOK, WorkerPc, terminal
<1>13. CASE ConsoleRead
  <2>1. typed[rd + 1] \in Byte /\ rd + 1 \in 0 .. Len(typed)
    BY <1>a, <1>13 DEF ConsoleRead, TypeOK
  <2>2. PICK c \in Byte : Consume(c)
    BY <1>13, <2>1 DEF ConsoleRead
  <2>3. /\ rx_buf' \in Fifos /\ escaped' \in BOOLEAN /\ exited' \in BOOLEAN
        /\ RingBounded'
        /\ \/ rx_buf' = rx_buf /\ wpc' = wpc
           \/ ~fifo_is_empty(rx_buf') /\ wpc' = "ready"
    BY <1>a, <1>13, <2>2, ConsumeRing DEF ConsoleRead
  <2>4. TypeOK'
    BY <1>a, <1>13, <2>1, <2>3 DEF ConsoleRead, TypeOK, WorkerPc
  <2>5. lock' /\ wpc' \in {"console", "ready"} /\ UNCHANGED <<lsr, iir>>
    BY <1>a, <1>13, <2>3 DEF ConsoleRead
  <2>6. DrStored' /\ RdiHasData'
    BY <1>a, <1>13, <2>3, <2>5 DEF ConsoleRead
  <2> QED
    BY <1>a, <2>3, <2>4, <2>5, <2>6
<1>14. CASE ConsoleReadEof
  <2>1. faults' \in Nat
    BY <1>a, <1>14 DEF ConsoleReadEof, TypeOK
  <2>2. PICK c \in Byte : Consume(c)
    BY <1>14 DEF ConsoleReadEof
  <2>3. /\ rx_buf' \in Fifos /\ escaped' \in BOOLEAN /\ exited' \in BOOLEAN
        /\ RingBounded'
        /\ \/ rx_buf' = rx_buf /\ wpc' = wpc
           \/ ~fifo_is_empty(rx_buf') /\ wpc' = "ready"
    BY <1>a, <1>14, <2>2, ConsumeRing DEF ConsoleReadEof
  <2>4. TypeOK'
    BY <1>a, <1>14, <2>1, <2>3, SMTT(60) DEF ConsoleReadEof, TypeOK, WorkerPc
  <2>5. lock' /\ wpc' \in {"console", "ready"} /\ UNCHANGED <<lsr, iir>>
    BY <1>a, <1>14, <2>3 DEF ConsoleReadEof
  <2>6. DrStored' /\ RdiHasData'
    BY <1>a, <1>14, <2>3, <2>5 DEF ConsoleReadEof
  <2> QED
    BY <1>a, <2>3, <2>4, <2>5, <2>6
<1>15. CASE SerialOutTX
  <2>1. TypeOK' /\ ("DR" \in lsr' <=> "DR" \in lsr)
    BY <1>a, <1>15, IirOfType
    DEF SerialOutTX, serial_update_irq, TypeOK, Lsr, threads, terminal
  <2>2. iir' = "RDI" => "DR" \in lsr
    BY <1>15, <2>1 DEF SerialOutTX, serial_update_irq, IirOf
  <2> QED
    BY <1>a, <1>15, <2>1, <2>2, SMTT(60) DEF SerialOutTX, serial_update_irq, threads
<1>16. ASSUME NEW v \in SUBSET Ier, SerialOutIER(v)
       PROVE  TypeOK' /\ Parts'
  <2>1. TypeOK'
    BY <1>a, <1>16, IirOfType
    DEF SerialOutIER, serial_update_irq, TypeOK, threads, terminal
  <2>2. iir' = "RDI" => "DR" \in lsr
    BY <1>16 DEF SerialOutIER, serial_update_irq, IirOf
  <2> QED
    BY <1>a, <1>16, <2>1, <2>2 DEF SerialOutIER, serial_update_irq, threads
<1>17. ASSUME NEW b \in BOOLEAN, SerialOutLCR(b)
       PROVE  TypeOK' /\ Parts'
  BY <1>a, <1>17, SMTT(60) DEF SerialOutLCR, TypeOK, threads, terminal
<1>18. ASSUME NEW r \in StoredRegs, NEW v \in RegVals, SerialOutStored(r, v)
       PROVE  TypeOK' /\ Parts'
  BY <1>a, <1>18, SMTT(60) DEF SerialOutStored, TypeOK, threads, terminal
<1>19. ASSUME NEW c \in Byte, TypeChar(c)
       PROVE  TypeOK' /\ Parts'
  <2>1. typed' \in Seq(Byte) /\ rd' \in 0 .. Len(typed')
    BY <1>a, <1>19 DEF TypeChar, TypeOK
  <2> QED
    BY <1>a, <1>19, <2>1, SMTT(60) DEF TypeChar, TypeOK, device, threads
<1>20. CASE SerialInRX
  <2>1. rx_buf \in Fifos
    BY <1>a, SMTT(60) DEF TypeOK
  <2>2. /\ rx_buf' \in Fifos
        /\ received' \in Seq(Byte)
        /\ fifo_capacity(rx_buf') \in Nat
        /\ \/ fifo_capacity(rx_buf') = fifo_capacity(rx_buf)
              /\ fifo_capacity(rx_buf) = 0
           \/ fifo_capacity(rx_buf') = fifo_capacity(rx_buf) - 1
              /\ fifo_capacity(rx_buf) > 0
    BY <1>a, <1>20, <2>1, FifoSize, FifoGet, SMTT(60) DEF SerialInRX, TypeOK
  <2>3. RingBounded'
    <3>1. fifo_capacity(rx_buf) \in Nat /\ fifo_capacity(rx_buf) <= FIFO_LEN
      BY <1>a, <2>1, FifoSize
    <3> QED
      BY <2>2, <3>1, FifoAssumption
  <2>4. fifo_is_empty(rx_buf') <=> fifo_capacity(rx_buf') = 0
    BY <2>2, FifoSize
  <2>5. TypeOK' /\ lock' = lock /\ ~lock /\ ier' = ier
    <3>1. /\ lsr' = lsr \ {"DR"} \/ lsr' = lsr
          /\ iir' = IirOf(ier', lsr') \/ iir' = iir
          /\ irq' = (iir' # "NO_INT") \/ irq' = irq
      BY <1>20 DEF SerialInRX, RxDrained, serial_update_irq
    <3>2. wpc' \in WorkerPc
      BY <1>a, <1>20 DEF SerialInRX, Signal, TypeOK, WorkerPc
    <3>3. lsr' \in SUBSET Lsr /\ iir' \in Iir /\ irq' \in BOOLEAN
      BY <1>a, <3>1, IirOfType, Zenon DEF TypeOK
    <3> QED
      BY <1>a, <1>20, <2>2, <3>2, <3>3 DEF SerialInRX, TypeOK, terminal
  <2>6. DrStored' /\ LineSettled' /\ RdiHasData'
    <3>1. CASE fifo_is_empty(rx_buf')
      <4>1. lsr' = lsr \ {"DR"} /\ iir' = IirOf(ier', lsr') /\ irq' = (iir' # "NO_INT")
        BY <1>20, <3>1 DEF SerialInRX, RxDrained, serial_update_irq
      <4>2. iir' # "RDI"
        BY <4>1 DEF IirOf
      <4>3. wpc' # "ready"
        BY <1>a, <1>20 DEF SerialInRX, Signal
      <4> QED
        BY <3>1, <4>1, <4>2, <4>3
    <3>2. CASE ~fifo_is_empty(rx_buf')
      <4>1. UNCHANGED <<lsr, iir, irq>>
        BY <1>20, <3>2 DEF SerialInRX, RxDrained
      <4>2. ~fifo_is_empty(rx_buf)
        BY <2>1, <2>2, <2>4, <3>2, FifoSize
      <4> QED
        BY <1>a, <2>5, <3>2, <4>1, <4>2
    <3> QED
      BY <3>1, <3>2
  <2>7. WaiterHasBacklog'
    <3>1. SUFFICES ASSUME wpc' = "wait"
                   PROVE  fifo_capacity(rx_buf') > FIFO_LEN \div 2
      OBVIOUS
    <3>2. wpc = "wait" /\ fifo_capacity(rx_buf') # FIFO_LEN \div 2
      BY <1>20, <3>1 DEF SerialInRX, WakeThreshold, Signal
    <3>3. fifo_capacity(rx_buf) > FIFO_LEN \div 2 /\ fifo_capacity(rx_buf) \in Nat
      BY <1>a, <2>1, <3>2, FifoSize, SMTT(60)
    <3> QED
      BY <2>2, <3>2, <3>3, FifoAssumption
  <2>8. LockHeld' /\ IirStored'
    BY <1>a, <1>20, <2>5, SMTT(60) DEF SerialInRX, Signal
  <2> QED
    BY <2>3, <2>5, <2>6, <2>7, <2>8
<1>21. CASE UNCHANGED vars
  BY <1>a, <1>21 DEF vars, device, threads, terminal, TypeOK
<1>22. CASE WorkerPollHangUp
  BY <1>a, <1>22 DEF WorkerPollHangUp, TypeOK, WorkerPc, device, threads, terminal
<1>23. CASE ConsoleReady
  <2>1. TypeOK'
    BY <1>a, <1>23 DEF ConsoleReady, TypeOK, WorkerPc, Lsr, terminal
  <2>2. lock' /\ wpc' = "console" /\ "DR" \in lsr' /\ UNCHANGED <<rx_buf, iir>>
    BY <1>a, <1>23 DEF ConsoleReady
  <2>3. ~fifo_is_empty(rx_buf)
    BY <1>a, <1>23 DEF ConsoleReady
  <2> QED
    BY <1>a, <2>1, <2>2, <2>3
<1> QED
  BY <1>1, <1>2, <1>3, <1>4, <1>5, <1>6, <1>7, <1>8, <1>9, <1>10, <1>11, <1>12,
     <1>13, <1>14, <1>15, <1>16, <1>17, <1>18, <1>19, <1>20, <1>21, <1>22,
     <1>23, Zenon
  DEF Next, Worker, Guest, Terminal

(* The serial device's shared state is consistent in every reachable state,*)
(* for every length of the ring and every interleaving of the two threads. *)
THEOREM Invariance == Spec => []IInv
<1>1. Init => IInv
  BY InitIInv
<1>2. IInv /\ [Next]_vars => IInv'
  BY NextIInv
<1> QED
  BY <1>1, <1>2, PTL DEF Spec

(* The variables of the device keep their types.                           *)
THEOREM TypeCorrect == Spec => []TypeOK
  BY Invariance, PTL DEF IInv

(* The worker never sleeps on the condition variable past the read of RX   *)
(* that signals it.                                                        *)
THEOREM NoLostWakeup == Spec => []WaiterHasBacklog
  BY Invariance, PTL DEF IInv

(* LSR.DR never promises the guest, which reads it without the mutex, a    *)
(* byte that is not there, and shows every byte once the mutex is free.    *)
THEOREM DataReadyIsTrue == Spec => []DataReady
<1>1. IInv => DataReady
  BY DEF IInv, DrStored, LockHeld, DataReady
<1> QED
  BY <1>1, Invariance, PTL

(* IIR and the interrupt line say what IER and LSR call for whenever the   *)
(* mutex is free.                                                          *)
THEOREM LineIsSettled == Spec => []LineSettled
  BY Invariance, PTL DEF IInv

(* A handler that finds received data identified in IIR finds a byte.      *)
THEOREM RdiAlwaysHasData == Spec => []RdiHasData
  BY Invariance, PTL DEF IInv

(* The ring is never overrun, whatever the width of its counters.          *)
THEOREM RingNeverOverrun == Spec => []RingBounded
  BY Invariance, PTL DEF IInv

-----------------------------------------------------------------------------
(* Serial implements Console.  A counter and a shift of it by a multiple of*)
(* the ring's length mask to the same slot, and fewer than FIFO_LEN        *)
(* successive counters to different ones.                                  *)

(* A multiple of the length and a remainder.                               *)
LEMMA DivMod ==
  ASSUME NEW q \in Nat, NEW r \in 0 .. FIFO_LEN - 1
  PROVE  (q * FIFO_LEN + r) % FIFO_LEN = r
  BY FifoAssumption

(* Every counter is one.                                                   *)
LEMMA ModSplit ==
  ASSUME NEW x \in Nat
  PROVE  \E q \in Nat, r \in 0 .. FIFO_LEN - 1 : x = q * FIFO_LEN + r /\ x % FIFO_LEN = r
<1>1. /\ x \div FIFO_LEN \in Nat /\ x % FIFO_LEN \in 0 .. FIFO_LEN - 1
      /\ x = (x \div FIFO_LEN) * FIFO_LEN + (x % FIFO_LEN)
  BY FifoAssumption
<1> QED
  BY <1>1

(* The shift by which a counter overflows keeps the slot.                  *)
LEMMA ModShift ==
  ASSUME NEW x \in Nat
  PROVE  (x + UINT_MOD) % FIFO_LEN = x % FIFO_LEN
<1>1. PICK p \in Nat, s \in 0 .. FIFO_LEN - 1 :
         UINT_MOD = p * FIFO_LEN + s /\ UINT_MOD % FIFO_LEN = s
  BY ModSplit, FifoAssumption
<1>2. UINT_MOD = p * FIFO_LEN
  BY <1>1, FifoAssumption
<1>3. PICK q \in Nat, r \in 0 .. FIFO_LEN - 1 : x = q * FIFO_LEN + r /\ x % FIFO_LEN = r
  BY ModSplit, Zenon
<1>4. x + UINT_MOD = (q + p) * FIFO_LEN + r
  BY <1>2, <1>3, FifoAssumption
<1>5. q + p \in Nat
  OBVIOUS
<1> QED
  BY <1>3, <1>4, <1>5, DivMod

(* Fewer than FIFO_LEN further on, the slot is another.                    *)
LEMMA ModApart ==
  ASSUME NEW x \in Nat, NEW k \in 1 .. FIFO_LEN - 1
  PROVE  (x + k) % FIFO_LEN # x % FIFO_LEN
<1>1. PICK q \in Nat, r \in 0 .. FIFO_LEN - 1 : x = q * FIFO_LEN + r /\ x % FIFO_LEN = r
  BY ModSplit, Zenon
<1>2. CASE r + k < FIFO_LEN
  <2>1. x + k = q * FIFO_LEN + (r + k) /\ r + k \in 0 .. FIFO_LEN - 1
    BY <1>1, <1>2, FifoAssumption
  <2>2. (x + k) % FIFO_LEN = r + k
    BY <2>1, DivMod
  <2> QED
    BY <1>1, <2>2
<1>3. CASE r + k >= FIFO_LEN
  <2>1. /\ x + k = (q + 1) * FIFO_LEN + (r + k - FIFO_LEN)
        /\ r + k - FIFO_LEN \in 0 .. FIFO_LEN - 1 /\ q + 1 \in Nat
    BY <1>1, <1>3, FifoAssumption
  <2>2. (x + k) % FIFO_LEN = r + k - FIFO_LEN
    BY <2>1, DivMod
  <2> QED
    BY <1>1, <2>2, FifoAssumption
<1> QED
  BY <1>1, <1>2, <1>3, FifoAssumption

(* What the ring holds is as long as the counters say.                     *)
LEMMA ContentsLen ==
  ASSUME NEW f \in Fifos
  PROVE  /\ fifo_contents(f) \in Seq(Byte)
         /\ Len(fifo_contents(f)) = fifo_capacity(f)
<1>1. fifo_capacity(f) \in Nat /\ f.head \in Nat
  BY FifoSize, FifoAssumption DEF Fifos
<1>2. \A i \in 1 .. fifo_capacity(f) : (f.head + i - 1) % FIFO_LEN \in 0 .. FIFO_MASK
  BY <1>1, SlotInRing
<1>3. \A i \in 1 .. fifo_capacity(f) : f.data[(f.head + i - 1) % FIFO_LEN] \in Byte
  BY <1>2, Zenon DEF Fifos
<1>4. fifo_contents(f) \in [1 .. fifo_capacity(f) -> Byte]
  BY <1>3, Zenon DEF fifo_contents
<1> QED
  BY <1>1, <1>4

(* fifo_put adds the byte behind what the ring holds.                      *)
LEMMA PutContents ==
  ASSUME NEW f \in Fifos, NEW c \in Byte, ~fifo_is_full(f)
  PROVE  fifo_contents(fifo_put(f, c)) = Append(fifo_contents(f), c)
<1> DEFINE n == fifo_capacity(f)
<1> DEFINE g == fifo_put(f, c)
<1>1. /\ n \in Nat /\ n < FIFO_LEN
      /\ f.head \in 0 .. UINT_MOD - 1 /\ f.tail \in 0 .. UINT_MOD - 1
  BY FifoSize, FifoAssumption DEF Fifos
<1>2. g \in Fifos /\ fifo_capacity(g) = n + 1
  BY FifoPut
<1>3. /\ g.head = f.head
      /\ g.data = [f.data EXCEPT ![f.tail % FIFO_LEN] = c]
  BY DEF fifo_put, Fifos
<1>4. (f.head + n) % FIFO_LEN = f.tail % FIFO_LEN
  <2>1. f.head + n = f.tail \/ f.head + n = f.tail + UINT_MOD
    BY <1>1, FifoAssumption DEF fifo_capacity, USub
  <2>2. f.tail \in Nat
    BY <1>1, FifoAssumption
  <2> QED
    BY <2>1, <2>2, ModShift
<1>5. ASSUME NEW i \in 1 .. n
      PROVE  g.data[(f.head + i - 1) % FIFO_LEN] = f.data[(f.head + i - 1) % FIFO_LEN]
  <2>1. /\ f.head + i - 1 \in Nat /\ n - (i - 1) \in 1 .. FIFO_LEN - 1
        /\ (f.head + i - 1) + (n - (i - 1)) = f.head + n
    BY <1>1, FifoAssumption
  <2>2. (f.head + i - 1) % FIFO_LEN # f.tail % FIFO_LEN
    BY <1>4, <2>1, ModApart
  <2>3. (f.head + i - 1) % FIFO_LEN \in 0 .. FIFO_MASK
    BY <2>1, SlotInRing
  <2> QED
    BY <1>3, <2>2, <2>3, Zenon DEF Fifos
<1>6. g.data[(f.head + n) % FIFO_LEN] = c
  <2>1. f.tail % FIFO_LEN \in 0 .. FIFO_MASK
    BY <1>1, SlotInRing, FifoAssumption
  <2> QED
    BY <1>3, <1>4, <2>1, Zenon DEF Fifos
<1>7. fifo_contents(g) = [i \in 1 .. n + 1 |-> g.data[(f.head + i - 1) % FIFO_LEN]]
  BY <1>2, <1>3, Zenon DEF fifo_contents
<1>8. fifo_contents(f) = [i \in 1 .. n |-> f.data[(f.head + i - 1) % FIFO_LEN]]
  BY Zenon DEF fifo_contents
<1>9. fifo_contents(f) \in Seq(Byte) /\ Len(fifo_contents(f)) = n
  BY ContentsLen
<1>10. fifo_contents(g) \in Seq(Byte) /\ Len(fifo_contents(g)) = n + 1
  BY <1>2, ContentsLen
<1>11. \A i \in 1 .. n : fifo_contents(g)[i] = fifo_contents(f)[i]
  BY <1>1, <1>5, <1>7, <1>8
<1>12. fifo_contents(g)[n + 1] = c
  <2>1. f.head + (n + 1) - 1 = f.head + n /\ n + 1 \in 1 .. n + 1
    BY <1>1, FifoAssumption
  <2> QED
    BY <1>6, <1>7, <2>1
<1> HIDE DEF n, g
<1> QED
  BY <1>1, <1>9, <1>10, <1>11, <1>12 DEF g

(* fifo_get takes the oldest byte and leaves the others as they were.      *)
LEMMA GetContents ==
  ASSUME NEW f \in Fifos, ~fifo_is_empty(f), fifo_capacity(f) <= FIFO_LEN
  PROVE  /\ fifo_contents(f) # <<>>
         /\ Head(fifo_contents(f)) = fifo_front(f)
         /\ Tail(fifo_contents(f)) = fifo_contents(fifo_get(f))
<1> DEFINE n == fifo_capacity(f)
<1> DEFINE g == fifo_get(f)
<1>1. n \in Nat \ {0} /\ f.head \in 0 .. UINT_MOD - 1
  BY FifoSize DEF Fifos
<1>2. g \in Fifos /\ fifo_capacity(g) = n - 1
  BY FifoGet
<1>3. g.head = UInc(f.head) /\ g.data = f.data
  BY DEF fifo_get, Fifos
<1>4. fifo_contents(f) \in Seq(Byte) /\ Len(fifo_contents(f)) = n
  BY ContentsLen
<1>5. fifo_contents(g) \in Seq(Byte) /\ Len(fifo_contents(g)) = n - 1
  BY <1>2, ContentsLen
<1>6. ASSUME NEW i \in 1 .. n - 1
      PROVE  (g.head + i - 1) % FIFO_LEN = (f.head + (i + 1) - 1) % FIFO_LEN
  <2>1. \/ g.head + i - 1 = f.head + (i + 1) - 1
        \/ (g.head + i - 1) + UINT_MOD = f.head + (i + 1) - 1
    BY <1>1, <1>3, FifoAssumption DEF UInc
  <2>2. g.head + i - 1 \in Nat
    BY <1>2 DEF Fifos
  <2> QED
    BY <2>1, <2>2, ModShift
<1>7. \A i \in 1 .. n : fifo_contents(f)[i] = f.data[(f.head + i - 1) % FIFO_LEN]
  BY Zenon DEF fifo_contents
<1>8. \A i \in 1 .. n - 1 : fifo_contents(g)[i] = f.data[(g.head + i - 1) % FIFO_LEN]
  BY <1>2, <1>3, Zenon DEF fifo_contents
<1>9. \A i \in 1 .. n - 1 : fifo_contents(g)[i] = fifo_contents(f)[i + 1]
  <2>1. \A i \in 1 .. n - 1 : i + 1 \in 1 .. n
    BY <1>1
  <2> QED
    BY <1>6, <1>7, <1>8, <2>1, Zenon
<1>10. fifo_contents(f)[1] = fifo_front(f)
  <2>1. f.head + 1 - 1 = f.head /\ 1 \in 1 .. n
    BY <1>1
  <2> QED
    BY <1>7, <2>1 DEF fifo_front
<1> HIDE DEF n, g
<1> QED
  BY <1>1, <1>4, <1>5, <1>9, <1>10 DEF g

(* The initial state is one of the console's.                              *)
LEMMA InitConsole == Init => C!Init
<1> SUFFICES ASSUME Init PROVE C!Init
  OBVIOUS
<1>1. fifo_capacity(rx_buf) = 0
  BY FifoAssumption DEF Init, fifo_capacity, USub
<1>2. fifo_contents(rx_buf) = <<>>
  BY <1>1 DEF fifo_contents
<1> QED
  BY <1>2 DEF Init, C!Init

(* What serial_console does with a byte is what the console does with it.  *)
LEMMA ConsumeLooks ==
  ASSUME IInv, NEW c \in Byte, Consume(c), ~fifo_is_full(rx_buf),
         UNCHANGED <<typed, eof, received>>
  PROVE  C!Look(c)
<1>1. rx_buf \in Fifos /\ escaped \in BOOLEAN
  BY DEF IInv, TypeOK
<1>2. Len(fifo_contents(rx_buf)) < FIFO_LEN
  BY <1>1, ContentsLen, FifoSize, FifoAssumption
<1>3. CASE escaped /\ c = ExitChar
  <2>1. C!Quit(c)
    BY <1>3, SerialAssumption DEF Consume, C!Quit
  <2> QED
    BY <1>2, <2>1 DEF C!Look
<1>4. CASE ~escaped /\ c = EscapeChar
  <2>1. C!Escape(c)
    BY <1>4, SerialAssumption DEF Consume, C!Escape
  <2> QED
    BY <1>2, <2>1 DEF C!Look
<1>5. CASE IF escaped THEN c # ExitChar ELSE c # EscapeChar
  <2>1. rx_buf' = fifo_put(rx_buf, c) /\ escaped' = FALSE /\ exited' = exited
    BY <1>5 DEF Consume
  <2>2. fifo_contents(rx_buf') = Append(fifo_contents(rx_buf), c)
    BY <1>1, <2>1, PutContents
  <2>3. C!Accept(c)
    BY <1>5, <2>1, <2>2 DEF C!Accept
  <2> QED
    BY <1>2, <2>3 DEF C!Look
<1> QED
  BY <1>1, <1>3, <1>4, <1>5

(* Every step of the two threads and of the terminal is a step of the      *)
(* console or leaves it alone.                                             *)
LEMMA StepConsole == IInv /\ [Next]_vars => [C!Next]_(C!vars)
<1> SUFFICES ASSUME IInv, [Next]_vars PROVE [C!Next]_(C!vars)
  OBVIOUS
<1>a. TypeOK /\ RingBounded
  BY DEF IInv
<1>b. ASSUME UNCHANGED <<rx_buf, typed, eof, rd, escaped, received, exited>>
      PROVE  [C!Next]_(C!vars)
  BY <1>b DEF C!vars
<1>1. CASE WorkerCheck
  BY <1>1, <1>b DEF WorkerCheck, device, terminal
<1>2. CASE WorkerPoll \/ WorkerPollHangUp
  BY <1>2, <1>b DEF WorkerPoll, WorkerPollHangUp, device, terminal
<1>3. CASE WorkerLock
  BY <1>3, <1>b DEF WorkerLock, device, terminal
<1>4. CASE WorkerRelock
  BY <1>4, <1>b DEF WorkerRelock, device, terminal
<1>5. CASE ConsoleReadFails
  BY <1>5, <1>b DEF ConsoleReadFails, device
<1>6. CASE ConsoleEnd
  BY <1>6, <1>b DEF ConsoleEnd, device, terminal
<1>7. CASE ConsoleReady \/ WorkerIir \/ WorkerIrq
  BY <1>7, <1>b DEF ConsoleReady, WorkerIir, WorkerIrq, terminal
<1>8. CASE SpuriousWakeup
  BY <1>8, <1>b DEF SpuriousWakeup, device, terminal
<1>9. CASE SerialOutTX \/ \E v \in SUBSET Ier : SerialOutIER(v)
  BY <1>9, <1>b DEF SerialOutTX, SerialOutIER, threads, terminal
<1>10. CASE \/ \E b \in BOOLEAN : SerialOutLCR(b)
            \/ \E r \in StoredRegs, v \in RegVals : SerialOutStored(r, v)
  BY <1>10, <1>b DEF SerialOutLCR, SerialOutStored, threads, terminal
<1>11. CASE SerialExit \/ SerialJoin
  BY <1>11, <1>b DEF SerialExit, SerialJoin, device, terminal
<1>12. CASE UNCHANGED vars
  BY <1>12, <1>b DEF vars, device, threads, terminal
<1>13. CASE ~exited /\ HangUp
  <2>1. C!HangUp
    BY <1>13 DEF HangUp, C!HangUp, device, threads
  <2> QED
    BY <1>13, <2>1 DEF C!Next
<1>14. ASSUME ~exited, NEW c \in Byte, TypeChar(c)
       PROVE  [C!Next]_(C!vars)
  <2>1. C!Type(c)
    BY <1>14 DEF TypeChar, C!Type, device, threads
  <2> QED
    BY <1>14, <2>1 DEF C!Next
<1>15. CASE ~exited /\ ConsoleRead
  <2>1. typed[rd + 1] \in Byte
    BY <1>a, <1>15 DEF ConsoleRead, TypeOK
  <2>2. C!Look(typed[rd + 1])
    BY <1>15, <2>1, ConsumeLooks DEF ConsoleRead
  <2>3. C!Take
    BY <1>15, <2>2 DEF ConsoleRead, C!Take
  <2> QED
    BY <1>15, <2>3 DEF C!Next
<1>16. CASE ~exited /\ ConsoleReadEof
  <2>1. PICK c \in Byte : Consume(c)
    BY <1>16 DEF ConsoleReadEof
  <2>2. C!Look(c)
    BY <1>16, <2>1, ConsumeLooks DEF ConsoleReadEof
  <2>3. eof /\ rd = Len(typed) /\ UNCHANGED rd
    BY <1>a, <1>16 DEF ConsoleReadEof, serial_readable, TypeOK
  <2>4. C!Invent
    BY <2>2, <2>3 DEF C!Invent
  <2> QED
    BY <1>16, <2>4 DEF C!Next
<1>17. CASE ~exited /\ SerialInRX
  <2>1. CASE fifo_is_empty(rx_buf)
    BY <1>17, <2>1, <1>b DEF SerialInRX, terminal
  <2>2. CASE ~fifo_is_empty(rx_buf)
    <3>1. rx_buf' = fifo_get(rx_buf) /\ received' = Append(received, fifo_front(rx_buf))
      BY <1>17, <2>2 DEF SerialInRX
    <3>2. /\ fifo_contents(rx_buf) # <<>>
          /\ Head(fifo_contents(rx_buf)) = fifo_front(rx_buf)
          /\ Tail(fifo_contents(rx_buf)) = fifo_contents(rx_buf')
      BY <1>a, <2>2, <3>1, GetContents DEF TypeOK, RingBounded
    <3>3. C!Deliver
      BY <1>17, <3>1, <3>2 DEF SerialInRX, terminal, C!Deliver
    <3> QED
      BY <1>17, <3>3 DEF C!Next
  <2> QED
    BY <2>1, <2>2
<1> QED
  BY <1>1, <1>2, <1>3, <1>4, <1>5, <1>6, <1>7, <1>8, <1>9, <1>10, <1>11, <1>12, <1>13,
     <1>14, <1>15, <1>16, <1>17, Zenon DEF Next, Finished, Worker, Guest, Terminal

(* serial.c implements the console, for every length of the ring and width *)
(* of its counters and every interleaving: each byte typed goes through    *)
(* the escape filter once, in order, and none is lost, made up or read     *)
(* twice.                                                                  *)
THEOREM ImplementsConsole == Spec => ConsoleSpec
  BY InitConsole, StepConsole, Invariance, PTL DEF Spec, ConsoleSpec, C!Spec
=============================================================================
