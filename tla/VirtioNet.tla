------------------------------ MODULE VirtioNet ------------------------------
(***************************************************************************)
(* The virtio network device of src/src/virtio-net.c: a receive thread and *)
(* a transmit thread, each with a packed queue (virtq.c), sharing the ISR  *)
(* register (virtio-pci.c) and the irqfd.  A buffer is one descriptor and  *)
(* each run of virtq_handle_avail serves at most one.                      *)
(*                                                                         *)
(* The device keeps the event flags of each queue in the area at           *)
(* info.driver_addr.  struct virtq_info has device_addr before driver_addr,*)
(* the common configuration the other way round, so this is the area the   *)
(* driver reads: ENABLE and DISABLE there decide whether it rings the      *)
(* doorbell.  The tap, KVM and the driver (Linux's) are external.          *)
(***************************************************************************)
EXTENDS Virtq, Sequences

CONSTANTS MaxPackets,   \* bound: packets in each direction
          MaxFaults     \* bound: failed reads and writes of the tap

ASSUME NetAssumption == MaxPackets \in Nat /\ MaxFaults \in Nat

Queues == {"rx", "tx"}

VARIABLES
    ring,       \* [queue -> [slot -> [flags, pkt]]], in guest memory
    avail,      \* [queue -> position]: the driver's, for its next buffer
    last_used,  \* [queue -> position]: the driver's, for the next used one
    unkicked,   \* the driver has added to tx and not yet looked at its flags
    gpc,        \* the guest: "run", "clear" and "reap" in its IRQ handler
    seen,       \* what the guest's last read of ISR returned
    got,        \* packets the driver has received, in order
    xmit,       \* how many packets the driver has put on tx
    enable,     \* [queue -> vq->info.enable]
    dev,        \* [queue -> next_avail_idx and used_wrap_count]
    tpc,        \* [queue -> where its thread is]
    cur,        \* [queue -> slot of the descriptor its thread has taken]
    event,      \* [queue -> guest_event->flags is ENABLE]
    tx_ioeventfd, \* it is readable
    isr, intr,  \* as in VirtioBlk: ISR bit, interrupt pending
    arrived,    \* how many packets have come in on the tap
    tap_in,     \* those not yet read by the device
    tap_out,    \* packets written to the tap, in order
    faults      \* [queue -> failed reads or writes of the tap so far]

driver == <<avail, last_used, unkicked, gpc, seen, got, xmit>>
device == <<enable, dev, tpc, cur, event, tx_ioeventfd, isr, intr>>
tap == <<arrived, tap_in, tap_out, faults>>
vars == <<ring, driver, device, tap>>

Empty == [flags |-> [avail |-> FALSE, used |-> FALSE, next |-> FALSE], pkt |-> 0]

Init ==
    /\ ring = [q \in Queues |-> [i \in Slots |-> Empty]]
    /\ avail = [q \in Queues |-> FirstPosition]
    /\ last_used = [q \in Queues |-> FirstPosition]
    /\ dev = [q \in Queues |-> FirstPosition]
    /\ unkicked = FALSE /\ gpc = "run" /\ seen = FALSE /\ got = <<>> /\ xmit = 0
    /\ enable = [q \in Queues |-> FALSE]
    /\ tpc = [q \in Queues |-> "off"]
    /\ cur = [q \in Queues |-> 0]
    /\ event = [q \in Queues |-> TRUE]
    /\ tx_ioeventfd = FALSE /\ isr = FALSE /\ intr = FALSE
    /\ arrived = 0 /\ tap_in = <<>> /\ tap_out = <<>> /\ faults = [q \in Queues |-> 0]

-----------------------------------------------------------------------------
(* The driver (external).                                                  *)

(* Q_ENABLE: virtio_net_enable_vq_rx and _tx start the queue's thread.     *)
EnableVq(q) ==
    /\ gpc = "run" /\ ~enable[q]
    /\ enable' = [enable EXCEPT ![q] = TRUE]
    /\ tpc' = [tpc EXCEPT ![q] = "event"]
    /\ UNCHANGED <<ring, driver, dev, cur, event, tx_ioeventfd, isr, intr, tap>>

(* Make a buffer with packet p available.                                  *)
Offer(q, p) ==
    /\ enable[q]
    /\ Dist(last_used[q], avail[q]) < QSize
    /\ ring' = [ring EXCEPT ![q][avail[q].idx] =
                   [flags |-> AvailFlags(avail[q].wrap, FALSE), pkt |-> p]]
    /\ avail' = [avail EXCEPT ![q] = Ahead(avail[q], 1)]

(* Post an empty receive buffer.  Its doorbell signals rx_ioeventfd, which *)
(* nothing reads.                                                          *)
PostRx ==
    /\ gpc = "run" /\ Offer("rx", 0)
    /\ UNCHANGED <<last_used, unkicked, gpc, seen, got, xmit, device, tap>>

Xmit ==
    /\ gpc = "run" /\ xmit < MaxPackets /\ ~unkicked
    /\ Offer("tx", xmit + 1)
    /\ xmit' = xmit + 1
    /\ unkicked' = TRUE
    /\ UNCHANGED <<last_used, gpc, seen, got, device, tap>>

(* The driver looks at the queue's event flags and rings the doorbell      *)
(* unless they say DISABLE; KVM matches the 2-byte store and signals       *)
(* tx_ioeventfd.                                                           *)
KickTx ==
    /\ gpc = "run" /\ unkicked
    /\ unkicked' = FALSE
    /\ tx_ioeventfd' = (tx_ioeventfd \/ event["tx"])
    /\ UNCHANGED <<ring, avail, last_used, gpc, seen, got, xmit, enable, dev, tpc, cur,
                   event, isr, intr, tap>>

(* The interrupt handler reads ISR: virtio_pci_space_read copies it out,   *)
(* then clears it, on the vCPU thread.                                     *)
IsrRead ==
    /\ gpc = "run" /\ intr
    /\ intr' = FALSE
    /\ seen' = isr
    /\ gpc' = "clear"
    /\ UNCHANGED <<ring, avail, last_used, unkicked, got, xmit, enable, dev, tpc, cur,
                   event, tx_ioeventfd, isr, tap>>

IsrClear ==
    /\ gpc = "clear"
    /\ isr' = FALSE
    /\ gpc' = IF seen THEN "reap" ELSE "run"
    /\ UNCHANGED <<ring, avail, last_used, unkicked, seen, got, xmit, enable, dev, tpc,
                   cur, event, tx_ioeventfd, intr, tap>>

HasUsed(q) == IsUsed(ring[q][last_used[q].idx].flags, last_used[q].wrap)

(* Take the next used buffer of a queue back; one of rx holds a packet.    *)
Reap(q) ==
    /\ gpc = "reap" /\ HasUsed(q)
    /\ last_used' = [last_used EXCEPT ![q] = Ahead(last_used[q], 1)]
    /\ got' = IF q = "rx" THEN Append(got, ring[q][last_used[q].idx].pkt) ELSE got
    /\ UNCHANGED <<ring, avail, unkicked, gpc, seen, xmit, device, tap>>

ReapDone ==
    /\ gpc = "reap" /\ \A q \in Queues : ~HasUsed(q)
    /\ gpc' = "run"
    /\ UNCHANGED <<ring, avail, last_used, unkicked, seen, got, xmit, device, tap>>

(* A packet comes in on the tap.                                           *)
Arrive ==
    /\ arrived < MaxPackets
    /\ arrived' = arrived + 1
    /\ tap_in' = Append(tap_in, arrived + 1)
    /\ UNCHANGED <<ring, driver, device, tap_out, faults>>

-----------------------------------------------------------------------------
(* The two threads: virtio_net_vq_avail_handler_rx and _tx.                *)

Goto(q, pc) == tpc' = [tpc EXCEPT ![q] = pc]

(* The top of the loop puts the event flags back to ENABLE.                *)
SetEvent(q) ==
    /\ tpc[q] = "event"
    /\ event' = [event EXCEPT ![q] = TRUE]
    /\ Goto(q, "poll")
    /\ UNCHANGED <<ring, driver, enable, dev, cur, tx_ioeventfd, isr, intr, tap>>

(* virtio_net_virtq_available_rx: wait for a packet on the tap.            *)
PollRx ==
    /\ tpc["rx"] = "poll" /\ tap_in # <<>>
    /\ Goto("rx", "take")
    /\ UNCHANGED <<ring, driver, enable, dev, cur, event, tx_ioeventfd, isr, intr, tap>>

(* Variant: the signal is taken off the eventfd before the queue is served.*)
PollTxDraining ==
    /\ tpc["tx"] = "poll" /\ tx_ioeventfd
    /\ Goto("tx", "take")
    /\ tx_ioeventfd' = FALSE
    /\ UNCHANGED <<ring, driver, enable, dev, cur, event, isr, intr, tap>>

(* virtio_net_virtq_available_tx: there has been a doorbell and the tap    *)
(* can be written.  The eventfd is never read: after the first doorbell it *)
(* stays readable.                                                         *)
PollTx ==
    /\ tpc["tx"] = "poll" /\ tx_ioeventfd
    /\ Goto("tx", "take")
    /\ UNCHANGED <<ring, driver, enable, dev, cur, event, tx_ioeventfd, isr, intr, tap>>

(* poll(2) returns with one of the two only, and the loop goes round.      *)
PollTxAgain ==
    /\ tpc["tx"] = "poll"
    /\ Goto("tx", "event")
    /\ UNCHANGED <<ring, driver, enable, dev, cur, event, tx_ioeventfd, isr, intr, tap>>

Here(q) == ring[q][dev[q].idx]
CanTake(q) == tpc[q] = "take" /\ IsAvail(Here(q).flags, dev[q].wrap)

(* virtq_get_avail returned NULL: the flags are set to DISABLE.            *)
NothingAvail(q) ==
    /\ tpc[q] = "take" /\ ~IsAvail(Here(q).flags, dev[q].wrap)
    /\ event' = [event EXCEPT ![q] = FALSE]
    /\ Goto(q, "notify")
    /\ UNCHANGED <<ring, driver, enable, dev, cur, tx_ioeventfd, isr, intr, tap>>

(* virtq_get_avail moves on past the descriptor it returns.                *)
Took(q) ==
    /\ dev' = [dev EXCEPT ![q] = Step(@)]
    /\ cur' = [cur EXCEPT ![q] = dev[q].idx]

(* A packet is read into the buffer, after the header.                     *)
RxPacket ==
    /\ CanTake("rx") /\ tap_in # <<>>
    /\ Took("rx")
    /\ ring' = [ring EXCEPT !["rx"][dev["rx"].idx].pkt = Head(tap_in)]
    /\ tap_in' = Tail(tap_in)
    /\ Goto("rx", "used")
    /\ UNCHANGED <<driver, enable, event, tx_ioeventfd, isr, intr, arrived, tap_out,
                   faults>>

(* Variant: the buffer of the descriptor taken before is sent.             *)
TxPacketStale ==
    /\ CanTake("tx")
    /\ Took("tx")
    /\ tap_out' = Append(tap_out, ring["tx"][cur["tx"]].pkt)
    /\ Goto("tx", "used")
    /\ UNCHANGED <<ring, driver, enable, event, tx_ioeventfd, isr, intr, arrived, tap_in,
                   faults>>

(* The packet in the buffer is written to the tap.                         *)
TxPacket ==
    /\ CanTake("tx")
    /\ Took("tx")
    /\ tap_out' = Append(tap_out, Here("tx").pkt)
    /\ Goto("tx", "used")
    /\ UNCHANGED <<ring, driver, enable, event, tx_ioeventfd, isr, intr, arrived, tap_in,
                   faults>>

(* Variant: a failed transfer goes on as if it had succeeded.              *)
TapFailsUnseen(q) ==
    /\ CanTake(q) /\ faults["rx"] + faults["tx"] < MaxFaults
    /\ Took(q)
    /\ faults' = [faults EXCEPT ![q] = @ + 1]
    /\ Goto(q, "used")
    /\ UNCHANGED <<ring, driver, enable, event, tx_ioeventfd, isr, intr, arrived, tap_in,
                   tap_out>>

(* read(2) or writev(2) fails (the tap has gone down since it was polled), *)
(* or a buffer to send is shorter than its header: the descriptor has been *)
(* taken and is not given back.                                            *)
TapFails(q) ==
    /\ CanTake(q) /\ faults["rx"] + faults["tx"] < MaxFaults
    /\ Took(q)
    /\ faults' = [faults EXCEPT ![q] = @ + 1]
    /\ event' = [event EXCEPT ![q] = FALSE]
    /\ Goto(q, "notify")
    /\ UNCHANGED <<ring, driver, enable, tx_ioeventfd, isr, intr, arrived, tap_in, tap_out>>

Used(q) ==
    /\ tpc[q] = "used"
    /\ ring' = [ring EXCEPT ![q][cur[q]].flags = MarkUsed(@)]
    /\ Goto(q, "isr")
    /\ UNCHANGED <<driver, enable, dev, cur, event, tx_ioeventfd, isr, intr, tap>>

SetIsr(q) ==
    /\ tpc[q] = "isr"
    /\ isr' = TRUE
    /\ Goto(q, "notify")
    /\ UNCHANGED <<ring, driver, enable, dev, cur, event, tx_ioeventfd, intr, tap>>

(* The end of virtq_handle_avail: irqfd is written unless the flags, which *)
(* the thread itself has just set, say DISABLE.                            *)
Notify(q) ==
    /\ tpc[q] = "notify"
    /\ intr' = (intr \/ event[q])
    /\ Goto(q, "event")
    /\ UNCHANGED <<ring, driver, enable, dev, cur, event, tx_ioeventfd, isr, tap>>

-----------------------------------------------------------------------------
RxThread ==
    \/ SetEvent("rx") \/ PollRx \/ NothingAvail("rx") \/ RxPacket \/ TapFails("rx")
    \/ Used("rx") \/ SetIsr("rx") \/ Notify("rx")

TxThread ==
    \/ SetEvent("tx") \/ PollTx \/ PollTxAgain \/ NothingAvail("tx") \/ TxPacket \/ TapFails("tx")
    \/ Used("tx") \/ SetIsr("tx") \/ Notify("tx")

GuestIrq == IsrRead \/ IsrClear \/ ReapDone \/ \E q \in Queues : Reap(q)

Next ==
    \/ \E q \in Queues : EnableVq(q)
    \/ PostRx \/ Xmit \/ KickTx \/ GuestIrq \/ Arrive
    \/ RxThread \/ TxThread

Spec == Init /\ [][Next]_vars

(* The threads run, the tap can be written again and again, a pending      *)
(* interrupt is taken, and the driver looks at the event flags after       *)
(* adding a packet.                                                        *)
LiveSpec ==
    /\ Spec
    /\ WF_vars(RxThread) /\ WF_vars(TxThread) /\ SF_vars(PollTx)
    /\ WF_vars(GuestIrq) /\ WF_vars(KickTx)

-----------------------------------------------------------------------------
TypeOK ==
    /\ ring \in [Queues -> [Slots ->
                   [flags : [avail : BOOLEAN, used : BOOLEAN, next : BOOLEAN],
                    pkt : 0 .. MaxPackets]]]
    /\ {avail, last_used, dev} \subseteq [Queues -> Positions]
    /\ tpc \in [Queues -> {"off", "event", "poll", "take", "used", "isr", "notify"}]
    /\ cur \in [Queues -> Slots]
    /\ {enable, event} \subseteq [Queues -> BOOLEAN]
    /\ gpc \in {"run", "clear", "reap"}
    /\ {unkicked, seen, tx_ioeventfd, isr, intr} \subseteq BOOLEAN
    /\ xmit \in 0 .. MaxPackets /\ arrived \in 0 .. MaxPackets
    /\ faults \in [Queues -> 0 .. MaxFaults]

Increasing(s) == \A i, j \in DOMAIN s : i < j => s[i] < s[j]

(* A buffer the driver may take back has been through the tap: a used      *)
(* transmit buffer's packet was written, a used receive buffer holds a     *)
(* packet, also after a transfer that failed.                              *)
UsedMeansDone ==
    /\ HasUsed("tx") => \E i \in DOMAIN tap_out :
                           tap_out[i] = ring["tx"][last_used["tx"].idx].pkt
    /\ HasUsed("rx") => ring["rx"][last_used["rx"].idx].pkt # 0

(* Packets go out and come in in the order they were handed over, none     *)
(* twice, whatever fails and however often the rings wrap.                 *)
InOrderOnce == Increasing(tap_out) /\ Increasing(got)

(* Each thread's position stays between the driver's two.                  *)
DeviceInWindow ==
    \A q \in Queues : Dist(last_used[q], dev[q]) \in 0 .. Dist(last_used[q], avail[q])

(* The transmit thread is never left blind to a packet: once the driver is *)
(* past its doorbell decision, a packet it has added keeps tx_ioeventfd    *)
(* readable, although the doorbell is skipped while the flags say DISABLE. *)
PacketKeepsSignal ==
    dev["tx"] # avail["tx"] /\ ~unkicked => tx_ioeventfd

(* Every packet the driver hands over is in the end taken by the transmit  *)
(* thread and, unless that transfer fails, written to the tap.             *)
AllSent == []<>(dev["tx"] = avail["tx"] /\ Len(tap_out) + faults["tx"] = xmit)

(* The host's interrupt makes the driver find what was completed: no used  *)
(* buffer stays in a ring for ever.                                        *)
CompletionsFound == []<>(\A q \in Queues : ~HasUsed(q))
=============================================================================
