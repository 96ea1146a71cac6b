------------------------------ MODULE VirtioBlk ------------------------------
(***************************************************************************)
(* The virtio block device of src/src/virtio-blk.c on the packed queue of  *)
(* virtq.c, with the doorbell and ISR registers of virtio-pci.c.           *)
(*                                                                         *)
(* A doorbell reaches the device in one of two ways.  KVM turns a store of *)
(* exactly the length the ioeventfd was registered with into a signal on   *)
(* the ioeventfd; any other store leaves the guest, and the vCPU thread    *)
(* runs virtq_handle_avail itself while the guest waits.  The same handler *)
(* therefore runs on the vCPU thread ("vcpu") or on the vq_avail_thread    *)
(* ("avail").  The driver and KVM are external; the driver is Linux's:     *)
(* chains of header, data and status, an interrupt handler that reads ISR  *)
(* and takes used chains back only if it was not zero.                     *)
(***************************************************************************)
EXTENDS Virtq, Sequences

CONSTANTS Sectors,      \* sectors of the disk image, 0 .. n
          Vals,         \* contents a sector can be given
          Types,        \* request types the driver sends
          Lens,         \* lengths of a request's data, in sectors
          LEN_MOD,      \* one more than the largest uint16_t data_size
          DoorbellLens, \* lengths a driver's store to the doorbell may have
          MayFail,      \* whether a read or write of the image may fail
          MaxReqs       \* bound: requests submitted

ASSUME BlkAssumption ==
    /\ QSize >= 3
    /\ Sectors \subseteq Nat /\ \A s \in Sectors : 0 .. s \subseteq Sectors
    /\ Types \subseteq {"IN", "OUT", "GET_ID"}
    /\ Lens \subseteq Nat \ {0} /\ LEN_MOD \in Nat \ {0}
    /\ DoorbellLens \subseteq Nat /\ MayFail \in BOOLEAN /\ MaxReqs \in Nat

VARIABLES
    ring,       \* the descriptors, in guest memory
    reqs,       \* the requests in guest memory, with their data and status
    avail,      \* the driver's position for the next chain
    last_used,  \* the driver's position for the next used chain
    doorbell,   \* bytes of this driver's store to the doorbell
    unkicked,   \* the driver has added chains since its last doorbell
    gpc,        \* the guest: "run", "clear" and "reap" in its IRQ handler
    seen,       \* what the guest's last read of ISR returned
    taken,      \* the answers the driver has taken, in order
    enable,     \* vq->info.enable
    dev,        \* vq->next_avail_idx and vq->used_wrap_count
    h,          \* the run of virtq_handle_avail in progress
    disk,       \* the disk image
    isr,        \* isr_status, VIRTIO_PCI_ISR_QUEUE
    intr,       \* an interrupt is pending in the guest
    ioeventfd,  \* dev->ioeventfd is readable
    killed,     \* the process was ended by an unhandled signal
    answers     \* history: the results of the requests executed

driver == <<avail, last_used, doorbell, unkicked, gpc, seen, taken>>
host == <<enable, dev, h, disk, isr, intr, ioeventfd, killed, answers>>
vars == <<ring, reqs, driver, host>>

-----------------------------------------------------------------------------
Roles == <<"hdr", "data", "status">>

Unused == [flags |-> [avail |-> FALSE, used |-> FALSE, next |-> FALSE],
           role |-> "none", req |-> 0]

Requests == {r \in [type : Types, sector : Sectors, val : Vals, len : Lens] :
                r.sector + r.len - 1 \in Sectors}

(* No run of the handler is in progress.                                   *)
Idle == [by |-> "none", pc |-> "idle", head |-> 0, cur |-> 0, type |-> "none",
         req |-> 0, status |-> "none"]

Init ==
    /\ ring = [i \in Slots |-> Unused]
    /\ reqs = <<>> /\ taken = <<>> /\ answers = <<>>
    /\ avail = FirstPosition /\ last_used = FirstPosition /\ dev = FirstPosition
    /\ doorbell \in DoorbellLens
    /\ unkicked = FALSE /\ gpc = "run" /\ seen = FALSE
    /\ enable = FALSE /\ h = Idle
    /\ disk = [s \in Sectors |-> "zero"]
    /\ isr = FALSE /\ intr = FALSE /\ ioeventfd = FALSE /\ killed = FALSE

(* The length virtio_blk_enable_vq registers the ioeventfd with: that of   *)
(* the notify capability, sizeof(struct virtio_pci_notify_data).           *)
NotifyCapLength == 4

-----------------------------------------------------------------------------
(* The driver (external).  The guest stands still while its vCPU thread is *)
(* out of the guest, in the handler.                                       *)

GuestRuns == ~killed /\ h.by # "vcpu"

(* The guest sets the queue up and writes Q_ENABLE: virtio_blk_enable_vq   *)
(* maps the ring, registers the ioeventfd and starts the vq_avail_thread,  *)
(* the first time only.                                                    *)
EnableVq ==
    /\ GuestRuns /\ gpc = "run"
    /\ ~enable
    /\ enable' = TRUE
    /\ UNCHANGED <<ring, reqs, driver, dev, h, disk, isr, intr, ioeventfd, killed,
                   answers>>

(* Add a chain of three descriptors; the head's flags are written last.    *)
Submit(r) ==
    /\ GuestRuns /\ gpc = "run" /\ enable
    /\ Len(reqs) < MaxReqs
    /\ Dist(last_used, avail) + 3 <= QSize
    /\ reqs' = Append(reqs, [ask |-> r, status |-> "unwritten",
                             data |-> [k \in 0 .. r.len - 1 |-> "unwritten"]])
    /\ LET at(k) == Ahead(avail, k)
           chain == {at(k).idx : k \in 0 .. 2}
           nth(i) == CHOOSE k \in 0 .. 2 : at(k).idx = i
       IN  ring' = [i \in Slots |->
                      IF i \in chain
                        THEN [flags |-> AvailFlags(at(nth(i)).wrap, nth(i) < 2),
                              role |-> Roles[nth(i) + 1], req |-> Len(reqs) + 1]
                        ELSE ring[i]]
    /\ avail' = Ahead(avail, 3)
    /\ unkicked' = TRUE
    /\ UNCHANGED <<last_used, doorbell, gpc, seen, taken, host>>

(* Ring the doorbell.  A store KVM does not match goes through             *)
(* virtio_pci_space_write to virtq_handle_avail.                           *)
Kick ==
    /\ GuestRuns /\ gpc = "run" /\ unkicked
    /\ unkicked' = FALSE
    /\ IF doorbell = NotifyCapLength
         THEN ioeventfd' = TRUE /\ UNCHANGED h
         ELSE /\ h' = IF enable THEN [Idle EXCEPT !.by = "vcpu", !.pc = "head"] ELSE h
              /\ UNCHANGED ioeventfd
    /\ UNCHANGED <<ring, reqs, avail, last_used, doorbell, gpc, seen, taken, enable, dev,
                   disk, isr, intr, killed, answers>>

(* The interrupt handler reads ISR: virtio_pci_space_read copies it out,   *)
(* then clears it.                                                         *)
IsrRead ==
    /\ GuestRuns /\ gpc = "run" /\ intr
    /\ intr' = FALSE
    /\ seen' = isr
    /\ gpc' = "clear"
    /\ UNCHANGED <<ring, reqs, avail, last_used, doorbell, unkicked, taken, enable, dev,
                   h, disk, isr, ioeventfd, killed, answers>>

IsrClear ==
    /\ GuestRuns /\ gpc = "clear"
    /\ isr' = FALSE
    /\ gpc' = IF seen THEN "reap" ELSE "run"
    /\ UNCHANGED <<ring, reqs, avail, last_used, doorbell, unkicked, seen, taken, enable,
                   dev, h, disk, intr, ioeventfd, killed, answers>>

(* What the driver finds in its memory for a used request.                 *)
AnswerSeen(r) ==
    [status |-> r.status,
     data |-> IF r.ask.type = "IN" /\ r.status = "OK" THEN r.data ELSE <<>>]

Reap ==
    /\ GuestRuns /\ gpc = "reap"
    /\ IF IsUsed(ring[last_used.idx].flags, last_used.wrap)
         THEN /\ taken' = Append(taken, AnswerSeen(reqs[ring[last_used.idx].req]))
              /\ last_used' = Ahead(last_used, 3)
              /\ UNCHANGED gpc
         ELSE gpc' = "run" /\ UNCHANGED <<taken, last_used>>
    /\ UNCHANGED <<ring, reqs, avail, doorbell, unkicked, seen, host>>

-----------------------------------------------------------------------------
(* The two threads of the device.                                          *)

(* virtio_blk_vq_avail_handler: read(2) takes the signal, then the handler *)
(* runs.                                                                   *)
AvailThread ==
    /\ ~killed /\ enable /\ ioeventfd /\ h = Idle
    /\ ioeventfd' = FALSE
    /\ h' = [Idle EXCEPT !.by = "avail", !.pc = "head"]
    /\ UNCHANGED <<ring, reqs, driver, enable, dev, disk, isr, intr, killed, answers>>

(* virtio_blk_thread: it polls the same ioeventfd and sends SIGUSR1, for   *)
(* which nothing installs a handler.                                       *)
BlkThread ==
    /\ ~killed /\ ioeventfd
    /\ killed' = TRUE
    /\ UNCHANGED <<ring, reqs, driver, enable, dev, h, disk, isr, intr, ioeventfd,
                   answers>>

-----------------------------------------------------------------------------
(* virtio_blk_complete_request, one descriptor at a time.                  *)

At(pc) == ~killed /\ h.pc = pc
Here == ring[dev.idx]

(* virtq_get_avail for the head of a chain; NULL ends the loop.  The       *)
(* request header is copied from the buffer: of a descriptor that is not a *)
(* header, one byte lands in req.type, over what was there.                *)
TakeHead ==
    /\ At("head")
    /\ IF IsAvail(Here.flags, dev.wrap)
         THEN /\ dev' = Step(dev)
              /\ \E t \in IF Here.role = "hdr" THEN {reqs[Here.req].ask.type}
                                               ELSE {"IN", "OUT", "GET_ID"} :
                    h' = [h EXCEPT !.head = dev.idx, !.cur = dev.idx, !.type = t,
                                   !.req = Here.req, !.status = "UNSUPP",
                                   !.pc = IF t \in {"IN", "OUT"} THEN "data"
                                                                 ELSE "status"]
         ELSE h' = [h EXCEPT !.pc = "notify"] /\ UNCHANGED dev
    /\ UNCHANGED <<ring, reqs, driver, enable, disk, isr, intr, ioeventfd, killed,
                   answers>>

(* A chain that ends early makes the function return.                      *)
ChainEnds ==
    /\ At("data") \/ At("status")
    /\ ~virtq_check_next(ring[h.cur].flags)
    /\ h' = [h EXCEPT !.pc = "notify"]
    /\ UNCHANGED <<ring, reqs, driver, enable, dev, disk, isr, intr, ioeventfd, killed,
                   answers>>

(* virtq_get_avail inside a chain: its result is not tested.               *)
NextInChain ==
    /\ virtq_check_next(ring[h.cur].flags)
    /\ IsAvail(Here.flags, dev.wrap)
    /\ dev' = Step(dev)

(* req.data_size is a uint16_t.                                            *)
DataSizeNarrow(r) == r.len % 2   \* variant
DataSize(r) == r.len % LEN_MOD

(* The image's answer is in r < 0 or not; how much was moved is not kept.  *)
DataDone(status, data) ==
    /\ h' = [h EXCEPT !.pc = "status", !.cur = dev.idx, !.status = status]
    /\ answers' = Append(answers, [status |-> status, data |-> data])
    /\ UNCHANGED <<ring, driver, enable, isr, intr, ioeventfd, killed>>

DataIn ==
    /\ At("data") /\ h.type = "IN" /\ NextInChain
    /\ LET r == reqs[Here.req]
           d == [k \in 0 .. r.ask.len - 1 |->
                   IF k < DataSize(r.ask) THEN disk[r.ask.sector + k] ELSE r.data[k]]
       IN  /\ reqs' = [reqs EXCEPT ![Here.req].data = d]
           /\ DataDone("OK", d)
    /\ UNCHANGED disk

DataOut ==
    /\ At("data") /\ h.type = "OUT" /\ NextInChain
    /\ LET r == reqs[Here.req].ask
       IN  disk' = [s \in Sectors |-> IF s \in r.sector .. r.sector + DataSize(r) - 1
                                        THEN r.val ELSE disk[s]]
    /\ DataDone("OK", <<>>)
    /\ UNCHANGED reqs

DataFails ==
    /\ At("data") /\ MayFail /\ NextInChain
    /\ DataDone("IOERR", <<>>)
    /\ UNCHANGED <<reqs, disk>>

(* The byte the next descriptor points to is given the status.             *)
Status ==
    /\ At("status") /\ NextInChain
    /\ h' = [h EXCEPT !.pc = "used", !.cur = dev.idx]
    /\ reqs' = IF Here.role = "status"
                 THEN [reqs EXCEPT ![Here.req].status = h.status]
                 ELSE reqs
    /\ answers' = IF h.type \in {"IN", "OUT"} THEN answers
                  ELSE Append(answers, [status |-> h.status, data |-> <<>>])
    /\ UNCHANGED <<ring, driver, enable, disk, isr, intr, ioeventfd, killed>>

Used ==
    /\ At("used")
    /\ ring' = [ring EXCEPT ![h.head].flags = MarkUsed(@)]
    /\ h' = [h EXCEPT !.pc = "isr"]
    /\ UNCHANGED <<reqs, driver, enable, dev, disk, isr, intr, ioeventfd, killed, answers>>

SetIsrMissing ==   \* variant
    /\ At("isr")
    /\ h' = [h EXCEPT !.pc = "head"]
    /\ UNCHANGED <<ring, reqs, driver, enable, dev, disk, isr, intr, ioeventfd, killed,
                   answers>>
SetIsr ==
    /\ At("isr")
    /\ isr' = TRUE
    /\ h' = [h EXCEPT !.pc = "head"]
    /\ UNCHANGED <<ring, reqs, driver, enable, dev, disk, intr, ioeventfd, killed, answers>>

(* virtq_handle_avail after the requests: the flags it tests are never     *)
(* changed from ENABLE for this device, so irqfd is always written.        *)
NotifyNever ==   \* variant
    /\ At("notify")
    /\ h' = Idle
    /\ UNCHANGED <<ring, reqs, driver, enable, dev, disk, isr, intr, ioeventfd, killed,
                   answers>>
Notify ==
    /\ At("notify")
    /\ intr' = TRUE
    /\ h' = Idle
    /\ UNCHANGED <<ring, reqs, driver, enable, dev, disk, isr, ioeventfd, killed, answers>>

-----------------------------------------------------------------------------
Handler ==
    \/ TakeHead \/ ChainEnds \/ DataIn \/ DataOut \/ DataFails \/ Status
    \/ Used \/ SetIsr \/ Notify

GuestIrq == IsrRead \/ IsrClear \/ Reap

Next ==
    \/ EnableVq \/ Kick \/ GuestIrq
    \/ \E r \in Requests : Submit(r)
    \/ AvailThread \/ BlkThread
    \/ Handler

Spec == Init /\ [][Next]_vars

(* The handler's thread runs; the driver rings the doorbell for what it    *)
(* has added, and a pending interrupt is taken.                            *)
LiveSpec ==
    /\ Spec
    /\ WF_vars(Handler) /\ WF_vars(AvailThread)
    /\ WF_vars(Kick) /\ WF_vars(GuestIrq)

-----------------------------------------------------------------------------
TypeOK ==
    /\ ring \in [Slots -> [flags : [avail : BOOLEAN, used : BOOLEAN, next : BOOLEAN],
                           role : {"none", "hdr", "data", "status"},
                           req : 0 .. Len(reqs)]]
    /\ \A i \in DOMAIN reqs :
          /\ reqs[i].ask \in Requests
          /\ reqs[i].status \in {"unwritten", "OK", "IOERR", "UNSUPP"}
    /\ {avail, last_used, dev} \subseteq Positions
    /\ gpc \in {"run", "clear", "reap"}
    /\ h.by \in {"none", "vcpu", "avail"}
    /\ h.pc \in {"idle", "head", "data", "status", "used", "isr", "notify"}
    /\ h.head \in Slots /\ h.cur \in Slots /\ h.req \in 0 .. Len(reqs)
    /\ {unkicked, seen, enable, isr, intr, ioeventfd, killed} \subseteq BOOLEAN

(* The device's position stays between the driver's two: it never runs     *)
(* past what was made available, and never takes a descriptor of a chain   *)
(* it has given back, although it tells a descriptor's lap from two bits.  *)
DeviceInWindow == Dist(last_used, dev) \in 0 .. Dist(last_used, avail)

(* virtq_get_avail does not return NULL inside a chain, where its result   *)
(* is used without a test.                                                 *)
ChainComplete ==
    (At("data") \/ At("status")) /\ virtq_check_next(ring[h.cur].flags)
        => IsAvail(Here.flags, dev.wrap)

(* An answer with nobody left to announce it: while chains are used and    *)
(* not taken, the handler is still running, an interrupt is pending, or    *)
(* the driver is in its handler.  (On the vCPU thread the guest cannot     *)
(* read ISR in the middle of the device's update.)                         *)
UsedIsAnnounced ==
    IsUsed(ring[last_used.idx].flags, last_used.wrap)
        => h # Idle \/ (intr /\ isr) \/ gpc = "reap" \/ (gpc = "clear" /\ seen)

B == INSTANCE BlockDev WITH pending <- [i \in DOMAIN reqs |-> reqs[i].ask]

(* The device implements BlockDev: in order, once, whole, and what the     *)
(* driver reads from its memory for a used chain is what was done.         *)
BlockDevSpec == B!Spec

(* Every request is answered and its answer taken, where the doorbell is   *)
(* served on the vCPU thread.  (Where it is not, SIGUSR1 may end the       *)
(* process first, and ISR is cleared while the device's thread sets it.)   *)
AllAnswered == doorbell # NotifyCapLength => []<>(Len(taken) = Len(reqs))

(* A driver never takes back a request whose status byte was not written.  *)
StatusWritten == \A i \in DOMAIN taken : taken[i].status # "unwritten"

(* A read the driver finds answered OK has filled its whole buffer: the    *)
(* length taken from the data descriptor is the length asked for.          *)
ReadIsWhole ==
    \A i \in DOMAIN taken : "unwritten" \notin {taken[i].data[k] : k \in DOMAIN taken[i].data}
=============================================================================
