------------------------------ MODULE VirtioPci ------------------------------
(***************************************************************************)
(* The common configuration registers of src/src/virtio-pci.c: features,   *)
(* status, and the window (queue_size ... queue_used) through which the    *)
(* guest sees and sets the struct virtq_info of the selected queue.  One   *)
(* vCPU writes them, one register at a time; a 64-bit address is written   *)
(* here at once.  The guest writes only registers it may write, and the    *)
(* window only after it has selected a queue.                              *)
(*                                                                         *)
(* The fields of the window are named by their place.  struct virtq_info   *)
(* calls the place of queue_avail device_addr and that of queue_used       *)
(* driver_addr.  Definitions marked "variant" are deliberately wrong.      *)
(***************************************************************************)
EXTENDS Integers

CONSTANTS NumQueues,  \* common_cfg.num_queues
          Bits,       \* the bits of half a feature word
          Offered,    \* device_feature: its halves, 0 (low) and 1 (high)
          Sizes,      \* queue sizes the guest writes
          MaxSize,    \* VIRTQ_SIZE
          Addrs       \* addresses the guest writes

ASSUME VirtioPciAssumption ==
    /\ NumQueues \in Nat \ {0}
    /\ Offered \in [0 .. 1 -> SUBSET Bits]
    /\ MaxSize \in Nat \ {0} /\ Sizes \subseteq Nat /\ Addrs \subseteq Nat

Qs == 0 .. NumQueues - 1
Selects == 0 .. 2          \* values of the two feature selectors
AddrFields == {"desc", "avail", "used"}
Statuses == {"reset", "FEATURES_OK", "DRIVER_OK"}

VARIABLES
    device_feature,  \* common_cfg.device_feature
    guest_feature,   \* common_cfg.guest_feature, the register
    status,          \* common_cfg.device_status
    selected,        \* the guest has written queue_select
    queue_select,    \* common_cfg.queue_select
    window,          \* common_cfg.queue_size to queue_used
    features,        \* dev->guest_feature, its two halves
    info,            \* [queue -> vq->info]
    rings            \* [queue -> the addresses enable_vq mapped, by field]

featureRegs == <<device_feature, guest_feature, features>>
queueRegs == <<selected, queue_select, window, info, rings>>
vars == <<featureRegs, status, queueRegs>>

Windows == [size : Nat, enable : BOOLEAN, desc : Nat, avail : Nat, used : Nat]
ZeroWindow == [size |-> 0, enable |-> FALSE, desc |-> 0, avail |-> 0, used |-> 0]
Unmapped == [f \in AddrFields |-> 0]

Init ==
    /\ device_feature = {} /\ guest_feature = {} /\ features = [s \in 0 .. 1 |-> {}]
    /\ status = "reset"
    /\ selected = FALSE /\ queue_select = 0 /\ window = ZeroWindow
    /\ info = [q \in Qs |-> [ZeroWindow EXCEPT !.size = MaxSize]]
    /\ rings = [q \in Qs |-> Unmapped]

-----------------------------------------------------------------------------
(* virtio_pci_select_device_feature.                                       *)
SelectDeviceFeature(s) ==
    /\ device_feature' = IF s \in 0 .. 1 THEN Offered[s] ELSE {}
    /\ UNCHANGED <<guest_feature, features, status, queueRegs>>

(* A write of guest_feature itself is only stored ...                      *)
WriteGuestFeature(v) ==
    /\ guest_feature' = v
    /\ UNCHANGED <<device_feature, features, status, queueRegs>>

(* ... and a write of its selector takes what is stored                    *)
(* (virtio_pci_write_guest_feature).                                       *)
SelectGuestFeature(s) ==
    /\ features' = IF s \in 0 .. 1
                     THEN [features EXCEPT ![s] = @ \cup guest_feature]
                     ELSE features
    /\ UNCHANGED <<device_feature, guest_feature, status, queueRegs>>

(* virtio_pci_write_status; virtio_pci_reset does nothing.                 *)
WriteStatus(s) ==
    /\ status' = s
    /\ UNCHANGED <<featureRegs, queueRegs>>

(* Variant: the window keeps showing the queue selected before.            *)
SelectVirtqStale(q) ==
    /\ selected' = TRUE
    /\ queue_select' = q
    /\ window' = IF q \in Qs /\ selected THEN window
                 ELSE IF q \in Qs THEN info[q] ELSE [window EXCEPT !.size = 0]
    /\ UNCHANGED <<featureRegs, status, info, rings>>

(* virtio_pci_select_virtq.                                                *)
SelectVirtq(q) ==
    /\ selected' = TRUE
    /\ queue_select' = q
    /\ window' = IF q \in Qs THEN info[q] ELSE [window EXCEPT !.size = 0]
    /\ UNCHANGED <<featureRegs, status, info, rings>>

(* Variant: the value stays in the window and does not reach the queue.    *)
WriteWindowOnly(f, v) ==
    /\ selected
    /\ window' = [window EXCEPT ![f] = v]
    /\ UNCHANGED <<featureRegs, status, selected, queue_select, info, rings>>

(* A write to another field of the window.                                 *)
WriteQueueField(f, v) ==
    /\ selected
    /\ window' = [window EXCEPT ![f] = v]
    /\ info' = IF queue_select \in Qs
                 THEN [info EXCEPT ![queue_select][f] = v]
                 ELSE info
    /\ UNCHANGED <<featureRegs, status, selected, queue_select, rings>>

(* Variants: an area is left unmapped; a queue that is enabled already is  *)
(* mapped again.                                                           *)
EnableVirtqPartly(q) ==
    /\ info' = [info EXCEPT ![q].enable = TRUE]
    /\ rings' = [rings EXCEPT ![q] = [f \in {"desc", "avail"} |-> info[q][f]]]
EnableVirtqAgain(q) ==
    /\ info' = [info EXCEPT ![q].enable = TRUE]
    /\ rings' = [rings EXCEPT ![q] = [f \in AddrFields |-> info[q][f]]]

(* enable_vq of the devices, up to the start of the queue's thread.        *)
EnableVirtq(q) ==
    IF info[q].enable
      THEN UNCHANGED <<info, rings>>
      ELSE /\ info' = [info EXCEPT ![q].enable = TRUE]
           /\ rings' = [rings EXCEPT ![q] = [f \in AddrFields |-> info[q][f]]]

(* A write of queue_enable; virtq_disable does nothing.  The code does not *)
(* test the selector here: the guest enables only queues there are.        *)
WriteQueueEnable(on) ==
    /\ selected /\ queue_select \in Qs
    /\ window' = [window EXCEPT !.enable = on]
    /\ IF on THEN EnableVirtq(queue_select) ELSE UNCHANGED <<info, rings>>
    /\ UNCHANGED <<featureRegs, status, selected, queue_select>>

-----------------------------------------------------------------------------
Next ==
    \/ \E s \in Selects : SelectDeviceFeature(s) \/ SelectGuestFeature(s)
    \/ \E v \in SUBSET Bits : WriteGuestFeature(v)
    \/ \E s \in Statuses : WriteStatus(s)
    \/ \E q \in 0 .. NumQueues : SelectVirtq(q)
    \/ \E v \in Sizes : WriteQueueField("size", v)
    \/ \E f \in AddrFields, v \in Addrs : WriteQueueField(f, v)
    \/ \E on \in BOOLEAN : WriteQueueEnable(on)

Spec == Init /\ [][Next]_vars

-----------------------------------------------------------------------------
TypeOK ==
    /\ device_feature \subseteq Bits /\ guest_feature \subseteq Bits
    /\ features \in [0 .. 1 -> SUBSET Bits]
    /\ status \in Statuses /\ selected \in BOOLEAN
    /\ queue_select \in 0 .. NumQueues
    /\ window \in Windows /\ info \in [Qs -> Windows]
    /\ rings \in [Qs -> [AddrFields -> Nat]]

(* What the guest reads back through the window is what the selected queue *)
(* has, whatever was selected and written before; only queue_enable may    *)
(* read 0 for a queue that, once enabled, cannot be disabled.              *)
WindowShowsQueue ==
    selected /\ queue_select \in Qs
        => /\ window.size = info[queue_select].size
           /\ \A f \in AddrFields : window[f] = info[queue_select][f]
           /\ window.enable => info[queue_select].enable

(* The rings of an enabled queue are not moved under the thread that       *)
(* serves them.                                                            *)
RingsStay == [][\A i \in Qs : info[i].enable => rings'[i] = rings[i]]_vars
=============================================================================
