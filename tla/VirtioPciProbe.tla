--------------------------- MODULE VirtioPciProbe ---------------------------
(***************************************************************************)
(* The registers of VirtioPci driven by a guest that probes the device as  *)
(* Linux's virtio_pci_modern does (external): reset, features, FEATURES_OK,*)
(* the set-up of each queue, the enabling of all of them, DRIVER_OK.  A    *)
(* driver that has been unbound may probe again.  A guest that does not    *)
(* probe (pc = "free") writes the registers in any order.                  *)
(***************************************************************************)
EXTENDS VirtioPci

CONSTANT MaxProbes   \* bound: how often the driver is bound

ASSUME ProbeAssumption == MaxProbes \in Nat \ {0}

VARIABLES
    pc,      \* the next step of the probe
    q,       \* the queue it is at
    want,    \* the features the driver has read, and accepts
    asked,   \* [queue -> addresses the driver has allocated]
    probes   \* probes begun

probe == <<pc, q, want, asked, probes>>
pvars == <<vars, probe>>

PInit ==
    /\ Init
    /\ pc \in {"reset", "free"} /\ q = 0 /\ probes = 1
    /\ want = [s \in 0 .. 1 |-> {}]
    /\ asked = [i \in Qs |-> Unmapped]

(* A step at program counter a that goes on at b.                          *)
From(a, b) == pc = a /\ pc' = b

Reset ==
    /\ From("reset", "low") /\ WriteStatus("reset")
    /\ UNCHANGED <<q, want, asked, probes>>
ReadLow ==
    /\ From("low", "high") /\ SelectDeviceFeature(0)
    /\ want' = [want EXCEPT ![0] = device_feature']
    /\ UNCHANGED <<q, asked, probes>>
ReadHigh ==
    /\ From("high", "select0") /\ SelectDeviceFeature(1)
    /\ want' = [want EXCEPT ![1] = device_feature']
    /\ UNCHANGED <<q, asked, probes>>

WriteFeatures ==
    /\ \/ From("select0", "write0") /\ SelectGuestFeature(0)
       \/ From("write0", "select1") /\ WriteGuestFeature(want[0])
       \/ From("select1", "write1") /\ SelectGuestFeature(1)
       \/ From("write1", "accept") /\ WriteGuestFeature(want[1])
    /\ UNCHANGED <<q, want, asked, probes>>

Accept ==
    /\ From("accept", "select") /\ WriteStatus("FEATURES_OK")
    /\ q' = 0
    /\ UNCHANGED <<want, asked, probes>>

(* A queue of size 0, or one that is enabled already, fails the probe.     *)
Select ==
    /\ pc = "select" /\ SelectVirtq(q)
    /\ pc' = IF window'.size = 0 \/ window'.enable THEN "failed" ELSE "size"
    /\ UNCHANGED <<q, want, asked, probes>>

SetSize ==
    /\ From("size", "desc")
    /\ \E v \in Sizes : WriteQueueField("size", v)
    /\ UNCHANGED <<q, want, asked, probes>>

(* The driver allocates different memory for every area of every queue, at *)
(* every probe.                                                            *)
AreaAddr(i, f) ==
    3 * (NumQueues * (probes - 1) + i) + [desc |-> 1, avail |-> 2, used |-> 3][f]

SetAddr(f, next) ==
    /\ From(f, next)
    /\ WriteQueueField(f, AreaAddr(q, f))
    /\ asked' = [asked EXCEPT ![q][f] = AreaAddr(q, f)]
    /\ UNCHANGED <<want, probes>>

NextQueue == IF q = NumQueues - 1 THEN 0 ELSE q + 1

SetUsed ==
    /\ SetAddr("used", IF q = NumQueues - 1 THEN "again" ELSE "select")
    /\ q' = NextQueue

Again ==
    /\ From("again", "enable") /\ SelectVirtq(q)
    /\ UNCHANGED <<q, want, asked, probes>>
Enable ==
    /\ From("enable", IF q = NumQueues - 1 THEN "done" ELSE "again")
    /\ WriteQueueEnable(TRUE)
    /\ q' = NextQueue
    /\ UNCHANGED <<want, asked, probes>>
Done ==
    /\ From("done", "ready") /\ WriteStatus("DRIVER_OK")
    /\ UNCHANGED <<q, want, asked, probes>>

(* The driver is unbound and bound again.                                  *)
Rebind ==
    /\ From("ready", "reset") /\ probes < MaxProbes
    /\ probes' = probes + 1
    /\ UNCHANGED <<vars, q, want, asked>>

Free == pc = "free" /\ Next /\ UNCHANGED probe

PNext ==
    \/ Free
    \/ Reset \/ ReadLow \/ ReadHigh \/ WriteFeatures \/ Accept
    \/ Select \/ SetSize \/ SetUsed
    \/ SetAddr("desc", "avail") /\ UNCHANGED q
    \/ SetAddr("avail", "used") /\ UNCHANGED q
    \/ Again \/ Enable \/ Done \/ Rebind

ProbeSpec == PInit /\ [][PNext]_pvars

-----------------------------------------------------------------------------
(* When the driver says DRIVER_OK, every queue is enabled on exactly the   *)
(* rings the driver allocated for it, although all are set through one     *)
(* window and enabled in a second round.  A driver bound again, to a       *)
(* device that has kept its rings across the reset, does not get there.    *)
QueuesReady == pc = "ready" => \A i \in Qs : info[i].enable /\ rings[i] = asked[i]

(* The device has the features the driver accepted.                        *)
FeaturesAgreed == pc = "ready" => features = want
=============================================================================
