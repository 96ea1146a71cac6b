-------------------------- MODULE VirtioPciProofs --------------------------
(***************************************************************************)
(* Proofs about VirtioPci and VirtioPciProbe, for any number of queues and *)
(* any addresses: the guest either probes or writes the registers in any   *)
(* order.                                                                  *)
(***************************************************************************)
EXTENDS VirtioPciProbe, TLAPS

Fields == AddrFields \cup {"size"}

(* One write of a register.                                                *)
Step ==
    \/ \E s \in Selects : SelectDeviceFeature(s) \/ SelectGuestFeature(s)
    \/ \E v \in SUBSET Bits : WriteGuestFeature(v)
    \/ \E s \in Statuses : WriteStatus(s)
    \/ \E i \in 0 .. NumQueues : SelectVirtq(i)
    \/ \E f \in Fields, v \in Nat : WriteQueueField(f, v)
    \/ \E on \in BOOLEAN : WriteQueueEnable(on)

(* The registers of the window are as free as a record's fields.           *)
LEMMA FieldWrite ==
    ASSUME NEW w \in Windows, NEW f \in Fields, NEW v \in Nat
    PROVE  /\ [w EXCEPT ![f] = v] \in Windows
           /\ [w EXCEPT ![f] = v][f] = v /\ [w EXCEPT ![f] = v].enable = w.enable
           /\ \A g \in Fields : g # f => [w EXCEPT ![f] = v][g] = w[g]
<1>1. CASE f = "size"
  BY <1>1 DEF Windows, Fields, AddrFields
<1>2. CASE f = "desc"
  BY <1>2 DEF Windows, Fields, AddrFields
<1>3. CASE f = "avail"
  BY <1>3 DEF Windows, Fields, AddrFields
<1>4. CASE f = "used"
  BY <1>4 DEF Windows, Fields, AddrFields
<1> QED BY <1>1, <1>2, <1>3, <1>4 DEF Fields, AddrFields

(* A window or queue with another enable flag has its other fields.        *)
LEMMA EnableWrite ==
    ASSUME NEW w \in Windows, NEW on \in BOOLEAN
    PROVE  /\ [w EXCEPT !.enable = on] \in Windows
           /\ [w EXCEPT !.enable = on].enable = on
           /\ \A g \in Fields : [w EXCEPT !.enable = on][g] = w[g]
  BY DEF Windows, Fields, AddrFields

(* The fields of the window and of a queue, with their types.              *)
LEMMA FieldTypes ==
    ASSUME NEW w \in Windows
    PROVE  w.enable \in BOOLEAN /\ \A f \in Fields : w[f] \in Nat
  BY DEF Windows, Fields, AddrFields

-----------------------------------------------------------------------------
(* What a write of one register does to the queues.                        *)
LEMMA EnableEffect ==
    ASSUME TypeOK, NEW on \in BOOLEAN, WriteQueueEnable(on)
    PROVE  /\ selected /\ queue_select \in Qs /\ UNCHANGED <<selected, queue_select>>
           /\ UNCHANGED <<featureRegs, status>>
           /\ window' \in Windows /\ window'.enable = on
           /\ \A f \in Fields : window'[f] = window[f]
           /\ \/ UNCHANGED <<info, rings>> /\ (on => info[queue_select].enable)
              \/ /\ on /\ ~info[queue_select].enable
                 /\ info' = [info EXCEPT ![queue_select] = [@ EXCEPT !.enable = TRUE]]
                 /\ rings' = [rings EXCEPT ![queue_select] =
                                [f \in AddrFields |-> info[queue_select][f]]]
<1>1. selected /\ queue_select \in Qs /\ UNCHANGED <<selected, queue_select, featureRegs, status>>
  BY Zenon DEF WriteQueueEnable
<1>2. window' = [window EXCEPT !.enable = on] /\ window \in Windows
  BY DEF WriteQueueEnable, TypeOK
<1>3. \/ UNCHANGED <<info, rings>> /\ (on => info[queue_select].enable)
      \/ /\ on /\ ~info[queue_select].enable
         /\ info' = [info EXCEPT ![queue_select] = [@ EXCEPT !.enable = TRUE]]
         /\ rings' = [rings EXCEPT ![queue_select] = [f \in AddrFields |-> info[queue_select][f]]]
  BY Zenon DEF WriteQueueEnable, EnableVirtq
<1>4. window' \in Windows /\ window'.enable = on /\ \A f \in Fields : window'[f] = window[f]
  BY <1>2, EnableWrite
<1> QED BY <1>1, <1>3, <1>4

(* A write of any register keeps the types.                                *)
LEMMA TypeStep == TypeOK /\ [Step]_vars => TypeOK'
<1> SUFFICES ASSUME TypeOK, [Step]_vars PROVE TypeOK'
    OBVIOUS
<1> USE VirtioPciAssumption DEF featureRegs, queueRegs
<1>w. window \in Windows /\ info \in [Qs -> Windows]
  BY DEF TypeOK
<1>1. ASSUME NEW s \in Selects, SelectDeviceFeature(s) \/ SelectGuestFeature(s) PROVE TypeOK'
  BY <1>1 DEF SelectDeviceFeature, SelectGuestFeature, TypeOK
<1>2. ASSUME NEW v \in SUBSET Bits, WriteGuestFeature(v) PROVE TypeOK'
  BY <1>2 DEF WriteGuestFeature, TypeOK
<1>3. ASSUME NEW s \in Statuses, WriteStatus(s) PROVE TypeOK'
  BY <1>3 DEF WriteStatus, TypeOK
<1>4. ASSUME NEW i \in 0 .. NumQueues, SelectVirtq(i) PROVE TypeOK'
  <2>1. window' \in Windows
    <3>1. [window EXCEPT !["size"] = 0] \in Windows
      BY <1>w, FieldWrite DEF Fields
    <3> QED BY <1>4, <1>w, <3>1 DEF SelectVirtq
  <2> QED BY <1>4, <2>1 DEF SelectVirtq, TypeOK
<1>5. ASSUME NEW f \in Fields, NEW v \in Nat, WriteQueueField(f, v) PROVE TypeOK'
  <2>1. window' \in Windows
    BY <1>5, <1>w, FieldWrite, Zenon DEF WriteQueueField
  <2>2. info' \in [Qs -> Windows]
    <3>1. queue_select \in Qs => [info[queue_select] EXCEPT ![f] = v] \in Windows
      BY <1>w, FieldWrite
    <3>2. info' = info \/ (queue_select \in Qs
            /\ info' = [info EXCEPT ![queue_select] = [info[queue_select] EXCEPT ![f] = v]])
      BY <1>5, Zenon DEF WriteQueueField
    <3> HIDE DEF Windows
    <3> QED BY <1>w, <3>1, <3>2
  <2> QED BY <1>5, <2>1, <2>2 DEF WriteQueueField, TypeOK
<1>6. ASSUME NEW on \in BOOLEAN, WriteQueueEnable(on) PROVE TypeOK'
  <2>1. info' \in [Qs -> Windows] /\ rings' \in [Qs -> [AddrFields -> Nat]]
    <3>1. queue_select \in Qs
      BY <1>6, EnableEffect
    <3>2. [info[queue_select] EXCEPT !.enable = TRUE] \in Windows
      BY <1>w, <3>1, EnableWrite, ZenonT(60)
    <3>3. [f \in AddrFields |-> info[queue_select][f]] \in [AddrFields -> Nat]
      BY <1>w, <3>1, FieldTypes DEF Fields
    <3>4. \/ UNCHANGED <<info, rings>>
          \/ /\ info' = [info EXCEPT ![queue_select] = [info[queue_select] EXCEPT !.enable = TRUE]]
             /\ rings' = [rings EXCEPT ![queue_select] = [f \in AddrFields |-> info[queue_select][f]]]
      BY <1>6, EnableEffect, Zenon
    <3>5. rings \in [Qs -> [AddrFields -> Nat]]
      BY DEF TypeOK
    <3> QED BY <1>w, <3>1, <3>2, <3>3, <3>4, <3>5, ZenonT(60)
  <2> QED BY <1>6, <2>1, EnableEffect DEF TypeOK
<1>7. CASE UNCHANGED vars
  BY <1>7 DEF vars, TypeOK
<1> QED BY <1>1, <1>2, <1>3, <1>4, <1>5, <1>6, <1>7 DEF Step

(* A write through the window reaches the field of the selected queue and  *)
(* nothing else.                                                           *)
LEMMA FieldEffect ==
    ASSUME TypeOK, NEW f \in Fields, NEW v \in Nat, WriteQueueField(f, v)
    PROVE  /\ selected /\ UNCHANGED <<featureRegs, status, selected, queue_select, rings>>
           /\ window'.enable = window.enable /\ window'[f] = v
           /\ \A g \in Fields : g # f => window'[g] = window[g]
           /\ \A i \in Qs : info'[i].enable = info[i].enable
           /\ queue_select \in Qs => info'[queue_select][f] = v
           /\ \A i \in Qs, g \in Fields : i # queue_select \/ g # f => info'[i][g] = info[i][g]
<1>1. selected /\ UNCHANGED <<featureRegs, status, selected, queue_select, rings>>
  BY Zenon DEF WriteQueueField
<1>2. window \in Windows /\ info \in [Qs -> Windows]
  BY DEF TypeOK
<1>3. window' = [window EXCEPT ![f] = v]
  BY Zenon DEF WriteQueueField
<1>4. window'.enable = window.enable /\ window'[f] = v
        /\ \A g \in Fields : g # f => window'[g] = window[g]
  BY <1>2, <1>3, FieldWrite
<1>5. CASE queue_select \notin Qs
  BY <1>1, <1>4, <1>5 DEF WriteQueueField
<1>6. CASE queue_select \in Qs
  <2> DEFINE w == [info[queue_select] EXCEPT ![f] = v]
  <2>1. info' = [info EXCEPT ![queue_select] = w]
    BY <1>6, Zenon DEF WriteQueueField
  <2>2. w.enable = info[queue_select].enable /\ w[f] = v
          /\ \A g \in Fields : g # f => w[g] = info[queue_select][g]
    <3>1. info[queue_select] \in Windows
      BY <1>2, <1>6
    <3>2. w = [info[queue_select] EXCEPT ![f] = v]
      OBVIOUS
    <3> HIDE DEF w
    <3> QED BY <3>1, <3>2, FieldWrite
  <2> HIDE DEF w
  <2>3. info'[queue_select] = w /\ \A i \in Qs : i # queue_select => info'[i] = info[i]
    BY <1>2, <1>6, <2>1
  <2> QED BY <1>1, <1>4, <2>2, <2>3
<1> QED BY <1>5, <1>6

(* The window follows the selected queue.                                  *)
LEMMA WindowStep == TypeOK /\ WindowShowsQueue /\ [Step]_vars => WindowShowsQueue'
<1> SUFFICES ASSUME TypeOK, WindowShowsQueue, [Step]_vars PROVE WindowShowsQueue'
    OBVIOUS
<1>f. Fields = AddrFields \cup {"size"}
  BY DEF Fields
<1>1. CASE UNCHANGED <<selected, queue_select, window, info>>
  BY <1>1 DEF WindowShowsQueue
<1>2. ASSUME NEW i \in 0 .. NumQueues, SelectVirtq(i) PROVE WindowShowsQueue'
  <2>1. queue_select' = i /\ info' = info /\ (i \in Qs => window' = info[i])
    BY <1>2 DEF SelectVirtq
  <2> QED BY <2>1 DEF WindowShowsQueue
<1>3. ASSUME NEW f \in Fields, NEW v \in Nat, WriteQueueField(f, v) PROVE WindowShowsQueue'
  <2>0. selected /\ queue_select' = queue_select
    BY <1>3, FieldEffect
  <2> SUFFICES ASSUME queue_select \in Qs
               PROVE  /\ \A g \in Fields : window'[g] = info'[queue_select][g]
                      /\ window'.enable => info'[queue_select].enable
      BY <2>0, <1>f DEF WindowShowsQueue
  <2>1. selected /\ \A g \in Fields : window[g] = info[queue_select][g]
    BY <2>0, <1>f DEF WindowShowsQueue
  <2>2. window.enable => info[queue_select].enable
    BY <2>1 DEF WindowShowsQueue
  <2>3. window'.enable = window.enable /\ info'[queue_select].enable = info[queue_select].enable
    BY <1>3, FieldEffect
  <2>4. window'[f] = v /\ info'[queue_select][f] = v
    BY <1>3, FieldEffect
  <2>5. \A g \in Fields : g # f => window'[g] = window[g] /\ info'[queue_select][g] = info[queue_select][g]
    BY <1>3, FieldEffect
  <2> QED BY <2>1, <2>2, <2>3, <2>4, <2>5
<1>4. ASSUME NEW on \in BOOLEAN, WriteQueueEnable(on) PROVE WindowShowsQueue'
  <2>1. /\ selected /\ queue_select \in Qs /\ UNCHANGED <<selected, queue_select>>
        /\ window'.enable = on /\ \A f \in Fields : window'[f] = window[f]
    BY <1>4, EnableEffect
  <2>2. (info'[queue_select].enable \/ ~on)
          /\ \A f \in Fields : info'[queue_select][f] = info[queue_select][f]
    <3> DEFINE w == [info[queue_select] EXCEPT !.enable = TRUE]
    <3>1. info \in [Qs -> Windows] /\ info[queue_select] \in Windows
      BY <2>1 DEF TypeOK
    <3>2. w.enable /\ \A f \in Fields : w[f] = info[queue_select][f]
      BY <3>1, EnableWrite, Zenon
    <3>3. (info' = info /\ (on => info[queue_select].enable)) \/ info' = [info EXCEPT ![queue_select] = w]
      BY <1>4, EnableEffect, Zenon
    <3> HIDE DEF w
    <3>4. CASE info' = [info EXCEPT ![queue_select] = w]
      <4>1. info'[queue_select] = w
        BY <2>1, <3>1, <3>4
      <4> QED BY <3>2, <4>1
    <3> QED BY <3>3, <3>4
  <2> QED BY <1>f, <2>1, <2>2 DEF WindowShowsQueue
<1>5. CASE UNCHANGED queueRegs
  BY <1>1, <1>5, Zenon DEF queueRegs
<1> QED BY <1>2, <1>3, <1>4, <1>5 DEF Step, vars, SelectDeviceFeature, SelectGuestFeature,
           WriteGuestFeature, WriteStatus

(* Rings are mapped once.                                                  *)
LEMMA RingsStep ==
    TypeOK /\ [Step]_vars => \A i \in Qs : info[i].enable => rings'[i] = rings[i]
<1> SUFFICES ASSUME TypeOK, [Step]_vars, NEW i \in Qs, info[i].enable PROVE rings'[i] = rings[i]
    OBVIOUS
<1>1. ASSUME NEW on \in BOOLEAN, WriteQueueEnable(on) PROVE rings'[i] = rings[i]
  <2>1. rings' = rings \/ (~info[queue_select].enable /\
          \E r : rings' = [rings EXCEPT ![queue_select] = r])
    BY <1>1, EnableEffect, Zenon
  <2> QED BY <2>1 DEF TypeOK
<1>2. CASE rings' = rings
  BY <1>2
<1> QED BY <1>1, <1>2 DEF Step, vars, queueRegs, SelectDeviceFeature, SelectGuestFeature,
           WriteGuestFeature, WriteStatus, SelectVirtq, WriteQueueField

-----------------------------------------------------------------------------
(* The probe: what it has set up so far, by its progress.                  *)
Negotiating == {"reset", "low", "high", "select0", "write0", "select1", "write1", "accept"}
Setting == {"size", "desc", "avail", "used"}
ProbePcs == Negotiating \cup Setting
              \cup {"free", "select", "again", "enable", "done", "ready", "failed"}

ProbeTypes ==
    /\ pc \in ProbePcs /\ q \in Qs /\ probes \in Nat \ {0}
    /\ want \in [0 .. 1 -> SUBSET Bits]
    /\ asked \in [Qs -> [AddrFields -> Nat]]

Given(i) == \A f \in AddrFields : info[i][f] = asked[i][f]
Live(i) == info[i].enable /\ rings[i] = asked[i]
AllLive == \A i \in Qs : Live(i)
NoneEnabled == \A i \in Qs : ~info[i].enable
AtQueue == selected /\ queue_select = q

ProbeInv ==
    /\ pc \in {"done", "ready"} => AllLive
    /\ pc \in Negotiating => AllLive \/ NoneEnabled
    /\ pc = "select" =>
          \/ AllLive /\ q = 0
          \/ NoneEnabled /\ \A i \in Qs : i < q => Given(i)
    /\ pc \in Setting => NoneEnabled /\ AtQueue /\ \A i \in Qs : i < q => Given(i)
    /\ pc \in {"avail", "used"} => info[q].desc = asked[q].desc
    /\ pc = "used" => info[q].avail = asked[q].avail
    /\ pc \in {"again", "enable"} =>
          \A i \in Qs : Given(i) /\ (i < q => Live(i)) /\ (i >= q => ~info[i].enable)
    /\ pc = "enable" => AtQueue

-----------------------------------------------------------------------------
(* A step of the probe is a write of one register, or none; and the        *)
(* driver's own variables keep their types.                                *)
LEMMA ProbeStep == TypeOK /\ ProbeTypes /\ [PNext]_pvars => [Step]_vars /\ ProbeTypes'
<1> SUFFICES ASSUME TypeOK, ProbeTypes, [PNext]_pvars PROVE [Step]_vars /\ ProbeTypes'
    OBVIOUS
<1> USE VirtioPciAssumption, ProbeAssumption
<1>q. q \in 0 .. NumQueues /\ 0 \in Qs /\ NextQueue \in Qs
  BY DEF ProbeTypes, Qs, NextQueue
<1>a. \A f \in AddrFields : f \in Fields /\ AreaAddr(q, f) \in Nat
  <2>1. 3 * (NumQueues * (probes - 1) + q) \in Nat
    <3>1. NumQueues * (probes - 1) \in Nat /\ q \in Nat
      BY DEF ProbeTypes, Qs
    <3> QED BY <3>1
  <2>2. \A f \in AddrFields : [desc |-> 1, avail |-> 2, used |-> 3][f] \in Nat
    BY DEF AddrFields
  <2> QED BY <2>1, <2>2 DEF AreaAddr, Fields
<1>p. /\ Negotiating \subseteq ProbePcs /\ Setting \subseteq ProbePcs
      /\ {"free", "select", "again", "enable", "done", "ready", "failed"} \subseteq ProbePcs
  BY DEF ProbePcs
<1> USE DEF From
<1>1. CASE Free
  <2>1. Step
    <3>1. Sizes \subseteq Nat /\ Addrs \subseteq Nat
      OBVIOUS
    <3> QED BY <1>1, <3>1 DEF Free, Next, Step, Fields
  <2>2. UNCHANGED probe
    BY <1>1 DEF Free
  <2> QED BY <2>1, <2>2 DEF probe, ProbeTypes
<1>2. CASE Reset \/ Accept \/ Done
  <2>1. Step
    BY <1>2 DEF Reset, Accept, Done, Step, Statuses
  <2>2. ProbeTypes'
    BY <1>2, <1>p, <1>q DEF Reset, Accept, Done, ProbeTypes, Negotiating
  <2> QED BY <2>1, <2>2
<1>3. CASE ReadLow \/ ReadHigh
  <2>1. \E s \in 0 .. 1 : SelectDeviceFeature(s) /\ want' = [want EXCEPT ![s] = device_feature']
    BY <1>3 DEF ReadLow, ReadHigh
  <2>2. Step
    BY <2>1 DEF Step, Selects
  <2>3. device_feature' \subseteq Bits
    BY <2>1 DEF SelectDeviceFeature
  <2>4. want' \in [0 .. 1 -> SUBSET Bits]
    BY <2>1, <2>3 DEF ProbeTypes
  <2>5. UNCHANGED <<q, asked, probes>> /\ pc' \in ProbePcs
    BY <1>3, <1>p DEF ReadLow, ReadHigh, Negotiating
  <2> QED BY <2>2, <2>4, <2>5 DEF ProbeTypes
<1>4. CASE WriteFeatures
  <2>1. want[0] \in SUBSET Bits /\ want[1] \in SUBSET Bits
    BY DEF ProbeTypes
  <2>2. Step
    BY <1>4, <2>1 DEF WriteFeatures, Step, Selects
  <2>3. ProbeTypes'
    BY <1>4, <1>p DEF WriteFeatures, ProbeTypes, Negotiating
  <2> QED BY <2>2, <2>3
<1>5. CASE Select \/ Again
  <2>1. Step
    BY <1>5, <1>q DEF Select, Again, Step
  <2>2. ProbeTypes'
    BY <1>5, <1>p DEF Select, Again, ProbeTypes, Setting
  <2> QED BY <2>1, <2>2
<1>6. CASE SetSize
  <2>1. Step
    BY <1>6 DEF SetSize, Step, Fields
  <2>2. ProbeTypes'
    BY <1>6, <1>p DEF SetSize, ProbeTypes, Setting
  <2> QED BY <2>1, <2>2
<1>7. ASSUME NEW f \in AddrFields, NEW next \in ProbePcs, SetAddr(f, next), q' \in Qs
      PROVE  [Step]_vars /\ ProbeTypes'
  <2>1. Step
    BY <1>7, <1>a DEF SetAddr, Step
  <2>2. asked' \in [Qs -> [AddrFields -> Nat]]
    <3>1. asked' = [asked EXCEPT ![q] = [asked[q] EXCEPT ![f] = AreaAddr(q, f)]]
      BY <1>7, Zenon DEF SetAddr
    <3>2. [asked[q] EXCEPT ![f] = AreaAddr(q, f)] \in [AddrFields -> Nat]
      BY <1>a, <1>7 DEF ProbeTypes
    <3> QED BY <3>1, <3>2 DEF ProbeTypes
  <2> QED BY <1>7, <2>1, <2>2 DEF SetAddr, ProbeTypes
<1>8. CASE SetUsed \/ (SetAddr("desc", "avail") /\ UNCHANGED q)
             \/ (SetAddr("avail", "used") /\ UNCHANGED q)
  BY <1>7, <1>8, <1>p, <1>q DEF SetUsed, AddrFields, Setting, ProbeTypes
<1>9. CASE Enable
  <2>1. Step
    BY <1>9, Zenon DEF Enable, Step
  <2>2. ProbeTypes'
    BY <1>9, <1>p, <1>q DEF Enable, ProbeTypes
  <2> QED BY <2>1, <2>2
<1>10. CASE Rebind
  BY <1>10, <1>p DEF Rebind, ProbeTypes, Negotiating
<1>11. CASE UNCHANGED pvars
  BY <1>11 DEF pvars, probe, ProbeTypes
<1> QED BY <1>1, <1>2, <1>3, <1>4, <1>5, <1>6, <1>8, <1>9, <1>10, <1>11 DEF PNext

(* What the probe has set up stays set up.                                 *)
LEMMA QueueStep == TypeOK /\ ProbeTypes /\ ProbeInv /\ [PNext]_pvars => ProbeInv'
<1> SUFFICES ASSUME TypeOK, ProbeTypes, ProbeInv, [PNext]_pvars PROVE ProbeInv'
    OBVIOUS
<1> USE VirtioPciAssumption DEF From
<1>q. q \in Qs /\ q \in Nat /\ 0 \in Qs /\ q \in 0 .. NumQueues /\ \A i \in Qs : i \in Nat /\ i < NumQueues
  BY DEF ProbeTypes, Qs
<1>f. "size" \in Fields /\ \A f \in AddrFields : f \in Fields /\ f # "size"
  BY DEF Fields, AddrFields
<1>t. info \in [Qs -> Windows] /\ rings \in [Qs -> [AddrFields -> Nat]]
        /\ asked \in [Qs -> [AddrFields -> Nat]]
  BY DEF TypeOK, ProbeTypes
<1>p. /\ {"select", "size", "desc", "avail", "used", "again", "enable", "done", "ready", "failed", "free"}
            \cap Negotiating = {}
      /\ {"select", "again", "enable", "done", "ready", "failed", "free"} \cap Setting = {}
      /\ Negotiating \cap Setting = {}
  BY DEF Negotiating, Setting
<1>1. CASE Free
  BY <1>1, <1>p DEF Free, probe, ProbeInv
<1>2. CASE Reset \/ ReadLow \/ ReadHigh \/ WriteFeatures \/ Rebind
  <2>1. UNCHANGED <<info, rings, asked>>
    BY <1>2, Zenon DEF Reset, ReadLow, ReadHigh, WriteFeatures, Rebind, WriteStatus,
        SelectDeviceFeature, SelectGuestFeature, WriteGuestFeature, vars, queueRegs
  <2>2. pc \in Negotiating \cup {"ready"} /\ pc' \in Negotiating
    BY <1>2 DEF Reset, ReadLow, ReadHigh, WriteFeatures, Rebind, Negotiating
  <2>3. AllLive \/ NoneEnabled
    BY <2>2 DEF ProbeInv
  <2>4. AllLive' \/ NoneEnabled'
    BY <2>1, <2>3 DEF AllLive, NoneEnabled, Live
  <2> QED BY <1>p, <2>2, <2>4 DEF ProbeInv
<1>3. CASE Accept
  <2>1. UNCHANGED <<info, rings, asked>> /\ pc = "accept" /\ pc' = "select" /\ q' = 0
    BY <1>3, Zenon DEF Accept, WriteStatus, queueRegs
  <2>2. AllLive \/ NoneEnabled
    BY <2>1 DEF ProbeInv, Negotiating
  <2>3. AllLive' \/ NoneEnabled'
    BY <2>1, <2>2 DEF AllLive, NoneEnabled, Live
  <2> QED BY <1>p, <1>q, <2>1, <2>3 DEF ProbeInv
<1>4. CASE Select
  <2>1. UNCHANGED <<info, rings, asked, q>> /\ pc = "select" /\ selected' = TRUE /\ queue_select' = q
    BY <1>4, Zenon DEF Select, SelectVirtq
  <2>2. pc' = "failed" \/ (pc' = "size" /\ ~info[q].enable)
    BY <1>4, <1>q DEF Select, SelectVirtq
  <2>3. pc' = "size" => NoneEnabled /\ \A i \in Qs : i < q => Given(i)
    BY <2>1, <2>2, <1>q DEF ProbeInv, AllLive, Live
  <2>4. pc' = "size" => NoneEnabled' /\ AtQueue' /\ \A i \in Qs : i < q => Given(i)'
    BY <2>1, <2>3 DEF NoneEnabled, AtQueue, Given
  <2> QED BY <1>p, <2>1, <2>2, <2>4 DEF ProbeInv
<1>5. CASE SetSize
  <2>1. UNCHANGED <<asked, q>> /\ pc = "size" /\ pc' = "desc"
    BY <1>5 DEF SetSize
  <2>2. PICK v \in Nat : WriteQueueField("size", v)
    BY <1>5 DEF SetSize
  <2>3. NoneEnabled /\ AtQueue /\ \A i \in Qs : i < q => Given(i)
    BY <2>1 DEF ProbeInv, Setting
  <2>4. /\ UNCHANGED <<selected, queue_select, rings>>
        /\ \A i \in Qs : info'[i].enable = info[i].enable
        /\ \A i \in Qs, g \in AddrFields : info'[i][g] = info[i][g]
    BY <2>2, <1>f, FieldEffect
  <2>5. NoneEnabled' /\ AtQueue' /\ \A i \in Qs : i < q => Given(i)'
    BY <2>1, <2>3, <2>4 DEF NoneEnabled, AtQueue, Given
  <2> QED BY <1>p, <2>1, <2>5 DEF ProbeInv
<1>6. ASSUME NEW f \in AddrFields, NEW next, SetAddr(f, next), f \in Setting
      PROVE  /\ NoneEnabled' /\ \A i \in Qs : i < q => Given(i)'
             /\ selected' /\ queue_select' = q /\ info'[q][f] = asked'[q][f]
             /\ \A g \in AddrFields : g # f => info'[q][g] = info[q][g] /\ asked'[q][g] = asked[q][g]
  <2>1. pc = f /\ NoneEnabled /\ AtQueue /\ \A i \in Qs : i < q => Given(i)
    BY <1>6 DEF SetAddr, ProbeInv
  <2> DEFINE v == AreaAddr(q, f)
  <2>2. v \in Nat
    <3>1. 3 * (NumQueues * (probes - 1) + q) \in Nat
      <4>1. NumQueues * (probes - 1) \in Nat
        BY DEF ProbeTypes
      <4> QED BY <4>1, <1>q
    <3>2. [desc |-> 1, avail |-> 2, used |-> 3][f] \in Nat
      BY DEF AddrFields
    <3> QED BY <3>1, <3>2 DEF AreaAddr
  <2>3. WriteQueueField(f, v) /\ asked' = [asked EXCEPT ![q] = [asked[q] EXCEPT ![f] = v]]
    BY <1>6, Zenon DEF SetAddr
  <2> HIDE DEF v
  <2>4. asked'[q] = [asked[q] EXCEPT ![f] = v] /\ \A i \in Qs : i # q => asked'[i] = asked[i]
    BY <1>q, <1>t, <2>3
  <2>5. asked'[q][f] = v /\ \A g \in AddrFields : g # f => asked'[q][g] = asked[q][g]
    BY <1>q, <1>t, <2>4
  <2>6. /\ UNCHANGED <<selected, queue_select, rings>>
        /\ \A i \in Qs : info'[i].enable = info[i].enable
        /\ info'[q][f] = v
        /\ \A i \in Qs, g \in Fields : i # q \/ g # f => info'[i][g] = info[i][g]
    <3>1. f \in Fields /\ queue_select = q
      BY <2>1, <1>f DEF AtQueue
    <3>2. WriteQueueField(f, v)
      BY <2>3
    <3>3. /\ UNCHANGED <<selected, queue_select, rings>>
          /\ \A i \in Qs : info'[i].enable = info[i].enable
          /\ queue_select \in Qs => info'[queue_select][f] = v
          /\ \A i \in Qs, g \in Fields : i # queue_select \/ g # f => info'[i][g] = info[i][g]
      BY <3>1, <3>2, <2>2, FieldEffect, Zenon
    <3> QED BY <3>1, <3>3, <1>q, Zenon
  <2>7. \A i \in Qs : i < q => Given(i)'
    <3>1. SUFFICES ASSUME NEW i \in Qs, i < q, NEW g \in AddrFields PROVE info'[i][g] = asked'[i][g]
      BY DEF Given
    <3>2. i # q
      BY <3>1, <1>q
    <3>3. info[i][g] = asked[i][g]
      BY <3>1, <2>1 DEF Given
    <3>4. g \in Fields
      BY <3>1, <1>f
    <3> QED BY <3>2, <3>3, <3>4, <2>4, <2>6
  <2>8. NoneEnabled'
    BY <2>1, <2>6 DEF NoneEnabled
  <2>9. selected' /\ queue_select' = q
    BY <2>1, <2>6 DEF AtQueue
  <2> QED BY <2>5, <2>6, <2>7, <2>8, <2>9, <1>f, <1>q
<1>7. CASE SetAddr("desc", "avail") /\ UNCHANGED q
  <2>1. pc' = "avail"
    BY <1>7 DEF SetAddr
  <2>2. /\ NoneEnabled' /\ AtQueue' /\ \A i \in Qs : i < q => Given(i)'
        /\ info'[q].desc = asked'[q].desc
    BY <1>6, <1>7 DEF AddrFields, Setting, AtQueue
  <2> QED BY <1>7, <1>p, <2>1, <2>2 DEF ProbeInv
<1>8. CASE SetAddr("avail", "used") /\ UNCHANGED q
  <2>1. pc = "avail" /\ pc' = "used"
    BY <1>8 DEF SetAddr
  <2>2. /\ NoneEnabled' /\ AtQueue' /\ \A i \in Qs : i < q => Given(i)'
        /\ info'[q].avail = asked'[q].avail
        /\ info'[q].desc = info[q].desc /\ asked'[q].desc = asked[q].desc
    BY <1>6, <1>8 DEF AddrFields, Setting, AtQueue
  <2>3. info[q].desc = asked[q].desc
    BY <2>1 DEF ProbeInv
  <2> QED BY <1>8, <1>p, <2>1, <2>2, <2>3 DEF ProbeInv
<1>9. CASE SetUsed
  <2>1. pc = "used" /\ q' = NextQueue /\ pc' = (IF q = NumQueues - 1 THEN "again" ELSE "select")
    BY <1>9 DEF SetUsed, SetAddr
  <2>2. PICK next : SetAddr("used", next)
    BY <1>9, SMTT(60) DEF SetUsed
  <2>3. /\ NoneEnabled' /\ \A i \in Qs : i < q => Given(i)'
        /\ info'[q].used = asked'[q].used
        /\ info'[q].desc = info[q].desc /\ asked'[q].desc = asked[q].desc
        /\ info'[q].avail = info[q].avail /\ asked'[q].avail = asked[q].avail
    BY <1>6, <2>2 DEF AddrFields, Setting
  <2>4. info[q].desc = asked[q].desc /\ info[q].avail = asked[q].avail
    BY <2>1 DEF ProbeInv
  <2>5. \A i \in Qs : i <= q => Given(i)'
    <3>1. \A f \in AddrFields : info'[q][f] = asked'[q][f]
      BY <2>3, <2>4 DEF AddrFields
    <3>2. \A i \in Qs : i = q => Given(i)'
      BY <3>1, SMTT(60) DEF Given
    <3> QED BY <2>3, <3>2, <1>q
  <2>6. CASE q = NumQueues - 1
    <3>1. \A i \in Qs : i <= q
      BY <2>6, <1>q
    <3>2. pc' = "again" /\ q' = 0
      BY <2>1, <2>6, SMTT(60) DEF NextQueue
    <3> QED BY <1>p, <1>q, <2>3, <2>5, <3>1, <3>2 DEF ProbeInv, NoneEnabled
  <2>7. CASE q # NumQueues - 1
    <3>1. pc' = "select" /\ q' = q + 1
      BY <2>1, <2>7 DEF NextQueue
    <3>2. \A i \in Qs : i < q' => i <= q
      BY <3>1, <1>q, SMTT(60)
    <3> QED BY <1>p, <2>3, <2>5, <3>1, <3>2 DEF ProbeInv
  <2> QED BY <2>6, <2>7
<1>10. CASE Again
  <2>1. UNCHANGED <<info, rings, asked, q>> /\ pc = "again" /\ pc' = "enable"
          /\ selected' = TRUE /\ queue_select' = q
    BY <1>10, Zenon DEF Again, SelectVirtq
  <2>2. \A i \in Qs : Given(i) /\ (i < q => Live(i)) /\ (i >= q => ~info[i].enable)
    BY <2>1 DEF ProbeInv
  <2>3. AtQueue' /\ \A i \in Qs : Given(i)' /\ (i < q => Live(i)') /\ (i >= q => ~info'[i].enable)
    BY <2>1, <2>2 DEF AtQueue, Given, Live
  <2> QED BY <1>p, <2>1, <2>3 DEF ProbeInv
<1>11. CASE Enable
  <2>1. UNCHANGED asked /\ pc = "enable" /\ q' = NextQueue
          /\ pc' = (IF q = NumQueues - 1 THEN "done" ELSE "again")
    BY <1>11 DEF Enable
  <2>2. AtQueue /\ \A i \in Qs : Given(i) /\ (i < q => Live(i)) /\ (i >= q => ~info[i].enable)
    BY <2>1 DEF ProbeInv
  <2> DEFINE w == [info[q] EXCEPT !.enable = TRUE]
             m == [f \in AddrFields |-> info[q][f]]
  <2>3. info' = [info EXCEPT ![q] = w] /\ rings' = [rings EXCEPT ![q] = m]
    <3>1. queue_select = q /\ ~info[q].enable
      BY <2>2, <1>q DEF AtQueue
    <3>2. WriteQueueEnable(TRUE)
      BY <1>11, Zenon DEF Enable
    <3> QED BY <3>1, <3>2, EnableEffect, Zenon
  <2>4. w.enable /\ \A f \in Fields : w[f] = info[q][f]
    BY <1>q, <1>t, EnableWrite, ZenonT(60)
  <2>5. m = asked[q]
    <3>1. \A f \in AddrFields : info[q][f] = asked[q][f]
      BY <2>2, <1>q DEF Given
    <3> QED BY <3>1, <1>q, <1>t
  <2> HIDE DEF w, m
  <2>6. info'[q] = w /\ rings'[q] = m /\ \A i \in Qs : i # q => info'[i] = info[i] /\ rings'[i] = rings[i]
    BY <2>3, <1>q, <1>t
  <2>7. \A i \in Qs : Given(i)'
    <3>1. \A i \in Qs, f \in AddrFields : info'[i][f] = info[i][f]
      BY <2>4, <2>6, <1>f
    <3> QED BY <2>1, <2>2, <3>1 DEF Given
  <2>8. \A i \in Qs : i <= q => Live(i)'
    <3>1. \A i \in Qs : i = q => Live(i)'
      BY <2>1, <2>4, <2>5, <2>6 DEF Live
    <3>2. \A i \in Qs : i < q => Live(i)'
      BY <2>1, <2>2, <2>6, <1>q DEF Live
    <3> QED BY <3>1, <3>2, <1>q
  <2>9. \A i \in Qs : i > q => ~info'[i].enable
    BY <2>2, <2>6, <1>q, SMTT(60)
  <2>10. CASE q = NumQueues - 1
    <3>1. \A i \in Qs : i <= q
      BY <2>10, <1>q
    <3>2. pc' = "done"
      BY <2>1, <2>10, SMTT(60)
    <3> QED BY <1>p, <2>8, <3>1, <3>2 DEF ProbeInv, AllLive
  <2>11. CASE q # NumQueues - 1
    <3>1. pc' = "again" /\ q' = q + 1
      BY <2>1, <2>11 DEF NextQueue
    <3>2. \A i \in Qs : (i < q' => i <= q) /\ (i >= q' => i > q)
      BY <3>1, <1>q, SMTT(60)
    <3> QED BY <1>p, <2>7, <2>8, <2>9, <3>1, <3>2 DEF ProbeInv
  <2> QED BY <2>10, <2>11
<1>12. CASE Done
  <2>1. UNCHANGED <<info, rings, asked>> /\ pc = "done" /\ pc' = "ready"
    BY <1>12, Zenon DEF Done, WriteStatus, queueRegs
  <2>2. AllLive
    BY <2>1 DEF ProbeInv
  <2>3. AllLive'
    BY <2>1, <2>2, Zenon DEF AllLive, Live
  <2> QED BY <1>p, <2>1, <2>3 DEF ProbeInv
<1>13. CASE UNCHANGED pvars
  <2>1. UNCHANGED <<info, rings, asked, pc, q, selected, queue_select>>
    BY <1>13, Zenon DEF pvars, vars, probe, queueRegs
  <2> QED BY <2>1 DEF ProbeInv, AllLive, NoneEnabled, Live, Given, AtQueue
<1> QED BY <1>1, <1>2, <1>3, <1>4, <1>5, <1>7, <1>8, <1>9, <1>10, <1>11, <1>12, <1>13 DEF PNext

-----------------------------------------------------------------------------
Inv == TypeOK /\ WindowShowsQueue /\ ProbeTypes /\ ProbeInv

(* The registers and the probe, for every guest of the model.              *)
THEOREM Inductive == ProbeSpec => []Inv
<1>1. PInit => Inv
  <2> SUFFICES ASSUME PInit PROVE Inv
      OBVIOUS
  <2> USE VirtioPciAssumption DEF PInit, Init
  <2>0. 0 \in Qs /\ 0 \in 0 .. NumQueues /\ Unmapped \in [AddrFields -> Nat]
    BY DEF Qs, Unmapped
  <2>1. ZeroWindow \in Windows /\ [ZeroWindow EXCEPT !.size = MaxSize] \in Windows
          /\ ~[ZeroWindow EXCEPT !.size = MaxSize].enable
    BY Zenon DEF ZeroWindow, Windows
  <2>2. info \in [Qs -> Windows] /\ \A i \in Qs : ~info[i].enable
    <3> HIDE DEF ZeroWindow
    <3> QED BY <2>1, Zenon
  <2>3. TypeOK
    BY <2>0, <2>1, <2>2, Zenon DEF TypeOK, Statuses
  <2>4. WindowShowsQueue
    BY DEF WindowShowsQueue
  <2>5. ProbeTypes
    BY <2>0 DEF ProbeTypes, ProbePcs, Negotiating
  <2>6. ProbeInv
    <3>1. NoneEnabled
      BY <2>2 DEF NoneEnabled
    <3>2. pc \notin Setting \cup {"done", "ready", "select", "avail", "used", "again", "enable"}
      BY DEF Setting
    <3> QED BY <3>1, <3>2 DEF ProbeInv
  <2> QED BY <2>3, <2>4, <2>5, <2>6 DEF Inv
<1>2. Inv /\ [PNext]_pvars => Inv'
  BY ProbeStep, TypeStep, WindowStep, QueueStep DEF Inv
<1> QED BY <1>1, <1>2, PTL DEF ProbeSpec

(* The registers and what the device makes of them keep their types.       *)
THEOREM TypeCorrect == ProbeSpec => []TypeOK
<1>1. Inv => TypeOK
  BY DEF Inv
<1> QED BY <1>1, Inductive, PTL

(* The window shows the selected queue, whatever was written before.       *)
THEOREM WindowIsTrue == ProbeSpec => []WindowShowsQueue
<1>1. Inv => WindowShowsQueue
  BY DEF Inv
<1> QED BY <1>1, Inductive, PTL

(* A driver that has finished its probe has its own rings enabled.         *)
THEOREM QueuesAreReady == ProbeSpec => []QueuesReady
<1>1. Inv => QueuesReady
  BY DEF Inv, ProbeInv, QueuesReady, AllLive, Live
<1> QED BY <1>1, Inductive, PTL

(* Rings in use are never moved, by a second probe or by any other writes. *)
THEOREM RingsDoStay == ProbeSpec => RingsStay
<1> DEFINE Kept == \A i \in Qs : info[i].enable => rings'[i] = rings[i]
<1>1. Inv /\ [PNext]_pvars => [Kept]_vars
  BY ProbeStep, RingsStep DEF Inv
<1>2. RingsStay <=> [][Kept]_vars
  BY DEF RingsStay
<1> HIDE DEF Kept
<1>3. []Inv /\ [][PNext]_pvars => [][Kept]_vars
  BY <1>1, PTL
<1> QED BY <1>2, <1>3, Inductive, PTL DEF ProbeSpec
=============================================================================
