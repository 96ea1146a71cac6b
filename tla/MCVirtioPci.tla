----------------------------- MODULE MCVirtioPci -----------------------------
(***************************************************************************)
(* Instances of VirtioPci and VirtioPciProbe for TLC.  The low half of the *)
(* features offered is empty, as for virtio-blk; of the high half one bit  *)
(* (VERSION_1) is enough, since bits are only copied.                      *)
(***************************************************************************)
EXTENDS VirtioPciProbe

MCOffered == [s \in 0 .. 1 |-> IF s = 1 THEN Bits ELSE {}]
=============================================================================
