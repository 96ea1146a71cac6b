---------------------------- MODULE MCVirtioNet ----------------------------
(***************************************************************************)
(* Instances of VirtioNet for TLC: rings of two buffers, so that three     *)
(* packets in a direction go past the end of the ring.                     *)
(***************************************************************************)
EXTENDS VirtioNet
=============================================================================
