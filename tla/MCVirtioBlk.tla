---------------------------- MODULE MCVirtioBlk ----------------------------
(***************************************************************************)
(* Instances of VirtioBlk for TLC.  A ring of 8 holds two chains of three  *)
(* and makes the third wrap inside a chain, as a ring of 128 does.         *)
(***************************************************************************)
EXTENDS VirtioBlk

MCSectors == 0 .. 1
=============================================================================
