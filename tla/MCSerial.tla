------------------------------ MODULE MCSerial ------------------------------
(***************************************************************************)
(* Instances of Serial for TLC.  The ring has two bytes and the counters   *)
(* wrap after 4.                                                           *)
(***************************************************************************)
EXTENDS Serial

MCByte == {"nul", "ctrl-a", "x"}
=============================================================================
