------------------------------- MODULE Console -------------------------------
(***************************************************************************)
(* What the serial console promises, without threads, registers or         *)
(* counters: a bounded queue between the terminal and the guest, fed       *)
(* through the Ctrl-A escape filter.                                       *)
(***************************************************************************)
EXTENDS Integers, Sequences

CONSTANTS Byte, EscapeChar, ExitChar, Capacity

VARIABLES input,      \* what has been typed
          hungup,     \* the terminal is gone
          taken,      \* how many typed bytes the console has looked at
          prefix,     \* the last one looked at was an unpaired Ctrl-A
          queue,      \* accepted, not yet read by the guest
          delivered,  \* read by the guest
          over        \* Ctrl-A x has ended the session

vars == <<input, hungup, taken, prefix, queue, delivered, over>>

Init ==
    /\ input = <<>> /\ hungup = FALSE /\ taken = 0 /\ prefix = FALSE
    /\ queue = <<>> /\ delivered = <<>> /\ over = FALSE

Type(c) ==
    /\ ~hungup
    /\ input' = Append(input, c)
    /\ UNCHANGED <<hungup, taken, prefix, queue, delivered, over>>

HangUp ==
    /\ hungup' = TRUE
    /\ UNCHANGED <<input, taken, prefix, queue, delivered, over>>

(* A byte is accepted, is the escape, or ends the session after one; and   *)
(* it is looked at only while there is room for it.                        *)
Accept(c) ==
    /\ c # (IF prefix THEN ExitChar ELSE EscapeChar)
    /\ queue' = Append(queue, c)
    /\ prefix' = FALSE
    /\ UNCHANGED over

Escape(c) == ~prefix /\ c = EscapeChar /\ prefix' = TRUE /\ UNCHANGED <<queue, over>>
Quit(c) == prefix /\ c = ExitChar /\ over' = TRUE /\ UNCHANGED <<queue, prefix>>

Look(c) ==
    /\ Len(queue) < Capacity
    /\ Accept(c) \/ Escape(c) \/ Quit(c)
    /\ UNCHANGED <<input, hungup, delivered>>

Take ==
    /\ taken < Len(input)
    /\ Look(input[taken + 1])
    /\ taken' = taken + 1

(* Once everything typed before a hang-up is taken, bytes nobody typed     *)
(* follow.                                                                 *)
Invent ==
    /\ hungup /\ taken = Len(input)
    /\ \E c \in Byte : Look(c)
    /\ UNCHANGED taken

Deliver ==
    /\ queue # <<>>
    /\ delivered' = Append(delivered, Head(queue))
    /\ queue' = Tail(queue)
    /\ UNCHANGED <<input, hungup, taken, prefix, over>>

Next ==
    /\ ~over
    /\ Take \/ Invent \/ Deliver \/ HangUp \/ \E c \in Byte : Type(c)

Spec == Init /\ [][Next]_vars
=============================================================================
