------------------------------ MODULE BlockDev ------------------------------
(***************************************************************************)
(* What the virtio block device promises its driver, without rings,        *)
(* descriptors or interrupts: requests are executed one at a time in the   *)
(* order they were submitted, each exactly once and as a whole, and the    *)
(* driver gets the answers in that order.                                  *)
(***************************************************************************)
EXTENDS Integers, Sequences

CONSTANTS Sectors, Requests, MayFail

VARIABLES pending,   \* every request submitted
          disk,      \* contents of the disk image
          answers,   \* the answers to the first Len(answers) of them
          taken      \* the answers the driver has seen

vars == <<pending, disk, answers, taken>>

Covered(r) == r.sector .. r.sector + r.len - 1
Answer(status, data) == [status |-> status, data |-> data]

Init ==
    /\ pending = <<>> /\ answers = <<>> /\ taken = <<>>
    /\ disk = [s \in Sectors |-> "zero"]

Submit(r) ==
    /\ pending' = Append(pending, r)
    /\ UNCHANGED <<disk, answers, taken>>

Reply(status, data) ==
    /\ answers' = Append(answers, Answer(status, data))
    /\ UNCHANGED <<pending, taken>>

Read(r) ==
    /\ r.type = "IN"
    /\ Reply("OK", [k \in 0 .. r.len - 1 |-> disk[r.sector + k]])
    /\ UNCHANGED disk

Write(r) ==
    /\ r.type = "OUT"
    /\ Reply("OK", <<>>)
    /\ disk' = [s \in Sectors |-> IF s \in Covered(r) THEN r.val ELSE disk[s]]

Fail(r) ==
    /\ r.type \in {"IN", "OUT"} /\ MayFail
    /\ Reply("IOERR", <<>>)
    /\ UNCHANGED disk

Refuse(r) ==
    /\ r.type \notin {"IN", "OUT"}
    /\ Reply("UNSUPP", <<>>)
    /\ UNCHANGED disk

Execute ==
    /\ Len(answers) < Len(pending)
    /\ LET r == pending[Len(answers) + 1]
       IN  Read(r) \/ Write(r) \/ Fail(r) \/ Refuse(r)

Take ==
    /\ Len(taken) < Len(answers)
    /\ taken' = Append(taken, answers[Len(taken) + 1])
    /\ UNCHANGED <<pending, disk, answers>>

Next == Execute \/ Take \/ \E r \in Requests : Submit(r)

Spec == Init /\ [][Next]_vars
=============================================================================
