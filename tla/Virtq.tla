-------------------------------- MODULE Virtq --------------------------------
(***************************************************************************)
(* The packed virtqueue of src/src/virtq.c, as operators on one queue: the *)
(* device's position in the ring and the tests and updates of the flag     *)
(* bits of a descriptor.  The guest driver's side of the protocol is       *)
(* external (the guest runs the Linux driver); it is what the device's     *)
(* tests suppose.                                                          *)
(*                                                                         *)
(* A descriptor's flags are a record with fields avail, used and next; a   *)
(* position is a record [idx, wrap].                                       *)
(***************************************************************************)
EXTENDS Integers

CONSTANT QSize   \* info.size (VIRTQ_SIZE, 128, unless the guest lowers it)

ASSUME VirtqAssumption == QSize \in Nat \ {0}

Slots == 0 .. QSize - 1
Positions == [idx : Slots, wrap : BOOLEAN]

(* virtq_init: both sides begin at slot 0 with the wrap counter at 1.      *)
FirstPosition == [idx |-> 0, wrap |-> TRUE]

(* virtq_get_avail: whether the descriptor at the device's position has    *)
(* been made available and not yet used.                                   *)
IsAvail(flags, wrap) == flags.avail = wrap /\ flags.used # wrap

(* virtq_get_avail: next_avail_idx and used_wrap_count past a descriptor.  *)
StepLate(p) ==   \* variant
    IF p.idx + 1 > QSize
      THEN [idx |-> p.idx + 1 - QSize, wrap |-> ~p.wrap]
      ELSE [p EXCEPT !.idx = p.idx + 1]
StepKeepingWrap(p) ==   \* variant
    IF p.idx + 1 >= QSize THEN [p EXCEPT !.idx = p.idx + 1 - QSize]
                          ELSE [p EXCEPT !.idx = p.idx + 1]
Step(p) ==
    IF p.idx + 1 >= QSize
      THEN [idx |-> p.idx + 1 - QSize, wrap |-> ~p.wrap]
      ELSE [p EXCEPT !.idx = p.idx + 1]

(* virtq_check_next.                                                       *)
virtq_check_next(flags) == flags.next

(* The devices give a descriptor back by flipping its USED bit.            *)
MarkUsed(flags) == [flags EXCEPT !.used = ~flags.used]

-----------------------------------------------------------------------------
(* The driver (external).  It makes a descriptor available with the bits   *)
(* of its own wrap counter and takes one back when both bits match it.     *)
AvailFlags(wrap, next) == [avail |-> wrap, used |-> ~wrap, next |-> next]
IsUsed(flags, wrap) == flags.avail = wrap /\ flags.used = wrap

(* The position n descriptors further on, for n < QSize.                   *)
Ahead(p, n) ==
    IF p.idx + n >= QSize
      THEN [idx |-> p.idx + n - QSize, wrap |-> ~p.wrap]
      ELSE [p EXCEPT !.idx = p.idx + n]

(* How far position q is ahead of p, for q at most one lap ahead.          *)
Dist(p, q) ==
    IF p.wrap = q.wrap THEN q.idx - p.idx ELSE q.idx + QSize - p.idx
=============================================================================
