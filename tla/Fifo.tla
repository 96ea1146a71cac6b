-------------------------------- MODULE Fifo --------------------------------
(***************************************************************************)
(* The byte FIFO of src/src/utils.h: a ring of FIFO_LEN bytes with two     *)
(* free-running unsigned counters.  The counters are never reduced modulo  *)
(* the length: they wrap with the width of an unsigned int, and every test *)
(* is made on their (wrapped) difference.                                  *)
(*                                                                         *)
(* Definitions marked "variant", here and in the other modules, are wrong  *)
(* on purpose: put in the place of the definition that follows them, they  *)
(* make a property fail, which shows that the property depends on it.      *)
(***************************************************************************)
EXTENDS Integers, Sequences

CONSTANTS FIFO_LEN,   \* bytes in the ring (64 in the code)
          UINT_MOD,   \* one more than the largest unsigned int (2^32)
          Byte        \* the bytes the console carries

(* 2^32 is a multiple of 64, so masking a counter gives consecutive slots  *)
(* also across the counter's own wrap-around.                              *)
ASSUME FifoAssumption ==
    /\ FIFO_LEN \in Nat \ {0}
    /\ UINT_MOD \in Nat
    /\ UINT_MOD > FIFO_LEN
    /\ UINT_MOD % FIFO_LEN = 0

FIFO_MASK == FIFO_LEN - 1

Fifos == [data : [0 .. FIFO_MASK -> Byte],
          head : 0 .. UINT_MOD - 1,
          tail : 0 .. UINT_MOD - 1]

(* Unsigned increment and subtraction, with the width of unsigned int.     *)
UIncLateWrap(x) == IF x = UINT_MOD THEN 0 ELSE x + 1   \* variant
UInc(x) == IF x = UINT_MOD - 1 THEN 0 ELSE x + 1
USub(x, y) == IF y <= x THEN x - y ELSE x + UINT_MOD - y

fifo_capacity(f) == USub(f.tail, f.head)

fifo_is_empty(f) == f.head = f.tail

fifo_is_full_late(f) == USub(f.tail, f.head) > FIFO_LEN   \* variant
fifo_is_full(f) == USub(f.tail, f.head) > FIFO_MASK

(* The state after a fifo_put that found room; the callers test first.     *)
fifo_put(f, c) == [f EXCEPT !.data[f.tail % FIFO_LEN] = c,
                            !.tail = UInc(f.tail)]

(* The byte a fifo_get of a non-empty FIFO yields, and the state after it. *)
fifo_front(f) == f.data[f.head % FIFO_LEN]
fifo_get(f) == [f EXCEPT !.head = UInc(f.head)]

(* What the FIFO holds, oldest byte first (for the properties).            *)
fifo_contents(f) ==
    [i \in 1 .. fifo_capacity(f) |-> f.data[(f.head + i - 1) % FIFO_LEN]]
=============================================================================
