--------------------------------- MODULE Bus ---------------------------------
(***************************************************************************)
(* The device list of src/src/bus.c, as operators on one bus: a record     *)
(* with the head of a singly linked list and the next pointer of every     *)
(* device.  The pointers are kept as they are, so that a device that is    *)
(* inserted twice makes the list what it makes it in the code.             *)
(*                                                                         *)
(* A definition marked "variant" is deliberately wrong: it is the one after*)
(* it with a plausible mistake, kept to show which property notices.       *)
(***************************************************************************)
EXTENDS Integers, FiniteSets

CONSTANTS Devs,   \* the devices (struct dev) that can be on the bus
          NULL    \* the null pointer

ASSUME BusAssumption == IsFiniteSet(Devs) /\ NULL \notin Devs

Pointers == Devs \cup {NULL}
Buses == [head : Pointers, next : [Devs -> Pointers]]

bus_init == [head |-> NULL, next |-> [d \in Devs |-> NULL]]

(* dev_num, which this counts, only numbers the PCI devices: see Vm's pci. *)
bus_register_dev(b, d) == [head |-> d, next |-> [b.next EXCEPT ![d] = b.head]]

(* The k-th device of the list, NULL past its end.  A list with more steps *)
(* than there are devices has a cycle.                                     *)
Steps == 0 .. Cardinality(Devs)
Walk(b) ==
    LET w[k \in Steps] ==
            IF k = 0 THEN b.head
            ELSE IF w[k - 1] = NULL THEN NULL ELSE b.next[w[k - 1]]
    IN  w
OnBus(b) == {Walk(b)[k] : k \in Steps} \ {NULL}
Terminates(b) == Walk(b)[Cardinality(Devs)] = NULL

DeregisterCutting(b, d) ==   \* variant: the rest of the list is lost
    IF b.head = d THEN [b EXCEPT !.head = NULL]
    ELSE [b EXCEPT !.next = [e \in Devs |-> IF b.next[e] = d THEN NULL ELSE b.next[e]]]

(* The first pointer to d is made to skip it; nothing happens if there is  *)
(* none.                                                                   *)
bus_deregister_dev(b, d) ==
    IF d \notin OnBus(b) THEN b
    ELSE IF b.head = d THEN [b EXCEPT !.head = b.next[d]]
    ELSE LET k == CHOOSE k \in Steps \ {0} :
                     /\ Walk(b)[k] = d
                     /\ \A j \in Steps : j < k => Walk(b)[j] # d
         IN  [b EXCEPT !.next[Walk(b)[k - 1]] = b.next[d]]

(* bus_find_dev: the first device whose range holds the address.           *)
InRange(a, base, len) == a >= base /\ a <= base + len - 1
bus_find_dev(b, base, len, a) ==
    LET hits == {k \in Steps : /\ Walk(b)[k] # NULL
                               /\ InRange(a, base[Walk(b)[k]], len)}
    IN  IF hits = {} THEN NULL
        ELSE Walk(b)[CHOOSE k \in hits : \A j \in hits : k <= j]

(* bus_handle_io: the device that is called, if any.                       *)
bus_handle_io(b, base, len, a, size) ==
    LET d == bus_find_dev(b, base, len, a)
    IN  IF d # NULL /\ a + size - 1 <= base[d] + len - 1 THEN d ELSE NULL
=============================================================================
