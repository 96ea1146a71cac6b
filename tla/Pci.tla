--------------------------------- MODULE Pci ---------------------------------
(***************************************************************************)
(* PCI configuration space and BARs of src/src/pci.c, over the list of     *)
(* bus.c.  Each device has one memory BAR (both virtio devices use BAR 0   *)
(* only; a BAR of size 0 is never put on a bus).  The guest reaches the    *)
(* configuration space through the address and data ports (x86) or through *)
(* a region of memory (arm64); what it writes to the command register and  *)
(* the BAR moves the device's region on and off the MMIO bus.              *)
(* The guest may write anything at any time.  Two history variables record *)
(* the writes pci.c does not follow, for the properties to speak of; the   *)
(* program has no such state.                                              *)
(* Definitions marked "variant" are deliberately wrong (see Bus).          *)
(***************************************************************************)
EXTENDS Bus

CONSTANTS BarSize,   \* bar_size of every BAR, a power of two
          BarVals    \* values the guest writes to a BAR

ASSUME PciAssumption ==
    /\ BarSize \in Nat \ {0}
    /\ BarVals \subseteq Nat

Regs == {"command", "bar"}

VARIABLES
    route,       \* the way to the configuration space: "ports" or "mmio"
    pci_addr,    \* the latched configuration address: none, or [dev, reg]
    mem,         \* [device -> PCI_COMMAND_MEMORY in its header]
    base,        \* [device -> the BAR in its header, and space_dev.base]
    bar_active,  \* [device -> bar_active]
    bus,         \* the MMIO bus
    moved,       \* history: devices whose BAR has gone to or from zero
                 \* since their decoding was switched on
    stranded     \* history: decoding was switched off for such a device
                 \* with its BAR at zero

guest == <<moved, stranded>>
vars == <<route, pci_addr, mem, base, bar_active, bus, guest>>

NoAddress == [enable |-> FALSE]
Address(d, r) == [enable |-> TRUE, dev |-> d, reg |-> r]

Init ==
    /\ route \in {"ports", "mmio"}
    /\ pci_addr = NoAddress
    /\ mem = [d \in Devs |-> FALSE]
    /\ base = [d \in Devs |-> 0]
    /\ bar_active = [d \in Devs |-> FALSE]
    /\ bus = bus_init
    /\ moved = {}
    /\ stranded = FALSE

-----------------------------------------------------------------------------
(* x & ~(bar_size - 1), and its use as a condition.                        *)
Unmasked(x) == x   \* variant
Masked(x) == x - (x % BarSize)
Placed(d) == Masked(base[d]) # 0

(* pci_address_io: a write to port 0xCF8 selects a register.               *)
AddressWrite(a) ==
    /\ route = "ports"
    /\ pci_addr' = a
    /\ UNCHANGED <<route, mem, base, bar_active, bus, guest>>

(* The register a write goes to: pci_data_io uses the latched address, if  *)
(* it is enabled, pci_mmio_io the offset in the region.  The lookup of the *)
(* device on pci_bus, where nothing moves, is taken to find it; addresses  *)
(* are written whole.                                                      *)
Reaches(d, r) == route = "ports" => pci_addr = Address(d, r)

(* pci_activate_bar and pci_deactivate_bar, from pci_command_bar.          *)
ActivateAgain(d) ==   \* variant: inserts a region that is on the bus
    /\ bus' = IF Placed(d) THEN bus_register_dev(bus, d) ELSE bus
    /\ bar_active' = [bar_active EXCEPT ![d] = TRUE]
Activate(d) ==
    /\ bus' = IF ~bar_active[d] /\ Placed(d) THEN bus_register_dev(bus, d) ELSE bus
    /\ bar_active' = [bar_active EXCEPT ![d] = TRUE]

DeactivateLeaving(d) ==   \* variant: leaves the region on the bus
    /\ bus' = bus
    /\ bar_active' = [bar_active EXCEPT ![d] = FALSE]
Deactivate(d) ==
    /\ bus' = IF bar_active[d] /\ Placed(d) THEN bus_deregister_dev(bus, d) ELSE bus
    /\ bar_active' = [bar_active EXCEPT ![d] = FALSE]

(* pci_config_write to the command register (pci_config_command).          *)
CommandWrite(d, on) ==
    /\ Reaches(d, "command")
    /\ mem' = [mem EXCEPT ![d] = on]
    /\ IF on THEN Activate(d) ELSE Deactivate(d)
    /\ moved' = IF on THEN moved ELSE moved \ {d}
    /\ stranded' = (stranded \/ (~on /\ d \in moved /\ ~Placed(d)))
    /\ UNCHANGED <<route, pci_addr, base>>

(* The same for the BAR (pci_config_bar): the region moves where it is, on *)
(* or off the bus.                                                         *)
BarWrite(d, v) ==
    /\ Reaches(d, "bar")
    /\ base' = [base EXCEPT ![d] = Masked(v)]
    /\ moved' = IF mem[d] /\ (Placed(d) # (Masked(v) # 0)) THEN moved \cup {d} ELSE moved
    /\ UNCHANGED <<route, pci_addr, mem, bar_active, bus, stranded>>

Next ==
    \/ AddressWrite(NoAddress)
    \/ \E d \in Devs, r \in Regs : AddressWrite(Address(d, r))
    \/ \E d \in Devs, on \in BOOLEAN : CommandWrite(d, on)
    \/ \E d \in Devs, v \in BarVals : BarWrite(d, v)

Spec == Init /\ [][Next]_vars

-----------------------------------------------------------------------------
(* Types; a BAR is always aligned to its size.                             *)
TypeOK ==
    /\ route \in {"ports", "mmio"}
    /\ pci_addr = NoAddress \/ \E d \in Devs, r \in Regs : pci_addr = Address(d, r)
    /\ mem \in [Devs -> BOOLEAN] /\ bar_active \in [Devs -> BOOLEAN]
    /\ base \in [Devs -> {a \in Nat : a % BarSize = 0}]
    /\ bus \in Buses
    /\ moved \subseteq Devs /\ stranded \in BOOLEAN

(* A lookup of any address comes to an end, whatever the guest writes, as  *)
(* long as it has not switched decoding off at a BAR it moved to zero.     *)
(* pci.c leaves such a device on the list; given a place and switched on   *)
(* again, it is inserted a second time, the list runs in a circle, and     *)
(* lookups do not end.  No other sequence of writes ties that knot.        *)
LookupTerminates == ~stranded => Terminates(bus)

(* A region is on the bus exactly while its device decodes memory and has  *)
(* been given a place: nothing is left behind by a disable or a move, also *)
(* not by what the guest does to other devices, except a BAR that goes to  *)
(* or from zero while it is decoded, until decoding is next switched off.  *)
OnBusIffDecoding ==
    ~stranded => \A d \in Devs \ moved : d \in OnBus(bus) <=> mem[d] /\ Placed(d)

BarRange(d) == base[d] .. base[d] + BarSize - 1

(* What the documentation says of BARs: accesses to the address written to *)
(* a BAR are routed to the device (where no other region overlaps it); one *)
(* that starts in the region and ends outside of it goes nowhere.          *)
AccessesRouted ==
    ~stranded => \A d \in Devs \ moved :
        mem[d] /\ Placed(d)
          /\ (\A e \in Devs \ {d} : mem[e] => BarRange(e) \cap BarRange(d) = {})
        => \A a \in BarRange(d), size \in {1, 2, 4} :
              bus_handle_io(bus, base, BarSize, a, size) =
                IF a + size - 1 \in BarRange(d) THEN d ELSE NULL
=============================================================================
