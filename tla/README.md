# A TLA+ model of kvm-host

kvm-host is a small user-space hypervisor on Linux KVM: one vCPU thread runs the
guest and handles its I/O exits; other threads serve the emulated devices. This
directory holds TLA+ modules for the program's life cycle, its devices and buses, TLC configurations,
and TLAPS proofs. Source paths below are relative to the repository root; the C code is in
`src/`.

## The system

| part | state | operations | what is hard |
|---|---|---|---|
| byte FIFO (`utils.h`) | ring, two free-running unsigned counters | put, get, tests | the counters wrap |
| serial device (`serial.c`) | UART registers, FIFO, interrupt line | register accesses (vCPU), `serial_thread`, `serial_exit` | two threads, a mutex, one condition variable signalled at one exact fill level, registers read without the mutex |
| packed virtqueue (`virtq.c`) | next index, wrap counter | `virtq_get_avail`, `virtq_handle_avail` | a descriptor's lap is told from two bits |
| block device (`virtio-blk.c`, `diskimg.c`) | queue, image, ISR, eventfds | `complete_request`, two threads | the handler runs on either of two threads; chains are consumed one descriptor at a time |
| network device (`virtio-net.c`) | two queues, event flags, tap | receive and transmit threads | two threads share ISR and irqfd; the doorbell may be suppressed |
| virtio PCI transport (`virtio-pci.c`) | common configuration, ISR | register reads and writes | select-then-write protocols; reset does nothing |
| PCI (`pci.c`), buses (`bus.c`) | headers, BARs, linked lists | configuration writes, lookup | regions enter and leave a list as bits and bases change |
| VM set-up, run loop, exit (`vm.c`, `main.c`) | file descriptors, memory | start, run, tear down | threads still running at tear-down |
| x86 and arm64 boot (`arch/`) | guest memory layout | load image and initrd, device tree | placement arithmetic |

The vCPU thread calls `bus_handle_io` for each exit; the bus finds the device and calls
its handler. Devices raise interrupts through `KVM_IRQ_LINE` (serial) or an irqfd
(virtio). The guest's stores to a doorbell reach a device thread through an ioeventfd,
or, if KVM does not match them, the vCPU thread itself.

## Modules

| module | models | remarks |
|---|---|---|
| `Vm` | `main.c`, `vm.c`, `arch/*/vm.c`, set-up and exit of the devices | one run of the program; main's program counter names the call it is about to make, every call to the system may fail, and so may the creation of a thread; the device threads run next to it |
| `Boot` | placement in `arch/*/vm.c` | operators; the program's own constants, in units of 64 KiB |
| `Fifo` | `utils.h` | operators; counters modulo `UINT_MOD` |
| `Serial` | `serial.c` | the worker's critical section is cut into steps because the guest reads `iir` and `lsr` without the mutex; the vCPU's critical sections are single steps |
| `Console` | abstract | a bounded queue behind the Ctrl-A filter; `Serial` implements it |
| `Virtq` | `virtq.c` | operators on one queue, and the driver's side (external) |
| `VirtioBlk` | `virtio-blk.c`, `diskimg.c`, doorbell and ISR of `virtio-pci.c` | `h` is the run of `virtq_handle_avail` in progress, on the thread `h.by` |
| `BlockDev` | abstract | requests executed in order, once, whole; `VirtioBlk` implements it |
| `VirtioNet` | `virtio-net.c`, ISR of `virtio-pci.c` | each queue has its thread's program counter `tpc[q]` |
| `VirtioPci` | common configuration of `virtio-pci.c` | a guest that writes in any order |
| `VirtioPciProbe` | - | the same registers under a driver's probe sequence (external) |
| `Bus` | `bus.c` | the list with its next pointers |
| `Pci` | `pci.c` over `Bus` | command register and BAR writes in any order, through the address and data ports (x86) or the memory-mapped window (arm64); two history variables, `moved` and `stranded`, record writes that `pci.c` does not follow |
| `SerialProofs`, `VmProofs`, `VirtioPciProofs`, `VirtqProofs`, `VirtioNetProofs`, `PciProofs`, `VirtioBlkSteps`, `VirtioBlkProofs` | - | lemmas and theorems |
| `MC...` | - | constants for TLC |

`Vm` composes the threads that the other modules look at one by one: of each device it
keeps only the places where a thread can wait or end and what it uses there (the mutex
and poll of the serial worker, the eventfds and the image of the block device, the tap
and the guest's memory). What a device does between its start and its stop is the
business of the device's own module.

The guest's drivers, KVM, the terminal and the tap are external: they are modelled from
what the code expects of them. Definitions marked "variant" are wrong on purpose. Each
stands before the definition it would replace and shows that a property depends on it;
no specification uses one.

Data is abstracted: bytes are three values (NUL, Ctrl-A, `x`), sectors hold one value,
packets are numbers, addresses are small numbers, lengths are counted in sectors. A
kernel is the fields of its header that the loaders look at, an initrd its size.

## Runs

Passing runs:

| run | shows | bounds and why they are enough |
|---|---|---|
| `vm_lifecycle` | the guest runs only on a complete machine (`GuestReady`, `NetComplete`), with everything where it belongs (`InitrdHighest`, `LayoutSound`) and a true device tree (`FdtTrue`); no thread that `vm_exit` waits for loses what it uses (`ResourcesOutlive`); the network threads, which are not stopped, can fault only when nothing is left to do (`FaultOnlyAtTheEnd`); the program ends where it can (`ShutdownEnds`) | both architectures; 8 kernels: none, one that cannot be opened, the two values Linux has had for `initrd_addr_max`, one of them an arm64 image without `image_size`, and four short files: one that needs more than its area, one that is no arm64 image, one whose `image_size` and one whose `text_offset` makes a sum of the size test wrap; no initrd, one of a whole arm64 area, of all of RAM and of more; a `size_t` of 2^20 units, so that `RAM_SIZE - datasz` and the sums wrap. 1.2 million states. `VmProofs` has the safety part for all files |
| `serial_device` | LSR never shows data that is not there and shows what is there whenever the mutex is free (`DataReady`: the byte is put in the ring before the bit is set, in two steps); IIR and line agree with it; no lost wakeup; `Serial` implements `Console`; the ring is never overrun; typed bytes are delivered | ring of 2, counters modulo 4, 4 bytes: the ring fills, the worker waits and the counters wrap; hang-up and one failed read. `SerialProofs` has the safety part, the refinement included, for rings of every length |
| `blk_requests` | `VirtioBlk` implements `BlockDev`; ring discipline; every request is answered | ring of 8, 3 chains of 3: the ring wraps; both kinds of doorbell; errors. `VirtioBlkProofs` has the safety part for rings of every size |
| `blk_announced` | a used chain is never left unannounced | 4 requests of all types, two-byte doorbell |
| `net_packets` | order, no duplicates, no buffer returned without its packet, no packet without signal, every packet taken | rings of 2, 3 packets each way, one failed transfer in either direction, a tap that is not always writable: each ring wraps. `VirtioNetProofs` has the safety part for rings of every size |
| `pci_registers` | window and queues agree; mapped rings stay; a probe ends with every queue on the driver's rings | 2 queues and a selector past the last; the free guest has one address value beside the initial 0, the probing driver a different address for every area; no feature bits (they are independent of the queues, and `pci_features` has one) |
| `pci_bars` | list well formed, regions routed, accesses sent to their device by either route | 3 devices (head, middle and tail of the list), zero, unaligned, equal and high BAR values, any order of writes. The devices are interchangeable, and the run uses their symmetry. `PciProofs` has lists of every length |

Runs that refute what a document or comment says (findings):

| run | what the code does |
|---|---|
| `serial_exit_keys` | Ctrl-A x is not seen while the guest leaves the input buffer full |
| `blk_get_id` | an unsupported request comes back with its status byte unwritten |
| `blk_long_read` | a buffer of 65536 bytes is truncated to 0 by `data_size` and answered OK |
| `net_isr` | an ISR bit set between the copy and the clear of ISR is lost with the completion it announced |
| `pci_features` | accepted features are latched one register too early |

Restrictions of the passing runs, each because the code behaves differently outside
them:

- `blk_requests` leaves out GET_ID, whose chains the device consumes only in part (see
  `blk_get_id`), and lengths beyond `data_size` (see `blk_long_read`).
- `AllAnswered` is claimed where the vCPU thread serves the doorbell. That is Linux's
  case: its two-byte store does not match the ioeventfd, which is registered with the
  four bytes of the notify capability. The device's own thread is reached only by a
  four-byte store.
- `pci_bars` lets the guest write anything; its properties except what `pci.c` does not
  follow. A region whose BAR was zero when decoding was enabled is not put on the bus
  when the BAR is written, and one whose BAR is zeroed while decoded is not taken off:
  such a device is in `moved` until its decoding goes off, and `OnBusIffDecoding` and
  `AccessesRouted` leave it out. If decoding goes off while the BAR is zero, the region
  stays on the list for good; given a place and switched on again it is inserted a
  second time, and the list becomes a circle. `stranded` records that step, and
  `LookupTerminates` says that the circle has no other cause. Without the exception TLC
  finds the circle within six writes.
- `WriteQueueEnable` and the doorbells name only queues there are: the code indexes its
  array of queues with the guest's number in both places without a test.
- A transmit buffer shorter than the packet header is treated as a failed transfer,
  which is what the code does with it.
- After a reset the queues stay enabled, so the second probe of `pci_registers` ends at
  `"failed"`.
- `LayoutSound` assumes files that fit (`FilesFit`): nothing on arm64 tests the size of
  the initrd, and the search for its place on x86 does not know where the kernel ends.
  It makes no assumption on the fields of an arm64 header for the file itself. The sums
  of the size test may wrap; where `text_offset` makes that of the file wrap, the copy
  faults, and otherwise the file lies in its area. A wrap of the sum with `image_size`
  goes unnoticed: then nothing is claimed of the memory beyond the file.
- `GuestReady` is about the files that could be opened. A kernel or initrd that could not
  be is no error to `main`, and on x86 nothing is claimed of the registers, whose
  set-up may fail unnoticed.
- A thread that could not be created is joined, or signalled, by a name that was never
  set. The models let that fault or return at once; `FaultOnlyAtTheEnd` names these
  places.
- `InitrdHighest` is claimed for initrds no larger than RAM: beyond, `RAM_SIZE - datasz`
  wraps and the first candidate is taken.
- `ShutdownEnds` assumes that keys keep being typed, since nothing else wakes the worker
  from `poll`; it leaves out a program with a block device, where `virtio_blk_exit`
  joins a thread that never ends, and a worker that waits, or is about to wait, for room
  in a buffer the guest no longer reads.

Deadlock is not checked where the system may stop: `vm_lifecycle` (the program ends, or
`vm_exit` waits for ever in one of the joins above), `serial_device` (the program exits,
or `serial_exit` waits for a worker blocked in `poll`), the block runs (the request
bound is reached, or the process is killed by SIGUSR1, for which no handler is
installed) and the register runs (the probe ends).

## Fairness

A runnable thread runs (weak fairness of the worker, of the devices' handlers and
threads, of main once the guest has stopped). The guest takes a pending interrupt, and
its driver looks at the doorbell decision after adding a buffer: that is what an
interrupt handler and a driver's kick are. For the serial device the guest's read of RX
has strong fairness, because the worker keeps taking and giving back the mutex it needs.
The tap is taken to be writable again and again (strong fairness of `PollTx`): without
that no packet could be sent. Nothing else is assumed of the tap, nor of the terminal,
spurious wakeups or new requests, nor, in
`Vm`, of the guest and of the devices' threads other than the serial worker.
`ShutdownEnds` states what it needs of the terminal as its premise.

## Proofs

Every invariant that a passing run checks is proved, and so are both refinements and the
action property `RingsStay`. Four theorems about the block device have a hypothesis, given with them
below; each stands for a restriction the code itself has.

`SerialProofs`, for every ring length, counter width, byte set and bound allowed by
`FifoAssumption` and `SerialAssumption`: `Invariance` (`Spec => []IInv`), and from it
`TypeCorrect`, `NoLostWakeup`, `DataReadyIsTrue`, `LineIsSettled`, `RdiAlwaysHasData`,
`RingNeverOverrun`. `IInv`
strengthens the properties. `LockHeld` says at which program counters the worker holds
the mutex, so a guest's step cannot fall inside the critical section. `IirStored` says
that between the store of `iir` and the move of the line, `iir` has the value `ier` and
`lsr` call for. `DrStored` says that the one moment at which the ring holds a byte that
`lsr` does not show is between the worker's `fifo_put` and its store of `lsr`. Without
the first, a guest step could empty the ring under the worker;
without the second, the line would not be right when the mutex is given back. That no
wakeup is lost needs the bound on the ring as well: the worker goes to sleep only with a
full ring, nobody else fills it, and each read lowers it by one, so the half-full mark is
met. Lemmas `FifoPut` and `FifoGet` carry the wrap-around arithmetic.
`ImplementsConsole` is the refinement of `Console`. Its core are `PutContents` and
`GetContents`: what the ring holds, read from `head` up to the difference of the two
counters, grows at its end by a put and loses its first byte by a get. They rest on the
counters' modulus being a multiple of the ring's length (`ModShift`), without which a
wrap of the counters would move the bytes.

`VmProofs`, for every set of kernels and initrds and every `size_t` allowed by
`BootAssumption` and `VmAssumption`, and every order of failures and thread steps:
`Inductive` (`Spec => []Inv`), and from it `TypeCorrect`, `GuestIsReady`,
`ResourcesDoOutlive`, `FaultsAtTheEnd`, `NetIsComplete`, `InitrdIsHighest`,
`LayoutIsSound` and `FdtIsTrue`. The properties speak of the moment the guest runs;
`Inv` says, for every place main can be at, what is open and mapped there (`FdsInv`),
which threads exist, have ended or could not be created (`ThreadInv`), which device is on the bus and complete
(`BlkInv`, `NetInv`, `PciPhase`), what is in memory and where (`KernelInv`,
`InitrdInv`), and what the machine's controller and tree are (`MachineInv`). `SearchInv`
is the loop invariant of the search for the initrd's place: `addr` is a whole megabyte
and no candidate above it fits. The layout then follows by arithmetic on the regions;
`Wraps` and `Accepted` are its part about sums that wrap. Once the joins are behind main
(`Past`), the threads it waited for have ended or never were: that is what lets it close
what they used.

`VirtioPciProofs`, for any number of queues, sizes and addresses and a guest that either
probes, again and again, or writes in any order: `Inductive`, `TypeCorrect`,
`WindowIsTrue`, `QueuesAreReady`, `RingsDoStay`.
That the window shows the selected queue is inductive with the types; that a probe ends
with every queue on its own rings needs `ProbeInv`, which says for each step of the probe
which queues have been given their rings, which are enabled, and which addresses of the
one at hand have been written.

`PciProofs`, for any finite set of devices, any BAR size and values and any sequence of
writes: `Inductive`, `TypeCorrect`, `LookupsTerminate`, `BusIsDecoding` and
`AccessesAreRouted`. `Inv` says that, until a device is stranded, the next pointers,
followed from the head, are a list `s[1] ... s[n]` without repetition of the devices that
decode memory, where those in `moved` may be on it or not. That the list has no
repetition is what its removal relies on and what the properties do not say.
`RegisterList` and `DeregisterList` show what the two operations of `bus.c` do to such a
list at its head, in its middle and at its end. What a walk meets (`WalkList`) is shown by
induction along the list, from the least-element principle (`LeastElement`).

`VirtqProofs` has the arithmetic of a packed ring of any size: three positions (the
driver's two and the device's), each an index and a wrap counter, and how far a slot is
ahead of each. `Window` says what the two flag bits of a slot must be, from how far it is
ahead: free, offered, or used. Four lemmas show that offering, taking, marking used and
reaping each keep it.

`VirtioNetProofs`, for rings of every size and any number of packets and failures:
`Inductive`, `TypeCorrect`, `ThreadStaysInWindow`, `PacketIsSeen`, `UsedBuffersAreDone`,
`PacketsInOrder`. Every action does one of five things to a queue (`Shape`): nothing, or
one of the four above, so the ring lemmas apply to each (`QueueStep`). `Held` says that
between `virtq_get_avail` and the update of the flags the thread holds the slot just
behind its position; this is what makes the mark fall on the right slot. `SignalInv` says
that without a pending doorbell the transmit thread has its event flags on, is before
its next poll, and has taken everything the driver has not still to kick for.
`TxOrder` and `RxOrder` say that the packets given by one side and not yet taken by the
other stand in the ring in the order of their positions.

`VirtioBlkProofs` (over `VirtioBlkSteps`, which has types, runs and the ring), for rings of
every size, any number of requests, failures and both threads: `Inductive`, `TypeCorrect`,
`StaysInWindow`, `ChainsAreComplete`, `UsedGetsAnnounced` and the refinement
`ImplementsBlockDev`. Descriptors are numbered from the start, without wrapping: `Pos(n)`,
`Slot(n)` and `Lap(n)` are the position, index and wrap counter at the `n`-th. `RingInv(u)`
gives every descriptor on the ring when `u` chains have been used: chain `c` lies at
`3c`, `3c+1`, `3c+2` with the flags of its lap, and the free slots have those of the lap
before. `DevInv` says at which descriptor the device stands for each step of
`virtq_handle_avail` and `complete_request`, `RunInv` on which thread the run is,
`AnnounceInv` who is about to announce a used chain, and `AnswerInv` that what the driver
will find in its memory is what was answered. A chain that a request of another type
leaves half consumed is in `DevInv` (`Refuses`, `Stray`): the device stands inside the
chain it has used, and takes its last descriptor for a head. On the vCPU thread the
guest cannot reuse the chain before the handler has passed it.
The hypotheses:

- `Orderly` (`StaysInWindow`, `ChainsAreComplete`): requests of other types only where the
  vCPU thread serves the doorbell. On the device's own thread the driver may take back
  the used chain while the device still stands in it; TLC shows `DeviceInWindow` violated
  then, with two requests. (For `ChainComplete` it finds no violation there with up to
  five requests; that case is not proved.)
- A doorbell that the vCPU thread serves (`UsedGetsAnnounced`): on the other thread the
  device may set the ISR bit between the vCPU's copy of ISR and its reset, as in
  `net_isr`; TLC shows `UsedIsAnnounced` violated with three requests.
- `Plain` (`ImplementsBlockDev`): reads and writes only, with lengths below `data_size`'s
  modulus. `blk_get_id` and `blk_long_read` show what happens otherwise.

Only model-checked: the liveness properties (`InputDelivered`, `AllAnswered`, `AllSent`,
`ShutdownEnds`), which are outside the prover's reach, and the violations.

## Not modelled

- Terminal attributes (`set_input_mode` only by whether it fails).
- The data of boot: values of registers, CPUID and MSRs, the bytes of the device tree.
  Whether they are set, and what the tree says of controller, initrd and disk, is in
  `Vm`.
- Capability bytes, device-specific configuration, ROM and I/O-space BARs (no device has
  one).
- Short transfers of the disk image, and the seek and the transfer as two steps: only one
  handler runs at a time.
- Repeated port I/O: `vm_handle_io` makes `count` accesses at rising ports; the models
  have the single accesses.
- An ioeventfd keeps its address when the guest moves the BAR.
- A copy beyond the guest's memory, or to or from memory that could not be mapped, is
  taken as the end of the process. `fstat` is taken to succeed, and the command line to
  fit the 64 KiB it has on x86.
- The eventfds of the network device, and what becomes of its threads without them.
- `dev_num` of a bus: it numbers the PCI devices as they are set up, which is `Vm`'s list.
- The lookup of a device on `pci_bus`, where nothing moves, and writes of only a part of
  the configuration address.
- The arm64 build does not define `VIRTIO_NET_IRQ`; `Vm` treats the network device there
  as on x86.
- `virtio_net_exit`, which the program never calls.
- The queues of the device modules and the registers of `VirtioPci` are not composed:
  the device modules start from queues enabled once, and a reset, which changes nothing
  in the code but the status, is only in `VirtioPci`.
