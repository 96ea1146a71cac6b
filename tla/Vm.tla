--------------------------------- MODULE Vm ---------------------------------
(***************************************************************************)
(* One run of kvm-host, from src/src/main.c to the end of the process:     *)
(* vm_init with its failures, the loading of kernel, initrd and disk image,*)
(* the network device, vm_run, and vm_exit of src/src/vm.c; on x86 or      *)
(* arm64.  Main runs next to the threads it has started: the serial        *)
(* worker, the two threads of the block device and the two of the network  *)
(* device.  Of a device only what concerns starting and stopping is kept.  *)
(*                                                                         *)
(* The kernel's answers (of KVM, open, mmap, eventfd, pthread_create, the  *)
(* tap) are free choices.  Main's program counter names the call it is     *)
(* about to make; result tells whether and how the process has ended.  A   *)
(* copy that does not fit the guest's memory ends it, and so may the use   *)
(* of a thread's name when that thread was not created.  Definitions       *)
(* marked "variant" are deliberately wrong.                                *)
(***************************************************************************)
EXTENDS Boot, Sequences

CONSTANTS Archs,     \* the architectures, "x86" and "arm64"
          Kernels,   \* what -k may name
          Initrds    \* what -i may name

Files == {"none", "missing", "ok"}   \* no option, cannot be opened, readable
KernelFiles == [file : Files, size : Nat, setup : Nat, max : Nat,
                magic : BOOLEAN, text_offset : Nat, image_size : Nat]
InitrdFiles == [file : Files, size : Nat]

ASSUME VmAssumption ==
    /\ Archs \subseteq {"x86", "arm64"}
    /\ Kernels \subseteq {k \in KernelFiles :
            /\ k.size < SIZE_MOD /\ k.setup <= 2   \* setup_sects is one byte
            /\ k.text_offset < SIZE_MOD /\ k.image_size < SIZE_MOD}
    /\ Initrds \subseteq {i \in InitrdFiles : i.size < SIZE_MOD}

VARIABLES
    opt,     \* the architecture and the command line
    pc,      \* where main is
    result,  \* "running", or how the process ended
    fds,     \* the open file descriptors
    ram,     \* v->mem is mapped
    gic,     \* arm64: the interrupt controller created, and whether initialised
    regs,    \* the vCPU's registers: "reset", or set for the "boot" protocol
    addr,    \* addr in vm_arch_load_initrd
    place,   \* [object -> its region of guest memory]
    fdt,     \* what the device tree says
    pci,     \* the devices on the PCI bus, by slot
    enable,  \* virtio_blk_dev.enable
    th,      \* [thread -> where it is; "failed": it could not be created]
    stop,    \* the thread_stop flags that are set
    ev,      \* the block device's ioeventfd is readable
    input,   \* stdin is readable
    full     \* rx_buf is full

machine == <<fds, ram, gic, regs>>
memory == <<addr, place, fdt>>
threads == <<th, stop, ev, input, full>>
vars == <<opt, pc, result, machine, memory, pci, enable, threads>>

Objects == {"params", "cmdline", "kernel", "initrd", "fdt"}
NetThreads == {"rx", "tx"}
Threads == {"serial", "blk", "avail"} \cup NetThreads
NoGic == [made |-> "none", type |-> "none", ready |-> FALSE]
NoFdt == [made |-> FALSE, gic |-> "none", initrd |-> Nowhere, slot |-> 0]

Init ==
    /\ opt \in [arch : Archs, kernel : Kernels, initrd : Initrds]
    /\ pc = "args" /\ result = "running"
    /\ fds = {} /\ ram = FALSE /\ gic = NoGic
    /\ regs = "reset" /\ addr = 0
    /\ place = [o \in Objects |-> Nowhere] /\ fdt = NoFdt
    /\ pci = <<>> /\ enable = FALSE /\ th = [t \in Threads |-> "none"] /\ stop = {}
    /\ ev = FALSE /\ input = FALSE /\ full = FALSE

Running == result = "running"
At(l) == Running /\ pc = l
Goto(l) == pc' = l /\ UNCHANGED result
End(how) == result' = how /\ UNCHANGED pc
Fails == End("error")   \* throw_err, and main returns

Loaded(o) == place[o] # Nowhere
HasDev(d) == \E i \in DOMAIN pci : pci[i] = d
SlotOf(d) == CHOOSE i \in DOMAIN pci : pci[i] = d
Become(t, l) == th' = [th EXCEPT ![t] = l]

(* A step of a thread that changes nothing but its place.                  *)
ThreadStep(t, from, to) ==
    /\ Running /\ th[t] = from
    /\ Become(t, to)
    /\ UNCHANGED <<opt, pc, result, machine, memory, pci, enable, stop, ev, input, full>>

-----------------------------------------------------------------------------
(* main and vm_init, up to the first thread.                               *)

(* Options and set_input_mode: help, or stdin that is no terminal, end it. *)
Start ==
    /\ At("args")
    /\ Goto("kvm") \/ End("usage") \/ Fails
    /\ UNCHANGED <<opt, machine, memory, pci, enable, threads>>

(* A call that yields a descriptor, or fails.                              *)
Open(l, fd, next) ==
    /\ At(l)
    /\ \/ Goto(next) /\ fds' = fds \cup {fd}
       \/ Fails /\ UNCHANGED fds
    /\ UNCHANGED <<opt, ram, gic, regs, memory, pci, enable, threads>>

(* create_irqchip: GICv3, else GICv2; priv->gic_type is to name the one.   *)
CreateIrqchipKeepsType ==   \* variant: the type is not corrected
    \E g \in {"v3", "v2"} : gic' = [made |-> g, type |-> "v3", ready |-> FALSE]
CreateIrqchip ==
    \E g \in {"v3", "v2"} : gic' = [made |-> g, type |-> g, ready |-> FALSE]

ArchInit ==
    /\ At("arch")
    /\ \/ Goto("mmap") /\ IF opt.arch = "x86" THEN UNCHANGED gic ELSE CreateIrqchip
       \/ Fails /\ UNCHANGED gic
    /\ UNCHANGED <<opt, fds, ram, regs, memory, pci, enable, threads>>

(* mmap reports failure with MAP_FAILED, and the code tests for NULL.      *)
Mmap ==
    /\ At("mmap")
    /\ Goto("region")
    /\ ram' \in BOOLEAN
    /\ UNCHANGED <<opt, fds, gic, regs, memory, pci, enable, threads>>

(* Variant: the failure of the ioctl is ignored as well.                   *)
SetRegionUnchecked ==
    /\ At("region")
    /\ Goto("vcpu")
    /\ UNCHANGED <<opt, machine, memory, pci, enable, threads>>

(* KVM_SET_USER_MEMORY_REGION refuses memory that is not mapped.           *)
SetRegion ==
    /\ At("region")
    /\ (ram /\ Goto("vcpu")) \/ Fails
    /\ UNCHANGED <<opt, machine, memory, pci, enable, threads>>

(* vm_arch_cpu_init: on x86 its errors are ignored, on arm64 the registers *)
(* are set later.                                                          *)
CpuInit ==
    /\ At("cpu")
    /\ \/ /\ Goto("platform")
          /\ regs' \in IF opt.arch = "x86" THEN {"reset", "boot"} ELSE {"reset"}
       \/ opt.arch = "arm64" /\ Fails /\ UNCHANGED regs
    /\ UNCHANGED <<opt, fds, ram, gic, memory, pci, enable, threads>>

(* vm_arch_init_platform_device: serial_init starts the worker, and does   *)
(* not test whether it could; on x86 virtio_blk_init clears the block      *)
(* device, on arm64 it stays as it was.                                    *)
PlatformInit ==
    /\ At("platform")
    /\ Become("serial", "check") \/ Become("serial", "failed")
    /\ enable' \in IF opt.arch = "x86" THEN {FALSE} ELSE BOOLEAN
    /\ Goto(IF opt.arch = "x86" THEN "kernel" ELSE "gic")
    /\ UNCHANGED <<opt, machine, memory, pci, stop, ev, input, full>>

FinalizeIrqchip ==
    /\ At("gic")
    /\ \/ Goto("kernel") /\ gic' = [gic EXCEPT !.ready = TRUE]
       \/ Fails /\ UNCHANGED gic
    /\ UNCHANGED <<opt, fds, ram, regs, memory, pci, enable, threads>>

-----------------------------------------------------------------------------
(* The files.                                                              *)

(* Copy objects to their regions of guest memory, or run off its end.      *)
Copy(objs, next) ==
    IF ram /\ \A o \in DOMAIN objs : Inside(objs[o], Ram(opt.arch))
      THEN /\ place' = [o \in Objects |-> IF o \in DOMAIN objs THEN objs[o] ELSE place[o]]
           /\ Goto(next)
      ELSE End("segv") /\ UNCHANGED place

(* vm_load_image.  A file that cannot be opened makes it return 1, which   *)
(* main does not take for an error; one that could not be mapped, as an    *)
(* empty one never can, is read all the same.                              *)
LoadImage ==
    /\ At("kernel")
    /\ \/ opt.kernel.file = "none" /\ Fails /\ UNCHANGED place
       \/ opt.kernel.file = "missing" /\ Goto("initrd") /\ UNCHANGED place
       \/ opt.kernel.file = "ok" /\ End("segv") /\ UNCHANGED place
       \/ /\ opt.kernel.file = "ok" /\ opt.kernel.size > 0 /\ opt.arch = "x86"
          /\ Copy(X86Image(opt.kernel), "initrd")
       \/ /\ opt.kernel.file = "ok" /\ opt.kernel.size > 0 /\ opt.arch = "arm64"
          /\ IF ImageAccepted(opt.kernel)
               THEN Copy([kernel |-> ArmFile(opt.kernel)], "initrd")
               ELSE Fails /\ UNCHANGED place
    /\ UNCHANGED <<opt, machine, addr, fdt, pci, enable, threads>>

(* The copy of the initrd, unless it could not be mapped.                  *)
CopyInitrd(lo) ==
    \/ Copy([initrd |-> Region(lo, opt.initrd.size)], "disk")
    \/ opt.initrd.size > 0 /\ End("segv") /\ UNCHANGED place

(* vm_load_initrd; on x86 the search starts from a field of boot_params,   *)
(* which is zero if no kernel was loaded.                                  *)
LoadInitrd ==
    /\ At("initrd")
    /\ \/ opt.initrd.file # "ok" /\ Goto("disk") /\ UNCHANGED <<addr, place>>
       \/ /\ opt.initrd.file = "ok" /\ opt.arch = "x86"
          /\ addr' = IF Loaded("params") THEN InitrdTop(opt.kernel.max) ELSE 0
          /\ Goto("search") /\ UNCHANGED place
       \/ /\ opt.initrd.file = "ok" /\ opt.arch = "arm64"
          /\ CopyInitrd(ARM_INITRD_BASE)
          /\ UNCHANGED addr
    /\ UNCHANGED <<opt, machine, fdt, pci, enable, threads>>

(* Variant: the room is tested after the step down.                        *)
SearchInitrdLow ==
    /\ At("search")
    /\ IF addr < MB
         THEN Fails /\ UNCHANGED <<addr, place>>
         ELSE /\ addr' = addr - MB
              /\ IF addr' < RoomBelow(opt.initrd.size)
                   THEN CopyInitrd(addr')
                   ELSE Goto("search") /\ UNCHANGED place
    /\ UNCHANGED <<opt, machine, fdt, pci, enable, threads>>

SearchInitrdOn ==   \* variant: the search does not give up
    /\ At("search")
    /\ IF addr < RoomBelow(opt.initrd.size)
         THEN CopyInitrd(addr) /\ UNCHANGED addr
         ELSE addr' = addr - MB /\ Goto("search") /\ UNCHANGED place
    /\ UNCHANGED <<opt, machine, fdt, pci, enable, threads>>

(* One turn of the loop of vm_arch_load_initrd on x86.                     *)
SearchInitrd ==
    /\ At("search")
    /\ IF addr < MB THEN Fails /\ UNCHANGED <<addr, place>>
       ELSE IF addr < RoomBelow(opt.initrd.size)
         THEN CopyInitrd(addr) /\ UNCHANGED addr
         ELSE addr' = addr - MB /\ Goto("search") /\ UNCHANGED place
    /\ UNCHANGED <<opt, machine, fdt, pci, enable, threads>>

-----------------------------------------------------------------------------
(* The devices.                                                            *)

BlkFds == {"disk", "ioeventfd"}

(* No disk; or vm_load_diskimg, which may not open it: virtio_blk_init_pci *)
(* starts the worker, and not yet the queue's thread.  Neither that nor    *)
(* the eventfd is tested.                                                  *)
LoadDisk ==
    /\ At("disk")
    /\ \/ Goto("tap") /\ UNCHANGED <<fds, pci, enable, th>>
       \/ Fails /\ UNCHANGED <<fds, pci, enable, th>>
       \/ /\ Goto("tap")
          /\ fds' \in {fds \cup {"disk"}, fds \cup BlkFds}
          /\ pci' = Append(pci, "blk")
          /\ enable' = TRUE
          /\ Become("blk", "check") \/ Become("blk", "failed")
    /\ UNCHANGED <<opt, ram, gic, regs, memory, stop, ev, input, full>>

(* vm_enable_net: its failure is reported, and the guest runs without it.  *)
OpenTap ==
    /\ At("tap")
    /\ \/ Goto("tunsetiff") /\ fds' = fds \cup {"tap"}
       \/ Goto("late") /\ UNCHANGED fds
    /\ UNCHANGED <<opt, ram, gic, regs, memory, pci, enable, threads>>

SetUpTapLeaking(l, next) ==   \* variant: the tap stays open
    /\ At(l)
    /\ \/ Goto(next) /\ UNCHANGED fds
       \/ Goto("late") /\ UNCHANGED fds
    /\ UNCHANGED <<opt, ram, gic, regs, memory, pci, enable, threads>>
SetUpTap(l, next) ==
    /\ At(l)
    /\ \/ Goto(next) /\ UNCHANGED fds
       \/ Goto("late") /\ fds' = fds \ {"tap"}
    /\ UNCHANGED <<opt, ram, gic, regs, memory, pci, enable, threads>>

(* virtio_net_init_pci; what becomes of the device's eventfds is left out. *)
InitNet ==
    /\ At("netpci")
    /\ pci' = Append(pci, "net")
    /\ Goto("late")
    /\ UNCHANGED <<opt, machine, memory, enable, threads>>

(* vm_late_init: on arm64 generate_fdt, then init_reg.                     *)
LateInit ==
    /\ At("late")
    /\ \/ /\ opt.arch = "x86" /\ Goto("run") /\ UNCHANGED <<place, fdt>>
       \/ /\ opt.arch = "arm64" /\ Goto("init_reg")
          /\ place' = [place EXCEPT !["fdt"] = Region(ARM_FDT_BASE, FDT_MAX_SIZE)]
          /\ fdt' = [made |-> TRUE, gic |-> gic.type,
                     initrd |-> IF Loaded("initrd") /\ opt.initrd.size > 0
                                  THEN Region(ARM_INITRD_BASE, opt.initrd.size)
                                  ELSE Nowhere,
                     slot |-> IF HasDev("blk") THEN SlotOf("blk") ELSE 0]
       \/ opt.arch = "arm64" /\ Fails /\ UNCHANGED <<place, fdt>>
    /\ UNCHANGED <<opt, machine, addr, pci, enable, threads>>

InitReg ==
    /\ At("init_reg")
    /\ \/ Goto("run") /\ regs' = "boot"
       \/ Fails /\ UNCHANGED regs
    /\ UNCHANGED <<opt, fds, ram, gic, memory, pci, enable, threads>>

-----------------------------------------------------------------------------
(* vm_run: what the guest does that matters here, until vm_run returns.    *)

(* enable_vq of the two devices starts the queue's thread, once, if it can.*)
EnableQueue(t, d, first) ==
    /\ At("run") /\ HasDev(d)
    /\ ThreadStep(t, "none", first) \/ ThreadStep(t, "none", "failed")

(* The mapping of struct kvm_run is not tested, and the first exit reads   *)
(* it, before any queue can have been enabled.                             *)
RunUnmapped ==
    /\ At("run") /\ \A t \in {"avail"} \cup NetThreads : th[t] = "none"
    /\ End("segv")
    /\ UNCHANGED <<opt, machine, memory, pci, enable, threads>>

(* A doorbell KVM turns into a signal on the block device's ioeventfd.     *)
KickBlk ==
    /\ At("run") /\ th["avail"] # "none" /\ "ioeventfd" \in fds
    /\ ev' = TRUE
    /\ UNCHANGED <<opt, pc, result, machine, memory, pci, enable, th, stop, input, full>>

(* Enough reads of RX to empty the buffer by half.                         *)
ReadRx ==
    /\ At("run") /\ full
    /\ full' = FALSE
    /\ th' = [th EXCEPT !["serial"] = IF @ = "wait" THEN "console" ELSE @]
    /\ UNCHANGED <<opt, pc, result, machine, memory, pci, enable, stop, ev, input>>

(* A shutdown, an exit reason that is not handled, or a failed KVM_RUN:    *)
(* main ignores which.                                                     *)
RunReturns ==
    /\ At("run")
    /\ Goto("serial_exit")
    /\ UNCHANGED <<opt, machine, memory, pci, enable, threads>>

-----------------------------------------------------------------------------
(* vm_exit.                                                                *)

SerialExitSilent ==   \* variant: the flag is not set
    /\ At("serial_exit")
    /\ Goto("serial_join")
    /\ UNCHANGED <<opt, machine, memory, pci, enable, threads>>
SerialExit ==
    /\ At("serial_exit")
    /\ stop' = stop \cup {"serial"}
    /\ Goto("serial_join")
    /\ UNCHANGED <<opt, machine, memory, pci, enable, th, ev, input, full>>

SerialJoinMissing ==   \* variant: the worker is not waited for
    /\ At("serial_join")
    /\ Goto(IF enable THEN "blk_exit" ELSE "close")
    /\ UNCHANGED <<opt, machine, memory, pci, enable, threads>>
SerialJoin ==
    /\ At("serial_join")
    /\ \/ /\ th["serial"] \in {"ended", "failed"}
          /\ Goto(IF enable THEN "blk_exit" ELSE "close")
       \/ th["serial"] = "failed" /\ End("segv")
    /\ UNCHANGED <<opt, machine, memory, pci, enable, threads>>

(* virtio_blk_exit, if the device is enabled.  The thread it joins is the  *)
(* queue's, which was created only if the guest enabled the queue, and     *)
(* whose loop never ends.  Without that thread the join faults or returns, *)
(* and what is then closed is whatever the fields of the device name.      *)
BlkExit ==
    /\ At("blk_exit")
    /\ stop' = stop \cup {"blk"}
    /\ Goto("blk_join")
    /\ UNCHANGED <<opt, machine, memory, pci, enable, th, ev, input, full>>

BlkJoinUnknown ==
    /\ At("blk_join") /\ th["avail"] \in {"none", "failed"}
    /\ \/ End("segv") /\ UNCHANGED fds
       \/ /\ Goto("close")
          /\ IF HasDev("blk") THEN fds' = fds \ BlkFds ELSE fds' \in SUBSET fds
    /\ UNCHANGED <<opt, ram, gic, regs, memory, pci, enable, threads>>

CloseFdsLast ==   \* variant: the memory is unmapped first
    /\ At("close")
    /\ ram' = FALSE
    /\ Goto("munmap")
    /\ UNCHANGED <<opt, fds, gic, regs, memory, pci, enable, threads>>
CloseFds ==
    /\ At("close")
    /\ fds' = fds \ {"kvm", "vm", "vcpu"}
    /\ Goto("munmap")
    /\ UNCHANGED <<opt, ram, gic, regs, memory, pci, enable, threads>>

(* The network device is not stopped: virtio_net_exit is not called.       *)
Munmap ==
    /\ At("munmap")
    /\ ram' = FALSE
    /\ Goto("return")
    /\ UNCHANGED <<opt, fds, gic, regs, memory, pci, enable, threads>>

Return ==
    /\ At("return")
    /\ End("exit")
    /\ UNCHANGED <<opt, machine, memory, pci, enable, threads>>

-----------------------------------------------------------------------------
(* serial_thread.                                                          *)

SerialCheck ==
    ThreadStep("serial", "check", IF "serial" \in stop THEN "ended" ELSE "poll")

SerialPoll ==
    input /\ ThreadStep("serial", "poll", IF full THEN "wait" ELSE "console")

SpuriousWakeup == ThreadStep("serial", "wait", "console")

(* serial_console takes bytes, if there is room; one may be the exit key.  *)
SerialConsole ==
    /\ Running /\ th["serial"] = "console"
    /\ \/ /\ Become("serial", "irq")
          /\ IF full THEN UNCHANGED <<input, full>>
                     ELSE input' \in BOOLEAN /\ full' \in BOOLEAN
          /\ UNCHANGED <<pc, result>>
       \/ ~full /\ End("exit") /\ UNCHANGED <<th, input, full>>
    /\ UNCHANGED <<opt, machine, memory, pci, enable, stop, ev>>

(* vm_irq_line, on vm_fd.                                                  *)
SerialIrq == ThreadStep("serial", "irq", "check")

TypeKey ==
    /\ Running /\ ~input
    /\ input' = TRUE
    /\ UNCHANGED <<opt, pc, result, machine, memory, pci, enable, th, stop, ev, full>>

-----------------------------------------------------------------------------
(* virtio_blk_thread.  poll may also return for an interrupt or because    *)
(* its descriptor was closed.  SIGUSR1 has no handler; without the queue's *)
(* thread, to send it faults or does nothing.                              *)
BlkCheck == ThreadStep("blk", "check", IF "blk" \in stop THEN "ended" ELSE "poll")

BlkPoll == ThreadStep("blk", "poll", "check") \/ (ev /\ ThreadStep("blk", "poll", "kill"))

BlkKill ==
    /\ Running /\ th["blk"] = "kill"
    /\ End(IF th["avail"] = "failed" THEN "segv" ELSE "killed")
    /\ UNCHANGED <<opt, machine, memory, pci, enable, threads>>

BlkKillNobody == th["avail"] = "failed" /\ ThreadStep("blk", "kill", "check")

(* virtio_blk_vq_avail_handler: read, then the requests.  A read that      *)
(* fails, as it does without the eventfd, counts as an event.              *)
AvailRead ==
    /\ Running /\ th["avail"] = "read"
    /\ ev \/ "ioeventfd" \notin fds
    /\ ev' = FALSE
    /\ Become("avail", "serve")
    /\ UNCHANGED <<opt, pc, result, machine, memory, pci, enable, stop, input, full>>

AvailServe == ThreadStep("avail", "serve", "read")

(* A network thread writes its event flags to guest memory in every turn   *)
(* of its loop.                                                            *)
NetThread(t) ==
    /\ Running /\ th[t] = "loop" /\ ~ram
    /\ End("segv")
    /\ UNCHANGED <<opt, machine, memory, pci, enable, threads>>

-----------------------------------------------------------------------------
SetUp ==
    \/ Start
    \/ Open("kvm", "kvm", "vm") \/ Open("vm", "vm", "arch")
    \/ ArchInit \/ Mmap \/ SetRegion \/ Open("vcpu", "vcpu", "cpu") \/ CpuInit
    \/ PlatformInit \/ FinalizeIrqchip
    \/ LoadImage \/ LoadInitrd \/ SearchInitrd
    \/ LoadDisk \/ OpenTap \/ InitNet
    \/ SetUpTap("tunsetiff", "nonblock") \/ SetUpTap("nonblock", "netpci")
    \/ LateInit \/ InitReg

Guest ==
    \/ EnableQueue("avail", "blk", "read")
    \/ \E t \in NetThreads : EnableQueue(t, "net", "loop")
    \/ RunUnmapped \/ KickBlk \/ ReadRx \/ RunReturns

TearDown ==
    \/ SerialExit \/ SerialJoin \/ BlkExit \/ BlkJoinUnknown
    \/ CloseFds \/ Munmap \/ Return

SerialThread == SerialCheck \/ SerialPoll \/ SerialConsole \/ SerialIrq

Next ==
    \/ SetUp \/ Guest \/ TearDown
    \/ SerialThread \/ SpuriousWakeup \/ TypeKey
    \/ BlkCheck \/ BlkPoll \/ BlkKill \/ BlkKillNobody
    \/ AvailRead \/ AvailServe
    \/ \E t \in NetThreads : NetThread(t)

Spec == Init /\ [][Next]_vars

(* Main, once the guest has stopped, and the serial worker run; nothing is *)
(* assumed of the guest, the terminal or the other threads.                *)
LiveSpec == Spec /\ WF_vars(TearDown) /\ WF_vars(SerialThread)

-----------------------------------------------------------------------------
Pcs == {"args", "kvm", "vm", "arch", "mmap", "region", "vcpu", "cpu", "platform",
        "gic", "kernel", "initrd", "search", "disk", "tap", "tunsetiff", "nonblock",
        "netpci", "late", "init_reg", "run", "serial_exit", "serial_join", "blk_exit",
        "blk_join", "close", "munmap", "return"}
ThreadPcs == {"none", "failed", "check", "poll", "wait", "console", "irq", "read", "serve",
              "kill", "loop", "ended"}
Fds == {"kvm", "vm", "vcpu", "tap"} \cup BlkFds
Gics == {"none", "v3", "v2"}
GicStates == [made : Gics, type : Gics, ready : BOOLEAN]
Regions == [lo : Nat, len : Nat]
Fdts == [made : BOOLEAN, gic : Gics, initrd : Regions, slot : 0 .. 2]

TypeOK ==
    /\ opt \in [arch : Archs, kernel : Kernels, initrd : Initrds]
    /\ pc \in Pcs
    /\ result \in {"running", "usage", "error", "segv", "killed", "exit"}
    /\ fds \subseteq Fds
    /\ ram \in BOOLEAN
    /\ gic \in GicStates
    /\ regs \in {"reset", "boot"} /\ addr \in Nat
    /\ place \in [Objects -> Regions]
    /\ fdt \in Fdts
    /\ pci \in Seq({"blk", "net"}) /\ Len(pci) <= 2
    /\ enable \in BOOLEAN
    /\ th \in [Threads -> ThreadPcs] /\ stop \subseteq {"serial", "blk"}
    /\ ev \in BOOLEAN /\ input \in BOOLEAN /\ full \in BOOLEAN

(* The guest runs only on a complete machine: whatever failed before, the  *)
(* descriptors are open, the memory is mapped although mmap's failure goes *)
(* unnoticed, the files that could be read are in it, and on arm64 the     *)
(* interrupt controller is initialised and the registers are set.          *)
GuestReady ==
    At("run") =>
        /\ {"kvm", "vm", "vcpu"} \subseteq fds /\ ram
        /\ opt.kernel.file = "ok" => Loaded("kernel")
        /\ opt.initrd.file = "ok" /\ opt.initrd.size > 0 => Loaded("initrd")
        /\ opt.arch = "x86" => (Loaded("kernel") <=> Loaded("params"))
        /\ opt.arch = "x86" => (enable <=> HasDev("blk"))
        /\ opt.arch = "arm64" => gic.ready /\ regs = "boot" /\ fdt.made

(* What a thread uses outlives it: the worker raises interrupts on vm_fd,  *)
(* the block device's queue thread uses the image and the guest's memory,  *)
(* and vm_exit waits for them before it closes or unmaps these.            *)
Alive(t) == th[t] \notin {"none", "failed", "ended"}
ResourcesOutlive ==
    Running =>
        /\ Alive("serial") => "vm" \in fds
        /\ Alive("avail") => "disk" \in fds /\ ram

(* The network threads are not stopped and may hit the unmapped memory.    *)
(* They can do so only when main has nothing left to do but return, with   *)
(* the image and everything of the VM closed.  The only other faults while *)
(* they run come from a thread that is joined or signalled and that was    *)
(* never created.                                                          *)
FaultOnlyAtTheEnd ==
    result = "segv" /\ (\E t \in NetThreads : Alive(t)) =>
        \/ pc = "return" /\ fds \cap {"kvm", "vm", "vcpu", "disk"} = {}
        \/ pc = "serial_join" /\ th["serial"] = "failed"
        \/ pc = "blk_join" /\ th["avail"] \in {"none", "failed"}
        \/ th["blk"] = "kill" /\ th["avail"] = "failed"

(* vm_enable_net gives all or nothing: a tap that could not be set up is   *)
(* closed, and the device is not on the PCI bus without it.                *)
NetComplete ==
    Running /\ pc \in {"late", "run"} => ("tap" \in fds <=> HasDev("net"))

(* Where the search on x86 puts the initrd: at the highest megabyte not    *)
(* above initrd_addr_max from which it ends below the end of RAM; it fails *)
(* only if there is none above the first.                                  *)
Candidates == {MB * m : m \in 1 .. opt.kernel.max \div MB}
Fits(a) == a + opt.initrd.size < RAM_SIZE
InitrdHighest ==
    opt.arch = "x86" /\ opt.initrd.size <= RAM_SIZE /\ Loaded("params") =>
        /\ At("disk") /\ Loaded("initrd") =>
              LET lo == place["initrd"].lo
              IN  lo \in Candidates /\ Fits(lo) /\ \A a \in Candidates : Fits(a) => a <= lo
        /\ pc = "search" /\ result = "error" => \A a \in Candidates : ~Fits(a)

(* No two things in guest memory overlap, and all lie in RAM, when the     *)
(* guest starts.  On arm64 that takes an initrd no larger than its area,   *)
(* which nothing tests; on x86 a megabyte to spare between the kernel and  *)
(* the initrd, whose search does not know where the kernel ends.  No       *)
(* header can make the test of an arm64 kernel accept a file that does not *)
(* lie in its area: where the sum wraps around, the copy faults.  But the  *)
(* memory the header asks for beyond the file, which is never written      *)
(* here, is in the area only if its own sum does not wrap around.          *)
FilesFit ==
    IF opt.arch = "arm64" THEN opt.initrd.size <= ARM_INITRD_SIZE
    ELSE LET end == MB + X86Image(opt.kernel).kernel.len + MB
         IN  end <= opt.kernel.max /\ end + opt.initrd.size <= RAM_SIZE
LayoutSound ==
    At("run") /\ FilesFit =>
        /\ \A o \in Objects : Loaded(o) => Inside(place[o], Ram(opt.arch))
        /\ \A o, p \in Objects : o # p => Disjoint(place[o], place[p])
        /\ opt.arch = "x86" /\ Loaded("initrd") => Inside(place["initrd"], E820High)
        /\ opt.arch = "arm64" /\ Loaded("kernel") =>
              /\ Inside(place["kernel"], ArmKernelArea)
              /\ TextOffset(opt.kernel) + opt.kernel.image_size < SIZE_MOD =>
                    Inside(ArmImage(opt.kernel), ArmKernelArea)

(* The device tree describes the machine the guest runs on: the interrupt  *)
(* controller that was really created, the initrd where it is, the slot of *)
(* the block device.                                                       *)
FdtTrue ==
    At("run") /\ opt.arch = "arm64" =>
        /\ fdt.gic = gic.made
        /\ fdt.initrd = IF opt.initrd.size > 0 THEN place["initrd"] ELSE Nowhere
        /\ HasDev("blk") => fdt.slot = SlotOf("blk")

(* After the guest has stopped the process ends, where it can: without a   *)
(* block device (whose queue thread never ends), with keys typed (nothing  *)
(* else wakes the worker from poll), and unless the worker waits, or is    *)
(* about to wait, for room in a buffer that is not read any more.          *)
CanStop ==
    /\ pc = "serial_join" /\ ~enable
    /\ th["serial"] # "wait" /\ ~(th["serial"] = "poll" /\ full)
ShutdownEnds == []<>(input \/ ~Running) => (CanStop ~> ~Running)
=============================================================================
