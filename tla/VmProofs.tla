------------------------------ MODULE VmProofs ------------------------------
(***************************************************************************)
(* Theorems about Vm, for every set of kernels and initrds.  First the     *)
(* parts of the inductive invariant, and that every step keeps the types,  *)
(* the descriptors, the threads and the devices; then that it keeps what   *)
(* is in guest memory; then the theorems.                                  *)
(***************************************************************************)
EXTENDS Vm, TLAPS

Early == {"args", "kvm", "vm", "arch", "mmap", "region", "vcpu", "cpu", "platform"}
PreKernel == Early \cup {"gic", "kernel"}
PreDisk == PreKernel \cup {"initrd", "search", "disk"}
TapPcs == {"tunsetiff", "nonblock", "netpci"}
SetUpPcs == PreDisk \cup TapPcs \cup {"tap", "late", "init_reg"}
Joined == {"blk_exit", "blk_join", "close", "munmap", "return"}
Past == {"close", "munmap", "return"}
Final == {"run", "serial_exit", "serial_join"} \cup Joined

-----------------------------------------------------------------------------
(* The inductive invariant, by subject.                                    *)

(* What the PCI bus holds, by main's progress.                             *)
PciPhase ==
    /\ pc \in PreDisk => Len(pci) = 0
    /\ pc \in TapPcs \cup {"tap"} => Len(pci) <= 1

(* What is open and mapped, and which threads exist.                       *)
FdsInv ==
    /\ pc \notin {"args", "kvm"} \cup Past => "kvm" \in fds
    /\ pc \notin {"args", "kvm", "vm"} \cup Past => "vm" \in fds
    /\ pc \notin (Early \ {"cpu", "platform"}) \cup Past => "vcpu" \in fds
    /\ pc \in {"munmap", "return"} => fds \cap {"kvm", "vm", "vcpu"} = {}
    /\ pc \notin (Early \ {"vcpu", "cpu", "platform"}) \cup {"return"} => ram

ThreadInv ==
    /\ th["serial"] = "none" <=> pc \in Early
    /\ pc \in Joined => th["serial"] \in {"ended", "failed"}
    /\ pc \in Past => ~Alive("avail")
    /\ pc \in SetUpPcs => \A t \in {"avail", "rx", "tx"} : th[t] = "none"
    /\ th["blk"] # "none" \/ th["avail"] # "none" => HasDev("blk")

BlkInv ==
    /\ HasDev("blk") => enable
    /\ pc \notin Past => ("disk" \in fds <=> HasDev("blk"))
    /\ pc \in Past => "disk" \notin fds
    /\ opt.arch = "x86" /\ enable => HasDev("blk")

NetInv ==
    /\ pc \in PreDisk \cup TapPcs \cup {"tap"} => ~HasDev("net")
    /\ pc \in TapPcs => "tap" \in fds
    /\ pc \notin TapPcs \cup Past => ("tap" \in fds <=> HasDev("net"))

(* What is in guest memory.                                                *)
KernelInv ==
    /\ pc \in PreKernel => \A o \in Objects : place[o] = Nowhere
    /\ opt.kernel.file = "ok" /\ pc \notin PreKernel => Loaded("kernel")
    /\ opt.arch = "x86" =>
          /\ place["fdt"] = Nowhere
          /\ \/ \A o \in {"params", "cmdline", "kernel"} : place[o] = Nowhere
             \/ /\ \A o \in {"params", "cmdline", "kernel"} : place[o] = X86Image(opt.kernel)[o]
                /\ Inside(place["kernel"], Ram("x86"))
    /\ opt.arch = "arm64" =>
          /\ place["params"] = Nowhere /\ place["cmdline"] = Nowhere
          /\ \/ place["kernel"] = Nowhere
             \/ /\ place["kernel"] = ArmFile(opt.kernel) /\ ImageAccepted(opt.kernel)
                /\ Inside(place["kernel"], Ram("arm64"))

InitrdInv ==
    /\ pc \in PreKernel \cup {"initrd", "search"} \/ opt.initrd.file # "ok" =>
          place["initrd"] = Nowhere
    /\ pc \notin PreKernel \cup {"initrd", "search"} /\ opt.initrd.file = "ok" =>
          /\ place["initrd"] = Region(IF opt.arch = "x86" THEN addr ELSE ARM_INITRD_BASE,
                                      opt.initrd.size)
          /\ Inside(place["initrd"], Ram(opt.arch))
          /\ opt.arch = "x86" => addr >= MB /\ addr < RoomBelow(opt.initrd.size)

(* The search on x86: no candidate above addr fits.                        *)
SearchInv ==
    /\ pc = "search" => opt.arch = "x86" /\ opt.initrd.file = "ok"
    /\ pc = "search" /\ result = "error" => addr < MB
    /\ opt.arch = "x86" /\ opt.initrd.file = "ok" /\ Loaded("params")
         /\ pc \notin PreKernel \cup {"initrd"} =>
          /\ addr % MB = 0 /\ addr <= opt.kernel.max
          /\ opt.initrd.size <= RAM_SIZE => \A a \in Candidates : a > addr => ~Fits(a)

(* arm64: the interrupt controller, the device tree and the registers.     *)
MachineInv ==
    /\ gic.made = gic.type
    /\ opt.arch = "arm64" /\ pc \notin Early \cup {"gic"} => gic.ready
    /\ opt.arch = "arm64" /\ pc \in Final => regs = "boot"
    /\ opt.arch = "arm64" /\ pc \in Final \cup {"init_reg"} =>
          /\ place["fdt"] = Region(ARM_FDT_BASE, FDT_MAX_SIZE)
          /\ fdt.made /\ fdt.gic = gic.type
          /\ fdt.initrd = IF opt.initrd.size > 0 THEN place["initrd"] ELSE Nowhere
          /\ HasDev("blk") => fdt.slot = SlotOf("blk")

-----------------------------------------------------------------------------
(* The command line, and the regions the files go to.                      *)
LEMMA Options ==
    ASSUME TypeOK
    PROVE  /\ opt.arch \in {"x86", "arm64"}
           /\ opt.kernel \in KernelFiles /\ opt.initrd \in InitrdFiles
           /\ opt.kernel.size < SIZE_MOD /\ opt.kernel.text_offset < SIZE_MOD
           /\ opt.kernel.image_size < SIZE_MOD
  BY VmAssumption, Zenon DEF TypeOK

(* The regions the loaders choose are regions.                             *)
LEMMA ImageRegions ==
    ASSUME TypeOK
    PROVE  /\ BootParams \in Regions /\ Cmdline \in Regions
           /\ X86Image(opt.kernel).kernel \in Regions
           /\ ArmFile(opt.kernel) \in Regions
           /\ InitrdTop(opt.kernel.max) \in Nat
           /\ \A lo \in Nat : Region(lo, opt.initrd.size) \in Regions
<1>1. /\ opt.kernel.size \in Nat /\ opt.kernel.setup \in Nat /\ opt.kernel.max \in Nat
      /\ opt.kernel.text_offset \in Nat /\ opt.kernel.image_size \in Nat
      /\ opt.initrd.size \in Nat
  BY Options, Zenon DEF KernelFiles, InitrdFiles
<1>2. InitrdTop(opt.kernel.max) \in Nat
  BY <1>1 DEF InitrdTop, MB
<1>3. /\ (opt.kernel.size - opt.kernel.setup) % SIZE_MOD \in Nat
      /\ (ARM_KERNEL_BASE + TextOffset(opt.kernel)) % SIZE_MOD \in Nat
  <2>1. TextOffset(opt.kernel) \in Nat
    BY <1>1 DEF TextOffset
  <2>2. SIZE_MOD \in Nat /\ SIZE_MOD > 0
    BY BootAssumption DEF RAM_SIZE
  <2>3. \A i \in Int : i % SIZE_MOD \in Nat
    BY <2>2
  <2> QED BY <1>1, <2>1, <2>3 DEF ARM_KERNEL_BASE
<1> QED
  BY <1>1, <1>2, <1>3 DEF Region, Regions, BootParams, Cmdline, X86Image, ArmFile, MB

(* Regions and the memories they lie in, as numbers.                       *)
LEMMA Fields ==
    /\ \A lo, len : Region(lo, len).lo = lo /\ Region(lo, len).len = len
    /\ Nowhere.lo = 0 /\ Nowhere.len = 0
    /\ \A g : Inside(g, Ram("x86")) <=> 0 <= g.lo /\ g.lo + g.len <= 0 + 16384
    /\ \A g : Inside(g, Ram("arm64")) <=> 32768 <= g.lo /\ g.lo + g.len <= 32768 + 16384
    /\ \A g : Inside(g, E820High) <=> 16 <= g.lo /\ g.lo + g.len <= 16 + (16384 - 16)
    /\ \A g : Inside(g, ArmKernelArea) <=> 32768 <= g.lo /\ g.lo + g.len <= 32768 + 2048
<1>1. \A lo, len : Region(lo, len).lo = lo /\ Region(lo, len).len = len
  BY Zenon DEF Region
<1>2. Nowhere.lo = 0 /\ Nowhere.len = 0
  BY <1>1, ZenonT(60) DEF Nowhere
<1>3. \A g : Inside(g, Ram("x86")) <=> 0 <= g.lo /\ g.lo + g.len <= 0 + 16384
  BY <1>1 DEF Inside, Ram, RAM_BASE, RAM_SIZE
<1>4. \A g : Inside(g, Ram("arm64")) <=> 32768 <= g.lo /\ g.lo + g.len <= 32768 + 16384
  BY <1>1 DEF Inside, Ram, RAM_BASE, RAM_SIZE
<1>5. \A g : Inside(g, E820High) <=> 16 <= g.lo /\ g.lo + g.len <= 16 + (16384 - 16)
  BY <1>1 DEF Inside, E820High, MB, RAM_SIZE
<1>6. \A g : Inside(g, ArmKernelArea) <=> 32768 <= g.lo /\ g.lo + g.len <= 32768 + 2048
  BY <1>1 DEF Inside, ArmKernelArea, ARM_KERNEL_BASE, ARM_KERNEL_SIZE
<1> QED BY <1>1, <1>2, <1>3, <1>4, <1>5, <1>6

(* What wraps around is no more than a sum that does not reach SIZE_MOD,   *)
(* or the sum less SIZE_MOD.                                               *)
LEMMA Wraps ==
    ASSUME NEW i \in Nat, NEW j \in Nat, i < SIZE_MOD, j < SIZE_MOD
    PROVE  /\ SIZE_MOD \in Nat /\ SIZE_MOD > 65536
           /\ i + j < SIZE_MOD => (i + j) % SIZE_MOD = i + j
           /\ i + j >= SIZE_MOD => (i + j) % SIZE_MOD = i + j - SIZE_MOD
<1>1. SIZE_MOD \in Nat /\ SIZE_MOD > 65536
  BY BootAssumption DEF RAM_SIZE
<1>2. ASSUME i + j < SIZE_MOD PROVE (i + j) % SIZE_MOD = i + j
  BY <1>1, <1>2
<1>3. ASSUME i + j >= SIZE_MOD PROVE (i + j) % SIZE_MOD = i + j - SIZE_MOD
  BY <1>1, <1>3
<1> QED BY <1>1, <1>2, <1>3

(* An arm64 file that passes the size test and whose copy stays in memory  *)
(* lies in the kernel's area: no wrap-around gets past both.               *)
LEMMA Accepted ==
    ASSUME NEW k \in KernelFiles, k.size < SIZE_MOD, k.text_offset < SIZE_MOD,
           ImageAccepted(k), Inside(ArmFile(k), Ram("arm64"))
    PROVE  /\ ArmFile(k).lo \in Nat /\ ArmFile(k).len \in Nat
           /\ 32768 <= ArmFile(k).lo /\ ArmFile(k).lo + ArmFile(k).len < 34816
<1> DEFINE off == TextOffset(k)  len == k.size
<1>1. len \in Nat /\ off \in Nat /\ len < SIZE_MOD /\ off < SIZE_MOD
  <2>1. len \in Nat /\ k.text_offset \in Nat
    BY Zenon DEF KernelFiles
  <2>2. 8 < SIZE_MOD
    BY BootAssumption DEF RAM_SIZE
  <2> QED BY <2>1, <2>2 DEF TextOffset
<1>2. (off + len) % SIZE_MOD < 2048
  BY DEF ImageAccepted, ARM_KERNEL_SIZE
<1>3. ArmFile(k).lo = (32768 + off) % SIZE_MOD /\ ArmFile(k).len = len
  BY Fields DEF ArmFile, ARM_KERNEL_BASE
<1>4. 32768 <= (32768 + off) % SIZE_MOD /\ ((32768 + off) % SIZE_MOD) + len <= 32768 + 16384
  BY <1>3, Fields
<1> HIDE DEF off, len
<1>5. SIZE_MOD \in Nat /\ SIZE_MOD > 65536
  BY <1>1, Wraps
<1>6. 32768 + off < SIZE_MOD
  BY <1>1, <1>4, <1>5, Wraps
<1>7. (32768 + off) % SIZE_MOD = 32768 + off
  BY <1>1, <1>5, <1>6, Wraps
<1>8. off + len < SIZE_MOD
  BY <1>1, <1>4, <1>5, <1>7
<1>9. (off + len) % SIZE_MOD = off + len
  BY <1>1, <1>8, Wraps
<1> QED BY <1>1, <1>2, <1>3, <1>7, <1>9

(* And so does the memory its header asks for, if that sum does not wrap.  *)
LEMMA AskedFor ==
    ASSUME NEW k \in KernelFiles, ImageAccepted(k), TextOffset(k) + k.image_size < SIZE_MOD
    PROVE  Inside(ArmImage(k), ArmKernelArea)
<1> DEFINE off == TextOffset(k)  len == k.image_size
<1>1. len \in Nat /\ off \in Nat
  <2>1. len \in Nat /\ k.text_offset \in Nat
    BY Zenon DEF KernelFiles
  <2> QED BY <2>1 DEF TextOffset
<1>2. (off + len) % SIZE_MOD < 2048
  BY DEF ImageAccepted, ARM_KERNEL_SIZE
<1>3. ArmImage(k).lo = 32768 + off /\ ArmImage(k).len = len
  BY Fields DEF ArmImage, ARM_KERNEL_BASE
<1>4. off + len < SIZE_MOD
  OBVIOUS
<1> HIDE DEF off, len
<1>5. SIZE_MOD \in Nat /\ off < SIZE_MOD /\ len < SIZE_MOD
  BY <1>1, <1>4, BootAssumption
<1>6. (off + len) % SIZE_MOD = off + len
  BY <1>1, <1>4, <1>5, Wraps
<1>7. 32768 <= ArmImage(k).lo /\ ArmImage(k).lo + ArmImage(k).len <= 32768 + 2048
  BY <1>1, <1>2, <1>3, <1>6
<1> QED BY <1>7, Fields

(* Disjoint is symmetric.                                                  *)
LEMMA Symmetry == \A g, h : Disjoint(g, h) <=> Disjoint(h, g)
  BY Zenon DEF Disjoint

(* A copy puts regions where they were asked for, and only there.          *)
LEMMA CopyTypes ==
    ASSUME TypeOK, NEW objs, NEW next \in Pcs, Copy(objs, next), Running,
           \A o \in DOMAIN objs : objs[o] \in Regions
    PROVE  place' \in [Objects -> Regions] /\ pc' \in Pcs
             /\ result' \in {"running", "segv"}
  BY Zenon DEF TypeOK, Copy, Goto, End, Running

(* pci_dev_register takes the next slot of the bus.                        *)
LEMMA Appended ==
    ASSUME TypeOK, NEW e \in {"blk", "net"}
    PROVE  /\ Append(pci, e) \in Seq({"blk", "net"}) /\ Len(Append(pci, e)) = Len(pci) + 1
           /\ \A d : (\E i \in DOMAIN Append(pci, e) : Append(pci, e)[i] = d)
                     <=> HasDev(d) \/ d = e
<1> DEFINE s == Append(pci, e)
<1>1. pci \in Seq({"blk", "net"}) /\ s \in Seq({"blk", "net"}) /\ Len(s) = Len(pci) + 1
  BY DEF TypeOK
<1>2. DOMAIN pci = 1 .. Len(pci) /\ DOMAIN s = 1 .. (Len(pci) + 1) /\ Len(pci) \in Nat
  BY <1>1
<1>3. s[Len(pci) + 1] = e /\ \A i \in 1 .. Len(pci) : s[i] = pci[i]
  BY <1>1
<1>4. ASSUME NEW d PROVE (\E i \in DOMAIN s : s[i] = d) <=> HasDev(d) \/ d = e
  <2> HIDE DEF s
  <2>1. (\E i \in DOMAIN s : s[i] = d) => HasDev(d) \/ d = e
    BY <1>2, <1>3 DEF HasDev
  <2>2. HasDev(d) \/ d = e => (\E i \in DOMAIN s : s[i] = d)
    BY <1>2, <1>3 DEF HasDev
  <2> QED BY <2>1, <2>2, Zenon
<1> QED BY <1>1, <1>4, Zenon

(* The guest and the threads change nothing of what main has built, and    *)
(* main's place only by ending vm_run.                                     *)
LEMMA Aside ==
    ASSUME [Next]_vars, ~SetUp, ~TearDown
    PROVE  /\ UNCHANGED <<opt, fds, ram, gic, regs, addr, place, fdt, pci, enable>>
           /\ pc' = pc \/ (pc = "run" /\ pc' = "serial_exit")
           /\ result' = result \/ result' \in {"segv", "killed", "exit"}
<1> USE DEF Running, At, Goto, End, machine, memory, threads
<1>1. CASE Guest
  <2> USE <1>1 DEF Guest, EnableQueue, ThreadStep, RunUnmapped, KickBlk, ReadRx, RunReturns
  <2>1. UNCHANGED <<opt, fds, ram, gic, regs, addr, place, fdt, pci, enable>>
    BY Zenon
  <2>2. pc' = pc \/ (pc = "run" /\ pc' = "serial_exit")
    BY Zenon
  <2>3. result' = result \/ result' \in {"segv", "killed", "exit"}
    BY Zenon
  <2> QED BY <2>1, <2>2, <2>3, Zenon
<1>2. CASE SerialThread \/ SpuriousWakeup \/ TypeKey
  <2> USE <1>2 DEF SerialThread, SerialCheck, SerialPoll, SerialConsole, SerialIrq, SpuriousWakeup,
              TypeKey, ThreadStep
  <2>1. UNCHANGED <<opt, fds, ram, gic, regs, addr, place, fdt, pci, enable>>
    BY Zenon
  <2>2. pc' = pc \/ (pc = "run" /\ pc' = "serial_exit")
    BY Zenon
  <2>3. result' = result \/ result' \in {"segv", "killed", "exit"}
    BY Zenon
  <2> QED BY <2>1, <2>2, <2>3, Zenon
<1>3. CASE BlkCheck \/ BlkPoll \/ BlkKill \/ BlkKillNobody \/ AvailRead \/ AvailServe
             \/ \E t \in NetThreads : NetThread(t)
  <2> USE <1>3 DEF BlkCheck, BlkPoll, BlkKill, BlkKillNobody, AvailRead, AvailServe, NetThread,
                   ThreadStep
  <2>1. UNCHANGED <<opt, fds, ram, gic, regs, addr, place, fdt, pci, enable>>
    BY Zenon
  <2>2. pc' = pc \/ (pc = "run" /\ pc' = "serial_exit")
    BY Zenon
  <2>3. result' = result \/ result' \in {"segv", "killed", "exit"}
    BY Zenon
  <2> QED BY <2>1, <2>2, <2>3, Zenon
<1>4. CASE UNCHANGED vars
  <2>1. UNCHANGED <<opt, fds, ram, gic, regs, addr, place, fdt, pci, enable, pc, result>>
    BY <1>4, Zenon DEF vars
  <2> QED BY <2>1, Zenon
<1> QED BY <1>1, <1>2, <1>3, <1>4, Zenon DEF Next

(* Nor does vm_exit, apart from closing and unmapping; and main only goes  *)
(* on towards its end.                                                     *)
LEMMA Outside ==
    ASSUME [Next]_vars, ~SetUp
    PROVE  /\ UNCHANGED <<opt, gic, regs, addr, place, fdt, pci, enable>>
           /\ pc' = pc \/ (pc \in Final /\ pc' \in Final \ {"run"})
           /\ result' = result \/ result' \in {"segv", "killed", "exit"}
<1>1. CASE TearDown
  <2> USE <1>1 DEF TearDown, SerialExit, SerialJoin, BlkExit, BlkJoinUnknown, CloseFds,
                   Munmap, Return, Running, At, Goto, End, machine, memory
  <2>1. UNCHANGED <<opt, gic, regs, addr, place, fdt, pci, enable>>
    BY Zenon
  <2>2. pc' = pc \/ (pc \in Final /\ pc' \in Final \ {"run"})
    BY Zenon DEF Final, Joined
  <2>3. result' = result \/ result' \in {"segv", "killed", "exit"}
    BY Zenon
  <2> QED BY <2>1, <2>2, <2>3, Zenon
<1>2. CASE ~TearDown
  BY <1>2, Aside, Zenon DEF Final, Joined
<1> QED BY <1>1, <1>2, Zenon

-----------------------------------------------------------------------------
(* Every action keeps the types.                                           *)
LEMMA TypeStep == TypeOK /\ PciPhase /\ [Next]_vars => TypeOK'
<1> SUFFICES ASSUME TypeOK, PciPhase, [Next]_vars PROVE TypeOK'
    BY Zenon
<1> USE DEF Running, At, Goto, End, Fails, machine, memory, threads
<1>1. CASE SetUp
  <2>1. CASE Start
    BY <2>1 DEF Start, TypeOK, Pcs
  <2>2. ASSUME NEW l, NEW fd \in {"kvm", "vm", "vcpu"}, NEW next \in Pcs,
               Open(l, fd, next)
        PROVE  TypeOK'
    <3>1. fds' \subseteq Fds
      BY <2>2, Zenon DEF Open, TypeOK, Fds
    <3> QED BY <2>2, <3>1, Zenon DEF Open, TypeOK
  <2>3. CASE ArchInit
    <3>1. gic' \in GicStates
      <4>1. \A g \in Gics : [made |-> g, type |-> g, ready |-> FALSE] \in GicStates
        BY Zenon DEF GicStates
      <4> QED BY <2>3, <4>1, Zenon DEF ArchInit, CreateIrqchip, TypeOK, Gics
    <3> QED BY <2>3, <3>1, ZenonT(60) DEF ArchInit, TypeOK, Pcs
  <2>4. CASE Mmap \/ SetRegion \/ CpuInit
    <3>1. ram' \in BOOLEAN
      BY <2>4, Zenon DEF Mmap, SetRegion, CpuInit, TypeOK
    <3>2. regs' \in {"reset", "boot"}
      BY <2>4, Zenon DEF Mmap, SetRegion, CpuInit, TypeOK
    <3> QED BY <2>4, <3>1, <3>2, ZenonT(60) DEF Mmap, SetRegion, CpuInit, TypeOK, Pcs
  <2>5. CASE PlatformInit
    BY <2>5, Zenon DEF PlatformInit, Become, TypeOK, Pcs, Threads, ThreadPcs
  <2>6. CASE FinalizeIrqchip
    <3>1. gic' \in GicStates
      BY <2>6, Zenon DEF FinalizeIrqchip, TypeOK, GicStates
    <3> QED BY <2>6, <3>1, ZenonT(60) DEF FinalizeIrqchip, TypeOK, Pcs
  <2>7. CASE LoadImage
    <3>1. place' \in [Objects -> Regions] /\ pc' \in Pcs
            /\ result' \in {"running", "segv", "error"}
      <4>1. CASE opt.kernel.file = "ok" /\ Copy(X86Image(opt.kernel), "initrd")
        <5>1. \A o \in DOMAIN X86Image(opt.kernel) : X86Image(opt.kernel)[o] \in Regions
          BY ImageRegions, SMTT(60) DEF X86Image
        <5> QED BY <2>7, <4>1, <5>1, CopyTypes, Zenon DEF LoadImage, Pcs
      <4>2. CASE opt.kernel.file = "ok" /\ Copy([kernel |-> ArmFile(opt.kernel)], "initrd")
        BY <2>7, <4>2, CopyTypes, ImageRegions, SMTT(60) DEF LoadImage, Pcs
      <4> QED BY <2>7, <4>1, <4>2, Zenon DEF LoadImage, TypeOK, Pcs
    <3> QED BY <2>7, <3>1, Zenon DEF LoadImage, TypeOK
  <2>8. CASE LoadInitrd
    <3>1. place' \in [Objects -> Regions] /\ pc' \in Pcs /\ addr' \in Nat
            /\ result' \in {"running", "segv"}
      <4>1. CASE Copy([initrd |-> Region(ARM_INITRD_BASE, opt.initrd.size)], "disk")
                   /\ UNCHANGED addr
        <5>1. Region(ARM_INITRD_BASE, opt.initrd.size) \in Regions
          BY ImageRegions, SMTT(60) DEF ARM_INITRD_BASE, ARM_KERNEL_BASE, ARM_KERNEL_SIZE
        <5> QED BY <2>8, <4>1, <5>1, CopyTypes, SMTT(60) DEF LoadInitrd, Pcs, TypeOK
      <4>2. CASE End("segv") /\ UNCHANGED <<addr, place>>
        BY <2>8, <4>2, Zenon DEF TypeOK
      <4> QED BY <2>8, <4>1, <4>2, ImageRegions, SMTT(60) DEF LoadInitrd, CopyInitrd, TypeOK, Pcs
    <3> QED BY <2>8, <3>1, Zenon DEF LoadInitrd, TypeOK
  <2>9. CASE SearchInitrd
    <3>1. place' \in [Objects -> Regions] /\ pc' \in Pcs /\ addr' \in Nat
            /\ result' \in {"running", "segv", "error"}
      <4>1. CASE Copy([initrd |-> Region(addr, opt.initrd.size)], "disk") /\ UNCHANGED addr
        <5>1. Region(addr, opt.initrd.size) \in Regions
          BY ImageRegions, Zenon DEF TypeOK
        <5> QED BY <2>9, <4>1, <5>1, CopyTypes, SMTT(60) DEF SearchInitrd, Pcs, TypeOK
      <4>2. CASE addr >= MB /\ addr' = addr - MB /\ Goto("search") /\ UNCHANGED place
        BY <2>9, <4>2, SMTT(60) DEF SearchInitrd, TypeOK, Pcs, MB
      <4>3. CASE Fails /\ UNCHANGED <<addr, place>>
        BY <2>9, <4>3, Zenon DEF SearchInitrd, TypeOK, Pcs
      <4>4. CASE End("segv") /\ UNCHANGED <<addr, place>>
        BY <2>9, <4>4, Zenon DEF TypeOK
      <4> QED BY <2>9, <4>1, <4>2, <4>3, <4>4, SMTT(60) DEF SearchInitrd, CopyInitrd, TypeOK, MB
    <3> QED BY <2>9, <3>1, Zenon DEF SearchInitrd, TypeOK
  <2>10. CASE LoadDisk
    <3>1. pci' \in Seq({"blk", "net"}) /\ Len(pci') <= 2
      <4>1. pci' = pci \/ pci' = Append(pci, "blk")
        BY <2>10, Zenon DEF LoadDisk
      <4>2. Len(pci) = 0
        BY <2>10, Zenon DEF LoadDisk, PciPhase, PreDisk
      <4>3. Append(pci, "blk") \in Seq({"blk", "net"}) /\ Len(Append(pci, "blk")) = 1
        BY <4>2, Appended
      <4>4. pci \in Seq({"blk", "net"})
        BY Zenon DEF TypeOK
      <4>5. CASE pci' = pci
        BY <4>2, <4>4, <4>5
      <4>6. CASE pci' = Append(pci, "blk")
        BY <4>3, <4>6
      <4> QED BY <4>1, <4>5, <4>6, Zenon
    <3>2. fds' \subseteq Fds /\ th' \in [Threads -> ThreadPcs]
      BY <2>10, Zenon DEF LoadDisk, Become, TypeOK, Fds, BlkFds, Threads, ThreadPcs
    <3>3. enable' \in BOOLEAN
      BY <2>10, Zenon DEF LoadDisk, TypeOK
    <3> QED BY <2>10, <3>1, <3>2, <3>3, Zenon DEF LoadDisk, TypeOK, Pcs
  <2>11. CASE OpenTap
    <3>1. fds' \subseteq Fds
      BY <2>11, Zenon DEF OpenTap, TypeOK, Fds
    <3> QED BY <2>11, <3>1, ZenonT(60) DEF OpenTap, TypeOK, Pcs
  <2>12. CASE InitNet
    <3>1. pci' \in Seq({"blk", "net"}) /\ Len(pci') <= 2
      BY <2>12, Appended DEF InitNet, PciPhase, TapPcs, TypeOK
    <3> QED BY <2>12, <3>1, Zenon DEF InitNet, TypeOK, Pcs
  <2>13. ASSUME NEW l, NEW next \in Pcs, SetUpTap(l, next)
         PROVE  TypeOK'
    <3>1. fds' \subseteq Fds
      BY <2>13, Zenon DEF SetUpTap, TypeOK
    <3> QED BY <2>13, <3>1, SMTT(60) DEF SetUpTap, TypeOK, Pcs
  <2>14. CASE LateInit
    <3>1. Region(ARM_FDT_BASE, FDT_MAX_SIZE) \in Regions
      BY SMTT(60) DEF Region, Regions, ARM_FDT_BASE, FDT_MAX_SIZE, ARM_INITRD_BASE, ARM_INITRD_SIZE,
             ARM_KERNEL_BASE, ARM_KERNEL_SIZE
    <3>2. Region(ARM_INITRD_BASE, opt.initrd.size) \in Regions /\ Nowhere \in Regions
      BY ImageRegions DEF Region, Regions, Nowhere, ARM_INITRD_BASE, ARM_KERNEL_BASE,
                          ARM_KERNEL_SIZE
    <3>3. HasDev("blk") => SlotOf("blk") \in 0 .. 2
      BY SMTT(60) DEF HasDev, SlotOf, TypeOK
    <3>4. place' \in [Objects -> Regions]
      BY <2>14, <3>1, Zenon DEF LateInit, TypeOK
    <3>5. fdt' \in Fdts
      <4>1. gic.type \in Gics
        BY Zenon DEF TypeOK, GicStates
      <4>2. \A g \in Gics, r \in Regions, n \in 0 .. 2 :
                [made |-> TRUE, gic |-> g, initrd |-> r, slot |-> n] \in Fdts
        BY Zenon DEF Fdts
      <4> DEFINE r == IF Loaded("initrd") /\ opt.initrd.size > 0
                        THEN Region(ARM_INITRD_BASE, opt.initrd.size) ELSE Nowhere
                 n == IF HasDev("blk") THEN SlotOf("blk") ELSE 0
      <4>3. r \in Regions /\ n \in 0 .. 2
        BY <3>2, <3>3
      <4>4. CASE fdt' = [made |-> TRUE, gic |-> gic.type, initrd |-> r, slot |-> n]
        <5> HIDE DEF r, n
        <5> QED BY <4>1, <4>2, <4>3, <4>4, Zenon
      <4> QED BY <2>14, <4>4, Zenon DEF LateInit, TypeOK
    <3> QED BY <2>14, <3>4, <3>5, ZenonT(60) DEF LateInit, TypeOK, Pcs
  <2>15. CASE InitReg
    BY <2>15, ZenonT(60) DEF InitReg, TypeOK, Pcs
  <2> QED BY <1>1, <2>1, <2>2, <2>3, <2>4, <2>5, <2>6, <2>7, <2>8, <2>9, <2>10, <2>11,
             <2>12, <2>13, <2>14, <2>15, Zenon DEF SetUp, Pcs
<1>2. CASE TearDown
  <2>1. fds' \subseteq Fds /\ stop' \subseteq {"serial", "blk"}
    BY <1>2, Zenon DEF TearDown, SerialExit, SerialJoin, BlkExit, BlkJoinUnknown, CloseFds, Munmap,
                Return, TypeOK
  <2>2. ram' \in BOOLEAN
    BY <1>2, Zenon DEF TearDown, SerialExit, SerialJoin, BlkExit, BlkJoinUnknown, CloseFds,
                       Munmap, Return, TypeOK
  <2> QED BY <1>2, <2>1, <2>2 DEF TearDown, SerialExit, SerialJoin, BlkExit, BlkJoinUnknown,
                                  CloseFds, Munmap, Return, TypeOK, Pcs
<1>3. ASSUME NEW t \in Threads, NEW from, NEW to \in ThreadPcs, ThreadStep(t, from, to)
      PROVE  TypeOK'
  BY <1>3, Zenon DEF ThreadStep, Become, TypeOK
<1>4. CASE Guest
  <2>1. CASE KickBlk \/ RunReturns \/ RunUnmapped
    BY <2>1, ZenonT(60) DEF KickBlk, RunReturns, RunUnmapped, TypeOK, Pcs
  <2>2. CASE ReadRx
    BY <2>2, Zenon DEF ReadRx, TypeOK, Threads, ThreadPcs
  <2> QED BY <1>3, <1>4, <2>1, <2>2, Zenon DEF Guest, EnableQueue, Threads, NetThreads, ThreadPcs
<1>5. CASE SerialConsole
  BY <1>5, ZenonT(60) DEF SerialConsole, Become, TypeOK, Threads, ThreadPcs
<1>6. CASE SerialCheck \/ SerialPoll \/ SerialIrq \/ SpuriousWakeup \/ BlkCheck \/ BlkPoll
             \/ BlkKillNobody \/ AvailServe
  BY <1>3, <1>6, Zenon DEF SerialCheck, SerialPoll, SerialIrq, SpuriousWakeup, BlkCheck, BlkPoll,
                    BlkKillNobody, AvailServe, Threads, ThreadPcs
<1>7. CASE TypeKey \/ BlkKill \/ (\E t \in NetThreads : NetThread(t))
  BY <1>7, ZenonT(60) DEF TypeKey, BlkKill, NetThread, TypeOK
<1>8. CASE AvailRead
  BY <1>8, Zenon DEF AvailRead, Become, TypeOK, Threads, ThreadPcs
<1>9. CASE UNCHANGED vars
  BY <1>9, ZenonT(60) DEF vars, TypeOK
<1> QED
  BY <1>1, <1>2, <1>4, <1>5, <1>6, <1>7, <1>8, <1>9, Zenon DEF Next, SerialThread

(* Every step keeps what is known of the bus at each stage of main.        *)
LEMMA PciStep == TypeOK /\ PciPhase /\ [Next]_vars => PciPhase'
<1> SUFFICES ASSUME TypeOK, PciPhase, [Next]_vars PROVE PciPhase'
    BY Zenon
<1> USE DEF PciPhase, PreDisk, PreKernel, Early, TapPcs
<1>1. CASE ~SetUp
  BY <1>1, Outside, Zenon DEF Final, Joined
<1>2. CASE LoadDisk
  <2>1. pci' = pci \/ pci' = Append(pci, "blk")
    BY <1>2, Zenon DEF LoadDisk
  <2>2. pc = "disk" /\ pc' \in {"disk", "tap"} /\ (pc' = "disk" => pci' = pci)
    BY <1>2, Zenon DEF LoadDisk, At, Running, Goto, Fails, End
  <2> QED BY <2>1, <2>2, Appended
<1>3. CASE InitNet
  BY <1>3, Zenon DEF InitNet, Goto
<1>4. CASE SetUp /\ ~LoadDisk /\ ~InitNet
  BY <1>4, Zenon DEF SetUp, Start, Open, ArchInit, Mmap, SetRegion, CpuInit, PlatformInit,
              FinalizeIrqchip, LoadImage, LoadInitrd, SearchInitrd, OpenTap, SetUpTap,
              LateInit, InitReg, Copy, CopyInitrd, At, Running, Goto, Fails, End
<1> QED BY <1>1, <1>2, <1>3, <1>4, Zenon

(* What main has opened and mapped stays so until vm_exit undoes it.       *)
LEMMA FdsStep == TypeOK /\ FdsInv /\ [Next]_vars => FdsInv'
<1> SUFFICES ASSUME TypeOK, FdsInv, [Next]_vars PROVE FdsInv'
    BY Zenon
<1> USE DEF FdsInv, Early, Past, At, Running, Goto, Fails, End
<1>1. CASE Open("kvm", "kvm", "vm") \/ Open("vm", "vm", "arch") \/ Open("vcpu", "vcpu", "cpu")
  BY <1>1, Zenon DEF Open
<1>2. CASE Start \/ ArchInit \/ Mmap \/ SetRegion \/ CpuInit \/ PlatformInit \/ FinalizeIrqchip
  BY <1>2, ZenonT(60) DEF Start, ArchInit, Mmap, SetRegion, CpuInit, PlatformInit, FinalizeIrqchip, machine
<1>3. CASE LoadImage \/ LoadInitrd \/ SearchInitrd \/ LateInit \/ InitReg
  <2>1. CASE LoadImage
    BY <2>1, Zenon DEF LoadImage, Copy, machine
  <2>2. CASE LoadInitrd \/ SearchInitrd
    BY <2>2, Zenon DEF LoadInitrd, SearchInitrd, CopyInitrd, Copy, machine
  <2>3. CASE LateInit \/ InitReg
    BY <2>3, Zenon DEF LateInit, InitReg, Copy, machine
  <2> QED BY <1>3, <2>1, <2>2, <2>3, Zenon
<1>4. CASE LoadDisk \/ OpenTap \/ InitNet \/ SetUpTap("tunsetiff", "nonblock")
             \/ SetUpTap("nonblock", "netpci")
  BY <1>4, Zenon DEF LoadDisk, OpenTap, InitNet, SetUpTap, BlkFds, machine
<1>5. CASE TearDown
  BY <1>5, ZenonT(60) DEF TearDown, SerialExit, SerialJoin, BlkExit, BlkJoinUnknown, CloseFds,
              Munmap, Return, machine
<1>6. CASE ~SetUp /\ ~TearDown
  BY <1>6, Aside, Zenon
<1> QED BY <1>1, <1>2, <1>3, <1>4, <1>5, <1>6, Zenon DEF SetUp

(* A device stays on the bus.                                              *)
LEMMA DevsStay == TypeOK /\ [Next]_vars => \A d : HasDev(d) => HasDev(d)'
<1> SUFFICES ASSUME TypeOK, [Next]_vars, NEW d, HasDev(d) PROVE HasDev(d)'
    BY Zenon
<1>1. CASE ~SetUp
  BY <1>1, Outside, Zenon DEF HasDev
<1>2. CASE SetUp
  <2>1. pci' = pci \/ pci' = Append(pci, "blk") \/ pci' = Append(pci, "net")
    BY <1>2, Zenon DEF SetUp, Start, Open, ArchInit, Mmap, SetRegion, CpuInit, PlatformInit,
        FinalizeIrqchip, LoadImage, LoadInitrd, SearchInitrd, LoadDisk, OpenTap, InitNet,
        SetUpTap, LateInit, InitReg
  <2>2. CASE pci' = pci
    BY <2>2, Zenon DEF HasDev
  <2>3. ASSUME NEW e \in {"blk", "net"}, pci' = Append(pci, e) PROVE HasDev(d)'
    BY <2>3, Appended, Zenon DEF HasDev
  <2> QED BY <2>1, <2>2, <2>3, Zenon
<1> QED BY <1>1, <1>2, Zenon

(* Which threads exist, and that vm_exit goes on only without the worker.  *)
LEMMA ThreadInvStep == TypeOK /\ ThreadInv /\ BlkInv /\ [Next]_vars => ThreadInv'
<1> SUFFICES ASSUME TypeOK, ThreadInv, BlkInv, [Next]_vars PROVE ThreadInv'
    BY Zenon
<1> USE DEF At, Running, Goto, Fails, End, threads
<1>t. th \in [Threads -> ThreadPcs] /\ {"serial", "blk", "avail", "rx", "tx"} \subseteq Threads
  BY Zenon DEF TypeOK, Threads, NetThreads
<1>d. HasDev("blk") => HasDev("blk")'
  BY DevsStay, Zenon
<1>p. /\ SetUpPcs \cap Final = {} /\ Early \subseteq SetUpPcs /\ Joined \subseteq Final
      /\ "run" \notin Joined /\ Past \subseteq Joined
  BY Zenon DEF SetUpPcs, PreDisk, PreKernel, TapPcs, Early, Final, Joined, Past
<1>1. ASSUME NEW t \in Threads, NEW from, NEW to, ThreadStep(t, from, to),
             from \notin {"none", "failed", "ended"}, to # "none"
      PROVE  ThreadInv'
  <2>1. UNCHANGED <<pc, pci>> /\ th' = [th EXCEPT ![t] = to] /\ th[t] = from
    BY <1>1, Zenon DEF ThreadStep, Become
  <2> QED BY <1>1, <1>t, <1>d, <2>1, Zenon DEF ThreadInv, Alive
<1>2. CASE SerialCheck \/ SerialPoll \/ SerialIrq \/ SpuriousWakeup \/ BlkCheck \/ BlkPoll
             \/ BlkKillNobody \/ AvailServe
  BY <1>t, <1>1, <1>2 DEF SerialCheck, SerialPoll, SerialIrq, SpuriousWakeup, BlkCheck, BlkPoll,
                          BlkKillNobody, AvailServe
<1>3. CASE EnableQueue("avail", "blk", "read") \/ \E t \in NetThreads : EnableQueue(t, "net", "loop")
  <2>1. PICK t \in {"avail", "rx", "tx"} : \E to \in {"read", "loop", "failed"} :
          /\ UNCHANGED <<pc, pci>> /\ pc = "run" /\ (t = "avail" => HasDev("blk"))
          /\ th' = [th EXCEPT ![t] = to]
    BY <1>3, Zenon DEF EnableQueue, ThreadStep, Become, NetThreads
  <2> QED BY <1>t, <1>d, <1>p, <2>1, Zenon DEF ThreadInv, Final
<1>4. CASE ReadRx \/ SerialConsole \/ AvailRead
  <2>1. UNCHANGED <<pc, pci>>
    BY <1>4, Zenon DEF ReadRx, SerialConsole, AvailRead
  <2>2. \/ th' = th
        \/ th["serial"] \in {"console", "wait"} /\ \E to \in {"irq", "console"} :
             th' = [th EXCEPT !["serial"] = to]
        \/ th["avail"] = "read" /\ th' = [th EXCEPT !["avail"] = "serve"]
    <3>1. CASE ReadRx
      BY <1>t, <3>1, Zenon DEF ReadRx
    <3> QED BY <1>4, <3>1, Zenon DEF SerialConsole, AvailRead, Become
  <2> QED BY <1>t, <1>d, <2>1, <2>2 DEF ThreadInv, Alive
<1>5. CASE PlatformInit
  <2>1. pc = "platform" /\ pc' \in {"kernel", "gic"}
          /\ \E to \in {"check", "failed"} : th' = [th EXCEPT !["serial"] = to]
    BY <1>5, Zenon DEF PlatformInit, Become
  <2>2. pc \in SetUpPcs /\ pc' \notin Early \cup Joined
    BY <2>1, Zenon DEF Early, Joined, SetUpPcs, PreDisk, PreKernel
  <2>3. th'["serial"] # "none" /\ \A t \in Threads \ {"serial"} : th'[t] = th[t]
    BY <1>t, <2>1, Zenon
  <2> QED BY <1>t, <1>d, <1>p, <2>2, <2>3, Zenon DEF ThreadInv
<1>6. CASE LoadDisk
  <2>1. \/ th' = th /\ pc' \in {"disk", "tap"}
        \/ /\ \E to \in {"check", "failed"} : th' = [th EXCEPT !["blk"] = to]
           /\ pc' = "tap" /\ pci' = Append(pci, "blk")
    BY <1>6, Zenon DEF LoadDisk, Become
  <2>2. pci' = Append(pci, "blk") => HasDev("blk")'
    BY Appended, Zenon DEF HasDev
  <2>3. pc = "disk"
    BY <1>6, Zenon DEF LoadDisk
  <2>4. pc \in SetUpPcs \ Early /\ pc' \notin Early \cup Joined
    BY <2>1, <2>3, Zenon DEF Early, Joined, SetUpPcs, PreDisk, PreKernel
  <2>5. /\ \A t \in Threads \ {"blk"} : th'[t] = th[t]
        /\ th'["blk"] = th["blk"] \/ HasDev("blk")'
    BY <1>t, <2>1, <2>2, Zenon
  <2> QED BY <1>t, <1>d, <1>p, <2>4, <2>5, Zenon DEF ThreadInv
<1>7. CASE SetUp /\ ~PlatformInit /\ ~LoadDisk
  <2>1. UNCHANGED th /\ (pc \in Early <=> pc' \in Early) /\ pc \in SetUpPcs /\ pc' \notin Joined
    BY <1>7, ZenonT(60) DEF SetUp, Start, Open, ArchInit, Mmap, SetRegion, CpuInit, FinalizeIrqchip,
        LoadImage, LoadInitrd, SearchInitrd, OpenTap, InitNet, SetUpTap, LateInit, InitReg,
        Copy, CopyInitrd, Early, Joined, SetUpPcs, PreDisk, PreKernel, TapPcs
  <2> QED BY <1>d, <1>p, <2>1, Zenon DEF ThreadInv
<1>8. CASE TearDown
  <2>1. UNCHANGED th /\ pc \in Final /\ pc' \in Final /\ pc # "run"
          /\ (pc' \in Joined => pc \in Joined \/ th["serial"] \in {"ended", "failed"})
    BY <1>8, Zenon DEF TearDown, SerialExit, SerialJoin, BlkExit, BlkJoinUnknown, CloseFds, Munmap,
                Return, Final, Joined
  <2>2. pc' \in Past => pc \in Past \/ ~enable \/ ~Alive("avail")
    BY <1>8, Zenon DEF TearDown, SerialExit, SerialJoin, BlkExit, BlkJoinUnknown, CloseFds, Munmap,
                Return, Past, Alive
  <2>3. pc' \in Past => ~Alive("avail")'
    BY <2>1, <2>2, Zenon DEF ThreadInv, BlkInv, Alive
  <2> QED BY <1>d, <1>p, <2>1, <2>3, Zenon DEF ThreadInv
<1>9. CASE KickBlk \/ RunReturns \/ RunUnmapped \/ TypeKey \/ BlkKill \/ (\E t \in NetThreads : NetThread(t))
             \/ UNCHANGED vars
  <2>1. UNCHANGED th /\ (pc' = pc \/ (pc = "run" /\ pc' = "serial_exit"))
    BY <1>9, Zenon DEF KickBlk, RunReturns, RunUnmapped, TypeKey, BlkKill, NetThread, vars
  <2> QED BY <1>d, <1>p, <2>1, Zenon DEF ThreadInv, Final, Joined, Past, Alive
<1> QED BY <1>2, <1>3, <1>4, <1>5, <1>6, <1>7, <1>8, <1>9, Zenon DEF Next, Guest, SerialThread

(* The two devices: descriptors, place on the bus and the enable flag.     *)
LEMMA DeviceStep == TypeOK /\ PciPhase /\ BlkInv /\ NetInv /\ [Next]_vars => BlkInv' /\ NetInv'
<1> SUFFICES ASSUME TypeOK, PciPhase, BlkInv, NetInv, [Next]_vars PROVE BlkInv' /\ NetInv'
    BY Zenon
<1> USE DEF At, Running, Goto, Fails, End, machine
<1>o. opt' = opt /\ opt.arch \in {"x86", "arm64"}
  <2>1. CASE SetUp
    BY <2>1, Options, Zenon DEF SetUp, Start, Open, ArchInit, Mmap, SetRegion, CpuInit,
        PlatformInit, FinalizeIrqchip, LoadImage, LoadInitrd, SearchInitrd, LoadDisk, OpenTap,
        InitNet, SetUpTap, LateInit, InitReg
  <2> QED BY <2>1, Outside, Options, Zenon
<1>f. BlkFds = {"disk", "ioeventfd"}
  BY Zenon DEF BlkFds
<1>e. PreDisk \cap (TapPcs \cup {"tap", "late", "init_reg"}) = {} /\ "tap" \notin TapPcs
        /\ {"late", "init_reg"} \cap TapPcs = {} /\ PreDisk \cap Final = {} /\ TapPcs \cap Final = {}
        /\ "tap" \notin Final /\ Past \subseteq Final
        /\ Past \cap (PreDisk \cup TapPcs \cup {"tap", "late", "init_reg"}) = {}
  BY Zenon DEF PreDisk, PreKernel, Early, TapPcs, Final, Joined, Past
<1>1. ASSUME NEW fd \in {"kvm", "vm", "vcpu"}, NEW l \in Early, NEW next \in Early, Open(l, fd, next)
      PROVE  BlkInv' /\ NetInv'
  <2>1. UNCHANGED <<pci, enable>> /\ pc \in PreDisk /\ pc' \in PreDisk
          /\ (fds' = fds \/ fds' = fds \cup {fd})
    BY <1>1, Zenon DEF Open, PreDisk, PreKernel, Early
  <2>2. BlkInv'
    BY <1>o, <1>e, <2>1, Zenon DEF BlkInv, HasDev
  <2>3. NetInv'
    BY <1>f, <1>e, <2>1, Zenon DEF NetInv, HasDev
  <2> QED BY <2>2, <2>3, Zenon
<1>2. CASE PlatformInit
  <2>1. UNCHANGED <<pci, fds>> /\ pc = "platform" /\ pc' \in {"kernel", "gic"}
          /\ (opt.arch = "x86" => enable' = FALSE)
    BY <1>2, Zenon DEF PlatformInit
  <2>2. ~HasDev("blk")
    BY <2>1 DEF PciPhase, PreDisk, PreKernel, Early, HasDev, TypeOK
  <2>3. BlkInv'
    BY <1>o, <2>1, <2>2, Zenon DEF BlkInv, HasDev, Past
  <2>4. NetInv'
    BY <1>e, <2>1, Zenon DEF NetInv, HasDev, PreDisk, PreKernel, Early, TapPcs, Past
  <2> QED BY <2>3, <2>4, Zenon
<1>3. CASE LoadDisk
  <2>1. pc = "disk" /\ pc \in PreDisk /\ pc' \in {"disk", "tap"}
    BY <1>3, Zenon DEF LoadDisk, PreDisk
  <2>2. CASE UNCHANGED <<fds, pci, enable>>
    <3>1. BlkInv'
      BY <1>o, <2>1, <2>2, Zenon DEF BlkInv, HasDev, Past
    <3>2. NetInv'
      BY <1>e, <2>1, <2>2, Zenon DEF NetInv, HasDev
    <3> QED BY <3>1, <3>2, Zenon
  <2>3. CASE fds' \in {fds \cup {"disk"}, fds \cup BlkFds} /\ pci' = Append(pci, "blk") /\ enable' = TRUE
    <3>1. HasDev("blk")' /\ (HasDev("net")' <=> HasDev("net"))
      BY <2>3, Appended, Zenon DEF HasDev
    <3>2. BlkInv'
      BY <1>f, <2>1, <2>3, <3>1, Zenon DEF BlkInv, Past
    <3>3. NetInv'
      BY <1>e, <1>f, <2>1, <2>3, <3>1, Zenon DEF NetInv
    <3> QED BY <3>2, <3>3, Zenon
  <2> QED BY <1>3, <2>2, <2>3, Zenon DEF LoadDisk
<1>4. CASE OpenTap \/ SetUpTap("tunsetiff", "nonblock") \/ SetUpTap("nonblock", "netpci")
  <2>1. UNCHANGED <<pci, enable>>
    BY <1>4, Zenon DEF OpenTap, SetUpTap
  <2>2. \/ pc = "tap" /\ pc' = "tunsetiff" /\ fds' = fds \cup {"tap"}
        \/ pc = "tap" /\ pc' = "late" /\ fds' = fds
        \/ pc \in TapPcs /\ pc' \in TapPcs /\ fds' = fds
        \/ pc \in TapPcs /\ pc' = "late" /\ fds' = fds \ {"tap"}
    BY <1>4, Zenon DEF OpenTap, SetUpTap, TapPcs
  <2>3. BlkInv'
    BY <1>o, <1>e, <2>1, <2>2, Zenon DEF BlkInv, HasDev, TapPcs
  <2>4. NetInv'
    BY <1>e, <1>f, <2>1, <2>2, Zenon DEF NetInv, HasDev, TapPcs
  <2> QED BY <2>3, <2>4, Zenon
<1>5. CASE InitNet
  <2>1. pc = "netpci" /\ pc' = "late" /\ fds' = fds /\ enable' = enable
          /\ pci' = Append(pci, "net")
    BY <1>5, Zenon DEF InitNet
  <2>2. HasDev("net")' /\ (HasDev("blk")' <=> HasDev("blk"))
    BY <2>1, Appended, Zenon DEF HasDev
  <2>3. BlkInv'
    BY <1>o, <2>1, <2>2, Zenon DEF BlkInv, Past
  <2>4. NetInv'
    BY <1>e, <2>1, <2>2, Zenon DEF NetInv, TapPcs
  <2> QED BY <2>3, <2>4, Zenon
<1>6. CASE Start \/ ArchInit \/ Mmap \/ SetRegion \/ CpuInit \/ FinalizeIrqchip
             \/ LoadImage \/ LoadInitrd \/ SearchInitrd \/ LateInit \/ InitReg
  <2>1. UNCHANGED <<fds, pci, enable>>
    BY <1>6, ZenonT(60) DEF Start, ArchInit, Mmap, SetRegion, CpuInit, FinalizeIrqchip, LoadImage,
        LoadInitrd, SearchInitrd, LateInit, InitReg
  <2>2. /\ \/ pc \in PreDisk /\ pc' \in PreDisk
           \/ pc \in {"late", "init_reg"} /\ pc' \notin PreDisk
        /\ pc' \notin TapPcs \cup Past \cup {"tap"}
    BY <1>6, Zenon DEF Start, ArchInit, Mmap, SetRegion, CpuInit, FinalizeIrqchip, LoadImage,
        LoadInitrd, SearchInitrd, LateInit, InitReg, Copy, CopyInitrd, PreDisk, PreKernel, Early,
        TapPcs, Past
  <2>3. BlkInv'
    BY <1>o, <1>e, <2>1, <2>2, Zenon DEF BlkInv, HasDev
  <2>4. NetInv'
    BY <1>e, <2>1, <2>2, Zenon DEF NetInv, HasDev
  <2> QED BY <2>3, <2>4, Zenon
<1>7. CASE TearDown
  <2>1. UNCHANGED <<pci, enable>> /\ fds' \subseteq fds /\ (pc' \notin Past => fds' = fds)
    BY <1>7, Zenon DEF TearDown, SerialExit, SerialJoin, BlkExit, BlkJoinUnknown, CloseFds,
        Munmap, Return, Past
  <2>2. pc \in Final /\ pc' \in Final /\ (pc \in Past => pc' \in Past)
    BY <1>7, Zenon DEF TearDown, SerialExit, SerialJoin, BlkExit, BlkJoinUnknown, CloseFds, Munmap,
        Return, Final, Joined, Past
  <2>5. pc' \in Past => pc \in Past \/ ~enable \/ ~HasDev("blk") \/ "disk" \notin fds'
    BY <1>7, <1>f, Zenon DEF TearDown, SerialExit, SerialJoin, BlkExit, BlkJoinUnknown, CloseFds,
        Munmap, Return, Past
  <2>3. BlkInv'
    <3>1. pc' \in Past => "disk" \notin fds'
      BY <2>1, <2>5, Zenon DEF BlkInv
    <3> QED BY <1>o, <2>1, <2>2, <3>1, Zenon DEF BlkInv, HasDev
  <2>4. NetInv'
    BY <1>e, <2>1, <2>2, Zenon DEF NetInv, HasDev
  <2> QED BY <2>3, <2>4, Zenon
<1>8. CASE ~SetUp /\ ~TearDown
  <2>1. UNCHANGED <<fds, pci, enable>> /\ (pc' = pc \/ (pc = "run" /\ pc' = "serial_exit"))
    BY <1>8, Aside, Zenon
  <2>2. BlkInv'
    BY <1>o, <2>1, Zenon DEF BlkInv, HasDev, Past
  <2>3. NetInv'
    BY <1>e, <2>1, Zenon DEF NetInv, HasDev, Final, Joined, PreDisk, PreKernel, Early, TapPcs, Past
  <2> QED BY <2>2, <2>3, Zenon
<1> QED BY <1>1, <1>2, <1>3, <1>4, <1>5, <1>6, <1>7, <1>8, Zenon DEF SetUp, Early

-----------------------------------------------------------------------------
(* Main moves through the loading of files in this order.                  *)
LEMMA LoadOrder ==
    /\ {"initrd", "search", "disk", "tap", "late", "init_reg"} \cap PreKernel = {}
    /\ TapPcs \cap PreKernel = {} /\ Final \cap PreKernel = {} /\ TapPcs \cap Final = {}
    /\ {"initrd", "search", "disk", "tap", "late", "init_reg"} \cap (Final \cup TapPcs) = {}
    /\ Early \subseteq PreKernel /\ {"gic", "kernel"} \subseteq PreKernel
    /\ {"gic", "kernel"} \cap Early = {}
  BY Zenon DEF PreKernel, Early, TapPcs, Final, Joined

(* The set-up actions that leave guest memory alone.                       *)
LEMMA NotLoading ==
    ASSUME SetUp, ~LoadImage, ~LoadInitrd, ~SearchInitrd, ~LateInit
    PROVE  /\ UNCHANGED <<opt, addr, place, fdt>>
           /\ \/ pc \in PreKernel \ {"kernel"} /\ pc' \in PreKernel
              \/ /\ pc \in TapPcs \cup {"disk", "tap", "init_reg"}
                 /\ pc' \in TapPcs \cup Final \cup {"disk", "tap", "late", "init_reg"}
<1> USE DEF SetUp, Start, Open, ArchInit, Mmap, SetRegion, CpuInit, PlatformInit, FinalizeIrqchip,
            LoadDisk, OpenTap, InitNet, SetUpTap, InitReg, At, Running, Goto, Fails, End, memory
<1>1. UNCHANGED <<opt, addr, place, fdt>>
  BY Zenon
<1>2. \/ pc \in PreKernel \ {"kernel"} /\ pc' \in PreKernel
      \/ /\ pc \in TapPcs \cup {"disk", "tap", "init_reg"}
         /\ pc' \in TapPcs \cup Final \cup {"disk", "tap", "late", "init_reg"}
  BY Zenon DEF PreKernel, Early, TapPcs, Final
<1> QED BY <1>1, <1>2, Zenon

(* A copy into guest memory changes the places of what is copied, only.    *)
LEMMA Copied ==
    ASSUME TypeOK, NEW objs, NEW next, Copy(objs, next)
    PROVE  /\ \A o \in Objects \ DOMAIN objs : place'[o] = place[o]
           /\ \/ /\ \A o \in DOMAIN objs : Inside(objs[o], Ram(opt.arch))
                 /\ \A o \in Objects \cap DOMAIN objs : place'[o] = objs[o]
                 /\ pc' = next /\ result' = result
              \/ place' = place /\ pc' = pc /\ result' = "segv"
  BY Zenon DEF Copy, Goto, End, TypeOK

(* vm_load_initrd and its search touch nothing but the initrd.             *)
LEMMA InitrdOnly ==
    ASSUME TypeOK, LoadInitrd \/ SearchInitrd
    PROVE  /\ opt' = opt /\ fdt' = fdt /\ pc \in {"initrd", "search"}
           /\ pc' \in {"initrd", "search", "disk"}
           /\ \A o \in Objects \ {"initrd"} : place'[o] = place[o]
<1>1. opt' = opt /\ fdt' = fdt
  BY Zenon DEF LoadInitrd, SearchInitrd
<1>2. pc \in {"initrd", "search"} /\ pc' \in {"initrd", "search", "disk"}
  BY Zenon DEF LoadInitrd, SearchInitrd, CopyInitrd, Copy, At, Goto, Fails, End
<1>3. \A o \in Objects \ {"initrd"} : place'[o] = place[o]
  <2>1. place' = place \/ \E r, next : Copy([initrd |-> r], next)
    BY Zenon DEF LoadInitrd, SearchInitrd, CopyInitrd
  <2>2. ASSUME NEW r, NEW next, Copy([initrd |-> r], next)
        PROVE  \A o \in Objects \ {"initrd"} : place'[o] = place[o]
    <3>1. DOMAIN [initrd |-> r] = {"initrd"}
      BY Zenon
    <3> QED BY <2>2, <3>1, Copied, Zenon
  <2> QED BY <2>1, <2>2, Zenon
<1> QED BY <1>1, <1>2, <1>3, Zenon

(* Every step keeps what is known of the kernel's place.                   *)
LEMMA KernelStep == TypeOK /\ KernelInv /\ [Next]_vars => KernelInv'
<1> SUFFICES ASSUME TypeOK, KernelInv, [Next]_vars PROVE KernelInv'
    BY Zenon
<1> USE LoadOrder
<1>p. {"params", "cmdline", "kernel", "fdt"} \subseteq Objects \ {"initrd"}
  BY Zenon DEF Objects
<1>1. CASE UNCHANGED <<opt, place>> /\ (pc' \in PreKernel => pc \in PreKernel)
             /\ (pc \in PreKernel => pc' \in PreKernel)
  BY <1>1, Zenon DEF KernelInv, Loaded
<1>2. CASE ~SetUp
  BY <1>1, <1>2, Outside, Zenon
<1>3. CASE SetUp /\ ~LoadImage /\ ~LoadInitrd /\ ~SearchInitrd /\ ~LateInit
  BY <1>1, <1>3, NotLoading, Zenon
<1>4. CASE LoadInitrd \/ SearchInitrd
  BY <1>4, <1>p, InitrdOnly, ZenonT(60) DEF KernelInv, Loaded
<1>5. CASE LateInit
  <2>1. opt' = opt /\ pc = "late" /\ pc' \in Final \cup {"late", "init_reg"}
    BY <1>5, Zenon DEF LateInit, At, Goto, Fails, End, Final
  <2>2. \A o \in Objects \ {"fdt"} : place'[o] = place[o]
    BY <1>5, Zenon DEF LateInit, TypeOK
  <2>3. opt.arch = "x86" => place' = place
    BY <1>5, Zenon DEF LateInit
  <2> QED BY <2>1, <2>2, <2>3, <1>p, Zenon DEF KernelInv, Loaded, Objects
<1>6. CASE LoadImage
  <2>0. opt' = opt /\ pc = "kernel"
    BY <1>6, Zenon DEF LoadImage, At
  <2>1. CASE opt.arch = "x86" /\ Copy(X86Image(opt.kernel), "initrd")
    <3>1. DOMAIN X86Image(opt.kernel) = {"params", "cmdline", "kernel"}
      BY ZenonT(60) DEF X86Image
    <3>2. X86Image(opt.kernel).kernel # Nowhere
      BY Fields DEF X86Image, MB
    <3>3. /\ place'["fdt"] = place["fdt"]
          /\ \/ /\ Inside(X86Image(opt.kernel)["kernel"], Ram("x86")) /\ pc' = "initrd"
                /\ \A o \in {"params", "cmdline", "kernel"} : place'[o] = X86Image(opt.kernel)[o]
             \/ place' = place /\ pc' = pc
      BY <2>1, <3>1, <1>p, Copied, SMTT(30)
    <3>4. CASE place' = place /\ pc' = pc
      BY <1>1, <2>0, <3>4, Zenon
    <3> QED BY <2>0, <2>1, <3>2, <3>3, <3>4, Zenon DEF KernelInv, Loaded
  <2>2. CASE opt.arch = "arm64" /\ ImageAccepted(opt.kernel)
               /\ Copy([kernel |-> ArmFile(opt.kernel)], "initrd")
    <3>1. Inside(ArmFile(opt.kernel), Ram("arm64")) => ArmFile(opt.kernel) # Nowhere
      BY Fields, SMTT(30)
    <3> DEFINE objs == [kernel |-> ArmFile(opt.kernel)]
    <3>2. DOMAIN objs = {"kernel"} /\ objs["kernel"] = ArmFile(opt.kernel) /\ Copy(objs, "initrd")
      BY <2>2, Zenon
    <3> HIDE DEF objs
    <3>5. \A o \in {"params", "cmdline", "fdt"} : place'[o] = place[o]
      BY <3>2, <1>p, Copied, ZenonT(60)
    <3>3. \/ /\ place'["kernel"] = ArmFile(opt.kernel) /\ pc' = "initrd"
             /\ Inside(ArmFile(opt.kernel), Ram(opt.arch))
          \/ place' = place /\ pc' = pc
      <4>1. \/ /\ \A o \in DOMAIN objs : Inside(objs[o], Ram(opt.arch))
               /\ \A o \in Objects \cap DOMAIN objs : place'[o] = objs[o]
               /\ pc' = "initrd"
            \/ place' = place /\ pc' = pc
        BY <3>2, Copied, Zenon
      <4>2. "kernel" \in Objects
        BY <1>p, Zenon
      <4> QED BY <3>2, <4>1, <4>2, Zenon
    <3>4. CASE place' = place /\ pc' = pc
      BY <1>1, <2>0, <3>4, Zenon
    <3> QED BY <2>0, <2>2, <3>1, <3>3, <3>4, <3>5, Zenon DEF KernelInv, Loaded
  <2>3. CASE UNCHANGED place /\ (opt.kernel.file # "ok" \/ pc' = pc)
    BY <2>0, <2>3, Zenon DEF KernelInv, Loaded
  <2> QED BY <1>6, <2>1, <2>2, <2>3, Zenon DEF LoadImage, Fails, End
<1> QED BY <1>2, <1>3, <1>4, <1>5, <1>6, Zenon

(* Where the initrd is.                                                    *)
LEMMA InitrdStep == TypeOK /\ InitrdInv /\ SearchInv /\ [Next]_vars => InitrdInv'
<1> SUFFICES ASSUME TypeOK, InitrdInv, SearchInv, [Next]_vars PROVE InitrdInv'
    BY Zenon
<1> USE LoadOrder
<1>a. opt.arch \in {"x86", "arm64"} /\ "initrd" \in Objects
  BY Options, Zenon DEF Objects
<1>1. CASE /\ opt' = opt /\ addr' = addr /\ place'["initrd"] = place["initrd"]
           /\ \/ pc' \in PreKernel \cup {"initrd", "search"} /\ pc \in PreKernel \cup {"initrd", "search"}
              \/ pc' \notin PreKernel \cup {"initrd", "search"} /\ pc \notin PreKernel \cup {"initrd", "search"}
  BY <1>1, Zenon DEF InitrdInv
<1>2. CASE ~SetUp
  BY <1>1, <1>2, Outside, Zenon
<1>3. CASE SetUp /\ ~LoadImage /\ ~LoadInitrd /\ ~SearchInitrd /\ ~LateInit
  BY <1>1, <1>3, NotLoading, Zenon
<1>4. CASE LateInit
  <2>1. opt' = opt /\ addr' = addr /\ pc = "late" /\ pc' \in Final \cup {"late", "init_reg"}
    BY <1>4, Zenon DEF LateInit, At, Goto, Fails, End, Final
  <2>2. place'["initrd"] = place["initrd"]
    BY <1>4, <1>a, Zenon DEF LateInit, TypeOK
  <2> QED BY <1>1, <2>1, <2>2, Zenon
<1>5. CASE LoadImage
  <2>1. opt' = opt /\ addr' = addr /\ pc = "kernel"
    BY <1>5, Zenon DEF LoadImage, At
  <2>2. pc' \in {"kernel", "initrd"}
    BY <1>5, <2>1, Zenon DEF LoadImage, Copy, Goto, Fails, End
  <2>3. place'["initrd"] = place["initrd"]
    <3>1. CASE Copy(X86Image(opt.kernel), "initrd")
      <4>1. "initrd" \notin DOMAIN X86Image(opt.kernel)
        BY Zenon DEF X86Image
      <4> QED BY <3>1, <4>1, <1>a, Copied, Zenon
    <3>2. CASE Copy([kernel |-> ArmFile(opt.kernel)], "initrd")
      BY <3>2, <1>a, Copied
    <3> QED BY <1>5, <3>1, <3>2, Zenon DEF LoadImage
  <2> QED BY <1>1, <2>1, <2>2, <2>3, Zenon
<1>6. ASSUME NEW base \in Nat, Copy([initrd |-> Region(base, opt.initrd.size)], "disk"),
             opt.initrd.file = "ok", opt' = opt, addr' = addr,
             pc \in {"initrd", "search"},
             opt.arch = "x86" => base = addr /\ addr >= MB /\ addr < RoomBelow(opt.initrd.size),
             opt.arch = "arm64" => base = ARM_INITRD_BASE
      PROVE  InitrdInv'
  <2> DEFINE objs == [initrd |-> Region(base, opt.initrd.size)]
  <2>1. DOMAIN objs = {"initrd"} /\ objs["initrd"] = Region(base, opt.initrd.size)
    BY Zenon
  <2>2. Copy(objs, "disk")
    BY <1>6, Zenon
  <2> HIDE DEF objs
  <2>3. \/ /\ Inside(Region(base, opt.initrd.size), Ram(opt.arch))
           /\ place'["initrd"] = Region(base, opt.initrd.size) /\ pc' = "disk"
        \/ place' = place /\ pc' = pc
    BY <2>1, <2>2, <1>a, Copied, SMTT(60)
  <2>4. CASE place' = place /\ pc' = pc
    BY <1>1, <1>6, <2>4, Zenon
  <2>5. CASE /\ Inside(Region(base, opt.initrd.size), Ram(opt.arch))
             /\ place'["initrd"] = Region(base, opt.initrd.size) /\ pc' = "disk"
    BY <1>a, <1>6, <2>5, Zenon DEF InitrdInv
  <2> QED BY <2>3, <2>4, <2>5, Zenon
<1>7. CASE LoadInitrd
  <2>1. opt' = opt /\ pc = "initrd" /\ place["initrd"] = Nowhere
    BY <1>7, Zenon DEF LoadInitrd, At, InitrdInv
  <2>2. CASE opt.initrd.file # "ok" /\ UNCHANGED <<addr, place>>
    BY <2>1, <2>2, Zenon DEF InitrdInv
  <2>3. CASE pc' = "search" /\ UNCHANGED place
    BY <2>1, <2>3, Zenon DEF InitrdInv
  <2>5. CASE UNCHANGED <<addr, place>> /\ pc' = pc
    BY <1>1, <2>1, <2>5, Zenon
  <2>4. CASE /\ opt.initrd.file = "ok" /\ opt.arch = "arm64" /\ UNCHANGED addr
             /\ Copy([initrd |-> Region(ARM_INITRD_BASE, opt.initrd.size)], "disk")
    <3>1. ARM_INITRD_BASE \in Nat
      BY DEF ARM_INITRD_BASE, ARM_KERNEL_BASE, ARM_KERNEL_SIZE
    <3> QED BY <1>6, <2>1, <2>4, <3>1, ZenonT(60)
  <2> QED BY <1>7, <2>2, <2>3, <2>4, <2>5, Zenon DEF LoadInitrd, CopyInitrd, Goto, End
<1>8. CASE SearchInitrd
  <2>1. opt' = opt /\ pc = "search" /\ place["initrd"] = Nowhere
    BY <1>8, Zenon DEF SearchInitrd, At, InitrdInv
  <2>2. CASE pc' = "search" /\ UNCHANGED place
    BY <2>1, <2>2, Zenon DEF InitrdInv
  <2>3. CASE /\ Copy([initrd |-> Region(addr, opt.initrd.size)], "disk") /\ UNCHANGED addr
             /\ ~(addr < MB) /\ addr < RoomBelow(opt.initrd.size)
    <3>1. addr \in Nat /\ addr >= MB
      BY <2>3 DEF TypeOK, MB
    <3> QED BY <1>6, <2>1, <2>3, <3>1, Zenon DEF SearchInv
  <2> QED BY <1>8, <2>1, <2>2, <2>3, Zenon DEF SearchInitrd, CopyInitrd, Goto, Fails, End
<1> QED BY <1>2, <1>3, <1>4, <1>5, <1>7, <1>8, Zenon

(* The megabytes the search goes through.                                  *)
LEMMA Megabytes ==
    ASSUME NEW max \in Nat
    PROVE  /\ InitrdTop(max) % MB = 0 /\ InitrdTop(max) <= max /\ InitrdTop(max) \in Nat
           /\ \A m \in 1 .. (max \div MB) : MB * m <= InitrdTop(max) /\ (MB * m) % MB = 0
<1>1. max \div 16 \in Nat /\ max % 16 \in 0 .. 15 /\ max = 16 * (max \div 16) + (max % 16)
  OBVIOUS
<1>2. InitrdTop(max) = 16 * (max \div 16)
  BY <1>1 DEF InitrdTop, MB
<1> QED BY <1>1, <1>2 DEF MB

(* The search leaves no candidate behind that fits.                        *)
LEMMA SearchStep == TypeOK /\ SearchInv /\ [Next]_vars => SearchInv'
<1> SUFFICES ASSUME TypeOK, SearchInv, [Next]_vars PROVE SearchInv'
    BY Zenon
<1> USE LoadOrder
<1>a. /\ opt.arch \in {"x86", "arm64"} /\ "params" \in Objects \ {"initrd", "fdt"} /\ addr \in Nat
      /\ opt.kernel.max \in Nat /\ opt.initrd.size \in Nat
  BY Options, Zenon DEF Objects, TypeOK, KernelFiles, InitrdFiles
<1>1. CASE /\ opt' = opt /\ addr' = addr /\ place'["params"] = place["params"]
           /\ pc' = "search" => pc = "search" /\ (result' = "error" => result = "error" \/ addr < MB)
           /\ pc' \in PreKernel \cup {"initrd"} \/ pc \notin PreKernel \cup {"initrd"}
  BY <1>1, Zenon DEF SearchInv, Loaded, Candidates, Fits
<1>2. CASE ~SetUp
  BY <1>1, <1>2, Outside, Zenon
<1>3. CASE SetUp /\ ~LoadImage /\ ~LoadInitrd /\ ~SearchInitrd /\ ~LateInit
  BY <1>1, <1>3, NotLoading, Zenon
<1>4. CASE LateInit
  <2>1. opt' = opt /\ addr' = addr /\ pc = "late" /\ pc' \in Final \cup {"late", "init_reg"}
    BY <1>4, Zenon DEF LateInit, At, Goto, Fails, End, Final
  <2>2. place'["params"] = place["params"]
    BY <1>4, <1>a, Zenon DEF LateInit, TypeOK
  <2> QED BY <1>1, <2>1, <2>2, Zenon
<1>5. CASE LoadImage
  <2>1. pc' \in {"kernel", "initrd"}
    BY <1>5, Zenon DEF LoadImage, Copy, At, Goto, Fails, End
  <2> QED BY <2>1, Zenon DEF SearchInv
<1>6. CASE LoadInitrd
  <2>1. opt' = opt /\ pc = "initrd" /\ place'["params"] = place["params"] /\ result = "running"
    BY <1>6, <1>a, InitrdOnly, Zenon DEF LoadInitrd, At, Running
  <2>2. CASE opt.initrd.file # "ok" \/ opt.arch = "arm64"
    <3>1. pc' # "search"
      BY <1>6, <2>1, <2>2, <1>a, Zenon DEF LoadInitrd, CopyInitrd, Copy, Goto, End
    <3> QED BY <2>1, <2>2, <3>1, Zenon DEF SearchInv
  <2>3. CASE /\ opt.initrd.file = "ok" /\ opt.arch = "x86" /\ pc' = "search" /\ result' = result
             /\ addr' = IF Loaded("params") THEN InitrdTop(opt.kernel.max) ELSE 0
    <3>1. Loaded("params")' = Loaded("params") /\ Candidates' = Candidates
            /\ \A c : Fits(c)' = Fits(c)
      BY <2>1, Zenon DEF Loaded, Candidates, Fits
    <3>2. ASSUME Loaded("params"), NEW c \in Candidates, c > addr' PROVE FALSE
      BY <2>3, <3>2, <1>a, Megabytes DEF Candidates, MB
    <3> QED BY <2>1, <2>3, <3>1, <3>2, <1>a, Megabytes, Zenon DEF SearchInv
  <2> QED BY <1>6, <2>2, <2>3, Zenon DEF LoadInitrd, Goto
<1>7. CASE SearchInitrd
  <2>1. opt' = opt /\ pc = "search" /\ place'["params"] = place["params"] /\ result = "running"
    BY <1>7, <1>a, InitrdOnly, Zenon DEF SearchInitrd, At, Running
  <2>2. CASE addr < MB /\ pc' = pc /\ result' = "error" /\ addr' = addr
    BY <1>1, <2>1, <2>2, Zenon
  <2>3. CASE CopyInitrd(addr) /\ addr' = addr
    <3>1. result' # "error"
      BY <2>1, <2>3, Zenon DEF CopyInitrd, Copy, Goto, End
    <3>2. pc' \in {"search", "disk"}
      BY <2>1, <2>3, Zenon DEF CopyInitrd, Copy, Goto, End
    <3> QED BY <1>1, <2>1, <2>3, <3>1, <3>2, Zenon
  <2>4. CASE /\ ~(addr < MB) /\ ~(addr < RoomBelow(opt.initrd.size))
             /\ addr' = addr - MB /\ pc' = "search" /\ result' = result
    <3>1. Loaded("params")' = Loaded("params") /\ Candidates' = Candidates
            /\ \A c : Fits(c)' = Fits(c)
      BY <2>1, Zenon DEF Loaded, Candidates, Fits
    <3>2. addr >= 16 /\ addr' = addr - 16
      BY <2>4, <1>a DEF MB
    <3>3. Loaded("params") => addr' % MB = 0 /\ addr' <= opt.kernel.max
      <4>1. Loaded("params") => addr % 16 = 0 /\ addr <= opt.kernel.max
        BY <2>1, Zenon DEF SearchInv, MB
      <4> QED BY <4>1, <3>2, <1>a DEF MB
    <3>4. ASSUME Loaded("params"), opt.initrd.size <= RAM_SIZE, NEW c \in Candidates, c > addr'
          PROVE  ~Fits(c)
      <4>1. c \in Nat /\ c % 16 = 0
        <5>1. PICK m \in 1 .. (opt.kernel.max \div MB) : c = MB * m
          BY Zenon DEF Candidates
        <5> QED BY <5>1, <1>a, Megabytes DEF MB
      <4>2. addr % 16 = 0 /\ (c > addr => ~Fits(c))
        BY <2>1, <3>4, Zenon DEF SearchInv, MB
      <4>3. c = addr \/ c > addr
        BY <4>1, <4>2, <3>2, <3>4, <1>a, SMTT(60)
      <4>4. ~Fits(addr)
        BY <2>4, <3>4, <1>a DEF Fits, RoomBelow, RAM_SIZE
      <4> QED BY <4>2, <4>3, <4>4, Zenon
    <3> QED BY <2>1, <2>4, <3>1, <3>3, <3>4, Zenon DEF SearchInv
  <2> QED BY <1>7, <2>2, <2>3, <2>4, Zenon DEF SearchInitrd, Goto, Fails, End
<1> QED BY <1>2, <1>3, <1>4, <1>5, <1>6, <1>7, Zenon

(* arm64: the interrupt controller, the device tree and the registers.     *)
LEMMA MachineStep == TypeOK /\ InitrdInv /\ MachineInv /\ [Next]_vars => MachineInv'
<1> SUFFICES ASSUME TypeOK, InitrdInv, MachineInv, [Next]_vars PROVE MachineInv'
    BY Zenon
<1> USE LoadOrder DEF At, Goto, Fails, End, machine, memory
<1>a. opt.arch \in {"x86", "arm64"} /\ opt.initrd.size \in Nat /\ {"initrd", "fdt"} \subseteq Objects
  BY Options, Zenon DEF Objects, InitrdFiles
<1>1. CASE /\ UNCHANGED <<opt, gic, regs, fdt>> /\ (pc' \notin Early \cup {"gic"} => pc \notin Early \cup {"gic"})
           /\ pc' \in Final => pc \in Final \/ opt.arch = "x86"
           /\ pc' \in Final \cup {"init_reg"} =>
                 \/ opt.arch = "x86"
                 \/ pc \in Final \cup {"init_reg"} /\ UNCHANGED <<place, pci>>
  BY <1>1, <1>a, ZenonT(60) DEF MachineInv, HasDev, SlotOf
<1>2. CASE ~SetUp
  BY <1>1, <1>2, Outside, Zenon
<1>3. CASE Start \/ Mmap \/ SetRegion \/ Open("kvm", "kvm", "vm") \/ Open("vm", "vm", "arch")
             \/ Open("vcpu", "vcpu", "cpu")
  <2>1. UNCHANGED <<opt, gic, regs, fdt>> /\ pc \in Early /\ pc' \in Early
    <3>1. UNCHANGED <<opt, gic, regs, fdt>>
      BY <1>3, Zenon DEF Start, Mmap, SetRegion, Open
    <3>2. pc \in Early /\ pc' \in Early
      BY <1>3, Zenon DEF Start, Mmap, SetRegion, Open, Early
    <3> QED BY <3>1, <3>2, Zenon
  <2> QED BY <1>1, <2>1, Zenon
<1>4. CASE ArchInit
  <2>1. gic'.made = gic'.type
    <3>1. gic' = gic \/ \E g \in {"v3", "v2"} : gic' = [made |-> g, type |-> g, ready |-> FALSE]
      BY <1>4, Zenon DEF ArchInit, CreateIrqchip
    <3> QED BY <3>1, SMTT(30) DEF MachineInv
  <2>2. pc' \in Early
    BY <1>4, Zenon DEF ArchInit, Early
  <2> QED BY <2>1, <2>2, Zenon DEF MachineInv
<1>5. CASE CpuInit \/ PlatformInit
  <2>1. gic' = gic /\ pc' \in Early \cup {"gic", "kernel"} /\ opt' = opt
          /\ (pc' = "kernel" => opt.arch = "x86")
    BY <1>5, Zenon DEF CpuInit, PlatformInit, Early
  <2> QED BY <2>1, Zenon DEF MachineInv
<1>6. CASE FinalizeIrqchip
  <2>1. gic'.made = gic.made /\ gic'.type = gic.type /\ pc' \in {"gic", "kernel"}
          /\ (pc' = "kernel" => gic'.ready)
    BY <1>6, Zenon DEF FinalizeIrqchip, TypeOK, GicStates
  <2> QED BY <2>1, Zenon DEF MachineInv
<1>7. CASE LoadImage \/ LoadInitrd \/ SearchInitrd \/ LoadDisk \/ OpenTap \/ InitNet
             \/ SetUpTap("tunsetiff", "nonblock") \/ SetUpTap("nonblock", "netpci")
  <2>1. UNCHANGED <<opt, gic, regs, fdt>>
    BY <1>7, Zenon DEF LoadImage, LoadInitrd, SearchInitrd, LoadDisk, OpenTap, InitNet, SetUpTap
  <2>2. pc \in TapPcs \cup {"kernel", "initrd", "search", "disk", "tap"}
          /\ pc' \in TapPcs \cup {"kernel", "initrd", "search", "disk", "tap", "late"}
    BY <1>7, Zenon DEF LoadImage, LoadInitrd, SearchInitrd, LoadDisk, OpenTap, InitNet, SetUpTap, Copy,
                CopyInitrd, TapPcs
  <2> QED BY <1>1, <2>1, <2>2, Zenon DEF TapPcs, Early
<1>8. CASE LateInit
  <2>1. UNCHANGED <<opt, gic, regs, pci>> /\ pc = "late"
    BY <1>8, Zenon DEF LateInit
  <2>2. CASE pc' = "late"
    BY <2>1, <2>2, Zenon DEF MachineInv, Early
  <2>3. CASE opt.arch = "x86"
    BY <2>1, <2>3, Zenon DEF MachineInv
  <2>4. CASE opt.arch = "arm64" /\ pc' = "init_reg"
    <3>1. /\ fdt' = [made |-> TRUE, gic |-> gic.type,
                     initrd |-> IF Loaded("initrd") /\ opt.initrd.size > 0
                                  THEN Region(ARM_INITRD_BASE, opt.initrd.size) ELSE Nowhere,
                     slot |-> IF HasDev("blk") THEN SlotOf("blk") ELSE 0]
          /\ place' = [place EXCEPT !["fdt"] = Region(ARM_FDT_BASE, FDT_MAX_SIZE)]
      BY <1>8, <2>4, <2>1, Zenon DEF LateInit
    <3>2. place'["fdt"] = Region(ARM_FDT_BASE, FDT_MAX_SIZE) /\ place'["initrd"] = place["initrd"]
      BY <3>1, <1>a, ZenonT(60) DEF TypeOK
    <3>3. Region(ARM_INITRD_BASE, opt.initrd.size) # Nowhere
      BY <1>a DEF Region, Nowhere, ARM_INITRD_BASE, ARM_KERNEL_BASE, ARM_KERNEL_SIZE
    <3>4. fdt'.initrd = IF opt.initrd.size > 0 THEN place'["initrd"] ELSE Nowhere
      BY <2>1, <2>4, <3>1, <3>2, <3>3, Zenon DEF InitrdInv, Loaded
    <3>5. HasDev("blk")' => fdt'.slot = SlotOf("blk")'
      BY <2>1, <3>1, Zenon DEF HasDev, SlotOf
    <3>6. fdt'.made /\ fdt'.gic = gic.type
      BY <3>1, Zenon
    <3> QED BY <2>1, <2>4, <3>2, <3>4, <3>5, <3>6, Zenon DEF MachineInv, Early
  <2> QED BY <1>8, <1>a, <2>1, <2>2, <2>3, <2>4, Zenon DEF LateInit
<1>9. CASE InitReg
  <2>1. UNCHANGED <<opt, gic, fdt, place, pci>> /\ pc = "init_reg"
    BY <1>9, Zenon DEF InitReg
  <2>2. pc' = "init_reg" \/ (pc' = "run" /\ regs' = "boot")
    BY <1>9, <2>1, Zenon DEF InitReg
  <2> QED BY <2>1, <2>2, Zenon DEF MachineInv, HasDev, SlotOf, Early
<1> QED BY <1>2, <1>3, <1>4, <1>5, <1>6, <1>7, <1>8, <1>9, Zenon DEF SetUp, Early

(* Segmentation faults: copies during the set-up, the join of a thread     *)
(* that was never created, a signal to one, the mapping of kvm_run, and a  *)
(* network thread after munmap.                                            *)
LEMMA FaultStep ==
    TypeOK /\ FdsInv /\ ThreadInv /\ BlkInv /\ FaultOnlyAtTheEnd /\ [Next]_vars => FaultOnlyAtTheEnd'
<1> SUFFICES ASSUME TypeOK, FdsInv, ThreadInv, BlkInv, FaultOnlyAtTheEnd, [Next]_vars
             PROVE  FaultOnlyAtTheEnd'
    BY Zenon
<1> USE DEF Running, At, Goto, Fails, End, machine, threads
<1>1. CASE UNCHANGED vars
  BY <1>1, Zenon DEF vars, FaultOnlyAtTheEnd, Alive
<1>2. CASE result' # "segv"
  BY <1>2, Zenon DEF FaultOnlyAtTheEnd
<1>3. CASE SetUp /\ result' = "segv"
  <2>1. pc' = pc /\ th' = th /\ pc \in {"kernel", "initrd", "search"}
    BY <1>3, Zenon DEF SetUp, Start, Open, ArchInit, Mmap, SetRegion, CpuInit, PlatformInit,
        FinalizeIrqchip, LoadImage, LoadInitrd, SearchInitrd, LoadDisk, OpenTap, InitNet,
        SetUpTap, LateInit, InitReg, Copy, CopyInitrd
  <2>2. th["rx"] = "none" /\ th["tx"] = "none"
    BY <2>1, Zenon DEF ThreadInv, SetUpPcs, PreDisk, PreKernel
  <2> QED BY <2>1, <2>2, Zenon DEF FaultOnlyAtTheEnd, Alive, NetThreads
<1>4. CASE TearDown /\ result' = "segv"
  <2>1. th' = th /\ \/ pc' = "blk_join" /\ th["avail"] \in {"none", "failed"}
                    \/ pc' = "serial_join" /\ th["serial"] = "failed"
    BY <1>4, Zenon DEF TearDown, SerialExit, SerialJoin, BlkExit, BlkJoinUnknown, CloseFds, Munmap, Return
  <2> QED BY <2>1, Zenon DEF FaultOnlyAtTheEnd
<1>5. ASSUME NEW t \in NetThreads, NetThread(t)
      PROVE  FaultOnlyAtTheEnd'
  <2>1. UNCHANGED <<pc, th, fds>> /\ th[t] = "loop" /\ ~ram
    BY <1>5, Zenon DEF NetThread
  <2>2. pc \notin SetUpPcs
    BY <2>1, Zenon DEF ThreadInv, NetThreads
  <2>3. pc = "return"
    BY <2>1, <2>2, Zenon DEF FdsInv, SetUpPcs, PreDisk, PreKernel
  <2>4. fds \cap {"kvm", "vm", "vcpu", "disk"} = {}
    <3>2. "disk" \notin fds
      BY <2>3, Zenon DEF BlkInv, Past
    <3>3. fds \cap {"kvm", "vm", "vcpu"} = {}
      BY <2>3, Zenon DEF FdsInv
    <3> QED BY <3>2, <3>3, Zenon
  <2> QED BY <2>1, <2>3, <2>4, Zenon DEF FaultOnlyAtTheEnd
<1>7. CASE RunUnmapped
  BY <1>7, Zenon DEF RunUnmapped, FaultOnlyAtTheEnd, Alive, NetThreads
<1>8. CASE BlkKill /\ result' = "segv"
  BY <1>8, Zenon DEF BlkKill, FaultOnlyAtTheEnd
<1>6. CASE (Guest /\ ~RunUnmapped) \/ SerialThread \/ SpuriousWakeup \/ TypeKey \/ BlkCheck
             \/ BlkPoll \/ BlkKillNobody \/ AvailRead \/ AvailServe
  <2>1. result' # "segv"
    BY <1>6, Zenon DEF Guest, EnableQueue, ThreadStep, KickBlk, ReadRx, RunReturns, SerialThread,
        SerialCheck, SerialPoll, SerialConsole, SerialIrq, SpuriousWakeup, TypeKey, BlkCheck,
        BlkPoll, BlkKillNobody, AvailRead, AvailServe
  <2> QED BY <1>2, <2>1, Zenon
<1> QED BY <1>1, <1>2, <1>3, <1>4, <1>5, <1>6, <1>7, <1>8, Zenon DEF Next

-----------------------------------------------------------------------------
Inv ==
    /\ TypeOK /\ PciPhase /\ FdsInv /\ ThreadInv /\ BlkInv /\ NetInv
    /\ KernelInv /\ InitrdInv /\ SearchInv /\ MachineInv /\ FaultOnlyAtTheEnd

(* The invariant holds from the start of main, whatever the kernel, the    *)
(* files, the guest and the threads do.                                    *)
THEOREM Inductive == Spec => []Inv
<1>1. Init => Inv
  <2> SUFFICES ASSUME Init PROVE Inv
      BY Zenon
  <2> USE DEF Init
  <2>1. TypeOK
    <3>1. NoGic \in GicStates
      BY Zenon DEF NoGic, GicStates, Gics
    <3>2. Nowhere \in Regions
      BY Zenon DEF Nowhere, Region, Regions
    <3>3. NoFdt \in Fdts
      BY <3>2 DEF NoFdt, Fdts, Gics
    <3>4. pci \in Seq({"blk", "net"}) /\ Len(pci) <= 2
      OBVIOUS
    <3>5. ram \in BOOLEAN /\ enable \in BOOLEAN /\ ev \in BOOLEAN /\ input \in BOOLEAN /\ full \in BOOLEAN
      BY Zenon
    <3>6. place \in [Objects -> Regions] /\ th \in [Threads -> ThreadPcs] /\ addr \in Nat
      BY <3>2, Zenon DEF ThreadPcs
    <3> QED BY <3>1, <3>3, <3>4, <3>5, <3>6, Zenon DEF TypeOK, Pcs
  <2>2. ~HasDev("blk") /\ ~HasDev("net") /\ Len(pci) = 0
    BY DEF HasDev
  <2>3. PciPhase /\ FdsInv
    BY <2>2 DEF PciPhase, FdsInv, Early, Past
  <2>4. ThreadInv
    BY <2>2, Zenon DEF ThreadInv, Early, Joined, Past, Alive, Threads, NetThreads
  <2>5. BlkInv /\ NetInv
    BY <2>2, Zenon DEF BlkInv, NetInv, Past, PreDisk, PreKernel, Early, TapPcs
  <2>6. KernelInv /\ InitrdInv /\ SearchInv /\ MachineInv
    BY Zenon DEF KernelInv, InitrdInv, SearchInv, MachineInv, Objects, Loaded, NoGic, PreKernel, Early,
           Final, Joined
  <2>7. FaultOnlyAtTheEnd
    BY Zenon DEF FaultOnlyAtTheEnd
  <2> QED BY <2>1, <2>3, <2>4, <2>5, <2>6, <2>7, Zenon DEF Inv
<1>2. Inv /\ [Next]_vars => Inv'
  BY TypeStep, PciStep, FdsStep, ThreadInvStep, DeviceStep, KernelStep, InitrdStep, SearchStep,
     MachineStep, FaultStep, Zenon DEF Inv
<1> QED BY <1>1, <1>2, PTL DEF Spec

(* Type correctness.                                                       *)
THEOREM TypeCorrect == Spec => []TypeOK
<1>1. Inv => TypeOK
  BY Zenon DEF Inv
<1> QED BY <1>1, Inductive, PTL

(* vm_run is entered only on a complete machine, whatever failed before.   *)
THEOREM GuestIsReady == Spec => []GuestReady
<1>1. Inv => GuestReady
  <2> SUFFICES ASSUME Inv, At("run") PROVE GuestReady
      BY Zenon DEF GuestReady
  <2>1. pc = "run" /\ pc \in Final /\ pc \notin PreKernel \cup {"initrd", "search"}
          /\ pc \notin Early \cup {"gic", "munmap", "return", "close"}
    BY Zenon DEF At, Final, PreKernel, Early
  <2>2. {"kvm", "vm", "vcpu"} \subseteq fds /\ ram
    BY <2>1, Zenon DEF Inv, FdsInv, Past
  <2>4. opt.kernel.file = "ok" => Loaded("kernel")
    BY <2>1, Zenon DEF Inv, KernelInv
  <2>5. opt.initrd.file = "ok" /\ opt.initrd.size > 0 => Loaded("initrd")
    <3>1. opt.initrd.size \in Nat
      BY Options, Zenon DEF Inv, InitrdFiles
    <3>2. opt.initrd.file = "ok" => \E lo : place["initrd"] = Region(lo, opt.initrd.size)
      BY <2>1, Zenon DEF Inv, InitrdInv
    <3> QED BY <3>1, <3>2, Fields, SMTT(30) DEF Loaded
  <2>6. opt.arch = "x86" => (Loaded("kernel") <=> Loaded("params"))
    <3>1. X86Image(opt.kernel).kernel # Nowhere /\ X86Image(opt.kernel).params # Nowhere
      <4>1. X86Image(opt.kernel).kernel = Region(MB, (opt.kernel.size - opt.kernel.setup) % SIZE_MOD)
              /\ X86Image(opt.kernel).params = Region(1, 1)
        BY ZenonT(60) DEF X86Image, BootParams
      <4>2. X86Image(opt.kernel).kernel.lo = 16 /\ X86Image(opt.kernel).params.lo = 1
        BY <4>1, Fields DEF MB
      <4> QED BY <4>2, Fields
    <3> QED BY <3>1, ZenonT(60) DEF Inv, KernelInv, Loaded
  <2>7. opt.arch = "x86" => (enable <=> HasDev("blk"))
    BY Zenon DEF Inv, BlkInv
  <2>8. opt.arch = "arm64" => gic.ready /\ regs = "boot" /\ fdt.made
    BY <2>1, Zenon DEF Inv, MachineInv
  <2> QED BY <2>2, <2>4, <2>5, <2>6, <2>7, <2>8, Zenon DEF GuestReady
<1> QED BY <1>1, Inductive, PTL

(* vm_exit closes and unmaps nothing a serial or block thread still uses.  *)
THEOREM ResourcesDoOutlive == Spec => []ResourcesOutlive
<1>1. Inv => ResourcesOutlive
  <2> SUFFICES ASSUME Inv PROVE ResourcesOutlive
      BY Zenon
  <2>1. Alive("serial") => pc \notin Early \cup Joined
    BY Zenon DEF Inv, ThreadInv, Alive
  <2>2. Alive("serial") => "vm" \in fds
    BY <2>1, Zenon DEF Inv, FdsInv, Early, Joined, Past
  <2>3. Alive("avail") => HasDev("blk") /\ pc \notin SetUpPcs \cup Past
    BY Zenon DEF Inv, ThreadInv, Alive
  <2>4. Alive("avail") => "disk" \in fds
    BY <2>3, Zenon DEF Inv, BlkInv
  <2>5. Alive("avail") => ram
    BY <2>3, Zenon DEF Inv, FdsInv, SetUpPcs, PreDisk, PreKernel, Past
  <2> QED BY <2>2, <2>4, <2>5, Zenon DEF ResourcesOutlive
<1> QED BY <1>1, Inductive, PTL

(* A network thread faults only when nothing of the VM is left.            *)
THEOREM FaultsAtTheEnd == Spec => []FaultOnlyAtTheEnd
<1>1. Inv => FaultOnlyAtTheEnd
  BY Zenon DEF Inv
<1> QED BY <1>1, Inductive, PTL

(* vm_enable_net gives a whole device or none.                             *)
THEOREM NetIsComplete == Spec => []NetComplete
<1>1. Inv => NetComplete
  <2> SUFFICES ASSUME Inv, pc \in {"late", "run"}
               PROVE  "tap" \in fds <=> HasDev("net")
      BY Zenon DEF NetComplete
  <2>1. pc \notin TapPcs \cup Past
    BY Zenon DEF TapPcs, Past
  <2> QED BY <2>1, Zenon DEF Inv, NetInv
<1> QED BY <1>1, Inductive, PTL

(* The x86 search finds the highest place for the initrd, or there is none.*)
THEOREM InitrdIsHighest == Spec => []InitrdHighest
<1>1. Inv => InitrdHighest
  <2> SUFFICES ASSUME Inv, opt.arch = "x86", opt.initrd.size <= RAM_SIZE, Loaded("params")
               PROVE  /\ At("disk") /\ Loaded("initrd") =>
                            /\ place["initrd"].lo \in Candidates /\ Fits(place["initrd"].lo)
                            /\ \A a \in Candidates : Fits(a) => a <= place["initrd"].lo
                      /\ pc = "search" /\ result = "error" => \A a \in Candidates : ~Fits(a)
      BY Zenon DEF InitrdHighest
  <2>0. addr \in Nat /\ opt.kernel.max \in Nat /\ opt.initrd.size \in Nat
    BY Options, Zenon DEF Inv, TypeOK, KernelFiles, InitrdFiles
  <2>c. \A a \in Candidates : a \in Nat /\ a >= MB
    BY <2>0 DEF Candidates, MB
  <2>1. ASSUME At("disk"), Loaded("initrd")
        PROVE  /\ place["initrd"].lo \in Candidates /\ Fits(place["initrd"].lo)
               /\ \A a \in Candidates : Fits(a) => a <= place["initrd"].lo
    <3>1. pc \notin PreKernel \cup {"initrd", "search"}
      BY <2>1, ZenonT(60) DEF At, PreKernel, Early
    <3>2. opt.initrd.file = "ok" /\ place["initrd"].lo = addr /\ addr >= MB
            /\ addr < RoomBelow(opt.initrd.size)
      <4>1. opt.initrd.file = "ok"
        BY <2>1, <3>1, Zenon DEF Inv, InitrdInv, Loaded
      <4>2. place["initrd"] = Region(addr, opt.initrd.size) /\ addr >= MB
              /\ addr < RoomBelow(opt.initrd.size)
        BY <3>1, <4>1, Zenon DEF Inv, InitrdInv
      <4> QED BY <4>1, <4>2, Fields, SMTT(60)
    <3>3. addr % MB = 0 /\ addr <= opt.kernel.max /\ \A a \in Candidates : a > addr => ~Fits(a)
      BY <3>1, <3>2, Zenon DEF Inv, SearchInv
    <3>4. addr \in Candidates
      <4>1. addr = 16 * (addr \div 16) /\ addr \div 16 \in 1 .. (opt.kernel.max \div 16)
        BY <2>0, <3>2, <3>3 DEF MB
      <4> QED BY <4>1, Zenon DEF Candidates, MB
    <3>5. Fits(addr)
      BY <2>0, <3>2 DEF Fits, RoomBelow, RAM_SIZE
    <3>6. \A a \in Candidates : Fits(a) => a <= addr
      BY <2>0, <2>c, <3>3
    <3> QED BY <3>2, <3>4, <3>5, <3>6, Zenon
  <2>2. ASSUME pc = "search", result = "error", NEW a \in Candidates PROVE ~Fits(a)
    <3>1. addr < MB
      BY <2>2, Zenon DEF Inv, SearchInv
    <3>2. a > addr
      BY <2>0, <2>c, <3>1 DEF MB
    <3>3. pc \notin PreKernel \cup {"initrd"}
      BY <2>2, Zenon DEF PreKernel, Early
    <3> QED BY <2>2, <3>2, <3>3, Zenon DEF Inv, SearchInv
  <2> QED BY <2>1, <2>2, Zenon
<1> QED BY <1>1, Inductive, PTL

(* arm64: the device tree describes the machine that was built.            *)
THEOREM FdtIsTrue == Spec => []FdtTrue
<1>1. Inv => FdtTrue
  BY Zenon DEF Inv, FdtTrue, MachineInv, At, Final
<1> QED BY <1>1, Inductive, PTL

(* Nothing in guest memory overlaps, if the files fit.                     *)
THEOREM LayoutIsSound == Spec => []LayoutSound
<1>1. Inv => LayoutSound
  <2> SUFFICES ASSUME Inv, At("run"), FilesFit
               PROVE  /\ \A o \in Objects : Loaded(o) => Inside(place[o], Ram(opt.arch))
                      /\ \A o, p \in Objects : o # p => Disjoint(place[o], place[p])
                      /\ opt.arch = "x86" /\ Loaded("initrd") => Inside(place["initrd"], E820High)
                      /\ opt.arch = "arm64" /\ Loaded("kernel") =>
                            /\ Inside(place["kernel"], ArmKernelArea)
                            /\ TextOffset(opt.kernel) + opt.kernel.image_size < SIZE_MOD =>
                                  Inside(ArmImage(opt.kernel), ArmKernelArea)
      BY Zenon DEF LayoutSound
  <2>0. /\ opt.arch \in {"x86", "arm64"} /\ addr \in Nat /\ opt.initrd.size \in Nat
        /\ opt.kernel.size \in Nat /\ opt.kernel.setup \in Nat /\ opt.kernel.max \in Nat
    BY Options, ZenonT(60) DEF Inv, TypeOK, KernelFiles, InitrdFiles
  <2>k. /\ opt.kernel \in KernelFiles /\ opt.kernel.size < SIZE_MOD
        /\ opt.kernel.text_offset < SIZE_MOD
    BY Options, Zenon DEF Inv
  <2>n. Nowhere.lo = 0 /\ Nowhere.len = 0
    BY Fields
  <2>i. KernelInv /\ InitrdInv /\ SearchInv /\ MachineInv
    BY Zenon DEF Inv
  <2>p. pc = "run" /\ pc \in Final /\ pc \notin PreKernel \cup {"initrd", "search"}
    BY Zenon DEF At, Final, PreKernel, Early
  <2>1. CASE opt.arch = "x86"
    <3> DEFINE P == place["params"]  C == place["cmdline"]  K == place["kernel"]
               I == place["initrd"]  F == place["fdt"]  s == (opt.kernel.size - opt.kernel.setup) % SIZE_MOD
    <3>1. s \in Nat /\ MB = 16 /\ RAM_SIZE = 16384
      BY <2>0, BootAssumption DEF MB, RAM_SIZE
    <3>2. F = Nowhere
      BY <2>1, <2>i, ZenonT(60) DEF KernelInv
    <3>3. \/ P = Nowhere /\ C = Nowhere /\ K = Nowhere
          \/ /\ P.lo = 1 /\ P.len = 1 /\ C.lo = 2 /\ C.len = 1 /\ K.lo = 16 /\ K.len = s
             /\ Loaded("params") /\ 16 + s <= 16384
      <4> DEFINE None == \A o \in {"params", "cmdline", "kernel"} : place[o] = Nowhere
                 All == /\ \A o \in {"params", "cmdline", "kernel"} : place[o] = X86Image(opt.kernel)[o]
                        /\ Inside(place["kernel"], Ram("x86"))
      <4>1. CASE None
        BY <4>1
      <4>2. CASE All
        <5>1. P = Region(1, 1) /\ C = Region(2, 1) /\ K = Region(16, s)
          BY <4>2, ZenonT(60) DEF X86Image, BootParams, Cmdline, MB
        <5>2. /\ P.lo = 1 /\ P.len = 1 /\ C.lo = 2 /\ C.len = 1 /\ K.lo = 16 /\ K.len = s
              /\ P # Nowhere
          BY <5>1, Fields, SMTT(30)
        <5>3. K.lo + K.len <= 0 + 16384
          BY <4>2, Fields
        <5> QED BY <5>2, <5>3, <3>1, SMTT(30) DEF Loaded
      <4>3. None \/ All
        BY <2>1, <2>i, Zenon DEF KernelInv
      <4> HIDE DEF None, All, P, C, K, s
      <4> QED BY <4>1, <4>2, <4>3
    <3>4. \/ I = Nowhere
          \/ /\ opt.initrd.file = "ok" /\ I.lo = addr /\ I.len = opt.initrd.size /\ addr >= 16
             /\ addr + opt.initrd.size <= 16384
      <4>1. CASE opt.initrd.file # "ok"
        BY <4>1, <2>i DEF InitrdInv
      <4>2. CASE opt.initrd.file = "ok"
        <5>1. I = Region(addr, opt.initrd.size) /\ addr >= MB /\ Inside(I, Ram("x86"))
          BY <2>1, <2>p, <2>i, <4>2, ZenonT(60) DEF InitrdInv
        <5>2. I.lo = addr /\ I.len = opt.initrd.size /\ I.lo + I.len <= 0 + 16384
          BY <5>1, Fields, SMTT(30)
        <5> QED BY <4>2, <5>1, <5>2, <3>1, <2>0, SMTT(60)
      <4> QED BY <4>1, <4>2
    <3>5. ASSUME Loaded("params"), opt.initrd.file = "ok" PROVE 16 + s <= addr
      <4> DEFINE m == (s + 31) \div 16
      <4>1. m \in Nat /\ m >= 1 /\ 16 * m >= 16 + s /\ 16 * m <= 31 + s
        BY <3>1
      <4>2. 32 + s <= opt.kernel.max /\ 32 + s + opt.initrd.size <= 16384
        <5>1. X86Image(opt.kernel).kernel.len = s
          BY Fields, SMTT(30) DEF X86Image
        <5>2. /\ MB + X86Image(opt.kernel).kernel.len + MB <= opt.kernel.max
              /\ MB + X86Image(opt.kernel).kernel.len + MB + opt.initrd.size <= RAM_SIZE
          BY <2>1, Zenon DEF FilesFit
        <5> HIDE DEF s
        <5> QED BY <5>1, <5>2, <3>1, <2>0
      <4> HIDE DEF m, s
      <4>3. m <= opt.kernel.max \div 16
        BY <4>1, <4>2, <3>1, <2>0, SMTT(60)
      <4>4. MB * m \in Candidates
        BY <4>1, <4>3, <3>1, SMTT(60) DEF Candidates
      <4>5. Fits(MB * m)
        BY <4>1, <4>2, <3>1, <2>0, SMTT(60) DEF Fits
      <4>6. ~(MB * m > addr)
        BY <2>1, <2>p, <3>5, <4>2, <4>4, <4>5, <3>1, <2>0, <2>i, SMTT(60) DEF SearchInv
      <4> QED BY <4>1, <4>6, <3>1, <2>0, SMTT(60)
    <3> HIDE DEF P, C, K, I, F, s
    <3>6. F.lo = 0 /\ F.len = 0
      BY <3>2, <2>n, ZenonT(60)
    <3>7. P.lo \in Nat /\ P.len \in Nat /\ C.lo \in Nat /\ C.len \in Nat /\ K.lo \in Nat /\ K.len \in Nat
      BY <3>1, <3>3, <2>n
    <3>8. P.lo + P.len <= C.lo /\ P.lo + P.len <= K.lo /\ C.lo + C.len <= K.lo
      BY <3>3, <2>n
    <3>9. P.lo + P.len <= 16384 /\ C.lo + C.len <= 16384 /\ K.lo + K.len <= 16384
      BY <3>1, <3>3, <2>n, SMTT(60)
    <3>10. I.lo \in Nat /\ I.len \in Nat /\ I.lo + I.len <= 16384 /\ (I # Nowhere => I.lo >= 16)
      <4>1. CASE I = Nowhere
        BY <4>1, <2>n
      <4>2. CASE /\ opt.initrd.file = "ok" /\ I.lo = addr /\ I.len = opt.initrd.size /\ addr >= 16
                 /\ addr + opt.initrd.size <= 16384
        BY <2>0, <4>2, SMTT(60)
      <4> QED BY <3>4, <4>1, <4>2
    <3>11. \/ I.lo = 0 /\ I.len = 0
           \/ P.lo + P.len <= I.lo /\ C.lo + C.len <= I.lo /\ K.lo + K.len <= I.lo
      <4>1. CASE I = Nowhere
        BY <4>1, <2>n, ZenonT(60)
      <4>2. CASE I.lo = addr /\ addr >= 16 /\ opt.initrd.file = "ok"
        <5>1. CASE P = Nowhere /\ C = Nowhere /\ K = Nowhere
          BY <4>2, <5>1, <2>0, <2>n, SMTT(60)
        <5>2. CASE Loaded("params") /\ P.lo = 1 /\ P.len = 1 /\ C.lo = 2 /\ C.len = 1 /\ K.lo = 16
                     /\ K.len = s
          BY <4>2, <5>2, <2>0, <3>5, SMTT(60)
        <5> QED BY <3>3, <5>1, <5>2, SMTT(60)
      <4> QED BY <3>4, <4>1, <4>2
    <3>12. /\ Disjoint(P, C) /\ Disjoint(P, K) /\ Disjoint(C, K) /\ Disjoint(F, P) /\ Disjoint(F, C)
           /\ Disjoint(F, K) /\ Disjoint(F, I)
      BY <3>6, <3>7, <3>8, <3>10, SMTT(60) DEF Disjoint
    <3>13. Disjoint(I, P) /\ Disjoint(I, C) /\ Disjoint(I, K)
      BY <3>7, <3>10, <3>11, SMTT(60) DEF Disjoint
    <3>14. \A o, p \in Objects : o # p => Disjoint(place[o], place[p])
      BY <3>12, <3>13, Symmetry, ZenonT(60) DEF Objects, P, C, K, I, F
    <3>15. Inside(P, Ram("x86")) /\ Inside(C, Ram("x86")) /\ Inside(K, Ram("x86"))
             /\ Inside(I, Ram("x86")) /\ Inside(F, Ram("x86"))
      BY <3>6, <3>7, <3>9, <3>10, Fields, SMTT(60)
    <3>16. \A o \in Objects : Inside(place[o], Ram(opt.arch))
      BY <2>1, <3>15, ZenonT(60) DEF Objects, P, C, K, I, F
    <3>17. Loaded("initrd") => Inside(place["initrd"], E820High)
      BY <3>10, Fields, SMTT(60) DEF Loaded, I
    <3> QED BY <2>1, <3>14, <3>16, <3>17, ZenonT(60)
  <2>2. CASE opt.arch = "arm64"
    <3> DEFINE P == place["params"]  C == place["cmdline"]  K == place["kernel"]
               I == place["initrd"]  F == place["fdt"]
    <3>1. P = Nowhere /\ C = Nowhere
      BY <2>2, <2>i, ZenonT(60) DEF KernelInv
    <3>2. F.lo = 36864 /\ F.len = 32
      <4>1. F = Region(ARM_FDT_BASE, FDT_MAX_SIZE)
        BY <2>2, <2>p, <2>i, ZenonT(60) DEF MachineInv
      <4>2. ARM_FDT_BASE = 36864 /\ FDT_MAX_SIZE = 32
        BY DEF ARM_FDT_BASE, FDT_MAX_SIZE, ARM_INITRD_BASE, ARM_INITRD_SIZE, ARM_KERNEL_BASE,
               ARM_KERNEL_SIZE
      <4> QED BY <4>1, <4>2, Fields, SMTT(30)
    <3>3. K = Nowhere \/ (K.lo \in Nat /\ K.len \in Nat /\ 32768 <= K.lo /\ K.lo + K.len < 34816)
      <4>1. K = Nowhere \/ (K = ArmFile(opt.kernel) /\ ImageAccepted(opt.kernel)
                             /\ Inside(ArmFile(opt.kernel), Ram("arm64")))
        BY <2>2, <2>i, Zenon DEF KernelInv
      <4>2. CASE K = ArmFile(opt.kernel) /\ ImageAccepted(opt.kernel)
                   /\ Inside(ArmFile(opt.kernel), Ram("arm64"))
        BY <4>2, <2>k, Accepted
      <4> QED BY <4>1, <4>2
    <3>4. I = Nowhere \/ (I.lo = 34816 /\ I.len = opt.initrd.size)
      <4>1. CASE opt.initrd.file # "ok"
        BY <4>1, <2>i DEF InitrdInv
      <4>2. CASE opt.initrd.file = "ok"
        <5>1. I = Region(ARM_INITRD_BASE, opt.initrd.size)
          BY <2>2, <2>p, <2>i, <4>2, Zenon DEF InitrdInv
        <5> QED BY <5>1, Fields, SMTT(30) DEF ARM_INITRD_BASE, ARM_KERNEL_BASE, ARM_KERNEL_SIZE
      <4> QED BY <4>1, <4>2
    <3>5. opt.initrd.size <= 2048
      BY <2>2, SMT DEF FilesFit, ARM_INITRD_SIZE
    <3> HIDE DEF P, C, K, I, F
    <3>6. P.lo = 0 /\ P.len = 0 /\ C.lo = 0 /\ C.len = 0
      BY <3>1, <2>n, Zenon
    <3>7. K.lo \in Nat /\ K.len \in Nat
            /\ ((K.lo = 0 /\ K.len = 0) \/ (32768 <= K.lo /\ K.lo + K.len < 34816))
      BY <3>3, <2>n
    <3>8. I.lo \in Nat /\ I.len \in Nat
            /\ ((I.lo = 0 /\ I.len = 0) \/ (I.lo = 34816 /\ I.lo + I.len <= 36864))
      BY <2>0, <3>4, <3>5, <2>n, SMTT(60)
    <3>9. /\ Disjoint(P, C) /\ Disjoint(P, K) /\ Disjoint(C, K) /\ Disjoint(P, F) /\ Disjoint(C, F)
          /\ Disjoint(P, I) /\ Disjoint(C, I)
      BY <3>2, <3>6, <3>7, <3>8 DEF Disjoint
    <3>10. Disjoint(K, I) /\ Disjoint(K, F) /\ Disjoint(I, F)
      BY <3>2, <3>7, <3>8, SMTT(60) DEF Disjoint
    <3>11. \A o, p \in Objects : o # p => Disjoint(place[o], place[p])
      BY <3>9, <3>10, Symmetry, ZenonT(60) DEF Objects, P, C, K, I, F
    <3>12. /\ K = Nowhere \/ Inside(K, Ram("arm64"))
           /\ I = Nowhere \/ Inside(I, Ram("arm64"))
           /\ Inside(F, Ram("arm64"))
      BY <2>0, <3>2, <3>3, <3>4, <3>5, Fields, SMTT(60)
    <3>13. \A o \in Objects : place[o] # Nowhere => Inside(place[o], Ram(opt.arch))
      BY <2>2, <3>1, <3>12, Zenon DEF Objects, P, C, K, I, F
    <3>14. Loaded("kernel") => ImageAccepted(opt.kernel)
      BY <2>2, <2>i, Zenon DEF KernelInv, Loaded
    <3>15. Loaded("kernel") => Inside(K, ArmKernelArea)
      <4>1. K # Nowhere => 32768 <= K.lo /\ K.lo + K.len <= 32768 + 2048
        BY <3>3, SMTT(30)
      <4> QED BY <4>1, Fields DEF Loaded, K
    <3>16. Loaded("kernel") /\ TextOffset(opt.kernel) + opt.kernel.image_size < SIZE_MOD =>
             Inside(ArmImage(opt.kernel), ArmKernelArea)
      BY <3>14, <2>k, AskedFor, Zenon
    <3> QED BY <2>2, <3>11, <3>13, <3>15, <3>16, Zenon DEF Loaded, K
  <2> QED BY <2>0, <2>1, <2>2, Zenon
<1> QED BY <1>1, Inductive, PTL
=============================================================================
