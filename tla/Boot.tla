-------------------------------- MODULE Boot --------------------------------
(***************************************************************************)
(* Where src/src/arch/x86/vm.c and src/src/arch/arm64/vm.c put the kernel, *)
(* the initrd and the tables that describe the machine to the kernel.      *)
(* Addresses and sizes are counted in units of 64 KiB, with the program's  *)
(* own constants.  A region is a first unit and a number of units.         *)
(***************************************************************************)
EXTENDS Integers

CONSTANT SIZE_MOD   \* one more than the largest size_t

RAM_SIZE == 16384   \* 1 << 30

ASSUME BootAssumption == SIZE_MOD \in Nat /\ SIZE_MOD > 4 * RAM_SIZE

Region(lo, len) == [lo |-> lo, len |-> len]
Nowhere == Region(0, 0)
Disjoint(a, b) == a.lo + a.len <= b.lo \/ b.lo + b.len <= a.lo
Inside(a, b) == b.lo <= a.lo /\ a.lo + a.len <= b.lo + b.len

RAM_BASE(arch) == IF arch = "x86" THEN 0 ELSE 32768
Ram(arch) == Region(RAM_BASE(arch), RAM_SIZE)

-----------------------------------------------------------------------------
(* x86: struct boot_params, the command line, and the part of the bzImage  *)
(* after its setup sectors, at the megabyte where rip points; the setup    *)
(* sectors the header tells of may be more than the file, and the          *)
(* difference is taken in a size_t.                                        *)
MB == 16
BootParams == Region(1, 1)
Cmdline == Region(2, 1)
X86Image(k) ==
    [params |-> BootParams, cmdline |-> Cmdline, kernel |-> Region(MB, (k.size - k.setup) % SIZE_MOD)]

(* The e820 entry for the memory above ISA_END_ADDRESS.                    *)
E820High == Region(MB, RAM_SIZE - MB)

(* vm_arch_load_initrd: initrd_addr_max & ~0xfffff, and the test that ends *)
(* its search downwards, RAM_SIZE - datasz in a size_t.                    *)
InitrdTop(max) == max - (max % MB)
RoomBelow(datasz) ==
    IF datasz <= RAM_SIZE THEN RAM_SIZE - datasz ELSE SIZE_MOD + RAM_SIZE - datasz

-----------------------------------------------------------------------------
(* arm64: fixed areas for the kernel, the initrd and the device tree.      *)
ARM_KERNEL_SIZE == 2048
ARM_INITRD_SIZE == 2048
FDT_MAX_SIZE == 32
ARM_KERNEL_BASE == 32768
ARM_INITRD_BASE == ARM_KERNEL_BASE + ARM_KERNEL_SIZE
ARM_FDT_BASE == ARM_INITRD_BASE + ARM_INITRD_SIZE

(* vm_arch_load_image: where in its area the kernel is put.                *)
TextOffset(k) == IF k.image_size = 0 THEN 8 ELSE k.text_offset

ImageAcceptedBySize(k) ==   \* variant: the memory the kernel clears is not counted
    k.magic /\ (TextOffset(k) + k.size) % SIZE_MOD < ARM_KERNEL_SIZE
(* The test of its size; both sums are taken in a uint64_t.                *)
ImageAccepted(k) ==
    /\ k.magic
    /\ (TextOffset(k) + k.size) % SIZE_MOD < ARM_KERNEL_SIZE
    /\ (TextOffset(k) + k.image_size) % SIZE_MOD < ARM_KERNEL_SIZE

(* Where the file is copied, and the memory the header asks for there.     *)
ArmFile(k) == Region((ARM_KERNEL_BASE + TextOffset(k)) % SIZE_MOD, k.size)
ArmImage(k) == Region(ARM_KERNEL_BASE + TextOffset(k), k.image_size)
ArmKernelArea == Region(ARM_KERNEL_BASE, ARM_KERNEL_SIZE)
=============================================================================
