-------------------------------- MODULE MCVm --------------------------------
(***************************************************************************)
(* Runs of kvm-host with the program's own memory layout, in units of      *)
(* 64 KiB.  The kernels: none, one that cannot be opened, and usual ones   *)
(* of 12 MB for both architectures, with the two limits Linux has put in   *)
(* initrd_addr_max, one of them an arm64 image of the old kind, without    *)
(* image_size.  Then files smaller than their setup sectors, as which x86  *)
(* takes these arm64 images: one that needs more memory than its area, one *)
(* that is no arm64 image, one whose image_size and one whose text_offset  *)
(* makes a sum of the size test wrap around.                               *)
(***************************************************************************)
EXTENDS Vm

Kernel(file, max, text_offset, image_size) ==
    [file |-> file, size |-> 192, setup |-> 1, max |-> max, magic |-> image_size # 1,
     text_offset |-> text_offset, image_size |-> image_size]
Small(text_offset, image_size) ==
    [Kernel("ok", 14335, text_offset, image_size) EXCEPT !.size = 1, !.setup = 2]

MCKernels ==
    {Kernel("none", 0, 0, 0), Kernel("missing", 0, 0, 0),
     Kernel("ok", 32767, 0, 256), Kernel("ok", 14335, 8, 0),
     Small(0, 2100), Small(0, 1), Small(8, SIZE_MOD - 8), Small(SIZE_MOD - 1, 256)}

(* The initrds: none, of a whole area of arm64, of the size of the         *)
(* memory, and larger.                                                     *)
MCInitrds ==
    {[file |-> "none", size |-> 0]} \cup [file : {"ok"}, size : {2048, 16384, 16385}]
=============================================================================
