------------------------------ MODULE MCMmuBoot ------------------------------
(***************************************************************************)
(* Model-checking instance of MmuBoot: boot maps that straddle a 4 MiB     *)
(* boundary, wrap at 4 GiB, alias one physical frame twice, and map a      *)
(* device above the usable top; a free range that fits only before page    *)
(* alignment; a reservation no free range can hold.                        *)
(***************************************************************************)
EXTENDS MmuBoot

\* Mappings as page numbers: vpn = virt >> 12, ppn = phys >> 12.
\* identity mapping of low memory, [0x1000, 0x4000)
MapLow      == [vpn |-> 1, ppn |-> 1, nframes |-> 3]
\* two frames either side of the 4 MiB boundary: virt 0x3FF000
MapStraddle == [vpn |-> 1023, ppn |-> 16, nframes |-> 2]
\* two frames from virt 0xFFFFF000: the second wraps to virtual 0
MapWrap     == [vpn |-> 1048575, ppn |-> 32, nframes |-> 2]
\* higher-half alias at virt 0xC0000000 of physical 0x1000
MapAlias    == [vpn |-> 786432, ppn |-> 1, nframes |-> 2]
\* a device frame at physical 0xFD000000 (virt 0xE0000000), above the usable top
MapDevice   == [vpn |-> 917504, ppn |-> 1036288, nframes |-> 1]

MCBootMaps ==
  {<<MapLow>>, <<MapLow, MapStraddle>>, <<MapLow, MapWrap, MapAlias>>,
   <<MapLow, MapDevice>>}

\* 16 MiB of usable memory
MCUsableTop == 16777216

\* [0x200000, 0x300000) and an unaligned range at 0x300800 of 0xD400 bytes
MCFreeRanges ==
  {[base |-> 2097152, size |-> 1048576], [base |-> 3147776, size |-> 54272]}

\* 0x3000, and 0x200000 which no free range holds
MCInitialReservations == {12288, 2097152}

MCPutFrames == {1, 2, 4096}

\* the frame width enter_mappings uses, and a 4 MiB one
MCPutWidths == {12, 22}

=============================================================================
