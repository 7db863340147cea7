------------------------------- MODULE MmuBoot -------------------------------
(***************************************************************************)
(* The bootstrap path of the hosted mmu_mod                                *)
(* (src/src/modules/tcb/platform/hosted/mmu_mod/mmu_mod.cpp):              *)
(* mmu_module_v1_create with the sizing calculator (memory_required,       *)
(* ramtab_required), the layout of the reserved region and the replay of   *)
(* the boot mappings (enter_mappings); mmu_module_v1_finish_init; and the  *)
(* ramtab_v1 put and get operations used by the rest of the kernel after. *)
(*                                                                         *)
(* create runs once, in the single boot context, so it is one step.  The   *)
(* boot-memory tracker (bootinfo_t, not under src/) is modelled from spec  *)
(* section 6: a set of free physical ranges, find returns one at least as  *)
(* large as asked for, use_memory succeeds iff the range asked for lies in *)
(* a free one.  Addresses keep their real values and 32-bit width.         *)
(***************************************************************************)
EXTENDS Integers, FiniteSets, Sequences, FiniteSetsExt, TLC

CONSTANTS
  BootMaps,             \* candidate boot vmaps: sequences of [vpn, ppn, nframes]
  UsableTop,            \* bi->find_usable_physical_memory_top()
  FreeRanges,           \* free physical ranges of the boot-memory tracker: [base, size]
  InitialReservations,  \* initial_reservation arguments of create
  PutFrames,            \* frames later passed to ramtab put and get
  PutWidths,            \* frame widths later passed to ramtab put
  Owners,               \* owners later passed to ramtab put (DCB addresses)
  PutStates,            \* ramtab states later passed to put
  OWNER_NONE,           \* owner field of a zeroed ramtab entry
  OWNER_SYSTEM,         \* owner enter_mappings records
  STATE_SIZE            \* sizeof(mmu_v1::state_t) on ia32 (5704 bytes)

PAGE_SIZE   == 4096
FRAME_WIDTH == 12
L2SIZE      == 4096     \* one 1024-entry second-level table
RAMTAB_ENTRY_SIZE == 8  \* sizeof(ramtab_entry_t), PACKED: 4 + 2 + 2
L2_INFO_SIZE == 1       \* sizeof(l2_info)
N_EXTRA_L2S == 32

VARIABLES
  vmap,     \* the boot loader's virtual mappings (bootinfo page), fixed
  phase,    \* "boot" before create, "created", "ready" after finish_init
  mmu,      \* the layout fields create records in mmu_v1::state_t
  ramtab,   \* frame -> [owner, frame_width, state]; empty before create
  mmu_ok,   \* INFO_PAGE.mmu_ok
  halt,     \* "none", "panic" (PANIC) or "ramtab_range" (debug_stop in put/get)
  reply,    \* what the last ramtab get returned: [frame, owner, frame_width, state]
  puts      \* ghost: frame -> the arguments of the last put on it

vars == <<vmap, phase, mmu, ramtab, mmu_ok, halt, reply, puts>>

PageAlignUp(a) == ((a + PAGE_SIZE - 1) \div PAGE_SIZE) * PAGE_SIZE

-----------------------------------------------------------------------------
(* Sizing calculator: memory_required and ramtab_required.                 *)

\* A boot mapping (memory_v1::mapping) has page-aligned virt and phys; it is
\* kept as page numbers vpn = virt >> 12, ppn = phys >> 12 because TLC's
\* integers stop at 2^31.  address_t arithmetic mod 2^32 on a page-aligned
\* address is arithmetic mod 2^20 on its page number.
PageWord(pn) == pn % 2^20

\* The page number of every va = e->virt + (j << FRAME_WIDTH), j < e->nframes
FrameVPNs(e) == {PageWord(e.vpn + j) : j \in 0..(e.nframes - 1)}
MapVPNs(map) == UNION {FrameVPNs(map[k]) : k \in DOMAIN map}

\* (va >> 22) & 0x1f and va >> 27, on va's page number
\* Mutant: the bit taken from va >> 21, a 2 MiB granule
bitmap_bit_wide(vpn) == (vpn \div 2^9) % 32

bitmap_bit(vpn) == (vpn \div 2^10) % 32
bitmap_index(vpn) == vpn \div 2^15

\* uint32_t bitmap[32], each word kept as the set of its one bits:
\* bitmap[bitmap_index(va)] |= 1 << bitmap_bit(va), for every frame
Bitmap(map) ==
  FoldSet(LAMBDA vpn, bm : [bm EXCEPT ![bitmap_index(vpn)] = @ \cup {bitmap_bit(vpn)}],
          [i \in 0..31 |-> {}], MapVPNs(map))

\* n_l2_tables: the one bits the scan loop counts, plus the fixed margin
\*   while (bitmap[i]) { if (bitmap[i] & 1) nptabs++; bitmap[i] >>= 1; }
NL2Tables(map) ==
  FoldSet(LAMBDA i, n : n + Cardinality(Bitmap(map)[i]), 0, 0..31) + N_EXTRA_L2S

\* memory_required's result: the state record and one l2_info per table
MemoryRequired(map) == STATE_SIZE + NL2Tables(map) * L2_INFO_SIZE

\* ramtab_required: one entry per frame below the usable top, and its bytes
MaxRamtabEntries == UsableTop \div PAGE_SIZE
RamtabRequired == MaxRamtabEntries * RAMTAB_ENTRY_SIZE

-----------------------------------------------------------------------------
(* Layout of the reserved region, as offsets from first_range.             *)

RamtabOffset(map) == PageAlignUp(MemoryRequired(map))
L2TablesOffset(map) ==
  PageAlignUp(RamtabOffset(map) + RamtabRequired)
\* n_l2_tables * L2SIZE is not added: that line is commented out
NeededBytes(map, reservation) == PageAlignUp(L2TablesOffset(map) + reservation)

\* find_highmem_range_of_at_least(n) and use_memory(addr, n)
Found(n) == {r \in FreeRanges : r.size >= n}
UseMemory(addr, n) == \E r \in FreeRanges : r.base <= addr /\ addr + n <= r.base + r.size

-----------------------------------------------------------------------------
(* Ramtab.                                                                 *)

ZeroEntry == [owner |-> OWNER_NONE, frame_width |-> 0, state |-> "unused"]
SystemEntry == [owner |-> OWNER_SYSTEM, frame_width |-> FRAME_WIDTH, state |-> "mapped"]

\* phys_frame_number(e->phys + (j << FRAME_WIDTH)) of every frame enter_mappings puts
MapFrames(map) ==
  UNION {{PageWord(map[k].ppn + j) : j \in 0..(map[k].nframes - 1)} : k \in DOMAIN map}

\* Mutant: one entry too many cleared and sized
ReplayedRamtabOneMore(map) ==
  [f \in 0..MaxRamtabEntries |-> IF f \in MapFrames(map) THEN SystemEntry ELSE ZeroEntry]

\* The cleared ramtab after enter_mappings
ReplayedRamtab(map) ==
  [f \in 0..(MaxRamtabEntries - 1) |-> IF f \in MapFrames(map) THEN SystemEntry ELSE ZeroEntry]

-----------------------------------------------------------------------------

NoReply == [frame |-> -1, owner |-> OWNER_NONE, frame_width |-> 0, state |-> "unused"]

NoLayout == [first_range |-> 0, needed |-> 0, ramtab_offset |-> 0,
             l2_tables_offset |-> 0, l2_virt |-> 0, l2_max |-> 0, l2_next |-> 0,
             free |-> 0]

Init ==
  /\ vmap \in BootMaps
  /\ phase = "boot"
  /\ mmu = NoLayout
  /\ ramtab = <<>>
  /\ mmu_ok = FALSE
  /\ halt = "none"
  /\ reply = NoReply
  /\ puts = <<>>

Running == halt = "none"

\* The layout create records for a region reserved at first_range
Layout(first_range, map, reservation) ==
  [first_range |-> first_range,
   needed |-> NeededBytes(map, reservation),
   ramtab_offset |-> RamtabOffset(map),
   l2_tables_offset |-> L2TablesOffset(map),
   l2_virt |-> PageAlignUp(first_range + L2TablesOffset(map)),
   l2_max |-> NL2Tables(map),
   l2_next |-> 0,
   free |-> first_range]

\* The frames enter_mappings puts all lie below ramtab_size
ReplayInRange(map) == MapFrames(map) \subseteq 0..(MaxRamtabEntries - 1)

\* create's reservation succeeds at PageAlignUp(r.base) and records the
\* layout, clears the ramtab and replays the boot mappings into it
Reserve(reservation, r) ==
  LET first_range == PageAlignUp(r.base) IN
    /\ UseMemory(first_range, NeededBytes(vmap, reservation))
    /\ mmu' = Layout(first_range, vmap, reservation)
    /\ ramtab' = ReplayedRamtab(vmap)

\* mmu_module_v1_create: reserve, lay out, clear, replay, publish mmu_ok
Create ==
  /\ Running
  /\ phase = "boot"
  /\ ReplayInRange(vmap)
  /\ \E reservation \in InitialReservations :
       \E r \in Found(NeededBytes(vmap, reservation)) : Reserve(reservation, r)
  /\ phase' = "created"
  /\ mmu_ok' = TRUE
  /\ UNCHANGED <<vmap, halt, reply, puts>>

\* create whose enter_mappings puts a frame at or above ramtab_size:
\* ramtab_v1_put calls debug_stop
CreateReplayOutOfRange ==
  /\ Running
  /\ phase = "boot"
  /\ ~ReplayInRange(vmap)
  /\ \E reservation \in InitialReservations :
       \E r \in Found(NeededBytes(vmap, reservation)) : Reserve(reservation, r)
  /\ halt' = "ramtab_range"
  /\ UNCHANGED <<vmap, phase, mmu_ok, reply, puts>>

\* PANIC("Unable to use memory for initial MMU setup!")
CreateNoMemory ==
  /\ Running
  /\ phase = "boot"
  /\ \E reservation \in InitialReservations :
       LET needed == NeededBytes(vmap, reservation) IN
         \/ Found(needed) = {}
         \/ \E r \in Found(needed) : ~UseMemory(PageAlignUp(r.base), needed)
  /\ halt' = "panic"
  /\ UNCHANGED <<vmap, phase, mmu, ramtab, mmu_ok, reply, puts>>

\* mmu_module_v1_finish_init: squirrel away the allocator closures
FinishInit ==
  /\ Running
  /\ phase = "created"
  /\ phase' = "ready"
  /\ UNCHANGED <<vmap, mmu, ramtab, mmu_ok, halt, reply, puts>>

\* ramtab_v1_size: st->ramtab_size, set by create to max_ramtab_entries
RamtabSize == MaxRamtabEntries

\* ramtab_entry_t's fields: owner address_t, frame_width and state uint16_t
Entry(owner, width, st) == [owner |-> owner, frame_width |-> width % 2^16, state |-> st]

\* Mutant: the frame_width store left out of put
RamtabPutNoWidth(frame, owner, width, st) ==
  /\ Running
  /\ phase \in {"created", "ready"}
  /\ IF frame < RamtabSize
       THEN /\ ramtab' = [ramtab EXCEPT ![frame].owner = owner, ![frame].state = st]
            /\ puts' = (frame :> [owner |-> owner, frame_width |-> width, state |-> st]) @@ puts
            /\ UNCHANGED halt
       ELSE /\ halt' = "ramtab_range"
            /\ UNCHANGED <<ramtab, puts>>
  /\ UNCHANGED <<vmap, phase, mmu, mmu_ok, reply>>

\* ramtab_v1_put: out of range, debug_stop; else the three field stores
RamtabPut(frame, owner, width, st) ==
  /\ Running
  /\ phase \in {"created", "ready"}
  /\ IF frame < RamtabSize
       THEN /\ ramtab' = [ramtab EXCEPT ![frame] = Entry(owner, width, st)]
            /\ puts' = (frame :> [owner |-> owner, frame_width |-> width, state |-> st]) @@ puts
            /\ UNCHANGED halt
       ELSE /\ halt' = "ramtab_range"
            /\ UNCHANGED <<ramtab, puts>>
  /\ UNCHANGED <<vmap, phase, mmu, mmu_ok, reply>>

\* ramtab_v1_get: out of range, debug_stop (returning 0xdeadd00d to a
\* kernel that has stopped); else owner, *frame_width and *state
RamtabGet(frame) ==
  /\ Running
  /\ phase \in {"created", "ready"}
  /\ IF frame < RamtabSize
       THEN /\ reply' = [frame |-> frame] @@ ramtab[frame]
            /\ UNCHANGED halt
       ELSE /\ halt' = "ramtab_range"
            /\ UNCHANGED reply
  /\ UNCHANGED <<vmap, phase, mmu, ramtab, mmu_ok, puts>>

Halted ==
  /\ ~Running
  /\ UNCHANGED vars

Next ==
  \/ Create
  \/ CreateReplayOutOfRange
  \/ CreateNoMemory
  \/ FinishInit
  \/ \E f \in PutFrames, o \in Owners, w \in PutWidths, s \in PutStates :
       RamtabPut(f, o, w, s)
  \/ \E f \in PutFrames : RamtabGet(f)
  \/ Halted

Spec == Init /\ [][Next]_vars

-----------------------------------------------------------------------------

TypeOK ==
  /\ vmap \in BootMaps
  /\ phase \in {"boot", "created", "ready"}
  /\ mmu \in [first_range : Nat, needed : Nat, ramtab_offset : Nat,
              l2_tables_offset : Nat, l2_virt : Nat, l2_max : Nat, l2_next : Nat,
              free : Nat]
  /\ (phase = "boot" /\ Running) => ramtab = <<>>
  /\ phase # "boot" =>
       ramtab \in [0..(MaxRamtabEntries - 1) ->
                     [owner : Owners \cup {OWNER_NONE, OWNER_SYSTEM},
                      frame_width : {0, FRAME_WIDTH} \cup {w % 2^16 : w \in PutWidths},
                      state : PutStates \cup {"unused", "mapped"}]]
  /\ DOMAIN puts \subseteq PutFrames
  /\ mmu_ok \in BOOLEAN
  /\ halt \in {"none", "panic", "ramtab_range"}

-----------------------------------------------------------------------------
(* Properties.                                                             *)

\* Reference for the sizing calculator: the distinct 4 MiB virtual regions
\* the boot mappings touch.
Regions(map) == {vpn \div 2^10 : vpn \in MapVPNs(map)}

(* Sizing (spec 4.1, 8): create reserves exactly one L2 table per distinct *)
(* 4 MiB virtual region the boot mappings touch, plus N_EXTRA_L2S, however *)
(* the mappings straddle region and 128 MiB word boundaries or wrap at     *)
(* 4 GiB: the bitmap indexing and bit counting of memory_required.         *)
L2TablesSized ==
  phase # "boot" => mmu.l2_max = Cardinality(Regions(vmap)) + N_EXTRA_L2S

(* Spec 4.2, 8: create returns as first free address one at or above the  *)
(* end of the region it reserved for itself, so that the caller's          *)
(* allocations do not overwrite the MMU state.                             *)
FreeIsPastReservedRegion ==
  phase # "boot" => mmu.free >= mmu.first_range + mmu.needed

(* Spec 4.2: the L2 table slots are part of the region create reserves:    *)
(* the pool at l2_virt, l2_max tables of L2SIZE bytes, ends inside it.     *)
L2PoolReserved ==
  phase # "boot" => mmu.l2_virt + mmu.l2_max * L2SIZE <= mmu.first_range + mmu.needed

(* Spec 8 (put then get) and the end-to-end scenario: the owner, frame    *)
(* width and state a get answers for a frame below ramtab_size are exactly *)
(* those of the last put on that frame, and for a frame never put since    *)
(* create those of the entry create left: owner SYSTEM and mapped for a    *)
(* physical frame of a boot mapping, zeroed otherwise.  It rests on        *)
(* create's clear and replay (lines 504-506, 438), on put's three field    *)
(* stores (318-320) and on get's three reads (333-336) naming the same     *)
(* fields.                                                                 *)
GetReturnsLastPut ==
  [][reply' # reply =>
       [owner |-> reply'.owner, frame_width |-> reply'.frame_width,
        state |-> reply'.state] =
         IF reply'.frame \in DOMAIN puts THEN puts[reply'.frame]
         ELSE ReplayedRamtab(vmap)[reply'.frame]]_vars

=============================================================================
