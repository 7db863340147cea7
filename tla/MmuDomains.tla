----------------------------- MODULE MmuDomains -----------------------------
(***************************************************************************)
(* The protection domain registry and rights matrix of the hosted mmu_mod  *)
(* (src/src/modules/tcb/platform/hosted/mmu_mod/mmu_mod.cpp):              *)
(* alloc_pdidx, mmu_v1_create_domain, mmu_v1_retain_domain,                *)
(* mmu_v1_release_domain and mmu_v1_set_rights, over the state they share: *)
(* next_pdidx, pdom_tbl[] and pdominfo[] of mmu_v1::state_t.               *)
(*                                                                         *)
(* Each handler is one atomic step: the code has no locking and relies on  *)
(* the kernel-wide exclusion described in spec section 5.  The step-level  *)
(* interleaving of the same handlers is MmuDomainsSteps.                   *)
(*                                                                         *)
(* Data abstraction: the stretch that backs a domain's pdom_t is not kept; *)
(* pdom_tbl[i] holds the rights bytes of that stretch, or NULL once the    *)
(* stretch is destroyed.  Widths are kept: gen and refcnt are uint16_t,    *)
(* rights bytes are uint8_t, an id is (gen << 16) | idx.                   *)
(***************************************************************************)
EXTENDS Integers, FiniteSets, Bitwise

CONSTANTS
  PDIDX_MAX,    \* number of protection domain slots (0x80 in the code)
  SID_MAX,      \* number of stretch ids; pdom_t holds SID_MAX/2 bytes
  Rights,       \* the rights values callers pass (4-bit stretch_v1::rights)
  NULL,         \* model value: an empty pdom_tbl[] entry
  StaleCallers  \* TRUE: callers may hold ids of domains already destroyed
                \* whose slot has since been reused

ASSUME PDIDX_MAX \in 1..(2^16 - 1)
ASSUME SID_MAX \in Nat /\ SID_MAX >= 2 /\ SID_MAX % 2 = 0
ASSUME Rights \subseteq 0..15
ASSUME StaleCallers \in BOOLEAN

VARIABLES
  next_pdidx,   \* rotating hint for alloc_pdidx
  pdom_tbl,     \* idx -> NULL or the rights bytes of the domain's pdom_t
  pdominfo,     \* idx -> [refcnt, gen]
  halt          \* "none", or why nucleus::debug_stop() was called

vars == <<next_pdidx, pdom_tbl, pdominfo, halt>>

Idx  == 0..(PDIDX_MAX - 1)
Sids == 0..(SID_MAX - 1)
Bytes == 0..(SID_MAX \div 2 - 1)
U16 == 2^16

\* protection_domain_v1::id pdid = (uint32_t(gen) << 16) | idx
IdOf(gen, idx) == gen * U16 + idx
\* #define PDIDX(_pdid) ((_pdid) & 0xffff)
PDIDX(id) == id % U16
GenOf(id) == id \div U16

\* The fresh pdom_t: memutils::clear_memory(base, sz)
ClearedBlock == [b \in Bytes |-> 0]

\* The 4-bit rights of stretch sid held in a pdom_t
Nibble(block, sid) ==
  IF sid % 2 = 1 THEN block[sid \div 2] \div 16 ELSE block[sid \div 2] % 16

-----------------------------------------------------------------------------
(* The ids callers hand to retain/release/set_rights.                      *)

LiveIds  == {IdOf(pdominfo[i].gen, i) : i \in {j \in Idx : pdom_tbl[j] # NULL}}
\* ids issued for slot i before its current generation, and its current one
OlderIds(i) == {IdOf(g, i) : g \in 1..(pdominfo[i].gen - 1)}
CurrentId(i) == IdOf(pdominfo[i].gen, i)
\* ids issued earlier for a slot whose stretch is destroyed and not reused
FreedIds ==
  UNION {OlderIds(i) \cup {CurrentId(i)} :
           i \in {j \in Idx : pdom_tbl[j] = NULL /\ pdominfo[j].gen > 0}}
\* ids issued earlier for a slot that now holds a newer domain
ReusedIds == UNION {OlderIds(i) : i \in {j \in Idx : pdom_tbl[j] # NULL}}
\* an id whose index is out of range
ForgedIds == {IdOf(1, PDIDX_MAX)}

CallerIds ==
  LiveIds \cup FreedIds \cup ForgedIds \cup (IF StaleCallers THEN ReusedIds ELSE {})

-----------------------------------------------------------------------------

Init ==
  /\ next_pdidx = 0
  /\ pdom_tbl = [i \in Idx |-> NULL]
  /\ pdominfo = [i \in Idx |-> [refcnt |-> 0, gen |-> 0]]
  /\ halt = "none"

Running == halt = "none"

\* kconsole << ...; nucleus::debug_stop();
DebugStop(why) ==
  /\ halt' = why
  /\ UNCHANGED <<next_pdidx, pdom_tbl, pdominfo>>

\* The slot alloc_pdidx returns: the first empty one scanning from the hint
\* upward, modulo PDIDX_MAX.
ScanSlot(k) == (next_pdidx + k) % PDIDX_MAX
FirstFree ==
  ScanSlot(CHOOSE k \in Idx : /\ pdom_tbl[ScanSlot(k)] = NULL
                              /\ \A j \in 0..(k - 1) : pdom_tbl[ScanSlot(j)] # NULL)

\* Mutant: the hint advanced without the wrap "% PDIDX_MAX"
CreateDomainHintNoWrap ==
  /\ Running
  /\ \E i \in Idx : pdom_tbl[i] = NULL
  /\ LET idx == FirstFree IN
       /\ next_pdidx' = idx + 1
       /\ pdominfo' = [pdominfo EXCEPT ![idx] = [refcnt |-> 0,
                                                 gen |-> (@.gen + 1) % U16]]
       /\ pdom_tbl' = [pdom_tbl EXCEPT ![idx] = ClearedBlock]
  /\ UNCHANGED halt

\* alloc_pdidx followed by the body of mmu_v1_create_domain
CreateDomain ==
  /\ Running
  /\ \E i \in Idx : pdom_tbl[i] = NULL
  /\ LET idx == FirstFree IN
       /\ next_pdidx' = (idx + 1) % PDIDX_MAX
       /\ pdominfo' = [pdominfo EXCEPT ![idx] = [refcnt |-> 0,
                                                 gen |-> (@.gen + 1) % U16]]
       /\ pdom_tbl' = [pdom_tbl EXCEPT ![idx] = ClearedBlock]
  /\ UNCHANGED halt

\* alloc_pdidx: the scan comes back to the hint: "out of identifiers!"
CreateDomainExhausted ==
  /\ Running
  /\ \A i \in Idx : pdom_tbl[i] # NULL
  /\ DebugStop("out_of_ids")

\* The slots whose pdom_tbl[] entry is set
InUse == {i \in Idx : pdom_tbl[i] # NULL}

\* if ((idx >= PDIDX_MAX) || (state->pdom_tbl[idx] == NULL))
Bogus(id) == PDIDX(id) \notin InUse

BogusId(id) ==
  /\ Running
  /\ Bogus(id)
  /\ DebugStop("bogus_pdom_id")

RetainDomain(id) ==
  /\ Running
  /\ ~Bogus(id)
  /\ pdominfo' = [pdominfo EXCEPT ![PDIDX(id)].refcnt = (@ + 1) % U16]
  /\ UNCHANGED <<next_pdidx, pdom_tbl, halt>>

\* refcnt is decremented if nonzero; at zero the stretch is destroyed
ReleaseDomain(id) ==
  /\ Running
  /\ ~Bogus(id)
  /\ LET idx == PDIDX(id)
         rc  == IF pdominfo[idx].refcnt > 0 THEN pdominfo[idx].refcnt - 1 ELSE 0
     IN /\ pdominfo' = [pdominfo EXCEPT ![idx].refcnt = rc]
        /\ pdom_tbl' = IF rc = 0 THEN [pdom_tbl EXCEPT ![idx] = NULL] ELSE pdom_tbl
  /\ UNCHANGED <<next_pdidx, halt>>

\* Mutant: the two masks swapped (sid & 1 ? 0x0f : 0xf0)
RightsByteSwappedMask(byte, sid, rights) ==
  LET mask == IF sid % 2 = 1 THEN 15 ELSE 240
      val  == IF sid % 2 = 1 THEN rights * 16 ELSE rights
  IN (byte & (255 - mask)) | val

\* The byte after rights[sid>>1] &= ~mask; rights[sid>>1] |= val;
RightsByte(byte, sid, rights) ==
  LET mask == IF sid % 2 = 1 THEN 240 ELSE 15
      val  == IF sid % 2 = 1 THEN rights * 16 ELSE rights
  IN (byte & (255 - mask)) | val

SetRights(id, sid, rights) ==
  /\ Running
  /\ ~Bogus(id)
  /\ pdom_tbl' = [pdom_tbl EXCEPT ![PDIDX(id)][sid \div 2] =
                                     RightsByte(@, sid, rights)]
  /\ UNCHANGED <<next_pdidx, pdominfo, halt>>

\* After debug_stop nothing in the kernel runs again.
Halted ==
  /\ ~Running
  /\ UNCHANGED vars

Next ==
  \/ CreateDomain
  \/ CreateDomainExhausted
  \/ \E id \in CallerIds :
       \/ BogusId(id)
       \/ RetainDomain(id)
       \/ ReleaseDomain(id)
       \/ \E sid \in Sids, r \in Rights : SetRights(id, sid, r)
  \/ Halted

Spec == Init /\ [][Next]_vars

-----------------------------------------------------------------------------

TypeOK ==
  /\ next_pdidx \in Idx
  /\ pdom_tbl \in [Idx -> {NULL} \cup [Bytes -> 0..255]]
  /\ pdominfo \in [Idx -> [refcnt : 0..(U16 - 1), gen : 0..(U16 - 1)]]
  /\ halt \in {"none", "out_of_ids", "bogus_pdom_id"}

=============================================================================
