---------------------------- MODULE MCMmuDomains ----------------------------
(***************************************************************************)
(* Model-checking instance of MmuDomains: bounds, and the refinement       *)
(* mapping to ProtectionDomains.                                           *)
(***************************************************************************)
EXTENDS MmuDomains

CONSTANTS
  MaxGen,       \* explore generations 0..MaxGen of every slot
  MaxRef        \* explore reference counts 0..MaxRef

\* Bounds of exploration: the uint16_t counters never get near their wrap.
Bounded ==
  \A i \in Idx : pdominfo[i].gen <= MaxGen /\ pdominfo[i].refcnt <= MaxRef

-----------------------------------------------------------------------------
(* Refinement mapping.  An id names a live domain when its generation is   *)
(* the slot's current one and the slot holds a pdom_t; an older generation *)
(* of the slot, or the current one after the stretch is destroyed, names a *)
(* dead domain; a later generation, or an index out of range, is unused.   *)

AbsIdSpace ==
  {IdOf(g, i) : g \in 1..(MaxGen + 1), i \in Idx} \cup ForgedIds

AbsStatus(id) ==
  LET i == PDIDX(id)
      g == GenOf(id)
  IN IF i >= PDIDX_MAX \/ g > pdominfo[i].gen THEN "unused"
     ELSE IF g = pdominfo[i].gen /\ pdom_tbl[i] # NULL THEN "live"
     ELSE "dead"

AbsLive(id) == AbsStatus(id) = "live"

Abs == INSTANCE ProtectionDomains WITH
         IdSpace    <- AbsIdSpace,
         MaxDomains <- PDIDX_MAX,
         Sids       <- Sids,
         Rights     <- Rights,
         status     <- [id \in AbsIdSpace |-> AbsStatus(id)],
         refs       <- [id \in AbsIdSpace |->
                          IF AbsLive(id) THEN pdominfo[PDIDX(id)].refcnt ELSE 0],
         rights     <- [id \in AbsIdSpace |->
                          IF AbsLive(id)
                            THEN [s \in Sids |-> Nibble(pdom_tbl[PDIDX(id)], s)]
                            ELSE [s \in Sids |-> 0]],
         halt       <- halt

(* Refinement: every behaviour of the registry, with its packed ids and    *)
(* nibble-packed rights, is a behaviour of ProtectionDomains: ids are      *)
(* never reissued, create_domain halts only when every slot is taken,      *)
(* set_rights changes only the one stretch's rights of the one domain the  *)
(* id names, and release destroys a domain exactly when its last reference *)
(* goes.                                                                   *)
ImplementsProtectionDomains == Abs!ASpec

(* A retain, release or set_rights is carried out only for an id that     *)
(* names a live domain: the bogus-id check of mmu_v1_retain_domain,        *)
(* mmu_v1_release_domain and mmu_v1_set_rights must refuse the id of a     *)
(* released domain, also once alloc_pdidx has handed its slot to a new     *)
(* domain (spec section 3: an id is valid only if its generation matches). *)
(* Refinement alone cannot see this: the step a stale id causes is the     *)
(* step the live id of the same slot causes.                               *)
OnlyLiveIdsServed ==
  [][\A id \in CallerIds :
       ( \/ RetainDomain(id)
         \/ ReleaseDomain(id)
         \/ \E s \in Sids, r \in Rights : SetRights(id, s, r) )
       => AbsLive(id)]_vars

=============================================================================
