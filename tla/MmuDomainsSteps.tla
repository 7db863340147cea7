--------------------------- MODULE MmuDomainsSteps ---------------------------
(***************************************************************************)
(* The protection domain handlers of mmu_mod.cpp split at their accesses   *)
(* to shared state, run by several kernel call paths (Threads) at once.    *)
(* mmu_v1_create_domain, retain_domain, release_domain and set_rights take *)
(* no lock: spec section 5 assumes a kernel-wide exclusion around every    *)
(* call.  KernelLock = TRUE models that exclusion (a call holds it from    *)
(* its first step to its last), FALSE its absence.                         *)
(*                                                                         *)
(* Every C++ read-modify-write (gen++, refcnt++, refcnt--, &= ~mask,       *)
(* |= val) is a load step and a store step: the data race the code has     *)
(* without the lock is undefined behaviour, and load/store is the outcome  *)
(* the ia32 build produces.                                                *)
(*                                                                         *)
(* Here pdom_tbl[] holds stretch numbers, and mem the bytes of each        *)
(* stretch, so that a stale pointer held by a call is visible.  The ghost  *)
(* variables issued, wanted, held and destroyed record what the calls that *)
(* completed promised, for the properties.                                 *)
(***************************************************************************)
EXTENDS Integers, FiniteSets, Sequences, Bags, Bitwise, TLC

CONSTANTS PDIDX_MAX, SID_MAX, Rights, NULL, Threads, KernelLock, NoThread,
          MaxStretch,  \* bound: stretches create_domain may allocate
          MaxRef       \* bound: refcnt a retain may reach

VARIABLES
  next_pdidx, pdom_tbl, pdominfo, halt,
  mem,        \* stretch -> the bytes of its pdom_t
  lock,       \* the thread inside a call, or NoThread
  pc, loc,    \* per thread: the step it is at, and its locals
  issued,     \* ghost: bag of the ids create_domain returned
  wanted,     \* ghost: stretch -> sid -> rights of the last set_rights
  held,       \* ghost: stretch -> retains not yet released
  destroyed   \* ghost: bag of the stretches destroy_stretch was given

vars == <<next_pdidx, pdom_tbl, pdominfo, halt, mem, lock, pc, loc,
          issued, wanted, held, destroyed>>

D == INSTANCE MmuDomains WITH StaleCallers <- FALSE

Idx == D!Idx
Sids == D!Sids
U16 == D!U16
Running == halt = "none"

NoLocals == [idx |-> 0, id |-> 0, blk |-> NULL, sid |-> 0, r |-> 0, tmp |-> 0]

Init ==
  /\ next_pdidx = 0
  /\ pdom_tbl = [i \in Idx |-> NULL]
  /\ pdominfo = [i \in Idx |-> [refcnt |-> 0, gen |-> 0, stretch |-> NULL]]
  /\ halt = "none"
  /\ mem = <<>>
  /\ lock = NoThread
  /\ pc = [t \in Threads |-> "idle"]
  /\ loc = [t \in Threads |-> NoLocals]
  /\ issued = EmptyBag
  /\ wanted = <<>>
  /\ held = <<>>
  /\ destroyed = EmptyBag

\* The ids callers present: ones create_domain returned whose slot has not
\* been given a newer generation since (live, or destroyed and not reused),
\* and a forged one
HeldIds == {id \in BagToSet(issued) : D!GenOf(id) = pdominfo[D!PDIDX(id)].gen}
CallerIds == HeldIds \cup D!ForgedIds

InUse == {i \in Idx : pdom_tbl[i] # NULL}
Bogus(id) == D!PDIDX(id) \notin InUse

\* Entering and leaving a call under the kernel-wide exclusion
Acquire(t) == IF KernelLock THEN lock = NoThread /\ lock' = t ELSE UNCHANGED lock
Leave(t)   == IF KernelLock THEN lock' = NoThread ELSE UNCHANGED lock

Goto(t, s) == pc' = [pc EXCEPT ![t] = s]
SetLoc(t, f, v) == loc' = [loc EXCEPT ![t][f] = v]
\* return from the call: locals dropped, exclusion left
Finish(t) == Goto(t, "idle") /\ loc' = [loc EXCEPT ![t] = NoLocals] /\ Leave(t)

Ghosts == <<issued, wanted, held, destroyed>>
Regs   == <<next_pdidx, pdom_tbl, pdominfo, halt, mem>>

-----------------------------------------------------------------------------
(* mmu_v1_create_domain                                                    *)

\* alloc_pdidx: i = state->next_pdidx, entered when a create may still add
\* a stretch (MaxStretch bounds the model)
CAlloc(t) ==
  /\ Running /\ pc[t] = "idle" /\ Acquire(t)
  /\ Len(mem) < MaxStretch
  /\ SetLoc(t, "idx", next_pdidx)
  /\ Goto(t, "c_scan")
  /\ UNCHANGED Regs /\ UNCHANGED Ghosts

\* Mutant: the hint stored without the wrap "% PDIDX_MAX"
CScanFoundHintNoWrap(t) ==
  /\ Running /\ pc[t] = "c_scan"
  /\ pdom_tbl[loc[t].idx] = NULL
  /\ next_pdidx' = loc[t].idx + 1
  /\ Goto(t, "c_init")
  /\ UNCHANGED <<pdom_tbl, pdominfo, halt, mem, lock, loc>> /\ UNCHANGED Ghosts

\* if (pdom_tbl[i] == NULL) { next_pdidx = (i + 1) % PDIDX_MAX; return i; }
CScanFound(t) ==
  /\ Running /\ pc[t] = "c_scan"
  /\ pdom_tbl[loc[t].idx] = NULL
  /\ next_pdidx' = (loc[t].idx + 1) % PDIDX_MAX
  /\ Goto(t, "c_init")
  /\ UNCHANGED <<pdom_tbl, pdominfo, halt, mem, lock, loc>> /\ UNCHANGED Ghosts

\* the slot is taken: i = (i + 1) % PDIDX_MAX, and the do/while test
\* i != state->next_pdidx, which reads the shared hint again
NextScan(t) == (loc[t].idx + 1) % PDIDX_MAX

CScanNext(t) ==
  /\ Running /\ pc[t] = "c_scan"
  /\ pdom_tbl[loc[t].idx] # NULL
  /\ NextScan(t) # next_pdidx
  /\ SetLoc(t, "idx", NextScan(t))
  /\ UNCHANGED <<pc, lock>> /\ UNCHANGED Regs /\ UNCHANGED Ghosts

\* back at the hint: "out of identifiers!", debug_stop
CScanExhausted(t) ==
  /\ Running /\ pc[t] = "c_scan"
  /\ pdom_tbl[loc[t].idx] # NULL
  /\ NextScan(t) = next_pdidx
  /\ halt' = "out_of_ids"
  /\ UNCHANGED <<next_pdidx, pdom_tbl, pdominfo, mem, lock, pc, loc>> /\ UNCHANGED Ghosts

\* Mutant: the generation reset along with the reference count
CInitResetsGen(t) ==
  LET idx == loc[t].idx
      s   == Len(mem) + 1
  IN /\ Running /\ pc[t] = "c_init"
     /\ pdominfo' = [pdominfo EXCEPT ![idx].refcnt = 0, ![idx].stretch = s]
     /\ mem' = Append(mem, D!ClearedBlock)
     /\ loc' = [loc EXCEPT ![t].blk = s, ![t].tmp = 0]
     /\ Goto(t, "c_gen")
     /\ wanted' = Append(wanted, [sid \in Sids |-> 0])
     /\ held' = Append(held, 0)
     /\ UNCHANGED <<next_pdidx, pdom_tbl, halt, lock, issued, destroyed>>

\* refcnt = 0; stretch = create(...); the load of gen++;
\* base = stretch->info(); clear_memory(base)
CInit(t) ==
  LET idx == loc[t].idx
      s   == Len(mem) + 1
  IN /\ Running /\ pc[t] = "c_init"
     /\ pdominfo' = [pdominfo EXCEPT ![idx].refcnt = 0, ![idx].stretch = s]
     /\ mem' = Append(mem, D!ClearedBlock)
     /\ loc' = [loc EXCEPT ![t].blk = s, ![t].tmp = pdominfo[idx].gen]
     /\ Goto(t, "c_gen")
     /\ wanted' = Append(wanted, [sid \in Sids |-> 0])
     /\ held' = Append(held, 0)
     /\ UNCHANGED <<next_pdidx, pdom_tbl, halt, lock, issued, destroyed>>

\* The store of gen++
CGen(t) ==
  /\ Running /\ pc[t] = "c_gen"
  /\ pdominfo' = [pdominfo EXCEPT ![loc[t].idx].gen = (loc[t].tmp + 1) % U16]
  /\ Goto(t, "c_publish")
  /\ UNCHANGED <<next_pdidx, pdom_tbl, halt, mem, lock, loc>> /\ UNCHANGED Ghosts

\* state->pdom_tbl[idx] = base
CPublish(t) ==
  /\ Running /\ pc[t] = "c_publish"
  /\ pdom_tbl' = [pdom_tbl EXCEPT ![loc[t].idx] = loc[t].blk]
  /\ Goto(t, "c_return")
  /\ UNCHANGED <<next_pdidx, pdominfo, halt, mem, lock, loc>> /\ UNCHANGED Ghosts

\* pdid = (uint32_t(state->pdominfo[idx].gen) << 16) | idx; return pdid
CReturn(t) ==
  /\ Running /\ pc[t] = "c_return"
  /\ issued' = issued (+) SetToBag({D!IdOf(pdominfo[loc[t].idx].gen, loc[t].idx)})
  /\ Finish(t)
  /\ UNCHANGED Regs /\ UNCHANGED <<wanted, held, destroyed>>

-----------------------------------------------------------------------------
(* The check shared by retain, release and set_rights:                     *)
(* if ((idx >= PDIDX_MAX) || (state->pdom_tbl[idx] == NULL)) debug_stop    *)

BogusCall(t) ==
  /\ Running /\ pc[t] = "idle" /\ Acquire(t)
  /\ \E id \in CallerIds : Bogus(id)
  /\ halt' = "bogus_pdom_id"
  /\ UNCHANGED <<next_pdidx, pdom_tbl, pdominfo, mem, pc, loc>> /\ UNCHANGED Ghosts

\* The check passed: the call starts on slot PDIDX(id), whose pdom_t
\* (line 235, for set_rights) it keeps in blk
Enter(t, id, step, sid, r) ==
  /\ Running /\ pc[t] = "idle" /\ Acquire(t)
  /\ ~Bogus(id)
  /\ loc' = [loc EXCEPT ![t] = [idx |-> D!PDIDX(id), id |-> id,
                                blk |-> pdom_tbl[D!PDIDX(id)], sid |-> sid, r |-> r,
                                tmp |-> 0]]
  /\ Goto(t, step)
  /\ UNCHANGED Regs /\ UNCHANGED Ghosts

-----------------------------------------------------------------------------
(* mmu_v1_retain_domain: state->pdominfo[idx].refcnt++                     *)

RLoad(t) ==
  /\ Running /\ pc[t] = "r_load"
  /\ SetLoc(t, "tmp", pdominfo[loc[t].idx].refcnt)
  /\ Goto(t, "r_store")
  /\ UNCHANGED Regs /\ UNCHANGED <<lock>> /\ UNCHANGED Ghosts

RStore(t) ==
  /\ Running /\ pc[t] = "r_store"
  /\ pdominfo' = [pdominfo EXCEPT ![loc[t].idx].refcnt = (loc[t].tmp + 1) % U16]
  /\ held' = [held EXCEPT ![loc[t].blk] = @ + 1]
  /\ Finish(t)
  /\ UNCHANGED <<next_pdidx, pdom_tbl, halt, mem, issued, wanted, destroyed>>

-----------------------------------------------------------------------------
(* mmu_v1_release_domain: if (refcnt) refcnt--; if (refcnt == 0) {         *)
(* destroy_stretch(pdominfo[idx].stretch); pdom_tbl[idx] = NULL; }         *)

LLoad(t) ==
  /\ Running /\ pc[t] = "l_load"
  /\ SetLoc(t, "tmp", pdominfo[loc[t].idx].refcnt)
  /\ Goto(t, "l_store")
  /\ UNCHANGED Regs /\ UNCHANGED <<lock>> /\ UNCHANGED Ghosts

\* Mutant: "if (refcnt)" dropped: refcnt-- at zero wraps to 65535
LStoreUnguarded(t) ==
  /\ Running /\ pc[t] = "l_store"
  /\ pdominfo' = [pdominfo EXCEPT ![loc[t].idx].refcnt = (loc[t].tmp - 1) % U16]
  /\ held' = [held EXCEPT ![loc[t].blk] = IF @ > 0 THEN @ - 1 ELSE 0]
  /\ Goto(t, "l_test")
  /\ UNCHANGED <<next_pdidx, pdom_tbl, halt, mem, lock, loc, issued, wanted, destroyed>>

LStore(t) ==
  /\ Running /\ pc[t] = "l_store"
  /\ pdominfo' = IF loc[t].tmp > 0
                   THEN [pdominfo EXCEPT ![loc[t].idx].refcnt = loc[t].tmp - 1]
                   ELSE pdominfo
  /\ held' = [held EXCEPT ![loc[t].blk] = IF @ > 0 THEN @ - 1 ELSE 0]
  /\ Goto(t, "l_test")
  /\ UNCHANGED <<next_pdidx, pdom_tbl, halt, mem, lock, loc, issued, wanted, destroyed>>

\* Mutant: the zero test made on the value loaded before the decrement
LTestBeforeDecrement(t) ==
  /\ Running /\ pc[t] = "l_test"
  /\ IF loc[t].tmp = 0
       THEN Goto(t, "l_destroy") /\ UNCHANGED <<loc, lock>>
       ELSE Finish(t)
  /\ UNCHANGED Regs /\ UNCHANGED Ghosts

LTest(t) ==
  /\ Running /\ pc[t] = "l_test"
  /\ IF pdominfo[loc[t].idx].refcnt = 0
       THEN Goto(t, "l_destroy") /\ UNCHANGED <<loc, lock>>
       ELSE Finish(t)
  /\ UNCHANGED Regs /\ UNCHANGED Ghosts

\* Mutant: the slot not cleared after destroy_stretch
LDestroyKeepsSlot(t) ==
  /\ Running /\ pc[t] = "l_destroy"
  /\ destroyed' = destroyed (+) SetToBag({pdominfo[loc[t].idx].stretch})
  /\ Finish(t)
  /\ UNCHANGED <<next_pdidx, pdom_tbl, pdominfo, halt, mem, issued, wanted, held>>

LDestroy(t) ==
  /\ Running /\ pc[t] = "l_destroy"
  /\ destroyed' = destroyed (+) SetToBag({pdominfo[loc[t].idx].stretch})
  /\ pdom_tbl' = [pdom_tbl EXCEPT ![loc[t].idx] = NULL]
  /\ Finish(t)
  /\ UNCHANGED <<next_pdidx, pdominfo, halt, mem, issued, wanted, held>>

-----------------------------------------------------------------------------
(* mmu_v1_set_rights: rights[sid>>1] &= ~mask; rights[sid>>1] |= val;     *)

Byte(t) == mem[loc[t].blk][loc[t].sid \div 2]
\* the byte written by a store step of set_rights
StoreByte(t, v) == mem' = [mem EXCEPT ![loc[t].blk][loc[t].sid \div 2] = v]

SClearLd(t) ==
  /\ Running /\ pc[t] = "s_clear_ld"
  /\ SetLoc(t, "tmp", Byte(t))
  /\ Goto(t, "s_clear_st")
  /\ UNCHANGED Regs /\ UNCHANGED <<lock>> /\ UNCHANGED Ghosts

\* Mutant: the masks swapped, clearing the sibling stretch's nibble
SClearStSwapped(t) ==
  /\ Running /\ pc[t] = "s_clear_st"
  /\ StoreByte(t, D!RightsByteSwappedMask(loc[t].tmp, loc[t].sid, 0))
  /\ Goto(t, "s_or_ld")
  /\ UNCHANGED <<next_pdidx, pdom_tbl, pdominfo, halt, lock, loc>> /\ UNCHANGED Ghosts

SClearSt(t) ==
  /\ Running /\ pc[t] = "s_clear_st"
  /\ StoreByte(t, D!RightsByte(loc[t].tmp, loc[t].sid, 0))
  /\ Goto(t, "s_or_ld")
  /\ UNCHANGED <<next_pdidx, pdom_tbl, pdominfo, halt, lock, loc>> /\ UNCHANGED Ghosts

SOrLd(t) ==
  /\ Running /\ pc[t] = "s_or_ld"
  /\ SetLoc(t, "tmp", Byte(t))
  /\ Goto(t, "s_or_st")
  /\ UNCHANGED Regs /\ UNCHANGED <<lock>> /\ UNCHANGED Ghosts

SOrSt(t) ==
  /\ Running /\ pc[t] = "s_or_st"
  /\ StoreByte(t, loc[t].tmp | D!RightsByte(0, loc[t].sid, loc[t].r))
  /\ wanted' = [wanted EXCEPT ![loc[t].blk][loc[t].sid] = loc[t].r]
  /\ Finish(t)
  /\ UNCHANGED <<next_pdidx, pdom_tbl, pdominfo, halt, issued, held, destroyed>>

Halted == ~Running /\ UNCHANGED vars

\* The model's bound on refcnt: a retain is entered only below MaxRef
RetainRoom(id) == pdominfo[D!PDIDX(id)].refcnt < MaxRef

\* The steps of a call thread t has entered, up to its return
InCall(t) ==
  \/ CScanFound(t) \/ CScanNext(t) \/ CScanExhausted(t)
  \/ CInit(t) \/ CGen(t) \/ CPublish(t) \/ CReturn(t)
  \/ RLoad(t) \/ RStore(t)
  \/ LLoad(t) \/ LStore(t) \/ LTest(t) \/ LDestroy(t)
  \/ SClearLd(t) \/ SClearSt(t) \/ SOrLd(t) \/ SOrSt(t)

Next ==
  \/ \E t \in Threads :
       \/ CAlloc(t) \/ CScanFound(t) \/ CScanNext(t) \/ CScanExhausted(t)
       \/ CInit(t) \/ CGen(t)
       \/ CPublish(t) \/ CReturn(t)
       \/ BogusCall(t)
       \/ \E id \in CallerIds :
            \/ Enter(t, id, "r_load", 0, 0) /\ RetainRoom(id)
            \/ Enter(t, id, "l_load", 0, 0)
            \/ \E sid \in Sids, r \in Rights : Enter(t, id, "s_clear_ld", sid, r)
       \/ RLoad(t) \/ RStore(t)
       \/ LLoad(t) \/ LStore(t) \/ LTest(t) \/ LDestroy(t)
       \/ SClearLd(t) \/ SClearSt(t) \/ SOrLd(t) \/ SOrSt(t)
  \/ Halted

\* Thread t is inside a call: every in-call step is guarded by Running and
\* its pc value alone (the three of c_scan cover every table state), so
\* this is ENABLED InCall(t)
InCallPending(t) == Running /\ pc[t] # "idle"

\* Spec 5: every operation is synchronous and bounded and never blocks or
\* suspends, so a call, once entered, keeps taking its steps: weak fairness
\* of each thread's in-call steps, WF_vars(InCall(t)) with its ENABLED
\* written out.  Nothing forces a thread to call.
CallFair(t) == []<>~InCallPending(t) \/ []<><<InCall(t)>>_vars

Spec == Init /\ [][Next]_vars /\ \A t \in Threads : CallFair(t)

-----------------------------------------------------------------------------

Steps == {"idle", "c_scan", "c_init", "c_gen", "c_publish", "c_return", "r_load", "r_store",
          "l_load", "l_store", "l_test", "l_destroy",
          "s_clear_ld", "s_clear_st", "s_or_ld", "s_or_st"}
Stretches == 1..Len(mem)

TypeOK ==
  /\ next_pdidx \in Idx
  /\ pdom_tbl \in [Idx -> {NULL} \cup Stretches]
  /\ pdominfo \in [Idx -> [refcnt : 0..(U16 - 1), gen : 0..(U16 - 1),
                           stretch : {NULL} \cup Stretches]]
  /\ mem \in [Stretches -> [D!Bytes -> 0..255]]
  /\ lock \in Threads \cup {NoThread}
  /\ pc \in [Threads -> Steps]
  /\ halt \in {"none", "out_of_ids", "bogus_pdom_id"}

\* A set_rights call is between its first load and its last store on (s, sid)
Writing(s, sid) ==
  \E t \in Threads : /\ pc[t] \in {"s_clear_ld", "s_clear_st", "s_or_ld", "s_or_st"}
                    /\ loc[t].blk = s /\ loc[t].sid = sid
\* A retain or release call is between its load and its store of refcnt on s
Counting(s) ==
  \E t \in Threads : pc[t] \in {"r_load", "r_store", "l_load", "l_store"} /\ loc[t].blk = s

(* Spec 4.4, 8 (generation on reuse): no two create_domain calls return    *)
(* the same id, so a released id never names a later domain.  It rests on  *)
(* alloc_pdidx's slot choice, made before pdom_tbl[idx] is set (line 178), *)
(* and on the load and store of gen++ (line 172) of concurrent creates.    *)
IdsNeverReissued == \A id \in BagToSet(issued) : CopiesIn(id, issued) = 1

(* Spec 3, 4.4, 5 (no nibble bleed, no torn write): the rights nibble of   *)
(* every stretch of every live domain holds the value of the last          *)
(* set_rights on it that returned, whenever no set_rights on that nibble   *)
(* is in progress: the &= ~mask and |= val of line 243-244 of one call     *)
(* lose no write of another call on the sibling nibble of the same byte.   *)
RightsPersist ==
  \A i \in InUse : \A sid \in Sids :
     ~Writing(pdom_tbl[i], sid) => D!Nibble(mem[pdom_tbl[i]], sid) = wanted[pdom_tbl[i]][sid]

(* Spec 3 (refcount): the refcnt of a live domain equals the retains that  *)
(* returned minus the releases that decremented, whenever no retain or     *)
(* release is between its load and store: refcnt++ (line 198) and the      *)
(* guarded refcnt-- (213-214) lose no update.                              *)
RefsCounted ==
  \A i \in InUse : ~Counting(pdom_tbl[i]) => pdominfo[i].refcnt = held[pdom_tbl[i]]

(* Spec 3, 4.4: a domain's backing stretch is destroyed at most once, by   *)
(* the release that took its refcnt to zero (the test of line 216 and the  *)
(* destroy and clear of line 218-219).                                     *)
StretchDestroyedOnce == \A s \in BagToSet(destroyed) : CopiesIn(s, destroyed) = 1

-----------------------------------------------------------------------------
(* Refinement: under the kernel-wide exclusion at most one thread, the     *)
(* lock holder, is inside a call, and each call takes effect at one step:  *)
(* create at CScanFound (alloc_pdidx's choice), retain at RStore, release  *)
(* at LStore, set_rights at SClearSt (its nibble cleared, a set to 0) and  *)
(* at SOrSt.  The mapping shows a create in progress as done and a release *)
(* that stored refcnt 0 as having freed its slot; every other step is a    *)
(* stutter of MmuDomains.                                                  *)

InCreate(i)  == lock # NoThread /\ pc[lock] \in {"c_init", "c_gen", "c_publish"}
                /\ loc[lock].idx = i
InDestroy(i) == lock # NoThread /\ pc[lock] \in {"l_test", "l_destroy"}
                /\ loc[lock].idx = i /\ pdominfo[i].refcnt = 0

AbsTbl ==
  [i \in Idx |-> IF InCreate(i) THEN D!ClearedBlock
                 ELSE IF InDestroy(i) \/ pdom_tbl[i] = NULL THEN NULL
                 ELSE mem[pdom_tbl[i]]]
AbsInfo ==
  [i \in Idx |->
     [refcnt |-> IF InCreate(i) THEN 0 ELSE pdominfo[i].refcnt,
      gen    |-> IF InCreate(i) /\ pc[lock] \in {"c_init", "c_gen"}
                   THEN (pdominfo[i].gen + 1) % U16 ELSE pdominfo[i].gen]]

A == INSTANCE MmuDomains WITH pdom_tbl <- AbsTbl, pdominfo <- AbsInfo,
                               StaleCallers <- FALSE

(* Spec 5: with the kernel-wide exclusion the split handlers behave as the *)
(* atomic ones of MmuDomains: every step of a call path is a stutter or    *)
(* one atomic create, retain, release or set_rights, on ids callers hold.  *)
(* It rests on the order of the steps inside each handler: the hint and    *)
(* slot chosen before the slot is filled, refcnt stored before it is       *)
(* tested, the nibble cleared before it is or-ed.                          *)
ImplementsMmuDomains == A!Spec

====
