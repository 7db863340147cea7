-------------------------- MODULE ProtectionDomains --------------------------
(***************************************************************************)
(* What the protection domain registry promises (spec sections 3, 4.4, 7,  *)
(* 8), free of the packed encodings of the implementation:                 *)
(*   - create_domain returns an id never returned before, and halts only   *)
(*     when MaxDomains domains are live;                                   *)
(*   - retain/release/set_rights act on the domain the id names, and halt  *)
(*     on any id that does not name a live domain (out of range, released, *)
(*     or of an older generation of a reused slot);                        *)
(*   - a domain's rights are one value per stretch id; set_rights changes  *)
(*     exactly the one it is given;                                        *)
(*   - release drops a reference if there is one and destroys the domain   *)
(*     when none is left.                                                  *)
(* MmuDomains implements this specification (MCMmuDomains).               *)
(***************************************************************************)
EXTENDS Integers, FiniteSets

CONSTANTS
  IdSpace,      \* every id the model may issue or a caller may present
  MaxDomains,   \* how many domains may be live at once
  Sids,         \* stretch ids
  Rights        \* rights values

VARIABLES
  status,       \* id -> "unused" | "live" | "dead"
  refs,         \* id -> reference count of a live domain
  rights,       \* id -> (stretch id -> rights) of a live domain
  halt          \* "none", or why the kernel stopped

avars == <<status, refs, rights, halt>>

NoRights == [s \in Sids |-> 0]
Live == {id \in IdSpace : status[id] = "live"}

AInit ==
  /\ status = [id \in IdSpace |-> "unused"]
  /\ refs = [id \in IdSpace |-> 0]
  /\ rights = [id \in IdSpace |-> NoRights]
  /\ halt = "none"

ARunning == halt = "none"

Stop(why) ==
  /\ halt' = why
  /\ UNCHANGED <<status, refs, rights>>

ACreate ==
  /\ ARunning
  /\ Cardinality(Live) < MaxDomains
  /\ \E id \in IdSpace :
       /\ status[id] = "unused"
       /\ status' = [status EXCEPT ![id] = "live"]
       /\ refs' = [refs EXCEPT ![id] = 0]
       /\ rights' = [rights EXCEPT ![id] = NoRights]
  /\ UNCHANGED halt

ACreateExhausted ==
  /\ ARunning
  /\ Cardinality(Live) = MaxDomains
  /\ Stop("out_of_ids")

ARejectId(id) ==
  /\ ARunning
  /\ status[id] # "live"
  /\ Stop("bogus_pdom_id")

ARetain(id) ==
  /\ ARunning
  /\ status[id] = "live"
  /\ refs' = [refs EXCEPT ![id] = @ + 1]
  /\ UNCHANGED <<status, rights, halt>>

ARelease(id) ==
  /\ ARunning
  /\ status[id] = "live"
  /\ IF refs[id] <= 1
       THEN /\ status' = [status EXCEPT ![id] = "dead"]
            /\ refs' = [refs EXCEPT ![id] = 0]
            /\ rights' = [rights EXCEPT ![id] = NoRights]
       ELSE /\ refs' = [refs EXCEPT ![id] = @ - 1]
            /\ UNCHANGED <<status, rights>>
  /\ UNCHANGED halt

ASetRights(id, s, r) ==
  /\ ARunning
  /\ status[id] = "live"
  /\ rights' = [rights EXCEPT ![id][s] = r]
  /\ UNCHANGED <<status, refs, halt>>

AHalted ==
  /\ ~ARunning
  /\ UNCHANGED avars

ANext ==
  \/ ACreate
  \/ ACreateExhausted
  \/ \E id \in IdSpace :
       \/ ARejectId(id)
       \/ ARetain(id)
       \/ ARelease(id)
       \/ \E s \in Sids, r \in Rights : ASetRights(id, s, r)
  \/ AHalted

ASpec == AInit /\ [][ANext]_avars

=============================================================================
