------------------------- MODULE MCMmuDomainsSteps -------------------------
(* Instance of MmuDomainsSteps for TLC: the bounds MaxStretch and MaxRef   *)
(* are guards of the module's actions, so no state constraint cuts a call  *)
(* short and CallsReturn is checked on whole behaviours.                   *)
EXTENDS MmuDomainsSteps

ThreadSymmetry == Permutations(Threads)
====
