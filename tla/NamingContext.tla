---------------------------- MODULE NamingContext ----------------------------
(***************************************************************************)
(* The naming context of context_mod                                      *)
(* (src/src/modules/context_mod/naming_context.cpp): create_context makes  *)
(* a context with an empty context_map; list, get, add, remove and destroy *)
(* act on that map.  The map is an unordered_map<const char*, any> with    *)
(* std::hash and std::equal_to on the pointer, so a key is a pointer and   *)
(* the text it points to is never read.  Each call is one step: the code   *)
(* is sequential and takes no lock.  out is what the last call returned.   *)
(***************************************************************************)
CONSTANTS
  Ctx,        \* the contexts create_context may make
  Ptrs,       \* key_type values (const char*) callers pass
  Vals,       \* types::any values
  Missing     \* no entry in the map

VARIABLES created, map, out

vars == <<created, map, out>>

Empty == [p \in Ptrs |-> Missing]

Init ==
  /\ created = {}
  /\ map = [c \in Ctx |-> Empty]
  /\ out = [op |-> "none"]

\* new(heap) state_t(alloc, heap): an empty map; closure_init
CreateContext(c) ==
  /\ c \notin created
  /\ created' = created \cup {c}
  /\ map' = [map EXCEPT ![c] = Empty]
  /\ out' = [op |-> "create"]

\* the names of the map's keys, in no particular order
List(c) ==
  /\ c \in created
  /\ out' = [op |-> "list", keys |-> {p \in Ptrs : map[c][p] # Missing}]
  /\ UNCHANGED <<created, map>>

\* get with find dropped: the iterator taken as found
GetUnchecked(c, p) ==
  /\ c \in created
  /\ out' = [op |-> "get", found |-> TRUE, val |-> map[c][p]]
  /\ UNCHANGED <<created, map>>

\* map.find(key): true and the value, or false
Get(c, p) ==
  /\ c \in created
  /\ out' = [op |-> "get", found |-> map[c][p] # Missing, val |-> map[c][p]]
  /\ UNCHANGED <<created, map>>

\* add as an assignment, map[key] = value
AddOverwrites(c, p, v) ==
  /\ c \in created
  /\ map' = [map EXCEPT ![c][p] = v]
  /\ out' = [op |-> "add"]
  /\ UNCHANGED created

\* map.insert(make_pair(key, value)): no effect when key is present
Add(c, p, v) ==
  /\ c \in created
  /\ map' = [map EXCEPT ![c][p] = IF @ = Missing THEN v ELSE @]
  /\ out' = [op |-> "add"]
  /\ UNCHANGED created

\* find, and erase if found
Remove(c, p) ==
  /\ c \in created
  /\ map' = [map EXCEPT ![c][p] = Missing]
  /\ out' = [op |-> "remove"]
  /\ UNCHANGED created

\* map.clear(); the state and the closure stay allocated and usable
Destroy(c) ==
  /\ c \in created
  /\ map' = [map EXCEPT ![c] = Empty]
  /\ out' = [op |-> "destroy"]
  /\ UNCHANGED created

Next ==
  \E c \in Ctx :
    \/ CreateContext(c) \/ Destroy(c) \/ List(c)
    \/ \E p \in Ptrs : \/ Get(c, p) \/ Remove(c, p)
                       \/ \E v \in Vals : Add(c, p, v)

Spec == Init /\ [][Next]_vars

-----------------------------------------------------------------------------

TypeOK ==
  /\ created \subseteq Ctx
  /\ map \in [Ctx -> [Ptrs -> Vals \cup {Missing}]]
  /\ out.op = "get" => IF out.found THEN out.val \in Vals ELSE out.val = Missing

====
