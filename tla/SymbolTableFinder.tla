------------------------- MODULE SymbolTableFinder -------------------------
(***************************************************************************)
(* symbol_table_finder_t (src/src/kernel/generic/symbol_table_finder.h):  *)
(* the two scans of an ELF symbol table, find_symbol(addr, symbol_start)   *)
(* and find_symbol(str).  Each scan is a loop over the entries; the model  *)
(* takes one step per iteration, with the loop variables (i, max,          *)
(* fallback_symbol) as state.                                              *)
(*                                                                         *)
(* A symbol is [value, size, name, type].  The string table is abstracted: *)
(* a name is a model value, and the cstring_t returned is the index of the *)
(* symbol whose name it is (0 for NULL).  address_t is AddrBits wide, so   *)
(* value + size wraps modulo 2^AddrBits as the 32-bit sum does.            *)
(***************************************************************************)
EXTENDS Integers, Sequences

CONSTANTS
  Tables,     \* the symbol tables to search, sequences of symbols
  Queries,    \* [kind |-> "addr", addr |-> a] or [kind |-> "name", name |-> n]
  AddrBits    \* width of address_t

VARIABLES
  tab,        \* the symbol table
  query,      \* the call: its kind and argument
  phase,      \* "scan", "done" or "panic"
  i,          \* the loop index, 1-based
  max,        \* address_t max
  fallback,   \* fallback_symbol as an index, 0 for NULL
  result,     \* addr: the index of the symbol whose name is returned, 0 for NULL;
              \* name: the address_t returned
  start       \* *symbol_start

vars == <<tab, query, phase, i, max, fallback, result, start>>

Addr == 0..(2^AddrBits - 1)
\* symbol->value + symbol->size in address_t
EndOf(s) == (s.value + s.size) % 2^AddrBits
Covers(s, a) == a >= s.value /\ a < EndOf(s)

Init ==
  /\ tab \in Tables
  /\ query \in Queries
  /\ phase = "scan"
  /\ i = 1
  /\ max = 0
  /\ fallback = 0
  /\ result = 0
  /\ start = 0

Return(r, st) == phase' = "done" /\ result' = r /\ start' = st

-----------------------------------------------------------------------------
(* find_symbol(addr, symbol_start)                                          *)

\* the first symbol whose [value, value + size) holds addr is returned
AddrMatch ==
  /\ phase = "scan" /\ query.kind = "addr"
  /\ i <= Len(tab)
  /\ Covers(tab[i], query.addr)
  /\ Return(i, tab[i].value)
  /\ UNCHANGED <<tab, query, i, max, fallback>>

\* the fallback test taken with >= : the last of equal values wins
AddrNextGreaterEq ==
  /\ phase = "scan" /\ query.kind = "addr"
  /\ i <= Len(tab)
  /\ ~Covers(tab[i], query.addr)
  /\ IF tab[i].value >= max /\ tab[i].value <= query.addr
       THEN max' = tab[i].value /\ fallback' = i
       ELSE UNCHANGED <<max, fallback>>
  /\ i' = i + 1
  /\ UNCHANGED <<tab, query, phase, result, start>>

\* otherwise the symbol becomes the fallback if its value is above max and
\* not above addr
AddrNext ==
  /\ phase = "scan" /\ query.kind = "addr"
  /\ i <= Len(tab)
  /\ ~Covers(tab[i], query.addr)
  /\ IF tab[i].value > max /\ tab[i].value <= query.addr
       THEN max' = tab[i].value /\ fallback' = i
       ELSE UNCHANGED <<max, fallback>>
  /\ i' = i + 1
  /\ UNCHANGED <<tab, query, phase, result, start>>

\* the fallback returned from the loop index instead of fallback_symbol
AddrFallbackFromIndex ==
  /\ phase = "scan" /\ query.kind = "addr"
  /\ i > Len(tab)
  /\ fallback # 0
  /\ Return(i, tab[fallback].value)
  /\ UNCHANGED <<tab, query, i, max, fallback>>

\* after the loop: the fallback symbol, if any
AddrFallback ==
  /\ phase = "scan" /\ query.kind = "addr"
  /\ i > Len(tab)
  /\ fallback # 0
  /\ Return(fallback, tab[fallback].value)
  /\ UNCHANGED <<tab, query, i, max, fallback>>

\* else NULL, with *symbol_start = 0
AddrNull ==
  /\ phase = "scan" /\ query.kind = "addr"
  /\ i > Len(tab)
  /\ fallback = 0
  /\ Return(0, 0)
  /\ UNCHANGED <<tab, query, i, max, fallback>>

-----------------------------------------------------------------------------
(* find_symbol(str)                                                         *)

\* a name match that does not leave the loop
NameMatchContinue ==
  /\ phase = "scan" /\ query.kind = "name"
  /\ i <= Len(tab)
  /\ tab[i].name = query.name
  /\ IF tab[i].type = "section"
       THEN phase' = "panic" /\ UNCHANGED result
       ELSE result' = tab[i].value /\ UNCHANGED phase
  /\ i' = i + 1
  /\ UNCHANGED <<tab, query, max, fallback, start>>

\* a match returns the symbol's value, or PANICs for a section symbol
NameMatch ==
  /\ phase = "scan" /\ query.kind = "name"
  /\ i <= Len(tab)
  /\ tab[i].name = query.name
  /\ IF tab[i].type = "section"
       THEN phase' = "panic" /\ UNCHANGED <<result, start>>  \* PANIC("FINDING SECTION NAMES ...")
       ELSE Return(tab[i].value, start)
  /\ UNCHANGED <<tab, query, i, max, fallback>>

NameNext ==
  /\ phase = "scan" /\ query.kind = "name"
  /\ i <= Len(tab)
  /\ tab[i].name # query.name
  /\ i' = i + 1
  /\ UNCHANGED <<tab, query, phase, max, fallback, result, start>>

\* not found: return 0
NameNone ==
  /\ phase = "scan" /\ query.kind = "name"
  /\ i > Len(tab)
  /\ Return(0, start)
  /\ UNCHANGED <<tab, query, i, max, fallback>>

Next ==
  \/ AddrMatch \/ AddrNext \/ AddrFallback \/ AddrNull
  \/ NameMatch \/ NameNext \/ NameNone

Spec == Init /\ [][Next]_vars

-----------------------------------------------------------------------------

TypeOK ==
  /\ phase \in {"scan", "done", "panic"}
  /\ i \in 1..(Len(tab) + 1)
  /\ max \in Addr
  /\ fallback \in 0..Len(tab)
  /\ result \in IF query.kind = "addr" THEN 0..Len(tab) ELSE Addr
  /\ start \in Addr

Least(S) == CHOOSE k \in S : \A j \in S : k <= j

\* What the comments of find_symbol(addr) promise: the first symbol whose
\* extent holds addr (exact arithmetic: an ELF extent does not wrap), else
\* "a biggest symbol value less than addr (if found)", else NULL
Documented(t, a) ==
  LET hit   == {k \in DOMAIN t : t[k].value <= a /\ a < t[k].value + t[k].size}
      below == {k \in DOMAIN t : t[k].value <= a}
      best  == {k \in below : \A j \in below : t[j].value <= t[k].value}
  IN IF hit # {} THEN Least(hit) ELSE IF below # {} THEN Least(best) ELSE 0

NoSymbolAtZero(t) == \A k \in DOMAIN t : t[k].value # 0
NoWrap(t) == \A k \in DOMAIN t : t[k].value + t[k].size < 2^AddrBits

\* A finished address lookup returned the documented symbol and its start
AddrLookupAgrees ==
  phase = "done" /\ query.kind = "addr" =>
    LET d == Documented(tab, query.addr) IN
    /\ result = d
    /\ start = IF d = 0 THEN 0 ELSE tab[d].value

(* find_symbol(addr) returns the first symbol that holds addr, otherwise   *)
(* the closest symbol below addr, otherwise NULL, for every table without  *)
(* a symbol at address 0 and without an extent that wraps address_t.       *)
(* Breaking it takes the right interleaving of containing, preceding and   *)
(* equal-valued entries in the scan order.                                 *)
AddrLookupAsDocumented ==
  NoSymbolAtZero(tab) /\ NoWrap(tab) => AddrLookupAgrees

(* find_symbol(str) returns the value of the first symbol of that name,    *)
(* 0 when there is none, and stops with a PANIC when the first match is a  *)
(* section symbol; a later entry of the same name is never consulted.      *)
NameLookupFirstMatch ==
  phase \in {"done", "panic"} /\ query.kind = "name" =>
    LET m == {k \in DOMAIN tab : tab[k].name = query.name} IN
    IF m = {} THEN phase = "done" /\ result = 0
    ELSE IF tab[Least(m)].type = "section" THEN phase = "panic"
    ELSE phase = "done" /\ result = tab[Least(m)].value

====
