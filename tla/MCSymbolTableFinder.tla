------------------------ MODULE MCSymbolTableFinder ------------------------
(* Symbol tables of up to MaxLen entries for TLC.  Values 0, 2 and 12 and  *)
(* sizes 0, 3 and 6 give empty, disjoint, overlapping and (12 + 6 past     *)
(* 2^4) wrapping extents; addresses 1, 4, 13 and 15 fall below, between,   *)
(* inside and past them.  Two names give duplicates and misses.            *)
EXTENDS SymbolTableFinder, SequencesExt

CONSTANTS MaxLen, N1, N2

Symbols == [value : {0, 2, 12}, size : {0, 3, 6}, name : {N1, N2},
            type : {"func", "section"}]

MCTables == SeqOf(Symbols, MaxLen)

MCQueries == {[kind |-> "addr", addr |-> a] : a \in {1, 4, 13, 15}}
             \cup {[kind |-> "name", name |-> n] : n \in {N1, N2}}
====
