--------------------------- MODULE MCMeddlerLexer ---------------------------
(* Every buffer of up to MaxLen characters from Chars: letters that spell  *)
(* the keyword "in" and other labels, digits, '.', which also spells the   *)
(* dotdot symbol "..", '#', '=', '>', ',', blanks and an embedded NUL.     *)
(* TrailingEqual says whether a buffer may end with '='.                   *)
EXTENDS MeddlerLexer, SequencesExt

CONSTANTS MaxLen, TrailingEqual

Chars == {"i", "n", "x", "1", "8", ".", "#", "=", ">", ",", "sp", "nl", "nul"}

\* the entries of populate_symbol_table that these characters can spell
MCWords == (<<".", ".">> :> "dotdot") @@ (<<"i", "n">> :> "kw_in")

MCBuffers == {b \in SeqOf(Chars, MaxLen) :
                TrailingEqual \/ b = <<>> \/ b[Len(b)] # "="}

\* a lexer that keeps returning tokens stops being explored past this
TokenBound == Len(tokens) <= MaxLen + 2
====
