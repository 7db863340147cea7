---------------------------- MODULE MeddlerLexer ----------------------------
(***************************************************************************)
(* The lexer of meddler, the IDL compiler (src/src/tools/meddler/         *)
(* lexer.cpp), driven the way the parser drives it: get_token is called    *)
(* again and again until it returns eof.  One call of get_token is one     *)
(* step; its recursion (whitespace, comments) and its scans happen inside  *)
(* the step.                                                               *)
(*                                                                         *)
(* The buffer is a sequence of characters, each a string naming it ("sp",  *)
(* "nl", "nul" for space, newline and an embedded NUL byte).  Position p   *)
(* is cur_ptr as a 1-based index; Len(buf) + 1 is the terminating NUL at   *)
(* getBufferEnd().  The symbol table holds what populate_symbol_table puts *)
(* in it (Words).  Digits are 1 to 9 only, so strtol's base-0 prefixes     *)
(* (0 for octal, 0x for hex) do not arise.                                 *)
(***************************************************************************)
EXTENDS Integers, Sequences

CONSTANTS
  Buffers,    \* the input files
  Words       \* symbol-table entries: character sequence -> token kind

VARIABLES
  buf,        \* the MemoryBuffer contents
  pos,        \* cur_ptr
  tokens      \* the tokens get_token returned, as [kind, val]

vars == <<buf, pos, tokens>>

EOF == "EOF"
Letters == {"i", "n", "x"}
Digits == {"1", "8"}
DigitValue(c) == IF c = "1" THEN 1 ELSE 8

\* the character at cur_ptr; the terminating NUL past the buffer
Char(p) == IF p <= Len(buf) THEN buf[p] ELSE "end"

\* get_next_char without the --cur_ptr at the end of the buffer
NextCharPastEnd(p) ==
  IF p <= Len(buf) THEN [c |-> buf[p], p |-> p + 1] ELSE [c |-> EOF, p |-> p + 1]

\* get_next_char: a NUL inside the buffer reads as 0 ("nul"), the
\* terminating one as EOF without moving cur_ptr
NextChar(p) ==
  IF p <= Len(buf) THEN [c |-> buf[p], p |-> p + 1] ELSE [c |-> EOF, p |-> p]

\* skip_line_comment: up to, not past, the end of the line
RECURSIVE SkipLineComment(_)
SkipLineComment(p) ==
  IF Char(p) = "nl" THEN p
  ELSE LET n == NextChar(p) IN IF n.c = EOF THEN n.p ELSE SkipLineComment(n.p)

is_label_char(c) == c \in Letters \cup Digits \cup {"."}
is_number_char(c) == c \in Digits \cup {"x", "X"}

\* the loops of get_identifier and get_cardinal: the first position at or
\* after p that is not a label character, or not a number character
RECURSIVE LabelRunEnd(_)
LabelRunEnd(p) == IF is_label_char(Char(p)) THEN LabelRunEnd(p + 1) ELSE p
RECURSIVE NumberRunEnd(_)
NumberRunEnd(p) ==
  IF is_number_char(Char(p)) \/ Char(p) \in Letters \cup Digits THEN NumberRunEnd(p + 1) ELSE p

\* symbols->lookup(symbol): the kind of a known word, else identifier
KindOf(w) == IF w \in DOMAIN Words THEN Words[w] ELSE "identifier"

\* get_identifier without the --start_ptr: the word from cur_ptr
GetIdentifierFromCur(p) ==
  LET e == LabelRunEnd(p) IN
  [kind |-> KindOf(SubSeq(buf, p, e - 1)), val |-> 0, p |-> e]

\* get_identifier, called after the first character was read
GetIdentifier(p) ==
  LET e == LabelRunEnd(p) IN
  [kind |-> KindOf(SubSeq(buf, p - 1, e - 1)), val |-> 0, p |-> e]

\* strtol(symbol, &end, 0) on a run of digits and letters: the value of
\* its leading digits; *end is '\0' only if all are digits.  token_val is
\* read only for a cardinal, so an error token carries 0
RECURSIVE DecimalValue(_, _)
DecimalValue(s, v) ==
  IF s = <<>> \/ Head(s) \notin Digits THEN v
  ELSE DecimalValue(Tail(s), 10 * v + DigitValue(Head(s)))
AllDigits(s) == \A k \in DOMAIN s : s[k] \in Digits

\* get_cardinal, called after the first digit was read
GetCardinal(p) ==
  LET e == NumberRunEnd(p)
      s == SubSeq(buf, p - 1, e - 1)
  IN IF is_label_char(Char(e)) THEN [kind |-> "error", val |-> 0, p |-> e]
     ELSE IF AllDigits(s) THEN [kind |-> "cardinal", val |-> DecimalValue(s, 0), p |-> e]
     ELSE [kind |-> "error", val |-> 0, p |-> e]

Punct == [c \in {",", ">"} |-> IF c = "," THEN "comma" ELSE "greater"]

Tok(k, p) == [kind |-> k, val |-> 0, p |-> p]

\* get_token from cur_ptr p (next_kind is none: the parser's lexback, in
\* lexer.h, is not part of the model)
RECURSIVE GetToken(_)
GetToken(p) ==
  LET n == NextChar(p) IN
  CASE n.c = EOF -> Tok("eof", n.p)
    [] n.c \in {"nul", "sp", "nl"} -> GetToken(n.p)
    [] n.c = "#" ->
         LET m == NextChar(n.p) IN
         IF m.c = "#" THEN Tok("autodoc", SkipLineComment(m.p))
         ELSE GetToken(SkipLineComment(m.p - 1))
    [] n.c \in Digits -> GetCardinal(n.p)
    [] n.c = "=" ->
         LET m == NextChar(n.p) IN
         IF m.c = ">" THEN Tok("dblarrow", m.p) ELSE Tok("equal", m.p - 1)
    [] n.c \in DOMAIN Punct -> Tok(Punct[n.c], n.p)
    [] OTHER -> GetIdentifier(n.p)

\* lexer_t::init: cur_ptr at the buffer start
Init ==
  /\ buf \in Buffers
  /\ pos = 1
  /\ tokens = <<>>

LastKind == IF tokens = <<>> THEN "none" ELSE tokens[Len(tokens)].kind

\* the parser calls get_token until it sees eof
Lex ==
  /\ LastKind # "eof"
  /\ LET t == GetToken(pos) IN
       /\ pos' = t.p
       /\ tokens' = Append(tokens, [kind |-> t.kind, val |-> t.val])
  /\ UNCHANGED buf

Next == Lex

Spec == Init /\ [][Next]_vars

-----------------------------------------------------------------------------

Kinds == {"eof", "autodoc", "cardinal", "error", "dblarrow", "equal", "comma",
          "greater", "identifier"} \cup {Words[w] : w \in DOMAIN Words}

TypeOK ==
  /\ pos \in 1..(Len(buf) + 1)
  /\ tokens \in Seq([kind : Kinds, val : Nat])

(* Reference: the token language of the comments in lexer.cpp and of the  *)
(* parser's grammar, read off the buffer left to right: blanks and NULs    *)
(* separate tokens, '#' starts a comment and '##' an autodoc line that     *)
(* run to the end of the line, a label [a-zA-Z._0-9]+ is a keyword or an   *)
(* identifier, a decimal integer [0-9]+ not followed by a label character  *)
(* is a cardinal (a run of letters and digits that is not, or that is     *)
(* followed by '.', is an error), '=>' '=' ',' '>' are punctuation; then   *)
(* eof.                                                                    *)
LineEnd(b, k) == IF \E j \in k..Len(b) : b[j] = "nl"
                   THEN CHOOSE j \in k..Len(b) : b[j] = "nl" /\ \A i \in k..(j - 1) : b[i] # "nl"
                   ELSE Len(b) + 1
LabelEnd(b, k) == IF \E j \in k..Len(b) : ~is_label_char(b[j])
                    THEN CHOOSE j \in k..Len(b) : ~is_label_char(b[j]) /\ \A i \in k..(j - 1) : is_label_char(b[i])
                    ELSE Len(b) + 1
At(b, k) == IF k <= Len(b) THEN b[k] ELSE "end"
AlnumEnd(b, k) == IF \E j \in k..Len(b) : b[j] \notin Letters \cup Digits
                    THEN CHOOSE j \in k..Len(b) : b[j] \notin Letters \cup Digits
                                                /\ \A i \in k..(j - 1) : b[i] \in Letters \cup Digits
                    ELSE Len(b) + 1
Ref(k, v) == <<[kind |-> k, val |-> v]>>
RECURSIVE RefTokens(_, _)
RefTokens(b, k) ==
  IF k > Len(b) THEN Ref("eof", 0)
  ELSE LET c == b[k] IN
  CASE c \in {"sp", "nl", "nul"} -> RefTokens(b, k + 1)
    [] c = "#" /\ At(b, k + 1) = "#" -> Ref("autodoc", 0) \o RefTokens(b, LineEnd(b, k + 2))
    [] c = "#" -> RefTokens(b, LineEnd(b, k + 1))
    [] c \in Digits ->
         LET e == AlnumEnd(b, k)
             w == SubSeq(b, k, e - 1)
         IN IF AllDigits(w) /\ At(b, e) # "."
              THEN Ref("cardinal", DecimalValue(w, 0)) \o RefTokens(b, e)
              ELSE Ref("error", 0) \o RefTokens(b, e)
    [] c = "=" /\ At(b, k + 1) = ">" -> Ref("dblarrow", 0) \o RefTokens(b, k + 2)
    [] c = "=" -> Ref("equal", 0) \o RefTokens(b, k + 1)
    [] c \in DOMAIN Punct -> Ref(Punct[c], 0) \o RefTokens(b, k + 1)
    [] OTHER ->
         LET e == LabelEnd(b, k + 1) IN
         Ref(KindOf(SubSeq(b, k, e - 1)), 0) \o RefTokens(b, e)

(* The tokens get_token has returned so far are the first tokens of the    *)
(* reference token sequence of the buffer, kinds and cardinal values: the  *)
(* pointer back-ups after '#' and '=' and at EOF land on the right         *)
(* character, comments end at the line, and numbers and labels end where  *)
(* the grammar ends them.                                                  *)
TokensMatchReference ==
  LET r == RefTokens(buf, 1) IN
  Len(tokens) <= Len(r) /\ tokens = SubSeq(r, 1, Len(tokens))

(* Every get_token that does not return eof consumes input: cur_ptr moves  *)
(* forward, so a parser that keeps asking gets to the end of the file.    *)
TokenConsumesInput ==
  [][LastKind' # "eof" => pos' > pos]_vars

====
