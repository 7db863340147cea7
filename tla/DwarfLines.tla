----------------------------- MODULE DwarfLines -----------------------------
(***************************************************************************)
(* The DWARF line-number program decoder of parsedwarf                     *)
(* (src/src/tools/parsedwarf/dwarf_lines.cpp): the constructor of          *)
(* dwarf_debug_lines_t decodes the header, resets the registers, then      *)
(* calls lineprogram_regs_t::execute on the byte stream until the offset   *)
(* reaches the section size, appending the registers to state_matrix each  *)
(* time execute returns true.                                              *)
(*                                                                         *)
(* The line program is kept as bytes, so that every operand decode and     *)
(* every offset step of the code is modelled.  The header is abstracted to *)
(* its decoded fields (constants) and its size.  The helpers declared in   *)
(* dwarf_lines.h, which is not in the source tree (reset, address_         *)
(* increment, line_increment, uleb128_t and sleb128_t decode), follow the  *)
(* DWARF standard.                                                         *)
(***************************************************************************)
EXTENDS Integers, Sequences, SequencesExt

CONSTANTS
  Programs,       \* the line programs to decode, as instruction sequences
  UnitLengths,    \* unit_length values of the header: "dwarf32" or "dwarf64"
  HeaderSize,     \* bytes the header decode consumes
  HeaderFiles,    \* file_names entries in the header
  OpcodeBase, MinInstLen, LineBase, LineRange, DefaultIsStmt,
  MaxSteps        \* bound on the executes checked; above any program's length

VARIABLES
  phase,      \* "header", "loop", "done", or "panic"
  prog,       \* ghost: the instructions the bytes encode
  steps,      \* ghost: how many times execute has run
  bytes,      \* the line program after the header
  offset,     \* size_t offset into the section
  regs,       \* current_regs
  files,      \* number of header.file_names entries
  rows,       \* state_matrix
  ok          \* the result of the last execute

vars == <<phase, prog, steps, bytes, offset, regs, files, rows, ok>>

SectionSize == HeaderSize + Len(bytes)
\* *reinterpret_cast<uint8_t*>(from + offset); a read past the section,
\* which the code does not guard, is given the value 0
Byte(off) == IF off - HeaderSize \in 0..(Len(bytes) - 1) THEN bytes[off - HeaderSize + 1]
             ELSE 0

\* uleb128_t::decode and sleb128_t::decode: [val, off] after the operand
RECURSIVE ULEB(_, _)
ULEB(off, shift) ==
  LET b == Byte(off) IN
  IF b < 128 THEN [val |-> b * 2^shift, off |-> off + 1]
  ELSE LET rest == ULEB(off + 1, shift + 7)
       IN [val |-> (b - 128) * 2^shift + rest.val, off |-> rest.off]
RECURSIVE SLEBBits(_)
SLEBBits(off) == IF Byte(off) < 128 THEN 7 ELSE 7 + SLEBBits(off + 1)
SLEB(off) ==
  LET u == ULEB(off, 0)
      n == SLEBBits(off)
  IN [val |-> IF u.val >= 2^(n - 1) THEN u.val - 2^n ELSE u.val, off |-> u.off]
\* little-endian uint16_t / uint32_t reads
U16At(off) == Byte(off) + 256 * Byte(off + 1)
U32At(off) == U16At(off) + 65536 * U16At(off + 2)

\* lineprogram_regs_t::reset(): the DWARF initial register values
Initial == [address |-> 0, file |-> 1, line |-> 1, column |-> 0,
            is_stmt |-> DefaultIsStmt, basic_block |-> FALSE,
            end_sequence |-> FALSE, prologue_end |-> FALSE,
            epilogue_begin |-> FALSE, isa |-> 0,
            reset_to_initial |-> FALSE, reset_fields |-> FALSE]

\* address_increment / line_increment of an adjusted special opcode
address_increment(op) == op \div LineRange
line_increment(op) == LineBase + (op % LineRange)

-----------------------------------------------------------------------------
(* lineprogram_regs_t::execute(from, offset): the registers, the offset    *)
(* after the instruction, its result, and the file_names count.            *)

Res(r, off, res) == [r |-> r, off |-> off, ok |-> res, files |-> files]

\* The deferred resets at the top of execute (lines 9-18)
Prepare(r) ==
  LET r1 == IF r.reset_to_initial THEN Initial ELSE r
  IN IF r1.reset_fields
       THEN [r1 EXCEPT !.basic_block = FALSE, !.prologue_end = FALSE,
                       !.epilogue_begin = FALSE, !.reset_fields = FALSE]
       ELSE r1

\* A standard opcode with an uleb128_t operand stored in register f
SetFromULEB(r, off, f) == LET o == ULEB(off, 0) IN Res([r EXCEPT ![f] = o.val], o.off, TRUE)

AdvancePc(r, off) ==
  LET o == ULEB(off, 0) IN Res([r EXCEPT !.address = @ + o.val * MinInstLen], o.off, TRUE)

\* advance_line read as an unsigned operand
AdvanceLineUnsigned(r, off) ==
  LET o == ULEB(off, 0) IN Res([r EXCEPT !.line = @ + o.val], o.off, TRUE)

AdvanceLine(r, off) ==
  LET o == SLEB(off) IN Res([r EXCEPT !.line = @ + o.val], o.off, TRUE)

\* address += address_increment(255) * header.minimum_instruction_length
ConstAddPc(r, off) ==
  Res([r EXCEPT !.address = @ + address_increment(255) * MinInstLen], off, TRUE)

\* the operand taken as one byte wide
FixedAdvancePcNarrow(r, off) == Res([r EXCEPT !.address = @ + Byte(off)], off + 1, TRUE)

FixedAdvancePc(r, off) == Res([r EXCEPT !.address = @ + U16At(off)], off + 2, TRUE)

\* lnp_filename_t::decode: a NUL-terminated name, then three uleb128_t;
\* the offset after it
RECURSIVE StringEnd(_)
StringEnd(off) == IF Byte(off) = 0 THEN off + 1 ELSE StringEnd(off + 1)
FileNameEnd(off) ==
  IF Byte(off) = 0 THEN off + 1
  ELSE ULEB(ULEB(ULEB(StringEnd(off), 0).off, 0).off, 0).off

\* The sub-opcodes of DW_LNS_extended_op (lines 92-115), at offset off
ExtendedSub(r, sub, off) ==
  CASE sub = 1 -> Res([r EXCEPT !.end_sequence = TRUE, !.reset_to_initial = TRUE], off, TRUE)
    [] sub = 2 -> Res([r EXCEPT !.address = U32At(off)], off + 4, TRUE)
    [] sub = 3 -> [Res(r, FileNameEnd(off), TRUE) EXCEPT !.files = @ + 1]
    [] OTHER   -> Res(r, off, FALSE)              \* UNKNOWN EXTENDED OPCODE

\* DW_LNS_extended_op (lines 85-121): the length, the sub-opcode and its
\* operands, the sync check; the case has no break, so control then falls
\* into default: "UNKNOWN OPCODE", return false, on every path
Extended(r, off) ==
  LET len  == ULEB(off, 0)
      prev == len.off
      e    == ExtendedSub(r, Byte(prev), prev + 1)
  IN [e EXCEPT !.ok = FALSE]

StandardOp(op, r, off) ==
  CASE op = 1  -> Res([r EXCEPT !.reset_fields = TRUE], off, TRUE)
    [] op = 2  -> AdvancePc(r, off)
    [] op = 3  -> AdvanceLine(r, off)
    [] op = 4  -> SetFromULEB(r, off, "file")
    [] op = 5  -> SetFromULEB(r, off, "column")
    [] op = 6  -> Res([r EXCEPT !.is_stmt = ~@], off, TRUE)
    [] op = 7  -> Res([r EXCEPT !.basic_block = TRUE], off, TRUE)
    [] op = 8  -> ConstAddPc(r, off)
    [] op = 9  -> FixedAdvancePc(r, off)
    [] op = 10 -> Res([r EXCEPT !.prologue_end = TRUE], off, TRUE)
    [] op = 11 -> Res([r EXCEPT !.epilogue_begin = TRUE], off, TRUE)
    [] op = 12 -> SetFromULEB(r, off, "isa")
    [] op = 0  -> Extended(r, off)
    [] OTHER   -> Res(r, off, FALSE)              \* UNKNOWN OPCODE

\* opcode -= opcode_base; address += ...; line += ...
Special(r, op) ==
  [r EXCEPT !.address = @ + address_increment(op - OpcodeBase),
            !.line = @ + line_increment(op - OpcodeBase)]

Execute(r, off) ==
  LET op == Byte(off)
      p  == Prepare(r)
  IN IF op < OpcodeBase THEN StandardOp(op, p, off + 1)
     ELSE Res(Special(p, op), off + 1, TRUE)

-----------------------------------------------------------------------------
(* The encoding of a line program (DWARF standard, section 6.2.5): the     *)
(* inputs.  An instruction is [op, arg].                                   *)

RECURSIVE ULEBEnc(_)
ULEBEnc(a) == IF a < 128 THEN <<a>> ELSE <<(a % 128) + 128>> \o ULEBEnc(a \div 128)
SLEBEnc(a) == <<IF a < 0 THEN a + 128 ELSE a>>       \* -64 <= a < 64
U32Enc(a) == <<a % 256, (a \div 256) % 256, (a \div 65536) % 256, a \div 16777216>>

Encode(ins) ==
  CASE ins.op = "copy"             -> <<1>>
    [] ins.op = "advance_pc"       -> <<2>> \o ULEBEnc(ins.arg)
    [] ins.op = "advance_line"     -> <<3>> \o SLEBEnc(ins.arg)
    [] ins.op = "set_file"         -> <<4>> \o ULEBEnc(ins.arg)
    [] ins.op = "set_column"       -> <<5>> \o ULEBEnc(ins.arg)
    [] ins.op = "negate_stmt"      -> <<6>>
    [] ins.op = "set_basic_block"  -> <<7>>
    [] ins.op = "const_add_pc"     -> <<8>>
    [] ins.op = "fixed_advance_pc" -> <<9, ins.arg % 256, ins.arg \div 256>>
    [] ins.op = "set_prologue_end" -> <<10>>
    [] ins.op = "set_epilogue_begin" -> <<11>>
    [] ins.op = "set_isa"          -> <<12>> \o ULEBEnc(ins.arg)
    [] ins.op = "special"          -> <<ins.arg>>
    [] ins.op = "end_sequence"     -> <<0, 1, 1>>
    [] ins.op = "set_address"      -> <<0, 5, 2>> \o U32Enc(ins.arg)
    [] ins.op = "define_file"      -> <<0, 6, 3, 97, 0, 0, 0, 0>>

EncodeAll(p) == FlattenSeq([i \in DOMAIN p |-> Encode(p[i])])

-----------------------------------------------------------------------------
(* dwarf_debug_lines_t::dwarf_debug_lines_t                                 *)

Init ==
  /\ prog \in Programs
  /\ bytes = EncodeAll(prog)
  /\ phase = "header"
  /\ steps = 0
  /\ offset = 0
  /\ regs = Initial
  /\ files = 0
  /\ rows = <<>>
  /\ ok = TRUE

\* header.decode(start, offset); current_regs.reset()
HeaderDecode ==
  /\ phase = "header"
  /\ \E ul \in UnitLengths :
       IF ul = "dwarf64"
         THEN phase' = "panic" /\ UNCHANGED <<offset, files>>  \* PANIC("DWARF64 ...")
         ELSE phase' = "loop" /\ offset' = HeaderSize /\ files' = HeaderFiles
  /\ regs' = Initial
  /\ UNCHANGED <<prog, steps, bytes, rows, ok>>

\* the loop condition written offset <= size
StepPastEnd ==
  /\ phase = "loop"
  /\ offset <= SectionSize
  /\ steps < MaxSteps
  /\ LET e == Execute(regs, offset) IN
       /\ regs' = e.r
       /\ offset' = e.off
       /\ files' = e.files
       /\ ok' = e.ok
       /\ rows' = IF e.ok THEN Append(rows, e.r) ELSE rows
  /\ steps' = steps + 1
  /\ UNCHANGED <<phase, prog, bytes>>

\* while (offset < size) if (current_regs.execute(start, offset))
\*                           state_matrix.push_back(current_regs);
\* An execute beyond MaxSteps is not taken: a loop still running then has
\* no step left, and DecoderTerminates fails rather than being cut off.
Step ==
  /\ phase = "loop"
  /\ offset < SectionSize
  /\ steps < MaxSteps
  /\ LET e == Execute(regs, offset) IN
       /\ regs' = e.r
       /\ offset' = e.off
       /\ files' = e.files
       /\ ok' = e.ok
       /\ rows' = IF e.ok THEN Append(rows, e.r) ELSE rows
  /\ steps' = steps + 1
  /\ UNCHANGED <<phase, prog, bytes>>

\* the loop left only once the offset is past the section
LoopExitPastEnd ==
  /\ phase = "loop"
  /\ offset > SectionSize
  /\ phase' = "done"
  /\ UNCHANGED <<prog, steps, bytes, offset, regs, files, rows, ok>>

LoopExit ==
  /\ phase = "loop"
  /\ offset >= SectionSize
  /\ phase' = "done"
  /\ UNCHANGED <<prog, steps, bytes, offset, regs, files, rows, ok>>

Next == HeaderDecode \/ Step \/ LoopExit

Spec == Init /\ [][Next]_vars /\ WF_vars(Next)

-----------------------------------------------------------------------------

Regs == [address : Nat, file : Nat, line : Int, column : Nat, is_stmt : BOOLEAN,
         basic_block : BOOLEAN, end_sequence : BOOLEAN, prologue_end : BOOLEAN,
         epilogue_begin : BOOLEAN, isa : Nat, reset_to_initial : BOOLEAN,
         reset_fields : BOOLEAN]

TypeOK ==
  /\ phase \in {"header", "loop", "done", "panic"}
  /\ offset \in 0..SectionSize
  /\ regs \in Regs
  /\ files \in Nat
  /\ rows \in Seq(Regs)
  /\ ok \in BOOLEAN

\* Reference: the DWARF line-number state machine on the registers that
\* name a source position, one instruction at a time (DWARF 3, 6.2.5).
Position(r) == [address |-> r.address, line |-> r.line, file |-> r.file,
                column |-> r.column, is_stmt |-> r.is_stmt, isa |-> r.isa]
RefStep(r, ins) ==
  LET adj == ins.arg - OpcodeBase IN
  CASE ins.op = "advance_pc"   -> [r EXCEPT !.address = @ + ins.arg * MinInstLen]
    [] ins.op = "advance_line" -> [r EXCEPT !.line = @ + ins.arg]
    [] ins.op = "set_file"     -> [r EXCEPT !.file = ins.arg]
    [] ins.op = "set_column"   -> [r EXCEPT !.column = ins.arg]
    [] ins.op = "negate_stmt"  -> [r EXCEPT !.is_stmt = ~@]
    [] ins.op = "const_add_pc" ->
         [r EXCEPT !.address = @ + ((255 - OpcodeBase) \div LineRange) * MinInstLen]
    [] ins.op = "fixed_advance_pc" -> [r EXCEPT !.address = @ + ins.arg]
    [] ins.op = "set_isa"      -> [r EXCEPT !.isa = ins.arg]
    [] ins.op = "special"      ->
         [r EXCEPT !.address = @ + (adj \div LineRange) * MinInstLen,
                   !.line = @ + LineBase + (adj % LineRange)]
    [] ins.op = "end_sequence" -> Position(Initial)
    [] ins.op = "set_address"  -> [r EXCEPT !.address = ins.arg]
    [] OTHER                   -> r
\* The registers as the next execute sees them: reset_to_initial pending
\* means the initial values
Effective(r) == IF r.reset_to_initial THEN Initial ELSE r
Done == SubSeq(prog, 1, IF steps <= Len(prog) THEN steps ELSE Len(prog))

(* The decode loop consumes exactly one instruction per execute: after k   *)
(* executes the offset is the end of the k-th instruction, however its     *)
(* operands are encoded (uleb128, sleb128, fixed uint16, the extended      *)
(* opcodes' length field and uint32 address, a define_file entry).  Off    *)
(* by one, execute would read operands as opcodes for the rest of the      *)
(* section.                                                                 *)
DecodesOnBoundaries ==
  phase = "loop" => offset = HeaderSize + Len(EncodeAll(Done))

(* After every execute, the position registers (address, line, file,       *)
(* column, is_stmt, isa) are those the DWARF state machine has after the   *)
(* same instructions: each opcode's arithmetic, the deferred reset after   *)
(* end_sequence, and the sign of advance_line's operand.                   *)
RegistersMatchReference ==
  phase = "loop" => Position(Effective(regs)) = FoldLeft(RefStep, Position(Initial), Done)

(* Every instruction of the opcode set execute implements is accepted:     *)
(* execute returns true, and the constructor appends the registers to      *)
(* state_matrix.  Only an unknown opcode or a stream out of sync may       *)
(* return false (the printf diagnostics of lines 113, 118 and 123).        *)
ExtendedOpsAccepted == phase = "loop" /\ steps > 0 => ok

(* The constructor's decode loop ends, whatever the program, within one   *)
(* execute per instruction: every execute moves the offset forward (line   *)
(* 7), so the loop exits once it reaches the section size.  An execute     *)
(* that consumed nothing, or an exit test that misses the size, leaves the *)
(* loop running at MaxSteps with no step enabled.  Weak fairness: the      *)
(* constructor is one sequential loop, which keeps running while it can.   *)
DecoderTerminates == <>(phase \in {"done", "panic"})

====
