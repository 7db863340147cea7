---------------------------- MODULE MCDwarfLines ----------------------------
(* Line programs for checking DwarfLines with TLC: up to MaxLen            *)
(* instructions from Instrs, which covers every standard opcode, the three *)
(* extended ones, special opcodes at both ends of the range, one- and two- *)
(* byte uleb128 operands and a negative sleb128 operand.                    *)
EXTENDS DwarfLines

CONSTANTS MaxLen, WithConstAddPc

I(o, a) == [op |-> o, arg |-> a]

Base == {I("copy", 0), I("advance_pc", 3), I("advance_pc", 200), I("advance_line", -2),
         I("set_file", 2), I("set_column", 7), I("negate_stmt", 0),
         I("set_basic_block", 0), I("fixed_advance_pc", 300),
         I("set_prologue_end", 0), I("set_epilogue_begin", 0), I("set_isa", 1),
         I("special", 13), I("special", 255),
         I("end_sequence", 0), I("set_address", 4096), I("define_file", 0)}

Instrs == Base \cup (IF WithConstAddPc THEN {I("const_add_pc", 0)} ELSE {})

MCPrograms == SeqOf(Instrs, MaxLen)

MCLineBase == -5

\* one execute per instruction, and one more for a loop that runs on
MCMaxSteps == MaxLen + 1
====
