--------------------------- MODULE AsmGheithDecode ---------------------------
(***************************************************************************)
(* The asm_gheith instruction decoder (translation/asm_gheith/mod.rs):    *)
(* TryFrom<u16> for I, as an operator over 16-bit words built from the     *)
(* code's own masks and shifts.  The encoding table in the comment at the  *)
(* top of that file is the reference it is checked against, written with   *)
(* arithmetic on bit positions instead of masks.                           *)
(*                                                                         *)
(* The state machine is a translator handed one signal sample after        *)
(* another: each step decodes the next 16-bit word.                        *)
(***************************************************************************)
EXTENDS Naturals, Bitwise

CONSTANT Words   \* the 16-bit words the translator may be given

ASSUME Words \subseteq 0..65535

\* pub enum I and ConversionError::UnknownOpcode, as records tagged by op.
Reg == 0..15
Byte == 0..255
JumpOps == <<"JZ", "JNZ", "JS", "JNS">>
MemOps == <<"LD", "ST">>
Instructions ==
    [op : {"SUB"}, rt : Reg, ra : Reg, rb : Reg]
    \cup [op : {"MOVL", "MOVH"}, rt : Reg, i : Byte]
    \cup [op : {"JZ", "JNZ", "JS", "JNS", "LD", "ST"}, rt : Reg, ra : Reg]
Errors == [op : {"UnknownOpcode"}, value : 0..65535]

\* The fields, each as the code extracts it.  `as u8` never truncates:
\* every masked and shifted field is below 256.
Opcode(value) == shiftR(value & 61440, 12)        \* (value & 0xF000) >> 12
\* rt read with a five-bit mask
RegTWide(value) == value & 31
RegT(value) == value & 15                         \* value & 0xF
RegA(value) == shiftR(value & 3840, 8)            \* (value & 0xF00) >> 8
\* the selector read from the ra nibble
SubOpFromRa(value) == shiftR(value & 3840, 8)
SubOp(value) == shiftR(value & 240, 4)            \* (value & 0xF0) >> 4
Immediate(value) == shiftR(value & 65280, 8)      \* (value & 0xFF00) >> 8

\* TryFrom<u16> for I: SUB takes rb from the selector nibble, jumps and
\* memory operations select on it, every other pattern is
\* Err(UnknownOpcode(value)).
TryFrom(value) ==
    LET rt == RegT(value)
        ra == RegA(value)
        sub == SubOp(value)
    IN CASE Opcode(value) = 0 -> [op |-> "SUB", rt |-> rt, ra |-> ra, rb |-> sub]
         [] Opcode(value) = 8 -> [op |-> "MOVL", rt |-> rt, i |-> Immediate(value)]
         [] Opcode(value) = 9 -> [op |-> "MOVH", rt |-> rt, i |-> Immediate(value)]
         [] Opcode(value) = 14 /\ sub <= 3 -> [op |-> JumpOps[sub + 1], rt |-> rt, ra |-> ra]
         [] Opcode(value) = 15 /\ sub <= 1 -> [op |-> MemOps[sub + 1], rt |-> rt, ra |-> ra]
         [] OTHER -> [op |-> "UnknownOpcode", value |-> value]

-----------------------------------------------------------------------------
(* The reference: the encoding table, read as bit ranges.                  *)

Bits(v, hi, lo) == (v \div 2^lo) % 2^(hi - lo + 1)

Documented(v) ==
    LET t == Bits(v, 3, 0)
        a == Bits(v, 11, 8)
        b == Bits(v, 7, 4)
    IN CASE Bits(v, 15, 12) = 0 -> [op |-> "SUB", rt |-> t, ra |-> a, rb |-> b]
         [] Bits(v, 15, 12) = 8 -> [op |-> "MOVL", rt |-> t, i |-> Bits(v, 11, 4)]
         [] Bits(v, 15, 12) = 9 -> [op |-> "MOVH", rt |-> t, i |-> Bits(v, 11, 4)]
         [] Bits(v, 15, 12) = 14 /\ b <= 3 -> [op |-> JumpOps[b + 1], rt |-> t, ra |-> a]
         [] Bits(v, 15, 12) = 15 /\ b <= 1 -> [op |-> MemOps[b + 1], rt |-> t, ra |-> a]
         [] OTHER -> [op |-> "UnknownOpcode", value |-> v]

-----------------------------------------------------------------------------
VARIABLES value, insn

vars == <<value, insn>>

\* The translator starts on any sample.
Init == value \in Words /\ insn = TryFrom(value)

\* The signal moves on to the next word (wrapping as a u16 counter does)
\* and the translator decodes it.
Decode ==
    LET v == (value + 1) % 65536
    IN /\ v \in Words
       /\ value' = v
       /\ insn' = TryFrom(v)

Next == Decode

Spec == Init /\ [][Next]_vars

TypeOK == value \in Words /\ insn \in Instructions \cup Errors

\* Every word the table gives no instruction is rejected as UnknownOpcode,
\* every other word decodes to the table's operation and registers; only
\* the MOVL/MOVH immediate is left out of the comparison.
AgreesExceptImmediate ==
    LET d == Documented(value)
    IN /\ insn.op = d.op
       /\ IF d.op \in {"MOVL", "MOVH"} THEN insn.rt = d.rt ELSE insn = d

\* TryFrom decodes every word exactly as the encoding table in the file's
\* comment says, the movl/movh immediate (bits 4..11) included.
DecodeMatchesTable == insn = Documented(value)

=============================================================================
