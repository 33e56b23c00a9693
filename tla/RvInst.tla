------------------------------- MODULE RvInst -------------------------------
(***************************************************************************)
(* How the instruction-set simulator recognises an instruction: the        *)
(* encodings of riscv_isa.h, the chain of tests in Riscv::execute, the     *)
(* chain of tests in the disassembler (riscv_inst_decode), and the tests   *)
(* of the processor's own decoder (riscv_decoder.v) they are compared      *)
(* with.                                                                   *)
(*                                                                         *)
(* An opcode is the record of its fields; funct7 is split into f6 and b25, *)
(* because the shift-immediate masks cover six of its seven bits.  A mask  *)
(* is a set of fields, so an encoding "(opcode & MASK) == VALUE" is the    *)
(* record of the fields it tests.  Immediates outside these fields do not  *)
(* take part in decoding.                                                  *)
(***************************************************************************)
EXTENDS Naturals, Sequences, FiniteSets

CONSTANTS Opcodes, Rds, Rs1s, Rs2s, F6s

(* The opcodes that are tried: every combination of the chosen field values. *)
Words == [op: Opcodes, rd: Rds, f3: 0..7, rs1: Rs1s, rs2: Rs2s, b25: 0..1, f6: F6s]

Match(w, p) == \A f \in DOMAIN p : w[f] = p[f]

-----------------------------------------------------------------------------
(* The mask groups: 0x7f, 0x707f, 0xfc00707f, 0xfe00707f, 0xffffffff. *)
Op(o)         == [op |-> o]
OpF3(o, f)    == [op |-> o, f3 |-> f]
OpF6(o, f, h) == [op |-> o, f3 |-> f, f6 |-> h]
OpF7(o, f, h) == [op |-> o, f3 |-> f, f6 |-> h \div 2, b25 |-> h % 2]
Whole(h, r2)  == [op |-> 115, rd |-> 0, f3 |-> 0, rs1 |-> 0, rs2 |-> r2,
                  b25 |-> h % 2, f6 |-> h \div 2]

AluEncoding ==
    [andi |-> OpF3(19, 7), addi |-> OpF3(19, 0), slti |-> OpF3(19, 2),
     sltiu |-> OpF3(19, 3), ori |-> OpF3(19, 6), xori |-> OpF3(19, 4),
     slli |-> OpF6(19, 1, 0), srli |-> OpF6(19, 5, 0), srai |-> OpF6(19, 5, 16),
     lui |-> Op(55), auipc |-> Op(23),
     add |-> OpF7(51, 0, 0), sub |-> OpF7(51, 0, 32), slt |-> OpF7(51, 2, 0),
     sltu |-> OpF7(51, 3, 0), xor |-> OpF7(51, 4, 0), or |-> OpF7(51, 6, 0),
     and |-> OpF7(51, 7, 0), sll |-> OpF7(51, 1, 0), srl |-> OpF7(51, 5, 0),
     sra |-> OpF7(51, 5, 32)]

MemEncoding ==
    [jal |-> Op(111), jalr |-> OpF3(103, 0),
     beq |-> OpF3(99, 0), bne |-> OpF3(99, 1), blt |-> OpF3(99, 4),
     bge |-> OpF3(99, 5), bltu |-> OpF3(99, 6), bgeu |-> OpF3(99, 7),
     lb |-> OpF3(3, 0), lh |-> OpF3(3, 1), lw |-> OpF3(3, 2),
     lbu |-> OpF3(3, 4), lhu |-> OpF3(3, 5), lwu |-> OpF3(3, 6),
     sb |-> OpF3(35, 0), sh |-> OpF3(35, 1), sw |-> OpF3(35, 2)]

(* sfence tests funct7, rd and f3 but no source register; wfi tests all but f3. *)
SystemEncoding ==
    [ecall |-> Whole(0, 0), ebreak |-> Whole(0, 1),
     sfence |-> [op |-> 115, rd |-> 0, f3 |-> 0, b25 |-> 1, f6 |-> 4],
     fence |-> OpF3(15, 0), ifence |-> OpF3(15, 1),
     mret |-> Whole(24, 2), sret |-> Whole(8, 2),
     csrrw |-> OpF3(115, 1), csrrs |-> OpF3(115, 2), csrrc |-> OpF3(115, 3),
     csrrwi |-> OpF3(115, 5), csrrsi |-> OpF3(115, 6), csrrci |-> OpF3(115, 7),
     wfi |-> [op |-> 115, rd |-> 0, rs1 |-> 0, rs2 |-> 5, b25 |-> 0, f6 |-> 4]]

MulDivEncoding ==
    [mul |-> OpF7(51, 0, 1), mulh |-> OpF7(51, 1, 1), mulhsu |-> OpF7(51, 2, 1),
     mulhu |-> OpF7(51, 3, 1), div |-> OpF7(51, 4, 1), divu |-> OpF7(51, 5, 1),
     rem |-> OpF7(51, 6, 1), remu |-> OpF7(51, 7, 1)]

Encoding ==
    [n \in DOMAIN AluEncoding \cup DOMAIN MemEncoding \cup DOMAIN SystemEncoding
             \cup DOMAIN MulDivEncoding |->
       CASE n \in DOMAIN AluEncoding -> AluEncoding[n]
         [] n \in DOMAIN MemEncoding -> MemEncoding[n]
         [] n \in DOMAIN SystemEncoding -> SystemEncoding[n]
         [] n \in DOMAIN MulDivEncoding -> MulDivEncoding[n]]

-----------------------------------------------------------------------------
(* The name of an instruction is the first of a chain whose encoding matches. *)
FirstMatch(w, chain) ==
    LET hits == {i \in DOMAIN chain : Match(w, Encoding[chain[i]])}
    IN  IF hits = {} THEN "invalid"
        ELSE chain[CHOOSE i \in hits : \A j \in hits : i <= j]

(* Riscv::execute: the order of the else-if chain. *)
ExecuteAlu == <<"andi", "ori", "xori", "addi", "slti", "sltiu", "slli", "srli", "srai",
                "lui", "auipc", "add", "sub", "slt", "sltu", "xor", "or", "and",
                "sll", "srl", "sra">>
ExecuteJumps == <<"jal", "jalr", "beq", "bne", "blt", "bge", "bltu", "bgeu">>
ExecuteMem == <<"lb", "lh", "lw", "lbu", "lhu", "lwu", "sb", "sh", "sw">>
ExecuteMulDiv == <<"mul", "mulh", "mulhsu", "mulhu", "div", "divu", "rem", "remu">>
\* Mutant: wfi is tested before the CSR instructions.
WfiFirst == <<"ecall", "ebreak", "mret", "sret", "sfence", "fence", "ifence", "wfi",
              "csrrw", "csrrs", "csrrc", "csrrwi", "csrrsi", "csrrci">>

ExecuteSystem == <<"ecall", "ebreak", "mret", "sret", "sfence", "fence", "ifence",
                   "csrrw", "csrrs", "csrrc", "csrrwi", "csrrsi", "csrrci", "wfi">>

(* An opcode of all zeros is refused before the chain is tried. *)
ExecuteName(w) ==
    IF \A f \in DOMAIN w : w[f] = 0 THEN "invalid"
    ELSE FirstMatch(w, ExecuteAlu \o ExecuteJumps \o ExecuteMem \o ExecuteMulDiv
                         \o ExecuteSystem)

(* riscv_inst_decode: the disassembler's own chain. *)
DumpImm == <<"andi", "ori", "xori", "addi", "slti", "sltiu", "slli", "srli", "srai",
             "lui", "auipc">>
DumpReg == <<"add", "sub", "slt", "sltu", "xor", "or", "and", "sll", "srl", "sra">>
DumpJumps == <<"jal", "jalr", "beq", "bne", "blt", "bge", "bltu", "bgeu">>
DumpMem == <<"lb", "lh", "lw", "lbu", "lhu", "lwu", "sb", "sh", "sw">>
DumpMulDiv == <<"mul", "mulh", "mulhsu", "mulhu", "div", "divu", "rem", "remu">>
DumpSystem == <<"ecall", "ebreak", "mret", "sret", "sfence", "fence", "ifence",
                "csrrw", "csrrs", "csrrc", "csrrwi", "csrrsi", "csrrci", "wfi">>

DumpName(w) == FirstMatch(w, DumpImm \o DumpReg \o DumpJumps \o DumpMem \o DumpMulDiv
                              \o DumpSystem)

-----------------------------------------------------------------------------
(* Instructions of execute that do not write a register: they set rd to 0. *)
NoWriteback == {"beq", "bne", "blt", "bge", "bltu", "bgeu", "sb", "sh", "sw", "invalid"}

(* execute writes reg_rd, which is 0 unless the instruction set it, into every rd
   but r0.                                                                       *)
ExecuteWrites(w) == w.rd # 0 /\ ExecuteName(w) \notin NoWriteback

(* riscv_decoder.v: the return instructions are one pattern that ignores the two
   privilege bits of the opcode, so it covers uret and hret too.                  *)
RtlReturn(w) == /\ w.op = 115 /\ w.f3 = 0 /\ w.rd = 0 /\ w.rs1 = 0 /\ w.rs2 = 2
                /\ w.b25 = 0 /\ w.f6 \in {0, 4, 8, 12}

RtlAccepts(w) ==
    \/ RtlReturn(w)
    \/ \E n \in DOMAIN Encoding \ {"mret", "sret"} : Match(w, Encoding[n])

(* rd_valid_o: by instruction class rather than by exclusion. *)
RtlRdValid(w) ==
    \/ w.op \in {111, 55, 23}
    \/ w.op = 103 /\ w.f3 = 0
    \/ w.op = 19 /\ (w.f3 \notin {1, 5} \/ (w.f6 = 0 \/ (w.f3 = 5 /\ w.f6 = 16)))
    \/ w.op = 51 /\ (w.f6 = 0 \/ (w.f6 = 16 /\ w.b25 = 0 /\ w.f3 \in {0, 5}))
    \/ w.op = 3 /\ w.f3 \notin {3, 7}
    \/ w.op = 115 /\ w.f3 \notin {0, 4}

-----------------------------------------------------------------------------
(* The encodings leave no opcode two meanings but one: a CSR access to stvec with
   rd and rs1 zero also matches wfi, whose mask skips f3.  The chains test the CSR
   instructions first.                                                            *)
Ambiguous(w) == {n \in DOMAIN Encoding : Match(w, Encoding[n])}

DecodeExact(w) ==
    /\ DumpName(w) = ExecuteName(w)
    /\ (ExecuteName(w) # "invalid") <=> (RtlAccepts(w) /\ ~(RtlReturn(w) /\ w.f6 \in {0, 8}))
    /\ (ExecuteWrites(w) /\ w.op # 15) <=> (RtlRdValid(w) /\ w.rd # 0)
    /\ Cardinality(Ambiguous(w)) > 1 =>
          \E n \in {"csrrw", "csrrs", "csrrc", "csrrwi", "csrrsi", "csrrci"} :
             Ambiguous(w) = {n, "wfi"}
=============================================================================
