------------------------------ MODULE RvUnits -------------------------------
(***************************************************************************)
(* The stateless parts of the instruction-set simulator side by side with  *)
(* the parts of the processor they stand for: one call at a time of the    *)
(* decoders, the arithmetic, the address translation or the memory, with   *)
(* every input of the chosen sets.                                         *)
(***************************************************************************)
EXTENDS RvInst, RvAlu, RvMmu, RvMemory

CONSTANTS Tables,      \* memories with page tables
          Satps,       \* values of satp
          RegionLists, \* tables of memory regions
          DataWords    \* words that are stored

(* Regions as create_memory makes them. *)
FreshRegions == {Region(base, size, tail) :
                   base \in 0 .. (Space - 1), size \in 0 .. (Space - 1), tail \in 0 .. 255}

ASSUME UnitsAssumption ==
    /\ \A mem \in Tables : /\ DOMAIN mem \subseteq 0 .. (2^PhysBits - 1)
                           /\ mem \in [DOMAIN mem -> [Idx -> Pte]]
    /\ Satps \subseteq [mode: BOOLEAN, ppn: Ppn]
    /\ RegionLists \subseteq Seq(FreshRegions) /\ DataWords \subseteq Word

VARIABLE call

Idle == [unit |-> "none"]

UnitsInit == call = Idle

(* Riscv::execute, riscv_inst_decode and riscv_decoder.v look at an opcode. *)
DecodeCall == /\ call = Idle
              /\ \E w \in Words : call' = [unit |-> "decode", w |-> w]

(* An instruction with two operands is computed. *)
ComputeCall == /\ call = Idle
               /\ \E op \in AluOps \cup BranchOps \cup MulOps \cup DivOps, a, b \in Reg :
                    call' = [unit |-> "compute", op |-> op, a |-> a, b |-> b]

(* A fetch, load or store address is translated. *)
TranslateCall ==
    /\ call = Idle
    /\ \E mem \in Tables, satp \in Satps, priv \in {"U", "S", "M"}, sum \in BOOLEAN,
          access \in {"X", "R", "W"}, vpn \in Vpn :
         call' = [unit |-> "translate", mem |-> mem, satp |-> satp, priv |-> priv,
                  sum |-> sum, access |-> access, vpn |-> vpn]

(* A store and then a load by physical address. *)
AccessCall ==
    /\ call = Idle
    /\ \E regions \in RegionLists, a, b \in 0 .. (Space - 1), width, lwidth \in {1, 2, 4},
          data \in DataWords, signed \in BOOLEAN :
         call' = [unit |-> "access", regions |-> regions, a |-> a, width |-> width,
                  data |-> data, b |-> b, lwidth |-> lwidth, signed |-> signed]

CallReturns == call # Idle /\ call' = Idle

UnitsNext == DecodeCall \/ ComputeCall \/ TranslateCall \/ AccessCall \/ CallReturns

UnitsSpec == UnitsInit /\ [][UnitsNext]_call

-----------------------------------------------------------------------------
(* The chain of Riscv::execute, the disassembler's chain and the processor's decoder
   give every opcode the same meaning: the same instruction or none (the processor
   also accepts uret and hret), and the same decision to write rd (a fence with a
   destination is the one instruction the simulator writes and the processor does
   not).  No opcode has two meanings but a CSR access to stvec that also reads as
   wfi, so the order of the chains matters only there.                            *)
DecodersAgree == call.unit = "decode" => DecodeExact(call.w)

(* Whatever the operands (zero divisor, most negative dividend, mixed signs), the C
   expressions of Riscv::execute and the processor's shifter, comparators,
   multiplier and iterative divider compute the same value.                         *)
ArithmeticAgrees ==
    call.unit = "compute" =>
        /\ call.op \in AluOps => SameAlu(call.op, call.a, call.b)
        /\ call.op \in BranchOps => SameBranch(call.op, call.a, call.b)
        /\ call.op \in MulOps => SameMul(call.op, call.a, call.b)
        /\ call.op \in DivOps => SameDiv(call.op, call.a, call.b)

(* For page tables both sides give a meaning, the simulator and the processor's MMU
   translate the same accesses to the same page and refuse the same ones, a missing
   last-level table, a user without translation and a fetch without it apart
   (SameTranslation).                                                                *)
TranslationAgrees ==
    call.unit = "translate" =>
        SameTranslation(call.mem, call.satp, call.priv, call.sum, call.access, call.vpn)

(* The regions, words and lanes behind Riscv::load and Riscv::store are one flat
   little-endian array of bytes, for every access that stays inside a region: a store
   changes the bytes it names, a load of any width and sign returns them.            *)
MemoryIsFlat ==
    call.unit = "access" =>
        AccessExact(call.regions, call.a, call.width, call.data, call.b, call.lwidth,
                    call.signed)
=============================================================================
