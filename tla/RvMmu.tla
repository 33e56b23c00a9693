------------------------------- MODULE RvMmu --------------------------------
(***************************************************************************)
(* The two-level address translation of the instruction-set simulator      *)
(* (mmu_walk, mmu_i_translate, mmu_d_translate) and of the processor       *)
(* (riscv_mmu.v), which co-simulation expects to agree.                    *)
(*                                                                         *)
(* An address is its page number; the offset in the page is copied by both *)
(* sides.  A page number has two indices of IdxBits bits.  Memory is a     *)
(* function from the pages that exist to their entries; an entry is a      *)
(* physical page number and a set of flags out of V, R, W, X and U.        *)
(***************************************************************************)
EXTENDS Naturals, FiniteSets, RvBits

CONSTANTS IdxBits,   \* bits of an index (10)
          PhysBits,  \* bits of a page number of the 32-bit address space (20)
          PpnBits    \* bits of the page number of an entry (22)

ASSUME MmuAssumption == /\ IdxBits \in Nat \ {0}
                        /\ PhysBits = 2 * IdxBits
                        /\ PpnBits \in Nat /\ PpnBits >= PhysBits
                        /\ \A n \in 0 .. (2^PpnBits - 1) : BitOr(n, 0) = n

Idx == 0 .. (2^IdxBits - 1)
Vpn == 0 .. (2^(2 * IdxBits) - 1)
Ppn == 0 .. (2^PpnBits - 1)
Flags == {"V", "R", "W", "X", "U"}
Pte == [ppn: Ppn, flags: SUBSET Flags]
NoPte == [ppn |-> 0, flags |-> {}]

(* A table address is computed in 32 bits. *)
TablePage(ppn) == ppn % 2^PhysBits

(* The index of a page number at level 1 or 0. *)
VpnIdx(vpn, i) == (vpn \div 2^(i * IdxBits)) % 2^IdxBits

Pointer(pte) == pte.flags \cap {"R", "W", "X"} = {}

-----------------------------------------------------------------------------
(* Riscv::mmu_walk.  One round reads the entry of level i in the page base; the
   walk ends with no entry, with a leaf whose page number is completed by the rest
   of the virtual one, or goes on a level down.  A leaf that points outside memory,
   or outside the address space (an assertion), ends the simulation.  The loop
   counter is unsigned, so below level 0 the walk goes on with shifts by negative
   amounts: whatever it returns.                                                   *)
Outcome(kind, pte) == [kind |-> kind, pte |-> pte]

WalkLevel(mem, vpn, base, i, below) ==
    IF base \notin DOMAIN mem THEN Outcome("pte", NoPte)
    ELSE LET pte == mem[base][VpnIdx(vpn, i)]
         IN  IF "V" \notin pte.flags THEN Outcome("pte", NoPte)
             ELSE IF Pointer(pte) THEN below[TablePage(pte.ppn)]
             ELSE LET page == BitOr(pte.ppn, vpn % 2^(i * IdxBits))
                  IN  IF page \in DOMAIN mem
                      THEN Outcome("pte", [pte EXCEPT !.ppn = page])
                      ELSE Outcome("exit", NoPte)

mmu_walk(mem, satp, vpn) ==
    IF ~satp.mode
    THEN Outcome("pte", [ppn |-> vpn, flags |-> {"V", "R", "W", "X"}])
    ELSE LET level0 == [p \in 0 .. (2^PhysBits - 1) |->
                          WalkLevel(mem, vpn, p, 0, [q \in 0 .. (2^PhysBits - 1) |->
                                                        Outcome("undefined", NoPte)])]
         IN  WalkLevel(mem, vpn, TablePage(satp.ppn), 1, level0)

Reserved(f) == f \cap {"R", "W", "X"} \in {{"W"}, {"W", "X"}}

(* The checks of mmu_i_translate and mmu_d_translate: a page fault, the end of the
   simulation, or the page to use.                                                 *)
FetchCheck(priv, f) ==
    IF Reserved(f) THEN "fault"
    ELSE IF priv = "S"
    THEN IF "U" \in f THEN "exit" ELSE IF "X" \notin f THEN "fault" ELSE "ok"
    ELSE IF {"X", "U"} \subseteq f THEN "ok" ELSE "fault"

\* Mutant: the SUM bit is not looked at.
DataCheckNoSum(priv, sum, right, f) ==
    IF Reserved(f) \/ right \notin f \/ (priv = "U" /\ "U" \notin f) THEN "fault" ELSE "ok"

DataCheck(priv, sum, right, f) ==
    IF Reserved(f) THEN "fault"
    ELSE IF priv = "S"
    THEN IF "U" \in f /\ ~sum THEN "exit" ELSE IF right \notin f THEN "fault" ELSE "ok"
    ELSE IF {right, "U"} \subseteq f THEN "ok" ELSE "fault"

(* access is "X", "R" or "W". *)
Translate(mem, satp, priv, sum, access, vpn) ==
    IF priv = "M" THEN [kind |-> "ok", page |-> vpn]
    ELSE LET walk == mmu_walk(mem, satp, vpn)
             f == walk.pte.flags
             check == IF access = "X" THEN FetchCheck(priv, f)
                      ELSE DataCheck(priv, sum, access, f)
             kind == IF walk.kind = "pte" THEN check ELSE walk.kind
         IN  [kind |-> kind, page |-> IF kind = "ok" THEN walk.pte.ppn ELSE 0]

-----------------------------------------------------------------------------
(* riscv_mmu.v: which accesses look for an entry.  A fetch below machine level does
   whatever the mode of satp; a load or store only with translation on.  The others
   go on with the address they have.                                              *)
RtlWalking(satp, priv, access) == priv # "M" /\ (access = "X" \/ satp.mode)

(* The entry of the root, and whether it points to a table outside memory. *)
RtlFirst(mem, satp, vpn) ==
    LET root == TablePage(satp.ppn)
    IN  IF root \in DOMAIN mem THEN mem[root][VpnIdx(vpn, 1)] ELSE NoPte

TableMissing(mem, satp, vpn) ==
    LET first == RtlFirst(mem, satp, vpn)
    IN  "V" \in first.flags /\ Pointer(first) /\ TablePage(first.ppn) \notin DOMAIN mem

(* The entries its walk may put in the TLB.  At the first level an error answer (a
   root outside memory) is no entry; at the second it is not looked at, and whatever
   word comes with the error is taken for the entry.                                *)
RtlEntries(mem, satp, vpn) ==
    LET first == RtlFirst(mem, satp, vpn)
        table == TablePage(first.ppn)
        answers == IF table \in DOMAIN mem THEN {mem[table][VpnIdx(vpn, 0)]} ELSE Pte
    IN  IF "V" \notin first.flags THEN {NoPte}
        ELSE IF ~Pointer(first) THEN {[first EXCEPT !.ppn = BitOr(@, VpnIdx(vpn, 0))]}
        ELSE {IF "V" \in e.flags THEN e ELSE NoPte : e \in answers}

(* The faults of an entry. *)
RtlFault(priv, sum, mxr, access, f) ==
    LET needs == CASE access = "X" -> {"X"}
                   [] access = "R" -> IF priv = "S" /\ mxr /\ "X" \in f THEN {"X"} ELSE {"R"}
                   [] access = "W" -> {"R", "W"}
    IN  \/ ~(needs \subseteq f)
        \/ priv = "U" /\ "U" \notin f
        \/ priv = "S" /\ "U" \in f /\ (access = "X" \/ ~sum)

(* The entries a walk may meet that both sides give a meaning: no reserved
   combination of rights, and no pointer in a last-level table.             *)
WellFormed(mem, satp, vpn) ==
    /\ \A p \in DOMAIN mem : \A i \in Idx : ~Reserved(mem[p][i].flags)
    /\ mmu_walk(mem, satp, vpn).kind # "undefined"

(* Where the processor walks with translation on, the simulator translates exactly what
   the processor translates, to the same page, and faults (or gives up) where it faults,
   but for a last-level table that is missing: there the simulator faults and the
   processor has any entry.  Where the processor does not walk, the address stands on
   both sides, but in user mode: the entry mmu_walk makes up without translation has no
   U, so the simulator faults.  A fetch without translation is not compared: the
   processor walks from satp.ppn all the same.                                           *)
SameTranslation(mem, satp, priv, sum, access, vpn) ==
    LET sim == Translate(mem, satp, priv, sum, access, vpn)
        SameAs(entry) ==
            LET faults == RtlFault(priv, sum, FALSE, access, entry.flags)
            IN  /\ sim.kind = "ok" => ~faults /\ sim.page = TablePage(entry.ppn)
                /\ sim.kind = "fault" => faults \/ TableMissing(mem, satp, vpn)
                /\ sim.kind = "exit" => faults \/ entry.ppn \notin DOMAIN mem
    IN  /\ RtlWalking(satp, priv, access) /\ satp.mode /\ WellFormed(mem, satp, vpn) =>
             \A entry \in RtlEntries(mem, satp, vpn) : SameAs(entry)
        /\ ~RtlWalking(satp, priv, access) =>
             IF priv = "U" THEN sim.kind = "fault" ELSE sim = [kind |-> "ok", page |-> vpn]
=============================================================================
