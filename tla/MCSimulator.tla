---------------------------- MODULE MCSimulator -----------------------------
(***************************************************************************)
(* The simulator for TLC: the processor state of RvSim, and before its     *)
(* first step the calls to the stateless parts that RvUnits compares with  *)
(* the processor.                                                          *)
(*                                                                         *)
(* RvSim: three code addresses, the machine vector at 2 and the supervisor *)
(* vector at 1; programs that start in any mode with the timer and faults  *)
(* delegated or not; CSR writes that move between modes, touch the frames  *)
(* and acknowledge interrupts.                                             *)
(*                                                                         *)
(* RvUnits. Opcodes: every major opcode of riscv_isa.h and one that is     *)
(* none of them, with field values on both sides of every mask. Page       *)
(* tables: the root in page 0, a second table in page 1, page 2 data, page *)
(* 3 missing; entry 1 of the root and entry 1 of the second table vary,    *)
(* the others are fixed. satp names the root, a second table and the       *)
(* missing page, with and without the bit above the address space.         *)
(* Regions: one that ends inside a word, an overlapping one, one whose     *)
(* base is odd and one that ends at the top of the address space.          *)
(***************************************************************************)
EXTENDS RvSim, RvUnits
LOCAL INSTANCE Bitwise

MCAnd(x, y) == x & y
MCOr(x, y) == x | y
MCXor(x, y) == x ^^ y

MCOpcodes == {0, 3, 15, 19, 23, 35, 51, 55, 99, 103, 111, 115, 127}

Leaf == [ppn |-> 2, flags |-> {"V", "R", "X", "U"}]

RootEntries == {[ppn |-> p, flags |-> f] : p \in {0, 1, 2, 3, 5}, f \in {{"V"}, {"V", "U"}, {}}}
                 \cup [ppn: {1, 2, 3, 6}, flags: {f \in SUBSET Flags : "V" \in f}]
LastEntries == [ppn: {0, 2, 3, 6}, flags: SUBSET Flags]

Table(first, last) ==
    [p \in 0..2 |-> [i \in Idx |-> CASE p = 0 /\ i = 1 -> first
                                     [] p = 1 /\ i = 1 -> last
                                     [] OTHER -> Leaf]]

MCTables == {Table(e, Leaf) : e \in RootEntries}
              \cup {Table([ppn |-> p, flags |-> {"V"}], e) : p \in {1, 5}, e \in LastEntries}

MCSatps == {[mode |-> m, ppn |-> p] : m \in BOOLEAN, p \in {0, 3, 4, 5, 7}}

MCRegionLists == {<<Region(0, 6, 9), Region(4, 8, 9)>>,
                  <<Region(2, 4, 9), Region(8, 4, 9), Region(12, 4, 9)>>}

MCDataWords == {[l \in Lanes |-> IF l = hi THEN 200 ELSE l + 1] : hi \in Lanes}

-----------------------------------------------------------------------------
MCPresets ==
    {[ResetState(0) EXCEPT !.mpriv = p, !.mevec = 2, !.sevec = 1, !.msr = sr,
                           !.mideleg = di, !.medeleg = de, !.mie = Irqs, !.mtimecmp = 2] :
       p \in {PRIV_USER, PRIV_SUPER, PRIV_MACHINE},
       sr \in {{"SIE", "MIE"}, {}},
       di \in {{}, {IRQ_S_TIMER}}, de \in {{}, {3, 8, 12, 13}}}

MCCsrWrites ==
    {<<"mstatus", {"MPP0", "MPIE"}, TRUE, TRUE>>, <<"mstatus", {"MPP1"}, TRUE, FALSE>>,
     <<"sstatus", {"SIE"}, TRUE, TRUE>>, <<"sie", {IRQ_S_TIMER}, TRUE, TRUE>>,
     <<"mideleg", {IRQ_S_TIMER}, TRUE, FALSE>>, <<"mtime", 3, TRUE, TRUE>>,
     <<"mip", {IRQ_M_EXT}, FALSE, TRUE>>, <<"sepc", 2, TRUE, TRUE>>}

-----------------------------------------------------------------------------
SimulatorInit == Init /\ UnitsInit

(* An instruction or a call of the interface. *)
SimStep == Next /\ call = Idle /\ UNCHANGED call

(* A call to a stateless part, which leaves the processor state as it is, and its return. *)
UnitStep == Init /\ UnitsNext /\ UNCHANGED vars

SimulatorSpec == SimulatorInit /\ [][SimStep \/ UnitStep]_<<vars, call>>
=============================================================================
