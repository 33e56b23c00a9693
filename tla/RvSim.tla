------------------------------- MODULE RvSim --------------------------------
(***************************************************************************)
(* The processor state of the instruction-set simulator (class Riscv) and  *)
(* what a step does to it: privilege, traps and returns, interrupts, the   *)
(* timer, CSR accesses, breakpoints.                                       *)
(*                                                                         *)
(* The program in memory is arbitrary: each step executes an instruction   *)
(* of any kind.  Code addresses are 0 .. PcMod-1, one per instruction.  A  *)
(* status or interrupt register is the set of its bits that are one; MPP   *)
(* is the two bits MPP0 and MPP1.  Translation faults may happen below     *)
(* machine mode.  Registers that only carry data to the program (general   *)
(* registers, scratch and cause registers) are left out: RvAlu, RvMmu and  *)
(* RvMemory model what is computed.                                        *)
(***************************************************************************)
EXTENDS Naturals, Sequences, FiniteSets, SequencesExt

CONSTANTS PcMod,       \* number of code addresses
          TimeMod,     \* the timer counts modulo this (2^32)
          MaxInsts,    \* bound on the executed instructions
          MaxBps,      \* bound on the breakpoint list
          BpAddrs,     \* the addresses breakpoints are set on
          CsrWrites,   \* the CSR accesses programs make: <<register, data, set, clr>>
          Presets,     \* register values a debugger sets before running
          Devices      \* whether set_interrupt may be called

(* Programs replace the address registers (csrrw) and do not set bits of them. *)
AddressCsrs == {"mepc", "sepc", "mtvec", "stvec"}
CsrNames == {"mstatus", "sstatus", "mie", "sie", "mip", "sip", "mideleg", "medeleg"}

VARIABLES cpu,     \* registers, CSRs and the break flag
          bps,     \* m_breakpoints
          insts,   \* m_stats[STATS_INSTRUCTIONS]
          status,  \* "run", "exit" (exit was called) or "abort" (an assertion failed)
          seen     \* what the properties remember (no part of the program)

vars == <<cpu, bps, insts, status, seen>>

-----------------------------------------------------------------------------
Addr == 0 .. (PcMod - 1)
After(pc) == (pc + 1) % PcMod

PRIV_USER == 0
PRIV_SUPER == 1
PRIV_MACHINE == 3

StatusBits == {"SIE", "MIE", "SPIE", "MPIE", "SPP", "MPP0", "MPP1"}
SModeBits == {"SIE", "SPIE", "SPP"}
MPP(msr) == (IF "MPP0" \in msr THEN 1 ELSE 0) + (IF "MPP1" \in msr THEN 2 ELSE 0)
MPPBits(p) == (IF p % 2 = 1 THEN {"MPP0"} ELSE {}) \cup (IF p >= 2 THEN {"MPP1"} ELSE {})

(* Interrupt numbers: supervisor and machine timer, machine external. *)
IRQ_S_TIMER == 5
IRQ_M_TIMER == 7
IRQ_M_EXT == 11
Irqs == {IRQ_S_TIMER, IRQ_M_TIMER, IRQ_M_EXT}
SIrqs == {IRQ_S_TIMER}

(* Exception causes; an environment call adds the privilege level. *)
MCAUSE_BREAKPOINT == 3
MCAUSE_ECALL_U == 8
MCAUSE_PAGE_FAULT_INST == 12
MCAUSE_PAGE_FAULT_LOAD == 13
MCAUSE_PAGE_FAULT_STORE == 15
Causes == {3, 8, 9, 10, 11, 12, 13, 15}

Exception(c) == [irq |-> FALSE, code |-> c]
Interrupt(i) == [irq |-> TRUE, code |-> i]

(* Riscv::reset, which the constructor ends with; the breakpoints stay. *)
ResetState(start) ==
    [pc |-> start, pcx |-> start, mpriv |-> PRIV_MACHINE, msr |-> {},
     mideleg |-> {}, medeleg |-> {}, mepc |-> 0, sepc |-> 0, mevec |-> 0, sevec |-> 0,
     mie |-> {}, mip |-> {}, mtime |-> 0, mtimecmp |-> 0, brk |-> FALSE]

(* The registers and their widths. *)
Cpu == [pc : Addr, pcx : Addr, mpriv : 0 .. 3, msr : SUBSET StatusBits,
        mideleg : SUBSET Irqs, medeleg : SUBSET Causes,
        mepc : Addr, sepc : Addr, mevec : Addr, sevec : Addr,
        mie : SUBSET Irqs, mip : SUBSET Irqs,
        mtime : 0 .. (TimeMod - 1), mtimecmp : 0 .. (TimeMod - 1), brk : BOOLEAN]

ASSUME SimAssumption ==
    /\ PcMod \in Nat \ {0} /\ TimeMod \in Nat \ {0}
    /\ MaxInsts \in Nat /\ MaxBps \in Nat /\ Devices \in BOOLEAN
    /\ BpAddrs \subseteq Addr
    /\ \A p \in Presets : p \in Cpu /\ ~p.brk
    /\ \A w \in CsrWrites :
         /\ w[1] \in CsrNames \cup AddressCsrs \cup {"mtime", "const"}
         /\ w[3] \in BOOLEAN /\ w[4] \in BOOLEAN
         /\ w[1] \in AddressCsrs => w[2] \in Addr /\ w[3] /\ w[4]
         /\ w[1] = "mtime" => w[2] \in 0 .. (TimeMod - 1)

-----------------------------------------------------------------------------
(* Riscv::exception: to supervisor mode when delegated and not in machine mode. *)
\* Mutant: a delegated trap goes to supervisor mode from machine mode too.
ToSuperFromAny(c, cause) == cause.code \in (IF cause.irq THEN c.mideleg ELSE c.medeleg)

ToSuper(c, cause) ==
    /\ c.mpriv <= PRIV_SUPER
    /\ cause.code \in (IF cause.irq THEN c.mideleg ELSE c.medeleg)

\* Mutant: the machine level does not save its interrupt enable.
exceptionNoMpie(c, cause, pc) ==
    IF ToSuper(c, cause)
    THEN [c EXCEPT !.msr = (@ \ {"SPIE", "SIE", "SPP"})
                             \cup (IF "SIE" \in @ THEN {"SPIE"} ELSE {})
                             \cup (IF c.mpriv = PRIV_SUPER THEN {"SPP"} ELSE {}),
                   !.mpriv = PRIV_SUPER, !.sepc = pc, !.pc = c.sevec]
    ELSE [c EXCEPT !.msr = (@ \ {"MIE", "MPP0", "MPP1"}) \cup MPPBits(c.mpriv),
                   !.mpriv = PRIV_MACHINE, !.mepc = pc, !.pc = c.mevec]

exception(c, cause, pc) ==
    IF ToSuper(c, cause)
    THEN [c EXCEPT !.msr = (@ \ {"SPIE", "SIE", "SPP"})
                             \cup (IF "SIE" \in @ THEN {"SPIE"} ELSE {})
                             \cup (IF c.mpriv = PRIV_SUPER THEN {"SPP"} ELSE {}),
                   !.mpriv = PRIV_SUPER, !.sepc = pc, !.pc = c.sevec]
    ELSE [c EXCEPT !.msr = (@ \ {"MPIE", "MIE", "MPP0", "MPP1"})
                             \cup (IF "MIE" \in @ THEN {"MPIE"} ELSE {})
                             \cup MPPBits(c.mpriv),
                   !.mpriv = PRIV_MACHINE, !.mepc = pc, !.pc = c.mevec]

(* The interrupts the end of execute may take: machine level first. *)
MEnabled(c) == c.mpriv < PRIV_MACHINE \/ (c.mpriv = PRIV_MACHINE /\ "MIE" \in c.msr)
SEnabled(c) == c.mpriv < PRIV_SUPER \/ (c.mpriv = PRIV_SUPER /\ "SIE" \in c.msr)

\* Mutant: a delegated interrupt is preferred.
SuperFirst(c) ==
    LET pending == c.mip \cap c.mie
        m == IF MEnabled(c) THEN pending \ c.mideleg ELSE {}
        s == IF SEnabled(c) THEN pending \cap c.mideleg ELSE {}
    IN  IF s # {} THEN s ELSE m

TakenIrqs(c) ==
    LET pending == c.mip \cap c.mie
        m == IF MEnabled(c) THEN pending \ c.mideleg ELSE {}
        s == IF SEnabled(c) THEN pending \cap c.mideleg ELSE {}
    IN  IF m # {} THEN m ELSE s

LowestIrq(c) == CHOOSE i \in TakenIrqs(c) : \A j \in TakenIrqs(c) : i <= j

(* The tail of step: the timer counts, compares for equality, and raises the bit the
   current delegation names.                                                         *)
TimerBit(c) == IF IRQ_S_TIMER \in c.mideleg THEN IRQ_S_TIMER ELSE IRQ_M_TIMER

Tick(c) == LET now == (c.mtime + 1) % TimeMod
           IN  [c EXCEPT !.mtime = now,
                         !.mip = IF now = c.mtimecmp THEN @ \cup {TimerBit(c)} ELSE @]

(* check_breakpoint: by the address of the last instruction that was fetched. *)
\* Mutant: by the address of the instruction to come.
BreakAtNext(c) ==
    LET t == Tick(c) IN [t EXCEPT !.brk = @ \/ \E k \in DOMAIN bps : bps[k] = t.pc]

EndOfStep(c) == LET t == Tick(c)
                IN  [t EXCEPT !.brk = @ \/ (bps # <<>> /\ \E k \in DOMAIN bps : bps[k] = t.pcx)]

-----------------------------------------------------------------------------
(* What the properties remember: for each level, where its last trap came from (none
   once software rewrote the registers that hold it), what the last return did, what
   the last step was, and whether a breakpoint was due since get_break.             *)
NoFrame == [priv |-> 9, pc |-> 0, ie |-> 0]
NoReturn == [frame |-> NoFrame, priv |-> 0, pc |-> 0, ie |-> 0]
Nothing == [mframe |-> NoFrame, sframe |-> NoFrame, ret |-> NoReturn, trap |-> "none",
            fresh |-> {}, due |-> FALSE, stale |-> FALSE]

Enabled(c, bit) == IF bit \in c.msr THEN 1 ELSE 0
FrameOf(c, pc, bit) == [priv |-> c.mpriv, pc |-> pc, ie |-> Enabled(c, bit)]

(* seen after a trap of state c whose instruction is to be resumed at pc. *)
SeenTrap(s, c, cause, pc) ==
    IF ToSuper(c, cause)
    THEN [s EXCEPT !.sframe = FrameOf(c, pc, "SIE"), !.trap = IF cause.irq THEN "Sirq" ELSE "Sexc"]
    ELSE [s EXCEPT !.mframe = FrameOf(c, pc, "MIE"), !.trap = IF cause.irq THEN "Mirq" ELSE "Mexc"]

Fresh(c) == EndOfStep(c).mip \ c.mip

Running == status = "run" /\ insts < MaxInsts

(* execute returns early after a fault, with no look at the interrupts. *)
Faults(c, cause, s) ==
    LET e == exception(c, Exception(cause), c.pc)
    IN  /\ cpu' = EndOfStep(e)
        /\ seen' = [SeenTrap(s, c, Exception(cause), c.pc) EXCEPT !.fresh = Fresh(e)]
        /\ insts' = insts + 1
        /\ UNCHANGED <<bps, status>>

(* The instruction left state c and goes on at next, unless an interrupt is taken. *)
Retires(c, next, s) ==
    LET irqs == TakenIrqs(c)
        e == IF irqs # {} THEN exception(c, Interrupt(LowestIrq(c)), next)
             ELSE [c EXCEPT !.pc = next]
    IN  /\ cpu' = EndOfStep(e)
        /\ seen' = IF irqs # {}
                   THEN [SeenTrap(s, c, Interrupt(LowestIrq(c)), next) EXCEPT !.fresh = Fresh(e)]
                   ELSE [s EXCEPT !.trap = "none", !.fresh = Fresh(e)]
        /\ insts' = insts + 1
        /\ UNCHANGED <<bps, status>>

Ends(how) == status' = how /\ UNCHANGED <<cpu, bps, insts, seen>>

(* The opcode was read: m_pc_x = m_pc. *)
Fetched == [cpu EXCEPT !.pcx = cpu.pc]
DueAt(pc) == \E k \in DOMAIN bps : bps[k] = pc
SeenFetch == [seen EXCEPT !.ret = NoReturn, !.due = @ \/ DueAt(cpu.pc)]

-----------------------------------------------------------------------------
(* The opcode's page is not executable. *)
FetchFault == /\ Running /\ cpu.mpriv <= PRIV_SUPER
              /\ Faults(cpu, MCAUSE_PAGE_FAULT_INST,
                        [seen EXCEPT !.ret = NoReturn, !.stale = TRUE])

(* andi .. sra, lui, auipc, mul .. remu: on to the next instruction. *)
ExecuteCompute == /\ Running
                  /\ Retires(Fetched, After(cpu.pc), SeenFetch)

(* jal, jalr and the branches: any target, or the next instruction. *)
ExecuteJump == /\ Running
               /\ \E t \in Addr : Retires(Fetched, t, SeenFetch)

(* lb .. sw: the access is translated, done, or names no memory. *)
ExecuteLoad == /\ Running
               /\ \/ Retires(Fetched, After(cpu.pc), SeenFetch)
                  \/ /\ cpu.mpriv <= PRIV_SUPER
                     /\ Faults(Fetched, MCAUSE_PAGE_FAULT_LOAD, SeenFetch)
                  \/ Ends("exit")

ExecuteStore == /\ Running
                /\ \/ Retires(Fetched, After(cpu.pc), SeenFetch)
                   \/ /\ cpu.mpriv <= PRIV_SUPER
                      /\ Faults(Fetched, MCAUSE_PAGE_FAULT_STORE, SeenFetch)
                   \/ Ends("exit")

(* fence, sfence, ifence, wfi: on to the next instruction; wfi does not wait. *)
ExecuteFence == /\ Running
                /\ Retires(Fetched, After(cpu.pc), SeenFetch)

ExecuteEcall == /\ Running
                /\ Faults(Fetched, MCAUSE_ECALL_U + cpu.mpriv, SeenFetch)

ExecuteEbreak == /\ Running
                 /\ Faults([Fetched EXCEPT !.brk = TRUE], MCAUSE_BREAKPOINT,
                           [SeenFetch EXCEPT !.due = TRUE])

(* A return pops the level's frame. *)
Returned(c, frame, bit) ==
    [frame |-> frame, priv |-> c.mpriv, pc |-> c.pc, ie |-> Enabled(c, bit)]

ExecuteMret ==
    /\ Running
    /\ IF cpu.mpriv # PRIV_MACHINE THEN Ends("abort")
       ELSE LET c == [Fetched EXCEPT
                        !.mpriv = MPP(cpu.msr),
                        !.msr = (@ \ {"MIE", "MPP0", "MPP1"}) \cup {"MPIE"}
                                  \cup (IF "MPIE" \in @ THEN {"MIE"} ELSE {}),
                        !.pc = cpu.mepc]
            IN  Retires(c, cpu.mepc,
                        [SeenFetch EXCEPT !.ret = Returned(c, seen.mframe, "MIE"),
                                          !.mframe = NoFrame])

ExecuteSret ==
    /\ Running
    /\ IF cpu.mpriv # PRIV_SUPER THEN Ends("abort")
       ELSE LET c == [Fetched EXCEPT
                        !.mpriv = IF "SPP" \in cpu.msr THEN PRIV_SUPER ELSE PRIV_USER,
                        !.msr = (@ \ {"SIE", "SPP"}) \cup {"SPIE"}
                                  \cup (IF "SPIE" \in @ THEN {"SIE"} ELSE {}),
                        !.pc = cpu.sepc]
            IN  Retires(c, cpu.sepc,
                        [SeenFetch EXCEPT !.ret = Returned(c, seen.sframe, "SIE"),
                                          !.sframe = NoFrame])

-----------------------------------------------------------------------------
(* Riscv::access_csr.  CSR_STD masks the data, then replaces the whole variable
   (csrrw), sets or clears bits: a replaced variable loses the bits outside the mask. *)
CsrStd(old, mask, data, set, clr) ==
    LET d == data \cap mask
    IN  IF set /\ clr THEN d ELSE IF set THEN old \cup d ELSE IF clr THEN old \ d ELSE old

(* The bits of a register that hold sets a program reaches under each name: the
   supervisor names are windows on the machine registers.                           *)
CsrMask == [mstatus |-> StatusBits, sstatus |-> SModeBits, mie |-> Irqs, sie |-> SIrqs,
            mip |-> Irqs, sip |-> SIrqs, mideleg |-> Irqs, medeleg |-> Causes]

(* Those registers; the address registers; the timer, whose write is the compare value
   and clears the pending bit; constants.                                              *)
CsrUpdate(c, w) ==
    LET name == w[1] data == w[2] set == w[3] clr == w[4]
        std(old) == CsrStd(old, CsrMask[name], data, set, clr)
    IN  CASE name \in {"mstatus", "sstatus"} -> [c EXCEPT !.msr = std(@)]
          [] name \in {"mie", "sie"} -> [c EXCEPT !.mie = std(@)]
          [] name \in {"mip", "sip"} -> [c EXCEPT !.mip = std(@)]
          [] name = "mideleg" -> [c EXCEPT !.mideleg = std(@)]
          [] name = "medeleg" -> [c EXCEPT !.medeleg = std(@)]
          [] name = "mepc" -> [c EXCEPT !.mepc = data]
          [] name = "sepc" -> [c EXCEPT !.sepc = data]
          [] name = "mtvec" -> [c EXCEPT !.mevec = data]
          [] name = "stvec" -> [c EXCEPT !.sevec = data]
          [] name = "mtime" -> IF set /\ data # 0
                               THEN [c EXCEPT !.mtimecmp = data, !.mip = @ \ {TimerBit(c)}]
                               ELSE c
          [] name = "const" -> c

(* The frames a write spoils: mstatus and mepc hold the machine frame, mstatus,
   sstatus and sepc the supervisor frame, and csrrw of sstatus clears the machine
   bits with the rest.                                                            *)
SeenCsr(s, w) ==
    LET all == w[3] /\ w[4]
    IN  [s EXCEPT !.mframe = IF w[1] \in {"mstatus", "mepc"} \/ (w[1] = "sstatus" /\ all)
                             THEN NoFrame ELSE @,
                  !.sframe = IF w[1] \in {"mstatus", "sstatus", "sepc"} THEN NoFrame ELSE @]

ExecuteCsr == /\ Running
              /\ \E w \in CsrWrites :
                   Retires(CsrUpdate(Fetched, w), After(cpu.pc), SeenCsr(SeenFetch, w))

(* A CSR the simulator does not know, dscratch with exit in its top byte, or an
   opcode it does not know: exit.                                                *)
ExecuteExit == Running /\ Ends("exit")

-----------------------------------------------------------------------------
(* The interface a debugger or a co-simulation uses between steps. *)
set_interrupt == /\ Devices /\ status = "run"
                 /\ cpu' = [cpu EXCEPT !.mip = @ \cup {IRQ_M_EXT}]
                 /\ seen' = [seen EXCEPT !.fresh = @ \cup {IRQ_M_EXT}]
                 /\ UNCHANGED <<bps, insts, status>>

(* A series of set_register calls before the program runs: privilege, delegation,
   enables, vectors.                                                              *)
set_register == /\ status = "run" /\ insts = 0 /\ cpu = ResetState(0)
                /\ \E p \in Presets : cpu' = p
                /\ UNCHANGED <<bps, insts, status, seen>>

set_breakpoint == /\ status = "run" /\ Len(bps) < MaxBps
                  /\ \E pc \in BpAddrs : bps' = Append(bps, pc)
                  /\ UNCHANGED <<cpu, insts, status, seen>>

(* The first entry of the list that names the address. *)
clr_breakpoint == /\ status = "run"
                  /\ \E k \in DOMAIN bps :
                       /\ \A j \in 1 .. (k - 1) : bps[j] # bps[k]
                       /\ bps' = RemoveAt(bps, k)
                  /\ UNCHANGED <<cpu, insts, status, seen>>

get_break == /\ status = "run" /\ cpu.brk
             /\ cpu' = [cpu EXCEPT !.brk = FALSE]
             /\ seen' = [seen EXCEPT !.due = FALSE, !.stale = FALSE]
             /\ UNCHANGED <<bps, insts, status>>

Init == /\ cpu = ResetState(0) /\ bps = <<>> /\ insts = 0 /\ status = "run"
        /\ seen = Nothing

Execute == \/ FetchFault \/ ExecuteCompute \/ ExecuteJump \/ ExecuteLoad \/ ExecuteStore
           \/ ExecuteFence \/ ExecuteEcall \/ ExecuteEbreak \/ ExecuteMret \/ ExecuteSret
           \/ ExecuteCsr \/ ExecuteExit

Interface == set_interrupt \/ set_register \/ set_breakpoint \/ clr_breakpoint \/ get_break

Next == Execute \/ Interface

Spec == Init /\ [][Next]_vars

-----------------------------------------------------------------------------
(* Every register holds a value of its width; MPP can hold a level that is none. *)
TypeOK == cpu \in Cpu /\ status \in {"run", "exit", "abort"}

(* mret and sret bring back the privilege, the address and the interrupt enable of
   the code that the level's last trap interrupted, however many traps of the other
   level and returns from it came in between; for an interrupt that address is the
   one after the instruction that had just completed, so nothing is skipped or run
   twice.                                                                           *)
ReturnRestores ==
    seen.ret.frame # NoFrame =>
        /\ seen.ret.priv = seen.ret.frame.priv
        /\ seen.ret.pc = seen.ret.frame.pc
        /\ seen.ret.ie = seen.ret.frame.ie

(* Interrupts a level admits: pending, enabled, and allowed by the current mode. *)
Admitted(level) ==
    {i \in cpu.mip \cap cpu.mie :
       IF level = "M"
       THEN i \notin cpu.mideleg /\ (cpu.mpriv # PRIV_MACHINE \/ "MIE" \in cpu.msr)
       ELSE i \in cpu.mideleg /\ (\/ cpu.mpriv = PRIV_USER
                                  \/ cpu.mpriv = PRIV_SUPER /\ "SIE" \in cpu.msr)}

(* After an instruction that took no trap, no admitted interrupt is left waiting but
   one raised since; and a supervisor interrupt is never taken while a machine one is
   admitted.                                                                         *)
InterruptsExact ==
    status = "run" /\ insts > 0 =>
        /\ seen.trap = "none" => Admitted("M") \cup Admitted("S") \subseteq seen.fresh
        /\ seen.trap = "Sirq" => Admitted("M") \subseteq seen.fresh

(* Privilege rises only by a trap, which lands on that level's vector, and an exception
   never lowers it, whatever is delegated; the program's own instructions, returns and
   CSR writes included, do not raise it.                                             *)
RisesByTrap ==
    insts' = insts + 1 =>
      /\ cpu'.mpriv > cpu.mpriv =>
           \/ /\ seen'.trap \in {"Mexc", "Mirq"}
              /\ cpu'.mpriv = PRIV_MACHINE /\ cpu'.pc = cpu'.mevec
           \/ /\ seen'.trap \in {"Sexc", "Sirq"}
              /\ cpu'.mpriv = PRIV_SUPER /\ cpu'.pc = cpu'.sevec
      /\ seen'.trap \in {"Mexc", "Sexc"} => cpu'.mpriv >= cpu.mpriv

PrivilegeByTrap == [][RisesByTrap]_vars

(* A breakpoint or ebreak that was executed since the last get_break is reported, and
   nothing else is, but for a fetch fault, after which the address of the instruction
   before it is looked up again.                                                      *)
BreakExact == /\ seen.due => cpu.brk
              /\ cpu.brk => seen.due \/ seen.stale

(* Every register stays in its range, and breaks are exact. *)
SimInv == TypeOK /\ BreakExact
=============================================================================
