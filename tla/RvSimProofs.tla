---------------------------- MODULE RvSimProofs -----------------------------
(***************************************************************************)
(* Proofs about the instruction-set simulator.  Its traps, returns,        *)
(* interrupts and breakpoints (RvSim.tla): for every program, every        *)
(* register value a debugger presets and every length of a run.  Its       *)
(* address translation, arithmetic and decoding beside the processor's     *)
(* circuits (RvUnits.tla): for every page table and every width of an      *)
(* index, every width of a register, every opcode.                         *)
(***************************************************************************)
EXTENDS RvSim, RvUnits, FiniteSetTheorems, WellFoundedInduction, TLAPS

USE SimAssumption DEF SimAssumption

-----------------------------------------------------------------------------
Frame == [priv : 0 .. 9, pc : Addr, ie : {0, 1}]
Return == [frame : Frame, priv : 0 .. 3, pc : Addr, ie : {0, 1}]
Trap == {"none", "Mexc", "Mirq", "Sexc", "Sirq"}
Seen == [mframe : Frame, sframe : Frame, ret : Return, trap : Trap,
         fresh : SUBSET Irqs, due : BOOLEAN, stale : BOOLEAN]

Cause == [irq : BOOLEAN, code : Nat]

(* What a level's last trap interrupted is still in the level's registers. *)
FrameHeld(f, priv, pc, ie) == f # NoFrame => f.priv = priv /\ f.pc = pc /\ (f.ie = 1 <=> ie)
SPP(msr) == IF "SPP" \in msr THEN PRIV_SUPER ELSE PRIV_USER
MFrameHeld(s, c) == FrameHeld(s.mframe, MPP(c.msr), c.mepc, "MPIE" \in c.msr)
SFrameHeld(s, c) == FrameHeld(s.sframe, SPP(c.msr), c.sepc, "SPIE" \in c.msr)
FramesHeld(s, c) == MFrameHeld(s, c) /\ SFrameHeld(s, c)

Restored(r) == r.frame # NoFrame =>
                 r.priv = r.frame.priv /\ r.pc = r.frame.pc /\ r.ie = r.frame.ie

(* The break flag as it will be at the end of the step. *)
BreakComing(c) == c.brk \/ DueAt(c.pcx)
BreakSeen(s, c) == (s.due => BreakComing(c)) /\ (BreakComing(c) => s.due \/ s.stale)

Inv == /\ TypeOK /\ seen \in Seen /\ insts \in Nat
       /\ insts = 0 => seen.mframe = NoFrame /\ seen.sframe = NoFrame
       /\ FramesHeld(seen, cpu)
       /\ ReturnRestores /\ BreakExact /\ InterruptsExact

-----------------------------------------------------------------------------
LEMMA MppOfBits == ASSUME NEW p \in 0 .. 3, NEW m, "MPP0" \notin m, "MPP1" \notin m
                   PROVE  MPP(m \cup MPPBits(p)) = p
<1>1. CASE p = 0
  BY <1>1 DEF MPP, MPPBits
<1>2. CASE p = 1
  BY <1>2 DEF MPP, MPPBits
<1>3. CASE p = 2
  BY <1>3 DEF MPP, MPPBits
<1>4. CASE p = 3
  BY <1>4 DEF MPP, MPPBits
<1>. QED
  BY <1>1, <1>2, <1>3, <1>4

LEMMA MppRange == ASSUME NEW m PROVE MPP(m) \in 0 .. 3
  BY DEF MPP

(* The end of a step: the timer may raise an interrupt, the break flag may be set, and
   nothing else changes.                                                              *)
LEMMA EndType ==
    ASSUME NEW c \in Cpu
    PROVE  /\ EndOfStep(c) \in Cpu
           /\ EndOfStep(c).mpriv = c.mpriv /\ EndOfStep(c).msr = c.msr
           /\ EndOfStep(c).mideleg = c.mideleg /\ EndOfStep(c).mie = c.mie
           /\ EndOfStep(c).pc = c.pc
           /\ EndOfStep(c).mepc = c.mepc /\ EndOfStep(c).sepc = c.sepc
           /\ EndOfStep(c).mevec = c.mevec /\ EndOfStep(c).sevec = c.sevec
           /\ EndOfStep(c).brk <=> BreakComing(c)
<1>1. TimerBit(c) \in Irqs
  BY DEF TimerBit, Irqs
<1>2. (c.mtime + 1) % TimeMod \in 0 .. (TimeMod - 1)
  BY DEF Cpu
<1>3. Tick(c) \in Cpu
  BY <1>1, <1>2 DEF Tick, Cpu
<1>4. /\ Tick(c).mpriv = c.mpriv /\ Tick(c).msr = c.msr
      /\ Tick(c).mideleg = c.mideleg /\ Tick(c).mie = c.mie
      /\ Tick(c).pc = c.pc /\ Tick(c).pcx = c.pcx
      /\ Tick(c).mepc = c.mepc /\ Tick(c).sepc = c.sepc
      /\ Tick(c).mevec = c.mevec /\ Tick(c).sevec = c.sevec
      /\ Tick(c).brk = c.brk
  BY DEF Tick, Cpu
<1>. DEFINE hit == bps # <<>> /\ \E k \in DOMAIN bps : bps[k] = Tick(c).pcx
<1>5. hit <=> DueAt(c.pcx)
  BY <1>4 DEF DueAt
<1>6. EndOfStep(c) = [Tick(c) EXCEPT !.brk = Tick(c).brk \/ hit]
  BY <1>3 DEF EndOfStep, Cpu
<1>. HIDE DEF hit
<1>7. EndOfStep(c) \in Cpu
  BY <1>3, <1>6 DEF Cpu
<1>8. EndOfStep(c).brk <=> (Tick(c).brk \/ hit)
  BY <1>3, <1>6 DEF Cpu
<1>. QED
  BY <1>3, <1>4, <1>5, <1>6, <1>7, <1>8 DEF Cpu, BreakComing

-----------------------------------------------------------------------------
LEMMA TrapRegisters ==
    ASSUME NEW c \in Cpu, NEW m \in SUBSET StatusBits, NEW p \in 0 .. 3,
           NEW a \in Addr, NEW b \in Addr
    PROVE  /\ [c EXCEPT !.msr = m, !.mpriv = p, !.sepc = a, !.pc = b] \in Cpu
           /\ [c EXCEPT !.msr = m, !.mpriv = p, !.mepc = a, !.pc = b] \in Cpu
  BY DEF Cpu

(* A trap changes the registers of one level and lands on its vector. *)
LEMMA ExceptionType ==
    ASSUME NEW c \in Cpu, NEW cause \in Cause, NEW pc \in Addr
    PROVE  exception(c, cause, pc) \in Cpu
<1>. DEFINE mbits == (c.msr \ {"MPIE", "MIE", "MPP0", "MPP1"})
                       \cup (IF "MIE" \in c.msr THEN {"MPIE"} ELSE {}) \cup MPPBits(c.mpriv)
            sbits == (c.msr \ {"SPIE", "SIE", "SPP"})
                       \cup (IF "SIE" \in c.msr THEN {"SPIE"} ELSE {})
                       \cup (IF c.mpriv = PRIV_SUPER THEN {"SPP"} ELSE {})
<1>1. c.msr \in SUBSET StatusBits
  BY DEF Cpu
<1>2. mbits \in SUBSET StatusBits /\ sbits \in SUBSET StatusBits
  BY <1>1 DEF StatusBits, MPPBits
<1>3. exception(c, cause, pc) =
        IF ToSuper(c, cause)
        THEN [c EXCEPT !.msr = sbits, !.mpriv = PRIV_SUPER, !.sepc = pc, !.pc = c.sevec]
        ELSE [c EXCEPT !.msr = mbits, !.mpriv = PRIV_MACHINE, !.mepc = pc, !.pc = c.mevec]
  BY DEF exception, Cpu
<1>6. /\ c.sevec \in Addr /\ c.mevec \in Addr
      /\ PRIV_SUPER \in 0 .. 3 /\ PRIV_MACHINE \in 0 .. 3
  BY DEF Cpu, PRIV_SUPER, PRIV_MACHINE
<1>. HIDE DEF mbits, sbits
<1>4. CASE ToSuper(c, cause)
  <2>1. exception(c, cause, pc) = [c EXCEPT !.msr = sbits, !.mpriv = PRIV_SUPER,
                                            !.sepc = pc, !.pc = c.sevec]
    BY <1>3, <1>4
  <2>2. [c EXCEPT !.msr = sbits, !.mpriv = PRIV_SUPER, !.sepc = pc, !.pc = c.sevec] \in Cpu
    BY <1>2, <1>6, TrapRegisters, Zenon
  <2>. QED
    BY <2>1, <2>2
<1>5. CASE ~ToSuper(c, cause)
  <2>1. exception(c, cause, pc) = [c EXCEPT !.msr = mbits, !.mpriv = PRIV_MACHINE,
                                            !.mepc = pc, !.pc = c.mevec]
    BY <1>3, <1>5
  <2>2. [c EXCEPT !.msr = mbits, !.mpriv = PRIV_MACHINE, !.mepc = pc, !.pc = c.mevec] \in Cpu
    BY <1>2, <1>6, TrapRegisters, Zenon
  <2>. QED
    BY <2>1, <2>2
<1>. QED
  BY <1>4, <1>5

LEMMA ToSuperLeaves ==
    ASSUME NEW c \in Cpu, NEW cause \in Cause, NEW pc \in Addr, ToSuper(c, cause)
    PROVE  LET e == exception(c, cause, pc)
           IN  /\ e.mpriv = PRIV_SUPER /\ e.sepc = pc /\ e.pc = c.sevec /\ e.mepc = c.mepc
               /\ e.mevec = c.mevec /\ e.sevec = c.sevec
               /\ e.brk = c.brk /\ e.pcx = c.pcx
               /\ e.mip = c.mip /\ e.mie = c.mie /\ e.mideleg = c.mideleg
               /\ MPP(e.msr) = MPP(c.msr) /\ ("MPIE" \in e.msr <=> "MPIE" \in c.msr)
               /\ SPP(e.msr) = c.mpriv /\ ("SPIE" \in e.msr <=> "SIE" \in c.msr)
<1>. DEFINE e == exception(c, cause, pc)
<1>1. e = [c EXCEPT !.msr = (c.msr \ {"SPIE", "SIE", "SPP"})
                              \cup (IF "SIE" \in c.msr THEN {"SPIE"} ELSE {})
                              \cup (IF c.mpriv = PRIV_SUPER THEN {"SPP"} ELSE {}),
                    !.mpriv = PRIV_SUPER, !.sepc = pc, !.pc = c.sevec]
  BY DEF exception, Cpu
<1>2. /\ e.mpriv = PRIV_SUPER /\ e.sepc = pc /\ e.pc = c.sevec /\ e.mepc = c.mepc
      /\ e.mevec = c.mevec /\ e.sevec = c.sevec /\ e.brk = c.brk /\ e.pcx = c.pcx
      /\ e.mip = c.mip /\ e.mie = c.mie /\ e.mideleg = c.mideleg
  BY <1>1 DEF Cpu
<1>3. e.msr = (c.msr \ {"SPIE", "SIE", "SPP"})
                \cup (IF "SIE" \in c.msr THEN {"SPIE"} ELSE {})
                \cup (IF c.mpriv = PRIV_SUPER THEN {"SPP"} ELSE {})
  BY <1>1 DEF Cpu
<1>4. c.mpriv \in {PRIV_USER, PRIV_SUPER}
  BY DEF ToSuper, Cpu, PRIV_USER, PRIV_SUPER
<1>. HIDE DEF e
<1>5. MPP(e.msr) = MPP(c.msr) /\ ("MPIE" \in e.msr <=> "MPIE" \in c.msr)
  BY <1>3 DEF MPP
<1>6. SPP(e.msr) = c.mpriv /\ ("SPIE" \in e.msr <=> "SIE" \in c.msr)
  BY <1>3, <1>4 DEF SPP, PRIV_USER, PRIV_SUPER
<1>. QED
  BY <1>2, <1>5, <1>6 DEF e

LEMMA ToMachineLeaves ==
    ASSUME NEW c \in Cpu, NEW cause \in Cause, NEW pc \in Addr, ~ToSuper(c, cause)
    PROVE  LET e == exception(c, cause, pc)
           IN  /\ e.mpriv = PRIV_MACHINE /\ e.mepc = pc /\ e.pc = c.mevec /\ e.sepc = c.sepc
               /\ e.mevec = c.mevec /\ e.sevec = c.sevec
               /\ e.brk = c.brk /\ e.pcx = c.pcx
               /\ e.mip = c.mip /\ e.mie = c.mie /\ e.mideleg = c.mideleg
               /\ SPP(e.msr) = SPP(c.msr) /\ ("SPIE" \in e.msr <=> "SPIE" \in c.msr)
               /\ MPP(e.msr) = c.mpriv /\ ("MPIE" \in e.msr <=> "MIE" \in c.msr)
<1>. DEFINE e == exception(c, cause, pc)
            rest == (c.msr \ {"MPIE", "MIE", "MPP0", "MPP1"})
                      \cup (IF "MIE" \in c.msr THEN {"MPIE"} ELSE {})
<1>1. e = [c EXCEPT !.msr = rest \cup MPPBits(c.mpriv),
                    !.mpriv = PRIV_MACHINE, !.mepc = pc, !.pc = c.mevec]
  BY DEF exception, Cpu
<1>2. /\ e.mpriv = PRIV_MACHINE /\ e.mepc = pc /\ e.pc = c.mevec /\ e.sepc = c.sepc
      /\ e.mevec = c.mevec /\ e.sevec = c.sevec /\ e.brk = c.brk /\ e.pcx = c.pcx
      /\ e.mip = c.mip /\ e.mie = c.mie /\ e.mideleg = c.mideleg
  BY <1>1 DEF Cpu
<1>3. e.msr = rest \cup MPPBits(c.mpriv)
  BY <1>1 DEF Cpu
<1>4. c.mpriv \in 0 .. 3 /\ "MPP0" \notin rest /\ "MPP1" \notin rest
  BY DEF Cpu
<1>. HIDE DEF e
<1>5. MPP(e.msr) = c.mpriv
  <2>. HIDE DEF rest
  <2>. QED BY <1>3, <1>4, MppOfBits
<1>6. "MPIE" \in e.msr <=> "MIE" \in c.msr
  BY <1>3 DEF MPPBits
<1>7. SPP(e.msr) = SPP(c.msr) /\ ("SPIE" \in e.msr <=> "SPIE" \in c.msr)
  BY <1>3 DEF SPP, MPPBits
<1>. QED
  BY <1>2, <1>5, <1>6, <1>7 DEF e

LEMMA FrameType ==
    ASSUME NEW c \in Cpu, NEW pc \in Addr, NEW bit
    PROVE  LET f == FrameOf(c, pc, bit)
           IN  /\ f \in Frame /\ f.priv = c.mpriv /\ f.pc = pc
               /\ f.ie = 1 <=> bit \in c.msr
  BY DEF FrameOf, Enabled, Frame, Cpu

TrapOf(c, cause) == IF ToSuper(c, cause) THEN (IF cause.irq THEN "Sirq" ELSE "Sexc")
                    ELSE (IF cause.irq THEN "Mirq" ELSE "Mexc")

(* What is remembered of a trap is what its level's registers now hold. *)
LEMMA TrapSeen ==
    ASSUME NEW c \in Cpu, NEW cause \in Cause, NEW pc \in Addr,
           NEW s \in Seen, FramesHeld(s, c)
    PROVE  LET t == SeenTrap(s, c, cause, pc)
           IN  /\ t \in Seen /\ FramesHeld(t, exception(c, cause, pc))
               /\ t.ret = s.ret /\ t.due = s.due /\ t.stale = s.stale
               /\ t.trap = TrapOf(c, cause)
<1>. DEFINE t == SeenTrap(s, c, cause, pc)
            e == exception(c, cause, pc)
<1>1. CASE ToSuper(c, cause)
  <2>. DEFINE f == FrameOf(c, pc, "SIE")
  <2>1. f \in Frame /\ f.priv = c.mpriv /\ f.pc = pc /\ (f.ie = 1 <=> "SIE" \in c.msr)
    BY FrameType
  <2>2. t = [s EXCEPT !.sframe = f, !.trap = IF cause.irq THEN "Sirq" ELSE "Sexc"]
    BY <1>1 DEF SeenTrap
  <2>. HIDE DEF f
  <2>3. /\ t \in Seen /\ t.sframe = f /\ t.mframe = s.mframe
        /\ t.ret = s.ret /\ t.due = s.due /\ t.stale = s.stale
        /\ t.trap = TrapOf(c, cause)
    BY <1>1, <2>1, <2>2 DEF Seen, Trap, TrapOf
  <2>. HIDE DEF t
  <2>4. MFrameHeld(t, e)
    BY <1>1, <2>3, ToSuperLeaves DEF FramesHeld, MFrameHeld, FrameHeld
  <2>5. SFrameHeld(t, e)
    BY <1>1, <2>1, <2>3, ToSuperLeaves DEF FramesHeld, SFrameHeld, FrameHeld
  <2>. QED
    BY <2>3, <2>4, <2>5 DEF FramesHeld, t
<1>2. CASE ~ToSuper(c, cause)
  <2>. DEFINE f == FrameOf(c, pc, "MIE")
  <2>1. f \in Frame /\ f.priv = c.mpriv /\ f.pc = pc /\ (f.ie = 1 <=> "MIE" \in c.msr)
    BY FrameType
  <2>2. t = [s EXCEPT !.mframe = f, !.trap = IF cause.irq THEN "Mirq" ELSE "Mexc"]
    BY <1>2 DEF SeenTrap
  <2>. HIDE DEF f
  <2>3. /\ t \in Seen /\ t.mframe = f /\ t.sframe = s.sframe
        /\ t.ret = s.ret /\ t.due = s.due /\ t.stale = s.stale
        /\ t.trap = TrapOf(c, cause)
    BY <1>2, <2>1, <2>2 DEF Seen, Trap, TrapOf
  <2>. HIDE DEF t
  <2>4. MFrameHeld(t, e)
    BY <1>2, <2>1, <2>3, ToMachineLeaves DEF FramesHeld, MFrameHeld, FrameHeld
  <2>5. SFrameHeld(t, e)
    BY <1>2, <2>3, ToMachineLeaves DEF FramesHeld, SFrameHeld, FrameHeld
  <2>. QED
    BY <2>3, <2>4, <2>5 DEF FramesHeld, t
<1>. QED
  BY <1>1, <1>2

-----------------------------------------------------------------------------
(* The interrupts that are taken are admitted ones, machine level first. *)
LEMMA TakenType ==
    ASSUME NEW c \in Cpu, TakenIrqs(c) # {}
    PROVE  LowestIrq(c) \in TakenIrqs(c) /\ Interrupt(LowestIrq(c)) \in Cause
<1>1. TakenIrqs(c) \subseteq Irqs
  BY DEF TakenIrqs, Cpu
<1>2. \E i \in TakenIrqs(c) : \A j \in TakenIrqs(c) : i <= j
  BY <1>1, SMTT(30) DEF Irqs, IRQ_S_TIMER, IRQ_M_TIMER, IRQ_M_EXT
<1>3. LowestIrq(c) \in TakenIrqs(c)
  BY <1>2 DEF LowestIrq
<1>4. LowestIrq(c) \in Nat
  BY <1>1, <1>3 DEF Irqs, IRQ_S_TIMER, IRQ_M_TIMER, IRQ_M_EXT
<1>5. Interrupt(LowestIrq(c)) \in Cause
  <2>. DEFINE i == LowestIrq(c)
  <2>1. i \in Nat
    BY <1>4
  <2>. HIDE DEF i
  <2>2. Interrupt(i) \in Cause
    BY <2>1 DEF Interrupt, Cause
  <2>. QED
    BY <2>2 DEF i
<1>. QED
  BY <1>3, <1>5

(* A supervisor interrupt is taken only when no machine interrupt is admitted. *)
LEMMA MachineFirst ==
    ASSUME NEW c \in Cpu, NEW i \in TakenIrqs(c), ToSuper(c, Interrupt(i))
    PROVE  c.mip \cap c.mie \subseteq c.mideleg
<1>1. i \in c.mideleg /\ c.mpriv <= PRIV_SUPER
  BY DEF ToSuper, Interrupt
<1>2. MEnabled(c)
  BY <1>1 DEF MEnabled, PRIV_SUPER, PRIV_MACHINE, Cpu
<1>. QED
  BY <1>1, <1>2 DEF TakenIrqs

(* When none is taken, none is admitted. *)
LEMMA NoneTaken ==
    ASSUME NEW c \in Cpu, TakenIrqs(c) = {}, NEW i \in c.mip \cap c.mie
    PROVE  /\ i \notin c.mideleg => c.mpriv = PRIV_MACHINE /\ "MIE" \notin c.msr
           /\ i \in c.mideleg => /\ c.mpriv # PRIV_USER
                                 /\ ~(c.mpriv = PRIV_SUPER /\ "SIE" \in c.msr)
<1>1. c.mpriv \in 0 .. 3
  BY DEF Cpu
<1>. DEFINE m == IF MEnabled(c) THEN (c.mip \cap c.mie) \ c.mideleg ELSE {}
            s == IF SEnabled(c) THEN (c.mip \cap c.mie) \cap c.mideleg ELSE {}
<1>2. m = {} /\ s = {}
  BY DEF TakenIrqs
<1>3. CASE i \notin c.mideleg
  <2>1. ~MEnabled(c)
    BY <1>2, <1>3
  <2>. QED
    BY <1>1, <1>3, <2>1 DEF MEnabled, PRIV_MACHINE
<1>4. CASE i \in c.mideleg
  <2>1. ~SEnabled(c)
    BY <1>2, <1>4
  <2>. QED
    BY <1>1, <1>4, <2>1 DEF SEnabled, PRIV_SUPER, PRIV_USER
<1>. QED
  BY <1>3, <1>4

-----------------------------------------------------------------------------
(* The state an instruction leaves for its last part, the interrupts and the timer. *)
Left(c, s) == /\ c \in Cpu /\ s \in Seen
              /\ FramesHeld(s, c) /\ BreakSeen(s, c) /\ Restored(s.ret)

(* What the end of a step makes of state e and of what is remembered of it. *)
LEMMA StepEnds ==
    ASSUME NEW e, NEW s, Left(e, s), insts \in Nat, status \in {"run", "exit", "abort"},
           cpu' = EndOfStep(e), seen' = [s EXCEPT !.fresh = Fresh(e)],
           insts' = insts + 1, UNCHANGED <<bps, status>>,
           InterruptsExact'
    PROVE  Inv'
<1>. USE DEF Left
<1>1. cpu' \in Cpu
  BY EndType
<1>2. Fresh(e) \in SUBSET Irqs
  BY <1>1 DEF Fresh, Cpu
<1>3. /\ seen' \in Seen
      /\ seen'.mframe = s.mframe /\ seen'.sframe = s.sframe /\ seen'.ret = s.ret
      /\ seen'.due = s.due /\ seen'.stale = s.stale
  BY <1>2 DEF Seen
<1>4. FramesHeld(seen', cpu')
  BY <1>3, EndType DEF FramesHeld, MFrameHeld, SFrameHeld, FrameHeld
<1>5. ReturnRestores'
  BY <1>3 DEF ReturnRestores, Restored
<1>6. BreakExact'
  BY <1>3, EndType DEF BreakExact, BreakSeen
<1>7. TypeOK'
  BY <1>1 DEF TypeOK
<1>8. insts' \in Nat /\ insts' # 0
  OBVIOUS
<1>. QED
  BY <1>3, <1>4, <1>5, <1>6, <1>7, <1>8 DEF Inv

LEMMA TrapLeft ==
    ASSUME NEW c, NEW s, Left(c, s), NEW cause \in Cause, NEW pc \in Addr
    PROVE  Left(exception(c, cause, pc), SeenTrap(s, c, cause, pc))
<1>. DEFINE e == exception(c, cause, pc)
            t == SeenTrap(s, c, cause, pc)
<1>. USE DEF Left
<1>1. e \in Cpu
  BY ExceptionType
<1>2. e.brk = c.brk /\ e.pcx = c.pcx
  BY ToSuperLeaves, ToMachineLeaves
<1>3. BreakComing(e) <=> BreakComing(c)
  BY <1>2 DEF BreakComing
<1>4. t \in Seen /\ FramesHeld(t, e) /\ t.ret = s.ret /\ t.due = s.due /\ t.stale = s.stale
  BY TrapSeen
<1>. HIDE DEF e, t
<1>5. BreakSeen(t, e) /\ Restored(t.ret)
  BY <1>3, <1>4 DEF BreakSeen
<1>. QED
  BY <1>1, <1>4, <1>5 DEF e, t

(* After a trap the processor is at the vector of the trap's level, and no lower. *)
LEMMA TrapRises ==
    ASSUME NEW c \in Cpu, NEW s \in Seen, FramesHeld(s, c), NEW cause \in Cause, NEW pc \in Addr,
           cpu.mpriv \in 0 .. 3,
           cause.irq \/ c.mpriv = cpu.mpriv,
           cpu' = EndOfStep(exception(c, cause, pc)),
           seen'.trap = TrapOf(c, cause)
    PROVE  RisesByTrap
<1>. DEFINE e == exception(c, cause, pc)
<1>1. e \in Cpu
  BY ExceptionType
<1>2. cpu'.mpriv = e.mpriv /\ cpu'.pc = e.pc /\ cpu'.mevec = e.mevec /\ cpu'.sevec = e.sevec
  BY <1>1, EndType
<1>3. CASE ToSuper(c, cause)
  <2>1. cpu'.mpriv = PRIV_SUPER /\ cpu'.pc = cpu'.sevec /\ c.mpriv <= PRIV_SUPER
    BY <1>2, <1>3, ToSuperLeaves DEF ToSuper
  <2>2. seen'.trap = IF cause.irq THEN "Sirq" ELSE "Sexc"
    BY <1>3 DEF TrapOf
  <2>. QED
    BY <2>1, <2>2 DEF RisesByTrap, PRIV_SUPER
<1>4. CASE ~ToSuper(c, cause)
  <2>1. cpu'.mpriv = PRIV_MACHINE /\ cpu'.pc = cpu'.mevec
    BY <1>2, <1>4, ToMachineLeaves
  <2>2. seen'.trap = IF cause.irq THEN "Mirq" ELSE "Mexc"
    BY <1>4 DEF TrapOf
  <2>. QED
    BY <2>1, <2>2 DEF RisesByTrap, PRIV_MACHINE
<1>. QED
  BY <1>3, <1>4

LEMMA FaultStep ==
    ASSUME NEW c, NEW s, Left(c, s), NEW code \in Nat,
           insts \in Nat, status \in {"run", "exit", "abort"}, cpu.mpriv \in 0 .. 3,
           c.mpriv = cpu.mpriv,
           Faults(c, code, s)
    PROVE  Inv' /\ RisesByTrap
<1>. DEFINE cause == Exception(code)
            e == exception(c, cause, c.pc)
            t == SeenTrap(s, c, cause, c.pc)
<1>1. cause \in Cause /\ ~cause.irq /\ c \in Cpu /\ c.pc \in Addr /\ s \in Seen /\ FramesHeld(s, c)
  BY DEF Exception, Cause, Left, Cpu
<1>2. Left(e, t)
  BY <1>1, TrapLeft
<1>3. cpu' = EndOfStep(e) /\ seen' = [t EXCEPT !.fresh = Fresh(e)] /\ insts' = insts + 1
      /\ UNCHANGED <<bps, status>>
  BY DEF Faults
<1>4. t.trap = TrapOf(c, cause) /\ t \in Seen
  BY <1>1, TrapSeen
<1>5. seen'.trap = TrapOf(c, cause)
  BY <1>3, <1>4 DEF Seen
<1>6. seen'.trap \in {"Sexc", "Mexc"}
  BY <1>1, <1>5 DEF TrapOf
<1>7. InterruptsExact'
  BY <1>6 DEF InterruptsExact
<1>8. Inv'
  <2>. HIDE DEF e, t
  <2>. QED
    BY <1>2, <1>3, <1>7, StepEnds
<1>9. RisesByTrap
  <2>. HIDE DEF cause
  <2>. QED
    BY <1>1, <1>3, <1>5, TrapRises DEF Cpu
<1>. QED
  BY <1>8, <1>9

(* An instruction that completes: next is where it goes on. *)
LEMMA NextLeft ==
    ASSUME NEW c, NEW s, Left(c, s), NEW next \in Addr
    PROVE  /\ Left([c EXCEPT !.pc = next], [s EXCEPT !.trap = "none"])
           /\ LET e == [c EXCEPT !.pc = next]
              IN  /\ e.mip = c.mip /\ e.mie = c.mie /\ e.mideleg = c.mideleg
                  /\ e.mpriv = c.mpriv /\ e.msr = c.msr
<1>. DEFINE e == [c EXCEPT !.pc = next]
            t == [s EXCEPT !.trap = "none"]
<1>1. /\ e \in Cpu /\ e.mip = c.mip /\ e.mie = c.mie /\ e.mideleg = c.mideleg
      /\ e.mpriv = c.mpriv /\ e.msr = c.msr
      /\ e.mepc = c.mepc /\ e.sepc = c.sepc /\ e.brk = c.brk /\ e.pcx = c.pcx
  BY DEF Left, Cpu
<1>2. /\ t \in Seen /\ t.mframe = s.mframe /\ t.sframe = s.sframe /\ t.ret = s.ret
      /\ t.due = s.due /\ t.stale = s.stale
  BY DEF Left, Seen, Trap
<1>. HIDE DEF e, t
<1>3. FramesHeld(t, e)
  BY <1>1, <1>2 DEF Left, FramesHeld, MFrameHeld, SFrameHeld, FrameHeld
<1>4. BreakSeen(t, e) /\ Restored(t.ret)
  BY <1>1, <1>2 DEF Left, BreakSeen, BreakComing
<1>5. Left(e, t)
  BY <1>1, <1>2, <1>3, <1>4 DEF Left
<1>. QED
  BY <1>1, <1>5 DEF e, t

LEMMA RetireTrapped ==
    ASSUME NEW c, NEW s, Left(c, s), NEW next \in Addr,
           insts \in Nat, status \in {"run", "exit", "abort"}, cpu.mpriv \in 0 .. 3,
           Retires(c, next, s), TakenIrqs(c) # {}
    PROVE  Inv' /\ RisesByTrap
<1>. DEFINE i == LowestIrq(c)
            cause == Interrupt(i)
            e == exception(c, cause, next)
            t == SeenTrap(s, c, cause, next)
<1>1. c \in Cpu /\ s \in Seen /\ FramesHeld(s, c)
  BY DEF Left
<1>2. cause \in Cause /\ i \in TakenIrqs(c)
  BY <1>1, TakenType
<1>3. cause.irq
  BY DEF Interrupt
<1>4. Left(e, t)
  BY <1>2, TrapLeft
<1>5. cpu' = EndOfStep(e) /\ seen' = [t EXCEPT !.fresh = Fresh(e)] /\ insts' = insts + 1
      /\ UNCHANGED <<bps, status>>
  BY DEF Retires
<1>6. t.trap = TrapOf(c, cause) /\ t \in Seen
  BY <1>1, <1>2, TrapSeen
<1>7. seen'.trap = TrapOf(c, cause) /\ seen'.fresh = Fresh(e)
  BY <1>5, <1>6 DEF Seen
<1>8. /\ e \in Cpu /\ e.mip = c.mip /\ e.mie = c.mie /\ e.mideleg = c.mideleg
      /\ cpu'.mie = e.mie /\ cpu'.mideleg = e.mideleg
  BY <1>1, <1>2, ExceptionType, ToSuperLeaves, ToMachineLeaves, EndType, <1>5
<1>9. InterruptsExact'
  <2>1. seen'.trap = "Sirq" => ToSuper(c, cause)
    BY <1>3, <1>7 DEF TrapOf
  <2>2. seen'.trap # "none"
    BY <1>3, <1>7 DEF TrapOf
  <2>3. ASSUME ToSuper(c, cause) PROVE Admitted("M")' \subseteq seen'.fresh
    <3>1. c.mip \cap c.mie \subseteq c.mideleg
      BY <1>1, <1>2, <2>3, MachineFirst
    <3>2. seen'.fresh = cpu'.mip \ e.mip
      BY <1>5, <1>7 DEF Fresh
    <3>3. Admitted("M")' \subseteq (cpu'.mip \cap cpu'.mie) \ cpu'.mideleg
      BY DEF Admitted
    <3>. HIDE DEF e, cause
    <3>. QED
      BY <1>8, <3>1, <3>2, <3>3
  <2>. QED
    BY <2>1, <2>2, <2>3 DEF InterruptsExact
<1>10. Inv'
  <2>. HIDE DEF e, t
  <2>. QED
    BY <1>4, <1>5, <1>9, StepEnds
<1>11. RisesByTrap
  <2>. HIDE DEF cause
  <2>. QED
    BY <1>1, <1>2, <1>3, <1>5, <1>7, TrapRises
<1>. QED
  BY <1>10, <1>11

LEMMA RetirePlain ==
    ASSUME NEW c, NEW s, Left(c, s), NEW next \in Addr,
           insts \in Nat, status \in {"run", "exit", "abort"}, cpu.mpriv \in 0 .. 3,
           c.mpriv <= cpu.mpriv,
           Retires(c, next, s), TakenIrqs(c) = {}
    PROVE  Inv' /\ RisesByTrap
<1>. DEFINE e == [c EXCEPT !.pc = next]
            t == [s EXCEPT !.trap = "none"]
<1>1. c \in Cpu /\ s \in Seen
  BY DEF Left
<1>2. /\ Left(e, t) /\ e.mip = c.mip /\ e.mie = c.mie /\ e.mideleg = c.mideleg
      /\ e.mpriv = c.mpriv /\ e.msr = c.msr
  BY NextLeft
<1>3. /\ cpu' = EndOfStep(e) /\ insts' = insts + 1 /\ UNCHANGED <<bps, status>>
      /\ seen' = [s EXCEPT !.trap = "none", !.fresh = Fresh(e)]
  BY DEF Retires
<1>4. seen' = [t EXCEPT !.fresh = Fresh(e)]
  BY <1>3
<1>5. seen'.trap = "none" /\ seen'.fresh = cpu'.mip \ e.mip
  BY <1>1, <1>3 DEF Seen, Fresh
<1>6. /\ cpu'.mie = c.mie /\ cpu'.mideleg = c.mideleg /\ cpu'.mpriv = c.mpriv
      /\ cpu'.msr = c.msr
  BY <1>2, <1>3, EndType DEF Left
<1>. HIDE DEF e, t
<1>7. InterruptsExact'
  <2>1. ASSUME NEW i \in (Admitted("M") \cup Admitted("S"))' PROVE i \in seen'.fresh
    <3>1. i \in cpu'.mip \cap c.mie
      BY <1>6, <2>1 DEF Admitted
    <3>2. \/ i \notin c.mideleg /\ (c.mpriv # PRIV_MACHINE \/ "MIE" \in c.msr)
          \/ i \in c.mideleg /\ (\/ c.mpriv = PRIV_USER
                                 \/ c.mpriv = PRIV_SUPER /\ "SIE" \in c.msr)
      BY <1>6, <2>1 DEF Admitted
    <3>3. i \notin c.mip
      BY <1>1, <3>1, <3>2, NoneTaken
    <3>. QED
      BY <1>2, <1>5, <3>1, <3>3
  <2>. QED
    BY <1>5, <2>1 DEF InterruptsExact
<1>8. Inv'
  BY <1>2, <1>3, <1>4, <1>7, StepEnds
<1>9. RisesByTrap
  <2>1. ~(cpu'.mpriv > cpu.mpriv)
    BY <1>1, <1>6 DEF Cpu
  <2>. QED
    BY <1>5, <2>1 DEF RisesByTrap
<1>. QED
  BY <1>8, <1>9

LEMMA RetireStep ==
    ASSUME NEW c, NEW s, Left(c, s), NEW next \in Addr,
           insts \in Nat, status \in {"run", "exit", "abort"}, cpu.mpriv \in 0 .. 3,
           c.mpriv <= cpu.mpriv,
           Retires(c, next, s)
    PROVE  Inv' /\ RisesByTrap
  BY RetireTrapped, RetirePlain

-----------------------------------------------------------------------------
(* What each kind of instruction hands to its last part. *)
LEMMA FetchedLeft ==
    ASSUME Inv
    PROVE  /\ Left(Fetched, SeenFetch)
           /\ Fetched.mpriv = cpu.mpriv /\ Fetched.msr = cpu.msr /\ Fetched.brk = cpu.brk
           /\ Fetched.mepc = cpu.mepc /\ Fetched.sepc = cpu.sepc /\ Fetched.pcx = cpu.pc
           /\ SeenFetch.mframe = seen.mframe /\ SeenFetch.sframe = seen.sframe
           /\ SeenFetch.ret = NoReturn /\ SeenFetch.due = (seen.due \/ DueAt(cpu.pc))
           /\ SeenFetch.stale = seen.stale
<1>1. /\ Fetched \in Cpu
      /\ Fetched.mpriv = cpu.mpriv /\ Fetched.msr = cpu.msr /\ Fetched.brk = cpu.brk
      /\ Fetched.mepc = cpu.mepc /\ Fetched.sepc = cpu.sepc /\ Fetched.pcx = cpu.pc
  BY DEF Inv, TypeOK, Fetched, Cpu
<1>2. NoReturn \in Return
  BY DEF NoReturn, NoFrame, Return, Frame, Addr
<1>. DEFINE d == seen.due \/ DueAt(cpu.pc)
<1>3. SeenFetch = [seen EXCEPT !.ret = NoReturn, !.due = d]
  BY DEF Inv, Seen, SeenFetch
<1>4. d \in BOOLEAN
  BY DEF DueAt
<1>. HIDE DEF d
<1>5. /\ SeenFetch \in Seen
      /\ SeenFetch.mframe = seen.mframe /\ SeenFetch.sframe = seen.sframe
      /\ SeenFetch.ret = NoReturn /\ SeenFetch.due = d /\ SeenFetch.stale = seen.stale
  BY <1>2, <1>3, <1>4 DEF Inv, Seen
<1>6. FramesHeld(SeenFetch, Fetched)
  BY <1>1, <1>5 DEF Inv, FramesHeld, MFrameHeld, SFrameHeld, FrameHeld
<1>7. BreakComing(Fetched) <=> (cpu.brk \/ DueAt(cpu.pc))
  BY <1>1 DEF BreakComing
<1>8. BreakSeen(SeenFetch, Fetched)
  BY <1>5, <1>7 DEF Inv, BreakExact, BreakSeen, d
<1>9. Restored(SeenFetch.ret)
  BY <1>5 DEF Restored, NoReturn
<1>. QED
  BY <1>1, <1>5, <1>6, <1>8, <1>9 DEF Left, d

LEMMA AfterType == ASSUME NEW pc \in Addr PROVE After(pc) \in Addr
  BY DEF After, Addr

LEMMA FetchFaultStep == ASSUME Inv, FetchFault PROVE Inv' /\ RisesByTrap
<1>. DEFINE s == [seen EXCEPT !.ret = NoReturn, !.stale = TRUE]
<1>1. NoReturn \in Return
  BY DEF NoReturn, NoFrame, Return, Frame, Addr
<1>2. /\ s \in Seen /\ s.mframe = seen.mframe /\ s.sframe = seen.sframe
      /\ s.ret = NoReturn /\ s.due = seen.due /\ s.stale
  BY <1>1 DEF Inv, Seen
<1>3. cpu \in Cpu /\ cpu.mpriv \in 0 .. 3
  BY DEF Inv, TypeOK, Cpu
<1>4. FramesHeld(s, cpu)
  BY <1>2 DEF Inv, FramesHeld, MFrameHeld, SFrameHeld, FrameHeld
<1>5. BreakSeen(s, cpu)
  BY <1>2 DEF Inv, BreakExact, BreakSeen, BreakComing
<1>6. Restored(s.ret)
  BY <1>2 DEF Restored, NoReturn
<1>7. Faults(cpu, MCAUSE_PAGE_FAULT_INST, s)
  BY DEF FetchFault
<1>. HIDE DEF s
<1>8. Left(cpu, s)
  BY <1>2, <1>3, <1>4, <1>5, <1>6 DEF Left
<1>. QED
  BY <1>3, <1>7, <1>8, FaultStep DEF Inv, TypeOK, MCAUSE_PAGE_FAULT_INST

(* Nothing moves when the process ends. *)
LEMMA EndStep == ASSUME Inv, NEW how \in {"exit", "abort"}, Ends(how)
                 PROVE  Inv' /\ RisesByTrap
  BY DEF Ends, Inv, TypeOK, RisesByTrap, FramesHeld, MFrameHeld, SFrameHeld, FrameHeld,
         ReturnRestores, BreakExact, InterruptsExact

LEMMA PlainStep ==
    ASSUME Inv, \/ ExecuteCompute \/ ExecuteJump \/ ExecuteLoad \/ ExecuteStore
                \/ ExecuteFence \/ ExecuteEcall \/ ExecuteExit
    PROVE  Inv' /\ RisesByTrap
<1>1. /\ Left(Fetched, SeenFetch) /\ Fetched.mpriv = cpu.mpriv
      /\ insts \in Nat /\ status \in {"run", "exit", "abort"} /\ cpu.mpriv \in 0 .. 3
      /\ cpu.pc \in Addr
  BY FetchedLeft DEF Inv, TypeOK, Cpu
<1>2. ASSUME NEW next \in Addr, Retires(Fetched, next, SeenFetch)
      PROVE  Inv' /\ RisesByTrap
  BY <1>1, <1>2, RetireStep
<1>3. ASSUME NEW code \in Nat, Faults(Fetched, code, SeenFetch)
      PROVE  Inv' /\ RisesByTrap
  BY <1>1, <1>3, FaultStep
<1>4. CASE ExecuteCompute \/ ExecuteFence
  BY <1>1, <1>2, <1>4, AfterType DEF ExecuteCompute, ExecuteFence
<1>5. CASE ExecuteJump
  BY <1>2, <1>5 DEF ExecuteJump
<1>6. CASE ExecuteLoad \/ ExecuteStore
  <2>1. CASE Retires(Fetched, After(cpu.pc), SeenFetch)
    BY <1>1, <1>2, <2>1, AfterType
  <2>2. CASE Faults(Fetched, MCAUSE_PAGE_FAULT_LOAD, SeenFetch)
    BY <1>3, <2>2 DEF MCAUSE_PAGE_FAULT_LOAD
  <2>3. CASE Faults(Fetched, MCAUSE_PAGE_FAULT_STORE, SeenFetch)
    BY <1>3, <2>3 DEF MCAUSE_PAGE_FAULT_STORE
  <2>4. CASE Ends("exit")
    BY <2>4, EndStep
  <2>. QED
    BY <1>6, <2>1, <2>2, <2>3, <2>4 DEF ExecuteLoad, ExecuteStore
<1>7. CASE ExecuteEcall
  <2>1. MCAUSE_ECALL_U + cpu.mpriv \in Nat
    BY <1>1 DEF MCAUSE_ECALL_U
  <2>. QED
    BY <1>3, <1>7, <2>1 DEF ExecuteEcall
<1>8. CASE ExecuteExit
  BY <1>8, EndStep DEF ExecuteExit
<1>. QED
  BY <1>4, <1>5, <1>6, <1>7, <1>8

LEMMA EbreakStep == ASSUME Inv, ExecuteEbreak PROVE Inv' /\ RisesByTrap
<1>. DEFINE c == [Fetched EXCEPT !.brk = TRUE]
            s == [SeenFetch EXCEPT !.due = TRUE]
<1>1. Left(Fetched, SeenFetch) /\ Fetched.mpriv = cpu.mpriv
  BY FetchedLeft
<1>2. /\ c \in Cpu /\ c.brk /\ c.mpriv = Fetched.mpriv /\ c.msr = Fetched.msr
      /\ c.mepc = Fetched.mepc /\ c.sepc = Fetched.sepc
  BY <1>1 DEF Left, Cpu
<1>3. /\ s \in Seen /\ s.due /\ s.mframe = SeenFetch.mframe /\ s.sframe = SeenFetch.sframe
      /\ s.ret = SeenFetch.ret
  BY <1>1 DEF Left, Seen
<1>4. Faults(c, MCAUSE_BREAKPOINT, s)
  BY DEF ExecuteEbreak
<1>. HIDE DEF c, s
<1>5. FramesHeld(s, c)
  BY <1>1, <1>2, <1>3 DEF Left, FramesHeld, MFrameHeld, SFrameHeld, FrameHeld
<1>6. BreakSeen(s, c) /\ Restored(s.ret)
  BY <1>1, <1>2, <1>3 DEF Left, BreakSeen, BreakComing
<1>7. Left(c, s)
  BY <1>2, <1>3, <1>5, <1>6 DEF Left
<1>8. insts \in Nat /\ status \in {"run", "exit", "abort"} /\ cpu.mpriv \in 0 .. 3
  BY DEF Inv, TypeOK, Cpu
<1>. QED
  BY <1>1, <1>2, <1>4, <1>7, <1>8, FaultStep DEF MCAUSE_BREAKPOINT

(* mret: the machine frame is popped, and was still what the last trap saved. *)
LEMMA MretStep == ASSUME Inv, ExecuteMret PROVE Inv' /\ RisesByTrap
<1>1. CASE cpu.mpriv # PRIV_MACHINE
  BY <1>1, EndStep DEF ExecuteMret
<1>2. CASE cpu.mpriv = PRIV_MACHINE
  <2>. DEFINE bits == (cpu.msr \ {"MIE", "MPP0", "MPP1"}) \cup {"MPIE"}
                        \cup (IF "MPIE" \in cpu.msr THEN {"MIE"} ELSE {})
              c == [Fetched EXCEPT !.mpriv = MPP(cpu.msr), !.msr = bits, !.pc = cpu.mepc]
              r == Returned(c, seen.mframe, "MIE")
              s == [SeenFetch EXCEPT !.ret = r, !.mframe = NoFrame]
  <2>1. /\ Left(Fetched, SeenFetch) /\ Fetched.msr = cpu.msr /\ Fetched.sepc = cpu.sepc
        /\ SeenFetch.sframe = seen.sframe
    BY FetchedLeft
  <2>2. cpu \in Cpu /\ seen \in Seen /\ MPP(cpu.msr) \in 0 .. 3 /\ cpu.mepc \in Addr
    BY MppRange DEF Inv, TypeOK, Cpu
  <2>3. bits \in SUBSET StatusBits
    BY <2>2 DEF Cpu, StatusBits
  <2>4. Retires(c, cpu.mepc, s)
    BY <1>2, <2>1 DEF ExecuteMret, Left, Cpu
  <2>5. ("SPIE" \in bits <=> "SPIE" \in cpu.msr) /\ SPP(bits) = SPP(cpu.msr)
        /\ ("MIE" \in bits <=> "MPIE" \in cpu.msr)
    BY DEF SPP
  <2>. HIDE DEF bits
  <2>6. /\ c \in Cpu /\ c.mpriv = MPP(cpu.msr) /\ c.msr = bits /\ c.pc = cpu.mepc
        /\ c.sepc = cpu.sepc /\ c.brk = Fetched.brk /\ c.pcx = Fetched.pcx
    BY <2>1, <2>2, <2>3 DEF Left, Cpu
  <2>. HIDE DEF c
  <2>7. /\ r \in Return /\ r.frame = seen.mframe /\ r.priv = c.mpriv /\ r.pc = c.pc
        /\ r.ie \in {0, 1} /\ (r.ie = 1 <=> "MIE" \in c.msr)
    BY <2>2, <2>6 DEF Returned, Enabled, Return, Cpu, Seen
  <2>8. NoFrame \in Frame
    BY DEF NoFrame, Frame, Addr
  <2>. HIDE DEF r
  <2>9. /\ s \in Seen /\ s.mframe = NoFrame /\ s.sframe = SeenFetch.sframe /\ s.ret = r
        /\ s.due = SeenFetch.due /\ s.stale = SeenFetch.stale
    BY <2>1, <2>7, <2>8 DEF Left, Seen
  <2>. HIDE DEF s
  <2>10. Restored(s.ret)
    <3>1. FrameHeld(seen.mframe, MPP(cpu.msr), cpu.mepc, "MPIE" \in cpu.msr)
      BY DEF Inv, FramesHeld, MFrameHeld
    <3>2. seen.mframe \in Frame
      BY <2>2 DEF Seen
    <3>3. ASSUME seen.mframe # NoFrame
          PROVE  r.priv = seen.mframe.priv /\ r.pc = seen.mframe.pc
      BY <2>6, <2>7, <3>1, <3>3 DEF FrameHeld
    <3>4. ASSUME seen.mframe # NoFrame
          PROVE  r.ie = seen.mframe.ie
      BY <2>5, <2>6, <2>7, <3>1, <3>2, <3>4 DEF FrameHeld, Frame
    <3>. QED
      BY <2>7, <2>9, <3>3, <3>4 DEF Restored
  <2>11. FramesHeld(s, c)
    BY <2>1, <2>5, <2>6, <2>9 DEF Left, FramesHeld, MFrameHeld, SFrameHeld, FrameHeld
  <2>12. BreakSeen(s, c)
    BY <2>1, <2>6, <2>9 DEF Left, BreakSeen, BreakComing
  <2>13. Left(c, s)
    BY <2>6, <2>9, <2>10, <2>11, <2>12 DEF Left
  <2>14. insts \in Nat /\ status \in {"run", "exit", "abort"} /\ cpu.mpriv \in 0 .. 3
         /\ c.mpriv <= cpu.mpriv
    BY <1>2, <2>2, <2>6 DEF Inv, TypeOK, Cpu, PRIV_MACHINE
  <2>. QED
    BY <2>2, <2>4, <2>13, <2>14, RetireStep
<1>. QED
  BY <1>1, <1>2

(* sret: the same of the supervisor frame. *)
LEMMA SretStep == ASSUME Inv, ExecuteSret PROVE Inv' /\ RisesByTrap
<1>1. CASE cpu.mpriv # PRIV_SUPER
  BY <1>1, EndStep DEF ExecuteSret
<1>2. CASE cpu.mpriv = PRIV_SUPER
  <2>. DEFINE bits == (cpu.msr \ {"SIE", "SPP"}) \cup {"SPIE"}
                        \cup (IF "SPIE" \in cpu.msr THEN {"SIE"} ELSE {})
              priv == SPP(cpu.msr)
              c == [Fetched EXCEPT !.mpriv = priv, !.msr = bits, !.pc = cpu.sepc]
              r == Returned(c, seen.sframe, "SIE")
              s == [SeenFetch EXCEPT !.ret = r, !.sframe = NoFrame]
  <2>1. /\ Left(Fetched, SeenFetch) /\ Fetched.msr = cpu.msr /\ Fetched.mepc = cpu.mepc
        /\ SeenFetch.mframe = seen.mframe
    BY FetchedLeft
  <2>2. cpu \in Cpu /\ seen \in Seen /\ priv \in 0 .. 3 /\ priv <= PRIV_SUPER
        /\ cpu.sepc \in Addr
    BY DEF Inv, TypeOK, Cpu, SPP, PRIV_SUPER, PRIV_USER
  <2>3. bits \in SUBSET StatusBits
    BY <2>2 DEF Cpu, StatusBits
  <2>4. Retires(c, cpu.sepc, s)
    BY <1>2, <2>1 DEF ExecuteSret, Left, Cpu, SPP
  <2>5. ("MPIE" \in bits <=> "MPIE" \in cpu.msr) /\ MPP(bits) = MPP(cpu.msr)
        /\ ("SIE" \in bits <=> "SPIE" \in cpu.msr)
    BY DEF MPP
  <2>. HIDE DEF bits, priv
  <2>6. /\ c \in Cpu /\ c.mpriv = priv /\ c.msr = bits /\ c.pc = cpu.sepc
        /\ c.mepc = cpu.mepc /\ c.brk = Fetched.brk /\ c.pcx = Fetched.pcx
    BY <2>1, <2>2, <2>3 DEF Left, Cpu
  <2>. HIDE DEF c
  <2>7. /\ r \in Return /\ r.frame = seen.sframe /\ r.priv = c.mpriv /\ r.pc = c.pc
        /\ r.ie \in {0, 1} /\ (r.ie = 1 <=> "SIE" \in c.msr)
    BY <2>2, <2>6 DEF Returned, Enabled, Return, Cpu, Seen
  <2>8. NoFrame \in Frame
    BY DEF NoFrame, Frame, Addr
  <2>. HIDE DEF r
  <2>9. /\ s \in Seen /\ s.sframe = NoFrame /\ s.mframe = SeenFetch.mframe /\ s.ret = r
        /\ s.due = SeenFetch.due /\ s.stale = SeenFetch.stale
    BY <2>1, <2>7, <2>8 DEF Left, Seen
  <2>. HIDE DEF s
  <2>10. Restored(s.ret)
    <3>1. FrameHeld(seen.sframe, priv, cpu.sepc, "SPIE" \in cpu.msr)
      BY DEF Inv, FramesHeld, SFrameHeld, priv
    <3>2. seen.sframe \in Frame
      BY <2>2 DEF Seen
    <3>3. ASSUME seen.sframe # NoFrame
          PROVE  r.priv = seen.sframe.priv /\ r.pc = seen.sframe.pc
      BY <2>6, <2>7, <3>1, <3>3 DEF FrameHeld
    <3>4. ASSUME seen.sframe # NoFrame
          PROVE  r.ie = seen.sframe.ie
      BY <2>5, <2>6, <2>7, <3>1, <3>2, <3>4 DEF FrameHeld, Frame
    <3>. QED
      BY <2>7, <2>9, <3>3, <3>4 DEF Restored
  <2>11. FramesHeld(s, c)
    BY <2>1, <2>5, <2>6, <2>9 DEF Left, FramesHeld, MFrameHeld, SFrameHeld, FrameHeld
  <2>12. BreakSeen(s, c)
    BY <2>1, <2>6, <2>9 DEF Left, BreakSeen, BreakComing
  <2>13. Left(c, s)
    BY <2>6, <2>9, <2>10, <2>11, <2>12 DEF Left
  <2>14. insts \in Nat /\ status \in {"run", "exit", "abort"} /\ cpu.mpriv \in 0 .. 3
         /\ c.mpriv <= cpu.mpriv
    BY <1>2, <2>2, <2>6 DEF Inv, TypeOK, Cpu
  <2>. QED
    BY <2>2, <2>4, <2>13, <2>14, RetireStep
<1>. QED
  BY <1>1, <1>2

-----------------------------------------------------------------------------
(* CSR accesses. *)
LEMMA StdType ==
    ASSUME NEW bits, NEW old \in SUBSET bits, NEW mask \in SUBSET bits, NEW data,
           NEW set \in BOOLEAN, NEW clr \in BOOLEAN
    PROVE  /\ CsrStd(old, mask, data, set, clr) \in SUBSET bits
           /\ ~(set /\ clr) => \A b : b \notin mask =>
                (b \in CsrStd(old, mask, data, set, clr) <=> b \in old)
  BY DEF CsrStd

LEMMA MaskType ==
    /\ CsrMask["mstatus"] = StatusBits /\ CsrMask["sstatus"] = SModeBits
    /\ CsrMask["mie"] = Irqs /\ CsrMask["sie"] = SIrqs
    /\ CsrMask["mip"] = Irqs /\ CsrMask["sip"] = SIrqs
    /\ CsrMask["mideleg"] = Irqs /\ CsrMask["medeleg"] = Causes
    /\ SModeBits \subseteq StatusBits /\ SIrqs \subseteq Irqs
  BY DEF CsrMask, SModeBits, StatusBits, SIrqs, Irqs, IRQ_S_TIMER

(* A CSR access changes neither privilege nor breaks, and what it may change of the two
   frames depends on the register it names.                                            *)
CsrKept(c, e, w) ==
    /\ e \in Cpu /\ e.mpriv = c.mpriv /\ e.brk = c.brk /\ e.pcx = c.pcx
    /\ w[1] # "mepc" => e.mepc = c.mepc
    /\ w[1] # "sepc" => e.sepc = c.sepc
    /\ w[1] \notin {"mstatus", "sstatus"} => e.msr = c.msr
    /\ w[1] = "sstatus" /\ ~(w[3] /\ w[4]) =>
         \A b \in {"MPP0", "MPP1", "MPIE"} : b \in e.msr <=> b \in c.msr

LEMMA CsrKeeps ==
    ASSUME NEW c \in Cpu, NEW w \in CsrWrites
    PROVE  CsrKept(c, CsrUpdate(c, w), w)
<1>. DEFINE e == CsrUpdate(c, w)
            std(old) == CsrStd(old, CsrMask[w[1]], w[2], w[3], w[4])
<1>1. w[3] \in BOOLEAN /\ w[4] \in BOOLEAN
  OBVIOUS
<1>2. /\ c.msr \in SUBSET StatusBits /\ c.mie \in SUBSET Irqs /\ c.mip \in SUBSET Irqs
      /\ c.mideleg \in SUBSET Irqs /\ c.medeleg \in SUBSET Causes
  BY DEF Cpu
<1>3. CASE w[1] \in {"mstatus", "sstatus"}
  <2>1. e = [c EXCEPT !.msr = std(c.msr)]
    BY <1>3 DEF CsrUpdate, Cpu
  <2>2. CsrMask[w[1]] \in SUBSET StatusBits
    BY <1>3, MaskType
  <2>3. std(c.msr) \in SUBSET StatusBits
    BY <1>1, <1>2, <2>2, StdType
  <2>4. w[1] = "sstatus" /\ ~(w[3] /\ w[4]) =>
          \A b \in {"MPP0", "MPP1", "MPIE"} : b \in std(c.msr) <=> b \in c.msr
    <3>1. \A b \in {"MPP0", "MPP1", "MPIE"} : b \notin SModeBits
      BY DEF SModeBits
    <3>. QED
      BY <1>1, <1>2, <2>2, <3>1, StdType, MaskType
  <2>. HIDE DEF std, e
  <2>. QED
    BY <1>3, <2>1, <2>3, <2>4 DEF Cpu, CsrKept, e
<1>4. CASE w[1] \in {"mie", "sie", "mip", "sip", "mideleg", "medeleg"}
  <2>1. CASE w[1] \in {"mie", "sie"}
    <3>1. e = [c EXCEPT !.mie = std(c.mie)]
      BY <2>1 DEF CsrUpdate, Cpu
    <3>2. CsrMask[w[1]] \in SUBSET Irqs
      BY <2>1, MaskType
    <3>3. std(c.mie) \in SUBSET Irqs
      BY <1>1, <1>2, <3>2, StdType
    <3>. HIDE DEF std, e
    <3>. QED
      BY <2>1, <3>1, <3>3 DEF Cpu, CsrKept, e
  <2>2. CASE w[1] \in {"mip", "sip"}
    <3>1. e = [c EXCEPT !.mip = std(c.mip)]
      BY <2>2 DEF CsrUpdate, Cpu
    <3>2. CsrMask[w[1]] \in SUBSET Irqs
      BY <2>2, MaskType
    <3>3. std(c.mip) \in SUBSET Irqs
      BY <1>1, <1>2, <3>2, StdType
    <3>. HIDE DEF std, e
    <3>. QED
      BY <2>2, <3>1, <3>3 DEF Cpu, CsrKept, e
  <2>3. CASE w[1] = "mideleg"
    <3>1. e = [c EXCEPT !.mideleg = std(c.mideleg)]
      BY <2>3 DEF CsrUpdate, Cpu
    <3>2. std(c.mideleg) \in SUBSET Irqs
      BY <1>1, <1>2, <2>3, MaskType, StdType
    <3>. HIDE DEF std, e
    <3>. QED
      BY <2>3, <3>1, <3>2 DEF Cpu, CsrKept, e
  <2>4. CASE w[1] = "medeleg"
    <3>1. e = [c EXCEPT !.medeleg = std(c.medeleg)]
      BY <2>4 DEF CsrUpdate, Cpu
    <3>2. std(c.medeleg) \in SUBSET Causes
      BY <1>1, <1>2, <2>4, MaskType, StdType
    <3>. HIDE DEF std, e
    <3>. QED
      BY <2>4, <3>1, <3>2 DEF Cpu, CsrKept, e
  <2>. QED
    BY <1>4, <2>1, <2>2, <2>3, <2>4
<1>5. CASE w[1] \in AddressCsrs
  <2>1. w[2] \in Addr
    BY <1>5
  <2>2. CASE w[1] = "mepc"
    <3>1. e = [c EXCEPT !.mepc = w[2]]
      BY <2>2 DEF CsrUpdate
    <3>. QED
      BY <2>1, <2>2, <3>1 DEF Cpu, CsrKept
  <2>3. CASE w[1] = "sepc"
    <3>1. e = [c EXCEPT !.sepc = w[2]]
      BY <2>3 DEF CsrUpdate
    <3>. QED
      BY <2>1, <2>3, <3>1 DEF Cpu, CsrKept
  <2>4. CASE w[1] = "mtvec"
    <3>1. e = [c EXCEPT !.mevec = w[2]]
      BY <2>4 DEF CsrUpdate
    <3>. QED
      BY <2>1, <2>4, <3>1 DEF Cpu, CsrKept
  <2>5. CASE w[1] = "stvec"
    <3>1. e = [c EXCEPT !.sevec = w[2]]
      BY <2>5 DEF CsrUpdate
    <3>. QED
      BY <2>1, <2>5, <3>1 DEF Cpu, CsrKept
  <2>. QED
    BY <1>5, <2>2, <2>3, <2>4, <2>5 DEF AddressCsrs
<1>6. CASE w[1] = "mtime"
  <2>1. CASE w[3] /\ w[2] # 0
    <3>1. e = [c EXCEPT !.mtimecmp = w[2], !.mip = c.mip \ {TimerBit(c)}]
      BY <1>6, <2>1 DEF CsrUpdate, Cpu
    <3>2. w[2] \in 0 .. (TimeMod - 1) /\ c.mip \ {TimerBit(c)} \in SUBSET Irqs
      BY <1>2, <1>6
    <3>. HIDE DEF std, e
    <3>3. e \in Cpu
      BY <3>1, <3>2 DEF Cpu
    <3>4. /\ e.mpriv = c.mpriv /\ e.brk = c.brk /\ e.pcx = c.pcx
          /\ e.mepc = c.mepc /\ e.sepc = c.sepc /\ e.msr = c.msr
      BY <3>1 DEF Cpu
    <3>. QED
      BY <1>6, <3>3, <3>4 DEF CsrKept, e
  <2>2. CASE ~(w[3] /\ w[2] # 0)
    <3>1. e = c
      BY <1>6, <2>2 DEF CsrUpdate
    <3>. QED
      BY <1>6, <3>1 DEF CsrKept
  <2>. QED
    BY <2>1, <2>2
<1>7. CASE w[1] = "const"
  <2>1. e = c
    BY <1>7 DEF CsrUpdate
  <2>. QED
    BY <1>7, <2>1 DEF CsrKept
<1>. QED
  BY <1>3, <1>4, <1>5, <1>6, <1>7 DEF CsrNames

LEMMA CsrStep == ASSUME Inv, ExecuteCsr PROVE Inv' /\ RisesByTrap
<1>1. PICK w \in CsrWrites :
        Retires(CsrUpdate(Fetched, w), After(cpu.pc), SeenCsr(SeenFetch, w))
  BY DEF ExecuteCsr
<1>. DEFINE c == CsrUpdate(Fetched, w)
            s == SeenCsr(SeenFetch, w)
            all == w[3] /\ w[4]
            mspoilt == w[1] \in {"mstatus", "mepc"} \/ (w[1] = "sstatus" /\ all)
            sspoilt == w[1] \in {"mstatus", "sstatus", "sepc"}
<1>2. Left(Fetched, SeenFetch) /\ Fetched.mpriv = cpu.mpriv
  BY FetchedLeft
<1>3. CsrKept(Fetched, c, w)
  BY <1>2, CsrKeeps DEF Left
<1>4. NoFrame \in Frame
  BY DEF NoFrame, Frame, Addr
<1>5. s = [SeenFetch EXCEPT !.mframe = IF mspoilt THEN NoFrame ELSE SeenFetch.mframe,
                            !.sframe = IF sspoilt THEN NoFrame ELSE SeenFetch.sframe]
  BY <1>2 DEF SeenCsr, Left, Seen
<1>. HIDE DEF c, s, mspoilt, sspoilt
<1>6. /\ s \in Seen /\ s.ret = SeenFetch.ret /\ s.due = SeenFetch.due /\ s.stale = SeenFetch.stale
      /\ s.mframe = IF mspoilt THEN NoFrame ELSE SeenFetch.mframe
      /\ s.sframe = IF sspoilt THEN NoFrame ELSE SeenFetch.sframe
  BY <1>2, <1>4, <1>5 DEF Left, Seen
<1>7. ASSUME ~mspoilt
      PROVE  /\ c.mepc = Fetched.mepc /\ MPP(c.msr) = MPP(Fetched.msr)
             /\ "MPIE" \in c.msr <=> "MPIE" \in Fetched.msr
  BY <1>3, <1>7 DEF CsrKept, MPP, mspoilt
<1>8. ASSUME ~sspoilt
      PROVE  c.sepc = Fetched.sepc /\ c.msr = Fetched.msr
  BY <1>3, <1>8 DEF CsrKept, sspoilt
<1>9. MFrameHeld(s, c)
  BY <1>2, <1>6, <1>7 DEF Left, FramesHeld, MFrameHeld, FrameHeld
<1>10. SFrameHeld(s, c)
  BY <1>2, <1>6, <1>8 DEF Left, FramesHeld, SFrameHeld, FrameHeld
<1>11. BreakSeen(s, c) /\ Restored(s.ret)
  BY <1>2, <1>3, <1>6 DEF Left, CsrKept, BreakSeen, BreakComing
<1>12. Left(c, s)
  BY <1>3, <1>6, <1>9, <1>10, <1>11 DEF Left, CsrKept, FramesHeld
<1>13. /\ insts \in Nat /\ status \in {"run", "exit", "abort"} /\ cpu.mpriv \in 0 .. 3
       /\ cpu.pc \in Addr /\ c.mpriv = cpu.mpriv
  BY <1>2, <1>3 DEF Inv, TypeOK, Cpu, CsrKept
<1>14. c.mpriv <= cpu.mpriv /\ After(cpu.pc) \in Addr
  BY <1>13, AfterType
<1>15. Retires(c, After(cpu.pc), s)
  BY <1>1 DEF c, s
<1>. QED
  BY <1>12, <1>13, <1>14, <1>15, RetireStep

-----------------------------------------------------------------------------
(* What a debugger does between the steps. *)
LEMMA InterfaceStep == ASSUME Inv, Interface PROVE Inv' /\ RisesByTrap
<1>1. insts' = insts /\ insts \in Nat
  BY DEF Inv, Interface, set_interrupt, set_register, set_breakpoint, clr_breakpoint, get_break
<1>2. RisesByTrap
  BY <1>1 DEF RisesByTrap
<1>3. CASE set_interrupt
  <2>1. /\ cpu' = [cpu EXCEPT !.mip = cpu.mip \cup {IRQ_M_EXT}] /\ cpu \in Cpu
        /\ seen' = [seen EXCEPT !.fresh = seen.fresh \cup {IRQ_M_EXT}] /\ seen \in Seen
        /\ UNCHANGED <<bps, insts, status>>
    BY <1>3 DEF set_interrupt, Inv, TypeOK, Cpu, Seen
  <2>2. IRQ_M_EXT \in Irqs
    BY DEF Irqs
  <2>3. /\ cpu' \in Cpu /\ cpu'.mip = cpu.mip \cup {IRQ_M_EXT} /\ cpu'.mie = cpu.mie
        /\ cpu'.mideleg = cpu.mideleg /\ cpu'.mpriv = cpu.mpriv /\ cpu'.msr = cpu.msr
        /\ cpu'.mepc = cpu.mepc /\ cpu'.sepc = cpu.sepc /\ cpu'.brk = cpu.brk
    BY <2>1, <2>2 DEF Cpu
  <2>4. /\ seen' \in Seen /\ seen'.fresh = seen.fresh \cup {IRQ_M_EXT}
        /\ seen'.mframe = seen.mframe /\ seen'.sframe = seen.sframe /\ seen'.ret = seen.ret
        /\ seen'.trap = seen.trap /\ seen'.due = seen.due /\ seen'.stale = seen.stale
    BY <2>1, <2>2 DEF Seen
  <2>5. FramesHeld(seen', cpu')
    BY <2>3, <2>4 DEF Inv, FramesHeld, MFrameHeld, SFrameHeld, FrameHeld
  <2>6. ReturnRestores' /\ BreakExact'
    BY <2>3, <2>4 DEF Inv, ReturnRestores, BreakExact
  <2>7. InterruptsExact'
    <3>1. \A level \in {"M", "S"} : Admitted(level)' \subseteq Admitted(level) \cup {IRQ_M_EXT}
      BY <2>3 DEF Admitted
    <3>. QED
      BY <2>1, <2>4, <3>1 DEF Inv, InterruptsExact
  <2>. QED
    BY <1>2, <2>1, <2>3, <2>4, <2>5, <2>6, <2>7 DEF Inv, TypeOK
<1>4. CASE set_register
  <2>1. PICK p \in Presets : cpu' = p
    BY <1>4 DEF set_register
  <2>2. /\ cpu' \in Cpu /\ ~cpu'.brk /\ ~cpu.brk /\ insts = 0
        /\ UNCHANGED <<bps, insts, status, seen>>
    BY <1>4, <2>1 DEF set_register, ResetState
  <2>3. ~seen.due
    BY <2>2 DEF Inv, BreakExact
  <2>4. FramesHeld(seen', cpu')
    BY <2>2 DEF Inv, FramesHeld, MFrameHeld, SFrameHeld, FrameHeld
  <2>5. ReturnRestores' /\ BreakExact' /\ InterruptsExact'
    BY <2>2, <2>3 DEF Inv, ReturnRestores, BreakExact, InterruptsExact
  <2>. QED
    BY <1>2, <2>2, <2>4, <2>5 DEF Inv, TypeOK
<1>5. CASE set_breakpoint \/ clr_breakpoint
  BY <1>2, <1>5 DEF set_breakpoint, clr_breakpoint, Inv, TypeOK, FramesHeld, MFrameHeld, SFrameHeld,
              FrameHeld, ReturnRestores, BreakExact, InterruptsExact, Admitted
<1>6. CASE get_break
  <2>1. /\ cpu' = [cpu EXCEPT !.brk = FALSE] /\ cpu \in Cpu
        /\ seen' = [seen EXCEPT !.due = FALSE, !.stale = FALSE] /\ seen \in Seen
        /\ UNCHANGED <<bps, insts, status>>
    BY <1>6 DEF get_break, Inv, TypeOK
  <2>2. /\ cpu' \in Cpu /\ ~cpu'.brk /\ cpu'.mip = cpu.mip /\ cpu'.mie = cpu.mie
        /\ cpu'.mideleg = cpu.mideleg /\ cpu'.mpriv = cpu.mpriv /\ cpu'.msr = cpu.msr
        /\ cpu'.mepc = cpu.mepc /\ cpu'.sepc = cpu.sepc
    BY <2>1 DEF Cpu
  <2>3. /\ seen' \in Seen /\ seen'.fresh = seen.fresh /\ ~seen'.due
        /\ seen'.mframe = seen.mframe /\ seen'.sframe = seen.sframe /\ seen'.ret = seen.ret
        /\ seen'.trap = seen.trap
    BY <2>1 DEF Seen
  <2>4. FramesHeld(seen', cpu')
    BY <2>2, <2>3 DEF Inv, FramesHeld, MFrameHeld, SFrameHeld, FrameHeld
  <2>5. ReturnRestores' /\ BreakExact'
    BY <2>2, <2>3 DEF Inv, ReturnRestores, BreakExact
  <2>6. InterruptsExact'
    BY <2>1, <2>2, <2>3 DEF Inv, InterruptsExact, Admitted
  <2>. QED
    BY <1>2, <2>1, <2>2, <2>3, <2>4, <2>5, <2>6 DEF Inv, TypeOK
<1>. QED
  BY <1>2, <1>3, <1>4, <1>5, <1>6 DEF Interface

-----------------------------------------------------------------------------
LEMMA InitInv == ASSUME Init PROVE Inv
<1>1. cpu \in Cpu /\ ~cpu.brk
  BY DEF Init, ResetState, Cpu, Addr, PRIV_MACHINE
<1>2. /\ seen \in Seen /\ seen.mframe = NoFrame /\ seen.sframe = NoFrame
      /\ seen.ret.frame = NoFrame /\ ~seen.due
  BY DEF Init, Nothing, NoReturn, NoFrame, Seen, Frame, Return, Trap, Addr
<1>3. insts = 0 /\ status = "run"
  BY DEF Init
<1>. QED
  BY <1>1, <1>2, <1>3 DEF Inv, TypeOK, FramesHeld, MFrameHeld, SFrameHeld, FrameHeld,
                         ReturnRestores, BreakExact, InterruptsExact

LEMMA NextInv == ASSUME Inv, [Next]_vars PROVE Inv' /\ (RisesByTrap \/ UNCHANGED vars)
<1>1. CASE UNCHANGED vars
  BY <1>1 DEF vars, Inv, TypeOK, FramesHeld, MFrameHeld, SFrameHeld,
              FrameHeld, ReturnRestores, BreakExact, InterruptsExact, Admitted
<1>2. CASE Execute
  BY <1>2, FetchFaultStep, PlainStep, EbreakStep, MretStep, SretStep, CsrStep DEF Execute
<1>3. CASE Interface
  BY <1>3, InterfaceStep
<1>. QED
  BY <1>1, <1>2, <1>3 DEF Next

(* The inductive invariant: the registers have their widths, and what is remembered of
   traps, interrupts and breaks agrees with them.                                       *)
THEOREM SimInvariant == Spec => []Inv
<1>. QED
  BY InitInv, NextInv, PTL DEF Spec

(* Registers keep their widths, and a break is reported exactly when one was due
   (check_breakpoint, get_break), for every program and every list of breakpoints.     *)
THEOREM BreaksExact == Spec => []SimInv
<1>1. Inv => SimInv
  BY DEF Inv, SimInv
<1>. QED
  BY <1>1, SimInvariant, PTL

(* mret and sret restore what their level's last trap saved, at any depth of nesting. *)
THEOREM ReturnsRestore == Spec => []ReturnRestores
<1>1. Inv => ReturnRestores
  BY DEF Inv
<1>. QED
  BY <1>1, SimInvariant, PTL

(* The end of execute takes an admitted interrupt if there is one, machine level first. *)
THEOREM InterruptsTaken == Spec => []InterruptsExact
<1>1. Inv => InterruptsExact
  BY DEF Inv
<1>. QED
  BY <1>1, SimInvariant, PTL

(* Privilege rises only by a trap to its vector, and no exception lowers it. *)
THEOREM PrivilegeRisesByTrap == Spec => PrivilegeByTrap
<1>1. Inv /\ [Next]_vars => [RisesByTrap]_vars
  BY NextInv
<1>. QED
  BY <1>1, SimInvariant, PTL DEF Spec, PrivilegeByTrap

-----------------------------------------------------------------------------
(* Beside the processor: the two translations. *)

HIDE SimAssumption DEF SimAssumption

\* A power of two is a positive number: it counts the subsets of a set.
LEMMA PowerPositive == \A n \in Nat : 2^n \in Nat \ {0}
<1>. SUFFICES ASSUME NEW n \in Nat PROVE 2^n \in Nat \ {0}
  OBVIOUS
<1>1. IsFiniteSet(1 .. n) /\ Cardinality(1 .. n) = n
  <2>1. 1 \in Int /\ n \in Int
    OBVIOUS
  <2>. QED
    BY <2>1, FS_Interval
<1>2. IsFiniteSet(SUBSET (1 .. n)) /\ Cardinality(SUBSET (1 .. n)) = 2^n
  BY <1>1, FS_SUBSET
<1>3. Cardinality(SUBSET (1 .. n)) \in Nat
  BY <1>2, FS_CardinalityType
<1>4. Cardinality(SUBSET (1 .. n)) # 0
  <2>1. SUBSET (1 .. n) # {}
    OBVIOUS
  <2>. QED
    BY <1>2, <2>1, FS_EmptySet
<1>. QED
  BY <1>2, <1>3, <1>4

\* The space of the page numbers.
LEMMA MmuSizes == /\ 2^PhysBits \in Nat \ {0} /\ 2^IdxBits \in Nat \ {0} /\ 2^PpnBits \in Nat \ {0}
                  /\ 2^(0 * IdxBits) = 1 /\ 2^(1 * IdxBits) = 2^IdxBits
<1>1. IdxBits \in Nat /\ PhysBits \in Nat /\ PpnBits \in Nat
  BY MmuAssumption
<1>2. 0 * IdxBits = 0 /\ 1 * IdxBits = IdxBits
  BY <1>1
<1>3. 2^0 = 1
  OBVIOUS
<1>. QED
  BY <1>1, <1>2, <1>3, PowerPositive

\* Memory as the page tables of RvUnits have it.
PageTables == UNION {[D -> [Idx -> Pte]] : D \in SUBSET (0 .. (2^PhysBits - 1))}

\* What is left of a number below the modulus.
LEMMA SmallMod == \A m \in Nat \ {0} : \A n \in 0 .. (m - 1) : n % m = n
OBVIOUS

LEMMA VpnIdxIs ==
    ASSUME NEW vpn \in Vpn, NEW i \in {0, 1}
    PROVE  VpnIdx(vpn, i) \in Idx
<1>1. vpn \in Nat /\ 2^(i * IdxBits) \in Nat \ {0} /\ 2^IdxBits \in Nat \ {0}
  BY MmuSizes DEF Vpn
<1>. DEFINE s == 2^(i * IdxBits)
            n == 2^IdxBits
            d == vpn \div s
<1>2. VpnIdx(vpn, i) = d % n /\ Idx = 0 .. (n - 1)
  BY DEF VpnIdx, Idx
<1>3. s \in Nat \ {0} /\ n \in Nat \ {0}
  BY <1>1
<1>. HIDE DEF s, n
<1>4. d \in Nat
  BY <1>1, <1>3
<1>. HIDE DEF d
<1>. QED
  BY <1>2, <1>3, <1>4

LEMMA PteIs ==
    ASSUME NEW mem \in PageTables, NEW p \in DOMAIN mem, NEW j \in Idx
    PROVE  mem[p][j] \in Pte
<1>1. mem[p] \in [Idx -> Pte]
  BY DEF PageTables
<1>. QED
  BY <1>1

LEMMA TablePageIs == \A n \in Nat : TablePage(n) \in 0 .. (2^PhysBits - 1)
<1>. DEFINE s == 2^PhysBits
<1>1. s \in Nat \ {0} /\ \A n \in Nat : TablePage(n) = n % s
  BY MmuSizes DEF TablePage
<1>. HIDE DEF s
<1>2. \A n \in Nat : n % s \in 0 .. (s - 1)
  BY <1>1
<1>. QED
  BY <1>1, <1>2 DEF s

\* The walk of the simulator ends with the entry the processor puts in its TLB, if that one
\* points into memory, and with none where the processor has none or a last-level table is
\* missing.
WalkEnds(mem, satp, vpn, entry) ==
    LET walk == mmu_walk(mem, satp, vpn)
    IN  \/ walk = Outcome("pte", NoPte) /\ (entry = NoPte \/ TableMissing(mem, satp, vpn))
        \/ /\ "V" \in entry.flags /\ ~Pointer(entry) /\ ~Reserved(entry.flags)
           /\ \/ entry.ppn \in DOMAIN mem /\ walk = Outcome("pte", entry)
              \/ entry.ppn \notin DOMAIN mem /\ walk = Outcome("exit", NoPte)

\* A leaf of level 1 is completed by the low index of the page number, one of level 0
\* by nothing.
LEMMA LowIndex ==
    ASSUME NEW vpn \in Vpn
    PROVE  vpn % 2^(1 * IdxBits) = VpnIdx(vpn, 0) /\ vpn % 2^(0 * IdxBits) = 0
<1>1. vpn \in Nat
  BY DEF Vpn
<1>2. vpn \div 1 = vpn /\ vpn % 1 = 0
  BY <1>1
<1>. QED
  BY <1>2, MmuSizes DEF VpnIdx

LEMMA WalkAgrees ==
    ASSUME NEW mem \in PageTables, NEW satp, satp.mode, NEW vpn \in Vpn,
           WellFormed(mem, satp, vpn), NEW entry \in RtlEntries(mem, satp, vpn)
    PROVE  WalkEnds(mem, satp, vpn, entry)
<1>. DEFINE below == [q \in 0 .. (2^PhysBits - 1) |-> Outcome("undefined", NoPte)]
            level0 == [p \in 0 .. (2^PhysBits - 1) |-> WalkLevel(mem, vpn, p, 0, below)]
            base == TablePage(satp.ppn)
            first == IF base \in DOMAIN mem THEN mem[base][VpnIdx(vpn, 1)] ELSE NoPte
            table == TablePage(first.ppn)
            second == mem[table][VpnIdx(vpn, 0)]
            missing == TableMissing(mem, satp, vpn)
            walk == mmu_walk(mem, satp, vpn)
            low == BitOr(first.ppn, VpnIdx(vpn, 0))
<1>1. walk = WalkLevel(mem, vpn, base, 1, level0) /\ walk.kind # "undefined"
  BY DEF mmu_walk, WellFormed
<1>2. /\ "V" \notin first.flags => entry = NoPte
      /\ "V" \in first.flags /\ ~Pointer(first) => entry = [first EXCEPT !.ppn = low]
      /\ "V" \in first.flags /\ Pointer(first) /\ table \in DOMAIN mem =>
           entry = (IF "V" \in second.flags THEN second ELSE NoPte)
  BY DEF RtlEntries, RtlFirst
<1>7. missing <=> ("V" \in first.flags /\ Pointer(first) /\ table \notin DOMAIN mem)
  BY DEF TableMissing, RtlFirst
<1>3. "V" \notin NoPte.flags
  BY DEF NoPte
<1>4. ASSUME NEW p \in DOMAIN mem, NEW i \in {0, 1}
      PROVE  /\ mem[p][VpnIdx(vpn, i)] \in [ppn : Ppn, flags : SUBSET Flags]
             /\ ~Reserved(mem[p][VpnIdx(vpn, i)].flags)
  <2>1. VpnIdx(vpn, i) \in Idx
    BY VpnIdxIs
  <2>2. mem[p][VpnIdx(vpn, i)] \in Pte
    BY <2>1, PteIs
  <2>. QED
    BY <2>1, <2>2 DEF WellFormed, Pte
<1>. HIDE DEF below, walk, missing, base
<1>5. CASE base \notin DOMAIN mem
  <2>1. walk = Outcome("pte", NoPte)
    BY <1>1, <1>5 DEF WalkLevel
  <2>2. entry = NoPte
    BY <1>2, <1>3, <1>5
  <2>. QED
    BY <2>1, <2>2 DEF WalkEnds, walk, missing
<1>6. CASE base \in DOMAIN mem
  <2>1. first = mem[base][VpnIdx(vpn, 1)] /\ first \in [ppn : Ppn, flags : SUBSET Flags]
          /\ ~Reserved(first.flags)
    BY <1>4, <1>6
  <2>. HIDE DEF first
  <2>2. CASE "V" \notin first.flags
    <3>1. walk = Outcome("pte", NoPte)
      BY <1>1, <1>6, <2>1, <2>2 DEF WalkLevel
    <3>2. entry = NoPte
      BY <1>2, <2>2
    <3>. QED
      BY <3>1, <3>2 DEF WalkEnds, walk, missing
  <2>3. CASE "V" \in first.flags /\ ~Pointer(first)
    <3>. DEFINE leaf == [first EXCEPT !.ppn = low]
    <3>1. /\ low \in DOMAIN mem => walk = Outcome("pte", leaf)
          /\ low \notin DOMAIN mem => walk = Outcome("exit", NoPte)
      BY <1>1, <1>6, <2>1, <2>3, LowIndex DEF WalkLevel
    <3>2. entry = leaf
      BY <1>2, <2>3
    <3>3. leaf.ppn = low /\ leaf.flags = first.flags
      BY <2>1
    <3>4. ~Pointer(leaf)
      BY <2>3, <3>3 DEF Pointer
    <3>. HIDE DEF leaf, low
    <3>. QED
      BY <2>1, <2>3, <3>1, <3>2, <3>3, <3>4 DEF WalkEnds, walk, missing
  <2>4. CASE "V" \in first.flags /\ Pointer(first)
    <3>1. walk = WalkLevel(mem, vpn, table, 0, below)
      <4>1. table \in 0 .. (2^PhysBits - 1)
        BY <2>1, TablePageIs DEF Ppn
      <4>2. walk = level0[table]
        BY <1>1, <1>6, <2>1, <2>4 DEF WalkLevel
      <4>. QED
        BY <4>1, <4>2
    <3>. HIDE DEF table
    <3>2. CASE table \notin DOMAIN mem
      <4>1. walk = Outcome("pte", NoPte)
        BY <3>1, <3>2 DEF WalkLevel
      <4>2. missing
        BY <1>7, <2>4, <3>2 DEF table
      <4>. QED
        BY <4>1, <4>2 DEF WalkEnds, walk, missing
    <3>3. CASE table \in DOMAIN mem
      <4>1. second = mem[table][VpnIdx(vpn, 0)] /\ second \in [ppn : Ppn, flags : SUBSET Flags]
              /\ ~Reserved(second.flags)
        BY <1>4, <3>3
      <4>. HIDE DEF second
      <4>2. CASE "V" \notin second.flags
        <5>1. walk = Outcome("pte", NoPte)
          BY <3>1, <3>3, <4>1, <4>2 DEF WalkLevel
        <5>2. entry = NoPte
          BY <1>2, <2>4, <3>3, <4>2
        <5>. QED
          BY <5>1, <5>2 DEF WalkEnds, walk, missing
      <4>3. CASE "V" \in second.flags /\ Pointer(second)
        <5>1. walk = below[TablePage(second.ppn)]
          BY <3>1, <3>3, <4>1, <4>3 DEF WalkLevel
        <5>2. TablePage(second.ppn) \in 0 .. (2^PhysBits - 1)
          BY <4>1, TablePageIs DEF Ppn
        <5>3. walk.kind = "undefined"
          BY <5>1, <5>2 DEF below, Outcome
        <5>. QED
          BY <1>1, <5>3
      <4>4. CASE "V" \in second.flags /\ ~Pointer(second)
        <5>1. BitOr(second.ppn, vpn % 2^(0 * IdxBits)) = second.ppn
          BY <4>1, LowIndex, MmuAssumption DEF Ppn
        <5>2. /\ second.ppn \in DOMAIN mem =>
                   walk = Outcome("pte", [second EXCEPT !.ppn = second.ppn])
              /\ second.ppn \notin DOMAIN mem => walk = Outcome("exit", NoPte)
          BY <3>1, <3>3, <4>1, <4>4, <5>1 DEF WalkLevel
        <5>3. [second EXCEPT !.ppn = second.ppn] = second
          BY <4>1
        <5>4. entry = second
          BY <1>2, <2>4, <3>3, <4>4
        <5>. QED
          BY <4>1, <4>4, <5>2, <5>3, <5>4 DEF WalkEnds, walk, missing
      <4>. QED
        BY <4>2, <4>3, <4>4
    <3>. QED
      BY <3>2, <3>3
  <2>. QED
    BY <2>2, <2>3, <2>4
<1>. QED
  BY <1>5, <1>6

\* For the flags of a leaf and for none, the checks of the simulator refuse what the
\* faults of the processor refuse.
CheckIs(priv, sum, access, f) == IF access = "X" THEN FetchCheck(priv, f)
                                 ELSE DataCheck(priv, sum, access, f)

ChecksMatch(priv, sum, access, f) ==
    /\ CheckIs(priv, sum, access, f) \in {"ok", "fault", "exit"}
    /\ CheckIs(priv, sum, access, f) = "ok" <=> ~RtlFault(priv, sum, FALSE, access, f)

LEMMA ChecksAgree ==
    ASSUME NEW f, ~Reserved(f), NEW priv \in {"U", "S"}, NEW sum \in BOOLEAN,
           NEW access \in {"X", "R", "W"}
    PROVE  ChecksMatch(priv, sum, access, f)
<1>1. "W" \in f => "R" \in f
  <2>1. SUFFICES ASSUME "W" \in f, "R" \notin f PROVE FALSE
    OBVIOUS
  <2>2. f \cap {"R", "W", "X"} = {"W"} \/ f \cap {"R", "W", "X"} = {"W", "X"}
    <3>1. CASE "X" \in f
      BY <2>1, <3>1
    <3>2. CASE "X" \notin f
      BY <2>1, <3>2
    <3>. QED
      BY <3>1, <3>2
  <2>. QED
    BY <2>2 DEF Reserved
<1>2. CASE access = "X"
  <2>1. CheckIs(priv, sum, access, f) =
          (IF priv = "S" THEN IF "U" \in f THEN "exit" ELSE IF "X" \notin f THEN "fault" ELSE "ok"
           ELSE IF {"X", "U"} \subseteq f THEN "ok" ELSE "fault")
    BY <1>2 DEF CheckIs, FetchCheck
  <2>2. RtlFault(priv, sum, FALSE, access, f) <=>
          ("X" \notin f \/ (priv = "U" /\ "U" \notin f) \/ (priv = "S" /\ "U" \in f))
    BY <1>2 DEF RtlFault
  <2>. QED
    BY <2>1, <2>2 DEF ChecksMatch
<1>3. CASE access \in {"R", "W"}
  <2>1. CheckIs(priv, sum, access, f) =
          (IF priv = "S" THEN IF "U" \in f /\ ~sum THEN "exit"
                              ELSE IF access \notin f THEN "fault" ELSE "ok"
           ELSE IF {access, "U"} \subseteq f THEN "ok" ELSE "fault")
    BY <1>3 DEF CheckIs, DataCheck
  <2>2. RtlFault(priv, sum, FALSE, access, f) <=>
          (access \notin f \/ (priv = "U" /\ "U" \notin f) \/ (priv = "S" /\ "U" \in f /\ ~sum))
    BY <1>1, <1>3 DEF RtlFault
  <2>. QED
    BY <2>1, <2>2 DEF ChecksMatch
<1>. QED
  BY <1>2, <1>3

\* Where the processor does not walk: at machine level the address stands; without
\* translation the entry mmu_walk makes up lets a supervisor through and no user.
LEMMA BareTranslation ==
    ASSUME NEW mem, NEW satp, NEW priv \in {"U", "S", "M"}, NEW sum \in BOOLEAN,
           NEW access \in {"X", "R", "W"}, NEW vpn, ~RtlWalking(satp, priv, access)
    PROVE  LET sim == Translate(mem, satp, priv, sum, access, vpn)
           IN  IF priv = "U" THEN sim.kind = "fault" ELSE sim = [kind |-> "ok", page |-> vpn]
<1>1. CASE priv = "M"
  BY <1>1 DEF Translate
<1>2. CASE priv # "M"
  <2>1. access \in {"R", "W"} /\ ~satp.mode
    BY <1>2 DEF RtlWalking
  <2>. DEFINE bare == [ppn |-> vpn, flags |-> {"V", "R", "W", "X"}]
  <2>2. mmu_walk(mem, satp, vpn).kind = "pte" /\ mmu_walk(mem, satp, vpn).pte = bare
    BY <2>1 DEF mmu_walk, Outcome
  <2>3. ~Reserved(bare.flags)
    <3>1. {"V", "R", "W", "X"} \cap {"R", "W", "X"} = {"R", "W", "X"}
      OBVIOUS
    <3>. QED
      BY <3>1 DEF Reserved
  <2>4. DataCheck(priv, sum, access, bare.flags) = IF priv = "U" THEN "fault" ELSE "ok"
    BY <1>2, <2>1, <2>3 DEF DataCheck
  <2>. HIDE DEF bare
  <2>5. bare.ppn = vpn
    BY DEF bare
  <2>. QED
    BY <1>2, <2>1, <2>2, <2>4, <2>5 DEF Translate
<1>. QED
  BY <1>1, <1>2

LEMMA TranslationExact ==
    ASSUME NEW mem \in PageTables, NEW satp, NEW priv \in {"U", "S", "M"}, NEW sum \in BOOLEAN,
           NEW access \in {"X", "R", "W"}, NEW vpn \in Vpn
    PROVE  SameTranslation(mem, satp, priv, sum, access, vpn)
<1>. DEFINE sim == Translate(mem, satp, priv, sum, access, vpn)
            walk == mmu_walk(mem, satp, vpn)
            missing == TableMissing(mem, satp, vpn)
            walking == RtlWalking(satp, priv, access)
<1>a. ASSUME ~walking
      PROVE  IF priv = "U" THEN sim.kind = "fault" ELSE sim = [kind |-> "ok", page |-> vpn]
  BY <1>a, BareTranslation
<1>. SUFFICES ASSUME walking, satp.mode, WellFormed(mem, satp, vpn),
                     NEW entry \in RtlEntries(mem, satp, vpn)
     PROVE  LET faults == RtlFault(priv, sum, FALSE, access, entry.flags)
            IN  /\ sim.kind = "ok" => ~faults /\ sim.page = TablePage(entry.ppn)
                /\ sim.kind = "fault" => faults \/ missing
                /\ sim.kind = "exit" => faults \/ entry.ppn \notin DOMAIN mem
  BY <1>a DEF SameTranslation
<1>. DEFINE faults == RtlFault(priv, sum, FALSE, access, entry.flags)
            check == CheckIs(priv, sum, access, walk.pte.flags)
<1>b. priv # "M"
  BY DEF RtlWalking
<1>1. WalkEnds(mem, satp, vpn, entry)
  BY WalkAgrees
<1>2. /\ sim.kind = (IF walk.kind = "pte" THEN check ELSE walk.kind)
      /\ sim.page = (IF sim.kind = "ok" THEN walk.pte.ppn ELSE 0)
  BY <1>b DEF Translate, CheckIs
<1>5. priv \in {"U", "S"}
  BY <1>b
<1>6. ASSUME NEW f, ~Reserved(f)
      PROVE  ChecksMatch(priv, sum, access, f)
  BY <1>5, <1>6, ChecksAgree, Zenon
<1>. HIDE DEF sim
<1>3. CASE walk = Outcome("pte", NoPte) /\ (entry = NoPte \/ missing)
  <2>1. walk.kind = "pte" /\ walk.pte.flags = {}
    BY <1>3 DEF Outcome, NoPte
  <2>2. check = "fault"
    BY <2>1 DEF CheckIs, FetchCheck, DataCheck, Reserved
  <2>3. sim.kind = "fault"
    BY <1>2, <2>1, <2>2
  <2>4. CASE entry = NoPte
    <3>1. entry.flags = {}
      BY <2>4 DEF NoPte
    <3>2. faults
      BY <3>1 DEF RtlFault
    <3>. QED
      BY <2>3, <3>2
  <2>5. CASE missing
    BY <2>3, <2>5
  <2>. QED
    BY <1>3, <2>4, <2>5
<1>4. CASE /\ "V" \in entry.flags /\ ~Pointer(entry) /\ ~Reserved(entry.flags)
           /\ \/ entry.ppn \in DOMAIN mem /\ walk = Outcome("pte", entry)
              \/ entry.ppn \notin DOMAIN mem /\ walk = Outcome("exit", NoPte)
  <2>1. CASE entry.ppn \in DOMAIN mem /\ walk = Outcome("pte", entry)
    <3>1. walk.kind = "pte" /\ walk.pte = entry
      BY <2>1 DEF Outcome
    <3>2. check \in {"ok", "fault", "exit"} /\ (check = "ok" <=> ~faults)
      BY <1>4, <1>6, <3>1 DEF ChecksMatch
    <3>3. entry.ppn = TablePage(entry.ppn)
      <4>1. entry.ppn \in 0 .. (2^PhysBits - 1)
        BY <2>1 DEF PageTables
      <4>. QED
        BY <4>1, MmuSizes, SmallMod DEF TablePage
    <3>. QED
      BY <1>2, <3>1, <3>2, <3>3
  <2>2. CASE entry.ppn \notin DOMAIN mem /\ walk = Outcome("exit", NoPte)
    <3>1. walk.kind = "exit"
      BY <2>2 DEF Outcome
    <3>2. sim.kind = "exit"
      BY <1>2, <3>1
    <3>. QED
      BY <2>2, <3>2
  <2>. QED
    BY <1>4, <2>1, <2>2
<1>. QED
  BY <1>1, <1>3, <1>4 DEF WalkEnds

\* For page tables both give a meaning, the simulator (mmu_walk, mmu_i_translate,
\* mmu_d_translate) and the processor's MMU (riscv_mmu.v) translate the same accesses to
\* the same page and refuse the same ones, but for a last-level table that is missing, where
\* the processor does not look at the error: for indices, addresses, page numbers and entries
\* of any width.
THEOREM TranslationCorrect == UnitsSpec => []TranslationAgrees
<1>1. UnitsInit => TranslationAgrees
  BY DEF UnitsInit, Idle, TranslationAgrees
<1>2. TranslationAgrees /\ [UnitsNext]_call => TranslationAgrees'
  <2>. SUFFICES ASSUME TranslationAgrees, [UnitsNext]_call PROVE TranslationAgrees'
    OBVIOUS
  <2>1. CASE DecodeCall \/ ComputeCall \/ AccessCall \/ CallReturns
    BY <2>1 DEF DecodeCall, ComputeCall, AccessCall, CallReturns, Idle, TranslationAgrees
  <2>2. CASE TranslateCall
    <3>1. PICK mem \in Tables, satp \in Satps, priv \in {"U", "S", "M"}, sum \in BOOLEAN,
               access \in {"X", "R", "W"}, vpn \in Vpn :
            call' = [unit |-> "translate", mem |-> mem, satp |-> satp, priv |-> priv,
                     sum |-> sum, access |-> access, vpn |-> vpn]
      BY <2>2 DEF TranslateCall
    <3>2. mem \in PageTables
      BY UnitsAssumption DEF PageTables
    <3>3. SameTranslation(mem, satp, priv, sum, access, vpn)
      BY <3>2, TranslationExact
    <3>. QED
      BY <3>1, <3>3 DEF TranslationAgrees
  <2>3. CASE UNCHANGED call
    BY <2>3 DEF TranslationAgrees
  <2>. QED
    BY <2>1, <2>2, <2>3 DEF UnitsNext
<1>. QED
  BY <1>1, <1>2, PTL DEF UnitsSpec

-----------------------------------------------------------------------------
HIDE SimAssumption DEF SimAssumption

\* A set of numbers that is not empty has a least element.
LEMMA LeastNumber ==
    ASSUME NEW S \in SUBSET Nat, S # {}
    PROVE  \E n \in S : \A k \in S : n <= k
<1>1. IsWellFoundedOn({p \in Nat \X Nat : p[1] < p[2]}, Nat)
  BY NatLessThanWellFounded, Zenon DEF OpToRel
<1>2. PICK n \in S : \A k \in S : <<k, n>> \notin {p \in Nat \X Nat : p[1] < p[2]}
  BY <1>1, WFMin, Zenon
<1>3. ASSUME NEW k \in S PROVE n <= k
  <2>. DEFINE p == <<k, n>>
  <2>1. p \in Nat \X Nat /\ p[1] = k /\ p[2] = n
    OBVIOUS
  <2>. QED
    BY <2>1, <1>2
<1>. QED
  BY <1>3

\* A set that holds 0 and with each number the next holds all up to the bound.
LEMMA InductionTo ==
    ASSUME NEW n \in Nat, NEW S, 0 \in S, \A k \in 1 .. n : k - 1 \in S => k \in S
    PROVE  \A k \in 0 .. n : k \in S
<1>. DEFINE Missing == {k \in 0 .. n : k \notin S}
<1>. SUFFICES ASSUME Missing # {} PROVE FALSE
  OBVIOUS
<1>1. Missing \in SUBSET Nat
  OBVIOUS
<1>2. PICK m \in Missing : \A k \in Missing : m <= k
  <2>. HIDE DEF Missing
  <2>. QED
    BY <1>1, LeastNumber
<1>3. m \in 1 .. n /\ m - 1 \in 0 .. n /\ m \notin S
  OBVIOUS
<1>4. m - 1 \notin Missing
  BY <1>2, <1>3
<1>. QED
  BY <1>3, <1>4

\* Adding an element doubles the number of subsets: each comes without it and with it.
LEMMA PowerStep == \A n \in Nat : 2^(n + 1) = 2 * 2^n
<1>. SUFFICES ASSUME NEW n \in Nat PROVE 2^(n + 1) = 2 * 2^n
  OBVIOUS
<1>. DEFINE A == SUBSET (1 .. n)
            B == SUBSET (1 .. n + 1)
            With == {T \cup {n + 1} : T \in A}
            f == [T \in A |-> T \cup {n + 1}]
<1>1. IsFiniteSet(1 .. n) /\ Cardinality(1 .. n) = n
  <2>1. 1 \in Int /\ n \in Int
    OBVIOUS
  <2>. QED
    BY <2>1, FS_Interval
<1>2. IsFiniteSet(1 .. n + 1) /\ Cardinality(1 .. n + 1) = n + 1
  <2>1. 1 \in Int /\ n + 1 \in Int /\ 1 <= n + 1
    OBVIOUS
  <2>. QED
    BY <2>1, FS_Interval
<1>3. IsFiniteSet(A) /\ Cardinality(A) = 2^n
  BY <1>1, FS_SUBSET
<1>4. IsFiniteSet(B) /\ Cardinality(B) = 2^(n + 1)
  BY <1>2, FS_SUBSET
<1>5. B = A \cup With
  <2>1. ASSUME NEW T \in B, n + 1 \in T PROVE T \in With
    <3>. DEFINE U == T \ {n + 1}
    <3>1. U \in A /\ T = U \cup {n + 1}
      BY <2>1
    <3>. HIDE DEF U, A
    <3>. QED
      BY <3>1
  <2>2. ASSUME NEW T \in B, n + 1 \notin T PROVE T \in A
    BY <2>2
  <2>3. A \subseteq B
    OBVIOUS
  <2>4. With \subseteq B
    <3>1. ASSUME NEW T \in A PROVE T \cup {n + 1} \in B
      OBVIOUS
    <3>. HIDE DEF A, B
    <3>. QED
      BY <3>1
  <2>. HIDE DEF A, B, With
  <2>. QED
    BY <2>1, <2>2, <2>3, <2>4
<1>6. A \cap With = {}
  OBVIOUS
<1>7. ExistsBijection(A, With)
  <2>1. f \in [A -> With]
    OBVIOUS
  <2>2. \A s, t \in A : f[s] = f[t] => s = t
    <3>1. ASSUME NEW s \in A, NEW t \in A, s \cup {n + 1} = t \cup {n + 1} PROVE s = t
      <4>1. n + 1 \notin s /\ n + 1 \notin t
        OBVIOUS
      <4>. HIDE DEF A
      <4>. QED
        BY <3>1, <4>1
    <3>. HIDE DEF A
    <3>. QED
      BY <3>1
  <2>3. \A t \in With : \E s \in A : f[s] = t
    <3>. HIDE DEF A
    <3>. QED
      OBVIOUS
  <2>. HIDE DEF A, With, f
  <2>. QED
    BY <2>1, <2>2, <2>3, Zenon DEF ExistsBijection, Bijection, Injection, Surjection, IsInjective
<1>. HIDE DEF A, B, With
<1>8. IsFiniteSet(With) /\ Cardinality(With) = 2^n
  BY <1>3, <1>7, FS_Bijection
<1>9. Cardinality(B) = Cardinality(A) + Cardinality(With) - Cardinality({})
  BY <1>3, <1>5, <1>6, <1>8, FS_Union
<1>10. Cardinality({}) = 0
  BY FS_EmptySet
<1>11. 2^n \in Nat /\ 2^(n + 1) \in Nat
  <2>1. n + 1 \in Nat
    OBVIOUS
  <2>. QED
    BY <2>1, PowerPositive
<1>. QED
  BY <1>3, <1>4, <1>8, <1>9, <1>10, <1>11

LEMMA PowerSum == \A m, n \in Nat : 2^(m + n) = 2^m * 2^n
<1>. SUFFICES ASSUME NEW m \in Nat, NEW n \in Nat PROVE 2^(m + n) = 2^m * 2^n
  OBVIOUS
<1>. DEFINE S == {k \in Nat : 2^(m + k) = 2^m * 2^k}
<1>1. 0 \in S
  <2>1. 2^0 = 1 /\ m + 0 = m /\ 2^m \in Nat
    BY PowerPositive
  <2>. QED
    BY <2>1
<1>2. ASSUME NEW k \in 1 .. n, k - 1 \in S PROVE k \in S
  <2>. DEFINE j == k - 1
  <2>1. j \in Nat /\ m + j \in Nat /\ k = j + 1 /\ m + k = (m + j) + 1
    OBVIOUS
  <2>2. 2^(m + j) = 2^m * 2^j
    BY <1>2
  <2>. HIDE DEF j
  <2>3. 2^k = 2 * 2^j /\ 2^(m + k) = 2 * 2^(m + j)
    BY <2>1, PowerStep
  <2>4. 2^m \in Int /\ 2^j \in Int
    BY <2>1, PowerPositive
  <2>5. 2 * (2^m * 2^j) = 2^m * (2 * 2^j)
    BY <2>4
  <2>6. 2^(m + k) = 2^m * 2^k
    BY <2>2, <2>3, <2>5
  <2>. QED
    BY <2>6
<1>3. \A k \in 0 .. n : k \in S
  <2>. HIDE DEF S
  <2>. QED
    BY <1>1, <1>2, InductionTo
<1>4. n \in S
  BY <1>3
<1>. QED
  BY <1>4

\* A number is below its power of two.
LEMMA BelowPower == \A n \in Nat : n < 2^n
<1>. SUFFICES ASSUME NEW n \in Nat PROVE n < 2^n
  OBVIOUS
<1>. DEFINE S == {k \in Nat : k < 2^k}
<1>1. 0 \in S
  <2>1. 2^0 = 1
    OBVIOUS
  <2>. QED
    BY <2>1
<1>2. ASSUME NEW k \in 1 .. n, k - 1 \in S PROVE k \in S
  <2>. DEFINE j == k - 1
  <2>1. j \in Nat /\ k = j + 1
    OBVIOUS
  <2>2. j < 2^j
    BY <1>2
  <2>. HIDE DEF j
  <2>3. 2^k = 2 * 2^j /\ 2^j \in Nat \ {0}
    BY <2>1, PowerStep, PowerPositive
  <2>4. k < 2^k
    BY <2>1, <2>2, <2>3
  <2>. QED
    BY <2>4
<1>3. \A k \in 0 .. n : k \in S
  <2>. HIDE DEF S
  <2>. QED
    BY <1>1, <1>2, InductionTo
<1>4. n \in S
  BY <1>3
<1>. QED
  BY <1>4

-----------------------------------------------------------------------------
\* Quotient and remainder are the only ones.
LEMMA DivisionIs ==
    ASSUME NEW m \in Nat \ {0}, NEW a \in Int
    PROVE  /\ a \div m \in Int /\ a % m \in 0 .. (m - 1)
           /\ a = m * (a \div m) + (a % m)
<1>1. a \div m \in Int
  OBVIOUS
<1>2. a % m \in 0 .. (m - 1)
  OBVIOUS
<1>3. a = m * (a \div m) + (a % m)
  OBVIOUS
<1>. QED
  BY <1>1, <1>2, <1>3

LEMMA DivisionUnique ==
    ASSUME NEW m \in Nat \ {0}, NEW a \in Int, NEW q \in Int, NEW r \in 0 .. (m - 1),
           a = m * q + r
    PROVE  a \div m = q /\ a % m = r
<1>1. PICK p \in Int, s \in 0 .. (m - 1) : p = a \div m /\ s = a % m /\ a = m * p + s
  BY DivisionIs
<1>2. m * (p - q) = r - s
  BY <1>1
<1>3. p - q < 1
  BY <1>2
<1>4. p - q > -1
  BY <1>2
<1>5. p = q
  BY <1>3, <1>4
<1>6. r = s
  BY <1>2, <1>5
<1>. QED
  BY <1>1, <1>5, <1>6

\* Dividing by one number and then by another divides by their product.
LEMMA DivisionTwice ==
    ASSUME NEW m \in Nat \ {0}, NEW n \in Nat \ {0}, NEW a \in Int
    PROVE  (a \div m) \div n = a \div (m * n)
<1>1. PICK p \in Int, s \in 0 .. (m - 1) : p = a \div m /\ a = m * p + s
  BY DivisionIs
<1>2. PICK q \in Int, t \in 0 .. (n - 1) : q = p \div n /\ p = n * q + t
  BY DivisionIs
<1>3. m * n \in Nat \ {0}
  OBVIOUS
<1>4. m * t + s \in 0 .. (m * n - 1)
  <2>1. t + 1 <= n
    OBVIOUS
  <2>2. m * (t + 1) <= m * n
    BY <2>1
  <2>3. m * (t + 1) = m * t + m
    OBVIOUS
  <2>4. m * t \in Nat
    OBVIOUS
  <2>. QED
    BY <1>3, <2>2, <2>3, <2>4
<1>5. a = (m * n) * q + (m * t + s)
  <2>1. m * (n * q + t) = (m * n) * q + m * t
    OBVIOUS
  <2>2. a = m * (n * q + t) + s
    BY <1>1, <1>2
  <2>3. m * n \in Int /\ m * t \in Int /\ (m * n) * q \in Int /\ m * (n * q + t) \in Int
    OBVIOUS
  <2>. DEFINE x == m * (n * q + t)
              y == (m * n) * q
              z == m * t
  <2>4. x = y + z /\ a = x + s /\ x \in Int /\ y \in Int /\ z \in Int
    BY <2>1, <2>2, <2>3
  <2>. HIDE DEF x, y, z
  <2>5. a = y + (z + s)
    BY <2>4
  <2>. QED
    BY <2>5 DEF y, z
<1>. DEFINE k == m * n
            r == m * t + s
<1>6. k \in Nat \ {0} /\ r \in 0 .. (k - 1) /\ a = k * q + r
  BY <1>3, <1>4, <1>5
<1>. HIDE DEF k, r
<1>7. a \div k = q
  BY <1>6, DivisionUnique
<1>. QED
  BY <1>1, <1>2, <1>7 DEF k

\* Numbers that differ by a multiple of the modulus.
Congruent(a, b, m) == \E k \in Int : a = b + m * k

LEMMA CongruentMod ==
    ASSUME NEW m \in Nat \ {0}, NEW a \in Int, NEW b \in Int, Congruent(a, b, m)
    PROVE  a % m = b % m
<1>1. PICK k \in Int : a = b + m * k
  BY DEF Congruent
<1>2. PICK q \in Int, r \in 0 .. (m - 1) : r = b % m /\ b = m * q + r
  BY DivisionIs
<1>. DEFINE p == q + k
<1>3. p \in Int /\ m * q + m * k = m * p
  OBVIOUS
<1>. HIDE DEF p
<1>4. a = m * p + r
  BY <1>1, <1>2, <1>3
<1>. QED
  BY <1>2, <1>3, <1>4, DivisionUnique

LEMMA ModCongruent ==
    ASSUME NEW m \in Nat \ {0}, NEW a \in Int
    PROVE  a % m \in Int /\ Congruent(a % m, a, m)
<1>1. PICK q \in Int, r \in 0 .. (m - 1) : r = a % m /\ a = m * q + r
  BY DivisionIs
<1>. DEFINE k == -q
<1>2. k \in Int /\ m * k = -(m * q)
  OBVIOUS
<1>. HIDE DEF k
<1>3. r = a + m * k
  BY <1>1, <1>2
<1>4. Congruent(r, a, m)
  BY <1>2, <1>3 DEF Congruent
<1>. QED
  BY <1>1, <1>4

LEMMA CongruentProduct ==
    ASSUME NEW m \in Nat \ {0}, NEW a \in Int, NEW b \in Int, NEW c \in Int, NEW d \in Int,
           Congruent(a, c, m), Congruent(b, d, m)
    PROVE  Congruent(a * b, c * d, m)
<1>1. PICK j \in Int : a = c + m * j
  BY DEF Congruent
<1>2. PICK k \in Int : b = d + m * k
  BY DEF Congruent
<1>. DEFINE l == c * k + j * d + m * (j * k)
<1>3. (c + m * j) * (d + m * k) = c * d + m * (c * k + j * d + m * (j * k))
  OBVIOUS
<1>4. l \in Int
  OBVIOUS
<1>5. a * b = c * d + m * l
  BY <1>1, <1>2, <1>3
<1>. HIDE DEF l
<1>. QED
  BY <1>4, <1>5 DEF Congruent

-----------------------------------------------------------------------------
\* The number of values of a register, half of it, and what the operators of RvAlu are
\* in terms of them.
Modulus == 2^W
Half == 2^(W - 1)

LEMMA WidthSizes ==
    /\ W \in Nat /\ W - 1 \in Nat
    /\ Half \in Nat \ {0} /\ Modulus \in Nat \ {0} /\ Modulus = 2 * Half
    /\ 2^(2 * W) = Modulus * Modulus /\ 2^(2 * W - 1) = Half * Modulus
    /\ 2^(2 * W + 1) = 2 * (Modulus * Modulus) /\ 2^(W + 1) = 2 * Modulus
<1>. DEFINE n == W - 1
            d == 2 * W
<1>1. W \in Nat /\ n \in Nat /\ W = n + 1 /\ d = W + W /\ d \in Nat /\ d - 1 = n + W
  BY WidthAssumption
<1>2. Half = 2^n /\ Modulus = 2^W
  BY DEF Half, Modulus
<1>. HIDE DEF n, d
<1>3. 2^W = 2 * 2^n /\ 2^n \in Nat \ {0} /\ 2^W \in Nat \ {0}
  BY <1>1, PowerStep, PowerPositive
<1>4. 2^d = 2^W * 2^W
  BY <1>1, PowerSum
<1>5. 2^(d - 1) = 2^n * 2^W
  BY <1>1, PowerSum
<1>6. 2^(d + 1) = 2 * 2^d
  BY <1>1, PowerStep
<1>7. 2^(W + 1) = 2 * 2^W
  BY <1>1, PowerStep
<1>8. Half \in Nat \ {0} /\ Modulus \in Nat \ {0} /\ Modulus = 2 * Half
  BY <1>2, <1>3
<1>9. /\ 2^(2 * W) = Modulus * Modulus /\ 2^(2 * W - 1) = Half * Modulus
      /\ 2^(2 * W + 1) = 2 * (Modulus * Modulus) /\ 2^(W + 1) = 2 * Modulus
  BY <1>2, <1>4, <1>5, <1>6, <1>7, Zenon DEF d
<1>. QED
  BY <1>1, <1>8, <1>9 DEF n

LEMMA RegIs == Reg = 0 .. (Modulus - 1)
BY DEF Reg, Modulus

LEMMA TruncIs ==
    ASSUME NEW a \in Int
    PROVE  /\ Trunc(a) = a % Modulus /\ Trunc(a) \in Reg
           /\ a \in Reg => Trunc(a) = a
<1>1. Trunc(a) = a % Modulus
  BY DEF Trunc, Modulus
<1>2. Modulus \in Nat \ {0}
  BY WidthSizes
<1>3. a % Modulus \in 0 .. (Modulus - 1)
  BY <1>2, DivisionIs
<1>4. a \in 0 .. (Modulus - 1) => a % Modulus = a
  BY <1>2
<1>. QED
  BY <1>1, <1>3, <1>4, RegIs

\* The highest bit says in which half of the values a register is.
LEMMA SignIs ==
    ASSUME NEW a \in Reg
    PROVE  /\ a \in Int /\ a \in 0 .. (Modulus - 1)
           /\ a < Half => Msb(a) = 0 /\ Signed(a) = a
           /\ a >= Half => Msb(a) = 1 /\ Signed(a) = a - Modulus
<1>1. a \in 0 .. (Modulus - 1) /\ Half \in Nat \ {0} /\ Modulus = 2 * Half
  BY RegIs, WidthSizes
<1>2. a < Half => a \div Half = 0
  BY <1>1
<1>3. a >= Half => a \div Half = 1
  <2>. SUFFICES ASSUME a >= Half PROVE a \div Half = 1
    OBVIOUS
  <2>. DEFINE r == a - Half
  <2>1. r \in 0 .. (Half - 1) /\ a = Half * 1 + r /\ a \in Int /\ 1 \in Int
    BY <1>1
  <2>. HIDE DEF r
  <2>. QED
    BY <1>1, <2>1, DivisionUnique
<1>4. Msb(a) = a \div Half /\ Signed(a) = IF Msb(a) = 1 THEN a - Modulus ELSE a
  BY DEF Msb, Signed, Half, Modulus
<1>. QED
  BY <1>1, <1>2, <1>3, <1>4

\* The sign of the difference of two values of the same sign tells which is less.
LEMMA DifferenceSign ==
    ASSUME NEW x \in Reg, NEW y \in Reg, x < Half <=> y < Half
    PROVE  Msb(Trunc(x - y)) = Bool(x < y)
<1>1. /\ x \in 0 .. (Modulus - 1) /\ y \in 0 .. (Modulus - 1)
      /\ Half \in Nat \ {0} /\ Modulus = 2 * Half
  BY RegIs, WidthSizes
<1>. DEFINE t == Trunc(x - y)
<1>2. t = (x - y) % Modulus /\ t \in Reg
  <2>1. x - y \in Int
    BY <1>1
  <2>. HIDE DEF t
  <2>. QED
    BY <2>1, TruncIs DEF t
<1>3. CASE x < y
  <2>1. x - y = Modulus * (-1) + (x - y + Modulus)
    BY <1>1
  <2>2. x - y + Modulus \in 0 .. (Modulus - 1) /\ x - y + Modulus >= Half
    BY <1>1, <1>3
  <2>3. (x - y) % Modulus = x - y + Modulus
    <3>. DEFINE r == x - y + Modulus
                e == x - y
                q == -1
    <3>1. /\ e = Modulus * q + r /\ r \in 0 .. (Modulus - 1)
          /\ e \in Int /\ q \in Int /\ Modulus \in Nat \ {0}
      BY <1>1, <2>1, <2>2
    <3>. HIDE DEF r, e, q
    <3>2. e % Modulus = r
      BY <3>1, DivisionUnique
    <3>. QED
      BY <3>2 DEF e, r
  <2>4. t >= Half
    BY <1>2, <2>2, <2>3
  <2>. HIDE DEF t
  <2>5. Msb(t) = 1
    BY <1>2, <2>4, SignIs
  <2>. QED
    BY <2>5, <1>3 DEF t, Bool
<1>4. CASE ~(x < y)
  <2>1. x - y \in 0 .. (Modulus - 1) /\ x - y < Half
    BY <1>1, <1>4
  <2>2. (x - y) % Modulus = x - y
    <3>. DEFINE e == x - y
    <3>1. e \in 0 .. (Modulus - 1) /\ Modulus \in Nat
      BY <1>1, <2>1
    <3>. HIDE DEF e
    <3>2. e % Modulus = e
      BY <3>1
    <3>. QED
      BY <3>2 DEF e
  <2>3. t < Half
    BY <1>2, <2>1, <2>2
  <2>. HIDE DEF t
  <2>4. Msb(t) = 0
    BY <1>2, <2>3, SignIs
  <2>. QED
    BY <2>4, <1>4 DEF t, Bool
<1>. QED
  BY <1>3, <1>4

LEMMA ComparatorsAre ==
    ASSUME NEW x \in Reg, NEW y \in Reg
    PROVE  /\ RtlLess(x, y) = Bool(Signed(x) < Signed(y))
           /\ RtlGreater(x, y) = Bool(Signed(x) > Signed(y))
<1>1. /\ x \in 0 .. (Modulus - 1) /\ y \in 0 .. (Modulus - 1)
      /\ Half \in Nat \ {0} /\ Modulus = 2 * Half
  BY RegIs, WidthSizes
<1>2. /\ x < Half => Msb(x) = 0 /\ Signed(x) = x
      /\ x >= Half => Msb(x) = 1 /\ Signed(x) = x - Modulus
      /\ y < Half => Msb(y) = 0 /\ Signed(y) = y
      /\ y >= Half => Msb(y) = 1 /\ Signed(y) = y - Modulus
  BY SignIs
<1>3. CASE x < Half <=> y < Half
  <2>1. Msb(x) = Msb(y)
    BY <1>1, <1>2, <1>3
  <2>2. Signed(x) < Signed(y) <=> x < y
    BY <1>1, <1>2, <1>3
  <2>3. Signed(x) > Signed(y) <=> y < x
    BY <1>1, <1>2, <1>3
  <2>4. RtlLess(x, y) = Bool(x < y) /\ RtlGreater(x, y) = Bool(y < x)
    BY <1>3, <2>1, DifferenceSign DEF RtlLess, RtlGreater
  <2>. QED
    BY <2>2, <2>3, <2>4 DEF Bool
<1>4. CASE x < Half /\ y >= Half
  <2>1. Msb(x) = 0 /\ Msb(y) = 1
    BY <1>2, <1>4
  <2>2. ~(Signed(x) < Signed(y)) /\ Signed(x) > Signed(y)
    BY <1>1, <1>2, <1>4
  <2>. QED
    BY <2>1, <2>2 DEF RtlLess, RtlGreater, Bool
<1>5. CASE x >= Half /\ y < Half
  <2>1. Msb(x) = 1 /\ Msb(y) = 0
    BY <1>2, <1>5
  <2>2. Signed(x) < Signed(y) /\ ~(Signed(x) > Signed(y))
    BY <1>1, <1>2, <1>5
  <2>. QED
    BY <2>1, <2>2 DEF RtlLess, RtlGreater, Bool
<1>. QED
  BY <1>1, <1>3, <1>4, <1>5

\* The branch comparators decide as the simulator's conditions.
LEMMA BranchesAgree ==
    ASSUME NEW op \in BranchOps, NEW a \in Reg, NEW b \in Reg
    PROVE  SameBranch(op, a, b)
<1>1. RtlLess(a, b) = 1 <=> Signed(a) < Signed(b)
  BY ComparatorsAre DEF Bool
<1>2. RtlGreater(a, b) = 1 <=> Signed(a) > Signed(b)
  BY ComparatorsAre DEF Bool
<1>3. (Signed(a) > Signed(b) \/ a = b) <=> Signed(a) >= Signed(b)
  <2>1. /\ a \in 0 .. (Modulus - 1) /\ b \in 0 .. (Modulus - 1)
        /\ Half \in Nat \ {0} /\ Modulus = 2 * Half
    BY RegIs, WidthSizes
  <2>2. /\ a < Half => Signed(a) = a
        /\ a >= Half => Signed(a) = a - Modulus
        /\ b < Half => Signed(b) = b
        /\ b >= Half => Signed(b) = b - Modulus
    BY SignIs
  <2>. QED
    BY <2>1, <2>2
<1>4. CASE op = "blt"
  <2>1. RtlBranch(op, a, b) = (RtlLess(a, b) = 1)
    BY <1>4 DEF RtlBranch
  <2>2. ExecuteBranch(op, a, b) = (Signed(a) < Signed(b))
    BY <1>4 DEF ExecuteBranch
  <2>. QED
    BY <1>1, <2>1, <2>2 DEF SameBranch
<1>5. CASE op = "bge"
  <2>1. RtlBranch(op, a, b) = (RtlGreater(a, b) = 1 \/ a = b)
    BY <1>5 DEF RtlBranch
  <2>2. ExecuteBranch(op, a, b) = (Signed(a) >= Signed(b))
    BY <1>5 DEF ExecuteBranch
  <2>. QED
    BY <1>2, <1>3, <2>1, <2>2 DEF SameBranch
<1>6. CASE op \in {"beq", "bne", "bltu", "bgeu"}
  BY <1>6 DEF RtlBranch, ExecuteBranch, SameBranch
<1>. QED
  BY <1>4, <1>5, <1>6 DEF BranchOps

-----------------------------------------------------------------------------
\* Congruence is an equivalence, and coarser for a divisor of the modulus.
LEMMA CongruentLaws ==
    ASSUME NEW m \in Nat \ {0}, NEW a \in Int, NEW b \in Int
    PROVE  /\ Congruent(a, a, m)
           /\ Congruent(a, b, m) => Congruent(b, a, m)
           /\ \A c \in Int : Congruent(a, b, m) /\ Congruent(b, c, m) => Congruent(a, c, m)
           /\ \A n \in Nat \ {0} : Congruent(a, b, m * n) => Congruent(a, b, m)
<1>1. Congruent(a, a, m)
  <2>1. 0 \in Int /\ a = a + m * 0
    OBVIOUS
  <2>. QED
    BY <2>1 DEF Congruent
<1>2. ASSUME Congruent(a, b, m) PROVE Congruent(b, a, m)
  <2>1. PICK k \in Int : a = b + m * k
    BY <1>2 DEF Congruent
  <2>. DEFINE j == -k
  <2>2. j \in Int /\ m * j = -(m * k)
    OBVIOUS
  <2>. HIDE DEF j
  <2>3. b = a + m * j
    BY <2>1, <2>2
  <2>. QED
    BY <2>2, <2>3 DEF Congruent
<1>3. ASSUME NEW c \in Int, Congruent(a, b, m), Congruent(b, c, m) PROVE Congruent(a, c, m)
  <2>1. PICK j \in Int : a = b + m * j
    BY <1>3 DEF Congruent
  <2>2. PICK k \in Int : b = c + m * k
    BY <1>3 DEF Congruent
  <2>. DEFINE l == j + k
  <2>3. l \in Int /\ m * l = m * j + m * k
    OBVIOUS
  <2>. HIDE DEF l
  <2>4. a = c + m * l
    BY <2>1, <2>2, <2>3
  <2>. QED
    BY <2>3, <2>4 DEF Congruent
<1>4. ASSUME NEW n \in Nat \ {0}, Congruent(a, b, m * n) PROVE Congruent(a, b, m)
  <2>1. PICK k \in Int : a = b + (m * n) * k
    BY <1>4 DEF Congruent
  <2>. DEFINE l == n * k
  <2>2. l \in Int /\ m * l = (m * n) * k
    OBVIOUS
  <2>. HIDE DEF l
  <2>3. a = b + m * l
    BY <2>1, <2>2
  <2>. QED
    BY <2>2, <2>3 DEF Congruent
<1>. QED
  BY <1>1, <1>2, <1>3, <1>4

\* The second word of a number depends on it modulo two words only.
LEMMA HighWord ==
    ASSUME NEW m \in Nat \ {0}, NEW a \in Int, NEW b \in Int, Congruent(a, b, m * m)
    PROVE  (a \div m) % m = (b \div m) % m
<1>1. PICK k \in Int : a = b + (m * m) * k
  BY DEF Congruent
<1>2. PICK q \in Int, r \in 0 .. (m - 1) : q = b \div m /\ b = m * q + r
  BY DivisionIs
<1>. DEFINE p == q + m * k
<1>3. p \in Int /\ m * q + (m * m) * k = m * p /\ m * q \in Int /\ (m * m) * k \in Int
  OBVIOUS
<1>4. Congruent(p, q, m)
  BY DEF Congruent
<1>. HIDE DEF p
<1>5. a = m * p + r
  <2>. DEFINE x == m * q
              y == (m * m) * k
              z == m * p
  <2>1. a = b + y /\ b = x + r /\ x + y = z /\ x \in Int /\ y \in Int
    BY <1>1, <1>2, <1>3
  <2>. HIDE DEF x, y, z
  <2>2. a = z + r
    BY <2>1
  <2>. QED
    BY <2>2 DEF z
<1>6. a \div m = p
  BY <1>3, <1>5, DivisionUnique
<1>. QED
  BY <1>2, <1>3, <1>4, <1>6, CongruentMod

-----------------------------------------------------------------------------
\* The value of a factor: of a register read signed or unsigned.
Factor(a, signed) == IF signed THEN Signed(a) ELSE a

LEMMA FactorTyped ==
    ASSUME NEW a \in Reg, NEW signed \in BOOLEAN
    PROVE  /\ Factor(a, signed) \in Int /\ Signed(a) \in Int
           /\ Congruent(Signed(a), a, Modulus)
<1>1. a \in Int /\ Half \in Int /\ Modulus \in Nat \ {0} /\ Modulus \in Int
  BY SignIs, WidthSizes
<1>2. Signed(a) = a \/ Signed(a) = a - Modulus
  BY <1>1, SignIs
<1>3. Signed(a) = a \/ Signed(a) = a + Modulus * (-1)
  BY <1>1, <1>2
<1>4. Congruent(Signed(a), a, Modulus)
  <2>1. CASE Signed(a) = a
    BY <1>1, <2>1, CongruentLaws
  <2>2. CASE Signed(a) = a + Modulus * (-1)
    <3>1. -1 \in Int
      OBVIOUS
    <3>. QED
      BY <2>2, <3>1 DEF Congruent
  <2>. QED
    BY <1>3, <2>1, <2>2
<1>5. Signed(a) \in Int
  BY <1>1, <1>2
<1>. QED
  BY <1>1, <1>4, <1>5 DEF Factor

\* A factor extended to 2W + 1 bits is that value, modulo what these bits hold.
LEMMA WidenIs ==
    ASSUME NEW a \in Reg, NEW signed \in BOOLEAN
    PROVE  /\ Widen(Extend(a, signed)) \in Int
           /\ Congruent(Widen(Extend(a, signed)), Factor(a, signed), 2^(2 * W + 1))
<1>. DEFINE p == Modulus
            big == 2^(2 * W + 1)
            x == Extend(a, signed)
<1>1. /\ a \in 0 .. (p - 1) /\ p \in Nat \ {0} /\ Half \in Nat
      /\ big = 2 * (p * p) /\ big \in Nat \ {0} /\ 2^(W + 1) = 2 * p
  <2>1. 2 * (p * p) \in Nat \ {0}
    BY WidthSizes
  <2>. QED
    BY <2>1, WidthSizes, RegIs
<1>2. /\ a < Half => Msb(a) = 0 /\ Signed(a) = a
      /\ a >= Half => Msb(a) = 1 /\ Signed(a) = a - p
  BY SignIs
<1>3. x = IF signed /\ Msb(a) = 1 THEN a + p ELSE a
  BY DEF Extend, Modulus
<1>4. Widen(x) = IF x >= p THEN x + (big - 2 * p) ELSE x
  BY <1>1 DEF Widen, Modulus
<1>. HIDE DEF x, p, big
<1>5. CASE signed /\ Msb(a) = 1
  <2>1. x = a + p /\ x >= p /\ x \in Int
    BY <1>1, <1>3, <1>5
  <2>2. Widen(x) = (a - p) + big
    BY <1>1, <1>4, <2>1
  <2>3. Factor(a, signed) = a - p
    BY <1>1, <1>2, <1>5 DEF Factor
  <2>4. Widen(x) = Factor(a, signed) + big * 1
    BY <1>1, <2>2, <2>3
  <2>5. Widen(x) \in Int /\ 1 \in Int
    BY <1>1, <2>2
  <2>. QED
    BY <2>4, <2>5 DEF Congruent, x, big
<1>6. CASE ~(signed /\ Msb(a) = 1)
  <2>1. x = a /\ ~(x >= p)
    BY <1>1, <1>3, <1>6
  <2>2. Widen(x) = a
    BY <1>4, <2>1
  <2>3. Factor(a, signed) = a
    BY <1>1, <1>2, <1>6 DEF Factor
  <2>4. a \in Int /\ big \in Nat \ {0}
    BY <1>1
  <2>5. Congruent(a, a, big)
    BY <2>4, CongruentLaws
  <2>. QED
    BY <2>2, <2>3, <2>4, <2>5 DEF x, big
<1>. QED
  BY <1>5, <1>6

\* The product register holds the product of the two values, modulo its size.
LEMMA ProductIs ==
    ASSUME NEW a \in Reg, NEW b \in Reg, NEW s \in BOOLEAN, NEW t \in BOOLEAN, NEW u,
           u = (Widen(Extend(a, s)) * Widen(Extend(b, t))) % 2^(2 * W + 1)
    PROVE  /\ u \in Int /\ Factor(a, s) * Factor(b, t) \in Int
           /\ u % Modulus = (Factor(a, s) * Factor(b, t)) % Modulus
           /\ (u \div Modulus) % Modulus = ((Factor(a, s) * Factor(b, t)) \div Modulus) % Modulus
<1>. DEFINE big == 2^(2 * W + 1)
            x == Widen(Extend(a, s))
            y == Widen(Extend(b, t))
            f == Factor(a, s)
            g == Factor(b, t)
            p == Modulus
<1>1. /\ x \in Int /\ y \in Int /\ f \in Int /\ g \in Int
      /\ Congruent(x, f, big) /\ Congruent(y, g, big)
  BY WidenIs, FactorTyped
<1>2. /\ p \in Nat \ {0} /\ big = 2 * (p * p)
  BY WidthSizes
<1>3. u = (x * y) % big
  OBVIOUS
<1>. HIDE DEF x, y, f, g, p, big
<1>4. p * p \in Nat \ {0} /\ big = (p * p) * 2 /\ big \in Nat \ {0} /\ 2 \in Nat \ {0}
  BY <1>2
<1>5. x * y \in Int /\ f * g \in Int
  BY <1>1
<1>6. Congruent(x * y, f * g, big)
  BY <1>1, <1>4, CongruentProduct
<1>7. u \in Int /\ Congruent(u, x * y, big)
  BY <1>3, <1>4, <1>5, ModCongruent
<1>8. Congruent(u, f * g, big)
  BY <1>4, <1>5, <1>6, <1>7, CongruentLaws
<1>9. Congruent(u, f * g, p * p)
  BY <1>4, <1>5, <1>7, <1>8, CongruentLaws
<1>10. Congruent(u, f * g, p)
  BY <1>2, <1>5, <1>7, <1>9, CongruentLaws
<1>11. u % p = (f * g) % p
  BY <1>2, <1>5, <1>7, <1>10, CongruentMod
<1>12. (u \div p) % p = ((f * g) \div p) % p
  BY <1>2, <1>5, <1>7, <1>9, HighWord
<1>. QED
  BY <1>5, <1>7, <1>11, <1>12 DEF f, g, p

\* The C expression of mulhsu, with its conversion to unsigned and back.
LEMMA MulhsuIs ==
    ASSUME NEW a \in Reg, NEW b \in Reg
    PROVE  /\ Signed2((Signed(a) % 2^(2 * W)) * b) \in Int
           /\ (Signed2((Signed(a) % 2^(2 * W)) * b) \div Modulus) % Modulus
                 = ((Signed(a) * b) \div Modulus) % Modulus
<1>. DEFINE p == Modulus
            big == 2^(2 * W)
            c == Signed(a)
            d == c % big
            n == d * b
            m == n % big
            v == Signed2(n)
<1>1. p \in Nat \ {0} /\ big = p * p /\ big \in Nat \ {0}
  <2>1. p * p \in Nat \ {0}
    BY WidthSizes
  <2>. QED
    BY <2>1, WidthSizes
<1>2. c \in Int /\ b \in Int
  BY FactorTyped, SignIs
<1>3. v = m \/ v = m - big
  BY DEF Signed2
<1>. HIDE DEF v, p, big, c
<1>4. d \in Int /\ Congruent(d, c, big)
  BY <1>1, <1>2, ModCongruent
<1>5. Congruent(b, b, big)
  BY <1>1, <1>2, CongruentLaws
<1>. HIDE DEF d
<1>6. n \in Int /\ c * b \in Int
  BY <1>2, <1>4
<1>7. Congruent(n, c * b, big)
  BY <1>1, <1>2, <1>4, <1>5, CongruentProduct
<1>. HIDE DEF n
<1>8. m \in Int /\ Congruent(m, n, big)
  BY <1>1, <1>6, ModCongruent
<1>. HIDE DEF m
<1>9. Congruent(v, m, big) /\ v \in Int
  <2>1. CASE v = m
    BY <1>1, <1>8, <2>1, CongruentLaws
  <2>2. CASE v = m - big
    <3>1. v = m + big * (-1) /\ -1 \in Int /\ v \in Int
      BY <1>1, <1>8, <2>2
    <3>. QED
      BY <3>1 DEF Congruent
  <2>. QED
    BY <1>3, <2>1, <2>2
<1>10. Congruent(v, n, big)
  BY <1>1, <1>6, <1>8, <1>9, CongruentLaws
<1>11. Congruent(v, c * b, p * p)
  BY <1>1, <1>6, <1>7, <1>9, <1>10, CongruentLaws
<1>12. (v \div p) % p = ((c * b) \div p) % p
  BY <1>1, <1>6, <1>9, <1>11, HighWord
<1>. QED
  BY <1>9, <1>12 DEF v, n, d, c, p, big

\* The multiplier computes the word of the product that the simulator computes.
LEMMA ProductsAgree ==
    ASSUME NEW op \in MulOps, NEW a \in Reg, NEW b \in Reg
    PROVE  SameMul(op, a, b)
<1>. DEFINE s == op \in {"mulhsu", "mulh"}
            t == op = "mulh"
            u == (Widen(Extend(a, s)) * Widen(Extend(b, t))) % 2^(2 * W + 1)
            f == Factor(a, s)
            g == Factor(b, t)
<1>1. RtlMul(op, a, b) = IF op = "mul" THEN u % Modulus ELSE (u \div Modulus) % Modulus
  BY DEF RtlMul, Modulus
<1>2. s \in BOOLEAN /\ t \in BOOLEAN
  OBVIOUS
<1>3. /\ f * g \in Int /\ u % Modulus = (f * g) % Modulus
      /\ (u \div Modulus) % Modulus = ((f * g) \div Modulus) % Modulus
  <2>. HIDE DEF s, t
  <2>. QED
    BY <1>2, ProductIs
<1>4. a \in Int /\ b \in Int /\ Signed(a) \in Int /\ Signed(b) \in Int /\ Modulus \in Nat \ {0}
  BY SignIs, FactorTyped, WidthSizes
<1>5. \A n \in Int : Trunc(n) = n % Modulus
  BY TruncIs
<1>6. \A n \in Int : n \div Modulus \in Int
  BY <1>4, DivisionIs
<1>. HIDE DEF u
<1>7. CASE op = "mul"
  <2>1. f = a /\ g = b
    BY <1>7 DEF Factor
  <2>2. Congruent(Signed(a) * Signed(b), a * b, Modulus)
    BY <1>4, FactorTyped, CongruentProduct
  <2>3. (Signed(a) * Signed(b)) \in Int /\ a * b \in Int
    BY <1>4
  <2>4. (Signed(a) * Signed(b)) % Modulus = (a * b) % Modulus
    BY <1>4, <2>2, <2>3, CongruentMod
  <2>5. ExecuteMul(op, a, b) = (a * b) % Modulus
    BY <1>5, <1>7, <2>3, <2>4 DEF ExecuteMul
  <2>6. RtlMul(op, a, b) = (a * b) % Modulus
    BY <1>1, <1>3, <1>7, <2>1
  <2>. QED
    BY <2>5, <2>6 DEF SameMul
<1>8. CASE op = "mulh"
  <2>1. f = Signed(a) /\ g = Signed(b)
    BY <1>8 DEF Factor
  <2>2. RtlMul(op, a, b) = ((Signed(a) * Signed(b)) \div Modulus) % Modulus
    BY <1>1, <1>3, <1>8, <2>1
  <2>3. Signed(a) * Signed(b) \in Int
    BY <1>4
  <2>4. ExecuteMul(op, a, b) = Trunc((Signed(a) * Signed(b)) \div Modulus)
    BY <1>8 DEF ExecuteMul, Modulus
  <2>. DEFINE n == Signed(a) * Signed(b)
  <2>. HIDE DEF n, f, g, s, t
  <2>5. /\ RtlMul(op, a, b) = (n \div Modulus) % Modulus
        /\ ExecuteMul(op, a, b) = Trunc(n \div Modulus) /\ n \in Int
    BY <2>2, <2>3, <2>4 DEF n
  <2>. QED
    BY <1>5, <1>6, <2>5 DEF SameMul
<1>9. CASE op = "mulhsu"
  <2>1. f = Signed(a) /\ g = b
    BY <1>9 DEF Factor
  <2>2. RtlMul(op, a, b) = ((Signed(a) * b) \div Modulus) % Modulus
    BY <1>1, <1>3, <1>9, <2>1
  <2>. DEFINE v == Signed2((Signed(a) % 2^(2 * W)) * b)
  <2>3. v \in Int /\ (v \div Modulus) % Modulus = ((Signed(a) * b) \div Modulus) % Modulus
    BY MulhsuIs
  <2>4. ExecuteMul(op, a, b) = Trunc(v \div Modulus)
    BY <1>9 DEF ExecuteMul, Modulus
  <2>. HIDE DEF v, f, g, s, t
  <2>5. Trunc(v \div Modulus) = (v \div Modulus) % Modulus
    BY <1>5, <1>6, <2>3
  <2>. QED
    BY <2>2, <2>3, <2>4, <2>5 DEF SameMul
<1>10. CASE op = "mulhu"
  <2>1. f = a /\ g = b
    BY <1>10 DEF Factor
  <2>. DEFINE n == a * b
  <2>2. RtlMul(op, a, b) = (n \div Modulus) % Modulus
    BY <1>1, <1>3, <1>10, <2>1
  <2>3. n \in Int
    BY <1>4
  <2>4. ExecuteMul(op, a, b) = Trunc(n \div Modulus)
    BY <1>10 DEF ExecuteMul, Modulus
  <2>. HIDE DEF n, f, g, s, t
  <2>. QED
    BY <1>5, <1>6, <2>2, <2>3, <2>4 DEF SameMul
<1>. QED
  BY <1>7, <1>8, <1>9, <1>10 DEF MulOps

-----------------------------------------------------------------------------
\* A value computed step by step, by functions of a set into itself, exists.
Iterated(h, n, first, step) == h[0] = first /\ \A k \in 1 .. n : h[k] = step[k][h[k - 1]]

LEMMA Iterates ==
    ASSUME NEW n \in Nat, NEW S, NEW first \in S, NEW step \in [1 .. n -> [S -> S]]
    PROVE  \E h \in [0 .. n -> S] : Iterated(h, n, first, step)
<1>. DEFINE Reaches(m, h) == h[0] = first /\ \A k \in 1 .. m : h[k] = step[k][h[k - 1]]
            Reached == {m \in 0 .. n : \E h \in [0 .. m -> S] : Reaches(m, h)}
<1>1. 0 \in Reached
  <2>. DEFINE h == [k \in 0 .. 0 |-> first]
  <2>1. h \in [0 .. 0 -> S] /\ Reaches(0, h)
    OBVIOUS
  <2>. HIDE DEF h, Reaches
  <2>. QED
    BY <2>1
<1>2. ASSUME NEW m \in 1 .. n, m - 1 \in Reached PROVE m \in Reached
  <2>1. PICK h \in [0 .. (m - 1) -> S] : Reaches(m - 1, h)
    BY <1>2
  <2>. DEFINE last == step[m][h[m - 1]]
              g == [k \in 0 .. m |-> IF k < m THEN h[k] ELSE last]
  <2>2. last \in S
    <3>1. h[m - 1] \in S
      OBVIOUS
    <3>. QED
      BY <3>1
  <2>. HIDE DEF last
  <2>3. g \in [0 .. m -> S]
    BY <2>2
  <2>4. g[0] = first
    BY <2>1
  <2>5. ASSUME NEW k \in 1 .. m PROVE g[k] = step[k][g[k - 1]]
    <3>1. CASE k < m
      <4>1. k \in 1 .. (m - 1) /\ g[k] = h[k] /\ g[k - 1] = h[k - 1]
        BY <3>1
      <4>. HIDE DEF g
      <4>. QED
        BY <2>1, <4>1
    <3>2. CASE k = m
      <4>1. g[k] = last /\ g[k - 1] = h[m - 1]
        BY <3>2
      <4>. HIDE DEF g
      <4>. QED
        BY <3>2, <4>1 DEF last
    <3>. QED
      BY <3>1, <3>2
  <2>. HIDE DEF g
  <2>6. Reaches(m, g)
    BY <2>4, <2>5
  <2>. HIDE DEF Reaches
  <2>. QED
    BY <2>3, <2>6
<1>3. \A m \in 0 .. n : m \in Reached
  <2>. HIDE DEF Reached
  <2>. QED
    BY <1>1, <1>2, InductionTo
<1>4. n \in Reached
  BY <1>3
<1>. HIDE DEF Reaches
<1>5. PICK h \in [0 .. n -> S] : Reaches(n, h)
  BY <1>4
<1>. QED
  BY <1>5 DEF Reaches, Iterated

-----------------------------------------------------------------------------
\* There are as many stages as are needed to shift by any amount below the width, and
\* each but an unneeded one shifts by less than the width.
LEMMA StagesAre ==
    Stages \in 0 .. W /\ W <= 2^Stages /\ \A t \in 0 .. (Stages - 1) : 2^t < W
<1>. DEFINE Enough == {s \in Nat : 2^s >= W}
            Good(s) == 2^s >= W /\ \A t \in 0 .. (s - 1) : 2^t < W
<1>1. W \in Nat /\ W < 2^W
  BY WidthAssumption, BelowPower
<1>2. W \in Enough
  <2>1. 2^W \in Nat
    BY <1>1, PowerPositive
  <2>. QED
    BY <1>1, <2>1
<1>3. PICK s \in Enough : \A k \in Enough : s <= k
  <2>1. Enough \in SUBSET Nat /\ Enough # {}
    BY <1>2
  <2>. HIDE DEF Enough
  <2>. QED
    BY <2>1, LeastNumber
<1>4. s \in 0 .. W
  BY <1>1, <1>2, <1>3
<1>5. \A t \in 0 .. (s - 1) : 2^t < W
  <2>. SUFFICES ASSUME NEW t \in 0 .. (s - 1) PROVE 2^t < W
    OBVIOUS
  <2>1. t \in Nat /\ ~(s <= t)
    BY <1>4
  <2>2. t \notin Enough
    BY <1>3, <2>1
  <2>3. 2^t \in Nat
    BY <2>1, PowerPositive
  <2>. QED
    BY <1>1, <2>1, <2>2, <2>3
<1>6. Good(s)
  BY <1>5
<1>7. Stages = CHOOSE r \in 0 .. W : Good(r)
  BY Zenon DEF Stages
<1>. HIDE DEF Good
<1>8. Stages \in 0 .. W /\ Good(Stages)
  BY <1>4, <1>6, <1>7
<1>9. 2^Stages >= W /\ \A t \in 0 .. (Stages - 1) : 2^t < W
  BY <1>8 DEF Good
<1>10. 2^Stages \in Nat
  <2>1. Stages \in Nat
    BY <1>8
  <2>. QED
    BY <2>1, PowerPositive
<1>. QED
  BY <1>1, <1>8, <1>9, <1>10

\* What the first i bits of the amount are worth grows by the next bit.
LowBits(b, i) == b % 2^i

LEMMA LowBitsAre ==
    ASSUME NEW b \in Nat, NEW i \in Nat
    PROVE  /\ LowBits(b, i) \in Nat /\ LowBits(b, 0) = 0
           /\ AmountBit(b, i) = 1 => LowBits(b, i + 1) = LowBits(b, i) + 2^i
           /\ AmountBit(b, i) # 1 => LowBits(b, i + 1) = LowBits(b, i)
<1>. DEFINE m == 2^i
            n == 2^(i + 1)
<1>1. m \in Nat \ {0} /\ n = m * 2 /\ n \in Nat \ {0} /\ 2 \in Nat \ {0}
  BY PowerPositive, PowerStep
<1>2. AmountBit(b, i) = (b \div m) % 2 /\ LowBits(b, i) = b % m /\ LowBits(b, i + 1) = b % n
  BY DEF AmountBit, LowBits
<1>3. LowBits(b, 0) = 0
  <2>1. 2^0 = 1 /\ b % 1 = 0
    OBVIOUS
  <2>. QED
    BY <2>1 DEF LowBits
<1>. HIDE DEF m, n
<1>4. PICK q \in Int, r \in 0 .. (m - 1) : q = b \div m /\ r = b % m /\ b = m * q + r
  BY <1>1, DivisionIs
<1>5. PICK p \in Int, e \in 0 .. (2 - 1) : e = q % 2 /\ q = 2 * p + e
  <2>1. q \in Int /\ 2 \in Nat \ {0}
    BY <1>4
  <2>. QED
    BY <2>1, DivisionIs
<1>6. e \in {0, 1} /\ b \in Int
  BY <1>5
<1>. DEFINE low == m * e + r
<1>7. low \in 0 .. (n - 1)
  <2>1. CASE e = 0
    <3>1. low = r
      BY <1>1, <1>4, <2>1
    <3>. HIDE DEF low
    <3>. QED
      BY <1>1, <1>4, <3>1
  <2>2. CASE e = 1
    <3>1. low = m + r
      BY <1>1, <1>4, <2>2
    <3>. HIDE DEF low
    <3>. QED
      BY <1>1, <1>4, <3>1
  <2>. QED
    BY <1>6, <2>1, <2>2
<1>8. b = n * p + low
  <2>1. m * (2 * p + e) = (m * 2) * p + m * e
    BY <1>1, <1>5
  <2>. DEFINE x == m * (2 * p + e)
              y == (m * 2) * p
              z == m * e
  <2>2. x = y + z /\ b = x + r /\ y = n * p /\ low = z + r
    BY <1>1, <1>4, <1>5, <2>1
  <2>3. y \in Int /\ z \in Int
    BY <1>1, <1>5
  <2>. HIDE DEF x, y, z, low
  <2>4. b = y + (z + r)
    BY <2>2, <2>3
  <2>. QED
    BY <2>2, <2>4
<1>. HIDE DEF low
<1>9. b % n = low
  BY <1>1, <1>6, <1>7, <1>8, DivisionUnique
<1>10. r \in Nat /\ r = LowBits(b, i)
  BY <1>1, <1>2, <1>4
<1>11. AmountBit(b, i) = e /\ LowBits(b, i + 1) = low
  BY <1>2, <1>4, <1>5, <1>9
<1>12. e = 0 => low = r
  BY <1>1, <1>4 DEF low
<1>13. e = 1 => low = r + m
  BY <1>1, <1>4 DEF low
<1>. QED
  BY <1>3, <1>6, <1>10, <1>11, <1>12, <1>13 DEF m

\* An amount below the width has no other bits.
LEMMA AllBits == \A b \in Nat : b < W => LowBits(b, Stages) = b
<1>. SUFFICES ASSUME NEW b \in Nat, b < W PROVE LowBits(b, Stages) = b
  OBVIOUS
<1>. DEFINE m == 2^Stages
<1>1. Stages \in Nat /\ W \in Nat /\ W <= m
  BY StagesAre, WidthAssumption
<1>2. m \in Nat \ {0}
  BY <1>1, PowerPositive
<1>. HIDE DEF m
<1>3. b \in 0 .. (m - 1)
  BY <1>1, <1>2
<1>4. b % m = b
  BY <1>2, <1>3
<1>. QED
  BY <1>4 DEF LowBits, m

\* The stages of the left shifter.
LeftStages(f, a, b) ==
    /\ f[0] = a /\ f[Stages] = RtlShiftLeft(a, b)
    /\ \A i \in 1 .. Stages :
          f[i] = IF AmountBit(b, i - 1) = 1 THEN Trunc(f[i - 1] * 2^(2^(i - 1))) ELSE f[i - 1]

LEMMA LeftStagesExist ==
    ASSUME NEW a \in Reg, NEW b \in Nat
    PROVE  \E f : LeftStages(f, a, b)
<1>. DEFINE n == Stages
            Shifted(i, x) == IF AmountBit(b, i - 1) = 1 THEN Trunc(x * 2^(2^(i - 1))) ELSE x
            step == [i \in 1 .. n |-> [x \in Int |-> Shifted(i, x)]]
            Rec(h) == [i \in 0 .. n |-> IF i = 0 THEN a ELSE Shifted(i, h[i - 1])]
            stage == CHOOSE h : h = Rec(h)
<1>1. n \in Nat /\ a \in Int
  BY StagesAre, SignIs
<1>2. ASSUME NEW i \in 1 .. n, NEW x \in Int PROVE Shifted(i, x) \in Int
  <2>1. i - 1 \in Nat
    BY <1>1
  <2>2. 2^(2^(i - 1)) \in Nat
    BY <2>1, PowerPositive
  <2>3. x * 2^(2^(i - 1)) \in Int
    BY <2>2
  <2>4. Trunc(x * 2^(2^(i - 1))) \in Int
    BY <2>3, TruncIs, SignIs
  <2>. QED
    BY <2>4
<1>3. RtlShiftLeft(a, b) = stage[n]
  BY Zenon DEF RtlShiftLeft
<1>. HIDE DEF n, Shifted
<1>4. step \in [1 .. n -> [Int -> Int]]
  BY <1>2
<1>. HIDE DEF step
<1>5. PICK h \in [0 .. n -> Int] : Iterated(h, n, a, step)
  BY <1>1, <1>4, Iterates
<1>6. \A k \in 1 .. n : h[k] = Shifted(k, h[k - 1])
  <2>. SUFFICES ASSUME NEW k \in 1 .. n PROVE h[k] = Shifted(k, h[k - 1])
    OBVIOUS
  <2>1. h[k - 1] \in Int
    BY <1>1
  <2>2. step[k][h[k - 1]] = Shifted(k, h[k - 1])
    BY <2>1 DEF step
  <2>. QED
    BY <1>5, <2>2 DEF Iterated
<1>7. h = Rec(h)
  <2>1. \A k \in 0 .. n : h[k] = IF k = 0 THEN a ELSE Shifted(k, h[k - 1])
    BY <1>1, <1>5, <1>6 DEF Iterated
  <2>. QED
    BY <2>1
<1>8. stage = Rec(stage)
  <2>. HIDE DEF Rec
  <2>. QED
    BY <1>7
<1>9. \A k \in 0 .. n : stage[k] = IF k = 0 THEN a ELSE Shifted(k, stage[k - 1])
  <2>. DEFINE r == Rec(stage)
  <2>1. \A k \in 0 .. n : r[k] = IF k = 0 THEN a ELSE Shifted(k, stage[k - 1])
    OBVIOUS
  <2>2. stage = r
    BY <1>8
  <2>. HIDE DEF r, stage
  <2>. QED
    BY <2>1, <2>2
<1>. HIDE DEF stage
<1>10. stage[0] = a /\ \A i \in 1 .. n : stage[i] = Shifted(i, stage[i - 1])
  BY <1>1, <1>9
<1>11. LeftStages(stage, a, b)
  BY <1>3, <1>10 DEF LeftStages, n, Shifted
<1>. QED
  BY <1>11

\* Together they shift by the amount modulo 2^Stages.
LEMMA LeftShiftIs ==
    ASSUME NEW a \in Reg, NEW b \in Nat
    PROVE  RtlShiftLeft(a, b) = Trunc(a * 2^LowBits(b, Stages)) /\ RtlShiftLeft(a, b) \in Reg
<1>. DEFINE n == Stages
            Done == {i \in Nat : \A f : LeftStages(f, a, b) =>
                                   f[i] = (a * 2^LowBits(b, i)) % Modulus}
<1>1. n \in Nat /\ a \in Int /\ Modulus \in Nat \ {0}
  BY StagesAre, SignIs, WidthSizes
<1>2. 0 \in Done
  <2>1. 2^LowBits(b, 0) = 1
    <3>1. LowBits(b, 0) = 0 /\ 2^0 = 1
      BY LowBitsAre
    <3>. QED
      BY <3>1
  <2>2. a * 1 = a /\ a \in 0 .. (Modulus - 1)
    BY <1>1, SignIs
  <2>3. a % Modulus = a
    BY <1>1, <2>2
  <2>4. \A f : LeftStages(f, a, b) => f[0] = (a * 2^LowBits(b, 0)) % Modulus
    BY <2>1, <2>2, <2>3 DEF LeftStages
  <2>. QED
    BY <2>4
<1>3. ASSUME NEW i \in 1 .. n, i - 1 \in Done PROVE i \in Done
  <2>. SUFFICES ASSUME NEW f, LeftStages(f, a, b)
                PROVE  f[i] = (a * 2^LowBits(b, i)) % Modulus
    BY <1>1
  <2>. DEFINE j == i - 1
              l == LowBits(b, j)
              m == 2^l
              t == 2^j
              k == 2^t
              x == a * m
  <2>1. j \in Nat /\ i = j + 1
    BY <1>1
  <2>2. f[j] = x % Modulus
    BY <1>3
  <2>3. f[i] = IF AmountBit(b, j) = 1 THEN Trunc(f[j] * k) ELSE f[j]
    BY DEF LeftStages
  <2>. HIDE DEF j
  <2>4. /\ l \in Nat
        /\ AmountBit(b, j) = 1 => LowBits(b, i) = l + t
        /\ AmountBit(b, j) # 1 => LowBits(b, i) = l
    BY <2>1, LowBitsAre
  <2>5. t \in Nat
    BY <2>1, PowerPositive
  <2>. HIDE DEF l, t
  <2>6. m \in Nat \ {0} /\ k \in Nat \ {0} /\ 2^(l + t) = m * k
    <3>1. m \in Nat \ {0} /\ k \in Nat \ {0}
      BY <2>4, <2>5, PowerPositive
    <3>2. 2^(l + t) = 2^l * 2^t
      BY <2>4, <2>5, PowerSum
    <3>. QED
      BY <3>1, <3>2, Zenon
  <2>. HIDE DEF m, k
  <2>7. CASE AmountBit(b, j) = 1
    <3>1. x \in Int /\ k \in Int
      BY <1>1, <2>6
    <3>. HIDE DEF x
    <3>2. f[j] \in Int /\ Congruent(f[j], x, Modulus)
      BY <1>1, <2>2, <3>1, ModCongruent
    <3>3. Congruent(k, k, Modulus)
      BY <1>1, <3>1, CongruentLaws
    <3>4. Congruent(f[j] * k, x * k, Modulus)
      BY <1>1, <3>1, <3>2, <3>3, CongruentProduct
    <3>5. f[j] * k \in Int /\ x * k \in Int
      BY <3>1, <3>2
    <3>6. (f[j] * k) % Modulus = (x * k) % Modulus
      BY <1>1, <3>4, <3>5, CongruentMod
    <3>7. f[i] = (x * k) % Modulus
      BY <2>3, <2>7, <3>5, <3>6, TruncIs
    <3>8. x * k = a * (m * k)
      BY <1>1, <2>6 DEF x
    <3>9. 2^LowBits(b, i) = m * k
      <4>1. LowBits(b, i) = l + t
        BY <2>4, <2>7
      <4>. QED
        BY <2>6, <4>1, Zenon
    <3>. QED
      BY <3>7, <3>8, <3>9
  <2>8. CASE AmountBit(b, j) # 1
    <3>1. 2^LowBits(b, i) = m
      BY <2>4, <2>8 DEF m
    <3>2. f[i] = x % Modulus
      BY <2>2, <2>3, <2>8
    <3>. QED
      BY <3>1, <3>2
  <2>. QED
    BY <2>7, <2>8
<1>4. \A i \in 0 .. n : i \in Done
  <2>. HIDE DEF Done, n
  <2>. QED
    BY <1>1, <1>2, <1>3, InductionTo
<1>5. n \in Done
  BY <1>1, <1>4
<1>6. PICK f : LeftStages(f, a, b)
  BY LeftStagesExist
<1>. DEFINE m == 2^LowBits(b, n)
            x == a * m
<1>7. f[n] = x % Modulus
  BY <1>5, <1>6
<1>8. f[n] = RtlShiftLeft(a, b)
  BY <1>6 DEF LeftStages
<1>9. x \in Int
  <2>1. LowBits(b, n) \in Nat
    BY <1>1, LowBitsAre
  <2>2. m \in Nat
    BY <2>1, PowerPositive
  <2>. HIDE DEF m
  <2>. QED
    BY <1>1, <2>2
<1>. HIDE DEF x
<1>10. Trunc(x) = x % Modulus /\ Trunc(x) \in Reg
  BY <1>9, TruncIs
<1>. QED
  BY <1>7, <1>8, <1>10 DEF x

-----------------------------------------------------------------------------
\* The stages of the right shifter.
Fill(a, arith) == IF arith /\ Msb(a) = 1 THEN 1 ELSE 0

RightStages(f, a, b, arith) ==
    /\ f[0] = a /\ f[Stages] = RtlShiftRight(a, b, arith)
    /\ \A i \in 1 .. Stages :
          f[i] = IF AmountBit(b, i - 1) = 1
                 THEN (f[i - 1] \div 2^(2^(i - 1)))
                        + Fill(a, arith) * (2^W - 2^(W - 2^(i - 1)))
                 ELSE f[i - 1]

LEMMA RightStagesExist ==
    ASSUME NEW a \in Reg, NEW b \in Nat, NEW arith \in BOOLEAN
    PROVE  \E f : RightStages(f, a, b, arith)
<1>. DEFINE n == Stages
            fill == IF arith /\ Msb(a) = 1 THEN 1 ELSE 0
            Shifted(i, x) == LET m == 2^(i - 1)
                             IN  IF AmountBit(b, i - 1) = 1
                                 THEN x \div 2^m + fill * (2^W - 2^(W - m))
                                 ELSE x
            step == [i \in 1 .. n |-> [x \in Int |-> Shifted(i, x)]]
            Rec(h) == [i \in 0 .. n |-> IF i = 0 THEN a ELSE Shifted(i, h[i - 1])]
            stage == CHOOSE h : h = Rec(h)
<1>1. n \in Nat /\ a \in Int
  BY StagesAre, SignIs
<1>2. ASSUME NEW i \in 1 .. n, NEW x \in Int PROVE Shifted(i, x) \in Int
  <2>. DEFINE j == i - 1
              m == 2^j
  <2>1. j \in 0 .. (Stages - 1) /\ j \in Nat
    BY <1>1
  <2>2. m < W /\ m \in Nat /\ W \in Nat
    BY <2>1, StagesAre, PowerPositive, WidthAssumption
  <2>. HIDE DEF m
  <2>3. 2^m \in Nat \ {0} /\ 2^W \in Nat /\ 2^(W - m) \in Nat
    <3>1. W - m \in Nat
      BY <2>2
    <3>. QED
      BY <2>2, <3>1, PowerPositive
  <2>. DEFINE c == 2^m
              d == 2^W - 2^(W - m)
  <2>4. c \in Nat \ {0} /\ d \in Int
    BY <2>3
  <2>. HIDE DEF c, d
  <2>5. x \div c \in Int /\ fill * d \in Int
    BY <2>4
  <2>6. Shifted(i, x) = IF AmountBit(b, i - 1) = 1 THEN (x \div c) + (fill * d) ELSE x
    BY DEF c, d, m
  <2>. HIDE DEF fill, Shifted
  <2>. QED
    BY <2>5, <2>6
<1>3. RtlShiftRight(a, b, arith) = stage[n]
  BY Zenon DEF RtlShiftRight
<1>. HIDE DEF n, Shifted
<1>4. step \in [1 .. n -> [Int -> Int]]
  BY <1>2
<1>. HIDE DEF step
<1>5. PICK h \in [0 .. n -> Int] : Iterated(h, n, a, step)
  BY <1>1, <1>4, Iterates
<1>6. \A k \in 1 .. n : h[k] = Shifted(k, h[k - 1])
  <2>. SUFFICES ASSUME NEW k \in 1 .. n PROVE h[k] = Shifted(k, h[k - 1])
    OBVIOUS
  <2>1. h[k - 1] \in Int
    BY <1>1
  <2>2. step[k][h[k - 1]] = Shifted(k, h[k - 1])
    BY <2>1 DEF step
  <2>. QED
    BY <1>5, <2>2 DEF Iterated
<1>7. h = Rec(h)
  <2>1. \A k \in 0 .. n : h[k] = IF k = 0 THEN a ELSE Shifted(k, h[k - 1])
    BY <1>1, <1>5, <1>6 DEF Iterated
  <2>. QED
    BY <2>1
<1>8. stage = Rec(stage)
  <2>. HIDE DEF Rec
  <2>. QED
    BY <1>7
<1>9. \A k \in 0 .. n : stage[k] = IF k = 0 THEN a ELSE Shifted(k, stage[k - 1])
  <2>. DEFINE r == Rec(stage)
  <2>1. \A k \in 0 .. n : r[k] = IF k = 0 THEN a ELSE Shifted(k, stage[k - 1])
    OBVIOUS
  <2>2. stage = r
    BY <1>8
  <2>. HIDE DEF r, stage
  <2>. QED
    BY <2>1, <2>2
<1>. HIDE DEF stage
<1>10. stage[0] = a /\ \A i \in 1 .. n : stage[i] = Shifted(i, stage[i - 1])
  BY <1>1, <1>9
<1>11. RightStages(stage, a, b, arith)
  BY <1>3, <1>10 DEF RightStages, n, Shifted, Fill
<1>. QED
  BY <1>11

\* One stage with the sign filled in: a whole word of sign bits is worth one modulus.
FilledTo(q, n, k, fill) == ((q + fill * (n * k)) \div n) + fill * (n * k - k)
StageFills(v, m, n, k, fill) ==
    FilledTo(v \div m, n, k, fill) = (v \div (m * n)) + fill * (n * k)

LEMMA FilledStage ==
    ASSUME NEW n \in Nat \ {0}, NEW k \in Nat \ {0}, NEW m \in Nat \ {0}, NEW v \in Int,
           NEW fill \in {0, 1}
    PROVE  StageFills(v, m, n, k, fill)
<1>. DEFINE q == v \div m
            e == fill * k
            p == q \div n
            c == n * e
<1>1. q \in Int /\ e \in Int
  BY DivisionIs
<1>2. v \div (m * n) = p
  BY DivisionTwice
<1>3. fill * (n * k) = c /\ fill * (n * k - k) = c - e /\ c \in Int
  <2>1. CASE fill = 0
    BY <2>1
  <2>2. CASE fill = 1
    BY <2>2
  <2>. QED
    BY <2>1, <2>2
<1>. HIDE DEF q, e
<1>4. PICK r \in 0 .. (n - 1) : p \in Int /\ q = n * p + r
  BY <1>1, DivisionIs
<1>. HIDE DEF p
<1>. DEFINE s == p + e
            x == q + c
<1>5. s \in Int /\ x \in Int /\ x = n * s + r
  <2>1. n * (p + e) = n * p + n * e
    BY <1>1, <1>4
  <2>. DEFINE y == n * (p + e)
              z == n * p
  <2>2. y = z + c /\ q = z + r /\ z \in Int
    BY <1>1, <1>4, <2>1
  <2>. HIDE DEF z, c
  <2>3. y \in Int /\ x = y + r
    BY <1>1, <1>3, <1>4, <2>2
  <2>4. s \in Int /\ x \in Int
    BY <1>1, <1>3, <1>4
  <2>. QED
    BY <2>3, <2>4
<1>. HIDE DEF s, x
<1>6. x \div n = s
  BY <1>5, DivisionUnique
<1>7. (x \div n) + (c - e) = p + c
  <2>. HIDE DEF c
  <2>. QED
    BY <1>1, <1>3, <1>4, <1>6 DEF s
<1>. HIDE DEF c
<1>. QED
  BY <1>2, <1>3, <1>7 DEF x, q, FilledTo, StageFills

\* What the right shifter shifts, and that its result is a register value.
Shiftee(a, arith) == IF Fill(a, arith) = 1 THEN a - Modulus ELSE a

LEMMA ShifteeIs ==
    ASSUME NEW a \in Reg, NEW arith \in BOOLEAN, NEW m \in Nat \ {0}
    PROVE  /\ Shiftee(a, arith) \in Int /\ Fill(a, arith) \in {0, 1}
           /\ a = Shiftee(a, arith) + Fill(a, arith) * Modulus
           /\ (Shiftee(a, arith) \div m) \in Int
           /\ (Shiftee(a, arith) \div m) + Fill(a, arith) * Modulus \in Reg
           /\ arith => Shiftee(a, arith) = Signed(a)
           /\ ~arith => Shiftee(a, arith) = a /\ Fill(a, arith) = 0
<1>. DEFINE p == Modulus
            v == Shiftee(a, arith)
            q == v \div m
<1>1. a \in 0 .. (p - 1) /\ p \in Nat \ {0} /\ a \in Int
  BY SignIs, WidthSizes
<1>2. Reg = 0 .. (p - 1)
  BY RegIs
<1>3. v = IF Fill(a, arith) = 1 THEN a - p ELSE a
  BY DEF Shiftee
<1>4. arith => v = Signed(a)
  <2>1. Signed(a) = IF Msb(a) = 1 THEN a - p ELSE a
    BY DEF Signed, Modulus
  <2>. QED
    BY <1>3, <2>1 DEF Fill
<1>5. Fill(a, arith) \in {0, 1} /\ (~arith => Fill(a, arith) = 0)
  BY DEF Fill
<1>. HIDE DEF v, p
<1>6. v \in Int
  BY <1>1, <1>3
<1>7. PICK r \in 0 .. (m - 1) : q \in Int /\ v = m * q + r
  BY <1>6, DivisionIs
<1>. HIDE DEF q
<1>8. CASE Fill(a, arith) = 0
  <2>1. v = a /\ 0 * p = 0
    BY <1>1, <1>3, <1>8
  <2>2. q >= 0
    <3>. SUFFICES ASSUME q <= -1 PROVE FALSE
      BY <1>7
    <3>1. m * q <= m * (-1)
      BY <1>7
    <3>. QED
      BY <1>1, <1>7, <2>1, <3>1
  <2>3. q <= m * q
    BY <1>7, <2>2
  <2>4. q <= a
    <3>. DEFINE z == m * q
    <3>1. z \in Int /\ q <= z /\ v = z + r
      BY <1>7, <2>3
    <3>. HIDE DEF z
    <3>. QED
      BY <1>1, <1>7, <2>1, <3>1
  <2>5. q + 0 * p \in Reg
    BY <1>1, <1>2, <1>7, <2>1, <2>2, <2>4
  <2>6. a = v + 0 * p
    BY <1>1, <2>1
  <2>. QED
    BY <1>4, <1>5, <1>6, <1>7, <1>8, <2>1, <2>5, <2>6 DEF q, v, p
<1>9. CASE Fill(a, arith) = 1
  <2>1. v = a - p /\ 1 * p = p
    BY <1>1, <1>3, <1>9
  <2>2. q <= -1
    <3>. SUFFICES ASSUME q >= 0 PROVE FALSE
      BY <1>7
    <3>1. m * q >= 0
      BY <1>7
    <3>. QED
      BY <1>1, <1>7, <2>1, <3>1
  <2>3. q >= -p
    <3>. SUFFICES ASSUME q + 1 <= -p PROVE FALSE
      BY <1>1, <1>7
    <3>1. m * (q + 1) <= m * (-p)
      BY <1>1, <1>7
    <3>2. m * p >= p
      BY <1>1
    <3>3. m * (-p) = -(m * p) /\ m * (q + 1) = m * q + m
      BY <1>1, <1>7
    <3>. DEFINE x == m * (q + 1)
                y == m * (-p)
                z == m * q
                w == m * p
    <3>4. x <= y /\ w >= p /\ y = -w /\ x = z + m /\ v = z + r /\ z \in Int /\ w \in Int
      BY <1>1, <1>7, <3>1, <3>2, <3>3
    <3>. HIDE DEF x, y, z, w
    <3>5. v < -p
      BY <1>1, <1>7, <3>4
    <3>. QED
      BY <1>1, <2>1, <3>5
  <2>5. q + 1 * p \in Reg
    BY <1>1, <1>2, <1>7, <2>1, <2>2, <2>3
  <2>6. a = v + 1 * p
    BY <1>1, <2>1
  <2>. QED
    BY <1>4, <1>5, <1>6, <1>7, <1>9, <2>1, <2>5, <2>6 DEF q, v, p
<1>. QED
  BY <1>5, <1>8, <1>9

LEMMA RightShiftIs ==
    ASSUME NEW a \in Reg, NEW b \in Nat, NEW arith \in BOOLEAN
    PROVE  RtlShiftRight(a, b, arith)
             = (Shiftee(a, arith) \div 2^LowBits(b, Stages)) + Fill(a, arith) * Modulus
<1>. DEFINE n == Stages
            v == Shiftee(a, arith)
            fill == Fill(a, arith)
            Done == {i \in Nat : \A f : RightStages(f, a, b, arith) =>
                                    f[i] = (v \div 2^LowBits(b, i)) + fill * Modulus}
<1>1. n \in Nat /\ a \in Int /\ Modulus \in Nat \ {0} /\ W \in Nat
  BY StagesAre, SignIs, WidthSizes
<1>2. v \in Int /\ fill \in {0, 1} /\ a = v + fill * Modulus
  <2>1. 1 \in Nat \ {0}
    OBVIOUS
  <2>. QED
    BY <2>1, ShifteeIs
<1>3. 0 \in Done
  <2>1. 2^LowBits(b, 0) = 1
    <3>1. LowBits(b, 0) = 0 /\ 2^0 = 1
      BY LowBitsAre
    <3>. QED
      BY <3>1
  <2>. HIDE DEF v, fill
  <2>2. v \div 1 = v
    BY <1>2
  <2>3. \A f : RightStages(f, a, b, arith) => f[0] = (v \div 2^LowBits(b, 0)) + fill * Modulus
    BY <1>2, <2>1, <2>2 DEF RightStages
  <2>. QED
    BY <2>3
<1>4. ASSUME NEW i \in 1 .. n, i - 1 \in Done PROVE i \in Done
  <2>. SUFFICES ASSUME NEW f, RightStages(f, a, b, arith)
                PROVE  f[i] = (v \div 2^LowBits(b, i)) + fill * Modulus
    BY <1>1
  <2>. DEFINE j == i - 1
              l == LowBits(b, j)
              m == 2^l
              t == 2^j
              k == 2^t
              c == 2^(W - t)
  <2>1. j \in Nat /\ i = j + 1 /\ j \in 0 .. (Stages - 1)
    BY <1>1
  <2>2. f[j] = (v \div m) + fill * Modulus
    BY <1>4
  <2>3. f[i] = IF AmountBit(b, j) = 1 THEN (f[j] \div k) + fill * (Modulus - c) ELSE f[j]
    BY DEF RightStages, Modulus
  <2>. HIDE DEF j, v, fill
  <2>4. /\ l \in Nat
        /\ AmountBit(b, j) = 1 => LowBits(b, i) = l + t
        /\ AmountBit(b, j) # 1 => LowBits(b, i) = l
    BY <2>1, LowBitsAre
  <2>5. t \in Nat /\ t < W /\ W - t \in Nat /\ t + (W - t) = W
    BY <1>1, <2>1, PowerPositive, StagesAre
  <2>6. m \in Nat \ {0} /\ k \in Nat \ {0} /\ c \in Nat \ {0}
    BY <2>4, <2>5, PowerPositive
  <2>7. 2^(l + t) = m * k
    BY <2>4, <2>5, PowerSum
  <2>8. Modulus = k * c
    <3>. DEFINE u == W - t
    <3>1. t \in Nat /\ u \in Nat /\ t + u = W
      BY <2>5
    <3>. HIDE DEF u, t
    <3>2. 2^W = 2^t * 2^u
      BY <3>1, PowerSum
    <3>. QED
      BY <3>2 DEF u, Modulus
  <2>. HIDE DEF l, t, m, k, c
  <2>9. CASE AmountBit(b, j) = 1
    <3>1. f[i] = FilledTo(v \div m, k, c, fill)
      BY <2>2, <2>3, <2>8, <2>9 DEF FilledTo
    <3>2. f[i] = (v \div (m * k)) + fill * (k * c)
      <4>1. v \in Int /\ fill \in {0, 1}
        BY <1>2
      <4>2. StageFills(v, m, k, c, fill)
        BY <2>6, <4>1, FilledStage
      <4>. QED
        BY <3>1, <4>2, Zenon DEF StageFills
    <3>3. 2^LowBits(b, i) = m * k
      <4>1. LowBits(b, i) = l + t
        BY <2>4, <2>9
      <4>. QED
        BY <2>7, <4>1, Zenon
    <3>. QED
      BY <2>8, <3>2, <3>3
  <2>10. CASE AmountBit(b, j) # 1
    <3>1. 2^LowBits(b, i) = m
      BY <2>4, <2>10 DEF m
    <3>2. f[i] = (v \div m) + fill * Modulus
      BY <2>2, <2>3, <2>10
    <3>. QED
      BY <3>1, <3>2
  <2>. QED
    BY <2>9, <2>10
<1>5. \A i \in 0 .. n : i \in Done
  <2>. HIDE DEF Done, n
  <2>. QED
    BY <1>1, <1>3, <1>4, InductionTo
<1>6. n \in Done
  BY <1>1, <1>5
<1>7. PICK f : RightStages(f, a, b, arith)
  BY RightStagesExist
<1>8. f[n] = (v \div 2^LowBits(b, n)) + fill * Modulus
  BY <1>6, <1>7
<1>9. f[n] = RtlShiftRight(a, b, arith)
  BY <1>7 DEF RightStages
<1>. QED
  BY <1>8, <1>9

\* The shifter and the comparator compute what the simulator computes; by the width or
\* more the shifter's result is one of those the simulator may have.
LEMMA AluAgrees ==
    ASSUME NEW op \in AluOps, NEW a \in Reg, NEW b \in Reg
    PROVE  SameAlu(op, a, b)
<1>1. b \in Nat /\ W \in Nat
  BY SignIs, WidthAssumption
<1>. DEFINE l == LowBits(b, Stages)
            m == 2^l
<1>2. l \in Nat
  <2>1. Stages \in Nat
    BY StagesAre
  <2>. QED
    BY <1>1, <2>1, LowBitsAre
<1>3. b < W => l = b
  BY <1>1, AllBits
<1>4. m \in Nat \ {0}
  BY <1>2, PowerPositive
<1>5. CASE op \in {"and", "or", "xor", "add", "sub", "sltu"}
  BY <1>5 DEF SameAlu, RtlAluOp, ExecuteAluOp
<1>6. CASE op = "slt"
  BY <1>6, ComparatorsAre DEF SameAlu, RtlAluOp, ExecuteAluOp
<1>7. CASE op = "sll"
  <2>1. RtlAluOp(op, a, b) = RtlShiftLeft(a, b)
    BY <1>7 DEF RtlAluOp
  <2>2. RtlShiftLeft(a, b) = Trunc(a * m) /\ RtlShiftLeft(a, b) \in Reg
    BY <1>1, LeftShiftIs
  <2>3. CASE b < W
    <3>1. ExecuteAluOp(op, a, b) = {Trunc(a * 2^b)}
      BY <1>1, <1>7, <2>3 DEF ExecuteAluOp
    <3>2. m = 2^b
      BY <1>3, <2>3
    <3>. QED
      BY <2>1, <2>2, <3>1, <3>2 DEF SameAlu
  <2>4. CASE ~(b < W)
    <3>1. ExecuteAluOp(op, a, b) = Reg
      BY <1>1, <1>7, <2>4 DEF ExecuteAluOp
    <3>. QED
      BY <2>1, <2>2, <3>1 DEF SameAlu
  <2>. QED
    BY <2>3, <2>4
<1>8. CASE op = "srl"
  <2>. DEFINE q == Shiftee(a, FALSE) \div m
              fill == Fill(a, FALSE)
  <2>1. RtlAluOp(op, a, b) = RtlShiftRight(a, b, FALSE)
    BY <1>8 DEF RtlAluOp
  <2>2. RtlShiftRight(a, b, FALSE) = q + fill * Modulus
    BY <1>1, RightShiftIs
  <2>3. q + fill * Modulus \in Reg /\ Shiftee(a, FALSE) = a /\ fill = 0 /\ q \in Int
    BY <1>4, ShifteeIs
  <2>4. CASE b < W
    <3>1. ExecuteAluOp(op, a, b) = {a \div 2^b}
      BY <1>1, <1>8, <2>4 DEF ExecuteAluOp
    <3>2. m = 2^b
      BY <1>3, <2>4
    <3>3. q = a \div 2^b
      BY <2>3, <3>2
    <3>. HIDE DEF q, fill
    <3>4. q + fill * Modulus = q
      BY <2>3, WidthSizes
    <3>. QED
      BY <2>1, <2>2, <3>1, <3>3, <3>4 DEF SameAlu
  <2>5. CASE ~(b < W)
    <3>1. ExecuteAluOp(op, a, b) = Reg
      BY <1>1, <1>8, <2>5 DEF ExecuteAluOp
    <3>. QED
      BY <2>1, <2>2, <2>3, <3>1 DEF SameAlu
  <2>. QED
    BY <2>4, <2>5
<1>9. CASE op = "sra"
  <2>. DEFINE q == Shiftee(a, TRUE) \div m
              fill == Fill(a, TRUE)
              v == q + fill * Modulus
  <2>1. RtlAluOp(op, a, b) = RtlShiftRight(a, b, TRUE)
    BY <1>9 DEF RtlAluOp
  <2>2. RtlShiftRight(a, b, TRUE) = v
    BY <1>1, RightShiftIs
  <2>3. v \in Reg /\ Shiftee(a, TRUE) = Signed(a) /\ fill \in {0, 1} /\ q \in Int
    BY <1>4, ShifteeIs
  <2>4. CASE b < W
    <3>1. ExecuteAluOp(op, a, b) = {Trunc(Signed(a) \div 2^b)}
      BY <1>1, <1>9, <2>4 DEF ExecuteAluOp
    <3>2. m = 2^b
      BY <1>3, <2>4
    <3>3. q = Signed(a) \div 2^b
      BY <2>3, <3>2
    <3>. HIDE DEF q, fill
    <3>4. v \in Int /\ Trunc(v) = v /\ Trunc(v) = v % Modulus /\ Trunc(q) = q % Modulus
      BY <2>3, TruncIs, SignIs
    <3>5. Modulus * fill = fill * Modulus /\ fill \in Int /\ Modulus \in Nat \ {0}
      BY <2>3, WidthSizes
    <3>6. Congruent(v, q, Modulus)
      BY <3>5 DEF Congruent
    <3>7. v % Modulus = q % Modulus
      BY <2>3, <3>4, <3>5, <3>6, CongruentMod
    <3>. QED
      BY <2>1, <2>2, <3>1, <3>3, <3>4, <3>7 DEF SameAlu
  <2>5. CASE ~(b < W)
    <3>1. ExecuteAluOp(op, a, b) = Reg
      BY <1>1, <1>9, <2>5 DEF ExecuteAluOp
    <3>. QED
      BY <2>1, <2>2, <2>3, <3>1 DEF SameAlu
  <2>. QED
    BY <2>4, <2>5
<1>. QED
  BY <1>5, <1>6, <1>7, <1>8, <1>9 DEF AluOps

-----------------------------------------------------------------------------
\* The registers of the divider after each step.
Divider == [dividend : Int, divisor : Int, quotient : Int, q_mask : Int, invert : BOOLEAN]

DividerOutcome(op, d) ==
    LET value == IF op \in {"div", "divu"} THEN d.quotient ELSE d.dividend
    IN  IF d.invert THEN Trunc(-value) ELSE value

DivStages(f, op, a, b) ==
    /\ f[0] = DivStart(op, a, b) /\ RtlDiv(op, a, b) = DividerOutcome(op, f[W])
    /\ \A n \in 1 .. W : f[n] = DivStep(f[n - 1])

\* The magnitude of an operand, which is what the divider divides.
Size(n) == IF Msb(n) = 1 THEN Modulus - n ELSE n
Magnitude(n, signed) == IF signed THEN Size(n) ELSE n
SignedOps == {"div", "rem"}

LEMMA MagnitudeIs ==
    ASSUME NEW n \in Reg, NEW signed \in BOOLEAN
    PROVE  /\ Magnitude(n, signed) \in Reg /\ Magnitude(n, signed) \in Nat
           /\ Magnitude(n, signed) = 0 <=> n = 0
           /\ (IF signed /\ Msb(n) = 1 THEN Trunc(-n) ELSE n) = Magnitude(n, signed)
           /\ Msb(n) = 1 => Signed(n) < 0 /\ Signed(n) = -Size(n)
           /\ Msb(n) # 1 => Signed(n) >= 0 /\ Signed(n) = Size(n)
           /\ Abs(Signed(n)) = Size(n)
           /\ Msb(n) \in {0, 1}
<1>1. /\ n \in 0 .. (Modulus - 1) /\ Half \in Nat \ {0} /\ Modulus = 2 * Half
      /\ Modulus \in Nat \ {0} /\ Reg = 0 .. (Modulus - 1)
  BY RegIs, WidthSizes
<1>2. /\ n < Half => Msb(n) = 0 /\ Signed(n) = n
      /\ n >= Half => Msb(n) = 1 /\ Signed(n) = n - Modulus
  BY SignIs
<1>3. Msb(n) = 1 => n >= Half
  BY <1>1, <1>2
<1>4. Msb(n) = 1 => Trunc(-n) = Modulus - n
  <2>. SUFFICES ASSUME Msb(n) = 1 PROVE Trunc(-n) = Modulus - n
    OBVIOUS
  <2>. DEFINE e == -n
              r == Modulus - n
              q == -1
  <2>1. e \in Int /\ q \in Int /\ r \in 0 .. (Modulus - 1) /\ e = Modulus * q + r
    BY <1>1, <1>3
  <2>. HIDE DEF e, r, q
  <2>2. e % Modulus = r
    BY <1>1, <2>1, DivisionUnique
  <2>3. Trunc(e) = r
    BY <2>1, <2>2, TruncIs
  <2>. QED
    BY <2>3 DEF e, r
<1>5. (IF signed /\ Msb(n) = 1 THEN Trunc(-n) ELSE n) = Magnitude(n, signed)
  BY <1>4 DEF Magnitude, Size
<1>6. /\ Magnitude(n, signed) \in Reg /\ Magnitude(n, signed) \in Nat
      /\ Magnitude(n, signed) = 0 <=> n = 0
  BY <1>1, <1>3 DEF Magnitude, Size
<1>7. Msb(n) = 1 => Signed(n) < 0 /\ Signed(n) = -Size(n)
  BY <1>1, <1>2, <1>3 DEF Size
<1>8. Msb(n) # 1 => Signed(n) >= 0 /\ Signed(n) = Size(n)
  BY <1>1, <1>2 DEF Size
<1>9. Size(n) \in Int
  BY <1>1 DEF Size
<1>10. Abs(Signed(n)) = Size(n)
  <2>1. CASE Msb(n) = 1
    <3>1. Signed(n) < 0 /\ Signed(n) = -Size(n)
      BY <1>7, <2>1
    <3>2. Abs(Signed(n)) = -Signed(n)
      BY <3>1 DEF Abs
    <3>. QED
      BY <1>9, <3>1, <3>2
  <2>2. CASE Msb(n) # 1
    <3>1. Signed(n) >= 0 /\ Signed(n) = Size(n)
      BY <1>8, <2>2
    <3>2. ~(Signed(n) < 0)
      BY <1>9, <3>1
    <3>3. Abs(Signed(n)) = Signed(n)
      BY <3>2 DEF Abs
    <3>. QED
      BY <3>1, <3>3
  <2>. QED
    BY <2>1, <2>2
<1>11. Msb(n) \in {0, 1}
  BY <1>1, <1>2
<1>. QED
  BY <1>5, <1>6, <1>7, <1>8, <1>10, <1>11

Inverts(op, a, b) == \/ op = "div" /\ Msb(a) # Msb(b) /\ b # 0
                     \/ op = "rem" /\ Msb(a) = 1

LEMMA DivStartIs ==
    ASSUME NEW op \in DivOps, NEW a \in Reg, NEW b \in Reg
    PROVE  DivStart(op, a, b) =
             [dividend |-> Magnitude(a, op \in SignedOps),
              divisor |-> Magnitude(b, op \in SignedOps) * Half,
              quotient |-> 0, q_mask |-> Half, invert |-> Inverts(op, a, b)]
<1>. DEFINE signed == op \in SignedOps
            mag(n) == IF signed /\ Msb(n) = 1 THEN Trunc(-n) ELSE n
<1>1. signed \in BOOLEAN
  OBVIOUS
<1>2. mag(a) = Magnitude(a, signed) /\ mag(b) = Magnitude(b, signed)
  <2>. HIDE DEF signed
  <2>. QED
    BY <1>1, MagnitudeIs
<1>3. DivStart(op, a, b) =
        [dividend |-> mag(a), divisor |-> mag(b) * Half,
         quotient |-> 0, q_mask |-> Half, invert |-> Inverts(op, a, b)]
  BY Zenon DEF DivStart, SignedOps, Half, Inverts
<1>. HIDE DEF mag
<1>. QED
  BY <1>2, <1>3

LEMMA DivStepIs ==
    ASSUME NEW d \in Divider
    PROVE  /\ DivStep(d) \in Divider /\ DivStep(d).invert = d.invert
           /\ DivStep(d).divisor = d.divisor \div 2 /\ DivStep(d).q_mask = d.q_mask \div 2
           /\ d.divisor <= d.dividend => /\ DivStep(d).dividend = d.dividend - d.divisor
                                         /\ DivStep(d).quotient = d.quotient + d.q_mask
           /\ ~(d.divisor <= d.dividend) => /\ DivStep(d).dividend = d.dividend
                                            /\ DivStep(d).quotient = d.quotient
<1>. DEFINE fits == d.divisor <= d.dividend
            rest == IF fits THEN d.dividend - d.divisor ELSE d.dividend
            quot == IF fits THEN d.quotient + d.q_mask ELSE d.quotient
            half == d.divisor \div 2
            next == d.q_mask \div 2
            e == DivStep(d)
<1>1. /\ d.dividend \in Int /\ d.divisor \in Int /\ d.quotient \in Int /\ d.q_mask \in Int
      /\ d.invert \in BOOLEAN
      /\ d = [dividend |-> d.dividend, divisor |-> d.divisor, quotient |-> d.quotient,
              q_mask |-> d.q_mask, invert |-> d.invert]
  BY DEF Divider
<1>2. rest \in Int /\ quot \in Int /\ half \in Int /\ next \in Int
  BY <1>1
<1>3. e = [d EXCEPT !.dividend = rest, !.quotient = quot, !.divisor = half, !.q_mask = next]
  BY DEF DivStep
<1>. HIDE DEF rest, quot, half, next, e
<1>4. e = [dividend |-> rest, divisor |-> half, quotient |-> quot, q_mask |-> next,
           invert |-> d.invert]
  BY <1>1, <1>3
<1>5. /\ e \in Divider /\ e.invert = d.invert /\ e.divisor = half /\ e.q_mask = next
      /\ e.dividend = rest /\ e.quotient = quot
  BY <1>1, <1>2, <1>4 DEF Divider
<1>6. /\ fits => rest = d.dividend - d.divisor /\ quot = d.quotient + d.q_mask
      /\ ~fits => rest = d.dividend /\ quot = d.quotient
  BY DEF rest, quot
<1>. QED
  BY <1>5, <1>6 DEF e, half, next

LEMMA DivStagesExist ==
    ASSUME NEW op \in DivOps, NEW a \in Reg, NEW b \in Reg
    PROVE  \E f : DivStages(f, op, a, b)
<1>. DEFINE start == DivStart(op, a, b)
            step == [n \in 1 .. W |-> [d \in Divider |-> DivStep(d)]]
            Rec(h) == [n \in 0 .. W |-> IF n = 0 THEN start ELSE DivStep(h[n - 1])]
            after == CHOOSE h : h = Rec(h)
<1>1. W \in Nat
  BY WidthAssumption
<1>2. start \in Divider
  <2>. DEFINE x == Magnitude(a, op \in SignedOps)
              y == Magnitude(b, op \in SignedOps)
  <2>1. x \in Int /\ y \in Int /\ Half \in Int
    <3>. DEFINE s == op \in SignedOps
    <3>1. s \in BOOLEAN
      OBVIOUS
    <3>. HIDE DEF s
    <3>2. Magnitude(a, s) \in Nat /\ Magnitude(b, s) \in Nat
      BY <3>1, MagnitudeIs
    <3>. QED
      BY <3>2, WidthSizes DEF s
  <2>2. start = [dividend |-> x, divisor |-> y * Half, quotient |-> 0, q_mask |-> Half,
                 invert |-> Inverts(op, a, b)]
    BY DivStartIs
  <2>3. Inverts(op, a, b) \in BOOLEAN
    BY DEF Inverts
  <2>. HIDE DEF x, y, start
  <2>. DEFINE z == y * Half
  <2>4. z \in Int
    BY <2>1
  <2>. HIDE DEF z
  <2>. QED
    BY <2>1, <2>2, <2>3, <2>4 DEF Divider, z
<1>3. RtlDiv(op, a, b) = DividerOutcome(op, after[W])
  BY Zenon DEF RtlDiv, DividerOutcome
<1>. HIDE DEF start
<1>4. step \in [1 .. W -> [Divider -> Divider]]
  BY DivStepIs
<1>. HIDE DEF step
<1>5. PICK h \in [0 .. W -> Divider] : Iterated(h, W, start, step)
  BY <1>1, <1>2, <1>4, Iterates
<1>6. \A k \in 1 .. W : h[k] = DivStep(h[k - 1])
  <2>. SUFFICES ASSUME NEW k \in 1 .. W PROVE h[k] = DivStep(h[k - 1])
    OBVIOUS
  <2>1. h[k - 1] \in Divider
    BY <1>1
  <2>2. step[k][h[k - 1]] = DivStep(h[k - 1])
    BY <2>1 DEF step
  <2>. QED
    BY <1>5, <2>2 DEF Iterated
<1>7. h = Rec(h)
  <2>1. \A k \in 0 .. W : h[k] = IF k = 0 THEN start ELSE DivStep(h[k - 1])
    BY <1>1, <1>5, <1>6 DEF Iterated
  <2>. QED
    BY <2>1
<1>8. after = Rec(after)
  <2>. HIDE DEF Rec
  <2>. QED
    BY <1>7
<1>9. \A k \in 0 .. W : after[k] = IF k = 0 THEN start ELSE DivStep(after[k - 1])
  <2>. DEFINE r == Rec(after)
  <2>1. \A k \in 0 .. W : r[k] = IF k = 0 THEN start ELSE DivStep(after[k - 1])
    OBVIOUS
  <2>2. after = r
    BY <1>8
  <2>. HIDE DEF r, after
  <2>. QED
    BY <2>1, <2>2
<1>. HIDE DEF after
<1>10. after[0] = start /\ \A n \in 1 .. W : after[n] = DivStep(after[n - 1])
  BY <1>1, <1>9
<1>11. DivStages(after, op, a, b)
  BY <1>3, <1>10 DEF DivStages, start
<1>. QED
  BY <1>11

\* After n steps the quotient and the rest of the dividend x account for it, the rest is
\* below what the remaining steps can take away, and divisor and mask stand one place
\* lower for each step.  A divisor of zero is always taken away: the quotient is all ones
\* so far.
Divided(d, n, x, y, inverts) ==
    /\ d \in Divider /\ d.invert = inverts
    /\ d.dividend \in Nat /\ d.quotient \in Nat
    /\ d.quotient * y + d.dividend = x
    /\ y # 0 => d.dividend < y * 2^(W - n)
    /\ y = 0 => d.quotient = Modulus - 2^(W - n)
    /\ n < W => d.q_mask = 2^(W - 1 - n) /\ d.divisor = y * 2^(W - 1 - n)

LEMMA DividedStep ==
    ASSUME NEW n \in 1 .. W, NEW x \in Nat, NEW y \in Nat, NEW inverts, NEW d,
           Divided(d, n - 1, x, y, inverts)
    PROVE  Divided(DivStep(d), n, x, y, inverts)
<1>. DEFINE m == 2^(W - n)
            e == DivStep(d)
            z == y * m
<1>1. /\ W \in Nat /\ W - n \in Nat /\ n - 1 < W
      /\ W - 1 - (n - 1) = W - n /\ W - (n - 1) = (W - n) + 1
  BY WidthAssumption
<1>2. m \in Nat \ {0} /\ 2^(W - (n - 1)) = 2 * m
  BY <1>1, PowerPositive, PowerStep
<1>3. /\ d \in Divider /\ d.invert = inverts
      /\ d.dividend \in Nat /\ d.quotient \in Nat
      /\ d.quotient * y + d.dividend = x
      /\ y # 0 => d.dividend < y * (2 * m)
      /\ y = 0 => d.quotient = Modulus - 2 * m
      /\ d.q_mask = m /\ d.divisor = z
  BY <1>1, <1>2 DEF Divided
<1>4. /\ e \in Divider /\ e.invert = inverts
      /\ e.divisor = z \div 2 /\ e.q_mask = m \div 2
      /\ z <= d.dividend => /\ e.dividend = d.dividend - z
                            /\ e.quotient = d.quotient + m
      /\ ~(z <= d.dividend) => /\ e.dividend = d.dividend
                               /\ e.quotient = d.quotient
  BY <1>3, DivStepIs
<1>5. n < W => e.q_mask = 2^(W - 1 - n) /\ e.divisor = y * 2^(W - 1 - n)
  <2>. SUFFICES ASSUME n < W PROVE e.q_mask = 2^(W - 1 - n) /\ e.divisor = y * 2^(W - 1 - n)
    OBVIOUS
  <2>. DEFINE j == W - 1 - n
              c == 2^j
  <2>1. j \in Nat /\ W - n = j + 1
    BY <1>1
  <2>. HIDE DEF j
  <2>2. c \in Nat \ {0} /\ m = 2 * c
    BY <2>1, PowerPositive, PowerStep
  <2>. HIDE DEF c
  <2>3. m \div 2 = c
    BY <2>2
  <2>. DEFINE u == y * c
  <2>4. z = 2 * u /\ u \in Int
    BY <2>2
  <2>. HIDE DEF u, z
  <2>5. z \div 2 = u
    BY <2>4
  <2>. QED
    BY <1>4, <2>3, <2>5 DEF c, j, u
<1>. DEFINE r == d.dividend
            q == d.quotient
            k == q * y
<1>6. /\ z \in Nat /\ k \in Nat /\ r \in Nat /\ q \in Nat /\ y * (2 * m) = z + z
      /\ k + r = x /\ (q + m) * y = k + z
  <2>. HIDE DEF r, q, m, e
  <2>1. r \in Nat /\ q \in Nat /\ q * y + r = x
    BY <1>3 DEF r, q
  <2>. QED
    BY <1>2, <2>1
<1>7. y # 0 => r < z + z
  BY <1>3, <1>6
<1>8. y = 0 => q = Modulus - 2 * m /\ z = 0
  BY <1>2, <1>3
<1>9. /\ z <= r => e.dividend = r - z /\ e.quotient = q + m
      /\ ~(z <= r) => e.dividend = r /\ e.quotient = q
  BY <1>4
<1>10. e \in Divider /\ e.invert = inverts
  BY <1>4
<1>. HIDE DEF e, r, q, k, z, m
<1>11. CASE z <= r
  <2>1. e.dividend \in Nat /\ e.quotient \in Nat
    BY <1>2, <1>6, <1>9, <1>11
  <2>2. e.quotient * y + e.dividend = x
    <3>1. e.quotient * y = k + z /\ e.dividend = r - z
      BY <1>6, <1>9, <1>11
    <3>. DEFINE l == e.quotient * y
    <3>. HIDE DEF l
    <3>2. l + e.dividend = x
      BY <1>6, <3>1 DEF l
    <3>. QED
      BY <3>2 DEF l
  <2>3. y # 0 => e.dividend < z
    BY <1>6, <1>7, <1>9, <1>11
  <2>4. y = 0 => e.quotient = Modulus - m
    BY <1>2, <1>8, <1>9, <1>11, WidthSizes
  <2>. QED
    BY <1>5, <1>10, <2>1, <2>2, <2>3, <2>4 DEF Divided, z, m, e
<1>12. CASE ~(z <= r)
  <2>1. e.dividend = r /\ e.quotient = q
    BY <1>9, <1>12
  <2>2. e.quotient * y + e.dividend = x
    BY <1>6, <2>1 DEF k
  <2>3. y # 0 /\ e.dividend < z
    BY <1>6, <1>8, <1>12, <2>1
  <2>4. e.dividend \in Nat /\ e.quotient \in Nat
    BY <1>6, <2>1
  <2>. QED
    BY <1>5, <1>10, <2>2, <2>3, <2>4 DEF Divided, z, m, e
<1>. QED
  BY <1>11, <1>12

\* Quotient and rest, and the result of the divider in terms of them.
Divides(op, a, b, x, y, q, r) ==
    /\ q * y + r = x /\ (y # 0 => r < y) /\ (y = 0 => q = Modulus - 1)
    /\ RtlDiv(op, a, b) =
         LET value == IF op \in {"div", "divu"} THEN q ELSE r
         IN  IF Inverts(op, a, b) THEN Trunc(-value) ELSE value

\* The restoring division divides.
LEMMA DividerDivides ==
    ASSUME NEW op \in DivOps, NEW a \in Reg, NEW b \in Reg,
           NEW x \in Nat, x = Magnitude(a, op \in SignedOps),
           NEW y \in Nat, y = Magnitude(b, op \in SignedOps)
    PROVE  \E q \in Nat, r \in Nat : Divides(op, a, b, x, y, q, r)
<1>. DEFINE v == Inverts(op, a, b)
<1>1. W \in Nat /\ W > 1 /\ W - 1 \in Nat
  BY WidthAssumption
<1>2. PICK f : DivStages(f, op, a, b)
  BY DivStagesExist
<1>. DEFINE Done == {n \in Nat : Divided(f[n], n, x, y, v)}
<1>3. Divided(f[0], 0, x, y, v)
  <2>. DEFINE z == y * Half
              d == f[0]
  <2>1. d = [dividend |-> x, divisor |-> z, quotient |-> 0, q_mask |-> Half, invert |-> v]
    BY <1>2, DivStartIs DEF DivStages
  <2>2. v \in BOOLEAN
    BY DEF Inverts
  <2>3. Half \in Nat /\ Half = 2^(W - 1 - 0) /\ Modulus = 2^(W - 0) /\ Modulus \in Nat
    <3>1. W - 1 - 0 = W - 1 /\ W - 0 = W
      BY <1>1
    <3>. QED
      BY <3>1, WidthSizes DEF Half, Modulus
  <2>. HIDE DEF v, d
  <2>4. z \in Int
    BY <2>3
  <2>5. y # 0 => x < y * Modulus
    <3>1. x \in 0 .. (Modulus - 1)
      <4>. DEFINE s == op \in SignedOps
      <4>1. s \in BOOLEAN
        OBVIOUS
      <4>. HIDE DEF s
      <4>2. Magnitude(a, s) \in Reg
        BY <4>1, MagnitudeIs
      <4>. QED
        BY <4>2, RegIs DEF s
    <3>2. y # 0 => Modulus <= y * Modulus
      BY <2>3
    <3>. DEFINE u == y * Modulus
    <3>3. u \in Int
      BY <2>3
    <3>. HIDE DEF u
    <3>4. y # 0 => x < u
      BY <2>3, <3>1, <3>2, <3>3 DEF u
    <3>. QED
      BY <3>4 DEF u
  <2>. HIDE DEF z
  <2>6. /\ d \in Divider /\ d.invert = v /\ d.dividend = x
        /\ d.quotient = 0 /\ d.q_mask = Half /\ d.divisor = z
    BY <2>1, <2>2, <2>3, <2>4 DEF Divider
  <2>7. d.quotient * y + d.dividend = x
    BY <2>6
  <2>8. y = 0 => d.quotient = Modulus - Modulus
    BY <2>3, <2>6
  <2>. QED
    BY <2>3, <2>5, <2>6, <2>7, <2>8 DEF Divided, d, z
<1>4. 0 \in Done
  BY <1>3
<1>5. ASSUME NEW n \in 1 .. W, n - 1 \in Done PROVE n \in Done
  <2>1. Divided(f[n - 1], n - 1, x, y, v)
    BY <1>5
  <2>2. f[n] = DivStep(f[n - 1])
    BY <1>2 DEF DivStages
  <2>. HIDE DEF v
  <2>3. Divided(f[n], n, x, y, v)
    BY <2>1, <2>2, DividedStep
  <2>. QED
    BY <1>1, <2>3
<1>6. \A n \in 0 .. W : n \in Done
  <2>. HIDE DEF Done
  <2>. QED
    BY <1>1, <1>4, <1>5, InductionTo
<1>7. Divided(f[W], W, x, y, v)
  BY <1>1, <1>6
<1>. DEFINE q == f[W].quotient
            r == f[W].dividend
<1>8. 2^(W - W) = 1
  <2>1. W - W = 0 /\ 2^0 = 1
    BY <1>1
  <2>. QED
    BY <2>1
<1>. HIDE DEF v
<1>9. /\ q \in Nat /\ r \in Nat /\ q * y + r = x
      /\ y # 0 => r < y
      /\ y = 0 => q = Modulus - 1
      /\ f[W].invert = v
  BY <1>7, <1>8 DEF Divided
<1>10. RtlDiv(op, a, b) = LET value == IF op \in {"div", "divu"} THEN q ELSE r
                          IN  IF v THEN Trunc(-value) ELSE value
  BY <1>2, <1>9 DEF DivStages, DividerOutcome
<1>. HIDE DEF q, r
<1>11. Divides(op, a, b, x, y, q, r)
  BY <1>9, <1>10 DEF v, Divides
<1>. QED
  BY <1>9, <1>11

\* The divider and the simulator give the same quotient and the same remainder, by zero
\* and in the overflowing division too.
LEMMA UnsignedDivision ==
    ASSUME NEW op \in {"divu", "remu"}, NEW a \in Reg, NEW b \in Reg
    PROVE  SameDiv(op, a, b)
<1>1. op \in DivOps /\ op \notin SignedOps /\ ~Inverts(op, a, b)
  BY DEF DivOps, SignedOps, Inverts
<1>2. /\ a \in Nat /\ b \in Nat
      /\ a = Magnitude(a, op \in SignedOps) /\ b = Magnitude(b, op \in SignedOps)
  BY <1>1, SignIs, WidthSizes DEF Magnitude
<1>0. PICK q \in Nat, r \in Nat : Divides(op, a, b, a, b, q, r)
  BY <1>1, <1>2, DividerDivides
<1>3. /\ q * b + r = a /\ (b # 0 => r < b) /\ (b = 0 => q = Modulus - 1)
      /\ RtlDiv(op, a, b) =
           LET value == IF op \in {"div", "divu"} THEN q ELSE r
           IN  IF Inverts(op, a, b) THEN Trunc(-value) ELSE value
  BY <1>0 DEF Divides
<1>4. RtlDiv(op, a, b) = IF op = "divu" THEN q ELSE r
  BY <1>1, <1>3
<1>5. CASE b # 0
  <2>1. b \in Nat \ {0} /\ r \in 0 .. (b - 1) /\ a = b * q + r /\ a \in Int /\ q \in Int
    BY <1>2, <1>3, <1>5
  <2>2. a \div b = q /\ a % b = r
    BY <2>1, DivisionUnique
  <2>3. ExecuteDiv(op, a, b) = IF op = "divu" THEN a \div b ELSE a % b
    BY <1>5 DEF ExecuteDiv
  <2>. QED
    BY <1>4, <2>2, <2>3 DEF SameDiv
<1>6. CASE b = 0
  <2>1. ExecuteDiv(op, a, b) = IF op = "divu" THEN Modulus - 1 ELSE a
    BY <1>6 DEF ExecuteDiv, Modulus
  <2>2. q = Modulus - 1 /\ r = a
    BY <1>2, <1>3, <1>6
  <2>. QED
    BY <1>4, <2>1, <2>2 DEF SameDiv
<1>. QED
  BY <1>5, <1>6

\* The overflowing division has the magnitudes of the most negative number and of one.
LEMMA OverflowIs ==
    ASSUME NEW a \in Reg, NEW b \in Reg, Overflows(a, b)
    PROVE  /\ a = Half /\ Size(a) = a /\ Size(b) = 1
           /\ Msb(a) = 1 /\ Msb(b) = 1 /\ b # 0
<1>1. /\ a \in 0 .. (Modulus - 1) /\ b \in 0 .. (Modulus - 1)
      /\ Half \in Nat \ {0} /\ Modulus = 2 * Half
  BY RegIs, WidthSizes
<1>2. Signed(a) = -Half /\ Signed(b) = -1
  BY DEF Overflows, Half
<1>3. /\ a < Half => Msb(a) = 0 /\ Signed(a) = a
      /\ a >= Half => Msb(a) = 1 /\ Signed(a) = a - Modulus
      /\ b < Half => Msb(b) = 0 /\ Signed(b) = b
      /\ b >= Half => Msb(b) = 1 /\ Signed(b) = b - Modulus
  BY SignIs
<1>4. a >= Half /\ b >= Half
  BY <1>1, <1>2, <1>3
<1>5. a = Half /\ b = Modulus - 1 /\ Msb(a) = 1 /\ Msb(b) = 1
  BY <1>1, <1>2, <1>3, <1>4
<1>6. b # 0
  BY <1>1, <1>4
<1>7. Size(a) = Modulus - a /\ Size(b) = Modulus - b
  BY <1>5 DEF Size
<1>. QED
  BY <1>1, <1>5, <1>6, <1>7

LEMMA SignedDivision ==
    ASSUME NEW op \in {"div", "rem"}, NEW a \in Reg, NEW b \in Reg
    PROVE  SameDiv(op, a, b)
<1>. DEFINE x == Size(a)
            y == Size(b)
            c == Signed(a)
            d == Signed(b)
            negA == Msb(a) = 1
            negB == Msb(b) = 1
<1>1. op \in DivOps /\ (op \in SignedOps) = TRUE
  BY DEF DivOps, SignedOps
<1>2. x \in Nat /\ y \in Nat /\ x \in Reg
  <2>1. Magnitude(a, op \in SignedOps) = x /\ Magnitude(b, op \in SignedOps) = y
    BY <1>1 DEF Magnitude
  <2>. DEFINE s == op \in SignedOps
  <2>2. s \in BOOLEAN
    OBVIOUS
  <2>. HIDE DEF s, x, y
  <2>. QED
    BY <2>1, <2>2, MagnitudeIs DEF s
<1>0. PICK q \in Nat, r \in Nat : Divides(op, a, b, x, y, q, r)
  <2>1. x = Magnitude(a, op \in SignedOps) /\ y = Magnitude(b, op \in SignedOps)
    BY <1>1 DEF Magnitude
  <2>. HIDE DEF x, y
  <2>. QED
    BY <1>1, <1>2, <2>1, DividerDivides
<1>3. /\ q * y + r = x /\ (y # 0 => r < y) /\ (y = 0 => q = Modulus - 1)
      /\ RtlDiv(op, a, b) =
           LET value == IF op \in {"div", "divu"} THEN q ELSE r
           IN  IF Inverts(op, a, b) THEN Trunc(-value) ELSE value
  <2>. HIDE DEF x, y
  <2>. QED
    BY <1>0 DEF Divides
<1>4. /\ negA => c < 0 /\ c = -x
      /\ ~negA => c >= 0 /\ c = x
      /\ negB => d < 0 /\ d = -y
      /\ ~negB => d >= 0 /\ d = y
      /\ Abs(c) = x /\ Abs(d) = y
      /\ (y = 0 <=> b = 0)
      /\ Msb(a) = Msb(b) <=> (negA <=> negB)
  <2>1. Msb(a) = Msb(b) <=> (negA <=> negB)
    <3>1. Msb(a) \in {0, 1} /\ Msb(b) \in {0, 1}
      BY MagnitudeIs
    <3>. QED
      BY <3>1
  <2>2. y = 0 <=> b = 0
    <3>1. TRUE \in BOOLEAN /\ Magnitude(b, TRUE) = y
      BY DEF Magnitude
    <3>. HIDE DEF y
    <3>. QED
      BY <3>1, MagnitudeIs
  <2>. QED
    BY <2>1, <2>2, MagnitudeIs
<1>5. \A n \in Int : Trunc(n) = n % Modulus /\ (n \in Reg => Trunc(n) = n)
  BY TruncIs
<1>6. Reg = 0 .. (Modulus - 1) /\ Modulus \in Nat \ {0} /\ Half \in Nat \ {0}
  BY RegIs, WidthSizes
<1>. HIDE DEF x, y, c, d
<1>7. c \in Int /\ d \in Int
  BY <1>2, <1>4
<1>8. q \in Reg /\ r \in Reg
  <2>1. CASE y = 0
    <3>1. r = x
      BY <1>2, <1>3, <2>1
    <3>. QED
      BY <1>2, <1>3, <1>6, <2>1, <3>1
  <2>2. CASE y # 0
    <3>1. q <= q * y
      BY <1>2, <2>2
    <3>. DEFINE z == q * y
    <3>2. z \in Nat /\ q <= z /\ z + r = x
      BY <1>2, <1>3, <3>1
    <3>. HIDE DEF z
    <3>. QED
      BY <1>2, <1>6, <3>2
  <2>. QED
    BY <2>1, <2>2
<1>9. CASE b = 0
  <2>1. ~negB /\ y = 0 /\ q = Modulus - 1 /\ r = x
    <3>1. y = 0 /\ d = 0
      BY <1>2, <1>4, <1>9
    <3>. QED
      BY <1>2, <1>3, <1>4, <3>1
  <2>2. ~Overflows(a, b)
    BY <1>9, OverflowIs
  <2>3. CASE op = "div"
    <3>1. RtlDiv(op, a, b) = q
      BY <1>3, <1>9, <2>3 DEF Inverts
    <3>2. ExecuteDiv(op, a, b) = Modulus - 1
      BY <1>9, <2>2, <2>3 DEF ExecuteDiv, Modulus
    <3>. QED
      BY <2>1, <3>1, <3>2 DEF SameDiv
  <2>4. CASE op = "rem"
    <3>1. RtlDiv(op, a, b) = IF negA THEN Trunc(-r) ELSE r
      BY <1>3, <2>4 DEF Inverts
    <3>2. ExecuteDiv(op, a, b) = a
      BY <1>9, <2>2, <2>4 DEF ExecuteDiv
    <3>3. (IF negA THEN Trunc(-r) ELSE r) = a
      <4>1. CASE negA
        <5>1. Trunc(-r) = c % Modulus
          <6>1. -r = c /\ c \in Int
            BY <1>2, <1>4, <1>7, <2>1, <4>1
          <6>. QED
            BY <1>5, <6>1
        <5>2. c % Modulus = a % Modulus /\ a % Modulus = a
          <6>1. Congruent(c, a, Modulus)
            BY FactorTyped DEF c
          <6>2. a \in Int /\ Trunc(a) = a /\ Trunc(a) = a % Modulus
            BY TruncIs, SignIs
          <6>. QED
            BY <1>6, <1>7, <6>1, <6>2, CongruentMod
        <5>. QED
          BY <4>1, <5>1, <5>2
      <4>2. CASE ~negA
        <5>1. x = a
          BY <4>2 DEF x, Size
        <5>. QED
          BY <2>1, <4>2, <5>1
      <4>. QED
        BY <4>1, <4>2
    <3>. QED
      BY <3>1, <3>2, <3>3 DEF SameDiv
  <2>. QED
    BY <2>3, <2>4
<1>10. CASE b # 0
  <2>1. y \in Nat \ {0} /\ r \in 0 .. (y - 1) /\ x = y * q + r /\ x \in Int
    BY <1>2, <1>3, <1>4, <1>10
  <2>2. x \div y = q /\ x % y = r
    BY <2>1, DivisionUnique
  <2>3. CDiv(c, d) = IF negA <=> negB THEN q ELSE -q
    <3>1. (c < 0) <=> negA
      BY <1>4, <1>7
    <3>2. (d < 0) <=> negB
      BY <1>4, <1>7
    <3>3. CDiv(c, d) = IF (c < 0) = (d < 0) THEN x \div y ELSE -(x \div y)
      BY <1>4, Zenon DEF CDiv
    <3>4. ((c < 0) = (d < 0)) <=> ((c < 0) <=> (d < 0))
      OBVIOUS
    <3>. HIDE DEF negA, negB
    <3>. QED
      BY <2>2, <3>1, <3>2, <3>3, <3>4
  <2>4. CASE op = "div"
    <3>1. RtlDiv(op, a, b) = IF negA <=> negB THEN q ELSE Trunc(-q)
      BY <1>3, <1>4, <1>10, <2>4 DEF Inverts
    <3>2. CASE Overflows(a, b)
      <4>1. a = x /\ y = 1 /\ negA /\ negB
        BY <3>2, OverflowIs DEF x, y
      <4>2. q = x
        BY <1>2, <1>3, <4>1
      <4>3. ExecuteDiv(op, a, b) = a
        BY <2>4, <3>2 DEF ExecuteDiv
      <4>. QED
        BY <3>1, <4>1, <4>2, <4>3 DEF SameDiv
    <3>3. CASE ~Overflows(a, b)
      <4>1. ExecuteDiv(op, a, b) = Trunc(CDiv(c, d))
        BY <1>10, <2>4, <3>3 DEF ExecuteDiv, c, d
      <4>2. Trunc(q) = q
        BY <1>5, <1>8
      <4>. QED
        BY <2>3, <3>1, <4>1, <4>2 DEF SameDiv
    <3>. QED
      BY <3>2, <3>3
  <2>5. CASE op = "rem"
    <3>1. RtlDiv(op, a, b) = IF negA THEN Trunc(-r) ELSE r
      BY <1>3, <2>5 DEF Inverts
    <3>2. CASE Overflows(a, b)
      <4>1. y = 1 /\ negA
        BY <3>2, OverflowIs DEF y
      <4>2. r = 0
        BY <2>1, <4>1
      <4>3. ExecuteDiv(op, a, b) = 0
        BY <2>5, <3>2 DEF ExecuteDiv
      <4>4. Trunc(-r) = 0
        <5>1. -r = 0
          <6>. DEFINE e == -r
          <6>1. e + r = 0 /\ e \in Int
            OBVIOUS
          <6>. HIDE DEF e
          <6>2. e = 0
            BY <4>2, <6>1
          <6>. QED
            BY <6>2 DEF e
        <5>2. 0 \in Int /\ 0 \in Reg
          BY <1>6
        <5>. QED
          BY <1>5, <5>1, <5>2
      <4>. QED
        BY <3>1, <4>1, <4>3, <4>4 DEF SameDiv
    <3>3. CASE ~Overflows(a, b)
      <4>1. ExecuteDiv(op, a, b) = Trunc(c - d * CDiv(c, d))
        BY <1>10, <2>5, <3>3 DEF ExecuteDiv, CRem, c, d
      <4>2. c - d * CDiv(c, d) = IF negA THEN -r ELSE r
        <5>. DEFINE z == y * q
        <5>1. z \in Int /\ x = z + r /\ y * (-q) = -z /\ (-y) * q = -z /\ (-y) * (-q) = z
          BY <2>1
        <5>2. CASE negA /\ negB
          <6>1. c = -x /\ d * CDiv(c, d) = -z
            BY <1>4, <2>3, <5>1, <5>2
          <6>. HIDE DEF z
          <6>. QED
            BY <5>1, <5>2, <6>1
        <5>3. CASE negA /\ ~negB
          <6>1. c = -x /\ d * CDiv(c, d) = -z
            BY <1>4, <2>3, <5>1, <5>3
          <6>. HIDE DEF z
          <6>. QED
            BY <5>1, <5>3, <6>1
        <5>4. CASE ~negA /\ negB
          <6>1. c = x /\ d * CDiv(c, d) = z
            BY <1>4, <2>3, <5>1, <5>4
          <6>. HIDE DEF z
          <6>. QED
            BY <5>1, <5>4, <6>1
        <5>5. CASE ~negA /\ ~negB
          <6>1. c = x /\ d * CDiv(c, d) = z
            BY <1>4, <2>3, <5>1, <5>5
          <6>. HIDE DEF z
          <6>. QED
            BY <5>1, <5>5, <6>1
        <5>. QED
          BY <5>2, <5>3, <5>4, <5>5
      <4>3. Trunc(r) = r
        BY <1>5, <1>8
      <4>. QED
        BY <3>1, <4>1, <4>2, <4>3 DEF SameDiv
    <3>. QED
      BY <3>2, <3>3
  <2>. QED
    BY <2>4, <2>5
<1>. QED
  BY <1>9, <1>10

-----------------------------------------------------------------------------
\* For every width above one and all operands, the processor's arithmetic computes what
\* the C expressions of Riscv::execute compute.
THEOREM SameArithmetic ==
    ASSUME NEW a \in Reg, NEW b \in Reg
    PROVE  /\ \A op \in AluOps : SameAlu(op, a, b)
           /\ \A op \in BranchOps : SameBranch(op, a, b)
           /\ \A op \in MulOps : SameMul(op, a, b)
           /\ \A op \in DivOps : SameDiv(op, a, b)
<1>1. ASSUME NEW op \in DivOps PROVE SameDiv(op, a, b)
  <2>1. op \in {"divu", "remu"} \/ op \in {"div", "rem"}
    BY DEF DivOps
  <2>. QED
    BY <2>1, UnsignedDivision, SignedDivision
<1>. QED
  BY <1>1, AluAgrees, BranchesAgree, ProductsAgree

-----------------------------------------------------------------------------
\* The instructions by major opcode.
ImmNames == {"andi", "addi", "slti", "sltiu", "ori", "xori", "slli", "srli", "srai"}
UpperNames == {"lui", "auipc"}
RegNames == {"add", "sub", "slt", "sltu", "xor", "or", "and", "sll", "srl", "sra"}
JumpNames == {"jal", "jalr"}
BranchNames == {"beq", "bne", "blt", "bge", "bltu", "bgeu"}
LoadNames == {"lb", "lh", "lw", "lbu", "lhu", "lwu"}
StoreNames == {"sb", "sh", "sw"}
FenceNames == {"fence", "ifence"}
CsrInsts == {"csrrw", "csrrs", "csrrc", "csrrwi", "csrrsi", "csrrci"}
PrivilegedNames == {"ecall", "ebreak", "sfence", "mret", "sret"}
MulDivNames == {"mul", "mulh", "mulhsu", "mulhu", "div", "divu", "rem", "remu"}

SystemNames == FenceNames \cup PrivilegedNames \cup CsrInsts \cup {"wfi"}
Names == (ImmNames \cup UpperNames \cup RegNames)
           \cup (JumpNames \cup BranchNames \cup LoadNames \cup StoreNames)
           \cup SystemNames \cup MulDivNames

LEMMA EncodingDomains ==
    /\ DOMAIN AluEncoding = ImmNames \cup UpperNames \cup RegNames
    /\ DOMAIN MemEncoding = JumpNames \cup BranchNames \cup LoadNames \cup StoreNames
    /\ DOMAIN SystemEncoding = SystemNames
    /\ DOMAIN MulDivEncoding = MulDivNames
<1>1. DOMAIN AluEncoding = ImmNames \cup UpperNames \cup RegNames
  BY DEF AluEncoding, ImmNames, UpperNames, RegNames
<1>2. DOMAIN MemEncoding = JumpNames \cup BranchNames \cup LoadNames \cup StoreNames
  BY DEF MemEncoding, JumpNames, BranchNames, LoadNames, StoreNames
<1>3. DOMAIN SystemEncoding = SystemNames
  BY DEF SystemEncoding, SystemNames, FenceNames, PrivilegedNames, CsrInsts
<1>4. DOMAIN MulDivEncoding = MulDivNames
  BY DEF MulDivEncoding, MulDivNames
<1>. QED
  BY <1>1, <1>2, <1>3, <1>4

LEMMA EncodingParts ==
    /\ DOMAIN Encoding = Names
    /\ \A n \in ImmNames \cup UpperNames \cup RegNames : Encoding[n] = AluEncoding[n]
    /\ \A n \in JumpNames \cup BranchNames \cup LoadNames \cup StoreNames :
         Encoding[n] = MemEncoding[n]
    /\ \A n \in SystemNames : Encoding[n] = SystemEncoding[n]
    /\ \A n \in MulDivNames : Encoding[n] = MulDivEncoding[n]
<1>. DEFINE A == ImmNames \cup UpperNames \cup RegNames
            M == JumpNames \cup BranchNames \cup LoadNames \cup StoreNames
<1>1. A \cap M = {} /\ A \cap SystemNames = {} /\ A \cap MulDivNames = {}
  BY DEF ImmNames, UpperNames, RegNames, JumpNames, BranchNames, LoadNames, StoreNames,
         SystemNames, FenceNames, PrivilegedNames, CsrInsts, MulDivNames
<1>2. M \cap SystemNames = {} /\ M \cap MulDivNames = {}
  BY DEF JumpNames, BranchNames, LoadNames, StoreNames,
         SystemNames, FenceNames, PrivilegedNames, CsrInsts, MulDivNames
<1>3. SystemNames \cap MulDivNames = {}
  BY DEF SystemNames, FenceNames, PrivilegedNames, CsrInsts, MulDivNames
<1>. HIDE DEF A, M
<1>4. /\ DOMAIN AluEncoding = A /\ DOMAIN MemEncoding = M
      /\ DOMAIN SystemEncoding = SystemNames /\ DOMAIN MulDivEncoding = MulDivNames
  BY EncodingDomains DEF A, M
<1>5. /\ DOMAIN Encoding = A \cup M \cup SystemNames \cup MulDivNames
      /\ \A n \in A : Encoding[n] = AluEncoding[n]
      /\ \A n \in M : Encoding[n] = MemEncoding[n]
      /\ \A n \in SystemNames : Encoding[n] = SystemEncoding[n]
      /\ \A n \in MulDivNames : Encoding[n] = MulDivEncoding[n]
  BY <1>1, <1>2, <1>3, <1>4 DEF Encoding
<1>. QED
  BY <1>5 DEF Names, A, M

\* What it means to match a pattern of each kind.
LEMMA MatchOp == \A w, o : Match(w, Op(o)) <=> w.op = o
BY DEF Match, Op

LEMMA MatchOpF3 == \A w, o, f : Match(w, OpF3(o, f)) <=> w.op = o /\ w.f3 = f
BY DEF Match, OpF3

LEMMA MatchOpF6 ==
    \A w, o, f, h : Match(w, OpF6(o, f, h)) <=> w.op = o /\ w.f3 = f /\ w.f6 = h
BY DEF Match, OpF6

LEMMA MatchOpF7 ==
    \A w, o, f, h : Match(w, OpF7(o, f, h)) <=>
                      w.op = o /\ w.f3 = f /\ w.f6 = h \div 2 /\ w.b25 = h % 2
BY DEF Match, OpF7

LEMMA MatchWhole ==
    \A w, h, r : Match(w, Whole(h, r)) <=>
                   /\ w.op = 115 /\ w.rd = 0 /\ w.f3 = 0 /\ w.rs1 = 0 /\ w.rs2 = r
                   /\ w.b25 = h % 2 /\ w.f6 = h \div 2
BY DEF Match, Whole

Means(w, n) == n \in Names /\ Match(w, Encoding[n])

LEMMA ImmHits ==
    ASSUME NEW w
    PROVE  /\ Means(w, "addi") <=> w.op = 19 /\ w.f3 = 0
           /\ Means(w, "slti") <=> w.op = 19 /\ w.f3 = 2
           /\ Means(w, "sltiu") <=> w.op = 19 /\ w.f3 = 3
           /\ Means(w, "xori") <=> w.op = 19 /\ w.f3 = 4
           /\ Means(w, "ori") <=> w.op = 19 /\ w.f3 = 6
           /\ Means(w, "andi") <=> w.op = 19 /\ w.f3 = 7
           /\ Means(w, "slli") <=> w.op = 19 /\ w.f3 = 1 /\ w.f6 = 0
           /\ Means(w, "srli") <=> w.op = 19 /\ w.f3 = 5 /\ w.f6 = 0
           /\ Means(w, "srai") <=> w.op = 19 /\ w.f3 = 5 /\ w.f6 = 16
<1>1. ImmNames \subseteq Names
  BY DEF Names
<1>2. \A n \in ImmNames : Means(w, n) <=> Match(w, AluEncoding[n])
  BY <1>1, EncodingParts DEF Means
<1>3. /\ AluEncoding["addi"] = OpF3(19, 0) /\ AluEncoding["slti"] = OpF3(19, 2)
      /\ AluEncoding["sltiu"] = OpF3(19, 3) /\ AluEncoding["xori"] = OpF3(19, 4)
      /\ AluEncoding["ori"] = OpF3(19, 6) /\ AluEncoding["andi"] = OpF3(19, 7)
      /\ AluEncoding["slli"] = OpF6(19, 1, 0) /\ AluEncoding["srli"] = OpF6(19, 5, 0)
      /\ AluEncoding["srai"] = OpF6(19, 5, 16)
  BY DEF AluEncoding
<1>. QED
  BY <1>2, <1>3, MatchOpF3, MatchOpF6 DEF ImmNames

LEMMA UpperHits ==
    ASSUME NEW w
    PROVE  /\ Means(w, "lui") <=> w.op = 55
           /\ Means(w, "auipc") <=> w.op = 23
<1>1. UpperNames \subseteq Names
  BY DEF Names
<1>2. \A n \in UpperNames : Means(w, n) <=> Match(w, AluEncoding[n])
  BY <1>1, EncodingParts DEF Means
<1>3. /\ AluEncoding["lui"] = Op(55)
      /\ AluEncoding["auipc"] = Op(23)
  BY DEF AluEncoding
<1>. QED
  BY <1>2, <1>3, MatchOp DEF UpperNames

LEMMA RegHits ==
    ASSUME NEW w
    PROVE  /\ Means(w, "add") <=> w.op = 51 /\ w.f3 = 0 /\ w.f6 = 0 /\ w.b25 = 0
           /\ Means(w, "sub") <=> w.op = 51 /\ w.f3 = 0 /\ w.f6 = 16 /\ w.b25 = 0
           /\ Means(w, "slt") <=> w.op = 51 /\ w.f3 = 2 /\ w.f6 = 0 /\ w.b25 = 0
           /\ Means(w, "sltu") <=> w.op = 51 /\ w.f3 = 3 /\ w.f6 = 0 /\ w.b25 = 0
           /\ Means(w, "xor") <=> w.op = 51 /\ w.f3 = 4 /\ w.f6 = 0 /\ w.b25 = 0
           /\ Means(w, "or") <=> w.op = 51 /\ w.f3 = 6 /\ w.f6 = 0 /\ w.b25 = 0
           /\ Means(w, "and") <=> w.op = 51 /\ w.f3 = 7 /\ w.f6 = 0 /\ w.b25 = 0
           /\ Means(w, "sll") <=> w.op = 51 /\ w.f3 = 1 /\ w.f6 = 0 /\ w.b25 = 0
           /\ Means(w, "srl") <=> w.op = 51 /\ w.f3 = 5 /\ w.f6 = 0 /\ w.b25 = 0
           /\ Means(w, "sra") <=> w.op = 51 /\ w.f3 = 5 /\ w.f6 = 16 /\ w.b25 = 0
<1>1. RegNames \subseteq Names
  BY DEF Names
<1>2. \A n \in RegNames : Means(w, n) <=> Match(w, AluEncoding[n])
  BY <1>1, EncodingParts DEF Means
<1>3. /\ AluEncoding["add"] = OpF7(51, 0, 0)
      /\ AluEncoding["sub"] = OpF7(51, 0, 32)
      /\ AluEncoding["slt"] = OpF7(51, 2, 0)
      /\ AluEncoding["sltu"] = OpF7(51, 3, 0)
      /\ AluEncoding["xor"] = OpF7(51, 4, 0)
      /\ AluEncoding["or"] = OpF7(51, 6, 0)
      /\ AluEncoding["and"] = OpF7(51, 7, 0)
      /\ AluEncoding["sll"] = OpF7(51, 1, 0)
      /\ AluEncoding["srl"] = OpF7(51, 5, 0)
      /\ AluEncoding["sra"] = OpF7(51, 5, 32)
  BY DEF AluEncoding
<1>. QED
  BY <1>2, <1>3, MatchOpF7 DEF RegNames

LEMMA JumpHits ==
    ASSUME NEW w
    PROVE  /\ Means(w, "jal") <=> w.op = 111
           /\ Means(w, "jalr") <=> w.op = 103 /\ w.f3 = 0
<1>1. JumpNames \subseteq Names
  BY DEF Names
<1>2. \A n \in JumpNames : Means(w, n) <=> Match(w, MemEncoding[n])
  BY <1>1, EncodingParts DEF Means
<1>3. /\ MemEncoding["jal"] = Op(111)
      /\ MemEncoding["jalr"] = OpF3(103, 0)
  BY DEF MemEncoding
<1>. QED
  BY <1>2, <1>3, MatchOp, MatchOpF3 DEF JumpNames

LEMMA BranchHits ==
    ASSUME NEW w
    PROVE  /\ Means(w, "beq") <=> w.op = 99 /\ w.f3 = 0
           /\ Means(w, "bne") <=> w.op = 99 /\ w.f3 = 1
           /\ Means(w, "blt") <=> w.op = 99 /\ w.f3 = 4
           /\ Means(w, "bge") <=> w.op = 99 /\ w.f3 = 5
           /\ Means(w, "bltu") <=> w.op = 99 /\ w.f3 = 6
           /\ Means(w, "bgeu") <=> w.op = 99 /\ w.f3 = 7
<1>1. BranchNames \subseteq Names
  BY DEF Names
<1>2. \A n \in BranchNames : Means(w, n) <=> Match(w, MemEncoding[n])
  BY <1>1, EncodingParts DEF Means
<1>3. /\ MemEncoding["beq"] = OpF3(99, 0)
      /\ MemEncoding["bne"] = OpF3(99, 1)
      /\ MemEncoding["blt"] = OpF3(99, 4)
      /\ MemEncoding["bge"] = OpF3(99, 5)
      /\ MemEncoding["bltu"] = OpF3(99, 6)
      /\ MemEncoding["bgeu"] = OpF3(99, 7)
  BY DEF MemEncoding
<1>. QED
  BY <1>2, <1>3, MatchOpF3 DEF BranchNames

LEMMA LoadHits ==
    ASSUME NEW w
    PROVE  /\ Means(w, "lb") <=> w.op = 3 /\ w.f3 = 0
           /\ Means(w, "lh") <=> w.op = 3 /\ w.f3 = 1
           /\ Means(w, "lw") <=> w.op = 3 /\ w.f3 = 2
           /\ Means(w, "lbu") <=> w.op = 3 /\ w.f3 = 4
           /\ Means(w, "lhu") <=> w.op = 3 /\ w.f3 = 5
           /\ Means(w, "lwu") <=> w.op = 3 /\ w.f3 = 6
<1>1. LoadNames \subseteq Names
  BY DEF Names
<1>2. \A n \in LoadNames : Means(w, n) <=> Match(w, MemEncoding[n])
  BY <1>1, EncodingParts DEF Means
<1>3. /\ MemEncoding["lb"] = OpF3(3, 0)
      /\ MemEncoding["lh"] = OpF3(3, 1)
      /\ MemEncoding["lw"] = OpF3(3, 2)
      /\ MemEncoding["lbu"] = OpF3(3, 4)
      /\ MemEncoding["lhu"] = OpF3(3, 5)
      /\ MemEncoding["lwu"] = OpF3(3, 6)
  BY DEF MemEncoding
<1>. QED
  BY <1>2, <1>3, MatchOpF3 DEF LoadNames

LEMMA StoreHits ==
    ASSUME NEW w
    PROVE  /\ Means(w, "sb") <=> w.op = 35 /\ w.f3 = 0
           /\ Means(w, "sh") <=> w.op = 35 /\ w.f3 = 1
           /\ Means(w, "sw") <=> w.op = 35 /\ w.f3 = 2
<1>1. StoreNames \subseteq Names
  BY DEF Names
<1>2. \A n \in StoreNames : Means(w, n) <=> Match(w, MemEncoding[n])
  BY <1>1, EncodingParts DEF Means
<1>3. /\ MemEncoding["sb"] = OpF3(35, 0)
      /\ MemEncoding["sh"] = OpF3(35, 1)
      /\ MemEncoding["sw"] = OpF3(35, 2)
  BY DEF MemEncoding
<1>. QED
  BY <1>2, <1>3, MatchOpF3 DEF StoreNames

LEMMA FenceHits ==
    ASSUME NEW w
    PROVE  /\ Means(w, "fence") <=> w.op = 15 /\ w.f3 = 0
           /\ Means(w, "ifence") <=> w.op = 15 /\ w.f3 = 1
<1>1. FenceNames \subseteq Names
  BY DEF Names, SystemNames
<1>2. \A n \in FenceNames : Means(w, n) <=> Match(w, SystemEncoding[n])
  BY <1>1, EncodingParts DEF Means, SystemNames
<1>3. /\ SystemEncoding["fence"] = OpF3(15, 0)
      /\ SystemEncoding["ifence"] = OpF3(15, 1)
  BY DEF SystemEncoding
<1>. QED
  BY <1>2, <1>3, MatchOpF3 DEF FenceNames

LEMMA CsrHits ==
    ASSUME NEW w
    PROVE  /\ Means(w, "csrrw") <=> w.op = 115 /\ w.f3 = 1
           /\ Means(w, "csrrs") <=> w.op = 115 /\ w.f3 = 2
           /\ Means(w, "csrrc") <=> w.op = 115 /\ w.f3 = 3
           /\ Means(w, "csrrwi") <=> w.op = 115 /\ w.f3 = 5
           /\ Means(w, "csrrsi") <=> w.op = 115 /\ w.f3 = 6
           /\ Means(w, "csrrci") <=> w.op = 115 /\ w.f3 = 7
<1>1. CsrInsts \subseteq Names
  BY DEF Names, SystemNames
<1>2. \A n \in CsrInsts : Means(w, n) <=> Match(w, SystemEncoding[n])
  BY <1>1, EncodingParts DEF Means, SystemNames
<1>3. /\ SystemEncoding["csrrw"] = OpF3(115, 1)
      /\ SystemEncoding["csrrs"] = OpF3(115, 2)
      /\ SystemEncoding["csrrc"] = OpF3(115, 3)
      /\ SystemEncoding["csrrwi"] = OpF3(115, 5)
      /\ SystemEncoding["csrrsi"] = OpF3(115, 6)
      /\ SystemEncoding["csrrci"] = OpF3(115, 7)
  BY DEF SystemEncoding
<1>. QED
  BY <1>2, <1>3, MatchOpF3 DEF CsrInsts

LEMMA PrivilegedHits ==
    ASSUME NEW w
    PROVE  /\ Means(w, "ecall") <=> /\ w.op = 115 /\ w.rd = 0 /\ w.f3 = 0 /\ w.rs1 = 0
                                   /\ w.rs2 = 0 /\ w.b25 = 0 /\ w.f6 = 0
           /\ Means(w, "ebreak") <=> /\ w.op = 115 /\ w.rd = 0 /\ w.f3 = 0 /\ w.rs1 = 0
                                    /\ w.rs2 = 1 /\ w.b25 = 0 /\ w.f6 = 0
           /\ Means(w, "mret") <=> /\ w.op = 115 /\ w.rd = 0 /\ w.f3 = 0 /\ w.rs1 = 0
                                  /\ w.rs2 = 2 /\ w.b25 = 0 /\ w.f6 = 12
           /\ Means(w, "sret") <=> /\ w.op = 115 /\ w.rd = 0 /\ w.f3 = 0 /\ w.rs1 = 0
                                  /\ w.rs2 = 2 /\ w.b25 = 0 /\ w.f6 = 4
           /\ Means(w, "sfence") <=> /\ w.op = 115 /\ w.rd = 0 /\ w.f3 = 0
                                    /\ w.b25 = 1 /\ w.f6 = 4
<1>1. PrivilegedNames \subseteq Names
  BY DEF Names, SystemNames
<1>2. \A n \in PrivilegedNames : Means(w, n) <=> Match(w, SystemEncoding[n])
  BY <1>1, EncodingParts DEF Means, SystemNames
<1>3. /\ SystemEncoding["ecall"] = Whole(0, 0)
      /\ SystemEncoding["ebreak"] = Whole(0, 1)
      /\ SystemEncoding["mret"] = Whole(24, 2)
      /\ SystemEncoding["sret"] = Whole(8, 2)
      /\ SystemEncoding["sfence"] = [op |-> 115, rd |-> 0, f3 |-> 0, b25 |-> 1, f6 |-> 4]
  BY DEF SystemEncoding
<1>4. Match(w, [op |-> 115, rd |-> 0, f3 |-> 0, b25 |-> 1, f6 |-> 4])
        <=> w.op = 115 /\ w.rd = 0 /\ w.f3 = 0 /\ w.b25 = 1 /\ w.f6 = 4
  BY DEF Match
<1>. QED
  BY <1>2, <1>3, MatchWhole, <1>4 DEF PrivilegedNames

LEMMA WfiHits ==
    ASSUME NEW w
    PROVE  Means(w, "wfi") <=> /\ w.op = 115 /\ w.rd = 0 /\ w.rs1 = 0 /\ w.rs2 = 5
                              /\ w.b25 = 0 /\ w.f6 = 4
<1>. DEFINE e == [op |-> 115, rd |-> 0, rs1 |-> 0, rs2 |-> 5, b25 |-> 0, f6 |-> 4]
<1>1. "wfi" \in SystemNames /\ "wfi" \in Names
  BY DEF Names, SystemNames
<1>2. Means(w, "wfi") <=> Match(w, SystemEncoding["wfi"])
  BY <1>1, EncodingParts DEF Means
<1>3. SystemEncoding["wfi"] = e
  BY DEF SystemEncoding
<1>4. Match(w, e) <=> /\ w.op = 115 /\ w.rd = 0 /\ w.rs1 = 0 /\ w.rs2 = 5
                      /\ w.b25 = 0 /\ w.f6 = 4
  BY DEF Match
<1>. HIDE DEF e
<1>. QED
  BY <1>2, <1>3, <1>4

LEMMA MulDivHits ==
    ASSUME NEW w
    PROVE  /\ Means(w, "mul") <=> w.op = 51 /\ w.f3 = 0 /\ w.f6 = 0 /\ w.b25 = 1
           /\ Means(w, "mulh") <=> w.op = 51 /\ w.f3 = 1 /\ w.f6 = 0 /\ w.b25 = 1
           /\ Means(w, "mulhsu") <=> w.op = 51 /\ w.f3 = 2 /\ w.f6 = 0 /\ w.b25 = 1
           /\ Means(w, "mulhu") <=> w.op = 51 /\ w.f3 = 3 /\ w.f6 = 0 /\ w.b25 = 1
           /\ Means(w, "div") <=> w.op = 51 /\ w.f3 = 4 /\ w.f6 = 0 /\ w.b25 = 1
           /\ Means(w, "divu") <=> w.op = 51 /\ w.f3 = 5 /\ w.f6 = 0 /\ w.b25 = 1
           /\ Means(w, "rem") <=> w.op = 51 /\ w.f3 = 6 /\ w.f6 = 0 /\ w.b25 = 1
           /\ Means(w, "remu") <=> w.op = 51 /\ w.f3 = 7 /\ w.f6 = 0 /\ w.b25 = 1
<1>1. MulDivNames \subseteq Names
  BY DEF Names
<1>2. \A n \in MulDivNames : Means(w, n) <=> Match(w, MulDivEncoding[n])
  BY <1>1, EncodingParts DEF Means
<1>3. /\ MulDivEncoding["mul"] = OpF7(51, 0, 1)
      /\ MulDivEncoding["mulh"] = OpF7(51, 1, 1)
      /\ MulDivEncoding["mulhsu"] = OpF7(51, 2, 1)
      /\ MulDivEncoding["mulhu"] = OpF7(51, 3, 1)
      /\ MulDivEncoding["div"] = OpF7(51, 4, 1)
      /\ MulDivEncoding["divu"] = OpF7(51, 5, 1)
      /\ MulDivEncoding["rem"] = OpF7(51, 6, 1)
      /\ MulDivEncoding["remu"] = OpF7(51, 7, 1)
  BY DEF MulDivEncoding
<1>. QED
  BY <1>2, <1>3, MatchOpF7 DEF MulDivNames

\* The major opcode leaves few instructions.
ByOpcode(w, n) ==
    \/ w.op = 19 /\ n \in ImmNames
    \/ w.op = 55 /\ n = "lui"
    \/ w.op = 23 /\ n = "auipc"
    \/ w.op = 51 /\ n \in RegNames \cup MulDivNames
    \/ w.op = 111 /\ n = "jal"
    \/ w.op = 103 /\ n = "jalr"
    \/ w.op = 99 /\ n \in BranchNames
    \/ w.op = 3 /\ n \in LoadNames
    \/ w.op = 35 /\ n \in StoreNames
    \/ w.op = 15 /\ n \in FenceNames
    \/ w.op = 115 /\ n \in PrivilegedNames \cup CsrInsts \cup {"wfi"}

LEMMA HitsByOpcode ==
    ASSUME NEW w, NEW n, Means(w, n)
    PROVE  ByOpcode(w, n)
<1>1. CASE n \in ImmNames
  <2>1. w.op = 19
    BY <1>1, ImmHits DEF ImmNames
  <2>. QED
    BY <1>1, <2>1 DEF ByOpcode
<1>2. CASE n \in UpperNames
  <2>1. (n = "lui" /\ w.op = 55) \/ (n = "auipc" /\ w.op = 23)
    BY <1>2, UpperHits DEF UpperNames
  <2>. QED
    BY <2>1 DEF ByOpcode
<1>3. CASE n \in RegNames
  <2>1. w.op = 51
    BY <1>3, RegHits DEF RegNames
  <2>. QED
    BY <1>3, <2>1 DEF ByOpcode
<1>4. CASE n \in JumpNames
  <2>1. (n = "jal" /\ w.op = 111) \/ (n = "jalr" /\ w.op = 103)
    BY <1>4, JumpHits DEF JumpNames
  <2>. QED
    BY <2>1 DEF ByOpcode
<1>5. CASE n \in BranchNames
  <2>1. w.op = 99
    BY <1>5, BranchHits DEF BranchNames
  <2>. QED
    BY <1>5, <2>1 DEF ByOpcode
<1>6. CASE n \in LoadNames
  <2>1. w.op = 3
    BY <1>6, LoadHits DEF LoadNames
  <2>. QED
    BY <1>6, <2>1 DEF ByOpcode
<1>7. CASE n \in StoreNames
  <2>1. w.op = 35
    BY <1>7, StoreHits DEF StoreNames
  <2>. QED
    BY <1>7, <2>1 DEF ByOpcode
<1>8. CASE n \in FenceNames
  <2>1. w.op = 15
    BY <1>8, FenceHits DEF FenceNames
  <2>. QED
    BY <1>8, <2>1 DEF ByOpcode
<1>9. CASE n \in PrivilegedNames
  <2>1. w.op = 115
    BY <1>9, PrivilegedHits DEF PrivilegedNames
  <2>. QED
    BY <1>9, <2>1 DEF ByOpcode
<1>10. CASE n \in CsrInsts
  <2>1. w.op = 115
    BY <1>10, CsrHits DEF CsrInsts
  <2>. QED
    BY <1>10, <2>1 DEF ByOpcode
<1>11. CASE n = "wfi"
  <2>1. w.op = 115
    BY <1>11, WfiHits
  <2>. QED
    BY <1>11, <2>1 DEF ByOpcode
<1>12. CASE n \in MulDivNames
  <2>1. w.op = 51
    BY <1>12, MulDivHits DEF MulDivNames
  <2>. QED
    BY <1>12, <2>1 DEF ByOpcode
<1>. QED
  BY <1>1, <1>2, <1>3, <1>4, <1>5, <1>6, <1>7, <1>8, <1>9, <1>10, <1>11, <1>12
     DEF Means, Names, SystemNames

\* Instructions of one major opcode differ in a field that both test.
LEMMA ApartByFields ==
    ASSUME NEW w, NEW m, NEW n, Means(w, m), Means(w, n)
    PROVE  /\ m \in ImmNames /\ n \in ImmNames => m = n
           /\ m \in RegNames /\ n \in RegNames => m = n
           /\ m \in MulDivNames /\ n \in MulDivNames => m = n
           /\ ~(m \in RegNames /\ n \in MulDivNames)
           /\ m \in BranchNames /\ n \in BranchNames => m = n
           /\ m \in LoadNames /\ n \in LoadNames => m = n
           /\ m \in StoreNames /\ n \in StoreNames => m = n
           /\ m \in FenceNames /\ n \in FenceNames => m = n
           /\ m \in CsrInsts /\ n \in CsrInsts => m = n
           /\ m \in PrivilegedNames /\ n \in PrivilegedNames => m = n
           /\ ~(m \in PrivilegedNames /\ n \in CsrInsts)
           /\ ~(m \in PrivilegedNames /\ n = "wfi")
<1>1. m \in ImmNames /\ n \in ImmNames => m = n
  BY ImmHits DEF ImmNames
<1>2. m \in RegNames /\ n \in RegNames => m = n
  BY RegHits DEF RegNames
<1>3. m \in MulDivNames /\ n \in MulDivNames => m = n
  BY MulDivHits DEF MulDivNames
<1>4. ~(m \in RegNames /\ n \in MulDivNames)
  <2>1. m \in RegNames => w.b25 = 0
    BY RegHits DEF RegNames
  <2>2. n \in MulDivNames => w.b25 = 1
    BY MulDivHits DEF MulDivNames
  <2>. QED
    BY <2>1, <2>2
<1>5. m \in BranchNames /\ n \in BranchNames => m = n
  BY BranchHits DEF BranchNames
<1>6. m \in LoadNames /\ n \in LoadNames => m = n
  BY LoadHits DEF LoadNames
<1>7. m \in StoreNames /\ n \in StoreNames => m = n
  BY StoreHits DEF StoreNames
<1>8. m \in FenceNames /\ n \in FenceNames => m = n
  BY FenceHits DEF FenceNames
<1>9. m \in CsrInsts /\ n \in CsrInsts => m = n
  BY CsrHits DEF CsrInsts
<1>10. m \in PrivilegedNames /\ n \in PrivilegedNames => m = n
  BY PrivilegedHits DEF PrivilegedNames
<1>11. ~(m \in PrivilegedNames /\ n \in CsrInsts)
  <2>1. m \in PrivilegedNames => w.f3 = 0
    BY PrivilegedHits DEF PrivilegedNames
  <2>2. n \in CsrInsts => w.f3 \in {1, 2, 3, 5, 6, 7}
    BY CsrHits DEF CsrInsts
  <2>. QED
    BY <2>1, <2>2
<1>12. ~(m \in PrivilegedNames /\ n = "wfi")
  BY PrivilegedHits, WfiHits DEF PrivilegedNames
<1>. QED
  BY <1>1, <1>2, <1>3, <1>4, <1>5, <1>6, <1>7, <1>8, <1>9, <1>10, <1>11, <1>12

\* Only a CSR instruction and wfi can be meant by the same opcode.
LEMMA Unambiguous ==
    ASSUME NEW w, NEW m, NEW n, Means(w, m), Means(w, n), m # n
    PROVE  \/ m \in CsrInsts /\ n = "wfi"
           \/ n \in CsrInsts /\ m = "wfi"
<1>1. ByOpcode(w, m) /\ ByOpcode(w, n)
  BY HitsByOpcode
<1>2. CASE w.op = 51
  <2>1. m \in RegNames \cup MulDivNames /\ n \in RegNames \cup MulDivNames
    BY <1>1, <1>2 DEF ByOpcode
  <2>. QED
    BY <2>1, ApartByFields
<1>3. CASE w.op = 115
  <2>1. /\ m \in PrivilegedNames \cup CsrInsts \cup {"wfi"}
        /\ n \in PrivilegedNames \cup CsrInsts \cup {"wfi"}
    BY <1>1, <1>3 DEF ByOpcode
  <2>. QED
    BY <2>1, ApartByFields
<1>4. CASE w.op \in {55, 23, 111, 103}
  BY <1>1, <1>4 DEF ByOpcode
<1>5. CASE w.op \in {19, 99, 3, 35, 15}
  <2>1. \/ m \in ImmNames /\ n \in ImmNames
        \/ m \in BranchNames /\ n \in BranchNames
        \/ m \in LoadNames /\ n \in LoadNames
        \/ m \in StoreNames /\ n \in StoreNames
        \/ m \in FenceNames /\ n \in FenceNames
    BY <1>1, <1>5 DEF ByOpcode
  <2>. QED
    BY <2>1, ApartByFields
<1>6. w.op \in {51, 115} \cup {55, 23, 111, 103} \cup {19, 99, 3, 35, 15}
  BY <1>1 DEF ByOpcode
<1>. QED
  BY <1>2, <1>3, <1>4, <1>5, <1>6

-----------------------------------------------------------------------------
\* A chain of tests that tries every instruction, wfi last.
Chain == ExecuteAlu \o ExecuteJumps \o ExecuteMem \o ExecuteMulDiv \o ExecuteSystem
DumpChain == DumpImm \o DumpReg \o DumpJumps \o DumpMem \o DumpMulDiv \o DumpSystem

Covers(s, S) == s \in Seq(S) /\ \A n \in S : \E i \in 1 .. Len(s) : s[i] = n

LEMMA CoversBoth ==
    ASSUME NEW s, NEW S, NEW t, NEW T, Covers(s, S), Covers(t, T)
    PROVE  Covers(s \o t, S \cup T)
<1>1. s \in Seq(S) /\ t \in Seq(T) /\ Len(s) \in Nat /\ Len(t) \in Nat
  BY DEF Covers
<1>2. s \in Seq(S \cup T) /\ t \in Seq(S \cup T)
  BY <1>1
<1>3. /\ s \o t \in Seq(S \cup T) /\ Len(s \o t) = Len(s) + Len(t)
      /\ \A i \in 1 .. Len(s) : (s \o t)[i] = s[i]
  BY <1>2
<1>4. \A i \in 1 .. Len(t) : (s \o t)[Len(s) + i] = t[i]
  BY <1>2
<1>5. ASSUME NEW n \in S PROVE \E i \in 1 .. Len(s \o t) : (s \o t)[i] = n
  <2>1. PICK i \in 1 .. Len(s) : s[i] = n
    BY DEF Covers
  <2>2. i \in 1 .. Len(s) + Len(t)
    BY <1>1
  <2>. QED
    BY <1>3, <2>1, <2>2
<1>6. ASSUME NEW n \in T PROVE \E i \in 1 .. Len(s \o t) : (s \o t)[i] = n
  <2>1. PICK i \in 1 .. Len(t) : t[i] = n
    BY DEF Covers
  <2>2. Len(s) + i \in 1 .. Len(s) + Len(t)
    BY <1>1
  <2>. QED
    BY <1>3, <1>4, <2>1, <2>2
<1>. QED
  BY <1>3, <1>5, <1>6 DEF Covers

LEMMA PartsCovered ==
    /\ Covers(ExecuteAlu, ImmNames \cup UpperNames \cup RegNames)
    /\ Covers(DumpImm, ImmNames \cup UpperNames) /\ Covers(DumpReg, RegNames)
    /\ Covers(ExecuteJumps, JumpNames \cup BranchNames)
    /\ Covers(DumpJumps, JumpNames \cup BranchNames)
    /\ Covers(ExecuteMem, LoadNames \cup StoreNames) /\ Covers(DumpMem, LoadNames \cup StoreNames)
    /\ Covers(ExecuteMulDiv, MulDivNames) /\ Covers(DumpMulDiv, MulDivNames)
    /\ Covers(ExecuteSystem, SystemNames) /\ Covers(DumpSystem, SystemNames)
<1>1. Covers(ExecuteAlu, ImmNames \cup UpperNames \cup RegNames)
  BY DEF ExecuteAlu, ImmNames, UpperNames, RegNames, Covers
<1>2. Covers(DumpImm, ImmNames \cup UpperNames)
  BY DEF DumpImm, ImmNames, UpperNames, Covers
<1>3. Covers(DumpReg, RegNames)
  BY DEF DumpReg, RegNames, Covers
<1>4. Covers(ExecuteJumps, JumpNames \cup BranchNames) /\ DumpJumps = ExecuteJumps
  BY DEF ExecuteJumps, DumpJumps, JumpNames, BranchNames, Covers
<1>5. Covers(ExecuteMem, LoadNames \cup StoreNames) /\ DumpMem = ExecuteMem
  BY DEF ExecuteMem, DumpMem, LoadNames, StoreNames, Covers
<1>6. Covers(ExecuteMulDiv, MulDivNames) /\ DumpMulDiv = ExecuteMulDiv
  BY DEF ExecuteMulDiv, DumpMulDiv, MulDivNames, Covers
<1>7. Covers(ExecuteSystem, SystemNames) /\ DumpSystem = ExecuteSystem
  BY DEF ExecuteSystem, DumpSystem, SystemNames, FenceNames, PrivilegedNames, CsrInsts, Covers
<1>. QED
  BY <1>1, <1>2, <1>3, <1>4, <1>5, <1>6, <1>7

\* c tries every name, and wfi after all others.
WfiLast(c) == c[Len(c)] = "wfi" /\ \A i \in 1 .. (Len(c) - 1) : c[i] # "wfi"

LEMMA WfiStaysLast ==
    ASSUME NEW s, NEW S, NEW T, Covers(s, S), "wfi" \notin S,
           NEW t, Covers(t, T), WfiLast(t), Len(t) > 0
    PROVE  WfiLast(s \o t) /\ Len(s \o t) > 0
<1>1. s \in Seq(S) /\ t \in Seq(T) /\ Len(s) \in Nat /\ Len(t) \in Nat \ {0}
  BY DEF Covers
<1>2. s \in Seq(S \cup T) /\ t \in Seq(S \cup T)
  BY <1>1
<1>3. /\ Len(s \o t) = Len(s) + Len(t)
      /\ \A i \in 1 .. Len(s) : (s \o t)[i] = s[i]
      /\ \A i \in 1 .. Len(t) : (s \o t)[Len(s) + i] = t[i]
  BY <1>2
<1>4. (s \o t)[Len(s \o t)] = "wfi"
  BY <1>1, <1>3 DEF WfiLast
<1>5. ASSUME NEW i \in 1 .. (Len(s \o t) - 1) PROVE (s \o t)[i] # "wfi"
  <2>1. CASE i <= Len(s)
    <3>1. i \in 1 .. Len(s)
      BY <1>1, <1>3, <2>1
    <3>2. s[i] \in S
      BY <1>1, <3>1
    <3>. QED
      BY <1>3, <3>1, <3>2
  <2>2. CASE ~(i <= Len(s))
    <3>. DEFINE j == i - Len(s)
    <3>1. j \in 1 .. (Len(t) - 1) /\ i = Len(s) + j
      BY <1>1, <1>3, <2>2
    <3>. HIDE DEF j
    <3>. QED
      BY <1>1, <1>3, <3>1 DEF WfiLast
  <2>. QED
    BY <2>1, <2>2
<1>. QED
  BY <1>1, <1>3, <1>4, <1>5 DEF WfiLast

LEMMA ChainsCover ==
    /\ Covers(Chain, Names) /\ WfiLast(Chain) /\ Len(Chain) > 0
    /\ Covers(DumpChain, Names) /\ WfiLast(DumpChain) /\ Len(DumpChain) > 0
<1>. DEFINE A == ImmNames \cup UpperNames
            J == JumpNames \cup BranchNames
            M == LoadNames \cup StoreNames
            s == ExecuteAlu \o ExecuteJumps \o ExecuteMem \o ExecuteMulDiv
            t == DumpImm \o DumpReg \o DumpJumps \o DumpMem \o DumpMulDiv
            S == A \cup RegNames \cup J \cup M \cup MulDivNames
<1>1. /\ Covers(ExecuteAlu, A \cup RegNames) /\ Covers(DumpImm, A) /\ Covers(DumpReg, RegNames)
      /\ Covers(ExecuteJumps, J) /\ Covers(DumpJumps, J)
      /\ Covers(ExecuteMem, M) /\ Covers(DumpMem, M)
      /\ Covers(ExecuteMulDiv, MulDivNames) /\ Covers(DumpMulDiv, MulDivNames)
      /\ Covers(ExecuteSystem, SystemNames) /\ Covers(DumpSystem, SystemNames)
  BY PartsCovered
<1>2. "wfi" \notin S
  BY DEF ImmNames, UpperNames, RegNames, JumpNames, BranchNames, LoadNames, StoreNames, MulDivNames
<1>3. S \cup SystemNames = Names
  BY DEF Names
<1>4. WfiLast(ExecuteSystem) /\ Len(ExecuteSystem) > 0
  BY DEF ExecuteSystem, WfiLast
<1>5. WfiLast(DumpSystem) /\ Len(DumpSystem) > 0
  BY DEF DumpSystem, WfiLast
<1>6. Chain = s \o ExecuteSystem /\ DumpChain = t \o DumpSystem
  BY DEF Chain, DumpChain
<1>. HIDE DEF A, J, M
<1>7. Covers(s, S)
  BY <1>1, CoversBoth
<1>8. Covers(t, S)
  BY <1>1, CoversBoth
<1>. HIDE DEF s, t, S
<1>9. Covers(Chain, Names) /\ Covers(DumpChain, Names)
  BY <1>1, <1>3, <1>6, <1>7, <1>8, CoversBoth
<1>10. WfiLast(Chain) /\ Len(Chain) > 0
  BY <1>1, <1>2, <1>4, <1>6, <1>7, WfiStaysLast
<1>11. WfiLast(DumpChain) /\ Len(DumpChain) > 0
  BY <1>1, <1>2, <1>5, <1>6, <1>8, WfiStaysLast
<1>. QED
  BY <1>9, <1>10, <1>11

-----------------------------------------------------------------------------
\* What a chain makes of an opcode: an instruction it hits, wfi only if no other is hit.
NameIs(w, n) ==
    /\ n # "invalid" => Means(w, n)
    /\ \A m : Means(w, m) => n # "invalid"
    /\ n = "wfi" => \A m : Means(w, m) => m = "wfi"

LEMMA FirstMatchIs ==
    ASSUME NEW w, NEW c, Covers(c, Names), WfiLast(c), Len(c) > 0
    PROVE  NameIs(w, FirstMatch(w, c))
<1>. DEFINE hits == {i \in DOMAIN c : Match(w, Encoding[c[i]])}
            first == CHOOSE i \in hits : \A j \in hits : i <= j
            name == FirstMatch(w, c)
<1>1. c \in Seq(Names) /\ DOMAIN c = 1 .. Len(c) /\ Len(c) \in Nat
  BY DEF Covers
<1>2. name = IF hits = {} THEN "invalid" ELSE c[first]
  BY DEF FirstMatch
<1>3. hits # {} => first \in hits /\ \A j \in hits : first <= j
  <2>. SUFFICES ASSUME hits # {} PROVE first \in hits /\ \A j \in hits : first <= j
    OBVIOUS
  <2>1. hits \in SUBSET Nat
    BY <1>1
  <2>. HIDE DEF hits
  <2>2. \E i \in hits : \A j \in hits : i <= j
    BY <2>1, LeastNumber
  <2>. QED
    BY <2>2
<1>. HIDE DEF first, name
<1>4. \A i \in 1 .. Len(c) : i \in hits <=> Means(w, c[i])
  BY <1>1 DEF Means
<1>5. \A m : Means(w, m) => \E i \in 1 .. Len(c) : c[i] = m
  BY DEF Covers, Means
<1>6. "invalid" \notin Names
  BY DEF Names, ImmNames, UpperNames, RegNames, JumpNames, BranchNames, LoadNames, StoreNames,
         SystemNames, FenceNames, PrivilegedNames, CsrInsts, MulDivNames
<1>7. \A i \in hits : i \in 1 .. Len(c)
  BY <1>1
<1>. HIDE DEF hits
<1>8. CASE hits = {}
  <2>1. \A m : ~Means(w, m)
    BY <1>4, <1>5, <1>8
  <2>2. name = "invalid"
    BY <1>2, <1>8
  <2>. QED
    BY <2>1, <2>2 DEF NameIs, name
<1>9. CASE hits # {}
  <2>1. name = c[first] /\ first \in 1 .. Len(c) /\ \A j \in hits : first <= j
    BY <1>2, <1>3, <1>7, <1>9
  <2>2. Means(w, name)
    BY <1>3, <1>4, <1>9, <2>1
  <2>3. name # "invalid"
    BY <1>6, <2>2 DEF Means
  <2>4. ASSUME name = "wfi", NEW m, Means(w, m) PROVE m = "wfi"
    <3>1. PICK i \in 1 .. Len(c) : c[i] = m
      BY <1>5, <2>4
    <3>2. i \in hits
      BY <1>4, <2>4, <3>1
    <3>. DEFINE n == Len(c)
    <3>3. n \in Nat /\ first \in 1 .. n /\ i \in 1 .. n /\ first <= i
      BY <1>1, <2>1, <3>1, <3>2
    <3>4. \A j \in 1 .. (n - 1) : c[j] # "wfi"
      BY DEF WfiLast
    <3>5. first \notin 1 .. (n - 1)
      BY <2>1, <2>4, <3>4
    <3>. HIDE DEF n
    <3>6. i = n
      BY <3>3, <3>5
    <3>7. c[n] = "wfi"
      BY DEF WfiLast, n
    <3>. QED
      BY <3>1, <3>6, <3>7
  <2>. QED
    BY <2>2, <2>3, <2>4 DEF NameIs, name
<1>. QED
  BY <1>8, <1>9

LEMMA NameOnce ==
    ASSUME NEW w, NEW m, NEW n, NameIs(w, m), NameIs(w, n)
    PROVE  m = n
<1>1. CASE m = "invalid" \/ n = "invalid"
  BY <1>1 DEF NameIs
<1>2. CASE m # "invalid" /\ n # "invalid"
  <2>1. Means(w, m) /\ Means(w, n)
    BY <1>2 DEF NameIs
  <2>2. m = "wfi" => n = "wfi"
    BY <2>1 DEF NameIs
  <2>3. n = "wfi" => m = "wfi"
    BY <2>1 DEF NameIs
  <2>4. "wfi" \notin CsrInsts
    BY DEF CsrInsts
  <2>. QED
    BY <2>1, <2>2, <2>3, <2>4, Unambiguous
<1>. QED
  BY <1>1, <1>2

LEMMA NamesAre ==
    ASSUME NEW w \in Words
    PROVE  NameIs(w, ExecuteName(w)) /\ DumpName(w) = ExecuteName(w)
<1>1. NameIs(w, FirstMatch(w, Chain)) /\ NameIs(w, FirstMatch(w, DumpChain))
  BY ChainsCover, FirstMatchIs
<1>2. FirstMatch(w, Chain) = FirstMatch(w, DumpChain)
  BY <1>1, NameOnce
<1>3. DumpName(w) = FirstMatch(w, DumpChain)
  BY DEF DumpName, DumpChain
<1>4. CASE \A f \in DOMAIN w : w[f] = 0
  <2>1. "op" \in DOMAIN w
    BY DEF Words
  <2>2. w.op = 0
    BY <1>4, <2>1
  <2>3. \A n : ~Means(w, n)
    BY <2>2, HitsByOpcode DEF ByOpcode
  <2>4. FirstMatch(w, Chain) = "invalid"
    BY <1>1, <2>3 DEF NameIs
  <2>5. ExecuteName(w) = "invalid"
    BY <1>4 DEF ExecuteName
  <2>. QED
    BY <1>1, <1>2, <1>3, <2>4, <2>5
<1>5. CASE ~\A f \in DOMAIN w : w[f] = 0
  <2>1. ExecuteName(w) = FirstMatch(w, Chain)
    BY <1>5 DEF ExecuteName, Chain
  <2>. QED
    BY <1>1, <1>2, <1>3, <2>1
<1>. QED
  BY <1>4, <1>5

-----------------------------------------------------------------------------
\* The simulator and the processor accept the same opcodes, uret and hret apart.
LEMMA AcceptsHits ==
    ASSUME NEW w \in Words
    PROVE  (RtlAccepts(w) /\ ~(RtlReturn(w) /\ w.f6 \in {0, 8})) <=> \E n : Means(w, n)
<1>1. DOMAIN Encoding = Names
  BY EncodingParts
<1>2. ASSUME NEW n, Means(w, n)
      PROVE  RtlAccepts(w) /\ ~(RtlReturn(w) /\ w.f6 \in {0, 8})
  <2>1. CASE n \in {"mret", "sret"}
    <3>1. /\ w.op = 115 /\ w.rd = 0 /\ w.f3 = 0 /\ w.rs1 = 0 /\ w.rs2 = 2 /\ w.b25 = 0
          /\ w.f6 \in {4, 12}
      BY <1>2, <2>1, PrivilegedHits
    <3>. QED
      BY <3>1 DEF RtlAccepts, RtlReturn
  <2>2. CASE n \notin {"mret", "sret"}
    <3>1. RtlAccepts(w)
      BY <1>1, <1>2, <2>2 DEF RtlAccepts, Means
    <3>2. ASSUME RtlReturn(w) PROVE FALSE
      <4>1. w.op = 115 /\ w.f3 = 0 /\ w.rs2 = 2 /\ w.b25 = 0
        BY <3>2 DEF RtlReturn
      <4>2. n \in PrivilegedNames \cup CsrInsts \cup {"wfi"}
        BY <1>2, <4>1, HitsByOpcode DEF ByOpcode
      <4>3. CASE n \in CsrInsts
        BY <1>2, <4>1, <4>3, CsrHits DEF CsrInsts
      <4>4. CASE n = "wfi"
        BY <1>2, <4>1, <4>4, WfiHits
      <4>5. CASE n \in {"ecall", "ebreak", "sfence"}
        BY <1>2, <4>1, <4>5, PrivilegedHits
      <4>. QED
        BY <2>2, <4>2, <4>3, <4>4, <4>5 DEF PrivilegedNames
    <3>. QED
      BY <3>1, <3>2
  <2>. QED
    BY <2>1, <2>2
<1>3. ASSUME RtlAccepts(w), ~(RtlReturn(w) /\ w.f6 \in {0, 8})
      PROVE  \E n : Means(w, n)
  <2>1. CASE RtlReturn(w)
    <3>1. w.op = 115 /\ w.rd = 0 /\ w.f3 = 0 /\ w.rs1 = 0 /\ w.rs2 = 2 /\ w.b25 = 0
      BY <2>1 DEF RtlReturn
    <3>2. w.f6 = 4 \/ w.f6 = 12
      BY <1>3, <2>1 DEF RtlReturn
    <3>3. Means(w, "sret") \/ Means(w, "mret")
      BY <3>1, <3>2, PrivilegedHits
    <3>. QED
      BY <3>3
  <2>2. CASE ~RtlReturn(w)
    BY <1>1, <1>3, <2>2 DEF RtlAccepts, Means
  <2>. QED
    BY <2>1, <2>2
<1>. QED
  BY <1>2, <1>3

\* The instructions that write a register of their own choice.
Writers == ImmNames \cup UpperNames \cup RegNames \cup JumpNames \cup LoadNames
             \cup MulDivNames \cup CsrInsts

\* The processor's classes of writing instructions hold nothing but instructions.
LEMMA RdValidHits ==
    ASSUME NEW w \in Words, RtlRdValid(w)
    PROVE  \E m \in Writers : Means(w, m)
<1>1. w.f3 \in 0 .. 7 /\ w.b25 \in 0 .. 1
  BY DEF Words
<1>2. CASE w.op \in {111, 55, 23}
  <2>1. Means(w, "jal") \/ Means(w, "lui") \/ Means(w, "auipc")
    BY <1>2, JumpHits, UpperHits
  <2>2. {"jal", "lui", "auipc"} \subseteq Writers
    BY DEF Writers, JumpNames, UpperNames
  <2>. QED
    BY <2>1, <2>2
<1>3. CASE w.op = 103 /\ w.f3 = 0
  <2>1. Means(w, "jalr")
    BY <1>3, JumpHits
  <2>2. "jalr" \in Writers
    BY DEF Writers, JumpNames
  <2>. QED
    BY <2>1, <2>2
<1>4. CASE w.op = 19 /\ (w.f3 \notin {1, 5} \/ (w.f6 = 0 \/ (w.f3 = 5 /\ w.f6 = 16)))
  <2>1. \E m \in ImmNames : Means(w, m)
    <3>1. CASE w.f3 \in {1, 5}
      <4>1. \/ w.f3 = 1 /\ w.f6 = 0
            \/ w.f3 = 5 /\ w.f6 = 0
            \/ w.f3 = 5 /\ w.f6 = 16
        BY <1>4, <3>1
      <4>2. Means(w, "slli") \/ Means(w, "srli") \/ Means(w, "srai")
        BY <1>4, <4>1, ImmHits
      <4>. QED
        BY <4>2 DEF ImmNames
    <3>2. CASE w.f3 \in {0, 2, 3}
      <4>1. Means(w, "addi") \/ Means(w, "slti") \/ Means(w, "sltiu")
        BY <1>4, <3>2, ImmHits
      <4>. QED
        BY <4>1 DEF ImmNames
    <3>3. CASE w.f3 \in {4, 6, 7}
      <4>1. Means(w, "xori") \/ Means(w, "ori") \/ Means(w, "andi")
        BY <1>4, <3>3, ImmHits
      <4>. QED
        BY <4>1 DEF ImmNames
    <3>. QED
      BY <1>1, <3>1, <3>2, <3>3
  <2>. QED
    BY <2>1 DEF Writers
<1>5. CASE w.op = 51 /\ (w.f6 = 0 \/ (w.f6 = 16 /\ w.b25 = 0 /\ w.f3 \in {0, 5}))
  <2>1. CASE w.f6 = 0 /\ w.b25 = 0
    <3>1. CASE w.f3 \in {0, 1, 2, 3}
      <4>1. Means(w, "add") \/ Means(w, "sll") \/ Means(w, "slt") \/ Means(w, "sltu")
        BY <1>5, <2>1, <3>1, RegHits
      <4>2. {"add", "sll", "slt", "sltu"} \subseteq Writers
        BY DEF Writers, RegNames
      <4>. QED
        BY <4>1, <4>2
    <3>2. CASE w.f3 \in {4, 5, 6, 7}
      <4>1. Means(w, "xor") \/ Means(w, "srl") \/ Means(w, "or") \/ Means(w, "and")
        BY <1>5, <2>1, <3>2, RegHits
      <4>2. {"xor", "srl", "or", "and"} \subseteq Writers
        BY DEF Writers, RegNames
      <4>. QED
        BY <4>1, <4>2
    <3>. QED
      BY <1>1, <3>1, <3>2
  <2>2. CASE w.f6 = 0 /\ w.b25 = 1
    <3>1. CASE w.f3 \in {0, 1, 2, 3}
      <4>1. Means(w, "mul") \/ Means(w, "mulh") \/ Means(w, "mulhsu") \/ Means(w, "mulhu")
        BY <1>5, <2>2, <3>1, MulDivHits
      <4>2. {"mul", "mulh", "mulhsu", "mulhu"} \subseteq Writers
        BY DEF Writers, MulDivNames
      <4>. QED
        BY <4>1, <4>2
    <3>2. CASE w.f3 \in {4, 5, 6, 7}
      <4>1. Means(w, "div") \/ Means(w, "divu") \/ Means(w, "rem") \/ Means(w, "remu")
        BY <1>5, <2>2, <3>2, MulDivHits
      <4>2. {"div", "divu", "rem", "remu"} \subseteq Writers
        BY DEF Writers, MulDivNames
      <4>. QED
        BY <4>1, <4>2
    <3>. QED
      BY <1>1, <3>1, <3>2
  <2>3. CASE w.f6 = 16
    <3>1. Means(w, "sub") \/ Means(w, "sra")
      BY <1>5, <2>3, RegHits
    <3>2. {"sub", "sra"} \subseteq Writers
      BY DEF Writers, RegNames
    <3>. QED
      BY <3>1, <3>2
  <2>. QED
    BY <1>1, <1>5, <2>1, <2>2, <2>3
<1>6. CASE w.op = 3 /\ w.f3 \notin {3, 7}
  <2>1. w.f3 \in {0, 1, 2, 4, 5, 6}
    BY <1>1, <1>6
  <2>2. \/ Means(w, "lb") \/ Means(w, "lh") \/ Means(w, "lw")
        \/ Means(w, "lbu") \/ Means(w, "lhu") \/ Means(w, "lwu")
    BY <1>6, <2>1, LoadHits
  <2>. QED
    BY <2>2 DEF Writers, LoadNames
<1>7. CASE w.op = 115 /\ w.f3 \notin {0, 4}
  <2>1. w.f3 \in {1, 2, 3, 5, 6, 7}
    BY <1>1, <1>7
  <2>2. \/ Means(w, "csrrw") \/ Means(w, "csrrs") \/ Means(w, "csrrc")
        \/ Means(w, "csrrwi") \/ Means(w, "csrrsi") \/ Means(w, "csrrci")
    BY <1>7, <2>1, CsrHits
  <2>. QED
    BY <2>2 DEF Writers, CsrInsts
<1>. QED
  BY <1>2, <1>3, <1>4, <1>5, <1>6, <1>7 DEF RtlRdValid

\* An instruction that writes a register is in one of those classes.
LEMMA WriterIsValid ==
    ASSUME NEW w \in Words, NEW n, Means(w, n), n \in Writers
    PROVE  RtlRdValid(w)
<1>1. CASE n \in ImmNames
  <2>1. w.op = 19 /\ (w.f3 \in {0, 2, 3, 4, 6, 7} \/ w.f6 = 0 \/ (w.f3 = 5 /\ w.f6 = 16))
    BY <1>1, ImmHits DEF ImmNames
  <2>. QED
    BY <2>1 DEF RtlRdValid
<1>2. CASE n \in UpperNames
  <2>1. w.op \in {55, 23}
    BY <1>2, UpperHits DEF UpperNames
  <2>. QED
    BY <2>1 DEF RtlRdValid
<1>3. CASE n \in RegNames
  <2>1. w.op = 51 /\ (w.f6 = 0 \/ (w.f6 = 16 /\ w.b25 = 0 /\ w.f3 \in {0, 5}))
    BY <1>3, RegHits DEF RegNames
  <2>. QED
    BY <2>1 DEF RtlRdValid
<1>4. CASE n \in JumpNames
  <2>1. w.op = 111 \/ (w.op = 103 /\ w.f3 = 0)
    BY <1>4, JumpHits DEF JumpNames
  <2>. QED
    BY <2>1 DEF RtlRdValid
<1>5. CASE n \in LoadNames
  <2>1. w.op = 3 /\ w.f3 \in {0, 1, 2, 4, 5, 6}
    BY <1>5, LoadHits DEF LoadNames
  <2>. QED
    BY <2>1 DEF RtlRdValid
<1>6. CASE n \in MulDivNames
  <2>1. w.op = 51 /\ w.f6 = 0
    BY <1>6, MulDivHits DEF MulDivNames
  <2>. QED
    BY <2>1 DEF RtlRdValid
<1>7. CASE n \in CsrInsts
  <2>1. w.op = 115 /\ w.f3 \in {1, 2, 3, 5, 6, 7}
    BY <1>7, CsrHits DEF CsrInsts
  <2>. QED
    BY <2>1 DEF RtlRdValid
<1>. QED
  BY <1>1, <1>2, <1>3, <1>4, <1>5, <1>6, <1>7 DEF Writers

\* The simulator and the processor agree on which instructions write a register.
LEMMA WritesAgree ==
    ASSUME NEW w \in Words
    PROVE  (ExecuteWrites(w) /\ w.op # 15) <=> (RtlRdValid(w) /\ w.rd # 0)
<1>. DEFINE n == ExecuteName(w)
<1>1. NameIs(w, n)
  BY NamesAre
<1>2. ExecuteWrites(w) <=> w.rd # 0 /\ n \notin NoWriteback
  BY DEF ExecuteWrites
<1>. HIDE DEF n
<1>3. ASSUME w.rd # 0, n \notin NoWriteback, w.op # 15
      PROVE  RtlRdValid(w)
  <2>1. n # "invalid" /\ n \notin BranchNames /\ n \notin StoreNames
    BY <1>3 DEF NoWriteback, BranchNames, StoreNames
  <2>2. Means(w, n)
    BY <1>1, <2>1 DEF NameIs
  <2>3. n \notin FenceNames
    BY <1>3, <2>2, FenceHits DEF FenceNames
  <2>4. n \notin PrivilegedNames
    BY <1>3, <2>2, PrivilegedHits DEF PrivilegedNames
  <2>5. n # "wfi"
    BY <1>3, <2>2, WfiHits
  <2>6. n \in Writers
    BY <2>1, <2>2, <2>3, <2>4, <2>5 DEF Means, Names, SystemNames, Writers
  <2>. QED
    BY <2>2, <2>6, WriterIsValid
<1>4. ASSUME RtlRdValid(w), w.rd # 0
      PROVE  n \notin NoWriteback /\ w.op # 15
  <2>1. PICK m \in Writers : Means(w, m)
    BY <1>4, RdValidHits
  <2>2. n # "invalid"
    BY <1>1, <2>1 DEF NameIs
  <2>3. Means(w, n)
    BY <1>1, <2>2 DEF NameIs
  <2>4. n # "wfi"
    BY <1>4, <2>3, WfiHits
  <2>5. m # "wfi"
    BY <1>4, <2>1, WfiHits
  <2>6. n = m
    BY <2>1, <2>3, <2>4, <2>5, Unambiguous
  <2>7. Writers \cap NoWriteback = {}
    BY DEF Writers, NoWriteback, ImmNames, UpperNames, RegNames, JumpNames, LoadNames,
           MulDivNames, CsrInsts
  <2>8. w.op # 15
    BY <1>4 DEF RtlRdValid
  <2>. QED
    BY <2>1, <2>6, <2>7, <2>8
<1>. QED
  BY <1>2, <1>3, <1>4

\* A set that cannot hold two names unless they are a CSR instruction and wfi.
LEMMA AmbiguousPair ==
    ASSUME NEW w, Cardinality(Ambiguous(w)) > 1
    PROVE  \E n \in CsrInsts : Ambiguous(w) = {n, "wfi"}
<1>. DEFINE A == Ambiguous(w)
<1>1. \A n : n \in A <=> Means(w, n)
  BY EncodingParts DEF Ambiguous, Means
<1>2. \A m, n : m \in A /\ n \in A /\ m # n =>
        (m \in CsrInsts /\ n = "wfi") \/ (n \in CsrInsts /\ m = "wfi")
  BY <1>1, Unambiguous
<1>3. "wfi" \notin CsrInsts
  BY DEF CsrInsts
<1>4. A # {}
  <2>1. Cardinality({}) = 0
    BY FS_EmptySet
  <2>. QED
    BY <2>1
<1>5. ASSUME NEW n PROVE A # {n}
  <2>1. Cardinality({n}) = 1
    BY FS_Singleton
  <2>. QED
    BY <2>1
<1>. HIDE DEF A
<1>6. PICK m \in A, n \in A : m # n
  <2>1. PICK m : m \in A
    BY <1>4
  <2>2. PICK n \in A : n # m
    BY <1>5, <2>1
  <2>. QED
    BY <2>1, <2>2
<1>7. \E c \in CsrInsts : c \in A /\ "wfi" \in A
  BY <1>2, <1>6
<1>8. PICK c \in CsrInsts : c \in A /\ "wfi" \in A
  BY <1>7
<1>9. \A x \in A : x = c \/ x = "wfi"
  BY <1>2, <1>3, <1>8
<1>10. A = {c, "wfi"}
  BY <1>8, <1>9
<1>. QED
  BY <1>8, <1>10 DEF A

\* The disassembler, the simulator and the processor read every opcode alike.
THEOREM SameDecoding ==
    ASSUME NEW w \in Words
    PROVE  DecodeExact(w)
<1>1. NameIs(w, ExecuteName(w)) /\ DumpName(w) = ExecuteName(w)
  BY NamesAre
<1>2. ExecuteName(w) # "invalid" <=> \E n : Means(w, n)
  BY <1>1 DEF NameIs
<1>3. ExecuteName(w) # "invalid" <=> RtlAccepts(w) /\ ~(RtlReturn(w) /\ w.f6 \in {0, 8})
  BY <1>2, AcceptsHits
<1>4. (ExecuteWrites(w) /\ w.op # 15) <=> (RtlRdValid(w) /\ w.rd # 0)
  BY WritesAgree
<1>5. Cardinality(Ambiguous(w)) > 1 =>
        \E n \in {"csrrw", "csrrs", "csrrc", "csrrwi", "csrrsi", "csrrci"} :
          Ambiguous(w) = {n, "wfi"}
  BY AmbiguousPair DEF CsrInsts
<1>. QED
  BY <1>1, <1>3, <1>4, <1>5 DEF DecodeExact

-----------------------------------------------------------------------------
\* A decoder call looks at an opcode, a computation has an operation and two registers.
CallOk == /\ call.unit = "decode" => call.w \in Words
          /\ call.unit = "compute" => call.a \in Reg /\ call.b \in Reg

LEMMA CallsOk == UnitsSpec => []CallOk
<1>1. UnitsInit => CallOk
  BY DEF UnitsInit, Idle, CallOk
<1>2. CallOk /\ [UnitsNext]_call => CallOk'
  <2>. SUFFICES ASSUME CallOk, [UnitsNext]_call PROVE CallOk'
    OBVIOUS
  <2>1. CASE DecodeCall
    BY <2>1 DEF DecodeCall, CallOk
  <2>2. CASE ComputeCall
    BY <2>2 DEF ComputeCall, CallOk
  <2>3. CASE TranslateCall \/ AccessCall \/ CallReturns
    BY <2>3 DEF TranslateCall, AccessCall, CallReturns, Idle, CallOk
  <2>4. CASE UNCHANGED call
    BY <2>4 DEF CallOk
  <2>. QED
    BY <2>1, <2>2, <2>3, <2>4 DEF UnitsNext
<1>. QED
  BY <1>1, <1>2, PTL DEF UnitsSpec

\* Whatever the operands (zero divisor, most negative dividend, mixed signs), the C
\* expressions of Riscv::execute and the processor's shifter, comparators, multiplier and
\* iterative divider compute the same value: for registers of any width.
THEOREM ArithmeticCorrect == UnitsSpec => []ArithmeticAgrees
<1>1. CallOk => ArithmeticAgrees
  BY SameArithmetic DEF CallOk, ArithmeticAgrees
<1>. QED
  BY <1>1, CallsOk, PTL

\* The chain of Riscv::execute, the disassembler's chain (riscv_inst_decode) and the
\* processor's decoder (riscv_decoder.v) give every opcode the same meaning and the same
\* decision to write rd, and no opcode has two meanings but a CSR access that also reads
\* as wfi: for every set of field values.
THEOREM DecodersCorrect == UnitsSpec => []DecodersAgree
<1>1. CallOk => DecodersAgree
  BY SameDecoding DEF CallOk, DecodersAgree
<1>. QED
  BY <1>1, CallsOk, PTL
=============================================================================
