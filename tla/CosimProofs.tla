----------------------------- MODULE CosimProofs -----------------------------
(***************************************************************************)
(* Proofs about the driver of a simulation (Cosim.tla), for every set of   *)
(* attached processors and memories, ELF files, command lines and          *)
(* instructions: a run stops in time, goes on only while the processors    *)
(* agree, starts with the image of the file in every memory, and dumps     *)
(* what the memory holds.  The last section is about the simulator's       *)
(* memory alone: an access of any width is exact.                          *)
(***************************************************************************)
EXTENDS Cosim, RvUnits, SequenceTheorems, WellFoundedInduction, TLAPS

USE MemoryAssumption, TbMemoryAssumption DEF MemoryAssumption, TbMemoryAssumption

-----------------------------------------------------------------------------
(* The processors and what the properties remember of them.                *)

\* What instructions show.
Pcs == {0} \cup {f.entry : f \in Images} \cup {e.pc : e \in Effects}
Regs == {0} \cup {e.reg : e \in Effects}
Values == UNION {{e.ev[ev] : ev \in DOMAIN e.ev} : e \in Effects}

Cpu == [pc : Pcs, reg : Regs, brk : BOOLEAN, q : [EventTypes -> Seq(Values)]]

\* What was given, and the types of the processors.
Given == setup \in Setups /\ image \in Images /\ opt \in Options
CpuTypes == /\ cpus \in [Units -> Cpu] /\ cycles \in Nat /\ section \in Nat \ {0}
            /\ ran.pcs \in Seq(Pcs)
            /\ ran.log \in [Units -> [EventTypes -> Seq(Values)]]

\* In the loop, what the program has counted and shows is what has been run.
Counted ==
    /\ phase \in {"memory", "load"} => ran.pcs = <<>> /\ cycles = 0
    /\ phase = "run" => /\ Len(ran.pcs) = cycles
                        /\ opt.max > 0 => cycles < opt.max
                        /\ cycles > 0 => cpus[1].pc = ran.pcs[cycles]
                        /\ cycles > 1 => current = ran.pcs[cycles - 1]

\* The invariant behind StopsInTime.
RunInv == Given /\ CpuTypes /\ Counted /\ StopsInTime

-----------------------------------------------------------------------------

\* At least one processor is attached.
LEMMA SomeUnit ==
    ASSUME Given
    PROVE  /\ Len(setup.units) \in Nat \ {0} /\ Units = 1 .. Len(setup.units) /\ 1 \in Units
           /\ \A i \in Units : setup.units[i] \in {"sim", "rtl"}
<1>1. setup.units \in Seq({"sim", "rtl"}) /\ setup.units # <<>>
  BY CosimAssumption DEF Given
<1>2. Len(setup.units) \in Nat \ {0} /\ Units = 1 .. Len(setup.units)
  BY <1>1, LenProperties, EmptySeq DEF Units
<1>3. \A i \in Units : setup.units[i] \in {"sim", "rtl"}
  BY <1>1, <1>2, ElementOfSeq
<1>. QED
  BY <1>2, <1>3

\* What an option is.
LEMMA OptionTypes ==
    ASSUME Given
    PROVE  /\ opt.base \in 0 .. Space - 1
           /\ opt.size = None \/ opt.size \in 1 .. Space - Line
           /\ opt.max = None \/ opt.max \in Nat
BY CosimAssumption DEF Given

\* A sequence with one more element.
LEMMA Appended ==
    ASSUME NEW S, NEW s \in Seq(S), NEW x \in S
    PROVE  /\ Append(s, x) \in Seq(S) /\ Len(Append(s, x)) = Len(s) + 1
           /\ \A k \in 1 .. Len(s) : Append(s, x)[k] = s[k]
           /\ Append(s, x)[Len(s) + 1] = x
BY AppendProperties, LenProperties

\* A sequence without its first element.
LEMMA Shortened ==
    ASSUME NEW S, NEW s \in Seq(S), s # <<>>
    PROVE  /\ Head(s) \in S /\ Head(s) = s[1]
           /\ Tail(s) \in Seq(S) /\ Len(Tail(s)) = Len(s) - 1 /\ Len(s) \in Nat \ {0}
           /\ \A k \in 1 .. Len(s) - 1 : Tail(s)[k] = s[k + 1]
BY HeadTailProperties, LenProperties, EmptySeq, ElementOfSeq

\* The queue of a processor after cosim::step has popped what all of them have,
\* and after its instruction.
QueueAfter(c, e, ev) ==
    LET q == IF setup.direct \/ ~AllReady(ev) THEN c.q[ev] ELSE Tail(c.q[ev])
    IN  IF ev \in DOMAIN e.ev THEN Append(q, e.ev[ev]) ELSE q
Before(c) == IF setup.direct THEN c ELSE Popped(c)
LogAfter(log, e, ev) == IF ev \in DOMAIN e.ev THEN Append(log, e.ev[ev]) ELSE log

\* One processor's instruction, in terms of its fields.
LEMMA SteppedFields ==
    ASSUME Given, CpuTypes, NEW i \in Units, NEW e \in Effects
    PROVE  LET c == Stepped(Before(cpus[i]), e)
           IN  /\ c \in Cpu /\ c.pc = e.pc /\ c.reg = e.reg
               /\ \A ev \in EventTypes : c.q[ev] = QueueAfter(cpus[i], e, ev)
<1>. DEFINE b == Before(cpus[i])
<1>1. cpus[i] \in Cpu
  BY DEF CpuTypes
<1>2. b \in Cpu
  <2>1. CASE setup.direct
    BY <1>1, <2>1 DEF Before
  <2>2. CASE ~setup.direct
    <3>1. b = [cpus[i] EXCEPT !.q = [ev \in EventTypes |->
                 IF AllReady(ev) THEN Tail(cpus[i].q[ev]) ELSE cpus[i].q[ev]]]
      BY <2>2 DEF Before, Popped
    <3>2. \A ev \in EventTypes : AllReady(ev) => Tail(cpus[i].q[ev]) \in Seq(Values)
      BY <1>1, Shortened DEF AllReady, Cpu
    <3>3. [ev \in EventTypes |-> IF AllReady(ev) THEN Tail(cpus[i].q[ev]) ELSE cpus[i].q[ev]]
            \in [EventTypes -> Seq(Values)]
      BY <1>1, <3>2 DEF Cpu
    <3>. QED
      BY <1>1, <3>1, <3>3 DEF Cpu
  <2>. QED
    BY <2>1, <2>2
<1>3. \A ev \in EventTypes : b.q[ev] = IF setup.direct \/ ~AllReady(ev) THEN cpus[i].q[ev]
                                       ELSE Tail(cpus[i].q[ev])
  <2>1. CASE setup.direct
    BY <2>1 DEF Before
  <2>2. CASE ~setup.direct
    BY <1>1, <2>2 DEF Before, Popped, Cpu
  <2>. QED
    BY <2>1, <2>2
<1>. DEFINE q == [ev \in EventTypes |-> IF ev \in DOMAIN e.ev THEN Append(b.q[ev], e.ev[ev])
                                        ELSE b.q[ev]]
<1>4. Stepped(b, e) = [b EXCEPT !.pc = e.pc, !.reg = e.reg, !.brk = @ \/ e.brk, !.q = q]
  BY DEF Stepped
<1>5. q \in [EventTypes -> Seq(Values)]
  <2>1. \A ev \in EventTypes : ev \in DOMAIN e.ev => e.ev[ev] \in Values
    BY DEF Values
  <2>2. \A ev \in EventTypes : b.q[ev] \in Seq(Values)
    BY <1>2 DEF Cpu
  <2>3. \A ev \in EventTypes : ev \in DOMAIN e.ev => Append(b.q[ev], e.ev[ev]) \in Seq(Values)
    BY <2>1, <2>2, Appended
  <2>. HIDE DEF b
  <2>. QED
    BY <2>2, <2>3
<1>6. e.pc \in Pcs /\ e.reg \in Regs
  BY DEF Pcs, Regs
<1>. HIDE DEF b, q
<1>7. Stepped(b, e) \in Cpu /\ Stepped(b, e).pc = e.pc /\ Stepped(b, e).reg = e.reg
      /\ Stepped(b, e).q = q
  BY <1>2, <1>4, <1>5, <1>6 DEF Cpu
<1>8. \A ev \in EventTypes : q[ev] = QueueAfter(cpus[i], e, ev)
  BY <1>3 DEF q, QueueAfter
<1>. QED
  BY <1>7, <1>8 DEF b

-----------------------------------------------------------------------------
(* What the units' calls amount to.                                        *)

\* A nonempty set of naturals has a least element.
LEMMA LeastNumber ==
    ASSUME NEW S \in SUBSET Nat, S # {}
    PROVE  \E n \in S : \A k \in S : n <= k
<1>1. IsWellFoundedOn({p \in Nat \X Nat : p[1] < p[2]}, Nat)
  BY NatLessThanWellFounded, Zenon DEF OpToRel
<1>2. PICK n \in S : \A k \in S : <<k, n>> \notin {p \in Nat \X Nat : p[1] < p[2]}
  BY <1>1, WFMin, Zenon
<1>3. ASSUME NEW k \in S PROVE n <= k
  <2>. DEFINE p == <<k, n>>
  <2>1. p \in Nat \X Nat /\ p[1] = k /\ p[2] = n
    OBVIOUS
  <2>. QED
    BY <2>1, <1>2
<1>. QED
  BY <1>3

\* Induction up to a bound: were a number missing from S, the least of them would
\* follow one that is not missing.
LEMMA InductionTo ==
    ASSUME NEW n \in Nat, NEW S, 0 \in S, \A k \in 1 .. n : k - 1 \in S => k \in S
    PROVE  \A k \in 0 .. n : k \in S
<1>. DEFINE Missing == {k \in 0 .. n : k \notin S}
<1>. SUFFICES ASSUME Missing # {} PROVE FALSE
  OBVIOUS
<1>1. Missing \in SUBSET Nat
  OBVIOUS
<1>2. PICK m \in Missing : \A k \in Missing : m <= k
  <2>. HIDE DEF Missing
  <2>. QED
    BY <1>1, LeastNumber
<1>3. m \in 1 .. n /\ m - 1 \in 0 .. n /\ m \notin S
  OBVIOUS
<1>4. m - 1 \notin Missing
  BY <1>2, <1>3
<1>. QED
  BY <1>3, <1>4

\* The outcome of one call per unit is "ok" or that of a unit whose call failed.
LEMMA TogetherOutcome ==
    ASSUME Given, NEW results
    PROVE  /\ Together(results).mems = [i \in Units |-> results[i].regions]
           /\ Together(results).st = "ok" <=> \A i \in Units : results[i].kind = "ok"
           /\ Together(results).st # "ok" =>
                \E i \in Units : results[i].kind # "ok" /\ Together(results).st = results[i].kind
<1>. DEFINE bad == {i \in Units : results[i].kind # "ok"}
            first == CHOOSE i \in bad : \A j \in bad : i <= j
<1>1. Together(results) = [mems |-> [i \in Units |-> results[i].regions],
                           st |-> IF bad = {} THEN "ok" ELSE results[first].kind]
  BY DEF Together
<1>2. bad \in SUBSET Nat
  BY SomeUnit
<1>3. bad # {} => first \in bad
  <2>. HIDE DEF bad
  <2>. QED
    BY <1>2, LeastNumber
<1>4. bad = {} <=> \A i \in Units : results[i].kind = "ok"
  OBVIOUS
<1>. HIDE DEF first
<1>5. bad # {} => first \in Units /\ results[first].kind # "ok"
  BY <1>3
<1>6. /\ Together(results).mems = [i \in Units |-> results[i].regions]
      /\ Together(results).st = IF bad = {} THEN "ok" ELSE results[first].kind
  BY <1>1
<1>. HIDE DEF bad
<1>7. Together(results).st = "ok" <=> \A i \in Units : results[i].kind = "ok"
  BY <1>4, <1>5, <1>6
<1>. QED
  BY <1>4, <1>5, <1>6, <1>7

\* A write reaches a region or ends the process: exit(-1) or a failed assertion.
LEMMA WriteKinds ==
    \A i, m, a, b : UnitWrite(i, m, a, b).kind \in {"ok", "exit", "abort"}
BY DEF UnitWrite, write, MemStore, TbWrite

\* The process ends before the loop does, without a dump.
Cut == phase' = "exit" /\ out'.file = NoFile /\ out'.how \notin {"at_exit", "alloc"}

\* A failed access ends it so.
LEMMA FailedEnds ==
    ASSUME NEW st \in {"exit", "abort", "refused"}, Failed(st)
    PROVE  Cut
<1>1. CASE st = "exit"
  BY <1>1 DEF Failed, Exit, Cut
<1>2. CASE st = "abort"
  BY <1>2 DEF Failed, Exit, Cut
<1>3. CASE st = "refused"
  BY <1>3 DEF Failed, Exit, Cut
<1>. QED
  BY <1>1, <1>2, <1>3

\* The ways an iteration of the loop ends: before the instruction because events
\* differ, after it, or with the loop going on.
LEMMA IterateCases ==
    ASSUME Given, Iterate
    PROVE  /\ phase = "run" /\ MoreToDo /\ current' = cpus[1].pc
           /\ UNCHANGED <<setup, image, opt, section>>
           /\ \/ /\ Cut
                 /\ UNCHANGED <<mems, cpus, cycles, ran>>
              \/ \E es \in [Units -> Effects] :
                   /\ setup.direct \/ ~EventsDiffer
                   /\ cpus' = [i \in Units |-> Stepped(Before(cpus[i]), es[i])]
                   /\ mems' = [i \in Units |-> Stored(i, es[i]).regions]
                   /\ Remember(cpus', es)
                   /\ \/ Cut /\ UNCHANGED cycles
                      \/ /\ phase' = IF AtLimit(cycles') THEN "done" ELSE "run"
                         /\ cycles' = cycles + 1 /\ UNCHANGED out
                         /\ setup.direct \/ ~(PcsDiffer(cpus') \/ RegsDiffer(cpus'))
<1>1. phase = "run" /\ MoreToDo /\ current' = cpus[1].pc
      /\ UNCHANGED <<setup, image, opt, section>>
  BY DEF Iterate, Fixed
<1>2. CASE ~setup.direct /\ EventsDiffer
           /\ Exit("mismatch", -1) /\ UNCHANGED <<mems, cpus, cycles, ran>>
  BY <1>1, <1>2 DEF Exit, Cut
<1>3. ASSUME setup.direct \/ ~EventsDiffer, NEW es \in [Units -> Effects],
             LET before == [i \in Units |-> IF setup.direct THEN cpus[i] ELSE Popped(cpus[i])]
                 cs == [i \in Units |-> Stepped(before[i], es[i])]
                 st == Together([i \in Units |-> Stored(i, es[i])])
                 differ == ~setup.direct /\ (PcsDiffer(cs) \/ RegsDiffer(cs))
             IN  /\ cpus' = cs /\ mems' = st.mems /\ Remember(cs, es)
                 /\ IF st.st # "ok" THEN Failed(st.st) /\ UNCHANGED cycles
                    ELSE IF differ THEN Exit("mismatch", -1) /\ UNCHANGED cycles
                    ELSE /\ cycles' = cycles + 1 /\ UNCHANGED out
                         /\ phase' = IF AtLimit(cycles + 1) THEN "done" ELSE "run"
      PROVE  /\ cpus' = [i \in Units |-> Stepped(Before(cpus[i]), es[i])]
             /\ mems' = [i \in Units |-> Stored(i, es[i]).regions]
             /\ Remember(cpus', es)
             /\ \/ Cut /\ UNCHANGED cycles
                \/ /\ phase' = IF AtLimit(cycles') THEN "done" ELSE "run"
                   /\ cycles' = cycles + 1 /\ UNCHANGED out
                   /\ setup.direct \/ ~(PcsDiffer(cpus') \/ RegsDiffer(cpus'))
  <2>. DEFINE before == [i \in Units |-> IF setup.direct THEN cpus[i] ELSE Popped(cpus[i])]
              cs == [i \in Units |-> Stepped(before[i], es[i])]
              results == [i \in Units |-> Stored(i, es[i])]
              st == Together(results)
              differ == ~setup.direct /\ (PcsDiffer(cs) \/ RegsDiffer(cs))
  <2>1. cs = [i \in Units |-> Stepped(Before(cpus[i]), es[i])]
    BY DEF Before
  <2>2. st.mems = [i \in Units |-> Stored(i, es[i]).regions]
    BY TogetherOutcome
  <2>3. st.st # "ok" => st.st \in {"exit", "abort", "refused"}
    <3>1. \A i \in Units : results[i].kind \in {"ok", "exit", "abort"}
      BY WriteKinds DEF Stored
    <3>. HIDE DEF results
    <3>. QED
      BY <3>1, TogetherOutcome
  <2>4. /\ cpus' = cs /\ mems' = st.mems /\ Remember(cs, es)
        /\ IF st.st # "ok" THEN Failed(st.st) /\ UNCHANGED cycles
           ELSE IF differ THEN Exit("mismatch", -1) /\ UNCHANGED cycles
           ELSE /\ cycles' = cycles + 1 /\ UNCHANGED out
                /\ phase' = IF AtLimit(cycles + 1) THEN "done" ELSE "run"
    BY <1>3
  <2>. HIDE DEF cs, st
  <2>5. Remember(cpus', es)
    BY <2>4
  <2>6. CASE st.st # "ok"
    BY <2>1, <2>2, <2>3, <2>4, <2>5, <2>6, FailedEnds
  <2>7. CASE st.st = "ok" /\ differ
    BY <2>1, <2>2, <2>4, <2>5, <2>7 DEF Exit, Cut
  <2>8. CASE st.st = "ok" /\ ~differ
    BY <2>1, <2>2, <2>4, <2>5, <2>8
  <2>. QED
    BY <2>6, <2>7, <2>8
<1>4. \/ ~setup.direct /\ EventsDiffer
           /\ Exit("mismatch", -1) /\ UNCHANGED <<mems, cpus, cycles, ran>>
      \/ \E es \in [Units -> Effects] :
           /\ setup.direct \/ ~EventsDiffer
           /\ LET before == [i \in Units |-> IF setup.direct THEN cpus[i] ELSE Popped(cpus[i])]
                  cs == [i \in Units |-> Stepped(before[i], es[i])]
                  st == Together([i \in Units |-> Stored(i, es[i])])
                  differ == ~setup.direct /\ (PcsDiffer(cs) \/ RegsDiffer(cs))
              IN  /\ cpus' = cs /\ mems' = st.mems /\ Remember(cs, es)
                  /\ IF st.st # "ok" THEN Failed(st.st) /\ UNCHANGED cycles
                     ELSE IF differ THEN Exit("mismatch", -1) /\ UNCHANGED cycles
                     ELSE /\ cycles' = cycles + 1 /\ UNCHANGED out
                          /\ phase' = IF AtLimit(cycles + 1) THEN "done" ELSE "run"
  BY Zenon DEF Iterate
<1>. QED
  BY <1>1, <1>2, <1>3, <1>4

-----------------------------------------------------------------------------
(* A run stops in time.                                                    *)

\* A processor after its reset.
LEMMA IdleType == \A pc \in Pcs : IdleCpu(pc) \in Cpu
<1>1. <<>> \in Seq(Values)
  BY EmptySeq
<1>2. 0 \in Regs
  BY DEF Regs
<1>. QED
  BY <1>1, <1>2 DEF IdleCpu, Cpu

\* What is remembered of an iteration.
LEMMA Remembered ==
    ASSUME Given, CpuTypes, NEW es \in [Units -> Effects],
           cpus' = [i \in Units |-> Stepped(Before(cpus[i]), es[i])],
           Remember(cpus', es)
    PROVE  /\ cpus' \in [Units -> Cpu]
           /\ \A i \in Units : cpus'[i].pc = es[i].pc /\ cpus'[i].reg = es[i].reg
           /\ \A i \in Units : \A ev \in EventTypes :
                cpus'[i].q[ev] = QueueAfter(cpus[i], es[i], ev)
           /\ cpus'[1].pc \in Pcs /\ ran.pcs' = Append(ran.pcs, cpus'[1].pc)
           /\ ran.log' \in [Units -> [EventTypes -> Seq(Values)]]
           /\ \A i \in Units : \A ev \in EventTypes :
                ran.log'[i][ev] = LogAfter(ran.log[i][ev], es[i], ev)
<1>1. \A i \in Units : /\ cpus'[i] \in Cpu /\ cpus'[i].pc = es[i].pc /\ cpus'[i].reg = es[i].reg
                       /\ \A ev \in EventTypes : cpus'[i].q[ev] = QueueAfter(cpus[i], es[i], ev)
  BY SteppedFields
<1>2. cpus' \in [Units -> Cpu]
  BY <1>1
<1>3. cpus'[1].pc \in Pcs
  BY <1>2, SomeUnit DEF Cpu
<1>4. /\ ran.pcs' = Append(ran.pcs, cpus'[1].pc)
      /\ ran.log' = [i \in Units |-> [ev \in EventTypes |-> LogAfter(ran.log[i][ev], es[i], ev)]]
  BY DEF Remember, LogAfter
<1>5. \A i \in Units : \A ev \in EventTypes : LogAfter(ran.log[i][ev], es[i], ev) \in Seq(Values)
  <2>. SUFFICES ASSUME NEW i \in Units, NEW ev \in EventTypes
                PROVE  LogAfter(ran.log[i][ev], es[i], ev) \in Seq(Values)
    OBVIOUS
  <2>1. ran.log[i][ev] \in Seq(Values)
    BY DEF CpuTypes
  <2>2. ev \in DOMAIN es[i].ev => es[i].ev[ev] \in Values
    BY DEF Values
  <2>. QED
    BY <2>1, <2>2, Appended DEF LogAfter
<1>. QED
  BY <1>1, <1>2, <1>3, <1>4, <1>5

\* The types are kept.
LEMMA TypesStep == ASSUME Given, CpuTypes, [Next]_vars PROVE Given' /\ CpuTypes'
<1>1. CASE UNCHANGED vars
  BY <1>1 DEF vars, Given, CpuTypes, Units
<1>2. CASE ExplicitMemory
  BY <1>2 DEF ExplicitMemory, Fixed, Given, CpuTypes, Units
<1>3. CASE Load
  <2>1. UNCHANGED <<setup, image, opt, cpus, cycles, ran>> /\ section' \in {section, section + 1}
    BY <1>3 DEF Load, Fixed
  <2>. QED
    BY <2>1 DEF Given, CpuTypes, Units
<1>4. CASE Reset
  <2>1. image.entry \in Pcs /\ 0 \in Pcs
    BY DEF Given, Pcs
  <2>2. cpus' = [i \in Units |-> IdleCpu(IF IsSim(i) THEN image.entry ELSE 0)]
    BY <1>4 DEF Reset
  <2>3. cpus' \in [Units -> Cpu]
    BY <2>1, <2>2, IdleType
  <2>4. UNCHANGED <<setup, image, opt, cycles, ran, section>>
    BY <1>4 DEF Reset, Fixed
  <2>. QED
    BY <2>3, <2>4 DEF Given, CpuTypes, Units
<1>5. CASE Iterate
  <2>1. UNCHANGED <<setup, image, opt, section>>
    BY <1>5 DEF Iterate, Fixed
  <2>2. CASE UNCHANGED <<cpus, cycles, ran>>
    BY <2>1, <2>2 DEF Given, CpuTypes, Units
  <2>3. ASSUME NEW es \in [Units -> Effects],
               cpus' = [i \in Units |-> Stepped(Before(cpus[i]), es[i])],
               Remember(cpus', es), cycles' \in {cycles, cycles + 1}
        PROVE  CpuTypes'
    <3>1. ran.pcs \in Seq(Pcs) /\ cycles' \in Nat
      BY <2>3 DEF CpuTypes
    <3>2. /\ cpus' \in [Units -> Cpu] /\ cpus'[1].pc \in Pcs
          /\ ran.pcs' = Append(ran.pcs, cpus'[1].pc)
          /\ ran.log' \in [Units -> [EventTypes -> Seq(Values)]]
      BY <2>3, Remembered
    <3>3. ran.pcs' \in Seq(Pcs)
      BY <3>1, <3>2, Appended
    <3>. QED
      BY <2>1, <3>1, <3>2, <3>3 DEF CpuTypes, Units
  <2>. QED
    BY <1>5, <2>1, <2>2, <2>3, IterateCases DEF Given
<1>6. CASE AtExit
  BY <1>6 DEF AtExit, Fixed, Given, CpuTypes, Units
<1>. QED
  BY <1>1, <1>2, <1>3, <1>4, <1>5, <1>6 DEF Next

\* Not only in the state after an iteration: what the steps before it have counted.
LEMMA IterateCounts ==
    ASSUME RunInv, Iterate, CpuTypes'
    PROVE  Counted' /\ StopsInTime'
<1>. DEFINE n == cycles
<1>0. Given /\ CpuTypes /\ Counted /\ StopsInTime
  BY DEF RunInv
<1>1. phase = "run" /\ MoreToDo /\ current' = cpus[1].pc /\ UNCHANGED opt
  BY <1>0, IterateCases
<1>2. Len(ran.pcs) = n /\ n \in Nat /\ ran.pcs \in Seq(Pcs)
      /\ (opt.max > 0 => n < opt.max) /\ (n > 0 => cpus[1].pc = ran.pcs[n])
      /\ (n > 1 => current = ran.pcs[n - 1])
  BY <1>0, <1>1 DEF Counted, CpuTypes
<1>3. opt.max \in Int
  BY <1>0, OptionTypes DEF None
<1>4. CASE Cut /\ UNCHANGED ran
  BY <1>0, <1>1, <1>4 DEF Counted, StopsInTime, LoopLeft, Cut
<1>5. ASSUME NEW es \in [Units -> Effects],
             cpus' = [i \in Units |-> Stepped(Before(cpus[i]), es[i])],
             Remember(cpus', es),
             \/ Cut
             \/ phase' = (IF AtLimit(cycles') THEN "done" ELSE "run") /\ cycles' = cycles + 1
      PROVE  Counted' /\ StopsInTime'
  <2>. DEFINE p == cpus'[1].pc
  <2>1. ran.pcs' = Append(ran.pcs, p) /\ p \in Pcs
    BY <1>0, <1>5, Remembered
  <2>. HIDE DEF p
  <2>2. /\ Len(ran.pcs') = n + 1 /\ ran.pcs' \in Seq(Pcs) /\ ran.pcs'[n + 1] = p
        /\ \A k \in 1 .. n : ran.pcs'[k] = ran.pcs[k]
    BY <1>2, <2>1, Appended
  <2>3. opt.max > 0 => n + 1 <= opt.max
    BY <1>2, <1>3
  <2>4. \A k \in 1 .. n - 1 : ran.pcs[k] # opt.stop
    <3>. SUFFICES ASSUME NEW k \in 1 .. n - 1, ran.pcs[k] = opt.stop PROVE FALSE
      OBVIOUS
    <3>1. k \in DOMAIN ran.pcs
      BY <1>2, LenProperties
    <3>2. n <= k + 1
      BY <1>0, <1>2, <3>1 DEF StopsInTime
    <3>3. k = n - 1 /\ n > 1
      BY <1>2, <3>2
    <3>4. current # opt.stop
      BY <1>1 DEF MoreToDo
    <3>. QED
      BY <1>2, <3>3, <3>4
  <2>5. DOMAIN ran.pcs' = 1 .. n + 1
    BY <2>2, LenProperties
  <2>6. LoopLeft' => opt.max > 0 /\ Len(ran.pcs') = opt.max
    <3>. SUFFICES ASSUME LoopLeft' PROVE opt.max > 0 /\ Len(ran.pcs') = opt.max
      OBVIOUS
    <3>1. phase' = "done"
      BY <1>5 DEF LoopLeft, Cut
    <3>2. AtLimit(n + 1)
      BY <1>5, <3>1 DEF Cut
    <3>. QED
      BY <1>2, <1>3, <2>2, <3>2 DEF AtLimit
  <2>7. StopsInTime'
    <3>1. ASSUME NEW k \in DOMAIN ran.pcs', ran.pcs'[k] = opt.stop
          PROVE  Len(ran.pcs') <= k + 1
      <4>1. k \in 1 .. n + 1
        BY <2>5
      <4>2. k \notin 1 .. n - 1
        BY <2>2, <2>4, <3>1, <1>2
      <4>. QED
        BY <1>2, <2>2, <4>1, <4>2
    <3>. QED
      BY <1>1, <2>2, <2>3, <2>6, <3>1 DEF StopsInTime
  <2>8. Counted'
    <3>1. CASE phase' \in {"exit", "done"}
      BY <3>1 DEF Counted
    <3>2. CASE phase' = "run"
      <4>1. cycles' = n + 1 /\ ~AtLimit(n + 1)
        BY <1>5, <3>2 DEF Cut
      <4>2. opt.max > 0 => n + 1 < opt.max
        <5>1. opt.max > 0 => opt.max # n + 1
          BY <1>3, <4>1 DEF AtLimit, None
        <5>. QED
          BY <1>2, <1>3, <2>3, <5>1
      <4>3. n + 1 > 0 => p = ran.pcs'[n + 1]
        BY <2>2
      <4>4. n + 1 > 1 => current' = ran.pcs'[n]
        <5>1. n + 1 > 1 => n > 0 /\ n \in 1 .. n
          BY <1>2
        <5>. QED
          BY <1>1, <1>2, <2>2, <5>1
      <4>5. (n + 1) - 1 = n
        BY <1>2
      <4>. QED
        BY <1>1, <2>2, <3>2, <4>1, <4>2, <4>3, <4>4, <4>5 DEF Counted, p
    <3>. QED
      BY <1>5, <3>1, <3>2 DEF Cut
  <2>. QED
    BY <2>7, <2>8
<1>. QED
  BY <1>0, <1>4, <1>5, IterateCases

-----------------------------------------------------------------------------
(* Loading a section.                                                      *)

Kinds == {"ok", "exit", "abort", "refused"}
Section == [addr : 0 .. (Space - 1), size : 0 .. (Space - Line), alloc : BOOLEAN,
            progbits : BOOLEAN, bytes : Seq(0 .. 255)]

\* f gives what the recursion over the bytes of a section has made of s after each.
InTurn(f, s, sec) ==
    /\ LoadBytes(s, sec) = f[Len(sec.bytes)] /\ f[0] = s
    /\ \A k \in 1 .. Len(sec.bytes) : f[k] = LoadByte(f[k - 1], sec, k)

\* There is a value after each byte.
LEMMA BytesInTurn ==
    ASSUME NEW s, NEW sec, Len(sec.bytes) \in Nat
    PROVE  \E f : InTurn(f, s, sec)
<1>. DEFINE Rec(h, n) == [k \in 0 .. n |-> IF k = 0 THEN s ELSE LoadByte(h[k - 1], sec, k)]
            Defined == {n \in Nat : \E h : h = Rec(h, n)}
            N == Len(sec.bytes)
            loaded == CHOOSE h : h = Rec(h, N)
<1>1. 0 \in Defined
  <2>1. [k \in 0 .. 0 |-> s] = Rec([k \in 0 .. 0 |-> s], 0)
    OBVIOUS
  <2>. QED
    BY <2>1
<1>2. ASSUME NEW n \in 1 .. N, n - 1 \in Defined PROVE n \in Defined
  <2>1. PICK h : h = Rec(h, n - 1)
    BY <1>2
  <2>. DEFINE g == [k \in 0 .. n |-> IF k < n THEN h[k] ELSE LoadByte(h[n - 1], sec, n)]
              r == Rec(h, n - 1)
  <2>2. \A k \in 0 .. n - 1 : h[k] = IF k = 0 THEN s ELSE LoadByte(h[k - 1], sec, k)
    <3>1. \A k \in 0 .. n - 1 : r[k] = IF k = 0 THEN s ELSE LoadByte(h[k - 1], sec, k)
      OBVIOUS
    <3>2. h = r
      BY <2>1
    <3>. HIDE DEF r
    <3>. QED
      BY <3>1, <3>2
  <2>3. g = Rec(g, n)
    <3>. SUFFICES ASSUME NEW k \in 0 .. n
                  PROVE  g[k] = IF k = 0 THEN s ELSE LoadByte(g[k - 1], sec, k)
      OBVIOUS
    <3>1. CASE k < n
      <4>1. k \in 0 .. n - 1 /\ (k # 0 => k - 1 \in 0 .. n /\ k - 1 < n)
        BY <3>1
      <4>2. g[k] = h[k] /\ (k # 0 => g[k - 1] = h[k - 1])
        BY <3>1, <4>1
      <4>. QED
        BY <2>2, <4>1, <4>2
    <3>2. CASE k = n
      <4>1. g[k] = LoadByte(h[n - 1], sec, n) /\ g[k - 1] = h[n - 1] /\ k # 0
        BY <3>2
      <4>. QED
        BY <3>2, <4>1
    <3>. QED
      BY <3>1, <3>2
  <2>4. \E f : f = Rec(f, n)
    BY <2>3
  <2>. QED
    BY <2>4
<1>3. N \in Defined
  <2>. HIDE DEF Defined, N
  <2>1. N \in Nat
    BY DEF N
  <2>2. \A k \in 0 .. N : k \in Defined
    BY <1>1, <1>2, <2>1, InductionTo, Zenon
  <2>. QED
    BY <2>1, <2>2
<1>4. loaded = Rec(loaded, N)
  <2>1. \E h : h = Rec(h, N)
    BY <1>3
  <2>. HIDE DEF Rec
  <2>. QED
    BY <2>1
<1>5. LoadBytes(s, sec) = loaded[N]
  BY DEF LoadBytes
<1>6. \A k \in 0 .. N : loaded[k] = IF k = 0 THEN s ELSE LoadByte(loaded[k - 1], sec, k)
  <2>. DEFINE r == Rec(loaded, N)
  <2>1. \A k \in 0 .. N : r[k] = IF k = 0 THEN s ELSE LoadByte(loaded[k - 1], sec, k)
    OBVIOUS
  <2>2. loaded = r
    BY <1>4
  <2>. HIDE DEF r, loaded
  <2>. QED
    BY <2>1, <2>2
<1>. HIDE DEF loaded
<1>7. InTurn(loaded, s, sec)
  BY <1>5, <1>6 DEF InTurn
<1>. QED
  BY <1>7

\* The ways a call can fail.
LEMMA CallKinds ==
    ASSUME Given
    PROVE  /\ \A ms, a, len : CosimCreate(ms, a, len).st \in Kinds
           /\ \A ms, a, b : CosimWrite(ms, a, b).st \in Kinds
<1>1. ASSUME NEW ms, NEW a, NEW len PROVE CosimCreate(ms, a, len).st \in Kinds
  <2>. DEFINE results == [i \in Units |-> UnitCreate(i, ms[i], a, len)]
  <2>1. \A i \in Units : results[i].kind \in Kinds
    BY DEF UnitCreate, TbCreate, Kinds
  <2>. HIDE DEF results
  <2>2. Together(results).st \in Kinds
    BY <2>1, TogetherOutcome DEF Kinds
  <2>. QED
    BY <2>2 DEF CosimCreate, results
<1>2. ASSUME NEW ms, NEW a, NEW b PROVE CosimWrite(ms, a, b).st \in Kinds
  <2>. DEFINE results == [i \in Units |-> UnitWrite(i, ms[i], a, b)]
  <2>1. \A i \in Units : results[i].kind \in Kinds
    BY WriteKinds DEF Kinds
  <2>. HIDE DEF results
  <2>2. Together(results).st \in Kinds
    BY <2>1, TogetherOutcome DEF Kinds
  <2>. QED
    BY <2>2 DEF CosimWrite, results, Kinds
<1>. QED
  BY <1>1, <1>2

\* A section of the file.
LEMMA SectionType ==
    ASSUME Given, NEW k \in 1 .. Len(image.sections)
    PROVE  image.sections[k] \in Section
<1>1. image.sections \in Seq(Section)
  BY CosimAssumption DEF Given, Section
<1>. QED
  BY <1>1, ElementOfSeq

\* Loading a section fails in one of these ways.
LEMMA SectionKinds ==
    ASSUME Given, NEW sec \in Section
    PROVE  LoadSection(sec).st \in Kinds
<1>1. LoadSection(sec).st \in Kinds \/ \E c : c.st = "ok" /\ LoadSection(sec) = LoadBytes(c, sec)
  <2>. DEFINE c == CosimCreate(mems, sec.addr, sec.size)
  <2>1. c.st \in Kinds
    BY CallKinds
  <2>. HIDE DEF c
  <2>2. LoadSection(sec) = IF ~sec.alloc \/ sec.size = 0 THEN [mems |-> mems, st |-> "ok"]
                           ELSE IF c.st = "ok" /\ sec.progbits THEN LoadBytes(c, sec) ELSE c
    BY DEF LoadSection, c
  <2>. QED
    BY <2>1, <2>2 DEF Kinds
<1>2. ASSUME NEW c, c.st = "ok" PROVE LoadBytes(c, sec).st \in Kinds
  <2>. DEFINE N == Len(sec.bytes)
  <2>1. N \in Nat
    BY LenProperties DEF Section
  <2>0. PICK f : InTurn(f, c, sec)
    BY <2>1, BytesInTurn
  <2>2. /\ LoadBytes(c, sec) = f[N] /\ f[0] = c
        /\ \A k \in 1 .. N : f[k] = LoadByte(f[k - 1], sec, k)
    BY <2>0 DEF InTurn
  <2>. DEFINE S == {k \in 0 .. N : f[k].st \in Kinds}
  <2>3. 0 \in S
    BY <1>2, <2>1, <2>2 DEF Kinds
  <2>4. ASSUME NEW k \in 1 .. N, k - 1 \in S PROVE k \in S
    <3>1. f[k] = LoadByte(f[k - 1], sec, k) /\ f[k - 1].st \in Kinds
      BY <2>2, <2>4
    <3>2. LoadByte(f[k - 1], sec, k).st \in Kinds
      BY <3>1, CallKinds DEF LoadByte, Kinds
    <3>. QED
      BY <2>1, <3>1, <3>2
  <2>5. N \in S
    <3>. HIDE DEF S, N
    <3>1. \A k \in 0 .. N : k \in S
      BY <2>1, <2>3, <2>4, InductionTo, Zenon
    <3>. QED
      BY <2>1, <3>1
  <2>. QED
    BY <2>2, <2>5
<1>. QED
  BY <1>1, <1>2

\* A step of the loader: the section is in memory and the next one follows, or the
\* process ends.
LEMMA LoadCases ==
    ASSUME Given, CpuTypes, Load
    PROVE  LET sec == image.sections[section]
               r == LoadSection(sec)
           IN  /\ sec \in Section /\ mems' = r.mems
               /\ UNCHANGED <<setup, image, opt, cpus, current, cycles, ran>>
               /\ \/ r.st = "ok" /\ section' = section + 1 /\ UNCHANGED <<phase, out>>
                  \/ /\ r.st \in Kinds \ {"ok"} /\ UNCHANGED section
                     /\ Cut
<1>. DEFINE sec == image.sections[section]
            r == LoadSection(sec)
<1>1. sec \in Section
  <2>1. section \in 1 .. Len(image.sections)
    <3>1. image.sections \in Seq(Section)
      BY CosimAssumption DEF Given, Section
    <3>2. Len(image.sections) \in Nat
      BY <3>1, LenProperties
    <3>. QED
      BY <3>2 DEF Load, CpuTypes
  <2>. QED
    BY <2>1, SectionType
<1>2. r.st \in Kinds
  BY <1>1, SectionKinds
<1>3. /\ mems' = r.mems /\ UNCHANGED <<setup, image, opt, cpus, current, cycles, ran>>
      /\ IF r.st = "ok" THEN section' = section + 1 /\ UNCHANGED <<phase, out>>
                        ELSE Failed(r.st) /\ UNCHANGED section
  BY DEF Load, Fixed
<1>. HIDE DEF r, sec
<1>4. r.st # "ok" => Cut
  BY <1>2, <1>3, FailedEnds DEF Kinds
<1>. QED
  BY <1>1, <1>2, <1>3, <1>4 DEF r, sec

-----------------------------------------------------------------------------
(* The invariant of the run.                                               *)

\* Before the loop nothing has run; after it nothing runs any more.
LEMMA RunInvStep == ASSUME RunInv, [Next]_vars PROVE RunInv'
<1>0. Given /\ CpuTypes /\ Counted /\ StopsInTime
  BY DEF RunInv
<1>1. Given' /\ CpuTypes'
  BY <1>0, TypesStep
<1>2. ASSUME UNCHANGED <<ran, cycles, opt>>, phase \in {"memory", "load"},
             phase' = "load" \/ Cut
      PROVE  Counted' /\ StopsInTime'
  BY <1>0, <1>2 DEF Counted, StopsInTime, LoopLeft, Cut
<1>3. CASE UNCHANGED vars
  <2>1. Counted' /\ StopsInTime'
    BY <1>0, <1>3 DEF Counted, StopsInTime, LoopLeft, Units, vars
  <2>. QED
    BY <1>1, <2>1 DEF RunInv
<1>4. CASE ExplicitMemory
  <2>1. phase' = "load" \/ Cut
    BY <1>4, FailedEnds DEF ExplicitMemory
  <2>2. Counted' /\ StopsInTime'
    BY <1>2, <1>4, <2>1 DEF ExplicitMemory, Fixed
  <2>. QED
    BY <1>1, <2>2 DEF RunInv
<1>5. CASE Load
  <2>1. UNCHANGED <<ran, cycles, opt>> /\ phase = "load"
    BY <1>5 DEF Load, Fixed
  <2>2. phase' = "load" \/ Cut
    BY <1>0, <1>5, <2>1, LoadCases
  <2>3. Counted' /\ StopsInTime'
    BY <1>2, <2>1, <2>2
  <2>. QED
    BY <1>1, <2>3 DEF RunInv
<1>6. CASE Reset
  <2>1. UNCHANGED <<ran, cycles, opt>> /\ phase = "load" /\ phase' = "run"
    BY <1>6 DEF Reset, Fixed
  <2>2. Len(ran.pcs) = 0 /\ cycles = 0
    BY <1>0, <2>1, EmptySeq DEF Counted
  <2>3. Counted' /\ StopsInTime'
    BY <1>0, <2>1, <2>2 DEF Counted, StopsInTime, LoopLeft
  <2>. QED
    BY <1>1, <2>3 DEF RunInv
<1>7. CASE Iterate
  <2>1. Counted' /\ StopsInTime'
    BY <1>1, <1>7, IterateCounts
  <2>. QED
    BY <1>1, <2>1 DEF RunInv
<1>8. CASE AtExit
  <2>1. UNCHANGED <<ran, cycles, opt, cpus, current, setup>> /\ phase' = "exit"
    BY <1>8, FailedEnds DEF AtExit, Fixed, Exit, Cut
  <2>2. phase = "done" \/ ~MoreToDo
    BY <1>8 DEF AtExit
  <2>3. \/ opt.max > 0 /\ Len(ran.pcs) = opt.max
        \/ current = opt.stop
        \/ \E i \in Units : cpus[i].brk
    BY <1>0, <2>2 DEF StopsInTime, LoopLeft, MoreToDo
  <2>4. Counted' /\ StopsInTime'
    BY <1>0, <2>1, <2>3 DEF Counted, StopsInTime, Units
  <2>. QED
    BY <1>1, <2>4 DEF RunInv
<1>. QED
  BY <1>3, <1>4, <1>5, <1>6, <1>7, <1>8 DEF Next

\* It holds at the start.
LEMMA RunInvInit == ASSUME Init PROVE RunInv
<1>1. Given
  BY DEF Init, Given
<1>2. ran.pcs = <<>> /\ cycles = 0 /\ section = 1 /\ phase = "memory"
  BY DEF Init
<1>3. 0 \in Pcs
  BY DEF Pcs
<1>4. CpuTypes
  <2>1. cpus \in [Units -> Cpu]
    BY <1>3, IdleType DEF Init
  <2>2. ran.log \in [Units -> [EventTypes -> Seq(Values)]] /\ ran.pcs \in Seq(Pcs)
    BY EmptySeq DEF Init
  <2>. QED
    BY <1>2, <2>1, <2>2 DEF CpuTypes
<1>5. Len(ran.pcs) = 0 /\ DOMAIN ran.pcs = {}
  BY <1>2, EmptySeq
<1>6. StopsInTime
  BY <1>1, <1>2, <1>5, OptionTypes DEF StopsInTime, LoopLeft, None
<1>. QED
  BY <1>1, <1>2, <1>4, <1>6 DEF RunInv, Counted

(***************************************************************************)
(* With -c n, n not 0, a run ends after n instructions at the latest, with *)
(* -r one instruction after the address at the latest, and for no other    *)
(* reason than these or a break, so -c 0 does not end it: the loop of      *)
(* riscv_main for every program and number of processors.                  *)
(***************************************************************************)
THEOREM StopsInTimeCorrect == Spec => []StopsInTime
<1>1. Init => RunInv
  BY RunInvInit
<1>2. RunInv /\ [Next]_vars => RunInv'
  BY RunInvStep
<1>3. RunInv => StopsInTime
  BY DEF RunInv
<1>. QED
  BY <1>1, <1>2, <1>3, PTL DEF Spec

-----------------------------------------------------------------------------
(* The processors agree.                                                   *)

\* What cosim::step can compare: it looks at registers only where the first processor
\* shows them, so two that show theirs are compared if the first one does.
FirstShowsRegisters ==
    \A s \in Setups : \A i, j \in DOMAIN s.units :
      (s.units[i] = "sim" /\ s.units[j] = "sim" /\ i # j) => s.units[1] = "sim"

\* A queue is what is left of a log after p events.
Follows(q, log, p) == /\ Len(log) = p + Len(q)
                      /\ \A k \in 1 .. Len(q) : q[k] = log[p + k]

\* p events of a type have been compared: they were the same everywhere, and of the
\* others some processor has at most one.
Compared(ev, p) ==
    /\ \A i \in Units : Follows(cpus[i].q[ev], ran.log[i][ev], p)
    /\ \A i, j \in Units : \A k \in 1 .. p : ran.log[i][ev][k] = ran.log[j][ev][k]
    /\ \E i \in Units : Len(cpus[i].q[ev]) <= 1

\* All show the same.
Alike == /\ \A i, j \in Units : cpus[i].pc = cpus[j].pc
         /\ \A i, j \in Units : (IsSim(i) /\ IsSim(j)) => cpus[i].reg = cpus[j].reg

\* The invariant behind AgreedSoFar.
AgreeInv ==
    /\ phase \in {"memory", "load"} =>
         cycles = 0 /\ \A i \in Units : \A ev \in EventTypes : ran.log[i][ev] = <<>>
    /\ (phase \in {"run", "done"} /\ ~setup.direct) =>
         /\ \A ev \in EventTypes : \E p \in Nat : Compared(ev, p)
         /\ cycles > 0 => Alike

\* An event goes to the end of the queue and of the log.
LEMMA FollowsAppend ==
    ASSUME NEW q \in Seq(Values), NEW log \in Seq(Values), NEW p \in Nat, NEW v \in Values,
           Follows(q, log, p)
    PROVE  Follows(Append(q, v), Append(log, v), p)
<1>1. Len(log) = p + Len(q) /\ Len(q) \in Nat
  BY LenProperties DEF Follows
<1>2. /\ Len(Append(q, v)) = Len(q) + 1 /\ Len(Append(log, v)) = Len(log) + 1
      /\ \A k \in 1 .. Len(q) : Append(q, v)[k] = q[k]
      /\ \A k \in 1 .. Len(log) : Append(log, v)[k] = log[k]
      /\ Append(q, v)[Len(q) + 1] = v /\ Append(log, v)[Len(log) + 1] = v
  BY Appended
<1>3. ASSUME NEW k \in 1 .. Len(q) + 1 PROVE Append(q, v)[k] = Append(log, v)[p + k]
  <2>1. CASE k \in 1 .. Len(q)
    <3>1. p + k \in 1 .. Len(log) /\ q[k] = log[p + k]
      BY <1>1, <2>1 DEF Follows
    <3>. QED
      BY <1>2, <2>1, <3>1
  <2>2. CASE k = Len(q) + 1
    <3>1. p + k = Len(log) + 1
      BY <1>1, <2>2
    <3>. QED
      BY <1>2, <2>2, <3>1
  <2>. QED
    BY <1>1, <2>1, <2>2
<1>. QED
  BY <1>1, <1>2, <1>3 DEF Follows

\* A comparison takes the first event of the queue: it is the next of the log.
LEMMA FollowsTail ==
    ASSUME NEW q \in Seq(Values), NEW log \in Seq(Values), NEW p \in Nat, q # <<>>,
           Follows(q, log, p)
    PROVE  Follows(Tail(q), log, p + 1) /\ Head(q) = log[p + 1]
<1>1. Len(log) = p + Len(q) /\ \A k \in 1 .. Len(q) : q[k] = log[p + k]
  BY DEF Follows
<1>2. /\ Head(q) = q[1] /\ Len(Tail(q)) = Len(q) - 1 /\ Len(q) \in Nat \ {0}
      /\ \A k \in 1 .. Len(q) - 1 : Tail(q)[k] = q[k + 1]
  BY Shortened
<1>3. ASSUME NEW k \in 1 .. Len(q) - 1 PROVE Tail(q)[k] = log[(p + 1) + k]
  <2>1. k + 1 \in 1 .. Len(q) /\ p + (k + 1) = (p + 1) + k
    BY <1>2
  <2>2. q[k + 1] = log[p + (k + 1)]
    BY <1>1, <2>1
  <2>. QED
    BY <1>2, <2>1, <2>2
<1>4. Head(q) = log[p + 1]
  BY <1>1, <1>2
<1>5. Len(log) = (p + 1) + Len(Tail(q))
  BY <1>1, <1>2
<1>. QED
  BY <1>2, <1>3, <1>4, <1>5 DEF Follows

\* Neighbours with the same event all have the same event.
LEMMA HeadsEqual ==
    ASSUME Given, CpuTypes, NEW ev \in EventTypes, AllReady(ev), ~EventsDiffer
    PROVE  \A i \in Units : Head(cpus[i].q[ev]) = Head(cpus[1].q[ev])
<1>. DEFINE n == Len(setup.units) - 1
            S == {k \in 0 .. n : Head(cpus[k + 1].q[ev]) = Head(cpus[1].q[ev])}
<1>1. n \in Nat /\ Units = 1 .. n + 1
  BY SomeUnit
<1>2. 0 \in S
  BY <1>1
<1>3. ASSUME NEW k \in 1 .. n, k - 1 \in S PROVE k \in S
  <2>1. k \in Units /\ k + 1 \in Units /\ (k - 1) + 1 = k
    BY <1>1
  <2>2. Head(cpus[k].q[ev]) = Head(cpus[k + 1].q[ev])
    BY <2>1 DEF EventsDiffer
  <2>. QED
    BY <1>1, <1>3, <2>1, <2>2
<1>4. \A k \in 0 .. n : k \in S
  <2>. HIDE DEF n, S
  <2>. QED
    BY <1>1, <1>2, <1>3, InductionTo, Zenon
<1>5. ASSUME NEW i \in Units PROVE Head(cpus[i].q[ev]) = Head(cpus[1].q[ev])
  <2>1. i - 1 \in 0 .. n /\ (i - 1) + 1 = i
    BY <1>1
  <2>2. i - 1 \in S
    BY <1>4, <2>1
  <2>. QED
    BY <2>1, <2>2
<1>. QED
  BY <1>5

\* A step compares what it finds and may add one event of each type everywhere.
LEMMA ComparedStep ==
    ASSUME Given, CpuTypes, ~setup.direct, ~EventsDiffer, UNCHANGED setup,
           NEW es \in [Units -> Effects],
           cpus' = [i \in Units |-> Stepped(Before(cpus[i]), es[i])],
           Remember(cpus', es),
           NEW ev \in EventTypes, NEW p \in Nat, Compared(ev, p)
    PROVE  \E r \in Nat : Compared(ev, r)'
<1>. DEFINE Q(i) == cpus[i].q[ev]
            L(i) == ran.log[i][ev]
            Mid(i) == IF AllReady(ev) THEN Tail(Q(i)) ELSE Q(i)
            r == IF AllReady(ev) THEN p + 1 ELSE p
<1>1. \A i \in Units : Q(i) \in Seq(Values) /\ L(i) \in Seq(Values)
  BY DEF CpuTypes, Cpu
<1>2. \A i \in Units : Follows(Q(i), L(i), p)
  BY DEF Compared
<1>3. \A i \in Units : AllReady(ev) => Q(i) # <<>>
  BY DEF AllReady
<1>4. \A i \in Units : ev \in DOMAIN es[i].ev => es[i].ev[ev] \in Values
  BY DEF Values
<1>5. \A i \in Units :
        /\ cpus'[i].q[ev] = IF ev \in DOMAIN es[i].ev THEN Append(Mid(i), es[i].ev[ev]) ELSE Mid(i)
        /\ ran.log'[i][ev] = IF ev \in DOMAIN es[i].ev THEN Append(L(i), es[i].ev[ev]) ELSE L(i)
  BY Remembered DEF QueueAfter, LogAfter
<1>6. Units' = Units
  BY DEF Units
<1>7. \A i \in Units : AllReady(ev) => Head(Q(i)) = Head(Q(1))
  BY HeadsEqual
<1>8. \E i \in Units : Len(Q(i)) <= 1
  BY DEF Compared
<1>9. \A i, j \in Units : \A k \in 1 .. p : L(i)[k] = L(j)[k]
  BY DEF Compared
<1>10. r \in Nat /\ (r = p \/ (AllReady(ev) /\ r = p + 1))
  OBVIOUS
<1>11. \E i \in Units : ~AllReady(ev) => Q(i) = <<>>
  BY SomeUnit DEF AllReady
<1>. HIDE DEF Q, L
<1>12. \A i \in Units : Mid(i) \in Seq(Values) /\ Follows(Mid(i), L(i), r)
  <2>. SUFFICES ASSUME NEW i \in Units PROVE Mid(i) \in Seq(Values) /\ Follows(Mid(i), L(i), r)
    OBVIOUS
  <2>1. CASE AllReady(ev)
    <3>1. Tail(Q(i)) \in Seq(Values)
      BY <1>1, <1>3, <2>1, Shortened
    <3>2. Follows(Tail(Q(i)), L(i), p + 1)
      BY <1>1, <1>2, <1>3, <2>1, FollowsTail
    <3>. QED
      BY <2>1, <3>1, <3>2
  <2>2. CASE ~AllReady(ev)
    BY <1>1, <1>2, <2>2
  <2>. QED
    BY <2>1, <2>2
<1>13. \A i, j \in Units : \A k \in 1 .. r : L(i)[k] = L(j)[k]
  <2>1. \A i \in Units : AllReady(ev) => Head(Q(i)) = L(i)[p + 1]
    BY <1>1, <1>2, <1>3, FollowsTail
  <2>2. \A i, j \in Units : AllReady(ev) => L(i)[p + 1] = L(j)[p + 1]
    BY <1>7, <2>1
  <2>3. \A k \in 1 .. r : k \in 1 .. p \/ (AllReady(ev) /\ k = p + 1)
    BY <1>10
  <2>. HIDE DEF r
  <2>. QED
    BY <1>9, <2>2, <2>3
<1>14. \E i \in Units : Mid(i) = <<>>
  <2>1. CASE AllReady(ev)
    <3>1. PICK i \in Units : Len(Q(i)) <= 1
      BY <1>8
    <3>2. Tail(Q(i)) \in Seq(Values) /\ Len(Tail(Q(i))) = Len(Q(i)) - 1 /\ Len(Q(i)) \in Nat \ {0}
      BY <1>1, <1>3, <2>1, Shortened
    <3>3. Len(Tail(Q(i))) = 0
      BY <3>1, <3>2
    <3>4. Tail(Q(i)) = <<>>
      BY <3>2, <3>3, EmptySeq
    <3>. QED
      BY <2>1, <3>4
  <2>2. CASE ~AllReady(ev)
    BY <1>11, <2>2
  <2>. QED
    BY <2>1, <2>2
<1>. HIDE DEF Mid, r
<1>15. \A i \in Units : Follows(cpus'[i].q[ev], ran.log'[i][ev], r)
  <2>. SUFFICES ASSUME NEW i \in Units PROVE Follows(cpus'[i].q[ev], ran.log'[i][ev], r)
    OBVIOUS
  <2>1. CASE ev \in DOMAIN es[i].ev
    <3>1. Follows(Append(Mid(i), es[i].ev[ev]), Append(L(i), es[i].ev[ev]), r)
      BY <1>1, <1>4, <1>10, <1>12, <2>1, FollowsAppend
    <3>. QED
      BY <1>5, <2>1, <3>1
  <2>2. CASE ev \notin DOMAIN es[i].ev
    BY <1>5, <1>12, <2>2
  <2>. QED
    BY <2>1, <2>2
<1>16. \A i, j \in Units : \A k \in 1 .. r : ran.log'[i][ev][k] = ran.log'[j][ev][k]
  <2>1. ASSUME NEW i \in Units, NEW k \in 1 .. r PROVE ran.log'[i][ev][k] = L(i)[k]
    <3>1. k \in 1 .. Len(L(i))
      <4>1. Len(L(i)) = r + Len(Mid(i)) /\ Len(Mid(i)) \in Nat
        BY <1>12, LenProperties DEF Follows
      <4>. QED
        BY <1>10, <4>1
    <3>2. CASE ev \in DOMAIN es[i].ev
      <4>1. Append(L(i), es[i].ev[ev])[k] = L(i)[k]
        BY <1>1, <1>4, <3>1, <3>2, Appended
      <4>. QED
        BY <1>5, <3>2, <4>1
    <3>3. CASE ev \notin DOMAIN es[i].ev
      BY <1>5, <3>3
    <3>. QED
      BY <3>2, <3>3
  <2>. QED
    BY <1>13, <2>1
<1>17. \E i \in Units : Len(cpus'[i].q[ev]) <= 1
  <2>1. PICK i \in Units : Mid(i) = <<>>
    BY <1>14
  <2>2. Len(Mid(i)) = 0 /\ Mid(i) \in Seq(Values)
    BY <1>12, <2>1, EmptySeq
  <2>3. CASE ev \in DOMAIN es[i].ev
    <3>1. Len(Append(Mid(i), es[i].ev[ev])) = 1
      BY <1>4, <2>2, <2>3, Appended
    <3>2. cpus'[i].q[ev] = Append(Mid(i), es[i].ev[ev])
      BY <1>5, <2>3
    <3>. QED
      BY <3>1, <3>2
  <2>4. CASE ev \notin DOMAIN es[i].ev
    BY <1>5, <2>2, <2>4
  <2>. QED
    BY <2>3, <2>4
<1>18. \A d \in Nat : (/\ \A i \in Units : Follows(cpus'[i].q[ev], ran.log'[i][ev], d)
                       /\ \A i, j \in Units :
                            \A k \in 1 .. d : ran.log'[i][ev][k] = ran.log'[j][ev][k]
                       /\ \E i \in Units : Len(cpus'[i].q[ev]) <= 1)
                     => Compared(ev, d)'
  BY <1>6 DEF Compared, Follows
<1>. QED
  BY <1>10, <1>15, <1>16, <1>17, <1>18

\* What is compared after a step, as far as the first processor shows it.
LEMMA AlikeAfter ==
    ASSUME Given, FirstShowsRegisters, NEW cs, ~(PcsDiffer(cs) \/ RegsDiffer(cs))
    PROVE  /\ \A i, j \in Units : cs[i].pc = cs[j].pc
           /\ \A i, j \in Units : (IsSim(i) /\ IsSim(j)) => cs[i].reg = cs[j].reg
<1>1. \A i \in Units : cs[i].pc = cs[1].pc
  BY DEF PcsDiffer
<1>2. IsSim(1) => \A i \in Units : IsSim(i) => cs[i].reg = cs[1].reg
  BY DEF RegsDiffer
<1>3. \A i, j \in Units : (IsSim(i) /\ IsSim(j) /\ i # j) => IsSim(1)
  BY DEF Given, FirstShowsRegisters, IsSim, Units
<1>. QED
  BY <1>1, <1>2, <1>3

\* The invariant is kept.
LEMMA AgreeInvStep ==
    ASSUME FirstShowsRegisters, RunInv, AgreeInv, [Next]_vars
    PROVE  AgreeInv'
<1>0. Given /\ CpuTypes /\ cycles \in Nat
  BY DEF RunInv, CpuTypes
<1>1. ASSUME UNCHANGED <<setup, cpus, cycles, ran>>, phase' = phase PROVE AgreeInv'
  BY <1>1 DEF AgreeInv, Compared, Alike, Units, IsSim
<1>2. ASSUME UNCHANGED <<setup, cycles, ran>>, phase \in {"memory", "load"},
             phase' \in {"load", "exit"}
      PROVE  AgreeInv'
  BY <1>2 DEF AgreeInv, Units
<1>3. ASSUME phase' = "exit" PROVE AgreeInv'
  BY <1>3 DEF AgreeInv
<1>4. CASE UNCHANGED vars
  BY <1>1, <1>4 DEF vars
<1>5. CASE ExplicitMemory
  <2>1. phase' \in {"load", "exit"}
    BY <1>5, FailedEnds DEF ExplicitMemory, Cut
  <2>. QED
    BY <1>2, <1>5, <2>1 DEF ExplicitMemory, Fixed
<1>6. CASE Load
  <2>1. phase = "load" /\ UNCHANGED setup
    BY <1>6 DEF Load, Fixed
  <2>2. phase' \in {"load", "exit"} /\ UNCHANGED <<cycles, ran>>
    BY <1>0, <1>6, <2>1, LoadCases DEF Cut
  <2>. QED
    BY <1>2, <2>1, <2>2
<1>7. CASE Reset
  <2>1. UNCHANGED <<ran, cycles, setup>> /\ phase = "load" /\ phase' = "run"
        /\ cpus' = [i \in Units |-> IdleCpu(IF IsSim(i) THEN image.entry ELSE 0)]
    BY <1>7 DEF Reset, Fixed
  <2>2. cycles = 0 /\ \A i \in Units : \A ev \in EventTypes : ran.log[i][ev] = <<>>
    BY <2>1 DEF AgreeInv
  <2>3. Len(<<>>) = 0
    BY EmptySeq
  <2>4. ASSUME NEW ev \in EventTypes PROVE Compared(ev, 0)'
    <3>1. \A i \in Units : cpus'[i].q[ev] = <<>> /\ ran.log'[i][ev] = <<>>
      BY <2>1, <2>2 DEF IdleCpu
    <3>2. Units' = Units /\ \E i \in Units : TRUE
      BY <1>0, <2>1, SomeUnit DEF Units
    <3>. QED
      BY <2>3, <3>1, <3>2 DEF Compared, Follows
  <2>. QED
    BY <2>1, <2>2, <2>4 DEF AgreeInv
<1>8. CASE Iterate
  <2>1. phase = "run" /\ UNCHANGED setup
    BY <1>0, <1>8, IterateCases
  <2>2. ASSUME ~setup.direct, ~EventsDiffer, NEW es \in [Units -> Effects],
               cpus' = [i \in Units |-> Stepped(Before(cpus[i]), es[i])],
               Remember(cpus', es),
               phase' \in {"run", "done"}, ~(PcsDiffer(cpus') \/ RegsDiffer(cpus'))
        PROVE  AgreeInv'
    <3>1. ASSUME NEW ev \in EventTypes PROVE \E r \in Nat : Compared(ev, r)'
      <4>1. PICK p \in Nat : Compared(ev, p)
        BY <2>1, <2>2 DEF AgreeInv
      <4>. QED
        BY <1>0, <2>1, <2>2, <4>1, ComparedStep
    <3>2. Alike'
      BY <1>0, <2>1, <2>2, AlikeAfter DEF Alike, Units, IsSim
    <3>. QED
      BY <2>2, <3>1, <3>2 DEF AgreeInv
  <2>3. ASSUME setup.direct, phase' # "memory", phase' # "load" PROVE AgreeInv'
    BY <2>1, <2>3 DEF AgreeInv
  <2>4. \/ phase' = "exit"
        \/ \E es \in [Units -> Effects] :
             /\ setup.direct \/ ~EventsDiffer
             /\ cpus' = [i \in Units |-> Stepped(Before(cpus[i]), es[i])]
             /\ Remember(cpus', es)
             /\ phase' = IF AtLimit(cycles') THEN "done" ELSE "run"
             /\ setup.direct \/ ~(PcsDiffer(cpus') \/ RegsDiffer(cpus'))
    BY <1>0, <1>8, IterateCases DEF Cut
  <2>. QED
    BY <1>3, <2>2, <2>3, <2>4
<1>9. CASE AtExit
  <2>1. phase' = "exit"
    BY <1>9, FailedEnds DEF AtExit, Exit, Cut
  <2>. QED
    BY <1>3, <2>1
<1>. QED
  BY <1>4, <1>5, <1>6, <1>7, <1>8, <1>9 DEF Next

\* It says what AgreedSoFar says: events beyond the compared ones are those of the
\* processor that has at most one of them.
LEMMA AgreeInvAgreed == ASSUME RunInv, AgreeInv PROVE AgreedSoFar
<1>. SUFFICES ASSUME phase \in {"run", "done"}, cycles > 0, ~setup.direct
              PROVE  /\ \A i, j \in Units : cpus[i].pc = cpus[j].pc
                     /\ \A i, j \in Units : (IsSim(i) /\ IsSim(j)) => cpus[i].reg = cpus[j].reg
                     /\ \A ev \in EventTypes : \A k \in 1 .. (CommonEvents(ev) - 1) :
                          \A i, j \in Units : ran.log[i][ev][k] = ran.log[j][ev][k]
  BY DEF AgreedSoFar
<1>1. Alike
  BY DEF AgreeInv
<1>2. ASSUME NEW ev \in EventTypes
      PROVE  \A k \in 1 .. (CommonEvents(ev) - 1) : \A i, j \in Units :
               ran.log[i][ev][k] = ran.log[j][ev][k]
  <2>1. PICK p \in Nat : Compared(ev, p)
    BY DEF AgreeInv
  <2>. DEFINE S == {Len(ran.log[i][ev]) : i \in Units}
              n == CommonEvents(ev)
  <2>2. \A i \in Units : Len(ran.log[i][ev]) \in Nat
    BY LenProperties DEF RunInv, CpuTypes
  <2>3. n \in S /\ \A i \in Units : n <= Len(ran.log[i][ev])
    <3>0. 1 \in Units
      BY SomeUnit DEF RunInv
    <3>1. S \in SUBSET Nat /\ S # {}
      BY <2>2, <3>0
    <3>2. \E m \in S : \A i \in Units : m <= Len(ran.log[i][ev])
      <4>1. PICK m \in S : \A k \in S : m <= k
        <5>. HIDE DEF S
        <5>. QED
          BY <3>1, LeastNumber
      <4>. QED
        BY <4>1
    <3>. QED
      BY <3>2 DEF CommonEvents
  <2>4. n \in Nat
    BY <2>2, <2>3
  <2>5. PICK i \in Units : Len(cpus[i].q[ev]) <= 1
    BY <2>1 DEF Compared
  <2>6. Len(ran.log[i][ev]) = p + Len(cpus[i].q[ev])
    BY <2>1 DEF Compared, Follows
  <2>7. Len(cpus[i].q[ev]) \in Nat
    BY LenProperties DEF RunInv, CpuTypes, Cpu
  <2>8. n <= p + 1
    <3>1. n <= Len(ran.log[i][ev])
      BY <2>3
    <3>. HIDE DEF n
    <3>. QED
      BY <2>4, <2>5, <2>6, <2>7, <3>1
  <2>9. \A k \in 1 .. n - 1 : k \in 1 .. p
    <3>. HIDE DEF n
    <3>. QED
      BY <2>4, <2>8
  <2>10. \A j, k \in Units : \A m \in 1 .. p : ran.log[j][ev][m] = ran.log[k][ev][m]
    BY <2>1 DEF Compared
  <2>. HIDE DEF n
  <2>11. \A k \in 1 .. n - 1 : \A j, m \in Units : ran.log[j][ev][k] = ran.log[m][ev][k]
    BY <2>9, <2>10
  <2>. QED
    BY <2>11 DEF n
<1>. QED
  BY <1>1, <1>2 DEF Alike

(***************************************************************************)
(* A simulation through cosim::step goes on only while the processors      *)
(* agree: on the address, the register and the events that all of them     *)
(* have reported but the last of each type, whatever the distance between  *)
(* them, for any number of processors of which the first shows registers   *)
(* if two do.                                                              *)
(***************************************************************************)
THEOREM AgreedSoFarCorrect ==
    ASSUME FirstShowsRegisters PROVE Spec => []AgreedSoFar
<1>1. Init => RunInv /\ AgreeInv
  <2>1. Init => AgreeInv
    BY DEF Init, AgreeInv
  <2>. QED
    BY <2>1, RunInvInit
<1>2. RunInv /\ AgreeInv /\ [Next]_vars => RunInv' /\ AgreeInv'
  BY RunInvStep, AgreeInvStep
<1>3. RunInv /\ AgreeInv => AgreedSoFar
  BY AgreeInvAgreed
<1>. QED
  BY <1>1, <1>2, <1>3, PTL DEF Spec

-----------------------------------------------------------------------------
(* Memory is a byte for each address, whichever kind of unit holds it.     *)

\* A region has a byte for each of its addresses at least.
Contents == UNION {[D -> 0 .. 255] : D \in SUBSET Nat}
Area == {r \in [base : Nat, size : Nat, mem : Contents] : 0 .. (r.size - 1) \subseteq DOMAIN r.mem}

MemTypes == mems \in [Units -> Seq(Area)]

\* The byte at an address: that of the first region which has it, none is 0.
ByteAt(m, a) == IF valid_addr(m, a) THEN m[Hit(m, a)].mem[a - m[Hit(m, a)].base] ELSE 0

\* Which addresses a region has.
Has(r, a) == a >= r.base /\ a < (r.base + r.size) % Space

\* A region in its fields.
LEMMA AreaFields ==
    ASSUME NEW r \in Area
    PROVE  /\ r.base \in Nat /\ r.size \in Nat
           /\ \A o \in 0 .. (r.size - 1) : o \in DOMAIN r.mem /\ r.mem[o] \in 0 .. 255
           /\ r.mem \in [DOMAIN r.mem -> 0 .. 255] /\ DOMAIN r.mem \in SUBSET Nat
<1>1. r \in [base : Nat, size : Nat, mem : Contents] /\ 0 .. (r.size - 1) \subseteq DOMAIN r.mem
  BY DEF Area
<1>2. r.base \in Nat /\ r.size \in Nat /\ r.mem \in Contents
  BY <1>1
<1>3. PICK D \in SUBSET Nat : r.mem \in [D -> 0 .. 255]
  BY <1>2 DEF Contents
<1>4. DOMAIN r.mem = D /\ r.mem \in [DOMAIN r.mem -> 0 .. 255]
  BY <1>3
<1>5. \A o \in 0 .. (r.size - 1) : o \in DOMAIN r.mem /\ r.mem[o] \in 0 .. 255
  BY <1>1, <1>4
<1>. QED
  BY <1>2, <1>3, <1>4, <1>5

LEMMA AreaRecord ==
    ASSUME NEW r \in Area
    PROVE  r = [base |-> r.base, size |-> r.size, mem |-> r.mem]
<1>1. r \in [base : Nat, size : Nat, mem : Contents]
  BY DEF Area
<1>. QED
  BY <1>1

\* A region from its fields.
LEMMA AreaFrom ==
    ASSUME NEW base \in Nat, NEW size \in Nat, NEW D \in SUBSET Nat, NEW mem \in [D -> 0 .. 255],
           0 .. (size - 1) \subseteq D
    PROVE  [base |-> base, size |-> size, mem |-> mem] \in Area
<1>1. mem \in Contents /\ DOMAIN mem = D
  BY DEF Contents
<1>. QED
  BY <1>1 DEF Area

\* An address of a region lies in its array, and below the last of the address space.
LEMMA HasBounds ==
    ASSUME NEW r \in Area, NEW a \in Nat, Has(r, a)
    PROVE  a - r.base \in 0 .. (r.size - 1) /\ a < Space - 1
<1>1. r.base \in Nat /\ r.size \in Nat
  BY AreaFields
<1>2. \A x \in Nat : x % Space <= x /\ x % Space < Space
  OBVIOUS
<1>3. (r.base + r.size) % Space <= r.base + r.size /\ (r.base + r.size) % Space < Space
      /\ (r.base + r.size) % Space \in Nat
  BY <1>1, <1>2
<1>. QED
  BY <1>1, <1>3 DEF Has

\* The test bench looks for a region as the simulator does.
LEMMA SameHits ==
    \A m, a : /\ TbHits(m, a) = Hits(m, a)
              /\ TbValid(m, a) = valid_addr(m, a)
              /\ TbHit(m, a) = Hit(m, a)
<1>1. Space = TbSpace
  BY CosimAssumption
<1>2. \A m, a : TbHits(m, a) = Hits(m, a)
  BY <1>1 DEF TbHits, Hits, match
<1>. QED
  BY <1>2, Zenon DEF TbValid, valid_addr, TbHit, Hit

\* The region an access goes to.
LEMMA HitFirst ==
    ASSUME NEW m \in Seq(Area), NEW a \in Nat
    PROVE  /\ Hits(m, a) = {j \in 1 .. Len(m) : Has(m[j], a)}
           /\ valid_addr(m, a) <=> \E j \in 1 .. Len(m) : Has(m[j], a)
           /\ valid_addr(m, a) =>
                /\ Hit(m, a) \in 1 .. Len(m) /\ Has(m[Hit(m, a)], a) /\ m[Hit(m, a)] \in Area
                /\ \A j \in 1 .. Len(m) : Has(m[j], a) => Hit(m, a) <= j
<1>1. Len(m) \in Nat /\ DOMAIN m = 1 .. Len(m) /\ \A j \in 1 .. Len(m) : m[j] \in Area
  BY LenProperties, ElementOfSeq
<1>. DEFINE S == Hits(m, a)
<1>2. S = {j \in 1 .. Len(m) : Has(m[j], a)}
  BY <1>1 DEF Hits, Has
<1>3. S \in SUBSET Nat
  BY <1>2
<1>4. S # {} => Hit(m, a) \in S /\ \A k \in S : Hit(m, a) <= k
  <2>1. S # {} => \E j \in S : \A k \in S : j <= k
    <3>. HIDE DEF S
    <3>. QED
      BY <1>3, LeastNumber
  <2>. QED
    BY <2>1 DEF Hit
<1>5. valid_addr(m, a) <=> S # {}
  BY DEF valid_addr
<1>. HIDE DEF S
<1>6. valid_addr(m, a) <=> \E j \in 1 .. Len(m) : Has(m[j], a)
  BY <1>2, <1>5
<1>7. valid_addr(m, a) =>
        /\ Hit(m, a) \in 1 .. Len(m) /\ Has(m[Hit(m, a)], a)
        /\ \A j \in 1 .. Len(m) : Has(m[j], a) => Hit(m, a) <= j
  BY <1>2, <1>4, <1>5
<1>. QED
  BY <1>1, <1>2, <1>6, <1>7 DEF S

\* The first region that has an address is the one an access goes to.
LEMMA HitIs ==
    ASSUME NEW m \in Seq(Area), NEW a \in Nat, NEW j \in 1 .. Len(m), Has(m[j], a),
           \A k \in 1 .. Len(m) : Has(m[k], a) => j <= k
    PROVE  valid_addr(m, a) /\ Hit(m, a) = j
<1>1. valid_addr(m, a)
  BY HitFirst
<1>2. Hit(m, a) \in 1 .. Len(m) /\ Hit(m, a) <= j /\ j <= Hit(m, a)
  BY <1>1, HitFirst
<1>3. Len(m) \in Nat
  BY LenProperties
<1>. QED
  BY <1>1, <1>2, <1>3

\* Reading gives that byte.
LEMMA ReadIsByte ==
    ASSUME NEW m \in Seq(Area), NEW a \in Nat
    PROVE  read(m, a) = ByteAt(m, a) /\ (valid_addr(m, a) => TbRead(m, a) = ByteAt(m, a))
<1>1. valid_addr(m, a) => TbRead(m, a) = ByteAt(m, a)
  BY SameHits DEF TbRead, ByteAt
<1>2. CASE ~valid_addr(m, a)
  BY <1>1, <1>2 DEF read, ByteAt
<1>3. CASE valid_addr(m, a)
  <2>. DEFINE r == m[Hit(m, a)]
              off == a - r.base
  <2>1. r \in Area /\ Has(r, a)
    BY <1>3, HitFirst
  <2>2. off \in 0 .. (r.size - 1) /\ r.size \in Nat
    <3>. HIDE DEF r
    <3>. QED
      BY <2>1, HasBounds, AreaFields
  <2>. HIDE DEF r
  <2>3. off \in Nat /\ off % 1 = 0 /\ off + 0 = off
    BY <2>2
  <2>4. MemLoad(m, a, 1, FALSE).data = LoadLanes(r.mem, off, 1, FALSE)
    BY <1>3, <2>3 DEF MemLoad, Aligned, r
  <2>5. LoadLanes(r.mem, off, 1, FALSE)[0] = r.mem[off]
    BY <2>3 DEF LoadLanes, Lanes
  <2>6. read(m, a) = r.mem[off]
    <3>1. read(m, a) = MemLoad(m, a, 1, FALSE).data[0]
      BY <1>3 DEF read
    <3>. QED
      BY <2>4, <2>5, <3>1, Zenon
  <2>. QED
    BY <1>1, <1>3, <2>6 DEF ByteAt, r
<1>. QED
  BY <1>2, <1>3

\* A new region comes last: what was there stays there, the rest of it is zero.
LEMMA AddedRegion ==
    ASSUME NEW m \in Seq(Area), NEW r \in Area, \A o \in 0 .. (r.size - 1) : r.mem[o] = 0
    PROVE  /\ Append(m, r) \in Seq(Area) /\ Len(Append(m, r)) = Len(m) + 1
           /\ \A a \in Nat : /\ valid_addr(Append(m, r), a) <=> valid_addr(m, a) \/ Has(r, a)
                             /\ ByteAt(Append(m, r), a) = ByteAt(m, a)
<1>. DEFINE w == Append(m, r)
            n == Len(m)
<1>1. /\ w \in Seq(Area) /\ Len(w) = n + 1 /\ n \in Nat /\ w[n + 1] = r
      /\ \A j \in 1 .. n : w[j] = m[j]
  BY Appended, LenProperties
<1>. HIDE DEF w
<1>2. ASSUME NEW a \in Nat
      PROVE  /\ valid_addr(w, a) <=> valid_addr(m, a) \/ Has(r, a)
             /\ ByteAt(w, a) = ByteAt(m, a)
  <2>1. valid_addr(w, a) <=> \E j \in 1 .. n + 1 : Has(w[j], a)
    BY <1>1, HitFirst
  <2>2. valid_addr(m, a) <=> \E j \in 1 .. n : Has(m[j], a)
    BY HitFirst
  <2>3. \A j \in 1 .. n + 1 : j \in 1 .. n \/ j = n + 1
    BY <1>1
  <2>4. 1 .. n \subseteq 1 .. n + 1 /\ n + 1 \in 1 .. n + 1
    BY <1>1
  <2>5. valid_addr(w, a) <=> valid_addr(m, a) \/ Has(r, a)
    BY <1>1, <2>1, <2>2, <2>3, <2>4
  <2>6. CASE valid_addr(m, a)
    <3>. DEFINE h == Hit(m, a)
    <3>1. h \in 1 .. n /\ Has(m[h], a) /\ \A j \in 1 .. n : Has(m[j], a) => h <= j
      BY <2>6, HitFirst
    <3>. HIDE DEF h
    <3>2. h \in 1 .. Len(w) /\ w[h] = m[h]
      BY <1>1, <2>4, <3>1
    <3>3. \A j \in 1 .. Len(w) : Has(w[j], a) => h <= j
      BY <1>1, <2>3, <3>1
    <3>4. valid_addr(w, a) /\ Hit(w, a) = h
      BY <1>1, <3>1, <3>2, <3>3, HitIs
    <3>. QED
      BY <2>5, <2>6, <3>2, <3>4 DEF ByteAt, h
  <2>7. CASE ~valid_addr(m, a) /\ Has(r, a)
    <3>1. n + 1 \in 1 .. Len(w) /\ Has(w[n + 1], a)
      BY <1>1, <2>4, <2>7
    <3>2. \A j \in 1 .. Len(w) : Has(w[j], a) => n + 1 <= j
      BY <1>1, <2>2, <2>3, <2>7
    <3>3. valid_addr(w, a) /\ Hit(w, a) = n + 1
      BY <1>1, <3>1, <3>2, HitIs
    <3>4. r.mem[a - r.base] = 0
      BY <2>7, HasBounds
    <3>5. ByteAt(w, a) = 0
      BY <1>1, <3>3, <3>4 DEF ByteAt
    <3>. QED
      BY <2>5, <2>7, <3>5 DEF ByteAt
  <2>8. CASE ~valid_addr(m, a) /\ ~Has(r, a)
    BY <2>5, <2>8 DEF ByteAt
  <2>. QED
    BY <2>5, <2>6, <2>7, <2>8
<1>. QED
  BY <1>1, <1>2 DEF w

\* w is m with other bytes in region h: the regions have the same addresses, and accesses
\* go to the same ones.
Replaced(m, w, h, bytes) ==
    /\ w \in Seq(Area) /\ Len(w) = Len(m)
    /\ \A j \in 1 .. Len(m) : w[j].base = m[j].base
    /\ \A x \in Nat : /\ valid_addr(w, x) <=> valid_addr(m, x)
                      /\ valid_addr(m, x) => Hit(w, x) = Hit(m, x)
                      /\ ByteAt(w, x) = IF valid_addr(m, x) /\ Hit(m, x) = h
                                        THEN bytes[x - m[h].base] ELSE ByteAt(m, x)

LEMMA ReplacedRegion ==
    ASSUME NEW m \in Seq(Area), NEW h \in 1 .. Len(m), NEW bytes \in [DOMAIN m[h].mem -> 0 .. 255]
    PROVE  Replaced(m, [m EXCEPT ![h].mem = bytes], h, bytes)
<1>. DEFINE r == m[h]
            s == [r EXCEPT !.mem = bytes]
            w == [m EXCEPT ![h] = s]
            n == Len(m)
<1>1. n \in Nat /\ DOMAIN m = 1 .. n /\ r \in Area
  BY LenProperties, ElementOfSeq
<1>2. [m EXCEPT ![h].mem = bytes] = w
  OBVIOUS
<1>3. bytes \in [DOMAIN r.mem -> 0 .. 255]
  OBVIOUS
<1>. HIDE DEF r
<1>4. s \in Area /\ s.base = r.base /\ s.size = r.size /\ s.mem = bytes
  <2>1. /\ r.base \in Nat /\ r.size \in Nat /\ DOMAIN r.mem \in SUBSET Nat
        /\ 0 .. (r.size - 1) \subseteq DOMAIN r.mem
    BY <1>1, AreaFields
  <2>2. s = [base |-> r.base, size |-> r.size, mem |-> bytes]
    <3>1. r = [base |-> r.base, size |-> r.size, mem |-> r.mem]
      BY <1>1, AreaRecord
    <3>. QED
      BY <3>1
  <2>. HIDE DEF s
  <2>3. s \in Area
    BY <1>3, <2>1, <2>2, AreaFrom
  <2>. QED
    BY <2>2, <2>3
<1>. HIDE DEF s
<1>5. w \in Seq(Area) /\ Len(w) = n /\ \A j \in 1 .. n : w[j] = IF j = h THEN s ELSE m[j]
  BY <1>1, <1>4, ExceptSeq
<1>. HIDE DEF w
<1>6. \A j \in 1 .. n : w[j].base = m[j].base /\ w[j].size = m[j].size
  BY <1>4, <1>5 DEF r
<1>7. \A x \in Nat : \A j \in 1 .. n : Has(w[j], x) <=> Has(m[j], x)
  BY <1>6 DEF Has
<1>8. ASSUME NEW x \in Nat
      PROVE  /\ valid_addr(w, x) <=> valid_addr(m, x)
             /\ valid_addr(m, x) => Hit(w, x) = Hit(m, x)
             /\ ByteAt(w, x) = IF valid_addr(m, x) /\ Hit(m, x) = h
                               THEN bytes[x - r.base] ELSE ByteAt(m, x)
  <2>1. valid_addr(w, x) <=> valid_addr(m, x)
    BY <1>5, <1>7, HitFirst
  <2>2. CASE ~valid_addr(m, x)
    BY <2>1, <2>2 DEF ByteAt
  <2>3. CASE valid_addr(m, x)
    <3>. DEFINE g == Hit(m, x)
    <3>1. g \in 1 .. n /\ Has(m[g], x) /\ \A j \in 1 .. n : Has(m[j], x) => g <= j
      BY <2>3, HitFirst
    <3>. HIDE DEF g
    <3>2. Hit(w, x) = g
      BY <1>5, <1>7, <3>1, HitIs
    <3>3. ByteAt(w, x) = w[g].mem[x - w[g].base] /\ ByteAt(m, x) = m[g].mem[x - m[g].base]
      BY <2>1, <2>3, <3>2 DEF ByteAt, g
    <3>4. ByteAt(w, x) = IF g = h THEN bytes[x - r.base] ELSE ByteAt(m, x)
      BY <1>4, <1>5, <3>1, <3>3 DEF r
    <3>. QED
      BY <2>1, <2>3, <3>2, <3>4 DEF g
  <2>. QED
    BY <2>2, <2>3
<1>9. Replaced(m, w, h, bytes)
  BY <1>5, <1>6, <1>8 DEF Replaced, r
<1>. QED
  BY <1>2, <1>9

\* m2 is m with byte b at address a.
Written(m, m2, a, b) ==
    /\ m2 \in Seq(Area) /\ Len(m2) = Len(m)
    /\ \A x \in Nat : /\ valid_addr(m2, x) <=> valid_addr(m, x)
                      /\ ByteAt(m2, x) = IF x = a THEN b ELSE ByteAt(m, x)

\* Changing one byte of the region an access goes to changes the byte at that address.
LEMMA WrittenRegion ==
    ASSUME NEW m \in Seq(Area), NEW a \in Nat, NEW b \in 0 .. 255, valid_addr(m, a), NEW bytes,
           LET r == m[Hit(m, a)]
           IN  bytes = [o \in DOMAIN r.mem |-> IF o = a - r.base THEN b ELSE r.mem[o]]
    PROVE  Written(m, [m EXCEPT ![Hit(m, a)].mem = bytes], a, b)
<1>. DEFINE h == Hit(m, a)
            r == m[h]
            w == [m EXCEPT ![h].mem = bytes]
<1>1. h \in 1 .. Len(m) /\ r \in Area
  BY HitFirst
<1>2. bytes = [o \in DOMAIN r.mem |-> IF o = a - r.base THEN b ELSE r.mem[o]]
  OBVIOUS
<1>3. bytes \in [DOMAIN r.mem -> 0 .. 255] /\ r.base \in Nat
  <2>. HIDE DEF r
  <2>1. r.mem \in [DOMAIN r.mem -> 0 .. 255] /\ r.base \in Nat
    BY <1>1, AreaFields
  <2>. DEFINE mem == r.mem
              base == r.base
  <2>2. bytes = [o \in DOMAIN mem |-> IF o = a - base THEN b ELSE mem[o]]
          /\ mem \in [DOMAIN mem -> 0 .. 255] /\ base \in Nat
    BY <1>2, <2>1
  <2>. HIDE DEF mem, base
  <2>3. bytes \in [DOMAIN mem -> 0 .. 255]
    <3>. DEFINE v(o) == IF o = a - base THEN b ELSE mem[o]
    <3>1. \A o \in DOMAIN mem : v(o) \in 0 .. 255
      BY <2>2
    <3>2. bytes = [o \in DOMAIN mem |-> v(o)]
      BY <2>2
    <3>. HIDE DEF v
    <3>. QED
      BY <3>1, <3>2
  <2>. QED
    BY <2>1, <2>3 DEF mem
<1>. HIDE DEF h
<1>4. /\ w \in Seq(Area) /\ Len(w) = Len(m)
      /\ \A x \in Nat : /\ valid_addr(w, x) <=> valid_addr(m, x)
                        /\ ByteAt(w, x) = IF valid_addr(m, x) /\ Hit(m, x) = h
                                          THEN bytes[x - r.base] ELSE ByteAt(m, x)
  <2>1. Replaced(m, w, h, bytes)
    BY <1>1, <1>3, ReplacedRegion
  <2>. HIDE DEF w
  <2>. QED
    BY <2>1 DEF Replaced
<1>. HIDE DEF w
<1>5. ASSUME NEW x \in Nat PROVE ByteAt(w, x) = IF x = a THEN b ELSE ByteAt(m, x)
  <2>1. CASE valid_addr(m, x) /\ Hit(m, x) = h
    <3>1. Has(r, x)
      BY <2>1, HitFirst
    <3>2. x - r.base \in DOMAIN r.mem /\ ByteAt(m, x) = r.mem[x - r.base]
      <4>1. x - r.base \in 0 .. (r.size - 1)
        BY <1>1, <3>1, HasBounds
      <4>2. x - r.base \in DOMAIN r.mem
        BY <1>1, <4>1, AreaFields
      <4>. QED
        BY <2>1, <4>2 DEF ByteAt
    <3>. HIDE DEF r
    <3>3. x - r.base = a - r.base <=> x = a
      <4>. DEFINE base == r.base
      <4>1. base \in Nat
        BY <1>3
      <4>. HIDE DEF base
      <4>2. x - base = a - base <=> x = a
        BY <4>1
      <4>. QED
        BY <4>2 DEF base
    <3>4. bytes[x - r.base] = IF x - r.base = a - r.base THEN b ELSE r.mem[x - r.base]
      BY <1>2, <3>2
    <3>5. ByteAt(w, x) = bytes[x - r.base]
      BY <1>4, <2>1
    <3>. QED
      BY <3>2, <3>3, <3>4, <3>5
  <2>2. CASE ~(valid_addr(m, x) /\ Hit(m, x) = h)
    <3>1. x # a
      BY <2>2 DEF h
    <3>. QED
      BY <1>4, <2>2, <3>1
  <2>. QED
    BY <2>1, <2>2
<1>6. Written(m, w, a, b)
  BY <1>4, <1>5 DEF Written
<1>. QED
  BY <1>6 DEF h, w

\* A write changes one byte, or the address is in no region.
UnitWrote(i, m, a, b, w) ==
    /\ valid_addr(m, a) => w.kind = "ok" /\ Written(m, w.regions, a, b)
    /\ ~valid_addr(m, a) => w.kind = (IF IsSim(i) THEN "exit" ELSE "abort") /\ w.regions = m

LEMMA UnitWrites ==
    ASSUME NEW i \in Units, NEW m \in Seq(Area), NEW a \in Nat, NEW b \in 0 .. 255
    PROVE  UnitWrote(i, m, a, b, UnitWrite(i, m, a, b))
<1>. DEFINE h == Hit(m, a)
            r == m[h]
            off == a - r.base
            bytes == [o \in DOMAIN r.mem |-> IF o = off THEN b ELSE r.mem[o]]
            w == UnitWrite(i, m, a, b)
<1>1. CASE ~valid_addr(m, a)
  <2>1. w.kind = (IF IsSim(i) THEN "exit" ELSE "abort") /\ w.regions = m
    BY <1>1, SameHits DEF UnitWrite, write, MemStore, TbWrite
  <2>. HIDE DEF w
  <2>. QED
    BY <1>1, <2>1 DEF UnitWrote, w
<1>2. CASE valid_addr(m, a)
  <2>1. /\ r.mem \in [DOMAIN r.mem -> 0 .. 255] /\ DOMAIN r.mem \in SUBSET Nat
        /\ off \in Nat /\ off \in DOMAIN r.mem
    <3>1. r \in Area /\ Has(r, a)
      BY <1>2, HitFirst
    <3>. HIDE DEF r
    <3>2. off \in 0 .. (r.size - 1) /\ r.size \in Nat
      BY <3>1, HasBounds, AreaFields
    <3>. QED
      BY <3>1, <3>2, AreaFields
  <2>2. w.kind = "ok" /\ w.regions = [m EXCEPT ![h].mem = bytes]
    <3>1. CASE IsSim(i)
      <4>. DEFINE data == [Zero EXCEPT ![0] = b]
      <4>1. data[0] = b
        BY DEF Zero, Lanes
      <4>. HIDE DEF data
      <4>2. \A o \in DOMAIN r.mem : o \in off .. (off + 1 - 1) <=> o = off
        BY <2>1
      <4>3. StoreLanes(r.mem, off, 1, data) = bytes
        <5>1. \A o \in DOMAIN r.mem : o = off => data[o - off] = b
          BY <2>1, <4>1
        <5>. HIDE DEF off, r
        <5>. QED
          BY <4>2, <5>1 DEF StoreLanes
      <4>4. off % 1 = 0
        BY <2>1
      <4>5. /\ MemStore(m, a, 1, data).kind = "ok"
            /\ MemStore(m, a, 1, data).regions =
                 [m EXCEPT ![h].mem = StoreLanes(r.mem, off, 1, data)]
        BY <1>2, <4>4 DEF MemStore, Aligned
      <4>6. w = MemStore(m, a, 1, data)
        BY <3>1 DEF UnitWrite, write, data
      <4>. QED
        BY <4>3, <4>5, <4>6
    <3>2. CASE ~IsSim(i)
      <4>1. bytes = [r.mem EXCEPT ![off] = b]
        <5>. HIDE DEF off, r
        <5>. QED
          BY <2>1
      <4>2. w = [kind |-> "ok", regions |-> [m EXCEPT ![h].mem[off] = b]]
        BY <1>2, <3>2, SameHits DEF UnitWrite, TbWrite
      <4>3. [m EXCEPT ![h].mem[off] = b] = [m EXCEPT ![h].mem = [r.mem EXCEPT ![off] = b]]
        OBVIOUS
      <4>. HIDE DEF bytes, w
      <4>. QED
        BY <4>1, <4>2, <4>3
    <3>. QED
      BY <3>1, <3>2
  <2>3. Written(m, [m EXCEPT ![h].mem = bytes], a, b)
    BY <1>2, WrittenRegion
  <2>. HIDE DEF w, bytes
  <2>4. w.kind = "ok" /\ Written(m, w.regions, a, b)
    BY <2>2, <2>3
  <2>. QED
    BY <1>2, <2>4 DEF w, UnitWrote
<1>. QED
  BY <1>1, <1>2

\* Rounding a base down and a size up to lines.
LEMMA Rounded ==
    ASSUME NEW a \in Nat, NEW len \in Nat \ {0}
    PROVE  /\ RoundedBase(a) \in 0 .. a /\ a = RoundedBase(a) + (a % Line)
           /\ RoundedSize(len) \in len .. (len + Line - 1)
<1>1. \A x \in Nat : /\ x \div Line \in Nat /\ x % Line \in 0 .. (Line - 1)
                     /\ x = (x \div Line) * Line + (x % Line)
  OBVIOUS
<1>2. \A q \in Nat : q * Line \in Nat
  OBVIOUS
<1>3. len + Line - 1 \in Nat
  OBVIOUS
<1>. DEFINE p == (a \div Line) * Line
            q == ((len + Line - 1) \div Line) * Line
            y == (len + Line - 1) % Line
            x == a % Line
<1>4. p \in Nat /\ a = p + x /\ x \in 0 .. (Line - 1)
  BY <1>1, <1>2
<1>5. q \in Nat /\ len + Line - 1 = q + y /\ y \in 0 .. (Line - 1)
  BY <1>1, <1>2, <1>3
<1>6. p = RoundedBase(a) /\ q = RoundedSize(len)
  BY DEF RoundedBase, RoundedSize
<1>. HIDE DEF p, q, x, y
<1>7. p \in 0 .. a /\ a = p + x
  BY <1>4
<1>8. q \in len .. (len + Line - 1)
  BY <1>5
<1>. QED
  BY <1>6, <1>7, <1>8 DEF x

\* The test bench finds a place: the last address is never taken.
LEMMA FirstFreeIs ==
    ASSUME NEW m \in Seq(Area), NEW base \in 0 .. (Space - 1)
    PROVE  LET f == FirstFree(m, base)
           IN  /\ f \in base .. (Space - 1) /\ ~valid_addr(m, f)
               /\ \A c \in base .. (f - 1) : valid_addr(m, c)
<1>. DEFINE S == {b \in base .. (Space - 1) : ~valid_addr(m, b)}
<1>1. S \in SUBSET Nat
  OBVIOUS
<1>2. Space - 1 \in S
  <2>1. valid_addr(m, Space - 1) => FALSE
    <3>1. Space - 1 \in Nat
      OBVIOUS
    <3>2. valid_addr(m, Space - 1) =>
            Has(m[Hit(m, Space - 1)], Space - 1) /\ m[Hit(m, Space - 1)] \in Area
      BY <3>1, HitFirst
    <3>. QED
      BY <3>1, <3>2, HasBounds
  <2>. QED
    BY <2>1
<1>3. PICK b \in S : \A c \in S : b <= c
  <2>. HIDE DEF S
  <2>. QED
    BY <1>1, <1>2, LeastNumber
<1>4. \A c \in base .. (b - 1) : c \in base .. (Space - 1) /\ ~(b <= c)
  BY <1>3
<1>5. b \in base .. (Space - 1) /\ ~valid_addr(m, b) /\ \A c \in base .. (b - 1) : valid_addr(m, c)
  BY <1>3, <1>4
<1>6. /\ \A x : TbValid(m, x) <=> valid_addr(m, x)
      /\ TbSpace = Space
  BY SameHits, CosimAssumption
<1>7. \E x \in base .. (TbSpace - 1) : ~TbValid(m, x) /\ \A c \in base .. (x - 1) : TbValid(m, c)
  BY <1>5, <1>6
<1>8. LET f == FirstFree(m, base)
      IN  f \in base .. (TbSpace - 1) /\ ~TbValid(m, f) /\ \A c \in base .. (f - 1) : TbValid(m, c)
  BY <1>7 DEF FirstFree
<1>. QED
  BY <1>6, <1>8

\* It shrinks a region to the last free address of it, past old regions inside.
LEMMA ShrunkIs ==
    ASSUME NEW m \in Seq(Area), NEW base \in 0 .. (Space - 1), ~valid_addr(m, base),
           NEW size \in Nat \ {0}
    PROVE  LET s == Shrunk(m, base, size)
           IN  /\ s \in 1 .. size /\ ~valid_addr(m, (base + s - 1) % Space)
               /\ \A t \in (s + 1) .. size : valid_addr(m, (base + t - 1) % Space)
<1>. DEFINE Free(t) == ~valid_addr(m, (base + t - 1) % Space)
            S == {d \in 0 .. (size - 1) : Free(size - d)}
<1>1. S \in SUBSET Nat
  OBVIOUS
<1>2. size - 1 \in S
  <2>1. (base + 1 - 1) % Space = base /\ size - (size - 1) = 1
    OBVIOUS
  <2>. QED
    BY <2>1
<1>3. PICK d \in S : \A c \in S : d <= c
  <2>. HIDE DEF S
  <2>. QED
    BY <1>1, <1>2, LeastNumber
<1>. HIDE DEF Free
<1>4. size - d \in 1 .. size /\ Free(size - d)
  BY <1>3
<1>5. ASSUME NEW t \in (size - d + 1) .. size PROVE ~Free(t)
  <2>1. size - t \in 0 .. (size - 1) /\ ~(d <= size - t) /\ size - (size - t) = t
    BY <1>3
  <2>2. size - t \notin S
    BY <1>3, <2>1
  <2>. QED
    BY <2>1, <2>2
<1>6. /\ \A x : TbValid(m, x) <=> valid_addr(m, x)
      /\ TbSpace = Space
  BY SameHits, CosimAssumption
<1>7. \E s \in 1 .. size :
        /\ ~TbValid(m, (base + s - 1) % TbSpace)
        /\ \A t \in (s + 1) .. size : TbValid(m, (base + t - 1) % TbSpace)
  BY <1>4, <1>5, <1>6 DEF Free
<1>8. LET s == Shrunk(m, base, size)
      IN  /\ s \in 1 .. size /\ ~TbValid(m, (base + s - 1) % TbSpace)
          /\ \A t \in (s + 1) .. size : TbValid(m, (base + t - 1) % TbSpace)
  BY <1>7 DEF Shrunk
<1>. QED
  BY <1>6, <1>8

\* m2 is m with more addresses, where there are zeros.
Extended(m, m2) ==
    /\ m2 \in Seq(Area) /\ Len(m2) \in Len(m) .. Len(m) + 1
    /\ \A x \in Nat : /\ valid_addr(m, x) => valid_addr(m2, x)
                      /\ ByteAt(m2, x) = ByteAt(m, x)

\* A region of zeros.
LEMMA ZeroRegion ==
    ASSUME NEW base \in Nat, NEW size \in Nat, NEW n \in Int, size <= n,
           NEW mem, mem = [o \in 0 .. (n - 1) |-> 0]
    PROVE  LET r == [base |-> base, size |-> size, mem |-> mem]
           IN  r \in Area /\ \A o \in 0 .. (r.size - 1) : r.mem[o] = 0
<1>1. mem \in [0 .. (n - 1) -> 0 .. 255] /\ 0 .. (n - 1) \in SUBSET Nat
  OBVIOUS
<1>2. 0 .. (size - 1) \subseteq 0 .. (n - 1)
  OBVIOUS
<1>3. [base |-> base, size |-> size, mem |-> mem] \in Area
  BY <1>1, <1>2, AreaFrom
<1>. QED
  BY <1>2, <1>3

\* Creating a region in the simulator: it has all its addresses if it ends before the
\* address space does.
LEMMA SimCreates ==
    ASSUME NEW i \in Units, IsSim(i), NEW m \in Seq(Area), NEW a \in Nat, NEW len \in Nat
    PROVE  LET c == UnitCreate(i, m, a, len)
           IN  /\ c.kind \in {"ok", "refused"} /\ Extended(m, c.regions)
               /\ (c.kind = "ok" /\ a + len < Space) =>
                    \A x \in a .. (a + len - 1) : valid_addr(c.regions, x)
               /\ c.kind = "refused" => Len(m) >= MaxRegions
<1>. DEFINE c == UnitCreate(i, m, a, len)
            r == Region(a, len, 0)
<1>1. Len(m) \in Nat
  BY LenProperties
<1>2. /\ c.kind = (IF Len(m) < MaxRegions THEN "ok" ELSE "refused")
      /\ c.regions = (IF Len(m) < MaxRegions THEN Append(m, r) ELSE m)
  BY DEF UnitCreate, attach_memory
<1>3. r \in Area /\ (\A o \in 0 .. (r.size - 1) : r.mem[o] = 0) /\ r.base = a /\ r.size = len
  <2>. DEFINE n == Extent(len)
              mem == Cleared(len, 0)
  <2>1. n \in Nat /\ len <= n
    <3>1. \A x \in Nat : x \div 4 \in Nat /\ x <= 4 * (x \div 4) + 3
      OBVIOUS
    <3>2. (len + 3) \div 4 \in Nat /\ len + 3 <= 4 * ((len + 3) \div 4) + 3
      BY <3>1
    <3>. QED
      BY <3>2 DEF Extent
  <2>2. mem = [o \in 0 .. (n - 1) |-> 0]
    BY DEF Cleared
  <2>3. r = [base |-> a, size |-> len, mem |-> mem]
    BY DEF Region
  <2>. HIDE DEF n, mem, r
  <2>. QED
    BY <2>1, <2>2, <2>3, ZeroRegion
<1>. HIDE DEF r
<1>4. CASE Len(m) < MaxRegions
  <2>1. /\ Append(m, r) \in Seq(Area) /\ Len(Append(m, r)) = Len(m) + 1
        /\ \A x \in Nat : /\ valid_addr(Append(m, r), x) <=> valid_addr(m, x) \/ Has(r, x)
                          /\ ByteAt(Append(m, r), x) = ByteAt(m, x)
    BY <1>3, AddedRegion
  <2>2. Extended(m, c.regions)
    BY <1>1, <1>2, <1>4, <2>1 DEF Extended
  <2>3. a + len < Space => \A x \in a .. (a + len - 1) : Has(r, x)
    <3>1. a + len < Space => (a + len) % Space = a + len
      OBVIOUS
    <3>. QED
      BY <1>3, <3>1 DEF Has
  <2>4. a + len < Space => \A x \in a .. (a + len - 1) : valid_addr(c.regions, x)
    BY <1>2, <1>4, <2>1, <2>3
  <2>5. c.kind = "ok"
    BY <1>2, <1>4
  <2>. HIDE DEF c
  <2>6. c.kind # "refused"
    BY <2>5
  <2>. QED
    BY <2>2, <2>4, <2>5, <2>6 DEF c
<1>5. CASE ~(Len(m) < MaxRegions)
  <2>1. c.kind = "refused" /\ c.regions = m
    BY <1>2, <1>5
  <2>. HIDE DEF c
  <2>2. Extended(m, c.regions) /\ c.kind # "ok"
    BY <1>1, <2>1 DEF Extended
  <2>. QED
    BY <1>1, <1>5, <2>1, <2>2 DEF c
<1>. QED
  BY <1>4, <1>5

\* Creating one in the test bench: from the rounded base to what the rounded size
\* reaches, unless that is beyond the address space.
LEMMA TbCreates ==
    ASSUME NEW i \in Units, ~IsSim(i), NEW m \in Seq(Area), NEW a \in 0 .. (Space - 1),
           NEW len \in Nat \ {0}
    PROVE  LET c == UnitCreate(i, m, a, len)
               end == FirstFree(m, RoundedBase(a)) + RoundedSize(len)
           IN  /\ c.kind \in {"ok", "abort"} /\ Extended(m, c.regions)
               /\ (c.kind = "ok" /\ end < Space) =>
                    \A x \in RoundedBase(a) .. (end - 1) : valid_addr(c.regions, x)
               /\ c.kind = "abort" => c.regions = m /\ (Len(m) >= TbMax \/ end >= Space)
<1>. DEFINE c == UnitCreate(i, m, a, len)
            from == RoundedBase(a)
            full == RoundedSize(len)
            base == FirstFree(m, from)
            size == Shrunk(m, base, full)
            r == [base |-> base, size |-> size, mem |-> [o \in 0 .. (size - 1) |-> 0]]
            added == add_region(m, base, size)
<1>1. from \in 0 .. (Space - 1) /\ full \in Nat \ {0}
  <2>1. a \in Nat /\ \A x \in 0 .. a : x \in 0 .. (Space - 1)
    OBVIOUS
  <2>2. \A x \in len .. (len + Line - 1) : x \in Nat \ {0}
    OBVIOUS
  <2>. QED
    BY <2>1, <2>2, Rounded
<1>. HIDE DEF from, full
<1>2. /\ base \in from .. (Space - 1) /\ ~valid_addr(m, base)
      /\ \A x \in from .. (base - 1) : valid_addr(m, x)
  BY <1>1, FirstFreeIs
<1>. HIDE DEF base
<1>3. /\ base \in 0 .. (Space - 1) /\ size \in 1 .. full
      /\ ~valid_addr(m, (base + size - 1) % Space)
      /\ \A t \in (size + 1) .. full : valid_addr(m, (base + t - 1) % Space)
  <2>1. base \in 0 .. (Space - 1)
    BY <1>1, <1>2
  <2>. QED
    BY <1>1, <1>2, <2>1, ShrunkIs
<1>. HIDE DEF size
<1>4. r \in Area /\ (\A o \in 0 .. (r.size - 1) : r.mem[o] = 0) /\ r.base = base /\ r.size = size
  <2>1. base \in Nat /\ size \in Nat /\ size \in Int
    BY <1>3
  <2>2. r \in Area /\ \A o \in 0 .. (r.size - 1) : r.mem[o] = 0
    BY <2>1, ZeroRegion
  <2>. QED
    BY <2>2
<1>. HIDE DEF r
<1>5. Len(m) \in Nat
  BY LenProperties
<1>6. added = IF Len(m) < TbMax THEN Append(m, r) ELSE m
  <2>1. ~TbValid(m, base) /\ ~TbValid(m, (base + size - 1) % TbSpace)
    BY <1>2, <1>3, SameHits, CosimAssumption
  <2>. QED
    BY <2>1 DEF add_region, r
<1>7. /\ c.kind = (IF valid_addr(added, base) THEN "ok" ELSE "abort")
      /\ c.regions = (IF valid_addr(added, base) THEN added ELSE m)
  <2>1. c = TbCreate(m, a, len)
    BY DEF UnitCreate
  <2>2. TbValid(added, base) <=> valid_addr(added, base)
    BY SameHits
  <2>3. TbCreate(m, a, len) = IF TbValid(added, base) THEN [kind |-> "ok", regions |-> added]
                              ELSE [kind |-> "abort", regions |-> m]
    BY DEF TbCreate, from, full, base, size
  <2>. HIDE DEF c, added
  <2>4. CASE valid_addr(added, base)
    BY <2>1, <2>2, <2>3, <2>4
  <2>5. CASE ~valid_addr(added, base)
    BY <2>1, <2>2, <2>3, <2>5
  <2>. QED
    BY <2>4, <2>5
<1>8. /\ Append(m, r) \in Seq(Area) /\ Len(Append(m, r)) = Len(m) + 1
      /\ \A x \in Nat : /\ valid_addr(Append(m, r), x) <=> valid_addr(m, x) \/ Has(r, x)
                        /\ ByteAt(Append(m, r), x) = ByteAt(m, x)
  BY <1>4, AddedRegion
<1>. HIDE DEF added, c
<1>9. CASE valid_addr(added, base)
  <2>1. Len(m) < TbMax /\ added = Append(m, r) /\ c.kind = "ok" /\ c.regions = Append(m, r)
    BY <1>2, <1>6, <1>7, <1>9
  <2>2. Extended(m, c.regions)
    BY <1>5, <1>8, <2>1 DEF Extended
  <2>3. ASSUME base + full < Space, NEW x \in from .. ((base + full) - 1)
        PROVE  valid_addr(c.regions, x)
    <3>1. x \in Nat
      BY <1>1, <2>3
    <3>2. CASE x < base
      BY <1>2, <1>8, <2>1, <3>1, <3>2
    <3>3. CASE x \in base .. (base + size - 1)
      <4>1. base + size < Space /\ base + size \in Nat
        BY <1>1, <1>3, <2>3
      <4>2. (base + size) % Space = base + size
        BY <4>1
      <4>3. Has(r, x)
        BY <1>3, <1>4, <3>3, <4>2 DEF Has
      <4>. QED
        BY <1>8, <2>1, <3>1, <4>3
    <3>4. CASE x >= base + size
      <4>1. x - base + 1 \in (size + 1) .. full /\ base + (x - base + 1) - 1 = x /\ x < Space
        BY <1>1, <1>3, <2>3, <3>4
      <4>2. x % Space = x
        BY <3>1, <4>1
      <4>3. valid_addr(m, x)
        BY <1>3, <4>1, <4>2
      <4>. QED
        BY <1>8, <2>1, <3>1, <4>3
    <3>. QED
      BY <1>3, <3>1, <3>2, <3>3, <3>4
  <2>4. c.kind # "abort"
    BY <2>1
  <2>5. /\ c.kind \in {"ok", "abort"} /\ Extended(m, c.regions)
        /\ (c.kind = "ok" /\ base + full < Space) =>
             \A x \in from .. ((base + full) - 1) : valid_addr(c.regions, x)
        /\ c.kind = "abort" => c.regions = m /\ (Len(m) >= TbMax \/ base + full >= Space)
    BY <2>1, <2>2, <2>3, <2>4
  <2>. QED
    BY <2>5 DEF c, from, full, base
<1>10. CASE ~valid_addr(added, base)
  <2>1. c.kind = "abort" /\ c.regions = m
    BY <1>7, <1>10
  <2>2. Extended(m, c.regions) /\ c.kind # "ok"
    BY <1>5, <2>1 DEF Extended
  <2>3. Len(m) >= TbMax \/ base + full >= Space
    <3>1. CASE Len(m) < TbMax
      <4>1. ~Has(r, base)
        BY <1>3, <1>6, <1>8, <1>10, <3>1
      <4>2. (base + size) % Space <= base
        <5>1. ~(base < (base + size) % Space)
          BY <1>3, <1>4, <4>1 DEF Has
        <5>2. (base + size) % Space \in Nat
          <6>1. \A x \in Nat : x % Space \in Nat
            OBVIOUS
          <6>. QED
            BY <1>3, <6>1
        <5>. QED
          BY <1>3, <5>1, <5>2
      <4>3. base + size < Space => (base + size) % Space = base + size
        <5>1. \A x \in Nat : x < Space => x % Space = x
          OBVIOUS
        <5>. QED
          BY <1>3, <5>1
      <4>4. base + size >= Space
        BY <1>3, <4>2, <4>3
      <4>. QED
        BY <1>1, <1>3, <4>4
    <3>2. CASE ~(Len(m) < TbMax)
      BY <1>5, <3>2
    <3>. QED
      BY <3>1, <3>2
  <2>. QED
    BY <2>1, <2>2, <2>3 DEF c, from, full, base
<1>. QED
  BY <1>9, <1>10

-----------------------------------------------------------------------------
(* What the cosim object makes of all memories together.                   *)

Memories == [Units -> Seq(Area)]

\* Why a region could not be created in unit i: no room in its table or in its addresses.
NoRoom(i, m, m2, a, len) ==
    \/ IsSim(i) /\ Len(m) >= MaxRegions
    \/ /\ ~IsSim(i) /\ m2 = m
       /\ Len(m) >= TbMax \/ FirstFree(m, RoundedBase(a)) + RoundedSize(len) >= Space

\* Which addresses are there once it could.
Reached(i, m, m2, a, len) ==
    /\ (IsSim(i) /\ a + len < Space) => \A x \in a .. (a + len - 1) : valid_addr(m2, x)
    /\ LET end == FirstFree(m, RoundedBase(a)) + RoundedSize(len)
       IN  (~IsSim(i) /\ end < Space) => \A x \in RoundedBase(a) .. (end - 1) : valid_addr(m2, x)

LEMMA UnitCreates ==
    ASSUME NEW i \in Units, NEW m \in Seq(Area), NEW a \in 0 .. (Space - 1), NEW len \in Nat \ {0}
    PROVE  LET c == UnitCreate(i, m, a, len)
           IN  /\ c.kind \in {"ok", IF IsSim(i) THEN "refused" ELSE "abort"}
               /\ Extended(m, c.regions)
               /\ c.kind = "ok" => Reached(i, m, c.regions, a, len)
               /\ c.kind # "ok" => NoRoom(i, m, c.regions, a, len)
<1>1. a \in Nat /\ len \in Nat
  OBVIOUS
<1>2. CASE IsSim(i)
  BY <1>1, <1>2, SimCreates DEF Reached, NoRoom
<1>3. CASE ~IsSim(i)
  BY <1>3, TbCreates DEF Reached, NoRoom
<1>. QED
  BY <1>2, <1>3

LEMMA CosimCreates ==
    ASSUME Given, NEW ms \in Memories, NEW a \in 0 .. (Space - 1), NEW len \in Nat \ {0}
    PROVE  LET c == CosimCreate(ms, a, len)
           IN  /\ c.mems \in Memories /\ \A i \in Units : Extended(ms[i], c.mems[i])
               /\ c.st = "ok" => \A i \in Units : Reached(i, ms[i], c.mems[i], a, len)
               /\ c.st # "ok" =>
                    \E i \in Units : /\ c.st = (IF IsSim(i) THEN "refused" ELSE "abort")
                                     /\ NoRoom(i, ms[i], c.mems[i], a, len)
<1>. DEFINE results == [i \in Units |-> UnitCreate(i, ms[i], a, len)]
            c == Together(results)
<1>1. \A i \in Units :
        /\ results[i].kind \in {"ok", IF IsSim(i) THEN "refused" ELSE "abort"}
        /\ Extended(ms[i], results[i].regions)
        /\ results[i].kind = "ok" => Reached(i, ms[i], results[i].regions, a, len)
        /\ results[i].kind # "ok" => NoRoom(i, ms[i], results[i].regions, a, len)
  BY UnitCreates DEF Memories
<1>. HIDE DEF results
<1>2. /\ c.mems = [i \in Units |-> results[i].regions]
      /\ c.st = "ok" <=> \A i \in Units : results[i].kind = "ok"
      /\ c.st # "ok" => \E i \in Units : results[i].kind # "ok" /\ c.st = results[i].kind
  BY TogetherOutcome
<1>. HIDE DEF c
<1>3. \A i \in Units : c.mems[i] = results[i].regions
  BY <1>2
<1>4. c.mems \in Memories
  BY <1>1, <1>2 DEF Memories, Extended
<1>5. c.st # "ok" => \E i \in Units : /\ c.st = (IF IsSim(i) THEN "refused" ELSE "abort")
                                      /\ NoRoom(i, ms[i], c.mems[i], a, len)
  <2>. SUFFICES ASSUME c.st # "ok"
                PROVE  \E i \in Units : /\ c.st = (IF IsSim(i) THEN "refused" ELSE "abort")
                                        /\ NoRoom(i, ms[i], c.mems[i], a, len)
    OBVIOUS
  <2>1. PICK i \in Units : results[i].kind # "ok" /\ c.st = results[i].kind
    BY <1>2
  <2>. QED
    BY <1>1, <1>3, <2>1
<1>6. c = CosimCreate(ms, a, len)
  BY DEF c, results, CosimCreate
<1>. QED
  BY <1>1, <1>2, <1>3, <1>4, <1>5, <1>6

LEMMA CosimWrites ==
    ASSUME Given, NEW ms \in Memories, NEW a \in 0 .. (Space - 1), NEW b \in 0 .. 255, CosimValid(a)
    PROVE  LET w == CosimWrite(ms, a, b)
           IN  /\ w.mems \in Memories
               /\ \A i \in Units : /\ valid_addr(ms[i], a) => Written(ms[i], w.mems[i], a, b)
                                   /\ ~valid_addr(ms[i], a) => w.mems[i] = ms[i]
               /\ w.st = "ok" <=> \A i \in Units : valid_addr(ms[i], a)
<1>. DEFINE results == [i \in Units |-> UnitWrite(i, ms[i], a, b)]
            w == Together(results)
<1>1. ASSUME NEW i \in Units
      PROVE  IF valid_addr(ms[i], a)
             THEN results[i].kind = "ok" /\ Written(ms[i], results[i].regions, a, b)
             ELSE results[i].kind # "ok" /\ results[i].regions = ms[i]
  <2>1. ms[i] \in Seq(Area) /\ a \in Nat
    BY DEF Memories
  <2>. DEFINE u == UnitWrite(i, ms[i], a, b)
  <2>2. UnitWrote(i, ms[i], a, b, u)
    BY <2>1, UnitWrites
  <2>3. results[i] = u
    OBVIOUS
  <2>. HIDE DEF results, u
  <2>. QED
    BY <2>2, <2>3 DEF UnitWrote
<1>. HIDE DEF results
<1>2. /\ w.mems = [i \in Units |-> results[i].regions]
      /\ w.st = "ok" <=> \A i \in Units : results[i].kind = "ok"
  BY TogetherOutcome
<1>. HIDE DEF w
<1>3. \A i \in Units : w.mems[i] = results[i].regions
  BY <1>2
<1>4. \A i \in Units : results[i].regions \in Seq(Area)
  BY <1>1 DEF Memories, Written
<1>5. w.mems \in Memories
  BY <1>2, <1>4 DEF Memories
<1>6. w.st = "ok" <=> \A i \in Units : valid_addr(ms[i], a)
  BY <1>1, <1>2
<1>7. w = CosimWrite(ms, a, b)
  BY DEF w, results, CosimWrite
<1>. QED
  BY <1>1, <1>3, <1>5, <1>6, <1>7

-----------------------------------------------------------------------------
(* The bytes of a section reach memory.                                    *)

SameAddresses(m, m2) == /\ Len(m2) = Len(m)
                        /\ \A x \in Nat : valid_addr(m2, x) <=> valid_addr(m, x)

\* m2 is m with the first k bytes of the section.
HasBytes(m, m2, sec, k) ==
    \A x \in Nat : ByteAt(m2, x) = IF x \in sec.addr .. (sec.addr + k - 1)
                                   THEN sec.bytes[x - sec.addr + 1] ELSE ByteAt(m, x)

\* The section does not fit into what is there.
TooLong(ms, sec) ==
    \/ sec.addr + sec.size >= Space
    \/ \E i \in Units : \E x \in sec.addr .. (sec.addr + sec.size - 1) : ~valid_addr(ms[i], x)

\* From c, s has been reached with k bytes.
Advanced(c, s, sec, k) ==
    /\ s.mems \in Memories /\ \A i \in Units : SameAddresses(c.mems[i], s.mems[i])
    /\ s.st = "ok" => /\ k = 0 \/ sec.addr + k < Space
                      /\ \A i \in Units : HasBytes(c.mems[i], s.mems[i], sec, k)
    /\ s.st # "ok" => TooLong(c.mems, sec)

\* One byte more.
LEMMA ByteAdvances ==
    ASSUME Given, NEW sec \in Section, Len(sec.bytes) = sec.size,
           NEW c, NEW s, NEW k \in 1 .. sec.size, Advanced(c, s, sec, k - 1)
    PROVE  Advanced(c, LoadByte(s, sec, k), sec, k)
<1>1. /\ sec.addr \in 0 .. (Space - 1) /\ sec.size \in Nat /\ sec.bytes \in Seq(0 .. 255)
      /\ k \in Nat \ {0} /\ k <= sec.size
  BY DEF Section
<1>2. s.mems \in Memories /\ \A i \in Units : SameAddresses(c.mems[i], s.mems[i])
  BY DEF Advanced
<1>3. CASE s.st # "ok"
  <2>1. LoadByte(s, sec, k) = s
    BY <1>3 DEF LoadByte
  <2>. QED
    BY <1>3, <2>1 DEF Advanced
<1>4. CASE s.st = "ok"
  <2>. DEFINE a == (sec.addr + k - 1) % Space
              b == sec.bytes[k]
              w == CosimWrite(s.mems, a, b)
              t == LoadByte(s, sec, k)
  <2>1. \A i \in Units : HasBytes(c.mems[i], s.mems[i], sec, k - 1)
    BY <1>4 DEF Advanced
  <2>2. a = sec.addr + k - 1 /\ a \in 0 .. (Space - 1)
    <3>1. k - 1 = 0 \/ sec.addr + (k - 1) < Space
      BY <1>4 DEF Advanced
    <3>2. sec.addr + k - 1 \in 0 .. (Space - 1)
      BY <1>1, <3>1
    <3>3. \A x \in 0 .. (Space - 1) : x % Space = x
      OBVIOUS
    <3>. QED
      BY <3>2, <3>3
  <2>3. b \in 0 .. 255
    <3>. DEFINE bytes == sec.bytes
    <3>1. k \in 1 .. Len(bytes) /\ bytes \in Seq(0 .. 255)
      BY <1>1
    <3>. HIDE DEF bytes
    <3>2. bytes[k] \in 0 .. 255
      BY <3>1, ElementOfSeq
    <3>. QED
      BY <3>2 DEF bytes
  <2>4. t = IF w.st = "ok" /\ ~CosimValid(a) THEN [mems |-> w.mems, st |-> "refused"] ELSE w
    BY <1>4 DEF LoadByte
  <2>. HIDE DEF a, b, t
  <2>5. CASE ~CosimValid(a)
    <3>1. w.mems = s.mems /\ w.st = "ok"
      BY <2>5 DEF CosimWrite
    <3>2. t.mems = s.mems /\ t.st = "refused"
      BY <2>4, <2>5, <3>1
    <3>3. sec.addr + sec.size >= Space
      BY <1>1, <2>2, <2>5 DEF CosimValid
    <3>4. TooLong(c.mems, sec) /\ t.st # "ok"
      BY <3>2, <3>3 DEF TooLong
    <3>. QED
      BY <1>2, <3>2, <3>4 DEF Advanced, t
  <2>6. CASE CosimValid(a)
    <3>1. t = w
      BY <2>4, <2>6
    <3>2. /\ w.mems \in Memories
          /\ \A i \in Units : /\ valid_addr(s.mems[i], a) => Written(s.mems[i], w.mems[i], a, b)
                              /\ ~valid_addr(s.mems[i], a) => w.mems[i] = s.mems[i]
          /\ w.st = "ok" <=> \A i \in Units : valid_addr(s.mems[i], a)
      <4>. DEFINE ms == s.mems
                  v == CosimWrite(ms, a, b)
      <4>1. ms \in Memories /\ a \in 0 .. (Space - 1) /\ b \in 0 .. 255 /\ CosimValid(a)
        BY <1>2, <2>2, <2>3, <2>6
      <4>. HIDE DEF ms
      <4>2. /\ v.mems \in Memories
            /\ \A i \in Units : /\ valid_addr(ms[i], a) => Written(ms[i], v.mems[i], a, b)
                                /\ ~valid_addr(ms[i], a) => v.mems[i] = ms[i]
            /\ v.st = "ok" <=> \A i \in Units : valid_addr(ms[i], a)
        BY <4>1, CosimWrites
      <4>. QED
        BY <4>2 DEF ms
    <3>. HIDE DEF w
    <3>3. ASSUME NEW i \in Units PROVE SameAddresses(c.mems[i], w.mems[i])
      <4>1. SameAddresses(c.mems[i], s.mems[i])
        BY <1>2
      <4>2. CASE valid_addr(s.mems[i], a)
        <5>1. Written(s.mems[i], w.mems[i], a, b)
          BY <3>2, <4>2
        <5>. QED
          BY <4>1, <5>1 DEF SameAddresses, Written
      <4>3. CASE ~valid_addr(s.mems[i], a)
        BY <3>2, <4>1, <4>3
      <4>. QED
        BY <4>2, <4>3
    <3>4. CASE w.st = "ok"
      <4>1. ASSUME NEW i \in Units PROVE HasBytes(c.mems[i], w.mems[i], sec, k)
        <5>1. Written(s.mems[i], w.mems[i], a, b) /\ HasBytes(c.mems[i], s.mems[i], sec, k - 1)
          BY <2>1, <3>2, <3>4
        <5>2. ASSUME NEW x \in Nat
              PROVE  ByteAt(w.mems[i], x) = IF x \in sec.addr .. (sec.addr + k - 1)
                                            THEN sec.bytes[x - sec.addr + 1]
                                            ELSE ByteAt(c.mems[i], x)
          <6>1. ByteAt(w.mems[i], x) = IF x = a THEN b ELSE ByteAt(s.mems[i], x)
            BY <5>1 DEF Written
          <6>2. ByteAt(s.mems[i], x) = IF x \in sec.addr .. (sec.addr + (k - 1) - 1)
                                       THEN sec.bytes[x - sec.addr + 1] ELSE ByteAt(c.mems[i], x)
            BY <5>1 DEF HasBytes
          <6>3. CASE x = a
            <7>1. x \in sec.addr .. (sec.addr + k - 1) /\ x - sec.addr + 1 = k
              BY <1>1, <2>2, <6>3
            <7>. QED
              BY <6>1, <6>3, <7>1 DEF b
          <6>4. CASE x # a
            <7>1. x \in sec.addr .. (sec.addr + k - 1)
                    <=> x \in sec.addr .. (sec.addr + (k - 1) - 1)
              BY <1>1, <2>2, <6>4
            <7>. QED
              BY <6>1, <6>2, <6>4, <7>1
          <6>. QED
            BY <6>3, <6>4
        <5>. QED
          BY <5>2 DEF HasBytes
      <4>2. sec.addr + k < Space
        BY <1>1, <2>2, <2>6 DEF CosimValid
      <4>. QED
        BY <3>1, <3>2, <3>3, <3>4, <4>1, <4>2 DEF Advanced, t
    <3>5. CASE w.st # "ok"
      <4>1. PICK i \in Units : ~valid_addr(s.mems[i], a)
        BY <3>2, <3>5
      <4>2. ~valid_addr(c.mems[i], a)
        BY <1>2, <2>2, <4>1 DEF SameAddresses
      <4>3. a \in sec.addr .. (sec.addr + sec.size - 1)
        BY <1>1, <2>2
      <4>4. TooLong(c.mems, sec)
        BY <4>2, <4>3 DEF TooLong
      <4>. QED
        BY <3>1, <3>2, <3>3, <3>5, <4>4 DEF Advanced, t
    <3>. QED
      BY <3>4, <3>5
  <2>. QED
    BY <2>5, <2>6
<1>. QED
  BY <1>3, <1>4

\* All bytes.
LEMMA BytesLoaded ==
    ASSUME Given, NEW sec \in Section, Len(sec.bytes) = sec.size,
           NEW c, c.st = "ok", c.mems \in Memories
    PROVE  Advanced(c, LoadBytes(c, sec), sec, sec.size)
<1>. DEFINE N == sec.size
<1>1. N \in Nat
  BY DEF Section
<1>2. PICK f : InTurn(f, c, sec)
  BY <1>1, BytesInTurn
<1>3. /\ LoadBytes(c, sec) = f[N] /\ f[0] = c
      /\ \A k \in 1 .. N : f[k] = LoadByte(f[k - 1], sec, k)
  BY <1>2 DEF InTurn
<1>. DEFINE S == {k \in 0 .. N : Advanced(c, f[k], sec, k)}
<1>4. 0 \in S
  <2>1. sec.addr \in 0 .. (Space - 1)
    BY DEF Section
  <2>2. \A x \in Nat : x \notin sec.addr .. (sec.addr + 0 - 1)
    BY <2>1
  <2>3. \A i \in Units : HasBytes(c.mems[i], c.mems[i], sec, 0)
    BY <2>2 DEF HasBytes
  <2>4. Advanced(c, c, sec, 0)
    BY <2>3 DEF Advanced, SameAddresses
  <2>. QED
    BY <1>1, <1>3, <2>4
<1>5. ASSUME NEW k \in 1 .. N, k - 1 \in S PROVE k \in S
  <2>1. f[k] = LoadByte(f[k - 1], sec, k) /\ Advanced(c, f[k - 1], sec, k - 1)
    BY <1>3, <1>5
  <2>2. Advanced(c, LoadByte(f[k - 1], sec, k), sec, k)
    BY <2>1, ByteAdvances
  <2>. QED
    BY <1>1, <2>1, <2>2
<1>6. N \in S
  <2>. HIDE DEF S, N
  <2>1. \A k \in 0 .. N : k \in S
    BY <1>1, <1>4, <1>5, InductionTo, Zenon
  <2>. QED
    BY <1>1, <2>1
<1>. QED
  BY <1>3, <1>6

\* Where more addresses are taken the first free one is later.
LEMMA FirstFreeGrows ==
    ASSUME NEW m \in Seq(Area), NEW m2 \in Seq(Area), NEW base \in 0 .. (Space - 1),
           \A x \in Nat : valid_addr(m, x) => valid_addr(m2, x)
    PROVE  FirstFree(m, base) \in Nat /\ FirstFree(m2, base) \in Nat
           /\ FirstFree(m, base) <= FirstFree(m2, base)
<1>. DEFINE f == FirstFree(m, base)
            g == FirstFree(m2, base)
<1>1. f \in base .. (Space - 1) /\ \A c \in base .. (f - 1) : valid_addr(m, c)
  BY FirstFreeIs
<1>2. g \in base .. (Space - 1) /\ ~valid_addr(m2, g)
  BY FirstFreeIs
<1>. HIDE DEF f, g
<1>3. f \in Nat /\ g \in Nat
  BY <1>1, <1>2
<1>4. g \notin base .. (f - 1)
  BY <1>1, <1>2, <1>3
<1>5. f <= g
  BY <1>1, <1>2, <1>3, <1>4
<1>. QED
  BY <1>3, <1>5 DEF f, g

\* Reaches, of memories ms.
ReachesIn(ms, addr, size) ==
    \/ addr + size >= Space
    \/ \E i \in Units :
         ~IsSim(i) /\ FirstFree(ms[i], RoundedBase(addr)) + RoundedSize(size) >= Space

\* What a section puts at an address.
Puts(sec, x) == sec.progbits /\ Covers(sec, x)

\* A section is in every memory, over what was there, or one of the causes holds; each
\* memory has at most one region more.
LEMMA SectionLoaded ==
    ASSUME Given, MemTypes, NEW sec \in Section,
           sec.progbits => Len(sec.bytes) = sec.size
    PROVE  LET r == LoadSection(sec)
           IN  /\ r.mems \in Memories
               /\ \A i \in Units : Len(r.mems[i]) \in Len(mems[i]) .. Len(mems[i]) + 1
               /\ r.st = "ok" =>
                    \A i \in Units : \A x \in Nat :
                      ByteAt(r.mems[i], x) = IF Puts(sec, x) THEN sec.bytes[x - sec.addr + 1]
                                             ELSE ByteAt(mems[i], x)
               /\ r.st # "ok" =>
                    \/ \E i \in Units : Len(mems[i]) >= (IF IsSim(i) THEN MaxRegions ELSE TbMax)
                    \/ ReachesIn(r.mems, sec.addr, sec.size)
                    \/ \E i \in Units : ~IsSim(i) /\ LostEnd(sec)
<1>. DEFINE r == LoadSection(sec)
            c == CosimCreate(mems, sec.addr, sec.size)
            addr == sec.addr
            size == sec.size
<1>1. addr \in 0 .. (Space - 1) /\ size \in Nat
  BY DEF Section
<1>2. mems \in Memories /\ \A i \in Units : Len(mems[i]) \in Nat /\ mems[i] \in Seq(Area)
  BY LenProperties DEF MemTypes, Memories
<1>3. r = IF ~sec.alloc \/ size = 0 THEN [mems |-> mems, st |-> "ok"]
          ELSE IF c.st = "ok" /\ sec.progbits THEN LoadBytes(c, sec) ELSE c
  BY DEF LoadSection
<1>. HIDE DEF r
<1>4. CASE ~sec.alloc \/ size = 0
  <2>1. r.mems = mems /\ r.st = "ok"
    BY <1>3, <1>4
  <2>2. \A x \in Nat : ~Puts(sec, x)
    BY <1>1, <1>4 DEF Puts, Covers
  <2>. QED
    BY <1>2, <2>1, <2>2 DEF r
<1>5. CASE sec.alloc /\ size # 0
  <2>1. /\ c.mems \in Memories /\ \A i \in Units : Extended(mems[i], c.mems[i])
        /\ c.st = "ok" => \A i \in Units : Reached(i, mems[i], c.mems[i], addr, size)
        /\ c.st # "ok" => \E i \in Units : NoRoom(i, mems[i], c.mems[i], addr, size)
    BY <1>1, <1>2, <1>5, CosimCreates
  <2>. HIDE DEF c
  <2>2. CASE c.st # "ok"
    <3>1. r = c
      BY <1>3, <1>5, <2>2
    <3>2. \A i \in Units : Len(r.mems[i]) \in Len(mems[i]) .. Len(mems[i]) + 1
      BY <2>1, <3>1 DEF Extended
    <3>3. PICK i \in Units : NoRoom(i, mems[i], c.mems[i], addr, size)
      BY <2>1, <2>2
    <3>4. \/ \E j \in Units : Len(mems[j]) >= (IF IsSim(j) THEN MaxRegions ELSE TbMax)
          \/ ReachesIn(r.mems, addr, size)
      <4>1. CASE IsSim(i)
        BY <3>3, <4>1 DEF NoRoom
      <4>2. CASE ~IsSim(i)
        BY <3>1, <3>3, <4>2 DEF NoRoom, ReachesIn
      <4>. QED
        BY <4>1, <4>2
    <3>. QED
      BY <2>1, <2>2, <3>1, <3>2, <3>4 DEF r
  <2>3. CASE c.st = "ok" /\ ~sec.progbits
    <3>1. r = c
      BY <1>3, <1>5, <2>3
    <3>2. \A i \in Units : Len(r.mems[i]) \in Len(mems[i]) .. Len(mems[i]) + 1
      BY <2>1, <3>1 DEF Extended
    <3>3. \A x \in Nat : ~Puts(sec, x)
      BY <2>3 DEF Puts
    <3>4. \A i \in Units : \A x \in Nat : ByteAt(r.mems[i], x) = ByteAt(mems[i], x)
      BY <2>1, <3>1 DEF Extended
    <3>. QED
      BY <2>1, <2>3, <3>1, <3>2, <3>3, <3>4 DEF r
  <2>4. CASE c.st = "ok" /\ sec.progbits
    <3>1. r = LoadBytes(c, sec)
      BY <1>3, <1>5, <2>4
    <3>2. Advanced(c, r, sec, size)
      BY <2>1, <2>4, <3>1, BytesLoaded
    <3>3. r.mems \in Memories /\ \A i \in Units : SameAddresses(c.mems[i], r.mems[i])
      BY <3>2 DEF Advanced
    <3>4. \A i \in Units : Len(r.mems[i]) \in Len(mems[i]) .. Len(mems[i]) + 1
      BY <2>1, <3>3 DEF Extended, SameAddresses
    <3>5. CASE r.st = "ok"
      <4>1. ASSUME NEW i \in Units, NEW x \in Nat
            PROVE  ByteAt(r.mems[i], x) = IF Puts(sec, x) THEN sec.bytes[x - addr + 1]
                                          ELSE ByteAt(mems[i], x)
        <5>1. HasBytes(c.mems[i], r.mems[i], sec, size)
          BY <3>2, <3>5 DEF Advanced
        <5>2. ByteAt(r.mems[i], x) = IF x \in addr .. (addr + size - 1)
                                     THEN sec.bytes[x - addr + 1] ELSE ByteAt(c.mems[i], x)
          BY <5>1 DEF HasBytes
        <5>3. ByteAt(c.mems[i], x) = ByteAt(mems[i], x)
          BY <2>1 DEF Extended
        <5>4. Puts(sec, x) <=> x \in addr .. (addr + size - 1)
          BY <1>5, <2>4 DEF Puts, Covers
        <5>. QED
          BY <5>2, <5>3, <5>4
      <4>. QED
        BY <3>3, <3>4, <3>5, <4>1 DEF r
    <3>6. CASE r.st # "ok"
      <4>1. TooLong(c.mems, sec)
        BY <3>2, <3>6 DEF Advanced
      <4>2. ReachesIn(r.mems, addr, size) \/ \E i \in Units : ~IsSim(i) /\ LostEnd(sec)
        <5>1. CASE addr + size >= Space
          BY <5>1 DEF ReachesIn
        <5>2. CASE ~(addr + size >= Space)
          <6>1. PICK i \in Units : \E x \in addr .. (addr + size - 1) : ~valid_addr(c.mems[i], x)
            BY <4>1, <5>2 DEF TooLong
          <6>2. PICK x \in addr .. (addr + size - 1) : ~valid_addr(c.mems[i], x)
            BY <6>1
          <6>3. Reached(i, mems[i], c.mems[i], addr, size) /\ Extended(mems[i], c.mems[i])
            BY <2>1, <2>4
          <6>4. ~IsSim(i)
            BY <1>1, <5>2, <6>2, <6>3 DEF Reached
          <6>. DEFINE from == RoundedBase(addr)
                      full == RoundedSize(size)
                      end == FirstFree(mems[i], from) + full
          <6>5. from \in 0 .. addr /\ addr = from + (addr % Line) /\ full \in Nat
            <7>1. addr \in Nat /\ size \in Nat \ {0}
              BY <1>1, <1>5
            <7>2. full \in size .. (size + Line - 1)
              BY <7>1, Rounded
            <7>3. from \in 0 .. addr /\ addr = from + (addr % Line)
              BY <7>1, Rounded
            <7>. HIDE DEF from, full
            <7>. QED
              BY <7>1, <7>2, <7>3
          <6>6. from \in 0 .. (Space - 1)
            BY <1>1, <6>5
          <6>7. \A y \in Nat : valid_addr(mems[i], y) => valid_addr(r.mems[i], y)
            BY <3>3, <6>3 DEF Extended, SameAddresses
          <6>8. /\ FirstFree(mems[i], from) \in Nat /\ FirstFree(r.mems[i], from) \in Nat
                /\ FirstFree(mems[i], from) <= FirstFree(r.mems[i], from)
            BY <1>2, <3>3, <6>6, <6>7, FirstFreeGrows DEF Memories
          <6>9. FirstFree(mems[i], from) \in from .. (Space - 1)
            BY <1>2, <6>6, FirstFreeIs
          <6>10. CASE end >= Space
            <7>1. FirstFree(r.mems[i], from) + full >= Space
              BY <6>5, <6>8, <6>10
            <7>. QED
              BY <6>4, <7>1 DEF ReachesIn
          <6>11. CASE ~(end >= Space)
            <7>1. end < Space /\ end \in Nat
              BY <6>5, <6>8, <6>11
            <7>2. x \notin from .. (end - 1)
              BY <6>2, <6>3, <6>4, <7>1 DEF Reached
            <7>. DEFINE free == FirstFree(mems[i], from)
                        left == addr % Line
            <7>. HIDE DEF from, full
            <7>3. free \in from .. (Space - 1) /\ x \notin from .. ((free + full) - 1)
              <8>1. free \in from .. (Space - 1)
                BY <6>9
              <8>2. x \notin from .. ((free + full) - 1)
                BY <7>2
              <8>. HIDE DEF free
              <8>. QED
                BY <8>1, <8>2
            <7>4. from \in 0 .. addr /\ full \in Nat /\ addr = from + left
              BY <6>5
            <7>. HIDE DEF free, left
            <7>5. addr \in Nat /\ size \in Nat /\ x \in addr .. (addr + size - 1)
              BY <1>1, <1>5, <6>2
            <7>6. left \in Nat
              <8>1. \A y \in Nat : y % Line \in Nat
                OBVIOUS
              <8>. QED
                BY <7>5, <8>1 DEF left
            <7>7. x >= from + full
              BY <7>3, <7>4, <7>5
            <7>8. left + size > full
              BY <7>4, <7>7, <7>5, <7>6
            <7>. QED
              BY <6>4, <7>8 DEF LostEnd, left, full
          <6>. QED
            BY <6>10, <6>11
        <5>. QED
          BY <5>1, <5>2
      <4>. QED
        BY <3>3, <3>4, <3>6, <4>2 DEF r
    <3>. QED
      BY <3>5, <3>6
  <2>. QED
    BY <2>2, <2>3, <2>4
<1>. QED
  BY <1>4, <1>5

-----------------------------------------------------------------------------
(* The program is loaded, and loaded whole.                                *)

\* What the sections before the n-th leave at an address.
With(n, a) == {k \in DOMAIN image.sections :
                 k < n /\ image.sections[k].progbits /\ Covers(image.sections[k], a)}
OfLast(with, a) == LET k == CHOOSE x \in with : \A y \in with : y <= x
                   IN  IF with = {} THEN 0
                       ELSE image.sections[k].bytes[a - image.sections[k].addr + 1]
Left(n, a) == OfLast(With(n, a), a)

Regions(m) == (IF opt.size = None THEN 0 ELSE 1) + m

\* The invariant behind LoadExact: what the loader has read so far is in every memory,
\* and no memory has more regions than were asked for.
LoadInv ==
    /\ MemTypes
    /\ phase \in {"memory", "load"} => \A i \in Units : Len(mems[i]) <= Regions(section - 1)
    /\ phase = "memory" => section = 1 /\ \A i \in Units : mems[i] = <<>>
    /\ (phase = "load" \/ (phase = "run" /\ cycles = 0)) =>
         \A i \in Units : \A a \in Nat : ByteAt(mems[i], a) = Left(section, a)
    /\ phase \in {"run", "done"} => section > Len(image.sections)
    /\ LoadFailsForCause

\* A section that puts nothing at an address leaves it; else it wins.
LEMMA LeftNext ==
    ASSUME Given, NEW n \in 1 .. Len(image.sections), NEW a \in Nat
    PROVE  Left(n + 1, a) = IF Puts(image.sections[n], a)
                            THEN image.sections[n].bytes[a - image.sections[n].addr + 1]
                            ELSE Left(n, a)
<1>1. Len(image.sections) \in Nat /\ DOMAIN image.sections = 1 .. Len(image.sections)
  <2>1. image.sections \in Seq(Section)
    BY CosimAssumption DEF Given, Section
  <2>. QED
    BY <2>1, LenProperties
<1>2. CASE Puts(image.sections[n], a)
  <2>1. n \in With(n + 1, a) /\ \A y \in With(n + 1, a) : y \in Nat /\ y <= n
    BY <1>1, <1>2 DEF With, Puts
  <2>2. (CHOOSE x \in With(n + 1, a) : \A y \in With(n + 1, a) : y <= x) = n
    <3>. DEFINE S == With(n + 1, a)
                x == CHOOSE z \in S : \A y \in S : y <= z
    <3>. HIDE DEF S
    <3>1. n \in S /\ \A y \in S : y \in Nat /\ y <= n
      BY <2>1 DEF S
    <3>2. x \in S /\ \A y \in S : y <= x
      BY <3>1
    <3>. HIDE DEF x
    <3>3. x = n
      BY <3>1, <3>2
    <3>. QED
      BY <3>3 DEF x, S
  <2>. QED
    BY <1>2, <2>1, <2>2 DEF Left, OfLast
<1>3. CASE ~Puts(image.sections[n], a)
  <2>1. With(n + 1, a) = With(n, a)
    BY <1>1, <1>3 DEF With, Puts
  <2>. QED
    BY <1>3, <2>1 DEF Left
<1>. QED
  BY <1>2, <1>3

\* What all sections leave is what the program expects.
LEMMA LeftAll ==
    ASSUME Given, NEW n \in Nat, n > Len(image.sections), NEW a
    PROVE  Left(n, a) = Expected(a)
<1>1. Len(image.sections) \in Nat /\ DOMAIN image.sections = 1 .. Len(image.sections)
  <2>1. image.sections \in Seq(Section)
    BY CosimAssumption DEF Given, Section
  <2>. QED
    BY <2>1, LenProperties
<1>. DEFINE with == {k \in DOMAIN image.sections :
                       image.sections[k].progbits /\ Covers(image.sections[k], a)}
<1>2. With(n, a) = with
  BY <1>1 DEF With
<1>3. Expected(a) = OfLast(with, a)
  BY DEF Expected, OfLast
<1>. HIDE DEF with
<1>. QED
  BY <1>2, <1>3 DEF Left

\* The byte the property speaks of.
LEMMA UnitByteIs ==
    ASSUME MemTypes, NEW i \in Units, NEW a \in Nat
    PROVE  UnitByte(i, a) = ByteAt(mems[i], a)
<1>1. mems[i] \in Seq(Area)
  BY DEF MemTypes
<1>2. /\ read(mems[i], a) = ByteAt(mems[i], a)
      /\ valid_addr(mems[i], a) => TbRead(mems[i], a) = ByteAt(mems[i], a)
      /\ TbValid(mems[i], a) <=> valid_addr(mems[i], a)
  BY <1>1, ReadIsByte, SameHits
<1>3. ~valid_addr(mems[i], a) => ByteAt(mems[i], a) = 0
  BY DEF ByteAt
<1>. QED
  BY <1>2, <1>3 DEF UnitByte

\* No table yet, no memory.
LEMMA EmptyMemory ==
    /\ <<>> \in Seq(Area) /\ Len(<<>>) = 0
    /\ \A a \in Nat : ~valid_addr(<<>>, a) /\ ByteAt(<<>>, a) = 0
<1>1. <<>> \in Seq(Area) /\ Len(<<>>) = 0
  BY EmptySeq
<1>2. ASSUME NEW a \in Nat PROVE ~valid_addr(<<>>, a)
  <2>1. valid_addr(<<>>, a) <=> \E j \in 1 .. Len(<<>>) : Has((<<>>)[j], a)
    BY <1>1, HitFirst
  <2>. QED
    BY <1>1, <2>1
<1>. QED
  BY <1>1, <1>2 DEF ByteAt

\* A section with contents has them all.
LEMMA SectionBytes ==
    ASSUME Given, NEW k \in 1 .. Len(image.sections), image.sections[k].progbits
    PROVE  Len(image.sections[k].bytes) = image.sections[k].size
<1>1. image.sections \in Seq(Section)
  BY CosimAssumption DEF Given, Section
<1>2. k \in DOMAIN image.sections
  BY <1>1, LenProperties
<1>. QED
  BY <1>2, CosimAssumption DEF Given

\* The region of the command line.
LEMMA ExplicitLoads ==
    ASSUME Given, CpuTypes, LoadInv, ExplicitMemory
    PROVE  LoadInv'
<1>1. phase = "memory" /\ section = 1 /\ MemTypes /\ \A i \in Units : mems[i] = <<>>
  BY DEF ExplicitMemory, LoadInv
<1>2. UNCHANGED <<setup, image, opt, section>> /\ Units' = Units
  BY DEF ExplicitMemory, Fixed, Units
<1>3. \A i \in Units : \A a \in Nat : ByteAt(mems[i], a) = 0 /\ Left(1, a) = 0
  <2>1. \A a \in Nat : With(1, a) = {}
    <3>1. image.sections \in Seq(Section)
      BY CosimAssumption DEF Given, Section
    <3>2. DOMAIN image.sections \subseteq Nat \ {0}
      BY <3>1, LenProperties
    <3>. QED
      BY <3>2 DEF With
  <2>2. \A a \in Nat : Left(1, a) = 0
    BY <2>1 DEF Left, OfLast
  <2>3. \A i \in Units : \A a \in Nat : ByteAt(mems[i], a) = ByteAt(<<>>, a)
    BY <1>1
  <2>. QED
    BY <2>2, <2>3, EmptyMemory
<1>4. \A a \in Nat : Left(section, a)' = 0
  <2>1. \A a : Left(section, a)' = Left(1, a)
    BY <1>1, <1>2 DEF Left, OfLast, With, Covers
  <2>2. \E i \in Units : TRUE
    BY SomeUnit
  <2>. QED
    BY <1>3, <2>1, <2>2
<1>5. CASE opt.size = None /\ mems' = mems /\ phase' = "load"
  <2>1. \A i \in Units : Len(mems[i]) <= Regions(0)
    BY <1>1, <1>5, EmptyMemory DEF Regions
  <2>2. MemTypes' /\ \A i \in Units' : Len(mems'[i]) <= Regions(section - 1)'
    BY <1>1, <1>2, <1>5, <2>1 DEF MemTypes, Regions
  <2>3. \A i \in Units' : \A a \in Nat : ByteAt(mems'[i], a) = Left(section, a)'
    BY <1>2, <1>3, <1>5, <1>4
  <2>. QED
    BY <1>5, <2>2, <2>3 DEF LoadInv, LoadFailsForCause
<1>6. CASE opt.size # None
  <2>. DEFINE c == CosimCreate(mems, opt.base, opt.size)
  <2>1. opt.base \in 0 .. (Space - 1) /\ opt.size \in Nat \ {0}
    BY <1>6, OptionTypes
  <2>2. /\ c.mems \in Memories /\ \A i \in Units : Extended(mems[i], c.mems[i])
        /\ c.st # "ok" => \E i \in Units : /\ c.st = (IF IsSim(i) THEN "refused" ELSE "abort")
                                           /\ NoRoom(i, mems[i], c.mems[i], opt.base, opt.size)
    <3>1. mems \in Memories
      BY <1>1 DEF MemTypes, Memories
    <3>. QED
      BY <2>1, <3>1, CosimCreates
  <2>3. /\ mems' = c.mems
        /\ IF c.st = "abort" THEN Failed(c.st) ELSE phase' = "load" /\ UNCHANGED out
    BY <1>6 DEF ExplicitMemory
  <2>. HIDE DEF c
  <2>4. MemTypes'
    BY <1>2, <2>2, <2>3 DEF MemTypes, Memories
  <2>5. \A i \in Units : Len(mems'[i]) <= 1
    BY <1>1, <2>2, <2>3, EmptyMemory DEF Extended
  <2>6. \A i \in Units' : Len(mems'[i]) <= Regions(section - 1)'
    BY <1>1, <1>2, <1>6, <2>5 DEF Regions
  <2>7. \A i \in Units' : \A a \in Nat : ByteAt(mems'[i], a) = Left(section, a)'
    <3>1. \A i \in Units : \A a \in Nat : ByteAt(mems'[i], a) = 0
      BY <1>3, <2>2, <2>3 DEF Extended
    <3>. QED
      BY <1>2, <1>4, <3>1
  <2>8. CASE c.st # "abort"
    <3>1. phase' = "load"
      BY <2>3, <2>8
    <3>. QED
      BY <2>4, <2>6, <2>7, <3>1 DEF LoadInv, LoadFailsForCause
  <2>9. CASE c.st = "abort"
    <3>1. phase' = "exit"
      BY <2>3, <2>9, FailedEnds DEF Cut
    <3>2. PICK i \in Units : /\ c.st = (IF IsSim(i) THEN "refused" ELSE "abort")
                             /\ NoRoom(i, mems[i], c.mems[i], opt.base, opt.size)
      BY <2>2, <2>9
    <3>3. ~IsSim(i)
      BY <2>9, <3>2
    <3>4. mems'[i] = mems[i]
          /\ (Len(mems[i]) >= TbMax
                \/ FirstFree(mems[i], RoundedBase(opt.base)) + RoundedSize(opt.size) >= Space)
      BY <2>3, <3>2, <3>3 DEF NoRoom
    <3>5. Asked' > TbMax \/ Reaches(opt.base, opt.size)'
      <4>1. CASE Len(mems[i]) >= TbMax
        BY <1>1, <1>2, <1>6, <4>1, EmptyMemory DEF Asked
      <4>2. CASE FirstFree(mems[i], RoundedBase(opt.base)) + RoundedSize(opt.size) >= Space
        BY <1>2, <3>3, <3>4, <4>2 DEF Reaches, IsSim
      <4>. QED
        BY <3>4, <4>1, <4>2
    <3>6. LoadFailsForCause'
      <4>1. CASE Asked' > TbMax
        BY <1>2, <3>3, <4>1 DEF LoadFailsForCause, IsSim
      <4>2. CASE Reaches(opt.base, opt.size)'
        BY <1>2, <1>6, <4>2 DEF LoadFailsForCause
      <4>. QED
        BY <3>5, <4>1, <4>2
    <3>. QED
      BY <2>4, <3>1, <3>6 DEF LoadInv
  <2>. QED
    BY <2>8, <2>9
<1>. QED
  BY <1>5, <1>6 DEF ExplicitMemory

\* One section more, or a cause of failure.
LEMMA SectionLoads ==
    ASSUME Given, CpuTypes, LoadInv, Load
    PROVE  LoadInv'
<1>. DEFINE n == section
            sec == image.sections[n]
            r == LoadSection(sec)
<1>1. phase = "load" /\ n \in 1 .. Len(image.sections)
  <2>1. image.sections \in Seq(Section)
    BY CosimAssumption DEF Given, Section
  <2>2. Len(image.sections) \in Nat
    BY <2>1, LenProperties
  <2>. QED
    BY <2>2 DEF Load, CpuTypes
<1>2. /\ MemTypes /\ \A i \in Units : Len(mems[i]) <= Regions(n - 1) /\ Len(mems[i]) \in Nat
      /\ \A i \in Units : \A a \in Nat : ByteAt(mems[i], a) = Left(n, a)
  BY <1>1, LenProperties DEF LoadInv, MemTypes
<1>3. sec \in Section /\ (sec.progbits => Len(sec.bytes) = sec.size)
  BY <1>1, SectionType, SectionBytes
<1>. HIDE DEF sec
<1>4. /\ r.mems \in Memories
      /\ \A i \in Units : Len(r.mems[i]) \in Len(mems[i]) .. Len(mems[i]) + 1
      /\ r.st = "ok" => \A i \in Units : \A x \in Nat :
           ByteAt(r.mems[i], x) = IF Puts(sec, x) THEN sec.bytes[x - sec.addr + 1]
                                  ELSE ByteAt(mems[i], x)
      /\ r.st # "ok" =>
           \/ \E i \in Units : Len(mems[i]) >= (IF IsSim(i) THEN MaxRegions ELSE TbMax)
           \/ ReachesIn(r.mems, sec.addr, sec.size)
           \/ \E i \in Units : ~IsSim(i) /\ LostEnd(sec)
  BY <1>2, <1>3, SectionLoaded
<1>5. /\ mems' = r.mems /\ UNCHANGED <<setup, image, opt, cpus, current, cycles, ran>>
      /\ \/ r.st = "ok" /\ section' = n + 1 /\ UNCHANGED <<phase, out>>
         \/ r.st # "ok" /\ UNCHANGED section /\ phase' = "exit"
  BY LoadCases DEF Kinds, sec, Cut
<1>. HIDE DEF r
<1>6. Units' = Units /\ \A m \in Int : Regions(m)' = Regions(m) /\ Regions(m + 1) = Regions(m) + 1
  BY <1>5 DEF Units, Regions
<1>7. MemTypes'
  BY <1>4, <1>5, <1>6 DEF MemTypes, Memories
<1>8. CASE r.st = "ok"
  <2>1. section' = n + 1 /\ phase' = "load"
    BY <1>1, <1>5, <1>8
  <2>2. \A i \in Units' : Len(mems'[i]) <= Regions(section - 1)'
    <3>1. \A i \in Units : Len(r.mems[i]) <= Regions(n - 1) + 1
      <4>1. Regions(n - 1) \in Int
        BY <1>1 DEF Regions
      <4>. QED
        BY <1>2, <1>4, <4>1
    <3>2. (n - 1) + 1 = n /\ n - 1 \in Int /\ n \in Int /\ (n + 1) - 1 = n
      BY <1>1
    <3>3. Regions(section - 1)' = Regions(n - 1) + 1
      <4>1. Regions(section - 1)' = Regions(n)
        BY <1>5, <2>1, <3>2 DEF Regions
      <4>. QED
        BY <1>6, <3>2, <4>1
    <3>. QED
      BY <1>5, <1>6, <3>1, <3>3
  <2>3. \A i \in Units : \A a \in Nat : ByteAt(mems'[i], a) = Left(n + 1, a)
    <3>1. \A a \in Nat : Left(n + 1, a) = IF Puts(sec, a) THEN sec.bytes[a - sec.addr + 1]
                                          ELSE Left(n, a)
      BY <1>1, LeftNext DEF sec
    <3>. QED
      BY <1>2, <1>4, <1>5, <1>8, <3>1
  <2>4. \A a : Left(section, a)' = Left(n + 1, a)
    BY <1>5, <2>1 DEF Left, OfLast, With, Covers
  <2>. QED
    BY <1>6, <1>7, <2>1, <2>2, <2>3, <2>4 DEF LoadInv, LoadFailsForCause
<1>9. CASE r.st # "ok"
  <2>1. section' = n /\ phase' = "exit"
    BY <1>5, <1>9
  <2>2. sec = image.sections[section]'
    BY <1>5, <2>1 DEF sec
  <2>3. CASE \E i \in Units : Len(mems[i]) >= (IF IsSim(i) THEN MaxRegions ELSE TbMax)
    <3>1. PICK i \in Units : Len(mems[i]) >= (IF IsSim(i) THEN MaxRegions ELSE TbMax)
      BY <2>3
    <3>2. Asked' = Regions(n - 1) + 1 /\ Regions(n - 1) \in Int
      BY <1>1, <1>5, <2>1 DEF Asked, Regions
    <3>3. Asked' > (IF IsSim(i) THEN MaxRegions ELSE TbMax)
      BY <1>2, <3>1, <3>2
    <3>4. Asked' > (IF IsSim(i)' THEN MaxRegions ELSE TbMax)
      BY <1>5, <3>3 DEF IsSim
    <3>. QED
      BY <1>6, <1>7, <2>1, <3>4 DEF LoadInv, LoadFailsForCause
  <2>4. CASE ReachesIn(r.mems, sec.addr, sec.size)
    <3>1. \/ sec.addr + sec.size >= Space
          \/ \E i \in Units' : /\ ~IsSim(i)'
                               /\ FirstFree(mems'[i], RoundedBase(sec.addr))
                                    + RoundedSize(sec.size) >= Space
      BY <1>5, <1>6, <2>4 DEF ReachesIn, IsSim
    <3>. QED
      BY <1>7, <2>1, <2>2, <3>1 DEF LoadInv, LoadFailsForCause, Reaches
  <2>5. CASE \E i \in Units : ~IsSim(i) /\ LostEnd(sec)
    <3>1. \E i \in Units' : ~IsSim(i)' /\ LostEnd(sec)
      BY <1>5, <1>6, <2>5 DEF IsSim
    <3>. QED
      BY <1>7, <2>1, <2>2, <3>1 DEF LoadInv, LoadFailsForCause
  <2>. QED
    BY <1>4, <1>9, <2>3, <2>4, <2>5
<1>. QED
  BY <1>8, <1>9

\* What a processor stores changes bytes, not what regions are.
LEMMA StoredTypes ==
    ASSUME MemTypes, NEW i \in Units, NEW e \in Effects
    PROVE  Stored(i, e).regions \in Seq(Area)
<1>1. mems[i] \in Seq(Area)
  BY DEF MemTypes
<1>2. CASE e.store = <<>>
  BY <1>1, <1>2 DEF Stored
<1>3. CASE e.store # <<>>
  <2>1. e.store[1] \in Nat /\ e.store[2] \in 0 .. 255
    BY <1>3, CosimAssumption
  <2>. DEFINE a == e.store[1]
              b == e.store[2]
              m == mems[i]
              w == UnitWrite(i, m, a, b)
  <2>2. a \in Nat /\ b \in 0 .. 255 /\ m \in Seq(Area)
    BY <1>1, <2>1
  <2>. HIDE DEF a, b, m
  <2>3. UnitWrote(i, m, a, b, w)
    BY <2>2, UnitWrites
  <2>. HIDE DEF w
  <2>4. w.regions \in Seq(Area)
    BY <2>2, <2>3 DEF Written, UnitWrote
  <2>. QED
    BY <1>3, <2>4 DEF Stored, a, b, m, w
<1>. QED
  BY <1>2, <1>3

\* The invariant is kept: after the loader memory is only written by the processors.
LEMMA LoadInvStep ==
    ASSUME RunInv, LoadInv, [Next]_vars
    PROVE  LoadInv'
<1>0. Given /\ CpuTypes /\ cycles \in Nat
  BY DEF RunInv, CpuTypes
<1>1. CASE UNCHANGED vars
  <2>1. UNCHANGED <<setup, image, opt, mems, section, phase, cycles>>
    BY <1>1 DEF vars
  <2>2. LoadFailsForCause'
    BY <2>1 DEF LoadInv, LoadFailsForCause, Asked, Reaches, IsSim, Units
  <2>3. \A a : Left(section, a)' = Left(section, a)
    BY <2>1 DEF Left, OfLast, With, Covers
  <2>4. MemTypes' /\ Units' = Units /\ Regions(section - 1)' = Regions(section - 1)
    BY <2>1 DEF LoadInv, MemTypes, Units, Regions
  <2>. QED
    BY <2>1, <2>2, <2>3, <2>4 DEF LoadInv
<1>2. CASE ExplicitMemory
  BY <1>0, <1>2, ExplicitLoads
<1>3. CASE Load
  BY <1>0, <1>3, SectionLoads
<1>4. CASE Reset
  <2>1. /\ phase = "load" /\ section > Len(image.sections) /\ phase' = "run"
        /\ UNCHANGED <<setup, image, opt, mems, section, cycles>>
    BY <1>4 DEF Reset, Fixed
  <2>2. MemTypes' /\ Units' = Units
    BY <2>1 DEF LoadInv, MemTypes, Units
  <2>3. \A a : Left(section, a)' = Left(section, a)
    BY <2>1 DEF Left, OfLast, With, Covers
  <2>. QED
    BY <2>1, <2>2, <2>3 DEF LoadInv, LoadFailsForCause
<1>5. CASE Iterate
  <2>1. /\ phase = "run" /\ UNCHANGED <<setup, image, section>>
        /\ phase' = "exit" \/ (cycles' = cycles + 1 /\ phase' \in {"run", "done"})
        /\ \/ UNCHANGED mems
           \/ \E es \in [Units -> Effects] : mems' = [i \in Units |-> Stored(i, es[i]).regions]
    BY <1>0, <1>5, IterateCases DEF Cut
  <2>2. Units' = Units
    BY <2>1 DEF Units
  <2>3. MemTypes'
    <3>1. CASE UNCHANGED mems
      BY <2>2, <3>1 DEF LoadInv, MemTypes
    <3>2. ASSUME NEW es \in [Units -> Effects], mems' = [i \in Units |-> Stored(i, es[i]).regions]
          PROVE  MemTypes'
      <4>1. \A i \in Units : es[i] \in Effects
        OBVIOUS
      <4>2. \A i \in Units : Stored(i, es[i]).regions \in Seq(Area)
        BY <4>1, StoredTypes DEF LoadInv
      <4>. QED
        BY <2>2, <3>2, <4>2 DEF MemTypes
    <3>. QED
      BY <2>1, <3>1, <3>2
  <2>4. section > Len(image.sections) /\ Len(image.sections) \in Nat /\ section \in Nat
    <3>1. image.sections \in Seq(Section)
      BY <1>0, CosimAssumption DEF Given, Section
    <3>. QED
      BY <1>0, <2>1, <3>1, LenProperties DEF LoadInv, CpuTypes
  <2>5. LoadFailsForCause'
    BY <2>1, <2>4 DEF LoadFailsForCause
  <2>6. phase' = "run" => cycles' # 0
    BY <1>0, <2>1
  <2>. QED
    BY <2>1, <2>3, <2>4, <2>5, <2>6 DEF LoadInv
<1>6. CASE AtExit
  <2>1. /\ phase \in {"run", "done"} /\ phase' = "exit"
        /\ UNCHANGED <<setup, image, mems, section>>
    BY <1>6, FailedEnds DEF AtExit, Exit, Fixed, Cut
  <2>2. section > Len(image.sections) /\ Len(image.sections) \in Nat /\ section \in Nat
    <3>1. image.sections \in Seq(Section)
      BY <1>0, CosimAssumption DEF Given, Section
    <3>. QED
      BY <1>0, <2>1, <3>1, LenProperties DEF LoadInv, CpuTypes
  <2>3. LoadFailsForCause'
    BY <2>1, <2>2 DEF LoadFailsForCause
  <2>4. MemTypes'
    BY <2>1 DEF LoadInv, MemTypes, Units
  <2>. QED
    BY <2>1, <2>3, <2>4 DEF LoadInv
<1>. QED
  BY <1>1, <1>2, <1>3, <1>4, <1>5, <1>6 DEF Next

\* It holds at the start.
LEMMA LoadInvInit == ASSUME Init PROVE LoadInv
<1>1. phase = "memory" /\ section = 1 /\ mems = [i \in Units |-> <<>>] /\ Given
  BY DEF Init, Given
<1>2. MemTypes
  BY <1>1, EmptyMemory DEF MemTypes
<1>3. \A i \in Units : Len(mems[i]) <= Regions(section - 1)
  BY <1>1, EmptyMemory DEF Regions
<1>. QED
  BY <1>1, <1>2, <1>3 DEF LoadInv, LoadFailsForCause

(***************************************************************************)
(* elf_load and the memories behind it: a run starts with the image of the *)
(* file in every attached memory, whatever its sections overlap, and when  *)
(* it does not start a table was full, the address space ended or the test *)
(* bench lost the end of a section.                                        *)
(***************************************************************************)
THEOREM LoadExactCorrect == Spec => []LoadExact
<1>1. Init => RunInv /\ LoadInv
  BY RunInvInit, LoadInvInit
<1>2. RunInv /\ LoadInv /\ [Next]_vars => RunInv' /\ LoadInv'
  BY RunInvStep, LoadInvStep
<1>3. RunInv /\ LoadInv => LoadExact
  <2>. SUFFICES ASSUME RunInv, LoadInv PROVE LoadExact
    OBVIOUS
  <2>1. Given /\ section \in Nat
    BY DEF RunInv, CpuTypes
  <2>2. ASSUME phase = "run", cycles = 0, NEW i \in Units, NEW a \in 0 .. (Space - 1)
        PROVE  UnitByte(i, a) = Expected(a)
    <3>1. a \in Nat /\ section > Len(image.sections) /\ ByteAt(mems[i], a) = Left(section, a)
      BY <2>2 DEF LoadInv
    <3>2. UnitByte(i, a) = ByteAt(mems[i], a)
      BY <3>1, UnitByteIs DEF LoadInv
    <3>3. Left(section, a) = Expected(a)
      BY <2>1, <3>1, LeftAll
    <3>. QED
      BY <3>1, <3>2, <3>3
  <2>. QED
    BY <2>2 DEF LoadExact, ImageLoaded, LoadInv
<1>. QED
  BY <1>1, <1>2, <1>3, PTL DEF Spec

-----------------------------------------------------------------------------
(* The signature file.                                                     *)

\* The bytes to write are as many as from one symbol to the other.
LEMMA SizeOfDump ==
    ASSUME Given, DumpSize >= 0
    PROVE  /\ DumpSize = (Symbol(opt.to) - Symbol(opt.from)) % Space /\ DumpSize \in Nat
           /\ \A k \in Int : DumpAddr(k) \in 0 .. (Space - 1)
<1>1. \A name : Symbol(name) \in 0 .. (Space - 1)
  BY CosimAssumption DEF Given, Symbol
<1>2. \A x \in Int : x % Space \in 0 .. (Space - 1)
  OBVIOUS
<1>. DEFINE from == Symbol(opt.from)
            d == (Symbol(opt.to) - from) % Space
<1>3. from \in Int /\ d \in 0 .. (Space - 1)
  BY <1>1, <1>2
<1>4. DumpSize = IF d >= Space \div 2 THEN d - Space ELSE d
  BY DEF DumpSize
<1>. HIDE DEF d, from
<1>5. DumpSize = d
  BY <1>3, <1>4
<1>6. \A k \in Int : DumpAddr(k) \in 0 .. (Space - 1)
  BY <1>2, <1>3 DEF DumpAddr, from
<1>. QED
  BY <1>3, <1>5, <1>6 DEF d, from

\* A byte that can be read is read as it is; the last address reads as zero, as it is.
LEMMA DumpReads ==
    ASSUME Given, MemTypes, NEW a \in 0 .. (Space - 1), CosimReads(a)
    PROVE  CosimRead(a) = UnitByte(1, a)
<1>1. a \in Nat /\ 1 \in Units /\ mems[1] \in Seq(Area)
  BY SomeUnit DEF MemTypes
<1>2. CASE ~CosimValid(a)
  <2>1. ~valid_addr(mems[1], a)
    <3>1. valid_addr(mems[1], a) =>
            Has(mems[1][Hit(mems[1], a)], a) /\ mems[1][Hit(mems[1], a)] \in Area
      BY <1>1, HitFirst
    <3>2. valid_addr(mems[1], a) => a < Space - 1
      BY <1>1, <3>1, HasBounds
    <3>. QED
      BY <1>2, <3>2 DEF CosimValid
  <2>2. ByteAt(mems[1], a) = 0
    BY <2>1 DEF ByteAt
  <2>3. UnitByte(1, a) = 0
    BY <1>1, <2>2, UnitByteIs
  <2>. QED
    BY <1>2, <2>3 DEF CosimRead
<1>3. CASE CosimValid(a) /\ IsSim(1)
  BY <1>3 DEF CosimRead, UnitByte
<1>4. CASE CosimValid(a) /\ ~IsSim(1)
  BY <1>4 DEF CosimRead, CosimReads, UnitByte
<1>. QED
  BY <1>2, <1>3, <1>4

\* Digit d of a row from the right is the byte at d from its address.
LEMMA RowDigits ==
    ASSUME NEW r \in Nat, NEW k \in 0 .. (Row - 1)
    PROVE  Digits(r)[Row - 1 - k] = CosimRead(DumpAddr(r * Row + k))
<1>. DEFINE d == Row - 1 - k
            q == d \div WordBytes
            t == d % WordBytes
            n == Row \div WordBytes
            base == r * Row
<1>1. Row \in Nat \ {0} /\ WordBytes \in Nat \ {0} /\ Row % WordBytes = 0
  BY CosimAssumption
<1>2. d \in 0 .. (Row - 1)
  BY <1>1
<1>3. \A x \in Nat : /\ x \div WordBytes \in Nat /\ x % WordBytes \in 0 .. (WordBytes - 1)
                     /\ x = (x \div WordBytes) * WordBytes + (x % WordBytes)
  BY <1>1
<1>4. Row = n * WordBytes /\ n \in Nat
  BY <1>1, <1>3
<1>5. d = q * WordBytes + t /\ q \in Nat /\ t \in 0 .. (WordBytes - 1)
  BY <1>2, <1>3
<1>6. base \in Nat
  BY <1>1
<1>7. Digits(r)[d] = CosimRead(DumpAddr(base + (n - 1 - q) * WordBytes + (WordBytes - 1 - t)))
  BY <1>2 DEF Digits
<1>. HIDE DEF q, t, n, base
<1>8. (n - 1 - q) * WordBytes = n * WordBytes - WordBytes - q * WordBytes
  BY <1>1, <1>4, <1>5
<1>9. base + (n - 1 - q) * WordBytes + (WordBytes - 1 - t) = base + k
  <2>. DEFINE x == q * WordBytes
  <2>1. x \in Nat
    BY <1>1, <1>5
  <2>2. (n - 1 - q) * WordBytes = Row - WordBytes - x
    BY <1>4, <1>8
  <2>3. d = x + t
    BY <1>5
  <2>. HIDE DEF x
  <2>. QED
    BY <1>1, <1>5, <1>6, <2>1, <2>2, <2>3
<1>. QED
  BY <1>7, <1>9 DEF base

\* The file holds what the property says it holds.
LEMMA DumpWritten ==
    ASSUME Given, MemTypes, DumpSize >= 0, opt.dump # "no",
           \A k \in 0 .. (DumpSize - 1) : CosimReads(DumpAddr(k))
    PROVE  LET size == (Symbol(opt.to) - Symbol(opt.from)) % Space
           IN  IF DumpFile.kind = "binary"
               THEN /\ Len(DumpFile.data) = size
                    /\ \A k \in 1 .. size : DumpFile.data[k] = UnitByte(1, DumpAddr(k - 1))
               ELSE /\ Len(DumpFile.data) = size \div Row
                    /\ \A r \in DOMAIN DumpFile.data : \A k \in 0 .. (Row - 1) :
                         DumpFile.data[r][Row - 1 - k] = UnitByte(1, DumpAddr((r - 1) * Row + k))
<1>. DEFINE size == DumpSize
<1>1. size = (Symbol(opt.to) - Symbol(opt.from)) % Space /\ size \in Nat
      /\ \A k \in Int : DumpAddr(k) \in 0 .. (Space - 1)
  BY SizeOfDump
<1>. HIDE DEF size
<1>2. \A k \in 0 .. (size - 1) : CosimRead(DumpAddr(k)) = UnitByte(1, DumpAddr(k))
  <2>. SUFFICES ASSUME NEW k \in 0 .. (size - 1)
                PROVE  CosimRead(DumpAddr(k)) = UnitByte(1, DumpAddr(k))
    OBVIOUS
  <2>1. DumpAddr(k) \in 0 .. (Space - 1) /\ CosimReads(DumpAddr(k))
    BY <1>1 DEF size
  <2>. QED
    BY <2>1, DumpReads
<1>3. CASE opt.dump = "text"
  <2>. DEFINE n == size \div Row
              data == [r \in 1 .. n |-> Digits(r - 1)]
  <2>1. DumpFile.kind = "text" /\ DumpFile.data = data
    BY <1>3 DEF DumpFile, size
  <2>2. Row \in Nat \ {0}
    BY CosimAssumption
  <2>3. n \in Nat /\ n * Row <= size
    <3>1. \A x \in Nat : x \div Row \in Nat /\ (x \div Row) * Row <= x
      BY <2>2
    <3>. QED
      BY <1>1, <3>1
  <2>. HIDE DEF n
  <2>4. Len(data) = n /\ DOMAIN data = 1 .. n
    BY <2>3
  <2>5. ASSUME NEW r \in 1 .. n, NEW k \in 0 .. (Row - 1)
        PROVE  data[r][Row - 1 - k] = UnitByte(1, DumpAddr((r - 1) * Row + k))
    <3>1. r - 1 \in Nat /\ r <= n /\ r \in Nat
      BY <2>3
    <3>2. (r - 1) * Row + k \in 0 .. (size - 1)
      <4>1. r * Row <= n * Row
        BY <2>2, <2>3, <3>1
      <4>2. (r - 1) * Row = r * Row - Row /\ r * Row \in Nat /\ (r - 1) * Row \in Nat
        BY <2>2, <3>1
      <4>. DEFINE x == r * Row
                  y == n * Row
                  z == (r - 1) * Row
      <4>3. y \in Nat
        BY <2>2, <2>3
      <4>4. x <= y /\ y <= size /\ z = x - Row /\ x \in Nat /\ z \in Nat
        BY <2>3, <4>1, <4>2
      <4>. HIDE DEF x, y, z
      <4>5. z + k \in 0 .. (size - 1)
        BY <1>1, <2>2, <4>3, <4>4
      <4>. QED
        BY <4>5 DEF z
    <3>3. Digits(r - 1)[Row - 1 - k] = CosimRead(DumpAddr((r - 1) * Row + k))
      BY <3>1, RowDigits
    <3>. QED
      BY <1>2, <3>2, <3>3
  <2>. HIDE DEF data
  <2>6. DumpFile.kind # "binary"
    BY <2>1
  <2>. QED
    BY <1>1, <2>1, <2>4, <2>5, <2>6 DEF n
<1>4. CASE opt.dump # "text"
  <2>. DEFINE data == [k \in 1 .. size |-> CosimRead(DumpAddr(k - 1))]
  <2>1. DumpFile.kind = "binary" /\ DumpFile.data = data
    BY <1>4 DEF DumpFile, size
  <2>2. Len(data) = size
    BY <1>1
  <2>3. \A k \in 1 .. size : data[k] = UnitByte(1, DumpAddr(k - 1))
    <3>1. \A k \in 1 .. size : k - 1 \in 0 .. (size - 1)
      BY <1>1
    <3>. QED
      BY <1>2, <3>1
  <2>. HIDE DEF data
  <2>. QED
    BY <1>1, <2>1, <2>2, <2>3
<1>. QED
  BY <1>3, <1>4

\* DumpIsMemory in the terms of the dump itself.
DumpHolds ==
    (phase = "exit" /\ out.file.kind # "none") =>
      LET size == (Symbol(opt.to) - Symbol(opt.from)) % Space
      IN  IF out.file.kind = "binary"
          THEN /\ Len(out.file.data) = size
               /\ \A k \in 1 .. size : out.file.data[k] = UnitByte(1, DumpAddr(k - 1))
          ELSE /\ Len(out.file.data) = size \div Row
               /\ \A r \in DOMAIN out.file.data : \A k \in 0 .. (Row - 1) :
                    out.file.data[r][Row - 1 - k] = UnitByte(1, DumpAddr((r - 1) * Row + k))

LEMMA DumpHoldsIs == DumpHolds <=> DumpIsMemory
<1>1. \A k : DumpAddr(k) = (Symbol(opt.from) + k) % Space
  BY DEF DumpAddr
<1>. QED
  BY <1>1 DEF DumpHolds, DumpIsMemory, Symbol

\* Only the end of a run writes a file.
LEMMA DumpStep ==
    ASSUME RunInv, MemTypes, DumpHolds, [Next]_vars
    PROVE  DumpHolds'
<1>0. Given /\ CpuTypes
  BY DEF RunInv
<1>1. ASSUME phase' # "exit" \/ out'.file = NoFile PROVE DumpHolds'
  BY <1>1 DEF DumpHolds, NoFile
<1>2. CASE UNCHANGED vars
  <2>1. UNCHANGED <<setup, image, opt, mems, phase, out>>
    BY <1>2 DEF vars
  <2>. QED
    BY <2>1 DEF DumpHolds, Symbol, UnitByte, IsSim, DumpAddr
<1>3. CASE ExplicitMemory
  <2>1. phase' # "exit" \/ out'.file = NoFile
    BY <1>3, FailedEnds DEF ExplicitMemory, Cut
  <2>. QED
    BY <1>1, <2>1
<1>4. CASE Load
  <2>1. phase' # "exit" \/ out'.file = NoFile
    <3>1. phase = "load"
      BY <1>4 DEF Load
    <3>2. UNCHANGED phase \/ out'.file = NoFile
      BY <1>0, <1>4, LoadCases DEF Cut
    <3>. QED
      BY <3>1, <3>2
  <2>. QED
    BY <1>1, <2>1
<1>5. CASE Reset
  <2>1. phase' # "exit"
    BY <1>5 DEF Reset
  <2>. QED
    BY <1>1, <2>1
<1>6. CASE Iterate
  <2>1. phase' # "exit" \/ out'.file = NoFile
    BY <1>0, <1>6, IterateCases DEF Cut
  <2>. QED
    BY <1>1, <2>1
<1>7. CASE AtExit
  <2>1. UNCHANGED <<setup, image, opt, mems>>
    BY <1>7 DEF AtExit, Fixed
  <2>2. CASE out'.file = NoFile
    BY <1>1, <2>2
  <2>3. CASE /\ opt.dump # "no" /\ DumpSize >= 0 /\ out'.file = DumpFile
             /\ \A k \in 0 .. (DumpSize - 1) : CosimReads(DumpAddr(k))
    <3>. DEFINE file == DumpFile
    <3>1. LET size == (Symbol(opt.to) - Symbol(opt.from)) % Space
          IN  IF file.kind = "binary"
              THEN /\ Len(file.data) = size
                   /\ \A k \in 1 .. size : file.data[k] = UnitByte(1, DumpAddr(k - 1))
              ELSE /\ Len(file.data) = size \div Row
                   /\ \A r \in DOMAIN file.data : \A k \in 0 .. (Row - 1) :
                        file.data[r][Row - 1 - k] = UnitByte(1, DumpAddr((r - 1) * Row + k))
      BY <1>0, <2>3, DumpWritten
    <3>2. /\ \A name : Symbol(name)' = Symbol(name)
          /\ \A k : DumpAddr(k)' = DumpAddr(k)
          /\ \A a : UnitByte(1, a)' = UnitByte(1, a)
      BY <2>1 DEF Symbol, DumpAddr, UnitByte, IsSim
    <3>. HIDE DEF file
    <3>3. out'.file = file
      BY <2>3 DEF file
    <3>. QED
      BY <2>1, <3>1, <3>2, <3>3 DEF DumpHolds
  <2>4. \/ out'.file = NoFile
        \/ /\ opt.dump # "no" /\ DumpSize >= 0 /\ out'.file = DumpFile
           /\ \A k \in 0 .. (DumpSize - 1) : CosimReads(DumpAddr(k))
    BY <1>7, FailedEnds DEF AtExit, Exit, Cut
  <2>. QED
    BY <2>2, <2>3, <2>4
<1>. QED
  BY <1>2, <1>3, <1>4, <1>5, <1>6, <1>7 DEF Next

(***************************************************************************)
(* cosim::at_exit: the signature file, text or binary, is the memory of    *)
(* the first processor from one symbol to the other, byte for byte, for    *)
(* every size of words and rows and wherever the symbols are.              *)
(***************************************************************************)
THEOREM DumpIsMemoryCorrect == Spec => []DumpIsMemory
<1>1. Init => RunInv /\ LoadInv /\ DumpHolds
  <2>1. Init => DumpHolds
    BY DEF Init, DumpHolds
  <2>. QED
    BY <2>1, RunInvInit, LoadInvInit
<1>2. RunInv /\ LoadInv /\ DumpHolds /\ [Next]_vars => RunInv' /\ LoadInv' /\ DumpHolds'
  BY RunInvStep, LoadInvStep, DumpStep DEF LoadInv
<1>3. DumpHolds => DumpIsMemory
  BY DumpHoldsIs
<1>. QED
  BY <1>1, <1>2, <1>3, PTL DEF Spec

-----------------------------------------------------------------------------
(* The simulator's memory is flat, for accesses of every width.            *)

\* The flat memory is the bytes of the addresses that are there.
IsFlat(m, flat) == /\ DOMAIN flat = {x \in 0 .. (Space - 1) : valid_addr(m, x)}
                   /\ \A x \in DOMAIN flat : flat[x] = ByteAt(m, x)
                   /\ flat = [x \in DOMAIN flat |-> flat[x]]

LEMMA FlatIs == ASSUME NEW m \in Seq(Area) PROVE IsFlat(m, Flat(m))
<1>1. Flat(m) = [x \in {y \in 0 .. (Space - 1) : valid_addr(m, y)} |->
                   m[Hit(m, x)].mem[x - m[Hit(m, x)].base]]
  BY DEF Flat
<1>2. \A x \in {y \in 0 .. (Space - 1) : valid_addr(m, y)} :
        m[Hit(m, x)].mem[x - m[Hit(m, x)].base] = ByteAt(m, x)
  BY DEF ByteAt
<1>. QED
  BY <1>1, <1>2 DEF IsFlat

\* The bytes of an access inside a region are those of the region, at their offsets.
InRegion(m, a, width, h, off) ==
    /\ h \in 1 .. Len(m) /\ m[h] \in Area /\ off \in Nat /\ m[h].base \in Nat
    /\ valid_addr(m, a) /\ Aligned(off, width)
    /\ \A k \in 0 .. (width - 1) :
         /\ a + k \in 0 .. (Space - 1) /\ valid_addr(m, a + k) /\ Hit(m, a + k) = h
         /\ off + k \in DOMAIN m[h].mem /\ m[h].mem[off + k] = ByteAt(m, a + k)
         /\ ByteAt(m, a + k) \in 0 .. 255

LEMMA InsideIs ==
    ASSUME NEW m \in Seq(Area), NEW a \in 0 .. (Space - 1), NEW width \in {1, 2, 4},
           Inside(m, a, width)
    PROVE  InRegion(m, a, width, Hit(m, a), a - m[Hit(m, a)].base)
<1>. DEFINE h == Hit(m, a)
            r == m[h]
            off == a - r.base
<1>1. a \in Nat /\ a + 0 = a /\ 0 \in 0 .. (width - 1)
  OBVIOUS
<1>2. /\ \A k \in 0 .. (width - 1) : valid_addr(m, a + k) /\ Hit(m, a + k) = h
      /\ a + width <= Space /\ Aligned(off, width)
  BY DEF Inside
<1>3. valid_addr(m, a)
  BY <1>1, <1>2
<1>4. h \in 1 .. Len(m) /\ r \in Area /\ Has(r, a)
  BY <1>1, <1>3, HitFirst
<1>5. r.base \in Nat /\ off \in Nat
  <2>. HIDE DEF r
  <2>1. a - r.base \in 0 .. (r.size - 1) /\ r.base \in Nat /\ r.size \in Nat
    BY <1>1, <1>4, HasBounds, AreaFields
  <2>. QED
    BY <1>1, <2>1
<1>. HIDE DEF h
<1>6. ASSUME NEW k \in 0 .. (width - 1)
      PROVE  /\ a + k \in 0 .. (Space - 1) /\ valid_addr(m, a + k) /\ Hit(m, a + k) = h
             /\ off + k \in DOMAIN r.mem /\ r.mem[off + k] = ByteAt(m, a + k)
             /\ ByteAt(m, a + k) \in 0 .. 255
  <2>1. a + k \in Nat /\ a + k \in 0 .. (Space - 1) /\ valid_addr(m, a + k) /\ Hit(m, a + k) = h
    BY <1>2
  <2>2. Has(r, a + k)
    BY <2>1, HitFirst
  <2>3. (a + k) - r.base \in 0 .. (r.size - 1)
    BY <1>4, <2>1, <2>2, HasBounds
  <2>4. (a + k) - r.base \in DOMAIN r.mem /\ r.mem[(a + k) - r.base] \in 0 .. 255
    BY <1>4, <2>3, AreaFields
  <2>5. ByteAt(m, a + k) = r.mem[(a + k) - r.base]
    BY <2>1 DEF ByteAt
  <2>. HIDE DEF r
  <2>6. (a + k) - r.base = off + k
    BY <1>5
  <2>. QED
    BY <2>1, <2>4, <2>5, <2>6
<1>. HIDE DEF r, off
<1>7. InRegion(m, a, width, h, off)
  BY <1>2, <1>3, <1>4, <1>5, <1>6 DEF InRegion, r
<1>. QED
  BY <1>7 DEF h, r, off

\* A store keeps the regions, changes the bytes of the access and no other, and is done
\* if the access is inside a region.
SameTable(m, w) ==
    /\ w \in Seq(Area) /\ Len(w) = Len(m)
    /\ \A j \in 1 .. Len(m) : w[j].base = m[j].base
    /\ \A x \in Nat : /\ valid_addr(w, x) <=> valid_addr(m, x)
                      /\ valid_addr(m, x) => Hit(w, x) = Hit(m, x)

StoreDone(m, a, width, data, st) ==
    /\ st.kind = "ok"
    /\ \A x \in Nat : valid_addr(m, x) =>
         ByteAt(st.regions, x) = IF x \in a .. (a + width - 1) THEN data[x - a]
                                 ELSE ByteAt(m, x)

LEMMA StoreIs ==
    ASSUME NEW m \in Seq(Area), NEW a \in 0 .. (Space - 1),
           NEW width \in {1, 2, 4}, NEW data \in Word
    PROVE  /\ SameTable(m, MemStore(m, a, width, data).regions)
           /\ Inside(m, a, width) =>
                StoreDone(m, a, width, data, MemStore(m, a, width, data))
<1>. DEFINE st == MemStore(m, a, width, data)
            h == Hit(m, a)
            r == m[h]
            off == a - r.base
            w == [m EXCEPT ![h].mem = StoreLanes(r.mem, off, width, data)]
<1>0. a \in Nat
  OBVIOUS
<1>1. CASE ~valid_addr(m, a)
  <2>1. st.regions = m
    BY <1>1 DEF MemStore
  <2>2. ASSUME Inside(m, a, width) PROVE FALSE
    <3>1. InRegion(m, a, width, h, off)
      BY <2>2, InsideIs
    <3>. QED
      BY <1>1, <3>1 DEF InRegion
  <2>. HIDE DEF st
  <2>3. SameTable(m, st.regions)
    BY <2>1 DEF SameTable
  <2>. QED
    BY <2>2, <2>3 DEF st
<1>2. CASE valid_addr(m, a)
  <2>1. h \in 1 .. Len(m) /\ r \in Area /\ Has(r, a)
    BY <1>0, <1>2, HitFirst
  <2>2. off \in Nat /\ r.base \in Nat /\ r.size \in Nat /\ r.mem \in [DOMAIN r.mem -> 0 .. 255]
        /\ DOMAIN r.mem \in SUBSET Nat
    <3>. HIDE DEF r
    <3>1. r.base \in Nat /\ r.size \in Nat
      BY <2>1, AreaFields
    <3>2. off \in 0 .. (r.size - 1)
      BY <1>0, <2>1, HasBounds
    <3>3. off \in Nat
      BY <3>1, <3>2
    <3>4. r.mem \in [DOMAIN r.mem -> 0 .. 255] /\ DOMAIN r.mem \in SUBSET Nat
      BY <2>1, AreaFields, Zenon
    <3>. QED
      BY <3>1, <3>3, <3>4
  <2>3. CASE ~Aligned(off, width)
    <3>1. st.regions = m
      BY <1>2, <2>3 DEF MemStore
    <3>2. ~Inside(m, a, width)
      BY <2>3 DEF Inside
    <3>. HIDE DEF st
    <3>3. SameTable(m, st.regions)
      BY <3>1 DEF SameTable
    <3>. QED
      BY <3>2, <3>3 DEF st
  <2>4. CASE Aligned(off, width)
    <3>. DEFINE bytes == StoreLanes(r.mem, off, width, data)
    <3>1. st.kind = "ok" /\ st.regions = w
      BY <1>2, <2>4 DEF MemStore
    <3>2. bytes = [o \in DOMAIN r.mem |-> IF o \in off .. (off + width - 1) THEN data[o - off]
                                          ELSE r.mem[o]]
      BY DEF StoreLanes
    <3>3. bytes \in [DOMAIN r.mem -> 0 .. 255]
      <4>1. \A o \in DOMAIN r.mem : o \in off .. (off + width - 1) => o - off \in Lanes
        <5>. HIDE DEF off, r
        <5>1. \A o \in Nat : o \in off .. (off + width - 1) => o - off \in 0 .. 3
          BY <2>2
        <5>. QED
          BY <2>2, <5>1 DEF Lanes
      <4>2. \A l \in Lanes : data[l] \in 0 .. 255
        BY DEF Word
      <4>. HIDE DEF off, r, bytes
      <4>. QED
        BY <2>2, <3>2, <4>1, <4>2
    <3>. HIDE DEF h, bytes, st
    <3>4. Replaced(m, [m EXCEPT ![h].mem = bytes], h, bytes)
      BY <2>1, <3>3, ReplacedRegion
    <3>5. Replaced(m, st.regions, h, bytes)
      BY <3>1, <3>4 DEF bytes
    <3>6. ASSUME Inside(m, a, width), NEW x \in Nat, valid_addr(m, x)
          PROVE  ByteAt(st.regions, x) = IF x \in a .. (a + width - 1) THEN data[x - a]
                                         ELSE ByteAt(m, x)
      <4>1. ByteAt(st.regions, x) = IF Hit(m, x) = h THEN bytes[x - r.base] ELSE ByteAt(m, x)
        BY <3>5, <3>6 DEF Replaced
      <4>2. ASSUME x \in a .. (a + width - 1) PROVE Hit(m, x) = h
        <5>1. x - a \in 0 .. (width - 1) /\ a + (x - a) = x
          BY <4>2
        <5>2. \A k \in 0 .. (width - 1) : Hit(m, a + k) = h
          <6>1. InRegion(m, a, width, h, off)
            BY <3>6, InsideIs DEF h
          <6>. QED
            BY <6>1 DEF InRegion
        <5>3. Hit(m, a + (x - a)) = h
          BY <5>1, <5>2
        <5>. QED
          BY <5>1, <5>3
      <4>3. CASE Hit(m, x) = h
        <5>1. Has(r, x)
          BY <3>6, <4>3, HitFirst
        <5>2. x - r.base \in DOMAIN r.mem /\ ByteAt(m, x) = r.mem[x - r.base]
          <6>1. x - r.base \in 0 .. (r.size - 1)
            BY <2>1, <5>1, HasBounds
          <6>2. x - r.base \in DOMAIN r.mem
            BY <2>1, <6>1, AreaFields
          <6>. QED
            BY <3>6, <4>3, <6>2 DEF ByteAt
        <5>3. /\ x - r.base \in off .. (off + width - 1) <=> x \in a .. (a + width - 1)
              /\ (x - r.base) - off = x - a
          <6>. DEFINE base == r.base
          <6>1. base \in Nat
            BY <2>2
          <6>. HIDE DEF base
          <6>2. /\ x - base \in (a - base) .. ((a - base) + width - 1)
                     <=> x \in a .. (a + width - 1)
                /\ (x - base) - (a - base) = x - a
            BY <6>1
          <6>. QED
            BY <6>2 DEF base
        <5>4. bytes[x - r.base] = IF x - r.base \in off .. (off + width - 1)
                                  THEN data[(x - r.base) - off] ELSE r.mem[x - r.base]
          BY <3>2, <5>2
        <5>. QED
          BY <4>1, <4>3, <5>2, <5>3, <5>4
      <4>4. CASE Hit(m, x) # h
        BY <4>1, <4>2, <4>4
      <4>. QED
        BY <4>3, <4>4
    <3>7. SameTable(m, st.regions)
      BY <3>5 DEF Replaced, SameTable
    <3>8. Inside(m, a, width) => StoreDone(m, a, width, data, st)
      BY <3>1, <3>6 DEF StoreDone
    <3>. QED
      BY <3>7, <3>8 DEF st
  <2>. QED
    BY <2>3, <2>4
<1>. QED
  BY <1>1, <1>2

\* A load inside a region returns its bytes, lowest first, and fills the rest of the word.
LoadsBytes(m, b, width, signed) ==
    MemLoad(m, b, width, signed) =
      [kind |-> "ok",
       data |-> SignExtended([l \in 0 .. (width - 1) |-> ByteAt(m, b + l)], width, signed)]

LEMMA LoadIs ==
    ASSUME NEW m \in Seq(Area), NEW b \in 0 .. (Space - 1), NEW width \in {1, 2, 4},
           NEW signed \in BOOLEAN, Inside(m, b, width)
    PROVE  LoadsBytes(m, b, width, signed)
<1>. DEFINE h == Hit(m, b)
            r == m[h]
            off == b - r.base
            bytes == [l \in 0 .. (width - 1) |-> ByteAt(m, b + l)]
<1>1. /\ valid_addr(m, b) /\ Aligned(off, width) /\ off \in Nat
      /\ \A k \in 0 .. (width - 1) : /\ r.mem[off + k] = ByteAt(m, b + k)
                                    /\ ByteAt(m, b + k) \in 0 .. 255
  <2>1. InRegion(m, b, width, h, off)
    BY InsideIs
  <2>. HIDE DEF h, off
  <2>2. valid_addr(m, b) /\ Aligned(off, width) /\ off \in Nat
    BY <2>1 DEF InRegion
  <2>3. ASSUME NEW k \in 0 .. (width - 1)
        PROVE  r.mem[off + k] = ByteAt(m, b + k) /\ ByteAt(m, b + k) \in 0 .. 255
    BY <2>1, Zenon DEF InRegion
  <2>. QED
    BY <2>2, <2>3
<1>2. MemLoad(m, b, width, signed) = [kind |-> "ok", data |-> LoadLanes(r.mem, off, width, signed)]
  BY <1>1 DEF MemLoad
<1>3. LoadLanes(r.mem, off, width, signed) = SignExtended(bytes, width, signed)
  <2>. HIDE DEF r, off
  <2>1. /\ width - 1 \in 0 .. (width - 1) /\ off + width - 1 = off + (width - 1)
        /\ \A l \in Lanes : l < width => l \in 0 .. (width - 1)
    BY <1>1 DEF Lanes
  <2>2. r.mem[off + width - 1] = bytes[width - 1] /\ bytes[width - 1] \in 0 .. 255
    BY <1>1, <2>1
  <2>3. Negative(bytes[width - 1]) <=> bytes[width - 1] > 127
    <3>1. \A v \in 0 .. 255 : Negative(v) <=> v > 127
      BY DEF Negative
    <3>. HIDE DEF bytes
    <3>. QED
      BY <2>2, <3>1
  <2>4. \A l \in Lanes : l < width => r.mem[off + l] = bytes[l]
    BY <1>1, <2>1
  <2>5. LoadLanes(r.mem, off, width, signed) =
          [l \in Lanes |-> IF l < width THEN r.mem[off + l]
                           ELSE IF signed /\ Negative(r.mem[off + width - 1]) THEN 255 ELSE 0]
    BY DEF LoadLanes
  <2>. HIDE DEF bytes
  <2>6. (signed /\ Negative(r.mem[off + width - 1])) <=> (signed /\ bytes[width - 1] > 127)
    BY <2>2, <2>3
  <2>. QED
    BY <2>4, <2>5, <2>6 DEF SignExtended
<1>. QED
  BY <1>2, <1>3 DEF LoadsBytes

(***************************************************************************)
(* A store changes the bytes it names and no other, and a load of any      *)
(* width and sign then returns the bytes that are there, extended: for any *)
(* table of regions, overlapping ones and ones that end at the top of the  *)
(* address space among them (Riscv::load and store, SimpleMemory).         *)
(***************************************************************************)
THEOREM AccessesExact ==
    ASSUME NEW m \in Seq(Area), NEW a \in 0 .. (Space - 1), NEW b \in 0 .. (Space - 1),
           NEW width \in {1, 2, 4}, NEW lwidth \in {1, 2, 4},
           NEW data \in Word, NEW signed \in BOOLEAN
    PROVE  AccessExact(m, a, width, data, b, lwidth, signed)
<1>. DEFINE st == MemStore(m, a, width, data)
            w == st.regions
<1>1. SameTable(m, w)
  BY StoreIs
<1>2. Inside(m, a, width) => StoreDone(m, a, width, data, st)
  BY StoreIs
<1>. HIDE DEF st
<1>3. IsFlat(m, Flat(m))
  BY FlatIs
<1>4. IsFlat(w, Flat(w))
  <2>1. w \in Seq(Area)
    BY <1>1 DEF SameTable
  <2>. QED
    BY <2>1, FlatIs
<1>. DEFINE old == Flat(m)
            new == Flat(w)
<1>. HIDE DEF old, new
<1>5. /\ DOMAIN old = {x \in 0 .. (Space - 1) : valid_addr(m, x)}
      /\ \A x \in DOMAIN old : old[x] = ByteAt(m, x)
  BY <1>3 DEF IsFlat, old
<1>6. /\ DOMAIN new = {x \in 0 .. (Space - 1) : valid_addr(w, x)}
      /\ \A x \in DOMAIN new : new[x] = ByteAt(w, x)
      /\ new = [x \in DOMAIN new |-> new[x]]
  BY <1>4 DEF IsFlat, new
<1>7. \A x \in Nat : /\ valid_addr(w, x) <=> valid_addr(m, x)
                     /\ valid_addr(m, x) => Hit(w, x) = Hit(m, x)
  BY <1>1 DEF SameTable
<1>8. \A x \in 0 .. (Space - 1) : x \in Nat
  OBVIOUS
<1>9. DOMAIN new = DOMAIN old
  BY <1>5, <1>6, <1>7, <1>8
<1>10. ASSUME Inside(m, a, width)
       PROVE  /\ st.kind = "ok"
              /\ new = [x \in DOMAIN old |->
                          IF x \in a .. (a + width - 1) THEN data[x - a] ELSE old[x]]
  <2>1. StoreDone(m, a, width, data, st)
    BY <1>2, <1>10
  <2>2. \A x \in Nat : valid_addr(m, x) =>
          ByteAt(w, x) = IF x \in a .. (a + width - 1) THEN data[x - a] ELSE ByteAt(m, x)
    BY <2>1 DEF StoreDone
  <2>3. ASSUME NEW x \in DOMAIN old
        PROVE  new[x] = IF x \in a .. (a + width - 1) THEN data[x - a] ELSE old[x]
    <3>1. x \in Nat /\ valid_addr(m, x) /\ old[x] = ByteAt(m, x)
      BY <1>5, <1>8
    <3>2. new[x] = ByteAt(w, x)
      BY <1>6, <1>9
    <3>3. ByteAt(w, x) = IF x \in a .. (a + width - 1) THEN data[x - a] ELSE ByteAt(m, x)
      BY <2>2, <3>1
    <3>. QED
      BY <3>1, <3>2, <3>3
  <2>4. st.kind = "ok"
    BY <2>1 DEF StoreDone
  <2>5. new = [x \in DOMAIN old |-> new[x]]
    BY <1>6, <1>9
  <2>6. [x \in DOMAIN old |-> new[x]]
          = [x \in DOMAIN old |-> IF x \in a .. (a + width - 1) THEN data[x - a] ELSE old[x]]
    BY <2>3
  <2>. QED
    BY <2>4, <2>5, <2>6
<1>11. ASSUME Inside(m, b, lwidth)
       PROVE  MemLoad(w, b, lwidth, signed) =
                [kind |-> "ok",
                 data |-> SignExtended([l \in 0 .. (lwidth - 1) |-> new[b + l]], lwidth, signed)]
  <2>. DEFINE h == Hit(m, b)
  <2>1. InRegion(m, b, lwidth, h, b - m[h].base)
    BY <1>11, InsideIs
  <2>. HIDE DEF h
  <2>2. h \in 1 .. Len(m) /\ valid_addr(m, b) /\ Aligned(b - m[h].base, lwidth)
    BY <2>1 DEF InRegion
  <2>3. \A k \in 0 .. (lwidth - 1) : /\ b + k \in 0 .. (Space - 1)
                                     /\ valid_addr(m, b + k) /\ Hit(m, b + k) = h
    BY <2>1 DEF InRegion
  <2>4. b \in Nat /\ \A k \in 0 .. (lwidth - 1) : b + k \in Nat
    OBVIOUS
  <2>5. Hit(w, b) = h
    BY <1>7, <2>2, <2>4 DEF h
  <2>6. w[h].base = m[h].base
    BY <1>1, <2>2 DEF SameTable
  <2>7. ASSUME NEW k \in 0 .. (lwidth - 1)
        PROVE  valid_addr(w, b + k) /\ Hit(w, b + k) = h /\ new[b + k] = ByteAt(w, b + k)
    <3>1. b + k \in Nat /\ b + k \in 0 .. (Space - 1) /\ valid_addr(m, b + k)
            /\ Hit(m, b + k) = h
      BY <2>3, <2>4
    <3>2. valid_addr(w, b + k) /\ Hit(w, b + k) = h
      BY <1>7, <3>1
    <3>3. b + k \in DOMAIN new
      BY <1>6, <3>1, <3>2
    <3>. QED
      BY <1>6, <3>2, <3>3
  <2>8. Inside(w, b, lwidth)
    <3>1. b + lwidth <= Space
      BY <1>11 DEF Inside
    <3>2. Aligned(b - w[Hit(w, b)].base, lwidth)
      BY <2>2, <2>5, <2>6
    <3>. QED
      BY <2>5, <2>7, <3>1, <3>2 DEF Inside
  <2>9. LoadsBytes(w, b, lwidth, signed)
    <3>1. w \in Seq(Area)
      BY <1>1 DEF SameTable
    <3>. HIDE DEF w
    <3>. QED
      BY <2>8, <3>1, LoadIs
  <2>10. [l \in 0 .. (lwidth - 1) |-> ByteAt(w, b + l)] = [l \in 0 .. (lwidth - 1) |-> new[b + l]]
    BY <2>7
  <2>. QED
    BY <2>9, <2>10 DEF LoadsBytes
<1>. QED
  BY <1>10, <1>11 DEF AccessExact, st, old, new

-----------------------------------------------------------------------------
(* The calls of RvUnits. *)

LEMMA RegionTyped ==
    ASSUME NEW base \in 0 .. (Space - 1), NEW size \in 0 .. (Space - 1), NEW tail \in 0 .. 255
    PROVE  Region(base, size, tail) \in Area
<1>1. base \in Nat /\ size \in Nat
  BY MemoryAssumption
<1>2. Extent(size) \in Nat /\ size <= Extent(size)
  BY <1>1 DEF Extent
<1>3. Cleared(size, tail) \in [0 .. (Extent(size) - 1) -> 0 .. 255]
  BY <1>1, <1>2 DEF Cleared
<1>4. 0 .. (size - 1) \subseteq 0 .. (Extent(size) - 1) /\ 0 .. (Extent(size) - 1) \in SUBSET Nat
  BY <1>1, <1>2
<1>5. [base |-> base, size |-> size, mem |-> Cleared(size, tail)] \in Area
  BY <1>1, <1>3, <1>4, AreaFrom, Zenon
<1>. QED
  BY <1>5 DEF Region

\* The regions, words and lanes behind Riscv::load and Riscv::store are one flat
\* little-endian array of bytes for every access that stays inside a region, whatever the
\* regions: a store changes the bytes it names, a load of any width and sign returns them.
THEOREM MemoryIsFlatCorrect == UnitsSpec => []MemoryIsFlat
<1>1. UnitsInit => MemoryIsFlat
  BY DEF UnitsInit, Idle, MemoryIsFlat
<1>2. MemoryIsFlat /\ [UnitsNext]_call => MemoryIsFlat'
  <2>. SUFFICES ASSUME MemoryIsFlat, [UnitsNext]_call PROVE MemoryIsFlat'
    OBVIOUS
  <2>1. CASE DecodeCall \/ ComputeCall \/ TranslateCall \/ CallReturns
    BY <2>1 DEF DecodeCall, ComputeCall, TranslateCall, CallReturns, Idle, MemoryIsFlat
  <2>2. CASE AccessCall
    <3>1. PICK m \in RegionLists, a \in 0 .. (Space - 1), b \in 0 .. (Space - 1),
               width \in {1, 2, 4}, lwidth \in {1, 2, 4},
               data \in DataWords, signed \in BOOLEAN :
            call' = [unit |-> "access", regions |-> m, a |-> a, width |-> width,
                     data |-> data, b |-> b, lwidth |-> lwidth, signed |-> signed]
      BY <2>2 DEF AccessCall
    <3>2. m \in Seq(Area)
      <4>1. m \in Seq(FreshRegions)
        BY UnitsAssumption
      <4>2. FreshRegions \subseteq Area
        BY RegionTyped DEF FreshRegions
      <4>. QED
        BY <4>1, <4>2
    <3>3. data \in Word
      BY UnitsAssumption
    <3>4. AccessExact(m, a, width, data, b, lwidth, signed)
      BY <3>2, <3>3, AccessesExact
    <3>. QED
      BY <3>1, <3>4 DEF MemoryIsFlat
  <2>3. CASE UNCHANGED call
    BY <2>3 DEF MemoryIsFlat
  <2>. QED
    BY <2>1, <2>2, <2>3 DEF UnitsNext
<1>. QED
  BY <1>1, <1>2, PTL DEF UnitsSpec
=============================================================================
