------------------------------- MODULE Cosim --------------------------------
(***************************************************************************)
(* The driver of a simulation: riscv_main (options, ELF loading, the run   *)
(* loop) and the cosim object through which it reaches the processors and  *)
(* memories that were attached.  The stand-alone simulator attaches one    *)
(* Riscv and steps it directly; a test bench attaches the RTL and steps    *)
(* the cosim object; with two processors attached, the cosim object steps  *)
(* both and ends the process when they disagree.                           *)
(*                                                                         *)
(* A processor is what the framework sees of it: the address of its last   *)
(* instruction, one register, its event queues, its break flag.  What an   *)
(* instruction does is any effect of Effects.  The RTL reports no events,  *)
(* no registers, no break.                                                 *)
(***************************************************************************)
EXTENDS RvMemory, TbMemory, SequencesExt

CONSTANTS Setups,      \* [units: Seq({"sim", "rtl"}), direct: BOOLEAN]
          Images,      \* ELF files: [entry, sections, symbols]
          Options,     \* command lines: [base, size, stop, max, dump, from, to]
          Effects,     \* what an instruction may do
          Row, WordBytes, \* bytes of a row (16) and of a word (4) of a signature file
          MaxCycles    \* bound on the steps of a run

None == -1   \* an option that is not given, a symbol that is not found

(* Addresses and sizes have 32 bits, and a size does not wrap when it is rounded to
   lines; a section with contents has a byte for each address; a store is a byte.    *)
ASSUME CosimAssumption ==
    /\ Space = TbSpace /\ Line < Space /\ MaxCycles \in Nat
    /\ WordBytes \in Nat \ {0} /\ Row \in Nat \ {0} /\ Row % WordBytes = 0
    /\ \A s \in Setups : s.units \in Seq({"sim", "rtl"}) /\ s.units # <<>>
    /\ \A f \in Images :
         /\ f.sections \in Seq([addr : 0 .. (Space - 1), size : 0 .. (Space - Line),
                                alloc : BOOLEAN, progbits : BOOLEAN, bytes : Seq(0 .. 255)])
         /\ \A k \in DOMAIN f.sections : f.sections[k].progbits =>
              Len(f.sections[k].bytes) = f.sections[k].size
         /\ \A name \in DOMAIN f.symbols : f.symbols[name] \in 0 .. (Space - 1)
    /\ \A o \in Options : /\ o.base \in 0 .. (Space - 1)
                          /\ o.size \in {None} \cup 1 .. (Space - Line)
                          /\ o.max \in {None} \cup Nat
    /\ \A e \in Effects : e.store = <<>> \/ e.store \in (0 .. (Space - 1)) \X (0 .. 255)

VARIABLES setup, image, opt,   \* what was attached, the file, the command line
          mems,                \* regions of each attached memory
          cpus,                \* each attached processor
          section,             \* index of the next ELF section
          phase,               \* "memory", "load", "run" or "exit"
          current,             \* current_pc
          cycles,              \* _cycles
          out,                 \* how the process ended, and the dump file
          ran                  \* what the properties remember: see Remember

vars == <<setup, image, opt, mems, cpus, section, phase, current, cycles, out, ran>>

-----------------------------------------------------------------------------
EventTypes == {"LOAD", "LOAD_RESULT", "STORE"}
Units == DOMAIN setup.units
IsSim(i) == setup.units[i] = "sim"

(* One attached memory: a Riscv or the test bench. *)
UnitCreate(i, m, a, len) ==
    IF IsSim(i)
    THEN [kind |-> IF Len(m) < MaxRegions THEN "ok" ELSE "refused",
          regions |-> attach_memory(m, Region(a, len, 0))]
    ELSE TbCreate(m, a, len)

UnitWrite(i, m, a, b) == IF IsSim(i) THEN write(m, a, b) ELSE TbWrite(m, a, b)

(* The outcome of one call per unit: that of the first unit whose call failed. *)
Together(results) ==
    LET bad == {i \in Units : results[i].kind # "ok"}
    IN  [mems |-> [i \in Units |-> results[i].regions],
         st |-> IF bad = {} THEN "ok" ELSE results[CHOOSE i \in bad : \A j \in bad : i <= j].kind]

(* cosim::create_memory, valid_addr, write and read.  Memories are attached for
   addresses 0 to 0xFFFFFFFE: a size of 0xFFFFFFFF leaves the last byte out.     *)
CosimCreate(ms, a, len) == Together([i \in Units |-> UnitCreate(i, ms[i], a, len)])
CosimValid(a) == a < Space - 1

\* Mutant: a write reaches the first attached memory only.
WriteFirstOnly(ms, a, b) ==
    LET w == UnitWrite(1, ms[1], a, b)
    IN  IF CosimValid(a) THEN [mems |-> [ms EXCEPT ![1] = w.regions], st |-> w.kind]
        ELSE [mems |-> ms, st |-> "ok"]

CosimWrite(ms, a, b) ==
    IF CosimValid(a) THEN Together([i \in Units |-> UnitWrite(i, ms[i], a, b)])
    ELSE [mems |-> ms, st |-> "ok"]
CosimReads(a) == ~CosimValid(a) \/ IsSim(1) \/ TbValid(mems[1], a)
CosimRead(a) == IF ~CosimValid(a) THEN 0
                ELSE IF IsSim(1) THEN read(mems[1], a) ELSE TbRead(mems[1], a)

(* mem_load as elf_load calls it, for byte k of a section. *)
LoadByte(s, sec, k) ==
    LET a == (sec.addr + k - 1) % Space
        w == CosimWrite(s.mems, a, sec.bytes[k])
    IN  IF s.st # "ok" THEN s
        ELSE IF w.st = "ok" /\ ~CosimValid(a) THEN [mems |-> w.mems, st |-> "refused"]
        ELSE w

LoadBytes(s, sec) ==
    LET loaded[k \in 0 .. Len(sec.bytes)] ==
          IF k = 0 THEN s ELSE LoadByte(loaded[k - 1], sec, k)
    IN  loaded[Len(sec.bytes)]

(* One section of elf_load: those with no bytes in the file (.bss) are only created. *)
LoadSection(sec) ==
    IF ~sec.alloc \/ sec.size = 0 THEN [mems |-> mems, st |-> "ok"]
    ELSE LET c == CosimCreate(mems, sec.addr, sec.size)
         IN  IF c.st = "ok" /\ sec.progbits THEN LoadBytes(c, sec) ELSE c

-----------------------------------------------------------------------------
NoFile == [kind |-> "none", data |-> <<>>]
Running == [how |-> "running", code |-> 0, file |-> NoFile]

Exit(how, code) == /\ phase' = "exit"
                   /\ out' = [how |-> how, code |-> code, file |-> NoFile]

(* The ends of a process that a failed memory access leads to: exit(-1) in
   Riscv::error, the assertion of the test bench, or none.                  *)
Failed(st) == CASE st = "exit" -> Exit("error", -1)
                [] st = "abort" -> Exit("assert", -1)
                [] st = "refused" -> Exit("load", 0)

IdleCpu(pc) == [pc |-> pc, reg |-> 0, brk |-> FALSE,
                q |-> [ev \in EventTypes |-> <<>>]]

Init == /\ setup \in Setups /\ image \in Images /\ opt \in Options
        /\ mems = [i \in Units |-> <<>>]
        /\ cpus = [i \in Units |-> IdleCpu(0)]
        /\ section = 1 /\ phase = "memory" /\ current = 0 /\ cycles = 0
        /\ out = Running
        /\ ran = [pcs |-> <<>>, log |-> [i \in Units |-> [ev \in EventTypes |-> <<>>]]]

Fixed == UNCHANGED <<setup, image, opt>>

(* The region of -b and -s; whether it could be created is not looked at. *)
ExplicitMemory ==
    /\ phase = "memory"
    /\ \/ opt.size = None /\ mems' = mems /\ phase' = "load" /\ UNCHANGED out
       \/ /\ opt.size # None
          /\ LET c == CosimCreate(mems, opt.base, opt.size)
             IN  /\ mems' = c.mems
                 /\ IF c.st = "abort" THEN Failed(c.st)
                                      ELSE phase' = "load" /\ UNCHANGED out
    /\ Fixed /\ UNCHANGED <<cpus, section, current, cycles, ran>>

(* elf_load, a section at a time; a failure ends riscv_main with code 0. *)
Load ==
    /\ phase = "load" /\ section <= Len(image.sections)
    /\ LET r == LoadSection(image.sections[section])
       IN  /\ mems' = r.mems
           /\ IF r.st = "ok" THEN section' = section + 1 /\ UNCHANGED <<phase, out>>
                             ELSE Failed(r.st) /\ UNCHANGED section
    /\ Fixed /\ UNCHANGED <<cpus, current, cycles, ran>>

(* sim->reset with the entry point.  The RTL's address stays that of the last
   instruction it completed, 0 before the first.                              *)
Reset ==
    /\ phase = "load" /\ section > Len(image.sections)
    /\ cpus' = [i \in Units |-> IdleCpu(IF IsSim(i) THEN image.entry ELSE 0)]
    /\ phase' = "run"
    /\ Fixed /\ UNCHANGED <<mems, section, current, cycles, out, ran>>

-----------------------------------------------------------------------------
(* The event queues as cosim::step finds them. *)
AllReady(ev) == \A i \in Units : cpus[i].q[ev] # <<>>
EventsDiffer == \E ev \in EventTypes : AllReady(ev) /\
                  \E i \in Units : i + 1 \in Units
                                     /\ Head(cpus[i].q[ev]) # Head(cpus[i + 1].q[ev])
Popped(c) == [c EXCEPT !.q = [ev \in EventTypes |-> IF AllReady(ev) THEN Tail(@[ev]) ELSE @[ev]]]

(* One processor executes: effect e of an instruction. *)
Possible(i, e) == IsSim(i) \/ (e.ev = <<>> /\ ~e.brk)
Stepped(c, e) == [c EXCEPT !.pc = e.pc, !.reg = e.reg, !.brk = @ \/ e.brk,
                           !.q = [ev \in EventTypes |->
                                    IF ev \in DOMAIN e.ev THEN Append(@[ev], e.ev[ev]) ELSE @[ev]]]
Stored(i, e) == IF e.store = <<>> THEN [kind |-> "ok", regions |-> mems[i]]
                ELSE UnitWrite(i, mems[i], e.store[1], e.store[2])

(* cosim::step after the processors moved: addresses, then registers both show. *)

\* Mutant: the comparison starts one processor too late.
PcsDifferFromThird(cs) == \E i \in Units : i > 2 /\ cs[i].pc # cs[1].pc

PcsDiffer(cs) == \E i \in Units : cs[i].pc # cs[1].pc
RegsDiffer(cs) == \E i \in Units : IsSim(1) /\ IsSim(i) /\ cs[i].reg # cs[1].reg

(* The loop condition of riscv_main; get_fault is never true: Riscv::error ends the
   process before m_fault is looked at, and the RTL reports none.                   *)
MoreToDo == ~(\E i \in Units : cpus[i].brk) /\ current # opt.stop

\* Mutant: the count is compared before it is advanced.
LimitBeforeCount(n) == opt.max # None /\ opt.max = n - 1

AtLimit(n) == opt.max # None /\ opt.max = n

Remember(cs, es) ==
    ran' = [pcs |-> Append(ran.pcs, cs[1].pc),
            log |-> [i \in Units |-> [ev \in EventTypes |->
                       IF ev \in DOMAIN es[i].ev THEN Append(ran.log[i][ev], es[i].ev[ev])
                                                 ELSE ran.log[i][ev]]]]

(* An iteration of the loop: current_pc is the address before the step. *)
Iterate ==
    /\ phase = "run" /\ MoreToDo /\ cycles < MaxCycles
    /\ current' = cpus[1].pc
    /\ \/ /\ ~setup.direct /\ EventsDiffer
          /\ Exit("mismatch", -1) /\ UNCHANGED <<mems, cpus, cycles, ran>>
       \/ /\ setup.direct \/ ~EventsDiffer
          /\ \E es \in [Units -> Effects] :
               LET before == [i \in Units |-> IF setup.direct THEN cpus[i] ELSE Popped(cpus[i])]
                   cs == [i \in Units |-> Stepped(before[i], es[i])]
                   st == Together([i \in Units |-> Stored(i, es[i])])
                   differ == ~setup.direct /\ (PcsDiffer(cs) \/ RegsDiffer(cs))
               IN  /\ \A i \in Units : Possible(i, es[i])
                   /\ cpus' = cs /\ mems' = st.mems /\ Remember(cs, es)
                   /\ IF st.st # "ok" THEN Failed(st.st) /\ UNCHANGED cycles
                      ELSE IF differ THEN Exit("mismatch", -1) /\ UNCHANGED cycles
                      ELSE /\ cycles' = cycles + 1 /\ UNCHANGED out
                           /\ phase' = IF AtLimit(cycles + 1) THEN "done" ELSE "run"
    /\ Fixed /\ UNCHANGED section

-----------------------------------------------------------------------------
(* elf_get_symbol: -1, as an unsigned address, when there is no such symbol. *)
Symbol(name) == IF name \in DOMAIN image.symbols THEN image.symbols[name] ELSE Space - 1

(* The size of the dump is a signed difference. *)
DumpSize == LET d == (Symbol(opt.to) - Symbol(opt.from)) % Space
            IN  IF d >= Space \div 2 THEN d - Space ELSE d
DumpAddr(k) == (Symbol(opt.from) + k) % Space

(* Row r of the signature text: its words, last one first, each printed as the
   number its bytes stand for, so most significant byte first.                  *)

\* Mutant: the words of a row are printed in address order.
WordsInOrder(r) == [d \in 0 .. (Row - 1) |->
                      CosimRead(DumpAddr(r * Row + (d \div WordBytes) * WordBytes
                                           + (WordBytes - 1 - (d % WordBytes))))]

Digits(r) == [d \in 0 .. (Row - 1) |->
                LET word == (Row \div WordBytes) - 1 - (d \div WordBytes)
                    byte == WordBytes - 1 - (d % WordBytes)
                IN  CosimRead(DumpAddr(r * Row + word * WordBytes + byte))]

DumpFile ==
    IF opt.dump = "text"
    THEN [kind |-> "text", data |-> [r \in 1 .. (DumpSize \div Row) |-> Digits(r - 1)]]
    ELSE [kind |-> "binary", data |-> [k \in 1 .. DumpSize |-> CosimRead(DumpAddr(k - 1))]]

(* cosim::at_exit. *)
AtExit ==
    /\ phase = "done" \/ (phase = "run" /\ ~MoreToDo)
    /\ \/ opt.dump = "no" /\ Exit("at_exit", 0)
       \/ /\ opt.dump # "no" /\ DumpSize < 0
          /\ Exit("alloc", -1)
       \/ /\ opt.dump # "no" /\ DumpSize >= 0
          /\ IF \A k \in 0 .. (DumpSize - 1) : CosimReads(DumpAddr(k))
             THEN /\ phase' = "exit"
                  /\ out' = [how |-> "at_exit", code |-> 0, file |-> DumpFile]
             ELSE Failed("abort")
    /\ Fixed /\ UNCHANGED <<mems, cpus, section, current, cycles, ran>>

Next == ExplicitMemory \/ Load \/ Reset \/ Iterate \/ AtExit

Spec == Init /\ [][Next]_vars

-----------------------------------------------------------------------------
(* The bytes a program expects to find: of the last section of the file that has
   contents there, and zero in the rest of what was asked for.                    *)
Covers(sec, a) == sec.alloc /\ a \in sec.addr .. (sec.addr + sec.size - 1)
Expected(a) ==
    LET with == {k \in DOMAIN image.sections :
                   image.sections[k].progbits /\ Covers(image.sections[k], a)}
        k == CHOOSE x \in with : \A y \in with : y <= x
    IN  IF with = {} THEN 0 ELSE image.sections[k].bytes[a - image.sections[k].addr + 1]

UnitByte(i, a) == IF IsSim(i) THEN read(mems[i], a)
                  ELSE IF TbValid(mems[i], a) THEN TbRead(mems[i], a) ELSE 0

(* When riscv_main starts the processor, every attached memory holds the image of the
   ELF file, however its sections overlap one another or the region of -b and -s: the
   section that comes last in the file wins, .bss without contents under it is zero.   *)
ImageLoaded ==
    (phase = "run" /\ cycles = 0) =>
      \A i \in Units : \A k \in DOMAIN image.sections : \A a \in 0 .. (Space - 1) :
        Covers(image.sections[k], a) => UnitByte(i, a) = Expected(a)

(* A load that does not reach the run has a cause one can name: the table of regions is
   full; what the command line or the section asks for (or the region the test bench
   moved past the old ones for it) reaches the end of the address space; or (test bench)
   the section starts inside a line and rounding its base down without extending its size
   lost its end.                                                                         *)
Reaches(addr, size) ==
    \/ addr + size >= Space
    \/ \E i \in Units : /\ ~IsSim(i)
                         /\ FirstFree(mems[i], RoundedBase(addr)) + RoundedSize(size) >= Space
LostEnd(sec) == (sec.addr % Line) + sec.size > RoundedSize(sec.size)
Asked == (IF opt.size = None THEN 0 ELSE 1) + section
LoadFailsForCause ==
    (phase = "exit" /\ section <= Len(image.sections)) =>
      LET sec == image.sections[section]
      IN  \/ \E i \in Units : Asked > (IF IsSim(i) THEN MaxRegions ELSE TbMax)
          \/ Reaches(sec.addr, sec.size) \/ (opt.size # None /\ Reaches(opt.base, opt.size))
          \/ \E i \in Units : ~IsSim(i) /\ LostEnd(sec)

(* Loading is exact: the image is in every memory when the processor starts, and when it
   does not start there is a cause.                                                       *)
LoadExact == ImageLoaded /\ LoadFailsForCause

(* While a run through cosim::step goes on, the processors agree: on the address and the
   registers both show, and on every event all of them have reported, except that the
   last such event of a type is only compared at the next step.                         *)
CommonEvents(ev) ==
    CHOOSE n \in {Len(ran.log[i][ev]) : i \in Units} :
      \A i \in Units : n <= Len(ran.log[i][ev])
AgreedSoFar ==
    (phase \in {"run", "done"} /\ cycles > 0 /\ ~setup.direct) =>
      /\ \A i, j \in Units : cpus[i].pc = cpus[j].pc
      /\ \A i, j \in Units : (IsSim(i) /\ IsSim(j)) => cpus[i].reg = cpus[j].reg
      /\ \A ev \in EventTypes : \A k \in 1 .. (CommonEvents(ev) - 1) : \A i, j \in Units :
           ran.log[i][ev][k] = ran.log[j][ev][k]

\* The loop of riscv_main has been left, and what follows it has begun.
LoopLeft == phase = "done" \/ (phase = "exit" /\ out.how \in {"at_exit", "alloc"})

(* What -c and -r do, which is not quite what the usage text says.  "Max instructions
   to execute" (riscv_main.cpp:141): no step after n of them, but for n = 0, because the
   count is compared after it was advanced; -c 0 is no limit at all.  "Stop at PC
   address" (riscv_main.cpp:142): up to one step after the instruction at the address,
   because the address tested is that of the instruction before the last.  And nothing
   else ends the loop than a limit above 0 that has been reached, the address of -r, or
   a break: with -c 0 the run goes on.                                                *)
StopsInTime ==
    /\ opt.max > 0 => Len(ran.pcs) <= opt.max
    /\ \A k \in DOMAIN ran.pcs : ran.pcs[k] = opt.stop => Len(ran.pcs) <= k + 1
    /\ LoopLeft => \/ opt.max > 0 /\ Len(ran.pcs) = opt.max
                   \/ current = opt.stop
                   \/ \E i \in Units : cpus[i].brk

(* The signature file is the memory of the first processor from one symbol to the other,
   past the end of the address space if the second is the lower one: read from the right,
   the digits of a line are the bytes of its row in address order; bytes after the last
   whole row are not written.  A symbol the file does not have counts as the last address. *)
DumpIsMemory ==
    (phase = "exit" /\ out.file.kind # "none") =>
      LET Place(name) == IF name \in DOMAIN image.symbols THEN image.symbols[name]
                         ELSE Space - 1
          size == (Place(opt.to) - Place(opt.from)) % Space
          Held(k) == UnitByte(1, (Place(opt.from) + k) % Space)
      IN  IF out.file.kind = "binary"
          THEN /\ Len(out.file.data) = size
               /\ \A k \in 1 .. size : out.file.data[k] = Held(k - 1)
          ELSE /\ Len(out.file.data) = size \div Row
               /\ \A r \in DOMAIN out.file.data : \A k \in 0 .. (Row - 1) :
                    out.file.data[r][Row - 1 - k] = Held((r - 1) * Row + k)
=============================================================================
