------------------------------ MODULE TbBench -------------------------------
(***************************************************************************)
(* The SystemC test benches around the Verilated processor: the clock and  *)
(* the reset generator, the wrapper that copies ports to the RTL's pins    *)
(* and back (riscv_top, riscv_tcm_top_rtl), the AXI memory, the thread     *)
(* that loads the program and releases the processor, and the ways a       *)
(* simulation ends.                                                        *)
(*                                                                         *)
(* The SystemC kernel is modelled as IEEE 1666 has it: in a delta cycle    *)
(* the runnable processes run in any order, reading the current values of  *)
(* signals and leaving new ones; the update makes those current and wakes  *)
(* what is sensitive to a change; when nothing is left to do the clock     *)
(* turns.  A bundle of AXI lines is a valid bit and data, the data being   *)
(* the number of the clock edge at which its driver last registered.       *)
(***************************************************************************)
EXTENDS Naturals, FiniteSets

CONSTANTS Benches,     \* the test benches: "cache", "tcm"
          Entry,       \* entry point of the ELF file
          BootVector,  \* BOOT_VECTOR of riscv_tcm_top.v
          MaxEdges     \* bound on the rising clock edges

ASSUME BenchAssumption == /\ Benches \subseteq {"cache", "tcm"}
                          /\ MaxEdges \in Nat /\ 0 \notin {Entry, BootVector}

VARIABLES bench,       \* which test bench this is
          now, nxt,    \* current and new values of the signals
          run,         \* processes to run in this delta cycle
          edge,        \* number of rising edges so far
          gen, thr,    \* where sc_reset_gen::thread and testbench::process stand
          mem,         \* the AXI memory: what it drives and what it saw
          rtl,         \* the Verilated processor
          waves,       \* whether ENABLE_WAVES allows a waveform file
          vcd, flushes,\* m_verilate_vcd, and how often the file was closed
          ended,       \* how the process ended
          before       \* what each side drove before this edge (no part of the program)

bench_vars == <<bench, now, nxt, run, edge, gen, thr, mem, rtl, waves, vcd, flushes, ended,
                before>>

-----------------------------------------------------------------------------
NoLines == [valid |-> FALSE, data |-> 0]
Lines(n) == [valid |-> TRUE, data |-> n]

(* The pins the wrapper forwards, by the name of the port: m_<port>_in. *)
CacheInputs == {"clk", "rst", "vector", "slave"}
TcmInputs == {"clk", "rst", "rst_cpu", "slave"}
Inputs == IF bench = "cache" THEN CacheInputs ELSE TcmInputs

(* Signals outside the wrapper, their copies inside, and the RTL's outputs. *)
Outside == [clk |-> FALSE, rst |-> FALSE, rst_cpu |-> FALSE, vector |-> 0,
            slave |-> NoLines, master |-> NoLines]
Signals == [port |-> Outside, pin |-> Outside]

(* operator== of the AXI bundles: a new value counts as a change when a field of it
   differs.                                                                          *)
SameLines(u, v) == u.valid = v.valid /\ u.data = v.data

Bundles == {"slave", "master"}
SameValue(s, u, v) == IF s \in Bundles THEN SameLines(u, v) ELSE u = v

Changed(old, new) == {s \in DOMAIN old : ~SameValue(s, old[s], new[s])}
Settled == Changed(now.port, nxt.port) = {} /\ Changed(now.pin, nxt.pin) = {}

(* What wakes a process: the threads a rising clock, the wrapper's method any port it
   forwards and any output of the RTL, the RTL any of its input pins.                  *)
WrapperSensitive == Inputs

Woken(ports, pins, rising) ==
    (IF rising THEN {"reset_gen", "process"} \cup (IF bench = "cache" THEN {"mem"} ELSE {})
     ELSE {})
    \cup (IF ports \cap WrapperSensitive # {} \/ "master" \in pins THEN {"wrapper"} ELSE {})
    \cup (IF pins \cap Inputs # {} THEN {"rtl"} ELSE {})

-----------------------------------------------------------------------------
(* The wrapper: every input to its pin, the RTL's outputs to the port. *)
async_outputs ==
    nxt' = [port |-> [nxt.port EXCEPT !.master = now.pin.master],
            pin |-> [s \in DOMAIN nxt.pin |-> IF s \in Inputs THEN now.port[s] ELSE nxt.pin[s]]]

(* The Verilated processor: registers at a rising edge of its clock pin or of the reset
   of its core, outputs from the registers.  Out of reset riscv_csr.v starts it at the
   reset vector.                                                                         *)
CoreReset == IF bench = "cache" THEN now.pin.rst ELSE now.pin.rst_cpu
Vector == IF bench = "cache" THEN now.pin.vector ELSE BootVector

PinsOfRtl == now.pin
PortsOfRtl == [now.pin EXCEPT !.slave = now.port.slave]                   \* mutant
RtlSamples == PinsOfRtl

RtlEval ==
    LET clkRises == now.pin.clk /\ ~rtl.clk
        rstRises == CoreReset /\ ~rtl.rst
        known == [rtl EXCEPT !.clk = now.pin.clk, !.rst = CoreReset]
        next == IF CoreReset /\ (clkRises \/ rstRises)
                THEN [known EXCEPT !.reset_q = TRUE, !.drives = NoLines, !.started = FALSE]
                ELSE IF clkRises
                THEN [known EXCEPT !.reset_q = FALSE, !.drives = Lines(edge),
                                   !.started = @ \/ rtl.reset_q,
                                   !.start = IF rtl.reset_q THEN Vector ELSE @,
                                   !.saw = RtlSamples.slave, !.at = edge]
                ELSE known
    IN  /\ rtl' = next
        /\ nxt' = [nxt EXCEPT !.pin.master = next.drives]

(* sc_reset_gen: reset from the first edge to the second. *)
ResetHeld ==                                                              \* mutant
    /\ nxt' = [nxt EXCEPT !.port.rst = TRUE]
    /\ gen' = IF gen < 2 THEN gen + 1 ELSE gen
ResetThread ==
    /\ nxt' = CASE gen = 0 -> [nxt EXCEPT !.port.rst = TRUE]
                [] gen = 1 -> [nxt EXCEPT !.port.rst = FALSE]
                [] OTHER -> nxt
    /\ gen' = IF gen < 2 THEN gen + 1 ELSE gen

(* testbench::process: attach at the first edge; at the second riscv_main loads the ELF
   file and resets the processor.  The cache bench hands over the entry point, the other
   one holds rst_cpu for an edge; then every step is one clock.                          *)
LateVector ==                                                             \* mutant
    nxt' = IF thr = 2 /\ bench = "cache" THEN [nxt EXCEPT !.port.vector = Entry]
           ELSE IF bench = "tcm" /\ thr \in {1, 2} THEN [nxt EXCEPT !.port.rst_cpu = thr = 1]
           ELSE nxt
ResetCall ==
    nxt' = IF thr = 1 /\ bench = "cache" THEN [nxt EXCEPT !.port.vector = Entry]
           ELSE IF bench = "tcm" /\ thr \in {1, 2} THEN [nxt EXCEPT !.port.rst_cpu = thr = 1]
           ELSE nxt

TestThread == /\ ResetCall
              /\ thr' = IF thr < 3 THEN thr + 1 ELSE thr

(* tb_axi4_mem::process, of which only the registered lines matter here (see TbAxi). *)
MemThread == /\ mem' = [drives |-> Lines(edge), saw |-> now.port.master, at |-> edge]
             /\ nxt' = [nxt EXCEPT !.port.slave = Lines(edge)]

-----------------------------------------------------------------------------
(* The waveform file: with ENABLE_WAVES=no the pointer is never set, and the object is
   not cleared: null, or anything.                                                     *)
BenchInit ==
    /\ bench \in Benches
    /\ now = Signals /\ nxt = Signals
    /\ run = {"wrapper", "rtl"}        \* methods run once at the start
    /\ edge = 0 /\ gen = 0 /\ thr = 0
    /\ mem = [drives |-> NoLines, saw |-> NoLines, at |-> 0]
    /\ rtl = [clk |-> FALSE, rst |-> FALSE, reset_q |-> FALSE, drives |-> NoLines,
              started |-> FALSE, start |-> 0, saw |-> NoLines, at |-> 0]
    /\ waves \in BOOLEAN /\ flushes = 0
    /\ vcd \in IF waves THEN {"open"} ELSE {"null", "wild"}
    /\ ended = "no"
    /\ before = [slave |-> NoLines, master |-> NoLines]

Process(p) ==
    /\ ended = "no" /\ p \in run
    /\ run' = run \ {p}
    /\ \/ p = "wrapper" /\ async_outputs /\ UNCHANGED <<gen, thr, mem, rtl>>
       \/ p = "rtl" /\ RtlEval /\ UNCHANGED <<gen, thr, mem>>
       \/ p = "reset_gen" /\ ResetThread /\ UNCHANGED <<thr, mem, rtl>>
       \/ p = "process" /\ TestThread /\ UNCHANGED <<gen, mem, rtl>>
       \/ p = "mem" /\ MemThread /\ UNCHANGED <<gen, thr, rtl>>
    /\ UNCHANGED <<bench, now, edge, waves, vcd, flushes, ended, before>>

Updated(old, new) == [s \in DOMAIN old |-> IF SameValue(s, old[s], new[s]) THEN old[s] ELSE new[s]]

(* The update of a delta cycle. *)
Update ==
    /\ ended = "no" /\ run = {} /\ ~Settled
    /\ now' = [port |-> Updated(now.port, nxt.port), pin |-> Updated(now.pin, nxt.pin)]
    /\ nxt' = now'
    /\ run' = Woken(Changed(now.port, nxt.port), Changed(now.pin, nxt.pin), FALSE)
    /\ UNCHANGED <<bench, edge, gen, thr, mem, rtl, waves, vcd, flushes, ended, before>>

(* The clock turns when all is quiet. *)
Clock ==
    /\ ended = "no" /\ run = {} /\ Settled
    /\ now.port.clk \/ edge < MaxEdges
    /\ LET rising == ~now.port.clk
       IN  /\ now' = [now EXCEPT !.port.clk = rising]
           /\ nxt' = [nxt EXCEPT !.port.clk = rising]
           /\ edge' = IF rising THEN edge + 1 ELSE edge
           /\ run' = Woken({"clk"}, {}, rising)
           /\ before' = IF rising THEN [slave |-> mem.drives, master |-> rtl.drives]
                                  ELSE before
    /\ UNCHANGED <<bench, gen, thr, mem, rtl, waves, vcd, flushes, ended>>

-----------------------------------------------------------------------------
(* testbench_vbase::abort closes the waveform file and forgets it; a pointer that was
   never set is followed all the same.                                                 *)
AbortKeepsFile(s) == IF s.vcd = "null" THEN s                             \* mutant
                     ELSE [vcd |-> s.vcd, flushes |-> s.flushes + 1]
tb_abort(s) == IF s.vcd = "open" THEN [vcd |-> "null", flushes |-> s.flushes + 1] ELSE s

Files == [vcd |-> vcd, flushes |-> flushes]

EndWith(how, s) == /\ ended = "no"
                   /\ ended' = IF s.vcd = "wild" THEN "crash" ELSE how
                   /\ vcd' = s.vcd /\ flushes' = s.flushes
                   /\ UNCHANGED <<bench, now, nxt, run, edge, gen, thr, mem, rtl, waves,
                                  before>>

(* exit runs exit_override; SIGINT runs it first and then exits; a failed sc_assert runs
   abort, which runs no exit handlers.                                                    *)
exit_override(s) == tb_abort(s)
ProgramEnds == thr >= 2 /\ EndWith("exit", exit_override(Files))
vl_finish == edge > 0 /\ EndWith("finish", exit_override(Files))
sigint_handler == EndWith("sigint", exit_override(exit_override(Files)))
assert_handler == thr >= 1 /\ EndWith("assert", tb_abort(Files))

BenchNext == \/ \E p \in {"wrapper", "rtl", "reset_gen", "process", "mem"} : Process(p)
             \/ Update \/ Clock
             \/ ProgramEnds \/ vl_finish \/ sigint_handler \/ assert_handler

BenchSpec == BenchInit /\ [][BenchNext]_bench_vars

(* sc_start runs the kernel until the process ends. *)
Kernel == (\E p \in {"wrapper", "rtl", "reset_gen", "process", "mem"} : Process(p))
            \/ Update \/ Clock
FairBenchSpec == BenchSpec /\ WF_bench_vars(Kernel)

-----------------------------------------------------------------------------
(* The wrapper is invisible: when the delta cycles of an edge are over, every input pin
   has the value of its port and the master port the value of the RTL's outputs.         *)
WrapperMirrors ==
    (run = {} /\ Settled) =>
      /\ \A s \in Inputs : now.pin[s] = now.port[s]
      /\ now.port.master = now.pin.master /\ now.pin.master = rtl.drives

(* At a clock edge each side samples what the other drove before that edge, although the
   RTL's clock and lines pass through the wrapper and the memory's do not, and whatever
   the order in which the processes of a delta cycle run.                                 *)
SamplesBeforeEdge ==
    /\ rtl.at = edge /\ bench = "cache" => rtl.saw = before.slave
    /\ mem.at = edge => mem.saw = before.master

(* The processor starts only once the program is in memory, and at the address the test
   bench means: the entry point, or the boot vector of the TCM top.                     *)
StartsAtEntry ==
    rtl.started => /\ thr >= 2
                   /\ rtl.start = (IF bench = "cache" THEN Entry ELSE BootVector)

(* The processor is released from reset and starts, unless the simulation ends first. *)
Boots == <>(rtl.started \/ ended # "no")

(* However the simulation ends, the waveform file is closed, and closed once. *)
ClosedOnce == flushes = IF waves /\ ended # "no" THEN 1 ELSE 0

(* The wrapper between test bench and RTL cannot be told from a wire: it mirrors both
   sides when the delta cycles of an edge are over, and shifts no sample by an edge.    *)
WrapperTransparent == WrapperMirrors /\ SamplesBeforeEdge
=============================================================================
