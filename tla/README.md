# Formal models of the secure-boot SoC

The repository holds a RISC-V system-on-chip, in Verilog, that boots firmware
only after its signature and its SHA3-512 digest have been checked, an
instruction-set simulator of the processor in C++, and SystemC test benches that
run the processor beside the simulator. This directory holds TLA+ models of its
control logic, the TLC instances that check them and TLAPS proofs of the properties
that matter most.

Paths below are relative to `src/`. `Project/` is the current SoC. The
directories `core`, `isa_sim`, `top_cache_axi`, `top_tcm_axi` at the top are
copies of `Project/riscv-master/*`, and `sha3_512/rtl` and `aes256/rtl` are
copies of files of `Project/` (with one difference: `sha3_512/rtl/padder1.v`
has `32'h0600000`, seven digits, in the line for `byte_num` 0 where
`Project/padder1.v` has `32'h06000000`; the models follow `Project/`).

## 1. Inventory

| Part | State | Operations | Hard behaviour |
|---|---|---|---|
| `keccak.v`, `padder.v`, `padder1.v`, `f_permutation.v` | block buffer, last-seen and done flags, round selector, sponge state, `out_ready` | take a word, pad, hand a block over, one round per clock | padding position within the block, a block offered while rounds run, the announcement of the digest |
| `sha3_real_wrapper.v` | word FIFO, pointers, count, controller state, status flags | push, pop, complete, init | push and pop in one cycle, full FIFO, a second message without init |
| `axi_sha3_regs.v` | latched AW and W, response flags, configuration, word count, one-cycle pulses | AXI write, AXI read | AW and W in either order, pulses that trail the response, reads behind writes |
| `aes256_ctr_stream.v`, `aes256_pipeline_top.v` | counter, round keys, 15 stages, valid bits, payload delay lines | key load, counter load, accept a block | load and block in one cycle, gaps, key change with blocks in flight, counter wrap |
| `axi_d_simple_decoder.v`, `axi_simple_rom.v`, `soc_top.v` | latched selects, burst counters, error slave | route AW, W, AR; answer | a response must come from the slave that was asked |
| `top_cache_axi/src_v/dcache_core.v` with its RAMs | lines, tags, FSM, request and write skid buffer, replacement pointer, flush counter, error flag | load, store, evict, refill, flush, writeback, invalidate, reset | read-first and write-first RAMs under back-to-back requests, stalls in the middle of a burst, stale tags |
| `dcache_axi.v`, `dcache_axi_axi.v` | request FIFO, beat counters, outstanding counter, skid buffer | take a beat, send AW, W, AR, pass answers on | AW and W taken in different cycles |
| `dcache_mux.v`, `dcache_if_pmem.v`, `dcache_pmem_mux.v` | pending counters, two FIFOs, select | route cached and uncached accesses | a switch with answers outstanding |
| `icache.v` | lines, tags, FSM | fetch, refill, invalidate | branch during a refill |
| `riscv_lsu.v`, `riscv_fetch.v`, `riscv_issue.v`, `riscv_pipe_ctrl.v`, `riscv_csr*.v`, `riscv_divider.v`, `riscv_mmu.v` | pipeline registers, scoreboard, CSRs | issue, stall, squash, trap | squashes with work outstanding |
| `isa_sim/riscv.cpp`, `riscv.h`, `riscv_isa.h` | pc, registers, CSRs, privilege, pending interrupts, timer, memory regions, breakpoints | execute one instruction, raise and return from a trap, take an interrupt, translate, load, store; calls of a debugger and of devices | traps of two levels nested in each other, delegation, interrupts that arrive between two instructions |
| `isa_sim/riscv_inst_dump.cpp` | none | name the instruction of an opcode | a second decoder that has to agree with the first |
| `isa_sim/cosim_api.cpp`, `riscv_main.cpp`, `elf_load.cpp` | attached processors and memories, event queues, cycle count | parse options, load an ELF file, step, compare, stop, dump memory | processors that report events late or never, sections that overlap, the last cycle |
| `top_*/tb/tb_memory.h`, `tb_axi4_mem.*` | memory regions, the queues of unrolled read and write bursts, a write command, AXI lines | add a region, take AW, W, AR, answer | random delays on every handshake, three burst kinds |
| `top_*/tb/main.cpp`, `testbench.h`, `testbench_vbase.h`, `riscv_top.*`, `riscv_tcm_top_rtl.*` | signals, reset generator, waveform file | copy ports to pins, load, release, run, end | the order of processes in a delta cycle, the ways a simulation ends |
| `boot_rom.hex`, `make_secure.py` | boot program counter, manifest | poll, copy, compare, pass or fail | every error must end in FAIL |
| `cpu_axi_sha/` | 16-word message buffer | collect, feed, wait | the feeder does not look at `buffer_full` |

### How the parts interact

The processor's LSU sends loads and stores to `dcache_mux.v`, which routes them
by address to `dcache_core.v` (cached) or `dcache_if_pmem.v` (uncached, single
beats). `dcache_pmem_mux.v` gives one of the two the bridge `dcache_axi.v`,
which talks AXI to `axi_d_simple_decoder.v`; that selects a ROM, the SRAM, the
SHA3 registers, the AES, secure-boot or signature unit, or answers itself with
an error. Either side of the mux has at most one transaction under way, so the
slaves see one write or one read at a time. No unit raises an interrupt: the
boot program in `boot_rom.hex` starts a unit with a store and polls its status
with loads. Inside the SHA3 unit the registers send one-cycle pulses to the
wrapper, the wrapper feeds the core from its FIFO when the padder has room, and
the core announces the digest by a level that the wrapper turns into `done_o`.

The C++ side repeats the processor: `riscv_main.cpp` loads an ELF file into the
memories attached to a `cosim` object and steps the processors attached to it, a
simulator (`Riscv`), a Verilated processor in a test bench, or both. With both,
each step runs one instruction of each and the `cosim` object compares addresses,
registers and the loads and stores each reported, and ends the process at the
first difference. The Verilated cache top reaches its memory through the bridge
`dcache_axi.v` and the SystemC module `tb_axi4_mem`, across a wrapper that copies
ports to pins in delta cycles.

### What makes each component correct

- SHA3 unit: the digest announced is the one of the padded message the host
  wrote, all rounds done; no word is lost between the register write and the
  sponge; every closed message finishes.
- SHA3 registers: one answer per transfer; a read sees every write before it.
- AES stream: block, counter and key that leave together entered together.
- Data cache: a load returns the last store; no store is lost on the way to
  memory; flush and writeback reach memory; every request is answered, errors
  to the request that met them.
- Bridge: the slave sees well-formed AXI bursts, the cache only answers it
  waits for.
- Decoder and slaves: the answer comes from the slave that was asked; every
  transaction ends.
- Simulator: a return brings back what its trap interrupted; an admitted interrupt
  is taken, machine before supervisor; privilege rises only through a vector; its
  decoding, arithmetic and translation are those of the processor it is compared
  with; its memory is one array of bytes.
- Co-simulation: what is loaded is what the ELF file says, on every processor; a
  run goes on only while the processors agree, and stops where it was told to.
- Test bench memory: a slave as the bridge assumes it; a read returns what was
  written.
- Test benches: the wrapper is a wire; the processor starts after the program is
  loaded and at the address meant.
- Ports and LSU (planned): answers come back in the order of the requests when
  accesses switch between cached and uncached.
- Boot program (planned): PASS only if no unit reported an error and all
  sixteen digest words agree.

### Hard to test here

`PROJECT.json` lists each hazard with its line and the properties that cover
it. They are mostly of five kinds: two handshakes meeting in one clock edge
(FIFO push and pop, AW without W, counter load with a block), registers and
RAMs read one edge too early or late, a unit or bus stalled at the worst
moment, state that survives the operation that should have ended it (second
message without init, tags after a reset or an invalidate, trap frames under
nested traps), and two descriptions of one thing that must agree (two decoders,
a C expression and a circuit, a simulator and a processor). Of the parts that are
still planned, the ones to look at are a switch between cached and uncached
accesses with answers outstanding (`dcache_mux.v:154`), a branch while a fetch is
outstanding (`riscv_fetch.v:213`), and the boot program, where any error bit, a bad
signature and any of sixteen digest words must each end in FAIL.

## 2. Modules

One step of a hardware model is one rising clock edge: an action assigns all
registers from their values before it. Wires are operators with the source's
name, registers are variables with the source's name (mostly without `_q`), and
an `always` block is an operator named `...Clk`. Inputs are chosen by `\E` in
every step. A step of `RvSim` is one instruction, or one call of the debugger or a
device between two instructions; a step of `Cosim` is one part of the run loop, a
step of `TbBench` one SystemC process of a delta cycle. Ghost variables are marked
where they are declared.

| Module | Code | Content |
|---|---|---|
| `Keccak` | `keccak.v`, `padder.v`, `padder1.v`, `f_permutation.v` | block buffer, padding, rounds; a lane is a word with the number of its bytes that count, the state is the list of absorbed lanes and a round count |
| `Sha3Wrapper` | `sha3_real_wrapper.v` | extends `Keccak` with FIFO, controller, flags and an arbitrary host |
| `Sha3Regs` | `axi_sha3_regs.v`, instance in `soc_top.v` | extends `Sha3Wrapper` with the five AXI channels, the registers and the bus master |
| `AesCtrStream` | `aes256_ctr_stream.v`, `aes256_pipeline_top.v` | counter, key, stages, valid bits, payload lines |
| `CtrDelayLine` | abstract | what the stream cipher promises: a line of fixed length that pairs payload, counter and key |
| `DCacheCore` | `dcache_core.v`, `dcache_core_tag_ram.v`, `dcache_core_data_ram.v` | the cache between an arbitrary processor and the bus as the bridge offers it |
| `AxiBridge` | `dcache_axi.v`, `dcache_axi_axi.v` | the bridge between a master with one transaction and a slave with free timing |
| `DataBus` | `axi_d_simple_decoder.v`, `axi_simple_rom.v`, the handshakes of `axi_sha3_regs.v`, address map of `soc_top.v` | extends `AxiBridge`, whose slave becomes the decoder with its slaves |
| `RvInst` | `riscv_isa.h`, the test chains of `riscv.cpp`, `riscv_inst_dump.cpp`, `riscv_decoder.v` | which instruction an opcode is to the simulator, the disassembler and the processor |
| `RvBits` | | the bitwise operators, as parameters |
| `RvAlu` | the arithmetic of `riscv.cpp`; `riscv_alu.v`, `riscv_exec.v`, `riscv_multiplier.v`, `riscv_divider.v` | both computations of every arithmetic instruction |
| `RvMmu` | `mmu_walk` and the translations of `riscv.cpp`; `riscv_mmu.v` | both translations |
| `RvMemory` | the regions of `riscv.cpp`, `memory.h` | regions, words, lanes, accesses |
| `RvUnits` | | extends these four: one call at a time, with the comparison as invariant |
| `RvSim` | `riscv.cpp`, `riscv.h` | the processor state: traps, returns, interrupts, timer, CSRs, breakpoints, the calls from outside |
| `TbMemory` | `tb_memory.h`, `testbench.h` | regions of the test bench |
| `Cosim` | `riscv_main.cpp`, `cosim_api.cpp`, `elf_load.cpp` | extends `RvMemory` and `TbMemory`: options, loading, run loop, comparison, dump |
| `TbAxi` | `tb_axi4_mem.cpp`, `tb_axi4_mem.h` | extends `AxiBridge`, whose slave becomes the memory of the test bench |
| `TbBench` | `main.cpp`, `testbench_vbase.h`, `testbench.h`, `riscv_top.*`, `riscv_tcm_top_rtl.*` | the test benches in delta cycles, and how they end |
| `Sha3Proofs`, `AesCtrStreamProofs`, `AxiBridgeProofs`, `DataBusProofs`, `DCacheCoreProofs`, `RvSimProofs`, `CosimProofs`, `TbProofs` | | the theorems, each about the module it is named after (`Sha3Proofs` about `Sha3Wrapper` and `Sha3Regs`, `TbProofs` about `TbAxi` and `TbBench`); `RvSimProofs` and `CosimProofs` also hold those about `RvUnits`; `DataBusProofs` and `TbProofs` build on `AxiBridgeProofs` |
| `MC...` | | instances for TLC; `MCSimulator` runs `RvSim` and `RvUnits` as one |

`Sha3Regs` composes three components in one clock. `DCacheCore` and `AxiBridge`
meet at the beats between them: the cache model lets its bus answer only open
bursts (`CanAck`), and `AnswerOnlyWhenDue` of the bridge shows that it does; the
bridge model lets its master start a transaction only when the last one is
answered, and `BeatsInStep` of the cache shows that it does. `DataBus` puts the
real slaves where `AxiBridge` has an arbitrary one and checks that this is a
special case of it (`ImplementsSlave` is `AxiBridge`'s specification), so that
what is shown of the bridge with any slave holds with these; `TbAxi` does the same
with the memory of the test bench, and checks `BridgeInv` there, where delays make
all orders of AW, W, AR and the answers happen.

`RvUnits` compares functions, `RvSim` and `Cosim` what is done with them. In
`RvSim` an instruction is one of the kinds the chain in `Riscv::execute` tells
apart and the program is arbitrary; data registers are left out. `Cosim` sees of a
processor what the framework sees: address, one register, event queues, break flag.

Several invariants are conjunctions of named parts: `CacheInv` (types, no
duplicate line, clean lines equal memory, `BeatsInStep`, `NothingLost`),
`BridgeInv` (types, `SlaveGetsTheBurst`, `AnswerOnlyWhenDue`, `OutstandingExact`),
`BusInv`, `RegsInv`, `UnitInv`, `SimInv`, `LoadExact`, `WrapperTransparent`. A part
is described where it is defined.

Data is abstract. The Keccak round function, the AES round functions and the
key expansion are free: the models count how often, in which order and under
which key they are applied. A cached word is a function from bytes to values. In
`AxiBridge` the data of a beat is its number.

A definition whose comment begins "Mutant" is a variant of the one after it, as a
slip in the code would make it; no specification uses it. For each property one
of them is known to violate it.

## 3. Runs

| Run | Question | States |
|---|---|---|
| `sha3_wrapper` | Is the digest always that of the message, with every interleaving of host and core? | 290 000 |
| `sha3_regs` | Do driver, registers and unit agree, with AW and W in any order; can the fastest sequence of stores overflow the FIFO nobody watches; does every closed message finish? | 380 000 |
| `sha3_bytes` | Does a byte count of 0 mean four bytes? It means none. | finding |
| `aes_ctr_stream` | Does the pipeline implement the delay line? | 4 500 |
| `dcache_data` | Does every load see the last store, and does every store reach memory? | 190 000 |
| `dcache_answers` | Is every request answered, with the right error flag? | 10 000 |
| `dcache_invalidate` | Does an invalidate drop its line? It does not. | finding |
| `data_bus` | Do decoder and slaves behave as the bridge expects, and does every transaction end? | 190 |
| `simulator` | Do traps, returns, interrupts and breakpoints stay right under every program, debugger and device; do simulator, disassembler and processor give every opcode, operand, page table and access the same meaning? | 1 520 000 |
| `cosim` | Is the right image loaded, does a run go on only while the processors agree, does it stop in time, is the dump the memory? | 169 000 |
| `tb_axi` | Does the bridge keep AXI's rules and its counts in front of a memory that delays everything; is that memory a slave as the bridge assumes it; do reads see writes? | 10 500 |
| `tb_bench` | Is the wrapper invisible, does the processor start right, does every end close the waveforms once? | 2 800 |

### Bounds, and why they are enough

- SHA3: in `sha3_wrapper` `RateWords` is 2 instead of 18, so that the last word falls
  on each position of a block and the padding needs one more block or not; messages of
  up to seven words are more than three blocks; `Rounds` 5 instead of 24 is longer
  than a block, so that the next one waits. `FifoDepth` 2 instead of the 8 `soc_top.v`
  gives it: both pointers wrap and the FIFO fills. In `sha3_regs` the rounds take
  three times as long as a block (`RateWords` 1, `Rounds` 3), more than the ratio of
  the hardware (24 to 18), and five words come as fast as the bus lets them: the worst
  case for the FIFO. `CountMod` 1 leaves the word counter at 0: a driver may read it,
  no property does.
- AES: `Depth` 3 instead of 15, `CtrMod` 3 instead of 2^128 so that the counter wraps,
  `MaxBlocks` bounds blocks between counter loads. The theorems hold for all values.
- Cache: two sets of two words, three tags; `Addrs` puts three lines in one set, so
  that both ways are evicted, and one in the other. `Watched` is the word whose stored
  value varies; other words are only stored to with the initial value, and
  `NothingLost` looks at all of them. The replacement, flush and burst counters run
  through all their values. A word has one byte: the cache stores each byte lane under
  its own strobe and treats all lanes alike.
- Data bus: all transactions the address map allows except lines of the cacheable
  window behind the end of the ROM and stores into the ROM (see Behaviours): lines of
  the ROM, single words elsewhere. The number of states is small because the bus runs
  one transaction at a time and most of it is determined by the clock.
- `simulator`, the calls of `RvUnits`: they are made before the first step of the
  processor state, of which they are independent. Opcodes are all combinations of
  major opcode, three-bit function and field values on both sides of every mask, those
  of no instruction included. Arithmetic is exhaustive at four bits (zero divisor, the
  most negative dividend, every sign). Page tables have two levels of two entries in
  three existing pages, one of the entries on each level arbitrary: pointers,
  superpages, misaligned ones, missing pages, page numbers beyond the address space.
  `satp` names the root, the second table or the missing page, with and without the
  bit its page number has above the address space (`PpnBits` 3, `PhysBits` 2), and
  translation is on or off. Memory has 16 bytes with overlapping regions, one at an
  odd base, one that ends inside a word and one at the top of the address space.
- `simulator`, the processor state of `RvSim`: programs of up to four instructions
  (`MaxInsts`) over three addresses, started in every mode with the timer and the
  faults delegated or not and with interrupts on or off; that is enough to trap to one
  level, trap to the other from inside, return from both, and change `mstatus`,
  `mideleg`, `mip`, `mie`, `sepc` and the timer in between. One breakpoint (`MaxBps`);
  the timer wraps at 8 (`TimeMod`). The theorems hold without these bounds.
- `cosim`: 16 bytes of memory in lines of four, tables of two and three regions, so
  that both kinds of table fill; five ELF files (sections in order and out of it,
  overlapping, `.bss` over contents, sections not to be loaded, sections at the top of
  memory); ten command lines, `-c 0` and `-r` of an executed address among them; four
  steps (`MaxCycles`), more than any `-c` or `-r` of them needs. The theorems hold for
  any files, command lines, number of processors and steps. `CosimAssumption` leaves
  out a `-s` of zero and sizes within a line of 2^32, which wrap when the test bench
  rounds them to lines.
- `tb_axi`: bursts of one, two and four beats of all three kinds, strobes that are
  full or name one byte; two watched bytes, one in a full line and one under a partial
  strobe; queues stop at 2 instead of 128 entries (`QueueLimit`), so that ready drops
  in the middle of a burst.
- `tb_bench`: five rising edges: reset lasts one, loading and starting follow, and two
  remain in which both sides drive.

### Fairness

For the SHA3 unit behind its registers, weak fairness of the clock that registers and
bus master share: resets are not forced and words need not come. In `DCacheCore` the
weakly fair action is a clock edge at which the bus takes beats and answers what is
due: the bridge shows that it does (`Completes`) if its slaves do. In `DataBus` the
ROM, the registers and the error slave answer by their own logic; only the slave that
stands for the units without source is assumed to become ready and to answer. In
`TbAxi` each delay of the memory is a bit of `rand()`, so again and again there is an
edge at which none strikes; and the master sends the beats of an eviction without
pause, as the cache does. In `TbBench` the kernel is fair: `sc_start` runs processes,
updates and clock edges until the simulation ends; its end is not forced. `RvSim` and
`Cosim` state no liveness: what an arbitrary program eventually does is up to the
program.

### Findings

- `dcache_invalidate`: an invalidate compares its address with the tags of the set of
  the request before it, because the tag RAMs are read at the new address only when
  the next state is LOOKUP or WRITEBACK (`dcache_core.v:257`). Its own line stays
  valid; and if the other set holds the same tag in one of its ways, the entry of the
  invalidated set in that way is cleared, whichever line it holds.
- `sha3_bytes`: the comment of the configuration register says that a count of 0 means
  all four bytes of the last word and 1, 2, 3 that many (`axi_sha3_regs.v:165-166`).
  The register passes the count on as it is, and `padder1.v` keeps no byte of the word
  for 0: a driver that leaves the count at its reset value and polls the digest reads
  that of the message without its last word (`DigestAsDocumented`).
  `DriverReadsItsDigest` says what does hold: the documented digest for 1, 2 and 3,
  and for 0 that other one.

### Behaviours

The models show these as well. But for the two options of the run loop no document
speaks against them, and the properties above are stated so that they hold with them;
a property does therefore not catch what is named here.

- Hardware. A key load is only modelled where no block has rounds to go, the rule the
  source states for `key_load` (`KeyLoadAllowed`): a key loaded with blocks under way
  (`aes256_pipeline_top.v:40`) gives them round keys of both keys, and nothing in the
  hardware refuses it. The ROM refuses a write after its first beat
  (`axi_simple_rom.v:93`), so a write burst is answered in the middle. A cached load
  behind the end of the ROM asks for eight beats and gets one
  (`axi_d_simple_decoder.v:591`), and the cache waits for the rest. The decoder hides
  an address from a slave that does not take it in its first cycle
  (`axi_d_simple_decoder.v:175`), which `DataBus` therefore assumes the units without
  source to do. A refill that the bus answers with an error makes the line valid all
  the same (`dcache_core.v:282`), so only the first load of such a line reports the
  error.
- Simulator. A `csrrw` to `sstatus` replaces the machine's bits of the register too;
  for `ReturnRestores` it counts as a write of the saved machine frame. After a fetch
  fault the address of the instruction before it is looked up among the breakpoints
  again, so a break may be reported twice (`BreakExact` names the case). The loop of
  the page walk counts an unsigned variable down and ends by its other exits only. A
  region that reaches the top of the address space matches no address, because its end
  is computed in 32 bits.
- Simulator and processor differ where the comparison says so: the processor also
  accepts `uret` and `hret`, and does not write the destination of a fence
  (`DecodersAgree`). `SameTranslation` (`TranslationAgrees`) compares the translations
  for the page tables both give a meaning (`WellFormed`), with MXR off, and names
  three differences. A last-level table outside memory is a fault in the simulator;
  the processor tests the error of an answer only at the first level
  (`riscv_mmu.v:263-277`) and takes whatever word comes with it for an entry
  (`RtlEntries`, `TableMissing`). Without translation a load or store in user mode is
  a fault in the simulator, whose made-up entry has no U, and goes through in the
  processor. And a fetch below machine level without translation is walked from `satp`
  by the processor all the same (`riscv_mmu.v:201`), while the simulator lets the
  address stand: such a fetch is not compared. Both cut `satp`'s page number to the
  address space, so a number beyond it names the same table on both sides.
- Run loop. By the usage text `-c` is the "Max instructions to execute"
  (`riscv_main.cpp:141`) and `-r` means "Stop at PC address" (`riscv_main.cpp:142`).
  Neither is quite so. The count is compared for equality after it was advanced, so
  `-c 0` sets no limit; and `get_pc` is the address of the instruction executed last,
  read before the step, so one more instruction runs after the one at the address.
  `StopsInTime` says what does hold: no more than `-c` steps if that is not 0, at most
  one after the address, and no other end of the loop than these and a break. The last
  event of a type is compared only at the next step (`AgreedSoFar`), so a difference
  in the last step of a run is not seen; and registers are compared with those of the
  first processor only, so two simulators behind a Verilated processor would not be
  compared with each other. A symbol that the file does not have is taken for the
  address 0xFFFFFFFF: a dump from there to a symbol starts at the last byte and goes
  on at address 0 (`DumpIsMemory`). The test bench rounds a section's base down
  without extending its size and may lose the section's end, which then fails the load
  (`LoadFailsForCause`). A simulation that ends before the waveform flag was ever set,
  and one that aborts without waveforms, reads an uninitialised variable, which
  `TbBench` models as a free choice: one of the outcomes is a crash that closes
  nothing, and `ClosedOnce` admits it.

## 4. Proofs

TLAPS proves these for every value of the constants that satisfies the named
assumptions of their modules (`KeccakAssumption`, `WrapperAssumption`,
`RegsAssumption`, `NoReqAssumption`, `AesAssumption`, `LensAssumption`,
`RequestsAssumption`, `TbAxiAssumption`, `DCacheAssumption`, `SimAssumption`,
`MemoryAssumption`, `TbMemoryAssumption`, `CosimAssumption`, `BenchAssumption`,
`MmuAssumption`, `UnitsAssumption`), which give the constants their types and which TLC evaluates in every run. A theorem
that needs more names its hypothesis in the last column.

| Theorem | Statement | Hypothesis |
|---|---|---|
| *SHA3 unit, `Sha3Proofs`* | | |
| `TypeCorrect` | `Spec => [](TypeOK /\ RoundsInStep)` | |
| `UnitInvariant` | `Spec => [](TypeOK /\ RoundInv /\ UnitInv)` | |
| `DigestCorrect` | `Spec => [](DigestIsFirstMessage /\ NothingLost)` | |
| `DigestFrozenCorrect` | `Spec => DigestFrozen` | |
| *its registers, `Sha3Proofs`* | | |
| `RegsInvCorrect` | `RegsSpec => []RegsInv` | |
| `EveryWordAcceptedCorrect` | `RegsSpec => []EveryWordAccepted` | `RoundsFit` |
| `DriverReadsItsDigestCorrect` | `RegsSpec => []DriverReadsItsDigest` | `RoundsFit` |
| *AES stream, `AesCtrStreamProofs`* | | |
| `OneKeyCorrect` | `Spec => [](TypeOK /\ OneKeyPerBlock)` | |
| `CounterCorrect` | `Spec => []CounterInStep` | |
| `RefinesDelayLine` | `Spec => ImplementsDelayLine` | |
| *bridge, `AxiBridgeProofs`* | | |
| `BridgeCorrect` | `Spec => []BridgeInv` | |
| `OffersStandCorrect` | `Spec => OffersStand` | |
| *bridge and data bus, `DataBusProofs`* | | |
| `BusRefinesSlave` | `BusSpec => ImplementsSlave` | `LinesFromRom` |
| `BusBridgeCorrect` | `BusSpec => []BridgeInv /\ OffersStand` | `LinesFromRom` |
| `BusInvCorrect` | `BusSpec => []BusInv` | `LinesFromRom` |
| `AnswersExactCorrect` | `BusSpec => []AnswersExact` | `LinesFromRom` |
| *bridge and test bench memory, `TbProofs`* | | |
| `TbRefinesSlave` | `TbSpec => ImplementsSlave` | |
| `TbBridgeCorrect` | `TbSpec => []BridgeInv` | |
| `DataHasCommandCorrect` | `TbSpec => []DataHasCommand` | |
| `ReadSeesWritesCorrect` | `TbSpec => []ReadSeesWrites` | `WordWrites`, `LegalWraps` |
| *test benches, `TbProofs`* | | |
| `WrapperTransparentCorrect` | `BenchSpec => []WrapperTransparent` | |
| `StartsAtEntryCorrect` | `BenchSpec => []StartsAtEntry` | |
| `ClosedOnceCorrect` | `BenchSpec => []ClosedOnce` | |
| *cache, `DCacheCoreProofs`* | | |
| `ControlCorrect` | `Spec => []Control` | |
| `BeatsInStepCorrect` | `Spec => []BeatsInStep` | |
| `ErrorReportedCorrect` | `Spec => []ErrorReported` | |
| `CacheInvCorrect` | `Spec => []CacheInv` | `NoInvalidate` |
| `LoadReturnsLastStoreCorrect` | `Spec => []LoadReturnsLastStore` | `NoInvalidate` |
| `SyncReachesMemoryCorrect` | `Spec => []SyncReachesMemory` | `NoInvalidate` |
| *simulator, `RvSimProofs`* | | |
| `SimInvariant` | `Spec => []Inv` | |
| `BreaksExact` | `Spec => []SimInv` | |
| `ReturnsRestore` | `Spec => []ReturnRestores` | |
| `InterruptsTaken` | `Spec => []InterruptsExact` | |
| `PrivilegeRisesByTrap` | `Spec => PrivilegeByTrap` | |
| *loading, co-simulation and dump, `CosimProofs`* | | |
| `LoadExactCorrect` | `Spec => []LoadExact` | |
| `AgreedSoFarCorrect` | `Spec => []AgreedSoFar` | `FirstShowsRegisters` |
| `StopsInTimeCorrect` | `Spec => []StopsInTime` | |
| `DumpIsMemoryCorrect` | `Spec => []DumpIsMemory` | |
| *the simulator beside the processor* | | |
| `DecodersCorrect` (`RvSimProofs`) | `UnitsSpec => []DecodersAgree` | |
| `ArithmeticCorrect` (`RvSimProofs`) | `UnitsSpec => []ArithmeticAgrees` | |
| `TranslationCorrect` (`RvSimProofs`) | `UnitsSpec => []TranslationAgrees` | |
| *the simulator's memory, `CosimProofs`* | | |
| `AccessesExact` | `AccessExact(...)` for every table of regions, store and load | |
| `MemoryIsFlatCorrect` | `UnitsSpec => []MemoryIsFlat` | |

**Hypotheses.** Each is what the code needs, and a state or a run shows that the
theorem fails without it or why the code is only used within it.

- `RoundsFit` (`Rounds <= 4 * RateWords`): the registers accept a word in four
  cycles at the fastest and nobody looks at `input_ready_o`, so a block must be
  permuted before the next one is complete. The build has 24 rounds for 18 words.
  The bound is tight: with one round more TLC shows a word lost. The run has
  `Rounds` 3, `RateWords` 1, within it.
- `LinesFromRom`: the only bursts of several beats are reads of the ROM. A write
  burst to the ROM is answered after its first beat, and a read burst to no window
  has one beat of answer (see Behaviours): with either the bus is not the slave the
  bridge relies on. A boot program that stores nothing into the cacheable window
  and loads only the ROM from it stays within.
- `NoInvalidate`: the processor issues no `invalidate`. `dcache_invalidate` is
  the counterexample without it: the wrong line may lose its newest contents.
  Flushes, writebacks, errors and resets are all included. `ControlCorrect`,
  `BeatsInStepCorrect` and `ErrorReportedCorrect` do include invalidates.
- `WordWrites`: writes start at word addresses, as the load/store unit (which
  clears the two low bits, `riscv_lsu.v:326`) and the cache make them. The memory
  clears those bits of a read address only, so a write elsewhere lands beside
  the word that is read back.
- `LegalWraps`: a wrapping burst has 2, 4, 8 or 16 beats, as AXI demands, or one;
  `calc_wrap_mask` has no window for any other length. The processor's lines of
  eight words comply.
- `FirstShowsRegisters`: if two of the attached processors are simulators, the first
  one is. `cosim::step` compares every register file with the first processor's, and
  only if that one shows its registers, which a Verilated one does not. The two
  programs of the repository attach one processor each; any pair complies, and any
  list with a simulator in front.

**SHA3 unit.** The digest property is not inductive: that the announced digest is
right depends on what the padder, the FIFO and the controller did before. `UnitInv`
adds, for each of the three phases of a message (collecting, padding, permuting),
how the lanes in the core, the FIFO's entries and the flags agree: `FifoInv` makes
the FIFO a ring whose only last word is its newest, `CollectInv` says that nothing
is announced before the last word is in the core, `PaddingInv` that every lane
taken is the lane of the padded message at its place and how many blocks remain,
`BlocksInv` that only whole blocks are absorbed, and `RoundInv` that the round
counter and the one-hot selector agree. The invariant speaks of lanes, as the padder
makes them (`PaddedLane`); the property does not: `PaddedBytes` pads bytes by FIPS 202
and knows neither lanes nor `padder1.v`. That the two are the same for every length is
arithmetic (`SameBlocks`, `BytePlace`, `BytesPadded`, `DigestLanes`). The lemmas treat one part each, for a clock
edge with and without a push and a pop.

**SHA3 registers.** `RegsInv` follows from the phase of the transfer in progress:
at rest, a write on its way, its response, a read (`Transfer`). `EveryWordAccepted` is a matter of
time, so its invariant counts it: `Ahead` is the number of clock edges before the
next word can enter the FIFO, `Busy` the number until the engine is idle, `Missing`
the words until the block is full, and `Timely` says that the engine is idle in
time, that at most one word waits and that the block is never full while the engine
runs. `SentInv` relates what the bus master sent to what the FIFO accepted, with
the one word a pulse may still carry. The digest a driver reads is then that of
`DigestCorrect`; `ReadInv` says that what a read returned holds until a write, and
`DigestReadIs` that its bytes are the documented ones for the counts 1, 2 and 3.

**AES stream.** `PipeInv` says that a valid stage holds a block under one key
with as many rounds as its position; it needs the rule that a key is loaded only
when no block has rounds to go (`KeyLoadAllowed`). The refinement maps a valid
stage to its payload, counter and key, and an empty one to `None`.

**Bridge.** The invariant says, in each of five phases of a transaction (`IdleInv`,
`AskedInv`, `ReadingInv`, `WritingInv`, `WrittenInv`), where every beat of it is: in
the FIFO, in the skid buffer, offered on AW or W, or at the slave. The number of
beats that left the FIFO (`popped`) gives all three counters and what
`BurstInOrder` says the slave has, so the theorem covers any burst length up to 256
beats and every order in which the slave takes AW and W. The proof has a lemma per
phase and outcome of the edge.

**Data bus.** `DInv` joins this invariant with the registers of decoder, ROM,
register file and error slave in the phases of the same transaction (`BusPhases`):
a read asked for or being answered, a write offered, half taken, held by its
slave, answered. Each phase fixes which slave is selected, and that all others are at rest;
that is `BusInv`, and with it every step of the bus is a step of the bridge's
arbitrary slave. The properties of the bridge then hold on the bus by
`BridgeCorrect` itself.

**Test bench memory.** It is the slave with the most freedom: each queue may be
full or delayed by a bit of `rand()`. `TbInv` says that its queues hold exactly the
beats taken and not yet answered (`ReadsQueued`, `WritesQueued`), that the
pending command is that of the address, from the address to the last beat
(`CommandHeld`), and that it is ready for data only when a command is there or can
come in the same cycle, which is `DataHasCommand`. For the data, `WrittenTo` says that the
watched byte is what the beats written so far left in it, though the queue may be
several beats behind the bus. The read queue is filled by a recursive function over
the beats of a burst; `ItemsUnrolled` shows that it yields the address of beat n, for
which there is a closed form (`ItemAddr`), by refuting the least beat for which it
would not.

**Test benches.** That the wrapper is a wire is a matter of delta cycles, so `KernelInv`
says what each of them leaves. `Wires`: the value a signal takes next is that of its
driver, and a copy can differ from its original only while the process that makes it is
due. `EdgePhases`: in the first delta cycle of a rising edge (`FirstDelta`) all ports and
pins are still those from before the edge, so the memory, which runs then, samples the
old values; the RTL runs one delta cycle later, and its inputs are old too because the
wrapper copies them together with the clock. `ThreadsCount`: the two threads have seen
the same edges, and resets and vector are functions of their number. `ResetInv` carries
these to the ports and, an edge late at most, to the pins (`PortsAt`, `PinsAt`); that the
RTL leaves reset only when the pins show the entry point needs both, since the vector
arrives through the wrapper and the reset is sampled by the RTL. `ClosedOnce` needs
`FileOpen`: until the simulation ends nothing has been closed.

**Cache.** `Control` says for each state of the state machine which request it
serves, which flags are set, which way is chosen, and how many beats of its burst
are still due at either end (`Phases`); it holds with all operations. `Data` adds
where the newest value of each word is: in the way that holds its line, else in
memory; in `REFILL` and `EVICT` partly in the beats under way, which `RefillData`,
`EvictData` and `WaitData` count. `CacheInv` alone is not inductive, because a clean
line equals memory only if the eviction that cleaned it wrote every word in order.

**Simulator.** `SimAssumption` says what a debugger may preset (registers of
their width, no break pending) and that CSR accesses carry values of the
register's width. `ReturnRestores` alone speaks only of the return just made, so
`Inv` adds `FramesHeld`: as long as software has not overwritten them, the
privilege, address and interrupt enable that a level's last trap saved are still in
that level's registers, whatever the other level did. Each kind of instruction has a
lemma that it keeps the frames up to the end of the step (`NextLeft`, `CsrKeeps`,
`MretStep`, `SretStep`, `EbreakStep`); `TrapSeen` does the same for a trap,
`RetireStep` combines it with the interrupts taken after the instruction, for which
`MachineFirst` and `NoneTaken` give the order and the completeness that
`InterruptsExact` states, and `FaultStep` and `FetchFaultStep` treat the
instructions that do not complete. `PrivilegeByTrap` follows from the same case
analysis (`TrapRises`): only a trap writes a higher privilege.

**Run loop and loader.** `RunInv` counts what has been run: while the loop runs, the
addresses remembered are as many as `_cycles`, and `current_pc` is the last but one.
`AgreeInv` is about the event queues, from which `cosim::step` pops the fronts that all
processors have: each queue is the rest of what its processor reported after the events
compared so far (`Follows`), these were the same everywhere, and one of the queues has
at most one event left (`Compared`). Therefore the events common to all are at most one
more than those compared, which is what `AgreedSoFar` says and why it leaves out the last
one. It is not inductive without the queues. `LoadInv` says that every memory holds,
byte for byte, what the sections read so far leave (`Left`: of those with contents the
last one that covers the byte, else zero), and that no table has more regions than were
asked for. A lemma for each kind of memory says what creating a region and writing a byte
does to the bytes that can be read (`SimCreates`, `TbCreates`, `UnitWrites`): a new region
shows only where no earlier one does, and the test bench, which moves a new region past
those it overlaps and cuts it off in front of the next, still covers what was asked unless
one of the causes of `LoadFailsForCause` holds. `SectionLoaded` joins them over the bytes
of a section. `DumpIsMemory` needs `MemTypes` only: how `at_exit` divides the memory in
rows and words is arithmetic, true for every size of both.

**The simulator's memory.** `AccessesExact` is `MemoryIsFlat` of the run `simulator` for
every table of regions, overlapping or not, and every content: a store changes the bytes
it names (`StoreIs`), and a load of any width and sign returns the bytes that are there
(`LoadIs`). `MemoryIsFlatCorrect` is its instance for the regions `create_memory` makes.

**Decoders.** A set of fields that an encoding tests is all a mask is, so there is a lemma
for each group of instructions that says which fields each tests (`ImmHits`, `RegHits`,
`CsrHits` and so on). From these: an opcode is an instruction of its major opcode only
(`HitsByOpcode`), two instructions of one major opcode differ in a field both test
(`ApartByFields`), except that wfi skips f3 (`Unambiguous`). Both chains try every
instruction and wfi last (`ChainsCover`, also for their concatenated parts), hence the first
match does not depend on the order of the rest (`FirstMatchIs`, `NameOnce`), and the
simulator and the disassembler agree. The processor decides by class: `AcceptsHits`
and `WritesAgree` compare its classes with the instructions in them.

**Arithmetic.** The theorem is about registers of any width above one, so nothing can be
computed. The steps are:

- powers of two are positive because they count the subsets of a set, and add in the
  exponent by induction (`PowerSum`); quotients and remainders are unique
  (`DivisionUnique`);
- the sign bit tells a register from its signed value (`SignIs`), from which the
  comparators follow by cases over both signs (`ComparatorsAre`);
- the processor's product has one bit more than two words and the simulator's exactly two,
  with the signed factor made unsigned: both are congruent to the product of the integers,
  and the high word is the same (`ProductsAgree`, `MulhsuIs`);
- the shifter has shifted by the low bits of the amount after each stage
  (`LeftShiftIs`, `RightShiftIs`), where filling with the sign is the division of the
  negative number (`FilledStage`), and an amount below the width has no bit without a stage
  (`AllBits`);
- the divider keeps quotient times divisor plus rest equal to the dividend, with the rest
  below the shifted divisor (`Divided`), so after W steps it has divided
  (`DividerDivides`); C's truncation and the two tested cases are what its sign
  corrections make of that (`SignedDivision`, `OverflowIs`).

The bitwise operators are the same parameters on both sides and nothing is assumed of them
here.

**Translation.** `WalkAgrees` follows both page walks from the table that `satp` names,
its page number cut to the address space, through the two levels: for each entry the
processor's walk may end with, either both end at it, or both find none, or the simulator
leaves its memory where the processor reads an entry that cannot be used, or a last-level
table is missing and the simulator finds none (`WalkEnds`). `ChecksAgree` compares the
permission checks for the privileges, the SUM bit and the kinds of access,
`BareTranslation` the accesses for which the processor does not walk. Of the bitwise
operators it is assumed that or with zero changes nothing (`MmuAssumption`): the
simulator completes every leaf by an or with the low part of the page number, which is
zero for a leaf of the last level (`LowIndex`); the processor only completes superpages.

**Induction.** The library's induction theorems take an operator as a parameter, which
no backend can instantiate. Its theorems about well-founded relations take a set: a set
of numbers that is not empty has a least element (`LeastNumber`), so a set that
holds 0 and with each number the next holds all (`InductionTo`). All inductions over
the bytes of a section, the positions of a region, the beats of a burst, the stages of the
shifter or the steps of the divider are of this form.

**Only model-checked.** The liveness properties (`LastWordFinishes`, `Answered`,
`Completes`, `Boots`) are out of the prover's reach, as is everything about
`ENABLED`. Every other property that a passing run checks, the refinements among
them, is also proved. That the encodings, the chains and the C expressions of `RvInst` and `RvAlu`
are those of the source is a matter of reading, for the run as for the proof.

## 5. Plan

1. `UncachedPort` and `DCachePorts`: `dcache_if_pmem.v`, `dcache_mux.v`,
   `dcache_pmem_mux.v` over an abstract cache; answers in the order of requests.
   Then `Lsu` on top.
2. `BootProgram`: `boot_rom.hex` over the units' status bits and the manifest of
   `make_secure.py`; PASS only after every check passed.
3. `ICache` and `Fetch`: refill, invalidate, branch with a fetch outstanding.
4. `Issue` with `riscv_pipe_ctrl.v`, then `Csr`, whose abstract specification is
   `RvSim`.

## 6. Not modelled

`PROJECT.json` lists every part. Left out for good: the AES and Keccak rounds,
combinational functions whose width is out of TLC's reach; the vendored PicoRV32;
the display and board files; the TCM tops in Verilog, which the secure-boot SoC
does not use (their test bench is in `TbBench`). Planned parts are in section 5.

Within the modelled parts: the request tag of the cache, which is constant; the
addresses of beats in `AxiBridge`, which travel with the length; the AXI id and
response codes but for error or not; in `DCacheCore` the address of the later
beats of a burst, which no slave reads. In `AxiBridge` reset is the initial
state only: master, bridge and slaves are reset by the same wire. Of the simulator:
the values in general, scratch and cause registers (`RvSim`), the trace output, the
text of the disassembler, and widths (`RvAlu` has four bits in its run and any width in its theorem). Of the
processor beside it: the pipeline around its arithmetic, the TLBs and bus requests
of its MMU. Of the run loop: the parsing of option letters and of the ELF file by
its library. Of the test benches: the trace files, and the memory port of the TCM
wrapper.
