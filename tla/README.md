# Verification of the Spike-based reference simulator

The repository is a RISC-V instruction set simulator (Spike, with changes that make it
the reference model of a hardware test bench). Its instructions are more than a thousand
sequential data transformers. What is hard to get right is around them: harts that take
turns, a debugger that intervenes between any two turns, caches of translations that every
change of mode must flush, interrupts that come from several sides and are looked for at
certain points only, instructions that trap halfway and are restarted, and a test bench that
reads the simulator's state between steps. These modules describe those parts in TLA+, and
the shared algorithms of the instructions with them; TLC checks them on small instances and
TLAPS proves the central invariants for every instance.

## Inventory

Paths are relative to `src/spike/`. "Interacts" names calls and shared state.

| Part | State | Operations | Interacts | Hard because | Correct if |
|---|---|---|---|---|---|
| Debug Module, `riscv/debug_module.cc` | `dmcontrol`, `dmstatus`, `abstractcs`, `abstractauto`, `command`, `dmdata`, program buffer, `hart_state[]`, `debug_rom_flags[]` | DMI reads and writes, stores of the ROM, `run_test_idle`, `proc_reset` | called by the JTAG transport; reads and writes harts; harts store to it | quanta and DMI accesses interleave; a command is spread over both | a command runs once, on its hart, under busy; status tells the truth |
| Debug ROM, `debug_rom/debug_rom.S` | the hart's pc, `s0`, dscratch | poll GO and RESUME, run the command, report exceptions | Debug Module memory | it looks at two flags the debugger sets at any time | no lost command, no unrequested resume |
| Scheduler, `riscv/sim.cc` | `current_proc`, `current_step` | `step`, `main`, `reset` | harts, UART tick, remote_bitbang, HTIF | decides every interleaving | every hart gets turns |
| Hart loop, `riscv/execute.cc` | pc, `halt_request`, single step | `step`: slow and fast path, traps, wfi | MMU, Debug Module, triggers | two paths with different caches | halts when asked, resumes where it was |
| MMU, `riscv/mmu.{h,cc}` | TLB tags and data, instruction cache, load reservation | load, store, fetch, LR, SC, refill, flush | CSRs, memory, scheduler | staleness: hits are not checked | a hit is what a walk would have found |
| CSRs, `riscv/csrs.cc` and `put_csr`/`get_csr` | the registers | read, write | flush the MMU | side effects on translation | every change that matters flushes |
| Traps, privileges, resets, `riscv/processor.cc` | prv, mstatus, xepc, delegation | `take_trap`, `take_interrupt`, `mret`, `sret`, `reset` | MMU, Debug Module | nesting, priorities | the right interrupt in the right mode |
| PLIC, `riscv/plic.cc` | priority, level, and of each context threshold, enable, pending, claimed | register accesses, `set_interrupt_level` | devices, `mip` of harts | line and register changes in any order, several contexts | level triggered, best first, the right pin |
| CLINT, `riscv/clint.cc` | mtime, mtimecmp, msip | stores, `increment` | `mip`, scheduler | mtip is recomputed at certain events only | mtip = mtime >= mtimecmp |
| UART, `riscv/ns16550.cc` | queue, lsr, ier, iir | register accesses, `tick` | PLIC | full queue, line follows queue | the line is high iff there is a cause |
| Triggers, `riscv/triggers.cc` | tdata | match | MMU tags, Debug Mode | the tag bit in the TLB | no match is missed |
| JTAG transport, `riscv/jtag_dtm.cc`, `riscv/remote_bitbang.cc` | TAP state, ir, dr, `busy_stuck`, `rti_remaining` | `set_pins`, socket commands | Debug Module | pace of the debugger, partial reads and writes | no access is lost or doubled |
| HTIF and front-end server, `fesvr/` | tohost, fromhost, queues; the coroutines of `context.cc` | `run`, `check_tohost`, devices; `switch_to` | memory of the program | flags set outside of the mutexes | one coroutine runs, no switch is lost |
| Bus, memory, ELF loader, `riscv/devices.cc`, `fesvr/memif.cc`, `fesvr/elfloader.cc` | regions, pages of the host | region arguments, `load_elf`, chunked writes | scheduler, harts | regions and segments without alignment | the harts find the program |
| Vector loads and stores, `riscv/v_ext_macros.h` | vstart, vl, registers, `mem_data_array` | one access per field of an element | MMU, test bench | traps in the middle, restarts | done exactly once for the registers and the test bench |
| Counters, `riscv/csrs.cc`, `execute.cc` | minstret, mcycle, `serialized` | `step`, CSR accesses | hart loop | the counters lag behind in the inner loop | software never sees the lag |
| Cache simulator, `riscv/cachesim.cc` | tags of two levels | access, clean, invalidate | memory tracer | dirty lines on their way down, a line size for each cache | no store is forgotten where lines nest |
| Reduction reference model, `red_ref_model/` | accumulators | `do_reduction` | softfloat | lanes, accumulators, parts, trees | each element once |
| Co-simulation interface, `spike_main/spike.cc` | trap flags, `core_state` | `run_until_vector_ins`, `run_and_inject`, `set_mip_ei` | test bench, harts | flags outlive the step that set them | reports are of what was executed |
| Arithmetic and bit manipulation, `riscv/arith.h`, `riscv/insns/` | | high products, saturation, rounding, permutations | | few operands go wrong | exact |
| ROM, device tree, disassembler, prompt, front-end debug transport, custom extensions | | | | sequential data processing | |

`PROJECT.json` lists every part with its status, and the hazards with their source lines.

## Modules

| Module | Models |
|---|---|
| `DebugModule` | Debug Module, debug ROM, entry to and exit from Debug Mode, round-robin |
| `CommandService` | what a debugger is promised about abstract commands (abstract specification) |
| `SystemBus` | the system bus access registers of the Debug Module |
| `Mmu` | translation, TLB, instruction cache, load reservation, and what flushes them |
| `Plic` | the PLIC and the pins it drives |
| `Clint` | the CLINT and the timer and software pins |
| `Interrupts` | extends `Clint`: interrupts, exceptions, returns, Debug Mode and resets of the harts |
| `Uart` | the receive side and the interrupt of the UART |
| `JtagDtm` | the TAP, its registers, the DMI accesses and their busy protocol |
| `RemoteBitbang` | the debugger's socket: ticks, commands and answers |
| `Context` | coroutines on threads |
| `Coroutines` | what threads, mutexes and signals make of them (abstract specification) |
| `Cosim` | the calls of the test bench and the flags they report |
| `VectorMemory` | vector loads and stores that trap and are restarted |
| `Counters` | minstret and mcycle, the two nested loops of a quantum, serialization |
| `CacheSim` | two levels of set-associative caches with write-back |
| `MemoryImage` | regions, bus, ELF segments, chunked writes |
| `Reduction` | the reduction reference model |
| `Arithmetic`, `BitManip` | algorithms that instructions share |
| `MCDebugModule`, `MCMmu`, `MCInterrupts` | fairness, sets of page table entries, what software writes, for the runs |
| `MCTransport`, `MCDevices` | components that share no state, one at a time in one run |
| `DebugModuleProofs`, `MmuProofs`, `InterruptsProofs` | theorems about `DebugModule`, `Mmu` and `Interrupts` |
| `TransportProofs` | theorems about `JtagDtm`, `Context`, `MCTransport` and `RemoteBitbang` |
| `ComputationProofs` | theorems about `Arithmetic` and `Reduction`; lemmas on numbers, sets and recursive functions that the modules below use |
| `BitProofs` | theorems about `BitManip` |
| `MemoryProofs` | theorems about `CacheSim` and `MemoryImage` |
| `DeviceProofs` | theorems about `Plic`, `Uart`, `Cosim`, `Counters`, `SystemBus`, `VectorMemory`, and `MCDevices` as a whole |

### DebugModule

One step is one quantum of the hart whose turn it is, or one DMI access. This is the
program's own granularity: `sim_t::main` alternates `step(INTERLEAVE)` with
`remote_bitbang->tick()`, all in one thread, and a hart in Debug Mode ends its quantum at
the first `wfi` or trap. (Without `DEBUG` defined, `sim_t::main` returns at once and the
test bench steps the harts; nothing here speaks of that build.) `mode[h]` is where the
quantum left the hart: in its program, parked in the ROM loop, inside the abstract command,
or in its exception handler. `Quantum(h)` has one disjunct for each path: `RunCommand`
(GO is set), `RunResume`, `RunPark`, `RunBuffer`, `RunException`, `RunProgram`. The
debugger's actions are the registers of `dmi_write` and the reads with a side effect.
A command is known by what `perform_abstract_command` makes of it (`CommandKinds`).

Assumed of what the harts execute: a program buffer may store to dmdata and to the program buffer
(`debug_module.cc:200-209`; `HARTINFO` advertises it), so that `RunCommand` and `RunBuffer` leave any value in
`data`, but not to the words that the ROM reports with; programs outside Debug Mode do not store to
the Debug Module's memory. The core type is STANDARD or SARGANTANA: with any other,
`debug_module_t::load` and `store` refuse every access (`:128`, `:176`), and no hart could fetch the ROM.

`CommandService` is the abstract specification: a command is issued to a halted hart with no error
outstanding, performed once with the debugger's data, and completes. A program buffer may change
`data`, and nobody else does while the command is outstanding. A command that traps is "failing" until
it has left an error code; an access that is refused meanwhile leaves one too (`Meddle`), and the first stays.

What a debugger may do is a constant: `Liberties` lists what a careful one does not do
(reselect, reset a hart or the Debug Module while busy, resume a running hart). Every
property says which of them it withstands.

### Mmu

Addresses are page numbers; a page holds one word. A page table is a map from pages to
leaf entries, one for each value of satp. S and U are one translated mode. Each access is
one action that does the lookup, the check and the refill, as the code does. Flushes are
inside the actions that cause them. `present` and `intruded` are history variables: the
entries a page had since the hart's last flush, and whether another hart stored to a
reserved word.

`riscv/decode.h:473` defines `DISABLE_PGSIZE_CHECK` as 1, and with it `mmu.h:68`,
`mmu.h:110` and `mmu.cc:259`, `309`, `365` neither look at the TLB nor refill it: in this
build the only live cache of translations is the instruction cache. The module has it as a constant.
The passing run turns the TLB on, because the code is there to be turned on: `HitsEntitled` and `ScStoresToReserved`
are about that code, which is dead in this build, and `InstructionsEntitled` about both caches. The two runs
that find violations use the value of the build; the theorems hold for both.

The PMP registers are a constant (`HasPmp`): `processor_t::put_csr` ignores writes to them
(`processor.cc:1035-1059`), so that a hart that has any never lets S mode access anything.

### Plic

Sets stand for bit vectors. The pins (`mip`) are driven on claims and completions only: the
calls of `context_update` in `context_enable_write` and `set_interrupt_level` are commented
out, and the test bench drives the pins itself through `set_mip_ei` (`WriteMip`). `settled` is a
history variable: the contexts that have driven their pin and that nothing has disturbed
since. `Exclusive` says that no two contexts enable the same source. Without it a change of
a line reaches only the first context (`break` in line 331), and the others keep what they had.
Completions include the writes that fail: they change no register but drive the pin (`WriteElsewhere`).

The threshold, over which the hart takes an interrupt by the comment of `plic.cc:57-60`, is kept and
looked at by nothing, neither the scan nor the pin. `ScanFindsTheBest` and `RoutedByDeviceTree` say what the
code does, in which it has no part; neither is a claim that the PLIC does what that comment says.

### Clint and Interrupts

`Clint` has one action for the stores to each register and one for the loads, each of which
recomputes all timer pins, as the code does. `Interrupts` adds the harts (`TakeInterrupt`, `Exception`, `Mret`,
`Sret`, one action for each CSR, `EnterDebugMode`, `Dret`, `Reset`, with `Access` and `Compute` for all
other instructions) and, in `Bench`, what the PLIC and the test bench do between two
instructions. `processor_t::step` looks for interrupts only at the top of its loop, that is at the
start of a quantum and after an instruction that serializes: `top` tells whether a hart is there.
`take_interrupt` and `take_trap` decide on delegation separately, and the model keeps them
separate. `mframe` and `sframe` are history variables: what the handler of each mode
interrupted. Software is taken to keep the discipline under which one set of saved registers
is enough: until it returns, a handler raises no exception of its own mode (`MayRaise`), writes
neither its xepc nor the fields of mstatus that its return reads, and in M mode returns by mret. Interrupts are not
restrained.

Facts: `set_mip_ei` writes back a mask that clobbers MSIP. A reset clears MTIP until
somebody accesses the CLINT. `wfi` does not wait. dcsr cannot be written (`put_csr` ignores it), so that there is no single
step and no ebreak into Debug Mode from programs.

### SystemBus

One action for each access of SBCS, SBADDRESS and SBDATA. `promised` and `deceived` are history
variables of a debugger that reads a stream. Facts: `sb_autoincrement` computes the carry from
the word that is already truncated (`debug_module.cc:312`), so that a stream must not cross
2^32; `sb_write` does not catch a fault and `sb_read` not a misaligned trap, which end the
simulator (`escaped`); SBADDRESS0's read-on-address increments after an error too.

### Uart

Facts: the bits that clear the queue are looked for in lcr in place of fcr; TEMT and THRE are never
cleared, so the line is high for as long as THRI is enabled.

### JtagDtm, RemoteBitbang and Context

A step of `JtagDtm` is a call of `set_pins`. What is shifted in is the debugger's choice. `busy_stuck`,
`rti_remaining`, `ir` and `dr` are not initialised by the constructor: they begin with anything. `dmihardreset`
puts the TAP into Test-Logic-Reset in the middle of a scan; the word that reports FAILED reads as a
WRITE when it is scanned back. `scan`, `performed` and `idled` are history variables.

`RemoteBitbang` takes `execute_commands` apart where the client, another process, can act in between: at each
command, write and read. `place` says where the server is; it is "idle" while the harts run. Of the TAP it keeps
whether it is in Run-Test/Idle, which is all that the loop looks at; `JtagDtm` has the rest. A `Q` ends the
tick but not the connection: the code that closes the socket for it is behind a test that leaves the loop
first (`remote_bitbang.cc:157`, `179`).

A step of `Context` is what a thread does between two calls of the thread library, spurious
wake-ups included. It is the variant without glibc's `ucontext`. A thread looks at its flag (`Test`) and
goes to sleep (`Wait`) in two steps, because `switch_to` sets the flag of its target before it
takes that target's mutex: the flag may be set between the two, and what saves the wake-up is the
signal that follows under the mutex (`NoWakeupLost`). `Coroutines` knows neither flags nor mutexes: one
context has the processor, and hands it to the one it names.

### Cosim, VectorMemory, Counters

A step of `Cosim` is one iteration of the loop of `run_until_vector_ins`, or `run_and_inject`. The flags
`trap_illegal` and `trap_instr` are cleared by the decoder only, so a step whose instruction is in
the instruction cache keeps those of an earlier trap; and the loop looks at the caller's copy
of the last report, so that after an illegal instruction has been reported it may go past vector instructions. The
property names that exception. The instruction given to `run_and_inject` is read by nobody.

A step of `VectorMemory` is the access of one field of one element, or a trap and restart. The cores
of the vector unit (`!standard`) write the registers at the end and repeat from vstart.

`Counters` has the outer and the inner loop of `processor_t::step` with CSR instructions that
leave the inner loop and are fetched again. `serialized` leaks into an interrupt handler when one
comes between the two fetches, which needs a store of the same quantum to raise it: only with a
quantum above 1 (`decode.h:424`). The property names that exception too.

### CacheSim, MemoryImage, Reduction, Arithmetic, BitManip

The cache simulator has tags only; `newest` is a history variable that says where the last
store to a chunk of memory would be, had it data. Every cache has its own line size (`--ic`, `--dc` and `--l2` take
one each), in chunks; one level accesses the next at the first address of its own line and no other, since
`cache_sim_t::access` ignores the number of bytes but for its statistics (`LineBelow`). So stores are kept where
`LinesNest`, which `StoresKept` and its theorem are about: L1Line <= L2Line <= BlockSize, all powers of two.
With smaller lines in the second level the write-back of a line dirties only the first of those it covers, and
a cbo.inval of blocks smaller than a line gives up its neighbours' stores too. The fully associative cache
(`fa_cache_sim_t`) ignores the valid bit and is left out.

`MemoryImage` does what `merge_overlapping_memory_regions`, `mem_t::store` and `memif_t::write` do
with bytes. Regions are merged in any order that `std::sort` may leave of those with the same base. Regions need not be aligned; a chunk is looked up by its first byte and copied whole. Bytes of
an adjacent region are lost, and a region that begins within a chunk is not written where the chunk began before
it: the property is about chunks that one region holds.

In `Reduction` a value is the sequence of its terms, so that one property tells lost, doubled and
reordered elements apart. One loop (`InLine`) serves elements, accumulators and lanes, and one tree both trees
of the code; the parts of accumulators never meet before `fold`, so that the tree is of one part at a time. `Arithmetic` and `BitManip` are compared with their mathematical definitions on
every operand of small words.

## Runs

| Run | Instance | Shows |
|---|---|---|
| `debug_careful` | 2 harts, 4 kinds of command, 2 data values, autoexec, 1 Run-Test/Idle cycle; a careful debugger | type invariant; a hart executes only for the command Debug Module is busy with (`CommandOwnsHart`); resumes are pending for halted harts only; the Debug Module implements `CommandService`, error codes included |
| `debug_any` | 2 harts, hasel and the hart array, every liberty | DMSTATUS is truthful, which covers stale acknowledgements and harts that are not in Debug Mode when they are said to be halted; Debug Mode is left only on request or reset |
| `debug_live` | 2 harts in halt groups, Run-Test/Idle cycles, authentication | commands complete, halt requests halt, resumes are acknowledged |
| `debug_dmreset` | dmactive pulsed while busy | *violation*: busy falls while the command is still to be performed |
| `debug_resume` | resume requests to running harts | *violation*: the request is kept until the hart next halts |
| `mmu` | 1 hart, 2 pages and frames, 1 TLB entry, 1 icache line, 3 page table entries that overlap in what they allow | hits of the TLB and of the instruction cache are what a check would allow; SC stores where LR read |
| `mmu_reset` | the same as built, with resets in S mode | *violation*: stale decoded instructions are executed in M mode |
| `mmu_sc` | 2 harts, no translation | *violation*: SC succeeds after another hart's store |
| `plic_two_harts` | 2 harts, 4 contexts, 1 source | *violation*: what waits for hart 1's contexts drives hart 0's SEIP |
| `interrupts` | 1 hart, mtime up to 1, SEI wired, delegation of one interrupt and two exceptions | the timer pin is current; traps go up; returns restore; Debug Mode is left alone; deliverable interrupts are served |
| `transport` | 2 idle cycles; buffers of 2, 5 commands of any number of clients; 3 contexts | each granted access is performed once; idling suffices; commands are executed, each at some time, once, in order and none after the TAP has come into Run-Test/Idle; answers fit and are sent in order before the tick ends, which is bounded; no wake-up and no switch is lost, and the threads implement `Coroutines` |
| `devices` | eleven components, one at a time, bounds below | PLIC: what is pending is enabled and high, claims are current and exclusive, the scan finds the best; UART line; restarts of vector accesses; no store forgotten (lines of 2 and 4 chunks); reports truthful; streams are memory; each term once; the program is in memory; counters, arithmetic and bit manipulation exact |

Bounds. Two harts are one whose command it is and one that interferes; the Debug Module
treats all others alike. Two data values tell a transferred value from the old one. One
TLB entry and one cache line make every pair of pages conflict, which is the hard case;
with more, conflicts are rarer. Three entries that differ in frame and permissions are an
invalid one and two that cannot be confused. The PLIC has two sources and two priorities, which
give ties and a strict order with one of them claimed. One hart
suffices for `Interrupts`, since harts share mtime only (the theorems are about any number);
mtime and mtimecmp in {0, 1} are before and at the deadline. The data cache has one set of two lines of two chunks, the second level one line of four
chunks, over memory of three such: lines are replaced at both levels in any order, also by a line beside them in the same line below. Three of three contexts let a switch go on while two others are on their way to
sleep. Chunks of 4 and pages of 8 bytes, with bases and starts off both grids, give every relation of
region, chunk and page. One and three lanes and accumulators are odd and trivial numbers, where trees have
a rest. Five commands are more than two buffers, so that the bound of a tick counts. Words of 4 bits of
half-word radix 4 reach every carry; permutations have three steps, in words of 8 bits. Names of bounds are in the modules' CONSTANTS (`MaxTime`, `Garbage`, `MaxVl`, ...). Nothing else is
bounded that the code lets grow.

`devices` and `transport` put components side by side because each is small and they share
nothing; a behaviour is of one component, chosen in the initial state, so that the state space is the sum of
theirs. Deadlock is checked in all runs but `devices`: there a vector instruction that is done, a
reduction that has its result and the computations stop. When its socket fails the simulator aborts; `Aborted` says that
this is no deadlock.

Fairness (`MCDebugModule`): some hart's quantum is weakly fair, since `sim_t::main` loops over
`step` and `step` over the harts; `RunTestIdle` is weakly fair, since a debugger that waits
for busy keeps the clock running and every poll passes through Run-Test/Idle; a program buffer
that is executed again and again ends at some time (strong fairness), since otherwise nothing could be
promised. No register access is fair: the debugger owes nothing.

Fairness (`Interrupts`): a quantum ends and a hart that is at the top of its loop with an interrupt
to take takes it, weakly, since `sim_t::step` gives every hart its quanta and a quantum is a number of
instructions. Fairness (`Context`): threads are scheduled (weak), and a mutex that is free again and again is
had in the end (strong). No call, no signal out of nowhere and no software is fair.
Fairness (`MCTransport`): `sim_t::main` calls `tick` between any two steps and the socket does not block, so the server
goes on (weak); clients owe nothing.

## What the violations are

- `debug_module_t::reset` clears `abstractcs.busy` but not the GO flags
  (`debug_module.cc:81`); `debug_defines.h:1806` says busy is not cleared until the command has
  completed.
- `dmi_write` sets the RESUME flag of running harts too (`debug_module.cc:828`);
  `debug_defines.h:1572` says a resume request is for harts that are halted when it is written.
- `processor_t::reset` flushes neither cache (`processor.cc:640-661`).
- `sim_t::step` no longer yields the reservation at the end of a quantum (`sim.cc:268`);
  the simulator's README claims RVWMO.
- `plic_t::plic_t` multiplies by `PLIC_MAX_CONTEXTS` once per hart (`plic.cc:75`), so with two
  harts all contexts belong to hart 0. The product wraps from five harts on and becomes 0 later,
  which the constructor then divides by; the model keeps to fewer.

Differences met that no run is about: while busy, writes to progbuf, abstractcs and
abstractauto do not set cmderr (`debug_module.cc:787`, `870`; `debug_defines.h:1833`);
`put_csr` and `get_csr` ignore dscratch0, so the ROM's saved `s0` is lost; `dcsr.halt` set by
`-H` is never cleared, so the hart re-enters Debug Mode; the PLIC's threshold and a priority of 0
hold back neither claims nor pins (`plic.cc:57-60` says the threshold does), and its `pending_priority` is a copy made
when the interrupt became pending; `sb_autoincrement` loses its carry; reservations survive
traps; `cbo_inval.h:5` assigns where it means to compare; second-level lines that are smaller than
those of the first lose stores (`cachesim.cc:151`); `remote_bitbang.cc:148` offers the whole length again
after a partial write; spike's cores of the vector unit write loaded data truncated to vsew; indexed loads read
memory twice there; `reduction_op.cc:154-157` logs accumulator parts past the end.

## Theorems

All are proved for every value of the constants that satisfies the modules' assumptions.

- `TypeCorrect`, `MmuTypeCorrect`, `PlicTypeCorrect`: the type invariants. The other proofs
  use them as the typing part of their inductive invariants.
- `HaltedTruthful`, a lemma of `StatusIsTruthful`: `hart_state.halted` = in Debug Mode, for any debugger. Inductive with
  typing: only the ROM's stores and resets change either side, and they change both.
- `CommandOwnership`: `CommandOwnsHart`, if the debugger neither reselects nor resets the
  Debug Module while busy. Inductive with typing; the case that matters is `StoreHalted`, which
  completes a command only if GO is clear, and then nobody executes.
- `ResumeNotAcknowledgedEarly`, another: for any debugger; inductive with typing.
- `StatusIsTruthful`: from the three above, since dmstatus is computed from `hart_state`.
- `LeavesOnRequest`: for any debugger, step by step from typing.
- `ResumesOnlyHalted`: if the debugger neither asks running harts to resume nor resets harts;
  the two violations show what happens otherwise.
- `CommandServiceImplemented`: the Debug Module, the ROM and the harts implement `CommandService`
  under a careful debugger. Initial states map to initial states, and every step to one of the
  service or to a stutter. Program buffers may store to dmdata, and what
  traps reports its error (`MeddlesService` is about accesses that are refused meanwhile). `ServiceInv` adds to `CommandOwnsHart` that a hart with its
  GO flag is halted and not yet executing, and that what lies in `abstractBuf` for it was written by
  the debugger (`CommandReady`).
- `TlbSound`: every TLB hit is entitled. Not inductive alone: it needs that no type hits
  under MPRV (the modes of loads and fetches differ then, and the types share `tlb_data`), that the tables are
  among the entries present, and that at most one valid entry of a page is
  (`TlbInv`). The last is where break-before-make is used: without it a store refill moves
  `tlb_data` under a load tag that stays. Resets are of harts in M mode.
- `PresentSound`: the history variable `present` includes the page tables, so that
  "entitled" is not weaker than what a walk finds now.
- `InstructionsSound`: the same for the instruction cache, from `TlbSound` and `PresentSound`,
  since it is filled through both.
- `ConditionalStoresReserved`: from `TlbInv`. What a lookup finds for a page, in the TLB
  or by a walk, is what a walk finds (`LookupsAgree`), so that the check of the reservation and
  the store after it, which look the page up one after the other, mean the same frame.
- `PendingExact`: pending = enabled and high, with exclusivity as the strengthening. It is the first conjunct of
- `ServiceCurrent`, which adds that what is claimed is pending.
- `ScanBest`: of what waits unclaimed, whatever the threshold. The scan is a function of the number of sources it has looked at; what it returns is
  proved by induction over the set of the numbers for which it is right, which needs no
  operator as a parameter.
- `PinsTellTheTruth`: `RoutedByDeviceTree`, assuming that contexts are assigned to pins as
  the device tree says, and of contexts that nothing has disturbed since they last drove their pin. No passing run checks it:
  it is there to say what the violation is about. With the run `plic_two_harts` it tells that the assignment is all that is
  wrong with the routing.

- `InterruptsTimerPinCurrent`: from typing alone, for any number of harts; every action that
  writes mtime or mtimecmp recomputes, and every other writer of mip spares MTIP or is a reset.
- `InterruptsTrapsGoUp`: from typing, by cases over the six interrupts and five causes, since
  delegation is by bit sets.
- `InterruptsReturnsRestore`: needs the invariant `HartInv`, that the saved registers hold what
  `mframe` and `sframe` say for as long as they say something (`FrameM`, `FrameS`), and that a
  hart in Debug Mode is in M mode (`Mode`).
- `InterruptsDebugModeTakesNoTraps`: from the same invariant.
- `JtagAccessOncePerGrantedScan`, `JtagIdlingSuffices`: `JtagInv` adds to typing where a scan that was granted or
  refused may be (`ScanInv`) and that remaining and spent idle cycles never exceed what is
  required (`RtiInv`), for any garbage at the start and any number of cycles.
- `TransportTypeCorrect`: the types of all parts of the run's specification.
- `BitbangCommandsInTurn`, `BitbangServes`:
  `BitbangInv` says that what lies between `recv_start` and `recv_end` are the next commands (`CommandsNext`), what the
  conditions of the loops have established at each place (`LoopsInv`), and that the answers in `send_buf` are
  the next ones and no more than the commands done (`AnswersInv`), for buffers of any size.
- `ContextsRunAlone`: the processor is a token. A context has it while its flag is set, and
  while it hands it over (`OneHasProcessor`), and whoever runs its own code holds it (`RunsByFlag`).
- `ContextsLoseNoWakeup`: from that token, that whoever has to signal means the context whose flag it has
  set (`TargetsMeant`), and that a mutex is held by whoever is between its lock and unlock (`MutexHeld`).
- `CoroutinesImplemented`: the refinement of `Coroutines`, step by step from `ContextInv`, which adds that
  some context always has the token or is handing it over (`SomeoneHasProcessor`), so that the
  abstract processor is somewhere.
- `UartLineFollowsQueue`, `CosimReportsTruthful`: inductive with typing; the latter with what
  the flags say of the last step.
- `CountersAreExact`: two invariants, of where the loop may be with what it has yet to add
  (`CountersFlow`), and that counter and what is yet to add make the exact count, modulo the
  counter's size (`CountersValue`). The lemmas on remainders are proved for every modulus.
- `StreamsAreMemory`: `StreamInv` says what the debugger was promised: as long as no error is
  recorded, sbdata holds the promised word and sbaddress is the next one (`StreamOn`).
- `VectorRestarts`: `Front` is the first element yet to access. `VectorData` says that what lies
  before it is right and, where a load overlaps its indices, that the indices behind it are still there;
  `VectorOnce` that on the standard core no complete element lies behind it; `VectorPlace` that
  vstart never falls below the first one and that the cores of the vector unit leave it alone.
- `CacheStoresKept`: inductive with typing and `Single` (no line twice), which hold for any line sizes (`CacheTypeCorrect`),
  and `CacheKeeps`, for which lines have to nest (`LinesNest`, the theorem's assumption): the line below the first address of
  a line is the line below each of its chunks. A dirty line comes down before the one that replaces it comes up.

- `ProgramFound`: `MemoryImageInv` says that the regions ascend, that they keep every byte that was asked
  for, and that a byte of memory is that of the image wherever a chunk lies in one region. The loops over
  regions and chunks are recursive functions; that such a function exists is proved for each, from the library's
  theorem on well-founded recursion, and what it computes by induction over the set of the numbers
  where it is right (`SetInduction`).
- `TermsOnce`: `Holds(c, v, S)` says that the value v has each member of the set S once, properly widened. Each step of
  a reduction takes disjoint sets to their union, so that the loops (`InLineHolds`) and the trees
  (`TreeHolds`, by induction on the length of the range) do; `Cell` deals every element to one place. An
  ordered reduction appends greater elements (`AppendAscends`).
- `ArithmeticIsExact`, for any even radix: quotients and remainders are unique (`DivMod`), which settles the
  half-word products with their carries; saturation is decided by the signs of operands and result; rounding
  adds what `RoundsAsTheModeSays` says of the bits that are shifted out.
- `BitManipIsExact`, for words of 2^n bits, n > 0. A loop is a recursive function of the number of iterations
  (`Iterated`), and what it keeps is a set of numbers and values (`IteratedKeeps`). The permutations
  exchange positions that differ in one bit of their index (`ExchangedFlips`, `PositionHalves`), and a step
  of a shuffle undoes itself (`SwappedTwice`). `clz` and `ctz` halve what is left to search; the fields of `popcount` hold the
  bits set in them (`FieldHalves`). A carry-less product has the parity of its partial products (`XorsCount`).
  A run of the mask is an interval on which the rank grows by one (`LowestRunIs`, `RunRanks`), so that a run is moved as a
  whole (`RunStep`). Rotations are remainders of sums.
- `DevicesTypeCorrect`: the components of `devices` together. A step of one leaves the others as they are
  (`DevicesSteps`), so that the conjunction of their invariants is inductive (`DevicesInv`). With the two theorems before it,
  `ComputationsAlwaysExact` says that the run's calculations are exact.

Only model-checked: liveness (`CommandCompletes`, `HaltRequestServed`, `ResumeAcknowledged`,
`DeliverableServed`, `SwitchArrives`, `CommandsServed`), which needs ENABLED.

## Not modelled

- Dead in this build: triggers and single stepping (`put_csr` drops writes to tdata and dcsr),
  PMP (writes dropped, `processor.cc:1035`), the tohost handshake (`sim.cc:274` no longer switches to the host;
  `htif_t::run` and `sim_t::main` return at once without `DEBUG`).
- In modelled components: the hypervisor's second stage and modes, superpages, A/D bits, SUM and MXR,
  MMIO, Debug Mode's effect on MPRV, Smepmp, vectored handlers, minstreth, the wall-clock CLINT
  (`real_time`), the ROM device.
- Instructions: more than a thousand files of a few lines, most of which compute one expression and
  call softfloat; `encoding.h`, `debug_defines.h` and the disassembler's tables are constants and text;
  `fdt/`, `softfloat/` and `bf16_cpfloat/` are vendored. Those files are most of the repository's lines:
  a model of them would restate them. What several instructions share as an algorithm is in `Arithmetic`,
  `BitManip` and `VectorMemory`.
- Text: device tree and ISA string, prompt, disassembler, log parser, option parser. The debug
  transport of `fesvr/dtm.cc` is a client of hardware that nothing here connects to the simulator.

## Plan

1. Done: the Debug Module with its ROM, its abstract specification and the system bus; the MMU; PLIC, CLINT and UART;
   interrupts; JTAG and its socket; coroutines; the test bench's calls; vector memory accesses; counters; caches;
   memory; reductions; shared arithmetic.
2. Done: a proof of every safety property that the passing runs check, and of the refinements of
   `CommandService` and `Coroutines`.
3. `JtagDtm` composed with `DebugModule`, and `Plic` with `Interrupts`, in place of the pins and accesses
   that each now takes as given.
4. The wall-clock CLINT, the associative cache.
