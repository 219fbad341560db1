# wbscope in TLA+

A verification project for the wbscope repository: logic analysers that live
inside an FPGA next to the logic they watch, and the software that reads them. A
scope records every enabled sample of its input into a ring memory; some time
after a trigger (the holdoff) it stops, and a CPU or a host reads the recorded
window over a bus. The modules here model the scopes as clocked hardware, one
step per clock edge, and the software as what it does between two clocks; TLC
checks them on small instances, and TLAPS proves the safety of the cores for
every memory length, holdoff width, word width and sample alphabet.

## 1. The system

### Components

| Component | State it keeps | Operations | Modelled |
|---|---|---|---|
| `rtl/wbscope.v`, `SYNCHRONOUS=1` | control register (reset request, MANUAL, DISABLE, holdoff); flags triggered, primed, stopped; holdoff counter; ring memory, write address, one-sample data pipe; read address, two pre-fetch stages, answer register, acknowledgement pipe; interrupt level | one clock: bus request, sample, trigger | yes: `WBScopeSync` |
| `rtl/wbscope.v`, `SYNCHRONOUS=0` | the same, and the synchronisers of the reset handshake, the trigger controls and the status | two unrelated clocks | yes: `WBScopeAsync` |
| `rtl/wbscopc.v` | that of wbscope, and a run counter with its time-out, forced-write flags, the word to write and the one before it, a record stage, a pipe that delays the stop | as wbscope | `SYNCHRONOUS=1`: `WBScopC` |
| `rtl/axisrle.v` | sticky controls, skid buffer, comparison stage, run stage, output stage | AXI stream in, compressed stream out | yes: `AxisRle` |
| `sw/scopecls.cpp` (class SCOPE) | cached length, holdoff and data | `ready`, `scoplen`, `rawread`, `decode_control`; `print`, `getaddresslen`, `writevcd` | yes, but for lay-out: `SCOPE`, `ScopeTrace` |
| `sw/cfgscope.cpp`, `doc/examples/hdmi-eddc` | none of their own | `main` | yes: `Main`, `Exit` of `SCOPE` |
| `bench/cpp/wb_tb.h` (a DEVBUS) | the pins driven, give-up counters, answers, latched interrupt, the bomb flag | `readio`, `readi`, `readz`, `writeio`, `writei`, `writez`, `idle`, `usleep`, `wait`, `poll`, `clear` | yes: `WB_TB`; its interface, `DevBus` |
| `bench/cpp/wbscope_tb.cpp`, `wbscopc_tb.cpp`, `bench/rtl/` | the progress of `main`, a tick count, a trigger input | reset, prime, trigger, wait, read, check | yes: `TestBench` |
| `rtl/avscope.v` | that of wbscope, and a write acknowledgement pipe | as wbscope, with a bus reset | `SYNCHRONOUS=1`: `AvScope` |
| `rtl/axilscope.v` | wbscope on AXI4-Lite | AXI read and write handshakes | no |
| `rtl/memscope.v`, `rtl/memscopc.v` | FIFO, write bursts in flight, busy, error, overflow, control registers | AXI stream in, AXI4 bursts out, AXI4-Lite control | no |
| `bench/cpp/axi_tb.h` | - | - | no: does not compile |

### How the parts interact

The CPU writes the control register: a word with bit 31 clear sets the holdoff
and requests a reset. The reset request goes to the data clock; there it clears
the flags, the counter and the write address; its completion goes back to the
bus clock and drops the request. Then the ring fills (`dr_primed`), the trigger
is accepted (`dr_triggered`), the counter runs to the holdoff, and the capture
is over (`dr_stopped`). The flags go back to the bus clock, where the edge of
STOPPED is the interrupt. Once STOPPED is visible, every read of the data
register returns one word of the ring, oldest first, out of a pre-fetch that is
two clocks deep.

With one clock all of this happens on the same edge and the crossings are
wires. With two, the request, the trigger controls, the completion and the
flags each go through two flip-flops; the holdoff, the write address, the memory
and the input cross with none, and rely on being stable when they are looked at.

The compressed scope puts a run-length coder between the input and the ring: a
word is a value or the length of a run of the value before it. What decides
when to stop and what decides when to write are separate machines with pipelines
of different depth.

The software sits on a DEVBUS: a call per word, or one for a vector. Each call
is a pipelined Wishbone transaction of many clocks, during which the scope runs
on. A program makes a SCOPE object, asks whether the scope is stopped and
triggered, reads all of its memory and prints it or writes a VCD file; it places
the trigger by the holdoff, counted from the end of what it read.

### What is hard

Two clocks of any ratio and phase; flip-flops that settle either way when they
sample a changing bit; controls written while a reset is on its way or on its
tail; a clock enable that may pause on any clock, the one of the stop included;
wrap-around of the ring and of the counter; a pre-fetch that lags behind what it
fetches from; a master that reads as fast as it can or with pauses; software that
decides on a flag it polled some time ago; runs cut at their largest length, on
the trigger and at the stop, with words still in a pipeline; a sink that stalls;
answers that race a give-up counter; an interrupt that lasts one clock.
`PROJECT.json` lists each of these, with the line where it bites and the
properties that cover it.

### What makes each component correct

- wbscope: what is read is the window of consecutive samples that ends the
  holdoff after the trigger; the window does not move once it is closed; no flag
  or word of an earlier capture is taken for one of this capture; every reset
  completes; every triggered capture stops; one interrupt per stop,
  unless DISABLE is set and cleared under it.
- wbscopc: decoding the memory gives back the last samples; the sample of the
  trigger is a word of its own, where the holdoff says; the memory ends in a value.
- axisrle: no sample lost, doubled or moved; the trigger stays with its sample;
  nothing blocks; the stream is compressed wherever it may be.
- the bus master: a call makes each of its accesses once and in order, or reports
  a failure; it ends; it raises no false alarm.
- the host software: it reads the capture it armed, complete and in order, and
  marks the sample of the trigger.
- the benches: they succeed on a core that works.

## 2. Plan

1. **Core, one clock**: `ScopeCapture`, `ScopeBus`, `CaptureWindow`,
   `WBScopeSync`, with proofs. *Done.*
2. **Core, two clocks**: `ScopeCDC`, `WBScopeAsync`, with proofs. *Done.*
3. **The bus master** and what it promises: `WB_TB`, `DevBus`, `WB_TBDevice`, with
   proofs. *Done.*
4. **The software** on that bus and the one-clock scope: `SCOPE`, `ScopeTrace`,
   `ScopeHost`, with proofs. *Done.*
5. **The compressed scope and its decoder**: `WBScopC`, `WBScopCTrace`, with proofs.
   *Done* for one clock.
6. **The benches**: `TestBench`. *Done.*
7. **The stream encoder**: `AxisRle`, with proofs. *Done.*
8. **Proofs still worth having**: that nothing fails in the benches (`NoFailure`).
9. **The Avalon scope**, as `ScopeCapture` with the stop flag that `rtl/avscope.v`
   recomputes on every clock and with its bus reset: `AvScope`, with proofs. *Done*
   for one clock.
10. **Models still worth having**: `AvScope` with two clocks, where the bus reset
   meets the handshake; `AxilScope`, the AXI4-Lite channels in front of `ScopeBus`; `MemScope`.

## 3. The modules

| Module | What it is |
|---|---|
| `ScopeCapture` | The registers of `i_data_clk`. One operator per `always` block (`TriggerFlag`, `CountHoldoff`, `StopFlag`, `FillRing`, `StoreSample`), and `DataEdge`, the clock edge that is all of them at once. The controls it samples are parameters. Two history variables remember the trigger sample and how many samples were stored from it on. |
| `ScopeBus` | The registers of `i_wb_clk`: `Configure` (control register), `AdvanceRead`, `Prefetch`, `Respond` (answer and acknowledgements), `LevelInterrupt`; `BusEdge` joins all but the pre-fetch. |
| `ScopeCDC` | The synchronisers: `ControlsIn` (to the data clock), `StatusBack` (to the bus clock). `Settled` gives what a first flop may settle on. |
| `CaptureWindow` | The abstract specification of a scope: a window over the last samples, with no ring, no pipeline and no clocks. |
| `OneClock` | What the scopes of one clock promise, in terms of the registers they share: the mapping to `CaptureWindow`, and where the trigger sample is. |
| `WBScopeSync` | One action, `Tick`: `BusEdge`, `Prefetch` and `DataEdge` on the same clock, wired straight across. |
| `WBScopeAsync` | Three actions, `BusTick`, `DataTick` and `BothTick`: an edge of one clock, of the other, or of both. `BothTick` is where a register is sampled as it changes: each bit of a synchroniser's first flop settles on the old or the new value, and what crosses with no synchroniser reads as anything. |
| `AvScope` | The Avalon scope: its own control register, stop flag and acknowledgements, and everything else, which is line by line that of `wbscope.v`, from `ScopeBus` and `ScopeCapture`. `br_wb_ack` and `br_pre_wb_ack` stand for `br_av_rdack` and `br_pre_av_rdack`. |
| `WBScopC` | The compressed scope. Its bus half and its trigger are line by line those of `wbscope.v` and are taken from `ScopeBus` and `ScopeCapture`; one operator for each of the other `always` blocks. `h_samples` remembers what was on `i_data` up to the stop. |
| `WBScopCTrace` | The compressed scope and the decoder of `ScopeTrace`, applied to the memory of a scope that has stopped. `HistoryAssumption`: the history reaches back as far as the memory can. |
| `AxisRle` | The stream encoder, one operator per stage, joined by `Clock`. The skid buffer it instantiates is not in the repository: it is modelled as it is used. Histories: the samples taken and not yet sent, their number, the last value sent. |
| `WB_TB` | The master: `pc` names the clock a call waits for, and a step is that clock and the code up to the next one. The loops that count by `errcount++` in their conditions are `Spin`. The pins of the device are a parameter, so that any core can be put behind it. |
| `DevBus` | The abstract specification of a DEVBUS: a call makes its accesses in order, each at most once, and returns what all of them read or fails. |
| `WB_TBDevice` | `WB_TB` on a device that stalls and delays as it likes, and forgets what is out when the cycle ends; the refinement of `DevBus`. |
| `SCOPE` | The methods of class SCOPE and the programs that use it, as what they do between two DEVBUS calls; `at` names the method that awaits an answer. |
| `ScopeTrace` | What `print` and `writevcd` show of what was read, as operators: the lines, their times and where they put the trigger. `addrv` is the counter that all three loops over a compressed buffer keep, with what a run at its start counts as a parameter. |
| `ScopeHost` | `SCOPE`, `WB_TB` and `WBScopeSync` put together: a step is a clock of the bus and the core, or a step of the software, which takes no time. |
| `TestBench` | `main` of both benches on `WB_TB`, with either core, fed as `bench/rtl` feeds it. |
| `MC*` | The small instances: sample streams, requests, calls. |
| `*_proofs` | The lemmas and theorems about the module they are named after; those about `WBScopeSync` are at the start of `ScopeHost_proofs`, and those about `ScopeCapture` in `ScopeBus_proofs`. |

**Correspondence.** A register has the name it has in the Verilog, a member or
local variable the one it has in the C++; a wire is an operator or a parameter.
`br_config` is a record of its three bits; the vectors of flags that cross are
records too, and so are the bus pins. `this_addr` and `raddr` wrap as their
widths do (`NextAddress`, `RingAt`), and so do the counters (`NextCount`,
`CountRun`, `NextLength`). Registers with no `initial` value start as any value of
their type; an unwritten memory word or pipe is the model value `Unknown`. A
control word is a record of the bits the core looks at, a word of a compressed
memory or stream the record of its bit 31 and the rest. The lengths are
constants: `MEMLEN` is `1 << LGMEM`, `MAXHOLDOFF` is `(1 << HOLDOFFBITS) - 1`,
`STEPS` is `1 << STEP_BITS`, `MAXRUN` is `(1 << (W-1)) - 1`.

`wbscopc.v` and `axisrle.v` leave some registers without an initial value, or
without a reset, whose value is looked at only under a flag that is clear then.
They start as the reset leaves them, or as the first sample. `m_holdoff`, which the
constructor of SCOPE does not set, starts as zero: every method that uses it has
gone through `ready` or `scoplen`, which do set it.

A control word is what the master and the software exchange with the core, so
`SCOPE` and `TestBench` read the fields of the status record where the code shifts
and masks the word; `Length` stands for the LGMEM field of it.

**Left out**: the branch for a holdoff of a single bit (`HOLDOFFBITS <= 1`,
wbscope.v:353); `STOPDELAY` other than 1, which the code marks as calibrated and
not to be changed; in `WB_TB`, the branches under `WBERR`, a macro that nothing in
the repository defines; in `SCOPE`, the text of the VCD header and the naming of
traces.

Operators whose name ends in `_BUG` are no part of the model. Each is the
operator that follows it as a plausible mistake would have it, and the mutants of
`PROJECT.json` put it in place of the original to show that a property notices.

## 4. What is checked

Runs that must pass:

| Run | Instance | What it shows |
|---|---|---|
| `sync` | 2 words, 4 samples, `i_ce` free, every mix of control writes at any time, holdoffs 0 and the largest (3) | `Captures`: the scope implements `CaptureWindow`; `TriggerInPlace`: the trigger sample is where the holdoff says; `HoldoffNeedsReset`: a write never moves the end of a running capture; `InterruptOnce`: the interrupt is up for exactly one clock of a stop that is not disabled, and again, once, each time the master sets and clears DISABLE under the stop; `TriggeredStops` and `ManualTriggerStops`; `TypeOK`. |
| `async` | 2 words, two clocks, restarts, the manual trigger with DISABLE set, and DISABLE set and cleared, under a stop too | `Handshake`: the ten states of the reset handshake, the code's own assertion, here with metastable flops and edges of both clocks at once; `FlagsCoherent`: no flag of the previous capture reaches the bus; `ReadableWhenStopped`: the unsynchronised memory is stable; `InterruptOnce`: the answer to a reset never repeats the interrupt or stretches it; `ResetCompletes` and `ManualTriggerStops`; `TypeOK`. |
| `async_window` | 2 words, 4 samples, `i_ce` free, two clocks | `Captures` across two clocks, for a holdoff that may change under the capture. |
| `avalon` | 2 words, 4 samples, `i_ce` free, bus resets, restarts and reads at any time, holdoffs 0 and 2 | `Captures`: a stop that is not held keeps the window as well as one that is, and the capture runs with the holdoff that stands when it starts, for holdoffs below the largest. |
| `scopc` | 4 words, any samples of two values, `i_ce` free, runs of at most 2, a master that restarts at any time | `DecodesToSamples`: the VCD file shows, clock by clock, what was on the input; `EndsWithValue`; `TriggerRecorded`: the trigger sample has a word of its own in its place; `PrintMarksTrigger`: `print`, which goes by the holdoff, marks one line, that of the sample that carried the trigger (`h_trigger`, which `h_since` samples followed), and none when the memory does not reach back to it; `TypeOK`. |
| `rle` | run counts of two bits, two samples, triggers, `i_encode`, a sink that stalls and resets at any time | `Conserved`: the code's own account of what is in flight; `Lossless`: the words stand for the samples, in order; `TriggerOnce`: the mark goes with the value of the first triggered sample; `Compresses`: as long as one sample at most was triggered since the reset, a repeat is sent as a value only for that sample or without `i_encode`; `EveryTaken`: a sample the source offers is taken, unless a reset comes (what is in the run stage may wait there for the next sample: nothing flushes it); `TypeOK`. |
| `bus` | calls of up to 2 words at one address, a device that stalls, delays or never answers, give-up after 3 clocks, the strobe at random | `ImplementsDevBus`: a call makes each access once and in order and returns what was read, or fails; `NoFalseAlarm`: it fails only if the device was late that often; `CallReturns`; `TypeOK`. |
| `host` | 8 words, holdoffs 0 and 2, programs that ask, or wait for the interrupt, and read by word or by vector | `ReadsOldestFirst`: what the software reads is the window of the capture it armed; `ReadsAnswered`: the pre-fetch is never stale for it; `EveryCallAnswered`: nothing lost or doubled, and the read address comes round; `TriggerMarked`: the item `print` and `writevcd` mark is the trigger's; `WaitReturns`: the interrupt is not missed; `HostTypeOK`. |
| `bench` | 16 words, holdoff 3, both benches on both cores, a trigger at each of 16 phases of the input | `NoFailure`: no check of a bench fails; `Ends`: it gets to its verdict; `BenchTypeOK`. |

Runs that must find a violation, each a statement of the repository that the
code does not keep:

| Run | Statement | What the code does |
|---|---|---|
| `bus_readi` | `readi` is a loop of `readio(a+i)` (`bench/cpp/devbus.h:94`) | The address on the bus counts words and goes on by 4 (wb_tb.h:213, 388). |
| `scopc_vcd` | The VCD file shows the trigger where the holdoff is within the collect (`sw/scopecls.cpp:248`) | The compressed branch compares `addrv-alen` with an offset from the start of the buffer (scopecls.cpp:420). |
| `avalon_stop` | A status flag goes high and stays high (`rtl/avscope.v:409`) | The stop is `counter >= br_holdoff` on every clock (avscope.v:314), and the counter moves once more on the clock of the stop: from the largest holdoff it wraps, the stop lasts one clock, and the captured window is written over. |

**Other disagreements** met on the way, each plain from the lines it names: with
a holdoff of zero the last sample in memory is to be the trigger's
(`spec.tex:204`), but the stop ignores `i_ce` (wbscope.v:351) and, when that is low
on the clock of the stop, the sample still in the pipe is never stored:
`TriggerInPlace` and `CaptureWindow` allow for it; `i_wb_sel` is never driven by the
bench master (wb_tb.h:283 and 355 are comments), so that on the benches as they
stand no read of the data register is one, all words read are the same, and
`wbscope_tb.cpp:157` ends them: the run `bench` has the selects set (`SEL`); the
manual says that RZERO promises the next read the first value (`spec.tex:300`),
while the pre-fetch needs two clocks after a stop or a rewind; that a write to the
data register rewinds the read address (`README.md:28`, `spec.tex:321`), which
only a control write or a reset does (wbscope.v:510); that the holdoff may be
changed with RESET_n set (`spec.tex:200`), whereas it is written only with that bit
clear (wbscope.v:198); that any write with it clear resets the scope
(`spec.tex:169`), which one in the tail of a handshake does not (wbscope.v:203).
The header of the stream encoder says that a word with a trigger flag present "on any
input" is not incorporated into a run (`axisrle.v:9-11`); the code keeps out only the first
sample triggered since the reset (`skd_trigger && !r_triggered`, axisrle.v:182), and a
later triggered sample that repeats the one before it is counted into a run, where
nothing tells of its trigger. `Lossless` and `TriggerOnce` follow the code in this, and
`Compresses` says nothing once a second sample was triggered.
`axisrle.v:17` says that the last value repeats count times; a run word of count n
stands for n+1 samples, and its own assertions count so. `print` leaves out a
word that equals the one before it, the trigger's and its mark included;
for a compressed buffer that begins in a run, `getaddresslen` counts one clock for
it, `print` all of it and `writevcd` none, so the mark of `print` is off by its
length. In a compressed scope the sample on `i_data` with the trigger is holdoff +
1 clocks before the last one; the register of `bench/rtl/wbscopc_tb.v` makes
it the holdoff. A scope of four words or less is not read, and `print`
and `writevcd` then use a null pointer.

**Bounds.** The rings have two words where the core is looked at alone (the
smallest ring with an address to wrap; the proofs hold for all), four where a
memory has to hold values and runs and a forced write, eight where the software
reads (it does not read four or less), sixteen where a bench must find a trigger
in it. Reads and writes wrap, and a capture may overwrite its trigger sample
(holdoff of at least the memory) or keep it. Holdoffs go up to the largest the
counter holds, 3, so that it passes its maximum (2 in `avalon`, for the reason
`avalon_stop` shows). The input of the plain scope is
a counter, as in `bench/rtl/wbscope_tb.v`, modulo more values than the ring and
the pipe hold, so that two words of one window differ and a misplaced or stale
word is seen; where no property looks at the words there is one sample only. The
input of the coders is any sequence of two values: runs of every length. Those of the
compressed scope are model values that may be exchanged (`Exchanged`), as it does
nothing with a sample but compare it; no liveness is checked there. The
masters' request sets hold the writes that matter to the properties of the
run, always with idle clocks between.

Counters and histories that would grow without bound are cut, each by a named
constant or a named rule:

- `MAXHISTORY` (`WBScopC`): the samples remembered, 6 (7 in `scopc_vcd`), which is
  `MostClocks`: what a memory of four words can stand for from its first value on,
  at `MAX_STEP` 2 (3), with every other word a run. `HistoryAssumption` asks for no
  fewer, and `DecodesToSamples` that they suffice.
- `h_interrupts` (`ScopeBus`): the clocks on which the interrupt was up since the stop,
  or since DISABLE was cleared under it, counted up to two: one is right.
- `MAX_STEP`, `STEPS`: runs of at most 2 (3 in `scopc_vcd` and `bench`), and a run
  counter at least as wide as that takes.
- `MAXRUN`: the count of a run word is 3 at most, the least at which the flag set
  one sample ahead, the cut and a run after the cut differ. Nothing bounds
  `f_outstanding` but the pipeline: the source waits for it.
- `BOMBCOUNT`: 3 or 4 clocks instead of 32; every place where a call can give up is
  reached in `bus`. `h_late` counts up to it.
- `RANDOM_STROBE`: FALSE in `host` and `bench`, where `rand()` withholds the strobe
  of a vector read on no two clocks in a row; in `bus` it is free.
- `COUNTS`: the counter of the bench's input is taken modulo 64, four times the
  memory; `MCPattern` masks four low bits where `wbscopc_tb.v` masks twelve.
- `WARMUPS`: the clocks the compressed bench waits before it looks for PRIMED, a
  period of `MCPattern` wide: the trigger may come at any phase of the input. The
  code waits for a number of its own, for a memory of its own size.
- `m_tickcount` is held at `MEMLEN + 1`: it is compared with `MEMLEN` only.

No run has a state constraint: each explores its whole state space, from 13,520
states (`bench`) to 648,640 (`scopc`).

**Deadlock** is checked in every run but those of the benches, which end.

**Fairness.** Each liveness property is checked under a specification of its
module, and each assumption is one about the surroundings:

- `WBScopeSync`, `WBScopeAsync`: the clocks run (weak fairness of an edge of each)
  and `i_ce` is high again and again (weak fairness of an edge with a sample): with
  no samples there is nothing to record. Nothing is assumed of the ratio of the
  two clocks, of the trigger or of the master; `ManualTriggerStops` therefore ends
  also when the master takes the manual trigger back or resets the scope.
- `ScopeHost`: the clock and the program run (weak fairness of `HostNext`), with
  `i_ce` high again and again (strong fairness, for a program that works between
  two clocks). `WaitReturns` excepts an armed scope without a trigger.
- `WB_TBDevice`: a call, once begun, runs on; nothing is assumed of the device,
  which is why `CallReturns` speaks of the give-up counters, and why it excepts
  `wait`, which has none.
- `TestBench`: the program runs on (weak fairness of `BenchNext`).
- `AxisRle`: again and again there is a clock out of reset with a sink that takes
  a word (strong fairness, because resets and stalls come in between). A sink
  that never takes a word may block the source for ever.

## 5. What is proved

The theorems about the Wishbone scope hold for every `MEMLEN >= 2`, every
`MAXHOLDOFF >= 3`, every set of samples and requests: `CaptureAssumption` and
`BusAssumption`, which say no more than that the parameters have their types and
that a Wishbone master raises its strobe only within a cycle.

**One clock** (`OneClock_proofs`, `ScopeHost_proofs`). The inductive invariant
`OneClockInv` adds to
the type invariant what the flags imply of each other and of the counter
(`CaptureInv`), where the trigger sample is while it is still in the pipe and
then in the ring (`PlaceInv`), and that the counter has not passed the holdoff of
a capture that runs (`HoldoffInv`). None of the three can be left out: that the
trigger sample is in place after a step depends on where it was before, that the
stop comes in time depends on the counter being at most the holdoff, and the
counter is the number of samples stored only while it has not wrapped, which
follows from the same bound. From it: `SyncTypeCorrect`, `SyncTriggerInPlace`,
`SyncHoldoffNeedsReset`, and `SyncEveryClock`: where `i_ce` is wired to 1 the
documentation's account of the holdoff, which fails where it may be low on the clock of
the stop, is exact. `SyncInterruptOnce` counts the clocks of the interrupt: exactly one of a stop that is not disabled. The level copy that ends
the interrupt follows DISABLE, so a master that sets and clears it under a stop is
interrupted again (wbscope.v:575-583); that is the only way to a second one, and the
count starts anew with it. `InterruptInv`, which all three scopes share, has that the
copy is up just when the stop has interrupted.

`SyncCaptures` proves that the scope implements `CaptureWindow`. `OneClock_proofs`
says it of any bus that leaves the holdoff of a running capture alone
(`HoldoffHeld`), so that the two cores share the argument. The mapping
reads the ring from the write address on; the core of the argument, in
`ScopeBus_proofs` (`StoreSlides`, `DataEdgeWindow`), is that storing one word
and advancing the address slides that view by one.

**The Avalon scope** (`AvScope_proofs`), where neither the default nor any written
holdoff is the largest (`HoldoffsBelowTop`; the run `avalon_stop` is why). The
strengthening is `StillStopsInv`: the counter of a stopped scope is at or past the
holdoff. It stops at the holdoff or one past it, which has room below the top, and
is not moved any more; so the stop made anew on every clock is the stop held
(`AvEdge`), a step of the Avalon scope is one of `OneClock_proofs`, and `AvCaptures`
and `AvStaysStopped` follow.

**Two clocks** (`WBScopeAsync_proofs`). A step is split into what the bus-clock
half and what the data-clock half does (`Halves`, `DataFacts`, `BusFacts`), and
the inductive invariant `AsyncInv` ties the halves together. The code's own
handshake assertion speaks of five registers and is not inductive; `AnswerInv`
adds the sixth, `r_reset_complete`. `ClearedInv` says that an answer vouches for
an edge of the data clock in reset: while it is up the capture's flags are down.
So when the bus drops its request, what is left of the reset on the data clock
finds the capture cleared already (`ResetTail`), and outside of a reset no flag
is ever dropped (`StatusStays`): that is why `FlagsCoherent` holds, and with it
`ReadableWhenStopped`. `NoEarlyStop` adds that the answer has left the
synchroniser before a stop gets through it, which the interrupt needs: the answer
holds the level copy down, and would repeat it (`AsyncInterruptOnce`).

`AsyncCaptures` proves that this scope, too, implements `CaptureWindow`. For the
mapping it is in reset from the request of the bus to the clock on which the capture
sees it gone (`Resetting`), and that clock is one of the data clock: the bus takes its
request back only when the answer is up on the other side (`ResetEnds`). The steps are
then matched one by one: one that ends in a reset empties the window
(`RefinesRestart`), the one that ends it starts a capture (`RefinesStart`), an edge of
the bus clock alone leaves the capture or changes its holdoff (`RefinesBusOnly`), and
one of the data clock does what it does in the one-clock scope, by the same lemmas on
the ring, while the bus may be writing the holdoff it compares with
(`RefinesDataEdge`).

`AsyncTriggerFound` says the rest of what a reader of that scope relies on: once it has
stopped, the sample that carried the trigger is in the ring, as many words from the end
as were stored from it on.

**The software on the one-clock scope** (`ScopeHost_proofs`). These theorems have one
hypothesis, `Readable`: the memory has more than four words (the software reads no
other), the bus master waits at least three clocks for an answer (`BOMBCOUNT` is 32 in
the code; the core takes two), and a vector read, which may take two clocks for each of
its words, does not have its strobe withheld twice in a row. `HostAssumption` adds that
the user restarts the scope with RESET_n clear, and that a status word shows the length
of the memory. The core, the bus master and the software move together, so the
invariant `HostInv` has a predicate for each clock of each call (`ArmAccept`,
`StatusWait`, `WordAccept`, `VectorIssue`, and so on) and for each method between two
calls. Each relates the pins to the acknowledgement pipe, to the register the last
request addressed, to the pre-fetch and to the words read so far. Three links carry the
argument. A status that shows the scope stopped is a clock old when the software has
it, and in that clock the pre-fetch has reached the oldest word (`StatusRead`); an
interrupt that was noticed is of a stop that lasts, as no restart is out while the
software waits (`Sleeping`). A capture that is over stays put under any clock
that does not write the control register (`OverClock`). In a vector read the word the
pre-fetch holds is the one the answer due next asks for, and `raddr` counts the requests
and not the answers (`Vector`, `VectorClock`). One lemma per stage and one per method
take each predicate to the next (`HostClockInv`, `SoftwareStepInv`). From it:
`ReadsOldestFirstAlways`, `ReadsAnsweredAlways`, `EveryCallAnsweredAlways`,
`TriggerMarkedAlways` (with `SyncTriggerInPlace`'s invariant, through `print` and
`writevcd`) and `HostTypeAlways`, for every memory length, every holdoff and both ways
to read.

**The compressed scope** (`WBScopC_proofs`), for every memory, step limit and stream.
`ScopCTypeAlways` is the type invariant. `EndsWithValueAlways`: the last word of a
stopped scope is a value. The forced write at the stop is three stages ahead of the
flag that ends the recording, so `LastInv` follows the value down both pipes: where the
stop has come in its pipe says which word of the compressor, of the record stage or of
the memory may no longer be a run. The pipe of the stop is one stage longer than that
way, so that when the stop shows on the bus nothing is left to be written:
`ScopCStoppedMemory`. `ScopCInterruptOnce` is `SyncInterruptOnce` for the stop of that
pipe, which a reset empties on one edge. `RunsBoundedAlways` is what the comment on the run counter says
of it (wbscopc.v:350, "saturate rather than overflow"): no run in the memory, or on its
way there, is longer than `MAX_STEP`.

`DecodesToSamplesAlways`, `TriggerRecordedAlways` and `PrintMarksTriggerAlways` are
about what the memory stands for. Their one assumption beyond the types is
`HistoryAssumption`, which speaks of the history variable and of nothing in the code.
The invariant is `TraceInv`. Each word of the ring, oldest first, has a place in the
history: `Coded(h, ring, A, F)` says that word `i` stands for the samples from `A[i]`
ago down to, but not including, `A[i + 1]` ago, that a value is the sample at its place
and a run repeats the one before it, that the stretches follow each other without a
gap, and that no two runs do. The words before the `F`-th are of an earlier capture, or
of none. The parts it needs:

- `CoderInv` says the same of the three words still on their way, in the compressor and
  in the record stage (`immEnd` to `memEnd` are their places, which the stop moves to
  the end of the history one stage at a time), and `InputInv` ties the compressor to
  its input: the sample in the pipe is the last one, and the counter is that of the run
  it makes. A run in the compressor may still be replaced by a longer one, so only one
  that is recorded has a place of its own (`EndsStep`).
- `AdjInv`: a recorded run is followed by a value. Without it, two runs in a row would
  decode to the right samples, but `MostClocks` would not bound them.
- `FillInv`: how many words of the ring may still be of another capture, which is no
  more than there are values on their way. `record_ce` and `r_data` are not reset, so a
  reset of a running capture leaves a word that goes to memory after it; until the
  scope is primed that word is recognised by the history, too young to reach back to it
  (`Held`), and it takes the first forced writes to fill the memory after it. When the
  stop reaches the end of its pipe, `F` is zero.
- `CountdownInv` and `TriggerPlace`: how many samples old the trigger's is (`age`,
  from the holdoff counter, which `h_since` follows), and that it is in the pipe with the write forced, a value
  in one of the words on their way or in the memory, or older than all of it.

One lemma per part takes it over a clock (`InputStep`, `CoderStep`, `AdjStep`,
`UnprimedStep` and `PrimedStep`, `CodedStep`, `TriggerStep`), and `TracedReset` sets it
up. At the stop every word is in the memory (`AtStop`), and the rest is about the
decoder: the clock it counts for a word is the word's distance from the end
(`ClockOfWord`), what the memory stands for is never longer than `MostClocks`
(`SpanBound`), and the line a reader sees at a clock is that of the last value before
it, which a run repeats (`ShownSample`). `print` knows the holdoff only: its line is
that of the trigger's sample because the capture stopped that holdoff after it, because
that sample is a word of its own at its clock (`PrintLines`), and because no two words
have the same clock (`Earlier`). These add up runs, word by word. The induction
is by a least counterexample (`Least`): the library has it that the strict subset
ordering on finite sets is well-founded, and a number is the set of those up to it.

**The stream encoder** (`AxisRle_proofs`), for every `MAXRUN >= 3` and every set of
samples and controls: `RleAssumption`. `ConservedAlways` proves the code's own
account of the samples in flight (axisrle.v:406-430), which a bounded model
checks for two-bit counts only. It is not inductive: whether a sample that
enters the run stage lengthens the run or pushes a word out depends on the flag
that cuts runs. The strengthening is `RunInv`: a run that is active is valid,
one that is not has length zero, and `run_overflow` is up at the largest count and
at no other, although it is computed one sample ahead. The flow through the stages
is one lemma each (`InputFlow`, `RunFlow`), and `RleStep` adds them up.
`BackedAlways` follows: no word offered stands for more samples than there are.
`RleTypes` is the type invariant.

`LosslessAlways`, `TriggerOnceAlways` and `CompressesAlways` are about what the words
say. Their invariant, `StagesInv`, writes the samples taken and not yet sent as one
sequence: what the word offered stands for, then the run behind it, then the
comparison stage, then the skid buffer. Each stage has its own account of which
stretch of that sequence it holds, of which of its samples carry the trigger, and of
the value a run repeats, and a clock moves each stretch on by one stage (`QueueStep`, `WordStep`,
`RunStageStep`, `MidStageStep`, `SkidStageStep`). A run is decoded by the value sent
before it, so the run stage must know what that will be once the word offered has
gone (`LastAfter`, `LastStep`); before the first word there is none, and
`RleAssumption` says that the mark for that is no sample. What `LosslessAlways` keeps
out of runs is what the code does: the first triggered sample since the reset and those
taken without `i_encode`. The header of the file promises it of every triggered sample
(section 4), so `CompressesAlways` does not ask for the later ones to be in runs.

**The bus master** (`WB_TBDevice_proofs`), for every set of calls, every number of
clocks before it gives up and every device: `CallsAssumption` says of the calls only
what their signatures say, with a vector of at least one word. A step of `WB_TB` is
one clock, so `StageInv` has a predicate for each place it may wait in (`AtStall`,
`AtAccept`, `AtWait`, `AtCollect`, and so on): what is on the pins, how many accesses
the device holds, how many answers have been counted, and that what the device holds
and what it has answered are, in this order, the accesses the call asks for
(`InTurn`). One lemma per action (and per loop that the action may run through)
takes each predicate to the next. `NoFalseAlarmAlways` and `MasterTypeAlways` follow
from it, and `MasterImplements`: the master implements `DevBus`. That a call's
accesses were made once and in order is there an increasing index into what the
device served (`InOrder`), and the proof carries that index along (`PlacedNext`).
The hypothesis is that a call with an increment is of one word: with more, the
master's addresses go on by 4, which the run `bus_readi` shows to be a violation.

**Model-checked only**: liveness (`TriggeredStops`, `ManualTriggerStops`,
`ResetCompletes`, `WaitReturns`, `CallReturns`, `Ends`, `EveryTaken`), which is
beyond the prover; the benches
(`BenchTypeOK`, `NoFailure`), whose checks depend on the counter the Verilog feeds and
on its wrap.

## 6. What is not modelled

- `rtl/avscope.v` with two clocks: its crossings are those of wbscope, but for a bus
  reset that may meet a handshake under way, a hazard no property covers yet.
- `rtl/axilscope.v`: the core of wbscope behind AXI4-Lite. What its read channel
  adds is listed as a hazard that no property covers yet.
- `rtl/memscope.v`, `rtl/memscopc.v`: their FIFO and skid buffer are not in the
  repository, and the properties worth having (burst counts, addresses that wrap,
  the 4 kB boundary) need more of AXI4 than the rest of this project.
- `rtl/wbscopc.v` with two clocks: its crossings are those of wbscope line by line.
- `bench/cpp/axi_tb.h`: a draft that nothing includes and that does not compile
  (undeclared `TICK`, port names cut short).
- The conversion of clocks to nanoseconds in `writevcd` and
  `write_trace_timezero`: no property tells two roundings apart.
- `bench/formal/` and the manual: protocols and statements, which the properties
  above take up, not the program.
- The width of a sample and the packing of the status word, which no property
  looks at; bus errors, which the cores never raise.
