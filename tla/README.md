# Verification of the Amstrad CPC / Plus core

This directory holds TLA+ models of the MiSTer core of the Amstrad CPC and Plus
(`src/rtl`, `src/Amstrad.sv`) and of the two host scripts that share memory with
it, the TLC runs that check them on small instances, and the TLAPS proofs of the
results that hold for every instance.

The core is a synchronous circuit: dozens of Verilog processes on one 64 MHz
clock, between them handshakes (request, grant, acknowledge), pulses and levels,
and outside it three parties that follow their own pace: the HPS (the ARM side,
which downloads files and writes them out), the SDRAM chip and the DDR3 port.
What goes wrong in such a system is an order of events, two controls on one
clock, an answer that arrives after its question was withdrawn. The pixel and
sound pipelines are functions of data that the benches compare with
references; the models are about the handshakes.

Contents: [inventory](#inventory), [modules](#modules), [conventions](#conventions),
[runs](#runs), [findings](#findings), [proofs](#proofs),
[what is not covered](#what-is-not-covered), [plan](#plan).


## Inventory

Every component, with its state and operations, the way it interacts with
others, what is hard about it and what makes it correct. The list with
sources and status is in `PROJECT.json`.

### Memory and loading

| component | state and operations | interacts through | hard because | correct if |
|---|---|---|---|---|
| Cartridge memory service, `rtl/plus/plus_cartridge_memory.v` | one image in SDRAM, valid or not; a load session (begin, words, commit, abort, errors); one request at a time to SDRAM, of clear, load or CPU read | controls and words from the loader, a request port from `plus_mmu`, the cartridge port of SDRAM | any control may arrive with any request in flight, and several controls at once; a request that SDRAM has cannot be withdrawn | readers see one complete image or none, and an answer belongs to the CPU cycle it is given to |
| .CPR download, `rtl/plus/plus_cpr_parser.v`, `Amstrad.sv` 698-704, 867-879 | RIFF position, chunk, page, word offered; the reset counter of the machine | HPS byte stream with `ioctl_wait`, words and pulses to the memory service, machine reset | files end anywhere, a reset may fall on any byte, the machine is released only through the memory service | the image visible to a running machine is the file's by the format, and the machine is always released |
| SDRAM controller, `rtl/sdram.v` | eight-clock slot, client, latched transaction, one cached video word, refresh debt, power-up sequence | main port (strobes), video, tape (levels, toggles), cartridge port (request, grant, acknowledge) | fixed priorities with refresh to be squeezed in; the acknowledge precedes the next arbitration by one clock | each request gets one slot, in bounded time, its data is its own, refresh is never starved, the cached word is the word in memory |
| Cartridge port multiplexer, `rtl/sna_cart_mux.v` | owner, drain counter | memory service and snapshot dump share one port | a hand-over while an acknowledge is in flight | no client completes on the other's acknowledge |
| Tape queue and playback, `rtl/tape_write_queue.v`, `Amstrad.sv` 886-960 | pending byte, length, playback address, player reset | HPS, SDRAM, TZX player | unload and reset on any clock, end of download with the last byte pending | the tape in SDRAM is the file, each byte is written once and played once, in order |
| Cartridge bridge, `rtl/plus/plus_mmu.v` 258-334 | IDLE, WAIT, CAPTURE, DONE and a stall timeout | CPU bus, memory service | WAIT is released at the grant, before the byte is there; a stale completion; a memory that does not answer | the CPU latches the byte of its own cycle and is never held for ever |
| Snapshot and ROM download, `Amstrad.sv` 472-697, `plus_sna_parser.v` | byte writer, RLE expander, chunk parser | HPS, main port, register page | truncated chunks, back-pressure | memory and registers are those of the file (planned) |

### Saving and observing

| component | state and operations | interacts through | hard because | correct if |
|---|---|---|---|---|
| Snapshot capture, `rtl/sna_save_capture.v` | IDLE, ARMED, HELD; the CPU hold; the copied registers | save key, admission, the CPU's instruction boundary, done from the stream | the boundary, an abort, a second key press | the CPU stops at a boundary and always runs again |
| Snapshot stream, `rtl/sna_save_stream.v` | position in the file, generation, one DDR3 write, request to SDRAM | capture, SDRAM through the multiplexer, DDR3 | a slave that stalls a write through an abort; the host reads meanwhile | a slot with a valid generation holds exactly the frozen machine |
| DDR3 multiplexer, `rtl/sna_ddr_mux.v` | owner | marker and stream | a change of owner under a stalled write | a stalled write stays as it is; none is lost |
| `sna_pull.py` | header, image, header again | DDR3 | no lock between host and core | an accepted file is one snapshot |
| SSM ring writer, `rtl/ssm_marker.v` 281-437 | records, counts, drops, one pending event | marker matcher, DDR3 | switched off and on with a write stalled; drops | the header never counts a half-written record, and accounts for every event |
| `ssm_ring.py` | consumed, lost | DDR3 | the ring turns while it is copied | a record handed out is the one of its index |
| SSM marker matcher, `rtl/ssm_marker.v` 200-280 | position in ED LL ED HH | CPU fetches | prefixes, interrupts | one event per marker (planned) |

### The Plus ASIC and the sound chip

| component | state and operations | interacts through | hard because | correct if |
|---|---|---|---|---|
| Sound DMA, `rtl/plus/asic_dma.v` | three channels (address, pause, prescaler, loop), the sequencer of a line, a LOAD in eight steps with up to two more | HSYNC, the 1 MHz enable, list memory, register page, PPI, sound chip | prefetch, pulses, the CPU reprogramming it while it runs, and both on one sound chip | lists are played as programs are; pauses have their length; neither side's access to the chip is lost, doubled or misread |
| Register page, `rtl/plus/asic_regs.v` | list addresses, prescalers, DCSR, vector source (modelled); sprites, palette, splits (storage) | CPU, DMA, interrupt acknowledge | flags set, cleared by ones and cleared by acknowledges on the same edges | no flag of a channel is lost or retired under another name |
| PPI and PSG bus, `rtl/i8255.v`, `rtl/YM2149.sv`, `Amstrad_motherboard.v` 760-860 | ports A and C, the chip's address and registers, the arbitration | CPU, DMA | a CPU access may begin before, on or after the clock a LOAD takes the chip | as if the accesses came one after the other |
| ASIC unlock, `rtl/plus/asic_unlock.v` | position in the 17-byte knock | CPU writes to the CRTC select port | self-overlapping prefixes | unlocked exactly after the sequence (planned) |
| ASIC gate array timing, `rtl/plus/asic_ga_timing.v` | raster counter, PRI, clocks | HSYNC, VSYNC, register page | acknowledge against a new request | one interrupt per event (planned) |
| Video and sprites | pixel pipelines | | functions of data | not modelled |

### The CRTC

| component | state and operations | interacts through | hard because | correct if |
|---|---|---|---|---|
| Type 0 engine, `rtl/crtc_type0_engine.v` | decisions at C0=0, 1 and 2; twelve latches for writes of R4, R5, R7 and R9 that act later; vertical adjustment; R0=0 | the wrapper's counters and register file, the CPU's write at or between CLKEN edges | what a write means depends on the character, the line and the writes before it, and lives on in a latch | no latch outlives its line or frame |
| Type 1 engine, `rtl/crtc_type1_engine.v` | live comparisons; "rupture for dummies" (RFD): the pointer that R1 unreachable leaves behind | as above | comparisons see a write on the edge itself | as above |
| Wrapper, `rtl/CRTC.v` | registers, C0, C9, C4, C5, the pointer MA, VSYNC and its arming, change of type, snapshot load | CPU bus, reset, snapshot loader, OSD | last assignment of an edge wins; counters compare for equality, so a lowered limit is passed | a frame has its length and addresses once writes stop; one VSYNC of its width for each match of C4 with R7 |
| Bench, `sim/sim_main.cpp` | clock of sixteen ticks, bus operations, tests with expectations | all of the above | | the model behaves as the tests say the RTL does |

### The rest of the machine

The floppy controller (`rtl/u765/u765.sv`: command, execution and result phases,
SD transfers) is planned. The GA40010 netlist, Z80, PlayCity, Dandanator, input
devices, video output, TZX pulse decoding, MMU decodes and snapshot header wiring
are combinational, third-party or pure functions of data: each has its reason in
`PROJECT.json`. The MiSTer framework (`src/sys`), the other benches and the release
scripts are not part of the core's logic.


## Modules

| module | models | built on |
|---|---|---|
| `PlusCartridgeMemory` | the memory service: one operator per branch of its two processes | |
| `CartridgeChannel` | its SDRAM channel: admitted, running, acknowledged; the store | `PlusCartridgeMemory` |
| `CartridgeImage` | service, channel and any loader and CPU | `CartridgeChannel` |
| `AtomicImage` | abstract: a reader sees one image, replaced in one step or withdrawn | |
| `CartridgeImage_proof` | theorems about `CartridgeImage` | |
| `PlusCprParser` | the parser | |
| `PlusMmuBridge` | the read bridge between the CPU and the service | |
| `CprLoader` | HPS, parser, service, channel, bridge, the CPU's reads, reset logic | `PlusCprParser`, `CartridgeChannel`, `PlusMmuBridge` |
| `CprLoader_proof` | theorems about `CprLoader` | `CprLoader` |
| `SdramController` | the controller and the chip | |
| `MainPort` | the CPU's strobes on the main port | `SdramController` |
| `SnaCartMux` | the cartridge port multiplexer | |
| `CartPorts` | controller, multiplexer, both clients, CPU and video | `MainPort`, `SnaCartMux` |
| `TapeWriteQueue` | the queue | |
| `TapePath` | HPS, queue, controller, player's handshake, CPU | `MainPort`, `TapeWriteQueue` |
| `SdramClients_proof` | what controller, chip and main port keep in any composition; theorems about `CartPorts` and `TapePath` | both |
| `SnaSaveCapture`, `SnaSaveStream`, `SnaDdrMux` | one each | |
| `SnaSave` | those three, CPU, marker, DDR3, host script | the three |
| `SnaSave_proof` | theorems about `SnaSave` | `SnaSave` |
| `SsmWriter` | the ring writer | |
| `SsmRing` | writer, DDR3, host script | `SsmWriter` |
| `SsmRing_proof` | theorems about `SsmRing` | `SsmRing` |
| `AsicDma` | the engine | |
| `AsicDmaRegs` | the part of the register page it uses | |
| `LinePrograms` | abstract: at each line every active channel runs one instruction, indivisibly | |
| `SoundPrograms` | engine, registers, CPU | `AsicDma`, `AsicDmaRegs`, `LinePrograms` |
| `SoundPrograms_proof` | theorems about `SoundPrograms` | `SoundPrograms` |
| `PsgBus` | 8255 ports, sound chip bus, arbitration | |
| `SoundBus` | engine, bus, CPU | `AsicDma`, `PsgBus` |
| `SoundBus_proof` | theorems about `SoundBus` | `SoundBus` |
| `CrtcState` | the registers, counters and widths that wrapper and engines share | |
| `CrtcType0`, `CrtcType1` | one engine each: its latches and the decision it makes on an edge | `CrtcState` |
| `CrtcWrapper` | `CRTC.v`: counters, pointer, VSYNC, type, snapshot load, reset | `CrtcType0`, `CrtcType1` |
| `Crtc` | wrapper and any program that writes registers | `CrtcWrapper` |
| `Crtc_proof` | theorems about `Crtc` | `Crtc` |
| `CrtcBench` | the bench's clock, operations and expectations | `CrtcWrapper` |
| `BenchTests` | the tests of the bench, as sequences of operations | `CrtcBench` |
| `MC...` | definitions of constants for TLC | |


## Conventions

**A step is a clock edge.** A component module defines one operator per branch of
its `always` block, over the registers it assigns, and a disjunction of them
(`MemoryClock`, `ParserClock`, `SdramClock`, `QueueClock`, `CaptureClock`,
`StreamClock`, `WriterClock`, `DmaClock`, `RegsClock`) that is one edge of that
process. Its argument `in` is the record of the ports as that edge samples them.
A composing module wires outputs to inputs and takes the conjunction of the
processes' edges as its step, since they run on the same clock: all read the
old values, as nonblocking assignments do. In the CRTC modules a step is a CLKEN
edge, one for each character, with or without a write on the bus at that edge
(`Edge(w)`), or a write between two such edges (`Between(w)`); the fifteen other
clocks of a character change nothing else. The interleaving is in what the
environment does on each edge (a reset, a stall, a key, an answer), and there it
is unrestricted unless this text says otherwise. Names are those of the source.

**What is merged.** `SdramController` leaves out slot phases 2, 4 and 5, on which
neither the controller nor any port changes, so a slot is five steps. In the
sound models the 64 clocks between two 1 MHz enables are reduced to the edges on
which something changes, see below.

**Data is small.** A byte is one of a few values, an address a small number or a
pair, a RAM word a value that says what it is (`[gen |-> g]`, `[len |-> n]`,
`[ram |-> ...]`). The .CPR parser, where the conversion is the property, reads
real bytes with 32-bit lengths, and its files are complete RIFF files.

**Ghosts.** History variables (`session`, `store`, `snap`, `taken`, `published`,
`log`, `position`, `want`, `wait`, `load`, `waited`, `carts`, `gave_up`, `clean`,
`chars`, `base`, `apart`, `lasts`, ...) only record; no guard reads them.

**Faults.** A definition with a comment that begins with "Fault:" is a plausible
bug of the definition below it. It is used by nothing: `PROJECT.json` names,
for every property, the one it is known to catch.


## Runs

Twelve runs; eleven pass, one shows a finding. The longest takes two to three
minutes with two workers. Of most of the safety properties the run is the small instance
and [a theorem](#proofs) the general statement; the bounds matter most for the
properties that have no theorem.

### cartridge_image (`CartridgeImage`)

Any loader and any CPU against the service: on every clock any control
(`ControlSets`: each alone, and begin with each other), any word, a CPU read of
either address that may be given up on any clock, and an SDRAM slot that takes any
time for admission and completion. Two addresses are what the properties can
tell apart (the word cleared first, the other); one word is in range and one out
of it. `PublishedIsExact`: a valid image is the one its session asked
for, after errors, aborts and disowned writes. `AnswersOwnCycle`: the byte of a
given-up cycle does not complete the next. `ImplementsAtomicImage`: refinement of
`AtomicImage`, where only complete images are ever visible. All are proved for
every instance, as are `GrantIsCurrent` (the same of the grant) and `HeldUntilAck`
(a request to SDRAM stays up and stable until its acknowledge, which `CartPorts`
assumes of its client A), which no longer need the run.

### cpr_loader and cpr_remnant (`MCCprLoader`)

Forty-seven files (`Files`) of up to two chunks, eleven of them acceptable, of the
kinds block, odd block, repeated page, metadata, empty, page out of range, too
long, huge length, nested; RIFF length right, too long by less and by more than a
chunk header, too short; cut short and with bytes behind. Pages have two bytes and
there are two, so boundaries of page and image are one byte away. Two of the files
(`ResetFiles`: one acceptable, one with another file inside a chunk) are also tried
with a machine reset on any clock (`MaxResets` is 1), and one (`BusyFiles`) with the
CPU reading either end of the image (`CpuAddrs`) before, into and after the
download, and a reset in the middle of its reads. A reset during a load with an old
read still in SDRAM is left to `cartridge_image`, which has each control against every
request in flight.

The CPU's read cycle is that of `T80pa.vhd`: it looks at WAIT at the earliest one
clock after the bridge has seen the cycle, and latches an opcode half a T-state,
eight clocks (`HalfCycle`), after it found WAIT released; data is latched later
still. A read slot of SDRAM acknowledges six clocks after its grant (`ReadSlot`).
That is what the bridge rests on when it releases WAIT at the grant: with the
grant on edge g, WAIT falls on g+2 and the opcode is latched on g+11 at the
earliest, the byte is in `cart_dout` from g+9. The watchdog's `StallTimeout` is 10
instead of 1024, just enough for a read that is admitted at once, so that it races
every later answer.

`VisibleImageIsTheFile` compares with a reference definition (`Acceptable`,
`ImageOf`) that reads the whole file at once instead of byte by byte.
`CpuReadsTheImage`: what the CPU latches is the byte of the visible image at its
own address, or open bus without an image or after the watchdog. Both are
proved, the first for every set of files and size of the region, the second for every
slot that ends before the latch.
`AcceptedIsPublished`, `CpuRuns`: liveness; the second says that whatever the file,
resets and pace, the CPU reads on, neither kept in reset nor in WAIT. Fairness: the
clock runs; an idle SDRAM channel admits and a running one completes, which
`cart_ports` bounds (`ServedInTime`); the HPS goes on with its download when not told
to wait; a running CPU starts reads and goes on when WAIT is released.
`cpr_remnant` is a [finding](#findings).

### cart_ports (`MCCartPorts`)

From power-up: CPU accesses at any time on slot boundaries, the video address
moving with the character clock, a client A that follows `HeldUntilAck` with
requests at any time and back to back, a client B that starts, aborts and restarts
dumps. `GrantLimit` is 2 instead of 32, the power-up takes 3 slots instead of 31.
`AckIsOwn`, `OneSlotPerRequest`, `RefreshedInTime`, `ServedInTime` (a wait of at
most nine arbitrations at these constants), `MainServed`, `VideoIsCoherent`,
`SaveYields`. All seven are proved for every bound; that nine arbitrations also
suffice for the hardware's limits is the theorem, not the run. A CPU strobe is aligned to slots because the clock enables of
`Amstrad.sv` come from the same counter.

### tape_path (`MCTapePath`)

A tape of three bytes (two equal, so that a repetition is not masked by its
value), a machine reset or an unload on any clock that lasts at least one slot, CPU
reads and writes. Three bytes give a first, a middle and a last, four reads pass
the end of the tape. `TapeIsTheFile` (every byte at its place, also when a write is
admitted twice), `PlaysInOrder`. Both are proved for tapes of any length below the
limit under [what is not covered](#what-is-not-covered) and any number of resets.

### sna_save and sna_save_fair (`SnaSave`)

The CPU executes and writes RAM until it is frozen; keys, admission, an abort on
any clock, stalls of DDR3 of any length, marker writes on the same port. Three
saves with two generation numbers (so the counter wraps, as
from 0xFFFFFFFE to 1), one abort, 64K and 128K. `PublishedIsSnapshot`: whenever word 0
is valid, length, header and RAM are those frozen for that generation.
`NewSaveNewGeneration`, `StalledWriteHeld`, `MarkerWritesLand`. The second run has
the host copy the slot word by word (`PullIsOneSnapshot`), with fewer saves than
generations, without which a counter that wraps under a slow pull would meet the
number it began with, and
the liveness properties `CpuReleased`, `MarkerServed`. Fairness: each clocked
process runs (WF of its edge), DDR3 accepts in the end, SDRAM answers.
`AbortOutlasts` is an assumption of this run: an abort lasts longer than a stalled
DDR3 write. Without it the capture can be started while the stream still drains
and misses its start pulse; resets and downloads last milliseconds, a stall
microseconds.

### ssm_ring (`SsmRing`)

A ring of two records; five markers overfill it twice and, with a stalled slave,
the pending slot; drops saturate at two instead of 255; one restart of the
observer, two polls that read one word per step. `CommittedIsWhole`, `CountsAddUp`,
`StalledRecordHeld`, `HandedIsOwn`, `EventPublished` (WF of the writer's clock and of
DDR3). All but the last are proved for rings of any size. `QuietPolls` is an assumption of this run: no restart of the observer falls
into a poll, see [what is not covered](#what-is-not-covered).

### sound_programs (`MCSoundPrograms`)

Two channels with two lists of four words that repeat, pause, loop, interrupt and
stop, all combined in one word too, a reserved word and a PAUSE 0; up to two
register writes (of DCSR, prescalers and one value for either half of an address),
resets or snapshot restores, each on any clock, and acknowledges
for the raster or a channel with and without automatic clear, with nothing pending, and
several in one M1 cycle, which its wait states can make: then one that finds nothing
names channel 0 instead of channel 2 (`Source`). `PlaysLists` is the
refinement of `LinePrograms`: the engine has a
dead cycle, prefetches the words of all channels before it runs the first and
delivers STOP and INT as pulses a clock later, and still each channel
runs one instruction per line, in channel order, and CPU and acknowledge act
between instructions. The mapping gives the address of a fetched, not yet
executed word one back, and counts pulses under way as delivered. `PauseLasts`:
PAUSE n lasts n times (prescaler + 1) lines, suspended ones not counted. A line is a
rise of HSYNC as such (`NewLine`); an HSYNC that a snapshot restores high is none, and
the snapshot of this run, with one pausing and one running channel, tells the two
apart. Both properties are proved for any lists, channels and writes, so that two
channels and two lists are enough here.

What a step is: the ring counter of `asic_ga_timing.v` (202-208) decodes the CPU's
enables and the 1 MHz enables from different states, so that strobes, HSYNC and the
acknowledge change at least four clocks away from the engine's cycles; between
them only the pulses settle (`Settle`). HSYNC is taken as high until the next
enable (only its edge matters). Assumed: a line is long enough for its channels
(at most 34 of its 64 cycles), list memory does not change, the CPU rewrites the
address of a channel outside that channel's turn on a line, and nothing in an M1 cycle that
has acknowledged (`ack_seen`, until `CycleEnds`); the machine is held
during a snapshot, whose restore is therefore one step. The download of a snapshot
begins with a reset of the register page (`Amstrad.sv` 871), which the restore includes:
the vector names channel 2 again.

### sound_bus (`MCSoundBus`)

Two channels that LOAD on every line, and three accesses of the CPU to the 8255,
each beginning on any clock: writes of port A, of port C, of its bits 6 and 7, of
the direction of port A, and reads of port A; three is select, write or read, and
a following one. `ChipAsOrdered`: when the bus is free the chip is as if accesses and
LOADs had come one after the other, the selected register included. `ReadIsOwn`: a
read returns the CPU's register also when a LOAD takes the bus in the middle.
`WaitBounded`: the CPU waits at most seven cycles. `LoadTakesItsTime`: 8 cycles, 9 or
10 as documented for collisions. The DMA and the CPU write different registers
(`BusAssumption`), so that the order of a LOAD and an access cannot hide a loss. All
four are proved for every list of such LOADs and any number of accesses. Machine reset and the
snapshot ports of 8255 and sound chip are left out.

### crtc (`MCCrtc`)

A running picture of two programs, on either type, and `MaxWrites` = 2 disturbances
at any characters, at most one in a character: a write of R0, R4, R5, R7, R9 or R13
between two CLKEN edges, one of `EdgeWrites` (R0, R4, R5, R13) on the edge itself, a
load of the other program as a snapshot does, a change of type, a reset. Widths
are 4, 4, 4, 16 and 4 instead of 256, 32, 128, 16384 and 16: the programs have frames of
two rows of two or three lines of three or four characters with and without
adjustment, so every counter can overflow and every write can be early, in time or
too late. Two disturbances are the least with which one latch can meet another
write. Writes of R7 and R9 on the edge itself are left out of the
run for the reason given under [findings](#findings).

`FrameIsExact`: a frame without disturbance since its origin starts at
C4=C9=C0=0 and takes exactly the characters its registers give, so nothing of
earlier writes is left in a latch. `AddressIsLinear`: MA in it is linear from its
start address; frames that take an old pointer on purpose (RFD, R1 > R0 on type 1)
are excluded. `OneVsyncPerMatch`, `VsyncKeepsWidth`: see [proofs](#proofs).
`VsyncRecurs`: once writes have ended, and the registers describe a
picture, VSYNC goes up and down for ever. Fairness: CLKEN comes
(`WF_vars(Character)`); it is the free-running character enable of the gate array.

### crtc_bench (`BenchTests`)

More than a hundred tests of `sim/sim_main.cpp`, transcribed as sequences of the
bench's operations, run on the model with the widths of the RTL and the bench's
sixteen clocks a character. `BenchAgrees`: at each expectation the model shows what
the test demands of the RTL, and every wait of a test ends: waits for a position
within the 100000 characters the bench allows, the others within the bench's own limit
or, where it has none (`run_to_c0`), within one round of C0. It ties the models of the CRTC to what the RTL
is known to do, to the clock. The tests left out look at interlace and skew (R8),
HSYNC, the display enable, the status register, the light pen or the CSL and capture
plumbing of the bench.


## Findings

1. `cpr_remnant`, `ErrorLetsGo` (`plus_cpr_parser.v:435`). If the last byte of a
   `cbNN` block leaves one to seven bytes of the RIFF length, word and abort rise on
   the same clock. The abort closes the session; the word is then never accepted,
   nothing in the error state withdraws it, and `ioctl_wait` stays up: the download
   cannot end and the machine stays in reset. The comment of the error state says
   it ignores the rest of the stream.

Three observations on the CRTC that no run presents as a violation, since
`docs/classic/b8-1-cpu-write-timing-2026-09-08.md` calls a write on the CLKEN edge
itself artificial (the CPU's writes fall between two edges):

- a write of R7 on that edge, of the value C4 is about to take, arms VSYNC again
  without C4=R7 having been false, against the comment of `CRTC.v:809`. The
  theorem on VSYNC therefore has `R7` outside `EdgeWrites`;
- a write of R9 on that edge with C0=R0 leaves `type0_r9_at_r0_pending` set for the
  next line (`crtc_type0_engine.v:582-583`);
- RFD armed on type 1 across the origin of a frame also disturbs the pointer of the next one.


## Proofs

Each proof module states one inductive invariant as a conjunction of named parts and
proves it in lemmas, one per action or process and under it one per part the action
disturbs; the theorems about properties follow from it. The invariants were
checked by TLC as invariants of the runs before they were proved.

`CartridgeImage_proof` proves five theorems about `CartridgeImage!Spec` for every
region size, byte set, loader and set of simultaneous controls that satisfy
`MemoryAssumption` and `InputsAssumption` (the constants have the types their
comments say; `Zero` and `OpenBus` are bytes):

| theorem | statement |
|---|---|
| `TypeCorrect` | `Spec => []TypeOK` |
| `PublishedImageTheorem` | `Spec => []PublishedIsExact` |
| `HeldUntilAckTheorem` | `Spec => [](HeldUntilAck /\ SessionProgress)` |
| `AnswerTheorem` | `Spec => [](AnswersOwnCycle /\ GrantIsCurrent)` |
| `AtomicTheorem` | `Spec => ImplementsAtomicImage` |

`PublishedIsExact` says nothing of the states in which no image is valid, so it is
not inductive. The invariant is `IInv == TypeOK /\ HeldUntilAck /\ SessionProgress /\
PublishedIsExact`. `HeldUntilAck` ties the request register to the transaction in
the SDRAM slot; `SessionProgress` says how far the store is: below `clear_index` it
is cleared, after the clear it differs from the session's words at most in the
one in flight, and a disowned request can only be outstanding before the first
clear write. A step is split by what it samples: a control (`ControlStep`), an
acknowledge (`AckStep`), a request that goes on (`HoldStep`), no request
(`FreeStep`). For the answers, `AnswerInv` adds that a CPU request that is not
disowned is for the address on the port, and that an acknowledged read carries
the byte in the store; it is inductive relative to `IInv`. `AtomicStep` maps each step
to a publication, a withdrawal, a change of the staged contents or a stutter.

`CprLoader_proof` proves both invariants of `cpr_loader` for every set of files, size of
page and region, watchdog, set of addresses the CPU reads and number of resets
(`MemoryAssumption`, `ParserAssumption`, `StallAssumption`, `LoaderAssumption`: the
region is a whole number of pages, files are sequences of bytes, a byte is at most
255):

| theorem | statement |
|---|---|
| `TypeCorrect` | `Spec => []TypeOK` |
| `RunsOnOneImage` | the image and its validity change in reset only |
| `ReadsAreTheImage` | `Spec => []CpuReadsTheImage`, if `ReadSlot >= 2` and `HalfCycle > ReadSlot` |
| `PublishesTheFile` | an image appears only as that of a whole acceptable file by the reference definition, after its download |
| `OldImageGoes` | in a download the image before is visible for the clock of the parser's begin pulse at most |
| `VisibleIsTheFile` | `Spec => [](resets <= Len(file) => VisibleImageIsTheFile)` |
| `VisibleOfLongFiles` | `Spec => []VisibleImageIsTheFile`, if no file but the empty one has fewer than `MaxResets` bytes |

For the reads, `ResetInv` says that download level, its delayed copy and the pending
finish hand the reset over without a gap, so that every pulse of the parser falls into
it; `ServiceInv` that a request is held to its acknowledge and a published image is
only read; `CycleInv` what each state of the bridge knows of the cycle on the
bus; and `TimeInv` counts from the grant and from the release of WAIT, which comes at
least two clocks later. The hypothesis is the timing the bridge rests on: the slot
of a read, 6 clocks in the core, is shorter than the half T-state of 8 clocks from
the release to the latch.

For the image, the induction over the clocks of a download carries six more parts.
`SessionInv`: parser and service open and close the same session, by one pulse each.
`ClearInv`, `WordInv`: the region is cleared up to `clear_index` by one write at a
time, and the word on offer is written once, after the clear; so `Region`, the store with
what is still owed to it, changes only by the word the parser offers. `StreamInv`:
parser and HPS are at the same byte of the file, and the state of the parser says where
it is in the format (`InChunk`). The reference is recursive over the file, which the
proof does not follow: `Rest` says that *if* the rest of the file is in order, so is the
whole, and the image is the bytes of the rest over those of the region. A chunk
moves `Rest` on by one unfolding of the reference (`RestOfNext`, `RestWritten`), and at
the end of the file the rest is empty (`RestAtEnd`). That the recursion defines a
function at all (`ChunksFromIs`) is an argument with a least element: two
approximations that cover the same tails of a file agree, or there is a
shortest tail on which they do not (`Agree`, `Defined`). `CommitInv` keeps the result
until it is published.

`PublishesTheFile` and `OldImageGoes` have no hypothesis. `VisibleImageIsTheFile`, which
takes them together after the download, needs one, and `VisibleInv` says why: a reset on the
clock of the parser's begin pulse hides that pulse from the service. An old image
can therefore outlive a download during the whole of which a reset strikes at least every
second clock, and then every byte sent has cost a clock of reset. So the theorem is for
files that have at least as many bytes as there were clocks of reset, those before the
download included; TLC finds that a file of one byte with two such clocks leaves the
old image visible. Longer resets leave two cases: one that has not hidden every begin
pulse is covered by the two theorems without hypothesis, and after one that lasts
through a whole download the core has never seen that download and keeps the
image it had. The run has at most one clock of reset.

`Crtc_proof` proves six theorems about `Crtc!Spec` for all widths of the counters,
all register files and any number of writes of any value (`WidthsAssumption`: the
moduli of the counters are above one, that of C0 above three; `InputsAssumption`:
values fit their registers, and R7 is not written on the CLKEN edge itself):

| theorem | statement |
|---|---|
| `TypeCorrect` | `Spec => []TypeOK` |
| `OneVsyncTheorem` | `Spec => OneVsyncPerMatch`: a VSYNC begins only if C4 has differed from R7 since the last one began |
| `VsyncWidthTheorem` | `Spec => VsyncKeepsWidth`: a VSYNC ends after the lines R3 gave when it began, 16 on type 1 |
| `CleanFrames` | `Spec => [](PendingInv /\ FrameInv)`, if `"R9" \notin EdgeWrites` |
| `FrameTheorem` | `Spec => FrameIsExact`, if `"R9" \notin EdgeWrites` |
| `LinearTheorem` | `Spec => []AddressIsLinear`, if `"R9" \notin EdgeWrites` |

`OneVsyncPerMatch` says nothing of states without an edge of VSYNC. The invariant is
`SyncInv`: an armed comparison (`vsync_allow`) implies that C4 has differed from R7
since the last VSYNC began (`apart`), and so does a C4 that differs now, but for one
case: on type 0 a VSYNC may begin with a line that begins no row, and then
C4 may already differ at C0=0. Type 1 has no such case because the line that begins its
VSYNC begins the row (`Lines1`). It is preserved because VSYNC is armed only by a row
that moves C4 and by a write of R7 other than C4, never by the edge that begins it
(`SyncEdge`, `SyncWrite`, `SyncStep`). For the width, `WidthInv` relates the ghost to the
counter: `lasts = vsc + 1`, and one more while the first line is not counted, the
one in which a write began the pulse on type 0.

`FrameIsExact` speaks of whole frames; the induction goes over characters.
`FrameInv` says of every character of a clean frame that the latches are quiet, that
the counters are within the registers, that the captures of type 0 are those of the
line, and that the ghost counts the characters: `chars = LineNo * (R0 + 1) + C0`, where
`LineNo` numbers the lines of rows and adjustment. `CleanDecision0` and
`CleanDecision1` reduce both engines in such a state to the same table,
`CleanCounters` steps it, and `LastOf` says which line and character make
`Frame - 1`. The origin is the hard part (`OriginQuiet`): a frame that any
writes have disturbed ends with every latch quiet, because each latch of a last line selects
adjustment instead of an end, and the rest go with the line. Only the latch of
a write of R9 at C0=R0 can outlive its line; `PendingInv` says that between
two edges it is set only when the coming edge consumes it, for which the write must
fall between two edges. The hypothesis on `EdgeWrites` excludes the exception that
[findings](#findings) describes. `PointerInv` adds that the saved pointer is that of
the row before C0=R1 of its last line and that of the next row after it; its
arithmetic is modulo the size of the video memory (`ModStep`, `Addresses`).

`SdramClients_proof` proves the seven properties of the `cart_ports` run for every set of cells
and bytes, refresh limit and power-up length (`ControllerAssumption`, `MainAssumption`,
`PortsAssumption`: the cartridge cells are not CPU or video cells, which the
address map of `Amstrad.sv` gives):

| theorem | statement |
|---|---|
| `InvariantHolds` | `Spec => []IInv` |
| `AcksAreOwn` | `Spec => []AckIsOwn` |
| `OneSlot` | `Spec => []OneSlotPerRequest` |
| `RefreshInTime` | `Spec => []RefreshedInTime` |
| `AIsServed` | `Spec => []ServedInTime`, if `MaxWait >= 9` |
| `VideoHolds` | `Spec => []VideoIsCoherent` |
| `MainIsServed` | `Spec => []MainServed` |
| `SavesYield` | `Spec => SaveYields` |

What controller, chip and main port keep in any composition is `BusInv` (power-up
order, who may own a slot, the refresh count, the cached video word while a read or
write of its cell runs, the phase of the main strobe); `CartPorts` and `TapePath`
share it. `PortsInv` adds the two clients: `MuxInv` says that the port is handed over
only between slots of the cartridge, `AInv` and `BInv` that a slot in flight belongs
to the client that asked, with its address and data, and that only an aborted dump may
have gone. `WaitInv` is the bound: `a_wait + Ahead <= 9`, where `Ahead` counts the
arbitrations that A may still lose: three to the hand-over to B, one to a strobe, one
to B's slot, three to the hand-over back, one to a strobe. It holds because the main
strobe cannot rise at two arbitrations running and a hand-over outlasts a refresh that
has fallen due.

The last part of `SdramClients_proof` proves both properties of `tape_path`, and `MainServed` beside a tape,
for every tape, number of reads, resets and unloads (`TapeAssumption`: the cells
of the tape are not CPU cells; a reset or unload lasts at least one
slot, `MinHold >= 1`; `NoByte`, the value of `tape_din` after a reset, is a byte):

| theorem | statement |
|---|---|
| `TapeInvariantHolds` | `TapeSpec => []TapeIInv` |
| `TapeArrives` | `TapeSpec => []TapeIsTheFile` |
| `TapeIsHeard` | `TapeSpec => []PlaysInOrder` |
| `MainIsServedBesideTape` | `TapeSpec => []MainServed` |

`WriteInv` follows a byte from the queue into the slot that writes it. The order of what is
played is not inductive because of reads that a restart leaves in flight: `StrayInv`
says that they keep asking for byte 0 while there is no tape, and are over with
the first write of the next; `RestartInv` that a reset or unload outlasts the slot
it strikes in. From there `OrderInv` counts reads against the playback address.

`SnaSave_proof` proves the safety properties of `sna_save` and `sna_save_fair` for every
geometry of the snapshot and any number of presses, aborts, writes and marks
(`StreamAssumption`, `SaveAssumption`: sizes are positive, there are two generation
numbers at least):

| theorem | statement |
|---|---|
| `InvariantHolds` | `Spec => []IInv` |
| `SnapshotIsPublished` | `Spec => []PublishedIsSnapshot` |
| `StalledWriteStays` | `Spec => StalledWriteHeld` |
| `MarksLand` | `Spec => []MarkerWritesLand` |
| `NewGenerations` | `Spec => NewSaveNewGeneration` |
| `PullsAreOneSnapshot` | `Spec => []PullIsOneSnapshot`, if `MaxPresses < LastGeneration` |

`ControlInv` ties the handshakes of capture, stream and port together, `FrozenInv`
says that machine and snapshot stay equal while the hold lasts, `ProgressInv` how much
of the slot each state of the stream has written, `SlotInv` that a valid
generation, in word 0 or on its way there, stands for a complete slot. A write that
a stall holds through an abort (`QUIESCE`) is why "on its way" is needed in every
part. `GenInv` says that the number on its way is neither the published nor
the next one. For the pull, `CountInv` bounds the numbers used by the presses,
`LenInv` keeps a length legal, and `PullInv` says that what the script has copied is the
snapshot of the number it read first for as long as no other was issued. The
hypothesis is needed: a pull during which the numbers wrap accepts a mixture.

`SsmRing_proof` proves four properties of `ssm_ring` for every size of the ring, limit of
the drop counter and number of markers, restarts and polls:

| theorem | statement |
|---|---|
| `InvariantHolds` | `Spec => []IInv` |
| `StalledWriteStays` | `Spec => StalledRecordHeld` |
| `RecordsAreWhole` | `Spec => []CommittedIsWhole` |
| `CountsAreTrue` | `Spec => []CountsAddUp` |
| `PollsAreTrue` | `Spec => HandedIsOwn` |

`RingInv` has a part for each thing in flight: what each state of the writer has on the
port (`Flights`), the events against the counts (`Counts`), the header in DDR3
against the writer's (`Published`), and every record the writer has not begun to
overwrite (`Whole`; `CommittedIsWhole` alone says nothing of a record written but not
yet counted). A poll reads while the writer goes on: `PollInv` says that what it
has copied of records that are still intact is what was logged, `ConsumedInv` that the
indices it has handed out before lie below, or were those of a session that is over.

`SoundBus_proof` proves the four properties of `sound_bus` for every list, channel set,
number of registers and accesses (`BusAssumption`: the lists hold LOADs, of registers that the
CPU's accesses do not select, so that the two never write the same one):

| theorem | statement |
|---|---|
| `InvariantHolds` | `Spec => []IInv` |
| `OrderIsKept` | `Spec => []ChipAsOrdered` |
| `WaitIsBounded` | `Spec => []WaitBounded` |
| `ReadsAreOwn` | `Spec => ReadIsOwn` |
| `LoadsTakeTheirTime` | `Spec => LoadTakesItsTime` |

`ChipAsOrdered` speaks of the moments at which the bus is free; the invariant follows
the chip through the eight steps of a LOAD and an access that begins at any of them.
`LoadInv` gives what the bus carries in each step, `TimeInv` the cycles counted
against the step and the extension, `PortInv` which access has begun and whether
it has been held off (`Pending`), `ChipInv` the register selected in the chip
(the LOAD's until step 6 has restored the CPU's), and `WantInv` relates the chip
to the ghost `want`: an access that is pending is already in `want`, and a LOAD that
has begun is. `ReadInv` says that the latched byte of a read is the CPU's register.

`SoundPrograms_proof` proves both properties of `sound_programs` for every size of memory
and set of channels among the three, and for any lists, register writes and snapshots
(`ProgramsAssumption`: bytes and prescalers are naturals, lists are functions from
addresses to instructions, what a snapshot restores is of the registers' types, and
memory is a whole number of pages of `LowWords`):

| theorem | statement |
|---|---|
| `InvariantHolds` | `Spec => []IInv` |
| `EnginePlaysLists` | `Spec => PlaysLists`: the engine implements `LinePrograms` |
| `CountersAreThePause` | `Spec => []PauseInv` |
| `PausesLast` | `Spec => PauseLasts` |

The refinement goes step by step. A rise of HSYNC is a `Line` (`NewLineStep`). A cycle of
the engine is an `Execute` if it ends the turn of a channel, which the first
cycle of its execution does, and nothing otherwise (`TickEngine`, with one lemma for each
state of the sequencer: `RestCycle`, `FetchCycle`, `LoadCycle`, `OperateRuns`,
`LoadRuns`); a pulse that settles is the `WriteDcsr` of a strobe that is still held, or
nothing (`SettleStep`); a clock on which the prescaler write reaches the engine is a `Cut`;
and the CPU's write is the abstract one (`WriteSarStep`, `WritePprStep`, `WriteDcsrStep`).
Three parts of the invariant carry it. `FetchInv`: an instruction that waits for its
turn is the word of memory before the address of its channel, so nothing may move that
address in between (the CPU's write of it falls outside the turn, see above).
`PulseInv`: a STOP or INT is under way on the clock after its instruction only, never
during a fetch. `StrobeInv`: as long as the CPU holds its strobe, the register has the
value it wrote; writing it again changes nothing but to enable a channel that
stopped on the clock in between.

`PauseInv` ties the ghost to the counters: a pause has `Length(pause, ppr, presc)` lines to
last, `pause - 1` whole intervals of `ppr + 1` lines and the rest of this one. The proof is
why `PauseLasts` speaks of lines and not of a rise of the variable `hsync`: a
snapshot may restore HSYNC as high with channels that are to run, and then no channel is
made active although no pause holds it back.

Only model-checked:

- every liveness property (`CpuReleased`, `MarkerServed`, `EventPublished`,
  `VsyncRecurs`, `AcceptedIsPublished`, `CpuRuns`): fairness and ENABLED are outside
  TLAPS;
- `BenchAgrees`, which is about given sequences.


## What is not covered

Hazards that no property covers:

- a tape of more than 7 MB runs into other regions of its bank: the size is a
  matter of the host, and the model's tape is small;
- a core reload starts the generation of saves at 1 while DDR3 keeps the previous
  slot: only DDR3 survives, so the model's session is over;
- a list address written in the cycle between request and fetch of that channel
  moves on past its first word: excluded from the runs, since what software may
  expect there is undocumented;
- a line shorter than its channels need (`asic_dma.v:273`, HSYNC reprogrammed below
  34 cycles) restarts the sequencer inside a LOAD: the runs begin a line only when
  the last one is done;
- a restart of the SSM observer between the two header reads of a poll makes the
  second count small, and the trimming rule of `ssm_ring.py:323` then excludes
  nothing: a known limit of the protocol, which has no session number.

Left out of the CRTC: R8 with interlace and skew, HSYNC, the display enable, the
status register, the light pen, and a snapshot load on the CLKEN edge itself. Left
out of the Plus MMU: the window decode, ROM select and RMR2, which are combinational
or single registers and give the address of a read. Of the benches only
`sim/sim_main.cpp` is modelled; the differential and diagnostic programs and the unit
benches of other chips drive components whose models are composed with a freer
environment than theirs.

Abstracted: SDRAM pins, lanes and modes; sound generation; header bytes of a
snapshot (one value); the detector of the SSM marker (an event source); TZX
blocks (the player is its handshake); decoding, formatting and files of the host
scripts, their SSH transport and retries of a whole pull.


## Plan

Done, in this order: cartridge service and its proofs; .CPR loader; SDRAM with its
ports; tape; snapshot save; SSM ring; sound DMA; CRTC, its bench and proofs; the
cartridge bridge within the loader; the proofs about the loader.

Next, by how much can go wrong and how little of it a bench reaches:

1. `AsicUnlock`: the knock recogniser against a definition over the whole history;
   `AsicInterrupts`: raster counter, PRI, split and the acknowledge.
2. `SnaLoad`: byte writer, RLE expander and chunk parser of a snapshot download,
   with the reset sequence that applies it.
3. `U765`: phases, seek interrupts, SD transfers; a reference drive.
4. Interlace, HSYNC and display enable of the CRTC, with the tests of the bench that
   look at them.
5. The marker matcher in front of `SsmWriter`.

Their runs are kept few: a component is composed with the ones that disturb it
and checked in one run; where a proved property no longer needs a run of its own,
it makes room.

Proofs, by value: the bridge's part of `CpuReadsTheImage`, which does not depend on
`Chunks`; that `Crtc` and `CrtcBench` step the same wrapper, so that what is proved of the
former holds in the bench; list addresses rewritten during a channel's turn, once a
source says what software may expect there.
