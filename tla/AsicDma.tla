------------------------------ MODULE AsicDma ------------------------------
(***************************************************************************)
(* rtl/plus/asic_dma.v: the three-channel sound DMA.  Every HSYNC starts a *)
(* line: one dead cycle, one fetch cycle per active channel, and then the  *)
(* execution of the fetched instructions in channel order, a LOAD taking   *)
(* eight to ten cycles on the sound chip's bus.  Addresses count words of  *)
(* a list memory of RamWords words and wrap like the 16-bit register.      *)
(*                                                                         *)
(* Every action is one clk edge.  "in" holds the sampled ports; in.cclk    *)
(* is cclk_en_p, the 1 MHz enable of the sequencer.                        *)
(***************************************************************************)
EXTENDS Integers, FiniteSets, FiniteSetsExt

CONSTANTS Channels, RamWords

ASSUME DmaAssumption ==
    /\ Channels \subseteq 0..2 /\ Channels # {}
    /\ RamWords \in Nat \ {0}

VARIABLES
    hsync_d,                        \* HSYNC one clock ago
    at, ch, step,                   \* the sequencer: phase, channel, step A..H = 1..8
    active_ch,                      \* the channels of this line
    instr,                          \* their instructions
    ram_addr,                       \* the word requested
    chan,                           \* the registers of each channel
    dcsr_ena_clr, dma_int_set,      \* one-clock pulses: STOP and INT
    dma_load_owner, dma_load_busy, load_extra, load_extension,
    psg_active, psg_bus, psg_dout   \* bdir and bc1 as idle, select, write

loadVars == <<dma_load_owner, dma_load_busy, load_extra, load_extension>>
psgVars == <<psg_active, psg_bus, psg_dout>>
lineVars == <<active_ch, instr, ram_addr>>
dmaVars == <<hsync_d, at, ch, step, lineVars, chan, dcsr_ena_clr, dma_int_set,
             loadVars, psgVars>>

(* Instructions: no operation bit makes a LOAD of data to register reg, else
   the operations of op run with the shared operand n. *)
Load(r, v) == [op |-> {}, n |-> 0, reg |-> r, data |-> v]
Op(ops, num) == [op |-> ops, n |-> num, reg |-> 0, data |-> 0]
Bit(num, k) == (num \div 2^k) % 2 = 1

ZeroChannel == [sar |-> 0, pause |-> 0, presc |-> 0, loop |-> 0, loop_addr |-> 0]
Bump(a) == (a + 1) % RamWords

(* The line sequencer, the request and the bus at rest. *)
Parked ==
    /\ at = "IDLE" /\ ch = 0 /\ step = 1
    /\ active_ch = {} /\ instr = [c \in Channels |-> Load(0, 0)] /\ ram_addr = 0
    /\ dcsr_ena_clr = {} /\ dma_int_set = {}
    /\ dma_load_owner = FALSE /\ dma_load_busy = FALSE
    /\ load_extra = 0 /\ load_extension = FALSE
    /\ psg_active = FALSE /\ psg_bus = "idle" /\ psg_dout = 0


-----------------------------------------------------------------------------
NoPulse == dcsr_ena_clr' = {} /\ dma_int_set' = {}
Park ==
    /\ at' = "IDLE" /\ ch' = 0 /\ step' = 1
    /\ active_ch' = {} /\ instr' = [c \in Channels |-> Load(0, 0)] /\ ram_addr' = 0
    /\ NoPulse
    /\ dma_load_owner' = FALSE /\ dma_load_busy' = FALSE
    /\ load_extra' = 0 /\ load_extension' = FALSE
    /\ psg_active' = FALSE /\ psg_bus' = "idle" /\ psg_dout' = 0

(* Reset, and a snapshot: the latter restores the channels and the history of
   HSYNC, so that the restored level is not a new line. *)
DmaReset(in) ==
    /\ in.reset /\ Park
    /\ hsync_d' = FALSE /\ chan' = [c \in Channels |-> ZeroChannel]
SnaLoad(in) ==
    /\ ~in.reset /\ in.sna_load /\ Park
    /\ hsync_d' = in.sna_hsync /\ chan' = in.sna_chan

Rises(in) == in.hsync /\ ~hsync_d
Running(in) == ~in.reset /\ ~in.sna_load /\ hsync_d' = in.hsync

(* A CPU write to the address of a channel. *)
Sar(in, c) == IF c \in in.sar_wr THEN in.sar[c] ELSE chan[c].sar

IntervalEnds(in, c) == chan[c].presc = 0 \/ c \in in.ppr_wr
(* Fault: the channel waits for the line after the pause. *)
PauseDoneLate(in, c) == chan[c].pause = 0
PauseDone(in, c) ==
    \/ chan[c].pause = 0
    \/ chan[c].pause = 1 /\ IntervalEnds(in, c)

(* A new line ticks the pauses of the enabled channels; a channel whose pause
   runs out takes part in the line. *)
Paused(in, c) ==
    LET r == [chan[c] EXCEPT !.sar = Sar(in, c)] IN
    IF c \notin in.ena \/ r.pause = 0 THEN r
    ELSE IF IntervalEnds(in, c)
    THEN [r EXCEPT !.presc = in.ppr[c], !.pause = @ - 1]
    ELSE [r EXCEPT !.presc = @ - 1]

LineStart(in) ==
    /\ Running(in) /\ Rises(in) /\ NoPulse
    /\ chan' = [c \in Channels |-> Paused(in, c)]
    /\ active_ch' = {c \in in.ena : PauseDone(in, c)}
    /\ at' = "DEAD"
    /\ UNCHANGED <<ch, step, instr, ram_addr, loadVars, psgVars>>

(* The channels outside a new line: a prescaler write ends the interval of a
   pausing channel. *)
Written(in) ==
    [c \in Channels |->
       [chan[c] EXCEPT !.sar = Sar(in, c),
          !.presc = IF c \in in.ppr_wr /\ c \in in.ena /\ chan[c].pause > 0 THEN 0 ELSE @]]

Between(in) ==
    /\ Running(in) /\ ~Rises(in) /\ ~in.cclk /\ NoPulse
    /\ chan' = Written(in)
    /\ UNCHANGED <<at, ch, step, lineVars, loadVars, psgVars>>

Cycle(in) == Running(in) /\ ~Rises(in) /\ in.cclk

-----------------------------------------------------------------------------
(* The cycles of a line. *)
BusAtRest ==
    /\ dma_load_owner' = FALSE /\ dma_load_busy' = FALSE
    /\ psg_active' = FALSE /\ psg_bus' = "idle"
    /\ UNCHANGED <<psg_dout, load_extra, load_extension>>

Resting(in) ==
    /\ Cycle(in) /\ at \in {"IDLE", "DONE"} /\ at' = "IDLE"
    /\ BusAtRest /\ NoPulse /\ chan' = Written(in)
    /\ UNCHANGED <<ch, step, lineVars>>

After(c) == {d \in active_ch : d > c}
Request(c) == at' = "FETCH" /\ ch' = c /\ ram_addr' = chan[c].sar /\ UNCHANGED step
Execute(todo) ==
    IF todo = {} THEN at' = "DONE" /\ UNCHANGED <<ch, step>>
    ELSE at' = "EXEC" /\ ch' = Min(todo) /\ step' = 1

Dead(in) ==
    /\ Cycle(in) /\ at = "DEAD" /\ NoPulse /\ chan' = Written(in)
    /\ IF active_ch = {} THEN at' = "IDLE" /\ UNCHANGED <<ch, step, ram_addr>>
       ELSE Request(Min(active_ch))
    /\ UNCHANGED <<active_ch, instr, loadVars, psgVars>>

(* The address moves on from its value before this edge, whatever the CPU
   writes on it. *)
Fetch(in) ==
    /\ Cycle(in) /\ at = "FETCH" /\ NoPulse
    /\ instr' = [instr EXCEPT ![ch] = in.ram_data]
    /\ chan' = [Written(in) EXCEPT ![ch].sar = Bump(chan[ch].sar)]
    /\ IF After(ch) # {} THEN Request(Min(After(ch)))
       ELSE Execute(active_ch) /\ UNCHANGED ram_addr
    /\ UNCHANGED <<active_ch, loadVars, psgVars>>

Word == instr[ch]
Does(o) == o \in Word.op
Reserved == Does("control") /\ Does("repeat") /\ Bit(Word.n, 0) /\ ~Bit(Word.n, 5)
(* A lone PAUSE 0 or REPEAT 0 does nothing. *)
DoesPause == Does("pause") /\ (Word.n # 0 \/ Does("repeat"))
DoesRepeat == Does("repeat") /\ (Word.n # 0 \/ Does("pause"))
Stops == Does("control") /\ Bit(Word.n, 5)
Loops == Does("control") /\ Bit(Word.n, 0) /\ ~Stops /\ chan[ch].loop # 0

(* What an operation leaves in its channel.  REPEAT takes the address before
   this edge; LOOP overrides a CPU write. *)
Operated(in, r) ==
    [r EXCEPT
       !.pause = IF DoesPause THEN Word.n ELSE @,
       !.presc = IF DoesPause THEN in.ppr[ch] ELSE @,
       !.loop = IF Loops THEN chan[ch].loop - 1 ELSE IF DoesRepeat THEN Word.n ELSE @,
       !.loop_addr = IF DoesRepeat THEN chan[ch].sar ELSE @,
       !.sar = IF Loops THEN chan[ch].loop_addr ELSE @]

Operate(in) ==
    /\ Cycle(in) /\ at = "EXEC" /\ step = 1 /\ Word.op # {}
    /\ IF Reserved THEN NoPulse /\ chan' = Written(in)
       ELSE /\ chan' = [Written(in) EXCEPT ![ch] = Operated(in, @)]
            /\ dcsr_ena_clr' = IF Stops THEN {ch} ELSE {}
            /\ dma_int_set' = IF Does("control") /\ Bit(Word.n, 4) THEN {ch} ELSE {}
    /\ Execute(After(ch))
    /\ UNCHANGED <<lineVars, loadVars, psgVars>>

(* LOAD: take the bus and select the register ... *)
LoadBegins(in) ==
    /\ Cycle(in) /\ at = "EXEC" /\ step = 1 /\ Word.op = {}
    /\ dma_load_owner' = TRUE /\ dma_load_busy' = TRUE
    /\ load_extra' = IF in.psg_write THEN 2 ELSE IF in.ppi_access THEN 1 ELSE 0
    /\ load_extension' = FALSE
    /\ psg_active' = TRUE /\ psg_bus' = "select" /\ psg_dout' = Word.reg
    /\ step' = 2 /\ NoPulse /\ chan' = Written(in)
    /\ UNCHANGED <<at, ch, lineVars>>

(* The strongest collision with the CPU so far. *)
Collision(in) ==
    IF in.psg_write THEN 2 ELSE IF in.ppi_access /\ load_extra = 0 THEN 1 ELSE load_extra

(* Fault: the register the CPU had selected is not restored. *)
BusAtForgets(in) ==
    IF step = 3 THEN psg_bus' = "write" /\ psg_dout' = Word.data
    ELSE psg_bus' = "idle" /\ UNCHANGED psg_dout
(* ... write the data, and select the CPU's register again. *)
BusAt(in) ==
    CASE step = 3 -> psg_bus' = "write" /\ psg_dout' = Word.data
      [] step = 5 -> psg_bus' = "select" /\ psg_dout' = in.psg_addr
      [] OTHER -> psg_bus' = "idle" /\ UNCHANGED psg_dout

LoadSteps(in) ==
    /\ Cycle(in) /\ at = "EXEC" /\ step \in 2..7
    /\ BusAt(in) /\ step' = step + 1
    /\ load_extra' = Collision(in)
    /\ NoPulse /\ chan' = Written(in)
    /\ UNCHANGED <<at, ch, lineVars, dma_load_owner, dma_load_busy, load_extension,
                   psg_active>>

(* The eighth cycle frees the bus, and ends the LOAD if nothing collided. *)
LoadFrees(in) ==
    /\ Cycle(in) /\ at = "EXEC" /\ step = 8 /\ ~load_extension
    /\ dma_load_owner' = FALSE /\ psg_active' = FALSE /\ psg_bus' = "idle"
    /\ load_extension' = TRUE /\ load_extra' = Collision(in)
    /\ IF ~in.ppi_access /\ load_extra = 0
       THEN dma_load_busy' = FALSE /\ Execute(After(ch))
       ELSE UNCHANGED <<dma_load_busy, at, ch, step>>
    /\ NoPulse /\ chan' = Written(in)
    /\ UNCHANGED <<lineVars, psg_dout>>

(* Fault: a PSG write in the ninth cycle is not an upgrade. *)
TenthNoUpgrade(in) == load_extra = 2
(* A collision with a PSG write costs a second cycle, also one seen as late as
   in the first. *)
Tenth(in) == load_extra = 2 \/ (in.psg_write /\ load_extra = 1)

LoadExtends(in) ==
    /\ Cycle(in) /\ at = "EXEC" /\ step = 8 /\ load_extension
    /\ load_extra' = 0
    /\ IF Tenth(in) THEN UNCHANGED <<dma_load_busy, at, ch, step>>
       ELSE dma_load_busy' = FALSE /\ Execute(After(ch))
    /\ NoPulse /\ chan' = Written(in)
    /\ UNCHANGED <<lineVars, dma_load_owner, load_extension, psgVars>>

DmaClock(in) ==
    \/ DmaReset(in) \/ SnaLoad(in) \/ LineStart(in) \/ Between(in)
    \/ Resting(in) \/ Dead(in) \/ Fetch(in) \/ Operate(in)
    \/ LoadBegins(in) \/ LoadSteps(in) \/ LoadFrees(in) \/ LoadExtends(in)
=============================================================================
