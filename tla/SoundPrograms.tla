--------------------------- MODULE SoundPrograms ---------------------------
(***************************************************************************)
(* The sound DMA with its registers and a CPU that reprograms it while the *)
(* lists play.  One step is one clk edge that matters: an edge with the    *)
(* 1 MHz enable; the edges after it, on which the engine's pulses act; and *)
(* edges on which HSYNC, the CPU's strobes or the acknowledge change.  The *)
(* last are never those of the 1 MHz enable or next to it: the ring of     *)
(* asic_ga_timing.v decodes the CPU's enables from other states.           *)
(*                                                                         *)
(* Bounds: there are MaxWrites register writes, resets and snapshot        *)
(* restores.  A line is long enough for its channels (at most 34 of the 64 *)
(* cycles of a scan line), and the CPU rewrites the address of a channel   *)
(* outside its turn on a line.                                             *)
(***************************************************************************)
EXTENDS AsicDma

CONSTANTS LowWords,
          SarBytes, Prescalers,      \* what the CPU writes to the two registers
          Lists, Starts, DcsrWrites, Snapshots,
          MaxWrites

Addresses == 0..(RamWords - 1)
HighBytes == 0..(RamWords \div LowWords - 1)
LowBytes == 0..(LowWords - 1)
Instruction ==
    [op : SUBSET {"pause", "repeat", "control"}, n : Nat, reg : Nat, data : Nat]
Registry == [sar : Addresses, pause : Nat, presc : Nat, loop : Nat, loop_addr : Addresses]
Pages ==
    [hi : [Channels -> HighBytes], lo : [Channels -> LowBytes], ppr : [Channels -> Prescalers],
     ena : SUBSET Channels]

ASSUME ProgramsAssumption ==
    /\ LowWords \in Nat \ {0} /\ RamWords % LowWords = 0
    /\ SarBytes \subseteq Nat /\ Prescalers \subseteq Nat /\ MaxWrites \in Nat
    /\ Lists \subseteq [Addresses -> Instruction] /\ Starts \subseteq Pages
    /\ \A w \in DcsrWrites :
         w \in [kind : {"dcsr"}, ena : SUBSET Channels, ones : SUBSET Channels]
    /\ \A s \in Snapshots :
         /\ [hi |-> s.hi, lo |-> s.lo, ppr |-> s.ppr, ena |-> s.ena] \in Pages
         /\ s.flags \subseteq Channels /\ s.hsync \in BOOLEAN
         /\ s.chan \in [Channels -> Registry]

VARIABLES sar_hi, sar_lo, ppr, dcsr_flags, dcsr_ena, ppr_dec_q, ppr_wr, ack_src, ack_seen
VARIABLES list,                     \* the words of memory
          strobe, hsync,            \* the CPU's write strobe, HSYNC
          since,                    \* edges since the 1 MHz enable: 0, 1, 2 or more
          writes,
          wait                      \* history: lines a pause has to last

INSTANCE AsicDmaRegs

(* The channels that have yet to execute on this line. *)
Turn ==
    CASE at \in {"DEAD", "FETCH"} -> active_ch
      [] at = "EXEC" -> {c \in active_ch : c > ch \/ (c = ch /\ step = 1)}
      [] OTHER -> {}
Fetched(c) == c \in Turn /\ (at = "EXEC" \/ (at = "FETCH" /\ c < ch))
Pc(c) == IF Fetched(c) THEN (chan[c].sar + RamWords - 1) % RamWords ELSE chan[c].sar

Lines == INSTANCE LinePrograms WITH
    due <- Turn,
    state <- [c \in Channels |-> [pc |-> Pc(c), pause |-> chan[c].pause,
                left |-> chan[c].presc, loop |-> chan[c].loop, top |-> chan[c].loop_addr]],
    ena <- dcsr_ena \ dcsr_ena_clr, flags <- dcsr_flags \cup dma_int_set,
    hi <- sar_hi, lo <- sar_lo, cut <- ppr_wr, named <- ack_src, asked <- ack_seen,
    wr <- strobe

vars == <<dmaVars, regsVars, list, strobe, hsync, since,
          writes, wait>>

(* The CPU has programmed the lists and enabled some. *)
Init ==
    /\ Parked /\ hsync_d = FALSE /\ hsync = FALSE
    /\ list \in Lists
    /\ \E s \in Starts : sar_hi = s.hi /\ sar_lo = s.lo /\ ppr = s.ppr /\ dcsr_ena = s.ena
    /\ chan = [c \in Channels |->
                 [ZeroChannel EXCEPT !.sar = sar_hi[c] * LowWords + sar_lo[c]]]
    /\ dcsr_flags = {} /\ ppr_dec_q = {} /\ ppr_wr = {}
    /\ ack_src = 2 /\ ack_seen = FALSE
    /\ strobe = NoWrite /\ since = 2 /\ writes = 0
    /\ wait = [c \in Channels |-> 0]

In(wr, tick) ==
    [reset |-> FALSE, sna_load |-> FALSE, hsync |-> hsync', cclk |-> tick,
     sar_wr |-> SarStrobe(wr), sar |-> SarSeen(wr),
     ppr_wr |-> ppr_wr, ppr |-> ppr, ena |-> dcsr_ena,
     ppi_access |-> FALSE, psg_write |-> FALSE, psg_addr |-> 0,
     ram_data |-> list[ram_addr]]

(* The lines a PAUSE has to last, counted until a prescaler write changes
   the rule (-1). *)
Pausing(c) == at = "EXEC" /\ ch = c /\ since' = 0 /\ step = 1
              /\ DoesPause /\ ~Reserved /\ instr[c].op # {}
WaitNext ==
    wait' = [c \in Channels |->
      IF Pausing(c) THEN instr[c].n * (ppr[c] + 1)
      ELSE IF chan[c].pause > 0 /\ strobe'.kind = "ppr" /\ strobe'.c = c THEN -1
      ELSE IF wait[c] = -1 /\ chan'[c].pause = 0 THEN 0
      ELSE IF hsync' /\ ~hsync /\ wait[c] > 0 /\ c \in dcsr_ena THEN wait[c] - 1
      ELSE wait[c]]

(* M1 matters to an edge with an acknowledge, which is inside its cycle, and
   after one: the cycle lasts until CycleEnds. *)
AckEdge(wr, tick, m1, ack, raster, ivr0) ==
    /\ \E in \in {In(wr, tick)} : DmaClock(in)
    /\ RegsClock(wr, m1, ack, raster, ivr0, dcsr_ena_clr, dma_int_set)
    /\ strobe' = wr /\ WaitNext /\ UNCHANGED list
Edge(wr, tick) == AckEdge(wr, tick, ack_seen, FALSE, FALSE, FALSE)

-----------------------------------------------------------------------------
(* HSYNC is high until the next 1 MHz enable; cycles at rest are left out. *)
Tick ==
    /\ at # "IDLE" \/ hsync
    /\ since = 2 /\ ppr_wr = {} /\ since' = 0 /\ hsync' = FALSE
    /\ Edge(strobe, TRUE) /\ UNCHANGED writes
Settle ==
    /\ since < 2 /\ UNCHANGED <<hsync, writes>>
    /\ since' = IF dcsr_ena_clr \cup dma_int_set = {} THEN 2 ELSE 1
    /\ Edge(strobe, FALSE)

ListInFlight == strobe.kind \in {"sar_hi", "sar_lo"}
NewLine ==
    /\ at = "IDLE" /\ ~hsync /\ ~ListInFlight
    /\ hsync' = TRUE /\ UNCHANGED <<since, writes>>
    /\ Edge(strobe, FALSE)

Quiet == since = 2 /\ UNCHANGED <<since, hsync>>
CpuWrites ==
    /\ Quiet /\ strobe = NoWrite /\ ppr_wr = {} /\ ~ack_seen
    /\ writes < MaxWrites /\ writes' = writes + 1
    /\ \E c \in Channels :
          \E w \in {WritePpr(c, v) : v \in Prescalers} \cup DcsrWrites \cup
                   IF c \in Turn THEN {}
                   ELSE {WriteSar("sar_hi", c, v) : v \in SarBytes \cap HighBytes} \cup
                        {WriteSar("sar_lo", c, v) : v \in SarBytes \cap LowBytes} :
              Edge(w, FALSE)
CpuEnds ==
    /\ Quiet /\ strobe # NoWrite /\ UNCHANGED writes
    /\ Edge(NoWrite, FALSE)

(* Acknowledges, with anything or nothing pending, of which the wait states of
   one M1 cycle may make several; and the end of that cycle. *)
CpuAcknowledges ==
    /\ Quiet /\ strobe = NoWrite /\ ppr_wr = {} /\ UNCHANGED writes
    /\ \E raster, ivr0 \in BOOLEAN :
          /\ ~(raster /\ ivr0)             \* each keeps the flags
          /\ AckEdge(strobe, FALSE, TRUE, TRUE, raster, ivr0)
CycleEnds ==
    /\ Quiet /\ strobe = NoWrite /\ ppr_wr = {} /\ ack_seen /\ UNCHANGED writes
    /\ AckEdge(strobe, FALSE, FALSE, FALSE, FALSE, FALSE)

(* Reset, and the end of a snapshot download, which began with a reset of the
   register page and wrote it while the machine was held in reset. *)
Another ==
    /\ writes < MaxWrites /\ writes' = writes + 1 /\ strobe' = NoWrite
    /\ since' = 2 /\ UNCHANGED list
Reset ==
    /\ Another /\ hsync' = FALSE /\ wait' = [c \in Channels |-> 0]
    /\ DmaReset([reset |-> TRUE]) /\ RegsReset
Restore ==
    /\ Another /\ Unasked
    /\ \E s \in Snapshots :
          /\ hsync' = s.hsync
          /\ SnaLoad([reset |-> FALSE, sna_load |-> TRUE, sna_hsync |-> s.hsync,
               sna_chan |-> [c \in Channels |->
                  [s.chan[c] EXCEPT !.sar = s.hi[c] * LowWords + s.lo[c]]]])
          /\ sar_hi' = s.hi /\ sar_lo' = s.lo /\ ppr' = s.ppr
          /\ dcsr_ena' = s.ena /\ dcsr_flags' = s.flags
          /\ ppr_dec_q' = {} /\ ppr_wr' = {}
          /\ wait' = [c \in Channels |-> IF s.chan[c].pause = 0 THEN 0 ELSE -1]

Next ==
    \/ Tick \/ Settle \/ NewLine
    \/ CpuWrites \/ CpuEnds \/ CpuAcknowledges \/ CycleEnds
    \/ Reset \/ Restore

Spec == Init /\ [][Next]_vars

-----------------------------------------------------------------------------
(* With its fetches, cycles and pulses the engine plays the lists as the
   abstract line programs do: no instruction is skipped, run twice or run in
   the wrong order, and STOP, INT, DCSR writes and acknowledges are atomic. *)
PlaysLists == Lines!Init /\ [][Lines!Next]_(Lines!vars)

(* PAUSE n holds a channel back for n * (PPR + 1) lines, suspended ones not
   counted, and the line on which it ends runs the next instruction.  An HSYNC
   that a snapshot restores is not a line. *)
PauseLasts ==
    [][NewLine =>
          \A c \in dcsr_ena : wait'[c] # -1 => (c \in active_ch' <=> wait'[c] = 0)]_vars
=============================================================================
