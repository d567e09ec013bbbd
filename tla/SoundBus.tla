------------------------------ MODULE SoundBus ------------------------------
(***************************************************************************)
(* The sound DMA and the CPU on the bus of the sound chip.  The DMA plays  *)
(* lists of LOADs to its own registers on every line; the CPU makes any    *)
(* MaxAccesses accesses to ports A and C of the 8255 and the chip behind   *)
(* them, waits included, at any time.  Steps are the clk edges of          *)
(* SoundPrograms; at 64 MHz several edges lie between a change of the      *)
(* engine and a change of the CPU's strobes.                               *)
(***************************************************************************)
EXTENDS Integers, FiniteSets, FiniteSetsExt

CONSTANTS Channels, RamWords, Registers, Floating,
          List,                     \* the words of the lists
          CpuBytes,                 \* what the CPU writes to port A
          MaxAccesses

(* The lists hold LOADs, of registers the CPU does not select. *)
ASSUME BusAssumption ==
    /\ Channels \subseteq 0..2 /\ RamWords \in Nat \ {0} /\ MaxAccesses \in Nat
    /\ CpuBytes # {}
    /\ \A n \in 0..(RamWords - 1) :
          List[n].op = {} /\ List[n].reg \in Registers \ (CpuBytes \cup {Floating})

VARIABLES hsync_d, at, ch, step, active_ch, instr, ram_addr, chan,
          dcsr_ena_clr, dma_int_set,
          dma_load_owner, dma_load_busy, load_extra, load_extension,
          psg_active, psg_bus, psg_dout
VARIABLES portA, portC, inputA, old_we,
          cpu_ppi_started, cpu_ppi_stolen, cpu_ppi_read_latch,
          cpu_psg_addr, psg_addr, psg_reg
VARIABLES io, since, accesses,
          want,                     \* history: the chip by the CPU's and the lists' orders
          load,                     \* history: cycles of this LOAD, worst collision
          waited                    \* history: cycles the CPU has waited

Engine == INSTANCE AsicDma
INSTANCE PsgBus
vars == <<Engine!dmaVars, busVars, io, since, accesses, want, load, waited>>

(* Fault: the CPU is held back until the LOAD, not its ownership, ends. *)
dmaHolds == [owner |-> dma_load_busy, active |-> psg_active, bus |-> psg_bus, dout |-> psg_dout]
dma == [owner |-> dma_load_owner, active |-> psg_active, bus |-> psg_bus, dout |-> psg_dout]

(* The CPU has selected a register and left the pins in any state. *)
Init ==
    /\ Engine!Parked /\ hsync_d = FALSE
    /\ chan = [c \in Channels |-> [Engine!ZeroChannel EXCEPT !.sar = c % RamWords]]
    /\ portA \in CpuBytes /\ portC \in [bdir : BOOLEAN, bc : BOOLEAN]
    /\ inputA \in BOOLEAN /\ old_we = FALSE
    /\ cpu_psg_addr \in (IF portC = Pins(TRUE, TRUE) THEN {portAout} ELSE CpuBytes)
    /\ psg_addr = cpu_psg_addr
    /\ psg_reg = [r \in Registers |->
                    IF portC = Pins(TRUE, FALSE) /\ r = psg_addr THEN portAout ELSE 0]
    /\ cpu_ppi_started = FALSE /\ cpu_ppi_stolen = FALSE /\ cpu_ppi_read_latch = Floating
    /\ io = Idle /\ since = 2 /\ accesses = 0
    /\ want = [addr |-> psg_addr, reg |-> psg_reg]
    /\ load = [cycles |-> 0, worst |-> 0] /\ waited = 0

In(tick, hs) ==
    [reset |-> FALSE, sna_load |-> FALSE, hsync |-> hs, cclk |-> tick,
     sar_wr |-> {}, ppr_wr |-> {}, ppr |-> [c \in Channels |-> 0], ena |-> Channels,
     ppi_access |-> Access(io'), psg_write |-> PsgWrite(io'),
     psg_addr |-> cpu_psg_addr, ram_data |-> List[ram_addr]]

Edge(tick, hs) ==
    /\ \E in \in {In(tick, hs)} : Engine!DmaClock(in)
    /\ BusClock(io', dma)

-----------------------------------------------------------------------------
(* What the CPU's accesses and the LOADs order, in that order. *)
Ordered(chip, pins, data) ==
    CASE pins = Pins(TRUE, TRUE) -> [chip EXCEPT !.addr = data]
      [] pins = Pins(TRUE, FALSE) /\ chip.addr \in Registers ->
            [chip EXCEPT !.reg[chip.addr] = data]
      [] OTHER -> chip
CpuOrders(a) ==
    want' = Ordered(want, PinsAfter(a),
                    IF (IF a.kind = "mode" THEN a.to ELSE inputA) THEN Floating
                    ELSE IF a.kind = "A" THEN a.v ELSE portA)
ListOrders ==
    want' = IF psg_active /\ ~psg_active'
            THEN [want EXCEPT !.reg[instr[ch].reg] = instr[ch].data] ELSE want

Clash == IF PsgWrite(io) THEN 2 ELSE IF Access(io) THEN 1 ELSE 0
LoadCounts ==
    load' = CASE ~dma_load_busy /\ dma_load_busy' -> [cycles |-> 1, worst |-> Clash]
              [] dma_load_busy -> [cycles |-> load.cycles + 1, worst |-> Max({load.worst, Clash})]
              [] OTHER -> [cycles |-> 0, worst |-> 0]

Tick ==
    /\ at # "IDLE" \/ hsync_d
    /\ since = 2 /\ since' = 0 /\ io' = io /\ Edge(TRUE, FALSE)
    /\ ListOrders /\ LoadCounts
    /\ waited' = IF Waits(io, dma) THEN waited + 1 ELSE 0
    /\ UNCHANGED accesses
Settle ==
    /\ since = 0 /\ since' = 2 /\ io' = io /\ Edge(FALSE, hsync_d)
    /\ UNCHANGED <<accesses, want, load, waited>>
NewLine ==
    /\ at = "IDLE" /\ ~hsync_d /\ io' = io /\ Edge(FALSE, TRUE)
    /\ UNCHANGED <<since, accesses, want, load, waited>>

Operations ==
    {ReadA} \cup {WriteA(v) : v \in CpuBytes}
    \cup {WriteC(Pins(d, c)) : d, c \in BOOLEAN}
    \cup {SetBit(b, v) : b \in {"bdir", "bc"}, v \in BOOLEAN}
    \cup {Direction(i) : i \in BOOLEAN}
CpuStarts ==
    /\ since = 2 /\ io = Idle /\ accesses < MaxAccesses
    /\ io' \in Operations /\ accesses' = accesses + 1
    /\ Edge(FALSE, hsync_d) /\ CpuOrders(io') /\ waited' = 0
    /\ UNCHANGED <<since, load>>
CpuEnds ==
    /\ since = 2 /\ io # Idle /\ ~Waits(io, dma)
    /\ io' = Idle /\ Edge(FALSE, hsync_d) /\ waited' = 0
    /\ UNCHANGED <<since, accesses, want, load>>

Next == Tick \/ Settle \/ NewLine \/ CpuStarts \/ CpuEnds
Spec == Init /\ [][Next]_vars

-----------------------------------------------------------------------------
(* Whenever the bus is free, the chip is as if the CPU's accesses and the
   LOADs had come one after the other: no access is lost or made twice, and
   the register that the CPU had selected is selected again. *)
ChipAsOrdered ==
    io = Idle /\ since = 2 /\ ~psg_active
      => psg_addr = want.addr /\ psg_reg = want.reg

(* A read of the sound chip that has begun returns the CPU's register, also
   when a LOAD takes the bus before the CPU ends its cycle. *)
ReadIsOwn ==
    [][io = ReadA /\ io' = Idle =>
         CpuReads(dma) =
            IF ~inputA THEN portA
            ELSE IF portC = Pins(FALSE, TRUE) /\ want.addr \in Registers
            THEN want.reg[want.addr] ELSE Floating]_vars

(* A LOAD takes 8 cycles, 9 when the CPU accesses the 8255 in any of them and
   10 when such an access writes a register of the chip. *)
LoadTakesItsTime ==
    [][dma_load_busy /\ ~dma_load_busy' => load'.cycles = 8 + load'.worst]_vars

(* A LOAD holds the CPU for at most 7 cycles, however long it is itself. *)
WaitBounded == waited <= 7
=============================================================================
