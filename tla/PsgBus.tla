------------------------------- MODULE PsgBus -------------------------------
(***************************************************************************)
(* The CPU's way to the sound chip and the DMA's share of it: the glue of  *)
(* rtl/Amstrad_motherboard.v, the ports A and C of rtl/i8255.v in Plus     *)
(* mode, and the bus side of rtl/YM2149.sv.  "io" is the CPU's I/O cycle   *)
(* as this clk edge samples it (kind "none" between cycles); dma holds the *)
(* engine's outputs: owner, active, bus and dout.                          *)
(*                                                                         *)
(* Port C is its bits 7 and 6, BDIR and BC1.  Register numbers and data    *)
(* share the set Bytes; registers beyond Registers do not exist.           *)
(***************************************************************************)
EXTENDS Integers

CONSTANTS Registers, Floating       \* Floating: what an input port A drives

VARIABLES portA, portC, inputA, old_we,            \* the 8255
          cpu_ppi_started, cpu_ppi_stolen, cpu_ppi_read_latch,
          cpu_psg_addr,                            \* the CPU's register
          psg_addr, psg_reg                        \* the sound chip

ppiVars == <<portA, portC, inputA, old_we>>
glueVars == <<cpu_ppi_started, cpu_ppi_stolen, cpu_ppi_read_latch, cpu_psg_addr>>
busVars == <<ppiVars, glueVars, psg_addr, psg_reg>>

Idle == [kind |-> "none"]
Pins(bdir, bc) == [bdir |-> bdir, bc |-> bc]
Quiescent == Pins(FALSE, FALSE)
ReadA == [kind |-> "read"]
WriteA(v) == [kind |-> "A", v |-> v]
WriteC(pins) == [kind |-> "C", pins |-> pins]
SetBit(bit, b) == [kind |-> "bit", bit |-> bit, to |-> b]
Direction(input) == [kind |-> "mode", to |-> input]

Access(io) == io.kind # "none"
Writes(io) == io.kind \in {"A", "C", "bit", "mode"}
Waits(io, dma) == dma.owner /\ Access(io) /\ ~cpu_ppi_started

(* The pins after the access, and whether it writes a register of the chip:
   one that leaves BDIR alone asserted, entered or already there. *)
PinsAfter(io) ==
    CASE io.kind = "C" -> io.pins
      [] io.kind = "bit" -> [portC EXCEPT ![io.bit] = io.to]
      [] OTHER -> portC
PsgWrite(io) == io.kind \in {"A", "C", "bit"} /\ PinsAfter(io) = Pins(TRUE, FALSE)

portAout == IF inputA THEN Floating ELSE portA

(* The 8255 writes on the first edge of its write enable. *)
PpiClock(io, dma) ==
    LET we == Writes(io) /\ ~Waits(io, dma)
        writes == we /\ ~old_we IN
    /\ old_we' = we
    /\ portA' = IF writes /\ io.kind = "A" THEN io.v ELSE portA
    /\ portC' = IF writes THEN PinsAfter(io) ELSE portC
    /\ inputA' = IF writes /\ io.kind = "mode" THEN io.to ELSE inputA

-----------------------------------------------------------------------------
(* The chip takes its pins from the DMA while that is active. *)
DmaPins(dma) == Pins(dma.bus \in {"select", "write"}, dma.bus = "select")
ChipPins(dma) == IF dma.active THEN DmaPins(dma) ELSE portC
ChipData(dma) == IF dma.active THEN dma.dout ELSE portAout

ChipClock(dma) ==
    LET pins == ChipPins(dma) IN
    /\ psg_addr' = IF pins = Pins(TRUE, TRUE) THEN ChipData(dma) ELSE psg_addr
    /\ psg_reg' = IF pins = Pins(TRUE, FALSE) /\ psg_addr \in Registers
                  THEN [psg_reg EXCEPT ![psg_addr] = ChipData(dma)] ELSE psg_reg

(* What a read of port A shows. *)
ChipOut(dma) ==
    IF ChipPins(dma) = Pins(FALSE, TRUE) /\ psg_addr \in Registers
    THEN psg_reg[psg_addr] ELSE Floating
PpiOut(dma) == IF inputA THEN ChipOut(dma) ELSE portA
(* Fault: the CPU reads the live bus also when the DMA has it. *)
CpuReadsLive(dma) == PpiOut(dma)
CpuReads(dma) ==
    IF cpu_ppi_started /\ (cpu_ppi_stolen \/ dma.owner) THEN cpu_ppi_read_latch
    ELSE PpiOut(dma)

(* An access that started before the DMA took the bus is not held back. *)
GlueClock(io, dma) ==
    /\ cpu_ppi_started' = (Access(io) /\ (cpu_ppi_started \/ ~dma.owner))
    /\ cpu_ppi_stolen' = (Access(io) /\ (cpu_ppi_stolen \/ (cpu_ppi_started /\ dma.owner)))
    /\ cpu_ppi_read_latch' = IF io.kind = "read" /\ ~dma.owner /\ ~cpu_ppi_started
                             THEN PpiOut(dma) ELSE cpu_ppi_read_latch
    /\ cpu_psg_addr' = IF ~dma.active /\ portC = Pins(TRUE, TRUE)
                       THEN portAout ELSE cpu_psg_addr

BusClock(io, dma) == PpiClock(io, dma) /\ ChipClock(dma) /\ GlueClock(io, dma)
=============================================================================
