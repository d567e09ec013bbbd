---------------------------- MODULE AsicDmaRegs ----------------------------
(***************************************************************************)
(* rtl/plus/asic_regs.v: the part of the register page that the sound DMA  *)
(* and its interrupts use: list addresses, prescalers, DCSR and the        *)
(* acknowledge vector.  "wr" is the CPU's write strobe as this clk edge    *)
(* samples it, a level; "ack" is the rising edge of the acknowledge, and   *)
(* "m1" the level of the M1 cycle that it falls into.                      *)
(* A list address is a word number, its two bytes the high and low digits  *)
(* of it in base LowWords.                                                 *)
(***************************************************************************)
EXTENDS Integers, FiniteSets, FiniteSetsExt

CONSTANTS Channels, LowWords

VARIABLES sar_hi, sar_lo, ppr,      \* the programmed bytes of each channel
          dcsr_flags, dcsr_ena,     \* channels with an INT pending, enabled
          ppr_dec_q, ppr_wr,        \* the prescaler write, as a one-clock pulse
          ack_src,                  \* what the vector names: a channel, or Raster
          ack_seen                  \* this M1 cycle has had an acknowledge

Raster == 3
pageVars == <<sar_hi, sar_lo, ppr>>
dcsrVars == <<dcsr_flags, dcsr_ena>>
regsVars == <<pageVars, dcsrVars, ppr_dec_q, ppr_wr, ack_src, ack_seen>>

NoWrite == [kind |-> "none"]
WriteSar(half, c, v) == [kind |-> half, c |-> c, v |-> v]
WritePpr(c, v) == [kind |-> "ppr", c |-> c, v |-> v]
WriteDcsr(ena, ones) == [kind |-> "dcsr", ena |-> ena, ones |-> ones]

(* The vector as a reset leaves it. *)
Unasked == ack_src' = 2 /\ ack_seen' = FALSE

RegsReset ==
    /\ sar_hi' = [c \in Channels |-> 0] /\ sar_lo' = [c \in Channels |-> 0]
    /\ ppr' = [c \in Channels |-> 0]
    /\ dcsr_flags' = {} /\ dcsr_ena' = {}
    /\ ppr_dec_q' = {} /\ ppr_wr' = {} /\ Unasked

Wrote(wr, kind, c, old) == IF wr.kind = kind /\ wr.c = c THEN wr.v ELSE old
NextHi(wr) == [c \in Channels |-> Wrote(wr, "sar_hi", c, sar_hi[c])]
NextLo(wr) == [c \in Channels |-> Wrote(wr, "sar_lo", c, sar_lo[c])]

(* What the engine sees of a write in flight: the strobes, and the address
   with the byte that is being written. *)
SarStrobe(wr) == IF wr.kind \in {"sar_hi", "sar_lo"} THEN {wr.c} ELSE {}
SarSeen(wr) == [c \in Channels |-> NextHi(wr)[c] * LowWords + NextLo(wr)[c]]
PprStrobe(wr) == IF wr.kind = "ppr" THEN {wr.c} ELSE {}

(* The flag that an acknowledge names and retires: the highest channel. *)
Priority == Max(dcsr_flags)
AutoClear(ack, raster, ivr0) ==
    IF ack /\ ~ivr0 /\ ~raster /\ dcsr_flags # {} THEN {Priority} ELSE {}

Ones(wr) == IF wr.kind = "dcsr" THEN wr.ones ELSE {}
(* Fault: STOP does not clear its enable. *)
EnableDropsStop(wr, stop) == IF wr.kind = "dcsr" THEN wr.ena ELSE dcsr_ena
Enable(wr, stop) == (IF wr.kind = "dcsr" THEN wr.ena ELSE dcsr_ena) \ stop

Flags(wr, ack, raster, ivr0, int) ==
    (dcsr_flags \cup int) \ (Ones(wr) \cup AutoClear(ack, raster, ivr0))

(* What an acknowledge names.  With nothing pending that is channel 2, or
   channel 0 when it repeats one of the same M1 cycle. *)
Source(m1, raster) ==
    IF raster THEN Raster
    ELSE IF dcsr_flags # {} THEN Priority
    ELSE IF ack_seen /\ m1 THEN 0 ELSE 2
VectorClock(m1, ack, raster) ==
    /\ ack_src' = IF ack THEN Source(m1, raster) ELSE ack_src
    /\ ack_seen' = (ack \/ (m1 /\ ack_seen))

(* One clock edge; stop and int are the engine's pulses. *)
RegsClock(wr, m1, ack, raster, ivr0, stop, int) ==
    /\ sar_hi' = NextHi(wr) /\ sar_lo' = NextLo(wr)
    /\ ppr' = [c \in Channels |-> Wrote(wr, "ppr", c, ppr[c])]
    /\ ppr_dec_q' = PprStrobe(wr) /\ ppr_wr' = PprStrobe(wr) \ ppr_dec_q
    /\ dcsr_flags' = Flags(wr, ack, raster, ivr0, int)
    /\ dcsr_ena' = Enable(wr, stop)
    /\ VectorClock(m1, ack, raster)
=============================================================================
