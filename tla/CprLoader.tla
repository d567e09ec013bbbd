----------------------------- MODULE CprLoader -----------------------------
(***************************************************************************)
(* A .CPR download from end to end: the HPS sends the bytes of a file, the *)
(* parser turns them into requests, the cartridge memory writes and        *)
(* publishes them, and the reset logic of Amstrad.sv keeps the machine in  *)
(* reset until the outcome is known.  Before and after, the CPU reads the  *)
(* cartridge through the bridge of the MMU.  A machine reset may strike on *)
(* any clock.                                                              *)
(***************************************************************************)
EXTENDS CartridgeChannel, PlusCprParser, PlusMmuBridge

CONSTANTS
    Files,          \* the downloads tried: sequences of bytes
    OldByte,        \* every byte of the image loaded before
    CpuAddrs,       \* the addresses the CPU reads
    HalfCycle,      \* clocks from a WAIT sample to the latch of an opcode
    ReadSlot,       \* clocks from the grant of a read slot to its acknowledge
    ResetFiles,     \* bound: the files tried with resets at any time
    BusyFiles,      \* bound: those tried with the CPU at work, and a reset of it
    MaxResets       \* bound: machine resets during one behaviour

ASSUME LoaderAssumption ==
    /\ LastAddr = (LastPage + 1) * PageBytes - 1
    /\ 0 \in Byte /\ Byte \subseteq 0..255 /\ Files \subseteq Seq(Byte)
    /\ OldByte \in Byte /\ BusyFiles \cup ResetFiles \subseteq Files
    /\ CpuAddrs \subseteq Addr /\ HalfCycle \in Nat /\ ReadSlot \in Nat
    /\ MaxResets \in Nat

VARIABLES
    file, hps_pos, cpr_download,    \* the HPS: its file, next byte, download level
    old_cpr_download,               \* also old_cpr_download_reset
    cpr_finish_pending, cpr_apply_cnt, reset,
    bus, bus_addr, bus_clock,       \* the CPU's read cycle and the clocks of its phase
    slot_clock,                     \* clocks since the grant of a read slot
    gave_up,                        \* history: the watchdog ended this cycle
    resets,                         \* machine resets so far
    undisturbed                     \* none of them during the download under way

glueVars == <<old_cpr_download, cpr_finish_pending, cpr_apply_cnt, reset>>
hpsVars == <<file, hps_pos, cpr_download>>
busVars == <<bus, bus_addr, bus_clock>>
vars == <<memoryVars, channelVars, parserVars, bridgeVars, hpsVars, glueVars, busVars,
          slot_clock, gave_up, resets, undisturbed>>

(* Any machine that is running, with or without a cartridge. *)
Init ==
    /\ MemoryQuiet /\ image_valid \in BOOLEAN /\ ParserInit
    /\ chan = "idle" /\ slot = request /\ mem_rdata = OpenBus
    /\ store = [a \in Addr |-> OldByte]
    /\ file = <<>> /\ hps_pos = 0 /\ cpr_download = FALSE
    /\ old_cpr_download = FALSE /\ cpr_finish_pending = FALSE
    /\ cpr_apply_cnt = 0 /\ reset = FALSE
    /\ BridgeInit(OpenBus)
    /\ bus = "off" /\ bus_addr = 0 /\ bus_clock = 0
    /\ slot_clock = 0 /\ gave_up = FALSE /\ resets = 0 /\ undisturbed = TRUE

-----------------------------------------------------------------------------
(* One clock of the HPS.  It starts the download once, sends the bytes in
   order while the core does not ask it to wait, and then ends the download. *)

BeginFile ==
    /\ ~cpr_download /\ hps_pos = 0
    /\ cpr_download' = TRUE /\ UNCHANGED hps_pos
    /\ file' \in IF bus = "off" /\ ~mem_req /\ ~cart_own THEN Files ELSE BusyFiles
SendByte ==
    /\ cpr_download /\ hps_pos < Len(file) /\ ~IoctlWait(cpr_download)
    /\ hps_pos' = hps_pos + 1 /\ UNCHANGED <<file, cpr_download>>
EndFile ==
    /\ cpr_download /\ hps_pos = Len(file) /\ ~IoctlWait(cpr_download)
    /\ cpr_download' = FALSE /\ UNCHANGED <<file, hps_pos>>
HpsIdle == UNCHANGED hpsVars

(* The wires from the parser to the memory. *)
PulseOf == CASE load_pulse = "begin" -> {"load_begin"}
             [] load_pulse = "commit" -> {"load_commit"}
             [] load_pulse = "abort" -> {"load_abort"}
             [] load_pulse = "none" -> {}

(* load_page[5] or load_offset[14] marks a word outside the region. *)
OfferedWord ==
    LET wide == load_out.page > LastPage \/ load_out.offset >= PageBytes IN
    [wide |-> wide, data |-> load_out.data,
     addr |-> IF wide THEN 0 ELSE load_out.page * PageBytes + load_out.offset]

MemoryPorts(reset_base) ==
    [controls |-> PulseOf \cup (IF reset_base THEN {"cold_reset"} ELSE {}),
     load_valid |-> load_valid, load_word |-> OfferedWord,
     cpu_valid |-> cart_valid, cpu_addr |-> cart_addr,
     mem_ack |-> chan = "ack", mem_grant |-> chan = "granted",
     mem_rdata |-> mem_rdata]

ParserPorts(reset_base, wr) ==
    [reset |-> reset_base, cpr_download |-> cpr_download, ioctl_wr |-> wr,
     ioctl_addr |-> hps_pos, ioctl_dout |-> IF wr THEN file[hps_pos + 1] ELSE 0,
     load_ready |-> load_ready, load_error |-> load_error]

BridgePorts ==
    [reset |-> reset, window_hit |-> bus # "off", addr |-> bus_addr,
     cart_ready |-> cpu_ready, cart_granted |-> cpu_granted, cart_data |-> cpu_data,
     cart_busy |-> load_active, open_bus |-> OpenBus]

(* Fault: it waits for an image. *)
FinishReadyImage == cpr_finish_pending /\ image_valid
FinishReady == cpr_finish_pending /\ ~load_active

(* Fault: the machine is only reset when the download is over. *)
CprResetLate == cpr_finish_pending \/ (old_cpr_download /\ ~cpr_download) \/ cpr_apply_cnt # 0
CprReset == \/ cpr_download \/ cpr_finish_pending
            \/ (old_cpr_download /\ ~cpr_download) \/ cpr_apply_cnt # 0

(* Amstrad.sv: after the download the reset is held until the memory service
   is done, and then for a few clocks more. *)
ResetGlue(reset_base) ==
    /\ old_cpr_download' = cpr_download
    /\ cpr_finish_pending' = /\ ~FinishReady
                             /\ cpr_finish_pending \/ (old_cpr_download /\ ~cpr_download)
    /\ cpr_apply_cnt' = IF FinishReady THEN 7
                        ELSE IF cpr_apply_cnt > 0 THEN cpr_apply_cnt - 1 ELSE 0
    /\ reset' = (reset_base \/ CprReset)

(* A read of the CPU: it looks at WAIT no sooner than a clock after the bridge
   has seen the cycle, and again until it is released; half a cycle later it
   latches an opcode (other data later still) and ends the cycle. *)
BeginRead ==
    /\ bus = "off" /\ ~reset /\ file \in BusyFiles \cup {<<>>}
    /\ bus' = "read" /\ bus_addr' \in CpuAddrs /\ bus_clock' = 0
InWait ==
    /\ bus = "read" /\ ~reset
    /\ bus_clock' = 1 /\ UNCHANGED <<bus, bus_addr>>
Released ==
    /\ bus = "read" /\ ~reset /\ bus_clock = 1 /\ ~cart_stall
    /\ bus' = "latch" /\ bus_clock' = 1 /\ UNCHANGED bus_addr
Latching == bus = "latch" /\ bus_clock = HalfCycle
ToLatch ==
    /\ bus = "latch" /\ ~reset /\ ~Latching
    /\ bus_clock' = bus_clock + 1 /\ UNCHANGED <<bus, bus_addr>>
EndRead ==
    /\ Latching \/ reset
    /\ bus' = "off" /\ bus_addr' = 0 /\ bus_clock' = 0
BusIdle == bus = "off" /\ UNCHANGED busVars
BusClock == BeginRead \/ InWait \/ Released \/ ToLatch \/ EndRead \/ BusIdle

(* A slot of SDRAM runs for its time without preemption; that of a write is
   left open here. *)
SlotTiming ==
    /\ slot_clock' = IF chan' = "run" /\ ~slot.write THEN slot_clock + 1 ELSE 0
    /\ chan = "run" /\ ~slot.write => (chan' = "ack" <=> slot_clock = ReadSlot - 1)

Clock(reset_base, wr) ==
    \E m \in {MemoryPorts(reset_base)}, p \in {ParserPorts(reset_base, wr)}, b \in {BridgePorts} :
        /\ MemoryClock(m)
        /\ ParserClock(p)
        /\ ResetGlue(reset_base)
        /\ BridgeClock(b)
        /\ gave_up' = (GivesUp(b) \/ (gave_up /\ bus # "off"))

(* A download is under way or the memory service still works on it. *)
Loading == cpr_download \/ old_cpr_download \/ load_active

MayReset ==
    /\ resets < MaxResets
    /\ file \in ResetFiles \/ (file \in BusyFiles /\ ~Loading)

Next ==
    \E reset_base \in {b \in BOOLEAN : b => MayReset} :
        /\ resets' = resets + (IF reset_base THEN 1 ELSE 0)
        /\ undisturbed' = (Loading => undisturbed /\ ~reset_base)
        /\ ChannelClock /\ SlotTiming /\ BusClock
        /\ \/ SendByte /\ Clock(reset_base, TRUE)
           \/ (BeginFile \/ EndFile \/ HpsIdle) /\ Clock(reset_base, FALSE)

(* The clock runs; an idle SDRAM slot is granted and a running one completes
   (sdram.v refreshes and serves others for a bounded time); the HPS goes on,
   and the CPU reads on. *)
Fairness ==
    /\ WF_vars(Next)
    /\ WF_channelVars(Admit) /\ WF_channelVars(CompleteWrite \/ CompleteRead)
    /\ WF_hpsVars(BeginFile \/ SendByte \/ EndFile)
    /\ WF_busVars(BeginRead \/ Released)

Spec == Init /\ [][Next]_vars
FairSpec == Spec /\ Fairness

-----------------------------------------------------------------------------
(* Reference definition of an acceptable file and its image, read from the
   whole file at once: the chunks from byte p on give the bytes they load,
   a later chunk over an earlier one. *)
Field(f, p) == <<f[p + 1], f[p + 2], f[p + 3], f[p + 4]>>
Matches(f, p, s) == \A i \in 1..4 : f[p + i] \in Letters(s)[i]

RiffEnd(f) == Value(Field(f, 4)) + 8
Length(f, p) == Value(Field(f, p + 4))
NextChunk(f, p) == p + 8 + Length(f, p) + (Length(f, p) % 2)

(* What a block loads on its own, and what is left of it under the later ones. *)
Own(f, p) ==
    LET base == PageOf(Field(f, p)) * PageBytes IN
    [a \in {base + i : i \in 0..(Length(f, p) - 1)} |-> f[p + 9 + a - base]]
Under(own, later) ==
    [a \in DOMAIN own \cup DOMAIN later |-> IF a \in DOMAIN later THEN later[a] ELSE own[a]]

Malformed == [ok |-> FALSE, bytes |-> <<>>]
ChunkAt(f, p, From) ==
    LET limit == RiffEnd(f)
        next == NextChunk(f, p)
    IN IF p # limit /\ p + 8 > limit THEN Malformed
       ELSE IF p = Len(f) THEN [ok |-> TRUE, bytes |-> <<>>]
       ELSE IF p + 8 > Len(f) \/ p = limit THEN Malformed
       ELSE IF next > limit \/ next > Len(f) THEN Malformed
       ELSE IF ~BlockId(Field(f, p)) THEN From[next]
       ELSE IF ~ValidPage(Field(f, p)) \/ Length(f, p) > PageBytes THEN Malformed
       ELSE [ok |-> From[next].ok, bytes |-> Under(Own(f, p), From[next].bytes)]
ChunksFrom(f) == LET From[p \in 12..Len(f)] == ChunkAt(f, p, From) IN From
Chunks(f) == ChunksFrom(f)[12]

Acceptable(f) ==
    /\ Len(f) >= 12
    /\ Matches(f, 0, "RIFF") /\ Matches(f, 8, "FORM")
    /\ Value(Field(f, 4)) \in 4..MaxRiffLen
    /\ Chunks(f).ok /\ Chunks(f).bytes # <<>>

ImageOf(f) ==
    LET loaded == Chunks(f).bytes IN
    [a \in Addr |-> IF a \in DOMAIN loaded THEN loaded[a] ELSE Zero]

GoodFiles == {f \in Files : Acceptable(f)}
Image == [f \in GoodFiles |-> ImageOf(f)]

-----------------------------------------------------------------------------
(* Whatever the pace of the SDRAM and of the HPS, an image that is visible once
   the machine runs again is the image of the whole file by the reference
   definition; a truncated, overlong or malformed file, or a download broken
   by a reset, publishes nothing. *)
VisibleImageIsTheFile ==
    ~reset /\ old_cpr_download = FALSE /\ hps_pos > 0 /\ ~cpr_download /\ image_valid =>
        file \in GoodFiles /\ store = Image[file]

(* What the CPU latches in a cartridge window is the byte of the image at the
   address of its own cycle, or open bus without an image: WAIT is released
   when SDRAM admits the read, before the byte is there, but by then the slot
   runs and nothing, not a download, an old answer or an old grant, comes
   between.  Only the watchdog makes it open bus in spite of an image. *)
CpuReadsTheImage ==
    Latching => /\ cart_own
                /\ cart_dout = IF image_valid /\ ~gave_up THEN store[bus_addr] ELSE OpenBus

(* After an undisturbed download of an acceptable file the machine comes out of
   reset with the image published. *)
AcceptedIsPublished ==
    (cpr_download /\ file \in GoodFiles) ~>
        (image_valid /\ ~reset /\ ~cpr_download) \/ ~undisturbed

(* Whatever the file, the resets and the pace of SDRAM, the CPU goes on
   reading: a bad file must not leave it in reset waiting for the memory
   service, nor the bridge leave it in WAIT. *)
FreeToRead == file \notin BusyFiles /\ ~cpr_download /\ ~reset /\ ~cart_stall
CpuRuns == []<>(Latching \/ FreeToRead)

(* "Ignore stream bytes until cpr_download falls": a parser that has given up
   does not keep the HPS, which ends the download, waiting. *)
ErrorLetsGo == state = "ERROR" ~> ~IoctlWait(cpr_download)
=============================================================================
