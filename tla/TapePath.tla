------------------------------ MODULE TapePath ------------------------------
(***************************************************************************)
(* A CDT tape: the HPS downloads it byte by byte through the write queue   *)
(* into SDRAM, and the player reads it back from there, while the CPU uses *)
(* the same SDRAM and a machine reset or the unload key (Fn[2]) strikes.   *)
(***************************************************************************)
EXTENDS MainPort, TapeWriteQueue, Sequences

CONSTANTS
    File,           \* the bytes of the tape
    MinHold,        \* slots a reset or unload lasts at least, milliseconds in fact
    MaxHits,        \* bound: resets and unloads
    MaxReads        \* bound: bytes played after a restart

ASSUME TapeAssumption ==
    /\ File \in Seq(Byte) /\ Len(File) > 0 /\ NoByte \in Byte
    /\ {<<"tape", n>> : n \in 0..(Len(File) - 1)} \subseteq Cells \ MainCells
    /\ MinHold \in Nat \ {0} /\ MaxHits \in Nat /\ MaxReads \in Nat

VARIABLES
    tape_download, hps_pos,         \* the HPS
    machine_reset, unload, held,    \* reset, Fn[2], and how long they last
    tape_play_addr, tape_reset, old_tape_ack,
    tzx_req,                        \* the player's toggled request
    hits,
    whole,                          \* the download was not broken by a reset
    reads                           \* bytes the player asked for

hpsVars == <<tape_download, hps_pos>>
hitVars == <<machine_reset, unload, held, hits>>
playVars == <<tape_play_addr, tape_reset, old_tape_ack>>
tapeVars == <<controllerVars, mainVars, queueVars, hpsVars, hitVars, playVars,
          tzx_req, whole, reads>>

TapeInit ==
    /\ ControllerInit /\ MainInit /\ QueueInit
    /\ tape_download = FALSE /\ hps_pos = 0
    /\ machine_reset = FALSE /\ unload = FALSE /\ held = 0 /\ hits = 0
    /\ tape_play_addr = 0 /\ tape_reset = FALSE /\ old_tape_ack = FALSE
    /\ tzx_req = FALSE /\ whole = TRUE /\ reads = 0

-----------------------------------------------------------------------------
(* The HPS keeps still while ioctl_wait is up. *)
BeginTape ==
    /\ ~tape_download /\ hps_pos = 0 /\ ~machine_reset /\ mode = "NORMAL"
    /\ tape_download' = TRUE /\ UNCHANGED hps_pos
SendByte ==
    /\ tape_download /\ hps_pos < Len(File)
    /\ ~TapeWait(tape_download, tape_wr_ack)
    /\ hps_pos' = hps_pos + 1 /\ UNCHANGED tape_download
EndTape ==
    /\ tape_download /\ hps_pos = Len(File)
    /\ tape_download' = FALSE /\ UNCHANGED hps_pos
HpsIdle == UNCHANGED hpsVars

(* A reset or unload lasts at least MinHold slots. *)
Hit ==
    /\ ~machine_reset /\ ~unload /\ hits < MaxHits
    /\ \/ machine_reset' = TRUE /\ UNCHANGED unload
       \/ unload' = TRUE /\ UNCHANGED machine_reset
    /\ held' = MinHold /\ hits' = hits + 1
Holding ==
    /\ held' = IF held > 0 /\ q = 7 THEN held - 1 ELSE held
    /\ UNCHANGED <<machine_reset, unload, hits>>
Release ==
    /\ machine_reset \/ unload
    /\ held = 0
    /\ machine_reset' = FALSE /\ unload' = FALSE /\ UNCHANGED <<held, hits>>

QueuePorts(wr_strobe) ==
    [reset |-> machine_reset, clear |-> machine_reset \/ unload,
     tape_download |-> tape_download, ioctl_wr |-> wr_strobe,
     ioctl_addr |-> hps_pos, ioctl_dout |-> IF wr_strobe THEN File[hps_pos + 1] ELSE NoByte,
     tape_wr_ack |-> tape_wr_ack]

(* Fault: the player is let go when the download ends, byte pending or not. *)
TapeBusyDownload == tape_download
TapeBusy == tape_download \/ tape_wr

More == tape_play_addr < tape_queued_addr

(* Amstrad.sv: the playback address and the player's reset. *)
PlayStep ==
    /\ old_tape_ack' = tape_rd_ack
    /\ tape_reset' = (machine_reset \/ unload \/ TapeBusy)
    /\ tape_play_addr' =
          IF machine_reset \/ unload \/ TapeBusy THEN 0
          ELSE IF old_tape_ack # tape_rd_ack /\ More
          THEN tape_play_addr + 1 ELSE tape_play_addr

(* tzxplayer asks for the next byte when it has used the last one. *)
PlayerStep ==
    IF tape_reset THEN tzx_req' = tape_rd_ack /\ reads' = 0
    ELSE \/ /\ tzx_req = tape_rd_ack /\ reads < MaxReads
            /\ tzx_req' = ~tape_rd_ack /\ reads' = reads + 1
         \/ UNCHANGED <<tzx_req, reads>>

TapePorts ==
    [init |-> FALSE, oe |-> main.strobe = "rd", we |-> main.strobe = "wr",
     addr |-> main.addr, din |-> main.din,
     cart_req |-> FALSE, cart_wr |-> FALSE, cart_addr |-> a, cart_din |-> data,
     vram_addr |-> main.addr,
     tape_rd |-> tzx_req # tape_rd_ack, tape_wr |-> tape_wr,
     tape_addr |-> <<"tape", TapeAddr(tape_download, tape_play_addr)>>,
     tape_din |-> tape_din]

Clock(wr_strobe) ==
    /\ SdramClock(TapePorts) /\ QueueClock(QueuePorts(wr_strobe))
    /\ MainClock /\ PlayStep /\ PlayerStep
    /\ whole' = (whole /\ ~(machine_reset /\ (tape_download \/ tape_wr)))

TapeNext ==
    /\ Hit \/ Holding \/ Release
    /\ \/ SendByte /\ Clock(TRUE)
       \/ (BeginTape \/ EndTape \/ HpsIdle) /\ Clock(FALSE)

TapeSpec == TapeInit /\ [][TapeNext]_tapeVars

-----------------------------------------------------------------------------
(* The queue and the player stay within the tape, the player within its length,
   and a byte waiting to be written is one the HPS sent. *)
TapeTypeOK ==
    /\ ControllerTypeOK /\ MainTypeOK
    /\ {tape_queued_addr, pending_addr, tape_play_addr} \subseteq 0..(Len(File) - 1)
    /\ hps_pos \in 0..Len(File) /\ tape_din \in Byte
    /\ {held, hits, reads} \subseteq Nat
    /\ {tape_wr, tape_download, machine_reset, unload} \subseteq BOOLEAN
    /\ {tape_reset, old_tape_ack, tzx_req, whole} \subseteq BOOLEAN
    /\ tape_wr => pending_addr < hps_pos

(* Every byte the HPS sent is in SDRAM at its position, or held for it: none is
   lost, overwritten or moved, also by an unload in the middle of the download. *)
Pending(n) == tape_wr /\ pending_addr = n /\ tape_din = File[n + 1]
TapeIsTheFile ==
    whole => \A n \in 0..(hps_pos - 1) : Pending(n) \/ mem[<<"tape", n>>] = File[n + 1]

(* The player hears the tape from its beginning, byte after byte, the last one
   repeated at the end (after an unload, byte 0); what was in flight before a
   restart is not heard. *)
PlaysInOrder ==
    ~tape_reset /\ reads > 0 /\ tzx_req = tape_rd_ack /\ ~unload /\ ~machine_reset
        /\ ~TapeBusy =>
      tape_dout = mem[<<"tape", IF reads - 1 < tape_queued_addr
                                THEN reads - 1 ELSE tape_queued_addr>>]
=============================================================================
