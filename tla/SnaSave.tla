------------------------------ MODULE SnaSave ------------------------------
(***************************************************************************)
(* "Save snapshot": the CPU is frozen, its registers and RAM are streamed  *)
(* into the DDR3 slot that the SSM marker's writes share a port with, and  *)
(* a host script copies the slot while the next save may already rewrite   *)
(* it.  A reset or a snapshot load aborts a save on any clock.             *)
(***************************************************************************)
EXTENDS SnaSaveCapture, SnaSaveStream, SnaDdrMux

CONSTANTS
    MaxPresses, MaxAborts, MaxWrites, MaxMarks,     \* bounds of the environment
    AbortOutlasts,      \* an abort lasts longer than a stalled DDR3 write
    HostPulls           \* whether the host script runs

ASSUME SaveAssumption ==
    /\ {MaxPresses, MaxAborts, MaxWrites, MaxMarks} \subseteq Nat
    /\ AbortOutlasts \in BOOLEAN /\ HostPulls \in BOOLEAN

Addr == (0..(Pages128 - 1)) \X (0..(PageWords - 1)) \X (0..(WordBytes - 1))
Slot == 0..(1 + LenWord(TRUE))

VARIABLES
    ram128,                                 \* model == 0
    insn_start, cen_gap, cpu, ram, rampage_ok, writes,      \* CPU and RAM
    presses, save_abort, aborts,
    cart_ack, cart_dout,                    \* the SDRAM port
    a_we, a_sent,                           \* the SSM marker's writes
    ddram_busy, slot, marks,                \* DDR3: save slot, marker words
    host,                                   \* the pull in progress
    snap, taken, published                  \* frozen state, snapshot of each
                                            \* generation, last one published

cpuVars == <<ram128, insn_start, cen_gap, cpu, ram, rampage_ok, writes>>
envVars == <<presses, save_abort, aborts>>
ddrVars == <<ddram_busy, slot, marks>>
vars == <<captureVars, streamVars, b_grant, cpuVars, envVars, cart_ack, cart_dout,
          a_we, a_sent, ddrVars, host, snap, taken, published>>

NoPull == [at |-> 0, gen |-> 0, len |-> 0, image |-> <<>>]
State == [cpu |-> cpu, ram |-> ram, ram128 |-> ram128]

Init ==
    /\ CaptureInit /\ StreamInit /\ DdrMuxInit
    /\ ram128 \in BOOLEAN
    /\ insn_start = FALSE /\ cen_gap = FALSE /\ cpu = 0 /\ rampage_ok = TRUE
    /\ ram = [c \in Addr |-> c] /\ writes = 0
    /\ presses = 0 /\ save_abort = FALSE /\ aborts = 0
    /\ cart_ack = FALSE /\ cart_dout = <<0, 0, 0>>
    /\ a_we = FALSE /\ a_sent = 0
    /\ ddram_busy = FALSE /\ slot = [w \in Slot |-> Invalid] /\ marks = 0
    /\ host = NoPull /\ snap = State
    /\ taken = [g \in 1..LastGeneration |-> State] /\ published = 0

-----------------------------------------------------------------------------
(* The CPU enables are gated by hold and more than a clock apart; an
   instruction takes effect between two starts. *)
Fresh == <<writes + 1>>
Executes ==
    /\ ~hold /\ ~save_abort /\ ~cen_gap /\ cen_gap' = TRUE
    /\ \/ ~insn_start /\ insn_start' = TRUE /\ UNCHANGED <<cpu, ram, rampage_ok, writes>>
       \/ /\ insn_start /\ insn_start' = FALSE /\ writes < MaxWrites /\ writes' = writes + 1
          /\ cpu' = cpu + 1
          /\ \/ \E c \in Addr : ram' = [ram EXCEPT ![c] = Fresh] /\ UNCHANGED rampage_ok
             \/ rampage_ok' = ~rampage_ok /\ UNCHANGED ram
(* A snapshot load rewrites RAM while it keeps the save aborted. *)
Loads ==
    /\ save_abort /\ writes < MaxWrites /\ writes' = writes + 1
    /\ \E c \in Addr : ram' = [ram EXCEPT ![c] = Fresh]
    /\ cen_gap' = FALSE /\ UNCHANGED <<insn_start, cpu, rampage_ok>>
Rests == cen_gap' = FALSE /\ UNCHANGED <<insn_start, cpu, ram, rampage_ok, writes>>
CpuStep == (Executes \/ Loads \/ Rests) /\ UNCHANGED ram128

AbortStep ==
    \/ ~save_abort /\ aborts < MaxAborts /\ save_abort' = TRUE /\ aborts' = aborts + 1
    \/ /\ save_abort /\ (AbortOutlasts => ~(ddram_we /\ ddram_busy))
       /\ save_abort' = FALSE /\ UNCHANGED aborts
    \/ UNCHANGED <<save_abort, aborts>>

(* The cartridge port of the SDRAM answers with the addressed byte. *)
CartAnswers == cart_req /\ ~cart_ack /\ cart_ack' = TRUE /\ cart_dout' = ram[cart_addr]
CartStep == CartAnswers \/ (cart_ack' = FALSE /\ UNCHANGED cart_dout)

(* The marker changes its write only when its port is not busy. *)
MarkerStep ==
    IF ABusy(ddram_busy) THEN UNCHANGED <<a_we, a_sent>>
    ELSE /\ a_sent' = IF a_we THEN a_sent + 1 ELSE a_sent
         /\ a_we' \in {b \in BOOLEAN : b => a_sent' < MaxMarks}

(* What the slave sees is the owner's write. *)
DDRAM_WE == IF b_grant THEN ddram_we ELSE a_we
DDRAM == IF b_grant THEN <<ddram_addr, ddram_din>> ELSE <<"ring", a_sent>>
DdrStep ==
    /\ ddram_busy' \in BOOLEAN
    /\ slot' = IF b_grant /\ ddram_we /\ ~ddram_busy
               THEN [slot EXCEPT ![ddram_addr] = ddram_din] ELSE slot
    /\ marks' = IF ~b_grant /\ a_we /\ ~ddram_busy THEN marks + 1 ELSE marks

-----------------------------------------------------------------------------
(* sna_pull.py: header, whole image, header again, one word at a time. *)
Valid(word) == "gen" \in DOMAIN word /\ word.gen > 0
Legal(word) == "len" \in DOMAIN word
(* Fault: the image is accepted without reading the header again. *)
PullEndUnchecked(len) == 4 + len
PullEnd(len) == 6 + len
HeaderAgain(len) == 4 + len

Word ==
    LET at == host.at
    IN IF at < 2 THEN slot[at]
       ELSE IF at < HeaderAgain(host.len) THEN slot[at - 2]
       ELSE slot[(at - HeaderAgain(host.len)) % 2]
Further == [host EXCEPT !.at = @ + 1]
HostReads ==
    LET at == host.at
    IN /\ HostPulls /\ at < PullEnd(host.len)
       /\ \/ /\ at = 0
             /\ host' = IF Valid(Word) THEN [Further EXCEPT !.gen = Word.gen] ELSE NoPull
          \/ /\ at = 1
             /\ host' = IF Legal(Word) THEN [Further EXCEPT !.len = Word.len] ELSE NoPull
          \/ /\ at \in {2, HeaderAgain(host.len)}
             /\ host' = IF Word = [gen |-> host.gen] THEN Further ELSE NoPull
          \/ /\ at \in {3, HeaderAgain(host.len) + 1}
             /\ host' = IF Word = [len |-> host.len] THEN Further ELSE NoPull
          \/ /\ at \in 4..(HeaderAgain(host.len) - 1)
             /\ host' = [Further EXCEPT !.image = Append(host.image, Word)]
HostStep == HostReads \/ UNCHANGED host

-----------------------------------------------------------------------------
CapturePorts(save_req, admit) ==
    [reset |-> save_abort, save_req |-> save_req, admit |-> admit, rampage_ok |-> rampage_ok,
     release_req |-> done, insn_start |-> insn_start, cpu |-> cpu]
StreamPorts ==
    [reset |-> save_abort, start |-> captured, ram128 |-> ram128, header |-> header,
     cart_ack |-> cart_ack, cart_dout |-> cart_dout,
     grant |-> b_grant, busy |-> BBusy(ddram_busy)]
MuxPorts ==
    [reset |-> save_abort, a_we |-> a_we, b_request |-> ddr_request, b_we |-> ddram_we]

Ghosts ==
    /\ snap' = IF capture' = "HELD" /\ capture # "HELD" THEN State ELSE snap
    /\ taken' = IF stream = "WRITE_GEN" /\ stream' = "WAIT_GEN"
                THEN [taken EXCEPT ![generation] = snap] ELSE taken
    /\ published' = IF slot' # slot /\ Valid(slot'[0]) THEN slot'[0].gen ELSE published

(* Admission is lost for many reasons, on any clock; always during an abort. *)
Next ==
    /\ \E save_req \in {b \in BOOLEAN : b => presses < MaxPresses},
          admit \in {b \in BOOLEAN : b => ~save_abort} :
         /\ CaptureClock(CapturePorts(save_req, admit))
         /\ presses' = IF save_req THEN presses + 1 ELSE presses
    /\ StreamClock(StreamPorts) /\ DdrMuxClock(MuxPorts)
    /\ CpuStep /\ AbortStep /\ CartStep /\ MarkerStep /\ DdrStep /\ HostStep
    /\ Ghosts

(* The clock ticks, DDR3 accepts a write in the end, and so does SDRAM answer. *)
NotBusy == ddram_busy' = FALSE
Fairness ==
    /\ WF_ddram_busy(NotBusy)
    /\ WF_<<cart_ack, cart_dout>>(CartAnswers)
    /\ WF_streamVars(StreamClock(StreamPorts))
    /\ WF_b_grant(DdrMuxClock(MuxPorts))
    /\ WF_<<a_we, a_sent>>(MarkerStep)
    /\ WF_captureVars(CaptureClock(CapturePorts(FALSE, FALSE)))
Spec == Init /\ [][Next]_vars
FairSpec == Spec /\ Fairness

-----------------------------------------------------------------------------
Payload(s) ==
    [i \in 0..(LenWord(s.ram128) - 1) |->
        IF i < HdrWords THEN [hdr |-> s.cpu, i |-> i]
        ELSE LET n == i - HdrWords
             IN [ram |-> [b \in 1..WordBytes |-> s.ram[<<n \div PageWords, n % PageWords, b - 1>>]]]]

(* A byte of RAM is what it was at the start or a number of a later write; a word
   of the slot is a generation, the length, a word of the header or of RAM. *)
Data == Addr \cup [1..1 -> Nat]
Machines == [cpu : Nat, ram : [Addr -> Data], ram128 : BOOLEAN]
SlotWords == [gen : Nat] \cup [len : Nat] \cup [hdr : Nat, i : Nat] \cup [ram : Seq(Data)]
CaptureTypeOK ==
    /\ capture \in {"IDLE", "ARMED", "HELD"} /\ header \in Nat
    /\ {insn_start_d, hold, captured} \subseteq BOOLEAN
StreamTypeOK ==
    /\ stream \in {"IDLE", "QUIESCE", "WAIT_GRANT", "WAIT_INVALID_GEN", "WRITE_HDR_WORD",
                   "WAIT_HDR_WORD", "RAM_REQ", "RAM_WAIT_ACK", "WRITE_RAM_WORD",
                   "WAIT_RAM_WORD", "WRITE_LEN", "WAIT_LEN", "WRITE_GEN", "WAIT_GEN"}
    /\ {hdr_word_idx, ram_page, ram_offset, byte_idx, payload_word_idx} \subseteq Nat
    /\ word_buf \in Seq(Data) /\ cart_addr \in Addr
    /\ ddram_addr \in Slot /\ ddram_din \in SlotWords /\ generation \in 1..LastGeneration
    /\ {saved_ram128, cart_req, ddr_request, ddram_we, done} \subseteq BOOLEAN
TypeOK ==
    /\ CaptureTypeOK /\ StreamTypeOK
    /\ {b_grant, ram128, insn_start, cen_gap, rampage_ok, save_abort} \subseteq BOOLEAN
    /\ {cart_ack, a_we, ddram_busy} \subseteq BOOLEAN
    /\ cpu \in Nat /\ writes \in Nat /\ ram \in [Addr -> Data] /\ presses \in 0..MaxPresses
    /\ cart_dout \in Data /\ a_sent \in Nat /\ slot \in [Slot -> SlotWords] /\ marks \in Nat
    /\ snap \in Machines /\ taken \in [1..LastGeneration -> Machines]
    /\ published \in 0..LastGeneration

(* "Word 0 carries an explicit invalid generation while a save is in" progress:
   whenever it carries a valid one, length and payload are exactly the state
   that was frozen for that generation, header and RAM of one instant. *)
PublishedIsSnapshot ==
    Valid(slot[0]) =>
      LET s == taken[slot[0].gen]
          p == Payload(s)
      IN /\ slot[1] = [len |-> LenWord(s.ram128)]
         /\ \A i \in DOMAIN p : slot[2 + i] = p[i]

(* A pull that the script accepts is one snapshot, however many saves and
   aborts happened while it was copied. *)
PullIsOneSnapshot ==
    host.at > 0 /\ host.at = PullEnd(host.len) =>
      LET p == Payload(taken[host.gen])
      IN /\ host.len = Len(host.image) /\ host.len = LenWord(taken[host.gen].ram128)
         /\ \A i \in DOMAIN p : host.image[i + 1] = p[i]

(* "the host detects a new save by a changed generation": also across resets
   that catch the last write on its way. *)
NewSaveNewGeneration ==
    [][slot' # slot /\ Valid(slot'[0]) => slot'[0].gen # published]_vars

(* Avalon: a write the slave stalls stays as it is, whoever presents it, through
   resets, loads and changes of owner. *)
StalledWriteHeld ==
    [][DDRAM_WE /\ ddram_busy => DDRAM_WE' /\ DDRAM' = DDRAM]_vars

(* Every write the marker takes for accepted is in its ring, and no other. *)
MarkerWritesLand == marks = a_sent

(* The machine is always let go, and the marker gets its port back. *)
CpuReleased == hold ~> ~hold
MarkerServed == a_we ~> ~ABusy(ddram_busy)
=============================================================================
