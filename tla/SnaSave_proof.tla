--------------------------- MODULE SnaSave_proof ---------------------------
(***************************************************************************)
(* Proofs about SnaSave for every size of header, page and word, every     *)
(* number of generations and every bound of the environment: what a        *)
(* published generation says of the slot, what a pull that the script      *)
(* accepts has copied, and the shared DDR3 port.                           *)
(***************************************************************************)
EXTENDS SnaSave, SequenceTheorems, TLAPS

(* The handshakes between capture, stream and the two multiplexed ports. *)
Works == stream \notin {"IDLE", "QUIESCE"}
Waits == {"WAIT_INVALID_GEN", "WAIT_HDR_WORD", "WAIT_RAM_WORD", "WAIT_LEN", "WAIT_GEN"}
ControlInv ==
    /\ hold <=> capture = "HELD"
    /\ captured => capture = "HELD" /\ ~Works /\ ~done
    /\ Works => capture = "HELD"
    /\ done => stream = "IDLE"
    /\ ddram_we <=> stream \in Waits \cup {"QUIESCE"}
    /\ stream \notin {"IDLE", "WAIT_GRANT"} => b_grant
    /\ stream # "IDLE" => ddr_request
    /\ cart_req <=> stream = "RAM_WAIT_ACK"
    /\ cart_ack => stream \in {"IDLE", "RAM_WAIT_ACK"}

(* While a capture is held the machine is what was frozen.  An armed capture
   sees an instruction start only in the clock after the CPU's enable. *)
FrozenInv ==
    /\ capture = "HELD" => snap = State /\ header = snap.cpu
    /\ capture = "ARMED" /\ insn_start /\ ~insn_start_d => cen_gap
    /\ stream = "RAM_WAIT_ACK" /\ cart_ack => cart_dout = snap.ram[cart_addr]

(* How much of the frozen machine each state of the stream has written. *)
HdrStates == {"WRITE_HDR_WORD", "WAIT_HDR_WORD"}
RamStates == {"RAM_REQ", "RAM_WAIT_ACK", "WRITE_RAM_WORD", "WAIT_RAM_WORD"}
Saved(n) == \A i \in 0..(n - 1) : slot[2 + i] = Payload(snap)[i]
Bytes(n) ==
    /\ Len(word_buf) >= n
    /\ \A b \in 1..n : word_buf[b] = snap.ram[<<ram_page, ram_offset, b - 1>>]
InFlight(addr, word) == ddram_addr = addr /\ ddram_din = word
RamInv ==
    /\ ram_page < Pages /\ ram_offset < PageWords /\ byte_idx < WordBytes
    /\ payload_word_idx = HdrWords + ram_page * PageWords + ram_offset
    /\ Saved(payload_word_idx)
    /\ stream \in {"RAM_REQ", "RAM_WAIT_ACK"} => Bytes(byte_idx)
    /\ stream = "RAM_WAIT_ACK" => cart_addr = <<ram_page, ram_offset, byte_idx>>
    /\ stream = "WRITE_RAM_WORD" => Len(word_buf) = WordBytes /\ Bytes(WordBytes)
    /\ stream = "WAIT_RAM_WORD" => InFlight(2 + payload_word_idx, Payload(snap)[payload_word_idx])
ProgressInv ==
    /\ Works => saved_ram128 = snap.ram128
    /\ Works /\ stream \notin {"WAIT_GRANT", "WAIT_INVALID_GEN"} => slot[0] = Invalid
    /\ stream = "WAIT_INVALID_GEN" => InFlight(0, Invalid)
    /\ stream \in HdrStates => hdr_word_idx < HdrWords /\ Saved(hdr_word_idx)
    /\ stream = "WAIT_HDR_WORD" => InFlight(2 + hdr_word_idx, Payload(snap)[hdr_word_idx])
    /\ stream \in RamStates => RamInv
    /\ stream \in {"WRITE_LEN", "WAIT_LEN", "WRITE_GEN"} => Saved(LenWord(snap.ram128))
    /\ stream = "WAIT_LEN" => InFlight(1, [len |-> LenWord(snap.ram128)])
    /\ stream = "WRITE_GEN" => slot[1] = [len |-> LenWord(snap.ram128)]
    /\ stream = "WAIT_GEN" => ddram_addr = 0 /\ Valid(ddram_din)

(* A generation in the slot, or on its way to it even past a reset, is that of a
   complete snapshot; any other write on its way finds the slot invalid. *)
Complete(g) ==
    /\ slot[1] = [len |-> LenWord(taken[g].ram128)]
    /\ \A i \in 0..(LenWord(taken[g].ram128) - 1) : slot[2 + i] = Payload(taken[g])[i]
Generations == [gen : 0..LastGeneration]
SlotInv ==
    /\ slot[0] \in Generations /\ (Valid(slot[0]) => Complete(slot[0].gen))
    /\ ddram_we /\ ddram_addr = 0 =>
         ddram_din \in Generations /\ (Valid(ddram_din) => Complete(ddram_din.gen))
    /\ ddram_we /\ ddram_addr # 0 => slot[0] = Invalid

IInv == TypeOK /\ ControlInv /\ FrozenInv /\ ProgressInv /\ SlotInv

-----------------------------------------------------------------------------
(* With more than one generation, the one on its way is neither the one published
   last nor the next one. *)
GenInFlight == ddram_we /\ ddram_addr = 0 /\ Valid(ddram_din)
GenInv ==
    /\ IF GenInFlight THEN ddram_din.gen \notin {published, generation}
                      ELSE published # generation
    /\ Valid(slot[0]) => slot[0].gen = published

(* With more generations than saves, none is used twice. *)
Unissued == capture = "ARMED" \/ (capture = "HELD" /\ stream # "WAIT_GEN" /\ ~done)
CountInv ==
    /\ generation - 1 + (IF Unissued THEN 1 ELSE 0) <= presses
    /\ published < generation
    /\ GenInFlight => ddram_din.gen = generation - 1 /\ published < generation - 1

(* Word 1 of the slot, once it is a length, is one of the two lengths. *)
Long == LenWord(TRUE)
Short == LenWord(FALSE)
LenWords == [len : {Long, Short}]
LenInv ==
    /\ Legal(slot[1]) => slot[1] \in LenWords
    /\ ddram_we /\ ddram_addr = 1 => ddram_din \in LenWords

(* A pull that still sees its generation has copied its snapshot so far. *)
Pulls == [at : Nat, gen : 0..LastGeneration, len : {0, Long, Short},
          image : Seq(SlotWords)]
Copied(g) ==
    /\ host.at >= 2 => host.len = LenWord(taken[g].ram128)
    /\ \A k \in 1..Len(host.image) : host.image[k] = Payload(taken[g])[k - 1]
Current == (host.gen = published /\ Valid(slot[0])) \/ host.at > HeaderAgain(host.len)
PullInv ==
    /\ host \in Pulls
    /\ Len(host.image) = IF host.at < 4 THEN 0
                         ELSE IF host.at < 4 + host.len THEN host.at - 4 ELSE host.len
    /\ host.at < 2 => host.len = 0
    /\ host.at > 0 => host.gen \in 1..published /\ (Current => Copied(host.gen))

-----------------------------------------------------------------------------
(* Arithmetic of the payload: page p and offset o of a word of RAM. *)
LEMMA PageIndex ==
    ASSUME NEW w \in Int, w > 0, NEW p \in Int, NEW o \in Int, 0 <= o, o < w
    PROVE  (p * w + o) \div w = p /\ (p * w + o) % w = o
<1> DEFINE n == p * w + o
           q == n \div w
           r == n % w
<1>1. n \in Int /\ q \in Int /\ r \in 0..(w - 1)
  OBVIOUS
<1>2. n = w * q + r
  <2>1. n \in Int
    OBVIOUS
  <2> HIDE DEF n
  <2> QED BY <2>1
<1>3. w * (q - p) = o - r
  <2>1. w * (q - p) = w * q - w * p
    BY <1>1
  <2>2. w * p = p * w /\ w * p \in Int /\ w * q \in Int
    BY <1>1
  <2> QED BY <1>1, <1>2, <2>1, <2>2
<1> HIDE DEF n, q, r
<1>4. ~(q - p >= 1)
  <2>1. ASSUME q - p >= 1 PROVE w * (q - p) >= w
    <3> DEFINE d == q - p
    <3>1. d \in Int /\ d >= 1
      BY <1>1, <2>1
    <3> HIDE DEF d
    <3>2. w * d >= w
      BY <3>1
    <3> QED BY <3>2 DEF d
  <2> QED BY <1>1, <1>3, <2>1
<1>5. ~(p - q >= 1)
  <2>1. ASSUME p - q >= 1 PROVE w * (p - q) >= w
    <3> DEFINE d == p - q
    <3>1. d \in Int /\ d >= 1
      BY <1>1, <2>1
    <3> HIDE DEF d
    <3>2. w * d >= w
      BY <3>1
    <3> QED BY <3>2 DEF d
  <2>2. w * (p - q) = 0 - w * (q - p)
    BY <1>1
  <2> QED BY <1>1, <1>3, <2>1, <2>2
<1>6. q = p
  BY <1>1, <1>4, <1>5
<1>7. r = o
  BY <1>1, <1>3, <1>6
<1> QED BY <1>6, <1>7 DEF n, q, r

LEMMA PageBound ==
    ASSUME NEW w \in Int, w > 0, NEW ps \in Int, NEW p \in Int, p < ps,
           NEW o \in Int, o < w
    PROVE  p * w + o < ps * w
<1> DEFINE d == ps - 1 - p
<1>1. d \in Int /\ d >= 0
  OBVIOUS
<1>2. ps * w = p * w + w + d * w
  OBVIOUS
<1> HIDE DEF d
<1>3. d * w >= 0
  BY <1>1
<1>4. d * w \in Int /\ p * w \in Int /\ ps * w \in Int
  BY <1>1
<1> QED BY <1>2, <1>3, <1>4

LEMMA Sizes ==
    /\ {HdrWords, Pages128, Pages64, PageWords, WordBytes, LastGeneration} \subseteq Nat
    /\ HdrWords > 0 /\ Pages128 > 0 /\ Pages64 > 0 /\ PageWords > 0 /\ WordBytes > 0
    /\ LastGeneration > 1
    /\ Pages \in Nat /\ Pages > 0 /\ Pages <= Pages128
    /\ \A b \in BOOLEAN : LenWord(b) \in Nat /\ LenWord(b) > HdrWords /\ LenWord(b) <= LenWord(TRUE)
    /\ LenWord(saved_ram128) = HdrWords + PageWords * Pages
<1>1. /\ {HdrWords, Pages128, Pages64, PageWords, WordBytes, LastGeneration} \subseteq Nat
      /\ HdrWords > 0 /\ Pages128 > 0 /\ Pages64 > 0 /\ PageWords > 0 /\ WordBytes > 0
      /\ LastGeneration > 1
  BY StreamAssumption
<1>2. Pages64 < Pages128
  BY StreamAssumption
<1>3. Pages \in Nat /\ Pages > 0 /\ Pages <= Pages128
  BY <1>1, <1>2 DEF Pages
<1>4. ASSUME NEW b \in BOOLEAN
      PROVE  LenWord(b) \in Nat /\ LenWord(b) > HdrWords /\ LenWord(b) <= LenWord(TRUE)
  <2>1. PageWords * Pages64 \in Nat /\ PageWords * Pages128 \in Nat
    BY <1>1
  <2>2. PageWords * Pages64 > 0
    <3>1. PageWords \in Int /\ Pages64 \in Int /\ PageWords > 0 /\ Pages64 > 0
      BY <1>1
    <3> QED BY <3>1
  <2>3. PageWords * Pages128 = PageWords * Pages64 + PageWords * (Pages128 - Pages64)
    BY <1>1
  <2>4. PageWords * (Pages128 - Pages64) > 0
    <3> DEFINE d == Pages128 - Pages64
    <3>1. d \in Int /\ d > 0 /\ PageWords \in Int /\ PageWords > 0
      BY <1>1, <1>2
    <3> HIDE DEF d
    <3>2. PageWords * d > 0
      BY <3>1
    <3> QED BY <3>2 DEF d
  <2>5. PageWords * (Pages128 - Pages64) \in Int
    BY <1>1
  <2> HIDE DEF Pages
  <2> QED BY <1>1, <2>1, <2>2, <2>3, <2>4, <2>5 DEF LenWord
<1>5. LenWord(saved_ram128) = HdrWords + PageWords * Pages
  BY DEF LenWord, Pages
<1> QED BY <1>1, <1>3, <1>4, <1>5

LEMMA SlotIndex ==
    /\ 0 \in Slot /\ 1 \in Slot
    /\ \A b \in BOOLEAN, n \in Nat : n < LenWord(b) => 2 + n \in Slot
    /\ \A n \in Nat : 2 + n \in Slot => \A i \in 0..n : 2 + i \in Slot
<1> DEFINE top == LenWord(TRUE)
<1>1. top \in Nat /\ top > HdrWords /\ HdrWords \in Nat /\ HdrWords > 0
  BY Sizes
<1>2. Slot = 0..(1 + top)
  BY DEF Slot
<1>3. \A b \in BOOLEAN : LenWord(b) \in Nat /\ LenWord(b) <= top
  BY Sizes
<1> HIDE DEF top
<1>4. ASSUME NEW b \in BOOLEAN, NEW n \in Nat, n < LenWord(b) PROVE 2 + n \in Slot
  <2>1. n < top
    BY <1>1, <1>3, <1>4
  <2> QED BY <1>1, <1>2, <2>1
<1>5. ASSUME NEW n \in Nat, 2 + n \in Slot, NEW i \in 0..n PROVE 2 + i \in Slot
  BY <1>1, <1>2, <1>5
<1> QED BY <1>1, <1>2, <1>4, <1>5

-----------------------------------------------------------------------------
(* What the ports carry, and what a clock does to the capture. *)
LEMMA Sampled ==
    /\ StreamPorts.reset = save_abort /\ StreamPorts.start = captured
    /\ StreamPorts.ram128 = ram128 /\ StreamPorts.header = header
    /\ StreamPorts.cart_ack = cart_ack /\ StreamPorts.cart_dout = cart_dout
    /\ StreamPorts.grant = b_grant /\ StreamPorts.busy = BBusy(ddram_busy)
    /\ MuxPorts.reset = save_abort /\ MuxPorts.a_we = a_we
    /\ MuxPorts.b_request = ddr_request /\ MuxPorts.b_we = ddram_we
  BY DEF StreamPorts, MuxPorts

CaptureAborts ==
    /\ save_abort /\ capture' = "IDLE" /\ insn_start_d' = FALSE
    /\ hold' = FALSE /\ captured' = FALSE /\ header' = NoHeader
CaptureHolds ==
    /\ capture = "HELD" /\ ~done /\ capture' = "HELD" /\ captured' = FALSE
    /\ UNCHANGED <<hold, header>>
CaptureEnds ==
    /\ capture = "HELD" /\ done /\ capture' = "IDLE" /\ hold' = FALSE /\ captured' = FALSE
    /\ UNCHANGED header
CaptureFreezes ==
    /\ capture = "ARMED" /\ insn_start /\ ~insn_start_d
    /\ capture' = "HELD" /\ hold' = TRUE /\ captured' = TRUE /\ header' = cpu
    /\ presses' = presses
CaptureApart ==
    /\ capture # "HELD" /\ capture' \in {"IDLE", "ARMED"} /\ captured' = FALSE
    /\ UNCHANGED <<hold, header>>
    /\ capture' = "ARMED" => IF capture = "IDLE" THEN presses' = presses + 1
                                                 ELSE presses' = presses
LEMMA CaptureCases ==
    ASSUME TypeOK, Next
    PROVE  /\ \/ CaptureAborts
              \/ /\ ~save_abort /\ insn_start_d' = insn_start
                 /\ CaptureHolds \/ CaptureEnds \/ CaptureFreezes \/ CaptureApart
           /\ presses' \in {presses, presses + 1}
           /\ presses' \in 0..MaxPresses
<1> PICK save_req \in {b \in BOOLEAN : b => presses < MaxPresses},
         admit \in {b \in BOOLEAN : b => ~save_abort} :
      /\ CaptureClock(CapturePorts(save_req, admit))
      /\ presses' = IF save_req THEN presses + 1 ELSE presses
  BY DEF Next
<1> DEFINE in == CapturePorts(save_req, admit)
<1>1. /\ in.reset = save_abort /\ in.save_req = save_req /\ in.admit = admit
      /\ in.rampage_ok = rampage_ok /\ in.release_req = done
      /\ in.insn_start = insn_start /\ in.cpu = cpu
  BY DEF CapturePorts
<1>2. CaptureClock(in)
  OBVIOUS
<1> HIDE DEF in
<1>3. /\ capture \in {"IDLE", "ARMED", "HELD"} /\ presses \in 0..MaxPresses
      /\ save_req \in BOOLEAN /\ (save_req => presses < MaxPresses) /\ MaxPresses \in Nat
      /\ done \in BOOLEAN
  BY SaveAssumption DEF TypeOK, CaptureTypeOK, StreamTypeOK
<1>4. presses' \in {presses, presses + 1} /\ presses' \in 0..MaxPresses
  BY <1>3
<1>5. CASE CaptureReset(in)
  BY <1>1, <1>4, <1>5 DEF CaptureReset, CaptureAborts
<1>6. CASE /\ ~in.reset /\ insn_start_d' = in.insn_start
           /\ Ask(in) \/ Cancel(in) \/ Freeze(in) \/ Release(in) \/ CaptureWaits(in)
  <2>1. ~save_abort /\ insn_start_d' = insn_start
    BY <1>1, <1>6
  <2>2. CASE Ask(in)
    BY <1>1, <1>3, <1>4, <2>1, <2>2 DEF Ask, CaptureApart
  <2>3. CASE Cancel(in)
    BY <1>1, <1>3, <1>4, <2>1, <2>3 DEF Cancel, CaptureApart
  <2>4. CASE Freeze(in)
    BY <1>1, <1>3, <1>4, <2>1, <2>4 DEF Freeze, Boundary, CaptureFreezes, CaptureApart
  <2>5. CASE Release(in)
    BY <1>1, <1>3, <1>4, <2>1, <2>5 DEF Release, CaptureEnds
  <2>6. CASE CaptureWaits(in)
    BY <1>1, <1>3, <1>4, <2>1, <2>6 DEF CaptureWaits, Boundary, CaptureHolds, CaptureApart
  <2> QED BY <1>6, <2>2, <2>3, <2>4, <2>5, <2>6
<1> QED BY <1>2, <1>5, <1>6 DEF CaptureClock

-----------------------------------------------------------------------------
LEMMA ControlStep ==
    ASSUME TypeOK, ControlInv, Next
    PROVE  ControlInv'
<1> DEFINE in == StreamPorts
<1>1. /\ in.reset = save_abort /\ in.start = captured /\ in.cart_ack = cart_ack
      /\ in.grant = b_grant /\ in.busy = BBusy(ddram_busy)
  BY Sampled
<1>2. StreamClock(in) /\ CartStep
  BY DEF Next
<1> HIDE DEF in
<1>3. /\ capture \in {"IDLE", "ARMED", "HELD"} /\ {hold, captured, done} \subseteq BOOLEAN
      /\ stream \in {"IDLE", "QUIESCE", "WAIT_GRANT", "WAIT_INVALID_GEN", "WRITE_HDR_WORD",
                   "WAIT_HDR_WORD", "RAM_REQ", "RAM_WAIT_ACK", "WRITE_RAM_WORD",
                   "WAIT_RAM_WORD", "WRITE_LEN", "WAIT_LEN", "WRITE_GEN", "WAIT_GEN"}
      /\ {cart_req, ddr_request, ddram_we, b_grant, cart_ack} \subseteq BOOLEAN
  BY DEF TypeOK, CaptureTypeOK, StreamTypeOK
<1>4. (hold <=> capture = "HELD")'
  <2>1. CASE CaptureAborts
    BY <2>1 DEF CaptureAborts
  <2>2. CASE CaptureHolds \/ CaptureEnds \/ CaptureFreezes
    BY <1>3, <2>2 DEF ControlInv, CaptureHolds, CaptureEnds, CaptureFreezes
  <2>3. CASE CaptureApart
    BY <1>3, <2>3 DEF ControlInv, CaptureApart
  <2> QED BY <2>1, <2>2, <2>3, CaptureCases
(* One row per state of the stream. *)
<1> DEFINE Row ==
      /\ (Works' => ~save_abort /\ (Works \/ (captured /\ stream = "IDLE")))
      /\ (done' => stream' = "IDLE" /\ Works)
      /\ (ddram_we' <=> stream' \in Waits \cup {"QUIESCE"})
      /\ (stream' \notin {"IDLE", "WAIT_GRANT"} =>
             b_grant /\ ddr_request /\ (save_abort => ddram_we))
      /\ (stream' # "IDLE" => ddr_request')
      /\ (cart_req' <=> stream' = "RAM_WAIT_ACK")
      /\ (stream = "RAM_WAIT_ACK" /\ ~cart_ack => stream' \in {"IDLE", "RAM_WAIT_ACK"})
<1>5. Row
  <2> USE <1>1, <1>3 DEF ControlInv, Works, Waits, Published, Taken, Put, Accepted, writeVars,
      cartVars, indexVars
  <2>1. CASE StreamReset(in)
    BY <2>1 DEF StreamReset, Stalled, BBusy
  <2>2. CASE Quiesce(in)
    BY <2>2 DEF Quiesce
  <2>3. CASE ~in.reset /\ done' = Published(in) /\ StreamIdle(in)
    BY <2>3 DEF StreamIdle
  <2>4. CASE ~in.reset /\ done' = Published(in) /\ WaitGrant(in)
    BY <2>4 DEF WaitGrant, PutInvalid
  <2>5. CASE ~in.reset /\ done' = Published(in) /\ WaitInvalidGen(in)
    BY <2>5 DEF WaitInvalidGen
  <2>6. CASE ~in.reset /\ done' = Published(in) /\ WriteHdrWord(in)
    BY <2>6 DEF WriteHdrWord
  <2>7. CASE ~in.reset /\ done' = Published(in) /\ WaitHdrWord(in)
    <3>1. /\ stream = "WAIT_HDR_WORD" /\ cart_req' = cart_req /\ ddr_request' = ddr_request
          /\ ~done' /\ ~save_abort
          /\ \/ stream' = "WAIT_HDR_WORD" /\ ddram_we' = ddram_we
             \/ stream' = "RAM_REQ" /\ ddram_we' = FALSE
             \/ stream' = "WRITE_HDR_WORD" /\ ddram_we' = FALSE
      BY <2>7 DEF WaitHdrWord
    <3>2. ~cart_req /\ ddram_we /\ b_grant /\ ddr_request
      BY <3>1
    <3>3. CASE stream' = "WAIT_HDR_WORD" /\ ddram_we' = ddram_we
      BY <3>1, <3>2, <3>3
    <3>4. CASE stream' = "RAM_REQ" /\ ddram_we' = FALSE
      BY <3>1, <3>2, <3>4
    <3>5. CASE stream' = "WRITE_HDR_WORD" /\ ddram_we' = FALSE
      BY <3>1, <3>2, <3>5
    <3> QED BY <3>1, <3>3, <3>4, <3>5
  <2>8. CASE ~in.reset /\ done' = Published(in) /\ RamReq(in)
    BY <2>8 DEF RamReq
  <2>9. CASE ~in.reset /\ done' = Published(in) /\ RamWaitAck(in)
    BY <2>9 DEF RamWaitAck
  <2>10. CASE ~in.reset /\ done' = Published(in) /\ WriteRamWord(in)
    BY <2>10 DEF WriteRamWord
  <2>11. CASE ~in.reset /\ done' = Published(in) /\ WaitRamWord(in)
    BY <2>11 DEF WaitRamWord
  <2>12. CASE ~in.reset /\ done' = Published(in) /\ WriteLen(in)
    BY <2>12 DEF WriteLen
  <2>13. CASE ~in.reset /\ done' = Published(in) /\ WaitLen(in)
    BY <2>13 DEF WaitLen
  <2>14. CASE ~in.reset /\ done' = Published(in) /\ WriteGen(in)
    BY <2>14 DEF WriteGen
  <2>15. CASE ~in.reset /\ done' = Published(in) /\ WaitGen(in)
    BY <2>15 DEF WaitGen
  <2> QED BY <1>2, <2>1, <2>2, <2>3, <2>4, <2>5, <2>6, <2>7, <2>8, <2>9, <2>10, <2>11,
             <2>12, <2>13, <2>14, <2>15 DEF StreamClock
<1> HIDE DEF Row
<1>6. (captured => capture = "HELD" /\ ~Works /\ ~done)'
  BY <1>3, <1>5, CaptureCases DEF Row, Works, ControlInv, CaptureAborts, CaptureHolds, CaptureEnds,
     CaptureFreezes, CaptureApart
<1>7. (Works => capture = "HELD")'
  BY <1>3, <1>5, CaptureCases DEF Row, Works, ControlInv, CaptureAborts, CaptureHolds, CaptureEnds,
     CaptureFreezes, CaptureApart
<1>8. (done => stream = "IDLE")' /\ (ddram_we <=> stream \in Waits \cup {"QUIESCE"})'
      /\ (stream # "IDLE" => ddr_request)' /\ (cart_req <=> stream = "RAM_WAIT_ACK")'
  BY <1>5 DEF Row, Waits
<1>9. (stream \notin {"IDLE", "WAIT_GRANT"} => b_grant)'
  BY <1>3, <1>5, Sampled DEF Row, Next, DdrMuxClock, TakeBack
<1>10. (cart_ack => stream \in {"IDLE", "RAM_WAIT_ACK"})'
  BY <1>2, <1>3, <1>5 DEF Row, ControlInv, CartStep, CartAnswers
<1> QED BY <1>4, <1>6, <1>7, <1>8, <1>9, <1>10 DEF ControlInv

-----------------------------------------------------------------------------
(* The types. *)
LEMMA CaptureType ==
    ASSUME TypeOK, Next
    PROVE  CaptureTypeOK' /\ presses' \in 0..MaxPresses
<1>1. /\ {insn_start, insn_start_d, hold, captured} \subseteq BOOLEAN
      /\ capture \in {"IDLE", "ARMED", "HELD"} /\ header \in Nat /\ cpu \in Nat
  BY DEF TypeOK, CaptureTypeOK
<1>2. CASE CaptureAborts
  BY <1>2, CaptureCases DEF CaptureTypeOK, CaptureAborts, NoHeader
<1>3. CASE /\ ~save_abort /\ insn_start_d' = insn_start
           /\ CaptureHolds \/ CaptureEnds \/ CaptureFreezes \/ CaptureApart
  <2>1. capture' \in {"IDLE", "ARMED", "HELD"} /\ header' \in Nat
    BY <1>1, <1>3 DEF CaptureHolds, CaptureEnds, CaptureFreezes, CaptureApart
  <2>2. captured' \in BOOLEAN /\ insn_start_d' \in BOOLEAN
    BY <1>1, <1>3 DEF CaptureHolds, CaptureEnds, CaptureFreezes, CaptureApart
  <2>3. hold' = hold \/ hold' \in BOOLEAN
    BY <1>3 DEF CaptureHolds, CaptureEnds, CaptureFreezes, CaptureApart
  <2> QED BY <1>1, <2>1, <2>2, <2>3, CaptureCases DEF CaptureTypeOK
<1> QED BY <1>2, <1>3, CaptureCases

LEMMA CpuType ==
    ASSUME TypeOK, CpuStep
    PROVE  /\ {ram128', insn_start', cen_gap', rampage_ok'} \subseteq BOOLEAN
           /\ cpu' \in Nat /\ writes' \in Nat /\ ram' \in [Addr -> Data]
<1>1. /\ {ram128, insn_start, cen_gap, rampage_ok} \subseteq BOOLEAN
      /\ cpu \in Nat /\ writes \in Nat /\ ram \in [Addr -> Data]
  BY DEF TypeOK
<1>2. Fresh \in Data
  <2>1. writes + 1 \in Nat
    BY <1>1
  <2>2. <<writes + 1>> \in [1..1 -> Nat]
    BY <2>1
  <2> QED BY <2>2 DEF Fresh, Data
<1>3. \A c \in Addr : [ram EXCEPT ![c] = Fresh] \in [Addr -> Data]
  BY <1>1, <1>2
<1>4. CASE Executes
  <2>1. cen_gap' \in BOOLEAN /\ insn_start' \in BOOLEAN /\ rampage_ok' \in BOOLEAN
    BY <1>1, <1>4 DEF Executes
  <2>5. cpu' \in {cpu, cpu + 1} /\ writes' \in {writes, writes + 1}
    BY <1>4 DEF Executes
  <2>2. ram' = ram \/ \E c \in Addr : ram' = [ram EXCEPT ![c] = Fresh]
    BY <1>4 DEF Executes
  <2>3. ram128' = ram128
    BY DEF CpuStep
  <2>4. ram' \in [Addr -> Data]
    BY <1>1, <1>3, <2>2
  <2>6. cpu' \in Nat /\ writes' \in Nat
    BY <1>1, <2>5
  <2>7. ram128' \in BOOLEAN
    BY <1>1, <2>3
  <2> QED BY <2>1, <2>4, <2>6, <2>7
<1>5. CASE Loads
  <2>1. cen_gap' \in BOOLEAN /\ insn_start' \in BOOLEAN /\ rampage_ok' \in BOOLEAN
    BY <1>1, <1>5 DEF Loads
  <2>3. cpu' \in Nat /\ writes' \in Nat
    BY <1>1, <1>5 DEF Loads
  <2>5. ram128' \in BOOLEAN
    BY <1>1 DEF CpuStep
  <2>2. \E c \in Addr : ram' = [ram EXCEPT ![c] = Fresh]
    BY <1>5 DEF Loads
  <2>4. ram' \in [Addr -> Data]
    BY <1>1, <1>3, <2>2
  <2> QED BY <2>1, <2>3, <2>4, <2>5
<1>6. CASE Rests
  BY <1>1, <1>6 DEF Rests, CpuStep
<1> QED BY <1>4, <1>5, <1>6 DEF CpuStep

LEMMA StreamType ==
    ASSUME TypeOK, ControlInv, ProgressInv, Next
    PROVE  StreamTypeOK'
<1> DEFINE in == StreamPorts
<1>1. /\ in.reset = save_abort /\ in.start = captured /\ in.cart_ack = cart_ack
      /\ in.grant = b_grant /\ in.busy = BBusy(ddram_busy)
      /\ in.header = header /\ in.ram128 = ram128 /\ in.cart_dout = cart_dout
  BY Sampled
<1>2. StreamClock(in)
  BY DEF Next
<1> HIDE DEF in
<1>3. StreamTypeOK /\ header \in Nat /\ ram128 \in BOOLEAN /\ cart_dout \in Data
  BY DEF TypeOK, CaptureTypeOK
<1>0. /\ HdrWords \in Nat /\ PageWords \in Nat /\ WordBytes \in Nat /\ Pages128 \in Nat
      /\ LastGeneration \in Nat
      /\ HdrWords > 0 /\ PageWords > 0 /\ WordBytes > 0 /\ Pages128 > 0 /\ LastGeneration > 0
      /\ Pages \in Nat /\ Pages <= Pages128
  BY Sizes
<1>4. /\ 0 \in Slot /\ 1 \in Slot
      /\ stream \in HdrStates => 2 + hdr_word_idx \in Slot
      /\ stream \in RamStates =>
           /\ 2 + payload_word_idx \in Slot
           /\ ram_page \in 0..(Pages128 - 1) /\ ram_offset \in 0..(PageWords - 1)
           /\ byte_idx \in 0..(WordBytes - 1)
           /\ payload_word_idx < LenWord(saved_ram128)
  <2> DEFINE top == LenWord(TRUE)
  <2>0. top \in Nat /\ top > HdrWords /\ HdrWords \in Nat /\ HdrWords > 0
    BY Sizes
  <2>5. Slot = 0..(1 + top)
    BY DEF Slot
  <2> HIDE DEF top
  <2>1. 0 \in Slot /\ 1 \in Slot
    BY <2>0, <2>5
  <2>2. stream \in HdrStates => 2 + hdr_word_idx \in Slot
    BY <2>0, <2>5, <1>3 DEF ProgressInv, StreamTypeOK
  <2>3. ASSUME stream \in RamStates
        PROVE  /\ 2 + payload_word_idx \in Slot
               /\ ram_page \in 0..(Pages128 - 1) /\ ram_offset \in 0..(PageWords - 1)
               /\ byte_idx \in 0..(WordBytes - 1)
               /\ payload_word_idx < LenWord(saved_ram128)
    <3>1. /\ ram_page \in Nat /\ ram_offset \in Nat /\ byte_idx \in Nat
          /\ ram_page < Pages /\ ram_offset < PageWords /\ byte_idx < WordBytes
          /\ payload_word_idx = HdrWords + ram_page * PageWords + ram_offset
          /\ saved_ram128 \in BOOLEAN
      BY <1>3, <2>3 DEF ProgressInv, RamInv, StreamTypeOK
    <3>2. ram_page * PageWords + ram_offset < Pages * PageWords
      BY <1>0, <3>1, PageBound
    <3>3. /\ ram_page * PageWords \in Nat /\ Pages * PageWords \in Nat
          /\ Pages * PageWords = PageWords * Pages
      BY <1>0, <3>1
    <3>4. payload_word_idx \in Nat /\ payload_word_idx < LenWord(saved_ram128)
      BY <1>0, <3>1, <3>2, <3>3, Sizes
    <3>5. LenWord(saved_ram128) <= top /\ LenWord(saved_ram128) \in Nat
      BY <3>1, Sizes DEF top
    <3>6. 2 + payload_word_idx \in Slot
      <4>1. payload_word_idx < top
        BY <2>0, <3>4, <3>5
      <4> QED BY <2>0, <2>5, <3>4, <4>1
    <3> QED BY <1>0, <3>1, <3>4, <3>6
  <2> QED BY <2>1, <2>2, <2>3
<1>5. \A idx \in Nat : [hdr |-> header, i |-> idx] \in SlotWords
  BY <1>3 DEF SlotWords
<1>6. /\ Invalid \in SlotWords /\ [len |-> LenWord(saved_ram128)] \in SlotWords
      /\ [gen |-> generation] \in SlotWords /\ [ram |-> word_buf] \in SlotWords
  <2>1. saved_ram128 \in BOOLEAN /\ generation \in Nat /\ word_buf \in Seq(Data)
    BY <1>3 DEF StreamTypeOK
  <2>2. LenWord(saved_ram128) \in Nat
    BY <2>1, Sizes
  <2> QED BY <2>1, <2>2 DEF SlotWords, Invalid
<1>7. NextGeneration \in 1..LastGeneration
  BY <1>0, <1>3 DEF NextGeneration, StreamTypeOK
<1>8. CASE StreamReset(in)
  BY <1>3, <1>8 DEF StreamReset, writeVars, indexVars, StreamTypeOK
<1>9. CASE Quiesce(in)
  BY <1>3, <1>9 DEF Quiesce, indexVars, cartVars, StreamTypeOK
<1>10. CASE ~in.reset /\ done' = Published(in) /\ stream = "RAM_WAIT_ACK" /\ RamWaitAck(in)
  <2>1. CASE in.cart_ack
    <3>1. word_buf' = SubSeq(word_buf, 1, byte_idx) \o <<cart_dout>>
      BY <1>1, <1>10, <2>1 DEF RamWaitAck
    <3>2. Len(word_buf) >= byte_idx /\ byte_idx \in Nat /\ word_buf \in Seq(Data)
      BY <1>3, <1>10 DEF ProgressInv, RamInv, RamStates, Bytes, StreamTypeOK
    <3>3. SubSeq(word_buf, 1, byte_idx) \in Seq(Data)
      <4>1. \A k \in 1..byte_idx : word_buf[k] \in Data
        BY <3>2
      <4> QED BY <3>2, <4>1, SubSeqProperties
    <3>4. <<cart_dout>> \in Seq(Data)
      BY <1>3
    <3>5. word_buf' \in Seq(Data)
      BY <3>1, <3>3, <3>4, ConcatProperties
    <3>6. byte_idx' \in Nat /\ stream' \in {"WRITE_RAM_WORD", "RAM_REQ"} /\ cart_req' = FALSE
      BY <1>10, <2>1, <3>2 DEF RamWaitAck
    <3> QED BY <1>3, <1>10, <2>1, <3>5, <3>6
          DEF RamWaitAck, Published, writeVars, StreamTypeOK
  <2>2. CASE ~in.cart_ack
    BY <1>3, <1>10, <2>2 DEF RamWaitAck, Published, writeVars, StreamTypeOK
  <2> QED BY <2>1, <2>2
<1>11. CASE ~in.reset /\ done' = Published(in) /\ WaitHdrWord(in)
  <2>1. /\ stream = "WAIT_HDR_WORD" /\ done' = FALSE
        /\ UNCHANGED <<saved_ram128, word_buf, cart_req, cart_addr, ddr_request, generation>>
        /\ UNCHANGED <<ddram_addr, ddram_din>>
    BY <1>11 DEF WaitHdrWord, Published, cartVars, Taken, writeVars
  <2>2. /\ stream' \in {"WAIT_HDR_WORD", "RAM_REQ", "WRITE_HDR_WORD"}
        /\ ddram_we' \in {ddram_we, FALSE}
    BY <1>11 DEF WaitHdrWord, Taken, writeVars
  <2>3. {hdr_word_idx', ram_page', ram_offset', byte_idx', payload_word_idx'} \subseteq Nat
    <3>1. /\ hdr_word_idx \in Nat /\ ram_page \in Nat /\ ram_offset \in Nat
          /\ byte_idx \in Nat /\ payload_word_idx \in Nat
      BY <1>3 DEF StreamTypeOK
    <3>2. /\ hdr_word_idx' \in {hdr_word_idx, hdr_word_idx + 1} /\ ram_page' \in {ram_page, 0}
          /\ ram_offset' \in {ram_offset, 0} /\ byte_idx' \in {byte_idx, 0}
          /\ payload_word_idx' \in {payload_word_idx, HdrWords}
      BY <1>11 DEF WaitHdrWord, indexVars
    <3> QED BY <1>0, <3>1, <3>2
  <2> QED BY <1>3, <2>1, <2>2, <2>3 DEF StreamTypeOK
<1>12. CASE ~in.reset /\ done' = Published(in) /\ WaitRamWord(in)
  <2>1. /\ stream = "WAIT_RAM_WORD" /\ done' = FALSE
        /\ UNCHANGED <<saved_ram128, hdr_word_idx, word_buf, cart_req, cart_addr, ddr_request,
                       generation>>
        /\ UNCHANGED <<ddram_addr, ddram_din>>
    BY <1>12 DEF WaitRamWord, Published, cartVars, Taken, writeVars
  <2>2. /\ stream' \in {"WAIT_RAM_WORD", "RAM_REQ", "WRITE_LEN"}
        /\ ddram_we' \in {ddram_we, FALSE}
    BY <1>12 DEF WaitRamWord, Taken, writeVars
  <2>3. /\ ram_page' \in {ram_page, ram_page + 1} /\ ram_offset' \in {ram_offset, ram_offset + 1, 0}
        /\ byte_idx' \in {byte_idx, 0}
        /\ payload_word_idx' \in {payload_word_idx, payload_word_idx + 1}
    BY <1>12 DEF WaitRamWord
  <2>4. {ram_page', ram_offset', byte_idx', payload_word_idx'} \subseteq Nat
    <3>1. ram_page \in Nat /\ ram_offset \in Nat /\ byte_idx \in Nat /\ payload_word_idx \in Nat
      BY <1>3 DEF StreamTypeOK
    <3> QED BY <2>3, <3>1
  <2> QED BY <1>3, <2>1, <2>2, <2>4 DEF StreamTypeOK
<1>13. CASE ~in.reset /\ done' = Published(in) /\ RamReq(in)
  <2>1. <<ram_page, ram_offset, byte_idx>> \in Addr
    BY <1>4, <1>13 DEF RamReq, RamStates, Addr
  <2>2. /\ stream' = "RAM_WAIT_ACK" /\ cart_req' = TRUE /\ done' = FALSE /\ cart_addr' \in Addr
        /\ UNCHANGED <<saved_ram128, hdr_word_idx, ram_page, ram_offset, byte_idx,
                       payload_word_idx, word_buf, ddr_request, generation>>
        /\ UNCHANGED <<ddram_we, ddram_addr, ddram_din>>
    BY <1>13, <2>1 DEF RamReq, Published, indexVars, writeVars
  <2> QED BY <1>3, <2>2 DEF StreamTypeOK
(* The states that only put a write, or wait for one without indices. *)
<1>14. CASE /\ ~in.reset /\ done' = Published(in)
            /\ \/ StreamIdle(in) \/ WaitGrant(in) \/ WaitInvalidGen(in)
               \/ WriteHdrWord(in) \/ WriteRamWord(in)
               \/ WriteLen(in) \/ WaitLen(in) \/ WriteGen(in) \/ WaitGen(in)
  <2>0. done' \in BOOLEAN
    BY <1>14 DEF Published
  <2>1. /\ stream' \in {"IDLE", "WAIT_GRANT", "WAIT_INVALID_GEN", "WRITE_HDR_WORD",
                        "WAIT_HDR_WORD", "WAIT_RAM_WORD", "WRITE_LEN", "WAIT_LEN",
                        "WRITE_GEN", "WAIT_GEN"}
        /\ saved_ram128' \in BOOLEAN /\ cart_req' \in BOOLEAN /\ ddr_request' \in BOOLEAN
        /\ ddram_we' \in BOOLEAN /\ generation' \in 1..LastGeneration
    <3> USE <1>1, <1>3, <1>7 DEF Taken, Put, writeVars, cartVars, StreamTypeOK, Consume
    <3>1. CASE StreamIdle(in)
      BY <3>1 DEF StreamIdle
    <3>2. CASE WaitGrant(in) \/ WaitInvalidGen(in)
      BY <3>2 DEF WaitGrant, WaitInvalidGen, PutInvalid
    <3>3. CASE WriteHdrWord(in) \/ WriteRamWord(in)
      BY <3>3 DEF WriteHdrWord, WriteRamWord
    <3>4. CASE WriteLen(in) \/ WaitLen(in)
      BY <3>4 DEF WriteLen, WaitLen
    <3>5. CASE WriteGen(in) \/ WaitGen(in)
      BY <3>5 DEF WriteGen, WaitGen
    <3> QED BY <1>14, <3>1, <3>2, <3>3, <3>4, <3>5
  <2>2. ddram_addr' \in Slot /\ ddram_din' \in SlotWords
    <3> USE <1>1, <1>3, <1>4, <1>5, <1>6
          DEF Taken, Put, writeVars, StreamTypeOK, HdrStates, RamStates
    <3>1. CASE StreamIdle(in)
      BY <3>1 DEF StreamIdle
    <3>2. CASE WaitGrant(in) \/ WaitInvalidGen(in)
      BY <3>2 DEF WaitGrant, WaitInvalidGen, PutInvalid
    <3>3. CASE WriteHdrWord(in) \/ WriteRamWord(in)
      BY <3>3 DEF WriteHdrWord, WriteRamWord
    <3>4. CASE WriteLen(in) \/ WaitLen(in)
      BY <3>4 DEF WriteLen, WaitLen
    <3>5. CASE WriteGen(in) \/ WaitGen(in)
      BY <3>5 DEF WriteGen, WaitGen
    <3> QED BY <1>14, <3>1, <3>2, <3>3, <3>4, <3>5
  <2>3. /\ word_buf' = word_buf /\ cart_addr' = cart_addr
        /\ hdr_word_idx' \in {hdr_word_idx, 0}
        /\ UNCHANGED <<ram_page, ram_offset, byte_idx, payload_word_idx>>
    BY <1>14 DEF StreamIdle, WaitGrant, WaitInvalidGen, WriteHdrWord, WriteRamWord, WriteLen,
       WaitLen, WriteGen, WaitGen, indexVars, cartVars
  <2> QED BY <1>3, <2>0, <2>1, <2>2, <2>3 DEF StreamTypeOK
<1> QED BY <1>2, <1>8, <1>9, <1>10, <1>11, <1>12, <1>13, <1>14 DEF StreamClock, RamWaitAck

(* Word 0 of the slot, and the write that lands there. *)
LEMMA GenerationWords ==
    /\ Invalid \in Generations /\ ~Valid(Invalid)
    /\ \A w \in Generations : w.gen \in 0..LastGeneration /\ (Valid(w) <=> w.gen > 0)
    /\ \A w \in Generations : ~Valid(w) => w = Invalid
    /\ \A g \in 1..LastGeneration : [gen |-> g] \in Generations /\ Valid([gen |-> g])
<1>0. LastGeneration \in Nat
  BY Sizes
<1>1. Invalid \in Generations /\ ~Valid(Invalid)
  BY <1>0 DEF Invalid, Generations, Valid
<1>2. ASSUME NEW w \in Generations
      PROVE  w.gen \in 0..LastGeneration /\ (Valid(w) <=> w.gen > 0)
  BY <1>0 DEF Generations, Valid
<1>3. ASSUME NEW w \in Generations, ~Valid(w) PROVE w = Invalid
  BY <1>0, <1>2, <1>3 DEF Generations, Invalid
<1>4. ASSUME NEW g \in 1..LastGeneration
      PROVE  [gen |-> g] \in Generations /\ Valid([gen |-> g])
  BY <1>0 DEF Generations, Valid
<1> QED BY <1>1, <1>2, <1>3, <1>4

Lands == ddram_we /\ ~ddram_busy
LEMMA Landed ==
    ASSUME TypeOK, ControlInv, Next
    PROVE  /\ slot' = IF Lands THEN [slot EXCEPT ![ddram_addr] = ddram_din] ELSE slot
           /\ slot \in [Slot -> SlotWords] /\ ddram_addr \in Slot /\ ddram_din \in SlotWords
           /\ slot' \in [Slot -> SlotWords]
           /\ ddram_we => (BBusy(ddram_busy) <=> ddram_busy)
<1>1. ddram_we => b_grant
  BY DEF ControlInv, Waits
<1>2. slot' = IF Lands THEN [slot EXCEPT ![ddram_addr] = ddram_din] ELSE slot
  BY <1>1 DEF Next, DdrStep, Lands
<1>3. slot \in [Slot -> SlotWords] /\ ddram_addr \in Slot /\ ddram_din \in SlotWords
  BY DEF TypeOK, StreamTypeOK
<1>4. slot' \in [Slot -> SlotWords]
  <2>1. [slot EXCEPT ![ddram_addr] = ddram_din] \in [Slot -> SlotWords]
    BY <1>3
  <2> QED BY <1>2, <1>3, <2>1
<1> QED BY <1>1, <1>2, <1>3, <1>4 DEF BBusy

LEMMA SlotZero ==
    ASSUME TypeOK, ControlInv, SlotInv, Next
    PROVE  /\ slot'[0] = IF Lands /\ ddram_addr = 0 THEN ddram_din ELSE slot[0]
           /\ slot'[0] \in Generations /\ slot[0] \in Generations
           /\ ddram_we /\ ddram_addr = 0 => ddram_din \in Generations
<1>1. 0 \in Slot
  BY SlotIndex
<1>2. slot'[0] = IF Lands /\ ddram_addr = 0 THEN ddram_din ELSE slot[0]
  BY <1>1, Landed
<1>3. slot[0] \in Generations /\ (ddram_we /\ ddram_addr = 0 => ddram_din \in Generations)
  BY DEF SlotInv
<1> QED BY <1>2, <1>3 DEF Lands

LEMMA TypeStep ==
    ASSUME TypeOK, ControlInv, ProgressInv, SlotInv, Next
    PROVE  TypeOK'
<1>1. CaptureTypeOK' /\ presses' \in 0..MaxPresses
  BY CaptureType
<1>2. StreamTypeOK'
  BY StreamType
<1>3. CpuStep /\ AbortStep /\ CartStep /\ MarkerStep /\ DdrStep /\ Ghosts
  BY DEF Next
<1>4. /\ {ram128', insn_start', cen_gap', rampage_ok'} \subseteq BOOLEAN
      /\ cpu' \in Nat /\ writes' \in Nat /\ ram' \in [Addr -> Data]
  BY <1>3, CpuType
<1>5. b_grant' \in BOOLEAN /\ save_abort' \in BOOLEAN /\ ddram_busy' \in BOOLEAN
  <2>1. b_grant' \in BOOLEAN
    BY DEF Next, DdrMuxClock, TypeOK
  <2>2. save_abort' \in BOOLEAN
    BY <1>3 DEF AbortStep, TypeOK
  <2> QED BY <1>3, <2>1, <2>2 DEF DdrStep
<1>6. cart_ack' \in BOOLEAN /\ cart_dout' \in Data
  <2>1. ram \in [Addr -> Data] /\ cart_addr \in Addr /\ cart_dout \in Data
    BY DEF TypeOK, StreamTypeOK
  <2> QED BY <1>3, <2>1 DEF CartStep, CartAnswers
<1>7. a_we' \in BOOLEAN /\ a_sent' \in Nat /\ marks' \in Nat
  <2>1. a_sent \in Nat /\ marks \in Nat /\ a_we \in BOOLEAN
    BY DEF TypeOK
  <2>2. a_we' \in BOOLEAN /\ a_sent' \in {a_sent, a_sent + 1}
    BY <1>3, <2>1 DEF MarkerStep
  <2>3. marks' \in {marks, marks + 1}
    BY <1>3 DEF DdrStep
  <2> QED BY <2>1, <2>2, <2>3
<1>8. slot' \in [Slot -> SlotWords]
  BY Landed
<1>9. State \in Machines /\ snap' \in Machines /\ taken' \in [1..LastGeneration -> Machines]
  <2>1. State \in Machines
    BY DEF TypeOK, State, Machines
  <2>2. snap \in Machines /\ taken \in [1..LastGeneration -> Machines]
    BY DEF TypeOK
  <2>3. snap' \in Machines
    BY <1>3, <2>1, <2>2 DEF Ghosts
  <2>4. taken' = taken \/ taken' = [taken EXCEPT ![generation] = snap]
    BY <1>3 DEF Ghosts
  <2> QED BY <2>1, <2>2, <2>3, <2>4
<1>10. published' \in 0..LastGeneration
  <2>1. published \in 0..LastGeneration
    BY DEF TypeOK
  <2>2. slot'[0].gen \in 0..LastGeneration
    BY SlotZero, GenerationWords
  <2> QED BY <1>3, <2>1, <2>2 DEF Ghosts
<1> QED BY <1>1, <1>2, <1>4, <1>5, <1>6, <1>7, <1>8, <1>9, <1>10 DEF TypeOK

(* The machine stands still from the clock that freezes it. *)
LEMMA FrozenStep ==
    ASSUME TypeOK, ControlInv, FrozenInv, Next
    PROVE  /\ FrozenInv'
           /\ capture' = "HELD" => State' = State
           /\ capture' = "HELD" /\ capture = "HELD" => snap' = snap
<1>1. CpuStep /\ CartStep /\ Ghosts
  BY DEF Next
<1>2. /\ capture \in {"IDLE", "ARMED", "HELD"}
      /\ {insn_start, insn_start_d, cen_gap, hold, save_abort, cart_ack} \subseteq BOOLEAN
  BY DEF TypeOK, CaptureTypeOK
<1>3. capture' = "HELD" => CaptureHolds \/ CaptureFreezes
  BY CaptureCases DEF CaptureAborts, CaptureEnds, CaptureApart
<1>4. capture' = "HELD" => ~save_abort
  BY CaptureCases DEF CaptureAborts
<1>5. ASSUME capture' = "HELD" PROVE State' = State
  <2>1. hold \/ cen_gap
    BY <1>2, <1>3, <1>5 DEF CaptureHolds, CaptureFreezes, ControlInv, FrozenInv
  <2>2. Rests /\ ram128' = ram128
    BY <1>1, <1>4, <1>5, <2>1 DEF CpuStep, Executes, Loads
  <2> QED BY <2>2 DEF Rests, State
<1>6. ASSUME capture' = "HELD", capture = "HELD" PROVE snap' = snap
  BY <1>1, <1>6 DEF Ghosts
<1>7. ASSUME capture' = "HELD" PROVE snap' = State' /\ header' = snap'.cpu
  <2>1. CASE CaptureHolds
    BY <1>5, <1>6, <1>7, <2>1 DEF CaptureHolds, FrozenInv
  <2>2. CASE CaptureFreezes
    <3>1. snap' = State /\ header' = cpu
      BY <1>1, <1>7, <2>2 DEF CaptureFreezes, Ghosts
    <3> QED BY <1>5, <1>7, <3>1 DEF State
  <2> QED BY <1>3, <1>7, <2>1, <2>2
<1>8. (capture = "ARMED" /\ insn_start /\ ~insn_start_d => cen_gap)'
  <2>1. SUFFICES ASSUME capture' = "ARMED", insn_start', ~insn_start_d'
                 PROVE  cen_gap'
    OBVIOUS
  <2>2. insn_start_d' = insn_start /\ ~save_abort
    BY <2>1, CaptureCases DEF CaptureAborts
  <2> QED BY <1>1, <1>2, <2>1, <2>2 DEF CpuStep, Executes, Loads, Rests
<1>9. (stream = "RAM_WAIT_ACK" /\ cart_ack => cart_dout = snap.ram[cart_addr])'
  <2>1. SUFFICES ASSUME stream' = "RAM_WAIT_ACK", cart_ack'
                 PROVE  cart_dout' = snap'.ram[cart_addr']
    OBVIOUS
  <2>2. cart_req /\ cart_dout' = ram[cart_addr]
    BY <1>1, <1>2, <2>1 DEF CartStep, CartAnswers
  <2>3. stream = "RAM_WAIT_ACK" /\ capture = "HELD" /\ ~done
    BY <2>2 DEF ControlInv, Works
  <2>4. cart_addr' = cart_addr /\ ~save_abort
    <3> DEFINE in == StreamPorts
    <3>1. in.reset = save_abort /\ StreamClock(in)
      BY Sampled DEF Next
    <3> HIDE DEF in
    <3>2. stream' # "IDLE" /\ stream' # "QUIESCE"
      BY <2>1
    <3>3. ~StreamReset(in) /\ ~save_abort
      BY <3>1, <3>2, <2>3 DEF StreamReset, StreamClock, Quiesce
    <3>4. RamWaitAck(in)
      BY <3>1, <3>3, <2>3 DEF StreamClock, Quiesce, StreamIdle, WaitGrant, WaitInvalidGen,
         WriteHdrWord, WaitHdrWord, RamReq, WriteRamWord, WaitRamWord, WriteLen, WaitLen,
         WriteGen, WaitGen
    <3> QED BY <3>3, <3>4 DEF RamWaitAck
  <2>5. capture' = "HELD"
    BY <2>3, <2>4, CaptureCases DEF CaptureAborts, CaptureHolds, CaptureEnds, CaptureFreezes,
       CaptureApart
  <2>6. snap' = snap /\ snap = State
    BY <1>6, <2>3, <2>5 DEF FrozenInv
  <2> QED BY <2>2, <2>4, <2>6 DEF State
<1> QED BY <1>5, <1>6, <1>7, <1>8, <1>9 DEF FrozenInv

-----------------------------------------------------------------------------
(* The words of the payload. *)
RamWord(s, p, o) == [ram |-> [b \in 1..WordBytes |-> s.ram[<<p, o, b - 1>>]]]

LEMMA PayloadWords ==
    ASSUME NEW s \in Machines
    PROVE  /\ \A i \in 0..(HdrWords - 1) : Payload(s)[i] = [hdr |-> s.cpu, i |-> i]
           /\ \A p \in Nat, o \in 0..(PageWords - 1) :
                p < (IF s.ram128 THEN Pages128 ELSE Pages64) =>
                  /\ HdrWords + p * PageWords + o < LenWord(s.ram128)
                  /\ Payload(s)[HdrWords + p * PageWords + o] = RamWord(s, p, o)
<1>0. /\ HdrWords \in Nat /\ PageWords \in Nat /\ PageWords > 0 /\ HdrWords > 0
      /\ Pages128 \in Nat /\ Pages64 \in Nat
      /\ s.ram128 \in BOOLEAN
  BY Sizes DEF Machines
<1>1. LenWord(s.ram128) \in Nat /\ LenWord(s.ram128) > HdrWords
  BY <1>0, Sizes
<1>2. ASSUME NEW i \in 0..(HdrWords - 1) PROVE Payload(s)[i] = [hdr |-> s.cpu, i |-> i]
  <2>1. i \in 0..(LenWord(s.ram128) - 1) /\ i < HdrWords
    BY <1>0, <1>1
  <2> QED BY <2>1 DEF Payload
<1>3. ASSUME NEW p \in Nat, NEW o \in 0..(PageWords - 1),
             p < (IF s.ram128 THEN Pages128 ELSE Pages64)
      PROVE  /\ HdrWords + p * PageWords + o < LenWord(s.ram128)
             /\ Payload(s)[HdrWords + p * PageWords + o] = RamWord(s, p, o)
  <2> DEFINE ps == IF s.ram128 THEN Pages128 ELSE Pages64
             n == p * PageWords + o
  <2>1. ps \in Int /\ p \in Int /\ p < ps /\ o \in Int /\ 0 <= o /\ o < PageWords /\ PageWords \in Int
    BY <1>0, <1>3
  <2>2. LenWord(s.ram128) = HdrWords + PageWords * ps
    BY DEF LenWord
  <2> HIDE DEF ps
  <2>3. n < ps * PageWords
    BY <1>0, <2>1, PageBound
  <2>4. p * PageWords \in Nat /\ ps * PageWords = PageWords * ps /\ ps * PageWords \in Int
    BY <1>0, <2>1
  <2>5. n \in Nat
    BY <2>1, <2>4
  <2>6. HdrWords + p * PageWords + o = HdrWords + n
    BY <1>0, <2>1, <2>4
  <2>7. n \div PageWords = p /\ n % PageWords = o
    BY <1>0, <2>1, PageIndex
  <2> HIDE DEF n
  <2>8. HdrWords + n < LenWord(s.ram128)
    BY <1>0, <2>2, <2>3, <2>4, <2>5
  <2>9. Payload(s)[HdrWords + n] = RamWord(s, n \div PageWords, n % PageWords)
    <3>1. /\ HdrWords + n \in 0..(LenWord(s.ram128) - 1) /\ ~(HdrWords + n < HdrWords)
          /\ (HdrWords + n) - HdrWords = n
      BY <1>0, <1>1, <2>5, <2>8
    <3> QED BY <3>1 DEF Payload, RamWord
  <2> QED BY <2>6, <2>7, <2>8, <2>9
<1> QED BY <1>2, <1>3

LEMMA SavedMore ==
    ASSUME TypeOK, ControlInv, Next, snap' = snap, NEW n \in Nat,
           Saved(n), Lands, InFlight(2 + n, Payload(snap)[n])
    PROVE  Saved(n + 1)' /\ slot'[0] = slot[0]
<1>1. 2 + n \in Slot /\ slot' = [slot EXCEPT ![2 + n] = Payload(snap)[n]]
      /\ slot \in [Slot -> SlotWords] /\ 0 \in Slot
  BY Landed, SlotIndex DEF InFlight
<1>2. ASSUME NEW i \in 0..n PROVE slot'[2 + i] = Payload(snap)[i]
  <2>1. 2 + i \in Slot
    BY <1>1, SlotIndex
  <2>2. CASE i = n
    BY <1>1, <2>1, <2>2
  <2>3. CASE i # n
    <3>1. i \in 0..(n - 1) /\ 2 + i # 2 + n
      BY <2>3
    <3> QED BY <1>1, <2>1, <3>1 DEF Saved
  <2> QED BY <2>2, <2>3
<1>3. (n + 1) - 1 = n
  OBVIOUS
<1> QED BY <1>1, <1>2, <1>3 DEF Saved

LEMMA SavedStays ==
    ASSUME TypeOK, ControlInv, Next, snap' = snap, NEW n \in Nat, Saved(n),
           n <= LenWord(snap.ram128), ~Lands \/ ddram_addr \in {0, 1}
    PROVE  Saved(n)'
<1>1. CASE ~Lands
  BY <1>1, Landed DEF Saved
<1>2. CASE Lands /\ ddram_addr \in {0, 1}
  <2>1. ASSUME NEW i \in 0..(n - 1) PROVE slot'[2 + i] = slot[2 + i]
    <3>1. snap.ram128 \in BOOLEAN
      BY DEF TypeOK, Machines
    <3>2. LenWord(snap.ram128) \in Nat
      BY <3>1, Sizes
    <3>3. 2 + i \in Slot
      BY <3>1, <3>2, SlotIndex
    <3> QED BY <1>2, <3>3, Landed
  <2> QED BY <2>1 DEF Saved
<1> QED BY <1>1, <1>2

-----------------------------------------------------------------------------
(* The stream writes the frozen machine, word by word. *)
LEMMA Working ==
    ASSUME TypeOK, ControlInv, FrozenInv, Next, Works, ~save_abort
    PROVE  snap' = snap /\ snap = State /\ header = snap.cpu
<1>1. capture = "HELD" /\ ~done
  BY DEF ControlInv, Works
<1>2. capture' = "HELD"
  BY <1>1, CaptureCases DEF CaptureAborts, CaptureHolds, CaptureEnds, CaptureFreezes, CaptureApart
<1> QED BY <1>1, <1>2, FrozenStep DEF FrozenInv

LEMMA ProgressStep ==
    ASSUME TypeOK, ControlInv, FrozenInv, ProgressInv, SlotInv, Next
    PROVE  ProgressInv'
<1> DEFINE in == StreamPorts
<1>1. /\ in.reset = save_abort /\ in.start = captured /\ in.cart_ack = cart_ack
      /\ in.grant = b_grant /\ in.header = header /\ in.ram128 = ram128
      /\ in.cart_dout = cart_dout /\ (ddram_we => (in.busy <=> ddram_busy))
  BY Sampled, Landed
<1>2. StreamClock(in)
  BY DEF Next
<1> HIDE DEF in
<1>3. StreamTypeOK /\ snap \in Machines /\ ram128 \in BOOLEAN
  BY DEF TypeOK
<1>4. CASE stream' \in {"IDLE", "QUIESCE"}
  BY <1>4 DEF ProgressInv, Works, HdrStates, RamStates
<1>5. CASE StreamReset(in) \/ Quiesce(in)
  <2>1. stream' \in {"IDLE", "QUIESCE"}
    BY <1>5 DEF StreamReset, Quiesce
  <2> QED BY <1>4, <2>1
<1>6. CASE ~in.reset /\ StreamIdle(in)
  <2>1. CASE captured
    <3>1. /\ stream' = "WAIT_GRANT" /\ saved_ram128' = ram128 /\ ~save_abort
      BY <1>1, <1>6, <2>1 DEF StreamIdle
    <3>2. capture = "HELD" /\ ~done
      BY <2>1 DEF ControlInv
    <3>3. capture' = "HELD"
      BY <3>1, <3>2, CaptureCases DEF CaptureAborts, CaptureHolds, CaptureEnds, CaptureFreezes, CaptureApart
    <3>4. snap' = snap /\ snap = State
      BY <3>2, <3>3, FrozenStep DEF FrozenInv
    <3> QED BY <3>1, <3>4 DEF ProgressInv, Works, HdrStates, RamStates, State
  <2>2. CASE ~captured
    BY <1>1, <1>4, <1>6, <2>2 DEF StreamIdle
  <2> QED BY <2>1, <2>2
<1>7. SUFFICES ASSUME ~in.reset, Works, stream' \notin {"IDLE", "QUIESCE"},
                      \/ WaitGrant(in) \/ WaitInvalidGen(in)
                      \/ WriteHdrWord(in) \/ WaitHdrWord(in)
                      \/ RamReq(in) \/ RamWaitAck(in) \/ WriteRamWord(in) \/ WaitRamWord(in)
                      \/ WriteLen(in) \/ WaitLen(in) \/ WriteGen(in) \/ WaitGen(in)
               PROVE  ProgressInv'
  <2>1. CASE stream' \notin {"IDLE", "QUIESCE"} /\ ~StreamReset(in) /\ ~Quiesce(in) /\ ~(~in.reset /\ StreamIdle(in))
    <3>1. ~in.reset /\ (\/ WaitGrant(in) \/ WaitInvalidGen(in)
                      \/ WriteHdrWord(in) \/ WaitHdrWord(in)
                      \/ RamReq(in) \/ RamWaitAck(in) \/ WriteRamWord(in) \/ WaitRamWord(in)
                      \/ WriteLen(in) \/ WaitLen(in) \/ WriteGen(in) \/ WaitGen(in))
      BY <1>2, <2>1 DEF StreamClock
    <3>2. Works
      BY <3>1 DEF Works, WaitGrant, WaitInvalidGen, WriteHdrWord, WaitHdrWord, RamReq,
         RamWaitAck, WriteRamWord, WaitRamWord, WriteLen, WaitLen, WriteGen, WaitGen
    <3> QED BY <1>7, <2>1, <3>1, <3>2
  <2> QED BY <1>4, <1>5, <1>6, <2>1
<1>8. /\ snap' = snap /\ header = snap.cpu /\ ~save_abort
      /\ saved_ram128 = snap.ram128
  BY <1>1, <1>7, Working DEF ProgressInv
<1>9. saved_ram128' = saved_ram128 /\ Pages' = Pages
  <2>1. saved_ram128' = saved_ram128
    BY <1>7 DEF WaitGrant, WaitInvalidGen, WriteHdrWord, WaitHdrWord, RamReq, RamWaitAck, WriteRamWord,
       WaitRamWord, WriteLen, WaitLen, WriteGen, WaitGen
  <2> QED BY <2>1 DEF Pages
<1>10. /\ stream \in Waits => (Lands <=> ~in.busy)
       /\ stream \notin Waits => slot' = slot
       /\ ~Lands => slot' = slot
  BY <1>1, <1>7, Landed DEF Lands, ControlInv, Works
<1>11. /\ (Works => saved_ram128 = snap.ram128)'
       /\ stream \in {"WAIT_GRANT", "WAIT_INVALID_GEN"} \/ slot[0] = Invalid
  BY <1>7, <1>8, <1>9 DEF ProgressInv
<1>12. /\ {hdr_word_idx, ram_page, ram_offset, byte_idx, payload_word_idx} \subseteq Nat
       /\ HdrWords \in Nat /\ HdrWords > 0 /\ PageWords \in Nat /\ PageWords > 0
       /\ WordBytes \in Nat /\ WordBytes > 0 /\ Pages \in Nat /\ Pages > 0
       /\ snap.ram128 \in BOOLEAN
  BY <1>3, Sizes DEF StreamTypeOK, Machines
<1>13. CASE WaitGrant(in)
  <2>1. \/ stream' = "WAIT_GRANT"
        \/ stream' = "WAIT_INVALID_GEN" /\ InFlight(0, Invalid)'
    BY <1>13 DEF WaitGrant, PutInvalid, Put, InFlight, Invalid
  <2> QED BY <1>11, <2>1 DEF ProgressInv, HdrStates, RamStates
<1>14. CASE WaitInvalidGen(in)
  <2>1. CASE in.busy
    <3>1. stream' = "WAIT_INVALID_GEN" /\ UNCHANGED <<ddram_addr, ddram_din>>
      BY <1>14, <2>1 DEF WaitInvalidGen, Accepted, writeVars
    <3>2. InFlight(0, Invalid)'
      BY <1>14, <3>1 DEF ProgressInv, InFlight, WaitInvalidGen, Invalid
    <3> QED BY <1>11, <3>1, <3>2 DEF ProgressInv, HdrStates, RamStates
  <2>2. CASE ~in.busy
    <3>1. stream' = "WRITE_HDR_WORD" /\ hdr_word_idx' = 0 /\ stream = "WAIT_INVALID_GEN"
      BY <1>14, <2>2 DEF WaitInvalidGen, Accepted
    <3>2. slot'[0] = Invalid
      BY <1>10, <2>2, <3>1, SlotZero DEF ProgressInv, InFlight, Waits
    <3>3. Saved(hdr_word_idx)'
      BY <3>1 DEF Saved
    <3> QED BY <1>11, <1>12, <3>1, <3>2, <3>3 DEF ProgressInv, HdrStates, RamStates
  <2> QED BY <2>1, <2>2
<1>15. CASE WriteHdrWord(in)
  <2>1. /\ stream = "WRITE_HDR_WORD" /\ stream' = "WAIT_HDR_WORD" /\ hdr_word_idx' = hdr_word_idx
        /\ ddram_addr' = 2 + hdr_word_idx /\ ddram_din' = [hdr |-> header, i |-> hdr_word_idx]
    BY <1>1, <1>15 DEF WriteHdrWord, Put, indexVars
  <2>2. hdr_word_idx < HdrWords /\ Saved(hdr_word_idx) /\ slot' = slot /\ slot[0] = Invalid
    BY <1>10, <1>11, <2>1 DEF ProgressInv, HdrStates, Waits
  <2>3. Payload(snap)[hdr_word_idx] = [hdr |-> header, i |-> hdr_word_idx]
    BY <1>3, <1>8, <1>12, <2>2, PayloadWords
  <2>4. InFlight(2 + hdr_word_idx, Payload(snap)[hdr_word_idx])'
    BY <1>8, <2>1, <2>3 DEF InFlight
  <2>5. Saved(hdr_word_idx)'
    BY <1>8, <2>1, <2>2 DEF Saved
  <2> QED BY <1>11, <2>1, <2>2, <2>4, <2>5 DEF ProgressInv, HdrStates, RamStates
<1>16. CASE WaitHdrWord(in)
  <2>1. /\ stream = "WAIT_HDR_WORD" /\ hdr_word_idx < HdrWords /\ Saved(hdr_word_idx)
        /\ slot[0] = Invalid /\ InFlight(2 + hdr_word_idx, Payload(snap)[hdr_word_idx])
    BY <1>11, <1>16 DEF WaitHdrWord, ProgressInv, HdrStates
  <2> PICK n \in Nat : n = hdr_word_idx
    BY <1>12
  <2>2. CASE in.busy
    <3>1. /\ stream' = "WAIT_HDR_WORD" /\ UNCHANGED <<hdr_word_idx, ddram_addr, ddram_din>>
          /\ slot' = slot
      BY <1>10, <1>16, <2>1, <2>2 DEF WaitHdrWord, Accepted, writeVars, indexVars, Waits
    <3>2. InFlight(2 + hdr_word_idx, Payload(snap)[hdr_word_idx])' /\ Saved(hdr_word_idx)'
      BY <1>8, <2>1, <3>1 DEF Saved, InFlight
    <3> QED BY <1>11, <2>1, <3>1, <3>2 DEF ProgressInv, HdrStates, RamStates
  <2>3. CASE ~in.busy
    <3>1. Saved(n + 1)' /\ slot'[0] = Invalid
      BY <1>8, <1>10, <1>12, <2>1, <2>3, SavedMore DEF Waits
    <3>2. CASE hdr_word_idx = HdrWords - 1
      <4>1. /\ stream' = "RAM_REQ" /\ ram_page' = 0 /\ ram_offset' = 0 /\ byte_idx' = 0
            /\ payload_word_idx' = HdrWords
        BY <1>16, <2>3, <3>2 DEF WaitHdrWord, Accepted
      <4>2. n + 1 = payload_word_idx'
        BY <1>12, <3>2, <4>1
      <4>3. Saved(payload_word_idx)'
        BY <3>1, <4>2 DEF Saved
      <4>4. Bytes(byte_idx)'
        <5>1. word_buf' = word_buf /\ Len(word_buf) >= 0
          BY <1>3, <1>16 DEF WaitHdrWord, StreamTypeOK
        <5> QED BY <4>1, <5>1 DEF Bytes
      <4>5. HdrWords = HdrWords + 0 * PageWords + 0
        BY <1>12
      <4>6. RamInv'
        BY <1>9, <1>12, <4>1, <4>3, <4>4, <4>5 DEF RamInv
      <4> QED BY <1>11, <3>1, <4>1, <4>6 DEF ProgressInv, HdrStates, RamStates
    <3>3. CASE hdr_word_idx # HdrWords - 1
      <4>1. stream' = "WRITE_HDR_WORD" /\ hdr_word_idx' = hdr_word_idx + 1
        BY <1>16, <2>3, <3>3 DEF WaitHdrWord, Accepted
      <4>2. hdr_word_idx' < HdrWords /\ Saved(hdr_word_idx)'
        <5>1. Saved(hdr_word_idx)'
          BY <3>1, <4>1 DEF Saved
        <5> QED BY <1>12, <2>1, <3>3, <4>1, <5>1
      <4> QED BY <1>11, <3>1, <4>1, <4>2 DEF ProgressInv, HdrStates, RamStates
    <3> QED BY <3>2, <3>3
  <2> QED BY <2>2, <2>3
<1>17. CASE RamReq(in)
  <2>1. /\ stream = "RAM_REQ" /\ stream' = "RAM_WAIT_ACK"
        /\ UNCHANGED <<ram_page, ram_offset, byte_idx, payload_word_idx, word_buf>>
        /\ cart_addr' = <<ram_page, ram_offset, byte_idx>>
    BY <1>17 DEF RamReq, indexVars
  <2>2. RamInv /\ slot' = slot /\ slot[0] = Invalid
    BY <1>10, <1>11, <2>1 DEF ProgressInv, RamStates, Waits
  <2>3. Saved(payload_word_idx)' /\ Bytes(byte_idx)'
    BY <1>8, <2>1, <2>2 DEF RamInv, Saved, Bytes
  <2>4. RamInv'
    BY <1>9, <2>1, <2>2, <2>3 DEF RamInv
  <2> QED BY <1>11, <2>1, <2>2, <2>4 DEF ProgressInv, HdrStates, RamStates
<1>18. CASE RamWaitAck(in)
  <2>1. /\ stream = "RAM_WAIT_ACK" /\ UNCHANGED <<ram_page, ram_offset, payload_word_idx, cart_addr>>
    BY <1>18 DEF RamWaitAck
  <2>2. RamInv /\ slot' = slot /\ slot[0] = Invalid
    BY <1>10, <1>11, <2>1 DEF ProgressInv, RamStates, Waits
  <2>3. Saved(payload_word_idx)'
    BY <1>8, <2>1, <2>2 DEF RamInv, Saved
  <2>4. CASE ~cart_ack
    <3>1. stream' = "RAM_WAIT_ACK" /\ UNCHANGED <<word_buf, byte_idx>>
      BY <1>1, <1>18, <2>4 DEF RamWaitAck
    <3>2. Bytes(byte_idx)'
      BY <1>8, <2>1, <2>2, <3>1 DEF RamInv, Bytes
    <3>3. RamInv'
      BY <1>9, <2>1, <2>2, <2>3, <3>1, <3>2 DEF RamInv
    <3> QED BY <1>11, <2>2, <3>1, <3>3 DEF ProgressInv, HdrStates, RamStates
  <2>5. CASE cart_ack
    <3> PICK n \in Nat : n = byte_idx
      BY <1>12
    <3>1. word_buf' = SubSeq(word_buf, 1, n) \o <<cart_dout>>
      BY <1>1, <1>18, <2>5 DEF RamWaitAck
    <3>2. Len(word_buf) >= n /\ word_buf \in Seq(Data) /\ n < WordBytes
      BY <1>3, <2>1, <2>2 DEF RamInv, Bytes, StreamTypeOK
    <3>3. /\ SubSeq(word_buf, 1, n) \in Seq(Data) /\ Len(SubSeq(word_buf, 1, n)) = n
          /\ \A b \in 1..n : SubSeq(word_buf, 1, n)[b] = word_buf[b]
      <4>1. \A k \in 1..n : word_buf[k] \in Data
        BY <3>2
      <4>2. n - 1 + 1 = n /\ (1 <= n \/ n = 0)
        OBVIOUS
      <4>3. /\ SubSeq(word_buf, 1, n) \in Seq(Data)
            /\ Len(SubSeq(word_buf, 1, n)) = IF 1 <= n THEN n - 1 + 1 ELSE 0
            /\ \A b \in 1..(n - 1 + 1) : SubSeq(word_buf, 1, n)[b] = word_buf[1 + b - 1]
        BY <4>1, SubSeqProperties
      <4> QED BY <4>2, <4>3
    <3>4. <<cart_dout>> \in Seq(Data) /\ Len(<<cart_dout>>) = 1 /\ <<cart_dout>>[1] = cart_dout
      BY DEF TypeOK
    <3>5. /\ Len(word_buf') = n + 1
          /\ \A b \in 1..(n + 1) : word_buf'[b] = IF b <= n THEN word_buf[b] ELSE cart_dout
      <4>1. /\ Len(word_buf') = n + 1
            /\ \A b \in 1..(n + 1) :
                  word_buf'[b] = IF b <= n THEN SubSeq(word_buf, 1, n)[b] ELSE <<cart_dout>>[b - n]
        BY <3>1, <3>3, <3>4, ConcatProperties
      <4> QED BY <3>3, <3>4, <4>1
    <3>6. cart_dout = snap.ram[<<ram_page, ram_offset, n>>]
      BY <2>1, <2>2, <2>5 DEF FrozenInv, RamInv
    <3>7. Bytes(n + 1)'
      <4>1. \A b \in 1..n : word_buf[b] = snap.ram[<<ram_page, ram_offset, b - 1>>]
        BY <2>1, <2>2 DEF RamInv, Bytes
      <4>2. ASSUME NEW b \in 1..(n + 1)
            PROVE  word_buf'[b] = snap.ram[<<ram_page, ram_offset, b - 1>>]
        <5>1. CASE b <= n
          BY <3>5, <4>1, <5>1
        <5>2. CASE b = n + 1
          <6>1. b - 1 = n /\ ~(b <= n)
            BY <5>2
          <6> QED BY <3>5, <3>6, <6>1
        <5> QED BY <5>1, <5>2
      <4> QED BY <1>8, <2>1, <3>5, <4>2 DEF Bytes
    <3>8. CASE n = WordBytes - 1
      <4>1. stream' = "WRITE_RAM_WORD" /\ byte_idx' = byte_idx
        BY <1>1, <1>18, <2>5, <3>8 DEF RamWaitAck
      <4>2. n + 1 = WordBytes
        BY <1>12, <3>8
      <4>3. Len(word_buf') = WordBytes /\ Bytes(WordBytes)'
        BY <3>5, <3>7, <4>2
      <4>4. RamInv'
        BY <1>9, <2>1, <2>2, <2>3, <4>1, <4>3 DEF RamInv
      <4> QED BY <1>11, <2>2, <4>1, <4>4 DEF ProgressInv, HdrStates, RamStates
    <3>9. CASE n # WordBytes - 1
      <4>1. stream' = "RAM_REQ" /\ byte_idx' = n + 1
        BY <1>1, <1>18, <2>5, <3>9 DEF RamWaitAck
      <4>2. n + 1 < WordBytes
        BY <1>12, <3>2, <3>9
      <4>3. Bytes(byte_idx)'
        BY <3>7, <4>1 DEF Bytes
      <4>4. RamInv'
        BY <1>9, <2>1, <2>2, <2>3, <4>1, <4>2, <4>3 DEF RamInv
      <4> QED BY <1>11, <2>2, <4>1, <4>4 DEF ProgressInv, HdrStates, RamStates
    <3> QED BY <3>8, <3>9
  <2> QED BY <2>4, <2>5
<1>19. /\ Pages = IF snap.ram128 THEN Pages128 ELSE Pages64
       /\ LenWord(snap.ram128) = HdrWords + PageWords * Pages
       /\ LenWord(snap.ram128) \in Nat /\ LenWord(saved_ram128) = LenWord(snap.ram128)
  BY <1>8, <1>12, Sizes DEF Pages
<1>20. CASE WriteRamWord(in)
  <2>1. /\ stream = "WRITE_RAM_WORD" /\ stream' = "WAIT_RAM_WORD"
        /\ UNCHANGED <<ram_page, ram_offset, byte_idx, payload_word_idx>>
        /\ ddram_addr' = 2 + payload_word_idx /\ ddram_din' = [ram |-> word_buf]
    BY <1>20 DEF WriteRamWord, Put, indexVars
  <2>2. RamInv /\ slot' = slot /\ slot[0] = Invalid
    BY <1>10, <1>11, <2>1 DEF ProgressInv, RamStates, Waits
  <2>3. word_buf = [b \in 1..WordBytes |-> snap.ram[<<ram_page, ram_offset, b - 1>>]]
    <3>1. word_buf \in Seq(Data) /\ Len(word_buf) = WordBytes
      BY <1>3, <2>1, <2>2 DEF RamInv, StreamTypeOK
    <3>2. \A b \in 1..WordBytes : word_buf[b] = snap.ram[<<ram_page, ram_offset, b - 1>>]
      BY <2>1, <2>2 DEF RamInv, Bytes
    <3> QED BY <3>1, <3>2
  <2>4. Payload(snap)[payload_word_idx] = [ram |-> word_buf]
    <3>1. /\ ram_page \in Nat /\ ram_offset \in 0..(PageWords - 1)
          /\ ram_page < (IF snap.ram128 THEN Pages128 ELSE Pages64)
          /\ payload_word_idx = HdrWords + ram_page * PageWords + ram_offset
      BY <1>12, <1>19, <2>2 DEF RamInv
    <3> QED BY <1>3, <2>3, <3>1, PayloadWords DEF RamWord
  <2>5. InFlight(2 + payload_word_idx, Payload(snap)[payload_word_idx])'
    BY <1>8, <2>1, <2>4 DEF InFlight
  <2>6. Saved(payload_word_idx)'
    BY <1>8, <2>1, <2>2 DEF RamInv, Saved
  <2>7. RamInv'
    BY <1>9, <2>1, <2>2, <2>5, <2>6 DEF RamInv
  <2> QED BY <1>11, <2>1, <2>2, <2>7 DEF ProgressInv, HdrStates, RamStates
<1>21. CASE WaitRamWord(in)
  <2> PICK n \in Nat : n = payload_word_idx
    BY <1>12
  <2>1. stream = "WAIT_RAM_WORD" /\ word_buf' = word_buf
    BY <1>21 DEF WaitRamWord
  <2>2. RamInv /\ slot[0] = Invalid /\ InFlight(2 + n, Payload(snap)[n]) /\ Saved(n)
    BY <1>11, <2>1 DEF ProgressInv, RamInv, RamStates
  <2>3. CASE in.busy
    <3>1. /\ stream' = stream /\ slot' = slot
          /\ UNCHANGED <<ddram_addr, ddram_din, ram_page, ram_offset, byte_idx, payload_word_idx>>
      BY <1>10, <1>21, <2>1, <2>3 DEF WaitRamWord, Accepted, writeVars, Waits
    <3>2. InFlight(2 + payload_word_idx, Payload(snap)[payload_word_idx])' /\ Saved(payload_word_idx)'
      BY <1>8, <2>2, <3>1 DEF Saved, InFlight
    <3>3. RamInv'
      BY <1>9, <2>1, <2>2, <3>1, <3>2 DEF RamInv
    <3> QED BY <1>11, <2>1, <2>2, <3>1, <3>3 DEF ProgressInv, HdrStates, RamStates
  <2>4. CASE ~in.busy
    <3>1. Saved(n + 1)' /\ slot'[0] = Invalid
      BY <1>8, <1>10, <2>1, <2>2, <2>4, SavedMore DEF Waits
    <3>2. /\ payload_word_idx' = n + 1 /\ byte_idx' = 0
          /\ \/ /\ ram_offset # PageWords - 1 /\ ram_offset' = ram_offset + 1
                /\ stream' = "RAM_REQ" /\ ram_page' = ram_page
             \/ /\ ram_offset = PageWords - 1 /\ ram_offset' = 0 /\ ram_page = Pages - 1
                /\ stream' = "WRITE_LEN"
             \/ /\ ram_offset = PageWords - 1 /\ ram_offset' = 0 /\ ram_page # Pages - 1
                /\ stream' = "RAM_REQ" /\ ram_page' = ram_page + 1
      BY <1>21, <2>4 DEF WaitRamWord, Accepted, LastPage
    <3>3. Saved(payload_word_idx)'
      BY <3>1, <3>2 DEF Saved
    <3>4. Bytes(byte_idx)'
      <4>1. Len(word_buf') >= 0
        BY <1>3, <2>1 DEF StreamTypeOK
      <4> QED BY <3>2, <4>1 DEF Bytes
    <3>5. /\ ram_page < Pages /\ ram_offset < PageWords
          /\ n = HdrWords + ram_page * PageWords + ram_offset
          /\ ram_page * PageWords \in Nat
      BY <1>12, <2>2, SMTT(30) DEF RamInv
    <3>6. CASE stream' = "RAM_REQ"
      <4>1. /\ ram_page' < Pages /\ ram_offset' < PageWords
            /\ n + 1 = HdrWords + ram_page' * PageWords + ram_offset'
        <5>1. CASE ram_page' = ram_page /\ ram_offset # PageWords - 1 /\ ram_offset' = ram_offset + 1
          BY <1>12, <3>5, <5>1
        <5>2. CASE /\ ram_offset = PageWords - 1 /\ ram_offset' = 0 /\ ram_page # Pages - 1
                   /\ ram_page' = ram_page + 1
          <6>1. (ram_page + 1) * PageWords = ram_page * PageWords + PageWords
            BY <1>12
          <6> QED BY <1>12, <3>5, <5>2, <6>1
        <5> QED BY <3>2, <3>6, <5>1, <5>2
      <4>2. RamInv'
        BY <1>9, <1>12, <3>2, <3>3, <3>4, <3>6, <4>1 DEF RamInv
      <4> QED BY <1>11, <3>1, <3>6, <4>2 DEF ProgressInv, HdrStates, RamStates
    <3>7. CASE stream' = "WRITE_LEN"
      <4>1. n + 1 = LenWord(snap.ram128)
        <5>1. ram_offset = PageWords - 1 /\ ram_page = Pages - 1
          BY <3>2, <3>7
        <5>2. (Pages - 1) * PageWords = PageWords * Pages - PageWords /\ PageWords * Pages \in Int
          BY <1>12
        <5> QED BY <1>12, <1>19, <3>5, <5>1, <5>2
      <4>2. Saved(LenWord(snap.ram128))'
        BY <1>8, <3>1, <4>1 DEF Saved
      <4> QED BY <1>11, <3>1, <3>7, <4>2 DEF ProgressInv, HdrStates, RamStates
    <3> QED BY <3>2, <3>6, <3>7
  <2> QED BY <2>3, <2>4
<1>22. ASSUME stream \in {"WRITE_LEN", "WAIT_LEN", "WRITE_GEN"},
              ~Lands \/ ddram_addr \in {0, 1}
       PROVE  Saved(LenWord(snap.ram128))'
  <2> PICK n \in Nat : n = LenWord(snap.ram128)
    BY <1>19
  <2>1. Saved(n)'
    BY <1>8, <1>22, SavedStays DEF ProgressInv
  <2> QED BY <1>8, <2>1 DEF Saved
<1>23. CASE WriteLen(in)
  <2>1. /\ stream = "WRITE_LEN" /\ stream' = "WAIT_LEN"
        /\ ddram_addr' = 1 /\ ddram_din' = [len |-> LenWord(saved_ram128)]
    BY <1>23 DEF WriteLen, Put
  <2>2. slot' = slot /\ ~Lands
    BY <1>10, <2>1 DEF Waits, Lands, ControlInv
  <2>3. InFlight(1, [len |-> LenWord(snap.ram128)])'
    BY <1>8, <1>19, <2>1 DEF InFlight
  <2>4. Saved(LenWord(snap.ram128))'
    BY <1>22, <2>1, <2>2
  <2> QED BY <1>11, <2>1, <2>2, <2>3, <2>4 DEF ProgressInv, HdrStates, RamStates
<1>24. CASE WaitLen(in)
  <2>1. stream = "WAIT_LEN" /\ InFlight(1, [len |-> LenWord(snap.ram128)])
    BY <1>24 DEF WaitLen, ProgressInv
  <2>2. Saved(LenWord(snap.ram128))'
    BY <1>22, <2>1 DEF InFlight
  <2>3. slot'[0] = Invalid
    <3>1. slot'[0] = slot[0]
      BY <2>1, SlotZero DEF InFlight
    <3> QED BY <1>11, <2>1, <3>1
  <2>4. CASE in.busy
    <3>1. stream' = "WAIT_LEN" /\ UNCHANGED <<ddram_addr, ddram_din>>
      BY <1>24, <2>4 DEF WaitLen, Accepted, writeVars
    <3>2. InFlight(1, [len |-> LenWord(snap.ram128)])'
      BY <1>8, <2>1, <3>1 DEF InFlight
    <3> QED BY <1>11, <2>2, <2>3, <3>1, <3>2 DEF ProgressInv, HdrStates, RamStates
  <2>5. CASE ~in.busy
    <3>1. stream' = "WRITE_GEN"
      BY <1>24, <2>5 DEF WaitLen, Accepted
    <3>2. slot'[1] = [len |-> LenWord(snap.ram128)]
      BY <1>10, <2>1, <2>5, Landed DEF Waits, InFlight
    <3> QED BY <1>8, <1>11, <2>2, <2>3, <3>1, <3>2 DEF ProgressInv, HdrStates, RamStates
  <2> QED BY <2>4, <2>5
<1>25. CASE WriteGen(in)
  <2>1. /\ stream = "WRITE_GEN" /\ stream' = "WAIT_GEN"
        /\ ddram_addr' = 0 /\ ddram_din' = [gen |-> generation]
    BY <1>25 DEF WriteGen, Put
  <2>2. slot' = slot
    BY <1>10, <2>1 DEF Waits
  <2>3. Valid([gen |-> generation])
    BY <1>3, GenerationWords DEF StreamTypeOK
  <2> QED BY <1>11, <2>1, <2>2, <2>3 DEF ProgressInv, HdrStates, RamStates
<1>26. CASE WaitGen(in)
  <2>1. /\ stream = "WAIT_GEN" /\ stream' = "WAIT_GEN" /\ in.busy /\ slot' = slot
        /\ UNCHANGED <<ddram_addr, ddram_din>>
    BY <1>7, <1>10, <1>26 DEF WaitGen, Accepted, writeVars, Waits
  <2> QED BY <1>11, <2>1 DEF ProgressInv, HdrStates, RamStates
<1> QED BY <1>7, <1>13, <1>14, <1>15, <1>16, <1>17, <1>18, <1>20, <1>21, <1>23, <1>24, <1>25, <1>26

-----------------------------------------------------------------------------
(* The write a clock leaves on the port: the one the slave stalled, or a new
   one; only the last of a save consumes a generation. *)
Stays == ddram_we /\ ddram_busy /\ UNCHANGED <<ddram_addr, ddram_din>>
Invalidates == stream = "WAIT_GRANT" /\ ddram_addr' = 0 /\ ddram_din' = Invalid
Fills ==
    /\ stream \in {"WRITE_HDR_WORD", "WRITE_RAM_WORD", "WRITE_LEN"} /\ ddram_addr' # 0
    /\ ddram_addr' = 1 => ddram_din' = [len |-> LenWord(saved_ram128)]
Publishes ==
    /\ stream = "WRITE_GEN" /\ stream' = "WAIT_GEN"
    /\ ddram_addr' = 0 /\ ddram_din' = [gen |-> generation] /\ generation' = NextGeneration
LEMMA WriteCases ==
    ASSUME TypeOK, ControlInv, Next
    PROVE  /\ ddram_we' => Stays \/ (~ddram_we /\ (Invalidates \/ Fills \/ Publishes))
           /\ Publishes \/ generation' = generation
           /\ stream = "WRITE_GEN" /\ stream' = "WAIT_GEN" => Publishes /\ ddram_we'
           /\ Works /\ ~Works' => save_abort \/ (stream = "WAIT_GEN" /\ done')
<1> DEFINE in == StreamPorts
<1>1. /\ in.reset = save_abort /\ in.grant = b_grant /\ (ddram_we => (in.busy <=> ddram_busy))
  BY Sampled, Landed
<1>2. StreamClock(in)
  BY DEF Next
<1> HIDE DEF in
<1>3. /\ hdr_word_idx \in Nat /\ payload_word_idx \in Nat /\ {ddram_we, ddram_busy} \subseteq BOOLEAN
      /\ ddram_we <=> stream \in Waits \cup {"QUIESCE"}
  BY DEF TypeOK, StreamTypeOK, ControlInv
<1> DEFINE Row ==
      /\ ddram_we' => Stays \/ (~ddram_we /\ (Invalidates \/ Fills \/ Publishes))
      /\ Publishes \/ generation' = generation
      /\ stream = "WRITE_GEN" /\ stream' = "WAIT_GEN" => Publishes /\ ddram_we'
      /\ Works /\ ~Works' => save_abort \/ (stream = "WAIT_GEN" /\ done')
<1> USE <1>1, <1>3 DEF Waits, Works, Taken, Accepted, Put, Consume, writeVars
<1>4. CASE StreamReset(in)
  BY <1>4 DEF StreamReset, Stalled, Stays
<1>5. CASE Quiesce(in)
  BY <1>5 DEF Quiesce, Stays
<1>6. CASE ~in.reset /\ (StreamIdle(in) \/ RamReq(in))
  BY <1>6 DEF StreamIdle, RamReq
<1>7. CASE ~in.reset /\ WaitGrant(in)
  BY <1>7 DEF WaitGrant, PutInvalid, Invalidates
<1>8. CASE ~in.reset /\ WaitInvalidGen(in)
  BY <1>8 DEF WaitInvalidGen, Stays
<1>9. CASE ~in.reset /\ WaitHdrWord(in)
  <2>1. /\ stream = "WAIT_HDR_WORD" /\ generation' = generation
        /\ stream' \in {"WAIT_HDR_WORD", "RAM_REQ", "WRITE_HDR_WORD"}
    BY <1>9 DEF WaitHdrWord
  <2>2. \/ in.busy /\ ddram_we' = ddram_we /\ UNCHANGED <<ddram_addr, ddram_din>>
        \/ ~in.busy /\ ddram_we' = FALSE
    BY <1>9 DEF WaitHdrWord
  <2>3. ddram_we' => Stays
    BY <2>1, <2>2 DEF Stays
  <2> QED BY <2>1, <2>3
<1>10. CASE ~in.reset /\ RamWaitAck(in)
  BY <1>10 DEF RamWaitAck
<1>11. CASE ~in.reset /\ (WriteHdrWord(in) \/ WriteRamWord(in) \/ WriteLen(in))
  BY <1>11 DEF WriteHdrWord, WriteRamWord, WriteLen, Fills
<1>12. CASE ~in.reset /\ WaitRamWord(in)
  <2>1. /\ stream = "WAIT_RAM_WORD" /\ generation' = generation
        /\ stream' \in {"WAIT_RAM_WORD", "RAM_REQ", "WRITE_LEN"}
    BY <1>12 DEF WaitRamWord
  <2>2. ddram_we' => Stays
    BY <1>12 DEF WaitRamWord, Stays
  <2> QED BY <2>1, <2>2
<1>13. CASE ~in.reset /\ WaitLen(in)
  BY <1>13 DEF WaitLen, Stays
<1>14. CASE ~in.reset /\ WriteGen(in)
  BY <1>14 DEF WriteGen, Publishes
<1>15. CASE ~in.reset /\ done' = Published(in) /\ WaitGen(in)
  BY <1>15 DEF WaitGen, Stays, Published
<1> QED BY <1>2, <1>4, <1>5, <1>6, <1>7, <1>8, <1>9, <1>10, <1>11, <1>12, <1>13, <1>14, <1>15
        DEF StreamClock

LEMMA StallStays ==
    ASSUME TypeOK, ControlInv, Next, ddram_we, ddram_busy
    PROVE  ddram_we' /\ UNCHANGED <<ddram_addr, ddram_din>>
<1> DEFINE in == StreamPorts
<1>1. in.busy /\ StreamClock(in)
  BY Sampled, Landed DEF Next
<1> HIDE DEF in
<1>2. stream \in Waits \cup {"QUIESCE"} /\ ddram_we \in BOOLEAN
  BY DEF ControlInv, TypeOK, StreamTypeOK
<1>3. ddram_we' = ddram_we /\ UNCHANGED <<ddram_addr, ddram_din>>
  <2>1. CASE StreamReset(in) \/ Quiesce(in)
    BY <1>1, <2>1 DEF StreamReset, Quiesce, Stalled, writeVars
  <2>2. CASE WaitInvalidGen(in) \/ WaitHdrWord(in) \/ WaitRamWord(in)
    BY <1>1, <2>2 DEF WaitInvalidGen, WaitHdrWord, WaitRamWord, Accepted, writeVars
  <2>3. CASE WaitLen(in) \/ WaitGen(in)
    BY <1>1, <2>3 DEF WaitLen, WaitGen, Accepted, writeVars
  <2> QED BY <1>1, <1>2, <2>1, <2>2, <2>3 DEF Waits, StreamClock, StreamIdle, WaitGrant,
             WriteHdrWord, RamReq, RamWaitAck, WriteRamWord, WriteLen, WriteGen
<1> QED BY <1>3

LEMMA SlotStep ==
    ASSUME TypeOK, ControlInv, FrozenInv, ProgressInv, SlotInv, Next
    PROVE  SlotInv'
<1>1. /\ slot \in [Slot -> SlotWords] /\ 0 \in Slot /\ 1 \in Slot
      /\ slot' = IF Lands THEN [slot EXCEPT ![ddram_addr] = ddram_din] ELSE slot
      /\ slot'[0] = IF Lands /\ ddram_addr = 0 THEN ddram_din ELSE slot[0]
      /\ slot'[0] \in Generations
  BY Landed, SlotZero, SlotIndex
<1>2. /\ ~Publishes => taken' = taken
      /\ Publishes => taken' = [taken EXCEPT ![generation] = snap] /\ ~ddram_we
      /\ generation \in 1..LastGeneration /\ taken \in [1..LastGeneration -> Machines]
  <2>1. ~Publishes => taken' = taken
    BY WriteCases DEF Next, Ghosts
  <2>2. Publishes => taken' = [taken EXCEPT ![generation] = snap]
    BY DEF Next, Ghosts, Publishes
  <2>3. Publishes => ~ddram_we
    BY DEF Publishes, ControlInv, Waits
  <2>4. generation \in 1..LastGeneration /\ taken \in [1..LastGeneration -> Machines]
    BY DEF TypeOK, StreamTypeOK
  <2> QED BY <2>1, <2>2, <2>3, <2>4
<1>3. ASSUME NEW g \in 1..LastGeneration, Complete(g), taken' = taken,
             slot' = slot \/ (Lands /\ ddram_addr = 0)
      PROVE  Complete(g)'
  <2>1. taken[g].ram128 \in BOOLEAN
    BY <1>2 DEF Machines
  <2>2. LenWord(taken[g].ram128) \in Nat
    BY <2>1, Sizes
  <2>3. slot'[1] = slot[1]
    BY <1>1, <1>3
  <2>4. ASSUME NEW i \in 0..(LenWord(taken[g].ram128) - 1) PROVE slot'[2 + i] = slot[2 + i]
    <3>1. 2 + i \in Slot /\ 2 + i # 0
      BY <2>1, <2>2, SlotIndex
    <3> QED BY <1>1, <1>3, <3>1
  <2> QED BY <1>3, <2>3, <2>4 DEF Complete
<1>4. ASSUME Valid(slot'[0]) PROVE Complete(slot[0].gen)'
  <2>1. slot'[0].gen \in 1..LastGeneration
    BY <1>1, <1>4, GenerationWords
  <2>2. ~Valid(Invalid)
    BY GenerationWords
  <2>3. ~Publishes
    <3>1. Publishes => slot[0] = Invalid /\ ~ddram_we
      BY <1>2 DEF ProgressInv, Publishes, Works
    <3> QED BY <1>1, <1>4, <2>2, <3>1 DEF Lands
  <2>4. taken' = taken
    BY <1>2, <2>3
  <2>5. slot' = slot \/ (Lands /\ ddram_addr = 0)
    BY <1>1, <1>4, <2>2 DEF Lands, SlotInv
  <2>6. Complete(slot'[0].gen)
    BY <1>1, <1>4, <2>5 DEF Lands, SlotInv
  <2> DEFINE g == slot'[0].gen
  <2>7. ASSUME NEW k \in 1..LastGeneration, k = g PROVE Complete(k)'
    BY <1>3, <2>4, <2>5, <2>6, <2>7
  <2> QED BY <2>1, <2>7 DEF Complete
<1>5. ASSUME ddram_we', ddram_addr' = 0
      PROVE  ddram_din' \in Generations /\ (Valid(ddram_din') => Complete(ddram_din.gen)')
  <2>1. CASE Stays
    <3>1. /\ ddram_din' = ddram_din /\ ddram_addr = 0 /\ ~Lands /\ slot' = slot
          /\ ~Publishes
      BY <1>1, <1>2, <1>5, <2>1 DEF Stays, Lands
    <3>2. ddram_din \in Generations /\ (Valid(ddram_din) => Complete(ddram_din.gen))
      BY <2>1, <3>1 DEF SlotInv, Stays
    <3>3. ASSUME Valid(ddram_din) PROVE Complete(ddram_din.gen)'
      <4>1. ddram_din.gen \in 1..LastGeneration
        BY <3>2, <3>3, GenerationWords
      <4>2. ASSUME NEW k \in 1..LastGeneration, k = ddram_din.gen PROVE Complete(k)'
        BY <1>2, <1>3, <3>1, <3>2, <3>3, <4>2
      <4> QED BY <3>1, <4>1, <4>2 DEF Complete
    <3> QED BY <3>1, <3>2, <3>3
  <2>2. CASE ~ddram_we /\ Invalidates
    BY <2>2, GenerationWords DEF Invalidates
  <2>3. CASE ~ddram_we /\ Fills
    BY <1>5, <2>3 DEF Fills
  <2>4. CASE ~ddram_we /\ Publishes
    <3>1. ddram_din' = [gen |-> generation] /\ ddram_din'.gen = generation
      BY <2>4 DEF Publishes
    <3>2. slot' = slot /\ taken'[generation] = snap
      BY <1>1, <1>2, <2>4 DEF Lands
    <3>3. slot[1] = [len |-> LenWord(snap.ram128)] /\ Saved(LenWord(snap.ram128))
      BY <2>4 DEF ProgressInv, Publishes
    <3>4. Complete(ddram_din.gen)'
      BY <3>1, <3>2, <3>3 DEF Complete, Saved
    <3> QED BY <1>2, <3>1, <3>4, GenerationWords
  <2> QED BY <1>5, <2>1, <2>2, <2>3, <2>4, WriteCases
<1>6. ASSUME ddram_we', ddram_addr' # 0 PROVE slot'[0] = Invalid
  <2>1. CASE Stays
    BY <1>1, <1>6, <2>1 DEF Stays, Lands, SlotInv
  <2>2. CASE ~ddram_we /\ Fills
    <3>1. slot[0] = Invalid
      BY <2>2 DEF Fills, ProgressInv, Works
    <3> QED BY <1>1, <2>2, <3>1 DEF Lands
  <2>3. CASE ~ddram_we /\ (Invalidates \/ Publishes)
    BY <1>6, <2>3 DEF Invalidates, Publishes
  <2> QED BY <1>6, <2>1, <2>2, <2>3, WriteCases
<1> QED BY <1>1, <1>4, <1>5, <1>6 DEF SlotInv

-----------------------------------------------------------------------------
LEMMA InitIInv == Init => IInv
<1> SUFFICES ASSUME Init PROVE IInv
  OBVIOUS
<1> USE DEF Init, CaptureInit, StreamInit, DdrMuxInit
<1>0. /\ HdrWords \in Nat /\ PageWords \in Nat /\ WordBytes \in Nat /\ Pages128 \in Nat
      /\ PageWords > 0 /\ WordBytes > 0 /\ Pages128 > 0
      /\ LastGeneration \in Nat /\ LastGeneration > 1 /\ MaxPresses \in Nat
  BY Sizes, SaveAssumption
<1>1. CaptureTypeOK
  BY DEF CaptureTypeOK, NoHeader
<1>2. <<0, 0, 0>> \in Addr
  BY <1>0 DEF Addr
<1>3. Invalid \in SlotWords /\ 0 \in Slot
  BY SlotIndex DEF Invalid, SlotWords
<1>4. StreamTypeOK
  <2>1. <<>> \in Seq(Data)
    OBVIOUS
  <2> QED BY <1>0, <1>2, <1>3, <2>1 DEF StreamTypeOK
<1>5. ram \in [Addr -> Data] /\ cart_dout \in Data
  BY <1>2 DEF Data
<1>6. State \in Machines
  BY <1>5 DEF State, Machines
<1>7. snap \in Machines /\ taken \in [1..LastGeneration -> Machines]
  BY <1>6
<1>8. slot \in [Slot -> SlotWords] /\ slot[0] = Invalid
  BY <1>3
<1>9. TypeOK
  <2>1. {b_grant, ram128, insn_start, cen_gap, rampage_ok, save_abort} \subseteq BOOLEAN
    OBVIOUS
  <2>2. {cart_ack, a_we, ddram_busy} \subseteq BOOLEAN
    OBVIOUS
  <2>3. /\ cpu \in Nat /\ writes \in Nat /\ presses \in 0..MaxPresses /\ a_sent \in Nat
        /\ marks \in Nat /\ published \in 0..LastGeneration
    BY <1>0
  <2> QED BY <1>1, <1>4, <1>5, <1>7, <1>8, <2>1, <2>2, <2>3 DEF TypeOK
<1>10. ControlInv /\ FrozenInv
  BY DEF ControlInv, FrozenInv, Works, Waits
<1>11. ProgressInv
  BY DEF ProgressInv, Works, HdrStates, RamStates
<1>12. SlotInv
  BY <1>8, GenerationWords DEF SlotInv
<1> QED BY <1>9, <1>10, <1>11, <1>12 DEF IInv

LEMMA IInvStutter == IInv /\ UNCHANGED vars => IInv'
<1> SUFFICES ASSUME IInv, UNCHANGED vars PROVE IInv'
  OBVIOUS
<1> USE DEF IInv, vars, captureVars, streamVars, indexVars, cartVars, writeVars, cpuVars, envVars,
        ddrVars
<1>1. TypeOK'
  <2>1. CaptureTypeOK' /\ StreamTypeOK'
    BY DEF TypeOK, CaptureTypeOK, StreamTypeOK
  <2> QED BY <2>1 DEF TypeOK
<1>2. ControlInv' /\ FrozenInv'
  BY DEF ControlInv, FrozenInv, Works, Waits, State
<1>3. ProgressInv'
  BY DEF ProgressInv, RamInv, Works, HdrStates, RamStates, Saved, Bytes, InFlight, Pages
<1>4. SlotInv'
  BY DEF SlotInv, Complete
<1> QED BY <1>1, <1>2, <1>3, <1>4

LEMMA Inductive == IInv /\ [Next]_vars => IInv'
<1>1. ASSUME IInv, Next PROVE IInv'
  BY <1>1, TypeStep, ControlStep, FrozenStep, ProgressStep, SlotStep DEF IInv
<1> QED BY <1>1, IInvStutter

(* The inductive invariant: the handshakes, the machine that stands still, how
   much of it each state of the stream has written, and what the generation in
   the slot, or on its way there, stands for. *)
THEOREM InvariantHolds == Spec => []IInv
<1> QED BY InitIInv, Inductive, PTL DEF Spec

(* "Word 0 carries an explicit invalid generation while a save is in" progress:
   for every geometry, through aborts on any clock, a valid generation in the slot
   means that length and payload are the state frozen for it. *)
THEOREM SnapshotIsPublished == Spec => []PublishedIsSnapshot
<1>1. IInv => PublishedIsSnapshot
  <2> SUFFICES ASSUME IInv, Valid(slot[0])
               PROVE  LET s == taken[slot[0].gen]
                          p == Payload(s)
                      IN /\ slot[1] = [len |-> LenWord(s.ram128)]
                         /\ \A i \in DOMAIN p : slot[2 + i] = p[i]
    BY DEF PublishedIsSnapshot
  <2> DEFINE s == taken[slot[0].gen]
  <2>1. Complete(slot[0].gen)
    BY DEF IInv, SlotInv
  <2>2. DOMAIN Payload(s) = 0..(LenWord(s.ram128) - 1)
    BY DEF Payload
  <2> QED BY <2>1, <2>2 DEF Complete
<1> QED BY <1>1, InvariantHolds, PTL

(* Avalon: whoever presents a write that the slave stalls, it stays as it is,
   through resets, loads and changes of owner. *)
THEOREM StalledWriteStays == Spec => StalledWriteHeld
<1>1. ASSUME IInv, Next, DDRAM_WE, ddram_busy PROVE DDRAM_WE' /\ DDRAM' = DDRAM
  <2>0. {b_grant, ddram_we, a_we} \subseteq BOOLEAN /\ TypeOK /\ ControlInv
    BY <1>1 DEF IInv, TypeOK, StreamTypeOK
  <2>1. CASE b_grant
    <3>1. ddram_we /\ ddram_we' /\ UNCHANGED <<ddram_addr, ddram_din>>
      BY <1>1, <2>0, <2>1, StallStays DEF DDRAM_WE
    <3>2. b_grant'
      BY <1>1, <2>1, <3>1, Sampled DEF Next, DdrMuxClock, Lend, TakeBack
    <3> QED BY <2>1, <3>1, <3>2 DEF DDRAM_WE, DDRAM
  <2>2. CASE ~b_grant
    <3>1. a_we /\ ~b_grant'
      BY <1>1, <2>0, <2>2, Sampled DEF Next, DdrMuxClock, Lend, TakeBack, DDRAM_WE
    <3>2. UNCHANGED <<a_we, a_sent>>
      BY <1>1 DEF Next, MarkerStep, ABusy
    <3> QED BY <2>2, <3>1, <3>2 DEF DDRAM_WE, DDRAM
  <2> QED BY <2>1, <2>2
<1>2. ASSUME IInv, [Next]_vars PROVE [DDRAM_WE /\ ddram_busy => DDRAM_WE' /\ DDRAM' = DDRAM]_vars
  BY <1>1, <1>2
<1> QED BY <1>2, InvariantHolds, PTL DEF Spec, StalledWriteHeld

(* The marker's port under the loan: what it takes for accepted is in its ring,
   and no other write of its own is. *)
THEOREM MarksLand == Spec => []MarkerWritesLand
<1>1. Init => MarkerWritesLand
  BY DEF Init, MarkerWritesLand
<1>2. MarkerWritesLand /\ [Next]_vars => MarkerWritesLand'
  <2>1. ASSUME MarkerWritesLand, Next PROVE MarkerWritesLand'
    BY <2>1 DEF Next, MarkerStep, DdrStep, ABusy, MarkerWritesLand
  <2>2. ASSUME MarkerWritesLand, UNCHANGED vars PROVE MarkerWritesLand'
    BY <2>2 DEF MarkerWritesLand, vars, ddrVars
  <2> QED BY <2>1, <2>2
<1> QED BY <1>1, <1>2, PTL DEF Spec

-----------------------------------------------------------------------------
(* A generation that lands, and the one published last. *)
LEMMA LastWrite ==
    ASSUME TypeOK, ControlInv, SlotInv, Next, slot' # slot, Valid(slot'[0])
    PROVE  Lands /\ GenInFlight /\ slot'[0] = ddram_din
<1>1. Lands /\ ~Valid(Invalid)
  BY Landed, GenerationWords
<1>2. ddram_addr = 0
  BY <1>1, SlotZero DEF Lands, SlotInv
<1> QED BY <1>1, <1>2, SlotZero DEF Lands, GenInFlight

LEMMA Reissued ==
    ASSUME TypeOK
    PROVE  /\ generation \in 1..LastGeneration /\ NextGeneration # generation
           /\ published \in 0..LastGeneration /\ LastGeneration \in Nat
           /\ generation # LastGeneration => NextGeneration = generation + 1
  BY Sizes DEF TypeOK, StreamTypeOK, NextGeneration

LEMMA PublishStep ==
    ASSUME TypeOK, ControlInv, SlotInv, GenInv, Next
    PROVE  /\ GenInFlight /\ Lands =>
                published' = ddram_din.gen /\ ~ddram_we' /\ generation' = generation
           /\ ~(GenInFlight /\ Lands) => published' = published
           /\ GenInFlight /\ ~Lands => GenInFlight' /\ ddram_din' = ddram_din /\ generation' = generation
           /\ ~GenInFlight /\ GenInFlight' => Publishes
           /\ ~GenInFlight /\ ~GenInFlight' => generation' = generation
<1>1. published' = IF slot' # slot /\ Valid(slot'[0]) THEN slot'[0].gen ELSE published
  BY DEF Next, Ghosts
<1>2. Publishes => ~ddram_we /\ generation \in 1..LastGeneration
  BY Reissued DEF Publishes, ControlInv, Waits
<1>3. Stays => ddram_we /\ ddram_busy /\ UNCHANGED <<ddram_addr, ddram_din>>
  BY DEF Stays
<1>4. ASSUME GenInFlight, Lands
      PROVE  published' = ddram_din.gen /\ ~ddram_we' /\ generation' = generation
  <2>1. slot'[0] = ddram_din /\ Valid(slot'[0])
    BY <1>4, SlotZero DEF GenInFlight
  <2>2. slot' # slot
    BY <1>4, <2>1 DEF GenInv
  <2>3. ~ddram_we' /\ generation' = generation
    BY <1>2, <1>3, <1>4, WriteCases DEF Lands
  <2> QED BY <1>1, <2>1, <2>2, <2>3
<1>5. ASSUME ~(GenInFlight /\ Lands) PROVE published' = published
  BY <1>1, <1>5, LastWrite
<1>6. ASSUME GenInFlight, ~Lands
      PROVE  GenInFlight' /\ ddram_din' = ddram_din /\ generation' = generation
  <2>1. ddram_we' /\ UNCHANGED <<ddram_addr, ddram_din>>
    BY <1>6, StallStays DEF Lands, GenInFlight
  <2>2. generation' = generation
    BY <1>2, <1>6, WriteCases DEF GenInFlight
  <2> QED BY <1>6, <2>1, <2>2 DEF GenInFlight
<1>7. ASSUME ~GenInFlight, GenInFlight' PROVE Publishes
  <2>1. /\ ddram_we' /\ ddram_addr' = 0 /\ Valid(ddram_din') /\ ~Valid(Invalid)
    BY <1>7, GenerationWords DEF GenInFlight
  <2>2. ~Stays /\ ~Invalidates /\ ~Fills
    BY <1>7, <2>1 DEF Stays, Invalidates, Fills, GenInFlight
  <2> QED BY <2>1, <2>2, WriteCases
<1>8. ASSUME ~GenInFlight, ~GenInFlight' PROVE generation' = generation
  <2>1. Publishes => GenInFlight'
    <3>1. Publishes => ddram_we' /\ Valid([gen |-> generation])
      BY <1>2, WriteCases, GenerationWords DEF Publishes
    <3> QED BY <3>1 DEF Publishes, GenInFlight
  <2> QED BY <1>8, <2>1, WriteCases
<1> QED BY <1>4, <1>5, <1>6, <1>7, <1>8

LEMMA GenStep ==
    ASSUME TypeOK, ControlInv, SlotInv, GenInv, Next
    PROVE  GenInv'
<1>1. Valid(slot'[0]) => slot'[0].gen = published'
  BY DEF Next, Ghosts, GenInv
<1>2. /\ Publishes => ddram_din'.gen = generation /\ generation' # generation
  BY Reissued DEF Publishes
<1>3. CASE GenInFlight /\ Lands
  BY <1>1, <1>3, PublishStep DEF GenInv, GenInFlight
<1>4. CASE GenInFlight /\ ~Lands
  BY <1>1, <1>4, PublishStep DEF GenInv
<1>5. CASE ~GenInFlight /\ GenInFlight'
  <2>1. Publishes /\ published' = published
    BY <1>5, PublishStep
  <2> QED BY <1>1, <1>2, <1>5, <2>1 DEF GenInv
<1>6. CASE ~GenInFlight /\ ~GenInFlight'
  BY <1>1, <1>6, PublishStep DEF GenInv
<1> QED BY <1>3, <1>4, <1>5, <1>6

LEMMA InitGen == Init => GenInv /\ CountInv /\ LenInv /\ PullInv
<1> SUFFICES ASSUME Init PROVE GenInv /\ CountInv /\ LenInv /\ PullInv
  OBVIOUS
<1> USE DEF Init, CaptureInit, StreamInit
<1>1. slot[0] = Invalid /\ ~Valid(slot[0])
  BY SlotIndex, GenerationWords
<1>2. ~GenInFlight /\ ~Unissued
  BY DEF GenInFlight, Unissued
<1>3. GenInv
  BY <1>1, <1>2 DEF GenInv
<1>4. CountInv
  BY <1>2 DEF CountInv
<1>5. PullInv
  <2>1. <<>> \in Seq(SlotWords) /\ Len(<<>>) = 0 /\ LastGeneration \in Nat
    BY Sizes
  <2>2. host \in Pulls
    BY <2>1 DEF Pulls, NoPull
  <2> QED BY <2>1, <2>2 DEF PullInv, NoPull
<1>6. LenInv
  <2>1. slot[1] = Invalid /\ ~Legal(Invalid)
    BY SlotIndex DEF Legal, Invalid
  <2> QED BY <2>1 DEF LenInv
<1> QED BY <1>3, <1>4, <1>5, <1>6

LEMMA LenStep ==
    ASSUME TypeOK, ControlInv, LenInv, Next
    PROVE  LenInv'
<1>1. 1 \in Slot
  BY SlotIndex
<1>2. Legal(slot'[1]) => slot'[1] \in LenWords
  BY <1>1, Landed DEF LenInv, Lands
<1>3. ASSUME ddram_we', ddram_addr' = 1 PROVE ddram_din' \in LenWords
  <2>1. CASE Stays
    BY <1>3, <2>1 DEF Stays, LenInv
  <2>2. CASE ~ddram_we /\ Fills
    <3>1. saved_ram128 \in BOOLEAN
      BY DEF TypeOK, StreamTypeOK
    <3>2. ddram_din' = [len |-> LenWord(saved_ram128)]
      BY <1>3, <2>2 DEF Fills
    <3>3. saved_ram128 = TRUE \/ saved_ram128 = FALSE
      BY <3>1
    <3>4. LenWord(saved_ram128) \in {Long, Short}
      BY <3>3 DEF Long, Short
    <3> QED BY <3>2, <3>4 DEF LenWords
  <2>3. ~Invalidates /\ ~Publishes
    BY <1>3 DEF Invalidates, Publishes
  <2> QED BY <1>3, <2>1, <2>2, <2>3, WriteCases
<1> QED BY <1>2, <1>3 DEF LenInv

LEMMA AfterWaitGen ==
    ASSUME TypeOK, ControlInv, Next, stream = "WAIT_GEN", ~save_abort
    PROVE  stream' = "WAIT_GEN" \/ done'
<1> DEFINE in == StreamPorts
<1>1. in.reset = save_abort /\ StreamClock(in)
  BY Sampled DEF Next
<1> HIDE DEF in
<1>2. done' = Published(in) /\ WaitGen(in)
  BY <1>1 DEF StreamClock, StreamReset, Quiesce, StreamIdle, WaitGrant, WaitInvalidGen, WriteHdrWord,
     WaitHdrWord, RamReq, RamWaitAck, WriteRamWord, WaitRamWord, WriteLen, WaitLen, WriteGen
<1> QED BY <1>2 DEF WaitGen, Published, Accepted

LEMMA CountStep ==
    ASSUME MaxPresses < LastGeneration, TypeOK, ControlInv, SlotInv, GenInv, CountInv, Next
    PROVE  CountInv' /\ published' >= published
<1>1. /\ generation \in 1..LastGeneration /\ published \in 0..LastGeneration
      /\ LastGeneration \in Nat /\ presses \in 0..MaxPresses /\ MaxPresses \in Nat
      /\ presses' \in {presses, presses + 1}
      /\ generation # LastGeneration => NextGeneration = generation + 1
  BY Reissued, CaptureCases, SaveAssumption DEF TypeOK
<1>2. ASSUME Unissued', ~Unissued PROVE presses' = presses + 1 /\ ~Publishes
  <2>1. ~Publishes
    BY <1>2 DEF Unissued, Publishes, ControlInv, Works
  <2>2. capture \in {"IDLE", "ARMED", "HELD"} /\ capture # "ARMED"
    BY <1>2 DEF Unissued, TypeOK, CaptureTypeOK
  <2>3. CASE capture = "IDLE"
    <3>1. capture' = "ARMED" \/ capture' = "HELD"
      BY <1>2 DEF Unissued
    <3>2. CaptureApart
      BY <2>3, <3>1, CaptureCases DEF CaptureAborts, CaptureHolds, CaptureEnds, CaptureFreezes
    <3> QED BY <2>1, <2>3, <3>1, <3>2 DEF CaptureApart
  <2>4. CASE capture = "HELD"
    <3>1. CaptureHolds /\ ~save_abort
      BY <1>2, <2>4, CaptureCases DEF Unissued, CaptureAborts, CaptureEnds, CaptureFreezes, CaptureApart
    <3>2. stream = "WAIT_GEN"
      BY <1>2, <2>4, <3>1 DEF Unissued, CaptureHolds
    <3>3. capture' = "HELD" /\ stream' # "WAIT_GEN" /\ ~done'
      BY <1>2, <3>1 DEF Unissued, CaptureHolds
    <3> QED BY <3>1, <3>2, <3>3, AfterWaitGen
  <2> QED BY <2>1, <2>2, <2>3, <2>4
<1>3. ASSUME Publishes
      PROVE  Unissued /\ ~Unissued' /\ generation' = generation + 1
  <2>1. capture = "HELD" /\ ~done /\ stream = "WRITE_GEN" /\ stream' = "WAIT_GEN"
    BY <1>3 DEF Publishes, ControlInv, Works
  <2>2. Unissued
    BY <2>1 DEF Unissued
  <2>3. ~Unissued'
    BY <2>1, CaptureCases DEF Unissued, CaptureAborts, CaptureHolds, CaptureEnds, CaptureFreezes,
       CaptureApart
  <2>4. generation # LastGeneration
    BY <1>1, <2>2 DEF CountInv
  <2> QED BY <1>1, <1>3, <2>2, <2>3, <2>4 DEF Publishes
<1>4. generation' - 1 + (IF Unissued' THEN 1 ELSE 0) <= presses'
  <2>1. CASE Publishes
    BY <1>1, <1>3, <2>1 DEF CountInv
  <2>2. CASE ~Publishes
    BY <1>1, <1>2, <2>2, WriteCases DEF CountInv
  <2> QED BY <2>1, <2>2
<1>5. /\ published' < generation' /\ published' >= published
      /\ GenInFlight' => ddram_din'.gen = generation' - 1 /\ published' < generation' - 1
  <2>1. CASE GenInFlight /\ Lands
    <3>1. published' = ddram_din.gen /\ ~GenInFlight' /\ generation' = generation
      BY <2>1, PublishStep DEF GenInFlight
    <3> QED BY <1>1, <2>1, <3>1 DEF CountInv
  <2>2. CASE GenInFlight /\ ~Lands
    <3>1. published' = published /\ ddram_din' = ddram_din /\ generation' = generation
      BY <2>2, PublishStep
    <3> QED BY <1>1, <2>2, <3>1 DEF CountInv
  <2>3. CASE ~GenInFlight /\ GenInFlight'
    <3>1. Publishes /\ published' = published
      BY <2>3, PublishStep
    <3>2. ddram_din'.gen = generation
      BY <3>1 DEF Publishes
    <3> QED BY <1>1, <1>3, <3>1, <3>2 DEF CountInv
  <2>4. CASE ~GenInFlight /\ ~GenInFlight'
    <3>1. published' = published /\ generation' = generation
      BY <2>4, PublishStep
    <3> QED BY <1>1, <2>4, <3>1 DEF CountInv
  <2> QED BY <2>1, <2>2, <2>3, <2>4
<1> QED BY <1>4, <1>5 DEF CountInv

-----------------------------------------------------------------------------
(* A pull against the saves that rewrite the slot under it. *)
LEMMA Unrivalled ==
    ASSUME TypeOK, ControlInv, SlotInv, GenInv, CountInv, Next, Valid(slot'[0]),
           NEW g \in 1..published, g = published'
    PROVE  slot' = slot /\ g = published
<1>1. published \in 0..LastGeneration /\ generation \in 1..LastGeneration /\ LastGeneration \in Nat
  BY Reissued
<1>2. ~(GenInFlight /\ Lands)
  <2>1. SUFFICES ASSUME GenInFlight, Lands PROVE FALSE
    OBVIOUS
  <2>2. published' = ddram_din.gen
    BY <2>1, PublishStep
  <2>3. ddram_din.gen = generation - 1 /\ published < generation - 1
    BY <2>1 DEF CountInv
  <2> QED BY <1>1, <2>2, <2>3
<1>3. slot' = slot
  BY <1>2, LastWrite
<1>4. published' = published
  BY <1>2, PublishStep
<1> QED BY <1>3, <1>4

LEMMA TakenStays ==
    ASSUME TypeOK, CountInv, Next, NEW g \in 1..published
    PROVE  taken'[g] = taken[g] /\ g \in 1..LastGeneration
<1>1. published \in 0..LastGeneration /\ generation \in 1..LastGeneration /\ LastGeneration \in Nat
      /\ published < generation
  BY Reissued DEF CountInv
<1>2. taken' = taken \/ taken' = [taken EXCEPT ![generation] = snap]
  BY DEF Next, Ghosts
<1> QED BY <1>1, <1>2 DEF TypeOK

LEMMA PullStep ==
    ASSUME MaxPresses < LastGeneration, TypeOK, ControlInv, SlotInv, GenInv, CountInv, LenInv,
           PullInv, Next
    PROVE  PullInv'
<1>1. /\ published \in 0..LastGeneration /\ published' \in Nat /\ LastGeneration \in Nat
      /\ published' >= published
  <2>1. published' \in Nat
    BY SlotZero, GenerationWords, Reissued DEF Next, Ghosts
  <2> QED BY <2>1, Reissued, CountStep
<1>2. Long \in Nat /\ Short \in Nat
  BY Sizes DEF Long, Short
<1>3. /\ host \in Pulls /\ host.at \in Nat /\ host.len \in Nat /\ host.gen \in 0..LastGeneration
      /\ host.image \in Seq(SlotWords)
  BY <1>2 DEF PullInv, Pulls
<1>4. NoPull \in Pulls
  <2>1. <<>> \in Seq(SlotWords)
    OBVIOUS
  <2> QED BY <1>1, <2>1 DEF NoPull, Pulls
(* What the pull has is still there if its generation still is. *)
<1>5. ASSUME host.at > 0, host.gen = published', Valid(slot'[0])
      PROVE  /\ slot' = slot /\ host.gen = published /\ Current /\ Copied(host.gen)
             /\ Complete(host.gen) /\ host.gen \in 1..LastGeneration
  <2>1. host.gen \in 1..published
    BY <1>5 DEF PullInv
  <2>2. slot' = slot /\ host.gen = published
    BY <1>5, <2>1, Unrivalled
  <2>3. Current /\ Copied(host.gen)
    BY <1>5, <2>2 DEF Current, PullInv
  <2>4. Complete(host.gen)
    BY <1>5, <2>2 DEF GenInv, SlotInv
  <2> QED BY <1>1, <2>1, <2>2, <2>3, <2>4
<1>6. ASSUME NEW g \in 1..published, host'.at >= 2 => host'.len = LenWord(taken[g].ram128),
             \A k \in 1..Len(host'.image) : host'.image[k] = Payload(taken[g])[k - 1],
             host'.gen = g
      PROVE  Copied(host.gen)'
  <2>1. taken'[g] = taken[g]
    BY TakenStays
  <2> QED BY <1>6, <2>1 DEF Copied
<1>7. CASE host' = host
  <2>1. ASSUME host.at > 0, Current' PROVE Copied(host.gen)'
    <3>1. Copied(host.gen) /\ host.gen \in 1..published
      BY <1>5, <1>7, <2>1 DEF Current, PullInv
    <3>2. /\ host'.at >= 2 => host'.len = LenWord(taken[host.gen].ram128)
          /\ \A k \in 1..Len(host'.image) : host'.image[k] = Payload(taken[host.gen])[k - 1]
      BY <1>3, <1>7, <3>1 DEF Copied
    <3> QED BY <1>6, <1>7, <3>1, <3>2
  <2>2. host.at > 0 => host.gen \in 1..published'
    BY <1>1, <1>3 DEF PullInv
  <2> QED BY <1>7, <2>1, <2>2 DEF PullInv
<1>8. CASE host' = NoPull
  BY <1>4, <1>8 DEF PullInv, NoPull
<1> DEFINE at == host.at
           len == host.len
<1>15. /\ Further \in Pulls /\ Further.at = at + 1 /\ Further.gen = host.gen
       /\ Further.len = host.len /\ Further.image = host.image
  BY <1>3 DEF Further, Pulls
<1>9. CASE HostReads /\ at = 0
  <2>1. host' = IF Valid(slot[0]) THEN [Further EXCEPT !.gen = slot[0].gen] ELSE NoPull
    <3>1. Word = slot[0]
      BY <1>9 DEF Word
    <3> QED BY <1>3, <1>9, <3>1 DEF HostReads, HeaderAgain
  <2>2. CASE Valid(slot[0])
    <3>1. slot[0].gen \in 1..published /\ slot[0].gen \in 0..LastGeneration
      BY <1>1, <2>2, GenerationWords DEF GenInv, SlotInv
    <3>2. /\ host' \in Pulls /\ host'.at = 1 /\ host'.gen = slot[0].gen
          /\ host'.len = host.len /\ host'.image = host.image
      BY <1>9, <1>15, <2>1, <2>2, <3>1 DEF Pulls
    <3>3. host.len = 0 /\ Len(host.image) = 0
      BY <1>9 DEF PullInv
    <3>4. Copied(host.gen)'
      BY <3>2, <3>3 DEF Copied
    <3> QED BY <1>1, <3>1, <3>2, <3>3, <3>4 DEF PullInv
  <2> QED BY <1>8, <2>1, <2>2
<1>10. CASE HostReads /\ at = 1
  <2>1. host' = IF Legal(slot[1]) THEN [Further EXCEPT !.len = slot[1].len] ELSE NoPull
    BY <1>3, <1>10 DEF HostReads, Word, HeaderAgain
  <2>2. CASE Legal(slot[1])
    <3>1. slot[1].len \in {Long, Short}
      BY <2>2 DEF LenInv, LenWords
    <3>2. /\ host' \in Pulls /\ host'.at = 2 /\ host'.gen = host.gen
          /\ host'.len = slot[1].len /\ host'.image = host.image
      BY <1>10, <1>15, <2>1, <2>2, <3>1 DEF Pulls
    <3>3. Len(host.image) = 0 /\ host.gen \in 1..published
      BY <1>10 DEF PullInv
    <3>4. ASSUME Current' PROVE Copied(host.gen)'
      <4>1. host.gen = published' /\ Valid(slot'[0])
        BY <1>2, <3>1, <3>2, <3>4 DEF Current, HeaderAgain
      <4>2. slot[1].len = LenWord(taken[host.gen].ram128)
        BY <1>5, <1>10, <4>1 DEF Complete
      <4> QED BY <1>6, <3>2, <3>3, <4>2
    <3> QED BY <1>1, <3>2, <3>3, <3>4 DEF PullInv
  <2> QED BY <1>8, <2>1, <2>2
<1>11. CASE HostReads /\ at \in {2, 3} /\ host' # NoPull
  <2>1. host' = Further
    BY <1>3, <1>11 DEF HostReads, HeaderAgain
  <2>2. /\ host' \in Pulls /\ host'.at = at + 1 /\ host'.gen = host.gen
        /\ host'.len = host.len /\ host'.image = host.image
    BY <1>15, <2>1
  <2>3. Len(host.image) = 0 /\ host.gen \in 1..published /\ Len(host'.image) = 0
    BY <1>11, <2>2 DEF PullInv
  <2>4. ASSUME Current' PROVE Copied(host.gen)'
    <3>1. host.gen = published' /\ Valid(slot'[0])
      BY <1>3, <1>11, <2>2, <2>4 DEF Current, HeaderAgain
    <3>2. Copied(host.gen)
      BY <1>5, <1>11, <3>1
    <3>3. host.len = LenWord(taken[host.gen].ram128)
      BY <1>11, <3>2 DEF Copied
    <3> QED BY <1>6, <2>2, <2>3, <3>3
  <2>5. Len(host'.image) = IF host'.at < 4 THEN 0
                          ELSE IF host'.at < 4 + host'.len THEN host'.at - 4 ELSE host'.len
    BY <1>3, <1>11, <2>2, <2>3
  <2> QED BY <1>1, <1>11, <2>2, <2>3, <2>4, <2>5 DEF PullInv
<1>12. CASE HostReads /\ at >= 4 /\ at < 4 + len
  <2>1. host' = [Further EXCEPT !.image = Append(host.image, slot[at - 2])]
    <3>1. Word = slot[at - 2]
      BY <1>3, <1>12 DEF Word, HeaderAgain
    <3> QED BY <1>3, <1>12, <3>1 DEF HostReads, HeaderAgain
  <2>2. slot[at - 2] \in SlotWords
    <3>1. at - 4 \in Nat /\ at - 2 = 2 + (at - 4)
      BY <1>3, <1>12
    <3>2. len = LenWord(TRUE) \/ len = LenWord(FALSE)
      <4>1. len \in {0, Long, Short}
        BY <1>3 DEF Pulls
      <4>2. len # 0
        BY <1>3, <1>12
      <4> QED BY <4>1, <4>2 DEF Long, Short
    <3>3. at - 4 < len
      BY <1>3, <1>12
    <3>4. 2 + (at - 4) \in Slot
      BY <3>1, <3>2, <3>3, SlotIndex
    <3> QED BY <3>1, <3>4, Landed
  <2> DEFINE image == Append(host.image, slot[at - 2])
  <2>3. /\ image \in Seq(SlotWords) /\ Len(image) = Len(host.image) + 1
        /\ \A k \in 1..Len(host.image) : image[k] = host.image[k]
        /\ image[Len(host.image) + 1] = slot[at - 2]
    BY <1>3, <2>2
  <2>4. Len(host.image) = at - 4 /\ host.gen \in 1..published
    BY <1>3, <1>12 DEF PullInv
  <2> HIDE DEF image
  <2>5. /\ host' \in Pulls /\ host'.at = at + 1 /\ host'.gen = host.gen
        /\ host'.len = host.len /\ host'.image = image
    <3>1. host' = [Further EXCEPT !.image = image]
      BY <2>1 DEF image
    <3> QED BY <1>15, <2>3, <3>1 DEF Pulls
  <2>6. ASSUME Current' PROVE Copied(host.gen)'
    <3>1. host.gen = published' /\ Valid(slot'[0])
      BY <1>3, <1>12, <2>5, <2>6 DEF Current, HeaderAgain
    <3>2. Copied(host.gen) /\ Complete(host.gen)
      BY <1>3, <1>5, <1>12, <3>1
    <3>3. host.len = LenWord(taken[host.gen].ram128)
      BY <1>3, <1>12, <3>2 DEF Copied
    <3>4. slot[2 + (at - 4)] = Payload(taken[host.gen])[at - 4]
      <4>1. at - 4 \in 0..(LenWord(taken[host.gen].ram128) - 1)
        BY <1>3, <1>12, <3>3
      <4> QED BY <3>2, <4>1 DEF Complete
    <3>5. ASSUME NEW k \in 1..Len(image) PROVE image[k] = Payload(taken[host.gen])[k - 1]
      <4>1. CASE k \in 1..Len(host.image)
        BY <2>3, <3>2, <4>1 DEF Copied
      <4>2. CASE k = Len(host.image) + 1
        <5>1. k - 1 = at - 4 /\ at - 2 = 2 + (at - 4)
          BY <1>3, <2>4, <4>2
        <5> QED BY <2>3, <3>4, <4>2, <5>1
      <4>3. Len(host.image) \in Nat
        BY <1>3
      <4> QED BY <2>3, <4>1, <4>2, <4>3
    <3> QED BY <1>6, <2>4, <2>5, <3>3, <3>5
  <2>7. Len(host'.image) = IF host'.at < 4 THEN 0
                          ELSE IF host'.at < 4 + host'.len THEN host'.at - 4 ELSE host'.len
    BY <1>3, <1>12, <2>3, <2>4, <2>5, SMTT(30)
  <2> QED BY <1>1, <1>3, <1>12, <2>4, <2>5, <2>6, <2>7 DEF PullInv
<1>13. CASE HostReads /\ at >= 4 + len /\ host' # NoPull
  <2>1. /\ host' = Further /\ (at = 4 + len => slot[0] = [gen |-> host.gen])
    <3>1. at = 4 + len \/ at = 4 + len + 1
      BY <1>3, <1>13 DEF HostReads, PullEnd
    <3>2. CASE at = 4 + len
      <4>1. (at - HeaderAgain(len)) % 2 = 0 /\ ~(at < 2) /\ ~(at < HeaderAgain(len))
        BY <1>3, <3>2 DEF HeaderAgain
      <4>2. Word = slot[0]
        BY <3>2, <4>1 DEF Word, HeaderAgain
      <4> QED BY <1>3, <1>13, <3>2, <4>2 DEF HostReads, HeaderAgain
    <3>3. CASE at = 4 + len + 1
      BY <1>3, <1>13, <3>3 DEF HostReads, HeaderAgain
    <3> QED BY <3>1, <3>2, <3>3
  <2>2. /\ host' \in Pulls /\ host'.at = at + 1 /\ host'.gen = host.gen
        /\ host'.len = host.len /\ host'.image = host.image
    BY <1>15, <2>1
  <2>3. Len(host.image) = len /\ host.gen \in 1..published
    BY <1>3, <1>13 DEF PullInv
  <2>4. Copied(host.gen)
    <3>1. CASE at = 4 + len
      <4>1. Valid(slot[0]) /\ slot[0].gen = host.gen
        BY <1>1, <2>1, <2>3, <3>1, GenerationWords DEF Valid
      <4> QED BY <1>3, <1>13, <4>1 DEF PullInv, Current, GenInv
    <3>2. CASE at # 4 + len
      <4>1. at > 4 + len
        BY <1>3, <1>13, <3>2
      <4> QED BY <1>3, <1>13, <4>1 DEF PullInv, Current, HeaderAgain
    <3> QED BY <3>1, <3>2
  <2>5. Copied(host.gen)'
    <3>1. host.len = LenWord(taken[host.gen].ram128)
      BY <1>3, <1>13, <2>4 DEF Copied
    <3> QED BY <1>6, <2>2, <2>3, <2>4, <3>1 DEF Copied
  <2> QED BY <1>1, <1>3, <1>13, <2>2, <2>3, <2>5, SMTT(30) DEF PullInv
<1>14. HostReads \/ host' = host
  BY DEF Next, HostStep
<1> QED BY <1>3, <1>7, <1>8, <1>9, <1>10, <1>11, <1>12, <1>13, <1>14

LEMMA InitGeneration == Init => GenInv
  BY InitGen

LEMMA PullsStutter ==
    UNCHANGED vars =>
        /\ (GenInv => GenInv') /\ (CountInv => CountInv')
        /\ (LenInv => LenInv') /\ (PullInv => PullInv')
<1> SUFFICES ASSUME UNCHANGED vars
             PROVE  /\ (GenInv => GenInv') /\ (CountInv => CountInv')
                    /\ (LenInv => LenInv') /\ (PullInv => PullInv')
  OBVIOUS
<1> USE DEF vars, captureVars, streamVars, indexVars, cartVars, writeVars, cpuVars, envVars,
        ddrVars
<1>1. GenInFlight' = GenInFlight
  BY DEF GenInFlight
<1>2. Unissued' = Unissued
  BY DEF Unissued
<1>3. GenInv => GenInv'
  BY <1>1 DEF GenInv
<1>4. CountInv => CountInv'
  BY <1>1, <1>2 DEF CountInv
<1>5. LenInv => LenInv'
  BY DEF LenInv
<1>6. PullInv => PullInv'
  BY DEF PullInv, Current, Copied
<1> QED BY <1>3, <1>4, <1>5, <1>6

LEMMA GenerationHolds == Spec => []GenInv
<1>1. IInv /\ GenInv /\ [Next]_vars => GenInv'
  BY GenStep, PullsStutter DEF IInv
<1> QED BY <1>1, InitGeneration, InvariantHolds, PTL DEF Spec

(* "The host detects a new save by a changed generation": a save that publishes
   changes it, however many resets caught a last write on its way. *)
THEOREM NewGenerations == Spec => NewSaveNewGeneration
<1>1. ASSUME IInv, GenInv, Next, slot' # slot, Valid(slot'[0])
      PROVE  slot'[0].gen # published
  BY <1>1, LastWrite DEF IInv, GenInv
<1>2. ASSUME IInv, GenInv, [Next]_vars
      PROVE  [slot' # slot /\ Valid(slot'[0]) => slot'[0].gen # published]_vars
  BY <1>1, <1>2
<1> QED BY <1>2, InvariantHolds, GenerationHolds, PTL DEF Spec, NewSaveNewGeneration

PullIInv == IInv /\ GenInv /\ CountInv /\ LenInv /\ PullInv

(* While there are more generations than saves, a pull that the script accepts is
   one snapshot, whatever was saved or aborted while it was copied.  With fewer
   the counter wraps onto the generation a slow pull began with. *)
THEOREM PullsAreOneSnapshot ==
    ASSUME MaxPresses < LastGeneration
    PROVE  Spec => []PullIsOneSnapshot
<1>1. Init => PullIInv
  BY InitIInv, InitGen DEF PullIInv
<1>2. PullIInv /\ [Next]_vars => PullIInv'
  <2>1. ASSUME PullIInv, Next PROVE PullIInv'
    BY <2>1, Inductive, GenStep, CountStep, LenStep, PullStep DEF PullIInv, IInv
  <2>2. ASSUME PullIInv, UNCHANGED vars PROVE PullIInv'
    BY <2>2, IInvStutter, PullsStutter DEF PullIInv
  <2> QED BY <2>1, <2>2
<1>3. PullIInv => PullIsOneSnapshot
  <2> SUFFICES ASSUME PullIInv, host.at > 0, host.at = PullEnd(host.len)
               PROVE  LET p == Payload(taken[host.gen])
                      IN /\ host.len = Len(host.image)
                         /\ host.len = LenWord(taken[host.gen].ram128)
                         /\ \A i \in DOMAIN p : host.image[i + 1] = p[i]
    BY DEF PullIsOneSnapshot
  <2>1. host.at \in Nat /\ host.len \in Nat
    <3>1. Long \in Nat /\ Short \in Nat
      BY Sizes DEF Long, Short
    <3> QED BY <3>1 DEF PullIInv, PullInv, Pulls
  <2>2. Current /\ Copied(host.gen) /\ host.at >= 2
    BY <2>1 DEF PullIInv, PullInv, Current, PullEnd, HeaderAgain
  <2>3. host.len = Len(host.image)
    BY <2>1 DEF PullIInv, PullInv, PullEnd
  <2>4. host.len = LenWord(taken[host.gen].ram128)
    BY <2>2 DEF Copied
  <2>5. ASSUME NEW i \in DOMAIN Payload(taken[host.gen])
        PROVE  host.image[i + 1] = Payload(taken[host.gen])[i]
    <3>1. i \in 0..(host.len - 1)
      BY <2>4 DEF Payload
    <3>2. i + 1 \in 1..Len(host.image) /\ (i + 1) - 1 = i
      BY <2>1, <2>3, <3>1
    <3> QED BY <2>2, <3>2 DEF Copied
  <2> QED BY <2>3, <2>4, <2>5
<1> QED BY <1>1, <1>2, <1>3, PTL DEF Spec
=============================================================================
