--------------------------- MODULE SnaSaveStream ---------------------------
(***************************************************************************)
(* rtl/sna_save_stream.v: writes a snapshot into a DDR3 slot of 64-bit     *)
(* words: word 0 the generation, word 1 the length, then header and RAM.   *)
(* Each action is one clk edge; "in" holds the sampled ports.  A RAM       *)
(* address is <<page, offset, byte>>.  The yield between two RAM requests  *)
(* is in CartPorts; here it is part of the time an acknowledge takes.      *)
(***************************************************************************)
EXTENDS Integers, Sequences

CONSTANTS
    HdrWords,               \* 32
    Pages128, Pages64,      \* 8, 4
    PageWords, WordBytes,   \* 2048, 8
    LastGeneration          \* FFFF_FFFE

ASSUME StreamAssumption ==
    /\ {HdrWords, Pages128, Pages64, PageWords, WordBytes, LastGeneration} \subseteq Nat \ {0}
    /\ Pages64 < Pages128 /\ LastGeneration > 1

VARIABLES
    stream,                             \* state
    saved_ram128,
    hdr_word_idx, ram_page, ram_offset, byte_idx, payload_word_idx,
    word_buf,
    cart_req, cart_addr,
    ddr_request, ddram_we, ddram_addr, ddram_din,
    done,
    generation

indexVars == <<hdr_word_idx, ram_page, ram_offset, byte_idx, payload_word_idx>>
cartVars == <<cart_req, cart_addr>>
writeVars == <<ddram_we, ddram_addr, ddram_din>>
streamVars == <<stream, saved_ram128, indexVars, word_buf, cartVars, ddr_request,
                writeVars, done, generation>>

Invalid == [gen |-> 0]      \* all ones
Pages == IF saved_ram128 THEN Pages128 ELSE Pages64
LenWord(ram128) == HdrWords + PageWords * (IF ram128 THEN Pages128 ELSE Pages64)

StreamInit ==
    /\ stream = "IDLE" /\ saved_ram128 = FALSE
    /\ hdr_word_idx = 0 /\ ram_page = 0 /\ ram_offset = 0 /\ byte_idx = 0
    /\ payload_word_idx = 0 /\ word_buf = <<>>
    /\ cart_req = FALSE /\ cart_addr = <<0, 0, 0>>
    /\ ddr_request = FALSE /\ ddram_we = FALSE /\ ddram_addr = 0 /\ ddram_din = Invalid
    /\ done = FALSE /\ generation = 1

-----------------------------------------------------------------------------
(* A write the slave has not accepted yet must not be dropped. *)
Stalled(in) == ddram_we /\ in.busy

StreamReset(in) ==
    /\ in.reset
    /\ cart_req' = FALSE /\ done' = FALSE
    /\ IF Stalled(in)
       THEN stream' = "QUIESCE" /\ UNCHANGED <<ddr_request, writeVars>>
       ELSE /\ stream' = "IDLE" /\ ddr_request' = FALSE /\ ddram_we' = FALSE
            /\ UNCHANGED <<ddram_addr, ddram_din>>
    /\ UNCHANGED <<saved_ram128, indexVars, word_buf, cart_addr, generation>>

Quiesce(in) ==
    /\ ~in.reset /\ stream = "QUIESCE"
    /\ IF in.busy THEN UNCHANGED <<stream, ddr_request, ddram_we>>
       ELSE stream' = "IDLE" /\ ddr_request' = FALSE /\ ddram_we' = FALSE
    /\ UNCHANGED <<saved_ram128, indexVars, word_buf, cartVars, ddram_addr, ddram_din,
                   done, generation>>

(* Put: present a write and wait for its acceptance in state next. *)
Put(addr, word, next) ==
    /\ stream' = next
    /\ ddram_we' = TRUE /\ ddram_addr' = addr /\ ddram_din' = word
Accepted(in) == ~in.busy
Taken == ddram_we' = FALSE /\ UNCHANGED <<ddram_addr, ddram_din>>

StreamIdle(in) ==
    /\ stream = "IDLE"
    /\ Taken /\ cart_req' = FALSE
    /\ IF in.start
       THEN stream' = "WAIT_GRANT" /\ ddr_request' = TRUE /\ saved_ram128' = in.ram128
       ELSE UNCHANGED <<stream, ddr_request, saved_ram128>>
    /\ UNCHANGED <<indexVars, word_buf, cart_addr, generation>>

PutInvalid == Put(0, Invalid, "WAIT_INVALID_GEN")
WaitGrant(in) ==
    /\ stream = "WAIT_GRANT"
    /\ IF in.grant THEN PutInvalid ELSE UNCHANGED <<stream, writeVars>>
    /\ UNCHANGED <<saved_ram128, indexVars, word_buf, cartVars, ddr_request, generation>>

WaitInvalidGen(in) ==
    /\ stream = "WAIT_INVALID_GEN"
    /\ IF Accepted(in) THEN Taken /\ hdr_word_idx' = 0 /\ stream' = "WRITE_HDR_WORD"
       ELSE UNCHANGED <<stream, writeVars, hdr_word_idx>>
    /\ UNCHANGED <<saved_ram128, ram_page, ram_offset, byte_idx, payload_word_idx,
                   word_buf, cartVars, ddr_request, generation>>

WriteHdrWord(in) ==
    /\ stream = "WRITE_HDR_WORD"
    /\ Put(2 + hdr_word_idx, [hdr |-> in.header, i |-> hdr_word_idx], "WAIT_HDR_WORD")
    /\ UNCHANGED <<saved_ram128, indexVars, word_buf, cartVars, ddr_request, generation>>

WaitHdrWord(in) ==
    /\ stream = "WAIT_HDR_WORD"
    /\ \/ ~Accepted(in) /\ UNCHANGED <<stream, writeVars, indexVars>>
       \/ /\ Accepted(in) /\ Taken /\ hdr_word_idx = HdrWords - 1
          /\ stream' = "RAM_REQ" /\ ram_page' = 0 /\ ram_offset' = 0 /\ byte_idx' = 0
          /\ payload_word_idx' = HdrWords /\ UNCHANGED hdr_word_idx
       \/ /\ Accepted(in) /\ Taken /\ hdr_word_idx # HdrWords - 1
          /\ stream' = "WRITE_HDR_WORD" /\ hdr_word_idx' = hdr_word_idx + 1
          /\ UNCHANGED <<ram_page, ram_offset, byte_idx, payload_word_idx>>
    /\ UNCHANGED <<saved_ram128, word_buf, cartVars, ddr_request, generation>>

RamReq(in) ==
    /\ stream = "RAM_REQ"
    /\ cart_addr' = <<ram_page, ram_offset, byte_idx>> /\ cart_req' = TRUE
    /\ stream' = "RAM_WAIT_ACK"
    /\ UNCHANGED <<saved_ram128, indexVars, word_buf, ddr_request, writeVars, generation>>

RamWaitAck(in) ==
    /\ stream = "RAM_WAIT_ACK"
    /\ IF in.cart_ack
       THEN /\ word_buf' = SubSeq(word_buf, 1, byte_idx) \o <<in.cart_dout>>
            /\ cart_req' = FALSE
            /\ IF byte_idx = WordBytes - 1
               THEN stream' = "WRITE_RAM_WORD" /\ UNCHANGED byte_idx
               ELSE stream' = "RAM_REQ" /\ byte_idx' = byte_idx + 1
       ELSE UNCHANGED <<stream, word_buf, cart_req, byte_idx>>
    /\ UNCHANGED <<saved_ram128, hdr_word_idx, ram_page, ram_offset, payload_word_idx,
                   cart_addr, ddr_request, writeVars, generation>>

WriteRamWord(in) ==
    /\ stream = "WRITE_RAM_WORD"
    /\ Put(2 + payload_word_idx, [ram |-> word_buf], "WAIT_RAM_WORD")
    /\ UNCHANGED <<saved_ram128, indexVars, word_buf, cartVars, ddr_request, generation>>

LastPage == ram_page = Pages - 1
WaitRamWord(in) ==
    /\ stream = "WAIT_RAM_WORD"
    /\ IF Accepted(in)
       THEN /\ Taken /\ payload_word_idx' = payload_word_idx + 1 /\ byte_idx' = 0
            /\ \/ /\ ram_offset # PageWords - 1 /\ ram_offset' = ram_offset + 1
                  /\ stream' = "RAM_REQ" /\ UNCHANGED ram_page
               \/ /\ ram_offset = PageWords - 1 /\ ram_offset' = 0
                  /\ IF LastPage THEN stream' = "WRITE_LEN" /\ UNCHANGED ram_page
                     ELSE stream' = "RAM_REQ" /\ ram_page' = ram_page + 1
       ELSE UNCHANGED <<stream, writeVars, ram_page, ram_offset, byte_idx, payload_word_idx>>
    /\ UNCHANGED <<saved_ram128, hdr_word_idx, word_buf, cartVars, ddr_request, generation>>

WriteLen(in) ==
    /\ stream = "WRITE_LEN"
    /\ Put(1, [len |-> LenWord(saved_ram128)], "WAIT_LEN")
    /\ UNCHANGED <<saved_ram128, indexVars, word_buf, cartVars, ddr_request, generation>>

WaitLen(in) ==
    /\ stream = "WAIT_LEN"
    /\ IF Accepted(in) THEN Taken /\ stream' = "WRITE_GEN" ELSE UNCHANGED <<stream, writeVars>>
    /\ UNCHANGED <<saved_ram128, indexVars, word_buf, cartVars, ddr_request, generation>>

NextGeneration == IF generation = LastGeneration THEN 1 ELSE generation + 1
(* Fault: the generation advances when its write is accepted. *)
ConsumeAtAccept(in) ==
    generation' = IF stream = "WAIT_GEN" /\ Accepted(in) THEN NextGeneration ELSE generation
(* It is consumed when its write is issued: a reset still drains that write. *)
Consume(in) == generation' = IF stream = "WRITE_GEN" THEN NextGeneration ELSE generation

WriteGen(in) ==
    /\ stream = "WRITE_GEN"
    /\ Put(0, [gen |-> generation], "WAIT_GEN") /\ Consume(in)
    /\ UNCHANGED <<saved_ram128, indexVars, word_buf, cartVars, ddr_request>>

WaitGen(in) ==
    /\ stream = "WAIT_GEN"
    /\ IF Accepted(in) THEN Taken /\ ddr_request' = FALSE /\ stream' = "IDLE"
       ELSE UNCHANGED <<stream, writeVars, ddr_request>>
    /\ Consume(in)
    /\ UNCHANGED <<saved_ram128, indexVars, word_buf, cartVars>>

(* Fault: the CPU is let go before the last write is accepted. *)
PublishedEarly(in) == stream = "WRITE_GEN"
Published(in) == stream = "WAIT_GEN" /\ Accepted(in)

StreamClock(in) ==
    \/ StreamReset(in) \/ Quiesce(in)
    \/ /\ ~in.reset
       /\ done' = Published(in)
       /\ \/ StreamIdle(in) \/ WaitGrant(in) \/ WaitInvalidGen(in)
          \/ WriteHdrWord(in) \/ WaitHdrWord(in)
          \/ RamReq(in) \/ RamWaitAck(in) \/ WriteRamWord(in) \/ WaitRamWord(in)
          \/ WriteLen(in) \/ WaitLen(in) \/ WriteGen(in) \/ WaitGen(in)
=============================================================================
