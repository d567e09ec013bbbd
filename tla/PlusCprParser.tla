--------------------------- MODULE PlusCprParser ---------------------------
(***************************************************************************)
(* rtl/plus/plus_cpr_parser.v: the streaming parser that turns the bytes   *)
(* of a .CPR download into begin / word / commit / abort requests to the   *)
(* cartridge memory.  Bytes are 0..255 as in the file; a four-byte field   *)
(* is collected in "field" (sub_idx is its length).  PageBytes is the      *)
(* 16 KiB page, LastPage the last cartridge page (31), MaxRiffLen the      *)
(* largest RIFF length the 25-bit address space holds (0x01FFFFF7).        *)
(*                                                                         *)
(* Every action is one clk edge.  "in" holds the sampled ports.            *)
(***************************************************************************)
EXTENDS Integers, Sequences

CONSTANTS PageBytes, LastPage, MaxRiffLen

ASSUME ParserAssumption ==
    /\ PageBytes \in Nat \ {0}
    /\ LastPage \in 0..31
    /\ MaxRiffLen \in Nat

VARIABLES
    state,              \* IDLE .. ERROR
    cpr_download_d,     \* the download level one clock ago
    field,              \* bytes of the current four-byte field
    file_pos,           \* bytes taken; expected_addr counts the same bytes
    riff_limit,         \* first position after the RIFF body
    chunk,              \* the current chunk: page, block, len, bytes read
    has_block,          \* at least one cartridge byte was delivered
    load_pulse,         \* the load_begin/_commit/_abort output that is up, if any
    load_valid, load_out \* the word offered to the memory, held until load_ready

parserVars == <<state, cpr_download_d, field, file_pos, riff_limit, chunk,
                has_block, load_pulse, load_valid, load_out>>

NoChunk == [page |-> 0, block |-> FALSE, len |-> 0, read |-> 0]
NoWord == [page |-> 0, offset |-> 0, data |-> 0]

ParserInit ==
    /\ state = "IDLE" /\ cpr_download_d = FALSE /\ field = <<>>
    /\ file_pos = 0 /\ riff_limit = 0 /\ chunk = NoChunk /\ has_block = FALSE
    /\ load_pulse = "none" /\ load_valid = FALSE /\ load_out = NoWord

(* Little-endian value of a complete field. *)
Value(f) == f[1] + 256 * f[2] + 65536 * f[3] + 16777216 * f[4]

(* "cb" or "CB" (each letter in either case) and a decimal page number. *)
BlockId(f) == f[1] \in {67, 99} /\ f[2] \in {66, 98}
PageOf(f) == 10 * (f[3] - 48) + (f[4] - 48)
ValidPage(f) == /\ f[3] \in 48..51 /\ f[4] \in 48..57 /\ PageOf(f) <= LastPage

Letters(s) == CASE s = "RIFF" -> << {82}, {73}, {70}, {70} >>
                [] s = "FORM" -> << {65, 97}, {77, 109}, {83, 115}, {33} >>

-----------------------------------------------------------------------------
(* Default assignments of an edge that takes no byte. *)
KeepStream == UNCHANGED <<field, file_pos, riff_limit, chunk, has_block, load_out>>
Acknowledge(in) == load_valid' = (load_valid /\ ~in.load_ready)
Sample(in) == cpr_download_d' = in.cpr_download

ResetParser(in) ==
    /\ in.reset
    /\ state' = "IDLE" /\ cpr_download_d' = FALSE /\ field' = <<>>
    /\ file_pos' = 0 /\ riff_limit' = 0 /\ chunk' = NoChunk /\ has_block' = FALSE
    /\ load_pulse' = "none" /\ load_valid' = FALSE /\ load_out' = NoWord

StartDownload(in) ==
    /\ ~in.reset /\ in.cpr_download /\ ~cpr_download_d
    /\ state' = "RIFF" /\ Sample(in) /\ field' = <<>>
    /\ file_pos' = 0 /\ riff_limit' = 0 /\ chunk' = NoChunk /\ has_block' = FALSE
    /\ load_pulse' = "begin" /\ load_valid' = FALSE
    /\ UNCHANGED load_out

(* The stream may end at the RIFF boundary or between complete chunks, with
   a block delivered and nothing pending. *)
CleanEnd(in) ==
    /\ state = "DONE" \/ (state = "CHUNK_ID" /\ field = <<>>)
    /\ has_block /\ ~load_valid /\ ~in.load_error

EndDownload(in) ==
    /\ ~in.reset /\ ~in.cpr_download /\ cpr_download_d
    /\ load_pulse' = IF CleanEnd(in) THEN "commit"
                     ELSE IF state # "ERROR" THEN "abort" ELSE "none"
    /\ state' = "IDLE" /\ Sample(in) /\ load_valid' = FALSE
    /\ KeepStream

Steady(in) == ~in.reset /\ in.cpr_download = cpr_download_d
Faulted(in) == in.load_error /\ state \notin {"IDLE", "ERROR"}

MemoryFault(in) ==
    /\ Steady(in) /\ Faulted(in)
    /\ load_pulse' = "abort" /\ state' = "ERROR" /\ Sample(in)
    /\ load_valid' = FALSE
    /\ KeepStream

(* Nothing to take: no byte, a word still held, or an aborted stream. *)
NoByte(in) ==
    /\ Steady(in) /\ ~Faulted(in)
    /\ ~in.cpr_download \/ load_valid \/ ~in.ioctl_wr \/ state = "ERROR"
    /\ load_pulse' = "none" /\ Sample(in) /\ Acknowledge(in)
    /\ UNCHANGED state /\ KeepStream

Taken(in) == /\ Steady(in) /\ ~Faulted(in) /\ in.cpr_download /\ ~load_valid
             /\ in.ioctl_wr /\ state # "ERROR"

AddressGap(in) ==
    /\ Taken(in) /\ in.ioctl_addr # file_pos
    /\ load_pulse' = "abort" /\ state' = "ERROR" /\ Sample(in)
    /\ Acknowledge(in) /\ KeepStream

(* Fault: bytes are taken at any address. *)
NextByteAnywhere(in) == Taken(in)
(* The byte at the expected address. *)
NextByte(in) == Taken(in) /\ in.ioctl_addr = file_pos
Position == file_pos + 1
Advance(in) == Sample(in) /\ file_pos' = Position

Goto(s) == state' = s /\ load_pulse' = "none"
Fail == state' = "ERROR" /\ load_pulse' = "abort"


(* Where a complete chunk leaves the stream: at the end of the RIFF body, or
   with room for another chunk header. *)
AfterChunk ==
    IF Position = riff_limit THEN Goto("DONE")
    ELSE IF Position + 8 > riff_limit THEN Fail
    ELSE Goto("CHUNK_ID")

(* The letters of the two signatures. *)
Signature(in) ==
    /\ NextByte(in) /\ state \in {"RIFF", "FORM"} /\ Advance(in)
    /\ IF in.ioctl_dout \notin Letters(state)[Len(field) + 1]
       THEN Fail /\ UNCHANGED field
       ELSE IF Len(field) < 3
       THEN Goto(state) /\ field' = Append(field, in.ioctl_dout)
       ELSE /\ field' = <<>>
            /\ IF state = "RIFF" THEN Goto("RIFF_LEN") ELSE AfterChunk
    /\ UNCHANGED <<riff_limit, chunk, has_block, load_out>> /\ Acknowledge(in)

(* The first three bytes of a length or chunk name. *)
Collect(in) ==
    /\ NextByte(in) /\ state \in {"RIFF_LEN", "CHUNK_ID", "CHUNK_LEN"}
    /\ Len(field) < 3
    /\ field' = Append(field, in.ioctl_dout) /\ Advance(in) /\ Goto(state)
    /\ UNCHANGED <<riff_limit, chunk, has_block, load_out>> /\ Acknowledge(in)

LastOf(in, s) == /\ NextByte(in) /\ state = s /\ Len(field) = 3
                 /\ field' = <<>> /\ Advance(in)
Full(in) == Append(field, in.ioctl_dout)

RiffLength(in) ==
    /\ LastOf(in, "RIFF_LEN")
    /\ IF Value(Full(in)) \in 4..MaxRiffLen
       THEN Goto("FORM") /\ riff_limit' = Value(Full(in)) + 8
       ELSE Fail /\ UNCHANGED riff_limit
    /\ UNCHANGED <<chunk, has_block, load_out>> /\ Acknowledge(in)

ChunkName(in) ==
    /\ LastOf(in, "CHUNK_ID")
    /\ IF BlockId(Full(in)) /\ ~ValidPage(Full(in)) THEN Fail /\ UNCHANGED chunk
       ELSE /\ Goto("CHUNK_LEN")
            /\ chunk' = IF BlockId(Full(in))
                        THEN [chunk EXCEPT !.block = TRUE, !.page = PageOf(Full(in))]
                        ELSE [chunk EXCEPT !.block = FALSE]
    /\ UNCHANGED <<riff_limit, has_block, load_out>> /\ Acknowledge(in)

(* Fault: a chunk must end before the RIFF body does. *)
FitsBelow(len) == /\ Position + len + (len % 2) < riff_limit
                  /\ ~(chunk.block /\ len > PageBytes)
(* The chunk and its pad byte must end inside the RIFF body, and a block may
   not exceed its page. *)
Fits(len) == /\ Position + len + (len % 2) <= riff_limit
             /\ ~(chunk.block /\ len > PageBytes)

ChunkLength(in) ==
    /\ LastOf(in, "CHUNK_LEN")
    /\ LET len == Value(Full(in)) IN
         IF ~Fits(len) THEN Fail /\ UNCHANGED chunk
         ELSE /\ chunk' = [chunk EXCEPT !.len = len, !.read = 0]
              /\ IF len = 0 THEN AfterChunk ELSE Goto("CHUNK_DATA")
    /\ UNCHANGED <<riff_limit, has_block, load_out>> /\ Acknowledge(in)

(* A byte of a block is offered to the memory; other chunks are skipped. *)
ChunkData(in) ==
    /\ NextByte(in) /\ state = "CHUNK_DATA" /\ Advance(in)
    /\ IF chunk.block /\ chunk.read < PageBytes
       THEN /\ load_valid' = TRUE /\ has_block' = TRUE
            /\ load_out' = [page |-> chunk.page, offset |-> chunk.read,
                            data |-> in.ioctl_dout]
       ELSE Acknowledge(in) /\ UNCHANGED <<has_block, load_out>>
    /\ chunk' = [chunk EXCEPT !.read = @ + 1]
    /\ IF chunk.read + 1 < chunk.len THEN Goto("CHUNK_DATA")
       ELSE IF chunk.len % 2 = 1 THEN Goto("CHUNK_PAD")
       ELSE AfterChunk
    /\ UNCHANGED <<field, riff_limit>>

ChunkPad(in) ==
    /\ NextByte(in) /\ state = "CHUNK_PAD" /\ Advance(in) /\ AfterChunk
    /\ UNCHANGED <<field, riff_limit, chunk, has_block, load_out>> /\ Acknowledge(in)

(* A byte beyond the RIFF body. *)
Excess(in) ==
    /\ NextByte(in) /\ state \in {"DONE", "IDLE"} /\ Advance(in) /\ Fail
    /\ UNCHANGED <<field, riff_limit, chunk, has_block, load_out>> /\ Acknowledge(in)

ParserClock(in) ==
    \/ ResetParser(in) \/ StartDownload(in) \/ EndDownload(in) \/ MemoryFault(in)
    \/ NoByte(in) \/ AddressGap(in) \/ Signature(in) \/ Collect(in)
    \/ RiffLength(in) \/ ChunkName(in) \/ ChunkLength(in) \/ ChunkData(in)
    \/ ChunkPad(in) \/ Excess(in)

(* What the HPS is asked to wait for. *)
IoctlWait(download) == load_valid \/ (download /\ ~cpr_download_d)
=============================================================================
