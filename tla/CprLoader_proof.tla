--------------------------- MODULE CprLoader_proof ---------------------------
(***************************************************************************)
(* Proofs about CprLoader for every set of files, size of the region, pace *)
(* of HPS and SDRAM, and any resets: what the CPU latches while images     *)
(* come and go, and which image a download leaves behind.                  *)
(***************************************************************************)
EXTENDS CprLoader, SequenceTheorems, WellFoundedInduction, TLAPS

(* The types of everything that is not the memory service or its channel. *)
Parsing == {"RIFF", "RIFF_LEN", "FORM", "CHUNK_ID", "CHUNK_LEN", "CHUNK_DATA",
            "CHUNK_PAD", "DONE"}
ParserTypeOK ==
    /\ state \in Parsing \cup {"IDLE", "ERROR"}
    /\ {cpr_download_d, has_block, load_valid} \subseteq BOOLEAN
    /\ field \in Seq(Byte) /\ Len(field) <= 3
    /\ file_pos \in Nat /\ riff_limit \in Nat
    /\ chunk \in [page : 0..LastPage, block : BOOLEAN, len : Nat, read : Nat]
    /\ load_pulse \in {"none", "begin", "commit", "abort"}
    /\ load_out \in [page : 0..LastPage, offset : 0..(PageBytes - 1), data : Byte]
BridgeTypeOK ==
    /\ cart_state \in {"IDLE", "WAIT", "CAPTURE", "DONE"}
    /\ {cart_valid, cart_own, cart_stall} \subseteq BOOLEAN
    /\ cart_addr \in Addr /\ cart_dout \in Byte /\ stall_count \in Nat
GlueTypeOK ==
    /\ file \in Files \cup {<<>>} /\ hps_pos \in 0..Len(file)
    /\ {cpr_download, old_cpr_download, cpr_finish_pending, reset, gave_up,
        undisturbed} \subseteq BOOLEAN
    /\ cpr_apply_cnt \in 0..7 /\ resets \in 0..MaxResets
    /\ bus \in {"off", "read", "latch"} /\ bus_addr \in Addr
    /\ bus_clock \in Nat /\ slot_clock \in Nat
TypeOK == MemoryTypeOK /\ ChannelTypeOK /\ ParserTypeOK /\ BridgeTypeOK /\ GlueTypeOK


-----------------------------------------------------------------------------
(* Where a word lies in the region. *)
LEMMA WordInRegion ==
    ASSUME NEW p \in 0..LastPage, NEW o \in 0..(PageBytes - 1)
    PROVE  p * PageBytes + o \in Addr
<1>1. /\ PageBytes \in Nat \ {0} /\ LastPage \in Nat
      /\ LastAddr = (LastPage + 1) * PageBytes - 1
  BY ParserAssumption, LoaderAssumption
<1>2. PICK d \in Nat : LastPage = p + d
  <2>1. LastPage - p \in Nat /\ LastPage = p + (LastPage - p)
    BY <1>1
  <2> QED BY <2>1
<1>3. /\ d * PageBytes \in Nat /\ p * PageBytes \in Nat
      /\ (LastPage + 1) * PageBytes = p * PageBytes + d * PageBytes + PageBytes
  BY <1>1, <1>2
<1> QED BY <1>1, <1>3 DEF Addr

(* What the ports of the memory service carry. *)
LEMMA PortsAre ==
    ASSUME TypeOK, NEW rb \in BOOLEAN, NEW m, m = MemoryPorts(rb)
    PROVE  /\ m.controls \subseteq Controls /\ "detach" \notin m.controls
           /\ "load_begin" \in m.controls <=> load_pulse = "begin"
           /\ "load_commit" \in m.controls <=> load_pulse = "commit"
           /\ "load_abort" \in m.controls <=> load_pulse = "abort"
           /\ "cold_reset" \in m.controls <=> rb
           /\ m.load_valid = load_valid /\ m.cpu_valid = cart_valid
           /\ m.cpu_addr = cart_addr /\ m.mem_rdata = mem_rdata
           /\ m.mem_ack = (chan = "ack") /\ m.mem_grant = (chan = "granted")
           /\ m.load_word = OfferedWord
  BY DEF MemoryPorts, PulseOf, Controls, TypeOK, ParserTypeOK

LEMMA WordType ==
    ASSUME TypeOK
    PROVE  /\ OfferedWord = [wide |-> FALSE, data |-> load_out.data,
                             addr |-> load_out.page * PageBytes + load_out.offset]
           /\ OfferedWord.wide = FALSE /\ OfferedWord.addr \in Addr /\ OfferedWord.data \in Byte
<1>1. /\ load_out.page \in 0..LastPage /\ load_out.offset \in 0..(PageBytes - 1)
      /\ load_out.data \in Byte
  BY DEF TypeOK, ParserTypeOK
<1>2. ~(load_out.page > LastPage \/ load_out.offset >= PageBytes)
  BY <1>1, ParserAssumption
<1>3. OfferedWord = [wide |-> FALSE, data |-> load_out.data,
                     addr |-> load_out.page * PageBytes + load_out.offset]
  BY <1>2 DEF OfferedWord
<1> QED BY <1>1, <1>3, WordInRegion

(* No clock edge takes a register of the memory service out of its type. *)
LEMMA MemoryTypeStep ==
    ASSUME TypeOK, NEW rb \in BOOLEAN, NEW in, in = MemoryPorts(rb), MemoryClock(in)
    PROVE  MemoryTypeOK'
<1> USE DEF MemoryTypeOK
<1>0. MemoryTypeOK
  BY DEF TypeOK
<1>1. /\ in.controls \subseteq Controls
      /\ in.load_valid \in BOOLEAN /\ in.cpu_valid \in BOOLEAN
      /\ in.mem_ack \in BOOLEAN /\ in.mem_grant \in BOOLEAN
      /\ in.cpu_addr \in Addr /\ in.mem_rdata \in Byte
      /\ in.load_word.wide \in BOOLEAN
      /\ in.load_word.addr \in Addr /\ in.load_word.data \in Byte
  <2>1. /\ load_valid \in BOOLEAN /\ cart_valid \in BOOLEAN
        /\ cart_addr \in Addr /\ mem_rdata \in Byte
    BY DEF TypeOK, ParserTypeOK, BridgeTypeOK, ChannelTypeOK
  <2>2. /\ OfferedWord.wide \in BOOLEAN
        /\ OfferedWord.addr \in Addr /\ OfferedWord.data \in Byte
    BY WordType
  <2> QED BY <2>1, <2>2, PortsAre
<1>2. consumed' \subseteq Controls \cup {"load_valid", "cpu_valid"}
  BY <1>0, <1>1 DEF MemoryClock, Consume, Held, StillHeld, Detach, LoadAbort, ColdReset,
     LoadBegin, AckDiscarded, AckClear, AckLoad, AckCpu, HoldRequest, IssueClear,
     RejectLoad, IssueLoad, Publish, IssueRead, ReadOpenBus, Idle
<1>3. cpu_granted' \in BOOLEAN
  BY DEF MemoryClock, GrantStep, EndActivity, Detach, LoadAbort, ColdReset,
     LoadBegin, AckDiscarded, AckClear, AckLoad, AckCpu, HoldRequest,
     IssueClear, RejectLoad, IssueLoad, Publish, IssueRead, ReadOpenBus, Idle
<1>4. request' \in Request
  <2>1. \A k \in {"clear", "load", "cpu"}, a \in Addr, d \in Byte :
           [kind |-> k, write |-> k # "cpu", addr |-> a, data |-> d] \in Request
    BY DEF Request
  <2>2. clear_index # LastAddr => clear_index + 1 \in Addr
    BY <1>0, MemoryAssumption DEF Addr
  <2>3. CASE AckClear(in)
    BY <1>0, <2>1, <2>2, <2>3, MemoryAssumption DEF AckClear, Issue, LastCleared
  <2>4. CASE IssueClear(in) \/ IssueLoad(in) \/ IssueRead(in)
    BY <1>0, <1>1, <2>1, <2>4, MemoryAssumption DEF IssueClear, IssueLoad, IssueRead, Issue
  <2>5. CASE /\ ~AckClear(in) /\ ~IssueClear(in)
             /\ ~IssueLoad(in) /\ ~IssueRead(in)
    BY <1>0, <2>5 DEF MemoryClock, EndActivity, Detach, LoadAbort, ColdReset,
       LoadBegin, AckDiscarded, AckLoad, AckCpu, HoldRequest, RejectLoad,
       Publish, ReadOpenBus, Idle
  <2> QED BY <2>3, <2>4, <2>5
<1>5. clear_index' \in Addr /\ cpu_data' \in Byte
  BY <1>0, <1>1, MemoryAssumption DEF MemoryClock, EndActivity, Detach, LoadAbort, ColdReset,
     LoadBegin, AckDiscarded, AckClear, AckLoad, AckCpu, HoldRequest, IssueClear,
     RejectLoad, IssueLoad, Publish, IssueRead, ReadOpenBus, Idle, Issue,
     LastCleared, Addr, sessionVars
<1>6. /\ load_ready' \in BOOLEAN /\ cpu_ready' \in BOOLEAN
      /\ load_error' \in BOOLEAN /\ commit_pending' \in BOOLEAN
      /\ image_valid' \in BOOLEAN
  BY <1>0, <1>1 DEF MemoryClock, EndActivity, Detach, LoadAbort, ColdReset, LoadBegin,
     AckDiscarded, AckClear, AckLoad, AckCpu, HoldRequest, IssueClear,
     RejectLoad, IssueLoad, Publish, IssueRead, ReadOpenBus, Idle, Issue,
     sessionVars, Commit
<1>7. /\ load_active' \in BOOLEAN /\ clear_active' \in BOOLEAN
      /\ mem_req' \in BOOLEAN /\ discard_request' \in BOOLEAN
  BY <1>0, <1>1 DEF MemoryClock, EndActivity, Detach, LoadAbort, ColdReset, LoadBegin,
     AckDiscarded, AckClear, AckLoad, AckCpu, HoldRequest, IssueClear,
     RejectLoad, IssueLoad, Publish, IssueRead, ReadOpenBus, Idle, Issue,
     sessionVars, Disowned
<1> QED BY <1>2, <1>3, <1>4, <1>5, <1>6, <1>7

LEMMA ChannelTypeStep == TypeOK /\ ChannelClock => ChannelTypeOK'
  BY DEF ChannelClock, Admit, Wait, Run, CompleteWrite, CompleteRead, Release,
     channelVars, TypeOK, ChannelTypeOK, MemoryTypeOK, Request

LEMMA FileType ==
    ASSUME TypeOK
    PROVE  /\ file \in Seq(Byte) /\ Len(file) \in Nat /\ hps_pos \in 0..Len(file)
           /\ \A i \in 1..Len(file) : file[i] \in Byte
<1>1. file \in Seq(Byte)
  <2>1. file \in Files \/ file = <<>>
    BY DEF TypeOK, GlueTypeOK
  <2>2. Files \subseteq Seq(Byte)
    BY LoaderAssumption
  <2>3. CASE file = <<>>
    BY <2>3
  <2> QED BY <2>1, <2>2, <2>3
<1> QED BY <1>1 DEF TypeOK, GlueTypeOK

LEMMA Bytes == \A b \in Byte : b \in Nat /\ b <= 255
BY LoaderAssumption

(* What the ports of the parser carry; a byte is on them only when one is left. *)
LEMMA ParserPortsAre ==
    ASSUME TypeOK, NEW rb \in BOOLEAN, NEW wr \in BOOLEAN, wr => hps_pos < Len(file),
           NEW p, p = ParserPorts(rb, wr)
    PROVE  /\ p.reset = rb /\ p.cpr_download = cpr_download /\ p.ioctl_wr = wr
           /\ p.ioctl_addr = hps_pos /\ p.load_ready = load_ready
           /\ p.load_error = load_error
           /\ wr => p.ioctl_dout = file[hps_pos + 1] /\ p.ioctl_dout \in Byte
<1>1. wr => hps_pos + 1 \in 1..Len(file)
  BY FileType
<1>2. wr => file[hps_pos + 1] \in Byte
  BY <1>1, FileType
<1> QED BY <1>2 DEF ParserPorts

(* A byte more. *)
LEMMA Appended ==
    ASSUME NEW S, NEW q \in Seq(S), NEW d \in S
    PROVE  /\ Append(q, d) \in Seq(S) /\ Len(Append(q, d)) = Len(q) + 1
           /\ \A i \in 1..Len(q) : Append(q, d)[i] = q[i]
           /\ Append(q, d)[Len(q) + 1] = d
<1>1. Append(q, d) \in Seq(S) /\ Len(Append(q, d)) = Len(q) + 1
  OBVIOUS
<1>2. \A i \in 1..Len(q) : Append(q, d)[i] = q[i]
  OBVIOUS
<1>3. Append(q, d)[Len(q) + 1] = d
  OBVIOUS
<1> QED BY <1>1, <1>2, <1>3

LEMMA Elements ==
    ASSUME NEW S, NEW q \in Seq(S)
    PROVE  Len(q) \in Nat /\ \A i \in 1..Len(q) : q[i] \in S
  OBVIOUS

LEMMA ValueType ==
    ASSUME NEW f, f[1] \in Nat, f[2] \in Nat, f[3] \in Nat, f[4] \in Nat
    PROVE  Value(f) \in Nat
<1>1. PICK a \in Nat, b \in Nat, c \in Nat, d \in Nat :
        f[1] = a /\ f[2] = b /\ f[3] = c /\ f[4] = d
  OBVIOUS
<1>2. a + 256 * b + 65536 * c + 16777216 * d \in Nat
  OBVIOUS
<1>3. Value(f) = a + 256 * b + 65536 * c + 16777216 * d
  BY <1>1 DEF Value
<1> QED BY <1>2, <1>3

(* Four bytes collected for a field, and the number they stand for. *)
LEMMA FourBytes ==
    ASSUME NEW q \in Seq(Byte), Len(q) = 3, NEW d \in Byte
    PROVE  /\ Append(q, d)[1] = q[1] /\ Append(q, d)[2] = q[2]
           /\ Append(q, d)[3] = q[3] /\ Append(q, d)[4] = d
           /\ Append(q, d) = <<q[1], q[2], q[3], d>>
           /\ Value(Append(q, d)) \in Nat
<1> DEFINE r == Append(q, d)
<1>1. /\ r \in Seq(Byte) /\ Len(r) = Len(q) + 1
      /\ \A i \in 1..Len(q) : r[i] = q[i]
      /\ r[Len(q) + 1] = d
  BY Appended
<1> HIDE DEF r
<1>2. r[1] = q[1] /\ r[2] = q[2] /\ r[3] = q[3] /\ r[4] = d /\ Len(r) = 4
  BY <1>1
<1>3. \A i \in 1..4 : r[i] \in Byte
  BY <1>1, <1>2, Elements
<1>4. r[1] \in Nat /\ r[2] \in Nat /\ r[3] \in Nat /\ r[4] \in Nat
  <2>1. r[1] \in Byte /\ r[2] \in Byte /\ r[3] \in Byte /\ r[4] \in Byte
    BY <1>3
  <2> QED BY <2>1, Bytes
<1>5. Value(r) \in Nat
  BY <1>4, ValueType
<1>6. r = <<r[1], r[2], r[3], r[4]>>
  BY <1>1, <1>2
<1> QED BY <1>2, <1>5, <1>6 DEF r

LEMMA PageType ==
    ASSUME NEW f, ValidPage(f)
    PROVE  PageOf(f) \in 0..LastPage
<1>1. PICK x \in 48..51, y \in 48..57 : f[3] = x /\ f[4] = y
  BY DEF ValidPage
<1>2. PageOf(f) \in Nat
  BY <1>1 DEF PageOf
<1> QED BY <1>2, ParserAssumption DEF ValidPage

LEMMA ParserTypeStep ==
    ASSUME TypeOK, NEW rb \in BOOLEAN, NEW wr \in BOOLEAN, wr => hps_pos < Len(file),
           NEW p, p = ParserPorts(rb, wr), ParserClock(p)
    PROVE  ParserTypeOK'
<1>0. /\ ParserTypeOK /\ cpr_download \in BOOLEAN
      /\ PageBytes \in Nat \ {0} /\ LastPage \in Nat
  BY ParserAssumption DEF TypeOK, GlueTypeOK
<1>1. /\ p.reset = rb /\ p.cpr_download = cpr_download /\ p.ioctl_wr = wr
      /\ wr => p.ioctl_dout \in Byte
  BY ParserPortsAre
<1>2. NextByte(p) => p.ioctl_dout \in Byte
  BY <1>1 DEF NextByte, Taken
<1>3. state' \in Parsing \cup {"IDLE", "ERROR"} /\ load_pulse' \in {"none", "begin", "commit", "abort"}
  BY <1>0 DEF ParserTypeOK, Parsing, ParserClock, ResetParser, StartDownload, EndDownload,
     MemoryFault, NoByte, AddressGap, Signature, Collect, RiffLength, ChunkName, ChunkLength,
     ChunkData, ChunkPad, Excess, Fail, Goto, AfterChunk, LastOf
<1>4. /\ cpr_download_d' \in BOOLEAN /\ has_block' \in BOOLEAN /\ load_valid' \in BOOLEAN
  BY <1>0, <1>1 DEF ParserTypeOK, ParserClock, ResetParser, StartDownload, EndDownload,
     MemoryFault, NoByte, AddressGap, Signature, Collect, RiffLength, ChunkName, ChunkLength,
     ChunkData, ChunkPad, Excess, KeepStream, Sample, Acknowledge, Advance, LastOf
<1>5. file_pos' \in Nat
  BY <1>0 DEF ParserTypeOK, ParserClock, ResetParser, StartDownload, EndDownload,
     MemoryFault, NoByte, AddressGap, Signature, Collect, RiffLength, ChunkName, ChunkLength,
     ChunkData, ChunkPad, Excess, KeepStream, Advance, LastOf, Position
<1>6. field' \in Seq(Byte) /\ Len(field') <= 3
  <2>1. <<>> \in Seq(Byte) /\ Len(<<>>) = 0
    OBVIOUS
  <2>2. \/ field' = field \/ field' = <<>>
        \/ NextByte(p) /\ Len(field) < 3 /\ field' = Append(field, p.ioctl_dout)
    BY DEF ParserClock, ResetParser, StartDownload, EndDownload,
       MemoryFault, NoByte, AddressGap, Signature, Collect, RiffLength, ChunkName, ChunkLength,
       ChunkData, ChunkPad, Excess, KeepStream, LastOf
  <2>3. field \in Seq(Byte) /\ Len(field) <= 3 /\ Len(field) \in Nat
    BY <1>0, Elements DEF ParserTypeOK
  <2>4. CASE NextByte(p) /\ Len(field) < 3 /\ field' = Append(field, p.ioctl_dout)
    <3> DEFINE d == p.ioctl_dout
    <3>1. d \in Byte
      BY <1>2, <2>4
    <3> HIDE DEF d
    <3>2. Append(field, d) \in Seq(Byte) /\ Len(Append(field, d)) = Len(field) + 1
      BY <2>3, <3>1, Appended
    <3>3. field' = Append(field, d)
      BY <2>4 DEF d
    <3> QED BY <2>3, <2>4, <3>2, <3>3
  <2>5. CASE field' = <<>>
    BY <2>1, <2>5
  <2>6. CASE field' = field
    BY <2>3, <2>6
  <2> QED BY <2>2, <2>4, <2>5, <2>6
<1>7. Len(field) = 3 /\ NextByte(p) => Value(Full(p)) \in Nat
  BY <1>0, <1>2, FourBytes DEF Full, ParserTypeOK
<1>8. riff_limit' \in Nat
  <2>1. riff_limit' \in {riff_limit, 0} \/ (RiffLength(p) /\ riff_limit' = Value(Full(p)) + 8)
    BY DEF ParserClock, ResetParser, StartDownload, EndDownload,
       MemoryFault, NoByte, AddressGap, Signature, Collect, RiffLength, ChunkName, ChunkLength,
       ChunkData, ChunkPad, Excess, KeepStream
  <2> QED BY <1>0, <1>7, <2>1 DEF RiffLength, LastOf, ParserTypeOK
<1>9. chunk' \in [page : 0..LastPage, block : BOOLEAN, len : Nat, read : Nat]
  <2>1. \/ chunk' \in {chunk, NoChunk} \/ ChunkName(p) \/ ChunkLength(p)
        \/ chunk' = [chunk EXCEPT !.read = @ + 1]
    BY DEF ParserClock, ResetParser, StartDownload, EndDownload,
       MemoryFault, NoByte, AddressGap, Signature, Collect, RiffLength,
       ChunkData, ChunkPad, Excess, KeepStream
  <2>2. NoChunk \in [page : 0..LastPage, block : BOOLEAN, len : Nat, read : Nat]
    BY <1>0 DEF NoChunk
  <2>3. chunk \in [page : 0..LastPage, block : BOOLEAN, len : Nat, read : Nat]
    BY <1>0 DEF ParserTypeOK
  <2>4. CASE ChunkName(p)
    <3>1. \/ chunk' = chunk
          \/ ValidPage(Full(p)) /\ chunk' = [chunk EXCEPT !.block = TRUE, !.page = PageOf(Full(p))]
          \/ chunk' = [chunk EXCEPT !.block = FALSE]
      BY <2>4 DEF ChunkName
    <3>2. ValidPage(Full(p)) => PageOf(Full(p)) \in 0..LastPage
      BY PageType
    <3> QED BY <2>3, <3>1, <3>2
  <2>5. CASE ChunkLength(p)
    <3>1. \/ chunk' = chunk
          \/ chunk' = [chunk EXCEPT !.len = Value(Full(p)), !.read = 0]
      BY <2>5 DEF ChunkLength
    <3>2. Value(Full(p)) \in Nat
      BY <1>7, <2>5 DEF ChunkLength, LastOf
    <3>3. \A v \in Nat : [chunk EXCEPT !.len = v, !.read = 0]
                         \in [page : 0..LastPage, block : BOOLEAN, len : Nat, read : Nat]
      BY <2>3
    <3> QED BY <2>3, <3>1, <3>2, <3>3, Zenon
  <2> QED BY <2>1, <2>2, <2>3, <2>4, <2>5
<1>10. load_out' \in [page : 0..LastPage, offset : 0..(PageBytes - 1), data : Byte]
  <2>1. \/ load_out' \in {load_out, NoWord}
        \/ /\ NextByte(p) /\ chunk.read < PageBytes
           /\ load_out' = [page |-> chunk.page, offset |-> chunk.read, data |-> p.ioctl_dout]
    BY DEF ParserClock, ResetParser, StartDownload, EndDownload,
       MemoryFault, NoByte, AddressGap, Signature, Collect, RiffLength, ChunkName, ChunkLength,
       ChunkData, ChunkPad, Excess, KeepStream
  <2>2. NoWord \in [page : 0..LastPage, offset : 0..(PageBytes - 1), data : Byte]
    BY <1>0, LoaderAssumption DEF NoWord
  <2>3. chunk.page \in 0..LastPage /\ chunk.read \in Nat
    BY <1>0 DEF ParserTypeOK
  <2> QED BY <1>0, <1>2, <2>1, <2>2, <2>3 DEF ParserTypeOK
<1> QED BY <1>3, <1>4, <1>5, <1>6, <1>8, <1>9, <1>10 DEF ParserTypeOK

LEMMA BridgeTypeStep ==
    ASSUME TypeOK, NEW b, b = BridgePorts, BridgeClock(b)
    PROVE  BridgeTypeOK'
<1>1. /\ cpu_data \in Byte /\ OpenBus \in Byte /\ bus_addr \in Addr /\ 0 \in Addr
      /\ b.cart_data \in Byte /\ b.open_bus \in Byte /\ b.addr \in Addr
      /\ b.window_hit \in BOOLEAN
  BY MemoryAssumption DEF TypeOK, MemoryTypeOK, GlueTypeOK, BridgePorts, Addr
<1>2. BridgeTypeOK
  BY DEF TypeOK
<1>3. /\ cart_state' \in {"IDLE", "WAIT", "CAPTURE", "DONE"} /\ cart_addr' \in Addr
      /\ cart_dout' \in Byte /\ stall_count' \in Nat
  BY <1>1, <1>2 DEF BridgeTypeOK, BridgeClock, BridgeReset, Unclaimed, Claim, Await, Capture,
     Done, requestVars
<1>4. cart_valid' \in BOOLEAN /\ cart_own' \in BOOLEAN /\ cart_stall' \in BOOLEAN
  BY <1>1, <1>2 DEF BridgeTypeOK, BridgeClock, BridgeReset, Unclaimed, Claim, Await, Capture,
     Done, requestVars
<1> QED BY <1>3, <1>4 DEF BridgeTypeOK

(* The clock edge of Next with its choices named. *)
Edge(rb, wr) ==
    /\ rb => MayReset
    /\ resets' = resets + (IF rb THEN 1 ELSE 0)
    /\ undisturbed' = (Loading => undisturbed /\ ~rb)
    /\ ChannelClock /\ SlotTiming /\ BusClock
    /\ (wr /\ SendByte) \/ (~wr /\ (BeginFile \/ EndFile \/ HpsIdle))
    /\ MemoryClock(MemoryPorts(rb)) /\ ParserClock(ParserPorts(rb, wr))
    /\ ResetGlue(rb) /\ BridgeClock(BridgePorts)
    /\ gave_up' = (GivesUp(BridgePorts) \/ (gave_up /\ bus # "off"))

LEMMA NextIsEdge == Next => \E rb \in BOOLEAN, wr \in BOOLEAN : Edge(rb, wr)
<1> SUFFICES ASSUME Next PROVE \E rb \in BOOLEAN, wr \in BOOLEAN : Edge(rb, wr)
  OBVIOUS
<1>1. PICK rb \in {x \in BOOLEAN : x => MayReset} :
        /\ resets' = resets + (IF rb THEN 1 ELSE 0)
        /\ undisturbed' = (Loading => undisturbed /\ ~rb)
        /\ ChannelClock /\ SlotTiming /\ BusClock
        /\ \/ SendByte /\ Clock(rb, TRUE)
           \/ (BeginFile \/ EndFile \/ HpsIdle) /\ Clock(rb, FALSE)
  BY DEF Next
<1>2. \A wr \in BOOLEAN : Clock(rb, wr) =>
        /\ MemoryClock(MemoryPorts(rb)) /\ ParserClock(ParserPorts(rb, wr))
        /\ ResetGlue(rb) /\ BridgeClock(BridgePorts)
        /\ gave_up' = (GivesUp(BridgePorts) \/ (gave_up /\ bus # "off"))
  BY DEF Clock
<1> QED BY <1>1, <1>2 DEF Edge

LEMMA GlueTypeStep ==
    ASSUME TypeOK, NEW rb \in BOOLEAN, NEW wr \in BOOLEAN, Edge(rb, wr)
    PROVE  GlueTypeOK'
<1> USE DEF GlueTypeOK
<1>1. GlueTypeOK
  BY DEF TypeOK
<1>2. file' \in Files \cup {<<>>} /\ hps_pos' \in 0..Len(file') /\ cpr_download' \in BOOLEAN
  <2>1. CASE BeginFile
    <3>1. file' \in Files /\ hps_pos' = 0 /\ cpr_download' = TRUE
      BY <1>1, <2>1, LoaderAssumption DEF BeginFile
    <3>2. Len(file') \in Nat
      BY <3>1, LoaderAssumption
    <3> QED BY <3>1, <3>2
  <2>2. CASE SendByte \/ EndFile \/ HpsIdle
    <3>1. file' = file /\ cpr_download' \in BOOLEAN
      BY <1>1, <2>2 DEF SendByte, EndFile, HpsIdle, hpsVars
    <3>2. hps_pos' \in 0..Len(file)
      BY <2>2, FileType DEF SendByte, EndFile, HpsIdle, hpsVars
    <3> QED BY <1>1, <3>1, <3>2
  <2> QED BY <2>1, <2>2 DEF Edge
<1>3. /\ old_cpr_download' \in BOOLEAN /\ cpr_finish_pending' \in BOOLEAN
      /\ reset' \in BOOLEAN /\ gave_up' \in BOOLEAN /\ undisturbed' \in BOOLEAN
  BY <1>1 DEF Edge, ResetGlue, CprReset
<1>4. cpr_apply_cnt' \in 0..7
  BY <1>1 DEF Edge, ResetGlue
<1>5. resets' \in 0..MaxResets
  BY <1>1, LoaderAssumption DEF Edge, MayReset
<1>6. bus' \in {"off", "read", "latch"} /\ bus_addr' \in Addr /\ bus_clock' \in Nat
  <2>1. 0 \in Addr /\ CpuAddrs \subseteq Addr
    BY MemoryAssumption, LoaderAssumption DEF Addr
  <2> QED BY <1>1, <2>1 DEF Edge, BusClock, BeginRead, InWait, Released, ToLatch, EndRead,
         BusIdle, busVars
<1>7. slot_clock' \in Nat
  BY <1>1 DEF Edge, SlotTiming
<1> QED BY <1>2, <1>3, <1>4, <1>5, <1>6, <1>7

LEMMA TypeInit == Init => TypeOK
<1> SUFFICES ASSUME Init PROVE TypeOK
  OBVIOUS
<1> USE DEF Init
<1>1. /\ 0 \in Addr /\ 0 \in Byte /\ OpenBus \in Byte /\ Zero \in Byte /\ OldByte \in Byte
      /\ PageBytes \in Nat \ {0} /\ LastPage \in Nat
  BY MemoryAssumption, LoaderAssumption, ParserAssumption DEF Addr
<1>2. request \in Request
  BY <1>1 DEF MemoryQuiet, Request
<1>3. MemoryTypeOK
  BY <1>1, <1>2 DEF MemoryQuiet, MemoryTypeOK
<1>4. ChannelTypeOK
  BY <1>1, <1>2 DEF ChannelTypeOK
<1>5. ParserTypeOK
  <2>1. field \in Seq(Byte) /\ Len(field) <= 3
    BY DEF ParserInit
  <2>2. /\ chunk \in [page : 0..LastPage, block : BOOLEAN, len : Nat, read : Nat]
        /\ load_out \in [page : 0..LastPage, offset : 0..(PageBytes - 1), data : Byte]
        /\ file_pos \in Nat /\ riff_limit \in Nat
    BY <1>1 DEF ParserInit, NoChunk, NoWord
  <2>3. /\ state \in Parsing \cup {"IDLE", "ERROR"}
        /\ {cpr_download_d, has_block, load_valid} \subseteq BOOLEAN
        /\ load_pulse \in {"none", "begin", "commit", "abort"}
    BY DEF ParserInit
  <2> QED BY <2>1, <2>2, <2>3 DEF ParserTypeOK
<1>6. BridgeTypeOK
  BY <1>1 DEF BridgeInit, BridgeTypeOK
<1>7. GlueTypeOK
  <2>1. Len(file) = 0 /\ file = <<>>
    OBVIOUS
  <2>2. file \in Files \cup {<<>>} /\ hps_pos \in 0..Len(file)
    BY <2>1
  <2>3. cpr_apply_cnt \in 0..7 /\ resets \in 0..MaxResets
    BY LoaderAssumption
  <2> QED BY <1>1, <2>2, <2>3 DEF GlueTypeOK
<1> QED BY <1>3, <1>4, <1>5, <1>6, <1>7 DEF TypeOK

LEMMA EdgeTypes ==
    ASSUME TypeOK, NEW rb \in BOOLEAN, NEW wr \in BOOLEAN, Edge(rb, wr)
    PROVE  TypeOK'
<1>1. wr => hps_pos < Len(file)
  BY DEF Edge, SendByte
<1>2. MemoryTypeOK'
  BY MemoryTypeStep DEF Edge
<1>3. ChannelTypeOK'
  BY ChannelTypeStep DEF Edge
<1>4. ParserTypeOK'
  BY <1>1, ParserTypeStep DEF Edge
<1>5. BridgeTypeOK'
  BY BridgeTypeStep DEF Edge
<1>6. GlueTypeOK'
  BY GlueTypeStep
<1> QED BY <1>2, <1>3, <1>4, <1>5, <1>6 DEF TypeOK

LEMMA TypeStep == TypeOK /\ [Next]_vars => TypeOK'
<1> SUFFICES ASSUME TypeOK, [Next]_vars PROVE TypeOK'
  OBVIOUS
<1>1. CASE UNCHANGED vars
  BY <1>1 DEF vars, memoryVars, sessionVars, channelVars, parserVars, bridgeVars, requestVars,
     hpsVars, glueVars, busVars, TypeOK, MemoryTypeOK, ChannelTypeOK, ParserTypeOK,
     BridgeTypeOK, GlueTypeOK
<1>2. CASE Next
  <2>1. PICK rb \in BOOLEAN, wr \in BOOLEAN : Edge(rb, wr)
    BY <1>2, NextIsEdge
  <2> QED BY <2>1, EdgeTypes
<1> QED BY <1>1, <1>2

(* No register, byte of the file or phase of a cycle leaves its range. *)
THEOREM TypeCorrect == Spec => []TypeOK
BY TypeInit, TypeStep, PTL DEF Spec

-----------------------------------------------------------------------------
(* The machine is in reset as long as the image may change: the download
   level, its delayed copy and the pending finish hand it over without a gap,
   and every pulse of the parser falls into it. *)
ResetInv ==
    /\ state = "IDLE" <=> ~cpr_download_d
    /\ cpr_download_d => old_cpr_download
    /\ load_pulse = "begin" => cpr_download /\ cpr_download_d
    /\ load_active => cpr_download \/ old_cpr_download \/ cpr_finish_pending
    /\ load_active \/ load_pulse # "none" => reset

(* What one edge of the parser does to its download level and its pulses. *)
LEMMA PulseStep ==
    ASSUME TypeOK, ResetInv, NEW rb \in BOOLEAN, NEW wr \in BOOLEAN,
           NEW p, p = ParserPorts(rb, wr), ParserClock(p)
    PROVE  /\ state' = "IDLE" <=> ~cpr_download_d'
           /\ cpr_download_d' => cpr_download
           /\ load_pulse' # "none" => cpr_download \/ old_cpr_download
           /\ load_pulse' = "begin" => cpr_download /\ ~cpr_download_d /\ cpr_download_d'
<1>1. /\ p.reset = rb /\ p.cpr_download = cpr_download
      /\ cpr_download \in BOOLEAN /\ cpr_download_d \in BOOLEAN
  BY DEF ParserPorts, TypeOK, ParserTypeOK, GlueTypeOK
<1>2. CASE ResetParser(p) \/ StartDownload(p) \/ EndDownload(p)
  BY <1>1, <1>2 DEF ResetParser, StartDownload, EndDownload, Sample, ResetInv
<1>3. CASE NoByte(p) \/ MemoryFault(p)
  BY <1>1, <1>3 DEF NoByte, MemoryFault, Steady, Faulted, Sample, ResetInv
<1>4. CASE /\ Taken(p) /\ Sample(p) /\ state' # "IDLE" /\ load_pulse' # "begin"
  BY <1>1, <1>4 DEF Taken, Steady, Sample, ResetInv
<1>5. CASE AddressGap(p) \/ Signature(p) \/ Collect(p) \/ RiffLength(p) \/ ChunkName(p)
             \/ ChunkLength(p) \/ ChunkData(p) \/ ChunkPad(p) \/ Excess(p)
  <2>1. Taken(p) /\ Sample(p)
    BY <1>5 DEF AddressGap, Signature, Collect, RiffLength, ChunkName, ChunkLength, ChunkData,
       ChunkPad, Excess, LastOf, NextByte, Advance
  <2>2. state' # "IDLE" /\ load_pulse' # "begin"
    BY <1>5 DEF AddressGap, Signature, Collect, RiffLength, ChunkName, ChunkLength, ChunkData,
       ChunkPad, Excess, LastOf, Goto, Fail, AfterChunk
  <2> QED BY <1>4, <2>1, <2>2
<1> QED BY <1>2, <1>3, <1>5 DEF ParserClock

(* An image appears, goes or begins to be loaded only by a pulse of the parser
   or in a session. *)
LEMMA SessionStep ==
    ASSUME TypeOK, NEW rb \in BOOLEAN, NEW m, m = MemoryPorts(rb), MemoryClock(m)
    PROVE  /\ load_active' => load_active \/ load_pulse = "begin"
           /\ image_valid' # image_valid => load_active \/ load_pulse # "none"
<1>1. CASE ControlEvent(m)
  <2>1. Detach(m) \/ LoadAbort(m) \/ ColdReset(m) \/ LoadBegin(m)
    BY <1>1 DEF MemoryClock, Acked, Free, NewWord, NewRead, AckDiscarded, AckClear,
       AckLoad, AckCpu, HoldRequest, IssueClear, RejectLoad, IssueLoad, Publish,
       IssueRead, ReadOpenBus, Idle
  <2>2. LoadBegin(m) => load_pulse = "begin"
    BY PortsAre DEF LoadBegin, BeginEvent
  <2>3. Detach(m) \/ LoadAbort(m) => load_pulse # "none"
    BY PortsAre DEF Detach, LoadAbort, DetachEvent, AbortEvent
  <2> QED BY <2>1, <2>2, <2>3 DEF Detach, LoadAbort, ColdReset
<1>2. CASE ~ControlEvent(m)
  <2>1. \/ AckDiscarded(m) \/ AckClear(m) \/ AckLoad(m) \/ AckCpu(m) \/ HoldRequest(m)
        \/ IssueClear(m) \/ RejectLoad(m) \/ IssueLoad(m) \/ Publish(m) \/ IssueRead(m)
        \/ ReadOpenBus(m) \/ Idle(m)
    BY <1>2 DEF MemoryClock, ControlEvent, Detach, LoadAbort, ColdReset, LoadBegin
  <2>2. (load_active' = load_active /\ image_valid' = image_valid) \/ Publish(m)
    BY <2>1 DEF AckDiscarded, AckClear, AckLoad, AckCpu, HoldRequest, IssueClear, RejectLoad,
       IssueLoad, IssueRead, ReadOpenBus, Idle, sessionVars
  <2> QED BY <2>2 DEF Publish
<1> QED BY <1>1, <1>2

LEMMA ResetStep ==
    ASSUME TypeOK, ResetInv, NEW rb \in BOOLEAN, NEW wr \in BOOLEAN, Edge(rb, wr)
    PROVE  ResetInv'
<1>1. PICK p : p = ParserPorts(rb, wr) /\ ParserClock(p)
  BY DEF Edge
<1>2. PICK m : m = MemoryPorts(rb) /\ MemoryClock(m)
  BY DEF Edge
<1>3. /\ state' = "IDLE" <=> ~cpr_download_d'
      /\ cpr_download_d' => cpr_download
      /\ load_pulse' # "none" => cpr_download \/ old_cpr_download
      /\ load_pulse' = "begin" => cpr_download /\ ~cpr_download_d /\ cpr_download_d'
  BY <1>1, PulseStep
<1>4. load_active' => load_active \/ load_pulse = "begin"
  BY <1>2, SessionStep
<1>5. /\ old_cpr_download' = cpr_download
      /\ cpr_finish_pending' = /\ ~FinishReady
                               /\ cpr_finish_pending \/ (old_cpr_download /\ ~cpr_download)
      /\ reset' = (rb \/ CprReset)
  BY DEF Edge, ResetGlue
<1>6. cpr_download /\ ~cpr_download_d => cpr_download'
  BY DEF Edge, BeginFile, SendByte, EndFile, HpsIdle, hpsVars, IoctlWait
<1>7. /\ cpr_download \in BOOLEAN /\ old_cpr_download \in BOOLEAN
      /\ cpr_finish_pending \in BOOLEAN /\ reset \in BOOLEAN /\ load_active \in BOOLEAN
  BY DEF TypeOK, GlueTypeOK, MemoryTypeOK
<1>8. load_active' => CprReset /\ (old_cpr_download' \/ cpr_finish_pending')
  BY <1>4, <1>5, <1>7 DEF ResetInv, CprReset, FinishReady
<1>9. load_pulse' # "none" => CprReset
  BY <1>3, <1>7 DEF CprReset
<1> QED BY <1>3, <1>5, <1>6, <1>8, <1>9 DEF ResetInv

(* What the machine may see does not change while it runs. *)
LEMMA ImageStays ==
    ASSUME TypeOK, ResetInv, NEW rb \in BOOLEAN, NEW wr \in BOOLEAN, Edge(rb, wr), ~reset
    PROVE  image_valid' = image_valid
<1>1. PICK m : m = MemoryPorts(rb) /\ MemoryClock(m)
  BY DEF Edge
<1> QED BY <1>1, SessionStep DEF ResetInv

-----------------------------------------------------------------------------
(* The service and its slot: a request is held until its acknowledge, a
   published image is only read, and a grant is that of the read in the slot. *)
ServiceInv ==
    /\ HeldUntilAck
    /\ discard_request => mem_req
    /\ clear_active => load_active
    /\ image_valid => ~load_active
    /\ mem_req => (request.write <=> request.kind # "cpu")
    /\ mem_req /\ image_valid => request.kind = "cpu"
    /\ mem_req /\ request.write /\ ~discard_request => load_active
    /\ chan = "ack" /\ ~slot.write => mem_rdata = store[slot.addr]
    /\ cpu_granted =>
          /\ mem_req /\ ~discard_request /\ request.kind = "cpu"
          /\ chan \in {"run", "ack"}

LEMMA RequestHeld ==
    ASSUME TypeOK, NEW rb \in BOOLEAN, NEW m, m = MemoryPorts(rb), MemoryClock(m),
           mem_req, chan # "ack"
    PROVE  mem_req' /\ request' = request
<1>1. ~m.mem_ack
  BY PortsAre
<1> QED
  BY <1>1 DEF MemoryClock, EndActivity, Detach, LoadAbort, ColdReset, LoadBegin,
     Acked, Free, NewWord, NewRead, AckDiscarded, AckClear, AckLoad, AckCpu,
     HoldRequest, IssueClear, RejectLoad, IssueLoad, Publish, IssueRead,
     ReadOpenBus, Idle, TypeOK, MemoryTypeOK

LEMMA HeldStep ==
    ASSUME TypeOK, HeldUntilAck, NEW rb \in BOOLEAN, NEW m, m = MemoryPorts(rb),
           MemoryClock(m), ChannelClock
    PROVE  HeldUntilAck'
<1>1. CASE mem_req /\ chan # "ack"
  BY <1>1, RequestHeld DEF ChannelClock, Admit, Wait, Run, CompleteWrite,
     CompleteRead, Release, channelVars, HeldUntilAck
<1>2. CASE chan = "ack" \/ ~mem_req
  BY <1>2 DEF ChannelClock, Admit, Wait, Run, CompleteWrite,
     CompleteRead, Release, channelVars, HeldUntilAck
<1> QED BY <1>1, <1>2 DEF TypeOK, MemoryTypeOK

(* The store changes only when a held write completes, and then by it. *)
LEMMA StoreStep ==
    ASSUME TypeOK, HeldUntilAck, ChannelClock
    PROVE  \/ store' = store
           \/ /\ mem_req /\ request.write /\ chan = "run" /\ chan' = "ack"
              /\ store' = [store EXCEPT ![request.addr] = request.data]
  BY DEF ChannelClock, Admit, Wait, Run, CompleteWrite, CompleteRead, Release,
     channelVars, HeldUntilAck, TypeOK, ChannelTypeOK

LEMMA ControlEdge ==
    ASSUME TypeOK, NEW rb \in BOOLEAN, NEW m, m = MemoryPorts(rb), MemoryClock(m)
    PROVE  ControlEvent(m) <=> LoadAbort(m) \/ ColdReset(m) \/ LoadBegin(m)
<1>1. ~Detach(m)
  BY PortsAre DEF Detach, DetachEvent
<1> QED
  BY <1>1 DEF MemoryClock, ControlEvent, LoadAbort, ColdReset, LoadBegin, Acked, Free, NewWord,
     NewRead, AckDiscarded, AckClear, AckLoad, AckCpu, HoldRequest, IssueClear,
     RejectLoad, IssueLoad, Publish, IssueRead, ReadOpenBus, Idle

LEMMA GrantedStep ==
    ASSUME TypeOK, ServiceInv, NEW rb \in BOOLEAN, NEW m, m = MemoryPorts(rb),
           MemoryClock(m), ChannelClock, cpu_granted'
    PROVE  /\ mem_req' /\ ~discard_request' /\ request'.kind = "cpu"
           /\ chan' \in {"run", "ack"} /\ cart_valid
<1>1. m.mem_ack = (chan = "ack") /\ m.mem_grant = (chan = "granted") /\ m.cpu_valid = cart_valid
  BY PortsAre
<1>2. GrantStep(m)
  BY DEF MemoryClock, Detach, LoadAbort, ColdReset, LoadBegin, EndActivity,
     AckDiscarded, AckClear, AckLoad, AckCpu, HoldRequest, IssueClear,
     RejectLoad, IssueLoad, Publish, IssueRead, ReadOpenBus, Idle
<1>3. /\ ~ControlEvent(m) /\ mem_req /\ chan # "ack" /\ request.kind = "cpu"
      /\ ~discard_request /\ cart_valid /\ (cpu_granted \/ chan = "granted")
  BY <1>1, <1>2 DEF GrantStep
<1>4. HoldRequest(m)
  BY <1>1, <1>3 DEF MemoryClock, Detach, LoadAbort, ColdReset, LoadBegin,
     ControlEvent, Acked, AckDiscarded, AckClear, AckLoad, AckCpu, Free, NewWord,
     NewRead, IssueClear, RejectLoad, IssueLoad, Publish, IssueRead,
     ReadOpenBus, Idle
<1>5. mem_req' /\ ~discard_request' /\ request'.kind = "cpu"
  BY <1>1, <1>3, <1>4 DEF HoldRequest, Disowned
<1>6. chan \in {"granted", "run"}
  BY <1>3 DEF ServiceInv
<1>7. chan' \in {"run", "ack"}
  BY <1>6 DEF ChannelClock, Admit, Wait, Run, CompleteWrite, CompleteRead,
     Release, channelVars
<1> QED BY <1>3, <1>5, <1>7

LEMMA Issued ==
    ASSUME NEW k, NEW a, NEW d, Issue(k, a, d)
    PROVE  /\ mem_req' = TRUE /\ discard_request' = discard_request
           /\ request'.kind = k /\ (request'.write <=> k # "cpu")
           /\ request'.addr = a /\ request'.data = d
<1>1. request' = [kind |-> k, write |-> k # "cpu", addr |-> a, data |-> d]
  BY DEF Issue
<1>2. request'.write <=> k # "cpu"
  <2>1. request'.write = (k # "cpu")
    BY <1>1
  <2>2. CASE k = "cpu"
    BY <2>1, <2>2
  <2>3. CASE k # "cpu"
    BY <2>1, <2>3
  <2> QED BY <2>2, <2>3
<1>3. request'.kind = k /\ request'.addr = a /\ request'.data = d
  BY <1>1
<1>4. mem_req' = TRUE /\ discard_request' = discard_request
  BY DEF Issue
<1> QED BY <1>2, <1>3, <1>4

LEMMA ServiceStep ==
    ASSUME TypeOK, ServiceInv, NEW rb \in BOOLEAN, NEW wr \in BOOLEAN, Edge(rb, wr)
    PROVE  ServiceInv'
<1>1. PICK m : m = MemoryPorts(rb) /\ MemoryClock(m)
  BY DEF Edge
<1>2. HeldUntilAck'
  BY <1>1, HeldStep DEF Edge, ServiceInv
<1>3. cpu_granted' => /\ mem_req' /\ ~discard_request' /\ request'.kind = "cpu"
                      /\ chan' \in {"run", "ack"}
  BY <1>1, GrantedStep DEF Edge
<1>4. chan' = "ack" /\ ~slot'.write => mem_rdata' = store'[slot'.addr]
  BY DEF Edge, ChannelClock, Admit, Wait, Run, CompleteWrite, CompleteRead, Release, channelVars
<1> DEFINE Registers ==
      /\ discard_request => mem_req
      /\ clear_active => load_active
      /\ image_valid => ~load_active
      /\ mem_req => (request.write <=> request.kind # "cpu")
      /\ mem_req /\ image_valid => request.kind = "cpu"
      /\ mem_req /\ request.write /\ ~discard_request => load_active
<1>5. Registers /\ MemoryTypeOK
  BY DEF ServiceInv, TypeOK
<1>6. Registers'
  <2>1. CASE ControlEvent(m)
    <3>1. /\ discard_request' = mem_req' /\ request' = request /\ (mem_req' => mem_req)
          /\ LoadAbort(m) \/ ColdReset(m) \/ LoadBegin(m)
      BY <1>1, <1>5, <2>1, ControlEdge DEF LoadAbort, ColdReset, LoadBegin, EndActivity,
         MemoryTypeOK
    <3>2. CASE LoadAbort(m) \/ LoadBegin(m)
      BY <1>5, <3>1, <3>2 DEF LoadAbort, LoadBegin
    <3>3. CASE ColdReset(m)
      BY <1>5, <3>1, <3>3 DEF ColdReset
    <3> QED BY <3>1, <3>2, <3>3
  <2>2. CASE ~ControlEvent(m)
    <3>1. CASE AckDiscarded(m) \/ AckLoad(m) \/ AckCpu(m)
      BY <1>5, <3>1 DEF AckDiscarded, AckLoad, AckCpu, Acked, Disowned, sessionVars
    <3>2. CASE AckClear(m)
      <4>1. /\ mem_req /\ ~discard_request /\ request.kind = "clear" /\ load_active
            /\ image_valid' = image_valid /\ load_active' = load_active
        BY <1>5, <3>2 DEF AckClear, Acked, Disowned
      <4>2. CASE LastCleared
        BY <1>5, <3>2, <4>1, <4>2 DEF AckClear
      <4>3. CASE ~LastCleared
        <5>1. Issue("clear", clear_index + 1, Zero) /\ clear_active' = clear_active
          BY <3>2, <4>3 DEF AckClear
        <5> QED BY <1>5, <4>1, <5>1, Issued
      <4> QED BY <4>2, <4>3
    <3>3. CASE HoldRequest(m)
      BY <1>5, <3>3 DEF HoldRequest, Disowned, sessionVars
    <3>4. CASE IssueClear(m) \/ IssueLoad(m) \/ IssueRead(m)
      <4>1. PICK k \in {"clear", "load", "cpu"}, a \in {clear_index, m.load_word.addr, m.cpu_addr},
                 d \in {Zero, m.load_word.data} :
              /\ Issue(k, a, d) /\ ~mem_req
              /\ IF k = "cpu" THEN ~load_active /\ image_valid ELSE load_active
        BY <3>4 DEF IssueClear, IssueLoad, IssueRead, NewWord, NewRead, Free
      <4>2. /\ image_valid' = image_valid /\ load_active' = load_active
            /\ clear_active' = clear_active
        BY <3>4 DEF IssueClear, IssueLoad, IssueRead, sessionVars
      <4>3. /\ mem_req' = TRUE /\ discard_request' = discard_request
            /\ request'.kind = k /\ (request'.write <=> k # "cpu")
        BY <4>1, Issued
      <4> QED BY <1>5, <4>1, <4>2, <4>3
    <3>5. CASE RejectLoad(m) \/ Publish(m) \/ ReadOpenBus(m) \/ Idle(m)
      BY <1>5, <3>5 DEF RejectLoad, Publish, ReadOpenBus, Idle, NewWord, NewRead, Free, sessionVars
    <3> QED BY <1>1, <2>2, <3>1, <3>2, <3>3, <3>4, <3>5, ControlEdge
            DEF MemoryClock, Detach, ControlEvent
  <2> QED BY <2>1, <2>2
<1> QED BY <1>2, <1>3, <1>4, <1>6 DEF ServiceInv

(* A published image is not written. *)
LEMMA StoreStays ==
    ASSUME TypeOK, ServiceInv, image_valid, ChannelClock
    PROVE  store' = store
  BY StoreStep DEF ServiceInv

-----------------------------------------------------------------------------
(* The read cycle.  What the CPU should see of its address, and the read that
   is in SDRAM for the cycle on the port. *)
Shown == IF image_valid THEN store[bus_addr] ELSE OpenBus
OwnRead == mem_req /\ ~discard_request /\ request.kind = "cpu"

CycleInv ==
    /\ bus = "off" => cart_state \in {"IDLE", "DONE"}
    /\ bus = "read" => bus_clock \in {0, 1}
    /\ bus = "read" /\ bus_clock = 0 => cart_state = "IDLE" /\ ~gave_up
    /\ bus = "latch" \/ (bus = "read" /\ bus_clock = 1) =>
          cart_state # "IDLE" /\ cart_own /\ cart_addr = bus_addr
    /\ bus = "latch" => ~cart_stall
    /\ cart_valid <=> cart_state = "WAIT"
    /\ cart_state = "WAIT" =>
          /\ ~gave_up
          /\ OwnRead => request.addr = bus_addr /\ image_valid
          /\ cpu_ready => cpu_data = Shown
    /\ cart_state = "CAPTURE" => ~gave_up /\ cpu_data = Shown
    /\ cart_state = "DONE" /\ bus # "off" =>
          cart_dout = IF image_valid /\ ~gave_up THEN store[bus_addr] ELSE OpenBus

(* When WAIT has been released, the read is in its slot and the slot is ahead
   of the latch, then acknowledged, then answered: "bus_clock" counts from the
   release, "slot_clock" from the grant, at least two clocks earlier. *)
TimeInv ==
    /\ chan # "run" => slot_clock = 0
    /\ chan = "run" /\ ~slot.write => slot_clock \in 1..(ReadSlot - 1)
    /\ bus = "latch" => bus_clock >= 1
    /\ bus = "latch" /\ cart_state \in {"WAIT", "CAPTURE"} => bus_clock <= ReadSlot
    /\ cart_state = "WAIT" /\ ~cart_stall /\ ~reset =>
          \/ /\ OwnRead /\ chan = "run" /\ slot_clock >= 2
             /\ bus = "latch" => slot_clock >= bus_clock + 2
          \/ /\ OwnRead /\ chan = "ack"
             /\ bus = "latch" => bus_clock <= ReadSlot - 2
          \/ /\ cpu_ready
             /\ bus = "latch" => bus_clock <= ReadSlot - 1

(* The CPU's side of a clock outside of a reset. *)
LEMMA BusMoves ==
    ASSUME TypeOK, ~reset, BusClock
    PROVE  /\ bus = "off" => bus' = "off" \/ (bus' = "read" /\ bus_clock' = 0)
           /\ bus = "read" => /\ bus_addr' = bus_addr /\ bus_clock' = 1
                              /\ bus' = "read" \/ (bus' = "latch" /\ bus_clock = 1 /\ ~cart_stall)
           /\ bus = "latch" => IF Latching THEN bus' = "off"
                               ELSE /\ bus' = "latch" /\ bus_addr' = bus_addr
                                    /\ bus_clock' = bus_clock + 1
  BY DEF BusClock, BeginRead, InWait, Released, ToLatch, EndRead, BusIdle, Latching, busVars,
     TypeOK, GlueTypeOK

LEMMA BusStops == ASSUME TypeOK, reset, BusClock PROVE bus' = "off"
  BY DEF BusClock, BeginRead, InWait, Released, ToLatch, EndRead, BusIdle, busVars,
     TypeOK, GlueTypeOK

(* A read that is in SDRAM for the cycle on the port, on the edge that puts it
   there and on those that hold it. *)
LEMMA ReadHeldStep ==
    ASSUME TypeOK, ServiceInv, NEW rb \in BOOLEAN, NEW m, m = MemoryPorts(rb), MemoryClock(m),
           OwnRead'
    PROVE  /\ cart_valid
           /\ \/ OwnRead /\ request' = request
              \/ image_valid /\ request'.addr = cart_addr
<1>1. /\ m.cpu_valid = cart_valid /\ m.cpu_addr = cart_addr /\ m.mem_ack = (chan = "ack")
  BY PortsAre
<1>2. mem_req' /\ request'.kind = "cpu" /\ ~discard_request'
  BY DEF OwnRead
<1>3. ~ControlEvent(m)
  BY <1>2, ControlEdge DEF LoadAbort, ColdReset, LoadBegin, EndActivity, TypeOK, MemoryTypeOK
<1>4. CASE IssueRead(m)
  <2>1. Issue("cpu", m.cpu_addr, Zero) /\ m.cpu_valid /\ image_valid
    BY <1>4 DEF IssueRead, NewRead
  <2> QED BY <1>1, <2>1, Issued
<1>5. CASE HoldRequest(m)
  BY <1>1, <1>2, <1>5 DEF HoldRequest, Disowned, OwnRead
<1>6. ~AckClear(m)
  <2>1. ASSUME AckClear(m) PROVE FALSE
    <3>1. mem_req' = FALSE \/ Issue("clear", clear_index + 1, Zero)
      BY <2>1 DEF AckClear
    <3> QED BY <1>2, <3>1, Issued
  <2> QED BY <2>1
<1>7. ~(IssueClear(m) \/ IssueLoad(m))
  <2>1. ASSUME IssueClear(m) \/ IssueLoad(m) PROVE FALSE
    <3>1. PICK k \in {"clear", "load"}, a \in {clear_index, m.load_word.addr},
               d \in {Zero, m.load_word.data} : Issue(k, a, d)
      BY <2>1 DEF IssueClear, IssueLoad
    <3> QED BY <1>2, <3>1, Issued
  <2> QED BY <2>1
<1> QED
  BY <1>2, <1>3, <1>4, <1>5, <1>6, <1>7, ControlEdge DEF MemoryClock, ControlEvent, Detach,
     Acked, Free, NewWord, NewRead, AckDiscarded, AckLoad, AckCpu, RejectLoad, Publish,
     ReadOpenBus, Idle, TypeOK, MemoryTypeOK

(* Without a control event a read goes on to its answer. *)
LEMMA ReadGoesOn ==
    ASSUME TypeOK, ServiceInv, NEW rb \in BOOLEAN, NEW m, m = MemoryPorts(rb), MemoryClock(m),
           ~ControlEvent(m), OwnRead, cart_valid
    PROVE  IF chan = "ack" THEN cpu_ready' ELSE OwnRead'
<1>1. m.cpu_valid = cart_valid /\ m.mem_ack = (chan = "ack")
  BY PortsAre
<1>2. ~Disowned(m) /\ mem_req /\ ~discard_request /\ request.kind = "cpu"
  BY <1>1 DEF Disowned, OwnRead
<1>3. IF chan = "ack" THEN AckCpu(m) ELSE HoldRequest(m)
  BY <1>1, <1>2 DEF MemoryClock, ControlEvent, Detach, LoadAbort, ColdReset,
     LoadBegin, Acked, AckDiscarded, AckClear, AckLoad, AckCpu, HoldRequest, Free, NewWord,
     NewRead, IssueClear, RejectLoad, IssueLoad, Publish, IssueRead, ReadOpenBus, Idle
<1> QED BY <1>2, <1>3 DEF AckCpu, HoldRequest, OwnRead

(* An answer is given to a cycle on the port only, and it is the byte read for
   it, or open bus without an image. *)
LEMMA AnswerStep ==
    ASSUME TypeOK, NEW rb \in BOOLEAN, NEW m, m = MemoryPorts(rb), MemoryClock(m),
           cpu_ready' \/ cpu_data' # cpu_data
    PROVE  /\ cart_valid
           /\ \/ OwnRead /\ chan = "ack" /\ cpu_data' = mem_rdata
              \/ ~image_valid /\ cpu_data' = OpenBus
<1>1. /\ m.cpu_valid = cart_valid /\ m.mem_ack = (chan = "ack") /\ m.mem_rdata = mem_rdata
  BY PortsAre
<1>2. AckCpu(m) \/ ReadOpenBus(m)
  BY DEF MemoryClock, Detach, LoadAbort, ColdReset, LoadBegin, EndActivity,
     AckDiscarded, AckClear, AckLoad, HoldRequest, IssueClear, RejectLoad,
     IssueLoad, Publish, IssueRead, Idle
<1>3. CASE AckCpu(m)
  BY <1>1, <1>3 DEF AckCpu, Acked, Disowned, OwnRead
<1>4. CASE ReadOpenBus(m)
  BY <1>1, <1>4 DEF ReadOpenBus, NewRead
<1> QED BY <1>2, <1>3, <1>4
(* The slot of a read is over before the latch of the opcode: what the bridge
   rests on when it lets the CPU go at the grant. *)
Timing == ReadSlot >= 2 /\ HalfCycle > ReadSlot

ReadInv == TypeOK /\ ResetInv /\ ServiceInv /\ CycleInv /\ TimeInv

(* What a right answer is, on the edge that gives it. *)
LEMMA RightAnswer ==
    ASSUME ReadInv, ~reset, NEW rb \in BOOLEAN, NEW wr \in BOOLEAN, Edge(rb, wr)
    PROVE  /\ cart_state = "WAIT" /\ (cpu_ready' \/ cpu_data' # cpu_data) => cpu_data' = Shown
           /\ cart_state # "WAIT" => cpu_ready' = FALSE /\ cpu_data' = cpu_data
           /\ image_valid' = image_valid
           /\ image_valid => store' = store
<1> USE DEF ReadInv
<1>1. PICK m : m = MemoryPorts(rb) /\ MemoryClock(m)
  BY DEF Edge
<1>2. image_valid' = image_valid /\ (image_valid => store' = store)
  BY ImageStays, StoreStays DEF Edge
<1>3. cart_state # "WAIT" => ~cart_valid
  BY DEF CycleInv
<1>4. cpu_ready' \in BOOLEAN
  BY <1>1, MemoryTypeStep DEF MemoryTypeOK
<1>5. ASSUME cart_state = "WAIT", cpu_ready' \/ cpu_data' # cpu_data PROVE cpu_data' = Shown
  <2>1. \/ OwnRead /\ chan = "ack" /\ cpu_data' = mem_rdata
        \/ ~image_valid /\ cpu_data' = OpenBus
    BY <1>1, <1>5, AnswerStep
  <2>2. ASSUME OwnRead, chan = "ack" PROVE mem_rdata = store[bus_addr] /\ image_valid
    <3>1. request.addr = bus_addr /\ image_valid
      BY <1>5, <2>2 DEF CycleInv
    <3>2. slot = request /\ ~slot.write
      BY <2>2 DEF OwnRead, ServiceInv, HeldUntilAck
    <3> QED BY <2>2, <3>1, <3>2 DEF ServiceInv
  <2> QED BY <2>1, <2>2 DEF Shown
<1> QED BY <1>1, <1>2, <1>3, <1>4, <1>5, AnswerStep

(* A cycle in reset is dropped on both sides. *)
LEMMA CycleDropped ==
    ASSUME ReadInv, reset, NEW rb \in BOOLEAN, NEW wr \in BOOLEAN, Edge(rb, wr)
    PROVE  bus' = "off" /\ cart_state' = "IDLE" /\ cart_valid' = FALSE
<1>1. bus' = "off"
  BY BusStops DEF Edge, ReadInv
<1>2. BridgePorts.reset
  BY DEF BridgePorts
<1> QED BY <1>1, <1>2 DEF Edge, BridgeClock, BridgeReset

(* One clock of bridge and bus together, by the state of the bridge. *)
LEMMA BridgeRuns ==
    ASSUME TypeOK, ~reset, BridgeClock(BridgePorts)
    PROVE  \/ /\ cart_state = "IDLE" /\ bus = "off"
              /\ cart_state' = "IDLE" /\ cart_valid' = cart_valid
           \/ /\ cart_state = "IDLE" /\ bus # "off"
              /\ cart_state' = "WAIT" /\ cart_valid' = TRUE /\ cart_addr' = bus_addr
              /\ cart_own' = TRUE /\ cart_stall' = TRUE
           \/ /\ cart_state = "WAIT" /\ Await(BridgePorts)
           \/ /\ cart_state = "CAPTURE" /\ cart_state' = "DONE" /\ cart_dout' = cpu_data
              /\ cart_stall' = FALSE
              /\ UNCHANGED <<cart_valid, cart_addr, cart_own>>
           \/ /\ cart_state = "DONE" /\ cart_own' = (bus # "off")
              /\ cart_state' = IF bus # "off" THEN "DONE" ELSE "IDLE"
              /\ UNCHANGED <<cart_valid, cart_addr, cart_stall, cart_dout>>
<1> DEFINE b == BridgePorts
<1>1. /\ b.reset = reset /\ b.window_hit = (bus # "off")
      /\ b.addr = bus_addr /\ b.cart_data = cpu_data
  BY DEF BridgePorts
<1> HIDE DEF b
<1>2. Unclaimed(b) \/ Claim(b) \/ Await(b) \/ Capture(b) \/ Done(b)
  BY <1>1 DEF BridgeClock, b
<1>3. CASE Unclaimed(b)
  BY <1>1, <1>3 DEF Unclaimed, requestVars
<1>4. CASE Claim(b)
  BY <1>1, <1>4 DEF Claim
<1>5. CASE Await(b)
  BY <1>5 DEF Await, b
<1>6. CASE Capture(b)
  BY <1>1, <1>6 DEF Capture, requestVars
<1>7. CASE Done(b)
  BY <1>1, <1>7 DEF Done, requestVars
<1> QED BY <1>2, <1>3, <1>4, <1>5, <1>6, <1>7

LEMMA AwaitRuns ==
    ASSUME TypeOK, bus # "off", cart_state = "WAIT", Await(BridgePorts)
    PROVE  /\ UNCHANGED <<cart_addr, cart_own>>
           /\ \/ /\ cpu_ready /\ cart_state' = "CAPTURE" /\ cart_valid' = FALSE
                 /\ cart_stall' = (cart_stall /\ ~cpu_granted)
              \/ /\ ~cpu_ready /\ GivesUp(BridgePorts) /\ cart_state' = "DONE"
                 /\ cart_valid' = FALSE /\ cart_dout' = OpenBus /\ cart_stall' = FALSE
              \/ /\ ~cpu_ready /\ ~GivesUp(BridgePorts) /\ cart_state' = "WAIT"
                 /\ cart_valid' = TRUE /\ cart_stall' = (cart_stall /\ ~cpu_granted)
<1>1. /\ BridgePorts.cart_ready = cpu_ready /\ BridgePorts.window_hit = TRUE
      /\ BridgePorts.cart_granted = cpu_granted /\ BridgePorts.open_bus = OpenBus
  BY DEF BridgePorts
<1>2. /\ cpu_ready \in BOOLEAN /\ cpu_granted \in BOOLEAN /\ cart_stall \in BOOLEAN
  BY DEF TypeOK, MemoryTypeOK, BridgeTypeOK
<1>3. UNCHANGED <<cart_addr, cart_own>>
  BY DEF Await
<1>4. CASE cpu_ready
  BY <1>1, <1>2, <1>3, <1>4 DEF Await
<1>5. CASE ~cpu_ready /\ GivesUp(BridgePorts)
  BY <1>1, <1>2, <1>3, <1>5 DEF Await
<1>6. CASE ~cpu_ready /\ ~GivesUp(BridgePorts)
  BY <1>1, <1>2, <1>3, <1>6 DEF Await
<1> QED BY <1>2, <1>3, <1>4, <1>5, <1>6

(* The cycle on an edge outside of a reset: what stays of it, and what it may
   see. *)
LEMMA CycleMoves ==
    ASSUME Timing, ReadInv, ~reset, NEW rb \in BOOLEAN, NEW wr \in BOOLEAN, Edge(rb, wr)
    PROVE  /\ bus = "off" => bus' = "off" \/ (bus' = "read" /\ bus_clock' = 0)
           /\ bus = "read" => /\ bus_addr' = bus_addr /\ bus_clock' = 1
                              /\ bus' = "read" \/ (bus' = "latch" /\ bus_clock = 1 /\ ~cart_stall)
           /\ bus = "latch" /\ cart_state \in {"WAIT", "CAPTURE"} =>
                 bus' = "latch" /\ bus_addr' = bus_addr /\ bus_clock' = bus_clock + 1
           /\ bus = "latch" => bus' = "off" \/ (bus' = "latch" /\ bus_addr' = bus_addr)
           /\ bus_addr' = bus_addr => Shown' = Shown
           /\ gave_up' = (GivesUp(BridgePorts) \/ (gave_up /\ bus # "off"))
           /\ GivesUp(BridgePorts) => cart_state = "WAIT" /\ ~cpu_ready
           /\ OwnRead' => /\ cart_state = "WAIT"
                          /\ request'.addr = cart_addr /\ image_valid'
<1> USE DEF ReadInv
<1>1. BusClock
  BY DEF Edge
<1>2. bus = "latch" /\ cart_state \in {"WAIT", "CAPTURE"} => ~Latching
  <2>1. bus_clock \in Nat /\ ReadSlot \in Nat /\ HalfCycle \in Nat
    BY LoaderAssumption DEF TypeOK, GlueTypeOK
  <2> QED BY <2>1 DEF TimeInv, Timing, Latching
<1>3. bus_addr' = bus_addr => Shown' = Shown
  <2>1. image_valid' = image_valid /\ (image_valid => store' = store)
    BY RightAnswer
  <2>2. CASE image_valid
    BY <2>1, <2>2 DEF Shown
  <2>3. CASE ~image_valid
    BY <2>1, <2>3 DEF Shown
  <2> QED BY <2>2, <2>3
<1>4. GivesUp(BridgePorts) => cart_state = "WAIT" /\ ~cpu_ready
  BY DEF GivesUp, BridgePorts
<1>5. ASSUME OwnRead' PROVE cart_state = "WAIT" /\ request'.addr = cart_addr /\ image_valid'
  <2>1. PICK m : m = MemoryPorts(rb) /\ MemoryClock(m)
    BY DEF Edge
  <2>2. /\ cart_valid
        /\ (OwnRead /\ request' = request) \/ (image_valid /\ request'.addr = cart_addr)
    BY <1>5, <2>1, ReadHeldStep
  <2>3. cart_state = "WAIT" /\ cart_addr = bus_addr
    <3>1. cart_state = "WAIT"
      BY <2>2 DEF CycleInv
    <3> QED BY <3>1 DEF CycleInv, TypeOK, GlueTypeOK
  <2>4. OwnRead => request.addr = cart_addr /\ image_valid
    BY <2>3 DEF CycleInv
  <2> QED BY <2>2, <2>3, <2>4, RightAnswer
<1>6. gave_up' = (GivesUp(BridgePorts) \/ (gave_up /\ bus # "off"))
  BY DEF Edge
<1> QED BY <1>1, <1>2, <1>3, <1>4, <1>5, <1>6, BusMoves

LEMMA CycleStep ==
    ASSUME Timing, ReadInv, NEW rb \in BOOLEAN, NEW wr \in BOOLEAN, Edge(rb, wr)
    PROVE  CycleInv'
<1>1. CASE reset
  BY <1>1, CycleDropped DEF CycleInv
<1>2. CASE ~reset
  <2> USE DEF ReadInv
  <2>1. BridgeClock(BridgePorts)
    BY DEF Edge
  <2>2. bus \in {"off", "read", "latch"}
    BY DEF TypeOK, GlueTypeOK
  <2>3. cart_state # "WAIT" => cart_valid = FALSE
    BY DEF CycleInv, TypeOK, BridgeTypeOK
  <2>4. CASE cart_state = "IDLE" /\ bus = "off"
    <3>1. cart_state' = "IDLE" /\ cart_valid' = FALSE
      BY <1>2, <2>1, <2>3, <2>4, BridgeRuns
    <3>2. gave_up' = FALSE
      BY <1>2, <2>4, CycleMoves
    <3>3. bus' = "off" \/ (bus' = "read" /\ bus_clock' = 0)
      BY <1>2, <2>4, CycleMoves
    <3> QED BY <3>1, <3>2, <3>3 DEF CycleInv
  <2>5. CASE cart_state = "IDLE" /\ bus # "off"
    <3>1. /\ cart_state' = "WAIT" /\ cart_valid' = TRUE /\ cart_addr' = bus_addr
          /\ cart_own' = TRUE /\ cart_stall' = TRUE
      BY <1>2, <2>1, <2>5, BridgeRuns
    <3>2. bus = "read" /\ bus_clock = 0 /\ gave_up = FALSE
      BY <2>2, <2>5 DEF CycleInv, TypeOK, GlueTypeOK
    <3>3. bus' = "read" /\ bus_clock' = 1 /\ bus_addr' = bus_addr /\ gave_up' = FALSE
      <4>1. /\ bus_addr' = bus_addr /\ bus_clock' = 1
            /\ bus' = "read" \/ (bus' = "latch" /\ bus_clock = 1 /\ ~cart_stall)
        BY <1>2, <3>2, CycleMoves
      <4>2. gave_up' = (GivesUp(BridgePorts) \/ (gave_up /\ bus # "off"))
        BY DEF Edge
      <4>3. GivesUp(BridgePorts) => cart_state = "WAIT"
        BY DEF GivesUp, BridgePorts
      <4>4. gave_up = FALSE /\ ~GivesUp(BridgePorts)
        BY <2>5, <3>2, <4>3
      <4>5. gave_up' = FALSE
        BY <4>2, <4>4, Zenon
      <4>6. bus' = "read"
        BY <3>2, <4>1
      <4> QED BY <4>1, <4>5, <4>6
    <3>4. cpu_ready' = FALSE /\ ~OwnRead'
      BY <1>2, <2>5, RightAnswer, CycleMoves
    <3> QED BY <3>1, <3>3, <3>4 DEF CycleInv
  <2>6. CASE cart_state = "WAIT"
    <3>1. /\ bus # "off" /\ ~gave_up /\ (cpu_ready => cpu_data = Shown)
          /\ cart_own = TRUE /\ cart_addr = bus_addr /\ (bus = "latch" => ~cart_stall)
          /\ bus = "read" => bus_clock = 1
      BY <2>2, <2>6 DEF CycleInv, TypeOK, BridgeTypeOK
    <3>2. /\ bus' = "latch" \/ (bus' = "read" /\ bus_clock' = 1)
          /\ bus_addr' = bus_addr /\ Shown' = Shown
          /\ bus' = "latch" => ~cart_stall
      BY <1>2, <2>2, <2>6, <3>1, CycleMoves
    <3>3. Await(BridgePorts)
      BY <1>2, <2>1, <2>6, BridgeRuns
    <3>4. /\ cart_addr' = bus_addr /\ cart_own' = TRUE
          /\ \/ cpu_ready /\ cart_state' = "CAPTURE" /\ cart_valid' = FALSE
             \/ /\ ~cpu_ready /\ GivesUp(BridgePorts) /\ cart_state' = "DONE"
                /\ cart_valid' = FALSE /\ cart_dout' = OpenBus
             \/ /\ ~cpu_ready /\ ~GivesUp(BridgePorts) /\ cart_state' = "WAIT"
                /\ cart_valid' = TRUE
      BY <2>6, <3>1, <3>3, AwaitRuns
    <3>5. ~cart_stall => ~cart_stall'
      BY <2>6, <3>1, <3>3, AwaitRuns
    <3>6. gave_up' = GivesUp(BridgePorts)
      BY <1>2, <3>1, CycleMoves DEF TypeOK, GlueTypeOK, GivesUp
    <3>7. GivesUp(BridgePorts) => ~cpu_ready
      BY <1>2, CycleMoves
    <3>8. /\ cpu_ready' \/ cpu_data' # cpu_data => cpu_data' = Shown'
          /\ OwnRead' => request'.addr = bus_addr' /\ image_valid'
      BY <1>2, <2>6, <3>1, <3>2, RightAnswer, CycleMoves
    <3>9. cart_state' = "CAPTURE" => cpu_data' = Shown'
      BY <3>1, <3>2, <3>4, <3>8
    <3>10. CASE cart_state' = "WAIT"
      BY <3>2, <3>4, <3>5, <3>6, <3>8, <3>10 DEF CycleInv
    <3>11. CASE cart_state' = "CAPTURE"
      BY <3>2, <3>4, <3>5, <3>6, <3>7, <3>9, <3>11 DEF CycleInv
    <3>12. CASE cart_state' = "DONE"
      BY <3>2, <3>4, <3>5, <3>6, <3>12 DEF CycleInv
    <3> QED BY <3>4, <3>10, <3>11, <3>12
  <2>7. CASE cart_state = "CAPTURE"
    <3>1. /\ cart_state' = "DONE" /\ cart_dout' = cpu_data /\ cart_stall' = FALSE
          /\ cart_valid' = FALSE /\ cart_addr' = cart_addr /\ cart_own' = cart_own
      BY <1>2, <2>1, <2>3, <2>7, BridgeRuns
    <3>2. /\ bus # "off" /\ gave_up = FALSE /\ cpu_data = Shown
          /\ cart_own /\ cart_addr = bus_addr
          /\ bus = "read" => bus_clock = 1
      BY <2>2, <2>7 DEF CycleInv, TypeOK, GlueTypeOK
    <3>3. /\ bus' = "latch" \/ (bus' = "read" /\ bus_clock' = 1)
          /\ bus_addr' = bus_addr /\ Shown' = Shown /\ gave_up' = FALSE
      BY <1>2, <2>2, <2>7, <3>2, CycleMoves
    <3>4. cart_dout' = IF image_valid' /\ ~gave_up' THEN store'[bus_addr'] ELSE OpenBus
      BY <3>1, <3>2, <3>3 DEF Shown
    <3> QED BY <3>1, <3>2, <3>3, <3>4 DEF CycleInv
  <2>8. CASE cart_state = "DONE" /\ bus = "off"
    <3>1. cart_state' = "IDLE" /\ cart_valid' = FALSE
      BY <1>2, <2>1, <2>3, <2>8, BridgeRuns
    <3>2. gave_up' = FALSE /\ (bus' = "off" \/ (bus' = "read" /\ bus_clock' = 0))
      BY <1>2, <2>8, CycleMoves
    <3> QED BY <3>1, <3>2 DEF CycleInv
  <2>9. CASE cart_state = "DONE" /\ bus # "off"
    <3>1. /\ cart_state' = "DONE" /\ cart_own' = TRUE /\ cart_valid' = FALSE
          /\ cart_addr' = cart_addr /\ cart_stall' = cart_stall /\ cart_dout' = cart_dout
      BY <1>2, <2>1, <2>3, <2>9, BridgeRuns
    <3>2. /\ cart_addr = bus_addr /\ (bus = "latch" => ~cart_stall)
          /\ bus = "read" => bus_clock = 1
          /\ cart_dout = IF image_valid /\ ~gave_up THEN store[bus_addr] ELSE OpenBus
      BY <2>2, <2>9 DEF CycleInv
    <3>3. /\ bus' = "off" \/ bus' = "latch" \/ (bus' = "read" /\ bus_clock' = 1)
          /\ bus' # "off" => bus_addr' = bus_addr
          /\ bus' = "latch" => ~cart_stall
      BY <1>2, <2>2, <2>9, <3>2, CycleMoves
    <3>4. gave_up' = gave_up
      BY <1>2, <2>9, CycleMoves DEF TypeOK, GlueTypeOK, GivesUp
    <3>5. image_valid' = image_valid /\ (image_valid => store' = store)
      BY <1>2, RightAnswer
    <3>6. bus' # "off" => cart_dout' = IF image_valid' /\ ~gave_up' THEN store'[bus_addr'] ELSE OpenBus
      BY <3>1, <3>2, <3>3, <3>4, <3>5
    <3> QED BY <3>1, <3>2, <3>3, <3>6 DEF CycleInv
  <2> QED BY <2>4, <2>5, <2>6, <2>7, <2>8, <2>9 DEF TypeOK, BridgeTypeOK
<1> QED BY <1>1, <1>2

(* The slot of a read, clock by clock. *)
LEMMA SlotMoves ==
    ASSUME TypeOK, TimeInv, Timing, NEW rb \in BOOLEAN, NEW wr \in BOOLEAN, Edge(rb, wr)
    PROVE  /\ chan' # "run" => slot_clock' = 0
           /\ chan' = "run" /\ ~slot'.write => slot_clock' \in 1..(ReadSlot - 1)
           /\ chan = "run" /\ ~slot.write =>
                 \/ chan' = "run" /\ slot_clock' = slot_clock + 1
                 \/ chan' = "ack" /\ slot_clock = ReadSlot - 1
<1>1. ChannelClock /\ SlotTiming
  BY DEF Edge
<1>2. slot_clock \in Nat /\ ReadSlot \in Nat
  BY LoaderAssumption DEF TypeOK, GlueTypeOK
<1>3. chan = "run" => chan' \in {"run", "ack"} /\ slot' = slot
  BY <1>1 DEF ChannelClock, Admit, Wait, Run, CompleteWrite, CompleteRead, Release, channelVars
<1>4. chan # "run" /\ chan' = "run" => slot' = slot
  BY <1>1 DEF ChannelClock, Admit, Wait, Run, CompleteWrite, CompleteRead, Release, channelVars
<1>5. chan' # "run" => slot_clock' = 0
  BY <1>1 DEF SlotTiming
<1>6. CASE chan # "run"
  BY <1>1, <1>2, <1>4, <1>5, <1>6 DEF SlotTiming, TimeInv, Timing
<1>7. CASE chan = "run"
  BY <1>1, <1>2, <1>3, <1>5, <1>7 DEF SlotTiming, TimeInv
<1> QED BY <1>6, <1>7

(* Without a reset of the machine nothing interrupts a read. *)
LEMMA Undisturbed ==
    ASSUME ReadInv, ~reset, NEW rb \in BOOLEAN, NEW wr \in BOOLEAN, Edge(rb, wr), ~reset'
    PROVE  /\ ~ControlEvent(MemoryPorts(rb))
           /\ cart_state = "WAIT" /\ OwnRead => IF chan = "ack" THEN cpu_ready' ELSE OwnRead'
<1> USE DEF ReadInv
<1> DEFINE m == MemoryPorts(rb)
<1>1. load_pulse = "none"
  BY DEF ResetInv
<1>2. rb = FALSE
  BY DEF Edge, ResetGlue
<1>3. MemoryClock(m)
  BY DEF Edge
<1> HIDE DEF m
<1>4. m = MemoryPorts(rb)
  BY DEF m
<1>5. ~ControlEvent(m)
  BY <1>1, <1>2, <1>4, PortsAre DEF ControlEvent, DetachEvent, AbortEvent, ResetEvent, BeginEvent
<1>6. ASSUME cart_state = "WAIT", OwnRead PROVE IF chan = "ack" THEN cpu_ready' ELSE OwnRead'
  <2>1. cart_valid
    BY <1>6 DEF CycleInv
  <2> QED BY <1>3, <1>4, <1>5, <1>6, <2>1, ReadGoesOn
<1> QED BY <1>4, <1>5, <1>6

LEMMA TimeStep ==
    ASSUME Timing, ReadInv, NEW rb \in BOOLEAN, NEW wr \in BOOLEAN, Edge(rb, wr)
    PROVE  TimeInv'
<1> USE DEF ReadInv
<1>1. /\ chan' # "run" => slot_clock' = 0
      /\ chan' = "run" /\ ~slot'.write => slot_clock' \in 1..(ReadSlot - 1)
      /\ chan = "run" /\ ~slot.write =>
            \/ chan' = "run" /\ slot_clock' = slot_clock + 1
            \/ chan' = "ack" /\ slot_clock = ReadSlot - 1
  BY SlotMoves
<1>2. CASE reset
  BY <1>1, <1>2, CycleDropped DEF TimeInv
<1>3. CASE ~reset
  <2>1. bus_clock \in Nat /\ slot_clock \in Nat /\ ReadSlot \in Nat
    BY LoaderAssumption DEF TypeOK, GlueTypeOK
  <2>2. bus' = "latch" => /\ bus' \in {"read", "latch"} /\ bus # "off" /\ ~cart_stall
                          /\ \/ bus = "read" /\ bus_clock = 1 /\ bus_clock' = 1
                             \/ bus = "latch" /\ bus_clock' = bus_clock + 1
    <3>1. BusClock
      BY DEF Edge
    <3> QED BY <1>3, <3>1, BusMoves DEF CycleInv, TypeOK, GlueTypeOK
  <2>3. bus' = "latch" => bus_clock' >= 1
    BY <2>1, <2>2
  <2>4. cart_state' \in {"WAIT", "CAPTURE"} /\ bus' = "latch" => cart_state = "WAIT"
    <3>1. BridgeClock(BridgePorts)
      BY DEF Edge
    <3>2. cart_state = "IDLE" => bus' # "latch"
      BY <2>2 DEF CycleInv
    <3>3. cart_state \in {"CAPTURE", "DONE"} => cart_state' \in {"IDLE", "DONE"}
      BY <1>3, <3>1, BridgeRuns
    <3> QED BY <3>2, <3>3 DEF TypeOK, BridgeTypeOK
  <2>5. OwnRead /\ chan = "run" => slot.write = FALSE
    <3>1. ASSUME OwnRead, chan = "run" PROVE slot = request /\ ~request.write /\ slot \in Request
      BY <3>1 DEF OwnRead, ServiceInv, HeldUntilAck, TypeOK, ChannelTypeOK
    <3> QED BY <3>1 DEF Request
  <2>6. bus' = "latch" /\ cart_state' \in {"WAIT", "CAPTURE"} => bus_clock' <= ReadSlot
    <3>1. SUFFICES ASSUME bus' = "latch", cart_state = "WAIT" PROVE bus_clock' <= ReadSlot
      BY <2>4
    <3>2. CASE bus = "read" /\ bus_clock' = 1
      BY <2>1, <3>2 DEF Timing
    <3>3. CASE bus = "latch" /\ bus_clock' = bus_clock + 1
      <4>1. \/ OwnRead /\ chan = "run" /\ slot_clock >= bus_clock + 2
            \/ bus_clock <= ReadSlot - 2
            \/ bus_clock <= ReadSlot - 1
        BY <1>3, <2>2, <3>1, <3>3 DEF TimeInv
      <4>2. OwnRead /\ chan = "run" => slot_clock <= ReadSlot - 1
        BY <2>1, <2>5 DEF TimeInv
      <4> QED BY <2>1, <3>3, <4>1, <4>2
    <3> QED BY <2>2, <3>1, <3>2, <3>3
  <2>7. ASSUME cart_state' = "WAIT", ~cart_stall', ~reset'
        PROVE  \/ /\ OwnRead' /\ chan' = "run" /\ slot_clock' >= 2
                  /\ bus' = "latch" => slot_clock' >= bus_clock' + 2
               \/ /\ OwnRead' /\ chan' = "ack"
                  /\ bus' = "latch" => bus_clock' <= ReadSlot - 2
               \/ /\ cpu_ready'
                  /\ bus' = "latch" => bus_clock' <= ReadSlot - 1
    <3>1. cart_state = "WAIT" /\ ~cpu_ready /\ (cart_stall => cpu_granted)
      <4>1. BridgeClock(BridgePorts)
        BY DEF Edge
      <4>2. cart_state = "WAIT" /\ Await(BridgePorts)
        BY <1>3, <2>7, <4>1, BridgeRuns
      <4>3. bus # "off"
        BY <4>2 DEF CycleInv
      <4> QED BY <2>7, <4>2, <4>3, AwaitRuns
    <3>2. OwnRead /\ chan \in {"run", "ack"}
      <4>1. CASE cart_stall
        BY <3>1, <4>1 DEF ServiceInv, OwnRead
      <4>2. CASE ~cart_stall
        BY <1>3, <3>1, <4>2 DEF TimeInv
      <4> QED BY <4>1, <4>2
    <3>3. IF chan = "ack" THEN cpu_ready' ELSE OwnRead'
      BY <1>3, <2>7, <3>1, <3>2, Undisturbed
    <3>4. CASE chan = "ack"
      <4>1. bus' = "latch" => bus_clock' <= ReadSlot - 1
        <5>1. ASSUME bus' = "latch" PROVE (bus = "latch" => bus_clock <= ReadSlot - 2)
          BY <1>3, <2>2, <3>1, <3>4, <5>1 DEF TimeInv
        <5> QED BY <2>1, <2>2, <5>1 DEF Timing
      <4> QED BY <3>3, <3>4, <4>1
    <3>5. CASE chan = "run"
      <4>1. /\ slot_clock >= 1 /\ slot_clock <= ReadSlot - 1
            /\ \/ chan' = "run" /\ slot_clock' = slot_clock + 1
               \/ chan' = "ack" /\ slot_clock = ReadSlot - 1
        <5>1. slot.write = FALSE
          BY <2>5, <3>2, <3>5
        <5>2. slot_clock \in 1..(ReadSlot - 1)
          BY <3>5, <5>1 DEF TimeInv
        <5> QED BY <1>1, <2>1, <3>5, <5>1, <5>2
      <4>2. bus' = "latch" => slot_clock >= 2 /\ (bus = "latch" => slot_clock >= bus_clock + 2)
        BY <1>3, <2>2, <3>1, <3>5 DEF TimeInv
      <4>3. CASE chan' = "run" /\ slot_clock' = slot_clock + 1
        <5>1. slot_clock' >= 2 /\ (bus' = "latch" => slot_clock' >= bus_clock' + 2)
          BY <2>1, <2>2, <4>1, <4>2, <4>3
        <5>2. OwnRead'
          BY <3>3, <3>5
        <5> QED BY <4>3, <5>1, <5>2
      <4>4. CASE chan' = "ack" /\ slot_clock = ReadSlot - 1
        <5>1. bus' = "latch" => bus_clock' <= ReadSlot - 2
          BY <2>1, <2>2, <4>2, <4>4
        <5>2. OwnRead'
          BY <3>3, <3>5
        <5> QED BY <4>4, <5>1, <5>2
      <4> QED BY <4>1, <4>3, <4>4
    <3> QED BY <3>2, <3>4, <3>5
  <2> QED BY <1>1, <2>3, <2>6, <2>7 DEF TimeInv
<1> QED BY <1>2, <1>3

LEMMA ReadInvInit == Init => ReadInv
<1> SUFFICES ASSUME Init PROVE ReadInv
  OBVIOUS
<1> USE DEF Init
<1>1. TypeOK
  BY TypeInit
<1>2. ResetInv
  BY DEF ResetInv, ParserInit, MemoryQuiet
<1>3. ServiceInv
  BY DEF ServiceInv, HeldUntilAck, MemoryQuiet
<1>4. CycleInv
  BY DEF CycleInv, BridgeInit
<1>5. TimeInv
  BY DEF TimeInv, BridgeInit
<1> QED BY <1>1, <1>2, <1>3, <1>4, <1>5 DEF ReadInv

LEMMA ReadInvStep ==
    ASSUME Timing, ReadInv, [Next]_vars
    PROVE  ReadInv'
<1>1. CASE UNCHANGED vars
  BY <1>1, TypeStep DEF ReadInv, vars, memoryVars, sessionVars, channelVars, parserVars,
     bridgeVars, requestVars, hpsVars, glueVars, busVars, ResetInv, ServiceInv, HeldUntilAck,
     CycleInv, Shown, OwnRead, TimeInv
<1>2. CASE Next
  <2>1. PICK rb \in BOOLEAN, wr \in BOOLEAN : Edge(rb, wr)
    BY <1>2, NextIsEdge
  <2>2. TypeOK' /\ ResetInv' /\ ServiceInv'
    BY <2>1, TypeStep, ResetStep, ServiceStep DEF ReadInv
  <2>3. CycleInv' /\ TimeInv'
    BY <2>1, CycleStep, TimeStep
  <2> QED BY <2>2, <2>3 DEF ReadInv
<1> QED BY <1>1, <1>2

(* What the machine may see stands still while it runs: an image appears, goes
   or is overwritten in reset only, whatever the parser, the resets and SDRAM
   do. *)
THEOREM RunsOnOneImage ==
    Spec => [][~reset => image_valid' = image_valid /\ (image_valid => store' = store)]_vars
<1> DEFINE I == TypeOK /\ ResetInv /\ ServiceInv
           Stays == ~reset => image_valid' = image_valid /\ (image_valid => store' = store)
<1>1. Init => I
  BY ReadInvInit DEF ReadInv
<1>2. I /\ [Next]_vars => I' /\ [Stays]_vars
  <2> SUFFICES ASSUME I, [Next]_vars PROVE I' /\ [Stays]_vars
    OBVIOUS
  <2>1. CASE UNCHANGED vars
    <3>1. TypeOK'
      BY <2>1, TypeStep
    <3>2. ResetInv'
      BY <2>1 DEF vars, memoryVars, sessionVars, parserVars, glueVars, hpsVars, ResetInv
    <3>3. ServiceInv'
      BY <2>1 DEF vars, memoryVars, sessionVars, channelVars, ServiceInv, HeldUntilAck
    <3>4. [Stays]_vars
      BY <2>1
    <3> QED BY <3>1, <3>2, <3>3, <3>4
  <2>2. CASE Next
    <3>1. PICK rb \in BOOLEAN, wr \in BOOLEAN : Edge(rb, wr)
      BY <2>2, NextIsEdge
    <3>2. ChannelClock
      BY <3>1 DEF Edge
    <3> QED BY <3>1, <3>2, TypeStep, ResetStep, ServiceStep, ImageStays, StoreStays
  <2> QED BY <2>1, <2>2
<1>3. Stays <=> (~reset => image_valid' = image_valid /\ (image_valid => store' = store))
  OBVIOUS
<1> HIDE DEF I, Stays
<1> QED BY <1>1, <1>2, <1>3, PTL DEF Spec

(* The CPU is let go when its read is admitted, before the byte is there, and
   still latches the byte of the image at its own address: for every region,
   pace of SDRAM within the slot, watchdog and download. *)
THEOREM ReadsAreTheImage ==
    ASSUME Timing
    PROVE  Spec => []CpuReadsTheImage
<1>1. ReadInv => CpuReadsTheImage
  <2> SUFFICES ASSUME ReadInv, Latching PROVE
            /\ cart_own
            /\ cart_dout = IF image_valid /\ ~gave_up THEN store[bus_addr] ELSE OpenBus
    BY DEF CpuReadsTheImage
  <2>1. bus_clock \in Nat /\ ReadSlot \in Nat /\ HalfCycle \in Nat
    BY LoaderAssumption DEF ReadInv, TypeOK, GlueTypeOK
  <2>2. cart_state = "DONE"
    BY <2>1 DEF ReadInv, TypeOK, BridgeTypeOK, CycleInv, TimeInv, Timing, Latching
  <2> QED BY <2>2 DEF ReadInv, CycleInv, Latching
<1>2. Init => ReadInv
  BY ReadInvInit
<1>3. ReadInv /\ [Next]_vars => ReadInv'
  BY ReadInvStep
<1> QED BY <1>1, <1>2, <1>3, PTL DEF Spec

-----------------------------------------------------------------------------
(* A download.  The parser and the memory service keep step: the pulses open
   and close the session of the service, one each, and only a session that is
   to be published outlives the download. *)
SessionInv ==
    /\ load_error = FALSE
    /\ load_pulse = "begin" =>
          /\ state = "RIFF" /\ field = <<>> /\ file_pos = 0 /\ has_block = FALSE
          /\ load_valid = FALSE /\ load_active = FALSE /\ "load_begin" \notin consumed
    /\ load_pulse = "abort" => state \in {"IDLE", "ERROR"} /\ "load_abort" \notin consumed
    /\ load_pulse = "commit" => state = "IDLE" /\ "load_commit" \notin consumed
    /\ state \in Parsing =>
          load_pulse = "begin" \/ (load_pulse = "none" /\ load_active /\ ~commit_pending)
    /\ state = "ERROR" => load_pulse = "abort" \/ (load_pulse = "none" /\ ~load_active)
    /\ state = "IDLE" /\ load_pulse = "none" /\ load_active => commit_pending
    /\ load_valid => state \in Parsing \cup {"ERROR"}
    /\ state \in Parsing \ {"RIFF"} => hps_pos > 0
    /\ load_pulse = "commit" \/ commit_pending =>
          state = "IDLE" /\ load_active /\ ~cpr_download /\ hps_pos > 0
    /\ cpr_download_d /\ ~cpr_download => hps_pos = Len(file)

(* What interrupts the memory service on an edge. *)
LEMMA ControlCases ==
    ASSUME TypeOK, SessionInv, NEW rb \in BOOLEAN, NEW m, m = MemoryPorts(rb), MemoryClock(m)
    PROVE  /\ load_pulse = "abort" => LoadAbort(m)
           /\ load_pulse = "begin" /\ ~rb => LoadBegin(m)
           /\ load_pulse # "abort" /\ rb => ColdReset(m)
           /\ load_pulse \in {"none", "commit"} /\ ~rb => ~ControlEvent(m)
<1>1. /\ ControlEvent(m) <=> LoadAbort(m) \/ ColdReset(m) \/ LoadBegin(m)
      /\ DetachEvent(m) = FALSE
  BY ControlEdge, PortsAre DEF DetachEvent
<1>2. LoadAbort(m) <=> AbortEvent(m)
  BY <1>1 DEF LoadAbort, ColdReset, LoadBegin, ControlEvent, ResetEvent, BeginEvent, AbortEvent
<1>3. AbortEvent(m) <=> load_pulse = "abort"
  BY PortsAre DEF AbortEvent, SessionInv
<1>4. load_pulse = "begin" /\ ~rb => LoadBegin(m)
  <2>1. ASSUME load_pulse = "begin", ~rb PROVE BeginEvent(m) /\ ~ResetEvent(m) /\ ~AbortEvent(m)
    <3>1. m.controls \cap {"detach", "load_abort", "cold_reset"} = {}
      BY <2>1, PortsAre
    <3> QED BY <2>1, <3>1, PortsAre DEF BeginEvent, ResetEvent, AbortEvent, SessionInv
  <2> QED BY <1>1, <2>1 DEF ControlEvent, LoadAbort, ColdReset
<1>5. load_pulse # "abort" /\ rb => ColdReset(m)
  <2>1. ASSUME load_pulse # "abort", rb PROVE ResetEvent(m) /\ ~BeginEvent(m)
    BY <1>1, <1>3, <2>1, PortsAre DEF ResetEvent, BeginEvent
  <2> QED BY <1>1, <1>3, <2>1 DEF ControlEvent, LoadAbort, LoadBegin
<1>6. load_pulse \in {"none", "commit"} /\ ~rb => ~ControlEvent(m)
  BY <1>1, <1>3, PortsAre DEF ControlEvent, ResetEvent, BeginEvent
<1> QED BY <1>2, <1>3, <1>4, <1>5, <1>6

(* The pulses the service has seen. *)
LEMMA PulsesSeen ==
    ASSUME TypeOK, NEW rb \in BOOLEAN, NEW m, m = MemoryPorts(rb), MemoryClock(m)
    PROVE  /\ load_pulse # "begin" => "load_begin" \notin consumed'
           /\ load_pulse # "abort" => "load_abort" \notin consumed'
           /\ load_pulse # "commit" => "load_commit" \notin consumed'
<1>1. \E q : consumed' = (m.controls \ {"cold_reset"}) \cup q
                /\ q \subseteq {"load_valid", "cpu_valid"}
  <2>1. Held(m) \subseteq {"load_valid", "cpu_valid"} /\ StillHeld(m) \subseteq Held(m)
    BY DEF Held, StillHeld
  <2>2. \/ Consume(m, Held(m)) \/ Consume(m, Held(m) \ {"cpu_valid"})
        \/ Consume(m, StillHeld(m)) \/ Consume(m, StillHeld(m) \cup {"load_valid"})
        \/ Consume(m, StillHeld(m) \cup {"cpu_valid"})
    BY DEF MemoryClock, Detach, LoadAbort, ColdReset, LoadBegin, AckDiscarded, AckClear, AckLoad,
       AckCpu, HoldRequest, IssueClear, RejectLoad, IssueLoad, Publish, IssueRead, ReadOpenBus, Idle
  <2>3. PICK q : Consume(m, q) /\ q \subseteq {"load_valid", "cpu_valid"}
    BY <2>1, <2>2
  <2> QED BY <2>3 DEF Consume
<1> QED BY <1>1, PortsAre

(* An edge without an interruption. *)
LEMMA SessionGoesOn ==
    ASSUME TypeOK, SessionInv, NEW rb \in BOOLEAN, NEW m, m = MemoryPorts(rb), MemoryClock(m),
           ~ControlEvent(m)
    PROVE  /\ \/ load_active' = load_active /\ image_valid' = image_valid
                 /\ commit_pending' = (commit_pending \/ (load_pulse = "commit" /\ load_active))
              \/ Publish(m) /\ load_active' = FALSE /\ commit_pending' = FALSE /\ commit_pending
                 /\ load_active
           /\ load_error' = FALSE
<1>1. CommitEvent(m) <=> load_pulse = "commit"
  <2>1. rb = FALSE
    BY PortsAre DEF ControlEvent, ResetEvent, DetachEvent
  <2>2. load_pulse = "commit" => m.controls \subseteq {"load_commit"}
    BY <2>1, PortsAre DEF Controls
  <2> QED BY <2>2, PortsAre DEF CommitEvent, SessionInv
<1>2. ~RejectLoad(m)
  BY PortsAre, WordType DEF RejectLoad
<1>3. Commit(m) => commit_pending' = (commit_pending \/ (load_pulse = "commit" /\ load_active))
  BY <1>1 DEF Commit
<1>4. \/ AckDiscarded(m) \/ AckClear(m) \/ AckLoad(m) \/ AckCpu(m) \/ HoldRequest(m)
      \/ IssueClear(m) \/ IssueLoad(m) \/ Publish(m) \/ IssueRead(m)
      \/ ReadOpenBus(m) \/ Idle(m)
  BY <1>2, ControlEdge DEF MemoryClock, ControlEvent, Detach
<1>5. CASE Publish(m)
  BY <1>5 DEF Publish, SessionInv
<1>6. CASE ~Publish(m)
  <2>1. /\ Commit(m) /\ load_active' = load_active /\ image_valid' = image_valid
        /\ load_error' = load_error
    BY <1>4, <1>6 DEF AckDiscarded, AckClear, AckLoad, AckCpu, HoldRequest, IssueClear,
       IssueLoad, IssueRead, ReadOpenBus, Idle, sessionVars
  <2> QED BY <1>3, <2>1 DEF SessionInv
<1> QED BY <1>5, <1>6

(* The edges of the parser that take a byte. *)
TakesByte(p) ==
    \/ AddressGap(p) \/ Signature(p) \/ Collect(p) \/ RiffLength(p) \/ ChunkName(p)
    \/ ChunkLength(p) \/ ChunkData(p) \/ ChunkPad(p) \/ Excess(p)

(* One clock of the parser with the HPS on the other side of it: a byte is only
   sent to a parser that takes it, or has given up. *)
LEMMA ParserMoves ==
    ASSUME TypeOK, ResetInv, SessionInv, NEW rb \in BOOLEAN, NEW wr \in BOOLEAN, Edge(rb, wr),
           NEW p, p = ParserPorts(rb, wr)
    PROVE  \/ rb /\ ResetParser(p)
           \/ ~rb /\ cpr_download /\ ~cpr_download_d /\ ~wr /\ StartDownload(p)
           \/ ~rb /\ ~cpr_download /\ cpr_download_d /\ ~wr /\ EndDownload(p)
           \/ /\ ~rb /\ cpr_download = cpr_download_d /\ (wr => state = "ERROR")
              /\ NoByte(p)
           \/ /\ ~rb /\ wr /\ cpr_download /\ cpr_download_d
              /\ state \in Parsing /\ ~load_valid /\ Taken(p) /\ TakesByte(p)
<1>1. /\ p.reset = rb /\ p.cpr_download = cpr_download /\ p.ioctl_wr = wr
      /\ p.load_error = load_error
      /\ cpr_download \in BOOLEAN /\ cpr_download_d \in BOOLEAN /\ load_valid \in BOOLEAN
  BY DEF ParserPorts, TypeOK, ParserTypeOK, GlueTypeOK
<1>2. wr => cpr_download /\ cpr_download_d /\ ~load_valid
  BY <1>1 DEF Edge, SendByte, IoctlWait
<1>3. /\ \/ ResetParser(p) \/ StartDownload(p) \/ EndDownload(p) \/ MemoryFault(p)
         \/ NoByte(p) \/ TakesByte(p)
  BY DEF Edge, ParserClock, TakesByte
<1>4. TakesByte(p) => Taken(p)
  BY DEF TakesByte, AddressGap, Signature, Collect, RiffLength, ChunkName, ChunkLength,
     ChunkData, ChunkPad, Excess, LastOf, NextByte
<1>5. ~MemoryFault(p)
  BY <1>1 DEF MemoryFault, Faulted, SessionInv
<1>6. CASE ResetParser(p)
  BY <1>1, <1>6 DEF ResetParser
<1>7. CASE StartDownload(p)
  BY <1>1, <1>2, <1>7 DEF StartDownload
<1>8. CASE EndDownload(p)
  BY <1>1, <1>2, <1>8 DEF EndDownload
<1>9. CASE NoByte(p)
  BY <1>1, <1>2, <1>9 DEF NoByte, Steady
<1>10. CASE TakesByte(p)
  <2>1. ~rb /\ wr /\ cpr_download /\ cpr_download_d /\ ~load_valid
    BY <1>1, <1>2, <1>4, <1>10 DEF Taken, Steady
  <2>2. state # "IDLE" /\ state # "ERROR"
    BY <1>4, <1>10, <2>1 DEF ResetInv, Taken
  <2> QED BY <1>4, <1>10, <2>1, <2>2 DEF TypeOK, ParserTypeOK
<1> QED BY <1>3, <1>5, <1>6, <1>7, <1>8, <1>9, <1>10

(* A byte leaves the parser in the stream, or it gives up with an abort. *)
LEMMA ByteTaken ==
    ASSUME TypeOK, NEW p, Taken(p), TakesByte(p), state \in Parsing
    PROVE  \/ /\ state' \in Parsing /\ load_pulse' = "none" /\ p.ioctl_addr = file_pos
              /\ file_pos' = file_pos + 1
           \/ state' = "ERROR" /\ load_pulse' = "abort"
<1>1. CASE AddressGap(p)
  BY <1>1 DEF AddressGap
<1>2. CASE ~AddressGap(p)
  <2>1. NextByte(p) /\ Advance(p)
    BY <1>2 DEF TakesByte, Signature, Collect, RiffLength, ChunkName, ChunkLength,
       ChunkData, ChunkPad, Excess, LastOf
  <2>2. \/ state' \in Parsing /\ load_pulse' = "none"
        \/ state' = "ERROR" /\ load_pulse' = "abort"
    BY <1>2 DEF TakesByte, Signature, Collect, RiffLength, ChunkName, ChunkLength,
       ChunkData, ChunkPad, Excess, LastOf, Goto, Fail, AfterChunk, Parsing
  <2> QED BY <2>1, <2>2 DEF NextByte, Advance, Position
<1> QED BY <1>1, <1>2

(* What an edge does to the session of the service, by the pulse it sees. *)
LEMMA SessionMoves ==
    ASSUME TypeOK, SessionInv, NEW rb \in BOOLEAN, NEW wr \in BOOLEAN, Edge(rb, wr)
    PROVE  /\ load_error' = FALSE
           /\ load_pulse = "abort" => ~load_active' /\ ~commit_pending'
           /\ load_pulse = "begin" => IF rb THEN ~load_active' /\ ~commit_pending'
                                      ELSE load_active' /\ ~commit_pending'
           /\ load_pulse \in {"none", "commit"} =>
                IF rb THEN ~load_active' /\ ~commit_pending'
                ELSE \/ /\ load_active' = load_active
                        /\ commit_pending' = (commit_pending \/ (load_pulse = "commit" /\ load_active))
                     \/ commit_pending /\ ~load_active' /\ ~commit_pending'
           /\ load_pulse # "begin" => "load_begin" \notin consumed'
           /\ load_pulse # "abort" => "load_abort" \notin consumed'
           /\ load_pulse # "commit" => "load_commit" \notin consumed'
<1>1. PICK m : m = MemoryPorts(rb) /\ MemoryClock(m)
  BY DEF Edge
<1>2. /\ load_pulse = "abort" => LoadAbort(m)
      /\ load_pulse = "begin" /\ ~rb => LoadBegin(m)
      /\ load_pulse # "abort" /\ rb => ColdReset(m)
      /\ load_pulse \in {"none", "commit"} /\ ~rb => ~ControlEvent(m)
  BY <1>1, ControlCases
<1>3. LoadAbort(m) \/ ColdReset(m) => load_active' = FALSE
  BY DEF LoadAbort, ColdReset
<1>4. LoadBegin(m) => load_active' = TRUE
  BY DEF LoadBegin
<1>5. LoadAbort(m) \/ ColdReset(m) \/ LoadBegin(m) => commit_pending' = FALSE /\ load_error' = FALSE
  BY DEF LoadAbort, ColdReset, LoadBegin, EndActivity
<1>6. ~ControlEvent(m) =>
         /\ \/ load_active' = load_active
               /\ commit_pending' = (commit_pending \/ (load_pulse = "commit" /\ load_active))
            \/ load_active' = FALSE /\ commit_pending' = FALSE /\ commit_pending
         /\ load_error' = FALSE
  BY <1>1, SessionGoesOn
<1>7. /\ load_pulse # "begin" => "load_begin" \notin consumed'
      /\ load_pulse # "abort" => "load_abort" \notin consumed'
      /\ load_pulse # "commit" => "load_commit" \notin consumed'
  BY <1>1, PulsesSeen
<1>8. load_pulse \in {"none", "begin", "commit", "abort"}
  BY DEF TypeOK, ParserTypeOK
<1> QED BY <1>2, <1>3, <1>4, <1>5, <1>6, <1>7, <1>8

LEMMA SessionInvStep ==
    ASSUME TypeOK, ResetInv, SessionInv, NEW rb \in BOOLEAN, NEW wr \in BOOLEAN, Edge(rb, wr)
    PROVE  SessionInv'
<1> DEFINE p == ParserPorts(rb, wr)
<1>0. p = ParserPorts(rb, wr) /\ p.ioctl_addr = hps_pos
  BY DEF ParserPorts
<1> HIDE DEF p
<1>1. /\ load_error' = FALSE
      /\ load_pulse = "abort" => ~load_active' /\ ~commit_pending'
      /\ load_pulse = "begin" => IF rb THEN ~load_active' /\ ~commit_pending'
                                 ELSE load_active' /\ ~commit_pending'
      /\ load_pulse \in {"none", "commit"} =>
           IF rb THEN ~load_active' /\ ~commit_pending'
           ELSE \/ /\ load_active' = load_active
                   /\ commit_pending' = (commit_pending \/ (load_pulse = "commit" /\ load_active))
                \/ commit_pending /\ ~load_active' /\ ~commit_pending'
      /\ load_pulse # "begin" => "load_begin" \notin consumed'
      /\ load_pulse # "abort" => "load_abort" \notin consumed'
      /\ load_pulse # "commit" => "load_commit" \notin consumed'
  BY SessionMoves
<1>2. /\ load_active \in BOOLEAN /\ commit_pending \in BOOLEAN
      /\ load_active' \in BOOLEAN /\ commit_pending' \in BOOLEAN
      /\ load_valid \in BOOLEAN /\ load_pulse \in {"none", "begin", "commit", "abort"}
      /\ hps_pos \in Nat /\ cpr_download \in BOOLEAN
  <2>1. MemoryTypeOK'
    BY EdgeTypes DEF TypeOK
  <2> QED BY <2>1, FileType DEF TypeOK, MemoryTypeOK, ParserTypeOK, GlueTypeOK
<1>3. /\ cpr_download' => cpr_download \/ hps_pos = 0
      /\ cpr_download /\ ~cpr_download' => hps_pos = Len(file) /\ hps_pos' = hps_pos /\ file' = file
      /\ hps_pos' = IF wr THEN hps_pos + 1 ELSE hps_pos
  BY DEF Edge, BeginFile, SendByte, EndFile, HpsIdle, hpsVars
<1>4. cpr_download_d' => cpr_download
  BY PulseStep DEF Edge
<1>5. hps_pos > 0 => hps_pos' > 0
  BY <1>2, <1>3
<1>6. CASE rb /\ ResetParser(p)
  <2>1. ~load_active' /\ ~commit_pending'
    BY <1>1, <1>2, <1>6
  <2> QED BY <1>1, <1>3, <1>4, <1>6, <2>1 DEF ResetParser, SessionInv, Parsing
<1>7. CASE ~rb /\ cpr_download /\ ~cpr_download_d /\ ~wr /\ StartDownload(p)
  <2>1. state = "IDLE"
    BY <1>7 DEF ResetInv
  <2>2. load_pulse \in {"none", "abort"} /\ ~commit_pending
    BY <1>2, <1>7, <2>1 DEF SessionInv
  <2>3. ~load_active' /\ ~commit_pending'
    BY <1>1, <1>2, <1>7, <2>1, <2>2 DEF SessionInv
  <2> QED BY <1>1, <1>3, <1>4, <1>7, <2>2, <2>3 DEF StartDownload, SessionInv, Parsing
<1>8. CASE ~rb /\ ~cpr_download /\ cpr_download_d /\ ~wr /\ EndDownload(p)
  <2>1. state # "IDLE" /\ state \in Parsing \cup {"ERROR"}
    BY <1>8 DEF ResetInv, TypeOK, ParserTypeOK
  <2>2. state' = "IDLE" /\ load_valid' = FALSE /\ load_pulse' \in {"none", "abort", "commit"}
        /\ (load_pulse' = "none" => state = "ERROR")
        /\ (load_pulse' = "commit" => state \in {"DONE", "CHUNK_ID"})
    BY <1>8 DEF EndDownload, CleanEnd
  <2>3. load_pulse # "commit" /\ commit_pending = FALSE
    BY <1>2, <2>1 DEF SessionInv
  <2>4. ASSUME load_pulse' = "commit"
        PROVE  load_active' /\ ~commit_pending' /\ hps_pos' > 0 /\ ~cpr_download'
    <3>1. /\ state \in Parsing \ {"RIFF"} /\ load_pulse = "none" /\ load_active
          /\ hps_pos > 0
      BY <2>2, <2>4 DEF Parsing, SessionInv
    <3>2. load_active' /\ ~commit_pending'
      BY <1>1, <1>2, <1>8, <2>3, <3>1
    <3>3. ~cpr_download'
      BY <1>2, <1>3, <1>8, <3>1
    <3> QED BY <1>5, <3>1, <3>2, <3>3
  <2>5. ~commit_pending'
    BY <1>1, <1>2, <1>8, <2>3
  <2>6. ASSUME load_pulse' = "none" PROVE ~load_active'
    BY <1>1, <1>2, <1>8, <2>1, <2>2, <2>6 DEF SessionInv
  <2>7. load_pulse' # "none" => load_pulse = "none" \/ load_pulse = "begin"
    BY <2>1, <2>2, <1>8 DEF SessionInv, EndDownload
  <2> QED BY <1>1, <1>3, <1>4, <2>2, <2>4, <2>5, <2>6, <2>7 DEF SessionInv, Parsing
<1>9. CASE /\ ~rb /\ cpr_download = cpr_download_d /\ (wr => state = "ERROR")
           /\ NoByte(p)
  <2>1. /\ state' = state /\ load_pulse' = "none"
        /\ load_valid' => load_valid
    BY <1>2, <1>9 DEF NoByte, Acknowledge
  <2>2. state = "IDLE" <=> ~cpr_download
    BY <1>9 DEF ResetInv
  <2>3. ASSUME state \in Parsing PROVE load_active' /\ ~commit_pending'
    BY <1>1, <1>2, <1>9, <2>3 DEF SessionInv
  <2>4. ASSUME state = "ERROR" PROVE ~load_active' /\ ~commit_pending'
    BY <1>1, <1>2, <1>9, <2>4 DEF SessionInv
  <2>5. ASSUME state = "IDLE" PROVE (load_active' => commit_pending') /\ (commit_pending' => load_active')
    BY <1>1, <1>2, <1>9, <2>5 DEF SessionInv, Parsing
  <2>6. ASSUME commit_pending' PROVE state = "IDLE" /\ ~cpr_download' /\ hps_pos' > 0
    <3>1. state \in Parsing \cup {"IDLE", "ERROR"}
      BY DEF TypeOK, ParserTypeOK
    <3>2. state = "IDLE"
      BY <2>3, <2>4, <2>6, <3>1
    <3>3. commit_pending \/ load_pulse = "commit"
      BY <1>1, <1>2, <1>9, <2>6, <3>2 DEF SessionInv
    <3>4. ~cpr_download /\ hps_pos > 0
      BY <3>3 DEF SessionInv
    <3> QED BY <1>2, <1>3, <1>5, <3>2, <3>4
  <2> QED BY <1>1, <1>3, <1>4, <1>5, <2>1, <2>3, <2>4, <2>5, <2>6 DEF SessionInv, Parsing
<1>10. CASE /\ ~rb /\ wr /\ cpr_download /\ cpr_download_d
            /\ state \in Parsing /\ ~load_valid /\ Taken(p) /\ TakesByte(p)
  <2>1. \/ state' \in Parsing /\ load_pulse' = "none"
        \/ state' = "ERROR" /\ load_pulse' = "abort"
    BY <1>10, ByteTaken
  <2>2. load_active' /\ ~commit_pending'
    BY <1>1, <1>2, <1>10 DEF SessionInv
  <2>3. hps_pos' > 0
    BY <1>2, <1>3, <1>10
  <2>4. load_pulse # "abort"
    BY <1>10 DEF SessionInv
  <2> QED BY <1>1, <1>3, <1>4, <2>1, <2>2, <2>3, <2>4 DEF SessionInv, Parsing
<1> QED BY <1>0, <1>6, <1>7, <1>8, <1>9, <1>10, ParserMoves

(* The region of a session: cleared up to clear_index, by one write at a time;
   a write left over from before the session lands before the first. *)
ClearInv ==
    /\ load_active /\ clear_active =>
          /\ \A a \in Addr : a < clear_index => store[a] = Zero
          /\ mem_req /\ discard_request => clear_index = 0
          /\ mem_req /\ ~discard_request =>
                /\ request.kind = "clear" /\ request.addr = clear_index /\ request.data = Zero
                /\ chan = "ack" => store[clear_index] = Zero
    /\ load_active /\ ~clear_active /\ mem_req => ~discard_request /\ request.kind = "load"

(* What one edge does to the work of an open session. *)
LEMMA WorkMoves ==
    ASSUME TypeOK, ServiceInv, SessionInv, ClearInv, NEW rb \in BOOLEAN, NEW m,
           m = MemoryPorts(rb), MemoryClock(m), load_active, ~ControlEvent(m)
    PROVE  \/ /\ clear_active /\ mem_req /\ ~discard_request /\ chan = "ack"
              /\ load_ready' = FALSE
              /\ "load_valid" \in consumed' <=> load_valid /\ "load_valid" \in consumed
              /\ \/ /\ clear_index = LastAddr /\ clear_index' = clear_index
                    /\ clear_active' = FALSE /\ mem_req' = FALSE
                 \/ /\ clear_index # LastAddr /\ clear_index' = clear_index + 1
                    /\ clear_active' = TRUE /\ mem_req' = TRUE /\ discard_request' = FALSE
                    /\ request'.kind = "clear" /\ request'.addr = clear_index + 1
                    /\ request'.data = Zero
           \/ /\ clear_active' = clear_active /\ clear_index' = clear_index
              /\ \/ /\ clear_active /\ mem_req /\ discard_request /\ chan = "ack"
                    /\ mem_req' = FALSE /\ load_ready' = FALSE
                    /\ "load_valid" \in consumed' <=> load_valid /\ "load_valid" \in consumed
                 \/ /\ ~clear_active /\ mem_req /\ chan = "ack"
                    /\ mem_req' = FALSE /\ load_ready' = TRUE
                    /\ "load_valid" \in consumed' <=> load_valid /\ "load_valid" \in consumed
                 \/ /\ mem_req /\ chan # "ack" /\ mem_req' = TRUE /\ request' = request
                    /\ discard_request' = discard_request /\ load_ready' = FALSE
                    /\ "load_valid" \in consumed' <=> load_valid /\ "load_valid" \in consumed
                 \/ /\ ~mem_req /\ clear_active /\ mem_req' = TRUE /\ discard_request' = FALSE
                    /\ request'.kind = "clear" /\ request'.addr = clear_index
                    /\ request'.data = Zero /\ load_ready' = FALSE
                    /\ "load_valid" \in consumed' <=> load_valid /\ "load_valid" \in consumed
                 \/ /\ ~mem_req /\ ~clear_active /\ load_valid /\ "load_valid" \notin consumed
                    /\ mem_req' = TRUE /\ discard_request' = FALSE /\ request'.kind = "load"
                    /\ request'.addr = OfferedWord.addr /\ request'.data = OfferedWord.data
                    /\ load_ready' = FALSE /\ "load_valid" \in consumed'
                 \/ /\ ~mem_req /\ ~clear_active /\ mem_req' = FALSE /\ load_ready' = FALSE
                    /\ load_valid => "load_valid" \in consumed
                    /\ "load_valid" \in consumed' <=> load_valid /\ "load_valid" \in consumed
<1>1. /\ m.mem_ack = (chan = "ack") /\ m.load_valid = load_valid /\ m.load_word = OfferedWord
      /\ "load_valid" \notin m.controls
  BY PortsAre DEF Controls
<1>2. /\ {clear_active, mem_req, discard_request, load_valid} \subseteq BOOLEAN
      /\ mem_req /\ ~discard_request => request.kind = IF clear_active THEN "clear" ELSE "load"
      /\ ~mem_req => discard_request = FALSE
      /\ mem_req /\ ~clear_active => discard_request = FALSE
  BY DEF TypeOK, MemoryTypeOK, ParserTypeOK, ClearInv, ServiceInv
<1>3. "load_valid" \in StillHeld(m) <=> load_valid /\ "load_valid" \in consumed
  BY <1>1, <1>2 DEF StillHeld, Held
<1>4. Consume(m, StillHeld(m)) =>
         ("load_valid" \in consumed' <=> load_valid /\ "load_valid" \in consumed)
  BY <1>1, <1>3 DEF Consume
<1>5. \/ AckDiscarded(m) \/ AckClear(m) \/ AckLoad(m) \/ HoldRequest(m)
      \/ IssueClear(m) \/ IssueLoad(m) \/ Publish(m) \/ Idle(m)
  <2>1. ~RejectLoad(m)
    BY PortsAre, WordType DEF RejectLoad
  <2>2. ~AckCpu(m)
    BY <1>2 DEF AckCpu, Acked, Disowned
  <2> QED BY <2>1, <2>2, ControlEdge DEF MemoryClock, ControlEvent, Detach, IssueRead,
          ReadOpenBus, NewRead
<1>6. CASE AckDiscarded(m)
  BY <1>1, <1>2, <1>4, <1>6 DEF AckDiscarded, Acked, Disowned, sessionVars
<1>7. CASE AckClear(m)
  <2>1. /\ clear_active /\ mem_req /\ ~discard_request /\ chan = "ack" /\ load_ready' = FALSE
        /\ "load_valid" \in consumed' <=> load_valid /\ "load_valid" \in consumed
    BY <1>1, <1>2, <1>4, <1>7 DEF AckClear, Acked, Disowned
  <2>2. CASE clear_index = LastAddr
    BY <1>7, <2>1, <2>2 DEF AckClear, LastCleared
  <2>3. CASE clear_index # LastAddr
    <3>1. /\ Issue("clear", clear_index + 1, Zero) /\ clear_index' = clear_index + 1
          /\ clear_active' = clear_active
      BY <1>7, <2>3 DEF AckClear, LastCleared
    <3> QED BY <1>2, <2>1, <2>3, <3>1, Issued
  <2> QED BY <2>2, <2>3
<1>8. CASE AckLoad(m)
  BY <1>1, <1>2, <1>4, <1>8 DEF AckLoad, Acked, Disowned, sessionVars
<1>9. CASE HoldRequest(m)
  <2>1. discard_request' = discard_request
    <3>1. request.kind = "cpu" => discard_request
      BY <1>2, <1>9 DEF HoldRequest
    <3>2. Disowned(m) <=> discard_request
      BY <3>1 DEF Disowned
    <3>3. discard_request' \in BOOLEAN
      BY MemoryTypeStep DEF MemoryTypeOK
    <3> QED BY <1>2, <1>9, <3>2, <3>3 DEF HoldRequest
  <2> QED BY <1>1, <1>2, <1>4, <1>9, <2>1 DEF HoldRequest, sessionVars
<1>10. CASE IssueClear(m)
  <2>1. /\ Issue("clear", clear_index, Zero) /\ ~mem_req /\ clear_active
        /\ clear_active' = clear_active /\ clear_index' = clear_index /\ load_ready' = FALSE
        /\ "load_valid" \in consumed' <=> load_valid /\ "load_valid" \in consumed
    BY <1>4, <1>10 DEF IssueClear, Free, sessionVars
  <2> QED BY <1>2, <2>1, Issued
<1>11. CASE IssueLoad(m)
  <2>1. /\ Issue("load", OfferedWord.addr, OfferedWord.data) /\ ~mem_req /\ ~clear_active
        /\ clear_active' = clear_active /\ clear_index' = clear_index /\ load_ready' = FALSE
        /\ load_valid /\ "load_valid" \notin consumed
    BY <1>1, <1>11 DEF IssueLoad, NewWord, Free, sessionVars
  <2>2. "load_valid" \in consumed'
    BY <1>11 DEF IssueLoad, Consume
  <2> QED BY <1>2, <2>1, <2>2, Issued
<1>12. CASE Publish(m)
  BY <1>1, <1>2, <1>4, <1>12 DEF Publish, NewWord, Free
<1>13. CASE Idle(m)
  BY <1>1, <1>2, <1>4, <1>13 DEF Idle, NewWord, Free, sessionVars
<1> QED BY <1>5, <1>6, <1>7, <1>8, <1>9, <1>10, <1>11, <1>12, <1>13

(* A byte is written before its acknowledge shows, and by nothing else. *)
LEMMA WriteLands ==
    ASSUME TypeOK, HeldUntilAck, ChannelClock
    PROVE  /\ ~mem_req \/ chan = "ack" => store' = store /\ chan' # "ack"
           /\ mem_req /\ request.write /\ chan' = "ack" =>
                 store' = [store EXCEPT ![request.addr] = request.data]
           /\ store' # store => /\ mem_req /\ request.write
                                /\ store' = [store EXCEPT ![request.addr] = request.data]
<1>1. chan \in {"idle", "granted", "run", "ack"}
  BY DEF TypeOK, ChannelTypeOK
<1>2. ~mem_req => chan = "idle"
  BY DEF HeldUntilAck
<1>3. chan = "run" => slot = request
  BY DEF HeldUntilAck
<1>4. chan = "ack" \/ chan = "idle" => store' = store /\ chan' # "ack"
  BY DEF ChannelClock, Admit, Wait, Run, CompleteWrite, CompleteRead, Release, channelVars
<1>5. chan' = "ack" /\ request.write => store' = [store EXCEPT ![request.addr] = request.data]
  BY <1>3 DEF ChannelClock, Admit, Wait, Run, CompleteWrite, CompleteRead, Release, channelVars
<1> QED BY <1>2, <1>4, <1>5, StoreStep

LEMMA ClearStep ==
    ASSUME TypeOK, ServiceInv, SessionInv, ClearInv, NEW rb \in BOOLEAN, NEW wr \in BOOLEAN,
           Edge(rb, wr)
    PROVE  ClearInv'
<1>1. PICK m : m = MemoryPorts(rb) /\ MemoryClock(m)
  BY DEF Edge
<1>2. MemoryTypeOK' /\ ChannelTypeOK' /\ ChannelClock
  BY <1>1, MemoryTypeStep, ChannelTypeStep DEF Edge
<1>3. CASE ControlEvent(m)
  <2>1. LoadAbort(m) \/ ColdReset(m) \/ LoadBegin(m)
    BY <1>1, <1>3, ControlEdge
  <2>2. clear_index' = 0 /\ discard_request' = mem_req'
    BY <2>1 DEF LoadAbort, ColdReset, LoadBegin, EndActivity
  <2>3. load_active' = clear_active'
    BY <2>1 DEF LoadAbort, ColdReset, LoadBegin
  <2>4. \A a \in Addr : ~(a < clear_index')
    BY <2>2, MemoryAssumption DEF Addr
  <2> QED BY <1>2, <2>2, <2>3, <2>4 DEF ClearInv, MemoryTypeOK
<1>4. CASE ~ControlEvent(m) /\ load_active' /\ load_active
  <2>1. /\ HeldUntilAck
        /\ {clear_active, mem_req, discard_request} \subseteq BOOLEAN /\ clear_index \in Addr
        /\ store \in [Addr -> Byte]
    BY DEF ServiceInv, TypeOK, MemoryTypeOK, ChannelTypeOK
  <2>2. /\ ~mem_req \/ chan = "ack" => store' = store /\ chan' # "ack"
        /\ mem_req /\ request.write /\ chan' = "ack" =>
              store' = [store EXCEPT ![request.addr] = request.data]
        /\ store' # store => /\ mem_req /\ request.write
                             /\ store' = [store EXCEPT ![request.addr] = request.data]
    BY <1>2, <2>1, WriteLands
  <2>3. mem_req /\ ~discard_request => request.write
    BY <1>4 DEF ServiceInv, ClearInv
  <2>4. ~mem_req => discard_request = FALSE
    BY <2>1 DEF ServiceInv
  <2>5. CASE clear_active /\ clear_active'
    <3>1. \A a \in Addr : a < clear_index => store'[a] = Zero
      <4>1. CASE store' = store
        BY <1>4, <2>5, <4>1 DEF ClearInv
      <4>2. CASE store' # store /\ discard_request
        BY <1>4, <2>2, <2>5, <4>2, MemoryAssumption DEF ClearInv, Addr
      <4>3. CASE store' # store /\ ~discard_request
        BY <1>4, <2>1, <2>2, <2>5, <4>3 DEF ClearInv
      <4> QED BY <4>1, <4>2, <4>3
    <3>2. CASE clear_index' = clear_index
      <4>1. mem_req' /\ discard_request' => clear_index' = 0
        BY <1>1, <1>4, <2>1, <2>5, <3>2, WorkMoves DEF ClearInv
      <4>2. mem_req' /\ ~discard_request' =>
              /\ request'.kind = "clear" /\ request'.addr = clear_index' /\ request'.data = Zero
              /\ \/ ~mem_req
                 \/ /\ mem_req /\ ~discard_request /\ request' = request /\ chan # "ack"
        <5>1. ASSUME mem_req', ~discard_request'
              PROVE  \/ /\ ~mem_req /\ request'.kind = "clear"
                        /\ request'.addr = clear_index /\ request'.data = Zero
                     \/ mem_req /\ ~discard_request /\ request' = request /\ chan # "ack"
          <6>1. clear_index # clear_index + 1
            BY <2>1, MemoryAssumption DEF Addr
          <6> QED BY <1>1, <1>4, <2>5, <3>2, <5>1, <6>1, WorkMoves
        <5>2. mem_req /\ ~discard_request => /\ request.kind = "clear" /\ request.data = Zero
                                              /\ request.addr = clear_index
          BY <1>4, <2>5 DEF ClearInv
        <5> QED BY <3>2, <5>1, <5>2
      <4>3. mem_req' /\ ~discard_request' /\ chan' = "ack" => store'[clear_index'] = Zero
        <5>1. ASSUME mem_req', ~discard_request', chan' = "ack" PROVE store'[clear_index] = Zero
          <6>1. /\ mem_req /\ request.write
                /\ request.addr = clear_index /\ request.data = Zero
            BY <1>4, <2>2, <2>3, <2>5, <4>2, <5>1 DEF ClearInv
          <6> QED BY <2>1, <2>2, <5>1, <6>1
        <5> QED BY <3>2, <5>1
      <4>4. \A a \in Addr : a < clear_index' => store'[a] = Zero
        BY <3>1, <3>2
      <4> QED BY <2>5, <4>1, <4>2, <4>3, <4>4 DEF ClearInv
    <3>3. CASE clear_index' # clear_index
      <4>1. /\ mem_req /\ ~discard_request /\ chan = "ack"
            /\ clear_index' = clear_index + 1
            /\ mem_req' = TRUE /\ discard_request' = FALSE
            /\ request'.kind = "clear" /\ request'.addr = clear_index + 1
            /\ request'.data = Zero
        BY <1>1, <1>4, <2>5, <3>3, WorkMoves
      <4>2. store' = store /\ chan' # "ack" /\ store[clear_index] = Zero
        BY <1>4, <2>2, <2>5, <4>1 DEF ClearInv
      <4>3. \A a \in Addr : a < clear_index' => store'[a] = Zero
        <5>1. \A a \in Addr : a < clear_index + 1 => a < clear_index \/ a = clear_index
          BY <2>1, MemoryAssumption DEF Addr
        <5> QED BY <3>1, <4>1, <4>2, <5>1
      <4> QED BY <2>5, <4>1, <4>2, <4>3 DEF ClearInv
    <3> QED BY <3>2, <3>3
  <2>6. CASE ~clear_active'
    <3>1. mem_req' => discard_request' = FALSE /\ request'.kind = "load"
      BY <1>1, <1>4, <2>1, <2>6, WorkMoves DEF ClearInv
    <3> QED BY <2>6, <3>1 DEF ClearInv
  <2>7. clear_active' => clear_active
    BY <1>1, <1>4, WorkMoves
  <2> QED BY <2>5, <2>6, <2>7
<1>5. CASE ~ControlEvent(m) /\ ~(load_active' /\ load_active)
  <2>1. load_active' = FALSE
    <3>1. load_active' => load_active
      BY <1>1, <1>5, SessionGoesOn
    <3> QED BY <1>2, <1>5, <3>1 DEF MemoryTypeOK
  <2> QED BY <2>1 DEF ClearInv
<1> QED BY <1>3, <1>4, <1>5

(* The word on offer is written once: not before the region is clear, then held
   in one request to its end, and answered when it is in the store. *)
Offered == "load_valid" \in consumed
WordInv ==
    load_active /\ load_pulse \in {"none", "commit"} =>
       /\ clear_active /\ load_valid => ~Offered
       /\ load_ready => /\ load_valid /\ Offered /\ ~mem_req /\ ~clear_active
                        /\ store[OfferedWord.addr] = OfferedWord.data
       /\ ~clear_active /\ mem_req =>
             /\ load_valid /\ Offered
             /\ request.addr = OfferedWord.addr /\ request.data = OfferedWord.data
             /\ chan = "ack" => store[OfferedWord.addr] = OfferedWord.data
       /\ load_valid /\ Offered => mem_req \/ load_ready

(* A word stays on offer until it is answered, and no other takes its place. *)
LEMMA OfferMoves ==
    ASSUME TypeOK, ResetInv, SessionInv, NEW rb \in BOOLEAN, NEW wr \in BOOLEAN, Edge(rb, wr),
           load_active', load_pulse' \in {"none", "commit"}
    PROVE  /\ ~rb /\ load_pulse \in {"none", "commit", "begin"}
           /\ load_pulse # "begin" => load_active
           /\ load_valid => /\ load_valid' = (~load_ready) /\ OfferedWord' = OfferedWord
                            /\ load_out' = load_out
<1> DEFINE p == ParserPorts(rb, wr)
<1>0. p = ParserPorts(rb, wr) /\ p.load_ready = load_ready
  BY DEF ParserPorts
<1> HIDE DEF p
<1>1. /\ load_pulse \in {"none", "begin", "commit", "abort"} /\ load_valid \in BOOLEAN
      /\ load_ready \in BOOLEAN /\ load_active \in BOOLEAN
  BY DEF TypeOK, MemoryTypeOK, ParserTypeOK
<1>2. ~rb /\ load_pulse \in {"none", "commit", "begin"} /\ (load_pulse # "begin" => load_active)
  BY <1>1, SessionMoves
<1>3. ASSUME load_valid
      PROVE  load_valid' = (~load_ready) /\ load_out' = load_out
  <2>1. CASE StartDownload(p)
    BY <2>1 DEF StartDownload
  <2>2. CASE EndDownload(p) /\ cpr_download_d
    <3>1. load_pulse' = "none" /\ state = "ERROR"
      BY <1>3, <2>2 DEF EndDownload, CleanEnd
    <3>2. load_pulse = "none" /\ ~load_active
      BY <1>2, <3>1 DEF SessionInv
    <3> QED BY <1>2, <3>2
  <2>3. CASE NoByte(p)
    BY <1>0, <1>1, <1>3, <2>3 DEF NoByte, Acknowledge, KeepStream
  <2> QED BY <1>0, <1>2, <1>3, <2>1, <2>2, <2>3, ParserMoves
<1>4. load_out' = load_out => OfferedWord' = OfferedWord
  BY DEF OfferedWord
<1> QED BY <1>2, <1>3, <1>4

LEMMA WordStep ==
    ASSUME TypeOK, ResetInv, ServiceInv, SessionInv, ClearInv, WordInv,
           NEW rb \in BOOLEAN, NEW wr \in BOOLEAN, Edge(rb, wr)
    PROVE  WordInv'
<1> SUFFICES ASSUME load_active', load_pulse' \in {"none", "commit"} PROVE WordInv'
  BY DEF WordInv
<1>1. PICK m : m = MemoryPorts(rb) /\ MemoryClock(m)
  BY DEF Edge
<1>2. /\ ~rb /\ load_pulse \in {"none", "commit", "begin"}
      /\ load_pulse # "begin" => load_active
      /\ load_valid => load_valid' = (~load_ready) /\ OfferedWord' = OfferedWord
  BY OfferMoves
<1>3. CASE load_pulse = "begin"
  <2>1. LoadBegin(m) /\ ~load_valid
    BY <1>1, <1>2, <1>3, ControlCases DEF SessionInv
  <2>2. clear_active' = TRUE /\ load_ready' = FALSE
    BY <2>1 DEF LoadBegin, EndActivity
  <2>3. ~Offered'
    <3>1. "load_valid" \notin Held(m) /\ "load_valid" \notin m.controls
      BY <1>1, <2>1, PortsAre DEF Held, Controls
    <3> QED BY <2>1, <3>1 DEF LoadBegin, Consume, Offered
  <2> QED BY <2>2, <2>3 DEF WordInv
<1>4. CASE load_pulse \in {"none", "commit"}
  <2>1. /\ load_active /\ ~ControlEvent(m)
    BY <1>1, <1>2, <1>4, ControlCases
  <2>2. /\ {clear_active, mem_req, discard_request, load_valid, load_ready} \subseteq BOOLEAN
        /\ store \in [Addr -> Byte] /\ OfferedWord.addr \in Addr /\ OfferedWord.data \in Byte
    BY WordType DEF TypeOK, MemoryTypeOK, ChannelTypeOK, ParserTypeOK
  <2>3. /\ ~mem_req \/ chan = "ack" => store' = store /\ chan' # "ack"
        /\ mem_req /\ request.write /\ chan' = "ack" =>
              store' = [store EXCEPT ![request.addr] = request.data]
    BY WriteLands DEF Edge, ServiceInv
  <2>4. CASE ~load_valid
    <3>1. ~load_ready /\ (~clear_active => ~mem_req)
      BY <1>4, <2>1, <2>4 DEF WordInv
    <3>2. ~Offered' /\ load_ready' = FALSE /\ (~clear_active' => mem_req' = FALSE)
      <4>1. /\ Offered' => load_valid
            /\ ~load_ready'
            /\ ~clear_active' => ~mem_req'
        <5>1. ~(mem_req /\ ~clear_active)
          BY <3>1
        <5>2. ~load_ready' /\ (~clear_active' => ~mem_req')
          BY <1>1, <2>1, <2>4, <5>1, WorkMoves
        <5>3. "load_valid" \in consumed' => load_valid
          BY <1>1, <2>1, <2>4, <5>1, WorkMoves
        <5> QED BY <5>2, <5>3 DEF Offered
      <4>2. load_ready' \in BOOLEAN /\ mem_req' \in BOOLEAN
        BY <1>1, MemoryTypeStep DEF MemoryTypeOK
      <4> QED BY <2>4, <4>1, <4>2
    <3> QED BY <3>2 DEF WordInv
  <2>5. CASE load_valid
    <3>1. load_valid' = (~load_ready) /\ OfferedWord' = OfferedWord
      BY <1>2, <2>5
    <3>2. CASE clear_active
      <4>1. ~Offered /\ ~load_ready
        BY <1>4, <2>1, <2>5, <3>2 DEF WordInv
      <4>2. ~Offered' /\ load_ready' = FALSE /\ (~clear_active' => mem_req' = FALSE)
        BY <1>1, <2>1, <3>2, <4>1, WorkMoves DEF Offered
      <4> QED BY <4>2 DEF WordInv
    <3>3. CASE ~clear_active /\ mem_req
      <4>1. /\ Offered /\ ~load_ready /\ ~discard_request /\ request.write
            /\ request.addr = OfferedWord.addr /\ request.data = OfferedWord.data
            /\ chan = "ack" => store[OfferedWord.addr] = OfferedWord.data
        BY <1>4, <2>1, <2>5, <3>3 DEF WordInv, ClearInv, ServiceInv
      <4>2. clear_active' = FALSE /\ load_valid' = TRUE /\ Offered'
        BY <1>1, <2>1, <2>2, <2>5, <3>1, <3>3, <4>1, WorkMoves DEF Offered
      <4>3. CASE chan = "ack"
        <5>1. mem_req' = FALSE /\ load_ready' = TRUE
          BY <1>1, <2>1, <3>3, <4>1, <4>3, WorkMoves
        <5>2. store' = store
          BY <2>3, <4>3
        <5> QED BY <3>1, <4>1, <4>2, <4>3, <5>1, <5>2 DEF WordInv
      <4>4. CASE chan # "ack"
        <5>1. mem_req' = TRUE /\ request' = request /\ load_ready' = FALSE
          BY <1>1, <2>1, <3>3, <4>1, <4>4, WorkMoves
        <5>2. chan' = "ack" => store'[OfferedWord.addr] = OfferedWord.data
          BY <2>2, <2>3, <3>3, <4>1
        <5> QED BY <3>1, <4>1, <4>2, <5>1, <5>2 DEF WordInv
      <4> QED BY <4>3, <4>4
    <3>4. CASE ~clear_active /\ ~mem_req /\ ~Offered
      <4>1. ~load_ready
        BY <1>4, <2>1, <3>4 DEF WordInv
      <4>2. /\ clear_active' = clear_active /\ mem_req' = TRUE
            /\ request'.addr = OfferedWord.addr /\ request'.data = OfferedWord.data
            /\ load_ready' = FALSE /\ Offered'
        BY <1>1, <2>1, <2>5, <3>4, WorkMoves DEF Offered
      <4>3. chan' # "ack"
        BY <2>3, <3>4
      <4> QED BY <2>2, <3>1, <3>4, <4>1, <4>2, <4>3 DEF WordInv
    <3>5. CASE ~clear_active /\ ~mem_req /\ Offered
      <4>1. load_ready
        BY <1>4, <2>1, <2>5, <3>5 DEF WordInv
      <4>2. /\ clear_active' = clear_active /\ mem_req' = FALSE /\ load_ready' = FALSE
        BY <1>1, <2>1, <2>5, <3>5, WorkMoves DEF Offered
      <4>3. load_valid' = FALSE
        BY <3>1, <4>1, <2>2
      <4> QED BY <4>2, <4>3 DEF WordInv
    <3> QED BY <3>2, <3>3, <3>4, <3>5
  <2> QED BY <2>4, <2>5
<1> QED BY <1>2, <1>3, <1>4

(* What the region will hold when the work in hand is done: the clearing ahead
   of it and the word on offer over its byte. *)
Now(a) == IF load_valid /\ a = OfferedWord.addr THEN OfferedWord.data
          ELSE IF load_pulse = "begin" \/ clear_active THEN Zero ELSE store[a]

(* Nothing but a new word changes it: neither the writes under way nor the
   last of the clearing. *)
LEMMA NowStep ==
    ASSUME TypeOK, ResetInv, ServiceInv, SessionInv, ClearInv, WordInv,
           NEW rb \in BOOLEAN, NEW wr \in BOOLEAN, Edge(rb, wr),
           load_active', load_pulse' \in {"none", "commit"}, NEW a \in Addr
    PROVE  Now(a)' = IF ~load_valid /\ load_valid' /\ a = OfferedWord.addr'
                     THEN OfferedWord.data' ELSE Now(a)
<1>1. PICK m : m = MemoryPorts(rb) /\ MemoryClock(m)
  BY DEF Edge
<1>2. /\ ~rb /\ load_pulse \in {"none", "commit", "begin"}
      /\ load_pulse # "begin" => load_active
      /\ load_valid => load_valid' = (~load_ready) /\ OfferedWord' = OfferedWord
  BY OfferMoves
<1>3. /\ load_pulse' # "begin" /\ clear_active \in BOOLEAN /\ load_valid \in BOOLEAN
      /\ load_ready \in BOOLEAN
  BY DEF TypeOK, MemoryTypeOK, ParserTypeOK
<1> DEFINE Under0 == IF load_pulse = "begin" \/ clear_active THEN Zero ELSE store[a]
<1>4. /\ Now(a) = IF load_valid /\ a = OfferedWord.addr THEN OfferedWord.data ELSE Under0
      /\ Now(a)' = IF load_valid' /\ a = OfferedWord.addr' THEN OfferedWord.data' ELSE Under0'
  BY DEF Now
<1>5. Under0' = IF clear_active' THEN Zero ELSE store'[a]
  BY <1>3
<1>6. CASE load_pulse = "begin"
  <2>1. LoadBegin(m) /\ ~load_valid
    BY <1>1, <1>2, <1>6, ControlCases DEF SessionInv
  <2>2. Under0' = Zero /\ Under0 = Zero
    BY <1>5, <1>6, <2>1 DEF LoadBegin
  <2> HIDE DEF Under0
  <2> QED BY <1>4, <2>1, <2>2
<1>7. CASE load_pulse \in {"none", "commit"}
  <2>1. /\ load_active /\ ~ControlEvent(m)
    BY <1>1, <1>2, <1>7, ControlCases
  <2>2. /\ store \in [Addr -> Byte] /\ OfferedWord.addr \in Addr /\ clear_index \in Addr
    BY WordType DEF TypeOK, MemoryTypeOK, ChannelTypeOK, ParserTypeOK
  <2>3. /\ ~mem_req \/ chan = "ack" => store' = store /\ chan' # "ack"
        /\ store' # store => /\ mem_req /\ request.write
                             /\ store' = [store EXCEPT ![request.addr] = request.data]
    BY WriteLands DEF Edge, ServiceInv
  <2>4. Under0 = IF clear_active THEN Zero ELSE store[a]
    BY <1>7
  <2>5. CASE clear_active
    <3>1. Under0' = Zero
      <4>1. CASE clear_active'
        BY <1>5, <4>1
      <4>2. CASE ~clear_active'
        <5>1. /\ mem_req /\ ~discard_request /\ chan = "ack" /\ clear_index = LastAddr
          BY <1>1, <2>1, <2>5, <4>2, WorkMoves
        <5>2. store' = store /\ store[clear_index] = Zero /\ (a < clear_index => store[a] = Zero)
          BY <2>1, <2>3, <2>5, <5>1 DEF ClearInv
        <5>3. a < clear_index \/ a = clear_index
          BY <5>1, MemoryAssumption DEF Addr
        <5> QED BY <1>5, <4>2, <5>2, <5>3
      <4> QED BY <4>1, <4>2
    <3>2. load_valid => ~load_ready
      BY <1>7, <2>1, <2>5 DEF WordInv
    <3>3. Under0 = Zero
      BY <2>4, <2>5
    <3> HIDE DEF Under0
    <3> QED BY <1>2, <1>3, <1>4, <3>1, <3>2, <3>3
  <2>6. CASE ~clear_active
    <3>1. clear_active' = clear_active
      BY <1>1, <2>1, <2>6, WorkMoves
    <3>2. Under0' = store'[a] /\ Under0 = store[a]
      BY <1>5, <2>4, <2>6, <3>1
    <3>3. store'[a] # store[a] => /\ load_valid /\ ~load_ready
                                  /\ a = OfferedWord.addr
      <4>1. SUFFICES ASSUME store'[a] # store[a]
                     PROVE  load_valid /\ ~load_ready /\ a = OfferedWord.addr
        OBVIOUS
      <4>2. /\ mem_req /\ store' = [store EXCEPT ![request.addr] = request.data]
        BY <2>3, <4>1
      <4>3. load_valid /\ ~load_ready /\ request.addr = OfferedWord.addr
        BY <1>7, <2>1, <2>6, <4>2 DEF WordInv
      <4> QED BY <2>2, <4>1, <4>2, <4>3
    <3>4. load_ready => load_valid /\ store[OfferedWord.addr] = OfferedWord.data
      BY <1>7, <2>1 DEF WordInv
    <3> HIDE DEF Under0
    <3>5. CASE load_valid
      BY <1>2, <1>3, <1>4, <3>2, <3>3, <3>4, <3>5
    <3>6. CASE ~load_valid
      BY <1>2, <1>3, <1>4, <3>2, <3>3, <3>4, <3>6
    <3> QED BY <3>5, <3>6
  <2> QED BY <2>5, <2>6
<1> QED BY <1>2, <1>6, <1>7

-----------------------------------------------------------------------------
(* The reference definition: what it says of a file from one chunk on is what it
   says of the chunk and of the rest. *)
LEMMA Smallest ==
    ASSUME NEW T \in SUBSET Nat, T # {}
    PROVE  \E x \in T : \A y \in T : x <= y
<1> DEFINE R == OpToRel(<, Nat)
<1>1. IsWellFoundedOn(R, Nat)
  BY NatLessThanWellFounded
<1>2. \A x, y \in Nat : <<y, x>> \in R <=> y < x
  BY DEF OpToRel
<1> HIDE DEF R
<1>3. \E x \in T : \A y \in T : ~(<<y, x>> \in R)
  BY <1>1, WFMin
<1>4. PICK x \in T : \A y \in T : ~(<<y, x>> \in R)
  BY <1>3
<1>5. ASSUME NEW y \in T PROVE x <= y
  <2>1. y \in Nat /\ x \in Nat
    OBVIOUS
  <2>2. <<y, x>> \notin R
    BY <1>4
  <2>3. ~(y < x)
    BY <1>2, <2>1, <2>2, Zenon
  <2> QED BY <2>1, <2>3
<1> QED BY <1>5

LEMMA NatSets ==
    ASSUME NEW S \in SUBSET Nat, 0 \in S, \A n \in S : n + 1 \in S
    PROVE  S = Nat
<1>1. SUFFICES ASSUME Nat \ S # {} PROVE FALSE
  OBVIOUS
<1>2. PICK x \in Nat \ S : \A y \in Nat \ S : x <= y
  BY <1>1, Smallest
<1>3. x # 0 /\ x - 1 \in Nat
  BY <1>2
<1>4. x - 1 \in S
  BY <1>2, <1>3
<1>5. (x - 1) + 1 \in S
  BY <1>4
<1> QED BY <1>2, <1>5

LEMMA FieldType ==
    ASSUME NEW f \in Seq(Byte), NEW p \in Nat, p + 4 <= Len(f)
    PROVE  Value(Field(f, p)) \in Nat
<1>1. /\ f[p + 1] \in Byte /\ f[p + 2] \in Byte /\ f[p + 3] \in Byte /\ f[p + 4] \in Byte
  <2>1. p + 1 \in 1..Len(f) /\ p + 2 \in 1..Len(f) /\ p + 3 \in 1..Len(f) /\ p + 4 \in 1..Len(f)
    BY Elements
  <2> QED BY <2>1, Elements
<1>2. /\ Field(f, p)[1] = f[p + 1] /\ Field(f, p)[2] = f[p + 2]
      /\ Field(f, p)[3] = f[p + 3] /\ Field(f, p)[4] = f[p + 4]
  BY DEF Field
<1> QED BY <1>1, <1>2, Bytes, ValueType

LEMMA LengthType ==
    ASSUME NEW f \in Seq(Byte), NEW p \in Nat, p + 8 <= Len(f)
    PROVE  /\ Length(f, p) \in Nat /\ Length(f, p) % 2 \in {0, 1}
           /\ NextChunk(f, p) \in Nat /\ NextChunk(f, p) >= p + 8
<1>1. Length(f, p) \in Nat
  <2>1. p + 4 \in Nat /\ (p + 4) + 4 <= Len(f)
    BY Elements
  <2> QED BY <2>1, FieldType DEF Length
<1>2. PICK n \in Nat : Length(f, p) = n
  BY <1>1
<1>3. n % 2 \in {0, 1}
  OBVIOUS
<1>4. NextChunk(f, p) = p + 8 + n + (n % 2)
  BY <1>2 DEF NextChunk
<1> QED BY <1>2, <1>3, <1>4

LEMMA Agree ==
    ASSUME NEW f, NEW p, NEW g, NEW h,
           p + 8 <= Len(f) /\ NextChunk(f, p) <= Len(f) =>
               g[NextChunk(f, p)] = h[NextChunk(f, p)],
           Len(f) \in Nat, p \in Nat, p + 8 <= Len(f) => NextChunk(f, p) \in Nat
    PROVE  ChunkAt(f, p, g) = ChunkAt(f, p, h)
<1>1. CASE p + 8 > Len(f)
  BY <1>1 DEF ChunkAt
<1>2. CASE p + 8 <= Len(f) /\ NextChunk(f, p) > Len(f)
  BY <1>2 DEF ChunkAt
<1>3. CASE p + 8 <= Len(f) /\ NextChunk(f, p) <= Len(f)
  <2>1. g[NextChunk(f, p)] = h[NextChunk(f, p)]
    BY <1>3
  <2> QED BY <2>1 DEF ChunkAt
<1> QED BY <1>1, <1>2, <1>3

LEMMA Defined ==
    ASSUME NEW f, NEW g, g = [p \in 12..Len(f) |-> ChunkAt(f, p, g)]
    PROVE  ChunksFrom(f) = [p \in 12..Len(f) |-> ChunkAt(f, p, ChunksFrom(f))]
  BY DEF ChunksFrom

LEMMA ChunksFromIs ==
    ASSUME NEW f \in Seq(Byte), NEW p \in 12..Len(f)
    PROVE  ChunksFrom(f)[p] = ChunkAt(f, p, ChunksFrom(f))
<1> DEFINE n == Len(f)
           Fits0(g, k) == \A q \in 12..n : n - q < k => g[q] = ChunkAt(f, q, g)
           S == {k \in Nat : \E g : Fits0(g, k)}
<1>0. n \in Nat
  BY Elements
<1>1. 0 \in S
  <2>1. \A q \in 12..n : ~(n - q < 0)
    BY <1>0
  <2>2. Fits0(<<>>, 0)
    BY <2>1
  <2> QED BY <2>2
<1>2. ASSUME NEW k \in S PROVE k + 1 \in S
  <2>1. PICK g : Fits0(g, k)
    BY <1>2
  <2>2. k \in Nat
    BY <1>2
  <2> DEFINE h == [q \in 12..n |-> IF n - q < k THEN g[q] ELSE ChunkAt(f, q, g)]
  <2>3. \A q \in 12..n : h[q] = ChunkAt(f, q, g)
    BY <2>1
  <2>4. \A q \in 12..n : n - q < k => h[q] = g[q]
    OBVIOUS
  <2> HIDE DEF h
  <2>5. ASSUME NEW q \in 12..n, n - q < k + 1 PROVE h[q] = ChunkAt(f, q, h)
    <3>1. q \in Nat /\ (q + 8 <= n => NextChunk(f, q) \in Nat /\ NextChunk(f, q) >= q + 8)
      BY LengthType
    <3>2. ASSUME q + 8 <= n, NextChunk(f, q) <= n
          PROVE  g[NextChunk(f, q)] = h[NextChunk(f, q)]
      <4>1. PICK x \in Nat : x = NextChunk(f, q) /\ x >= q + 8 /\ x <= n
        BY <3>1, <3>2
      <4>2. x \in 12..n /\ n - x < k
        BY <1>0, <2>2, <2>5, <3>1, <4>1
      <4>3. h[x] = g[x]
        BY <2>4, <4>2
      <4> QED BY <4>1, <4>3
    <3>3. ChunkAt(f, q, g) = ChunkAt(f, q, h)
      BY <1>0, <3>1, <3>2, Agree
    <3> QED BY <2>3, <3>3
  <2>6. Fits0(h, k + 1)
    BY <2>5
  <2> QED BY <2>2, <2>6
<1>3. n + 1 \in S
  <2>1. S \in SUBSET Nat
    OBVIOUS
  <2> HIDE DEF S
  <2>2. S = Nat
    BY <1>1, <1>2, <2>1, NatSets
  <2> QED BY <1>0, <2>2
<1>4. PICK g : Fits0(g, n + 1)
  BY <1>3
<1>5. \A q \in 12..n : g[q] = ChunkAt(f, q, g)
  <2>1. \A q \in 12..n : n - q < n + 1
    BY <1>0
  <2> QED BY <1>4, <2>1
<1> DEFINE r == [q \in 12..n |-> g[q]]
<1>6. \A q \in 12..n : r[q] = g[q]
  OBVIOUS
<1>7. r = [q \in 12..n |-> r[q]]
  OBVIOUS
<1> HIDE DEF r
<1>8. ASSUME NEW q \in 12..n PROVE r[q] = ChunkAt(f, q, r)
  <2>1. q \in Nat /\ (q + 8 <= n => NextChunk(f, q) \in Nat /\ NextChunk(f, q) >= q + 8)
    BY LengthType
  <2>2. ASSUME q + 8 <= n, NextChunk(f, q) <= n
        PROVE  g[NextChunk(f, q)] = r[NextChunk(f, q)]
    <3>1. PICK x \in Nat : x = NextChunk(f, q) /\ x >= q + 8 /\ x <= n
      BY <2>1, <2>2
    <3>2. x \in 12..n
      BY <1>0, <2>1, <3>1
    <3> QED BY <1>6, <3>1, <3>2
  <2>3. ChunkAt(f, q, g) = ChunkAt(f, q, r)
    BY <1>0, <2>1, <2>2, Agree
  <2> QED BY <1>5, <1>6, <2>3
<1>9. r = [q \in 12..n |-> ChunkAt(f, q, r)]
  BY <1>7, <1>8
<1>10. ChunksFrom(f) = [q \in 12..n |-> ChunkAt(f, q, ChunksFrom(f))]
  BY <1>9, Defined
<1> QED BY <1>10

(* What one chunk adds, when the parser has gone through it. *)
LEMMA ChunkPasses ==
    ASSUME NEW f \in Seq(Byte), NEW p \in 12..Len(f), p + 8 <= Len(f), p + 8 <= RiffEnd(f),
           RiffEnd(f) \in Nat, NextChunk(f, p) <= RiffEnd(f), NextChunk(f, p) <= Len(f),
           BlockId(Field(f, p)) => ValidPage(Field(f, p)) /\ Length(f, p) <= PageBytes
    PROVE  /\ NextChunk(f, p) \in 12..Len(f)
           /\ ~BlockId(Field(f, p)) => ChunksFrom(f)[p] = ChunksFrom(f)[NextChunk(f, p)]
           /\ BlockId(Field(f, p)) =>
                /\ ChunksFrom(f)[p].ok = ChunksFrom(f)[NextChunk(f, p)].ok
                /\ ChunksFrom(f)[p].bytes = Under(Own(f, p), ChunksFrom(f)[NextChunk(f, p)].bytes)
<1> DEFINE R == ChunksFrom(f)
<1>1. /\ Length(f, p) \in Nat /\ NextChunk(f, p) \in Nat /\ NextChunk(f, p) >= p + 8
      /\ Len(f) \in Nat /\ PageBytes \in Nat
  BY LengthType, Elements, ParserAssumption
<1>2. R[p] = ChunkAt(f, p, R)
  BY ChunksFromIs
<1> HIDE DEF R
<1>3. PICK n \in Nat : n = NextChunk(f, p)
  BY <1>1
<1>4. n >= p + 8 /\ n <= RiffEnd(f) /\ n <= Len(f) /\ n \in 12..Len(f)
  BY <1>1, <1>3
<1>5. /\ ~(p # RiffEnd(f) /\ p + 8 > RiffEnd(f)) /\ p # Len(f)
      /\ ~(p + 8 > Len(f) \/ p = RiffEnd(f))
      /\ ~(NextChunk(f, p) > RiffEnd(f) \/ NextChunk(f, p) > Len(f))
  BY <1>1
<1>6. BlockId(Field(f, p)) => ~(~ValidPage(Field(f, p)) \/ Length(f, p) > PageBytes)
  BY <1>1
<1>7. R[p] = IF ~BlockId(Field(f, p)) THEN R[n]
             ELSE [ok |-> R[n].ok, bytes |-> Under(Own(f, p), R[n].bytes)]
  BY <1>2, <1>3, <1>5, <1>6 DEF ChunkAt
<1> QED BY <1>3, <1>4, <1>7 DEF R

LEMMA ChunkComplete ==
    ASSUME NEW f \in Seq(Byte), NEW p \in 12..Len(f), p + 8 <= Len(f), p + 8 <= RiffEnd(f),
           RiffEnd(f) \in Nat, ChunksFrom(f)[p].ok
    PROVE  NextChunk(f, p) <= Len(f)
<1> DEFINE R == ChunksFrom(f)
<1>1. NextChunk(f, p) \in Nat /\ Len(f) \in Nat
  BY LengthType, Elements
<1>2. R[p] = ChunkAt(f, p, R)
  BY ChunksFromIs
<1> HIDE DEF R
<1>3. /\ ~(p # RiffEnd(f) /\ p + 8 > RiffEnd(f)) /\ p # Len(f)
      /\ ~(p + 8 > Len(f) \/ p = RiffEnd(f))
  BY <1>1
<1>4. NextChunk(f, p) > Len(f) => R[p].ok = FALSE
  BY <1>2, <1>3 DEF ChunkAt, Malformed
<1> QED BY <1>1, <1>4 DEF R

(* The bytes of a block and where they go. *)
LEMMA OwnBytes ==
    ASSUME NEW f, NEW p \in Nat, Length(f, p) \in Nat, PageOf(Field(f, p)) * PageBytes \in Nat
    PROVE  /\ DOMAIN Own(f, p) = {PageOf(Field(f, p)) * PageBytes + j : j \in 0..(Length(f, p) - 1)}
           /\ \A j \in 0..(Length(f, p) - 1) :
                 Own(f, p)[PageOf(Field(f, p)) * PageBytes + j] = f[p + 9 + j]
<1> DEFINE b == PageOf(Field(f, p)) * PageBytes
           D == {b + i : i \in 0..(Length(f, p) - 1)}
<1>1. Own(f, p) = [a \in D |-> f[p + 9 + a - b]]
  BY DEF Own
<1>2. DOMAIN Own(f, p) = D
  BY <1>1
<1>3. ASSUME NEW i \in 0..(Length(f, p) - 1) PROVE Own(f, p)[b + i] = f[p + 9 + i]
  <2>1. b + i \in D
    BY <1>3
  <2>2. PICK c \in Nat : c = b
    OBVIOUS
  <2>3. p + 9 + (c + i) - c = p + 9 + i
    BY <1>3
  <2> HIDE DEF b, D
  <2> QED BY <1>1, <2>1, <2>2, <2>3
<1> QED BY <1>2, <1>3

LEMMA UnderIs ==
    ASSUME NEW own, NEW later
    PROVE  /\ DOMAIN Under(own, later) = DOMAIN own \cup DOMAIN later
           /\ \A a \in DOMAIN later : Under(own, later)[a] = later[a]
           /\ \A a \in DOMAIN own : a \notin DOMAIN later => Under(own, later)[a] = own[a]
  BY DEF Under

(* Half-way through the file: "now" is the region with what has been read, "some"
   that a block has been.  If the rest of the file is in order then so is the
   whole, and it puts its bytes over those of "now" to make the image. *)
Rest(f, p, some, now) ==
    LET whole == ChunksFrom(f)[12]
        rest == ChunksFrom(f)[p]
    IN /\ whole.ok = rest.ok
       /\ whole.ok =>
             /\ DOMAIN rest.bytes \subseteq DOMAIN whole.bytes
             /\ some => DOMAIN whole.bytes # {}
             /\ \A a \in Addr : ImageOf(f)[a] =
                   IF a \in DOMAIN rest.bytes THEN rest.bytes[a] ELSE now[a]

LEMMA RestStarts ==
    ASSUME NEW f, NEW now, \A a \in Addr : now[a] = Zero
    PROVE  Rest(f, 12, FALSE, now)
<1>1. \A a \in Addr : ImageOf(f)[a] = IF a \in DOMAIN ChunksFrom(f)[12].bytes
                                      THEN ChunksFrom(f)[12].bytes[a] ELSE Zero
  BY DEF ImageOf, Chunks
<1> QED BY <1>1 DEF Rest

(* A chunk the parser may be in: it ends within the RIFF body, and a block
   within its page. *)
Sound(f, p) ==
    /\ p + 8 <= Len(f) /\ p + 8 <= RiffEnd(f) /\ RiffEnd(f) \in Nat
    /\ NextChunk(f, p) <= RiffEnd(f)
    /\ BlockId(Field(f, p)) => ValidPage(Field(f, p)) /\ Length(f, p) <= PageBytes

LEMMA BlockBase ==
    ASSUME NEW f \in Seq(Byte), NEW p \in 12..Len(f), Sound(f, p), BlockId(Field(f, p))
    PROVE  /\ Length(f, p) \in Nat /\ PageOf(Field(f, p)) * PageBytes \in Nat
           /\ \A i \in 0..(Length(f, p) - 1) : PageOf(Field(f, p)) * PageBytes + i \in Addr
<1>1. Length(f, p) \in Nat /\ Length(f, p) <= PageBytes
  BY LengthType DEF Sound
<1>2. PageOf(Field(f, p)) \in 0..LastPage
  BY PageType DEF Sound
<1>3. /\ PageBytes \in Nat \ {0} /\ LastPage \in Nat
  BY ParserAssumption
<1>4. \A i \in 0..(Length(f, p) - 1) : i \in 0..(PageBytes - 1)
  BY <1>1, <1>3
<1>5. \A i \in 0..(Length(f, p) - 1) : PageOf(Field(f, p)) * PageBytes + i \in Addr
  BY <1>2, <1>4, WordInRegion
<1>6. PageOf(Field(f, p)) * PageBytes \in Nat
  <2>1. PICK k \in Nat : k = PageOf(Field(f, p))
    BY <1>2, <1>3
  <2>2. k * PageBytes \in Nat
    BY <1>3
  <2> QED BY <2>1, <2>2
<1> QED BY <1>1, <1>5, <1>6

(* A byte of a block is read. *)
LEMMA RestWritten ==
    ASSUME NEW f \in Seq(Byte), NEW p \in 12..Len(f), Sound(f, p), BlockId(Field(f, p)),
           NEW some, NEW now, NEW now2, Rest(f, p, some, now),
           NEW i \in 0..(Length(f, p) - 1),
           \A a \in Addr : a # PageOf(Field(f, p)) * PageBytes + i => now2[a] = now[a]
    PROVE  Rest(f, p, TRUE, now2)
<1> DEFINE whole == ChunksFrom(f)[12]
           rest == ChunksFrom(f)[p]
           b == PageOf(Field(f, p)) * PageBytes + i
<1>1. SUFFICES ASSUME whole.ok, rest.ok
               PROVE  /\ DOMAIN whole.bytes # {}
                      /\ \A a \in Addr : ImageOf(f)[a] =
                            IF a \in DOMAIN rest.bytes THEN rest.bytes[a] ELSE now2[a]
  BY DEF Rest
<1>2. b \in DOMAIN rest.bytes
  <2>1. NextChunk(f, p) <= Len(f)
    BY <1>1, ChunkComplete DEF Sound
  <2>2. rest.bytes = Under(Own(f, p), ChunksFrom(f)[NextChunk(f, p)].bytes)
    BY <2>1, ChunkPasses DEF Sound
  <2>3. b \in DOMAIN Own(f, p)
    <3>1. /\ Length(f, p) \in Nat /\ PageOf(Field(f, p)) * PageBytes \in Nat /\ p \in Nat
      BY BlockBase, Elements
    <3>2. /\ DOMAIN Own(f, p) = {PageOf(Field(f, p)) * PageBytes + j : j \in 0..(Length(f, p) - 1)}
          /\ \A j \in 0..(Length(f, p) - 1) :
                Own(f, p)[PageOf(Field(f, p)) * PageBytes + j] = f[p + 9 + j]
      BY <3>1, OwnBytes, Zenon
    <3> QED BY <3>2
  <2> DEFINE later == ChunksFrom(f)[NextChunk(f, p)].bytes
  <2>4. rest.bytes = Under(Own(f, p), later)
    BY <2>2
  <2> HIDE DEF b, rest, later
  <2>5. DOMAIN Under(Own(f, p), later) = DOMAIN Own(f, p) \cup DOMAIN later
    BY UnderIs
  <2> QED BY <2>3, <2>4, <2>5
<1>3. /\ DOMAIN rest.bytes \subseteq DOMAIN whole.bytes
      /\ \A a \in Addr : ImageOf(f)[a] = IF a \in DOMAIN rest.bytes THEN rest.bytes[a] ELSE now[a]
  BY <1>1 DEF Rest
<1> HIDE DEF b, rest, whole
<1>4. \A a \in Addr : a # b => now2[a] = now[a]
  BY DEF b
<1> QED BY <1>2, <1>3, <1>4

(* The end of a chunk: of a block all the bytes are there. *)
LEMMA RestOfNext ==
    ASSUME NEW f \in Seq(Byte), NEW p \in 12..Len(f), Sound(f, p), NextChunk(f, p) <= Len(f),
           NEW some, NEW now, Rest(f, p, some, now),
           BlockId(Field(f, p)) => \A i \in 0..(Length(f, p) - 1) :
                now[PageOf(Field(f, p)) * PageBytes + i] = f[p + 9 + i]
    PROVE  NextChunk(f, p) \in 12..Len(f) /\ Rest(f, NextChunk(f, p), some, now)
<1> DEFINE whole == ChunksFrom(f)[12]
           rest == ChunksFrom(f)[p]
           next == ChunksFrom(f)[NextChunk(f, p)]
<1>1. NextChunk(f, p) \in 12..Len(f)
  BY ChunkPasses DEF Sound
<1>2. CASE ~BlockId(Field(f, p))
  <2>1. rest = next
    BY <1>2, ChunkPasses DEF Sound
  <2> QED BY <1>1, <2>1 DEF Rest
<1>3. CASE BlockId(Field(f, p))
  <2>1. rest.ok = next.ok /\ rest.bytes = Under(Own(f, p), next.bytes)
    BY <1>3, ChunkPasses DEF Sound
  <2>2. /\ DOMAIN rest.bytes = DOMAIN Own(f, p) \cup DOMAIN next.bytes
        /\ \A a \in DOMAIN next.bytes : rest.bytes[a] = next.bytes[a]
        /\ \A a \in DOMAIN Own(f, p) : a \notin DOMAIN next.bytes => rest.bytes[a] = Own(f, p)[a]
    <3> DEFINE own == Own(f, p)
               later == next.bytes
    <3>1. rest.bytes = Under(own, later)
      BY <2>1
    <3> HIDE DEF own, later, rest, next
    <3>2. /\ DOMAIN Under(own, later) = DOMAIN own \cup DOMAIN later
          /\ \A a \in DOMAIN later : Under(own, later)[a] = later[a]
          /\ \A a \in DOMAIN own : a \notin DOMAIN later => Under(own, later)[a] = own[a]
      BY UnderIs
    <3> QED BY <3>1, <3>2 DEF own, later
  <2>3. \A a \in DOMAIN Own(f, p) : Own(f, p)[a] = now[a]
    <3>1. /\ DOMAIN Own(f, p) = {PageOf(Field(f, p)) * PageBytes + j : j \in 0..(Length(f, p) - 1)}
          /\ \A j \in 0..(Length(f, p) - 1) :
                Own(f, p)[PageOf(Field(f, p)) * PageBytes + j] = f[p + 9 + j]
      <4>1. /\ Length(f, p) \in Nat /\ PageOf(Field(f, p)) * PageBytes \in Nat /\ p \in Nat
        BY <1>3, BlockBase, Elements
      <4> QED BY <4>1, OwnBytes, Zenon
    <3> QED BY <1>3, <3>1
  <2>4. ASSUME whole.ok
        PROVE  /\ DOMAIN rest.bytes \subseteq DOMAIN whole.bytes
               /\ some => DOMAIN whole.bytes # {}
               /\ \A a \in Addr : ImageOf(f)[a] =
                     IF a \in DOMAIN rest.bytes THEN rest.bytes[a] ELSE now[a]
    BY <2>4 DEF Rest
  <2>5. whole.ok = rest.ok
    BY DEF Rest
  <2> HIDE DEF whole, rest, next
  <2>6. whole.ok =>
          /\ DOMAIN next.bytes \subseteq DOMAIN whole.bytes
          /\ some => DOMAIN whole.bytes # {}
          /\ \A a \in Addr : ImageOf(f)[a] =
                IF a \in DOMAIN next.bytes THEN next.bytes[a] ELSE now[a]
    BY <2>2, <2>3, <2>4
  <2> QED BY <1>1, <2>1, <2>5, <2>6 DEF Rest, whole, rest, next
<1> QED BY <1>2, <1>3

(* The end of the file. *)
LEMMA RestAtEnd ==
    ASSUME NEW f \in Seq(Byte), Len(f) \in 12..Len(f), RiffEnd(f) \in Nat,
           Len(f) = RiffEnd(f) \/ Len(f) + 8 <= RiffEnd(f),
           NEW now, Rest(f, Len(f), TRUE, now)
    PROVE  /\ Chunks(f).ok /\ Chunks(f).bytes # <<>>
           /\ \A a \in Addr : ImageOf(f)[a] = now[a]
<1>1. ChunksFrom(f)[Len(f)] = [ok |-> TRUE, bytes |-> <<>>]
  <2> DEFINE R == ChunksFrom(f)
  <2>1. R[Len(f)] = ChunkAt(f, Len(f), R)
    BY ChunksFromIs
  <2> HIDE DEF R
  <2>2. ~(Len(f) # RiffEnd(f) /\ Len(f) + 8 > RiffEnd(f))
    BY Elements
  <2>3. ChunkAt(f, Len(f), R) = [ok |-> TRUE, bytes |-> <<>>]
    BY <2>2 DEF ChunkAt
  <2> QED BY <2>1, <2>3 DEF R
<1>2. DOMAIN ChunksFrom(f)[Len(f)].bytes = {}
  BY <1>1
<1>3. /\ ChunksFrom(f)[12].ok
      /\ DOMAIN ChunksFrom(f)[12].bytes # {}
      /\ \A a \in Addr : ImageOf(f)[a] = now[a]
  BY <1>1, <1>2 DEF Rest
<1>4. ChunksFrom(f)[12].bytes # <<>>
  <2>1. DOMAIN <<>> = {}
    OBVIOUS
  <2> QED BY <1>3, <2>1
<1> QED BY <1>3, <1>4 DEF Chunks

-----------------------------------------------------------------------------
(* The parser half-way through the file.  A start in the middle of it, after a
   reset, is doomed: the byte it expects has gone by. *)
Doomed == state = "RIFF" /\ field = <<>> /\ file_pos = 0 /\ hps_pos > 0
Reading == state \in Parsing /\ ~Doomed
Header == {"RIFF", "RIFF_LEN", "FORM"}
Region == [a \in Addr |-> Now(a)]

(* What is known of the chunk at byte p once its name, and once its length, is read. *)
Named(p) ==
    /\ chunk.block = BlockId(Field(file, p))
    /\ chunk.block => ValidPage(Field(file, p)) /\ chunk.page = PageOf(Field(file, p))
Sized(p) ==
    /\ Named(p) /\ Sound(file, p) /\ chunk.len = Length(file, p)
    /\ chunk.block => \A i \in 0..(chunk.read - 1) :
          Region[chunk.page * PageBytes + i] = file[p + 9 + i]

InChunk(p) ==
    /\ Rest(file, p, has_block, Region)
    /\ state = "DONE" => file_pos = p /\ p = riff_limit
    /\ state # "DONE" => p + 8 <= riff_limit
    /\ state = "CHUNK_ID" => file_pos = p + Len(field)
    /\ state = "CHUNK_LEN" => file_pos = p + 4 + Len(field) /\ Named(p)
    /\ state \in {"CHUNK_DATA", "CHUNK_PAD"} =>
          file_pos = p + 8 + chunk.read /\ Sized(p) /\ field = <<>>
    /\ state = "CHUNK_DATA" => chunk.read < chunk.len
    /\ state = "CHUNK_PAD" => chunk.read = chunk.len /\ chunk.len % 2 = 1

(* The bytes of the current field are those just sent, and what has been found
   of the file is so of the file. *)
StreamInv ==
    /\ state \in Header => /\ has_block = FALSE /\ load_valid = FALSE
                           /\ \A a \in Addr : Region[a] = Zero
    /\ Reading =>
       /\ file_pos = hps_pos
       /\ \A i \in 1..Len(field) : field[i] = file[file_pos - Len(field) + i]
       /\ state = "RIFF" => /\ file_pos = Len(field)
                            /\ \A i \in 1..Len(field) : file[i] \in Letters("RIFF")[i]
       /\ state # "RIFF" => Matches(file, 0, "RIFF")
       /\ state = "RIFF_LEN" => file_pos = 4 + Len(field)
       /\ state \notin {"RIFF", "RIFF_LEN"} =>
             Value(Field(file, 4)) \in 4..MaxRiffLen /\ riff_limit = RiffEnd(file)
       /\ state = "FORM" => /\ file_pos = 8 + Len(field)
                            /\ \A i \in 1..Len(field) : file[8 + i] \in Letters("FORM")[i]
       /\ state \notin Header =>
             Matches(file, 8, "FORM") /\ \E p \in 12..Len(file) : InChunk(p)

(* A field with one byte more is still the last bytes sent. *)
LEMMA FieldGrows ==
    ASSUME NEW n \in Nat, NEW pos \in Nat, NEW f, NEW full, Len(full) = n + 1,
           \A i \in 1..(n + 1) : full[i] = f[pos - n + i]
    PROVE  \A i \in 1..Len(full) : full[i] = f[(pos + 1) - Len(full) + i]
<1>1. ASSUME NEW i \in 1..(n + 1) PROVE full[i] = f[(pos + 1) - (n + 1) + i]
  <2>1. pos - n + i = (pos + 1) - (n + 1) + i
    OBVIOUS
  <2> QED BY <2>1
<1> QED BY <1>1

(* The byte on the port is the next of the file, and completes its field. *)
LEMMA NextFileByte ==
    ASSUME TypeOK, StreamInv, Reading, NEW rb \in BOOLEAN, NEW wr \in BOOLEAN, Edge(rb, wr), wr,
           NEW p, p = ParserPorts(rb, wr)
    PROVE  /\ p.ioctl_dout = file[file_pos + 1] /\ p.ioctl_dout \in Byte
           /\ file_pos + 1 <= Len(file) /\ p.ioctl_addr = file_pos
           /\ hps_pos' = file_pos + 1 /\ file' = file
           /\ field \in Seq(Byte) /\ Len(field) \in 0..3
           /\ Full(p) \in Seq(Byte) /\ Len(Full(p)) = Len(field) + 1
           /\ \A i \in 1..(Len(field) + 1) : Full(p)[i] = file[file_pos - Len(field) + i]
           /\ Len(field) = 3 => Full(p) = Field(file, file_pos - 3)
<1>1. SendByte
  BY DEF Edge
<1>2. hps_pos < Len(file) /\ hps_pos' = hps_pos + 1 /\ file' = file
  BY <1>1 DEF SendByte
<1>3. /\ p.ioctl_dout = file[hps_pos + 1] /\ p.ioctl_dout \in Byte /\ p.ioctl_addr = hps_pos
  BY <1>2, ParserPortsAre
<1>4. file_pos = hps_pos /\ \A i \in 1..Len(field) : field[i] = file[file_pos - Len(field) + i]
  BY DEF StreamInv
<1>5. field \in Seq(Byte) /\ Len(field) \in 0..3 /\ file_pos \in Nat /\ Len(file) \in Nat
  <2>1. field \in Seq(Byte) /\ Len(field) <= 3 /\ file_pos \in Nat
    BY DEF TypeOK, ParserTypeOK
  <2>2. Len(field) \in Nat
    BY <2>1
  <2>3. Len(file) \in Nat
    BY FileType
  <2>4. Len(field) \in 0..3
    <3>1. PICK k \in Nat : k = Len(field)
      BY <2>2
    <3>2. k <= 3
      BY <2>1, <3>1
    <3>3. k \in 0..3
      BY <3>2
    <3> QED BY <3>1, <3>3, Zenon
  <2> QED BY <2>1, <2>3, <2>4, Zenon
<1> DEFINE d == p.ioctl_dout
<1>6. d \in Byte /\ d = file[file_pos + 1]
  BY <1>3, <1>4
<1> HIDE DEF d
<1>7. /\ Append(field, d) \in Seq(Byte) /\ Len(Append(field, d)) = Len(field) + 1
      /\ \A i \in 1..Len(field) : Append(field, d)[i] = field[i]
      /\ Append(field, d)[Len(field) + 1] = d
  BY <1>5, <1>6, Appended
<1>8. ASSUME NEW i \in 1..(Len(field) + 1)
      PROVE  Append(field, d)[i] = file[file_pos - Len(field) + i]
  <2>1. CASE i = Len(field) + 1
    <3>1. file_pos - Len(field) + (Len(field) + 1) = file_pos + 1
      BY <1>5
    <3> QED BY <1>6, <1>7, <2>1, <3>1
  <2>2. CASE i # Len(field) + 1
    <3>1. i \in 1..Len(field)
      BY <1>5, <2>2
    <3> QED BY <1>4, <1>7, <3>1
  <2> QED BY <2>1, <2>2
<1>9. Len(field) = 3 => Append(field, d) = Field(file, file_pos - 3)
  <2>1. SUFFICES ASSUME Len(field) = 3 PROVE Append(field, d) = Field(file, file_pos - 3)
    OBVIOUS
  <2>2. Append(field, d) = <<field[1], field[2], field[3], d>>
    BY <1>5, <1>6, <2>1, FourBytes
  <2>3. /\ field[1] = file[file_pos - 3 + 1] /\ field[2] = file[file_pos - 3 + 2]
        /\ field[3] = file[file_pos - 3 + 3]
    BY <1>4, <2>1
  <2>4. d = file[file_pos - 3 + 4]
    <3>1. file_pos - 3 + 4 = file_pos + 1
      BY <1>5
    <3> QED BY <1>6, <3>1
  <2> QED BY <2>2, <2>3, <2>4 DEF Field
<1>10. Full(p) = Append(field, d)
  BY DEF Full, d
<1>11. /\ p.ioctl_dout = file[file_pos + 1] /\ p.ioctl_dout \in Byte
       /\ file_pos + 1 <= Len(file) /\ p.ioctl_addr = file_pos
       /\ hps_pos' = file_pos + 1 /\ file' = file
  <2>1. file_pos = hps_pos
    BY <1>4
  <2>2. file_pos + 1 <= Len(file)
    BY <1>2, <1>5, <2>1
  <2> QED BY <1>2, <1>3, <2>1, <2>2, Zenon
<1>12. /\ Full(p) \in Seq(Byte) /\ Len(Full(p)) = Len(field) + 1
       /\ \A i \in 1..(Len(field) + 1) : Full(p)[i] = file[file_pos - Len(field) + i]
       /\ Len(field) = 3 => Full(p) = Field(file, file_pos - 3)
  BY <1>7, <1>8, <1>9, <1>10, Zenon
<1> QED BY <1>5, <1>11, <1>12, Zenon

LoadInv == /\ TypeOK /\ ResetInv /\ ServiceInv /\ SessionInv /\ ClearInv /\ WordInv
           /\ StreamInv

LEMMA RegionStep ==
    ASSUME LoadInv, NEW rb \in BOOLEAN, NEW wr \in BOOLEAN, Edge(rb, wr),
           load_active', load_pulse' \in {"none", "commit"}, NEW a \in Addr
    PROVE  Region'[a] = IF ~load_valid /\ load_valid' /\ a = OfferedWord.addr'
                        THEN OfferedWord.data' ELSE Region[a]
<1>1. Region'[a] = Now(a)' /\ Region[a] = Now(a)
  BY DEF Region
<1> QED BY <1>1, NowStep DEF LoadInv

(* A byte is read: what every state of the parser has in common. *)
LEMMA ByteRead ==
    ASSUME LoadInv, NEW rb \in BOOLEAN, NEW wr \in BOOLEAN, Edge(rb, wr), wr, ~rb,
           NEW p, p = ParserPorts(rb, wr), state \in Parsing, ~load_valid, cpr_download,
           Taken(p), TakesByte(p), state' \in Parsing
    PROVE  /\ Reading /\ Reading' /\ load_pulse' = "none" /\ ~AddressGap(p)
           /\ file' = file /\ file_pos' = file_pos + 1 /\ hps_pos' = file_pos'
           /\ file_pos + 1 <= Len(file) /\ file_pos \in Nat /\ Len(file) \in Nat
           /\ \A a \in Addr : Region'[a] = IF load_valid' /\ a = OfferedWord.addr'
                                           THEN OfferedWord.data' ELSE Region[a]
<1> USE DEF LoadInv
<1>1. /\ load_pulse' = "none" /\ p.ioctl_addr = file_pos /\ file_pos' = file_pos + 1
  BY ByteTaken DEF Parsing
<1>2. p.ioctl_addr = hps_pos /\ file_pos \in Nat /\ Len(file) \in Nat
  BY FileType DEF ParserPorts, TypeOK, ParserTypeOK
<1>3. Reading
  BY <1>1, <1>2 DEF Reading, Doomed
<1>4. /\ hps_pos' = file_pos + 1 /\ file' = file /\ file_pos + 1 <= Len(file)
  BY <1>3, NextFileByte
<1>5. Reading'
  BY <1>1, <1>2 DEF Reading, Doomed
<1>6. load_active'
  <2>1. load_pulse = "begin" \/ (load_pulse = "none" /\ load_active /\ ~commit_pending)
    BY DEF SessionInv
  <2> QED BY <2>1, SessionMoves
<1>7. \A a \in Addr : Region'[a] = IF load_valid' /\ a = OfferedWord.addr'
                                   THEN OfferedWord.data' ELSE Region[a]
  BY <1>1, <1>6, RegionStep
<1>8. ~AddressGap(p)
  BY <1>1 DEF AddressGap
<1> QED BY <1>1, <1>2, <1>3, <1>4, <1>5, <1>7, <1>8

(* A chunk, or the signature, ends with the byte. *)
LEMMA ChunkEnds ==
    ASSUME TypeOK, AfterChunk, state' \in Parsing, NEW q \in 12..Len(file), q = file_pos + 1,
           file_pos' = q, file' = file, riff_limit' = riff_limit, field' = <<>>,
           Rest(file, q, has_block', Region')
    PROVE  state' \in {"DONE", "CHUNK_ID"} /\ InChunk(q)'
<1>1. /\ file_pos \in Nat /\ riff_limit \in Nat /\ Position = q
  BY DEF TypeOK, ParserTypeOK, Position
<1>2. \/ state' = "DONE" /\ q = riff_limit
      \/ state' = "CHUNK_ID" /\ q + 8 <= riff_limit
  BY <1>1 DEF AfterChunk, Goto, Fail, Parsing
<1>3. Len(field') = 0
  OBVIOUS
<1>4. Rest(file', q, has_block', Region')
  OBVIOUS
<1> QED BY <1>1, <1>2, <1>3, <1>4 DEF InChunk

(* The signatures and the RIFF length. *)
LEMMA HeaderRead ==
    ASSUME LoadInv, NEW rb \in BOOLEAN, NEW wr \in BOOLEAN, Edge(rb, wr), wr, ~rb,
           NEW p, p = ParserPorts(rb, wr), state \in Header, ~load_valid, cpr_download,
           Taken(p), TakesByte(p), state' \in Parsing
    PROVE  StreamInv'
<1> USE DEF LoadInv
<1>1. /\ Reading /\ Reading' /\ load_pulse' = "none" /\ ~AddressGap(p)
      /\ file' = file /\ file_pos' = file_pos + 1 /\ hps_pos' = file_pos'
      /\ file_pos + 1 <= Len(file) /\ file_pos \in Nat /\ Len(file) \in Nat
      /\ \A a \in Addr : Region'[a] = IF load_valid' /\ a = OfferedWord.addr'
                                      THEN OfferedWord.data' ELSE Region[a]
  BY ByteRead DEF Header, Parsing
<1>n. PICK n \in 0..3 : n = Len(field)
  <2>1. Len(field) \in 0..3
    BY <1>1, NextFileByte
  <2> QED BY <2>1, Zenon
<1>2. /\ p.ioctl_dout = file[file_pos + 1] /\ p.ioctl_dout \in Byte
      /\ Len(Full(p)) = n + 1
      /\ n = 3 => Full(p) = Field(file, file_pos - 3)
  BY <1>1, <1>n, NextFileByte
<1>f. \A i \in 1..Len(Full(p)) : Full(p)[i] = file[(file_pos + 1) - Len(Full(p)) + i]
  <2>1. \A i \in 1..(n + 1) : Full(p)[i] = file[file_pos - n + i]
    BY <1>1, <1>n, NextFileByte
  <2>2. file_pos \in Nat
    BY <1>1, Zenon
  <2>3. PICK q \in Nat : q = file_pos
    BY <2>2
  <2>4. PICK g : g = Full(p)
    OBVIOUS
  <2>5. Len(g) = n + 1 /\ \A i \in 1..(n + 1) : g[i] = file[q - n + i]
    BY <1>2, <2>1, <2>3, <2>4, Zenon
  <2>6. \A i \in 1..Len(g) : g[i] = file[(q + 1) - Len(g) + i]
    <3>1. n \in Nat
      OBVIOUS
    <3> HIDE DEF LoadInv
    <3> QED BY <2>5, <3>1, FieldGrows
  <2> QED BY <2>3, <2>4, <2>6, Zenon
<1>3. /\ has_block = FALSE /\ load_valid = FALSE /\ \A a \in Addr : Region[a] = Zero
  BY DEF StreamInv
<1>4. Signature(p) \/ (state = "RIFF_LEN" /\ Collect(p)) \/ RiffLength(p)
  BY <1>1 DEF TakesByte, Header, Collect, ChunkName, ChunkLength, ChunkData, ChunkPad, Excess,
     LastOf
<1>5. has_block' = FALSE /\ load_valid' = FALSE
  BY <1>3, <1>4 DEF Signature, Collect, RiffLength, Acknowledge
<1>6. \A a \in Addr : Region'[a] = Zero
  BY <1>1, <1>3, <1>5
<1>7. /\ state = "RIFF" => file_pos = n /\ \A i \in 1..n : file[i] \in Letters("RIFF")[i]
      /\ state # "RIFF" => Matches(file, 0, "RIFF")
      /\ state = "RIFF_LEN" => file_pos = 4 + n
      /\ state = "FORM" => Value(Field(file, 4)) \in 4..MaxRiffLen /\ riff_limit = RiffEnd(file)
      /\ state = "FORM" => file_pos = 8 + n /\ \A i \in 1..n : file[8 + i] \in Letters("FORM")[i]
  BY <1>1, <1>n DEF StreamInv
<1>8. CASE Signature(p)
  <2>1. /\ state \in {"RIFF", "FORM"} /\ p.ioctl_dout \in Letters(state)[n + 1]
        /\ riff_limit' = riff_limit
        /\ \/ n < 3 /\ state' = state /\ field' = Full(p)
           \/ ~(n < 3) /\ field' = <<>> /\ state = "RIFF" /\ state' = "RIFF_LEN"
           \/ ~(n < 3) /\ field' = <<>> /\ state = "FORM" /\ AfterChunk
    BY <1>8, <1>n DEF Signature, Full, Goto, Fail, Parsing
  <2>2. CASE n < 3 /\ state' = state /\ field' = Full(p)
    <3>1. /\ Len(field') = n + 1
          /\ \A i \in 1..Len(field') : field'[i] = file'[file_pos' - Len(field') + i]
      BY <1>1, <1>2, <1>f, <2>2
    <3>2. CASE state = "RIFF"
      <4>1. file_pos' = Len(field')
        BY <1>1, <1>2, <1>7, <3>1, <3>2
      <4>2. ASSUME NEW i \in 1..Len(field') PROVE file'[i] \in Letters("RIFF")[i]
        <5>1. i \in 1..n \/ i = n + 1
          BY <1>2, <3>1
        <5> QED BY <1>1, <1>2, <1>7, <2>1, <3>2, <5>1
      <4> QED BY <1>1, <1>5, <1>6, <2>2, <3>1, <3>2, <4>1, <4>2 DEF StreamInv, Header
    <3>3. CASE state = "FORM"
      <4>1. file_pos' = 8 + Len(field')
        BY <1>1, <1>2, <1>7, <3>1, <3>3
      <4>2. ASSUME NEW i \in 1..Len(field') PROVE file'[8 + i] \in Letters("FORM")[i]
        <5>1. i \in 1..n \/ (i = n + 1 /\ 8 + i = file_pos + 1)
          <6>1. Len(field') = n + 1 /\ file_pos = 8 + n
            BY <1>7, <3>1, <3>3, Zenon
          <6>2. i \in 1..(n + 1)
            BY <6>1, Zenon
          <6> QED BY <6>1, <6>2
        <5> QED BY <1>1, <1>2, <1>7, <2>1, <3>3, <5>1
      <4>3. Matches(file', 0, "RIFF") /\ Value(Field(file', 4)) \in 4..MaxRiffLen
            /\ riff_limit' = RiffEnd(file')
        BY <1>1, <1>7, <2>1, <3>3
      <4> QED BY <1>1, <1>5, <1>6, <2>2, <3>1, <3>3, <4>1, <4>2, <4>3 DEF StreamInv, Header
    <3> QED BY <2>1, <3>2, <3>3
  <2>3. CASE ~(n < 3) /\ field' = <<>> /\ state = "RIFF" /\ state' = "RIFF_LEN"
    <3>1. n = 3 /\ file_pos = 3 /\ Len(field') = 0
      BY <1>2, <1>7, <2>3
    <3>2. Matches(file', 0, "RIFF")
      <4>1. ASSUME NEW i \in 1..4 PROVE file[0 + i] \in Letters("RIFF")[i]
        <5>1. i \in 1..3 \/ i = 4
          OBVIOUS
        <5>2. file[4] \in Letters("RIFF")[4]
          <6>1. n + 1 = 4 /\ file_pos + 1 = 4
            BY <3>1
          <6> QED BY <1>2, <2>1, <2>3, <6>1
        <5>3. 0 + i = i
          OBVIOUS
        <5> QED BY <1>7, <2>3, <3>1, <5>1, <5>2, <5>3
      <4> QED BY <1>1, <4>1 DEF Matches
    <3>3. file_pos' = 4 + Len(field')
      BY <1>1, <3>1
    <3>4. \A i \in 1..Len(field') : FALSE
      BY <3>1
    <3> QED BY <1>1, <1>5, <1>6, <2>3, <3>2, <3>3, <3>4 DEF StreamInv, Header
  <2>4. CASE ~(n < 3) /\ field' = <<>> /\ state = "FORM" /\ AfterChunk
    <3>1. n = 3 /\ file_pos = 11 /\ Len(field') = 0
      <4>1. n = 3
        <5>1. ~(n < 3)
          BY <2>4
        <5> QED BY <5>1
      <4>2. file_pos = 8 + n
        BY <1>7, <2>4
      <4>3. Len(field') = 0
        BY <2>4
      <4> QED BY <4>1, <4>2, <4>3
    <3>2. Matches(file', 8, "FORM")
      <4>1. ASSUME NEW i \in 1..4 PROVE file[8 + i] \in Letters("FORM")[i]
        <5>1. i \in 1..3 \/ i = 4
          OBVIOUS
        <5>2. file[12] \in Letters("FORM")[4]
          <6>1. n + 1 = 4 /\ file_pos + 1 = 12
            BY <3>1
          <6> QED BY <1>2, <2>1, <2>4, <6>1
        <5> QED BY <1>7, <2>4, <3>1, <5>1, <5>2
      <4> QED BY <1>1, <4>1 DEF Matches
    <3>3. Rest(file, 12, has_block', Region')
      BY <1>5, <1>6, RestStarts
    <3>4. 12 \in 12..Len(file) /\ 12 = file_pos + 1 /\ file_pos' = 12
      BY <1>1, <3>1
    <3>5. state' \in {"DONE", "CHUNK_ID"} /\ InChunk(12)'
      BY <1>1, <2>1, <2>4, <3>3, <3>4, ChunkEnds
    <3>6. Matches(file', 0, "RIFF") /\ Value(Field(file', 4)) \in 4..MaxRiffLen
          /\ riff_limit' = RiffEnd(file')
      BY <1>1, <1>7, <2>1, <2>4
    <3>7. \E x \in 12..Len(file') : InChunk(x)'
      BY <1>1, <3>4, <3>5
    <3>8. \A i \in 1..Len(field') : FALSE
      BY <3>1
    <3>9. state' \notin Header
      BY <3>5 DEF Header
    <3> QED BY <1>1, <3>2, <3>6, <3>7, <3>8, <3>9 DEF StreamInv, Header
  <2> QED BY <2>1, <2>2, <2>3, <2>4
<1>9. CASE state = "RIFF_LEN" /\ Collect(p)
  <2>1. n < 3 /\ state' = "RIFF_LEN" /\ field' = Full(p)
    BY <1>9, <1>n DEF Collect, Full, Goto
  <2>2. /\ Len(field') = n + 1
        /\ \A i \in 1..Len(field') : field'[i] = file'[file_pos' - Len(field') + i]
    BY <1>1, <1>2, <1>f, <2>1
  <2>3. file_pos' = 4 + Len(field')
    BY <1>1, <1>2, <1>7, <1>9, <2>2
  <2>4. Matches(file', 0, "RIFF")
    BY <1>1, <1>7, <1>9
  <2> QED BY <1>1, <1>5, <1>6, <2>1, <2>2, <2>3, <2>4 DEF StreamInv, Header
<1>10. CASE RiffLength(p)
  <2>1. /\ n = 3 /\ state = "RIFF_LEN" /\ state' = "FORM" /\ field' = <<>>
        /\ Value(Full(p)) \in 4..MaxRiffLen /\ riff_limit' = Value(Full(p)) + 8
    BY <1>10, <1>n DEF RiffLength, LastOf, Goto, Fail, Parsing
  <2>2. file_pos = 7 /\ Len(field') = 0
    BY <1>7, <2>1
  <2>3. Full(p) = Field(file', 4)
    <3>1. file_pos - 3 = 4
      BY <2>2
    <3> QED BY <1>1, <1>2, <2>1, <3>1
  <2>4. Value(Field(file', 4)) \in 4..MaxRiffLen /\ riff_limit' = RiffEnd(file')
    BY <2>1, <2>3 DEF RiffEnd
  <2>5. file_pos' = 8 + Len(field') /\ Matches(file', 0, "RIFF")
    BY <1>1, <1>7, <2>1, <2>2
  <2>6. \A i \in 1..Len(field') : FALSE
    BY <2>2
  <2> QED BY <1>1, <1>5, <1>6, <2>1, <2>4, <2>5, <2>6 DEF StreamInv, Header
<1> QED BY <1>4, <1>8, <1>9, <1>10

(* An edge that changes no byte of the region. *)
LEMMA RestSame ==
    ASSUME NEW f, NEW p, NEW some, NEW now, NEW now2, Rest(f, p, some, now),
           \A a \in Addr : now2[a] = now[a]
    PROVE  Rest(f, p, some, now2)
  BY DEF Rest

(* What is known of the file goes on beyond the header. *)
LEMMA StreamOn ==
    ASSUME StreamInv, Reading, state \in Parsing \ Header, state' \in Parsing \ Header,
           file' = file, riff_limit' = riff_limit, hps_pos' = file_pos',
           \A i \in 1..Len(field') : field'[i] = file[file_pos' - Len(field') + i],
           NEW q \in 12..Len(file), InChunk(q)'
    PROVE  StreamInv'
<1>1. /\ Matches(file, 0, "RIFF") /\ Matches(file, 8, "FORM")
      /\ Value(Field(file, 4)) \in 4..MaxRiffLen /\ riff_limit = RiffEnd(file)
  BY DEF StreamInv, Header
<1>2. /\ Matches(file', 0, "RIFF") /\ Matches(file', 8, "FORM")
      /\ Value(Field(file', 4)) \in 4..MaxRiffLen /\ riff_limit' = RiffEnd(file')
  BY <1>1
<1>3. \E x \in 12..Len(file') : InChunk(x)'
  OBVIOUS
<1> QED BY <1>2, <1>3 DEF StreamInv, Header

(* The name and the length of a chunk. *)
LEMMA ChunkHeadRead ==
    ASSUME LoadInv, NEW rb \in BOOLEAN, NEW wr \in BOOLEAN, Edge(rb, wr), wr, ~rb,
           NEW in, in = ParserPorts(rb, wr), state \in {"CHUNK_ID", "CHUNK_LEN"},
           ~load_valid, cpr_download, Taken(in), TakesByte(in), state' \in Parsing
    PROVE  StreamInv'
<1> USE DEF LoadInv
<1>1. /\ Reading /\ Reading' /\ ~AddressGap(in)
      /\ file' = file /\ file_pos' = file_pos + 1 /\ hps_pos' = file_pos'
      /\ file_pos + 1 <= Len(file) /\ file_pos \in Nat /\ Len(file) \in Nat
      /\ \A a \in Addr : Region'[a] = IF load_valid' /\ a = OfferedWord.addr'
                                      THEN OfferedWord.data' ELSE Region[a]
  BY ByteRead DEF Parsing
<1>n. PICK n \in 0..3 : n = Len(field)
  <2>1. Len(field) \in 0..3
    BY <1>1, NextFileByte
  <2> QED BY <2>1, Zenon
<1>2. /\ Len(Full(in)) = n + 1
      /\ \A i \in 1..(n + 1) : Full(in)[i] = file[file_pos - n + i]
      /\ n = 3 => Full(in) = Field(file, file_pos - 3)
  BY <1>1, <1>n, NextFileByte
<1>3. PICK p \in 12..Len(file) : InChunk(p)
  BY <1>1 DEF StreamInv, Header
<1>4. /\ Rest(file, p, has_block, Region) /\ p + 8 <= riff_limit
      /\ state = "CHUNK_ID" => file_pos = p + n
      /\ state = "CHUNK_LEN" => file_pos = p + 4 + n /\ Named(p)
  BY <1>3, <1>n DEF InChunk
<1>5. /\ chunk \in [page : 0..LastPage, block : BOOLEAN, len : Nat, read : Nat]
      /\ riff_limit \in Nat /\ file \in Seq(Byte) /\ p \in Nat
  BY <1>3, FileType DEF TypeOK, ParserTypeOK
<1>6. Collect(in) \/ ChunkName(in) \/ ChunkLength(in)
  BY <1>1 DEF TakesByte, Signature, RiffLength, ChunkData, ChunkPad, Excess, LastOf
<1>7. riff_limit' = riff_limit /\ has_block' = has_block /\ load_valid' = FALSE
  BY <1>6 DEF Collect, ChunkName, ChunkLength, Acknowledge
<1>8. Rest(file, p, has_block', Region')
  <2>1. \A a \in Addr : Region'[a] = Region[a]
    BY <1>1, <1>7
  <2>2. Rest(file, p, has_block, Region')
    BY <1>4, <2>1, RestSame
  <2> QED BY <1>7, <2>2
<1>9. CASE Collect(in)
  <2>1. n < 3 /\ state' = state /\ field' = Full(in) /\ chunk' = chunk
    BY <1>9, <1>n DEF Collect, Full, Goto
  <2>2. /\ Len(field') = n + 1
        /\ \A i \in 1..Len(field') : field'[i] = file[file_pos' - Len(field') + i]
    <3>1. file_pos \in Nat
      BY <1>1, Zenon
    <3>2. PICK q \in Nat : q = file_pos
      BY <3>1
    <3>3. PICK g : g = Full(in)
      OBVIOUS
    <3>4. Len(g) = n + 1 /\ \A i \in 1..(n + 1) : g[i] = file[q - n + i]
      BY <1>2, <3>2, <3>3, Zenon
    <3>5. \A i \in 1..Len(g) : g[i] = file[(q + 1) - Len(g) + i]
      <4>1. n \in Nat
        OBVIOUS
      <4> HIDE DEF LoadInv
      <4> QED BY <3>4, <4>1, FieldGrows
    <3>6. field' = g /\ file_pos' = q + 1
      BY <1>1, <2>1, <3>2, <3>3, Zenon
    <3> QED BY <3>4, <3>5, <3>6, Zenon
  <2>3. state = "CHUNK_LEN" => Named(p)'
    BY <1>1, <1>4, <2>1 DEF Named
  <2>4. /\ state = "CHUNK_ID" => file_pos' = p + Len(field')
        /\ state = "CHUNK_LEN" => file_pos' = p + 4 + Len(field')
    <3>1. /\ state = "CHUNK_ID" => file_pos' = p + (n + 1)
          /\ state = "CHUNK_LEN" => file_pos' = p + 4 + (n + 1)
      BY <1>1, <1>4, <1>5
    <3>2. Len(field') = n + 1
      BY <2>2, Zenon
    <3> QED BY <3>1, <3>2, Zenon
  <2>5. Rest(file', p, has_block', Region') /\ p + 8 <= riff_limit'
    BY <1>1, <1>4, <1>7, <1>8
  <2>6. InChunk(p)'
    BY <2>1, <2>3, <2>4, <2>5 DEF InChunk
  <2> QED BY <1>1, <1>3, <1>7, <2>1, <2>2, <2>6, StreamOn DEF Header, Parsing
<1>10. CASE ChunkName(in)
  <2>1. /\ n = 3 /\ state = "CHUNK_ID" /\ state' = "CHUNK_LEN" /\ field' = <<>>
        /\ BlockId(Full(in)) => ValidPage(Full(in))
        /\ chunk' = IF BlockId(Full(in))
                    THEN [chunk EXCEPT !.block = TRUE, !.page = PageOf(Full(in))]
                    ELSE [chunk EXCEPT !.block = FALSE]
    BY <1>10, <1>n DEF ChunkName, LastOf, Goto, Fail, Parsing
  <2>2. file_pos = p + 3 /\ Len(field') = 0 /\ file_pos - 3 = p
    BY <1>4, <1>5, <2>1
  <2>3. Full(in) = Field(file, p)
    BY <1>2, <2>1, <2>2
  <2>4. Named(p)'
    <3>1. /\ chunk'.block = BlockId(Field(file, p))
          /\ chunk'.block => ValidPage(Field(file, p)) /\ chunk'.page = PageOf(Field(file, p))
      <4>1. CASE BlockId(Full(in))
        <5>1. chunk'.block = TRUE /\ chunk'.page = PageOf(Full(in))
          BY <1>5, <2>1, <4>1
        <5>2. BlockId(Field(file, p)) = TRUE
          BY <2>3, <4>1 DEF BlockId
        <5> QED BY <2>1, <2>3, <4>1, <5>1, <5>2
      <4>2. CASE ~BlockId(Full(in))
        <5>1. chunk'.block = FALSE
          BY <1>5, <2>1, <4>2
        <5>2. BlockId(Field(file, p)) = FALSE
          BY <2>3, <4>2 DEF BlockId
        <5> QED BY <5>1, <5>2
      <4> QED BY <4>1, <4>2
    <3> QED BY <1>1, <3>1 DEF Named
  <2>5. file_pos' = p + 4 + Len(field')
    BY <1>1, <1>5, <2>2
  <2>6. Rest(file', p, has_block', Region') /\ p + 8 <= riff_limit'
    BY <1>1, <1>4, <1>7, <1>8
  <2>7. InChunk(p)'
    BY <2>1, <2>4, <2>5, <2>6 DEF InChunk
  <2>8. \A i \in 1..Len(field') : field'[i] = file[file_pos' - Len(field') + i]
    BY <2>2
  <2> QED BY <1>1, <1>3, <1>7, <2>1, <2>7, <2>8, StreamOn DEF Header, Parsing
<1>11. CASE ChunkLength(in)
  <2> DEFINE len == Value(Full(in))
  <2>1. /\ n = 3 /\ state = "CHUNK_LEN" /\ field' = <<>>
        /\ Fits(len) /\ chunk' = [chunk EXCEPT !.len = len, !.read = 0]
        /\ IF len = 0 THEN AfterChunk ELSE state' = "CHUNK_DATA"
    BY <1>11, <1>n DEF ChunkLength, LastOf, Goto, Fail, Parsing
  <2>2. file_pos = p + 7 /\ Len(field') = 0 /\ file_pos - 3 = p + 4 /\ p + 8 <= Len(file)
    BY <1>1, <1>4, <1>5, <2>1
  <2>3. len = Length(file, p) /\ len \in Nat /\ len % 2 \in {0, 1}
    <3>1. len = Length(file, p)
      BY <1>2, <2>1, <2>2 DEF Length
    <3>2. Length(file, p) \in Nat /\ Length(file, p) % 2 \in {0, 1}
      BY <1>5, <2>2, LengthType
    <3> QED BY <3>1, <3>2
  <2> HIDE DEF len
  <2>4. /\ chunk'.block = chunk.block /\ chunk'.page = chunk.page
        /\ chunk'.len = len /\ chunk'.read = 0
    BY <1>5, <2>1
  <2>5. NextChunk(file, p) = p + 8 + len + (len % 2) /\ NextChunk(file, p) <= riff_limit
    <3>1. Position = p + 8
      BY <1>5, <2>2 DEF Position
    <3> QED BY <2>1, <2>3, <3>1 DEF Fits, NextChunk
  <2>6. Named(p) /\ riff_limit = RiffEnd(file)
    BY <1>1, <1>4, <2>1 DEF StreamInv
  <2>7. Sound(file, p)
    <3>1. BlockId(Field(file, p)) => ValidPage(Field(file, p)) /\ len <= PageBytes
      <4>1. BlockId(Field(file, p)) => chunk.block
        BY <2>6 DEF Named
      <4> QED BY <2>1, <2>3, <2>6, <4>1, ParserAssumption DEF Fits, Named
    <3> QED BY <1>4, <1>5, <2>2, <2>3, <2>5, <2>6, <3>1 DEF Sound
  <2>8. CASE len = 0
    <3>1. NextChunk(file, p) = p + 8 /\ NextChunk(file, p) = file_pos + 1
      BY <1>5, <2>2, <2>5, <2>8
    <3>2. NextChunk(file, p) <= Len(file)
      BY <2>2, <3>1
    <3>3. \A i \in 0..(Length(file, p) - 1) : FALSE
      BY <2>3, <2>8
    <3>4. /\ NextChunk(file, p) \in 12..Len(file)
          /\ Rest(file, NextChunk(file, p), has_block', Region')
      BY <1>5, <1>8, <2>7, <3>2, <3>3, RestOfNext
    <3>5. PICK q \in 12..Len(file) : q = NextChunk(file, p)
      BY <3>4
    <3>6. state' \in {"DONE", "CHUNK_ID"} /\ InChunk(q)'
      BY <1>1, <1>7, <2>1, <2>8, <3>1, <3>4, <3>5, ChunkEnds
    <3>7. \A i \in 1..Len(field') : field'[i] = file[file_pos' - Len(field') + i]
      BY <2>2
    <3> QED BY <1>1, <1>7, <3>6, <3>7, StreamOn DEF Header, Parsing
  <2>9. CASE len # 0
    <3>1. state' = "CHUNK_DATA"
      BY <2>1, <2>9
    <3>2. file_pos' = p + 8 + chunk'.read /\ chunk'.read < chunk'.len
      BY <1>1, <1>5, <2>2, <2>3, <2>4, <2>9
    <3>3. Sized(p)'
      <4>1. Named(p)'
        BY <1>1, <2>4, <2>6 DEF Named
      <4>2. \A i \in 0..(chunk'.read - 1) : FALSE
        BY <2>4
      <4> QED BY <1>1, <2>3, <2>4, <2>7, <4>1, <4>2 DEF Sized
    <3>4. Rest(file', p, has_block', Region') /\ p + 8 <= riff_limit'
      BY <1>1, <1>4, <1>7, <1>8
    <3>5. InChunk(p)'
      BY <2>1, <3>1, <3>2, <3>3, <3>4 DEF InChunk
    <3>6. \A i \in 1..Len(field') : field'[i] = file[file_pos' - Len(field') + i]
      BY <2>2
    <3> QED BY <1>1, <1>3, <1>7, <3>1, <3>5, <3>6, StreamOn DEF Header, Parsing
  <2> QED BY <2>8, <2>9
<1> QED BY <1>6, <1>9, <1>10, <1>11

(* The bytes of a chunk. *)
LEMMA ChunkBytesRead ==
    ASSUME LoadInv, NEW rb \in BOOLEAN, NEW wr \in BOOLEAN, Edge(rb, wr), wr, ~rb,
           NEW in, in = ParserPorts(rb, wr), state \in {"CHUNK_DATA", "CHUNK_PAD", "DONE"},
           ~load_valid, cpr_download, Taken(in), TakesByte(in), state' \in Parsing
    PROVE  StreamInv'
<1> USE DEF LoadInv
<1>1. /\ Reading /\ Reading' /\ ~AddressGap(in)
      /\ file' = file /\ file_pos' = file_pos + 1 /\ hps_pos' = file_pos'
      /\ file_pos + 1 <= Len(file) /\ file_pos \in Nat /\ Len(file) \in Nat
      /\ \A a \in Addr : Region'[a] = IF load_valid' /\ a = OfferedWord.addr'
                                      THEN OfferedWord.data' ELSE Region[a]
  BY ByteRead DEF Parsing
<1>2. in.ioctl_dout = file[file_pos + 1]
  BY <1>1, NextFileByte
<1>3. PICK p \in 12..Len(file) : InChunk(p)
  BY <1>1 DEF StreamInv, Header
<1>4. ChunkData(in) \/ ChunkPad(in)
  BY <1>1 DEF TakesByte, Signature, Collect, RiffLength, ChunkName, ChunkLength, Excess, LastOf,
     Fail, Parsing
<1>5. /\ Rest(file, p, has_block, Region) /\ p + 8 <= riff_limit
      /\ file_pos = p + 8 + chunk.read /\ Sized(p) /\ field = <<>>
      /\ state = "CHUNK_DATA" => chunk.read < chunk.len
      /\ state = "CHUNK_PAD" => chunk.read = chunk.len /\ chunk.len % 2 = 1
  BY <1>3, <1>4 DEF InChunk, ChunkData, ChunkPad
<1>6. /\ chunk \in [page : 0..LastPage, block : BOOLEAN, len : Nat, read : Nat]
      /\ riff_limit \in Nat /\ file \in Seq(Byte) /\ p \in Nat
  BY <1>3, FileType DEF TypeOK, ParserTypeOK
<1>7. PICK r \in Nat, l \in Nat : r = chunk.read /\ l = chunk.len
  BY <1>6
<1>8. /\ Named(p) /\ Sound(file, p) /\ l = Length(file, p)
      /\ chunk.block => \A i \in 0..(r - 1) :
            Region[chunk.page * PageBytes + i] = file[p + 9 + i]
      /\ NextChunk(file, p) = p + 8 + l + (l % 2)
  BY <1>5, <1>7 DEF Sized, NextChunk
<1>b. chunk.block => /\ BlockId(Field(file, p)) /\ chunk.page = PageOf(Field(file, p))
                     /\ l <= PageBytes /\ chunk.page * PageBytes \in Nat
                     /\ \A i \in 0..(l - 1) : chunk.page * PageBytes + i \in Addr
  <2>1. ASSUME chunk.block
        PROVE  BlockId(Field(file, p)) /\ chunk.page = PageOf(Field(file, p))
    BY <1>8, <2>1 DEF Named
  <2>2. ASSUME BlockId(Field(file, p))
        PROVE  /\ l <= PageBytes /\ PageOf(Field(file, p)) * PageBytes \in Nat
               /\ \A i \in 0..(l - 1) : PageOf(Field(file, p)) * PageBytes + i \in Addr
    <3>1. Length(file, p) <= PageBytes
      BY <1>8, <2>2 DEF Sound
    <3>2. Sound(file, p) /\ file \in Seq(Byte) /\ l = Length(file, p)
      BY <1>6, <1>8, Zenon
    <3>3. /\ PageOf(Field(file, p)) * PageBytes \in Nat
          /\ \A i \in 0..(Length(file, p) - 1) : PageOf(Field(file, p)) * PageBytes + i \in Addr
      BY <2>2, <3>2, BlockBase
    <3> QED BY <3>1, <3>2, <3>3, Zenon
  <2> QED BY <2>1, <2>2, Zenon
<1>9. riff_limit' = riff_limit /\ field' = <<>> /\ Len(field') = 0
      /\ chunk'.page = chunk.page /\ chunk'.block = chunk.block /\ chunk'.len = l
  BY <1>4, <1>5, <1>6, <1>7 DEF ChunkData, ChunkPad
<1>10. \A i \in 1..Len(field') : field'[i] = file[file_pos' - Len(field') + i]
  BY <1>9
<1>11. Named(p)'
  BY <1>1, <1>8, <1>9 DEF Named
<1>12. ASSUME NEW q \in 12..Len(file), state' \in {"CHUNK_ID", "DONE", "CHUNK_DATA", "CHUNK_PAD"},
              InChunk(q)'
       PROVE  StreamInv'
  BY <1>1, <1>9, <1>10, <1>12, StreamOn DEF Header, Parsing
<1>13. ASSUME AfterChunk, NextChunk(file, p) = file_pos + 1, Rest(file, p, has_block', Region'),
              chunk.block => \A i \in 0..(l - 1) :
                 Region'[chunk.page * PageBytes + i] = file[p + 9 + i]
       PROVE  StreamInv'
  <2>1. BlockId(Field(file, p)) => chunk.block /\ chunk.page = PageOf(Field(file, p))
    BY <1>8 DEF Named
  <2>2. BlockId(Field(file, p)) => \A i \in 0..(Length(file, p) - 1) :
            Region'[PageOf(Field(file, p)) * PageBytes + i] = file[p + 9 + i]
    BY <1>8, <1>13, <2>1
  <2>3. NextChunk(file, p) <= Len(file)
    BY <1>1, <1>13
  <2>4. /\ NextChunk(file, p) \in 12..Len(file)
        /\ Rest(file, NextChunk(file, p), has_block', Region')
    BY <1>6, <1>8, <1>13, <2>2, <2>3, RestOfNext
  <2>5. PICK q \in 12..Len(file) : q = NextChunk(file, p)
    BY <2>4
  <2>6. state' \in {"DONE", "CHUNK_ID"} /\ InChunk(q)'
    BY <1>1, <1>9, <1>13, <2>4, <2>5, ChunkEnds
  <2> QED BY <1>12, <2>6
<1>14. CASE ChunkPad(in)
  <2>1. /\ r = l /\ l % 2 = 1 /\ AfterChunk /\ load_valid' = FALSE /\ has_block' = has_block
    BY <1>5, <1>7, <1>14 DEF ChunkPad, Acknowledge
  <2>2. \A a \in Addr : Region'[a] = Region[a]
    BY <1>1, <2>1
  <2>3. Rest(file, p, has_block', Region')
    BY <1>5, <2>1, <2>2, RestSame
  <2>4. NextChunk(file, p) = file_pos + 1
    BY <1>5, <1>6, <1>7, <1>8, <2>1
  <2>5. ASSUME chunk.block, NEW i \in 0..(l - 1)
        PROVE  Region'[chunk.page * PageBytes + i] = file[p + 9 + i]
    <3>1. chunk.page * PageBytes + i \in Addr
      BY <1>b, <2>5, Zenon
    <3>2. r = l /\ Region'[chunk.page * PageBytes + i] = Region[chunk.page * PageBytes + i]
      BY <2>1, <2>2, <3>1, Zenon
    <3> QED BY <1>8, <2>5, <3>2
  <2> QED BY <1>13, <2>1, <2>3, <2>4, <2>5
<1>15. CASE ChunkData(in)
  <2>1. /\ r < l /\ chunk'.read = r + 1 /\ file_pos = p + 8 + r
    BY <1>5, <1>6, <1>7, <1>15 DEF ChunkData
  <2>2. \/ r + 1 < l /\ state' = "CHUNK_DATA"
        \/ ~(r + 1 < l) /\ l % 2 = 1 /\ state' = "CHUNK_PAD"
        \/ ~(r + 1 < l) /\ l % 2 # 1 /\ AfterChunk
    BY <1>7, <1>15 DEF ChunkData, Goto
  <2>3. /\ Rest(file, p, has_block', Region')
        /\ chunk.block => \A i \in 0..r :
              Region'[chunk.page * PageBytes + i] = file[p + 9 + i]
    <3>1. CASE chunk.block
      <4>1. /\ BlockId(Field(file, p)) /\ chunk.page = PageOf(Field(file, p))
            /\ l <= PageBytes
        BY <1>b, <3>1, Zenon
      <4>2. r < PageBytes
        BY <1>6, <2>1, <4>1, ParserAssumption
      <4>3. /\ load_valid' = TRUE /\ has_block' = TRUE
            /\ load_out' = [page |-> chunk.page, offset |-> r, data |-> in.ioctl_dout]
        BY <1>7, <1>15, <3>1, <4>2 DEF ChunkData
      <4>4. ~(chunk.page > LastPage \/ r >= PageBytes)
        <5>1. PICK page \in 0..LastPage : page = chunk.page
          BY <1>6
        <5>2. LastPage \in Nat /\ PageBytes \in Nat
          BY ParserAssumption
        <5> QED BY <4>2, <5>1, <5>2
      <4>5. OfferedWord' = [wide |-> FALSE, data |-> in.ioctl_dout,
                            addr |-> chunk.page * PageBytes + r]
        <5>1. /\ load_out'.page = chunk.page /\ load_out'.offset = r
              /\ load_out'.data = in.ioctl_dout
          BY <4>3
        <5>2. ~(load_out'.page > LastPage \/ load_out'.offset >= PageBytes)
          BY <4>4, <5>1, Zenon
        <5>3. (load_out'.page > LastPage \/ load_out'.offset >= PageBytes) = FALSE
          BY <5>2
        <5> QED BY <5>1, <5>3 DEF OfferedWord
      <4>6. OfferedWord.addr' = chunk.page * PageBytes + r /\ OfferedWord.data' = file[p + 9 + r]
        <5>1. file_pos + 1 = p + 9 + r
          BY <1>6, <2>1
        <5> QED BY <1>2, <4>5, <5>1
      <4>7. \A a \in Addr : Region'[a] = IF a = chunk.page * PageBytes + r
                                         THEN file[p + 9 + r] ELSE Region[a]
        BY <1>1, <4>3, <4>6
      <4>8. /\ chunk.page * PageBytes \in Nat
            /\ \A i \in 0..(l - 1) : chunk.page * PageBytes + i \in Addr
        BY <1>b, <3>1, Zenon
      <4>9. PICK b \in Nat : b = chunk.page * PageBytes
        BY <4>8
      <4>10. Rest(file, p, TRUE, Region')
        <5>1. r \in 0..(Length(file, p) - 1)
          BY <1>8, <2>1
        <5>2. \A a \in Addr : a # PageOf(Field(file, p)) * PageBytes + r => Region'[a] = Region[a]
          <6>1. PICK a0 : a0 = chunk.page * PageBytes + r
            OBVIOUS
          <6>2. \A a \in Addr : a # a0 => Region'[a] = Region[a]
            BY <4>7, <6>1, Zenon
          <6>3. a0 = PageOf(Field(file, p)) * PageBytes + r
            BY <4>1, <6>1, Zenon
          <6> QED BY <6>2, <6>3, Zenon
        <5>3. Rest(file, p, has_block, Region) /\ Sound(file, p) /\ file \in Seq(Byte)
              /\ BlockId(Field(file, p)) /\ p \in 12..Len(file)
          BY <1>3, <1>5, <1>6, <1>8, <4>1, Zenon
        <5> HIDE DEF LoadInv
        <5> QED BY <5>1, <5>2, <5>3, RestWritten
      <4>11. ASSUME NEW i \in 0..r PROVE Region'[b + i] = file[p + 9 + i]
        <5>1. b + i \in Addr
          BY <2>1, <4>8, <4>9
        <5>2. CASE i = r
          BY <4>7, <4>9, <5>1, <5>2
        <5>3. CASE i # r
          <6>1. i \in 0..(r - 1) /\ b + i # b + r
            BY <5>3
          <6>2. Region[b + i] = file[p + 9 + i]
            BY <1>8, <3>1, <4>9, <6>1
          <6> QED BY <4>7, <4>9, <5>1, <6>1, <6>2
        <5> QED BY <5>2, <5>3
      <4> QED BY <4>3, <4>9, <4>10, <4>11
    <3>2. CASE ~chunk.block
      <4>1. load_valid' = FALSE /\ has_block' = has_block
        BY <1>15, <3>2 DEF ChunkData, Acknowledge
      <4>2. \A a \in Addr : Region'[a] = Region[a]
        BY <1>1, <4>1
      <4>3. Rest(file, p, has_block, Region')
        BY <1>5, <4>2, RestSame
      <4> QED BY <3>2, <4>1, <4>3
    <3> QED BY <1>6, <3>1, <3>2
  <2>4. ASSUME state' \in {"CHUNK_DATA", "CHUNK_PAD"},
               state' = "CHUNK_DATA" => r + 1 < l,
               state' = "CHUNK_PAD" => r + 1 = l /\ l % 2 = 1
        PROVE  StreamInv'
    <3>1. file_pos' = p + 8 + chunk'.read
      BY <1>1, <1>6, <2>1
    <3>2. Sized(p)'
      <4>1. chunk'.block => \A i \in 0..(chunk'.read - 1) :
                 Region'[chunk'.page * PageBytes + i] = file'[p + 9 + i]
        <5>1. chunk'.read - 1 = r
          BY <2>1
        <5> QED BY <1>1, <1>9, <2>3, <5>1
      <4>2. Sound(file', p) /\ chunk'.len = Length(file', p)
        BY <1>1, <1>8, <1>9
      <4> QED BY <1>11, <4>1, <4>2 DEF Sized
    <3>3. Rest(file', p, has_block', Region') /\ p + 8 <= riff_limit'
      BY <1>1, <1>5, <1>9, <2>3
    <3>4. /\ state' = "CHUNK_DATA" => chunk'.read < chunk'.len
          /\ state' = "CHUNK_PAD" => chunk'.read = chunk'.len /\ chunk'.len % 2 = 1
      BY <1>9, <2>1, <2>4
    <3>5. InChunk(p)'
      BY <1>9, <2>4, <3>1, <3>2, <3>3, <3>4 DEF InChunk
    <3> QED BY <1>3, <1>12, <2>4, <3>5
  <2>5. CASE r + 1 < l /\ state' = "CHUNK_DATA"
    BY <2>4, <2>5
  <2>6. CASE ~(r + 1 < l) /\ l % 2 = 1 /\ state' = "CHUNK_PAD"
    <3>1. r + 1 = l
      BY <2>1, <2>6
    <3> QED BY <2>4, <2>6, <3>1
  <2>7. CASE ~(r + 1 < l) /\ l % 2 # 1 /\ AfterChunk
    <3>1. l % 2 = 0 /\ r + 1 = l
      BY <2>1, <2>7
    <3>2. NextChunk(file, p) = file_pos + 1
      <4>1. /\ NextChunk(file, p) = p + 8 + l + (l % 2) /\ l % 2 = 0 /\ r + 1 = l
            /\ file_pos = p + 8 + r /\ p \in Nat
        BY <1>6, <1>8, <2>1, <3>1, Zenon
      <4>2. NextChunk(file, p) = p + 8 + l + 0
        BY <4>1, Zenon
      <4> HIDE DEF LoadInv
      <4> QED BY <4>1, <4>2
    <3>3. chunk.block => \A i \in 0..(l - 1) :
              Region'[chunk.page * PageBytes + i] = file[p + 9 + i]
      BY <2>3, <3>1
    <3> QED BY <1>13, <2>3, <2>7, <3>2, <3>3
  <2> QED BY <2>2, <2>5, <2>6, <2>7
<1> QED BY <1>4, <1>14, <1>15

LEMMA StreamStep ==
    ASSUME LoadInv, NEW rb \in BOOLEAN, NEW wr \in BOOLEAN, Edge(rb, wr)
    PROVE  StreamInv'
<1> USE DEF LoadInv
<1> DEFINE in == ParserPorts(rb, wr)
<1>0. in = ParserPorts(rb, wr)
  OBVIOUS
<1> HIDE DEF in
<1>1. /\ hps_pos \in Nat /\ hps_pos' = IF wr THEN hps_pos + 1 ELSE hps_pos
      /\ cpr_download => file' = file
      /\ state \in Parsing \cup {"IDLE", "ERROR"}
  BY FileType DEF Edge, BeginFile, SendByte, EndFile, HpsIdle, hpsVars, TypeOK, ParserTypeOK
<1>2. ASSUME state' \notin Parsing PROVE StreamInv'
  BY <1>2 DEF StreamInv, Reading, Header, Parsing
<1>3. CASE rb /\ ResetParser(in)
  BY <1>2, <1>3 DEF ResetParser, Parsing
<1>4. CASE ~rb /\ ~cpr_download /\ cpr_download_d /\ ~wr /\ EndDownload(in)
  BY <1>2, <1>4 DEF EndDownload, Parsing
<1>5. CASE ~rb /\ cpr_download /\ ~cpr_download_d /\ ~wr /\ StartDownload(in)
  <2>1. /\ state' = "RIFF" /\ field' = <<>> /\ file_pos' = 0 /\ has_block' = FALSE
        /\ load_pulse' = "begin" /\ load_valid' = FALSE
    BY <1>5 DEF StartDownload
  <2>2. \A a \in Addr : Region'[a] = Zero
    <3>1. \A a \in Addr : Region'[a] = Now(a)'
      BY DEF Region
    <3> QED BY <2>1, <3>1 DEF Now
  <2>3. Len(field') = 0 /\ \A i \in 1..Len(field') : FALSE
    BY <2>1
  <2>4. Reading' => file_pos' = hps_pos'
    BY <1>1, <1>5, <2>1 DEF Reading, Doomed
  <2> QED BY <2>1, <2>2, <2>3, <2>4 DEF StreamInv, Header
<1>6. CASE /\ ~rb /\ cpr_download = cpr_download_d /\ (wr => state = "ERROR")
           /\ NoByte(in)
  <2>1. state' = state
    BY <1>6 DEF NoByte
  <2>2. CASE state \in Parsing
    <3>1. ~wr /\ cpr_download
      BY <1>6, <2>2 DEF ResetInv, Parsing
    <3>2. /\ hps_pos' = hps_pos /\ file' = file /\ file_pos' = file_pos /\ field' = field
          /\ riff_limit' = riff_limit /\ chunk' = chunk /\ has_block' = has_block
          /\ load_pulse' = "none"
      BY <1>1, <1>6, <3>1 DEF NoByte, KeepStream
    <3>3. load_valid' => load_valid
      BY <1>6 DEF NoByte, Acknowledge
    <3>4. load_active'
      <4>1. load_pulse = "begin" \/ (load_pulse = "none" /\ load_active /\ ~commit_pending)
        BY <2>2 DEF SessionInv
      <4> QED BY <1>6, <4>1, SessionMoves
    <3>5. \A a \in Addr : Region'[a] = Region[a]
      BY <3>2, <3>3, <3>4, RegionStep
    <3>6. state \in Header => load_valid' = FALSE
      <4>1. load_valid' \in BOOLEAN
        BY <1>6 DEF NoByte, Acknowledge
      <4> QED BY <3>3, <4>1 DEF StreamInv
    <3>7. Reading' <=> Reading
      BY <2>1, <3>2 DEF Reading, Doomed
    <3>8. ASSUME NEW q \in 12..Len(file), InChunk(q) PROVE InChunk(q)'
      <4>1. Rest(file, q, has_block, Region')
        BY <3>5, <3>8, RestSame DEF InChunk
      <4>2. Named(q) => Named(q)'
        BY <3>2 DEF Named
      <4>3. state \in {"CHUNK_DATA", "CHUNK_PAD"} => Sized(q)'
        <5>1. ASSUME state \in {"CHUNK_DATA", "CHUNK_PAD"}, Sized(q),
                     chunk.block, NEW i \in 0..(chunk.read - 1)
              PROVE  Region'[chunk.page * PageBytes + i] = file[q + 9 + i]
          <6>1. chunk.page * PageBytes + i \in Addr
            <7>1. /\ Sound(file, q) /\ BlockId(Field(file, q))
                  /\ chunk.page = PageOf(Field(file, q)) /\ chunk.len = Length(file, q)
              BY <5>1 DEF Sized, Named
            <7>2. \A j \in 0..(Length(file, q) - 1) : chunk.page * PageBytes + j \in Addr
              BY <7>1, BlockBase, FileType
            <7>3. chunk.read <= chunk.len /\ chunk.read \in Nat /\ chunk.len \in Nat
              BY <3>8, <5>1 DEF InChunk, TypeOK, ParserTypeOK, Sized
            <7> QED BY <5>1, <7>1, <7>2, <7>3
          <6> QED BY <3>5, <5>1, <6>1 DEF Sized
        <5>2. state \in {"CHUNK_DATA", "CHUNK_PAD"} => Sized(q)
          BY <3>8 DEF InChunk
        <5> QED BY <3>2, <4>2, <5>1, <5>2 DEF Sized
      <4>4. Rest(file', q, has_block', Region')
        BY <3>2, <4>1
      <4> QED BY <2>1, <3>2, <3>8, <4>2, <4>3, <4>4 DEF InChunk
    <3>9. state \in Header => /\ has_block' = FALSE /\ load_valid' = FALSE
                              /\ \A a \in Addr : Region'[a] = Zero
      BY <3>2, <3>5, <3>6 DEF StreamInv
    <3> QED BY <2>1, <3>2, <3>7, <3>8, <3>9 DEF StreamInv
  <2>3. CASE state \notin Parsing
    BY <1>2, <2>1, <2>3
  <2> QED BY <2>2, <2>3
<1>7. CASE /\ ~rb /\ wr /\ cpr_download /\ cpr_download_d
           /\ state \in Parsing /\ ~load_valid /\ Taken(in) /\ TakesByte(in)
  <2>1. CASE state' \notin Parsing
    BY <1>2, <2>1
  <2>2. CASE state' \in Parsing
    <3>1. state \in Header \cup {"CHUNK_ID", "CHUNK_LEN"} \cup {"CHUNK_DATA", "CHUNK_PAD", "DONE"}
      BY <1>7 DEF Parsing, Header
    <3> QED BY <1>0, <1>7, <2>2, <3>1, HeaderRead, ChunkHeadRead, ChunkBytesRead
  <2> QED BY <2>1, <2>2
<1> QED BY <1>0, <1>3, <1>4, <1>5, <1>6, <1>7, ParserMoves

-----------------------------------------------------------------------------
(* The end of a download: what is to be published is the image of a whole file,
   and stays so until it is. *)
CommitInv ==
    load_pulse = "commit" \/ commit_pending =>
       /\ ~cpr_download /\ cpr_download_d = FALSE /\ hps_pos > 0 /\ load_valid = FALSE
       /\ load_active /\ file \in Files
       /\ Acceptable(file) /\ \A a \in Addr : Region[a] = ImageOf(file)[a]

(* The bytes of a file that ends where it may. *)
LEMMA WholeFile ==
    ASSUME TypeOK, StreamInv, Reading, hps_pos = Len(file), has_block,
           state = "DONE" \/ (state = "CHUNK_ID" /\ field = <<>>)
    PROVE  /\ file \in Files /\ Acceptable(file)
           /\ \A a \in Addr : Region[a] = ImageOf(file)[a]
<1>1. /\ Matches(file, 0, "RIFF") /\ Matches(file, 8, "FORM") /\ file_pos = hps_pos
      /\ Value(Field(file, 4)) \in 4..MaxRiffLen /\ riff_limit = RiffEnd(file)
  BY DEF StreamInv, Header
<1>2. PICK p \in 12..Len(file) : InChunk(p)
  BY DEF StreamInv, Header
<1>3. file \in Seq(Byte) /\ Len(file) \in Nat /\ p \in Nat
  BY <1>2, FileType, Elements
<1>4. /\ file_pos = p /\ p = Len(file) /\ Rest(file, p, has_block, Region)
      /\ p = riff_limit \/ p + 8 <= riff_limit
  <2>1. CASE state = "DONE"
    BY <1>1, <1>2, <2>1 DEF InChunk
  <2>2. CASE state = "CHUNK_ID" /\ field = <<>>
    <3>1. PICK n \in Nat : n = Len(field) /\ n = 0
      BY <2>2
    <3>2. /\ file_pos = p + n /\ p + 8 <= riff_limit /\ Rest(file, p, has_block, Region)
      BY <1>2, <2>2, <3>1 DEF InChunk
    <3>3. file_pos = p
      BY <1>3, <3>1, <3>2
    <3> QED BY <1>1, <3>2, <3>3, Zenon
  <2> QED BY <2>1, <2>2
<1>5. has_block = TRUE
  BY DEF TypeOK, ParserTypeOK
<1>6. RiffEnd(file) \in Nat
  BY <1>1 DEF TypeOK, ParserTypeOK
<1>7. /\ Chunks(file).ok /\ Chunks(file).bytes # <<>>
      /\ \A a \in Addr : ImageOf(file)[a] = Region[a]
  BY <1>1, <1>2, <1>3, <1>4, <1>5, <1>6, RestAtEnd
<1>8. Len(file) >= 12 /\ file \in Files
  <2>1. Len(file) >= 12
    BY <1>2, <1>3
  <2>2. Len(<<>>) = 0
    OBVIOUS
  <2> QED BY <2>1, <2>2 DEF TypeOK, GlueTypeOK
<1> QED BY <1>1, <1>7, <1>8 DEF Acceptable

LEMMA CommitStep ==
    ASSUME LoadInv, CommitInv, NEW rb \in BOOLEAN, NEW wr \in BOOLEAN, Edge(rb, wr)
    PROVE  CommitInv'
<1> USE DEF LoadInv
<1> SUFFICES ASSUME load_pulse' = "commit" \/ commit_pending' PROVE CommitInv'
  BY DEF CommitInv
<1> DEFINE in == ParserPorts(rb, wr)
<1>0. in = ParserPorts(rb, wr) /\ in.cpr_download = cpr_download
  BY DEF ParserPorts
<1> HIDE DEF in
<1>1. SessionInv' /\ TypeOK'
  BY SessionInvStep, EdgeTypes
<1>2. load_active' /\ ~cpr_download' /\ hps_pos' > 0
  BY <1>1 DEF SessionInv, Parsing
<1>3. hps_pos > 0 /\ ~cpr_download /\ ~wr => file' = file /\ hps_pos' = hps_pos
  BY FileType DEF Edge, BeginFile, SendByte, EndFile, HpsIdle, hpsVars
<1>4. ASSUME load_valid' = FALSE, load_pulse' \in {"none", "commit"}, NEW a \in Addr PROVE Region'[a] = Region[a]
  BY <1>2, <1>4, RegionStep
<1>5. (~rb /\ load_pulse # "abort" /\ load_pulse # "begin")
         \/ load_pulse' = "commit"
  <2>1. commit_pending' => ~rb /\ load_pulse # "abort" /\ load_pulse # "begin"
    BY SessionMoves DEF TypeOK, ParserTypeOK
  <2> QED BY <2>1
<1>6. CASE ~rb /\ ~cpr_download /\ cpr_download_d /\ ~wr /\ EndDownload(in) /\ load_pulse' = "commit"
  <2>1. CleanEnd(in)
    BY <1>6 DEF EndDownload
  <2>2. /\ state = "DONE" \/ (state = "CHUNK_ID" /\ field = <<>>)
        /\ has_block /\ hps_pos = Len(file) /\ load_valid' = FALSE /\ cpr_download_d' = FALSE
    <3>1. cpr_download = FALSE
      BY <1>6 DEF TypeOK, GlueTypeOK
    <3> QED BY <1>0, <1>6, <2>1, <3>1 DEF CleanEnd, EndDownload, Sample, SessionInv
  <2>3. hps_pos > 0 /\ Reading
    BY <2>2 DEF SessionInv, Reading, Doomed, Parsing
  <2>4. /\ file \in Files /\ Acceptable(file)
        /\ \A a \in Addr : Region[a] = ImageOf(file)[a]
    BY <2>2, <2>3, WholeFile
  <2>5. file' = file
    BY <1>3, <1>6, <2>3
  <2> QED BY <1>2, <1>4, <1>6, <2>2, <2>4, <2>5 DEF CommitInv
<1>7. CASE load_pulse' # "commit"
  <2>1. commit_pending' /\ ~rb
    BY <1>5, <1>7
  <2>2. load_pulse = "commit" \/ commit_pending
    BY <2>1, SessionMoves DEF TypeOK, ParserTypeOK
  <2>3. /\ ~cpr_download /\ cpr_download_d = FALSE /\ hps_pos > 0 /\ load_valid = FALSE
        /\ file \in Files /\ Acceptable(file) /\ \A a \in Addr : Region[a] = ImageOf(file)[a]
    BY <2>2 DEF CommitInv
  <2>4. ~wr /\ NoByte(in)
    BY <1>0, <2>1, <2>3, ParserMoves DEF SessionInv, ResetInv
  <2>5. cpr_download_d' = FALSE /\ load_valid' = FALSE /\ load_pulse' = "none"
    <3>1. cpr_download = FALSE
      BY <2>3 DEF TypeOK, GlueTypeOK
    <3> QED BY <1>0, <2>3, <2>4, <3>1 DEF NoByte, Sample, Acknowledge
  <2>6. file' = file
    BY <1>3, <2>3, <2>4
  <2> QED BY <1>2, <1>4, <2>3, <2>5, <2>6 DEF CommitInv
<1>8. CASE load_pulse' = "commit"
  <2>1. ~ResetParser(in) /\ ~StartDownload(in) /\ ~NoByte(in)
    BY <1>8 DEF ResetParser, StartDownload, NoByte
  <2>2. ~(state \in Parsing /\ Taken(in) /\ TakesByte(in))
    BY <1>8, ByteTaken
  <2> QED BY <1>0, <1>6, <1>8, <2>1, <2>2, ParserMoves
<1> QED BY <1>7, <1>8

(* What is visible.  An image outlives the start of a download only while every
   clock of it is a reset, which hides the begin pulse from the memory service
   and costs at most one byte of the file each; past that, a visible image is
   that of the file, unless the resets were as many as its bytes. *)
VisibleInv ==
    /\ image_valid /\ cpr_download =>
          hps_pos <= resets /\ (cpr_download_d => load_pulse = "begin")
    /\ image_valid /\ ~cpr_download /\ hps_pos > 0 /\ resets <= Len(file) =>
          /\ file \in Files /\ Acceptable(file)
          /\ \A a \in Addr : store[a] = ImageOf(file)[a]

(* What becomes of a visible image, and where one comes from. *)
LEMMA ImageMoves ==
    ASSUME TypeOK, ResetInv, ServiceInv, SessionInv, NEW rb \in BOOLEAN, NEW wr \in BOOLEAN,
           Edge(rb, wr), image_valid'
    PROVE  /\ image_valid => store' = store /\ (load_pulse = "begin" => rb)
           /\ ~image_valid => /\ commit_pending /\ load_active /\ ~clear_active
                              /\ store' = store
<1>1. PICK m : m = MemoryPorts(rb) /\ MemoryClock(m)
  BY DEF Edge
<1>2. image_valid => store' = store
  BY StoreStays DEF Edge
<1>3. load_pulse = "begin" => rb
  <2>1. load_pulse = "begin" /\ ~rb => LoadBegin(m)
    BY <1>1, ControlCases
  <2> QED BY <2>1 DEF LoadBegin
<1>4. ASSUME ~image_valid PROVE commit_pending /\ load_active /\ ~clear_active /\ store' = store
  <2>1. ~ControlEvent(m)
    BY <1>1, <1>4, ControlEdge DEF LoadAbort, ColdReset, LoadBegin
  <2>2. Publish(m)
    BY <1>1, <1>4, <2>1, SessionGoesOn
  <2>3. ~mem_req /\ commit_pending /\ load_active /\ ~clear_active
    BY <2>2 DEF Publish, Free
  <2>4. store' = store
    BY <2>3, WriteLands DEF Edge, ServiceInv
  <2> QED BY <2>3, <2>4
<1> QED BY <1>2, <1>3, <1>4

(* An image that appears is that of the file. *)
LEMMA Appears ==
    ASSUME LoadInv, CommitInv, NEW rb \in BOOLEAN, NEW wr \in BOOLEAN, Edge(rb, wr),
           ~image_valid, image_valid'
    PROVE  /\ file' = file /\ ~cpr_download' /\ file \in Files /\ Acceptable(file)
           /\ \A a \in Addr : store'[a] = ImageOf(file)[a]
<1> USE DEF LoadInv
<1>1. commit_pending /\ load_active /\ ~clear_active /\ store' = store
  BY ImageMoves
<1>2. /\ ~cpr_download /\ hps_pos > 0 /\ load_valid = FALSE /\ file \in Files
      /\ Acceptable(file) /\ \A a \in Addr : Region[a] = ImageOf(file)[a]
  BY <1>1 DEF CommitInv
<1>3. load_pulse # "begin"
  BY <1>1 DEF SessionInv
<1>4. \A a \in Addr : store[a] = ImageOf(file)[a]
  <2>1. \A a \in Addr : Region[a] = Now(a)
    BY DEF Region
  <2>2. \A a \in Addr : Now(a) = store[a]
    BY <1>1, <1>2, <1>3 DEF Now
  <2> QED BY <1>2, <2>1, <2>2
<1>5. file' = file /\ ~cpr_download'
  <2>1. hps_pos \in Nat
    BY FileType DEF TypeOK, GlueTypeOK
  <2> QED BY <1>2, <2>1 DEF Edge, SendByte, BeginFile, EndFile, HpsIdle, hpsVars
<1> QED BY <1>1, <1>2, <1>4, <1>5

LEMMA VisibleStep ==
    ASSUME LoadInv, CommitInv, VisibleInv, NEW rb \in BOOLEAN, NEW wr \in BOOLEAN, Edge(rb, wr)
    PROVE  VisibleInv'
<1> USE DEF LoadInv
<1> SUFFICES ASSUME image_valid' PROVE VisibleInv'
  BY DEF VisibleInv
<1> DEFINE in == ParserPorts(rb, wr)
<1>0. in = ParserPorts(rb, wr)
  OBVIOUS
<1> HIDE DEF in
<1>1. /\ image_valid => store' = store /\ (load_pulse = "begin" => rb)
      /\ ~image_valid => commit_pending /\ load_active /\ ~clear_active /\ store' = store
  BY ImageMoves
<1>2. /\ hps_pos \in Nat /\ resets \in Nat /\ resets' = IF rb THEN resets + 1 ELSE resets
      /\ hps_pos' = IF wr THEN hps_pos + 1 ELSE hps_pos
  <2>1. hps_pos \in Nat /\ resets \in Nat
    BY FileType, LoaderAssumption DEF TypeOK, GlueTypeOK
  <2> QED BY <2>1 DEF Edge, BeginFile, SendByte, EndFile, HpsIdle, hpsVars
<1>3. \/ wr /\ SendByte
      \/ ~wr /\ (BeginFile \/ EndFile \/ HpsIdle)
  BY DEF Edge
<1>4. cpr_download_d' => cpr_download
  BY PulseStep DEF Edge
<1>5. CASE image_valid
  <2>1. ASSUME cpr_download, cpr_download_d PROVE rb /\ hps_pos <= resets
    BY <1>1, <1>5, <2>1 DEF VisibleInv
  <2>2. ASSUME cpr_download' PROVE hps_pos' <= resets' /\ (cpr_download_d' => load_pulse' = "begin")
    <3>1. CASE ~cpr_download
      <4>1. BeginFile
        BY <1>3, <2>2, <3>1 DEF SendByte, EndFile, HpsIdle, hpsVars
      <4>2. ~wr /\ hps_pos = 0
        BY <1>3, <3>1, <4>1 DEF BeginFile, SendByte
      <4> QED BY <1>2, <1>4, <3>1, <4>2
    <3>2. CASE cpr_download
      <4>1. hps_pos <= resets
        BY <1>5, <3>2 DEF VisibleInv
      <4>2. wr => rb
        BY <1>3, <2>1, <3>2 DEF SendByte, BeginFile, EndFile, HpsIdle, IoctlWait
      <4>3. hps_pos' <= resets'
        BY <1>2, <4>1, <4>2
      <4>4. cpr_download_d => rb
        BY <2>1, <3>2
      <4>5. (rb /\ ResetParser(in)) \/ StartDownload(in)
        <5>1. cpr_download_d \in BOOLEAN
          BY DEF TypeOK, ParserTypeOK
        <5> QED BY <1>0, <3>2, <4>4, <5>1, ParserMoves
      <4>6. cpr_download_d' => load_pulse' = "begin"
        BY <4>5 DEF ResetParser, StartDownload
      <4> QED BY <4>3, <4>6
    <3> QED BY <3>1, <3>2
  <2>3. ASSUME ~cpr_download', hps_pos' > 0, resets' <= Len(file')
        PROVE  /\ file' \in Files /\ Acceptable(file')
               /\ \A a \in Addr : store'[a] = ImageOf(file')[a]
    <3>1. CASE cpr_download
      <4>1. EndFile
        BY <1>3, <2>3, <3>1 DEF SendByte, BeginFile, HpsIdle, hpsVars
      <4>2. /\ cpr_download_d /\ hps_pos = Len(file) /\ file' = file
        BY <3>1, <4>1 DEF EndFile, IoctlWait
      <4>3. rb /\ hps_pos <= resets
        BY <2>1, <3>1, <4>2
      <4> QED BY <1>2, <2>3, <4>2, <4>3
    <3>2. CASE ~cpr_download
      <4>1. ~wr
        BY <1>3, <3>2 DEF SendByte
      <4>2. file' = file /\ hps_pos > 0
        BY <1>2, <1>3, <2>3, <3>2, <4>1 DEF BeginFile, EndFile, HpsIdle, hpsVars
      <4>3. Len(file) \in Nat
        BY FileType, Elements
      <4>4. resets <= Len(file)
        BY <1>2, <2>3, <4>2, <4>3
      <4>5. /\ file \in Files /\ Acceptable(file)
            /\ \A a \in Addr : store[a] = ImageOf(file)[a]
        BY <1>5, <3>2, <4>2, <4>4 DEF VisibleInv
      <4> QED BY <1>1, <1>5, <4>2, <4>5
    <3> QED BY <3>1, <3>2
  <2> QED BY <2>2, <2>3 DEF VisibleInv
<1>6. CASE ~image_valid
  <2>1. /\ file' = file /\ ~cpr_download' /\ file \in Files /\ Acceptable(file)
        /\ \A a \in Addr : store'[a] = ImageOf(file)[a]
    BY <1>6, Appears
  <2> QED BY <2>1 DEF VisibleInv
<1> QED BY <1>5, <1>6

-----------------------------------------------------------------------------
(* The whole download, from any machine that is running. *)
DownloadInv == LoadInv /\ CommitInv /\ VisibleInv

LEMMA DownloadInit == Init => DownloadInv
<1> SUFFICES ASSUME Init PROVE DownloadInv
  OBVIOUS
<1>1. TypeOK /\ ResetInv /\ ServiceInv
  BY ReadInvInit, TypeInit DEF Init, ReadInv
<1>2. /\ load_active = FALSE /\ commit_pending = FALSE /\ load_error = FALSE /\ mem_req = FALSE
      /\ clear_active = FALSE /\ state = "IDLE" /\ load_pulse = "none" /\ load_valid = FALSE
      /\ cpr_download = FALSE /\ cpr_download_d = FALSE /\ hps_pos = 0
  BY DEF Init, MemoryQuiet, ParserInit
<1>3. SessionInv
  BY <1>2 DEF SessionInv, Parsing
<1>4. ClearInv /\ WordInv
  BY <1>2 DEF ClearInv, WordInv
<1>5. StreamInv
  BY <1>2 DEF StreamInv, Reading, Header, Parsing
<1>6. CommitInv /\ VisibleInv
  BY <1>2 DEF CommitInv, VisibleInv
<1> QED BY <1>1, <1>3, <1>4, <1>5, <1>6 DEF DownloadInv, LoadInv

LEMMA DownloadStep == DownloadInv /\ [Next]_vars => DownloadInv'
<1> SUFFICES ASSUME DownloadInv, [Next]_vars PROVE DownloadInv'
  OBVIOUS
<1>1. CASE UNCHANGED vars
  <2>1. TypeOK' /\ ResetInv' /\ ServiceInv'
    BY <1>1, TypeStep DEF DownloadInv, LoadInv, vars, memoryVars, sessionVars, channelVars,
       parserVars, requestVars, hpsVars, glueVars, ResetInv, ServiceInv, HeldUntilAck
  <2>2. SessionInv' /\ ClearInv'
    BY <1>1 DEF DownloadInv, LoadInv, vars, memoryVars, sessionVars, channelVars,
       parserVars, requestVars, hpsVars, glueVars, SessionInv, ClearInv
  <2>3. OfferedWord' = OfferedWord /\ load_valid' = load_valid
    BY <1>1 DEF vars, parserVars, OfferedWord
  <2>4. WordInv'
    BY <1>1, <2>3 DEF DownloadInv, LoadInv, vars, memoryVars, sessionVars, channelVars,
       parserVars, requestVars, WordInv, Offered
  <2>5. Region' = Region
    BY <1>1, <2>3 DEF vars, memoryVars, sessionVars, channelVars, parserVars, Region, Now
  <2>6. \A q : Named(q)' = Named(q)
    BY <1>1 DEF vars, parserVars, hpsVars, Named
  <2>7. \A q : Sized(q)' = Sized(q)
    BY <1>1, <2>5, <2>6 DEF vars, parserVars, hpsVars, Sized
  <2>8. \A q : InChunk(q)' = InChunk(q)
    BY <1>1, <2>5, <2>6, <2>7 DEF vars, parserVars, hpsVars, InChunk
  <2>9. StreamInv'
    BY <1>1, <2>5, <2>8 DEF DownloadInv, LoadInv, vars, parserVars, hpsVars, StreamInv, Reading,
       Doomed
  <2>10. CommitInv'
    BY <1>1, <2>5 DEF DownloadInv, vars, memoryVars, sessionVars, parserVars, hpsVars, CommitInv
  <2>11. VisibleInv'
    BY <1>1 DEF DownloadInv, vars, memoryVars, sessionVars, channelVars, parserVars, hpsVars,
       VisibleInv
  <2> QED BY <2>1, <2>2, <2>4, <2>9, <2>10, <2>11 DEF DownloadInv, LoadInv
<1>2. CASE Next
  <2>1. PICK rb \in BOOLEAN, wr \in BOOLEAN : Edge(rb, wr)
    BY <1>2, NextIsEdge
  <2>2. TypeOK' /\ ResetInv' /\ ServiceInv' /\ SessionInv' /\ ClearInv' /\ WordInv'
    BY <2>1, TypeStep, ResetStep, ServiceStep, SessionInvStep, ClearStep, WordStep
       DEF DownloadInv, LoadInv
  <2>3. StreamInv' /\ CommitInv' /\ VisibleInv'
    BY <2>1, StreamStep, CommitStep, VisibleStep DEF DownloadInv
  <2> QED BY <2>2, <2>3 DEF DownloadInv, LoadInv
<1> QED BY <1>1, <1>2

LEMMA ImageIs ==
    ASSUME NEW f \in Files, Acceptable(f), NEW s \in [Addr -> Byte],
           \A a \in Addr : s[a] = ImageOf(f)[a]
    PROVE  f \in GoodFiles /\ s = Image[f]
<1>1. f \in GoodFiles
  BY DEF GoodFiles
<1>2. ImageOf(f) = [a \in Addr |-> ImageOf(f)[a]]
  BY DEF ImageOf
<1>3. s = ImageOf(f)
  BY <1>2
<1>4. Image[f] = ImageOf(f)
  BY <1>1 DEF Image
<1> QED BY <1>1, <1>3, <1>4

(* The image loaded before goes with the start of a download: once the parser has
   begun, it is visible for the clock of the begin pulse at most, and longer only
   under a reset that makes the parser begin again. *)
THEOREM OldImageGoes ==
    Spec => [](image_valid /\ cpr_download /\ cpr_download_d => load_pulse = "begin")
<1>1. DownloadInv => (image_valid /\ cpr_download /\ cpr_download_d => load_pulse = "begin")
  BY DEF DownloadInv, VisibleInv
<1> QED BY <1>1, DownloadInit, DownloadStep, PTL DEF Spec

(* An image appears only as the image of a whole acceptable file by the reference
   definition, after its download has ended, for every set of files, region and
   pace of SDRAM and HPS, and whatever the resets. *)
THEOREM PublishesTheFile ==
    Spec => [][~image_valid /\ image_valid' =>
                  ~cpr_download' /\ file' \in GoodFiles /\ store' = Image[file']]_vars
<1> DEFINE Publishes == ~image_valid /\ image_valid' =>
                  ~cpr_download' /\ file' \in GoodFiles /\ store' = Image[file']
<1>1. DownloadInv /\ [Next]_vars => [Publishes]_vars
  <2> SUFFICES ASSUME DownloadInv, Next, ~image_valid, image_valid'
               PROVE  ~cpr_download' /\ file' \in GoodFiles /\ store' = Image[file']
    OBVIOUS
  <2>1. PICK rb \in BOOLEAN, wr \in BOOLEAN : Edge(rb, wr)
    BY NextIsEdge
  <2>2. /\ file' = file /\ ~cpr_download' /\ file \in Files /\ Acceptable(file)
        /\ \A a \in Addr : store'[a] = ImageOf(file)[a]
    BY <2>1, Appears DEF DownloadInv
  <2>3. store' \in [Addr -> Byte]
    BY <2>1, EdgeTypes DEF DownloadInv, LoadInv, TypeOK, ChannelTypeOK
  <2>4. file \in GoodFiles /\ store' = Image[file]
    BY <2>2, <2>3, ImageIs
  <2> QED BY <2>2, <2>4
<1>2. Publishes <=> (~image_valid /\ image_valid' =>
                  ~cpr_download' /\ file' \in GoodFiles /\ store' = Image[file'])
  OBVIOUS
<1> HIDE DEF Publishes
<1> QED BY <1>1, <1>2, DownloadInit, DownloadStep, PTL DEF Spec

(* An image that is visible once the machine runs again is the image of the whole
   file by the reference definition, for every set of files, size of the region
   and pace of SDRAM and HPS, and whatever the resets, as long as they are no
   more than the bytes of the file. *)
THEOREM VisibleIsTheFile == Spec => [](resets <= Len(file) => VisibleImageIsTheFile)
<1> DEFINE Shows == resets <= Len(file) => VisibleImageIsTheFile
<1>1. DownloadInv => Shows
  <2> SUFFICES ASSUME DownloadInv, resets <= Len(file), hps_pos > 0, ~cpr_download, image_valid
               PROVE  file \in GoodFiles /\ store = Image[file]
    BY DEF VisibleImageIsTheFile
  <2>1. file \in Files /\ Acceptable(file) /\ \A a \in Addr : store[a] = ImageOf(file)[a]
    BY DEF DownloadInv, VisibleInv
  <2>2. store \in [Addr -> Byte]
    BY DEF DownloadInv, LoadInv, TypeOK, ChannelTypeOK
  <2> QED BY <2>1, <2>2, ImageIs
<1>2. Init => DownloadInv
  BY DownloadInit
<1>3. DownloadInv /\ [Next]_vars => DownloadInv'
  BY DownloadStep
<1> HIDE DEF Shows
<1>4. Spec => []Shows
  BY <1>1, <1>2, <1>3, PTL DEF Spec
<1> QED BY <1>4 DEF Shows

(* So it is always when no file is shorter than the resets of a behaviour. *)
THEOREM VisibleOfLongFiles ==
    ASSUME \A f \in Files : Len(f) = 0 \/ Len(f) >= MaxResets
    PROVE  Spec => []VisibleImageIsTheFile
<1>1. TypeOK /\ (resets <= Len(file) => VisibleImageIsTheFile) => VisibleImageIsTheFile
  <2> SUFFICES ASSUME TypeOK, hps_pos > 0 PROVE resets <= Len(file)
    BY DEF VisibleImageIsTheFile
  <2>1. Len(file) \in Nat /\ hps_pos \in 0..Len(file) /\ resets \in 0..MaxResets /\ MaxResets \in Nat
    BY FileType, Elements, LoaderAssumption DEF TypeOK, GlueTypeOK
  <2>2. file \in Files
    <3>1. Len(<<>>) = 0
      OBVIOUS
    <3> QED BY <2>1, <3>1 DEF TypeOK, GlueTypeOK
  <2> QED BY <2>1, <2>2
<1> QED BY <1>1, TypeCorrect, VisibleIsTheFile, PTL
=============================================================================
