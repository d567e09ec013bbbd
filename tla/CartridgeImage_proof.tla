------------------------ MODULE CartridgeImage_proof ------------------------
(***************************************************************************)
(* Proofs about CartridgeImage for every region size, byte set, loader     *)
(* word and combination of controls.                                       *)
(***************************************************************************)
EXTENDS CartridgeImage, TLAPS

USE MemoryAssumption, InputsAssumption

(* The Boolean and set-valued parts of the type invariant, so that each proof
   step looks at one group of registers. *)
LEMMA PortsType ==
    ASSUME TypeOK, NEW in \in Ports
    PROVE  /\ in.controls \subseteq Controls
           /\ in.load_valid \in BOOLEAN /\ in.cpu_valid \in BOOLEAN
           /\ in.mem_ack \in BOOLEAN /\ in.mem_grant \in BOOLEAN
           /\ in.cpu_addr \in Addr /\ in.mem_rdata \in Byte
           /\ in.load_word \in [wide : BOOLEAN, addr : Addr, data : Byte]
           /\ in.cpu_valid = cpu_valid /\ in.cpu_addr = cpu_addr
           /\ in.mem_ack = (chan = "ack") /\ in.mem_grant = (chan = "granted")
           /\ in.mem_rdata = mem_rdata
  BY DEF Ports, LoadWords, TypeOK, ChannelTypeOK

(* No clock edge leaves the types of the registers of the memory service. *)
LEMMA MemoryTypeStep ==
    ASSUME TypeOK, NEW in \in Ports, MemoryClock(in)
    PROVE  MemoryTypeOK'
<1> USE DEF TypeOK, ChannelTypeOK, MemoryTypeOK
<1>1. /\ in.controls \subseteq Controls
      /\ in.load_valid \in BOOLEAN /\ in.cpu_valid \in BOOLEAN
      /\ in.mem_ack \in BOOLEAN /\ in.mem_grant \in BOOLEAN
      /\ in.cpu_addr \in Addr /\ in.mem_rdata \in Byte
      /\ in.load_word.wide \in BOOLEAN
      /\ in.load_word.addr \in Addr /\ in.load_word.data \in Byte
  BY PortsType
<1>2. consumed' \subseteq Controls \cup {"load_valid", "cpu_valid"}
  BY <1>1 DEF MemoryClock, Consume, Held, StillHeld, Detach, LoadAbort, ColdReset, LoadBegin,
     AckDiscarded, AckClear, AckLoad, AckCpu, HoldRequest, IssueClear,
     RejectLoad, IssueLoad, Publish, IssueRead, ReadOpenBus, Idle
<1>3. cpu_granted' \in BOOLEAN
  BY DEF MemoryClock, GrantStep, EndActivity, Detach, LoadAbort, ColdReset,
     LoadBegin, AckDiscarded, AckClear, AckLoad, AckCpu, HoldRequest,
     IssueClear, RejectLoad, IssueLoad, Publish, IssueRead, ReadOpenBus, Idle
<1>4. request' \in Request
  <2>1. \A k \in {"clear", "load", "cpu"}, a \in Addr, d \in Byte :
           [kind |-> k, write |-> k # "cpu", addr |-> a, data |-> d] \in Request
    BY DEF Request
  <2>2. clear_index # LastAddr => clear_index + 1 \in Addr
    BY DEF Addr
  <2>3. CASE AckClear(in)
    BY <2>1, <2>2, <2>3 DEF AckClear, Issue, LastCleared
  <2>4. CASE IssueClear(in) \/ IssueLoad(in) \/ IssueRead(in)
    BY <1>1, <2>1, <2>4 DEF IssueClear, IssueLoad, IssueRead, Issue
  <2>5. CASE /\ ~AckClear(in) /\ ~IssueClear(in)
             /\ ~IssueLoad(in) /\ ~IssueRead(in)
    BY <2>5 DEF MemoryClock, EndActivity, Detach, LoadAbort, ColdReset,
       LoadBegin, AckDiscarded, AckLoad, AckCpu, HoldRequest, RejectLoad,
       Publish, ReadOpenBus, Idle
  <2> QED BY <2>3, <2>4, <2>5
<1>5. clear_index' \in Addr /\ cpu_data' \in Byte
  BY <1>1 DEF MemoryClock, EndActivity, Detach, LoadAbort, ColdReset, LoadBegin,
     AckDiscarded, AckClear, AckLoad, AckCpu, HoldRequest, IssueClear,
     RejectLoad, IssueLoad, Publish, IssueRead, ReadOpenBus, Idle, Issue,
     LastCleared, Addr, sessionVars
<1>6. /\ load_ready' \in BOOLEAN /\ cpu_ready' \in BOOLEAN
      /\ load_error' \in BOOLEAN /\ commit_pending' \in BOOLEAN
      /\ image_valid' \in BOOLEAN
  BY <1>1 DEF MemoryClock, EndActivity, Detach, LoadAbort, ColdReset, LoadBegin,
     AckDiscarded, AckClear, AckLoad, AckCpu, HoldRequest, IssueClear,
     RejectLoad, IssueLoad, Publish, IssueRead, ReadOpenBus, Idle, Issue,
     sessionVars, Commit
<1>7. /\ load_active' \in BOOLEAN /\ clear_active' \in BOOLEAN
      /\ mem_req' \in BOOLEAN /\ discard_request' \in BOOLEAN
  BY <1>1 DEF MemoryClock, EndActivity, Detach, LoadAbort, ColdReset, LoadBegin,
     AckDiscarded, AckClear, AckLoad, AckCpu, HoldRequest, IssueClear,
     RejectLoad, IssueLoad, Publish, IssueRead, ReadOpenBus, Idle, Issue,
     sessionVars, Disowned
<1> QED BY <1>2, <1>3, <1>4, <1>5, <1>6, <1>7

LEMMA TypeInit == Init => TypeOK
<1> SUFFICES ASSUME Init PROVE TypeOK
  OBVIOUS
<1>1. request \in Request /\ 0 \in Addr
  BY DEF Init, MemoryInit, MemoryQuiet, ChannelInit, Request, Addr
<1>2. MemoryTypeOK
  BY <1>1 DEF Init, MemoryInit, MemoryQuiet, ChannelInit, MemoryTypeOK
<1>3. session \in [image : [Addr -> Byte], rejected : BOOLEAN]
  BY DEF Init
<1> QED BY <1>1, <1>2, <1>3 DEF Init, MemoryInit, MemoryQuiet, ChannelInit, TypeOK, ChannelTypeOK

LEMMA TypeStep == TypeOK /\ [Next]_vars => TypeOK'
<1> SUFFICES ASSUME TypeOK, [Next]_vars PROVE TypeOK'
  OBVIOUS
<1>1. CASE UNCHANGED vars
  BY <1>1 DEF vars, memoryVars, sessionVars, channelVars, TypeOK, ChannelTypeOK, MemoryTypeOK
<1>2. CASE Next
  <2>1. PICK in \in Ports : MemoryClock(in) /\ SessionStep(in) /\ ChannelClock /\ CpuPort
    BY <1>2 DEF Next
  <2>2. MemoryTypeOK'
    BY <2>1, MemoryTypeStep
  <2>3. cpu_valid' \in BOOLEAN /\ cpu_addr' \in Addr
    BY <2>1 DEF CpuPort, TypeOK, ChannelTypeOK
  <2>4. /\ chan' \in {"idle", "granted", "run", "ack"}
        /\ slot' \in Request /\ mem_rdata' \in Byte
        /\ store' \in [Addr -> Byte]
    BY <2>1 DEF ChannelClock, Admit, Wait, Run, CompleteWrite, CompleteRead,
       Release, channelVars, TypeOK, ChannelTypeOK, MemoryTypeOK, Request
  <2>5. session' \in [image : [Addr -> Byte], rejected : BOOLEAN]
    BY <2>1, PortsType DEF SessionStep, TypeOK, ChannelTypeOK
  <2> QED BY <2>2, <2>3, <2>4, <2>5 DEF TypeOK, ChannelTypeOK
<1> QED BY <1>1, <1>2

(* Type correctness, for every instance: no register, channel phase or ghost
   leaves its range under any input. *)
THEOREM TypeCorrect == Spec => []TypeOK
BY TypeInit, TypeStep, PTL DEF Spec

-----------------------------------------------------------------------------
(* While SDRAM has not acknowledged, the service neither drops nor changes its
   request, whatever the controls do. *)
LEMMA RequestHeld ==
    ASSUME TypeOK, NEW in \in Ports, MemoryClock(in), mem_req, chan # "ack"
    PROVE  mem_req' /\ request' = request
<1>1. ~in.mem_ack
  BY PortsType
<1> QED
  BY <1>1 DEF MemoryClock, EndActivity, Detach, LoadAbort, ColdReset, LoadBegin,
     Acked, Free, NewWord, NewRead, AckDiscarded, AckClear, AckLoad, AckCpu,
     HoldRequest, IssueClear, RejectLoad, IssueLoad, Publish, IssueRead,
     ReadOpenBus, Idle, TypeOK, ChannelTypeOK, MemoryTypeOK

LEMMA HeldStep ==
    ASSUME TypeOK, HeldUntilAck, NEW in \in Ports, MemoryClock(in), ChannelClock
    PROVE  HeldUntilAck'
<1>1. CASE mem_req /\ chan # "ack"
  BY <1>1, RequestHeld DEF ChannelClock, Admit, Wait, Run, CompleteWrite,
     CompleteRead, Release, channelVars, HeldUntilAck
<1>2. CASE chan = "ack" \/ ~mem_req
  BY <1>2 DEF ChannelClock, Admit, Wait, Run, CompleteWrite,
     CompleteRead, Release, channelVars, HeldUntilAck
<1> QED BY <1>1, <1>2 DEF TypeOK, ChannelTypeOK, MemoryTypeOK

(* The store changes only when a held write completes, and then by it. *)
LEMMA StoreStep ==
    ASSUME TypeOK, HeldUntilAck, ChannelClock
    PROVE  \/ store' = store
           \/ /\ mem_req /\ request.write /\ chan = "run" /\ chan' = "ack"
              /\ store' = [store EXCEPT ![request.addr] = request.data]
  BY DEF ChannelClock, Admit, Wait, Run, CompleteWrite, CompleteRead, Release,
     channelVars, HeldUntilAck, TypeOK, ChannelTypeOK

(* The inductive invariant behind PublishedIsExact: publication needs the
   session complete in the store, which needs to know, at every point of the
   clear and of the load, how far the store follows the session and that no
   request of an earlier session can still write. *)
IInv == TypeOK /\ HeldUntilAck /\ SessionProgress /\ PublishedIsExact

LEMMA ControlStep ==
    ASSUME IInv, NEW in \in Ports, ControlEvent(in), MemoryClock(in),
           SessionStep(in), ChannelClock
    PROVE  SessionProgress' /\ PublishedIsExact'
<1> USE DEF IInv
<1>1. in.mem_ack = (chan = "ack")
  BY PortsType
<1>2. Detach(in) \/ LoadAbort(in) \/ ColdReset(in) \/ LoadBegin(in)
  BY DEF MemoryClock, Acked, Free, NewWord, NewRead, AckDiscarded, AckClear,
     AckLoad, AckCpu, HoldRequest, IssueClear, RejectLoad, IssueLoad, Publish,
     IssueRead, ReadOpenBus, Idle
<1>3. /\ discard_request' = mem_req' /\ clear_index' = 0 /\ request' = request
      /\ mem_req' => mem_req
  BY <1>2 DEF Detach, LoadAbort, ColdReset, LoadBegin, EndActivity, TypeOK, ChannelTypeOK,
     MemoryTypeOK
<1>4. CASE LoadBegin(in)
  <2>1. /\ session'.image = [a \in Addr |-> Zero] /\ ~session'.rejected
    BY <1>4 DEF LoadBegin, SessionStep
  <2> QED
    BY <1>3, <1>4, <2>1 DEF LoadBegin, SessionProgress, PublishedIsExact, Addr
<1>5. CASE Detach(in) \/ LoadAbort(in)
  BY <1>3, <1>5 DEF Detach, LoadAbort, SessionProgress, PublishedIsExact
<1>6. CASE ColdReset(in)
  <2>1. session' = session
    BY <1>6 DEF ColdReset, ResetEvent, SessionStep, BeginEvent, NewWord, Free,
       ControlEvent
  <2>2. image_valid => store' = store
    BY StoreStep DEF SessionProgress
  <2> QED
    BY <1>3, <1>6, <2>1, <2>2 DEF ColdReset, SessionProgress, PublishedIsExact
<1> QED BY <1>2, <1>4, <1>5, <1>6

LEMMA AckStep ==
    ASSUME IInv, NEW in \in Ports, ~ControlEvent(in), mem_req, chan = "ack",
           MemoryClock(in), SessionStep(in), ChannelClock
    PROVE  SessionProgress' /\ PublishedIsExact'
<1> USE DEF IInv
<1>1. in.mem_ack
  BY PortsType
<1>2. AckDiscarded(in) \/ AckClear(in) \/ AckLoad(in) \/ AckCpu(in)
  BY <1>1 DEF MemoryClock, Detach, LoadAbort, ColdReset, LoadBegin,
     ControlEvent, HoldRequest, Free, NewWord, NewRead, IssueClear, RejectLoad,
     IssueLoad, Publish, IssueRead, ReadOpenBus, Idle
<1>3. session' = session
  BY DEF SessionStep, ControlEvent, NewWord, Free
<1>4. store' = store /\ chan' = "idle"
  BY DEF ChannelClock, Admit, Wait, Run, CompleteWrite, CompleteRead, Release
<1>5. CASE AckDiscarded(in) \/ AckLoad(in) \/ AckCpu(in)
  BY <1>3, <1>4, <1>5 DEF AckDiscarded, AckLoad, AckCpu, Disowned, sessionVars,
     SessionProgress, PublishedIsExact, TypeOK, ChannelTypeOK, MemoryTypeOK
<1>6. CASE AckClear(in)
  <2>1. load_active /\ ~image_valid /\ ~discard_request
    BY <1>6 DEF AckClear, Disowned, SessionProgress
  <2>2. clear_active
    BY <1>6, <2>1 DEF AckClear, SessionProgress
  <2>3. \A a \in Addr : a <= clear_index => store[a] = Zero
    BY <2>1, <2>2 DEF SessionProgress, Addr, TypeOK, ChannelTypeOK, MemoryTypeOK
  <2>4. CASE LastCleared
    BY <1>3, <1>4, <1>6, <2>1, <2>2, <2>3, <2>4
       DEF AckClear, LastCleared, SessionProgress, PublishedIsExact, Addr
  <2>5. CASE ~LastCleared
    <3>a. /\ clear_index' = clear_index + 1 /\ mem_req'
          /\ clear_active' = clear_active /\ discard_request' = discard_request
          /\ request' = [kind |-> "clear", write |-> "clear" # "cpu",
                         addr |-> clear_index + 1, data |-> Zero]
          /\ image_valid' = image_valid /\ load_active' = load_active
          /\ load_error' = load_error
      BY <1>6, <2>5 DEF AckClear, LastCleared, Issue
    <3>1. /\ clear_index' = clear_index + 1 /\ mem_req' /\ clear_active'
          /\ ~discard_request' /\ ~image_valid' /\ load_active'
          /\ load_error' = load_error
          /\ request'.kind = "clear" /\ request'.write
          /\ request'.addr = clear_index' /\ request'.data = Zero
      BY <3>a, <2>1, <2>2
    <3>2. \A a \in Addr : a < clear_index' => store'[a] = Zero
      BY <3>1, <2>3, <1>4 DEF Addr, TypeOK, ChannelTypeOK, MemoryTypeOK
    <3> QED
      BY <3>1, <3>2, <1>3, <1>4, <2>1, <2>2 DEF SessionProgress, PublishedIsExact
  <2> QED BY <2>4, <2>5
<1> QED BY <1>2, <1>5, <1>6

(* A request is in SDRAM: the store may change under it, by its own write. *)
LEMMA HoldStep ==
    ASSUME IInv, NEW in \in Ports, ~ControlEvent(in), mem_req, chan # "ack",
           MemoryClock(in), SessionStep(in), ChannelClock
    PROVE  SessionProgress' /\ PublishedIsExact'
<1> USE DEF IInv
<1>1. ~in.mem_ack
  BY PortsType
<1>2. HoldRequest(in)
  BY <1>1 DEF MemoryClock, Detach, LoadAbort, ColdReset, LoadBegin,
     ControlEvent, Acked, AckDiscarded, AckClear, AckLoad, AckCpu, Free, NewWord,
     NewRead, IssueClear, RejectLoad, IssueLoad, Publish, IssueRead,
     ReadOpenBus, Idle
<1>3. session' = session
  BY DEF SessionStep, ControlEvent, NewWord, Free
<1>4. /\ mem_req' = mem_req /\ request' = request /\ image_valid' = image_valid
      /\ load_active' = load_active /\ clear_active' = clear_active
      /\ clear_index' = clear_index /\ load_error' = load_error
      /\ (discard_request' # discard_request => request.kind = "cpu")
      /\ (discard_request => discard_request')
  BY <1>2 DEF HoldRequest, Disowned, sessionVars, TypeOK, ChannelTypeOK, MemoryTypeOK
<1>5. CASE ~CompleteWrite
  <2>1. store' = store /\ (chan' = "ack" => ~request.write)
    BY <1>5 DEF ChannelClock, Admit, Wait, Run, CompleteRead, Release,
       channelVars, HeldUntilAck, TypeOK, ChannelTypeOK
  <2> QED
    BY <1>3, <1>4, <2>1 DEF SessionProgress, PublishedIsExact, TypeOK, ChannelTypeOK,
       MemoryTypeOK
<1>6. CASE CompleteWrite
  <2>1. /\ request.write /\ chan' = "ack" /\ ~image_valid
        /\ store' = [store EXCEPT ![request.addr] = request.data]
    BY <1>6 DEF CompleteWrite, HeldUntilAck, SessionProgress
  <2>2. /\ request.addr \in Addr
        /\ store'[request.addr] = request.data
        /\ \A a \in Addr : a # request.addr => store'[a] = store[a]
    BY <2>1 DEF TypeOK, ChannelTypeOK, MemoryTypeOK, Request
  <2>3. request.kind # "cpu" /\ discard_request' = discard_request
    BY <1>4, <2>1 DEF SessionProgress
  <2>4. CASE clear_active
    BY <1>3, <1>4, <2>1, <2>2, <2>3, <2>4 DEF SessionProgress, PublishedIsExact,
       Addr, TypeOK, ChannelTypeOK, MemoryTypeOK
  <2>5. CASE ~clear_active
    BY <1>3, <1>4, <2>1, <2>2, <2>3, <2>5 DEF SessionProgress, PublishedIsExact
  <2> QED BY <2>4, <2>5
<1> QED BY <1>5, <1>6

(* No request is outstanding: the service may issue one, publish, or idle. *)
LEMMA FreeStep ==
    ASSUME IInv, NEW in \in Ports, ~ControlEvent(in), ~mem_req,
           MemoryClock(in), SessionStep(in), ChannelClock
    PROVE  SessionProgress' /\ PublishedIsExact'
<1> USE DEF IInv
<1>1. store' = store /\ chan' = "idle"
  BY DEF ChannelClock, Admit, Wait, Run, CompleteWrite, CompleteRead, Release,
     channelVars, HeldUntilAck, TypeOK, ChannelTypeOK
<1>2. \/ IssueClear(in) \/ RejectLoad(in) \/ IssueLoad(in) \/ Publish(in)
      \/ IssueRead(in) \/ ReadOpenBus(in) \/ Idle(in)
  BY DEF MemoryClock, Detach, LoadAbort, ColdReset, LoadBegin, ControlEvent,
     Acked, AckDiscarded, AckClear, AckLoad, AckCpu, HoldRequest
<1>3. ~discard_request /\ ~BeginEvent(in)
  BY DEF SessionProgress, ControlEvent
<1>4. CASE IssueClear(in)
  <2>1. session' = session
    BY <1>3, <1>4 DEF IssueClear, SessionStep, NewWord
  <2>2. /\ mem_req' /\ discard_request' = discard_request
        /\ request' = [kind |-> "clear", write |-> "clear" # "cpu",
                       addr |-> clear_index, data |-> Zero]
        /\ image_valid' = image_valid /\ load_active' = load_active
        /\ clear_active' = clear_active /\ clear_index' = clear_index
        /\ load_error' = load_error /\ load_active /\ clear_active
    BY <1>4 DEF IssueClear, Issue, sessionVars
  <2>3. /\ request'.kind = "clear" /\ request'.write
        /\ request'.addr = clear_index /\ request'.data = Zero
    BY <2>2
  <2> QED
    BY <1>1, <1>3, <2>1, <2>2, <2>3 DEF SessionProgress, PublishedIsExact
<1>5. CASE RejectLoad(in)
  <2>1. session'.rejected /\ session'.image = session.image
    BY <1>3, <1>5 DEF RejectLoad, SessionStep, TypeOK, ChannelTypeOK
  <2> QED
    BY <1>1, <1>3, <1>5, <2>1 DEF RejectLoad, NewWord, SessionProgress,
       PublishedIsExact
<1>6. CASE IssueLoad(in)
  <2> DEFINE addr == in.load_word.addr
             data == in.load_word.data
  <2>1. /\ NewWord(in) /\ addr \in Addr
        /\ session' = [session EXCEPT !.image[addr] = data]
    BY <1>3, <1>6, PortsType DEF IssueLoad, SessionStep
  <2>2. /\ session'.image[addr] = data /\ session'.rejected = session.rejected
        /\ \A a \in Addr : a # addr => session'.image[a] = session.image[a]
    BY <2>1 DEF TypeOK, ChannelTypeOK
  <2>3. /\ mem_req' /\ discard_request' = discard_request
        /\ request' = [kind |-> "load", write |-> "load" # "cpu",
                       addr |-> addr, data |-> data]
        /\ image_valid' = image_valid /\ load_active' = load_active
        /\ clear_active' = clear_active /\ load_error' = load_error
        /\ load_active /\ ~clear_active
    BY <1>6 DEF IssueLoad, NewWord, Issue, sessionVars
  <2>4. /\ request'.kind = "load" /\ request'.write
        /\ request'.addr = addr /\ request'.data = data
    BY <2>3
  <2> HIDE DEF addr, data
  <2> QED
    BY <1>1, <1>3, <2>2, <2>3, <2>4 DEF SessionProgress, PublishedIsExact
<1>7. CASE Publish(in)
  <2>1. session' = session
    BY <1>3, <1>7 DEF Publish, SessionStep
  <2>2. /\ image_valid' /\ ~load_active' /\ ~load_error
        /\ mem_req' = mem_req /\ discard_request' = discard_request
        /\ clear_active' = clear_active /\ request' = request
        /\ load_active /\ ~clear_active
    BY <1>7 DEF Publish
  <2>3. \A a \in Addr : store[a] = session.image[a]
    BY <2>2 DEF SessionProgress
  <2>4. store = session.image
    BY <2>3 DEF TypeOK, ChannelTypeOK
  <2> QED
    BY <1>1, <1>3, <2>1, <2>2, <2>4 DEF SessionProgress, PublishedIsExact
<1>8. CASE IssueRead(in)
  <2>1. session' = session
    BY <1>3, <1>8 DEF IssueRead, NewRead, NewWord, SessionStep
  <2>2. /\ mem_req' /\ discard_request' = discard_request
        /\ request' = [kind |-> "cpu", write |-> "cpu" # "cpu",
                       addr |-> in.cpu_addr, data |-> Zero]
        /\ image_valid' = image_valid /\ load_active' = load_active
        /\ clear_active' = clear_active /\ ~load_active
    BY <1>8 DEF IssueRead, NewRead, Issue, sessionVars
  <2>3. request'.kind = "cpu" /\ ~request'.write
    BY <2>2
  <2> QED
    BY <1>1, <1>3, <2>1, <2>2, <2>3 DEF SessionProgress, PublishedIsExact
<1>9. CASE ReadOpenBus(in) \/ Idle(in)
  <2>1. session' = session
    BY <1>3, <1>9 DEF ReadOpenBus, Idle, NewRead, NewWord, SessionStep
  <2> QED
    BY <1>1, <1>3, <1>9, <2>1 DEF ReadOpenBus, Idle, sessionVars,
       SessionProgress, PublishedIsExact
<1> QED BY <1>2, <1>4, <1>5, <1>6, <1>7, <1>8, <1>9

LEMMA IInvInit == Init => IInv
<1> SUFFICES ASSUME Init PROVE IInv
  OBVIOUS
<1>1. TypeOK
  BY TypeInit
<1> QED
  BY <1>1 DEF Init, MemoryInit, MemoryQuiet, ChannelInit, IInv, HeldUntilAck, SessionProgress,
     PublishedIsExact

LEMMA IInvStep == IInv /\ [Next]_vars => IInv'
<1> SUFFICES ASSUME IInv, [Next]_vars PROVE IInv'
  OBVIOUS
<1>1. TypeOK'
  BY TypeStep DEF IInv
<1>2. CASE UNCHANGED vars
  BY <1>1, <1>2 DEF vars, memoryVars, sessionVars, channelVars, IInv,
     HeldUntilAck, SessionProgress, PublishedIsExact
<1>3. CASE Next
  <2>1. PICK in \in Ports : MemoryClock(in) /\ SessionStep(in) /\ ChannelClock /\ CpuPort
    BY <1>3 DEF Next
  <2>2. HeldUntilAck'
    BY <2>1, HeldStep DEF IInv
  <2>3. SessionProgress' /\ PublishedIsExact'
    BY <2>1, ControlStep, AckStep, HoldStep, FreeStep DEF IInv, HeldUntilAck
  <2> QED BY <1>1, <2>2, <2>3 DEF IInv
<1> QED BY <1>2, <1>3

(* The cartridge promise for every region size and every input history: the
   CPU can only ever see a complete image, exactly the one its session asked
   for, and never one with a rejected word. *)
THEOREM PublishedImageTheorem == Spec => []PublishedIsExact
<1>1. IInv => PublishedIsExact
  BY DEF IInv
<1> QED BY IInvInit, IInvStep, <1>1, PTL DEF Spec

(* The requests the service makes keep the contract of sdram.v. *)
THEOREM HeldUntilAckTheorem == Spec => [](HeldUntilAck /\ SessionProgress)
<1>1. IInv => HeldUntilAck /\ SessionProgress
  BY DEF IInv
<1> QED BY IInvInit, IInvStep, <1>1, PTL DEF Spec

-----------------------------------------------------------------------------
(* What ties an outstanding read to the cycle on the port: it is not disowned,
   so the bridge has held its cycle since it was issued, and the byte that
   comes back is read from the slot the request was latched into. *)
AnswerInv ==
    /\ mem_req /\ request.kind = "cpu" /\ ~discard_request =>
          request.addr = cpu_addr /\ image_valid
    /\ chan = "ack" /\ ~slot.write => mem_rdata = store[slot.addr]
    /\ cpu_granted =>
          /\ mem_req /\ ~discard_request /\ request.kind = "cpu"
          /\ chan \in {"run", "ack"}
    /\ AnswersOwnCycle

LEMMA ReadHeldStep ==
    ASSUME IInv, AnswerInv, NEW in \in Ports, MemoryClock(in), CpuPort,
           mem_req', request'.kind = "cpu", ~discard_request'
    PROVE  request'.addr = cpu_addr' /\ image_valid' /\ in.cpu_valid
<1> USE DEF IInv
<1>1. /\ in.cpu_valid = cpu_valid /\ in.cpu_addr = cpu_addr
      /\ in.mem_ack = (chan = "ack")
  BY PortsType
<1>2. ~ControlEvent(in)
  BY DEF MemoryClock, ControlEvent, Detach, LoadAbort, ColdReset, LoadBegin,
     EndActivity, Acked, Free, NewWord, NewRead, AckDiscarded, AckClear,
     AckLoad, AckCpu, HoldRequest, IssueClear, RejectLoad, IssueLoad, Publish,
     IssueRead, ReadOpenBus, Idle
<1>3. CASE IssueRead(in)
  <2>1. in.cpu_valid /\ image_valid' /\ request'.addr = in.cpu_addr
    BY <1>3 DEF IssueRead, NewRead, Issue
  <2> QED BY <1>1, <2>1 DEF CpuPort, TypeOK, ChannelTypeOK
<1>4. CASE HoldRequest(in)
  <2>1. /\ ~Disowned(in) /\ request' = request /\ image_valid' = image_valid
        /\ mem_req
    BY <1>4 DEF HoldRequest
  <2>2. ~discard_request /\ in.cpu_valid
    BY <2>1 DEF Disowned
  <2> QED BY <1>1, <2>1, <2>2 DEF CpuPort, AnswerInv, TypeOK, ChannelTypeOK
<1>5. CASE AckClear(in)
  BY <1>5 DEF AckClear, Issue
<1>6. CASE IssueClear(in) \/ IssueLoad(in)
  BY <1>6 DEF IssueClear, IssueLoad, Issue
<1> QED
  BY <1>2, <1>3, <1>4, <1>5, <1>6 DEF MemoryClock, ControlEvent, Detach,
     LoadAbort, ColdReset, LoadBegin, Acked, Free, NewWord, NewRead,
     AckDiscarded, AckLoad, AckCpu, RejectLoad, Publish, ReadOpenBus, Idle

LEMMA AnswerStep ==
    ASSUME IInv, AnswerInv, NEW in \in Ports, MemoryClock(in), SessionStep(in),
           ChannelClock, CpuPort
    PROVE  AnswersOwnCycle'
<1> SUFFICES ASSUME cpu_ready'
             PROVE  cpu_data' = IF image_valid' THEN session'.image[cpu_addr']
                                ELSE OpenBus
  BY DEF AnswersOwnCycle
<1> USE DEF IInv
<1>1. /\ in.cpu_valid = cpu_valid /\ in.cpu_addr = cpu_addr
      /\ in.mem_ack = (chan = "ack") /\ in.mem_rdata = mem_rdata
  BY PortsType
<1>2. AckCpu(in) \/ ReadOpenBus(in)
  BY DEF MemoryClock, Detach, LoadAbort, ColdReset, LoadBegin, EndActivity,
     AckDiscarded, AckClear, AckLoad, HoldRequest, IssueClear, RejectLoad,
     IssueLoad, Publish, IssueRead, Idle
<1>3. ~ControlEvent(in) /\ in.cpu_valid /\ (mem_req \/ ~load_active)
  BY <1>2 DEF AckCpu, Acked, Disowned, ReadOpenBus, NewRead, Free
<1>4. cpu_addr' = cpu_addr
  BY <1>1, <1>3 DEF CpuPort, TypeOK, ChannelTypeOK
<1>5. session' = session
  BY <1>3 DEF SessionStep, ControlEvent, NewWord, Free
<1>6. CASE AckCpu(in)
  <2>1. /\ mem_req /\ chan = "ack" /\ request.kind = "cpu" /\ ~discard_request
        /\ cpu_data' = mem_rdata /\ image_valid' = image_valid
    BY <1>1, <1>6 DEF AckCpu, Acked, Disowned
  <2>2. slot = request /\ ~slot.write /\ store = session.image
    BY <2>1 DEF HeldUntilAck, SessionProgress, PublishedIsExact, AnswerInv
  <2> QED BY <1>4, <1>5, <2>1, <2>2 DEF AnswerInv
<1>7. CASE ReadOpenBus(in)
  BY <1>7 DEF ReadOpenBus
<1> QED BY <1>2, <1>6, <1>7

LEMMA GrantedStep ==
    ASSUME IInv, AnswerInv, NEW in \in Ports, MemoryClock(in), ChannelClock,
           cpu_granted'
    PROVE  /\ mem_req' /\ ~discard_request' /\ request'.kind = "cpu"
           /\ chan' \in {"run", "ack"}
<1> USE DEF IInv
<1>1. in.mem_ack = (chan = "ack") /\ in.mem_grant = (chan = "granted")
  BY PortsType
<1>2. GrantStep(in)
  BY DEF MemoryClock, Detach, LoadAbort, ColdReset, LoadBegin, EndActivity,
     AckDiscarded, AckClear, AckLoad, AckCpu, HoldRequest, IssueClear,
     RejectLoad, IssueLoad, Publish, IssueRead, ReadOpenBus, Idle
<1>3. /\ ~ControlEvent(in) /\ mem_req /\ chan # "ack" /\ request.kind = "cpu"
      /\ ~discard_request /\ in.cpu_valid /\ (cpu_granted \/ chan = "granted")
  BY <1>1, <1>2 DEF GrantStep
<1>4. HoldRequest(in)
  BY <1>1, <1>3 DEF MemoryClock, Detach, LoadAbort, ColdReset, LoadBegin,
     ControlEvent, Acked, AckDiscarded, AckClear, AckLoad, AckCpu, Free, NewWord,
     NewRead, IssueClear, RejectLoad, IssueLoad, Publish, IssueRead,
     ReadOpenBus, Idle
<1>5. mem_req' /\ ~discard_request' /\ request'.kind = "cpu"
  BY <1>3, <1>4 DEF HoldRequest, Disowned
<1>6. chan \in {"granted", "run"}
  BY <1>3 DEF AnswerInv
<1>7. chan' \in {"run", "ack"}
  BY <1>6 DEF ChannelClock, Admit, Wait, Run, CompleteWrite, CompleteRead,
     Release, channelVars
<1> QED BY <1>5, <1>7

LEMMA AnswerInvStep == IInv /\ AnswerInv /\ [Next]_vars => AnswerInv'
<1> SUFFICES ASSUME IInv, AnswerInv, [Next]_vars PROVE AnswerInv'
  OBVIOUS
<1>1. CASE UNCHANGED vars
  BY <1>1 DEF vars, memoryVars, sessionVars, channelVars, AnswerInv, AnswersOwnCycle
<1>2. CASE Next
  <2>1. PICK in \in Ports : MemoryClock(in) /\ SessionStep(in) /\ ChannelClock /\ CpuPort
    BY <1>2 DEF Next
  <2>2. chan' = "ack" /\ ~slot'.write => mem_rdata' = store'[slot'.addr]
    BY <2>1 DEF ChannelClock, Admit, Wait, Run, CompleteWrite, CompleteRead,
       Release, channelVars
  <2> QED
    BY <2>1, <2>2, ReadHeldStep, AnswerStep, GrantedStep DEF AnswerInv
<1> QED BY <1>1, <1>2

(* Whatever the bridge cancels and the controls interrupt, a completion or a
   grant the bridge sees belongs to the cycle on its port. *)
THEOREM AnswerTheorem == Spec => [](AnswersOwnCycle /\ GrantIsCurrent)
<1>1. Init => AnswerInv
  BY DEF Init, MemoryInit, MemoryQuiet, ChannelInit, AnswerInv, AnswersOwnCycle
<1>2. IInv /\ AnswerInv => AnswersOwnCycle /\ GrantIsCurrent
  BY DEF IInv, AnswerInv, GrantIsCurrent, HeldUntilAck
<1> QED BY IInvInit, IInvStep, AnswerInvStep, <1>1, <1>2, PTL DEF Spec

-----------------------------------------------------------------------------
(* The memory service implements AtomicImage: readers see no image, or one
   complete image that never changes while it is visible. *)
LEMMA AtomicStep ==
    ASSUME IInv, IInv', [Next]_vars
    PROVE  Atomic!Next \/ UNCHANGED <<IF image_valid THEN store ELSE NoImage,
                                      session.image>>
<1> USE DEF IInv
<1>1. CASE UNCHANGED vars
  BY <1>1 DEF vars, memoryVars, sessionVars, channelVars, NoImage
<1>2. CASE Next
  <2>1. PICK in \in Ports : MemoryClock(in) /\ SessionStep(in) /\ ChannelClock /\ CpuPort
    BY <1>2 DEF Next
  <2>2. image_valid => store' = store
    BY <2>1, StoreStep DEF SessionProgress
  <2>3. NoImage' = NoImage
    BY DEF NoImage
  <2>4. CASE BeginEvent(in)
    <3>1. LoadBegin(in)
      BY <2>1, <2>4 DEF MemoryClock, Detach, LoadAbort, ColdReset, LoadBegin,
         DetachEvent, AbortEvent, ResetEvent, BeginEvent, ControlEvent, Acked,
         Free, NewWord, NewRead, AckDiscarded, AckClear, AckLoad, AckCpu,
         HoldRequest, IssueClear, RejectLoad, IssueLoad, Publish, IssueRead,
         ReadOpenBus, Idle
    <3>2. ~image_valid' /\ session'.image = [a \in Addr |-> Zero]
      BY <2>1, <2>4, <3>1 DEF LoadBegin, SessionStep
    <3> QED BY <2>3, <3>2 DEF Atomic!Next, Atomic!Restart
  <2>5. CASE ~BeginEvent(in) /\ NewWord(in)
    <3>1. load_active /\ ~image_valid
      BY <2>5 DEF NewWord, SessionProgress
    <3>2. ~image_valid'
      BY <2>1, <2>5, <3>1 DEF MemoryClock, Detach, LoadAbort, ColdReset,
         LoadBegin, NewWord, NewRead, Free, ControlEvent, Acked, AckDiscarded,
         AckClear, AckLoad, AckCpu, HoldRequest, IssueClear, RejectLoad,
         IssueLoad, Publish, IssueRead, ReadOpenBus, Idle, sessionVars
    <3>3. CASE in.load_word.wide
      <4>1. session'.image = session.image
        BY <2>1, <2>5, <3>3 DEF SessionStep, TypeOK, ChannelTypeOK
      <4> QED BY <2>3, <3>1, <3>2, <4>1
    <3>4. CASE ~in.load_word.wide
      <4>1. PICK a \in Addr, c \in Byte :
              session'.image = [session.image EXCEPT ![a] = c]
        BY <2>1, <2>5, <3>4, PortsType DEF SessionStep, TypeOK, ChannelTypeOK
      <4> QED BY <2>3, <3>1, <3>2, <4>1 DEF Atomic!Next, Atomic!Put
    <3> QED BY <3>3, <3>4
  <2>6. CASE ~BeginEvent(in) /\ ~NewWord(in)
    <3>1. session' = session
      BY <2>1, <2>6 DEF SessionStep
    <3>2. CASE ~image_valid'
      BY <2>3, <3>1, <3>2 DEF Atomic!Next, Atomic!Withdraw
    <3>3. CASE image_valid'
      <4>1. store' = session.image
        BY <3>1, <3>3 DEF PublishedIsExact
      <4> QED
        BY <2>2, <2>3, <3>1, <3>3, <4>1 DEF Atomic!Next, Atomic!Appear
    <3> QED BY <3>2, <3>3
  <2> QED BY <2>4, <2>5, <2>6
<1> QED BY <1>1, <1>2

THEOREM AtomicTheorem == Spec => ImplementsAtomicImage
<1>1. Init => Atomic!Init
  BY DEF Init, MemoryInit, MemoryQuiet, ChannelInit, Atomic!Init
<1>2. IInv /\ IInv' /\ [Next]_vars =>
         [Atomic!Next]_<<IF image_valid THEN store ELSE NoImage, session.image>>
  BY AtomicStep
<1> QED BY IInvInit, IInvStep, <1>1, <1>2, PTL DEF Spec, ImplementsAtomicImage, Atomic!Spec
=============================================================================
