------------------------ MODULE PlusCartridgeMemory ------------------------
(***************************************************************************)
(* rtl/plus/plus_cartridge_memory.v: the service that owns the 512 KiB     *)
(* cartridge region of SDRAM bank 3.  One loader writes a new image, one   *)
(* CPU bridge reads the published one, and five controls interrupt both.   *)
(*                                                                         *)
(* The VARIABLES are the registers.  Every action below is one clk edge:   *)
(* it reads the registers and the sampled input ports, the record "in",    *)
(* and assigns every register.  Exactly one of them is enabled per "in"    *)
(* (they are the branches of one always block).                            *)
(***************************************************************************)
EXTENDS Integers

CONSTANTS
    LastAddr,   \* CLEAR_BYTES - 1: last byte of the region
    Byte,       \* the byte values told apart
    Zero,       \* the byte the region is cleared to
    OpenBus     \* the byte read when no image is published (0xFF)

ASSUME MemoryAssumption ==
    /\ LastAddr \in Nat
    /\ Zero \in Byte
    /\ OpenBus \in Byte

Addr == 0..LastAddr
Controls == {"detach", "load_abort", "cold_reset", "load_begin", "load_commit"}

VARIABLES
    image_valid,                    \* a complete image is published
    load_active, clear_active,      \* a session is open / is still clearing
    clear_index, commit_pending, load_error,
    load_ready, cpu_ready,          \* completion pulses
    cpu_data, cpu_granted,
    mem_req, request,               \* held request: request_kind and mem_*
    discard_request,                \* its completion belongs to nobody
    consumed                        \* the *_consumed registers that are set

sessionVars == <<load_active, clear_active, clear_index, load_error>>
memoryVars == <<image_valid, sessionVars, commit_pending, load_ready,
                cpu_ready, cpu_data, cpu_granted, mem_req, request,
                discard_request, consumed>>

(* request_kind together with mem_write, mem_addr and mem_wdata. *)
Request == [kind : {"clear", "load", "cpu"}, write : BOOLEAN,
            addr : Addr, data : Byte]

MemoryTypeOK ==
    /\ {image_valid, load_active, clear_active, commit_pending, load_error,
        load_ready, cpu_ready, cpu_granted, mem_req, discard_request}
           \subseteq BOOLEAN
    /\ clear_index \in Addr
    /\ cpu_data \in Byte
    /\ request \in Request
    /\ consumed \subseteq (Controls \cup {"load_valid", "cpu_valid"})

(* No session and no request: the registers after a reset. *)
MemoryQuiet ==
    /\ load_active = FALSE /\ clear_active = FALSE
    /\ clear_index = 0 /\ commit_pending = FALSE /\ load_error = FALSE
    /\ load_ready = FALSE /\ cpu_ready = FALSE /\ cpu_data = OpenBus
    /\ cpu_granted = FALSE /\ mem_req = FALSE /\ discard_request = FALSE
    /\ request = [kind |-> "clear", write |-> FALSE, addr |-> 0, data |-> Zero]
    /\ consumed = {}

MemoryInit == image_valid = FALSE /\ MemoryQuiet

-----------------------------------------------------------------------------
(* The control events: a level is consumed once and rearmed by its release.
   detach > load_abort > cold_reset > load_begin > load_commit. *)

DetachEvent(in) == "detach" \in in.controls \ consumed
AbortEvent(in) ==
    "load_abort" \in in.controls \ consumed /\ "detach" \notin in.controls
ResetEvent(in) ==
    "cold_reset" \in in.controls /\ ~DetachEvent(in) /\ ~AbortEvent(in)
BeginEvent(in) ==
    /\ "load_begin" \in in.controls \ consumed
    /\ in.controls \cap {"detach", "load_abort", "cold_reset"} = {}
CommitEvent(in) ==
    /\ "load_commit" \in in.controls \ consumed
    /\ in.controls \subseteq {"load_commit"}
ControlEvent(in) == \/ DetachEvent(in) \/ AbortEvent(in)
                    \/ ResetEvent(in) \/ BeginEvent(in)

(* The *_consumed registers: every asserted control, even one hidden by a
   stronger one, and the given request ports.  cold_reset is a level. *)
Consume(in, ports) == consumed' = (in.controls \ {"cold_reset"}) \cup ports
Held(in) == {p \in {"load_valid", "cpu_valid"} : in[p]}
StillHeld(in) == Held(in) \cap consumed

(* Fault: the grant of a read nobody waits for is shown to the next cycle. *)
GrantStepDisowned(in) ==
    cpu_granted' = /\ ~ControlEvent(in)
                   /\ mem_req /\ ~in.mem_ack /\ request.kind = "cpu"
                   /\ in.cpu_valid
                   /\ cpu_granted \/ in.mem_grant
(* The second always block: a grant describes only the live CPU request. *)
GrantStep(in) ==
    cpu_granted' = /\ ~ControlEvent(in)
                   /\ mem_req /\ ~in.mem_ack /\ request.kind = "cpu"
                   /\ ~discard_request /\ in.cpu_valid
                   /\ cpu_granted \/ in.mem_grant

(* A control ends the session; a request still in SDRAM is held and its
   completion disowned, any other is dropped. *)
EndActivity(in) ==
    /\ mem_req' = (mem_req /\ ~in.mem_ack)
    /\ discard_request' = (mem_req /\ ~in.mem_ack)
    /\ clear_index' = 0 /\ commit_pending' = FALSE /\ load_error' = FALSE
    /\ load_ready' = FALSE /\ cpu_ready' = FALSE
    /\ GrantStep(in)
    /\ UNCHANGED <<request, cpu_data>>

Detach(in) ==
    /\ DetachEvent(in)
    /\ image_valid' = FALSE /\ load_active' = FALSE /\ clear_active' = FALSE
    /\ Consume(in, Held(in))
    /\ EndActivity(in)

LoadAbort(in) ==
    /\ AbortEvent(in)
    /\ image_valid' = FALSE /\ load_active' = FALSE /\ clear_active' = FALSE
    /\ Consume(in, Held(in))
    /\ EndActivity(in)

(* A machine reset keeps the published image. *)
ColdReset(in) ==
    /\ ResetEvent(in)
    /\ load_active' = FALSE /\ clear_active' = FALSE
    /\ Consume(in, Held(in))
    /\ EndActivity(in)
    /\ UNCHANGED image_valid

(* Fault: the old image stays published while it is being replaced. *)
LoadBeginKeepsImage(in) ==
    /\ BeginEvent(in)
    /\ load_active' = TRUE /\ clear_active' = TRUE
    /\ Consume(in, Held(in) \ {"cpu_valid"})
    /\ EndActivity(in)
    /\ UNCHANGED image_valid

(* A CPU cycle held through the load is not consumed: it is replayed. *)
LoadBegin(in) ==
    /\ BeginEvent(in)
    /\ image_valid' = FALSE /\ load_active' = TRUE /\ clear_active' = TRUE
    /\ Consume(in, Held(in) \ {"cpu_valid"})
    /\ EndActivity(in)

-----------------------------------------------------------------------------
(* The edges with no control event. *)

Commit(in) == commit_pending' = (commit_pending \/ (CommitEvent(in) /\ load_active))

Issue(kind, addr, data) ==
    /\ mem_req' = TRUE
    /\ request' = [kind |-> kind, write |-> kind # "cpu", addr |-> addr, data |-> data]
    /\ UNCHANGED discard_request

Acked(in) == ~ControlEvent(in) /\ mem_req /\ in.mem_ack
(* Fault: the answer to a cycle the bridge gave up is not recognised. *)
DisownedByControlOnly(in) == discard_request
Disowned(in) == discard_request \/ (request.kind = "cpu" /\ ~in.cpu_valid)

(* The acknowledgement of a request nobody waits for any more. *)
AckDiscarded(in) ==
    /\ Acked(in) /\ Disowned(in)
    /\ mem_req' = FALSE /\ discard_request' = FALSE
    /\ load_ready' = FALSE /\ cpu_ready' = FALSE
    /\ Commit(in) /\ Consume(in, StillHeld(in)) /\ GrantStep(in)
    /\ UNCHANGED <<image_valid, sessionVars, cpu_data, request>>

(* Fault: one byte too few. *)
LastClearedEarly == clear_index + 1 >= LastAddr
LastCleared == clear_index = LastAddr

(* The next clear write follows on the same edge, until the last one. *)
AckClear(in) ==
    /\ Acked(in) /\ ~Disowned(in) /\ request.kind = "clear"
    /\ \/ /\ LastCleared
          /\ clear_active' = FALSE /\ mem_req' = FALSE
          /\ UNCHANGED <<clear_index, request, discard_request>>
       \/ /\ ~LastCleared
          /\ clear_index' = clear_index + 1
          /\ Issue("clear", clear_index + 1, Zero)
          /\ UNCHANGED clear_active
    /\ load_ready' = FALSE /\ cpu_ready' = FALSE
    /\ Commit(in) /\ Consume(in, StillHeld(in)) /\ GrantStep(in)
    /\ UNCHANGED <<image_valid, load_active, load_error, cpu_data>>

AckLoad(in) ==
    /\ Acked(in) /\ ~Disowned(in) /\ request.kind = "load"
    /\ mem_req' = FALSE /\ load_ready' = TRUE /\ cpu_ready' = FALSE
    /\ Commit(in) /\ Consume(in, StillHeld(in)) /\ GrantStep(in)
    /\ UNCHANGED <<image_valid, sessionVars, cpu_data, request, discard_request>>

AckCpu(in) ==
    /\ Acked(in) /\ ~Disowned(in) /\ request.kind = "cpu"
    /\ mem_req' = FALSE /\ load_ready' = FALSE
    /\ cpu_ready' = TRUE /\ cpu_data' = in.mem_rdata
    /\ Commit(in) /\ Consume(in, StillHeld(in)) /\ GrantStep(in)
    /\ UNCHANGED <<image_valid, sessionVars, request, discard_request>>

(* The request is held; a CPU cycle that vanished disowns its read. *)
HoldRequest(in) ==
    /\ ~ControlEvent(in) /\ mem_req /\ ~in.mem_ack
    /\ discard_request' = Disowned(in)
    /\ load_ready' = FALSE /\ cpu_ready' = FALSE
    /\ Commit(in) /\ Consume(in, StillHeld(in)) /\ GrantStep(in)
    /\ UNCHANGED <<image_valid, sessionVars, cpu_data, mem_req, request>>

Free(in) == ~ControlEvent(in) /\ ~mem_req

IssueClear(in) ==
    /\ Free(in) /\ load_active /\ clear_active
    /\ Issue("clear", clear_index, Zero)
    /\ load_ready' = FALSE /\ cpu_ready' = FALSE
    /\ Commit(in) /\ Consume(in, StillHeld(in)) /\ GrantStep(in)
    /\ UNCHANGED <<image_valid, sessionVars, cpu_data>>

NewWord(in) == /\ Free(in) /\ load_active /\ ~clear_active
               /\ in.load_valid /\ "load_valid" \notin consumed

(* A word outside the region is answered but makes the session fail. *)
RejectLoad(in) ==
    /\ NewWord(in) /\ in.load_word.wide
    /\ load_ready' = TRUE /\ load_error' = TRUE /\ cpu_ready' = FALSE
    /\ Commit(in) /\ Consume(in, StillHeld(in) \cup {"load_valid"}) /\ GrantStep(in)
    /\ UNCHANGED <<image_valid, load_active, clear_active, clear_index,
                   cpu_data, mem_req, request, discard_request>>

IssueLoad(in) ==
    /\ NewWord(in) /\ ~in.load_word.wide
    /\ Issue("load", in.load_word.addr, in.load_word.data)
    /\ load_ready' = FALSE /\ cpu_ready' = FALSE
    /\ Commit(in) /\ Consume(in, StillHeld(in) \cup {"load_valid"}) /\ GrantStep(in)
    /\ UNCHANGED <<image_valid, sessionVars, cpu_data>>

Publish(in) ==
    /\ Free(in) /\ load_active /\ ~clear_active /\ ~NewWord(in)
    /\ commit_pending /\ ~load_error
    /\ image_valid' = TRUE /\ load_active' = FALSE /\ commit_pending' = FALSE
    /\ load_ready' = FALSE /\ cpu_ready' = FALSE
    /\ Consume(in, StillHeld(in)) /\ GrantStep(in)
    /\ UNCHANGED <<clear_active, clear_index, load_error, cpu_data, mem_req,
                   request, discard_request>>

NewRead(in) == /\ Free(in) /\ ~load_active
               /\ in.cpu_valid /\ "cpu_valid" \notin consumed

IssueRead(in) ==
    /\ NewRead(in) /\ image_valid
    /\ Issue("cpu", in.cpu_addr, Zero)
    /\ load_ready' = FALSE /\ cpu_ready' = FALSE
    /\ Commit(in) /\ Consume(in, StillHeld(in) \cup {"cpu_valid"}) /\ GrantStep(in)
    /\ UNCHANGED <<image_valid, sessionVars, cpu_data>>

ReadOpenBus(in) ==
    /\ NewRead(in) /\ ~image_valid
    /\ cpu_ready' = TRUE /\ cpu_data' = OpenBus /\ load_ready' = FALSE
    /\ Commit(in) /\ Consume(in, StillHeld(in) \cup {"cpu_valid"}) /\ GrantStep(in)
    /\ UNCHANGED <<image_valid, sessionVars, mem_req, request, discard_request>>

(* Nothing to do: the session waits for a word, or no CPU cycle is new. *)
Idle(in) ==
    /\ Free(in) /\ ~NewRead(in)
    /\ load_active => /\ ~clear_active /\ ~NewWord(in)
                      /\ ~(commit_pending /\ ~load_error)
    /\ load_ready' = FALSE /\ cpu_ready' = FALSE
    /\ Commit(in) /\ Consume(in, StillHeld(in)) /\ GrantStep(in)
    /\ UNCHANGED <<image_valid, sessionVars, cpu_data, mem_req, request,
                   discard_request>>

MemoryClock(in) ==
    \/ Detach(in) \/ LoadAbort(in) \/ ColdReset(in) \/ LoadBegin(in)
    \/ AckDiscarded(in) \/ AckClear(in) \/ AckLoad(in) \/ AckCpu(in)
    \/ HoldRequest(in) \/ IssueClear(in) \/ RejectLoad(in) \/ IssueLoad(in)
    \/ Publish(in) \/ IssueRead(in) \/ ReadOpenBus(in) \/ Idle(in)
=============================================================================
