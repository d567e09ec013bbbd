--------------------------- MODULE CartridgeImage ---------------------------
(***************************************************************************)
(* The cartridge memory service together with its SDRAM channel            *)
(* (rtl/sdram.v) under every sequence of controls and loader words, and a  *)
(* CPU bridge that may give up a cycle at any time.                        *)
(***************************************************************************)
EXTENDS CartridgeChannel

CONSTANTS
    LoadAddrs, LoadBytes,       \* the words a loader may offer
    ControlSets                 \* the controls that may be asserted together

ASSUME InputsAssumption ==
    /\ LoadAddrs \subseteq Addr /\ LoadBytes \subseteq Byte
    /\ ControlSets \subseteq SUBSET Controls

LoadWords == [wide : BOOLEAN, addr : LoadAddrs, data : LoadBytes]

VARIABLES
    cpu_valid, cpu_addr,        \* the bridge's request port
    session                     \* what the current session asked for

vars == <<memoryVars, cpu_valid, cpu_addr, channelVars, session>>

TypeOK ==
    /\ MemoryTypeOK
    /\ cpu_valid \in BOOLEAN /\ cpu_addr \in Addr
    /\ ChannelTypeOK
    /\ session \in [image : [Addr -> Byte], rejected : BOOLEAN]

Init ==
    /\ MemoryInit /\ ChannelInit
    /\ cpu_valid = FALSE /\ cpu_addr = 0
    /\ session = [image |-> [a \in Addr |-> Zero], rejected |-> FALSE]

(* The sampled ports of one clock edge. *)
Ports == [controls : ControlSets,
          load_valid : BOOLEAN, load_word : LoadWords,
          cpu_valid : {cpu_valid}, cpu_addr : {cpu_addr},
          mem_ack : {chan = "ack"}, mem_grant : {chan = "granted"},
          mem_rdata : {mem_rdata}]

-----------------------------------------------------------------------------
(* plus_mmu holds the address of a cycle while it holds cart_valid. *)
CpuPort ==
    \/ ~cpu_valid /\ cpu_valid' = TRUE /\ cpu_addr' \in Addr
    \/ cpu_valid' = FALSE /\ UNCHANGED cpu_addr
    \/ UNCHANGED <<cpu_valid, cpu_addr>>

(* What the loader asked this session for, independently of SDRAM. *)
SessionStep(in) ==
    session' = IF BeginEvent(in)
               THEN [image |-> [a \in Addr |-> Zero], rejected |-> FALSE]
               ELSE IF ~NewWord(in) THEN session
               ELSE IF in.load_word.wide THEN [session EXCEPT !.rejected = TRUE]
               ELSE [session EXCEPT !.image[in.load_word.addr] = in.load_word.data]

Next == \E in \in Ports :
    MemoryClock(in) /\ SessionStep(in) /\ ChannelClock /\ CpuPort

Spec == Init /\ [][Next]_vars

-----------------------------------------------------------------------------
(* A published image is byte for byte the one its session asked for: the
   cleared region and every accepted word, none of an earlier session, and no
   word of it was rejected.  "the CPU can never observe a partly replaced
   image" / "an errored session cannot be committed". *)
PublishedIsExact == image_valid => store = session.image /\ ~session.rejected

(* A completion answers the CPU cycle that is on the port: the byte at its own
   address of the published image, or open bus when there is none.  A read of
   a cancelled cycle, of another address or of a withdrawn image never comes
   back as an answer ("cpu_ready is never pulsed for it"). *)
AnswersOwnCycle ==
    cpu_ready => cpu_data = IF image_valid THEN session.image[cpu_addr] ELSE OpenBus

(* cpu_granted while the cycle lives describes the read that is in the SDRAM
   slot for this very cycle, and nothing has disowned it: "a stale admission
   can never release a newer CPU cycle". *)
GrantIsCurrent ==
    cpu_granted /\ cpu_valid =>
        /\ mem_req /\ ~discard_request /\ chan \in {"run", "ack"}
        /\ slot.kind = "cpu" /\ slot.addr = cpu_addr /\ image_valid

(* Why the image is exact, while it is still being written.  Every byte below
   clear_index is cleared, and so is the byte being cleared once its write is
   acknowledged; after the clear the store differs from the session at most in
   the word in flight.  A disowned request of the previous session can only be
   outstanding before the first clear write, and a published image has no
   write outstanding. *)
SessionProgress ==
    /\ discard_request => mem_req
    /\ clear_active => load_active
    /\ image_valid => ~load_active
    /\ mem_req => (request.write <=> request.kind # "cpu")
    /\ mem_req /\ image_valid => request.kind = "cpu"
    /\ mem_req /\ request.write /\ ~discard_request => load_active
    /\ load_active /\ ~load_error => ~session.rejected
    /\ clear_active =>
          /\ session.image = [a \in Addr |-> Zero]
          /\ \A a \in Addr : a < clear_index => store[a] = Zero
          /\ mem_req /\ discard_request => clear_index = 0
          /\ mem_req /\ ~discard_request =>
                /\ request.kind = "clear" /\ request.data = Zero
                /\ request.addr = clear_index
                /\ chan = "ack" => store[clear_index] = Zero
    /\ load_active /\ ~clear_active =>
          /\ mem_req => /\ ~discard_request /\ request.kind = "load"
                        /\ session.image[request.addr] = request.data
          /\ \A a \in Addr :
                \/ store[a] = session.image[a]
                \/ mem_req /\ chan # "ack" /\ a = request.addr

(* Readers see one atomic image: the refinement of AtomicImage. *)
NoImage == [a \in {} |-> Zero]
Atomic == INSTANCE AtomicImage WITH
    Address <- Addr, Contents <- Byte, Blank <- Zero,
    visible <- IF image_valid THEN store ELSE NoImage,
    staged <- session.image
ImplementsAtomicImage == Atomic!Spec
=============================================================================
