----------------------------- MODULE CartPorts -----------------------------
(***************************************************************************)
(* The SDRAM with its main port, video, and the two clients of the         *)
(* cartridge port behind sna_cart_mux: A, the cartridge memory, which      *)
(* holds every request until its acknowledge (HeldUntilAck), and B, the    *)
(* RAM reads of sna_save_stream, which an abort may drop at any time.      *)
(***************************************************************************)
EXTENDS MainPort, SnaCartMux

CONSTANTS
    CartCells,      \* cells of the cartridge region
    Saves,          \* whether client B ever runs
    MaxWait         \* bound: slots a waiting client is made to wait

(* The cartridge region of bank 3 is apart from what the main port reaches. *)
ASSUME PortsAssumption ==
    /\ CartCells # {} /\ CartCells \subseteq Cells /\ CartCells \cap MainCells = {}
    /\ MaxWait \in Nat /\ Saves \in BOOLEAN

VARIABLES
    init,                       \* ~locked
    vram_addr,
    a_req, a_wr, a_addr, a_din, \* client A
    b_req, b_addr, b_yield,     \* client B: request and yield_state
    b_running, b_rest,          \* a save is dumping RAM; edges since its abort
    a_slots, a_wait,            \* slots given to A's request; slots it waited
    carts                       \* cartridge slots since the last refresh

aVars == <<a_req, a_wr, a_addr, a_din>>
bVars == <<b_req, b_addr, b_yield, b_running, b_rest>>
ghostVars == <<a_slots, a_wait, carts>>
vars == <<controllerVars, muxVars, mainVars, init, vram_addr, aVars, bVars, ghostVars>>

Init ==
    /\ ControllerInit /\ MuxInit /\ MainInit
    /\ init = TRUE /\ vram_addr \in MainCells
    /\ a_req = FALSE /\ a_wr = FALSE /\ a_din = data
    /\ a_addr = CHOOSE c \in CartCells : TRUE
    /\ b_req = FALSE /\ b_addr = main.addr /\ b_yield = "idle"
    /\ b_running = FALSE /\ b_rest = 0
    /\ a_slots = 0 /\ a_wait = 0 /\ carts = 0

a_ack == AckToA(cart_ack)
b_ack == AckToB(cart_ack)
ClkrefEdge == q = 7

-----------------------------------------------------------------------------
(* Client A, one clock: a request may follow an acknowledge at once. *)
ANext ==
    \/ /\ ~a_req \/ a_ack
       /\ a_req' = TRUE /\ a_addr' \in CartCells
       /\ \/ a_wr' = TRUE /\ a_din' \in Byte
          \/ a_wr' = FALSE /\ UNCHANGED a_din
    \/ /\ a_req' = (a_req /\ ~a_ack) /\ UNCHANGED <<a_wr, a_addr, a_din>>

(* yield_state: after an acknowledge one arbitration goes by. *)
Yield(acked) ==
    b_yield' = CASE acked -> "ref"
                 [] b_yield = "ref" /\ ClkrefEdge /\ ~acked -> "arb"
                 [] b_yield = "arb" /\ ~acked -> "idle"
                 [] OTHER -> b_yield

(* Client B: abort, start of a dump, request, acknowledge, wait.  A dump starts
   behind the header words, two slots at least after an abort. *)
BAbort ==
    /\ b_running /\ b_running' = FALSE /\ b_req' = FALSE
    /\ b_yield' = "idle" /\ b_rest' = 2 /\ UNCHANGED b_addr
BStart ==
    /\ Saves /\ ~b_running /\ b_rest = 0 /\ b_running' = TRUE
    /\ Yield(FALSE) /\ UNCHANGED <<b_req, b_addr, b_rest>>
BRequest ==
    /\ b_running /\ ~b_req /\ b_yield = "idle"
    /\ b_req' = TRUE /\ b_addr' \in MainCells
    /\ Yield(FALSE) /\ UNCHANGED <<b_running, b_rest>>
(* Fault: the next request takes the place of the acknowledged one. *)
BAckedAgain ==
    /\ b_req /\ b_ack /\ b_addr' \in MainCells
    /\ Yield(FALSE) /\ UNCHANGED <<b_req, b_running, b_rest>>
BAcked ==
    /\ b_req /\ b_ack /\ b_req' = FALSE
    /\ Yield(TRUE) /\ UNCHANGED <<b_addr, b_running, b_rest>>
BWaits ==
    /\ ~(b_req /\ b_ack) /\ Yield(FALSE)
    /\ b_rest' = b_rest - (IF ClkrefEdge /\ b_rest > 0 THEN 1 ELSE 0)
    /\ UNCHANGED <<b_req, b_addr, b_running>>
BNext == BAbort \/ BStart \/ BRequest \/ BAcked \/ BWaits

(* The video address moves with the character clock. *)
VideoNext == IF q = 7 THEN vram_addr' \in MainCells ELSE UNCHANGED vram_addr

SdramPorts ==
    [init |-> init, oe |-> main.strobe = "rd", we |-> main.strobe = "wr",
     addr |-> main.addr, din |-> main.din,
     cart_req |-> CartReq(a_req, b_req), cart_wr |-> ~owner_b /\ a_wr,
     cart_addr |-> IF owner_b THEN b_addr ELSE a_addr, cart_din |-> a_din,
     vram_addr |-> vram_addr,
     tape_rd |-> FALSE, tape_wr |-> FALSE, tape_addr |-> a, tape_din |-> data]

AdmittedA == q = 0 /\ client' = "cart" /\ ~owner_b

Watch ==
    /\ a_slots' = IF AdmittedA THEN a_slots + 1
                  ELSE IF ~a_req \/ a_ack THEN 0 ELSE a_slots
    /\ a_wait' = IF ~a_req \/ a_ack \/ a_slots > 0 \/ ~Ready(SdramPorts) \/ AdmittedA THEN 0
                 ELSE IF q = 0 /\ a_wait <= MaxWait THEN a_wait + 1 ELSE a_wait
    /\ carts' = IF Refreshing THEN 0
                ELSE IF q = 0 /\ client' = "cart" THEN carts + 1 ELSE carts

Next ==
    /\ SdramClock(SdramPorts)
    /\ MuxClock(a_req, b_req, ClkrefEdge)
    /\ MainClock /\ ANext /\ BNext /\ VideoNext
    /\ init' \in {b \in BOOLEAN : b => init}
    /\ Watch

Spec == Init /\ [][Next]_vars

-----------------------------------------------------------------------------
TypeOK ==
    /\ ControllerTypeOK /\ MainTypeOK
    /\ a_addr \in CartCells /\ a_din \in Byte /\ b_addr \in MainCells /\ vram_addr \in MainCells
    /\ {init, a_req, a_wr, b_req, b_running, owner_b, yielding} \subseteq BOOLEAN
    /\ b_yield \in {"idle", "ref", "arb"} /\ b_rest \in 0..2 /\ drain \in 0..2
    /\ {a_slots, a_wait, carts} \subseteq Nat

(* An acknowledge or grant reaches the client it belongs to, with its data:
   "Handing the port over at that moment would deliver the stale acknowledge to
   the new owner as completion of its own request". *)
AckIsOwn ==
    /\ a_ack => /\ a_req /\ a_slots = 1
                /\ IF a_wr THEN mem[a_addr] = a_din ELSE cart_dout = mem[a_addr]
    /\ b_ack /\ b_req => cart_dout = mem[b_addr]
    /\ cart_grant /\ ~owner_b => a_req /\ a = a_addr /\ wr = a_wr

(* A request gets one slot, however long it stays up: "This avoids re-granting
   the old request". *)
OneSlotPerRequest == a_slots <= 1

(* The word kept for video is the word in memory, also when a CPU or cartridge
   write to it and a video read meet. *)
VideoIsCoherent ==
    cached # NoWord /\ client # "video" => vram_dout = WordData(cached)

(* Cartridge traffic cannot starve refresh: at most GrantLimit of its slots
   separate two refreshes, main-port and video slots in between included. *)
RefreshedInTime == carts <= GrantLimit

(* Two slots of the save never follow each other, aborts and restarts included,
   so tape and video keep their turn: after each acknowledge the request "must
   stay low" over one arbitration. *)
SaveYields == [][q = 0 /\ owner_b /\ client = "cart" => client' # "cart"]_vars


(* A waits at most MaxWait arbitrations for its slot although the port is
   handed over, refreshed and pre-empted by the CPU: "without the forwarding
   mask ... the other client would wait for the whole save".  (B may wait
   longer: A's clear keeps the request up without a gap.) *)
ServedInTime == a_wait <= MaxWait
=============================================================================
