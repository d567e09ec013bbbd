--------------------------- MODULE PlusMmuBridge ---------------------------
(***************************************************************************)
(* The read bridge of rtl/plus/plus_mmu.v between the CPU's bus and the    *)
(* cartridge memory service: it claims a read inside a cartridge window,   *)
(* holds the CPU in WAIT until SDRAM has admitted the read, and owns the   *)
(* data bus until the cycle ends.  Which reads are inside a window, and    *)
(* the page and offset they ask for, come as in.window_hit and in.addr.    *)
(***************************************************************************)
EXTENDS Integers

CONSTANT StallTimeout
ASSUME StallAssumption == StallTimeout \in Nat

VARIABLES
    cart_state,
    cart_valid, cart_addr,      \* the request to the service: page and offset
    cart_own,                   \* the data bus is the cartridge's
    cart_stall,                 \* the CPU is held in WAIT
    cart_dout, stall_count

requestVars == <<cart_valid, cart_addr>>
bridgeVars == <<cart_state, requestVars, cart_own, cart_stall, cart_dout, stall_count>>

(* Its registers at power-up and after a reset. *)
BridgeReset(openBus) ==
    /\ cart_state' = "IDLE" /\ cart_valid' = FALSE /\ cart_addr' = 0
    /\ cart_own' = FALSE /\ cart_stall' = FALSE
    /\ cart_dout' = openBus /\ stall_count' = 0
BridgeInit(openBus) ==
    /\ cart_state = "IDLE" /\ cart_valid = FALSE /\ cart_addr = 0
    /\ cart_own = FALSE /\ cart_stall = FALSE
    /\ cart_dout = openBus /\ stall_count = 0

Unclaimed(in) ==
    /\ cart_state = "IDLE" /\ ~in.window_hit
    /\ cart_own' = FALSE /\ cart_stall' = FALSE /\ stall_count' = 0
    /\ UNCHANGED <<cart_state, requestVars, cart_dout>>

Claim(in) ==
    /\ cart_state = "IDLE" /\ in.window_hit
    /\ cart_valid' = TRUE /\ cart_addr' = in.addr
    /\ cart_own' = TRUE /\ cart_stall' = TRUE /\ stall_count' = 0
    /\ cart_state' = "WAIT" /\ UNCHANGED cart_dout

(* The watchdog ends a cycle that nobody answers with open bus, unless the
   service is busy with an image. *)
GivesUp(in) ==
    /\ cart_state = "WAIT" /\ ~in.cart_ready /\ in.window_hit
    /\ ~in.cart_busy /\ stall_count = StallTimeout

(* Fault: the watchdog ends the cycle but leaves the CPU in WAIT. *)
AwaitHolding(in) ==
    LET answered == in.cart_ready
        ends == answered \/ ~in.window_hit \/ GivesUp(in) IN
    /\ cart_state = "WAIT"
    /\ cart_valid' = ~ends
    /\ cart_stall' = (cart_stall /\ ~in.cart_granted)
    /\ cart_dout' = IF ends /\ ~answered THEN in.open_bus ELSE cart_dout
    /\ cart_state' = CASE answered -> "CAPTURE"
                       [] ~answered /\ ~in.window_hit -> "IDLE"
                       [] ~answered /\ GivesUp(in) -> "DONE"
                       [] ~ends -> "WAIT"
    /\ stall_count' = IF ends THEN stall_count
                      ELSE IF in.cart_busy THEN 0 ELSE stall_count + 1
    /\ UNCHANGED <<cart_addr, cart_own>>

Await(in) ==
    LET answered == in.cart_ready
        ends == answered \/ ~in.window_hit \/ GivesUp(in) IN
    /\ cart_state = "WAIT"
    /\ cart_valid' = ~ends
    /\ cart_stall' = (cart_stall /\ ~in.cart_granted /\ (answered \/ ~ends))
    /\ cart_dout' = IF ends /\ ~answered THEN in.open_bus ELSE cart_dout
    /\ cart_state' = CASE answered -> "CAPTURE"
                       [] ~answered /\ ~in.window_hit -> "IDLE"
                       [] ~answered /\ GivesUp(in) -> "DONE"
                       [] ~ends -> "WAIT"
    /\ stall_count' = IF ends THEN stall_count
                      ELSE IF in.cart_busy THEN 0 ELSE stall_count + 1
    /\ UNCHANGED <<cart_addr, cart_own>>

Capture(in) ==
    /\ cart_state = "CAPTURE"
    /\ cart_dout' = in.cart_data /\ cart_stall' = FALSE /\ cart_state' = "DONE"
    /\ UNCHANGED <<requestVars, cart_own, stall_count>>

Done(in) ==
    /\ cart_state = "DONE"
    /\ cart_own' = in.window_hit
    /\ cart_state' = IF in.window_hit THEN "DONE" ELSE "IDLE"
    /\ UNCHANGED <<requestVars, cart_stall, cart_dout, stall_count>>

BridgeClock(in) ==
    IF in.reset THEN BridgeReset(in.open_bus)
    ELSE Unclaimed(in) \/ Claim(in) \/ Await(in) \/ Capture(in) \/ Done(in)
=============================================================================
