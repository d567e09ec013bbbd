----------------------------- MODULE SnaCartMux -----------------------------
(***************************************************************************)
(* rtl/sna_cart_mux.v: the cartridge port of the SDRAM is shared by the    *)
(* cartridge memory (client A, the default owner) and the SNA save stream  *)
(* (client B).  Each action is one clk edge; clkref_edge tells whether     *)
(* clkref rises on it.                                                     *)
(***************************************************************************)
EXTENDS Integers

VARIABLES owner_b, yielding, drain

muxVars == <<owner_b, yielding, drain>>

MuxInit == owner_b = FALSE /\ yielding = FALSE /\ drain = 0

OwnerReq(a_req, b_req) == IF owner_b THEN b_req ELSE a_req
OtherReq(a_req, b_req) == IF owner_b THEN a_req ELSE b_req

(* Fault: the other client takes over while a slot may still be running. *)
DrainedAtOnce == TRUE
Drained == drain = 2

WantsYield(a_req, b_req) == ~OwnerReq(a_req, b_req) /\ OtherReq(a_req, b_req)

StartYield(a_req, b_req, clkref_edge) ==
    /\ ~yielding /\ WantsYield(a_req, b_req)
    /\ yielding' = TRUE /\ drain' = 0 /\ UNCHANGED owner_b

KeepOwner(a_req, b_req, clkref_edge) ==
    /\ ~yielding /\ ~WantsYield(a_req, b_req)
    /\ drain' = 0 /\ UNCHANGED <<owner_b, yielding>>

HandOver(a_req, b_req, clkref_edge) ==
    /\ yielding /\ Drained
    /\ owner_b' = ~owner_b /\ yielding' = FALSE /\ drain' = 0

(* Fault: only edges with an idle owner count. *)
DrainingIdle(a_req, b_req, clkref_edge) ==
    /\ yielding /\ ~Drained
    /\ drain' = drain + (IF clkref_edge /\ ~OwnerReq(a_req, b_req) THEN 1 ELSE 0)
    /\ UNCHANGED <<owner_b, yielding>>
Draining(a_req, b_req, clkref_edge) ==
    /\ yielding /\ ~Drained
    /\ drain' = drain + (IF clkref_edge THEN 1 ELSE 0)
    /\ UNCHANGED <<owner_b, yielding>>

MuxClock(a_req, b_req, clkref_edge) ==
    \/ StartYield(a_req, b_req, clkref_edge) \/ KeepOwner(a_req, b_req, clkref_edge)
    \/ HandOver(a_req, b_req, clkref_edge) \/ Draining(a_req, b_req, clkref_edge)

(* What the controller sees and what the clients see. *)
CartReq(a_req, b_req) == OwnerReq(a_req, b_req) /\ ~yielding
AckToA(ack) == ~owner_b /\ ack
AckToB(ack) == owner_b /\ ack
=============================================================================
