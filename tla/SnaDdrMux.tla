----------------------------- MODULE SnaDdrMux -----------------------------
(***************************************************************************)
(* rtl/sna_ddr_mux.v: the DDR3 port belongs to client A (the SSM marker)   *)
(* and is lent to client B (the save stream) between two writes of A.      *)
(***************************************************************************)
VARIABLE b_grant

DdrMuxInit == b_grant = FALSE

(* Fault: B takes over from a write A is still holding. *)
LendAnytime(in) == ~b_grant /\ ~in.reset /\ in.b_request
Lend(in) == ~b_grant /\ ~in.reset /\ in.b_request /\ ~in.a_we
(* Fault: B keeps the port until A has nothing to write. *)
TakeBackIdle(in) == b_grant /\ (in.reset \/ ~in.b_request) /\ ~in.b_we /\ ~in.a_we
TakeBack(in) == b_grant /\ (in.reset \/ ~in.b_request) /\ ~in.b_we

DdrMuxClock(in) ==
    \/ Lend(in) /\ b_grant' = TRUE
    \/ TakeBack(in) /\ b_grant' = FALSE
    \/ ~Lend(in) /\ ~TakeBack(in) /\ UNCHANGED b_grant

(* Fault: A sees the slave while B has the port. *)
ABusyThrough(busy) == busy
ABusy(busy) == b_grant \/ busy
BBusy(busy) == ~b_grant \/ busy
=============================================================================
