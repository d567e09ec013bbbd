--------------------------- MODULE SnaSaveCapture ---------------------------
(***************************************************************************)
(* rtl/sna_save_capture.v: a save request is armed, and the CPU is frozen  *)
(* at the next instruction start, where its registers are latched as the   *)
(* header of the snapshot.  Each action is one clk edge; "in" holds the    *)
(* sampled ports.  The 256 header bytes are one value, in.cpu.             *)
(***************************************************************************)
EXTENDS Integers

VARIABLES
    capture,        \* state: IDLE, ARMED, HELD
    insn_start_d,
    hold, captured,
    answer,         \* the pulses refused and cancelled
    header

captureVars == <<capture, insn_start_d, hold, captured, answer, header>>

NoHeader == 0

CaptureInit ==
    /\ capture = "IDLE" /\ insn_start_d = FALSE
    /\ hold = FALSE /\ captured = FALSE /\ answer = "none" /\ header = NoHeader

CaptureReset(in) ==
    /\ in.reset
    /\ capture' = "IDLE" /\ insn_start_d' = FALSE
    /\ hold' = FALSE /\ captured' = FALSE /\ answer' = "none" /\ header' = NoHeader

(* Fault: the level, not the edge, of insn_start freezes the CPU. *)
BoundaryLevel(in) == in.insn_start
Boundary(in) == in.insn_start /\ ~insn_start_d

Ask(in) ==
    /\ capture = "IDLE" /\ in.save_req
    /\ IF in.admit /\ in.rampage_ok
       THEN capture' = "ARMED" /\ answer' = "none"
       ELSE answer' = "refused" /\ UNCHANGED capture
    /\ captured' = FALSE /\ UNCHANGED <<hold, header>>

(* A second request, or losing admission, cancels the first. *)
Cancel(in) ==
    /\ capture = "ARMED" /\ (~in.admit \/ in.save_req)
    /\ capture' = "IDLE" /\ answer' = "cancelled"
    /\ captured' = FALSE /\ UNCHANGED <<hold, header>>

Freeze(in) ==
    /\ capture = "ARMED" /\ in.admit /\ ~in.save_req /\ Boundary(in)
    /\ IF in.rampage_ok
       THEN /\ capture' = "HELD" /\ hold' = TRUE /\ captured' = TRUE
            /\ header' = in.cpu /\ answer' = "none"
       ELSE /\ capture' = "IDLE" /\ answer' = "refused" /\ captured' = FALSE
            /\ UNCHANGED <<hold, header>>

Release(in) ==
    /\ capture = "HELD" /\ in.release_req
    /\ capture' = "IDLE" /\ hold' = FALSE
    /\ captured' = FALSE /\ answer' = "none" /\ UNCHANGED header

CaptureWaits(in) ==
    /\ \/ capture = "IDLE" /\ ~in.save_req
       \/ capture = "ARMED" /\ in.admit /\ ~in.save_req /\ ~Boundary(in)
       \/ capture = "HELD" /\ ~in.release_req
    /\ captured' = FALSE /\ answer' = "none" /\ UNCHANGED <<capture, hold, header>>

CaptureClock(in) ==
    \/ CaptureReset(in)
    \/ /\ ~in.reset /\ insn_start_d' = in.insn_start
       /\ Ask(in) \/ Cancel(in) \/ Freeze(in) \/ Release(in) \/ CaptureWaits(in)
=============================================================================
