----------------------------- MODULE CrtcType0 -----------------------------
(***************************************************************************)
(* The type 0 engine with interlace off: its decision at a CLKEN edge and  *)
(* the private latches that carry a write to the end of its line.  Last    *)
(* line and last row are captured at C0=0; a write to R4, R5 or R9 later   *)
(* on a captured last line turns its end into vertical adjustment.         *)
(***************************************************************************)
EXTENDS CrtcState

VARIABLE e0         \* the latches; their names lose the prefix type0_

Latch0 ==
    [r4_adjust_switch : BOOLEAN, r9_live_compare : BOOLEAN, r9_at_r0_pending : BOOLEAN,
     c0_1_adjust : BOOLEAN, zero_entry_consumed : BOOLEAN, zero_adj_entry : BOOLEAN,
     r5_override : BOOLEAN, r5_target : 0..LMod-1, widen_pending : BOOLEAN,
     widen_write : BOOLEAN, vsync_wait : BOOLEAN, c0_2_seen : BOOLEAN]

NoLatch0 ==
    [r4_adjust_switch |-> FALSE, r9_live_compare |-> FALSE, r9_at_r0_pending |-> FALSE,
     c0_1_adjust |-> FALSE, zero_entry_consumed |-> FALSE, zero_adj_entry |-> FALSE,
     r5_override |-> FALSE, r5_target |-> 0, widen_pending |-> FALSE,
     widen_write |-> FALSE, vsync_wait |-> FALSE, c0_2_seen |-> FALSE]

r0_frozen == reg["R0"] = 0 /\ hcc = 0
Limit(r5) == (r5 + LMod - 1) % LMod

(* What a write does on the line it lands on. *)
Selected(w) == IF hcc = 2 THEN last.frame_adj /\ With(w, "R5") # 0 ELSE last.frame_adj
BreaksAtC01(w) ==
    /\ hcc = 1 /\ last.frame_adj /\ ~in_adj
    /\ (w.r = "R4" /\ w.v # row) \/ (w.r = "R9" /\ w.v # line)
Break(w) == e0.c0_1_adjust \/ BreaksAtC01(w)
adjustment_selected(w) == Break(w) \/ Selected(w)
InWindow(w) == hcc >= 2 /\ adjustment_selected(w) /\ ~in_adj
R4Switch(w) == w.r = "R4" /\ InWindow(w) /\ hcc <= reg["R0"] /\ w.v # row
R9Compare(w) == w.r = "R9" /\ InWindow(w) /\ hcc < reg["R0"]
R9AtR0(w) == w.r = "R9" /\ InWindow(w) /\ hcc_last
R5Window(w) == w.r = "R5" /\ hcc <= 2 /\ in_adj
R5Revives(w) == w.r = "R5" /\ hcc <= 2 /\ w.v # 0
Widens(w) ==
    /\ w.r = "R0" /\ hcc = 1 /\ reg["R0"] = 1 /\ w.v > 1
    /\ last.frame_adj /\ ~in_adj /\ reg["R5"] = 0

R5Target(w) == IF R5Window(w) THEN Limit(w.v) ELSE e0.r5_target
OverrideActive(w) == (e0.r5_override \/ R5Window(w)) /\ in_adj
AdjustMax(w) == IF OverrideActive(w) THEN R5Target(w) ELSE Limit(With(w, "R5"))

(* Does the line that ends now end its row? *)
RolloverLineLast(w) ==
    CASE Break(w) -> FALSE
      [] ~Break(w) /\ (e0.r9_at_r0_pending \/ R9AtR0(w)
                       \/ e0.r4_adjust_switch \/ R4Switch(w)) -> line = AdjustMax(w)
      [] OTHER ->
           IF e0.r9_live_compare \/ R9Compare(w) THEN line = reg["R9"]
           ELSE IF OverrideActive(w)
                THEN line = AdjustMax(w) \/ (e0.zero_adj_entry /\ ~R5Revives(w))
           ELSE IF in_adj \/ (last.line /\ last.row) THEN last.line
           ELSE line = reg["R9"]

(* The last line, as captured at C0=0. *)
C0LineLast(w) ==
    IF in_adj THEN \/ line = Limit(With(w, "R5"))
                   \/ e0.zero_adj_entry /\ ~(w.r = "R5" /\ w.v # 0)
    ELSE line = With(w, "R9")

Engine0(w) ==
    LET widens == Widens(w)
        selected == adjustment_selected(w)
        line_new == hcc_last /\ ~r0_frozen /\ ~widens
        line_last == RolloverLineLast(w)
        row_last == IF e0.r9_at_r0_pending \/ R9AtR0(w) THEN last.line ELSE line_last
        frame_last == (last.row \/ in_adj) /\ ~selected
        row_next == IF frame_last THEN 0 ELSE RowUp
        row_new == line_new /\ row_last
        frame_new == row_new /\ frame_last
        reached == e0.c0_2_seen \/ hcc >= 2
        seam == row_next = reg["R7"]
                /\ line = IF in_adj THEN Limit(reg["R5"]) ELSE reg["R9"]
        origin == With(w, "R7") = 0
    IN [line_new |-> line_new, hcc_next |-> IF widens THEN hcc ELSE HccNext(hcc_last),
        hcc_end |-> hcc_last /\ ~widens,
        line_next |-> IF line_last THEN 0 ELSE LineUp,
        row_new |-> row_new, row_next |-> row_next, frame_new |-> frame_new,
        frame_adj |-> selected, c5_next |-> 0, from_row0 |-> FALSE,
        captures |-> ~r0_frozen,
        c0_line_last |-> C0LineLast(w),
        c0_row_last |-> row = With(w, "R4"),
        keep |-> With(w, "R5") # 0,
        in_adj_route |-> line_new /\ (\/ e0.r4_adjust_switch \/ R4Switch(w)
                                      \/ e0.r9_live_compare \/ R9Compare(w) \/ Break(w)),
        frozen_row_advance |-> /\ r0_frozen /\ ~in_adj /\ ~e0.zero_entry_consumed
                               /\ line = reg["R9"],
        widen_step |-> e0.widen_pending \/ e0.widen_write,
        reload |-> frame_new, row0_reload |-> FALSE,
        row_addr_save |-> hcc = reg["R1"] /\ line = reg["R9"],
        parity_next |-> parity_r6,
        captures_r6 |-> row_new /\ ~frame_new /\ ~in_adj /\ row_next = reg["R6"],
        vsync_line_fire |-> IF frame_new THEN origin /\ reached ELSE seam /\ reached,
        vsync_line_blocked |-> IF frame_new THEN origin /\ ~reached ELSE seam /\ ~reached,
        vsync_holdoff |-> e0.vsync_wait,
        vsc_load |-> IF reg["R3"] = 0 THEN WMod - 1 ELSE reg["R3"] - 1,
        r7_write_fire |-> ~VSYNC_r /\ vsync_allow /\ hcc > 1]

(* The latches over an edge, with the decision d taken on it. *)

(* Fault: an entry into adjustment with R5=0 is not forgotten with the frame. *)
ZeroAdjEntryStale(w, d) ==
    IF d.in_adj_route THEN Break(w) /\ With(w, "R5") = 0
    ELSE IF d.row_new /\ d.frame_adj THEN With(w, "R5") = 0
    ELSE e0.zero_adj_entry /\ ~R5Revives(w)

ZeroAdjEntry(w, d) ==
    CASE d.in_adj_route -> Break(w) /\ With(w, "R5") = 0
      [] ~d.in_adj_route /\ d.frozen_row_advance /\ row = reg["R4"] -> reg["R5"] = 0
      [] ~d.in_adj_route /\ d.row_new /\ d.frame_adj -> With(w, "R5") = 0
      [] ~d.in_adj_route /\ d.row_new /\ ~d.frame_adj /\ d.frame_new -> FALSE
      [] OTHER -> e0.zero_adj_entry /\ ~R5Revives(w)

(* Fault: the line in which a write began the pulse is counted. *)
VsyncWaitLost(w, d) == FALSE

VsyncWait(w, d) ==
    IF w.r = "R7" /\ w.v = row /\ d.r7_write_fire THEN ~d.line_new
    ELSE /\ e0.vsync_wait /\ ~d.line_new
         /\ ~(w.r = "R7" /\ w.v = row /\ ~VSYNC_r)

(* Fault: a latch outlives its line. *)
UntilLineEndKept(x, d) == x

UntilLineEnd(x, d) == x /\ ~d.line_new
Latches0(w, d) ==
    [r4_adjust_switch |-> UntilLineEnd(e0.r4_adjust_switch \/ R4Switch(w), d),
     r9_live_compare |-> R9Compare(w) \/ UntilLineEnd(e0.r9_live_compare, d),
     r9_at_r0_pending |-> R9AtR0(w) \/ UntilLineEnd(e0.r9_at_r0_pending, d),
     c0_1_adjust |-> UntilLineEnd(Break(w), d),
     zero_entry_consumed |-> r0_frozen,
     zero_adj_entry |-> ZeroAdjEntry(w, d),
     r5_override |-> UntilLineEnd(e0.r5_override \/ R5Window(w), d),
     r5_target |-> IF d.line_new THEN 0 ELSE R5Target(w),
     widen_pending |-> Widens(w), widen_write |-> FALSE,
     vsync_wait |-> VsyncWait(w, d),
     c0_2_seen |-> UntilLineEnd(e0.c0_2_seen \/ hcc = 2, d)]

(* The latches over a write between two edges. *)
Latched0(w) ==
    [r4_adjust_switch |-> e0.r4_adjust_switch \/ R4Switch(w),
     r9_live_compare |-> e0.r9_live_compare \/ R9Compare(w),
     r9_at_r0_pending |-> e0.r9_at_r0_pending \/ R9AtR0(w),
     c0_1_adjust |-> Break(w),
     zero_entry_consumed |-> e0.zero_entry_consumed /\ r0_frozen /\ ~(w.r = "R0" /\ w.v # 0),
     zero_adj_entry |-> e0.zero_adj_entry /\ ~R5Revives(w),
     r5_override |-> e0.r5_override \/ R5Window(w), r5_target |-> R5Target(w),
     widen_pending |-> e0.widen_pending, widen_write |-> e0.widen_write \/ Widens(w),
     vsync_wait |-> IF w.r = "R7" /\ w.v = row /\ ~VSYNC_r
                    THEN vsync_allow /\ hcc > 1 ELSE e0.vsync_wait,
     c0_2_seen |-> e0.c0_2_seen]
=============================================================================
