----------------------------- MODULE CrtcType1 -----------------------------
(***************************************************************************)
(* The type 1 engine with interlace off: comparisons are live at the end   *)
(* of the line, vertical adjustment counts in C5, rows 0 reload the video  *)
(* pointer, and a write of R5 or R0 on the last character of a line may    *)
(* arm "rupture for dummies", which changes where lines start.             *)
(***************************************************************************)
EXTENDS CrtcState

VARIABLE e1

Latch1 ==
    [rfd_r5_write : BOOLEAN, rfd_r0_write : BOOLEAN, rfd_r0_pending : BOOLEAN,
     rfd_vma_flag : BOOLEAN, rfd_parity_flag : BOOLEAN]

NoLatch1 ==
    [rfd_r5_write |-> FALSE, rfd_r0_write |-> FALSE, rfd_r0_pending |-> FALSE,
     rfd_vma_flag |-> FALSE, rfd_parity_flag |-> FALSE]

OpensR5(w) == w.r = "R5" /\ hcc_last /\ reg["R5"] = 0 /\ w.v # 0
WidensLast(w) ==
    /\ w.r = "R0" /\ hcc_last /\ w.v > reg["R0"]
    /\ line = reg["R9"] /\ row = reg["R4"] /\ reg["R5"] = 0 /\ ~in_adj
Extends(w) == WidensLast(w) \/ e1.rfd_r0_write

RolloverR5(w) == IF OpensR5(w) THEN w.v ELSE reg["R5"]
AdjEnd(w) == in_adj /\ RolloverR5(w) # 0 /\ c5 + 1 = RolloverR5(w)

(* R1 beyond R0 cannot save the pointer: C9=R9 alone disarms, within the line. *)
Unreachable == reg["R1"] > reg["R0"] /\ line = reg["R9"]
VmaFlag == e1.rfd_vma_flag /\ ~Unreachable

Engine1(w) ==
    LET line_new == hcc_last /\ ~Extends(w)
        r5 == RolloverR5(w)
        adj_end == AdjEnd(w)
        line_last == line = reg["R9"]
        row_last == row = reg["R4"]
        limit == IF in_adj THEN adj_end ELSE line_last
        enters == row_last /\ ~in_adj /\ r5 # 0
        stuck == in_adj /\ r5 = 0 /\ row_last /\ line_last
        frame_last == IF in_adj THEN adj_end ELSE row_last /\ ~enters
        row_next == IF frame_last \/ stuck THEN 0 ELSE RowUp
        row_new == line_new /\ (line_last \/ adj_end)
        frame_new == row_new /\ frame_last
        starts == HccNext(line_new) = 0
        arms_r5 == OpensR5(w) \/ e1.rfd_r5_write
        arms_r0 == /\ e1.rfd_r0_pending /\ line_new
                   /\ ~line_last \/ (~row_last /\ ~parity_frame)
        vma_arm == (arms_r5 /\ ~line_last) \/ arms_r0
        vma_active == (VmaFlag /\ ~(arms_r5 /\ line_last)) \/ vma_arm
        parity_active == e1.rfd_parity_flag \/ arms_r5 \/ arms_r0
        from_row0 == enters /\ line_last /\ row = 0
                     /\ ~(w.r = "R4" /\ w.v # 0 /\ hcc_last)
        row0 == \/ frame_new \/ (stuck /\ line_new)
                \/ ~line_last /\ row = 0 /\ starts
        row1 == (from_row0 \/ (in_adj /\ adj_from_row0 /\ row = 1 /\ ~line_last)) /\ starts
    IN [line_new |-> line_new, hcc_next |-> HccNext(line_new), hcc_end |-> line_new,
        line_next |-> IF frame_new \/ line_last \/ adj_end THEN 0 ELSE LineUp,
        row_new |-> row_new, row_next |-> row_next, frame_new |-> frame_new,
        frame_adj |-> enters, from_row0 |-> from_row0,
        c5_next |-> IF ~line_new THEN c5
                    ELSE IF in_adj /\ ~adj_end THEN (c5 + 1) % LMod ELSE 0,
        captures |-> TRUE, c0_line_last |-> limit, c0_row_last |-> row_last,
        keep |-> reg["R5"] # 0,
        in_adj_route |-> FALSE, frozen_row_advance |-> FALSE, widen_step |-> FALSE,
        reload |-> row0 \/ row1 \/ (vma_active /\ starts), row0_reload |-> row0,
        row_addr_save |-> hcc = reg["R1"] /\ line_last /\ (~parity_active \/ parity_frame),
        parity_next |-> ~parity_frame, captures_r6 |-> FALSE,
        vsync_line_fire |->
            IF frame_new THEN With(w, "R7") = 0
            ELSE line_last /\ reg["R7"] = IF in_adj /\ ~adj_end /\ ~stuck THEN RowUp
                                          ELSE row_next,
        vsync_line_blocked |-> FALSE, vsync_holdoff |-> FALSE, vsc_load |-> WMod - 1,
        r7_write_fire |-> ~VSYNC_r /\ vsync_allow,
        arms |-> arms_r5 \/ arms_r0, vma_arm |-> vma_arm, disarms |-> arms_r5 /\ line_last]

Latches1(w, d) ==
    [rfd_r5_write |-> FALSE, rfd_r0_write |-> FALSE,
     rfd_r0_pending |-> Extends(w) \/ (e1.rfd_r0_pending /\ ~d.hcc_end),
     rfd_vma_flag |-> ~d.row_addr_save /\ ~d.disarms /\ (d.vma_arm \/ VmaFlag),
     rfd_parity_flag |-> d.arms \/ (e1.rfd_parity_flag /\ ~d.frame_new /\ ~d.row_addr_save)]

Latched1(w) ==
    [e1 EXCEPT !.rfd_r5_write = @ \/ OpensR5(w), !.rfd_r0_write = @ \/ WidensLast(w),
               !.rfd_vma_flag = VmaFlag]
=============================================================================
