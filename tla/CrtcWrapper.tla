---------------------------- MODULE CrtcWrapper ----------------------------
(***************************************************************************)
(* The CRTC as one machine: the wrapper's registers, counters, captures,   *)
(* video pointer and vertical sync around the two engines.  Edge(w) is a   *)
(* CLKEN edge that sees the write w on the bus, Between(w) a write between *)
(* two edges; a snapshot load, a live change of type and a reset complete  *)
(* what can happen to it.                                                  *)
(***************************************************************************)
EXTENDS CrtcState

VARIABLES e0, e1            \* the engines' latches

Type0 == INSTANCE CrtcType0
Type1 == INSTANCE CrtcType1
machineVars == <<crtcVars, e0, e1>>
syncVars == <<VSYNC_r, vsc, vsync_allow>>
lineVars == <<hcc, line, row, c5, in_adj, adj_from_row0, parity_frame, parity_r6>>
pointerVars == <<row_addr, row_addr_r>>

PowerUp ==
    /\ hcc = 0 /\ line = 0 /\ row = 0 /\ c5 = 0 /\ in_adj = FALSE /\ adj_from_row0 = FALSE
    /\ last = [line |-> FALSE, row |-> FALSE, frame_adj |-> FALSE]
    /\ row_addr = 0 /\ row_addr_r = 0 /\ parity_frame = FALSE /\ parity_r6 = FALSE
    /\ VSYNC_r = FALSE /\ vsc = 0 /\ vsync_allow = TRUE
    /\ e0 = Type0!NoLatch0 /\ e1 = Type1!NoLatch1

Store(w) == reg' = IF w = NoWrite THEN reg ELSE [reg EXCEPT ![w.r] = w.v]

Captures(d) ==
    last' =
      IF d.widen_step THEN [line |-> FALSE, row |-> FALSE, frame_adj |-> FALSE]
      ELSE IF hcc = 0 /\ d.captures
      THEN [line |-> d.c0_line_last, row |-> d.c0_row_last,
            frame_adj |-> d.c0_line_last /\ d.c0_row_last /\ ~in_adj]
      ELSE IF hcc = 2 THEN [last EXCEPT !.frame_adj = @ /\ d.keep]
      ELSE last

Counters(d) ==
    LET adjusts == d.row_new /\ d.frame_adj
        restarts == d.row_new /\ ~d.frame_adj /\ d.frame_new IN
    /\ hcc' = d.hcc_next
    /\ line' = IF d.line_new THEN d.line_next ELSE line
    /\ c5' = d.c5_next
    /\ row' = CASE restarts -> 0
                [] ~restarts /\ d.row_new -> d.row_next
                [] ~d.row_new /\ (d.frozen_row_advance \/ d.widen_step) -> RowUp
                [] OTHER -> row
    /\ in_adj' = /\ ~restarts
                 /\ \/ in_adj \/ adjusts \/ d.in_adj_route \/ d.widen_step
                    \/ d.frozen_row_advance /\ row = reg["R4"]
    /\ adj_from_row0' =
         CASE adjusts -> adj_from_row0 \/ d.from_row0
           [] restarts -> FALSE
           [] d.row_new /\ ~adjusts /\ ~restarts ->
                adj_from_row0 /\ ~(CRTC_TYPE = 1 /\ in_adj /\ d.row_next # 1)
           [] OTHER -> adj_from_row0
    /\ parity_frame' = IF d.frame_new THEN d.parity_next ELSE parity_frame
    /\ parity_r6' = IF d.captures_r6 THEN ~parity_frame ELSE parity_r6

(* Fault: the end of the line takes the pointer saved before the save it coincides with. *)
VideoPointerStale(w, d) ==
    LET start == Start(IF d.row0_reload THEN w ELSE NoWrite) IN
    /\ row_addr' = IF CRTC_TYPE = 0 /\ d.reload THEN start
                   ELSE IF d.row_addr_save THEN row_addr_r ELSE row_addr
    /\ row_addr_r' = IF d.reload THEN start
                     ELSE IF d.hcc_end THEN row_addr ELSE (row_addr_r + 1) % AMod

VideoPointer(w, d) ==
    LET start == Start(IF d.row0_reload THEN w ELSE NoWrite) IN
    /\ row_addr' = IF CRTC_TYPE = 0 /\ d.reload THEN start
                   ELSE IF d.row_addr_save THEN row_addr_r ELSE row_addr
    /\ row_addr_r' = IF d.reload THEN start
                     ELSE IF ~d.hcc_end THEN (row_addr_r + 1) % AMod
                     ELSE IF d.line_new /\ ~d.row_addr_save THEN row_addr
                     ELSE row_addr_r

(* Fault: a comparison that is not disarmed fires. *)
FiresAlways(d) == d.line_new /\ ~d.vsync_holdoff /\ vsc = 0 /\ d.vsync_line_fire

(* Does the line that begins start a VSYNC? *)
Fires(d) == d.line_new /\ ~d.vsync_holdoff /\ vsc = 0 /\ vsync_allow /\ d.vsync_line_fire
FiredBy(w, d) == w.r = "R7" /\ w.v = row /\ d.r7_write_fire

(* Fault: the return to C4=0 does not arm the comparison again. *)
VSyncArmedOnce(w, d) ==
    LET counts == d.line_new /\ ~d.vsync_holdoff IN
    /\ vsync_allow' = IF w.r = "R7" THEN w.v # row ELSE ~Fires(d) /\ vsync_allow
    /\ VSYNC_r' = (FiredBy(w, d) \/ Fires(d) \/ (VSYNC_r /\ ~(counts /\ vsc = 0)))
    /\ vsc' = IF FiredBy(w, d) \/ Fires(d) THEN d.vsc_load
              ELSE IF counts /\ vsc # 0 THEN vsc - 1 ELSE vsc

VSync(w, d) ==
    LET counts == d.line_new /\ ~d.vsync_holdoff
        rearms == d.row_new /\ ((d.frame_new /\ row # 0) \/ d.row_next # row)
        blocks == d.line_new /\ vsync_allow /\ d.vsync_line_blocked IN
    /\ vsync_allow' = IF w.r = "R7" THEN w.v # row
                      ELSE ~Fires(d) /\ ~blocks /\ (vsync_allow \/ rearms)
    /\ VSYNC_r' = \/ FiredBy(w, d) \/ Fires(d)
                  \/ VSYNC_r /\ ~(counts /\ vsc = 0)
    /\ vsc' = CASE FiredBy(w, d) \/ Fires(d) -> d.vsc_load
                [] ~FiredBy(w, d) /\ counts /\ vsc # 0 -> vsc - 1
                [] OTHER -> vsc

Decision(w) == IF CRTC_TYPE = 0 THEN Type0!Engine0(w) ELSE Type1!Engine1(w)

Edge(w) ==
    \E d \in {Decision(w)} :
        /\ Store(w) /\ Captures(d) /\ Counters(d) /\ VideoPointer(w, d) /\ VSync(w, d)
        /\ e0' = IF CRTC_TYPE = 0 THEN Type0!Latches0(w, d) ELSE e0
        /\ e1' = IF CRTC_TYPE = 1 THEN Type1!Latches1(w, d) ELSE e1
        /\ UNCHANGED CRTC_TYPE

(* A write between two edges: the register changes, the engines remember
   what they need, and a write of R7 may start a VSYNC by itself. *)
Between(w) ==
    /\ Store(w)
    /\ e0' = IF CRTC_TYPE = 0 THEN Type0!Latched0(w) ELSE e0
    /\ e1' = IF CRTC_TYPE = 1 THEN Type1!Latched1(w) ELSE e1
    /\ \E d \in {Decision(NoWrite)} :
         /\ VSYNC_r' = (VSYNC_r \/ FiredBy(w, d))
         /\ vsc' = IF FiredBy(w, d) THEN d.vsc_load ELSE vsc
         /\ vsync_allow' = IF w.r = "R7" THEN w.v # row ELSE vsync_allow
    /\ UNCHANGED <<CRTC_TYPE, last>> /\ UNCHANGED lineVars /\ UNCHANGED pointerVars

ForgetLatches == e0' = Type0!NoLatch0 /\ e1' = Type1!NoLatch1

Load(file) ==
    /\ reg' = file /\ ForgetLatches
    /\ UNCHANGED <<CRTC_TYPE, last>> /\ UNCHANGED lineVars /\ UNCHANGED pointerVars
    /\ UNCHANGED syncVars

SetType(type) ==
    /\ CRTC_TYPE' = type
    /\ IF type = CRTC_TYPE THEN UNCHANGED <<e0, e1>> ELSE ForgetLatches
    /\ UNCHANGED <<reg, last>> /\ UNCHANGED lineVars /\ UNCHANGED pointerVars
    /\ UNCHANGED syncVars

(* A clock under nRESET: the register file does not know it, the captures are
   held, and the pointer goes on at a CLKEN edge. *)
UnderReset(w) ==
    /\ hcc' = 0 /\ line' = 0 /\ row' = 0 /\ c5' = 0 /\ in_adj' = FALSE
    /\ adj_from_row0' = FALSE /\ parity_frame' = FALSE /\ parity_r6' = FALSE
    /\ VSYNC_r' = FALSE /\ vsc' = 0 /\ vsync_allow' = TRUE
    /\ ForgetLatches /\ Store(w) /\ UNCHANGED <<CRTC_TYPE, last>>
Reset(w) == UnderReset(w) /\ UNCHANGED pointerVars
ResetEdge(w) == UnderReset(w) /\ \E d \in {Decision(w)} : VideoPointer(w, d)
=============================================================================
