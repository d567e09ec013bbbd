----------------------------- MODULE CrtcState -----------------------------
(***************************************************************************)
(* What the wrapper of the CRTC owns and both engines read: the register   *)
(* file, the counters, the captures made at C0=0, the video pointer and    *)
(* the vertical sync.  A register write reaches the engines as w, the      *)
(* write that the CLKEN edge sees on the bus, or as a register already     *)
(* changed between two edges.                                              *)
(***************************************************************************)
EXTENDS Integers

CONSTANTS HMod, LMod, VMod, AMod, WMod   \* 2^width: C0; C9, C5, R5, R9; C4; MA; C3h

ASSUME WidthsAssumption ==
    /\ HMod \in Nat /\ LMod \in Nat /\ VMod \in Nat /\ AMod \in Nat /\ WMod \in Nat
    /\ HMod > 3 /\ LMod > 1 /\ VMod > 1 /\ AMod > 1 /\ WMod > 1

VARIABLES CRTC_TYPE,
          reg,                          \* R0, R1, R3 (its high half), R4 to R7, R9, R12, R13
          hcc, line, row, c5, in_adj, adj_from_row0,
          last,                         \* line_last_r, row_last_r, frame_adj_r
          row_addr, row_addr_r,
          parity_frame, parity_r6,
          VSYNC_r, vsc, vsync_allow

crtcVars == <<CRTC_TYPE, reg, hcc, line, row, c5, in_adj, adj_from_row0, last,
              row_addr, row_addr_r, parity_frame, parity_r6, VSYNC_r, vsc, vsync_allow>>

Width == [R0 |-> HMod, R1 |-> HMod, R3 |-> WMod, R4 |-> VMod, R5 |-> LMod,
          R6 |-> VMod, R7 |-> VMod, R9 |-> LMod, R12 |-> 64, R13 |-> 256]
Registers == DOMAIN Width

RegisterFiles == {file \in [Registers -> Nat] : \A r \in Registers : file[r] < Width[r]}

NoWrite == [r |-> "none", v |-> 0]
Writes == {w \in [r : Registers, v : Nat] : w.v < Width[w.r]}

(* The register as a comparison sees it that takes the bus into account. *)
With(w, r) == IF w.r = r THEN w.v ELSE reg[r]

Start(w) == (With(w, "R12") * 256 + With(w, "R13")) % AMod

hcc_last == hcc = reg["R0"]
HccNext(ends) == IF ends THEN 0 ELSE (hcc + 1) % HMod
LineUp == (line + 1) % LMod
RowUp == (row + 1) % VMod
=============================================================================
