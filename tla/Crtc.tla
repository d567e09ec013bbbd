-------------------------------- MODULE Crtc --------------------------------
(***************************************************************************)
(* The classic CRTC under a program that writes its registers at any       *)
(* character, snapshots that replace them all, the live change of type and *)
(* resets.  A step is a CLKEN edge, with or without a write on the bus at  *)
(* that very edge, or something between two edges; a write held for        *)
(* several clocks acts like its first clock.                               *)
(*                                                                         *)
(* Bounds: R8 is 0 (no interlace, no skew), the horizontal sync and the    *)
(* display enable are left out, the counters are 2^width with small        *)
(* widths, MaxWrites disturbances happen, at most one in a character, and  *)
(* of the registers only EdgeWrites are written on the edge itself.        *)
(***************************************************************************)
EXTENDS CrtcWrapper

CONSTANTS Programs,         \* the register files a frame may start from
          Values,           \* the writes a program makes
          EdgeWrites,       \* the registers also written on the CLKEN edge itself
          MaxWrites

ASSUME InputsAssumption ==
    /\ Programs \subseteq RegisterFiles /\ Values \subseteq Writes
    /\ EdgeWrites \subseteq Registers \ {"R7"}
    /\ MaxWrites \in Nat

VARIABLES writes,
          busy,             \* a write has fallen in this character
          clean,            \* history: nothing disturbed this frame since its origin
          chars,            \* history: characters of this clean frame
          base,             \* history: the start address this frame took, -1 under RFD
          apart,            \* history: C4 has differed from R7 since the last VSYNC began
          lasts             \* history: lines this VSYNC has still to see begin, -1 unknown

historyVars == <<clean, chars, base, apart, lasts>>
vars == <<machineVars, writes, busy, historyVars>>

Init ==
    /\ CRTC_TYPE \in {0, 1} /\ reg \in Programs /\ PowerUp
    /\ writes = 0 /\ busy = FALSE /\ clean = FALSE /\ chars = 0
    /\ base = 0 /\ apart = TRUE /\ lasts = -1

(* Type 0 compares C4 with R4 at C0=0 and decides at C0=2: a line of two
   characters or less has no clean frame. *)
Regular == CRTC_TYPE = 0 => reg["R0"] > 1
VsyncLines == IF CRTC_TYPE = 0 /\ reg["R3"] # 0 THEN reg["R3"] ELSE WMod
Began(w, d) == FiredBy(w, d) \/ Fires(d)
(* Type 0 does not count the line in which a write began the pulse. *)
Partial(w, d) == IF FiredBy(w, d) /\ CRTC_TYPE = 0 /\ ~d.line_new THEN 1 ELSE 0

Watch(w, d) ==
    /\ clean' = (Regular' /\ (d.frame_new \/ (clean /\ w = NoWrite)))
    /\ chars' = IF clean' /\ ~d.frame_new THEN chars + 1 ELSE 0
    /\ base' = CASE ~d.frame_new -> base
                 [] d.frame_new /\ CRTC_TYPE = 0 -> Start(NoWrite)
                 [] OTHER -> IF e1' = Type1!NoLatch1 THEN Start(w) ELSE -1
    /\ apart' = (~Began(w, d) /\ (apart \/ row' # reg'["R7"]))
    /\ lasts' = CASE Began(w, d) -> VsyncLines + Partial(w, d)
                  [] ~Began(w, d) /\ VSYNC_r' /\ lasts > 0 /\ d.line_new -> lasts - 1
                  [] ~Began(w, d) /\ ~VSYNC_r' -> -1
                  [] OTHER -> lasts

Character ==
    /\ \E d \in {Decision(NoWrite)} : Edge(NoWrite) /\ Watch(NoWrite, d)
    /\ busy' = FALSE /\ UNCHANGED writes

Disturb == writes < MaxWrites /\ writes' = writes + 1 /\ ~busy /\ busy' = TRUE
Unclean == clean' = FALSE /\ chars' = 0 /\ UNCHANGED base
Unknown == lasts' = -1 /\ Unclean

WriteAtClken(w) ==
    /\ Disturb /\ w.r \in EdgeWrites
    /\ \E d \in {Decision(w)} : Edge(w) /\ Watch(w, d)

Write(w) ==
    /\ Disturb /\ Between(w) /\ Unclean
    /\ \E fired \in {FiredBy(w, Decision(NoWrite))} :
         /\ apart' = (~fired /\ (apart \/ row # reg'["R7"]))
         /\ lasts' = IF fired THEN VsyncLines + 1 - CRTC_TYPE ELSE lasts

SnapshotLoad ==
    /\ Disturb /\ Unknown
    /\ \E file \in Programs \ {reg} : Load(file)
    /\ apart' = (apart \/ row # reg'["R7"])

SwitchType ==
    /\ Disturb /\ Unknown /\ SetType(1 - CRTC_TYPE)
    /\ apart' = (apart \/ row # reg["R7"])

ResetPulse == Disturb /\ Unknown /\ (Reset(NoWrite) \/ ResetEdge(NoWrite)) /\ apart' = TRUE

Next ==
    \/ Character
    \/ \E w \in Values : WriteAtClken(w) \/ Write(w)
    \/ SnapshotLoad \/ SwitchType \/ ResetPulse

Spec == Init /\ [][Next]_vars /\ WF_vars(Character)

-----------------------------------------------------------------------------
(* The registers keep to their widths, the latches are Booleans but for the
   frozen limit of an adjustment, and the histories have their types. *)
MachineTypeOK ==
    /\ CRTC_TYPE \in {0, 1} /\ reg \in RegisterFiles
    /\ hcc \in 0..HMod-1 /\ line \in 0..LMod-1 /\ row \in 0..VMod-1 /\ c5 \in 0..LMod-1
    /\ in_adj \in BOOLEAN /\ adj_from_row0 \in BOOLEAN
    /\ parity_frame \in BOOLEAN /\ parity_r6 \in BOOLEAN
    /\ last \in [line : BOOLEAN, row : BOOLEAN, frame_adj : BOOLEAN]
    /\ row_addr \in 0..AMod-1 /\ row_addr_r \in 0..AMod-1
    /\ VSYNC_r \in BOOLEAN /\ vsync_allow \in BOOLEAN /\ vsc \in 0..WMod-1
    /\ e0 \in Type0!Latch0 /\ e1 \in Type1!Latch1
TypeOK ==
    /\ MachineTypeOK
    /\ writes \in 0..MaxWrites /\ busy \in BOOLEAN /\ clean \in BOOLEAN /\ chars \in Nat
    /\ base \in {-1} \cup 0..AMod-1 /\ apart \in BOOLEAN /\ lasts \in Nat \cup {-1}

Origin == hcc = 0 /\ line = 0 /\ row = 0 /\ ~in_adj
Frame == (reg["R0"] + 1) * ((reg["R4"] + 1) * (reg["R9"] + 1) + reg["R5"])

(* A frame that nothing disturbs starts at C4=C9=C0=0 and has the length its
   registers give, whatever was written before its origin: no latch of an
   earlier write, of the other type or of a snapshot survives into it. *)
FrameIsExact ==
    [][clean /\ clean' /\ writes' = writes =>
         /\ (chars' = 0) <=> (chars = Frame - 1)
         /\ chars' = 0 => hcc' = 0 /\ line' = 0 /\ row' = 0 /\ ~in_adj']_vars

(* In such a frame MA is the linear address of the character: the pointer
   saved at C0=R1 moves on by R1 a row, from the start the origin took,
   unless "rupture for dummies" was armed across the origin. *)
AddressIsLinear ==
    clean /\ ~in_adj /\ base # -1 /\ reg["R1"] <= reg["R0"] =>
        row_addr_r = (base + row * reg["R1"] + hcc) % AMod

(* A VSYNC begins only if C4 has differed from R7 since the last one began. *)
OneVsyncPerMatch == [][~VSYNC_r /\ VSYNC_r' => apart]_vars

(* A VSYNC lasts the lines that R3 gave when it began, 16 on type 1,
   however the registers are written while it lasts. *)
VsyncKeepsWidth == [][VSYNC_r /\ ~VSYNC_r' => lasts \in {1, -1} \/ writes' # writes]_vars

(* With registers that describe a picture, a VSYNC comes every frame once
   the writes have ended: nothing they left behind keeps the counters away
   from C4=R7 or the comparison disarmed. *)
Picture ==
    /\ reg["R0"] > 1 /\ reg["R4"] > 0 /\ reg["R7"] <= reg["R4"]
    /\ (reg["R4"] + 1) * (reg["R9"] + 1) + reg["R5"] > VsyncLines
VsyncRecurs == <>[]Picture => []<>VSYNC_r /\ []<>~VSYNC_r
=============================================================================
