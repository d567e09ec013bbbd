----------------------------- MODULE Crtc_proof -----------------------------
(***************************************************************************)
(* Proofs about Crtc for all widths, register files and writes: the types, *)
(* one VSYNC for a match of C4 with R7, the length of a VSYNC, and of a    *)
(* frame that nothing disturbs its length and its addresses.               *)
(***************************************************************************)
EXTENDS Crtc, TLAPS

USE WidthsAssumption, InputsAssumption

LEMMA ModLemma ==
    ASSUME NEW a \in Nat, NEW b \in Nat, b > 1
    PROVE  a % b \in 0..b-1
  OBVIOUS

LEMMA RegisterTypes ==
    /\ Registers = {"R0", "R1", "R3", "R4", "R5", "R6", "R7", "R9", "R12", "R13"}
    /\ Width["R0"] = HMod /\ Width["R3"] = WMod /\ Width["R4"] = VMod /\ Width["R5"] = LMod
    /\ Width["R7"] = VMod /\ Width["R9"] = LMod
    /\ \A r \in Registers : Width[r] \in Nat
  BY DEF Registers, Width, RegisterFiles, Writes

(* On type 0 a line begins at C0=0, never from a frozen C0=0, and a row
   with a line; the end of a frame is the end of a row. *)
LEMMA Lines0 ==
    ASSUME NEW w, NEW d, d = Type0!Engine0(w)
    PROVE  /\ d.row_new => d.line_new
           /\ d.line_new => d.hcc_next = 0 /\ hcc # 0
           /\ d.frame_new => d.row_new /\ d.row_next = 0
           /\ d.frame_adj => ~d.frame_new
           /\ d.vsc_load = IF reg["R3"] = 0 THEN WMod - 1 ELSE reg["R3"] - 1
           /\ d.vsync_holdoff = e0.vsync_wait
  BY DEF Type0!Engine0, Type0!hcc_last, Type0!r0_frozen, Type0!HccNext

(* On type 1 a VSYNC that a line begins is at a row that begins with it. *)
LEMMA Lines1 ==
    ASSUME NEW w, w.r # "R7", NEW d, d = Type1!Engine1(w)
    PROVE  /\ d.row_new => d.line_new
           /\ d.frame_new => d.row_new /\ d.row_next = 0
           /\ d.frame_adj => ~d.frame_new
           /\ d.line_new /\ d.vsync_line_fire => d.row_new /\ d.row_next = reg["R7"]
           /\ d.vsc_load = WMod - 1 /\ d.vsync_holdoff = FALSE
  BY DEF Type1!Engine1, Type1!With, Type1!AdjEnd, Type1!RowUp

-----------------------------------------------------------------------------
(* A comparison that is armed has seen C4 differ from R7, and C4 differs
   from R7 with a VSYNC just begun only on type 0, whose VSYNC begins with a
   line that need not begin a row. *)
SyncInv ==
    /\ vsync_allow => apart
    /\ row # reg["R7"] => apart \/ (CRTC_TYPE = 0 /\ hcc = 0)

LEMMA SyncEdge ==
    ASSUME TypeOK, SyncInv, NEW w \in Writes \cup {NoWrite}, w.r # "R7",
           NEW d, d = Decision(w), Edge(w), Watch(w, d)
    PROVE  SyncInv'
<1>1. /\ reg'["R7"] = reg["R7"]
      /\ CRTC_TYPE' = CRTC_TYPE /\ CRTC_TYPE \in {0, 1}
  BY RegisterTypes DEF Edge, Store, TypeOK, MachineTypeOK, RegisterFiles, Writes, NoWrite
<1>2. /\ Counters(d) /\ VSync(w, d) /\ ~FiredBy(w, d)
  BY DEF Edge, FiredBy
<1>3. apart' = (~Fires(d) /\ (apart \/ row' # reg["R7"]))
  BY <1>1, <1>2 DEF Watch, Began
<1>4. d.row_new /\ ((d.frame_new /\ row # 0) \/ d.row_next # row) => row' # row
  <2> SUFFICES ASSUME d.row_new, (d.frame_new /\ row # 0) \/ d.row_next # row
               PROVE  row' # row
    OBVIOUS
  <2>1. (d.frame_new => d.row_next = 0) /\ (d.frame_adj => ~d.frame_new)
    <3>1. d = Type0!Engine0(w) \/ d = Type1!Engine1(w)
      BY DEF Decision
    <3> QED BY <3>1, Lines0, Lines1
  <2>2. row' = IF ~d.frame_adj /\ d.frame_new THEN 0 ELSE d.row_next
    BY <1>2 DEF Counters
  <2> QED BY <2>1, <2>2
<1>5. d.row_new => ~(CRTC_TYPE = 0 /\ hcc = 0)
  BY Lines0 DEF Decision
<1>6. vsync_allow' => apart'
  <2>1. vsync_allow' => ~Fires(d) /\ (vsync_allow \/ (d.row_new /\ ((d.frame_new /\ row # 0) \/ d.row_next # row)))
    BY <1>2 DEF VSync
  <2> QED BY <1>3, <1>4, <1>5, <2>1 DEF SyncInv
<1>7. Fires(d) /\ CRTC_TYPE = 0 => hcc' = 0
  BY <1>2, Lines0 DEF Decision, Fires, Counters
<1>8. Fires(d) /\ CRTC_TYPE = 1 => row' = reg["R7"]
  <2> SUFFICES ASSUME Fires(d), CRTC_TYPE = 1 PROVE row' = reg["R7"]
    OBVIOUS
  <2>1. d = Type1!Engine1(w)
    BY DEF Decision
  <2>2. d.line_new /\ d.vsync_line_fire
    BY DEF Fires
  <2>3. d.row_new /\ d.row_next = reg["R7"] /\ (d.frame_new => d.row_next = 0)
    BY <2>1, <2>2, Lines1
  <2>4. row' = IF ~d.frame_adj /\ d.frame_new THEN 0 ELSE d.row_next
    BY <1>2, <2>3 DEF Counters
  <2> QED BY <2>3, <2>4
<1> QED BY <1>1, <1>3, <1>6, <1>7, <1>8 DEF SyncInv

LEMMA SyncWrite ==
    ASSUME TypeOK, SyncInv, NEW w \in Writes, Write(w)
    PROVE  SyncInv'
<1>1. /\ reg' = [reg EXCEPT ![w.r] = w.v] /\ w.r \in Registers /\ "R7" \in Registers
      /\ DOMAIN reg = Registers
  BY RegisterTypes DEF Write, Between, Store, Writes, NoWrite, TypeOK, MachineTypeOK, RegisterFiles
<1>2. PICK fired \in {FiredBy(w, Decision(NoWrite))} :
         apart' = (~fired /\ (apart \/ row # reg'["R7"]))
  BY DEF Write
<1>3. /\ fired => w.r = "R7" /\ w.v = row
      /\ vsync_allow' = IF w.r = "R7" THEN w.v # row ELSE vsync_allow
      /\ row' = row /\ hcc' = hcc /\ CRTC_TYPE' = CRTC_TYPE
  BY <1>2 DEF FiredBy, Write, Between, lineVars
<1> QED BY <1>1, <1>2, <1>3 DEF SyncInv

LEMMA SyncStep ==
    ASSUME TypeOK, SyncInv, [Next]_vars
    PROVE  SyncInv'
<1>1. CASE Character
  <2>1. NoWrite.r # "R7"
    BY DEF NoWrite
  <2> QED BY <1>1, <2>1, SyncEdge DEF Character
<1>2. CASE \E w \in Values : WriteAtClken(w)
  <2>1. PICK w \in Writes : WriteAtClken(w) /\ w.r # "R7"
    BY <1>2 DEF WriteAtClken
  <2> QED BY <2>1, SyncEdge DEF WriteAtClken
<1>3. CASE \E w \in Values : Write(w)
  BY <1>3, SyncWrite
<1>4. CASE SnapshotLoad
  <2>1. row' = row /\ vsync_allow' = vsync_allow
    BY <1>4 DEF SnapshotLoad, Load, syncVars, lineVars
  <2>2. apart' = (apart \/ row # reg'["R7"])
    BY <1>4 DEF SnapshotLoad
  <2> QED BY <2>1, <2>2 DEF SyncInv
<1>5. CASE SwitchType
  BY <1>5 DEF SwitchType, SetType, syncVars, lineVars, SyncInv
<1>6. CASE ResetPulse
  BY <1>6 DEF ResetPulse, SyncInv
<1>7. CASE UNCHANGED vars
  BY <1>7 DEF vars, machineVars, crtcVars, historyVars, SyncInv
<1> QED BY <1>1, <1>2, <1>3, <1>4, <1>5, <1>6, <1>7 DEF Next

-----------------------------------------------------------------------------
(* The decision of either engine keeps to the widths of the counters. *)
LEMMA DecisionTypes ==
    ASSUME TypeOK, NEW w, NEW d, d = Decision(w)
    PROVE  /\ d.hcc_next \in 0..HMod-1 /\ d.line_next \in 0..LMod-1
           /\ d.row_next \in 0..VMod-1 /\ d.c5_next \in 0..LMod-1
           /\ d.vsc_load \in 0..WMod-1
           /\ d.c0_line_last \in BOOLEAN /\ d.c0_row_last \in BOOLEAN
           /\ d.keep \in BOOLEAN /\ d.parity_next \in BOOLEAN
<1> USE DEF TypeOK, MachineTypeOK
<1>1. /\ reg["R3"] \in 0..WMod-1 /\ hcc \in Nat /\ line \in Nat /\ row \in Nat /\ c5 \in Nat
  BY RegisterTypes DEF RegisterFiles
<1>2. /\ (hcc + 1) % HMod \in 0..HMod-1 /\ (line + 1) % LMod \in 0..LMod-1
      /\ (row + 1) % VMod \in 0..VMod-1 /\ (c5 + 1) % LMod \in 0..LMod-1
  BY <1>1, ModLemma DEF WidthsAssumption
<1>3. CASE CRTC_TYPE = 0
  <2>1. d = Type0!Engine0(w)
    BY <1>3 DEF Decision
  <2>2. /\ d.hcc_next \in 0..HMod-1 /\ d.line_next \in 0..LMod-1
        /\ d.row_next \in 0..VMod-1 /\ d.c5_next \in 0..LMod-1
        /\ d.vsc_load \in 0..WMod-1
    BY <1>1, <1>2, <2>1 DEF Type0!Engine0, Type0!HccNext, Type0!LineUp, Type0!RowUp, WidthsAssumption
  <2>3. /\ d.c0_line_last \in BOOLEAN /\ d.c0_row_last \in BOOLEAN
        /\ d.keep \in BOOLEAN /\ d.parity_next \in BOOLEAN
    <3>1. /\ d.c0_row_last = (row = Type0!With(w, "R4"))
          /\ d.keep = (Type0!With(w, "R5") # 0)
          /\ d.parity_next = parity_r6
      BY <2>1 DEF Type0!Engine0
    <3>2. d.c0_line_last = Type0!C0LineLast(w)
      BY <2>1 DEF Type0!Engine0
    <3>3. Type0!C0LineLast(w) \in BOOLEAN
      BY DEF Type0!C0LineLast
    <3> QED BY <3>1, <3>2, <3>3
  <2> QED BY <2>2, <2>3
<1>4. CASE CRTC_TYPE = 1
  <2>1. d = Type1!Engine1(w)
    BY <1>4 DEF Decision
  <2>2. /\ d.hcc_next \in 0..HMod-1 /\ d.line_next \in 0..LMod-1
        /\ d.row_next \in 0..VMod-1 /\ d.c5_next \in 0..LMod-1
        /\ d.vsc_load \in 0..WMod-1
    BY <1>1, <1>2, <2>1 DEF Type1!Engine1, Type1!HccNext, Type1!LineUp, Type1!RowUp, WidthsAssumption
  <2>3. /\ d.c0_line_last \in BOOLEAN /\ d.c0_row_last \in BOOLEAN
        /\ d.keep \in BOOLEAN /\ d.parity_next \in BOOLEAN
    <3>1. /\ d.c0_row_last = (row = reg["R4"])
          /\ d.keep = (reg["R5"] # 0)
          /\ d.parity_next = ~parity_frame
      BY <2>1 DEF Type1!Engine1
    <3>2. d.c0_line_last = IF in_adj THEN Type1!AdjEnd(w) ELSE line = reg["R9"]
      BY <2>1 DEF Type1!Engine1
    <3>3. Type1!AdjEnd(w) \in BOOLEAN
      BY DEF Type1!AdjEnd
    <3> QED BY <3>1, <3>2, <3>3
  <2> QED BY <2>2, <2>3
<1> QED BY <1>3, <1>4

LEMMA StoreTypes ==
    ASSUME reg \in RegisterFiles, NEW w \in Writes \cup {NoWrite}, Store(w)
    PROVE  reg' \in RegisterFiles
  BY DEF Store, RegisterFiles, Writes

LEMMA StartTypes ==
    ASSUME reg \in RegisterFiles, NEW w \in Writes \cup {NoWrite}
    PROVE  Start(w) \in 0..AMod-1
<1>1. With(w, "R12") \in Nat /\ With(w, "R13") \in Nat
  BY RegisterTypes DEF With, RegisterFiles, Writes, NoWrite
<1>2. With(w, "R12") * 256 + With(w, "R13") \in Nat
  BY <1>1
<1> QED BY <1>2, ModLemma DEF Start, WidthsAssumption

(* The latches of type 0 over an edge and over a write between edges. *)
LEMMA LatchTypes0 ==
    ASSUME TypeOK, NEW w \in Writes \cup {NoWrite}, NEW d
    PROVE  /\ Type0!Latches0(w, d) \in Type0!Latch0
           /\ Type0!Latched0(w) \in Type0!Latch0
           /\ Type0!NoLatch0 \in Type0!Latch0
<1> USE DEF TypeOK, MachineTypeOK
<1>1. Type0!R5Target(w) \in 0..LMod-1
  <2>1. w.r = "R5" => (w.v + LMod - 1) % LMod \in 0..LMod-1
    <3>1. w.r = "R5" => w.v + LMod - 1 \in Nat
      BY DEF Writes, NoWrite, WidthsAssumption
    <3> QED BY <3>1, ModLemma DEF WidthsAssumption
  <2>2. e0.r5_target \in 0..LMod-1
    BY DEF Type0!Latch0
  <2> QED BY <2>1, <2>2 DEF Type0!R5Target, Type0!R5Window, Type0!Limit
<1>2. /\ Type0!Break(w) \in BOOLEAN /\ Type0!R4Switch(w) \in BOOLEAN
      /\ Type0!R9Compare(w) \in BOOLEAN /\ Type0!R9AtR0(w) \in BOOLEAN
      /\ Type0!R5Window(w) \in BOOLEAN /\ Type0!BreaksAtC01(w) \in BOOLEAN
      /\ Type0!Widens(w) \in BOOLEAN /\ Type0!r0_frozen \in BOOLEAN
      /\ Type0!R5Revives(w) \in BOOLEAN
  BY DEF Type0!Break, Type0!R4Switch, Type0!R9Compare, Type0!R9AtR0, Type0!R5Window,
     Type0!BreaksAtC01, Type0!Widens, Type0!r0_frozen, Type0!R5Revives
<1>3. Type0!ZeroAdjEntry(w, d) \in BOOLEAN
  BY DEF Type0!ZeroAdjEntry
<1>4. Type0!VsyncWait(w, d) \in BOOLEAN
  BY DEF Type0!VsyncWait
<1>5. \A x : Type0!UntilLineEnd(x, d) \in BOOLEAN
  BY DEF Type0!UntilLineEnd
<1>6. Type0!Latches0(w, d) \in Type0!Latch0
  BY <1>1, <1>2, <1>3, <1>4, <1>5 DEF Type0!Latches0, Type0!Latch0, WidthsAssumption
<1>7. Type0!Latched0(w) \in Type0!Latch0
  <2>1. /\ e0.r4_adjust_switch \in BOOLEAN /\ e0.r9_live_compare \in BOOLEAN
        /\ e0.r9_at_r0_pending \in BOOLEAN /\ e0.c0_1_adjust \in BOOLEAN
        /\ e0.zero_entry_consumed \in BOOLEAN /\ e0.zero_adj_entry \in BOOLEAN
        /\ e0.r5_override \in BOOLEAN /\ e0.widen_pending \in BOOLEAN
        /\ e0.widen_write \in BOOLEAN /\ e0.vsync_wait \in BOOLEAN
        /\ e0.c0_2_seen \in BOOLEAN
    BY DEF Type0!Latch0
  <2>2. (IF w.r = "R7" /\ w.v = row /\ ~VSYNC_r THEN vsync_allow /\ hcc > 1 ELSE e0.vsync_wait)
           \in BOOLEAN
    BY <2>1
  <2> QED BY <1>1, <1>2, <2>1, <2>2 DEF Type0!Latched0, Type0!Latch0
<1>8. Type0!NoLatch0 \in Type0!Latch0
  BY DEF Type0!NoLatch0, Type0!Latch0, WidthsAssumption
<1> QED BY <1>6, <1>7, <1>8

(* The latches of type 1, likewise. *)
LEMMA LatchTypes1 ==
    ASSUME TypeOK, NEW w \in Writes \cup {NoWrite}, NEW d
    PROVE  /\ Type1!Latches1(w, d) \in Type1!Latch1
           /\ Type1!Latched1(w) \in Type1!Latch1
           /\ Type1!NoLatch1 \in Type1!Latch1
<1> USE DEF TypeOK, MachineTypeOK
<1>1. /\ Type1!OpensR5(w) \in BOOLEAN /\ Type1!WidensLast(w) \in BOOLEAN
      /\ Type1!Extends(w) \in BOOLEAN /\ Type1!VmaFlag \in BOOLEAN
  BY DEF Type1!OpensR5, Type1!WidensLast, Type1!Extends, Type1!VmaFlag
<1>2. Type1!Latches1(w, d) \in Type1!Latch1
  BY <1>1 DEF Type1!Latches1, Type1!Latch1
<1>3. Type1!Latched1(w) \in Type1!Latch1
  BY <1>1 DEF Type1!Latched1, Type1!Latch1
<1>4. Type1!NoLatch1 \in Type1!Latch1
  BY DEF Type1!NoLatch1, Type1!Latch1
<1> QED BY <1>2, <1>3, <1>4

-----------------------------------------------------------------------------
(* The parts of a CLKEN edge keep to their types, for any decision that does. *)
LEMMA CaptureTypes ==
    ASSUME last \in [line : BOOLEAN, row : BOOLEAN, frame_adj : BOOLEAN],
           in_adj \in BOOLEAN, NEW d,
           d.c0_line_last \in BOOLEAN, d.c0_row_last \in BOOLEAN, d.keep \in BOOLEAN,
           Captures(d)
    PROVE  last' \in [line : BOOLEAN, row : BOOLEAN, frame_adj : BOOLEAN]
  BY DEF Captures

LEMMA PointerTypes ==
    ASSUME TypeOK, NEW w \in Writes \cup {NoWrite}, NEW d, VideoPointer(w, d)
    PROVE  row_addr' \in 0..AMod-1 /\ row_addr_r' \in 0..AMod-1
<1>1. /\ Start(w) \in 0..AMod-1 /\ Start(NoWrite) \in 0..AMod-1
  BY StartTypes DEF TypeOK, MachineTypeOK
<1>2. (row_addr_r + 1) % AMod \in 0..AMod-1
  BY ModLemma DEF TypeOK, MachineTypeOK, WidthsAssumption
<1>3. Start(IF d.row0_reload THEN w ELSE NoWrite) \in 0..AMod-1
  BY <1>1
<1> QED BY <1>2, <1>3 DEF VideoPointer, TypeOK, MachineTypeOK

LEMMA CounterTypes ==
    ASSUME TypeOK, NEW w, NEW d, d = Decision(w), Counters(d)
    PROVE  /\ hcc' \in 0..HMod-1 /\ line' \in 0..LMod-1 /\ row' \in 0..VMod-1
           /\ c5' \in 0..LMod-1 /\ in_adj' \in BOOLEAN /\ adj_from_row0' \in BOOLEAN
           /\ parity_frame' \in BOOLEAN /\ parity_r6' \in BOOLEAN
<1>1. /\ d.hcc_next \in 0..HMod-1 /\ d.line_next \in 0..LMod-1
      /\ d.row_next \in 0..VMod-1 /\ d.c5_next \in 0..LMod-1 /\ d.parity_next \in BOOLEAN
  BY DecisionTypes
<1>2. RowUp \in 0..VMod-1 /\ 0 \in 0..VMod-1
  BY ModLemma DEF RowUp, TypeOK, MachineTypeOK, WidthsAssumption
<1>3. /\ hcc' \in 0..HMod-1 /\ line' \in 0..LMod-1 /\ row' \in 0..VMod-1 /\ c5' \in 0..LMod-1
  BY <1>1, <1>2 DEF Counters, TypeOK, MachineTypeOK
<1>4. /\ in_adj' \in BOOLEAN /\ parity_frame' \in BOOLEAN /\ parity_r6' \in BOOLEAN
  BY <1>1 DEF Counters, TypeOK, MachineTypeOK
<1>5. adj_from_row0' \in BOOLEAN
  <2>1. d.row_new \/ ~d.row_new
    OBVIOUS
  <2>2. (adj_from_row0 \/ d.from_row0) \in BOOLEAN
    OBVIOUS
  <2>3. (adj_from_row0 /\ ~(CRTC_TYPE = 1 /\ in_adj /\ d.row_next # 1)) \in BOOLEAN
    OBVIOUS
  <2> QED BY <2>1, <2>2, <2>3 DEF Counters, TypeOK, MachineTypeOK
<1> QED BY <1>3, <1>4, <1>5

LEMMA VSyncTypes ==
    ASSUME TypeOK, NEW w, NEW d, d = Decision(w), VSync(w, d)
    PROVE  VSYNC_r' \in BOOLEAN /\ vsync_allow' \in BOOLEAN /\ vsc' \in 0..WMod-1
<1>1. d.vsc_load \in 0..WMod-1
  BY DecisionTypes
<1>2. VSYNC_r' \in BOOLEAN
  BY DEF VSync
<1>3. vsync_allow' \in BOOLEAN
  BY DEF VSync, TypeOK, MachineTypeOK
<1>4. vsc' \in 0..WMod-1
  <2>1. vsc # 0 => vsc - 1 \in 0..WMod-1
    BY DEF TypeOK, MachineTypeOK, WidthsAssumption
  <2> QED BY <1>1, <2>1 DEF VSync, TypeOK, MachineTypeOK
<1> QED BY <1>2, <1>3, <1>4

LEMMA EdgeTypes ==
    ASSUME TypeOK, NEW w \in Writes \cup {NoWrite}, Edge(w)
    PROVE  MachineTypeOK'
<1>1. PICK d \in {Decision(w)} :
         /\ Store(w) /\ Captures(d) /\ Counters(d) /\ VideoPointer(w, d) /\ VSync(w, d)
         /\ e0' = IF CRTC_TYPE = 0 THEN Type0!Latches0(w, d) ELSE e0
         /\ e1' = IF CRTC_TYPE = 1 THEN Type1!Latches1(w, d) ELSE e1
         /\ UNCHANGED CRTC_TYPE
  BY DEF Edge
<1>2. d = Decision(w)
  BY <1>1
<1>3. reg' \in RegisterFiles /\ CRTC_TYPE' \in {0, 1}
  BY <1>1, StoreTypes DEF TypeOK, MachineTypeOK
<1>4. last' \in [line : BOOLEAN, row : BOOLEAN, frame_adj : BOOLEAN]
  BY <1>1, <1>2, DecisionTypes, CaptureTypes DEF TypeOK, MachineTypeOK
<1>5. /\ hcc' \in 0..HMod-1 /\ line' \in 0..LMod-1 /\ row' \in 0..VMod-1
      /\ c5' \in 0..LMod-1 /\ in_adj' \in BOOLEAN /\ adj_from_row0' \in BOOLEAN
      /\ parity_frame' \in BOOLEAN /\ parity_r6' \in BOOLEAN
  BY <1>1, <1>2, CounterTypes
<1>6. row_addr' \in 0..AMod-1 /\ row_addr_r' \in 0..AMod-1
  BY <1>1, PointerTypes
<1>7. VSYNC_r' \in BOOLEAN /\ vsync_allow' \in BOOLEAN /\ vsc' \in 0..WMod-1
  BY <1>1, <1>2, VSyncTypes
<1>8. e0' \in Type0!Latch0 /\ e1' \in Type1!Latch1
  BY <1>1, LatchTypes0, LatchTypes1 DEF TypeOK, MachineTypeOK
<1> QED BY <1>3, <1>4, <1>5, <1>6, <1>7, <1>8 DEF MachineTypeOK, Type0!Latch0, Type1!Latch1

LEMMA BetweenTypes ==
    ASSUME TypeOK, NEW w \in Writes, Between(w)
    PROVE  MachineTypeOK'
<1>1. reg' \in RegisterFiles
  BY StoreTypes DEF Between, TypeOK, MachineTypeOK
<1>2. e0' \in Type0!Latch0 /\ e1' \in Type1!Latch1
  BY LatchTypes0, LatchTypes1 DEF Between, TypeOK, MachineTypeOK
<1>3. PICK d \in {Decision(NoWrite)} :
         /\ VSYNC_r' = (VSYNC_r \/ FiredBy(w, d))
         /\ vsc' = IF FiredBy(w, d) THEN d.vsc_load ELSE vsc
         /\ vsync_allow' = IF w.r = "R7" THEN w.v # row ELSE vsync_allow
  BY DEF Between
<1>4. d.vsc_load \in 0..WMod-1
  BY <1>3, DecisionTypes
<1>5. VSYNC_r' \in BOOLEAN /\ vsync_allow' \in BOOLEAN /\ vsc' \in 0..WMod-1
  BY <1>3, <1>4 DEF TypeOK, MachineTypeOK
<1> QED BY <1>1, <1>2, <1>5 DEF Between, lineVars, pointerVars, TypeOK, MachineTypeOK,
           Type0!Latch0, Type1!Latch1

LEMMA ForgottenTypes ==
    ASSUME ForgetLatches
    PROVE  e0' \in Type0!Latch0 /\ e1' \in Type1!Latch1
  BY DEF ForgetLatches, Type0!NoLatch0, Type0!Latch0, Type1!NoLatch1, Type1!Latch1,
     WidthsAssumption

LEMMA LoadTypes ==
    ASSUME TypeOK, NEW file \in Programs, Load(file)
    PROVE  MachineTypeOK'
  BY ForgottenTypes DEF Load, lineVars, pointerVars, syncVars, TypeOK, MachineTypeOK,
     Type0!Latch0, Type1!Latch1

LEMMA SetTypeTypes ==
    ASSUME TypeOK, SetType(1 - CRTC_TYPE)
    PROVE  MachineTypeOK'
  BY ForgottenTypes DEF SetType, lineVars, pointerVars, syncVars, TypeOK, MachineTypeOK,
     Type0!Latch0, Type1!Latch1

LEMMA ResetTypes ==
    ASSUME TypeOK, Reset(NoWrite) \/ ResetEdge(NoWrite)
    PROVE  MachineTypeOK'
<1>1. UnderReset(NoWrite)
  BY DEF Reset, ResetEdge
<1>2. /\ reg' = reg /\ CRTC_TYPE' = CRTC_TYPE /\ e0' \in Type0!Latch0 /\ e1' \in Type1!Latch1
  BY <1>1, ForgottenTypes DEF UnderReset, Store
<1>3. /\ hcc' \in 0..HMod-1 /\ line' \in 0..LMod-1 /\ row' \in 0..VMod-1
      /\ c5' \in 0..LMod-1 /\ in_adj' \in BOOLEAN /\ adj_from_row0' \in BOOLEAN
      /\ parity_frame' \in BOOLEAN /\ parity_r6' \in BOOLEAN
      /\ VSYNC_r' \in BOOLEAN /\ vsync_allow' \in BOOLEAN /\ vsc' \in 0..WMod-1
  <2>1. hcc' = 0 /\ line' = 0 /\ row' = 0 /\ c5' = 0 /\ vsc' = 0
    BY <1>1 DEF UnderReset
  <2>2. 0 \in 0..HMod-1 /\ 0 \in 0..LMod-1 /\ 0 \in 0..VMod-1 /\ 0 \in 0..WMod-1
    BY DEF WidthsAssumption
  <2>3. /\ in_adj' \in BOOLEAN /\ adj_from_row0' \in BOOLEAN /\ parity_frame' \in BOOLEAN
        /\ parity_r6' \in BOOLEAN /\ VSYNC_r' \in BOOLEAN /\ vsync_allow' \in BOOLEAN
    BY <1>1 DEF UnderReset
  <2> QED BY <2>1, <2>2, <2>3
<1>4. row_addr' \in 0..AMod-1 /\ row_addr_r' \in 0..AMod-1
  <2>1. CASE Reset(NoWrite)
    BY <2>1 DEF Reset, pointerVars, TypeOK, MachineTypeOK
  <2>2. CASE ResetEdge(NoWrite)
    <3>1. PICK d \in {Decision(NoWrite)} : VideoPointer(NoWrite, d)
      BY <2>2 DEF ResetEdge
    <3> QED BY <3>1, PointerTypes
  <2> QED BY <2>1, <2>2
<1>5. last' \in [line : BOOLEAN, row : BOOLEAN, frame_adj : BOOLEAN]
  BY <1>1 DEF UnderReset, TypeOK, MachineTypeOK
<1> QED BY <1>2, <1>3, <1>4, <1>5 DEF TypeOK, MachineTypeOK, Type0!Latch0, Type1!Latch1

LEMMA WatchTypes ==
    ASSUME TypeOK, NEW w \in Writes \cup {NoWrite}, NEW d, d = Decision(w), Edge(w), Watch(w, d)
    PROVE  /\ clean' \in BOOLEAN /\ chars' \in Nat /\ base' \in {-1} \cup 0..AMod-1
           /\ apart' \in BOOLEAN /\ lasts' \in Nat \cup {-1}
<1>1. clean' \in BOOLEAN /\ apart' \in BOOLEAN
  BY DEF Watch
<1>2. chars' \in Nat
  BY DEF Watch, TypeOK
<1>3. base' \in {-1} \cup 0..AMod-1
  <2>1. Start(w) \in 0..AMod-1 /\ Start(NoWrite) \in 0..AMod-1
    BY StartTypes DEF TypeOK, MachineTypeOK
  <2>2. base' = base \/ base' = Start(NoWrite) \/ base' = Start(w) \/ base' = -1
    BY DEF Watch
  <2> QED BY <2>1, <2>2 DEF TypeOK
<1>4. lasts' \in Nat \cup {-1}
  <2>1. VsyncLines + Partial(w, d) \in Nat
    BY RegisterTypes DEF VsyncLines, Partial, TypeOK, MachineTypeOK, RegisterFiles, WidthsAssumption
  <2>2. \/ lasts' = VsyncLines + Partial(w, d) \/ lasts' = -1 \/ lasts' = lasts
        \/ lasts > 0 /\ lasts' = lasts - 1
    BY DEF Watch
  <2> QED BY <2>1, <2>2 DEF TypeOK
<1> QED BY <1>1, <1>2, <1>3, <1>4

LEMMA DisturbTypes ==
    ASSUME TypeOK, Disturb
    PROVE  writes' \in 0..MaxWrites /\ busy' \in BOOLEAN
<1>1. writes' = writes + 1 /\ writes < MaxWrites /\ busy' = TRUE
  BY DEF Disturb
<1> QED BY <1>1 DEF TypeOK

LEMMA WriteTypes ==
    ASSUME TypeOK, NEW w \in Writes, Write(w)
    PROVE  TypeOK'
<1>1. MachineTypeOK'
  BY BetweenTypes DEF Write
<1>2. /\ writes' \in 0..MaxWrites /\ busy' \in BOOLEAN /\ clean' \in BOOLEAN /\ chars' \in Nat
      /\ base' \in {-1} \cup 0..AMod-1
  BY DisturbTypes DEF Write, Unclean, TypeOK
<1>3. apart' \in BOOLEAN
  BY DEF Write
<1>4. lasts' \in Nat \cup {-1}
  <2>1. VsyncLines + 1 - CRTC_TYPE \in Nat
    BY RegisterTypes DEF VsyncLines, TypeOK, MachineTypeOK, RegisterFiles, WidthsAssumption
  <2> QED BY <2>1 DEF Write, TypeOK
<1> QED BY <1>1, <1>2, <1>3, <1>4 DEF TypeOK

(* An edge, with or without a write on it, keeps the types. *)
LEMMA WatchedEdgeTypes ==
    ASSUME TypeOK, NEW w \in Writes \cup {NoWrite}, NEW d \in {Decision(w)}, Edge(w), Watch(w, d),
           writes' \in 0..MaxWrites, busy' \in BOOLEAN
    PROVE  TypeOK'
  BY EdgeTypes, WatchTypes DEF TypeOK

(* Every counter keeps to its width and every latch to its type, whatever is
   written, at whatever character, on either type: the counters that run on
   past a limit lowered under them wrap within their bits. *)
THEOREM TypeCorrect == Spec => []TypeOK
<1>1. Init => TypeOK
  <2> SUFFICES ASSUME Init PROVE TypeOK
    OBVIOUS
  <2>1. /\ hcc \in 0..HMod-1 /\ line \in 0..LMod-1 /\ row \in 0..VMod-1 /\ c5 \in 0..LMod-1
        /\ row_addr \in 0..AMod-1 /\ row_addr_r \in 0..AMod-1 /\ vsc \in 0..WMod-1
    BY DEF Init, PowerUp, WidthsAssumption
  <2>2. /\ in_adj \in BOOLEAN /\ adj_from_row0 \in BOOLEAN /\ VSYNC_r \in BOOLEAN
        /\ parity_frame \in BOOLEAN /\ parity_r6 \in BOOLEAN /\ vsync_allow \in BOOLEAN
        /\ last \in [line : BOOLEAN, row : BOOLEAN, frame_adj : BOOLEAN]
    BY DEF Init, PowerUp
  <2>3. e0 \in Type0!Latch0 /\ e1 \in Type1!Latch1
    BY DEF Init, PowerUp, Type0!NoLatch0, Type0!Latch0, Type1!NoLatch1, Type1!Latch1,
       WidthsAssumption
  <2>4. reg \in RegisterFiles /\ CRTC_TYPE \in {0, 1}
    BY DEF Init
  <2>5. /\ writes \in 0..MaxWrites /\ chars \in Nat
        /\ base \in {-1} \cup 0..AMod-1 /\ lasts \in Nat \cup {-1}
    BY DEF Init, WidthsAssumption
  <2>6. busy \in BOOLEAN /\ clean \in BOOLEAN /\ apart \in BOOLEAN
    BY DEF Init
  <2>7. MachineTypeOK
    BY <2>1, <2>2, <2>3, <2>4 DEF MachineTypeOK, Type0!Latch0, Type1!Latch1
  <2> QED BY <2>5, <2>6, <2>7 DEF TypeOK
<1>2. TypeOK /\ [Next]_vars => TypeOK'
  <2> SUFFICES ASSUME TypeOK, [Next]_vars PROVE TypeOK'
    OBVIOUS
  <2>1. CASE Character
    <3>1. PICK d \in {Decision(NoWrite)} : Edge(NoWrite) /\ Watch(NoWrite, d)
      BY <2>1 DEF Character
    <3>2. writes' \in 0..MaxWrites /\ busy' \in BOOLEAN
      BY <2>1 DEF Character, TypeOK
    <3> QED BY <3>1, <3>2, WatchedEdgeTypes
  <2>2. CASE \E w \in Values : WriteAtClken(w)
    <3>1. PICK w \in Writes : WriteAtClken(w)
      BY <2>2
    <3>2. PICK d \in {Decision(w)} : Edge(w) /\ Watch(w, d)
      BY <3>1 DEF WriteAtClken
    <3>3. writes' \in 0..MaxWrites /\ busy' \in BOOLEAN
      BY <3>1, DisturbTypes DEF WriteAtClken
    <3> QED BY <3>2, <3>3, WatchedEdgeTypes
  <2>3. CASE \E w \in Values : Write(w)
    BY <2>3, WriteTypes
  <2>4. CASE SnapshotLoad \/ SwitchType \/ ResetPulse
    <3>1. MachineTypeOK'
      BY <2>4, LoadTypes, SetTypeTypes, ResetTypes DEF SnapshotLoad, SwitchType, ResetPulse
    <3>2. /\ Disturb /\ clean' = FALSE /\ chars' = 0 /\ base' = base /\ lasts' = -1
      BY <2>4 DEF SnapshotLoad, SwitchType, ResetPulse, Unknown, Unclean
    <3>3. apart' \in BOOLEAN
      BY <2>4 DEF SnapshotLoad, SwitchType, ResetPulse
    <3> QED BY <3>1, <3>2, <3>3, DisturbTypes DEF TypeOK
  <2>5. CASE UNCHANGED vars
    BY <2>5 DEF vars, machineVars, crtcVars, historyVars, TypeOK, MachineTypeOK,
       Type0!Latch0, Type1!Latch1
  <2> QED BY <2>1, <2>2, <2>3, <2>4, <2>5 DEF Next
<1> QED BY <1>1, <1>2, PTL DEF Spec

-----------------------------------------------------------------------------
(* A write of R7 starts a VSYNC only while the comparison is armed. *)
LEMMA FiredArmed ==
    ASSUME NEW w, NEW v, FiredBy(w, Decision(v))
    PROVE  vsync_allow /\ ~VSYNC_r /\ w.r = "R7"
<1>1. Decision(v).r7_write_fire => vsync_allow /\ ~VSYNC_r
  BY DEF Decision, Type0!Engine0, Type1!Engine1
<1> QED BY <1>1 DEF FiredBy

(* A VSYNC begins only if C4 has differed from R7 since the last one began:
   neither a line that repeats its row, nor a write of R7, nor a snapshot or
   a change of type starts a second one for the same match. *)
THEOREM OneVsyncTheorem == Spec => OneVsyncPerMatch
<1>1. Init => SyncInv
  BY DEF Init, SyncInv
<1>2. TypeOK /\ SyncInv /\ [Next]_vars => SyncInv'
  BY SyncStep
<1>3. TypeOK /\ SyncInv /\ [Next]_vars => [~VSYNC_r /\ VSYNC_r' => apart]_vars
  <2> SUFFICES ASSUME SyncInv, Next, ~VSYNC_r, VSYNC_r'
               PROVE  vsync_allow
    BY DEF SyncInv, vars, machineVars, crtcVars
  <2>1. ASSUME NEW w, w.r # "R7", Edge(w) PROVE vsync_allow
    BY <2>1 DEF Edge, VSync, FiredBy, Fires
  <2>2. CASE Character
    BY <2>1, <2>2 DEF Character, NoWrite
  <2>3. CASE \E w \in Values : WriteAtClken(w)
    BY <2>1, <2>3 DEF WriteAtClken
  <2>4. CASE \E w \in Values : Write(w)
    BY <2>4, FiredArmed DEF Write, Between
  <2>5. CASE SnapshotLoad \/ SwitchType \/ ResetPulse
    BY <2>5 DEF SnapshotLoad, SwitchType, ResetPulse, Load, SetType, Reset, ResetEdge,
       UnderReset, syncVars
  <2> QED BY <2>2, <2>3, <2>4, <2>5 DEF Next
<1> QED BY <1>1, <1>2, <1>3, TypeCorrect, PTL DEF Spec, OneVsyncPerMatch

-----------------------------------------------------------------------------
(* The lines a VSYNC has still to see begin are those of its counter, and
   one more while type 0 lets the line pass in which a write began it. *)
Waits == CRTC_TYPE = 0 /\ e0.vsync_wait
Left == vsc + 1 + IF Waits THEN 1 ELSE 0
WidthInv == VSYNC_r /\ lasts # -1 => lasts = Left

LEMMA LoadedWidth ==
    ASSUME TypeOK, NEW w
    PROVE  Decision(w).vsc_load + 1 = VsyncLines
<1>1. reg["R3"] \in Nat
  BY RegisterTypes DEF TypeOK, MachineTypeOK, RegisterFiles
<1>2. Decision(w).vsc_load = IF CRTC_TYPE = 0 /\ reg["R3"] # 0 THEN reg["R3"] - 1 ELSE WMod - 1
  BY DEF Decision, Type0!Engine0, Type1!Engine1, TypeOK, MachineTypeOK
<1> QED BY <1>1, <1>2 DEF VsyncLines, WidthsAssumption

LEMMA WidthEdge ==
    ASSUME TypeOK, WidthInv, NEW w, w.r # "R7", NEW d, d = Decision(w), Edge(w), Watch(w, d)
    PROVE  /\ WidthInv'
           /\ VSYNC_r /\ ~VSYNC_r' => lasts \in {1, -1}
<1>1. /\ VSync(w, d) /\ ~FiredBy(w, d) /\ CRTC_TYPE' = CRTC_TYPE
      /\ vsc \in Nat /\ lasts \in Nat \cup {-1}
      /\ CRTC_TYPE \in {0, 1} /\ d.vsc_load \in Nat /\ d.vsc_load + 1 = VsyncLines
  BY DecisionTypes, LoadedWidth DEF Edge, FiredBy, TypeOK, MachineTypeOK, WidthsAssumption
<1>2. d.vsync_holdoff <=> Waits
  <2>1. CASE CRTC_TYPE = 0
    <3>1. d.vsync_holdoff = e0.vsync_wait
      BY <2>1, Lines0 DEF Decision
    <3> QED BY <2>1, <3>1 DEF Waits
  <2>2. CASE CRTC_TYPE = 1
    <3>1. d = Type1!Engine1(w)
      BY <2>2 DEF Decision
    <3>2. d.vsync_holdoff = FALSE
      BY <3>1, Lines1
    <3> QED BY <2>2, <3>2 DEF Waits
  <2> QED BY <1>1, <2>1, <2>2
<1>3. Waits' <=> Waits /\ ~d.line_new
  <2>1. CASE CRTC_TYPE = 0
    <3>1. e0' = Type0!Latches0(w, d)
      BY <2>1 DEF Edge
    <3>2. e0'.vsync_wait = Type0!VsyncWait(w, d)
      BY <3>1 DEF Type0!Latches0
    <3>3. Type0!VsyncWait(w, d) <=> e0.vsync_wait /\ ~d.line_new
      BY DEF Type0!VsyncWait
    <3> QED BY <1>1, <2>1, <3>2, <3>3 DEF Waits
  <2>2. CASE CRTC_TYPE = 1
    BY <1>1, <2>2 DEF Waits
  <2> QED BY <1>1, <2>1, <2>2
<1>4. Fires(d) => d.line_new /\ ~Waits
  BY <1>2 DEF Fires
<1>5. VSYNC_r' <=> Fires(d) \/ (VSYNC_r /\ ~(d.line_new /\ ~Waits /\ vsc = 0))
  <2>1. VSYNC_r' = (Fires(d) \/ (VSYNC_r /\ ~(d.line_new /\ ~d.vsync_holdoff /\ vsc = 0)))
    BY <1>1 DEF VSync
  <2> QED BY <1>2, <2>1
<1>6. vsc' = IF Fires(d) THEN d.vsc_load
             ELSE IF d.line_new /\ ~Waits /\ vsc # 0 THEN vsc - 1 ELSE vsc
  <2>1. CASE Fires(d)
    <3>1. vsc' = CASE FiredBy(w, d) \/ Fires(d) -> d.vsc_load
                   [] ~FiredBy(w, d) /\ (d.line_new /\ ~d.vsync_holdoff) /\ vsc # 0 -> vsc - 1
                   [] OTHER -> vsc
      BY <1>1 DEF VSync
    <3>2. ~d.vsync_holdoff /\ vsc = 0
      BY <2>1 DEF Fires
    <3> QED BY <2>1, <3>1, <3>2
  <2>2. CASE ~Fires(d) /\ d.line_new /\ ~Waits /\ vsc # 0
    BY <1>1, <1>2, <2>2 DEF VSync
  <2>3. CASE ~Fires(d) /\ ~(d.line_new /\ ~Waits /\ vsc # 0)
    BY <1>1, <1>2, <2>3 DEF VSync
  <2> QED BY <2>1, <2>2, <2>3
<1>7. lasts' = IF Fires(d) THEN VsyncLines
               ELSE IF VSYNC_r' /\ lasts > 0 /\ d.line_new THEN lasts - 1
               ELSE IF ~VSYNC_r' THEN -1 ELSE lasts
  <2>1. CASE Fires(d)
    BY <1>1, <2>1 DEF Watch, Began, Partial
  <2>2. CASE ~Fires(d) /\ VSYNC_r' /\ lasts > 0 /\ d.line_new
    BY <1>1, <2>2 DEF Watch, Began
  <2>3. CASE ~Fires(d) /\ ~VSYNC_r'
    BY <1>1, <2>3 DEF Watch, Began
  <2>4. CASE ~Fires(d) /\ VSYNC_r' /\ ~(lasts > 0 /\ d.line_new)
    BY <1>1, <2>4 DEF Watch, Began
  <2> QED BY <2>1, <2>2, <2>3, <2>4
<1>8. WidthInv' <=> (VSYNC_r' /\ lasts' # -1 => lasts' = vsc' + 1 + IF Waits' THEN 1 ELSE 0)
  BY DEF WidthInv, Left
<1>9. CASE Fires(d)
  BY <1>1, <1>3, <1>4, <1>5, <1>6, <1>7, <1>8, <1>9
<1>10. CASE ~Fires(d)
  BY <1>1, <1>3, <1>5, <1>6, <1>7, <1>8, <1>10 DEF WidthInv, Left
<1> QED BY <1>9, <1>10

LEMMA WidthWrite ==
    ASSUME TypeOK, WidthInv, NEW w \in Writes, Write(w)
    PROVE  WidthInv'
<1>1. PICK fired \in {FiredBy(w, Decision(NoWrite))} :
         lasts' = IF fired THEN VsyncLines + 1 - CRTC_TYPE ELSE lasts
  BY DEF Write
<1>2. /\ VSYNC_r' = (VSYNC_r \/ fired) /\ CRTC_TYPE' = CRTC_TYPE
      /\ vsc' = IF fired THEN Decision(NoWrite).vsc_load ELSE vsc
  BY <1>1 DEF Write, Between
<1>3. CRTC_TYPE = 0 => e0' = Type0!Latched0(w)
  BY DEF Write, Between
<1>4. CRTC_TYPE = 0 => e0'.vsync_wait = IF w.r = "R7" /\ w.v = row /\ ~VSYNC_r
                                        THEN vsync_allow /\ hcc > 1 ELSE e0.vsync_wait
  BY <1>3 DEF Type0!Latched0
<1>5. fired => w.r = "R7" /\ w.v = row /\ ~VSYNC_r
  BY <1>1, FiredArmed DEF FiredBy
<1>6. fired /\ CRTC_TYPE = 0 => vsync_allow /\ hcc > 1
  BY <1>1 DEF FiredBy, Decision, Type0!Engine0
<1>7. CASE fired
  <2>1. CRTC_TYPE = 0 => e0'.vsync_wait
    BY <1>4, <1>5, <1>6, <1>7
  <2>2. vsc' + 1 = VsyncLines /\ vsc' \in Nat /\ lasts' = VsyncLines + 1 - CRTC_TYPE
    BY <1>1, <1>2, <1>7, LoadedWidth, DecisionTypes DEF WidthsAssumption
  <2> QED BY <1>2, <2>1, <2>2 DEF WidthInv, Left, Waits, TypeOK, MachineTypeOK
<1>8. CASE ~fired
  <2>1. VSYNC_r' = VSYNC_r /\ vsc' = vsc /\ lasts' = lasts
    BY <1>1, <1>2, <1>8 DEF TypeOK, MachineTypeOK
  <2>2. CRTC_TYPE = 0 /\ VSYNC_r => e0'.vsync_wait = e0.vsync_wait
    BY <1>4
  <2> QED BY <1>2, <2>1, <2>2 DEF WidthInv, Left, Waits
<1> QED BY <1>7, <1>8

(* A VSYNC lasts the lines that R3 gave when it began, 16 on type 1, however
   the registers are written while it lasts; only a snapshot, a change of
   type or a reset cuts it or leaves its length open. *)
THEOREM VsyncWidthTheorem == Spec => VsyncKeepsWidth
<1>1. Init => WidthInv
  BY DEF Init, WidthInv
<1>2. TypeOK /\ WidthInv /\ [Next]_vars => WidthInv'
  <2> SUFFICES ASSUME TypeOK, WidthInv, [Next]_vars PROVE WidthInv'
    OBVIOUS
  <2>1. CASE Character
    BY <2>1, WidthEdge DEF Character, NoWrite
  <2>2. CASE \E w \in Values : WriteAtClken(w)
    BY <2>2, WidthEdge DEF WriteAtClken
  <2>3. CASE \E w \in Values : Write(w)
    BY <2>3, WidthWrite
  <2>4. CASE SnapshotLoad \/ SwitchType \/ ResetPulse
    BY <2>4 DEF SnapshotLoad, SwitchType, ResetPulse, Unknown, WidthInv
  <2>5. CASE UNCHANGED vars
    BY <2>5 DEF vars, machineVars, crtcVars, historyVars, WidthInv, Left, Waits
  <2> QED BY <2>1, <2>2, <2>3, <2>4, <2>5 DEF Next
<1>3. TypeOK /\ WidthInv /\ [Next]_vars
        => [VSYNC_r /\ ~VSYNC_r' => lasts \in {1, -1} \/ writes' # writes]_vars
  <2> SUFFICES ASSUME TypeOK, WidthInv, Next, VSYNC_r, ~VSYNC_r', writes' = writes
               PROVE  lasts \in {1, -1}
    OBVIOUS
  <2>1. Character
    BY DEF Next, WriteAtClken, Write, SnapshotLoad, SwitchType, ResetPulse, Disturb, TypeOK
  <2> QED BY <2>1, WidthEdge DEF Character, NoWrite
<1> QED BY <1>1, <1>2, <1>3, TypeCorrect, PTL DEF Spec, VsyncKeepsWidth
-----------------------------------------------------------------------------
(* Arithmetic of lines and of addresses. *)
LEMMA Products ==
    ASSUME NEW l \in Nat, NEW t \in Nat, NEW w \in Nat, l < t
    PROVE  l * w + w <= t * w
<1>1. PICK k \in Nat : t = l + 1 + k
  <2>1. t - l - 1 \in Nat /\ t = l + 1 + (t - l - 1)
    OBVIOUS
  <2> QED BY <2>1
<1>2. t * w = l * w + w + k * w /\ k * w >= 0
  BY <1>1
<1> QED BY <1>2

LEMMA NextRow ==
    ASSUME NEW n \in Nat, NEW h \in Nat
    PROVE  (n + 1) * (h + 1) = n * (h + 1) + h + 1
  OBVIOUS

LEMMA LastOf ==
    ASSUME NEW l \in Nat, NEW t \in Nat, NEW w \in Nat, NEW h \in Nat, l < t, h < w
    PROVE  l * w + h = t * w - 1 <=> l = t - 1 /\ h = w - 1
<1>1. l * w \in Nat /\ t * w \in Nat
  OBVIOUS
<1>2. CASE l = t - 1
  <2>1. t * w = l * w + w
    BY <1>2
  <2> QED BY <1>1, <1>2, <2>1
<1>3. CASE l # t - 1
  <2>1. l + 1 \in Nat /\ l + 1 < t /\ (l + 1) * w = l * w + w
    BY <1>3
  <2>2. (l + 1) * w + w <= t * w
    BY <2>1, Products
  <2> QED BY <1>1, <1>3, <2>1, <2>2
<1> QED BY <1>2, <1>3

LEMMA ModUnique ==
    ASSUME NEW x \in Nat, NEW q \in Nat, NEW r \in Nat, NEW b \in Nat, b > 0, x = q * b + r, r < b
    PROVE  x % b = r
  OBVIOUS

LEMMA ModStep ==
    ASSUME NEW x \in Nat, NEW b \in Nat, b > 1
    PROVE  ((x % b) + 1) % b = (x + 1) % b
<1> DEFINE q == x \div b  r == x % b
<1>1. q \in Nat /\ r \in Nat /\ r < b /\ x = q * b + r
  OBVIOUS
<1> HIDE DEF q, r
<1>2. \A s \in Nat : s < b /\ x + 1 = q * b + s => (x + 1) % b = s
  BY <1>1, ModUnique
<1>3. CASE r + 1 < b
  <2>1. x + 1 = q * b + (r + 1) /\ r + 1 \in Nat
    BY <1>1
  <2>2. (x + 1) % b = r + 1 /\ (r + 1) % b = r + 1
    BY <1>1, <1>2, <1>3, <2>1
  <2> QED BY <2>2 DEF r
<1>4. CASE r + 1 = b
  <2>1. x + 1 = (q + 1) * b + 0 /\ q + 1 \in Nat /\ x + 1 \in Nat
    BY <1>1, <1>4
  <2>2. ASSUME NEW y \in Nat, NEW n \in Nat, y = n * b + 0 PROVE y % b = 0
    BY <2>2, ModUnique
  <2>3. (x + 1) % b = 0
    BY <2>1, <2>2
  <2>4. (r + 1) % b = 0
    BY <1>1, <1>4, <2>2
  <2> QED BY <2>3, <2>4 DEF r
<1> QED BY <1>1, <1>3, <1>4

-----------------------------------------------------------------------------
(* A write of R9 on the last character of a last line is remembered for the
   edge that ends it, on which the line turns into adjustment: no frame ends
   there, and none begins with the latch. *)
PendingInv ==
    e0.r9_at_r0_pending =>
        /\ busy /\ CRTC_TYPE = 0 /\ hcc = reg["R0"] /\ hcc >= 2 /\ ~in_adj
        /\ Type0!adjustment_selected(NoWrite)

(* A clean frame: its latches are quiet, its counters within the registers,
   its captures those of its line, and the ghost counts its characters. *)
Quiet0 ==
    /\ ~e0.r4_adjust_switch /\ ~e0.r9_live_compare /\ ~e0.r9_at_r0_pending /\ ~e0.c0_1_adjust
    /\ ~e0.zero_adj_entry /\ ~e0.r5_override /\ ~e0.widen_pending /\ ~e0.widen_write
Quiet1 == ~e1.rfd_r5_write /\ ~e1.rfd_r0_write
Quiet == IF CRTC_TYPE = 0 THEN Quiet0 ELSE Quiet1

AdjLine == IF CRTC_TYPE = 0 THEN line ELSE c5
Within ==
    /\ hcc <= reg["R0"]
    /\ IF in_adj THEN AdjLine < reg["R5"] ELSE row <= reg["R4"] /\ line <= reg["R9"]

Captured ==
    CRTC_TYPE = 0 /\ hcc > 0 =>
      IF in_adj THEN (last.line <=> line + 1 = reg["R5"]) /\ ~last.frame_adj
      ELSE /\ last.line <=> line = reg["R9"]
           /\ last.row <=> row = reg["R4"]
           /\ last.frame_adj <=> line = reg["R9"] /\ row = reg["R4"] /\ (hcc > 2 => reg["R5"] # 0)

RowLines == (reg["R4"] + 1) * (reg["R9"] + 1)
FrameLines == RowLines + reg["R5"]
LineNo == IF in_adj THEN RowLines + AdjLine ELSE row * (reg["R9"] + 1) + line
Counted == chars = LineNo * (reg["R0"] + 1) + hcc

(* The lines after which a clean frame ends, and enters its adjustment. *)
EndsFrame == IF in_adj THEN AdjLine + 1 = reg["R5"]
             ELSE line = reg["R9"] /\ row = reg["R4"] /\ reg["R5"] = 0
EntersAdj == ~in_adj /\ line = reg["R9"] /\ row = reg["R4"] /\ reg["R5"] # 0

FrameInv == clean => Regular /\ Quiet /\ Within /\ Captured /\ Counted

(* The pointer of a clean frame: the one saved is that of its row until the
   save of the row, then that of the next; on type 1 the first row reloads. *)
MA(r, c) == (base + r * reg["R1"] + c) % AMod
Linear == clean /\ ~in_adj /\ base # -1 /\ reg["R1"] <= reg["R0"]
PointerInv ==
    /\ Linear =>
         /\ row_addr_r = MA(row, hcc)
         /\ IF line = reg["R9"] /\ hcc > reg["R1"] THEN row_addr = MA(row + 1, 0)
            ELSE CRTC_TYPE = 0 \/ row > 0 => row_addr = MA(row, 0)
    /\ clean /\ base # -1 /\ CRTC_TYPE = 1 => e1 = Type1!NoLatch1 /\ base = Start(NoWrite)


(* What both engines decide in a clean frame. *)
CleanDecision(d) ==
    /\ d.line_new <=> hcc = reg["R0"]
    /\ d.row_new => d.line_new
    /\ d.hcc_end <=> hcc = reg["R0"]
    /\ d.hcc_next = IF hcc = reg["R0"] THEN 0 ELSE hcc + 1
    /\ d.frame_new <=> hcc = reg["R0"] /\ EndsFrame
    /\ d.row_new /\ d.frame_adj <=> hcc = reg["R0"] /\ EntersAdj
    /\ ~in_adj => (d.row_new <=> hcc = reg["R0"] /\ line = reg["R9"])
    /\ ~in_adj /\ hcc = reg["R0"] /\ row # reg["R4"] => d.row_next = row + 1
    /\ ~in_adj /\ hcc = reg["R0"] => d.line_next = IF line = reg["R9"] THEN 0 ELSE line + 1
    /\ ~d.in_adj_route /\ ~d.frozen_row_advance /\ ~d.widen_step
    /\ hcc = reg["R0"] /\ in_adj /\ ~EndsFrame =>
         IF CRTC_TYPE = 0 THEN d.line_next = line + 1 ELSE d.c5_next = c5 + 1
    /\ CRTC_TYPE = 1 /\ hcc # reg["R0"] => d.c5_next = c5
    /\ CRTC_TYPE = 1 /\ ~in_adj /\ hcc = reg["R0"] => d.c5_next = 0

LEMMA CleanBounds ==
    ASSUME TypeOK, FrameInv, clean
    PROVE  /\ {reg["R0"], reg["R1"], reg["R4"], reg["R5"], reg["R9"], hcc, line, row, c5} \subseteq Nat
           /\ hcc <= reg["R0"] /\ (hcc # reg["R0"] => hcc + 1 < HMod)
           /\ (hcc + 1) % HMod = IF hcc + 1 < HMod THEN hcc + 1 ELSE 0
           /\ line < LMod /\ (line + 1 < LMod => (line + 1) % LMod = line + 1)
           /\ c5 < LMod /\ (c5 + 1 < LMod => (c5 + 1) % LMod = c5 + 1)
           /\ row < VMod /\ (row + 1 < VMod => (row + 1) % VMod = row + 1)
           /\ reg["R4"] < VMod /\ reg["R5"] < LMod /\ reg["R9"] < LMod
           /\ reg["R5"] > 0 => (reg["R5"] + LMod - 1) % LMod = reg["R5"] - 1
<1>1. /\ reg \in [Registers -> Nat] /\ {"R0", "R1", "R4", "R5", "R9"} \subseteq Registers
      /\ reg["R0"] < HMod /\ reg["R4"] < VMod /\ reg["R5"] < LMod /\ reg["R9"] < LMod
  BY RegisterTypes DEF TypeOK, MachineTypeOK, RegisterFiles
<1>2. /\ hcc \in 0..HMod-1 /\ line \in 0..LMod-1 /\ row \in 0..VMod-1 /\ c5 \in 0..LMod-1
  BY DEF TypeOK, MachineTypeOK
<1>3. hcc <= reg["R0"]
  BY DEF FrameInv, Within
<1>4. ASSUME NEW x \in Nat, NEW b \in Nat, b > 1, x < b
      PROVE  (x + 1) % b = IF x + 1 < b THEN x + 1 ELSE 0
  BY <1>4
<1>5. ASSUME NEW x \in Nat, NEW b \in Nat, b > 1, x < b, x > 0
      PROVE  (x + b - 1) % b = x - 1
  <2>1. x + b - 1 \in Nat /\ x - 1 \in Nat /\ x + b - 1 = 1 * b + (x - 1) /\ x - 1 < b
    BY <1>5
  <2> QED BY <1>5, <2>1, ModUnique
<1> QED BY <1>1, <1>2, <1>3, <1>4, <1>5 DEF WidthsAssumption

LEMMA CleanLines ==
    ASSUME TypeOK, FrameInv, clean
    PROVE  /\ LineNo \in Nat /\ reg["R0"] \in Nat /\ hcc \in Nat /\ hcc < reg["R0"] + 1
           /\ FrameLines \in Nat /\ LineNo < FrameLines
           /\ EndsFrame <=> LineNo = FrameLines - 1
           /\ Frame = FrameLines * (reg["R0"] + 1)
<1>1. /\ {reg["R0"], reg["R4"], reg["R5"], reg["R9"], hcc, line, row, c5} \subseteq Nat
      /\ hcc < reg["R0"] + 1
  BY CleanBounds
<1>2. Within /\ AdjLine \in Nat
  BY <1>1 DEF FrameInv, AdjLine
<1>3. RowLines \in Nat /\ FrameLines = RowLines + reg["R5"]
  BY <1>1 DEF RowLines, FrameLines
<1>4. Frame = FrameLines * (reg["R0"] + 1)
  <2>1. Frame = (reg["R0"] + 1) * FrameLines /\ FrameLines \in Nat
    BY <1>1, <1>3 DEF Frame, FrameLines, RowLines
  <2> QED BY <1>1, <2>1
<1>5. CASE in_adj
  <2>1. LineNo = RowLines + AdjLine /\ AdjLine < reg["R5"] /\ (EndsFrame <=> AdjLine + 1 = reg["R5"])
    BY <1>2, <1>5 DEF Within, LineNo, EndsFrame
  <2>2. LineNo \in Nat /\ FrameLines \in Nat /\ LineNo < FrameLines
        /\ (EndsFrame <=> LineNo = FrameLines - 1)
    BY <1>1, <1>2, <1>3, <2>1
  <2> QED BY <1>1, <1>4, <2>2
<1>6. CASE ~in_adj
  <2>1. row <= reg["R4"] /\ line <= reg["R9"] /\ LineNo = row * (reg["R9"] + 1) + line
    BY <1>2, <1>6 DEF Within, LineNo
  <2>2. /\ LineNo \in Nat /\ LineNo < RowLines
        /\ LineNo = RowLines - 1 <=> row = reg["R4"] /\ line = reg["R9"]
    <3> DEFINE t == reg["R4"] + 1  w == reg["R9"] + 1
    <3>1. t \in Nat /\ w \in Nat /\ row \in Nat /\ line \in Nat /\ row < t /\ line < w
      BY <1>1, <2>1
    <3>2. LineNo = row * w + line /\ RowLines = t * w
      BY <2>1 DEF RowLines
    <3>3. row = t - 1 /\ line = w - 1 <=> row = reg["R4"] /\ line = reg["R9"]
      BY <1>1
    <3> HIDE DEF t, w
    <3>4. row * w + line = t * w - 1 <=> row = t - 1 /\ line = w - 1
      BY <3>1, LastOf
    <3>5. row * w + w <= t * w /\ row * w \in Nat /\ t * w \in Nat
      BY <3>1, Products
    <3>6. LineNo \in Nat /\ LineNo < RowLines
      BY <3>1, <3>2, <3>5
    <3> QED BY <3>2, <3>3, <3>4, <3>6
  <2>3. EndsFrame <=> row = reg["R4"] /\ line = reg["R9"] /\ reg["R5"] = 0
    BY <1>6 DEF EndsFrame
  <2>4. FrameLines \in Nat /\ LineNo < FrameLines /\ (EndsFrame <=> LineNo = FrameLines - 1)
    BY <1>1, <1>3, <2>2, <2>3
  <2> QED BY <1>1, <1>4, <2>2, <2>4
<1> QED BY <1>5, <1>6

LEMMA CleanDecision0 ==
    ASSUME TypeOK, FrameInv, clean, CRTC_TYPE = 0, NEW d, d = Type0!Engine0(NoWrite)
    PROVE  /\ CleanDecision(d)
           /\ d.captures /\ (d.keep <=> reg["R5"] # 0) /\ (d.c0_row_last <=> row = reg["R4"])
           /\ d.c0_line_last <=> IF in_adj THEN line + 1 = reg["R5"] ELSE line = reg["R9"]
           /\ d.reload <=> d.frame_new
           /\ d.row_addr_save <=> hcc = reg["R1"] /\ line = reg["R9"]
<1> USE DEF NoWrite, Type0!With
<1>1. /\ Regular /\ Quiet0 /\ Within /\ Captured /\ reg["R0"] > 1
      /\ AdjLine = line /\ (in_adj => reg["R5"] > 0) /\ in_adj \in BOOLEAN
  BY CleanBounds DEF FrameInv, Regular, Quiet, AdjLine, Within, TypeOK, MachineTypeOK
<1>2. Type0!hcc_last <=> hcc = reg["R0"]
  BY DEF Type0!hcc_last
<1>3. ~Type0!r0_frozen /\ ~Type0!Widens(NoWrite) /\ ~Type0!Break(NoWrite)
      /\ ~Type0!R4Switch(NoWrite) /\ ~Type0!R9Compare(NoWrite) /\ ~Type0!R9AtR0(NoWrite)
      /\ ~Type0!R5Window(NoWrite) /\ ~Type0!R5Revives(NoWrite) /\ ~Type0!OverrideActive(NoWrite)
  BY <1>1 DEF Type0!r0_frozen, Type0!Widens, Type0!Break, Type0!BreaksAtC01, Type0!R4Switch,
     Type0!R9Compare, Type0!R9AtR0, Type0!R5Window, Type0!R5Revives, Type0!OverrideActive, Quiet0
<1>4. in_adj => Type0!Limit(reg["R5"]) = reg["R5"] - 1
  BY <1>1, CleanBounds DEF Type0!Limit
<1>5. Type0!C0LineLast(NoWrite) <=> IF in_adj THEN line + 1 = reg["R5"] ELSE line = reg["R9"]
  BY <1>1, <1>4, CleanBounds DEF Type0!C0LineLast, Quiet0
<1>6. hcc = reg["R0"] => (Type0!adjustment_selected(NoWrite) <=> EntersAdj)
  BY <1>1, <1>3, CleanBounds DEF Type0!adjustment_selected, Type0!Selected, EntersAdj, Captured
<1>7. hcc = reg["R0"] => (Type0!RolloverLineLast(NoWrite) <=>
                            IF in_adj THEN line + 1 = reg["R5"] ELSE line = reg["R9"])
  BY <1>1, <1>3, CleanBounds DEF Type0!RolloverLineLast, Quiet0, Captured
<1>8. /\ d.line_new <=> hcc = reg["R0"]
      /\ d.hcc_end <=> hcc = reg["R0"]
      /\ d.hcc_next = IF hcc = reg["R0"] THEN 0 ELSE hcc + 1
      /\ d.row_new <=> d.line_new /\ Type0!RolloverLineLast(NoWrite)
      /\ d.frame_adj = Type0!adjustment_selected(NoWrite)
      /\ d.frame_new <=> d.row_new /\ (last.row \/ in_adj) /\ ~Type0!adjustment_selected(NoWrite)
      /\ d.line_next = IF Type0!RolloverLineLast(NoWrite) THEN 0 ELSE (line + 1) % LMod
      /\ d.row_next = IF (last.row \/ in_adj) /\ ~Type0!adjustment_selected(NoWrite)
                      THEN 0 ELSE (row + 1) % VMod
  BY <1>1, <1>2, <1>3, CleanBounds DEF Type0!Engine0, Type0!HccNext, Type0!LineUp, Type0!RowUp, Quiet0
<1>9. CleanDecision(d)
  <2>1. hcc = reg["R0"] /\ in_adj /\ ~EndsFrame => d.line_next = line + 1
    <3>1. in_adj => line + 1 < LMod
      BY <1>1, CleanBounds DEF Within
    <3> QED BY <1>1, <1>7, <1>8, <3>1, CleanBounds DEF EndsFrame
  <2>2. ~d.in_adj_route /\ ~d.frozen_row_advance /\ ~d.widen_step
    BY <1>1, <1>3 DEF Type0!Engine0, Quiet0
  <2>3. /\ d.row_new <=> hcc = reg["R0"] /\ IF in_adj THEN line + 1 = reg["R5"] ELSE line = reg["R9"]
        /\ hcc = reg["R0"] => (d.frame_adj <=> EntersAdj)
    BY <1>6, <1>7, <1>8
  <2>4. hcc = reg["R0"] /\ ~in_adj => (last.row <=> row = reg["R4"])
    BY <1>1, CleanBounds DEF Captured
  <2>5. d.frame_new <=> hcc = reg["R0"] /\ EndsFrame
    BY <1>1, <1>6, <1>8, <2>3, <2>4 DEF EndsFrame, EntersAdj
  <2>6. d.row_new /\ d.frame_adj <=> hcc = reg["R0"] /\ EntersAdj
    BY <2>3 DEF EntersAdj
  <2>7. ~in_adj /\ hcc = reg["R0"] /\ row # reg["R4"] => d.row_next = row + 1
    <3> SUFFICES ASSUME ~in_adj, hcc = reg["R0"], row # reg["R4"] PROVE d.row_next = row + 1
      OBVIOUS
    <3>1. row + 1 < VMod
      BY <1>1, CleanBounds DEF Within
    <3> QED BY <1>8, <2>4, <3>1, CleanBounds
  <2>8. ~in_adj /\ hcc = reg["R0"] => d.line_next = IF line = reg["R9"] THEN 0 ELSE line + 1
    <3>1. ~in_adj /\ line # reg["R9"] => line + 1 < LMod
      BY <1>1, CleanBounds DEF Within
    <3> QED BY <1>7, <1>8, <3>1, CleanBounds
  <2> QED BY <1>8, <2>1, <2>2, <2>3, <2>5, <2>6, <2>7, <2>8 DEF CleanDecision
<1> QED BY <1>3, <1>5, <1>9 DEF Type0!Engine0

LEMMA CleanDecision1 ==
    ASSUME TypeOK, FrameInv, clean, CRTC_TYPE = 1, NEW d, d = Type1!Engine1(NoWrite)
    PROVE  CleanDecision(d)
<1> USE DEF NoWrite, Type1!With
<1>1. /\ Quiet1 /\ Within /\ AdjLine = c5 /\ (in_adj => reg["R5"] > 0) /\ in_adj \in BOOLEAN
  BY CleanBounds DEF FrameInv, Quiet, AdjLine, Within, TypeOK, MachineTypeOK
<1>2. Type1!hcc_last <=> hcc = reg["R0"]
  BY DEF Type1!hcc_last
<1>3. ~Type1!OpensR5(NoWrite) /\ ~Type1!Extends(NoWrite) /\ Type1!RolloverR5(NoWrite) = reg["R5"]
  BY <1>1 DEF Type1!OpensR5, Type1!Extends, Type1!WidensLast, Type1!RolloverR5, Quiet1
<1>4. Type1!AdjEnd(NoWrite) <=> in_adj /\ c5 + 1 = reg["R5"]
  BY <1>1, <1>3 DEF Type1!AdjEnd
<1>5. /\ d.line_new <=> hcc = reg["R0"]
      /\ d.hcc_end <=> hcc = reg["R0"]
      /\ d.hcc_next = IF hcc = reg["R0"] THEN 0 ELSE hcc + 1
  BY <1>2, <1>3, CleanBounds DEF Type1!Engine1, Type1!HccNext
<1>6. /\ d.row_new <=> d.line_new /\ (line = reg["R9"] \/ Type1!AdjEnd(NoWrite))
      /\ d.frame_adj <=> row = reg["R4"] /\ ~in_adj /\ reg["R5"] # 0
  BY <1>3 DEF Type1!Engine1
<1>7. d.frame_new <=> d.row_new /\ IF in_adj THEN Type1!AdjEnd(NoWrite)
                                   ELSE row = reg["R4"] /\ ~d.frame_adj
  BY <1>3 DEF Type1!Engine1
<1>8. ~in_adj /\ row # reg["R4"] => d.row_next = row + 1
  <2>1. ~in_adj /\ row # reg["R4"] => row + 1 < VMod /\ d.row_next = (row + 1) % VMod
    BY <1>1, CleanBounds DEF Within, Type1!Engine1, Type1!RowUp
  <2> QED BY <2>1, CleanBounds
<1>9. d.line_next = IF d.frame_new \/ line = reg["R9"] \/ Type1!AdjEnd(NoWrite) THEN 0
                    ELSE (line + 1) % LMod
  BY DEF Type1!Engine1, Type1!LineUp
<1>10. ~in_adj /\ line # reg["R9"] => line + 1 < LMod
  BY <1>1, CleanBounds DEF Within
<1>11. d.c5_next = IF ~d.line_new THEN c5
                   ELSE IF in_adj /\ ~Type1!AdjEnd(NoWrite) THEN (c5 + 1) % LMod ELSE 0
  BY DEF Type1!Engine1
<1>12. in_adj => c5 + 1 < LMod
  BY <1>1, CleanBounds DEF Within
<1>13. ~d.in_adj_route /\ ~d.frozen_row_advance /\ ~d.widen_step
  BY DEF Type1!Engine1
<1>14. d.frame_new <=> hcc = reg["R0"] /\ EndsFrame
  BY <1>1, <1>4, <1>5, <1>6, <1>7 DEF EndsFrame
<1>15. d.row_new /\ d.frame_adj <=> hcc = reg["R0"] /\ EntersAdj
  BY <1>4, <1>5, <1>6 DEF EntersAdj
<1>16. ~in_adj => (d.row_new <=> hcc = reg["R0"] /\ line = reg["R9"])
  BY <1>4, <1>5, <1>6
<1>17. ~in_adj /\ hcc = reg["R0"] => d.line_next = IF line = reg["R9"] THEN 0 ELSE line + 1
  BY <1>4, <1>9, <1>10, <1>14, CleanBounds DEF EndsFrame
<1>18. hcc = reg["R0"] /\ in_adj /\ ~EndsFrame => d.c5_next = c5 + 1
  BY <1>1, <1>4, <1>5, <1>11, <1>12, CleanBounds DEF EndsFrame
<1> QED BY <1>4, <1>5, <1>6, <1>8, <1>11, <1>13, <1>14, <1>15, <1>16, <1>17, <1>18 DEF CleanDecision

(* The counters over a clean edge that ends no frame: a line goes on, or the
   next line of the frame begins. *)
LEMMA CleanCounters ==
    ASSUME TypeOK, FrameInv, clean, NEW d, CleanDecision(d), Counters(d), ~d.frame_new,
           UNCHANGED <<reg, CRTC_TYPE>>
    PROVE  /\ Within'
           /\ LineNo' = IF hcc = reg["R0"] THEN LineNo + 1 ELSE LineNo
           /\ hcc' = IF hcc = reg["R0"] THEN 0 ELSE hcc + 1
           /\ hcc # reg["R0"] => UNCHANGED <<line, row, in_adj>>
           /\ ~in_adj' => /\ ~in_adj
                          /\ row' = IF hcc = reg["R0"] /\ line = reg["R9"] THEN row + 1 ELSE row
                          /\ line' = IF hcc # reg["R0"] THEN line
                                     ELSE IF line = reg["R9"] THEN 0 ELSE line + 1
<1> USE DEF CleanDecision
<1>1. Within /\ in_adj \in BOOLEAN /\ CRTC_TYPE \in {0, 1}
  BY DEF FrameInv, TypeOK, MachineTypeOK
<1>2. hcc' = IF hcc = reg["R0"] THEN 0 ELSE hcc + 1
  BY DEF Counters
<1>3. in_adj' <=> in_adj \/ (hcc = reg["R0"] /\ EntersAdj)
  BY <1>1 DEF Counters
<1>4. /\ line' = IF hcc = reg["R0"] THEN d.line_next ELSE line
      /\ c5' = d.c5_next
      /\ row' = IF d.row_new THEN d.row_next ELSE row
  BY DEF Counters
<1> USE CleanBounds
<1>5. CASE hcc # reg["R0"]
  <2>1. line' = line /\ in_adj' = in_adj /\ (CRTC_TYPE = 1 => c5' = c5) /\ row' = row
    BY <1>1, <1>3, <1>4, <1>5
  <2> QED BY <1>1, <1>2, <1>5, <2>1 DEF Within, LineNo, AdjLine, RowLines
<1>6. CASE hcc = reg["R0"] /\ in_adj
  <2>1. in_adj' /\ ~EndsFrame
    BY <1>1, <1>3, <1>6
  <2>2. AdjLine' = AdjLine + 1
    BY <1>1, <1>4, <1>6, <2>1 DEF AdjLine
  <2>3. AdjLine \in Nat /\ AdjLine + 1 < reg["R5"]
    BY <1>1, <1>6, <2>1 DEF Within, EndsFrame, AdjLine
  <2>4. RowLines' = RowLines /\ RowLines \in Nat
    <3>1. {reg["R4"], reg["R9"]} \subseteq Nat
      OBVIOUS
    <3> QED BY <3>1 DEF RowLines
  <2>5. LineNo' = LineNo + 1
    BY <1>6, <2>1, <2>2, <2>3, <2>4 DEF LineNo
  <2> QED BY <1>1, <1>2, <1>6, <2>1, <2>2, <2>3, <2>5 DEF Within
<1>7. CASE hcc = reg["R0"] /\ ~in_adj /\ line # reg["R9"]
  <2>1. ~in_adj' /\ row' = row /\ line' = line + 1
    BY <1>1, <1>3, <1>4, <1>7 DEF EntersAdj
  <2>2. row * (reg["R9"] + 1) \in Nat
    <3>1. {reg["R9"], row} \subseteq Nat
      OBVIOUS
    <3> QED BY <3>1
  <2>3. LineNo' = LineNo + 1
    BY <1>7, <2>1, <2>2 DEF LineNo
  <2>4. Within'
    BY <1>1, <1>2, <1>7, <2>1 DEF Within
  <2> QED BY <1>2, <1>7, <2>1, <2>3, <2>4
<1>8. CASE hcc = reg["R0"] /\ ~in_adj /\ line = reg["R9"] /\ row # reg["R4"]
  <2>1. ~in_adj' /\ row' = row + 1 /\ line' = 0
    BY <1>1, <1>3, <1>4, <1>8 DEF EntersAdj
  <2>2. (row + 1) * (reg["R9"] + 1) = row * (reg["R9"] + 1) + reg["R9"] + 1
    <3>1. row \in Nat /\ reg["R9"] \in Nat
      OBVIOUS
    <3> QED BY <3>1, NextRow, ZenonT(60)
  <2> QED BY <1>1, <1>2, <1>8, <2>1, <2>2 DEF Within, LineNo
<1>9. CASE hcc = reg["R0"] /\ ~in_adj /\ line = reg["R9"] /\ row = reg["R4"]
  <2>1. in_adj' /\ AdjLine' = 0 /\ reg["R5"] > 0
    BY <1>1, <1>3, <1>4, <1>9 DEF EntersAdj, EndsFrame, AdjLine
  <2>2. (row + 1) * (reg["R9"] + 1) = row * (reg["R9"] + 1) + reg["R9"] + 1
    <3>1. row \in Nat /\ reg["R9"] \in Nat
      OBVIOUS
    <3> QED BY <3>1, NextRow, ZenonT(60)
  <2> QED BY <1>1, <1>2, <1>9, <2>1, <2>2 DEF Within, LineNo, RowLines
<1> QED BY <1>1, <1>5, <1>6, <1>7, <1>8, <1>9

(* On type 0 the captures of C0=0, and that of an adjustment at C0=2, are
   those of the line throughout it. *)
LEMMA CleanCaptured ==
    ASSUME TypeOK, FrameInv, clean, CRTC_TYPE = 0, NEW d, d = Type0!Engine0(NoWrite),
           Captures(d), Counters(d), ~d.frame_new, UNCHANGED <<reg, CRTC_TYPE>>
    PROVE  Captured'
<1>1. CleanDecision(d) /\ Captured /\ hcc \in Nat /\ in_adj \in BOOLEAN
  BY CleanDecision0, CleanBounds DEF FrameInv, TypeOK, MachineTypeOK
<1>2. /\ hcc' = IF hcc = reg["R0"] THEN 0 ELSE hcc + 1
      /\ hcc # reg["R0"] => UNCHANGED <<line, row, in_adj>>
  BY <1>1, CleanCounters
<1>3. CASE hcc = reg["R0"]
  BY <1>2, <1>3 DEF Captured
<1>4. CASE hcc # reg["R0"] /\ hcc = 0
  <2>1. /\ last'.line = d.c0_line_last /\ last'.row = d.c0_row_last
        /\ last'.frame_adj = (d.c0_line_last /\ d.c0_row_last /\ ~in_adj)
    BY <1>1, <1>4, CleanDecision0 DEF Captures, CleanDecision
  <2>2. /\ d.c0_row_last <=> row = reg["R4"]
        /\ d.c0_line_last <=> IF in_adj THEN line + 1 = reg["R5"] ELSE line = reg["R9"]
    BY CleanDecision0
  <2>3. hcc' = 1 /\ line' = line /\ row' = row /\ in_adj' = in_adj /\ reg' = reg
    BY <1>2, <1>4
  <2>4. /\ last'.line <=> d.c0_line_last
        /\ last'.row <=> d.c0_row_last
        /\ last'.frame_adj <=> d.c0_line_last /\ d.c0_row_last /\ ~in_adj
    BY <2>1
  <2> QED BY <2>2, <2>3, <2>4 DEF Captured
<1>5. CASE hcc # reg["R0"] /\ hcc # 0
  <2>1. /\ last'.line = last.line /\ last'.row = last.row
        /\ last'.frame_adj <=> last.frame_adj /\ (hcc = 2 => d.keep)
    BY <1>1, <1>5 DEF Captures, CleanDecision, TypeOK, MachineTypeOK
  <2> QED BY <1>1, <1>2, <1>5, <2>1, CleanDecision0 DEF Captured
<1> QED BY <1>3, <1>4, <1>5

(* No latch is set without a write. *)
LEMMA CleanQuiet ==
    ASSUME TypeOK, FrameInv, clean, NEW d, d = Decision(NoWrite), Edge(NoWrite)
    PROVE  Quiet'
<1> USE DEF NoWrite
<1>1. CRTC_TYPE' = CRTC_TYPE /\ CRTC_TYPE \in {0, 1} /\ Quiet /\ Regular
  BY DEF Edge, FrameInv, TypeOK, MachineTypeOK
<1>2. CASE CRTC_TYPE = 0
  <2>1. d = Type0!Engine0(NoWrite) /\ e0' = Type0!Latches0(NoWrite, d) /\ Quiet0
    BY <1>1, <1>2 DEF Decision, Edge, Quiet
  <2>2. ~d.in_adj_route /\ ~d.frozen_row_advance /\ (d.row_new /\ d.frame_adj => reg["R5"] # 0)
    BY <1>2, <2>1, CleanDecision0 DEF CleanDecision, EntersAdj
  <2>3. ~Type0!Widens(NoWrite) /\ ~Type0!Break(NoWrite) /\ ~Type0!R4Switch(NoWrite)
        /\ ~Type0!R9Compare(NoWrite) /\ ~Type0!R9AtR0(NoWrite) /\ ~Type0!R5Window(NoWrite)
    BY <2>1 DEF Type0!Widens, Type0!Break, Type0!BreaksAtC01, Type0!R4Switch,
       Type0!R9Compare, Type0!R9AtR0, Type0!R5Window, Quiet0
  <2>4. ~Type0!ZeroAdjEntry(NoWrite, d)
    BY <2>1, <2>2 DEF Type0!ZeroAdjEntry, Type0!With, Quiet0
  <2>5. Quiet0'
    BY <2>1, <2>3, <2>4 DEF Quiet0, Type0!Latches0, Type0!UntilLineEnd
  <2> QED BY <1>1, <1>2, <2>5 DEF Quiet
<1>3. CASE CRTC_TYPE = 1
  <2>1. e1' = Type1!Latches1(NoWrite, d)
    BY <1>3 DEF Edge, Decision
  <2> QED BY <1>1, <1>3, <2>1 DEF Quiet, Quiet1, Type1!Latches1
<1> QED BY <1>1, <1>2, <1>3

LEMMA LineEnds0 ==
    ASSUME NEW w, NEW d, d = Type0!Engine0(w)
    PROVE  d.line_new <=> Type0!hcc_last /\ ~Type0!r0_frozen /\ ~Type0!Widens(w)
  BY DEF Type0!Engine0

LEMMA Frozen0 ==
    ASSUME NEW w, NEW d, d = Type0!Engine0(w)
    PROVE  d.frozen_row_advance => Type0!r0_frozen
  BY DEF Type0!Engine0

(* The end of a frame: a line that ends its row, with no adjustment selected. *)
LEMMA Ends0 ==
    ASSUME NEW w, NEW d, d = Type0!Engine0(w), d.frame_new
    PROVE  /\ ~Type0!r0_frozen /\ ~Type0!Widens(w) /\ ~Type0!adjustment_selected(w)
           /\ ~e0.r9_at_r0_pending /\ ~Type0!R9AtR0(w) => d.line_next = 0
<1>1. d.frame_new <=> d.row_new /\ (last.row \/ in_adj) /\ ~Type0!adjustment_selected(w)
  BY DEF Type0!Engine0
<1>2. d.row_new <=> /\ d.line_new
                    /\ IF e0.r9_at_r0_pending \/ Type0!R9AtR0(w) THEN last.line
                       ELSE Type0!RolloverLineLast(w)
  BY DEF Type0!Engine0
<1>3. d.line_next = IF Type0!RolloverLineLast(w) THEN 0 ELSE Type0!LineUp
  BY DEF Type0!Engine0
<1> QED BY <1>1, <1>2, <1>3, LineEnds0

LEMMA Ends1 ==
    ASSUME NEW w, NEW d, d = Type1!Engine1(w), d.frame_new
    PROVE  d.row_new /\ d.line_new /\ ~d.frame_adj /\ d.line_next = 0 /\ d.hcc_next = 0
<1>1. d.row_new /\ d.line_new /\ ~d.frame_adj
  BY DEF Type1!Engine1, Type1!AdjEnd
<1>2. d.line_next = IF d.frame_new \/ line = reg["R9"] \/ Type1!AdjEnd(w) THEN 0
                    ELSE (line + 1) % LMod
  BY DEF Type1!Engine1, Type1!LineUp
<1>3. d.hcc_next = Type1!HccNext(d.line_new)
  BY DEF Type1!Engine1
<1> QED BY <1>1, <1>2, <1>3 DEF Type1!HccNext

(* The end of a frame leaves no latch set and every counter at 0, whatever
   was written before it or is written on it. *)
LEMMA OriginQuiet ==
    ASSUME TypeOK, PendingInv, NEW w \in Writes \cup {NoWrite}, w.r # "R9", w = NoWrite \/ ~busy,
           NEW d, d = Decision(w), Edge(w), d.frame_new
    PROVE  /\ Quiet'
           /\ hcc' = 0 /\ line' = 0 /\ row' = 0 /\ ~in_adj'
<1>1. CRTC_TYPE' = CRTC_TYPE /\ CRTC_TYPE \in {0, 1} /\ Counters(d)
  BY DEF Edge, TypeOK, MachineTypeOK
<1>2. CASE CRTC_TYPE = 0
  <2>1. d = Type0!Engine0(w) /\ e0' = Type0!Latches0(w, d)
    BY <1>2 DEF Decision, Edge
  <2>2. /\ d.row_new /\ d.line_new /\ d.hcc_next = 0
    BY <2>1, Lines0
  <2>3. /\ ~Type0!r0_frozen /\ ~Type0!Widens(w) /\ ~Type0!adjustment_selected(w)
        /\ ~d.frame_adj
    BY <2>1, Ends0, Lines0
  <2>4. ~Type0!Break(w) /\ ~Type0!R4Switch(w) /\ ~Type0!R9Compare(w) /\ ~Type0!R9AtR0(w)
    BY <2>3 DEF Type0!adjustment_selected, Type0!R4Switch, Type0!R9Compare, Type0!R9AtR0,
       Type0!InWindow
  <2>5. ~e0.r9_at_r0_pending
    BY <2>3 DEF PendingInv
  <2>6. d.line_next = 0
    BY <2>1, <2>4, <2>5, Ends0
  <2>7. ~Type0!ZeroAdjEntry(w, d)
    <3>1. ~d.frozen_row_advance
      BY <2>1, <2>3, Frozen0
    <3>2. d.frame_new
      OBVIOUS
    <3> QED BY <2>2, <2>3, <2>4, <3>1, <3>2 DEF Type0!ZeroAdjEntry
  <2>8. Quiet0'
    BY <2>1, <2>2, <2>3, <2>4, <2>7 DEF Quiet0, Type0!Latches0, Type0!UntilLineEnd
  <2>9. hcc' = 0 /\ line' = 0 /\ row' = 0 /\ ~in_adj'
    BY <1>1, <2>2, <2>3, <2>6 DEF Counters
  <2> QED BY <1>1, <1>2, <2>8, <2>9 DEF Quiet
<1>3. CASE CRTC_TYPE = 1
  <2>1. d = Type1!Engine1(w) /\ e1' = Type1!Latches1(w, d)
    BY <1>3 DEF Decision, Edge
  <2>2. d.row_new /\ d.line_new /\ ~d.frame_adj /\ d.line_next = 0 /\ d.hcc_next = 0
    BY <2>1, Ends1
  <2>3. hcc' = 0 /\ line' = 0 /\ row' = 0 /\ ~in_adj'
    BY <1>1, <2>2 DEF Counters
  <2> QED BY <1>1, <1>3, <2>1, <2>3 DEF Quiet, Quiet1, Type1!Latches1
<1> QED BY <1>1, <1>2, <1>3

LEMMA FrameEdge ==
    ASSUME TypeOK, TypeOK', PendingInv, FrameInv, NEW w \in Writes \cup {NoWrite}, w.r # "R9",
           w = NoWrite \/ ~busy, NEW d, d = Decision(w), Edge(w), Watch(w, d)
    PROVE  FrameInv'
<1> SUFFICES ASSUME clean' PROVE (Regular /\ Quiet /\ Within /\ Captured /\ Counted)'
  BY DEF FrameInv
<1>1. Regular' /\ (d.frame_new \/ (clean /\ w = NoWrite))
  BY DEF Watch
<1>2. chars' = IF d.frame_new THEN 0 ELSE chars + 1
  BY DEF Watch
<1>3. /\ {reg'["R0"], reg'["R4"], reg'["R5"], reg'["R9"]} \subseteq Nat
      /\ CRTC_TYPE' = CRTC_TYPE /\ CRTC_TYPE \in {0, 1}
      /\ Counters(d) /\ Captures(d) /\ Store(w)
  BY RegisterTypes DEF TypeOK, MachineTypeOK, RegisterFiles, Edge
<1>4. CASE d.frame_new
  <2>1. Quiet' /\ hcc' = 0 /\ line' = 0 /\ row' = 0 /\ ~in_adj' /\ chars' = 0
    BY <1>2, <1>4, OriginQuiet
  <2>2. Within' /\ Captured'
    BY <1>3, <2>1 DEF Within, Captured
  <2>3. LineNo' = 0
    BY <1>3, <2>1 DEF LineNo
  <2>4. Counted'
    BY <1>3, <2>1, <2>3 DEF Counted
  <2> QED BY <1>1, <2>1, <2>2, <2>4
<1>5. CASE ~d.frame_new
  <2>1. clean /\ w = NoWrite /\ reg' = reg
    BY <1>1, <1>3, <1>5 DEF Store
  <2>2. CleanDecision(d)
    BY <1>3, <2>1, CleanDecision0, CleanDecision1 DEF Decision
  <2>3. /\ Within'
        /\ LineNo' = IF hcc = reg["R0"] THEN LineNo + 1 ELSE LineNo
        /\ hcc' = IF hcc = reg["R0"] THEN 0 ELSE hcc + 1
    BY <1>3, <1>5, <2>1, <2>2, CleanCounters
  <2>4. Quiet'
    BY <2>1, CleanQuiet
  <2>5. Captured'
    <3>1. CASE CRTC_TYPE = 0
      BY <1>3, <1>5, <2>1, <3>1, CleanCaptured DEF Decision
    <3>2. CASE CRTC_TYPE = 1
      BY <1>3, <3>2 DEF Captured
    <3> QED BY <1>3, <3>1, <3>2
  <2>6. Counted'
    <3>1. chars = LineNo * (reg["R0"] + 1) + hcc /\ chars' = chars + 1
      BY <1>2, <1>5, <2>1 DEF FrameInv, Counted
    <3>2. LineNo \in Nat /\ reg["R0"] \in Nat /\ hcc \in Nat
      BY <2>1, CleanLines
    <3>3. (LineNo + 1) * (reg["R0"] + 1) = LineNo * (reg["R0"] + 1) + reg["R0"] + 1
      BY <3>2, NextRow
    <3>4. LineNo * (reg["R0"] + 1) \in Nat
      BY <3>2
    <3> HIDE DEF LineNo
    <3> QED BY <2>1, <2>3, <3>1, <3>2, <3>3, <3>4 DEF Counted
  <2> QED BY <1>1, <2>3, <2>4, <2>5, <2>6
<1> QED BY <1>4, <1>5

(* A latch of R9 at C0=R0 is set by a write between two edges and gone with
   the next edge. *)
LEMMA PendingEdge ==
    ASSUME TypeOK, PendingInv, NEW w, w.r # "R9", NEW d, d = Decision(w), Edge(w)
    PROVE  ~e0'.r9_at_r0_pending
<1>1. CASE CRTC_TYPE = 0
  <2>1. e0' = Type0!Latches0(w, d) /\ d = Type0!Engine0(w)
    BY <1>1 DEF Edge, Decision
  <2>2. e0'.r9_at_r0_pending <=> Type0!R9AtR0(w) \/ (e0.r9_at_r0_pending /\ ~d.line_new)
    BY <2>1 DEF Type0!Latches0, Type0!UntilLineEnd
  <2>3. e0.r9_at_r0_pending => d.line_new
    <3>1. e0.r9_at_r0_pending => hcc = reg["R0"] /\ hcc # 0 /\ hcc # 1
      BY DEF PendingInv, TypeOK, MachineTypeOK
    <3>2. d.line_new <=> Type0!hcc_last /\ ~Type0!r0_frozen /\ ~Type0!Widens(w)
      BY <2>1, LineEnds0
    <3> QED BY <3>1, <3>2 DEF Type0!hcc_last, Type0!r0_frozen, Type0!Widens
  <2> QED BY <2>2, <2>3 DEF Type0!R9AtR0
<1>2. CASE CRTC_TYPE # 0
  BY <1>2 DEF Edge, PendingInv
<1> QED BY <1>1, <1>2

LEMMA PendingWrite ==
    ASSUME TypeOK, PendingInv, NEW w \in Writes, Write(w)
    PROVE  PendingInv'
<1>1. ~busy /\ busy' /\ ~e0.r9_at_r0_pending
  BY DEF Write, Disturb, PendingInv
<1>2. UNCHANGED <<CRTC_TYPE, hcc, line, row, in_adj, last>> /\ Store(w)
  BY DEF Write, Between, lineVars
<1>3. CASE CRTC_TYPE = 0
  <2>1. e0' = Type0!Latched0(w)
    BY <1>3 DEF Write, Between
  <2>2. /\ e0'.r9_at_r0_pending <=> Type0!R9AtR0(w)
        /\ e0'.c0_1_adjust = Type0!Break(w)
    BY <1>1, <2>1 DEF Type0!Latched0
  <2> SUFFICES ASSUME Type0!R9AtR0(w) PROVE PendingInv'
    BY <2>2 DEF PendingInv
  <2>3. w.r = "R9" /\ hcc >= 2 /\ Type0!adjustment_selected(w) /\ ~in_adj /\ hcc = reg["R0"]
    BY DEF Type0!R9AtR0, Type0!InWindow, Type0!hcc_last
  <2>4. /\ reg'["R0"] = reg["R0"] /\ reg'["R5"] = reg["R5"]
    BY <1>2, <2>3, RegisterTypes DEF Store, NoWrite, TypeOK, MachineTypeOK, RegisterFiles
  <2>5. Type0!Selected(w) = Type0!Selected(NoWrite)'
    BY <1>2, <2>3, <2>4 DEF Type0!Selected, Type0!With, NoWrite
  <2>6. Type0!Break(w) => Type0!Break(NoWrite)'
    BY <2>2 DEF Type0!Break
  <2>7. Type0!adjustment_selected(NoWrite)'
    BY <2>3, <2>5, <2>6 DEF Type0!adjustment_selected
  <2> QED BY <1>1, <1>2, <1>3, <2>3, <2>4, <2>7 DEF PendingInv
<1>4. CASE CRTC_TYPE # 0
  BY <1>1, <1>4 DEF Write, Between, PendingInv
<1> QED BY <1>3, <1>4

LEMMA FrameStep ==
    ASSUME "R9" \notin EdgeWrites, TypeOK, TypeOK', PendingInv, FrameInv, [Next]_vars
    PROVE  PendingInv' /\ FrameInv'
<1>1. CASE Character
  <2>1. PICK d \in {Decision(NoWrite)} : Edge(NoWrite) /\ Watch(NoWrite, d)
    BY <1>1 DEF Character
  <2>2. NoWrite.r # "R9"
    BY DEF NoWrite
  <2>3. PendingInv'
    BY <2>1, <2>2, PendingEdge DEF PendingInv
  <2> QED BY <2>1, <2>2, <2>3, FrameEdge
<1>2. CASE \E w \in Values : WriteAtClken(w)
  <2>1. PICK w \in Writes : WriteAtClken(w) /\ w.r # "R9" /\ ~busy
    BY <1>2 DEF WriteAtClken, Disturb
  <2>2. PICK d \in {Decision(w)} : Edge(w) /\ Watch(w, d)
    BY <2>1 DEF WriteAtClken
  <2>3. PendingInv'
    BY <2>1, <2>2, PendingEdge DEF PendingInv
  <2> QED BY <2>1, <2>2, <2>3, FrameEdge
<1>3. CASE \E w \in Values : Write(w)
  BY <1>3, PendingWrite DEF Write, Unclean, FrameInv
<1>4. CASE SnapshotLoad \/ SwitchType \/ ResetPulse
  <2>1. clean' = FALSE
    BY <1>4 DEF SnapshotLoad, SwitchType, ResetPulse, Unknown, Unclean
  <2>2. e0' = Type0!NoLatch0
    <3>1. CASE SwitchType
      <4>1. 1 - CRTC_TYPE # CRTC_TYPE
        BY DEF TypeOK, MachineTypeOK
      <4> QED BY <3>1, <4>1 DEF SwitchType, SetType, ForgetLatches
    <3> QED BY <1>4, <3>1 DEF SnapshotLoad, ResetPulse, Load, Reset, ResetEdge, UnderReset, ForgetLatches
  <2> QED BY <2>1, <2>2 DEF FrameInv, PendingInv, Type0!NoLatch0
<1>5. CASE UNCHANGED vars
  <2>1. UNCHANGED <<CRTC_TYPE, reg, hcc, line, row, c5, in_adj, last, e0, e1, busy, clean, chars>>
    BY <1>5 DEF vars, machineVars, crtcVars, historyVars
  <2>2. PendingInv'
    BY <2>1 DEF PendingInv, Type0!adjustment_selected, Type0!Break, Type0!BreaksAtC01,
       Type0!Selected, Type0!With
  <2>3. FrameInv'
    BY <2>1 DEF FrameInv, Regular, Quiet, Quiet0, Quiet1, Within, AdjLine, Captured, Counted,
       LineNo, RowLines
  <2> QED BY <2>2, <2>3
<1> QED BY <1>1, <1>2, <1>3, <1>4, <1>5 DEF Next

(* From power-up on, a clean frame is one that its registers describe: the
   invariant that the length of a frame and the addresses rest on. *)
THEOREM CleanFrames ==
    ASSUME "R9" \notin EdgeWrites
    PROVE  Spec => [](PendingInv /\ FrameInv)
<1>1. Init => PendingInv /\ FrameInv
  BY DEF Init, PowerUp, PendingInv, FrameInv, Type0!NoLatch0
<1>2. TypeOK /\ TypeOK' /\ PendingInv /\ FrameInv /\ [Next]_vars => PendingInv' /\ FrameInv'
  BY FrameStep
<1> QED BY <1>1, <1>2, TypeCorrect, PTL DEF Spec

(* A frame that nothing disturbs has the length its registers give, on either
   type and for all widths, and starts at C4=C9=C0=0: no latch of an earlier
   write, of the other type or of a snapshot survives into it.  A write of R9
   on the CLKEN edge itself is the exception. *)
THEOREM FrameTheorem ==
    ASSUME "R9" \notin EdgeWrites
    PROVE  Spec => FrameIsExact
<1>1. ASSUME TypeOK, PendingInv, FrameInv, Next, clean, clean', writes' = writes
      PROVE  /\ (chars' = 0) <=> (chars = Frame - 1)
             /\ chars' = 0 => hcc' = 0 /\ line' = 0 /\ row' = 0 /\ ~in_adj'
  <2>1. Character
    BY <1>1 DEF Next, WriteAtClken, Write, SnapshotLoad, SwitchType, ResetPulse, Disturb, TypeOK
  <2>2. PICK d \in {Decision(NoWrite)} : Edge(NoWrite) /\ Watch(NoWrite, d)
    BY <2>1 DEF Character
  <2>3. chars' = IF d.frame_new THEN 0 ELSE chars + 1
    BY <1>1, <2>2 DEF Watch
  <2>4. d.frame_new <=> hcc = reg["R0"] /\ EndsFrame
    BY <1>1, <2>2, CleanDecision0, CleanDecision1 DEF Decision, CleanDecision, TypeOK, MachineTypeOK
  <2>5. chars' = 0 <=> d.frame_new
    BY <1>1, <2>3 DEF TypeOK
  <2>6. d.frame_new <=> chars = Frame - 1
    <3> DEFINE w == reg["R0"] + 1
    <3>1. /\ LineNo \in Nat /\ w \in Nat /\ FrameLines \in Nat /\ hcc \in Nat
          /\ LineNo < FrameLines /\ hcc < w /\ (EndsFrame <=> LineNo = FrameLines - 1)
          /\ (hcc = reg["R0"] <=> hcc = w - 1) /\ Frame = FrameLines * w
      BY <1>1, CleanLines
    <3>2. chars = LineNo * w + hcc
      BY <1>1 DEF FrameInv, Counted
    <3> HIDE DEF w
    <3>3. LineNo * w + hcc = FrameLines * w - 1 <=> LineNo = FrameLines - 1 /\ hcc = w - 1
      BY <3>1, LastOf
    <3> QED BY <2>4, <3>1, <3>2, <3>3
  <2>7. d.frame_new => hcc' = 0 /\ line' = 0 /\ row' = 0 /\ ~in_adj'
    <3>1. NoWrite.r # "R9" /\ NoWrite \in Writes \cup {NoWrite}
      BY DEF NoWrite
    <3> QED BY <1>1, <2>2, <3>1, OriginQuiet
  <2> QED BY <2>5, <2>6, <2>7
<1>2. ASSUME TypeOK, PendingInv, FrameInv, [Next]_vars
      PROVE  [clean /\ clean' /\ writes' = writes =>
               /\ (chars' = 0) <=> (chars = Frame - 1)
               /\ chars' = 0 => hcc' = 0 /\ line' = 0 /\ row' = 0 /\ ~in_adj']_vars
  BY <1>1, <1>2
<1> QED BY <1>2, TypeCorrect, CleanFrames, PTL DEF Spec, FrameIsExact

-----------------------------------------------------------------------------
(* The address of a character, and that of the next one and the next row. *)
LEMMA Addresses ==
    ASSUME base \in Nat, reg["R1"] \in Nat, NEW r \in Nat, NEW c \in Nat
    PROVE  /\ (MA(r, c) + 1) % AMod = MA(r, c + 1)
           /\ MA(r, reg["R1"]) = MA(r + 1, 0)
           /\ base < AMod => MA(0, 0) = base
<1>1. r * reg["R1"] \in Nat /\ (r + 1) * reg["R1"] = r * reg["R1"] + reg["R1"]
  OBVIOUS
<1>2. (MA(r, c) + 1) % AMod = MA(r, c + 1)
  <2>1. PICK x \in Nat : x = base + r * reg["R1"] + c
    BY <1>1
  <2>2. ((x % AMod) + 1) % AMod = (x + 1) % AMod
    BY ModStep DEF WidthsAssumption
  <2>3. base + r * reg["R1"] + (c + 1) = x + 1
    BY <1>1, <2>1
  <2> QED BY <2>1, <2>2, <2>3 DEF MA
<1>3. MA(r, reg["R1"]) = MA(r + 1, 0)
  <2>1. base + (r + 1) * reg["R1"] + 0 = base + r * reg["R1"] + reg["R1"]
    BY <1>1
  <2> QED BY <2>1 DEF MA
<1>4. base < AMod => MA(0, 0) = base
  <2>1. base + 0 * reg["R1"] + 0 = base
    OBVIOUS
  <2>2. base < AMod => base % AMod = base
    BY DEF WidthsAssumption
  <2> QED BY <2>1, <2>2 DEF MA
<1> QED BY <1>2, <1>3, <1>4

LEMMA StoredStart ==
    ASSUME TypeOK, NEW w \in Writes \cup {NoWrite}, Store(w)
    PROVE  Start(w) = Start(NoWrite)'
<1>1. reg \in [Registers -> Nat] /\ {"R12", "R13"} \subseteq Registers
  BY RegisterTypes DEF TypeOK, MachineTypeOK, RegisterFiles
<1>2. With(w, "R12") = reg'["R12"] /\ With(w, "R13") = reg'["R13"]
  BY <1>1 DEF Store, With, NoWrite, Writes
<1>3. Start(NoWrite)' = (reg'["R12"] * 256 + reg'["R13"]) % AMod
  BY DEF Start, With, NoWrite
<1> QED BY <1>2, <1>3 DEF Start

LEMMA Reloads0 ==
    ASSUME NEW w, NEW d, d = Type0!Engine0(w)
    PROVE  (d.reload <=> d.frame_new) /\ ~d.row0_reload
  BY DEF Type0!Engine0

LEMMA Reloads1 ==
    ASSUME NEW w, NEW d, d = Type1!Engine1(w), d.frame_new
    PROVE  d.reload /\ d.row0_reload
  BY DEF Type1!Engine1

(* On type 1 without "rupture for dummies" and outside adjustment. *)
LEMMA Saves1 ==
    ASSUME NEW w, NEW d, d = Type1!Engine1(w), ~in_adj, ~Type1!OpensR5(w), ~e1.rfd_r5_write,
           ~e1.rfd_r0_pending, ~e1.rfd_parity_flag, ~Type1!VmaFlag
    PROVE  /\ d.row_addr_save <=> hcc = reg["R1"] /\ line = reg["R9"]
           /\ d.from_row0 => row = reg["R4"] /\ line = reg["R9"] /\ reg["R5"] # 0
           /\ ~d.frame_new =>
                (d.reload <=> ((row = 0 /\ line # reg["R9"]) \/ d.from_row0) /\ Type1!HccNext(d.line_new) = 0)
  BY DEF Type1!Engine1, Type1!RolloverR5

(* The first character of a frame takes its address from R12 and R13. *)
LEMMA OriginPointer ==
    ASSUME TypeOK, NEW w \in Writes \cup {NoWrite}, NEW d, d = Decision(w), VideoPointer(w, d),
           Watch(w, d), d.frame_new, base' # -1
    PROVE  /\ row_addr_r' = base'
           /\ CRTC_TYPE = 0 => row_addr' = base'
           /\ CRTC_TYPE = 1 => e1' = Type1!NoLatch1 /\ base' = Start(w)
<1>1. CASE CRTC_TYPE = 0
  <2>1. d = Type0!Engine0(w)
    BY <1>1 DEF Decision
  <2>2. d.reload /\ ~d.row0_reload
    BY <2>1, Reloads0
  <2>3. base' = Start(NoWrite)
    BY <1>1 DEF Watch
  <2> QED BY <1>1, <2>2, <2>3 DEF VideoPointer
<1>2. CASE CRTC_TYPE = 1
  <2>1. d = Type1!Engine1(w)
    BY <1>2 DEF Decision
  <2>2. d.reload /\ d.row0_reload
    BY <2>1, Reloads1
  <2>3. base' = IF e1' = Type1!NoLatch1 THEN Start(w) ELSE -1
    BY <1>2 DEF Watch
  <2> QED BY <1>2, <2>2, <2>3 DEF VideoPointer
<1> QED BY <1>1, <1>2 DEF TypeOK, MachineTypeOK

(* Within a clean frame the pointer is saved at C0=R1 of the last line of a
   row, and on type 1 it is reloaded with each line of the first row. *)
LEMMA CleanPointer ==
    ASSUME TypeOK, FrameInv, clean, ~in_adj, CRTC_TYPE = 1 => e1 = Type1!NoLatch1,
           NEW d, d = Decision(NoWrite), ~d.frame_new, ~(hcc = reg["R0"] /\ EntersAdj)
    PROVE  /\ d.row_addr_save <=> hcc = reg["R1"] /\ line = reg["R9"]
           /\ d.reload <=> CRTC_TYPE = 1 /\ row = 0 /\ hcc = reg["R0"] /\ line # reg["R9"]
<1>1. CASE CRTC_TYPE = 0
  BY <1>1, CleanDecision0 DEF Decision
<1>2. CASE CRTC_TYPE = 1
  <2>1. d = Type1!Engine1(NoWrite) /\ e1 = Type1!NoLatch1
    BY <1>2 DEF Decision
  <2>2. CleanDecision(d)
    BY <1>2, <2>1, CleanDecision1
  <2>3. /\ ~Type1!OpensR5(NoWrite) /\ ~e1.rfd_r5_write /\ ~e1.rfd_r0_pending
        /\ ~e1.rfd_parity_flag /\ ~Type1!VmaFlag
    BY <2>1 DEF NoWrite, Type1!OpensR5, Type1!NoLatch1, Type1!VmaFlag
  <2>4. d.row_addr_save <=> hcc = reg["R1"] /\ line = reg["R9"]
    BY <2>1, <2>3, Saves1
  <2>5. d.from_row0 => EntersAdj
    BY <2>1, <2>3, Saves1 DEF EntersAdj
  <2>6. Type1!HccNext(d.line_new) = 0 <=> hcc = reg["R0"]
    <3>1. hcc \in Nat /\ (hcc # reg["R0"] => hcc + 1 < HMod /\ (hcc + 1) % HMod = hcc + 1)
      BY CleanBounds
    <3>2. d.line_new <=> hcc = reg["R0"]
      BY <2>2 DEF CleanDecision
    <3> QED BY <3>1, <3>2 DEF Type1!HccNext
  <2>7. d.reload <=> (row = 0 /\ line # reg["R9"] /\ hcc = reg["R0"]) \/ (d.from_row0 /\ hcc = reg["R0"])
    BY <2>1, <2>3, <2>6, Saves1
  <2> QED BY <1>2, <2>4, <2>5, <2>7
<1> QED BY <1>1, <1>2 DEF TypeOK, MachineTypeOK

LEMMA Arms1 ==
    ASSUME NEW w, NEW d, d = Type1!Engine1(w), ~Type1!OpensR5(w), ~e1.rfd_r5_write,
           ~e1.rfd_r0_pending
    PROVE  d.arms = FALSE /\ d.vma_arm = FALSE
  BY DEF Type1!Engine1

LEMMA NoLatchKept ==
    ASSUME e1 = Type1!NoLatch1, NEW d, d = Type1!Engine1(NoWrite)
    PROVE  Type1!Latches1(NoWrite, d) = Type1!NoLatch1
<1>1. /\ ~Type1!OpensR5(NoWrite) /\ ~e1.rfd_r5_write /\ ~e1.rfd_r0_pending
      /\ e1.rfd_parity_flag = FALSE /\ Type1!VmaFlag = FALSE /\ Type1!Extends(NoWrite) = FALSE
  BY DEF NoWrite, Type1!OpensR5, Type1!NoLatch1, Type1!VmaFlag, Type1!Extends, Type1!WidensLast
<1>2. d.arms = FALSE /\ d.vma_arm = FALSE
  BY <1>1, Arms1
<1>3. (Type1!Extends(NoWrite) \/ (e1.rfd_r0_pending /\ ~d.hcc_end)) = FALSE
  BY <1>1
<1>4. (~d.row_addr_save /\ ~d.disarms /\ (d.vma_arm \/ Type1!VmaFlag)) = FALSE
  BY <1>1, <1>2
<1>5. (d.arms \/ (e1.rfd_parity_flag /\ ~d.frame_new /\ ~d.row_addr_save)) = FALSE
  BY <1>1, <1>2
<1> QED BY <1>3, <1>4, <1>5 DEF Type1!Latches1, Type1!NoLatch1

(* The pointers over an edge within the rows of a clean frame. *)
LEMMA NextAddress ==
    ASSUME TypeOK, FrameInv, PointerInv, Linear, NEW d, d = Decision(NoWrite), ~d.frame_new,
           Edge(NoWrite), ~in_adj'
    PROVE  /\ row_addr_r' = MA(row', hcc')
           /\ IF line' = reg["R9"] /\ hcc' > reg["R1"] THEN row_addr' = MA(row' + 1, 0)
              ELSE CRTC_TYPE = 0 \/ row' > 0 => row_addr' = MA(row', 0)
<1>1. /\ clean /\ ~in_adj /\ base \in Nat /\ base < AMod /\ reg["R1"] <= reg["R0"]
      /\ CRTC_TYPE \in {0, 1}
  BY DEF Linear, TypeOK, MachineTypeOK
<1>2. /\ hcc \in Nat /\ line \in Nat /\ row \in Nat /\ reg["R0"] \in Nat /\ reg["R1"] \in Nat
      /\ hcc <= reg["R0"]
  BY <1>1, CleanBounds
<1>3. CleanDecision(d) /\ Counters(d) /\ VideoPointer(NoWrite, d) /\ UNCHANGED <<reg, CRTC_TYPE>>
  <2>1. CleanDecision(d)
    BY <1>1, CleanDecision0, CleanDecision1 DEF Decision
  <2> QED BY <2>1 DEF Edge, Store
<1>4. /\ hcc' = IF hcc = reg["R0"] THEN 0 ELSE hcc + 1
      /\ row' = IF hcc = reg["R0"] /\ line = reg["R9"] THEN row + 1 ELSE row
      /\ line' = IF hcc # reg["R0"] THEN line
                 ELSE IF line = reg["R9"] THEN 0 ELSE line + 1
  <2>1. /\ ~in_adj' => /\ ~in_adj
                       /\ row' = IF hcc = reg["R0"] /\ line = reg["R9"] THEN row + 1 ELSE row
                       /\ line' = IF hcc # reg["R0"] THEN line
                                  ELSE IF line = reg["R9"] THEN 0 ELSE line + 1
        /\ hcc' = IF hcc = reg["R0"] THEN 0 ELSE hcc + 1
    BY <1>1, <1>3, CleanCounters
  <2> QED BY <2>1
<1>5. ~(hcc = reg["R0"] /\ EntersAdj)
  BY <1>1, <1>3 DEF CleanDecision, Counters
<1>6. CRTC_TYPE = 1 => e1 = Type1!NoLatch1 /\ base = Start(NoWrite)
  BY <1>1 DEF PointerInv, Linear
<1>7. /\ d.row_addr_save <=> hcc = reg["R1"] /\ line = reg["R9"]
      /\ d.reload <=> CRTC_TYPE = 1 /\ row = 0 /\ hcc = reg["R0"] /\ line # reg["R9"]
  BY <1>1, <1>5, <1>6, CleanPointer
<1>8. (d.line_new <=> hcc = reg["R0"]) /\ (d.hcc_end <=> hcc = reg["R0"])
  BY <1>3 DEF CleanDecision
<1>9. /\ row_addr' = IF hcc = reg["R1"] /\ line = reg["R9"] THEN row_addr_r ELSE row_addr
      /\ row_addr_r' = IF CRTC_TYPE = 1 /\ row = 0 /\ hcc = reg["R0"] /\ line # reg["R9"] THEN base
                       ELSE IF hcc # reg["R0"] THEN (row_addr_r + 1) % AMod
                       ELSE IF hcc = reg["R1"] /\ line = reg["R9"] THEN row_addr_r ELSE row_addr
  <2>1. Start(IF d.row0_reload THEN NoWrite ELSE NoWrite) = Start(NoWrite)
    OBVIOUS
  <2> HIDE DEF Linear
  <2> QED BY <1>3, <1>6, <1>7, <1>8, <2>1 DEF VideoPointer
<1>10. /\ row_addr_r = MA(row, hcc)
       /\ line = reg["R9"] /\ hcc > reg["R1"] => row_addr = MA(row + 1, 0)
       /\ (line # reg["R9"] \/ hcc <= reg["R1"]) /\ (CRTC_TYPE = 0 \/ row > 0) =>
            row_addr = MA(row, 0)
  <2>1. /\ row_addr_r = MA(row, hcc)
        /\ IF line = reg["R9"] /\ hcc > reg["R1"] THEN row_addr = MA(row + 1, 0)
           ELSE CRTC_TYPE = 0 \/ row > 0 => row_addr = MA(row, 0)
    BY DEF PointerInv
  <2> QED BY <1>2, <2>1
<1>11. /\ (MA(row, hcc) + 1) % AMod = MA(row, hcc + 1)
       /\ MA(row, reg["R1"]) = MA(row + 1, 0) /\ MA(0, 0) = base
  BY <1>1, <1>2, Addresses
<1> HIDE DEF MA
<1>12. CASE hcc # reg["R0"]
  <2>1. row' = row /\ line' = line /\ hcc' = hcc + 1
    BY <1>4, <1>12
  <2>2. row_addr_r' = MA(row', hcc')
    BY <1>9, <1>10, <1>11, <1>12, <2>1
  <2>3. CASE hcc = reg["R1"] /\ line = reg["R9"]
    BY <1>2, <1>9, <1>10, <1>11, <2>1, <2>2, <2>3
  <2>4. CASE ~(hcc = reg["R1"] /\ line = reg["R9"])
    BY <1>2, <1>9, <1>10, <2>1, <2>2, <2>4
  <2> QED BY <2>3, <2>4
<1>13. CASE hcc = reg["R0"] /\ line # reg["R9"]
  <2>1. row' = row /\ line' = line + 1 /\ hcc' = 0 /\ row_addr' = row_addr
    BY <1>4, <1>9, <1>13
  <2>2. CASE CRTC_TYPE = 1 /\ row = 0
    BY <1>2, <1>9, <1>11, <1>13, <2>1, <2>2
  <2>3. CASE CRTC_TYPE = 0 \/ row > 0
    BY <1>2, <1>9, <1>10, <1>13, <2>1, <2>3
  <2> QED BY <1>1, <1>2, <2>2, <2>3
<1>14. CASE hcc = reg["R0"] /\ line = reg["R9"]
  <2>1. row' = row + 1 /\ line' = 0 /\ hcc' = 0
    BY <1>4, <1>14
  <2>2. row_addr' = MA(row + 1, 0) /\ row_addr_r' = row_addr'
    BY <1>1, <1>2, <1>9, <1>10, <1>11, <1>14
  <2> QED BY <1>2, <2>1, <2>2
<1> QED BY <1>12, <1>13, <1>14

LEMMA PointerEdge ==
    ASSUME TypeOK, TypeOK', PendingInv, FrameInv, PointerInv, NEW w \in Writes \cup {NoWrite},
           w.r # "R9", w = NoWrite \/ ~busy, NEW d, d = Decision(w), Edge(w), Watch(w, d)
    PROVE  PointerInv'
<1>1. /\ CRTC_TYPE' = CRTC_TYPE /\ CRTC_TYPE \in {0, 1} /\ Store(w) /\ VideoPointer(w, d)
      /\ CRTC_TYPE = 1 => e1' = Type1!Latches1(w, d)
  BY DEF Edge, TypeOK, MachineTypeOK
<1>2. clean' => d.frame_new \/ (clean /\ w = NoWrite)
  BY DEF Watch
<1>3. CASE d.frame_new
  <2> SUFFICES ASSUME clean', base' # -1 PROVE PointerInv'
    BY DEF PointerInv, Linear
  <2>1. hcc' = 0 /\ line' = 0 /\ row' = 0
    BY <1>3, OriginQuiet
  <2>2. /\ row_addr_r' = base'
        /\ CRTC_TYPE = 0 => row_addr' = base'
        /\ CRTC_TYPE = 1 => e1' = Type1!NoLatch1 /\ base' = Start(w)
    BY <1>1, <1>3, OriginPointer
  <2>3. base' \in Nat /\ base' < AMod /\ reg'["R1"] \in Nat
    BY RegisterTypes DEF TypeOK, MachineTypeOK, RegisterFiles
  <2>4. MA(0, 0)' = base'
    <3>1. base' + 0 * reg'["R1"] + 0 = base'
      BY <2>3
    <3>2. base' % AMod = base'
      <4>1. ASSUME NEW x \in Nat, x < AMod PROVE x % AMod = x
        BY <4>1 DEF WidthsAssumption
      <4> QED BY <2>3, <4>1
    <3> QED BY <3>1, <3>2 DEF MA
  <2>5. MA(row, hcc)' = MA(0, 0)' /\ MA(row, 0)' = MA(0, 0)'
    BY <2>1 DEF MA
  <2>6. ~(hcc' > reg'["R1"]) /\ ~(row' > 0)
    BY <2>1, <2>3
  <2>7. CRTC_TYPE = 1 => base' = Start(NoWrite)'
    BY <1>1, <2>2, StoredStart
  <2> QED BY <1>1, <2>2, <2>4, <2>5, <2>6, <2>7 DEF PointerInv
<1>4. CASE ~d.frame_new
  <2> SUFFICES ASSUME clean', base' # -1 PROVE PointerInv'
    BY DEF PointerInv, Linear
  <2>1. clean /\ w = NoWrite /\ base' = base /\ reg' = reg
    BY <1>1, <1>2, <1>4 DEF Watch, Store
  <2>2. CRTC_TYPE = 1 => e1 = Type1!NoLatch1 /\ base = Start(NoWrite)
    BY <2>1 DEF PointerInv
  <2>3. CRTC_TYPE = 1 => e1' = Type1!NoLatch1 /\ base' = Start(NoWrite)'
    <3>1. Start(NoWrite)' = Start(NoWrite)
      BY <2>1 DEF Start, With
    <3> QED BY <1>1, <2>1, <2>2, <3>1, NoLatchKept DEF Decision
  <2>4. ASSUME Linear'
        PROVE  /\ row_addr_r' = MA(row', hcc')
               /\ IF line' = reg["R9"] /\ hcc' > reg["R1"] THEN row_addr' = MA(row' + 1, 0)
                  ELSE CRTC_TYPE = 0 \/ row' > 0 => row_addr' = MA(row', 0)
    <3>1. CleanDecision(d) /\ Counters(d)
      BY <1>1, <2>1, CleanDecision0, CleanDecision1 DEF Decision, Edge
    <3>2. ~in_adj' /\ ~in_adj
      BY <1>1, <1>4, <2>1, <2>4, <3>1, CleanCounters DEF Linear
    <3>3. Linear
      BY <2>1, <2>4, <3>2 DEF Linear
    <3> QED BY <1>4, <2>1, <3>2, <3>3, NextAddress
  <2>5. \A r, c : MA(r, c)' = MA(r, c)
    BY <2>1 DEF MA
  <2>6. MA(row, hcc)' = MA(row', hcc') /\ MA(row + 1, 0)' = MA(row' + 1, 0)
        /\ MA(row, 0)' = MA(row', 0)
    BY <2>1 DEF MA
  <2> QED BY <1>1, <2>1, <2>3, <2>4, <2>6 DEF PointerInv
<1> QED BY <1>3, <1>4

LEMMA PointerStep ==
    ASSUME "R9" \notin EdgeWrites, TypeOK, TypeOK', PendingInv, FrameInv, PointerInv, [Next]_vars
    PROVE  PointerInv'
<1>1. CASE Character
  <2>1. PICK d \in {Decision(NoWrite)} : Edge(NoWrite) /\ Watch(NoWrite, d)
    BY <1>1 DEF Character
  <2>2. NoWrite.r # "R9"
    BY DEF NoWrite
  <2> QED BY <2>1, <2>2, PointerEdge
<1>2. CASE \E w \in Values : WriteAtClken(w)
  <2>1. PICK w \in Writes : WriteAtClken(w) /\ w.r # "R9" /\ ~busy
    BY <1>2 DEF WriteAtClken, Disturb
  <2>2. PICK d \in {Decision(w)} : Edge(w) /\ Watch(w, d)
    BY <2>1 DEF WriteAtClken
  <2> QED BY <2>1, <2>2, PointerEdge
<1>3. CASE (\E w \in Values : Write(w)) \/ SnapshotLoad \/ SwitchType \/ ResetPulse
  <2>1. clean' = FALSE
    BY <1>3 DEF Write, SnapshotLoad, SwitchType, ResetPulse, Unknown, Unclean
  <2> QED BY <2>1 DEF PointerInv, Linear
<1>4. CASE UNCHANGED vars
  <2>1. UNCHANGED <<CRTC_TYPE, reg, hcc, line, row, in_adj, row_addr, row_addr_r, e1, clean, base>>
    BY <1>4 DEF vars, machineVars, crtcVars, historyVars
  <2>2. Start(NoWrite)' = Start(NoWrite)
    BY <2>1 DEF Start, With
  <2> QED BY <2>1, <2>2 DEF PointerInv, Linear, MA
<1> QED BY <1>1, <1>2, <1>3, <1>4 DEF Next

(* In a clean frame MA is the linear address of the character, for all widths
   and every register file whose R1 the line reaches: the pointer is saved once
   a row, at C0=R1 of its last line, and moves on by R1. *)
THEOREM LinearTheorem ==
    ASSUME "R9" \notin EdgeWrites
    PROVE  Spec => []AddressIsLinear
<1>1. Init => PointerInv
  BY DEF Init, PointerInv, Linear
<1>2. TypeOK /\ TypeOK' /\ PendingInv /\ FrameInv /\ PointerInv /\ [Next]_vars => PointerInv'
  BY PointerStep
<1>3. PointerInv => AddressIsLinear
  BY DEF PointerInv, Linear, AddressIsLinear, MA
<1> QED BY <1>1, <1>2, <1>3, TypeCorrect, CleanFrames, PTL DEF Spec
=============================================================================
