-------------------------- MODULE SdramClients_proof --------------------------
(***************************************************************************)
(* Proofs about the SDRAM and its clients, for every set of cells and      *)
(* every power-up sequence.                                                *)
(*                                                                         *)
(* The controller and its main port, for whatever "in" the other clients   *)
(* present on a clock: what an edge does, the power-up of the chip, the    *)
(* main port's slot and the word kept for video.                           *)
(*                                                                         *)
(* CartPorts, for every refresh limit: whose slot a slot is while the      *)
(* cartridge port changes hands, what its acknowledge stands for, how long *)
(* refresh waits, what video sees and that the main port never waits.      *)
(*                                                                         *)
(* TapePath, for every tape and every length of a reset or unload: what is *)
(* in SDRAM of a tape, and what the player hears of it.                    *)
(***************************************************************************)
EXTENDS CartPorts, TapePath, SequenceTheorems, TLAPS

(* What the ports carry on any clock.  Another client's write stays out of
   what the main port reaches. *)
PortsOK(in) ==
    /\ {in.init, in.oe, in.we, in.cart_req, in.cart_wr, in.tape_rd, in.tape_wr} \subseteq BOOLEAN
    /\ {in.addr, in.cart_addr, in.vram_addr, in.tape_addr} \subseteq Cells
    /\ {in.din, in.cart_din, in.tape_din} \subseteq Byte
    /\ in.addr \in MainCells
    /\ (in.cart_req /\ in.cart_wr => in.cart_addr \notin MainCells)
    /\ (in.tape_wr => in.tape_addr \notin MainCells)
MainPorts(in) ==
    /\ in.oe = (main.strobe = "rd") /\ in.we = (main.strobe = "wr")
    /\ in.addr = main.addr /\ in.din = main.din

(* The controller is up, for good once its clock is locked. *)
Live == mode = "NORMAL" /\ reset = 0 /\ ~init_old
UpInv(in) == Live => ~in.init

(* The power-up sequence: a slot that precharges, then a slot that loads the
   mode, and only then slots of clients. *)
Early == q \in {0, 1}
ChipInv ==
    /\ mode = "PRE" => reset >= PrechargeAt - 1
    /\ reset = PrechargeAt - 1 /\ Early => mode = "PRE"
    /\ reset < PrechargeAt - 1 \/ (reset = PrechargeAt - 1 /\ ~Early) => chip # "off"
    /\ reset = LoadModeAt - 1 /\ Early => mode = "LDM" \/ chip = "ready"
    /\ reset < LoadModeAt - 1 \/ (reset = LoadModeAt - 1 /\ ~Early) => chip = "ready"

(* A slot has a client only while the controller is up; it writes in the main
   port's cells if it is the main port's, and outside of them if it is not. *)
SlotsInv ==
    /\ client # "none" => Live
    /\ client = "main" => a \in MainCells
    /\ client = "video" => ~wr
    /\ client \in {"cart", "tape"} /\ wr => a \notin MainCells

(* A due refresh is one that the count of cartridge slots has reached. *)
GrantsInv == refresh_due <=> cart_grants_since_refresh = GrantLimit

(* The word kept for video, and the slot that is about to change it. *)
Coherent == cached # NoWord => vram_dout = WordData(cached)
CoherentInv ==
    /\ client = "video" /\ q # 0 => cached \in {NoWord, Word(a)}
    /\ ~(client = "video" /\ q # 0) => Coherent
    /\ client # "none" /\ wr /\ q # 0 => cached = NoWord \/ cached # Word(a)

(* A strobe of the main port: asked for on the arbitration edge, served in the
   slot that follows, and left alone until it falls. *)
MainInv ==
    /\ main_done => main.strobe # "none"
    /\ main.strobe # "none" => Live
    /\ main.strobe # "none" /\ ~main_done /\ q = 0 => ~old_rd /\ ~old_we
    /\ main.strobe # "none" /\ (main_done \/ q # 0) =>
         (old_rd <=> main.strobe = "rd") /\ (old_we <=> main.strobe = "wr")
    /\ main.strobe # "none" /\ ~main_done /\ q # 0 =>
         client = "main" /\ a = main.addr /\ (wr <=> main.strobe = "wr")
    /\ main.strobe = "wr" /\ ~main_done /\ q \in {6, 7} => mem[main.addr] = main.din
    /\ main_done /\ q # 0 => client # "main"
    /\ MainServed

BusInv == ChipInv /\ SlotsInv /\ GrantsInv /\ CoherentInv /\ MainInv

-----------------------------------------------------------------------------
(* What one edge of the clock does to each part of the controller. *)
LEMMA Edges ==
    ASSUME NEW in, SdramClock(in)
    PROVE  /\ \/ q = 0 /\ q' = 1
              \/ q = 1 /\ q' = 3
              \/ q = 3 /\ q' = 6
              \/ q = 6 /\ q' = 7
              \/ q = 7 /\ q' = 0
           /\ q # 0 => NoAdmission(in)
           /\ q = 0 => ArbitrateEdge(in)
           /\ Sample(in) /\ Sequence(in)
  BY DEF SdramClock, ArbitrateEdge, RowEdge, ColumnEdge, ReadEdge, ReadyEdge

Writing == q = 3 /\ client # "none" /\ wr /\ mode = "NORMAL" /\ chip = "ready"
LEMMA Memory ==
    ASSUME NEW in, SdramClock(in)
    PROVE  mem' = IF Writing THEN [mem EXCEPT ![a] = IF client = "main" THEN in.din ELSE data]
                  ELSE mem
<1>1. CASE q = 3
  BY <1>1 DEF SdramClock, ArbitrateEdge, RowEdge, ColumnEdge, ReadEdge, ReadyEdge, Writing
<1>2. CASE q # 3
  BY <1>2 DEF SdramClock, ArbitrateEdge, RowEdge, ColumnEdge, ReadEdge, ReadyEdge, Writing
<1> QED BY <1>1, <1>2

LEMMA Outputs ==
    ASSUME NEW in, SdramClock(in)
    PROVE  /\ ram_dout' = IF q = 1 /\ client = "main" /\ wr THEN in.din
                          ELSE IF q = 7 /\ client = "main" /\ ~wr THEN mem[a] ELSE ram_dout
           /\ cart_dout' = IF q = 6 /\ client = "cart" /\ ~wr THEN mem[a] ELSE cart_dout
           /\ tape_dout' = IF q = 7 /\ client = "tape" /\ ~wr THEN mem[a] ELSE tape_dout
           /\ vram_dout' = IF q = 7 /\ client = "video" THEN WordData(Word(a)) ELSE vram_dout
           /\ tape_rd_ack' = IF q = 7 THEN (tape_rd_ack # (client = "tape" /\ ~wr))
                             ELSE tape_rd_ack
           /\ cart_ack' = (q = 6 /\ client = "cart")
           /\ tape_wr_ack' = (q = 6 /\ client = "tape" /\ wr)
<1> USE DEF SdramClock, Sample, AckEdge
<1>1. CASE ArbitrateEdge(in)
  BY <1>1 DEF ArbitrateEdge
<1>2. CASE RowEdge(in)
  BY <1>2 DEF RowEdge
<1>3. CASE ColumnEdge(in)
  BY <1>3 DEF ColumnEdge
<1>4. CASE ReadEdge(in)
  BY <1>4 DEF ReadEdge
<1>5. CASE ReadyEdge(in)
  BY <1>5 DEF ReadyEdge
<1> QED BY <1>1, <1>2, <1>3, <1>4, <1>5

LEMMA Admissions ==
    ASSUME NEW in, SdramClock(in), q = 0
    PROVE  \/ AdmitMain(in) \/ AdmitRefresh(in) \/ AdmitCart(in) \/ AdmitTape(in)
           \/ AdmitVideo(in) \/ AdmitNobody(in)
  BY Edges DEF ArbitrateEdge

LEMMA Bounds ==
    /\ GrantLimit \in Nat /\ GrantLimit > 0
    /\ LoadModeAt \in Nat /\ LoadModeAt > 0 /\ PrechargeAt \in Nat /\ ResetSlots \in Nat
    /\ LoadModeAt < PrechargeAt /\ PrechargeAt < ResetSlots
  BY ControllerAssumption

LEMMA ControllerType ==
    ASSUME ControllerTypeOK, GrantsInv, NEW in, PortsOK(in), SdramClock(in)
    PROVE  ControllerTypeOK'
<1>1. q' \in {0, 1, 3, 6, 7}
  BY Edges
<1>2. /\ {old_rd', old_we', init_old'} \subseteq BOOLEAN
      /\ {cart_ack', tape_wr_ack', tape_rd_ack'} \subseteq BOOLEAN
  BY Edges, Outputs DEF Sample, PortsOK, ControllerTypeOK
<1>3. mem' \in [Cells -> Byte]
  BY Memory DEF PortsOK, ControllerTypeOK
<1>4. reset' \in 0..ResetSlots /\ mode' \in {"RESET", "PRE", "LDM", "NORMAL"}
  BY Edges, Bounds DEF Sequence, ControllerTypeOK
<1>5. chip' \in {"off", "precharged", "ready"}
  BY DEF SdramClock, ArbitrateEdge, RowEdge, ColumnEdge, ReadEdge, ReadyEdge, ControllerTypeOK
<1>6. /\ client' \in {"none", "main", "cart", "tape", "video"} /\ a' \in Cells /\ data' \in Byte
      /\ {wr', refresh_due', cart_grant'} \subseteq BOOLEAN
      /\ cart_grants_since_refresh' \in 0..GrantLimit
  <2> USE DEF ControllerTypeOK, PortsOK, slotVars, refreshVars
  <2>1. CASE q # 0
    BY <2>1, Edges DEF NoAdmission
  <2>2. CASE q = 0
    <3>1. CASE AdmitMain(in)
      BY <3>1 DEF AdmitMain
    <3>0. 0 \in 0..GrantLimit
      BY Bounds
    <3>2. CASE AdmitRefresh(in)
      BY <3>0, <3>2 DEF AdmitRefresh
    <3>3. CASE AdmitCart(in)
      BY <3>3, Bounds DEF AdmitCart, CartTurn, GrantsInv
    <3>4. CASE AdmitTape(in)
      BY <3>4 DEF AdmitTape
    <3>5. CASE AdmitVideo(in)
      BY <3>5 DEF AdmitVideo
    <3>6. CASE AdmitNobody(in)
      BY <3>0, <3>6 DEF AdmitNobody
    <3> QED BY <2>2, <3>1, <3>2, <3>3, <3>4, <3>5, <3>6, Admissions
  <2> QED BY <2>1, <2>2
<1> QED BY <1>1, <1>2, <1>3, <1>4, <1>5, <1>6 DEF ControllerTypeOK

LEMMA GrantsStep ==
    ASSUME ControllerTypeOK, GrantsInv, NEW in, SdramClock(in)
    PROVE  GrantsInv'
<1> USE DEF GrantsInv, refreshVars
<1>1. CASE q # 0
  BY <1>1, Edges DEF NoAdmission
<1>2. CASE q = 0
  <2>1. CASE AdmitMain(in) \/ AdmitTape(in) \/ AdmitVideo(in)
    BY <2>1 DEF AdmitMain, AdmitTape, AdmitVideo
  <2>2. CASE AdmitRefresh(in) \/ AdmitNobody(in)
    BY <2>2, Bounds DEF AdmitRefresh, AdmitNobody
  <2>3. CASE AdmitCart(in)
    BY <2>3 DEF AdmitCart
  <2> QED BY <1>2, <2>1, <2>2, <2>3, Admissions
<1> QED BY <1>1, <1>2

-----------------------------------------------------------------------------
(* Power up: what is up stays up, and a client's slot finds the chip ready. *)
LEMMA LiveStays ==
    ASSUME NEW in, SdramClock(in), Live, ~in.init
    PROVE  Live'
  BY Edges DEF Live, Sequence, Sample

LEMMA ChipStep ==
    ASSUME ControllerTypeOK, ChipInv, NEW in, SdramClock(in)
    PROVE  ChipInv'
<1> USE DEF ChipInv, Early
<1>0. reset \in Nat
  BY Bounds DEF ControllerTypeOK
<1>1. CASE q = 7
  <2>1. q' = 0 /\ chip' = chip
    BY <1>1, Edges DEF SdramClock, ArbitrateEdge, RowEdge, ColumnEdge, ReadEdge, ReadyEdge
  <2>2. CASE reset' = ResetSlots /\ mode' = mode
    BY <2>1, <2>2, Bounds
  <2>3. CASE reset = 0 /\ mode' = "NORMAL" /\ reset' = reset
    BY <1>1, <2>1, <2>3, Bounds
  <2>4. CASE /\ reset # 0 /\ reset' = reset - 1
             /\ mode' = IF reset = PrechargeAt THEN "PRE"
                        ELSE IF reset = LoadModeAt THEN "LDM" ELSE "RESET"
    BY <1>0, <1>1, <2>1, <2>4, Bounds
  <2>5. Sequence(in)
    BY Edges
  <2> QED BY <1>1, <2>2, <2>3, <2>4, <2>5, Bounds DEF Sequence
<1>2. CASE q # 7
  <2>1. mode' = mode /\ (reset' = reset \/ reset' = ResetSlots)
    BY <1>2, Edges DEF Sequence
  <2>2. CASE q = 1
    <3>1. q' = 3 /\ chip' = IF mode = "PRE" THEN "precharged"
                            ELSE IF mode = "LDM" /\ chip # "off" THEN "ready" ELSE chip
      BY <2>2, Edges DEF SdramClock, ArbitrateEdge, RowEdge, ColumnEdge, ReadEdge, ReadyEdge
    <3> QED BY <1>0, <2>1, <2>2, <3>1, Bounds
  <2>3. CASE q # 1
    <3>1. chip' = chip /\ ((q = 0 /\ q' = 1) \/ (q # 0 /\ q' \notin {0, 1}))
      BY <1>2, <2>3, Edges DEF SdramClock, ArbitrateEdge, RowEdge, ColumnEdge, ReadEdge, ReadyEdge
    <3> QED BY <1>0, <2>1, <2>3, <3>1, Bounds
  <2> QED BY <2>2, <2>3
<1> QED BY <1>1, <1>2

LEMMA ChipReady == ASSUME ControllerTypeOK, ChipInv, Live PROVE chip = "ready"
<1>1. 0 <= LoadModeAt - 1 /\ LoadModeAt \in Nat
  BY Bounds
<1>2. CASE 0 < LoadModeAt - 1
  BY <1>2 DEF ChipInv, Live
<1>3. CASE 0 = LoadModeAt - 1
  BY <1>3 DEF ChipInv, Live
<1> QED BY <1>1, <1>2, <1>3

LEMMA SlotsStep ==
    ASSUME SlotsInv, NEW in, PortsOK(in), UpInv(in), SdramClock(in)
    PROVE  SlotsInv'
<1> USE DEF SlotsInv
<1>1. Live => Live'
  BY LiveStays DEF UpInv
<1>2. CASE q # 0
  <2>1. UNCHANGED <<client, wr, a>>
    BY <1>2, Edges DEF NoAdmission, slotVars
  <2> QED BY <1>1, <2>1
<1>3. CASE q = 0
  <2>1. Ready(in) => Live'
    BY <1>1 DEF Ready, Live
  <2>2. CASE AdmitMain(in)
    BY <2>1, <2>2 DEF AdmitMain, MainTurn, PortsOK
  <2>3. CASE AdmitRefresh(in) \/ AdmitNobody(in)
    BY <2>3 DEF AdmitRefresh, AdmitNobody
  <2>4. CASE AdmitCart(in)
    BY <2>1, <2>4 DEF AdmitCart, CartTurn, PortsOK
  <2>5. CASE AdmitTape(in)
    BY <2>1, <2>5 DEF AdmitTape, TapeTurn, PortsOK
  <2>6. CASE AdmitVideo(in)
    BY <2>1, <2>6 DEF AdmitVideo, VideoTurn
  <2> QED BY <1>3, <2>2, <2>3, <2>4, <2>5, <2>6, Admissions
<1> QED BY <1>2, <1>3

LEMMA Written ==
    ASSUME ControllerTypeOK, ChipInv, SlotsInv, q = 3, NEW in, SdramClock(in)
    PROVE  mem' = IF client # "none" /\ wr
                  THEN [mem EXCEPT ![a] = IF client = "main" THEN in.din ELSE data]
                  ELSE mem
<1>1. client # "none" => mode = "NORMAL" /\ chip = "ready"
  BY ChipReady DEF SlotsInv, Live
<1> QED BY <1>1, Memory DEF Writing

-----------------------------------------------------------------------------
(* The word kept for video against writes that reach it. *)
LEMMA WordStays ==
    ASSUME NEW w, NEW c, NEW v, Word(c) # w, mem' = [mem EXCEPT ![c] = v], mem \in [Cells -> Byte]
    PROVE  [addr \in {k \in Cells : Word(k) = w} |-> mem'[addr]] = WordData(w)
<1>1. \A k \in Cells : Word(k) = w => mem'[k] = mem[k]
  OBVIOUS
<1> QED BY <1>1 DEF WordData

LEMMA CoherentStep ==
    ASSUME ControllerTypeOK, ChipInv, SlotsInv, CoherentInv, NEW in, SdramClock(in)
    PROVE  CoherentInv'
<1>0. cached' \in {cached, NoWord} \/ q = 0
  BY Edges DEF NoAdmission
<1>1. ASSUME q # 0 PROVE UNCHANGED <<client, wr, a>> /\ cached' \in {cached, NoWord}
  BY <1>0, <1>1, Edges DEF NoAdmission, slotVars
<1>2. ASSUME mem' = mem, cached' \in {cached, NoWord}, vram_dout' = vram_dout, Coherent
      PROVE  Coherent'
  BY <1>2 DEF Coherent, WordData
<1>3. CASE q = 3
  <2>1. vram_dout' = vram_dout /\ q' = 6
    BY <1>3, Outputs, Edges
  <2>2. CASE client # "none" /\ wr
    <3>1. mem' = [mem EXCEPT ![a] = IF client = "main" THEN in.din ELSE data]
      BY <1>3, <2>2, Written
    <3>2. ASSUME cached' # NoWord PROVE vram_dout' = WordData(cached)'
      <4>1. cached' = cached /\ Word(a) # cached /\ client # "video"
        BY <1>1, <1>3, <2>2, <3>2 DEF CoherentInv, SlotsInv
      <4>2. vram_dout = WordData(cached)
        BY <1>3, <3>2, <4>1 DEF CoherentInv, Coherent
      <4>3. [addr \in {k \in Cells : Word(k) = cached} |-> mem'[addr]] = WordData(cached)
        BY <3>1, <4>1, WordStays DEF ControllerTypeOK
      <4> QED BY <2>1, <4>1, <4>2, <4>3 DEF WordData, Word
    <3> QED BY <1>1, <1>3, <2>1, <2>2, <3>2 DEF CoherentInv, Coherent, Word, SlotsInv
  <2>3. CASE ~(client # "none" /\ wr)
    <3>1. mem' = mem
      BY <1>3, <2>3, Written
    <3> QED BY <1>1, <1>2, <1>3, <2>1, <2>3, <3>1 DEF CoherentInv, Word
  <2> QED BY <2>2, <2>3
<1>4. CASE q \in {1, 6}
  <2>1. mem' = mem /\ vram_dout' = vram_dout /\ q' # 0
    BY <1>4, Memory, Outputs, Edges DEF Writing
  <2> QED BY <1>1, <1>2, <1>4, <2>1 DEF CoherentInv, Word
<1>5. CASE q = 7
  <2>1. mem' = mem /\ q' = 0
    BY <1>5, Memory, Edges DEF Writing
  <2>2. CASE client = "video"
    <3>1. vram_dout' = WordData(Word(a)) /\ cached' \in {NoWord, Word(a)}
      BY <1>1, <1>5, <2>2, Outputs DEF CoherentInv
    <3>2. WordData(Word(a)) = [addr \in {c \in Cells : Word(c) = Word(a)} |-> mem'[addr]]
      BY <2>1 DEF WordData
    <3> QED BY <2>1, <3>1, <3>2 DEF CoherentInv, Coherent, WordData, Word
  <2>3. CASE client # "video"
    <3>1. vram_dout' = vram_dout
      BY <1>5, <2>3, Outputs
    <3> QED BY <1>1, <1>2, <1>5, <2>1, <2>3, <3>1 DEF CoherentInv
  <2> QED BY <2>2, <2>3
<1>6. CASE q = 0
  <2>1. mem' = mem /\ vram_dout' = vram_dout /\ q' = 1 /\ Coherent
    BY <1>6, Memory, Outputs, Edges DEF Writing, CoherentInv
  <2>2. CASE AdmitMain(in)
    BY <1>2, <2>1, <2>2 DEF AdmitMain, Drops, CoherentInv, Word
  <2>3. CASE AdmitRefresh(in) \/ AdmitNobody(in)
    BY <1>2, <2>1, <2>3 DEF AdmitRefresh, AdmitNobody, CoherentInv
  <2>4. CASE AdmitCart(in)
    BY <1>2, <2>1, <2>4 DEF AdmitCart, Drops, CoherentInv, Word
  <2>5. CASE AdmitTape(in)
    BY <1>2, <2>1, <2>5 DEF AdmitTape, Drops, CoherentInv, Word
  <2>6. CASE AdmitVideo(in)
    BY <2>1, <2>6 DEF AdmitVideo, CoherentInv, Word
  <2> QED BY <1>6, <2>2, <2>3, <2>4, <2>5, <2>6, Admissions
<1> QED BY <1>3, <1>4, <1>5, <1>6 DEF ControllerTypeOK

-----------------------------------------------------------------------------
(* The main port: its strobe is served in the slot after it rose. *)
LEMMA MainType == ASSUME MainTypeOK, MainClock PROVE MainTypeOK'
  BY DEF MainClock, MainRises, MainStays, MainFalls, MainTypeOK

LEMMA MainStep ==
    ASSUME ControllerTypeOK, MainTypeOK, ChipInv, SlotsInv, MainInv, MainClock,
           NEW in, MainPorts(in), UpInv(in), SdramClock(in)
    PROVE  MainInv'
<1>1. Live => Live'
  BY LiveStays DEF UpInv
<1>2. (old_rd' <=> main.strobe = "rd") /\ (old_we' <=> main.strobe = "wr")
  BY Edges DEF Sample, MainPorts
<1>3. CASE q = 7 /\ ~MainStays
  <2>1. CASE MainRises
    <3>1. /\ main'.strobe \in {"rd", "wr"} /\ main_done' = FALSE /\ main.strobe = "none" /\ Live
      BY <2>1 DEF MainRises, Live
    <3>2. q' = 0 /\ Live' /\ ~old_rd' /\ ~old_we'
      BY <1>1, <1>2, <1>3, <3>1, Edges
    <3> QED BY <3>1, <3>2 DEF MainInv, MainServed
  <2>2. CASE MainFalls
    <3>1. main'.strobe = "none" /\ main_done' = FALSE
      BY <2>2 DEF MainFalls, MainTypeOK
    <3> QED BY <3>1 DEF MainInv, MainServed
  <2> QED BY <1>3, <2>1, <2>2 DEF MainClock
<1>4. CASE MainStays /\ main.strobe = "none"
  <2>1. main' = main /\ ~main_done'
    BY <1>4 DEF MainStays
  <2> QED BY <1>4, <2>1 DEF MainInv, MainServed
<1>5. CASE MainStays /\ main.strobe # "none" /\ main_done
  <2>1. main' = main /\ main_done' /\ main.strobe \in {"rd", "wr"}
    BY <1>5 DEF MainStays, MainTypeOK
  <2>2. q' # 0 => client' # "main"
    <3>1. CASE q = 0
      <4>1. ~Strobe(in)
        BY <1>5, <3>1 DEF MainInv, Strobe, MainPorts
      <4> QED BY <3>1, <4>1, Admissions DEF AdmitMain, MainTurn, AdmitRefresh, AdmitCart, AdmitTape,
              AdmitVideo, AdmitNobody
    <3>2. CASE q # 0
      BY <1>5, <3>2, Edges DEF MainInv, NoAdmission, slotVars
    <3> QED BY <3>1, <3>2
  <2>3. ram_dout' = ram_dout
    BY <1>5, Outputs DEF MainInv, MainServed
  <2>4. mem'[main.addr] = mem[main.addr]
    <3>1. CASE Writing
      <4>1. a # main.addr /\ a \in Cells
        BY <1>5, <3>1 DEF Writing, MainInv, SlotsInv, MainTypeOK, ControllerTypeOK
      <4>2. mem' = [mem EXCEPT ![a] = IF client = "main" THEN in.din ELSE data]
        BY <3>1, Memory
      <4> QED BY <4>1, <4>2 DEF ControllerTypeOK
    <3>2. CASE ~Writing
      BY <3>2, Memory
    <3> QED BY <3>1, <3>2
  <2>5. MainServed'
    BY <1>5, <2>1, <2>3, <2>4 DEF MainInv, MainServed
  <2> QED BY <1>1, <1>2, <1>5, <2>1, <2>2, <2>5 DEF MainInv
<1>6. CASE MainStays /\ main.strobe # "none" /\ ~main_done
  <2>1. main' = main /\ (main_done' <=> q = 7) /\ main.strobe \in {"rd", "wr"} /\ Live
    BY <1>6 DEF MainStays, MainTypeOK, MainInv
  <2>2. CASE q = 0
    <3>1. Ready(in) /\ Strobe(in)
      BY <1>6, <2>1, <2>2 DEF Ready, Strobe, Live, UpInv, MainInv, MainPorts
    <3>2. AdmitMain(in)
      BY <2>2, <3>1, Admissions DEF AdmitRefresh, AdmitCart, AdmitTape, AdmitVideo, AdmitNobody,
         MainTurn, RefreshTurn, CartTurn, TapeTurn, VideoTurn
    <3>3. client' = "main" /\ a' = main.addr /\ (wr' <=> main.strobe = "wr") /\ q' = 1
      <4>1. client' = "main" /\ a' = in.addr /\ wr' = in.we
        BY <3>2 DEF AdmitMain
      <4>2. in.addr = main.addr /\ in.we = (main.strobe = "wr")
        BY DEF MainPorts
      <4>3. wr' <=> main.strobe = "wr"
        BY <4>1, <4>2, Zenon
      <4> QED BY <2>2, <4>1, <4>2, <4>3, Edges
    <3>4. Live' /\ ~main_done' /\ main' = main /\ main.strobe # "none"
      BY <1>1, <2>1, <2>2
    <3> QED BY <1>2, <3>3, <3>4 DEF MainInv, MainServed
  <2>3. CASE q # 0
    <3>1. /\ client = "main" /\ a = main.addr /\ (wr <=> main.strobe = "wr")
          /\ UNCHANGED <<client, wr, a>>
      BY <1>6, <2>3, Edges DEF MainInv, NoAdmission, slotVars
    <3>2. main.strobe = "wr" /\ q # 1 => mem'[main.addr] = main.din
      <4>1. CASE q = 3 /\ main.strobe = "wr"
        <5>1. mem' = [mem EXCEPT ![a] = main.din] /\ a \in Cells
          BY <3>1, <4>1, Written DEF MainPorts, ControllerTypeOK
        <5> QED BY <3>1, <5>1 DEF ControllerTypeOK
      <4>2. CASE q \in {6, 7} /\ main.strobe = "wr"
        BY <1>6, <4>2, Memory DEF Writing, MainInv
      <4> QED BY <2>3, <4>1, <4>2 DEF ControllerTypeOK
    <3>3. q = 7 /\ main.strobe = "rd" => ram_dout' = mem'[main.addr]
      BY <3>1, Outputs, Memory DEF Writing
    <3>4. CASE q = 7
      <4>1. q' = 0 /\ main_done' /\ Live'
        BY <1>1, <2>1, <3>4, Edges
      <4>2. MainServed'
        BY <2>1, <3>2, <3>3, <3>4 DEF MainServed
      <4> QED BY <1>2, <2>1, <4>1, <4>2 DEF MainInv
    <3>5. CASE q # 7
      <4>1. q' \notin {0, 1} /\ (q' \in {6, 7} => q # 1) /\ ~main_done' /\ Live'
        BY <1>1, <2>1, <2>3, <3>5, Edges
      <4>2. MainServed'
        BY <4>1 DEF MainServed
      <4> QED BY <1>2, <2>1, <3>1, <3>2, <4>1, <4>2 DEF MainInv
    <3> QED BY <3>4, <3>5
  <2> QED BY <2>2, <2>3
<1> QED BY <1>3, <1>4, <1>5, <1>6 DEF MainClock, MainRises, MainFalls

LEMMA BusInit ==
    ASSUME ControllerInit, MainInit
    PROVE  ControllerTypeOK /\ MainTypeOK /\ BusInv /\ ~Live
<1> USE DEF ControllerInit, MainInit
<1>1. /\ (CHOOSE c \in Cells : TRUE) \in Cells /\ (CHOOSE b \in Byte : TRUE) \in Byte
      /\ (CHOOSE c \in MainCells : TRUE) \in MainCells
  BY ControllerAssumption, MainAssumption
<1>2. ControllerTypeOK /\ MainTypeOK
  <2>1. reset \in 0..ResetSlots /\ cart_grants_since_refresh \in 0..GrantLimit
    BY Bounds
  <2>2. a \in Cells /\ data \in Byte
    BY <1>1
  <2>3. MainTypeOK
    BY <1>1 DEF MainTypeOK
  <2> QED BY <2>1, <2>2, <2>3 DEF ControllerTypeOK
<1>3. ChipInv /\ SlotsInv /\ GrantsInv /\ ~Live
  BY Bounds DEF ChipInv, SlotsInv, GrantsInv, Live, Early
<1>4. CoherentInv /\ MainInv
  BY DEF CoherentInv, Coherent, MainInv, MainServed
<1> QED BY <1>2, <1>3, <1>4 DEF BusInv

(* One clock of the controller and its main port, whatever the others do. *)
LEMMA BusStep ==
    ASSUME ControllerTypeOK, MainTypeOK, BusInv, MainClock,
           NEW in, PortsOK(in), MainPorts(in), UpInv(in), SdramClock(in)
    PROVE  ControllerTypeOK' /\ MainTypeOK' /\ BusInv'
  BY ControllerType, MainType, ChipStep, SlotsStep, GrantsStep, CoherentStep, MainStep DEF BusInv

-----------------------------------------------------------------------------

UpHolds == Live => ~init

(* While the port is handed over it drains two slots that are nobody's. *)
MuxInv ==
    /\ drain # 0 => yielding
    /\ drain = 1 /\ q # 0 => client # "cart"
    /\ drain = 2 => q = 0 /\ client # "cart"

(* A cartridge slot in flight is the owner's, with the request it still holds
   or, of the save, has dropped for two slots at least. *)
RunsA == client = "cart" /\ ~owner_b /\ q # 0
RunsB == client = "cart" /\ owner_b
AInv ==
    RunsA => /\ a_req /\ a = a_addr /\ (wr <=> a_wr) /\ (wr => data = a_din)
             /\ (wr /\ q \in {6, 7} => mem[a] = data)
             /\ (~wr /\ q = 7 => cart_dout = mem[a])
BInv ==
    /\ b_req => b_running
    /\ RunsB /\ q # 0 => /\ ~wr /\ (b_req => a = b_addr)
                         /\ (b_req \/ (~b_running /\ b_rest = 2))
    /\ RunsB /\ q = 7 => cart_dout = mem[a]
    /\ RunsB /\ q = 0 => ~b_req
AnswerInv ==
    /\ cart_ack <=> q = 7 /\ client = "cart"
    /\ cart_grant <=> q = 1 /\ client = "cart"
    /\ a_slots = IF RunsA THEN 1 ELSE 0

(* The slots since a refresh are the controller's count, except in the clock
   before the refresh that has already cleared it. *)
CartsInv ==
    /\ carts <= GrantLimit
    /\ IF Refreshing THEN cart_grants_since_refresh = 0
                     ELSE carts = cart_grants_since_refresh

(* The arbitrations A may still lose: to a strobe of the main port, which does
   not rise twice in a row, to a due refresh, and to the hand-over to B, B's
   slot and the hand-over back, each of which outlasts a due refresh. *)
StrobeAhead ==
    IF (q # 0 /\ main.strobe = "none") \/ (q = 0 /\ main.strobe # "none" /\ ~main_done)
    THEN 1 ELSE 0
Drains == (2 - drain) + (IF q = 0 THEN 1 ELSE 0)
Blocked == IF refresh_due THEN StrobeAhead + 2 ELSE StrobeAhead
Ahead ==
    IF yielding THEN Drains + (IF owner_b THEN 1 ELSE 6)
    ELSE IF ~owner_b THEN Blocked
    ELSE IF b_req /\ ~RunsB THEN Blocked + 5 ELSE 4
WaitInv ==
    /\ refresh_due => Live
    /\ yielding /\ refresh_due /\ Drains = 1 => StrobeAhead = 0
    /\ a_wait + Ahead <= 9

PortsInv == UpHolds /\ MuxInv /\ AInv /\ BInv /\ AnswerInv /\ CartsInv /\ WaitInv
IInv == TypeOK /\ BusInv /\ PortsInv

-----------------------------------------------------------------------------
(* What the controller sees of its clients. *)
LEMMA Ports ==
    ASSUME TypeOK, UpHolds
    PROVE  /\ PortsOK(SdramPorts) /\ MainPorts(SdramPorts) /\ UpInv(SdramPorts)
           /\ SdramPorts.cart_req = CartReq(a_req, b_req)
           /\ SdramPorts.cart_wr = (~owner_b /\ a_wr)
           /\ SdramPorts.cart_addr = IF owner_b THEN b_addr ELSE a_addr
           /\ SdramPorts.cart_din = a_din /\ SdramPorts.init = init
<1> USE DEF SdramPorts
<1>1. CartReq(a_req, b_req) \in BOOLEAN /\ (~owner_b /\ a_wr) \in BOOLEAN
  BY DEF CartReq, OwnerReq, TypeOK
<1>2. /\ (IF owner_b THEN b_addr ELSE a_addr) \in Cells
      /\ ~owner_b => (IF owner_b THEN b_addr ELSE a_addr) \notin MainCells
  BY MainAssumption, PortsAssumption DEF TypeOK
<1>3. PortsOK(SdramPorts)
  <2>1. /\ main.addr \in MainCells /\ main.addr \in Cells /\ vram_addr \in Cells /\ a \in Cells
        /\ main.din \in Byte /\ a_din \in Byte /\ data \in Byte /\ init \in BOOLEAN
    BY MainAssumption DEF TypeOK, MainTypeOK, ControllerTypeOK
  <2>2. (main.strobe = "rd") \in BOOLEAN /\ (main.strobe = "wr") \in BOOLEAN
    OBVIOUS
  <2> QED BY <1>1, <1>2, <2>1, <2>2, ZenonT(60) DEF PortsOK
<1>4. MainPorts(SdramPorts)
  BY DEF MainPorts
<1>5. UpInv(SdramPorts)
  BY DEF UpInv, UpHolds
<1> QED BY <1>3, <1>4, <1>5

LEMMA Step ==
    ASSUME TypeOK, UpHolds, Next
    PROVE  /\ SdramClock(SdramPorts) /\ MuxClock(a_req, b_req, ClkrefEdge) /\ MainClock
           /\ ANext /\ BNext /\ VideoNext /\ Watch /\ init' \in BOOLEAN /\ (init' => init)
  BY DEF Next

LEMMA BusHolds ==
    ASSUME TypeOK, UpHolds, BusInv, Next
    PROVE  ControllerTypeOK' /\ MainTypeOK' /\ BusInv'
  BY Ports, Step, BusStep DEF TypeOK

LEMMA UpStep ==
    ASSUME TypeOK, UpHolds, Next
    PROVE  UpHolds'
<1>1. init_old' = init
  BY Ports, Step, Edges DEF Sample
<1> QED BY <1>1, Step DEF UpHolds, Live

LEMMA PortsType ==
    ASSUME IInv, Next
    PROVE  TypeOK'
<1> USE DEF IInv, PortsInv
<1>1. ControllerTypeOK' /\ MainTypeOK'
  BY BusHolds
<1>2. a_addr' \in CartCells /\ a_din' \in Byte /\ a_req' \in BOOLEAN /\ a_wr' \in BOOLEAN
  BY Step DEF ANext, TypeOK, a_ack, AckToA, aVars
<1>3. /\ b_addr' \in MainCells /\ b_req' \in BOOLEAN /\ b_running' \in BOOLEAN /\ b_rest' \in 0..2
      /\ b_yield' \in {"idle", "ref", "arb"}
  <2> USE DEF TypeOK
  <2>1. \A acked : Yield(acked) => b_yield' \in {"idle", "ref", "arb"}
    BY DEF Yield
  <2>2. CASE BAbort
    <3>1. b_req' \in BOOLEAN /\ b_running' \in BOOLEAN
      BY <2>2, Zenon DEF BAbort
    <3>2. b_rest' \in 0..2 /\ b_yield' \in {"idle", "ref", "arb"} /\ b_addr' \in MainCells
      BY <2>2 DEF BAbort
    <3> QED BY <3>1, <3>2
  <2>3. CASE BStart
    BY <2>1, <2>3 DEF BStart
  <2>4. CASE BRequest
    BY <2>1, <2>4 DEF BRequest
  <2>5. CASE BAcked
    BY <2>1, <2>5 DEF BAcked
  <2>6. CASE BWaits
    <3>1. b_rest' \in 0..2
      <4>1. b_rest \in 0..2 /\ b_rest' \in {b_rest, b_rest - 1} /\ (b_rest' = b_rest - 1 => b_rest > 0)
        BY <2>6 DEF BWaits
      <4> QED BY <4>1
    <3> QED BY <2>1, <2>6, <3>1 DEF BWaits
  <2> QED BY <2>2, <2>3, <2>4, <2>5, <2>6, Step DEF BNext
<1>4. vram_addr' \in MainCells
  BY Step DEF VideoNext, TypeOK
<1>5. owner_b' \in BOOLEAN /\ yielding' \in BOOLEAN /\ drain' \in 0..2
  <2>1. CASE Draining(a_req, b_req, ClkrefEdge)
    <3>1. drain \in 0..2 /\ drain # 2 /\ drain' \in {drain, drain + 1}
      BY <2>1 DEF Draining, Drained, TypeOK
    <3> QED BY <2>1, <3>1 DEF Draining, TypeOK
  <2>2. CASE HandOver(a_req, b_req, ClkrefEdge)
    <3>1. owner_b' \in BOOLEAN /\ yielding' \in BOOLEAN
      BY <2>2, Zenon DEF HandOver
    <3>2. drain' \in 0..2
      BY <2>2 DEF HandOver
    <3> QED BY <3>1, <3>2
  <2>3. CASE StartYield(a_req, b_req, ClkrefEdge) \/ KeepOwner(a_req, b_req, ClkrefEdge)
    <3>1. owner_b \in BOOLEAN /\ yielding \in BOOLEAN
      BY DEF TypeOK
    <3>2. owner_b' \in BOOLEAN /\ yielding' \in BOOLEAN
      BY <2>3, <3>1, Zenon DEF StartYield, KeepOwner
    <3>3. drain' \in 0..2
      BY <2>3 DEF StartYield, KeepOwner
    <3> QED BY <3>2, <3>3
  <2> QED BY <2>1, <2>2, <2>3, Step DEF MuxClock
<1>6. {a_slots', a_wait', carts'} \subseteq Nat
  BY Step DEF Watch, TypeOK
<1> QED BY <1>1, <1>2, <1>3, <1>4, <1>5, <1>6, Step DEF TypeOK

-----------------------------------------------------------------------------
(* The port changes hands only between two slots that are nobody's. *)
LEMMA CartSlot ==
    ASSUME TypeOK, UpHolds, Next, q = 0, client' = "cart"
    PROVE  /\ ~yielding /\ IF owner_b THEN b_req ELSE a_req
           /\ a' = IF owner_b THEN b_addr ELSE a_addr
           /\ (wr' <=> ~owner_b /\ a_wr) /\ data' = a_din
           /\ AdmitCart(SdramPorts)
<1>1. AdmitCart(SdramPorts)
  BY Ports, Step, Admissions DEF AdmitMain, AdmitRefresh, AdmitTape, AdmitVideo, AdmitNobody
<1>2. CartReq(a_req, b_req)
  BY <1>1, Ports DEF AdmitCart, CartTurn
<1>3. wr' <=> ~owner_b /\ a_wr
  BY <1>1, Ports DEF AdmitCart
<1> QED BY <1>1, <1>2, <1>3, Ports DEF AdmitCart, CartReq, OwnerReq

LEMMA SlotKept ==
    ASSUME TypeOK, UpHolds, Next, q # 0
    PROVE  UNCHANGED <<client, wr, a, data, refreshVars>> /\ ~cart_grant'
  BY Step, Edges DEF NoAdmission, slotVars

LEMMA MuxStep ==
    ASSUME TypeOK, UpHolds, MuxInv, Next
    PROVE  MuxInv' /\ (client' = "cart" => owner_b' = owner_b)
<1> USE DEF MuxInv, TypeOK
<1>1. (q = 7 <=> q' = 0) /\ (q = 0 => q' = 1)
  BY Step, Edges
<1>2. ASSUME q = 0, yielding PROVE client' # "cart"
  BY <1>2, CartSlot
<1>3. ASSUME q # 0 PROVE client' = client
  BY <1>3, SlotKept
<1>4. CASE StartYield(a_req, b_req, ClkrefEdge) \/ KeepOwner(a_req, b_req, ClkrefEdge)
  BY <1>4 DEF StartYield, KeepOwner
<1>5. CASE HandOver(a_req, b_req, ClkrefEdge)
  BY <1>2, <1>5 DEF HandOver, Drained
<1>6. CASE Draining(a_req, b_req, ClkrefEdge)
  <2>1. /\ yielding /\ yielding' = yielding /\ owner_b' = owner_b /\ drain \in {0, 1}
        /\ drain' = IF q = 7 THEN drain + 1 ELSE drain
    BY <1>6 DEF Draining, Drained, ClkrefEdge
  <2> QED BY <1>1, <1>2, <1>3, <2>1
<1> QED BY <1>4, <1>5, <1>6, Step DEF MuxClock

-----------------------------------------------------------------------------
(* A's slot: the request is held as it was admitted until its acknowledge. *)
LEMMA Answers ==
    ASSUME TypeOK, UpHolds, Next
    PROVE  /\ cart_ack' <=> q' = 7 /\ client' = "cart"
           /\ cart_grant' <=> q' = 1 /\ client' = "cart"
<1>0. cart_ack' = (q = 6 /\ client = "cart")
  BY Step, Outputs
<1>1. (q' = 7 <=> q = 6) /\ (q' = 1 <=> q = 0) /\ (cart_ack' <=> q = 6 /\ client = "cart")
  <2>1. cart_ack' <=> q = 6 /\ client = "cart"
    BY <1>0, Zenon
  <2> QED BY <2>1, Step, Edges DEF TypeOK, ControllerTypeOK
<1>2. CASE q # 0
  BY <1>1, <1>2, SlotKept
<1>3. CASE q = 0
  <2>1. AdmitCart(SdramPorts) => client' = "cart" /\ cart_grant'
    BY DEF AdmitCart
  <2>2. \/ AdmitMain(SdramPorts) \/ AdmitRefresh(SdramPorts) \/ AdmitTape(SdramPorts)
        \/ AdmitVideo(SdramPorts) \/ AdmitNobody(SdramPorts)
        => client' # "cart" /\ ~cart_grant'
    BY DEF AdmitMain, AdmitRefresh, AdmitTape, AdmitVideo, AdmitNobody
  <2> QED BY <1>1, <1>3, <2>1, <2>2, Step, Admissions
<1> QED BY <1>2, <1>3

LEMMA SlotData ==
    ASSUME TypeOK, UpHolds, BusInv, Next, client = "cart", q # 0
    PROVE  /\ q = 3 /\ wr => mem' = [mem EXCEPT ![a] = data]
           /\ q # 3 \/ ~wr => mem' = mem
           /\ cart_dout' = IF q = 6 /\ ~wr THEN mem[a] ELSE cart_dout
<1>1. q = 3 => mem' = IF wr THEN [mem EXCEPT ![a] = data] ELSE mem
  BY Step, Written DEF BusInv, TypeOK
<1>2. q # 3 => mem' = mem
  BY Step, Memory DEF Writing
<1>3. cart_dout' = IF q = 6 /\ ~wr THEN mem[a] ELSE cart_dout
  BY Step, Outputs
<1> QED BY <1>1, <1>2, <1>3

LEMMA AStep ==
    ASSUME TypeOK, UpHolds, BusInv, MuxInv, AInv, AnswerInv, Next
    PROVE  AInv' /\ a_slots' = IF RunsA' THEN 1 ELSE 0
<1>1. (q = 7 <=> q' = 0) /\ (q = 0 <=> q' = 1) /\ (q = 3 <=> q' = 6) /\ (q = 6 <=> q' = 7)
  BY Step, Edges DEF TypeOK, ControllerTypeOK
<1>2. client' = "cart" => owner_b' = owner_b
  BY MuxStep
<1>3. CASE q = 0
  <2>1. AdmittedA <=> client' = "cart" /\ ~owner_b
    BY <1>3 DEF AdmittedA
  <2>2. a_slots = 0 /\ ~a_ack
    BY <1>3 DEF AnswerInv, RunsA, a_ack, AckToA
  <2>3. RunsA' <=> client' = "cart" /\ ~owner_b
    BY <1>1, <1>2, <1>3 DEF RunsA
  <2>4. a_slots' = IF RunsA' THEN 1 ELSE 0
    BY <2>1, <2>2, <2>3, Step DEF Watch
  <2>5. ASSUME RunsA' PROVE AInv'
    <3>1. a_req /\ a' = a_addr /\ (wr' <=> a_wr) /\ data' = a_din
      BY <1>3, <2>3, <2>5, CartSlot
    <3>2. a_req' /\ UNCHANGED <<a_wr, a_addr, a_din>>
      BY <2>2, <3>1, Step DEF ANext
    <3> QED BY <1>1, <1>3, <3>1, <3>2 DEF AInv
  <2> QED BY <2>4, <2>5 DEF AInv
<1>4. CASE q # 0
  <2>1. UNCHANGED <<client, wr, a, data>> /\ ~AdmittedA
    BY <1>4, SlotKept DEF AdmittedA
  <2>2. CASE ~RunsA
    <3>1. ~RunsA'
      BY <1>2, <1>4, <2>1, <2>2 DEF RunsA
    <3>2. a_slots' = 0
      BY <2>1, <2>2, Step DEF Watch, AnswerInv
    <3> QED BY <3>1, <3>2 DEF AInv
  <2>3. CASE RunsA /\ q = 7
    <3>1. a_ack
      BY <2>3 DEF a_ack, AckToA, AnswerInv, RunsA
    <3>2. a_slots' = 0
      BY <2>1, <3>1, Step DEF Watch
    <3> QED BY <1>1, <2>3, <3>2 DEF AInv, RunsA
  <2>4. CASE RunsA /\ q # 7
    <3>1. ~a_ack /\ a_req /\ a_slots = 1
      BY <2>4 DEF a_ack, AckToA, AnswerInv, AInv
    <3>2. a_req' /\ UNCHANGED <<a_wr, a_addr, a_din>>
      BY <3>1, Step DEF ANext
    <3>3. a_slots' = 1 /\ RunsA'
      BY <1>1, <1>2, <1>4, <2>1, <2>4, <3>1, Step DEF Watch, RunsA
    <3>4. a \in Cells /\ mem \in [Cells -> Byte] /\ data \in Byte
      BY DEF TypeOK, ControllerTypeOK
    <3>5. wr /\ q' \in {6, 7} => mem'[a] = data
      BY <1>1, <2>4, <3>4, SlotData DEF AInv, RunsA
    <3>6. ~wr /\ q' = 7 => cart_dout' = mem'[a]
      BY <1>1, <2>4, SlotData DEF RunsA
    <3>7. a = a_addr /\ (wr <=> a_wr) /\ (wr => data = a_din)
      BY <2>4 DEF AInv
    <3> QED BY <2>1, <3>2, <3>3, <3>5, <3>6, <3>7 DEF AInv
  <2> QED BY <2>2, <2>3, <2>4
<1> QED BY <1>3, <1>4

(* B's slot: an abort drops the request, and no dump asks again before the slot
   has passed. *)
LEMMA BStep ==
    ASSUME TypeOK, UpHolds, BusInv, MuxInv, BInv, AnswerInv, Next
    PROVE  BInv'
<1>1. (q = 7 <=> q' = 0) /\ (q = 0 <=> q' = 1) /\ (q = 6 <=> q' = 7)
  BY Step, Edges DEF TypeOK, ControllerTypeOK
<1>2. client' = "cart" => owner_b' = owner_b
  BY MuxStep
<1>3. b_req' => b_running'
  BY Step DEF BNext, BAbort, BStart, BRequest, BAcked, BWaits, BInv
<1>4. CASE ~RunsB'
  BY <1>3, <1>4 DEF BInv
<1>5. CASE RunsB' /\ q = 0
  <2>1. b_req /\ b_running /\ a' = b_addr /\ ~wr' /\ q' = 1 /\ ~b_ack
    BY <1>1, <1>2, <1>5, CartSlot DEF RunsB, BInv, b_ack, AckToB, AnswerInv
  <2>2. (b_req' /\ b_addr' = b_addr) \/ (~b_req' /\ ~b_running' /\ b_rest' = 2)
    BY <2>1, Step DEF BNext, BAbort, BStart, BRequest, BAcked, BWaits
  <2> QED BY <1>3, <2>1, <2>2 DEF BInv
<1>6. CASE RunsB' /\ q # 0
  <2>1. UNCHANGED <<client, wr, a>> /\ RunsB
    BY <1>2, <1>6, SlotKept DEF RunsB
  <2>2. ~wr /\ (b_req => a = b_addr) /\ (b_req \/ (~b_running /\ b_rest = 2))
    BY <1>6, <2>1 DEF BInv
  <2>3. CASE q = 7
    <3>1. b_ack
      BY <2>1, <2>3 DEF b_ack, AckToB, AnswerInv, RunsB
    <3>2. b_req => b_running
      BY DEF BInv
    <3>3. ~b_req'
      BY <2>2, <3>1, <3>2, Step DEF BNext, BAbort, BStart, BRequest, BAcked, BWaits
    <3> QED BY <1>1, <1>3, <2>3, <3>3 DEF BInv
  <2>4. CASE q # 7
    <3>1. ~b_ack /\ ~ClkrefEdge
      BY <2>4 DEF b_ack, AckToB, AnswerInv, ClkrefEdge
    <3>2. CASE b_req
      <4>1. b_running
        BY <3>2 DEF BInv
      <4>2. (b_req' /\ b_addr' = b_addr) \/ (~b_req' /\ ~b_running' /\ b_rest' = 2)
        BY <3>1, <3>2, <4>1, Step DEF BNext, BAbort, BStart, BRequest, BAcked, BWaits
      <4>3. q' = 7 => cart_dout' = mem'[a]
        BY <1>1, <1>6, <2>1, <2>2, SlotData DEF RunsB
      <4> QED BY <1>1, <1>3, <2>1, <2>2, <2>4, <3>2, <4>2, <4>3 DEF BInv
    <3>3. CASE ~b_req
      <4>1. ~b_running /\ b_rest = 2
        BY <2>2, <3>3
      <4>2. ~b_req' /\ ~b_running' /\ b_rest' = 2
        <5>1. BWaits
          <6>1. ~BAbort /\ ~BRequest /\ ~BAcked
            BY <3>1, <3>3, <4>1 DEF BAbort, BRequest, BAcked
          <6>2. ~BStart
            BY <4>1 DEF BStart
          <6> QED BY <6>1, <6>2, Step DEF BNext
        <5>2. b_rest' = 2
          BY <3>1, <4>1, <5>1 DEF BWaits
        <5>3. ~b_req' /\ ~b_running'
          BY <3>3, <4>1, <5>1 DEF BWaits
        <5> QED BY <5>2, <5>3
      <4>3. q' = 7 => cart_dout' = mem'[a]
        BY <1>1, <1>6, <2>1, <2>2, SlotData DEF RunsB
      <4> QED BY <1>1, <2>1, <2>2, <2>4, <4>2, <4>3 DEF BInv
    <3> QED BY <3>2, <3>3
  <2> QED BY <2>3, <2>4
<1> QED BY <1>4, <1>5, <1>6

(* Every slot is counted by the watch and by the controller alike. *)
LEMMA CartsStep ==
    ASSUME TypeOK, UpHolds, BusInv, CartsInv, Next
    PROVE  CartsInv'
<1> USE DEF CartsInv, Refreshing
<1>1. carts \in Nat /\ cart_grants_since_refresh \in 0..GrantLimit /\ GrantLimit \in Nat
  BY Bounds DEF TypeOK, ControllerTypeOK
<1>2. /\ (q = 0 <=> q' = 1)
      /\ carts' = IF Refreshing THEN 0 ELSE IF q = 0 /\ client' = "cart" THEN carts + 1 ELSE carts
  BY Step, Edges DEF TypeOK, ControllerTypeOK, Watch
<1>3. CASE q # 0
  <2>1. cart_grants_since_refresh' = cart_grants_since_refresh /\ q' # 1
    BY <1>2, <1>3, SlotKept DEF refreshVars
  <2> QED BY <1>1, <1>2, <1>3, <2>1
<1>4. CASE q = 0
  <2>1. q' = 1 /\ ~Refreshing /\ mode' = mode
    BY <1>2, <1>4, Step, Edges DEF Sequence
  <2>2. CASE AdmitMain(SdramPorts) \/ AdmitTape(SdramPorts) \/ AdmitVideo(SdramPorts)
    BY <1>1, <1>2, <2>1, <2>2 DEF AdmitMain, AdmitTape, AdmitVideo, refreshVars
  <2>3. CASE AdmitRefresh(SdramPorts)
    BY <1>1, <1>2, <2>1, <2>3 DEF AdmitRefresh, RefreshTurn, Ready
  <2>4. CASE AdmitNobody(SdramPorts)
    BY <1>1, <1>2, <2>1, <2>4 DEF AdmitNobody, refreshVars
  <2>5. CASE AdmitCart(SdramPorts)
    <3>1. cart_grants_since_refresh # GrantLimit
      BY <2>5 DEF AdmitCart, CartTurn, BusInv, GrantsInv
    <3> QED BY <1>1, <1>2, <1>4, <2>1, <2>5, <3>1 DEF AdmitCart
  <2> QED BY <1>4, <2>2, <2>3, <2>4, <2>5, Step, Admissions
<1> QED BY <1>3, <1>4

-----------------------------------------------------------------------------
(* The wait of client A: each arbitration it loses brings its turn closer. *)
LEMMA StrobeStep ==
    ASSUME TypeOK, UpHolds, BusInv, Next
    PROVE  /\ StrobeAhead \in {0, 1} /\ StrobeAhead' \in {0, 1}
           /\ q # 0 => StrobeAhead' <= StrobeAhead
           /\ q = 0 /\ StrobeAhead = 1 => StrobeAhead' = 0
           /\ q = 0 /\ Live => (Strobe(SdramPorts) <=> StrobeAhead = 1)
<1> USE DEF StrobeAhead
<1>1. q' = 0 <=> q = 7
  BY Step, Edges
<1>2. MainRises \/ MainStays \/ MainFalls
  BY Step DEF MainClock
<1>3. q # 0 => StrobeAhead' <= StrobeAhead
  <2>1. CASE MainRises
    BY <1>1, <2>1 DEF MainRises
  <2>2. CASE MainStays
    <3>1. main' = main /\ (q = 7 /\ main.strobe # "none" => main_done')
      <4>1. main_done' = (main.strobe # "none" /\ (main_done \/ q = 7))
        BY <2>2 DEF MainStays
      <4>2. main_done' <=> (main.strobe # "none" /\ (main_done \/ q = 7))
        BY <4>1, Zenon
      <4> QED BY <2>2, <4>2 DEF MainStays
    <3> QED BY <1>1, <3>1
  <2>3. CASE MainFalls
    BY <1>1, <2>3 DEF MainFalls, TypeOK, MainTypeOK
  <2> QED BY <1>2, <2>1, <2>2, <2>3
<1>4. q = 0 /\ StrobeAhead = 1 => StrobeAhead' = 0
  BY <1>1, <1>2 DEF MainRises, MainStays, MainFalls
<1>5. ASSUME q = 0, Live PROVE Strobe(SdramPorts) <=> StrobeAhead = 1
  <2>1. /\ SdramPorts.oe = (main.strobe = "rd") /\ SdramPorts.we = (main.strobe = "wr")
        /\ main.strobe \in {"none", "rd", "wr"}
    BY Ports DEF MainPorts, TypeOK, MainTypeOK
  <2>2. /\ SdramPorts.oe <=> main.strobe = "rd"
        /\ SdramPorts.we <=> main.strobe = "wr"
    BY <2>1, Zenon
  <2>3. CASE main.strobe = "none"
    BY <1>5, <2>2, <2>3 DEF Strobe
  <2>4. CASE main.strobe # "none" /\ ~main_done
    BY <1>5, <2>1, <2>2, <2>4 DEF Strobe, BusInv, MainInv
  <2>5. CASE main.strobe # "none" /\ main_done
    BY <1>5, <2>1, <2>2, <2>5 DEF Strobe, BusInv, MainInv
  <2> QED BY <2>3, <2>4, <2>5
<1> QED BY <1>3, <1>4, <1>5

LEMMA DrainStep ==
    ASSUME TypeOK, UpHolds, MuxInv, Next
    PROVE  /\ yielding => Drains \in 1..3
           /\ yielding' => Drains' \in 1..3
           /\ yielding /\ yielding' =>
                 (owner_b' <=> owner_b) /\ Drains' = Drains - (IF q = 0 THEN 1 ELSE 0)
           /\ yielding /\ ~yielding' => (owner_b' <=> ~owner_b) /\ q = 0 /\ Drains = 1
           /\ ~yielding => (owner_b' <=> owner_b) /\ (yielding' <=> WantsYield(a_req, b_req))
           /\ ~yielding /\ yielding' => Drains' = IF q = 7 THEN 3 ELSE 2
<1> USE DEF Drains, MuxInv
<1>1. /\ (q' = 0 <=> q = 7) /\ drain \in 0..2 /\ owner_b \in BOOLEAN /\ yielding \in BOOLEAN
      /\ q \in {0, 1, 3, 6, 7}
  BY Step, Edges DEF TypeOK, ControllerTypeOK
<1>2. CASE StartYield(a_req, b_req, ClkrefEdge)
  BY <1>1, <1>2 DEF StartYield
<1>3. CASE KeepOwner(a_req, b_req, ClkrefEdge)
  BY <1>1, <1>3 DEF KeepOwner
<1>4. CASE HandOver(a_req, b_req, ClkrefEdge)
  <2>1. owner_b' <=> ~owner_b
    BY <1>4, Zenon DEF HandOver
  <2> QED BY <1>1, <1>4, <2>1 DEF HandOver, Drained
<1>5. CASE Draining(a_req, b_req, ClkrefEdge)
  <2>1. /\ yielding /\ yielding' = yielding /\ owner_b' = owner_b /\ drain \in {0, 1}
        /\ drain' = IF q = 7 THEN drain + 1 ELSE drain
    BY <1>1, <1>5 DEF Draining, Drained, ClkrefEdge
  <2> QED BY <1>1, <2>1
<1> QED BY <1>2, <1>3, <1>4, <1>5, Step DEF MuxClock

LEMMA Turns ==
    ASSUME TypeOK, UpHolds, BusInv, Next
    PROVE  /\ refresh_due' => refresh_due \/ (q = 0 /\ client' = "cart")
           /\ q # 0 => (refresh_due' <=> refresh_due)
           /\ q = 0 /\ Live =>
                 /\ Strobe(SdramPorts) => (refresh_due' <=> refresh_due) /\ client' # "cart"
                 /\ ~Strobe(SdramPorts) /\ refresh_due => ~refresh_due' /\ client' # "cart"
                 /\ ~Strobe(SdramPorts) /\ ~refresh_due /\ CartReq(a_req, b_req) => client' = "cart"
<1> DEFINE in == SdramPorts
<1>1. CASE q # 0
  BY <1>1, SlotKept DEF refreshVars
<1>2. CASE q = 0
  <2>1. Live => Ready(in)
    BY Ports DEF Live, Ready, UpHolds
  <2>2. in.cart_req <=> CartReq(a_req, b_req)
    BY Ports
  <2>3. CASE AdmitMain(in)
    BY <1>2, <2>3 DEF AdmitMain, MainTurn, refreshVars
  <2>4. CASE AdmitRefresh(in)
    BY <1>2, <2>4 DEF AdmitRefresh, RefreshTurn
  <2>5. CASE AdmitCart(in)
    BY <1>2, <2>5 DEF AdmitCart, CartTurn
  <2>6. CASE AdmitTape(in)
    BY <1>2, <2>2, <2>6 DEF AdmitTape, TapeTurn, refreshVars
  <2>7. CASE AdmitVideo(in)
    BY <1>2, <2>2, <2>7 DEF AdmitVideo, VideoTurn, refreshVars
  <2>8. CASE AdmitNobody(in)
    <3>1. client' = "none" /\ (refresh_due' => refresh_due)
      BY <2>8 DEF AdmitNobody, refreshVars
    <3>2. ~MainTurn(in) /\ ~RefreshTurn(in) /\ ~CartTurn(in)
      BY <2>8 DEF AdmitNobody
    <3>3. Live => ~Strobe(in) /\ ~refresh_due /\ ~CartReq(a_req, b_req)
      BY <2>1, <2>2, <3>2 DEF MainTurn, RefreshTurn, CartTurn
    <3> QED BY <1>2, <3>1, <3>3
  <2> QED BY <1>2, <2>3, <2>4, <2>5, <2>6, <2>7, <2>8, Step, Admissions
<1> QED BY <1>1, <1>2

LEMMA WaitStep ==
    ASSUME TypeOK, UpHolds, BusInv, BusInv', MuxInv, BInv, WaitInv, Next
    PROVE  WaitInv'
<1> USE DEF WaitInv
<1> DEFINE e == IF q = 0 THEN 1 ELSE 0
<1>1. /\ StrobeAhead \in {0, 1} /\ StrobeAhead' \in {0, 1} /\ a_wait \in Nat
      /\ refresh_due => Blocked = StrobeAhead + 2
      /\ ~refresh_due => Blocked = StrobeAhead
      /\ refresh_due' => Blocked' = StrobeAhead' + 2
      /\ ~refresh_due' => Blocked' = StrobeAhead'
  <2>1. a_wait \in Nat
    BY DEF TypeOK
  <2>2. /\ refresh_due' => Blocked' = StrobeAhead' + 2
        /\ ~refresh_due' => Blocked' = StrobeAhead'
    BY DEF Blocked
  <2>3. /\ refresh_due => Blocked = StrobeAhead + 2
        /\ ~refresh_due => Blocked = StrobeAhead
    BY DEF Blocked
  <2> QED BY <2>1, <2>2, <2>3, StrobeStep
<1>2. refresh_due' => Live'
  <2>1. Live => Live'
    BY Ports, Step, LiveStays DEF UpInv
  <2> QED BY <2>1, Turns DEF BusInv, SlotsInv
<1>3. ASSUME yielding', refresh_due', Drains' = 1 PROVE StrobeAhead' = 0
  <2>1. yielding /\ Drains' = Drains - e
    BY <1>3, DrainStep
  <2>2. refresh_due /\ Live
    BY <1>3, <2>1, Turns, CartSlot
  <2>3. CASE q = 0
    BY <1>3, <2>2, <2>3, Turns, StrobeStep
  <2>4. CASE q # 0
    BY <1>1, <1>3, <2>1, <2>2, <2>4, StrobeStep, DrainStep
  <2> QED BY <2>3, <2>4
<1>4. /\ yielding => Ahead = Drains + (IF owner_b THEN 1 ELSE 6)
      /\ ~yielding /\ ~owner_b => Ahead = Blocked
      /\ ~yielding /\ owner_b /\ b_req /\ ~RunsB => Ahead = Blocked + 5
      /\ ~yielding /\ owner_b /\ ~(b_req /\ ~RunsB) => Ahead = 4
  BY DEF Ahead
<1>5. /\ yielding' => Ahead' = Drains' + (IF owner_b' THEN 1 ELSE 6)
      /\ ~yielding' /\ ~owner_b' => Ahead' = Blocked'
      /\ ~yielding' /\ owner_b' /\ b_req' /\ ~RunsB' => Ahead' = Blocked' + 5
      /\ ~yielding' /\ owner_b' /\ ~(b_req' /\ ~RunsB') => Ahead' = 4
  BY DEF Ahead
<1>6. PICK h, k, d, dk, s, sk : h = Ahead /\ k = Ahead' /\ d = Drains /\ dk = Drains'
                                /\ s = Blocked /\ sk = Blocked'
  OBVIOUS
<1>7. /\ s \in 0..3 /\ sk \in 0..3 /\ (~refresh_due' => sk \in 0..1)
      /\ (yielding => d \in 1..3) /\ (yielding' => dk \in 1..3)
  <2>1. PICK x, xk : x = StrobeAhead /\ xk = StrobeAhead'
    OBVIOUS
  <2>2. s = x \/ s = x + 2
    BY <1>1, <1>6, <2>1
  <2>3. IF refresh_due' THEN sk = xk + 2 ELSE sk = xk
    BY <1>1, <1>6, <2>1
  <2>4. x \in {0, 1} /\ xk \in {0, 1}
    BY <1>1, <2>1
  <2> QED BY <1>6, <2>2, <2>3, <2>4, DrainStep
<1>8. h \in 0..9 /\ k \in 0..9
  <2>1. (h \in {d + 1, d + 6} /\ yielding) \/ h \in {s, s + 5, 4}
    BY <1>4, <1>6
  <2>2. (k \in {dk + 1, dk + 6} /\ yielding') \/ k \in {sk, sk + 5, 4}
    BY <1>5, <1>6
  <2> QED BY <1>7, <2>1, <2>2
<1>9. ASSUME a_req, ~a_ack, Live, ~AdmittedA PROVE k <= h - e
  <2>2. q # 0 => sk <= s
    <3> SUFFICES ASSUME q # 0 PROVE sk <= s
      OBVIOUS
    <3>1. PICK x, xk : x = StrobeAhead /\ xk = StrobeAhead'
      OBVIOUS
    <3>2. x \in {0, 1} /\ xk \in {0, 1} /\ xk <= x
      BY <1>1, <3>1, StrobeStep
    <3>3. \/ s = x + 2 /\ sk = xk + 2
          \/ s = x /\ sk = xk
      BY <1>1, <1>6, <3>1, Turns
    <3> QED BY <3>2, <3>3
  <2>3. ASSUME q = 0, CartReq(a_req, b_req), client' # "cart" PROVE sk <= s - 1
    <3>1. PICK x, xk : x = StrobeAhead /\ xk = StrobeAhead'
      OBVIOUS
    <3>2. x \in {0, 1} /\ xk \in {0, 1} /\ (x = 1 => xk = 0) /\ (Strobe(SdramPorts) <=> x = 1)
      BY <1>1, <1>9, <2>3, <3>1, StrobeStep
    <3>3. CASE Strobe(SdramPorts)
      <4>1. \/ s = x + 2 /\ sk = xk + 2
            \/ s = x /\ sk = xk
        BY <1>1, <1>6, <1>9, <2>3, <3>1, <3>3, Turns
      <4> QED BY <3>2, <3>3, <4>1
    <3>4. CASE ~Strobe(SdramPorts)
      <4>1. refresh_due /\ ~refresh_due'
        BY <1>9, <2>3, <3>4, Turns
      <4>2. s = x + 2 /\ sk = xk
        BY <1>1, <1>6, <3>1, <4>1
      <4> QED BY <3>2, <4>2
    <3> QED BY <3>3, <3>4
  <2>4. CASE yielding /\ yielding'
    <3>1. (owner_b' <=> owner_b) /\ dk = d - e
      BY <1>6, <2>4, DrainStep
    <3>2. IF owner_b THEN h = d + 1 /\ k = dk + 1 ELSE h = d + 6 /\ k = dk + 6
      BY <1>4, <1>5, <1>6, <2>4, <3>1
    <3> QED BY <1>7, <2>4, <3>1, <3>2
  <2>5. CASE yielding /\ ~yielding'
    <3>1. (owner_b' <=> ~owner_b) /\ q = 0 /\ d = 1
      BY <1>6, <2>5, DrainStep
    <3>2. ~refresh_due'
      <4>1. client' # "cart"
        BY <2>5, <3>1, CartSlot
      <4>2. refresh_due => StrobeAhead = 0
        BY <1>6, <2>5, <3>1
      <4> QED BY <1>9, <3>1, <4>1, <4>2, Turns, StrobeStep
    <3>3. IF owner_b THEN h = 2 /\ k = sk ELSE h = 7 /\ k \in {sk + 5, 4}
      BY <1>4, <1>5, <1>6, <2>5, <3>1
    <3> QED BY <1>7, <3>1, <3>2, <3>3
  <2>6. CASE ~yielding /\ ~owner_b
    <3>1. ~WantsYield(a_req, b_req) /\ CartReq(a_req, b_req)
      BY <1>9, <2>6 DEF WantsYield, OwnerReq, CartReq
    <3>2. ~yielding' /\ ~owner_b'
      BY <2>6, <3>1, DrainStep
    <3>3. q = 0 => client' # "cart"
      BY <1>9, <2>6 DEF AdmittedA
    <3>4. h = s /\ k = sk
      BY <1>4, <1>5, <1>6, <2>6, <3>2
    <3> QED BY <1>7, <2>2, <2>3, <3>1, <3>3, <3>4
  <2>7. CASE ~yielding /\ owner_b /\ b_req /\ ~RunsB
    <3>1. ~WantsYield(a_req, b_req) /\ CartReq(a_req, b_req)
      BY <2>7 DEF WantsYield, OwnerReq, CartReq
    <3>2. ~yielding' /\ owner_b'
      BY <2>7, <3>1, DrainStep
    <3>3. h = s + 5 /\ (k = 4 \/ (k = sk + 5 /\ client' # "cart"))
      BY <1>4, <1>5, <1>6, <2>7, <3>2 DEF RunsB
    <3> QED BY <1>7, <2>2, <2>3, <3>1, <3>3
  <2>8. CASE ~yielding /\ owner_b /\ ~(b_req /\ ~RunsB)
    <3>1. h = 4
      BY <1>4, <1>6, <2>8
    <3>2. CASE ~b_req
      <4>1. yielding' /\ owner_b' /\ dk = IF q = 7 THEN 3 ELSE 2
        BY <1>6, <1>9, <2>8, <3>2, DrainStep DEF WantsYield, OwnerReq, OtherReq
      <4>2. k = dk + 1
        BY <1>5, <1>6, <4>1
      <4> QED BY <3>1, <4>1, <4>2
    <3>3. CASE b_req
      <4>1. RunsB /\ q # 0
        BY <2>8, <3>3 DEF BInv
      <4>2. ~yielding' /\ owner_b' /\ client' = "cart"
        BY <2>8, <3>3, <4>1, DrainStep, SlotKept DEF WantsYield, OwnerReq, RunsB
      <4>3. k = 4
        BY <1>5, <1>6, <4>2 DEF RunsB
      <4> QED BY <3>1, <4>1, <4>3
    <3> QED BY <3>2, <3>3
  <2> QED BY <2>4, <2>5, <2>6, <2>7, <2>8
<1>10. a_wait' + Ahead' <= 9
  <2>1. PICK w : w = a_wait'
    OBVIOUS
  <2>2. CASE w = 0
    <3>1. w + k <= 9
      BY <1>8, <2>2
    <3> QED BY <1>6, <2>1, <3>1
  <2>3. CASE w # 0
    <3>1. a_req /\ ~a_ack /\ Ready(SdramPorts) /\ ~AdmittedA /\ w \in {a_wait, a_wait + e}
      BY <1>1, <2>1, <2>3, Step DEF Watch
    <3>2. Live
      BY <3>1 DEF Ready, Live
    <3>3. k <= h - e /\ a_wait + h <= 9
      BY <1>6, <1>9, <3>1, <3>2
    <3>4. w + k <= 9
      BY <1>1, <1>8, <3>1, <3>3
    <3> QED BY <1>6, <2>1, <3>4
  <2> QED BY <2>2, <2>3
<1> QED BY <1>2, <1>3, <1>10

-----------------------------------------------------------------------------
LEMMA InitIInv == Init => IInv
<1> SUFFICES ASSUME Init PROVE IInv
  OBVIOUS
<1>1. ControllerTypeOK /\ MainTypeOK /\ BusInv /\ ~Live
  BY BusInit DEF Init
<1>2. (CHOOSE c \in CartCells : TRUE) \in CartCells
  BY PortsAssumption
<1> USE DEF Init, ControllerInit, MuxInit
<1>3. TypeOK
  <2>1. b_addr \in MainCells /\ a_addr \in CartCells /\ a_din \in Byte /\ vram_addr \in MainCells
    BY <1>1, <1>2 DEF MainTypeOK, ControllerTypeOK
  <2>2. {init, a_req, a_wr, b_req, b_running, owner_b, yielding} \subseteq BOOLEAN
    OBVIOUS
  <2>3. {a_slots, a_wait, carts} \subseteq Nat /\ b_rest \in 0..2 /\ drain \in 0..2
    OBVIOUS
  <2> QED BY <1>1, <2>1, <2>2, <2>3 DEF TypeOK
<1>4. UpHolds /\ MuxInv /\ AInv /\ BInv /\ AnswerInv
  BY <1>1 DEF UpHolds, MuxInv, AInv, BInv, AnswerInv, RunsA, RunsB
<1>5. CartsInv /\ WaitInv
  BY Bounds DEF CartsInv, Refreshing, WaitInv, Ahead, Blocked, Drains, StrobeAhead, RunsB, MainInit
<1> QED BY <1>1, <1>3, <1>4, <1>5 DEF IInv, PortsInv

LEMMA IInvStutter == IInv /\ UNCHANGED vars => IInv'
<1> SUFFICES ASSUME IInv, UNCHANGED vars PROVE IInv'
  OBVIOUS
<1> USE DEF IInv, PortsInv, vars, controllerVars, slotVars, refreshVars, outVars, muxVars, mainVars,
        aVars, bVars, ghostVars
<1>1. TypeOK'
  BY DEF TypeOK, ControllerTypeOK, MainTypeOK
<1>2. ChipInv' /\ SlotsInv' /\ GrantsInv'
  BY DEF BusInv, ChipInv, Early, SlotsInv, Live, GrantsInv
<1>3. CoherentInv'
  BY DEF BusInv, CoherentInv, Coherent, WordData, Word
<1>4. MainInv'
  BY DEF BusInv, MainInv, MainServed, Live
<1>5. UpHolds' /\ MuxInv' /\ CartsInv'
  BY DEF UpHolds, Live, MuxInv, CartsInv, Refreshing
<1>6. AInv' /\ BInv' /\ AnswerInv'
  BY DEF AInv, BInv, AnswerInv, RunsA, RunsB
<1>7. WaitInv'
  BY DEF WaitInv, Ahead, Blocked, Drains, StrobeAhead, RunsB, Live
<1> QED BY <1>1, <1>2, <1>3, <1>4, <1>5, <1>6, <1>7 DEF BusInv

LEMMA Inductive == IInv /\ [Next]_vars => IInv'
<1>1. ASSUME IInv, Next PROVE IInv'
  <2>1. AnswerInv'
    BY <1>1, Answers, AStep DEF IInv, PortsInv, AnswerInv
  <2> QED BY <1>1, <2>1, PortsType, BusHolds, UpStep, MuxStep, AStep, BStep, CartsStep,
          WaitStep
          DEF IInv, PortsInv
<1> QED BY <1>1, IInvStutter

(* The inductive invariant: the controller, its power-up and the video word, the
   main port's strobe, the owner of a slot in flight while the cartridge port
   changes hands, and the count of slots since a refresh. *)
THEOREM InvariantHolds == Spec => []IInv
<1> QED BY InitIInv, Inductive, PTL DEF Spec

(* "Handing the port over at that moment would deliver the stale acknowledge to
   the new owner": for every bound, an acknowledge reaches the client whose
   request it answers, with its data. *)
THEOREM AcksAreOwn == Spec => []AckIsOwn
<1>1. IInv => AckIsOwn
  <2> SUFFICES ASSUME IInv PROVE AckIsOwn
    OBVIOUS
  <2> USE DEF IInv, PortsInv
  <2>1. ASSUME a_ack
        PROVE  a_req /\ a_slots = 1 /\ IF a_wr THEN mem[a_addr] = a_din
                                      ELSE cart_dout = mem[a_addr]
    <3>1. RunsA /\ q = 7
      BY <2>1 DEF a_ack, AckToA, AnswerInv, RunsA
    <3> QED BY <3>1 DEF AInv, AnswerInv
  <2>2. b_ack /\ b_req => cart_dout = mem[b_addr]
    BY DEF b_ack, AckToB, AnswerInv, BInv, RunsB
  <2>3. cart_grant /\ ~owner_b => a_req /\ a = a_addr /\ (wr <=> a_wr)
    BY DEF AnswerInv, AInv, RunsA
  <2>4. wr \in BOOLEAN /\ a_wr \in BOOLEAN
    BY DEF TypeOK, ControllerTypeOK
  <2> QED BY <2>1, <2>2, <2>3, <2>4 DEF AckIsOwn
<1> QED BY <1>1, InvariantHolds, PTL

(* "This avoids re-granting the old request": a request of the cartridge memory
   gets one slot, however long it stays up. *)
THEOREM OneSlot == Spec => []OneSlotPerRequest
<1>1. IInv => OneSlotPerRequest
  BY DEF IInv, PortsInv, AnswerInv, OneSlotPerRequest
<1> QED BY <1>1, InvariantHolds, PTL

(* Cartridge traffic cannot starve refresh: for every limit, at most that many of
   its slots separate two refreshes, whoever else is served in between. *)
THEOREM RefreshInTime == Spec => []RefreshedInTime
<1>1. IInv => RefreshedInTime
  BY DEF IInv, PortsInv, CartsInv, RefreshedInTime
<1> QED BY <1>1, InvariantHolds, PTL

(* "Without the forwarding mask the other client would wait for the whole save":
   A loses nine arbitrations at most, whatever the refresh limit and however long
   the save, of which the hand-over to it and back takes six. *)
THEOREM AIsServed == ASSUME MaxWait >= 9 PROVE Spec => []ServedInTime
<1>1. IInv => ServedInTime
  <2> SUFFICES ASSUME IInv PROVE ServedInTime
    OBVIOUS
  <2> USE DEF IInv, PortsInv
  <2>1. a_wait \in Nat /\ a_wait + Ahead <= 9
    BY DEF TypeOK, WaitInv
  <2>2. StrobeAhead \in {0, 1}
    BY DEF StrobeAhead
  <2>3. Blocked \in 0..3
    BY <2>2 DEF Blocked
  <2>4. yielding => Drains \in 0..3
    BY DEF Drains, TypeOK
  <2>5. Ahead \in 0..9
    BY <2>3, <2>4 DEF Ahead
  <2>6. MaxWait \in Nat
    BY PortsAssumption
  <2> QED BY <2>1, <2>5, <2>6 DEF ServedInTime
<1> QED BY <1>1, InvariantHolds, PTL

(* The word kept for video is the word in memory, whichever writes of the CPU and
   the cartridge memory meet its reads. *)
THEOREM VideoHolds == Spec => []VideoIsCoherent
<1>1. IInv => VideoIsCoherent
  BY DEF IInv, BusInv, CoherentInv, Coherent, VideoIsCoherent
<1> QED BY <1>1, InvariantHolds, PTL

(* The main port is never made to wait: one slot after its strobe rose a read is
   answered and a write is in memory, whoever else wanted that slot. *)
THEOREM MainIsServed == Spec => []MainServed
<1>1. IInv => MainServed
  BY DEF IInv, BusInv, MainInv
<1> QED BY <1>1, InvariantHolds, PTL

(* Two slots of the save never follow each other, aborts and restarts included,
   so tape and video keep their turn. *)
THEOREM SavesYield == Spec => SaveYields
<1>1. ASSUME IInv, Next, q = 0, owner_b, client = "cart" PROVE client' # "cart"
  <2>1. ~b_req
    BY <1>1 DEF IInv, PortsInv, BInv, RunsB
  <2> QED BY <1>1, <2>1, CartSlot DEF IInv, PortsInv
<1>2. ASSUME IInv, [Next]_vars
      PROVE  [q = 0 /\ owner_b /\ client = "cart" => client' # "cart"]_vars
  BY <1>1, <1>2
<1> QED BY <1>2, InvariantHolds, PTL DEF Spec, SaveYields

-----------------------------------------------------------------------------
(* The tape. *)
Last(n) == IF n < tape_queued_addr THEN n ELSE tape_queued_addr
TapeCell(n) == <<"tape", n>>

WriteRuns == client = "tape" /\ wr /\ q # 0
ReadRuns == client = "tape" /\ ~wr /\ q # 0
Asked == tzx_req # tape_rd_ack
Fresh == (machine_reset \/ unload) /\ held > 0

(* A write in flight is the queue's byte, and lands before its acknowledge. *)
WriteInv ==
    /\ client # "cart"
    /\ tape_wr_ack <=> client = "tape" /\ wr /\ q = 7
    /\ whole /\ tape_wr => tape_din = File[pending_addr + 1]
    /\ whole /\ WriteRuns => /\ tape_wr /\ a = TapeCell(pending_addr) /\ data = tape_din
                            /\ (q \in {6, 7} => mem[a] = data)
    /\ TapeIsTheFile

(* The player is kept in reset while there is a byte to be written, and a reset
   or unload outlasts the slot it strikes in. *)
RestartInv ==
    /\ hps_pos = 0 => ~tape_wr /\ tape_queued_addr = 0
    /\ tape_download /\ hps_pos > 0 => tape_reset
    /\ tape_wr => tape_reset
    /\ WriteRuns => tape_reset /\ ~Asked /\ (tape_wr \/ machine_reset)
    /\ (machine_reset \/ unload) /\ held = 0 => tape_queued_addr = 0
    /\ machine_reset /\ held = 0 => ~tape_wr /\ ~WriteRuns

(* A read struck by a restart goes on, its late answers asking for further
   reads: of byte 0, as long as there is no tape, and not beyond the first
   write of one. *)
StrayInv ==
    /\ old_tape_ack # tape_rd_ack => q = 0
    /\ tape_queued_addr = 0 /\ ~Fresh =>
          tape_play_addr = 0 /\ (ReadRuns => a = TapeCell(0))
    /\ tape_queued_addr > 0 /\ TapeBusy /\ (ReadRuns \/ Asked) => tape_wr /\ ~WriteRuns
    /\ tape_queued_addr > 0 /\ ~TapeBusy /\ tape_reset =>
          tape_play_addr = 0 /\ old_tape_ack = tape_rd_ack /\ ~ReadRuns /\ ~Asked

(* Of a tape that is there: one read at a time, at the byte the player is at. *)
OrderInv ==
    tape_queued_addr > 0 /\ ~TapeBusy /\ ~tape_reset =>
      /\ Asked => reads > 0 /\ old_tape_ack = tape_rd_ack /\ tape_play_addr = Last(reads - 1)
      /\ ReadRuns => Asked /\ a = TapeCell(Last(reads - 1))
      /\ ~Asked => IF old_tape_ack = tape_rd_ack THEN tape_play_addr = Last(reads)
                   ELSE reads > 0 /\ tape_play_addr = Last(reads - 1)

TapeInv == WriteInv /\ RestartInv /\ StrayInv /\ OrderInv /\ PlaysInOrder
TapeIInv == TapeTypeOK /\ BusInv /\ TapeInv

-----------------------------------------------------------------------------
(* What one clock does to each part, as the invariants speak of it. *)
Restart == machine_reset \/ unload \/ TapeBusy
Struck == machine_reset \/ unload
ReadAnswers == q = 7 /\ ReadRuns

QueueEmptied ==
    machine_reset /\ ~tape_wr' /\ tape_queued_addr' = 0 /\ pending_addr' = 0 /\ tape_din' = NoByte
QueueTook ==
    /\ ~machine_reset /\ tape_download /\ (~tape_wr \/ tape_wr_ack)
    /\ hps_pos < Len(File) /\ hps_pos' = hps_pos + 1
    /\ tape_wr' /\ tape_din' = File[hps_pos + 1] /\ pending_addr' = hps_pos
    /\ tape_queued_addr' = IF unload THEN 0 ELSE hps_pos
QueueKept ==
    /\ ~machine_reset /\ hps_pos' = hps_pos
    /\ (tape_wr' <=> tape_wr /\ ~tape_wr_ack)
    /\ tape_queued_addr' = IF unload THEN 0 ELSE tape_queued_addr
    /\ UNCHANGED <<tape_din, pending_addr>>

LEMMA Tape ==
    /\ Len(File) \in Nat /\ Len(File) > 0 /\ NoByte \in Byte
    /\ \A n \in 0..(Len(File) - 1) :
          TapeCell(n) \in Cells /\ TapeCell(n) \notin MainCells /\ File[n + 1] \in Byte
    /\ MinHold \in Nat /\ MinHold > 0
<1>1. /\ File \in Seq(Byte) /\ Len(File) > 0
      /\ {<<"tape", n>> : n \in 0..(Len(File) - 1)} \subseteq Cells \ MainCells
  BY TapeAssumption
<1>2. \A n \in 0..(Len(File) - 1) : TapeCell(n) \in Cells /\ TapeCell(n) \notin MainCells
  BY <1>1 DEF TapeCell
<1>3. Len(File) \in Nat /\ \A k \in 1..Len(File) : File[k] \in Byte
  BY <1>1, LenProperties, ElementOfSeq
<1>4. \A n \in 0..(Len(File) - 1) : n + 1 \in 1..Len(File)
  BY <1>3
<1> QED BY <1>1, <1>2, <1>3, <1>4, TapeAssumption

LEMMA TapePortsHold ==
    ASSUME TapeTypeOK
    PROVE  /\ PortsOK(TapePorts) /\ MainPorts(TapePorts) /\ UpInv(TapePorts)
           /\ TapePorts.cart_req = FALSE
           /\ TapePorts.tape_rd = (tzx_req # tape_rd_ack) /\ TapePorts.tape_wr = tape_wr
           /\ TapePorts.tape_addr = TapeCell(TapeAddr(tape_download, tape_play_addr))
           /\ TapePorts.tape_din = tape_din
<1> USE DEF TapePorts
<1>1. TapeAddr(tape_download, tape_play_addr) \in 0..(Len(File) - 1)
  BY DEF TapeTypeOK, TapeAddr
<1>2. /\ TapeCell(TapeAddr(tape_download, tape_play_addr)) \in Cells
      /\ TapeCell(TapeAddr(tape_download, tape_play_addr)) \notin MainCells
  BY <1>1, Tape
<1>3. /\ TapePorts.tape_addr = TapeCell(TapeAddr(tape_download, tape_play_addr))
      /\ TapePorts.tape_addr = <<"tape", TapeAddr(tape_download, tape_play_addr)>>
  BY DEF TapeCell
<1>4. PortsOK(TapePorts)
  <2>1. /\ main.addr \in MainCells /\ main.addr \in Cells /\ a \in Cells /\ main.din \in Byte /\ data \in Byte
        /\ tape_din \in Byte /\ tape_wr \in BOOLEAN
    BY MainAssumption DEF TapeTypeOK, MainTypeOK, ControllerTypeOK
  <2>2. /\ (main.strobe = "rd") \in BOOLEAN /\ (main.strobe = "wr") \in BOOLEAN
        /\ (tzx_req # tape_rd_ack) \in BOOLEAN
    OBVIOUS
  <2>3. TapePorts.tape_addr \in Cells /\ TapePorts.tape_addr \notin MainCells
    BY <1>2, <1>3
  <2> QED BY <2>1, <2>2, <2>3 DEF PortsOK
<1>5. MainPorts(TapePorts)
  BY DEF MainPorts
<1>6. UpInv(TapePorts)
  BY DEF UpInv
<1> QED BY <1>3, <1>4, <1>5, <1>6

LEMMA Clocks ==
    ASSUME TapeNext
    PROVE  /\ SdramClock(TapePorts) /\ MainClock /\ PlayStep /\ PlayerStep
           /\ Hit \/ Holding \/ Release
           /\ whole' = (whole /\ ~(machine_reset /\ (tape_download \/ tape_wr)))
           /\ \/ SendByte /\ QueueClock(QueuePorts(TRUE))
              \/ (BeginTape \/ EndTape \/ HpsIdle) /\ QueueClock(QueuePorts(FALSE))
  BY DEF TapeNext, Clock

LEMMA TapeBusHolds ==
    ASSUME TapeTypeOK, BusInv, TapeNext
    PROVE  ControllerTypeOK' /\ MainTypeOK' /\ BusInv'
  BY TapePortsHold, Clocks, BusStep DEF TapeTypeOK

(* The slot that is running, and the one a clock on the arbitration edge may start. *)
LEMMA Slot ==
    ASSUME TapeTypeOK, TapeNext
    PROVE  /\ q' = 0 <=> q = 7
           /\ q # 0 => UNCHANGED <<client, wr, a, data>>
           /\ client' = "cart" => client = "cart"
           /\ WriteRuns' => q # 7
           /\ WriteRuns' => IF q = 0 THEN /\ tape_wr /\ a' = TapeCell(pending_addr)
                                          /\ data' = tape_din
                            ELSE WriteRuns
           /\ ReadRuns' => q # 7
           /\ ReadRuns' => IF q = 0 THEN /\ ~tape_wr /\ Asked
                                         /\ a' = TapeCell(IF tape_download THEN tape_queued_addr
                                                          ELSE tape_play_addr)
                           ELSE ReadRuns
<1> DEFINE in == TapePorts
<1>1. SdramClock(in) /\ q \in {0, 1, 3, 6, 7} /\ wr \in BOOLEAN /\ tape_wr \in BOOLEAN
  BY Clocks DEF TapeTypeOK, ControllerTypeOK
<1>2. (q' = 0 <=> q = 7) /\ (q # 0 => UNCHANGED <<client, wr, a, data>>)
  <2>1. q' = 0 <=> q = 7
    BY <1>1, Edges
  <2>2. q # 0 => NoAdmission(in)
    BY <1>1, Edges
  <2> QED BY <2>1, <2>2 DEF NoAdmission, slotVars
<1>3. CASE q # 0
  BY <1>2, <1>3 DEF WriteRuns, ReadRuns
<1>4. CASE q = 0
  <2>1. CASE client' = "tape"
    <3>1. AdmitTape(in)
      BY <1>1, <1>4, <2>1, Admissions DEF AdmitMain, AdmitRefresh, AdmitCart, AdmitVideo, AdmitNobody
    <3>2. /\ wr' = in.tape_wr /\ a' = in.tape_addr /\ data' = in.tape_din
          /\ in.tape_rd \/ in.tape_wr
      BY <3>1 DEF AdmitTape, TapeTurn
    <3>3. /\ wr' = tape_wr /\ a' = TapeCell(TapeAddr(tape_download, tape_play_addr))
          /\ data' = tape_din
      BY <3>2, TapePortsHold
    <3>4. Asked \/ tape_wr
      BY <3>2, TapePortsHold DEF Asked
    <3>5. CASE tape_wr
      BY <1>2, <1>4, <2>1, <3>3, <3>5 DEF TapeAddr, WriteRuns, ReadRuns
    <3>6. CASE ~tape_wr
      BY <1>2, <1>4, <2>1, <3>3, <3>4, <3>6 DEF TapeAddr, WriteRuns, ReadRuns
    <3> QED BY <3>5, <3>6
  <2>2. CASE client' # "tape"
    <3>1. client' # "cart"
      <4>1. ~AdmitCart(in)
        BY TapePortsHold DEF AdmitCart, CartTurn
      <4> QED BY <1>1, <1>4, <4>1, Admissions DEF AdmitMain, AdmitRefresh, AdmitTape, AdmitVideo,
              AdmitNobody
    <3> QED BY <1>2, <1>4, <2>2, <3>1 DEF WriteRuns, ReadRuns
  <2> QED BY <2>1, <2>2
<1> QED BY <1>2, <1>3, <1>4

(* The acknowledges: of a write before its slot ends, of a read as it ends. *)
LEMMA Acks ==
    ASSUME TapeTypeOK, TapeNext
    PROVE  /\ tape_wr_ack' <=> client' = "tape" /\ wr' /\ q' = 7
           /\ ReadAnswers => tape_dout' = mem[a] /\ (tape_rd_ack' <=> ~tape_rd_ack)
           /\ ~ReadAnswers => tape_dout' = tape_dout /\ (tape_rd_ack' <=> tape_rd_ack)
<1> DEFINE in == TapePorts
<1>1. SdramClock(in) /\ wr \in BOOLEAN /\ tape_rd_ack \in BOOLEAN
  BY Clocks DEF TapeTypeOK, ControllerTypeOK
<1>2. q' = 7 <=> q = 6
  BY <1>1, Edges
<1>3. tape_wr_ack' <=> (q = 6 /\ client = "tape" /\ wr)
  BY <1>1, Outputs
<1>4. tape_wr_ack' <=> client' = "tape" /\ wr' /\ q' = 7
  <2>1. CASE q = 6
    BY <1>2, <1>3, <2>1, Slot
  <2>2. CASE q # 6
    BY <1>2, <1>3, <2>2
  <2> QED BY <2>1, <2>2
<1>5. ReadAnswers <=> (q = 7 /\ client = "tape" /\ ~wr)
  BY DEF ReadAnswers, ReadRuns
<1>6. /\ tape_dout' = IF q = 7 /\ client = "tape" /\ ~wr THEN mem[a] ELSE tape_dout
      /\ tape_rd_ack' = IF q = 7 THEN (tape_rd_ack # (client = "tape" /\ ~wr)) ELSE tape_rd_ack
  BY <1>1, Outputs
<1>7. CASE ReadAnswers
  <2>1. (client = "tape" /\ ~wr) = TRUE /\ q = 7
    BY <1>5, <1>7
  <2>2. tape_rd_ack' = (tape_rd_ack # TRUE)
    BY <1>6, <2>1
  <2>3. tape_rd_ack' <=> ~tape_rd_ack
    BY <1>1, <2>2, Zenon
  <2> QED BY <1>4, <1>6, <1>7, <2>1, <2>3
<1>8. CASE ~ReadAnswers
  <2>1. tape_dout' = tape_dout
    BY <1>5, <1>6, <1>8
  <2>2. CASE q = 7
    <3>1. (client = "tape" /\ ~wr) = FALSE
      BY <1>5, <1>8, <2>2
    <3>2. tape_rd_ack' = (tape_rd_ack # FALSE)
      BY <1>6, <2>2, <3>1
    <3>3. tape_rd_ack' <=> tape_rd_ack
      BY <1>1, <3>2, Zenon
    <3> QED BY <1>4, <1>8, <2>1, <3>3
  <2>3. CASE q # 7
    <3>1. tape_rd_ack' = tape_rd_ack
      BY <1>6, <2>3
    <3>2. tape_rd_ack' <=> tape_rd_ack
      BY <3>1, Zenon
    <3> QED BY <1>4, <1>8, <2>1, <3>2
  <2> QED BY <2>2, <2>3
<1> QED BY <1>4, <1>7, <1>8

(* The queue with the HPS that fills it. *)
LEMMA Queue ==
    ASSUME TapeTypeOK, TapeNext
    PROVE  /\ QueueEmptied \/ QueueTook \/ QueueKept
           /\ tape_wr' \in BOOLEAN
           /\ hps_pos' \in {hps_pos, hps_pos + 1}
           /\ hps_pos' # hps_pos => tape_download /\ tape_download' /\ hps_pos < Len(File)
           /\ tape_download' /\ ~tape_download => hps_pos = 0 /\ hps_pos' = 0
<1> USE DEF QueuePorts
<1>1. CASE SendByte /\ QueueClock(QueuePorts(TRUE))
  <2>1. /\ tape_download /\ hps_pos < Len(File) /\ hps_pos' = hps_pos + 1
        /\ tape_download' = tape_download /\ (~tape_wr \/ tape_wr_ack)
    BY <1>1 DEF SendByte, TapeWait
  <2>2. CASE QueueReset(QueuePorts(TRUE))
    BY <2>1, <2>2 DEF QueueReset, QueueEmptied
  <2>3. CASE QueueAccept(QueuePorts(TRUE))
    BY <2>1, <2>3 DEF QueueAccept, QueueTook
  <2>4. ~QueueDrain(QueuePorts(TRUE))
    BY <2>1 DEF QueueDrain, Accepts
  <2> QED BY <1>1, <2>2, <2>3, <2>4 DEF QueueClock
<1>2. CASE (BeginTape \/ EndTape \/ HpsIdle) /\ QueueClock(QueuePorts(FALSE))
  <2>1. /\ hps_pos' = hps_pos /\ (tape_download' /\ ~tape_download => hps_pos = 0)
    BY <1>2 DEF BeginTape, EndTape, HpsIdle, hpsVars
  <2>2. CASE QueueReset(QueuePorts(FALSE))
    <3>1. /\ machine_reset /\ tape_wr' = FALSE /\ tape_din' = NoByte
          /\ tape_queued_addr' = 0 /\ pending_addr' = 0
      BY <2>2 DEF QueueReset
    <3>2. QueueEmptied
      BY <3>1 DEF QueueEmptied
    <3> QED BY <2>1, <3>1, <3>2
  <2>3. CASE QueueDrain(QueuePorts(FALSE))
    <3>1. /\ ~machine_reset /\ UNCHANGED <<tape_din, pending_addr>>
          /\ tape_wr' = (tape_wr /\ ~tape_wr_ack)
          /\ tape_queued_addr' = IF machine_reset \/ unload THEN 0 ELSE tape_queued_addr
      BY <2>3 DEF QueueDrain
    <3>2. (tape_wr' <=> tape_wr /\ ~tape_wr_ack) /\ tape_wr' \in BOOLEAN
      BY <3>1, Zenon
    <3> QED BY <2>1, <3>1, <3>2 DEF QueueKept
  <2>4. ~QueueAccept(QueuePorts(FALSE))
    BY DEF QueueAccept, Accepts
  <2> QED BY <1>2, <2>2, <2>3, <2>4 DEF QueueClock
<1> QED BY <1>1, <1>2, Clocks

(* The player's reset, its address and its request. *)
LEMMA Player ==
    ASSUME TapeTypeOK, TapeNext
    PROVE  /\ (tape_reset' <=> Restart) /\ (old_tape_ack' <=> tape_rd_ack)
           /\ Restart => tape_play_addr' = 0
           /\ ~Restart => tape_play_addr' =
                 IF old_tape_ack # tape_rd_ack /\ tape_play_addr < tape_queued_addr
                 THEN tape_play_addr + 1 ELSE tape_play_addr
           /\ tape_reset => reads' = 0 /\ (Asked' <=> ReadAnswers)
           /\ ~tape_reset => \/ ~Asked /\ reads' = reads + 1 /\ (Asked' <=> ~ReadAnswers)
                             \/ reads' = reads /\ (Asked' <=> ~(Asked <=> ReadAnswers))
<1>1. PlayStep /\ PlayerStep
  BY Clocks
<1>2. tape_rd_ack \in BOOLEAN /\ tape_wr \in BOOLEAN /\ tzx_req \in BOOLEAN
  BY DEF TapeTypeOK, ControllerTypeOK
<1>3. (tape_reset' <=> Restart) /\ (old_tape_ack' <=> tape_rd_ack)
  <2>1. tape_reset' <=> Restart
    BY <1>1, Zenon DEF PlayStep, Restart
  <2>2. old_tape_ack' <=> tape_rd_ack
    BY <1>1, Zenon DEF PlayStep
  <2> QED BY <2>1, <2>2
<1>4. tape_play_addr' = IF Restart THEN 0
                        ELSE IF old_tape_ack # tape_rd_ack /\ tape_play_addr < tape_queued_addr
                        THEN tape_play_addr + 1 ELSE tape_play_addr
  BY <1>1 DEF PlayStep, Restart, More
<1>5. ASSUME tzx_req' = tape_rd_ack PROVE Asked' <=> ReadAnswers
  <2>1. Asked' <=> ~(tzx_req' <=> tape_rd_ack')
    <3>1. tape_rd_ack' \in BOOLEAN
      BY Clocks, Outputs, <1>2
    <3> QED BY <1>2, <1>5, <3>1 DEF Asked
  <2> QED BY <1>5, <2>1, Acks
<1>6. tape_rd_ack' \in BOOLEAN
  BY Clocks, Outputs, <1>2
<1>7. ASSUME ~Asked, tzx_req' = ~tape_rd_ack PROVE Asked' <=> ~ReadAnswers
  <2>1. tzx_req' \in BOOLEAN /\ (tzx_req' <=> ~tape_rd_ack)
    BY <1>7, Zenon
  <2>2. Asked' <=> ~(tzx_req' <=> tape_rd_ack')
    BY <1>6, <2>1 DEF Asked
  <2> QED BY <2>1, <2>2, Acks
<1>8. ASSUME tzx_req' = tzx_req PROVE Asked' <=> ~(Asked <=> ReadAnswers)
  <2>1. Asked <=> ~(tzx_req <=> tape_rd_ack)
    BY <1>2 DEF Asked
  <2>2. Asked' <=> ~(tzx_req <=> tape_rd_ack')
    BY <1>2, <1>6, <1>8 DEF Asked
  <2> QED BY <2>1, <2>2, Acks
<1>9. CASE tape_reset
  BY <1>1, <1>3, <1>4, <1>5, <1>9 DEF PlayerStep
<1>10. CASE ~tape_reset
  <2>1. \/ ~Asked /\ tzx_req' = ~tape_rd_ack /\ reads' = reads + 1
        \/ tzx_req' = tzx_req /\ reads' = reads
    BY <1>1, <1>10 DEF PlayerStep, Asked
  <2> QED BY <1>3, <1>4, <1>7, <1>8, <1>10, <2>1
<1> QED BY <1>9, <1>10

(* A reset or unload comes fresh, and is released no sooner than it is spent. *)
LEMMA Strikes ==
    ASSUME TapeTypeOK, TapeNext
    PROVE  /\ held' \in Nat
           /\ Struck' /\ held' = 0 => Struck /\ (held = 0 \/ q = 7)
           /\ machine_reset' /\ held' = 0 => machine_reset
           /\ Fresh => Fresh' \/ q = 7
           /\ machine_reset /\ held # 0 => machine_reset'
<1> USE DEF Struck, Fresh, TapeTypeOK
<1>1. CASE Hit
  BY <1>1, Tape DEF Hit
<1>2. CASE Holding
  BY <1>2 DEF Holding
<1>3. CASE Release
  BY <1>3 DEF Release
<1> QED BY <1>1, <1>2, <1>3, Clocks

LEMMA TapeType ==
    ASSUME TapeTypeOK, BusInv, TapeNext
    PROVE  TapeTypeOK'
<1>1. ControllerTypeOK' /\ MainTypeOK'
  BY TapeBusHolds
<1>2. {tape_queued_addr', pending_addr'} \subseteq 0..(Len(File) - 1) /\ tape_din' \in Byte
  <2> USE Tape DEF TapeTypeOK
  <2>1. CASE QueueEmptied
    BY <2>1 DEF QueueEmptied
  <2>2. CASE QueueTook
    BY <2>2 DEF QueueTook
  <2>3. CASE QueueKept
    BY <2>3 DEF QueueKept
  <2> QED BY <2>1, <2>2, <2>3, Queue
<1>3. tape_play_addr' \in 0..(Len(File) - 1)
  BY Player, Tape DEF TapeTypeOK
<1>4. hps_pos' \in 0..Len(File)
  BY Queue, Tape DEF TapeTypeOK
<1>5. tape_wr' \in BOOLEAN /\ (tape_wr' => pending_addr' < hps_pos')
  BY Queue DEF QueueEmptied, QueueTook, QueueKept, TapeTypeOK
<1>6. {held', hits', reads'} \subseteq Nat
  <2>1. hits' \in Nat
    <3>1. hits' \in {hits, hits + 1}
      BY Clocks DEF Hit, Holding, Release
    <3> QED BY <3>1 DEF TapeTypeOK
  <2> QED BY <2>1, Strikes, Player DEF TapeTypeOK
<1>7. machine_reset' \in BOOLEAN /\ unload' \in BOOLEAN
  BY Clocks DEF Hit, Holding, Release, TapeTypeOK
<1>8. tape_download' \in BOOLEAN
  BY Clocks DEF SendByte, BeginTape, EndTape, HpsIdle, hpsVars, TapeTypeOK
<1>9. tape_reset' \in BOOLEAN /\ old_tape_ack' \in BOOLEAN
  <2>1. tape_reset' = (machine_reset \/ unload \/ TapeBusy) /\ old_tape_ack' = tape_rd_ack
    BY Clocks DEF PlayStep
  <2>2. tape_reset' \in BOOLEAN
    BY <2>1, Zenon
  <2> QED BY <2>1, <2>2 DEF TapeTypeOK, ControllerTypeOK
<1>10. tzx_req' \in BOOLEAN
  <2>1. tzx_req' \in {tape_rd_ack, tzx_req} \/ tzx_req' = ~tape_rd_ack
    BY Clocks DEF PlayerStep
  <2>2. tzx_req' = ~tape_rd_ack => tzx_req' \in BOOLEAN
    BY Zenon
  <2> QED BY <2>1, <2>2 DEF TapeTypeOK, ControllerTypeOK
<1>11. whole' \in BOOLEAN
  <2>1. whole' = (whole /\ ~(machine_reset /\ (tape_download \/ tape_wr)))
    BY Clocks
  <2> QED BY <2>1, Zenon
<1> QED BY <1>1, <1>2, <1>3, <1>4, <1>5, <1>6, <1>7, <1>8, <1>9, <1>10, <1>11 DEF TapeTypeOK

-----------------------------------------------------------------------------
(* Restarts: no byte is left to be written when one is spent. *)
LEMMA RestartStep ==
    ASSUME TapeTypeOK, BusInv, RestartInv, WriteInv, TapeNext
    PROVE  RestartInv'
<1> USE DEF RestartInv
<1>1. hps_pos' = 0 => ~tape_wr' /\ tape_queued_addr' = 0
  <2>1. hps_pos' = 0 => hps_pos = 0 /\ ~QueueTook
    BY Queue DEF QueueTook, TapeTypeOK
  <2> QED BY <2>1, Queue DEF QueueEmptied, QueueKept
<1>2. tape_wr' => tape_reset'
  BY Queue, Player DEF QueueEmptied, QueueTook, QueueKept, Restart, TapeBusy
<1>3. tape_download' /\ hps_pos' > 0 => tape_reset'
  <2>1. ~tape_download => ~(tape_download' /\ hps_pos' > 0)
    BY Queue
  <2> QED BY <2>1, Player DEF Restart, TapeBusy
<1>4. Struck' /\ held' = 0 => tape_queued_addr' = 0
  <2>1. Struck' /\ held' = 0 => Struck
    BY Strikes
  <2>2. Struck => tape_queued_addr' = 0
    BY Queue DEF Struck, QueueEmptied, QueueTook, QueueKept
  <2> QED BY <2>1, <2>2
<1>5. ASSUME WriteRuns'
      PROVE  tape_reset' /\ ~Asked' /\ (tape_wr' \/ machine_reset')
  <2>1. ~ReadAnswers
    BY <1>5, Slot DEF ReadAnswers, ReadRuns, WriteRuns
  <2>2. CASE q = 0
    <3>1. tape_wr /\ tape_reset /\ ~tape_wr_ack
      BY <1>5, <2>2, Slot DEF WriteInv
    <3>2. tape_reset' /\ ~Asked'
      BY <2>1, <3>1, Player DEF Restart, TapeBusy
    <3>3. tape_wr' \/ machine_reset
      BY <3>1, Queue DEF QueueEmptied, QueueTook, QueueKept
    <3>4. machine_reset => machine_reset'
      BY <3>1, Strikes
    <3> QED BY <3>2, <3>3, <3>4
  <2>3. CASE q # 0
    <3>1. WriteRuns /\ q # 7 /\ tape_reset /\ ~tape_wr_ack /\ (tape_wr \/ machine_reset)
      BY <1>5, <2>3, Slot DEF WriteInv
    <3>2. tape_reset' /\ ~Asked'
      BY <2>1, <3>1, Player DEF Restart, TapeBusy
    <3>3. tape_wr' \/ machine_reset
      BY <3>1, Queue DEF QueueEmptied, QueueTook, QueueKept
    <3>4. machine_reset => machine_reset'
      BY <3>1, Strikes
    <3> QED BY <3>2, <3>3, <3>4
  <2> QED BY <2>2, <2>3
<1>6. machine_reset' /\ held' = 0 => ~tape_wr' /\ ~WriteRuns'
  <2> SUFFICES ASSUME machine_reset', held' = 0 PROVE ~tape_wr' /\ ~WriteRuns'
    OBVIOUS
  <2>1. machine_reset /\ (held = 0 \/ q = 7)
    BY Strikes DEF Struck
  <2>2. ~tape_wr'
    BY <2>1, Queue DEF QueueEmptied, QueueTook, QueueKept
  <2>3. ~WriteRuns'
    BY <2>1, Slot
  <2> QED BY <2>2, <2>3
<1> QED BY <1>1, <1>2, <1>3, <1>4, <1>5, <1>6 DEF Struck

(* The bytes of the tape on their way to SDRAM. *)
LEMMA WriteStep ==
    ASSUME TapeTypeOK, BusInv, RestartInv, WriteInv, TapeNext
    PROVE  WriteInv'
<1> USE DEF WriteInv
<1>1. client' # "cart" /\ (tape_wr_ack' <=> client' = "tape" /\ wr' /\ q' = 7)
  BY Acks, Slot
<1>2. whole' => whole /\ ~(machine_reset /\ (tape_download \/ tape_wr))
  <2>1. whole' = (whole /\ ~(machine_reset /\ (tape_download \/ tape_wr)))
    BY Clocks
  <2>2. whole' <=> (whole /\ ~(machine_reset /\ (tape_download \/ tape_wr)))
    BY <2>1, Zenon
  <2> QED BY <2>2
<1>3. ASSUME whole', tape_wr' PROVE tape_din' = File[pending_addr' + 1]
  BY <1>2, <1>3, Queue DEF QueueEmptied, QueueTook, QueueKept
<1>4. ASSUME whole', WriteRuns'
      PROVE  tape_wr' /\ tape_wr /\ UNCHANGED <<tape_din, pending_addr>>
  <2>1. tape_wr /\ ~tape_wr_ack
    BY <1>2, <1>4, Slot
  <2>2. QueueKept
    BY <1>2, <1>4, <2>1, Queue DEF QueueEmptied, QueueTook
  <2> QED BY <2>1, <2>2 DEF QueueKept
<1>5. mem' = IF q = 3 /\ client # "none" /\ wr
             THEN [mem EXCEPT ![a] = IF client = "main" THEN main.din ELSE data] ELSE mem
  <2>1. CASE q = 3
    <3>1. TapePorts.din = main.din /\ SdramClock(TapePorts)
      BY Clocks, TapePortsHold DEF MainPorts
    <3> QED BY <2>1, <3>1, Written DEF BusInv, TapeTypeOK
  <2>2. CASE q # 3
    BY <2>2, Clocks, Memory DEF Writing
  <2> QED BY <2>1, <2>2
<1>6. ASSUME whole', WriteRuns'
      PROVE  /\ a' = TapeCell(pending_addr') /\ data' = tape_din'
             /\ q' \in {6, 7} => mem'[a'] = data'
  <2>1. a' = TapeCell(pending_addr') /\ data' = tape_din'
    BY <1>2, <1>4, <1>6, Slot
  <2>2. ASSUME q' \in {6, 7} PROVE mem'[a'] = data'
    <3>1. q \in {3, 6} /\ WriteRuns /\ UNCHANGED <<client, wr, a, data>>
      BY <1>6, <2>2, Slot, Clocks, Edges
    <3>2. CASE q = 3
      BY <1>5, <3>1, <3>2 DEF WriteRuns, TapeTypeOK, ControllerTypeOK
    <3>3. CASE q = 6
      BY <1>2, <1>5, <1>6, <3>1, <3>3
    <3> QED BY <3>1, <3>2, <3>3
  <2> QED BY <2>1, <2>2
<1>7. TapeIsTheFile'
  <2> SUFFICES ASSUME whole', NEW n \in 0..(hps_pos' - 1)
               PROVE  (tape_wr' /\ pending_addr' = n /\ tape_din' = File[n + 1])
                         \/ mem'[TapeCell(n)] = File[n + 1]
    BY DEF TapeIsTheFile, Pending, TapeCell
  <2>0. n \in 0..(Len(File) - 1) /\ TapeCell(n) \in Cells /\ TapeCell(n) \notin MainCells
    BY Queue, Tape DEF TapeTypeOK
  <2>1. CASE n = hps_pos
    <3>1. hps_pos' # hps_pos
      BY <2>1, Queue DEF TapeTypeOK
    <3>2. QueueTook
      BY <1>2, <3>1, Queue DEF QueueEmptied, QueueKept
    <3> QED BY <2>1, <3>2 DEF QueueTook
  <2>2. CASE n \in 0..(hps_pos - 1)
    <3>1. (tape_wr /\ pending_addr = n /\ tape_din = File[n + 1]) \/ mem[TapeCell(n)] = File[n + 1]
      BY <1>2, <2>2 DEF TapeIsTheFile, Pending, TapeCell
    <3>2. mem[TapeCell(n)] = File[n + 1] => mem'[TapeCell(n)] = File[n + 1]
      <4>1. CASE q = 3 /\ client # "none" /\ wr
        <5>1. mem' = [mem EXCEPT ![a] = IF client = "main" THEN main.din ELSE data]
          BY <1>5, <4>1
        <5>2. CASE a = TapeCell(n)
          <6>1. client = "tape" /\ WriteRuns
            BY <2>0, <4>1, <5>2 DEF WriteRuns, BusInv, SlotsInv, TapeTypeOK, ControllerTypeOK
          <6>2. tape_wr /\ TapeCell(pending_addr) = TapeCell(n) /\ data = tape_din
            BY <1>2, <5>2, <6>1
          <6>3. pending_addr = n /\ tape_din = File[n + 1]
            BY <1>2, <6>2 DEF TapeCell
          <6> QED BY <2>0, <5>1, <5>2, <6>1, <6>2, <6>3 DEF TapeTypeOK, ControllerTypeOK
        <5>3. CASE a # TapeCell(n)
          BY <2>0, <5>1, <5>3 DEF TapeTypeOK, ControllerTypeOK
        <5> QED BY <5>2, <5>3
      <4>2. CASE ~(q = 3 /\ client # "none" /\ wr)
        BY <1>5, <4>2
      <4> QED BY <4>1, <4>2
    <3>3. ASSUME tape_wr, pending_addr = n, tape_din = File[n + 1], mem[TapeCell(n)] # File[n + 1]
          PROVE  tape_wr' /\ pending_addr' = n /\ tape_din' = File[n + 1]
      <4>1. ~tape_wr_ack
        <5> SUFFICES ASSUME tape_wr_ack PROVE FALSE
          OBVIOUS
        <5>1. WriteRuns /\ q = 7
          BY DEF WriteRuns
        <5> QED BY <1>2, <3>3, <5>1
      <4> QED BY <1>2, <3>3, <4>1, Queue DEF QueueEmptied, QueueTook, QueueKept
    <3> QED BY <3>1, <3>2, <3>3
  <2> QED BY <2>1, <2>2, Queue DEF TapeTypeOK
<1> QED BY <1>1, <1>3, <1>4, <1>6, <1>7

(* Stray reads: they end with the first write of a tape, and find byte 0 as long
   as there is none. *)
LEMMA StrayStep ==
    ASSUME TapeTypeOK, BusInv, RestartInv, WriteInv, StrayInv, OrderInv, TapeNext
    PROVE  StrayInv'
<1>1. ASSUME ~(old_tape_ack' <=> tape_rd_ack') PROVE q' = 0
  BY <1>1, Slot, Acks, Player DEF ReadAnswers
<1>2. ASSUME tape_queued_addr' = 0, ~Fresh'
      PROVE  tape_play_addr' = 0 /\ (ReadRuns' => a' = TapeCell(0))
  <2>1. CASE Fresh
    <3>1. q = 7 /\ Restart
      BY <1>2, <2>1, Strikes DEF Fresh, Restart
    <3> QED BY <3>1, Player, Slot
  <2>2. CASE ~Fresh /\ tape_queued_addr # 0
    <3>1. ~Struck
      BY <2>2 DEF Fresh, Struck, RestartInv, TapeTypeOK
    <3>2. QueueTook /\ hps_pos = 0
      BY <1>2, <2>2, <3>1, Queue DEF Struck, QueueEmptied, QueueTook, QueueKept
    <3> QED BY <2>2, <3>2 DEF RestartInv
  <2>3. CASE ~Fresh /\ tape_queued_addr = 0
    <3>1. tape_play_addr = 0 /\ (ReadRuns => a = TapeCell(0))
      BY <2>3 DEF StrayInv
    <3>2. tape_play_addr' = 0
      BY <2>3, <3>1, Player
    <3>3. ReadRuns' => a' = TapeCell(0)
      BY <2>3, <3>1, Slot
    <3> QED BY <3>2, <3>3
  <2> QED BY <2>1, <2>2, <2>3
<1>3. ASSUME tape_reset, ReadRuns' \/ Asked'
      PROVE  (ReadRuns \/ Asked) /\ (q = 0 => ~tape_wr /\ Asked)
  <2>1. Asked' => ReadAnswers
    BY <1>3, Player
  <2> QED BY <1>3, <2>1, Slot DEF ReadAnswers
<1>4. ASSUME tape_queued_addr' > 0, TapeBusy', ReadRuns' \/ Asked'
      PROVE  tape_wr' /\ ~WriteRuns'
  <2>1. (tape_download /\ hps_pos > 0) \/ tape_wr
    <3>1. CASE QueueTook
      <4>1. hps_pos > 0
        BY <1>4, <3>1 DEF QueueTook
      <4> QED BY <3>1, <4>1 DEF QueueTook
    <3>2. CASE QueueKept
      <4>1. tape_queued_addr > 0
        BY <1>4, <3>2 DEF QueueKept
      <4>2. hps_pos > 0 /\ hps_pos \in Nat
        BY <4>1 DEF RestartInv, TapeTypeOK
      <4>3. tape_download \/ tape_wr
        BY <1>4, <3>2, <4>2, Queue DEF QueueKept, TapeBusy
      <4> QED BY <4>2, <4>3
    <3>3. ~QueueEmptied
      BY <1>4 DEF QueueEmptied
    <3> QED BY <3>1, <3>2, <3>3, Queue
  <2>2. tape_reset
    BY <2>1 DEF RestartInv
  <2>3. (ReadRuns \/ Asked) /\ (q = 0 => ~tape_wr /\ Asked)
    BY <1>3, <1>4, <2>2
  <2>4. ~WriteRuns
    BY <2>3 DEF RestartInv, WriteRuns, ReadRuns
  <2>5. ~WriteRuns'
    BY <2>3, <2>4, Slot
  <2>6. ~tape_wr_ack
    BY <2>4 DEF WriteInv, WriteRuns
  <2>7. tape_wr'
    <3>1. CASE QueueKept
      <4>1. tape_queued_addr > 0 /\ TapeBusy
        BY <1>4, <2>1, <3>1 DEF QueueKept, TapeBusy
      <4>2. tape_wr
        BY <2>3, <4>1 DEF StrayInv
      <4> QED BY <2>6, <3>1, <4>2 DEF QueueKept
    <3> QED BY <1>4, <3>1, Queue DEF QueueEmptied, QueueTook
  <2> QED BY <2>5, <2>7
<1>5. ASSUME tape_queued_addr' > 0, ~TapeBusy', tape_reset'
      PROVE  /\ tape_play_addr' = 0 /\ (old_tape_ack' <=> tape_rd_ack')
             /\ ~ReadRuns' /\ ~Asked'
  <2>1. QueueKept /\ tape_queued_addr > 0 /\ ~Struck
    BY <1>5, Queue DEF QueueEmptied, QueueTook, QueueKept, TapeBusy, Struck
  <2>2. Restart /\ TapeBusy
    BY <1>5, <2>1, Player DEF Restart, Struck
  <2>3. hps_pos > 0 /\ tape_reset
    BY <2>1, <2>2 DEF RestartInv, TapeBusy, TapeTypeOK
  <2>4. ~ReadRuns /\ ~Asked
    <3> SUFFICES ASSUME ReadRuns \/ Asked PROVE FALSE
      OBVIOUS
    <3>1. tape_wr /\ ~WriteRuns
      BY <2>1, <2>2 DEF StrayInv
    <3>2. ~tape_wr_ack
      BY <3>1 DEF WriteInv, WriteRuns
    <3> QED BY <1>5, <2>1, <3>1, <3>2 DEF QueueKept, TapeBusy
  <2>5. ~ReadRuns' /\ ~Asked'
    BY <1>3, <2>3, <2>4
  <2>6. ~ReadAnswers
    BY <2>4 DEF ReadAnswers
  <2> QED BY <2>2, <2>5, <2>6, Acks, Player
<1>6. old_tape_ack' \in BOOLEAN /\ tape_rd_ack' \in BOOLEAN
  BY TapeType DEF TapeTypeOK, ControllerTypeOK
<1>7. (old_tape_ack' <=> tape_rd_ack') => old_tape_ack' = tape_rd_ack'
  BY <1>6
<1> QED BY <1>1, <1>2, <1>4, <1>5, <1>6, <1>7 DEF StrayInv

(* A tape that is there is read in order. *)
LEMMA OrderStep ==
    ASSUME TapeTypeOK, BusInv, RestartInv, WriteInv, StrayInv, OrderInv, TapeNext
    PROVE  OrderInv'
<1> SUFFICES ASSUME tape_queued_addr' > 0, ~TapeBusy', ~tape_reset'
             PROVE  OrderInv'
  BY DEF OrderInv
<1>1. ~Restart /\ tape_queued_addr' = tape_queued_addr
  <2>1. ~Restart
    BY Player
  <2>2. QueueKept
    BY <2>1, Queue DEF Restart, TapeBusy, QueueEmptied, QueueTook
  <2> QED BY <2>1, <2>2 DEF QueueKept, Restart
<1>2. tape_queued_addr > 0 /\ ~TapeBusy /\ tape_queued_addr \in Nat
  BY <1>1 DEF Restart, TapeTypeOK
<1>3. /\ old_tape_ack \in BOOLEAN /\ tape_rd_ack \in BOOLEAN /\ reads \in Nat
      /\ old_tape_ack' \in BOOLEAN /\ tape_rd_ack' \in BOOLEAN
  BY TapeType DEF TapeTypeOK, ControllerTypeOK
<1>4. old_tape_ack' = tape_rd_ack
  BY <1>3, Player
<1>5. tape_rd_ack' = tape_rd_ack <=> ~ReadAnswers
  BY <1>3, Acks
<1> DEFINE L(n) == IF n < tape_queued_addr THEN n ELSE tape_queued_addr
<1>6. \A n : Last(n) = L(n) /\ Last(n)' = L(n)
  BY <1>1 DEF Last
<1>7. CASE tape_reset
  <2>1. tape_play_addr = 0 /\ old_tape_ack = tape_rd_ack /\ ~ReadRuns /\ ~Asked
    BY <1>2, <1>7 DEF StrayInv
  <2>2. reads' = 0 /\ ~Asked' /\ tape_play_addr' = 0
    BY <1>1, <1>7, <2>1, Player DEF ReadAnswers
  <2>3. ~ReadRuns'
    BY <2>1, Slot
  <2>4. old_tape_ack' = tape_rd_ack'
    BY <1>4, <1>5, <2>1 DEF ReadAnswers
  <2> QED BY <1>1, <1>2, <2>2, <2>3, <2>4 DEF OrderInv, Last
<1>8. CASE ~tape_reset /\ Asked
  <2>1. reads > 0 /\ old_tape_ack = tape_rd_ack /\ tape_play_addr = L(reads - 1)
    BY <1>2, <1>6, <1>8 DEF OrderInv
  <2>2. reads' = reads /\ (Asked' <=> ~ReadAnswers) /\ tape_play_addr' = L(reads - 1)
    BY <1>1, <1>8, <2>1, Player
  <2>3. ReadRuns' => a' = TapeCell(L(reads - 1)) /\ ~ReadAnswers
    <3>1. ReadRuns => a = TapeCell(L(reads - 1))
      BY <1>2, <1>6, <1>8 DEF OrderInv
    <3> QED BY <1>2, <2>1, <3>1, Slot DEF ReadAnswers, TapeBusy
  <2>4. /\ Asked' => reads' > 0 /\ old_tape_ack' = tape_rd_ack' /\ tape_play_addr' = L(reads' - 1)
        /\ ReadRuns' => Asked' /\ a' = TapeCell(L(reads' - 1))
        /\ ~Asked' => old_tape_ack' # tape_rd_ack' /\ reads' > 0 /\ tape_play_addr' = L(reads' - 1)
    BY <1>4, <1>5, <2>1, <2>2, <2>3
  <2> QED BY <1>1, <2>4 DEF OrderInv, Last, TapeCell
<1>9. CASE ~tape_reset /\ ~Asked
  <2>1. ~ReadRuns
    BY <1>2, <1>9 DEF OrderInv
  <2>2. ~ReadRuns' /\ ~ReadAnswers
    BY <1>9, <2>1, Slot DEF ReadAnswers
  <2>3. tape_play_addr' = L(reads)
    <3>1. CASE old_tape_ack = tape_rd_ack
      BY <1>1, <1>2, <1>6, <1>9, <3>1, Player DEF OrderInv
    <3>2. CASE old_tape_ack # tape_rd_ack
      <4>1. reads > 0 /\ tape_play_addr = L(reads - 1)
        BY <1>2, <1>6, <1>9, <3>2 DEF OrderInv
      <4> QED BY <1>1, <1>2, <1>3, <3>2, <4>1, Player
    <3> QED BY <3>1, <3>2
  <2>4. old_tape_ack' = tape_rd_ack'
    BY <1>4, <1>5, <2>2
  <2>5. (Asked' /\ reads' = reads + 1) \/ (~Asked' /\ reads' = reads)
    BY <1>9, <2>2, Player
  <2> QED BY <1>1, <1>3, <2>2, <2>3, <2>4, <2>5 DEF OrderInv, Last
<1> QED BY <1>7, <1>8, <1>9

(* What is heard. *)
LEMMA HeardStep ==
    ASSUME TapeTypeOK, BusInv, TapeInv, TapeNext
    PROVE  PlaysInOrder'
<1> USE DEF TapeInv
<1> DEFINE Byte0 == TapeCell(IF reads' - 1 < tape_queued_addr' THEN reads' - 1
                             ELSE tape_queued_addr')
<1> SUFFICES ASSUME ~tape_reset', reads' > 0, ~Asked', ~Struck', ~TapeBusy'
             PROVE  tape_dout' = mem'[Byte0]
  BY DEF PlaysInOrder, Asked, Struck, TapeCell
<1>0. reads' - 1 \in Nat
  <2>1. PICK r : r = reads'
    OBVIOUS
  <2>2. r \in Nat /\ r > 0
    BY <2>1, TapeType DEF TapeTypeOK
  <2>3. r - 1 \in Nat
    BY <2>2
  <2> QED BY <2>1, <2>3
<1>1. ~Restart /\ ~tape_reset
  BY Player
<1>2. tape_queued_addr' = tape_queued_addr /\ ~Fresh /\ tape_queued_addr \in Nat
  <2>1. QueueKept
    BY <1>1, Queue DEF Restart, TapeBusy, QueueEmptied, QueueTook
  <2> QED BY <1>1, <2>1 DEF QueueKept, Restart, Fresh, TapeTypeOK
<1>3. mem'[Byte0] = mem[Byte0]
  <2>0. Byte0 \in Cells /\ Byte0 \notin MainCells
    <3>1. (IF reads' - 1 < tape_queued_addr' THEN reads' - 1 ELSE tape_queued_addr')
             \in 0..(Len(File) - 1)
      <4>1. reads' - 1 \in Nat /\ tape_queued_addr \in 0..(Len(File) - 1)
        BY <1>0 DEF TapeTypeOK
      <4> QED BY <1>2, <4>1, Tape
    <3> QED BY <3>1, Tape
  <2>1. ASSUME Writing PROVE a # Byte0
    <3>1. client \in {"main", "tape", "video"}
      BY <2>1 DEF Writing, WriteInv, TapeTypeOK, ControllerTypeOK
    <3>2. client # "tape"
      BY <1>1, <2>1 DEF Writing, RestartInv, WriteRuns
    <3> QED BY <2>0, <2>1, <3>1, <3>2 DEF Writing, BusInv, SlotsInv
  <2>2. mem' = mem \/ (Writing /\ \E v : mem' = [mem EXCEPT ![a] = v])
    BY Clocks, Memory
  <2> QED BY <2>0, <2>1, <2>2 DEF TapeTypeOK, ControllerTypeOK
<1>4. CASE ReadAnswers
  <2>1. tape_dout' = mem[a]
    BY <1>4, Acks
  <2>2. a = Byte0
    <3>1. CASE tape_queued_addr = 0
      <4>1. a = TapeCell(0)
        BY <1>2, <1>4, <3>1 DEF StrayInv, ReadAnswers
      <4>2. (IF reads' - 1 < 0 THEN reads' - 1 ELSE 0) = 0
        <5>1. ~(reads' - 1 < 0)
          BY <1>0
        <5> QED BY <5>1
      <4> QED BY <1>2, <3>1, <4>1, <4>2
    <3>2. CASE tape_queued_addr > 0
      <4>1. Asked /\ a = TapeCell(Last(reads - 1))
        BY <1>1, <1>4, <3>2 DEF OrderInv, ReadAnswers, Restart
      <4>2. reads' = reads
        BY <1>1, <4>1, Player
      <4> QED BY <1>2, <4>1, <4>2 DEF Last
    <3> QED BY <1>2, <3>1, <3>2
  <2> QED BY <1>3, <2>1, <2>2
<1>5. CASE ~ReadAnswers
  <2>1. ~Asked /\ reads' = reads /\ tape_dout' = tape_dout
    BY <1>1, <1>5, Player, Acks
  <2>2. tape_dout = mem[Byte0]
    BY <1>1, <1>2, <2>1 DEF PlaysInOrder, Asked, Restart, TapeCell
  <2> QED BY <1>3, <2>1, <2>2
<1> QED BY <1>4, <1>5

LEMMA Beginning == TapeInit => TapeIInv
<1> SUFFICES ASSUME TapeInit PROVE TapeIInv
  OBVIOUS
<1> USE DEF TapeInit, QueueInit
<1>1. ControllerTypeOK /\ MainTypeOK /\ BusInv
  BY BusInit
<1>2. TapeTypeOK
  <2>1. /\ tape_queued_addr = 0 /\ pending_addr = 0 /\ tape_play_addr = 0
        /\ hps_pos = 0 /\ tape_din \in Byte /\ held = 0 /\ hits = 0 /\ reads = 0
    BY Tape
  <2>2. 0 \in 0..(Len(File) - 1) /\ 0 \in 0..Len(File)
    BY Tape
  <2>3. /\ {tape_wr, tape_download, machine_reset, unload} \subseteq BOOLEAN
        /\ {tape_reset, old_tape_ack, tzx_req, whole} \subseteq BOOLEAN /\ ~tape_wr
    OBVIOUS
  <2> QED BY <1>1, <2>1, <2>2, <2>3 DEF TapeTypeOK
<1>3. /\ client = "none" /\ q = 0 /\ tape_rd_ack = FALSE /\ tape_wr_ack = FALSE
  BY DEF ControllerInit
<1>4. WriteInv /\ RestartInv
  BY <1>3 DEF WriteInv, RestartInv, WriteRuns, TapeIsTheFile
<1>5. StrayInv /\ OrderInv /\ PlaysInOrder
  BY <1>3 DEF StrayInv, OrderInv, PlaysInOrder, ReadRuns, Asked, Fresh, TapeBusy
<1> QED BY <1>1, <1>2, <1>4, <1>5 DEF TapeIInv, TapeInv

LEMMA TapeStep == TapeIInv /\ [TapeNext]_tapeVars => TapeIInv'
<1> SUFFICES ASSUME TapeIInv, [TapeNext]_tapeVars PROVE TapeIInv'
  OBVIOUS
<1> USE DEF TapeIInv, TapeInv
<1>1. CASE TapeNext
  BY <1>1, TapeType, TapeBusHolds, RestartStep, WriteStep, StrayStep, OrderStep, HeardStep
<1>2. CASE UNCHANGED tapeVars
  <2>1. UNCHANGED <<controllerVars, mainVars, queueVars, hpsVars, hitVars, playVars>>
        /\ UNCHANGED <<tzx_req, whole, reads>>
    BY <1>2 DEF tapeVars
  <2> USE <2>1 DEF controllerVars, slotVars, refreshVars, outVars, mainVars, queueVars, hpsVars,
        hitVars, playVars
  <2>2. TapeTypeOK'
    BY DEF TapeTypeOK, ControllerTypeOK, MainTypeOK
  <2>3. BusInv'
    BY DEF BusInv, ChipInv, Early, SlotsInv, Live, GrantsInv, CoherentInv, Coherent, WordData, Word,
       MainInv, MainServed
  <2>4. WriteInv' /\ RestartInv' /\ StrayInv'
    BY DEF WriteInv, RestartInv, StrayInv, WriteRuns, ReadRuns, Asked, Fresh, TapeBusy,
       TapeIsTheFile, Pending
  <2>5. OrderInv' /\ PlaysInOrder'
    BY DEF OrderInv, PlaysInOrder, ReadRuns, Asked, TapeBusy, Last
  <2> QED BY <2>2, <2>3, <2>4, <2>5
<1> QED BY <1>1, <1>2

-----------------------------------------------------------------------------
(* The types hold, and with them the state of the bus and of the tape that the
   theorems below rest on. *)
THEOREM TapeInvariantHolds == TapeSpec => []TapeIInv
<1> QED BY Beginning, TapeStep, PTL DEF TapeSpec

(* Every byte the HPS sent is in SDRAM at its position or held for it, whatever
   the CPU does meanwhile and also by an unload in mid-download. *)
THEOREM TapeArrives == TapeSpec => []TapeIsTheFile
<1>1. TapeIInv => TapeIsTheFile
  BY DEF TapeIInv, TapeInv, WriteInv
<1> QED BY <1>1, TapeInvariantHolds, PTL

(* The player hears the tape from its beginning, byte after byte, and nothing of
   what was in flight before a reset, an unload or a download. *)
THEOREM TapeIsHeard == TapeSpec => []PlaysInOrder
<1>1. TapeIInv => PlaysInOrder
  BY DEF TapeIInv, TapeInv
<1> QED BY <1>1, TapeInvariantHolds, PTL

(* The CPU's reads and writes are served in their slot beside the tape too. *)
THEOREM MainIsServedBesideTape == TapeSpec => []MainServed
<1>1. TapeIInv => MainServed
  BY DEF TapeIInv, BusInv, MainInv
<1> QED BY <1>1, TapeInvariantHolds, PTL
=============================================================================
