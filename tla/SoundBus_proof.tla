--------------------------- MODULE SoundBus_proof ---------------------------
(***************************************************************************)
(* Theorems about SoundBus, for every list of LOADs, any registers and     *)
(* bytes, and any number of accesses of the CPU.                           *)
(*                                                                         *)
(* The invariant follows a LOAD through its eight steps: what the DMA      *)
(* holds on the bus (LoadInv), what the chip has latched of it (ChipInv),  *)
(* and what becomes of an access that comes meanwhile: one that had begun  *)
(* has been made, one that begins is Pending, and want is the chip as it   *)
(* will be after it (WantInv).                                             *)
(***************************************************************************)
EXTENDS SoundBus, TLAPS

Words == 0..(RamWords - 1)
Loads == {List[n] : n \in Words}
Registry == [sar : Words, pause : {0}, presc : {0}, loop : {0}, loop_addr : {0}]
PinSet == [bdir : BOOLEAN, bc : BOOLEAN]
Selects == Pins(TRUE, TRUE)
Stores == Pins(TRUE, FALSE)
Shows == Pins(FALSE, TRUE)
CpuData == CpuBytes \cup {Floating}

Loading == at = "EXEC" /\ step \in 2..8
Now == instr[ch]

(* The sequencer: its channel is one of the line's, and an instruction that is
   executed has been fetched. *)
EngineInv ==
    /\ at \in {"IDLE", "DEAD", "FETCH", "EXEC", "DONE"}
    /\ step \in 1..8 /\ since \in {0, 2} /\ hsync_d \in BOOLEAN
    /\ active_ch \subseteq Channels
    /\ (at = "FETCH" \/ at = "EXEC") => ch \in active_ch
    /\ ram_addr \in Words /\ chan \in [Channels -> Registry]
    /\ instr = [c \in Channels |-> instr[c]]
    /\ at = "FETCH" => \A c \in active_ch : c < ch => instr[c] \in Loads
    /\ at = "EXEC" => \A c \in active_ch : instr[c] \in Loads

(* The steps of a LOAD and what they put on the bus. *)
LoadInv ==
    /\ {dma_load_busy, dma_load_owner, psg_active, load_extension} \subseteq BOOLEAN
    /\ load_extra \in 0..2
    /\ dma_load_busy <=> Loading
    /\ psg_active <=> Loading /\ ~load_extension
    /\ dma_load_owner <=> psg_active
    /\ (Loading /\ load_extension) => step = 8
    /\ (psg_active /\ step = 2) => psg_bus = "select" /\ psg_dout = Now.reg
    /\ (psg_active /\ step \in {3, 5, 7, 8}) => psg_bus = "idle"
    /\ (psg_active /\ step = 4) => psg_bus = "write" /\ psg_dout = Now.data
    /\ (psg_active /\ step = 6) => psg_bus = "select" /\ psg_dout = cpu_psg_addr

(* The ghosts that count cycles. *)
TimeInv ==
    /\ load.cycles \in Nat /\ load.worst \in 0..2
    /\ (Loading /\ ~load_extension) => load.cycles = step - 1 /\ load.worst = load_extra
    /\ (Loading /\ load_extension) =>
         \/ load_extra = 0 /\ load.cycles = 9 /\ load.worst = 2
         \/ load_extra # 0 /\ load.cycles = 8 /\ load.worst = load_extra
    /\ waited \in 0..7
    /\ psg_active => waited <= step - 2

(* An access that waits for the bus. *)
Pending == Access(io) /\ ~cpu_ppi_started

PortInv ==
    /\ portA \in CpuBytes /\ portC \in PinSet /\ inputA \in BOOLEAN
    /\ io = Idle \/ io \in Operations
    /\ {old_we, cpu_ppi_started, cpu_ppi_stolen} \subseteq BOOLEAN
    /\ cpu_ppi_started => Access(io)
    /\ cpu_ppi_stolen => cpu_ppi_started
    /\ old_we <=> Writes(io) /\ cpu_ppi_started
    /\ Pending => psg_active \/ since = 0
    /\ cpu_psg_addr \in CpuData

(* The register the chip has selected, the byte the LOAD has written, and the
   CPU's pins, which the chip has obeyed unless an access has just moved them. *)
Foreign ==
    psg_active /\ ((step = 2 /\ since = 2) \/ step \in 3..5 \/ (step = 6 /\ since = 0))
Landed == psg_active /\ ((step = 4 /\ since = 2) \/ step \in 5..8)
Obeyed ==
    /\ portC = Selects => cpu_psg_addr = portAout
    /\ (portC = Stores /\ cpu_psg_addr \in Registers) => psg_reg[cpu_psg_addr] = portAout
ChipInv ==
    /\ psg_reg = [r \in Registers |-> psg_reg[r]]
    /\ Foreign => psg_addr = Now.reg
    /\ ~Foreign => psg_addr = cpu_psg_addr \/ (psg_active /\ step = 2)
    /\ Landed => psg_reg[Now.reg] = Now.data
    /\ (io = Idle \/ Pending \/ psg_active) => Obeyed

(* The port and the chip once the next edge has passed; the byte on the port
   after an access. *)
NextAddr == IF portC = Selects THEN portAout ELSE cpu_psg_addr
NextReg(r) == IF portC = Stores /\ r = cpu_psg_addr THEN portAout ELSE psg_reg[r]
DataAfter(a) ==
    IF (IF a.kind = "mode" THEN a.to ELSE inputA) THEN Floating
    ELSE IF a.kind = "A" THEN a.v ELSE portA
WantInv ==
    /\ want = [addr |-> want.addr, reg |-> want.reg]
    /\ want.reg = [r \in Registers |-> want.reg[r]]
    /\ want.addr = IF Pending /\ PinsAfter(io) = Selects THEN DataAfter(io) ELSE NextAddr
    /\ \A r \in Registers :
          (Landed /\ r = Now.reg)
          \/ want.reg[r] = IF Pending /\ PinsAfter(io) = Stores /\ r = NextAddr
                           THEN DataAfter(io) ELSE NextReg(r)

(* A read that has begun has its byte. *)
ReadValue ==
    IF ~inputA THEN portA
    ELSE IF portC = Shows /\ want.addr \in Registers THEN want.reg[want.addr] ELSE Floating
ReadInv == (io = ReadA /\ cpu_ppi_started) => cpu_ppi_read_latch = ReadValue

IInv == EngineInv /\ LoadInv /\ TimeInv /\ PortInv /\ ChipInv /\ WantInv /\ ReadInv

USE BusAssumption

-----------------------------------------------------------------------------
(* The engine, edge by edge. *)

(* The least of some channels is one of them. *)
LEMMA Least ==
    ASSUME NEW S \in SUBSET Channels, S # {}
    PROVE  Engine!Min(S) \in S /\ \A c \in S : Engine!Min(S) <= c
<1>1. S \subseteq 0..2
  OBVIOUS
<1>2. \E m \in S : \A c \in S : m <= c
  <2>1. CASE 0 \in S
    BY <1>1, <2>1
  <2>2. CASE 0 \notin S /\ 1 \in S
    BY <1>1, <2>2
  <2>3. CASE 0 \notin S /\ 1 \notin S
    <3>1. \A c \in S : c = 2
      BY <1>1, <2>3
    <3>2. PICK c \in S : TRUE
      OBVIOUS
    <3> QED BY <3>1, <3>2
  <2> QED BY <2>1, <2>2, <2>3
<1> QED BY <1>2 DEF Engine!Min

(* What an edge samples. *)
LEMMA Sampled ==
    ASSUME NEW tick \in BOOLEAN, NEW hs \in BOOLEAN
    PROVE  /\ ~In(tick, hs).reset /\ ~In(tick, hs).sna_load
           /\ In(tick, hs).hsync <=> hs
           /\ In(tick, hs).cclk <=> tick
           /\ In(tick, hs).ppi_access <=> Access(io')
           /\ In(tick, hs).psg_write <=> PsgWrite(io')
           /\ In(tick, hs).sar_wr = {} /\ In(tick, hs).ppr_wr = {}
           /\ In(tick, hs).psg_addr = cpu_psg_addr
           /\ In(tick, hs).ram_data = List[ram_addr]
  BY DEF In

(* No CPU write reaches the registers of a channel. *)
LEMMA ChannelsKept ==
    ASSUME EngineInv, NEW tick \in BOOLEAN, NEW hs \in BOOLEAN
    PROVE  Engine!Written(In(tick, hs)) = chan
<1> DEFINE in == In(tick, hs)
<1>1. in.sar_wr = {} /\ in.ppr_wr = {}
  BY Sampled
<1> HIDE DEF in
<1>2. \A c \in Channels :
         [chan[c] EXCEPT !.sar = Engine!Sar(in, c),
            !.presc = IF c \in in.ppr_wr /\ c \in in.ena /\ chan[c].pause > 0 THEN 0 ELSE @]
         = chan[c]
  BY <1>1 DEF EngineInv, Registry, Engine!Sar
<1>3. Engine!Written(in) = [c \in Channels |-> chan[c]]
  BY <1>2 DEF Engine!Written
<1>4. chan = [c \in Channels |-> chan[c]]
  BY DEF EngineInv
<1> QED BY <1>3, <1>4 DEF in

(* The words of the lists. *)
LEMMA LoadWords ==
    ASSUME NEW w \in Loads
    PROVE  w.op = {} /\ w.reg \in Registers /\ w.reg \notin CpuData
<1>1. PICK n \in Words : w = List[n]
  BY DEF Loads
<1> QED BY <1>1 DEF Words, CpuData

LoadKept == UNCHANGED <<dma_load_owner, dma_load_busy, load_extra, load_extension,
                        psg_active, psg_bus, psg_dout>>
Unmoved == UNCHANGED <<at, ch, step, active_ch, instr, ram_addr, chan, hsync_d>> /\ LoadKept
Lines ==
    /\ at' = "DEAD" /\ active_ch' \subseteq Channels /\ hsync_d' = TRUE
    /\ UNCHANGED <<ch, step, instr, ram_addr, chan>> /\ LoadKept

(* Between two enables nothing moves. *)
LEMMA EdgeKept ==
    ASSUME EngineInv, Engine!DmaClock(In(FALSE, hsync_d))
    PROVE  Unmoved
<1> DEFINE in == In(FALSE, hsync_d)
<1>0. hsync_d \in BOOLEAN
  BY DEF EngineInv
<1>1. /\ ~in.reset /\ ~in.sna_load /\ ~in.cclk /\ (in.hsync <=> hsync_d)
      /\ in.hsync = hsync_d
      /\ Engine!Written(in) = chan
  BY <1>0, Sampled, ChannelsKept DEF In
<1>2. Engine!DmaClock(in)
  OBVIOUS
<1> HIDE DEF in
<1>3. Engine!Between(in)
  BY <1>1, <1>2, Zenon DEF Engine!DmaClock, Engine!DmaReset, Engine!SnaLoad, Engine!LineStart, Engine!Rises,
     Engine!Resting, Engine!Dead, Engine!Fetch, Engine!Operate, Engine!LoadBegins, Engine!LoadSteps,
     Engine!LoadFrees, Engine!LoadExtends, Engine!Cycle
<1> QED BY <1>1, <1>3 DEF Engine!Between, Engine!Running, Unmoved, LoadKept, Engine!lineVars,
     Engine!loadVars, Engine!psgVars

(* HSYNC starts a line. *)
LEMMA EdgeLine ==
    ASSUME EngineInv, ~hsync_d, Engine!DmaClock(In(FALSE, TRUE))
    PROVE  Lines
<1> DEFINE in == In(FALSE, TRUE)
<1>1. /\ ~in.reset /\ ~in.sna_load /\ in.hsync = TRUE /\ in.ena = Channels
      /\ in.sar_wr = {} /\ in.ppr_wr = {}
  BY DEF In
<1>2. Engine!DmaClock(in)
  OBVIOUS
<1> HIDE DEF in
<1>3. Engine!LineStart(in)
  BY <1>1, <1>2, Zenon DEF Engine!DmaClock, Engine!DmaReset, Engine!SnaLoad, Engine!Between, Engine!Rises,
     Engine!Resting, Engine!Dead, Engine!Fetch, Engine!Operate, Engine!LoadBegins, Engine!LoadSteps,
     Engine!LoadFrees, Engine!LoadExtends, Engine!Cycle
<1>4. \A c \in Channels : Engine!Paused(in, c) = chan[c]
  BY <1>1 DEF Engine!Paused, Engine!Sar, EngineInv, Registry
<1>5. chan' = [c \in Channels |-> chan[c]]
  BY <1>3, <1>4 DEF Engine!LineStart
<1>6. chan' = chan
  BY <1>5 DEF EngineInv
<1>7. active_ch' \subseteq Channels
  BY <1>1, <1>3 DEF Engine!LineStart
<1> QED BY <1>1, <1>3, <1>6, <1>7 DEF Engine!LineStart, Engine!Running, Lines, LoadKept,
     Engine!loadVars, Engine!psgVars

-----------------------------------------------------------------------------
(* The cycles of a line, as the next cycle sees them.  A line goes on with the
   next fetch, with the next instruction, or rests. *)
Goes == \/ at' = "DONE" /\ UNCHANGED <<ch, step>>
        \/ at' = "EXEC" /\ ch' \in active_ch /\ step' = 1

Idles ==
    /\ at \in {"IDLE", "DONE"} /\ at' = "IDLE"
    /\ dma_load_owner' = FALSE /\ dma_load_busy' = FALSE
    /\ psg_active' = FALSE /\ psg_bus' = "idle"
    /\ UNCHANGED <<psg_dout, load_extra, load_extension, ch, step, active_ch, instr, ram_addr, chan>>
Opens ==
    /\ at = "DEAD" /\ LoadKept /\ UNCHANGED <<active_ch, instr, chan, step>>
    /\ \/ at' = "IDLE" /\ UNCHANGED <<ch, ram_addr>>
       \/ /\ at' = "FETCH" /\ ch' \in active_ch /\ \A c \in active_ch : ch' <= c
          /\ ram_addr' = chan[ch'].sar
Fetched ==
    /\ at = "FETCH" /\ LoadKept /\ UNCHANGED active_ch
    /\ instr' = [instr EXCEPT ![ch] = List[ram_addr]]
    /\ chan' = [chan EXCEPT ![ch].sar = Engine!Bump(chan[ch].sar)]
    /\ \/ /\ at' = "FETCH" /\ ch' \in active_ch /\ UNCHANGED step
          /\ \A c \in active_ch : c < ch' => c <= ch
          /\ ram_addr' = chan[ch'].sar
       \/ UNCHANGED ram_addr /\ (\A c \in active_ch : c <= ch) /\ Goes
Takes ==
    /\ at = "EXEC" /\ step = 1 /\ step' = 2
    /\ dma_load_owner' = TRUE /\ dma_load_busy' = TRUE /\ psg_active' = TRUE
    /\ load_extra' = Clash /\ load_extension' = FALSE
    /\ psg_bus' = "select" /\ psg_dout' = Now.reg
    /\ UNCHANGED <<at, ch, active_ch, instr, ram_addr, chan>>
(* The strongest collision of the LOAD so far. *)
Worse == IF Clash > load_extra THEN Clash ELSE load_extra
Steps ==
    /\ at = "EXEC" /\ step \in 2..7 /\ step' = step + 1
    /\ step = 3 => psg_bus' = "write" /\ psg_dout' = Now.data
    /\ step = 5 => psg_bus' = "select" /\ psg_dout' = cpu_psg_addr
    /\ step \notin {3, 5} => psg_bus' = "idle"
    /\ load_extra' = Worse
    /\ UNCHANGED <<at, ch, active_ch, instr, ram_addr, chan, dma_load_owner, dma_load_busy,
                   load_extension, psg_active>>
Frees ==
    /\ at = "EXEC" /\ step = 8 /\ ~load_extension
    /\ dma_load_owner' = FALSE /\ psg_active' = FALSE /\ psg_bus' = "idle"
    /\ load_extension' = TRUE /\ load_extra' = Worse
    /\ \/ Worse = 0 /\ dma_load_busy' = FALSE /\ Goes
       \/ Worse # 0 /\ UNCHANGED <<dma_load_busy, at, ch, step>>
    /\ UNCHANGED <<active_ch, instr, ram_addr, chan, psg_dout>>
Extends ==
    /\ at = "EXEC" /\ step = 8 /\ load_extension /\ load_extra' = 0
    /\ \/ load_extra # 0 /\ Worse = 2 /\ UNCHANGED <<dma_load_busy, at, ch, step>>
       \/ (load_extra = 0 \/ Worse # 2)
          /\ dma_load_busy' = FALSE /\ Goes
    /\ UNCHANGED <<active_ch, instr, ram_addr, chan, dma_load_owner, load_extension,
                   psg_active, psg_bus, psg_dout>>

LEMMA GoesOn ==
    ASSUME EngineInv, NEW S \in SUBSET active_ch, Engine!Execute(S)
    PROVE  Goes
<1>1. S \in SUBSET Channels
  BY DEF EngineInv
<1>2. S # {} => Engine!Min(S) \in active_ch
  BY <1>1, Least
<1> QED BY <1>2 DEF Engine!Execute, Goes

LEMMA EdgeTick ==
    ASSUME EngineInv, LoadInv, io' = io, Engine!DmaClock(In(TRUE, FALSE))
    PROVE  /\ hsync_d' = FALSE
           /\ Idles \/ Opens \/ Fetched \/ Takes \/ Steps \/ Frees \/ Extends
<1> DEFINE in == In(TRUE, FALSE)
<1>1. /\ ~in.reset /\ ~in.sna_load /\ in.cclk /\ in.hsync = FALSE
      /\ in.psg_addr = cpu_psg_addr /\ in.ram_data = List[ram_addr]
      /\ Engine!Written(in) = chan
  BY Sampled, ChannelsKept DEF In
<1>2. Engine!DmaClock(in)
  OBVIOUS
<1>3. /\ in.ppi_access <=> Access(io)
      /\ in.psg_write <=> PsgWrite(io)
  BY Sampled
<1> HIDE DEF in
<1>4. \/ Engine!Resting(in) \/ Engine!Dead(in) \/ Engine!Fetch(in) \/ Engine!Operate(in)
      \/ Engine!LoadBegins(in) \/ Engine!LoadSteps(in) \/ Engine!LoadFrees(in)
      \/ Engine!LoadExtends(in)
  BY <1>1, <1>2, Zenon DEF Engine!DmaClock, Engine!DmaReset, Engine!SnaLoad, Engine!LineStart,
     Engine!Rises, Engine!Between
<1>5. hsync_d' = FALSE
  <2>1. Engine!Running(in)
    BY <1>4, Zenon DEF Engine!Resting, Engine!Dead, Engine!Fetch, Engine!Operate, Engine!LoadBegins,
       Engine!LoadSteps, Engine!LoadFrees, Engine!LoadExtends, Engine!Cycle
  <2> QED BY <1>1, <2>1 DEF Engine!Running
<1>6. at = "EXEC" => Now.op = {}
  <2>1. at = "EXEC" => Now \in Loads
    BY DEF EngineInv, Now
  <2> QED BY <2>1, LoadWords
<1>7. PsgWrite(io) => Access(io)
  BY DEF PsgWrite, Access
<1>8. Clash \in 0..2 /\ load_extra \in 0..2
      /\ (Clash = 2 <=> PsgWrite(io)) /\ (Clash # 0 <=> Access(io))
  BY <1>7 DEF Clash, LoadInv
<1>9. Engine!Collision(in) = Worse
  BY <1>3, <1>8 DEF Engine!Collision, Worse
<1>10. Engine!Tenth(in) <=> load_extra # 0 /\ Worse = 2
  BY <1>3, <1>8 DEF Engine!Tenth, Worse
<1>11. /\ Engine!After(ch) \in SUBSET active_ch /\ active_ch \in SUBSET active_ch
       /\ active_ch \in SUBSET Channels
  BY DEF Engine!After, EngineInv
<1>12. CASE Engine!Resting(in)
  BY <1>1, <1>5, <1>12 DEF Engine!Resting, Engine!BusAtRest, Engine!lineVars, Idles
<1>13. CASE Engine!Dead(in)
  <2>1. active_ch # {} => Engine!Min(active_ch) \in active_ch /\ \A c \in active_ch : Engine!Min(active_ch) <= c
    BY <1>11, Least
  <2>2. /\ at = "DEAD" /\ LoadKept /\ UNCHANGED <<active_ch, instr, chan>>
    BY <1>1, <1>13 DEF Engine!Dead, Engine!loadVars, Engine!psgVars, LoadKept
  <2>3. CASE active_ch = {}
    BY <1>5, <1>13, <2>2, <2>3 DEF Engine!Dead, Opens
  <2>4. CASE active_ch # {}
    <3>1. at' = "FETCH" /\ ch' = Engine!Min(active_ch) /\ ram_addr' = chan[Engine!Min(active_ch)].sar /\ UNCHANGED step
      BY <1>13, <2>4 DEF Engine!Dead, Engine!Request
    <3> QED BY <1>5, <2>1, <2>2, <2>4, <3>1 DEF Opens
  <2> QED BY <2>3, <2>4
<1>14. CASE Engine!Fetch(in)
  <2>1. /\ at = "FETCH" /\ LoadKept /\ UNCHANGED active_ch
        /\ instr' = [instr EXCEPT ![ch] = List[ram_addr]]
        /\ chan' = [chan EXCEPT ![ch].sar = Engine!Bump(chan[ch].sar)]
    BY <1>1, <1>14 DEF Engine!Fetch, Engine!loadVars, Engine!psgVars, LoadKept
  <2>2. ch \in 0..2 /\ \A c \in active_ch : c \in 0..2
    BY <1>11, <2>1 DEF EngineInv
  <2>3. CASE Engine!After(ch) # {}
    <3>1. /\ Engine!Min(Engine!After(ch)) \in Engine!After(ch)
          /\ \A c \in Engine!After(ch) : Engine!Min(Engine!After(ch)) <= c
      BY <1>11, <2>3, Least
    <3>0. /\ at' = "FETCH" /\ ch' = Engine!Min(Engine!After(ch)) /\ UNCHANGED step
          /\ ram_addr' = chan[Engine!Min(Engine!After(ch))].sar
      BY <1>14, <2>3 DEF Engine!Fetch, Engine!Request
    <3>2. /\ at' = "FETCH" /\ ch' = Engine!Min(Engine!After(ch)) /\ UNCHANGED step
          /\ ram_addr' = chan[ch'].sar
      BY <3>0
    <3>3. ch' \in active_ch /\ \A c \in active_ch : c < ch' => c <= ch
      BY <2>2, <3>1, <3>2 DEF Engine!After
    <3> QED BY <1>5, <2>1, <3>2, <3>3 DEF Fetched
  <2>4. CASE Engine!After(ch) = {}
    <3>1. Engine!Execute(active_ch) /\ UNCHANGED ram_addr
      BY <1>14, <2>4 DEF Engine!Fetch
    <3>2. \A c \in active_ch : c <= ch
      BY <2>2, <2>4 DEF Engine!After
    <3> QED BY <1>5, <1>11, <2>1, <3>1, <3>2, GoesOn DEF Fetched
  <2> QED BY <2>3, <2>4
<1>15. ~Engine!Operate(in)
  BY <1>6 DEF Engine!Operate, Engine!Word, Now
<1>16. CASE Engine!LoadBegins(in)
  <2>1. (IF in.psg_write THEN 2 ELSE IF in.ppi_access THEN 1 ELSE 0) = Clash
    BY <1>3 DEF Clash
  <2> QED BY <1>1, <1>5, <1>16, <2>1 DEF Engine!LoadBegins, Engine!Word, Engine!lineVars, Now, Takes
<1>17. CASE Engine!LoadSteps(in)
  <2>1. /\ step = 3 => psg_bus' = "write" /\ psg_dout' = Now.data
        /\ step = 5 => psg_bus' = "select" /\ psg_dout' = cpu_psg_addr
        /\ step \notin {3, 5} => psg_bus' = "idle"
    <3>1. Engine!BusAt(in)
      BY <1>17 DEF Engine!LoadSteps
    <3>2. CASE step = 3
      BY <3>1, <3>2 DEF Engine!BusAt, Engine!Word, Now
    <3>3. CASE step = 5
      BY <1>1, <3>1, <3>3 DEF Engine!BusAt
    <3>4. CASE step \notin {3, 5}
      BY <3>1, <3>4 DEF Engine!BusAt
    <3> QED BY <3>2, <3>3, <3>4
  <2> QED BY <1>1, <1>5, <1>9, <1>17, <2>1 DEF Engine!LoadSteps, Engine!lineVars, Steps
<1>18. CASE Engine!LoadFrees(in)
  <2>1. (~in.ppi_access /\ load_extra = 0) <=> Worse = 0
    BY <1>3, <1>8 DEF Worse
  <2>2. (IF ~in.ppi_access /\ load_extra = 0
         THEN dma_load_busy' = FALSE /\ Engine!Execute(Engine!After(ch))
         ELSE UNCHANGED <<dma_load_busy, at, ch, step>>)
    BY <1>18 DEF Engine!LoadFrees
  <2>3. \/ Worse = 0 /\ dma_load_busy' = FALSE /\ Goes
        \/ Worse # 0 /\ UNCHANGED <<dma_load_busy, at, ch, step>>
    <3>1. CASE Worse = 0
      BY <1>11, <2>1, <2>2, <3>1, GoesOn, Zenon
    <3>2. CASE Worse # 0
      BY <2>1, <2>2, <3>2, Zenon
    <3> QED BY <3>1, <3>2
  <2> QED BY <1>1, <1>5, <1>9, <1>18, <2>3 DEF Engine!LoadFrees, Engine!lineVars, Frees
<1>19. CASE Engine!LoadExtends(in)
  <2>1. (IF Engine!Tenth(in) THEN UNCHANGED <<dma_load_busy, at, ch, step>>
         ELSE dma_load_busy' = FALSE /\ Engine!Execute(Engine!After(ch)))
    BY <1>19 DEF Engine!LoadExtends
  <2>2. \/ load_extra # 0 /\ Worse = 2 /\ UNCHANGED <<dma_load_busy, at, ch, step>>
        \/ (load_extra = 0 \/ Worse # 2) /\ dma_load_busy' = FALSE /\ Goes
    <3>1. CASE Engine!Tenth(in)
      BY <1>10, <2>1, <3>1, Zenon
    <3>2. CASE ~Engine!Tenth(in)
      BY <1>10, <1>11, <2>1, <3>2, GoesOn, Zenon
    <3> QED BY <3>1, <3>2
  <2> QED BY <1>1, <1>5, <1>19, <2>2 DEF Engine!LoadExtends, Engine!lineVars, Engine!psgVars, Extends
<1> QED BY <1>4, <1>12, <1>13, <1>14, <1>15, <1>16, <1>17, <1>18, <1>19

Cycles == Idles \/ Opens \/ Fetched \/ Takes \/ Steps \/ Frees \/ Extends

(* What each action does to the engine. *)
LEMMA Clocks ==
    ASSUME EngineInv, LoadInv, Next
    PROVE  /\ BusClock(io', dma)
           /\ \/ Tick /\ io' = io /\ hsync_d' = FALSE /\ Cycles
              \/ NewLine /\ io' = io /\ Lines
              \/ (Settle \/ CpuStarts \/ CpuEnds) /\ Unmoved
<1>1. CASE Tick
  <2>1. io' = io /\ Engine!DmaClock(In(TRUE, FALSE)) /\ BusClock(io', dma)
    BY <1>1 DEF Tick, Edge
  <2> QED BY <1>1, <2>1, EdgeTick DEF Cycles
<1>2. CASE NewLine
  <2>1. /\ io' = io /\ Engine!DmaClock(In(FALSE, TRUE)) /\ BusClock(io', dma)
        /\ ~hsync_d
    BY <1>2 DEF NewLine, Edge
  <2> QED BY <1>2, <2>1, EdgeLine
<1>3. CASE Settle \/ CpuStarts \/ CpuEnds
  <2>1. Engine!DmaClock(In(FALSE, hsync_d)) /\ BusClock(io', dma)
    BY <1>3 DEF Settle, CpuStarts, CpuEnds, Edge
  <2> QED BY <1>3, <2>1, EdgeKept
<1> QED BY <1>1, <1>2, <1>3 DEF Next

(* A fetch leaves an address in the list. *)
LEMMA Bumped ==
    ASSUME NEW n \in Words
    PROVE  Engine!Bump(n) \in Words
<1>1. RamWords \in Nat /\ RamWords > 0 /\ n \in Nat
  BY DEF Words
<1> QED BY <1>1 DEF Engine!Bump, Words

LEMMA EngineStep ==
    ASSUME EngineInv, LoadInv, Next
    PROVE  EngineInv'
<1> USE DEF EngineInv
<1>1. since' \in {0, 2}
  BY DEF Next, Tick, Settle, NewLine, CpuStarts, CpuEnds
<1>2. CASE Unmoved
  BY <1>1, <1>2 DEF Unmoved
<1>3. CASE Lines
  BY <1>1, <1>3 DEF Lines
<1>4. CASE hsync_d' = FALSE /\ Cycles
  <2>0. \A c \in active_ch : chan[c] \in Registry /\ chan[c].sar \in Words /\ c \in 0..2
    BY DEF Registry
  <2>1. CASE Idles
    BY <1>1, <1>4, <2>1 DEF Idles
  <2>2. CASE Opens
    <3>1. CASE at' = "IDLE"
      BY <1>1, <1>4, <2>2, <3>1 DEF Opens
    <3>2. CASE at' # "IDLE"
      <4>1. at' = "FETCH" /\ ch' \in active_ch /\ (\A c \in active_ch : ch' <= c)
            /\ ram_addr' = chan[ch'].sar
        BY <2>2, <3>2 DEF Opens
      <4>2. ram_addr' \in Words /\ \A c \in active_ch : ~(c < ch')
        BY <2>0, <4>1
      <4> QED BY <1>1, <1>4, <2>2, <4>1, <4>2 DEF Opens
    <3> QED BY <3>1, <3>2
  <2>3. CASE Fetched
    <3>1. ch \in active_ch /\ ch \in Channels /\ at = "FETCH" /\ ch \in 0..2
      BY <2>0, <2>3 DEF Fetched
    <3>2. chan' \in [Channels -> Registry]
      <4>1. PICK s : s = Engine!Bump(chan[ch].sar)
        OBVIOUS
      <4>2. s \in Words
        BY <2>0, <3>1, <4>1, Bumped
      <4>3. [chan[ch] EXCEPT !.sar = s] \in Registry
        BY <3>1, <4>2 DEF Registry
      <4>4. chan' = [chan EXCEPT ![ch] = [chan[ch] EXCEPT !.sar = s]]
        BY <2>3, <4>1 DEF Fetched
      <4> QED BY <3>1, <4>3, <4>4
    <3>3. /\ instr' = [c \in Channels |-> instr'[c]]
          /\ instr'[ch] \in Loads
          /\ \A c \in active_ch : c # ch => instr'[c] = instr[c]
      BY <2>3, <3>1 DEF Fetched, Loads
    <3>4. CASE at' = "FETCH"
      <4>1. /\ ch' \in active_ch /\ UNCHANGED step
            /\ \A c \in active_ch : c < ch' => c <= ch
            /\ ram_addr' = chan[ch'].sar
        BY <2>3, <3>4 DEF Fetched, Goes
      <4>2. \A c \in active_ch : c < ch' => c = ch \/ c < ch
        BY <2>0, <3>1, <4>1
      <4>3. \A c \in active_ch : c < ch' => instr'[c] \in Loads
        BY <3>1, <3>3, <4>2
      <4> QED BY <1>1, <1>4, <2>0, <2>3, <3>2, <3>3, <3>4, <4>1, <4>3 DEF Fetched
    <3>5. CASE at' # "FETCH"
      <4>1. UNCHANGED ram_addr /\ (\A c \in active_ch : c <= ch) /\ Goes
        BY <2>3, <3>5 DEF Fetched
      <4>2. \A c \in active_ch : c = ch \/ c < ch
        BY <2>0, <3>1, <4>1
      <4>3. \A c \in active_ch : instr'[c] \in Loads
        BY <3>1, <3>3, <4>2
      <4>4. active_ch' = active_ch
        BY <2>3 DEF Fetched
      <4>5. step' \in 1..8
        BY <4>1 DEF Goes
      <4>6. at' = "DONE" \/ (at' = "EXEC" /\ ch' \in active_ch)
        BY <4>1 DEF Goes
      <4> QED BY <1>1, <1>4, <3>2, <3>3, <4>1, <4>3, <4>4, <4>5, <4>6
    <3> QED BY <3>4, <3>5
  <2>4. CASE Takes
    <3>1. step' \in 1..8 /\ UNCHANGED <<at, ch, active_ch, instr, ram_addr, chan>>
      BY <2>4 DEF Takes
    <3> QED BY <1>1, <1>4, <3>1
  <2>5. CASE Steps
    <3>1. step' \in 1..8 /\ UNCHANGED <<at, ch, active_ch, instr, ram_addr, chan>>
      BY <2>5 DEF Steps
    <3> QED BY <1>1, <1>4, <3>1
  <2>6. CASE Frees \/ Extends
    <3>1. at = "EXEC" /\ UNCHANGED <<active_ch, instr, ram_addr, chan>>
      BY <2>6 DEF Frees, Extends
    <3>2. UNCHANGED <<at, ch, step>> \/ Goes
      BY <2>6 DEF Frees, Extends
    <3>3. CASE UNCHANGED <<at, ch, step>>
      BY <1>1, <1>4, <3>1, <3>3
    <3>4. CASE Goes
      <4>1. step' \in 1..8
        BY <3>4 DEF Goes
      <4>2. at' = "DONE" \/ (at' = "EXEC" /\ ch' \in active_ch)
        BY <3>4 DEF Goes
      <4> QED BY <1>1, <1>4, <3>1, <4>1, <4>2
    <3> QED BY <3>2, <3>3, <3>4
  <2> QED BY <1>4, <2>1, <2>2, <2>3, <2>4, <2>5, <2>6 DEF Cycles
<1> QED BY <1>2, <1>3, <1>4, Clocks

-----------------------------------------------------------------------------
(* The steps of a LOAD.  The CPU's register is the one selected last before it
   as long as the DMA has the chip. *)
LEMMA AddrKept ==
    ASSUME BusClock(io', dma), psg_active
    PROVE  cpu_psg_addr' = cpu_psg_addr
<1>1. dma.active <=> psg_active
  BY DEF dma
<1> QED BY <1>1 DEF BusClock, GlueClock

LEMMA LoadStep ==
    ASSUME EngineInv, LoadInv, Next
    PROVE  LoadInv'
<1>1. /\ {dma_load_busy, dma_load_owner, psg_active, load_extension} \subseteq BOOLEAN
      /\ load_extra \in 0..2 /\ step \in 1..8
  BY DEF EngineInv, LoadInv
<1>2. psg_active => cpu_psg_addr' = cpu_psg_addr
  BY Clocks, AddrKept
<1>3. CASE Unmoved
  BY <1>2, <1>3 DEF Unmoved, LoadKept, LoadInv, Loading, Now
<1>4. CASE NewLine /\ Lines
  <2>1. ~Loading /\ ~Loading'
    BY <1>4 DEF Loading, Lines, NewLine
  <2> QED BY <1>4, <2>1 DEF Lines, LoadKept, LoadInv
<1>5. CASE Idles \/ Opens \/ Fetched
  <2>1. ~Loading
    BY <1>5 DEF Idles, Opens, Fetched, Loading
  <2>2. ~Loading'
    BY <1>1, <1>5 DEF Idles, Opens, Fetched, Goes, Loading
  <2>3. load_extra' = load_extra /\ load_extension' = load_extension
    BY <1>5 DEF Idles, Opens, Fetched, LoadKept
  <2>4. ~dma_load_busy /\ ~dma_load_owner /\ ~psg_active
    BY <2>1 DEF LoadInv
  <2>5. dma_load_busy' = FALSE /\ dma_load_owner' = FALSE /\ psg_active' = FALSE
    BY <1>1, <1>5, <2>4 DEF Idles, Opens, Fetched, LoadKept
  <2> QED BY <1>1, <2>2, <2>3, <2>5 DEF LoadInv
<1>6. CASE Takes
  <2>1. Clash \in 0..2
    BY DEF Clash
  <2>2. Loading' /\ step' = 2 /\ Now' = Now
    BY <1>6 DEF Takes, Loading, Now
  <2>3. /\ dma_load_busy' = TRUE /\ dma_load_owner' = TRUE /\ psg_active' = TRUE
        /\ load_extension' = FALSE /\ load_extra' \in 0..2
        /\ psg_bus' = "select" /\ psg_dout' = Now.reg
    BY <1>6, <2>1 DEF Takes
  <2>4. step' \notin {3, 5, 7, 8} /\ step' # 4 /\ step' # 6
    BY <2>2
  <2> QED BY <2>2, <2>3, <2>4 DEF LoadInv
<1>7. CASE Steps
  <2>1. Worse \in 0..2
    BY <1>1 DEF Clash, Worse
  <2>2. /\ Loading /\ Loading' /\ step \in 2..7 /\ step' = step + 1 /\ Now' = Now
        /\ dma_load_busy' = dma_load_busy /\ dma_load_owner' = dma_load_owner
        /\ psg_active' = psg_active /\ load_extension' = load_extension
        /\ load_extra' \in 0..2
    BY <1>7, <2>1 DEF Steps, Loading, Now
  <2>3. psg_active /\ ~load_extension
    BY <2>2 DEF LoadInv
  <2>4. /\ step = 3 => psg_bus' = "write" /\ psg_dout' = Now.data
        /\ step = 5 => psg_bus' = "select" /\ psg_dout' = cpu_psg_addr'
        /\ step \notin {3, 5} => psg_bus' = "idle"
    BY <1>2, <1>7, <2>3 DEF Steps
  <2>5. /\ step' # 2 /\ (step' = 4 => step = 3) /\ (step' = 6 => step = 5)
        /\ (step' \in {3, 5, 7, 8} => step \notin {3, 5})
    BY <2>2
  <2> QED BY <1>1, <2>2, <2>3, <2>4, <2>5 DEF LoadInv
<1>8. CASE Frees
  <2>1. Worse \in 0..2
    BY <1>1 DEF Clash, Worse
  <2>2. /\ load_extra' \in 0..2 /\ load_extension' = TRUE
        /\ dma_load_owner' = FALSE /\ psg_active' = FALSE
    BY <1>8, <2>1 DEF Frees
  <2>3. dma_load_busy
    BY <1>8 DEF Frees, LoadInv, Loading
  <2>4. CASE Goes /\ dma_load_busy' = FALSE
    <3>1. ~Loading'
      BY <1>8, <2>4 DEF Frees, Goes, Loading
    <3> QED BY <2>2, <2>4, <3>1 DEF LoadInv
  <2>5. CASE UNCHANGED <<dma_load_busy, at, ch, step>>
    <3>1. Loading' /\ step' = 8
      BY <1>8, <2>5 DEF Frees, Loading
    <3>2. dma_load_busy' = TRUE
      BY <1>1, <2>3, <2>5
    <3> QED BY <2>2, <3>1, <3>2 DEF LoadInv
  <2> QED BY <1>8, <2>4, <2>5 DEF Frees
<1>9. CASE Extends
  <2>1. /\ load_extra' = 0 /\ load_extension' = load_extension /\ load_extension
        /\ dma_load_owner' = dma_load_owner /\ psg_active' = psg_active
    BY <1>9 DEF Extends
  <2>2. dma_load_busy /\ ~psg_active /\ ~dma_load_owner
    BY <1>9 DEF Extends, LoadInv, Loading
  <2>3. CASE Goes /\ dma_load_busy' = FALSE
    <3>1. ~Loading'
      BY <1>9, <2>3 DEF Extends, Goes, Loading
    <3>2. dma_load_owner' = FALSE /\ psg_active' = FALSE
      BY <1>1, <2>1, <2>2
    <3>3. load_extension' = TRUE /\ load_extra' \in 0..2
      BY <1>1, <2>1
    <3> QED BY <2>3, <3>1, <3>2, <3>3 DEF LoadInv
  <2>4. CASE UNCHANGED <<dma_load_busy, at, ch, step>>
    <3>1. Loading' /\ step' = 8
      BY <1>9, <2>4 DEF Extends, Loading
    <3>2. dma_load_busy' = TRUE
      BY <1>1, <2>2, <2>4
    <3> QED BY <1>1, <2>1, <2>2, <3>1, <3>2 DEF LoadInv
  <2> QED BY <1>9, <2>3, <2>4 DEF Extends
<1> QED BY <1>3, <1>4, <1>5, <1>6, <1>7, <1>8, <1>9, Clocks DEF Cycles

(* The worse of two collisions. *)
LEMMA Worst ==
    ASSUME NEW a \in 0..2, NEW b \in 0..2
    PROVE  Max({a, b}) = IF b > a THEN b ELSE a
<1> DEFINE m == IF b > a THEN b ELSE a
<1>1. m \in {a, b} /\ \A x \in {a, b} : m >= x
  OBVIOUS
<1>2. \A y \in {a, b} : (\A x \in {a, b} : y >= x) => y = m
  OBVIOUS
<1> QED BY <1>1, <1>2 DEF Max

LEMMA TimeStep ==
    ASSUME EngineInv, LoadInv, TimeInv, Next
    PROVE  TimeInv'
<1>1. /\ load_extra \in 0..2 /\ step \in 1..8 /\ Clash \in 0..2 /\ Worse \in 0..2
      /\ load.cycles \in Nat /\ load.worst \in 0..2 /\ waited \in 0..7
      /\ psg_active => waited <= step - 2
      /\ psg_active <=> Loading /\ ~load_extension
      /\ dma_load_busy <=> Loading
  BY DEF EngineInv, LoadInv, TimeInv, Clash, Worse
<1>2. CASE (NewLine /\ Lines) \/ ((Settle \/ CpuStarts \/ CpuEnds) /\ Unmoved)
  <2>1. UNCHANGED load /\ (waited' = waited \/ waited' = 0)
    BY <1>2 DEF Settle, NewLine, CpuStarts, CpuEnds
  <2>2. CASE Unmoved
    <3>1. /\ Loading' <=> Loading
          /\ load_extension' = load_extension /\ load_extra' = load_extra /\ step' = step
          /\ psg_active' = psg_active
      BY <2>2 DEF Unmoved, LoadKept, Loading
    <3> QED BY <1>1, <2>1, <3>1 DEF TimeInv
  <2>3. CASE NewLine /\ Lines
    <3>1. ~Loading /\ ~Loading' /\ psg_active' = psg_active
      BY <2>3 DEF Loading, Lines, NewLine, LoadKept
    <3>2. ~psg_active'
      BY <1>1, <3>1
    <3> QED BY <1>1, <2>1, <3>1, <3>2 DEF TimeInv
  <2> QED BY <1>2, <2>2, <2>3
<1>3. CASE Tick /\ Cycles
  <2>1. /\ waited' = waited + 1 \/ waited' = 0
        /\ ~psg_active => waited' = 0
    <3>1. ~psg_active => ~Waits(io, dma)
      BY DEF LoadInv, Waits, dma
    <3> QED BY <1>3, <3>1 DEF Tick
  <2>2. LoadCounts
    BY <1>3 DEF Tick
  <2>3. CASE Idles \/ Opens \/ Fetched
    <3>1. ~Loading /\ ~Loading' /\ ~psg_active' /\ ~dma_load_busy'
      <4>1. ~Loading
        BY <2>3 DEF Idles, Opens, Fetched, Loading
      <4>2. ~psg_active /\ ~dma_load_busy
        BY <1>1, <4>1
      <4> QED BY <1>1, <2>3, <4>1, <4>2 DEF Idles, Opens, Fetched, Goes, LoadKept, Loading
    <3>2. load' = [cycles |-> 0, worst |-> 0]
      BY <1>1, <2>2, <3>1 DEF LoadCounts
    <3> QED BY <1>1, <2>1, <3>1, <3>2 DEF TimeInv
  <2>4. CASE Takes
    <3>1. /\ ~Loading /\ ~psg_active /\ Loading' /\ step' = 2 /\ dma_load_busy' = TRUE
          /\ ~load_extension' /\ load_extra' = Clash
      BY <1>1, <2>4 DEF Takes, Loading
    <3>2. load' = [cycles |-> 1, worst |-> Clash]
      BY <1>1, <2>2, <3>1 DEF LoadCounts
    <3> QED BY <1>1, <2>1, <3>1, <3>2 DEF TimeInv
  <2>5. ASSUME Loading
        PROVE  load'.cycles = load.cycles + 1 /\ load'.worst = IF Clash > load.worst THEN Clash ELSE load.worst
    <3>1. load' = [cycles |-> load.cycles + 1, worst |-> Max({load.worst, Clash})]
      BY <1>1, <2>2, <2>5 DEF LoadCounts
    <3> QED BY <1>1, <3>1, Worst
  <2>6. CASE Steps
    <3>1. /\ Loading /\ Loading' /\ step' = step + 1 /\ step \in 2..7 /\ load_extra' = Worse
          /\ load_extension' = load_extension /\ psg_active' = psg_active
      BY <2>6 DEF Steps, Loading
    <3>2. ~load_extension /\ psg_active
      BY <1>1, <3>1 DEF LoadInv
    <3>3. load.cycles = step - 1 /\ load.worst = load_extra
      BY <3>1, <3>2 DEF TimeInv
    <3>4. load'.cycles = step' - 1 /\ load'.worst = load_extra'
      BY <1>1, <2>5, <3>1, <3>3 DEF Worse
    <3>5. waited' \in 0..7 /\ waited' <= step' - 2
      BY <1>1, <2>1, <3>1, <3>2
    <3>6. ~load_extension'
      BY <3>1, <3>2
    <3> QED BY <1>1, <3>1, <3>4, <3>5, <3>6 DEF TimeInv
  <2>7. CASE Frees
    <3>1. /\ Loading /\ step = 8 /\ ~load_extension /\ load_extension' /\ load_extra' = Worse
          /\ ~psg_active'
      BY <2>7 DEF Frees, Loading
    <3>2. load.cycles = 7 /\ load.worst = load_extra
      BY <3>1 DEF TimeInv
    <3>3. load'.cycles = 8 /\ load'.worst = load_extra'
      BY <1>1, <2>5, <3>1, <3>2 DEF Worse
    <3>4. waited' \in 0..7
      BY <1>1, <2>1, <3>1
    <3>5. Loading' => load_extra' # 0
      BY <2>7, <3>1 DEF Frees, Goes, Loading
    <3> QED BY <1>1, <3>1, <3>3, <3>4, <3>5 DEF TimeInv
  <2>8. CASE Extends
    <3>1. /\ Loading /\ load_extension /\ load_extension' /\ load_extra' = 0
          /\ ~psg_active /\ psg_active' = psg_active
      BY <1>1, <2>8 DEF Extends, Loading
    <3>2. Loading' => load_extra # 0 /\ Worse = 2
      BY <2>8 DEF Extends, Goes, Loading
    <3>3. ASSUME Loading' PROVE load'.cycles = 9 /\ load'.worst = 2
      BY <1>1, <2>5, <3>1, <3>2, <3>3 DEF TimeInv, Worse
    <3>4. load'.cycles \in Nat /\ load'.worst \in 0..2
      BY <1>1, <2>5, <3>1
    <3> QED BY <2>1, <3>1, <3>3, <3>4 DEF TimeInv
  <2> QED BY <1>3, <2>3, <2>4, <2>6, <2>7, <2>8 DEF Cycles
<1> QED BY <1>2, <1>3, Clocks

-----------------------------------------------------------------------------
(* The CPU's side of the bus. *)
LEMMA PinFacts ==
    /\ {Selects, Stores, Shows, Quiescent} \subseteq PinSet
    /\ Selects # Stores /\ Selects # Shows /\ Stores # Shows
    /\ Quiescent \notin {Selects, Stores, Shows}
<1>1. /\ Selects.bdir = TRUE /\ Selects.bc = TRUE /\ Stores.bdir = TRUE /\ Stores.bc = FALSE
      /\ Shows.bdir = FALSE /\ Shows.bc = TRUE /\ Quiescent.bdir = FALSE /\ Quiescent.bc = FALSE
  BY DEF Selects, Stores, Shows, Quiescent, Pins
<1>2. {Selects, Stores, Shows, Quiescent} \subseteq PinSet
  BY DEF Selects, Stores, Shows, Quiescent, Pins, PinSet
<1>3. Selects # Stores /\ Selects # Shows /\ Stores # Shows
  BY <1>1
<1>4. Quiescent \notin {Selects, Stores, Shows}
  BY <1>1
<1> QED BY <1>2, <1>3, <1>4

LEMMA OperationFacts ==
    ASSUME NEW a \in Operations, PortInv
    PROVE  /\ Access(a) /\ a # Idle
           /\ Writes(a) <=> a # ReadA
           /\ a.kind = "read" <=> a = ReadA
           /\ a.kind = "A" => a.v \in CpuBytes
           /\ a.kind = "mode" => a.to \in BOOLEAN
           /\ PinsAfter(a) \in PinSet /\ DataAfter(a) \in CpuData
<1>1. CASE a = ReadA
  <2>1. a.kind = "read"
    BY <1>1 DEF ReadA
  <2>2. PinsAfter(a) = portC /\ DataAfter(a) \in CpuData
    BY <2>1 DEF PinsAfter, DataAfter, CpuData, PortInv
  <2> QED BY <1>1, <2>1, <2>2 DEF Access, Writes, Idle, PortInv
<1>2. ASSUME NEW v \in CpuBytes, a = WriteA(v)
      PROVE  /\ a.kind = "A" /\ a.v \in CpuBytes
             /\ PinsAfter(a) \in PinSet /\ DataAfter(a) \in CpuData
  <2>1. a.kind = "A" /\ a.v \in CpuBytes
    BY <1>2 DEF WriteA
  <2> QED BY <2>1 DEF PinsAfter, DataAfter, CpuData, PortInv
<1>3. ASSUME NEW d \in BOOLEAN, NEW c \in BOOLEAN, a = WriteC(Pins(d, c))
      PROVE  a.kind = "C" /\ PinsAfter(a) \in PinSet /\ DataAfter(a) \in CpuData
  <2>1. a.kind = "C" /\ a.pins = Pins(d, c)
    BY <1>3 DEF WriteC
  <2>2. Pins(d, c) \in PinSet
    BY DEF Pins, PinSet
  <2> QED BY <2>1, <2>2 DEF PinsAfter, DataAfter, CpuData, PortInv
<1>4. ASSUME NEW b \in {"bdir", "bc"}, NEW v \in BOOLEAN, a = SetBit(b, v)
      PROVE  a.kind = "bit" /\ PinsAfter(a) \in PinSet /\ DataAfter(a) \in CpuData
  <2>1. a.kind = "bit" /\ a.bit = b /\ a.to = v
    BY <1>4 DEF SetBit
  <2>2. [portC EXCEPT ![b] = v] \in PinSet
    <3>1. CASE b = "bdir"
      BY <3>1 DEF PinSet, PortInv
    <3>2. CASE b = "bc"
      BY <3>2 DEF PinSet, PortInv
    <3> QED BY <3>1, <3>2
  <2> QED BY <2>1, <2>2 DEF PinsAfter, DataAfter, CpuData, PortInv
<1>5. ASSUME NEW i \in BOOLEAN, a = Direction(i)
      PROVE  /\ a.kind = "mode" /\ a.to \in BOOLEAN
             /\ PinsAfter(a) \in PinSet /\ DataAfter(a) \in CpuData
  <2>1. a.kind = "mode" /\ a.to = i
    BY <1>5 DEF Direction
  <2> QED BY <2>1 DEF PinsAfter, DataAfter, CpuData, PortInv
<1>6. CASE a # ReadA
  <2>1. \/ \E v \in CpuBytes : a = WriteA(v)
        \/ \E d, c \in BOOLEAN : a = WriteC(Pins(d, c))
        \/ \E b \in {"bdir", "bc"}, v \in BOOLEAN : a = SetBit(b, v)
        \/ \E i \in BOOLEAN : a = Direction(i)
    <3> DEFINE P == {WriteA(v) : v \in CpuBytes}
               Q == {WriteC(Pins(d, c)) : d, c \in BOOLEAN}
               R == {SetBit(b, v) : b \in {"bdir", "bc"}, v \in BOOLEAN}
               S == {Direction(i) : i \in BOOLEAN}
    <3>1. Operations = {ReadA} \cup P \cup Q \cup R \cup S
      BY DEF Operations
    <3>2. /\ a \in P => \E v \in CpuBytes : a = WriteA(v)
          /\ a \in S => \E i \in BOOLEAN : a = Direction(i)
      OBVIOUS
    <3>3. a \in Q => \E d, c \in BOOLEAN : a = WriteC(Pins(d, c))
      OBVIOUS
    <3>4. a \in R => \E b \in {"bdir", "bc"}, v \in BOOLEAN : a = SetBit(b, v)
      OBVIOUS
    <3> HIDE DEF P, Q, R, S
    <3> QED BY <1>6, <3>1, <3>2, <3>3, <3>4
  <2>2. /\ a.kind \in {"A", "C", "bit", "mode"}
        /\ a.kind = "A" => a.v \in CpuBytes
        /\ a.kind = "mode" => a.to \in BOOLEAN
        /\ PinsAfter(a) \in PinSet /\ DataAfter(a) \in CpuData
    <3>1. CASE \E v \in CpuBytes : a = WriteA(v)
      BY <1>2, <3>1
    <3>2. CASE \E d, c \in BOOLEAN : a = WriteC(Pins(d, c))
      BY <1>3, <3>2
    <3>3. CASE \E b \in {"bdir", "bc"}, v \in BOOLEAN : a = SetBit(b, v)
      BY <1>4, <3>3
    <3>4. CASE \E i \in BOOLEAN : a = Direction(i)
      BY <1>5, <3>4
    <3> QED BY <2>1, <3>1, <3>2, <3>3, <3>4
  <2> QED BY <1>6, <2>2 DEF Access, Writes, Idle, ReadA
<1> QED BY <1>1, <1>6

(* An access begins, goes on or ends. *)
LEMMA IoCases ==
    ASSUME PortInv, Next
    PROVE  /\ io' = Idle \/ io' \in Operations
           /\ Access(io') => io' = io \/ io = Idle
<1>1. io' = io \/ (io = Idle /\ io' \in Operations) \/ io' = Idle
  BY DEF Next, Tick, Settle, NewLine, CpuStarts, CpuEnds
<1>2. io' = Idle => ~Access(io')
  BY DEF Idle, Access
<1> QED BY <1>1, <1>2 DEF PortInv

(* An access is made on the edge that finds the bus free. *)
Begins == Access(io') /\ ~cpu_ppi_started /\ ~psg_active

LEMMA PortsMove ==
    ASSUME LoadInv, PortInv, Next, BusClock(io', dma)
    PROVE  /\ old_we' <=> Writes(io') /\ cpu_ppi_started'
           /\ Begins => portC' = PinsAfter(io') /\ portAout' = DataAfter(io')
           /\ ~Begins => portC' = portC /\ portAout' = portAout /\ inputA' = inputA /\ portA' = portA
           /\ portA' \in CpuBytes /\ portC' \in PinSet /\ inputA' \in BOOLEAN
           /\ {old_we, cpu_ppi_started, cpu_ppi_stolen}' \subseteq BOOLEAN
           /\ cpu_ppi_started' <=> Access(io') /\ (cpu_ppi_started \/ ~psg_active)
           /\ cpu_ppi_stolen' => cpu_ppi_started'
           /\ io' = ReadA => (portC' = portC /\ portAout' = portAout /\ inputA' = inputA /\ portA' = portA)
<1>1. dma.owner <=> psg_active
  BY DEF dma, LoadInv
<1> DEFINE we == Writes(io') /\ ~Waits(io', dma)
<1>2. /\ old_we' = we
      /\ portA' = (IF we /\ ~old_we /\ io'.kind = "A" THEN io'.v ELSE portA)
      /\ portC' = (IF we /\ ~old_we THEN PinsAfter(io') ELSE portC)
      /\ inputA' = (IF we /\ ~old_we /\ io'.kind = "mode" THEN io'.to ELSE inputA)
  BY DEF BusClock, PpiClock
<1>3. Writes(io') => Access(io')
  BY DEF Writes, Access
<1>4. (we /\ ~old_we) <=> Writes(io') /\ ~cpu_ppi_started /\ ~psg_active
  <2>1. we <=> Writes(io') /\ (~psg_active \/ cpu_ppi_started)
    BY <1>1, <1>3 DEF Waits
  <2>2. old_we <=> Writes(io) /\ cpu_ppi_started
    BY DEF PortInv
  <2>3. (cpu_ppi_started /\ Access(io')) => io' = io
    BY IoCases DEF PortInv, Access, Idle
  <2>4. (cpu_ppi_started /\ Writes(io')) => Writes(io)
    BY <1>3, <2>3
  <2> QED BY <2>1, <2>2, <2>4
<1>5. /\ cpu_ppi_started' <=> Access(io') /\ (cpu_ppi_started \/ ~psg_active)
      /\ cpu_ppi_stolen' => cpu_ppi_started'
      /\ {cpu_ppi_started', cpu_ppi_stolen'} \subseteq BOOLEAN
  <2>1. /\ cpu_ppi_started' = (Access(io') /\ (cpu_ppi_started \/ ~dma.owner))
        /\ cpu_ppi_stolen' = (Access(io') /\ (cpu_ppi_stolen \/ (cpu_ppi_started /\ dma.owner)))
    BY DEF BusClock, GlueClock
  <2>2. cpu_ppi_stolen => cpu_ppi_started
    BY DEF PortInv
  <2> QED BY <1>1, <2>1, <2>2, Zenon
<1>6. /\ old_we' <=> Writes(io') /\ cpu_ppi_started'
      /\ old_we' \in BOOLEAN
  <2>1. we <=> Writes(io') /\ (~psg_active \/ cpu_ppi_started)
    BY <1>1, <1>3 DEF Waits
  <2>2. (old_we' <=> we) /\ old_we' \in BOOLEAN
    BY <1>2, Zenon
  <2> HIDE DEF we
  <2> QED BY <1>3, <1>5, <2>1, <2>2
<1>7. CASE Begins
  <2>1. io' \in Operations
    BY <1>7, IoCases DEF Begins, Access, Idle
  <2>2. /\ Writes(io') <=> io' # ReadA
        /\ io'.kind = "read" <=> io' = ReadA
        /\ io'.kind = "A" => io'.v \in CpuBytes
        /\ io'.kind = "mode" => io'.to \in BOOLEAN
        /\ PinsAfter(io') \in PinSet
    BY <2>1, OperationFacts
  <2>3. CASE io' = ReadA
    <3>1. ~(we /\ ~old_we) /\ io'.kind = "read"
      BY <1>4, <2>2, <2>3
    <3>2. portC' = portC /\ portA' = portA /\ inputA' = inputA
      BY <1>2, <3>1
    <3>3. PinsAfter(io') = portC /\ DataAfter(io') = portAout
      BY <3>1 DEF PinsAfter, DataAfter, portAout
    <3>4. portAout' = portAout
      BY <3>2 DEF portAout
    <3> QED BY <1>5, <1>6, <1>7, <2>2, <3>2, <3>3, <3>4 DEF PortInv
  <2>4. CASE io' # ReadA
    <3>1. we /\ ~old_we
      BY <1>4, <1>7, <2>2, <2>4 DEF Begins
    <3>2. /\ portA' = (IF io'.kind = "A" THEN io'.v ELSE portA)
          /\ portC' = PinsAfter(io')
          /\ inputA' = (IF io'.kind = "mode" THEN io'.to ELSE inputA)
      BY <1>2, <3>1
    <3>3. portAout' = DataAfter(io')
      BY <3>2 DEF portAout, DataAfter
    <3> QED BY <1>5, <1>6, <1>7, <2>2, <2>4, <3>2, <3>3 DEF PortInv
  <2> QED BY <2>3, <2>4
<1>8. CASE ~Begins
  <2>1. ~(we /\ ~old_we)
    BY <1>3, <1>4, <1>8 DEF Begins
  <2>2. portC' = portC /\ portA' = portA /\ inputA' = inputA
    BY <1>2, <2>1
  <2>3. portAout' = portAout
    BY <2>2 DEF portAout
  <2> QED BY <1>5, <1>6, <1>8, <2>2, <2>3 DEF PortInv
<1> QED BY <1>7, <1>8

LEMMA PortStep ==
    ASSUME EngineInv, LoadInv, PortInv, Next
    PROVE  PortInv'
<1>1. BusClock(io', dma)
  BY Clocks
<1>2. /\ old_we' <=> Writes(io') /\ cpu_ppi_started'
      /\ portA' \in CpuBytes /\ portC' \in PinSet /\ inputA' \in BOOLEAN
      /\ {old_we, cpu_ppi_started, cpu_ppi_stolen}' \subseteq BOOLEAN
      /\ cpu_ppi_started' <=> Access(io') /\ (cpu_ppi_started \/ ~psg_active)
      /\ cpu_ppi_stolen' => cpu_ppi_started'
  BY <1>1, PortsMove
<1>3. io' = Idle \/ io' \in Operations
  BY IoCases
<1>4. psg_active => psg_active' \/ since' = 0
  <2>1. CASE Tick
    BY <2>1 DEF Tick
  <2>2. CASE ~Tick
    <3>1. psg_active' = psg_active
      BY <2>2, Clocks DEF Unmoved, Lines, LoadKept
    <3> QED BY <3>1
  <2> QED BY <2>1, <2>2
<1>5. Pending' => psg_active
  BY <1>2 DEF Pending
<1>6. cpu_psg_addr' \in CpuData
  <2>1. portAout \in CpuData
    BY DEF portAout, CpuData, PortInv
  <2> QED BY <1>1, <2>1 DEF BusClock, GlueClock, PortInv
<1> QED BY <1>2, <1>3, <1>4, <1>5, <1>6 DEF PortInv

-----------------------------------------------------------------------------
(* The chip.  While the CPU has it, it obeys the port; a LOAD touches its own
   register and leaves the selection as it was. *)
LEMMA ChipFree ==
    ASSUME LoadInv, PortInv, ChipInv, Next, BusClock(io', dma), ~psg_active
    PROVE  /\ psg_addr' = NextAddr /\ cpu_psg_addr' = NextAddr
           /\ psg_reg' = [r \in Registers |-> NextReg(r)]
           /\ ~Begins => Obeyed'
<1>1. dma.active <=> psg_active
  BY DEF dma
<1>2. ChipPins(dma) = portC /\ ChipData(dma) = portAout
  BY <1>1 DEF ChipPins, ChipData
<1>3. psg_addr = cpu_psg_addr
  BY DEF ChipInv, Foreign
<1>4. psg_addr' = NextAddr
  BY <1>2, <1>3 DEF BusClock, ChipClock, NextAddr, Selects
<1>5. cpu_psg_addr' = NextAddr
  BY <1>1 DEF BusClock, GlueClock, NextAddr, Selects
<1>6. psg_reg' = [r \in Registers |-> NextReg(r)]
  <2>1. psg_reg' = IF portC = Stores /\ cpu_psg_addr \in Registers
                   THEN [psg_reg EXCEPT ![cpu_psg_addr] = portAout] ELSE psg_reg
    BY <1>2, <1>3 DEF BusClock, ChipClock, Stores
  <2>2. psg_reg = [r \in Registers |-> psg_reg[r]]
    BY DEF ChipInv
  <2> QED BY <2>1, <2>2 DEF NextReg
<1>7. ASSUME ~Begins PROVE Obeyed'
  <2>1. portC' = portC /\ portAout' = portAout
    BY <1>7, PortsMove
  <2>2. portC = Selects => cpu_psg_addr' = portAout
    BY <1>5 DEF NextAddr
  <2>3. (portC = Stores /\ cpu_psg_addr' \in Registers) => psg_reg'[cpu_psg_addr'] = portAout
    BY <1>5, <1>6, PinFacts DEF NextAddr, NextReg
  <2> QED BY <2>1, <2>2, <2>3 DEF Obeyed
<1> QED BY <1>4, <1>5, <1>6, <1>7

LEMMA ChipTaken ==
    ASSUME EngineInv, LoadInv, PortInv, ChipInv, Next, BusClock(io', dma), psg_active
    PROVE  /\ cpu_psg_addr' = cpu_psg_addr /\ portC' = portC /\ portAout' = portAout
           /\ inputA' = inputA /\ portA' = portA
           /\ step \in 2..8 /\ at = "EXEC" /\ Now.reg \in Registers /\ Now.reg \notin CpuData
           /\ step = 2 => psg_addr' = Now.reg
           /\ step = 6 => psg_addr' = cpu_psg_addr
           /\ step \notin {2, 6} => psg_addr' = psg_addr
           /\ step = 4 => psg_reg' = [psg_reg EXCEPT ![Now.reg] = Now.data]
           /\ step # 4 => psg_reg' = psg_reg
<1>1. (dma.active <=> psg_active) /\ dma.bus = psg_bus /\ dma.dout = psg_dout
  BY DEF dma
<1>2. /\ portC' = portC /\ portAout' = portAout /\ inputA' = inputA /\ portA' = portA
      /\ cpu_psg_addr' = cpu_psg_addr
  BY PortsMove, AddrKept DEF Begins
<1>3. step \in 2..8 /\ at = "EXEC"
  BY DEF LoadInv, Loading
<1>4. Now.reg \in Registers /\ Now.reg \notin CpuData
  <2>1. Now \in Loads
    BY <1>3 DEF EngineInv, Now
  <2> QED BY <2>1, LoadWords
<1>5. ChipPins(dma) = DmaPins(dma) /\ ChipData(dma) = psg_dout
  BY <1>1 DEF ChipPins, ChipData
<1>6. /\ psg_addr' = (IF DmaPins(dma) = Selects THEN psg_dout ELSE psg_addr)
      /\ psg_reg' = (IF DmaPins(dma) = Stores /\ psg_addr \in Registers
                     THEN [psg_reg EXCEPT ![psg_addr] = psg_dout] ELSE psg_reg)
  BY <1>5 DEF BusClock, ChipClock, Selects, Stores
<1>7. CASE step \in {2, 6}
  <2>1. psg_bus = "select" /\ (step = 2 => psg_dout = Now.reg) /\ (step = 6 => psg_dout = cpu_psg_addr)
    BY <1>7 DEF LoadInv
  <2>2. DmaPins(dma) = Selects
    BY <1>1, <2>1 DEF DmaPins, Selects, Pins
  <2> QED BY <1>2, <1>3, <1>4, <1>6, <1>7, <2>1, <2>2, PinFacts
<1>8. CASE step = 4
  <2>1. psg_bus = "write" /\ psg_dout = Now.data
    BY <1>8 DEF LoadInv
  <2>2. DmaPins(dma) = Stores
    BY <1>1, <2>1 DEF DmaPins, Stores, Pins
  <2>3. psg_addr = Now.reg
    BY <1>8 DEF ChipInv, Foreign
  <2> QED BY <1>2, <1>3, <1>4, <1>6, <1>8, <2>1, <2>2, <2>3, PinFacts
<1>9. CASE step \in {3, 5, 7, 8}
  <2>1. psg_bus = "idle"
    BY <1>9 DEF LoadInv
  <2>2. DmaPins(dma) = Quiescent
    <3>1. /\ (dma.bus \in {"select", "write"}) = FALSE
          /\ (dma.bus = "select") = FALSE
      BY <1>1, <2>1
    <3> QED BY <3>1 DEF DmaPins, Quiescent
  <2> QED BY <1>2, <1>3, <1>4, <1>6, <1>9, <2>2, PinFacts
<1> QED BY <1>3, <1>7, <1>8, <1>9

(* An access begins on the first edge after the LOAD, before any other. *)
LEMMA BeginsEarly ==
    ASSUME EngineInv, LoadInv, PortInv, Next
    PROVE  /\ Begins => ~Tick /\ psg_active' = psg_active
           /\ Begins => CpuStarts \/ (io' = io /\ Pending /\ UNCHANGED want)
           /\ ~Begins /\ ~psg_active => ~Pending
           /\ CpuStarts => io = Idle /\ io' \in Operations /\ ~cpu_ppi_started /\ ~Pending
<1>1. CpuStarts => io = Idle /\ io' \in Operations /\ ~cpu_ppi_started /\ ~Pending
  BY DEF CpuStarts, PortInv, Pending, Access, Idle
<1>2. Begins /\ ~CpuStarts => io' = io /\ Pending /\ ~Tick /\ UNCHANGED want
  <2>1. Begins /\ ~CpuStarts => io' = io
    <3>1. (Tick \/ Settle \/ NewLine) => io' = io
      BY DEF Tick, Settle, NewLine
    <3>2. CpuEnds => ~Access(io')
      BY DEF CpuEnds, Idle, Access
    <3> QED BY <3>1, <3>2 DEF Next, Begins
  <2>2. Begins /\ ~CpuStarts => Pending
    BY <2>1 DEF Begins, Pending
  <2>3. Pending /\ ~psg_active => ~Tick
    <3>1. Pending /\ ~psg_active => since = 0
      BY DEF PortInv
    <3>2. Tick => since = 2
      BY DEF Tick
    <3> QED BY <3>1, <3>2
  <2>4. ~Tick /\ ~CpuStarts => UNCHANGED want
    BY DEF Next, Settle, NewLine, CpuEnds
  <2> QED BY <2>1, <2>2, <2>3, <2>4 DEF Begins
<1>3. Begins => ~Tick
  <2>1. CpuStarts => ~Tick
    BY DEF CpuStarts, Tick, Operations, Idle, ReadA
  <2> QED BY <1>2, <2>1
<1>4. ~Tick => psg_active' = psg_active
  BY Clocks DEF Unmoved, Lines, LoadKept
<1>5. ~Begins /\ ~psg_active => ~Pending
  <2>1. SUFFICES ASSUME Pending, ~psg_active PROVE Begins
    OBVIOUS
  <2>2. since = 0
    BY <2>1 DEF PortInv
  <2>3. io' = io
    <3>1. (Tick \/ Settle \/ NewLine) => io' = io
      BY DEF Tick, Settle, NewLine
    <3>2. CpuStarts \/ CpuEnds => since = 2
      BY DEF CpuStarts, CpuEnds
    <3> QED BY <2>2, <3>1, <3>2 DEF Next
  <2> QED BY <2>1, <2>3 DEF Begins, Pending
<1> QED BY <1>1, <1>2, <1>3, <1>4, <1>5

(* The edge after one of the engine's cycles puts its outputs on the bus. *)
LEMMA Phases ==
    ASSUME EngineInv, LoadInv, Next, psg_active
    PROVE  \/ /\ Tick /\ since = 2 /\ since' = 0 /\ io' = io
              /\ \/ Steps /\ step \in 2..7 /\ step' = step + 1 /\ psg_active' = psg_active
                    /\ Now' = Now
                 \/ Frees /\ step = 8 /\ ~psg_active'
           \/ /\ Settle /\ since = 0 /\ since' = 2 /\ io' = io /\ Now' = Now
              /\ step' = step /\ psg_active' = psg_active
           \/ /\ CpuStarts \/ CpuEnds
              /\ since = 2 /\ since' = 2 /\ Now' = Now
              /\ step' = step /\ psg_active' = psg_active
<1>1. at = "EXEC" /\ step \in 2..8 /\ ~load_extension
  BY DEF LoadInv, Loading
<1>2. CASE Tick /\ Cycles
  <2>1. since = 2 /\ since' = 0 /\ io' = io
    BY <1>2 DEF Tick
  <2>2. Steps \/ Frees
    <3>1. ~Idles /\ ~Opens /\ ~Fetched
      BY <1>1 DEF Idles, Opens, Fetched
    <3>2. ~Takes
      BY <1>1 DEF Takes
    <3>3. ~Extends
      BY <1>1 DEF Extends
    <3> QED BY <1>2, <3>1, <3>2, <3>3 DEF Cycles
  <2>3. Steps => step \in 2..7 /\ step' = step + 1 /\ psg_active' = psg_active /\ Now' = Now
    BY DEF Steps, Now
  <2>4. Frees => step = 8 /\ ~psg_active'
    BY DEF Frees
  <2> QED BY <1>2, <2>1, <2>2, <2>3, <2>4
<1>3. ~NewLine
  BY <1>1 DEF NewLine
<1>4. CASE (Settle \/ CpuStarts \/ CpuEnds) /\ Unmoved
  <2>1. step' = step /\ psg_active' = psg_active /\ Now' = Now
    BY <1>4 DEF Unmoved, LoadKept, Now
  <2>2. Settle => since = 0 /\ since' = 2 /\ io' = io
    BY DEF Settle
  <2>3. (CpuStarts \/ CpuEnds) => since = 2 /\ since' = 2
    BY DEF CpuStarts, CpuEnds
  <2> QED BY <1>4, <2>1, <2>2, <2>3
<1> QED BY <1>2, <1>3, <1>4, Clocks

LEMMA ChipStep ==
    ASSUME EngineInv, LoadInv, PortInv, ChipInv, PortInv', Next
    PROVE  ChipInv'
<1>1. BusClock(io', dma)
  BY Clocks
<1>2. CASE ~psg_active
  <2>1. /\ psg_addr' = cpu_psg_addr' /\ psg_reg' = [r \in Registers |-> NextReg(r)]
        /\ ~Begins => Obeyed'
    BY <1>1, <1>2, ChipFree
  <2>2. psg_reg' = [r \in Registers |-> psg_reg'[r]]
    BY <2>1
  <2>3. psg_active' => step' = 2 /\ since' = 0
    <3>1. CASE Tick /\ Cycles
      <4>1. psg_active' => Takes
        BY <1>2, <3>1 DEF Cycles, Idles, Opens, Fetched, Steps, Frees, Extends, LoadKept
      <4> QED BY <3>1, <4>1 DEF Takes, Tick
    <3>2. CASE Unmoved \/ Lines
      BY <1>2, <3>2 DEF Unmoved, Lines, LoadKept
    <3> QED BY <3>1, <3>2, Clocks
  <2>4. (~Foreign)' /\ (~Landed)'
    <3>1. CASE ~psg_active'
      BY <3>1 DEF Foreign, Landed
    <3>2. CASE psg_active'
      <4>1. PICK s, t : s = step' /\ t = since'
        OBVIOUS
      <4>2. s = 2 /\ t = 0
        BY <2>3, <3>2, <4>1
      <4>3. s \notin 3..5 /\ s # 6 /\ s # 4 /\ s \notin 5..8 /\ t # 2
        BY <4>2
      <4> QED BY <4>1, <4>3 DEF Foreign, Landed
    <3> QED BY <3>1, <3>2
  <2>5. (io' = Idle \/ Pending' \/ psg_active') => ~Begins
    <3>1. Begins => psg_active' = psg_active /\ cpu_ppi_started' /\ Access(io')
      <4>1. Begins => psg_active' = psg_active
        BY BeginsEarly
      <4>2. Begins => cpu_ppi_started'
        BY <1>1, PortsMove DEF Begins
      <4> QED BY <4>1, <4>2 DEF Begins
    <3> QED BY <1>2, <3>1 DEF Pending, Idle, Access
  <2> QED BY <2>1, <2>2, <2>4, <2>5 DEF ChipInv
<1>3. CASE psg_active
  <2>1. /\ cpu_psg_addr' = cpu_psg_addr /\ portC' = portC /\ portAout' = portAout
        /\ step \in 2..8 /\ Now.reg \in Registers /\ Now.reg \notin CpuData
        /\ step = 2 => psg_addr' = Now.reg
        /\ step = 6 => psg_addr' = cpu_psg_addr
        /\ step \notin {2, 6} => psg_addr' = psg_addr
        /\ step = 4 => psg_reg' = [psg_reg EXCEPT ![Now.reg] = Now.data]
        /\ step # 4 => psg_reg' = psg_reg
    BY <1>1, <1>3, ChipTaken
  <2>2. psg_reg = [r \in Registers |-> psg_reg[r]] /\ cpu_psg_addr \in CpuData
    BY DEF ChipInv, PortInv
  <2>3. psg_reg' = [r \in Registers |-> psg_reg'[r]]
    BY <2>1, <2>2
  <2>4. \A r \in Registers : r # Now.reg => psg_reg'[r] = psg_reg[r]
    BY <2>1, <2>2
  <2>5. step = 4 => psg_reg'[Now.reg] = Now.data
    BY <2>1, <2>2
  <2>6. Obeyed'
    <3>1. Obeyed
      BY <1>3 DEF ChipInv
    <3>2. cpu_psg_addr # Now.reg
      BY <2>1, <2>2
    <3> QED BY <2>1, <2>4, <3>1, <3>2 DEF Obeyed
  <2>7. CASE psg_active'
    <3>1. PICK s, k, t, u : s = step /\ k = step' /\ t = since /\ u = since'
      OBVIOUS
    <3>2. /\ Now' = Now
          /\ \/ t = 2 /\ u = 0 /\ s \in 2..7 /\ k = s + 1
             \/ t = 0 /\ u = 2 /\ k = s
             \/ t = 2 /\ u = 2 /\ k = s
      BY <1>3, <2>7, <3>1, Phases
    <3>3. s \in 2..8
      BY <2>1, <3>1
    <3>4. /\ ((s = 2 /\ t = 2) \/ s \in 3..5 \/ (s = 6 /\ t = 0)) => psg_addr = Now.reg
          /\ ~((s = 2 /\ t = 2) \/ s \in 3..5 \/ (s = 6 /\ t = 0)) => psg_addr = cpu_psg_addr \/ s = 2
          /\ ((s = 4 /\ t = 2) \/ s \in 5..8) => psg_reg[Now.reg] = Now.data
      BY <1>3, <3>1 DEF ChipInv, Foreign, Landed
    <3>5. ((k = 2 /\ u = 2) \/ k \in 3..5 \/ (k = 6 /\ u = 0)) => psg_addr' = Now.reg
      BY <2>1, <3>1, <3>2, <3>3, <3>4
    <3>6. ~((k = 2 /\ u = 2) \/ k \in 3..5 \/ (k = 6 /\ u = 0)) => psg_addr' = cpu_psg_addr \/ k = 2
      BY <2>1, <3>1, <3>2, <3>3, <3>4
    <3>7. ((k = 4 /\ u = 2) \/ k \in 5..8) => psg_reg'[Now.reg] = Now.data
      <4>1. ((k = 4 /\ u = 2) \/ k \in 5..8) => s = 4 \/ ((s = 4 /\ t = 2) \/ s \in 5..8)
        BY <3>2, <3>3
      <4> QED BY <2>1, <2>5, <3>1, <3>4, <4>1
    <3> QED BY <2>1, <2>3, <2>6, <2>7, <3>1, <3>2, <3>5, <3>6, <3>7 DEF ChipInv, Foreign, Landed
  <2>8. CASE ~psg_active'
    <3>1. step = 8
      BY <1>3, <2>8, Phases
    <3>2. psg_addr' = cpu_psg_addr'
      <4>1. psg_addr' = psg_addr
        BY <2>1, <3>1
      <4>2. ~Foreign /\ step # 2
        BY <3>1 DEF Foreign
      <4> QED BY <2>1, <4>1, <4>2 DEF ChipInv
    <3>3. (~Foreign)' /\ (~Landed)'
      BY <2>8 DEF Foreign, Landed
    <3> QED BY <2>3, <2>6, <3>2, <3>3 DEF ChipInv
  <2> QED BY <2>7, <2>8
<1> QED BY <1>2, <1>3

-----------------------------------------------------------------------------
(* What the orders so far amount to. *)
LEMMA Typed ==
    ASSUME PortInv
    PROVE  portAout \in CpuData /\ NextAddr \in CpuData
  BY DEF PortInv, CpuData, portAout, NextAddr

LEMMA OrdersPass ==
    ASSUME WantInv, CpuStarts, ~Pending
    PROVE  /\ want' = [addr |-> want'.addr, reg |-> want'.reg]
           /\ want'.reg = [r \in Registers |-> want'.reg[r]]
           /\ want'.addr = IF PinsAfter(io') = Selects THEN DataAfter(io') ELSE want.addr
           /\ \A r \in Registers :
                 want'.reg[r] = IF PinsAfter(io') = Stores /\ r = want.addr
                                THEN DataAfter(io') ELSE want.reg[r]
<1> DEFINE pins == PinsAfter(io')  data == DataAfter(io')
<1>1. want' = Ordered(want, pins, data)
  BY DEF CpuStarts, CpuOrders, DataAfter
<1> HIDE DEF pins, data
<1>2. /\ want = [addr |-> want.addr, reg |-> want.reg]
      /\ want.reg = [r \in Registers |-> want.reg[r]]
  BY DEF WantInv
<1>3. CASE pins = Selects
  <2>1. want' = [want EXCEPT !.addr = data]
    BY <1>1, <1>3, PinFacts DEF Ordered, Selects, Stores
  <2>2. want' = [addr |-> data, reg |-> want.reg]
    BY <1>2, <2>1
  <2> QED BY <1>2, <1>3, <2>2, PinFacts DEF pins, data
<1>4. CASE pins = Stores /\ want.addr \in Registers
  <2>1. want' = [want EXCEPT !.reg[want.addr] = data]
    BY <1>1, <1>4, PinFacts DEF Ordered, Stores, Selects
  <2>2. want' = [addr |-> want.addr, reg |-> [want.reg EXCEPT ![want.addr] = data]]
    <3>1. want' = [want EXCEPT !.reg = [want.reg EXCEPT ![want.addr] = data]]
      BY <2>1
    <3> QED BY <1>2, <3>1
  <2> QED BY <1>2, <1>4, <2>2, PinFacts DEF pins, data
<1>5. CASE pins # Selects /\ ~(pins = Stores /\ want.addr \in Registers)
  <2>1. want' = want
    BY <1>1, <1>5 DEF Ordered, Stores, Selects
  <2> QED BY <1>2, <1>5, <2>1 DEF pins, data
<1> QED BY <1>3, <1>4, <1>5

(* The CPU's access is made: the chip is about to be what was wanted. *)
LEMMA WantFree ==
    ASSUME EngineInv, LoadInv, PortInv, ChipInv, WantInv, PortInv', Next, ~psg_active
    PROVE  WantInv'
<1>1. BusClock(io', dma)
  BY Clocks
<1>2. /\ cpu_psg_addr' = NextAddr
      /\ psg_reg' = [r \in Registers |-> NextReg(r)]
  BY <1>1, ChipFree
<1>3. ~Pending' /\ ~Landed'
  <2>1. ~Pending'
    BY <1>1, PortsMove DEF Pending
  <2>2. psg_active' => step' = 2
    <3>1. CASE Tick /\ Cycles
      <4>1. psg_active' => Takes
        BY <3>1 DEF Cycles, Idles, Opens, Fetched, Steps, Frees, Extends, LoadKept
      <4> QED BY <4>1 DEF Takes
    <3>2. CASE Unmoved \/ Lines
      BY <3>2 DEF Unmoved, Lines, LoadKept
    <3> QED BY <3>1, <3>2, Clocks
  <2>3. Landed' => psg_active' /\ step' # 2
    <3>1. PICK s : s = step'
      OBVIOUS
    <3>2. Landed' => psg_active' /\ (s = 4 \/ s \in 5..8)
      BY <3>1 DEF Landed
    <3> QED BY <3>1, <3>2
  <2> QED BY <2>1, <2>2, <2>3
<1>4. /\ want.addr = IF Pending /\ PinsAfter(io) = Selects THEN DataAfter(io) ELSE NextAddr
      /\ \A r \in Registers :
            want.reg[r] = IF Pending /\ PinsAfter(io) = Stores /\ r = NextAddr
                          THEN DataAfter(io) ELSE NextReg(r)
      /\ want = [addr |-> want.addr, reg |-> want.reg]
      /\ want.reg = [r \in Registers |-> want.reg[r]]
  BY DEF WantInv, Landed
<1>5. SUFFICES /\ want' = [addr |-> want'.addr, reg |-> want'.reg]
               /\ want'.reg = [r \in Registers |-> want'.reg[r]]
               /\ want'.addr = NextAddr'
               /\ \A r \in Registers : want'.reg[r] = NextReg(r)'
  BY <1>3 DEF WantInv
<1>6. CASE Begins
  <2>1. portC' = PinsAfter(io') /\ portAout' = DataAfter(io')
    BY <1>1, <1>6, PortsMove
  <2>2. /\ NextAddr' = IF PinsAfter(io') = Selects THEN DataAfter(io') ELSE NextAddr
        /\ \A r \in Registers :
              NextReg(r)' = IF PinsAfter(io') = Stores /\ r = NextAddr
                            THEN DataAfter(io') ELSE NextReg(r)
    BY <1>2, <2>1 DEF NextAddr, NextReg
  <2>3. CASE CpuStarts
    <3>1. ~Pending
      BY <2>3, BeginsEarly
    <3>2. /\ want' = [addr |-> want'.addr, reg |-> want'.reg]
          /\ want'.reg = [r \in Registers |-> want'.reg[r]]
          /\ want'.addr = IF PinsAfter(io') = Selects THEN DataAfter(io') ELSE want.addr
          /\ \A r \in Registers :
                want'.reg[r] = IF PinsAfter(io') = Stores /\ r = want.addr
                               THEN DataAfter(io') ELSE want.reg[r]
      BY <2>3, <3>1, OrdersPass
    <3> QED BY <1>4, <2>2, <3>1, <3>2
  <2>4. CASE ~CpuStarts
    <3>1. io' = io /\ Pending /\ want' = want
      BY <1>6, <2>4, BeginsEarly
    <3>2. PinsAfter(io') = PinsAfter(io) /\ DataAfter(io') = DataAfter(io)
      BY <3>1
    <3> QED BY <1>4, <2>2, <3>1, <3>2
  <2> QED BY <2>3, <2>4
<1>7. CASE ~Begins
  <2>1. portC' = portC /\ portAout' = portAout
    BY <1>1, <1>7, PortsMove
  <2>2. ~Pending
    BY <1>7, BeginsEarly
  <2>3. want' = want
    <3>1. ~CpuStarts
      <4>1. CpuStarts => Access(io')
        BY OperationFacts, BeginsEarly
      <4> QED BY <1>7, <4>1, BeginsEarly DEF Begins
    <3>2. CASE Tick
      BY <3>2 DEF Tick, ListOrders
    <3>3. CASE Settle \/ NewLine \/ CpuEnds
      BY <3>3 DEF Settle, NewLine, CpuEnds
    <3> QED BY <3>1, <3>2, <3>3 DEF Next
  <2>4. NextAddr' = NextAddr
    BY <1>2, <2>1 DEF NextAddr
  <2>5. \A r \in Registers : NextReg(r)' = NextReg(r)
    BY <1>2, <2>1, PinFacts DEF NextAddr, NextReg
  <2> QED BY <1>4, <2>2, <2>3, <2>4, <2>5
<1> QED BY <1>6, <1>7

(* The LOAD goes on: the CPU's orders stand, and the LOAD's counts as ordered
   when the bus is given back. *)
LEMMA WantTaken ==
    ASSUME EngineInv, LoadInv, PortInv, ChipInv, WantInv, ChipInv', Next, psg_active
    PROVE  WantInv'
<1>1. BusClock(io', dma)
  BY Clocks
<1>2. /\ cpu_psg_addr' = cpu_psg_addr /\ portC' = portC /\ portAout' = portAout
      /\ inputA' = inputA /\ portA' = portA
      /\ step \in 2..8 /\ Now.reg \in Registers /\ Now.reg \notin CpuData
      /\ step = 4 => psg_reg' = [psg_reg EXCEPT ![Now.reg] = Now.data]
      /\ step # 4 => psg_reg' = psg_reg
  BY <1>1, ChipTaken
<1>3. psg_reg = [r \in Registers |-> psg_reg[r]]
  BY DEF ChipInv
<1>4. \A r \in Registers : r # Now.reg => psg_reg'[r] = psg_reg[r]
  BY <1>2, <1>3
<1>5. /\ NextAddr' = NextAddr /\ NextAddr \in CpuData
      /\ \A r \in Registers : r # Now.reg => NextReg(r)' = NextReg(r)
      /\ \A r \in Registers : r = Now.reg => NextReg(r) = psg_reg[r] /\ NextReg(r)' = psg_reg'[r]
      /\ Now.reg # NextAddr
  <2>1. NextAddr' = NextAddr /\ NextAddr \in CpuData
    BY <1>2, Typed DEF NextAddr
  <2>2. Now.reg # NextAddr /\ Now.reg # cpu_psg_addr
    <3>1. cpu_psg_addr \in CpuData
      BY DEF PortInv
    <3> QED BY <1>2, <2>1, <3>1
  <2>3. \A r \in Registers :
           /\ NextReg(r) = IF portC = Stores /\ r = cpu_psg_addr THEN portAout ELSE psg_reg[r]
           /\ NextReg(r)' = IF portC = Stores /\ r = cpu_psg_addr THEN portAout ELSE psg_reg'[r]
    BY <1>2 DEF NextReg
  <2> QED BY <1>4, <2>1, <2>2, <2>3
<1>6. /\ want.addr = IF Pending /\ PinsAfter(io) = Selects THEN DataAfter(io) ELSE NextAddr
      /\ \A r \in Registers :
            (Landed /\ r = Now.reg)
            \/ want.reg[r] = IF Pending /\ PinsAfter(io) = Stores /\ r = NextAddr
                             THEN DataAfter(io) ELSE NextReg(r)
      /\ want = [addr |-> want.addr, reg |-> want.reg]
      /\ want.reg = [r \in Registers |-> want.reg[r]]
  BY DEF WantInv
<1>7. cpu_ppi_started' <=> Access(io') /\ cpu_ppi_started
  BY <1>1, PortsMove
<1>8. CASE CpuStarts
  <2>1. /\ ~Pending /\ ~cpu_ppi_started /\ Access(io')
    BY <1>8, BeginsEarly, OperationFacts
  <2>2. Pending'
    BY <1>7, <2>1 DEF Pending
  <2>3. PinsAfter(io)' = PinsAfter(io') /\ DataAfter(io)' = DataAfter(io')
    BY <1>2 DEF PinsAfter, DataAfter
  <2>4. /\ want' = [addr |-> want'.addr, reg |-> want'.reg]
        /\ want'.reg = [r \in Registers |-> want'.reg[r]]
        /\ want'.addr = IF PinsAfter(io') = Selects THEN DataAfter(io') ELSE want.addr
        /\ \A r \in Registers :
              want'.reg[r] = IF PinsAfter(io') = Stores /\ r = want.addr
                             THEN DataAfter(io') ELSE want.reg[r]
    BY <1>8, <2>1, OrdersPass
  <2>5. /\ Now' = Now /\ step' = step /\ since = 2 /\ since' = 2 /\ psg_active' = psg_active
    BY <1>8, Phases DEF CpuStarts, Tick, Settle, Operations, Idle
  <2>6. Landed' <=> Landed
    BY <2>5 DEF Landed
  <2>7. want.addr = NextAddr
    BY <1>6, <2>1
  <2>8. \A r \in Registers : (Landed /\ r = Now.reg) \/ NextReg(r)' = NextReg(r)
    <3>1. step = 4 => Landed
      BY <2>5 DEF Landed
    <3>2. step # 4 => \A r \in Registers : psg_reg'[r] = psg_reg[r]
      BY <1>2
    <3>3. step # 4 => \A r \in Registers : NextReg(r)' = NextReg(r)
      BY <1>5, <3>2
    <3> QED BY <1>5, <3>1, <3>3
  <2>9. want'.addr = IF Pending' /\ PinsAfter(io)' = Selects THEN DataAfter(io)' ELSE NextAddr'
    BY <1>5, <2>2, <2>3, <2>4, <2>7
  <2>10. ASSUME NEW r \in Registers, ~(Landed' /\ r = Now'.reg)
         PROVE  want'.reg[r] = IF Pending' /\ PinsAfter(io)' = Stores /\ r = NextAddr'
                               THEN DataAfter(io)' ELSE NextReg(r)'
    <3>1. ~(Landed /\ r = Now.reg)
      BY <2>5, <2>6, <2>10
    <3>2. want.reg[r] = NextReg(r) /\ NextReg(r)' = NextReg(r)
      BY <1>6, <2>1, <2>8, <3>1
    <3> QED BY <1>5, <2>2, <2>3, <2>4, <2>7, <3>2
  <2> QED BY <2>4, <2>9, <2>10 DEF WantInv
<1>9. CASE ~CpuStarts
  <2>1. /\ Pending' <=> Pending
        /\ Pending => PinsAfter(io)' = PinsAfter(io) /\ DataAfter(io)' = DataAfter(io)
    <3>1. Pending => io' = io
      <4>1. Pending => ~CpuEnds
        BY DEF CpuEnds, Waits, Pending, dma, LoadInv
      <4> QED BY <1>9, <4>1 DEF Next, Tick, Settle, NewLine
    <3>2. ~Pending => ~Pending'
      <4>1. Access(io') => io' = io
        <5>1. (Tick \/ Settle \/ NewLine) => io' = io
          BY DEF Tick, Settle, NewLine
        <5>2. CpuEnds => ~Access(io')
          BY DEF CpuEnds, Idle, Access
        <5> QED BY <1>9, <5>1, <5>2 DEF Next
      <4> QED BY <1>7, <4>1 DEF Pending
    <3>3. Pending => Pending'
      BY <1>7, <3>1 DEF Pending
    <3>4. Pending => PinsAfter(io)' = PinsAfter(io) /\ DataAfter(io)' = DataAfter(io)
      BY <1>2, <3>1 DEF PinsAfter, DataAfter
    <3> QED BY <3>2, <3>3, <3>4
  <2>2. CASE psg_active'
    <3>1. want' = want
      BY <1>9, <2>2 DEF Next, Tick, Settle, NewLine, CpuEnds, ListOrders
    <3>2. Now' = Now
      BY <2>2, Phases
    <3>3. Landed => Landed'
      <4>1. PICK s, k, t, u : s = step /\ k = step' /\ t = since /\ u = since'
        OBVIOUS
      <4>2. \/ t = 2 /\ u = 0 /\ s \in 2..7 /\ k = s + 1
            \/ t = 0 /\ u = 2 /\ k = s
            \/ t = 2 /\ u = 2 /\ k = s
        BY <2>2, <4>1, Phases
      <4>3. ((s = 4 /\ t = 2) \/ s \in 5..8) => ((k = 4 /\ u = 2) \/ k \in 5..8)
        BY <4>2
      <4> QED BY <2>2, <4>1, <4>3 DEF Landed
    <3>4. step = 4 => Landed'
      <4>1. PICK s, k, t, u : s = step /\ k = step' /\ t = since /\ u = since'
        OBVIOUS
      <4>2. \/ t = 2 /\ u = 0 /\ s \in 2..7 /\ k = s + 1
            \/ t = 0 /\ u = 2 /\ k = s
            \/ t = 2 /\ u = 2 /\ k = s
        BY <2>2, <4>1, Phases
      <4>3. s = 4 => ((k = 4 /\ u = 2) \/ k \in 5..8)
        BY <4>2
      <4> QED BY <2>2, <4>1, <4>3 DEF Landed
    <3>5. \A r \in Registers : (Landed' /\ r = Now.reg) \/ NextReg(r)' = NextReg(r)
      <4>1. step # 4 => \A r \in Registers : psg_reg'[r] = psg_reg[r]
        BY <1>2
      <4>2. step # 4 => \A r \in Registers : NextReg(r)' = NextReg(r)
        BY <1>5, <4>1
      <4> QED BY <1>5, <3>4, <4>2
    <3>6. want'.addr = IF Pending' /\ PinsAfter(io)' = Selects THEN DataAfter(io)' ELSE NextAddr'
      BY <1>5, <1>6, <2>1, <3>1
    <3>7. ASSUME NEW r \in Registers, ~(Landed' /\ r = Now'.reg)
          PROVE  want'.reg[r] = IF Pending' /\ PinsAfter(io)' = Stores /\ r = NextAddr'
                                THEN DataAfter(io)' ELSE NextReg(r)'
      <4>1. ~(Landed /\ r = Now.reg) /\ NextReg(r)' = NextReg(r)
        BY <3>2, <3>3, <3>5, <3>7
      <4> QED BY <1>5, <1>6, <2>1, <3>1, <4>1
    <3> QED BY <1>6, <3>1, <3>6, <3>7 DEF WantInv
  <2>3. CASE ~psg_active'
    <3>1. Tick /\ step = 8
      BY <2>3, Phases
    <3>2. want' = [want EXCEPT !.reg[Now.reg] = Now.data]
      BY <2>3, <3>1 DEF Tick, ListOrders, Now
    <3>3. want' = [addr |-> want.addr, reg |-> [want.reg EXCEPT ![Now.reg] = Now.data]]
      <4>1. want' = [want EXCEPT !.reg = [want.reg EXCEPT ![Now.reg] = Now.data]]
        BY <3>2
      <4> QED BY <1>6, <4>1
    <3>4. /\ want'.addr = want.addr /\ want'.reg = [r \in Registers |-> want'.reg[r]]
          /\ want'.reg[Now.reg] = Now.data
          /\ \A r \in Registers : r # Now.reg => want'.reg[r] = want.reg[r]
      BY <1>2, <1>6, <3>3
    <3>5. \A r \in Registers : r = Now.reg => NextReg(r)' = Now.data
      <4>1. Landed
        BY <3>1 DEF Landed
      <4>2. psg_reg[Now.reg] = Now.data
        BY <4>1 DEF ChipInv
      <4> QED BY <1>2, <1>5, <3>1, <4>2
    <3>6. want'.addr = IF Pending' /\ PinsAfter(io)' = Selects THEN DataAfter(io)' ELSE NextAddr'
      BY <1>5, <1>6, <2>1, <3>4
    <3>7. ASSUME NEW r \in Registers
          PROVE  want'.reg[r] = IF Pending' /\ PinsAfter(io)' = Stores /\ r = NextAddr'
                                THEN DataAfter(io)' ELSE NextReg(r)'
      <4>1. CASE r = Now.reg
        BY <1>5, <3>4, <3>5, <4>1
      <4>2. CASE r # Now.reg
        BY <1>5, <1>6, <2>1, <3>4, <4>2
      <4> QED BY <4>1, <4>2
    <3> QED BY <3>3, <3>4, <3>6, <3>7 DEF WantInv
  <2> QED BY <2>2, <2>3
<1> QED BY <1>8, <1>9

(* A free port shows the CPU's register. *)
LEMMA ReadFree ==
    ASSUME PortInv, ChipInv, WantInv, ~psg_active, ~Pending
    PROVE  PpiOut(dma) = ReadValue
<1>1. ~dma.active
  BY DEF dma
<1>2. ChipPins(dma) = portC
  BY <1>1 DEF ChipPins
<1>3. psg_addr = cpu_psg_addr
  BY DEF ChipInv, Foreign
<1>4. portC = Shows => want.addr = psg_addr
  BY <1>3, PinFacts DEF WantInv, NextAddr
<1>5. ASSUME portC = Shows, NEW r \in Registers PROVE want.reg[r] = psg_reg[r]
  BY <1>5, PinFacts DEF WantInv, Landed, NextReg
<1>6. ChipOut(dma) = IF portC = Shows /\ want.addr \in Registers
                     THEN want.reg[want.addr] ELSE Floating
  BY <1>2, <1>4, <1>5 DEF ChipOut, Shows
<1> QED BY <1>6 DEF PpiOut, ReadValue

LEMMA ReadStep ==
    ASSUME EngineInv, LoadInv, PortInv, ChipInv, WantInv, ReadInv, Next
    PROVE  ReadInv'
<1>1. BusClock(io', dma)
  BY Clocks
<1> SUFFICES ASSUME io' = ReadA, cpu_ppi_started'
             PROVE  cpu_ppi_read_latch' = ReadValue'
  BY DEF ReadInv
<1>2. /\ portC' = portC /\ inputA' = inputA /\ portA' = portA
      /\ cpu_ppi_started \/ ~psg_active
      /\ Access(io')
  BY <1>1, PortsMove
<1>3. (dma.owner <=> psg_active) /\ io'.kind = "read"
  BY DEF dma, LoadInv, ReadA
<1>4. cpu_ppi_read_latch' = IF ~dma.owner /\ ~cpu_ppi_started THEN PpiOut(dma) ELSE cpu_ppi_read_latch
  BY <1>1, <1>3 DEF BusClock, GlueClock
<1>5. want'.addr = want.addr /\ (want.addr \in Registers => want'.reg[want.addr] = want.reg[want.addr])
  <2>1. CASE CpuStarts
    <3>1. want' = Ordered(want, PinsAfter(io'), DataAfter(io')) /\ ~Pending /\ io = Idle
      BY <2>1, BeginsEarly DEF CpuStarts, CpuOrders, DataAfter
    <3>2. PinsAfter(io') = portC /\ DataAfter(io') = portAout
      BY <1>3 DEF PinsAfter, DataAfter, portAout
    <3>3. /\ want'.addr = IF PinsAfter(io') = Selects THEN DataAfter(io') ELSE want.addr
          /\ \A r \in Registers :
                want'.reg[r] = IF PinsAfter(io') = Stores /\ r = want.addr
                               THEN DataAfter(io') ELSE want.reg[r]
      BY <2>1, <3>1, OrdersPass
    <3>4. portC = Selects => want.addr = portAout
      BY <3>1 DEF WantInv, NextAddr
    <3>5. portC = Stores => want.addr = cpu_psg_addr
      BY <3>1, PinFacts DEF WantInv, NextAddr
    <3>6. (portC = Stores /\ want.addr \in Registers) => want.reg[want.addr] = portAout
      <4>1. cpu_psg_addr # Now.reg \/ ~Landed
        <5>1. psg_active => Now.reg \notin CpuData
          BY <1>1, ChipTaken
        <5> QED BY <5>1 DEF PortInv, Landed
      <4> QED BY <3>1, <3>5, <4>1 DEF WantInv, NextReg
    <3> QED BY <3>2, <3>3, <3>4, <3>6
  <2>2. CASE Tick /\ psg_active /\ ~psg_active'
    <3>1. want' = [want EXCEPT !.reg[Now.reg] = Now.data]
      BY <2>2 DEF Tick, ListOrders, Now
    <3>2. want = [addr |-> want.addr, reg |-> want.reg] /\ want.reg = [r \in Registers |-> want.reg[r]]
      BY DEF WantInv
    <3>3. want' = [addr |-> want.addr, reg |-> [want.reg EXCEPT ![Now.reg] = Now.data]]
      <4>1. want' = [want EXCEPT !.reg = [want.reg EXCEPT ![Now.reg] = Now.data]]
        BY <3>1
      <4> QED BY <3>2, <4>1
    <3>4. want.addr \in CpuData
      <4>1. ~Pending
        <5>1. io' = io
          BY <2>2 DEF Tick
        <5> QED BY <1>2, <2>2, <5>1 DEF Pending
      <4> QED BY <4>1, Typed DEF WantInv
    <3>5. want.addr # Now.reg
      BY <1>1, <2>2, <3>4, ChipTaken
    <3> QED BY <3>2, <3>3, <3>5
  <2>3. CASE ~CpuStarts /\ ~(Tick /\ psg_active /\ ~psg_active')
    <3>1. want' = want
      <4>1. Tick => want' = want
        BY <2>3 DEF Tick, ListOrders
      <4>2. (Settle \/ NewLine \/ CpuEnds) => want' = want
        BY DEF Settle, NewLine, CpuEnds
      <4> QED BY <2>3, <4>1, <4>2 DEF Next
    <3> QED BY <3>1
  <2> QED BY <2>1, <2>2, <2>3
<1>6. ReadValue' = ReadValue
  BY <1>2, <1>5 DEF ReadValue
<1>7. CASE cpu_ppi_started
  <2>1. io' = io
    BY <1>2, <1>7, IoCases DEF PortInv, Access, Idle
  <2> QED BY <1>4, <1>6, <1>7, <2>1 DEF ReadInv
<1>8. CASE ~cpu_ppi_started
  <2>1. CASE ~Pending
    BY <1>2, <1>3, <1>4, <1>6, <1>8, <2>1, ReadFree
  <2>2. CASE Pending
    <3>1. io = ReadA
      BY <1>2, <2>2, IoCases DEF Pending, Access, Idle
    <3>2. /\ PinsAfter(io) = portC /\ DataAfter(io) = portAout
      BY <3>1 DEF ReadA, PinsAfter, DataAfter, portAout
    <3>4. psg_addr = cpu_psg_addr /\ ChipPins(dma) = portC
      BY <1>2, <1>8 DEF ChipInv, Foreign, ChipPins, dma
    <3>5. portC = Shows => want.addr = psg_addr
      BY <3>2, <3>4, PinFacts DEF WantInv, NextAddr
    <3>6. ASSUME portC = Shows, NEW r \in Registers PROVE want.reg[r] = psg_reg[r]
      BY <1>2, <1>8, <3>2, <3>6, PinFacts DEF WantInv, Landed, NextReg
    <3>7. ChipOut(dma) = IF portC = Shows /\ want.addr \in Registers
                         THEN want.reg[want.addr] ELSE Floating
      BY <3>4, <3>5, <3>6 DEF ChipOut, Shows
    <3>8. PpiOut(dma) = ReadValue
      BY <3>7 DEF PpiOut, ReadValue
    <3> QED BY <1>2, <1>3, <1>4, <1>6, <1>8, <3>8
  <2> QED BY <2>1, <2>2
<1> QED BY <1>7, <1>8

-----------------------------------------------------------------------------
(* At first the DMA rests and the chip has obeyed the CPU's pins. *)
LEMMA Initially ==
    ASSUME Init
    PROVE  IInv
<1>1. /\ at = "IDLE" /\ ch = 0 /\ step = 1 /\ active_ch = {} /\ ram_addr = 0
      /\ instr = [c \in Channels |-> Engine!Load(0, 0)]
      /\ dma_load_owner = FALSE /\ dma_load_busy = FALSE /\ load_extra = 0
      /\ load_extension = FALSE /\ psg_active = FALSE
  BY DEF Init, Engine!Parked
<1>2. /\ hsync_d = FALSE /\ portA \in CpuBytes /\ portC \in PinSet /\ inputA \in BOOLEAN
      /\ old_we = FALSE /\ cpu_ppi_started = FALSE /\ cpu_ppi_stolen = FALSE
      /\ psg_addr = cpu_psg_addr /\ io = Idle /\ since = 2 /\ waited = 0
      /\ want = [addr |-> psg_addr, reg |-> psg_reg] /\ load = [cycles |-> 0, worst |-> 0]
  BY DEF Init, PinSet
<1>3. ~Access(io) /\ ~Writes(io) /\ ~Pending /\ io # ReadA
  BY <1>2 DEF Idle, Access, Writes, Pending, ReadA
<1>4. ~Loading /\ ~Foreign /\ ~Landed
  BY <1>1 DEF Loading, Foreign, Landed
<1>5. EngineInv
  <2>1. chan \in [Channels -> Registry]
    <3>1. ASSUME NEW c \in Channels
          PROVE  [Engine!ZeroChannel EXCEPT !.sar = c % RamWords] \in Registry
      <4>1. c % RamWords \in Words
        BY DEF Words
      <4>2. [Engine!ZeroChannel EXCEPT !.sar = c % RamWords]
            = [sar |-> c % RamWords, pause |-> 0, presc |-> 0, loop |-> 0, loop_addr |-> 0]
        BY DEF Engine!ZeroChannel
      <4> QED BY <4>1, <4>2 DEF Registry
    <3> QED BY <3>1 DEF Init
  <2>2. ram_addr \in Words
    BY <1>1 DEF Words
  <2>3. instr = [c \in Channels |-> instr[c]]
    BY <1>1
  <2>4. step \in 1..8 /\ since \in {0, 2} /\ at \notin {"FETCH", "EXEC"}
    BY <1>1, <1>2
  <2> QED BY <1>1, <1>2, <2>1, <2>2, <2>3, <2>4 DEF EngineInv
<1>6. LoadInv
  <2>1. load_extra \in 0..2
    BY <1>1
  <2>2. ~dma_load_busy /\ ~dma_load_owner /\ ~psg_active
    BY <1>1
  <2> QED BY <1>1, <1>4, <2>1, <2>2 DEF LoadInv
<1>7. TimeInv
  BY <1>1, <1>2, <1>4 DEF TimeInv
<1>8. cpu_psg_addr = (IF portC = Selects THEN portAout ELSE cpu_psg_addr) /\ cpu_psg_addr \in CpuData
  <2>1. cpu_psg_addr \in (IF portC = Selects THEN {portAout} ELSE CpuBytes)
    BY DEF Init, Selects
  <2>2. portAout \in CpuData
    BY <1>2 DEF portAout, CpuData
  <2> QED BY <2>1, <2>2 DEF CpuData
<1>9. PortInv
  BY <1>2, <1>3, <1>8 DEF PortInv
<1>10. psg_reg = [r \in Registers |->
                    IF portC = Stores /\ r = cpu_psg_addr THEN portAout ELSE 0]
  BY <1>2 DEF Init, Stores
<1>11. /\ psg_reg = [r \in Registers |-> psg_reg[r]]
       /\ \A r \in Registers : portC = Stores /\ r = cpu_psg_addr => psg_reg[r] = portAout
  BY <1>10
<1>12. ChipInv
  BY <1>2, <1>4, <1>8, <1>11 DEF ChipInv, Obeyed
<1>13. WantInv
  BY <1>2, <1>3, <1>8, <1>11 DEF WantInv, NextAddr, NextReg
<1>14. ReadInv
  BY <1>3 DEF ReadInv
<1> QED BY <1>5, <1>6, <1>7, <1>9, <1>12, <1>13, <1>14 DEF IInv

LEMMA Stutter ==
    ASSUME IInv, UNCHANGED vars
    PROVE  IInv'
<1>1. /\ UNCHANGED <<hsync_d, at, ch, step, active_ch, instr, ram_addr, chan>>
      /\ UNCHANGED <<dma_load_owner, dma_load_busy, load_extra, load_extension>>
      /\ UNCHANGED <<psg_active, psg_bus, psg_dout>>
      /\ UNCHANGED <<portA, portC, inputA, old_we>>
      /\ UNCHANGED <<cpu_ppi_started, cpu_ppi_stolen, cpu_ppi_read_latch, cpu_psg_addr>>
      /\ UNCHANGED <<psg_addr, psg_reg, io, since, want, load, waited>>
  BY DEF vars, Engine!dmaVars, Engine!lineVars, Engine!loadVars, Engine!psgVars, busVars,
     ppiVars, glueVars
<1>2. /\ Loading' <=> Loading
      /\ Now' = Now /\ (Pending' <=> Pending) /\ portAout' = portAout
  BY <1>1 DEF Loading, Now, Pending, portAout
<1>3. EngineInv' /\ LoadInv' /\ TimeInv'
  <2>1. EngineInv'
    BY <1>1 DEF IInv, EngineInv
  <2>2. LoadInv'
    BY <1>1, <1>2 DEF IInv, LoadInv
  <2>3. TimeInv'
    BY <1>1, <1>2 DEF IInv, TimeInv
  <2> QED BY <2>1, <2>2, <2>3
<1>4. PortInv'
  BY <1>1, <1>2 DEF IInv, PortInv
<1>5. (Foreign' <=> Foreign) /\ (Landed' <=> Landed) /\ (Obeyed' <=> Obeyed)
  BY <1>1, <1>2 DEF Foreign, Landed, Obeyed
<1>6. ChipInv'
  BY <1>1, <1>2, <1>5 DEF IInv, ChipInv
<1>7. NextAddr' = NextAddr /\ (\A r \in Registers : NextReg(r)' = NextReg(r))
      /\ PinsAfter(io)' = PinsAfter(io) /\ DataAfter(io)' = DataAfter(io)
  BY <1>1, <1>2 DEF NextAddr, NextReg, PinsAfter, DataAfter
<1>8. WantInv'
  BY <1>1, <1>2, <1>5, <1>7 DEF IInv, WantInv
<1>9. ReadInv'
  BY <1>1 DEF IInv, ReadInv, ReadValue
<1> QED BY <1>3, <1>4, <1>6, <1>8, <1>9 DEF IInv

LEMMA Inductive ==
    ASSUME IInv, [Next]_vars
    PROVE  IInv'
<1>1. CASE Next
  <2>1. EngineInv /\ LoadInv /\ TimeInv /\ PortInv /\ ChipInv /\ WantInv /\ ReadInv
    BY DEF IInv
  <2>2. EngineInv' /\ LoadInv' /\ TimeInv'
    BY <1>1, <2>1, EngineStep, LoadStep, TimeStep
  <2>3. PortInv' /\ ReadInv'
    BY <1>1, <2>1, PortStep, ReadStep
  <2>4. ChipInv'
    BY <1>1, <2>1, <2>3, ChipStep
  <2>5. WantInv'
    BY <1>1, <2>1, <2>3, <2>4, WantFree, WantTaken
  <2> QED BY <2>2, <2>3, <2>4, <2>5 DEF IInv
<1>2. CASE UNCHANGED vars
  BY <1>2, Stutter
<1> QED BY <1>1, <1>2

(* The sequencer, the bus, the 8255 and the chip keep in step: the invariant
   holds in every state. *)
THEOREM InvariantHolds == Spec => []IInv
<1>1. Init => IInv
  BY Initially
<1>2. IInv /\ [Next]_vars => IInv'
  BY Inductive
<1> QED BY <1>1, <1>2, PTL DEF Spec

(* Whenever the bus is free the chip is as if the CPU's accesses and the LOADs
   had come one after the other: none is lost, none is made twice, and the
   register that the CPU had selected is selected again. *)
THEOREM OrderIsKept == Spec => []ChipAsOrdered
<1>1. IInv => ChipAsOrdered
  <2> SUFFICES ASSUME IInv, io = Idle, since = 2, ~psg_active
               PROVE  psg_addr = want.addr /\ psg_reg = want.reg
    BY DEF ChipAsOrdered
  <2>1. ~Pending /\ ~Foreign /\ ~Landed
    BY DEF Pending, Idle, Access, Foreign, Landed
  <2>2. /\ psg_addr = cpu_psg_addr /\ Obeyed
        /\ psg_reg = [r \in Registers |-> psg_reg[r]]
    BY <2>1 DEF IInv, ChipInv
  <2>3. /\ want.addr = NextAddr /\ want.reg = [r \in Registers |-> want.reg[r]]
        /\ \A r \in Registers : want.reg[r] = NextReg(r)
    BY <2>1 DEF IInv, WantInv
  <2>4. NextAddr = cpu_psg_addr
    BY <2>2 DEF NextAddr, Obeyed
  <2>5. \A r \in Registers : NextReg(r) = psg_reg[r]
    BY <2>2 DEF NextReg, Obeyed
  <2>6. \A r \in Registers : want.reg[r] = psg_reg[r]
    BY <2>3, <2>5
  <2>7. [r \in Registers |-> want.reg[r]] = [r \in Registers |-> psg_reg[r]]
    BY <2>6
  <2> QED BY <2>2, <2>3, <2>4, <2>7
<1> QED BY <1>1, InvariantHolds, PTL

(* A LOAD holds the CPU for at most seven cycles: its ownership of the bus
   ends on the eighth, whatever its extension still takes. *)
THEOREM WaitIsBounded == Spec => []WaitBounded
<1>1. IInv => WaitBounded
  BY DEF IInv, TimeInv, WaitBounded
<1> QED BY <1>1, InvariantHolds, PTL

(* A read of the sound chip that has begun returns the CPU's register, also
   when a LOAD takes the bus before the CPU ends its cycle. *)
THEOREM ReadsAreOwn == Spec => ReadIsOwn
<1>1. ASSUME IInv, [Next]_vars, io = ReadA, io' = Idle
      PROVE  CpuReads(dma) = ReadValue
  <2>1. Access(io) /\ io # Idle /\ io # io'
    BY <1>1 DEF ReadA, Idle, Access
  <2>2. CpuEnds
    <3>1. ~UNCHANGED vars
      BY <1>1, <2>1 DEF vars
    <3> QED BY <1>1, <2>1, <3>1 DEF Next, Tick, Settle, NewLine, CpuStarts
  <2>3. since = 2 /\ (~psg_active \/ cpu_ppi_started)
    BY <1>1, <2>1, <2>2 DEF CpuEnds, Waits, dma, IInv, LoadInv
  <2>4. ~Pending
    BY <1>1, <2>3 DEF IInv, PortInv, Pending
  <2>5. cpu_ppi_started
    BY <2>1, <2>4 DEF Pending
  <2>6. CASE cpu_ppi_stolen \/ psg_active
    <3>1. dma.owner <=> psg_active
      BY <1>1 DEF dma, IInv, LoadInv
    <3> QED BY <1>1, <2>5, <2>6, <3>1 DEF CpuReads, IInv, ReadInv
  <2>7. CASE ~cpu_ppi_stolen /\ ~psg_active
    <3>1. PpiOut(dma) = ReadValue
      BY <1>1, <2>4, <2>7, ReadFree DEF IInv
    <3>2. ~dma.owner
      BY <1>1, <2>7 DEF dma, IInv, LoadInv
    <3> QED BY <2>7, <3>1, <3>2 DEF CpuReads
  <2> QED BY <2>6, <2>7
<1>2. IInv /\ [Next]_vars =>
         [io = ReadA /\ io' = Idle =>
            CpuReads(dma) =
               IF ~inputA THEN portA
               ELSE IF portC = Pins(FALSE, TRUE) /\ want.addr \in Registers
               THEN want.reg[want.addr] ELSE Floating]_vars
  BY <1>1 DEF ReadValue, Shows
<1> QED BY <1>2, InvariantHolds, PTL DEF Spec, ReadIsOwn

(* A LOAD takes eight cycles, nine when the CPU accesses the 8255 in any of
   them and ten when such an access writes a register of the chip. *)
THEOREM LoadsTakeTheirTime == Spec => LoadTakesItsTime
<1>1. ASSUME IInv, Next, dma_load_busy, ~dma_load_busy'
      PROVE  load'.cycles = 8 + load'.worst
  <2>1. EngineInv /\ LoadInv /\ TimeInv /\ Loading
    BY <1>1 DEF IInv, LoadInv
  <2>2. Tick /\ Cycles
    <3>1. ~Unmoved /\ ~Lines
      BY <1>1 DEF Unmoved, Lines, LoadKept
    <3> QED BY <1>1, <2>1, <3>1, Clocks
  <2>3. /\ load_extra \in 0..2 /\ Clash \in 0..2 /\ Worse \in 0..2
        /\ load.cycles \in Nat /\ load.worst \in 0..2
    BY <2>1 DEF LoadInv, TimeInv, Clash, Worse
  <2>4. load'.cycles = load.cycles + 1 /\ load'.worst = IF Clash > load.worst THEN Clash ELSE load.worst
    <3>1. load' = [cycles |-> load.cycles + 1, worst |-> Max({load.worst, Clash})]
      BY <1>1, <2>2 DEF Tick, LoadCounts
    <3> QED BY <2>3, <3>1, Worst
  <2>5. Frees \/ Extends
    <3>1. ~Idles /\ ~Opens /\ ~Fetched /\ ~Takes
      BY <2>1 DEF Idles, Opens, Fetched, Takes, Loading
    <3>2. ~Steps
      BY <1>1 DEF Steps
    <3> QED BY <2>2, <3>1, <3>2 DEF Cycles
  <2>6. CASE Frees
    <3>1. step = 8 /\ ~load_extension /\ Worse = 0
      BY <1>1, <2>6 DEF Frees
    <3>2. load.cycles = 7 /\ load.worst = load_extra
      BY <2>1, <3>1 DEF TimeInv
    <3>3. Clash = 0 /\ load_extra = 0
      BY <2>3, <3>1 DEF Worse
    <3> QED BY <2>4, <3>2, <3>3
  <2>7. CASE Extends
    <3>1. load_extension /\ (load_extra = 0 \/ Worse # 2)
      BY <1>1, <2>7 DEF Extends
    <3>2. \/ load_extra = 0 /\ load.cycles = 9 /\ load.worst = 2
          \/ load_extra # 0 /\ load.cycles = 8 /\ load.worst = load_extra
      BY <2>1, <3>1 DEF TimeInv
    <3>3. CASE load_extra = 0
      BY <2>3, <2>4, <3>2, <3>3
    <3>4. CASE load_extra # 0
      <4>1. load_extra = 1 /\ Clash \in 0..1
        BY <2>3, <3>1, <3>4 DEF Worse
      <4> QED BY <2>3, <2>4, <3>2, <3>4, <4>1
    <3> QED BY <3>3, <3>4
  <2> QED BY <2>5, <2>6, <2>7
<1>2. IInv /\ [Next]_vars =>
         [dma_load_busy /\ ~dma_load_busy' => load'.cycles = 8 + load'.worst]_vars
  BY <1>1
<1> QED BY <1>2, InvariantHolds, PTL DEF Spec, LoadTakesItsTime
=============================================================================
