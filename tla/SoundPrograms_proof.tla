------------------------ MODULE SoundPrograms_proof ------------------------
(***************************************************************************)
(* Proofs about SoundPrograms for every list, program of the registers and *)
(* number of writes: that the sequencer with its prefetch and its pulses   *)
(* implements LinePrograms, and how long a pause lasts.                    *)
(***************************************************************************)
EXTENDS SoundPrograms, TLAPS

(* The registers of the engine and of the page keep to their types. *)
TypeInv ==
    /\ list \in [Addresses -> Instruction]
    /\ at \in {"IDLE", "DEAD", "FETCH", "EXEC", "DONE"} /\ step \in 1..8
    /\ active_ch \subseteq Channels
    /\ instr \in [Channels -> Instruction] /\ chan \in [Channels -> Registry]
    /\ dcsr_ena_clr \subseteq Channels /\ dma_int_set \subseteq Channels
    /\ sar_hi \in [Channels -> HighBytes] /\ sar_lo \in [Channels -> LowBytes]
    /\ ppr \in [Channels -> Nat]
    /\ dcsr_ena \subseteq Channels /\ dcsr_flags \subseteq Channels
    /\ hsync \in BOOLEAN /\ since \in 0..2 /\ ack_seen \in BOOLEAN

(* What the CPU's strobe holds has been written, and stays as written. *)
SarHeld == strobe.kind \in {"sar_hi", "sar_lo"}
StrobeInv ==
    /\ strobe.kind \in {"none", "sar_hi", "sar_lo", "ppr", "dcsr"}
    /\ strobe.kind = "none" => strobe = NoWrite
    /\ strobe.kind = "sar_hi" => sar_hi[strobe.c] = strobe.v
    /\ strobe.kind = "sar_lo" => sar_lo[strobe.c] = strobe.v
    /\ SarHeld => /\ strobe.c \in Channels \ Turn
                  /\ chan[strobe.c].sar = sar_hi[strobe.c] * LowWords + sar_lo[strobe.c]
    /\ strobe.kind = "ppr" => strobe.c \in Channels /\ ppr[strobe.c] = strobe.v
    /\ strobe.kind = "dcsr" =>
         /\ strobe.ena \subseteq Channels /\ dcsr_flags \cap strobe.ones = {}
         /\ IF since = 1 THEN dcsr_ena \subseteq strobe.ena ELSE dcsr_ena = strobe.ena
    /\ ppr_dec_q = PprStrobe(strobe)
    /\ ppr_wr \subseteq PprStrobe(strobe) /\ (ppr_wr # {} => since = 2)

(* The pulses of an instruction last until the edge after its cycle. *)
PulseInv ==
    /\ hsync_d = hsync
    /\ since # 0 => dcsr_ena_clr = {} /\ dma_int_set = {}
    /\ since = 1 => at # "IDLE"
    /\ at \in {"IDLE", "DEAD", "FETCH"} => dcsr_ena_clr = {} /\ dma_int_set = {}

(* What has been fetched is the word before the address of its channel. *)
FetchInv ==
    /\ at \in {"FETCH", "EXEC"} => ch \in active_ch
    /\ at = "FETCH" => ram_addr = chan[ch].sar
    /\ \A c \in Channels : Fetched(c) => instr[c] = list[Pc(c)]

IInv == TypeInv /\ StrobeInv /\ PulseInv /\ FetchInv

(* The lines that a pause has still to last: n intervals of d + 1 lines, the
   current one with r + 1 lines to go. *)
Length(n, d, r) == IF n = 0 THEN 0 ELSE (n - 1) * (d + 1) + r + 1
Lasts(c) ==
    wait[c] # -1 => /\ wait[c] = Length(chan[c].pause, ppr[c], chan[c].presc)
                    /\ c \in ppr_wr => chan[c].pause = 0
PauseInv ==
    /\ wait \in [Channels -> Nat \cup {-1}]
    /\ \A c \in Channels : Lasts(c)

USE DmaAssumption, ProgramsAssumption

-----------------------------------------------------------------------------
(* Channels and addresses. *)

LEMMA Least ==
    ASSUME NEW S \in SUBSET Channels, S # {}
    PROVE  Min(S) \in S /\ (\A c \in S : Min(S) <= c) /\ Lines!Min(S) = Min(S)
<1>1. S \subseteq 0..2
  OBVIOUS
<1>2. \E m \in S : \A c \in S : m <= c
  <2>1. CASE 0 \in S
    <3>1. \A c \in S : 0 <= c
      BY <1>1
    <3> QED BY <2>1, <3>1
  <2>2. CASE 0 \notin S /\ 1 \in S
    BY <1>1, <2>2
  <2>3. CASE 0 \notin S /\ 1 \notin S
    <3>1. \A c \in S : c = 2
      BY <1>1, <2>3
    <3>2. PICK c \in S : TRUE
      OBVIOUS
    <3> QED BY <3>1, <3>2
  <2> QED BY <2>1, <2>2, <2>3
<1>3. Min(S) \in S /\ \A c \in S : Min(S) <= c
  BY <1>2 DEF Min
<1>4. Lines!Min(S) = Min(S)
  BY DEF Min, Lines!Min
<1> QED BY <1>3, <1>4

LEMMA Greatest ==
    ASSUME NEW S \in SUBSET Channels, S # {}
    PROVE  Max(S) \in S /\ Lines!Max(S) = Max(S)
<1>1. S \subseteq 0..2
  OBVIOUS
<1>2. \E m \in S : \A c \in S : m >= c
  <2>1. CASE 2 \in S
    BY <1>1, <2>1
  <2>2. CASE 2 \notin S /\ 1 \in S
    BY <1>1, <2>2
  <2>3. CASE 2 \notin S /\ 1 \notin S
    <3>1. \A c \in S : c = 0
      BY <1>1, <2>3
    <3>2. PICK c \in S : TRUE
      OBVIOUS
    <3> QED BY <3>1, <3>2
  <2> QED BY <2>1, <2>2, <2>3
<1>3. Max(S) \in S
  BY <1>2 DEF Max
<1>4. Lines!Max(S) = Max(S)
  BY DEF Max, Lines!Max
<1> QED BY <1>3, <1>4

LEMMA Bumped ==
    ASSUME NEW a \in Addresses
    PROVE  /\ Bump(a) \in Addresses
           /\ (Bump(a) + RamWords - 1) % RamWords = a
           /\ (a + RamWords - 1) % RamWords \in Addresses
           /\ Bump((a + RamWords - 1) % RamWords) = a
<1>1. RamWords \in Nat /\ RamWords > 0 /\ a \in Nat /\ a < RamWords
  BY DEF Addresses
<1>2. CASE a + 1 < RamWords /\ a > 0
  <2>1. Bump(a) = a + 1
    BY <1>1, <1>2 DEF Bump
  <2>2. (a + 1 + RamWords - 1) % RamWords = a
    <3>1. a + 1 + RamWords - 1 = 1 * RamWords + a
      BY <1>1
    <3> QED BY <1>1, <3>1
  <2>3. (a + RamWords - 1) % RamWords = a - 1
    <3>1. a + RamWords - 1 = 1 * RamWords + (a - 1) /\ a - 1 \in Nat /\ a - 1 < RamWords
      BY <1>1, <1>2
    <3> QED BY <1>1, <3>1
  <2>4. Bump(a - 1) = a
    BY <1>1, <1>2 DEF Bump
  <2>5. a + 1 \in Addresses /\ a - 1 \in Addresses
    BY <1>1, <1>2 DEF Addresses
  <2> QED BY <2>1, <2>2, <2>3, <2>4, <2>5
<1>3. CASE a = 0
  <2>1. (a + RamWords - 1) % RamWords = RamWords - 1
    BY <1>1, <1>3
  <2>2. Bump(RamWords - 1) = 0
    BY <1>1 DEF Bump
  <2>3. Bump(a) = IF RamWords = 1 THEN 0 ELSE 1
    BY <1>1, <1>3 DEF Bump
  <2>4. RamWords # 1 => (1 + RamWords - 1) % RamWords = 0
    BY <1>1
  <2> QED BY <1>1, <1>3, <2>1, <2>2, <2>3, <2>4 DEF Addresses
<1>4. CASE a + 1 = RamWords /\ a > 0
  <2>1. Bump(a) = 0 /\ (0 + RamWords - 1) % RamWords = a
    BY <1>1, <1>4 DEF Bump
  <2>2. (a + RamWords - 1) % RamWords = a - 1
    <3>1. a + RamWords - 1 = 1 * RamWords + (a - 1)
      BY <1>1
    <3> QED BY <1>1, <1>4, <3>1
  <2>3. Bump(a - 1) = a
    BY <1>1, <1>4 DEF Bump
  <2> QED BY <1>1, <1>4, <2>1, <2>2, <2>3 DEF Addresses
<1> QED BY <1>1, <1>2, <1>3, <1>4

LEMMA WordAddress ==
    ASSUME NEW h \in HighBytes, NEW l \in LowBytes
    PROVE  h * LowWords + l \in Addresses
<1> DEFINE n == RamWords \div LowWords
<1>1. n \in Nat /\ RamWords = n * LowWords /\ h < n /\ h \in Nat /\ l \in Nat /\ l < LowWords
  BY DEF HighBytes, LowBytes
<1> HIDE DEF n
<1>2. PICK k \in Nat : n = h + 1 + k
  <2>1. n - h - 1 \in Nat /\ n = h + 1 + (n - h - 1)
    BY <1>1
  <2> QED BY <2>1
<1>3. n * LowWords = h * LowWords + LowWords + k * LowWords /\ k * LowWords >= 0 /\ h * LowWords >= 0
  BY <1>1, <1>2
<1> QED BY <1>1, <1>3 DEF Addresses

-----------------------------------------------------------------------------
(* What an edge samples. *)
LEMMA Sampled ==
    ASSUME NEW wr, NEW tick \in BOOLEAN
    PROVE  /\ ~In(wr, tick).reset /\ ~In(wr, tick).sna_load
           /\ In(wr, tick).hsync = hsync' /\ (In(wr, tick).cclk <=> tick)
           /\ In(wr, tick).sar_wr = SarStrobe(wr) /\ In(wr, tick).sar = SarSeen(wr)
           /\ In(wr, tick).ppr_wr = ppr_wr /\ In(wr, tick).ppr = ppr
           /\ In(wr, tick).ena = dcsr_ena /\ In(wr, tick).ram_data = list[ram_addr]
  BY DEF In

(* The three kinds of edges: between cycles, the beginning of a line, a cycle. *)
LEMMA EdgeBetween ==
    ASSUME NEW in, DmaClock(in), ~in.reset, ~in.sna_load, ~in.cclk, ~Rises(in)
    PROVE  /\ chan' = Written(in) /\ NoPulse /\ hsync_d' = in.hsync
           /\ UNCHANGED <<at, ch, step, active_ch, instr, ram_addr>>
  BY DEF DmaClock, DmaReset, SnaLoad, LineStart, Between, Resting, Dead, Fetch, Operate,
     LoadBegins, LoadSteps, LoadFrees, LoadExtends, Cycle, Running, lineVars

LEMMA EdgeLine ==
    ASSUME NEW in, DmaClock(in), ~in.reset, ~in.sna_load, Rises(in)
    PROVE  /\ chan' = [c \in Channels |-> Paused(in, c)]
           /\ active_ch' = {c \in in.ena : PauseDone(in, c)}
           /\ at' = "DEAD" /\ NoPulse /\ hsync_d' = in.hsync
           /\ UNCHANGED <<ch, step, instr, ram_addr>>
  BY DEF DmaClock, DmaReset, SnaLoad, LineStart, Between, Resting, Dead, Fetch, Operate,
     LoadBegins, LoadSteps, LoadFrees, LoadExtends, Cycle, Running, lineVars

LEMMA EdgeCycle ==
    ASSUME NEW in, DmaClock(in), ~in.reset, ~in.sna_load, in.cclk, ~Rises(in)
    PROVE  \/ Resting(in) \/ Dead(in) \/ Fetch(in) \/ Operate(in)
           \/ LoadBegins(in) \/ LoadSteps(in) \/ LoadFrees(in) \/ LoadExtends(in)
  BY DEF DmaClock, DmaReset, SnaLoad, LineStart, Between

(* A strobe that is held, or gone, leaves the page as it is. *)
LEMMA PageKept ==
    ASSUME TypeInv, StrobeInv, NEW wr \in {strobe, NoWrite}, NEW m1, NEW ack, NEW raster, NEW ivr0,
           RegsClock(wr, m1, ack, raster, ivr0, dcsr_ena_clr, dma_int_set)
    PROVE  /\ sar_hi' = sar_hi /\ sar_lo' = sar_lo /\ ppr' = ppr
           /\ \A c \in SarStrobe(wr) : SarSeen(wr)[c] = chan[c].sar
           /\ ppr_wr' = {} /\ ppr_dec_q' = PprStrobe(wr)
<1>1. wr.kind = "none" \/ wr = strobe
  BY DEF NoWrite
<1>2. \A c \in Channels : Wrote(wr, "sar_hi", c, sar_hi[c]) = sar_hi[c]
  BY <1>1 DEF Wrote, StrobeInv
<1>3. \A c \in Channels : Wrote(wr, "sar_lo", c, sar_lo[c]) = sar_lo[c]
  BY <1>1 DEF Wrote, StrobeInv
<1>4. \A c \in Channels : Wrote(wr, "ppr", c, ppr[c]) = ppr[c]
  BY <1>1 DEF Wrote, StrobeInv
<1>5. NextHi(wr) = sar_hi /\ NextLo(wr) = sar_lo
  BY <1>2, <1>3 DEF NextHi, NextLo, TypeInv
<1>6. ppr' = ppr
  BY <1>4 DEF RegsClock, TypeInv
<1>7. \A c \in SarStrobe(wr) : SarSeen(wr)[c] = chan[c].sar
  <2>1. \A c \in Channels : SarSeen(wr)[c] = sar_hi[c] * LowWords + sar_lo[c]
    BY <1>5 DEF SarSeen
  <2> QED BY <1>1, <2>1 DEF SarStrobe, StrobeInv, SarHeld
<1>8. PprStrobe(wr) \ ppr_dec_q = {}
  BY <1>1 DEF StrobeInv, PprStrobe
<1> QED BY <1>5, <1>6, <1>7, <1>8 DEF RegsClock

(* Such an edge leaves the channels as they are, up to the cut of a pause. *)
LEMMA ChannelsKept ==
    ASSUME TypeInv, NEW in, in.ppr_wr = ppr_wr, in.ena = dcsr_ena,
           \A c \in in.sar_wr : in.sar[c] = chan[c].sar
    PROVE  Written(in) = [c \in Channels |->
              IF c \in ppr_wr /\ c \in dcsr_ena /\ chan[c].pause > 0
              THEN [chan[c] EXCEPT !.presc = 0] ELSE chan[c]]
<1>1. \A c \in Channels :
         [chan[c] EXCEPT !.sar = Sar(in, c),
            !.presc = IF c \in in.ppr_wr /\ c \in in.ena /\ chan[c].pause > 0 THEN 0 ELSE @]
         = IF c \in ppr_wr /\ c \in dcsr_ena /\ chan[c].pause > 0
           THEN [chan[c] EXCEPT !.presc = 0] ELSE chan[c]
  <2> SUFFICES ASSUME NEW c \in Channels
      PROVE [chan[c] EXCEPT !.sar = Sar(in, c),
            !.presc = IF c \in in.ppr_wr /\ c \in in.ena /\ chan[c].pause > 0 THEN 0 ELSE @]
         = IF c \in ppr_wr /\ c \in dcsr_ena /\ chan[c].pause > 0
           THEN [chan[c] EXCEPT !.presc = 0] ELSE chan[c]
    OBVIOUS
  <2>1. chan[c] \in Registry
    BY DEF TypeInv
  <2>2. Sar(in, c) = chan[c].sar
    BY DEF Sar
  <2> QED BY <2>1, <2>2 DEF Registry
<1> QED BY <1>1 DEF Written

LEMMA ChannelsStay ==
    ASSUME TypeInv, NEW in, in.ppr_wr = ppr_wr, in.ena = dcsr_ena, ppr_wr = {},
           \A c \in in.sar_wr : in.sar[c] = chan[c].sar
    PROVE  Written(in) = chan
<1>1. Written(in) = [c \in Channels |-> chan[c]]
  BY ChannelsKept
<1>2. chan = [c \in Channels |-> chan[c]]
  BY DEF TypeInv
<1> QED BY <1>1, <1>2

(* What it leaves of the acknowledge's cycle. *)
LEMMA CycleKept ==
    ASSUME ack_seen \in BOOLEAN, NEW wr,
           RegsClock(wr, ack_seen, FALSE, FALSE, FALSE, dcsr_ena_clr, dma_int_set)
    PROVE  ack_seen' = ack_seen
<1>1. ack_seen' = (FALSE \/ (ack_seen /\ ack_seen))
  BY DEF RegsClock, VectorClock
<1> QED BY <1>1, Zenon

(* What it leaves of the DCSR. *)
LEMMA DcsrKept ==
    ASSUME TypeInv, StrobeInv, NEW wr \in {strobe, NoWrite},
           RegsClock(wr, ack_seen, FALSE, FALSE, FALSE, dcsr_ena_clr, dma_int_set)
    PROVE  /\ ack_src' = ack_src /\ ack_seen' = ack_seen
           /\ wr.kind # "dcsr" => /\ dcsr_flags' = dcsr_flags \cup dma_int_set
                                  /\ dcsr_ena' = dcsr_ena \ dcsr_ena_clr
           /\ wr.kind = "dcsr" => /\ dcsr_flags' = (dcsr_flags \cup dma_int_set) \ strobe.ones
                                  /\ dcsr_ena' = strobe.ena \ dcsr_ena_clr
<1>1. wr.kind = "dcsr" => wr = strobe
  BY DEF NoWrite
<1>2. ack_seen' = ack_seen
  BY CycleKept DEF TypeInv
<1>3. ack_src' = ack_src
  BY DEF RegsClock, VectorClock
<1> QED BY <1>1, <1>2, <1>3 DEF RegsClock, Flags, Ones, AutoClear, Enable

-----------------------------------------------------------------------------
(* A cycle of a line, as the channel programs see it. *)
Abs(c) == [pc |-> Pc(c), pause |-> chan[c].pause, left |-> chan[c].presc,
           loop |-> chan[c].loop, top |-> chan[c].loop_addr]

LEMMA Turns ==
    ASSUME TypeInv, FetchInv
    PROVE  /\ Turn \subseteq active_ch
           /\ at \in {"IDLE", "DONE"} => Turn = {}
           /\ at \in {"DEAD", "FETCH"} => Turn = active_ch
           /\ at = "EXEC" /\ step # 1 => Turn = After(ch)
           /\ at = "EXEC" /\ step = 1 =>
                /\ Turn = {ch} \cup After(ch) /\ ch \in Turn /\ Min(Turn) = ch
                /\ After(ch) = Turn \ {ch}
<1>1. Turn \subseteq active_ch
  BY DEF Turn
<1>2. at = "EXEC" => Turn = {c \in active_ch : c > ch \/ (c = ch /\ step = 1)}
  BY DEF Turn
<1>3. ASSUME at = "EXEC", step = 1
      PROVE  /\ Turn = {ch} \cup After(ch) /\ ch \in Turn /\ Min(Turn) = ch
             /\ After(ch) = Turn \ {ch}
  <2>1. Channels \subseteq Int /\ ch \in active_ch /\ active_ch \subseteq Channels
    BY <1>3 DEF FetchInv, TypeInv
  <2>2. Turn = {ch} \cup After(ch) /\ ch \in Turn /\ After(ch) = Turn \ {ch}
    <3>1. \A c : c \in Turn <=> c \in active_ch /\ (c > ch \/ c = ch)
      BY <1>2, <1>3
    <3>2. \A c : c \in After(ch) <=> c \in active_ch /\ c > ch
      BY DEF After
    <3>3. ch \in active_ch /\ ~(ch > ch)
      BY <2>1
    <3> HIDE DEF Turn
    <3> QED BY <3>1, <3>2, <3>3
  <2>3. Min(Turn) \in Turn /\ Min(Turn) <= ch
    BY <1>1, <2>1, <2>2, Least
  <2>4. \A c \in Turn : c \in Int /\ (c > ch \/ c = ch)
    BY <2>1, <2>2 DEF After
  <2>5. Min(Turn) = ch
    BY <2>1, <2>3, <2>4
  <2> QED BY <2>2, <2>5
<1>4. at = "EXEC" /\ step # 1 => Turn = After(ch)
  BY <1>2 DEF After
<1> QED BY <1>1, <1>3, <1>4 DEF Turn

LEMMA ExecuteTurn ==
    ASSUME TypeInv, NEW todo \in SUBSET active_ch, Execute(todo), active_ch' = active_ch,
           \A c \in active_ch, d \in todo : c >= d => c \in todo
    PROVE  /\ Turn' = todo
           /\ at' \in {"EXEC", "DONE"} /\ step' \in 1..8
           /\ at' = "EXEC" => ch' \in active_ch'
           /\ \A c : Fetched(c)' <=> c \in todo
<1>1. CASE todo = {}
  <2>1. at' = "DONE" /\ step' = step
    BY <1>1 DEF Execute
  <2>2. Turn' = {}
    BY <2>1 DEF Turn
  <2> QED BY <1>1, <2>1, <2>2 DEF TypeInv, Fetched
<1>2. CASE todo # {}
  <2>1. at' = "EXEC" /\ ch' = Min(todo) /\ step' = 1
    BY <1>2 DEF Execute
  <2>2. active_ch \subseteq Int /\ todo \in SUBSET Channels
    <3>1. active_ch \subseteq Channels
      BY DEF TypeInv
    <3>2. Channels \subseteq Int
      OBVIOUS
    <3>3. todo \subseteq active_ch
      OBVIOUS
    <3> QED BY <3>1, <3>2, <3>3, Zenon
  <2>3. Min(todo) \in todo /\ \A c \in todo : Min(todo) <= c
    BY <1>2, <2>2, Least
  <2>4. Turn' = {c \in active_ch : c > ch' \/ c = ch'}
    BY <2>1 DEF Turn
  <2>5. Turn' = todo
    <3>1. \A c \in active_ch : (c > ch' \/ c = ch') <=> c >= Min(todo)
      <4>1. ch' \in Int /\ ch' = Min(todo)
        BY <2>1, <2>2, <2>3
      <4>2. \A c \in Int, m \in Int : (c > m \/ c = m) <=> c >= m
        OBVIOUS
      <4> QED BY <2>2, <4>1, <4>2
    <3>2. \A c \in active_ch : c >= Min(todo) <=> c \in todo
      BY <2>2, <2>3
    <3> QED BY <2>4, <3>1, <3>2
  <2> QED BY <2>1, <2>3, <2>5 DEF Fetched
<1> QED BY <1>1, <1>2

(* A cycle in which no instruction runs. *)
Passes ==
    /\ NoPulse /\ Turn' = Turn
    /\ \A c \in Channels : Abs(c)' = Abs(c) /\ (c \notin Turn => chan'[c].sar = chan[c].sar)

(* The engine after a cycle. *)
EngineNext ==
    /\ at' \in {"IDLE", "DEAD", "FETCH", "EXEC", "DONE"} /\ step' \in 1..8
    /\ active_ch' \subseteq Channels
    /\ instr' \in [Channels -> Instruction] /\ chan' \in [Channels -> Registry]

LEMMA SameChannels ==
    ASSUME chan' = chan, NoPulse, Turn' = Turn, \A c \in Channels : Fetched(c)' <=> Fetched(c)
    PROVE  Passes
  BY DEF Passes, Abs, Pc

LEMMA SameWords ==
    ASSUME FetchInv, chan' = chan, UNCHANGED <<instr, list>>,
           \A c \in Channels : Fetched(c)' => Fetched(c)
    PROVE  \A c \in Channels : Fetched(c)' => instr'[c] = list'[Pc(c)']
  BY DEF FetchInv, Pc

LEMMA RestCycle ==
    ASSUME TypeInv, FetchInv, NEW in, Written(in) = chan, list' = list, Resting(in) \/ Dead(in)
    PROVE  Passes /\ FetchInv' /\ EngineNext
<1>1. /\ chan' = chan /\ NoPulse /\ UNCHANGED <<active_ch, instr, step>>
      /\ at \in {"IDLE", "DONE", "DEAD"}
  BY DEF Resting, Dead, lineVars, Request
<1>2. \A c : ~Fetched(c)
  BY <1>1 DEF Fetched, Turn
<1>3. CASE at' = "IDLE"
  <2>1. Turn' = Turn
    BY <1>1, <1>3 DEF Resting, Dead, Turn, Request
  <2>2. \A c : ~Fetched(c)'
    BY <1>3 DEF Fetched
  <2>3. Passes
    BY <1>1, <1>2, <2>1, <2>2, SameChannels
  <2>4. FetchInv'
    BY <1>3, <2>2 DEF FetchInv
  <2> QED BY <1>1, <1>3, <2>3, <2>4 DEF EngineNext, TypeInv
<1>4. CASE at' # "IDLE"
  <2>1. at = "DEAD" /\ active_ch # {} /\ Request(Min(active_ch))
    BY <1>4 DEF Resting, Dead
  <2>2. at' = "FETCH" /\ ch' = Min(active_ch) /\ ram_addr' = chan[ch'].sar
    BY <2>1 DEF Request
  <2>3. Min(active_ch) \in active_ch /\ \A c \in active_ch : Min(active_ch) <= c
    BY <2>1, Least DEF TypeInv
  <2>4. Turn' = Turn
    BY <1>1, <2>1, <2>2 DEF Turn
  <2>5. \A c \in Channels : ~Fetched(c)'
    <3>1. active_ch \subseteq Int
      BY DEF TypeInv
    <3> QED BY <1>1, <2>2, <2>3, <3>1 DEF Fetched, Turn
  <2>6. Passes
    BY <1>1, <1>2, <2>4, <2>5, SameChannels
  <2>7. FetchInv'
    BY <1>1, <2>2, <2>3, <2>5 DEF FetchInv
  <2> QED BY <1>1, <2>2, <2>6, <2>7 DEF EngineNext, TypeInv
<1> QED BY <1>3, <1>4

LEMMA LoadCycle ==
    ASSUME TypeInv, FetchInv, NEW in, Written(in) = chan, list' = list,
           LoadSteps(in) \/ LoadFrees(in) \/ LoadExtends(in)
    PROVE  Passes /\ FetchInv' /\ EngineNext
<1>1. /\ chan' = chan /\ NoPulse /\ UNCHANGED <<active_ch, instr, ram_addr>>
      /\ at = "EXEC" /\ step \in 2..8
  BY DEF LoadSteps, LoadFrees, LoadExtends, lineVars
<1>2. Turn = After(ch) /\ ch \in active_ch
  BY <1>1, Turns DEF FetchInv
<1>3. CASE UNCHANGED <<at, ch>> /\ step' \in 2..8
  <2>1. Turn' = Turn
    BY <1>1, <1>3 DEF Turn
  <2>2. \A c : Fetched(c)' <=> Fetched(c)
    BY <1>1, <1>3, <2>1 DEF Fetched
  <2>3. Passes
    BY <1>1, <2>1, <2>2, SameChannels
  <2>4. \A c \in Channels : Fetched(c)' => instr'[c] = list'[Pc(c)']
    BY <1>1, <2>2, SameWords
  <2>5. FetchInv'
    BY <1>1, <1>2, <1>3, <2>4 DEF FetchInv
  <2> QED BY <1>1, <1>3, <2>3, <2>5 DEF EngineNext, TypeInv
<1>4. CASE Execute(After(ch))
  <2>1. /\ After(ch) \in SUBSET active_ch
        /\ \A c \in active_ch, d \in After(ch) : c >= d => c \in After(ch)
    <3>1. active_ch \subseteq Int
      BY DEF TypeInv
    <3> QED BY <1>2, <3>1 DEF After
  <2>2. /\ Turn' = Turn /\ at' \in {"EXEC", "DONE"} /\ step' \in 1..8
        /\ at' = "EXEC" => ch' \in active_ch'
        /\ \A c : Fetched(c)' <=> c \in Turn
    BY <1>1, <1>2, <1>4, <2>1, ExecuteTurn
  <2>3. \A c : Fetched(c)' <=> Fetched(c)
    BY <1>1, <2>2 DEF Fetched
  <2>4. Passes
    BY <1>1, <2>2, <2>3, SameChannels
  <2>5. \A c \in Channels : Fetched(c)' => instr'[c] = list'[Pc(c)']
    BY <1>1, <2>3, SameWords
  <2>6. FetchInv'
    BY <2>2, <2>5 DEF FetchInv
  <2> QED BY <1>1, <2>2, <2>4, <2>6 DEF EngineNext, TypeInv
<1>5. (UNCHANGED <<at, ch>> /\ step' \in 2..8) \/ Execute(After(ch))
  <2>1. LoadSteps(in) => UNCHANGED <<at, ch>> /\ step' \in 2..8
    BY DEF LoadSteps
  <2>2. LoadFrees(in) \/ LoadExtends(in) => UNCHANGED <<at, ch, step>> \/ Execute(After(ch))
    BY DEF LoadFrees, LoadExtends
  <2> QED BY <1>1, <2>1, <2>2
<1> QED BY <1>3, <1>4, <1>5

LEMMA FetchCycle ==
    ASSUME TypeInv, FetchInv, NEW in, Written(in) = chan, in.ram_data = list[ram_addr],
           list' = list, Fetch(in)
    PROVE  Passes /\ FetchInv' /\ EngineNext
<1> DEFINE a == chan[ch].sar
<1>1. /\ chan' = [chan EXCEPT ![ch].sar = Bump(a)] /\ instr' = [instr EXCEPT ![ch] = list[a]]
      /\ NoPulse /\ active_ch' = active_ch /\ at = "FETCH" /\ ram_addr = a
  BY DEF Fetch, FetchInv
<1>2. /\ ch \in active_ch /\ ch \in Channels /\ active_ch \subseteq Channels
      /\ active_ch \subseteq Int /\ Turn = active_ch /\ chan[ch] \in Registry /\ a \in Addresses
  BY <1>1, Turns DEF FetchInv, TypeInv, Registry
<1>3. \A c : Fetched(c) <=> c \in active_ch /\ c < ch
  BY <1>1, <1>2 DEF Fetched
<1>4. /\ Turn' = Turn /\ step' \in 1..8
      /\ \A c \in Channels : Fetched(c)' <=> (Fetched(c) \/ c = ch)
      /\ at' \in {"FETCH", "EXEC", "DONE"} /\ (at' \in {"FETCH", "EXEC"} => ch' \in active_ch')
      /\ at' = "FETCH" => ram_addr' = chan[ch'].sar /\ ch' # ch
  <2>1. CASE After(ch) # {}
    <3>1. at' = "FETCH" /\ ch' = Min(After(ch)) /\ ram_addr' = chan[ch'].sar /\ step' = step
      BY <2>1 DEF Fetch, Request
    <3>2. After(ch) \in SUBSET Channels
      BY <1>2 DEF After
    <3>3. ch' \in After(ch) /\ \A c \in After(ch) : ch' <= c
      BY <2>1, <3>1, <3>2, Least
    <3>4. Turn' = Turn
      BY <1>1, <1>2, <3>1 DEF Turn
    <3>5. \A c : Fetched(c)' <=> c \in active_ch /\ c < ch'
      BY <1>1, <1>2, <3>1, <3>4 DEF Fetched
    <3>6. \A c \in active_ch : c < ch' <=> c < ch \/ c = ch
      <4>1. \A c \in Int : c > ch => c \notin active_ch \/ c \in After(ch)
        BY DEF After
      <4>2. ch \in Int /\ ch' \in Int /\ ch' > ch
        BY <1>2, <3>3 DEF After
      <4>3. \A c \in active_ch : c \in Int /\ (c > ch => ch' <= c)
        BY <1>2, <3>3, <4>1
      <4> QED BY <4>2, <4>3
    <3>7. ch' \in active_ch' /\ ch' # ch
      BY <1>1, <1>2, <3>3 DEF After
    <3> QED BY <1>2, <1>3, <3>1, <3>4, <3>5, <3>6, <3>7 DEF TypeInv
  <2>2. CASE After(ch) = {}
    <3>1. Execute(active_ch)
      BY <2>2 DEF Fetch
    <3>2. /\ Turn' = active_ch /\ at' \in {"EXEC", "DONE"} /\ step' \in 1..8
          /\ at' = "EXEC" => ch' \in active_ch'
          /\ \A c : Fetched(c)' <=> c \in active_ch
      BY <1>1, <3>1, ExecuteTurn
    <3>3. \A c \in active_ch : c < ch \/ c = ch
      <4>1. \A c \in active_ch : ~(c > ch)
        BY <2>2 DEF After
      <4> QED BY <1>2, <4>1
    <3> QED BY <1>2, <1>3, <3>2, <3>3
  <2> QED BY <2>1, <2>2
<1>5. /\ chan'[ch] = [chan[ch] EXCEPT !.sar = Bump(a)]
      /\ \A c \in Channels \ {ch} : chan'[c] = chan[c] /\ instr'[c] = instr[c]
      /\ instr'[ch] = list[a] /\ ~Fetched(ch)
  BY <1>1, <1>2, <1>3 DEF TypeInv
<1>6. \A c \in Channels : Pc(c)' = Pc(c)
  <2>1. \A c \in Channels \ {ch} : Pc(c)' = Pc(c)
    BY <1>4, <1>5 DEF Pc
  <2>2. chan'[ch].sar = Bump(a)
    BY <1>2, <1>5 DEF Registry
  <2>3. Pc(ch) = a
    BY <1>5 DEF Pc
  <2>4. ASSUME NEW c \in Channels, c = ch PROVE Pc(c)' = a
    <3>1. Fetched(c)' /\ chan'[c].sar = Bump(a)
      BY <1>4, <2>2, <2>4
    <3>2. (Bump(a) + RamWords - 1) % RamWords = a
      BY <1>2, Bumped
    <3> HIDE DEF a
    <3> QED BY <3>1, <3>2 DEF Pc
  <2> QED BY <1>2, <2>1, <2>3, <2>4
<1>7. \A c \in Channels : Abs(c)' = Abs(c) /\ (c \notin Turn => chan'[c].sar = chan[c].sar)
  <2>1. \A c \in Channels : /\ chan'[c].pause = chan[c].pause /\ chan'[c].presc = chan[c].presc
                            /\ chan'[c].loop = chan[c].loop
                            /\ chan'[c].loop_addr = chan[c].loop_addr
    BY <1>2, <1>5 DEF Registry
  <2>2. \A c \in Channels : c \notin Turn => chan'[c] = chan[c]
    BY <1>2, <1>5
  <2> QED BY <1>6, <2>1, <2>2 DEF Abs
<1>8. FetchInv'
  <2>1. \A c \in Channels : Fetched(c)' => instr'[c] = list'[Pc(c)']
    <3>1. \A c \in Channels : Fetched(c)' => instr'[c] = list[Pc(c)]
      <4>1. Pc(ch) = a
        BY <1>5 DEF Pc
      <4> QED BY <1>4, <1>5, <4>1 DEF FetchInv
    <3> QED BY <1>6, <3>1
  <2>2. at' = "FETCH" => ram_addr' = chan'[ch'].sar
    BY <1>1, <1>2, <1>4, <1>5
  <2> QED BY <1>4, <2>1, <2>2 DEF FetchInv
<1>9. EngineNext
  <2>1. Bump(a) \in Addresses /\ list[a] \in Instruction
    BY <1>2, Bumped DEF TypeInv
  <2>2. [chan[ch] EXCEPT !.sar = Bump(a)] \in Registry
    BY <1>2, <2>1 DEF Registry
  <2>3. chan' \in [Channels -> Registry] /\ instr' \in [Channels -> Instruction]
    BY <1>1, <1>2, <2>1, <2>2 DEF TypeInv
  <2> QED BY <1>1, <1>2, <1>4, <2>3 DEF EngineNext
<1> QED BY <1>1, <1>4, <1>7, <1>8, <1>9 DEF Passes

(* A cycle in which the first channel due runs its instruction. *)
Runs(c) ==
    /\ c \in Turn /\ Min(Turn) = c /\ Turn' = Turn \ {c} /\ at' \in {"EXEC", "DONE"}
    /\ \A d \in Channels \ {c} : Abs(d)' = Abs(d) /\ chan'[d].sar = chan[d].sar
    /\ Abs(c)' = Lines!Ran(Abs(c), list[Pc(c)], ppr[c])
    /\ dcsr_ena_clr' = IF Lines!Commands(list[Pc(c)], 5) THEN {c} ELSE {}
    /\ dma_int_set' = IF Lines!Commands(list[Pc(c)], 4) THEN {c} ELSE {}

(* The effect of a word on its channel, field by field. *)
Orders(w, k) == "control" \in w.op /\ Bit(w.n, k)
LEMMA RanFields ==
    ASSUME NEW s, NEW w, NEW div
    PROVE  LET next == (s.pc + 1) % RamWords
               loops == Orders(w, 0) /\ ~Orders(w, 5) /\ s.loop > 0
               repeats == "repeat" \in w.op /\ (w.n > 0 \/ "pause" \in w.op)
               pauses == "pause" \in w.op /\ (w.n > 0 \/ "repeat" \in w.op) IN
           Lines!Ran(s, w, div) =
             IF "repeat" \in w.op /\ Orders(w, 0) /\ ~Orders(w, 5) THEN [s EXCEPT !.pc = next]
             ELSE [pc |-> IF loops THEN s.top ELSE next,
                   pause |-> IF pauses THEN w.n ELSE s.pause,
                   left |-> IF pauses THEN div ELSE s.left,
                   loop |-> IF repeats THEN w.n ELSE IF loops THEN s.loop - 1 ELSE s.loop,
                   top |-> IF repeats THEN next ELSE s.top]
  BY DEF Lines!Ran, Orders, Bit

LEMMA CommandFields ==
    ASSUME NEW w, NEW k
    PROVE  Lines!Commands(w, k) <=> Orders(w, k) /\ ~("repeat" \in w.op /\ Bit(w.n, 0) /\ ~Bit(w.n, 5))
  BY DEF Lines!Commands, Orders, Bit

(* The word about to run, its address and its channel. *)
LEMMA Current ==
    ASSUME TypeInv, FetchInv, at = "EXEC", step = 1
    PROVE  /\ ch \in Channels /\ ch \in Turn /\ Min(Turn) = ch /\ After(ch) = Turn \ {ch}
           /\ Word = list[Pc(ch)] /\ Word \in Instruction
           /\ chan[ch] \in Registry /\ Pc(ch) \in Addresses
           /\ (Pc(ch) + 1) % RamWords = chan[ch].sar
<1>1. ch \in Turn /\ Min(Turn) = ch /\ After(ch) = Turn \ {ch} /\ ch \in Channels
  BY Turns DEF TypeInv
<1>2. Fetched(ch)
  BY <1>1 DEF Fetched
<1>3. chan[ch] \in Registry /\ Word \in Instruction /\ chan[ch].sar \in Addresses
  BY <1>1 DEF TypeInv, Registry, Word
<1>4. Pc(ch) = (chan[ch].sar + RamWords - 1) % RamWords
  BY <1>2 DEF Pc
<1>5. Pc(ch) \in Addresses /\ Bump(Pc(ch)) = chan[ch].sar
  BY <1>3, <1>4, Bumped
<1> QED BY <1>1, <1>2, <1>3, <1>5 DEF FetchInv, Word, Bump

(* What any cycle of an instruction leaves to the channels after it. *)
LEMMA GoesOn ==
    ASSUME TypeInv, FetchInv, at = "EXEC", step = 1, UNCHANGED <<active_ch, instr, list>>,
           NEW c \in Channels, c = ch, Execute(After(ch)) \/ (step' = 2 /\ UNCHANGED <<at, ch>>),
           \A d \in Channels \ {c} : chan'[d] = chan[d]
    PROVE  /\ Turn' = Turn \ {c} /\ ~Fetched(c)' /\ at' \in {"EXEC", "DONE"} /\ step' \in 1..8
           /\ \A d \in Channels \ {c} : Abs(d)' = Abs(d) /\ chan'[d].sar = chan[d].sar
           /\ FetchInv'
<1>1. /\ After(ch) = Turn \ {c} /\ Turn \subseteq active_ch /\ c \in Turn /\ c \in active_ch
      /\ active_ch \subseteq Int
  <2>1. /\ After(ch) = Turn \ {c} /\ Turn \subseteq active_ch /\ c \in Turn
    BY Turns
  <2>2. active_ch \subseteq Int
    BY DEF TypeInv
  <2> QED BY <2>1, <2>2
<1>2. /\ Turn' = Turn \ {c} /\ at' \in {"EXEC", "DONE"} /\ step' \in 1..8
      /\ at' = "EXEC" => ch' \in active_ch'
      /\ \A d : Fetched(d)' <=> d \in Turn'
  <2>1. CASE Execute(After(ch))
    <3>1. After(ch) \in SUBSET active_ch
          /\ \A d \in active_ch, e \in After(ch) : d >= e => d \in After(ch)
      BY <1>1 DEF After
    <3>2. /\ Turn' = After(ch) /\ at' \in {"EXEC", "DONE"} /\ step' \in 1..8
          /\ at' = "EXEC" => ch' \in active_ch'
          /\ \A d : Fetched(d)' <=> d \in After(ch)
      BY <2>1, <3>1, ExecuteTurn
    <3> QED BY <1>1, <3>2
  <2>2. CASE step' = 2 /\ UNCHANGED <<at, ch>>
    <3>1. Turn' = After(ch)
      BY <2>2 DEF Turn, After
    <3> QED BY <1>1, <2>2, <3>1 DEF Fetched
  <2> QED BY <2>1, <2>2
<1>3. ASSUME NEW d \in Channels \ {c}
      PROVE  /\ Fetched(d)' <=> Fetched(d)
             /\ Pc(d)' = Pc(d) /\ Abs(d)' = Abs(d) /\ chan'[d].sar = chan[d].sar
  <2>1. Fetched(d)' <=> Fetched(d)
    BY <1>2 DEF Fetched
  <2> QED BY <2>1 DEF Pc, Abs
<1>4. ~Fetched(c)'
  BY <1>2
<1>5. \A d \in Channels : Fetched(d)' => instr'[d] = list'[Pc(d)']
  BY <1>3, <1>4 DEF FetchInv
<1>6. FetchInv'
  BY <1>2, <1>5 DEF FetchInv
<1> QED BY <1>2, <1>3, <1>4, <1>6

LEMMA LoadRuns ==
    ASSUME TypeInv, FetchInv, NEW in, Written(in) = chan, list' = list, LoadBegins(in)
    PROVE  (\E c \in Channels : c = ch /\ Runs(c)) /\ FetchInv' /\ EngineNext
<1>1. /\ at = "EXEC" /\ step = 1 /\ Word.op = {} /\ chan' = chan /\ NoPulse
      /\ step' = 2 /\ UNCHANGED <<at, ch, active_ch, instr>>
  BY DEF LoadBegins, lineVars
<1>2. PICK c \in Channels : c = ch
  BY <1>1, Current
<1>3. /\ c \in Turn /\ Min(Turn) = c
      /\ list[Pc(c)].op = {} /\ chan[c] \in Registry /\ (Pc(c) + 1) % RamWords = chan[c].sar
  BY <1>1, <1>2, Current
<1>4. /\ Turn' = Turn \ {c} /\ ~Fetched(c)' /\ at' \in {"EXEC", "DONE"} /\ step' \in 1..8
      /\ \A d \in Channels \ {c} : Abs(d)' = Abs(d) /\ chan'[d].sar = chan[d].sar
      /\ FetchInv'
  BY <1>1, <1>2, GoesOn
<1>5. Abs(c)' = Lines!Ran(Abs(c), list[Pc(c)], ppr[c])
  <2>1. Pc(c)' = chan[c].sar
    BY <1>1, <1>4 DEF Pc
  <2>2. Abs(c)' = [Abs(c) EXCEPT !.pc = chan[c].sar]
    BY <1>1, <2>1 DEF Abs
  <2>3. Abs(c).pc = Pc(c)
    BY DEF Abs
  <2>4. Lines!Ran(Abs(c), list[Pc(c)], ppr[c]) =
           [pc |-> chan[c].sar, pause |-> Abs(c).pause, left |-> Abs(c).left,
            loop |-> Abs(c).loop, top |-> Abs(c).top]
    BY <1>3, <2>3, RanFields DEF Orders
  <2> QED BY <2>2, <2>4 DEF Abs
<1>6. ~Lines!Commands(list[Pc(c)], 5) /\ ~Lines!Commands(list[Pc(c)], 4)
  BY <1>3, CommandFields DEF Orders
<1>7. Runs(c)
  BY <1>1, <1>3, <1>4, <1>5, <1>6 DEF Runs, NoPulse
<1> QED BY <1>1, <1>2, <1>4, <1>7 DEF EngineNext, TypeInv

LEMMA OperateRuns ==
    ASSUME TypeInv, FetchInv, NEW in, Written(in) = chan, in.ppr = ppr, list' = list, Operate(in)
    PROVE  (\E c \in Channels : c = ch /\ Runs(c)) /\ FetchInv' /\ EngineNext
<1>1. /\ at = "EXEC" /\ step = 1 /\ UNCHANGED <<active_ch, instr>> /\ Execute(After(ch))
      /\ Reserved => NoPulse /\ chan' = chan
      /\ ~Reserved => /\ chan' = [chan EXCEPT ![ch] = Operated(in, chan[ch])]
                      /\ dcsr_ena_clr' = IF Stops THEN {ch} ELSE {}
                      /\ dma_int_set' = IF Does("control") /\ Bit(Word.n, 4) THEN {ch} ELSE {}
  BY DEF Operate, lineVars
<1>2. PICK c \in Channels : c = ch
  BY <1>1, Current
<1>3. PICK w \in Instruction : w = Word
  BY <1>1, Current
<1>4. /\ c \in Turn /\ Min(Turn) = c /\ w = list[Pc(c)]
      /\ chan[c] \in Registry /\ (Pc(c) + 1) % RamWords = chan[c].sar
  BY <1>1, <1>2, <1>3, Current
<1>5. w.n \in Nat /\ chan[c].loop \in Nat /\ ppr[c] \in Nat
  BY <1>3, <1>4 DEF Instruction, Registry, TypeInv
<1> DEFINE loops == Orders(w, 0) /\ ~Orders(w, 5) /\ chan[c].loop > 0
           repeats == "repeat" \in w.op /\ (w.n > 0 \/ "pause" \in w.op)
           pauses == "pause" \in w.op /\ (w.n > 0 \/ "repeat" \in w.op)
           reserved == "repeat" \in w.op /\ Orders(w, 0) /\ ~Orders(w, 5)
<1>6. /\ Reserved <=> reserved
      /\ DoesPause <=> pauses
      /\ DoesRepeat <=> repeats
      /\ Loops <=> loops
      /\ Stops <=> Orders(w, 5)
      /\ Does("control") /\ Bit(Word.n, 4) <=> Orders(w, 4)
  <2>1. Reserved <=> reserved
    BY <1>3 DEF Reserved, Does, Orders
  <2>2. DoesPause <=> pauses
    BY <1>3, <1>5 DEF DoesPause, Does
  <2>3. DoesRepeat <=> repeats
    BY <1>3, <1>5 DEF DoesRepeat, Does
  <2>4. Stops <=> Orders(w, 5)
    BY <1>3 DEF Stops, Does, Orders
  <2>5. Loops <=> loops
    BY <1>2, <1>3, <1>5, <2>4 DEF Loops, Does, Orders
  <2> QED BY <1>3, <2>1, <2>2, <2>3, <2>4, <2>5 DEF Does, Orders
<1>7. \A d \in Channels \ {c} : chan'[d] = chan[d]
  BY <1>1, <1>2 DEF TypeInv
<1>8. /\ Turn' = Turn \ {c} /\ ~Fetched(c)' /\ at' \in {"EXEC", "DONE"} /\ step' \in 1..8
      /\ \A d \in Channels \ {c} : Abs(d)' = Abs(d) /\ chan'[d].sar = chan[d].sar
      /\ FetchInv'
  BY <1>1, <1>2, <1>7, GoesOn
<1>9. /\ Orders(w, 5) /\ ~reserved <=> Lines!Commands(w, 5)
      /\ Orders(w, 4) /\ ~reserved <=> Lines!Commands(w, 4)
      /\ Orders(w, 5) => ~reserved
  <2>1. \A k : Lines!Commands(w, k) <=>
                 Orders(w, k) /\ ~("repeat" \in w.op /\ Bit(w.n, 0) /\ ~Bit(w.n, 5))
    BY CommandFields
  <2> QED BY <2>1 DEF Orders
<1>10. Abs(c).pc = Pc(c) /\ Abs(c).loop = chan[c].loop /\ Pc(c)' = chan'[c].sar
  BY <1>8 DEF Abs, Pc
<1>11. Lines!Ran(Abs(c), w, ppr[c]) =
          IF reserved THEN [Abs(c) EXCEPT !.pc = chan[c].sar]
          ELSE [pc |-> IF loops THEN Abs(c).top ELSE chan[c].sar,
                pause |-> IF pauses THEN w.n ELSE Abs(c).pause,
                left |-> IF pauses THEN ppr[c] ELSE Abs(c).left,
                loop |-> IF repeats THEN w.n ELSE IF loops THEN Abs(c).loop - 1 ELSE Abs(c).loop,
                top |-> IF repeats THEN chan[c].sar ELSE Abs(c).top]
  BY <1>4, <1>10, RanFields
<1>12. CASE reserved
  <2>1. chan' = chan /\ NoPulse
    BY <1>1, <1>6, <1>12
  <2>2. Abs(c)' = [Abs(c) EXCEPT !.pc = chan[c].sar]
    BY <1>10, <2>1 DEF Abs
  <2>3. Runs(c)
    BY <1>4, <1>8, <1>9, <1>11, <1>12, <2>1, <2>2 DEF Runs, NoPulse
  <2>4. EngineNext
    BY <1>1, <1>8, <2>1 DEF EngineNext, TypeInv
  <2> QED BY <1>2, <1>8, <2>3, <2>4
<1>13. CASE ~reserved
  <2>1. chan'[c] =
          [chan[c] EXCEPT
             !.pause = IF pauses THEN w.n ELSE @,
             !.presc = IF pauses THEN ppr[c] ELSE @,
             !.loop = IF loops THEN chan[c].loop - 1 ELSE IF repeats THEN w.n ELSE @,
             !.loop_addr = IF repeats THEN chan[c].sar ELSE @,
             !.sar = IF loops THEN chan[c].loop_addr ELSE @]
    <3>1. chan'[c] = Operated(in, chan[c])
      BY <1>1, <1>2, <1>6, <1>13 DEF TypeInv
    <3> HIDE DEF loops, repeats, pauses, reserved
    <3> QED BY <1>2, <1>3, <1>6, <3>1 DEF Operated
  <2>2. repeats => ~loops
    BY <1>13
  <2> HIDE DEF loops, repeats, pauses, reserved
  <2>3. /\ chan'[c].sar = IF loops THEN chan[c].loop_addr ELSE chan[c].sar
        /\ chan'[c].pause = IF pauses THEN w.n ELSE chan[c].pause
        /\ chan'[c].presc = IF pauses THEN ppr[c] ELSE chan[c].presc
        /\ chan'[c].loop = IF loops THEN chan[c].loop - 1 ELSE IF repeats THEN w.n ELSE chan[c].loop
        /\ chan'[c].loop_addr = IF repeats THEN chan[c].sar ELSE chan[c].loop_addr
    BY <1>4, <2>1 DEF Registry
  <2>4. Abs(c)' = Lines!Ran(Abs(c), w, ppr[c])
    BY <1>10, <1>11, <1>13, <2>2, <2>3 DEF Abs
  <2>5. Runs(c)
    BY <1>1, <1>2, <1>4, <1>6, <1>8, <1>9, <1>13, <2>4 DEF Runs
  <2>6. EngineNext
    <3>1. chan'[c] \in Registry
      <4>1. loops => chan[c].loop - 1 \in Nat
        BY <1>5 DEF loops
      <4> QED BY <1>4, <1>5, <2>1, <4>1, ZenonT(60) DEF Registry
    <3>2. chan' \in [Channels -> Registry]
      BY <1>1, <1>2, <1>6, <1>7, <1>13, <3>1 DEF TypeInv
    <3> QED BY <1>1, <1>8, <3>2 DEF EngineNext, TypeInv
  <2> QED BY <1>2, <1>8, <2>5, <2>6
<1> QED BY <1>12, <1>13

-----------------------------------------------------------------------------
(* Edges on which the strobe is held, or ends. *)
State == [c \in Channels |-> Abs(c)]
Ena == dcsr_ena \ dcsr_ena_clr
Flagged == dcsr_flags \cup dma_int_set

LEMMA StateKept ==
    ASSUME \A c \in Channels : Abs(c)' = Abs(c)
    PROVE  State' = State
  BY DEF State

LEMMA DcsrStays ==
    ASSUME TypeInv, StrobeInv, NEW wr \in {strobe, NoWrite}, dcsr_ena_clr = {}, dma_int_set = {}, since # 1,
           RegsClock(wr, ack_seen, FALSE, FALSE, FALSE, dcsr_ena_clr, dma_int_set)
    PROVE  dcsr_flags' = dcsr_flags /\ dcsr_ena' = dcsr_ena /\ ack_src' = ack_src /\ ack_seen' = ack_seen
<1>1. wr.kind = "dcsr" => /\ wr = strobe /\ dcsr_flags \cap strobe.ones = {}
                          /\ dcsr_ena = strobe.ena
  BY DEF NoWrite, StrobeInv
<1> QED BY <1>1, DcsrKept

LEMMA HeldTypes ==
    ASSUME TypeInv, StrobeInv, NEW wr \in {strobe, NoWrite},
           RegsClock(wr, ack_seen, FALSE, FALSE, FALSE, dcsr_ena_clr, dma_int_set)
    PROVE  /\ UNCHANGED <<sar_hi, sar_lo, ppr>>
           /\ dcsr_ena' \subseteq Channels /\ dcsr_flags' \subseteq Channels
           /\ ack_seen' \in BOOLEAN
<1>1. wr.kind = "dcsr" => strobe.ena \subseteq Channels
  BY DEF NoWrite, StrobeInv
<1> QED BY <1>1, PageKept, DcsrKept DEF TypeInv

LEMMA HeldStrobe ==
    ASSUME TypeInv, StrobeInv, NEW wr \in {strobe, NoWrite}, strobe' = wr,
           RegsClock(wr, ack_seen, FALSE, FALSE, FALSE, dcsr_ena_clr, dma_int_set),
           dcsr_ena_clr = {} \/ since' = 1,
           wr.kind \in {"sar_hi", "sar_lo"} =>
              \A c \in Channels \ Turn : c \notin Turn' /\ chan'[c].sar = chan[c].sar
    PROVE  StrobeInv'
<1>1. /\ UNCHANGED <<sar_hi, sar_lo, ppr>> /\ ppr_wr' = {} /\ ppr_dec_q' = PprStrobe(wr)
  BY PageKept
<1>2. wr.kind = "dcsr" => /\ dcsr_flags' = (dcsr_flags \cup dma_int_set) \ strobe.ones
                          /\ dcsr_ena' = strobe.ena \ dcsr_ena_clr
  BY DcsrKept
<1>3. CASE wr = NoWrite
  <2>1. strobe' = NoWrite /\ NoWrite.kind = "none"
    BY <1>3 DEF NoWrite
  <2> QED BY <1>1, <1>3, <2>1 DEF StrobeInv, SarHeld, PprStrobe
<1>4. CASE wr = strobe
  <2>1. SarHeld => /\ strobe.c \in Channels \ Turn'
                   /\ chan'[strobe.c].sar = sar_hi[strobe.c] * LowWords + sar_lo[strobe.c]
    BY <1>4 DEF StrobeInv, SarHeld
  <2>2. strobe.kind = "dcsr" =>
         /\ strobe.ena \subseteq Channels /\ dcsr_flags' \cap strobe.ones = {}
         /\ IF since' = 1 THEN dcsr_ena' \subseteq strobe.ena ELSE dcsr_ena' = strobe.ena
    BY <1>2, <1>4 DEF StrobeInv
  <2> QED BY <1>1, <1>4, <2>1, <2>2 DEF StrobeInv, SarHeld, PprStrobe
<1> QED BY <1>3, <1>4

LEMMA RunsExecute ==
    ASSUME TypeInv, NEW c \in Channels, Runs(c), UNCHANGED <<list, sar_hi, sar_lo, ppr, ppr_wr, ack_src, ack_seen>>,
           dcsr_ena_clr = {}, dma_int_set = {}, UNCHANGED <<dcsr_ena, dcsr_flags>>
    PROVE  Lines!Execute
<1> DEFINE w == list[Pc(c)]
<1>1. Turn # {} /\ Lines!Min(Turn) = c /\ Turn' = Turn \ {c}
  <2>1. Turn \in SUBSET Channels
    BY DEF Turn, TypeInv
  <2> QED BY <2>1, Least DEF Runs
<1>2. State' = [State EXCEPT ![c] = Lines!Ran(@, w, ppr[c])]
  <2>1. State' = [d \in Channels |-> IF d = c THEN Lines!Ran(Abs(c), w, ppr[c]) ELSE Abs(d)]
    BY DEF State, Runs
  <2> QED BY <2>1 DEF State
<1>3. State[c].pc = Pc(c)
  BY DEF State, Abs
<1>4. Ena' = IF Lines!Commands(w, 5) THEN Ena \ {c} ELSE Ena
  BY DEF Ena, Runs
<1>5. Flagged' = IF Lines!Commands(w, 4) THEN Flagged \cup {c} ELSE Flagged
  BY DEF Flagged, Runs
<1> HIDE DEF w
<1>6. w = list[State[c].pc]
  BY <1>3 DEF w
<1> QED BY <1>1, <1>2, <1>4, <1>5, <1>6 DEF Lines!Execute, State, Abs, Ena, Flagged

LEMMA TickEngine ==
    ASSUME IInv, Tick
    PROVE  /\ \/ Passes /\ ~(at = "EXEC" /\ step = 1)
              \/ \E c \in Channels : c = ch /\ Runs(c) /\ at = "EXEC" /\ step = 1
           /\ FetchInv' /\ EngineNext /\ hsync_d' = FALSE /\ hsync' = FALSE /\ since' = 0
           /\ list' = list /\ strobe' = strobe
           /\ RegsClock(strobe, ack_seen, FALSE, FALSE, FALSE, dcsr_ena_clr, dma_int_set)
<1> USE DEF IInv
<1>1. /\ since = 2 /\ ppr_wr = {} /\ since' = 0 /\ hsync' = FALSE
      /\ list' = list /\ strobe' = strobe
      /\ RegsClock(strobe, ack_seen, FALSE, FALSE, FALSE, dcsr_ena_clr, dma_int_set)
  BY DEF Tick, Edge, AckEdge
<1>2. PICK in : in = In(strobe, TRUE) /\ DmaClock(in)
  BY DEF Tick, Edge, AckEdge
<1>3. /\ ~in.reset /\ ~in.sna_load /\ in.hsync = FALSE /\ in.cclk
      /\ in.sar_wr = SarStrobe(strobe) /\ in.sar = SarSeen(strobe)
      /\ in.ppr_wr = ppr_wr /\ in.ppr = ppr /\ in.ena = dcsr_ena /\ in.ram_data = list[ram_addr]
  BY <1>1, <1>2, Sampled
<1>4. Written(in) = chan
  <2>1. \A c \in SarStrobe(strobe) : SarSeen(strobe)[c] = chan[c].sar
    BY <1>1, PageKept
  <2> QED BY <1>1, <1>3, <2>1, ChannelsStay
<1>5. ~Rises(in)
  BY <1>3 DEF Rises
<1>6. /\ \/ Resting(in) \/ Dead(in) \/ Fetch(in) \/ Operate(in)
         \/ LoadBegins(in) \/ LoadSteps(in) \/ LoadFrees(in) \/ LoadExtends(in)
  BY <1>2, <1>3, <1>5, EdgeCycle
<1>7. hsync_d' = FALSE
  BY <1>3, <1>6 DEF Resting, Dead, Fetch, Operate, LoadBegins, LoadSteps, LoadFrees, LoadExtends,
     Cycle, Running
<1>8. /\ \/ Passes /\ ~(at = "EXEC" /\ step = 1)
         \/ \E c \in Channels : c = ch /\ Runs(c) /\ at = "EXEC" /\ step = 1
      /\ FetchInv' /\ EngineNext
  <2>1. CASE Resting(in) \/ Dead(in)
    <3>1. at # "EXEC"
      BY <2>1 DEF Resting, Dead
    <3> QED BY <1>1, <1>4, <2>1, <3>1, RestCycle
  <2>2. CASE Fetch(in)
    <3>1. at # "EXEC"
      BY <2>2 DEF Fetch
    <3> QED BY <1>1, <1>3, <1>4, <2>2, <3>1, FetchCycle
  <2>3. CASE Operate(in)
    <3>1. at = "EXEC" /\ step = 1
      BY <2>3 DEF Operate
    <3> QED BY <1>1, <1>3, <1>4, <2>3, <3>1, OperateRuns
  <2>4. CASE LoadBegins(in)
    <3>1. at = "EXEC" /\ step = 1
      BY <2>4 DEF LoadBegins
    <3> QED BY <1>1, <1>4, <2>4, <3>1, LoadRuns
  <2>5. CASE LoadSteps(in) \/ LoadFrees(in) \/ LoadExtends(in)
    <3>1. step # 1
      BY <2>5 DEF LoadSteps, LoadFrees, LoadExtends
    <3> QED BY <1>1, <1>4, <2>5, <3>1, LoadCycle
  <2> QED BY <1>6, <2>1, <2>2, <2>3, <2>4, <2>5
<1> QED BY <1>1, <1>7, <1>8

LEMMA TickStep ==
    ASSUME IInv, Tick
    PROVE  IInv' /\ (Lines!Execute \/ UNCHANGED Lines!vars)
<1>1. /\ since = 2 /\ ppr_wr = {} /\ dcsr_ena_clr = {} /\ dma_int_set = {}
  BY DEF Tick, IInv, PulseInv
<1>2. /\ FetchInv' /\ EngineNext /\ list' = list /\ strobe' = strobe
      /\ Passes \/ (\E c \in Channels : Runs(c))
  BY TickEngine
<1>11. RegsClock(strobe, ack_seen, FALSE, FALSE, FALSE, dcsr_ena_clr, dma_int_set)
  BY TickEngine
<1>12. since' = 0
  BY TickEngine
<1>13. hsync_d' = FALSE /\ hsync' = FALSE
  BY TickEngine
<1>3. /\ UNCHANGED <<sar_hi, sar_lo, ppr, dcsr_ena, dcsr_flags, ack_src, ack_seen>> /\ ppr_wr' = {}
  <2>1. /\ strobe \in {strobe, NoWrite} /\ since # 1
        /\ RegsClock(strobe, ack_seen, FALSE, FALSE, FALSE, dcsr_ena_clr, dma_int_set)
        /\ TypeInv /\ StrobeInv
    <3>1. strobe \in {strobe, NoWrite} /\ since # 1
      BY <1>1
    <3> QED BY <1>11, <3>1 DEF IInv
  <2>2. sar_hi' = sar_hi /\ sar_lo' = sar_lo /\ ppr' = ppr /\ ppr_wr' = {}
    BY <2>1, PageKept
  <2>3. dcsr_flags' = dcsr_flags /\ dcsr_ena' = dcsr_ena /\ ack_src' = ack_src /\ ack_seen' = ack_seen
    BY <1>1, <2>1, DcsrStays
  <2> QED BY <2>2, <2>3
<1>4. dcsr_ena_clr' \subseteq Channels /\ dma_int_set' \subseteq Channels
  BY <1>2 DEF Passes, Runs, NoPulse
<1>5. TypeInv'
  <2>1. /\ TypeInv
    BY DEF IInv
  <2>2. hsync' \in BOOLEAN
    BY <1>13, Zenon
  <2>3. since' \in 0..2
    BY <1>12
  <2> QED BY <2>3,  <1>2, <1>3, <1>4, <2>1, <2>2 DEF TypeInv, EngineNext
<1>6. \A c \in Channels \ Turn : c \notin Turn' /\ chan'[c].sar = chan[c].sar
  BY <1>2 DEF Passes, Runs
<1>7. StrobeInv'
  BY <1>1, <1>2, <1>6, <1>11, HeldStrobe DEF IInv
<1>8. PulseInv'
  <2>1. at' \in {"IDLE", "DEAD", "FETCH"} => dcsr_ena_clr' = {} /\ dma_int_set' = {}
    BY <1>2 DEF Passes, Runs, NoPulse
  <2>2. hsync_d' = hsync'
    BY <1>13, Zenon
  <2>3. ~(since' # 0) /\ since' # 1
    BY <1>12
  <2> QED BY <2>1, <2>2, <2>3 DEF PulseInv
<1>9. CASE Passes
  <2>1. State' = State /\ Turn' = Turn /\ dcsr_ena_clr' = {} /\ dma_int_set' = {}
    BY <1>9, StateKept DEF Passes, NoPulse
  <2>2. Ena' = Ena /\ Flagged' = Flagged
    BY <1>1, <1>3, <2>1 DEF Ena, Flagged
  <2>3. UNCHANGED Lines!vars
    BY <1>1, <1>2, <1>3, <2>1, <2>2 DEF Lines!vars, State, Abs, Ena, Flagged
  <2> QED BY <1>2, <1>5, <1>7, <1>8, <2>3 DEF IInv
<1>10. CASE \E c \in Channels : Runs(c)
  <2>1. Lines!Execute
    BY <1>1, <1>2, <1>3, <1>10, RunsExecute DEF IInv
  <2> QED BY <1>2, <1>5, <1>7, <1>8, <2>1 DEF IInv
<1> QED BY <1>2, <1>9, <1>10

-----------------------------------------------------------------------------
(* Edges between the cycles. *)
LEMMA FetchedStays ==
    ASSUME TypeInv, FetchInv, UNCHANGED <<at, ch, step, active_ch, instr, ram_addr, list>>,
           \A c \in Turn : chan'[c].sar = chan[c].sar
    PROVE  /\ Turn' = Turn /\ FetchInv'
           /\ \A c \in Channels :
                 chan'[c].sar = chan[c].sar => Pc(c)' = Pc(c)
           /\ \A c \in Channels : c \notin Turn => Pc(c) = chan[c].sar /\ Pc(c)' = chan'[c].sar
<1>1. Turn' = Turn
  BY DEF Turn
<1>2. \A c \in Channels : (Fetched(c)' <=> Fetched(c)) /\ (Fetched(c) => c \in Turn)
  BY <1>1 DEF Fetched
<1>3. \A c \in Channels : chan'[c].sar = chan[c].sar => Pc(c)' = Pc(c)
  BY <1>2 DEF Pc
<1>4. \A c \in Channels : c \notin Turn => Pc(c) = chan[c].sar /\ Pc(c)' = chan'[c].sar
  BY <1>2 DEF Pc
<1>5. \A c \in Channels : Fetched(c)' => instr'[c] = list'[Pc(c)']
  BY <1>2, <1>3 DEF FetchInv
<1>6. at = "FETCH" => ch \in Turn
  BY Turns DEF FetchInv
<1>7. FetchInv'
  BY <1>5, <1>6 DEF FetchInv
<1> QED BY <1>1, <1>3, <1>4, <1>7

LEMMA EdgeRests ==
    ASSUME IInv, NEW wr, NEW m1, NEW ack, NEW raster, NEW ivr0, AckEdge(wr, FALSE, m1, ack, raster, ivr0),
           hsync' = hsync
    PROVE  /\ chan' = Written(In(wr, FALSE))
           /\ dcsr_ena_clr' = {} /\ dma_int_set' = {} /\ hsync_d' = hsync'
           /\ UNCHANGED <<at, ch, step, active_ch, instr, ram_addr, list>>
           /\ strobe' = wr
<1>1. PICK in : in = In(wr, FALSE) /\ DmaClock(in)
  BY DEF AckEdge
<1>2. ~in.reset /\ ~in.sna_load /\ in.hsync = hsync' /\ ~in.cclk
  BY <1>1, Sampled
<1>3. hsync_d = hsync
  BY DEF IInv, PulseInv
<1>4. ~Rises(in)
  BY <1>2, <1>3 DEF Rises
<1>5. /\ chan' = Written(in) /\ NoPulse /\ hsync_d' = in.hsync
      /\ UNCHANGED <<at, ch, step, active_ch, instr, ram_addr>>
  BY <1>1, <1>2, <1>4, EdgeBetween
<1>6. list' = list /\ strobe' = wr
  BY DEF AckEdge
<1> QED BY <1>1, <1>2, <1>5, <1>6 DEF NoPulse

(* ... of a strobe that was held: at most the pauses are cut. *)
LEMMA HeldRests ==
    ASSUME IInv, NEW wr \in {strobe, NoWrite}, NEW m1, NEW ack, NEW raster, NEW ivr0,
           AckEdge(wr, FALSE, m1, ack, raster, ivr0), hsync' = hsync
    PROVE  /\ Turn' = Turn /\ FetchInv' /\ chan' \in [Channels -> Registry]
           /\ \A c \in Channels : chan'[c].sar = chan[c].sar
           /\ State' = [c \in Channels |->
                 IF c \in ppr_wr /\ c \in dcsr_ena /\ State[c].pause > 0
                 THEN [State[c] EXCEPT !.left = 0] ELSE State[c]]
           /\ UNCHANGED <<sar_hi, sar_lo, ppr>> /\ ppr_wr' = {}
           /\ RegsClock(wr, m1, ack, raster, ivr0, dcsr_ena_clr, dma_int_set)
<1>1. /\ chan' = Written(In(wr, FALSE))
      /\ UNCHANGED <<at, ch, step, active_ch, instr, ram_addr, list>>
  BY EdgeRests
<1>2. RegsClock(wr, m1, ack, raster, ivr0, dcsr_ena_clr, dma_int_set)
  BY DEF AckEdge
<1>3. /\ sar_hi' = sar_hi /\ sar_lo' = sar_lo /\ ppr' = ppr /\ ppr_wr' = {}
      /\ \A c \in SarStrobe(wr) : SarSeen(wr)[c] = chan[c].sar
  BY <1>2, PageKept DEF IInv
<1>4. chan' = [c \in Channels |->
              IF c \in ppr_wr /\ c \in dcsr_ena /\ chan[c].pause > 0
              THEN [chan[c] EXCEPT !.presc = 0] ELSE chan[c]]
  <2>1. PICK in : in = In(wr, FALSE)
    OBVIOUS
  <2>2. /\ in.sar_wr = SarStrobe(wr) /\ in.sar = SarSeen(wr)
        /\ in.ppr_wr = ppr_wr /\ in.ena = dcsr_ena
    BY <2>1, Sampled
  <2>3. Written(in) = [c \in Channels |->
              IF c \in ppr_wr /\ c \in dcsr_ena /\ chan[c].pause > 0
              THEN [chan[c] EXCEPT !.presc = 0] ELSE chan[c]]
    BY <1>3, <2>2, ChannelsKept DEF IInv
  <2> QED BY <1>1, <2>1, <2>3
<1>5. chan \in [Channels -> Registry]
  BY DEF IInv, TypeInv
<1>6. /\ chan' \in [Channels -> Registry]
      /\ \A c \in Channels : /\ chan'[c].sar = chan[c].sar /\ chan'[c].pause = chan[c].pause
                             /\ chan'[c].loop = chan[c].loop
                             /\ chan'[c].loop_addr = chan[c].loop_addr
                             /\ chan'[c].presc = IF c \in ppr_wr /\ c \in dcsr_ena /\ chan[c].pause > 0
                                                 THEN 0 ELSE chan[c].presc
  BY <1>4, <1>5 DEF Registry
<1>7. /\ Turn' = Turn /\ FetchInv' /\ \A c \in Channels : Pc(c)' = Pc(c)
  <2>1. \A c \in Turn : c \in Channels
    BY DEF Turn, IInv, TypeInv
  <2> QED BY <1>1, <1>6, <2>1, FetchedStays DEF IInv
<1>8. ASSUME NEW c \in Channels
      PROVE  Abs(c)' = IF c \in ppr_wr /\ c \in dcsr_ena /\ Abs(c).pause > 0
                       THEN [Abs(c) EXCEPT !.left = 0] ELSE Abs(c)
  BY <1>6, <1>7 DEF Abs
<1>9. State' = [c \in Channels |->
                 IF c \in ppr_wr /\ c \in dcsr_ena /\ State[c].pause > 0
                 THEN [State[c] EXCEPT !.left = 0] ELSE State[c]]
  BY <1>8 DEF State
<1> QED BY <1>2, <1>3, <1>6, <1>7, <1>9

LEMMA Uncut ==
    ASSUME ppr_wr = {},
           State' = [c \in Channels |->
                 IF c \in ppr_wr /\ c \in dcsr_ena /\ State[c].pause > 0
                 THEN [State[c] EXCEPT !.left = 0] ELSE State[c]]
    PROVE  State' = State
  BY DEF State

LEMMA SettleStep ==
    ASSUME IInv, Settle
    PROVE  IInv' /\ (Lines!WriteDcsr \/ UNCHANGED Lines!vars)
<1>1. /\ AckEdge(strobe, FALSE, ack_seen, FALSE, FALSE, FALSE) /\ hsync' = hsync
      /\ strobe \in {strobe, NoWrite}
  BY DEF Settle, Edge
<1>2. since \in {0, 1} /\ since' = IF dcsr_ena_clr \cup dma_int_set = {} THEN 2 ELSE 1
  BY DEF Settle, IInv, TypeInv
<1>3. ppr_wr = {}
  BY <1>2 DEF IInv, StrobeInv
<1>4. /\ dcsr_ena_clr' = {} /\ dma_int_set' = {} /\ hsync_d' = hsync'
      /\ UNCHANGED <<at, ch, step, active_ch, instr, ram_addr, list, strobe>>
  BY <1>1, EdgeRests
<1>5. /\ Turn' = Turn /\ FetchInv' /\ chan' \in [Channels -> Registry]
      /\ \A c \in Channels : chan'[c].sar = chan[c].sar
      /\ State' = State
      /\ UNCHANGED <<sar_hi, sar_lo, ppr>> /\ ppr_wr' = {}
  BY <1>1, <1>3, HeldRests, Uncut
<1>6. RegsClock(strobe, ack_seen, FALSE, FALSE, FALSE, dcsr_ena_clr, dma_int_set)
  BY <1>1, HeldRests
<1>7. TypeInv'
  <2>1. dcsr_ena' \subseteq Channels /\ dcsr_flags' \subseteq Channels
    BY <1>1, <1>6, HeldTypes DEF IInv
  <2>2. since' \in 0..2
    BY <1>2
  <2>3. ack_seen' \in BOOLEAN
    BY <1>1, <1>6, HeldTypes DEF IInv
  <2> QED BY <1>1, <1>4, <1>5, <2>1, <2>2, <2>3 DEF IInv, TypeInv
<1>8. StrobeInv'
  <2>1. dcsr_ena_clr = {} \/ since' = 1
    BY <1>2
  <2>2. \A c \in Channels \ Turn : c \notin Turn' /\ chan'[c].sar = chan[c].sar
    BY <1>5
  <2> QED BY <1>1, <1>4, <1>6, <2>1, <2>2, HeldStrobe DEF IInv
<1>9. PulseInv'
  <2>1. since' = 1 => at' # "IDLE"
    BY <1>2, <1>4 DEF IInv, PulseInv
  <2> QED BY <1>4, <2>1 DEF PulseInv
<1>10. /\ ack_src' = ack_src /\ ack_seen' = ack_seen
       /\ strobe.kind # "dcsr" => Flagged' = Flagged /\ Ena' = Ena
       /\ strobe.kind = "dcsr" => /\ Flagged' = Flagged \ strobe.ones
                                  /\ Ena' = strobe.ena \/ Ena' = Ena \cap strobe.ena
  <2>1. /\ ack_src' = ack_src /\ ack_seen' = ack_seen
        /\ strobe.kind # "dcsr" => /\ dcsr_flags' = dcsr_flags \cup dma_int_set
                                   /\ dcsr_ena' = dcsr_ena \ dcsr_ena_clr
        /\ strobe.kind = "dcsr" => /\ dcsr_flags' = (dcsr_flags \cup dma_int_set) \ strobe.ones
                                   /\ dcsr_ena' = strobe.ena \ dcsr_ena_clr
    BY <1>1, <1>6, DcsrKept DEF IInv
  <2>2. since = 1 => dcsr_ena_clr = {}
    BY DEF IInv, PulseInv
  <2>3. since = 0 /\ strobe.kind = "dcsr" => dcsr_ena = strobe.ena
    BY DEF IInv, StrobeInv
  <2>4. Ena' = dcsr_ena' /\ Flagged' = dcsr_flags'
    BY <1>4 DEF Ena, Flagged
  <2> QED BY <1>2, <2>1, <2>2, <2>3, <2>4 DEF Ena, Flagged
<1>11. CASE strobe.kind # "dcsr"
  <2>1. UNCHANGED Lines!vars
    BY <1>3, <1>4, <1>5, <1>10, <1>11 DEF Lines!vars, State, Abs, Ena, Flagged
  <2> QED BY <1>5, <1>7, <1>8, <1>9, <2>1 DEF IInv
<1>12. CASE strobe.kind = "dcsr"
  <2>1. Lines!WriteDcsr
    BY <1>3, <1>4, <1>5, <1>10, <1>12 DEF Lines!WriteDcsr, State, Abs, Ena, Flagged
  <2> QED BY <1>5, <1>7, <1>8, <1>9, <2>1 DEF IInv
<1> QED BY <1>11, <1>12

LEMMA CpuEndsStep ==
    ASSUME IInv, CpuEnds
    PROVE  IInv' /\ (Lines!Cut \/ UNCHANGED Lines!vars)
<1>1. /\ AckEdge(NoWrite, FALSE, ack_seen, FALSE, FALSE, FALSE) /\ hsync' = hsync /\ since = 2 /\ since' = 2
      /\ NoWrite \in {strobe, NoWrite}
  BY DEF CpuEnds, Quiet, Edge
<1>2. dcsr_ena_clr = {} /\ dma_int_set = {}
  BY <1>1 DEF IInv, PulseInv
<1>3. /\ dcsr_ena_clr' = {} /\ dma_int_set' = {} /\ hsync_d' = hsync'
      /\ UNCHANGED <<at, ch, step, active_ch, instr, ram_addr, list>> /\ strobe' = NoWrite
  BY <1>1, EdgeRests
<1>4. /\ Turn' = Turn /\ FetchInv' /\ chan' \in [Channels -> Registry]
      /\ \A c \in Channels : chan'[c].sar = chan[c].sar
      /\ State' = [c \in Channels |->
            IF c \in ppr_wr /\ c \in dcsr_ena /\ State[c].pause > 0
            THEN [State[c] EXCEPT !.left = 0] ELSE State[c]]
      /\ UNCHANGED <<sar_hi, sar_lo, ppr>> /\ ppr_wr' = {}
  BY <1>1, HeldRests
<1>5. RegsClock(NoWrite, ack_seen, FALSE, FALSE, FALSE, dcsr_ena_clr, dma_int_set)
  BY <1>1, HeldRests
<1>6. TypeInv'
  <2>1. dcsr_ena' \subseteq Channels /\ dcsr_flags' \subseteq Channels
    BY <1>1, <1>5, HeldTypes DEF IInv
  <2>2. since' \in 0..2
    BY <1>1
  <2>3. ack_seen' \in BOOLEAN
    BY <1>1, <1>5, HeldTypes DEF IInv
  <2> QED BY <1>1, <1>3, <1>4, <2>1, <2>2, <2>3 DEF IInv, TypeInv
<1>7. StrobeInv'
  <2>1. \A c \in Channels \ Turn : c \notin Turn' /\ chan'[c].sar = chan[c].sar
    BY <1>4
  <2> QED BY <1>1, <1>2, <1>3, <1>5, <2>1, HeldStrobe DEF IInv
<1>8. PulseInv'
  BY <1>1, <1>3 DEF PulseInv
<1>9. ack_src' = ack_src /\ ack_seen' = ack_seen /\ Ena' = Ena /\ Flagged' = Flagged /\ Ena = dcsr_ena
  <2>1. /\ ack_src' = ack_src /\ ack_seen' = ack_seen
        /\ dcsr_flags' = dcsr_flags \cup dma_int_set
        /\ dcsr_ena' = dcsr_ena \ dcsr_ena_clr
    BY <1>1, <1>5, DcsrKept DEF IInv, NoWrite
  <2> QED BY <1>2, <1>3, <2>1 DEF Ena, Flagged
<1>10. CASE ppr_wr = {}
  <2>1. State' = State
    BY <1>4, <1>10, Uncut
  <2>2. UNCHANGED Lines!vars
    BY <1>3, <1>4, <1>9, <1>10, <2>1 DEF Lines!vars, State, Abs, Ena, Flagged
  <2> QED BY <1>4, <1>6, <1>7, <1>8, <2>2 DEF IInv
<1>11. CASE ppr_wr # {}
  <2>1. Lines!Cut
    BY <1>3, <1>4, <1>9, <1>11 DEF Lines!Cut, State, Abs, Ena, Flagged
  <2> QED BY <1>4, <1>6, <1>7, <1>8, <2>1 DEF IInv
<1> QED BY <1>10, <1>11

(* An edge with no strobe and no pulse, but perhaps an acknowledge. *)
LEMMA QuietEdge ==
    ASSUME IInv, NEW m1, NEW ack, NEW raster, NEW ivr0,
           AckEdge(strobe, FALSE, m1, ack, raster, ivr0), hsync' = hsync,
           since = 2, since' = 2, strobe = NoWrite, ppr_wr = {}
    PROVE  /\ dcsr_ena_clr = {} /\ dma_int_set = {} /\ strobe' = NoWrite /\ Turn' = Turn
           /\ State' = State /\ UNCHANGED <<list, sar_hi, sar_lo, ppr, dcsr_ena, ppr_wr>>
           /\ Ena' = Ena /\ Flagged = dcsr_flags /\ Flagged' = dcsr_flags'
           /\ RegsClock(strobe, m1, ack, raster, ivr0, dcsr_ena_clr, dma_int_set)
           /\ (dcsr_flags' \subseteq Channels /\ ack_seen' \in BOOLEAN) => IInv'
<1>1. dcsr_ena_clr = {} /\ dma_int_set = {} /\ strobe \in {strobe, NoWrite}
  BY DEF IInv, PulseInv
<1>2. /\ dcsr_ena_clr' = {} /\ dma_int_set' = {} /\ hsync_d' = hsync'
      /\ UNCHANGED <<at, ch, step, active_ch, instr, ram_addr, list>> /\ strobe' = NoWrite
  BY EdgeRests
<1>3. /\ Turn' = Turn /\ FetchInv' /\ chan' \in [Channels -> Registry]
      /\ State' = State
      /\ UNCHANGED <<sar_hi, sar_lo, ppr>> /\ ppr_wr' = {}
  BY <1>1, HeldRests, Uncut
<1>4. RegsClock(strobe, m1, ack, raster, ivr0, dcsr_ena_clr, dma_int_set)
  BY <1>1, HeldRests
<1>5. dcsr_ena' = dcsr_ena /\ ppr_dec_q' = {}
  BY <1>1, <1>4 DEF RegsClock, Enable, NoWrite, PprStrobe
<1>6. ASSUME dcsr_flags' \subseteq Channels, ack_seen' \in BOOLEAN
      PROVE  IInv'
  <2>1. TypeInv'
    <3>1. since' \in 0..2
      OBVIOUS
    <3>2. dcsr_ena' \subseteq Channels
      BY <1>5 DEF IInv, TypeInv
    <3> QED BY <1>2, <1>3, <1>6, <3>1, <3>2 DEF IInv, TypeInv
  <2>2. StrobeInv'
    BY <1>2, <1>3, <1>5 DEF StrobeInv, SarHeld, NoWrite, PprStrobe
  <2>3. PulseInv'
    BY <1>2 DEF PulseInv
  <2> QED BY <1>3, <2>1, <2>2, <2>3 DEF IInv
<1>7. Ena' = Ena /\ Flagged = dcsr_flags /\ Flagged' = dcsr_flags'
  BY <1>1, <1>2, <1>5 DEF Ena, Flagged
<1> QED BY <1>1, <1>2, <1>3, <1>4, <1>5, <1>6, <1>7

LEMMA AcknowledgeStep ==
    ASSUME IInv, CpuAcknowledges
    PROVE  IInv' /\ Lines!Acknowledge
<1>1. PICK raster \in BOOLEAN, ivr0 \in BOOLEAN :
         AckEdge(strobe, FALSE, TRUE, TRUE, raster, ivr0)
  BY DEF CpuAcknowledges
<1>2. /\ hsync' = hsync /\ since = 2 /\ since' = 2 /\ strobe = NoWrite /\ ppr_wr = {}
      /\ strobe \in {strobe, NoWrite}
  BY DEF CpuAcknowledges, Quiet
<1>3. /\ dcsr_ena_clr = {} /\ dma_int_set = {} /\ strobe' = NoWrite /\ Turn' = Turn
      /\ State' = State /\ UNCHANGED <<list, sar_hi, sar_lo, ppr, dcsr_ena, ppr_wr>>
      /\ Ena' = Ena /\ Flagged = dcsr_flags /\ Flagged' = dcsr_flags'
      /\ RegsClock(strobe, TRUE, TRUE, raster, ivr0, dcsr_ena_clr, dma_int_set)
  BY <1>1, <1>2, QuietEdge
<1>4. dcsr_flags' = dcsr_flags \ AutoClear(TRUE, raster, ivr0)
  BY <1>2, <1>3 DEF RegsClock, Flags, Ones, NoWrite
<1>5. ack_src' = Source(TRUE, raster)
  BY <1>3 DEF RegsClock, VectorClock
<1>6. ack_seen' = TRUE
  <2>1. ack_seen' = (TRUE \/ (TRUE /\ ack_seen))
    BY <1>3 DEF RegsClock, VectorClock
  <2> QED BY <2>1, Zenon
<1>7. dcsr_flags \in SUBSET Channels /\ dcsr_flags' \subseteq Channels
  BY <1>4 DEF IInv, TypeInv
<1>8. IInv'
  <2>1. ack_seen' \in BOOLEAN
    BY <1>6, Zenon
  <2> QED BY <1>1, <1>2, <1>7, <2>1, QuietEdge
<1>9. \/ ack_src' = 3 /\ dcsr_flags' = dcsr_flags
      \/ /\ dcsr_flags # {} /\ ack_src' = Lines!Max(dcsr_flags)
         /\ dcsr_flags' \in {dcsr_flags, dcsr_flags \ {ack_src'}}
      \/ dcsr_flags = {} /\ dcsr_flags' = {} /\ ack_src' = IF ack_seen THEN 0 ELSE 2
  <2>1. CASE raster
    BY <1>4, <1>5, <2>1 DEF AutoClear, Source, Raster
  <2>2. CASE ~raster /\ dcsr_flags # {}
    <3>1. ack_src' = Priority /\ Priority = Lines!Max(dcsr_flags)
      BY <1>5, <1>7, <2>2, Greatest DEF Source, Priority
    <3> QED BY <1>4, <2>2, <3>1 DEF AutoClear
  <2>3. CASE ~raster /\ dcsr_flags = {}
    BY <1>4, <1>5, <2>3 DEF AutoClear, Source
  <2> QED BY <2>1, <2>2, <2>3
<1>10. Lines!Acknowledge
  BY <1>2, <1>3, <1>6, <1>9 DEF Lines!Acknowledge, State, Abs, Ena, Flagged
<1> QED BY <1>8, <1>10

LEMMA CycleEndsStep ==
    ASSUME IInv, CycleEnds
    PROVE  IInv' /\ Lines!CycleEnds
<1>1. /\ AckEdge(strobe, FALSE, FALSE, FALSE, FALSE, FALSE) /\ ack_seen
      /\ hsync' = hsync /\ since = 2 /\ since' = 2 /\ strobe = NoWrite /\ ppr_wr = {}
      /\ strobe \in {strobe, NoWrite}
  BY DEF CycleEnds, Quiet
<1>2. /\ dcsr_ena_clr = {} /\ dma_int_set = {} /\ strobe' = NoWrite /\ Turn' = Turn
      /\ State' = State /\ UNCHANGED <<list, sar_hi, sar_lo, ppr, dcsr_ena, ppr_wr>>
      /\ Ena' = Ena /\ Flagged = dcsr_flags /\ Flagged' = dcsr_flags'
      /\ RegsClock(strobe, FALSE, FALSE, FALSE, FALSE, dcsr_ena_clr, dma_int_set)
  BY <1>1, QuietEdge
<1>3. dcsr_flags' = dcsr_flags /\ ack_src' = ack_src
  BY <1>1, <1>2 DEF RegsClock, VectorClock, Flags, Ones, AutoClear, NoWrite
<1>4. ack_seen' = FALSE
  <2>1. ack_seen' = (FALSE \/ (FALSE /\ ack_seen))
    BY <1>2 DEF RegsClock, VectorClock
  <2> QED BY <2>1, Zenon
<1>5. IInv'
  <2>1. ack_seen' \in BOOLEAN
    BY <1>4, Zenon
  <2>2. dcsr_flags' \subseteq Channels
    BY <1>3 DEF IInv, TypeInv
  <2> QED BY <1>1, <2>1, <2>2, QuietEdge
<1>6. Lines!CycleEnds
  BY <1>1, <1>2, <1>3, <1>4 DEF Lines!CycleEnds, State, Abs, Ena, Flagged
<1> QED BY <1>5, <1>6

(* The pause of one channel as a line begins. *)
LEMMA PausedFields ==
    ASSUME TypeInv, NEW in, NEW c \in Channels, in.ppr_wr = ppr_wr, in.ppr = ppr,
           in.ena = dcsr_ena, in.sar_wr = {}
    PROVE  LET ends == chan[c].presc = 0 \/ c \in ppr_wr
               ticks == c \in dcsr_ena /\ chan[c].pause # 0 IN
           /\ Paused(in, c) \in Registry
           /\ Paused(in, c).sar = chan[c].sar
           /\ Paused(in, c).pause = IF ticks /\ ends THEN chan[c].pause - 1 ELSE chan[c].pause
           /\ Paused(in, c).presc = IF ~ticks THEN chan[c].presc
                                    ELSE IF ends THEN ppr[c] ELSE chan[c].presc - 1
           /\ Paused(in, c).loop = chan[c].loop /\ Paused(in, c).loop_addr = chan[c].loop_addr
           /\ c \in dcsr_ena => (PauseDone(in, c) <=> Paused(in, c).pause = 0)
<1>1. chan[c] \in Registry /\ ppr[c] \in Nat /\ chan[c].pause \in Nat /\ chan[c].presc \in Nat
  BY DEF TypeInv, Registry
<1>2. [chan[c] EXCEPT !.sar = Sar(in, c)] = chan[c]
  BY <1>1 DEF Sar, Registry
<1>3. IntervalEnds(in, c) <=> chan[c].presc = 0 \/ c \in ppr_wr
  BY DEF IntervalEnds
<1>4. PauseDone(in, c) <=> chan[c].pause = 0 \/ (chan[c].pause = 1 /\ IntervalEnds(in, c))
  BY DEF PauseDone
<1>5. CASE c \notin dcsr_ena \/ chan[c].pause = 0
  <2>1. Paused(in, c) = chan[c]
    BY <1>2, <1>5 DEF Paused
  <2> QED BY <1>1, <1>4, <1>5, <2>1
<1>6. CASE c \in dcsr_ena /\ chan[c].pause # 0 /\ IntervalEnds(in, c)
  <2>1. chan[c].pause - 1 \in Nat /\ (chan[c].pause = 1 <=> chan[c].pause - 1 = 0)
    BY <1>1, <1>6
  <2>2. Paused(in, c) = [chan[c] EXCEPT !.presc = ppr[c], !.pause = @ - 1]
    BY <1>2, <1>6 DEF Paused
  <2>3. /\ Paused(in, c) \in Registry /\ Paused(in, c).pause = chan[c].pause - 1
        /\ Paused(in, c).presc = ppr[c] /\ Paused(in, c).sar = chan[c].sar
        /\ Paused(in, c).loop = chan[c].loop /\ Paused(in, c).loop_addr = chan[c].loop_addr
    BY <1>1, <2>1, <2>2 DEF Registry
  <2> QED BY <1>3, <1>4, <1>6, <2>1, <2>3
<1>7. CASE c \in dcsr_ena /\ chan[c].pause # 0 /\ ~IntervalEnds(in, c)
  <2>1. chan[c].presc - 1 \in Nat
    BY <1>1, <1>3, <1>7
  <2>2. Paused(in, c) = [chan[c] EXCEPT !.presc = @ - 1]
    BY <1>2, <1>7 DEF Paused
  <2>3. /\ Paused(in, c) \in Registry /\ Paused(in, c).pause = chan[c].pause
        /\ Paused(in, c).presc = chan[c].presc - 1 /\ Paused(in, c).sar = chan[c].sar
        /\ Paused(in, c).loop = chan[c].loop /\ Paused(in, c).loop_addr = chan[c].loop_addr
    BY <1>1, <2>1, <2>2 DEF Registry
  <2> QED BY <1>3, <1>4, <1>7, <2>3
<1> QED BY <1>5, <1>6, <1>7

(* A channel as a line begins. *)
Ages(c) ==
    LET ends == chan[c].presc = 0 \/ c \in ppr_wr
        ticks == c \in dcsr_ena /\ chan[c].pause # 0 IN
    /\ chan'[c] \in Registry /\ chan'[c].sar = chan[c].sar
    /\ chan'[c].pause = IF ticks /\ ends THEN chan[c].pause - 1 ELSE chan[c].pause
    /\ chan'[c].presc = IF ~ticks THEN chan[c].presc
                        ELSE IF ends THEN ppr[c] ELSE chan[c].presc - 1
    /\ chan'[c].loop = chan[c].loop /\ chan'[c].loop_addr = chan[c].loop_addr

LEMMA LineEdge ==
    ASSUME IInv, NewLine
    PROVE  /\ chan' \in [Channels -> Registry] /\ \A c \in Channels : Ages(c)
           /\ active_ch' = {c \in dcsr_ena : chan'[c].pause = 0}
           /\ at' = "DEAD" /\ NoPulse /\ hsync_d' = hsync'
           /\ UNCHANGED <<ch, step, instr, ram_addr>>
<1>1. /\ ~hsync /\ hsync' = TRUE /\ strobe.kind \notin {"sar_hi", "sar_lo"}
      /\ AckEdge(strobe, FALSE, ack_seen, FALSE, FALSE, FALSE)
  BY DEF NewLine, ListInFlight, Edge
<1>2. PICK in : in = In(strobe, FALSE) /\ DmaClock(in)
  BY <1>1 DEF AckEdge
<1>3. /\ ~in.reset /\ ~in.sna_load /\ in.hsync = hsync'
      /\ in.ppr_wr = ppr_wr /\ in.ppr = ppr /\ in.ena = dcsr_ena /\ in.sar_wr = {}
  BY <1>1, <1>2, Sampled DEF SarStrobe
<1>4. Rises(in)
  <2>1. hsync_d = hsync
    BY DEF IInv, PulseInv
  <2> QED BY <1>1, <1>3, <2>1 DEF Rises
<1>5. /\ chan' = [c \in Channels |-> Paused(in, c)]
      /\ active_ch' = {c \in dcsr_ena : PauseDone(in, c)}
      /\ at' = "DEAD" /\ NoPulse /\ hsync_d' = hsync'
      /\ UNCHANGED <<ch, step, instr, ram_addr>>
  <2>1. DmaClock(in) /\ ~in.reset /\ ~in.sna_load /\ Rises(in)
    BY <1>2, <1>3, <1>4
  <2>2. in.hsync = hsync' /\ in.ena = dcsr_ena
    BY <1>3
  <2> QED BY <2>1, <2>2, EdgeLine
<1>6. ASSUME NEW c \in Channels
      PROVE  Ages(c) /\ (c \in dcsr_ena => (PauseDone(in, c) <=> chan'[c].pause = 0))
  <2>1. chan'[c] = Paused(in, c)
    BY <1>5
  <2>2. /\ TypeInv /\ in.ppr_wr = ppr_wr /\ in.ppr = ppr /\ in.ena = dcsr_ena
        /\ in.sar_wr = {}
    BY <1>3 DEF IInv
  <2> QED BY <2>1, <2>2, PausedFields DEF Ages
<1>7. chan' \in [Channels -> Registry]
  BY <1>5, <1>6 DEF Ages
<1>8. active_ch' = {c \in dcsr_ena : chan'[c].pause = 0}
  <2>1. dcsr_ena \subseteq Channels
    BY DEF IInv, TypeInv
  <2> QED BY <1>5, <1>6, <2>1
<1> QED BY <1>5, <1>6, <1>7, <1>8

LEMMA NewLineStep ==
    ASSUME IInv, NewLine
    PROVE  IInv' /\ Lines!Line
<1>1. /\ at = "IDLE" /\ ~hsync /\ hsync' = TRUE /\ since' = since
      /\ strobe \in {strobe, NoWrite} /\ strobe.kind \notin {"sar_hi", "sar_lo"}
      /\ AckEdge(strobe, FALSE, ack_seen, FALSE, FALSE, FALSE)
  BY DEF NewLine, ListInFlight, Edge
<1>2. RegsClock(strobe, ack_seen, FALSE, FALSE, FALSE, dcsr_ena_clr, dma_int_set)
  BY <1>1 DEF AckEdge
<1>3. /\ dcsr_ena_clr = {} /\ dma_int_set = {} /\ since # 1 /\ list' = list /\ strobe' = strobe
  BY <1>1 DEF IInv, PulseInv, AckEdge
<1>4. /\ chan' \in [Channels -> Registry] /\ \A c \in Channels : Ages(c)
      /\ active_ch' = {c \in dcsr_ena : chan'[c].pause = 0}
      /\ at' = "DEAD" /\ NoPulse /\ hsync_d' = hsync'
      /\ UNCHANGED <<ch, step, instr, ram_addr>>
  BY LineEdge
<1>5. /\ UNCHANGED <<sar_hi, sar_lo, ppr, dcsr_ena, dcsr_flags, ack_src, ack_seen>> /\ ppr_wr' = {}
  <2>1. sar_hi' = sar_hi /\ sar_lo' = sar_lo /\ ppr' = ppr /\ ppr_wr' = {}
    BY <1>1, <1>2, PageKept DEF IInv
  <2>2. dcsr_flags' = dcsr_flags /\ dcsr_ena' = dcsr_ena /\ ack_src' = ack_src /\ ack_seen' = ack_seen
    BY <1>1, <1>2, <1>3, DcsrStays DEF IInv
  <2> QED BY <2>1, <2>2
<1>6. Turn = {} /\ Turn' = active_ch' /\ \A c \in Channels : ~Fetched(c)' /\ ~Fetched(c)
  <2>1. Turn = {}
    BY <1>1 DEF Turn
  <2>2. Turn' = active_ch'
    BY <1>4 DEF Turn
  <2>3. \A c \in Channels : ~Fetched(c)' /\ ~Fetched(c)
    BY <1>1, <1>4 DEF Fetched
  <2> QED BY <2>1, <2>2, <2>3
<1>7. ASSUME NEW c \in Channels
       PROVE  /\ Abs(c)' = IF c \notin dcsr_ena \/ Abs(c).pause = 0 THEN Abs(c)
                           ELSE IF Abs(c).left = 0 \/ c \in ppr_wr
                           THEN [Abs(c) EXCEPT !.pause = @ - 1, !.left = ppr[c]]
                           ELSE [Abs(c) EXCEPT !.left = @ - 1]
              /\ Abs(c)'.pause = chan'[c].pause
  <2>1. Pc(c) = chan[c].sar /\ Pc(c)' = chan'[c].sar
    BY <1>6 DEF Pc
  <2>2. Ages(c)
    BY <1>4
  <2>3. Abs(c)' = IF c \notin dcsr_ena \/ Abs(c).pause = 0 THEN Abs(c)
                  ELSE IF Abs(c).left = 0 \/ c \in ppr_wr
                  THEN [Abs(c) EXCEPT !.pause = @ - 1, !.left = ppr[c]]
                  ELSE [Abs(c) EXCEPT !.left = @ - 1]
    BY <2>1, <2>2 DEF Abs, Ages
  <2>4. Abs(c)'.pause = chan'[c].pause
    BY DEF Abs
  <2> QED BY <2>3, <2>4
<1>8. TypeInv'
  <2>1. chan' \in [Channels -> Registry]
    BY <1>4
  <2>2. active_ch' \subseteq Channels
    BY <1>4 DEF IInv, TypeInv
  <2>3. hsync' \in BOOLEAN
    BY <1>1, Zenon
  <2>4. since' \in 0..2
    BY <1>1 DEF IInv, TypeInv
  <2> QED BY <1>3, <1>4, <1>5, <2>1, <2>2, <2>3, <2>4 DEF IInv, TypeInv, NoPulse
<1>9. StrobeInv'
  BY <1>1, <1>2, <1>3, HeldStrobe DEF IInv
<1>10. PulseInv'
  BY <1>1, <1>3, <1>4 DEF PulseInv, NoPulse
<1>11. FetchInv'
  BY <1>4, <1>6 DEF FetchInv
<1>12. Ena = dcsr_ena /\ Ena' = dcsr_ena /\ Flagged' = Flagged
  BY <1>3, <1>4, <1>5 DEF Ena, Flagged, NoPulse
<1>13. Lines!Line
  <2>1. /\ \A c \in Channels : State[c] = Abs(c)
        /\ State' = [c \in Channels |-> IF c \notin Ena \/ State[c].pause = 0 THEN State[c]
                           ELSE IF State[c].left = 0 \/ c \in ppr_wr
                           THEN [State[c] EXCEPT !.pause = @ - 1, !.left = ppr[c]]
                           ELSE [State[c] EXCEPT !.left = @ - 1]]
    BY <1>7, <1>12 DEF State
  <2>2. State' = [c \in Channels |-> Lines!Aged(c)]
    BY <2>1 DEF Lines!Aged, State, Abs, Ena
  <2>3. Turn' = {c \in Ena : Lines!Aged(c).pause = 0}
    <3>1. \A c \in Channels : Lines!Aged(c) = Abs(c)'
      BY <2>2 DEF State
    <3>2. \A c \in Ena : c \in Channels
      BY <1>12 DEF IInv, TypeInv
    <3>3. \A c \in Ena : c \in Channels /\ (chan'[c].pause = 0 <=> Lines!Aged(c).pause = 0)
      BY <1>7, <1>12, <3>1, <3>2
    <3> HIDE DEF Ena
    <3> QED BY <1>4, <1>6, <1>12, <3>3
  <2> QED BY <1>1, <1>3, <1>5, <1>6, <1>12, <2>2, <2>3 DEF Lines!Line, State, Abs, Ena, Flagged
<1> QED BY <1>8, <1>9, <1>10, <1>11, <1>13 DEF IInv

-----------------------------------------------------------------------------
(* A write of the CPU: none was in flight, no pulse and no cut. *)
CpuEdge(w) == /\ since = 2 /\ since' = 2 /\ hsync' = hsync /\ strobe = NoWrite /\ ppr_wr = {}
              /\ AckEdge(w, FALSE, ack_seen, FALSE, FALSE, FALSE)

LEMMA WriteEdge ==
    ASSUME IInv, NEW w, CpuEdge(w), w.kind \in {"sar_hi", "sar_lo", "ppr", "dcsr"}
    PROVE  /\ dcsr_ena_clr = {} /\ dma_int_set = {} /\ PulseInv'
           /\ UNCHANGED <<at, ch, step, active_ch, instr, ram_addr, list, ack_src, ack_seen>>
           /\ dcsr_ena_clr' = {} /\ dma_int_set' = {} /\ strobe' = w
           /\ chan' = Written(In(w, FALSE))
           /\ sar_hi' = NextHi(w) /\ sar_lo' = NextLo(w)
           /\ ppr' = [c \in Channels |-> Wrote(w, "ppr", c, ppr[c])]
           /\ ppr_dec_q' = PprStrobe(w) /\ ppr_wr' = PprStrobe(w)
           /\ dcsr_flags' = dcsr_flags \ Ones(w)
           /\ dcsr_ena' = IF w.kind = "dcsr" THEN w.ena ELSE dcsr_ena
<1>1. dcsr_ena_clr = {} /\ dma_int_set = {}
  BY DEF CpuEdge, IInv, PulseInv
<1>2. /\ AckEdge(w, FALSE, ack_seen, FALSE, FALSE, FALSE) /\ hsync' = hsync
      /\ RegsClock(w, ack_seen, FALSE, FALSE, FALSE, dcsr_ena_clr, dma_int_set)
  BY DEF CpuEdge, AckEdge
<1>3. /\ chan' = Written(In(w, FALSE))
      /\ dcsr_ena_clr' = {} /\ dma_int_set' = {} /\ hsync_d' = hsync'
      /\ UNCHANGED <<at, ch, step, active_ch, instr, ram_addr, list>>
      /\ strobe' = w
  BY <1>2, EdgeRests
<1>4. PulseInv'
  BY <1>3 DEF PulseInv, CpuEdge
<1>5. ppr_dec_q = {}
  BY DEF CpuEdge, IInv, StrobeInv, PprStrobe, NoWrite
<1>6. ack_seen' = ack_seen
  BY <1>2, CycleKept DEF IInv, TypeInv
<1>7. ack_src' = ack_src
  BY <1>2 DEF RegsClock, VectorClock
<1> QED BY <1>1, <1>2, <1>3, <1>4, <1>5, <1>6, <1>7 DEF RegsClock, Flags, AutoClear, Enable

(* The channels where the CPU writes no address. *)
LEMMA WriteKeeps ==
    ASSUME IInv, NEW w, CpuEdge(w), w.kind \in {"ppr", "dcsr"}
    PROVE  /\ UNCHANGED <<chan, sar_hi, sar_lo>> /\ State' = State /\ Turn' = Turn /\ FetchInv'
<1>1. /\ UNCHANGED <<at, ch, step, active_ch, instr, ram_addr, list>>
      /\ chan' = Written(In(w, FALSE)) /\ sar_hi' = NextHi(w) /\ sar_lo' = NextLo(w)
  BY WriteEdge
<1>2. chan' = chan
  <2>1. PICK in : in = In(w, FALSE)
    OBVIOUS
  <2>2. /\ in.sar_wr = {} /\ in.ppr_wr = ppr_wr /\ in.ena = dcsr_ena /\ ppr_wr = {}
    BY <2>1, Sampled DEF SarStrobe, CpuEdge
  <2>3. Written(in) = chan
    BY <2>2, ChannelsStay DEF IInv
  <2> QED BY <1>1, <2>1, <2>3
<1>3. sar_hi' = sar_hi /\ sar_lo' = sar_lo
  BY <1>1 DEF NextHi, NextLo, Wrote, IInv, TypeInv
<1>4. Turn' = Turn /\ FetchInv' /\ \A c \in Channels : Pc(c)' = Pc(c)
  BY <1>1, <1>2, FetchedStays DEF IInv
<1>5. State' = State
  BY <1>2, <1>4, StateKept DEF Abs
<1> QED BY <1>2, <1>3, <1>4, <1>5

LEMMA WritePprStep ==
    ASSUME IInv, NEW c \in Channels, NEW v \in Prescalers, CpuEdge(WritePpr(c, v))
    PROVE  IInv' /\ Lines!WritePpr
<1>1. PICK w : w = WritePpr(c, v)
  OBVIOUS
<1>2. w.kind = "ppr" /\ w.c = c /\ w.v = v /\ CpuEdge(w)
  BY <1>1 DEF WritePpr
<1>3. /\ dcsr_ena_clr = {} /\ dma_int_set = {} /\ PulseInv'
      /\ UNCHANGED <<at, ch, step, active_ch, instr, ram_addr, list, ack_src, ack_seen>>
      /\ dcsr_ena_clr' = {} /\ dma_int_set' = {} /\ strobe' = w
      /\ ppr' = [d \in Channels |-> Wrote(w, "ppr", d, ppr[d])]
      /\ ppr_dec_q' = PprStrobe(w) /\ ppr_wr' = PprStrobe(w)
      /\ dcsr_flags' = dcsr_flags \ Ones(w)
      /\ dcsr_ena' = IF w.kind = "dcsr" THEN w.ena ELSE dcsr_ena
  BY <1>2, WriteEdge
<1>4. /\ UNCHANGED <<chan, sar_hi, sar_lo>> /\ State' = State /\ Turn' = Turn /\ FetchInv'
  BY <1>2, WriteKeeps
<1>5. /\ ppr' = [ppr EXCEPT ![c] = v] /\ ppr' \in [Channels -> Nat] /\ ppr'[c] = v
      /\ ppr_wr' = {c} /\ ppr_dec_q' = {c} /\ UNCHANGED <<dcsr_ena, dcsr_flags>>
  BY <1>2, <1>3 DEF Wrote, PprStrobe, Ones, IInv, TypeInv
<1>6. TypeInv'
  <2>1. hsync' = hsync /\ since' = since
    BY <1>2 DEF CpuEdge
  <2> QED BY <1>3, <1>4, <1>5, <2>1 DEF IInv, TypeInv
<1>7. StrobeInv'
  <2>1. since' = 2
    BY <1>2 DEF CpuEdge
  <2>2. strobe'.kind = "ppr" /\ strobe'.c = c /\ strobe'.v = v
    BY <1>2, <1>3
  <2> QED BY <1>5, <2>1, <2>2 DEF StrobeInv, SarHeld, PprStrobe
<1>8. Lines!WritePpr
  <2>1. ppr_wr' = ppr_wr \cup {c}
    BY <1>2, <1>5 DEF CpuEdge
  <2>2. strobe'.kind = "ppr" /\ strobe'.c = c /\ strobe'.v = v
    BY <1>2, <1>3
  <2> QED BY <1>3, <1>4, <1>5, <2>1, <2>2 DEF Lines!WritePpr, State, Abs, Ena, Flagged
<1> QED BY <1>3, <1>4, <1>6, <1>7, <1>8 DEF IInv

LEMMA WriteDcsrStep ==
    ASSUME IInv, NEW w \in DcsrWrites, CpuEdge(w)
    PROVE  IInv' /\ Lines!WriteDcsr
<1>1. w.kind = "dcsr" /\ w.ena \subseteq Channels /\ w.ones \subseteq Channels
  OBVIOUS
<1>2. /\ dcsr_ena_clr = {} /\ dma_int_set = {} /\ PulseInv'
      /\ UNCHANGED <<at, ch, step, active_ch, instr, ram_addr, list, ack_src, ack_seen>>
      /\ dcsr_ena_clr' = {} /\ dma_int_set' = {} /\ strobe' = w
      /\ ppr' = [d \in Channels |-> Wrote(w, "ppr", d, ppr[d])]
      /\ ppr_dec_q' = PprStrobe(w) /\ ppr_wr' = PprStrobe(w)
      /\ dcsr_flags' = dcsr_flags \ Ones(w)
      /\ dcsr_ena' = IF w.kind = "dcsr" THEN w.ena ELSE dcsr_ena
  BY <1>1, WriteEdge
<1>3. /\ UNCHANGED <<chan, sar_hi, sar_lo>> /\ State' = State /\ Turn' = Turn /\ FetchInv'
  BY <1>1, WriteKeeps
<1>4. /\ ppr' = ppr /\ ppr_wr' = {} /\ ppr_dec_q' = {}
      /\ dcsr_flags' = dcsr_flags \ w.ones /\ dcsr_ena' = w.ena
  BY <1>1, <1>2 DEF Wrote, PprStrobe, Ones, IInv, TypeInv
<1>5. TypeInv'
  <2>1. hsync' = hsync /\ since' = since
    BY DEF CpuEdge
  <2> QED BY <1>1, <1>2, <1>3, <1>4, <2>1 DEF IInv, TypeInv
<1>6. StrobeInv'
  <2>1. since' = 2
    BY DEF CpuEdge
  <2>2. strobe'.kind = "dcsr" /\ strobe'.ena = w.ena /\ strobe'.ones = w.ones
    BY <1>1, <1>2
  <2> QED BY <1>1, <1>4, <2>1, <2>2 DEF StrobeInv, SarHeld, PprStrobe
<1>7. Lines!WriteDcsr
  <2>1. ppr_wr' = ppr_wr
    BY <1>4 DEF CpuEdge
  <2>2. strobe'.kind = "dcsr" /\ strobe'.ena = w.ena /\ strobe'.ones = w.ones
    BY <1>1, <1>2
  <2>3. Ena' = w.ena /\ Flagged' = Flagged \ w.ones
    BY <1>2, <1>4 DEF Ena, Flagged
  <2> QED BY <1>2, <1>3, <1>4, <2>1, <2>2, <2>3 DEF Lines!WriteDcsr, State, Abs, Ena, Flagged
<1> QED BY <1>2, <1>3, <1>5, <1>6, <1>7 DEF IInv

LEMMA WriteSarStep ==
    ASSUME IInv, NEW c \in Channels \ Turn, NEW half \in {"sar_hi", "sar_lo"}, NEW v,
           IF half = "sar_hi" THEN v \in HighBytes ELSE v \in LowBytes,
           CpuEdge(WriteSar(half, c, v))
    PROVE  IInv' /\ Lines!WriteSar
<1>1. PICK w : w = WriteSar(half, c, v)
  OBVIOUS
<1>2. w.kind = half /\ w.c = c /\ w.v = v /\ CpuEdge(w)
  BY <1>1 DEF WriteSar
<1>3. /\ dcsr_ena_clr = {} /\ dma_int_set = {} /\ PulseInv'
      /\ UNCHANGED <<at, ch, step, active_ch, instr, ram_addr, list, ack_src, ack_seen>>
      /\ dcsr_ena_clr' = {} /\ dma_int_set' = {} /\ strobe' = w
      /\ chan' = Written(In(w, FALSE))
      /\ sar_hi' = NextHi(w) /\ sar_lo' = NextLo(w)
      /\ ppr' = [d \in Channels |-> Wrote(w, "ppr", d, ppr[d])]
      /\ ppr_dec_q' = PprStrobe(w) /\ ppr_wr' = PprStrobe(w)
      /\ dcsr_flags' = dcsr_flags \ Ones(w)
      /\ dcsr_ena' = IF w.kind = "dcsr" THEN w.ena ELSE dcsr_ena
  BY <1>2, WriteEdge
<1>4. /\ ppr' = ppr /\ ppr_wr' = {} /\ ppr_dec_q' = {} /\ UNCHANGED <<dcsr_ena, dcsr_flags>>
  BY <1>2, <1>3 DEF Wrote, PprStrobe, Ones, IInv, TypeInv
<1>5. /\ sar_hi' = IF half = "sar_hi" THEN [sar_hi EXCEPT ![c] = v] ELSE sar_hi
      /\ sar_lo' = IF half = "sar_lo" THEN [sar_lo EXCEPT ![c] = v] ELSE sar_lo
      /\ sar_hi' \in [Channels -> HighBytes] /\ sar_lo' \in [Channels -> LowBytes]
  <2>1. /\ sar_hi \in [Channels -> HighBytes] /\ sar_lo \in [Channels -> LowBytes]
    BY DEF IInv, TypeInv
  <2>2. NextHi(w) = IF half = "sar_hi" THEN [sar_hi EXCEPT ![c] = v] ELSE sar_hi
    BY <1>2, <2>1 DEF NextHi, Wrote
  <2>3. NextLo(w) = IF half = "sar_lo" THEN [sar_lo EXCEPT ![c] = v] ELSE sar_lo
    BY <1>2, <2>1 DEF NextLo, Wrote
  <2> QED BY <1>3, <2>1, <2>2, <2>3
<1>6. PICK a \in Addresses : a = sar_hi'[c] * LowWords + sar_lo'[c]
  <2>1. sar_hi'[c] \in HighBytes /\ sar_lo'[c] \in LowBytes
    BY <1>5
  <2> QED BY <2>1, WordAddress
<1>7. chan' = [chan EXCEPT ![c].sar = a]
  <2>1. PICK in : in = In(w, FALSE)
    OBVIOUS
  <2>2. /\ in.sar_wr = {c} /\ in.ppr_wr = {} /\ in.sar = SarSeen(w)
    BY <1>2, <2>1, Sampled DEF SarStrobe, CpuEdge
  <2>3. in.sar[c] = a
    BY <1>3, <1>6, <2>2 DEF SarSeen
  <2>4. chan \in [Channels -> Registry]
    BY DEF IInv, TypeInv
  <2>5. \A d \in Channels : [chan[d] EXCEPT !.sar = Sar(in, d),
            !.presc = IF d \in in.ppr_wr /\ d \in in.ena /\ chan[d].pause > 0 THEN 0 ELSE @]
         = IF d = c THEN [chan[d] EXCEPT !.sar = a] ELSE chan[d]
    <3> SUFFICES ASSUME NEW d \in Channels
        PROVE [chan[d] EXCEPT !.sar = Sar(in, d),
            !.presc = IF d \in in.ppr_wr /\ d \in in.ena /\ chan[d].pause > 0 THEN 0 ELSE @]
         = IF d = c THEN [chan[d] EXCEPT !.sar = a] ELSE chan[d]
      OBVIOUS
    <3>1. chan[d] \in Registry
      BY <2>4
    <3>2. Sar(in, d) = IF d = c THEN a ELSE chan[d].sar
      BY <2>2, <2>3 DEF Sar
    <3> QED BY <2>2, <3>1, <3>2 DEF Registry
  <2>6. Written(in) = [d \in Channels |-> IF d = c THEN [chan[d] EXCEPT !.sar = a] ELSE chan[d]]
    BY <2>5 DEF Written
  <2> QED BY <1>3, <2>1, <2>4, <2>6
<1>8. /\ chan' \in [Channels -> Registry] /\ chan'[c] = [chan[c] EXCEPT !.sar = a]
      /\ \A d \in Channels \ {c} : chan'[d] = chan[d]
  <2>1. chan \in [Channels -> Registry]
    BY DEF IInv, TypeInv
  <2>2. chan[c] \in Registry
    BY <2>1
  <2>3. [chan[c] EXCEPT !.sar = a] \in Registry
    BY <2>2 DEF Registry
  <2> QED BY <1>7, <2>1, <2>3
<1>9. /\ Turn' = Turn /\ FetchInv'
      /\ Pc(c)' = chan'[c].sar
      /\ \A d \in Channels \ {c} : Pc(d)' = Pc(d)
  <2>1. \A d \in Turn : d \in Channels \ {c}
    BY DEF Turn, IInv, TypeInv
  <2> QED BY <1>3, <1>8, <2>1, FetchedStays DEF IInv
<1>10. State' = [State EXCEPT ![c].pc = a]
  <2>1. \A d \in Channels \ {c} : Abs(d)' = Abs(d)
    BY <1>8, <1>9 DEF Abs
  <2>2. chan'[c].sar = a /\ chan'[c].pause = chan[c].pause /\ chan'[c].presc = chan[c].presc
        /\ chan'[c].loop = chan[c].loop /\ chan'[c].loop_addr = chan[c].loop_addr
    BY <1>8 DEF IInv, TypeInv, Registry
  <2>3. Abs(c)' = [Abs(c) EXCEPT !.pc = a]
    BY <1>9, <2>2 DEF Abs
  <2>4. State' = [d \in Channels |-> IF d = c THEN [Abs(c) EXCEPT !.pc = a] ELSE Abs(d)]
    BY <2>1, <2>3 DEF State
  <2> QED BY <2>4 DEF State
<1>11. /\ strobe'.kind = half /\ strobe'.c = c /\ strobe'.v = v
  BY <1>2, <1>3
<1>12. TypeInv'
  <2>1. hsync' = hsync /\ since' = since
    BY <1>2 DEF CpuEdge
  <2> QED BY <1>3, <1>4, <1>5, <1>8, <2>1 DEF IInv, TypeInv
<1>13. StrobeInv'
  <2>1. sar_hi \in [Channels -> HighBytes] /\ sar_lo \in [Channels -> LowBytes]
    BY DEF IInv, TypeInv
  <2>2. /\ half = "sar_hi" => sar_hi'[c] = v
        /\ half = "sar_lo" => sar_lo'[c] = v
        /\ c \in Channels \ Turn' /\ chan'[c].sar = sar_hi'[c] * LowWords + sar_lo'[c]
    BY <1>5, <1>6, <1>8, <1>9, <2>1 DEF IInv, TypeInv, Registry
  <2>3. ppr_dec_q' = PprStrobe(strobe')
    BY <1>4, <1>11 DEF PprStrobe
  <2> QED BY <1>4, <1>11, <2>2, <2>3 DEF StrobeInv, SarHeld, PprStrobe
<1>14. Lines!WriteSar
  <2>1. ppr_wr' = ppr_wr
    BY <1>2, <1>4 DEF CpuEdge
  <2>2. Ena' = Ena /\ Flagged' = Flagged
    BY <1>3, <1>4 DEF Ena, Flagged
  <2> QED BY <1>3, <1>4, <1>5, <1>6, <1>9, <1>10, <1>11, <2>1, <2>2
          DEF Lines!WriteSar, State, Abs, Ena, Flagged
<1> QED BY <1>3, <1>9, <1>12, <1>13, <1>14 DEF IInv

LEMMA CpuWritesStep ==
    ASSUME IInv, CpuWrites
    PROVE  IInv' /\ (Lines!WritePpr \/ Lines!WriteDcsr \/ Lines!WriteSar)
<1>1. PICK c \in Channels :
        \E w \in {WritePpr(c, v) : v \in Prescalers} \cup DcsrWrites \cup
                   IF c \in Turn THEN {}
                   ELSE {WriteSar("sar_hi", c, v) : v \in SarBytes \cap HighBytes} \cup
                        {WriteSar("sar_lo", c, v) : v \in SarBytes \cap LowBytes} :
           Edge(w, FALSE)
  BY DEF CpuWrites
<1>2. ASSUME NEW w, Edge(w, FALSE) PROVE CpuEdge(w)
  BY <1>2 DEF CpuWrites, Quiet, Edge, CpuEdge
<1>3. CASE \E v \in Prescalers : Edge(WritePpr(c, v), FALSE)
  BY <1>2, <1>3, WritePprStep
<1>4. CASE \E w \in DcsrWrites : Edge(w, FALSE)
  BY <1>2, <1>4, WriteDcsrStep
<1>5. CASE c \notin Turn /\ \E v \in HighBytes : Edge(WriteSar("sar_hi", c, v), FALSE)
  BY <1>2, <1>5, WriteSarStep
<1>6. CASE c \notin Turn /\ \E v \in LowBytes : Edge(WriteSar("sar_lo", c, v), FALSE)
  BY <1>2, <1>6, WriteSarStep
<1> QED BY <1>1, <1>3, <1>4, <1>5, <1>6

-----------------------------------------------------------------------------
(* Reset, the restore of a snapshot, and the initial states. *)
LEMMA ParkedEngine ==
    ASSUME Park
    PROVE  /\ at' = "IDLE" /\ step' = 1 /\ active_ch' = {}
           /\ instr' \in [Channels -> Instruction]
           /\ dcsr_ena_clr' = {} /\ dma_int_set' = {} /\ Turn' = {} /\ FetchInv'
           /\ \A c \in Channels : Pc(c)' = chan'[c].sar
<1>1. /\ at' = "IDLE" /\ step' = 1 /\ active_ch' = {}
      /\ instr' = [c \in Channels |-> Load(0, 0)]
      /\ dcsr_ena_clr' = {} /\ dma_int_set' = {}
  BY DEF Park, NoPulse
<1>2. Turn' = {}
  BY <1>1 DEF Turn
<1>3. \A c \in Channels : ~Fetched(c)'
  BY <1>1 DEF Fetched
<1>4. \A c \in Channels : Pc(c)' = chan'[c].sar
  BY <1>3 DEF Pc
<1>5. FetchInv'
  BY <1>1, <1>3 DEF FetchInv
<1> QED BY <1>1, <1>2, <1>4, <1>5 DEF Load, Instruction

LEMMA Zeros == 0 \in HighBytes /\ 0 \in LowBytes /\ 0 \in Addresses
<1>1. RamWords \div LowWords \in Nat /\ RamWords \div LowWords > 0
  <2>1. RamWords = (RamWords \div LowWords) * LowWords
    OBVIOUS
  <2>2. RamWords \div LowWords \in Nat
    OBVIOUS
  <2>3. CASE RamWords \div LowWords = 0
    BY <2>1, <2>3
  <2> QED BY <2>2, <2>3
<1> QED BY <1>1 DEF HighBytes, LowBytes, Addresses

LEMMA ResetStep ==
    ASSUME IInv, Reset
    PROVE  IInv' /\ Lines!Reset
<1>1. /\ strobe' = NoWrite /\ since' = 2 /\ list' = list /\ hsync' = FALSE
      /\ DmaReset([reset |-> TRUE]) /\ RegsReset
  BY DEF Reset, Another
<1>2. Park /\ hsync_d' = FALSE /\ chan' = [c \in Channels |-> ZeroChannel]
  BY <1>1 DEF DmaReset
<1>3. /\ at' = "IDLE" /\ step' = 1 /\ active_ch' = {}
      /\ instr' \in [Channels -> Instruction]
      /\ dcsr_ena_clr' = {} /\ dma_int_set' = {} /\ Turn' = {} /\ FetchInv'
      /\ \A c \in Channels : Pc(c)' = chan'[c].sar
  BY <1>2, ParkedEngine
<1>4. /\ sar_hi' = [c \in Channels |-> 0] /\ sar_lo' = [c \in Channels |-> 0]
      /\ ppr' = [c \in Channels |-> 0]
      /\ dcsr_flags' = {} /\ dcsr_ena' = {} /\ ppr_dec_q' = {} /\ ppr_wr' = {}
      /\ ack_src' = 2 /\ ack_seen' = FALSE
  BY <1>1 DEF RegsReset, Unasked
<1>5. TypeInv'
  <2>1. ZeroChannel \in Registry
    BY Zeros DEF ZeroChannel, Registry
  <2>2. hsync' \in BOOLEAN
    BY <1>1, Zenon
  <2>3. since' \in 0..2
    BY <1>1
  <2>4. /\ sar_hi' \in [Channels -> HighBytes] /\ sar_lo' \in [Channels -> LowBytes]
        /\ ppr' \in [Channels -> Nat] /\ chan' \in [Channels -> Registry]
    BY <1>2, <1>4, <2>1, Zeros
  <2>5. list' \in [Addresses -> Instruction]
    BY <1>1 DEF IInv, TypeInv
  <2>6. ack_seen' \in BOOLEAN
    BY <1>4, Zenon
  <2> QED BY <1>3, <1>4, <2>2, <2>3, <2>4, <2>5, <2>6 DEF TypeInv
<1>6. StrobeInv'
  BY <1>1, <1>4 DEF StrobeInv, SarHeld, NoWrite, PprStrobe
<1>7. PulseInv'
  <2>1. hsync_d' = hsync'
    BY <1>1, <1>2, Zenon
  <2> QED BY <1>1, <1>3, <2>1 DEF PulseInv
<1>8. Lines!Reset
  <2>1. State' = [c \in Channels |-> Lines!Fresh]
    <3>1. \A c \in Channels : Abs(c)' = Lines!Fresh
      BY <1>2, <1>3 DEF Abs, Lines!Fresh, ZeroChannel
    <3> QED BY <3>1 DEF State
  <2>2. Ena' = {} /\ Flagged' = {}
    BY <1>3, <1>4 DEF Ena, Flagged
  <2> QED BY <1>1, <1>3, <1>4, <2>1, <2>2 DEF Lines!Reset, Lines!AtReset, State, Abs, Ena, Flagged
<1> QED BY <1>3, <1>5, <1>6, <1>7, <1>8 DEF IInv

LEMMA RestoreStep ==
    ASSUME IInv, Restore
    PROVE  IInv' /\ Lines!Restore
<1>1. PICK s \in Snapshots :
          /\ hsync' = s.hsync
          /\ SnaLoad([reset |-> FALSE, sna_load |-> TRUE, sna_hsync |-> s.hsync,
               sna_chan |-> [c \in Channels |->
                  [s.chan[c] EXCEPT !.sar = s.hi[c] * LowWords + s.lo[c]]]])
          /\ sar_hi' = s.hi /\ sar_lo' = s.lo /\ ppr' = s.ppr
          /\ dcsr_ena' = s.ena /\ dcsr_flags' = s.flags
          /\ ppr_dec_q' = {} /\ ppr_wr' = {}
  BY DEF Restore
<1>2. strobe' = NoWrite /\ since' = 2 /\ list' = list /\ ack_src' = 2 /\ ack_seen' = FALSE
  BY DEF Restore, Another, Unasked
<1>3. /\ Park /\ hsync_d' = s.hsync
      /\ chan' = [c \in Channels |-> [s.chan[c] EXCEPT !.sar = s.hi[c] * LowWords + s.lo[c]]]
  BY <1>1 DEF SnaLoad
<1>4. /\ at' = "IDLE" /\ step' = 1 /\ active_ch' = {}
      /\ instr' \in [Channels -> Instruction]
      /\ dcsr_ena_clr' = {} /\ dma_int_set' = {} /\ Turn' = {} /\ FetchInv'
      /\ \A c \in Channels : Pc(c)' = chan'[c].sar
  BY <1>3, ParkedEngine
<1>5. /\ s.hi \in [Channels -> HighBytes] /\ s.lo \in [Channels -> LowBytes]
      /\ s.ppr \in [Channels -> Prescalers] /\ s.ena \subseteq Channels
      /\ s.flags \subseteq Channels /\ s.hsync \in BOOLEAN /\ s.chan \in [Channels -> Registry]
  BY DEF Pages
<1>6. ASSUME NEW c \in Channels
      PROVE  /\ chan'[c] \in Registry
             /\ chan'[c].sar = s.hi[c] * LowWords + s.lo[c]
             /\ chan'[c].pause = s.chan[c].pause /\ chan'[c].presc = s.chan[c].presc
             /\ chan'[c].loop = s.chan[c].loop /\ chan'[c].loop_addr = s.chan[c].loop_addr
  <2>1. s.chan[c] \in Registry
    BY <1>5
  <2>2. PICK a \in Addresses : a = s.hi[c] * LowWords + s.lo[c]
    BY <1>5, WordAddress
  <2>3. chan'[c] = [s.chan[c] EXCEPT !.sar = a]
    BY <1>3, <2>2
  <2> QED BY <2>1, <2>2, <2>3 DEF Registry
<1>7. TypeInv'
  <2>1. hsync' \in BOOLEAN
    BY <1>1, <1>5
  <2>2. since' \in 0..2
    BY <1>2
  <2>3. chan' \in [Channels -> Registry]
    BY <1>3, <1>6
  <2>4. ppr' \in [Channels -> Nat]
    BY <1>1, <1>5
  <2>5. list' \in [Addresses -> Instruction]
    BY <1>2 DEF IInv, TypeInv
  <2>6. ack_seen' \in BOOLEAN
    BY <1>2, Zenon
  <2> QED BY <1>1, <1>4, <1>5, <2>1, <2>2, <2>3, <2>4, <2>5, <2>6 DEF TypeInv
<1>8. StrobeInv'
  BY <1>1, <1>2 DEF StrobeInv, SarHeld, NoWrite, PprStrobe
<1>9. PulseInv'
  <2>1. hsync_d' = hsync'
    BY <1>1, <1>3
  <2> QED BY <1>2, <1>4, <2>1 DEF PulseInv
<1>10. Lines!Restore
  <2>1. State' = [c \in Channels |->
                [pc |-> s.hi[c] * LowWords + s.lo[c], pause |-> s.chan[c].pause,
                 left |-> s.chan[c].presc, loop |-> s.chan[c].loop,
                 top |-> s.chan[c].loop_addr]]
    <3>1. \A c \in Channels : Abs(c)' =
                [pc |-> s.hi[c] * LowWords + s.lo[c], pause |-> s.chan[c].pause,
                 left |-> s.chan[c].presc, loop |-> s.chan[c].loop,
                 top |-> s.chan[c].loop_addr]
      BY <1>4, <1>6 DEF Abs
    <3> QED BY <3>1 DEF State
  <2>2. Ena' = s.ena /\ Flagged' = s.flags
    BY <1>1, <1>4 DEF Ena, Flagged
  <2> QED BY <1>1, <1>2, <1>4, <2>1, <2>2 DEF Lines!Restore, State, Abs, Ena, Flagged
<1> QED BY <1>4, <1>7, <1>8, <1>9, <1>10 DEF IInv

LEMMA Initially ==
    ASSUME Init
    PROVE  IInv /\ Lines!Init
<1>1. /\ at = "IDLE" /\ ch = 0 /\ step = 1 /\ active_ch = {}
      /\ instr = [c \in Channels |-> Load(0, 0)]
      /\ dcsr_ena_clr = {} /\ dma_int_set = {}
      /\ hsync_d = FALSE /\ hsync = FALSE /\ list \in Lists
      /\ chan = [c \in Channels |->
                 [ZeroChannel EXCEPT !.sar = sar_hi[c] * LowWords + sar_lo[c]]]
      /\ dcsr_flags = {} /\ ppr_dec_q = {} /\ ppr_wr = {}
      /\ ack_src = 2 /\ ack_seen = FALSE
      /\ strobe = NoWrite /\ since = 2
  BY DEF Init, Parked
<1>2. /\ sar_hi \in [Channels -> HighBytes] /\ sar_lo \in [Channels -> LowBytes]
      /\ ppr \in [Channels -> Prescalers] /\ dcsr_ena \subseteq Channels
  BY DEF Init, Pages
<1>3. Turn = {} /\ \A c \in Channels : ~Fetched(c)
  BY <1>1 DEF Turn, Fetched
<1>4. ASSUME NEW c \in Channels
      PROVE  /\ chan[c] \in Registry /\ chan[c].sar = sar_hi[c] * LowWords + sar_lo[c]
             /\ chan[c].pause = 0 /\ chan[c].presc = 0 /\ chan[c].loop = 0
             /\ chan[c].loop_addr = 0 /\ Pc(c) = chan[c].sar
  <2>1. PICK a \in Addresses : a = sar_hi[c] * LowWords + sar_lo[c]
    BY <1>2, WordAddress
  <2>2. chan[c] = [ZeroChannel EXCEPT !.sar = a]
    BY <1>1, <2>1
  <2> QED BY <1>3, <2>1, <2>2, Zeros DEF ZeroChannel, Registry, Pc
<1>5. TypeInv
  <2>1. hsync \in BOOLEAN
    BY <1>1, Zenon
  <2>2. since \in 0..2
    BY <1>1
  <2>3. instr \in [Channels -> Instruction]
    BY <1>1 DEF Load, Instruction
  <2>4. chan \in [Channels -> Registry] /\ ppr \in [Channels -> Nat]
    BY <1>1, <1>2, <1>4
  <2>5. ack_seen \in BOOLEAN
    BY <1>1, Zenon
  <2> QED BY <1>1, <1>2, <2>1, <2>2, <2>3, <2>4, <2>5 DEF TypeInv
<1>6. StrobeInv
  BY <1>1 DEF StrobeInv, SarHeld, NoWrite, PprStrobe
<1>7. PulseInv
  <2>1. hsync_d = hsync
    BY <1>1, Zenon
  <2> QED BY <1>1, <2>1 DEF PulseInv
<1>8. FetchInv
  BY <1>1, <1>3 DEF FetchInv
<1>9. Lines!Init
  <2>1. State = [c \in Channels |->
                   [Lines!Fresh EXCEPT !.pc = sar_hi[c] * LowWords + sar_lo[c]]]
    <3>1. \A c \in Channels : Abs(c) =
                   [Lines!Fresh EXCEPT !.pc = sar_hi[c] * LowWords + sar_lo[c]]
      BY <1>4 DEF Abs, Lines!Fresh
    <3> QED BY <3>1 DEF State
  <2>2. Ena \subseteq Channels /\ Flagged = {}
    BY <1>1, <1>2 DEF Ena, Flagged
  <2> QED BY <1>1, <1>2, <1>3, <2>1, <2>2 DEF Lines!Init, State, Abs, Ena, Flagged
<1> QED BY <1>5, <1>6, <1>7, <1>8, <1>9 DEF IInv

LEMMA StutterStep ==
    ASSUME IInv, UNCHANGED vars
    PROVE  IInv' /\ UNCHANGED Lines!vars
<1>1. /\ UNCHANGED <<hsync_d, at, ch, step, active_ch, instr, ram_addr, chan, dcsr_ena_clr,
                     dma_int_set>>
      /\ UNCHANGED <<sar_hi, sar_lo, ppr, dcsr_flags, dcsr_ena, ppr_dec_q, ppr_wr, ack_src, ack_seen>>
      /\ UNCHANGED <<list, strobe, hsync, since>>
  BY DEF vars, dmaVars, lineVars, regsVars, pageVars, dcsrVars
<1>2. Turn' = Turn /\ FetchInv' /\ State' = State
  <2>1. Turn' = Turn /\ FetchInv' /\ \A c \in Channels : Pc(c)' = Pc(c)
    BY <1>1, FetchedStays DEF IInv
  <2> QED BY <1>1, <2>1, StateKept DEF Abs
<1>3. TypeInv'
  BY <1>1 DEF IInv, TypeInv
<1>4. StrobeInv'
  BY <1>1, <1>2 DEF IInv, StrobeInv, SarHeld
<1>5. PulseInv'
  BY <1>1 DEF IInv, PulseInv
<1>6. UNCHANGED Lines!vars
  BY <1>1, <1>2 DEF Lines!vars, State, Abs, Ena, Flagged
<1> QED BY <1>2, <1>3, <1>4, <1>5, <1>6 DEF IInv

-----------------------------------------------------------------------------
(* The invariant, and the refinement. *)
LEMMA Step ==
    ASSUME IInv, [Next]_vars
    PROVE  IInv' /\ [Lines!Next]_(Lines!vars)
<1>1. CASE Tick
  BY <1>1, TickStep DEF Lines!Next
<1>2. CASE Settle
  BY <1>2, SettleStep DEF Lines!Next
<1>3. CASE NewLine
  BY <1>3, NewLineStep DEF Lines!Next
<1>4. CASE CpuWrites
  BY <1>4, CpuWritesStep DEF Lines!Next
<1>5. CASE CpuEnds
  BY <1>5, CpuEndsStep DEF Lines!Next
<1>6. CASE CpuAcknowledges
  BY <1>6, AcknowledgeStep DEF Lines!Next
<1>7. CASE Reset
  BY <1>7, ResetStep DEF Lines!Next
<1>8. CASE Restore
  BY <1>8, RestoreStep DEF Lines!Next
<1>9. CASE CycleEnds
  BY <1>9, CycleEndsStep DEF Lines!Next
<1>10. CASE UNCHANGED vars
  BY <1>10, StutterStep
<1> QED BY <1>1, <1>2, <1>3, <1>4, <1>5, <1>6, <1>7, <1>8, <1>9, <1>10 DEF Next

(* What is under way in the engine and in a held strobe of the CPU agrees with
   the registers: a fetched word is the one before its channel's address, a
   pulse lasts to the edge after its cycle, a held write stays written. *)
THEOREM InvariantHolds == Spec => []IInv
<1>1. Init => IInv
  BY Initially
<1>2. IInv /\ [Next]_vars => IInv'
  BY Step
<1> QED BY <1>1, <1>2, PTL DEF Spec

(* The engine, with its dead cycle, fetches, cycles and pulses, plays the
   lists as the line programs do: every step of asic_dma.v and asic_regs.v is
   one of LinePrograms or none. *)
THEOREM EnginePlaysLists == Spec => PlaysLists
<1>1. Init => Lines!Init
  BY Initially
<1>2. IInv /\ [Next]_vars => [Lines!Next]_(Lines!vars)
  BY Step
<1> QED BY <1>1, <1>2, InvariantHolds, PTL DEF Spec, PlaysLists

-----------------------------------------------------------------------------
(* Pauses. *)
LEMMA Lengths ==
    ASSUME NEW n \in Nat, NEW d \in Nat, NEW r \in Nat
    PROVE  /\ Length(n, d, r) \in Nat /\ (Length(n, d, r) = 0 <=> n = 0)
           /\ Length(n, d, d) = n * (d + 1)
           /\ n # 0 => Length(n, d, r) - 1 = IF r = 0 THEN Length(n - 1, d, d)
                                             ELSE Length(n, d, r - 1)
<1>1. CASE n = 0
  BY <1>1 DEF Length
<1>2. CASE n # 0
  <2>1. PICK k \in Nat : n = k + 1
    <3>1. n - 1 \in Nat /\ n = (n - 1) + 1
      BY <1>2
    <3> QED BY <3>1
  <2>2. PICK m \in Nat : m = k * (d + 1) /\ (k + 1) * (d + 1) = m + d + 1
    <3>1. k * (d + 1) \in Nat /\ (k + 1) * (d + 1) = k * (d + 1) + d + 1
      OBVIOUS
    <3> QED BY <3>1
  <2>3. Length(n, d, r) = m + r + 1
    BY <2>1, <2>2 DEF Length
  <2>4. Length(n, d, d) = n * (d + 1)
    BY <2>1, <2>2 DEF Length
  <2>5. r # 0 => Length(n, d, r - 1) = m + r
    BY <2>1, <2>2 DEF Length
  <2>6. Length(n - 1, d, d) = m
    <3>1. CASE k = 0
      BY <2>1, <2>2, <3>1 DEF Length
    <3>2. CASE k # 0
      <4>1. PICK j \in Nat : k = j + 1
        <5>1. k - 1 \in Nat /\ k = (k - 1) + 1
          BY <3>2
        <5> QED BY <5>1
      <4>2. m = j * (d + 1) + d + 1
        BY <2>2, <4>1
      <4>3. n - 1 = j + 1
        BY <2>1, <4>1
      <4> QED BY <4>2, <4>3 DEF Length
    <3> QED BY <3>1, <3>2
  <2> QED BY <1>2, <2>3, <2>4, <2>5, <2>6
<1> QED BY <1>1, <1>2

LEMMA WaitOf ==
    ASSUME WaitNext, NEW c \in Channels
    PROVE  wait'[c] = IF Pausing(c) THEN instr[c].n * (ppr[c] + 1)
                      ELSE IF chan[c].pause > 0 /\ strobe'.kind = "ppr" /\ strobe'.c = c THEN -1
                      ELSE IF wait[c] = -1 /\ chan'[c].pause = 0 THEN 0
                      ELSE IF hsync' /\ ~hsync /\ wait[c] > 0 /\ c \in dcsr_ena THEN wait[c] - 1
                      ELSE wait[c]
  BY DEF WaitNext

(* An edge that begins no pause and no line; a prescaler write ends the count. *)
LEMMA WaitKeeps ==
    ASSUME TypeInv, PauseInv, WaitNext, NEW c \in Channels, ~Pausing(c), ~(hsync' /\ ~hsync),
           chan'[c].pause = chan[c].pause,
           chan'[c].presc = chan[c].presc \/ (c \in ppr_wr /\ chan[c].pause > 0),
           ppr'[c] = ppr[c] \/ (strobe'.kind = "ppr" /\ strobe'.c = c),
           c \in ppr_wr' => strobe'.kind = "ppr" /\ strobe'.c = c
    PROVE  wait'[c] \in Nat \cup {-1} /\ Lasts(c)'
<1>1. wait[c] \in Nat \cup {-1} /\ Lasts(c) /\ chan[c].pause \in Nat
  BY DEF PauseInv, TypeInv, Registry
<1>2. wait'[c] = IF chan[c].pause > 0 /\ strobe'.kind = "ppr" /\ strobe'.c = c THEN -1
                 ELSE IF wait[c] = -1 /\ chan'[c].pause = 0 THEN 0 ELSE wait[c]
  BY WaitOf
<1>3. CASE chan[c].pause = 0
  <2>1. wait'[c] = 0
    BY <1>1, <1>2, <1>3 DEF Lasts, Length
  <2> QED BY <1>3, <2>1 DEF Lasts, Length
<1>4. CASE chan[c].pause > 0 /\ strobe'.kind = "ppr" /\ strobe'.c = c
  <2>1. wait'[c] = -1
    BY <1>2, <1>4
  <2> QED BY <2>1 DEF Lasts
<1>5. CASE chan[c].pause > 0 /\ ~(strobe'.kind = "ppr" /\ strobe'.c = c)
  <2>1. wait'[c] = wait[c] /\ ppr'[c] = ppr[c] /\ c \notin ppr_wr'
    BY <1>2, <1>5
  <2>2. wait[c] # -1 => chan'[c].presc = chan[c].presc
    BY <1>1, <1>5 DEF Lasts
  <2> QED BY <1>1, <2>1, <2>2 DEF Lasts
<1> QED BY <1>1, <1>3, <1>4, <1>5

LEMMA PauseOfAll ==
    ASSUME WaitNext \/ wait' = [c \in Channels |-> wait'[c]],
           \A c \in Channels : wait'[c] \in Nat \cup {-1} /\ Lasts(c)'
    PROVE  PauseInv'
<1>1. wait' = [c \in Channels |-> wait'[c]]
  BY DEF WaitNext
<1> QED BY <1>1 DEF PauseInv

LEMMA PauseHeld ==
    ASSUME IInv, PauseInv, NEW wr \in {strobe, NoWrite}, NEW m1, NEW ack, NEW raster, NEW ivr0,
           AckEdge(wr, FALSE, m1, ack, raster, ivr0), hsync' = hsync, since' # 0
    PROVE  PauseInv'
<1>1. WaitNext
  BY DEF AckEdge
<1>2. /\ ppr' = ppr /\ ppr_wr' = {}
      /\ State' = [c \in Channels |->
                 IF c \in ppr_wr /\ c \in dcsr_ena /\ State[c].pause > 0
                 THEN [State[c] EXCEPT !.left = 0] ELSE State[c]]
  BY HeldRests
<1>3. ASSUME NEW c \in Channels
      PROVE  /\ chan'[c].pause = chan[c].pause
             /\ chan'[c].presc = chan[c].presc \/ (c \in ppr_wr /\ chan[c].pause > 0)
  <2>1. State[c] = Abs(c) /\ State'[c] = Abs(c)'
    BY DEF State
  <2>2. Abs(c)' = IF c \in ppr_wr /\ c \in dcsr_ena /\ Abs(c).pause > 0
                  THEN [Abs(c) EXCEPT !.left = 0] ELSE Abs(c)
    BY <1>2, <2>1
  <2>3. Abs(c)'.pause = chan'[c].pause /\ Abs(c)'.left = chan'[c].presc
    BY DEF Abs
  <2> QED BY <2>2, <2>3 DEF Abs
<1>4. ASSUME NEW c \in Channels PROVE wait'[c] \in Nat \cup {-1} /\ Lasts(c)'
  <2>1. ~Pausing(c) /\ ~(hsync' /\ ~hsync)
    BY DEF Pausing
  <2> QED BY <1>1, <1>2, <1>3, <2>1, WaitKeeps DEF IInv
<1> QED BY <1>1, <1>4, PauseOfAll

LEMMA PauseWrites ==
    ASSUME IInv, PauseInv, NEW w, CpuEdge(w), w.kind \in {"sar_hi", "sar_lo", "ppr", "dcsr"}
    PROVE  PauseInv'
<1>1. WaitNext /\ hsync' = hsync /\ since' = 2 /\ ppr_wr = {}
  BY DEF CpuEdge, AckEdge
<1>2. /\ strobe' = w /\ chan' = Written(In(w, FALSE))
      /\ ppr' = [c \in Channels |-> Wrote(w, "ppr", c, ppr[c])] /\ ppr_wr' = PprStrobe(w)
  BY WriteEdge
<1>3. PICK in : in = In(w, FALSE)
  OBVIOUS
<1>4. in.ppr_wr = {}
  BY <1>1, <1>3, Sampled
<1>5. ASSUME NEW c \in Channels
      PROVE  chan'[c].pause = chan[c].pause /\ chan'[c].presc = chan[c].presc
  <2>1. chan[c] \in Registry
    BY DEF IInv, TypeInv
  <2>2. chan'[c] = [chan[c] EXCEPT !.sar = Sar(in, c),
          !.presc = IF c \in in.ppr_wr /\ c \in in.ena /\ chan[c].pause > 0 THEN 0 ELSE @]
    BY <1>2, <1>3 DEF Written
  <2> QED BY <1>4, <2>1, <2>2 DEF Registry
<1>6. ASSUME NEW c \in Channels PROVE wait'[c] \in Nat \cup {-1} /\ Lasts(c)'
  <2>1. ~Pausing(c) /\ ~(hsync' /\ ~hsync)
    BY <1>1 DEF Pausing
  <2>2. ppr'[c] = ppr[c] \/ (strobe'.kind = "ppr" /\ strobe'.c = c)
    BY <1>2 DEF Wrote
  <2>3. c \in ppr_wr' => strobe'.kind = "ppr" /\ strobe'.c = c
    BY <1>2 DEF PprStrobe
  <2> QED BY <1>1, <1>5, <2>1, <2>2, <2>3, WaitKeeps DEF IInv
<1> QED BY <1>1, <1>6, PauseOfAll

LEMMA PauseCpu ==
    ASSUME IInv, PauseInv, CpuWrites
    PROVE  PauseInv'
<1>1. PICK c \in Channels :
        \E w \in {WritePpr(c, v) : v \in Prescalers} \cup DcsrWrites \cup
                   IF c \in Turn THEN {}
                   ELSE {WriteSar("sar_hi", c, v) : v \in SarBytes \cap HighBytes} \cup
                        {WriteSar("sar_lo", c, v) : v \in SarBytes \cap LowBytes} :
           Edge(w, FALSE)
  BY DEF CpuWrites
<1>2. PICK w : /\ Edge(w, FALSE)
               /\ \/ \E v \in Prescalers : w = WritePpr(c, v)
                  \/ w \in DcsrWrites
                  \/ \E v : w = WriteSar("sar_hi", c, v)
                  \/ \E v : w = WriteSar("sar_lo", c, v)
  BY <1>1
<1>3. CpuEdge(w)
  BY <1>2 DEF CpuWrites, Quiet, Edge, CpuEdge
<1>4. w.kind \in {"sar_hi", "sar_lo", "ppr", "dcsr"}
  <2>1. w \in DcsrWrites => w.kind = "dcsr"
    OBVIOUS
  <2> QED BY <1>2, <2>1 DEF WritePpr, WriteSar
<1> QED BY <1>3, <1>4, PauseWrites

(* A cycle begins a pause where it runs one. *)
LEMMA PauseTick ==
    ASSUME IInv, PauseInv, Tick
    PROVE  PauseInv'
<1>1. /\ WaitNext /\ since' = 0 /\ hsync' = FALSE /\ ppr_wr' = {} /\ ppr' = ppr
  <2>1. WaitNext /\ since' = 0
    BY DEF Tick, Edge, AckEdge
  <2>2. strobe \in {strobe, NoWrite} /\ RegsClock(strobe, ack_seen, FALSE, FALSE, FALSE, dcsr_ena_clr, dma_int_set)
    BY TickEngine
  <2>3. ppr_wr' = {} /\ ppr' = ppr
    BY <2>2, PageKept DEF IInv
  <2>4. hsync' = FALSE
    BY DEF Tick
  <2> QED BY <2>1, <2>3, <2>4
<1>2. ASSUME NEW c \in Channels, ~Pausing(c), Abs(c)' = Abs(c) \/
             (Abs(c)'.pause = Abs(c).pause /\ Abs(c)'.left = Abs(c).left)
      PROVE  wait'[c] \in Nat \cup {-1} /\ Lasts(c)'
  <2>1. chan'[c].pause = chan[c].pause /\ chan'[c].presc = chan[c].presc
    BY <1>2 DEF Abs
  <2> QED BY <1>1, <1>2, <2>1, WaitKeeps DEF IInv
<1>3. CASE Passes /\ ~(at = "EXEC" /\ step = 1)
  <2>1. \A c \in Channels : ~Pausing(c) /\ Abs(c)' = Abs(c)
    BY <1>3 DEF Passes, Pausing
  <2>2. \A c \in Channels : wait'[c] \in Nat \cup {-1} /\ Lasts(c)'
    BY <1>2, <2>1
  <2> QED BY <1>1, <2>2, PauseOfAll
<1>4. CASE \E c \in Channels : c = ch /\ Runs(c) /\ at = "EXEC" /\ step = 1
  <2>1. PICK c \in Channels : c = ch /\ Runs(c) /\ at = "EXEC" /\ step = 1
    BY <1>4
  <2>2. PICK w \in Instruction : w = Word /\ w = list[Pc(c)] /\ w = instr[c]
    BY <2>1, Current DEF IInv, Word
  <2>3. w.n \in Nat /\ ppr[c] \in Nat /\ chan[c].pause \in Nat
    BY <2>2 DEF Instruction, IInv, TypeInv, Registry
  <2>4. Pausing(c) <=> /\ "pause" \in w.op /\ (w.n > 0 \/ "repeat" \in w.op)
                       /\ ~("repeat" \in w.op /\ Orders(w, 0) /\ ~Orders(w, 5))
    <3>1. DoesPause <=> "pause" \in w.op /\ (w.n > 0 \/ "repeat" \in w.op)
      BY <2>2, <2>3 DEF DoesPause, Does
    <3>2. Reserved <=> "repeat" \in w.op /\ Orders(w, 0) /\ ~Orders(w, 5)
      BY <2>2 DEF Reserved, Does, Orders
    <3>3. DoesPause => instr[c].op # {}
      BY <2>2, <3>1
    <3> QED BY <1>1, <2>1, <3>1, <3>2, <3>3 DEF Pausing
  <2>5. Abs(c)' = Lines!Ran(Abs(c), w, ppr[c])
    BY <2>1, <2>2 DEF Runs
  <2>6. /\ Pausing(c) => Abs(c)'.pause = w.n /\ Abs(c)'.left = ppr[c]
        /\ ~Pausing(c) => Abs(c)'.pause = Abs(c).pause /\ Abs(c)'.left = Abs(c).left
    <3>1. ~("repeat" \in w.op /\ Orders(w, 0) /\ ~Orders(w, 5)) =>
            /\ Lines!Ran(Abs(c), w, ppr[c]).pause =
                 IF "pause" \in w.op /\ (w.n > 0 \/ "repeat" \in w.op) THEN w.n ELSE Abs(c).pause
            /\ Lines!Ran(Abs(c), w, ppr[c]).left =
                 IF "pause" \in w.op /\ (w.n > 0 \/ "repeat" \in w.op) THEN ppr[c] ELSE Abs(c).left
      BY RanFields
    <3>2. "repeat" \in w.op /\ Orders(w, 0) /\ ~Orders(w, 5) =>
            /\ Lines!Ran(Abs(c), w, ppr[c]).pause = Abs(c).pause
            /\ Lines!Ran(Abs(c), w, ppr[c]).left = Abs(c).left
      BY RanFields DEF Abs
    <3> QED BY <2>4, <2>5, <3>1, <3>2
  <2>7. ASSUME Pausing(c) PROVE wait'[c] \in Nat \cup {-1} /\ Lasts(c)'
    <3>1. wait'[c] = w.n * (ppr[c] + 1)
      BY <1>1, <2>2, <2>7, WaitOf
    <3>2. chan'[c].pause = w.n /\ chan'[c].presc = ppr[c]
      BY <2>6, <2>7 DEF Abs
    <3>3. wait'[c] = Length(chan'[c].pause, ppr'[c], chan'[c].presc) /\ wait'[c] \in Nat
      <4>1. \A n, d \in Nat : Length(n, d, d) = n * (d + 1) /\ Length(n, d, d) \in Nat
        BY Lengths
      <4>2. Length(w.n, ppr[c], ppr[c]) = w.n * (ppr[c] + 1) /\ Length(w.n, ppr[c], ppr[c]) \in Nat
        BY <2>3, <4>1
      <4> QED BY <1>1, <3>1, <3>2, <4>2
    <3> QED BY <1>1, <3>3 DEF Lasts
  <2>8. ASSUME NEW d \in Channels PROVE wait'[d] \in Nat \cup {-1} /\ Lasts(d)'
    <3>1. CASE d # c
      <4>1. ~Pausing(d) /\ Abs(d)' = Abs(d)
        BY <2>1, <3>1 DEF Pausing, Runs
      <4> QED BY <1>2, <4>1
    <3>2. CASE d = c /\ Pausing(c)
      BY <2>7, <3>2
    <3>3. CASE d = c /\ ~Pausing(c)
      <4>1. ~Pausing(d) /\ Abs(d)'.pause = Abs(d).pause /\ Abs(d)'.left = Abs(d).left
        BY <2>6, <3>3
      <4> QED BY <1>2, <4>1
    <3> QED BY <3>1, <3>2, <3>3
  <2> QED BY <1>1, <2>8, PauseOfAll
<1> QED BY <1>3, <1>4, TickEngine

(* A line counts the pauses of the enabled channels down. *)
LEMMA PauseLine ==
    ASSUME IInv, PauseInv, NewLine
    PROVE  /\ PauseInv'
           /\ \A c \in dcsr_ena : wait'[c] # -1 => (c \in active_ch' <=> wait'[c] = 0)
<1>1. /\ WaitNext /\ at = "IDLE" /\ ~hsync /\ hsync' = TRUE /\ strobe \in {strobe, NoWrite}
      /\ RegsClock(strobe, ack_seen, FALSE, FALSE, FALSE, dcsr_ena_clr, dma_int_set)
  BY DEF NewLine, Edge, AckEdge
<1>2. ppr' = ppr /\ ppr_wr' = {}
  BY <1>1, PageKept DEF IInv
<1>3. /\ \A c \in Channels : Ages(c)
      /\ active_ch' = {c \in dcsr_ena : chan'[c].pause = 0}
  BY LineEdge
<1>4. ASSUME NEW c \in Channels
      PROVE  /\ wait'[c] \in Nat \cup {-1} /\ Lasts(c)'
             /\ wait'[c] # -1 => (chan'[c].pause = 0 <=> wait'[c] = 0)
  <2>1. PICK n, d, r \in Nat : n = chan[c].pause /\ d = ppr[c] /\ r = chan[c].presc
    BY DEF IInv, TypeInv, Registry
  <2>2. /\ wait[c] \in Nat \cup {-1} /\ (wait[c] # -1 => wait[c] = Length(n, d, r))
        /\ wait[c] # -1 /\ n # 0 => c \notin ppr_wr
    BY <2>1 DEF PauseInv, Lasts
  <2>3. wait'[c] = IF n > 0 /\ strobe'.kind = "ppr" /\ strobe'.c = c THEN -1
                   ELSE IF wait[c] = -1 /\ chan'[c].pause = 0 THEN 0
                   ELSE IF wait[c] > 0 /\ c \in dcsr_ena THEN wait[c] - 1 ELSE wait[c]
    <3>1. ~Pausing(c)
      BY <1>1 DEF Pausing
    <3> QED BY <1>1, <2>1, <3>1, WaitOf
  <2>4. /\ chan'[c].pause = IF c \in dcsr_ena /\ n # 0 /\ (r = 0 \/ c \in ppr_wr) THEN n - 1 ELSE n
        /\ chan'[c].presc = IF c \notin dcsr_ena \/ n = 0 THEN r
                            ELSE IF r = 0 \/ c \in ppr_wr THEN d ELSE r - 1
    BY <1>3, <2>1 DEF Ages
  <2>5. PICK m, q \in Nat : m = chan'[c].pause /\ q = chan'[c].presc
    BY <1>3 DEF Ages, Registry
  <2>6. \A k, e, l \in Nat :
          /\ Length(k, e, l) \in Nat /\ (Length(k, e, l) = 0 <=> k = 0)
          /\ k # 0 => Length(k, e, l) - 1 = IF l = 0 THEN Length(k - 1, e, e)
                                            ELSE Length(k, e, l - 1)
    <3> TAKE k, e, l \in Nat
    <3>1. Length(k, e, l) \in Nat /\ (Length(k, e, l) = 0 <=> k = 0)
      BY Lengths
    <3>2. k # 0 => Length(k, e, l) - 1 = IF l = 0 THEN Length(k - 1, e, e)
                                            ELSE Length(k, e, l - 1)
      BY Lengths
    <3> QED BY <3>1, <3>2
  <2>7. wait'[c] # -1 => wait'[c] = Length(m, d, q)
    <3> SUFFICES ASSUME wait'[c] # -1 PROVE wait'[c] = Length(m, d, q)
      OBVIOUS
    <3>1. CASE wait[c] = -1
      <4>1. m = 0 /\ wait'[c] = 0
        BY <2>3, <2>5, <3>1
      <4> QED BY <2>6, <4>1
    <3>2. CASE wait[c] # -1 /\ (n = 0 \/ c \notin dcsr_ena)
      <4>1. m = n /\ q = r
        BY <2>4, <2>5, <3>2
      <4>2. wait[c] = Length(n, d, r) /\ (n = 0 => wait[c] = 0)
        BY <2>2, <2>6, <3>2
      <4>3. wait'[c] = wait[c]
        BY <2>3, <3>2, <4>2
      <4> QED BY <4>1, <4>2, <4>3
    <3>3. CASE wait[c] # -1 /\ n # 0 /\ c \in dcsr_ena
      <4>1. wait[c] = Length(n, d, r) /\ wait[c] > 0 /\ c \notin ppr_wr
        BY <2>2, <2>6, <3>3
      <4>2. wait'[c] = Length(n, d, r) - 1
        BY <2>3, <3>3, <4>1
      <4>3. IF r = 0 THEN m = n - 1 /\ q = d ELSE m = n /\ q = r - 1
        BY <2>4, <2>5, <3>3, <4>1
      <4> QED BY <2>6, <3>3, <4>2, <4>3
    <3> QED BY <3>1, <3>2, <3>3
  <2>8. wait'[c] \in Nat \cup {-1} /\ (wait'[c] # -1 => (m = 0 <=> wait'[c] = 0))
    BY <2>6, <2>7
  <2>9. wait'[c] # -1 => wait'[c] = Length(chan'[c].pause, ppr'[c], chan'[c].presc)
    BY <1>2, <2>1, <2>5, <2>7
  <2>10. Lasts(c)'
    BY <1>2, <2>9 DEF Lasts
  <2> QED BY <2>5, <2>8, <2>10
<1>5. PauseInv'
  BY <1>1, <1>4, PauseOfAll
<1>6. dcsr_ena \subseteq Channels
  BY DEF IInv, TypeInv
<1> QED BY <1>3, <1>4, <1>5, <1>6

LEMMA PauseAnew ==
    ASSUME IInv, PauseInv, Reset \/ Restore
    PROVE  PauseInv'
<1>1. CASE Reset
  <2>1. /\ wait' = [c \in Channels |-> 0] /\ chan' = [c \in Channels |-> ZeroChannel]
        /\ ppr_wr' = {}
    BY <1>1 DEF Reset, DmaReset, RegsReset
  <2>2. \A c \in Channels : Lasts(c)'
    BY <2>1 DEF Lasts, Length, ZeroChannel
  <2> QED BY <2>1, <2>2 DEF PauseInv
<1>2. CASE Restore
  <2>1. PICK s \in Snapshots :
          /\ SnaLoad([reset |-> FALSE, sna_load |-> TRUE, sna_hsync |-> s.hsync,
               sna_chan |-> [c \in Channels |->
                  [s.chan[c] EXCEPT !.sar = s.hi[c] * LowWords + s.lo[c]]]])
          /\ ppr_wr' = {}
          /\ wait' = [c \in Channels |-> IF s.chan[c].pause = 0 THEN 0 ELSE -1]
    BY <1>2 DEF Restore
  <2>2. chan' = [c \in Channels |-> [s.chan[c] EXCEPT !.sar = s.hi[c] * LowWords + s.lo[c]]]
    BY <2>1 DEF SnaLoad
  <2>3. ASSUME NEW c \in Channels PROVE wait'[c] \in Nat \cup {-1} /\ Lasts(c)'
    <3>1. s.chan[c] \in Registry
      OBVIOUS
    <3>2. chan'[c].pause = s.chan[c].pause
      BY <2>2, <3>1 DEF Registry
    <3> QED BY <2>1, <3>2 DEF Lasts, Length
  <2> QED BY <2>1, <2>3 DEF PauseInv
<1> QED BY <1>1, <1>2

LEMMA PauseStep ==
    ASSUME IInv, PauseInv, [Next]_vars
    PROVE  PauseInv'
<1>1. CASE Tick
  BY <1>1, PauseTick
<1>2. CASE Settle
  <2>1. AckEdge(strobe, FALSE, ack_seen, FALSE, FALSE, FALSE) /\ hsync' = hsync /\ since' # 0
    <3>1. AckEdge(strobe, FALSE, ack_seen, FALSE, FALSE, FALSE) /\ hsync' = hsync
      BY <1>2 DEF Settle, Edge
    <3>2. since' # 0
      BY <1>2 DEF Settle
    <3> QED BY <3>1, <3>2
  <2>2. strobe \in {strobe, NoWrite}
    OBVIOUS
  <2> QED BY <2>1, <2>2, PauseHeld
<1>3. CASE NewLine
  BY <1>3, PauseLine
<1>4. CASE CpuWrites
  BY <1>4, PauseCpu
<1>5. CASE CpuEnds
  <2>1. AckEdge(NoWrite, FALSE, ack_seen, FALSE, FALSE, FALSE) /\ hsync' = hsync /\ since' # 0
    <3>1. AckEdge(NoWrite, FALSE, ack_seen, FALSE, FALSE, FALSE) /\ hsync' = hsync
      BY <1>5 DEF CpuEnds, Quiet, Edge
    <3>2. since' # 0
      BY <1>5 DEF CpuEnds, Quiet
    <3> QED BY <3>1, <3>2
  <2>2. NoWrite \in {strobe, NoWrite}
    OBVIOUS
  <2> QED BY <2>1, <2>2, PauseHeld
<1>6. CASE CpuAcknowledges
  <2>1. PICK raster \in BOOLEAN, ivr0 \in BOOLEAN :
          AckEdge(strobe, FALSE, TRUE, TRUE, raster, ivr0)
    BY <1>6 DEF CpuAcknowledges
  <2>2. strobe \in {strobe, NoWrite}
    OBVIOUS
  <2>3. hsync' = hsync
    BY <1>6 DEF CpuAcknowledges, Quiet
  <2>4. since' # 0
    BY <1>6 DEF CpuAcknowledges, Quiet
  <2> QED BY <2>1, <2>2, <2>3, <2>4, PauseHeld
<1>7. CASE Reset \/ Restore
  BY <1>7, PauseAnew
<1>8. CASE CycleEnds
  <2>1. AckEdge(strobe, FALSE, FALSE, FALSE, FALSE, FALSE) /\ strobe \in {strobe, NoWrite}
    BY <1>8 DEF CycleEnds
  <2>2. hsync' = hsync /\ since' # 0
    BY <1>8 DEF CycleEnds, Quiet
  <2> QED BY <2>1, <2>2, PauseHeld
<1>9. CASE UNCHANGED vars
  BY <1>9 DEF vars, dmaVars, lineVars, regsVars, pageVars, PauseInv, Lasts
<1> QED BY <1>1, <1>2, <1>3, <1>4, <1>5, <1>6, <1>7, <1>8, <1>9 DEF Next

(* At any time the lines that a PAUSE has to last yet are what the counters of
   asic_dma.v say, until a prescaler write changes the rule. *)
THEOREM CountersAreThePause == Spec => []PauseInv
<1>1. Init => PauseInv
  <2> SUFFICES ASSUME Init PROVE PauseInv
    OBVIOUS
  <2>1. wait = [c \in Channels |-> 0] /\ ppr_wr = {}
    BY DEF Init
  <2>2. \A c \in Channels : chan[c].pause = 0
    BY DEF Init, ZeroChannel
  <2> QED BY <2>1, <2>2 DEF PauseInv, Lasts, Length
<1>2. IInv /\ PauseInv /\ [Next]_vars => PauseInv'
  BY PauseStep
<1> QED BY <1>1, <1>2, InvariantHolds, PTL DEF Spec

(* PAUSE n holds a channel back for n * (PPR + 1) lines, whatever the line's
   other channels, disabling and cut pauses did in between. *)
THEOREM PausesLast == Spec => PauseLasts
<1>1. IInv /\ PauseInv /\ [Next]_vars =>
        [NewLine => \A c \in dcsr_ena : wait'[c] # -1 => (c \in active_ch' <=> wait'[c] = 0)]_vars
  BY PauseLine
<1> QED BY <1>1, InvariantHolds, CountersAreThePause, PTL DEF Spec, PauseLasts
=============================================================================
