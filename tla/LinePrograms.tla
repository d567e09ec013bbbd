---------------------------- MODULE LinePrograms ----------------------------
(***************************************************************************)
(* What the sound DMA promises a program that plays lists: at each line    *)
(* the enabled channels that are not pausing run one instruction each, in  *)
(* channel order and indivisibly, and what the CPU writes or acknowledges  *)
(* takes effect between instructions.  No sequencer, no prefetch and no    *)
(* pulses.                                                                 *)
(***************************************************************************)
EXTENDS Integers, FiniteSets, FiniteSetsExt

CONSTANTS Channels, RamWords, LowWords, Prescalers, Snapshots

VARIABLES list,                      \* the words of the lists' memory
          due,                       \* channels still to run on this line
          state,                     \* pc, loop and pause of each channel
          ena, flags,                \* enabled channels, interrupts pending
          hi, lo, ppr,               \* what the CPU programmed
          cut,                       \* prescaler writes that have yet to cut a pause
          named,                     \* the source the last acknowledge named
          asked,                     \* the CPU is in a cycle that had an acknowledge
          wr, hsync                  \* inputs: the CPU's write strobe, and HSYNC
vars == <<list, due, state, ena, flags, hi, lo, ppr, cut, named, asked>>

Fresh == [pc |-> 0, pause |-> 0, left |-> 0, loop |-> 0, top |-> 0]
AtReset ==
    /\ due = {} /\ state = [c \in Channels |-> Fresh]
    /\ ena = {} /\ flags = {} /\ cut = {} /\ named = 2 /\ asked = FALSE
    /\ hi = [c \in Channels |-> 0] /\ lo = [c \in Channels |-> 0]
    /\ ppr = [c \in Channels |-> 0]
Init ==
    /\ due = {} /\ flags = {} /\ cut = {} /\ named = 2 /\ asked = FALSE
    /\ ena \subseteq Channels /\ ppr \in [Channels -> Prescalers]
    /\ state = [c \in Channels |-> [Fresh EXCEPT !.pc = hi[c] * LowWords + lo[c]]]

(* One line of a pause: the last line of the last interval ends it. *)
Aged(c) ==
    LET s == state[c] IN
    IF c \notin ena \/ s.pause = 0 THEN s
    ELSE IF s.left = 0 \/ c \in cut THEN [s EXCEPT !.pause = @ - 1, !.left = ppr[c]]
    ELSE [s EXCEPT !.left = @ - 1]
Line ==
    /\ hsync' /\ ~hsync
    /\ due = {} /\ state' = [c \in Channels |-> Aged(c)] /\ cut' = {}
    /\ due' = {c \in ena : Aged(c).pause = 0}
    /\ UNCHANGED <<list, ena, flags, hi, lo, ppr, named, asked>>

Ran(s, w, div) ==
    LET next == (s.pc + 1) % RamWords
        has(o) == o \in w.op
        bit(k) == has("control") /\ (w.n \div 2^k) % 2 = 1
        loops == bit(0) /\ ~bit(5) /\ s.loop > 0
        repeats == has("repeat") /\ (w.n > 0 \/ has("pause"))
        pauses == has("pause") /\ (w.n > 0 \/ has("repeat")) IN
    IF has("repeat") /\ bit(0) /\ ~bit(5) THEN [s EXCEPT !.pc = next]
    ELSE [pc |-> IF loops THEN s.top ELSE next,
          pause |-> IF pauses THEN w.n ELSE s.pause,
          left |-> IF pauses THEN div ELSE s.left,
          loop |-> IF repeats THEN w.n ELSE IF loops THEN s.loop - 1 ELSE s.loop,
          top |-> IF repeats THEN next ELSE s.top]
Commands(w, k) ==
    /\ "control" \in w.op /\ (w.n \div 2^k) % 2 = 1
    /\ ~("repeat" \in w.op /\ (w.n \div 2^0) % 2 = 1 /\ (w.n \div 2^5) % 2 # 1)

Execute ==
    /\ due # {} /\ due' = due \ {Min(due)}
    /\ LET c == Min(due)
           w == list[state[c].pc] IN
       /\ state' = [state EXCEPT ![c] = Ran(@, w, ppr[c])]
       /\ ena' = IF Commands(w, 5) THEN ena \ {c} ELSE ena
       /\ flags' = IF Commands(w, 4) THEN flags \cup {c} ELSE flags
    /\ UNCHANGED <<list, hi, lo, ppr, cut, named, asked>>

(* A STOP that falls into the strobe keeps its channel stopped while the
   strobe has not written again. *)
WriteDcsr ==
    /\ wr'.kind = "dcsr" /\ flags' = flags \ wr'.ones
    /\ ena' = wr'.ena \/ (wr = wr' /\ ena' = ena \cap wr'.ena)
    /\ UNCHANGED <<list, due, state, hi, lo, ppr, cut, named, asked>>
WriteSar ==
    LET c == wr'.c IN
    /\ wr'.kind \in {"sar_hi", "sar_lo"} /\ c \notin due
    /\ hi' = IF wr'.kind = "sar_hi" THEN [hi EXCEPT ![c] = wr'.v] ELSE hi
    /\ lo' = IF wr'.kind = "sar_lo" THEN [lo EXCEPT ![c] = wr'.v] ELSE lo
    /\ state' = [state EXCEPT ![c].pc = hi'[c] * LowWords + lo'[c]]
    /\ UNCHANGED <<list, due, ena, flags, ppr, cut, named, asked>>
WritePpr ==
    /\ wr'.kind = "ppr"
    /\ ppr' = [ppr EXCEPT ![wr'.c] = wr'.v] /\ cut' = cut \cup {wr'.c}
    /\ UNCHANGED <<list, due, state, ena, flags, hi, lo, named, asked>>
Cut ==
    /\ cut # {} /\ cut' = {}
    /\ state' = [c \in Channels |->
          IF c \in cut /\ c \in ena /\ state[c].pause > 0
          THEN [state[c] EXCEPT !.left = 0] ELSE state[c]]
    /\ UNCHANGED <<list, due, ena, flags, hi, lo, ppr, named, asked>>

(* The acknowledge names the raster interrupt (3) or the highest pending
   channel, and when it retires a flag it is that one.  With nothing pending
   it names 2, or 0 in a cycle that had an acknowledge before. *)
Acknowledge ==
    /\ asked' = TRUE
    /\ \/ named' = 3 /\ flags' = flags
       \/ /\ flags # {} /\ named' = Max(flags)
          /\ flags' \in {flags, flags \ {named'}}
       \/ flags = {} /\ flags' = {} /\ named' = IF asked THEN 0 ELSE 2
    /\ UNCHANGED <<list, due, state, ena, hi, lo, ppr, cut>>
CycleEnds ==
    /\ asked /\ asked' = FALSE
    /\ UNCHANGED <<list, due, state, ena, flags, hi, lo, ppr, cut, named>>

Reset == AtReset' /\ UNCHANGED list
Restore ==
    /\ \E s \in Snapshots :
          /\ ena' = s.ena /\ flags' = s.flags /\ ppr' = s.ppr
          /\ hi' = s.hi /\ lo' = s.lo
          /\ state' = [c \in Channels |->
                [pc |-> s.hi[c] * LowWords + s.lo[c], pause |-> s.chan[c].pause,
                 left |-> s.chan[c].presc, loop |-> s.chan[c].loop,
                 top |-> s.chan[c].loop_addr]]
    /\ due' = {} /\ cut' = {} /\ named' = 2 /\ asked' = FALSE /\ UNCHANGED list

Next ==
    \/ Line \/ Execute
    \/ WriteDcsr \/ WriteSar \/ WritePpr \/ Cut
    \/ Acknowledge \/ CycleEnds \/ Reset \/ Restore
Spec == Init /\ [][Next]_vars
=============================================================================
