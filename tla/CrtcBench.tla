----------------------------- MODULE CrtcBench -----------------------------
(***************************************************************************)
(* The unit bench of the CRTC, sim/sim_main.cpp, played on the model: its  *)
(* clock of sixteen ticks a character with CLKEN in the first, the VSYNC   *)
(* pin a tick behind, its bus and reset operations, and the expectations   *)
(* of its tests.  A test is a sequence of operations and one behaviour,    *)
(* from power up under reset to its last expectation.  Ticks in which      *)
(* nothing can change are taken together.                                  *)
(***************************************************************************)
EXTENDS CrtcWrapper, Sequences, TLC

CONSTANT Tests              \* a sequence of tests

VARIABLES test, pc, done,   \* done: how often the current operation has stepped
          tick_in_character, nRESET, VSYNC

vars == <<machineVars, test, pc, done, tick_in_character, nRESET, VSYNC>>

kClockTicksPerCharacter == 16
kNClkEnPhase == 8
kPositionTimeout == 100000

(* What the register file keeps of a byte written to register a. *)
Named(a) == "R" \o ToString(a)
Stored(a, v) ==
    IF Named(a) \in Registers
    THEN [r |-> Named(a), v |-> (IF a = 3 THEN v \div 16 ELSE v) % Width[Named(a)]]
    ELSE NoWrite

File(bytes) ==
    [r \in Registers |->
        IF \E i \in 1..10 : Named(i - 1) = r
        THEN LET i == CHOOSE i \in 1..10 : Named(i - 1) = r IN Stored(i - 1, bytes[i]).v
        ELSE 0]

-----------------------------------------------------------------------------
(* The operations of the bench. *)
set_crtc_type(type) == [do |-> "type", type |-> type]
reset == [do |-> "reset"]
write_register(a, v) == [do |-> "register", w |-> Stored(a, v)]
write_at_nclken(a, v) == [do |-> "at", p |-> kNClkEnPhase, w |-> Stored(a, v)]
write_at_clken(a, v) == [do |-> "at", p |-> 0, w |-> Stored(a, v)]
write_now(a, v) == [do |-> "hold", p |-> -1, w |-> Stored(a, v), n |-> 1]
hold_at_clken(a, v, n) == [do |-> "hold", p |-> 0, w |-> Stored(a, v), n |-> n]
load_snapshot_registers(bytes) == [do |-> "load", file |-> File(bytes)]
run_characters(n) == [do |-> "characters", n |-> n]
run_clock_ticks(n) == [do |-> "ticks", n |-> n]
select_register == run_clock_ticks(1)
run_to_c0(c) == [do |-> "c0", c |-> c]
wait_position(r, l, c) == [do |-> "position", at |-> <<r, l, c>>]
run_to_line_mid(l, max) == [do |-> "line", l |-> l, n |-> max]
vsync_within(n, seen) == [do |-> "vsync", n |-> n, seen |-> seen]
expect(see) == [do |-> "expect", see |-> see]

Program(type, values) ==
    <<set_crtc_type(type)>> \o [i \in DOMAIN values |-> write_register(i - 1, values[i])]
High == expect([vsync |-> TRUE])
Low == expect([vsync |-> FALSE])
Latches(names) == expect([latches |-> names])
ZeroEntry(b) == expect([zero_entry |-> b])
Override(b) == expect([r5_override |-> b])
Rfd(source, managed) == expect([rfd |-> <<source, managed>>])
Window(open) == expect([rfd_pending |-> open])
Types(T(_)) == <<T(0), T(1)>>
At(c4, ra) == expect([c4 |-> c4, ra |-> ra])
C4(n) == expect([c4 |-> n])
MA(n) == expect([ma |-> n])
Counts(adj, c4, ra) == expect([adj |-> adj, c4 |-> c4, ra |-> ra])

(* The start address, in its two registers and within one character. *)
Word(high, low) == high * 256 + low
start(r12, r13) == <<write_register(12, r12), write_register(13, r13)>>
write_r12_r13_character(r12, r13) == start(r12, r13) \o <<run_clock_ticks(12)>>
write_r13_character(r13) == <<write_register(13, r13), run_clock_ticks(14)>>

Fixture(type, values) == Program(type, values) \o <<select_register, reset>>

-----------------------------------------------------------------------------
Init ==
    /\ PowerUp /\ CRTC_TYPE = 0 /\ reg = [r \in Registers |-> 0]
    /\ test \in DOMAIN Tests /\ pc = 1 /\ done = 0
    /\ tick_in_character = 0 /\ nRESET = FALSE /\ VSYNC = FALSE

Op == Tests[test][pc]
Proceed(finished) ==
    IF finished THEN pc' = pc + 1 /\ done' = 0 ELSE pc' = pc /\ done' = done + 1
Ahead(n) == tick_in_character' = (tick_in_character + n) % kClockTicksPerCharacter

(* One clock, with the write w on the bus. *)
Clock(w) ==
    /\ IF tick_in_character = 0 THEN (IF nRESET THEN Edge(w) ELSE ResetEdge(w))
       ELSE IF ~nRESET THEN Reset(w)
       ELSE IF w = NoWrite THEN UNCHANGED machineVars ELSE Between(w)
    /\ Ahead(1) /\ VSYNC' = VSYNC_r

(* n clocks without CLKEN; the clocks up to and with the next CLKEN; a character. *)
Idle(n) ==
    /\ IF nRESET THEN UNCHANGED machineVars ELSE Reset(NoWrite)
    /\ Ahead(n) /\ VSYNC' = VSYNC_r
NextEdge ==
    /\ IF nRESET THEN Edge(NoWrite) ELSE ResetEdge(NoWrite)
    /\ tick_in_character' = 1 /\ VSYNC' = VSYNC_r
Character ==
    /\ IF nRESET THEN Edge(NoWrite) ELSE ResetEdge(NoWrite)
    /\ Ahead(0) /\ VSYNC' = IF tick_in_character = 1 THEN VSYNC_r ELSE VSYNC_r'
Toward(p) ==
    IF tick_in_character = 0 \/ (p # 0 /\ tick_in_character > p) THEN NextEdge
    ELSE Idle((p - tick_in_character) % kClockTicksPerCharacter)
Instantly == UNCHANGED <<machineVars, tick_in_character, VSYNC>>

Step ==
    CASE Op.do = "register" -> Clock(IF done = 0 THEN NoWrite ELSE Op.w) /\ Proceed(done = 1)
      [] Op.do = "at" ->
           IF tick_in_character = Op.p THEN Clock(Op.w) /\ Proceed(TRUE)
           ELSE Toward(Op.p) /\ Proceed(FALSE)
      [] Op.do = "hold" ->
           IF Op.p = 0 /\ done = 0 /\ tick_in_character # 0
           THEN Toward(0) /\ UNCHANGED <<pc, done>>
           ELSE Clock(Op.w) /\ Proceed(done + 1 = Op.n)
      [] Op.do = "characters" ->
           IF Op.n = 0 THEN Instantly /\ Proceed(TRUE)
           ELSE Character /\ Proceed(done + 1 = Op.n)
      [] Op.do = "ticks" -> Clock(NoWrite) /\ Proceed(done + 1 = Op.n)
      [] Op.do = "c0" ->
           IF hcc = Op.c THEN Instantly /\ Proceed(TRUE) ELSE NextEdge /\ Proceed(FALSE)
      [] Op.do = "position" ->
           IF <<row, line, hcc>> = Op.at THEN Instantly /\ Proceed(TRUE)
           ELSE Character /\ Proceed(FALSE)
      [] Op.do = "line" ->
           IF hcc # 4 THEN NextEdge /\ UNCHANGED <<pc, done>>
           ELSE IF line = Op.l THEN Instantly /\ Proceed(TRUE)
           ELSE Character /\ Proceed(FALSE)
      [] Op.do = "vsync" ->
           IF done = Op.n \/ (done > 0 /\ VSYNC) THEN Instantly /\ Proceed(TRUE)
           ELSE Character /\ Proceed(FALSE)
      [] Op.do = "expect" -> Instantly /\ Proceed(TRUE)

Operation == Op.do \notin {"reset", "type", "load"} /\ Step /\ UNCHANGED <<test, nRESET>>

(* To the next character under reset, and one character of it. *)
ResetTest ==
    /\ Op.do = "reset" /\ nRESET' = (tick_in_character = 0)
    /\ IF tick_in_character = 0
       THEN ResetEdge(NoWrite) /\ tick_in_character' = 0
       ELSE Reset(NoWrite) /\ tick_in_character' = 0
    /\ VSYNC' = FALSE
    /\ IF tick_in_character = 0 THEN Proceed(TRUE) ELSE UNCHANGED <<pc, done>>
    /\ UNCHANGED test

SwitchTest ==
    /\ Op.do = "type" /\ SetType(Op.type) /\ Proceed(TRUE)
    /\ UNCHANGED <<test, tick_in_character, nRESET, VSYNC>>

LoadTest ==
    /\ Op.do = "load" /\ tick_in_character # 0 /\ Load(Op.file) /\ Proceed(TRUE)
    /\ Ahead(1) /\ VSYNC' = VSYNC_r /\ UNCHANGED <<test, nRESET>>

Ended == pc > Len(Tests[test]) /\ UNCHANGED vars

Next ==
    \/ pc <= Len(Tests[test]) /\ (Operation \/ ResetTest \/ SwitchTest \/ LoadTest)
    \/ Ended

Spec == Init /\ [][Next]_vars

-----------------------------------------------------------------------------
Arbitration == {"r4_adjust_switch", "r9_live_compare", "r9_at_r0_pending", "c0_1_adjust",
                "zero_entry_consumed", "r5_override"}

(* What a test looks at, in the words of its expectations. *)
Seen ==
    [c0 |-> hcc, c4 |-> row, ra |-> line, c5 |-> c5, adj |-> in_adj, ma |-> row_addr_r,
     saved |-> row_addr, vsync |-> VSYNC, raw_vsync |-> VSYNC_r, parity |-> parity_frame,
     latches |-> {x \in Arbitration : e0[x]}, r5_override |-> e0.r5_override,
     zero_entry |-> e0.zero_adj_entry,
     rfd |-> <<IF tick_in_character = 1 THEN e1.rfd_vma_flag ELSE Type1!VmaFlag,
               e1.rfd_parity_flag>>,   \* an unreachable R1 disarms on the clock after the edge
     rfd_pending |-> e1.rfd_r0_pending,
     elapsed |-> ((IF CRTC_TYPE = 0 THEN reg["R3"] - 1 ELSE WMod - 1) - vsc) % WMod]

(* The model meets every expectation of every test, and every wait of a test
   ends within the bench's own bound, or, where run_to_c0 has none, before C0
   has been round: the model behaves like the RTL that the same tests pass on. *)
BenchAgrees ==
    pc <= Len(Tests[test]) =>
        /\ Op.do = "expect" => \A x \in DOMAIN Op.see : Seen[x] = Op.see[x]
        /\ Op.do = "c0" => done <= HMod
        /\ Op.do = "position" => done < kPositionTimeout
        /\ Op.do = "line" => done < Op.n
        /\ Op.do = "vsync" => IF Op.seen THEN done < Op.n \/ VSYNC ELSE done = 0 \/ ~VSYNC
=============================================================================
