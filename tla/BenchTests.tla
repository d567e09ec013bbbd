----------------------------- MODULE BenchTests -----------------------------
(***************************************************************************)
(* The tests of the CRTC bench, as sequences of the bench's operations:    *)
(* the counters (vertical adjustment, counters that a write leaves above   *)
(* their limit), then what the picture is made of (video pointer, rupture  *)
(* for dummies, vertical sync).                                            *)
(***************************************************************************)
EXTENDS CrtcBench, SequencesExt

-----------------------------------------------------------------------------
(* The bench's tests of the vertical adjustment of type 0: which write on the
   last line turns its end into an adjustment line, what C9 is compared with
   there, and where the video pointer goes. *)
test_type0_r0_zero_c9_equal_single_c4_increment_deferred ==
    Fixture(0, <<3, 0, 2, 17, 3, 0, 3, 2, 0, 0>>)
    \o <<run_characters(3), run_clock_ticks(1), write_now(0, 0), run_characters(2),
         Low, write_at_nclken(0, 3),
         run_clock_ticks(kClockTicksPerCharacter - kNClkEnPhase), run_characters(3),
         run_clock_ticks(1), Low>>

adjustment_fixture == Fixture(0, <<7, 4, 5, 17, 2, 5, 2, 1, 0, 3>>)
lines_before_last == run_characters(11 * 8)
test_type0_adjustment_r4_write_switches_c9_to_r5 ==
    adjustment_fixture \o <<lines_before_last, run_characters(2), write_at_clken(4, 1),
                            run_characters(5), Counts(TRUE, 2, 4)>>
test_type0_adjustment_captures_mid_character_r4_write ==
    adjustment_fixture \o <<lines_before_last, run_characters(1), write_at_nclken(4, 1),
                            run_characters(6), Counts(TRUE, 2, 4)>>
test_type0_adjustment_r9_write_at_r0_increments_c4_and_c9 ==
    adjustment_fixture \o <<lines_before_last, run_characters(7), write_at_clken(9, 4),
                            Counts(TRUE, 3, 4)>>
test_type0_adjustment_completion_resets_the_next_line ==
    adjustment_fixture \o <<lines_before_last, run_characters(7), write_at_clken(9, 4),
                            run_characters(8), Counts(FALSE, 0, 0)>>
test_type0_adjustment_captures_mid_character_r9_write_at_r0 ==
    adjustment_fixture \o <<lines_before_last, run_characters(6), write_at_nclken(9, 4),
                            run_characters(1), Counts(TRUE, 3, 4)>>
test_type0_adjustment_r4_write_at_r0_switches_c9_to_r5 ==
    adjustment_fixture \o <<lines_before_last, run_characters(7), write_at_clken(4, 1),
                            Counts(TRUE, 2, 4)>>
test_type0_adjustment_captures_mid_character_r4_write_at_r0 ==
    adjustment_fixture \o <<lines_before_last, run_characters(6), write_at_nclken(4, 1),
                            run_characters(1), Counts(TRUE, 2, 4)>>

test_type0_adjustment_r9_write_uses_new_r9 ==
    Fixture(0, <<4, 3, 3, 17, 0, 2, 1, 1, 0, 0>>)
    \o <<run_characters(2), write_at_clken(9, 1), run_characters(2), Counts(TRUE, 0, 1)>>
test_type0_adjustment_accepts_r5_write_at_c0_2 ==
    Fixture(0, <<3, 2, 2, 17, 0, 0, 1, 1, 0, 0>>)
    \o <<run_characters(2), write_at_clken(5, 1), run_characters(1), Counts(TRUE, 1, 0)>>
test_type0_adjustment_rejects_r5_write_after_c0_2 ==
    Fixture(0, <<4, 3, 3, 17, 0, 0, 1, 1, 0, 0>>)
    \o <<run_characters(3), write_at_clken(5, 1), run_characters(1), Counts(FALSE, 0, 0)>>

(* The documented example with R4=38: the critical line is C4=38, C9=7. *)
kT12CriticalLineCharacters == 311 * 64
worked_example(r9) == Fixture(0, <<63, 40, 46, 17, 38, 16, 25, 63, 0, r9>>)
test_type0_worked_example_exact_r0_yields_39_8 ==
    worked_example(7) \o <<run_characters(kT12CriticalLineCharacters), run_characters(63),
                           write_at_clken(9, 8), Counts(TRUE, 39, 8)>>
test_type0_worked_example_window_write_yields_38_8 ==
    worked_example(7) \o <<run_characters(kT12CriticalLineCharacters + 10),
                           write_at_clken(9, 8), run_characters(64 - 11), Counts(TRUE, 38, 8)>>
test_type0_c0_r9_write_immediate_clears_last_line ==
    worked_example(7) \o <<run_characters(kT12CriticalLineCharacters), write_at_clken(9, 10),
                           run_characters(64), Counts(FALSE, 38, 8)>>
test_type0_c0_r9_write_immediate_validates_last_line ==
    worked_example(10) \o <<run_characters((38 * 11 + 7) * 64), write_at_clken(9, 7),
                            run_characters(64), expect([adj |-> TRUE, ra |-> 0])>>
test_type0_c0_r4_write_immediate_clears_last_line ==
    worked_example(7) \o <<run_characters(kT12CriticalLineCharacters), write_at_clken(4, 10),
                           run_characters(64), Counts(FALSE, 39, 0)>>

(* The example with R4=10, R5=16: what its adjustment lines address. *)
t25_program_and_reach_first_adjustment_line ==
    Fixture(0, <<63, 40, 46, 17, 10, 16, 2, 63, 0, 3>>) \o <<run_characters(11 * 4 * 64 + 1)>>
test_type0_adjustment_segment_cycles_period_8 ==
    t25_program_and_reach_first_adjustment_line
    \o FlattenSeq([c9 \in 1..15 |-> <<expect([ra |-> c9 - 1]), run_characters(64)>>])
    \o <<expect([ra |-> 15])>>
test_type0_adjustment_pointer_steps_and_scans ==
    LET Start0 == 11 * 40 + 1 IN
    t25_program_and_reach_first_adjustment_line
    \o FlattenSeq([i \in 1..3 |-> <<expect([ma |-> Start0]), run_characters(64)>>])
    \o <<expect([ma |-> Start0]), run_characters(40), expect([ma |-> Start0 + 40]),
         run_characters(24)>>
    \o FlattenSeq([i \in 1..11 |-> <<expect([ma |-> Start0 + 40]), run_characters(64)>>])
    \o <<expect([ma |-> Start0 + 40])>>
test_type0_adjustment_exit_reloads_frame_origin ==
    t25_program_and_reach_first_adjustment_line
    \o <<run_characters(15 * 64), expect([ra |-> 15]), run_characters(64),
         expect([c4 |-> 0, ra |-> 0, ma |-> 1])>>

Type0Tests ==
  <<test_type0_r0_zero_c9_equal_single_c4_increment_deferred,
    test_type0_adjustment_r4_write_switches_c9_to_r5,
    test_type0_adjustment_captures_mid_character_r4_write,
    test_type0_adjustment_r9_write_at_r0_increments_c4_and_c9,
    test_type0_adjustment_completion_resets_the_next_line,
    test_type0_adjustment_captures_mid_character_r9_write_at_r0,
    test_type0_adjustment_r9_write_uses_new_r9,
    test_type0_adjustment_accepts_r5_write_at_c0_2,
    test_type0_adjustment_rejects_r5_write_after_c0_2,
    test_type0_worked_example_exact_r0_yields_39_8,
    test_type0_worked_example_window_write_yields_38_8,
    test_type0_c0_r9_write_immediate_clears_last_line,
    test_type0_c0_r9_write_immediate_validates_last_line,
    test_type0_c0_r4_write_immediate_clears_last_line,
    test_type0_adjustment_segment_cycles_period_8,
    test_type0_adjustment_pointer_steps_and_scans,
    test_type0_adjustment_exit_reloads_frame_origin,
    test_type0_adjustment_r4_write_at_r0_switches_c9_to_r5,
    test_type0_adjustment_captures_mid_character_r4_write_at_r0>>

-----------------------------------------------------------------------------
(* The latches: adjustment entered with R5=0, lines of one and two characters,
   R5 rewritten while the adjustment runs, and what clears a latch. *)
r5_fixture(r5) == Fixture(0, <<7, 4, 5, 17, 2, r5, 2, 1, 0, 3>>)
zero_adj_fixture == Fixture(0, <<3, 2, 2, 17, 0, 0, 1, 1, 0, 0>>)
line_characters == run_characters(8)
zero_entry_armed ==
    zero_adj_fixture \o <<run_characters(1), write_at_clken(4, 1), run_characters(2),
                          ZeroEntry(TRUE)>>

test_type0_adjustment_latches_clear_on_snapshot_load ==
    LET load == load_snapshot_registers(<<7, 4, 5, 17, 2, 5, 2, 1, 0, 3>>) IN
    r5_fixture(5)
    \o <<run_characters(11 * 8), run_characters(2), write_at_nclken(4, 1),
         Latches({"r4_adjust_switch"}), load, Latches({})>>
    \o zero_entry_armed \o <<load, ZeroEntry(FALSE)>>

test_type0_adjustment_latches_clear_on_type_roundtrip ==
    r5_fixture(5)
    \o <<run_characters(11 * 8), run_characters(2), write_at_nclken(9, 4),
         Latches({"r9_live_compare"}), set_crtc_type(1), run_clock_ticks(1), Latches({}),
         set_crtc_type(0), write_register(9, 3), select_register, reset,
         run_characters(11 * 8), run_characters(6), write_at_nclken(9, 4),
         Latches({"r9_at_r0_pending"}), set_crtc_type(1), run_clock_ticks(1),
         set_crtc_type(0), Latches({})>>
    \o zero_entry_armed
    \o <<set_crtc_type(1), run_clock_ticks(1), set_crtc_type(0), ZeroEntry(FALSE)>>

test_type0_r4_write_at_c0_1_enters_zero_adjustment ==
    zero_adj_fixture
    \o <<run_characters(1), write_at_clken(4, 1), Latches({"c0_1_adjust"}), run_characters(2),
         Counts(TRUE, 0, 1), Latches({}), ZeroEntry(TRUE), run_characters(4),
         expect([adj |-> FALSE, zero_entry |-> FALSE])>>
test_type0_r9_write_within_c0_1_enters_zero_adjustment ==
    zero_adj_fixture \o <<write_at_nclken(9, 1), run_characters(3), Counts(TRUE, 0, 1)>>
test_type0_r4_write_at_c0_0_overrides_last_line ==
    zero_adj_fixture \o <<write_at_clken(4, 1), run_characters(3), Counts(FALSE, 1, 0)>>

test_type0_r0_one_runs_default_zero_adjustment_line ==
    Program(0, <<1, 1, 1, 17, 0, 0, 1, 1, 0, 0>>)
    \o <<reset, run_characters(2), Counts(TRUE, 1, 0), ZeroEntry(TRUE),
         run_characters(2), Counts(FALSE, 0, 0), ZeroEntry(FALSE)>>
test_type0_r0_zero_starts_default_zero_adjustment ==
    Fixture(0, <<0, 0, 0, 17, 0, 0, 1, 1, 0, 0>>)
    \o <<run_characters(1), Counts(TRUE, 1, 0), Latches({"zero_entry_consumed"}),
         ZeroEntry(TRUE), run_characters(3), expect([c4 |-> 1, ra |-> 0]),
         write_at_nclken(0, 3), run_characters(4), Counts(FALSE, 0, 0), Latches({}),
         ZeroEntry(FALSE)>>
test_type0_r0_zero_during_adjustment_freezes_c4 ==
    Fixture(0, <<3, 1, 1, 17, 0, 3, 1, 1, 0, 1>>)
    \o <<run_characters(11), Counts(TRUE, 1, 0), write_at_nclken(0, 0), expect([ra |-> 1]),
         run_characters(1), Counts(TRUE, 1, 1)>>
test_type0_r0_one_c0_1_break_is_consumed_at_rollover ==
    Fixture(0, <<1, 1, 1, 17, 0, 0, 1, 1, 0, 0>>)
    \o <<run_characters(1), write_at_clken(4, 1), Counts(TRUE, 0, 1), Latches({}),
         run_characters(2), Counts(FALSE, 0, 0)>>

unequal_fixture == Program(0, <<63, 40, 46, 17, 10, 16, 25, 0, 0, 3>>)
adjusting(c4, from, n, characters) ==
    FlattenSeq([i \in 1..n |->
        <<Counts(TRUE, c4, from + i - 1), ZeroEntry(FALSE), run_characters(characters)>>])
frame_reset == <<Counts(FALSE, 0, 0), ZeroEntry(FALSE)>>
test_type0_adjustment_unequal_c9_counts_to_r5 ==
    unequal_fixture \o <<reset, run_characters(44 * 64)>> \o adjusting(11, 0, 16, 64) \o frame_reset
test_type0_active_adjustment_r5_zero_counts_through_31 ==
    unequal_fixture
    \o <<select_register, reset, run_characters(44 * 64)>> \o adjusting(11, 0, 1, 64)
    \o <<Counts(TRUE, 11, 1), ZeroEntry(FALSE), run_characters(2), write_at_clken(5, 0),
         run_characters(64 - 3)>>
    \o adjusting(11, 2, 30, 64) \o frame_reset
test_type0_adjustment_last_line_r5_zero_retargets_to_31 ==
    r5_fixture(4) \o <<run_characters(12 * 8)>> \o adjusting(3, 0, 3, 8)
    \o <<Counts(TRUE, 3, 3), ZeroEntry(FALSE), run_characters(2), write_at_clken(5, 0),
         Override(TRUE), run_characters(5), Override(FALSE)>>
    \o adjusting(3, 4, 28, 8) \o frame_reset

reaches_last_adjustment_line ==
    r5_fixture(4) \o <<run_characters(12 * 8), run_characters(3 * 8),
                               expect([adj |-> TRUE, ra |-> 3]), run_characters(2)>>
test_type0_r5_same_line_rejected_write_does_not_retarget ==
    reaches_last_adjustment_line
    \o <<write_at_clken(5, 0), write_now(5, 4), run_characters(5), Counts(TRUE, 3, 4)>>
test_type0_r5_same_line_rejected_zero_does_not_retarget ==
    reaches_last_adjustment_line
    \o <<write_at_clken(5, 4), write_now(5, 0), run_characters(5), expect([adj |-> FALSE])>>

test_type0_zero_adj_entry_r5_positive_extends_adjustment ==
    LET enters ==
          Fixture(0, <<7, 4, 5, 17, 0, 0, 1, 1, 0, 0>>)
          \o <<run_characters(1), write_at_clken(4, 1), run_characters(6), Counts(TRUE, 0, 1),
               ZeroEntry(TRUE), select_register>>
    IN enters
       \o <<run_characters(2), write_at_clken(5, 4), ZeroEntry(FALSE), Override(TRUE),
            run_characters(5), Counts(TRUE, 0, 2), ZeroEntry(FALSE), Override(FALSE),
            line_characters, expect([adj |-> TRUE, ra |-> 3]), line_characters>>
       \o frame_reset \o enters
       \o <<run_characters(3), write_at_clken(5, 4), Override(FALSE), run_characters(4),
            Counts(FALSE, 0, 0)>>

test_type0_r4_unequal_history_retains_switch ==
    LET last_line == r5_fixture(0) \o
          <<run_characters(11 * 8), run_characters(2), write_at_clken(5, 5)>>
    IN last_line \o <<run_characters(5), Counts(TRUE, 3, 0)>>
       \o last_line \o <<select_register, write_at_clken(4, 1), write_at_clken(4, 2),
                         run_characters(3), Counts(TRUE, 2, 4)>>

Type0EntryTests ==
  <<test_type0_adjustment_latches_clear_on_snapshot_load,
    test_type0_adjustment_latches_clear_on_type_roundtrip,
    test_type0_r4_write_at_c0_1_enters_zero_adjustment,
    test_type0_r9_write_within_c0_1_enters_zero_adjustment,
    test_type0_r4_write_at_c0_0_overrides_last_line,
    test_type0_r0_one_runs_default_zero_adjustment_line,
    test_type0_r0_zero_starts_default_zero_adjustment,
    test_type0_r0_zero_during_adjustment_freezes_c4,
    test_type0_r0_one_c0_1_break_is_consumed_at_rollover,
    test_type0_adjustment_unequal_c9_counts_to_r5,
    test_type0_active_adjustment_r5_zero_counts_through_31,
    test_type0_adjustment_last_line_r5_zero_retargets_to_31,
    test_type0_r5_same_line_rejected_write_does_not_retarget,
    test_type0_r5_same_line_rejected_zero_does_not_retarget,
    test_type0_zero_adj_entry_r5_positive_extends_adjustment,
    test_type0_r4_unequal_history_retains_switch>>

-----------------------------------------------------------------------------
(* The bench's tests of the counters: a limit lowered below C9 or C4 lets it
   run to its width and wrap, lines repeated by limits of zero, and the
   vertical adjustment of type 1 with its own counter C5. *)
run_lines(n) == run_characters(4 * n)
rest_of_line == run_characters(3)
short_frame(type, r4, r7, r9) == Fixture(type, <<3, 2, 2, 17, r4, 0, 40, r7, 0, r9>>)

(* Four lines on, a write lowers the limit below the counter. *)
c9_overflow(type, r9) ==
    short_frame(type, 20, 100, 7)
    \o <<run_lines(4), At(0, 4), write_at_clken(9, r9), rest_of_line, At(0, 5),
         run_lines(26), At(0, 31), run_lines(1), At(0, 0), run_lines(r9 + 1), At(1, 0)>>
test_type1_c9_counts_through_31_and_wraps == c9_overflow(1, 2)
test_type1_c9_zero_limit_overflows == c9_overflow(1, 0)
test_type0_c9_counts_through_31_and_wraps == c9_overflow(0, 2)
test_type0_c9_zero_limit_overflows == c9_overflow(0, 0)

c4_overflow(type, r4) ==
    short_frame(type, 5, 100, 0)
    \o <<run_lines(4), C4(4), write_at_clken(4, r4), rest_of_line, C4(5),
         run_lines(122), C4(127), run_lines(1), C4(0)>>
wrapped == <<run_lines(1), C4(1), run_lines(1), C4(0)>>
test_type1_c4_counts_through_127_and_wraps == c4_overflow(1, 1) \o wrapped
test_type0_c4_counts_through_127_and_wraps == c4_overflow(0, 1) \o wrapped
test_type1_c4_zero_limit_overflows == c4_overflow(1, 0) \o <<run_lines(1), C4(0)>>
test_type0_c4_zero_limit_overflows == c4_overflow(0, 0)

(* Lines that repeat C4=C9=0: both limits zero while Last Line is armed. *)
test_type0_rlal_zero_limit_arms_last_line ==
    short_frame(0, 2, 100, 0)
    \o <<At(0, 0), write_at_clken(4, 0), rest_of_line, Counts(FALSE, 0, 0), run_lines(4), At(0, 0)>>
test_type0_rlal_single_zero_limit_does_not_arm ==
    short_frame(0, 2, 100, 2)
    \o <<At(0, 0), write_at_clken(4, 0), rest_of_line, Counts(FALSE, 0, 1), run_lines(2), At(0, 0)>>
test_type0_rlal_first_line_delayed_arming ==
    short_frame(0, 5, 100, 3)
    \o <<At(0, 0), run_characters(2), write_at_clken(9, 0), write_register(4, 1),
         run_characters(1), At(1, 0), run_lines(1), At(0, 0)>>
test_type0_rlal_from_the_genuine_last_line ==
    short_frame(0, 2, 100, 1)
    \o <<run_lines(5), At(2, 1), run_characters(2), write_at_clken(9, 0), run_characters(1),
         At(0, 0), select_register, write_at_clken(4, 0), rest_of_line, Counts(FALSE, 0, 0),
         run_lines(4), At(0, 0)>>

test_type0_r9_write_before_r1_advances_next_row_ma ==
    LET From(n) == MA(2 + n)         \* a reset leaves the pointer, here at 2
    IN Fixture(0, <<7, 4, 5, 17, 5, 0, 4, 100, 0, 3>>)
       \o <<At(0, 0), From(0), run_characters(2), From(2), write_at_clken(9, 0),
            run_characters(4), From(7), run_characters(1), At(1, 0), From(4), run_characters(4),
            From(8), run_characters(4), At(2, 0), From(8)>>

(* The frame that tells the types apart: which C4 its adjustment reaches. *)
kIdentificationFrameLines == (36 + 1) * (7 + 1) + 16
run_identification_sweep(type, r7, seen) ==
    Program(type, <<63, 40, 46, 17, 36, 16, 25, r7, 0, 7>>)
    \o <<reset, vsync_within((kIdentificationFrameLines + 1) * 64, seen)>>
test_identification(type) ==
    [i \in 1..3 + 2 * type |-> run_identification_sweep(type, 35 + i, 35 + i <= 37 + type)]

adjustment_example(type) == Program(type, <<63, 40, 46, 17, 10, 16, 25, 30, 0, 3>>)
Adjusting(c4, ra, n) == expect([c4 |-> c4, ra |-> ra, c5 |-> n])
test_type1_adjustment_c4_c9_c5_worked_example ==
    adjustment_example(1) \o <<reset, run_characters(44 * 64)>>
    \o FlattenSeq([i \in 1..16 |->
         <<Adjusting(11 + (i - 1) \div 4, (i - 1) % 4, i - 1), run_characters(64)>>])
    \o <<Adjusting(0, 0, 0)>>
test_type0_adjustment_c4_frozen_c9_counts_to_r5 ==
    adjustment_example(0) \o <<reset, run_characters(44 * 64)>>
    \o FlattenSeq([i \in 1..16 |-> <<At(11, i - 1), run_characters(64)>>]) \o <<At(0, 0)>>

(* R5 set to 0 while type 1 adjusts: C5 loops, C4 still resets at R4. *)
test_type1_r5_zero_mid_adjustment_keeps_counting ==
    LET C5(n) == expect([c5 |-> n]) IN
    adjustment_example(1)
    \o start(32, 80) \o <<reset, run_characters(44 * 64),
         expect([c4 |-> 11, c5 |-> 0]), run_characters(2 * 64), C5(2), write_register(5, 0),
         run_characters(13 * 64), Adjusting(14, 3, 15), run_characters(64), Adjusting(15, 0, 16),
         run_characters(15 * 64), Adjusting(18, 3, 31), run_characters(64), Adjusting(19, 0, 0),
         write_register(9, 2), run_characters(360 * 64), Adjusting(0, 0, 8),
         expect([adj |-> TRUE, ma |-> Word(32, 81)]), write_register(5, 11),
         run_characters(2 * 64), C5(10), run_characters(64), Adjusting(0, 0, 0),
         expect([adj |-> FALSE])>>
run_type1_r5_zero_to_q20_reset(r7) ==
    adjustment_example(1)
    \o <<write_register(7, r7), reset, run_characters(44 * 64), run_characters(2 * 64),
         write_register(5, 0), run_characters(30 * 64), Adjusting(19, 0, 0),
         write_register(9, 2), run_characters(360 * 64), Adjusting(0, 0, 8),
         expect([adj |-> TRUE])>>
test_type1_r5_zero_r4_reset_fires_vsync_at_r7_zero ==
    run_type1_r5_zero_to_q20_reset(0) \o <<High>>
test_type1_r5_zero_r4_reset_does_not_fire_r4_plus_one_vsync ==
    run_type1_r5_zero_to_q20_reset(11) \o <<Low>>

(* The rows of the adjustment that take R12 and R13 again. *)
test_type1_r4_zero_adjustment_vma_reloads_on_c4_one ==
    Program(1, <<63, 40, 46, 17, 0, 8, 25, 30, 0, 3>>)
    \o start(18, 52) \o <<reset, run_characters(12 * 64),
         MA(Word(18, 52)), run_characters(3 * 64), At(0, 3), run_characters(50)>>
    \o write_r12_r13_character(32, 80)
    \o <<run_characters(13), At(1, 0), MA(Word(32, 80)), run_characters(10)>>
    \o write_r12_r13_character(48, 120)
    \o <<run_characters(53), At(1, 1), MA(Word(48, 120)), run_characters(2 * 64), At(1, 3),
         run_characters(50)>>
    \o write_r12_r13_character(1, 17)
    \o <<run_characters(13), At(2, 0), MA(Word(48, 160))>>

test_type1_adjustment_end_does_not_fire_unreached_r7 ==
    Program(1, <<7, 4, 6, 17, 1, 2, 2, 4, 0, 0>>) \o <<reset, vsync_within(4 * 8 + 8, FALSE)>>

prepare_type1_a2_exact_r0_write(target_register, value) ==
    Program(1, <<7, 4, 6, 17, 0, 2, 2, 20, 0, 1>>)
    \o start(18, 52) \o <<reset, run_characters(4 * 8),
         MA(Word(18, 52)), run_characters(8 + 4), write_register(12, 32),
         write_register(13, 80), select_register, run_characters(2),
         write_at_clken(target_register, value), Counts(TRUE, 1, 0)>>
test_type1_r4_write_at_adjustment_entry_suppresses_r12_reload ==
    prepare_type1_a2_exact_r0_write(4, 1) \o <<MA(Word(18, 56))>>
test_type1_r9_write_at_adjustment_entry_keeps_r12_reload ==
    prepare_type1_a2_exact_r0_write(9, 2) \o <<MA(Word(32, 80))>>

OverflowTests ==
  <<test_type1_c9_counts_through_31_and_wraps, test_type1_c9_zero_limit_overflows,
    test_type0_c9_counts_through_31_and_wraps, test_type0_c9_zero_limit_overflows,
    test_type1_c4_counts_through_127_and_wraps, test_type0_c4_counts_through_127_and_wraps,
    test_type1_c4_zero_limit_overflows, test_type0_c4_zero_limit_overflows,
    test_type0_rlal_zero_limit_arms_last_line, test_type0_rlal_single_zero_limit_does_not_arm,
    test_type0_rlal_first_line_delayed_arming, test_type0_rlal_from_the_genuine_last_line,
    test_type0_r9_write_before_r1_advances_next_row_ma,
    test_type1_adjustment_c4_c9_c5_worked_example,
    test_type0_adjustment_c4_frozen_c9_counts_to_r5,
    test_type1_r5_zero_mid_adjustment_keeps_counting,
    test_type1_r5_zero_r4_reset_fires_vsync_at_r7_zero,
    test_type1_r5_zero_r4_reset_does_not_fire_r4_plus_one_vsync,
    test_type1_r4_zero_adjustment_vma_reloads_on_c4_one,
    test_type1_adjustment_end_does_not_fire_unreached_r7,
    test_type1_r4_write_at_adjustment_entry_suppresses_r12_reload,
    test_type1_r9_write_at_adjustment_entry_keeps_r12_reload>>
  \o test_identification(0) \o test_identification(1)
-----------------------------------------------------------------------------
(* The bench's tests of the video pointer: on which lines R12 and R13 are
   taken again, frame by frame on type 0 and line by line in row 0 of type 1,
   down to lines of one character; and the line of two characters that type 0
   widens on its last character. *)
normal_frame(type) ==
    Program(type, <<63, 40, 46, 17, 38, 0, 25, 30, 0, 7>>) \o start(18, 52)
Loaded(high, low) == MA(Word(high, low))
(* In character 10 of the line, R12 and R13 are written; then its end. *)
rewritten(high, low) ==
    <<run_characters(10)>> \o write_r12_r13_character(high, low) \o <<run_characters(53)>>

test_type0_normal_frame_reloads_at_frame_start_only ==
    normal_frame(0) \o <<reset, run_characters(312 * 64), Loaded(18, 52)>>
    \o rewritten(32, 80) \o <<Loaded(18, 52), run_characters(311 * 64), Loaded(32, 80)>>
test_type1_normal_frame_reloads_every_line_of_row0 ==
    normal_frame(1) \o <<reset, run_characters(312 * 64), Loaded(18, 52)>>
    \o rewritten(32, 80) \o <<Loaded(32, 80)>>
    \o rewritten(48, 120) \o <<Loaded(48, 120), run_characters(5 * 64), Loaded(48, 120),
                               run_characters(50)>>
    \o write_r12_r13_character(1, 17) \o <<run_characters(13), Loaded(48, 160)>>

four_characters(type) ==
    Program(type, <<3, 2, 2, 17, 0, 0, 1, 1, 0, 0>>) \o start(16, 32)
    \o <<reset, run_characters(4), Loaded(16, 32), run_characters(1)>>
    \o write_r13_character(69) \o <<run_characters(2), Loaded(16, 69), run_characters(1)>>
    \o write_r12_r13_character(35, 103)
    \o <<run_characters(2), Loaded(35, 103), run_characters(4), Loaded(35, 103)>>

two_characters(type) ==
    Program(type, <<1, 1, 1, 17, 0, 0, 1, 1, 0, 0>>) \o start(17, 0) \o <<reset>>
test_type0_r0_one_reloads_every_second_line ==
    two_characters(0) \o <<run_characters(4), C4(0), Loaded(17, 0)>>
    \o write_r12_r13_character(34, 51)
    \o <<run_characters(1), C4(1), Loaded(17, 1), run_characters(2), C4(0), Loaded(34, 51)>>
    \o write_r12_r13_character(51, 68)
    \o <<run_characters(1), C4(1), Loaded(34, 52), run_characters(2), C4(0), Loaded(51, 68)>>
test_type1_r0_one_reloads_every_line ==
    two_characters(1) \o <<run_characters(2), C4(0), Loaded(17, 0)>>
    \o write_r12_r13_character(34, 51) \o <<run_characters(1), C4(0), Loaded(34, 51)>>
    \o write_r12_r13_character(51, 68) \o <<run_characters(1), C4(0), Loaded(51, 68)>>
    \o write_r12_r13_character(5, 103) \o <<run_characters(1), C4(0), Loaded(5, 103)>>

one_character(type) ==
    Program(type, <<0, 0, 0, 17, 0, 0, 1, 1, 0, 0>>) \o start(18, 52) \o <<reset>>
test_type0_r0_zero_ignores_reload_after_hiccup ==
    one_character(0)
    \o <<MA(0), run_characters(1), C4(1), MA(0), run_characters(1), C4(1), MA(0)>>
    \o write_r12_r13_character(32, 85) \o <<run_characters(20), C4(1), MA(0)>>
    \o write_r12_r13_character(58, 188) \o <<run_characters(20), MA(0)>>
test_type0_r0_zero_live_entry_reloads_vma_then_freezes ==
    Program(0, <<7, 0, 0, 17, 0, 0, 1, 1, 0, 0>>) \o start(18, 52)
    \o <<select_register, reset, run_characters(7), write_at_clken(0, 0), Loaded(18, 52),
         run_characters(1), At(1, 0), Loaded(18, 52), run_characters(1), C4(1), Loaded(18, 52)>>
    \o write_r12_r13_character(32, 85) \o <<run_characters(19), C4(1), Loaded(18, 52)>>
    \o write_r12_r13_character(58, 188) \o <<run_characters(20), Loaded(18, 52)>>
test_type1_r0_zero_reloads_every_line ==
    LET Line(high, low) == <<run_characters(1), C4(0), Loaded(high, low)>> IN
    one_character(1) \o <<run_characters(1), Loaded(18, 52)>>
    \o write_r13_character(53) \o Line(18, 53) \o write_r13_character(54) \o Line(18, 54)
    \o write_r12_r13_character(37, 128) \o Line(37, 128)
    \o <<run_characters(5), C4(0), Loaded(37, 128)>>

test_type0_r0_three_reloads_every_line == four_characters(0)
test_type1_r0_three_reloads_every_line == four_characters(1)

(* The write that falls on the very edge of the reload. *)
test_type1_r12_write_on_row0_boundary_edge_reloads ==
    normal_frame(1)
    \o <<select_register, reset, run_characters(312 * 64 + 63), Loaded(18, 52 + 63),
         write_at_clken(12, 48), Loaded(48, 52), run_characters(64), Loaded(48, 52),
         select_register, run_characters(9), write_at_clken(13, 120), run_characters(54),
         Loaded(48, 120), select_register, run_characters(309 * 64 - 1),
         write_at_clken(12, 21), Loaded(21, 120)>>
test_type0_r12_write_on_frame_origin_edge_is_missed ==
    normal_frame(0)
    \o <<select_register, reset, run_characters(311 * 64 + 63), write_at_clken(12, 48),
         Loaded(18, 52), run_characters(312 * 64), Loaded(48, 52)>>

t35_type0_r0_one_c0_1_widening_persists_adjustment ==
    LET last_line ==
          Fixture(0, <<1, 1, 1, 17, 2, 0, 2, 1, 0, 3>>)
          \o <<run_characters(11 * 2), At(2, 3), expect([c0 |-> 0])>>
    IN last_line \o <<write_at_clken(0, 7), run_characters(8), Counts(FALSE, 0, 0)>>
       \o last_line
       \o <<run_characters(1), expect([c0 |-> 1]), write_at_clken(0, 7), run_characters(1),
            expect([c0 |-> 2]), Counts(TRUE, 3, 3), run_characters(6)>>
       \o FlattenSeq([i \in 1..28 |-> <<Counts(TRUE, 3, i + 3), run_characters(8)>>])
       \o <<Counts(FALSE, 0, 0)>>

PointerTests ==
  <<test_type0_normal_frame_reloads_at_frame_start_only,
    test_type1_normal_frame_reloads_every_line_of_row0,
    test_type0_r0_three_reloads_every_line, test_type1_r0_three_reloads_every_line,
    test_type0_r0_one_reloads_every_second_line, test_type1_r0_one_reloads_every_line,
    test_type0_r0_zero_ignores_reload_after_hiccup,
    test_type0_r0_zero_live_entry_reloads_vma_then_freezes,
    test_type1_r0_zero_reloads_every_line,
    test_type1_r12_write_on_row0_boundary_edge_reloads,
    test_type0_r12_write_on_frame_origin_edge_is_missed,
    t35_type0_r0_one_c0_1_widening_persists_adjustment>>

-----------------------------------------------------------------------------
(* The bench's tests of "rupture for dummies" on type 1: which write of R5 or
   R0 on the last character of a line arms it, what it does to the video
   pointer, and what ends it.  The parity of C9, which matters to interlace
   only, is not looked at, and the test of a retired parity management ends
   before it switches interlace on. *)
kRfdRegisters == <<7, 4, 6, 17, 1, 0, 2, 20, 0, 1>>
rfd_fixture(registers) ==
    Program(1, registers) \o start(18, 52) \o <<select_register, reset>>
With9(r4, r9) == [kRfdRegisters EXCEPT ![5] = r4, ![10] = r9]

test_type1_rfd_write_away_from_r0_stays_unarmed ==
    Fixture(1, kRfdRegisters) \o <<run_characters(3), write_at_clken(5, 1), Rfd(FALSE, FALSE)>>

test_type1_rfd_alternates_save_by_frame_parity ==
    rfd_fixture(kRfdRegisters)
    \o <<run_characters(64), run_characters(7), write_at_clken(5, 1), Rfd(TRUE, TRUE),
         MA(Word(18, 52)), write_register(5, 0)>>
    \o start(32, 80)
    \o <<run_characters(8), At(1, 0), MA(Word(32, 80)), Rfd(TRUE, TRUE), run_characters(16),
         At(0, 0), Rfd(TRUE, FALSE), run_characters(13), Rfd(FALSE, FALSE)>>

test_type1_rfd_r1_gt_r0_bare_c9_disarms ==
    Fixture(1, [kRfdRegisters EXCEPT ![1] = 3, ![2] = 5])
    \o <<run_characters(3), write_at_clken(5, 1), Rfd(TRUE, TRUE), run_clock_ticks(1),
         Rfd(FALSE, TRUE)>>

test_type1_rfd_final_line_write_enters_adjustment ==
    rfd_fixture(With9(0, 0))
    \o <<run_characters(7), write_at_clken(5, 1), Counts(TRUE, 1, 0), expect([c5 |-> 0]),
         MA(Word(18, 52)), Rfd(FALSE, TRUE)>>

test_type1_rfd_trigger_on_c9_eq_r9_disables_vma_source ==
    rfd_fixture(With9(3, 1))
    \o <<run_characters(128), run_characters(7), At(0, 0), write_at_clken(5, 1),
         Rfd(TRUE, TRUE), MA(Word(18, 52)), write_register(5, 0)>>
    \o start(32, 80) \o <<run_characters(8), At(1, 0), MA(Word(32, 80))>>
    \o start(48, 112)
    \o <<run_characters(8 + 7), At(1, 1), Rfd(TRUE, TRUE), select_register, write_at_clken(5, 1),
         Rfd(FALSE, TRUE), write_register(5, 0), run_characters(1), At(2, 0), MA(Word(18, 69)),
         run_characters(8), At(2, 1), MA(Word(18, 69))>>

test_type1_rfd_successful_save_retires_parity_management ==
    Program(1, <<63, 40, 46, 17, 2, 0, 2, 127, 0, 3>>) \o start(16, 0)
    \o <<reset, run_characters(12 * 64), expect([parity |-> TRUE]), select_register,
         wait_position(0, 0, 63), write_at_clken(5, 1), write_register(5, 0), Rfd(TRUE, TRUE),
         wait_position(0, 3, 41), expect([saved |-> Word(16, 40)]), Rfd(FALSE, FALSE)>>
    \o start(48, 112) \o <<wait_position(1, 0, 0), MA(Word(16, 40))>>

(* R0 widened on the last character of the last line opens a window: what
   C9=R9 and C4=R4 are at the later end of the line decides. *)
widened(frames) ==
    rfd_fixture(kRfdRegisters)
    \o <<run_characters(32 * frames), run_characters(24), At(1, 1), run_characters(7),
         write_at_clken(0, 9)>>
test_type1_rfd_r0_widen_without_cancel_ends_normally ==
    widened(0)
    \o <<Window(TRUE), Rfd(FALSE, FALSE), run_characters(2), At(0, 0), MA(Word(18, 52)),
         Window(FALSE), Rfd(FALSE, FALSE)>>
test_type1_rfd_r0_widen_r9_cancel_arms_at_extended_end ==
    widened(2)
    \o <<write_register(9, 3), run_characters(2), Rfd(TRUE, TRUE), Window(FALSE),
         MA(Word(18, 52)), At(1, 2), run_characters(20), At(0, 0), MA(Word(18, 52)),
         Rfd(TRUE, FALSE)>>
test_type1_rfd_r0_widen_r4_cancel_arms_and_advances_c4 ==
    widened(2)
    \o <<write_register(4, 2), run_characters(2), Rfd(TRUE, TRUE), Window(FALSE), At(2, 0),
         MA(Word(18, 52)), run_characters(20), expect([c4 |-> 0]), Rfd(TRUE, FALSE)>>
test_type1_rfd_r0_widen_r4_cancel_odd_frame_does_not_arm ==
    widened(1)
    \o <<write_register(4, 2), run_characters(2), Window(FALSE), Rfd(FALSE, FALSE), At(2, 0),
         MA(Word(18, 60))>>
test_type1_rfd_r0_widen_restored_condition_does_not_arm ==
    widened(0)
    \o <<write_register(9, 0), write_register(9, 1), run_characters(2), Window(FALSE),
         Rfd(FALSE, FALSE), At(0, 0), MA(Word(18, 52))>>
test_type1_rfd_equal_r0_write_opens_no_window ==
    Fixture(1, kRfdRegisters)
    \o <<run_characters(24), run_characters(7), write_at_clken(0, 7), Window(FALSE),
         write_register(9, 3), run_characters(8), Rfd(FALSE, FALSE), expect([c4 |-> 0])>>
test_type1_rfd_r0_widen_off_last_line_never_arms ==
    Fixture(1, kRfdRegisters)
    \o <<run_characters(15), At(0, 1), write_at_clken(0, 9), Window(FALSE), At(1, 0),
         write_register(4, 2), run_characters(10), Rfd(FALSE, FALSE), expect([c4 |-> 1])>>
test_type1_rfd_r0_widen_line_gate_never_arms ==
    Fixture(1, kRfdRegisters)
    \o <<run_characters(23), At(1, 0), write_at_clken(0, 9), Window(FALSE), At(1, 1),
         write_register(9, 3), run_characters(10), Rfd(FALSE, FALSE), At(1, 2)>>
test_type1_rfd_r0_window_does_not_survive_type_round_trip ==
    Fixture(1, kRfdRegisters)
    \o <<run_characters(24), run_characters(7), write_at_clken(0, 9), Window(TRUE),
         write_register(9, 3), run_clock_ticks(2), set_crtc_type(0), run_clock_ticks(1),
         Window(FALSE), Rfd(FALSE, FALSE), set_crtc_type(1), run_characters(2),
         Rfd(FALSE, FALSE), At(1, 2)>>

test_type1_rfd_even_r9_parity_c9_odd_still_suppresses_save ==
    LET even == expect([parity |-> FALSE]) IN
    rfd_fixture(With9(3, 2))
    \o <<run_characters(7), expect([ra |-> 0]), write_at_clken(5, 1), Rfd(TRUE, TRUE),
         MA(Word(18, 52)), write_register(5, 0)>>
    \o start(32, 80) \o <<wait_position(1, 0, 0), MA(Word(32, 80)), even>>
    \o start(48, 112)
    \o <<wait_position(1, 2, 5), even, wait_position(2, 0, 0), MA(Word(48, 112)), Rfd(TRUE, TRUE)>>

RfdTests ==
  <<test_type1_rfd_write_away_from_r0_stays_unarmed,
    test_type1_rfd_alternates_save_by_frame_parity, test_type1_rfd_r1_gt_r0_bare_c9_disarms,
    test_type1_rfd_final_line_write_enters_adjustment,
    test_type1_rfd_trigger_on_c9_eq_r9_disables_vma_source,
    test_type1_rfd_successful_save_retires_parity_management,
    test_type1_rfd_r0_widen_without_cancel_ends_normally,
    test_type1_rfd_r0_widen_r9_cancel_arms_at_extended_end,
    test_type1_rfd_r0_widen_r4_cancel_arms_and_advances_c4,
    test_type1_rfd_r0_widen_r4_cancel_odd_frame_does_not_arm,
    test_type1_rfd_r0_widen_restored_condition_does_not_arm,
    test_type1_rfd_equal_r0_write_opens_no_window,
    test_type1_rfd_r0_widen_off_last_line_never_arms,
    test_type1_rfd_r0_widen_line_gate_never_arms,
    test_type1_rfd_r0_window_does_not_survive_type_round_trip,
    test_type1_rfd_even_r9_parity_c9_odd_still_suppresses_save>>

-----------------------------------------------------------------------------
(* The bench's tests of the vertical sync: writes of R7 at each C0, the width
   of a pulse, the comparison consumed once, the C0=2 qualification of type 0
   and the latches that a switch or a snapshot clears. *)
kF3LineCharacters == 8
kF3MidlineHcc == 3
kVsyncLines == 16
to_boundary == run_characters(kF3LineCharacters - 1 - kF3MidlineHcc)
a_line == run_characters(kF3LineCharacters)

configure_f3_midline_fixture(type, width) ==
    Program(type, <<7, 4, 5, 16 * width + 1, 3, 0, 3, 1, 0, 31>>) \o <<select_register, reset>>
write_r7_zero_at_hcc(c) ==
    <<run_characters(c), Low, write_at_clken(7, 0), run_clock_ticks(1)>>
midline(type, width) ==
    configure_f3_midline_fixture(type, width) \o write_r7_zero_at_hcc(kF3MidlineHcc) \o <<High>>

test_type0_r7_hcc_blocked(c) ==
    configure_f3_midline_fixture(0, 2) \o write_r7_zero_at_hcc(c)
    \o <<Low, run_characters(2 * kF3LineCharacters), Low>>

test_type0_r7_midline_duration_extended ==
    midline(0, 2) \o <<to_boundary, High, a_line, High, a_line, Low>>

test_type1_r7_early_hcc_immediate(c) ==
    configure_f3_midline_fixture(1, 2) \o write_r7_zero_at_hcc(c) \o <<High>>

test_type1_r7_midline_partial_counts ==
    midline(1, 2)
    \o <<to_boundary, run_characters((kVsyncLines - 2) * kF3LineCharacters), High, a_line, Low>>

configure_vsync_reentrancy_fixture(type, vertical_total, max_scanline) ==
    Program(type, <<3, 2, 2, 1, vertical_total, 0, 1, 0, 0, max_scanline>>)
    \o <<select_register, reset>>

test_r7_level_write_and_active_rearm(type) ==
    LET pulse == run_characters(kVsyncLines * 4 - 2)
        held(v) == hold_at_clken(7, v, 2 * kClockTicksPerCharacter)
    IN configure_vsync_reentrancy_fixture(type, 0, 0)
       \o <<run_characters(4), High, held(0), High, pulse, Low, run_characters(8), Low>>
       \o configure_vsync_reentrancy_fixture(type, 1, 0)
       \o <<run_characters(8), High, held(1), High, pulse, Low, run_characters(4), High>>

test_type0_dynamic_vsync_width_extremes(width) ==
    LET lines == IF width = 0 THEN 16 ELSE width
    IN midline(0, width)
       \o <<to_boundary, High, run_characters((lines - 1) * kF3LineCharacters), High, a_line, Low>>

test_type0_r7_c0_2_at_line_boundary ==
    Program(0, <<2, 1, 1, 17, 3, 0, 3, 1, 0, 31>>) \o <<select_register, reset>>
    \o write_r7_zero_at_hcc(2) \o <<High, run_characters(3), Low>>

Elapsed(n) == expect([raw_vsync |-> TRUE, elapsed |-> n])
test_b18_vsw_elapsed_counter ==
    LET half_line == run_characters(kF3LineCharacters \div 2)
        up_to(n, from, len) == FlattenSeq([i \in 1..n |->
            <<Elapsed((from + i) % kVsyncLines), run_characters(len)>>])
    IN midline(0, 2)
       \o <<Elapsed(0), to_boundary, half_line, Elapsed(0), a_line, Elapsed(1), a_line,
            expect([raw_vsync |-> FALSE])>>
       \o midline(1, 2) \o <<Elapsed(0), to_boundary, half_line>>
       \o up_to(kVsyncLines - 1, 0, kF3LineCharacters)
       \o <<expect([raw_vsync |-> FALSE]), write_at_clken(7, 1), run_characters(1),
            write_at_clken(7, 0), run_clock_ticks(1), Elapsed(0)>>
       \o FlattenSeq([t \in 1..2 |->
            configure_vsync_reentrancy_fixture(t - 1, 1, 7) \o <<run_characters(16 * 4 + 2)>>
            \o up_to(3 * kVsyncLines, -1, 4)])

test_type0_pending_skip_clears_on_type_roundtrip ==
    midline(0, 1)
    \o <<set_crtc_type(1), run_clock_ticks(1), set_crtc_type(0), to_boundary, Low>>

test_type0_pending_skip_clears_on_snapshot_load ==
    midline(0, 1)
    \o <<load_snapshot_registers(<<7, 4, 5, 17, 3, 0, 3, 0, 0, 31>>), to_boundary, Low>>

test_type0_vsync_requires_preceding_c0_2 ==
    Program(0, <<1, 1, 1, 17, 1, 0, 1, 1, 0, 0>>)
    \o <<reset, run_characters(2), expect([c4 |-> 1, vsync |-> FALSE]), run_characters(2), Low>>

configure_type0_dynamic_r0_vsync(target_r0) ==
    Program(0, <<3, 1, 1, 17, 2, 0, 2, 1, 0, 0>>)
    \o <<select_register, reset, run_characters(3), run_clock_ticks(1),
         expect([c4 |-> 1, c0 |-> 0]), write_now(0, target_r0)>>

test_type0_vsync_qualified_r0_zero_freezes_count ==
    configure_type0_dynamic_r0_vsync(0)
    \o <<High, run_characters(4), expect([c0 |-> 0, vsync |-> TRUE])>>

test_type0_vsync_qualified_r0_one_counts_two_characters ==
    configure_type0_dynamic_r0_vsync(1)
    \o <<High, run_characters(1), High, run_characters(1), Low>>

test_type0_vsync_blocked_comparison_is_consumed ==
    Program(0, <<1, 1, 1, 17, 2, 0, 2, 1, 0, 1>>)
    \o <<select_register, reset, run_characters(4), expect([c4 |-> 1, vsync |-> FALSE]),
         write_at_nclken(0, 7), select_register, run_to_c0(3), write_now(7, 1),
         run_clock_ticks(1), Low>>

test_vsync_compare_lock_and_rearm(type) ==
    configure_vsync_reentrancy_fixture(type, 0, 0)
    \o <<Low, run_characters(4), High, run_characters(kVsyncLines * 4), Low, run_characters(8),
         Low, write_at_clken(7, 1), run_characters(1), write_at_clken(7, 0),
         run_clock_ticks(1), High>>

test_vsync_reentrancy_bypass(type) ==
    configure_vsync_reentrancy_fixture(type, 1, 7)
    \o <<run_characters(15 * 4), Low, run_characters(4), High>>
    \o FlattenSeq([i \in 1..3 * 16 * 4 |-> <<run_characters(1), High>>])

VsyncTests ==
    <<test_type0_r7_hcc_blocked(0), test_type0_r7_hcc_blocked(1),
      test_type0_r7_midline_duration_extended, test_type1_r7_midline_partial_counts,
      test_type1_r7_early_hcc_immediate(0), test_type1_r7_early_hcc_immediate(1),
      test_type0_r7_c0_2_at_line_boundary, test_b18_vsw_elapsed_counter,
      test_type0_pending_skip_clears_on_type_roundtrip,
      test_type0_pending_skip_clears_on_snapshot_load,
      test_type0_vsync_requires_preceding_c0_2,
      test_type0_vsync_qualified_r0_zero_freezes_count,
      test_type0_vsync_qualified_r0_one_counts_two_characters,
      test_type0_vsync_blocked_comparison_is_consumed>>
    \o Types(test_r7_level_write_and_active_rearm) \o Types(test_vsync_compare_lock_and_rearm)
    \o Types(test_vsync_reentrancy_bypass)
    \o [i \in 1..3 |-> test_type0_dynamic_vsync_width_extremes(<<0, 1, 15>>[i])]

-----------------------------------------------------------------------------
AllTests == VsyncTests \o Type0Tests \o Type0EntryTests \o OverflowTests \o RfdTests
                \o PointerTests
=============================================================================
