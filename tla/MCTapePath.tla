----------------------------- MODULE MCTapePath -----------------------------
(* A tape of three bytes and one RAM cell the CPU reads and writes. *)
EXTENDS TapePath
MCFile == <<1, 0, 1>>
MCMain == {<<"ram", 0>>}
MCCells == MCMain \cup {<<"tape", n>> : n \in 0..2}
=============================================================================
