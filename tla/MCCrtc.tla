------------------------------- MODULE MCCrtc -------------------------------
EXTENDS Crtc

File(r0, r4, r5, r9, r7) ==
    [R0 |-> r0, R1 |-> 1, R3 |-> 2, R4 |-> r4, R5 |-> r5, R6 |-> 1, R7 |-> r7, R9 |-> r9,
     R12 |-> 0, R13 |-> 0]
MCPrograms == {File(3, 1, 0, 2, 1), File(2, 1, 1, 1, 0)}
MCValues == {[r |-> "R0", v |-> 0], [r |-> "R0", v |-> 1], [r |-> "R0", v |-> 2],
    [r |-> "R0", v |-> 3],
    [r |-> "R4", v |-> 0], [r |-> "R4", v |-> 1],
    [r |-> "R5", v |-> 0], [r |-> "R5", v |-> 1], [r |-> "R5", v |-> 2],
    [r |-> "R7", v |-> 0], [r |-> "R7", v |-> 1],
    [r |-> "R9", v |-> 0], [r |-> "R9", v |-> 1], [r |-> "R13", v |-> 1]}
=============================================================================
