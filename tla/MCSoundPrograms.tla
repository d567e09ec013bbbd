-------------------------- MODULE MCSoundPrograms --------------------------
EXTENDS SoundPrograms

Words(w0, w1, w2, w3) == [a \in 0..3 |-> CASE a = 0 -> w0 [] a = 1 -> w1 [] a = 2 -> w2 [] OTHER -> w3]
(* REPEAT, PAUSE, LOOP with INT, REPEAT with STOP; PAUSE with REPEAT, the
   reserved REPEAT with LOOP, LOOP with INT and STOP, PAUSE 0. *)
MCLists == {
    Words(Op({"repeat"}, 1), Op({"pause"}, 1), Op({"control"}, 17),
          Op({"repeat", "control"}, 33)),
    Words(Op({"pause", "repeat"}, 1), Op({"repeat", "control"}, 17), Op({"control"}, 49),
          Op({"pause"}, 0))}
MCStarts == {
    [hi |-> [c \in Channels |-> c % 2], lo |-> [c \in Channels |-> 0],
     ppr |-> [c \in Channels |-> c % 2], ena |-> Channels]}
MCDcsrWrites == {
    WriteDcsr(Channels, {}), WriteDcsr({}, Channels),
    WriteDcsr({Min(Channels)}, {Max(Channels)})}
MCSnapshots == {
    [hi |-> [c \in Channels |-> 0], lo |-> [c \in Channels |-> 1], ena |-> Channels,
     flags |-> {Max(Channels)}, ppr |-> [c \in Channels |-> 1], hsync |-> h,
     chan |-> [c \in Channels |-> [sar |-> 0, pause |-> c % 2, presc |-> 0, loop |-> 1,
                                   loop_addr |-> 2]]] : h \in BOOLEAN}
=============================================================================
