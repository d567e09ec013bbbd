---------------------------- MODULE MCCprLoader ----------------------------
(* Two pages of two bytes.  Files: up to two chunks, well formed and not, with
   the RIFF length right, too long by less and by more than a chunk header, and
   too short; complete, cut short and too long. *)
EXTENDS CprLoader

MCByte == 0..255

U32(n) == <<n % 256, n \div 256, 0, 0>>
Pad(data) == IF Len(data) % 2 = 1 THEN data \o <<9>> ELSE data
Chunk(name, data) == name \o U32(Len(data)) \o Pad(data)
Cb(c, d1, d0) == <<c, 66, 48 + d1, 48 + d0>>
Block0 == Chunk(Cb(67, 0, 0), <<1, 2>>)
Block1 == Chunk(Cb(99, 0, 1), <<2>>)
Again0 == Chunk(Cb(67, 0, 0), <<2>>)
Meta == Chunk(<<76, 73, 83, 84>>, <<1>>)
Empty == Chunk(Cb(67, 0, 0), <<>>)
Wide == Chunk(Cb(67, 0, 2), <<1>>)
Long == Chunk(Cb(67, 0, 0), <<1, 1, 1>>)
Huge == Cb(67, 0, 0) \o <<2, 0, 0, 64>> \o <<1, 1>>

Riff(len, body) == <<82, 73, 70, 70>> \o U32(len) \o body
Form == <<65, 109, 83, 33>>
Whole(body, more) == Riff(4 + Len(body) + more, Form \o body)

Bodies == {<<>>, Block0, Meta, Empty, Wide, Long, Huge, Block0 \o Block1,
           Block0 \o Again0, Again0 \o Block0, Meta \o Block1, Block1 \o Empty,
           Block0 \o Wide, Empty \o Meta}
(* The last byte of an even block, with one to seven bytes declared after it, is
   the case of the run CprRemnant. *)
EndInByte == {Block0, Block0 \o Again0, Again0 \o Block0}
Lengths(b) == IF b \in EndInByte THEN {0, 8} ELSE {0, 2}
Cut(f, n) == SubSeq(f, 1, Len(f) - n)

MCOwnFiles ==
    UNION {{Whole(b, more) : more \in Lengths(b)} : b \in Bodies}
      \cup {Whole(b, -1) : b \in {Block0, Block1}}
      \cup {Cut(Whole(b, more), n) : b \in {Block0, Block0 \o Block1},
                                     more \in {0, 8}, n \in {1, 9}}
      \cup {Whole(Block0, 0) \o <<7>>, Cut(Whole(<<>>, 0), 5),
            Riff(3, Form), <<82, 73, 70, 71>>,
            <<82, 73, 70, 70>> \o U32(14) \o <<65, 77, 83, 33>> \o Block0 \o <<1>>,
            <<82, 73, 70, 70>> \o U32(14) \o <<65, 77, 83, 32>> \o Block0}
(* A file within a chunk of another. *)
Nested == Whole(Chunk(<<76, 73, 83, 84>>, Whole(Block0, 0)), 0)
MCResetFiles == {Whole(Block1, 8), Nested}
MCBusyFiles == {Whole(Block1 \o Again0, 8)}
MCFiles == MCOwnFiles \cup MCResetFiles \cup MCBusyFiles
MCRemnantFiles == {Whole(b, 2) : b \in EndInByte}
=============================================================================
