----------------------------- MODULE MCSoundBus -----------------------------
EXTENDS SoundBus

LoadOf(r, v) == [op |-> {}, n |-> 0, reg |-> r, data |-> v]
MCList == [a \in 0..1 |-> LoadOf(1, a + 2)]
=============================================================================
