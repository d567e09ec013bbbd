---------------------------- MODULE MCCartPorts ----------------------------
(* One cell of RAM and of the cartridge for the two clients; two bytes of one
   word of RAM for the video cache. *)
EXTENDS CartPorts
MCMain == {<<"ram", 0>>}
MCCart == {<<"cart", 0>>}
MCCells == MCMain \cup MCCart
=============================================================================
