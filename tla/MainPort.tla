------------------------------ MODULE MainPort ------------------------------
(***************************************************************************)
(* The main port of the SDRAM as Amstrad.sv drives it: the CPU's memory    *)
(* read and write strobes, or boot_wr while the machine is in reset.  The  *)
(* strobes change with the CPU enables, which are aligned to the slots, so *)
(* a rise is first seen on the arbitration edge; address and data are held *)
(* until the strobe falls, at least one slot later.                        *)
(***************************************************************************)
EXTENDS SdramController

CONSTANT MainCells

ASSUME MainAssumption == MainCells # {} /\ MainCells \subseteq Cells

VARIABLES
    main,           \* strobe, addr, din
    main_done       \* a whole slot has passed since the strobe rose

mainVars == <<main, main_done>>

MainInit ==
    /\ main = [strobe |-> "none", addr |-> CHOOSE c \in MainCells : TRUE,
               din |-> CHOOSE b \in Byte : TRUE]
    /\ main_done = FALSE

(* The machine is in reset until the SDRAM is up. *)
MainRises ==
    /\ q = 7 /\ main.strobe = "none" /\ mode = "NORMAL" /\ reset = 0 /\ ~init_old
    /\ \/ main' \in [strobe : {"rd"}, addr : MainCells, din : {main.din}]
       \/ main' \in [strobe : {"wr"}, addr : MainCells, din : Byte]
    /\ main_done' = FALSE
MainStays ==
    /\ main_done' = (main.strobe # "none" /\ (main_done \/ q = 7))
    /\ UNCHANGED main
MainFalls ==
    /\ q = 7 /\ main.strobe # "none"
    /\ main' = [main EXCEPT !.strobe = "none"] /\ main_done' = FALSE
MainClock == MainRises \/ MainStays \/ MainFalls

MainTypeOK ==
    /\ main \in [strobe : {"none", "rd", "wr"}, addr : MainCells, din : Byte]
    /\ main_done \in BOOLEAN

(* The main port is never made to wait: a read is answered and a write is in
   memory one slot after its strobe rose, whoever else wanted that slot. *)
MainServed ==
    main_done => IF main.strobe = "rd" THEN ram_dout = mem[main.addr]
                 ELSE mem[main.addr] = main.din
=============================================================================
