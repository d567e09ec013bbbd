----------------------------- MODULE AtomicImage -----------------------------
(***************************************************************************)
(* What the cartridge memory promises its readers: at any time there is    *)
(* either no image or one complete image, an image is replaced only after  *)
(* it was withdrawn, and what appears is exactly what one loader session   *)
(* put together (header comment of rtl/plus/plus_cartridge_memory.v).      *)
(***************************************************************************)
CONSTANTS Address, Contents, Blank, NoImage

VARIABLES
    visible,    \* the published image, or NoImage
    staged      \* what the session has put together so far

Init == visible = NoImage /\ staged \in [Address -> Contents]

Withdraw == visible' = NoImage /\ UNCHANGED staged

Restart == visible' = NoImage /\ staged' = [a \in Address |-> Blank]

Put == /\ visible = NoImage /\ visible' = NoImage
       /\ \E a \in Address, c \in Contents : staged' = [staged EXCEPT ![a] = c]

Appear == visible = NoImage /\ visible' = staged /\ UNCHANGED staged

Next == Withdraw \/ Restart \/ Put \/ Appear

Spec == Init /\ [][Next]_<<visible, staged>>
=============================================================================
