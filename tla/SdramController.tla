--------------------------- MODULE SdramController ---------------------------
(***************************************************************************)
(* rtl/sdram.v: the one SDRAM behind every memory client.  A slot is eight *)
(* clocks; the client is chosen on the edge q = 0, the row is opened at 1, *)
(* the column at 3, and data and acknowledges come at 6 and 7.  Nothing    *)
(* happens on 2, 4 and 5, which are merged with their successors.  q is    *)
(* locked to clkref, whose rising edge is seen on q = 7.                   *)
(*                                                                         *)
(* Every action is one clk edge; "in" holds the sampled ports.  An address *)
(* is <<bank, n>>; two addresses share a 16-bit word when n \div 2 agrees. *)
(***************************************************************************)
EXTENDS Integers

CONSTANTS
    Cells,          \* the addresses there are
    Byte,
    GrantLimit,     \* 32: cartridge slots before a refresh is due
    ResetSlots, PrechargeAt, LoadModeAt     \* 31, 14, 3

ASSUME ControllerAssumption ==
    /\ Byte # {} /\ GrantLimit \in Nat \ {0}
    /\ LoadModeAt \in Nat \ {0} /\ PrechargeAt \in Nat /\ ResetSlots \in Nat
    /\ LoadModeAt < PrechargeAt /\ PrechargeAt < ResetSlots

VARIABLES
    q,
    client,         \* whose slot it is: ram_req, vram_req, tape_req, cart_active
    wr, a, data,    \* the latched transaction; data is cart_/tape_write_data
    old_rd, old_we,
    cached,         \* the word in vram_dout, or NoWord (vram_cached_*)
    cart_grants_since_refresh, refresh_due,
    cart_grant, cart_ack, tape_wr_ack, tape_rd_ack,
    ram_dout, cart_dout, tape_dout, vram_dout,
    mode, reset, init_old,
    chip, mem       \* the SDRAM chip: its state and contents

slotVars == <<client, wr, a, data>>
refreshVars == <<cart_grants_since_refresh, refresh_due>>
outVars == <<cart_ack, tape_wr_ack, tape_rd_ack, ram_dout, cart_dout, tape_dout, vram_dout>>
controllerVars == <<q, slotVars, old_rd, old_we, cached, refreshVars, cart_grant,
                    outVars, mode, reset, init_old, chip, mem>>

Word(addr) == <<addr[1], addr[2] \div 2>>
NoWord == <<"none", 0>>
WordData(word) == [addr \in {c \in Cells : Word(c) = word} |-> mem[addr]]

ControllerTypeOK ==
    /\ q \in {0, 1, 3, 6, 7}
    /\ client \in {"none", "main", "cart", "tape", "video"}
    /\ {wr, old_rd, old_we, refresh_due, init_old} \subseteq BOOLEAN
    /\ {cart_grant, cart_ack, tape_wr_ack, tape_rd_ack} \subseteq BOOLEAN
    /\ a \in Cells /\ data \in Byte /\ mem \in [Cells -> Byte]
    /\ cart_grants_since_refresh \in 0..GrantLimit
    /\ reset \in 0..ResetSlots
    /\ mode \in {"RESET", "PRE", "LDM", "NORMAL"}
    /\ chip \in {"off", "precharged", "ready"}

(* After configuration; the chip holds anything. *)
ControllerInit ==
    /\ q = 0 /\ client = "none" /\ wr = FALSE
    /\ a = CHOOSE c \in Cells : TRUE
    /\ data = CHOOSE b \in Byte : TRUE
    /\ old_rd = FALSE /\ old_we = FALSE /\ cached = NoWord
    /\ cart_grants_since_refresh = 0 /\ refresh_due = FALSE
    /\ cart_grant = FALSE /\ cart_ack = FALSE
    /\ tape_wr_ack = FALSE /\ tape_rd_ack = FALSE
    /\ ram_dout = data /\ cart_dout = data /\ tape_dout = data /\ vram_dout = <<>>
    /\ mode = "RESET" /\ reset = ResetSlots /\ init_old = FALSE
    /\ chip = "off" /\ mem \in [Cells -> Byte]

-----------------------------------------------------------------------------
(* Fault: the acknowledge comes with the main port's data. *)
AckEdgeLate == q = 7
AckEdge == q = 6
(* Assigned on every edge.  Cartridge and tape-write requests are acknowledged
   with the read data, in time for the next arbitration. *)
Sample(in) ==
    /\ old_rd' = in.oe /\ old_we' = in.we /\ init_old' = in.init
    /\ cart_ack' = (AckEdge /\ client = "cart")
    /\ tape_wr_ack' = (AckEdge /\ client = "tape" /\ wr)

(* The power-up sequence counts slots: precharge, load mode, normal. *)
Sequence(in) ==
    IF init_old /\ ~in.init THEN reset' = ResetSlots /\ UNCHANGED mode
    ELSE IF q # 7 THEN UNCHANGED <<reset, mode>>
    ELSE IF reset = 0 THEN mode' = "NORMAL" /\ UNCHANGED reset
    ELSE /\ reset' = reset - 1
         /\ mode' = CASE reset = PrechargeAt -> "PRE"
                      [] reset = LoadModeAt -> "LDM"
                      [] OTHER -> "RESET"

Ready(in) == mode = "NORMAL" /\ reset = 0 /\ ~in.init /\ ~init_old
Strobe(in) == (~old_rd /\ in.oe) \/ (~old_we /\ in.we)

(* Fault: a write does not reach the video cache. *)
DropsKeepsCache(iswrite, addr) == UNCHANGED cached
(* A write to the cached word drops it. *)
Drops(iswrite, addr) ==
    cached' = IF iswrite /\ Word(addr) = cached THEN NoWord ELSE cached

MainTurn(in) == Ready(in) /\ Strobe(in)
(* Fault: a due refresh goes before the main port. *)
RefreshTurnFirst(in) == Ready(in) /\ refresh_due
RefreshTurn(in) == Ready(in) /\ ~Strobe(in) /\ refresh_due
(* Fault: the cartridge goes before a due refresh. *)
CartTurnFirst(in) == Ready(in) /\ ~Strobe(in) /\ in.cart_req
CartTurn(in) == Ready(in) /\ ~Strobe(in) /\ ~refresh_due /\ in.cart_req
TapeTurn(in) ==
    /\ Ready(in) /\ ~Strobe(in) /\ ~refresh_due /\ ~in.cart_req
    /\ in.tape_rd \/ in.tape_wr
VideoTurn(in) ==
    /\ Ready(in) /\ ~Strobe(in) /\ ~refresh_due /\ ~in.cart_req
    /\ ~in.tape_rd /\ ~in.tape_wr /\ cached # Word(in.vram_addr)

AdmitMain(in) ==
    /\ MainTurn(in)
    /\ client' = "main" /\ wr' = in.we /\ a' = in.addr
    /\ Drops(in.we, in.addr)
    /\ cart_grant' = FALSE /\ UNCHANGED <<data, refreshVars>>

AdmitRefresh(in) ==
    /\ RefreshTurn(in)
    /\ client' = "none" /\ wr' = FALSE
    /\ refresh_due' = FALSE /\ cart_grants_since_refresh' = 0
    /\ cart_grant' = FALSE /\ UNCHANGED <<a, data, cached>>

(* The 32nd cartridge slot in a row of refreshless slots makes one due. *)
AdmitCart(in) ==
    /\ CartTurn(in)
    /\ client' = "cart" /\ wr' = in.cart_wr /\ a' = in.cart_addr
    /\ data' = in.cart_din /\ cart_grant' = TRUE
    /\ Drops(in.cart_wr, in.cart_addr)
    /\ cart_grants_since_refresh' = cart_grants_since_refresh + 1
    /\ refresh_due' = (cart_grants_since_refresh + 1 = GrantLimit)

AdmitTape(in) ==
    /\ TapeTurn(in)
    /\ client' = "tape" /\ wr' = in.tape_wr /\ a' = in.tape_addr
    /\ data' = in.tape_din
    /\ Drops(in.tape_wr, in.tape_addr)
    /\ cart_grant' = FALSE /\ UNCHANGED refreshVars

AdmitVideo(in) ==
    /\ VideoTurn(in)
    /\ client' = "video" /\ wr' = FALSE /\ a' = in.vram_addr
    /\ cached' = Word(in.vram_addr)
    /\ cart_grant' = FALSE /\ UNCHANGED <<data, refreshVars>>

(* Nobody: the slot refreshes, once the controller is in normal mode. *)
AdmitNobody(in) ==
    /\ ~(MainTurn(in) \/ RefreshTurn(in) \/ CartTurn(in) \/ TapeTurn(in) \/ VideoTurn(in))
    /\ client' = "none" /\ wr' = FALSE
    /\ IF mode = "NORMAL"
       THEN refresh_due' = FALSE /\ cart_grants_since_refresh' = 0
       ELSE UNCHANGED refreshVars
    /\ cached' = IF reset # 0 \/ in.init \/ init_old THEN NoWord ELSE cached
    /\ cart_grant' = FALSE /\ UNCHANGED <<a, data>>

ArbitrateEdge(in) ==
    /\ q = 0 /\ q' = 1
    /\ AdmitMain(in) \/ AdmitRefresh(in) \/ AdmitCart(in) \/ AdmitTape(in)
         \/ AdmitVideo(in) \/ AdmitNobody(in)
    /\ UNCHANGED <<tape_rd_ack, ram_dout, cart_dout, tape_dout, vram_dout, chip, mem>>

(* No admission outside q = 0; the cache is dropped during initialization. *)
NoAdmission(in) ==
    /\ cached' = IF reset # 0 \/ in.init \/ init_old THEN NoWord ELSE cached
    /\ cart_grant' = FALSE
    /\ UNCHANGED <<slotVars, refreshVars>>

(* The row command: activate, refresh, or a step of the power-up sequence. *)
RowEdge(in) ==
    /\ q = 1 /\ q' = 3 /\ NoAdmission(in)
    /\ ram_dout' = IF client = "main" /\ wr THEN in.din ELSE ram_dout
    /\ chip' = CASE mode = "PRE" -> "precharged"
                 [] mode = "LDM" /\ chip # "off" -> "ready"
                 [] OTHER -> chip
    /\ UNCHANGED <<tape_rd_ack, cart_dout, tape_dout, vram_dout, mem>>

(* The column command.  Main write data is the live din, the other clients'
   was latched with the address. *)
ColumnEdge(in) ==
    /\ q = 3 /\ q' = 6 /\ NoAdmission(in)
    /\ mem' = IF client # "none" /\ wr /\ mode = "NORMAL" /\ chip = "ready"
              THEN [mem EXCEPT ![a] = IF client = "main" THEN in.din ELSE data]
              ELSE mem
    /\ UNCHANGED <<tape_rd_ack, ram_dout, cart_dout, tape_dout, vram_dout, chip>>

ReadEdge(in) ==
    /\ q = 6 /\ q' = 7 /\ NoAdmission(in)
    /\ cart_dout' = IF client = "cart" /\ ~wr THEN mem[a] ELSE cart_dout
    /\ UNCHANGED <<tape_rd_ack, ram_dout, tape_dout, vram_dout, chip, mem>>

ReadyEdge(in) ==
    /\ q = 7 /\ q' = 0 /\ NoAdmission(in)
    /\ ram_dout' = IF client = "main" /\ ~wr THEN mem[a] ELSE ram_dout
    /\ vram_dout' = IF client = "video" THEN WordData(Word(a)) ELSE vram_dout
    /\ tape_dout' = IF client = "tape" /\ ~wr THEN mem[a] ELSE tape_dout
    /\ tape_rd_ack' = (tape_rd_ack # (client = "tape" /\ ~wr))
    /\ UNCHANGED <<cart_dout, chip, mem>>

SdramClock(in) ==
    /\ Sample(in) /\ Sequence(in)
    /\ ArbitrateEdge(in) \/ RowEdge(in) \/ ColumnEdge(in) \/ ReadEdge(in) \/ ReadyEdge(in)

Refreshing == client = "none" /\ mode = "NORMAL" /\ q = 1
=============================================================================
