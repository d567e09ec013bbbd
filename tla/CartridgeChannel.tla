-------------------------- MODULE CartridgeChannel --------------------------
(***************************************************************************)
(* The cartridge memory service and the cartridge channel of rtl/sdram.v   *)
(* it holds its requests on.  When a slot is granted and how long it runs  *)
(* is left open here; SdramArbiter and CartridgeBus give it its timing.    *)
(***************************************************************************)
EXTENDS PlusCartridgeMemory

VARIABLES
    chan, slot, mem_rdata,      \* the SDRAM slot: its phase, latched payload, data
    store                       \* the contents of the cartridge region

channelVars == <<chan, slot, mem_rdata, store>>

ChannelTypeOK ==
    /\ chan \in {"idle", "granted", "run", "ack"}
    /\ slot \in Request /\ mem_rdata \in Byte
    /\ store \in [Addr -> Byte]

(* SDRAM contents survive a reconfiguration of the FPGA: any contents. *)
ChannelInit ==
    /\ chan = "idle" /\ slot = request /\ mem_rdata = OpenBus
    /\ store \in [Addr -> Byte]

(* One clock of the cartridge channel of sdram.v.  The payload is latched on
   the edge that admits the request; the slot then runs to completion, and the
   acknowledge is up for one clock before the next arbitration edge. *)

Admit ==
    /\ chan = "idle" /\ mem_req
    /\ chan' = "granted" /\ slot' = request
    /\ UNCHANGED <<mem_rdata, store>>

Wait == chan \in {"idle", "run"} /\ UNCHANGED channelVars

Run == chan = "granted" /\ chan' = "run" /\ UNCHANGED <<slot, mem_rdata, store>>

CompleteWrite ==
    /\ chan = "run" /\ slot.write
    /\ chan' = "ack" /\ store' = [store EXCEPT ![slot.addr] = slot.data]
    /\ UNCHANGED <<slot, mem_rdata>>

CompleteRead ==
    /\ chan = "run" /\ ~slot.write
    /\ chan' = "ack" /\ mem_rdata' = store[slot.addr]
    /\ UNCHANGED <<slot, store>>

Release == chan = "ack" /\ chan' = "idle" /\ UNCHANGED <<slot, mem_rdata, store>>

ChannelClock == Admit \/ Wait \/ Run \/ CompleteWrite \/ CompleteRead \/ Release

(* The SDRAM contract "the requester keeps every input stable until cart_ack":
   what the slot latched is what the service still requests, up to the
   acknowledge, and no slot runs without a requester. *)
HeldUntilAck == chan # "idle" => mem_req /\ slot = request
=============================================================================
