----------------------------- MODULE SsmWriter -----------------------------
(***************************************************************************)
(* rtl/ssm_marker.v, second half: publishes marker events to a ring of     *)
(* records in DDR3, a pair of words A and B each, behind a header word     *)
(* with the counts.  Each action is one clk edge; "in" holds the sampled   *)
(* ports.  What a record says of its marker is one value, in.event.        *)
(***************************************************************************)
EXTENDS Integers

CONSTANTS
    RingEntries,    \* 64
    MaxDropped      \* 255, where the count saturates

ASSUME WriterAssumption == RingEntries \in Nat \ {0} /\ MaxDropped \in Nat

VARIABLES
    wstate, written, event_count, dropped_count, pub_dropped,
    pend, rec, quiesce_pending,
    ddram_we, ddram_addr, ddram_din

countVars == <<written, event_count, dropped_count, pub_dropped>>
eventVars == <<pend, rec>>
ringWriteVars == <<ddram_we, ddram_addr, ddram_din>>
writerVars == <<wstate, countVars, eventVars, quiesce_pending, ringWriteVars>>

NoEvent == [n |-> 0]

WriterInit ==
    /\ wstate = "MAGIC" /\ written = 0 /\ event_count = 0
    /\ dropped_count = 0 /\ pub_dropped = 0
    /\ pend = FALSE /\ rec = NoEvent /\ quiesce_pending = FALSE
    /\ ddram_we = FALSE /\ ddram_addr = <<"magic">> /\ ddram_din = NoEvent

Restart ==
    /\ wstate' = "MAGIC" /\ written' = 0 /\ event_count' = 0
    /\ dropped_count' = 0 /\ pub_dropped' = 0
    /\ pend' = FALSE /\ ddram_we' = FALSE
    /\ UNCHANGED <<rec, ddram_addr, ddram_din>>

(* Fault: disabling drops a write the slave has not accepted. *)
DisableAtOnce(in) == ~in.active /\ quiesce_pending' = FALSE /\ Restart
(* Disabled: a stalled request is held until the slave takes it. *)
Disable(in) ==
    /\ ~in.active
    /\ IF ddram_we /\ in.busy
       THEN quiesce_pending' = TRUE /\ UNCHANGED <<wstate, countVars, eventVars, ringWriteVars>>
       ELSE quiesce_pending' = FALSE /\ Restart
QuiesceWriter(in) ==
    /\ in.active /\ quiesce_pending
    /\ IF in.busy THEN UNCHANGED writerVars ELSE quiesce_pending' = FALSE /\ Restart

(* Fault: a marker that arrives with the header write is lost. *)
CountDropSilent == wstate # "HDR" /\ dropped_count < MaxDropped
CountDrop == dropped_count < MaxDropped

(* A marker: kept if there is room for one, counted as dropped otherwise. *)
TakeEvent(in) ==
    /\ event_count' = IF in.hit THEN event_count + 1 ELSE event_count
    /\ rec' = IF in.hit /\ ~pend THEN in.event ELSE rec
    /\ dropped_count' = IF in.hit /\ pend /\ CountDrop THEN dropped_count + 1 ELSE dropped_count

PutWord(addr, word, next) ==
    /\ wstate' = next
    /\ ddram_we' = TRUE /\ ddram_addr' = addr /\ ddram_din' = word
Header(n, d) == [written |-> n, dropped |-> d]
RecordSlot == written % RingEntries

KeepPend(in) == pend' = (pend \/ in.hit)

WriteMagic(in) ==
    /\ wstate = "MAGIC" /\ PutWord(<<"magic">>, [magic |-> RingEntries], "INIT_HDR")
    /\ KeepPend(in) /\ UNCHANGED <<written, pub_dropped>>
WriteInitHdr(in) ==
    /\ wstate = "INIT_HDR" /\ PutWord(<<"hdr">>, Header(0, 0), "IDLE")
    /\ pub_dropped' = 0 /\ KeepPend(in) /\ UNCHANGED written
(* Fault: a drop is published with the next record only. *)
BehindNever == FALSE
Behind == pub_dropped # dropped_count
WriterIdle(in) ==
    /\ wstate = "IDLE" /\ ddram_we' = FALSE
    /\ wstate' = CASE pend -> "RECA"
                   [] ~pend /\ Behind -> "REPUB"
                   [] OTHER -> "IDLE"
    /\ KeepPend(in) /\ UNCHANGED <<written, pub_dropped, ddram_addr, ddram_din>>
(* Fault: the header goes out before the second half of the record. *)
AfterRecAHeader == "HDR"
AfterRecA == "RECB"
WriteRecA(in) ==
    /\ wstate = "RECA" /\ PutWord(<<"a", RecordSlot>>, rec, AfterRecA)
    /\ KeepPend(in) /\ UNCHANGED <<written, pub_dropped>>
WriteRecB(in) ==
    /\ wstate = "RECB" /\ PutWord(<<"b", RecordSlot>>, rec, "HDR")
    /\ KeepPend(in) /\ UNCHANGED <<written, pub_dropped>>
WriteHdr(in) ==
    /\ wstate = "HDR" /\ PutWord(<<"hdr">>, Header(written + 1, dropped_count), "IDLE")
    /\ written' = written + 1 /\ pub_dropped' = dropped_count /\ pend' = FALSE
WriteRepub(in) ==
    /\ wstate = "REPUB" /\ PutWord(<<"hdr">>, Header(written, dropped_count), "IDLE")
    /\ pub_dropped' = dropped_count /\ KeepPend(in) /\ UNCHANGED written

(* While the slave is busy the request stays as it is. *)
WriterStalls(in) ==
    /\ in.busy /\ KeepPend(in)
    /\ UNCHANGED <<wstate, written, pub_dropped, ringWriteVars>>

WriterClock(in) ==
    \/ Disable(in) \/ QuiesceWriter(in)
    \/ /\ in.active /\ ~quiesce_pending
       /\ TakeEvent(in) /\ UNCHANGED quiesce_pending
       /\ \/ WriterStalls(in)
          \/ /\ ~in.busy
             /\ \/ WriteMagic(in) \/ WriteInitHdr(in) \/ WriterIdle(in) \/ WriteRecA(in)
                \/ WriteRecB(in) \/ WriteHdr(in) \/ WriteRepub(in)
=============================================================================
