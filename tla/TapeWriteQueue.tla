--------------------------- MODULE TapeWriteQueue ---------------------------
(***************************************************************************)
(* rtl/tape_write_queue.v: the one-byte queue between a CDT download and   *)
(* the SDRAM.  Addresses are positions in the tape; each action is one     *)
(* clk edge and "in" holds the sampled ports.                              *)
(***************************************************************************)
EXTENDS Integers

VARIABLES
    tape_wr, tape_din,      \* the held write request and its payload
    tape_queued_addr,       \* the last accepted address (playback length)
    pending_addr            \* the address the held write drains to

queueVars == <<tape_wr, tape_din, tape_queued_addr, pending_addr>>

NoByte == 0

QueueInit ==
    /\ tape_wr = FALSE /\ tape_din = NoByte
    /\ tape_queued_addr = 0 /\ pending_addr = 0

QueueReset(in) ==
    /\ in.reset
    /\ tape_wr' = FALSE /\ tape_din' = NoByte
    /\ tape_queued_addr' = 0 /\ pending_addr' = 0

Accepts(in) == in.tape_download /\ in.ioctl_wr /\ (~tape_wr \/ in.tape_wr_ack)

QueueAccept(in) ==
    /\ ~in.reset /\ Accepts(in)
    /\ tape_wr' = TRUE /\ tape_din' = in.ioctl_dout
    /\ pending_addr' = in.ioctl_addr
    /\ tape_queued_addr' = IF in.clear THEN 0 ELSE in.ioctl_addr

(* Clear resets the length but not the byte that is draining. *)
QueueDrain(in) ==
    /\ ~in.reset /\ ~Accepts(in)
    /\ tape_wr' = (tape_wr /\ ~in.tape_wr_ack)
    /\ tape_queued_addr' = IF in.clear THEN 0 ELSE tape_queued_addr
    /\ UNCHANGED <<tape_din, pending_addr>>

QueueClock(in) == QueueReset(in) \/ QueueAccept(in) \/ QueueDrain(in)

(* Fault: the write drains to the metadata address. *)
TapeAddrQueued(download, play_addr) ==
    IF tape_wr \/ download THEN tape_queued_addr ELSE play_addr
TapeAddr(download, play_addr) ==
    IF tape_wr THEN pending_addr ELSE IF download THEN tape_queued_addr ELSE play_addr

TapeWait(download, ack) == download /\ tape_wr /\ ~ack
=============================================================================
