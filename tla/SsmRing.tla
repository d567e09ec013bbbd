------------------------------ MODULE SsmRing ------------------------------
(***************************************************************************)
(* The SSM event ring: the writer, the DDR3 slave, and the host that polls *)
(* the ring with ssm_ring.py, one word at a time, while events arrive and  *)
(* the observer is switched off and on.                                    *)
(***************************************************************************)
EXTENDS SsmWriter, Sequences

CONSTANTS
    MaxEvents, MaxRestarts,     \* bounds of the environment
    MaxPolls

ASSUME RingAssumption == {MaxEvents, MaxRestarts, MaxPolls} \subseteq Nat

VARIABLES
    active, restarts, events,
    ddram_busy, ring,           \* DDR3: every word by address
    poll, consumed, lost, polls,
    handed,                     \* records handed out by the last poll
    header_up,                  \* DDR3 holds a header of this session
    log,                        \* events written since the last restart
    position,                   \* of every event: its place in its log
    last                        \* the newest event handed out

envVars == <<active, restarts, events>>
hostVars == <<poll, consumed, lost, polls, handed>>
ghostVars == <<header_up, log, position, last>>
vars == <<writerVars, envVars, ddram_busy, ring, hostVars, ghostVars>>

Words == {<<"magic">>, <<"hdr">>} \cup ({"a", "b"} \X (0..(RingEntries - 1)))
NoPoll == [at |-> 0, image |-> <<>>]

Init ==
    /\ WriterInit
    /\ active = TRUE /\ restarts = 0 /\ events = 0
    /\ ddram_busy = FALSE /\ ring = [w \in Words |-> NoEvent]
    /\ poll = NoPoll /\ consumed = 0 /\ lost = 0 /\ polls = 0 /\ handed = <<>>
    /\ header_up = FALSE /\ log = <<>> /\ last = 0
    /\ position = [e \in 1..MaxEvents |-> 0]

-----------------------------------------------------------------------------
(* OSD toggle or machine reset, assumed never to fall into a poll. *)
ActiveStep ==
    \/ active /\ restarts < MaxRestarts /\ poll' = NoPoll
         /\ active' = FALSE /\ restarts' = restarts + 1
    \/ ~active /\ active' = TRUE /\ UNCHANGED restarts
    \/ UNCHANGED <<active, restarts>>

Event == [n |-> events + 1]
WriterPorts(hit) == [active |-> active, hit |-> hit, event |-> Event, busy |-> ddram_busy]

DdrStep ==
    /\ ddram_busy' \in BOOLEAN
    /\ ring' = IF ddram_we /\ ~ddram_busy THEN [ring EXCEPT ![ddram_addr] = ddram_din] ELSE ring

(* SsmRingReader.poll: the image, magic first, then the header once more. *)
ImageOrder == <<<<"magic">>, <<"hdr">>>> \o
    [i \in 1..(2 * RingEntries) |-> <<IF i % 2 = 1 THEN "a" ELSE "b", (i - 1) \div 2>>]
ImageLen == Len(ImageOrder)
WrittenIn(word) == IF "written" \in DOMAIN word THEN word.written ELSE 0

(* Fault: the whole ring is trusted. *)
OldestKeptAll(before, after) == before - RingEntries
OldestKept(before, after) ==
    IF before - RingEntries > after - RingEntries + 1
    THEN before - RingEntries ELSE after - RingEntries + 1
FirstTrusted(before, after, base) ==
    LET oldest == OldestKept(before, after)
    IN IF oldest > base THEN oldest ELSE base

Running == header_up /\ active /\ ~quiesce_pending
PollReads ==
    /\ polls < MaxPolls /\ poll.at < ImageLen
    /\ poll.at = 0 => ring[<<"magic">>] # NoEvent /\ Running
    /\ poll' = [at |-> poll.at + 1, image |-> Append(poll.image, ring[ImageOrder[poll.at + 1]])]
    /\ UNCHANGED <<consumed, lost, polls, handed>>

(* A count that went backwards is a restart. *)
Base(before) == IF before < consumed THEN 0 ELSE consumed
PollEnds ==
    LET before == WrittenIn(poll.image[2])
        after == WrittenIn(ring[<<"hdr">>])
        first == FirstTrusted(before, after, Base(before))
    IN /\ poll.at = ImageLen
       /\ handed' = IF first >= before THEN <<>>
                    ELSE [k \in 1..(before - first) |->
                            LET s == (first + k - 1) % RingEntries
                            IN [index |-> first + k,
                                a |-> poll.image[3 + 2 * s], b |-> poll.image[4 + 2 * s]]]
       /\ lost' = lost + (before - Base(before)) - Len(handed')
       /\ consumed' = before
       /\ poll' = NoPoll /\ polls' = polls + 1
HostStep == PollReads \/ PollEnds \/ UNCHANGED hostVars

Restarted == wstate' = "MAGIC"
Logged == wstate = "HDR" /\ wstate' = "IDLE"
Ghosts ==
    /\ header_up' = (~Restarted /\ (header_up \/ (ddram_we /\ ~ddram_busy /\ ddram_addr = <<"hdr">>)))
    /\ log' = CASE Restarted -> <<>> [] Logged -> Append(log, rec) [] OTHER -> log
    /\ position' = IF Logged THEN [position EXCEPT ![rec.n] = written + 1] ELSE position
    /\ last' = IF handed' # handed /\ handed' # <<>> THEN handed'[Len(handed')].a.n ELSE last

Next ==
    /\ \E hit \in {b \in BOOLEAN : b => events < MaxEvents /\ active} :
         /\ WriterClock(WriterPorts(hit))
         /\ events' = IF hit THEN events + 1 ELSE events
    /\ DdrStep /\ HostStep /\ ActiveStep
    /\ Ghosts

NotBusy == ddram_busy' = FALSE
Fairness == WF_ddram_busy(NotBusy) /\ WF_writerVars(WriterClock(WriterPorts(FALSE)))
Spec == Init /\ [][Next]_vars
FairSpec == Spec /\ Fairness

-----------------------------------------------------------------------------
(* The words of the ring are records, headers and the magic; the log has a record
   for each event the writer counts as written. *)
Records == [n : Nat]
Headers == [written : Nat, dropped : Nat]
Values == Records \cup Headers \cup [magic : Nat]
WriterTypeOK ==
    /\ wstate \in {"MAGIC", "INIT_HDR", "IDLE", "RECA", "RECB", "HDR", "REPUB"}
    /\ written \in Nat /\ event_count \in Nat
    /\ dropped_count \in 0..MaxDropped /\ pub_dropped \in 0..MaxDropped
    /\ pend \in BOOLEAN /\ quiesce_pending \in BOOLEAN /\ rec \in Records
    /\ ddram_we \in BOOLEAN /\ ddram_addr \in Words /\ ddram_din \in Values
TypeOK ==
    /\ WriterTypeOK
    /\ active \in BOOLEAN /\ events \in 0..MaxEvents
    /\ ddram_busy \in BOOLEAN /\ ring \in [Words -> Values]
    /\ header_up \in BOOLEAN /\ log \in Seq(Records) /\ Len(log) = written
    /\ position \in [1..MaxEvents -> Nat]

(* "Disable and reset must not abandon a request the slave has not accepted yet":
   a stalled write stays, the very same, through the switch and the reset. *)
StalledRecordHeld ==
    [][ddram_we /\ ddram_busy => UNCHANGED ringWriteVars]_vars

(* "The record pair is written before the header, so a host that reads the
   header never sees a count pointing at a half-written record": of the records
   the header counts, all but the oldest are whole, at every instant. *)
CommittedIsWhole ==
    header_up =>
      LET n == WrittenIn(ring[<<"hdr">>])
      IN \A i \in 1..n : i > n - RingEntries + 1 =>
           /\ ring[<<"a", (i - 1) % RingEntries>>] = log[i]
           /\ ring[<<"b", (i - 1) % RingEntries>>] = log[i]

(* "Once the writer is idle, written + dropped equals every event the detector
   saw", and the header says so. *)
Settled == wstate = "IDLE" /\ ~pend /\ pub_dropped = dropped_count /\ ~ddram_we
CountsAddUp ==
    Settled => /\ ring[<<"hdr">>] = Header(written, dropped_count)
               /\ dropped_count < MaxDropped => written + dropped_count = event_count

(* "A record is only handed to the caller if the second header proves its slot
   cannot have been reused during the read": both words are of one event, the one
   with that index, and events come in order, "oldest first", each once. *)
HandedIsOwn ==
    [][handed' # handed =>
         \A k \in 1..Len(handed') :
            /\ handed'[k].a = handed'[k].b
            /\ position[handed'[k].a.n] = handed'[k].index
            /\ handed'[k].a.n > IF k = 1 THEN last ELSE handed'[k - 1].a.n]_vars

(* "the writer republishes the header from idle whenever the two disagree": once
   the markers stop, the header in DDR3 comes to account for every one of them,
   unless the observer is switched off. *)
EventPublished == events = MaxEvents /\ active ~> Settled \/ ~active
=============================================================================
