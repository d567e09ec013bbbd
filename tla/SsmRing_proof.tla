--------------------------- MODULE SsmRing_proof ---------------------------
(***************************************************************************)
(* Proofs about SsmRing for every size of the ring, every limit of the     *)
(* drop counter and every number of markers, restarts and polls: the       *)
(* stalled write, the counts, whole records behind the header, and what a  *)
(* poll that races the writer hands out.                                   *)
(***************************************************************************)
EXTENDS SsmRing, SequenceTheorems, TLAPS

N == RingEntries
Slot(i) == (i - 1) % RingEntries

-----------------------------------------------------------------------------
(* What each state of the writer has in flight, and that the counts add up:
   a marker is in the log, pending or dropped, until the drop counter stays at
   its limit. *)
InFlight(word, value) == ddram_we /\ ddram_addr = word /\ ddram_din = value
InRecord == wstate \in {"RECB", "HDR"}
Flights ==
    /\ wstate \in {"RECA", "RECB", "HDR"} => pend
    /\ wstate \in {"MAGIC", "INIT_HDR"} => written = 0 /\ pub_dropped = 0 /\ ~header_up
    /\ wstate \in {"MAGIC", "RECA", "REPUB"} => ~ddram_we
    /\ wstate = "INIT_HDR" => ddram_we /\ ddram_addr = <<"magic">>
    /\ wstate = "IDLE" /\ ddram_we => InFlight(<<"hdr">>, Header(written, pub_dropped))
    /\ wstate = "RECB" => InFlight(<<"a", RecordSlot>>, rec)
    /\ wstate = "HDR" => InFlight(<<"b", RecordSlot>>, rec) /\ ring[<<"a", RecordSlot>>] = rec
Counts ==
    /\ pub_dropped <= dropped_count
    /\ dropped_count < MaxDropped =>
         event_count = written + dropped_count + (IF pend THEN 1 ELSE 0)

(* The header in DDR3 is the writer's, but for the one that is in flight. *)
HeaderInFlight == ddram_we /\ ddram_addr = <<"hdr">>
Published ==
    /\ wstate \notin {"MAGIC", "INIT_HDR"} /\ ~HeaderInFlight =>
         header_up /\ ring[<<"hdr">>] = Header(written, pub_dropped)
    /\ header_up => /\ ring[<<"hdr">>] \in Headers
                    /\ ring[<<"hdr">>].written \in {written - 1, written}

(* A record stays whole until the writer begins the one that takes its slot. *)
Intact(i) == i > written - N + (IF InRecord THEN 1 ELSE 0)
Whole ==
    \A i \in 1..written : Intact(i) =>
        ring[<<"a", Slot(i)>>] = log[i] /\ ring[<<"b", Slot(i)>>] = log[i]
RingInv == Flights /\ Counts /\ Published /\ Whole

-----------------------------------------------------------------------------
(* Markers keep their order, from the log to the host. *)
OrderInv ==
    /\ pend => rec.n \in 1..events /\ last < rec.n
    /\ last \in 0..events
    /\ \A i \in 1..written :
         /\ log[i].n \in 1..events /\ position[log[i].n] = i
         /\ pend => log[i].n < rec.n
         /\ \A j \in 1..written : i < j => log[i].n < log[j].n

(* A poll runs inside one session of the ring.  Of the records its first header
   counts, those whose words it has read are as in the log if they are intact
   still. *)
Before == poll.image[2].written
PollInv ==
    /\ poll.at \in 0..ImageLen /\ poll.image \in Seq(Values) /\ Len(poll.image) = poll.at
    /\ poll.at > 0 => Running
    /\ poll.at >= 2 => poll.image[2] \in Headers /\ Before <= ring[<<"hdr">>].written
    /\ poll.at >= 2 => \A i \in 1..Before : Intact(i) =>
         /\ 3 + 2 * Slot(i) <= poll.at => poll.image[3 + 2 * Slot(i)] = log[i]
         /\ 4 + 2 * Slot(i) <= poll.at => poll.image[4 + 2 * Slot(i)] = log[i]

(* What the next poll may hand out is newer than what the last one did. *)
ConsumedInv ==
    /\ consumed \in Nat
    /\ \/ \A i \in 1..written : last < log[i].n
       \/ /\ header_up /\ consumed <= ring[<<"hdr">>].written
          /\ poll.at >= 2 => consumed <= Before
          /\ \A i \in 1..written : consumed < i => last < log[i].n

IInv == TypeOK /\ RingInv /\ OrderInv /\ PollInv /\ ConsumedInv

-----------------------------------------------------------------------------
(* Arithmetic of the slots. *)
LEMMA ModBound ==
    ASSUME NEW n \in Int, n > 0, NEW i \in Int
    PROVE  i % n \in 0..(n - 1)
  OBVIOUS

LEMMA DivMod ==
    ASSUME NEW n \in Int, n > 0, NEW i \in Int
    PROVE  i = n * (i \div n) + (i % n) /\ i \div n \in Int
<1>1. i = n * (i \div n) + (i % n)
  OBVIOUS
<1>2. i \div n \in Int
  OBVIOUS
<1> QED BY <1>1, <1>2

LEMMA ProductAtLeast ==
    ASSUME NEW n \in Int, n > 0, NEW q \in Int, q >= 1
    PROVE  n * q >= n
  OBVIOUS

(* Numbers less than n apart have different remainders. *)
LEMMA ModDiffer ==
    ASSUME NEW n \in Int, n > 0, NEW i \in Int, NEW j \in Int, i < j, j - i < n
    PROVE  i % n # j % n
<1> SUFFICES ASSUME i % n = j % n PROVE FALSE
  OBVIOUS
<1> DEFINE p == i \div n
           q == j \div n
<1>1. /\ i = n * p + (i % n) /\ j = n * q + (j % n) /\ p \in Int /\ q \in Int
      /\ i % n \in Int /\ j % n \in Int
  BY DivMod, ModBound
<1> HIDE DEF p, q
<1>2. n * q - n * p = n * (q - p)
  BY <1>1
<1>3. j - i = n * (q - p)
  BY <1>1, <1>2
<1>4. CASE q - p >= 1
  BY <1>1, <1>3, <1>4, ProductAtLeast
<1>5. CASE q - p <= 0
  <2>1. n * (p - q) >= 0 /\ n * (q - p) = -(n * (p - q))
    BY <1>1, <1>5
  <2> QED BY <1>1, <1>3, <2>1
<1> QED BY <1>1, <1>4, <1>5

LEMMA SlotTypes ==
    /\ N \in Nat /\ N > 0
    /\ \A i \in Int : Slot(i) \in 0..(N - 1) /\ <<"a", Slot(i)>> \in Words /\ <<"b", Slot(i)>> \in Words
    /\ <<"magic">> \in Words /\ <<"hdr">> \in Words
    /\ WriterTypeOK => RecordSlot = Slot(written + 1)
<1>1. N \in Nat /\ N > 0
  BY WriterAssumption DEF N
<1>2. ASSUME NEW i \in Int
      PROVE  Slot(i) \in 0..(N - 1) /\ <<"a", Slot(i)>> \in Words /\ <<"b", Slot(i)>> \in Words
  <2>1. Slot(i) \in 0..(N - 1)
    BY <1>1, ModBound DEF N, Slot
  <2> QED BY <2>1 DEF Words, N
<1>3. WriterTypeOK => RecordSlot = Slot(written + 1)
  <2> SUFFICES ASSUME WriterTypeOK PROVE written = (written + 1) - 1
    BY DEF RecordSlot, Slot, N
  <2> QED BY DEF WriterTypeOK
<1> QED BY <1>1, <1>2, <1>3 DEF Words

(* The words that are not in the slot of the next record. *)
LEMMA OtherSlot ==
    ASSUME WriterTypeOK, NEW i \in Nat, i <= written, i > written - N + 1
    PROVE  Slot(i) # RecordSlot
<1>1. i - 1 \in Int /\ written \in Int /\ i - 1 < written /\ written - (i - 1) < N /\ N \in Int /\ N > 0
  BY SlotTypes DEF WriterTypeOK
<1> QED BY <1>1, ModDiffer DEF Slot, RecordSlot, N

-----------------------------------------------------------------------------
(* One clock edge of the writer: it restarts, keeps everything for a request that
   the slave has not taken, or runs, on a marker or without one. *)
Ports(in, hit) ==
    in.active = active /\ in.busy = ddram_busy /\ in.hit = hit /\ in.event = [n |-> events + 1]
Restarts == Restart /\ quiesce_pending' = FALSE
Keeps == UNCHANGED <<wstate, countVars, eventVars, ringWriteVars>> /\ ddram_busy
Runs(in) ==
    /\ active /\ ~quiesce_pending /\ quiesce_pending' = quiesce_pending /\ TakeEvent(in)
    /\ \/ WriterStalls(in)
       \/ WriteMagic(in) /\ ~ddram_busy
       \/ WriteInitHdr(in) /\ ~ddram_busy
       \/ WriterIdle(in) /\ ~ddram_busy
       \/ WriteRecA(in) /\ ~ddram_busy
       \/ WriteRecB(in) /\ ~ddram_busy
       \/ WriteHdr(in) /\ ~ddram_busy
       \/ WriteRepub(in) /\ ~ddram_busy

LEMMA WriterCases ==
    ASSUME Next, quiesce_pending \in BOOLEAN
    PROVE  \E hit \in BOOLEAN, in \in {WriterPorts(b) : b \in BOOLEAN} :
              /\ Ports(in, hit)
              /\ hit => active /\ events < MaxEvents
              /\ events' = IF hit THEN events + 1 ELSE events
              /\ \/ Restarts /\ (~active \/ quiesce_pending)
                 \/ Keeps /\ (~active \/ quiesce_pending) /\ quiesce_pending' \in BOOLEAN
                 \/ Runs(in)
<1> PICK hit \in {b \in BOOLEAN : b => events < MaxEvents /\ active} :
         WriterClock(WriterPorts(hit)) /\ events' = IF hit THEN events + 1 ELSE events
  BY DEF Next
<1> DEFINE in == WriterPorts(hit)
<1>1. Ports(in, hit)
  BY DEF Ports, WriterPorts, Event
<1> HIDE DEF in
<1>2. WriterClock(in)
  BY DEF in
<1>3. CASE Disable(in)
  BY <1>1, <1>3 DEF in, Disable, Restarts, Keeps, Ports
<1>4. CASE QuiesceWriter(in)
  BY <1>1, <1>4 DEF in, QuiesceWriter, Restarts, Keeps, Ports, writerVars
<1>5. CASE ~Disable(in) /\ ~QuiesceWriter(in)
  <2>1. Runs(in)
    BY <1>1, <1>2, <1>5 DEF WriterClock, Runs, Ports, WriterStalls
  <2> QED BY <1>1, <2>1 DEF in
<1> QED BY <1>3, <1>4, <1>5

-----------------------------------------------------------------------------
(* Types. *)
LEMMA TypeStep ==
    ASSUME TypeOK, Flights, Next
    PROVE  TypeOK'
<1> USE DEF TypeOK
<1> PICK hit \in BOOLEAN, in \in {WriterPorts(b) : b \in BOOLEAN} :
      /\ Ports(in, hit)
      /\ hit => active /\ events < MaxEvents
      /\ events' = IF hit THEN events + 1 ELSE events
      /\ \/ Restarts
         \/ Keeps /\ quiesce_pending' \in BOOLEAN
         \/ Runs(in)
  BY WriterCases DEF WriterTypeOK
<1> HIDE DEF TypeOK
<1>0. /\ DdrStep /\ ActiveStep /\ Ghosts
      /\ WriterTypeOK /\ in.event \in Records
  <2>1. DdrStep /\ ActiveStep /\ Ghosts
    BY DEF Next
  <2>2. WriterTypeOK
    BY DEF TypeOK
  <2>3. MaxEvents \in Nat
    BY RingAssumption
  <2>4. events \in Nat
    BY <2>3 DEF TypeOK
  <2>5. in.event \in Records
    BY <2>4 DEF Ports, Records
  <2> QED BY <2>1, <2>2, <2>5
<1>1. WriterTypeOK' /\ (written' = IF Logged THEN written + 1 ELSE IF Restarted THEN 0 ELSE written)
  <2>1. CASE Restarts
    <3>1. /\ wstate' = "MAGIC" /\ written' = 0 /\ event_count' = 0 /\ dropped_count' = 0
          /\ pub_dropped' = 0 /\ pend' = FALSE /\ ddram_we' = FALSE /\ quiesce_pending' = FALSE
          /\ rec' = rec /\ ddram_addr' = ddram_addr /\ ddram_din' = ddram_din
          /\ 0 \in 0..MaxDropped
      BY <2>1, WriterAssumption DEF Restarts, Restart
    <3> QED BY <1>0, <3>1 DEF WriterTypeOK, Logged, Restarted
  <2>2. CASE Keeps /\ quiesce_pending' \in BOOLEAN
    BY <1>0, <2>2 DEF Keeps, countVars, eventVars, ringWriteVars, WriterTypeOK, Flights, Logged, Restarted
  <2>3. CASE Runs(in)
    <3>1. event_count' \in Nat /\ rec' \in Records /\ dropped_count' \in 0..MaxDropped
      BY <1>0, <2>3, WriterAssumption DEF Runs, TakeEvent, CountDrop, WriterTypeOK, Ports
    <3>2. /\ quiesce_pending' \in BOOLEAN /\ hit \in BOOLEAN /\ in.hit = hit
          /\ dropped_count \in 0..MaxDropped
          /\ 0 \in 0..MaxDropped
      BY <1>0, <2>3, WriterAssumption DEF Runs, Ports, WriterTypeOK
    <3>11. /\ Header(0, 0) \in Values /\ [magic |-> RingEntries] \in Values
           /\ Header(written + 1, dropped_count) \in Values
           /\ Header(written, dropped_count) \in Values /\ rec \in Values
      BY <1>0, <3>2, WriterAssumption DEF WriterTypeOK, Values, Headers, Records, Header
    <3>12. <<"magic">> \in Words /\ <<"hdr">> \in Words
           /\ <<"a", RecordSlot>> \in Words /\ <<"b", RecordSlot>> \in Words
      BY <1>0, SlotTypes DEF WriterTypeOK
    <3> USE <1>0, <3>1, <3>2, <3>11, <3>12 DEF WriterTypeOK, Logged, Restarted, KeepPend, PutWord
    <3>3. CASE WriterStalls(in)
      BY <3>3 DEF WriterStalls, ringWriteVars, Flights
    <3>4. CASE WriteMagic(in)
      BY <3>4 DEF WriteMagic
    <3>5. CASE WriteInitHdr(in)
      BY <3>5 DEF WriteInitHdr
    <3>6. CASE WriterIdle(in)
      BY <3>6 DEF WriterIdle
    <3>7. CASE WriteRecA(in)
      BY <3>7 DEF WriteRecA, AfterRecA
    <3>8. CASE WriteRecB(in)
      BY <3>8 DEF WriteRecB
    <3>9. CASE WriteHdr(in)
      <4>1. /\ wstate = "HDR" /\ wstate' = "IDLE" /\ written' = written + 1
            /\ pub_dropped' = dropped_count /\ pend' = FALSE
            /\ ddram_we' = TRUE /\ ddram_addr' = <<"hdr">>
            /\ ddram_din' = Header(written + 1, dropped_count)
        BY <3>9 DEF WriteHdr
      <4>2. Logged /\ written + 1 \in Nat
        BY <4>1
      <4> QED BY <4>1, <4>2
    <3>10. CASE WriteRepub(in)
      BY <3>10 DEF WriteRepub
    <3> QED BY <2>3, <3>3, <3>4, <3>5, <3>6, <3>7, <3>8, <3>9, <3>10 DEF Runs
  <2> QED BY <2>1, <2>2, <2>3
<1>2. ring' \in [Words -> Values] /\ ddram_busy' \in BOOLEAN
  BY <1>0 DEF DdrStep, WriterTypeOK, TypeOK
<1>3. log' \in Seq(Records) /\ Len(log') = written'
  <2>1. /\ log \in Seq(Records) /\ Len(log) = written /\ rec \in Records
        /\ log' = CASE Restarted -> <<>> [] Logged -> Append(log, rec) [] OTHER -> log
        /\ ~(Restarted /\ Logged)
    BY <1>0 DEF TypeOK, WriterTypeOK, Ghosts, Restarted, Logged
  <2> QED BY <1>1, <2>1
<1>4. position' \in [1..MaxEvents -> Nat] /\ header_up' \in BOOLEAN
  <2>1. position' \in [1..MaxEvents -> Nat]
    <3>1. /\ position \in [1..MaxEvents -> Nat] /\ written + 1 \in Nat
          /\ position' = IF Logged THEN [position EXCEPT ![rec.n] = written + 1] ELSE position
      BY <1>0 DEF TypeOK, WriterTypeOK, Ghosts
    <3> QED BY <3>1
  <2>2. header_up' \in BOOLEAN
    BY <1>0, Zenon DEF Ghosts
  <2> QED BY <2>1, <2>2
<1>5. active' \in BOOLEAN
  BY <1>0 DEF TypeOK, ActiveStep
<1>6. events' \in 0..MaxEvents
  BY RingAssumption DEF TypeOK
<1> QED BY <1>1, <1>2, <1>3, <1>4, <1>5, <1>6 DEF TypeOK

-----------------------------------------------------------------------------
(* What the slave does with the word in flight. *)
LEMMA SlaveTakes ==
    ASSUME TypeOK, Next
    PROVE  /\ ddram_busy \/ ~ddram_we => ring' = ring
           /\ ~ddram_busy /\ ddram_we =>
                /\ ring'[ddram_addr] = ddram_din
                /\ \A w \in Words : w # ddram_addr => ring'[w] = ring[w]
  BY DEF TypeOK, WriterTypeOK, Next, DdrStep

LEMMA WordsDiffer ==
    ASSUME NEW i, NEW j
    PROVE  /\ <<"magic">> # <<"hdr">> /\ <<"a", i>> # <<"b", j>>
           /\ <<"hdr">> # <<"a", i>> /\ <<"hdr">> # <<"b", i>>
           /\ <<"magic">> # <<"a", i>> /\ <<"magic">> # <<"b", i>>
           /\ <<"a", i>> = <<"a", j>> => i = j
           /\ <<"b", i>> = <<"b", j>> => i = j
  OBVIOUS

LEMMA FlightsStep ==
    ASSUME TypeOK, Flights, Next
    PROVE  Flights'
<1> PICK hit \in BOOLEAN, in \in {WriterPorts(b) : b \in BOOLEAN} :
      /\ Ports(in, hit)
      /\ hit => active /\ events < MaxEvents
      /\ events' = IF hit THEN events + 1 ELSE events
      /\ \/ Restarts
         \/ Keeps /\ quiesce_pending' \in BOOLEAN
         \/ Runs(in)
  BY WriterCases DEF TypeOK, WriterTypeOK
<1>0. WriterTypeOK /\ in.busy = ddram_busy /\ in.hit = hit
  BY DEF TypeOK, Ports
<1>1. header_up' = (~Restarted /\ (header_up \/ (ddram_we /\ ~ddram_busy /\ ddram_addr = <<"hdr">>)))
  BY DEF Next, Ghosts
<1>2. CASE Restarts
  BY <1>1, <1>2 DEF Restarts, Restart, Restarted, Flights
<1>3. CASE Keeps /\ quiesce_pending' \in BOOLEAN
  <2>1. ring' = ring /\ RecordSlot' = RecordSlot
    BY <1>3, SlaveTakes DEF Keeps, countVars, RecordSlot
  <2> QED BY <1>1, <1>3, <2>1
    DEF Keeps, countVars, eventVars, ringWriteVars, Flights, InFlight, Header, Restarted
<1>4. CASE Runs(in)
  <2>1. pend => rec' = rec
    BY <1>4 DEF Runs, TakeEvent
  <2>2. written' = written => RecordSlot' = RecordSlot
    BY DEF RecordSlot
  <2>3. /\ <<"magic">> # <<"hdr">> /\ <<"a", RecordSlot>> # <<"b", RecordSlot>>
        /\ ddram_busy => ring' = ring
        /\ ~ddram_busy /\ ddram_we => ring'[ddram_addr] = ddram_din
    BY SlaveTakes, WordsDiffer
  <2> USE <1>0, <1>1, <2>1, <2>2, <2>3 DEF Flights, InFlight, KeepPend, PutWord, Restarted, WriterTypeOK
  <2>4. CASE WriterStalls(in)
    BY <2>4 DEF WriterStalls, ringWriteVars
  <2>5. CASE WriteMagic(in) /\ ~ddram_busy
    BY <2>5 DEF WriteMagic
  <2>6. CASE WriteInitHdr(in) /\ ~ddram_busy
    BY <2>6 DEF WriteInitHdr
  <2>7. CASE WriterIdle(in) /\ ~ddram_busy
    BY <2>7 DEF WriterIdle
  <2>8. CASE WriteRecA(in) /\ ~ddram_busy
    BY <2>8 DEF WriteRecA, AfterRecA
  <2>9. CASE WriteRecB(in) /\ ~ddram_busy
    BY <2>9 DEF WriteRecB
  <2>10. CASE WriteHdr(in) /\ ~ddram_busy
    BY <2>10 DEF WriteHdr
  <2>11. CASE WriteRepub(in) /\ ~ddram_busy
    BY <2>11 DEF WriteRepub
  <2> QED BY <1>4, <2>4, <2>5, <2>6, <2>7, <2>8, <2>9, <2>10, <2>11 DEF Runs
<1> QED BY <1>2, <1>3, <1>4

(* A marker is in the log, pending or counted as dropped. *)
LEMMA CountsStep ==
    ASSUME TypeOK, Flights, Counts, Next
    PROVE  Counts'
<1> PICK hit \in BOOLEAN, in \in {WriterPorts(b) : b \in BOOLEAN} :
      /\ Ports(in, hit)
      /\ hit => active /\ events < MaxEvents
      /\ events' = IF hit THEN events + 1 ELSE events
      /\ \/ Restarts
         \/ Keeps /\ quiesce_pending' \in BOOLEAN
         \/ Runs(in)
  BY WriterCases DEF TypeOK, WriterTypeOK
<1>0. WriterTypeOK /\ in.hit = hit /\ MaxDropped \in Nat
  BY WriterAssumption DEF TypeOK, Ports
<1>1. CASE Restarts
  BY <1>0, <1>1 DEF Restarts, Restart, Counts
<1>2. CASE Keeps /\ quiesce_pending' \in BOOLEAN
  BY <1>2 DEF Keeps, countVars, eventVars, Counts
<1>3. CASE Runs(in)
  <2>1. /\ event_count' = IF hit THEN event_count + 1 ELSE event_count
        /\ dropped_count' = IF hit /\ pend /\ dropped_count < MaxDropped
                            THEN dropped_count + 1 ELSE dropped_count
    BY <1>0, <1>3 DEF Runs, TakeEvent, CountDrop
  <2>2. \/ written' = written /\ pub_dropped' \in {0, pub_dropped, dropped_count}
             /\ pend' = (pend \/ hit)
        \/ written' = written + 1 /\ pub_dropped' = dropped_count /\ pend /\ pend' = FALSE
    BY <1>0, <1>3 DEF Runs, WriterStalls, WriteMagic, WriteInitHdr, WriterIdle, WriteRecA,
                      WriteRecB, WriteHdr, WriteRepub, KeepPend, Flights
  <2> QED BY <1>0, <2>1, <2>2 DEF Counts, WriterTypeOK
<1> QED BY <1>1, <1>2, <1>3

(* The header in DDR3 follows the writer's. *)
LEMMA PublishedStep ==
    ASSUME TypeOK, Flights, Published, Next
    PROVE  Published'
<1> PICK hit \in BOOLEAN, in \in {WriterPorts(b) : b \in BOOLEAN} :
      /\ Ports(in, hit)
      /\ hit => active /\ events < MaxEvents
      /\ events' = IF hit THEN events + 1 ELSE events
      /\ \/ Restarts
         \/ Keeps /\ quiesce_pending' \in BOOLEAN
         \/ Runs(in)
  BY WriterCases DEF TypeOK, WriterTypeOK
<1>0. WriterTypeOK /\ in.busy = ddram_busy /\ <<"hdr">> \in Words
  BY SlotTypes DEF TypeOK, Ports
<1>1. header_up' = (~Restarted /\ (header_up \/ (ddram_we /\ ~ddram_busy /\ ddram_addr = <<"hdr">>)))
  BY DEF Next, Ghosts
<1>2. /\ <<"magic">> # <<"hdr">> /\ <<"hdr">> # <<"a", RecordSlot>> /\ <<"hdr">> # <<"b", RecordSlot>>
      /\ ddram_busy \/ ~ddram_we => ring' = ring
      /\ ~ddram_busy /\ HeaderInFlight => ring'[<<"hdr">>] = ddram_din
      /\ ~ddram_busy /\ ddram_we /\ ~HeaderInFlight => ring'[<<"hdr">>] = ring[<<"hdr">>]
  BY <1>0, SlaveTakes, WordsDiffer DEF HeaderInFlight
<1>3. /\ Header(written, pub_dropped) \in Headers
      /\ Header(written, pub_dropped).written = written
  BY <1>0, WriterAssumption DEF Header, Headers, WriterTypeOK
<1>4. CASE Restarts
  BY <1>1, <1>4 DEF Restarts, Restart, Restarted, Published
<1>5. CASE Keeps /\ quiesce_pending' \in BOOLEAN
  BY <1>1, <1>2, <1>5
    DEF Keeps, countVars, eventVars, ringWriteVars, Published, HeaderInFlight, Header, Restarted
<1>6. CASE Runs(in)
  <2> USE <1>0, <1>1, <1>2, <1>3
        DEF Flights, InFlight, Published, HeaderInFlight, PutWord, Restarted, WriterTypeOK
  <2>1. CASE WriterStalls(in)
    BY <2>1 DEF WriterStalls, ringWriteVars, Header
  <2>2. CASE WriteMagic(in) /\ ~ddram_busy
    BY <2>2 DEF WriteMagic
  <2>3. CASE WriteInitHdr(in) /\ ~ddram_busy
    BY <2>3 DEF WriteInitHdr
  <2>4. CASE WriterIdle(in) /\ ~ddram_busy
    BY <2>4 DEF WriterIdle, Header
  <2>5. CASE WriteRecA(in) /\ ~ddram_busy
    BY <2>5 DEF WriteRecA, AfterRecA, Header
  <2>6. CASE WriteRecB(in) /\ ~ddram_busy
    BY <2>6 DEF WriteRecB, Header
  <2>7. CASE WriteHdr(in) /\ ~ddram_busy
    BY <2>7 DEF WriteHdr
  <2>8. CASE WriteRepub(in) /\ ~ddram_busy
    BY <2>8 DEF WriteRepub
  <2> QED BY <1>6, <2>1, <2>2, <2>3, <2>4, <2>5, <2>6, <2>7, <2>8 DEF Runs
<1> QED BY <1>4, <1>5, <1>6

-----------------------------------------------------------------------------
(* What a step does to the log, summed up: it is emptied with the session, it
   takes the pending record, or it stays. *)
PendingKept ==
    pend' => (pend /\ rec' = rec) \/ (~pend /\ rec'.n = events + 1 /\ events' = events + 1)
LogEmptied ==
    /\ ~Running /\ written' = 0 /\ ~header_up' /\ wstate' = "MAGIC" /\ position' = position
    /\ PendingKept
LogExtended ==
    /\ wstate = "HDR" /\ wstate' = "IDLE" /\ pend /\ ~pend' /\ rec' = rec /\ written' = written + 1
    /\ ~ddram_busy
    /\ \A i \in 1..written : log'[i] = log[i]
    /\ log'[written + 1] = rec
    /\ position' = [position EXCEPT ![rec.n] = written + 1]
LogKept ==
    /\ written' = written /\ log' = log /\ position' = position
    /\ InRecord => InRecord'
    /\ PendingKept
    /\ \/ wstate' = wstate /\ ddram_busy
       \/ wstate' = wstate /\ wstate = "IDLE"
       \/ wstate \in {"MAGIC", "INIT_HDR", "IDLE", "REPUB"} /\ wstate' \in {"INIT_HDR", "IDLE", "RECA", "REPUB"}
       \/ wstate = "RECA" /\ wstate' = "RECB"
       \/ wstate = "RECB" /\ wstate' = "HDR" /\ ~ddram_busy

LEMMA LogStep ==
    ASSUME TypeOK, Flights, Published, Next
    PROVE  /\ LogEmptied \/ LogExtended \/ LogKept
           /\ events' \in {events, events + 1}
           /\ Running => ~LogEmptied
<1> PICK hit \in BOOLEAN, in \in {WriterPorts(b) : b \in BOOLEAN} :
      /\ Ports(in, hit)
      /\ hit => active /\ events < MaxEvents
      /\ events' = IF hit THEN events + 1 ELSE events
      /\ \/ Restarts /\ (~active \/ quiesce_pending)
         \/ Keeps /\ (~active \/ quiesce_pending) /\ quiesce_pending' \in BOOLEAN
         \/ Runs(in)
  BY WriterCases DEF TypeOK, WriterTypeOK
<1>0. /\ WriterTypeOK /\ in.hit = hit /\ in.event.n = events + 1 /\ in.busy = ddram_busy
      /\ log \in Seq(Records) /\ Len(log) = written
      /\ log' = CASE Restarted -> <<>> [] Logged -> Append(log, rec) [] OTHER -> log
      /\ position' = IF Logged THEN [position EXCEPT ![rec.n] = written + 1] ELSE position
      /\ header_up' = (~Restarted /\ (header_up \/ (ddram_we /\ ~ddram_busy /\ ddram_addr = <<"hdr">>)))
  BY DEF TypeOK, Ports, Next, Ghosts
<1>1. CASE Restarts /\ (~active \/ quiesce_pending)
  <2>1. LogEmptied
    BY <1>0, <1>1 DEF Restarts, Restart, Restarted, LogEmptied, Running, Logged, PendingKept
  <2> QED BY <1>1, <2>1 DEF Running
<1>2. CASE Keeps /\ (~active \/ quiesce_pending)
  <2>1. CASE wstate = "MAGIC"
    BY <1>0, <1>2, <2>1
      DEF Keeps, countVars, eventVars, LogEmptied, Running, Restarted, Logged, Flights, PendingKept
  <2>2. CASE wstate # "MAGIC"
    <3>1. LogKept
      BY <1>0, <1>2, <2>2
        DEF Keeps, countVars, eventVars, LogKept, Restarted, Logged, InRecord, PendingKept
    <3> QED BY <1>2, <3>1 DEF Running
  <2> QED BY <1>2, <2>1, <2>2 DEF Running
<1>3. CASE Runs(in)
  <2>0. /\ rec' = IF hit /\ ~pend THEN in.event ELSE rec
    BY <1>0, <1>3 DEF Runs, TakeEvent
  <2> USE <1>0, <2>0 DEF KeepPend, PutWord, Restarted, Logged, InRecord, Running, Flights, PendingKept
  <2>1. CASE WriterStalls(in)
    <3>1. CASE wstate = "MAGIC"
      BY <2>1, <3>1 DEF WriterStalls, LogEmptied
    <3>2. CASE wstate # "MAGIC"
      <4>1. /\ wstate' = wstate /\ written' = written /\ ddram_busy /\ pend' = (pend \/ hit)
            /\ ~Restarted /\ ~Logged
        BY <2>1, <3>2 DEF WriterStalls
      <4>2. log' = log /\ position' = position
        BY <4>1
      <4>3. PendingKept
        BY <4>1
      <4>4. InRecord => InRecord'
        BY <4>1
      <4>5. wstate' = wstate /\ ddram_busy /\ written' = written
        BY <4>1
      <4>6. LogKept
        BY <4>2, <4>3, <4>4, <4>5 DEF LogKept
      <4> QED BY <3>2, <4>5, <4>6 DEF LogEmptied
    <3> QED BY <3>1, <3>2 DEF LogEmptied
  <2>2. CASE WriteMagic(in) /\ ~ddram_busy
    BY <2>2 DEF WriteMagic, LogKept, LogEmptied
  <2>3. CASE WriteInitHdr(in) /\ ~ddram_busy
    BY <2>3 DEF WriteInitHdr, LogKept, LogEmptied
  <2>4. CASE WriterIdle(in) /\ ~ddram_busy
    BY <2>4 DEF WriterIdle, LogKept, LogEmptied
  <2>5. CASE WriteRecA(in) /\ ~ddram_busy
    BY <2>5 DEF WriteRecA, AfterRecA, LogKept, LogEmptied
  <2>6. CASE WriteRecB(in) /\ ~ddram_busy
    BY <2>6 DEF WriteRecB, LogKept, LogEmptied
  <2>7. CASE WriteHdr(in) /\ ~ddram_busy
    <3>1. LogExtended
      BY <2>7 DEF WriteHdr, LogExtended, WriterTypeOK
    <3> QED BY <3>1 DEF LogExtended, LogEmptied
  <2>8. CASE WriteRepub(in) /\ ~ddram_busy
    BY <2>8 DEF WriteRepub, LogKept, LogEmptied
  <2>9. LogEmptied \/ LogExtended \/ LogKept
    BY <1>3, <2>1, <2>2, <2>3, <2>4, <2>5, <2>6, <2>7, <2>8 DEF Runs
  <2>10. Running => ~LogEmptied
    BY DEF LogEmptied
  <2> QED BY <2>9, <2>10
<1>4. events' \in {events, events + 1}
  OBVIOUS
<1> QED BY <1>1, <1>2, <1>3, <1>4

(* A record stays whole until its slot is taken. *)
LEMMA WholeStep ==
    ASSUME TypeOK, Flights, Published, Whole, Next
    PROVE  Whole'
<1>0. /\ WriterTypeOK /\ N \in Nat /\ N > 0
      /\ ddram_busy \/ ~ddram_we => ring' = ring
      /\ ~ddram_busy /\ ddram_we =>
           /\ ring'[ddram_addr] = ddram_din
           /\ \A w \in Words : w # ddram_addr => ring'[w] = ring[w]
      /\ \A i \in Int : <<"a", Slot(i)>> \in Words /\ <<"b", Slot(i)>> \in Words
      /\ RecordSlot = Slot(written + 1)
  BY SlotTypes, SlaveTakes DEF TypeOK
<1>1. CASE LogEmptied
  BY <1>1 DEF LogEmptied, Whole
<1>2. CASE LogKept
  <2> SUFFICES ASSUME NEW i \in 1..written, Intact(i)'
               PROVE  /\ ring'[<<"a", Slot(i)>>] = log[i]
                      /\ ring'[<<"b", Slot(i)>>] = log[i]
    BY <1>2 DEF LogKept, Whole
  <2>1. CASE ring' = ring
    <3>1. Intact(i)
      BY <1>0, <1>2 DEF LogKept, Intact, WriterTypeOK
    <3> QED BY <2>1, <3>1 DEF Whole
  <2>2. CASE ~ddram_busy /\ ddram_we
    <3>1. Intact(i)
      BY <1>0, <1>2, <2>2 DEF LogKept, Intact, InRecord, WriterTypeOK
    <3>2. CASE wstate \in {"RECB", "HDR"}
      <4>1. Slot(i) # RecordSlot
        BY <1>0, <3>1, <3>2, OtherSlot DEF Intact, InRecord, WriterTypeOK
      <4> QED BY <1>0, <2>2, <3>1, <3>2, <4>1, WordsDiffer DEF Whole, Flights, InFlight
    <3>3. CASE wstate \notin {"RECB", "HDR"}
      <4>1. ddram_addr \in {<<"magic">>, <<"hdr">>}
        BY <1>0, <2>2, <3>3 DEF Flights, InFlight, WriterTypeOK
      <4> QED BY <1>0, <2>2, <3>1, <4>1, WordsDiffer DEF Whole
    <3> QED BY <3>2, <3>3
  <2> QED BY <1>0, <2>1, <2>2
<1>3. CASE LogExtended
  <2> SUFFICES ASSUME NEW i \in 1..(written + 1), i > written + 1 - N
               PROVE  /\ ring'[<<"a", Slot(i)>>] = log'[i]
                      /\ ring'[<<"b", Slot(i)>>] = log'[i]
    <3>1. written' = written + 1 /\ ~InRecord'
      BY <1>3 DEF LogExtended, InRecord
    <3> QED BY <1>0, <3>1 DEF Whole, Intact, WriterTypeOK
  <2>1. /\ ring'[<<"b", RecordSlot>>] = rec /\ ring[<<"a", RecordSlot>>] = rec
        /\ \A w \in Words : w # <<"b", RecordSlot>> => ring'[w] = ring[w]
    BY <1>0, <1>3 DEF LogExtended, Flights, InFlight
  <2>2. CASE i = written + 1
    BY <1>0, <1>3, <2>1, <2>2, WordsDiffer DEF LogExtended
  <2>3. CASE i \in 1..written
    <3>1. Slot(i) # RecordSlot /\ Intact(i)
      BY <1>0, <1>3, <2>3, OtherSlot DEF LogExtended, Intact, InRecord, WriterTypeOK
    <3> QED BY <1>0, <1>3, <2>1, <2>3, <3>1, WordsDiffer DEF Whole, LogExtended
  <2> QED BY <1>0, <2>2, <2>3 DEF WriterTypeOK
<1> QED BY <1>1, <1>2, <1>3, LogStep

-----------------------------------------------------------------------------
(* The order in which a poll reads the ring. *)
LEMMA ImageFacts ==
    /\ ImageLen = 2 + 2 * N
    /\ ImageOrder[1] = <<"magic">> /\ ImageOrder[2] = <<"hdr">>
    /\ \A s \in 0..(N - 1) : ImageOrder[3 + 2 * s] = <<"a", s>> /\ ImageOrder[4 + 2 * s] = <<"b", s>>
    /\ \A p \in 1..ImageLen : ImageOrder[p] \in Words
<1> DEFINE head == <<<<"magic">>, <<"hdr">>>>
           tail == [i \in 1..(2 * N) |-> <<IF i % 2 = 1 THEN "a" ELSE "b", (i - 1) \div 2>>]
<1>1. N \in Nat /\ N > 0
  BY SlotTypes
<1>2. /\ head \in Seq({head[1], head[2]}) /\ Len(head) = 2
      /\ head[1] = <<"magic">> /\ head[2] = <<"hdr">>
  OBVIOUS
<1>3. /\ tail \in Seq({"a", "b"} \X Int) /\ Len(tail) = 2 * N
      /\ \A i \in 1..(2 * N) : tail[i] = <<IF i % 2 = 1 THEN "a" ELSE "b", (i - 1) \div 2>>
  <2>1. \A i \in 1..(2 * N) : <<IF i % 2 = 1 THEN "a" ELSE "b", (i - 1) \div 2>> \in {"a", "b"} \X Int
    BY <1>1
  <2>2. 2 * N \in Nat
    BY <1>1
  <2>3. tail \in [1..(2 * N) -> {"a", "b"} \X Int]
    BY <2>1
  <2>4. tail \in Seq({"a", "b"} \X Int)
    BY <2>2, <2>3
  <2>5. Len(tail) = 2 * N
    BY <2>2, <2>3, <2>4, LenProperties
  <2> QED BY <2>4, <2>5
<1>4. ImageOrder = head \o tail
  BY DEF ImageOrder, N
<1> HIDE DEF head, tail
<1>5. /\ ImageLen = 2 + 2 * N
      /\ \A p \in 1..2 : ImageOrder[p] = head[p]
      /\ \A p \in 1..(2 * N) : ImageOrder[2 + p] = tail[p]
  <2>1. head \in Seq({head[1], head[2]} \cup ({"a", "b"} \X Int))
        /\ tail \in Seq({head[1], head[2]} \cup ({"a", "b"} \X Int))
    BY <1>2, <1>3
  <2>2. /\ Len(ImageOrder) = Len(head) + Len(tail)
        /\ \A p \in 1..(Len(head) + Len(tail)) :
             ImageOrder[p] = IF p <= Len(head) THEN head[p] ELSE tail[p - Len(head)]
    BY <1>4, <2>1, ConcatProperties
  <2> QED BY <1>1, <1>2, <1>3, <2>2, SMTT(30) DEF ImageLen
<1>6. ASSUME NEW s \in 0..(N - 1)
      PROVE  ImageOrder[3 + 2 * s] = <<"a", s>> /\ ImageOrder[4 + 2 * s] = <<"b", s>>
  <2>1. /\ 1 + 2 * s \in 1..(2 * N) /\ 2 + 2 * s \in 1..(2 * N)
        /\ 3 + 2 * s = 2 + (1 + 2 * s) /\ 4 + 2 * s = 2 + (2 + 2 * s)
        /\ (1 + 2 * s) % 2 = 1 /\ (2 + 2 * s) % 2 = 0
        /\ ((1 + 2 * s) - 1) \div 2 = s /\ ((2 + 2 * s) - 1) \div 2 = s
    BY <1>1
  <2>2. ImageOrder[2 + (1 + 2 * s)] = tail[1 + 2 * s] /\ ImageOrder[2 + (2 + 2 * s)] = tail[2 + 2 * s]
    BY <1>5, <2>1
  <2>3. tail[1 + 2 * s] = <<"a", s>>
    BY <1>3, <2>1
  <2>4. tail[2 + 2 * s] = <<"b", s>>
    BY <1>3, <2>1
  <2> QED BY <2>1, <2>2, <2>3, <2>4
<1>7. ASSUME NEW p \in 1..ImageLen
      PROVE  ImageOrder[p] \in Words
  <2>1. CASE p \in 1..2
    BY <1>2, <1>5, <2>1, SlotTypes, SMTT(30)
  <2>2. CASE p \notin 1..2
    <3>1. p - 2 \in 1..(2 * N) /\ p = 2 + (p - 2) /\ ((p - 2) - 1) \div 2 \in 0..(N - 1)
      BY <1>1, <1>5, <2>2
    <3>2. ImageOrder[p] = <<IF (p - 2) % 2 = 1 THEN "a" ELSE "b", ((p - 2) - 1) \div 2>>
      BY <1>3, <1>5, <3>1
    <3> QED BY <3>1, <3>2 DEF Words, N
  <2> QED BY <2>1, <2>2
<1> QED BY <1>2, <1>5, <1>6, <1>7

(* A session goes on until a restart, and its header and log only grow. *)
LEMMA SessionStep ==
    ASSUME TypeOK, Flights, Published, Next, LogExtended \/ LogKept
    PROVE  /\ \A i \in 1..written : i \in 1..written' /\ log'[i] = log[i] /\ (Intact(i)' => Intact(i))
           /\ header_up => header_up' /\ ring'[<<"hdr">>].written >= ring[<<"hdr">>].written
           /\ written' \in {written, written + 1}
<1>0. WriterTypeOK /\ N \in Nat /\ <<"hdr">> \in Words
  BY SlotTypes DEF TypeOK
<1>1. written' \in {written, written + 1} /\ written \in Nat
  BY <1>0 DEF LogExtended, LogKept, WriterTypeOK
<1>2. ASSUME NEW i \in 1..written
      PROVE  i \in 1..written' /\ log'[i] = log[i] /\ (Intact(i)' => Intact(i))
  <2>1. CASE LogExtended
    BY <1>0, <1>1, <2>1 DEF LogExtended, Intact, InRecord
  <2>2. CASE LogKept
    BY <1>0, <1>1, <2>2 DEF LogKept, Intact
  <2> QED BY <2>1, <2>2
<1>3. ASSUME header_up
      PROVE  header_up' /\ ring'[<<"hdr">>].written >= ring[<<"hdr">>].written
  <2>1. wstate' # "MAGIC"
    BY <1>3 DEF LogExtended, LogKept, Flights
  <2>2. header_up'
    BY <1>3, <2>1 DEF Next, Ghosts, Restarted
  <2>3. ring[<<"hdr">>].written \in {written - 1, written}
    BY <1>3 DEF Published
  <2>4. CASE ~ddram_busy /\ HeaderInFlight
    <3>1. wstate = "IDLE"
      BY <1>0, <1>3, <2>4, WordsDiffer DEF Flights, InFlight, HeaderInFlight, WriterTypeOK
    <3>2. ring'[<<"hdr">>] = Header(written, pub_dropped)
      BY <2>4, <3>1, SlaveTakes DEF Flights, InFlight, HeaderInFlight
    <3>3. ring'[<<"hdr">>].written = written
      BY <3>2 DEF Header
    <3> QED BY <1>1, <2>2, <2>3, <3>3
  <2>5. CASE ddram_busy \/ ~HeaderInFlight
    <3>1. ring'[<<"hdr">>] = ring[<<"hdr">>]
      BY <1>0, <2>5, SlaveTakes DEF HeaderInFlight, TypeOK
    <3> QED BY <1>1, <2>2, <2>3, <3>1
  <2> QED BY <1>0, <2>4, <2>5 DEF WriterTypeOK
<1> QED BY <1>1, <1>2, <1>3

(* A session that runs goes on while a poll reads. *)
LEMMA RunningStep ==
    ASSUME TypeOK, Flights, Published, Next, Running
    PROVE  /\ LogExtended \/ LogKept
           /\ poll' # NoPoll => Running'
<1>1. LogExtended \/ LogKept
  BY LogStep
<1>2. header_up'
  BY <1>1, SessionStep DEF Running
<1>3. quiesce_pending' = quiesce_pending
  BY WriterCases DEF TypeOK, WriterTypeOK, Running, Runs
<1>4. poll' # NoPoll => active'
  BY DEF Next, ActiveStep, Running
<1> QED BY <1>1, <1>2, <1>3, <1>4 DEF Running

-----------------------------------------------------------------------------
(* A poll sees the records of the log: those whose slot is intact still. *)
LEMMA PollReadsStep ==
    ASSUME TypeOK, RingInv, PollInv, Next, PollReads
    PROVE  PollInv'
<1> DEFINE p == poll.at + 1
<1>0. /\ TypeOK' /\ N \in Nat /\ N > 0 /\ ImageLen = 2 + 2 * N
      /\ poll.at \in 0..ImageLen /\ poll.image \in Seq(Values) /\ Len(poll.image) = poll.at
      /\ poll.at < ImageLen /\ Running /\ <<"hdr">> \in Words /\ written \in Nat
  <2>1. TypeOK'
    BY TypeStep DEF RingInv
  <2>2. /\ poll.at \in 0..ImageLen /\ poll.image \in Seq(Values) /\ Len(poll.image) = poll.at
        /\ poll.at < ImageLen /\ Running
    BY ImageFacts, SlotTypes DEF PollInv, PollReads
  <2> QED BY <2>1, <2>2, SlotTypes, ImageFacts DEF TypeOK, WriterTypeOK
<1>00. poll.at \in Nat /\ p \in Nat /\ p = poll.at + 1
  BY <1>0
<1>1. /\ poll' = [at |-> p, image |-> Append(poll.image, ring[ImageOrder[p]])]
      /\ ring[ImageOrder[p]] \in Values
  BY <1>0, ImageFacts, SMTT(30) DEF PollReads, TypeOK
<1>2. /\ poll'.at = p /\ p \in 1..ImageLen
      /\ poll'.image \in Seq(Values) /\ Len(poll'.image) = p
      /\ \A k \in 1..poll.at : poll'.image[k] = poll.image[k]
      /\ poll'.image[p] = ring[ImageOrder[p]]
  BY <1>0, <1>1
<1> HIDE DEF p
<1>3. Running'
  <2>1. poll' # NoPoll
    BY <1>0, <1>2 DEF NoPoll, p
  <2> QED BY <1>0, <2>1, RunningStep DEF RingInv
<1>4. /\ \A i \in 1..written : i \in 1..written' /\ log'[i] = log[i] /\ (Intact(i)' => Intact(i))
      /\ ring'[<<"hdr">>].written >= ring[<<"hdr">>].written
      /\ ring[<<"hdr">>] \in Headers /\ ring[<<"hdr">>].written <= written
  BY <1>0, RunningStep, SessionStep DEF RingInv, Published, Running
<1>5. ASSUME p >= 2
      PROVE  /\ poll'.image[2] \in Headers
             /\ poll'.image[2].written <= ring'[<<"hdr">>].written
             /\ poll'.image[2].written <= written
             /\ p > 2 => poll'.image[2] = poll.image[2]
  <2>1. CASE p = 2
    <3>1. poll'.image[2] = ring[<<"hdr">>]
      BY <1>2, <2>1, ImageFacts
    <3> QED BY <1>4, <2>1, <3>1
  <2>2. CASE p > 2
    <3>1. poll.at >= 2 /\ 2 \in 1..poll.at
      BY <1>0, <2>2 DEF p
    <3>2. poll'.image[2] = poll.image[2] /\ poll.image[2] \in Headers /\ Before <= ring[<<"hdr">>].written
      BY <1>2, <3>1 DEF PollInv
    <3>3. /\ poll.image[2].written \in Int /\ ring[<<"hdr">>].written \in Int
          /\ ring'[<<"hdr">>].written \in Int
      <4>1. ring'[<<"hdr">>] \in Headers
        BY <1>3, FlightsStep, PublishedStep DEF RingInv, Published, Running
      <4> QED BY <1>4, <3>2, <4>1 DEF Headers
    <3> QED BY <1>0, <1>4, <3>2, <3>3 DEF Before
  <2> QED BY <1>2, <1>5, <2>1, <2>2
<1>6. ASSUME p >= 2, NEW i \in 1..(poll'.image[2].written), Intact(i)'
      PROVE  /\ 3 + 2 * Slot(i) <= p => poll'.image[3 + 2 * Slot(i)] = log'[i]
             /\ 4 + 2 * Slot(i) <= p => poll'.image[4 + 2 * Slot(i)] = log'[i]
  <2>1. poll'.image[2].written \in Nat
    BY <1>5, <1>6 DEF Headers
  <2>2. i \in 1..written /\ Intact(i) /\ log'[i] = log[i]
    BY <1>0, <1>4, <1>5, <1>6, <2>1
  <2>3. /\ ring[<<"a", Slot(i)>>] = log[i] /\ ring[<<"b", Slot(i)>>] = log[i]
    BY <2>2 DEF RingInv, Whole
  <2>4. Slot(i) \in 0..(N - 1) /\ Slot(i) \in Int
    <3>1. i \in Int
      BY <1>0, <2>2
    <3>2. Slot(i) \in 0..(N - 1)
      BY <3>1, SlotTypes
    <3> QED BY <1>0, <3>2
  <2>5. ASSUME p > 2
        PROVE  /\ 3 + 2 * Slot(i) <= poll.at => poll.image[3 + 2 * Slot(i)] = log[i]
               /\ 4 + 2 * Slot(i) <= poll.at => poll.image[4 + 2 * Slot(i)] = log[i]
    BY <1>0, <1>5, <1>6, <2>2, <2>5, SMTT(30) DEF PollInv, Before, p
  <2>6. CASE 3 + 2 * Slot(i) = p
    <3>1. poll'.image[3 + 2 * Slot(i)] = log'[i]
      BY <1>2, <2>2, <2>3, <2>4, <2>6, ImageFacts
    <3>2. ~(4 + 2 * Slot(i) <= p)
      BY <1>00, <2>4, <2>6
    <3> QED BY <3>1, <3>2
  <2>7. CASE 4 + 2 * Slot(i) = p
    <3>1. poll'.image[4 + 2 * Slot(i)] = log'[i]
      BY <1>0, <1>2, <2>2, <2>3, <2>4, <2>7, ImageFacts
    <3>2. p > 2 /\ 3 + 2 * Slot(i) <= poll.at /\ 3 + 2 * Slot(i) \in 1..poll.at
      BY <1>0, <1>00, <2>4, <2>7, SMTT(30)
    <3>3. poll'.image[3 + 2 * Slot(i)] = log'[i]
      BY <1>2, <2>2, <2>5, <3>2
    <3> QED BY <3>1, <3>3
  <2>8. CASE 3 + 2 * Slot(i) # p /\ 4 + 2 * Slot(i) # p
    <3>1. ASSUME 3 + 2 * Slot(i) <= p
          PROVE  poll'.image[3 + 2 * Slot(i)] = log'[i]
      <4>1. p > 2 /\ 3 + 2 * Slot(i) <= poll.at /\ 3 + 2 * Slot(i) \in 1..poll.at
        BY <1>00, <2>4, <2>8, <3>1
      <4> QED BY <1>2, <2>2, <2>5, <4>1
    <3>2. ASSUME 4 + 2 * Slot(i) <= p
          PROVE  poll'.image[4 + 2 * Slot(i)] = log'[i]
      <4>1. p > 2 /\ 4 + 2 * Slot(i) <= poll.at /\ 4 + 2 * Slot(i) \in 1..poll.at
        BY <1>00, <2>4, <2>8, <3>2
      <4> QED BY <1>2, <2>2, <2>5, <4>1
    <3> QED BY <3>1, <3>2
  <2> QED BY <2>6, <2>7, <2>8
<1> QED BY <1>0, <1>2, <1>3, <1>5, <1>6 DEF PollInv, Before

LEMMA PollStep ==
    ASSUME TypeOK, RingInv, PollInv, Next
    PROVE  PollInv'
<1>1. CASE PollReads
  BY <1>1, PollReadsStep
<1>2. CASE poll' = NoPoll
  <2>1. poll'.at = 0 /\ poll'.image = <<>> /\ ImageLen \in Nat
    BY <1>2, ImageFacts, SlotTypes DEF NoPoll
  <2> QED BY <2>1 DEF PollInv
<1>3. CASE poll' = poll /\ poll # NoPoll
  <2>1. CASE poll.at = 0
    BY <1>3, <2>1 DEF PollInv
  <2>2. CASE poll.at # 0
    <3>0. poll.at \in 0..ImageLen /\ ImageLen \in Nat /\ written \in Nat /\ <<"hdr">> \in Words
      BY ImageFacts, SlotTypes DEF PollInv, TypeOK, WriterTypeOK
    <3>1. Running
      BY <2>2, <3>0 DEF PollInv
    <3>2. Running'
      BY <1>3, <3>1, RunningStep DEF RingInv
    <3>3. /\ \A i \in 1..written : i \in 1..written' /\ log'[i] = log[i] /\ (Intact(i)' => Intact(i))
          /\ ring'[<<"hdr">>].written >= ring[<<"hdr">>].written
          /\ ring[<<"hdr">>] \in Headers /\ ring[<<"hdr">>].written <= written
      BY <3>0, <3>1, RunningStep, SessionStep DEF RingInv, Published, Running
    <3>4. ring'[<<"hdr">>].written \in Nat /\ ring[<<"hdr">>].written \in Nat
      <4>1. ring'[<<"hdr">>] \in Headers
        BY <3>2, FlightsStep, PublishedStep DEF RingInv, Published, Running
      <4> QED BY <3>3, <4>1 DEF Headers
    <3>5. ASSUME poll.at >= 2
          PROVE  /\ Before <= ring'[<<"hdr">>].written /\ poll.image[2] \in Headers
                 /\ Before \in Nat /\ Before <= written
      <4>1. poll.image[2] \in Headers /\ Before <= ring[<<"hdr">>].written /\ Before \in Nat
        BY <3>5 DEF PollInv, Before, Headers
      <4> QED BY <3>0, <3>3, <3>4, <4>1
    <3>6. ASSUME poll.at >= 2, NEW i \in 1..Before, Intact(i)'
          PROVE  /\ 3 + 2 * Slot(i) <= poll.at => poll.image[3 + 2 * Slot(i)] = log'[i]
                 /\ 4 + 2 * Slot(i) <= poll.at => poll.image[4 + 2 * Slot(i)] = log'[i]
      <4>1. i \in 1..written
        BY <3>0, <3>5, <3>6
      <4> QED BY <3>3, <3>6, <4>1 DEF PollInv
    <3> QED BY <1>3, <3>0, <3>2, <3>5, <3>6 DEF PollInv, Before
  <2> QED BY <2>1, <2>2
<1>4. PollReads \/ poll' = NoPoll \/ poll' = poll
  BY DEF Next, HostStep, PollEnds, hostVars
<1> QED BY <1>1, <1>2, <1>3, <1>4

(* What the end of a poll hands out: records of the log, from the first that its
   second header shows was not reused to the last that its first header counts. *)
First == FirstTrusted(Before, ring[<<"hdr">>].written, Base(Before))
LEMMA HandedOut ==
    ASSUME TypeOK, RingInv, PollInv, ConsumedInv, PollEnds
    PROVE  /\ Before \in Nat /\ Before <= ring[<<"hdr">>].written /\ Before <= written
           /\ consumed' = Before /\ poll' = NoPoll /\ poll.at >= 2 /\ header_up
           /\ First \in Nat /\ First >= Base(Before)
           /\ First >= Before => handed' = <<>>
           /\ First < Before =>
                /\ DOMAIN handed' = 1..(Before - First) /\ Len(handed') = Before - First
                /\ \A k \in 1..(Before - First) :
                     /\ First + k \in 1..written
                     /\ handed'[k].index = First + k
                     /\ handed'[k].a = log[First + k] /\ handed'[k].b = log[First + k]
<1>0. /\ N \in Nat /\ N > 0 /\ ImageLen = 2 + 2 * N /\ poll.at = ImageLen /\ poll.at >= 2
      /\ Running /\ written \in Nat /\ header_up
  <2>1. N \in Nat /\ N > 0 /\ ImageLen = 2 + 2 * N /\ poll.at = ImageLen
    BY SlotTypes, ImageFacts DEF PollEnds
  <2>2. poll.at >= 2 /\ poll.at > 0
    BY <2>1
  <2> QED BY <2>1, <2>2 DEF PollInv, Running, TypeOK, WriterTypeOK
<1>1. /\ poll.image[2] \in Headers /\ ring[<<"hdr">>] \in Headers
      /\ Before <= ring[<<"hdr">>].written
      /\ ring[<<"hdr">>].written \in {written - 1, written}
  BY <1>0 DEF PollInv, RingInv, Published, Running
<1>2. /\ WrittenIn(poll.image[2]) = Before /\ Before \in Nat
      /\ WrittenIn(ring[<<"hdr">>]) = ring[<<"hdr">>].written /\ ring[<<"hdr">>].written \in Nat
  BY <1>1 DEF WrittenIn, Before, Headers
<1>3. /\ consumed' = Before /\ poll' = NoPoll
      /\ handed' = IF First >= Before THEN <<>>
                   ELSE [k \in 1..(Before - First) |->
                           LET s == (First + k - 1) % RingEntries
                           IN [index |-> First + k,
                               a |-> poll.image[3 + 2 * s], b |-> poll.image[4 + 2 * s]]]
  BY <1>2 DEF PollEnds, First
<1>4. /\ First \in Nat /\ First >= Base(Before)
      /\ First >= ring[<<"hdr">>].written - N + 1
  <2>1. Base(Before) \in Nat
    BY <1>2 DEF Base, ConsumedInv
  <2>2. /\ OldestKept(Before, ring[<<"hdr">>].written) \in Int
        /\ OldestKept(Before, ring[<<"hdr">>].written) >= ring[<<"hdr">>].written - N + 1
    BY <1>0, <1>2 DEF OldestKept, N
  <2> QED BY <1>0, <1>2, <2>1, <2>2 DEF First, FirstTrusted
<1>5. Before <= written
  BY <1>0, <1>1, <1>2
<1>6. ASSUME First < Before
      PROVE  /\ DOMAIN handed' = 1..(Before - First) /\ Len(handed') = Before - First
             /\ \A k \in 1..(Before - First) :
                  /\ First + k \in 1..written
                  /\ handed'[k].index = First + k
                  /\ handed'[k].a = log[First + k] /\ handed'[k].b = log[First + k]
  <2>1. /\ DOMAIN handed' = 1..(Before - First) /\ Before - First \in Nat
        /\ \A k \in 1..(Before - First) :
             LET s == (First + k - 1) % RingEntries
             IN handed'[k] = [index |-> First + k,
                              a |-> poll.image[3 + 2 * s], b |-> poll.image[4 + 2 * s]]
    BY <1>2, <1>3, <1>4, <1>6
  <2>2. Len(handed') = Before - First
    BY <1>2, <1>3, <1>4, <1>6
  <2>3. ASSUME NEW k \in 1..(Before - First)
        PROVE  /\ First + k \in 1..written
               /\ handed'[k].index = First + k
               /\ handed'[k].a = log[First + k] /\ handed'[k].b = log[First + k]
    <3>1. First + k \in 1..Before /\ First + k \in 1..written /\ First + k \in Int
      BY <1>0, <1>2, <1>4, <1>5
    <3>2. Intact(First + k)
      <4>1. InRecord => ring[<<"hdr">>].written = written
        BY WordsDiffer
          DEF RingInv, Published, Flights, InFlight, HeaderInFlight, InRecord, Header
      <4> QED BY <1>0, <1>1, <1>2, <1>4, <3>1, <4>1 DEF Intact
    <3>3. Slot(First + k) \in 0..(N - 1)
      BY <3>1, SlotTypes
    <3>4. 3 + 2 * Slot(First + k) <= poll.at /\ 4 + 2 * Slot(First + k) <= poll.at
      BY <1>0, <3>3
    <3>5. /\ poll.image[3 + 2 * Slot(First + k)] = log[First + k]
          /\ poll.image[4 + 2 * Slot(First + k)] = log[First + k]
      BY <1>0, <3>1, <3>2, <3>4 DEF PollInv
    <3>6. handed'[k] = [index |-> First + k, a |-> poll.image[3 + 2 * Slot(First + k)],
                        b |-> poll.image[4 + 2 * Slot(First + k)]]
      <4>1. Slot(First + k) = (First + k - 1) % RingEntries
        BY <1>4, <3>1 DEF Slot
      <4> QED BY <2>1, <4>1
    <3> QED BY <3>1, <3>5, <3>6
  <2> QED BY <2>1, <2>2, <2>3
<1> QED BY <1>0, <1>1, <1>2, <1>3, <1>4, <1>5, <1>6

(* The newest event handed out is older than any that has not been. *)
LEMMA LastStep ==
    ASSUME TypeOK, RingInv, OrderInv, PollInv, ConsumedInv, Next
    PROVE  /\ last' \in 0..events /\ consumed' \in Nat
           /\ pend => last' < rec.n
           /\ \/ \A i \in 1..written : last' < log[i].n
              \/ /\ header_up /\ consumed' <= ring[<<"hdr">>].written
                 /\ poll'.at >= 2 => consumed' <= poll'.image[2].written
                 /\ \A i \in 1..written : consumed' < i => last' < log[i].n
<1>1. last' = IF handed' # handed /\ handed' # <<>> THEN handed'[Len(handed')].a.n ELSE last
  BY DEF Next, Ghosts
<1>2. CASE PollEnds
  <2>0. poll'.at = 0
    BY <1>2 DEF PollEnds, NoPoll
  <2>1. /\ Before \in Nat /\ Before <= ring[<<"hdr">>].written /\ Before <= written
        /\ consumed' = Before /\ header_up /\ poll.at >= 2
        /\ First \in Nat
    BY <1>2, HandedOut
  <2>2. CASE last' = last
    <3>1. \A i \in 1..written : Before < i => last < log[i].n
      BY <2>1 DEF ConsumedInv, TypeOK, WriterTypeOK
    <3> QED BY <2>0, <2>1, <2>2, <3>1 DEF OrderInv
  <2>3. CASE handed' # <<>> /\ last' = handed'[Len(handed')].a.n
    <3>1. /\ First < Before /\ Len(handed') = Before - First
          /\ \A k \in 1..(Before - First) : handed'[k].a = log[First + k]
      BY <1>2, <2>1, <2>3, HandedOut
    <3>2. Before - First \in 1..(Before - First) /\ First + (Before - First) = Before
      BY <2>1, <3>1
    <3>3. last' = log[Before].n /\ Before \in 1..written
      BY <2>1, <2>3, <3>1, <3>2 DEF TypeOK, WriterTypeOK
    <3>4. \A i \in 1..written : Before < i => last' < log[i].n
      BY <3>3 DEF OrderInv
    <3>5. last' \in 0..events /\ (pend => last' < rec.n)
      BY <3>3, RingAssumption DEF OrderInv, TypeOK
    <3> QED BY <2>0, <2>1, <3>4, <3>5
  <2> QED BY <1>1, <2>2, <2>3
<1>3. CASE PollReads
  <2>1. last' = last /\ consumed' = consumed /\ poll'.at = poll.at + 1
    BY <1>1, <1>3 DEF PollReads
  <2>2. ASSUME header_up, consumed <= ring[<<"hdr">>].written, poll.at >= 2 => consumed <= Before,
               poll'.at >= 2
        PROVE  consumed <= poll'.image[2].written
    <3>1. /\ poll.at \in Nat /\ poll.image \in Seq(Values) /\ Len(poll.image) = poll.at
          /\ ring[ImageOrder[poll.at + 1]] \in Values /\ poll.at < ImageLen
      BY <1>3, ImageFacts, SlotTypes DEF PollInv, PollReads, TypeOK
    <3>2. poll'.image = Append(poll.image, ring[ImageOrder[poll.at + 1]])
      BY <1>3 DEF PollReads
    <3>3. CASE poll.at >= 2
      <4>1. poll'.image[2] = poll.image[2]
        BY <3>1, <3>2, <3>3
      <4> QED BY <2>2, <3>3, <4>1 DEF Before
    <3>4. CASE poll.at = 1
      <4>1. poll'.image[2] = ring[<<"hdr">>]
        BY <3>1, <3>2, <3>4, ImageFacts
      <4> QED BY <2>2, <4>1
    <3> QED BY <2>1, <2>2, <3>1, <3>3, <3>4
  <2> QED BY <2>1, <2>2 DEF OrderInv, ConsumedInv
<1>4. CASE UNCHANGED hostVars
  <2>1. last' = last /\ consumed' = consumed /\ poll' = poll
    BY <1>1, <1>4 DEF hostVars
  <2> QED BY <2>1 DEF OrderInv, ConsumedInv, Before
<1> QED BY <1>2, <1>3, <1>4 DEF Next, HostStep

LEMMA OrderStep ==
    ASSUME TypeOK, RingInv, OrderInv, PollInv, ConsumedInv, Next
    PROVE  OrderInv' /\ ConsumedInv'
<1>0. /\ written \in Nat /\ events \in Nat /\ events' \in Nat /\ events' >= events
      /\ events' \in 1..MaxEvents \/ events' = 0
      /\ position \in [1..MaxEvents -> Nat] /\ rec.n \in Nat /\ consumed \in Nat
      /\ events <= MaxEvents /\ MaxEvents \in Nat
  <2>1. events \in 0..MaxEvents /\ events' \in 0..MaxEvents /\ MaxEvents \in Nat
    BY TypeStep, RingAssumption DEF TypeOK, RingInv
  <2>2. events' \in {events, events + 1}
    BY LogStep DEF RingInv
  <2> QED BY <2>1, <2>2 DEF TypeOK, WriterTypeOK, ConsumedInv, Records
<1>1. /\ last' \in 0..events /\ consumed' \in Nat
      /\ pend => last' < rec.n
      /\ \/ \A i \in 1..written : last' < log[i].n
         \/ /\ header_up /\ consumed' <= ring[<<"hdr">>].written
            /\ poll'.at >= 2 => consumed' <= poll'.image[2].written
            /\ \A i \in 1..written : consumed' < i => last' < log[i].n
  BY LastStep
<1>5. header_up /\ header_up' =>
        ring[<<"hdr">>].written \in Nat /\ ring'[<<"hdr">>].written \in Nat
  BY FlightsStep, PublishedStep DEF RingInv, Published, Headers
<1>2. CASE LogEmptied
  <2>1. written' = 0
    BY <1>2 DEF LogEmptied
  <2>2. pend' => rec'.n \in 1..events' /\ last' < rec'.n
    BY <1>0, <1>1, <1>2 DEF LogEmptied, PendingKept, OrderInv
  <2> QED BY <1>0, <1>1, <2>1, <2>2 DEF OrderInv, ConsumedInv
<1>3. CASE LogExtended
  <2>1. /\ written' = written + 1 /\ ~pend' /\ pend
        /\ \A i \in 1..written : log'[i] = log[i]
        /\ log'[written + 1] = rec
        /\ position' = [position EXCEPT ![rec.n] = written + 1]
    BY <1>3 DEF LogExtended
  <2>2. /\ rec.n \in 1..events /\ last' < rec.n
        /\ \A i \in 1..written : log[i].n \in 1..events /\ log[i].n < rec.n /\ position[log[i].n] = i
    BY <1>1, <2>1 DEF OrderInv
  <2>3. /\ position'[rec.n] = written + 1
        /\ \A i \in 1..written : position'[log[i].n] = i
    BY <1>0, <2>1, <2>2
  <2>4. ASSUME NEW i \in 1..(written + 1)
        PROVE  /\ log'[i].n \in 1..events' /\ position'[log'[i].n] = i
               /\ \A j \in 1..(written + 1) : i < j => log'[i].n < log'[j].n
    <3>1. CASE i = written + 1
      BY <1>0, <2>1, <2>2, <2>3, <3>1
    <3>2. CASE i \in 1..written
      <4>1. log'[i].n \in 1..events' /\ position'[log'[i].n] = i
        <5>1. log'[i] = log[i] /\ log[i].n \in 1..events /\ position'[log[i].n] = i
          BY <2>1, <2>2, <2>3, <3>2
        <5> QED BY <1>0, <5>1
      <4>2. ASSUME NEW j \in 1..(written + 1), i < j
            PROVE  log'[i].n < log'[j].n
        <5>1. CASE j = written + 1
          BY <2>1, <2>2, <3>2, <5>1
        <5>2. CASE j \in 1..written
          BY <2>1, <3>2, <4>2, <5>2 DEF OrderInv
        <5> QED BY <1>0, <5>1, <5>2
      <4> QED BY <4>1, <4>2
    <3> QED BY <1>0, <3>1, <3>2
  <2>5. OrderInv'
    BY <1>0, <1>1, <2>1, <2>4 DEF OrderInv
  <2>6. header_up => header_up' /\ ring'[<<"hdr">>].written >= ring[<<"hdr">>].written
    BY <1>3, SessionStep DEF RingInv
  <2>7. ConsumedInv'
    <3>1. CASE \A i \in 1..written : last' < log[i].n
      <4>1. \A i \in 1..written' : last' < log'[i].n
        <5>1. ASSUME NEW i \in 1..(written + 1) PROVE last' < log'[i].n
          <6>1. CASE i = written + 1
            BY <2>1, <2>2, <6>1
          <6>2. CASE i \in 1..written
            BY <2>1, <3>1, <6>2
          <6> QED BY <1>0, <6>1, <6>2
        <5> QED BY <2>1, <5>1
      <4>2. consumed' \in Nat
        BY <1>1
      <4> QED BY <4>1, <4>2 DEF ConsumedInv
    <3>2. CASE /\ header_up /\ consumed' <= ring[<<"hdr">>].written
               /\ poll'.at >= 2 => consumed' <= poll'.image[2].written
               /\ \A i \in 1..written : consumed' < i => last' < log[i].n
      <4>1. consumed' <= ring'[<<"hdr">>].written
        <5>1. /\ ring[<<"hdr">>].written \in Int /\ ring'[<<"hdr">>].written \in Int
              /\ consumed' \in Int
          BY <1>1, <1>5, <2>6, <3>2
        <5>2. /\ consumed' <= ring[<<"hdr">>].written
              /\ ring'[<<"hdr">>].written >= ring[<<"hdr">>].written
          BY <2>6, <3>2
        <5> QED BY <5>1, <5>2
      <4>2. ASSUME NEW i \in 1..(written + 1), consumed' < i
            PROVE  last' < log'[i].n
        <5>1. CASE i = written + 1
          BY <2>1, <2>2, <5>1
        <5>2. CASE i \in 1..written
          BY <2>1, <3>2, <4>2, <5>2
        <5> QED BY <1>0, <5>1, <5>2
      <4> QED BY <1>1, <2>1, <2>6, <3>2, <4>1, <4>2 DEF ConsumedInv, Before
    <3> QED BY <1>1, <3>1, <3>2
  <2> QED BY <2>5, <2>7
<1>4. CASE LogKept
  <2>1. written' = written /\ log' = log /\ position' = position /\ PendingKept
    BY <1>4 DEF LogKept
  <2>2. pend' => /\ rec'.n \in 1..events' /\ last' < rec'.n
                 /\ \A i \in 1..written : log[i].n < rec'.n
    <3>1. CASE pend /\ rec' = rec
      BY <1>0, <1>1, <3>1 DEF OrderInv
    <3>2. CASE rec'.n = events + 1 /\ events' = events + 1
      BY <1>0, <1>1, <3>2 DEF OrderInv
    <3> QED BY <2>1, <3>1, <3>2 DEF PendingKept
  <2>3. OrderInv'
    <3>1. \A i \in 1..written : log[i].n \in 1..events'
      BY <1>0 DEF OrderInv
    <3>2. last' \in 0..events'
      BY <1>0, <1>1
    <3> QED BY <2>1, <2>2, <3>1, <3>2 DEF OrderInv
  <2>4. header_up => header_up' /\ ring'[<<"hdr">>].written >= ring[<<"hdr">>].written
    BY <1>4, SessionStep DEF RingInv
  <2>5. CASE \A i \in 1..written : last' < log[i].n
    <3>1. \A i \in 1..written' : last' < log'[i].n
      BY <2>1, <2>5
    <3>2. consumed' \in Nat
      BY <1>1
    <3> QED BY <2>3, <3>1, <3>2 DEF ConsumedInv
  <2>6. CASE /\ header_up /\ consumed' <= ring[<<"hdr">>].written
             /\ poll'.at >= 2 => consumed' <= poll'.image[2].written
             /\ \A i \in 1..written : consumed' < i => last' < log[i].n
    <3>1. \A i \in 1..written' : consumed' < i => last' < log'[i].n
      BY <2>1, <2>6
    <3>2. consumed' <= ring'[<<"hdr">>].written /\ consumed' \in Nat
      <4>1. /\ ring[<<"hdr">>].written \in Int /\ ring'[<<"hdr">>].written \in Int
            /\ consumed' \in Nat
        BY <1>1, <1>5, <2>4, <2>6
      <4>2. /\ consumed' <= ring[<<"hdr">>].written
            /\ ring'[<<"hdr">>].written >= ring[<<"hdr">>].written
        BY <2>4, <2>6
      <4> QED BY <4>1, <4>2
    <3> QED BY <2>3, <2>4, <2>6, <3>1, <3>2 DEF ConsumedInv, Before
  <2> QED BY <1>1, <2>3, <2>5, <2>6
<1> QED BY <1>2, <1>3, <1>4, LogStep DEF RingInv

-----------------------------------------------------------------------------
LEMMA InitIInv == Init => IInv
<1> SUFFICES ASSUME Init PROVE IInv
  OBVIOUS
<1>1. TypeOK
  <2>1. MaxEvents \in Nat /\ MaxDropped \in Nat
    BY RingAssumption, WriterAssumption
  <2>2. NoEvent \in Records /\ NoEvent \in Values /\ <<"magic">> \in Words
    BY SlotTypes DEF NoEvent, Records, Values
  <2>3. WriterTypeOK
    <3>1. 0 \in 0..MaxDropped /\ wstate = "MAGIC" /\ written = 0 /\ event_count = 0
          /\ dropped_count = 0 /\ pub_dropped = 0 /\ pend = FALSE /\ quiesce_pending = FALSE
      BY <2>1 DEF Init, WriterInit
    <3>2. /\ ddram_we \in BOOLEAN /\ ddram_addr \in Words /\ ddram_din \in Values
          /\ rec \in Records
      BY <2>2 DEF Init, WriterInit
    <3> QED BY <3>1, <3>2 DEF WriterTypeOK
  <2>4. ring \in [Words -> Values]
    BY <2>2 DEF Init
  <2>5. log \in Seq(Records) /\ Len(log) = written
    BY DEF Init, WriterInit
  <2>6. position \in [1..MaxEvents -> Nat] /\ events \in 0..MaxEvents
    BY <2>1 DEF Init
  <2>7. active \in BOOLEAN /\ ddram_busy \in BOOLEAN /\ header_up \in BOOLEAN
    BY DEF Init
  <2> QED BY <2>3, <2>4, <2>5, <2>6, <2>7 DEF TypeOK
<1>2. RingInv
  BY DEF Init, WriterInit, RingInv, Flights, Counts, Published, Whole
<1>3. OrderInv
  BY RingAssumption DEF Init, WriterInit, OrderInv
<1>4. PollInv
  BY ImageFacts, SlotTypes DEF Init, PollInv, NoPoll
<1>5. ConsumedInv
  BY DEF Init, WriterInit, ConsumedInv
<1> QED BY <1>1, <1>2, <1>3, <1>4, <1>5 DEF IInv

LEMMA IInvStutter == IInv /\ UNCHANGED vars => IInv'
<1> SUFFICES ASSUME IInv, UNCHANGED vars PROVE IInv'
  OBVIOUS
<1> USE DEF IInv, vars, writerVars, countVars, eventVars, ringWriteVars, envVars, hostVars, ghostVars
<1>1. TypeOK'
  BY DEF TypeOK, WriterTypeOK
<1>2. RingInv'
  BY DEF RingInv, Flights, Counts, Published, Whole, InFlight, HeaderInFlight, Intact, InRecord,
         RecordSlot, Header
<1>3. OrderInv'
  BY DEF OrderInv
<1>4. PollInv'
  BY DEF PollInv, Running, Before, Intact, InRecord
<1>5. ConsumedInv'
  BY DEF ConsumedInv, Before
<1> QED BY <1>1, <1>2, <1>3, <1>4, <1>5

LEMMA Inductive == IInv /\ [Next]_vars => IInv'
<1>1. ASSUME IInv, Next PROVE IInv'
  BY <1>1, TypeStep, FlightsStep, CountsStep, PublishedStep, WholeStep, PollStep, OrderStep
    DEF IInv, RingInv
<1> QED BY <1>1, IInvStutter

(* The inductive invariant: what each state of the writer has in flight, the
   counts, the header of the slave against the writer's, whole records, the order
   of markers, and what a poll in progress has read. *)
THEOREM InvariantHolds == Spec => []IInv
<1> QED BY InitIInv, Inductive, PTL DEF Spec

(* "Disable and reset must not abandon a request the slave has not accepted yet":
   for every ring, a stalled write stays through the switch and the reset. *)
THEOREM StalledWriteStays == Spec => StalledRecordHeld
<1>1. ASSUME Next, ddram_we, ddram_busy
      PROVE  UNCHANGED ringWriteVars
  <2>1. PICK hit \in BOOLEAN : WriterClock(WriterPorts(hit))
    BY <1>1 DEF Next
  <2> DEFINE in == WriterPorts(hit)
  <2>2. in.busy /\ WriterClock(in)
    BY <1>1, <2>1 DEF WriterPorts
  <2> HIDE DEF in
  <2> QED BY <1>1, <2>2
      DEF WriterClock, Disable, QuiesceWriter, WriterStalls, writerVars, ringWriteVars
<1>2. [Next]_vars => [ddram_we /\ ddram_busy => UNCHANGED ringWriteVars]_vars
  BY <1>1
<1> QED BY <1>2, PTL DEF Spec, StalledRecordHeld

(* "A host that reads the header never sees a count pointing at a half-written
   record": for every size of the ring, of the records the header in DDR3 counts
   all but the oldest are whole. *)
THEOREM RecordsAreWhole == Spec => []CommittedIsWhole
<1>1. IInv => CommittedIsWhole
  <2> SUFFICES ASSUME IInv, header_up,
                      NEW i \in 1..WrittenIn(ring[<<"hdr">>]),
                      i > WrittenIn(ring[<<"hdr">>]) - RingEntries + 1
               PROVE  /\ ring[<<"a", (i - 1) % RingEntries>>] = log[i]
                      /\ ring[<<"b", (i - 1) % RingEntries>>] = log[i]
    BY DEF CommittedIsWhole
  <2>1. /\ WrittenIn(ring[<<"hdr">>]) = ring[<<"hdr">>].written
        /\ ring[<<"hdr">>].written \in {written - 1, written}
        /\ written \in Nat /\ N \in Nat
    BY SlotTypes DEF IInv, RingInv, Published, WrittenIn, Headers, TypeOK, WriterTypeOK
  <2>2. InRecord => ring[<<"hdr">>].written = written
    BY WordsDiffer
      DEF IInv, RingInv, Published, Flights, InFlight, HeaderInFlight, InRecord, Header
  <2>3. i \in 1..written /\ Intact(i)
    BY <2>1, <2>2 DEF Intact, N
  <2> QED BY <2>3 DEF IInv, RingInv, Whole, Slot
<1> QED BY <1>1, InvariantHolds, PTL

(* "Once the writer is idle, written + dropped equals every event the detector
   saw", and the header in DDR3 says so, whatever the limit of the drop counter. *)
THEOREM CountsAreTrue == Spec => []CountsAddUp
<1>1. IInv => CountsAddUp
  BY DEF IInv, TypeOK, WriterTypeOK, RingInv, Counts, Published, CountsAddUp, Settled, HeaderInFlight
<1> QED BY <1>1, InvariantHolds, PTL

(* Whatever the writer does while the host polls, each record handed out is both
   words of the one event with that index, and no event is handed out again. *)
THEOREM PollsAreTrue == Spec => HandedIsOwn
<1>1. ASSUME IInv, Next, handed' # handed, NEW k \in 1..Len(handed')
      PROVE  /\ handed'[k].a = handed'[k].b
             /\ position[handed'[k].a.n] = handed'[k].index
             /\ handed'[k].a.n > IF k = 1 THEN last ELSE handed'[k - 1].a.n
  <2>1. PollEnds
    BY <1>1 DEF Next, HostStep, PollReads, hostVars
  <2>2. /\ Before \in Nat /\ First \in Nat /\ First >= Base(Before) /\ poll.at >= 2
        /\ First >= Before => handed' = <<>>
        /\ First < Before =>
             /\ Len(handed') = Before - First
             /\ \A m \in 1..(Before - First) :
                  /\ First + m \in 1..written
                  /\ handed'[m].index = First + m
                  /\ handed'[m].a = log[First + m] /\ handed'[m].b = log[First + m]
    BY <1>1, <2>1, HandedOut DEF IInv
  <2>3. First < Before /\ k \in 1..(Before - First)
    BY <1>1, <2>2
  <2>4. /\ handed'[k].a = log[First + k] /\ handed'[k].b = log[First + k]
        /\ handed'[k].index = First + k /\ First + k \in 1..written
    BY <2>2, <2>3
  <2>5. position[log[First + k].n] = First + k
    BY <1>1, <2>4 DEF IInv, OrderInv
  <2>6. CASE k = 1
    <3>1. \/ \A i \in 1..written : last < log[i].n
          \/ consumed <= Before /\ \A i \in 1..written : consumed < i => last < log[i].n
      BY <1>1, <2>2 DEF IInv, ConsumedInv
    <3>2. consumed <= Before => consumed < First + 1
      BY <1>1, <2>2 DEF IInv, ConsumedInv, Base
    <3>3. last < log[First + 1].n
      BY <2>4, <2>6, <3>1, <3>2
    <3>4. last \in Int /\ log[First + 1].n \in Int
      BY <1>1, <2>4, <2>6, RingAssumption DEF IInv, OrderInv, TypeOK
    <3> QED BY <2>4, <2>5, <2>6, <3>3, <3>4
  <2>7. CASE k # 1
    <3>1. k - 1 \in 1..(Before - First) /\ First + (k - 1) \in 1..written
          /\ First + (k - 1) < First + k
      BY <1>1, <2>2, <2>3, <2>4, <2>7 DEF IInv, TypeOK, WriterTypeOK
    <3>2. handed'[k - 1].a = log[First + (k - 1)]
      BY <2>2, <2>3, <3>1
    <3>3. log[First + (k - 1)].n < log[First + k].n
      BY <1>1, <2>4, <3>1 DEF IInv, OrderInv
    <3>4. log[First + (k - 1)].n \in Int /\ log[First + k].n \in Int
      BY <1>1, <2>4, <3>1, RingAssumption DEF IInv, OrderInv, TypeOK
    <3> QED BY <2>4, <2>5, <2>7, <3>2, <3>3, <3>4
  <2> QED BY <2>6, <2>7
<1>2. IInv /\ [Next]_vars =>
        [handed' # handed =>
           \A k \in 1..Len(handed') :
              /\ handed'[k].a = handed'[k].b
              /\ position[handed'[k].a.n] = handed'[k].index
              /\ handed'[k].a.n > IF k = 1 THEN last ELSE handed'[k - 1].a.n]_vars
  BY <1>1
<1> QED BY <1>2, InvariantHolds, PTL DEF Spec, HandedIsOwn
=============================================================================
