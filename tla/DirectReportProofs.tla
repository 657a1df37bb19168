------------------------- MODULE DirectReportProofs -------------------------
(***************************************************************************)
(* Direct report, both halves.                                             *)
(*                                                                         *)
(* The ring (DirectBuffer): no torn sample goes unnoticed, for any ring    *)
(* and any number of sensors.                                              *)
(* The slots outside the one being written are whole (SlotsAreWhole), the  *)
(* one being written is whole up to the field its writer is at             *)
(* (WriterIsAt), and so is what the reader has of a slot no writer touched *)
(* since it looked at the counter (ReaderHasWhole).                        *)
(* Samples come in order: each slot's counter is that of the latest sample *)
(* that has its place there (SlotsHoldLatest), and what the reader has of  *)
(* a slot is that sample or one at least a lap older (ReaderFollows).  One *)
(* that nobody disturbs reads up to mWritePos and no further (QuietInv).   *)
(*                                                                         *)
(* The times (SampleTiming): the schedules of a sensor's run thread, for   *)
(* any periods and channels and any delay of the thread.  The times of the *)
(* next samples are rounded to floats, which are further apart the longer  *)
(* the device is up: where rounding is off by R at most (FloatsWithin), a  *)
(* sample is at most 2 R early or late, and where floats are exact (R = 0) *)
(* it is neither.                                                          *)
(***************************************************************************)
EXTENDS DirectBuffer, SampleTiming, SequenceTheorems, TLAPS

Reader == [at: {"start", "before", "behind", "ended"}, offset: Nat, last: Int, counter: Nat, before: Nat,
           events: Seq(Event), overwritten: BOOLEAN, quiet: BOOLEAN]

Types ==
  /\ mData \in [Slots -> Slot]
  /\ mWritePos \in Nat /\ mWritePos \in Slots \union {0} /\ (Size > 0 => mWritePos \in Slots)
  /\ mCounter \in Nat
  /\ mutex \in Sensors \union {Nobody}
  /\ writing \in [Sensors -> {"no", "before", "behind", "counter", "done"}]
  /\ registered \in BOOLEAN
  /\ reader \in Reader

(* mChannelMutex: only its holder writes.                                  *)
OneWriter == \A s \in Sensors : writing[s] # "no" => mutex = s /\ mWritePos \in Slots

Whole(slot) == slot.before = slot.counter /\ slot.behind = slot.counter

BeingWritten(i) == i = mWritePos /\ \E s \in Sensors : writing[s] \in {"behind", "counter"}

SlotsAreWhole == \A i \in Slots : ~BeingWritten(i) => Whole(mData[i])

WriterIsAt ==
  \A s \in Sensors :
    /\ writing[s] \in {"behind", "counter"} => mData[mWritePos].before = mCounter
    /\ writing[s] = "counter" => mData[mWritePos].behind = mCounter

ReaderHasWhole ==
  /\ reader.at \in {"before", "behind"} => reader.offset \in Slots
  /\ reader.at \in {"before", "behind"} /\ ~reader.overwritten =>
       /\ ~BeingWritten(reader.offset)
       /\ mData[reader.offset].counter = reader.counter
  /\ reader.at = "behind" /\ ~reader.overwritten => reader.before = reader.counter

BufferInv ==
  /\ Types /\ OneWriter /\ SlotsAreWhole /\ WriterIsAt /\ ReaderHasWhole /\ WholeUnlessOverwritten

LEMMA InitHolds == BufferAssumption /\ BufferInit => BufferInv
<1> SUFFICES ASSUME BufferAssumption, BufferInit PROVE BufferInv
  OBVIOUS
<1>1. /\ mData = [i \in Slots |-> Empty] /\ mWritePos = 0 /\ mCounter = 1 /\ mutex = Nobody
      /\ writing = [s \in Sensors |-> "no"] /\ reader = NotReading /\ registered = TRUE
  BY DEF BufferInit
<1>2. Empty \in Slot /\ Whole(Empty)
  BY DEF Empty, Slot, Whole
<1>3. NotReading \in Reader
  <2>1. <<>> \in Seq(Event)
    OBVIOUS
  <2> QED BY <2>1 DEF NotReading, Reader
<1>4. registered \in BOOLEAN
  BY <1>1, Zenon
<1>5. Types
  BY <1>1, <1>2, <1>3, <1>4 DEF Types, Slots, BufferAssumption
<1>6. OneWriter /\ WriterIsAt /\ SlotsAreWhole
  BY <1>1, <1>2 DEF OneWriter, WriterIsAt, SlotsAreWhole
<1>7. ReaderHasWhole /\ WholeUnlessOverwritten
  BY <1>1 DEF ReaderHasWhole, WholeUnlessOverwritten, NotReading
<1> QED BY <1>5, <1>6, <1>7 DEF BufferInv

(* mChannelMutex is free, so nobody else is in write().                    *)
LEMMA BeginKeeps == ASSUME BufferAssumption, BufferInv, NEW s \in Sensors, BeginWrite(s) PROVE BufferInv'
<1>1. /\ writing' = [writing EXCEPT ![s] = "before"] /\ mutex' = s /\ mutex = Nobody /\ Size > 0
      /\ UNCHANGED <<mData, mWritePos, mCounter, registered, reader>>
  BY DEF BeginWrite, TryLock, ringVars
<1>2. \A t \in Sensors : writing[t] = "no"
  BY <1>1 DEF BufferInv, OneWriter, BufferAssumption, Nobody
<1>3. /\ writing'[s] = "before"
      /\ \A t \in Sensors : t # s => writing'[t] = "no"
  BY <1>1, <1>2 DEF BufferInv, Types
<1>4. Types' /\ OneWriter'
  BY <1>1, <1>3 DEF BufferInv, Types, OneWriter, BufferAssumption
<1>5. \A i \in Slots : ~BeingWritten(i) /\ ~BeingWritten(i)'
  BY <1>2, <1>3 DEF BeingWritten
<1>6. SlotsAreWhole' /\ WriterIsAt' /\ ReaderHasWhole'
  BY <1>1, <1>3, <1>5 DEF BufferInv, SlotsAreWhole, WriterIsAt, ReaderHasWhole, Whole
<1>7. WholeUnlessOverwritten'
  BY <1>1 DEF BufferInv, WholeUnlessOverwritten
<1> QED BY <1>4, <1>6, <1>7 DEF BufferInv

(* One field of the slot changes; a reader that is at the slot notices.    *)
LEMMA WriteKeeps == ASSUME BufferAssumption, BufferInv, NEW s \in Sensors, WriteField(s) PROVE BufferInv'
<1> DEFINE field == writing[s]
           old == mData[mWritePos]
           new == [before  |-> IF field = "before" THEN mCounter ELSE old.before,
                   counter |-> IF field = "counter" THEN mCounter ELSE old.counter,
                   behind  |-> IF field = "behind" THEN mCounter ELSE old.behind]
<1>1. /\ field \in {"before", "behind", "counter"}
      /\ writing' = [writing EXCEPT ![s] = NextField(field)]
      /\ UNCHANGED <<mWritePos, mCounter, mutex, registered>>
  BY DEF WriteField
<1>2. mutex = s /\ mWritePos \in Slots /\ old \in Slot /\ mCounter \in Nat
  BY <1>1 DEF BufferInv, OneWriter, Types
<1>3. new \in Slot /\ mData' = [mData EXCEPT ![mWritePos] = new]
  <2>1. old = [before |-> old.before, counter |-> old.counter, behind |-> old.behind]
    BY <1>2 DEF Slot
  <2>2. [old EXCEPT ![field] = mCounter] = new
    BY <2>1, <1>1
  <2>3. mData' = [mData EXCEPT ![mWritePos] = [old EXCEPT ![field] = mCounter]]
    BY DEF WriteField
  <2> QED BY <1>2, <2>2, <2>3 DEF Slot
<1>4. /\ reader' \in Reader
      /\ UNCHANGED <<reader.at, reader.offset, reader.counter, reader.before, reader.events>>
      /\ reader'.overwritten <=> reader.overwritten \/ IsRead(mWritePos)
  <2>1. reader \in Reader /\ IsRead(mWritePos) \in BOOLEAN
    BY DEF BufferInv, Types, IsRead
  <2>2. reader' = [reader EXCEPT !.quiet = FALSE, !.overwritten = @ \/ IsRead(mWritePos)]
    BY DEF WriteField
  <2> QED BY <2>1, <2>2 DEF Reader
<1>5. /\ writing'[s] = NextField(field)
      /\ \A t \in Sensors : t # s => writing[t] = "no" /\ writing'[t] = "no"
      /\ writing' \in [Sensors -> {"no", "before", "behind", "counter", "done"}]
  <2>1. \A t \in Sensors : t # s => writing[t] = "no"
    BY <1>2 DEF BufferInv, OneWriter
  <2>2. NextField(field) \in {"behind", "counter", "done"}
    BY <1>1 DEF NextField
  <2> QED BY <1>1, <2>1, <2>2 DEF BufferInv, Types
<1>6. Types' /\ OneWriter'
  BY <1>1, <1>2, <1>3, <1>4, <1>5 DEF BufferInv, Types, OneWriter
<1>7. /\ mData'[mWritePos] = new
      /\ \A i \in Slots : i # mWritePos => mData'[i] = mData[i]
  BY <1>2, <1>3 DEF BufferInv, Types
<1>8. /\ field = "before" => Whole(old)
      /\ field \in {"behind", "counter"} => old.before = mCounter
      /\ field = "counter" => old.behind = mCounter
  BY <1>2, <1>5 DEF BufferInv, SlotsAreWhole, BeingWritten, WriterIsAt
<1>9. WriterIsAt'
  BY <1>1, <1>5, <1>7, <1>8 DEF WriterIsAt, NextField
<1>10. \A i \in Slots : i # mWritePos => ~BeingWritten(i) /\ ~BeingWritten(i)'
  BY <1>1 DEF BeingWritten
<1>11. SlotsAreWhole'
  <2> SUFFICES ASSUME NEW i \in Slots, ~BeingWritten(i)' PROVE Whole(mData'[i])
    BY DEF SlotsAreWhole
  <2>1. CASE i # mWritePos
    BY <1>7, <1>10, <2>1 DEF BufferInv, SlotsAreWhole
  <2>2. CASE i = mWritePos
    <3>1. field = "counter"
      BY <1>1, <1>5, <2>2 DEF BeingWritten, NextField
    <3> QED BY <1>7, <1>8, <2>2, <3>1 DEF Whole
  <2> QED BY <2>1, <2>2
<1>12. ReaderHasWhole'
  <2>1. reader.at \in {"before", "behind"} /\ ~reader'.overwritten =>
          ~reader.overwritten /\ reader.offset \in Slots /\ reader.offset # mWritePos
    BY <1>4 DEF IsRead, BufferInv, ReaderHasWhole
  <2> QED BY <1>4, <1>7, <1>10, <2>1 DEF BufferInv, ReaderHasWhole
<1>13. WholeUnlessOverwritten'
  BY <1>4 DEF BufferInv, WholeUnlessOverwritten
<1> QED BY <1>6, <1>9, <1>11, <1>12, <1>13 DEF BufferInv

(* The slot is whole by then.                                              *)
LEMMA EndKeeps == ASSUME BufferAssumption, BufferInv, NEW s \in Sensors, EndWrite(s) PROVE BufferInv'
<1>1. /\ writing[s] = "done" /\ mCounter' = mCounter + 1 /\ mWritePos' = NextWritePos /\ mutex' = Nobody
      /\ writing' = [writing EXCEPT ![s] = "no"]
      /\ UNCHANGED <<mData, registered, reader>>
  BY DEF EndWrite
<1>2. /\ mutex = s /\ mWritePos \in Slots
      /\ \A t \in Sensors : t # s => writing[t] = "no"
  BY <1>1 DEF BufferInv, OneWriter
<1>3. mWritePos' \in Slots /\ mWritePos' \in Nat
  BY <1>1, <1>2 DEF NextWritePos, Slots, BufferAssumption
<1>4. \A t \in Sensors : writing'[t] = "no"
  BY <1>1, <1>2 DEF BufferInv, Types
<1>5. Types' /\ OneWriter'
  BY <1>1, <1>3, <1>4 DEF BufferInv, Types, OneWriter, Nobody
<1>6. \A i \in Slots : ~BeingWritten(i) /\ ~BeingWritten(i)'
  BY <1>1, <1>2, <1>4 DEF BeingWritten
<1>7. SlotsAreWhole' /\ WriterIsAt' /\ ReaderHasWhole'
  BY <1>1, <1>4, <1>6 DEF BufferInv, SlotsAreWhole, WriterIsAt, ReaderHasWhole
<1>8. WholeUnlessOverwritten'
  BY <1>1 DEF BufferInv, WholeUnlessOverwritten
<1> QED BY <1>5, <1>7, <1>8 DEF BufferInv

LEMMA ClearKeeps == ASSUME BufferAssumption, BufferInv, ClearBuffer PROVE BufferInv'
<1>1. /\ mutex = Nobody /\ mData' = [i \in Slots |-> Empty] /\ registered' = FALSE
      /\ reader' = [reader EXCEPT !.quiet = FALSE, !.overwritten = TRUE]
      /\ UNCHANGED <<mWritePos, mCounter, mutex, writing>>
  BY DEF ClearBuffer
<1>2. \A s \in Sensors : writing[s] = "no"
  BY <1>1 DEF BufferInv, OneWriter, BufferAssumption, Nobody
<1>3. /\ reader' \in Reader
      /\ UNCHANGED <<reader.at, reader.offset, reader.counter, reader.before, reader.events>>
      /\ reader'.overwritten
  BY <1>1 DEF BufferInv, Types, Reader
<1>4. Empty \in Slot /\ Whole(Empty)
  BY DEF Empty, Slot, Whole
<1>5. registered' \in BOOLEAN
  BY <1>1, Zenon
<1>6. Types'
  BY <1>1, <1>3, <1>4, <1>5 DEF BufferInv, Types
<1>7. OneWriter' /\ SlotsAreWhole' /\ WriterIsAt'
  BY <1>1, <1>2, <1>4 DEF OneWriter, SlotsAreWhole, WriterIsAt
<1>8. ReaderHasWhole' /\ WholeUnlessOverwritten'
  BY <1>3 DEF BufferInv, ReaderHasWhole, WholeUnlessOverwritten
<1> QED BY <1>6, <1>7, <1>8 DEF BufferInv

(* parseEvents()                                                           *)
LEMMA ReaderKeeps ==
  ASSUME BufferAssumption, BufferInv, UNCHANGED <<ringVars, mutex, writing, registered>>, reader' \in Reader,
         ReaderHasWhole', WholeUnlessOverwritten'
  PROVE  BufferInv'
<1>1. UNCHANGED <<mData, mWritePos, mCounter, mutex, writing, registered>>
  BY DEF ringVars
<1>2. Types' /\ OneWriter' /\ SlotsAreWhole' /\ WriterIsAt'
  BY <1>1 DEF BufferInv, Types, OneWriter, SlotsAreWhole, WriterIsAt, BeingWritten
<1> QED BY <1>2 DEF BufferInv

LEMMA ReadCounterKeeps == ASSUME BufferAssumption, BufferInv, ReadCounter PROVE BufferInv'
<1>1. /\ reader.offset \in Slots /\ reader \in Reader
      /\ reader' = [reader EXCEPT !.at = "before", !.counter = mData[reader.offset].counter,
                                  !.overwritten = HalfWritten(reader.offset)]
      /\ UNCHANGED <<mData, mWritePos, mCounter, mutex, writing, registered>>
  BY DEF ReadCounter, BufferInv, Types, ringVars
<1>2. HalfWritten(reader.offset) \in BOOLEAN /\ (HalfWritten(reader.offset) <=> BeingWritten(reader.offset))
  BY DEF HalfWritten, BeingWritten
<1>3. mData[reader.offset].counter \in Nat
  BY <1>1 DEF BufferInv, Types, Slot
<1>4. /\ reader' \in Reader
      /\ reader'.at = "before" /\ reader'.counter = mData[reader.offset].counter
      /\ reader'.overwritten <=> HalfWritten(reader.offset)
      /\ UNCHANGED <<reader.offset, reader.events>>
  BY <1>1, <1>2, <1>3 DEF Reader
<1>5. BeingWritten(reader.offset)' <=> BeingWritten(reader.offset)
  BY <1>1, <1>4 DEF BeingWritten
<1>6. ReaderHasWhole'
  BY <1>1, <1>2, <1>4, <1>5 DEF ReaderHasWhole
<1>7. WholeUnlessOverwritten'
  BY <1>4 DEF BufferInv, WholeUnlessOverwritten
<1> QED BY <1>1, <1>4, <1>6, <1>7, ReaderKeeps DEF ReadCounter

LEMMA ReadBeforeKeeps == ASSUME BufferAssumption, BufferInv, ReadBefore PROVE BufferInv'
<1> DEFINE slot == mData[reader.offset]
<1>1. /\ reader.at = "before" /\ reader \in Reader /\ reader.offset \in Slots
      /\ UNCHANGED <<mData, mWritePos, mCounter, mutex, writing, registered>>
  BY DEF ReadBefore, BufferInv, Types, ringVars, ReaderHasWhole
<1>2. slot \in Slot /\ (~BeingWritten(reader.offset) => Whole(slot))
  BY <1>1 DEF BufferInv, Types, SlotsAreWhole
<1>3. CASE slot.before = 0
  <2>1. reader' = [reader EXCEPT !.at = "ended", !.events = <<>>]
    BY <1>3 DEF ReadBefore
  <2>2. reader' \in Reader /\ reader'.at = "ended" /\ reader'.events = <<>>
    <3>1. <<>> \in Seq(Event)
      OBVIOUS
    <3> QED BY <1>1, <2>1, <3>1 DEF Reader
  <2>3. ReaderHasWhole' /\ WholeUnlessOverwritten'
    BY <2>2 DEF ReaderHasWhole, WholeUnlessOverwritten
  <2> QED BY <1>1, <2>2, <2>3, ReaderKeeps DEF ReadBefore
<1>4. CASE slot.before # 0
  <2>1. reader' = [reader EXCEPT !.at = "behind", !.before = slot.before]
    BY <1>4 DEF ReadBefore
  <2>2. /\ reader' \in Reader /\ reader'.at = "behind" /\ reader'.before = slot.before
        /\ UNCHANGED <<reader.offset, reader.counter, reader.overwritten, reader.events>>
    BY <1>1, <1>2, <2>1 DEF Reader, Slot
  <2>3. BeingWritten(reader.offset)' <=> BeingWritten(reader.offset)
    BY <1>1, <2>2 DEF BeingWritten
  <2>4. ReaderHasWhole'
    BY <1>1, <1>2, <2>2, <2>3 DEF BufferInv, ReaderHasWhole, Whole
  <2>5. WholeUnlessOverwritten'
    BY <2>2 DEF BufferInv, WholeUnlessOverwritten
  <2> QED BY <1>1, <2>2, <2>4, <2>5, ReaderKeeps DEF ReadBefore
<1> QED BY <1>3, <1>4

LEMMA ReadBehindKeeps == ASSUME BufferAssumption, BufferInv, ReadBehind PROVE BufferInv'
<1> DEFINE slot == mData[reader.offset]
           event == [before |-> reader.before, counter |-> reader.counter, behind |-> slot.behind,
                     overwritten |-> reader.overwritten]
<1>1. /\ reader.at = "behind" /\ reader \in Reader /\ reader.offset \in Slots /\ slot \in Slot
      /\ reader' = [reader EXCEPT !.at = "start", !.events = Append(@, event), !.last = reader.counter,
                                  !.offset = @ + 1]
  BY DEF ReadBehind, BufferInv, Types, ReaderHasWhole
<1>2. event \in Event
  BY <1>1 DEF Event, Reader, Slot
<1>3. ~event.overwritten => event.before = event.counter /\ event.behind = event.counter
  BY <1>1 DEF BufferInv, ReaderHasWhole, SlotsAreWhole, Whole
<1> HIDE DEF event
<1>4. reader' \in Reader /\ reader'.at = "start" /\ reader'.events = Append(reader.events, event)
  <2>1. reader.events \in Seq(Event) /\ reader.counter \in Int /\ reader.offset + 1 \in Nat
    BY <1>1 DEF Reader
  <2>2. Append(reader.events, event) \in Seq(Event)
    BY <1>2, <2>1
  <2> QED BY <1>1, <2>1, <2>2 DEF Reader
<1>5. ReaderHasWhole'
  BY <1>4 DEF ReaderHasWhole
<1>6. WholeUnlessOverwritten'
  <2>1. reader.events \in Seq(Event)
    BY <1>1 DEF Reader
  <2> SUFFICES ASSUME NEW k \in DOMAIN reader'.events, ~reader'.events[k].overwritten
               PROVE  /\ reader'.events[k].before = reader'.events[k].counter
                      /\ reader'.events[k].behind = reader'.events[k].counter
    BY DEF WholeUnlessOverwritten
  <2>2. \/ k \in DOMAIN reader.events /\ reader'.events[k] = reader.events[k]
        \/ reader'.events[k] = event
    BY <1>2, <1>4, <2>1
  <2> QED BY <1>3, <2>2 DEF BufferInv, WholeUnlessOverwritten
<1> QED BY <1>4, <1>5, <1>6, ReaderKeeps DEF ReadBehind

LEMMA ParseKeeps == ASSUME BufferAssumption, BufferInv, ParseEnds \/ ParseAgain PROVE BufferInv'
<1>1. CASE ParseEnds
  <2>1. reader' = [reader EXCEPT !.at = "ended"] /\ reader \in Reader
    BY <1>1 DEF ParseEnds, BufferInv, Types
  <2>2. reader' \in Reader /\ reader'.at = "ended" /\ UNCHANGED reader.events
    BY <2>1 DEF Reader
  <2>3. ReaderHasWhole' /\ WholeUnlessOverwritten'
    BY <2>2 DEF BufferInv, ReaderHasWhole, WholeUnlessOverwritten
  <2> QED BY <1>1, <2>2, <2>3, ReaderKeeps DEF ParseEnds
<1>2. CASE ParseAgain
  <2>1. reader' = NotReading /\ <<>> \in Seq(Event)
    BY <1>2 DEF ParseAgain
  <2>2. reader' \in Reader
    BY <2>1 DEF NotReading, Reader
  <2>3. ReaderHasWhole' /\ WholeUnlessOverwritten'
    BY <2>1 DEF NotReading, ReaderHasWhole, WholeUnlessOverwritten
  <2> QED BY <1>2, <2>2, <2>3, ReaderKeeps DEF ParseAgain
<1> QED BY <1>1, <1>2

LEMMA NextKeeps == ASSUME BufferAssumption, BufferInv, [BufferNext]_bufferVars PROVE BufferInv'
<1>1. CASE \E s \in Sensors : BeginWrite(s) \/ WriteField(s) \/ EndWrite(s)
  BY <1>1, BeginKeeps, WriteKeeps, EndKeeps
<1>2. CASE ClearBuffer
  BY <1>2, ClearKeeps
<1>3. CASE ReadCounter \/ ReadBefore \/ ReadBehind
  BY <1>3, ReadCounterKeeps, ReadBeforeKeeps, ReadBehindKeeps
<1>4. CASE ParseEnds \/ ParseAgain
  BY <1>4, ParseKeeps
<1>5. CASE UNCHANGED bufferVars
  <2>1. UNCHANGED <<ringVars, mutex, writing, registered, reader>>
    BY <1>5 DEF bufferVars
  <2>2. reader' \in Reader /\ ReaderHasWhole' /\ WholeUnlessOverwritten'
    BY <2>1 DEF BufferInv, Types, ReaderHasWhole, WholeUnlessOverwritten, BeingWritten, ringVars
  <2> QED BY <2>1, <2>2, ReaderKeeps
<1> QED BY <1>1, <1>2, <1>3, <1>4, <1>5 DEF BufferNext

(* The ring and its reader, whatever the ring's size and however many run  *)
(* threads write (LockfreeBuffer::write).                                  *)
THEOREM BufferInvariant == BufferSpec => []BufferInv
BY BufferAssumption, InitHolds, NextKeeps, PTL DEF BufferSpec

(* Type correctness of the ring and its reader.                            *)
THEOREM BufferTypeCorrect == BufferSpec => []BufferTypeOK
<1>1. BufferInv => BufferTypeOK
  <2> SUFFICES ASSUME BufferInv PROVE BufferTypeOK
    OBVIOUS
  <2> QED BY DEF BufferInv, Types, Reader, BufferTypeOK
<1> QED BY <1>1, BufferInvariant, PTL

(* A sample parseEvents() returns is whole unless a writer came around to  *)
(* it, or the channel was cleared, while it was read (the order of parts   *)
(* and counter in LockfreeBuffer::write, under mChannelMutex).             *)
THEOREM NoTornSample == BufferSpec => []WholeUnlessOverwritten
<1>1. BufferInv => WholeUnlessOverwritten
  BY DEF BufferInv
<1> QED BY <1>1, BufferInvariant, PTL

-----------------------------------------------------------------------------
(* The order of samples.  Slot i holds the latest of the samples that have *)
(* their place there, Holds(i), if there is one; a reader has that sample, *)
(* or one that is at least a lap older (IsBehind).                         *)

Stored(i) == i = mWritePos /\ \E s \in Sensors : writing[s] = "done"

Holds(i) ==
  IF Stored(i) THEN mCounter
  ELSE IF i < mWritePos THEN mCounter - (mWritePos - i)
  ELSE mCounter - (mWritePos - i) - Size

SlotsHoldLatest ==
  /\ mCounter >= 1
  /\ registered => \A i \in Slots : mData[i].counter = IF Holds(i) > 0 THEN Holds(i) ELSE 0
  /\ ~registered => mutex = Nobody /\ \A i \in Slots : mData[i].counter = 0

IsBehind(n, i) == registered /\ n > 0 => n = Holds(i) \/ n + Size <= Holds(i)

FollowsBy(n, m) == m >= n + 1 /\ (m # n + 1 => mCounter > n + Size)

LastEvent == IF reader.events = <<>> THEN -1 ELSE reader.events[Len(reader.events)].counter

ReaderFollows ==
  /\ reader.at # "ended" => reader.offset = Len(reader.events) /\ reader.last = LastEvent
  /\ reader.at = "start" /\ reader.offset > 0 =>
       reader.offset - 1 \in Slots /\ IsBehind(reader.last, reader.offset - 1)
  /\ reader.at \in {"before", "behind"} =>
       /\ IsBehind(reader.counter, reader.offset)
       /\ reader.last > 0 => FollowsBy(reader.last, reader.counter)

InOrder ==
  \A k \in DOMAIN reader.events : k > 1 /\ reader.events[k - 1].counter > 0 =>
    FollowsBy(reader.events[k - 1].counter, reader.events[k].counter)

OrderInv == SlotsHoldLatest /\ ReaderFollows /\ OverwrittenByALap /\ InOrder

LEMMA HoldsIsInt ==
  ASSUME BufferAssumption, BufferInv
  PROVE  Slots \subseteq Int /\ \A i \in Slots : Holds(i) \in Int /\ Holds(i) <= mCounter
BY DEF BufferInv, Types, Holds, Slots, BufferAssumption

(* The next slot holds the next sample, or, where the writer is, one that  *)
(* is a lap behind the next.                                               *)
LEMMA NextSlotHolds ==
  ASSUME BufferAssumption, BufferInv, NEW i \in Slots, i + 1 \in Slots
  PROVE  Holds(i + 1) = Holds(i) + 1 \/ Holds(i + 1) = Holds(i) + 1 - Size
<1>1. /\ i \in Int /\ mWritePos \in Int /\ mCounter \in Int /\ Size \in Int
  BY DEF BufferInv, Types, Slots, BufferAssumption
<1>2. CASE \E s \in Sensors : writing[s] = "done"
  BY <1>1, <1>2 DEF Holds, Stored
<1>3. CASE ~\E s \in Sensors : writing[s] = "done"
  BY <1>1, <1>3 DEF Holds, Stored
<1> QED BY <1>2, <1>3

LEMMA OrderInit == ASSUME BufferAssumption, BufferInit PROVE OrderInv
<1>1. /\ mData = [i \in Slots |-> Empty] /\ mWritePos = 0 /\ mCounter = 1 /\ registered = TRUE
      /\ writing = [s \in Sensors |-> "no"] /\ reader = NotReading
  BY DEF BufferInit
<1>2. \A i \in Slots : mData[i].counter = 0 /\ ~Stored(i) /\ i >= 0 /\ i <= Size - 1 /\ i \in Int
  BY <1>1 DEF Empty, Slots, Stored, BufferAssumption
<1>3. SlotsHoldLatest
  BY <1>1, <1>2 DEF SlotsHoldLatest, Holds, BufferAssumption
<1>4. ReaderFollows /\ OverwrittenByALap /\ InOrder
  BY <1>1 DEF ReaderFollows, OverwrittenByALap, InOrder, NotReading, LastEvent
<1> QED BY <1>3, <1>4 DEF OrderInv

(* What a step of a writer has to keep: no slot holds an older sample, one *)
(* it puts in is a lap newer.                                              *)
LEMMA WriterKeepsOrder ==
  ASSUME BufferAssumption, BufferInv, OrderInv, mCounter' \in Nat, mCounter' >= mCounter,
         UNCHANGED <<registered, reader.at, reader.offset, reader.last, reader.counter, reader.events>>,
         \A i \in Slots : Holds(i)' = Holds(i) \/ Holds(i)' = Holds(i) + Size
  PROVE  ReaderFollows' /\ InOrder'
<1>1. /\ reader \in Reader /\ Size \in Nat /\ mCounter \in Nat
      /\ \A i \in Slots : Holds(i) \in Int
      /\ reader.at \in {"before", "behind"} => reader.offset \in Slots
  BY HoldsIsInt DEF BufferInv, Types, BufferAssumption, ReaderHasWhole
<1>2. /\ reader.counter \in Nat /\ reader.last \in Int /\ reader.events \in Seq(Event)
  BY <1>1 DEF Reader
<1>3. ASSUME NEW n \in Int, NEW i \in Slots, IsBehind(n, i) PROVE IsBehind(n, i)'
  BY <1>1, <1>3 DEF IsBehind
<1>4. ASSUME NEW n \in Int, NEW m \in Int, FollowsBy(n, m) PROVE FollowsBy(n, m)'
  BY <1>1, <1>4 DEF FollowsBy
<1>5. LastEvent' = LastEvent
  BY DEF LastEvent
<1>6. ReaderFollows'
  <2>1. reader.at = "start" /\ reader.offset > 0 => IsBehind(reader.last, reader.offset - 1)'
    BY <1>2, <1>3 DEF OrderInv, ReaderFollows, IsBehind
  <2>2. reader.at \in {"before", "behind"} => IsBehind(reader.counter, reader.offset)'
    BY <1>1, <1>2, <1>3 DEF OrderInv, ReaderFollows, IsBehind
  <2>3. reader.at \in {"before", "behind"} /\ reader.last > 0 => FollowsBy(reader.last, reader.counter)'
    <3>1. reader.at \in {"before", "behind"} /\ reader.last > 0 => FollowsBy(reader.last, reader.counter)
      BY DEF OrderInv, ReaderFollows
    <3> QED BY <1>1, <1>2, <3>1 DEF FollowsBy
  <2> QED BY <1>5, <2>1, <2>2, <2>3 DEF OrderInv, ReaderFollows
<1>7. InOrder'
  <2> SUFFICES ASSUME NEW k \in DOMAIN reader.events, k > 1, reader.events[k - 1].counter > 0
               PROVE  FollowsBy(reader.events[k - 1].counter, reader.events[k].counter)'
    BY DEF InOrder
  <2>1. k \in DOMAIN reader.events /\ k - 1 \in DOMAIN reader.events
    BY <1>2
  <2>2. reader.events[k - 1].counter \in Int /\ reader.events[k].counter \in Int
    <3>1. reader.events[k - 1] \in Event /\ reader.events[k] \in Event
      BY <1>2, <2>1
    <3> QED BY <3>1 DEF Event
  <2>3. FollowsBy(reader.events[k - 1].counter, reader.events[k].counter)
    BY DEF OrderInv, InOrder
  <2> QED BY <1>4, <2>2, <2>3 DEF FollowsBy
<1> QED BY <1>6, <1>7

LEMMA BeginOrder ==
  ASSUME BufferAssumption, BufferInv, OrderInv, NEW s \in Sensors, BeginWrite(s)
  PROVE  OrderInv'
<1>1. /\ registered /\ mutex = Nobody /\ writing' = [writing EXCEPT ![s] = "before"]
      /\ UNCHANGED <<mData, mWritePos, mCounter, registered, reader>>
  BY DEF BeginWrite, TryLock, ringVars
<1>2. \A t \in Sensors : writing[t] = "no" /\ writing'[t] # "done"
  BY <1>1 DEF BufferInv, Types, OneWriter, BufferAssumption, Nobody
<1>3. \A i \in Slots : ~Stored(i) /\ ~Stored(i)'
  BY <1>1, <1>2 DEF Stored
<1>4. \A i \in Slots : Holds(i)' = Holds(i)
  BY <1>1, <1>3 DEF Holds
<1>5. mCounter \in Nat
  BY DEF BufferInv, Types
<1>6. ReaderFollows' /\ InOrder'
  BY <1>1, <1>4, <1>5, WriterKeepsOrder
<1>7. SlotsHoldLatest' /\ OverwrittenByALap'
  BY <1>1, <1>4 DEF OrderInv, SlotsHoldLatest, OverwrittenByALap
<1> QED BY <1>6, <1>7 DEF OrderInv

(* Before its counter is stored a slot holds the sample of a lap ago: a    *)
(* reader that is at it has that one, or an older one.                     *)
LEMMA WriteOrder ==
  ASSUME BufferAssumption, BufferInv, OrderInv, NEW s \in Sensors, WriteField(s)
  PROVE  OrderInv'
<1> DEFINE field == writing[s]
<1>1. /\ field \in {"before", "behind", "counter"}
      /\ writing' = [writing EXCEPT ![s] = NextField(field)]
      /\ mData' = [mData EXCEPT ![mWritePos] = [@ EXCEPT ![field] = mCounter]]
      /\ UNCHANGED <<mWritePos, mCounter, mutex, registered>>
  BY DEF WriteField
<1>2. /\ mutex = s /\ mWritePos \in Slots /\ mData[mWritePos] \in Slot /\ mData \in [Slots -> Slot]
      /\ mCounter \in Nat /\ mCounter >= 1 /\ Size \in Nat /\ mWritePos \in Nat
      /\ \A t \in Sensors : t # s => writing[t] = "no"
  BY <1>1 DEF BufferInv, OneWriter, Types, OrderInv, SlotsHoldLatest, BufferAssumption
<1>3. registered
  BY <1>2 DEF OrderInv, SlotsHoldLatest, Nobody, BufferAssumption
<1>4. /\ UNCHANGED <<reader.at, reader.offset, reader.last, reader.counter, reader.events>>
      /\ reader'.overwritten <=> reader.overwritten \/ IsRead(mWritePos)
  <2>1. reader \in Reader /\ IsRead(mWritePos) \in BOOLEAN
    BY DEF BufferInv, Types, IsRead
  <2>2. reader' = [reader EXCEPT !.quiet = FALSE, !.overwritten = @ \/ IsRead(mWritePos)]
    BY DEF WriteField
  <2> QED BY <2>1, <2>2 DEF Reader
<1>5. /\ \A i \in Slots : ~Stored(i)
      /\ \A i \in Slots : Stored(i)' <=> i = mWritePos /\ field = "counter"
  <2>1. writing'[s] = "done" <=> field = "counter"
    BY <1>1 DEF BufferInv, Types, NextField
  <2>2. \A t \in Sensors : writing[t] # "done" /\ (t # s => writing'[t] # "done")
    BY <1>1, <1>2 DEF BufferInv, Types
  <2> QED BY <1>1, <2>1, <2>2 DEF Stored
<1>6. /\ \A i \in Slots : i = mWritePos =>
           /\ Holds(i) = mCounter - Size
           /\ Holds(i)' = IF field = "counter" THEN mCounter ELSE mCounter - Size
      /\ \A i \in Slots : i # mWritePos => Holds(i)' = Holds(i)
  BY <1>1, <1>2, <1>5 DEF Holds
<1>7. /\ \A i \in Slots : i # mWritePos => mData'[i] = mData[i]
      /\ \A i \in Slots : i = mWritePos =>
           mData'[i].counter = IF field = "counter" THEN mCounter ELSE mData[i].counter
  BY <1>1, <1>2 DEF Slot
<1>8. ReaderFollows' /\ InOrder'
  <2>1. \A i \in Slots : Holds(i)' = Holds(i) \/ Holds(i)' = Holds(i) + Size
    <3> SUFFICES ASSUME NEW i \in Slots PROVE Holds(i)' = Holds(i) \/ Holds(i)' = Holds(i) + Size
      OBVIOUS
    <3>1. CASE i = mWritePos
      BY <1>2, <1>6, <3>1
    <3>2. CASE i # mWritePos
      BY <1>6, <3>2
    <3> QED BY <3>1, <3>2
  <2> QED BY <1>1, <1>2, <1>4, <2>1, WriterKeepsOrder
<1>9. SlotsHoldLatest'
  <2>1. \A i \in Slots : mData[i].counter = IF Holds(i) > 0 THEN Holds(i) ELSE 0
    BY <1>3 DEF OrderInv, SlotsHoldLatest
  <2>2. \A i \in Slots : mData'[i].counter = IF Holds(i)' > 0 THEN Holds(i)' ELSE 0
    <3> SUFFICES ASSUME NEW i \in Slots
                 PROVE  mData'[i].counter = IF Holds(i)' > 0 THEN Holds(i)' ELSE 0
      OBVIOUS
    <3>1. CASE i = mWritePos
      BY <1>2, <1>6, <1>7, <2>1, <3>1
    <3>2. CASE i # mWritePos
      BY <1>6, <1>7, <2>1, <3>2
    <3> QED BY <3>1, <3>2
  <2> QED BY <1>1, <1>2, <1>3, <2>2 DEF SlotsHoldLatest
<1>10. OverwrittenByALap'
  <2>1. IsRead(mWritePos) /\ reader.counter > 0 => mCounter >= reader.counter + Size
    <3> SUFFICES ASSUME IsRead(mWritePos), reader.counter > 0 PROVE mCounter >= reader.counter + Size
      OBVIOUS
    <3>1. IsBehind(reader.counter, mWritePos) /\ reader.counter \in Nat
      BY DEF IsRead, OrderInv, ReaderFollows, BufferInv, Types, Reader
    <3> QED BY <1>2, <1>3, <1>6, <3>1 DEF IsBehind
  <2> QED BY <1>1, <1>4, <2>1 DEF OrderInv, OverwrittenByALap
<1> QED BY <1>8, <1>9, <1>10 DEF OrderInv

(* The position and the counter move on together.                          *)
LEMMA EndOrder ==
  ASSUME BufferAssumption, BufferInv, OrderInv, NEW s \in Sensors, EndWrite(s)
  PROVE  OrderInv'
<1>1. /\ writing[s] = "done" /\ mCounter' = mCounter + 1 /\ mWritePos' = NextWritePos /\ mutex' = Nobody
      /\ writing' = [writing EXCEPT ![s] = "no"]
      /\ UNCHANGED <<mData, registered, reader>>
  BY DEF EndWrite
<1>2. /\ mutex = s /\ mWritePos \in Slots /\ mCounter \in Nat /\ mCounter >= 1
      /\ \A t \in Sensors : t # s => writing[t] = "no"
  BY <1>1 DEF BufferInv, Types, OneWriter, OrderInv, SlotsHoldLatest
<1>3. registered
  BY <1>2 DEF OrderInv, SlotsHoldLatest, Nobody, BufferAssumption
<1>4. \A i \in Slots : (Stored(i) <=> i = mWritePos) /\ ~Stored(i)'
  BY <1>1, <1>2 DEF Stored, BufferInv, Types
<1>5. \A i \in Slots : Holds(i)' = Holds(i)
  BY <1>1, <1>2, <1>4 DEF Holds, NextWritePos, Slots, BufferAssumption
<1>6. ReaderFollows' /\ InOrder'
  BY <1>1, <1>2, <1>5, WriterKeepsOrder
<1>7. SlotsHoldLatest'
  BY <1>1, <1>2, <1>3, <1>5 DEF OrderInv, SlotsHoldLatest
<1>8. OverwrittenByALap'
  <2>1. reader.counter \in Nat /\ Size \in Nat
    BY DEF BufferInv, Types, Reader, BufferAssumption
  <2> QED BY <1>1, <1>2, <2>1 DEF OrderInv, OverwrittenByALap
<1> QED BY <1>6, <1>7, <1>8 DEF OrderInv

LEMMA ClearOrder == ASSUME BufferAssumption, BufferInv, OrderInv, ClearBuffer PROVE OrderInv'
<1>1. /\ mutex = Nobody /\ mData' = [i \in Slots |-> Empty] /\ ~registered'
      /\ reader' = [reader EXCEPT !.quiet = FALSE, !.overwritten = TRUE]
      /\ UNCHANGED <<mWritePos, mCounter, mutex, writing>>
  BY DEF ClearBuffer
<1>2. UNCHANGED <<reader.at, reader.offset, reader.last, reader.counter, reader.events>>
  BY <1>1 DEF BufferInv, Types, Reader
<1>3. SlotsHoldLatest' /\ OverwrittenByALap'
  BY <1>1 DEF OrderInv, SlotsHoldLatest, OverwrittenByALap, Empty
<1>4. LastEvent' = LastEvent
  BY <1>2 DEF LastEvent
<1>5. ReaderFollows' /\ InOrder'
  BY <1>1, <1>2, <1>4 DEF OrderInv, ReaderFollows, InOrder, FollowsBy, IsBehind
<1> QED BY <1>3, <1>5 DEF OrderInv

(* parseEvents() leaves the ring alone.                                    *)
LEMMA ReaderKeepsOrder ==
  ASSUME BufferAssumption, BufferInv, OrderInv, UNCHANGED <<ringVars, mutex, writing, registered>>,
         ReaderFollows', OverwrittenByALap', InOrder'
  PROVE  OrderInv'
BY DEF OrderInv, SlotsHoldLatest, Holds, Stored, ringVars

LEMMA ReadCounterOrder == ASSUME BufferAssumption, BufferInv, OrderInv, ReadCounter PROVE OrderInv'
<1> DEFINE o == reader.offset
           n == mData[o].counter
<1>1. /\ reader.at = "start" /\ o \in Slots /\ reader \in Reader /\ n > reader.last
      /\ reader' = [reader EXCEPT !.at = "before", !.counter = n, !.overwritten = HalfWritten(o)]
      /\ UNCHANGED <<mData, mWritePos, mCounter, mutex, writing, registered>>
  BY DEF ReadCounter, BufferInv, Types, ringVars
<1>2. HalfWritten(o) \in BOOLEAN /\ n \in Nat /\ reader.last \in Int /\ mCounter \in Nat /\ Size \in Nat /\ o \in Nat
  BY <1>1 DEF HalfWritten, BufferInv, Types, Slot, Reader, BufferAssumption
<1>3. /\ reader'.at = "before" /\ reader'.counter = n /\ (reader'.overwritten <=> HalfWritten(o))
      /\ UNCHANGED <<reader.offset, reader.last, reader.events>>
  BY <1>1, <1>2 DEF Reader
<1>4. n > 0 => registered /\ n = Holds(o)
  BY <1>1 DEF OrderInv, SlotsHoldLatest
<1>5. \A i \in Slots : Holds(i)' = Holds(i) /\ Holds(i) \in Int /\ Holds(i) <= mCounter
  BY <1>1, HoldsIsInt DEF Holds, Stored
<1>6. IsBehind(n, o)'
  BY <1>1, <1>2, <1>3, <1>4, <1>5 DEF IsBehind
<1>7. reader.last > 0 => FollowsBy(reader.last, n)
  <2> SUFFICES ASSUME reader.last > 0 PROVE FollowsBy(reader.last, n)
    OBVIOUS
  <2>1. registered /\ n = Holds(o)
    BY <1>1, <1>2, <1>4
  <2>2. reader.last = LastEvent /\ o = Len(reader.events)
    BY <1>1 DEF OrderInv, ReaderFollows
  <2>3. o > 0
    <3>1. reader.events # <<>> /\ reader.events \in Seq(Event)
      BY <1>1, <2>2 DEF LastEvent, Reader
    <3> QED BY <2>2, <3>1, EmptySeq
  <2>4. o - 1 \in Slots /\ IsBehind(reader.last, o - 1)
    BY <1>1, <2>3 DEF OrderInv, ReaderFollows
  <2>5. Holds(o) = Holds(o - 1) + 1 \/ Holds(o) = Holds(o - 1) + 1 - Size
    BY <1>1, <1>2, <2>4, NextSlotHolds
  <2>6. reader.last = Holds(o - 1) \/ reader.last + Size <= Holds(o - 1)
    BY <2>1, <2>4 DEF IsBehind
  <2>7. Size >= 1
    BY <1>1, <1>2 DEF Slots
  <2>8. Holds(o) \in Int /\ Holds(o - 1) \in Int /\ Holds(o) <= mCounter /\ Holds(o - 1) <= mCounter
    BY <1>1, <1>5, <2>4
  <2> QED BY <1>1, <1>2, <2>1, <2>5, <2>6, <2>7, <2>8 DEF FollowsBy
<1>8. LastEvent' = LastEvent
  BY <1>3 DEF LastEvent
<1>9. ReaderFollows'
  BY <1>1, <1>3, <1>6, <1>7, <1>8 DEF OrderInv, ReaderFollows, FollowsBy, IsBehind
<1>10. OverwrittenByALap'
  <2> SUFFICES ASSUME HalfWritten(o), n > 0 PROVE mCounter >= n + Size
    BY <1>1, <1>3 DEF OverwrittenByALap
  <2>1. o = mWritePos /\ ~Stored(o)
    BY DEF HalfWritten, Stored, BufferInv, OneWriter
  <2>2. Holds(o) = mCounter - Size
    BY <1>2, <2>1 DEF Holds
  <2> QED BY <1>2, <1>4, <2>2
<1>11. InOrder'
  BY <1>1, <1>3 DEF OrderInv, InOrder, FollowsBy
<1> QED BY <1>1, <1>9, <1>10, <1>11, ReaderKeepsOrder DEF ReadCounter

LEMMA ReadBeforeOrder == ASSUME BufferAssumption, BufferInv, OrderInv, ReadBefore PROVE OrderInv'
<1> DEFINE before == mData[reader.offset].before
<1>1. /\ reader.at = "before" /\ reader \in Reader
      /\ UNCHANGED <<mData, mWritePos, mCounter, mutex, writing, registered>>
  BY DEF ReadBefore, BufferInv, Types, ringVars
<1>2. CASE before = 0
  <2>1. reader' = [reader EXCEPT !.at = "ended", !.events = <<>>]
    BY <1>2 DEF ReadBefore
  <2>2. /\ reader'.at = "ended" /\ reader'.events = <<>>
        /\ UNCHANGED <<reader.counter, reader.overwritten>>
    BY <1>1, <2>1 DEF Reader
  <2>3. ReaderFollows' /\ OverwrittenByALap' /\ InOrder'
    BY <1>1, <2>2 DEF OrderInv, ReaderFollows, OverwrittenByALap, InOrder
  <2> QED BY <1>1, <2>3, ReaderKeepsOrder DEF ReadBefore
<1>3. CASE before # 0
  <2>1. reader' = [reader EXCEPT !.at = "behind", !.before = before]
    BY <1>3 DEF ReadBefore
  <2>2. /\ reader'.at = "behind"
        /\ UNCHANGED <<reader.offset, reader.last, reader.counter, reader.events, reader.overwritten>>
    BY <1>1, <2>1 DEF Reader
  <2>3. LastEvent' = LastEvent
    BY <2>2 DEF LastEvent
  <2>4. \A i \in Slots : Holds(i)' = Holds(i)
    BY <1>1 DEF Holds, Stored
  <2>5. reader.offset \in Slots
    BY <1>1 DEF BufferInv, ReaderHasWhole
  <2>6. ReaderFollows'
    BY <1>1, <2>2, <2>3, <2>4, <2>5 DEF OrderInv, ReaderFollows, IsBehind, FollowsBy
  <2>7. OverwrittenByALap' /\ InOrder'
    BY <1>1, <2>2 DEF OrderInv, OverwrittenByALap, InOrder, FollowsBy
  <2> QED BY <1>1, <2>6, <2>7, ReaderKeepsOrder DEF ReadBefore
<1> QED BY <1>2, <1>3

(* The sample that is returned follows the one before it.                  *)
LEMMA ReadBehindOrder == ASSUME BufferAssumption, BufferInv, OrderInv, ReadBehind PROVE OrderInv'
<1> DEFINE event == [before |-> reader.before, counter |-> reader.counter,
                     behind |-> mData[reader.offset].behind, overwritten |-> reader.overwritten]
<1>1. /\ reader.at = "behind" /\ reader \in Reader /\ reader.offset \in Slots
      /\ reader' = [reader EXCEPT !.at = "start", !.events = Append(@, event), !.last = reader.counter,
                                  !.offset = @ + 1]
      /\ UNCHANGED <<mData, mWritePos, mCounter, mutex, writing, registered>>
  BY DEF ReadBehind, BufferInv, Types, ReaderHasWhole, ringVars
<1>2. event \in Event /\ event.counter = reader.counter
  BY <1>1 DEF Event, Reader, BufferInv, Types, Slot
<1> HIDE DEF event
<1>3. /\ reader.events \in Seq(Event) /\ reader.counter \in Nat /\ reader.last \in Int
      /\ reader.offset \in Nat /\ mCounter \in Nat /\ Size \in Nat
  BY <1>1 DEF Reader, BufferInv, Types, BufferAssumption
<1>4. /\ reader'.at = "start" /\ reader'.events = Append(reader.events, event)
      /\ reader'.last = reader.counter /\ reader'.offset = reader.offset + 1
      /\ UNCHANGED <<reader.counter, reader.overwritten>>
  BY <1>1 DEF Reader
<1>5. /\ Len(reader'.events) = Len(reader.events) + 1
      /\ reader'.events # <<>>
      /\ reader'.events[Len(reader.events) + 1] = event
      /\ \A k \in 1..Len(reader.events) : reader'.events[k] = reader.events[k]
      /\ DOMAIN reader'.events = 1..Len(reader.events) + 1 /\ Len(reader.events) \in Nat
  BY <1>2, <1>3, <1>4
<1>6. reader.offset = Len(reader.events) /\ reader.last = LastEvent
  BY <1>1 DEF OrderInv, ReaderFollows
<1>7. /\ IsBehind(reader.counter, reader.offset)
      /\ Holds(reader.offset + 1 - 1) = Holds(reader.offset)
      /\ \A i \in Slots : Holds(i)' = Holds(i)
  <2>1. IsBehind(reader.counter, reader.offset)
    BY <1>1 DEF OrderInv, ReaderFollows
  <2>2. reader.offset + 1 - 1 = reader.offset
    BY <1>3
  <2> QED BY <1>1, <2>1, <2>2 DEF Holds, Stored
<1>8. ReaderFollows'
  <2>1. LastEvent' = reader.counter
    BY <1>2, <1>5 DEF LastEvent
  <2>2. reader'.offset - 1 = reader.offset
    BY <1>3, <1>4
  <2>3. IsBehind(reader.last, reader.offset - 1)'
    BY <1>1, <1>4, <1>7, <2>2 DEF IsBehind
  <2> QED BY <1>1, <1>3, <1>4, <1>5, <1>6, <2>1, <2>2, <2>3 DEF ReaderFollows
<1>9. InOrder'
  <2> SUFFICES ASSUME NEW k \in DOMAIN reader'.events, k > 1, reader'.events[k - 1].counter > 0
               PROVE  FollowsBy(reader'.events[k - 1].counter, reader'.events[k].counter)
    BY <1>1 DEF InOrder, FollowsBy
  <2>1. CASE k = Len(reader.events) + 1
    <3>1. reader.events # <<>> /\ reader'.events[k - 1].counter = reader.last
      BY <1>3, <1>5, <1>6, <2>1 DEF LastEvent
    <3>2. FollowsBy(reader.last, reader.counter)
      BY <1>1, <3>1 DEF OrderInv, ReaderFollows
    <3> QED BY <1>2, <1>5, <2>1, <3>1, <3>2
  <2>2. CASE k # Len(reader.events) + 1
    <3>1. k \in DOMAIN reader.events /\ k - 1 \in 1..Len(reader.events) /\ k \in 1..Len(reader.events)
      BY <1>3, <1>5, <2>2
    <3>2. reader'.events[k] = reader.events[k] /\ reader'.events[k - 1] = reader.events[k - 1]
      BY <1>5, <3>1
    <3>3. FollowsBy(reader.events[k - 1].counter, reader.events[k].counter)
      BY <3>1, <3>2 DEF OrderInv, InOrder
    <3> QED BY <3>2, <3>3
  <2> QED BY <2>1, <2>2
<1>10. OverwrittenByALap'
  BY <1>1, <1>4 DEF OrderInv, OverwrittenByALap
<1> QED BY <1>1, <1>8, <1>9, <1>10, ReaderKeepsOrder DEF ReadBehind

LEMMA ParseOrder == ASSUME BufferAssumption, BufferInv, OrderInv, ParseEnds \/ ParseAgain PROVE OrderInv'
<1>1. UNCHANGED <<mData, mWritePos, mCounter, mutex, writing, registered>>
  BY DEF ParseEnds, ParseAgain, ringVars
<1>2. CASE ParseEnds
  <2>1. reader' = [reader EXCEPT !.at = "ended"] /\ reader \in Reader
    BY <1>2 DEF ParseEnds, BufferInv, Types
  <2>2. reader'.at = "ended" /\ UNCHANGED <<reader.counter, reader.overwritten, reader.events>>
    BY <2>1 DEF Reader
  <2>3. ReaderFollows' /\ OverwrittenByALap' /\ InOrder'
    BY <1>1, <2>2 DEF OrderInv, ReaderFollows, OverwrittenByALap, InOrder, FollowsBy
  <2> QED BY <1>2, <2>3, ReaderKeepsOrder DEF ParseEnds
<1>3. CASE ParseAgain
  <2>1. reader' = NotReading
    BY <1>3 DEF ParseAgain
  <2>2. ReaderFollows' /\ OverwrittenByALap' /\ InOrder'
    BY <2>1 DEF ReaderFollows, OverwrittenByALap, InOrder, NotReading, LastEvent
  <2> QED BY <1>3, <2>2, ReaderKeepsOrder DEF ParseAgain
<1> QED BY <1>2, <1>3

LEMMA NextKeepsOrder ==
  ASSUME BufferAssumption, BufferInv, OrderInv, [BufferNext]_bufferVars
  PROVE  OrderInv'
<1>1. CASE \E s \in Sensors : BeginWrite(s) \/ WriteField(s) \/ EndWrite(s)
  BY <1>1, BeginOrder, WriteOrder, EndOrder
<1>2. CASE ClearBuffer
  BY <1>2, ClearOrder
<1>3. CASE ReadCounter \/ ReadBefore \/ ReadBehind
  BY <1>3, ReadCounterOrder, ReadBeforeOrder, ReadBehindOrder
<1>4. CASE ParseEnds \/ ParseAgain
  BY <1>4, ParseOrder
<1>5. CASE UNCHANGED bufferVars
  <2>1. UNCHANGED <<ringVars, mutex, writing, registered, reader>>
    BY <1>5 DEF bufferVars
  <2>2. UNCHANGED <<mData, mWritePos, mCounter>>
    BY <2>1 DEF ringVars
  <2>3. ReaderFollows' /\ OverwrittenByALap' /\ InOrder'
    BY <2>1, <2>2
       DEF OrderInv, ReaderFollows, OverwrittenByALap, InOrder, FollowsBy, IsBehind, Holds, Stored, LastEvent
  <2> QED BY <2>1, <2>3, ReaderKeepsOrder
<1> QED BY <1>1, <1>2, <1>3, <1>4, <1>5 DEF BufferNext

(* What the ring's slots hold, and where its reader is, for any ring and   *)
(* any number of run threads (LockfreeBuffer::write, parseEvents).         *)
THEOREM OrderInvariant == BufferSpec => []OrderInv
<1>1. BufferInit => OrderInv
  BY BufferAssumption, OrderInit
<1>2. BufferInv /\ OrderInv /\ [BufferNext]_bufferVars => OrderInv'
  BY BufferAssumption, NextKeepsOrder
<1> QED BY <1>1, <1>2, BufferInvariant, PTL DEF BufferSpec

(* A writer comes to a sample that is being read only after a whole lap    *)
(* (mWritePos and mCounter in LockfreeBuffer::write).                      *)
THEOREM OverwrittenOnlyByALap == BufferSpec => []OverwrittenByALap
<1>1. OrderInv => OverwrittenByALap
  BY DEF OrderInv
<1> QED BY <1>1, OrderInvariant, PTL

(* parseEvents() returns samples in the order they were written, none      *)
(* twice, and skips some only if the writers came around.                  *)
THEOREM SamplesInOrder == BufferSpec => []ParsedInOrder
<1>1. BufferInv /\ OrderInv => ParsedInOrder
  <2> SUFFICES ASSUME BufferInv, OrderInv, NEW k \in DOMAIN reader.events, k > 1,
                      reader.events[k - 1].counter > 0
               PROVE  /\ reader.events[k].counter - reader.events[k - 1].counter >= 1
                      /\ reader.events[k].counter - reader.events[k - 1].counter # 1 =>
                           mCounter > reader.events[k - 1].counter + Size
    BY DEF ParsedInOrder
  <2>1. reader.events \in Seq(Event)
    BY DEF BufferInv, Types, Reader
  <2>2. k - 1 \in DOMAIN reader.events
    BY <2>1
  <2>3. reader.events[k - 1] \in Event /\ reader.events[k] \in Event
    BY <2>1, <2>2
  <2>4. reader.events[k - 1].counter \in Nat /\ reader.events[k].counter \in Nat
    BY <2>3 DEF Event
  <2>5. FollowsBy(reader.events[k - 1].counter, reader.events[k].counter)
    BY DEF OrderInv, InOrder
  <2> QED BY <2>4, <2>5 DEF FollowsBy
<1> QED BY <1>1, BufferInvariant, OrderInvariant, PTL

-----------------------------------------------------------------------------
(* A reader nobody disturbs has, of the slots up to its offset, what they  *)
(* hold, each more than the one before: it cannot get past mWritePos.      *)

Undisturbed == reader.quiet /\ registered /\ \A s \in Sensors : writing[s] \notin {"behind", "counter"}

Ascending(n) == \A i \in Slots : 0 < i /\ i < n => Holds(i - 1) < Holds(i)

(* mCounter has gone round with mWritePos.                                 *)
Laps == mCounter = mWritePos + 1 \/ mCounter >= mWritePos + 1 + Size

HasWhatSlotsHold ==
  LET n == Len(reader.events)
  IN /\ n > 0 => n - 1 \in Slots /\ LastEvent = Holds(n - 1) /\ LastEvent > 0
     /\ Ascending(n)

ReadsOn ==
  LET n == Len(reader.events)
  IN /\ reader.at \in {"before", "behind"} => ~reader.overwritten /\ reader.counter > reader.last
     /\ reader.at = "behind" => reader.counter > 0
     /\ reader.at = "ended" => IF n = 0 THEN 0 \in Slots => Holds(0) <= 0
                                        ELSE n \in Slots => Holds(n) <= Holds(n - 1)

QuietInv == Laps /\ (Undisturbed => HasWhatSlotsHold /\ ReadsOn)

LEMMA QuietInit == ASSUME BufferAssumption, BufferInit PROVE QuietInv
<1>1. mWritePos = 0 /\ mCounter = 1 /\ reader = NotReading
  BY DEF BufferInit
<1> QED BY <1>1 DEF QuietInv, Laps, HasWhatSlotsHold, ReadsOn, Ascending, NotReading, LastEvent, Slots, BufferAssumption

(* Steps after which each slot holds what it held.                         *)
LEMMA SameSlots ==
  ASSUME BufferAssumption, BufferInv, QuietInv, UNCHANGED reader, \A i \in Slots : Holds(i)' = Holds(i)
  PROVE  Undisturbed /\ HasWhatSlotsHold /\ ReadsOn => HasWhatSlotsHold' /\ ReadsOn'
<1> SUFFICES ASSUME Undisturbed, HasWhatSlotsHold, ReadsOn PROVE HasWhatSlotsHold' /\ ReadsOn'
  OBVIOUS
<1> DEFINE n == Len(reader.events)
<1>1. n \in Nat /\ Slots \subseteq Int /\ \A i \in Slots : i > 0 => i - 1 \in Slots
  <2>1. reader.events \in Seq(Event)
    BY DEF BufferInv, Types, Reader
  <2> QED BY <2>1 DEF Slots, BufferAssumption
<1>2. LastEvent' = LastEvent /\ n' = n
  BY DEF LastEvent
<1>3. n > 0 => n - 1 \in Slots /\ LastEvent = Holds(n - 1) /\ LastEvent > 0
  BY DEF HasWhatSlotsHold
<1> HIDE DEF n
<1>4. HasWhatSlotsHold'
  <2>1. Ascending(Len(reader.events))'
    BY <1>1, <1>2 DEF HasWhatSlotsHold, Ascending, n
  <2>2. n > 0 => LET m == n - 1 IN m \in Slots /\ LastEvent' = Holds(m)' /\ LastEvent' > 0
    BY <1>2, <1>3
  <2> QED BY <1>2, <2>1, <2>2 DEF HasWhatSlotsHold, n
<1>5. ReadsOn'
  BY <1>1, <1>2, <1>3 DEF ReadsOn, n
<1> QED BY <1>4, <1>5

LEMMA WriterKeepsQuiet ==
  ASSUME BufferAssumption, BufferInv, OrderInv, QuietInv, NEW s \in Sensors,
         BeginWrite(s) \/ WriteField(s) \/ EndWrite(s) \/ ClearBuffer
  PROVE  QuietInv'
<1>1. CASE BeginWrite(s)
  <2>1. /\ registered /\ mutex = Nobody /\ writing' = [writing EXCEPT ![s] = "before"]
        /\ UNCHANGED <<mData, mWritePos, mCounter, registered, reader>>
    BY <1>1 DEF BeginWrite, TryLock, ringVars
  <2>2. \A t \in Sensors : writing[t] = "no" /\ writing'[t] # "done"
    BY <2>1 DEF BufferInv, Types, OneWriter, BufferAssumption, Nobody
  <2>3. \A i \in Slots : Holds(i)' = Holds(i)
    BY <2>1, <2>2 DEF Holds, Stored
  <2>4. Undisturbed' => Undisturbed
    BY <2>1, <2>2 DEF Undisturbed
  <2> QED BY <2>1, <2>3, <2>4, SameSlots DEF QuietInv, Laps
<1>2. CASE WriteField(s)
  <2>1. ~reader'.quiet /\ UNCHANGED <<mWritePos, mCounter>>
    BY <1>2 DEF WriteField, BufferInv, Types, Reader
  <2> QED BY <2>1 DEF QuietInv, Laps, Undisturbed
<1>3. CASE EndWrite(s)
  <2>1. /\ writing[s] = "done" /\ mCounter' = mCounter + 1 /\ mWritePos' = NextWritePos
        /\ writing' = [writing EXCEPT ![s] = "no"]
        /\ UNCHANGED <<mData, registered, reader>>
    BY <1>3 DEF EndWrite
  <2>2. /\ mutex = s /\ mWritePos \in Slots /\ mCounter \in Nat
        /\ \A t \in Sensors : t # s => writing[t] = "no"
    BY <2>1 DEF BufferInv, Types, OneWriter
  <2>3. \A i \in Slots : (Stored(i) <=> i = mWritePos) /\ ~Stored(i)'
    BY <2>1, <2>2 DEF Stored, BufferInv, Types
  <2>4. \A i \in Slots : Holds(i)' = Holds(i)
    BY <2>1, <2>2, <2>3 DEF Holds, NextWritePos, Slots, BufferAssumption
  <2>5. Undisturbed' => Undisturbed
    BY <2>1, <2>2 DEF Undisturbed
  <2>6. Laps'
    BY <2>1, <2>2 DEF QuietInv, Laps, NextWritePos, Slots, BufferAssumption
  <2> QED BY <2>1, <2>4, <2>5, <2>6, SameSlots DEF QuietInv
<1>4. CASE ClearBuffer
  BY <1>4 DEF ClearBuffer, QuietInv, Laps, Undisturbed
<1> QED BY <1>1, <1>2, <1>3, <1>4

(* The reader's own facts, and that its steps leave the ring alone.        *)
LEMMA ReaderAndRing ==
  ASSUME BufferAssumption, BufferInv, OrderInv, UNCHANGED <<ringVars, mutex, writing, registered>>
  PROVE  /\ reader \in Reader /\ reader.events \in Seq(Event) /\ Len(reader.events) \in Nat
         /\ mCounter \in Nat /\ Size \in Nat /\ Slots = 0..Size - 1
         /\ \A i \in Slots : Holds(i)' = Holds(i) /\ Holds(i) \in Int
         /\ \A i \in Slots : registered => mData[i].counter = IF Holds(i) > 0 THEN Holds(i) ELSE 0
         /\ QuietInv => Laps'
<1>1. UNCHANGED <<mData, mWritePos, mCounter, writing>>
  BY DEF ringVars
<1>2. \A i \in Slots : Holds(i)' = Holds(i) /\ Holds(i) \in Int
  BY <1>1, HoldsIsInt DEF Holds, Stored
<1>3. reader \in Reader /\ mCounter \in Nat /\ Size \in Nat /\ Slots = 0..Size - 1
  BY DEF BufferInv, Types, BufferAssumption, Slots
<1>4. reader.events \in Seq(Event) /\ Len(reader.events) \in Nat
  BY <1>3 DEF Reader
<1>5. \A i \in Slots : registered => mData[i].counter = IF Holds(i) > 0 THEN Holds(i) ELSE 0
  BY DEF OrderInv, SlotsHoldLatest
<1>6. QuietInv => Laps'
  BY <1>1 DEF QuietInv, Laps
<1> QED BY <1>2, <1>3, <1>4, <1>5, <1>6

LEMMA EventsKept ==
  ASSUME BufferAssumption, BufferInv, OrderInv, UNCHANGED <<ringVars, mutex, writing, registered>>,
         UNCHANGED reader.events, HasWhatSlotsHold
  PROVE  HasWhatSlotsHold'
<1> DEFINE n == Len(reader.events)
<1>1. n \in Nat /\ n' = n /\ LastEvent' = LastEvent
  BY ReaderAndRing DEF LastEvent
<1>2. n > 0 => n - 1 \in Slots /\ LastEvent = Holds(n - 1) /\ LastEvent > 0
  BY DEF HasWhatSlotsHold
<1>3. \A i \in Slots : Holds(i)' = Holds(i)
  BY ReaderAndRing
<1>4. Ascending(Len(reader.events))'
  <2>1. Slots \subseteq Int /\ \A i \in Slots : i > 0 => i - 1 \in Slots
    BY DEF Slots, BufferAssumption
  <2> QED BY <1>1, <1>3, <2>1 DEF HasWhatSlotsHold, Ascending
<1> HIDE DEF n
<1>5. n > 0 => LET m == n - 1 IN m \in Slots /\ LastEvent' = Holds(m)' /\ LastEvent' > 0
  BY <1>1, <1>2, <1>3
<1> QED BY <1>1, <1>4, <1>5 DEF HasWhatSlotsHold, n

LEMMA ReadCounterQuiet == ASSUME BufferAssumption, BufferInv, OrderInv, QuietInv, ReadCounter PROVE QuietInv'
<1> DEFINE counter == mData[reader.offset].counter
<1>1. /\ reader.at = "start" /\ counter > reader.last /\ reader \in Reader
      /\ reader' = [reader EXCEPT !.at = "before", !.counter = counter,
                                  !.overwritten = HalfWritten(reader.offset)]
      /\ UNCHANGED <<ringVars, mutex, writing, registered>>
  BY DEF ReadCounter, BufferInv, Types
<1>2. HalfWritten(reader.offset) \in BOOLEAN /\ (Undisturbed => ~HalfWritten(reader.offset))
  BY DEF HalfWritten, Undisturbed
<1>3. /\ reader'.at = "before" /\ reader'.counter = counter
      /\ reader'.overwritten <=> HalfWritten(reader.offset)
      /\ UNCHANGED <<reader.last, reader.events, reader.quiet>>
  BY <1>1, <1>2 DEF Reader
<1>4. Undisturbed' => Undisturbed
  BY <1>1, <1>3 DEF Undisturbed
<1>5. HasWhatSlotsHold => HasWhatSlotsHold'
  BY <1>1, <1>3, EventsKept
<1>6. Undisturbed => ReadsOn'
  BY <1>1, <1>2, <1>3 DEF ReadsOn
<1> QED BY <1>1, <1>4, <1>5, <1>6, ReaderAndRing DEF QuietInv

(* Only a slot that was never written makes a reader drop what it has, and *)
(* only the first such slot has a counter above the last.                  *)
LEMMA ReadBeforeQuiet == ASSUME BufferAssumption, BufferInv, OrderInv, QuietInv, ReadBefore PROVE QuietInv'
<1> DEFINE slot == mData[reader.offset]
<1>1. /\ reader.at = "before" /\ reader \in Reader /\ reader.offset \in Slots
      /\ reader.offset = Len(reader.events) /\ reader.last = LastEvent
      /\ UNCHANGED <<ringVars, mutex, writing, registered>>
  BY DEF ReadBefore, BufferInv, Types, ReaderHasWhole, OrderInv, ReaderFollows
<1>2. slot \in Slot
  BY <1>1 DEF BufferInv, Types
<1>3. Undisturbed =>
        /\ ~reader.overwritten /\ reader.counter > reader.last
        /\ slot.counter = reader.counter /\ slot.before = slot.counter
  <2>1. Undisturbed => \A i \in Slots : ~BeingWritten(i)
    BY DEF Undisturbed, BeingWritten
  <2> QED BY <1>1, <2>1 DEF QuietInv, ReadsOn, BufferInv, ReaderHasWhole, SlotsAreWhole, Whole
<1>4. CASE slot.before = 0
  <2>1. reader' = [reader EXCEPT !.at = "ended", !.events = <<>>]
    BY <1>4 DEF ReadBefore
  <2>2. /\ reader'.at = "ended" /\ reader'.events = <<>>
        /\ UNCHANGED <<reader.counter, reader.last, reader.overwritten, reader.quiet>>
    BY <1>1, <2>1 DEF Reader
  <2>3. Undisturbed' => Undisturbed
    BY <1>1, <2>2 DEF Undisturbed
  <2>4. HasWhatSlotsHold'
    BY <1>1, <2>2, ReaderAndRing DEF HasWhatSlotsHold, Ascending
  <2>5. Undisturbed => 0 = reader.offset /\ Holds(0) <= 0
    <3> SUFFICES ASSUME Undisturbed PROVE 0 = reader.offset /\ Holds(0) <= 0
      OBVIOUS
    <3>1. slot.counter = 0 /\ reader.last < 0
      BY <1>1, <1>2, <1>3, <1>4 DEF Reader, Slot
    <3>2. Len(reader.events) = 0
      BY <1>1, <3>1, ReaderAndRing DEF QuietInv, HasWhatSlotsHold
    <3> QED BY <1>1, <3>1, <3>2, ReaderAndRing DEF Undisturbed
  <2>6. Undisturbed => ReadsOn'
    BY <1>1, <2>2, <2>5, ReaderAndRing DEF ReadsOn
  <2> QED BY <1>1, <2>3, <2>4, <2>6, ReaderAndRing DEF QuietInv
<1>5. CASE slot.before # 0
  <2>1. reader' = [reader EXCEPT !.at = "behind", !.before = slot.before]
    BY <1>5 DEF ReadBefore
  <2>2. /\ reader'.at = "behind"
        /\ UNCHANGED <<reader.counter, reader.last, reader.events, reader.overwritten, reader.quiet>>
    BY <1>1, <2>1 DEF Reader
  <2>3. Undisturbed' => Undisturbed
    BY <1>1, <2>2 DEF Undisturbed
  <2>4. HasWhatSlotsHold => HasWhatSlotsHold'
    BY <1>1, <2>2, EventsKept
  <2>5. Undisturbed => ReadsOn'
    <3>1. Undisturbed => reader.counter > 0
      BY <1>1, <1>2, <1>3, <1>5 DEF Slot
    <3> QED BY <1>3, <2>2, <3>1 DEF ReadsOn
  <2> QED BY <1>1, <2>3, <2>4, <2>5, ReaderAndRing DEF QuietInv
<1> QED BY <1>4, <1>5

LEMMA ReadBehindQuiet == ASSUME BufferAssumption, BufferInv, OrderInv, QuietInv, ReadBehind PROVE QuietInv'
<1> DEFINE event == [before |-> reader.before, counter |-> reader.counter,
                     behind |-> mData[reader.offset].behind, overwritten |-> reader.overwritten]
           n == Len(reader.events)
<1>1. /\ reader.at = "behind" /\ reader \in Reader /\ reader.offset \in Slots
      /\ reader' = [reader EXCEPT !.at = "start", !.events = Append(@, event), !.last = reader.counter,
                                  !.offset = @ + 1]
      /\ UNCHANGED <<ringVars, mutex, writing, registered>>
      /\ reader.offset = n /\ reader.last = LastEvent
  BY DEF ReadBehind, BufferInv, Types, ReaderHasWhole, OrderInv, ReaderFollows
<1>2. event \in Event /\ event.counter = reader.counter
  BY <1>1 DEF Event, Reader, BufferInv, Types, Slot
<1> HIDE DEF event
<1>3. /\ reader'.at = "start" /\ reader'.events = Append(reader.events, event)
      /\ UNCHANGED reader.quiet
  BY <1>1 DEF Reader
<1>4. Len(reader'.events) = n + 1 /\ LastEvent' = reader.counter
  BY <1>2, <1>3, ReaderAndRing, <1>1 DEF LastEvent
<1>5. Undisturbed' => Undisturbed
  BY <1>1, <1>3 DEF Undisturbed
<1>6. ASSUME Undisturbed PROVE HasWhatSlotsHold'
  <2>1. reader.counter = Holds(n) /\ reader.counter > 0 /\ reader.counter > reader.last
    <3>1. /\ mData[reader.offset].counter = reader.counter
          /\ reader.counter > 0 /\ reader.counter > reader.last
      BY <1>1, <1>6 DEF QuietInv, ReadsOn, BufferInv, ReaderHasWhole
    <3> QED BY <1>1, <1>6, <3>1, ReaderAndRing DEF Undisturbed
  <2>2. /\ n > 0 => n - 1 \in Slots /\ reader.last = Holds(n - 1)
        /\ Ascending(n)
    BY <1>1, <1>6 DEF QuietInv, HasWhatSlotsHold
  <2>3. \A i \in Slots : i > 0 => i - 1 \in Slots
    BY <1>1, ReaderAndRing
  <2>4. \A i \in Slots : 0 < i /\ i < n + 1 => Holds(i - 1) < Holds(i)
    <3> SUFFICES ASSUME NEW i \in Slots, 0 < i, i < n + 1 PROVE Holds(i - 1) < Holds(i)
      OBVIOUS
    <3>1. CASE i < n
      BY <2>2, <3>1 DEF Ascending
    <3>2. CASE ~(i < n)
      <4>1. i = n /\ n > 0
        BY <1>1, <3>2, ReaderAndRing
      <4> QED BY <2>1, <2>2, <4>1
    <3> QED BY <3>1, <3>2
  <2>5. \A i \in Slots : 0 < i /\ i < n + 1 => Holds(i - 1)' < Holds(i)'
    BY <1>1, <2>3, <2>4, ReaderAndRing
  <2>6. Ascending(Len(reader.events))'
    BY <1>4, <2>5 DEF Ascending
  <2>7. PICK m \in Slots : m = n
    BY <1>1
  <2>8. Len(reader'.events) - 1 = m /\ LastEvent' = Holds(m)' /\ LastEvent' > 0
    BY <1>4, <2>1, <2>7, ReaderAndRing, <1>1
  <2> QED BY <1>4, <2>6, <2>8 DEF HasWhatSlotsHold
<1>7. ReadsOn'
  BY <1>3 DEF ReadsOn
<1> QED BY <1>1, <1>5, <1>6, <1>7, ReaderAndRing DEF QuietInv

LEMMA ParseQuiet == ASSUME BufferAssumption, BufferInv, OrderInv, QuietInv, ParseEnds \/ ParseAgain PROVE QuietInv'
<1> DEFINE n == Len(reader.events)
<1>1. UNCHANGED <<ringVars, mutex, writing, registered>>
  BY DEF ParseEnds, ParseAgain
<1>2. CASE ParseEnds
  <2>1. /\ reader.at = "start" /\ reader \in Reader
        /\ reader' = [reader EXCEPT !.at = "ended"]
        /\ reader.offset = n /\ reader.last = LastEvent
        /\ n \in Slots => mData[n].counter <= reader.last
    BY <1>2 DEF ParseEnds, BufferInv, Types, OrderInv, ReaderFollows
  <2>2. reader'.at = "ended" /\ UNCHANGED <<reader.events, reader.quiet>>
    BY <2>1 DEF Reader
  <2>3. Undisturbed' => Undisturbed
    BY <1>1, <2>2 DEF Undisturbed
  <2>4. Undisturbed => (IF n = 0 THEN 0 \in Slots => Holds(0) <= 0
                                ELSE n \in Slots => Holds(n) <= Holds(n - 1))
    <3> SUFFICES ASSUME Undisturbed, n \in Slots
                 PROVE  n # 0 /\ Holds(n) <= Holds(n - 1)
      OBVIOUS
    <3>1. mData[n].counter \in Nat /\ n \in Nat
      BY ReaderAndRing, <1>1 DEF BufferInv, Types, Slot
    <3>2. n # 0
      <4>1. n = 0 => LastEvent = -1
        <5>1. n = 0 => reader.events = <<>>
          BY ReaderAndRing, <1>1, EmptySeq
        <5> QED BY <5>1 DEF LastEvent
      <4> QED BY <2>1, <3>1, <4>1
    <3>3. n - 1 \in Slots /\ LastEvent = Holds(n - 1)
      BY <3>1, <3>2 DEF QuietInv, HasWhatSlotsHold
    <3> QED BY <1>1, <2>1, <3>2, <3>3, ReaderAndRing DEF Undisturbed
  <2>5. Undisturbed => ReadsOn'
    <3> SUFFICES ASSUME Undisturbed PROVE ReadsOn'
      OBVIOUS
    <3>1. CASE n = 0
      BY <1>1, <2>2, <2>4, <3>1, ReaderAndRing DEF ReadsOn
    <3>2. CASE n # 0 /\ n \notin Slots
      BY <1>1, <2>2, <3>2 DEF ReadsOn, Slots
    <3>3. CASE n # 0 /\ n \in Slots
      <4>1. n - 1 \in Slots
        BY <1>1, <3>3, ReaderAndRing
      <4>2. PICK i \in Slots, j \in Slots : i = n /\ j = n - 1
        BY <3>3, <4>1
      <4>3. Holds(i)' <= Holds(j)'
        BY <1>1, <2>4, <3>3, <4>2, ReaderAndRing
      <4> QED BY <2>2, <3>3, <4>2, <4>3 DEF ReadsOn
    <3> QED BY <3>1, <3>2, <3>3
  <2> QED BY <1>1, <2>2, <2>3, <2>5, EventsKept, ReaderAndRing DEF QuietInv
<1>3. CASE ParseAgain
  <2>1. reader' = NotReading
    BY <1>3 DEF ParseAgain
  <2>2. HasWhatSlotsHold' /\ ReadsOn'
    BY <1>1, <2>1, ReaderAndRing DEF HasWhatSlotsHold, ReadsOn, Ascending, NotReading
  <2>3. Laps'
    BY <1>1, ReaderAndRing
  <2> QED BY <2>2, <2>3 DEF QuietInv
<1> QED BY <1>2, <1>3

LEMMA NextKeepsQuiet ==
  ASSUME BufferAssumption, BufferInv, OrderInv, QuietInv, [BufferNext]_bufferVars
  PROVE  QuietInv'
<1>1. CASE \E s \in Sensors : BeginWrite(s) \/ WriteField(s) \/ EndWrite(s)
  BY <1>1, WriterKeepsQuiet
<1>2. CASE ClearBuffer
  BY <1>2 DEF ClearBuffer, QuietInv, Laps, Undisturbed
<1>3. CASE ReadCounter \/ ReadBefore \/ ReadBehind
  BY <1>3, ReadCounterQuiet, ReadBeforeQuiet, ReadBehindQuiet
<1>4. CASE ParseEnds \/ ParseAgain
  BY <1>4, ParseQuiet
<1>5. CASE UNCHANGED bufferVars
  <2>1. UNCHANGED <<mData, mWritePos, mCounter, writing, registered, reader>>
    BY <1>5 DEF bufferVars, ringVars
  <2>2. \A i \in Slots : Holds(i)' = Holds(i)
    BY <2>1 DEF Holds, Stored
  <2>3. Undisturbed' => Undisturbed
    BY <2>1 DEF Undisturbed
  <2> QED BY <2>1, <2>2, <2>3, SameSlots DEF QuietInv, Laps
<1> QED BY <1>1, <1>2, <1>3, <1>4, <1>5 DEF BufferNext

(* With nobody writing meanwhile, parseEvents() returns every sample of    *)
(* the present lap and nothing else: a sample's counter tells an old one   *)
(* from a new one, whatever the ring's size (LockfreeBuffer::write).       *)
THEOREM QuietReadersSeeAll == BufferSpec => []QuietParse
<1>1. BufferInit => QuietInv
  BY BufferAssumption, QuietInit
<1>2. BufferInv /\ OrderInv /\ QuietInv /\ [BufferNext]_bufferVars => QuietInv'
  BY BufferAssumption, NextKeepsQuiet
<1>3. BufferInv /\ OrderInv /\ QuietInv => QuietParse
  <2> SUFFICES ASSUME BufferInv, OrderInv, QuietInv, reader.at = "ended", reader.quiet, registered, mutex = Nobody
               PROVE  LET n == Len(reader.events)
                      IN /\ n = IF mWritePos = 0 /\ mCounter > 1 THEN Size ELSE mWritePos
                         /\ n > 0 => reader.events[n].counter = mCounter - 1
    BY DEF QuietParse
  <2> DEFINE n == Len(reader.events)
  <2>1. \A s \in Sensors : writing[s] = "no"
    BY BufferAssumption DEF BufferInv, OneWriter, Types, Nobody, BufferAssumption
  <2>2. HasWhatSlotsHold /\ ReadsOn /\ Laps
    BY <2>1 DEF QuietInv, Undisturbed
  <2>3. \A i \in Slots : Holds(i) = IF i < mWritePos THEN mCounter - (mWritePos - i)
                                                  ELSE mCounter - (mWritePos - i) - Size
    BY <2>1 DEF Holds, Stored
  <2>4. /\ n \in Nat /\ mCounter \in Nat /\ mCounter >= 1 /\ Size \in Nat /\ mWritePos \in Nat
        /\ Size > 0 => mWritePos < Size
        /\ Size = 0 => mWritePos = 0
        /\ Slots = 0..Size - 1
    <3>1. reader.events \in Seq(Event)
      BY DEF BufferInv, Types, Reader
    <3> QED BY <3>1, BufferAssumption DEF BufferAssumption, BufferInv, Types, OrderInv, SlotsHoldLatest, Slots
  <2>5. CASE n = 0
    <3>1. CASE Size = 0
      BY <2>4, <2>5, <3>1
    <3>2. CASE Size > 0
      <4>1. 0 \in Slots /\ Holds(0) <= 0
        BY <2>2, <2>4, <2>5, <3>2 DEF ReadsOn
      <4> QED BY <2>2, <2>3, <2>4, <2>5, <3>2, <4>1 DEF Laps
    <3> QED BY <2>4, <3>1, <3>2
  <2>6. CASE n > 0
    <3>1. n - 1 \in Slots /\ reader.events[n].counter = Holds(n - 1) /\ Holds(n - 1) > 0
      BY <2>2, <2>4, <2>6 DEF HasWhatSlotsHold, LastEvent
    <3>2. n \in Slots => Holds(n) <= Holds(n - 1)
      BY <2>2, <2>4, <2>6 DEF ReadsOn
    <3> HIDE DEF n
    <3>3. CASE mWritePos = 0
      <4>1. n = Size /\ mCounter > 1 /\ Holds(n - 1) = mCounter - 1
        BY <2>3, <2>4, <3>1, <3>2, <3>3
      <4> QED BY <3>1, <3>3, <4>1 DEF n
    <3>4. CASE mWritePos > 0
      <4>1. ~(mWritePos < n)
        <5>1. mWritePos \in Slots /\ mWritePos - 1 \in Slots
          BY <2>4, <3>1, <3>4
        <5>2. Holds(mWritePos) < Holds(mWritePos - 1)
          BY <2>3, <2>4, <5>1
        <5>3. mWritePos < n => Holds(mWritePos - 1) < Holds(mWritePos)
          BY <2>2, <3>4, <5>1 DEF HasWhatSlotsHold, Ascending, n
        <5> QED BY <2>3, <2>4, <5>1, <5>2, <5>3
      <4>2. ~(n < mWritePos)
        BY <2>3, <2>4, <3>1, <3>2
      <4>3. n = mWritePos /\ Holds(n - 1) = mCounter - 1
        BY <2>3, <2>4, <3>1, <4>1, <4>2
      <4> QED BY <2>4, <3>1, <3>4, <4>3 DEF n
    <3> QED BY <2>4, <3>3, <3>4
  <2> QED BY <2>4, <2>5, <2>6
<1> QED BY <1>1, <1>2, <1>3, BufferInvariant, OrderInvariant, PTL DEF BufferSpec

-----------------------------------------------------------------------------
(* Rounding                                                                 *)

LEMMA Division ==
  ASSUME NEW x \in Nat, NEW u \in Nat, u > 0
  PROVE  x = (u * (x \div u)) + (x % u) /\ x % u \in 0 .. u - 1 /\ x \div u \in Nat
OBVIOUS

\* The float nearest to x is half the distance of two floats away at most.
LEMMA Nearest ==
  ASSUME NEW R \in Nat, NEW x \in Nat, UlpOf(x) \in 1 .. 2 * R + 1
  PROVE  FloatOf(x) \in Nat /\ x - R <= FloatOf(x) /\ FloatOf(x) <= x + R
<1> DEFINE u == UlpOf(x)
           d == x \div u
           r == x % u
           up == 2 * r > u \/ (2 * r = u /\ d % 2 = 1)
<1>1. u \in Nat /\ u > 0 /\ u <= 2 * R + 1
  OBVIOUS
<1>2. x = (u * d) + r /\ r \in 0 .. u - 1 /\ d \in Nat
  BY <1>1, Division
<1>3. FloatOf(x) = u * (IF up THEN d + 1 ELSE d)
  BY DEF FloatOf
<1> HIDE DEF u, d, r
<1>4. u * d \in Nat /\ u * (d + 1) = (u * d) + u
  BY <1>1, <1>2
<1>5. CASE up
  <2>1. 2 * r >= u
    BY <1>1, <1>2, <1>5
  <2>2. FloatOf(x) = (u * d) + u
    BY <1>3, <1>4, <1>5
  <2> QED BY <1>1, <1>2, <1>4, <2>1, <2>2
<1>6. CASE ~up
  <2>1. d % 2 \in {0, 1}
    BY <1>2
  <2>2. 2 * r <= u
    BY <1>1, <1>2, <1>6
  <2>3. FloatOf(x) = u * d
    BY <1>3, <1>6
  <2> QED BY <1>1, <1>2, <1>4, <2>2, <2>3
<1> QED BY <1>5, <1>6

\* What is added to the time of day for the next sample is the period, but for
\* two roundings.
LEMMA NextTimeWithin ==
  ASSUME NEW R \in Nat, FloatsWithin(R),
         NEW t \in Uptime .. Uptime + Horizon, NEW period \in SchedulePeriods
  PROVE  /\ NextTime(t, period) \in Nat
         /\ t + period - 2 * R <= NextTime(t, period)
         /\ NextTime(t, period) <= t + period + 2 * R
<1>1. t \in Nat /\ period \in Nat
  BY TimingAssumption DEF TimingAssumption, SchedulePeriods
<1>2. FloatOf(t) \in Nat /\ t - R <= FloatOf(t) /\ FloatOf(t) <= t + R
  BY <1>1, Nearest DEF FloatsWithin
<1> DEFINE sum == FloatOf(t) + period
<1>3. UlpOf(sum) \in 1 .. 2 * R + 1
  BY DEF FloatsWithin
<1>4. sum \in Nat /\ t + period - R <= sum /\ sum <= t + period + R
  BY <1>1, <1>2
<1> HIDE DEF sum
<1>5. FloatOf(sum) \in Nat /\ sum - R <= FloatOf(sum) /\ FloatOf(sum) <= sum + R
  BY <1>3, <1>4, Nearest
<1>6. NextTime(t, period) = FloatOf(sum)
  BY DEF NextTime, sum
<1> QED BY <1>1, <1>4, <1>5, <1>6

-----------------------------------------------------------------------------
(* The inductive invariant                                                  *)

Times == Nat \union {NoTime}

TimingTypeOK ==
  /\ now \in Uptime .. Uptime + Horizon
  /\ mIsEnabled \in BOOLEAN /\ mSamplingPeriodNs \in MinDelay .. MaxDelay
  /\ mNextSampleTimeNs \in Nat
  /\ mDirectChannels \in [Channels -> Entries]
  /\ mDirectChannelRateNs \in Nat /\ mDirectChannelEnabled \in BOOLEAN
  /\ mNextDirectChannelNs \in Nat
  /\ channels \subseteq Channels /\ sensorHandles \subseteq Channels
  /\ rateNs \in [Channels -> Nat] /\ sampleCount \in [Channels -> Nat]
  /\ wakeAt \in Nat
  /\ lastPost \in Times /\ postPeriod \in Nat
  /\ lastWrite \in [Channels -> Times]

Rates == {RateNs[level] : level \in 1 .. MaxRate}

Reporting(c) == mDirectChannels[c].known /\ mDirectChannels[c].enabled

\* The sensor's summary of its entries, and the two views of a channel.
Reports ==
  /\ \A c \in Channels : mDirectChannels[c].enabled => mDirectChannels[c].samplingPeriodNs \in Rates
  /\ mDirectChannelEnabled <=> (\E c \in Channels : Reporting(c))
  /\ mDirectChannelEnabled => mDirectChannelRateNs \in Rates
  /\ \A c \in Channels : Served(c) => Reporting(c) /\ rateNs[c] \in Rates /\ lastWrite[c] \in Nat

\* The run thread is at most Late behind the end of its wait.
Awake == Active => now <= wakeAt + Late

\* The next polled sample is due a period after the last one, or at once.
PollingDue(R) ==
  mIsEnabled =>
    /\ lastPost = NoTime => mNextSampleTimeNs = 0 /\ wakeAt <= postPeriod
    /\ lastPost # NoTime =>
         /\ lastPost + postPeriod - 2 * R <= mNextSampleTimeNs
         /\ mNextSampleTimeNs <= lastPost + postPeriod + 2 * R
         /\ wakeAt <= lastPost + postPeriod + 2 * R + MinWait - 1

\* The next sample of a direct report is due a period after the last one of
\* every channel, and never further away than that.
ReportsDue(R) ==
  /\ mDirectChannelEnabled => mNextDirectChannelNs <= now + RateNs[1] + 2 * R
  /\ \A c \in Channels : Served(c) =>
       /\ mNextDirectChannelNs <= lastWrite[c] + RateNs[1] + 2 * R
       /\ wakeAt <= lastWrite[c] + RateNs[1] + 2 * R + MinWait - 1

TimingInv(R) == TimingTypeOK /\ Reports /\ Awake /\ PollingDue(R)

-----------------------------------------------------------------------------
(* The types                                                                *)

LEMMA NeverIsATime == Never \in Nat
BY SMT DEF Never

LEMMA Periodical ==
  /\ Rates \subseteq SchedulePeriods /\ Rates \subseteq Nat \ {0}
  /\ MinDelay .. MaxDelay \subseteq SchedulePeriods /\ MinDelay .. MaxDelay \subseteq Nat \ {0}
BY TimingAssumption DEF TimingAssumption, Rates, SchedulePeriods

LEMMA TimingInit == Init => TimingTypeOK /\ Reports /\ Awake
<1> SUFFICES ASSUME Init PROVE TimingTypeOK /\ Reports /\ Awake
  OBVIOUS
<1>1. TimingTypeOK
  <2>1. NoEntry \in Entries
    BY DEF NoEntry, Entries
  <2>2. /\ mDirectChannels \in [Channels -> Entries]
        /\ rateNs \in [Channels -> Nat] /\ sampleCount \in [Channels -> Nat]
        /\ lastWrite \in [Channels -> Times]
    BY <2>1 DEF Init, Times, NoTime
  <2>3. /\ now \in Uptime .. Uptime + Horizon
        /\ mSamplingPeriodNs \in MinDelay .. MaxDelay
        /\ wakeAt \in Nat /\ lastPost \in Times /\ postPeriod \in Nat
    BY TimingAssumption DEF TimingAssumption, Init, Times
  <2> QED BY <2>2, <2>3, NeverIsATime DEF Init, TimingTypeOK
<1>2. Reports
  BY DEF Init, Reports, Reporting, Served, NoEntry
<1>3. Awake
  BY DEF Init, Awake, Active
<1> QED BY <1>1, <1>2, <1>3

\* The fastest of the enabled periods is one of them.
LEMMA FastestPeriod ==
  ASSUME NEW periods, periods \subseteq Rates, periods # {}
  PROVE  (CHOOSE p \in periods : \A q \in periods : p =< q) \in Rates
<1>1. Rates \subseteq {RateNs[1], RateNs[2], RateNs[3]}
  BY TimingAssumption DEF TimingAssumption, Rates
<1>2. RateNs[1] \in Nat /\ RateNs[2] \in Nat /\ RateNs[3] \in Nat
  BY TimingAssumption DEF TimingAssumption
<1>3. \E p \in periods : \A q \in periods : p =< q
  <2>1. CASE RateNs[1] \in periods /\ (RateNs[2] \in periods => RateNs[1] =< RateNs[2])
                                   /\ (RateNs[3] \in periods => RateNs[1] =< RateNs[3])
    BY <1>1, <1>2, <2>1
  <2>2. CASE RateNs[2] \in periods /\ (RateNs[1] \in periods => RateNs[2] =< RateNs[1])
                                   /\ (RateNs[3] \in periods => RateNs[2] =< RateNs[3])
    BY <1>1, <1>2, <2>2
  <2>3. CASE RateNs[3] \in periods /\ (RateNs[1] \in periods => RateNs[3] =< RateNs[1])
                                   /\ (RateNs[2] \in periods => RateNs[3] =< RateNs[2])
    BY <1>1, <1>2, <2>3
  <2> QED BY <1>1, <1>2, <2>1, <2>2, <2>3
<1>4. (CHOOSE p \in periods : \A q \in periods : p =< q) \in periods
  BY <1>3
<1> QED BY <1>4

\* What updateDirectChannel() makes of the sensor's entries.
LEMMA Summarized ==
  ASSUME TimingTypeOK, NEW entries \in [Channels -> Entries],
         \A c \in Channels : entries[c].enabled => entries[c].samplingPeriodNs \in Rates,
         UpdateDirectChannel(entries)
  PROVE  /\ mDirectChannels' = entries
         /\ mDirectChannelEnabled' \in BOOLEAN
         /\ mDirectChannelEnabled' <=> (\E c \in Channels : Reporting(c)')
         /\ mDirectChannelEnabled' => mDirectChannelRateNs' \in Rates
         /\ mDirectChannelRateNs' \in Nat
         /\ mNextDirectChannelNs' \in {mNextDirectChannelNs, 0, Never}
         /\ mDirectChannelEnabled' => mNextDirectChannelNs' \in
              {IF mDirectChannelEnabled THEN mNextDirectChannelNs ELSE 0}
<1> DEFINE periods == EnabledPeriods(entries)
<1>1. mDirectChannels' = entries
  BY DEF UpdateDirectChannel
<1>2. mDirectChannelEnabled' = (periods # {})
  BY DEF UpdateDirectChannel
<1>3. periods # {} <=> (\E c \in Channels : Reporting(c)')
  BY <1>1 DEF EnabledPeriods, Reporting
<1>4. periods \subseteq Rates
  BY DEF EnabledPeriods
<1>5. mDirectChannelRateNs' =
        IF periods # {} THEN CHOOSE p \in periods : \A q \in periods : p =< q ELSE Never
  BY DEF UpdateDirectChannel
<1>6. mNextDirectChannelNs' =
        IF (periods # {}) = mDirectChannelEnabled THEN mNextDirectChannelNs
        ELSE IF periods # {} THEN 0 ELSE Never
  BY DEF UpdateDirectChannel
<1> HIDE DEF periods
<1>7. periods # {} => mDirectChannelRateNs' \in Rates
  BY <1>4, <1>5, FastestPeriod
<1>8. mDirectChannelRateNs' \in Nat
  BY <1>5, <1>7, Periodical, NeverIsATime
<1>9. mNextDirectChannelNs' \in {mNextDirectChannelNs, 0, Never}
  BY <1>6
<1>10. periods # {} =>
         mNextDirectChannelNs' = IF mDirectChannelEnabled THEN mNextDirectChannelNs ELSE 0
  BY <1>6 DEF TimingTypeOK
<1> QED BY <1>1, <1>2, <1>3, <1>7, <1>8, <1>9, <1>10

\* The steps that change the entries of the sensor.
ChangesEntries ==
  \/ Initialize
  \/ \E c \in Channels : ConfigStop(c) \/ UnregisterDirectChannel(c)
  \/ \E c \in Channels, level \in 1 .. 3 : ConfigDirectReport(c, level)

\* What they have in common: the entries they leave are of the sensor's rates,
\* and a channel they leave served has its entry, and its last sample then or
\* before.
EntriesStep(entries) ==
  /\ UpdateDirectChannel(entries)
  /\ \A c \in Channels : entries[c].enabled => entries[c].samplingPeriodNs \in Rates
  /\ \A c \in Channels : Served(c)' =>
       /\ entries[c].known /\ entries[c].enabled
       /\ rateNs'[c] \in Rates
       /\ lastWrite'[c] = now \/ (Served(c) /\ lastWrite'[c] = lastWrite[c])
  /\ UNCHANGED <<now, polling, posted, sampleCount>>
  /\ channels' \subseteq Channels /\ sensorHandles' \subseteq Channels
  /\ rateNs' \in [Channels -> Nat] /\ lastWrite' \in [Channels -> Times]

LEMMA EntriesChanged ==
  ASSUME TimingTypeOK, Reports, ChangesEntries
  PROVE  \E entries \in [Channels -> Entries] : EntriesStep(entries)
<1>1. /\ rateNs \in [Channels -> Nat] /\ lastWrite \in [Channels -> Times]
      /\ mDirectChannels \in [Channels -> Entries]
      /\ channels \subseteq Channels /\ sensorHandles \subseteq Channels /\ now \in Times
  BY TimingAssumption DEF TimingAssumption, TimingTypeOK, Times
<1>2. \A c \in Channels : mDirectChannels[c].enabled => mDirectChannels[c].samplingPeriodNs \in Rates
  BY DEF Reports
<1>3. \A c \in Channels : Served(c) =>
        mDirectChannels[c].known /\ mDirectChannels[c].enabled /\ rateNs[c] \in Rates
  BY DEF Reports, Reporting
<1>4. \A cs : Removed(mDirectChannels, cs) \in [Channels -> Entries]
  BY <1>1 DEF Removed, Entries, NoEntry
<1>5. \A cs : \A c \in Channels :
        c \notin cs => Removed(mDirectChannels, cs)[c] = mDirectChannels[c]
  BY DEF Removed
<1>6. \A cs : \A c \in Channels :
        Removed(mDirectChannels, cs)[c].enabled => Removed(mDirectChannels, cs)[c].samplingPeriodNs \in Rates
  BY <1>2 DEF Removed, NoEntry
<1>7. CASE Initialize
  <2> DEFINE entries == Removed(mDirectChannels, channels \cap sensorHandles)
  <2>1. UpdateDirectChannel(entries) /\ UNCHANGED <<now, polling, posted, sampleCount>>
    BY <1>7 DEF Initialize
  <2>2. \A c \in Channels : ~Served(c)'
    BY <1>7 DEF Initialize, Served
  <2>3. /\ channels' \subseteq Channels /\ sensorHandles' \subseteq Channels
        /\ rateNs' \in [Channels -> Nat] /\ lastWrite' \in [Channels -> Times]
    BY <1>1, <1>7 DEF Initialize
  <2>4. EntriesStep(entries)
    BY <1>6, <2>1, <2>2, <2>3 DEF EntriesStep
  <2> QED BY <1>4, <2>4
<1>8. ASSUME NEW c \in Channels, UnregisterDirectChannel(c)
      PROVE  \E entries \in [Channels -> Entries] : EntriesStep(entries)
  <2> DEFINE entries == Removed(mDirectChannels, {c} \cap sensorHandles)
  <2>1. UpdateDirectChannel(entries) /\ UNCHANGED <<now, polling, posted, sampleCount>>
    BY <1>8 DEF UnregisterDirectChannel
  <2>2. /\ channels' \subseteq Channels /\ sensorHandles' \subseteq Channels
        /\ rateNs' \in [Channels -> Nat] /\ lastWrite' \in [Channels -> Times]
    BY <1>1, <1>8 DEF UnregisterDirectChannel
  <2>3. ASSUME NEW d \in Channels, Served(d)'
        PROVE  /\ entries[d].known /\ entries[d].enabled
               /\ rateNs'[d] \in Rates
               /\ Served(d) /\ lastWrite'[d] = lastWrite[d]
    <3>1. Served(d) /\ d # c /\ rateNs'[d] = rateNs[d] /\ lastWrite'[d] = lastWrite[d]
      BY <1>8, <2>3 DEF UnregisterDirectChannel, Served
    <3>2. entries[d] = mDirectChannels[d]
      BY <1>5, <3>1
    <3> QED BY <1>3, <3>1, <3>2
  <2>4. EntriesStep(entries)
    BY <1>6, <2>1, <2>2, <2>3 DEF EntriesStep
  <2> QED BY <1>4, <2>4
<1>9. ASSUME NEW c \in Channels, ConfigStop(c)
      PROVE  \E entries \in [Channels -> Entries] : EntriesStep(entries)
  <2> DEFINE stopped == [known |-> TRUE, enabled |-> FALSE, samplingPeriodNs |-> 0]
             entries == [mDirectChannels EXCEPT ![c] = stopped]
  <2>1. UpdateDirectChannel(entries) /\ UNCHANGED <<now, polling, posted, sampleCount>>
    BY <1>9 DEF ConfigStop
  <2>2. /\ channels' \subseteq Channels /\ sensorHandles' \subseteq Channels
        /\ rateNs' \in [Channels -> Nat] /\ lastWrite' \in [Channels -> Times]
    BY <1>1, <1>9 DEF ConfigStop
  <2>3. ASSUME NEW d \in Channels, Served(d)'
        PROVE  /\ entries[d].known /\ entries[d].enabled
               /\ rateNs'[d] \in Rates
               /\ Served(d) /\ lastWrite'[d] = lastWrite[d]
    <3>1. d # c
      BY <1>1, <1>9, <2>3 DEF ConfigStop, Served
    <3>2. Served(d) /\ rateNs'[d] = rateNs[d] /\ lastWrite'[d] = lastWrite[d]
      BY <1>1, <1>9, <2>3, <3>1 DEF ConfigStop, Served
    <3>3. entries[d] = mDirectChannels[d]
      BY <1>1, <3>1
    <3> QED BY <1>3, <3>2, <3>3
  <2>4. entries \in [Channels -> Entries]
    BY <1>1 DEF Entries
  <2>5. \A d \in Channels : entries[d].enabled => entries[d].samplingPeriodNs \in Rates
    BY <1>1, <1>2
  <2>6. EntriesStep(entries)
    BY <2>1, <2>2, <2>3, <2>5 DEF EntriesStep
  <2> QED BY <2>4, <2>6
<1>10. ASSUME NEW c \in Channels, NEW level \in 1 .. 3, ConfigDirectReport(c, level)
       PROVE  \E entries \in [Channels -> Entries] : EntriesStep(entries)
  <2> DEFINE started == [known |-> TRUE, enabled |-> TRUE, samplingPeriodNs |-> RateNs[level]]
             entries == [mDirectChannels EXCEPT ![c] = started]
  <2>1. UpdateDirectChannel(entries) /\ UNCHANGED <<now, polling, posted, sampleCount>>
    BY <1>10 DEF ConfigDirectReport
  <2>2. level \in 1 .. MaxRate /\ RateNs[level] \in Nat /\ RateNs[level] \in Rates
    BY <1>10, TimingAssumption DEF ConfigDirectReport, Rates, TimingAssumption
  <2>3. /\ channels' \subseteq Channels /\ sensorHandles' \subseteq Channels
        /\ rateNs' \in [Channels -> Nat] /\ lastWrite' \in [Channels -> Times]
    BY <1>1, <1>10, <2>2 DEF ConfigDirectReport
  <2>4. ASSUME NEW d \in Channels, Served(d)'
        PROVE  /\ entries[d].known /\ entries[d].enabled
               /\ rateNs'[d] \in Rates
               /\ lastWrite'[d] = now \/ (Served(d) /\ lastWrite'[d] = lastWrite[d])
    <3>1. CASE d = c
      BY <1>1, <1>10, <2>2, <3>1 DEF ConfigDirectReport
    <3>2. CASE d # c
      <4>1. Served(d) /\ rateNs'[d] = rateNs[d] /\ lastWrite'[d] = lastWrite[d]
        BY <1>1, <1>10, <2>4, <3>2 DEF ConfigDirectReport, Served
      <4>2. entries[d] = mDirectChannels[d]
        BY <1>1, <3>2
      <4> QED BY <1>3, <4>1, <4>2
    <3> QED BY <3>1, <3>2
  <2>5. entries \in [Channels -> Entries]
    BY <1>1, <2>2 DEF Entries
  <2>6. \A d \in Channels : entries[d].enabled => entries[d].samplingPeriodNs \in Rates
    BY <1>1, <1>2, <2>2
  <2>7. EntriesStep(entries)
    BY <2>1, <2>3, <2>4, <2>6 DEF EntriesStep
  <2> QED BY <2>5, <2>7
<1> QED BY <1>7, <1>8, <1>9, <1>10 DEF ChangesEntries

LEMMA NextCases ==
  ASSUME [Next]_vars
  PROVE  \/ Run \/ Tick \/ ChangesEntries
         \/ \E enable \in BOOLEAN : Activate(enable)
         \/ \E period \in Periods : Batch(period)
         \/ \E c \in Channels : RegisterDirectChannel(c)
         \/ UNCHANGED vars
BY DEF Next, ChangesEntries

\* What a pass of the loop leaves of the schedules.
LEMMA RunTimes ==
  ASSUME NEW R \in Nat, FloatsWithin(R), TimingTypeOK, Reports, Run
  PROVE  /\ DirectDue => /\ mNextDirectChannelNs' \in Nat
                         /\ mNextDirectChannelNs' <= now + mDirectChannelRateNs + 2 * R
         /\ ~DirectDue => mNextDirectChannelNs' = mNextDirectChannelNs
         /\ SampleDue => /\ mNextSampleTimeNs' \in Nat
                         /\ now + mSamplingPeriodNs - 2 * R <= mNextSampleTimeNs'
                         /\ mNextSampleTimeNs' <= now + mSamplingPeriodNs + 2 * R
         /\ ~SampleDue => mNextSampleTimeNs' = mNextSampleTimeNs
         /\ mNextDirectChannelNs' \in Nat /\ mNextSampleTimeNs' \in Nat
         /\ wakeAt' \in Nat /\ wakeAt' > now
         /\ wakeAt' = now + MinWait \/ wakeAt' <= mNextDirectChannelNs'
         /\ wakeAt' = now + MinWait \/ wakeAt' <= mNextSampleTimeNs'
<1>1. /\ now \in Nat /\ mNextDirectChannelNs \in Nat /\ mNextSampleTimeNs \in Nat
      /\ MinWait \in Nat \ {0}
  BY TimingAssumption DEF TimingAssumption, TimingTypeOK
<1>2. DirectDue => /\ mNextDirectChannelNs' \in Nat
                   /\ mNextDirectChannelNs' <= now + mDirectChannelRateNs + 2 * R
  <2> SUFFICES ASSUME DirectDue
               PROVE  /\ mNextDirectChannelNs' \in Nat
                      /\ mNextDirectChannelNs' <= now + mDirectChannelRateNs + 2 * R
    OBVIOUS
  <2>1. mDirectChannelRateNs \in SchedulePeriods
    BY Periodical DEF DirectDue, Reports
  <2>2. mNextDirectChannelNs' = NextTime(now, mDirectChannelRateNs)
    BY DEF Run
  <2> QED BY <2>1, <2>2, NextTimeWithin DEF TimingTypeOK
<1>3. SampleDue => /\ mNextSampleTimeNs' \in Nat
                   /\ now + mSamplingPeriodNs - 2 * R <= mNextSampleTimeNs'
                   /\ mNextSampleTimeNs' <= now + mSamplingPeriodNs + 2 * R
  <2>1. mSamplingPeriodNs \in SchedulePeriods
    BY Periodical DEF TimingTypeOK
  <2>2. SampleDue => mNextSampleTimeNs' = NextTime(now, mSamplingPeriodNs)
    BY DEF Run
  <2> QED BY <2>1, <2>2, NextTimeWithin DEF TimingTypeOK
<1>4. /\ ~DirectDue => mNextDirectChannelNs' = mNextDirectChannelNs
      /\ ~SampleDue => mNextSampleTimeNs' = mNextSampleTimeNs
  BY DEF Run
<1>5. mNextDirectChannelNs' \in Nat /\ mNextSampleTimeNs' \in Nat
  BY <1>1, <1>2, <1>3, <1>4
<1>6. wakeAt' = now + WaitFor(now, mNextSampleTimeNs', mNextDirectChannelNs')
  BY DEF Run
<1>7. /\ wakeAt' \in Nat /\ wakeAt' > now
      /\ wakeAt' = now + MinWait \/ wakeAt' <= mNextDirectChannelNs'
      /\ wakeAt' = now + MinWait \/ wakeAt' <= mNextSampleTimeNs'
  <2> DEFINE nextSample == mNextSampleTimeNs'
             nextDirect == mNextDirectChannelNs'
             wait == WaitFor(now, nextSample, nextDirect)
  <2>1. nextSample \in Nat /\ nextDirect \in Nat
    BY <1>5
  <2>2. wakeAt' = now + wait
    BY <1>6
  <2> HIDE DEF nextSample, nextDirect
  <2>3. /\ wait \in Nat \ {0}
        /\ wait = MinWait \/ wait <= nextSample - now
        /\ wait = MinWait \/ wait <= nextDirect - now
    BY <1>1, <2>1 DEF WaitFor, Larger, Smaller
  <2> HIDE DEF wait
  <2>4. /\ wakeAt' \in Nat /\ wakeAt' > now
        /\ wakeAt' = now + MinWait \/ wakeAt' <= nextDirect
        /\ wakeAt' = now + MinWait \/ wakeAt' <= nextSample
    BY <1>1, <2>1, <2>2, <2>3
  <2> QED BY <2>4 DEF nextSample, nextDirect
<1> QED BY <1>2, <1>3, <1>4, <1>5, <1>7

\* A notification makes the run thread wake up now, if not before.
LEMMA Notified ==
  ASSUME TimingTypeOK, Notify
  PROVE  /\ wakeAt' \in Nat /\ wakeAt' <= now
         /\ Active => wakeAt' <= wakeAt
         /\ Awake => now <= wakeAt' + Late
<1>1. now \in Nat /\ wakeAt \in Nat /\ Late \in Nat
  BY TimingAssumption DEF TimingAssumption, TimingTypeOK
<1> QED BY <1>1 DEF Notify, Smaller, Awake

LEMMA TypeStep ==
  ASSUME NEW R \in Nat, FloatsWithin(R), TimingTypeOK, Reports, [Next]_vars
  PROVE  TimingTypeOK'
<1>1. now \in Nat /\ now \in Times
  BY TimingAssumption DEF TimingAssumption, TimingTypeOK, Times
<1>2. CASE Run
  <2>1. mNextDirectChannelNs' \in Nat /\ mNextSampleTimeNs' \in Nat /\ wakeAt' \in Nat
    BY <1>2, RunTimes
  <2>2. sampleCount' \in [Channels -> Nat] /\ lastWrite' \in [Channels -> Times]
    BY <1>1, <1>2 DEF Run, WriteToDirectBuffer, TimingTypeOK
  <2>3. lastPost' \in Times /\ postPeriod' \in Nat
    BY <1>1, <1>2, Periodical DEF Run, TimingTypeOK, posted
  <2> QED BY <1>2, <2>1, <2>2, <2>3 DEF Run, TimingTypeOK, registry
<1>3. CASE Tick
  <2>1. now' \in Uptime .. Uptime + Horizon
    BY <1>3, TimingAssumption DEF Tick, TimingTypeOK, TimingAssumption
  <2> QED BY <1>3, <2>1 DEF Tick, TimingTypeOK, polling, direct, registry, posted
<1>4. CASE ChangesEntries
  <2>1. PICK entries \in [Channels -> Entries] : EntriesStep(entries)
    BY <1>4, EntriesChanged
  <2>2. UpdateDirectChannel(entries) /\ Notify
    BY <2>1 DEF EntriesStep, UpdateDirectChannel
  <2>3. wakeAt' \in Nat
    BY <2>2, Notified
  <2>4. /\ mDirectChannels' = entries /\ mDirectChannelEnabled' \in BOOLEAN
        /\ mDirectChannelRateNs' \in Nat
        /\ mNextDirectChannelNs' \in {mNextDirectChannelNs, 0, Never}
    BY <2>1, <2>2, Summarized DEF EntriesStep
  <2>5. mNextDirectChannelNs' \in Nat
    BY <2>4, NeverIsATime DEF TimingTypeOK
  <2> QED BY <2>1, <2>3, <2>4, <2>5 DEF EntriesStep, TimingTypeOK, polling, posted
<1>5. ASSUME NEW enable \in BOOLEAN, Activate(enable) PROVE TimingTypeOK'
  <2>1. wakeAt' \in Nat
    BY <1>5, Notified DEF Activate
  <2>2. mNextSampleTimeNs' \in Nat /\ mIsEnabled' \in BOOLEAN /\ lastPost' \in Times
    BY <1>5, NeverIsATime DEF Activate, FirstSample, Times
  <2> QED BY <1>1, <1>5, <2>1, <2>2 DEF Activate, TimingTypeOK, direct, registry
<1>6. ASSUME NEW period \in Periods, Batch(period) PROVE TimingTypeOK'
  <2>1. wakeAt' \in Nat
    BY <1>6, Notified DEF Batch
  <2>2. mSamplingPeriodNs' \in MinDelay .. MaxDelay
    BY <1>6, TimingAssumption DEF Batch, Clamp, Larger, Smaller, TimingAssumption
  <2> QED BY <1>6, <2>1, <2>2 DEF Batch, TimingTypeOK, direct, registry, posted
<1>7. ASSUME NEW c \in Channels, RegisterDirectChannel(c) PROVE TimingTypeOK'
  <2>1. /\ channels' \subseteq Channels /\ sensorHandles' \subseteq Channels
        /\ rateNs' \in [Channels -> Nat] /\ sampleCount' \in [Channels -> Nat]
    BY <1>7 DEF RegisterDirectChannel, TimingTypeOK
  <2> QED BY <1>7, <2>1 DEF RegisterDirectChannel, TimingTypeOK, polling, direct, posted
<1>8. CASE UNCHANGED vars
  BY <1>8 DEF vars, TimingTypeOK, polling, direct, registry, posted
<1> QED BY <1>2, <1>3, <1>4, <1>5, <1>6, <1>7, <1>8, NextCases

-----------------------------------------------------------------------------
(* The sensor's view of its channels                                        *)

LEMMA ReportsStep ==
  ASSUME TimingTypeOK, Reports, [Next]_vars
  PROVE  Reports'
<1>1. now \in Nat
  BY TimingAssumption DEF TimingAssumption, TimingTypeOK
<1>2. CASE Run
  <2>1. \A c \in Channels : Served(c)' <=> Served(c)
    BY <1>2 DEF Run, registry, Served
  <2>2. \A c \in Channels : Served(c) => lastWrite'[c] \in Nat
    BY <1>1, <1>2 DEF Run, WriteToDirectBuffer, Reports
  <2> QED BY <1>2, <2>1, <2>2 DEF Run, Reports, Reporting, registry
<1>3. CASE ChangesEntries
  <2>1. PICK entries \in [Channels -> Entries] : EntriesStep(entries)
    BY <1>3, EntriesChanged
  <2>2. /\ mDirectChannels' = entries
        /\ mDirectChannelEnabled' <=> (\E c \in Channels : Reporting(c)')
        /\ mDirectChannelEnabled' => mDirectChannelRateNs' \in Rates
    BY <2>1, Summarized DEF EntriesStep
  <2>3. \A c \in Channels : entries[c].enabled => entries[c].samplingPeriodNs \in Rates
    BY <2>1 DEF EntriesStep
  <2>4. ASSUME NEW c \in Channels, Served(c)'
        PROVE  Reporting(c)' /\ rateNs'[c] \in Rates /\ lastWrite'[c] \in Nat
    BY <1>1, <2>1, <2>2, <2>4 DEF EntriesStep, Reports, Reporting
  <2> QED BY <2>2, <2>3, <2>4 DEF Reports
<1>4. CASE \E c \in Channels : RegisterDirectChannel(c)
  <2>1. PICK c \in Channels : RegisterDirectChannel(c)
    BY <1>4
  <2>2. ~Served(c)'
    BY <2>1 DEF RegisterDirectChannel, Served
  <2>3. \A d \in Channels \ {c} : Served(d)' => Served(d) /\ rateNs'[d] = rateNs[d]
    BY <2>1 DEF RegisterDirectChannel, Served, TimingTypeOK
  <2> QED BY <2>1, <2>2, <2>3 DEF RegisterDirectChannel, Reports, Reporting, direct
<1>5. CASE UNCHANGED <<direct, registry, lastWrite>>
  BY <1>5 DEF Reports, Reporting, Served, direct, registry
<1>6. Tick \/ (\E enable \in BOOLEAN : Activate(enable)) \/ (\E period \in Periods : Batch(period))
      \/ UNCHANGED vars
      => UNCHANGED <<direct, registry, lastWrite>>
  BY DEF Tick, Activate, Batch, vars
<1> QED BY <1>2, <1>3, <1>4, <1>5, <1>6, NextCases

LEMMA AwakeStep ==
  ASSUME NEW R \in Nat, FloatsWithin(R), TimingTypeOK, Reports, Awake, [Next]_vars
  PROVE  Awake'
<1>1. now \in Nat /\ wakeAt \in Nat /\ Late \in Nat
  BY TimingAssumption DEF TimingAssumption, TimingTypeOK
<1>2. CASE Run
  <2>1. wakeAt' \in Nat /\ wakeAt' > now
    BY <1>2, RunTimes
  <2> QED BY <1>1, <1>2, <2>1 DEF Run, Awake
<1>3. CASE Tick
  BY <1>1, <1>3 DEF Tick, Awake, Active, polling, direct
<1>4. CASE ChangesEntries
  <2>1. PICK entries \in [Channels -> Entries] : EntriesStep(entries)
    BY <1>4, EntriesChanged
  <2>2. Notify /\ now' = now
    BY <2>1 DEF EntriesStep, UpdateDirectChannel
  <2> QED BY <2>2, Notified DEF Awake
<1>5. CASE \E enable \in BOOLEAN : Activate(enable)
  BY <1>5, Notified DEF Activate, Awake
<1>6. CASE \E period \in Periods : Batch(period)
  BY <1>6, Notified DEF Batch, Awake
<1>7. CASE \E c \in Channels : RegisterDirectChannel(c)
  BY <1>7 DEF RegisterDirectChannel, Awake, Active, polling, direct
<1>8. CASE UNCHANGED vars
  BY <1>8 DEF vars, Awake, Active, polling, direct
<1> QED BY <1>2, <1>3, <1>4, <1>5, <1>6, <1>7, <1>8, NextCases

-----------------------------------------------------------------------------
(* Polling                                                                  *)

LEMMA PollingStep ==
  ASSUME NEW R \in Nat, FloatsWithin(R), TimingTypeOK, Reports, PollingDue(R), [Next]_vars
  PROVE  PollingDue(R)'
<1>1. /\ now \in Nat /\ wakeAt \in Nat /\ mNextSampleTimeNs \in Nat
      /\ lastPost \in Times /\ postPeriod \in Nat /\ mIsEnabled \in BOOLEAN
      /\ mSamplingPeriodNs \in Nat \ {0} /\ MinWait \in Nat \ {0}
  BY TimingAssumption, Periodical DEF TimingAssumption, TimingTypeOK
<1>2. CASE Run
  <2>1. mIsEnabled' = mIsEnabled
    BY <1>2 DEF Run
  <2>2. CASE SampleDue
    <3>1. lastPost' = now /\ postPeriod' = mSamplingPeriodNs /\ now # NoTime
      BY <1>1, <1>2, <2>2 DEF Run, NoTime
    <3>2. /\ mNextSampleTimeNs' \in Nat
          /\ now + mSamplingPeriodNs - 2 * R <= mNextSampleTimeNs'
          /\ mNextSampleTimeNs' <= now + mSamplingPeriodNs + 2 * R
          /\ wakeAt' \in Nat
          /\ wakeAt' = now + MinWait \/ wakeAt' <= mNextSampleTimeNs'
      BY <1>2, <2>2, RunTimes
    <3>3. wakeAt' <= now + mSamplingPeriodNs + 2 * R + MinWait - 1
      BY <1>1, <3>2
    <3> QED BY <3>1, <3>2, <3>3 DEF PollingDue
  <2>3. CASE mIsEnabled /\ ~SampleDue
    <3>1. now < mNextSampleTimeNs
      BY <1>1, <2>3 DEF SampleDue
    <3>2. /\ mNextSampleTimeNs' = mNextSampleTimeNs
          /\ wakeAt' \in Nat
          /\ wakeAt' = now + MinWait \/ wakeAt' <= mNextSampleTimeNs'
      BY <1>2, <2>3, RunTimes
    <3>3. wakeAt' <= mNextSampleTimeNs + MinWait - 1
      BY <1>1, <3>1, <3>2
    <3>4. lastPost # NoTime
      BY <1>1, <2>3, <3>1 DEF PollingDue
    <3>5. lastPost \in Nat
      BY <1>1, <3>4 DEF Times
    <3>6. lastPost' = lastPost /\ postPeriod' = postPeriod
      BY <1>2, <2>3 DEF Run, posted
    <3>7. /\ lastPost + postPeriod - 2 * R <= mNextSampleTimeNs
          /\ mNextSampleTimeNs <= lastPost + postPeriod + 2 * R
      BY <2>3, <3>4 DEF PollingDue
    <3>8. wakeAt' <= lastPost + postPeriod + 2 * R + MinWait - 1
      BY <1>1, <3>2, <3>3, <3>5, <3>7
    <3> QED BY <3>2, <3>4, <3>6, <3>7, <3>8 DEF PollingDue
  <2> QED BY <1>1, <2>1, <2>2, <2>3 DEF PollingDue
<1>3. ASSUME NEW enable \in BOOLEAN, Activate(enable)
      PROVE  PollingDue(R)'
  <2>1. lastPost' = NoTime /\ postPeriod' = now /\ wakeAt' <= now
    BY <1>3, Notified DEF Activate
  <2>2. mIsEnabled' => mNextSampleTimeNs' = 0
    BY <1>3 DEF Activate, FirstSample
  <2> QED BY <2>1, <2>2 DEF PollingDue
<1>4. ASSUME Notify, UNCHANGED <<mIsEnabled, mNextSampleTimeNs, posted>>
      PROVE  PollingDue(R)'
  <2>1. wakeAt' \in Nat /\ (mIsEnabled => wakeAt' <= wakeAt)
    BY <1>4, Notified DEF Active
  <2>2. UNCHANGED <<lastPost, postPeriod>>
    BY <1>4 DEF posted
  <2>3. CASE lastPost = NoTime
    BY <1>1, <1>4, <2>1, <2>2, <2>3 DEF PollingDue
  <2>4. CASE lastPost # NoTime
    <3>1. lastPost \in Nat
      BY <1>1, <2>4 DEF Times
    <3>2. SUFFICES ASSUME mIsEnabled PROVE PollingDue(R)'
      BY <1>4 DEF PollingDue
    <3>3. /\ lastPost + postPeriod - 2 * R <= mNextSampleTimeNs
          /\ mNextSampleTimeNs <= lastPost + postPeriod + 2 * R
          /\ wakeAt <= lastPost + postPeriod + 2 * R + MinWait - 1
      BY <2>4, <3>2 DEF PollingDue
    <3>4. wakeAt' <= lastPost + postPeriod + 2 * R + MinWait - 1
      BY <1>1, <2>1, <3>1, <3>2, <3>3
    <3> QED BY <1>4, <2>2, <2>4, <3>3, <3>4 DEF PollingDue
  <2> QED BY <2>3, <2>4
<1>5. CASE ChangesEntries
  <2>1. PICK entries \in [Channels -> Entries] : EntriesStep(entries)
    BY <1>5, EntriesChanged
  <2> QED BY <1>4, <2>1 DEF EntriesStep, UpdateDirectChannel, polling
<1>6. CASE \E period \in Periods : Batch(period)
  BY <1>4, <1>6 DEF Batch
<1>7. CASE UNCHANGED <<polling, posted, wakeAt>>
  BY <1>7 DEF PollingDue, polling, posted
<1>8. Tick \/ (\E c \in Channels : RegisterDirectChannel(c)) \/ UNCHANGED vars
      => UNCHANGED <<polling, posted, wakeAt>>
  BY DEF Tick, RegisterDirectChannel, vars
<1> QED BY <1>2, <1>3, <1>5, <1>6, <1>7, <1>8, NextCases

LEMMA TimingStep ==
  ASSUME NEW R \in Nat, FloatsWithin(R), TimingInv(R), [Next]_vars
  PROVE  TimingInv(R)'
BY TypeStep, ReportsStep, AwakeStep, PollingStep DEF TimingInv

LEMMA TimingStarts ==
  ASSUME NEW R \in Nat, Init
  PROVE  TimingInv(R)
BY TimingInit DEF Init, TimingInv, PollingDue

\* The inductive invariant holds whatever the rounding.
THEOREM TimingInvariant ==
  ASSUME NEW R \in Nat, FloatsWithin(R)
  PROVE  Spec => []TimingInv(R)
<1>1. Init => TimingInv(R)
  BY TimingStarts
<1>2. TimingInv(R) /\ [Next]_vars => TimingInv(R)'
  BY TimingStep
<1> QED BY <1>1, <1>2, PTL DEF Spec

\* PolledOnTime where floats are 2 * R + 1 apart: Sensor::run() is late by the
\* rounding of the time of day besides, at most.
PolledWithin(R) ==
  mIsEnabled =>
    IF lastPost = NoTime THEN now <= postPeriod + Late
    ELSE now < lastPost + postPeriod + 2 * R + MinWait + Late

LEMMA PolledInTime ==
  ASSUME NEW R \in Nat, TimingInv(R)
  PROVE  PolledWithin(R)
<1> SUFFICES ASSUME mIsEnabled
             PROVE  IF lastPost = NoTime THEN now <= postPeriod + Late
                    ELSE now < lastPost + postPeriod + 2 * R + MinWait + Late
  BY DEF PolledWithin
<1>1. /\ now \in Nat /\ wakeAt \in Nat /\ Late \in Nat /\ MinWait \in Nat \ {0}
      /\ lastPost \in Times /\ postPeriod \in Nat
  BY TimingAssumption DEF TimingAssumption, TimingInv, TimingTypeOK
<1>2. now <= wakeAt + Late
  BY DEF TimingInv, Awake, Active
<1>3. CASE lastPost = NoTime
  <2>1. wakeAt <= postPeriod
    BY <1>3 DEF TimingInv, PollingDue
  <2> QED BY <1>1, <1>2, <1>3, <2>1
<1>4. CASE lastPost # NoTime
  <2>1. lastPost \in Nat
    BY <1>1, <1>4 DEF Times
  <2>2. wakeAt <= lastPost + postPeriod + 2 * R + MinWait - 1
    BY <1>4 DEF TimingInv, PollingDue
  <2> QED BY <1>1, <1>2, <1>4, <2>1, <2>2
<1> QED BY <1>3, <1>4

\* An enabled sensor's samples are late by the run thread's delay, its shortest
\* wait and the rounding, at most, whatever the run thread is woken for.
THEOREM PolledNearlyOnTime ==
  ASSUME NEW R \in Nat, FloatsWithin(R)
  PROVE  Spec => []PolledWithin(R)
<1>1. TimingInv(R) => PolledWithin(R)
  BY PolledInTime
<1> QED BY <1>1, TimingInvariant, PTL

\* Where floats are exact, an enabled sensor's samples are late by the run
\* thread's delay and its shortest wait, at most.
THEOREM SamplesOnTime ==
  ASSUME FloatsWithin(0)
  PROVE  Spec => []PolledOnTime
<1>1. TimingInv(0) => PolledOnTime
  <2> SUFFICES ASSUME TimingInv(0) PROVE PolledOnTime
    OBVIOUS
  <2>1. PolledWithin(0)
    BY PolledInTime
  <2>2. /\ now \in Nat /\ Late \in Nat /\ MinWait \in Nat
        /\ lastPost \in Int /\ postPeriod \in Nat
    BY TimingAssumption DEF TimingAssumption, TimingInv, TimingTypeOK, Times, NoTime
  <2> QED BY <2>1, <2>2 DEF PolledWithin, PolledOnTime
<1>2. Init => TimingInv(0)
  BY TimingStarts
<1>3. TimingInv(0) /\ [Next]_vars => TimingInv(0)'
  BY TimingStep
<1> QED BY <1>1, <1>2, <1>3, PTL DEF Spec

\* NotReduced where floats are 2 * R + 1 apart.
ReducedBy(R) ==
  [][lastPost # NoTime /\ lastPost' \notin {NoTime, lastPost}
       => lastPost' >= lastPost + postPeriod - 2 * R]_vars

LEMMA SpacedSamples ==
  ASSUME NEW R \in Nat, TimingInv(R), [Next]_vars,
         lastPost # NoTime, lastPost' \notin {NoTime, lastPost}
  PROVE  lastPost' \in Nat /\ lastPost' >= lastPost + postPeriod - 2 * R
<1>1. /\ now \in Nat /\ lastPost \in Nat /\ postPeriod \in Nat /\ mNextSampleTimeNs \in Nat
  BY TimingAssumption DEF TimingAssumption, TimingInv, TimingTypeOK, Times
<1>2. Run /\ SampleDue
  <2>1. Tick \/ ChangesEntries \/ UNCHANGED vars => lastPost' = lastPost
    BY DEF Tick, ChangesEntries, Initialize, ConfigStop, UnregisterDirectChannel,
           ConfigDirectReport, vars, posted
  <2>2. (\E period \in Periods : Batch(period)) \/ (\E c \in Channels : RegisterDirectChannel(c))
        => lastPost' = lastPost
    BY DEF Batch, RegisterDirectChannel, posted
  <2>3. (\E enable \in BOOLEAN : Activate(enable)) => lastPost' = NoTime
    BY DEF Activate
  <2>4. Run /\ ~SampleDue => lastPost' = lastPost
    BY DEF Run, posted
  <2> QED BY <2>1, <2>2, <2>3, <2>4, NextCases
<1>3. lastPost' = now /\ now >= mNextSampleTimeNs /\ mIsEnabled
  BY <1>2 DEF Run, SampleDue
<1>4. lastPost + postPeriod - 2 * R <= mNextSampleTimeNs
  BY <1>3 DEF TimingInv, PollingDue
<1> QED BY <1>1, <1>3, <1>4

\* Samples come closer to each other than the period by the rounding, at most.
THEOREM ReducedByRounding ==
  ASSUME NEW R \in Nat, FloatsWithin(R)
  PROVE  Spec => ReducedBy(R)
<1>1. TimingInv(R) /\ [Next]_vars =>
        [lastPost # NoTime /\ lastPost' \notin {NoTime, lastPost}
           => lastPost' >= lastPost + postPeriod - 2 * R]_vars
  BY SpacedSamples
<1> QED BY <1>1, TimingInvariant, PTL DEF Spec, ReducedBy

\* Where floats are exact, POLL_TIME_REDUCTION_FACTOR means no reduction.
THEOREM PeriodsNotReduced ==
  ASSUME FloatsWithin(0)
  PROVE  Spec => NotReduced
<1>1. TimingInv(0) /\ [Next]_vars =>
        [lastPost # NoTime /\ lastPost' \notin {NoTime, lastPost}
           => lastPost' >= lastPost + postPeriod]_vars
  <2> SUFFICES ASSUME TimingInv(0), [Next]_vars,
                      lastPost # NoTime, lastPost' \notin {NoTime, lastPost}
               PROVE  lastPost' >= lastPost + postPeriod
    OBVIOUS
  <2>1. lastPost' \in Nat /\ lastPost' >= lastPost + postPeriod - 2 * 0
    BY SpacedSamples
  <2>2. lastPost \in Int /\ postPeriod \in Nat
    BY DEF TimingInv, TimingTypeOK, Times, NoTime
  <2> QED BY <2>1, <2>2
<1>2. Init => TimingInv(0)
  BY TimingStarts
<1>3. TimingInv(0) /\ [Next]_vars => TimingInv(0)'
  BY TimingStep
<1> QED BY <1>1, <1>2, <1>3, PTL DEF Spec, NotReduced

-----------------------------------------------------------------------------
(* Direct reports.  AddSensors() gives every sensor the level NORMAL, so    *)
(* that all channels of a sensor have the rate of that level.               *)

OneLevel == MaxRate = 1

LEMMA OneRate == OneLevel => Rates = {RateNs[1]} /\ RateNs[1] \in Nat \ {0}
BY TimingAssumption DEF TimingAssumption, OneLevel, Rates

LEMMA ReportsDueStep ==
  ASSUME NEW R \in Nat, FloatsWithin(R), OneLevel,
         TimingTypeOK, Reports, ReportsDue(R), [Next]_vars
  PROVE  ReportsDue(R)'
<1> DEFINE P == RateNs[1]
<1>1. /\ now \in Nat /\ wakeAt \in Nat /\ mNextDirectChannelNs \in Nat
      /\ mDirectChannelEnabled \in BOOLEAN /\ P \in Nat \ {0}
      /\ MinWait \in Nat \ {0}
  BY OneRate, TimingAssumption DEF TimingAssumption, TimingTypeOK
<1>2. \A c \in Channels : Served(c) =>
        mDirectChannelEnabled /\ lastWrite[c] \in Nat /\ rateNs[c] = P
  BY OneRate DEF Reports
<1>3. \A c \in Channels : Served(c) => Active
  BY <1>2 DEF Active
<1>4. CASE Run
  <2>1. /\ mDirectChannelEnabled' = mDirectChannelEnabled /\ now' = now
        /\ \A c \in Channels : Served(c)' <=> Served(c)
    BY <1>4 DEF Run, registry, Served
  <2>2. /\ mNextDirectChannelNs' \in Nat /\ wakeAt' \in Nat
        /\ wakeAt' = now + MinWait \/ wakeAt' <= mNextDirectChannelNs'
    BY <1>4, RunTimes
  <2>3. CASE DirectDue
    <3>1. mDirectChannelRateNs = P
      BY <2>3, OneRate DEF DirectDue, Reports
    <3>2. mNextDirectChannelNs' <= now + P + 2 * R
      BY <1>4, <2>3, <3>1, RunTimes
    <3>3. wakeAt' <= now + P + 2 * R + MinWait - 1
      BY <1>1, <2>2, <3>2
    <3>4. ASSUME NEW c \in Channels, Served(c) PROVE lastWrite'[c] = now
      <4>1. sampleCount[c] \in Nat /\ rateNs[c] = P
        BY <1>2, <3>4 DEF TimingTypeOK
      <4>2. P * (sampleCount[c] + 1) >= P
        BY <1>1, <4>1
      <4>3. FallsDue(c)
        BY <3>1, <3>4, <4>1, <4>2 DEF FallsDue
      <4> QED BY <1>4, <2>3, <4>3 DEF Run, WriteToDirectBuffer
    <3> QED BY <2>1, <3>2, <3>3, <3>4 DEF ReportsDue
  <2>4. CASE mDirectChannelEnabled /\ ~DirectDue
    <3>1. now < mNextDirectChannelNs /\ mNextDirectChannelNs' = mNextDirectChannelNs
      BY <1>1, <1>4, <2>4, RunTimes DEF DirectDue
    <3>2. wakeAt' <= mNextDirectChannelNs + MinWait - 1
      BY <1>1, <2>2, <3>1
    <3>3. lastWrite' = lastWrite
      BY <1>4, <2>4 DEF Run
    <3>4. ASSUME NEW c \in Channels, Served(c)
          PROVE  wakeAt' <= lastWrite[c] + P + 2 * R + MinWait - 1
      <4>1. mNextDirectChannelNs <= lastWrite[c] + P + 2 * R
        BY <3>4 DEF ReportsDue
      <4> QED BY <1>1, <1>2, <2>2, <3>2, <3>4, <4>1
    <3> QED BY <2>1, <3>1, <3>3, <3>4 DEF ReportsDue
  <2>5. CASE ~mDirectChannelEnabled
    BY <1>2, <2>1, <2>5 DEF ReportsDue
  <2> QED BY <2>3, <2>4, <2>5
<1>5. CASE Tick
  <2>1. now' = now + 1
    BY <1>5 DEF Tick
  <2>2. mDirectChannelEnabled => mNextDirectChannelNs <= now' + P + 2 * R
    BY <1>1, <2>1 DEF ReportsDue
  <2> QED BY <1>5, <2>2 DEF Tick, ReportsDue, Served, direct, registry
<1>6. CASE ChangesEntries
  <2>1. PICK entries \in [Channels -> Entries] : EntriesStep(entries)
    BY <1>6, EntriesChanged
  <2>2. mDirectChannelEnabled' => mNextDirectChannelNs' =
          IF mDirectChannelEnabled THEN mNextDirectChannelNs ELSE 0
    BY <2>1, Summarized DEF EntriesStep
  <2>3. mDirectChannelEnabled' <=> (\E c \in Channels : Reporting(c)')
    BY <2>1, Summarized DEF EntriesStep
  <2>4. \A c \in Channels : Served(c)' => mDirectChannelEnabled'
    BY <2>1, <2>3 DEF EntriesStep, Reporting, UpdateDirectChannel
  <2>5. wakeAt' \in Nat /\ wakeAt' <= now /\ (Active => wakeAt' <= wakeAt)
    BY <2>1, Notified DEF EntriesStep, UpdateDirectChannel
  <2>6. mDirectChannelEnabled' => mNextDirectChannelNs' <= now + P + 2 * R
    BY <1>1, <2>2 DEF ReportsDue
  <2>7. ASSUME NEW c \in Channels, Served(c)'
        PROVE  /\ mNextDirectChannelNs' <= lastWrite'[c] + P + 2 * R
               /\ wakeAt' <= lastWrite'[c] + P + 2 * R + MinWait - 1
    <3>1. CASE lastWrite'[c] = now
      BY <1>1, <2>4, <2>5, <2>6, <2>7, <3>1
    <3>2. CASE Served(c) /\ lastWrite'[c] = lastWrite[c]
      <4>1. /\ lastWrite[c] \in Nat /\ wakeAt' <= wakeAt
            /\ mNextDirectChannelNs' = mNextDirectChannelNs
        BY <1>2, <1>3, <2>2, <2>4, <2>5, <2>7, <3>2
      <4>2. /\ mNextDirectChannelNs <= lastWrite[c] + P + 2 * R
            /\ wakeAt <= lastWrite[c] + P + 2 * R + MinWait - 1
        BY <3>2 DEF ReportsDue
      <4>3. wakeAt' <= lastWrite[c] + P + 2 * R + MinWait - 1
        BY <1>1, <2>5, <4>1, <4>2
      <4> QED BY <3>2, <4>1, <4>2, <4>3
    <3> QED BY <2>1, <2>7, <3>1, <3>2 DEF EntriesStep
  <2>8. now' = now
    BY <2>1 DEF EntriesStep
  <2> QED BY <2>6, <2>7, <2>8 DEF ReportsDue
<1>7. ASSUME Notify, UNCHANGED <<now, direct, registry, lastWrite>>
      PROVE  ReportsDue(R)'
  <2>1. wakeAt' \in Nat /\ (Active => wakeAt' <= wakeAt)
    BY <1>7, Notified
  <2>2. \A c \in Channels : Served(c)' <=> Served(c)
    BY <1>7 DEF registry, Served
  <2>3. ASSUME NEW c \in Channels, Served(c)
        PROVE  wakeAt' <= lastWrite[c] + P + 2 * R + MinWait - 1
    <3>1. wakeAt <= lastWrite[c] + P + 2 * R + MinWait - 1
      BY <2>3 DEF ReportsDue
    <3> QED BY <1>1, <1>2, <1>3, <2>1, <2>3, <3>1
  <2> QED BY <1>7, <2>2, <2>3 DEF ReportsDue, direct
<1>8. CASE \E enable \in BOOLEAN : Activate(enable)
  BY <1>7, <1>8 DEF Activate
<1>9. CASE \E period \in Periods : Batch(period)
  BY <1>7, <1>9 DEF Batch
<1>10. CASE \E c \in Channels : RegisterDirectChannel(c)
  <2>1. PICK c \in Channels : RegisterDirectChannel(c)
    BY <1>10
  <2>2. \A d \in Channels : Served(d)' => Served(d)
    BY <2>1 DEF RegisterDirectChannel, Served, TimingTypeOK
  <2> QED BY <2>1, <2>2 DEF RegisterDirectChannel, ReportsDue, direct
<1>11. CASE UNCHANGED vars
  BY <1>11 DEF vars, ReportsDue, Served, direct, registry
<1> QED BY <1>4, <1>5, <1>6, <1>8, <1>9, <1>10, <1>11, NextCases

LEMMA ReportsStart ==
  ASSUME NEW R \in Nat, Init
  PROVE  ReportsDue(R)
BY DEF Init, ReportsDue, Served

\* The inductive invariant with direct reports of one rate.
THEOREM ReportsInvariant ==
  ASSUME NEW R \in Nat, FloatsWithin(R), OneLevel
  PROVE  Spec => [](TimingInv(R) /\ ReportsDue(R))
<1>1. Init => ReportsDue(R)
  BY ReportsStart
<1>2. TimingInv(R) /\ ReportsDue(R) /\ [Next]_vars => ReportsDue(R)'
  BY ReportsDueStep DEF TimingInv
<1> QED BY <1>1, <1>2, TimingInvariant, PTL DEF Spec

\* DirectOnTime where floats are 2 * R + 1 apart.
ReportedWithin(R) ==
  \A c \in Channels : Served(c) => now < lastWrite[c] + rateNs[c] + 2 * R + MinWait + Late

LEMMA ReportedInTime ==
  ASSUME NEW R \in Nat, OneLevel, TimingInv(R), ReportsDue(R)
  PROVE  ReportedWithin(R)
<1> SUFFICES ASSUME NEW c \in Channels, Served(c)
             PROVE  now < lastWrite[c] + rateNs[c] + 2 * R + MinWait + Late
  BY DEF ReportedWithin
<1>1. now \in Nat /\ wakeAt \in Nat /\ Late \in Nat /\ MinWait \in Nat \ {0}
  BY TimingAssumption DEF TimingAssumption, TimingInv, TimingTypeOK
<1>2. /\ lastWrite[c] \in Nat /\ rateNs[c] \in Nat /\ rateNs[c] = RateNs[1]
      /\ mDirectChannelEnabled
  BY OneRate DEF TimingInv, Reports
<1>3. now <= wakeAt + Late
  BY <1>2 DEF TimingInv, Awake, Active
<1>4. wakeAt <= lastWrite[c] + rateNs[c] + 2 * R + MinWait - 1
  BY <1>2 DEF ReportsDue
<1> QED BY <1>1, <1>2, <1>3, <1>4

\* A channel's samples are late by the run thread's delay, its shortest wait and
\* the rounding, at most.
THEOREM ReportedNearlyOnTime ==
  ASSUME NEW R \in Nat, FloatsWithin(R), OneLevel
  PROVE  Spec => []ReportedWithin(R)
<1>1. TimingInv(R) /\ ReportsDue(R) => ReportedWithin(R)
  BY ReportedInTime
<1> QED BY <1>1, ReportsInvariant, PTL

\* Where floats are exact, every channel with a direct report gets a sample in
\* every period, late by the delay and the shortest wait at most, whichever
\* channels come and go.
THEOREM ReportsOnTime ==
  ASSUME FloatsWithin(0), OneLevel
  PROVE  Spec => []DirectOnTime
<1>1. TimingInv(0) /\ ReportsDue(0) => DirectOnTime
  <2> SUFFICES ASSUME TimingInv(0), ReportsDue(0), NEW c \in Channels, Served(c)
               PROVE  now < lastWrite[c] + rateNs[c] + MinWait + Late
    BY DEF DirectOnTime
  <2>1. now < lastWrite[c] + rateNs[c] + 2 * 0 + MinWait + Late
    BY ReportedInTime DEF ReportedWithin
  <2>2. lastWrite[c] \in Nat /\ rateNs[c] \in Nat /\ Late \in Nat /\ MinWait \in Nat
    BY TimingAssumption DEF TimingAssumption, TimingInv, TimingTypeOK, Reports
  <2> QED BY <2>1, <2>2
<1>2. Init => TimingInv(0) /\ ReportsDue(0)
  BY TimingStarts, ReportsStart
<1>3. TimingInv(0) /\ ReportsDue(0) /\ [Next]_vars => TimingInv(0)' /\ ReportsDue(0)'
  BY TimingStep, ReportsDueStep DEF TimingInv
<1> QED BY <1>1, <1>2, <1>3, PTL DEF Spec
=============================================================================
