---------------------------- MODULE DirectBuffer ----------------------------
(***************************************************************************)
(* A direct channel's ring of samples in shared memory                     *)
(* (core/DirectChannel.cpp): the sensors' run threads write to it under    *)
(* mChannelMutex, the client reads it without any lock, as parseEvents()   *)
(* of the VTS does, and the channel may be unregistered meanwhile.         *)
(*                                                                         *)
(* A sample is a number, that of its counter; a slot has what lies before  *)
(* the counter (size, token, type), the counter, and what lies behind it   *)
(* (timestamp, data).  Memory accesses are taken in program order.         *)
(***************************************************************************)
EXTENDS Integers, Sequences

CONSTANTS
  Sensors,
  Size,         (* samples in the ring, mSize                              *)
  MaxSamples    (* samples written (bound of the model)                    *)

ASSUME BufferAssumption == Size \in Nat /\ MaxSamples \in Nat /\ "nobody" \notin Sensors

VARIABLES
  mData, mWritePos, mCounter,
  mutex,        (* who has mChannelMutex: a sensor's run thread or nobody  *)
  writing,      (* of each run thread, what it does next in write()        *)
  registered,
  reader        (* parseEvents()                                           *)

ringVars == <<mData, mWritePos, mCounter>>
bufferVars == <<ringVars, mutex, writing, registered, reader>>

Nobody == "nobody"
Slots == 0..Size - 1
Empty == [before |-> 0, counter |-> 0, behind |-> 0]

NotReading == [at |-> "start", offset |-> 0, last |-> -1, counter |-> 0, before |-> 0,
               events |-> <<>>, overwritten |-> FALSE, quiet |-> TRUE]

(* The slot the reader is in the middle of.                                *)
IsRead(i) == reader.at \in {"before", "behind"} /\ reader.offset = i

(* A sample is half written in slot i.                                     *)
HalfWritten(i) == mWritePos = i /\ \E s \in Sensors : writing[s] \in {"behind", "counter"}

-----------------------------------------------------------------------------
TryLock_Ignored(s) == TRUE

(* mChannelMutex.try_lock(): a run thread that fails drops its sample.     *)
TryLock(s) == mutex = Nobody

BeginWrite(s) ==
  /\ registered /\ Size > 0
  /\ mCounter <= MaxSamples
  /\ writing[s] = "no"
  /\ TryLock(s)
  /\ mutex' = s
  /\ writing' = [writing EXCEPT ![s] = "before"]
  /\ UNCHANGED <<ringVars, registered, reader>>

NextField_CounterFirst(field) ==
  CASE field = "before" -> "counter" [] field = "counter" -> "behind" [] field = "behind" -> "done"

NextField(field) ==
  CASE field = "before" -> "behind" [] field = "behind" -> "counter" [] field = "counter" -> "done"

(* Part of the sample is copied, or its counter stored.                    *)
WriteField(s) ==
  /\ writing[s] \in {"before", "behind", "counter"}
  /\ mData' = [mData EXCEPT ![mWritePos][writing[s]] = mCounter]
  /\ writing' = [writing EXCEPT ![s] = NextField(writing[s])]
  /\ reader' = [reader EXCEPT !.quiet = FALSE, !.overwritten = @ \/ IsRead(mWritePos)]
  /\ UNCHANGED <<mWritePos, mCounter, mutex, registered>>

NextWritePos_WrapsToOne == IF mWritePos + 1 >= Size THEN 1 ELSE mWritePos + 1

NextWritePos_StaysAtTheEnd == IF mWritePos + 1 > Size - 1 THEN Size - 1 ELSE mWritePos + 1

NextWritePos == IF mWritePos + 1 >= Size THEN 0 ELSE mWritePos + 1

EndWrite(s) ==
  /\ writing[s] = "done"
  /\ mCounter' = mCounter + 1
  /\ mWritePos' = NextWritePos
  /\ mutex' = Nobody
  /\ writing' = [writing EXCEPT ![s] = "no"]
  /\ UNCHANGED <<mData, registered, reader>>

(* unregisterDirectChannel waits for the mutex; ~LockfreeBuffer clears.    *)
ClearBuffer ==
  /\ registered
  /\ mutex = Nobody
  /\ registered' = FALSE
  /\ mData' = [i \in Slots |-> Empty]
  /\ reader' = [reader EXCEPT !.quiet = FALSE, !.overwritten = TRUE]
  /\ UNCHANGED <<mWritePos, mCounter, mutex, writing>>

-----------------------------------------------------------------------------
(* parseEvents(): the counter, then the sample, slot after slot ...        *)
ReadCounter ==
  /\ reader.at = "start"
  /\ reader.offset \in Slots
  /\ mData[reader.offset].counter > reader.last
  /\ reader' = [reader EXCEPT !.at = "before", !.counter = mData[reader.offset].counter,
                              !.overwritten = HalfWritten(reader.offset)]
  /\ UNCHANGED <<ringVars, mutex, writing, registered>>

(* ... up to one that is older, or the end.                                *)
ParseEnds ==
  /\ reader.at = "start"
  /\ reader.offset \in Slots => mData[reader.offset].counter <= reader.last
  /\ reader' = [reader EXCEPT !.at = "ended"]
  /\ UNCHANGED <<ringVars, mutex, writing, registered>>

(* An empty slot's size is not that of an event: everything is dropped.    *)
ReadBefore ==
  /\ reader.at = "before"
  /\ reader' = IF mData[reader.offset].before = 0
               THEN [reader EXCEPT !.at = "ended", !.events = <<>>]
               ELSE [reader EXCEPT !.at = "behind", !.before = mData[reader.offset].before]
  /\ UNCHANGED <<ringVars, mutex, writing, registered>>

ReadBehind ==
  /\ reader.at = "behind"
  /\ LET event == [before |-> reader.before, counter |-> reader.counter,
                   behind |-> mData[reader.offset].behind, overwritten |-> reader.overwritten]
     IN reader' = [reader EXCEPT !.at = "start", !.events = Append(@, event),
                                 !.last = reader.counter, !.offset = @ + 1]
  /\ UNCHANGED <<ringVars, mutex, writing, registered>>

ParseAgain ==
  /\ reader.at = "ended"
  /\ reader' = NotReading
  /\ UNCHANGED <<ringVars, mutex, writing, registered>>

-----------------------------------------------------------------------------
BufferInit ==
  /\ mData = [i \in Slots |-> Empty]
  /\ mWritePos = 0
  /\ mCounter = 1
  /\ mutex = Nobody
  /\ writing = [s \in Sensors |-> "no"]
  /\ registered = TRUE
  /\ reader = NotReading

BufferNext ==
  \/ \E s \in Sensors : BeginWrite(s) \/ WriteField(s) \/ EndWrite(s)
  \/ ClearBuffer
  \/ ReadCounter \/ ParseEnds \/ ReadBefore \/ ReadBehind \/ ParseAgain

BufferSpec == BufferInit /\ [][BufferNext]_bufferVars

-----------------------------------------------------------------------------
Slot == [before: Nat, counter: Nat, behind: Nat]

Event == [before: Nat, counter: Nat, behind: Nat, overwritten: BOOLEAN]

BufferTypeOK ==
  /\ mData \in [Slots -> Slot]
  /\ mWritePos \in Slots \union {0}
  /\ mCounter \in Nat
  /\ mutex \in Sensors \union {Nobody}
  /\ writing \in [Sensors -> {"no", "before", "behind", "counter", "done"}]
  /\ registered \in BOOLEAN
  /\ reader.at \in {"start", "before", "behind", "ended"}
  /\ reader.offset \in Nat
  /\ reader.events \in Seq(Event)

(* A sample the reader returns is whole, both parts being of the sample    *)
(* its counter says, unless a writer was at its slot, or the channel was   *)
(* cleared, while it was being read (LockfreeBuffer::write's order of  *)
(* parts and counter, under mChannelMutex).                                *)
WholeUnlessOverwritten ==
  \A k \in DOMAIN reader.events :
    LET event == reader.events[k]
    IN ~event.overwritten => event.before = event.counter /\ event.behind = event.counter

(* A writer gets to a sample that is being read only after a whole lap: a  *)
(* reader of it has the time of Size - 1 samples before it is torn.  (Not  *)
(* so a slot that was never written: parseEvents(-1) takes its counter 0   *)
(* for new, and returns the first sample of the slot half written.)        *)
OverwrittenByALap ==
  registered /\ reader.overwritten /\ reader.counter > 0 => mCounter >= reader.counter + Size

(* Samples are returned in the order they were written, none twice, and    *)
(* none in between is skipped unless the writers have come around.         *)
ParsedInOrder ==
  \A k \in DOMAIN reader.events : k > 1 /\ reader.events[k - 1].counter > 0 =>
    LET step == reader.events[k].counter - reader.events[k - 1].counter
    IN step >= 1 /\ (step # 1 => mCounter > reader.events[k - 1].counter + Size)

(* With nobody writing meanwhile, parseEvents() returns the samples of the *)
(* present lap, up to the latest: what tells an old sample from a new one, *)
(* or an unwritten slot from a written one, is its counter alone.          *)
QuietParse ==
  reader.at = "ended" /\ reader.quiet /\ registered /\ mutex = Nobody =>
    LET n == Len(reader.events)
    IN /\ n = IF mWritePos = 0 /\ mCounter > 1 THEN Size ELSE mWritePos
       /\ n > 0 => reader.events[n].counter = mCounter - 1
=============================================================================
