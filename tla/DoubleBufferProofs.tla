------------------------- MODULE DoubleBufferProofs -------------------------
(***************************************************************************)
(* Proofs about DoubleBuffer for every number of frames.  What holds        *)
(* whatever the reader's foreign unlock has done (CountInv, StampInv,       *)
(* FrameInv, LocksComeBack) is told from what holds until it has released   *)
(* the writer's lock for the first time: mutual exclusion, the order of     *)
(* frames and, at the end, that a reader that has caught up has the newest  *)
(* frame.                                                                   *)
(***************************************************************************)
EXTENDS DoubleBuffer, TLAPS

\* Stamps lag behind the write count, and the reader has checked the slot it
\* is about to account for against the last read.
CountInv ==
  /\ \A i \in Slot : count[i] <= write_count
  /\ wpc # "advance" => \A i \in Slot : count[i] < write_count
  /\ rpc \in {"copy", "account"} => count[copy_index] >= read_count - 1

WriterHolds(i) == insertion_index = i /\ wpc \in {"copy", "stamp", "advance", "unlock"}
ReaderHolds(i) == copy_index = i /\ rpc \in {"check", "copy", "account", "unlock"}

\* A lock is held by nobody but the thread between its trylock and its unlock,
\* and unless one was stolen that thread does hold it.
LockInv ==
  /\ LocksComeBack
  /\ \A i \in Slot : WriterHolds(i) /\ i \notin stolen => locks[i] = "writer"
  /\ \A i \in Slot : ReaderHolds(i) /\ i \notin stolen => locks[i] = "reader"

\* The slot's stamp belongs to the frame in it.
Settled(i) == ~(insertion_index = i /\ wpc = "stamp")

\* The frame being written is newer than anything stored or copied out so far.
NewestInv ==
  /\ dest_buffer <= arrived /\ \A i \in Slot : objects[i] <= arrived
  /\ \A i \in Slot : wpc \in {"lock", "copy"} => objects[i] < arrived
  /\ wpc \in {"lock", "copy", "stamp"} => dest_buffer < arrived
  /\ wpc = "stamp" => objects[insertion_index] = arrived

\* Stamps order the stored frames, and they order them against the last read.
OrderInv ==
  /\ \A i, j \in Slot :
       Settled(i) /\ Settled(j) /\ count[i] >= count[j] => objects[i] >= objects[j]
  /\ rpc # "account" =>
       \A i \in Slot : Settled(i) /\ count[i] >= read_count - 1 => objects[i] >= dest_buffer
  /\ rpc = "account" => dest_buffer = objects[copy_index]
  /\ \A i \in Slot : count[i] = -1 /\ Settled(i) => objects[i] = 0

-----------------------------------------------------------------------------
\* Every variable keeps its type.
THEOREM TypeCorrect == Spec => []TypeOK
<1> USE DoubleBufferAssumption DEF TypeOK, WriterPC, ReaderPC
<1>1. Init => TypeOK
  BY DEF Init, Slot
<1>2. TypeOK /\ [Next]_vars => TypeOK'
  <2> SUFFICES ASSUME TypeOK, [Next]_vars PROVE TypeOK'
    OBVIOUS
  <2>1. CASE WriteBegin
    BY <2>1 DEF WriteBegin, Slot, readerVars, lockVars
  <2>2. CASE WriteLock \/ WriteSkip
    BY <2>2 DEF WriteLock, WriteSkip, TryLock, readerVars, lockVars
  <2>3. CASE WriteCopy \/ WriteStamp \/ WriteAdvance
    BY <2>3 DEF WriteCopy, WriteStamp, WriteAdvance, readerVars, lockVars
  <2>4. CASE WriteUnlock
    BY <2>4 DEF WriteUnlock, Unlock, readerVars
  <2>5. CASE ReadBegin \/ ReadPick \/ ReadBusy \/ ReadSecond
    <3>1. UNCHANGED <<writerVars, lockVars, read_count, dest_buffer>>
      BY <2>5 DEF ReadBegin, ReadPick, ReadBusy, ReadSecond
    <3>2. copy_index' \in {0, 1} /\ rpc' \in ReaderPC
      BY <2>5 DEF ReadBegin, ReadPick, ReadBusy, ReadSecond, Slot
    <3>3. QED
      BY <3>1, <3>2 DEF writerVars, lockVars, Slot
  <2>6. CASE ReadLock
    BY <2>6 DEF ReadLock, TryLock, writerVars, lockVars
  <2>7. CASE ReadForeignUnlock
    BY <2>7 DEF ReadForeignUnlock, Unlock, writerVars
  <2>8. CASE ReadRelock \/ ReadCheck
    BY <2>8 DEF ReadRelock, ReadCheck, TryLock, writerVars, lockVars
  <2>9. CASE ReadCopy \/ ReadAccount
    BY <2>9 DEF ReadCopy, ReadAccount, writerVars, lockVars
  <2>10. CASE ReadUnlock
    BY <2>10 DEF ReadUnlock, Unlock, writerVars
  <2>11. CASE UNCHANGED vars
    BY <2>11 DEF vars, writerVars, readerVars, lockVars
  <2>12. QED
    BY <2>1, <2>2, <2>3, <2>4, <2>5, <2>6, <2>7, <2>8, <2>9, <2>10, <2>11
       DEF Next, WriterStep, Reader
<1>3. QED
  BY <1>1, <1>2, PTL DEF Spec

\* Stamps and counters agree, whatever the locks do.
LEMMA CountsCorrect == Spec => []CountInv
<1> USE DEF CountInv, Slot
<1>1. Init => CountInv
  BY DEF Init
<1>2. TypeOK /\ CountInv /\ [Next]_vars => CountInv'
  <2> SUFFICES ASSUME TypeOK, CountInv, [Next]_vars PROVE CountInv'
    OBVIOUS
  <2> USE DEF TypeOK, WriterPC, ReaderPC
  <2>1. CASE WriteBegin \/ WriteLock \/ WriteSkip \/ WriteCopy
    BY <2>1 DEF WriteBegin, WriteLock, WriteSkip, WriteCopy, readerVars, lockVars
  <2>2. CASE WriteStamp
    BY <2>2 DEF WriteStamp, readerVars, lockVars
  <2>3. CASE WriteAdvance \/ WriteUnlock
    BY <2>3 DEF WriteAdvance, WriteUnlock, readerVars, lockVars
  <2>4. CASE ReadBegin \/ ReadPick \/ ReadLock \/ ReadBusy \/ ReadSecond
    BY <2>4 DEF ReadBegin, ReadPick, ReadLock, ReadBusy, ReadSecond, writerVars, lockVars
  <2>5. CASE ReadForeignUnlock \/ ReadRelock \/ ReadCheck
    BY <2>5 DEF ReadForeignUnlock, ReadRelock, ReadCheck, writerVars, lockVars
  <2>6. CASE ReadCopy \/ ReadAccount \/ ReadUnlock
    BY <2>6 DEF ReadCopy, ReadAccount, ReadUnlock, writerVars, lockVars
  <2>7. CASE UNCHANGED vars
    BY <2>7 DEF vars, writerVars, readerVars, lockVars
  <2>8. QED
    BY <2>1, <2>2, <2>3, <2>4, <2>5, <2>6, <2>7 DEF Next, WriterStep, Reader
<1>3. QED
  BY <1>1, <1>2, TypeCorrect, PTL DEF Spec

\* The read counter never moves back, whatever the locks do.
THEOREM ReadCountNeverFalls == Spec => ReadCountMonotone
<1>1. TypeOK /\ CountInv /\ [Next]_vars => [read_count' >= read_count]_read_count
  <2> SUFFICES ASSUME TypeOK, CountInv, [Next]_vars, read_count' # read_count
               PROVE read_count' >= read_count
    OBVIOUS
  <2>1. ReadAccount
    BY DEF Next, WriterStep, Reader, vars, writerVars, readerVars, lockVars, WriteBegin, WriteLock,
           WriteSkip, WriteCopy, WriteStamp, WriteAdvance, WriteUnlock, ReadBegin, ReadPick,
           ReadLock, ReadBusy, ReadSecond, ReadForeignUnlock, ReadRelock, ReadCheck,
           ReadCopy, ReadUnlock
  <2>2. QED
    BY <2>1 DEF ReadAccount, CountInv, TypeOK
<1>2. QED
  BY <1>1, TypeCorrect, CountsCorrect, PTL DEF Spec, ReadCountMonotone

-----------------------------------------------------------------------------
\* Locks are held by their takers.
LEMMA LocksCorrect == Spec => []LockInv
<1> USE DEF LockInv, LocksComeBack, WriterHolds, ReaderHolds, Slot
<1>1. Init => LockInv
  BY DEF Init
<1>2. TypeOK /\ LockInv /\ [Next]_vars => LockInv'
  <2> SUFFICES ASSUME TypeOK, LockInv, [Next]_vars PROVE LockInv'
    OBVIOUS
  <2> USE DEF TypeOK, WriterPC, ReaderPC
  <2>1. CASE WriteBegin
    BY <2>1 DEF WriteBegin, readerVars, lockVars
  <2>2. CASE WriteLock \/ WriteSkip
    BY <2>2 DEF WriteLock, WriteSkip, TryLock, readerVars, lockVars
  <2>3. CASE WriteCopy \/ WriteStamp \/ WriteAdvance
    BY <2>3 DEF WriteCopy, WriteStamp, WriteAdvance, readerVars, lockVars
  <2>4. CASE WriteUnlock
    BY <2>4 DEF WriteUnlock, Unlock, readerVars, lockVars
  <2>5. CASE ReadBegin \/ ReadPick \/ ReadBusy \/ ReadSecond
    BY <2>5 DEF ReadBegin, ReadPick, ReadBusy, ReadSecond, writerVars, lockVars
  <2>6. CASE ReadLock \/ ReadRelock
    BY <2>6 DEF ReadLock, ReadRelock, TryLock, writerVars, lockVars
  <2>7. CASE ReadForeignUnlock
    BY <2>7 DEF ReadForeignUnlock, Unlock, writerVars, lockVars
  <2>8. CASE ReadCheck \/ ReadCopy \/ ReadAccount
    BY <2>8 DEF ReadCheck, ReadCopy, ReadAccount, writerVars, lockVars
  <2>9. CASE ReadUnlock
    BY <2>9 DEF ReadUnlock, Unlock, writerVars, lockVars
  <2>10. CASE UNCHANGED vars
    BY <2>10 DEF vars, writerVars, readerVars, lockVars
  <2>11. QED
    BY <2>1, <2>2, <2>3, <2>4, <2>5, <2>6, <2>7, <2>8, <2>9, <2>10
       DEF Next, WriterStep, Reader
<1>3. QED
  BY <1>1, <1>2, TypeCorrect, PTL DEF Spec

\* With both functions returned, no lock is left taken.
THEOREM LocksComeBackHolds == Spec => []LocksComeBack
<1>1. LockInv => LocksComeBack
  BY DEF LockInv
<1>2. QED
  BY <1>1, LocksCorrect, PTL

\* No frame is copied out while it is being overwritten, unless the unlock of
\* line 163 has released the writer's lock before.
THEOREM TornOnlyAfterTheftHolds == Spec => []TornOnlyAfterTheft
<1>1. TypeOK /\ LockInv => TornOnlyAfterTheft
  <2> SUFFICES ASSUME TypeOK, LockInv, ~NoTornRead, copy_index \notin stolen
               PROVE  FALSE
    BY DEF TornOnlyAfterTheft
  <2>1. WriterHolds(copy_index) /\ ReaderHolds(copy_index) /\ copy_index \in Slot
    BY DEF NoTornRead, WriterHolds, ReaderHolds, TypeOK
  <2>2. QED
    BY <2>1 DEF LockInv
<1>2. QED
  BY <1>1, TypeCorrect, LocksCorrect, PTL

\* A lock once stolen is remembered.
LEMMA TheftIsRemembered ==
  ASSUME [Next]_vars
  PROVE  stolen \subseteq stolen'
<1>1. CASE WriteBegin \/ WriterStep
  BY <1>1 DEF WriteBegin, WriterStep, WriteLock, WriteSkip, WriteCopy, WriteStamp,
              WriteAdvance, WriteUnlock, TryLock, Unlock, lockVars
<1>2. CASE Reader
  BY <1>2 DEF Reader, ReadBegin, ReadPick, ReadLock, ReadBusy, ReadSecond,
              ReadForeignUnlock, ReadRelock, ReadCheck, ReadCopy, ReadAccount, ReadUnlock,
              TryLock, Unlock, lockVars
<1>3. QED
  BY <1>1, <1>2 DEF Next, vars, lockVars

\* What the order of stored frames rests on.
LEMMA FramesOrdered == Spec => [](stolen = {} => NewestInv /\ OrderInv)
<1> USE DEF NewestInv, OrderInv, Settled, Slot
<1>1. Init => (stolen = {} => NewestInv /\ OrderInv)
  BY DEF Init
<1>2. /\ TypeOK /\ CountInv /\ LockInv /\ (stolen = {} => NewestInv /\ OrderInv)
      /\ TypeOK' /\ LockInv' /\ [Next]_vars
      => (stolen = {} => NewestInv /\ OrderInv)'
  <2> SUFFICES ASSUME TypeOK, CountInv, LockInv, stolen = {} => NewestInv /\ OrderInv,
                      TypeOK', LockInv', [Next]_vars, stolen' = {}
               PROVE  (NewestInv /\ OrderInv)'
    OBVIOUS
  <2> stolen = {}
    BY TheftIsRemembered
  <2> USE DEF TypeOK, WriterPC, ReaderPC, LockInv, LocksComeBack, WriterHolds, ReaderHolds
  <2>1. CASE WriteBegin
    BY <2>1 DEF WriteBegin, readerVars, lockVars
  <2>2. CASE WriteLock \/ WriteSkip
    BY <2>2 DEF WriteLock, WriteSkip, readerVars, lockVars
  <2>3. CASE WriteCopy
    BY <2>3 DEF WriteCopy, readerVars, lockVars
  <2>4. CASE WriteStamp
    BY <2>4 DEF WriteStamp, readerVars, lockVars, CountInv
  <2>5. CASE WriteAdvance \/ WriteUnlock
    BY <2>5 DEF WriteAdvance, WriteUnlock, readerVars, lockVars
  <2>6. CASE ReadBegin \/ ReadPick \/ ReadLock \/ ReadBusy \/ ReadSecond
    BY <2>6 DEF ReadBegin, ReadPick, ReadLock, ReadBusy, ReadSecond, writerVars, lockVars
  <2>7. CASE ReadForeignUnlock \/ ReadRelock \/ ReadCheck \/ ReadUnlock
    BY <2>7 DEF ReadForeignUnlock, ReadRelock, ReadCheck, ReadUnlock, writerVars, lockVars
  <2>8. CASE ReadCopy
    BY <2>8 DEF ReadCopy, writerVars, lockVars, CountInv
  <2>9. CASE ReadAccount
    BY <2>9 DEF ReadAccount, writerVars, lockVars
  <2>10. CASE UNCHANGED vars
    BY <2>10 DEF vars, writerVars, readerVars, lockVars
  <2>11. QED
    BY <2>1, <2>2, <2>3, <2>4, <2>5, <2>6, <2>7, <2>8, <2>9, <2>10
       DEF Next, WriterStep, Reader
<1>3. QED
  BY <1>1, <1>2, TypeCorrect, CountsCorrect, LocksCorrect, PTL DEF Spec

\* Until a lock is stolen, the frames the timer thread delivers never go back in
\* time.
THEOREM FramesStayInOrder == Spec => FramesInOrder
<1>1. TypeOK /\ CountInv /\ LockInv /\ (stolen = {} => NewestInv /\ OrderInv) /\ [Next]_vars
        => [stolen # {} \/ dest_buffer' >= dest_buffer]_dest_buffer
  <2> SUFFICES ASSUME TypeOK, CountInv, LockInv, OrderInv, [Next]_vars, stolen = {},
                      dest_buffer' # dest_buffer
               PROVE  dest_buffer' >= dest_buffer
    OBVIOUS
  <2>1. ReadCopy
    BY DEF Next, WriterStep, Reader, vars, writerVars, readerVars, lockVars, WriteBegin, WriteLock,
           WriteSkip, WriteCopy, WriteStamp, WriteAdvance, WriteUnlock, ReadBegin, ReadPick,
           ReadLock, ReadBusy, ReadSecond, ReadForeignUnlock, ReadRelock, ReadCheck,
           ReadAccount, ReadUnlock
  <2>2. copy_index \in Slot /\ ReaderHolds(copy_index)
    BY <2>1 DEF ReadCopy, ReaderHolds, TypeOK
  <2>3. ~WriterHolds(copy_index)
    BY <2>2 DEF LockInv
  <2>4. Settled(copy_index)
    BY <2>3 DEF Settled, WriterHolds
  <2>5. QED
    BY <2>1, <2>4 DEF ReadCopy, CountInv, OrderInv, TypeOK
<1>2. QED
  BY <1>1, TypeCorrect, CountsCorrect, LocksCorrect, FramesOrdered, PTL
     DEF Spec, FramesInOrder

-----------------------------------------------------------------------------
(* What the two slots hold, whatever the locks do.     *)

WriteSlot == write_count % 2
NewestSlot == 1 - WriteSlot

\* The stamps are determined by the write count: the newest frame is in one
\* slot, the one before it, or the one just being finished, in the other.
StampInv ==
  /\ wpc \in {"lock", "copy", "stamp", "advance"} => insertion_index = WriteSlot
  /\ count[NewestSlot] = write_count - 1
  /\ wpc = "advance" => count[WriteSlot] = write_count
  /\ wpc # "advance" => count[WriteSlot] = IF write_count < 2 THEN -1 ELSE write_count - 2

\* A stamped slot has a frame in it, and a reader on its way to a slot has seen
\* the stamp.
FrameInv ==
  /\ wpc # "idle" => arrived > 0
  /\ wpc = "stamp" => objects[insertion_index] > 0
  /\ \A i \in Slot : count[i] # -1 => objects[i] > 0
  /\ rpc # "idle" => write_count > 0
  /\ rpc = "pick" => copy_index = read_count % 2
  /\ rpc \in {"lock", "busy", "second", "foreign", "relock", "check"} /\ read_count = 0
       => count[copy_index] # -1
  /\ rpc \in {"copy", "account"} => count[copy_index] # -1
  /\ rpc = "account" => dest_buffer > 0

\* The newest frame stays in its slot until a newer one is complete: nothing
\* the writer does while it stores a frame touches the slot double_buffer_read
\* should fall back on.
NewestIsKept ==
  [][write_count > 0 => objects'[NewestSlot] = objects[NewestSlot]]_vars

\* A read that succeeds returns a frame: the timer thread never hands the
\* application a slot that was never written.
ReadsAFrame == rpc = "account" => dest_buffer > 0

\* Until a lock is stolen the reader is never ahead of the writer, and once it has
\* caught up what it copied out last is the newest frame stored.
CaughtUp ==
  stolen = {} =>
  /\ read_count <= write_count
  /\ rpc # "account" /\ read_count = write_count /\ write_count > 0
       => dest_buffer = objects[NewestSlot]

\* What CaughtUp rests on: a slot stamped with the last read's count is the one
\* that was copied out.
LastReadInv ==
  /\ read_count <= write_count
  /\ rpc # "account" =>
       \A i \in Slot : Settled(i) /\ count[i] # -1 /\ count[i] = read_count - 1
                         => objects[i] = dest_buffer

\* The two slots take turns.
LEMMA SlotsAlternate ==
  ASSUME NEW n \in Nat
  PROVE  n % 2 \in Slot /\ (n + 1) % 2 = 1 - (n % 2)
  BY DEF Slot

\* Only the end of a write moves the write count; nothing else moves the stamps
\* and the writer together.
LEMMA StampsCorrect == Spec => []StampInv
<1> USE DEF StampInv, NewestSlot, WriteSlot
<1>1. Init => StampInv
  BY DEF Init, Slot
<1>2. TypeOK /\ StampInv /\ [Next]_vars => StampInv'
  <2> SUFFICES ASSUME TypeOK, StampInv, [Next]_vars PROVE StampInv'
    OBVIOUS
  <2>1. write_count \in Nat /\ write_count % 2 \in Slot
        /\ (write_count + 1) % 2 = 1 - (write_count % 2)
    BY SlotsAlternate DEF TypeOK
  <2>2. count \in [Slot -> Nat \cup {-1}]
    BY DEF TypeOK
  <2>3. CASE WriteBegin \/ WriteLock \/ WriteSkip \/ WriteCopy \/ WriteUnlock
    BY <2>3, <2>1 DEF WriteBegin, WriteLock, WriteSkip, WriteCopy, WriteUnlock
  <2>4. CASE WriteStamp
    BY <2>4, <2>1, <2>2 DEF WriteStamp, Slot
  <2>5. CASE WriteAdvance
    <3>1. write_count' % 2 = 1 - (write_count % 2)
      BY <2>1, <2>5 DEF WriteAdvance
    <3>2. count' = count /\ write_count' = write_count + 1 /\ wpc = "advance" /\ wpc' = "unlock"
      BY <2>5 DEF WriteAdvance
    <3>3. 1 - (1 - (write_count % 2)) = write_count % 2
      BY <2>1 DEF Slot
    <3>4. QED
      BY <2>1, <3>1, <3>2, <3>3
  <2>6. CASE Reader \/ UNCHANGED vars
    <3>1. UNCHANGED writerVars
      BY <2>6 DEF Reader, vars, ReadBegin, ReadPick, ReadLock, ReadBusy, ReadSecond,
                  ReadForeignUnlock, ReadRelock, ReadCheck, ReadCopy, ReadAccount, ReadUnlock
    <3>2. QED
      BY <3>1 DEF writerVars, lockVars
  <2>7. QED
    BY <2>3, <2>4, <2>5, <2>6 DEF Next, WriterStep
<1>3. QED
  BY <1>1, <1>2, TypeCorrect, PTL DEF Spec

LEMMA FramesStamped == Spec => []FrameInv
<1> USE DEF FrameInv
<1>1. Init => FrameInv
  BY DEF Init, Slot
<1>2. TypeOK /\ StampInv /\ CountInv /\ FrameInv /\ [Next]_vars => FrameInv'
  <2> SUFFICES ASSUME TypeOK, StampInv, CountInv, FrameInv, [Next]_vars PROVE FrameInv'
    OBVIOUS
  <2> USE DEF TypeOK, Slot
  <2>1. write_count \in Nat /\ count[0] \in Nat \cup {-1} /\ count[1] \in Nat \cup {-1}
    OBVIOUS
  <2>2. /\ write_count > 0 => count[0] # -1
        /\ write_count > 1 => count[1] # -1
    <3>1. WriteSlot \in {0, 1} /\ (WriteSlot = 1 => write_count > 0)
      BY <2>1 DEF WriteSlot
    <3>2. write_count = 1 => WriteSlot = 1
      BY DEF WriteSlot
    <3>3. QED
      BY <2>1, <3>1, <3>2 DEF StampInv, NewestSlot
  <2>3. CASE WriteBegin \/ WriteLock \/ WriteSkip \/ WriteUnlock
    BY <2>3 DEF WriteBegin, WriteLock, WriteSkip, WriteUnlock, readerVars, lockVars
  <2>4. CASE WriteCopy
    BY <2>4 DEF WriteCopy, readerVars, lockVars
  <2>5. CASE WriteStamp
    BY <2>5 DEF WriteStamp, readerVars, lockVars
  <2>6. CASE WriteAdvance
    BY <2>6 DEF WriteAdvance, readerVars, lockVars
  <2>7. CASE ReadBegin
    BY <2>7 DEF ReadBegin, writerVars, lockVars
  <2>8. CASE ReadPick
    BY <2>8, <2>2 DEF ReadPick, writerVars, lockVars
  <2>9. CASE ReadLock
    BY <2>9 DEF ReadLock, writerVars, lockVars
  <2>10. CASE ReadBusy
    BY <2>10, <2>2 DEF ReadBusy, writerVars, lockVars
  <2>11. CASE ReadSecond \/ ReadForeignUnlock \/ ReadRelock
    BY <2>11 DEF ReadSecond, ReadForeignUnlock, ReadRelock, writerVars, lockVars
  <2>12. CASE ReadCheck
    BY <2>12, <2>1 DEF ReadCheck, writerVars, lockVars
  <2>13. CASE ReadCopy
    BY <2>13 DEF ReadCopy, writerVars, lockVars
  <2>14. CASE ReadAccount \/ ReadUnlock
    BY <2>14 DEF ReadAccount, ReadUnlock, writerVars, lockVars
  <2>15. CASE UNCHANGED vars
    BY <2>15 DEF vars, writerVars, readerVars, lockVars
  <2>16. QED
    BY <2>3, <2>4, <2>5, <2>6, <2>7, <2>8, <2>9, <2>10, <2>11, <2>12, <2>13, <2>14, <2>15
       DEF Next, WriterStep, Reader
<1>3. QED
  BY <1>1, <1>2, TypeCorrect, StampsCorrect, CountsCorrect, PTL DEF Spec

\* The timer thread never delivers a slot nothing was written to, even though
\* its last check lets an unwritten slot pass (count -1 is not less than
\* read_count - 1 before the first read), and whatever the locks do.
THEOREM ReadsAFrameHolds == Spec => []ReadsAFrame
<1>1. FrameInv => ReadsAFrame
  BY DEF FrameInv, ReadsAFrame
<1>2. QED
  BY <1>1, FramesStamped, PTL

\* While a frame is being stored the newest complete one stays readable,
\* whatever the locks do.
THEOREM NewestIsKeptHolds == Spec => NewestIsKept
<1>1. TypeOK /\ StampInv /\ [Next]_vars
        => [write_count > 0 => objects'[NewestSlot] = objects[NewestSlot]]_vars
  <2> SUFFICES ASSUME TypeOK, StampInv, [Next]_vars, write_count > 0
               PROVE  objects'[NewestSlot] = objects[NewestSlot]
    OBVIOUS
  <2>1. CASE WriteCopy
    <3>1. insertion_index = WriteSlot /\ WriteSlot \in Slot
      BY <2>1, SlotsAlternate DEF WriteCopy, StampInv, WriteSlot, TypeOK
    <3>2. NewestSlot # insertion_index /\ NewestSlot \in Slot
      BY <3>1 DEF NewestSlot, Slot
    <3>3. QED
      BY <2>1, <3>2 DEF WriteCopy, TypeOK
  <2>2. CASE ~WriteCopy
    <3>1. UNCHANGED objects
      BY <2>2 DEF Next, WriterStep, Reader, vars, writerVars, lockVars, WriteBegin, WriteLock,
             WriteSkip, WriteStamp, WriteAdvance, WriteUnlock, ReadBegin, ReadPick,
             ReadLock, ReadBusy, ReadSecond, ReadForeignUnlock, ReadRelock, ReadCheck,
             ReadCopy, ReadAccount, ReadUnlock
    <3>2. QED
      BY <3>1
  <2>3. QED
    BY <2>1, <2>2
<1>2. QED
  BY <1>1, TypeCorrect, StampsCorrect, PTL DEF Spec, NewestIsKept

\* The reader's counter and its last frame.
LEMMA LastReadCorrect == Spec => [](stolen = {} => LastReadInv)
<1> USE DEF LastReadInv
<1>1. Init => (stolen = {} => LastReadInv)
  BY DEF Init, Slot
<1>2. /\ TypeOK /\ CountInv /\ LockInv /\ (stolen = {} => NewestInv /\ OrderInv)
      /\ StampInv /\ (stolen = {} => LastReadInv) /\ [Next]_vars
      => (stolen = {} => LastReadInv)'
  <2> SUFFICES ASSUME TypeOK, CountInv, LockInv, stolen = {} => NewestInv /\ OrderInv,
                      StampInv, stolen = {} => LastReadInv, [Next]_vars, stolen' = {}
               PROVE  LastReadInv'
    OBVIOUS
  <2> stolen = {}
    BY TheftIsRemembered
  <2> USE DEF TypeOK, Slot, Settled
  <2>1. CASE WriteBegin \/ WriteLock \/ WriteSkip
    BY <2>1 DEF WriteBegin, WriteLock, WriteSkip, readerVars, lockVars
  <2>2. CASE WriteCopy
    BY <2>2 DEF WriteCopy, readerVars, lockVars
  <2>3. CASE WriteStamp
    BY <2>3 DEF WriteStamp, readerVars, lockVars
  <2>4. CASE WriteAdvance \/ WriteUnlock
    BY <2>4 DEF WriteAdvance, WriteUnlock, readerVars, lockVars
  <2>5. CASE ReadBegin \/ ReadPick \/ ReadLock \/ ReadBusy \/ ReadSecond
    BY <2>5 DEF ReadBegin, ReadPick, ReadLock, ReadBusy, ReadSecond, writerVars, lockVars
  <2>6. CASE ReadForeignUnlock \/ ReadRelock \/ ReadCheck \/ ReadUnlock
    BY <2>6 DEF ReadForeignUnlock, ReadRelock, ReadCheck, ReadUnlock, writerVars, lockVars
  <2>7. CASE ReadCopy
    BY <2>7 DEF ReadCopy, writerVars, lockVars
  <2>8. CASE ReadAccount
    <3>1. /\ read_count' = count[copy_index] + 1 /\ dest_buffer = objects[copy_index]
          /\ UNCHANGED <<writerVars, copy_index, dest_buffer>>
      BY <2>8 DEF ReadAccount, OrderInv
    <3>2. ~(insertion_index = copy_index /\ wpc = "advance")
      <4>1. copy_index \in Slot /\ ReaderHolds(copy_index)
        BY <2>8 DEF ReadAccount, ReaderHolds
      <4>2. ~WriterHolds(copy_index)
        BY <4>1 DEF LockInv
      <4>3. QED
        BY <4>2 DEF WriterHolds
    <3>3. WriteSlot \in {0, 1}
      BY DEF WriteSlot
    <3>4. \A i \in Slot : count[i] # -1 /\ count[i] = count[copy_index] => i = copy_index
      BY <3>3 DEF StampInv, NewestSlot
    <3>5. count[copy_index] < write_count
      BY <3>2, <3>3 DEF StampInv, NewestSlot
    <3>6. QED
      BY <3>1, <3>4, <3>5 DEF writerVars, lockVars
  <2>9. CASE UNCHANGED vars
    BY <2>9 DEF vars, writerVars, readerVars, lockVars
  <2>10. QED
    BY <2>1, <2>2, <2>3, <2>4, <2>5, <2>6, <2>7, <2>8, <2>9 DEF Next, WriterStep, Reader
<1>3. QED
  BY <1>1, <1>2, TypeCorrect, CountsCorrect, LocksCorrect, FramesOrdered, StampsCorrect, PTL
     DEF Spec

\* Until a lock is stolen the reader never runs ahead of the writer, and a reader
\* that has caught up has the newest frame: no frame that is still in the buffer
\* is mistaken for one already read.
THEOREM CaughtUpHolds == Spec => []CaughtUp
<1>1. TypeOK /\ StampInv /\ (stolen = {} => LastReadInv) => CaughtUp
  <2> SUFFICES ASSUME TypeOK, StampInv, LastReadInv, stolen = {},
                      rpc # "account", read_count = write_count, write_count > 0
               PROVE  dest_buffer = objects[NewestSlot]
    BY DEF CaughtUp, LastReadInv
  <2>1. WriteSlot \in Slot /\ NewestSlot \in Slot /\ NewestSlot # WriteSlot
    BY SlotsAlternate DEF TypeOK, WriteSlot, NewestSlot, Slot
  <2>2. Settled(NewestSlot)
    BY <2>1 DEF Settled, StampInv
  <2>3. count[NewestSlot] # -1 /\ count[NewestSlot] = read_count - 1
    BY DEF StampInv, TypeOK
  <2>4. QED
    BY <2>1, <2>2, <2>3 DEF LastReadInv
<1>2. QED
  BY <1>1, TypeCorrect, StampsCorrect, LastReadCorrect, PTL
=============================================================================
