---------------------------- MODULE DoubleBuffer ----------------------------
(***************************************************************************)
(* The double buffer of src/double_buffer.c: the capture thread writes     *)
(* frames into two slots and the capture timer thread reads the newest one *)
(* it can lock.  Neither side ever blocks: a failed trylock drops the      *)
(* frame (writer) or gives up until the next tick (reader).                *)
(*                                                                         *)
(* Every access to shared memory that the C code makes outside a lock is a *)
(* step of its own, and copy_object is a pair of steps, so that an overlap *)
(* of the two copies is a state of the model.                              *)
(*                                                                         *)
(* A frame is the number of its arrival; dropped frames have numbers too.  *)
(***************************************************************************)
EXTENDS Integers

CONSTANT
  MaxFrames      \* bound: frames the camera ever delivers (the C int counters)

ASSUME DoubleBufferAssumption == MaxFrames \in Nat

VARIABLES
  write_count,      \* struct double_buffer, double_buffer.h
  read_count,
  count,            \* count[i]: the write_count slot i was stamped with, or -1
  objects,          \* objects[i]: the frame slot i holds, 0 before the first
  locks,            \* locks[i]: "free", or the thread that took it
  stolen,           \* history: slots whose lock one thread released under the other
  insertion_index,  \* local of double_buffer_write
  copy_index,       \* local of double_buffer_read
  dest_buffer,      \* the frame the reader last copied out, 0 before the first
  arrived,          \* number of the newest frame given to double_buffer_write
  wpc, rpc          \* control points of the two functions

writerVars == <<write_count, count, objects, insertion_index, arrived, wpc>>
readerVars == <<read_count, copy_index, dest_buffer, rpc>>
lockVars == <<locks, stolen>>
vars == <<writerVars, readerVars, lockVars>>

Slot == {0, 1}

WriterPC == {"idle", "lock", "copy", "stamp", "advance", "unlock"}
ReaderPC == {"idle", "pick", "lock", "busy", "second", "foreign", "relock",
             "check", "copy", "account", "unlock"}

Init ==
  /\ write_count = 0 /\ read_count = 0
  /\ count = [i \in Slot |-> -1]
  /\ objects = [i \in Slot |-> 0]
  /\ locks = [i \in Slot |-> "free"] /\ stolen = {}
  /\ insertion_index = 0 /\ copy_index = 0
  /\ dest_buffer = 0 /\ arrived = 0
  /\ wpc = "idle" /\ rpc = "idle"

-----------------------------------------------------------------------------
(* vc_mutex_trylock and vc_mutex_unlock of os_funcs.h.  vc_mutex_init makes *)
(* default mutexes, which know no owner: an unlock frees the lock whoever   *)
(* holds it.                                                                *)

TryLock(i, thread) ==
  /\ locks[i] = "free"
  /\ locks' = [locks EXCEPT ![i] = thread]
  /\ UNCHANGED stolen

Unlock(i, thread) ==
  /\ locks' = [locks EXCEPT ![i] = "free"]
  /\ stolen' = IF locks[i] \in {thread, "free"} THEN stolen ELSE stolen \cup {i}

-----------------------------------------------------------------------------
(* double_buffer_write, called by the capture thread for every frame.       *)

WriteBegin ==
  /\ wpc = "idle" /\ arrived < MaxFrames
  /\ arrived' = arrived + 1
  /\ insertion_index' = write_count % 2
  /\ wpc' = "lock"
  /\ UNCHANGED <<write_count, count, objects, readerVars, lockVars>>

WriteLock ==
  /\ wpc = "lock"
  /\ TryLock(insertion_index, "writer")
  /\ wpc' = "copy"
  /\ UNCHANGED <<write_count, count, objects, insertion_index, arrived, readerVars>>

\* The frame is dropped: the lock could not be had.
WriteSkip ==
  /\ wpc = "lock" /\ locks[insertion_index] # "free"
  /\ wpc' = "idle"
  /\ UNCHANGED <<write_count, count, objects, insertion_index, arrived, readerVars, lockVars>>

WriteCopy ==
  /\ wpc = "copy"
  /\ objects' = [objects EXCEPT ![insertion_index] = arrived]
  /\ wpc' = "stamp"
  /\ UNCHANGED <<write_count, count, insertion_index, arrived, readerVars, lockVars>>

\* Altered form, for LastFrameDelivered: the slot is never stamped.
WriteStamp_forgotten ==
  /\ wpc = "stamp"
  /\ wpc' = "advance"
  /\ UNCHANGED <<write_count, count, objects, insertion_index, arrived, readerVars, lockVars>>

WriteStamp ==
  /\ wpc = "stamp"
  /\ count' = [count EXCEPT ![insertion_index] = write_count]
  /\ wpc' = "advance"
  /\ UNCHANGED <<write_count, objects, insertion_index, arrived, readerVars, lockVars>>

WriteAdvance ==
  /\ wpc = "advance"
  /\ write_count' = write_count + 1
  /\ wpc' = "unlock"
  /\ UNCHANGED <<count, objects, insertion_index, arrived, readerVars, lockVars>>

WriteUnlock ==
  /\ wpc = "unlock"
  /\ Unlock(insertion_index, "writer")
  /\ wpc' = "idle"
  /\ UNCHANGED <<write_count, count, objects, insertion_index, arrived, readerVars>>

-----------------------------------------------------------------------------
(* double_buffer_read, called by the timer thread at every tick.            *)

\* Lines 138-141: with nothing written yet the call fails and changes nothing.
ReadBegin ==
  /\ rpc = "idle" /\ write_count >= 1
  /\ copy_index' = read_count % 2
  /\ rpc' = "pick"
  /\ UNCHANGED <<writerVars, read_count, dest_buffer, lockVars>>

ReadPick ==
  /\ rpc = "pick"
  /\ copy_index' = IF count[copy_index] < read_count THEN 1 - copy_index ELSE copy_index
  /\ rpc' = "lock"
  /\ UNCHANGED <<writerVars, read_count, dest_buffer, lockVars>>

ReadLock ==
  /\ rpc = "lock"
  /\ IF locks[copy_index] = "free"
       THEN TryLock(copy_index, "reader") /\ rpc' = "check"
       ELSE rpc' = "busy" /\ UNCHANGED lockVars
  /\ UNCHANGED <<writerVars, read_count, copy_index, dest_buffer>>

\* Altered form, for TypeOK: the other slot is taken to be the next one.
ReadBusy_next ==
  /\ rpc = "busy"
  /\ IF write_count < 2
       THEN rpc' = "idle" /\ UNCHANGED copy_index
       ELSE rpc' = "second" /\ copy_index' = copy_index + 1
  /\ UNCHANGED <<writerVars, read_count, dest_buffer, lockVars>>

\* Lines 155-158: give up, or turn to the other slot.
ReadBusy ==
  /\ rpc = "busy"
  /\ IF write_count < 2
       THEN rpc' = "idle" /\ UNCHANGED copy_index
       ELSE rpc' = "second" /\ copy_index' = 1 - copy_index
  /\ UNCHANGED <<writerVars, read_count, dest_buffer, lockVars>>

ReadSecond ==
  /\ rpc = "second"
  /\ rpc' = IF count[copy_index] < read_count THEN "foreign" ELSE "relock"
  /\ UNCHANGED <<writerVars, read_count, copy_index, dest_buffer, lockVars>>

\* Line 163: the other slot is too old, and its lock, which this call never
\* took, is unlocked.
ReadForeignUnlock ==
  /\ rpc = "foreign"
  /\ Unlock(copy_index, "reader")
  /\ rpc' = "idle"
  /\ UNCHANGED <<writerVars, read_count, copy_index, dest_buffer>>

\* Altered form, for TornOnlyAfterTheft: the second trylock's result is not looked at.
ReadRelock_unchecked ==
  /\ rpc = "relock"
  /\ rpc' = "check"
  /\ UNCHANGED <<writerVars, read_count, copy_index, dest_buffer, lockVars>>

ReadRelock ==
  /\ rpc = "relock"
  /\ IF locks[copy_index] = "free"
       THEN TryLock(copy_index, "reader") /\ rpc' = "check"
       ELSE rpc' = "idle" /\ UNCHANGED lockVars
  /\ UNCHANGED <<writerVars, read_count, copy_index, dest_buffer>>

\* Lines 177-185: a slot older than the last read is not copied.
ReadCheck ==
  /\ rpc = "check"
  /\ rpc' = IF count[copy_index] < read_count - 1 THEN "unlock" ELSE "copy"
  /\ UNCHANGED <<writerVars, read_count, copy_index, dest_buffer, lockVars>>

ReadCopy ==
  /\ rpc = "copy"
  /\ dest_buffer' = objects[copy_index]
  /\ rpc' = "account"
  /\ UNCHANGED <<writerVars, read_count, copy_index, lockVars>>

\* Altered form, for FramesInOrder: frames skipped by the writer are not counted.
ReadAccount_byOne ==
  /\ rpc = "account"
  /\ read_count' = read_count + 1
  /\ rpc' = "unlock"
  /\ UNCHANGED <<writerVars, copy_index, dest_buffer, lockVars>>

\* Altered form, for LocksComeBack: the read returns without unlocking.
ReadAccount_kept ==
  /\ rpc = "account"
  /\ read_count' = count[copy_index] + 1
  /\ rpc' = "idle"
  /\ UNCHANGED <<writerVars, copy_index, dest_buffer, lockVars>>

ReadAccount ==
  /\ rpc = "account"
  /\ read_count' = count[copy_index] + 1
  /\ rpc' = "unlock"
  /\ UNCHANGED <<writerVars, copy_index, dest_buffer, lockVars>>

ReadUnlock ==
  /\ rpc = "unlock"
  /\ Unlock(copy_index, "reader")
  /\ rpc' = "idle"
  /\ UNCHANGED <<writerVars, read_count, copy_index, dest_buffer>>

-----------------------------------------------------------------------------
\* The steps of a call of double_buffer_write that has begun.
WriterStep ==
  \/ WriteLock \/ WriteSkip \/ WriteCopy
  \/ WriteStamp \/ WriteAdvance \/ WriteUnlock

Reader ==
  \/ ReadBegin \/ ReadPick \/ ReadLock \/ ReadBusy \/ ReadSecond
  \/ ReadForeignUnlock \/ ReadRelock \/ ReadCheck \/ ReadCopy
  \/ ReadAccount \/ ReadUnlock

Next == WriteBegin \/ WriterStep \/ Reader

Spec == Init /\ [][Next]_vars

(* The timer thread calls double_buffer_read for ever (sapi.c:419-487), and *)
(* a write that has begun runs to its end; frames need not keep arriving.   *)
Fairness == WF_vars(Reader) /\ WF_vars(WriterStep)

FairSpec == Spec /\ Fairness

-----------------------------------------------------------------------------
TypeOK ==
  /\ write_count \in Nat /\ read_count \in Nat /\ arrived \in 0..MaxFrames
  /\ count \in [Slot -> Nat \cup {-1}]
  /\ objects \in [Slot -> 0..MaxFrames]
  /\ locks \in [Slot -> {"free", "writer", "reader"}] /\ stolen \in SUBSET Slot
  /\ insertion_index \in Slot /\ copy_index \in Slot
  /\ dest_buffer \in 0..MaxFrames
  /\ wpc \in WriterPC /\ rpc \in ReaderPC

\* The two memcpys never touch one slot at the same time, so the application
\* never sees a frame that is half one picture and half another ("get exclusive
\* access to the correct buffer", double_buffer.c:113).
NoTornRead == ~(wpc = "copy" /\ rpc = "copy" /\ insertion_index = copy_index)

\* Line 163 is the only way to a torn frame: in a slot whose lock was never
\* released under the other thread, the copies of double_buffer_write and
\* double_buffer_read exclude each other.
TornOnlyAfterTheft == NoTornRead \/ copy_index \in stolen

\* And the only way to a frame out of order: until a lock is stolen, a read
\* returns a frame at least as new as the read before it, whatever is dropped or
\* read twice in between.
FramesInOrder == [][stolen # {} \/ dest_buffer' >= dest_buffer]_dest_buffer

\* What a stolen lock breaks does not last: a lock is held by nobody but the
\* thread between its trylock and its unlock, so with both functions returned
\* the slots are free and the next frame is not dropped.
LocksComeBack ==
  \A i \in Slot :
    /\ locks[i] = "writer" =>
         insertion_index = i /\ wpc \in {"copy", "stamp", "advance", "unlock"}
    /\ locks[i] = "reader" =>
         copy_index = i /\ rpc \in {"check", "copy", "account", "unlock"}

\* The counter the reader compares slots with never moves back, even where the
\* locks fail to protect a slot.
ReadCountMonotone == [][read_count' >= read_count]_read_count

\* When the camera goes quiet, the timer thread does not get stuck on an older
\* slot: it ends up delivering the last frame that was stored.
LastFrameDelivered ==
  \A n \in 1..MaxFrames :
    <>[](write_count = n) => <>[](dest_buffer = objects[(n - 1) % 2])
=============================================================================
