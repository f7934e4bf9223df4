--------------------------- MODULE FlightRecorder ----------------------------
(***************************************************************************)
(* The flight recorder of openbmp-hal: a ring of fixed slots filled on the *)
(* hot path and emptied into a storage that may refuse a record.  A record *)
(* is the event it was pushed for and the number it was given.             *)
(***************************************************************************)
EXTENDS Naturals, Sequences

CONSTANTS
  Capacities,  \* values of CAPACITY
  MaxPushes,   \* records offered
  MaxFailures, \* refusals of the storage
  Empty        \* StoredFlightRecord::EMPTY

Policies == {"drop_newest", "overwrite_oldest"}
Events   == 1 .. MaxPushes
Records  == [event : Events, sequence : 0 .. MaxPushes - 1]

ASSUME RecorderAssumption ==
  /\ Capacities \subseteq Nat /\ MaxPushes \in Nat /\ MaxFailures \in Nat

VARIABLES
  capacity, policy,    \* CAPACITY and overflow_policy, fixed
  records, head, len, nextSequence, dropped,
  pushes,              \* records offered so far
  out,                 \* records that were stored or popped, in order
  failures

config       == <<capacity, policy>>
ring         == <<records, head, len>>
recorderVars == <<config, ring, nextSequence, dropped, pushes, out, failures>>

Slots == 0 .. capacity - 1

RecorderInit ==
  /\ capacity \in Capacities /\ policy \in Policies
  /\ records = [i \in Slots |-> Empty] /\ head = 0 /\ len = 0
  /\ nextSequence = 0 /\ dropped = 0
  /\ pushes = 0 /\ out = <<>> /\ failures = 0

-----------------------------------------------------------------------------
Full == len = capacity

\* RecorderFull: no number is used up.
Reject ==
  /\ dropped' = dropped + 1
  /\ UNCHANGED <<ring, nextSequence>>

Put(slot) ==
  /\ records' = [records EXCEPT ![slot] = [event |-> pushes + 1, sequence |-> nextSequence]]
  /\ nextSequence' = nextSequence + 1

\* Faulty variant: the slot is overwritten and the head stays.
OverwriteHeadKept ==
  /\ Put(head)
  /\ dropped' = dropped + 1
  /\ UNCHANGED <<head, len>>

Overwrite ==
  /\ Put(head)
  /\ head' = (head + 1) % capacity
  /\ dropped' = dropped + 1
  /\ UNCHANGED len

AppendRecord ==
  /\ Put((head + len) % capacity)
  /\ len' = len + 1
  /\ UNCHANGED <<head, dropped>>

\* push of a record with a valid time and a payload that fits a slot; any other
\* is refused before anything changes.
Push ==
  /\ pushes < MaxPushes
  /\ IF ~Full THEN AppendRecord
     ELSE IF policy = "overwrite_oldest" /\ capacity > 0 THEN Overwrite
     ELSE Reject
  /\ pushes' = pushes + 1
  /\ UNCHANGED <<config, out, failures>>

\* pop_oldest.
PopOldest ==
  /\ records' = [records EXCEPT ![head] = Empty]
  /\ len' = len - 1
  /\ head' = IF len = 1 THEN 0 ELSE (head + 1) % capacity

\* Faulty variant: the record is dropped when the storage refuses it.
FlushRefusedPops ==
  /\ len > 0 /\ failures < MaxFailures
  /\ failures' = failures + 1
  /\ PopOldest
  /\ UNCHANGED <<config, nextSequence, dropped, pushes, out>>

\* flush_oldest when the frame does not fit the buffer or the storage refuses it:
\* the record stays queued.
FlushRefused ==
  /\ len > 0 /\ failures < MaxFailures
  /\ failures' = failures + 1
  /\ UNCHANGED <<config, ring, nextSequence, dropped, pushes, out>>

\* flush_oldest, and pop_oldest by itself.
Flush ==
  /\ len > 0
  /\ out' = Append(out, records[head])
  /\ PopOldest
  /\ UNCHANGED <<config, nextSequence, dropped, pushes, failures>>

RecorderNext == Push \/ Flush \/ FlushRefused

\* Whoever flushes does so again and again.
RecorderSpec == RecorderInit /\ [][RecorderNext]_recorderVars /\ WF_recorderVars(Flush)

-----------------------------------------------------------------------------
(***************************************************************************)
(* Properties.                                                             *)
(***************************************************************************)
Queue == [i \in 1 .. len |-> records[(head + i - 1) % capacity]]

Abstract == INSTANCE RecordQueue
  WITH Events <- Records, queue <- Queue, lost <- dropped

\* The ring is a bounded queue that counts its losses and lets every record out
\* in the end: no slot is read twice, skipped or lost as the head runs round the
\* ring between pushes, refused flushes and pops (push, flush_oldest).
ImplementsQueue == Abstract!Spec

Trail == out \o Queue

\* A reader of the storage sees what was lost: numbers grow, and what is missing
\* between them is what the recorder dropped; a recorder that refuses records
\* leaves no gap, the loss shows in its counter only (next_sequence,
\* dropped_records).
GapsAreLosses ==
  /\ \A i \in 2 .. Len(Trail) : Trail[i - 1].sequence < Trail[i].sequence
  /\ Len(Trail) + dropped = pushes
  /\ IF policy = "overwrite_oldest" /\ capacity > 0
     THEN nextSequence = pushes /\ \A i \in 1 .. Len(Trail) : Trail[i].sequence + 1 = Trail[i].event
     ELSE \A i \in 1 .. Len(Trail) : Trail[i].sequence = i - 1
=============================================================================
