----------------------------- MODULE RecordQueue -----------------------------
(***************************************************************************)
(* What the flight recorder promises: a bounded first-in first-out queue   *)
(* that either refuses a record or gives up its oldest when it is full,    *)
(* and counts every loss.  A record in the queue leaves it in the end.     *)
(***************************************************************************)
EXTENDS Sequences, Naturals

CONSTANT Events
VARIABLES capacity, policy, queue, lost, out

vars == <<capacity, policy, queue, lost, out>>

Init == queue = <<>> /\ lost = 0 /\ out = <<>>

Accept(e) ==
  /\ Len(queue) < capacity
  /\ queue' = Append(queue, e)
  /\ UNCHANGED <<capacity, policy, lost, out>>

Refuse ==
  /\ Len(queue) = capacity
  /\ policy = "drop_newest" \/ capacity = 0
  /\ lost' = lost + 1
  /\ UNCHANGED <<capacity, policy, queue, out>>

Evict(e) ==
  /\ Len(queue) = capacity /\ capacity > 0
  /\ policy = "overwrite_oldest"
  /\ queue' = Append(Tail(queue), e)
  /\ lost' = lost + 1
  /\ UNCHANGED <<capacity, policy, out>>

Take ==
  /\ queue # <<>>
  /\ out' = Append(out, Head(queue))
  /\ queue' = Tail(queue)
  /\ UNCHANGED <<capacity, policy, lost>>

Next == (\E e \in Events : Accept(e) \/ Evict(e)) \/ Refuse \/ Take

Safety == Init /\ [][Next]_vars
Spec == Safety /\ WF_vars(Take)
=============================================================================
