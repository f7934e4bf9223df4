------------------------- MODULE FcTransportProofs --------------------------
(***************************************************************************)
(* Proofs about the frame queues and the link selection, for every number  *)
(* of links, latency, pass plan and length of the run.                     *)
(*                                                                         *)
(* A step adds at most one packet to a queue and takes at most one out.  A *)
(* step that takes none leaves only packets still under way, which were    *)
(* sent in the last MaxDelay steps, one in each: a queue therefore never   *)
(* holds more than MaxDelay packets between steps (Waiting), and once a    *)
(* packet has arrived, every step takes out it or one of the packets ahead *)
(* of it, so that the steps it has waited and the packets still ahead of   *)
(* it together never exceed MaxDelay.                                      *)
(*                                                                         *)
(* What the host and the controller have counted of a frame is read off    *)
(* the queues and pipes: seen is what was sent and is not under way, done  *)
(* what was seen and whose command is not.                                 *)
(***************************************************************************)
EXTENDS FcTransport, FiniteSetTheorems, TLAPS

Ahead(p, queue) == {q \in queue : Before(q, p)}

\* A queue in step t: room is how many packets it may hold, last the latest
\* step in which one may have been sent.
QueueOK(queue, t, room, last) ==
  /\ IsFiniteSet(queue) /\ Cardinality(queue) <= room
  /\ \A p \in queue : /\ p.sent \in 0 .. last
                      /\ p.arrival \in p.sent .. p.sent + MaxDelay
  /\ \A p, q \in queue : p.sent = q.sent => p = q
  /\ \A p \in queue :
       p.arrival < t => t + Cardinality(Ahead(p, queue)) <= p.arrival + MaxDelay

\* Before a step's packet joins a queue, and before the one due leaves it.
Waiting(queue, t) == QueueOK(queue, t, MaxDelay, t - 1)
Joined(queue, t)  == QueueOK(queue, t, MaxDelay + 1, t)

Running == pc \in {"send", "deliver", "hello", "answer", "apply"}

\* What a run keeps at every point of a step.
RunInv ==
  /\ mode \in Modes /\ step \in Nat /\ delay \in 0 .. MaxDelay
  /\ obs # NoObs => obs \in [Links -> Samples] /\ step >= 1 /\ mode # "none"
  /\ Running => step \in Steps
  /\ pc \in {"send", "deliver", "hello", "answer", "apply", "done", "dark", "failed"}
  /\ pc = "send" => Waiting(sensors, step)
  /\ pc = "deliver" => Joined(sensors, step)
  /\ pc \in {"hello", "answer", "apply"} => Waiting(sensors, step + 1)
  /\ pc \in {"send", "deliver", "hello", "answer"} => Waiting(commands, step)
  /\ pc = "apply" => Joined(commands, step)
  /\ pc \in {"send", "deliver", "hello", "answer"} => unread = 0
  /\ unread \in {0, 1}

-----------------------------------------------------------------------------
(***************************************************************************)
(* Queues.                                                                 *)
(***************************************************************************)

\* Every nonempty set of naturals has a least element.
LEMMA LeastNatural ==
  ASSUME NEW S, S \subseteq Nat, S # {}
  PROVE  \E m \in S : \A n \in S : m <= n
<1>1. PICK m \in S : \A n \in S : <<n, m>> \notin OpToRel(<, Nat)
  BY NatLessThanWellFounded, WFMin
<1>2. \A n \in S : ~(n < m)
  BY <1>1 DEF OpToRel
<1>. QED
  BY <1>2

\* The sizes of the sets a rank is counted in.
LEMMA AheadFinite ==
  ASSUME NEW queue, IsFiniteSet(queue), NEW p
  PROVE  /\ IsFiniteSet(Ahead(p, queue))
         /\ Cardinality(Ahead(p, queue)) \in Nat
         /\ Cardinality(Ahead(p, queue)) <= Cardinality(queue)
         /\ Cardinality(queue) \in Nat
BY FS_Subset, FS_CardinalityType DEF Ahead

\* A packet leaves as soon as one has arrived.
LEMMA DueExists ==
  ASSUME NEW t \in Nat, t = step, NEW queue, Joined(queue, t), Due(queue) = {}
  PROVE  \A p \in queue : t < p.arrival
<1>. USE TransportAssumption
<1>. SUFFICES ASSUME NEW p \in queue, p.arrival <= t PROVE FALSE
  BY DEF Joined, QueueOK
<1>1. \A q \in queue : q.sent \in Nat /\ q.arrival \in Nat
  BY DEF Joined, QueueOK
<1>2. PICK a \in {q.arrival : q \in queue} : \A b \in {q.arrival : q \in queue} : a <= b
  <2>1. {q.arrival : q \in queue} \subseteq Nat /\ {q.arrival : q \in queue} # {}
    BY <1>1
  <2>. QED
    BY <2>1, LeastNatural
<1>3. PICK s \in {q.sent : q \in {r \in queue : r.arrival = a}} :
        \A b \in {q.sent : q \in {r \in queue : r.arrival = a}} : s <= b
  <2>1. /\ {q.sent : q \in {r \in queue : r.arrival = a}} \subseteq Nat
        /\ {q.sent : q \in {r \in queue : r.arrival = a}} # {}
    BY <1>1, <1>2
  <2>. QED
    BY <2>1, LeastNatural
<1>4. PICK d \in queue : d.arrival = a /\ d.sent = s
  BY <1>3
<1>5. ASSUME NEW q \in queue \ {d} PROVE Before(d, q)
  <2>1. d.sent # q.sent
    BY <1>5 DEF Joined, QueueOK
  <2>2. a <= q.arrival /\ (q.arrival = a => s <= q.sent)
    BY <1>2, <1>3
  <2>. QED
    BY <1>1, <1>4, <2>1, <2>2 DEF Before
<1>6. d.arrival <= step
  BY <1>1, <1>2, <1>4
<1>7. d \in Due(queue)
  BY <1>4, <1>5, <1>6 DEF Due
<1>. QED
  BY <1>7

\* Packets sent in the last n steps, one in each at most, are n at most.
LEMMA OneEachStep ==
  ASSUME NEW t \in Nat, NEW queue, Joined(queue, t), \A p \in queue : t < p.arrival
  PROVE  IsFiniteSet(queue) /\ Cardinality(queue) <= MaxDelay
<1>. USE TransportAssumption
<1>. DEFINE window == t - MaxDelay + 1 .. t
            sentAt == [p \in queue |-> p.sent]
<1>1. IsFiniteSet(window) /\ Cardinality(window) = MaxDelay
  <2>1. /\ IsFiniteSet(window)
        /\ Cardinality(window) = IF t - MaxDelay + 1 > t THEN 0 ELSE t - (t - MaxDelay + 1) + 1
    BY FS_Interval
  <2>. QED
    BY <2>1
<1>2. \A p \in queue : p.sent \in window
  BY DEF Joined, QueueOK
<1>3. sentAt \in [queue -> window] /\ \A p, q \in queue : sentAt[p] = sentAt[q] => p = q
  BY <1>2 DEF Joined, QueueOK
<1>4. sentAt \in Injection(queue, window)
  BY <1>3 DEF Injection, IsInjective
<1>. HIDE DEF sentAt, window
<1>. QED
  BY <1>1, <1>4, FS_Injection

\* A packet joins the queue in the step it is sent: none is ahead of it that
\* arrived before.
LEMMA JoinKeeps ==
  ASSUME NEW t \in Nat, NEW queue, Waiting(queue, t), NEW frame, NEW latency \in 0 .. MaxDelay
  PROVE  Joined(queue \cup {Packet(frame, t, latency)}, t)
<1>. USE TransportAssumption
<1>. DEFINE new == Packet(frame, t, latency)
            after == queue \cup {new}
<1>1. new.sent = t /\ new.arrival = t + latency
  BY DEF Packet
<1>2. IsFiniteSet(after) /\ Cardinality(after) <= MaxDelay + 1
  <2>1. /\ IsFiniteSet(after) /\ Cardinality(queue) \in Nat
        /\ Cardinality(after) = IF new \in queue THEN Cardinality(queue) ELSE Cardinality(queue) + 1
    BY FS_AddElement, FS_CardinalityType DEF Waiting, QueueOK
  <2>. QED
    BY <2>1 DEF Waiting, QueueOK
<1>3. \A p \in queue : p.sent \in 0 .. t - 1 /\ p.arrival \in p.sent .. p.sent + MaxDelay
  BY DEF Waiting, QueueOK
<1>4. \A p \in after : p.sent \in 0 .. t /\ p.arrival \in p.sent .. p.sent + MaxDelay
  BY <1>1, <1>3
<1>5. \A p, q \in after : p.sent = q.sent => p = q
  BY <1>1, <1>3 DEF Waiting, QueueOK
<1>6. ASSUME NEW p \in after, p.arrival < t
      PROVE  t + Cardinality(Ahead(p, after)) <= p.arrival + MaxDelay
  <2>1. p \in queue
    BY <1>1, <1>6
  <2>2. ~Before(new, p)
    BY <1>1, <1>3, <1>6, <2>1 DEF Before
  <2>3. Ahead(p, after) = Ahead(p, queue)
    BY <2>2 DEF Ahead
  <2>. QED
    BY <1>6, <2>1, <2>3 DEF Waiting, QueueOK
<1>. HIDE DEF after, new
<1>7. Joined(after, t)
  BY <1>2, <1>4, <1>5, <1>6 DEF Joined, QueueOK
<1>. QED
  BY <1>7 DEF after, new

\* A step in which nothing joins.
LEMMA NoneJoins ==
  ASSUME NEW t \in Nat, NEW queue, Waiting(queue, t)
  PROVE  Joined(queue, t)
<1>1. /\ Cardinality(queue) \in Nat /\ MaxDelay \in Nat
  BY FS_CardinalityType, TransportAssumption DEF Waiting, QueueOK
<1>2. \A p \in queue : p.sent \in 0 .. t
  BY DEF Waiting, QueueOK
<1>. QED
  BY <1>1, <1>2 DEF Waiting, Joined, QueueOK

\* The step ends without a packet: none had arrived.
LEMMA NoneLeaves ==
  ASSUME NEW t \in Nat, t = step, NEW queue, Joined(queue, t), Due(queue) = {}
  PROVE  Waiting(queue, t + 1)
<1>. USE TransportAssumption
<1>1. \A p \in queue : t < p.arrival
  BY DueExists
<1>2. IsFiniteSet(queue) /\ Cardinality(queue) <= MaxDelay
  BY <1>1, OneEachStep
<1>3. \A p \in queue : /\ p.sent \in 0 .. t + 1 - 1
                       /\ p.arrival \in p.sent .. p.sent + MaxDelay
  BY DEF Joined, QueueOK
<1>4. \A p \in queue : ~(p.arrival < t + 1)
  BY <1>1, <1>3
<1>. QED
  BY <1>2, <1>3, <1>4 DEF Waiting, Joined, QueueOK

\* The first packet has arrived and leaves: every other one that has arrived
\* had it ahead.
LEMMA FirstLeaves ==
  ASSUME NEW t \in Nat, t = step, NEW queue, Joined(queue, t), NEW d \in Due(queue)
  PROVE  Waiting(queue \ {d}, t + 1)
<1>. USE TransportAssumption
<1>. DEFINE after == queue \ {d}
<1>1. d \in queue /\ \A q \in after : Before(d, q)
  BY DEF Due
<1>2. IsFiniteSet(after) /\ Cardinality(after) <= MaxDelay
  <2>1. /\ IsFiniteSet(after) /\ Cardinality(queue) \in Nat
        /\ Cardinality(after) = IF d \in queue THEN Cardinality(queue) - 1 ELSE Cardinality(queue)
    BY FS_RemoveElement, FS_CardinalityType DEF Joined, QueueOK
  <2>. QED
    BY <1>1, <2>1 DEF Joined, QueueOK
<1>3. \A p \in after : /\ p.sent \in 0 .. t + 1 - 1
                       /\ p.arrival \in p.sent .. p.sent + MaxDelay
  BY DEF Joined, QueueOK
<1>4. \A p, q \in after : p.sent = q.sent => p = q
  BY DEF Joined, QueueOK
<1>5. ASSUME NEW p \in after, p.arrival < t + 1
      PROVE  t + 1 + Cardinality(Ahead(p, after)) <= p.arrival + MaxDelay
  <2>1. Ahead(p, after) = Ahead(p, queue) \ {d} /\ d \in Ahead(p, queue)
    BY <1>1 DEF Ahead
  <2>2. /\ Cardinality(Ahead(p, queue)) \in Nat /\ Cardinality(Ahead(p, after)) \in Nat
        /\ Cardinality(Ahead(p, after)) = Cardinality(Ahead(p, queue)) - 1
    <3>1. IsFiniteSet(Ahead(p, queue)) /\ Cardinality(Ahead(p, queue)) \in Nat
      BY AheadFinite DEF Joined, QueueOK
    <3>2. /\ Cardinality(Ahead(p, queue) \ {d}) = Cardinality(Ahead(p, queue)) - 1
          /\ IsFiniteSet(Ahead(p, queue) \ {d})
      BY <2>1, <3>1, FS_RemoveElement
    <3>. QED
      BY <2>1, <3>1, <3>2, FS_CardinalityType
  <2>3. p.arrival \in Nat
    BY <1>3
  <2>4. CASE p.arrival < t
    <3>1. t + Cardinality(Ahead(p, queue)) <= p.arrival + MaxDelay
      BY <2>4 DEF Joined, QueueOK
    <3>. QED
      BY <2>2, <2>3, <3>1
  <2>5. CASE p.arrival = t
    <3>1. p \notin Ahead(p, queue) /\ p # d /\ p \in queue
      BY <2>3, <1>3 DEF Ahead, Before
    <3>2. Ahead(p, after) \subseteq after \ {p}
      BY <2>1, <3>1 DEF Ahead
    <3>3. /\ IsFiniteSet(after \ {p}) /\ Cardinality(after) \in Nat
          /\ Cardinality(after \ {p}) = Cardinality(after) - 1
      BY <1>2, FS_RemoveElement, FS_CardinalityType
    <3>4. Cardinality(Ahead(p, after)) <= Cardinality(after \ {p})
      BY <3>2, <3>3, FS_Subset
    <3>. QED
      BY <1>2, <2>2, <2>5, <3>3, <3>4
  <2>. QED
    BY <1>5, <2>3, <2>4, <2>5
<1>. HIDE DEF after
<1>6. Waiting(after, t + 1)
  BY <1>2, <1>3, <1>4, <1>5 DEF Waiting, QueueOK
<1>. QED
  BY <1>6 DEF after

-----------------------------------------------------------------------------
(***************************************************************************)
(* Links.                                                                  *)
(***************************************************************************)

\* Of the usable links among the first k, one is best.
BestOf(o, k) ==
  {l \in Usable(o) \cap 1 .. k : \A j \in Usable(o) \cap 1 .. k :
     o[j].margin < o[l].margin \/ (o[j].margin = o[l].margin /\ l <= j)}

LEMMA SomeBest ==
  ASSUME NEW o \in [Links -> Samples], NEW k \in Nat, k <= NLinks, Usable(o) \cap 1 .. k # {}
  PROVE  BestOf(o, k) # {}
<1>. USE LinkAssumption
<1>. DEFINE Wrong == {n \in Nat : n <= NLinks /\ Usable(o) \cap 1 .. n # {} /\ BestOf(o, n) = {}}
<1>. SUFFICES ASSUME Wrong # {} PROVE FALSE
  OBVIOUS
<1>0. \A l \in Links : o[l].margin \in Nat
  OBVIOUS
<1>1. PICK n \in Wrong : \A m \in Wrong : n <= m
  <2>1. Wrong \subseteq Nat
    OBVIOUS
  <2>. QED
    BY <2>1, LeastNatural
<1>2. n \in Nat /\ n # 0 /\ n <= NLinks
  BY <1>1
<1>3. n - 1 \in Nat /\ n - 1 <= NLinks /\ n - 1 \notin Wrong
  BY <1>1, <1>2
<1>4. 1 .. n = (1 .. n - 1) \cup {n} /\ n \in Links
  BY <1>2 DEF Links
<1>5. CASE n \notin Usable(o)
  <2>1. Usable(o) \cap 1 .. n = Usable(o) \cap 1 .. n - 1
    BY <1>4, <1>5
  <2>2. BestOf(o, n) = BestOf(o, n - 1)
    BY <2>1 DEF BestOf
  <2>. QED
    BY <1>1, <1>3, <2>1, <2>2
<1>6. CASE n \in Usable(o) /\ Usable(o) \cap 1 .. n - 1 = {}
  <2>1. Usable(o) \cap 1 .. n = {n}
    BY <1>4, <1>6
  <2>2. n \in BestOf(o, n)
    BY <1>0, <1>2, <1>4, <2>1 DEF BestOf
  <2>. QED
    BY <1>1, <2>2
<1>7. CASE n \in Usable(o) /\ Usable(o) \cap 1 .. n - 1 # {}
  <2>1. PICK b \in BestOf(o, n - 1) : TRUE
    BY <1>3, <1>7
  <2>2. b \in Usable(o) /\ b \in 1 .. n - 1 /\ b \in Links
    BY <2>1, <1>2 DEF BestOf, Links
  <2>3. o[b].margin \in Nat /\ o[n].margin \in Nat
    BY <1>0, <1>4, <2>2
  <2>4. \A j \in Usable(o) \cap 1 .. n - 1 :
          o[j].margin < o[b].margin \/ (o[j].margin = o[b].margin /\ b <= j)
    BY <2>1 DEF BestOf
  <2>5. \A j \in Usable(o) : o[j].margin \in Nat
    BY <1>0 DEF Usable
  <2>6. CASE o[b].margin < o[n].margin
    <3>1. \A j \in Usable(o) \cap 1 .. n :
            o[j].margin < o[n].margin \/ (o[j].margin = o[n].margin /\ n <= j)
      BY <1>2, <1>4, <2>3, <2>4, <2>5, <2>6
    <3>2. n \in BestOf(o, n)
      BY <1>2, <1>4, <1>7, <3>1 DEF BestOf
    <3>. QED
      BY <1>1, <3>2
  <2>7. CASE ~(o[b].margin < o[n].margin)
    <3>1. \A j \in Usable(o) \cap 1 .. n :
            o[j].margin < o[b].margin \/ (o[j].margin = o[b].margin /\ b <= j)
      BY <1>2, <1>4, <2>2, <2>3, <2>4, <2>7
    <3>2. b \in BestOf(o, n)
      BY <1>4, <2>2, <3>1 DEF BestOf
    <3>. QED
      BY <1>1, <3>2
  <2>. QED
    BY <2>6, <2>7
<1>. QED
  BY <1>5, <1>6, <1>7

LEMMA BestExists ==
  ASSUME NEW o \in [Links -> Samples], Usable(o) # {}
  PROVE  BestMargin(o) # {}
<1>1. Usable(o) \cap 1 .. NLinks = Usable(o) /\ NLinks \in Nat
  BY LinkAssumption DEF Usable, Links
<1>2. BestOf(o, NLinks) = BestMargin(o)
  BY <1>1 DEF BestOf, BestMargin
<1>. QED
  BY <1>1, <1>2, SomeBest

\* The selected link is usable if any is, and within the hysteresis of all.
LEMMA SelectionGood ==
  ASSUME NEW o \in [Links -> Samples], NEW old, NEW chosen, chosen = SelectBest(o, old),
         Usable(o) # {}
  PROVE  /\ chosen \in Usable(o)
         /\ \A l \in Usable(o) : o[l].margin <= o[chosen].margin + Hysteresis
<1>. USE LinkAssumption
<1>1. \A l \in Usable(o) : o[l].margin \in Nat
  BY DEF Usable
<1>2. PICK best \in BestMargin(o) : best = CHOOSE l \in BestMargin(o) : TRUE
  BY BestExists
<1>3. best \in Usable(o) /\ \A l \in Usable(o) : o[l].margin <= o[best].margin
  BY <1>1, <1>2 DEF BestMargin
<1>4. CASE Retained(o, old)
  <2>1. chosen = old /\ old \in Usable(o) /\ o[best].margin <= o[old].margin + Hysteresis
    BY <1>2, <1>4 DEF SelectBest, Retained
  <2>. QED
    BY <1>1, <1>3, <2>1
<1>5. CASE ~Retained(o, old)
  <2>1. chosen = best
    BY <1>2, <1>5 DEF SelectBest
  <2>. QED
    BY <1>1, <1>3, <2>1
<1>. QED
  BY <1>4, <1>5

-----------------------------------------------------------------------------
(***************************************************************************)
(* The run.                                                                *)
(***************************************************************************)
LEMMA EmptyWaiting == Waiting({}, 0)
BY FS_EmptySet, TransportAssumption DEF Waiting, QueueOK

LEMMA RunInit == Init => RunInv
<1>1. 0 \in Steps
  BY TransportAssumption DEF Steps
<1>. QED
  BY <1>1, EmptyWaiting, TransportAssumption DEF Init, RunInv, Running

\* The link that carries a frame is a declared one.
LEMMA ChosenIsLink ==
  ASSUME RunInv, pc = "send", obs # NoObs,
         NEW chosen, chosen = Selected(mode, obs, PassPlan[step - 1], active),
         Carried(obs, chosen)
  PROVE  obs[chosen].delay \in 0 .. MaxDelay
<1>. USE LinkAssumption, TransportAssumption
<1>1. obs \in [Links -> Samples] /\ mode \in Modes \ {"none"} /\ 1 \in Links
  BY DEF RunInv, Links
<1>2. step - 1 \in Steps
  BY DEF RunInv, Running, Steps
<1>3. chosen \in Links
  <2>1. CASE mode = "best"
    <3>1. CASE Usable(obs) = {}
      <4>1. chosen = 1
        BY <2>1, <3>1 DEF Selected, SelectBest, BestMargin
      <4>. QED
        BY <1>1, <4>1
    <3>2. CASE Usable(obs) # {}
      <4>1. chosen = SelectBest(obs, active)
        BY <2>1 DEF Selected
      <4>2. chosen \in Usable(obs)
        BY <1>1, <3>2, <4>1, SelectionGood
      <4>. QED
        BY <4>2 DEF Usable
    <3>. QED
      BY <3>1, <3>2
  <2>2. CASE mode = "first"
    BY <1>1, <2>2 DEF Selected
  <2>3. CASE mode = "plan"
    <3>1. chosen = PassPlan[step - 1] /\ chosen # NoLink
      BY <2>3 DEF Selected, Carried
    <3>. QED
      BY <1>2, <3>1
  <2>. QED
    BY <1>1, <2>1, <2>2, <2>3 DEF Modes
<1>4. obs[chosen] \in Samples
  BY <1>1, <1>3
<1>. QED
  BY <1>4

LEMMA SendKeeps ==
  ASSUME RunInv, NEW garbled \in BOOLEAN, Send(garbled)
  PROVE  RunInv'
<1>. USE TransportAssumption
<1>1. /\ pc = "send" /\ step \in Nat /\ step \in Steps
      /\ Waiting(sensors, step) /\ Waiting(commands, step) /\ unread = 0
  BY DEF Send, RunInv, Running
<1>2. UNCHANGED <<mode, step, obs, commands, unread>>
  BY DEF Send, config
<1>3. CASE pc' = "deliver"
  <2>1. PICK latency \in 0 .. MaxDelay :
          delay' = latency /\ sensors' = sensors \cup {Packet(step, step, latency)}
    <3>1. CASE obs = NoObs
      BY <3>1 DEF Send
    <3>2. CASE obs # NoObs
      <4>1. PICK chosen : /\ chosen = Selected(mode, obs, PassPlan[step - 1], active)
                          /\ Carried(obs, chosen)
                          /\ delay' = obs[chosen].delay
                          /\ sensors' = sensors \cup {Packet(step, step, obs[chosen].delay)}
        BY <1>3, <3>2 DEF Send
      <4>2. obs[chosen].delay \in 0 .. MaxDelay
        BY <1>1, <3>2, <4>1, ChosenIsLink
      <4>. QED
        BY <4>1, <4>2
    <3>. QED
      BY <3>1, <3>2
  <2>2. Joined(sensors', step)
    BY <1>1, <2>1, JoinKeeps
  <2>. QED
    BY <1>1, <1>2, <1>3, <2>1, <2>2 DEF RunInv, Running
<1>4. CASE pc' # "deliver"
  <2>1. pc' \in {"dark", "failed"} /\ delay' = delay
    BY <1>4 DEF Send
  <2>. QED
    BY <1>1, <1>2, <2>1 DEF RunInv, Running
<1>. QED
  BY <1>3, <1>4

LEMMA NothingDueKeeps == RunInv /\ NothingDue => RunInv'
<1>. SUFFICES ASSUME RunInv, NothingDue PROVE RunInv'
  OBVIOUS
<1>1. /\ step \in Nat /\ step \in Steps /\ Joined(sensors, step) /\ Waiting(commands, step)
      /\ Due(sensors) = {} /\ pc' = "apply" /\ unread = 0
  BY DEF NothingDue, RunInv, Running
<1>2. Waiting(sensors, step + 1) /\ Joined(commands, step)
  BY <1>1, NoneLeaves, NoneJoins
<1>3. UNCHANGED <<mode, step, obs, delay, sensors, commands, unread>>
  BY DEF NothingDue, config, link, queues
<1>. QED
  BY <1>1, <1>2, <1>3 DEF RunInv, Running

LEMMA AbortKeeps == RunInv /\ Abort => RunInv'
BY DEF RunInv, Abort, Running, config, link, queues

\* A command is accepted: sent in this step.
LEMMA AcceptKeeps ==
  ASSUME RunInv, Waiting(commands, step), NEW frame, Accept(frame)
  PROVE  Joined(commands', step)
<1>1. step \in Nat /\ delay \in 0 .. MaxDelay
  BY DEF RunInv
<1>. QED
  BY <1>1, JoinKeeps DEF Accept

LEMMA StepLocalKeeps ==
  ASSUME RunInv, NEW acts \in BOOLEAN, StepLocal(acts)
  PROVE  RunInv'
<1>1. /\ step \in Nat /\ step \in Steps /\ Joined(sensors, step) /\ Waiting(commands, step)
      /\ pc' = "apply" /\ unread = 0
  BY DEF StepLocal, RunInv, Running
<1>2. PICK p \in Due(sensors) : sensors' = sensors \ {p} /\ Accept(p.frame)
  BY DEF StepLocal
<1>3. Waiting(sensors', step + 1) /\ Joined(commands', step)
  BY <1>1, <1>2, FirstLeaves, AcceptKeeps
<1>4. UNCHANGED <<mode, step, obs, delay>> /\ unread' \in {0, 1}
  BY <1>1 DEF StepLocal, config, link
<1>. QED
  BY <1>1, <1>3, <1>4 DEF RunInv, Running

LEMMA BeginKeeps == RunInv /\ BeginExchange => RunInv'
<1>. SUFFICES ASSUME RunInv, BeginExchange PROVE RunInv'
  OBVIOUS
<1>1. /\ step \in Nat /\ step \in Steps /\ Joined(sensors, step) /\ Waiting(commands, step)
      /\ pc' \in {"hello", "answer"} /\ unread = 0
  BY DEF BeginExchange, RunInv, Running
<1>2. PICK p \in Due(sensors) : sensors' = sensors \ {p}
  BY DEF BeginExchange
<1>3. Waiting(sensors', step + 1)
  BY <1>1, <1>2, FirstLeaves
<1>4. UNCHANGED <<mode, step, obs, delay, commands, unread>>
  BY DEF BeginExchange, config, link
<1>. QED
  BY <1>1, <1>3, <1>4 DEF RunInv, Running

LEMMA HelloKeeps == RunInv /\ RecvHello => RunInv'
BY DEF RunInv, RecvHello, Running, config, link, queues

LEMMA AnswerKeeps == RunInv /\ RecvAnswer => RunInv'
<1>. SUFFICES ASSUME RunInv, RecvAnswer PROVE RunInv'
  OBVIOUS
<1>1. /\ step \in Nat /\ step \in Steps /\ Waiting(sensors, step + 1) /\ Waiting(commands, step)
      /\ unread = 0
  BY DEF RecvAnswer, RunInv, Running
<1>2. UNCHANGED <<mode, step, obs, delay, sensors, unread>>
  BY DEF RecvAnswer, config, link
<1>3. CASE AnswersCurrent(Head(toHost))
  <2>1. pc' = "apply" /\ Accept(Head(toHost).step)
    BY <1>3 DEF RecvAnswer
  <2>2. Joined(commands', step)
    BY <1>1, <2>1, AcceptKeeps
  <2>. QED
    BY <1>1, <1>2, <2>1, <2>2 DEF RunInv, Running
<1>4. CASE ~AnswersCurrent(Head(toHost))
  <2>1. pc' = "failed"
    BY <1>4 DEF RecvAnswer
  <2>. QED
    BY <1>1, <1>2, <2>1 DEF RunInv, Running
<1>. QED
  BY <1>3, <1>4

LEMMA ClosedKeeps == RunInv /\ RecvClosed => RunInv'
BY DEF RunInv, RecvClosed, Running, config, link, queues

LEMMA PeerKeeps == RunInv /\ Peer => RunInv'
BY DEF RunInv, Peer, PeerAnswers, PeerExits, Running, config, link, queues

LEMMA ApplyKeeps == RunInv /\ Apply => RunInv'
<1>. SUFFICES ASSUME RunInv, Apply PROVE RunInv'
  OBVIOUS
<1>1. /\ step \in Nat /\ step \in Steps /\ Waiting(sensors, step + 1) /\ Joined(commands, step)
      /\ step' = step + 1 /\ unread' = 0 /\ mode \in Modes /\ delay \in 0 .. MaxDelay
  BY DEF Apply, RunInv, Running
<1>2. UNCHANGED <<mode, delay, sensors>>
  BY DEF Apply, config
<1>3. Waiting(commands', step + 1)
  <2>1. CASE Due(commands) = {}
    BY <1>1, <2>1, NoneLeaves DEF Apply
  <2>2. CASE Due(commands) # {}
    <3>1. PICK d : d \in Due(commands)
      BY <2>2
    <3>2. ASSUME NEW e \in Due(commands) PROVE e = d
      <4>1. \A p \in commands : p.arrival \in Int /\ p.sent \in Int
        BY <1>1, TransportAssumption DEF Joined, QueueOK
      <4>2. d \in commands /\ e \in commands
        BY <3>1 DEF Due
      <4>3. d # e => Before(d, e) /\ Before(e, d)
        BY <3>1, <4>2 DEF Due
      <4>. QED
        BY <4>1, <4>2, <4>3 DEF Before
    <3>3. commands' = commands \ {d}
      BY <3>1, <3>2 DEF Apply
    <3>. QED
      BY <1>1, <3>1, <3>3, FirstLeaves
  <2>. QED
    BY <2>1, <2>2
<1>4. obs' # NoObs => obs' \in [Links -> Samples] /\ mode # "none"
  BY DEF Apply, RunInv
<1>5. pc' \in {"send", "done"} /\ (pc' = "send" => step + 1 \in Steps)
  BY <1>1, TransportAssumption DEF Apply, Steps
<1>. QED
  BY <1>1, <1>2, <1>3, <1>4, <1>5 DEF RunInv, Running

LEMMA RunStep == RunInv /\ [Next]_vars => RunInv'
<1>1. ASSUME RunInv, Next PROVE RunInv'
  BY <1>1, SendKeeps, NothingDueKeeps, AbortKeeps, StepLocalKeeps, BeginKeeps, HelloKeeps,
     AnswerKeeps, ClosedKeeps, ApplyKeeps, PeerKeeps
     DEF Next, Host
<1>2. ASSUME RunInv, UNCHANGED vars PROVE RunInv'
  BY <1>2 DEF RunInv, Running, vars, config, link, queues
<1>. QED
  BY <1>1, <1>2

LEMMA RunInvariant == Spec => []RunInv
BY RunInit, RunStep, PTL DEF Spec

\* Whatever the latency does from step to step, no frame and no command waits
\* longer than twice the longest latency, for every latency and pass plan.
THEOREM WaitIsBounded == Spec => []WaitBounded
<1>1. RunInv => WaitBounded
  <2>. USE TransportAssumption
  <2>. SUFFICES ASSUME RunInv, pc = "send", NEW queue, Waiting(queue, step), NEW p \in queue
                PROVE  step <= p.sent + 2 * MaxDelay
    BY DEF RunInv, WaitBounded
  <2>1. /\ step \in Nat /\ p.sent \in Nat /\ p.arrival \in Nat /\ p.arrival <= p.sent + MaxDelay
    BY DEF RunInv, Waiting, QueueOK
  <2>2. Cardinality(Ahead(p, queue)) \in Nat
    BY AheadFinite DEF Waiting, QueueOK
  <2>3. p.arrival < step => step + Cardinality(Ahead(p, queue)) <= p.arrival + MaxDelay
    BY DEF Waiting, QueueOK
  <2>. QED
    BY <2>1, <2>2, <2>3
<1>. QED
  BY <1>1, RunInvariant, PTL

\* Mission actions the controller publishes are read before it runs again.
THEOREM BatchesAreRead == Spec => []NoBatchLost
<1>1. RunInv => NoBatchLost
  BY DEF RunInv, NoBatchLost
<1>. QED
  BY <1>1, RunInvariant, PTL

-----------------------------------------------------------------------------
LEMMA BestLinkStep == RunInv /\ BestLinkCarries /\ [Next]_vars => BestLinkCarries'
<1>. SUFFICES ASSUME RunInv, BestLinkCarries, [Next]_vars PROVE BestLinkCarries'
  OBVIOUS
<1>. SUFFICES ASSUME mode' = "best", obs' # NoObs, pc' \in {"dark", "deliver"}
              PROVE  /\ pc' = "dark" => Usable(obs') = {}
                     /\ pc' = "deliver" =>
                          /\ active' \in Usable(obs')
                          /\ \A l \in Usable(obs') :
                               obs'[l].margin <= obs'[active'].margin + Hysteresis
  BY DEF BestLinkCarries
<1>1. CASE \E garbled \in BOOLEAN : Send(garbled)
  <2>1. PICK garbled \in BOOLEAN : Send(garbled)
    BY <1>1
  <2>2. mode = "best" /\ obs' = obs /\ obs # NoObs /\ pc = "send" /\ obs \in [Links -> Samples]
    BY <2>1 DEF Send, config, RunInv
  <2>3. active' = SelectBest(obs, active)
    BY <2>1, <2>2 DEF Send, ActiveAfter, Selected
  <2>4. /\ pc' = "dark" => ~Carried(obs, active')
        /\ pc' = "deliver" => Carried(obs, active')
    BY <2>1, <2>2 DEF Send, ActiveAfter
  <2>5. CASE Usable(obs) = {}
    <3>1. active' = 1 /\ 1 \in Links
      BY <2>3, <2>5, LinkAssumption DEF SelectBest, BestMargin, Links
    <3>2. pc' # "deliver"
      BY <2>4, <2>5, <3>1 DEF Carried, Usable
    <3>. QED
      BY <2>2, <2>5, <3>2
  <2>6. CASE Usable(obs) # {}
    <3>1. /\ active' \in Usable(obs)
          /\ \A l \in Usable(obs) : obs[l].margin <= obs[active'].margin + Hysteresis
      BY <2>2, <2>3, <2>6, SelectionGood
    <3>2. pc' # "dark"
      BY <2>4, <3>1, LinkAssumption DEF Carried, Usable
    <3>. QED
      BY <2>2, <3>1, <3>2
  <2>. QED
    BY <2>5, <2>6
<1>2. CASE ~\E garbled \in BOOLEAN : Send(garbled)
  <2>1. UNCHANGED <<mode, obs, active, pc>>
    BY <1>2 DEF Next, Host, Peer, NothingDue, Abort, StepLocal, BeginExchange, RecvHello,
                RecvAnswer, RecvClosed, Apply, PeerAnswers, PeerExits, vars, config, link
  <2>. QED
    BY <2>1 DEF BestLinkCarries
<1>. QED
  BY <1>1, <1>2

\* With the best-margin selection a frame is dropped for want of a link only
\* when no link is usable, however many links there are and whatever they do.
THEOREM BestLinkAlways == Spec => []BestLinkCarries
<1>1. Init => BestLinkCarries
  BY DEF Init, BestLinkCarries
<1>. QED
  BY <1>1, BestLinkStep, RunInvariant, PTL DEF Spec

-----------------------------------------------------------------------------
(***************************************************************************)
(* Each frame once.  The counts of the history are read off the queues:    *)
(* the controller has seen the frames sent, less those still queued and    *)
(* the one the child process has not read; their commands have been        *)
(* applied, less those still queued and the one the host waits for.        *)
(***************************************************************************)

\* Frames the host has sent, that are queued, whose command is queued; the
\* frame the child process was told of and has not read, the one whose answer
\* the host waits for; frames the controller saw, commands that were applied.
Sent       == {f \in Steps : f < step \/ (f = step /\ pc # "send")}
Held       == {p.frame : p \in sensors}
Pending    == {p.frame : p \in commands}
Unread     == IF pc = "hello" \/ (pc = "answer" /\ toPeer # <<>>) THEN {current} ELSE {}
Unanswered == IF pc = "answer" THEN {current} ELSE {}
Seen       == (Sent \ Held) \ Unread
Done       == (Seen \ Pending) \ Unanswered

Single(queue) == \A p, q \in queue : p.frame = q.frame => p = q

Once(frames) == [f \in Steps |-> IF f \in frames THEN 1 ELSE 0]

FrameInv ==
  /\ Single(sensors) /\ Single(commands)
  /\ Held \subseteq Sent /\ Pending \subseteq Seen \ Unanswered
  /\ pc \in {"hello", "answer"} => current \in Sent \ Held
  /\ given = Once(Seen) /\ applied = Once(Done)

\* Messages on the pipes: of a child process that answered twice, the second
\* answer stays in the pipe, and is to a frame the controller has seen.
Messages  == {Hello, Other} \cup [kind : {"command", "ack"}, step : Nat]
Answers(m) == m.kind \in {"command", "ack"}

HelloPipes  == \/ toPeer = <<Hello>> /\ toHost = <<>>
               \/ toPeer = <<>> /\ toHost \in {<<Hello>>, <<Other>>}
AnswerPipes ==
  \/ toPeer = <<Sensor(current)>> /\ (toHost # <<>> => ~AnswersCurrent(Head(toHost)))
  \/ /\ toPeer = <<>> /\ toHost # <<>>
     /\ AnswersCurrent(Head(toHost)) =>
          \A i \in 2 .. Len(toHost) : Answers(toHost[i]) => toHost[i].step = current
IdlePipes ==
  /\ toPeer = <<>> /\ (~handshaken => toHost = <<>>)
  /\ \A i \in 1 .. Len(toHost) : Answers(toHost[i]) => toHost[i].step \in Seen

PipeInv ==
  /\ toHost \in Seq(Messages)
  /\ pc = "hello" => ~handshaken /\ HelloPipes
  /\ pc = "answer" => handshaken /\ AnswerPipes
  /\ pc \in {"send", "deliver", "apply"} => IdlePipes

ExchangeInv == Running => FrameInv /\ PipeInv

-----------------------------------------------------------------------------
\* At most one packet is due.
LEMMA DueUnique ==
  ASSUME NEW queue, Joined(queue, step), step \in Nat, NEW d \in Due(queue), NEW e \in Due(queue)
  PROVE  d = e
<1>1. \A p \in queue : p.arrival \in Int /\ p.sent \in Int
  BY TransportAssumption DEF Joined, QueueOK
<1>2. d \in queue /\ e \in queue
  BY DEF Due
<1>3. d # e => Before(d, e) /\ Before(e, d)
  BY <1>2 DEF Due
<1>. QED
  BY <1>1, <1>2, <1>3 DEF Before

\* A queue that holds a frame once counts it once.
LEMMA FrameCount ==
  ASSUME NEW queue, Single(queue), NEW f
  PROVE  Cardinality({p \in queue : p.frame = f}) = IF f \in {p.frame : p \in queue} THEN 1 ELSE 0
<1>1. CASE f \in {p.frame : p \in queue}
  <2>1. PICK p \in queue : p.frame = f
    BY <1>1
  <2>2. {q \in queue : q.frame = f} = {p}
    BY <2>1 DEF Single
  <2>. QED
    BY <1>1, <2>2, FS_Singleton
<1>2. CASE f \notin {p.frame : p \in queue}
  <2>1. {q \in queue : q.frame = f} = {}
    BY <1>2
  <2>. QED
    BY <1>2, <2>1, FS_EmptySet
<1>. QED
  BY <1>1, <1>2

\* A packet joins or leaves a queue with its frame.
LEMMA QueueAdd ==
  ASSUME NEW queue, Single(queue), NEW frame, frame \notin {p.frame : p \in queue},
         NEW sent, NEW latency
  PROVE  /\ Single(queue \cup {Packet(frame, sent, latency)})
         /\ {p.frame : p \in queue \cup {Packet(frame, sent, latency)}}
              = {p.frame : p \in queue} \cup {frame}
<1>1. Packet(frame, sent, latency).frame = frame
  BY DEF Packet
<1>. DEFINE new == Packet(frame, sent, latency)
<1>. HIDE DEF new
<1>2. new.frame = frame
  BY <1>1 DEF new
<1>3. Single(queue \cup {new}) /\ {p.frame : p \in queue \cup {new}} = {p.frame : p \in queue} \cup {frame}
  BY <1>2 DEF Single
<1>. QED
  BY <1>3 DEF new

LEMMA QueueRemove ==
  ASSUME NEW queue, Single(queue), NEW d \in queue
  PROVE  /\ Single(queue \ {d})
         /\ {p.frame : p \in queue \ {d}} = {p.frame : p \in queue} \ {d.frame}
BY DEF Single

\* Counts are equal when they are for each frame.
LEMMA OnceByPoint ==
  ASSUME NEW F, F = [f \in Steps |-> F[f]], NEW S,
         \A f \in Steps : F[f] = IF f \in S THEN 1 ELSE 0
  PROVE  F = Once(S)
BY DEF Once

\* Counting one more.
LEMMA OnceMore ==
  ASSUME NEW S, NEW f \in Steps, f \notin S
  PROVE  [Once(S) EXCEPT ![f] = @ + 1] = Once(S \cup {f})
<1>. DEFINE counted == [Once(S) EXCEPT ![f] = @ + 1]
<1>1. Once(S) \in [Steps -> Nat] /\ Once(S)[f] = 0 /\ \A g \in Steps : Once(S)[g] = IF g \in S THEN 1 ELSE 0
  BY DEF Once
<1>2. DOMAIN counted = Steps /\ \A g \in Steps : counted[g] = IF g \in S \cup {f} THEN 1 ELSE 0
  BY <1>1
<1>3. counted = [g \in Steps |-> counted[g]]
  BY <1>1
<1>. HIDE DEF counted
<1>4. counted = Once(S \cup {f})
  BY <1>2, <1>3 DEF Once
<1>. QED
  BY <1>4 DEF counted

LEMMA ExchangeInit == Init => ExchangeInv
<1>. SUFFICES ASSUME Init PROVE FrameInv /\ PipeInv
  BY DEF ExchangeInv
<1>1. Sent = {}
  BY TransportAssumption DEF Init, Sent, Steps
<1>2. Held = {} /\ Pending = {} /\ Seen = {} /\ Done = {}
  BY <1>1 DEF Init, Held, Pending, Seen, Done
<1>3. FrameInv
  BY <1>2 DEF Init, FrameInv, Single, Once, Unanswered
<1>4. PipeInv
  BY DEF Init, PipeInv, IdlePipes
<1>. QED
  BY <1>3, <1>4

LEMMA SendExchange ==
  ASSUME RunInv, ExchangeInv, NEW garbled \in BOOLEAN, Send(garbled), Running'
  PROVE  FrameInv' /\ PipeInv'
<1>1. /\ pc = "send" /\ pc' = "deliver" /\ step \in Steps /\ FrameInv /\ PipeInv
      /\ step' = step /\ commands' = commands /\ given' = given /\ applied' = applied
      /\ toPeer' = toPeer /\ toHost' = toHost /\ handshaken' = handshaken
  BY DEF Send, Running, RunInv, ExchangeInv, pipes, history
<1>2. PICK latency : sensors' = sensors \cup {Packet(step, step, latency)}
  BY <1>1 DEF Send
<1>3. step \notin Sent /\ Sent' = Sent \cup {step}
  BY <1>1, TransportAssumption DEF Sent, Steps
<1>4. Single(sensors)' /\ Held' = Held \cup {step}
  <2>1. Single(sensors) /\ step \notin {p.frame : p \in sensors}
    BY <1>1, <1>3 DEF FrameInv, Held
  <2>2. Single(sensors') /\ {p.frame : p \in sensors'} = {p.frame : p \in sensors} \cup {step}
    BY <1>2, <2>1, QueueAdd
  <2>. QED
    BY <2>2 DEF Single, Held
<1>5. Pending' = Pending /\ Unread' = {} /\ Unread = {} /\ Unanswered' = {} /\ Unanswered = {}
  BY <1>1 DEF Pending, Unread, Unanswered
<1>6. Seen' = Seen /\ Done' = Done
  BY <1>3, <1>4, <1>5 DEF Seen, Done
<1>7. FrameInv'
  BY <1>1, <1>3, <1>4, <1>5, <1>6 DEF FrameInv, Single, Once
<1>8. PipeInv'
  BY <1>1, <1>6 DEF PipeInv, IdlePipes
<1>. QED
  BY <1>7, <1>8

LEMMA NothingDueExchange ==
  ASSUME ExchangeInv, NothingDue
  PROVE  FrameInv' /\ PipeInv'
<1>1. /\ pc = "deliver" /\ pc' = "apply" /\ FrameInv /\ PipeInv
      /\ step' = step /\ commands' = commands /\ given' = given /\ applied' = applied
      /\ sensors' = sensors
      /\ toPeer' = toPeer /\ toHost' = toHost /\ handshaken' = handshaken
  BY DEF NothingDue, Running, ExchangeInv, pipes, history, queues
<1>2. /\ Pending' = Pending /\ Unread' = Unread /\ Unanswered' = Unanswered
      /\ Held' = Held /\ Sent' = Sent
  BY <1>1 DEF Pending, Unread, Unanswered, Held, Sent
<1>3. Seen' = Seen /\ Done' = Done
  BY <1>2 DEF Seen, Done
<1>4. FrameInv'
  BY <1>1, <1>2, <1>3 DEF FrameInv, Single, Once
<1>5. PipeInv'
  BY <1>1, <1>3 DEF PipeInv, IdlePipes
<1>. QED
  BY <1>4, <1>5

LEMMA StepLocalExchange ==
  ASSUME ExchangeInv, NEW acts \in BOOLEAN, StepLocal(acts)
  PROVE  FrameInv' /\ PipeInv'
<1>1. /\ pc = "deliver" /\ pc' = "apply" /\ FrameInv /\ PipeInv
      /\ step' = step /\ applied' = applied
      /\ toPeer' = toPeer /\ toHost' = toHost /\ handshaken'
  BY DEF StepLocal, Running, ExchangeInv, pipes
<1>2. PICK d \in Due(sensors) : /\ sensors' = sensors \ {d}
                                /\ given' = [given EXCEPT ![d.frame] = @ + 1]
                                /\ commands' = commands \cup {Packet(d.frame, step, delay)}
  BY DEF StepLocal, Accept
<1>. DEFINE f == d.frame
<1>3. d \in sensors /\ f \in Held
  BY DEF Due, Held
<1>4. f \in Steps /\ f \in Sent /\ f \notin Seen /\ f \notin Pending
  BY <1>1, <1>3 DEF FrameInv, Sent, Seen
<1>5. Single(sensors)' /\ Held' = Held \ {f}
  <2>1. Single(sensors') /\ {p.frame : p \in sensors'} = {p.frame : p \in sensors} \ {f}
    BY <1>1, <1>2, <1>3, QueueRemove DEF FrameInv
  <2>. QED
    BY <2>1 DEF Single, Held
<1>6. Single(commands)' /\ Pending' = Pending \cup {f}
  <2>1. Single(commands) /\ f \notin {p.frame : p \in commands}
    BY <1>1, <1>4 DEF FrameInv, Pending
  <2>2. Single(commands') /\ {p.frame : p \in commands'} = {p.frame : p \in commands} \cup {f}
    BY <1>2, <2>1, QueueAdd
  <2>. QED
    BY <2>2 DEF Single, Pending
<1>. HIDE DEF f
<1>7. /\ Unread' = {} /\ Unread = {} /\ Unanswered' = {} /\ Unanswered = {} /\ Sent' = Sent
  BY <1>1 DEF Unread, Unanswered, Sent
<1>8. Seen' = Seen \cup {f} /\ Done' = Done
  BY <1>1, <1>3, <1>4, <1>5, <1>6, <1>7 DEF Seen, Done, FrameInv
<1>9. given' = Once(Seen') /\ applied' = Once(Done')
  BY <1>1, <1>2, <1>4, <1>8, OnceMore DEF FrameInv, f
<1>10. FrameInv'
  BY <1>1, <1>4, <1>5, <1>6, <1>7, <1>8, <1>9 DEF FrameInv, Once
<1>11. PipeInv'
  BY <1>1, <1>8 DEF PipeInv, IdlePipes
<1>. QED
  BY <1>10, <1>11

\* The messages of the exchange are told apart by their kind.
LEMMA MessageKinds ==
  /\ Hello # Other
  /\ \A f : Sensor(f) # Hello /\ Sensor(f).step = f
  /\ ~Answers(Hello) /\ ~Answers(Other)
  /\ ~AnswersCurrent(Hello) /\ ~AnswersCurrent(Other)
  /\ \A f : \A kind \in {"command", "ack"} :
       Answer(kind, f).kind = kind /\ Answer(kind, f).step = f
<1>1. Hello.kind = "hello" /\ Other.kind = "fault"
  BY DEF Hello, Other
<1>2. \A f : Sensor(f).kind = "sensor" /\ Sensor(f).step = f
  BY DEF Sensor
<1>. QED
  BY <1>1, <1>2 DEF Answers, AnswersCurrent, Answer

LEMMA BeginExchangeKeeps ==
  ASSUME ExchangeInv, BeginExchange
  PROVE  FrameInv' /\ PipeInv'
<1>1. /\ pc = "deliver" /\ pc' = (IF handshaken THEN "answer" ELSE "hello") /\ FrameInv /\ PipeInv
      /\ step' = step /\ commands' = commands /\ given' = given /\ applied' = applied
      /\ toHost' = toHost /\ handshaken' = handshaken
  BY DEF BeginExchange, Running, ExchangeInv, history
<1>2. PICK d \in Due(sensors) : /\ sensors' = sensors \ {d} /\ current' = d.frame
                                /\ toPeer' = Append(toPeer, IF handshaken THEN Sensor(d.frame) ELSE Hello)
  BY DEF BeginExchange
<1>. DEFINE f == d.frame
<1>3. d \in sensors /\ f \in Held
  BY DEF Due, Held
<1>4. f \in Steps /\ f \in Sent /\ f \notin Seen /\ f \notin Pending
  BY <1>1, <1>3 DEF FrameInv, Sent, Seen
<1>5. Single(sensors)' /\ Held' = Held \ {f}
  <2>1. Single(sensors') /\ {p.frame : p \in sensors'} = {p.frame : p \in sensors} \ {f}
    BY <1>1, <1>2, <1>3, QueueRemove DEF FrameInv
  <2>. QED
    BY <2>1 DEF Single, Held
<1>6. toPeer = <<>> /\ toPeer' = <<IF handshaken THEN Sensor(f) ELSE Hello>> /\ toPeer' # <<>>
  BY <1>1, <1>2 DEF PipeInv, IdlePipes
<1>. HIDE DEF f
<1>7. /\ Unread = {} /\ Unread' = {f} /\ Unanswered = {} /\ Unanswered' \subseteq {f}
      /\ Sent' = Sent /\ Pending' = Pending
  BY <1>1, <1>2, <1>6 DEF Unread, Unanswered, Sent, Pending, f
<1>8. Seen' = Seen /\ Done' = Done
  BY <1>3, <1>4, <1>5, <1>7 DEF Seen, Done
<1>9. FrameInv'
  BY <1>1, <1>2, <1>4, <1>5, <1>7, <1>8 DEF FrameInv, Single, Once, f
<1>10. PipeInv'
  <2>1. CASE ~handshaken
    BY <1>1, <1>6, <2>1 DEF PipeInv, IdlePipes, HelloPipes
  <2>2. CASE handshaken
    <3>1. ASSUME toHost # <<>> PROVE ~AnswersCurrent(Head(toHost))'
      <4>1. Len(toHost) \in Nat /\ Len(toHost) # 0 /\ Head(toHost) = toHost[1]
        BY <1>1, <3>1 DEF PipeInv
      <4>2. 1 \in 1 .. Len(toHost)
        BY <4>1
      <4>3. Answers(Head(toHost)) => Head(toHost).step \in Seen
        BY <1>1, <4>1, <4>2 DEF PipeInv, IdlePipes
      <4>. QED
        BY <1>1, <1>2, <1>4, <4>3 DEF Answers, AnswersCurrent, f
    <3>2. AnswerPipes'
      BY <1>1, <1>2, <1>6, <2>2, <3>1 DEF AnswerPipes, AnswersCurrent, f
    <3>. QED
      BY <1>1, <2>2, <3>2 DEF PipeInv
  <2>. QED
    BY <2>1, <2>2
<1>. QED
  BY <1>9, <1>10

LEMMA RecvHelloExchange ==
  ASSUME ExchangeInv, RecvHello, Running'
  PROVE  FrameInv' /\ PipeInv'
<1>1. /\ pc = "hello" /\ pc' = "answer" /\ FrameInv /\ PipeInv
      /\ toHost # <<>> /\ Head(toHost) = Hello /\ toHost' = Tail(toHost)
      /\ handshaken' /\ toPeer' = Append(toPeer, Sensor(current)) /\ current' = current
      /\ step' = step /\ commands' = commands /\ given' = given /\ applied' = applied
      /\ sensors' = sensors
  BY DEF RecvHello, Running, ExchangeInv, history, queues
<1>2. toPeer = <<>> /\ toHost = <<Hello>>
  BY <1>1, MessageKinds DEF PipeInv, HelloPipes
<1>3. toPeer' = <<Sensor(current)>> /\ toHost' = <<>> /\ toPeer' # <<>>
  BY <1>1, <1>2
<1>4. /\ Unread = {current} /\ Unread' = {current} /\ Unanswered = {} /\ Unanswered' = {current}
      /\ Sent' = Sent /\ Pending' = Pending /\ Held' = Held
  BY <1>1, <1>3 DEF Unread, Unanswered, Sent, Pending, Held
<1>5. Seen' = Seen /\ Done' = Done /\ current \notin Seen
  BY <1>4 DEF Seen, Done
<1>6. FrameInv'
  BY <1>1, <1>4, <1>5 DEF FrameInv, Single, Once
<1>7. PipeInv'
  BY <1>1, <1>3 DEF PipeInv, AnswerPipes
<1>. QED
  BY <1>6, <1>7

LEMMA RecvAnswerExchange ==
  ASSUME ExchangeInv, RecvAnswer, Running'
  PROVE  FrameInv' /\ PipeInv'
<1>1. /\ pc = "answer" /\ pc' = "apply" /\ FrameInv /\ PipeInv /\ handshaken
      /\ toHost # <<>> /\ AnswersCurrent(Head(toHost)) /\ toHost' = Tail(toHost)
      /\ commands' = commands \cup {Packet(current, step, delay)}
      /\ handshaken' = handshaken /\ toPeer' = toPeer
      /\ step' = step /\ given' = given /\ applied' = applied /\ sensors' = sensors
  BY DEF RecvAnswer, Running, ExchangeInv, history, PipeInv, AnswersCurrent, Accept
<1>2. /\ toPeer = <<>>
      /\ \A i \in 2 .. Len(toHost) : Answers(toHost[i]) => toHost[i].step = current
  BY <1>1 DEF PipeInv, AnswerPipes
<1>3. /\ Unread = {} /\ Unread' = {} /\ Unanswered = {current} /\ Unanswered' = {}
      /\ Sent' = Sent /\ Held' = Held
  BY <1>1, <1>2 DEF Unread, Unanswered, Sent, Held
<1>4. current \in Seen /\ current \notin Pending /\ Seen' = Seen
  BY <1>1, <1>3 DEF Seen, FrameInv
<1>5. Single(commands)' /\ Pending' = Pending \cup {current}
  <2>1. Single(commands) /\ current \notin {p.frame : p \in commands}
    BY <1>1, <1>4 DEF FrameInv, Pending
  <2>2. Single(commands') /\ {p.frame : p \in commands'} = {p.frame : p \in commands} \cup {current}
    BY <1>1, <2>1, QueueAdd
  <2>. QED
    BY <2>2 DEF Single, Pending
<1>6. Done' = Done
  BY <1>3, <1>4, <1>5 DEF Done
<1>7. FrameInv'
  BY <1>1, <1>3, <1>4, <1>5, <1>6 DEF FrameInv, Single, Once
<1>8. /\ toHost' \in Seq(Messages)
      /\ \A i \in 1 .. Len(toHost') : toHost'[i] = toHost[i + 1] /\ i + 1 \in 2 .. Len(toHost)
  <2>1. toHost \in Seq(Messages) /\ Len(toHost) \in Nat /\ Len(toHost) # 0
    BY <1>1 DEF PipeInv
  <2>2. /\ Tail(toHost) \in Seq(Messages) /\ Len(Tail(toHost)) = Len(toHost) - 1
        /\ \A i \in 1 .. Len(toHost) - 1 : Tail(toHost)[i] = toHost[i + 1]
    BY <1>1, <2>1
  <2>. QED
    BY <1>1, <2>1, <2>2
<1>9. \A i \in 1 .. Len(toHost') : Answers(toHost'[i]) => toHost'[i].step \in Seen'
  BY <1>2, <1>4, <1>8
<1>10. PipeInv'
  BY <1>1, <1>2, <1>8, <1>9 DEF PipeInv, IdlePipes, Answers
<1>. QED
  BY <1>7, <1>10

\* What the child process says to a sensor frame: either its first message does
\* not answer it, or all of them do.
LEMMA RepliesToSensor ==
  ASSUME NEW f \in Nat, NEW reply \in Replies(Sensor(f))
  PROVE  /\ reply \in Seq(Messages) /\ reply # <<>>
         /\ \A i \in 1 .. Len(reply) : Answers(reply[i]) => reply[i].step = f \/ Len(reply) = 1
<1>1. Answer("command", f) \in Messages /\ Answer("ack", f) \in Messages /\ Other \in Messages
      /\ Answer("command", f + 1) \in Messages
  BY DEF Answer, Messages
<1>2. reply \in {<<Answer("command", f)>>, <<Answer("ack", f)>>, <<Other>>,
                 <<Answer("command", f), Answer("command", f)>>,
                 <<Answer("command", f + 1)>>}
  BY MessageKinds DEF Replies
<1>3. CASE reply = <<Answer("command", f), Answer("command", f)>>
  BY <1>1, <1>3, MessageKinds
<1>4. CASE reply # <<Answer("command", f), Answer("command", f)>>
  <2>1. PICK m \in Messages : reply = <<m>>
    BY <1>1, <1>2, <1>4
  <2>. QED
    BY <2>1
<1>. QED
  BY <1>3, <1>4

LEMMA PeerAnswersExchange ==
  ASSUME ExchangeInv, PeerAnswers, Running
  PROVE  FrameInv' /\ PipeInv'
<1>1. /\ FrameInv /\ PipeInv /\ toPeer # <<>> /\ toPeer' = Tail(toPeer)
      /\ pc' = pc /\ current' = current /\ handshaken' = handshaken
      /\ step' = step /\ applied' = applied /\ sensors' = sensors /\ commands' = commands
      /\ pc \in {"hello", "answer"}
  BY DEF PeerAnswers, Running, ExchangeInv, queues, PipeInv, IdlePipes
<1>2. PICK reply \in Replies(Head(toPeer)) : toHost' = toHost \o reply
  BY DEF PeerAnswers
<1>3. /\ Single(sensors)' /\ Single(commands)' /\ Sent' = Sent /\ Held' = Held /\ Pending' = Pending
      /\ Unanswered' = Unanswered
  BY <1>1 DEF FrameInv, Single, Sent, Held, Pending, Unanswered
<1>4. CASE pc = "hello"
  <2>1. toPeer = <<Hello>> /\ toHost = <<>>
    BY <1>1, <1>4 DEF PipeInv, HelloPipes
  <2>2. toPeer' = <<>> /\ toHost' \in {<<Hello>>, <<Other>>} /\ given' = given
    <3>1. Head(toPeer) = Hello /\ Tail(toPeer) = <<>>
      BY <2>1
    <3>2. reply \in {<<Hello>>, <<Other>>}
      BY <1>2, <3>1 DEF Replies
    <3>. QED
      BY <1>1, <1>2, <2>1, <3>1, <3>2 DEF PeerAnswers
  <2>3. Unread' = Unread
    BY <1>1, <1>4 DEF Unread
  <2>4. Seen' = Seen /\ Done' = Done
    BY <1>3, <2>3 DEF Seen, Done
  <2>5. FrameInv'
    BY <1>1, <1>3, <2>2, <2>4 DEF FrameInv, Once
  <2>6. PipeInv'
    <3>1. Hello \in Messages /\ Other \in Messages
      BY DEF Messages
    <3>2. \A m \in Messages : <<m>> \in Seq(Messages)
      OBVIOUS
    <3>3. toHost' \in Seq(Messages)
      BY <2>2, <3>1, <3>2
    <3>4. HelloPipes'
      BY <2>2 DEF HelloPipes, Hello, Other
    <3>. QED
      BY <1>1, <1>4, <3>3, <3>4 DEF PipeInv
  <2>. QED
    BY <2>5, <2>6
<1>5. CASE pc = "answer"
  <2>1. /\ toPeer = <<Sensor(current)>> /\ handshaken
        /\ toHost # <<>> => ~AnswersCurrent(Head(toHost))
    BY <1>1, <1>5 DEF PipeInv, AnswerPipes
  <2>2. Head(toPeer) = Sensor(current) /\ toPeer' = <<>>
    BY <1>1, <2>1
  <2>3. current \in Steps /\ current \in Nat /\ current \in Sent /\ current \notin Held
    BY <1>1, <1>5, TransportAssumption DEF FrameInv, Sent, Steps
  <2>4. Unread = {current} /\ Unread' = {} /\ Unanswered = {current}
    BY <1>1, <1>5, <2>2 DEF Unread, Unanswered
  <2>5. current \notin Seen /\ Seen' = Seen \cup {current} /\ Done' = Done
    BY <1>1, <1>3, <2>3, <2>4 DEF Seen, Done, FrameInv
  <2>6. given' = Once(Seen') /\ applied' = Once(Done')
    <3>1. given' = [given EXCEPT ![current] = @ + 1]
      BY <2>2, MessageKinds DEF PeerAnswers
    <3>. QED
      BY <1>1, <2>3, <2>5, <3>1, OnceMore DEF FrameInv
  <2>7. FrameInv'
    BY <1>1, <1>3, <2>3, <2>5, <2>6 DEF FrameInv, Once
  <2>8. /\ reply \in Seq(Messages) /\ reply # <<>>
        /\ \A i \in 1 .. Len(reply) : Answers(reply[i]) => reply[i].step = current \/ Len(reply) = 1
    BY <1>2, <2>2, <2>3, RepliesToSensor
  <2>9. /\ toHost' \in Seq(Messages) /\ toHost' # <<>>
        /\ AnswersCurrent(Head(toHost')) =>
             \A i \in 2 .. Len(toHost') : Answers(toHost'[i]) => toHost'[i].step = current
    <3>1. toHost \in Seq(Messages)
      BY <1>1 DEF PipeInv
    <3>2. CASE toHost = <<>>
      <4>1. toHost' = reply
        BY <1>2, <2>8, <3>2
      <4>2. ASSUME NEW i \in 2 .. Len(reply) PROVE i \in 1 .. Len(reply) /\ Len(reply) # 1
        <5>1. Len(reply) \in Nat
          BY <2>8
        <5>2. \A n \in Nat : \A k \in 2 .. n : k \in 1 .. n /\ n # 1
          OBVIOUS
        <5>. QED
          BY <5>1, <5>2
      <4>. QED
        BY <2>8, <4>1, <4>2
    <3>3. CASE toHost # <<>>
      <4>1. toHost' \in Seq(Messages) /\ Head(toHost') = Head(toHost) /\ toHost' # <<>>
        BY <1>2, <2>8, <3>1, <3>3
      <4>. QED
        BY <2>1, <3>3, <4>1
    <3>. QED
      BY <3>2, <3>3
  <2>10. AnswerPipes'
    BY <1>1, <2>2, <2>9 DEF AnswerPipes, AnswersCurrent, Answers
  <2>11. PipeInv'
    BY <1>1, <1>5, <2>1, <2>9, <2>10 DEF PipeInv
  <2>. QED
    BY <2>7, <2>11
<1>. QED
  BY <1>1, <1>4, <1>5

LEMMA ApplyExchange ==
  ASSUME RunInv, ExchangeInv, Apply, Running'
  PROVE  FrameInv' /\ PipeInv'
<1>1. /\ pc = "apply" /\ pc' = "send" /\ FrameInv /\ PipeInv
      /\ step \in Steps /\ step \in Nat /\ Joined(commands, step)
      /\ step' = step + 1 /\ given' = given /\ sensors' = sensors
      /\ toPeer' = toPeer /\ toHost' = toHost /\ handshaken' = handshaken
      /\ commands' = commands \ Due(commands)
      /\ applied' = [f \in Steps |-> applied[f] + Cardinality({p \in Due(commands) : p.frame = f})]
  BY DEF Apply, RunInv, Running, ExchangeInv, pipes
<1>2. /\ Sent' = Sent /\ Held' = Held /\ Single(sensors)'
      /\ Unread' = {} /\ Unread = {} /\ Unanswered' = {} /\ Unanswered = {}
  <2>1. Sent' = Sent
    BY <1>1, TransportAssumption DEF Sent, Steps
  <2>. QED
    BY <1>1, <2>1 DEF Held, Unread, Unanswered, FrameInv, Single
<1>3. Seen' = Seen
  BY <1>2 DEF Seen
<1>4. /\ Single(commands)' /\ Pending' \subseteq Pending
      /\ applied' = Once(Done')
  <2>0. \A f \in Steps : applied[f] = IF f \in Done THEN 1 ELSE 0
    BY <1>1 DEF FrameInv, Once
  <2>1. CASE Due(commands) = {}
    <3>1. commands' = commands /\ \A f : {p \in Due(commands) : p.frame = f} = {}
      BY <1>1, <2>1
    <3>2. \A f : Cardinality({p \in Due(commands) : p.frame = f}) = 0
      BY <3>1, FS_EmptySet
    <3>3. Pending' = Pending /\ Single(commands)' /\ Done' = Done
      BY <1>1, <1>2, <1>3, <3>1 DEF Pending, Single, FrameInv, Done
    <3>4. applied' = Once(Done')
      <4>1. /\ applied' = [f \in Steps |-> applied'[f]]
            /\ \A f \in Steps : applied'[f] = applied[f] + Cardinality({p \in Due(commands) : p.frame = f})
        BY <1>1, Zenon
      <4>2. \A f \in Steps : applied'[f] = IF f \in Done' THEN 1 ELSE 0
        <5>. SUFFICES ASSUME NEW f \in Steps PROVE applied'[f] = IF f \in Done' THEN 1 ELSE 0
          OBVIOUS
        <5>1. applied'[f] = applied[f] + 0
          BY <3>2, <4>1, Zenon
        <5>2. applied[f] = IF f \in Done' THEN 1 ELSE 0
          BY <2>0, <3>3, Zenon
        <5>. QED
          BY <5>1, <5>2
      <4>. QED
        BY <4>1, <4>2, OnceByPoint
    <3>. QED
      BY <3>3, <3>4
  <2>2. CASE Due(commands) # {}
    <3>1. PICK d \in Due(commands) : Due(commands) = {d}
      BY <1>1, <2>2, DueUnique
    <3>2. d \in commands /\ commands' = commands \ {d}
      BY <1>1, <3>1 DEF Due
    <3>3. d.frame \in Pending /\ d.frame \in Seen /\ d.frame \in Steps /\ d.frame \notin Done
      BY <1>1, <3>2 DEF Pending, FrameInv, Done, Seen, Sent
    <3>4. Single(commands') /\ {p.frame : p \in commands'} = {p.frame : p \in commands} \ {d.frame}
      BY <1>1, <3>2, QueueRemove DEF FrameInv
    <3>5. Single(commands)' /\ Pending' = Pending \ {d.frame}
      BY <3>4 DEF Single, Pending
    <3>6. Done' = Done \cup {d.frame}
      BY <1>2, <1>3, <3>3, <3>5 DEF Done
    <3>7. ASSUME NEW f \in Steps
          PROVE  Cardinality({p \in Due(commands) : p.frame = f}) = IF f = d.frame THEN 1 ELSE 0
      <4>1. CASE f = d.frame
        <5>1. {p \in Due(commands) : p.frame = f} = {d}
          BY <3>1, <4>1
        <5>. QED
          BY <4>1, <5>1, FS_Singleton
      <4>2. CASE f # d.frame
        <5>1. {p \in Due(commands) : p.frame = f} = {}
          BY <3>1, <4>2
        <5>. QED
          BY <4>2, <5>1, FS_EmptySet
      <4>. QED
        BY <4>1, <4>2
    <3>8. \A f \in Steps : applied[f] + Cardinality({p \in Due(commands) : p.frame = f})
                             = IF f \in Done' THEN 1 ELSE 0
      BY <2>0, <3>3, <3>6, <3>7
    <3>9. applied' = Once(Done')
      <4>1. /\ applied' = [f \in Steps |-> applied'[f]]
            /\ \A f \in Steps : applied'[f] = applied[f] + Cardinality({p \in Due(commands) : p.frame = f})
        BY <1>1, Zenon
      <4>2. \A f \in Steps : applied'[f] = IF f \in Done' THEN 1 ELSE 0
        BY <3>8, <4>1, Zenon
      <4>. QED
        BY <4>1, <4>2, OnceByPoint
    <3>. QED
      BY <3>5, <3>9
  <2>. QED
    BY <2>1, <2>2
<1>5. FrameInv'
  BY <1>1, <1>2, <1>3, <1>4 DEF FrameInv, Once
<1>6. PipeInv'
  BY <1>1, <1>3 DEF PipeInv, IdlePipes
<1>. QED
  BY <1>5, <1>6

LEMMA ExchangeStep == RunInv /\ ExchangeInv /\ [Next]_vars => ExchangeInv'
<1>. SUFFICES ASSUME RunInv, ExchangeInv, [Next]_vars, Running' PROVE FrameInv' /\ PipeInv'
  BY DEF ExchangeInv
<1>1. ASSUME NEW garbled \in BOOLEAN, Send(garbled) PROVE FrameInv' /\ PipeInv'
  BY <1>1, SendExchange
<1>2. ASSUME NEW acts \in BOOLEAN, StepLocal(acts) PROVE FrameInv' /\ PipeInv'
  BY <1>2, StepLocalExchange
<1>3. CASE NothingDue \/ BeginExchange \/ RecvHello \/ RecvAnswer \/ Apply
  BY <1>3, NothingDueExchange, BeginExchangeKeeps, RecvHelloExchange, RecvAnswerExchange, ApplyExchange
<1>4. CASE Abort \/ RecvClosed
  BY <1>4 DEF Abort, RecvClosed, Running
<1>5. CASE PeerAnswers
  <2>1. Running
    BY <1>5 DEF PeerAnswers, Running
  <2>. QED
    BY <1>5, <2>1, PeerAnswersExchange
<1>6. CASE PeerExits \/ UNCHANGED vars
  <2>1. UNCHANGED <<step, pc, sensors, commands, current, handshaken, toPeer, toHost, given, applied>>
    BY <1>6 DEF PeerExits, vars, config, link, queues, pipes, history
  <2>2. Running /\ FrameInv /\ PipeInv
    BY <2>1 DEF Running, ExchangeInv
  <2>3. /\ Sent' = Sent /\ Held' = Held /\ Pending' = Pending /\ Unread' = Unread
        /\ Unanswered' = Unanswered /\ Single(sensors)' /\ Single(commands)'
    BY <2>1, <2>2 DEF Sent, Held, Pending, Unread, Unanswered, Single, FrameInv
  <2>4. Seen' = Seen /\ Done' = Done
    BY <2>3 DEF Seen, Done
  <2>5. FrameInv'
    BY <2>1, <2>2, <2>3, <2>4 DEF FrameInv, Once
  <2>6. PipeInv'
    BY <2>1, <2>2, <2>4 DEF PipeInv, HelloPipes, AnswerPipes, IdlePipes, AnswersCurrent
  <2>. QED
    BY <2>5, <2>6
<1>. QED
  BY <1>1, <1>2, <1>3, <1>4, <1>5, <1>6 DEF Next, Host, Peer

\* Each frame sent is queued or reached the controller once, and each frame the
\* controller saw has one command, queued or applied once: for every latency,
\* number of links and length of the run, and whatever the child process answers.
THEOREM FramesExactlyOnce == Spec => []EachFrameOnce
<1>1. RunInv /\ ExchangeInv => EachFrameOnce
  <2>. SUFFICES ASSUME RunInv, ExchangeInv, pc = "send", NEW f \in Steps
                PROVE  /\ given[f] + Cardinality({p \in sensors : p.frame = f}) = IF f < step THEN 1 ELSE 0
                       /\ applied[f] + Cardinality({p \in commands : p.frame = f}) = given[f]
    BY DEF EachFrameOnce
  <2>1. FrameInv /\ Unread = {} /\ Unanswered = {}
    BY DEF ExchangeInv, Running, Unread, Unanswered
  <2>2. /\ given[f] = (IF f \in Seen THEN 1 ELSE 0) /\ applied[f] = IF f \in Done THEN 1 ELSE 0
        /\ f \in Sent <=> f < step
    BY <2>1 DEF FrameInv, Once, Sent
  <2>3. /\ Cardinality({p \in sensors : p.frame = f}) = IF f \in Held THEN 1 ELSE 0
        /\ Cardinality({p \in commands : p.frame = f}) = IF f \in Pending THEN 1 ELSE 0
    BY <2>1, FrameCount DEF FrameInv, Held, Pending
  <2>4. /\ f \in Seen <=> f \in Sent /\ f \notin Held
        /\ f \in Done <=> f \in Seen /\ f \notin Pending
        /\ f \in Held => f \in Sent
        /\ f \in Pending => f \in Seen
    BY <2>1 DEF Seen, Done, FrameInv
  <2>. QED
    BY <2>2, <2>3, <2>4
<1>2. Init => ExchangeInv
  BY ExchangeInit
<1>. QED
  BY <1>1, <1>2, ExchangeStep, RunInvariant, PTL DEF Spec

-----------------------------------------------------------------------------
(***************************************************************************)
(* What RunEnds rests on.  With fairness of the host and of the child      *)
(* process a run ends because of three facts: whenever the host waits      *)
(* there is something for it to receive or for the child process to        *)
(* answer, each step of the host leads further on in the run, and the run  *)
(* has an end.                                                             *)
(***************************************************************************)

\* Somebody has what the host waits for: the pipe to it, or the child process
\* that has yet to read what it was sent.
HostIsOwed == pc \in {"hello", "answer"} => toHost # <<>> \/ toPeer # <<>>

\* The host waits for no message that nobody will send: not for an answer after
\* a failed handshake, for a second one to a frame already answered, nor for one
\* to a frame that was not sent (ensure_handshake, exchange_sensor).
THEOREM NeverWaitsInVain == Spec => []HostIsOwed
<1>1. ExchangeInv => HostIsOwed
  <2>1. HelloPipes => toHost # <<>> \/ toPeer # <<>>
    BY DEF HelloPipes
  <2>2. AnswerPipes => toHost # <<>> \/ toPeer # <<>>
    BY DEF AnswerPipes
  <2>. QED
    BY <2>1, <2>2 DEF ExchangeInv, Running, PipeInv, HostIsOwed
<1>. QED
  BY <1>1, ExchangeInit, ExchangeStep, RunInvariant, PTL DEF Spec

\* How far a run is: the step it is in and the place in that step.
Place ==
  CASE pc = "send" -> 0 [] pc = "deliver" -> 1 [] pc = "hello" -> 2 [] pc = "answer" -> 3
    [] pc = "apply" -> 4 [] OTHER -> 5

Reached == 6 * step + Place

StepInv == step \in 0 .. Horizon

LEMMA StepInvStep == RunInv /\ StepInv /\ [Next]_vars => StepInv'
<1>. SUFFICES ASSUME RunInv, StepInv, [Next]_vars PROVE StepInv'
  OBVIOUS
<1>1. CASE Apply
  BY <1>1, TransportAssumption DEF Apply, RunInv, Running, Steps, StepInv
<1>2. CASE ~Apply
  <2>1. step' = step
    BY <1>2 DEF Next, Host, Peer, Send, NothingDue, Abort, StepLocal, BeginExchange, RecvHello,
       RecvAnswer, RecvClosed, PeerAnswers, PeerExits, vars
  <2>. QED
    BY <2>1, TransportAssumption DEF StepInv
<1>. QED
  BY <1>1, <1>2

\* Where a step of the host leads.
LEMMA HostLeads ==
  ASSUME Host
  PROVE  \/ /\ step' = step
            /\ <<pc, pc'>> \in {<<"send", "deliver">>, <<"send", "dark">>, <<"send", "failed">>,
                               <<"deliver", "apply">>, <<"deliver", "failed">>,
                               <<"deliver", "hello">>, <<"deliver", "answer">>,
                               <<"hello", "answer">>, <<"hello", "failed">>,
                               <<"answer", "apply">>, <<"answer", "failed">>}
         \/ /\ step' = step + 1 /\ pc = "apply" /\ pc' \in {"send", "done"}
<1>1. ASSUME NEW garbled \in BOOLEAN, Send(garbled)
      PROVE  step' = step /\ pc = "send" /\ pc' \in {"deliver", "dark", "failed"}
  BY <1>1 DEF Send
<1>2. CASE NothingDue \/ Abort \/ BeginExchange \/ (\E acts \in BOOLEAN : StepLocal(acts))
  BY <1>2 DEF NothingDue, Abort, BeginExchange, StepLocal
<1>3. CASE RecvHello \/ RecvAnswer \/ RecvClosed
  BY <1>3 DEF RecvHello, RecvAnswer, RecvClosed
<1>4. CASE Apply
  BY <1>4 DEF Apply
<1>. QED
  BY <1>1, <1>2, <1>3, <1>4 DEF Host

\* A run cannot go on for ever: what the host does leads it on, whatever the
\* child process does between leaves it where it is, and there are no more
\* places than those of the steps of the run (exchange in fc_bridge.rs).
THEOREM RunsOnlyAdvance ==
  Spec => /\ [][IF Host THEN Reached' > Reached ELSE Reached' = Reached]_vars
          /\ [](Reached <= 6 * Horizon + 5)
<1>1. RunInv /\ StepInv /\ [Next]_vars =>
        [IF Host THEN Reached' > Reached ELSE Reached' = Reached]_vars
  <2>. SUFFICES ASSUME RunInv, Next PROVE IF Host THEN Reached' > Reached ELSE Reached' = Reached
    BY DEF Reached, Place
  <2>1. step \in Nat
    BY DEF RunInv
  <2>2. CASE Host
    BY <2>1, <2>2, HostLeads DEF Reached, Place
  <2>3. CASE ~Host
    <3>1. step' = step /\ pc' = pc
      BY <2>3 DEF Next, Peer, PeerAnswers, PeerExits
    <3>. QED
      BY <2>3, <3>1 DEF Reached, Place
  <2>. QED
    BY <2>2, <2>3
<1>2. StepInv => Reached <= 6 * Horizon + 5
  <2>1. Place \in 0 .. 5
    BY DEF Place
  <2>. QED
    BY <2>1, TransportAssumption DEF StepInv, Reached
<1>3. Init => StepInv
  BY TransportAssumption DEF Init, StepInv
<1>. QED
  BY <1>1, <1>2, <1>3, StepInvStep, RunInvariant, PTL DEF Spec
=============================================================================
