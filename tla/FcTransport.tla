---------------------------- MODULE FcTransport -----------------------------
(***************************************************************************)
(* A run whose flight controller is reached over a transport and a radio   *)
(* link (openbmp-runner, fc_bridge.rs).  In every step the host sends one  *)
(* sensor frame, hands at most one frame that has arrived to the           *)
(* controller, waits for its answer, and applies at most one command that  *)
(* has arrived.  Frames and commands wait in two queues, keyed by the step *)
(* they arrive at.  Whatever goes wrong ends the run.                      *)
(*                                                                         *)
(* The controller is in the same process, where the exchange is a call, or *)
(* in a child process that may answer twice, with another step, with a     *)
(* fault, or exit.                                                         *)
(***************************************************************************)
EXTENDS LinkSelection, Sequences, FiniteSets

CONSTANTS
  PassPlan,    \* link of the pass plan at the time of each step, or NoLink
  MaxDelay,    \* longest latency, in whole steps
  Horizon,     \* steps of the run
  NoObs        \* before the first observation

Steps == 0 .. Horizon - 1

ASSUME TransportAssumption ==
  /\ PassPlan \in [Steps -> Links \cup {NoLink}]
  /\ MaxDelay \in Nat /\ Horizon \in Nat \ {0}
  /\ \A s \in Samples : s.delay <= MaxDelay

VARIABLES
  mode,        \* bridge_link_selection, "none" without a radio link
  peer,        \* FcControllerPeer
  step,        \* the kernel's step
  pc,          \* where the host is in it
  obs,         \* latest_observation
  active,      \* active_bridge_link_id
  delay,       \* latency of comm_link_effects
  sensors, commands,  \* CommLinkFrameQueues
  current,     \* the sensor frame being exchanged
  handshaken,
  toPeer, toHost,     \* the pipes of the child process
  exited,      \* the child process has ended
  unread       \* MissionActionBatches published since the last read

\* History, read by properties only.
VARIABLES
  tick,        \* last tick of the in-process controller
  given,       \* times each frame reached the controller
  applied      \* times each frame's command was applied

config  == <<mode, peer>>
link    == <<obs, active, delay>>
queues  == <<sensors, commands>>
pipes   == <<toPeer, toHost, exited>>
history == <<tick, given, applied>>
vars    == <<config, step, pc, link, queues, current, handshaken, pipes, unread, history>>

Init ==
  /\ mode \in Modes /\ peer \in {"local", "external"}
  /\ step = 0 /\ pc = "send"
  /\ obs = NoObs /\ active = NoLink /\ delay = 0
  /\ sensors = {} /\ commands = {} /\ current = 0
  /\ handshaken = FALSE /\ toPeer = <<>> /\ toHost = <<>> /\ exited = FALSE
  /\ unread = 0 /\ tick = 0
  /\ given = [f \in Steps |-> 0] /\ applied = [f \in Steps |-> 0]

-----------------------------------------------------------------------------
Packet(frame, sent, latency) ==
  [frame |-> frame, sent |-> sent, arrival |-> sent + latency]

\* Packets that arrive at the same step keep the order they were sent in.
Before(p, q) == p.arrival < q.arrival \/ (p.arrival = q.arrival /\ p.sent < q.sent)

\* Faulty variant: of the packets that have arrived the last comes first.
DueNewest(queue) ==
  {p \in queue : p.arrival <= step
                   /\ \A q \in queue \ {p} : q.arrival <= step => Before(q, p)}

\* What pop_due_packet returns: the first packet, once it has arrived.
Due(queue) == {p \in queue : p.arrival <= step /\ \A q \in queue \ {p} : Before(p, q)}

-----------------------------------------------------------------------------
\* bridge_packet_effects on the observation of the step before, and
\* enqueue_sensor_for_comm_delivery.  The first step has no observation, and
\* then neither loss nor latency.  garbled: the error draw hits the frame.
Send(garbled) ==
  /\ pc = "send"
  /\ IF obs = NoObs
     THEN /\ ~garbled
          /\ delay' = 0
          /\ sensors' = sensors \cup {Packet(step, step, 0)}
          /\ pc' = "deliver"
          /\ UNCHANGED active
     ELSE LET planned == PassPlan[step - 1]
              chosen  == Selected(mode, obs, planned, active)
          IN  /\ active' = ActiveAfter(mode, obs, planned, active)
              /\ IF Carried(obs, chosen) /\ ~garbled
                 THEN /\ delay' = obs[chosen].delay
                      /\ sensors' = sensors \cup {Packet(step, step, obs[chosen].delay)}
                      /\ pc' = "deliver"
                 ELSE /\ UNCHANGED <<delay, sensors>>
                      /\ pc' = IF garbled THEN "failed" ELSE "dark"
  /\ UNCHANGED <<config, step, obs, commands, current, handshaken, pipes, unread, history>>

NothingDue ==
  /\ pc = "deliver" /\ Due(sensors) = {}
  /\ pc' = "apply"
  /\ UNCHANGED <<config, step, link, queues, current, handshaken, pipes, unread, history>>

\* Everything that ends the run on the way of a frame that has arrived: a fault
\* rule that drops, duplicates, delays, corrupts or renumbers it or its command,
\* another protocol version in the handshake, an error of the transport or of
\* the controller, the error draw of the command.
Abort ==
  /\ pc = "deliver" /\ Due(sensors) # {}
  /\ pc' = "failed"
  /\ UNCHANGED <<config, step, link, queues, current, handshaken, pipes, unread, history>>

\* enqueue_command_for_comm_delivery: sent in this step, with its latency.
Accept(frame) == commands' = commands \cup {Packet(frame, step, delay)}

\* The in-process controller: one call, which may publish mission actions.
StepLocal(acts) ==
  /\ pc = "deliver" /\ peer = "local"
  /\ \E p \in Due(sensors) :
       /\ sensors' = sensors \ {p}
       /\ current' = p.frame
       /\ tick' = p.frame
       /\ given' = [given EXCEPT ![p.frame] = @ + 1]
       /\ Accept(p.frame)
  /\ unread' = IF acts THEN unread + 1 ELSE unread
  /\ pc' = "apply"
  /\ handshaken' = TRUE
  /\ UNCHANGED <<config, step, link, pipes, applied>>

-----------------------------------------------------------------------------
(***************************************************************************)
(* The child process.                                                      *)
(***************************************************************************)
Hello              == [kind |-> "hello"]
Sensor(frame)      == [kind |-> "sensor", step |-> frame]
Answer(kind, frame) == [kind |-> kind, step |-> frame]
Other              == [kind |-> "fault"]

BeginExchange ==
  /\ pc = "deliver" /\ peer = "external"
  /\ \E p \in Due(sensors) :
       /\ sensors' = sensors \ {p}
       /\ current' = p.frame
       /\ toPeer' = Append(toPeer, IF handshaken THEN Sensor(p.frame) ELSE Hello)
  /\ pc' = IF handshaken THEN "answer" ELSE "hello"
  /\ UNCHANGED <<config, step, link, commands, handshaken, toHost, exited, unread, history>>

\* The end of ensure_handshake, and the frame itself.
RecvHello ==
  /\ pc = "hello" /\ toHost # <<>>
  /\ toHost' = Tail(toHost)
  /\ IF Head(toHost) = Hello
     THEN /\ handshaken' = TRUE
          /\ toPeer' = Append(toPeer, Sensor(current))
          /\ pc' = "answer"
     ELSE /\ UNCHANGED <<handshaken, toPeer>>
          /\ pc' = "failed"
  /\ UNCHANGED <<config, step, link, queues, current, exited, unread, history>>

\* Faulty variant: an answer to any frame will do.
AnswersAny(m) == m.kind \in {"command", "ack"}

\* validate_command_for_sensor and validate_ack_for_sensor.
AnswersCurrent(m) == m.kind \in {"command", "ack"} /\ m.step = current

\* Faulty variant: the host skips acknowledgements and reads on.
RecvCommandOnly ==
  /\ pc = "answer" /\ toHost # <<>>
  /\ toHost' = Tail(toHost)
  /\ IF Head(toHost).kind = "ack" THEN UNCHANGED <<commands, pc>>
     ELSE IF AnswersCurrent(Head(toHost)) THEN Accept(Head(toHost).step) /\ pc' = "apply"
     ELSE UNCHANGED commands /\ pc' = "failed"
  /\ UNCHANGED <<config, step, link, sensors, current, handshaken, toPeer, exited, unread,
                 history>>

\* An acknowledgement counts as a command that names no effector and no engine.
RecvAnswer ==
  /\ pc = "answer" /\ toHost # <<>>
  /\ toHost' = Tail(toHost)
  /\ IF AnswersCurrent(Head(toHost))
     THEN Accept(Head(toHost).step) /\ pc' = "apply"
     ELSE UNCHANGED commands /\ pc' = "failed"
  /\ UNCHANGED <<config, step, link, sensors, current, handshaken, toPeer, exited, unread,
                 history>>

RecvClosed ==
  /\ pc \in {"hello", "answer"} /\ toHost = <<>> /\ exited
  /\ pc' = "failed"
  /\ UNCHANGED <<config, step, link, queues, current, handshaken, pipes, unread, history>>

Replies(m) ==
  IF m = Hello THEN {<<Hello>>, <<Other>>}
  ELSE {<<Answer("command", m.step)>>, <<Answer("ack", m.step)>>, <<Other>>,
        <<Answer("command", m.step), Answer("command", m.step)>>,
        <<Answer("command", m.step + 1)>>}

PeerAnswers ==
  /\ ~exited /\ toPeer # <<>>
  /\ toPeer' = Tail(toPeer)
  /\ \E reply \in Replies(Head(toPeer)) : toHost' = toHost \o reply
  /\ given' = IF Head(toPeer) = Hello THEN given
              ELSE [given EXCEPT ![Head(toPeer).step] = @ + 1]
  /\ UNCHANGED <<config, step, pc, link, queues, current, handshaken, exited, unread, tick,
                 applied>>

PeerExits ==
  /\ peer = "external" /\ ~exited
  /\ exited' = TRUE
  /\ UNCHANGED <<config, step, pc, link, queues, current, handshaken, toPeer, toHost, unread,
                 history>>

-----------------------------------------------------------------------------
\* Faulty variant: mission actions are read with a command only.
ApplyReadingLate ==
  /\ pc = "apply"
  /\ commands' = commands \ Due(commands)
  /\ applied' = [f \in Steps |->
                   applied[f] + Cardinality({p \in Due(commands) : p.frame = f})]
  /\ unread' = IF Due(commands) = {} THEN unread ELSE 0
  /\ IF mode = "none" THEN UNCHANGED obs ELSE obs' \in [Links -> Samples]
  /\ step' = step + 1
  /\ pc' = IF step + 1 = Horizon THEN "done" ELSE "send"
  /\ UNCHANGED <<config, active, delay, sensors, current, handshaken, pipes, tick, given>>

\* The rest of the step: the command that is due, drain_mission_actions, and
\* the observation at the end of the kernel's step.
Apply ==
  /\ pc = "apply"
  /\ commands' = commands \ Due(commands)
  /\ applied' = [f \in Steps |->
                   applied[f] + Cardinality({p \in Due(commands) : p.frame = f})]
  /\ unread' = 0
  /\ IF mode = "none" THEN UNCHANGED obs ELSE obs' \in [Links -> Samples]
  /\ step' = step + 1
  /\ pc' = IF step + 1 = Horizon THEN "done" ELSE "send"
  /\ UNCHANGED <<config, active, delay, sensors, current, handshaken, pipes, tick, given>>

Peer == PeerAnswers \/ PeerExits

Host ==
  \/ \E garbled \in BOOLEAN : Send(garbled)
  \/ NothingDue \/ Abort
  \/ \E acts \in BOOLEAN : StepLocal(acts)
  \/ BeginExchange \/ RecvHello \/ RecvAnswer \/ RecvClosed
  \/ Apply

Next == Host \/ Peer

Spec == Init /\ [][Next]_vars

\* The host is one thread that only ever waits for the child process, without a
\* timeout; a child process that neither answers nor exits is not ruled out by
\* the code, and is assumed away here.
FairSpec == Spec /\ WF_vars(Host) /\ WF_vars(PeerAnswers)

-----------------------------------------------------------------------------
(***************************************************************************)
(* Properties.                                                             *)
(***************************************************************************)
Ended == pc \in {"done", "failed", "dark"}

\* Each frame the host sent is still queued or reached the controller once,
\* and each frame the controller saw has one command, queued or applied once.
EachFrameOnce ==
  pc = "send" =>
    \A f \in Steps :
      /\ given[f] + Cardinality({p \in sensors : p.frame = f}) = IF f < step THEN 1 ELSE 0
      /\ applied[f] + Cardinality({p \in commands : p.frame = f}) = given[f]

\* Only one frame per step leaves a queue, but whatever the latency does no
\* packet waits longer than twice the longest latency.
WaitBounded ==
  pc = "send" => \A p \in sensors \cup commands : step <= p.sent + 2 * MaxDelay

\* Mission actions are read from the latest batch only, and none is overwritten
\* before it was read: between two reads the controller runs at most once.
NoBatchLost == unread <= 1

\* With the best-margin selection a frame is dropped for want of a link only
\* when no declared link is usable; otherwise the link that carries it is
\* within the hysteresis of every usable one.
BestLinkCarries ==
  mode = "best" /\ obs # NoObs =>
    /\ pc = "dark" => Usable(obs) = {}
    /\ pc = "deliver" => /\ active \in Usable(obs)
                         /\ \A l \in Usable(obs) :
                              obs[l].margin <= obs[active].margin + Hysteresis

\* The host is never left waiting for a message nobody will send: every run
\* ends, whatever the child process answers.
RunEnds == <>Ended

(***************************************************************************)
(* What comments of the repository say.                                    *)
(***************************************************************************)

\* The controller's tick is monotonic.
TickMonotonic == [][tick' >= tick]_tick
=============================================================================
