----------------------------- MODULE PilEndpoint -----------------------------
(***************************************************************************)
(* The byte-stream endpoint of processor-in-the-loop runs (openbmp-pil):   *)
(* the polling loop on the target, its frame pump with two fixed buffers,  *)
(* and the host's frame stream (openbmp-runner, pil.rs).                   *)
(*                                                                         *)
(* The bytes from the host are one stream, so a buffer is a stretch of it: *)
(* Offset[n] is where frame n + 1 begins.  The pump's input buffer holds   *)
(* the bytes from Offset[stepped] up to "read"; those from "read" to       *)
(* Offset[sent] are still on the line.                                     *)
(***************************************************************************)
EXTENDS Naturals, Sequences

CONSTANTS
  Frames,      \* sensor frames of the session
  Offset,      \* end of each frame in the stream, prefix included
  Window,      \* frames the host sends before it reads an answer (step: one)
  Capacity,    \* INPUT_CAPACITY
  ReadSize,    \* length of read_storage
  MaxErrors    \* errors of the line and of the controller that pass

ASSUME EndpointAssumption ==
  /\ Frames \in Nat /\ Window \in Nat \ {0} /\ Capacity \in Nat
  /\ ReadSize \in Nat \ {0} /\ MaxErrors \in Nat
  /\ Offset \in [0 .. Frames -> Nat] /\ Offset[0] = 0
  /\ \A n \in 1 .. Frames : Offset[n - 1] < Offset[n]

\* The input buffer is sized for as many frames in a row as may be under way.
ASSUME CapacityAssumption ==
  \A m, n \in 0 .. Frames :
    m <= n /\ n <= m + Window => Offset[n] <= Offset[m] + Capacity

VARIABLES
  sent,        \* frames the host has written
  read,        \* bytes the target has read
  stepped,     \* frames the pump has consumed
  output,      \* the frame whose answer is pending in output_bytes, or 0
  toHost,      \* answers on their way to the host
  answered,    \* answers the host has accepted
  broken,      \* the host has refused an answer
  refused,     \* the pump has refused a chunk
  errors,
  doubt        \* a write was reported as failed, and its bytes went out

host   == <<sent, answered, broken>>
target == <<read, stepped, output, refused>>
vars   == <<host, target, toHost, errors, doubt>>

Init ==
  /\ sent = 0 /\ answered = 0 /\ broken = FALSE
  /\ read = 0 /\ stepped = 0 /\ output = 0 /\ refused = FALSE
  /\ toHost = <<>> /\ errors = 0 /\ doubt = FALSE

-----------------------------------------------------------------------------
\* Faulty variant: the host runs one frame ahead of what it may.
SendAhead ==
  /\ ~broken /\ sent < Frames /\ sent <= answered + Window
  /\ sent' = sent + 1
  /\ UNCHANGED <<answered, broken, target, toHost, errors, doubt>>

\* send_sensor: the whole frame, in one write_all.
Send ==
  /\ ~broken /\ sent < Frames /\ sent < answered + Window
  /\ sent' = sent + 1
  /\ UNCHANGED <<answered, broken, target, toHost, errors, doubt>>

\* recv_command and validate_command_for_sensor: the answer must carry the step
\* of the oldest frame that has none.
Recv ==
  /\ ~broken /\ answered < sent /\ toHost # <<>>
  /\ toHost' = Tail(toHost)
  /\ IF Head(toHost) = answered + 1
     THEN answered' = answered + 1 /\ UNCHANGED broken
     ELSE broken' = TRUE /\ UNCHANGED answered
  /\ UNCHANGED <<sent, target, errors, doubt>>

-----------------------------------------------------------------------------
(***************************************************************************)
(* poll_byte_stream_endpoint_once.                                         *)
(***************************************************************************)
Running == ~refused

\* read_bytes: part of what is on the line; nothing only when it is empty.
Chunks ==
  IF read = Offset[sent] THEN {0}
  ELSE {k \in 1 .. ReadSize : read + k <= Offset[sent]}

Fits(k) == read + k - Offset[stepped] <= Capacity

\* deframe on the buffer after k more bytes.
Complete(k) == stepped < Frames /\ Offset[stepped + 1] <= read + k

Fail == errors < MaxErrors /\ errors' = errors + 1

Written(frame) ==
  /\ toHost' = Append(toHost, frame) /\ output' = 0
  /\ UNCHANGED <<errors, doubt>>

\* The answer stays in output_bytes.  The sink may have taken it all the same.
WriteFailed(frame) ==
  /\ Fail
  /\ output' = frame
  /\ \/ UNCHANGED <<toHost, doubt>>
     \/ toHost' = Append(toHost, frame) /\ doubt' = TRUE

Write(frame) == Written(frame) \/ WriteFailed(frame)

\* A pending answer goes first, and nothing is read in this poll.
Flush ==
  /\ Running /\ output # 0
  /\ Write(output)
  /\ UNCHANGED <<host, read, stepped, refused>>

ReadFailed ==
  /\ Running /\ output = 0
  /\ Fail
  /\ UNCHANGED <<host, target, toHost, doubt>>

\* The poll ends without a step: ingest refuses a chunk that does not fit, whose
\* bytes have left the line, or the frame in the buffer is not complete.
NoStep ==
  /\ Running /\ output = 0
  /\ \E k \in Chunks :
       /\ Fits(k) => ~Complete(k)
       /\ read' = read + k
       /\ refused' = ~Fits(k)
  /\ UNCHANGED <<host, stepped, output, toHost, errors, doubt>>

\* Faulty variant: the frame is dropped with the error.
StepFailedDropped ==
  /\ Running /\ output = 0
  /\ \E k \in Chunks : Fits(k) /\ Complete(k) /\ read' = read + k
  /\ Fail
  /\ stepped' = stepped + 1
  /\ UNCHANGED <<host, output, refused, toHost, doubt>>

\* The controller's step or the encoding of its answer fails: the frame stays in
\* the buffer and the next poll steps the controller with it again.
StepFailed ==
  /\ Running /\ output = 0
  /\ \E k \in Chunks : Fits(k) /\ Complete(k) /\ read' = read + k
  /\ Fail
  /\ UNCHANGED <<host, stepped, output, refused, toHost, doubt>>

Step ==
  /\ Running /\ output = 0
  /\ \E k \in Chunks : Fits(k) /\ Complete(k) /\ read' = read + k
  /\ stepped' = stepped + 1
  /\ Write(stepped + 1)
  /\ UNCHANGED <<host, refused>>

Poll == Flush \/ ReadFailed \/ NoStep \/ StepFailed \/ Step

Next == Send \/ Recv \/ Poll

Spec == Init /\ [][Next]_vars

\* Both sides are loops that never stop by themselves.
FairSpec == Spec /\ WF_vars(Poll) /\ WF_vars(Recv)

-----------------------------------------------------------------------------
(***************************************************************************)
(* Properties.                                                             *)
(***************************************************************************)
TypeOK ==
  /\ sent \in 0 .. Frames /\ answered \in 0 .. Frames /\ broken \in BOOLEAN
  /\ read \in Nat /\ stepped \in 0 .. Frames /\ output \in 0 .. Frames
  /\ refused \in BOOLEAN /\ toHost \in Seq(1 .. Frames)
  /\ errors \in 0 .. MaxErrors /\ doubt \in BOOLEAN

\* No chunk is refused: whatever the chunks, the retries and the answers still
\* pending, the bytes in the pump and on the line belong to frames the host
\* awaits, and the buffer holds that many (ingest, InputOverflow).
NeverRefused == ~refused

Exchange == INSTANCE PilExchange

\* A frame whose step or whose answer failed is tried again until its answer is
\* out, no answer is skipped or swapped, and the host accepts none for another
\* frame; a session breaks only after a write of unknown outcome.
ImplementsExchange == Exchange!Spec
=============================================================================
