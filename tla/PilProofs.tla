------------------------------ MODULE PilProofs ------------------------------
(***************************************************************************)
(* Proofs about the PIL endpoint, for every session, window and buffer     *)
(* that holds the frames of a window.                                      *)
(*                                                                         *)
(* Inv orders the counters (the host has read no more answers than frames  *)
(* stepped, the target no more bytes than sent) and says what is on the    *)
(* way back: as long as no write is in doubt, exactly the answers between  *)
(* the host's count and the target's, in order.                            *)
(***************************************************************************)
EXTENDS PilEndpoint, SequenceTheorems, TLAPS

Transmitted == IF output = 0 THEN stepped ELSE stepped - 1

Counters ==
  /\ answered <= stepped /\ stepped <= sent /\ sent <= answered + Window
  /\ Offset[stepped] <= read /\ read <= Offset[sent]
  /\ output # 0 => output = stepped

Answers == \A i \in 1 .. Len(toHost) : toHost[i] <= stepped

InOrder ==
  ~doubt => /\ ~broken
            /\ Len(toHost) = Transmitted - answered
            /\ \A i \in 1 .. Len(toHost) : toHost[i] = answered + i

Inv == TypeOK /\ Counters /\ Answers /\ InOrder /\ NeverRefused

-----------------------------------------------------------------------------
LEMMA OffsetNat == ASSUME NEW n \in 0 .. Frames PROVE Offset[n] \in Nat
BY EndpointAssumption

\* A read takes bytes the host has sent.
LEMMA ChunkFacts ==
  ASSUME Inv, NEW k \in Chunks
  PROVE  k \in Nat /\ read + k <= Offset[sent] /\ read + k \in Nat
<1>1. Offset[sent] \in Nat /\ read \in Nat BY OffsetNat DEF Inv, TypeOK
<1>2. ReadSize \in Nat BY EndpointAssumption
<1>3. CASE read = Offset[sent] BY <1>1, <1>3 DEF Chunks
<1>4. CASE read # Offset[sent] BY <1>1, <1>2, <1>4 DEF Chunks
<1> QED BY <1>3, <1>4

\* The buffer has room for what a read may bring.
LEMMA AlwaysFits == ASSUME Inv, NEW k \in Chunks PROVE Fits(k)
<1>1. k \in Nat /\ read + k <= Offset[sent] BY ChunkFacts
<1>2. /\ sent \in 0 .. Frames /\ stepped \in 0 .. Frames /\ answered \in 0 .. Frames
      /\ read \in Nat
  BY DEF Inv, TypeOK
<1>3. answered <= stepped /\ stepped <= sent /\ sent <= answered + Window
      /\ Offset[stepped] <= read
  BY DEF Inv, Counters
<1>4. Window \in Nat /\ Capacity \in Nat /\ Frames \in Nat BY EndpointAssumption
<1>5. sent <= stepped + Window BY <1>2, <1>3, <1>4
<1>6. Offset[sent] <= Offset[stepped] + Capacity BY <1>2, <1>3, <1>5, CapacityAssumption
<1>7. Offset[sent] \in Nat /\ Offset[stepped] \in Nat BY <1>2, OffsetNat
<1> QED BY <1>1, <1>2, <1>3, <1>4, <1>6, <1>7 DEF Fits

\* A complete frame in the buffer is one the host has sent.
LEMMA CompleteIsSent ==
  ASSUME Inv, NEW k \in Chunks, Complete(k)
  PROVE  /\ stepped + 1 <= sent /\ stepped + 1 \in 1 .. Frames
         /\ Offset[stepped + 1] <= read + k
<1>1. k \in Nat /\ read + k <= Offset[sent] /\ read + k \in Nat BY ChunkFacts
<1>2. sent \in 0 .. Frames /\ stepped \in 0 .. Frames /\ stepped <= sent
  BY DEF Inv, TypeOK, Counters
<1>3. stepped < Frames /\ Offset[stepped + 1] <= read + k BY DEF Complete
<1>4. Frames \in Nat BY EndpointAssumption
<1>5. stepped + 1 \in 1 .. Frames BY <1>2, <1>3, <1>4
<1>6. Offset[stepped] < Offset[stepped + 1]
  <2>1. (stepped + 1) - 1 = stepped BY <1>2
  <2> QED BY <1>5, <2>1, EndpointAssumption
<1>7. stepped # sent
  <2>1. Offset[stepped] \in Nat /\ Offset[stepped + 1] \in Nat BY <1>2, <1>5, OffsetNat
  <2> QED BY <1>1, <1>3, <1>6, <2>1
<1> QED BY <1>2, <1>3, <1>5, <1>7

-----------------------------------------------------------------------------
LEMMA InitInv == Init => Inv
<1> SUFFICES ASSUME Init PROVE Inv OBVIOUS
<1>1. Frames \in Nat /\ MaxErrors \in Nat /\ Window \in Nat /\ Offset[0] = 0
  BY EndpointAssumption
<1>2. /\ sent = 0 /\ answered = 0 /\ broken = FALSE /\ read = 0 /\ stepped = 0
      /\ output = 0 /\ refused = FALSE /\ toHost = <<>> /\ errors = 0 /\ doubt = FALSE
  BY DEF Init
<1>3. TypeOK
  <2>1. toHost \in Seq(1 .. Frames) BY <1>2
  <2>2. /\ sent \in 0 .. Frames /\ answered \in 0 .. Frames /\ stepped \in 0 .. Frames
        /\ output \in 0 .. Frames /\ errors \in 0 .. MaxErrors /\ read \in Nat
    BY <1>1, <1>2
  <2> QED BY <1>2, <2>1, <2>2 DEF TypeOK
<1>4. Counters BY <1>1, <1>2 DEF Counters
<1>5. Len(toHost) = 0 BY <1>2
<1>6. Answers /\ InOrder BY <1>2, <1>5 DEF Answers, InOrder, Transmitted
<1> QED BY <1>2, <1>3, <1>4, <1>6 DEF Inv, NeverRefused

LEMMA SendInv == Inv /\ Send => Inv'
<1> SUFFICES ASSUME Inv, Send PROVE Inv' OBVIOUS
<1>1. /\ sent' = sent + 1 /\ sent < Frames /\ sent < answered + Window
      /\ UNCHANGED <<answered, broken, read, stepped, output, refused, toHost, errors, doubt>>
  BY DEF Send, target
<1>2. Frames \in Nat /\ Window \in Nat BY EndpointAssumption
<1>3. /\ sent \in 0 .. Frames /\ stepped \in 0 .. Frames /\ answered \in 0 .. Frames
      /\ read \in Nat
  BY DEF Inv, TypeOK
<1>4. sent' \in 0 .. Frames BY <1>1, <1>2, <1>3
<1>5. TypeOK' BY <1>1, <1>4 DEF Inv, TypeOK
<1>6. Counters'
  <2>1. answered' <= stepped' /\ stepped' <= sent' /\ sent' <= answered' + Window
    BY <1>1, <1>2, <1>3 DEF Inv, Counters
  <2>2. Offset[sent] < Offset[sent + 1]
    <3>1. sent + 1 \in 1 .. Frames /\ (sent + 1) - 1 = sent BY <1>1, <1>2, <1>3
    <3> QED BY <3>1, EndpointAssumption
  <2>3. Offset[sent] \in Nat /\ Offset[sent + 1] \in Nat BY <1>1, <1>3, <1>4, OffsetNat
  <2>4. read <= Offset[sent] BY DEF Inv, Counters
  <2>5. read' <= Offset[sent'] BY <1>1, <1>3, <2>2, <2>3, <2>4
  <2> QED BY <1>1, <2>1, <2>5 DEF Inv, Counters
<1> QED BY <1>1, <1>5, <1>6 DEF Inv, Answers, InOrder, Transmitted, NeverRefused

LEMMA RecvInv == Inv /\ Recv => Inv'
<1> SUFFICES ASSUME Inv, Recv PROVE Inv' OBVIOUS
<1>1. /\ answered < sent /\ toHost # <<>> /\ toHost' = Tail(toHost)
      /\ \/ Head(toHost) = answered + 1 /\ answered' = answered + 1 /\ broken' = broken
         \/ Head(toHost) # answered + 1 /\ broken' = TRUE /\ answered' = answered
      /\ UNCHANGED <<sent, read, stepped, output, refused, errors, doubt>>
  BY DEF Recv, target
<1>2. Frames \in Nat /\ Window \in Nat BY EndpointAssumption
<1>3. /\ sent \in 0 .. Frames /\ stepped \in 0 .. Frames /\ answered \in 0 .. Frames
      /\ toHost \in Seq(1 .. Frames) /\ output \in 0 .. Frames /\ broken \in BOOLEAN
  BY DEF Inv, TypeOK
<1>4. /\ toHost' \in Seq(1 .. Frames) /\ Len(toHost') = Len(toHost) - 1
      /\ Len(toHost) \in Nat \ {0} /\ Head(toHost) = toHost[1]
      /\ \A i \in 1 .. Len(toHost') : toHost'[i] = toHost[i + 1]
  BY <1>1, <1>3, HeadTailProperties
<1>5. Head(toHost) <= stepped BY <1>4 DEF Inv, Answers
<1>6. answered' \in 0 .. Frames /\ answered' <= stepped /\ answered <= answered'
  BY <1>1, <1>2, <1>3, <1>5 DEF Inv, Counters
<1>7. TypeOK' BY <1>1, <1>3, <1>4, <1>6 DEF Inv, TypeOK
<1>8. Counters'
  <2>1. sent \in Nat /\ answered \in Nat /\ answered' \in Nat /\ Window \in Nat
    BY <1>2, <1>3, <1>6
  <2>2. sent <= answered + Window BY DEF Inv, Counters
  <2>3. sent <= answered' + Window
    <3>1. answered <= answered' BY <1>6
    <3>2. \A s, a, b, w \in Nat : s <= a + w /\ a <= b => s <= b + w OBVIOUS
    <3> QED BY <2>1, <2>2, <3>1, <3>2
  <2> QED BY <1>1, <1>6, <2>3 DEF Inv, Counters
<1>9. \A i \in 1 .. Len(toHost') : i + 1 \in 1 .. Len(toHost) BY <1>4
<1>10. Answers' BY <1>1, <1>4, <1>9 DEF Inv, Answers
<1>11. InOrder'
  <2> SUFFICES ASSUME ~doubt
               PROVE  /\ ~broken'
                      /\ Len(toHost') = Transmitted - answered'
                      /\ \A i \in 1 .. Len(toHost') : toHost'[i] = answered' + i
    BY <1>1 DEF InOrder, Transmitted
  <2>1. /\ ~broken /\ Len(toHost) = Transmitted - answered
        /\ \A i \in 1 .. Len(toHost) : toHost[i] = answered + i
    BY DEF Inv, InOrder
  <2>2. Head(toHost) = answered + 1 BY <1>4, <2>1
  <2>3. answered' = answered + 1 /\ ~broken' BY <1>1, <2>1, <2>2
  <2>4. Transmitted \in Int BY <1>3 DEF Transmitted
  <2>5. Len(toHost') = Transmitted - answered' BY <1>3, <1>4, <2>1, <2>3, <2>4
  <2>6. \A i \in 1 .. Len(toHost') : toHost'[i] = answered + (i + 1) BY <1>4, <1>9, <2>1
  <2>7. \A i \in 1 .. Len(toHost') : answered + (i + 1) = answered' + i BY <1>3, <1>4, <2>3
  <2> QED BY <2>3, <2>5, <2>6, <2>7
<1> QED BY <1>1, <1>7, <1>8, <1>10, <1>11 DEF Inv, NeverRefused

-----------------------------------------------------------------------------
\* What a write leaves: the answer is out, or pending, or both and in doubt.
LEMMA WriteFacts ==
  ASSUME TypeOK, NEW frame \in 1 .. Frames, Write(frame)
  PROVE  /\ errors' \in 0 .. MaxErrors /\ doubt' \in BOOLEAN /\ output' \in {0, frame}
         /\ doubt => doubt'
         /\ \/ output' = 0 /\ toHost' = Append(toHost, frame)
            \/ output' = frame /\ toHost' = toHost
            \/ doubt' /\ toHost' = Append(toHost, frame)
<1>1. errors \in 0 .. MaxErrors /\ MaxErrors \in Nat /\ doubt \in BOOLEAN
  BY EndpointAssumption DEF TypeOK
<1>2. CASE Written(frame)
  <2>1. errors' = errors /\ doubt' = doubt /\ output' = 0 /\ toHost' = Append(toHost, frame)
    BY <1>2 DEF Written
  <2> QED BY <1>1, <2>1
<1>3. CASE WriteFailed(frame)
  <2>1. errors' \in 0 .. MaxErrors BY <1>1, <1>3 DEF WriteFailed, Fail
  <2>2. output' = frame /\ (UNCHANGED <<toHost, doubt>>
                              \/ (toHost' = Append(toHost, frame) /\ doubt' = TRUE))
    BY <1>3 DEF WriteFailed
  <2> QED BY <1>1, <2>1, <2>2
<1> QED BY <1>2, <1>3 DEF Write

\* A write of the oldest answer that is not out keeps the answers in order.
LEMMA WriteInv ==
  ASSUME Inv, NEW frame \in 1 .. Frames, Write(frame),
         UNCHANGED <<answered, broken>>,
         stepped' = frame, frame = Transmitted + 1, stepped <= frame, stepped' \in 0 .. Frames
  PROVE  toHost' \in Seq(1 .. Frames) /\ Answers' /\ InOrder'
<1>1. /\ \/ output' = 0 /\ toHost' = Append(toHost, frame)
         \/ output' = frame /\ toHost' = toHost
         \/ doubt' /\ toHost' = Append(toHost, frame)
      /\ doubt => doubt' /\ output' \in {0, frame}
  BY WriteFacts DEF Inv
<1>2. /\ toHost \in Seq(1 .. Frames) /\ frame \in Nat \ {0} /\ Transmitted \in Nat
      /\ answered \in 0 .. Frames /\ stepped \in 0 .. Frames /\ Frames \in Nat
  BY EndpointAssumption DEF Inv, TypeOK, Transmitted
<1>3. /\ Append(toHost, frame) \in Seq(1 .. Frames)
      /\ Len(Append(toHost, frame)) = Len(toHost) + 1
      /\ \A i \in 1 .. Len(toHost) : Append(toHost, frame)[i] = toHost[i]
      /\ Append(toHost, frame)[Len(toHost) + 1] = frame
      /\ Len(toHost) \in Nat
  BY <1>2, AppendProperties, LenProperties
<1>4. toHost' \in Seq(1 .. Frames) BY <1>1, <1>2, <1>3
<1>5. \A i \in 1 .. Len(toHost) : toHost[i] \in Nat /\ toHost[i] <= frame
  BY <1>2, ElementOfSeq DEF Inv, Answers
<1>6. Answers'
  <2>1. stepped' = frame /\ frame <= frame BY <1>2
  <2>2. CASE toHost' = toHost BY <1>5, <2>1, <2>2 DEF Answers
  <2>3. CASE toHost' = Append(toHost, frame)
    <3>1. \A i \in 1 .. Len(toHost) + 1 : i \in 1 .. Len(toHost) \/ i = Len(toHost) + 1
      BY <1>3
    <3>2. \A i \in 1 .. Len(toHost) + 1 : Append(toHost, frame)[i] <= frame
      BY <1>3, <1>5, <2>1, <3>1
    <3> QED BY <1>3, <2>1, <2>3, <3>2 DEF Answers
  <2> QED BY <1>1, <2>2, <2>3
<1>7. InOrder'
  <2> SUFFICES ASSUME ~doubt'
               PROVE  /\ ~broken'
                      /\ Len(toHost') = Transmitted' - answered'
                      /\ \A i \in 1 .. Len(toHost') : toHost'[i] = answered' + i
    BY DEF InOrder
  <2>1. /\ ~broken /\ Len(toHost) = Transmitted - answered
        /\ \A i \in 1 .. Len(toHost) : toHost[i] = answered + i
    BY <1>1 DEF Inv, InOrder
  <2>2. CASE output' = 0 /\ toHost' = Append(toHost, frame)
    <3>1. Transmitted' = frame BY <2>2 DEF Transmitted
    <3>2. Len(toHost) + 1 = frame - answered BY <1>2, <2>1
    <3>3. frame = answered + (Len(toHost) + 1) BY <1>2, <1>3, <3>2
    <3>4. \A i \in 1 .. Len(toHost) + 1 : Append(toHost, frame)[i] = answered + i
      BY <1>3, <2>1, <3>3
    <3> QED BY <1>3, <2>1, <2>2, <3>1, <3>2, <3>4
  <2>3. CASE output' = frame /\ toHost' = toHost
    <3>1. Transmitted' = frame - 1 BY <1>2, <2>3 DEF Transmitted
    <3> QED BY <1>2, <2>1, <2>3, <3>1
  <2> QED BY <1>1, <2>2, <2>3
<1> QED BY <1>4, <1>6, <1>7

LEMMA FlushInv == Inv /\ Flush => Inv'
<1> SUFFICES ASSUME Inv, Flush PROVE Inv' OBVIOUS
<1>1. /\ output # 0 /\ Write(output)
      /\ UNCHANGED <<sent, answered, broken, read, stepped, refused>>
  BY DEF Flush, host
<1>2. output = stepped /\ output \in 0 .. Frames /\ stepped \in 0 .. Frames
  BY <1>1 DEF Inv, TypeOK, Counters
<1>3. output \in 1 .. Frames /\ Frames \in Nat BY <1>1, <1>2, EndpointAssumption
<1>4. output = Transmitted + 1 BY <1>1, <1>2 DEF Transmitted
<1>5. toHost' \in Seq(1 .. Frames) /\ Answers' /\ InOrder'
  <2>1. stepped' = output /\ stepped <= output BY <1>1, <1>2
  <2> QED BY <1>1, <1>2, <1>3, <1>4, <2>1, WriteInv
<1>6. errors' \in 0 .. MaxErrors /\ doubt' \in BOOLEAN /\ output' \in {0, output}
  BY <1>1, <1>3, WriteFacts DEF Inv
<1>7. TypeOK' BY <1>1, <1>2, <1>3, <1>5, <1>6 DEF Inv, TypeOK
<1>8. Counters' BY <1>1, <1>2, <1>6 DEF Inv, Counters
<1> QED BY <1>1, <1>5, <1>7, <1>8 DEF Inv, NeverRefused

LEMMA StepInv == Inv /\ Step => Inv'
<1> SUFFICES ASSUME Inv, Step PROVE Inv' OBVIOUS
<1>1. PICK k \in Chunks : Complete(k) /\ read' = read + k BY DEF Step
<1>2. /\ output = 0 /\ stepped' = stepped + 1 /\ Write(stepped + 1)
      /\ UNCHANGED <<sent, answered, broken, refused>>
  BY DEF Step, host
<1>3. /\ stepped + 1 <= sent /\ stepped + 1 \in 1 .. Frames
      /\ Offset[stepped + 1] <= read + k
  BY <1>1, CompleteIsSent
<1>4. read + k <= Offset[sent] /\ read + k \in Nat BY ChunkFacts
<1>5. stepped \in 0 .. Frames /\ answered \in 0 .. Frames /\ Frames \in Nat
  BY EndpointAssumption DEF Inv, TypeOK
<1>6. stepped' \in 0 .. Frames BY <1>2, <1>3
<1>7. toHost' \in Seq(1 .. Frames) /\ Answers' /\ InOrder'
  <2>1. stepped + 1 = Transmitted + 1 BY <1>2 DEF Transmitted
  <2>2. stepped <= stepped + 1 BY <1>5
  <2> QED BY <1>2, <1>3, <1>6, <2>1, <2>2, WriteInv
<1>8. errors' \in 0 .. MaxErrors /\ doubt' \in BOOLEAN /\ output' \in {0, stepped + 1}
  BY <1>2, <1>3, WriteFacts DEF Inv
<1>9. output' \in 0 .. Frames BY <1>3, <1>5, <1>8
<1>10. TypeOK' BY <1>1, <1>2, <1>4, <1>6, <1>7, <1>8, <1>9 DEF Inv, TypeOK
<1>11. Counters'
  <2>1. answered <= stepped + 1 BY <1>5 DEF Inv, Counters
  <2> QED BY <1>1, <1>2, <1>3, <1>4, <1>8, <2>1 DEF Inv, Counters
<1> QED BY <1>2, <1>7, <1>10, <1>11 DEF Inv, NeverRefused

\* Reading bytes and counting an error are the only other effects of a poll.
LEMMA QuietInv ==
  ASSUME Inv, read' \in Nat, Offset[stepped] <= read', read' <= Offset[sent],
         errors' \in 0 .. MaxErrors, refused' = FALSE,
         UNCHANGED <<sent, answered, broken, stepped, output, toHost, doubt>>
  PROVE  Inv'
<1>1. TypeOK' BY DEF Inv, TypeOK
<1>2. Counters' BY DEF Inv, Counters
<1>3. Answers' /\ InOrder' BY DEF Inv, Answers, InOrder, Transmitted
<1> QED BY <1>1, <1>2, <1>3 DEF Inv, NeverRefused

\* The buffer only grows by a read.
LEMMA ReadKeeps ==
  ASSUME Inv, NEW k \in Chunks
  PROVE  /\ read + k \in Nat /\ Offset[stepped] <= read + k /\ read + k <= Offset[sent]
<1>1. k \in Nat /\ read + k <= Offset[sent] /\ read + k \in Nat BY ChunkFacts
<1>2. stepped \in 0 .. Frames /\ read \in Nat /\ Offset[stepped] <= read
  BY DEF Inv, TypeOK, Counters
<1>3. Offset[stepped] \in Nat BY <1>2, OffsetNat
<1> QED BY <1>1, <1>2, <1>3

LEMMA ErrorCounted == ASSUME Inv, Fail PROVE errors' \in 0 .. MaxErrors
BY EndpointAssumption DEF Inv, TypeOK, Fail

LEMMA QuietPollInv == Inv /\ (ReadFailed \/ NoStep \/ StepFailed) => Inv'
<1> SUFFICES ASSUME Inv PROVE (ReadFailed \/ NoStep \/ StepFailed) => Inv' OBVIOUS
<1>1. read \in Nat /\ Offset[stepped] <= read /\ read <= Offset[sent] /\ refused = FALSE
      /\ errors \in 0 .. MaxErrors
  BY DEF Inv, TypeOK, Counters, NeverRefused
<1>2. ASSUME ReadFailed PROVE Inv'
  <2>1. Fail /\ UNCHANGED <<host, target, toHost, doubt>> BY <1>2 DEF ReadFailed
  <2> QED BY <1>1, <2>1, ErrorCounted, QuietInv DEF host, target
<1>3. ASSUME NoStep PROVE Inv'
  <2>1. PICK k \in Chunks : read' = read + k /\ refused' = ~Fits(k)
    BY <1>3 DEF NoStep
  <2>2. refused' = FALSE BY <2>1, AlwaysFits
  <2>3. UNCHANGED <<sent, answered, broken, stepped, output, toHost, errors, doubt>>
    BY <1>3 DEF NoStep, host
  <2>4. read' \in Nat /\ Offset[stepped] <= read' /\ read' <= Offset[sent]
    BY <2>1, ReadKeeps
  <2> QED BY <1>1, <2>2, <2>3, <2>4, QuietInv
<1>4. ASSUME StepFailed PROVE Inv'
  <2>1. PICK k \in Chunks : read' = read + k BY <1>4 DEF StepFailed
  <2>2. Fail /\ UNCHANGED <<sent, answered, broken, stepped, output, refused, toHost, doubt>>
    BY <1>4 DEF StepFailed, host
  <2>3. read' \in Nat /\ Offset[stepped] <= read' /\ read' <= Offset[sent]
    BY <2>1, ReadKeeps
  <2> QED BY <1>1, <2>2, <2>3, ErrorCounted, QuietInv
<1> QED BY <1>2, <1>3, <1>4

LEMMA NextInv == Inv /\ [Next]_vars => Inv'
<1> SUFFICES ASSUME Inv, [Next]_vars PROVE Inv' OBVIOUS
<1>1. CASE UNCHANGED vars
  <2>1. UNCHANGED <<sent, answered, broken, read, stepped, output, refused,
                    toHost, errors, doubt>>
    BY <1>1 DEF vars, host, target
  <2> QED BY <2>1 DEF Inv, TypeOK, Counters, Answers, InOrder, Transmitted, NeverRefused
<1>2. CASE Send BY <1>2, SendInv
<1>3. CASE Recv BY <1>3, RecvInv
<1>4. CASE Poll BY <1>4, FlushInv, StepInv, QuietPollInv DEF Poll
<1> QED BY <1>1, <1>2, <1>3, <1>4 DEF Next

THEOREM InvHolds == Spec => []Inv
<1> QED BY InitInv, NextInv, PTL DEF Spec

\* The pump never refuses a chunk (PilFramePump::ingest) when its buffer holds
\* the frames a host may have under way.
THEOREM BufferSuffices == Spec => []NeverRefused
<1>1. Inv => NeverRefused BY DEF Inv
<1> QED BY <1>1, InvHolds, PTL

-----------------------------------------------------------------------------
LEMMA RecvImplements == Inv /\ Recv => Exchange!Answer \/ Exchange!Break
<1> SUFFICES ASSUME Inv, Recv PROVE Exchange!Answer \/ Exchange!Break OBVIOUS
<1>1. ~broken /\ answered < sent /\ toHost # <<>> /\ UNCHANGED <<sent, doubt>>
  BY DEF Recv
<1>2. CASE Head(toHost) = answered + 1
  BY <1>1, <1>2 DEF Recv, Exchange!Answer
<1>3. CASE Head(toHost) # answered + 1
  <2>1. doubt
    <3>1. toHost \in Seq(1 .. Frames) /\ doubt \in BOOLEAN BY DEF Inv, TypeOK
    <3>2. Len(toHost) \in Nat \ {0} /\ Head(toHost) = toHost[1]
      BY <1>1, <3>1, HeadTailProperties
    <3>3. 1 \in 1 .. Len(toHost) BY <3>2
    <3> QED BY <1>3, <3>2, <3>3 DEF Inv, InOrder
  <2>2. broken' = TRUE /\ UNCHANGED answered BY <1>3 DEF Recv
  <2> QED BY <1>1, <2>1, <2>2 DEF Exchange!Break
<1> QED BY <1>2, <1>3

LEMMA PollImplements ==
  Inv /\ Poll => Exchange!Doubt \/ UNCHANGED Exchange!vars
<1> SUFFICES ASSUME Inv, Poll PROVE Exchange!Doubt \/ UNCHANGED Exchange!vars OBVIOUS
<1>1. UNCHANGED <<sent, answered, broken>>
  BY DEF Poll, Flush, ReadFailed, NoStep, StepFailed, Step, host
<1>2. doubt' = TRUE \/ doubt' = doubt
  <2>1. ASSUME NEW frame, Write(frame) PROVE doubt' = TRUE \/ doubt' = doubt
    BY <2>1 DEF Write, Written, WriteFailed
  <2>2. CASE Flush BY <2>1, <2>2 DEF Flush
  <2>3. CASE Step BY <2>1, <2>3 DEF Step
  <2>4. CASE ReadFailed \/ NoStep \/ StepFailed
    BY <2>4 DEF ReadFailed, NoStep, StepFailed
  <2> QED BY <2>2, <2>3, <2>4 DEF Poll
<1> QED BY <1>1, <1>2 DEF Exchange!Doubt, Exchange!vars

\* Every step of the endpoint and the host is one of the exchange they promise:
\* answers in order, each once, and no break without a write in doubt.
THEOREM AnswersInOrder == Spec => Exchange!Safety
<1>1. Init => Exchange!Init BY DEF Init, Exchange!Init
<1>2. Inv /\ [Next]_vars => [Exchange!Next]_Exchange!vars
  <2> SUFFICES ASSUME Inv, [Next]_vars PROVE [Exchange!Next]_Exchange!vars OBVIOUS
  <2>1. CASE UNCHANGED vars BY <2>1 DEF vars, host, Exchange!vars
  <2>2. CASE Send BY <2>2 DEF Send, Exchange!Send, Exchange!Next
  <2>3. CASE Recv BY <2>3, RecvImplements DEF Exchange!Next
  <2>4. CASE Poll BY <2>4, PollImplements DEF Exchange!Next
  <2> QED BY <2>1, <2>2, <2>3, <2>4 DEF Next
<1> QED BY <1>1, <1>2, InvHolds, PTL DEF Spec, Exchange!Safety
=============================================================================
