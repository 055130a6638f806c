----------------------------- MODULE PumpProofs -----------------------------
(***************************************************************************)
(* Proofs about the relay of module Pump, for every frame cap, pending cap *)
(* and number of frames.                                                   *)
(*                                                                         *)
(* PumpTypeCorrect rests on TypeOK alone, which is inductive.  The relay   *)
(* ends in one way, End, so a lemma on End (EndType, AbortType) settles    *)
(* every action that decides the relay.  PumpLossless strengthens Lossless *)
(* with PipeShape; the arithmetic of sequences is in the lemmas below.     *)
(* PumpAbandonsNobody strengthens NoPeerAbandoned with TellShape.          *)
(* PumpLogLeadsWire follows the frame in hand with Recorded,               *)
(* PumpBoundedRetention the queued bytes with Retained and the lemmas on   *)
(* Total, and PumpImplementsContract sorts the steps of a relay into those *)
(* of RelayContract and stutters (StepContract).                           *)
(***************************************************************************)
EXTENDS Pump, SequenceTheorems, WellFoundedInduction, TLAPS

-----------------------------------------------------------------------------
(* Sequences.                                                              *)

\* A frame just read is the frame the task holds, when nothing else is held: how
\* the connected loop of src/relay/pump.rs takes a frame.
LEMMA AppendIsHeld ==
    ASSUME NEW S, NEW a \in Seq(S), NEW e \in S
    PROVE  Append(a, e) = a \o (<<e>> \o <<>>)
OBVIOUS

\* A frame the sink accepts moves from what is held to what was delivered: what
\* bounded_send does to the direction it serves.
LEMMA FrontMovesOver ==
    ASSUME NEW S, NEW a \in Seq(S), NEW b \in Seq(S), NEW e \in S
    PROVE  a \o (<<e>> \o b) = Append(a, e) \o (<<>> \o b)
OBVIOUS

\* A pending send is exactly one frame: bounded_send is called with one message.
LEMMA OneElement ==
    ASSUME NEW S, NEW s \in Seq(S), s # <<>>, Len(s) <= 1
    PROVE  Head(s) \in S /\ s = <<Head(s)>>
<1>1. Len(s) = 1
  <2>1. Len(s) \in Nat \ {0}
    BY EmptySeq, Zenon
  <2> QED
    BY <2>1
<1>2. Head(s) = s[1] /\ s[1] \in S
  BY <1>1, ElementOfSeq, HeadTailProperties
<1>3. <<s[1]>> \in Seq(S) /\ Len(<<s[1]>>) = 1 /\ <<s[1]>>[1] = s[1]
  BY <1>2
<1>4. s = <<s[1]>>
  BY <1>1, <1>3, SeqEqual
<1> QED
  BY <1>2, <1>4

\* Popping the front of the queue and sending it next keeps the order: the
\* pop_front loop of the flush.
LEMMA HeadJoinsTail ==
    ASSUME NEW S, NEW q \in Seq(S), q # <<>>
    PROVE  q = <<Head(q)>> \o Tail(q)
OBVIOUS


HealthSet == {"absent", "ok", "stalled", "broken", "faulty", "closed"}
IdleSet == {"disabled", "unarmed", "running", "expired"}

-----------------------------------------------------------------------------
(* Types.                                                                  *)

\* Every way the pump ends leaves a well-typed state, provided the outcome and
\* the Close it carries are: the return paths of run_private_with and
\* run_connected_from_deadline.
LEMMA EndType ==
    ASSUME TypeOK,
           NEW result \in Outcome, NEW told \in SUBSET Legs,
           NEW bye, bye \in CloseFrame \/ (bye = NoFrame /\ told = {}),
           End(result, told, bye),
           health' \in [Legs -> HealthSet], idle' \in IdleSet,
           UNCHANGED <<read, logged>>
    PROVE  TypeOK'
<1>1. phase' \in {"closing", "done"}
  BY DEF End
<1>2. telling' \in [Legs -> {"none", "sending", "told"}]
  BY DEF End
<1>3. farewell' \in CloseFrame \cup {NoFrame}
  BY DEF End
<1>4. \A l \in Legs : telling'[l] = "sending" => farewell' \in CloseFrame
  BY DEF End
<1> QED
  BY <1>1, <1>2, <1>3, <1>4 DEF TypeOK, End, HealthSet, IdleSet

AbortReasons == PolicyReasons \cup InternalReasons \cup {"idle timeout"}

IsAbort(code, reason) ==
    \/ code = CodePolicy /\ reason \in PolicyReasons
    \/ code = CodeInternal /\ reason \in InternalReasons
    \/ code = CodeGoingAway /\ reason = "idle timeout"

\* The close codes the pump writes are numbers (CODE_* and CloseParts in
\* src/relay/pump.rs and src/relay/ws_convert.rs).
LEMMA CodesAreNumbers ==
    CodeNormal \in Nat /\ CodeGoingAway \in Nat /\ CodePolicy \in Nat /\ CodeInternal \in Nat
BY DEF CodeNormal, CodeGoingAway, CodePolicy, CodeInternal

\* An abort with one of the pump's own codes and reasons leaves a well-typed
\* state: abort_both, and the aborts that tell one leg.
LEMMA AbortType ==
    ASSUME TypeOK,
           NEW told \in SUBSET Legs, NEW code, NEW reason,
           IsAbort(code, reason),
           Abort(told, code, reason),
           health' \in [Legs -> HealthSet], idle' \in IdleSet,
           UNCHANGED <<read, logged>>
    PROVE  TypeOK'
<1>1. code \in Nat
  BY CodesAreNumbers, Zenon DEF IsAbort
<1>2. reason \in AbortReasons
  BY Zenon DEF IsAbort, AbortReasons
<1>3. [kind |-> "Aborted", code |-> code, reason |-> reason] \in Outcome
  BY <1>1, <1>2, Zenon DEF Outcome, AbortReasons
<1>4. [code |-> code, reason |-> reason] \in CloseFrame
  BY Zenon DEF IsAbort, CloseFrame, AbortFrames
<1> QED
  BY <1>3, <1>4, EndType DEF Abort

\* PumpOutcome::ClientClosed is an outcome.
LEMMA ClientClosedType == ClientClosed \in Outcome
BY CodesAreNumbers, Zenon DEF ClientClosed, Outcome

\* The normalized Close of a private relay is a Close the pump may write.
LEMMA ClientCloseFrame ==
    [code |-> CodeNormal, reason |-> "client closed"] \in CloseFrame
BY Zenon DEF CloseFrame

\* A Close with a code of its own carries a nonzero number (close_parts).
LEMMA PeerCloseCode == ASSUME NEW frame \in PeerCloses PROVE frame.code \in Nat \ {0}
BY PumpAssumption

\* A step that leaves the sockets and the deadline alone keeps their types.
LEMMA SameSockets ==
    ASSUME TypeOK, UNCHANGED <<health, idle>>
    PROVE  health' \in [Legs -> HealthSet] /\ idle' \in IdleSet
BY DEF TypeOK, HealthSet, IdleSet

\* Numbering the frame just read gives a frame, within the bound on reads.
LEMMA NextFrameType ==
    ASSUME TypeOK, NEW l \in Legs, NEW bytes \in Sizes,
           Len(read[l]) < MaxRead(l)
    PROVE  NextFrame(l, bytes) \in Frame
<1>1. Len(read[l]) \in Nat
  BY DEF TypeOK
<1>2. MaxRead(l) \in Nat /\ MaxRead(l) <= MaxClient + MaxUpstream
  BY PumpAssumption DEF MaxRead
<1>3. Len(read[l]) + 1 \in 1..(MaxClient + MaxUpstream)
  BY <1>1, <1>2, PumpAssumption
<1> QED
  BY <1>3 DEF NextFrame, Frame

\* Both entry points start well typed: run_public_pump and run_private_pump.
LEMMA InitType == Init => TypeOK
<1> SUFFICES ASSUME Init PROVE TypeOK
  OBVIOUS
<1>1. outcome \in Outcome
  BY DEF Init, Undecided, Outcome
<1> QED
  BY <1>1 DEF Init, TypeOK, Legs


\* Every step of the pump keeps the types; one step of the proof per action.
LEMMA StepType == TypeOK /\ [Next]_vars => TypeOK'
<1> SUFFICES ASSUME TypeOK, [Next]_vars PROVE TypeOK'
  OBVIOUS
<1>1. CASE Connected
  BY <1>1 DEF TypeOK, Connected, Rearmed, Legs
<1>2. CASE ConnectFails
  <2>1. IsAbort(CodeInternal, "upstream connect failed")
    BY DEF IsAbort, InternalReasons
  <2> QED
    BY <1>2, <2>1, AbortType, SameSockets DEF ConnectFails, Legs
<1>3. ASSUME NEW bytes \in Sizes, PreOpenFrame(bytes) PROVE TypeOK'
  <2>1. NextFrame("downstream", bytes) \in Frame
    BY <1>3, NextFrameType DEF PreOpenFrame, Legs
  <2>2. queuedBytes' \in Nat
    BY <1>3, PumpAssumption DEF TypeOK, PreOpenFrame
  <2> QED
    BY <1>3, <2>1, <2>2 DEF TypeOK, PreOpenFrame, Enqueued, Legs
<1>4. ASSUME NEW bytes \in Sizes, PreOpenRefused(bytes) PROVE TypeOK'
  <2>1. PICK reason \in PolicyReasons : Abort({"downstream"}, CodePolicy, reason)
    BY <1>4 DEF PreOpenRefused, PolicyReasons
  <2>2. IsAbort(CodePolicy, reason)
    BY DEF IsAbort
  <2> QED
    BY <1>4, <2>1, <2>2, AbortType, SameSockets DEF PreOpenRefused, Legs
<1>5. CASE PreOpenGone
  <2>1. health' \in [Legs -> HealthSet] /\ idle' \in IdleSet
    BY <1>5 DEF PreOpenGone, TypeOK, HealthSet, IdleSet
  <2> QED
    BY <1>5, <2>1, ClientClosedType, EndType DEF PreOpenGone
<1>6. CASE FlushNext
  <2>1. NextQueued \in Frame /\ RestQueued \in Seq(Frame)
    BY <1>6 DEF TypeOK, FlushNext, NextQueued, RestQueued
  <2> QED
    BY <1>6, <2>1 DEF TypeOK, FlushNext, LogFrame, Legs
<1>7. CASE FlushDone
  BY <1>7 DEF TypeOK, FlushDone
<1>8. CASE Feed
  <2>1. Head(carry) \in Frame
    BY <1>8 DEF TypeOK, Feed
  <2> QED
    BY <1>8, <2>1 DEF TypeOK, Feed
<1>9. CASE SendDone
  BY <1>9 DEF TypeOK, SendDone
<1>10. CASE SendFails
  <2>1. PICK reason \in InternalReasons : Abort({Peer(awaiting)}, CodeInternal, reason)
    BY <1>10 DEF SendFails, InternalReasons
  <2>2. IsAbort(CodeInternal, reason)
    BY DEF IsAbort
  <2>3. {Peer(awaiting)} \in SUBSET Legs
    BY DEF Peer, Legs
  <2> QED
    BY <1>10, <2>1, <2>2, <2>3, AbortType, SameSockets DEF SendFails
<1>11. CASE SendTimesOut
  <2>1. PICK reason \in InternalReasons : AbortBoth(CodeInternal, reason)
    BY <1>11 DEF SendTimesOut, InternalReasons
  <2>2. IsAbort(CodeInternal, reason)
    BY DEF IsAbort
  <2> QED
    BY <1>11, <2>1, <2>2, AbortType, SameSockets
    DEF SendTimesOut, AbortBoth, ToldOnAbortBoth
<1>12. CASE FlushIdle \/ IdleFires
  <2>1. AbortBoth(CodeGoingAway, "idle timeout") /\ UNCHANGED <<health, idle, read, logged>>
    BY <1>12 DEF FlushIdle, IdleFires
  <2>2. IsAbort(CodeGoingAway, "idle timeout")
    BY DEF IsAbort
  <2> QED
    BY <2>1, <2>2, AbortType, SameSockets DEF AbortBoth, ToldOnAbortBoth
<1>13. ASSUME NEW l \in Legs, NEW message \in Message, ReadMessage(l, message)
       PROVE  TypeOK'
  <2>1. Peer(l) \in Legs
    BY DEF Peer, Legs
  <2>2. idle' \in IdleSet
    BY <1>13 DEF ReadMessage, Rearmed, TypeOK, IdleSet
  <2>3. CASE Crosses(message)
    <3>1. NextFrame(l, message.bytes) \in Frame
      BY <1>13, <2>3, NextFrameType DEF ReadMessage, Message, Crosses
    <3> DEFINE frame == NextFrame(l, message.bytes)
    <3>2. /\ read' = [read EXCEPT ![l] = Append(@, frame)]
          /\ logged' = [logged EXCEPT ![l] = Append(@, frame)]
          /\ carry' = <<frame>>
          /\ awaiting' = Peer(l)
          /\ UNCHANGED <<policy, phase, health, queue, queuedBytes, farewell,
                         telling, outcome, out, closeSent>>
      BY <1>13, <2>3 DEF ReadMessage, LogFrame
    <3> HIDE DEF frame
    <3>3. frame \in Frame
      BY <3>1 DEF frame
    <3>4. read \in [Legs -> Seq(Frame)] /\ logged \in [Legs -> Seq(Frame)]
      BY DEF TypeOK
    <3>5. read' \in [Legs -> Seq(Frame)] /\ logged' \in [Legs -> Seq(Frame)]
      BY <3>2, <3>3, <3>4
    <3>6. carry' \in Seq(Frame) /\ awaiting' \in Legs
      BY <2>1, <3>2, <3>3
    <3> QED
      BY <2>2, <3>2, <3>5, <3>6 DEF TypeOK, IdleSet
  <2>4. CASE ~Crosses(message)
    BY <1>13, <2>2, <2>4 DEF TypeOK, ReadMessage, IdleSet
  <2> QED
    BY <2>3, <2>4
<1>14. ASSUME NEW l \in Legs, ReadTooLarge(l) PROVE TypeOK'
  <2>1. IsAbort(CodePolicy, "frame too large")
    BY DEF IsAbort, PolicyReasons
  <2>2. health' \in [Legs -> HealthSet] /\ idle' \in IdleSet
    BY <1>14 DEF ReadTooLarge, Rearmed, TypeOK, HealthSet, IdleSet
  <2> QED
    BY <1>14, <2>1, <2>2, AbortType DEF ReadTooLarge, AbortBoth, ToldOnAbortBoth
<1>15. ASSUME NEW l \in Legs, NEW frame \in PeerCloses \cup {NoFrame}, ReadClose(l, frame)
       PROVE  TypeOK'
  <2>1. CloseParts(frame) \in CloseFrame
    <3>1. CASE frame = NoFrame
      BY <3>1 DEF CloseParts, CloseFrame, NoFrame
    <3>2. CASE frame \in PeerCloses
      <4>1. frame.code # 0 /\ CloseParts(frame) = frame
        BY <3>2, PumpAssumption DEF CloseParts
      <4> QED
        BY <3>2, <4>1 DEF CloseFrame
    <3> QED
      BY <3>1, <3>2
  <2>2. health' \in [Legs -> HealthSet] /\ idle' \in IdleSet /\ UNCHANGED <<read, logged>>
    BY <1>15 DEF ReadClose, TypeOK, HealthSet, IdleSet
  <2>3. CASE l = "upstream"
    <3> DEFINE result == [kind |-> "UpstreamClosed", code |-> CloseParts(frame).code,
                          reason |-> frame.reason]
    <3>1. CloseParts(frame).code \in Nat
      <4>1. CASE frame = NoFrame
        <5>1. CloseParts(NoFrame).code = CodeNormal
          BY DEF CloseParts, NoFrame
        <5> QED
          BY <4>1, <5>1, CodesAreNumbers
      <4>2. CASE frame \in PeerCloses
        <5>1. frame.code \in Nat \ {0}
          BY <4>2, PeerCloseCode
        <5> QED
          BY <5>1 DEF CloseParts
      <4> QED
        BY <4>1, <4>2
    <3>2. frame.reason \in {""} \cup {f.reason : f \in PeerCloses}
      <4>1. CASE frame = NoFrame
        BY <4>1 DEF NoFrame
      <4>2. CASE frame \in PeerCloses
        BY <4>2, Zenon
      <4> QED
        BY <4>1, <4>2
    <3>3. result \in Outcome
      BY <3>1, <3>2, Zenon DEF Outcome
    <3>4. End(result, {"downstream"}, CloseParts(frame))
      BY <1>15, <2>3 DEF ReadClose
    <3> HIDE DEF result
    <3> QED
      BY <2>1, <2>2, <3>3, <3>4, EndType DEF Legs
  <2>4. CASE l # "upstream"
    <3>1. PICK bye \in CloseFrame : End(ClientClosed, {"upstream"}, bye)
      BY <1>15, <2>1, <2>4, ClientCloseFrame DEF ReadClose
    <3> QED
      BY <2>2, <3>1, ClientClosedType, EndType DEF Legs
  <2> QED
    BY <2>3, <2>4
<1>16. ASSUME NEW l \in Legs, ReadError(l) PROVE TypeOK'
  <2>0. health' \in [Legs -> HealthSet] /\ idle' \in IdleSet
    BY <1>16 DEF ReadError, StreamFails, TypeOK, HealthSet, IdleSet
  <2>1. CASE l = "upstream"
    <3>1. IsAbort(CodeInternal, "upstream error")
      BY DEF IsAbort, InternalReasons
    <3> QED
      BY <1>16, <2>0, <2>1, <3>1, AbortType DEF ReadError, Legs
  <2>2. CASE l # "upstream"
    BY <1>16, <2>0, <2>2, ClientCloseFrame, ClientClosedType, EndType
    DEF ReadError, Legs
  <2> QED
    BY <2>1, <2>2
<1>17. ASSUME NEW l \in Legs, TellSent(l) PROVE TypeOK'
  BY <1>17 DEF TypeOK, TellSent
<1>18. ASSUME NEW l \in Legs, TellLost(l) PROVE TypeOK'
  BY <1>18 DEF TypeOK, TellLost
<1>19. CASE Return
  BY <1>19 DEF TypeOK, Return
<1>20. ASSUME NEW l \in Legs, Stall(l) \/ Resume(l) \/ Break(l) PROVE TypeOK'
  BY <1>20 DEF TypeOK, Stall, Resume, Break, Transport
<1>21. CASE IdleElapses
  BY <1>21 DEF TypeOK, IdleElapses
<1>22. CASE UNCHANGED vars
  BY <1>22 DEF TypeOK, vars
<1> QED
  BY <1>1, <1>2, <1>3, <1>4, <1>5, <1>6, <1>7, <1>8, <1>9, <1>10, <1>11, <1>12,
     <1>13, <1>14, <1>15, <1>16, <1>17, <1>18, <1>19, <1>20, <1>21, <1>22 DEF Next


\* The state of a relay is always well typed: whatever the sockets and the clock
\* do, the task of src/relay/pump.rs keeps its variables in their ranges, and it
\* never starts to tell a leg without a Close to send.
THEOREM PumpTypeCorrect == Spec => []TypeOK
<1>1. Init => TypeOK
  BY InitType
<1>2. TypeOK /\ [Next]_vars => TypeOK'
  BY StepType
<1> QED
  BY <1>1, <1>2, PTL DEF Spec

-----------------------------------------------------------------------------
(* Nothing is lost, duplicated or overtaken.                               *)

\* The inductive invariant of the data path.
PipeInv == TypeOK /\ PipeShape /\ Lossless

\* Lossless, one direction at a time.
DownPipe ==
    read["downstream"] =
      out["upstream"] \o ((IF awaiting = "upstream" THEN carry ELSE <<>>) \o queue)

UpPipe ==
    read["upstream"] =
      out["downstream"] \o ((IF awaiting = "downstream" THEN carry ELSE <<>>) \o <<>>)

\* Lossless is what both directions say of themselves, in the present state
\* (the client to upstream and upstream to client paths of the pump).
LEMMA LosslessSplit == Lossless <=> (Over \/ (DownPipe /\ UpPipe))
BY DEF Lossless, Held, Peer, Legs, DownPipe, UpPipe

\* The same in the next state of the pump.
LEMMA LosslessSplitNext == Lossless' <=> (Over' \/ (DownPipe' /\ UpPipe'))
BY DEF Lossless, Held, Peer, Legs, DownPipe, UpPipe

\* Ending the relay keeps the data-path invariant: what is held is dropped, and
\* Lossless speaks of a live relay only.
LEMMA EndKeepsPipe ==
    ASSUME NEW result, NEW told, NEW bye, End(result, told, bye)
    PROVE  PipeShape' /\ Lossless'
<1>1. phase' \in {"closing", "done"} /\ awaiting' = "nobody" /\ carry' = <<>>
  BY DEF End
<1> QED
  BY <1>1 DEF PipeShape, Lossless, Over

\* A step that does not touch the data path keeps its invariant: telling the
\* legs, the sockets and the clock.
LEMMA SamePipe ==
    ASSUME PipeShape, Lossless,
           UNCHANGED <<phase, queue, awaiting, carry, read, out>>
    PROVE  PipeShape' /\ Lossless'
BY DEF PipeShape, Lossless, Held, Over

\* Every step of the pump keeps the data-path invariant: reads extend what is
\* held at its end, and the sink takes it from its front.
LEMMA StepPipe == PipeInv /\ [Next]_vars => PipeShape' /\ Lossless'
<1> SUFFICES ASSUME TypeOK, PipeShape, Lossless, [Next]_vars
             PROVE  PipeShape' /\ Lossless'
  BY DEF PipeInv
<1>a. /\ queue \in Seq(Frame) /\ carry \in Seq(Frame)
      /\ read \in [Legs -> Seq(Frame)] /\ out \in [Legs -> Seq(Frame)]
      /\ read["downstream"] \in Seq(Frame) /\ out["upstream"] \in Seq(Frame)
      /\ read["upstream"] \in Seq(Frame) /\ out["downstream"] \in Seq(Frame)
  BY DEF TypeOK, Legs
<1>b. Over \/ (DownPipe /\ UpPipe)
  BY LosslessSplit
<1>1. CASE Connected
  BY <1>1 DEF Connected, PipeShape, Lossless, Held, Over
<1>2. CASE \/ ConnectFails \/ PreOpenGone \/ SendFails \/ SendTimesOut
           \/ FlushIdle \/ IdleFires
           \/ \E bytes \in Sizes : PreOpenRefused(bytes)
           \/ \E l \in Legs : ReadTooLarge(l) \/ ReadError(l)
           \/ \E l \in Legs, frame \in PeerCloses \cup {NoFrame} : ReadClose(l, frame)
  <2>1. \E result, told, bye : End(result, told, bye)
    BY <1>2 DEF ConnectFails, PreOpenGone, SendFails, SendTimesOut, FlushIdle,
                IdleFires, PreOpenRefused, ReadTooLarge, ReadError, ReadClose,
                Abort, AbortBoth
  <2> QED
    BY <2>1, EndKeepsPipe
<1>3. ASSUME NEW bytes \in Sizes, PreOpenFrame(bytes) PROVE PipeShape' /\ Lossless'
  <2> DEFINE frame == NextFrame("downstream", bytes)
  <2>1. frame \in Frame
    BY <1>3, NextFrameType DEF PreOpenFrame, Legs
  <2>2. /\ awaiting = "nobody" /\ phase = "connecting"
        /\ queue' = Append(queue, frame)
        /\ read' = [read EXCEPT !["downstream"] = Append(@, frame)]
        /\ UNCHANGED <<phase, awaiting, carry, out>>
    BY <1>3 DEF PreOpenFrame, Enqueued, PipeShape
  <2> HIDE DEF frame
  <2>3. PipeShape'
    BY <2>2 DEF PipeShape, Over
  <2>4. DownPipe /\ UpPipe
    BY <1>b, <2>2 DEF Over
  <2>5. read["downstream"] = out["upstream"] \o queue
    BY <1>a, <2>2, <2>4, ConcatEmptySeq DEF DownPipe
  <2>6. read'["downstream"] = out["upstream"] \o (<<>> \o Append(queue, frame))
    <3>1. read'["downstream"] = Append(read["downstream"], frame)
      BY <1>a, <2>2 DEF Legs
    <3>2. out["upstream"] \in Seq(Frame) /\ queue \in Seq(Frame)
      BY <1>a
    <3>3. PICK sent \in Seq(Frame) : sent = out["upstream"]
      BY <3>2
    <3>4. Append(sent \o queue, frame) = sent \o (<<>> \o Append(queue, frame))
      BY <2>1, <3>2
    <3> QED
      BY <2>5, <3>1, <3>3, <3>4
  <2>7. DownPipe' /\ UpPipe'
    BY <1>a, <2>2, <2>4, <2>6 DEF DownPipe, UpPipe, Legs
  <2> QED
    BY <2>3, <2>7, LosslessSplitNext
<1>4. CASE FlushNext
  <2>1. /\ queue # <<>> /\ phase = "flushing" /\ awaiting = "nobody"
        /\ carry' = <<Head(queue)>> /\ queue' = Tail(queue)
        /\ awaiting' = "upstream"
        /\ UNCHANGED <<phase, read, out>>
    BY <1>4 DEF FlushNext, NextQueued, RestQueued
  <2>2. PipeShape'
    BY <2>1 DEF PipeShape, Over
  <2>3. DownPipe /\ UpPipe
    BY <1>b, <2>1 DEF Over
  <2>4. queue = <<Head(queue)>> \o Tail(queue)
    BY <1>a, <2>1, HeadJoinsTail
  <2>5. read["downstream"] = out["upstream"] \o queue
    BY <1>a, <2>1, <2>3, ConcatEmptySeq DEF DownPipe
  <2>6. DownPipe' /\ UpPipe'
    BY <2>1, <2>3, <2>4, <2>5 DEF DownPipe, UpPipe
  <2> QED
    BY <2>2, <2>6, LosslessSplitNext
<1>5. CASE FlushDone
  BY <1>5 DEF FlushDone, PipeShape, Lossless, Held, Over
<1>6. CASE Feed
  <2> DEFINE frame == Head(carry)
  <2>1. frame \in Frame /\ carry = <<frame>>
    BY <1>6, <1>a, OneElement DEF Feed, PipeShape
  <2>2. /\ awaiting \in Legs
        /\ out' = [out EXCEPT ![awaiting] = Append(@, frame)]
        /\ carry' = <<>>
        /\ UNCHANGED <<phase, awaiting, queue, read>>
    BY <1>6 DEF Feed
  <2> HIDE DEF frame
  <2>3. PipeShape'
    BY <2>2 DEF PipeShape, Over
  <2>4. ~Over /\ DownPipe /\ UpPipe
    BY <1>b, <2>2 DEF PipeShape, Legs
  <2>a. /\ out["upstream"] \in Seq(Frame) /\ out["downstream"] \in Seq(Frame)
        /\ queue \in Seq(Frame) /\ <<>> \in Seq(Frame)
    BY <1>a, EmptySeq
  <2>b. \A a, b \in Seq(Frame), e \in Frame : a \o (<<e>> \o b) = Append(a, e) \o (<<>> \o b)
    BY FrontMovesOver
  <2>5. CASE awaiting = "upstream"
    <3>1. read["downstream"] = out["upstream"] \o (<<frame>> \o queue)
      BY <2>1, <2>4, <2>5 DEF DownPipe
    <3>2. out["upstream"] \o (<<frame>> \o queue)
            = Append(out["upstream"], frame) \o (<<>> \o queue)
      BY <2>1, <2>a, <2>b, Zenon
    <3>3. /\ out'["upstream"] = Append(out["upstream"], frame)
          /\ out'["downstream"] = out["downstream"]
      BY <1>a, <2>2, <2>5 DEF Legs
    <3>4. DownPipe' /\ UpPipe'
      BY <2>2, <2>4, <2>5, <3>1, <3>2, <3>3 DEF DownPipe, UpPipe
    <3> QED
      BY <2>3, <3>4, LosslessSplitNext
  <2>6. CASE awaiting = "downstream"
    <3>1. read["upstream"] = out["downstream"] \o (<<frame>> \o <<>>)
      BY <2>1, <2>4, <2>6 DEF UpPipe
    <3>2. out["downstream"] \o (<<frame>> \o <<>>)
            = Append(out["downstream"], frame) \o (<<>> \o <<>>)
      BY <2>1, <2>a, <2>b, Zenon
    <3>3. /\ out'["downstream"] = Append(out["downstream"], frame)
          /\ out'["upstream"] = out["upstream"]
      BY <1>a, <2>2, <2>6 DEF Legs
    <3>4. DownPipe' /\ UpPipe'
      BY <2>2, <2>4, <2>6, <3>1, <3>2, <3>3 DEF DownPipe, UpPipe
    <3> QED
      BY <2>3, <3>4, LosslessSplitNext
  <2> QED
    BY <2>2, <2>5, <2>6 DEF Legs
<1>7. CASE SendDone
  <2>1. /\ awaiting \in Legs /\ carry = <<>> /\ awaiting' = "nobody"
        /\ UNCHANGED <<phase, queue, carry, read, out>>
    BY <1>7 DEF SendDone
  <2>2. PipeShape'
    BY <2>1 DEF PipeShape, Over
  <2>3. Over \/ (DownPipe' /\ UpPipe')
    BY <1>b, <2>1 DEF DownPipe, UpPipe
  <2> QED
    BY <2>1, <2>2, <2>3, LosslessSplitNext DEF Over
<1>8. ASSUME NEW l \in Legs, NEW message \in Message, ReadMessage(l, message)
      PROVE  PipeShape' /\ Lossless'
  <2>1. phase = "connected" /\ awaiting = "nobody" /\ queue = <<>> /\ ~Over
    BY <1>8 DEF ReadMessage, Polling, PipeShape, Over
  <2>2. DownPipe /\ UpPipe
    BY <1>b, <2>1
  <2>3. CASE Crosses(message)
    <3> DEFINE frame == NextFrame(l, message.bytes)
    <3>1. frame \in Frame
      BY <1>8, <2>3, NextFrameType DEF ReadMessage, Message, Crosses
    <3>2. /\ read' = [read EXCEPT ![l] = Append(@, frame)]
          /\ carry' = <<frame>>
          /\ awaiting' = Peer(l)
          /\ UNCHANGED <<phase, queue, out>>
      BY <1>8, <2>3 DEF ReadMessage
    <3> HIDE DEF frame
    <3>3. PipeShape'
      BY <2>1, <3>2 DEF PipeShape, Over, Peer
    <3>4. read["downstream"] = out["upstream"] /\ read["upstream"] = out["downstream"]
      BY <1>a, <2>1, <2>2, ConcatEmptySeq, EmptySeq DEF DownPipe, UpPipe
    <3>5. CASE l = "downstream"
      <4>1. read'["downstream"] = out["upstream"] \o (<<frame>> \o <<>>)
        BY <1>a, <3>1, <3>2, <3>4, <3>5, AppendIsHeld
      <4>2. read'["upstream"] = out["downstream"] \o (<<>> \o <<>>)
        BY <1>a, <3>2, <3>4, <3>5
      <4> QED
        BY <2>1, <3>2, <3>3, <3>5, <4>1, <4>2, LosslessSplitNext
        DEF DownPipe, UpPipe, Peer
    <3>6. CASE l = "upstream"
      <4>1. read'["upstream"] = out["downstream"] \o (<<frame>> \o <<>>)
        BY <1>a, <3>1, <3>2, <3>4, <3>6, AppendIsHeld
      <4>2. read'["downstream"] = out["upstream"] \o (<<>> \o <<>>)
        BY <1>a, <3>2, <3>4, <3>6
      <4> QED
        BY <2>1, <3>2, <3>3, <3>6, <4>1, <4>2, LosslessSplitNext
        DEF DownPipe, UpPipe, Peer
    <3> QED
      BY <3>5, <3>6 DEF Legs
  <2>4. CASE ~Crosses(message)
    BY <1>8, <2>4, SamePipe DEF ReadMessage
  <2> QED
    BY <2>3, <2>4
<1>9. CASE \/ \E l \in Legs : \/ TellSent(l) \/ TellLost(l)
                              \/ Stall(l) \/ Resume(l) \/ Break(l)
           \/ IdleElapses
           \/ UNCHANGED vars
  BY <1>9, SamePipe DEF TellSent, TellLost, Stall, Resume, Break, Transport,
                        IdleElapses, vars
<1>10. CASE Return
  BY <1>10 DEF Return, PipeShape, Lossless, Over
<1> QED
  BY <1>1, <1>2, <1>3, <1>4, <1>5, <1>6, <1>7, <1>8, <1>9, <1>10 DEF Next

\* Both entry points start with nothing in the pipe.
LEMMA PipeStarts == Init => PipeInv
<1> SUFFICES ASSUME Init PROVE PipeShape /\ Lossless
  BY InitType DEF PipeInv
<1>1. PipeShape
  BY DEF Init, PipeShape, Over
<1>2. DownPipe /\ UpPipe
  BY DEF Init, DownPipe, UpPipe, Legs
<1> QED
  BY <1>1, <1>2, LosslessSplit

\* A live relay never loses, duplicates or reorders a data frame, for every cap
\* and every number of frames: from the pre-open queue of run_private_with
\* through its flush to the sends of run_connected_from_deadline.
THEOREM PumpLossless == Spec => []Lossless
<1>1. Init => PipeInv
  BY PipeStarts
<1>2. PipeInv /\ [Next]_vars => PipeInv'
  BY StepType, StepPipe DEF PipeInv
<1>3. PipeInv => Lossless
  BY DEF PipeInv
<1> QED
  BY <1>1, <1>2, <1>3, PTL DEF Spec

-----------------------------------------------------------------------------
(* Nobody is abandoned.                                                    *)

\* A leg that is gone, as tell_downstream and tell_upstream see it.
Gone(l) == health[l] \notin {"ok", "stalled"}

\* What makes NoPeerAbandoned inductive: a private relay has no upstream before
\* the handshake, and a decided relay is telling, or has told, every leg that is
\* still there.
TellShape ==
    /\ phase = "connecting" => Absent("upstream")
    /\ Over => \A l \in Legs : telling[l] = "none" => Gone(l)
    /\ phase = "done" => \A l \in Legs : telling[l] # "sending"

TellInv == TypeOK /\ TellShape

\* Ending the relay starts to tell every leg but those that are gone: the legs
\* each return path of src/relay/pump.rs names.
LEMMA EndTells ==
    ASSUME NEW result, NEW told \in SUBSET Legs, NEW bye, End(result, told, bye),
           \A l \in Legs \ told : health'[l] \notin {"ok", "stalled"}
    PROVE  TellShape'
<1>1. phase' = IF told = {} THEN "done" ELSE "closing"
  BY DEF End
<1>2. \A l \in Legs : telling'[l] = IF l \in told THEN "sending" ELSE "none"
  BY DEF End
<1> QED
  BY <1>1, <1>2 DEF TellShape, Gone

\* A live step that keeps the upstream of a connecting relay absent keeps
\* TellShape: nothing is told before the relay is decided.
LEMMA LiveTells ==
    ASSUME phase' \in {"connecting", "flushing", "connected"},
           phase' = "connecting" => phase = "connecting" /\ UNCHANGED health,
           TellShape
    PROVE  TellShape'
BY DEF TellShape, Over, Gone, Absent

\* Every step of the pump keeps TellShape: the aborts that tell one leg are taken
\* when the other one is absent, broken, faulty or closed.
LEMMA StepTells == TellInv /\ [Next]_vars => TellShape'
<1> SUFFICES ASSUME TypeOK, TellShape, [Next]_vars PROVE TellShape'
  BY DEF TellInv
<1>a. \A l \in Legs : l # "downstream" => l = "upstream"
  BY DEF Legs
<1>b. health \in [Legs -> HealthSet]
  BY DEF TypeOK, HealthSet
<1>1. CASE Connected \/ FlushNext \/ FlushDone \/ Feed \/ SendDone \/ IdleElapses
  <2>1. \/ Over' /\ UNCHANGED <<phase, health, telling>>
        \/ /\ phase' \in {"connecting", "flushing", "connected"}
           /\ phase' = "connecting" => phase = "connecting" /\ UNCHANGED health
    <3>1. phase \in {"connecting", "flushing", "connected", "closing", "done"}
      BY DEF TypeOK
    <3> QED
      BY <1>1, <3>1 DEF Connected, FlushNext, FlushDone, Feed, SendDone, IdleElapses, Over
  <2>2. CASE Over' /\ UNCHANGED <<phase, health, telling>>
    BY <2>2 DEF TellShape, Over, Gone, Absent
  <2> QED
    BY <2>1, <2>2, LiveTells
<1>2. CASE ConnectFails
  <2>1. PICK result, bye : End(result, {"downstream"}, bye)
    BY <1>2 DEF ConnectFails, Abort
  <2>2. \A l \in Legs \ {"downstream"} : health'[l] \notin {"ok", "stalled"}
    BY <1>2, <1>a DEF ConnectFails, TellShape, Absent
  <2> QED
    BY <2>1, <2>2, EndTells DEF Legs
<1>3. CASE \E bytes \in Sizes : PreOpenFrame(bytes)
  BY <1>3, LiveTells DEF PreOpenFrame
<1>4. ASSUME NEW bytes \in Sizes, PreOpenRefused(bytes) PROVE TellShape'
  <2>1. PICK result, bye : End(result, {"downstream"}, bye)
    BY <1>4 DEF PreOpenRefused, Abort
  <2>2. \A l \in Legs \ {"downstream"} : health'[l] \notin {"ok", "stalled"}
    BY <1>4, <1>a DEF PreOpenRefused, TellShape, Absent
  <2> QED
    BY <2>1, <2>2, EndTells DEF Legs
<1>5. CASE PreOpenGone
  <2>1. End(ClientClosed, {}, NoFrame)
    BY <1>5 DEF PreOpenGone
  <2>2. \A l \in Legs \ {} : health'[l] \notin {"ok", "stalled"}
    BY <1>5, <1>a, <1>b DEF PreOpenGone, TellShape, Absent, Legs
  <2> QED
    BY <2>1, <2>2, EndTells
<1>6. CASE SendFails
  <2>1. PICK result, bye : End(result, {Peer(awaiting)}, bye)
    BY <1>6 DEF SendFails, Abort
  <2>2. \A l \in Legs \ {Peer(awaiting)} : health'[l] \notin {"ok", "stalled"}
    BY <1>6 DEF SendFails, Peer, Legs
  <2> QED
    BY <2>1, <2>2, EndTells DEF Peer, Legs
<1>7. CASE \/ SendTimesOut \/ FlushIdle \/ IdleFires
           \/ \E l \in Legs : ReadTooLarge(l)
  <2>1. PICK result, bye : End(result, Legs, bye)
    BY <1>7 DEF SendTimesOut, FlushIdle, IdleFires, ReadTooLarge, AbortBoth,
                ToldOnAbortBoth, Abort
  <2> QED
    BY <2>1, EndTells
<1>8. CASE \E l \in Legs, message \in Message : ReadMessage(l, message)
  BY <1>8, LiveTells DEF ReadMessage, Polling
<1>9. ASSUME NEW l \in Legs, NEW frame, ReadClose(l, frame) \/ ReadError(l)
      PROVE  TellShape'
  <2>1. PICK result, bye : End(result, {Peer(l)}, bye)
    BY <1>9, <1>a DEF ReadClose, ReadError, Abort, Peer
  <2>2. health'[l] \notin {"ok", "stalled"}
    BY <1>9, <1>b DEF ReadClose, ReadError, StreamFails
  <2>3. \A m \in Legs \ {Peer(l)} : m = l
    BY DEF Peer, Legs
  <2> QED
    BY <2>1, <2>2, <2>3, EndTells DEF Peer, Legs
<1>10. ASSUME NEW l \in Legs, TellSent(l) \/ TellLost(l) PROVE TellShape'
  <2>1. /\ telling[l] = "sending"
        /\ telling' = [telling EXCEPT ![l] = "told"]
        /\ UNCHANGED <<phase, health>>
    BY <1>10 DEF TellSent, TellLost
  <2>2. \A m \in Legs : telling'[m] = IF m = l THEN "told" ELSE telling[m]
    BY <2>1 DEF TypeOK
  <2> QED
    BY <2>1, <2>2 DEF TellShape, Over, Gone, Absent
<1>11. CASE Return
  BY <1>11 DEF Return, ToldAll, TellShape, Over, Gone
<1>12. ASSUME NEW l \in Legs, Stall(l) \/ Resume(l) \/ Break(l) PROVE TellShape'
  <2>1. /\ health[l] \in {"ok", "stalled"}
        /\ UNCHANGED <<phase, telling>>
        /\ \A m \in Legs \ {l} : health'[m] = health[m]
    BY <1>12, <1>b DEF Stall, Resume, Break, Transport
  <2> QED
    BY <2>1 DEF TellShape, Over, Gone, Absent, Legs
<1>13. CASE UNCHANGED vars
  BY <1>13 DEF vars, TellShape, Over, Gone, Absent
<1> QED
  BY <1>1, <1>2, <1>3, <1>4, <1>5, <1>6, <1>7, <1>8, <1>9, <1>10, <1>11, <1>12,
     <1>13 DEF Next

\* When a relay returns, every peer that is still there was told, or an attempt to
\* tell it was made and ran into its bound: no return path of
\* src/relay/pump.rs forgets a leg.
THEOREM PumpAbandonsNobody == Spec => []NoPeerAbandoned
<1>1. Init => TellInv
  <2> SUFFICES ASSUME Init PROVE TellShape
    BY InitType DEF TellInv
  <2> QED
    BY DEF Init, TellShape, Over, Absent, Legs
<1>2. TellInv /\ [Next]_vars => TellInv'
  BY StepType, StepTells DEF TellInv
<1>3. TellInv => NoPeerAbandoned
  BY DEF TellInv, TypeOK, TellShape, NoPeerAbandoned, Over, Gone
<1> QED
  BY <1>1, <1>2, <1>3, PTL DEF Spec

-----------------------------------------------------------------------------
(* The frame log and the wire.                                             *)

\* The frames logged of a leg are those the other leg's sink accepted and the
\* one whose send is awaited: log_frame is called just before bounded_send.
DownLog ==
    logged["downstream"] = out["upstream"] \o (IF awaiting = "upstream" THEN carry ELSE <<>>)

UpLog ==
    logged["upstream"] = out["downstream"] \o (IF awaiting = "downstream" THEN carry ELSE <<>>)

\* What makes LogLeadsWire inductive.
Recorded == ~Over => DownLog /\ UpLog

RecordInv == PipeInv /\ Recorded /\ LogLeadsWire

\* LogLeadsWire, for one leg of the relay and the sink of the other.
LeadsWire(written, log, taken) ==
    /\ Len(written) <= Len(log)
    /\ Len(log) <= Len(written) + 1
    /\ log = SubSeq(taken, 1, Len(log))

\* A log that is what was written and the frame in hand leads the wire.
LEMMA RecordLeads ==
    ASSUME NEW S, NEW written \in Seq(S), NEW hand \in Seq(S), NEW rest \in Seq(S),
           NEW log, NEW taken,
           Len(hand) <= 1, log = written \o hand, taken = written \o (hand \o rest)
    PROVE  LeadsWire(written, log, taken)
<1>1. log \in Seq(S) /\ taken \in Seq(S)
  OBVIOUS
<1>2. Len(log) = Len(written) + Len(hand)
  OBVIOUS
<1>3. Len(taken) = Len(log) + Len(rest)
  OBVIOUS
<1>4. \A i \in 1..Len(log) : taken[i] = log[i]
  OBVIOUS
<1>5. log = SubSeq(taken, 1, Len(log))
  <2>1. Len(log) \in Nat /\ Len(rest) \in Nat /\ Len(written) \in Nat /\ Len(hand) \in Nat
    BY <1>1
  <2>2. SubSeq(taken, 1, Len(log)) \in Seq(S) /\ Len(SubSeq(taken, 1, Len(log))) = Len(log)
    BY <1>1, <1>3, <2>1
  <2>3. \A i \in 1..Len(log) : SubSeq(taken, 1, Len(log))[i] = log[i]
    BY <1>1, <1>3, <1>4, <2>1
  <2> HIDE DEF LeadsWire
  <2>4. QED
    BY <1>1, <2>2, <2>3, SeqEqual
<1>6. Len(hand) \in Nat /\ Len(written) \in Nat
  OBVIOUS
<1> QED
  BY <1>2, <1>5, <1>6 DEF LeadsWire

LEMMA LeadsWireSplit ==
    LogLeadsWire <=> /\ LeadsWire(out["upstream"], logged["downstream"], read["downstream"])
                     /\ LeadsWire(out["downstream"], logged["upstream"], read["upstream"])
BY DEF LogLeadsWire, LeadsWire, Legs, Peer

\* While the relay lives, the shape of the log says that it leads the wire.
LEMMA LiveLogLeads ==
    ASSUME PipeInv, Recorded, ~Over
    PROVE  LogLeadsWire
<1> DEFINE down == IF awaiting = "upstream" THEN carry ELSE <<>>
           up == IF awaiting = "downstream" THEN carry ELSE <<>>
<1>1. /\ out["upstream"] \in Seq(Frame) /\ out["downstream"] \in Seq(Frame)
      /\ carry \in Seq(Frame) /\ queue \in Seq(Frame) /\ <<>> \in Seq(Frame)
  BY EmptySeq DEF PipeInv, TypeOK, Legs
<1>2. /\ down \in Seq(Frame) /\ up \in Seq(Frame) /\ Len(down) <= 1 /\ Len(up) <= 1
  BY <1>1 DEF PipeInv, PipeShape
<1>3. /\ logged["downstream"] = out["upstream"] \o down
      /\ logged["upstream"] = out["downstream"] \o up
  BY DEF Recorded, DownLog, UpLog
<1>4. /\ read["downstream"] = out["upstream"] \o (down \o queue)
      /\ read["upstream"] = out["downstream"] \o (up \o <<>>)
  BY LosslessSplit DEF PipeInv, DownPipe, UpPipe
<1> HIDE DEF down, up
<1>5. LeadsWire(out["upstream"], logged["downstream"], read["downstream"])
  BY <1>1, <1>2, <1>3, <1>4, RecordLeads
<1>6. LeadsWire(out["downstream"], logged["upstream"], read["upstream"])
  BY <1>1, <1>2, <1>3, <1>4, RecordLeads
<1> QED
  BY <1>5, <1>6, LeadsWireSplit

LEMMA LiveLogLeadsNext ==
    ASSUME PipeInv', Recorded', ~Over'
    PROVE  LogLeadsWire'
BY LiveLogLeads, PTL

\* A relay that is decided, or stays so, writes no frame and no record.
LEMMA EndWritesNothing ==
    ASSUME [Next]_vars, Over', PipeInv
    PROVE  UNCHANGED <<read, logged, out>>
<1>1. Over => awaiting = "nobody" /\ awaiting \notin Legs
  BY DEF PipeInv, PipeShape, Legs
<1> QED
  BY <1>1 DEF Next, Connected, ConnectFails, PreOpenFrame, PreOpenRefused, PreOpenGone,
      FlushNext, FlushDone, Feed, SendDone, SendFails, SendTimesOut, FlushIdle, IdleFires,
      ReadMessage, ReadTooLarge, ReadClose, ReadError, TellSent, TellLost, Return, Stall,
      Resume, Break, Transport, IdleElapses, Polling, Over, End, Abort, AbortBoth, vars

\* Every step keeps the log one send ahead of the wire at most.
LEMMA StepRecord == RecordInv /\ [Next]_vars => Recorded'
<1> SUFFICES ASSUME RecordInv, [Next]_vars, ~Over' PROVE DownLog' /\ UpLog'
  BY DEF Recorded
<1>a. /\ carry \in Seq(Frame) /\ queue \in Seq(Frame)
      /\ logged \in [Legs -> Seq(Frame)] /\ out \in [Legs -> Seq(Frame)]
      /\ logged["downstream"] \in Seq(Frame) /\ out["upstream"] \in Seq(Frame)
      /\ logged["upstream"] \in Seq(Frame) /\ out["downstream"] \in Seq(Frame)
  BY DEF RecordInv, PipeInv, TypeOK, Legs
<1>b. ~Over
  BY DEF Over, Next, Connected, ConnectFails, PreOpenFrame, PreOpenRefused, PreOpenGone,
      FlushNext, FlushDone, Feed, SendDone, SendFails, SendTimesOut, FlushIdle, IdleFires,
      ReadMessage, ReadTooLarge, ReadClose, ReadError, TellSent, TellLost, Return, Stall,
      Resume, Break, Transport, IdleElapses, Polling, End, Abort, AbortBoth, vars
<1>c. DownLog /\ UpLog
  BY <1>b DEF RecordInv, Recorded
<1>d. \A s \in Seq(Frame), e \in Frame : Append(s, e) = s \o <<e>>
  OBVIOUS
<1>1. CASE FlushNext
  <2> DEFINE frame == Head(queue)
  <2>1. frame \in Frame /\ awaiting = "nobody"
    BY <1>1, <1>a DEF FlushNext
  <2>2. /\ logged' = [logged EXCEPT !["downstream"] = Append(@, frame)]
        /\ carry' = <<frame>> /\ awaiting' = "upstream" /\ UNCHANGED out
    BY <1>1 DEF FlushNext, LogFrame, NextQueued
  <2> HIDE DEF frame
  <2>3. logged["downstream"] = out["upstream"] /\ logged["upstream"] = out["downstream"] \o <<>>
    BY <1>a, <1>c, <2>1, ConcatEmptySeq DEF DownLog, UpLog
  <2>4. /\ logged'["downstream"] = out["upstream"] \o <<frame>>
        /\ logged'["upstream"] = logged["upstream"]
    BY <1>a, <1>d, <2>1, <2>2, <2>3 DEF Legs
  <2> QED
    BY <2>2, <2>3, <2>4 DEF DownLog, UpLog
<1>2. ASSUME NEW l \in Legs, NEW message \in Message, ReadMessage(l, message)
      PROVE  DownLog' /\ UpLog'
  <2>1. CASE Crosses(message)
    <3> DEFINE frame == NextFrame(l, message.bytes)
    <3>1. frame \in Frame
      BY <1>2, <2>1, NextFrameType DEF ReadMessage, Message, Crosses, RecordInv, PipeInv
    <3>2. /\ logged' = [logged EXCEPT ![l] = Append(@, frame)]
          /\ carry' = <<frame>> /\ awaiting' = Peer(l) /\ awaiting = "nobody"
          /\ UNCHANGED out
      BY <1>2, <2>1 DEF ReadMessage, LogFrame, Polling
    <3> HIDE DEF frame
    <3>3. logged["downstream"] = out["upstream"] /\ logged["upstream"] = out["downstream"]
      BY <1>a, <1>c, <3>2, ConcatEmptySeq DEF DownLog, UpLog
    <3>4. out["upstream"] \o <<>> = out["upstream"] /\ out["downstream"] \o <<>> = out["downstream"]
      BY <1>a, ConcatEmptySeq
    <3>5. \A m \in Legs : logged'[m] = IF m = l THEN logged[l] \o <<frame>> ELSE logged[m]
      BY <1>a, <1>d, <3>1, <3>2
    <3> QED
      BY <3>2, <3>3, <3>4, <3>5 DEF DownLog, UpLog, Peer, Legs
  <2>2. CASE ~Crosses(message)
    BY <1>2, <1>c, <2>2 DEF ReadMessage, DownLog, UpLog
  <2> QED
    BY <2>1, <2>2
<1>3. CASE Feed
  <2> DEFINE frame == Head(carry)
  <2>1. frame \in Frame /\ carry = <<frame>>
    BY <1>3, <1>a, OneElement DEF Feed, RecordInv, PipeInv, PipeShape
  <2>2. /\ awaiting \in Legs /\ out' = [out EXCEPT ![awaiting] = Append(@, frame)]
        /\ carry' = <<>> /\ UNCHANGED <<awaiting, logged>>
    BY <1>3 DEF Feed
  <2> HIDE DEF frame
  <2>3. \A m \in Legs : out'[m] = IF m = awaiting THEN out[m] \o <<frame>> ELSE out[m]
    BY <1>a, <1>d, <2>1, <2>2
  <2>4. \A m \in Legs : out'[m] \in Seq(Frame)
    BY <1>a, <2>1, <2>2
  <2>5. \A m \in Legs : out'[m] \o <<>> = out'[m]
    BY <2>4, ConcatEmptySeq
  <2> QED
    BY <1>c, <2>1, <2>2, <2>3, <2>5 DEF DownLog, UpLog, Legs
<1>4. CASE SendDone
  BY <1>4, <1>c DEF SendDone, DownLog, UpLog, Legs
<1>5. CASE UNCHANGED <<logged, out, awaiting, carry>>
  BY <1>5, <1>c DEF DownLog, UpLog
<1>6. \/ FlushNext \/ Feed \/ SendDone \/ UNCHANGED <<logged, out, awaiting, carry>>
      \/ \E l \in Legs, message \in Message : ReadMessage(l, message)
  BY DEF Over, Next, Connected, ConnectFails, PreOpenFrame, PreOpenRefused, PreOpenGone,
      FlushDone, SendFails, SendTimesOut, FlushIdle, IdleFires,
      ReadTooLarge, ReadClose, ReadError, TellSent, TellLost, Return, Stall,
      Resume, Break, Transport, IdleElapses, Polling, End, Abort, AbortBoth, vars
<1> QED
  BY <1>1, <1>2, <1>3, <1>4, <1>5, <1>6

\* The frame log is never behind the wire and at most one frame ahead of it, also
\* after the relay was cut short in the middle of a send.
THEOREM PumpLogLeadsWire == Spec => []LogLeadsWire
<1>1. Init => Recorded /\ LogLeadsWire
  <2> SUFFICES ASSUME Init PROVE Recorded /\ LogLeadsWire
    OBVIOUS
  <2>1. Recorded
    BY DEF Init, Recorded, DownLog, UpLog, Legs
  <2>2. LogLeadsWire
    BY DEF Init, LogLeadsWire, Legs, Peer
  <2> QED
    BY <2>1, <2>2
<1>2. RecordInv /\ [Next]_vars => PipeInv'
  BY StepType, StepPipe DEF RecordInv, PipeInv
<1>3. RecordInv /\ [Next]_vars => LogLeadsWire'
  <2> SUFFICES ASSUME RecordInv, [Next]_vars PROVE LogLeadsWire'
    OBVIOUS
  <2>1. CASE Over'
    BY <2>1, EndWritesNothing DEF RecordInv, LogLeadsWire
  <2>2. CASE ~Over'
    BY <2>2, <1>2, StepRecord, LiveLogLeadsNext
  <2> QED
    BY <2>1, <2>2
<1>4. RecordInv /\ [Next]_vars => RecordInv'
  BY <1>2, <1>3, StepRecord DEF RecordInv
<1>5. Init => PipeInv
  BY PipeStarts
<1> QED
  BY <1>1, <1>4, <1>5, PTL DEF Spec, RecordInv

-----------------------------------------------------------------------------
(* The pump implements the relay contract.                                 *)

\* A leg is sent its Close when it is told, not before, and no leg of a live relay
\* is being told.
ByeShape ==
    /\ ~Over => \A l \in Legs : telling[l] = "none"
    /\ \A l \in Legs : telling[l] # "told" => closeSent[l] = <<>>

RelayInv == PipeInv /\ TellShape /\ ByeShape

\* Every step keeps ByeShape: only tell_downstream and tell_upstream write a Close.
LEMMA StepBye == RelayInv /\ [Next]_vars => ByeShape'
<1> SUFFICES ASSUME RelayInv, [Next]_vars PROVE ByeShape'
  OBVIOUS
<1>a. /\ telling \in [Legs -> {"none", "sending", "told"}]
      /\ closeSent \in [Legs -> Seq(CloseFrame)]
  BY DEF RelayInv, PipeInv, TypeOK
<1>b. awaiting \in Legs => ~Over
  BY DEF RelayInv, PipeInv, PipeShape, Legs
<1>1. ASSUME NEW l \in Legs, TellSent(l) \/ TellLost(l) PROVE ByeShape'
  <2>1. /\ telling[l] = "sending" /\ telling' = [telling EXCEPT ![l] = "told"]
        /\ UNCHANGED phase
        /\ \A m \in Legs \ {l} : closeSent'[m] = closeSent[m]
    BY <1>1, <1>a DEF TellSent, TellLost
  <2>2. Over
    BY <2>1 DEF RelayInv, ByeShape
  <2>3. \A m \in Legs : telling'[m] = IF m = l THEN "told" ELSE telling[m]
    BY <1>a, <2>1
  <2> QED
    BY <2>1, <2>2, <2>3 DEF RelayInv, ByeShape, Over
<1>2. ASSUME NEW result, NEW told, NEW bye, End(result, told, bye), ~Over PROVE ByeShape'
  <2>1. UNCHANGED closeSent /\ \A l \in Legs : closeSent[l] = <<>>
    BY <1>2 DEF RelayInv, ByeShape, End
  <2>2. phase' \in {"closing", "done"} /\ \A l \in Legs : telling'[l] # "told"
    BY <1>2 DEF End
  <2> QED
    BY <2>1, <2>2 DEF ByeShape, Over
<1>3. CASE UNCHANGED <<telling, closeSent>> /\ (Over => Over')
  BY <1>3 DEF RelayInv, ByeShape
<1>4. \/ \E result, told, bye : End(result, told, bye) /\ ~Over
      \/ UNCHANGED <<telling, closeSent>> /\ (Over => Over')
      \/ \E l \in Legs : TellSent(l) \/ TellLost(l)
  BY <1>b DEF Over, Next, Connected, ConnectFails, PreOpenFrame, PreOpenRefused, PreOpenGone,
      FlushNext, FlushDone, Feed, SendDone, SendFails, SendTimesOut, FlushIdle, IdleFires,
      ReadMessage, ReadTooLarge, ReadClose, ReadError, Return, Stall,
      Resume, Break, Transport, IdleElapses, Polling, Abort, AbortBoth, vars
<1> QED
  BY <1>1, <1>2, <1>3, <1>4

LEMMA RelayInvHolds == Spec => []RelayInv
<1>1. Init => RelayInv
  <2> SUFFICES ASSUME Init PROVE TellShape /\ ByeShape
    BY PipeStarts DEF RelayInv
  <2> QED
    BY DEF Init, TellShape, ByeShape, Over, Absent, Legs
<1>2. RelayInv /\ [Next]_vars => RelayInv'
  BY StepType, StepPipe, StepTells, StepBye DEF RelayInv, PipeInv, TellInv
<1> QED
  BY <1>1, <1>2, PTL DEF Spec

IsNextOf(given, taken, e) == Len(given) < Len(taken) /\ taken[Len(given) + 1] = e

\* The front of what a direction still holds is the next frame the contract gives.
LEMMA FrontIsNext ==
    ASSUME NEW S, NEW given \in Seq(S), NEW rest \in Seq(S), NEW e \in S, NEW taken,
           taken = given \o (<<e>> \o rest)
    PROVE  IsNextOf(given, taken, e)
<1>1. Len(given) \in Nat /\ Len(rest) \in Nat
  OBVIOUS
<1>2. Len(taken) = Len(given) + 1 + Len(rest)
  OBVIOUS
<1> QED
  BY <1>1, <1>2 DEF IsNextOf

\* Reading a data frame takes it.
LEMMA ReadIsTake ==
    ASSUME NEW l \in Legs, NEW frame \in Frame, ~Over, ~Over',
           read' = [read EXCEPT ![l] = Append(@, frame)], UNCHANGED <<out, closeSent>>
    PROVE  Contract!Take(l)
BY DEF Contract!Take, Ended

\* A frame the awaited sink accepts is given to its leg.
LEMMA FeedIsGive ==
    ASSUME PipeInv, Feed
    PROVE  Contract!Give(awaiting)
<1> DEFINE frame == Head(carry)
<1>1. /\ carry \in Seq(Frame) /\ queue \in Seq(Frame) /\ <<>> \in Seq(Frame)
      /\ out["upstream"] \in Seq(Frame) /\ out["downstream"] \in Seq(Frame)
  BY EmptySeq DEF PipeInv, TypeOK, Legs
<1>2. frame \in Frame /\ carry = <<frame>>
  BY <1>1, OneElement DEF Feed, PipeInv, PipeShape
<1>3. /\ awaiting \in Legs /\ out' = [out EXCEPT ![awaiting] = Append(@, frame)]
      /\ UNCHANGED <<phase, read, closeSent>>
  BY DEF Feed
<1> HIDE DEF frame
<1>4. ~Over /\ DownPipe /\ UpPipe
  BY <1>3, LosslessSplit DEF PipeInv, PipeShape, Legs
<1>5. Ended = "no" /\ Ended' = "no"
  BY <1>3, <1>4 DEF Ended, Over
<1>n. \A given, rest \in Seq(Frame), e \in Frame : \A taken :
        taken = given \o (<<e>> \o rest) => IsNextOf(given, taken, e)
  BY FrontIsNext
<1>6. IsNextOf(out[awaiting], read[Peer(awaiting)], frame)
  <2>1. CASE awaiting = "upstream"
    <3>1. read["downstream"] = out["upstream"] \o (<<frame>> \o queue)
      BY <1>2, <1>4, <2>1 DEF DownPipe
    <3>2. IsNextOf(out["upstream"], read["downstream"], frame)
      BY <1>1, <1>2, <1>n, <3>1, Zenon
    <3> QED
      BY <2>1, <3>2 DEF Peer
  <2>2. CASE awaiting = "downstream"
    <3>1. read["upstream"] = out["downstream"] \o (<<frame>> \o <<>>)
      BY <1>2, <1>4, <2>2 DEF UpPipe
    <3>2. IsNextOf(out["downstream"], read["upstream"], frame)
      BY <1>1, <1>2, <1>n, <3>1, Zenon
    <3> QED
      BY <2>2, <3>2 DEF Peer
  <2> QED
    BY <1>3, <2>1, <2>2 DEF Legs
<1>7. Contract!Opposite(awaiting) = Peer(awaiting)
  BY DEF Contract!Opposite, Peer
<1> QED
  BY <1>3, <1>5, <1>6, <1>7 DEF Contract!Give, IsNextOf

\* When nothing is held, both directions are complete.
LEMMA NothingHeld ==
    ASSUME PipeInv, ~Over, Polling
    PROVE  \A l \in Legs : out[l] = read[Peer(l)]
<1>1. /\ queue = <<>> /\ awaiting = "nobody" /\ DownPipe /\ UpPipe
      /\ out["upstream"] \in Seq(Frame) /\ out["downstream"] \in Seq(Frame)
  BY LosslessSplit DEF PipeInv, PipeShape, Polling, TypeOK, Legs
<1>2. read["downstream"] = out["upstream"] /\ read["upstream"] = out["downstream"]
  BY <1>1, ConcatEmptySeq, EmptySeq DEF DownPipe, UpPipe
<1> QED
  BY <1>2 DEF Legs, Peer

\* A relay that ends does so in one of the two ways of the contract; it ends cleanly
\* only from the connected loop, between two sends.
LEMMA EndIsEnd ==
    ASSUME RelayInv, [Next]_vars, ~Over, Over'
    PROVE  Contract!EndClean \/ Contract!EndAborted
<1>1. UNCHANGED <<read, out, closeSent>>
  BY DEF Over, Next, Connected, ConnectFails, PreOpenFrame, PreOpenRefused, PreOpenGone,
      FlushNext, FlushDone, Feed, SendDone, SendFails, SendTimesOut, FlushIdle, IdleFires,
      ReadMessage, ReadTooLarge, ReadClose, ReadError, TellSent, TellLost, Return, Stall,
      Resume, Break, Transport, IdleElapses, End, Abort, AbortBoth, vars
<1>2. Ended = "no" /\ Ended' \in {"clean", "aborted"}
  BY DEF Ended
<1>3. CASE Ended' = "aborted"
  BY <1>1, <1>2, <1>3 DEF Contract!EndAborted
<1>4. CASE Ended' = "clean"
  <2>1. outcome'.kind # "Aborted" /\ health'["upstream"] # "absent"
    BY <1>4 DEF Ended, Absent
  <2>2. /\ phase = "connecting" => health["upstream"] = "absent"
        /\ health \in [Legs -> HealthSet]
    BY DEF RelayInv, TellShape, Absent, PipeInv, TypeOK, HealthSet
  <2>3. ~PreOpenGone
    <3>1. PreOpenGone => health'["upstream"] = health["upstream"] /\ phase = "connecting"
      BY <2>2 DEF PreOpenGone, Legs
    <3> QED
      BY <2>1, <2>2, <3>1
  <2>a. \/ PreOpenGone \/ Polling
        \/ \E told, code, reason : Abort(told, code, reason)
    BY DEF Over, Next, Connected, ConnectFails, PreOpenFrame, PreOpenRefused,
      FlushNext, FlushDone, Feed, SendDone, SendFails, SendTimesOut, FlushIdle, IdleFires,
      ReadMessage, ReadTooLarge, ReadClose, ReadError, TellSent, TellLost, Return, Stall,
      Resume, Break, Transport, IdleElapses, AbortBoth, vars
  <2>b. \A told, code, reason : Abort(told, code, reason) => outcome'.kind = "Aborted"
    BY DEF Abort, End
  <2>4. Polling
    BY <2>1, <2>3, <2>a, <2>b
  <2>5. \A l \in Legs : out[l] = read[Peer(l)]
    BY <2>4, NothingHeld DEF RelayInv
  <2>6. Contract!Leg = Legs /\ \A l \in Legs : Contract!Opposite(l) = Peer(l)
    BY DEF Contract!Leg, Legs, Contract!Opposite, Peer
  <2> QED
    BY <1>1, <1>2, <1>4, <2>5, <2>6 DEF Contract!EndClean
<1> QED
  BY <1>2, <1>3, <1>4

\* A decided relay keeps its end: the upstream does not come or go any more.
LEMMA OverStays ==
    ASSUME RelayInv, [Next]_vars, Over
    PROVE  /\ Ended' = Ended /\ Ended # "no" /\ UNCHANGED <<read, out>>
           /\ UNCHANGED closeSent \/ \E l \in Legs : TellSent(l)
<1>1. awaiting \notin Legs /\ health \in [Legs -> HealthSet]
  BY DEF RelayInv, PipeInv, PipeShape, TypeOK, HealthSet, Legs
<1>2. \/ \E l \in Legs : TellSent(l) \/ TellLost(l) \/ Stall(l) \/ Resume(l) \/ Break(l)
      \/ Return \/ UNCHANGED vars
  BY <1>1 DEF Over, Next, Connected, ConnectFails, PreOpenFrame, PreOpenRefused, PreOpenGone,
      FlushNext, FlushDone, Feed, SendDone, SendFails, SendTimesOut, FlushIdle, IdleFires,
      ReadMessage, ReadTooLarge, ReadClose, ReadError, IdleElapses, Polling
<1>3. Over' /\ UNCHANGED <<outcome, read, out>>
  BY <1>2 DEF Over, TellSent, TellLost, Stall, Resume, Break, Transport, Return, vars
<1>4. Absent("upstream")' <=> Absent("upstream")
  BY <1>1, <1>2
  DEF Absent, TellSent, TellLost, Stall, Resume, Break, Transport, Return, vars, Legs
<1>5. UNCHANGED closeSent \/ \E l \in Legs : TellSent(l)
  BY <1>2 DEF TellLost, Stall, Resume, Break, Transport, Return, vars
<1>6. Ended' = Ended /\ Ended # "no"
  BY <1>3, <1>4 DEF Ended
<1> QED
  BY <1>3, <1>5, <1>6

\* Telling a leg is dismissing it.
LEMMA TellIsDismiss ==
    ASSUME RelayInv, NEW l \in Legs, TellSent(l), Ended' = Ended, Ended # "no"
    PROVE  Contract!Dismiss(l)
<1>1. closeSent[l] = <<>> /\ farewell \in CloseFrame
  BY DEF TellSent, RelayInv, ByeShape, PipeInv, TypeOK
<1> QED
  BY <1>1 DEF TellSent, Contract!Dismiss

\* Every step of the pump is a step of the contract, or none.
LEMMA StepContract ==
    ASSUME RelayInv, [Next]_vars
    PROVE  [Contract!ContractNext]_(Contract!contractVars)
<1>a. Contract!Leg = Legs
  BY DEF Contract!Leg, Legs
<1>1. CASE Over
  <2>1. CASE UNCHANGED closeSent
    BY <1>1, <2>1, OverStays DEF Contract!contractVars
  <2>2. ASSUME NEW l \in Legs, TellSent(l) PROVE Contract!ContractNext
    BY <1>1, <1>a, <2>2, OverStays, TellIsDismiss DEF Contract!ContractNext
  <2> QED
    BY <1>1, <2>1, <2>2, OverStays
<1>2. CASE ~Over /\ Over'
  BY <1>2, EndIsEnd DEF Contract!ContractNext
<1>3. CASE ~Over /\ ~Over'
  <2>1. Ended = "no" /\ Ended' = "no"
    BY <1>3 DEF Ended
  <2>2. ASSUME NEW bytes \in Sizes, PreOpenFrame(bytes) PROVE Contract!ContractNext
    <3> DEFINE frame == NextFrame("downstream", bytes)
    <3>1. frame \in Frame /\ "downstream" \in Legs
      BY <2>2, NextFrameType DEF PreOpenFrame, Legs, RelayInv, PipeInv
    <3>2. /\ read' = [read EXCEPT !["downstream"] = Append(@, frame)]
          /\ UNCHANGED <<out, closeSent>>
      BY <2>2 DEF PreOpenFrame
    <3> HIDE DEF frame
    <3> QED
      BY <1>3, <1>a, <3>1, <3>2, ReadIsTake DEF Contract!ContractNext
  <2>3. ASSUME NEW l \in Legs, NEW message \in Message, ReadMessage(l, message),
               Crosses(message)
        PROVE  Contract!ContractNext
    <3> DEFINE frame == NextFrame(l, message.bytes)
    <3>1. frame \in Frame
      BY <2>3, NextFrameType DEF ReadMessage, Message, Crosses, RelayInv, PipeInv
    <3>2. read' = [read EXCEPT ![l] = Append(@, frame)] /\ UNCHANGED <<out, closeSent>>
      BY <2>3 DEF ReadMessage
    <3> HIDE DEF frame
    <3> QED
      BY <1>3, <1>a, <3>1, <3>2, ReadIsTake DEF Contract!ContractNext
  <2>4. CASE Feed
    <3>1. Contract!Give(awaiting) /\ awaiting \in Contract!Leg
      BY <1>a, <2>4, FeedIsGive DEF RelayInv, Feed
    <3> QED
      BY <3>1 DEF Contract!ContractNext
  <2>5. CASE UNCHANGED <<read, out, closeSent>>
    BY <2>1, <2>5 DEF Contract!contractVars
  <2>6. \/ Feed \/ UNCHANGED <<read, out, closeSent>>
        \/ \E bytes \in Sizes : PreOpenFrame(bytes)
        \/ \E l \in Legs, message \in Message : ReadMessage(l, message) /\ Crosses(message)
    <3>1. ~\E l \in Legs : TellSent(l)
      BY <1>3 DEF TellSent, RelayInv, ByeShape
    <3> QED
      BY <1>3, <3>1 DEF Over, Next, Connected, ConnectFails, PreOpenRefused, PreOpenGone,
        FlushNext, FlushDone, SendDone, SendFails, SendTimesOut, FlushIdle, IdleFires,
        ReadMessage, ReadTooLarge, ReadClose, ReadError, TellLost, Return, Stall,
        Resume, Break, Transport, IdleElapses, End, Abort, AbortBoth, vars
  <2> QED
    BY <2>2, <2>3, <2>4, <2>5, <2>6
<1> QED
  BY <1>1, <1>2, <1>3

\* The pump of src/relay/pump.rs is a relay as its peers know it: what was taken
\* from a leg is given to the other in order, a clean end leaves nothing out, and
\* each leg is sent one Close at most, after everything else.
THEOREM PumpImplementsContract == Spec => ImplementsContract
<1>1. Init => Contract!ContractInit
  BY DEF Init, Contract!ContractInit, Contract!Leg, Legs, Ended, Over
<1>2. RelayInv /\ [Next]_vars => [Contract!ContractNext]_(Contract!contractVars)
  BY StepContract
<1> QED
  BY <1>1, <1>2, RelayInvHolds, PTL DEF Spec, ImplementsContract, Contract!ContractSpec

-----------------------------------------------------------------------------
(* The bytes a relay retains.  Total is a recursive function, so what it is  *)
(* of a longer sequence is shown by a least counterexample.                  *)

\* f adds up the sizes of the first k frames of s.
Adds(f, s, k) == f[0] = 0 /\ \A n \in 1..k : f[n] = f[n - 1] + s[n].bytes

LEMMA LeastNumber ==
    ASSUME NEW T \in SUBSET Nat, T # {}
    PROVE  \E x \in T : \A y \in T : x <= y
<1>1. \E x \in T : \A y \in T : ~(<<y, x>> \in OpToRel(<, Nat))
  BY NatLessThanWellFounded, WFMin
<1>2. \A x, y \in Nat : <<y, x>> \in OpToRel(<, Nat) <=> y < x
  BY Zenon DEF OpToRel
<1>3. \E x \in T : \A y \in T : ~(y < x)
  BY <1>1, <1>2, Zenon
<1> QED
  BY <1>3

LEMMA AddingUpExists ==
    ASSUME NEW s, NEW L \in Nat, \A n \in 1..L : s[n].bytes \in Nat
    PROVE  \E f \in [0..L -> Nat] : Adds(f, s, L)
<1> DEFINE bad == {k \in 0..L : ~\E f \in [0..k -> Nat] : Adds(f, s, k)}
<1>0. L \in 0..L
  OBVIOUS
<1>1. SUFFICES ASSUME bad # {} PROVE FALSE
  BY <1>0, Zenon
<1>2. PICK k \in bad : \A j \in bad : k <= j
  <2>1. bad \in SUBSET Nat
    OBVIOUS
  <2> HIDE DEF bad
  <2> QED
    BY <1>1, <2>1, LeastNumber
<1>3. CASE k = 0
  <2>1. [n \in 0..0 |-> 0] \in [0..0 -> Nat] /\ Adds([n \in 0..0 |-> 0], s, 0)
    BY DEF Adds
  <2> QED
    BY <1>3, <2>1
<1>4. CASE k # 0
  <2>a. k \in 0..L
    OBVIOUS
  <2>b. k - 1 \notin bad
    <3> HIDE DEF bad
    <3> QED
      BY <1>2, <2>a
  <2>1. k - 1 \in 0..L /\ k - 1 \notin bad /\ k \in 1..L
    BY <1>4, <2>a, <2>b
  <2>2. PICK f \in [0..(k - 1) -> Nat] : Adds(f, s, k - 1)
    BY <2>1
  <2> DEFINE g == [n \in 0..k |-> IF n = k THEN f[k - 1] + s[k].bytes ELSE f[n]]
  <2>3. s[k].bytes \in Nat /\ f[k - 1] \in Nat /\ k \in Nat
    BY <2>1, <2>2
  <2>4. g \in [0..k -> Nat]
    BY <2>1, <2>2, <2>3
  <2>5. g[0] = 0
    BY <2>1, <2>2, <2>3 DEF Adds
  <2>6. \A n \in 1..k : g[n] = g[n - 1] + s[n].bytes
    BY <2>1, <2>2, <2>3 DEF Adds
  <2>7. Adds(g, s, k)
    BY <2>5, <2>6 DEF Adds
  <2> QED
    BY <2>4, <2>7
<1> QED
  BY <1>3, <1>4

LEMMA AddingUpIsUnique ==
    ASSUME NEW s, NEW L \in Nat, NEW f, NEW g, Adds(f, s, L), Adds(g, s, L)
    PROVE  \A n \in 0..L : f[n] = g[n]
<1> DEFINE bad == {k \in 0..L : f[k] # g[k]}
<1>1. SUFFICES ASSUME bad # {} PROVE FALSE
  OBVIOUS
<1>2. PICK k \in bad : \A j \in bad : k <= j
  <2>1. bad \in SUBSET Nat
    OBVIOUS
  <2> HIDE DEF bad
  <2> QED
    BY <1>1, <2>1, LeastNumber
<1>3. k # 0
  BY DEF Adds
<1>4. k - 1 \in 0..L /\ k - 1 \notin bad /\ k \in 1..L
  BY <1>2, <1>3
<1> QED
  BY <1>4 DEF Adds

LEMMA FrameSizes ==
    ASSUME NEW s \in Seq(Frame)
    PROVE  Len(s) \in Nat /\ \A n \in 1..Len(s) : s[n] \in Frame /\ s[n].bytes \in Nat
<1>1. Len(s) \in Nat /\ \A n \in 1..Len(s) : s[n] \in Frame
  BY ElementOfSeq
<1> QED
  BY <1>1, PumpAssumption DEF Frame

\* Total is what the sizes add up to, whichever way they are added.
LEMMA TotalAdds ==
    ASSUME NEW s \in Seq(Frame)
    PROVE  /\ Total(s) \in Nat
           /\ \A g : Adds(g, s, Len(s)) => g[Len(s)] = Total(s)
           /\ \E f \in [0..Len(s) -> Nat] : Adds(f, s, Len(s)) /\ f[Len(s)] = Total(s)
<1> DEFINE IsIt(f) == f = [n \in 0..Len(s) |-> IF n = 0 THEN 0 ELSE f[n - 1] + s[n].bytes]
           F == CHOOSE f : IsIt(f)
<1>1. Len(s) \in Nat /\ \A n \in 1..Len(s) : s[n].bytes \in Nat
  BY FrameSizes
<1>2. PICK f \in [0..Len(s) -> Nat] : Adds(f, s, Len(s))
  BY <1>1, AddingUpExists
<1>3. IsIt(f)
  BY <1>1, <1>2 DEF Adds
<1>4. IsIt(F)
  <2> HIDE DEF IsIt
  <2> QED
    BY <1>3
<1>5. Total(s) = F[Len(s)]
  BY Zenon DEF Total
<1>6. Adds(F, s, Len(s))
  <2>1. F = [n \in 0..Len(s) |-> IF n = 0 THEN 0 ELSE F[n - 1] + s[n].bytes]
    BY <1>4
  <2> HIDE DEF F
  <2> QED
    BY <1>1, <2>1 DEF Adds
<1> HIDE DEF F
<1>7. F[Len(s)] = f[Len(s)]
  BY <1>1, <1>2, <1>6, AddingUpIsUnique
<1>8. ASSUME NEW g, Adds(g, s, Len(s)) PROVE g[Len(s)] = f[Len(s)]
  BY <1>1, <1>2, <1>8, AddingUpIsUnique
<1> QED
  BY <1>1, <1>2, <1>5, <1>7, <1>8

LEMMA TotalOfNone == Total(<<>>) = 0
<1>1. <<>> \in Seq(Frame) /\ Len(<<>>) = 0
  OBVIOUS
<1>2. PICK f : Adds(f, <<>>, 0) /\ f[0] = Total(<<>>)
  BY <1>1, TotalAdds
<1> QED
  BY <1>2 DEF Adds

LEMMA TotalOfAppend ==
    ASSUME NEW s \in Seq(Frame), NEW e \in Frame
    PROVE  Total(Append(s, e)) = Total(s) + e.bytes
<1> DEFINE L == Len(s)
           t == Append(s, e)
<1>1. L \in Nat /\ t \in Seq(Frame) /\ Len(t) = L + 1
      /\ t[L + 1] = e /\ \A n \in 1..L : t[n] = s[n]
  OBVIOUS
<1> HIDE DEF t
<1>2. PICK g : Adds(g, t, Len(t)) /\ g[Len(t)] = Total(t)
  BY <1>1, TotalAdds
<1>3. Adds(g, s, L)
  BY <1>1, <1>2 DEF Adds
<1>4. g[L] = Total(s)
  BY <1>3, TotalAdds
<1>5. g[L + 1] = g[L] + t[L + 1].bytes
  BY <1>1, <1>2 DEF Adds
<1> QED
  BY <1>1, <1>2, <1>4, <1>5 DEF t

LEMMA TotalOfPrepend ==
    ASSUME NEW s \in Seq(Frame), NEW e \in Frame
    PROVE  Total(<<e>> \o s) = e.bytes + Total(s)
<1> DEFINE L == Len(s)
           t == <<e>> \o s
<1>1. L \in Nat /\ t \in Seq(Frame) /\ Len(t) = L + 1
      /\ t[1] = e /\ \A n \in 1..L : t[n + 1] = s[n]
  OBVIOUS
<1>2. e.bytes \in Nat /\ \A n \in 1..L : s[n].bytes \in Nat
  BY FrameSizes, PumpAssumption DEF Frame
<1> HIDE DEF t
<1>3. PICK g \in [0..Len(t) -> Nat] : Adds(g, t, Len(t)) /\ g[Len(t)] = Total(t)
  BY <1>1, TotalAdds
<1>4. g[1] = e.bytes /\ \A n \in 1..L : g[n + 1] = g[n] + s[n].bytes
  <2>1. \A m \in 1..(L + 1) : g[m] = g[m - 1] + t[m].bytes
    BY <1>1, <1>3 DEF Adds
  <2>2. g[0] = 0
    BY <1>3 DEF Adds
  <2>3. ASSUME NEW n \in 1..L PROVE g[n + 1] = g[n] + s[n].bytes
    BY <1>1, <2>1
  <2>4. g[1] = g[0] + t[1].bytes
    BY <1>1, <2>1
  <2>5. g[1] = e.bytes
    BY <1>1, <1>2, <2>2, <2>4
  <2> QED
    BY <2>3, <2>5
<1> DEFINE h == [n \in 0..L |-> g[n + 1] - e.bytes]
<1>5. \A n \in 0..(L + 1) : g[n] \in Nat
  BY <1>1, <1>3
<1>6. Adds(h, s, L)
  <2>1. h[0] = 0
    BY <1>1, <1>2, <1>4
  <2>2. ASSUME NEW n \in 1..L PROVE h[n] = h[n - 1] + s[n].bytes
    BY <1>1, <1>2, <1>4, <1>5
  <2> HIDE DEF h
  <2> QED
    BY <2>1, <2>2 DEF Adds
<1>7. h[L] = Total(s)
  <2> HIDE DEF h
  <2> QED
    BY <1>6, TotalAdds
<1>8. h[L] = g[L + 1] - e.bytes /\ g[L + 1] \in Nat
  BY <1>1, <1>5
<1> QED
  BY <1>1, <1>2, <1>3, <1>7, <1>8 DEF t

\* What makes BoundedRetention inductive: queued_bytes is what is queued while the
\* handshake is in flight, and from then on what is held only shrinks, until the
\* relay is connected and holds one frame at most.
Retained ==
    /\ Total(carry \o queue) <= FrameBytes
    /\ phase = "connecting" => queuedBytes = Total(queue)
    /\ phase \in {"connecting", "flushing"} => Len(queue) + Len(carry) <= MaxPending
    /\ Over => queue = <<>>

RetainInv == PipeInv /\ Retained

LEMMA RetainedIsBounded == RetainInv => BoundedRetention
<1> SUFFICES ASSUME RetainInv PROVE BoundedRetention
  OBVIOUS
<1>1. /\ carry \in Seq(Frame) /\ queue \in Seq(Frame) /\ MaxPending \in Nat /\ FrameBytes \in Nat
      /\ phase \in {"connecting", "flushing", "connected", "closing", "done"}
      /\ awaiting \in {"downstream", "upstream", "nobody"}
  BY PumpAssumption DEF RetainInv, PipeInv, TypeOK, Legs
<1>2. /\ Len(carry) <= 1 /\ Len(carry) \in Nat /\ Len(queue) \in Nat
      /\ awaiting = "nobody" => carry = <<>>
      /\ awaiting = "downstream" => queue = <<>>
      /\ phase \notin {"connecting", "flushing"} => queue = <<>>
  BY <1>1 DEF RetainInv, PipeInv, PipeShape, Retained, Over
<1>3. carry \o <<>> = carry /\ <<>> \o queue = queue /\ <<>> \o <<>> = <<>>
  BY <1>1
<1>4. Total(carry \o queue) <= FrameBytes /\ Total(<<>>) <= FrameBytes
  BY <1>1, TotalOfNone DEF RetainInv, Retained
<1>5. Len(queue) + Len(carry) <= IF MaxPending = 0 THEN 1 ELSE MaxPending
  <2>1. CASE phase \in {"connecting", "flushing"}
    <3>1. Len(queue) + Len(carry) <= MaxPending
      BY <2>1 DEF RetainInv, Retained
    <3> QED
      BY <1>1, <1>2, <3>1
  <2>2. CASE phase \notin {"connecting", "flushing"}
    <3>1. Len(queue) = 0
      BY <1>2, <2>2
    <3> QED
      BY <1>1, <1>2, <3>1
  <2> QED
    BY <2>1, <2>2
<1>6. Held("downstream") \in {carry \o queue, <<>>}
  <2>1. Held("downstream") = (IF awaiting = "upstream" THEN carry ELSE <<>>) \o queue
    BY DEF Held, Peer
  <2>2. CASE awaiting = "upstream"
    BY <2>1, <2>2
  <2>3. CASE awaiting = "nobody"
    BY <1>2, <2>1, <2>3
  <2>4. CASE awaiting = "downstream"
    BY <1>2, <1>3, <2>1, <2>4
  <2> QED
    BY <1>1, <2>2, <2>3, <2>4
<1>7. Held("upstream") \in {carry \o queue, <<>>}
  <2>1. Held("upstream") = (IF awaiting = "downstream" THEN carry ELSE <<>>) \o <<>>
    BY DEF Held, Peer
  <2>2. CASE awaiting = "downstream"
    BY <1>2, <2>1, <2>2
  <2>3. CASE awaiting # "downstream"
    BY <1>3, <2>1, <2>3
  <2> QED
    BY <2>2, <2>3
<1> QED
  BY <1>4, <1>5, <1>6, <1>7, Zenon DEF BoundedRetention

\* Every step keeps what is retained within its bounds.
LEMMA StepRetains == RetainInv /\ [Next]_vars => Retained'
<1> SUFFICES ASSUME RetainInv, [Next]_vars PROVE Retained'
  OBVIOUS
<1>a. /\ carry \in Seq(Frame) /\ queue \in Seq(Frame) /\ <<>> \in Seq(Frame)
      /\ Len(queue) \in Nat /\ Len(carry) \in Nat
      /\ MaxPending \in Nat /\ FrameBytes \in Nat /\ queuedBytes \in Nat
  BY PumpAssumption, EmptySeq DEF RetainInv, PipeInv, TypeOK
<1>b. <<>> \o queue = queue /\ <<>> \o <<>> = <<>>
  BY <1>a
<1>c. /\ Total(carry \o queue) <= FrameBytes
      /\ phase = "connecting" => queuedBytes = Total(queue)
      /\ phase \in {"connecting", "flushing"} => Len(queue) + Len(carry) <= MaxPending
  BY DEF RetainInv, Retained
<1>d. /\ awaiting = "nobody" => carry = <<>>
      /\ phase = "connecting" => awaiting = "nobody"
  BY DEF RetainInv, PipeInv, PipeShape
<1>1. ASSUME NEW result, NEW told, NEW bye, End(result, told, bye) PROVE Retained'
  <2>1. queue' = <<>> /\ carry' = <<>> /\ phase' \in {"closing", "done"}
    BY <1>1 DEF End
  <2>2. Total(<<>>) <= FrameBytes
    BY <1>a, TotalOfNone
  <2> QED
    BY <1>b, <2>1, <2>2 DEF Retained
<1>2. ASSUME NEW bytes \in Sizes, PreOpenFrame(bytes) PROVE Retained'
  <2> DEFINE frame == NextFrame("downstream", bytes)
  <2>1. frame \in Frame /\ frame.bytes = bytes /\ bytes \in Nat
    <3>1. frame \in Frame
      BY <1>2, NextFrameType DEF PreOpenFrame, Legs, RetainInv, PipeInv
    <3> QED
      BY <3>1, PumpAssumption DEF NextFrame
  <2>2. /\ phase = "connecting" /\ carry = <<>>
        /\ queue' = Append(queue, frame) /\ queuedBytes' = queuedBytes + bytes
        /\ UNCHANGED <<phase, carry>>
    BY <1>2, <1>d DEF PreOpenFrame, Enqueued
  <2>3. queuedBytes + bytes <= FrameBytes /\ Len(queue) < MaxPending
    BY <1>2 DEF PreOpenFrame, QueuedBytesFit, AcceptPending
  <2> HIDE DEF frame
  <2>4. Total(queue') = queuedBytes'
    BY <1>a, <1>c, <2>1, <2>2, TotalOfAppend
  <2>5. queue' \in Seq(Frame) /\ Len(queue') = Len(queue) + 1
    BY <1>a, <2>1, <2>2
  <2>6. carry' \o queue' = queue'
    BY <2>2, <2>5
  <2>7. Len(queue') + Len(carry') <= MaxPending
    <3>1. Len(carry') = 0
      BY <2>2
    <3> QED
      BY <1>a, <2>3, <2>5, <3>1
  <2> QED
    BY <2>2, <2>3, <2>4, <2>6, <2>7 DEF Retained, Over
<1>3. CASE FlushNext
  <2>1. /\ queue # <<>> /\ phase = "flushing" /\ carry = <<>>
        /\ carry' = <<Head(queue)>> /\ queue' = Tail(queue) /\ UNCHANGED phase
    BY <1>3, <1>d DEF FlushNext, NextQueued, RestQueued
  <2>2. carry' \o queue' = carry \o queue
    <3>1. queue = <<Head(queue)>> \o Tail(queue)
      BY <1>a, <2>1, HeadJoinsTail
    <3> QED
      BY <1>b, <2>1, <3>1
  <2>3. Len(queue') + Len(carry') = Len(queue) + Len(carry)
    <3>1. Len(Tail(queue)) = Len(queue) - 1 /\ Len(<<Head(queue)>>) = 1
      BY <1>a, <2>1, HeadTailProperties
    <3>2. Len(carry) = 0
      BY <2>1
    <3> QED
      BY <1>a, <2>1, <3>1, <3>2
  <2> QED
    BY <1>c, <2>1, <2>2, <2>3 DEF Retained, Over
<1>4. CASE Feed
  <2> DEFINE frame == Head(carry)
  <2>1. frame \in Frame /\ carry = <<frame>>
    BY <1>4, <1>a, OneElement DEF Feed, RetainInv, PipeInv, PipeShape
  <2>2. /\ carry' = <<>> /\ UNCHANGED <<phase, queue, queuedBytes>> /\ ~Over
    BY <1>4 DEF Feed, RetainInv, PipeInv, PipeShape, Legs
  <2> HIDE DEF frame
  <2>3. Total(carry \o queue) = frame.bytes + Total(queue)
    BY <1>a, <2>1, TotalOfPrepend
  <2>4. frame.bytes \in Nat /\ Total(queue) \in Nat
    BY <1>a, <2>1, TotalAdds, PumpAssumption DEF Frame
  <2>5. Total(carry' \o queue') <= FrameBytes
    <3>1. carry' \o queue' = queue
      BY <1>b, <2>2
    <3> QED
      BY <1>a, <1>c, <2>3, <2>4, <3>1
  <2>6. Len(carry') = 0
    BY <2>2
  <2> QED
    BY <1>a, <1>c, <2>2, <2>5, <2>6 DEF Retained, Over
<1>5. ASSUME NEW l \in Legs, NEW message \in Message, ReadMessage(l, message) PROVE Retained'
  <2>1. phase = "connected" /\ queue = <<>> /\ UNCHANGED <<phase, queue>>
    BY <1>5 DEF ReadMessage, Polling, RetainInv, PipeInv, PipeShape
  <2>2. CASE Crosses(message)
    <3> DEFINE frame == NextFrame(l, message.bytes)
    <3>1. frame \in Frame /\ frame.bytes = message.bytes
      <4>1. frame \in Frame
        BY <1>5, <2>2, NextFrameType DEF ReadMessage, Message, Crosses, RetainInv, PipeInv
      <4> QED
        BY <4>1 DEF NextFrame
    <3>2. frame.bytes \in Nat
      BY <3>1, PumpAssumption DEF Frame
    <3>3. frame.bytes <= FrameBytes
      BY <1>5, <1>a, <3>1, <3>2 DEF ReadMessage, TooLarge
    <3>4. carry' = <<frame>>
      BY <1>5, <2>2 DEF ReadMessage
    <3> HIDE DEF frame
    <3>5. Total(<<frame>> \o <<>>) = frame.bytes + 0
      BY <1>a, <3>1, TotalOfPrepend, TotalOfNone
    <3>6. Total(carry' \o queue') <= FrameBytes
      BY <2>1, <3>2, <3>3, <3>4, <3>5
    <3> QED
      BY <2>1, <3>6 DEF Retained, Over
  <2>3. CASE ~Crosses(message)
    BY <1>5, <1>c, <2>1, <2>3 DEF ReadMessage, Retained, Over
  <2> QED
    BY <2>2, <2>3
<1>6. CASE FlushDone
  BY <1>6, <1>c DEF FlushDone, Retained, Over
<1>7. CASE Connected
  BY <1>7, <1>c DEF Connected, Retained, Over
<1>8. CASE Return
  BY <1>8 DEF Return, RetainInv, Retained, Over
<1>9. CASE UNCHANGED <<phase, queue, carry, queuedBytes>>
  BY <1>9 DEF RetainInv, Retained, Over
<1>10. \/ \E result, told, bye : End(result, told, bye)
       \/ FlushNext \/ FlushDone \/ Feed \/ Connected \/ Return
       \/ \E bytes \in Sizes : PreOpenFrame(bytes)
       \/ \E l \in Legs, message \in Message : ReadMessage(l, message)
       \/ UNCHANGED <<phase, queue, carry, queuedBytes>>
  BY DEF Next, ConnectFails, PreOpenRefused, PreOpenGone, SendDone, SendFails, SendTimesOut,
      FlushIdle, IdleFires, ReadTooLarge, ReadClose, ReadError, TellSent, TellLost, Stall,
      Resume, Break, Transport, IdleElapses, Abort, AbortBoth, vars
<1> QED
  BY <1>1, <1>2, <1>3, <1>4, <1>5, <1>6, <1>7, <1>8, <1>9, <1>10

\* For every frame cap and pending cap, and sizes of any kind, the frames a relay
\* retains stay within one frame cap in bytes and the pending cap in number.
THEOREM PumpBoundedRetention == Spec => []BoundedRetention
<1>1. Init => RetainInv
  <2> SUFFICES ASSUME Init PROVE Retained
    BY PipeStarts DEF RetainInv
  <2>1. carry \o queue = <<>> /\ queue = <<>> /\ queuedBytes = 0 /\ Len(queue) + Len(carry) = 0
    BY DEF Init
  <2> QED
    BY <2>1, TotalOfNone, PumpAssumption DEF Retained
<1>2. RetainInv /\ [Next]_vars => RetainInv'
  BY StepType, StepPipe, StepRetains DEF RetainInv, PipeInv
<1> QED
  BY <1>1, <1>2, RetainedIsBounded, PTL DEF Spec
=============================================================================
