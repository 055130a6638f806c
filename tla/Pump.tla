-------------------------------- MODULE Pump --------------------------------
(***************************************************************************)
(* One WebSocket relay: src/relay/pump.rs, with the conversions of         *)
(* src/relay/ws_convert.rs.                                                *)
(*                                                                         *)
(* The relay is one task between two sockets, the downstream (client) leg  *)
(* and the upstream leg.  A private relay starts with its upstream         *)
(* handshake in flight and queues what the client sends meanwhile; a       *)
(* public one starts connected.  While a bounded_send is awaited the task  *)
(* polls nothing else.                                                     *)
(*                                                                         *)
(* Time is abstracted to what the task can observe: the idle deadline has  *)
(* passed or not, and a send or a close handshake that a leg does not      *)
(* accept runs into its own timeout.  A leg is "stalled" when its sink     *)
(* accepts nothing for a whole send timeout, "broken" when its transport   *)
(* failed, "faulty" when its stream failed or ended although the transport *)
(* had not (a protocol error of a peer that may still be there), "closed"  *)
(* when its peer's Close was read, and "absent" before the upstream        *)
(* handshake is done.                                                      *)
(***************************************************************************)
EXTENDS Naturals, Sequences

CONSTANTS FrameBytes,    \* policy.frame_bytes
          MaxPending,    \* MAX_PENDING_FRAMES
          Sizes,         \* payload sizes peers send; some exceed FrameBytes
          PeerCloses,    \* close frames a peer sends with a code of its own
          MaxClient,     \* bound: data frames read from the client
          MaxUpstream    \* bound: data frames read from the upstream

ASSUME PumpAssumption ==
    /\ FrameBytes \in Nat
    /\ MaxPending \in Nat
    /\ Sizes \subseteq Nat
    /\ PeerCloses \subseteq [code : Nat \ {0}, reason : STRING]
    /\ MaxClient \in Nat
    /\ MaxUpstream \in Nat

VARIABLES policy,      \* close_policy; it also tells which entry point was used
          phase,       \* where the task is
          health,      \* health[l]: what leg l's transport does
          idle,        \* the idle deadline: none yet, disabled, running or passed
          queue,       \* frames waiting for the upstream handshake
          queuedBytes, \* their size, while the handshake is in flight
          awaiting,    \* the leg whose bounded_send is awaited, or "nobody"
          carry,       \* the frame of that send until the sink accepts it
          farewell,    \* the Close the legs being told are sent
          telling,     \* telling[l]: progress of tell_downstream / tell_upstream
          outcome,     \* the PumpOutcome, once decided
          read,        \* history: data frames taken from each leg
          logged,      \* history: frames given to log_frame, by the leg read
          out,         \* history: data frames each leg's sink accepted
          closeSent    \* history: the Close each leg's sink accepted, if any

vars == <<policy, phase, health, idle, queue, queuedBytes, awaiting, carry,
          farewell, telling, outcome, read, logged, out, closeSent>>

Legs == {"downstream", "upstream"}

Peer(l) == IF l = "downstream" THEN "upstream" ELSE "downstream"

MaxRead(l) == IF l = "downstream" THEN MaxClient ELSE MaxUpstream

\* The frames of a leg are numbered in the order they are read.
Frame == [id : 1..(MaxClient + MaxUpstream), bytes : Sizes]

NoFrame == [code |-> 0, reason |-> ""]

CodeNormal == 1000
CodeGoingAway == 1001
CodePolicy == 1009
CodeInternal == 1011

\* What the pump writes of its own accord.
PolicyReasons == {"frame too large", "too many pending frames",
                  "queued frames too large"}
InternalReasons == {"upstream connect failed", "upstream error",
                    "upstream send failed", "client send failed",
                    "upstream send timed out", "downstream send timed out"}
AbortFrames == [code : {CodePolicy}, reason : PolicyReasons]
               \cup [code : {CodeInternal}, reason : InternalReasons]
               \cup [code : {CodeGoingAway}, reason : {"idle timeout"}]

Outcome ==
    [kind : {"none", "ClientClosed", "UpstreamClosed", "Aborted"},
     code : Nat,
     reason : PolicyReasons \cup InternalReasons \cup {"", "idle timeout"}
              \cup {frame.reason : frame \in PeerCloses}]
Undecided == [kind |-> "none", code |-> 0, reason |-> ""]

-----------------------------------------------------------------------------
(* Helpers of the pump.  A definition named ...Slip is not used by the       *)
(* specification: it is a wrong version of the definition that follows it,   *)
(* kept to show that a property of this module notices the difference.       *)

AcceptPending(queueLen) == queueLen < MaxPending

QueuedBytesFitSlip(current, next) == next <= FrameBytes
QueuedBytesFit(current, next) == current + next <= FrameBytes

TooLarge(bytes) == bytes > FrameBytes

(* axum_to_tungstenite and tungstenite_to_axum: ping and pong stay on their leg. *)
Message == [kind : {"data"}, bytes : Sizes] \cup [kind : {"control"}, bytes : {0}]

Crosses(message) == message.kind = "data"

(* A Close without a code, or with none of its own, becomes 1000. *)
CloseParts(frame) ==
    [code |-> IF frame.code = 0 THEN CodeNormal ELSE frame.code,
     reason |-> frame.reason]

CloseFrame ==
    AbortFrames \cup PeerCloses
    \cup [code : {CodeNormal}, reason : {"", "client closed"}]

(* The oldest queued frame leaves the queue first (push_back, pop_front). *)
EnqueuedSlip(frame) == <<frame>> \o queue
Enqueued(frame) == Append(queue, frame)
NextQueued == Head(queue)
RestQueued == Tail(queue)

NextFrame(l, bytes) == [id |-> Len(read[l]) + 1, bytes |-> bytes]

LogFrameSlip(l, frame) ==
    IF phase = "flushing" THEN logged
    ELSE [logged EXCEPT ![l] = Append(@, frame)]
LogFrame(l, frame) == [logged EXCEPT ![l] = Append(@, frame)]

Over == phase \in {"closing", "done"}

(* Every received message moves the deadline; a disabled one stays disabled. *)
Rearmed == IF idle = "disabled" THEN idle ELSE "running"

Absent(l) == health[l] = "absent"

(***************************************************************************)
(* The relay is decided: told is the set of legs tell_downstream and       *)
(* tell_upstream are called for, bye the Close they carry.  Whatever the   *)
(* task still held (queue, pending send) is dropped with it.               *)
(***************************************************************************)
End(result, told, bye) ==
    /\ outcome' = result
    /\ farewell' = bye
    /\ telling' = [l \in Legs |-> IF l \in told THEN "sending" ELSE "none"]
    /\ phase' = IF told = {} THEN "done" ELSE "closing"
    /\ queue' = <<>>
    /\ queuedBytes' = 0
    /\ awaiting' = "nobody"
    /\ carry' = <<>>
    /\ UNCHANGED <<policy, out, closeSent>>

ToldOnAbortBothSlip == {"downstream"}
ToldOnAbortBoth == Legs

Abort(told, code, reason) ==
    End([kind |-> "Aborted", code |-> code, reason |-> reason], told,
        [code |-> code, reason |-> reason])

AbortBoth(code, reason) == Abort(ToldOnAbortBoth, code, reason)

ClientClosed == [kind |-> "ClientClosed", code |-> CodeNormal, reason |-> ""]

-----------------------------------------------------------------------------
Init ==
    /\ \/ /\ policy = "PrivateNormalized"
          /\ phase = "connecting"
          /\ health = [l \in Legs |-> IF l = "upstream" THEN "absent" ELSE "ok"]
          /\ idle \in {"disabled", "unarmed"}
       \/ /\ policy = "Transparent"
          /\ phase = "connected"
          /\ health = [l \in Legs |-> "ok"]
          /\ idle \in {"disabled", "running"}
    /\ queue = <<>>
    /\ queuedBytes = 0
    /\ awaiting = "nobody"
    /\ carry = <<>>
    /\ farewell = NoFrame
    /\ telling = [l \in Legs |-> "none"]
    /\ outcome = Undecided
    /\ read = [l \in Legs |-> <<>>]
    /\ logged = [l \in Legs |-> <<>>]
    /\ out = [l \in Legs |-> <<>>]
    /\ closeSent = [l \in Legs |-> <<>>]

-----------------------------------------------------------------------------
(* run_private_with, before the upstream handshake is done.                *)

Connected ==
    /\ phase = "connecting"
    /\ phase' = "flushing"
    /\ health' = [health EXCEPT !["upstream"] = "ok"]
    /\ idle' = Rearmed
    /\ queuedBytes' = 0
    /\ UNCHANGED <<policy, queue, awaiting, carry, farewell, telling, outcome,
                   read, logged, out, closeSent>>

ConnectFails ==
    /\ phase = "connecting"
    /\ Abort({"downstream"}, CodeInternal, "upstream connect failed")
    /\ UNCHANGED <<health, idle, read, logged>>

(* A data frame joins the queue; a control frame changes nothing here. *)
PreOpenFrame(bytes) ==
    /\ phase = "connecting"
    /\ health["downstream"] \in {"ok", "stalled"}
    /\ Len(read["downstream"]) < MaxRead("downstream")
    /\ ~TooLarge(bytes)
    /\ AcceptPending(Len(queue))
    /\ QueuedBytesFit(queuedBytes, bytes)
    /\ LET frame == NextFrame("downstream", bytes) IN
          /\ queue' = Enqueued(frame)
          /\ read' = [read EXCEPT !["downstream"] = Append(@, frame)]
    /\ queuedBytes' = queuedBytes + bytes
    /\ UNCHANGED <<policy, phase, health, idle, awaiting, carry, farewell,
                   telling, outcome, logged, out, closeSent>>

(* The checks run in this order: frame size, frame count, queue size. *)
PreOpenRefused(bytes) ==
    /\ phase = "connecting"
    /\ health["downstream"] \in {"ok", "stalled"}
    /\ \/ /\ TooLarge(bytes)
          /\ Abort({"downstream"}, CodePolicy, "frame too large")
       \/ /\ ~TooLarge(bytes)
          /\ ~AcceptPending(Len(queue))
          /\ Abort({"downstream"}, CodePolicy, "too many pending frames")
       \/ /\ ~TooLarge(bytes)
          /\ AcceptPending(Len(queue))
          /\ ~QueuedBytesFit(queuedBytes, bytes)
          /\ Abort({"downstream"}, CodePolicy, "queued frames too large")
    /\ UNCHANGED <<health, idle, read, logged>>

(* Close, error or end of stream: the handshake and the queue are dropped, *)
(* and the client is sent nothing, an error on a live transport included.  *)
PreOpenGone ==
    /\ phase = "connecting"
    /\ \E to \in {"closed", "faulty"} :
          health' = [health EXCEPT !["downstream"] =
                       IF @ = "broken" THEN "broken" ELSE to]
    /\ End(ClientClosed, {}, NoFrame)
    /\ UNCHANGED <<idle, read, logged>>

-----------------------------------------------------------------------------
(* Awaiting a bounded_send, while flushing or connected.  A sink that      *)
(* accepted the frame may still hold it: then the flush is awaited.        *)

FlushNext ==
    /\ phase = "flushing"
    /\ awaiting = "nobody"
    /\ queue # <<>>
    /\ carry' = <<NextQueued>>
    /\ queue' = RestQueued
    /\ awaiting' = "upstream"
    /\ logged' = LogFrame("downstream", NextQueued)
    /\ UNCHANGED <<policy, phase, health, idle, queuedBytes, farewell, telling,
                   outcome, read, out, closeSent>>

FlushDone ==
    /\ phase = "flushing"
    /\ awaiting = "nobody"
    /\ queue = <<>>
    /\ phase' = "connected"
    /\ UNCHANGED <<policy, health, idle, queue, queuedBytes, awaiting, carry,
                   farewell, telling, outcome, read, logged, out, closeSent>>

Feed ==
    /\ awaiting \in Legs
    /\ carry # <<>>
    /\ health[awaiting] \in {"ok", "stalled"}
    /\ out' = [out EXCEPT ![awaiting] = Append(@, Head(carry))]
    /\ carry' = <<>>
    /\ UNCHANGED <<policy, phase, health, idle, queue, queuedBytes, awaiting,
                   farewell, telling, outcome, read, logged, closeSent>>

SendDone ==
    /\ awaiting \in Legs
    /\ carry = <<>>
    /\ health[awaiting] = "ok"
    /\ awaiting' = "nobody"
    /\ UNCHANGED <<policy, phase, health, idle, queue, queuedBytes, carry,
                   farewell, telling, outcome, read, logged, out, closeSent>>

SendFails ==
    /\ awaiting \in Legs
    /\ health[awaiting] = "broken"
    /\ Abort({Peer(awaiting)}, CodeInternal,
             IF awaiting = "upstream" THEN "upstream send failed"
                                      ELSE "client send failed")
    /\ UNCHANGED <<health, idle, read, logged>>

SendTimesOutSlip == FALSE

SendTimesOut ==
    /\ awaiting \in Legs
    /\ health[awaiting] = "stalled"
    /\ AbortBoth(CodeInternal,
                 IF awaiting = "upstream" THEN "upstream send timed out"
                                          ELSE "downstream send timed out")
    /\ UNCHANGED <<health, idle, read, logged>>

(* Only the flush of the queue races its send against the idle deadline. *)
FlushIdle ==
    /\ phase = "flushing"
    /\ awaiting \in Legs
    /\ idle = "expired"
    /\ AbortBoth(CodeGoingAway, "idle timeout")
    /\ UNCHANGED <<health, idle, read, logged>>

-----------------------------------------------------------------------------
(* run_connected_from_deadline: the unbiased select, one branch taken.     *)

PollingSlip == phase = "connected"
Polling == phase = "connected" /\ awaiting = "nobody"

IdleFiresSlip ==
    /\ policy = "PrivateNormalized"
    /\ Polling
    /\ idle = "expired"
    /\ AbortBoth(CodeGoingAway, "idle timeout")
    /\ UNCHANGED <<health, idle, read, logged>>

IdleFires ==
    /\ Polling
    /\ idle = "expired"
    /\ AbortBoth(CodeGoingAway, "idle timeout")
    /\ UNCHANGED <<health, idle, read, logged>>

(* A message within the cap: logged and sent on when it is a data frame. *)
ReadMessage(l, message) ==
    /\ Polling
    /\ health[l] \in {"ok", "stalled"}
    /\ ~TooLarge(message.bytes)
    /\ idle' = Rearmed
    /\ IF Crosses(message)
       THEN LET frame == NextFrame(l, message.bytes) IN
               /\ Len(read[l]) < MaxRead(l)
               /\ read' = [read EXCEPT ![l] = Append(@, frame)]
               /\ logged' = LogFrame(l, frame)
               /\ carry' = <<frame>>
               /\ awaiting' = Peer(l)
       ELSE UNCHANGED <<read, logged, carry, awaiting>>
    /\ UNCHANGED <<policy, phase, health, queue, queuedBytes, farewell, telling,
                   outcome, out, closeSent>>

(* A message over the cap, or a read refused for its size by the socket,   *)
(* which leaves the deadline alone.                                        *)
ReadTooLarge(l) ==
    /\ Polling
    /\ health[l] \in {"ok", "stalled"}
    /\ AbortBoth(CodePolicy, "frame too large")
    /\ idle' \in {idle, Rearmed}
    /\ UNCHANGED <<health, read, logged>>

ReadClose(l, frame) ==
    /\ Polling
    /\ health[l] \in {"ok", "stalled"}
    /\ health' = [health EXCEPT ![l] = "closed"]
    /\ IF l = "upstream"
       THEN End([kind |-> "UpstreamClosed", code |-> CloseParts(frame).code,
                 reason |-> frame.reason], {"downstream"}, CloseParts(frame))
       ELSE End(ClientClosed, {"upstream"},
                IF policy = "Transparent" THEN CloseParts(frame)
                ELSE [code |-> CodeNormal, reason |-> "client closed"])
    /\ UNCHANGED <<idle, read, logged>>

(* The stream of l yields an error or its end, its transport broken or not. *)
StreamFails(l) ==
    /\ health[l] \in {"ok", "stalled", "broken"}
    /\ health' = [health EXCEPT ![l] = IF @ = "broken" THEN "broken" ELSE "faulty"]

ReadErrorSlip(l) ==
    /\ Polling
    /\ l = "upstream"
    /\ StreamFails(l)
    /\ Abort({"downstream"}, CodeInternal, "upstream error")
    /\ UNCHANGED <<idle, read, logged>>

(* A read error, or the end of the stream without a Close: the peer of l is *)
(* told, l is not.                                                          *)
ReadError(l) ==
    /\ Polling
    /\ StreamFails(l)
    /\ IF l = "upstream"
       THEN Abort({"downstream"}, CodeInternal, "upstream error")
       ELSE End(ClientClosed, {"upstream"},
                [code |-> CodeNormal, reason |-> "client closed"])
    /\ UNCHANGED <<idle, read, logged>>

-----------------------------------------------------------------------------
(* tell_downstream and tell_upstream, joined by abort_both: each is        *)
(* bounded on its own.                                                     *)

TellSent(l) ==
    /\ telling[l] = "sending"
    /\ health[l] \in {"ok", "stalled"}
    /\ closeSent' = [closeSent EXCEPT ![l] = <<farewell>>]
    /\ telling' = [telling EXCEPT ![l] = "told"]
    /\ UNCHANGED <<policy, phase, health, idle, queue, queuedBytes, awaiting,
                   carry, farewell, outcome, read, logged, out>>

TellLost(l) ==
    /\ telling[l] = "sending"
    /\ health[l] # "ok"
    /\ telling' = [telling EXCEPT ![l] = "told"]
    /\ UNCHANGED <<policy, phase, health, idle, queue, queuedBytes, awaiting,
                   carry, farewell, outcome, read, logged, out, closeSent>>

ToldAllSlip == \A l \in Legs : telling[l] = "told"
ToldAll == \A l \in Legs : telling[l] # "sending"

(* The pump returns: both sockets are dropped. *)
Return ==
    /\ phase = "closing"
    /\ ToldAll
    /\ phase' = "done"
    /\ UNCHANGED <<policy, health, idle, queue, queuedBytes, awaiting, carry,
                   farewell, telling, outcome, read, logged, out, closeSent>>

-----------------------------------------------------------------------------
(* The sockets and the clock.                                              *)

Transport(l, from, to) ==
    /\ phase # "done"
    /\ health[l] \in from
    /\ health' = [health EXCEPT ![l] = to]
    /\ UNCHANGED <<policy, phase, idle, queue, queuedBytes, awaiting, carry,
                   farewell, telling, outcome, read, logged, out, closeSent>>

Stall(l) == Transport(l, {"ok"}, "stalled")
Resume(l) == Transport(l, {"stalled"}, "ok")
Break(l) == Transport(l, {"ok", "stalled"}, "broken")

IdleElapses ==
    /\ phase \in {"flushing", "connected"}
    /\ idle = "running"
    /\ idle' = "expired"
    /\ UNCHANGED <<policy, phase, health, queue, queuedBytes, awaiting, carry,
                   farewell, telling, outcome, read, logged, out, closeSent>>

-----------------------------------------------------------------------------
Opening == Connected \/ ConnectFails
Flush == FlushNext \/ FlushDone
SendStep == Feed \/ SendDone \/ SendFails \/ SendTimesOut \/ FlushIdle
TellStep(l) == TellSent(l) \/ TellLost(l)

Next ==
    \/ Connected
    \/ ConnectFails
    \/ \E bytes \in Sizes : PreOpenFrame(bytes)
    \/ \E bytes \in Sizes : PreOpenRefused(bytes)
    \/ PreOpenGone
    \/ FlushNext
    \/ FlushDone
    \/ Feed
    \/ SendDone
    \/ SendFails
    \/ SendTimesOut
    \/ FlushIdle
    \/ IdleFires
    \/ \E l \in Legs, message \in Message : ReadMessage(l, message)
    \/ \E l \in Legs : ReadTooLarge(l)
    \/ \E l \in Legs, frame \in PeerCloses \cup {NoFrame} : ReadClose(l, frame)
    \/ \E l \in Legs : ReadError(l)
    \/ \E l \in Legs : TellSent(l)
    \/ \E l \in Legs : TellLost(l)
    \/ Return
    \/ \E l \in Legs : Stall(l) \/ Resume(l) \/ Break(l)
    \/ IdleElapses

Spec == Init /\ [][Next]_vars

(***************************************************************************)
(* The task is polled while it can run, and timeouts make every await      *)
(* finite: the handshake has connect_timeout, a send and each tell have    *)
(* send_timeout.  The select of the connected loop starts at a random      *)
(* branch, so a branch that is ready again and again is taken.  Peers and  *)
(* sockets are under no obligation: a read fails for certain only where    *)
(* the transport is broken.                                                *)
(***************************************************************************)
Fairness ==
    /\ WF_vars(Opening)
    /\ WF_vars(Flush)
    /\ WF_vars(SendStep)
    /\ \A l \in Legs : WF_vars(TellStep(l))
    /\ WF_vars(Return)
    /\ \A l \in Legs : SF_vars(health[l] = "broken" /\ ReadError(l))
    /\ SF_vars(IdleFires)

FairSpec == Spec /\ Fairness

-----------------------------------------------------------------------------
(* Properties.                                                             *)

\* Type correctness of the relay's state: every variable of the pump keeps the
\* values src/relay/pump.rs can give it.
TypeOK ==
    /\ policy \in {"Transparent", "PrivateNormalized"}
    /\ phase \in {"connecting", "flushing", "connected", "closing", "done"}
    /\ health \in [Legs -> {"absent", "ok", "stalled", "broken", "faulty", "closed"}]
    /\ idle \in {"disabled", "unarmed", "running", "expired"}
    /\ queue \in Seq(Frame)
    /\ queuedBytes \in Nat
    /\ awaiting \in Legs \cup {"nobody"}
    /\ carry \in Seq(Frame)
    /\ farewell \in CloseFrame \cup {NoFrame}
    /\ telling \in [Legs -> {"none", "sending", "told"}]
    /\ \A l \in Legs : telling[l] = "sending" => farewell \in CloseFrame
    /\ outcome \in Outcome
    /\ read \in [Legs -> Seq(Frame)]
    /\ logged \in [Legs -> Seq(Frame)]
    /\ out \in [Legs -> Seq(Frame)]
    /\ closeSent \in [Legs -> Seq(CloseFrame)]

\* What was read from leg l and the other leg's sink has not accepted yet.
Held(l) ==
    (IF awaiting = Peer(l) THEN carry ELSE <<>>)
    \o (IF l = "downstream" THEN queue ELSE <<>>)

\* While the relay lives, no data frame is lost, duplicated or overtaken in
\* either direction: what a leg delivered is what its peer's sink accepted
\* followed by what the task still holds.  The hand-over from the pre-open queue
\* through the flush to the connected loop is where this could break.
Lossless == ~Over => \A l \in Legs : read[l] = out[Peer(l)] \o Held(l)

(* What makes Lossless inductive: the carry holds at most the frame of the *)
(* send being awaited, only the upstream is written before the relay is    *)
(* connected, and the queue is empty from then on.                         *)
PipeShape ==
    /\ Len(carry) <= 1
    /\ awaiting = "nobody" => carry = <<>>
    /\ phase = "connecting" => awaiting = "nobody"
    /\ phase = "flushing" => awaiting # "downstream"
    /\ phase = "connected" => queue = <<>>
    /\ Over => awaiting = "nobody"

Total(frames) ==
    LET sum[n \in 0..Len(frames)] ==
          IF n = 0 THEN 0 ELSE sum[n - 1] + frames[n].bytes
    IN  sum[Len(frames)]

\* However the two legs are interleaved, the frames the task retains stay within
\* one frame cap in bytes and within the pending cap in number.
BoundedRetention ==
    /\ Len(queue) + Len(carry) <= (IF MaxPending = 0 THEN 1 ELSE MaxPending)
    /\ Total(Held("downstream")) <= FrameBytes
    /\ Total(Held("upstream")) <= FrameBytes

\* A relay never returns leaving a peer that is still there without an attempt
\* to tell it: each leg that neither failed nor closed by itself went through
\* tell_downstream or tell_upstream.  The leg whose own stream failed is the
\* exception the code makes: it is not told even when its transport is alive.
NoPeerAbandoned ==
    phase = "done" =>
        \A l \in Legs : health[l] \in {"ok", "stalled"} => telling[l] = "told"

\* The frame log is never behind the wire, and at most one frame ahead of it: a
\* frame a peer may have received has its record, even when its send then fails
\* or times out.
LogLeadsWire ==
    \A l \in Legs :
        /\ Len(out[Peer(l)]) <= Len(logged[l])
        /\ Len(logged[l]) <= Len(out[Peer(l)]) + 1
        /\ logged[l] = SubSeq(read[l], 1, Len(logged[l]))

\* What README.md:163 says of a nonzero idle timeout, "expiry closes both legs
\* with 1001 / idle timeout": a relay whose deadline has passed does not live on
\* to be ended by the timeout of a send.
IdleExpiryClosesIdle ==
    idle = "expired" =>
        outcome.reason \notin {"upstream send timed out",
                               "downstream send timed out"}

\* The relay as the contract sees it: a clean end is a Close, or an end of the
\* client's stream, observed after the upstream was there.
Ended ==
    CASE ~Over -> "no"
      [] Over /\ outcome.kind # "Aborted" /\ ~Absent("upstream") -> "clean"
      [] OTHER -> "aborted"

Contract == INSTANCE RelayContract
              WITH Close <- CloseFrame, taken <- read, given <- out,
                   bye <- closeSent, ended <- Ended

\* The pump implements the relay contract: prefix delivery in order, nothing
\* written to a leg after its Close or after the end, completeness of both
\* directions when the end is clean.
ImplementsContract == Contract!ContractSpec

\* Once the pump has decided to end it returns, whatever the two sinks do.
TeardownEnds == phase = "closing" ~> phase = "done"

\* A bounded_send never holds the task for good: a peer that stops reading
\* cannot pin the relay, its connection permit and the other peer.
SendResolves == awaiting # "nobody" ~> awaiting = "nobody"

\* A transport that fails ends the relay, from any phase and whatever the other
\* leg keeps sending.
BrokenLegEndsRelay ==
    \A l \in Legs : health[l] = "broken" ~> phase = "done"

\* So nothing holds a relay for good: neither its own teardown, nor a peer that has
\* stopped reading, nor one that is gone.
NothingPinsTheRelay == TeardownEnds /\ SendResolves /\ BrokenLegEndsRelay

\* A passed idle deadline is acted on: a message moves it or the relay ends.
ExpiryIsNoticed == idle = "expired" ~> (idle # "expired" \/ phase = "done")
=============================================================================
