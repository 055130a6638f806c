------------------------------ MODULE Sessions ------------------------------
(***************************************************************************)
(* WebSocket sessions and their connection permits: the handlers of        *)
(* src/realtime/websocket.rs and src/live/sideband.rs, and the selection   *)
(* of a subprotocol in src/realtime/subprotocol.rs.                        *)
(*                                                                         *)
(* A public session is upstream first: its handler finishes the upstream   *)
(* handshake before it answers 101.  A private one answers 101 at once and *)
(* the relay does the handshake.  The permit is owned by the handler, then *)
(* by the task that waits for the connection to be upgraded (axum's), then *)
(* by the relay.  What a relay does is module Pump; the checks before the  *)
(* permit is asked for keep no state and are not here.                     *)
(***************************************************************************)
EXTENDS Naturals, FiniteSets

CONSTANTS Sessions,       \* one per WebSocket request that reaches its permit
          MaxConnections  \* limits.active_connections

ASSUME SessionsAssumption ==
    /\ IsFiniteSet(Sessions)
    /\ MaxConnections \in Nat \ {0}

VARIABLES dialect,   \* dialect[s]: which of the two ways s is served
          offer,     \* offer[s]: the tokens the client may speak
          stage,     \* stage[s]: how far s is
          free,      \* permits the semaphore has left
          holds,     \* holds[s]: somebody owns the permit of s
          upstream,  \* upstream[s]: the socket to the upstream
          chosen,    \* chosen[s]: the token the upstream selected
          spoken     \* spoken[s]: the token the client was answered

vars == <<dialect, offer, stage, free, holds, upstream, chosen, spoken>>

\* A browser offers its credential, organization and project as tokens beside
\* "realtime"; one stands for them all.
Offers == {{}, {"realtime"}, {"realtime", "credential"}}

\* What the upstream answers: no header, one with that token, or a header that
\* appears twice.
Token == {"none", "realtime", "credential", "repeated"}

Stage == {"new", "connecting", "declining", "upgrading", "opening", "relaying",
          "returned", "ended", "refused", "dropped"}

-----------------------------------------------------------------------------
(* A definition named ...Slip is not used by the specification: it is a      *)
(* wrong version of the definition that follows it, kept to show that a      *)
(* property of this module notices the difference.                           *)

\* The client library accepts a token that was offered, and insists on one when
\* any was; of a repeated header it looks at the first.
Agreeable(s, token) ==
    IF offer[s] = {} THEN token = "none" ELSE token \in offer[s] \cup {"repeated"}

ValidateSelectedSlip(s, token) ==
    token = "none" \/ (token # "repeated" /\ token \in offer[s])

\* validate_selected: no token, or the public one; never a repeated header.
ValidateSelected(s, token) ==
    \/ token = "none"
    \/ /\ token # "repeated"
       /\ token = "realtime"
       /\ token \in offer[s]

\* public_response names a protocol when the upstream selected one.
Answered(token) == IF token = "none" THEN "none" ELSE "realtime"

TakePermitSlip(s) ==
    /\ free > 0
    /\ holds' = [holds EXCEPT ![s] = TRUE]
    /\ UNCHANGED free

TakePermit(s) ==
    /\ free > 0
    /\ free' = free - 1
    /\ holds' = [holds EXCEPT ![s] = TRUE]

GivePermit(s) ==
    /\ free' = free + 1
    /\ holds' = [holds EXCEPT ![s] = FALSE]

KeepPermit == UNCHANGED <<free, holds>>

To(s, next) == stage' = [stage EXCEPT ![s] = next]

DropUpstreamSlip(s) == UNCHANGED upstream

\* The socket is dropped, or the connect future that would have made it.
DropUpstream(s) ==
    upstream' = [upstream EXCEPT ![s] = IF @ = "none" THEN "none" ELSE "dropped"]

-----------------------------------------------------------------------------
Init ==
    /\ dialect \in [Sessions -> {"public", "private"}]
    /\ offer \in [Sessions -> Offers]
    /\ \A s \in Sessions : dialect[s] = "private" => offer[s] = {}
    /\ stage = [s \in Sessions |-> "new"]
    /\ free = MaxConnections
    /\ holds = [s \in Sessions |-> FALSE]
    /\ upstream = [s \in Sessions |-> "none"]
    /\ chosen = [s \in Sessions |-> "none"]
    /\ spoken = [s \in Sessions |-> "none"]

-----------------------------------------------------------------------------
(* The handler.                                                            *)

Refuse(s) ==
    /\ stage[s] = "new"
    /\ free = 0
    /\ To(s, "refused")
    /\ KeepPermit
    /\ UNCHANGED <<dialect, offer, upstream, chosen, spoken>>

\* The upstream URL or request of a public session cannot be built: the permit
\* is taken and returned.
CannotBuild(s) ==
    /\ stage[s] = "new"
    /\ dialect[s] = "public"
    /\ free > 0
    /\ To(s, "refused")
    /\ KeepPermit
    /\ UNCHANGED <<dialect, offer, upstream, chosen, spoken>>

AdmitPublicSlip(s) ==
    /\ stage[s] = "new"
    /\ dialect[s] = "public"
    /\ TakePermit(s)
    /\ To(s, "upgrading")
    /\ upstream' = [upstream EXCEPT ![s] = "connecting"]
    /\ UNCHANGED <<dialect, offer, chosen, spoken>>

AdmitPublic(s) ==
    /\ stage[s] = "new"
    /\ dialect[s] = "public"
    /\ TakePermit(s)
    /\ To(s, "connecting")
    /\ upstream' = [upstream EXCEPT ![s] = "connecting"]
    /\ UNCHANGED <<dialect, offer, chosen, spoken>>

\* private_response and handle_sideband: 101 before anything is contacted.
AdmitPrivate(s) ==
    /\ stage[s] = "new"
    /\ dialect[s] = "private"
    /\ TakePermit(s)
    /\ To(s, "upgrading")
    /\ UNCHANGED <<dialect, offer, upstream, chosen, spoken>>

UpstreamReady(s, token) ==
    /\ stage[s] = "connecting"
    /\ Agreeable(s, token)
    /\ upstream' = [upstream EXCEPT ![s] = "open"]
    /\ chosen' = [chosen EXCEPT ![s] = token]
    /\ IF ValidateSelected(s, token)
       THEN To(s, "upgrading") /\ spoken' = [spoken EXCEPT ![s] = Answered(token)]
       ELSE To(s, "declining") /\ UNCHANGED spoken
    /\ KeepPermit
    /\ UNCHANGED <<dialect, offer>>

\* The handler answers an error: its upstream is dropped, then its permit.
Fail(s, from) ==
    /\ stage[s] = from
    /\ To(s, "refused")
    /\ DropUpstream(s)
    /\ GivePermit(s)
    /\ UNCHANGED <<dialect, offer, chosen, spoken>>

ConnectFailsSlip(s) == FALSE

\* websocket_connect_timeout, a rejection, or a handshake error.
ConnectFails(s) == Fail(s, "connecting")

\* upstream.close returned, or websocket_send_timeout elapsed.
Declined(s) == Fail(s, "declining")

\* The client leaves while the handler awaits: the server drops the handler.
ClientLeaves(s) ==
    /\ stage[s] \in {"connecting", "declining"}
    /\ To(s, "dropped")
    /\ DropUpstream(s)
    /\ GivePermit(s)
    /\ UNCHANGED <<dialect, offer, chosen, spoken>>

-----------------------------------------------------------------------------
(* on_upgrade's task.                                                      *)

\* The relay starts: a public one is connected, a private one opens its upstream.
Upgraded(s) ==
    /\ stage[s] = "upgrading"
    /\ IF dialect[s] = "public"
       THEN To(s, "relaying") /\ UNCHANGED upstream
       ELSE To(s, "opening") /\ upstream' = [upstream EXCEPT ![s] = "connecting"]
    /\ KeepPermit
    /\ UNCHANGED <<dialect, offer, chosen, spoken>>

\* The connection failed before it was upgraded: the callback is dropped with the
\* permit and the upstream it owns, here in one step.
UpgradeFails(s) ==
    /\ stage[s] = "upgrading"
    /\ To(s, "dropped")
    /\ DropUpstream(s)
    /\ GivePermit(s)
    /\ UNCHANGED <<dialect, offer, chosen, spoken>>

-----------------------------------------------------------------------------
(* The relay's task.                                                       *)

RelayOpens(s) ==
    /\ stage[s] = "opening"
    /\ To(s, "relaying")
    /\ upstream' = [upstream EXCEPT ![s] = "open"]
    /\ KeepPermit
    /\ UNCHANGED <<dialect, offer, chosen, spoken>>

\* The pump returns, having dropped both sockets: from its pre-open phase too,
\* where connect_timeout bounds it.
RelayReturns(s) ==
    /\ stage[s] \in {"opening", "relaying"}
    /\ To(s, "returned")
    /\ DropUpstream(s)
    /\ KeepPermit
    /\ UNCHANGED <<dialect, offer, chosen, spoken>>

RelayEnds(s) ==
    /\ stage[s] = "returned"
    /\ To(s, "ended")
    /\ GivePermit(s)
    /\ UNCHANGED <<dialect, offer, upstream, chosen, spoken>>

-----------------------------------------------------------------------------
Next == \E s \in Sessions :
    \/ Refuse(s)
    \/ CannotBuild(s)
    \/ AdmitPublic(s)
    \/ AdmitPrivate(s)
    \/ \E token \in Token : UpstreamReady(s, token)
    \/ ConnectFails(s)
    \/ Declined(s)
    \/ ClientLeaves(s)
    \/ Upgraded(s)
    \/ UpgradeFails(s)
    \/ RelayOpens(s)
    \/ RelayReturns(s)
    \/ RelayEnds(s)

Spec == Init /\ [][Next]_vars

(***************************************************************************)
(* The handshake, the close of a declined upstream and the opening of a    *)
(* private relay have timeouts, and the connection that was answered 101   *)
(* is upgraded or fails.  Nothing is assumed of an upstream that stays     *)
(* silent, of the client, or of a relay that is connected.                 *)
(***************************************************************************)
Fairness ==
    \A s \in Sessions :
        /\ WF_vars(ConnectFails(s))
        /\ WF_vars(Declined(s))
        /\ WF_vars(Upgraded(s) \/ UpgradeFails(s))
        /\ WF_vars(stage[s] = "opening" /\ (RelayOpens(s) \/ RelayReturns(s)))
        /\ WF_vars(RelayEnds(s))

FairSpec == Spec /\ Fairness

-----------------------------------------------------------------------------
(* Properties.                                                             *)

\* Type correctness of the sessions: what a WebSocket handler of
\* src/realtime/websocket.rs or src/live/sideband.rs can have reached.
TypeOK ==
    /\ dialect \in [Sessions -> {"public", "private"}]
    /\ offer \in [Sessions -> Offers]
    /\ stage \in [Sessions -> Stage]
    /\ free \in 0..MaxConnections
    /\ holds \in [Sessions -> BOOLEAN]
    /\ upstream \in [Sessions -> {"none", "connecting", "open", "dropped"}]
    /\ chosen \in [Sessions -> Token]
    /\ spoken \in [Sessions -> Token]

Over(s) == stage[s] \in {"refused", "dropped", "ended"}

AtWork(s) == stage[s] # "new" /\ ~Over(s)

\* Whoever ends a session, at whichever of its await points (the handler, the
\* server that drops it, the upgrade task or the relay), its permit goes back
\* once, and no upstream socket outlives it.
NothingLeaks ==
    /\ free + Cardinality({s \in Sessions : holds[s]}) = MaxConnections
    /\ \A s \in Sessions : holds[s] <=> AtWork(s)
    /\ \A s \in Sessions : upstream[s] \in {"connecting", "open"} => holds[s]

\* A public client is told 101 only when its upstream is connected and its
\* protocol validated; a private upstream is contacted only for a client that
\* was upgraded.
ContactOrder ==
    \A s \in Sessions :
        IF dialect[s] = "public"
        THEN stage[s] \in {"upgrading", "relaying"} => upstream[s] = "open"
        ELSE upstream[s] # "none" => stage[s] \notin {"new", "upgrading", "refused", "dropped"}

\* The two legs of a relay speak the same subprotocol, whatever the upstream
\* selected of what it was offered; a credential is never the protocol of a call.
LegsAgree ==
    \A s \in Sessions :
        stage[s] \in {"relaying", "returned", "ended"} =>
            /\ spoken[s] = chosen[s]
            /\ spoken[s] # "credential"

\* The semaphore state.active_connections of src/app.rs bounds the sessions that
\* are at work.
Pool == INSTANCE PermitPool
          WITH Jobs <- Sessions, Size <- MaxConnections,
               working <- {s \in Sessions : AtWork(s)},
               left <- {s \in Sessions : stage[s] \in {"dropped", "ended"}
                                         \/ (stage[s] = "refused" /\ upstream[s] # "none")}
ImplementsPool == Pool!PoolSpec

\* A permit is never pinned by a handshake: whatever the upstream and the client
\* do not do, it goes back or its relay is connected.
HandshakesEnd == \A s \in Sessions : holds[s] ~> (stage[s] = "relaying" \/ ~holds[s])
=============================================================================
