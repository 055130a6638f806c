--------------------------- MODULE SessionsProofs ---------------------------
(***************************************************************************)
(* Theorems about the WebSocket sessions (module Sessions), for any finite *)
(* set of sessions and any number of connection permits.                   *)
(*                                                                         *)
(* A step concerns one session and the semaphore.  The inductive invariant *)
(* SessionsInv is what holds of each session by itself, Here(s), with the  *)
(* count of the permits.                                                   *)
(***************************************************************************)
EXTENDS Sessions, FiniteSetTheorems, TLAPS

Sockets == {"none", "connecting", "open", "dropped"}

Functions ==
    /\ dialect \in [Sessions -> {"public", "private"}]
    /\ offer \in [Sessions -> Offers]
    /\ stage \in [Sessions -> Stage]
    /\ holds \in [Sessions -> BOOLEAN]
    /\ upstream \in [Sessions -> Sockets]
    /\ chosen \in [Sessions -> Token]
    /\ spoken \in [Sessions -> Token]

(* Who is at work owns a permit, and the sockets to upstreams are theirs. *)
Owner(s) ==
    /\ holds[s] <=> AtWork(s)
    /\ upstream[s] \in {"connecting", "open"} => holds[s]

(* When the upstream is contacted, in each of the two ways. *)
Contact(s) ==
    /\ stage[s] = "new" => upstream[s] = "none"
    /\ stage[s] \in {"connecting", "declining"} =>
          dialect[s] = "public" /\ upstream[s] # "none"
    /\ stage[s] = "returned" => upstream[s] \notin {"connecting", "open"}
    /\ dialect[s] = "public" =>
          /\ stage[s] # "opening"
          /\ stage[s] \in {"upgrading", "relaying"} => upstream[s] = "open"
    /\ dialect[s] = "private" /\ upstream[s] # "none" =>
          stage[s] \in {"opening", "relaying", "returned", "ended"}

(* The protocols of the legs, from the moment the client is answered. *)
Protocol(s) ==
    /\ stage[s] \in {"upgrading", "opening", "relaying", "returned", "ended"} =>
          spoken[s] = chosen[s] /\ spoken[s] # "credential"
    /\ dialect[s] = "private" => spoken[s] = "none" /\ chosen[s] = "none"

Here(s) == Owner(s) /\ Contact(s) /\ Protocol(s)

Held == {s \in Sessions : holds[s]}

Count == free \in Nat /\ free + Cardinality(Held) = MaxConnections

SessionsInv == Functions /\ (\A s \in Sessions : Here(s)) /\ Count

(* The variables of every session but s. *)
Elsewhere(s) ==
    \A q \in Sessions \ {s} :
        /\ dialect'[q] = dialect[q]
        /\ stage'[q] = stage[q]
        /\ holds'[q] = holds[q]
        /\ upstream'[q] = upstream[q]
        /\ chosen'[q] = chosen[q]
        /\ spoken'[q] = spoken[q]

Step(s) ==
    \/ Refuse(s)
    \/ CannotBuild(s)
    \/ AdmitPublic(s)
    \/ AdmitPrivate(s)
    \/ \E token \in Token : UpstreamReady(s, token)
    \/ ConnectFails(s)
    \/ Declined(s)
    \/ ClientLeaves(s)
    \/ Upgraded(s)
    \/ UpgradeFails(s)
    \/ RelayOpens(s)
    \/ RelayReturns(s)
    \/ RelayEnds(s)

-----------------------------------------------------------------------------
(* What the shared parts of the steps do.                                  *)

PermitMoves(s) ==
    \/ ~holds[s] /\ holds'[s] /\ free > 0 /\ free' = free - 1
    \/ holds[s] /\ ~holds'[s] /\ free' = free + 1
    \/ (holds'[s] <=> holds[s]) /\ free' = free

\* Taking, giving and keeping a permit change the permit of one session
\* (try_acquire_owned and the drop of the permit).
LEMMA PermitLocal ==
    ASSUME Functions, NEW s \in Sessions, TakePermit(s) \/ GivePermit(s) \/ KeepPermit
    PROVE  /\ holds' \in [Sessions -> BOOLEAN]
           /\ \A q \in Sessions \ {s} : holds'[q] = holds[q]
BY DEF Functions, TakePermit, GivePermit, KeepPermit

\* Moving a session on changes its own stage: the await points of the handlers.
LEMMA ToLocal ==
    ASSUME Functions, NEW s \in Sessions, NEW next \in Stage, To(s, next)
    PROVE  /\ stage' \in [Sessions -> Stage]
           /\ stage'[s] = next
           /\ \A q \in Sessions \ {s} : stage'[q] = stage[q]
BY DEF Functions, To

\* Dropping an upstream drops the socket of one session and opens none.
LEMMA DropLocal ==
    ASSUME Functions, NEW s \in Sessions, DropUpstream(s)
    PROVE  /\ upstream' \in [Sessions -> Sockets]
           /\ upstream'[s] = IF upstream[s] = "none" THEN "none" ELSE "dropped"
           /\ \A q \in Sessions \ {s} : upstream'[q] = upstream[q]
BY DEF Functions, DropUpstream, Sockets

\* A session that stops without a relay, whatever stops it: its stage ends, its
\* upstream is dropped and its permit is given.
LEMMA StopLocal ==
    ASSUME Functions, NEW s \in Sessions, NEW next \in {"refused", "dropped"},
           To(s, next), DropUpstream(s), GivePermit(s),
           UNCHANGED <<dialect, offer, chosen, spoken>>
    PROVE  Functions' /\ Elsewhere(s)
<1>1. next \in Stage
  BY DEF Stage
<1> QED
  BY <1>1, PermitLocal, ToLocal, DropLocal DEF Functions, Elsewhere

\* Every step is one session's: the types are kept and the others do not move.
LEMMA StepLocal ==
    ASSUME Functions, NEW s \in Sessions, Step(s)
    PROVE  Functions' /\ Elsewhere(s)
<1>0. {"new", "connecting", "declining", "upgrading", "opening", "relaying",
       "returned", "ended", "refused", "dropped"} = Stage
  BY DEF Stage
<1>1. CASE Refuse(s) \/ CannotBuild(s)
  BY <1>0, <1>1, PermitLocal, ToLocal DEF Refuse, CannotBuild, Functions, Elsewhere
<1>2. CASE AdmitPublic(s)
  <2>1. upstream' \in [Sessions -> Sockets] /\ \A q \in Sessions \ {s} : upstream'[q] = upstream[q]
    BY <1>2 DEF AdmitPublic, Functions, Sockets
  <2> QED
    BY <1>0, <1>2, <2>1, PermitLocal, ToLocal DEF AdmitPublic, Functions, Elsewhere
<1>3. CASE AdmitPrivate(s)
  BY <1>0, <1>3, PermitLocal, ToLocal DEF AdmitPrivate, Functions, Elsewhere
<1>4. ASSUME NEW token \in Token, UpstreamReady(s, token)
      PROVE  Functions' /\ Elsewhere(s)
  <2>1. upstream' \in [Sessions -> Sockets] /\ \A q \in Sessions \ {s} : upstream'[q] = upstream[q]
    BY <1>4 DEF UpstreamReady, Functions, Sockets
  <2>2. chosen' \in [Sessions -> Token] /\ \A q \in Sessions \ {s} : chosen'[q] = chosen[q]
    BY <1>4 DEF UpstreamReady, Functions
  <2>3. Answered(token) \in Token
    BY DEF Answered, Token
  <2>4. spoken' \in [Sessions -> Token] /\ \A q \in Sessions \ {s} : spoken'[q] = spoken[q]
    BY <1>4, <2>3 DEF UpstreamReady, Functions
  <2>5. To(s, "upgrading") \/ To(s, "declining")
    BY <1>4 DEF UpstreamReady
  <2> QED
    BY <1>0, <1>4, <2>1, <2>2, <2>4, <2>5, PermitLocal, ToLocal
       DEF UpstreamReady, Functions, Elsewhere
<1>5. CASE ConnectFails(s) \/ Declined(s)
  BY <1>5, StopLocal DEF ConnectFails, Declined, Fail
<1>6. CASE ClientLeaves(s) \/ UpgradeFails(s)
  BY <1>6, StopLocal DEF ClientLeaves, UpgradeFails
<1>7. CASE Upgraded(s)
  <2>1. upstream' \in [Sessions -> Sockets] /\ \A q \in Sessions \ {s} : upstream'[q] = upstream[q]
    BY <1>7 DEF Upgraded, Functions, Sockets
  <2>2. To(s, "relaying") \/ To(s, "opening")
    BY <1>7 DEF Upgraded
  <2> QED
    BY <1>0, <1>7, <2>1, <2>2, PermitLocal, ToLocal DEF Upgraded, Functions, Elsewhere
<1>8. CASE RelayOpens(s)
  <2>1. upstream' \in [Sessions -> Sockets] /\ \A q \in Sessions \ {s} : upstream'[q] = upstream[q]
    BY <1>8 DEF RelayOpens, Functions, Sockets
  <2> QED
    BY <1>0, <1>8, <2>1, PermitLocal, ToLocal DEF RelayOpens, Functions, Elsewhere
<1>9. CASE RelayReturns(s)
  BY <1>0, <1>9, PermitLocal, ToLocal, DropLocal DEF RelayReturns, Functions, Elsewhere
<1>10. CASE RelayEnds(s)
  BY <1>0, <1>10, PermitLocal, ToLocal DEF RelayEnds, Functions, Elsewhere
<1> QED
  BY <1>1, <1>2, <1>3, <1>4, <1>5, <1>6, <1>7, <1>8, <1>9, <1>10 DEF Step

-----------------------------------------------------------------------------
(* Here(s) holds after a step of s.                                        *)

\* Its permit and its socket go together: every end of a session drops the one and
\* gives the other back.
LEMMA StepOwner ==
    ASSUME Functions, NEW s \in Sessions, Here(s), Step(s)
    PROVE  Owner(s)'
<1> USE DEF Owner, AtWork, Over, Here, Contact, Functions, To, KeepPermit, Sockets
<1>1. CASE Refuse(s) \/ CannotBuild(s)
  BY <1>1 DEF Refuse, CannotBuild
<1>2. CASE AdmitPublic(s) \/ AdmitPrivate(s)
  BY <1>2 DEF AdmitPublic, AdmitPrivate, TakePermit
<1>3. ASSUME NEW token \in Token, UpstreamReady(s, token)
      PROVE  Owner(s)'
  BY <1>3 DEF UpstreamReady
<1>4. CASE ConnectFails(s) \/ Declined(s)
  BY <1>4 DEF ConnectFails, Declined, Fail, DropUpstream, GivePermit
<1>5. CASE ClientLeaves(s) \/ UpgradeFails(s)
  BY <1>5 DEF ClientLeaves, UpgradeFails, DropUpstream, GivePermit
<1>6. CASE Upgraded(s) \/ RelayOpens(s)
  BY <1>6 DEF Upgraded, RelayOpens
<1>7. CASE RelayReturns(s)
  BY <1>7 DEF RelayReturns, DropUpstream
<1>8. CASE RelayEnds(s)
  BY <1>8 DEF RelayEnds, GivePermit
<1> QED
  BY <1>1, <1>2, <1>3, <1>4, <1>5, <1>6, <1>7, <1>8 DEF Step

\* A public handler goes on with a connected upstream only, and a private one
\* contacts none before its client was upgraded.
LEMMA StepContact ==
    ASSUME Functions, NEW s \in Sessions, Here(s), Step(s)
    PROVE  Contact(s)'
<1> USE DEF Contact, Here, Functions, To, Sockets
<1>1. CASE Refuse(s) \/ CannotBuild(s)
  BY <1>1 DEF Refuse, CannotBuild
<1>2. CASE AdmitPublic(s) \/ AdmitPrivate(s)
  BY <1>2 DEF AdmitPublic, AdmitPrivate
<1>3. ASSUME NEW token \in Token, UpstreamReady(s, token)
      PROVE  Contact(s)'
  BY <1>3 DEF UpstreamReady
<1>4. CASE ConnectFails(s) \/ Declined(s)
  BY <1>4 DEF ConnectFails, Declined, Fail, DropUpstream
<1>5. CASE ClientLeaves(s) \/ UpgradeFails(s)
  BY <1>5 DEF ClientLeaves, UpgradeFails, DropUpstream
<1>6. CASE Upgraded(s) \/ RelayOpens(s)
  BY <1>6 DEF Upgraded, RelayOpens
<1>7. CASE RelayReturns(s)
  BY <1>7 DEF RelayReturns, DropUpstream
<1>8. CASE RelayEnds(s)
  BY <1>8 DEF RelayEnds
<1> QED
  BY <1>1, <1>2, <1>3, <1>4, <1>5, <1>6, <1>7, <1>8 DEF Step

\* validate_selected lets through what public_response can answer.
LEMMA ValidIsAnswered ==
    ASSUME NEW s, NEW token, ValidateSelected(s, token)
    PROVE  Answered(token) = token /\ token # "credential"
BY DEF ValidateSelected, Answered

\* The client is answered the protocol its upstream selected, and it stays so.
LEMMA StepProtocol ==
    ASSUME Functions, NEW s \in Sessions, Here(s), Step(s)
    PROVE  Protocol(s)'
<1> USE DEF Protocol, Here, Functions, To
<1>1. CASE Refuse(s) \/ CannotBuild(s) \/ AdmitPublic(s) \/ ConnectFails(s)
           \/ Declined(s) \/ ClientLeaves(s) \/ UpgradeFails(s)
  <2>1. /\ stage'[s] \in {"refused", "connecting", "dropped"}
        /\ UNCHANGED <<dialect, chosen, spoken>>
    BY <1>1 DEF Refuse, CannotBuild, AdmitPublic, ConnectFails, Declined, Fail,
       ClientLeaves, UpgradeFails
  <2> QED
    BY <2>1
<1>2. CASE AdmitPrivate(s)
  BY <1>2 DEF AdmitPrivate
<1>3. ASSUME NEW token \in Token, UpstreamReady(s, token)
      PROVE  Protocol(s)'
  <2>1. dialect'[s] = "public"
    BY <1>3 DEF UpstreamReady, Contact
  <2>2. CASE ValidateSelected(s, token)
    BY <1>3, <2>1, <2>2, ValidIsAnswered DEF UpstreamReady
  <2>3. CASE ~ValidateSelected(s, token)
    BY <1>3, <2>1, <2>3 DEF UpstreamReady
  <2> QED
    BY <2>2, <2>3
<1>4. CASE Upgraded(s) \/ RelayOpens(s) \/ RelayReturns(s) \/ RelayEnds(s)
  BY <1>4 DEF Upgraded, RelayOpens, RelayReturns, RelayEnds
<1> QED
  BY <1>1, <1>2, <1>3, <1>4 DEF Step

\* A session is not disturbed by the steps of the others.
LEMMA OthersHere ==
    ASSUME NEW s \in Sessions, NEW q \in Sessions \ {s}, Here(q), Elsewhere(s)
    PROVE  Here(q)'
<1>1. /\ dialect'[q] = dialect[q]
      /\ stage'[q] = stage[q]
      /\ holds'[q] = holds[q]
      /\ upstream'[q] = upstream[q]
      /\ chosen'[q] = chosen[q]
      /\ spoken'[q] = spoken[q]
  BY DEF Elsewhere
<1>2. Owner(q)'
  BY <1>1 DEF Here, Owner, AtWork, Over
<1>3. Contact(q)'
  BY <1>1 DEF Here, Contact
<1>4. Protocol(q)'
  BY <1>1 DEF Here, Protocol
<1> QED
  BY <1>2, <1>3, <1>4 DEF Here

-----------------------------------------------------------------------------
(* The permits add up.                                                     *)

\* A step moves at most one permit, that of its session, and the semaphore with it.
LEMMA StepMoves ==
    ASSUME Functions, NEW s \in Sessions, Here(s), Step(s)
    PROVE  PermitMoves(s)
<1> USE DEF Functions, Here, Owner, AtWork, Over, PermitMoves
<1>1. CASE AdmitPublic(s) \/ AdmitPrivate(s)
  <2>1. ~holds[s] /\ TakePermit(s)
    BY <1>1 DEF AdmitPublic, AdmitPrivate
  <2> QED
    BY <2>1 DEF TakePermit
<1>2. CASE ConnectFails(s) \/ Declined(s) \/ ClientLeaves(s) \/ UpgradeFails(s)
           \/ RelayEnds(s)
  <2>1. holds[s] /\ GivePermit(s)
    BY <1>2 DEF ConnectFails, Declined, Fail, ClientLeaves, UpgradeFails, RelayEnds
  <2> QED
    BY <2>1 DEF GivePermit
<1>3. ASSUME NEW token \in Token, UpstreamReady(s, token)
      PROVE  PermitMoves(s)
  BY <1>3 DEF UpstreamReady, KeepPermit
<1>4. CASE Refuse(s) \/ CannotBuild(s) \/ Upgraded(s) \/ RelayOpens(s)
           \/ RelayReturns(s)
  BY <1>4 DEF Refuse, CannotBuild, Upgraded, RelayOpens, RelayReturns, KeepPermit
<1> QED
  BY <1>1, <1>2, <1>3, <1>4 DEF Step

\* The permits that are out and those that are left add up to
\* limits.active_connections.
LEMMA StepCount ==
    ASSUME Functions, NEW s \in Sessions, Here(s), Count, Step(s)
    PROVE  Count'
<1>1. PermitMoves(s)
  BY StepMoves
<1>2. \A q \in Sessions \ {s} : holds'[q] = holds[q]
  BY StepLocal DEF Elsewhere
<1>3. IsFiniteSet(Held)
  BY SessionsAssumption, FS_Subset DEF Held
<1>4. Cardinality(Held) \in Nat /\ MaxConnections \in Nat /\ free \in Nat
  BY <1>3, FS_CardinalityType, SessionsAssumption DEF Count
<1>5. CASE ~holds[s] /\ holds'[s] /\ free > 0 /\ free' = free - 1
  <2>1. Held' = Held \cup {s} /\ s \notin Held
    BY <1>2, <1>5 DEF Held
  <2>2. Cardinality(Held') = Cardinality(Held) + 1
    BY <1>3, <2>1, FS_AddElement
  <2> QED
    BY <1>4, <1>5, <2>2 DEF Count
<1>6. CASE holds[s] /\ ~holds'[s] /\ free' = free + 1
  <2>1. Held' = Held \ {s} /\ s \in Held
    BY <1>2, <1>6 DEF Held
  <2>2. Cardinality(Held') = Cardinality(Held) - 1
    BY <1>3, <2>1, FS_RemoveElement
  <2> QED
    BY <1>4, <1>6, <2>2 DEF Count
<1>7. CASE (holds'[s] <=> holds[s]) /\ free' = free
  <2>1. Held' = Held
    BY <1>2, <1>7 DEF Held
  <2> QED
    BY <1>7, <2>1 DEF Count
<1> QED
  BY <1>1, <1>5, <1>6, <1>7 DEF PermitMoves

-----------------------------------------------------------------------------
\* Every session starts in the invariant and every step keeps it.
LEMMA SessionsInvariant == Spec => []SessionsInv
<1>1. Init => SessionsInv
  <2> SUFFICES ASSUME Init PROVE SessionsInv
    OBVIOUS
  <2>1. Functions
    BY Zenon DEF Init, Functions, Stage, Sockets, Token
  <2>2. ASSUME NEW s \in Sessions PROVE Here(s)
    BY <2>2 DEF Init, Here, Owner, Contact, Protocol, AtWork
  <2>3. Held = {}
    BY DEF Init, Held
  <2>4. Count
    BY <2>3, FS_EmptySet, SessionsAssumption DEF Init, Count
  <2> QED
    BY <2>1, <2>2, <2>4 DEF SessionsInv
<1>2. SessionsInv /\ [Next]_vars => SessionsInv'
  <2> SUFFICES ASSUME SessionsInv, [Next]_vars PROVE SessionsInv'
    OBVIOUS
  <2>1. ASSUME NEW s \in Sessions, Step(s) PROVE SessionsInv'
    <3>1. Functions /\ Count /\ Here(s)
      BY <2>1 DEF SessionsInv
    <3>2. Functions' /\ Elsewhere(s)
      BY <2>1, <3>1, StepLocal
    <3>3. Here(s)'
      BY <2>1, <3>1, StepOwner, StepContact, StepProtocol DEF Here
    <3>4. ASSUME NEW q \in Sessions \ {s} PROVE Here(q)'
      BY <2>1, <3>2, <3>4, OthersHere DEF SessionsInv
    <3>5. Count'
      BY <2>1, <3>1, StepCount
    <3> QED
      BY <3>2, <3>3, <3>4, <3>5 DEF SessionsInv
  <2>2. CASE UNCHANGED vars
    <3>1. Functions'
      BY <2>2 DEF vars, SessionsInv, Functions
    <3>2. ASSUME NEW s \in Sessions PROVE Here(s)'
      BY <2>2, <3>2 DEF vars, SessionsInv, Here, Owner, Contact, Protocol, AtWork, Over
    <3>3. Count'
      BY <2>2 DEF vars, SessionsInv, Count, Held
    <3> QED
      BY <3>1, <3>2, <3>3 DEF SessionsInv
  <2> QED
    BY <2>1, <2>2 DEF Next, Step
<1> QED
  BY <1>1, <1>2, PTL DEF Spec

\* The state of the sessions is always well typed; that the semaphore stays within
\* its limit rests on the count of the permits that are out.
THEOREM SessionsTypeCorrect == Spec => []TypeOK
<1>1. SessionsInv => TypeOK
  <2> SUFFICES ASSUME SessionsInv PROVE TypeOK
    OBVIOUS
  <2>1. IsFiniteSet(Held)
    BY SessionsAssumption, FS_Subset DEF Held
  <2>2. free \in 0..MaxConnections
    BY <2>1, FS_CardinalityType, SessionsAssumption DEF SessionsInv, Count
  <2> QED
    BY <2>2, Zenon DEF SessionsInv, Functions, TypeOK, Sockets
<1> QED
  BY <1>1, SessionsInvariant, PTL

\* However a session ends (refused, declined, abandoned, failed to upgrade, relayed
\* to its end), its permit is returned once and its upstream socket is gone.
THEOREM SessionsLeakNothing == Spec => []NothingLeaks
<1>1. SessionsInv => NothingLeaks
  <2> SUFFICES ASSUME SessionsInv PROVE NothingLeaks
    OBVIOUS
  <2>1. free + Cardinality({s \in Sessions : holds[s]}) = MaxConnections
    BY DEF SessionsInv, Count, Held
  <2> QED
    BY <2>1 DEF SessionsInv, Here, Owner, NothingLeaks
<1> QED
  BY <1>1, SessionsInvariant, PTL

\* A public client is answered 101 with a connected upstream only, and a private
\* upstream is contacted for an upgraded client only.
THEOREM SessionsContactInOrder == Spec => []ContactOrder
<1>1. SessionsInv => ContactOrder
  <2> SUFFICES ASSUME SessionsInv, NEW s \in Sessions
               PROVE  IF dialect[s] = "public"
                      THEN stage[s] \in {"upgrading", "relaying"} => upstream[s] = "open"
                      ELSE upstream[s] # "none" =>
                              stage[s] \notin {"new", "upgrading", "refused", "dropped"}
    BY DEF ContactOrder
  <2> QED
    BY DEF SessionsInv, Functions, Here, Contact
<1> QED
  BY <1>1, SessionsInvariant, PTL

\* Both legs of a relay speak the protocol the upstream selected, and it is never
\* the one that carries a credential.
THEOREM SessionsLegsAgree == Spec => []LegsAgree
<1>1. SessionsInv => LegsAgree
  BY DEF SessionsInv, Here, Protocol, LegsAgree
<1> QED
  BY <1>1, SessionsInvariant, PTL

-----------------------------------------------------------------------------
(* The refinement of PermitPool.                                           *)

LeftPool(s) ==
    stage[s] \in {"dropped", "ended"} \/ (stage[s] = "refused" /\ upstream[s] # "none")

Working == {s \in Sessions : AtWork(s)}
Left == {s \in Sessions : LeftPool(s)}

\* What a step means to the pool: the session enters on a free permit, leaves, or
\* nothing changes.
LEMMA StepJob ==
    ASSUME Functions, NEW s \in Sessions, Here(s), Step(s)
    PROVE  \/ ~AtWork(s) /\ ~LeftPool(s) /\ AtWork(s)' /\ ~LeftPool(s)' /\ free > 0
           \/ AtWork(s) /\ ~AtWork(s)' /\ LeftPool(s)'
           \/ (AtWork(s)' <=> AtWork(s)) /\ (LeftPool(s)' <=> LeftPool(s))
<1> USE DEF AtWork, Over, LeftPool, Functions, Here, Contact, To
<1>1. CASE Refuse(s) \/ CannotBuild(s)
  BY <1>1 DEF Refuse, CannotBuild
<1>2. CASE AdmitPublic(s) \/ AdmitPrivate(s)
  BY <1>2 DEF AdmitPublic, AdmitPrivate, TakePermit
<1>3. ASSUME NEW token \in Token, UpstreamReady(s, token)
      PROVE  (AtWork(s)' <=> AtWork(s)) /\ (LeftPool(s)' <=> LeftPool(s))
  BY <1>3 DEF UpstreamReady
<1>4. CASE ConnectFails(s) \/ Declined(s)
  BY <1>4 DEF ConnectFails, Declined, Fail, DropUpstream
<1>5. CASE ClientLeaves(s) \/ UpgradeFails(s) \/ RelayEnds(s)
  BY <1>5 DEF ClientLeaves, UpgradeFails, RelayEnds
<1>6. CASE Upgraded(s) \/ RelayOpens(s) \/ RelayReturns(s)
  BY <1>6 DEF Upgraded, RelayOpens, RelayReturns
<1> QED
  BY <1>1, <1>2, <1>3, <1>4, <1>5, <1>6 DEF Step

\* The connection semaphore, as handlers, upgrade tasks and relays use it, is a
\* pool: at most limits.active_connections sessions are at work, each once.
THEOREM SessionsImplementPool == Spec => ImplementsPool
<1>1. Init => Pool!Init
  <2> SUFFICES ASSUME Init PROVE Working = {} /\ Left = {}
    BY DEF Pool!Init, Working, Left, LeftPool
  <2> QED
    BY DEF Init, Working, Left, LeftPool, AtWork
<1>2. ASSUME SessionsInv, [Next]_vars
      PROVE  [Pool!Next]_<<Working, Left>>
  <2>1. ASSUME NEW s \in Sessions, Step(s)
        PROVE  [Pool!Next]_<<Working, Left>>
    <3>1. Functions /\ Here(s)
      BY <1>2 DEF SessionsInv
    <3>2. Elsewhere(s)
      BY <2>1, <3>1, StepLocal
    <3>3. \A q \in Sessions \ {s} :
             (AtWork(q)' <=> AtWork(q)) /\ (LeftPool(q)' <=> LeftPool(q))
      BY <3>2 DEF Elsewhere, AtWork, Over, LeftPool
    <3>4. CASE ~AtWork(s) /\ ~LeftPool(s) /\ AtWork(s)' /\ ~LeftPool(s)' /\ free > 0
      <4>1. Working' = Working \cup {s} /\ Left' = Left
        BY <3>3, <3>4 DEF Working, Left
      <4>2. Working = Held
        BY <1>2 DEF SessionsInv, Here, Owner, Working, Held
      <4>3. IsFiniteSet(Held)
        BY SessionsAssumption, FS_Subset DEF Held
      <4>4. Cardinality(Working) < MaxConnections
        BY <1>2, <3>4, <4>2, <4>3, FS_CardinalityType, SessionsAssumption
           DEF SessionsInv, Count
      <4>5. s \notin Working \cup Left
        BY <3>4 DEF Working, Left
      <4>6. Pool!Cardinality(Working) < MaxConnections
        BY <4>4 DEF Cardinality, Pool!Cardinality
      <4> QED
        BY <4>1, <4>5, <4>6 DEF Pool!Next, Pool!Enter, Working, Left, LeftPool
    <3>5. CASE AtWork(s) /\ ~AtWork(s)' /\ LeftPool(s)'
      <4>1. Working' = Working \ {s} /\ Left' = Left \cup {s} /\ s \in Working
        BY <3>3, <3>5 DEF Working, Left
      <4> QED
        BY <4>1 DEF Pool!Next, Pool!Leave, Working, Left, LeftPool
    <3>6. CASE (AtWork(s)' <=> AtWork(s)) /\ (LeftPool(s)' <=> LeftPool(s))
      BY <3>3, <3>6 DEF Working, Left
    <3> QED
      BY <2>1, <3>1, <3>4, <3>5, <3>6, StepJob
  <2>2. CASE UNCHANGED vars
    BY <2>2 DEF vars, Working, Left, LeftPool, AtWork, Over
  <2> QED
    BY <1>2, <2>1, <2>2 DEF Next, Step
<1>3. SessionsInv /\ [Next]_vars => [Pool!Next]_<<Working, Left>>
  BY <1>2
<1> QED
  BY <1>1, <1>3, SessionsInvariant, PTL
     DEF Spec, ImplementsPool, Pool!PoolSpec, Working, Left, LeftPool

=============================================================================
