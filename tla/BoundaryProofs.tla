--------------------------- MODULE BoundaryProofs ---------------------------
(***************************************************************************)
(* Theorems about the trust boundary (module Boundary), for every          *)
(* configuration and every caller: header values of any number, in any     *)
(* order.                                                                  *)
(*                                                                         *)
(* The verdict about an origin is a function of the configuration and the  *)
(* caller, which do not change, so the inductive invariant BoundaryInv     *)
(* ties each answer to that verdict; and it ties how far a request came to *)
(* the checks it has passed.                                               *)
(***************************************************************************)
EXTENDS Boundary, TLAPS

(* What the requests were answered, given the verdict on the origin. *)
Answered ==
    /\ \A t \in Turns : answers[t] # NoReply => answers[t].echo = Echo
    /\ \A t \in Turns : answers[t].status \in {"forbidden", "origin_blocked"} => ~RequestIsAllowed
    /\ (caller.browser /\ (turn = "actual" \/ answers["actual"] # NoReply)) => Echo = "own"

(* How far the request came, and what that takes. *)
Reached ==
    /\ step \in {"open", "guarding", "inside"} => ~late
    /\ step = "arrived" /\ late => draining
    /\ step \in {"guarding", "inside"} => turn = "actual"
    /\ step = "inside" => ~AmbiguousAuthorization /\ Admitted /\ ~ForwardsSecret
    /\ turn = "over" => step = "answered"

BoundaryInv == TypeOK /\ Answered /\ Reached

(* Who is admitted to a network bind without a secret in the Authorization    *)
(* has it in a header of the proxy's own.                                     *)
LEMMA AdmittedByOwnHeader ==
    ASSUME config.network, Admitted, ~ForwardsSecret
    PROVE  config.token /\ "secret" \in Range(caller.xkey) \cup Range(caller.apikey)
<1>1. config.token /\ "secret" \in Presented
    BY DEF Admitted, RequiresAdmissionAuth
<1>2. "secret" \notin Range(caller.authorization)
    BY <1>1 DEF ForwardsSecret
<1>3. PICK i \in DOMAIN Candidates : "secret" \in Range(Candidates[i])
    BY <1>1 DEF Presented, NonBlank
<1>4. Candidates[i] \in {caller.xkey, caller.authorization, caller.apikey}
    BY <1>3 DEF Candidates
<1>5. QED BY <1>1, <1>2, <1>3, <1>4

(* An answer to the request in progress keeps the answers well formed. *)
LEMMA ReplyIsTyped ==
    ASSUME TypeOK, turn \in Turns, NEW status \in Statuses, Reply(status)
    PROVE  /\ answers' \in [Turns -> [status : Statuses, echo : {"none", "own", "default"}]]
           /\ answers'[turn] = [status |-> status, echo |-> Echo]
           /\ \A t \in Turns \ {turn} : answers'[t] = answers[t]
           /\ step' = "answered"
<1>1. Echo \in {"none", "own", "default"}
    BY DEF Echo
<1>2. QED BY <1>1 DEF Reply, TypeOK

LEMMA InitHolds == Init => BoundaryInv
<1> SUFFICES ASSUME Init PROVE BoundaryInv OBVIOUS
<1>1. TypeOK BY BoundaryAssumption DEF Init, TypeOK, NoReply, Turns, Statuses
<1>2. Answered BY DEF Init, Answered, NoReply, Turns
<1>3. Reached BY DEF Init, Reached
<1>4. QED BY <1>1, <1>2, <1>3 DEF BoundaryInv

(* What is decided from the configuration and the caller alone stays decided. *)
LEMMA VerdictsStand ==
    ASSUME UNCHANGED <<config, caller>>
    PROVE  /\ Echo' = Echo /\ RequestIsAllowed' = RequestIsAllowed
           /\ AmbiguousAuthorization' = AmbiguousAuthorization
           /\ Admitted' = Admitted /\ ForwardsSecret' = ForwardsSecret
BY DEF Echo, RequestIsAllowed, HasOrigin, HostAllowed, OriginAllowed, RequiresAdmissionAuth,
       AmbiguousAuthorization, Admitted, Presented, Candidates, NonBlank, ForwardsSecret

(* A reply that is right about the origin leaves the answers right. *)
LEMMA ReplyIsRight ==
    ASSUME BoundaryInv, turn \in Turns, NEW status \in Statuses, Reply(status),
           UNCHANGED <<config, caller, turn>>,
           status \in {"forbidden", "origin_blocked"} => ~RequestIsAllowed
    PROVE  Answered'
<1>1. /\ answers'[turn] = [status |-> status, echo |-> Echo]
      /\ \A t \in Turns \ {turn} : answers'[t] = answers[t]
    BY ReplyIsTyped DEF BoundaryInv
<1>2. Echo' = Echo /\ (RequestIsAllowed' <=> RequestIsAllowed) /\ NoReply' = NoReply
    BY VerdictsStand DEF NoReply
<1>3. \A t \in Turns : answers'[t] # NoReply => answers'[t].echo = Echo
    BY <1>1 DEF BoundaryInv, Answered
<1>4. \A t \in Turns :
          answers'[t].status \in {"forbidden", "origin_blocked"} => ~RequestIsAllowed
    BY <1>1 DEF BoundaryInv, Answered
<1>5. (caller.browser /\ (turn = "actual" \/ answers'["actual"] # NoReply)) => Echo = "own"
    <2>1. CASE turn = "actual" BY <2>1 DEF BoundaryInv, Answered
    <2>2. CASE turn # "actual"
        <3>1. answers'["actual"] = answers["actual"] BY <1>1, <2>2 DEF Turns
        <3>2. QED BY <2>2, <3>1 DEF BoundaryInv, Answered
    <2>3. QED BY <2>1, <2>2
<1>6. QED BY <1>2, <1>3, <1>4, <1>5 DEF Answered

LEMMA StepKeeps == BoundaryInv /\ [Next]_vars => BoundaryInv'
<1> SUFFICES ASSUME BoundaryInv, [Next]_vars PROVE BoundaryInv' OBVIOUS
<1> USE DEF BoundaryInv
<1>0. UNCHANGED <<config, caller>>
    BY DEF Next, vars, BeginDrain, Arrive, ReadDrainFirst, Preflight, ReadDrainAgain, Guard,
           HandlerReturns, CallerGoesOn
<1>v. /\ Echo' = Echo /\ (RequestIsAllowed' <=> RequestIsAllowed)
      /\ (AmbiguousAuthorization' <=> AmbiguousAuthorization)
      /\ (Admitted' <=> Admitted) /\ (ForwardsSecret' <=> ForwardsSecret)
    BY <1>0, VerdictsStand
<1>r. ASSUME NEW status \in Statuses, Reply(status), step # "answered",
             UNCHANGED <<config, caller, draining, turn, late>>,
             status \in {"forbidden", "origin_blocked"} => ~RequestIsAllowed
      PROVE  BoundaryInv'
    <2>0. turn \in Turns BY <1>r DEF TypeOK, Reached
    <2>1. answers' \in [Turns -> [status : Statuses, echo : {"none", "own", "default"}]]
              /\ step' = "answered"
        BY <1>r, <2>0, ReplyIsTyped
    <2>2. TypeOK' BY <1>r, <2>1 DEF TypeOK
    <2>3. Answered' BY <1>r, <2>0, ReplyIsRight
    <2>4. Reached' BY <2>1 DEF Reached
    <2>5. QED BY <2>2, <2>3, <2>4
<1>s. ASSUME UNCHANGED <<turn, answers>> PROVE Answered'
    BY <1>s, <1>0, <1>v DEF Answered, NoReply
<1>1. CASE BeginDrain
    <2>1. TypeOK' BY <1>1 DEF BeginDrain, TypeOK
    <2>2. Answered' BY <1>1, <1>s DEF BeginDrain
    <2>3. Reached' BY <1>1, <1>v DEF BeginDrain, Reached
    <2>4. QED BY <2>1, <2>2, <2>3
<1>2. CASE Arrive
    <2>1. TypeOK' BY <1>2 DEF Arrive, TypeOK
    <2>2. Answered' BY <1>2, <1>s DEF Arrive
    <2>3. Reached' BY <1>2 DEF Arrive, Reached
    <2>4. QED BY <2>1, <2>2, <2>3
<1>3. CASE ReadDrainFirst
    <2>1. CASE draining BY <1>3, <1>r, <2>1 DEF ReadDrainFirst, Statuses
    <2>2. CASE ~draining
        <3>1. TypeOK' BY <1>3, <2>2 DEF ReadDrainFirst, TypeOK
        <3>2. Answered' BY <1>3, <1>s, <2>2 DEF ReadDrainFirst
        <3>3. Reached' BY <1>3, <2>2 DEF ReadDrainFirst, Reached, TypeOK
        <3>4. QED BY <3>1, <3>2, <3>3
    <2>3. QED BY <2>1, <2>2
<1>4. CASE Preflight
    BY <1>4, <1>r DEF Preflight, Statuses
<1>5. CASE ReadDrainAgain
    <2>1. CASE draining BY <1>5, <1>r, <2>1 DEF ReadDrainAgain, Statuses
    <2>2. CASE ~draining
        <3>1. TypeOK' BY <1>5, <2>2 DEF ReadDrainAgain, TypeOK
        <3>2. Answered' BY <1>5, <1>s, <2>2 DEF ReadDrainAgain
        <3>3. turn = "actual" BY <1>5 DEF ReadDrainAgain, IsPreflight, TypeOK, Turns, Reached
        <3>4. Reached' BY <1>5, <2>2, <3>3 DEF ReadDrainAgain, Reached
        <3>5. QED BY <3>1, <3>2, <3>4
    <2>3. QED BY <2>1, <2>2
<1>6. CASE Guard
    <2>1. CASE step' = "answered"
        <3>1. PICK status \in {"ambiguous_authorization", "admission_required",
                               "admission_secret", "origin_blocked"} :
                  Reply(status) /\ (status = "origin_blocked" => ~RequestIsAllowed)
            BY <1>6, <2>1 DEF Guard
        <3>2. QED BY <1>6, <1>r, <3>1 DEF Guard, Statuses
    <2>2. CASE step' # "answered"
        <3>1. /\ step' = "inside" /\ UNCHANGED <<answers, draining, turn, late>>
              /\ ~AmbiguousAuthorization /\ Admitted /\ ~ForwardsSecret
            BY <1>6, <2>2 DEF Guard, Reply
        <3>2. turn = "actual" /\ ~late BY <1>6 DEF Guard, Reached
        <3>3. TypeOK' BY <1>0, <3>1, <3>2 DEF TypeOK
        <3>4. Answered' BY <1>s, <3>1
        <3>5. Reached' BY <1>v, <3>1, <3>2 DEF Reached
        <3>6. QED BY <3>3, <3>4, <3>5
    <2>3. QED BY <2>1, <2>2
<1>7. CASE HandlerReturns
    BY <1>7, <1>r DEF HandlerReturns, Statuses
<1>8. CASE CallerGoesOn
    <2>1. TypeOK' BY <1>8 DEF CallerGoesOn, TypeOK, Turns
    <2>2. UNCHANGED answers /\ NoReply' = NoReply BY <1>8 DEF CallerGoesOn, NoReply
    <2>3. turn' = "actual" => Echo = "own"
        BY <1>8 DEF CallerGoesOn, Answered, NoReply, Turns, TypeOK
    <2>4. Answered' BY <1>0, <1>v, <2>2, <2>3 DEF Answered
    <2>5. Reached' BY <1>8 DEF CallerGoesOn, Reached
    <2>6. QED BY <2>1, <2>4, <2>5
<1>9. CASE UNCHANGED vars
    <2>1. TypeOK' BY <1>9 DEF vars, TypeOK
    <2>2. Answered' BY <1>9, <1>s DEF vars
    <2>3. Reached' BY <1>9, <1>v DEF vars, Reached
    <2>4. QED BY <2>1, <2>2, <2>3
<1>10. QED BY <1>1, <1>2, <1>3, <1>4, <1>5, <1>6, <1>7, <1>8, <1>9 DEF Next

LEMMA BoundaryInductive == Spec => []BoundaryInv
<1>1. QED BY InitHolds, StepKeeps, PTL DEF Spec

(* A request reaches a handler, and leaves it, in well-formed states. *)
THEOREM BoundaryTypeCorrect == Spec => []TypeOK
<1>1. BoundaryInv => TypeOK BY DEF BoundaryInv
<1>2. QED BY <1>1, BoundaryInductive, PTL

(* The preflight, the guard and the CORS headers give one verdict about an    *)
(* origin, whatever the drain does in between.                                *)
THEOREM BoundaryEchoesItsVerdict == Spec => []EchoFollowsVerdict
<1>1. ASSUME BoundaryInv PROVE EchoFollowsVerdict
    <2> USE <1>1 DEF BoundaryInv
    <2>1. \A t \in Turns :
              answers[t].status \in {"forbidden", "origin_blocked"} => answers[t].echo = "default"
        BY DEF Answered, Echo, NoReply
    <2>2. (caller.browser /\ answers["actual"] # NoReply) =>
              answers["actual"].status # "origin_blocked" /\ answers["actual"].echo = "own"
        BY DEF Answered, Echo, Turns
    <2>3. QED BY <2>1, <2>2 DEF EchoFollowsVerdict
<1>2. QED BY <1>1, BoundaryInductive, PTL

(* No handler runs for a caller the guard refuses, and none forwards the      *)
(* secret that admitted it.                                                   *)
THEOREM BoundaryGuardsHandlers == Spec => []HandlerIsGuarded
<1>1. ASSUME BoundaryInv, step = "inside" PROVE HandlerIsGuarded
    <2>1. ~late /\ ~AmbiguousAuthorization /\ Admitted /\ ~ForwardsSecret
        BY <1>1 DEF BoundaryInv, Reached
    <2>2. Len(caller.authorization) <= 1
        <3>1. caller.authorization \in Credential
            BY <1>1 DEF BoundaryInv, TypeOK, CallerType
        <3>2. Len(caller.authorization) \in Nat BY <3>1 DEF Credential
        <3>3. QED BY <2>1, <3>2 DEF AmbiguousAuthorization
    <2>3. config.token => "secret" \notin Range(caller.authorization)
        BY <2>1 DEF ForwardsSecret
    <2>4. config.network =>
              config.token /\ "secret" \in Range(caller.xkey) \cup Range(caller.apikey)
        BY <2>1, AdmittedByOwnHeader
    <2>5. QED BY <2>1, <2>2, <2>3, <2>4 DEF HandlerIsGuarded
<1>2. BoundaryInv => HandlerIsGuarded
    BY <1>1 DEF HandlerIsGuarded
<1>3. QED BY <1>2, BoundaryInductive, PTL
=============================================================================
