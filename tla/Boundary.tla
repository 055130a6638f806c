------------------------------ MODULE Boundary ------------------------------
(***************************************************************************)
(* The downstream trust boundary around every data-plane handler: protect  *)
(* of src/app.rs with the guard of src/admission/mod.rs, the admission     *)
(* credential, the origin policy, the CORS headers, and the drain flag,    *)
(* which may be raised between any two of its steps.                       *)
(*                                                                         *)
(* One caller: a browser first sends a preflight for the request it is     *)
(* about to make and goes on only if that is granted; any other caller     *)
(* sends its request at once.                                              *)
(***************************************************************************)
EXTENDS Naturals, Sequences, Functions

CONSTANTS Configs,  \* configurations of the process
          Callers   \* callers, with the headers they send

\* A credential header is the sequence of its values; "illegible" is not text.
Credential == Seq({"secret", "wrong", "blank", "illegible"})

\* What an Origin header names: nothing legible, a loopback address, the
\* authority the proxy is addressed by, a configured origin, another origin, or
\* something that is no origin.
Origins == {"absent", "illegible", "loopback", "served", "configured", "foreign", "malformed"}
\* What a Host header names, and whether with a port: "other_port" is a loopback
\* address with a port that is not the proxy's.
Hosts == {"unusable", "loopback", "loopback_port", "other_port", "named", "named_port"}

ConfigType ==
    [network : BOOLEAN,              \* bound to an address that is not loopback
     token : BOOLEAN,                \* an admission token is configured
     mode : {"managed", "client"}]   \* credential mode of the upstream

CallerType ==
    [browser : BOOLEAN, origin : Origins, host : Hosts,
     xkey : Credential, authorization : Credential, apikey : Credential]

ASSUME BoundaryAssumption ==
    /\ Configs \subseteq ConfigType
    /\ Callers \subseteq CallerType

VARIABLES config,    \* the configuration
          caller,    \* the caller
          draining,  \* the drain flag
          turn,      \* the request in progress: "preflight", "actual", or "over"
          step,      \* how far the boundary is with it
          late,      \* it arrived after the drain began
          answers    \* what each of the two was answered

vars == <<config, caller, draining, turn, step, late, answers>>

Turns == {"preflight", "actual"}
Statuses == {"none", "draining", "granted", "forbidden", "ambiguous_authorization",
             "admission_required", "admission_secret", "origin_blocked", "served"}

\* "own": the Access-Control-Allow-Origin is the caller's own origin.
NoReply == [status |-> "none", echo |-> "none"]

-----------------------------------------------------------------------------
(* A definition named ...Slip is not used by the specification: it is a      *)
(* wrong version of the definition that follows it, kept to show that a      *)
(* property of this module notices the difference.                           *)

(* src/admission/auth.rs *)

RequiresAdmissionAuth == config.network

NonBlank(values) == Range(values) \ {"blank"}

\* The headers an admission credential may come in, by precedence.
Candidates ==
    IF config.mode = "managed"
    THEN <<caller.xkey, caller.authorization, caller.apikey>>
    ELSE <<caller.xkey, caller.apikey>>

\* presented: the first header with a value that is not blank wins outright, and
\* what is not text ends the search.
Presented ==
    LET telling == {i \in DOMAIN Candidates : NonBlank(Candidates[i]) # {}}
        first == {i \in telling : \A j \in telling : i <= j}
    IN  UNION {NonBlank(Candidates[i]) : i \in first}

AmbiguousAuthorization == Len(caller.authorization) > 1

\* check_admission after the ambiguity
Admitted ==
    \/ ~RequiresAdmissionAuth
    \/ config.token /\ "secret" \in Presented /\ "illegible" \notin Presented

\* A bind that asks for no admission has no secret to protect.
ForwardsSecretSlip ==
    config.network /\ config.token /\ "secret" \in Range(caller.authorization)

\* authorization_is_admission_secret
ForwardsSecret == config.token /\ "secret" \in Range(caller.authorization)

-----------------------------------------------------------------------------
(* src/admission/origin.rs *)

\* Without admission auth only a loopback host on the proxy's port will do.
HostAllowed == RequiresAdmissionAuth \/ caller.host \in {"loopback", "loopback_port"}

\* origin_allowed: a host without a port proves no same origin.
OriginAllowed ==
    \/ caller.origin \in {"loopback", "configured"}
    \/ caller.origin = "served" /\ caller.host = "named_port"

HasOrigin == caller.origin \notin {"absent", "illegible"}

\* check_origin and request_is_allowed
RequestIsAllowed == HostAllowed /\ (HasOrigin => OriginAllowed)

-----------------------------------------------------------------------------
(* src/admission/cors.rs and src/app.rs *)

EchoSlip ==
    IF HasOrigin /\ (RequestIsAllowed \/ caller.origin = "configured") THEN "own" ELSE "default"

\* apply_cors, on every response.
Echo == IF HasOrigin /\ RequestIsAllowed THEN "own" ELSE "default"

\* corsed: the answer of the request in progress.
Reply(status) ==
    /\ answers' = [answers EXCEPT ![turn] = [status |-> status, echo |-> Echo]]
    /\ step' = "answered"

Init ==
    /\ config \in Configs
    /\ caller \in Callers
    /\ draining = FALSE
    /\ turn = IF caller.browser THEN "preflight" ELSE "actual"
    /\ step = "sent"
    /\ late = FALSE
    /\ answers = [t \in Turns |-> NoReply]

\* DrainState::begin, from the signal handler of the process.
BeginDrain ==
    /\ ~draining
    /\ draining' = TRUE
    /\ UNCHANGED <<config, caller, turn, step, late, answers>>

Arrive ==
    /\ step = "sent"
    /\ step' = "arrived"
    /\ late' = draining
    /\ UNCHANGED <<config, caller, draining, turn, answers>>

ReadDrainFirst ==
    /\ step = "arrived"
    /\ IF draining THEN Reply("draining") ELSE step' = "open" /\ UNCHANGED answers
    /\ UNCHANGED <<config, caller, draining, turn, late>>

\* An OPTIONS request is answered here, without a credential.
IsPreflight == turn = "preflight"

Preflight ==
    /\ step = "open" /\ IsPreflight
    /\ Reply(IF RequestIsAllowed THEN "granted" ELSE "forbidden")
    /\ UNCHANGED <<config, caller, draining, turn, late>>

\* guard reads the flag again.
ReadDrainAgain ==
    /\ step = "open" /\ ~IsPreflight
    /\ IF draining THEN Reply("draining") ELSE step' = "guarding" /\ UNCHANGED answers
    /\ UNCHANGED <<config, caller, draining, turn, late>>

\* The rest of guard has no await: the first check that fails answers.
Guard ==
    /\ step = "guarding"
    /\ \/ AmbiguousAuthorization /\ Reply("ambiguous_authorization")
       \/ ~AmbiguousAuthorization /\ ~Admitted /\ Reply("admission_required")
       \/ /\ ~AmbiguousAuthorization /\ Admitted /\ ForwardsSecret
          /\ Reply("admission_secret")
       \/ /\ ~AmbiguousAuthorization /\ Admitted /\ ~ForwardsSecret /\ ~RequestIsAllowed
          /\ Reply("origin_blocked")
       \/ /\ ~AmbiguousAuthorization /\ Admitted /\ ~ForwardsSecret /\ RequestIsAllowed
          /\ step' = "inside" /\ UNCHANGED answers
    /\ UNCHANGED <<config, caller, draining, turn, late>>

\* The handler, which a drain does not interrupt, has answered.
HandlerReturns ==
    /\ step = "inside"
    /\ Reply("served")
    /\ UNCHANGED <<config, caller, draining, turn, late>>

\* A browser sends the request itself only after a grant for its origin.
CallerGoesOn ==
    /\ step = "answered" /\ turn # "over"
    /\ IF turn = "preflight" /\ answers[turn] = [status |-> "granted", echo |-> "own"]
       THEN turn' = "actual" /\ step' = "sent"
       ELSE turn' = "over" /\ UNCHANGED step
    /\ late' = FALSE
    /\ UNCHANGED <<config, caller, draining, answers>>

Next ==
    \/ BeginDrain \/ Arrive \/ ReadDrainFirst \/ Preflight \/ ReadDrainAgain
    \/ Guard \/ HandlerReturns \/ CallerGoesOn

Spec == Init /\ [][Next]_vars

-----------------------------------------------------------------------------
(* Properties *)

\* The state is well formed: only the request itself is ever inside a handler.
TypeOK ==
    /\ config \in ConfigType /\ caller \in CallerType
    /\ draining \in BOOLEAN /\ late \in BOOLEAN
    /\ turn \in Turns \cup {"over"}
    /\ step \in {"sent", "arrived", "open", "guarding", "inside", "answered"}
    /\ answers \in [Turns -> [status : Statuses, echo : {"none", "own", "default"}]]
    /\ step = "inside" => turn = "actual"

\* The CORS headers and the verdict agree over the whole exchange: no response
\* that refuses an origin names it, and a browser that was granted its preflight
\* is never blocked for its origin afterwards and can read whatever answer it
\* gets, the refusal of a drain that began in between included.
EchoFollowsVerdict ==
    /\ \A t \in Turns :
           answers[t].status \in {"forbidden", "origin_blocked"} => answers[t].echo = "default"
    /\ (caller.browser /\ answers["actual"] # NoReply) =>
           answers["actual"].status # "origin_blocked" /\ answers["actual"].echo = "own"

\* No handler runs for a request that arrived after the drain began, or that has
\* two Authorization values, or whose Authorization, which handlers forward, is
\* the admission secret; and a network caller inside a handler has shown the
\* secret in a header that is not forwarded.
HandlerIsGuarded ==
    step = "inside" =>
        /\ ~late
        /\ Len(caller.authorization) <= 1
        /\ config.token => "secret" \notin Range(caller.authorization)
        /\ config.network => config.token /\ "secret" \in Range(caller.xkey) \cup Range(caller.apikey)
=============================================================================
