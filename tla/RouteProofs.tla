----------------------------- MODULE RouteProofs -----------------------------
(***************************************************************************)
(* Theorems about the contract of a route (module RouteContract), for      *)
(* every upstream, every request and every body of their types: header     *)
(* values, selectors, subprotocols and fields of any number.               *)
(*                                                                         *)
(* What a request was classified as is a function of the request and of    *)
(* the upstream, which do not change, so the inductive invariant says      *)
(* which checks a request that came so far has passed.                     *)
(*                                                                         *)
(* A second invariant, AnswerInv, is about what comes out: the refusals    *)
(* that are answered, the credential and the body that are sent.           *)
(***************************************************************************)
EXTENDS RouteContract, FiniteSetTheorems, WellFoundedInduction, TLAPS

-----------------------------------------------------------------------------
(* Checks made one after the other *)

(* The answer is a check that failed, or none did.                             *)
LEMMA OneDecides ==
    ASSUME NEW checks, DOMAIN checks \subseteq Nat,
           \A i \in DOMAIN checks : checks[i][1] => checks[i][2] # "none"
    PROVE  IF FirstRefusal(checks) = "none" THEN \A i \in DOMAIN checks : ~checks[i][1]
           ELSE \E i \in DOMAIN checks : checks[i][1] /\ checks[i][2] = FirstRefusal(checks)
<1>1. CASE Failing(checks) = {}
    BY <1>1 DEF FirstRefusal, Failing
<1>2. CASE Failing(checks) # {}
    <2>1. Failing(checks) \subseteq Nat
        BY DEF Failing
    <2>2. \E x \in Failing(checks) : \A y \in Failing(checks) : ~(<<y, x>> \in OpToRel(<, Nat))
        BY <1>2, <2>1, NatLessThanWellFounded, WFMin
    <2>3. \A x, y \in Nat : <<y, x>> \in OpToRel(<, Nat) <=> y < x
        BY Zenon DEF OpToRel
    <2>4. \E x \in Failing(checks) : \A y \in Failing(checks) : ~(y < x)
        BY <2>1, <2>2, <2>3, Zenon
    <2>5. \E x \in Failing(checks) : \A y \in Failing(checks) : x =< y
        BY <2>1, <2>4
    <2>6. Min(Failing(checks)) \in Failing(checks)
        BY <2>5 DEF Min
    <2>7. FirstRefusal(checks) = checks[Min(Failing(checks))][2]
        BY <1>2 DEF FirstRefusal
    <2>8. QED BY <2>6, <2>7 DEF Failing
<1>3. QED BY <1>1, <1>2

(* What passes has failed none of the checks, if no refusal is "none".         *)
LEMMA PassedAll ==
    ASSUME NEW checks, FirstRefusal(checks) = "none", DOMAIN checks \subseteq Nat,
           \A i \in DOMAIN checks : checks[i][2] # "none"
    PROVE  \A i \in DOMAIN checks : ~checks[i][1]
BY OneDecides

-----------------------------------------------------------------------------
(* What a request that was not refused looks like *)

LEMMA RestPasses ==
    ASSUME NEW r, RestRefusal(r) = "none"
    PROVE  ~DialectMismatch(r)
<1> DEFINE checks == <<
        <<r.callId = "invalid", "invalid_call_id">>,
        <<r.method # "POST", "unknown_endpoint">>,
        <<DialectMismatch(r), "unsupported_negotiation">>,
        <<r.path \in {"live", "calls"} /\ MediaType(r.contentType) \notin {"multipart", "sdp"},
            "unsupported_content_type">>,
        <<r.path \in {"live", "calls"} /\ IsPrivate(r) /\ MediaType(r.contentType) = "sdp",
            "unsupported_content_type">>,
        <<r.path = "translation_calls" /\ MediaType(r.contentType) # "sdp",
            "unsupported_content_type">>>>
<1>1. FirstRefusal(checks) = "none"
    BY DEF RestRefusal
<1>2. DOMAIN checks = 1..6 /\ \A i \in 1..6 : checks[i][2] # "none"
    OBVIOUS
<1>3. ~checks[3][1]
    <2> HIDE DEF checks
    <2> QED BY <1>1, <1>2, PassedAll
<1>4. QED BY <1>3

LEMMA SocketPasses ==
    ASSUME NEW r, SocketRefusal(r) = "none"
    PROVE  /\ ~PrivateTranslation(r) /\ ~TooManyCallIds(r)
           /\ Target(r) # "existing_call" => r.models = <<"named">>
<1> DEFINE checks == <<
        <<r.method # "GET" \/ ~SocketRoute(r) \/ r.upgrade = "none", "unknown_endpoint">>,
        <<r.query = "malformed", "invalid_query">>,
        <<PrivateTranslation(r), "unsupported_negotiation">>,
        <<TooManyCallIds(r), "invalid_query">>,
        <<r.callIds = <<"invalid">>, "invalid_call_id">>,
        <<Target(r) # "existing_call" /\ r.models # <<"named">>, "invalid_query">>>>
<1>1. FirstRefusal(checks) = "none"
    BY DEF SocketRefusal
<1>2. DOMAIN checks = 1..6 /\ \A i \in 1..6 : checks[i][2] # "none"
    OBVIOUS
<1>3. ~checks[3][1] /\ ~checks[4][1] /\ ~checks[6][1]
    <2> HIDE DEF checks
    <2> QED BY <1>1, <1>2, PassedAll
<1>4. QED BY <1>3

LEMMA AliasPasses ==
    ASSUME NEW r, AliasRefusal(r) = "none"
    PROVE  Len(r.alpha) = 1 /\ PrivateDialect(r.alpha) = AliasDialect(r.path)
<1> DEFINE checks == <<
        <<r.callId = "invalid" \/ r.upgrade = "none", "unknown_endpoint">>,
        <<Len(r.alpha) # 1 \/ PrivateDialect(r.alpha) # AliasDialect(r.path),
            "invalid_header">>>>
<1>1. FirstRefusal(checks) = "none"
    BY DEF AliasRefusal
<1>2. DOMAIN checks = 1..2 /\ \A i \in 1..2 : checks[i][2] # "none"
    OBVIOUS
<1>3. ~checks[2][1]
    <2> HIDE DEF checks
    <2> QED BY <1>1, <1>2, PassedAll
<1>4. QED BY <1>3

(* What the headers of a request that was not refused have in common.         *)
LEMMA MetadataPasses ==
    ASSUME NEW r \in RequestType, MetadataRefusal(r) = "none"
    PROVE  /\ Len(r.alpha) <= 1 /\ r.metadata # "repeated" /\ r.authorization # "repeated"
           /\ IsRest(r) => Len(r.contentType) <= 1
           /\ ~IsRest(r) => \A i, j \in DOMAIN r.offered : r.offered[i] = r.offered[j] => i = j
           /\ BrowserCredential(r) => r.authorization = "none" /\ ~IsPrivate(r)
<1>0. r.alpha \in Alphas /\ r.contentType \in ContentTypes /\ r.offered \in Seq(Tokens)
    BY DEF RequestType
<1>1. Len(r.alpha) \in Nat /\ Len(r.contentType) \in Nat
    BY <1>0 DEF Alphas, ContentTypes
<1>2. CASE IsAlias(r)
    <2> DEFINE checks == <<
            <<Illegible(r), "invalid_header">>,
            <<AmbiguousCredential(r), "ambiguous_authorization">>,
            <<r.offered # <<>>, "invalid_subprotocol">>>>
    <2>1. FirstRefusal(checks) = "none"
        BY <1>2 DEF MetadataRefusal, AliasMetadata, IsRest, IsAlias, RestPaths, RestOperations,
                    AliasPaths
    <2>2. DOMAIN checks = 1..3 /\ \A i \in 1..3 : checks[i][2] # "none"
        OBVIOUS
    <2>3. ~checks[1][1] /\ ~checks[2][1] /\ ~checks[3][1]
        <3> HIDE DEF checks
        <3> QED BY <2>1, <2>2, PassedAll
    <2>4. r.path \notin RestPaths \cup SocketPaths
        BY <1>2 DEF IsAlias, AliasPaths, RestPaths, RestOperations, SocketPaths
    <2>a. ~Illegible(r) /\ ~AmbiguousCredential(r) /\ r.offered = <<>>
        BY <2>3
    <2> HIDE DEF checks
    <2>5. Len(r.alpha) <= 1 /\ r.metadata # "repeated" /\ r.authorization # "repeated"
        BY <1>1, <2>a DEF Illegible, Repeated, AmbiguousCredential
    <2>6. DOMAIN r.offered = {}
        BY <2>a
    <2>7. ~IsRest(r) /\ ~BrowserCredential(r)
        BY <2>4 DEF IsRest, BrowserCredential
    <2>8. QED BY <2>5, <2>6, <2>7
<1>3. CASE IsRest(r) /\ IsPrivate(r)
    <2> DEFINE checks == <<
            <<Illegible(r), "invalid_header">>,
            <<AmbiguousCredential(r), "ambiguous_authorization">>,
            <<r.authorization = "bytes" \/ Len(r.contentType) # 1, "invalid_header">>>>
    <2>1. FirstRefusal(checks) = "none"
        BY <1>3 DEF MetadataRefusal, PrivateCallMetadata, IsRest, IsAlias, RestPaths,
                    RestOperations, AliasPaths
    <2>2. DOMAIN checks = 1..3 /\ \A i \in 1..3 : checks[i][2] # "none"
        OBVIOUS
    <2>3. ~checks[1][1] /\ ~checks[2][1] /\ ~checks[3][1]
        <3> HIDE DEF checks
        <3> QED BY <2>1, <2>2, PassedAll
    <2>4. r.path \notin SocketPaths
        BY <1>3 DEF IsRest, RestPaths, RestOperations, SocketPaths
    <2>a. /\ ~Illegible(r) /\ ~AmbiguousCredential(r)
          /\ ~(r.authorization = "bytes" \/ Len(r.contentType) # 1)
        BY <2>3
    <2>b. ~Illegible(r) /\ ~AmbiguousCredential(r) /\ Len(r.contentType) = 1
        BY <2>a
    <2> HIDE DEF checks
    <2>5. /\ Len(r.alpha) <= 1 /\ r.metadata # "repeated" /\ r.authorization # "repeated"
          /\ Len(r.contentType) <= 1
        BY <1>1, <2>b DEF Illegible, Repeated, AmbiguousCredential
    <2>6. ~BrowserCredential(r)
        BY <2>4 DEF BrowserCredential
    <2>7. QED BY <1>3, <2>5, <2>6
<1>4. CASE IsRest(r) /\ ~IsPrivate(r)
    <2> DEFINE checks == <<
            <<Repeated(r) \/ Len(r.contentType) > 1, "invalid_header">>,
            <<AmbiguousCredential(r), "ambiguous_authorization">>>>
    <2>1. FirstRefusal(checks) = "none"
        BY <1>4 DEF MetadataRefusal, OfficialMetadata, IsRest, IsAlias, RestPaths,
                    RestOperations, AliasPaths
    <2>2. DOMAIN checks = 1..2 /\ \A i \in 1..2 : checks[i][2] # "none"
        OBVIOUS
    <2>3. ~checks[1][1] /\ ~checks[2][1]
        <3> HIDE DEF checks
        <3> QED BY <2>1, <2>2, PassedAll
    <2>4. r.path \notin SocketPaths
        BY <1>4 DEF IsRest, RestPaths, RestOperations, SocketPaths
    <2>a. ~(Repeated(r) \/ Len(r.contentType) > 1) /\ ~AmbiguousCredential(r)
        BY <2>3
    <2> HIDE DEF checks
    <2>5. /\ Len(r.alpha) <= 1 /\ r.metadata # "repeated" /\ r.authorization # "repeated"
          /\ Len(r.contentType) <= 1
        BY <1>1, <2>a DEF Repeated, AmbiguousCredential
    <2>6. ~BrowserCredential(r)
        BY <2>4 DEF BrowserCredential
    <2>7. QED BY <1>4, <2>5, <2>6
<1>5. CASE ~IsRest(r) /\ ~IsAlias(r)
    <2> DEFINE checks == <<
            <<~WellOffered(r.offered), "invalid_subprotocol">>,
            <<Repeated(r), "invalid_header">>,
            <<AmbiguousCredential(r), "ambiguous_authorization">>,
            <<Undecodable(r), "invalid_header">>,
            <<IsPrivate(r) /\ r.offered # <<>>, "invalid_subprotocol">>,
            <<"organization" \in Range(r.offered) /\ r.metadata = "organization",
                "invalid_subprotocol">>,
            <<BrowserCredential(r) /\ r.authorization # "none", "invalid_subprotocol">>>>
    <2>1. FirstRefusal(checks) = "none"
        BY <1>5 DEF MetadataRefusal, SocketMetadata
    <2>2. DOMAIN checks = 1..7 /\ \A i \in 1..7 : checks[i][2] # "none"
        OBVIOUS
    <2>3. ~checks[1][1] /\ ~checks[2][1] /\ ~checks[3][1] /\ ~checks[5][1] /\ ~checks[7][1]
        <3> HIDE DEF checks
        <3> QED BY <2>1, <2>2, PassedAll
    <2>4. BrowserCredential(r) => r.offered # <<>>
        BY DEF BrowserCredential, Range
    <2>a. WellOffered(r.offered) /\ ~Repeated(r) /\ ~AmbiguousCredential(r)
        BY <2>3
    <2>b. /\ ~(IsPrivate(r) /\ r.offered # <<>>)
          /\ ~(BrowserCredential(r) /\ r.authorization # "none")
        BY <2>3
    <2> HIDE DEF checks
    <2>5. Len(r.alpha) <= 1 /\ r.metadata # "repeated" /\ r.authorization # "repeated"
        BY <1>1, <2>a DEF Repeated, AmbiguousCredential
    <2>6. \A i, j \in DOMAIN r.offered : r.offered[i] = r.offered[j] => i = j
        BY <2>a DEF WellOffered
    <2>7. BrowserCredential(r) => r.authorization = "none" /\ ~IsPrivate(r)
        BY <2>b, <2>4
    <2>8. QED BY <1>5, <2>5, <2>6, <2>7
<1>6. QED BY <1>2, <1>3, <1>4, <1>5

-----------------------------------------------------------------------------
(* What it was classified as *)

LEMMA DialectHeard ==
    ASSUME NEW alpha
    PROVE  /\ PrivateDialect(alpha) \in Dialects
           /\ PrivateDialect(alpha) = "v1" => Head(alpha) = "v1"
           /\ PrivateDialect(alpha) = "frameless" => Head(alpha) = "v2"
BY DEF PrivateDialect, Dialects, PrivateDialects

LEMMA SelectTyped ==
    ASSUME NEW r, NEW profile
    PROVE  /\ Select(r, profile).dialect = PrivateDialect(r.alpha)
           /\ Select(r, profile).credential \in {"managed", "client", "ephemeral"}
<1>1. CredentialPolicy(r, profile) \in {"managed", "client", "ephemeral"}
    BY DEF CredentialPolicy, ConfiguredCredential
<1>2. QED BY <1>1 DEF Select

\* A request that was not refused is of exactly one kind of route.
LEMMA RouteKnown ==
    ASSUME NEW r, RouteRefusal(r) = "none"
    PROVE  \/ IsRest(r) /\ ~IsAlias(r) /\ r.path \notin SocketPaths /\ RestRefusal(r) = "none"
           \/ ~IsRest(r) /\ ~IsAlias(r) /\ r.path \in SocketPaths /\ SocketRefusal(r) = "none"
           \/ ~IsRest(r) /\ IsAlias(r) /\ r.path \notin SocketPaths /\ AliasRefusal(r) = "none"
BY DEF RouteRefusal, IsRest, IsAlias, RestPaths, RestOperations, SocketPaths, AliasPaths

\* A private dialect goes with an operation that speaks it.
LEMMA CapabilityTyped ==
    ASSUME NEW r \in RequestType, RouteRefusal(r) = "none"
    PROVE  CapabilityOf(r) \in Capabilities
<1> DEFINE dialect == PrivateDialect(r.alpha)
<1>0. dialect \in Dialects
    BY DialectHeard
<1>1. CASE IsRest(r) /\ ~IsAlias(r) /\ RestRefusal(r) = "none"
    <2>1. Operation(r) \in RestOperations
        BY <1>1 DEF Operation, IsRest, RestPaths, RestOperations
    <2>2. dialect # "official" => Operation(r) = "create_call"
        BY <1>1, RestPasses DEF DialectMismatch, Operation, IsPrivate
    <2>3. FromRest(Operation(r), dialect) \in Capabilities
        <3>1. CASE dialect = "official"
            BY <2>1, <3>1 DEF FromRest, Capabilities
        <3>2. CASE dialect # "official"
            BY <1>0, <2>2, <3>2 DEF FromRest, Capabilities, Dialects, PrivateSurfaces
        <3>3. QED BY <3>1, <3>2
    <2>4. QED BY <1>1, <2>3 DEF CapabilityOf
<1>2. CASE ~IsRest(r) /\ ~IsAlias(r) /\ SocketRefusal(r) = "none"
    <2>1. Target(r) \in WebSocketTargets
        BY DEF Target, WebSocketTargets
    <2>2. dialect # "official" => Target(r) # "translation"
        BY <1>2, SocketPasses DEF PrivateTranslation, IsPrivate, Target
    <2>3. FromWebSocket(Target(r), dialect) \in Capabilities
        <3>1. CASE dialect = "official"
            BY <2>1, <3>1 DEF FromWebSocket, Capabilities
        <3>2. CASE dialect # "official"
            BY <1>0, <2>1, <2>2, <3>2
               DEF FromWebSocket, Capabilities, Dialects, PrivateSurfaces, WebSocketTargets
        <3>3. QED BY <3>1, <3>2
    <2>4. QED BY <1>2, <2>3 DEF CapabilityOf
<1>3. CASE ~IsRest(r) /\ IsAlias(r) /\ AliasRefusal(r) = "none"
    <2>1. dialect \in PrivateDialects
        BY <1>3, AliasPasses DEF AliasDialect, PrivateDialects
    <2>2. QED
        BY <1>3, <2>1 DEF CapabilityOf, PrivateSidebandAlias, Capabilities, PrivateSurfaces
<1>4. QED BY <1>1, <1>2, <1>3, RouteKnown

-----------------------------------------------------------------------------
(* The inductive invariant *)

Classified(r, profile) ==
    /\ RouteRefusal(r) = "none"
    /\ selection = Select(r, profile)
    /\ capability = CapabilityOf(r)

\* What is known of the request is a function of it, and a request that came so
\* far passed the checks on its way.
Passed ==
    /\ \/ selection = Unclassified /\ capability = NoCapability
       \/ Classified(request, upstream.profile)
    /\ stage \notin {"arrived", "answered"} => Classified(request, upstream.profile)
    /\ stage \in {"validated", "accepted", "built", "permitted", "contacted"} =>
           MetadataRefusal(request) = "none"

RouteInv == TypeOK /\ Passed /\ SpeaksOneDialect

\* What SpeaksOneDialect asks of what is sent.
OfOneDialect(sent) ==
    /\ sent.alpha = "none" <=> sent.query = "as_sent"
    /\ (sent.query = "avas") <=>
           (IsPrivateCall(request) /\ WantsAvas(selection.dialect, upstream.backend))
    /\ sent.query = "intent" => sent.alpha = "v1"
    /\ (sent.path \in {"live", "live_call"}) => sent.alpha = "v2"
    /\ sent.path = "calls" /\ sent.alpha = "v2" => upstream.backend
    /\ (sent.host = "public_api") <=>
           (upstream.backend /\ IsPrivate(request) /\ ~IsRest(request))

\* What the upstream is sent is of the dialect that was negotiated.
LEMMA UpstreamHearsOne ==
    ASSUME RouteAssumption, upstream \in Upstreams, request \in RequestType,
           Classified(request, upstream.profile), NEW body
    PROVE  Upstreamward(body).host # "none" /\ OfOneDialect(Upstreamward(body))
<1> DEFINE dialect == PrivateDialect(request.alpha)
           alpha == IF IsPrivate(request) THEN Head(request.alpha) ELSE "none"
<1>1. selection.dialect = dialect
    BY SelectTyped DEF Classified
<1>2. /\ dialect \in {"v1", "frameless", "official"}
      /\ dialect = "v1" => alpha = "v1"
      /\ dialect = "frameless" => alpha = "v2"
      /\ dialect = "official" => alpha = "none"
      /\ IsPrivate(request) <=> dialect # "official"
    BY DialectHeard DEF IsPrivate, Dialects, PrivateDialects
<1>3. upstream.backend \in BOOLEAN
    BY DEF RouteAssumption
<1>4. JoinHost = IF upstream.backend THEN "public_api" ELSE "base"
    BY DEF JoinHost
<1> DEFINE sent == Upstreamward(body)
<1> SUFFICES sent.host # "none" /\ OfOneDialect(sent)
    OBVIOUS
<1>5. sent.host = Url.host /\ sent.path = Url.path /\ sent.query = Url.query /\ sent.alpha = alpha
    BY DEF Upstreamward
<1> DEFINE rest == IsRest(request)
<1>6. CASE IsAlias(request)
    <2>1. ~rest /\ AliasRefusal(request) = "none"
        BY <1>6, RouteKnown DEF Classified
    <2>2. dialect = AliasDialect(request.path) /\ request.path \in {"live_call", "calls_call"}
        BY <1>6, <2>1, AliasPasses DEF IsAlias, AliasPaths
    <2>3. /\ request.path = "live_call" => dialect = "frameless"
          /\ request.path = "calls_call" => dialect = "v1"
        BY <2>2 DEF AliasDialect
    <2>b. IsPrivate(request)
        BY <1>2, <2>2, <2>3
    <2>c. Url = AliasUrl(request.path)
        BY <1>6, <2>1, <2>b DEF Url
    <2>4. Url.host = JoinHost /\ Url.path = request.path /\ Url.query = "none"
        BY <2>c DEF AliasUrl, To
    <2>5. ~IsPrivateCall(request)
        BY <2>1 DEF IsPrivateCall
    <2> HIDE DEF sent, alpha, dialect
    <2>6. QED BY <1>2, <1>3, <1>4, <1>5, <2>1, <2>2, <2>3, <2>b, <2>4, <2>5 DEF OfOneDialect
<1>7. CASE ~IsAlias(request) /\ ~IsPrivate(request)
    <2>1. ~IsPrivateCall(request) /\ dialect = "official"
        BY <1>2, <1>7 DEF IsPrivateCall
    <2>2. Url.host = "base" /\ Url.path = request.path /\ Url.query = "as_sent"
        BY <1>7 DEF Url, OfficialUrl, To
    <2>3. request.path \notin {"live", "live_call"}
        <3>1. request.path # "live"
            BY <2>1, RouteKnown, RestPasses
               DEF Classified, DialectMismatch, IsRest, RestPaths
        <3>2. request.path # "live_call"
            BY <1>7 DEF IsAlias, AliasPaths
        <3>3. QED BY <3>1, <3>2
    <2> HIDE DEF sent, alpha, dialect
    <2>4. QED BY <1>2, <1>5, <1>7, <2>1, <2>2, <2>3 DEF OfOneDialect
<1>8. CASE ~IsAlias(request) /\ IsPrivate(request) /\ IsRest(request)
    <2>1. IsPrivateCall(request) /\ dialect \in {"v1", "frameless"}
        BY <1>2, <1>8 DEF IsPrivateCall
    <2>2. Url = CallUrl(dialect)
        BY <1>1, <1>8 DEF Url
    <2>3. /\ Url.host = "base"
          /\ (upstream.backend \/ dialect = "v1") => Url.path = "calls" /\ Url.query = "avas"
          /\ ~(upstream.backend \/ dialect = "v1") => Url.path = "live" /\ Url.query = "none"
        BY <2>2 DEF CallUrl, To
    <2>4. WantsAvas(selection.dialect, upstream.backend) <=> (upstream.backend \/ dialect = "v1")
        BY <1>1, <2>1 DEF WantsAvas
    <2> HIDE DEF sent, alpha, dialect
    <2>5. QED BY <1>2, <1>3, <1>5, <1>8, <2>1, <2>3, <2>4 DEF OfOneDialect
<1>9. CASE ~IsAlias(request) /\ IsPrivate(request) /\ ~IsRest(request)
    <2>1. ~IsPrivateCall(request) /\ dialect \in {"v1", "frameless"}
        BY <1>2, <1>9 DEF IsPrivateCall
    <2>2. Url = SocketUrl(dialect, selection.operation)
        BY <1>1, <1>9 DEF Url
    <2>3. /\ Url.host = JoinHost
          /\ dialect = "v1" => Url.path = "realtime" /\ Url.query = "intent"
          /\ dialect = "frameless" => Url.path \in {"live", "live_call"} /\ Url.query = "none"
        BY <2>1, <2>2 DEF SocketUrl, To
    <2> HIDE DEF sent, alpha, dialect
    <2>4. QED BY <1>2, <1>3, <1>4, <1>5, <1>9, <2>1, <2>3 DEF OfOneDialect
<1>10. QED BY <1>6, <1>7, <1>8, <1>9

LEMMA RequiredTyped ==
    ASSUME NEW profile, NEW refused
    PROVE  Support(profile, refused).required \subseteq Profiles
BY DEF Support, Served, Unsupported, Profiles, ApiKeyProfiles, ManagedProfiles,
       ApiKeyManagedProfile

LEMMA InitInv == RouteAssumption /\ Init => RouteInv
<1> SUFFICES ASSUME RouteAssumption, Init PROVE RouteInv
    OBVIOUS
<1>1. TypeOK
    BY DEF RouteAssumption, Init, TypeOK, Stages, Unclassified, NoCapability, NoAnswer, Contacted
<1>2. Passed
    BY DEF Init, Passed
<1>3. SpeaksOneDialect
    BY DEF Init, SpeaksOneDialect, Contacted
<1>4. QED BY <1>1, <1>2, <1>3 DEF RouteInv

\* A step that only goes on or refuses: most of the handler.
LEMMA GoesOn ==
    ASSUME TypeOK, stage \notin {"answered", "contacted"}, NEW refusal, NEW next,
           next \in Stages \ {"answered", "contacted"}, Proceed(refusal, next),
           UNCHANGED <<upstream, request, selection, capability, contact>>
    PROVE  TypeOK' /\ SpeaksOneDialect'
<1>1. CASE refusal = "none"
    BY <1>1 DEF TypeOK, Proceed, SpeaksOneDialect, Contacted
<1>2. CASE refusal # "none"
    <2>1. stage' = "answered" /\ answer'.error = refusal /\ answer'.profiles = {}
        BY <1>2 DEF Proceed, NoAnswer
    <2>2. QED BY <1>2, <2>1 DEF TypeOK, Stages, SpeaksOneDialect, Contacted
<1>3. QED BY <1>1, <1>2

\* A step that looks a capability up.
LEMMA Refuses ==
    ASSUME TypeOK, stage \notin {"answered", "contacted"}, NEW refused,
           RefuseUnsupported(refused),
           UNCHANGED <<upstream, request, selection, capability, contact>>
    PROVE  TypeOK' /\ SpeaksOneDialect'
<1>1. stage' = "answered" /\ answer'.error # "none" /\ answer'.profiles \subseteq Profiles
    BY RequiredTyped DEF RefuseUnsupported
<1>2. QED BY <1>1 DEF TypeOK, Stages, SpeaksOneDialect, Contacted

LEMMA Looks ==
    ASSUME TypeOK, stage \notin {"answered", "contacted"}, NEW next,
           next \in Stages \ {"answered", "contacted"}, ApplySupport(next)
    PROVE  /\ TypeOK' /\ SpeaksOneDialect'
           /\ stage' \in {next, "answered"}
           /\ UNCHANGED <<upstream, request, selection, capability>>
<1>1. CASE IsSupported(upstream.profile, capability)
    BY <1>1 DEF ApplySupport, TypeOK, SpeaksOneDialect, Contacted
<1>2. CASE ~IsSupported(upstream.profile, capability)
    BY <1>2, Refuses DEF ApplySupport, RefuseUnsupported
<1>3. QED BY <1>1, <1>2

\* Contacting the upstream.
LEMMA Reaches ==
    ASSUME RouteAssumption, TypeOK, Classified(request, upstream.profile), answer.error = "none",
           NEW body, stage' = "contacted", contact' = Upstreamward(body),
           UNCHANGED <<upstream, request, selection, capability, answer>>
    PROVE  TypeOK' /\ SpeaksOneDialect'
<1>1. contact'.host # "none" /\ OfOneDialect(contact')
    BY UpstreamHearsOne DEF TypeOK
<1>2. contact' # NoContact
    BY <1>1 DEF NoContact
<1>3. TypeOK'
    BY <1>2 DEF TypeOK, Stages, Contacted
<1>4. SpeaksOneDialect'
    BY <1>1 DEF OfOneDialect, SpeaksOneDialect, Contacted
<1>5. QED BY <1>3, <1>4

LEMMA NextInv == RouteAssumption /\ RouteInv /\ [Next]_vars => RouteInv'
<1> SUFFICES ASSUME RouteAssumption, TypeOK, Passed, SpeaksOneDialect, [Next]_vars
    PROVE  TypeOK' /\ Passed' /\ SpeaksOneDialect'
    BY DEF RouteInv
<1>1. CASE Classify
    <2>1. CASE RouteRefusal(request) = "none"
        <3>1. /\ stage = "arrived" /\ stage' = "classified"
              /\ selection' = Select(request, upstream.profile)
              /\ capability' = CapabilityOf(request)
              /\ UNCHANGED <<upstream, request, answer, contact>>
            BY <1>1, <2>1 DEF Classify, Proceed
        <3>2. Classified(request, upstream.profile)'
            BY <2>1, <3>1 DEF Classified
        <3>3. Passed'
            BY <3>1, <3>2 DEF Passed
        <3>4. capability' \in Capabilities
            BY <2>1, <3>1, CapabilityTyped DEF TypeOK
        <3>5. /\ selection'.dialect \in Dialects
              /\ selection'.credential \in {"managed", "client", "ephemeral"}
            BY <3>1, SelectTyped, DialectHeard
        <3>6. TypeOK' /\ SpeaksOneDialect'
            BY <3>1, <3>4, <3>5 DEF TypeOK, Stages, SpeaksOneDialect, Contacted
        <3>7. QED BY <3>3, <3>6
    <2>2. CASE RouteRefusal(request) # "none"
        <3>1. /\ stage = "arrived" /\ stage' = "answered"
              /\ Proceed(RouteRefusal(request), "classified")
              /\ UNCHANGED <<upstream, request, selection, capability, contact>>
            BY <1>1, <2>2 DEF Classify, Proceed
        <3>2. TypeOK' /\ SpeaksOneDialect'
            BY <3>1, GoesOn DEF Stages
        <3>3. Passed'
            BY <3>1 DEF Passed, Classified
        <3>4. QED BY <3>2, <3>3
    <2>3. QED BY <2>1, <2>2
<1>2. CASE SupportOfficial
    <2>1. stage = "classified" /\ ApplySupport("screened")
        BY <1>2 DEF SupportOfficial
    <2>2. /\ TypeOK' /\ SpeaksOneDialect' /\ stage' \in {"screened", "answered"}
          /\ UNCHANGED <<upstream, request, selection, capability>>
        BY <2>1, Looks DEF Stages
    <2>3. QED BY <2>1, <2>2 DEF Passed, Classified
<1>3. CASE ValidateMetadata
    <2>1. /\ stage \in {"classified", "screened"}
          /\ Proceed(MetadataRefusal(request), "validated")
          /\ UNCHANGED <<upstream, request, selection, capability, contact>>
        BY <1>3 DEF ValidateMetadata
    <2>2. TypeOK' /\ SpeaksOneDialect'
        BY <2>1, GoesOn DEF Stages
    <2>3. Passed'
        BY <2>1 DEF Passed, Classified, Proceed
    <2>4. QED BY <2>2, <2>3
<1>4. CASE SupportPrivate
    <2>1. stage = "validated" /\ ApplySupport("accepted")
        BY <1>4 DEF SupportPrivate
    <2>2. /\ TypeOK' /\ SpeaksOneDialect' /\ stage' \in {"accepted", "answered"}
          /\ UNCHANGED <<upstream, request, selection, capability>>
        BY <2>1, Looks DEF Stages
    <2>3. QED BY <2>1, <2>2 DEF Passed, Classified
<1>5. CASE Build
    <2>1. PICK refusal : /\ stage \in {"accepted", "validated"}
                         /\ Proceed(refusal, "built")
                         /\ UNCHANGED <<upstream, request, selection, capability, contact>>
        BY <1>5 DEF Build
    <2>2. TypeOK' /\ SpeaksOneDialect'
        BY <2>1, GoesOn DEF Stages
    <2>3. Passed'
        BY <2>1 DEF Passed, Classified, Proceed
    <2>4. QED BY <2>2, <2>3
<1>6. CASE Admit
    <2>1. PICK refusal : /\ stage = "built"
                         /\ Proceed(refusal, "permitted")
                         /\ UNCHANGED <<upstream, request, selection, capability, contact>>
        BY <1>6 DEF Admit
    <2>2. TypeOK' /\ SpeaksOneDialect'
        BY <2>1, GoesOn DEF Stages
    <2>3. Passed'
        BY <2>1 DEF Passed, Classified, Proceed
    <2>4. QED BY <2>2, <2>3
<1>7. CASE Contact
    <2>1. stage = "permitted" /\ stage' = "contacted" /\ contact' = Upstreamward(<<>>)
          /\ UNCHANGED <<upstream, request, selection, capability, answer>>
        BY <1>7 DEF Contact
    <2>2. Classified(request, upstream.profile) /\ answer.error = "none"
        BY <2>1 DEF Passed, TypeOK
    <2>3. TypeOK' /\ SpeaksOneDialect'
        BY <2>1, <2>2, Reaches
    <2>4. Passed'
        BY <2>1 DEF Passed, Classified
    <2>5. QED BY <2>3, <2>4
<1>8. ASSUME NEW body \in Bodies, CreateCall(body) PROVE TypeOK' /\ Passed' /\ SpeaksOneDialect'
    <2> DEFINE refusal == BodyRefusal(upstream, selection.dialect, body)
    <2>1. stage = "permitted" /\ UNCHANGED <<upstream, request, selection, capability>>
        BY <1>8 DEF CreateCall
    <2>2. Classified(request, upstream.profile) /\ answer.error = "none"
        BY <2>1 DEF Passed, TypeOK
    <2>3. \/ stage' = "contacted" /\ contact' = Upstreamward(Outbound(upstream, body))
              /\ UNCHANGED answer
          \/ RefuseUnsupported(OfficialSession(body)) /\ UNCHANGED contact
          \/ stage' = "answered" /\ Proceed(refusal, "permitted") /\ UNCHANGED contact
        BY <1>8 DEF CreateCall, Proceed
    <2>4. CASE stage' = "contacted" /\ contact' = Upstreamward(Outbound(upstream, body))
                   /\ UNCHANGED answer
        <3>1. TypeOK' /\ SpeaksOneDialect'
            BY <2>1, <2>2, <2>4, Reaches
        <3>2. Passed'
            BY <2>1, <2>4 DEF Passed, Classified
        <3>3. QED BY <3>1, <3>2
    <2>5. CASE RefuseUnsupported(OfficialSession(body)) /\ UNCHANGED contact
        <3>1. TypeOK' /\ SpeaksOneDialect'
            BY <2>1, <2>5, Refuses
        <3>2. stage' = "answered"
            BY <2>5 DEF RefuseUnsupported
        <3>3. Passed'
            BY <2>1, <3>2 DEF Passed, Classified
        <3>4. QED BY <3>1, <3>3
    <2>6. CASE stage' = "answered" /\ Proceed(refusal, "permitted") /\ UNCHANGED contact
        <3>1. TypeOK' /\ SpeaksOneDialect'
            BY <2>1, <2>6, GoesOn DEF Stages
        <3>2. Passed'
            BY <2>1, <2>6 DEF Passed, Classified
        <3>3. QED BY <3>1, <3>2
    <2>7. QED BY <2>3, <2>4, <2>5, <2>6
<1>9. CASE UNCHANGED vars
    BY <1>9 DEF vars, TypeOK, Passed, Classified, SpeaksOneDialect, Contacted
<1>10. QED
    BY <1>1, <1>2, <1>3, <1>4, <1>5, <1>6, <1>7, <1>8, <1>9 DEF Next

LEMMA SpecInv == Spec => []RouteInv
<1>1. RouteAssumption
    BY RouteAssumption
<1>2. QED BY <1>1, InitInv, NextInv, PTL DEF Spec

-----------------------------------------------------------------------------
(* What a refusal says *)

\* No route is registered for the request: what RegisteredIsServed asks of one
\* that is answered as an unknown endpoint.
Unserved(r) ==
    /\ IsRest(r) => r.method # "POST"
    /\ IsAlias(r) => r.callId = "invalid" \/ r.method # "GET" \/ r.upgrade # "complete"
    /\ r.path \in SocketPaths =>
           \/ r.method # "GET" \/ r.upgrade # "complete"
           \/ r.path = "realtime/" /\ ~IsPrivate(r)

\* The refusals that say nothing of an endpoint, a credential or a capability.
PlainErrors ==
    {"invalid_call_id", "unsupported_negotiation", "unsupported_content_type", "invalid_query",
     "invalid_header", "ambiguous_authorization", "invalid_subprotocol", "multipart_parse",
     "missing_sdp", "session_not_string", "session_not_json", "invalid_session_shape", "too_many"}

\* The router's 404 and the classifiers' is for requests no route is registered for.
LEMMA RouteRefuses ==
    ASSUME NEW r \in RequestType, RouteRefusal(r) # "none"
    PROVE  \/ RouteRefusal(r) \in PlainErrors
           \/ RouteRefusal(r) = "unknown_endpoint" /\ Unserved(r)
<1>1. CASE IsRest(r)
    <2> DEFINE checks == <<
            <<r.callId = "invalid", "invalid_call_id">>,
            <<r.method # "POST", "unknown_endpoint">>,
            <<DialectMismatch(r), "unsupported_negotiation">>,
            <<r.path \in {"live", "calls"} /\ MediaType(r.contentType) \notin {"multipart", "sdp"},
                "unsupported_content_type">>,
            <<r.path \in {"live", "calls"} /\ IsPrivate(r) /\ MediaType(r.contentType) = "sdp",
                "unsupported_content_type">>,
            <<r.path = "translation_calls" /\ MediaType(r.contentType) # "sdp",
                "unsupported_content_type">>>>
    <2>1. RouteRefusal(r) = FirstRefusal(checks)
        BY <1>1 DEF RouteRefusal, RestRefusal, IsRest, IsAlias, RestPaths, RestOperations,
                    SocketPaths, AliasPaths
    <2>2. DOMAIN checks = 1..6 /\ \A i \in 1..6 : checks[i][2] # "none"
        OBVIOUS
    <2>3. \A i \in 1..6 : checks[i][2] \in PlainErrors \cup {"unknown_endpoint"}
        BY DEF PlainErrors
    <2>4. \A i \in 1..6 : checks[i][2] = "unknown_endpoint" => i = 2
        OBVIOUS
    <2>5. checks[2][1] => Unserved(r)
        BY <1>1 DEF Unserved, IsRest, IsAlias, RestPaths, RestOperations, SocketPaths, AliasPaths
    <2> HIDE DEF checks
    <2>6. \E i \in 1..6 : checks[i][1] /\ checks[i][2] = FirstRefusal(checks)
        BY <2>1, <2>2, OneDecides
    <2>7. QED BY <2>1, <2>3, <2>4, <2>5, <2>6
<1>2. CASE r.path \in SocketPaths
    <2> DEFINE checks == <<
            <<r.method # "GET" \/ ~SocketRoute(r) \/ r.upgrade = "none", "unknown_endpoint">>,
            <<r.query = "malformed", "invalid_query">>,
            <<PrivateTranslation(r), "unsupported_negotiation">>,
            <<TooManyCallIds(r), "invalid_query">>,
            <<r.callIds = <<"invalid">>, "invalid_call_id">>,
            <<Target(r) # "existing_call" /\ r.models # <<"named">>, "invalid_query">>>>
    <2>1. RouteRefusal(r) = FirstRefusal(checks)
        BY <1>2 DEF RouteRefusal, SocketRefusal, IsRest, IsAlias, RestPaths, RestOperations,
                    SocketPaths, AliasPaths
    <2>2. DOMAIN checks = 1..6 /\ \A i \in 1..6 : checks[i][2] # "none"
        OBVIOUS
    <2>3. \A i \in 1..6 : checks[i][2] \in PlainErrors \cup {"unknown_endpoint"}
        BY DEF PlainErrors
    <2>4. \A i \in 1..6 : checks[i][2] = "unknown_endpoint" => i = 1
        OBVIOUS
    <2>5. checks[1][1] => Unserved(r)
        BY <1>2 DEF Unserved, SocketRoute, Literal, IsRest, IsAlias, RestPaths, RestOperations,
                    SocketPaths, AliasPaths
    <2> HIDE DEF checks
    <2>6. \E i \in 1..6 : checks[i][1] /\ checks[i][2] = FirstRefusal(checks)
        BY <2>1, <2>2, OneDecides
    <2>7. QED BY <2>1, <2>3, <2>4, <2>5, <2>6
<1>3. CASE IsAlias(r)
    <2> DEFINE checks == <<
            <<r.callId = "invalid" \/ r.upgrade = "none", "unknown_endpoint">>,
            <<Len(r.alpha) # 1 \/ PrivateDialect(r.alpha) # AliasDialect(r.path),
                "invalid_header">>>>
    <2>1. RouteRefusal(r) = FirstRefusal(checks)
        BY <1>3 DEF RouteRefusal, AliasRefusal, IsRest, IsAlias, RestPaths, RestOperations,
                    SocketPaths, AliasPaths
    <2>2. DOMAIN checks = 1..2 /\ \A i \in 1..2 : checks[i][2] # "none"
        OBVIOUS
    <2>3. \A i \in 1..2 : checks[i][2] \in PlainErrors \cup {"unknown_endpoint"}
        BY DEF PlainErrors
    <2>4. \A i \in 1..2 : checks[i][2] = "unknown_endpoint" => i = 1
        OBVIOUS
    <2>5. checks[1][1] => Unserved(r)
        BY <1>3 DEF Unserved, IsRest, IsAlias, RestPaths, RestOperations, SocketPaths, AliasPaths
    <2> HIDE DEF checks
    <2>6. \E i \in 1..2 : checks[i][1] /\ checks[i][2] = FirstRefusal(checks)
        BY <2>1, <2>2, OneDecides
    <2>7. QED BY <2>1, <2>3, <2>4, <2>5, <2>6
<1>4. CASE ~IsRest(r) /\ r.path \notin SocketPaths /\ ~IsAlias(r)
    BY <1>4 DEF RouteRefusal, Unserved
<1>5. QED BY <1>1, <1>2, <1>3, <1>4

MetadataErrors == {"invalid_header", "ambiguous_authorization", "invalid_subprotocol"}

\* The headers are refused as such.
LEMMA MetadataRefuses ==
    ASSUME NEW r, MetadataRefusal(r) # "none"
    PROVE  MetadataRefusal(r) \in PlainErrors
<1>1. ASSUME NEW checks, DOMAIN checks \subseteq Nat, FirstRefusal(checks) # "none",
             \A i \in DOMAIN checks : checks[i][2] \in MetadataErrors
      PROVE  FirstRefusal(checks) \in PlainErrors
    <2>1. \E i \in DOMAIN checks : checks[i][2] = FirstRefusal(checks)
        BY <1>1, OneDecides DEF MetadataErrors
    <2>2. FirstRefusal(checks) \in MetadataErrors
        BY <1>1, <2>1
    <2>3. QED BY <2>2 DEF MetadataErrors, PlainErrors
<1>2. AliasMetadata(r) # "none" => AliasMetadata(r) \in PlainErrors
    <2> DEFINE checks == <<
            <<Illegible(r), "invalid_header">>,
            <<AmbiguousCredential(r), "ambiguous_authorization">>,
            <<r.offered # <<>>, "invalid_subprotocol">>>>
    <2>1. AliasMetadata(r) = FirstRefusal(checks)
        BY DEF AliasMetadata
    <2>2. /\ DOMAIN checks = 1..3
          /\ \A i \in 1..3 : checks[i][2] \in MetadataErrors
        BY DEF MetadataErrors
    <2> HIDE DEF checks
    <2>3. QED BY <1>1, <2>1, <2>2
<1>3. PrivateCallMetadata(r) # "none" => PrivateCallMetadata(r) \in PlainErrors
    <2> DEFINE checks == <<
            <<Illegible(r), "invalid_header">>,
            <<AmbiguousCredential(r), "ambiguous_authorization">>,
            <<r.authorization = "bytes" \/ Len(r.contentType) # 1, "invalid_header">>>>
    <2>1. PrivateCallMetadata(r) = FirstRefusal(checks)
        BY DEF PrivateCallMetadata
    <2>2. /\ DOMAIN checks = 1..3
          /\ \A i \in 1..3 : checks[i][2] \in MetadataErrors
        BY DEF MetadataErrors
    <2> HIDE DEF checks
    <2>3. QED BY <1>1, <2>1, <2>2
<1>4. OfficialMetadata(r) # "none" => OfficialMetadata(r) \in PlainErrors
    <2> DEFINE checks == <<
            <<Repeated(r) \/ Len(r.contentType) > 1, "invalid_header">>,
            <<AmbiguousCredential(r), "ambiguous_authorization">>>>
    <2>1. OfficialMetadata(r) = FirstRefusal(checks)
        BY DEF OfficialMetadata
    <2>2. /\ DOMAIN checks = 1..2
          /\ \A i \in 1..2 : checks[i][2] \in MetadataErrors
        BY DEF MetadataErrors
    <2> HIDE DEF checks
    <2>3. QED BY <1>1, <2>1, <2>2
<1>5. SocketMetadata(r) # "none" => SocketMetadata(r) \in PlainErrors
    <2> DEFINE checks == <<
            <<~WellOffered(r.offered), "invalid_subprotocol">>,
            <<Repeated(r), "invalid_header">>,
            <<AmbiguousCredential(r), "ambiguous_authorization">>,
            <<Undecodable(r), "invalid_header">>,
            <<IsPrivate(r) /\ r.offered # <<>>, "invalid_subprotocol">>,
            <<"organization" \in Range(r.offered) /\ r.metadata = "organization",
                "invalid_subprotocol">>,
            <<BrowserCredential(r) /\ r.authorization # "none", "invalid_subprotocol">>>>
    <2>1. SocketMetadata(r) = FirstRefusal(checks)
        BY DEF SocketMetadata
    <2>2. /\ DOMAIN checks = 1..7
          /\ \A i \in 1..7 : checks[i][2] \in MetadataErrors
        BY DEF MetadataErrors
    <2> HIDE DEF checks
    <2>3. QED BY <1>1, <2>1, <2>2
<1>6. MetadataRefusal(r) \in {AliasMetadata(r), PrivateCallMetadata(r), OfficialMetadata(r),
                              SocketMetadata(r)}
    BY DEF MetadataRefusal
<1>7. QED BY <1>2, <1>3, <1>4, <1>5, <1>6

-----------------------------------------------------------------------------
(* The support matrix *)

\* Whoever does not serve a capability is told exactly who does.
LEMMA RefusalIsExact ==
    ASSUME NEW profile \in Profiles, NEW refused, ~IsSupported(profile, refused)
    PROVE  LET named == Support(profile, refused).required
           IN  /\ named = {p \in Profiles : IsSupported(p, refused)}
               /\ named # {} /\ profile \notin named
<1> USE DEF Profiles, IsSupported, Support, Served, Unsupported, ApiKeyProfiles, ManagedProfiles,
            ApiKeyManagedProfile
<1>1. CASE refused.surface = "official"
    BY <1>1
<1>2. CASE refused.surface = "private_standalone"
    BY <1>2
<1>3. CASE refused.surface \notin {"official", "private_standalone"}
    BY <1>3
<1>4. QED BY <1>1, <1>2, <1>3

\* The surface a request belongs to is official only if its dialect is.
LEMMA PrivateIsManaged ==
    ASSUME NEW r, NEW profile, IsPrivate(r), IsSupported(profile, CapabilityOf(r))
    PROVE  ManagedAuth(profile)
<1>1. PrivateDialect(r.alpha) # "official"
    BY DEF IsPrivate
<1>2. CapabilityOf(r).surface # "official"
    BY <1>1 DEF CapabilityOf, FromRest, FromWebSocket, PrivateSidebandAlias, Impossible
<1>3. QED
    BY <1>2 DEF IsSupported, Support, Served, Unsupported, ManagedAuth

\* A ChatGPT profile serves no request of the official dialect.
LEMMA OfficialIsForApiKeys ==
    ASSUME NEW r, ~IsPrivate(r), RouteRefusal(r) = "none"
    PROVE  ~IsSupported("chatgpt", CapabilityOf(r))
<1>1. PrivateDialect(r.alpha) = "official"
    BY DEF IsPrivate
<1>2. ~IsAlias(r)
    BY <1>1, RouteKnown, AliasPasses DEF AliasDialect
<1>3. CapabilityOf(r).surface = "official"
    BY <1>1, <1>2 DEF CapabilityOf, FromRest, FromWebSocket
<1>4. QED
    BY <1>3 DEF IsSupported, Support, Unsupported, ApiKeyProfiles

-----------------------------------------------------------------------------
(* The credential and the upgrade *)

LEMMA CredentialChecked ==
    /\ CredentialRefusal \in {"none", "no_credential"}
    /\ CredentialRefusal = "none" <=>
           (BrowserCredential(request) \/ Owed(upstream.profile, selection.credential))
<1> DEFINE lacks == ~BrowserCredential(request) /\ ~Owed(upstream.profile, selection.credential)
           checks == <<<<lacks, "no_credential">>>>
<1>1. CredentialRefusal = FirstRefusal(checks)
    BY DEF CredentialRefusal
<1>2. DOMAIN checks = 1..1 /\ checks[1][1] = lacks /\ checks[1][2] = "no_credential"
    OBVIOUS
<1>3. 1..1 \subseteq Nat /\ \A i \in 1..1 : i = 1
    OBVIOUS
<1>4. IF FirstRefusal(checks) = "none" THEN ~lacks ELSE lacks /\ FirstRefusal(checks) = "no_credential"
    <2> HIDE DEF checks, lacks
    <2>1. \A i \in DOMAIN checks : checks[i][1] => checks[i][2] # "none"
        BY <1>2, <1>3
    <2>2. 1 \in 1..1
        OBVIOUS
    <2>3. QED BY <1>2, <1>3, <2>1, <2>2, OneDecides
<1>5. QED BY <1>1, <1>4

LEMMA UpgradeChecked ==
    /\ UpgradeRefusal \in {"none", "unknown_endpoint"}
    /\ UpgradeRefusal # "none" =>
           ~IsRest(request) /\ (request.method # "GET" \/ request.upgrade # "complete")
<1> DEFINE lacks == ~IsRest(request) /\ (request.method # "GET" \/ request.upgrade # "complete")
           checks == <<<<lacks, "unknown_endpoint">>>>
<1>1. UpgradeRefusal = FirstRefusal(checks)
    BY DEF UpgradeRefusal
<1>2. DOMAIN checks = 1..1 /\ checks[1][1] = lacks /\ checks[1][2] = "unknown_endpoint"
    OBVIOUS
<1>3. 1..1 \subseteq Nat /\ \A i \in 1..1 : i = 1
    OBVIOUS
<1>4. IF FirstRefusal(checks) = "none" THEN ~lacks ELSE lacks /\ FirstRefusal(checks) = "unknown_endpoint"
    <2> HIDE DEF checks, lacks
    <2>1. \A i \in DOMAIN checks : checks[i][1] => checks[i][2] # "none"
        BY <1>2, <1>3
    <2>2. 1 \in 1..1
        OBVIOUS
    <2>3. QED BY <1>2, <1>3, <2>1, <2>2, OneDecides
<1>5. QED BY <1>1, <1>4

\* A supported request lacks a credential only if the client was to bring it.
LEMMA LacksItsOwn ==
    ASSUME Classified(request, upstream.profile), CredentialRefusal # "none",
           IsSupported(upstream.profile, capability)
    PROVE  ~IsPrivate(request) /\ request.authorization # "bearer"
<1> DEFINE policy == selection.credential
<1>1. ~BrowserCredential(request) /\ ~Owed(upstream.profile, policy)
    BY CredentialChecked
<1>2. policy = CredentialPolicy(request, upstream.profile)
    BY DEF Classified, Select
<1>3. IsPrivate(request) => ManagedAuth(upstream.profile) /\ policy = "managed"
    BY <1>2, PrivateIsManaged DEF Classified, CredentialPolicy
<1>4. policy = "managed" => ManagedAuth(upstream.profile)
    BY <1>2, <1>3 DEF CredentialPolicy, ConfiguredCredential
<1>5. QED BY <1>1, <1>3, <1>4 DEF Owed

-----------------------------------------------------------------------------
(* The body of a private call *)

ParseErrors == {"multipart_parse", "missing_sdp", "session_not_string", "session_not_json"}

\* What parse_private_multipart fails with, and that a body without an offer fails.
LEMMA ParseFails ==
    ASSUME NEW body \in Seq(Fields)
    PROVE  /\ ParseError(body) \in ParseErrors \cup {"none"}
           /\ ParseError(body) = "none" => FieldsNamed(body, "sdp") # {}
<1>1. LoopError(body) \in ParseErrors \cup {"none"}
    <2> DEFINE turns == [i \in DOMAIN body |-> <<FieldError(body, i) # "none", FieldError(body, i)>>]
    <2>1. \A i \in DOMAIN body : FieldError(body, i) \in ParseErrors \cup {"none"}
        BY DEF FieldError, ParseErrors
    <2>2. DOMAIN turns = DOMAIN body /\ DOMAIN body \subseteq Nat
        OBVIOUS
    <2>3. \A i \in DOMAIN turns : turns[i][1] <=> FieldError(body, i) # "none"
        OBVIOUS
    <2>4. \A i \in DOMAIN turns : turns[i][2] = FieldError(body, i)
        OBVIOUS
    <2>5. LoopError(body) = FirstRefusal(turns)
        BY DEF LoopError
    <2> HIDE DEF turns
    <2>6. \A i \in DOMAIN turns : turns[i][1] => turns[i][2] # "none"
        BY <2>3, <2>4
    <2>7. DOMAIN turns \subseteq Nat
        BY <2>2
    <2>8. \/ FirstRefusal(turns) = "none"
          \/ \E i \in DOMAIN turns : turns[i][2] = FirstRefusal(turns)
        BY <2>6, <2>7, OneDecides
    <2>9. QED BY <2>1, <2>2, <2>4, <2>5, <2>8
<1> DEFINE stopped == LoopError(body) # "none"
           silent == FieldsNamed(body, "sdp") = {}
           opaque == \E f \in Range(FirstNamed(body, "session")) : f.form = "not_json"
           checks == <<<<stopped, LoopError(body)>>, <<silent, "missing_sdp">>,
                       <<opaque, "session_not_json">>>>
<1>2. ParseError(body) = FirstRefusal(checks)
    BY DEF ParseError
<1>3. /\ DOMAIN checks = 1..3 /\ \A i \in 1..3 : i = 1 \/ i = 2 \/ i = 3
      /\ 1..3 \subseteq Nat /\ 2 \in 1..3
    OBVIOUS
<1>4. checks[1][2] = LoopError(body) /\ checks[2][2] = "missing_sdp" /\ checks[3][2] = "session_not_json"
    OBVIOUS
<1>5. checks[1][1] = stopped /\ checks[2][1] = silent
    OBVIOUS
<1> HIDE DEF checks, opaque
<1>6. \A i \in DOMAIN checks : checks[i][1] => checks[i][2] \in ParseErrors
    BY <1>1, <1>3, <1>4, <1>5 DEF ParseErrors
<1>7. "none" \notin ParseErrors
    BY DEF ParseErrors
<1>8. \A i \in DOMAIN checks : checks[i][1] => checks[i][2] # "none"
    BY <1>6, <1>7
<1>9. IF FirstRefusal(checks) = "none" THEN \A i \in DOMAIN checks : ~checks[i][1]
      ELSE \E i \in DOMAIN checks : checks[i][1] /\ checks[i][2] = FirstRefusal(checks)
    BY <1>3, <1>8, OneDecides
<1>10. QED BY <1>2, <1>3, <1>5, <1>6, <1>9

\* What handle_call_create refuses a body for.  A ChatGPT upstream is sent only what
\* was parsed, has no field twice and speaks the dialect of the call.
LEMMA BodyRefuses ==
    ASSUME NEW up, up.backend \in BOOLEAN, NEW spoken, NEW body \in Seq(Fields)
    PROVE  LET refusal == BodyRefusal(up, spoken, body)
           IN  /\ refusal \in PlainErrors \cup {"none", "unsupported_capability"}
               /\ refusal = "unsupported_capability" => up.profile = "chatgpt"
               /\ (refusal = "none" /\ up.profile = "chatgpt") =>
                      /\ ParseError(body) = "none"
                      /\ ~HasDuplicateContractFields(Parse(body))
                      /\ Agrees(spoken, Evidence(Parse(body)))
<1> DEFINE chatgpt == up.profile = "chatgpt"
           parsed == Parse(body)
           faulty == (chatgpt \/ up.backend) /\ ParseError(body) # "none"
           double == chatgpt /\ HasDuplicateContractFields(parsed)
           official == chatgpt /\ Evidence(parsed) \in {"realtime", "transcription"}
           strange == chatgpt /\ ~Agrees(spoken, Evidence(parsed))
           checks == <<<<faulty, ParseError(body)>>, <<double, "invalid_session_shape">>,
                       <<official, "unsupported_capability">>, <<strange, "invalid_session_shape">>>>
<1>1. BodyRefusal(up, spoken, body) = FirstRefusal(checks)
    BY DEF BodyRefusal, Parse
<1>2. /\ DOMAIN checks = 1..4 /\ \A i \in 1..4 : i = 1 \/ i = 2 \/ i = 3 \/ i = 4
      /\ 1..4 \subseteq Nat /\ 1 \in 1..4 /\ 2 \in 1..4 /\ 4 \in 1..4
    OBVIOUS
<1>3. /\ checks[1][2] = ParseError(body) /\ checks[2][2] = "invalid_session_shape"
      /\ checks[3][2] = "unsupported_capability" /\ checks[4][2] = "invalid_session_shape"
    OBVIOUS
<1>4. /\ checks[1][1] = faulty /\ checks[2][1] = double
      /\ checks[3][1] = official /\ checks[4][1] = strange
    OBVIOUS
<1>5. ParseError(body) # "none" => ParseError(body) \in PlainErrors /\ ParseError(body) # "unsupported_capability"
    BY ParseFails DEF ParseErrors, PlainErrors
<1>6. official => chatgpt
    OBVIOUS
<1> HIDE DEF checks, parsed
<1>7. \A i \in DOMAIN checks :
          checks[i][1] => /\ checks[i][2] # "none"
                          /\ checks[i][2] \in PlainErrors \cup {"unsupported_capability"}
                          /\ checks[i][2] = "unsupported_capability" => chatgpt
    <2>1. checks[1][1] => checks[1][2] \in PlainErrors /\ checks[1][2] # "unsupported_capability"
        BY <1>3, <1>4, <1>5
    <2>2. checks[2][2] \in PlainErrors /\ checks[2][2] # "unsupported_capability"
        BY <1>3 DEF PlainErrors
    <2>3. checks[4][2] \in PlainErrors /\ checks[4][2] # "unsupported_capability"
        BY <1>3 DEF PlainErrors
    <2>4. "none" \notin PlainErrors
        BY DEF PlainErrors
    <2>5. checks[3][1] => chatgpt
        BY <1>4, <1>6
    <2>6. checks[3][2] = "unsupported_capability"
        BY <1>3
    <2> HIDE DEF chatgpt
    <2>7. QED BY <1>2, <2>1, <2>2, <2>3, <2>4, <2>5, <2>6
<1>8. IF FirstRefusal(checks) = "none" THEN \A i \in DOMAIN checks : ~checks[i][1]
      ELSE \E i \in DOMAIN checks : checks[i][1] /\ checks[i][2] = FirstRefusal(checks)
    BY <1>2, <1>7, OneDecides
<1>9. FirstRefusal(checks) = "none" => ~faulty /\ ~double /\ ~strange
    BY <1>2, <1>4, <1>8
<1>10. QED BY <1>1, <1>7, <1>8, <1>9 DEF parsed

\* One offer, and no session but of the dialect that was negotiated.
ReadsOnce(sent, spoken) ==
    /\ Cardinality({i \in DOMAIN sent : sent[i].name = "sdp"}) = 1
    /\ \A i \in DOMAIN sent :
           sent[i].name = "session" => Agrees(spoken, ClassifySession(sent[i].shape))

LEMMA OfTwo ==
    ASSUME NEW S, NEW a \in S, NEW b \in S
    PROVE  LET two == <<a>> \o <<b>>
           IN  DOMAIN two = {1, 2} /\ two[1] = a /\ two[2] = b
<1>1. <<a>> \in Seq(S) /\ <<b>> \in Seq(S) /\ Len(<<a>>) = 1 /\ Len(<<b>>) = 1
    OBVIOUS
<1>2. Len(<<a>> \o <<b>>) = 2 /\ <<a>> \o <<b>> \in Seq(S)
    BY <1>1
<1>3. QED BY <1>1, <1>2

\* What passed so is sent with one reading, as it came or rewritten.
LEMMA SentHasOneReading ==
    ASSUME NEW up, up.backend \in BOOLEAN, up.profile = "chatgpt", NEW spoken,
           NEW body \in Seq(Fields), BodyRefusal(up, spoken, body) = "none"
    PROVE  ReadsOnce(Outbound(up, body), spoken)
<1> DEFINE sdps == FieldsNamed(body, "sdp")
           sessions == FieldsNamed(body, "session")
<1>1. /\ ParseError(body) = "none" /\ ~HasDuplicateContractFields(Parse(body))
      /\ Agrees(spoken, Evidence(Parse(body)))
    BY BodyRefuses
<1>2. DOMAIN body = 1..Len(body) /\ Len(body) \in Nat
    OBVIOUS
<1>3. IsFiniteSet(sdps) /\ IsFiniteSet(sessions)
    <2>1. IsFiniteSet(1..Len(body))
        BY <1>2, FS_Interval
    <2>2. sdps \subseteq 1..Len(body) /\ sessions \subseteq 1..Len(body)
        BY <1>2 DEF FieldsNamed
    <2> HIDE DEF sdps, sessions
    <2>3. QED BY <2>1, <2>2, FS_Subset
<1>4. sdps # {} /\ ~(Cardinality(sdps) > 1) /\ ~(Cardinality(sessions) > 1)
    BY <1>1, ParseFails DEF HasDuplicateContractFields, Parse
<1>5. ASSUME NEW S, IsFiniteSet(S), S # {}, ~(Cardinality(S) > 1), S \subseteq Nat
      PROVE  Cardinality(S) = 1 /\ Min(S) \in S /\ S = {Min(S)}
    <2>1. Cardinality(S) \in Nat /\ Cardinality(S) # 0
        BY <1>5, FS_CardinalityType, FS_EmptySet
    <2>2. Cardinality(S) = 1
        BY <1>5, <2>1
    <2>3. PICK x : S = {x}
        BY <1>5, <2>2, FS_Singleton
    <2>4. x \in Nat /\ \A y \in S : x =< y
        BY <1>5, <2>3
    <2>5. Min(S) = x
        BY <2>3, <2>4 DEF Min
    <2>6. QED BY <2>2, <2>3, <2>5
<1>6. sdps \subseteq Nat /\ sessions \subseteq Nat
    BY <1>2 DEF FieldsNamed
<1>7. Cardinality(sdps) = 1 /\ sdps = {Min(sdps)}
    BY <1>3, <1>4, <1>5, <1>6
<1>8. \A i \in sessions : Agrees(spoken, ClassifySession(body[i].shape))
    <2> SUFFICES ASSUME NEW i \in sessions PROVE Agrees(spoken, ClassifySession(body[i].shape))
        OBVIOUS
    <2>1. sessions = {Min(sessions)}
        BY <1>3, <1>4, <1>5, <1>6
    <2>2. i = Min(sessions)
        BY <2>1
    <2>3. FirstNamed(body, "session") = <<body[i]>>
        BY <2>2 DEF FirstNamed
    <2>4. Evidence(Parse(body)) = ClassifySession(body[i].shape)
        <3> DEFINE parsed == Parse(body)
        <3>1. parsed.session = <<body[i]>>
            BY <2>3 DEF Parse
        <3>2. <<body[i]>> # <<>> /\ <<body[i]>>[1] = body[i]
            OBVIOUS
        <3> HIDE DEF parsed
        <3>3. parsed.session # <<>> /\ parsed.session[1] = body[i]
            BY <3>1, <3>2
        <3>4. Evidence(parsed) = ClassifySession(body[i].shape)
            BY <3>3 DEF Evidence
        <3>5. QED BY <3>4 DEF parsed
    <2>5. QED BY <1>1, <2>4
<1>9. CASE ~up.backend
    BY <1>7, <1>8, <1>9 DEF Outbound, FieldsNamed, ReadsOnce
<1>10. CASE up.backend
    <2> DEFINE offer == body[Min(sdps)]
    <2>1. FirstNamed(body, "sdp") = <<offer>> /\ offer.name = "sdp"
        BY <1>7 DEF FirstNamed, FieldsNamed
    <2>2. Outbound(up, body) = <<offer>> \o FirstNamed(body, "session")
        BY <1>10, <2>1 DEF Outbound, Parse
    <2>3. CASE sessions = {}
        <3>1. Outbound(up, body) = <<offer>>
            BY <2>2, <2>3 DEF FirstNamed
        <3>2. {i \in DOMAIN <<offer>> : <<offer>>[i].name = "sdp"} = {1}
            BY <2>1
        <3>3. Cardinality({1}) = 1
            BY FS_Singleton
        <3>4. \A i \in DOMAIN <<offer>> : <<offer>>[i].name # "session"
            BY <2>1
        <3>5. QED BY <3>1, <3>2, <3>3, <3>4 DEF ReadsOnce
    <2>4. CASE sessions # {}
        <3>1. PICK s \in sessions : FirstNamed(body, "session") = <<body[s]>>
            BY <1>3, <1>4, <1>5, <1>6, <2>4 DEF FirstNamed
        <3> DEFINE session == body[s]
        <3>2. session.name = "session" /\ Agrees(spoken, ClassifySession(session.shape))
            BY <1>8, <3>1 DEF FieldsNamed
        <3> DEFINE sent == <<offer>> \o <<session>>
        <3>3. Outbound(up, body) = sent
            BY <2>2, <3>1
        <3>4. offer \in Fields /\ session \in Fields
            BY <1>2, <1>7 DEF FieldsNamed
        <3>5. DOMAIN sent = {1, 2} /\ sent[1] = offer /\ sent[2] = session
            BY <3>4, OfTwo
        <3> HIDE DEF offer, session, sent
        <3>6. {i \in DOMAIN sent : sent[i].name = "sdp"} = {1}
            BY <2>1, <3>2, <3>5
        <3>7. Cardinality({1}) = 1
            BY FS_Singleton
        <3>8. \A i \in DOMAIN sent :
                  sent[i].name = "session" => Agrees(spoken, ClassifySession(sent[i].shape))
            BY <2>1, <3>2, <3>5
        <3>9. QED BY <3>3, <3>6, <3>7, <3>8 DEF ReadsOnce
    <2>5. QED BY <2>3, <2>4
<1>11. QED BY <1>9, <1>10

-----------------------------------------------------------------------------
(* The second invariant: of the answer, and of what is sent *)

Answers ==
    /\ answer.error = "unknown_endpoint" => Unserved(request)
    /\ answer.error = "no_credential" =>
           ~IsPrivate(request) /\ request.authorization # "bearer"
    /\ answer.error = "unsupported_capability" =>
           /\ answer.profiles = {profile \in Profiles : IsSupported(profile, answer.of)}
           /\ answer.profiles # {} /\ upstream.profile \notin answer.profiles

\* The support matrix was asked: of an official request before its headers are
\* looked at, of a private one after that.
LookedUp ==
    (\/ stage \in {"screened", "accepted", "built", "permitted", "contacted"}
     \/ stage = "validated" /\ ~IsPrivate(request)) =>
        IsSupported(upstream.profile, capability)

\* What is built has its credential, and that is the one that is sent.
Credentialed ==
    /\ stage \in {"built", "permitted", "contacted"} => CredentialRefusal = "none"
    /\ Contacted => contact.credentials = Credentials

\* An official request gets nowhere with a ChatGPT profile once it is classified.
OfficialRefused ==
    (selection # Unclassified /\ upstream.profile = "chatgpt" /\ ~IsPrivate(request)) =>
        stage = "classified" \/ answer.error = "unsupported_capability"

AnswerInv == Answers /\ LookedUp /\ Credentialed /\ OfficialRefused /\ OneReading

LEMMA InitAnswers == Init => AnswerInv
BY DEF Init, AnswerInv, Answers, LookedUp, Credentialed, OfficialRefused, OneReading, NoAnswer,
       Contacted, Unclassified

\* Going on keeps the answer, and a refusal is one its check gives.
LEMMA AnswersWell ==
    ASSUME TypeOK, Answers, stage # "answered", NEW refusal, NEW next, Proceed(refusal, next),
           UNCHANGED <<upstream, request>>,
           \/ refusal \in PlainErrors \cup {"none"}
           \/ refusal = "unknown_endpoint" /\ Unserved(request)
           \/ refusal = "no_credential" /\ ~IsPrivate(request) /\ request.authorization # "bearer"
    PROVE  Answers'
<1>1. CASE refusal = "none"
    <2>1. answer' = answer
        BY <1>1 DEF Proceed
    <2>2. QED BY <2>1 DEF Answers, Unserved
<1>2. CASE refusal # "none"
    <2>1. answer'.error = refusal
        BY <1>2 DEF Proceed, NoAnswer
    <2>2. \A e \in PlainErrors : e \notin {"unknown_endpoint", "no_credential", "unsupported_capability"}
        BY DEF PlainErrors
    <2>3. QED BY <1>2, <2>1, <2>2 DEF Answers, Unserved
<1>3. QED BY <1>1, <1>2

LEMMA AnswersExactly ==
    ASSUME upstream.profile \in Profiles, NEW refused, ~IsSupported(upstream.profile, refused),
           RefuseUnsupported(refused), UNCHANGED upstream
    PROVE  Answers'
<1>1. /\ answer'.error = "unsupported_capability" /\ answer'.of = refused
      /\ answer'.profiles = Support(upstream.profile, refused).required
    BY DEF RefuseUnsupported
<1>2. /\ answer'.profiles = {profile \in Profiles : IsSupported(profile, refused)}
      /\ answer'.profiles # {} /\ upstream.profile \notin answer'.profiles
    BY <1>1, RefusalIsExact
<1>3. QED BY <1>1, <1>2 DEF Answers

\* An official request with a ChatGPT profile is at rest or about to be looked up.
LEMMA OfficialWaits ==
    ASSUME TypeOK, OfficialRefused, stage \notin {"answered", "classified"},
           upstream.profile = "chatgpt", ~IsPrivate(request)
    PROVE  selection = Unclassified
BY DEF TypeOK, OfficialRefused

LEMMA NextAnswers == RouteAssumption /\ RouteInv /\ AnswerInv /\ [Next]_vars => AnswerInv'
<1> SUFFICES ASSUME RouteAssumption, TypeOK, Passed, AnswerInv, [Next]_vars
             PROVE  AnswerInv'
    BY DEF RouteInv
<1>a. Answers /\ LookedUp /\ Credentialed /\ OfficialRefused /\ OneReading
    BY DEF AnswerInv
<1>b. /\ upstream \in [profile : Profiles, backend : BOOLEAN] /\ upstream.profile \in Profiles
      /\ upstream.backend \in BOOLEAN /\ request \in RequestType
    BY DEF RouteAssumption, TypeOK
<1>c. ASSUME UNCHANGED <<upstream, request, selection>>
      PROVE  UNCHANGED <<CredentialRefusal, Credentials>>
    BY <1>c DEF CredentialRefusal, Credentials, BrowserCredential, Owed
<1>1. CASE Classify
    <2> DEFINE refusal == RouteRefusal(request)
    <2>1. /\ stage = "arrived" /\ Proceed(refusal, "classified")
          /\ UNCHANGED <<upstream, request, contact>>
          /\ refusal # "none" => UNCHANGED selection
        BY <1>1 DEF Classify
    <2>2. \/ refusal \in PlainErrors \cup {"none"}
          \/ refusal = "unknown_endpoint" /\ Unserved(request)
        BY <1>b, RouteRefuses
    <2>3. Answers'
        BY <1>a, <2>1, <2>2, AnswersWell
    <2>4. stage' \in {"classified", "answered"} /\ (stage' = "answered" => refusal # "none")
        BY <2>1 DEF Proceed
    <2>5. refusal # "none" => selection' = Unclassified
        BY <2>1 DEF Passed, Classified
    <2>6. LookedUp' /\ Credentialed' /\ OneReading'
        BY <2>4 DEF LookedUp, Credentialed, OneReading, Contacted
    <2>7. OfficialRefused'
        BY <2>4, <2>5 DEF OfficialRefused
    <2>8. QED BY <2>3, <2>6, <2>7 DEF AnswerInv
<1>2. ASSUME NEW next, ApplySupport(next), next \in {"screened", "accepted"},
             stage \in {"classified", "validated"},
             stage = "classified" => ~IsPrivate(request),
             stage = "validated" => IsPrivate(request)
      PROVE  AnswerInv'
    <2>1. UNCHANGED <<upstream, request, selection, capability, contact>>
        BY <1>2 DEF ApplySupport
    <2>2. CASE IsSupported(upstream.profile, capability)
        <3>1. stage' = next /\ UNCHANGED answer
            BY <1>2, <2>2 DEF ApplySupport
        <3>2. Answers'
            BY <1>a, <2>1, <3>1 DEF Answers, Unserved
        <3>3. LookedUp' /\ Credentialed' /\ OneReading'
            BY <1>2, <2>1, <2>2, <3>1 DEF LookedUp, Credentialed, OneReading, Contacted
        <3>4. OfficialRefused'
            <4>1. CASE stage = "classified"
                <5>1. RouteRefusal(request) = "none" /\ capability = CapabilityOf(request)
                    BY <4>1 DEF Passed, Classified
                <5>2. upstream.profile # "chatgpt"
                    BY <1>2, <2>2, <4>1, <5>1, OfficialIsForApiKeys
                <5>3. QED BY <2>1, <5>2 DEF OfficialRefused
            <4>2. CASE stage = "validated"
                BY <1>2, <2>1, <4>2 DEF OfficialRefused, IsPrivate
            <4>3. QED BY <1>2, <4>1, <4>2
        <3>5. QED BY <3>2, <3>3, <3>4 DEF AnswerInv
    <2>3. CASE ~IsSupported(upstream.profile, capability)
        <3>1. RefuseUnsupported(capability)
            BY <1>2, <2>3 DEF ApplySupport
        <3>2. Answers'
            BY <1>b, <2>1, <2>3, <3>1, AnswersExactly
        <3>3. stage' = "answered" /\ answer'.error = "unsupported_capability"
            BY <3>1 DEF RefuseUnsupported
        <3>4. QED
            BY <3>2, <3>3 DEF AnswerInv, LookedUp, Credentialed, OneReading, OfficialRefused,
                              Contacted
    <2>4. QED BY <2>2, <2>3
<1>3. CASE SupportOfficial
    BY <1>2, <1>3 DEF SupportOfficial
<1>4. CASE SupportPrivate
    BY <1>2, <1>4 DEF SupportPrivate
<1>5. CASE ValidateMetadata
    <2> DEFINE refusal == MetadataRefusal(request)
    <2>1. /\ stage = IF IsPrivate(request) THEN "classified" ELSE "screened"
          /\ Proceed(refusal, "validated")
          /\ UNCHANGED <<upstream, request, selection, capability, contact>>
        BY <1>5 DEF ValidateMetadata
    <2>2. Answers'
        BY <1>a, <2>1, MetadataRefuses, AnswersWell
    <2>3. stage' \in {"validated", "answered"}
        BY <2>1 DEF Proceed
    <2>4. LookedUp'
        BY <1>a, <2>1, <2>3 DEF LookedUp, IsPrivate
    <2>5. Credentialed' /\ OneReading'
        BY <2>3 DEF Credentialed, OneReading, Contacted
    <2>6. OfficialRefused'
        BY <1>a, <2>1, OfficialWaits DEF OfficialRefused, IsPrivate
    <2>7. QED BY <2>2, <2>4, <2>5, <2>6 DEF AnswerInv
<1>6. CASE Build
    <2> DEFINE credential == <<CredentialRefusal # "none", CredentialRefusal>>
               upgrade == <<UpgradeRefusal # "none", UpgradeRefusal>>
               checks == IF IsAlias(request) THEN <<upgrade, credential>>
                         ELSE <<credential, upgrade>>
               refusal == FirstRefusal(checks)
    <2>1. /\ stage = IF IsPrivate(request) THEN "accepted" ELSE "validated"
          /\ Proceed(refusal, "built")
          /\ UNCHANGED <<upstream, request, selection, capability, contact>>
        BY <1>6 DEF Build
    <2>2. DOMAIN checks = 1..2 /\ 1..2 \subseteq Nat /\ \A i \in 1..2 : i = 1 \/ i = 2
        OBVIOUS
    <2>3. \A i \in 1..2 : checks[i] = credential \/ checks[i] = upgrade
        OBVIOUS
    <2>4. /\ credential[2] = CredentialRefusal /\ upgrade[2] = UpgradeRefusal
          /\ credential[1] <=> CredentialRefusal # "none"
          /\ upgrade[1] <=> UpgradeRefusal # "none"
        OBVIOUS
    <2>5. \E i \in 1..2 : checks[i] = credential
        OBVIOUS
    <2> HIDE DEF checks, credential, upgrade
    <2>6. IF refusal = "none" THEN \A i \in DOMAIN checks : ~checks[i][1]
          ELSE \E i \in DOMAIN checks : checks[i][1] /\ checks[i][2] = refusal
        BY <2>2, <2>3, <2>4, OneDecides
    <2>7. refusal = "none" => CredentialRefusal = "none"
        BY <2>2, <2>4, <2>5, <2>6
    <2>8. \/ refusal = "none"
          \/ refusal = CredentialRefusal /\ CredentialRefusal # "none"
          \/ refusal = UpgradeRefusal /\ UpgradeRefusal # "none"
        BY <2>2, <2>3, <2>4, <2>6
    <2> HIDE DEF refusal
    <2>9. Classified(request, upstream.profile) /\ IsSupported(upstream.profile, capability)
        BY <1>a, <2>1 DEF Passed, LookedUp
    <2>10. CredentialRefusal # "none" =>
               /\ CredentialRefusal = "no_credential"
               /\ ~IsPrivate(request) /\ request.authorization # "bearer"
        BY <2>9, LacksItsOwn, CredentialChecked
    <2>11. UpgradeRefusal # "none" => UpgradeRefusal = "unknown_endpoint" /\ Unserved(request)
        BY UpgradeChecked DEF Unserved
    <2>12. Answers'
        BY <1>a, <2>1, <2>8, <2>10, <2>11, AnswersWell
    <2>13. stage' \in {"built", "answered"} /\ (stage' = "built" => refusal = "none")
        BY <2>1 DEF Proceed
    <2>14. LookedUp' /\ Credentialed' /\ OneReading'
        BY <1>c, <2>1, <2>7, <2>9, <2>13
           DEF LookedUp, Credentialed, OneReading, Contacted
    <2>15. OfficialRefused'
        BY <1>a, <2>1, OfficialWaits DEF OfficialRefused, IsPrivate
    <2>16. QED BY <2>12, <2>14, <2>15 DEF AnswerInv
<1>7. CASE Admit
    <2>1. PICK refusal \in {"none", "too_many"} : Proceed(refusal, "permitted")
        BY <1>7 DEF Admit
    <2>2. stage = "built" /\ UNCHANGED <<upstream, request, selection, capability, contact>>
        BY <1>7 DEF Admit
    <2>3. Answers'
        BY <1>a, <2>1, <2>2, AnswersWell DEF PlainErrors
    <2>4. stage' \in {"permitted", "answered"}
        BY <2>1 DEF Proceed
    <2>5. LookedUp' /\ Credentialed' /\ OneReading'
        BY <1>a, <1>c, <2>2, <2>4 DEF LookedUp, Credentialed, OneReading, Contacted
    <2>6. OfficialRefused'
        BY <1>a, <2>2, OfficialWaits DEF OfficialRefused, IsPrivate
    <2>7. QED BY <2>3, <2>5, <2>6 DEF AnswerInv
<1>8. ASSUME NEW body, stage = "permitted", stage' = "contacted", contact' = Upstreamward(body),
             UNCHANGED <<upstream, request, selection, capability, answer>>
      PROVE  Answers' /\ LookedUp' /\ Credentialed' /\ OfficialRefused'
    <2>1. contact'.credentials = Credentials
        BY <1>8 DEF Upstreamward
    <2>2. Answers' /\ LookedUp' /\ Credentialed'
        BY <1>a, <1>c, <1>8, <2>1 DEF Answers, Unserved, LookedUp, Credentialed, Contacted
    <2>3. OfficialRefused'
        BY <1>a, <1>8, OfficialWaits DEF OfficialRefused, IsPrivate
    <2>4. QED BY <2>2, <2>3
<1>9. CASE Contact
    <2>1. ~IsPrivateCall(request) /\ UNCHANGED request
        BY <1>9 DEF Contact
    <2>2. OneReading'
        BY <2>1 DEF OneReading, IsPrivateCall, IsRest, IsPrivate
    <2>3. QED BY <1>8, <1>9, <2>2 DEF Contact, AnswerInv
<1>10. ASSUME NEW body \in Bodies, CreateCall(body) PROVE AnswerInv'
    <2> DEFINE refusal == BodyRefusal(upstream, selection.dialect, body)
    <2>1. /\ stage = "permitted" /\ UNCHANGED <<upstream, request, selection, capability>>
          /\ body \in Seq(Fields)
        BY <1>10 DEF CreateCall, RouteAssumption
    <2>2. /\ refusal \in PlainErrors \cup {"none", "unsupported_capability"}
          /\ refusal = "unsupported_capability" => upstream.profile = "chatgpt"
        BY <1>b, <2>1, BodyRefuses
    <2>3. \/ /\ refusal = "none"
             /\ stage' = "contacted"
             /\ contact' = Upstreamward(Outbound(upstream, body))
             /\ UNCHANGED answer
          \/ /\ refusal = "unsupported_capability"
             /\ RefuseUnsupported(OfficialSession(body))
          \/ /\ refusal \notin {"none", "unsupported_capability"}
             /\ Proceed(refusal, "contacted")
        BY <1>10 DEF CreateCall
    <2> HIDE DEF refusal
    <2>4. OfficialRefused'
        BY <1>a, <2>1, OfficialWaits DEF OfficialRefused, IsPrivate
    <2>5. CASE /\ refusal = "none" /\ stage' = "contacted" /\ UNCHANGED answer
               /\ contact' = Upstreamward(Outbound(upstream, body))
        <3>1. Answers' /\ LookedUp' /\ Credentialed'
            BY <1>8, <2>1, <2>5
        <3>2. contact'.body = Outbound(upstream, body)
            BY <2>5 DEF Upstreamward
        <3>3. ASSUME upstream.profile = "chatgpt"
              PROVE  ReadsOnce(Outbound(upstream, body), selection.dialect)
            <4>1. BodyRefusal(upstream, selection.dialect, body) = "none"
                BY <2>5 DEF refusal
            <4>2. QED BY <1>b, <2>1, <3>3, <4>1, SentHasOneReading
        <3>4. OneReading'
            BY <2>1, <3>2, <3>3 DEF OneReading, ReadsOnce
        <3>5. QED BY <2>4, <3>1, <3>4 DEF AnswerInv
    <2>6. CASE refusal = "unsupported_capability" /\ RefuseUnsupported(OfficialSession(body))
        <3>1. ~IsSupported(upstream.profile, OfficialSession(body))
            BY <2>2, <2>6
               DEF OfficialSession, IsSupported, Support, Unsupported, ApiKeyProfiles
        <3>2. Answers'
            BY <1>b, <2>1, <2>6, <3>1, AnswersExactly
        <3>3. stage' = "answered"
            BY <2>6 DEF RefuseUnsupported
        <3>4. QED
            BY <2>4, <3>2, <3>3 DEF AnswerInv, LookedUp, Credentialed, OneReading, Contacted
    <2>7. CASE refusal \notin {"none", "unsupported_capability"} /\ Proceed(refusal, "contacted")
        <3>1. Answers'
            BY <1>a, <2>1, <2>2, <2>7, AnswersWell
        <3>2. stage' = "answered"
            BY <2>7 DEF Proceed
        <3>3. QED
            BY <2>4, <3>1, <3>2 DEF AnswerInv, LookedUp, Credentialed, OneReading, Contacted
    <2>8. QED BY <2>3, <2>5, <2>6, <2>7
<1>11. CASE UNCHANGED vars
    BY <1>a, <1>c, <1>11
       DEF vars, AnswerInv, Answers, Unserved, LookedUp, Credentialed, OfficialRefused, OneReading,
           Contacted, IsPrivate, IsPrivateCall, IsRest
<1>12. QED
    BY <1>1, <1>3, <1>4, <1>5, <1>6, <1>7, <1>9, <1>10, <1>11 DEF Next

LEMMA SpecAnswers == Spec => []AnswerInv
<1>1. RouteAssumption
    BY RouteAssumption
<1>2. QED BY <1>1, SpecInv, InitAnswers, NextAnswers, PTL DEF Spec

-----------------------------------------------------------------------------
(* The theorems *)

\* The state is well formed, whatever the request: in particular a request is
\* answered exactly when there is an error to answer it with, and the upstream is
\* sent something exactly when it is contacted.
THEOREM RouteTypeCorrect == Spec => []TypeOK
<1>1. RouteInv => TypeOK
    BY DEF RouteInv
<1>2. QED BY <1>1, SpecInv, PTL

\* The dialect of what is sent: the alpha, the path, the query and the host agree.
THEOREM RouteSpeaksOneDialect == Spec => []SpeaksOneDialect
<1>1. RouteInv => SpeaksOneDialect
    BY DEF RouteInv
<1>2. QED BY <1>1, SpecInv, PTL

\* The arms the code declares unreachable are: the checks of classify_rest and
\* classify_websocket refuse each pair of an operation and a dialect that
\* Capability has no entry for, and handle_sideband's assertion about the join
\* style follows from the alpha it has compared with its path.
THEOREM RouteNoUnreachableArm == Spec => []NoUnreachableArm
<1>1. ASSUME RouteInv PROVE NoUnreachableArm
    <2>1. TypeOK /\ Passed
        BY <1>1 DEF RouteInv
    <2>2. capability # Impossible
        <3>1. CASE capability = NoCapability
            BY <3>1 DEF NoCapability, Impossible
        <3>2. CASE Classified(request, upstream.profile)
            <4>1. capability \in Capabilities
                BY <2>1, <3>2, CapabilityTyped DEF Classified, TypeOK
            <4>2. QED BY <4>1 DEF Capabilities, Impossible, PrivateSurfaces
        <3>3. QED BY <2>1, <3>1, <3>2 DEF Passed
    <2>3. ASSUME stage \in {"accepted", "built", "permitted", "contacted"}, IsAlias(request)
          PROVE  SidebandJoin(selection.dialect) = AliasJoin(request.path)
        <3>1. Classified(request, upstream.profile)
            BY <2>1, <2>3 DEF Passed
        <3>2. AliasRefusal(request) = "none"
            BY <2>3, <3>1, RouteKnown DEF Classified
        <3>3. selection.dialect = AliasDialect(request.path)
            BY <3>1, <3>2, AliasPasses, SelectTyped DEF Classified
        <3>4. QED BY <3>3 DEF AliasDialect, SidebandJoin, AliasJoin
    <2>4. QED BY <2>2, <2>3 DEF NoUnreachableArm
<1>2. QED BY <1>1, SpecInv, PTL

\* A request with two readings contacts nobody, however many values its headers
\* have and however many selectors and subprotocols it brings.
THEOREM RouteZeroContact == Spec => []ZeroContactIfAmbiguous
<1>1. ASSUME RouteInv PROVE ZeroContactIfAmbiguous
    <2> SUFFICES ASSUME Contacted
                 PROVE  /\ Len(request.alpha) <= 1 /\ request.metadata # "repeated"
                        /\ request.authorization # "repeated"
                        /\ IsRest(request) => Len(request.contentType) <= 1
                        /\ request.path \in SocketPaths =>
                               \/ Len(request.callIds) = 1 /\ request.path # "translations"
                               \/ request.callIds = <<>> /\ request.models = <<"named">>
                        /\ ~IsRest(request) =>
                               \A i, j \in DOMAIN request.offered :
                                   request.offered[i] = request.offered[j] => i = j
                        /\ BrowserCredential(request) =>
                               request.authorization = "none" /\ ~IsPrivate(request)
        BY DEF ZeroContactIfAmbiguous
    <2>1. request \in RequestType /\ MetadataRefusal(request) = "none"
          /\ RouteRefusal(request) = "none"
        BY <1>1 DEF RouteInv, TypeOK, Passed, Classified, Contacted
    <2>2. ASSUME request.path \in SocketPaths
          PROVE  \/ Len(request.callIds) = 1 /\ request.path # "translations"
                 \/ request.callIds = <<>> /\ request.models = <<"named">>
        <3>1. /\ ~TooManyCallIds(request)
              /\ Target(request) # "existing_call" => request.models = <<"named">>
            BY <2>1, <2>2, RouteKnown, SocketPasses
        <3>2. request.callIds \in Seq({"valid", "invalid"})
            BY <2>1 DEF RequestType
        <3>3. CASE request.path = "translations"
            <4>1. request.callIds = <<>>
                BY <3>1, <3>3 DEF TooManyCallIds
            <4>2. Target(request) = "translation"
                BY <3>3 DEF Target
            <4>3. QED BY <3>1, <4>1, <4>2
        <3>4. CASE request.path # "translations"
            <4>1. Len(request.callIds) \in {0, 1}
                <5>1. ~(Len(request.callIds) > 1)
                    BY <3>1 DEF TooManyCallIds
                <5>2. Len(request.callIds) \in Nat
                    BY <3>2
                <5>3. \A n \in Nat : ~(n > 1) => n \in {0, 1}
                    OBVIOUS
                <5>4. QED BY <5>1, <5>2, <5>3
            <4>2. CASE Len(request.callIds) = 1
                BY <3>4, <4>2
            <4>3. CASE Len(request.callIds) = 0
                <5>1. request.callIds = <<>>
                    BY <3>2, <4>3
                <5>2. Target(request) = "standalone"
                    BY <3>4, <4>3 DEF Target
                <5>3. QED BY <3>1, <5>1, <5>2
            <4>4. QED BY <4>1, <4>2, <4>3
        <3>5. QED BY <3>3, <3>4
    <2>3. QED BY <2>1, <2>2, MetadataPasses
<1>2. QED BY <1>1, SpecInv, PTL

\* The upstream gets one credential, of the domain the request belongs to: for a
\* private dialect the proxy's own, which is there because the profile serves the
\* capability; for a browser's handshake the browser's; else the client's or the
\* proxy's as the route says, and a refusal for want of one is the client's fault.
THEOREM RouteCredentialFits == Spec => []CredentialFits
<1>1. ASSUME RouteInv, AnswerInv PROVE CredentialFits
    <2>1. TypeOK /\ Passed /\ Answers /\ LookedUp /\ Credentialed
        BY <1>1 DEF RouteInv, AnswerInv
    <2>2. ASSUME Contacted
          PROVE  /\ contact.credentials \in {{"managed"}, {"client"}, {"browser"}}
                 /\ IsPrivate(request) => contact.credentials = {"managed"}
                 /\ "managed" \in contact.credentials =>
                        ManagedAuth(upstream.profile) /\ selection.credential = "managed"
                 /\ "client" \in contact.credentials => request.authorization = "bearer"
                 /\ "browser" \in contact.credentials <=> BrowserCredential(request)
        <3> DEFINE policy == selection.credential
        <3>1. /\ contact.credentials = Credentials
              /\ BrowserCredential(request) \/ Owed(upstream.profile, policy)
            BY <2>1, <2>2, CredentialChecked DEF Credentialed, Contacted
        <3>2. /\ request \in RequestType /\ MetadataRefusal(request) = "none"
              /\ Classified(request, upstream.profile)
            BY <2>1, <2>2 DEF TypeOK, Passed, Contacted
        <3>3. BrowserCredential(request) => ~IsPrivate(request)
            BY <3>2, MetadataPasses
        <3>4. IsPrivate(request) => policy = "managed"
            BY <3>2 DEF Classified, Select, CredentialPolicy
        <3>5. CASE BrowserCredential(request)
            BY <3>1, <3>3, <3>5 DEF Credentials
        <3>6. CASE ~BrowserCredential(request) /\ policy = "managed"
            <4>1. contact.credentials = {"managed"}
                BY <3>1, <3>6 DEF Credentials
            <4>2. ManagedAuth(upstream.profile)
                BY <3>1, <3>6 DEF Owed
            <4>3. QED BY <3>6, <4>1, <4>2
        <3>7. CASE ~BrowserCredential(request) /\ policy # "managed"
            <4>1. contact.credentials = {"client"}
                BY <3>1, <3>7 DEF Credentials
            <4>2. request.authorization = "bearer"
                BY <3>1, <3>7 DEF Owed
            <4>3. QED BY <3>4, <3>7, <4>1, <4>2
        <3>8. QED BY <3>5, <3>6, <3>7
    <2>3. QED BY <2>1, <2>2 DEF CredentialFits, Answers
<1>2. QED BY <1>1, SpecInv, SpecAnswers, PTL

\* The support matrix as the client sees it: an unsupported capability is answered
\* with exactly the profiles that serve it, by the header-time look-up and by the one
\* a session in the body causes; and nothing of an official request precedes that
\* answer once a ChatGPT profile has classified it.
THEOREM RouteUnsupportedIsExact == Spec => []UnsupportedIsExact
<1>1. ASSUME RouteInv, AnswerInv PROVE UnsupportedIsExact
    <2>1. TypeOK /\ Answers /\ LookedUp /\ OfficialRefused
        BY <1>1 DEF RouteInv, AnswerInv
    <2>2. Contacted => IsSupported(upstream.profile, capability)
        BY <2>1 DEF LookedUp, Contacted
    <2>3. QED BY <2>1, <2>2 DEF UnsupportedIsExact, Answers, OfficialRefused
<1>2. QED BY <1>1, SpecInv, SpecAnswers, PTL

\* The classifiers and the late extraction of the upgrade answer 404 only where the
\* router itself would have: to a request for which no route is registered.
THEOREM RouteRegisteredIsServed == Spec => []RegisteredIsServed
<1>1. ASSUME AnswerInv PROVE RegisteredIsServed
    <2>1. answer.error = "unknown_endpoint" => Unserved(request)
        BY <1>1 DEF AnswerInv, Answers
    <2>2. QED BY <2>1 DEF Unserved, RegisteredIsServed
<1>2. QED BY <1>1, SpecAnswers, PTL

\* The body a ChatGPT upstream is sent has one offer, and no session in it speaks
\* another dialect than its headers, however many fields the client sent.
THEOREM RouteOneReading == Spec => []OneReading
<1>1. AnswerInv => OneReading
    BY DEF AnswerInv
<1>2. QED BY <1>1, SpecAnswers, PTL
=============================================================================
