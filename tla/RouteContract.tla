--------------------------- MODULE RouteContract ---------------------------
(***************************************************************************)
(* One admitted data-plane request, from its route to the upstream: the    *)
(* routes of src/app.rs, the classification of src/realtime/contract.rs,   *)
(* the support matrix (module Capability), the header policies of          *)
(* src/realtime/headers.rs and src/live/headers.rs, the subprotocols, the  *)
(* body of a private call (module CallBody), and the order in which the    *)
(* three handlers, src/realtime/http.rs, src/realtime/websocket.rs and     *)
(* src/live/sideband.rs, apply them.                                       *)
(*                                                                         *)
(* A header is the sequence of its values.  What the exchange or the relay *)
(* does once the upstream is contacted is in HttpExchange, Sessions, Pump. *)
(***************************************************************************)
EXTENDS CallBody, FiniteSets

CONSTANTS Upstreams,  \* configured upstreams: a profile, and the shape of its base URL
          Requests,   \* requests a client may send
          Bodies      \* bodies of private calls

RestPaths == (RestOperations \ {"create_call"}) \cup {"live", "calls"}
SocketPaths == {"realtime", "realtime/", "translations"}
\* The sideband aliases /v1/live/{call_id} and /v1/realtime/calls/{call_id},
\* each with and without a slash at the end.
AliasPaths == {"live_call", "calls_call"}

\* "text" is any other alpha; "bytes" is a value that is not text.
Alphas == Seq({"v1", "v2", "text", "bytes"})
\* Content types as sent; the second has no boundary, the last is no media type.
ContentTypes == Seq({"multipart", "multipart_unbound", "sdp", "json", "malformed"})
Tokens == {"realtime", "credential", "organization", "unknown"}

RequestType ==
    [path : RestPaths \cup SocketPaths \cup AliasPaths \cup {"elsewhere"},
     method : {"GET", "POST"},
     callId : {"valid", "invalid"},               \* the call id in the path
     alpha : Alphas,
     contentType : ContentTypes,
     authorization : {"none", "bearer", "malformed", "bytes", "repeated"},
     \* The other headers the route checks: one is there, or repeated, or no text.
     metadata : {"fine", "organization", "repeated", "undecodable"},
     upgrade : {"none", "announced", "complete"},
     query : {"fine", "malformed"},
     models : Seq({"named", "blank"}),            \* selectors in the query
     callIds : Seq({"valid", "invalid"}),
     offered : Seq(Tokens)]                       \* subprotocols

ASSUME RouteAssumption ==
    /\ Upstreams \subseteq [profile : Profiles, backend : BOOLEAN]
    /\ Requests \subseteq RequestType
    /\ Bodies \subseteq Seq(Fields)

VARIABLES upstream,    \* the configured upstream
          request,     \* the request
          stage,       \* how far its handler is
          selection,   \* what it was classified as
          capability,  \* and which capability that is
          answer,      \* the local refusal: for an unsupported capability, which one
                       \* and the profiles that would serve it
          contact      \* what the upstream is sent

vars == <<upstream, request, stage, selection, capability, answer, contact>>

Stages == {"arrived", "classified", "screened", "validated", "accepted", "built", "permitted",
           "answered", "contacted"}

Unclassified == [operation |-> "none", dialect |-> "none", credential |-> "none"]
NoCapability == [surface |-> "none", of |-> "none"]
NoAnswer == [error |-> "none", of |-> NoCapability, profiles |-> {}]
NoContact == [host |-> "none", path |-> "none", query |-> "none", alpha |-> "none",
              credentials |-> {}, body |-> <<>>]

-----------------------------------------------------------------------------
(* A definition named ...Slip is not used by the specification: it is a      *)
(* wrong version of the definition that follows it, kept to show that a      *)
(* property of this module notices the difference.                           *)

(* Routes and dialects *)

IsRest(r) == r.path \in RestPaths
IsAlias(r) == r.path \in AliasPaths

\* private_dialect and WireAdapter::from_openai_alpha, of the first value.
PrivateDialect(alpha) ==
    CASE alpha # <<>> /\ Head(alpha) = "v1" -> "v1"
      [] alpha # <<>> /\ Head(alpha) = "v2" -> "frameless"
      [] OTHER -> "official"

IsPrivate(r) == PrivateDialect(r.alpha) # "official"

\* The dialect an alias path is named for: SidebandTarget::adapter.
AliasDialect(path) == IF path = "live_call" THEN "frameless" ELSE "v1"

LiteralSlip(r) == r.path = "realtime"

\* websocket::handle serves its two literal paths, and the first with a slash to
\* private clients.
Literal(r) == r.path \in {"realtime", "translations"}
SocketRoute(r) == Literal(r) \/ (r.path = "realtime/" /\ IsPrivate(r))

\* media_type
MediaType(contentType) ==
    IF contentType # <<>> /\ Head(contentType) \in {"multipart", "sdp", "json"}
    THEN Head(contentType) ELSE "none"

\* A private dialect where only the official one is spoken, or one alias used
\* with the dialect of the other.
DialectMismatch(r) ==
    CASE r.path = "live" -> PrivateDialect(r.alpha) # "frameless"
      [] r.path = "calls" -> PrivateDialect(r.alpha) = "frameless"
      [] OTHER -> IsPrivate(r)

\* classify_rest and its two branches.
RestRefusal(r) ==
    FirstRefusal(<<
        <<r.callId = "invalid", "invalid_call_id">>,
        <<r.method # "POST", "unknown_endpoint">>,
        <<DialectMismatch(r), "unsupported_negotiation">>,
        <<r.path \in {"live", "calls"} /\ MediaType(r.contentType) \notin {"multipart", "sdp"},
            "unsupported_content_type">>,
        <<r.path \in {"live", "calls"} /\ IsPrivate(r) /\ MediaType(r.contentType) = "sdp",
            "unsupported_content_type">>,
        <<r.path = "translation_calls" /\ MediaType(r.contentType) # "sdp",
            "unsupported_content_type">>>>)

Operation(r) == IF r.path \in {"live", "calls"} THEN "create_call" ELSE r.path

PrivateTranslationSlip(r) == FALSE

PrivateTranslation(r) == r.path = "translations" /\ IsPrivate(r)

\* A single call id selects a call, whatever the model.
Target(r) ==
    CASE r.path = "translations" -> "translation"
      [] r.path # "translations" /\ Len(r.callIds) = 1 -> "existing_call"
      [] OTHER -> "standalone"

TooManyCallIdsSlip(r) == r.path = "translations" /\ r.callIds # <<>>

\* A translation has no call; elsewhere one call is enough.
TooManyCallIds(r) ==
    \/ r.path = "translations" /\ r.callIds # <<>>
    \/ Len(r.callIds) > 1

\* The first checks of websocket::handle and classify_websocket.
SocketRefusal(r) ==
    FirstRefusal(<<
        <<r.method # "GET" \/ ~SocketRoute(r) \/ r.upgrade = "none", "unknown_endpoint">>,
        <<r.query = "malformed", "invalid_query">>,
        <<PrivateTranslation(r), "unsupported_negotiation">>,
        <<TooManyCallIds(r), "invalid_query">>,
        <<r.callIds = <<"invalid">>, "invalid_call_id">>,
        <<Target(r) # "existing_call" /\ r.models # <<"named">>, "invalid_query">>>>)

\* The checks of handle_sideband before it looks at the other headers.
AliasRefusal(r) ==
    FirstRefusal(<<
        <<r.callId = "invalid" \/ r.upgrade = "none", "unknown_endpoint">>,
        <<Len(r.alpha) # 1 \/ PrivateDialect(r.alpha) # AliasDialect(r.path),
            "invalid_header">>>>)

RouteRefusal(r) ==
    CASE IsRest(r) -> RestRefusal(r)
      [] r.path \in SocketPaths -> SocketRefusal(r)
      [] IsAlias(r) -> AliasRefusal(r)
      [] OTHER -> "unknown_endpoint"

\* The credential the upstream is owed: the client's own for a raw offer and a
\* translation call, the proxy's for a private dialect, else as configured.
CredentialPolicy(r, profile) ==
    CASE IsPrivate(r) -> "managed"
      [] ~IsPrivate(r) /\ \/ r.path = "calls" /\ MediaType(r.contentType) = "sdp"
                          \/ r.path = "translation_calls" -> "ephemeral"
      [] OTHER -> ConfiguredCredential(profile)

Select(r, profile) ==
    [operation |-> IF IsRest(r) THEN Operation(r) ELSE IF IsAlias(r) THEN "alias" ELSE Target(r),
     dialect |-> PrivateDialect(r.alpha),
     credential |-> CredentialPolicy(r, profile)]

CapabilityOf(r) ==
    LET dialect == PrivateDialect(r.alpha)
    IN  CASE IsRest(r) -> FromRest(Operation(r), dialect)
          [] IsAlias(r) -> PrivateSidebandAlias(dialect)
          [] OTHER -> FromWebSocket(Target(r), dialect)

-----------------------------------------------------------------------------
(* Header metadata *)

\* subprotocol::parse: known tokens, one of a kind, never without "realtime".
WellOffered(offered) ==
    /\ "unknown" \notin Range(offered)
    /\ \A i, j \in DOMAIN offered : offered[i] = offered[j] => i = j
    /\ offered = <<>> \/ "realtime" \in Range(offered)

\* A header of the socket routes alone.
BrowserCredential(r) == r.path \in SocketPaths /\ "credential" \in Range(r.offered)

\* A header other than Authorization that is repeated, or is no text.
Repeated(r) == r.metadata = "repeated" \/ Len(r.alpha) > 1
Undecodable(r) == r.metadata = "undecodable" \/ "bytes" \in Range(r.alpha)
Illegible(r) == Repeated(r) \/ Undecodable(r)

\* Two credentials are an error of their own.
AmbiguousCredential(r) == r.authorization = "repeated"

\* validate_upstream_headers, official: repetition matters, content does not.
OfficialMetadata(r) ==
    FirstRefusal(<<
        <<Repeated(r) \/ Len(r.contentType) > 1, "invalid_header">>,
        <<AmbiguousCredential(r), "ambiguous_authorization">>>>)

\* validate_private_call_headers
PrivateCallMetadata(r) ==
    FirstRefusal(<<
        <<Illegible(r), "invalid_header">>,
        <<AmbiguousCredential(r), "ambiguous_authorization">>,
        <<r.authorization = "bytes" \/ Len(r.contentType) # 1, "invalid_header">>>>)

\* validate_upstream_websocket_headers
SocketMetadata(r) ==
    FirstRefusal(<<
        <<~WellOffered(r.offered), "invalid_subprotocol">>,
        <<Repeated(r), "invalid_header">>,
        <<AmbiguousCredential(r), "ambiguous_authorization">>,
        <<Undecodable(r), "invalid_header">>,
        <<IsPrivate(r) /\ r.offered # <<>>, "invalid_subprotocol">>,
        <<"organization" \in Range(r.offered) /\ r.metadata = "organization",
            "invalid_subprotocol">>,
        <<BrowserCredential(r) /\ r.authorization # "none", "invalid_subprotocol">>>>)

\* validate_private_sideband_headers, then no subprotocol at all.
AliasMetadata(r) ==
    FirstRefusal(<<
        <<Illegible(r), "invalid_header">>,
        <<AmbiguousCredential(r), "ambiguous_authorization">>,
        <<r.offered # <<>>, "invalid_subprotocol">>>>)

MetadataRefusal(r) ==
    CASE IsAlias(r) -> AliasMetadata(r)
      [] IsRest(r) /\ IsPrivate(r) -> PrivateCallMetadata(r)
      [] IsRest(r) /\ ~IsPrivate(r) -> OfficialMetadata(r)
      [] OTHER -> SocketMetadata(r)

-----------------------------------------------------------------------------
(* The upstream request *)

Owed(profile, policy) ==
    IF policy = "managed" THEN ManagedAuth(profile) ELSE request.authorization = "bearer"

\* authorization and managed_authorization, which a browser credential replaces.
CredentialRefusal ==
    FirstRefusal(<<
        <<~BrowserCredential(request) /\ ~Owed(upstream.profile, selection.credential),
            "no_credential">>>>)

\* The extraction of the upgrade, stricter than its announcement.
UpgradeRefusal ==
    FirstRefusal(<<
        <<~IsRest(request) /\ (request.method # "GET" \/ request.upgrade # "complete"),
            "unknown_endpoint">>>>)

CredentialsSlip ==
    {IF selection.credential = "managed" THEN "managed" ELSE "client"}
        \cup (IF BrowserCredential(request) THEN {"browser"} ELSE {})

Credentials ==
    CASE BrowserCredential(request) -> {"browser"}
      [] ~BrowserCredential(request) /\ selection.credential = "managed" -> {"managed"}
      [] OTHER -> {"client"}

To(host, path, query) == [host |-> host, path |-> path, query |-> query]

\* The base URL, unless a backend cannot be joined: SIDEBAND_API_ROOT.
JoinHost == IF upstream.backend THEN "public_api" ELSE "base"

CallUrlSlip(dialect) ==
    IF dialect = "v1" THEN To("base", "calls", "avas") ELSE To("base", "live", "none")

\* private_call_create_url
CallUrl(dialect) ==
    IF upstream.backend \/ dialect = "v1"
    THEN To("base", "calls", "avas") ELSE To("base", "live", "none")

\* private_websocket_url
SocketUrl(dialect, target) ==
    CASE dialect = "v1" -> To(JoinHost, "realtime", "intent")
      [] dialect = "frameless" /\ target = "standalone" -> To(JoinHost, "live", "none")
      [] OTHER -> To(JoinHost, "live_call", "none")

\* sideband_upstream_url, of the two targets that are routed to it.
AliasUrl(path) == To(JoinHost, path, "none")

\* official_url and official_websocket_url
OfficialUrl == To("base", request.path, "as_sent")

Url ==
    CASE IsAlias(request) -> AliasUrl(request.path)
      [] ~IsPrivate(request) -> OfficialUrl
      [] IsRest(request) /\ IsPrivate(request) -> CallUrl(selection.dialect)
      [] OTHER -> SocketUrl(selection.dialect, selection.operation)

Upstreamward(body) ==
    [host |-> Url.host, path |-> Url.path, query |-> Url.query,
     alpha |-> IF IsPrivate(request) THEN Head(request.alpha) ELSE "none",
     credentials |-> Credentials, body |-> body]

-----------------------------------------------------------------------------
(* What src/wire/mod.rs promises of a dialect's URLs *)

\* WireAdapter::sideband_join
SidebandJoin(dialect) == IF dialect = "frameless" THEN "path" ELSE "query"

\* WireAdapter::wants_avas_query
WantsAvas(dialect, backend) ==
    \/ dialect = "v1"
    \/ dialect = "frameless" /\ backend

\* The join an alias stands for in the debug_assert_eq! of handle_sideband.
AliasJoin(path) == IF path = "live_call" THEN "path" ELSE "query"

-----------------------------------------------------------------------------
(* The handlers *)

Init ==
    /\ upstream \in Upstreams
    /\ request \in Requests
    /\ stage = "arrived"
    /\ selection = Unclassified
    /\ capability = NoCapability
    /\ answer = NoAnswer
    /\ contact = NoContact

\* Go on, or answer with the refusal.
Proceed(refusal, next) ==
    /\ stage' = IF refusal = "none" THEN next ELSE "answered"
    /\ answer' = IF refusal = "none" THEN answer ELSE [NoAnswer EXCEPT !.error = refusal]

RefuseUnsupported(refused) ==
    /\ stage' = "answered"
    /\ answer' = [error |-> "unsupported_capability", of |-> refused,
                  profiles |-> Support(upstream.profile, refused).required]

Classify ==
    /\ stage = "arrived"
    /\ Proceed(RouteRefusal(request), "classified")
    /\ IF RouteRefusal(request) = "none"
       THEN /\ selection' = Select(request, upstream.profile)
            /\ capability' = CapabilityOf(request)
       ELSE UNCHANGED <<selection, capability>>
    /\ UNCHANGED <<upstream, request, contact>>

\* The capability table: before the headers for the official dialect, after them
\* for a private one.
ApplySupport(next) ==
    /\ IF IsSupported(upstream.profile, capability)
       THEN stage' = next /\ UNCHANGED answer
       ELSE RefuseUnsupported(capability)
    /\ UNCHANGED <<upstream, request, selection, capability, contact>>

SupportOfficial ==
    /\ stage = "classified" /\ ~IsPrivate(request)
    /\ ApplySupport("screened")

ValidateMetadata ==
    /\ stage = IF IsPrivate(request) THEN "classified" ELSE "screened"
    /\ Proceed(MetadataRefusal(request), "validated")
    /\ UNCHANGED <<upstream, request, selection, capability, contact>>

SupportPrivate ==
    /\ stage = "validated" /\ IsPrivate(request)
    /\ ApplySupport("accepted")

\* Upstream headers and the upgrade; an alias extracts the upgrade first.
Build ==
    /\ stage = IF IsPrivate(request) THEN "accepted" ELSE "validated"
    /\ LET credential == <<CredentialRefusal # "none", CredentialRefusal>>
           upgrade == <<UpgradeRefusal # "none", UpgradeRefusal>>
       IN  Proceed(FirstRefusal(IF IsAlias(request) THEN <<upgrade, credential>>
                                ELSE <<credential, upgrade>>), "built")
    /\ UNCHANGED <<upstream, request, selection, capability, contact>>

\* The permit pool, which other requests may have emptied.
Admit ==
    /\ stage = "built"
    /\ \E refusal \in {"none", "too_many"} : Proceed(refusal, "permitted")
    /\ UNCHANGED <<upstream, request, selection, capability, contact>>

IsPrivateCall(r) == IsRest(r) /\ IsPrivate(r)

\* Everything but a private call contacts the upstream with what it has.
Contact ==
    /\ stage = "permitted" /\ ~IsPrivateCall(request)
    /\ stage' = "contacted"
    /\ contact' = Upstreamward(<<>>)
    /\ UNCHANGED <<upstream, request, selection, capability, answer>>

\* chatgpt_official_session_error
OfficialSession(body) ==
    [surface |-> "official",
     of |-> IF Evidence(Parse(body)) = "realtime" THEN "create_call" ELSE "transcription_sessions"]

\* handle_call_create, from the body on.
CreateCall(body) ==
    /\ stage = "permitted" /\ IsPrivateCall(request)
    /\ LET refusal == BodyRefusal(upstream, selection.dialect, body)
       IN  \/ /\ refusal = "none"
              /\ stage' = "contacted"
              /\ contact' = Upstreamward(Outbound(upstream, body))
              /\ UNCHANGED answer
           \/ /\ refusal = "unsupported_capability"
              /\ RefuseUnsupported(OfficialSession(body))
              /\ UNCHANGED contact
           \/ /\ refusal \notin {"none", "unsupported_capability"}
              /\ Proceed(refusal, "contacted")
              /\ UNCHANGED contact
    /\ UNCHANGED <<upstream, request, selection, capability>>

Next ==
    \/ Classify \/ SupportOfficial \/ ValidateMetadata \/ SupportPrivate
    \/ Build \/ Admit \/ Contact
    \/ \E body \in Bodies : CreateCall(body)

Spec == Init /\ [][Next]_vars

-----------------------------------------------------------------------------
(* Properties *)

Contacted == stage = "contacted"

\* The state is well formed.
TypeOK ==
    /\ upstream \in Upstreams
    /\ request \in RequestType
    /\ stage \in Stages
    /\ selection.dialect \in Dialects \cup {"none"}
    /\ selection.credential \in {"none", "managed", "client", "ephemeral"}
    /\ capability \in Capabilities \cup {NoCapability, Impossible}
    /\ answer.profiles \subseteq Profiles
    /\ stage = "answered" <=> answer.error # "none"
    /\ Contacted <=> contact # NoContact

\* What the code asserts cannot happen does not: a private dialect with an
\* official-only operation reaches neither the unreachable!() arms of
\* Capability::from_rest, from_websocket and private_websocket_url nor the
\* debug_assert!() of realtime::http::handle, and an alias that is accepted has
\* the join style its adapter has (the debug_assert_eq! of handle_sideband).
NoUnreachableArm ==
    /\ capability # Impossible
    /\ (stage \in {"accepted", "built", "permitted", "contacted"} /\ IsAlias(request)) =>
           SidebandJoin(selection.dialect) = AliasJoin(request.path)

\* The upstream hears one dialect: the alpha that is forwarded, the path and the
\* query all belong to it, by the rules src/wire/mod.rs gives, and a private
\* socket of a backend-shaped upstream, alone, leaves its base for the public API.
SpeaksOneDialect ==
    Contacted =>
        /\ contact.alpha = "none" <=> contact.query = "as_sent"
        /\ (contact.query = "avas") <=>
               (IsPrivateCall(request) /\ WantsAvas(selection.dialect, upstream.backend))
        /\ contact.query = "intent" => contact.alpha = "v1"
        /\ (contact.path \in {"live", "live_call"}) => contact.alpha = "v2"
        /\ contact.path = "calls" /\ contact.alpha = "v2" => upstream.backend
        /\ (contact.host = "public_api") <=>
               (upstream.backend /\ IsPrivate(request) /\ ~IsRest(request))

\* A request that could be read in two ways contacts nobody: with two alphas,
\* two content types, a repeated header, two credentials, two calls or two models,
\* the same subprotocol twice, or a browser credential beside another one.
ZeroContactIfAmbiguous ==
    Contacted =>
        /\ Len(request.alpha) <= 1 /\ request.metadata # "repeated"
        /\ request.authorization # "repeated"
        /\ IsRest(request) => Len(request.contentType) <= 1
        /\ request.path \in SocketPaths =>
               \/ Len(request.callIds) = 1 /\ request.path # "translations"
               \/ request.callIds = <<>> /\ request.models = <<"named">>
        /\ ~IsRest(request) =>
               \A i, j \in DOMAIN request.offered :
                   request.offered[i] = request.offered[j] => i = j
        /\ BrowserCredential(request) => request.authorization = "none" /\ ~IsPrivate(request)

\* The upstream gets exactly one credential, of the domain the request belongs
\* to: the proxy's own never stands in for an ephemeral secret or a browser's
\* key, and the client's never travels with a private dialect.  A request is
\* refused for want of one only if the client was to bring it and did not.
CredentialFits ==
    /\ Contacted =>
           /\ contact.credentials \in {{"managed"}, {"client"}, {"browser"}}
           /\ IsPrivate(request) => contact.credentials = {"managed"}
           /\ "managed" \in contact.credentials =>
                  ManagedAuth(upstream.profile) /\ selection.credential = "managed"
           /\ "client" \in contact.credentials => request.authorization = "bearer"
           /\ "browser" \in contact.credentials <=> BrowserCredential(request)
    /\ answer.error = "no_credential" =>
           ~IsPrivate(request) /\ request.authorization # "bearer"

\* An unsupported capability is answered with exactly the profiles that serve
\* it, the configured one not among them and at least one there; whoever is
\* contacted serves the capability; and an official request that a ChatGPT
\* profile classifies is answered so whatever else is wrong with it.
UnsupportedIsExact ==
    /\ answer.error = "unsupported_capability" =>
           /\ answer.profiles = {profile \in Profiles : IsSupported(profile, answer.of)}
           /\ answer.profiles # {} /\ upstream.profile \notin answer.profiles
    /\ Contacted => IsSupported(upstream.profile, capability)
    /\ (stage \in {"answered", "contacted"} /\ selection # Unclassified
            /\ upstream.profile = "chatgpt" /\ ~IsPrivate(request)) =>
           answer.error = "unsupported_capability"

\* An endpoint is unknown only to a request no route is registered for: none of
\* the classifiers, whose path tables repeat the router's, nor the late
\* extraction of the upgrade turns a served route into a 404.
RegisteredIsServed ==
    answer.error = "unknown_endpoint" =>
        CASE IsRest(request) -> request.method # "POST"
          [] IsAlias(request) -> \/ request.callId = "invalid" \/ request.method # "GET"
                                 \/ request.upgrade # "complete"
          [] request.path \in SocketPaths ->
                 \/ request.method # "GET" \/ request.upgrade # "complete"
                 \/ request.path = "realtime/" /\ ~IsPrivate(request)
          [] OTHER -> TRUE

\* The body a ChatGPT upstream is sent has one reading: whichever of its fields a
\* multipart reader believes, there is one offer and no session that speaks
\* another dialect than the one the headers negotiated.
OneReading ==
    (Contacted /\ IsPrivateCall(request) /\ upstream.profile = "chatgpt") =>
        /\ Cardinality({i \in DOMAIN contact.body : contact.body[i].name = "sdp"}) = 1
        /\ \A i \in DOMAIN contact.body :
               contact.body[i].name = "session" =>
                   Agrees(selection.dialect, ClassifySession(contact.body[i].shape))
=============================================================================
