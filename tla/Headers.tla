------------------------------- MODULE Headers -------------------------------
(***************************************************************************)
(* What crosses the proxy in a header map: src/realtime/headers.rs and     *)
(* src/live/headers.rs towards the upstream, the answers' allow-lists back *)
(* to the client, and the renderer of src/observability/mod.rs.            *)
(*                                                                         *)
(* A header map is a function from names to the values in their order.  A  *)
(* value is the class of its text; "bytes" is one that is not text, and an *)
(* authorization is the name of one of the AuthorizationForms.             *)
(***************************************************************************)
EXTENDS Naturals, Sequences, SequencesExt, Capability, Checks

RequestAllowlist ==
    <<"content-type", "accept", "openai-organization", "openai-project",
      "openai-safety-identifier", "openai-beta", "idempotency-key", "openai-alpha",
      "x-oai-attestation">>
SingletonRequestHeaders ==
    <<"content-type", "openai-organization", "openai-project", "openai-safety-identifier",
      "idempotency-key", "openai-alpha", "authorization", "x-oai-attestation">>
SensitiveRequestHeaders ==
    {"openai-organization", "openai-project", "openai-safety-identifier", "idempotency-key",
     "x-oai-attestation"}
SocketSingletons ==
    <<"origin", "openai-organization", "openai-project", "openai-safety-identifier",
      "openai-alpha", "x-oai-attestation">>
ClientProtocolHeaders ==
    <<"openai-alpha", "x-session-id", "session-id", "thread-id", "originator",
      "x-oai-attestation">>
ProxyOwned == {"authorization", "chatgpt-account-id"}

\* The list redacted_headers hides by name.
CredentialHeaders ==
    {"authorization", "chatgpt-account-id", "cookie", "idempotency-key",
     "openai-organization", "openai-project", "openai-safety-identifier",
     "proxy-authorization", "sec-websocket-protocol", "set-cookie", "x-api-key",
     "x-gpt-live-api-key", "x-oai-attestation"}

RequestNames ==
    Range(RequestAllowlist) \cup Range(ClientProtocolHeaders) \cup ProxyOwned
        \cup {"origin", "cookie", "x-gpt-live-api-key", "sec-websocket-protocol"}

\* An x-ratelimit- header stands for all of them.
ResponseAllowlist ==
    {"content-type", "location", "retry-after", "x-request-id", "openai-processing-ms",
     "openai-version", "x-ratelimit-"}
SocketResponseAllowlist ==
    {"x-request-id", "openai-processing-ms", "openai-version", "x-ratelimit-"}
RelayHeaders == {"content-type", "location"}
ResponseNames == ResponseAllowlist \cup {"set-cookie", "connection", "www-authenticate"}

\* The words of an authorization after its scheme; a word is its letters, which
\* are allowed in a token, the padding, or neither.
AuthorizationForms ==
    [bearer     |-> [scheme |-> "bearer", words |-> <<<<"base", "base">>>>],
     padded     |-> [scheme |-> "bearer", words |-> <<<<"base", "pad", "pad">>>>],
     only_pad   |-> [scheme |-> "bearer", words |-> <<<<"pad">>>>],
     pad_inside |-> [scheme |-> "bearer", words |-> <<<<"base", "pad", "base">>>>],
     strange    |-> [scheme |-> "bearer", words |-> <<<<"base", "other">>>>],
     two_words  |-> [scheme |-> "bearer", words |-> <<<<"base">>, <<"base">>>>],
     bare       |-> [scheme |-> "bearer", words |-> <<>>],
     basic      |-> [scheme |-> "basic", words |-> <<<<"base">>>>],
     blank      |-> [scheme |-> "none", words |-> <<>>],
     bytes      |-> [scheme |-> "none", words |-> <<>>]]

Repeated(h, name) == Len(h[name]) > 1
Undecodable(h, name) == "bytes" \in Range(h[name])

\* is_empty, as append_non_empty_values filters by it.
NonEmpty(h, name) ==
    LET values == h[name]
        kept[n \in 0..Len(values)] ==
            IF n = 0 THEN <<>>
            ELSE IF values[n] = "blank" THEN kept[n - 1]
            ELSE Append(kept[n - 1], values[n])
    IN  kept[Len(values)]

\* valid_bearer: one pass over the bytes of the only word, with two flags.
NoLetter == [padding |-> FALSE, base |-> FALSE, valid |-> TRUE]

Letter(seen, next) ==
    CASE next = "pad" -> [seen EXCEPT !.padding = TRUE, !.valid = @ /\ seen.base]
      [] next = "base" /\ ~seen.padding -> [seen EXCEPT !.base = TRUE]
      [] OTHER -> [seen EXCEPT !.valid = FALSE]

Letters(word) ==
    LET read[n \in 0..Len(word)] ==
            IF n = 0 THEN NoLetter ELSE Letter(read[n - 1], word[n])
    IN  read[Len(word)]

ValidBearer(form) ==
    /\ form.scheme = "bearer" /\ Len(form.words) = 1
    /\ Letters(form.words[1]).valid /\ Letters(form.words[1]).base

\* The dialect as the classifiers find it: in the first value.
DialectOf(h) ==
    CASE h["openai-alpha"] # <<>> /\ h["openai-alpha"][1] = "v1" -> "v1"
      [] h["openai-alpha"] # <<>> /\ h["openai-alpha"][1] = "v2" -> "frameless"
      [] OTHER -> "official"

-----------------------------------------------------------------------------
(* Validation, which looks at no credential *)

\* Every check of a list of names, in its order.
ForEach(names, fails(_), refusal(_)) ==
    [i \in 1..Len(names) |-> <<fails(names[i]), refusal(names[i])>>]

InvalidHeader(name) == "invalid_header"
RepetitionRefusal(name) ==
    IF name = "authorization" THEN "ambiguous_authorization" ELSE "invalid_header"

\* The repeated attestation of an official request is not looked at: it does not
\* cross.
Counts(name, dialect) == name # "x-oai-attestation" \/ dialect # "official"

\* reject_duplicate_singletons
OfficialRefusal(h, dialect) ==
    FirstRefusal(ForEach(SingletonRequestHeaders,
                         LAMBDA name : Counts(name, dialect) /\ Repeated(h, name),
                         RepetitionRefusal))

\* reject_websocket_singletons and validate_websocket_metadata, between the two
\* looks at what the browser offered.
WebSocketRefusal(h, dialect) ==
    LET offered == Range(h["sec-websocket-protocol"])
        twice(kind, name) == kind \in offered /\ h[name] # <<>>
    IN  FirstRefusal(
            ForEach(Append(SocketSingletons, "authorization"),
                    LAMBDA name : Counts(name, dialect) /\ Repeated(h, name),
                    RepetitionRefusal)
            \o ForEach(Append(SocketSingletons, "openai-beta"),
                       LAMBDA name : Undecodable(h, name), InvalidHeader)
            \o <<<<dialect # "official" /\ offered # {}, "invalid_subprotocol">>,
                 <<twice("organization", "openai-organization")
                       \/ twice("project", "openai-project"), "invalid_subprotocol">>,
                 <<"credential" \in offered /\ h["authorization"] # <<>>,
                       "invalid_subprotocol">>>>)

AlphaDisagrees(h, dialect) ==
    h["openai-alpha"] = <<>>
    \/ h["openai-alpha"][1] # (IF dialect = "v1" THEN "v1" ELSE "v2")

\* Only the alpha is counted, the others take their first value.
ProtocolHeadersRefusedSlip(h) ==
    ForEach(ClientProtocolHeaders,
            LAMBDA name : (name = "openai-alpha" /\ Repeated(h, name)) \/ Undecodable(h, name),
            InvalidHeader)

\* What both private validations say of the headers that name a session.
ProtocolHeadersRefused(h) ==
    ForEach(ClientProtocolHeaders,
            LAMBDA name : Repeated(h, name) \/ Undecodable(h, name), InvalidHeader)

\* validate_private_call_headers
CallRefusal(h, dialect) ==
    FirstRefusal(
        <<<<dialect = "official", "invalid_header">>>>
        \o ProtocolHeadersRefused(h)
        \o <<<<Repeated(h, "authorization"), "ambiguous_authorization">>,
             <<Undecodable(h, "authorization"), "invalid_header">>,
             <<Len(h["content-type"]) # 1 \/ Undecodable(h, "content-type"), "invalid_header">>,
             <<AlphaDisagrees(h, dialect), "invalid_header">>>>)

\* validate_private_sideband_headers
SidebandRefusal(h, dialect) ==
    FirstRefusal(
        ProtocolHeadersRefused(h)
        \o <<<<Repeated(h, "authorization"), "ambiguous_authorization">>,
             <<AlphaDisagrees(h, dialect), "invalid_header">>>>)

-----------------------------------------------------------------------------
(* Building: an output value is what it is, whose it is, and how it renders *)

From(whose, value, sensitive) == [whose |-> whose, value |-> value, sensitive |-> sensitive]

\* append_non_empty_values
All(h, name, sensitive) ==
    [i \in 1..Len(NonEmpty(h, name)) |-> From("caller", NonEmpty(h, name)[i], sensitive)]

\* copy_single_non_empty
First(h, name, sensitive) ==
    IF h[name] = <<>> \/ h[name][1] = "blank" THEN <<>>
    ELSE <<From("caller", h[name][1], sensitive)>>

Secret(value) == <<From("proxy", value, TRUE)>>

\* The credential: the proxy's own if it is managed, else the caller's bearer.
AuthorizationRefused(h, upstream, policy) ==
    IF policy = "managed" THEN ~ManagedAuth(upstream.profile) \/ upstream.token = "illegal"
    ELSE h["authorization"] = <<>> \/ ~ValidBearer(AuthorizationForms[h["authorization"][1]])

\* The caller's authorization whatever was agreed.
AuthorizationSlip(h, policy) ==
    IF h["authorization"] # <<>> THEN <<From("caller", h["authorization"][1], TRUE)>>
    ELSE Secret("token")

Authorization(h, policy) ==
    IF policy = "managed" THEN Secret("token")
    ELSE <<From("caller", h["authorization"][1], TRUE)>>

HasAccount(upstream) == upstream.profile = "chatgpt" /\ upstream.account # "none"
Account(upstream) == IF HasAccount(upstream) THEN Secret("account") ELSE <<>>
AccountRefused(upstream) == HasAccount(upstream) /\ upstream.account = "illegal"

Nothing == [name \in RequestNames |-> <<>>]

\* copy_private_alpha, after the check that it agrees.
Alpha(h, dialect) ==
    IF dialect = "official" THEN <<>> ELSE First(h, "openai-alpha", FALSE)

\* build_upstream_headers
BuildOfficial(h, upstream, dialect, policy) ==
    [name \in RequestNames |->
        CASE name = "openai-alpha" -> Alpha(h, dialect)
          [] name = "x-oai-attestation" ->
                 IF dialect = "official" THEN <<>> ELSE First(h, name, TRUE)
          [] name \in {"accept", "openai-beta"} -> All(h, name, FALSE)
          [] name = "authorization" -> Authorization(h, policy)
          [] name = "chatgpt-account-id" ->
                 IF dialect = "official" THEN <<>> ELSE Account(upstream)
          [] name \in Range(RequestAllowlist) \ {"openai-alpha", "x-oai-attestation", "accept",
                                                 "openai-beta"} ->
                 First(h, name, name \in SensitiveRequestHeaders)
          [] OTHER -> <<>>]

\* build_upstream_websocket_headers
BuildWebSocket(h, upstream, dialect, policy) ==
    LET offered == h["sec-websocket-protocol"]
    IN  [name \in RequestNames |->
            CASE name = "origin" -> First(h, name, FALSE)
              [] name \in {"openai-organization", "openai-project",
                           "openai-safety-identifier"} -> First(h, name, TRUE)
              [] name = "openai-beta" -> All(h, name, FALSE)
              [] name = "openai-alpha" -> Alpha(h, dialect)
              [] name = "x-oai-attestation" /\ dialect # "official" -> First(h, name, TRUE)
              [] name = "chatgpt-account-id" /\ dialect # "official" -> Account(upstream)
              [] name = "authorization" /\ "credential" \notin Range(offered) ->
                     Authorization(h, policy)
              [] name = "sec-websocket-protocol" ->
                     [i \in 1..Len(offered) |-> From("caller", offered[i], TRUE)]
              [] OTHER -> <<>>]

\* merge_upstream_headers over client_protocol_headers, and the content type that
\* build_private_call_headers adds.
BuildPrivate(h, upstream, call) ==
    [name \in RequestNames |->
        CASE name \in Range(ClientProtocolHeaders) ->
                 First(h, name, name = "x-oai-attestation")
          [] name = "authorization" -> Secret("token")
          [] name = "chatgpt-account-id" -> Account(upstream)
          [] name = "content-type" /\ call -> <<From("caller", h[name][1], FALSE)>>
          [] OTHER -> <<>>]

HeaderRoutes == {"official", "private_call", "websocket", "sideband"}

Validation(route, h) ==
    LET dialect == DialectOf(h)
    IN  CASE route = "official" -> OfficialRefusal(h, dialect)
          [] route = "private_call" -> CallRefusal(h, dialect)
          [] route = "websocket" -> WebSocketRefusal(h, dialect)
          [] route = "sideband" -> SidebandRefusal(h, dialect)

\* The failures left to the building, once validation has passed.
BuildRefusal(route, h, upstream, policy) ==
    LET dialect == DialectOf(h)
        browser == route = "websocket" /\ "credential" \in Range(h["sec-websocket-protocol"])
        private == route \in {"private_call", "sideband"}
    IN  FirstRefusal(<<
            <<~private /\ dialect # "official"
                  /\ (AlphaDisagrees(h, dialect) \/ h["openai-alpha"][1] = "blank"),
                "invalid_header">>,
            <<~private /\ dialect # "official" /\ AccountRefused(upstream), "invalid_header">>,
            <<~browser /\ AuthorizationRefused(h, upstream, policy), "no_credential">>,
            <<private /\ AccountRefused(upstream), "no_credential">>>>)

Forwarded(route, h, upstream, policy) ==
    CASE route = "official" -> BuildOfficial(h, upstream, DialectOf(h), policy)
      [] route = "websocket" -> BuildWebSocket(h, upstream, DialectOf(h), policy)
      [] OTHER -> BuildPrivate(h, upstream, route = "private_call")

-----------------------------------------------------------------------------
(* Back to the client, and into a log line *)

\* response_headers, websocket_response_headers, rejected_response and the
\* relay_response of call_create.rs.
Returned(route, answer) ==
    [name \in ResponseNames |->
        CASE route = "official" /\ name \in ResponseAllowlist -> answer[name]
          [] route = "websocket" /\ name \in SocketResponseAllowlist -> answer[name]
          [] route = "rejected" /\ name \in SocketResponseAllowlist -> answer[name]
          [] route = "rejected" /\ name = "retry-after" -> SubSeq(answer[name], 1, 1)
          [] route = "rejected" /\ name = "content-type" -> <<"application/json">>
          [] route = "private_call" /\ name \in RelayHeaders ->
                 SelectSeq(SubSeq(answer[name], 1, 1), LAMBDA value : value # "blank")
          [] OTHER -> <<>>]

\* redacted_headers: the names whose value would be legible.
Rendered(out) ==
    {name \in DOMAIN out : \E i \in DOMAIN out[name] :
        ~out[name][i].sensitive /\ name \notin CredentialHeaders}

-----------------------------------------------------------------------------
(* Properties of one request: route, headers, upstream and policy *)

Passes(c) ==
    Validation(c.route, c.headers) = "none"
        /\ BuildRefusal(c.route, c.headers, c.upstream, c.policy) = "none"

\* base+ pad*
B64Token(word) ==
    \E n \in 1..Len(word) : \A i \in 1..Len(word) : word[i] = (IF i <= n THEN "base" ELSE "pad")

\* What the caller of a private dialect alone may send.
PrivateOnly == {"openai-alpha", "x-oai-attestation", "chatgpt-account-id", "session-id",
                "x-session-id", "thread-id", "originator"}

\* Four maps are built name by name, each from lists of its own.  Whatever the
\* route, the caller's cookies and its admission key stay here; what only a
\* private dialect carries crosses under that dialect alone; the account is the
\* proxy's, and so is the authorization where it was agreed to be; a caller's
\* authorization is one well-formed bearer; and everything bearer-grade is both
\* marked sensitive and hidden by name, so that either of the two mechanisms of
\* redacted_headers is enough.
OnlyWhatMayCross(c) ==
    Passes(c) =>
        LET out == Forwarded(c.route, c.headers, c.upstream, c.policy)
            crosses == {name \in RequestNames : out[name] # <<>>}
            whose(name) == {out[name][i].whose : i \in DOMAIN out[name]}
        IN  /\ crosses \cap {"cookie", "x-gpt-live-api-key"} = {}
            /\ DialectOf(c.headers) = "official" => crosses \cap PrivateOnly = {}
            /\ whose("chatgpt-account-id") \subseteq {"proxy"}
            /\ "proxy" \in whose("authorization") <=> "authorization" \in crosses
                                                        /\ c.policy = "managed"
            /\ "caller" \in whose("authorization") =>
                   LET form == AuthorizationForms[out["authorization"][1].value]
                   IN  Len(form.words) = 1 /\ B64Token(form.words[1])
            /\ \A name \in crosses \cap CredentialHeaders :
                   \A i \in DOMAIN out[name] : out[name][i].sensitive
            /\ Rendered(out) \cap (SensitiveRequestHeaders \cup ProxyOwned) = {}

\* A header the caller repeated is refused or crosses whole: no route picks one
\* of two values.  And after validation nothing but a credential is missing: the
\* building, which runs after the capability of the profile was decided, has
\* nothing left to say of the caller's other headers.
NoSilentChoice(c) ==
    /\ Passes(c) =>
           LET out == Forwarded(c.route, c.headers, c.upstream, c.policy)
           IN  \A name \in RequestNames :
                   out[name] # <<>> /\ out[name][1].whose = "caller" =>
                       [i \in DOMAIN out[name] |-> out[name][i].value]
                           = NonEmpty(c.headers, name)
    /\ Validation(c.route, c.headers) = "none" =>
           BuildRefusal(c.route, c.headers, c.upstream, c.policy)
               \in {"none", "no_credential"}
                   \cup (IF AccountRefused(c.upstream) THEN {"invalid_header"} ELSE {})
=============================================================================
