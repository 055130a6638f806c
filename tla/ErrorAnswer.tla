----------------------------- MODULE ErrorAnswer -----------------------------
(***************************************************************************)
(* How a local error is answered: src/error.rs, with the contract errors   *)
(* of src/realtime/contract.rs that become relay errors, and the labels    *)
(* and profile lists of src/realtime/capability.rs.                        *)
(*                                                                         *)
(* An error is its variant, by the names the other modules give to a       *)
(* refusal, with the capability and the profile an unsupported one         *)
(* carries.  Of a message only what it says of profiles is modelled.       *)
(***************************************************************************)
EXTENDS Capability, Naturals, Sequences, SequencesExt

NotAuthenticated == {"admission_required", "admission_secret_not_forwardable", "no_credential"}
TooMany == {"too_many_requests", "too_many_connections"}
BadRequest ==
    {"body_unreadable", "multipart_parse", "missing_sdp", "session_not_string",
     "session_not_json", "no_upstream", "ambiguous_authorization", "invalid_header",
     "invalid_call_id", "invalid_query", "invalid_subprotocol", "unsupported_content_type",
     "unsupported_capability", "unsupported_negotiation", "invalid_session_shape"}
BadGateway == {"response_too_large", "upstream_failed", "websocket_failed", "upstream_protocol"}
GatewayTimeout == {"upstream_timeout", "connect_timeout"}
OriginBlocked == {"origin_blocked_http", "origin_blocked_upgrade"}

\* RelayError
RelayErrors ==
    NotAuthenticated \cup TooMany \cup BadRequest \cup BadGateway \cup GatewayTimeout
        \cup OriginBlocked
        \cup {"body_too_large", "client_canceled", "body_timeout", "draining", "upgrade_failed",
              "unknown_endpoint"}

-----------------------------------------------------------------------------
(* Contract errors *)

RestContractErrors ==
    {"UnknownRoute", "MethodNotAllowed", "InvalidCallId", "UnsupportedContentType",
     "PrivateDialectRequiresManaged", "PrivateDialectNotSupported"}
WebSocketContractErrors ==
    {"UnknownRoute", "MethodNotAllowed", "MissingSelector", "AmbiguousQuery", "InvalidCallId",
     "PrivateDialectRequiresManaged", "PrivateDialectNotSupported"}

\* RelayError::from_rest_contract
FromRestContract(error) ==
    CASE error \in {"UnknownRoute", "MethodNotAllowed"} -> "unknown_endpoint"
      [] error = "InvalidCallId" -> "invalid_call_id"
      [] error = "UnsupportedContentType" -> "unsupported_content_type"
      [] error \in {"PrivateDialectRequiresManaged", "PrivateDialectNotSupported"} ->
             "unsupported_negotiation"

\* RelayError::from_websocket_contract
FromWebSocketContract(error) ==
    CASE error \in {"UnknownRoute", "MethodNotAllowed"} -> "unknown_endpoint"
      [] error \in {"MissingSelector", "AmbiguousQuery"} -> "invalid_query"
      [] error = "InvalidCallId" -> "invalid_call_id"
      [] error \in {"PrivateDialectRequiresManaged", "PrivateDialectNotSupported"} ->
             "unsupported_negotiation"

-----------------------------------------------------------------------------
(* Status, type and code *)

\* RelayError::status
Status(error) ==
    CASE error \in BadRequest -> 400
      [] error \in NotAuthenticated -> 401
      [] error \in OriginBlocked -> 403
      [] error = "unknown_endpoint" -> 404
      [] error = "body_timeout" -> 408
      [] error = "body_too_large" -> 413
      [] error = "upgrade_failed" -> 426
      [] error \in TooMany -> 429
      [] error = "client_canceled" -> 499
      [] error \in BadGateway -> 502
      [] error = "draining" -> 503
      [] error \in GatewayTimeout -> 504

\* A variant of the upstream is left to the catch-all.
ErrorTypeSlip(error) ==
    CASE error \in NotAuthenticated -> "authentication_error"
      [] error \in TooMany -> "rate_limit_error"
      [] error \in (BadGateway \ {"upstream_protocol"}) \cup GatewayTimeout -> "server_error"
      [] OTHER -> "invalid_request_error"

\* RelayError::error_type
ErrorType(error) ==
    CASE error \in NotAuthenticated -> "authentication_error"
      [] error \in TooMany -> "rate_limit_error"
      [] error \in BadGateway \cup GatewayTimeout -> "server_error"
      [] OTHER -> "invalid_request_error"

\* RelayError::error_code
ErrorCode(error) ==
    CASE error = "client_canceled" -> "client_closed_request"
      [] error \in (BadGateway \ {"upstream_protocol"}) \cup GatewayTimeout ->
             "upstream_server_error"
      [] error \in NotAuthenticated -> "invalid_api_key"
      [] error \in OriginBlocked -> "origin_rejected"
      [] error = "upgrade_failed" -> "upgrade_required"
      [] error = "invalid_call_id" -> "invalid_call_id"
      [] error = "invalid_query" -> "invalid_realtime_query"
      [] error = "invalid_subprotocol" -> "invalid_realtime_subprotocol"
      [] error \in {"unsupported_capability", "unsupported_negotiation"} ->
             "unsupported_realtime_capability"
      [] error = "invalid_session_shape" -> "invalid_realtime_session_shape"
      [] error = "body_timeout" -> "request_timeout"
      [] error \in TooMany -> "rate_limit_exceeded"
      [] error = "upstream_protocol" -> "upstream_websocket_protocol_error"
      [] OTHER -> "invalid_request_error"

-----------------------------------------------------------------------------
(* The answer *)

\* The order of the three profile lists, which message matches element by element.
Listed(profiles) ==
    LET only(p) == IF p \in profiles THEN <<p>> ELSE <<>>
    IN  only("apikey_managed") \o only("apikey_client") \o only("chatgpt")

\* The patterns are written in another order than the lists.
RequirementSlip(required) ==
    CASE required = <<"apikey_client", "apikey_managed">> -> "apikey"
      [] required = <<"apikey_managed", "chatgpt">> -> "managed"
      [] required = <<"apikey_managed">> -> "apikey_managed"
      [] OTHER -> "supported"

\* What message says is required.
Requirement(required) ==
    CASE required = <<"apikey_managed", "apikey_client">> -> "apikey"
      [] required = <<"apikey_managed", "chatgpt">> -> "managed"
      [] required = <<"apikey_managed">> -> "apikey_managed"
      [] OTHER -> "supported"

\* Capability::label, but for the spelling: nothing for what cannot be.
Label(capability) == IF capability \in Capabilities THEN {capability} ELSE {}

Envelope(error) ==
    [type |-> {ErrorType(error)}, code |-> {ErrorCode(error)}, message |-> {}, required |-> <<>>,
     capability |-> {}]

\* The members only an unsupported capability has; Support is what RefuseUnsupported
\* of the handlers takes its profiles from.
Unserved(e) ==
    LET required == Listed(Support(e.profile, e.capability).required)
    IN  [Envelope("unsupported_capability") EXCEPT
             !.message = {Requirement(required)}, !.required = required,
             !.capability = Label(e.capability)]

\* RelayError::into_response.  Draining is text, and has no envelope.
IntoResponse(e) ==
    CASE e.error = "draining" ->
             [status |-> 503, retryAfter |-> {5}, envelope |-> {}]
      [] e.error = "unsupported_capability" ->
             [status |-> Status(e.error), retryAfter |-> {}, envelope |-> {Unserved(e)}]
      [] OTHER ->
             [status |-> Status(e.error),
              retryAfter |-> IF e.error \in TooMany THEN {1} ELSE {},
              envelope |-> {Envelope(e.error)}]

-----------------------------------------------------------------------------
(* Properties *)

\* Which profiles a requirement's words mean.
Meant(words) ==
    CASE words = "apikey" -> {p \in Profiles : p # "chatgpt"}
      [] words = "managed" -> {p \in Profiles : ManagedAuth(p)}
      [] words = "apikey_managed" -> {"apikey_managed"}
      [] OTHER -> {}

\* Status, type, code and Retry-After, which are four tables, give one verdict: who
\* is to blame and whether waiting helps can be read off any of them.
OneVerdict(e) ==
    LET r == IntoResponse(e)
        sameCode == {other \in RelayErrors \ {"draining"} :
                        ErrorCode(other) = ErrorCode(e.error)}
    IN  /\ (r.retryAfter # {}) <=> r.status \in {429, 503}
        /\ \A body \in r.envelope :
               /\ body.type = {"server_error"} <=> r.status >= 500
               /\ body.type = {"authentication_error"} <=> r.status = 401
               /\ body.code = {"invalid_api_key"} <=> r.status = 401
               /\ body.type = {"rate_limit_error"} <=> r.status = 429
               /\ body.code = {"rate_limit_exceeded"} <=> r.status = 429
               /\ body.code \in {{"invalid_request_error"}, {"upstream_server_error"}} \/
                      \A other \in sameCode : Status(other) = r.status
        /\ r.envelope = {} => r.status = 503

\* Whoever asks a profile for what it does not serve is told which capability it
\* was and which profiles serve it, in words that mean the profiles that are
\* listed, each of which serves it.
AdviceHelps(e) ==
    \A body \in IntoResponse(e).envelope :
        e.error = "unsupported_capability" =>
            /\ body.capability = {e.capability}
            /\ Range(body.required) = {p \in Profiles : IsSupported(p, e.capability)}
            /\ Meant(CHOOSE words \in body.message : TRUE) = Range(body.required)

\* A mistake both surfaces know is answered alike on both.
SurfacesAgree ==
    /\ \A error \in RestContractErrors \cap WebSocketContractErrors :
           FromRestContract(error) = FromWebSocketContract(error)
    /\ \A error \in RestContractErrors : Status(FromRestContract(error)) \in {400, 404}
    /\ \A error \in WebSocketContractErrors : Status(FromWebSocketContract(error)) \in {400, 404}
=============================================================================
