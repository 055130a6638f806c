------------------------------ MODULE CallBody ------------------------------
(***************************************************************************)
(* The body of a private call-create: the one pass over the multipart      *)
(* fields of src/live/body.rs, what src/realtime/chatgpt.rs reads from the *)
(* session, and what src/live/call_create.rs does with both.               *)
(*                                                                         *)
(* A field has a name and a form; a session field also has a shape, the    *)
(* two markers the proxy looks for in its JSON: the top-level "type" and   *)
(* a delegation to the client.  A body is a sequence of fields.            *)
(***************************************************************************)
EXTENDS Naturals, Sequences, SequencesExt, Capability, Checks

\* "unparsable" is the place where the multipart reader gives up.
FieldNames == {"sdp", "session", "other", "unparsable"}
Forms == {"text", "file", "bytes", "not_json"}
Types == {"absent", "quicksilver", "realtime", "transcription", "unknown"}
Shapes == [object : BOOLEAN, type : Types, delegated : BOOLEAN]
Fields == [name : FieldNames, form : Forms, shape : Shapes]

\* The fields of a name, and the first of them, if there is one.
FieldsNamed(body, name) == {i \in DOMAIN body : body[i].name = name}
FirstNamed(body, name) ==
    IF FieldsNamed(body, name) = {} THEN <<>> ELSE <<body[Min(FieldsNamed(body, name))]>>

\* What a turn of the loop of parse_private_multipart fails with: the first field of
\* a name is read, a later one only counted.
FieldError(body, i) ==
    LET unread == /\ \A j \in FieldsNamed(body, body[i].name) : i <= j
                  /\ body[i].form \in {"file", "bytes"}
    IN  CASE body[i].name = "unparsable" -> "multipart_parse"
          [] body[i].name = "sdp" /\ unread -> "missing_sdp"
          [] body[i].name = "session" /\ unread -> "session_not_string"
          [] OTHER -> "none"

\* The first turn that fails ends the loop.
LoopError(body) ==
    FirstRefusal([i \in DOMAIN body |-> <<FieldError(body, i) # "none", FieldError(body, i)>>])

\* The error of parse_private_multipart.
ParseError(body) ==
    FirstRefusal(<<
        <<LoopError(body) # "none", LoopError(body)>>,
        <<FieldsNamed(body, "sdp") = {}, "missing_sdp">>,
        <<\E f \in Range(FirstNamed(body, "session")) : f.form = "not_json",
            "session_not_json">>>>)

\* parse_private_multipart.  The counts are looked at only when nothing is an error,
\* and then the loop has turned for every field.
Parse(body) ==
    [sdps |-> Cardinality(FieldsNamed(body, "sdp")),
     sessions |-> Cardinality(FieldsNamed(body, "session")),
     session |-> FirstNamed(body, "session"),
     error |-> ParseError(body)]

\* Only a second sdp is suspicious: the second session is what an upstream that
\* keeps the last one believes.
HasDuplicateContractFieldsSlip(parsed) == parsed.sdps > 1

\* has_duplicate_contract_fields
HasDuplicateContractFields(parsed) == parsed.sdps > 1 \/ parsed.sessions > 1

\* classify_session of a session that is there.
ClassifySession(shape) ==
    CASE ~shape.object -> "opaque"
      [] shape.object /\ shape.delegated ->
             IF shape.type = "absent" THEN "frameless" ELSE "contradictory"
      [] shape.object /\ ~shape.delegated ->
             IF shape.type \in {"quicksilver", "realtime", "transcription"}
             THEN shape.type ELSE "opaque"

\* classify_session of what was parsed.
Evidence(parsed) ==
    IF parsed.session = <<>> THEN "absent" ELSE ClassifySession(parsed.session[1].shape)

\* validate_session: does the session speak the dialect that was negotiated?
Agrees(dialect, evidence) ==
    \/ evidence \in {"absent", "opaque"}
    \/ evidence = "quicksilver" /\ dialect = "v1"
    \/ evidence = "frameless" /\ dialect = "frameless"

\* The refusals of handle_call_create between the body and the upstream.  An
\* official session under ChatGPT is an operation that profile does not support.
BodyRefusal(upstream, dialect, body) ==
    LET parsed == Parse(body)
        chatgpt == upstream.profile = "chatgpt"
    IN  FirstRefusal(<<
            <<(chatgpt \/ upstream.backend) /\ parsed.error # "none", parsed.error>>,
            <<chatgpt /\ HasDuplicateContractFields(parsed), "invalid_session_shape">>,
            <<chatgpt /\ Evidence(parsed) \in {"realtime", "transcription"},
                "unsupported_capability">>,
            <<chatgpt /\ ~Agrees(dialect, Evidence(parsed)), "invalid_session_shape">>>>)

\* What is sent: the bytes as they came, or a JSON object of the first sdp and
\* the first session.
Outbound(upstream, body) ==
    IF upstream.backend
    THEN FirstNamed(body, "sdp") \o Parse(body).session
    ELSE body
=============================================================================
