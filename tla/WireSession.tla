----------------------------- MODULE WireSession -----------------------------
(***************************************************************************)
(* The three wire adapters of src/wire/mod.rs, the sessions that           *)
(* src/wire/session.rs builds for them, and the call bodies of             *)
(* src/wire/call_body.rs, read back by the proxy's own reader of private   *)
(* bodies (module CallBody).                                               *)
(*                                                                         *)
(* A session is what a reader makes of its JSON: the shape CallBody gives  *)
(* a session, whether it has an id at the top, and the items of its        *)
(* history, each the lengths in bytes of its parts.                        *)
(***************************************************************************)
EXTENDS CallBody

CONSTANTS MaxInitialItems,              \* MAX_INITIAL_ITEMS, 128
          MaxEstimatedTokensPerItem,    \* MAX_ESTIMATED_TOKENS_PER_ITEM, 8192
          MaxEstimatedTokensTotal       \* MAX_ESTIMATED_TOKENS_TOTAL, 8192

ASSUME LimitsAssumption ==
    /\ {MaxInitialItems, MaxEstimatedTokensPerItem, MaxEstimatedTokensTotal} \subseteq Nat \ {0}
    /\ MaxEstimatedTokensPerItem <= MaxEstimatedTokensTotal

Adapters == {"V1", "FramelessBidi", "RealtimeV2"}

\* WireAdapter::openai_alpha and from_openai_alpha
OpenaiAlpha(adapter) ==
    CASE adapter = "V1" -> {"v1"} [] adapter = "FramelessBidi" -> {"v2"} [] OTHER -> {}
FromOpenaiAlpha(alpha) ==
    CASE alpha = "v1" -> {"V1"} [] alpha = "v2" -> {"FramelessBidi"} [] OTHER -> {}

\* WireAdapter::allows_webrtc
AllowsWebrtc(adapter) == adapter # "RealtimeV2"

-----------------------------------------------------------------------------
(* Sessions *)

BytesPerToken == 4

\* InitialItem::estimated_tokens: each part rounded up by itself.
EstimatedTokens(item) ==
    Total([i \in DOMAIN item |-> (item[i] + BytesPerToken - 1) \div BytesPerToken])

Estimate(items) == Total([i \in DOMAIN items |-> EstimatedTokens(items[i])])

\* Only the longest item is held against a limit.
InitialItemsRefusalSlip(items) ==
    FirstRefusal(<<
        <<Len(items) > MaxInitialItems, "too_many_items">>,
        <<\E item \in Range(items) : EstimatedTokens(item) > MaxEstimatedTokensPerItem,
            "item_too_large">>>>)

\* FramelessSession::with_initial_items
InitialItemsRefusal(items) ==
    FirstRefusal(<<
        <<Len(items) > MaxInitialItems, "too_many_items">>,
        <<\E item \in Range(items) : EstimatedTokens(item) > MaxEstimatedTokensPerItem,
            "item_too_large">>,
        <<Estimate(items) > MaxEstimatedTokensTotal, "total_too_large">>>>)

\* The history a session is left with: none for an empty list, never an empty one.
WithInitialItems(session, items) ==
    [session EXCEPT !.items = IF items = <<>> THEN {} ELSE {items}]

Session(type, delegated, id) ==
    [object |-> TRUE, type |-> type, delegated |-> delegated, id |-> id, items |-> {}]

\* FramelessSession::new, which has no type; Delegation::default.
FramelessSession == Session("absent", TRUE, FALSE)

\* V1Session::new, with the id a caller may give it.
V1Session(id) == Session("quicksilver", FALSE, id)

\* The keys of the caller win over the type of the session.
RealtimeV2SessionSlip(kind, rest) ==
    Session(IF rest.type = "absent" THEN kind ELSE rest.type, rest.delegated, rest.id)

\* RealtimeV2Session::new: what the caller adds is kept, but for a type.
RealtimeV2Session(kind, rest) == Session(kind, rest.delegated, rest.id)

-----------------------------------------------------------------------------
(* Call bodies *)

\* The sanitized and strip_session_id of every body.
Sanitized(session) == [session EXCEPT !.id = FALSE]

SdpField == [name |-> "sdp", form |-> "text",
             shape |-> [object |-> FALSE, type |-> "absent", delegated |-> FALSE]]
SessionField(session) ==
    [name |-> "session", form |-> "text",
     shape |-> [object |-> session.object, type |-> session.type,
                delegated |-> session.delegated]]

\* multipart_call_body: the offer, then the session; and the session as it is sent.
MultipartCallBody(session) ==
    [fields |-> <<SdpField, SessionField(Sanitized(session))>>, sent |-> {Sanitized(session)}]

\* A body of JSON is sent as it was given.
BackendJsonCallBodySlip(sessions) ==
    [fields |-> <<SdpField>> \o SetToSeq({SessionField(s) : s \in sessions}), sent |-> sessions]

\* backend_json_call_body, of at most one session; Outbound of CallBody is what
\* the proxy itself makes of a multipart body for such a base.
BackendJsonCallBody(sessions) ==
    [fields |-> <<SdpField>> \o SetToSeq({SessionField(Sanitized(s)) : s \in sessions}),
     sent |-> {Sanitized(s) : s \in sessions}]

-----------------------------------------------------------------------------
(* Properties *)

DialectOfAdapter(adapter) ==
    CASE adapter = "V1" -> "v1" [] adapter = "FramelessBidi" -> "frameless" [] OTHER -> "official"

\* A session built for an adapter, sent in either body, is read back by the proxy
\* as that adapter's dialect and no other: no key a caller adds turns a session
\* into one of another kind, and a body without an id is what both builders send.
\* What WebRTC does not allow is what a private call refuses.
BuiltSessionsReadBack(adapter, session) ==
    LET multipart == MultipartCallBody(session)
        backend == BackendJsonCallBody({session})
        parsed == Parse(multipart.fields)
        evidence == Evidence(parsed)
    IN  /\ parsed.error = "none" /\ ~HasDuplicateContractFields(parsed)
        /\ multipart.sent = backend.sent /\ \A s \in multipart.sent : ~s.id
        /\ Outbound([profile |-> "chatgpt", backend |-> TRUE], multipart.fields) = backend.fields
        /\ \A dialect \in PrivateDialects :
               Agrees(dialect, evidence) <=>
                   AllowsWebrtc(adapter) /\ dialect = DialectOfAdapter(adapter)
        /\ FromOpenaiAlpha("v1") \cup FromOpenaiAlpha("v2") = {a \in Adapters : AllowsWebrtc(a)}
        /\ \A alpha \in OpenaiAlpha(adapter) : FromOpenaiAlpha(alpha) = {adapter}

\* A history that is attached fits all three limits, by the bytes it holds, and
\* one that is refused is told the first limit it breaks; one attached before does
\* not outlive an empty one.
HistoryFits(items) ==
    LET refusal == InitialItemsRefusal(items)
        bytes == Total([i \in DOMAIN items |-> Total(items[i])])
        kept == WithInitialItems([FramelessSession EXCEPT !.items = {<<<<1>>>>}], items).items
    IN  /\ refusal = "none" =>
               /\ Len(items) <= MaxInitialItems
               /\ bytes <= BytesPerToken * MaxEstimatedTokensTotal
               /\ kept = IF items = <<>> THEN {} ELSE {items}
        /\ refusal = "item_too_large" => Len(items) <= MaxInitialItems
        /\ refusal = "total_too_large" => Len(items) \in 2..MaxInitialItems
=============================================================================
