-------------------------- MODULE MCRouteContract --------------------------
(* Every profile, with either shape of base URL, and requests by families: the *)
(* fields a family does not vary are those its handler does not read, or reads *)
(* in another family.                                                          *)
EXTENDS RouteContract

MCUpstreams == [profile : Profiles, backend : BOOLEAN]

Plain ==
    [path |-> "elsewhere", method |-> "POST", callId |-> "valid", alpha |-> <<>>,
     contentType |-> <<>>, authorization |-> "none", metadata |-> "fine", upgrade |-> "none",
     query |-> "fine", models |-> <<>>, callIds |-> <<>>, offered |-> <<>>]

MCAlphas ==
    {<<>>, <<"v1">>, <<"v2">>, <<"text">>, <<"bytes">>,
     <<"v1", "v1">>, <<"v1", "v2">>, <<"text", "v2">>}
MCContentTypes ==
    {<<>>, <<"multipart">>, <<"multipart_unbound">>, <<"sdp">>, <<"json">>, <<"malformed">>,
     <<"multipart", "sdp">>, <<"sdp", "sdp">>}
MCOffers ==
    {<<>>, <<"realtime">>, <<"realtime", "credential">>, <<"credential">>,
     <<"credential", "organization", "realtime">>, <<"realtime", "realtime">>,
     <<"realtime", "organization">>, <<"realtime", "unknown">>}
Authorizations == {"none", "bearer", "malformed", "bytes", "repeated"}
Metadata == {"fine", "organization", "repeated", "undecodable"}

\* Probes of every path, and the REST calls.
Probes ==
    {[Plain EXCEPT !.path = p, !.method = m, !.callId = c, !.alpha = a] :
        p \in RestPaths \cup SocketPaths \cup AliasPaths \cup {"elsewhere"},
        m \in {"GET", "POST"}, c \in {"valid", "invalid"}, a \in MCAlphas}

RestCalls ==
    {[Plain EXCEPT !.path = p, !.alpha = a, !.contentType = c, !.authorization = h,
                   !.metadata = m] :
        p \in RestPaths, a \in MCAlphas, c \in MCContentTypes, h \in Authorizations,
        m \in Metadata}

\* Sockets by their selectors, and by their headers.
Selectors ==
    {[Plain EXCEPT !.path = p, !.method = "GET", !.upgrade = u, !.alpha = a, !.query = q,
                   !.models = m, !.callIds = c, !.authorization = "bearer"] :
        p \in SocketPaths, u \in {"none", "announced", "complete"}, a \in MCAlphas,
        q \in {"fine", "malformed"},
        m \in {<<>>, <<"named">>, <<"blank">>, <<"named", "named">>},
        c \in {<<>>, <<"valid">>, <<"invalid">>, <<"valid", "valid">>}}

Handshakes ==
    {[Plain EXCEPT !.path = p, !.method = "GET", !.upgrade = "complete", !.alpha = a,
                   !.models = <<"named">>, !.callIds = c, !.authorization = h, !.metadata = m,
                   !.offered = o] :
        p \in SocketPaths, a \in MCAlphas, c \in {<<>>, <<"valid">>}, h \in Authorizations,
        m \in Metadata, o \in MCOffers}

Joins ==
    {[Plain EXCEPT !.path = p, !.method = m, !.upgrade = u, !.alpha = a, !.metadata = h,
                   !.offered = o, !.authorization = c] :
        p \in AliasPaths, m \in {"GET", "POST"}, u \in {"none", "announced", "complete"},
        a \in MCAlphas, h \in Metadata, o \in MCOffers, c \in {"none", "repeated"}}

MCRequests == Probes \cup RestCalls \cup Selectors \cup Handshakes \cup Joins

Field(name, form, type, delegated) ==
    [name |-> name, form |-> form,
     shape |-> [object |-> TRUE, type |-> type, delegated |-> delegated]]

MCFields ==
    {Field("sdp", "text", "absent", FALSE), Field("sdp", "file", "absent", FALSE),
     Field("session", "text", "absent", FALSE), Field("session", "text", "quicksilver", FALSE),
     Field("session", "text", "realtime", FALSE),
     Field("session", "text", "transcription", FALSE),
     Field("session", "text", "absent", TRUE), Field("session", "text", "quicksilver", TRUE),
     Field("session", "bytes", "absent", FALSE), Field("session", "not_json", "absent", FALSE),
     Field("unparsable", "text", "absent", FALSE)}

MCBodies == UNION {[1 .. n -> MCFields] : n \in 0 .. 2}
    \cup {<<s>> \o two : s \in {Field("sdp", "text", "absent", FALSE)}, two \in [1 .. 2 -> MCFields]}
=============================================================================
