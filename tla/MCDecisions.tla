----------------------------- MODULE MCDecisions -----------------------------
(***************************************************************************)
(* The decisions the program takes in one step, on every input of a small  *)
(* domain: a state is one input, and its property is about the answer.     *)
(***************************************************************************)
EXTENDS Headers, Addresses, FrameRecord, CappedBody, ErrorAnswer, WireSession,
        Subprotocol

VARIABLE case

-----------------------------------------------------------------------------
(* Header maps: a plain request of each route, and two of its headers changed *)

Empty == [name \in RequestNames |-> <<>>]
AlphaValues == {<<>>, <<"v1">>, <<"v2">>, <<"v1", "v2">>, <<"v1", "v1">>, <<"bytes">>, <<"blank">>}
TextValues == {<<>>, <<"text">>, <<"blank">>, <<"bytes">>, <<"text", "other">>, <<"blank", "text">>}
AuthorizationValues ==
    {<<form>> : form \in DOMAIN AuthorizationForms} \cup {<<>>, <<"bearer", "bearer">>}
Offered ==
    {<<>>, <<"realtime">>, <<"realtime", "credential">>, <<"organization", "realtime">>,
     <<"realtime", "project", "credential">>}

ValuesOf(name) ==
    CASE name = "openai-alpha" -> AlphaValues
      [] name = "authorization" -> AuthorizationValues
      [] name = "sec-websocket-protocol" -> Offered
      [] OTHER -> TextValues

\* The headers that some route treats in a way of their own.
Distinguished ==
    {"openai-alpha", "authorization", "x-oai-attestation", "content-type", "accept",
     "sec-websocket-protocol", "openai-organization"}

\* An account is read of the chatgpt profile alone.
Upstreams ==
    {u \in [profile : Profiles, token : {"legal", "illegal"},
            account : {"none", "legal", "illegal"}] :
        /\ u.profile # "chatgpt" => u.account = "none"
        /\ u.profile = "apikey_client" => u.token = "legal"}

\* The policy the classifiers agree for a route and a dialect.
Agreed(route, h, profile) ==
    IF DialectOf(h) # "official" THEN {"managed"}
    ELSE IF route = "official" THEN {ConfiguredCredential(profile), "client"}
    ELSE {ConfiguredCredential(profile)}

\* The private builders see only what the classifiers let through: a private
\* dialect, a typed body, and the profile that serves them.
HeadersInit ==
    \E route \in HeaderRoutes, upstream \in Upstreams, alpha \in {<<>>, <<"v1">>, <<"v2">>},
       a \in Distinguished, b \in RequestNames, va \in UNION {ValuesOf(n) : n \in RequestNames},
       vb \in UNION {ValuesOf(n) : n \in RequestNames} :
        LET h == [Empty EXCEPT !["openai-alpha"] = alpha, !["authorization"] = <<"bearer">>,
                               !["content-type"] = <<"text">>, ![a] = va, ![b] = vb]
            private == route \in {"private_call", "sideband"}
        IN  /\ va \in ValuesOf(a) /\ vb \in ValuesOf(b)
            /\ private => /\ DialectOf(h) # "official" /\ upstream.profile = "chatgpt"
                          /\ h["content-type"] # <<>> /\ h["content-type"][1] = "text"
            /\ \E policy \in Agreed(route, h, upstream.profile) :
                   case = [kind |-> "headers", route |-> route, headers |-> h,
                           upstream |-> upstream, policy |-> policy]

\* What the four header builders of the proxy let through is what may cross, and no
\* header the caller repeated is reduced to one of its values.
HeadersCross == case.kind = "headers" => OnlyWhatMayCross(case) /\ NoSilentChoice(case)

-----------------------------------------------------------------------------
(* Offers of up to four tokens in one field or two                          *)

MCMaxProtocolTokenBytes == 25
MCMaxProtocolAggregateBytes == 58

Offer(kind, suffix, secret) == [kind |-> kind, suffix |-> suffix, secret |-> secret]
Offers ==
    {Offer("realtime", 0, FALSE), Offer("unknown", 0, FALSE), Offer("malformed", 1, FALSE),
     Offer("credential", 1, TRUE)}
        \cup {Offer("credential", n, FALSE) : n \in 0..2}
        \cup {Offer("organization", n, FALSE) : n \in 0..2} \cup {Offer("project", 1, FALSE)}

\* With an organization of one byte three tokens are within the aggregate, of two
\* only until they are joined again.
OffersInit ==
    \E tokens \in BoundedSeq(Offers, 4) \ {<<>>}, pad \in 0..1, text, admission \in BOOLEAN :
        \E cut \in 1..Len(tokens) :
            LET first == Field(SubSeq(tokens, 1, cut), pad)
                second == [Field(SubSeq(tokens, cut + 1, Len(tokens)), pad) EXCEPT !.text = text]
            IN  /\ cut = Len(tokens) => text
                /\ case = [kind |-> "offers", admission |-> admission,
                           fields |-> IF cut = Len(tokens) THEN <<first>> ELSE <<first, second>>]

\* The parser of subprotocols reads the offer the client made, and what is sent on
\* is within the rules it was read by, its two caps included.
OffersStand == case.kind = "offers" => OffersAreRead(case.fields, case.admission)

-----------------------------------------------------------------------------
(* Bases with up to two slashes after them, call ids of up to four characters, *)
(* and model names of up to three                                              *)

MCMaxCallIdLen == 2

Base(scheme, path, slashes) ==
    <<scheme, "/", "/", "host">> \o path \o [i \in 1..slashes |-> "/"]
BasePaths ==
    {<<>>, <<"/", "v1">>, <<"/", "v1", "/", "v1">>, <<"/", "gateway">>,
     <<"/", "backend-api", "/", "codex">>, <<"/", "backend-api", "/", "v1">>}
AddressesOf(schemes) ==
    \E scheme \in schemes, path \in BasePaths, slashes \in 0..2 :
        case = [kind |-> "address", base |-> Base(scheme, path, slashes),
                backend |-> "backend-api" \in Range(path)]
AddressesInit == AddressesOf({"https:", "http:"})

IdentifiersInit ==
    \/ \E raw \in BoundedSeq({"%", "4", "1", "2", "z", "!", "+"}, 4) :
           case = [kind |-> "call_id", raw |-> raw]
    \/ \E model \in BoundedSeq({"%", "+", " ", "!", "2", "5", "z"}, 3) :
           case = [kind |-> "model", model |-> model]

\* The URL builders and readers agree: every route of an upstream is under one base,
\* a call id means the same wherever it is decoded, and a model survives a query.
OneAddress ==
    /\ case.kind = "address" => AddressesAgree(case.base, case.backend)
    /\ case.kind = "call_id" => CallIdsAgree(case.raw)
    /\ case.kind = "model" => ModelSurvives(case.model)

\* What startup accepts: the scheme in any letters.
SpellingInit == AddressesOf({"https:", "http:", "HTTPS:"})

\* The URL a WebSocket builder returns for a base that startup accepted is one a
\* WebSocket client can be given.
SocketsAreJoined == case.kind = "address" => SocketsSpeakWebSocket(case.base, case.backend)

-----------------------------------------------------------------------------
(* Payloads of up to five bytes, and every day to the summer of 2101 *)

MaxDay == 48000

PayloadsInit == \E bytes \in BoundedSeq(Bytes, 5) : case = [kind |-> "payload", bytes |-> bytes]
CalendarInit == case = [kind |-> "day", days |-> 0, date |-> <<1970, 1, 1>>, rem |-> 0]

\* The clock goes round all seconds of a day in steps of a prime.
NextDay ==
    /\ case.kind = "day" /\ case.days < MaxDay
    /\ case' = [case EXCEPT !.days = @ + 1, !.date = Tomorrow(@), !.rem = (@ + 7919) % 86400]

\* A log record says which byte of a payload was at fault and when it was written:
\* the first that is not text, and the day and second of the calendar.
LogTellsTheTruth ==
    /\ case.kind = "payload" => FaultIsTheFirst(case.bytes)
    /\ case.kind = "day" => DatesFollowTheCalendar(case.days, case.date, case.rem)

-----------------------------------------------------------------------------
(* Bodies of up to four chunks, and errors of up to three links *)

BodiesInit ==
    \/ \E chunks \in BoundedSeq(0..3, 4), ending \in {<<>>, <<"opaque">>}, cap \in 1..5 :
           case = [kind |-> "body", chunks |-> chunks, ending |-> ending, cap |-> cap]
    \/ \E chain \in BoundedSeq(Links, 3), chunk \in 0..2 :
           case = [kind |-> "body", chunks |-> <<chunk>>, ending |-> chain, cap |-> 1]

\* The readers of a request and of a response body hold what they read to the cap,
\* however it is cut into chunks and however the stream ends.
BodiesAreCapped == case.kind = "body" => CutsDoNotMatter(case.chunks, case.ending, case.cap)

-----------------------------------------------------------------------------
(* Sessions of the three adapters, and histories of up to three items *)

MCMaxInitialItems == 2
MCMaxEstimatedTokens == 3

\* The sessions a caller can build for an adapter.
Built(adapter) ==
    CASE adapter = "V1" -> {V1Session(id) : id \in BOOLEAN}
      [] adapter = "FramelessBidi" -> {FramelessSession}
      [] adapter = "RealtimeV2" ->
             {RealtimeV2Session(kind, rest) :
                 kind \in {"realtime", "transcription"},
                 rest \in [type : Types, delegated : BOOLEAN, id : BOOLEAN]}

SessionsInit ==
    \/ \E adapter \in Adapters : \E session \in Built(adapter) :
           case = [kind |-> "session", adapter |-> adapter, session |-> session]
    \/ \E items \in BoundedSeq(BoundedSeq({0, 1, 4, 5, 12, 13}, 2), 3) :
           case = [kind |-> "history", items |-> items]

\* A session the library builds is read by the proxy as the dialect it was built
\* for, and a history it accepts is within its limits.
SessionsAsBuilt ==
    /\ case.kind = "session" => BuiltSessionsReadBack(case.adapter, case.session)
    /\ case.kind = "history" => HistoryFits(case.items)

-----------------------------------------------------------------------------
(* Every local error, and every capability a profile is asked for in vain *)

ErrorsInit ==
    \E error \in RelayErrors, profile \in Profiles, capability \in Capabilities :
        /\ error = "unsupported_capability" => ~IsSupported(profile, capability)
        /\ case = [kind |-> "error", error |-> error, profile |-> profile,
                   capability |-> capability]

\* The tables of error.rs, which give status, code and advice one by one, never
\* contradict each other.
AnswersAgree == case.kind = "error" => OneVerdict(case) /\ AdviceHelps(case) /\ SurfacesAgree

-----------------------------------------------------------------------------
Init ==
    \/ CalendarInit \/ ErrorsInit \/ SessionsInit \/ BodiesInit \/ PayloadsInit
    \/ AddressesInit \/ IdentifiersInit \/ HeadersInit \/ OffersInit
Next == NextDay
Spec == Init /\ [][Next]_case
SpellingSpec == SpellingInit /\ [][Next]_case
=============================================================================
