------------------------------ MODULE Addresses ------------------------------
(***************************************************************************)
(* Where a request goes, and what it names there.  Five functions of       *)
(* src/live/url.rs, src/live/sideband.rs, src/realtime/http.rs and         *)
(* src/realtime/websocket.rs join the configured base to a path, each in   *)
(* its own way; three readers decode a call id; a model is decoded from    *)
(* one query and encoded into another.                                     *)
(*                                                                         *)
(* A URL is the sequence of its tokens: the scheme as it is written, the   *)
(* slashes, the names between them, and the query.  An identifier is the   *)
(* sequence of its characters, of which a few stand for all: A and B are   *)
(* letters that are hex digits too, z is any other letter, ! must be       *)
(* encoded, and % + and the space have a meaning.                          *)
(***************************************************************************)
EXTENDS Naturals, Sequences, SequencesExt, Checks

CONSTANT MaxCallIdLen

\* https://api.openai.com/v1
SidebandApiRoot == <<"https:", "/", "/", "public_api", "/", "v1">>
AvasQuery == <<"intent", "&", "architecture">>

\* trim_end_matches('/')
TrimEnd(url) == SubSeq(url, 1, SelectLastInSeq(url, LAMBDA token : token # "/"))
EndsInV1(url) == IsSuffix(<<"/", "v1">>, url)

\* The suffix is looked for before the slashes are taken away.
StripV1SuffixSlip(base) ==
    IF EndsInV1(base) THEN SubSeq(base, 1, Len(base) - 2) ELSE TrimEnd(base)

\* strip_v1_suffix
StripV1Suffix(base) ==
    LET trimmed == TrimEnd(base)
    IN  IF EndsInV1(trimmed) THEN SubSeq(trimmed, 1, Len(trimmed) - 2) ELSE trimmed

\* with_avas_query
WithAvasQuery(url) ==
    IF {"intent", "architecture"} \subseteq Range(url) THEN url
    ELSE url \o <<IF "?" \in Range(url) THEN "&" ELSE "?">> \o AvasQuery

\* private_call_create_url
PrivateCallCreateUrl(base, backend, dialect) ==
    IF backend THEN WithAvasQuery(TrimEnd(base) \o <<"/", "realtime", "/", "calls">>)
    ELSE IF dialect = "v1"
    THEN WithAvasQuery(StripV1Suffix(base) \o <<"/", "v1", "/", "realtime", "/", "calls">>)
    ELSE StripV1Suffix(base) \o <<"/", "v1", "/", "live">>

\* official_url of an inbound path, which begins with /v1.
OfficialUrl(base, inbound) ==
    LET trimmed == TrimEnd(base)
    IN  trimmed \o (IF EndsInV1(trimmed) THEN SubSeq(inbound, 3, Len(inbound)) ELSE inbound)

\* to_websocket_scheme, and to_ws_scheme of sideband.rs: both look for the prefix
\* as it is written.
ToWebSocketScheme(url) ==
    CASE url[1] = "https:" -> <<"wss:">> \o Tail(url)
      [] url[1] = "http:" -> <<"ws:">> \o Tail(url)
      [] OTHER -> url

OfficialWebSocketUrl(base, inbound) == ToWebSocketScheme(OfficialUrl(base, inbound))

\* The root both builders of a private join compute.
JoinRoot(base, backend) ==
    IF backend THEN SidebandApiRoot ELSE StripV1Suffix(base) \o <<"/", "v1">>

\* private_websocket_url
PrivateWebSocketUrl(base, backend, dialect, target) ==
    LET root == JoinRoot(base, backend)
    IN  ToWebSocketScheme(
            CASE dialect = "v1" /\ target = "standalone" ->
                     root \o <<"/", "realtime", "?", "intent", "&", "model">>
              [] dialect = "v1" /\ target = "existing_call" ->
                     root \o <<"/", "realtime", "?", "intent", "&", "call_id">>
              [] dialect = "frameless" /\ target = "standalone" ->
                     root \o <<"/", "live", "?", "model">>
              [] OTHER -> root \o <<"/", "live", "/", "id">>)

\* sideband_upstream_url
SidebandUpstreamUrl(base, backend, target) ==
    LET root == JoinRoot(base, backend)
    IN  ToWebSocketScheme(
            CASE target = "FramelessPath" -> root \o <<"/", "live", "/", "id">>
              [] target = "RealtimeCallsPath" ->
                     root \o <<"/", "realtime", "/", "calls", "/", "id">>
              [] OTHER -> root \o <<"/", "realtime", "?", "intent", "&", "call_id">>)

\* upstream_host_of, of a URL without a port.
UpstreamHostOf(url) == url[4]

\* WireAdapter::standalone_ws_path and WireAdapter::sideband_join
StandaloneWsPath(dialect) ==
    IF dialect = "frameless" THEN <<"/", "v1", "/", "live">> ELSE <<"/", "v1", "/", "realtime">>

-----------------------------------------------------------------------------
(* Identifiers *)

HexDigits == {"0", "1", "2", "4", "5", "A", "B"}

\* What two hex digits stand for.  The rows 4 and 5 are the upper-case letters, but for
\* the @ before them and the [ behind; "other" is any control character, punctuation
\* or byte beyond ASCII, which no identifier may hold.
DecodeByte(high, low) ==
    CASE <<high, low>> = <<"2", "5">> -> "%"
      [] <<high, low>> = <<"2", "1">> -> "!"
      [] <<high, low>> = <<"2", "B">> -> "+"
      [] <<high, low>> = <<"2", "0">> -> " "
      [] <<high, low>> = <<"4", "1">> -> "A"
      [] <<high, low>> = <<"4", "2">> -> "B"
      [] high = "4" /\ low \notin {"0", "1", "2"} -> "z"
      [] high = "5" /\ low # "B" -> "z"
      [] OTHER -> "other"

Encoded(char) ==
    CASE char = "%" -> <<"%", "2", "5">>
      [] char = "!" -> <<"%", "2", "1">>
      [] char = "+" -> <<"%", "2", "B">>
      [] char = " " -> <<"%", "2", "0">>
      [] OTHER -> <<char>>

\* Letters, digits, - and _ .
Plain == HexDigits \cup {"z", "-"}

IsEscape(raw, i) ==
    i + 2 <= Len(raw) /\ raw[i + 1] \in HexDigits /\ raw[i + 2] \in HexDigits

\* A turn of percent_decode_str: an escape is one byte, a percent sign that begins none
\* is itself.
DecodeStep(raw, read, i) ==
    CASE read.skip > 0 -> [read EXCEPT !.skip = @ - 1]
      [] read.skip = 0 /\ raw[i] = "%" /\ IsEscape(raw, i) ->
             [out |-> Append(read.out, DecodeByte(raw[i + 1], raw[i + 2])), skip |-> 2]
      [] OTHER -> [read EXCEPT !.out = Append(@, raw[i])]

PercentDecode(raw) ==
    LET read[i \in 0..Len(raw)] ==
            IF i = 0 THEN [out |-> <<>>, skip |-> 0] ELSE DecodeStep(raw, read[i - 1], i)
    IN  read[Len(raw)].out

\* A turn of the scan that decode_call_id and decode_component make before they
\* decode: an escape is skipped, any other percent sign is malformed.
ScanStep(raw, read, i) ==
    CASE read.skip > 0 -> [read EXCEPT !.skip = @ - 1]
      [] read.skip = 0 /\ raw[i] = "%" ->
             IF IsEscape(raw, i) THEN [read EXCEPT !.skip = 2] ELSE [read EXCEPT !.well = FALSE]
      [] OTHER -> read

WellEscaped(raw) ==
    LET read[i \in 0..Len(raw)] ==
            IF i = 0 THEN [well |-> TRUE, skip |-> 0] ELSE ScanStep(raw, read[i - 1], i)
    IN  read[Len(raw)].well

\* A percent sign passes.
ValidateCallIdSlip(decoded) ==
    Len(decoded) \in 1..MaxCallIdLen /\ Range(decoded) \subseteq Plain \cup {"%"}

\* validate_call_id
ValidateCallId(decoded) ==
    Len(decoded) \in 1..MaxCallIdLen /\ Range(decoded) \subseteq Plain

NoId == <<>>

\* decode_call_id and the validation after it, of parse_rest_path.
RestCallId(raw) ==
    IF raw # <<>> /\ WellEscaped(raw) /\ ValidateCallId(PercentDecode(raw))
    THEN PercentDecode(raw) ELSE NoId

\* decode_segment and the validation after it, of parse_sideband_target.
SidebandCallId(raw) ==
    IF ValidateCallId(PercentDecode(raw)) THEN PercentDecode(raw) ELSE NoId

\* decode_component
DecodeComponent(raw) ==
    PercentDecode([i \in DOMAIN raw |-> IF raw[i] = "+" THEN " " ELSE raw[i]])

\* The call_id of a decoded WebSocket query.
QueryCallId(raw) ==
    IF WellEscaped(raw) /\ ValidateCallId(DecodeComponent(raw)) THEN DecodeComponent(raw) ELSE NoId

\* encode_query_component: a space is left a plus sign.
EncodeQueryComponentSlip(value) ==
    FlattenSeq([i \in DOMAIN value |->
        IF value[i] = "+" THEN <<"+">> ELSE Encoded(value[i])])

EncodeQueryComponent(value) == FlattenSeq([i \in DOMAIN value |-> Encoded(value[i])])

-----------------------------------------------------------------------------
(* Properties *)

\* The same host and path for the same call: a base with or without slashes after
\* it, with or without /v1, leads each builder to one place, where /v1 is said
\* once.  The three ways the code removes the suffix agree, a backend is joined
\* at the public API, and the paths are those WireAdapter promises.
AddressesAgree(base, backend) ==
    LET bare == TrimEnd(base)
        root == IF EndsInV1(bare) THEN bare ELSE bare \o <<"/", "v1">>
        joined == IF backend THEN SidebandApiRoot ELSE root
        calls == <<"/", "v1", "/", "realtime", "/", "calls">>
        count(url, token) == Cardinality({i \in DOMAIN url : url[i] = token})
    IN  /\ OfficialUrl(base, calls) = root \o <<"/", "realtime", "/", "calls">>
        /\ OfficialWebSocketUrl(base, <<"/", "v1", "/", "realtime">>)
               = ToWebSocketScheme(root \o <<"/", "realtime">>)
        /\ PrivateCallCreateUrl(base, backend, "v1")
               = (IF backend THEN bare ELSE root) \o <<"/", "realtime", "/", "calls", "?">>
                     \o AvasQuery
        /\ \A dialect \in {"v1", "frameless"} :
               LET create == PrivateCallCreateUrl(base, backend, dialect)
                   socket == PrivateWebSocketUrl(base, backend, dialect, "standalone")
                   wants == dialect = "v1" \/ backend
               IN  /\ \A token \in Range(AvasQuery) \ {"&"} :
                          count(create, token) = (IF wants THEN 1 ELSE 0)
                   /\ UpstreamHostOf(create) = UpstreamHostOf(base)
                   /\ IsPrefix(ToWebSocketScheme(SubSeq(joined, 1, Len(joined) - 2))
                                   \o StandaloneWsPath(dialect), socket)
        /\ \A pair \in {<<"v1", "RealtimeQuery">>, <<"frameless", "FramelessPath">>} :
               PrivateWebSocketUrl(base, backend, pair[1], "existing_call")
                   = SidebandUpstreamUrl(base, backend, pair[2])

\* Three readers of a call id, strict and lenient, one reading: whatever was
\* written, the REST paths and the sideband paths accept the same ids and read
\* the same id, the query, where a plus sign is a space, reads that id too,
\* and an id that is accepted can be written into a URL as it is.
CallIdsAgree(raw) ==
    /\ SidebandCallId(raw) = RestCallId(raw)
    /\ QueryCallId(raw) = RestCallId(raw)
    /\ RestCallId(raw) # NoId => Encoded(RestCallId(raw)[1]) = <<RestCallId(raw)[1]>>
                                 /\ EncodeQueryComponent(RestCallId(raw)) = RestCallId(raw)

\* A model name that was decoded from the client's query and encoded into the
\* upstream's is read there as the client meant it.
ModelSurvives(model) ==
    WellEscaped(EncodeQueryComponent(model)) /\ DecodeComponent(EncodeQueryComponent(model)) = model

\* The builders of a WebSocket URL switch the scheme of every base that startup
\* accepts.  (It accepts every spelling of the two schemes; see the README.)
SocketsSpeakWebSocket(base, backend) ==
    {OfficialWebSocketUrl(base, <<"/", "v1", "/", "realtime">>)[1],
     PrivateWebSocketUrl(base, backend, "v1", "standalone")[1],
     SidebandUpstreamUrl(base, backend, "FramelessPath")[1]} \subseteq {"ws:", "wss:"}
=============================================================================
