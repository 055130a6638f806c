----------------------------- MODULE Subprotocol -----------------------------
(***************************************************************************)
(* The subprotocols a client offers: parse of src/realtime/subprotocol.rs. *)
(*                                                                         *)
(* The header is a sequence of fields.  A field is not text, or is a list  *)
(* of tokens with some blanks after each comma; a token is its kind, which *)
(* is what its prefix says, the length of its suffix, and whether the      *)
(* suffix is the admission token.                                          *)
(***************************************************************************)
EXTENDS Naturals, Sequences, SequencesExt, Checks

CONSTANTS MaxProtocolTokenBytes,      \* MAX_PROTOCOL_TOKEN_BYTES, 4096
          MaxProtocolAggregateBytes   \* MAX_PROTOCOL_AGGREGATE_BYTES, 8192

ASSUME ProtocolLimitsAssumption == {MaxProtocolTokenBytes, MaxProtocolAggregateBytes} \subseteq Nat

\* The lengths of REALTIME and of the prefixes.
NameBytes == [realtime |-> 8, credential |-> 24, organization |-> 20, project |-> 15]
Named == DOMAIN NameBytes

\* "unknown" is a token without a known prefix, "malformed" one with a byte that no
\* token has.  An empty piece between two commas is unknown and has no length.
OfferKinds == Named \cup {"unknown", "malformed"}

TokenBytes(token) ==
    token.suffix + (IF token.kind \in Named THEN NameBytes[token.kind] ELSE 0)

\* The length of a field as it was sent.
FieldBytes(field) ==
    Total([i \in DOMAIN field.tokens |-> TokenBytes(field.tokens[i])])
        + (Len(field.tokens) - 1) * (1 + field.pad)

\* The separators are counted as the commas alone.
CanonicalBytesSlip(offered) ==
    Total([i \in DOMAIN offered |-> TokenBytes(offered[i]) + (IF i = 1 THEN 0 ELSE 1)])

\* The length of the tokens joined by ", ".
CanonicalBytes(offered) ==
    Total([i \in DOMAIN offered |-> TokenBytes(offered[i]) + (IF i = 1 THEN 0 ELSE 2)])

NothingOffered == [error |-> "none", aggregate |-> 0, offered |-> <<>>]
Seen(state, kind) == \E token \in Range(state.offered) : token.kind = kind

\* The whole token is held against the admission token.
TakeOfferSlip(state, token, admission) ==
    LET refusal == FirstRefusal(<<
            <<TokenBytes(token) \notin 1..MaxProtocolTokenBytes, "invalid_subprotocol">>,
            <<token.kind \notin Named \/ Seen(state, token.kind), "invalid_subprotocol">>,
            <<token.kind # "realtime" /\ token.suffix = 0, "invalid_subprotocol">>>>)
    IN  IF state.error # "none" THEN state
        ELSE IF refusal # "none" THEN [state EXCEPT !.error = refusal]
        ELSE [state EXCEPT !.offered = Append(@, token)]

\* One token: whole, known, the only one of its kind, and no admission secret.
TakeOffer(state, token, admission) ==
    LET refusal == FirstRefusal(<<
            <<TokenBytes(token) \notin 1..MaxProtocolTokenBytes, "invalid_subprotocol">>,
            <<token.kind \notin Named \/ Seen(state, token.kind), "invalid_subprotocol">>,
            <<token.kind # "realtime" /\ token.suffix = 0, "invalid_subprotocol">>,
            <<token.kind = "credential" /\ admission /\ token.secret,
                "admission_secret_not_forwardable">>>>)
    IN  IF state.error # "none" THEN state
        ELSE IF refusal # "none" THEN [state EXCEPT !.error = refusal]
        ELSE [state EXCEPT !.offered = Append(@, token)]

\* The tokens of a field in their order.
TakeOffers(state, tokens, admission) ==
    LET taken[n \in 0..Len(tokens)] ==
            IF n = 0 THEN state ELSE TakeOffer(taken[n - 1], tokens[n], admission)
    IN  taken[Len(tokens)]

\* One field: its length first, then its tokens.
TakeField(state, field, admission) ==
    LET aggregate == state.aggregate + FieldBytes(field)
    IN  IF state.error # "none" THEN state
        ELSE IF ~field.text \/ aggregate > MaxProtocolAggregateBytes
        THEN [state EXCEPT !.error = "invalid_subprotocol"]
        ELSE TakeOffers([state EXCEPT !.aggregate = aggregate], field.tokens, admission)

TakeFields(fields, admission) ==
    LET taken[n \in 0..Len(fields)] ==
            IF n = 0 THEN NothingOffered ELSE TakeField(taken[n - 1], fields[n], admission)
    IN  taken[Len(fields)]

\* parse: what is offered is also what is sent upstream, joined by ", ".
ParseOffers(fields, admission) ==
    LET taken == TakeFields(fields, admission)
        refusal == FirstRefusal(<<
            <<taken.error # "none", taken.error>>,
            <<taken.offered # <<>> /\ ~Seen(taken, "realtime"), "invalid_subprotocol">>,
            <<CanonicalBytes(taken.offered) > MaxProtocolAggregateBytes,
                "invalid_subprotocol">>>>)
    IN  [error |-> refusal, offered |-> IF refusal = "none" THEN taken.offered ELSE <<>>]

-----------------------------------------------------------------------------
(* Properties *)

Field(tokens, pad) == [text |-> TRUE, tokens |-> tokens, pad |-> pad]

\* How the client spreads its tokens over fields decides nothing, and blanks can
\* only make them too long: what is offered is the tokens in the order they came.
\* The one field that is sent upstream, with a blank after each comma, keeps the
\* rules the proxy imposes, its length included: a second proxy of this kind
\* reads the same offer in it.  And no credential that goes upstream is the
\* admission token.
OffersAreRead(fields, admission) ==
    LET tokens == FlattenSeq([i \in DOMAIN fields |-> fields[i].tokens])
        read == ParseOffers(fields, admission)
        plain == \A field \in Range(fields) : field.text /\ field.pad = 0
    IN  /\ (read.error = "none" /\ tokens # <<>>) =>
               /\ read.offered = tokens
               /\ ParseOffers(<<Field(tokens, 0)>>, admission) = read
               /\ ParseOffers(<<Field(read.offered, 1)>>, admission) = read
               /\ \A token \in Range(tokens) :
                      token.kind = "credential" => ~(admission /\ token.secret)
        /\ (read.error # "none" /\ plain) =>
               ParseOffers(<<Field(tokens, 0)>>, admission).error # "none"
=============================================================================
