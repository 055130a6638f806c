----------------------------- MODULE Capability -----------------------------
(***************************************************************************)
(* Which upstream profile serves which surface: the support matrix of      *)
(* src/realtime/capability.rs and the credential mode of                   *)
(* src/config.rs.  A capability is the surface a classified request        *)
(* belongs to and, within it, the operation or the dialect.                *)
(***************************************************************************)

Profiles == {"apikey_managed", "apikey_client", "chatgpt"}

PrivateDialects == {"v1", "frameless"}
Dialects == PrivateDialects \cup {"official"}

RestOperations ==
    {"create_call", "accept", "reject", "refer", "hangup", "client_secrets", "sessions",
     "transcription_sessions", "translation_client_secrets", "translation_calls"}

WebSocketTargets == {"standalone", "existing_call", "translation"}

PrivateSurfaces ==
    {"private_call_create", "private_standalone", "private_existing_call", "private_alias"}

\* Capability::ALL.
Capabilities ==
    [surface : {"official"}, of : RestOperations \cup WebSocketTargets]
        \cup [surface : PrivateSurfaces, of : PrivateDialects]

\* What the code declares cannot happen: unreachable!() and debug_assert!().
Impossible == [surface |-> "unreachable", of |-> "nothing"]

ManagedAuth(profile) == profile # "apikey_client"

\* configured_credential over UpstreamProfile::credential_mode.
ConfiguredCredential(profile) == IF ManagedAuth(profile) THEN "managed" ELSE "client"

\* Capability::from_rest
FromRest(operation, dialect) ==
    CASE dialect = "official" -> [surface |-> "official", of |-> operation]
      [] dialect # "official" /\ operation = "create_call" ->
             [surface |-> "private_call_create", of |-> dialect]
      [] OTHER -> Impossible

\* An existing call is taken for a private one whatever the dialect.
FromWebSocketSlip(target, dialect) ==
    CASE target = "existing_call" -> [surface |-> "private_existing_call", of |-> dialect]
      [] target # "existing_call" /\ dialect = "official" ->
             [surface |-> "official", of |-> target]
      [] OTHER -> [surface |-> "private_standalone", of |-> dialect]

\* Capability::from_websocket
FromWebSocket(target, dialect) ==
    CASE dialect = "official" -> [surface |-> "official", of |-> target]
      [] dialect # "official" /\ target = "standalone" ->
             [surface |-> "private_standalone", of |-> dialect]
      [] dialect # "official" /\ target = "existing_call" ->
             [surface |-> "private_existing_call", of |-> dialect]
      [] OTHER -> Impossible

\* Capability::private_sideband_alias
PrivateSidebandAlias(dialect) == [surface |-> "private_alias", of |-> dialect]

ApiKeyProfiles == {"apikey_managed", "apikey_client"}
ManagedProfiles == {"apikey_managed", "chatgpt"}
ApiKeyManagedProfile == {"apikey_managed"}

Served(how) == [kind |-> how, required |-> {}]
Unsupported(profiles) == [kind |-> "unsupported", required |-> profiles]

\* Every private surface alike: a ChatGPT client is sent to a profile that
\* cannot serve it, or told to use the one it has.
SupportSlip(profile, capability) ==
    IF capability.surface = "official"
    THEN IF profile = "chatgpt" THEN Unsupported(ApiKeyProfiles) ELSE Served("native")
    ELSE IF profile = "apikey_managed"
            \/ (profile = "chatgpt" /\ capability.surface # "private_standalone")
         THEN Served("adapted")
         ELSE Unsupported(ManagedProfiles)

\* support
Support(profile, capability) ==
    CASE capability.surface = "official" ->
             IF profile \in ApiKeyProfiles THEN Served("native") ELSE Unsupported(ApiKeyProfiles)
      [] capability.surface = "private_standalone" ->
             IF profile = "apikey_managed" THEN Served("adapted")
             ELSE Unsupported(ApiKeyManagedProfile)
      [] OTHER ->
             IF profile = "apikey_client" THEN Unsupported(ManagedProfiles) ELSE Served("adapted")

IsSupported(profile, capability) == Support(profile, capability).kind # "unsupported"
=============================================================================
