------------------------------- MODULE Startup -------------------------------
(***************************************************************************)
(* From the environment to a serving process: Config::from_source of       *)
(* src/config.rs, AppState::new of src/app.rs, the start of src/main.rs,   *)
(* and the readiness probe, which reads the drain flag and the two pools   *)
(* one after the other while requests come and go.                         *)
(*                                                                         *)
(* A setting is abstracted to the class of its text: unset, blank, junk,   *)
(* not valid Unicode (which std::env::var reports like unset), or one of   *)
(* the texts the code tells apart.  A limit also has its value.            *)
(***************************************************************************)
EXTENDS Naturals, Sequences, SequencesExt, Capability, Checks

CONSTANTS
    Environments,  \* the environments the process may be started in
    Defaults,      \* the built-in limits, by key
    MaxUsize,      \* usize::MAX, and u64::MAX
    MaxPermits,    \* tokio::sync::Semaphore::MAX_PERMITS
    Overhead       \* MAX_WEBSOCKET_FRAME_OVERHEAD

ByteLimits == {"REQUEST_MAX_BYTES", "RESPONSE_MAX_BYTES"}
PoolLimits == {"MAX_REQUESTS", "MAX_CONNECTIONS"}
Deadlines ==
    {"REQUEST_READ_TIMEOUT_MS", "UPSTREAM_TIMEOUT_MS", "WS_CONNECT_TIMEOUT_MS",
     "WS_SEND_TIMEOUT_MS"}
LimitKeys == ByteLimits \cup PoolLimits \cup Deadlines
                 \cup {"WS_FRAME_MAX_BYTES", "WS_IDLE_TIMEOUT_MS"}

\* What each textual setting may hold.  "upper" is a base whose scheme is written
\* in capitals, "backend" one with /backend-api in it.
BadBases == {"blank", "junk", "other_scheme", "no_host", "query", "userinfo"}
Texts == [
    BIND            |-> {"unset", "not_unicode", "junk", "loopback", "public"},
    CREDENTIAL_MODE |-> {"unset", "not_unicode", "junk", "managed", "client"},
    UPSTREAM_MODE   |-> {"unset", "not_unicode", "junk", "chatgpt", "apikey"},
    BASE_URL        |-> {"unset", "not_unicode", "plain", "backend", "upper"} \cup BadBases,
    TOKEN           |-> {"unset", "not_unicode", "blank", "token"},
    ACCOUNT_ID      |-> {"unset", "not_unicode", "blank", "account"},
    FRAME_LOG       |-> {"unset", "not_unicode", "blank", "a.log"},
    FRAME_LOG_ALIAS |-> {"unset", "not_unicode", "blank", "b.log"},
    API_KEY         |-> {"unset", "not_unicode", "blank", "key"}]
TextKeys == DOMAIN Texts

\* GPT_LIVE_CORS_ORIGINS is the sequence of its comma separated pieces.
Pieces == {"blank", "origin"}

\* A limit is written as a number, or not.
Numbers == [form : {"unset", "not_unicode", "junk", "number"}, value : Nat]

Environment ==
    {e \in [text : [TextKeys -> UNION {Texts[key] : key \in TextKeys}],
            limits : [LimitKeys -> Numbers],
            origins : Seq(Pieces)] :
        \A key \in TextKeys : e.text[key] \in Texts[key]}

ASSUME EnvironmentsAssumption == Environments \subseteq Environment

ASSUME SizesAssumption ==
    /\ MaxUsize \in Nat /\ Overhead \in 1..(MaxUsize - 1) /\ MaxPermits \in 1..MaxUsize
    \* The constants at the head of config.rs are within their own limits.
    /\ DOMAIN Defaults = LimitKeys
    /\ \A key \in PoolLimits : Defaults[key] \in 1..MaxPermits
    /\ Defaults["WS_FRAME_MAX_BYTES"] \in 1..(MaxUsize - Overhead)
    /\ \A key \in ByteLimits \cup Deadlines : Defaults[key] \in 1..MaxUsize
    /\ Defaults["WS_IDLE_TIMEOUT_MS"] \in 0..MaxUsize

\* Config::from_env: std::env::var(key).ok()
Get(env, key) ==
    IF env.text[key] = "not_unicode" THEN "unset" ELSE env.text[key]

\* Trimmed, and nothing when nothing is left.
Present(env, key) == Get(env, key) \notin {"unset", "blank"}

FrameLogKeys == <<"FRAME_LOG", "FRAME_LOG_ALIAS">>

\* The frame_log of from_source: the first setting of the two that says something.
ConfiguredFrameLog(env) ==
    LET told == SelectSeq(FrameLogKeys, LAMBDA key : Present(env, key))
    IN  IF told = <<>> THEN "none" ELSE Get(env, told[1])

\* A blank primary setting hides the alias.
FrameLogPathSlip(env) ==
    LET set == SelectSeq(FrameLogKeys, LAMBDA key : Get(env, key) # "unset")
    IN  IF set = <<>> \/ ~Present(env, set[1]) THEN "none" ELSE Get(env, set[1])

\* FrameLogger::from_source, which reads the same settings for itself.
FrameLogPath(env) ==
    LET told == SelectSeq(FrameLogKeys, LAMBDA key : Present(env, key))
    IN  IF told = <<>> THEN "none" ELSE Get(env, told[1])

CredentialMode(env) ==
    IF Get(env, "CREDENTIAL_MODE") = "client" THEN "client" ELSE "managed"
UpstreamMode(env) ==
    IF Get(env, "UPSTREAM_MODE") = "apikey" THEN "apikey" ELSE "chatgpt"

\* UpstreamProfile
Profile(env) ==
    CASE UpstreamMode(env) = "chatgpt" -> "chatgpt"
      [] UpstreamMode(env) = "apikey" /\ CredentialMode(env) = "managed" -> "apikey_managed"
      [] OTHER -> "apikey_client"

\* The default base of the profile, or the one given: is it a backend base?
UsesBackendShape(env) ==
    IF Get(env, "BASE_URL") = "unset" THEN Profile(env) = "chatgpt"
    ELSE Get(env, "BASE_URL") = "backend"

\* What positive_usize, positive_semaphore_permits, positive_websocket_frame_bytes,
\* positive_millis and nonnegative_millis let through.
Allowed(key) ==
    CASE key \in PoolLimits -> 1..MaxPermits
      [] key = "WS_FRAME_MAX_BYTES" -> 1..(MaxUsize - Overhead)
      [] key \in ByteLimits \cup Deadlines -> 1..MaxUsize
      [] key = "WS_IDLE_TIMEOUT_MS" -> 0..MaxUsize

IsSet(number) == number.form \notin {"unset", "not_unicode"}

LimitRefused(env, key) ==
    LET number == env.limits[key]
    IN  IsSet(number) /\ (number.form = "junk" \/ number.value \notin Allowed(key))

\* The limit a helper returns.
Limit(env, key) == IF IsSet(env.limits[key]) THEN env.limits[key].value ELSE Defaults[key]

\* The limits in the order of the struct literal that reads them, each with the
\* key its refusal names.
LimitChecksSlip(env) ==
    LET check(key, named) == <<LimitRefused(env, key), named>>
    IN  <<check("REQUEST_MAX_BYTES", "REQUEST_MAX_BYTES"),
          check("RESPONSE_MAX_BYTES", "RESPONSE_MAX_BYTES"),
          check("WS_FRAME_MAX_BYTES", "WS_FRAME_MAX_BYTES"),
          check("MAX_REQUESTS", "MAX_REQUESTS"), check("MAX_CONNECTIONS", "MAX_REQUESTS"),
          check("REQUEST_READ_TIMEOUT_MS", "REQUEST_READ_TIMEOUT_MS"),
          check("UPSTREAM_TIMEOUT_MS", "UPSTREAM_TIMEOUT_MS"),
          check("WS_CONNECT_TIMEOUT_MS", "WS_CONNECT_TIMEOUT_MS"),
          check("WS_SEND_TIMEOUT_MS", "WS_SEND_TIMEOUT_MS"),
          check("WS_IDLE_TIMEOUT_MS", "WS_IDLE_TIMEOUT_MS")>>

LimitChecks(env) ==
    LET check(key, named) == <<LimitRefused(env, key), named>>
    IN  <<check("REQUEST_MAX_BYTES", "REQUEST_MAX_BYTES"),
          check("RESPONSE_MAX_BYTES", "RESPONSE_MAX_BYTES"),
          check("WS_FRAME_MAX_BYTES", "WS_FRAME_MAX_BYTES"),
          check("MAX_REQUESTS", "MAX_REQUESTS"), check("MAX_CONNECTIONS", "MAX_CONNECTIONS"),
          check("REQUEST_READ_TIMEOUT_MS", "REQUEST_READ_TIMEOUT_MS"),
          check("UPSTREAM_TIMEOUT_MS", "UPSTREAM_TIMEOUT_MS"),
          check("WS_CONNECT_TIMEOUT_MS", "WS_CONNECT_TIMEOUT_MS"),
          check("WS_SEND_TIMEOUT_MS", "WS_SEND_TIMEOUT_MS"),
          check("WS_IDLE_TIMEOUT_MS", "WS_IDLE_TIMEOUT_MS")>>

\* The first ConfigError of from_source, by the key it names: the texts, then the
\* limits.
TextError(env) ==
    LET upstream == Get(env, "UPSTREAM_MODE")
    IN  FirstRefusal(<<
            <<Get(env, "BIND") = "junk", "BIND">>,
            <<Get(env, "CREDENTIAL_MODE") = "junk", "CREDENTIAL_MODE">>,
            <<upstream = "junk", "UPSTREAM_MODE">>,
            <<UpstreamMode(env) = "chatgpt" /\ CredentialMode(env) = "client",
                "CREDENTIAL_MODE">>,
            <<Get(env, "BASE_URL") \in BadBases, "BASE_URL">>,
            <<ManagedAuth(Profile(env)) /\ ~Present(env, "TOKEN"), "TOKEN">>>>)

ConfigError(env) ==
    IF TextError(env) # "none" THEN TextError(env) ELSE FirstRefusal(LimitChecks(env))

\* The Config that from_source returns when it returns one.
Settled(env) ==
    [profile |-> Profile(env), backend |-> UsesBackendShape(env),
     loopback |-> Get(env, "BIND") # "public",
     account |-> Profile(env) = "chatgpt" /\ Present(env, "ACCOUNT_ID"),
     admission |-> Present(env, "API_KEY"),
     frame_log |-> ConfiguredFrameLog(env),
     origins |-> SelectSeq(env.origins, LAMBDA piece : piece # "blank"),
     limits |-> [key \in LimitKeys |-> Limit(env, key)]]

-----------------------------------------------------------------------------
VARIABLES
    env,      \* the environment of the process
    stage,    \* how far main has come
    error,    \* why it went no further: the key at fault, "client" or "listener"
    config,   \* <<>>, or the Config as a sequence of one
    log_path, \* the path the frame logger of AppState writes to
    free,     \* available permits of the two pools
    draining, \* DrainState
    probe     \* one readiness probe: how far it is, and what has been so meanwhile

vars == <<env, stage, error, config, log_path, free, draining, probe>>

Pools == {"requests", "connections"}
PoolSize(pool) ==
    config[1].limits[IF pool = "requests" THEN "MAX_REQUESTS" ELSE "MAX_CONNECTIONS"]

\* Why a process should receive no new traffic.
Obstacles == {"draining"} \cup Pools
ObstaclesNow(flag, permits) ==
    (IF flag THEN {"draining"} ELSE {}) \cup {pool \in Pools : permits[pool] = 0}

NoProbe == [at |-> "idle", always |-> {}, ever |-> {}, answer |-> "none"]

\* A probe under way remembers which obstacles were there all along, and which
\* were there at all.
Witness(p, flag, permits) ==
    IF p.at = "idle" THEN p
    ELSE [p EXCEPT !.always = @ \cap ObstaclesNow(flag, permits),
                   !.ever = @ \cup ObstaclesNow(flag, permits)]

Init ==
    /\ env \in Environments
    /\ stage = "configure" /\ error = "none" /\ config = <<>> /\ log_path = "none"
    /\ free = [pool \in Pools |-> 0] /\ draining = FALSE /\ probe = NoProbe

Fail(why) == stage' = "failed" /\ error' = why

\* Config::from_env in main.
Configure ==
    /\ stage = "configure"
    /\ \/ ConfigError(env) # "none" /\ Fail(ConfigError(env)) /\ UNCHANGED config
       \/ /\ ConfigError(env) = "none"
          /\ config' = <<Settled(env)>> /\ stage' = "build" /\ UNCHANGED error
    /\ UNCHANGED <<env, log_path, free, draining, probe>>

\* AppState::new, and FrameLogger::from_env_owned in it, which reads the
\* environment a second time.
BuildState ==
    /\ stage = "build"
    /\ \/ Fail("client") /\ UNCHANGED <<log_path, free>>
       \/ /\ free' = [pool \in Pools |-> PoolSize(pool)]
          /\ log_path' = FrameLogPath(env)
          /\ stage' = "listen" /\ UNCHANGED error
    /\ UNCHANGED <<env, config, draining, probe>>

\* TcpListener::bind, then axum::serve.
Listen ==
    /\ stage = "listen"
    /\ \/ Fail("listener")
       \/ stage' = "serving" /\ UNCHANGED error
    /\ UNCHANGED <<env, config, log_path, free, draining, probe>>

\* The handlers take and give back permits; one that was let in before the signal
\* may take its permit after it.
TakePermit(pool) ==
    /\ stage = "serving" /\ free[pool] > 0
    /\ free' = [free EXCEPT ![pool] = @ - 1]
    /\ probe' = Witness(probe, draining, free')
    /\ UNCHANGED <<env, stage, error, config, log_path, draining>>

ReturnPermit(pool) ==
    /\ stage = "serving" /\ free[pool] < PoolSize(pool)
    /\ free' = [free EXCEPT ![pool] = @ + 1]
    /\ probe' = Witness(probe, draining, free')
    /\ UNCHANGED <<env, stage, error, config, log_path, draining>>

\* The graceful-shutdown future of main.
BeginDrain ==
    /\ stage = "serving" /\ ~draining
    /\ draining' = TRUE
    /\ probe' = Witness(probe, TRUE, free)
    /\ UNCHANGED <<env, stage, error, config, log_path, free>>

ProbeArrives ==
    /\ stage = "serving" /\ probe.at = "idle"
    /\ probe' = [at |-> "draining", always |-> ObstaclesNow(draining, free),
                 ever |-> ObstaclesNow(draining, free), answer |-> "none"]
    /\ UNCHANGED <<env, stage, error, config, log_path, free, draining>>

\* readyz reads one condition, and goes on to the next or answers.  The slip
\* forgets the pool of connections.
ProbeReadsSlip ==
    LET order == <<"draining", "requests">>
        obstructed == probe.at \in ObstaclesNow(draining, free)
        last == probe.at = order[Len(order)]
    IN  /\ probe.at \in Range(order)
        /\ probe' = IF obstructed THEN [probe EXCEPT !.at = "idle", !.answer = "not_ready"]
                    ELSE IF last THEN [probe EXCEPT !.at = "idle", !.answer = "ready"]
                    ELSE [probe EXCEPT !.at = "requests"]
        /\ UNCHANGED <<env, stage, error, config, log_path, free, draining>>

ProbeReads ==
    LET order == <<"draining", "requests", "connections">>
        obstructed == probe.at \in ObstaclesNow(draining, free)
        last == probe.at = order[Len(order)]
    IN  /\ probe.at \in Range(order)
        /\ probe' = IF obstructed THEN [probe EXCEPT !.at = "idle", !.answer = "not_ready"]
                    ELSE IF last THEN [probe EXCEPT !.at = "idle", !.answer = "ready"]
                    ELSE [probe EXCEPT !.at = IF @ = "draining" THEN "requests"
                                              ELSE "connections"]
        /\ UNCHANGED <<env, stage, error, config, log_path, free, draining>>

\* A process that failed has exited.
Next ==
    \/ Configure \/ BuildState \/ Listen
    \/ \E pool \in Pools : TakePermit(pool) \/ ReturnPermit(pool)
    \/ BeginDrain \/ ProbeArrives \/ ProbeReads

Spec == Init /\ [][Next]_vars
-----------------------------------------------------------------------------
\* What a key may hold instead.
Repaired(key) ==
    IF key \in TextKeys THEN {[env EXCEPT !.text[key] = text] : text \in Texts[key]}
    ELSE {[env EXCEPT !.limits[key] = [form |-> "unset", value |-> 0]]}

\* A process listens only as its environment asks: no setting it can read is
\* malformed, the two readers of the frame-log path arrive at the same file, a
\* profile that owns a credential has one, and each limit is one the code that
\* uses it can live with (Semaphore::new panics above MAX_PERMITS, and the frame
\* limit is added to the framing overhead).
StartsAsConfigured ==
    stage \in {"listen", "serving"} =>
        /\ \A key \in {"BIND", "CREDENTIAL_MODE", "UPSTREAM_MODE"} : env.text[key] # "junk"
        /\ env.text["BASE_URL"] \notin BadBases
        /\ \A key \in LimitKeys : env.limits[key].form # "junk"
        /\ log_path = config[1].frame_log
        /\ config[1].profile # "apikey_client" => env.text["TOKEN"] = "token"
        /\ \A key \in PoolLimits : config[1].limits[key] \in 1..MaxPermits
        /\ config[1].limits["WS_FRAME_MAX_BYTES"] + Overhead <= MaxUsize

\* A refused configuration names a key that is at fault: some other value of that
\* key alone gets past the refusal.  Each limit is read with its key written
\* twice, once to look it up and once to report it.
RefusalNamesTheFault ==
    stage = "failed" /\ error \in TextKeys \cup LimitKeys =>
        \E repaired \in Repaired(error) : ConfigError(repaired) # error

\* The three reads of readyz are not one instant, but its answer is honest about
\* the time the probe took: it is "ready" only if nothing stood in the way of
\* traffic all along, and "not_ready" only if something did at some moment.
ReadinessIsHonest ==
    /\ probe.answer = "ready" => probe.always = {}
    /\ probe.answer = "not_ready" => probe.ever # {}
=============================================================================
