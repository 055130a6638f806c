---------------------------- MODULE StartupProofs ----------------------------
(***************************************************************************)
(* Theorems about startup and the readiness probe (module Startup), for    *)
(* every environment, any built-in limits within their ranges, and words   *)
(* and semaphores of any size.                                             *)
(***************************************************************************)
EXTENDS Startup, WellFoundedInduction, TLAPS

-----------------------------------------------------------------------------
(* Checks made one after the other *)

\* What is refused was refused by one of the checks, and what is not passed all.
LEMMA OneDecides ==
    ASSUME NEW checks, DOMAIN checks \subseteq Nat,
           \A i \in DOMAIN checks : checks[i][2] # "none"
    PROVE  IF FirstRefusal(checks) = "none" THEN \A i \in DOMAIN checks : ~checks[i][1]
           ELSE \E i \in DOMAIN checks : checks[i][1] /\ checks[i][2] = FirstRefusal(checks)
<1>1. CASE Failing(checks) = {}
    BY <1>1 DEF FirstRefusal, Failing
<1>2. CASE Failing(checks) # {}
    <2>1. Failing(checks) \subseteq Nat
        BY DEF Failing
    <2>2. \E x \in Failing(checks) : \A y \in Failing(checks) : ~(<<y, x>> \in OpToRel(<, Nat))
        BY <1>2, <2>1, NatLessThanWellFounded, WFMin
    <2>a. \A x, y \in Nat : <<y, x>> \in OpToRel(<, Nat) <=> y < x
        BY Zenon DEF OpToRel
    <2>b. \E x \in Failing(checks) : \A y \in Failing(checks) : ~(y < x)
        BY <2>1, <2>2, <2>a, Zenon
    <2>3. \E x \in Failing(checks) : \A y \in Failing(checks) : x =< y
        BY <2>1, <2>b
    <2>4. Min(Failing(checks)) \in Failing(checks)
        BY <2>3 DEF Min
    <2>5. FirstRefusal(checks) = checks[Min(Failing(checks))][2]
        BY <1>2 DEF FirstRefusal
    <2>6. QED BY <2>4, <2>5 DEF Failing
<1>3. QED BY <1>1, <1>2

-----------------------------------------------------------------------------
(* The readiness probe *)

ProbeTypeOK ==
    probe \in [at : {"idle", "draining", "requests", "connections"},
               always : SUBSET Obstacles, ever : SUBSET Obstacles,
               answer : {"none", "ready", "not_ready"}]

\* A probe under way has seen each obstacle of the moment, and has passed by the
\* ones it found out of the way.
ProbeIsCurrent ==
    /\ probe.at # "idle" =>
           /\ stage = "serving" /\ probe.answer = "none"
           /\ ObstaclesNow(draining, free) \subseteq probe.ever
           /\ probe.always \subseteq ObstaclesNow(draining, free)
    /\ probe.at \in {"requests", "connections"} => "draining" \notin probe.always
    /\ probe.at = "connections" => "requests" \notin probe.always

ProbeInv == ProbeTypeOK /\ ProbeIsCurrent /\ ReadinessIsHonest

LEMMA ObstaclesAreKnown ==
    ASSUME NEW flag, NEW permits
    PROVE  ObstaclesNow(flag, permits) \subseteq Obstacles
BY DEF ObstaclesNow, Obstacles

\* Whatever changes the flag or a pool while the process serves.
LEMMA WitnessKeepsProbe ==
    ASSUME ProbeInv, stage' = stage, probe' = Witness(probe, draining', free')
    PROVE  ProbeInv'
<1> DEFINE now == ObstaclesNow(draining', free')
<1>1. now \subseteq Obstacles
    BY ObstaclesAreKnown
<1>2. CASE probe.at = "idle"
    BY <1>2 DEF Witness, ProbeInv, ProbeTypeOK, ProbeIsCurrent, ReadinessIsHonest
<1>3. CASE probe.at # "idle"
    <2>1. probe' = [probe EXCEPT !.always = @ \cap now, !.ever = @ \cup now]
        BY <1>3 DEF Witness
    <2> HIDE DEF now
    <2>2. /\ probe'.at = probe.at /\ probe'.answer = probe.answer
          /\ probe'.always = probe.always \cap now /\ probe'.ever = probe.ever \cup now
          /\ ProbeTypeOK'
        BY <1>1, <2>1 DEF ProbeInv, ProbeTypeOK
    <2>3. QED
        BY <1>3, <2>2 DEF ProbeInv, ProbeIsCurrent, ReadinessIsHonest, now
<1>4. QED BY <1>2, <1>3

LEMMA ReadsKeepProbe ==
    ASSUME ProbeInv, ProbeReads
    PROVE  ProbeInv'
<1> DEFINE now == ObstaclesNow(draining, free)
<1>1. UNCHANGED <<stage, draining, free>> /\ now \subseteq Obstacles
    BY ObstaclesAreKnown DEF ProbeReads
<1>2. probe.at \in {"draining", "requests", "connections"}
    BY DEF ProbeReads, ProbeInv, ProbeTypeOK, Range
<1>3. now \subseteq probe.ever /\ probe.always \subseteq now /\ stage = "serving"
    BY <1>2 DEF ProbeInv, ProbeIsCurrent
<1>4. CASE probe.at \in now
    <2>1. probe' = [probe EXCEPT !.at = "idle", !.answer = "not_ready"]
        BY <1>4 DEF ProbeReads
    <2> HIDE DEF now
    <2>2. QED
        BY <1>1, <1>3, <1>4, <2>1
        DEF ProbeInv, ProbeTypeOK, ProbeIsCurrent, ReadinessIsHonest
<1>5. CASE probe.at \notin now /\ probe.at = "connections"
    <2>1. probe' = [probe EXCEPT !.at = "idle", !.answer = "ready"]
        BY <1>5 DEF ProbeReads
    <2> HIDE DEF now
    <2>2. probe.always = {}
        BY <1>1, <1>3, <1>5 DEF ProbeInv, ProbeTypeOK, ProbeIsCurrent, Obstacles, Pools
    <2>3. QED
        BY <1>1, <2>1, <2>2
        DEF ProbeInv, ProbeTypeOK, ProbeIsCurrent, ReadinessIsHonest
<1>6. CASE probe.at \notin now /\ probe.at # "connections"
    <2>1. probe' = [probe EXCEPT !.at = IF @ = "draining" THEN "requests"
                                        ELSE "connections"]
        BY <1>2, <1>6 DEF ProbeReads
    <2>2. /\ probe'.at = (IF probe.at = "draining" THEN "requests" ELSE "connections")
          /\ probe'.always = probe.always /\ probe'.ever = probe.ever
          /\ probe'.answer = probe.answer /\ ProbeTypeOK'
        BY <2>1 DEF ProbeInv, ProbeTypeOK
    <2>3. ObstaclesNow(draining, free)' = now
        BY <1>1 DEF ObstaclesNow
    <2> HIDE DEF now
    <2>4. QED
        BY <1>1, <1>2, <1>3, <1>6, <2>2, <2>3
        DEF ProbeInv, ProbeIsCurrent, ReadinessIsHonest
<1>7. QED BY <1>4, <1>5, <1>6

(* The answer of readyz is honest about the time the probe took: ready only if *)
(* no obstacle stood all along, not ready only if one stood at some moment.    *)
THEOREM StartupReadinessIsHonest == Spec => []ReadinessIsHonest
<1>1. Init => ProbeInv
    BY DEF Init, NoProbe, ProbeInv, ProbeTypeOK, ProbeIsCurrent, ReadinessIsHonest
<1>2. ProbeInv /\ [Next]_vars => ProbeInv'
    <2> SUFFICES ASSUME ProbeInv, [Next]_vars PROVE ProbeInv'
        OBVIOUS
    <2>1. CASE Configure \/ BuildState \/ Listen
        <3>1. stage # "serving" /\ UNCHANGED probe
            BY <2>1 DEF Configure, BuildState, Listen
        <3>2. probe.at = "idle"
            BY <3>1 DEF ProbeInv, ProbeIsCurrent
        <3>3. QED
            BY <3>1, <3>2 DEF ProbeInv, ProbeTypeOK, ProbeIsCurrent, ReadinessIsHonest
    <2>2. CASE \E pool \in Pools : TakePermit(pool) \/ ReturnPermit(pool)
        BY <2>2, WitnessKeepsProbe DEF TakePermit, ReturnPermit
    <2>3. CASE BeginDrain
        BY <2>3, WitnessKeepsProbe DEF BeginDrain
    <2>4. CASE ProbeArrives
        <3> DEFINE now == ObstaclesNow(draining, free)
        <3>1. /\ UNCHANGED <<stage, draining, free>> /\ now \subseteq Obstacles
              /\ stage = "serving"
              /\ probe' = [at |-> "draining", always |-> now, ever |-> now, answer |-> "none"]
            BY <2>4, ObstaclesAreKnown DEF ProbeArrives
        <3>2. ObstaclesNow(draining, free)' = now
            BY <3>1 DEF ObstaclesNow
        <3> HIDE DEF now
        <3>3. QED
            BY <3>1, <3>2 DEF ProbeInv, ProbeTypeOK, ProbeIsCurrent, ReadinessIsHonest
    <2>5. CASE ProbeReads
        BY <2>5, ReadsKeepProbe
    <2>6. CASE UNCHANGED vars
        BY <2>6 DEF vars, ProbeInv, ProbeTypeOK, ProbeIsCurrent, ReadinessIsHonest
    <2>7. QED BY <2>1, <2>2, <2>3, <2>4, <2>5, <2>6 DEF Next
<1>3. ProbeInv => ReadinessIsHonest
    BY DEF ProbeInv
<1>4. QED BY <1>1, <1>2, <1>3, PTL DEF Spec

-----------------------------------------------------------------------------
(* What a refusal, and its absence, says of the environment *)

\* A refusal of a setting that is a text names one that is at fault.
LEMMA TextErrorSays ==
    ASSUME NEW e
    PROVE  LET named == TextError(e) IN
           /\ named = "none" =>
                /\ Get(e, "BIND") # "junk" /\ Get(e, "CREDENTIAL_MODE") # "junk"
                /\ Get(e, "UPSTREAM_MODE") # "junk" /\ Get(e, "BASE_URL") \notin BadBases
                /\ ManagedAuth(Profile(e)) => Present(e, "TOKEN")
           /\ named \in {"none", "BIND", "CREDENTIAL_MODE", "UPSTREAM_MODE", "BASE_URL", "TOKEN"}
           /\ named = "BIND" => Get(e, "BIND") = "junk"
           /\ named = "CREDENTIAL_MODE" => Get(e, "CREDENTIAL_MODE") \in {"junk", "client"}
           /\ named = "UPSTREAM_MODE" => Get(e, "UPSTREAM_MODE") = "junk"
           /\ named = "BASE_URL" => Get(e, "BASE_URL") \in BadBases
           /\ named = "TOKEN" => ~Present(e, "TOKEN")
<1> DEFINE translated == UpstreamMode(e) = "chatgpt" /\ CredentialMode(e) = "client"
           checks == <<
               <<Get(e, "BIND") = "junk", "BIND">>,
               <<Get(e, "CREDENTIAL_MODE") = "junk", "CREDENTIAL_MODE">>,
               <<Get(e, "UPSTREAM_MODE") = "junk", "UPSTREAM_MODE">>,
               <<translated, "CREDENTIAL_MODE">>,
               <<Get(e, "BASE_URL") \in BadBases, "BASE_URL">>,
               <<ManagedAuth(Profile(e)) /\ ~Present(e, "TOKEN"), "TOKEN">>>>
<1>1. TextError(e) = FirstRefusal(checks)
    BY Zenon DEF TextError
<1>2. DOMAIN checks = 1..6 /\ \A i \in 1..6 : checks[i][2] # "none"
    OBVIOUS
<1>3. /\ checks[1][1] <=> Get(e, "BIND") = "junk"
      /\ checks[2][1] <=> Get(e, "CREDENTIAL_MODE") = "junk"
      /\ checks[3][1] <=> Get(e, "UPSTREAM_MODE") = "junk"
      /\ checks[4][1] <=> translated
      /\ checks[5][1] <=> Get(e, "BASE_URL") \in BadBases
      /\ checks[6][1] <=> ManagedAuth(Profile(e)) /\ ~Present(e, "TOKEN")
    OBVIOUS
<1>n. /\ checks[1][2] = "BIND" /\ checks[2][2] = "CREDENTIAL_MODE"
      /\ checks[3][2] = "UPSTREAM_MODE" /\ checks[4][2] = "CREDENTIAL_MODE"
      /\ checks[5][2] = "BASE_URL" /\ checks[6][2] = "TOKEN"
    OBVIOUS
<1>4. translated => Get(e, "CREDENTIAL_MODE") = "client"
    BY DEF CredentialMode
<1>5. IF FirstRefusal(checks) = "none" THEN \A i \in 1..6 : ~checks[i][1]
      ELSE \E i \in 1..6 : checks[i][1] /\ checks[i][2] = FirstRefusal(checks)
    <2> HIDE DEF checks
    <2>1. 1..6 \subseteq Nat
        OBVIOUS
    <2>2. QED BY <1>2, <2>1, OneDecides
<1> HIDE DEF checks, translated
<1>6. CASE FirstRefusal(checks) = "none"
    <2>1. ~checks[1][1] /\ ~checks[2][1] /\ ~checks[3][1] /\ ~checks[5][1] /\ ~checks[6][1]
        BY <1>5, <1>6
    <2>2. QED BY <1>1, <1>3, <1>6, <2>1, Zenon
<1>7. CASE FirstRefusal(checks) # "none"
    <2>1. PICK i \in 1..6 : checks[i][1] /\ checks[i][2] = FirstRefusal(checks)
        BY <1>5, <1>7
    <2>2. i = 1 \/ i = 2 \/ i = 3 \/ i = 4 \/ i = 5 \/ i = 6
        OBVIOUS
    <2>3. LET named == checks[i][2] IN
          /\ named # "none"
          /\ named \in {"none", "BIND", "CREDENTIAL_MODE", "UPSTREAM_MODE", "BASE_URL", "TOKEN"}
          /\ named = "BIND" => i = 1
          /\ named = "CREDENTIAL_MODE" => i = 2 \/ i = 4
          /\ named = "UPSTREAM_MODE" => i = 3
          /\ named = "BASE_URL" => i = 5
          /\ named = "TOKEN" => i = 6
        BY <1>n, <2>2
    <2>4. /\ i = 1 => Get(e, "BIND") = "junk"
          /\ i = 2 \/ i = 4 => Get(e, "CREDENTIAL_MODE") \in {"junk", "client"}
          /\ i = 3 => Get(e, "UPSTREAM_MODE") = "junk"
          /\ i = 5 => Get(e, "BASE_URL") \in BadBases
          /\ i = 6 => ~Present(e, "TOKEN")
        BY <1>3, <1>4, <2>1, Zenon
    <2>5. QED BY <1>1, <2>1, <2>3, <2>4, Zenon
<1>8. QED BY <1>6, <1>7

\* The same for the limits, which are read under a name written twice.
LEMMA LimitErrorSays ==
    ASSUME NEW e
    PROVE  LET named == FirstRefusal(LimitChecks(e)) IN
           IF named = "none" THEN \A key \in LimitKeys : ~LimitRefused(e, key)
           ELSE named \in LimitKeys /\ LimitRefused(e, named)
<1> DEFINE checks == LimitChecks(e)
<1>1. DOMAIN checks = 1..10 /\ \A i \in 1..10 : checks[i][2] # "none"
    BY DEF LimitChecks
<1>2. \A i \in 1..10 : checks[i][2] \in LimitKeys
                       /\ checks[i] = <<LimitRefused(e, checks[i][2]), checks[i][2]>>
    <2>1. \A i \in 1..10 : i \in {1, 2, 3, 4, 5, 6, 7, 8, 9, 10}
        OBVIOUS
    <2>2. \A i \in {1, 2, 3, 4, 5, 6, 7, 8, 9, 10} :
              checks[i][2] \in LimitKeys
              /\ checks[i] = <<LimitRefused(e, checks[i][2]), checks[i][2]>>
        BY DEF LimitChecks, LimitKeys, ByteLimits, PoolLimits, Deadlines
    <2>3. QED BY <2>1, <2>2
<1>3. \A key \in LimitKeys : \E i \in 1..10 : checks[i][2] = key
    <2>1. /\ checks[1][2] = "REQUEST_MAX_BYTES" /\ checks[2][2] = "RESPONSE_MAX_BYTES"
          /\ checks[3][2] = "WS_FRAME_MAX_BYTES" /\ checks[4][2] = "MAX_REQUESTS"
          /\ checks[5][2] = "MAX_CONNECTIONS" /\ checks[6][2] = "REQUEST_READ_TIMEOUT_MS"
          /\ checks[7][2] = "UPSTREAM_TIMEOUT_MS" /\ checks[8][2] = "WS_CONNECT_TIMEOUT_MS"
          /\ checks[9][2] = "WS_SEND_TIMEOUT_MS" /\ checks[10][2] = "WS_IDLE_TIMEOUT_MS"
        BY DEF LimitChecks
    <2> HIDE DEF checks
    <2>2. QED BY <2>1 DEF LimitKeys, ByteLimits, PoolLimits, Deadlines
<1>4. IF FirstRefusal(checks) = "none" THEN \A i \in 1..10 : ~checks[i][1]
      ELSE \E i \in 1..10 : checks[i][1] /\ checks[i][2] = FirstRefusal(checks)
    <2> HIDE DEF checks
    <2>1. 1..10 \subseteq Nat
        OBVIOUS
    <2>2. QED BY <1>1, <2>1, OneDecides
<1> HIDE DEF checks
<1>5. \A i \in 1..10 : checks[i][1] <=> LimitRefused(e, checks[i][2])
    BY <1>2
<1>6. IF FirstRefusal(checks) = "none" THEN \A key \in LimitKeys : ~LimitRefused(e, key)
      ELSE FirstRefusal(checks) \in LimitKeys /\ LimitRefused(e, FirstRefusal(checks))
    BY <1>2, <1>3, <1>4, <1>5
<1>7. QED BY <1>6 DEF checks

\* What the environment of a process that was not refused looks like.
LEMMA SettledIsSound ==
    ASSUME NEW e \in Environment, ConfigError(e) = "none"
    PROVE  /\ \A key \in {"BIND", "CREDENTIAL_MODE", "UPSTREAM_MODE"} : e.text[key] # "junk"
           /\ e.text["BASE_URL"] \notin BadBases
           /\ \A key \in LimitKeys : e.limits[key].form # "junk"
           /\ FrameLogPath(e) = Settled(e).frame_log
           /\ Settled(e).profile # "apikey_client" => e.text["TOKEN"] = "token"
           /\ \A key \in PoolLimits : Settled(e).limits[key] \in 1..MaxPermits
           /\ Settled(e).limits["WS_FRAME_MAX_BYTES"] + Overhead <= MaxUsize
<1>1. TextError(e) = "none" /\ \A key \in LimitKeys : ~LimitRefused(e, key)
    BY LimitErrorSays, Zenon DEF ConfigError
<1>2. /\ Get(e, "BIND") # "junk" /\ Get(e, "CREDENTIAL_MODE") # "junk"
      /\ Get(e, "UPSTREAM_MODE") # "junk" /\ Get(e, "BASE_URL") \notin BadBases
      /\ ManagedAuth(Profile(e)) => Present(e, "TOKEN")
    BY <1>1, TextErrorSays, Zenon
<1>3. \A key \in {"BIND", "CREDENTIAL_MODE", "UPSTREAM_MODE"} : e.text[key] # "junk"
    BY <1>2 DEF Get
<1>4. e.text["BASE_URL"] \notin BadBases
    BY <1>2 DEF Get, BadBases
<1>5. \A key \in LimitKeys : e.limits[key].form # "junk"
    BY <1>1 DEF LimitRefused, IsSet
<1>6. FrameLogPath(e) = Settled(e).frame_log
    BY DEF Settled, FrameLogPath, ConfiguredFrameLog
<1>7. Settled(e).profile = Profile(e)
      /\ Settled(e).limits = [key \in LimitKeys |-> Limit(e, key)]
    BY DEF Settled
<1>8. Settled(e).profile # "apikey_client" => e.text["TOKEN"] = "token"
    <2>1. SUFFICES ASSUME Profile(e) # "apikey_client" PROVE e.text["TOKEN"] = "token"
        BY <1>7
    <2>2. Get(e, "TOKEN") \notin {"unset", "blank"}
        BY <1>2, <2>1 DEF ManagedAuth, Present
    <2>3. "TOKEN" \in TextKeys /\ Texts["TOKEN"] = {"unset", "not_unicode", "blank", "token"}
        BY DEF TextKeys, Texts
    <2>4. e.text["TOKEN"] \in {"unset", "not_unicode", "blank", "token"}
        BY <2>3 DEF Environment
    <2>5. QED BY <2>2, <2>4 DEF Get
<1>9. \A key \in PoolLimits : Settled(e).limits[key] \in 1..MaxPermits
    <2> SUFFICES ASSUME NEW key \in PoolLimits PROVE Limit(e, key) \in 1..MaxPermits
        BY <1>7 DEF LimitKeys
    <2>1. key \in LimitKeys /\ Allowed(key) = 1..MaxPermits
        BY DEF LimitKeys, Allowed, PoolLimits, ByteLimits, Deadlines
    <2>2. IsSet(e.limits[key]) => e.limits[key].value \in 1..MaxPermits
        BY <1>1, <2>1 DEF LimitRefused
    <2>3. QED BY <2>2, SizesAssumption DEF Limit
<1>10. Settled(e).limits["WS_FRAME_MAX_BYTES"] + Overhead <= MaxUsize
    <2> DEFINE frame == Limit(e, "WS_FRAME_MAX_BYTES")
    <2>1. /\ "WS_FRAME_MAX_BYTES" \in LimitKeys
          /\ Allowed("WS_FRAME_MAX_BYTES") = 1..(MaxUsize - Overhead)
        BY DEF LimitKeys, Allowed, PoolLimits, ByteLimits, Deadlines
    <2>2. IsSet(e.limits["WS_FRAME_MAX_BYTES"]) =>
              e.limits["WS_FRAME_MAX_BYTES"].value \in 1..(MaxUsize - Overhead)
        BY <1>1, <2>1 DEF LimitRefused
    <2>3. frame \in 1..(MaxUsize - Overhead)
        BY <2>2, SizesAssumption DEF Limit
    <2>4. Settled(e).limits["WS_FRAME_MAX_BYTES"] = frame
        BY <1>7, <2>1
    <2> HIDE DEF frame
    <2>5. QED BY <2>3, <2>4, SizesAssumption
<1>11. QED BY <1>3, <1>4, <1>5, <1>6, <1>8, <1>9, <1>10

\* Some other value of the key that a refusal names gets past it.
LEMMA RefusalIsCurable ==
    ASSUME env \in Environment, ConfigError(env) \in TextKeys \cup LimitKeys
    PROVE  \E repaired \in Repaired(ConfigError(env)) : ConfigError(repaired) # ConfigError(env)
<1> DEFINE named == ConfigError(env)
           Named == {"BIND", "CREDENTIAL_MODE", "UPSTREAM_MODE", "BASE_URL", "TOKEN"}
<1>1. Named \cap LimitKeys = {} /\ "none" \notin LimitKeys /\ Named \subseteq TextKeys
    BY DEF LimitKeys, ByteLimits, PoolLimits, Deadlines, TextKeys, Texts
<1>2. "none" \notin TextKeys /\ TextKeys \cap LimitKeys = {}
    BY DEF LimitKeys, ByteLimits, PoolLimits, Deadlines, TextKeys, Texts
<1>3. CASE TextError(env) # "none"
    <2>1. named = TextError(env) /\ named \in Named
        BY <1>3, TextErrorSays, Zenon DEF ConfigError
    <2>2. PICK text \in Texts[named] :
              text = IF named = "TOKEN" THEN "token" ELSE "unset"
        BY <2>1 DEF Texts
    <2> DEFINE repaired == [env EXCEPT !.text[named] = text]
    <2>3. repaired \in Repaired(named)
        BY <1>1, <2>1 DEF Repaired
    <2>4. Get(repaired, named) = text
        <3>1. env.text \in [TextKeys -> UNION {Texts[key] : key \in TextKeys}]
            BY DEF Environment
        <3>2. repaired.text = [env.text EXCEPT ![named] = text]
            BY DEF Environment
        <3>3. repaired.text[named] = text
            BY <1>1, <2>1, <3>1, <3>2
        <3>4. QED BY <2>2, <3>3 DEF Get
    <2> HIDE DEF repaired, named
    <2>5. TextError(repaired) # named
        <3>1. SUFFICES ASSUME TextError(repaired) = named PROVE FALSE
            OBVIOUS
        <3>2. /\ named = "BIND" => Get(repaired, "BIND") = "junk"
              /\ named = "CREDENTIAL_MODE" => Get(repaired, "CREDENTIAL_MODE") \in {"junk", "client"}
              /\ named = "UPSTREAM_MODE" => Get(repaired, "UPSTREAM_MODE") = "junk"
              /\ named = "BASE_URL" => Get(repaired, "BASE_URL") \in BadBases
              /\ named = "TOKEN" => ~Present(repaired, "TOKEN")
            BY <3>1, TextErrorSays, Zenon
        <3>3. named = "TOKEN" => Get(repaired, "TOKEN") \in {"unset", "blank"}
            BY <3>2 DEF Present
        <3>4. QED BY <2>1, <2>2, <2>4, <3>2, <3>3 DEF BadBases
    <2>6. ConfigError(repaired) # named
        <3>1. FirstRefusal(LimitChecks(repaired)) \in LimitKeys \cup {"none"}
            BY LimitErrorSays, Zenon
        <3>2. QED BY <1>1, <2>1, <2>5, <3>1 DEF ConfigError
    <2>7. QED BY <2>3, <2>6 DEF named
<1>4. CASE TextError(env) = "none"
    <2>1. named = FirstRefusal(LimitChecks(env))
        BY <1>4 DEF ConfigError
    <2>2. named # "none"
        BY <1>1, <1>2
    <2>3. named \in LimitKeys
        BY <2>1, <2>2, LimitErrorSays, Zenon
    <2> DEFINE repaired == [env EXCEPT !.limits[named] = [form |-> "unset", value |-> 0]]
    <2>4. repaired \in Repaired(named)
        BY <1>2, <2>3 DEF Repaired
    <2>5. repaired.limits[named] = [form |-> "unset", value |-> 0]
        <3>1. env.limits \in [LimitKeys -> Numbers]
            BY DEF Environment
        <3>2. repaired.limits = [env.limits EXCEPT ![named] = [form |-> "unset", value |-> 0]]
            BY DEF Environment
        <3>3. QED BY <2>3, <3>1, <3>2
    <2> HIDE DEF repaired, named
    <2>6. ~LimitRefused(repaired, named)
        BY <2>5 DEF LimitRefused, IsSet
    <2>7. FirstRefusal(LimitChecks(repaired)) # named
        BY <2>2, <2>6, LimitErrorSays, Zenon
    <2>8. TextError(repaired) \in Named \cup {"none"}
        BY TextErrorSays, Zenon
    <2>9. ConfigError(repaired) # named
        BY <1>1, <2>2, <2>3, <2>7, <2>8 DEF ConfigError
    <2>10. QED BY <2>4, <2>9 DEF named
<1>5. QED BY <1>3, <1>4

-----------------------------------------------------------------------------
(* From the environment to the listener *)

StartInv ==
    /\ env \in Environment
    /\ stage \in {"configure", "build", "listen", "serving", "failed"}
    /\ stage \in {"build", "listen", "serving"} =>
           ConfigError(env) = "none" /\ config = <<Settled(env)>>
    /\ stage \in {"listen", "serving"} => log_path = FrameLogPath(env)
    /\ stage = "failed" => error \in {ConfigError(env), "client", "listener"}

LEMMA StartStep ==
    ASSUME StartInv, [Next]_vars
    PROVE  StartInv'
<1>1. CASE Configure
    BY <1>1 DEF Configure, Fail, StartInv
<1>2. CASE BuildState
    BY <1>2 DEF BuildState, Fail, StartInv
<1>3. CASE Listen
    BY <1>3 DEF Listen, Fail, StartInv
<1>4. CASE UNCHANGED <<env, stage, error, config, log_path>>
    BY <1>4 DEF StartInv
<1>5. QED
    BY <1>1, <1>2, <1>3, <1>4
    DEF Next, vars, TakePermit, ReturnPermit, BeginDrain, ProbeArrives, ProbeReads

LEMMA StartIsSound == Spec => []StartInv
<1>1. Init => StartInv
    BY EnvironmentsAssumption DEF Init, StartInv
<1>2. StartInv /\ [Next]_vars => StartInv'
    BY StartStep
<1>3. QED BY <1>1, <1>2, PTL DEF Spec

(* A process listens only as its environment asks: the limits within what their *)
(* users can live with, both readers of the frame-log path at the same file.   *)
THEOREM StartupStartsAsConfigured == Spec => []StartsAsConfigured
<1>1. StartInv => StartsAsConfigured
    <2> SUFFICES ASSUME StartInv, stage \in {"listen", "serving"} PROVE StartsAsConfigured
        BY Zenon DEF StartsAsConfigured
    <2>1. /\ env \in Environment /\ ConfigError(env) = "none"
          /\ config = <<Settled(env)>> /\ log_path = FrameLogPath(env)
        BY DEF StartInv
    <2>2. config[1] = Settled(env)
        BY <2>1
    <2>3. QED BY <2>1, <2>2, SettledIsSound, Zenon DEF StartsAsConfigured
<1>2. QED BY <1>1, StartIsSound, PTL

(* A refused configuration names a key at fault: changing that key alone gets  *)
(* the environment past that refusal.                                         *)
THEOREM StartupRefusalNamesTheFault == Spec => []RefusalNamesTheFault
<1>1. StartInv => RefusalNamesTheFault
    <2> SUFFICES ASSUME StartInv, stage = "failed", error \in TextKeys \cup LimitKeys
                 PROVE  \E repaired \in Repaired(error) : ConfigError(repaired) # error
        BY Zenon DEF RefusalNamesTheFault
    <2>1. "client" \notin TextKeys \cup LimitKeys /\ "listener" \notin TextKeys \cup LimitKeys
        BY DEF LimitKeys, ByteLimits, PoolLimits, Deadlines, TextKeys, Texts
    <2>2. error = ConfigError(env) /\ env \in Environment
        BY <2>1 DEF StartInv
    <2>3. QED BY <2>2, RefusalIsCurable, Zenon
<1>2. QED BY <1>1, StartIsSound, PTL
=============================================================================
