# gpt-live-proxy: TLA+ specifications

Specifications, model-checking instances and machine-checked proofs for the
proxy under `src/`. Line numbers refer to the files of this repository;
`PROJECT.json` maps each definition to the lines it stands for.

## 1. The system

The proxy sits between a client and a realtime API. A plain HTTP request is
relayed as one bounded exchange. A WebSocket request becomes a relay between two
sockets that lives until either side ends it. Everything runs on one tokio
runtime, plus one writer thread for the frame log.

| component | state | operations | talks to |
|---|---|---|---|
| **Relay pump** `relay/pump.rs`, `relay/ws_convert.rs` | the two sockets, pre-open queue and its size, idle deadline, pending send | open or fail the upstream, queue, flush, forward, abort, tell the legs | the two peers, the frame log, the permit of its session |
| **HTTP exchange** `relay/http.rs` | first-writer terminal, cancellation token, the spawned task | begin, finish, spawn, cancel by drop | the handlers, the request semaphore, the upstream |
| **HTTP handlers** `realtime/http.rs`, `live/call_create.rs` | locals: guard, permit, body, join handle | acquire, read, parse, build, spawn, await, answer | exchange, body reader, route contract, headers |
| **Body reader** `relay/body.rs` | one growing buffer | read chunks to a cap, classify errors | the handlers |
| **WebSocket handlers** `realtime/websocket.rs`, `live/sideband.rs` | locals: permit, upstream socket | acquire, connect (public), answer 101, start the relay | connection semaphore, pump, subprotocol, frame log |
| **Subprotocol** `realtime/subprotocol.rs` | none | parse offers, validate the selection | WebSocket handlers |
| **Frame log** `observability/frame_log.rs` | bounded channel, senders, writer thread, file | append (never waits), write, drain | the relays, `main` |
| **Process** `main.rs`, `admission/drain.rs` | drain flag, server, the log's owner | signal, graceful shutdown, flush, exit | axum's server, boundary |
| **Router and boundary** `app.rs`, `admission/mod.rs` | semaphores, drain flag (read) | drain check, preflight, guard, handler, CORS; probes | every handler |
| **Admission, origin, CORS** `admission/{auth,origin,cors}.rs` | none | decide | boundary |
| **Route contract, capabilities** `realtime/{contract,capability,path,query,chatgpt}.rs` | none | classify a request, decide support | handlers |
| **Headers** `realtime/headers.rs`, `live/headers.rs` | none | validate, build upstream headers | handlers |
| **Call body, session evidence** `live/body.rs`, `wire/*` | none | parse multipart, classify a session, rewrite | call-create handler |
| **URLs, locations** `live/{url,location}.rs` | none | join a base and a path, decode and encode identifiers | handlers |
| **Configuration, errors, tracing** `config.rs`, `error.rs`, `observability/mod.rs` | read once | parse; map; redact | all |

What is hard here, and what it would mean to be right:

* *Relay.* Two peers, a handshake, a timer and a single task that awaits one
  thing at a time. Right means: no frame lost, repeated or overtaken while the
  relay lives, bounded retention, a peer that is still there is always told of
  the end, and neither peer nor upstream can keep the relay from ending.
* *Exchange.* Handler, guard and task race to record how an exchange ended, and
  the permit changes hands between two of them. Right means: the first record
  stands and is true, permits bound the work that is really going on, and an
  abandoned exchange stops.
* *Sessions.* A connection permit passes through three owners, each of which can
  be dropped. Right means: nothing leaks, each dialect contacts its upstream at
  the point it promises, both legs speak the same subprotocol.
* *Shutdown.* Handlers are awaited, relays are not, the log is waited for with a
  bound. Right means: the process ends, and a successful flush lost nothing.
* *Startup.* A configuration is read once, by two readers, and refused with the
  name of a key. Right means: what listens is what was asked for, and a refusal
  names a key that is at fault. The readiness probe reads three things at three
  moments; right means that its answer is true of the time it took.
* *Pure decisions* (boundary, contract, headers, evidence, URLs, error tables).
  Right means that decisions taken in different files agree with each other.
* *Pure algorithms* (capped reading, the calendar of a timestamp, the first
  faulty byte, the limits of a history). Right means equal to a definition that
  is obviously what is meant.

`PROJECT.json` lists the hazards line by line with the properties that cover
them.

## 2. The modules

| module | models | state ↔ code |
|---|---|---|
| `RelayContract` | what a relay promises its peers | abstract |
| `Pump` | `run_public_pump`, `run_private_pump` and all they call | `phase` = the place in `run_private_with` / `run_connected_from_deadline`; `awaiting`, `carry` = the `bounded_send` in progress; `queue`, `queuedBytes` = the locals of the same name; `telling`, `farewell` = `tell_downstream`, `tell_upstream`; `health` = the transports |
| `PumpProofs` | theorems about `Pump` | |
| `PermitPool` | what a semaphore promises | abstract |
| `HttpExchange` | `relay/http.rs` and both HTTP handlers from `begin_exchange` on | `terminal`, `canceled` = `ExchangeShared`; `guard` = `ExchangeGuard`; `task`, `result` = the task of `spawn_execute`; `handler`, `answer` = the handler; `permit` = the owner of the `OwnedSemaphorePermit` |
| `HttpExchangeProofs` | theorems about `HttpExchange` | |
| `Sessions` | both WebSocket handlers from the permit on | `stage` = the await point or task the session is in; `upstream` = the socket or connect future; `chosen`, `spoken` = the subprotocols of the two legs |
| `SessionsProofs` | theorems about `Sessions` | |
| `FrameLog` | `FrameLogger` as `spawn` makes it: state and operations | `senders` = who holds a clone; `queue` = the channel; `writing` = the record in the writer's hands; `drain` = `drain_with_timeout` |
| `Shutdown` | `main`, the drain flag, the boundary checks that read it; extends `FrameLog` | `draining`, `server`, `process`, `call` |
| `ShutdownProofs` | theorems about `Shutdown` and `FrameLog` | |
| `Startup` | `Config::from_source`, `FrameLogger::from_source`, `AppState::new`, the start of `main`, `readyz` | `stage`, `error` = how far `main` came; `config`, `log_path` = what the two readers of the environment made of it; `free`, `draining` = the pools and the flag; `probe` = which of its three reads `readyz` comes to next |
| `StartupProofs` | theorems about `Startup` | |
| `Boundary` | `protect`, `guard`, `admission/{auth,origin,cors}.rs` and the drain flag they read | `turn`, `step` = the request and how far `protect` is with it; `config`, `caller` = what the checks read; `answers` = the two responses |
| `BoundaryProofs` | theorems about `Boundary` | |
| `Capability` | the support matrix and both constructors of a capability | operators only |
| `CallBody` | `live/body.rs`, `realtime/chatgpt.rs`, the body checks of `live/call_create.rs` | operators only |
| `RouteContract` | routes, `realtime/contract.rs`, both `headers.rs`, the URLs, and the order in which the three handlers apply them; extends `CallBody`, which extends `Capability` | `stage` = the check reached; `selection`, `capability` = what the classifiers return; `answer` = the local refusal; `contact` = the upstream request |
| `RouteProofs` | theorems about `RouteContract` | |
| `Subprotocol` | `parse` of `realtime/subprotocol.rs` | operators only |
| `Headers` | the header builders of the four routes, what is relayed back, `redacted_headers` | operators only |
| `Addresses` | the five URL builders, the readers of call ids and models, the encoder of a query | operators only |
| `FrameRecord` | the record of a frame: first faulty byte, date and clock | operators only |
| `CappedBody` | `relay/body.rs` and the response loop of `relay/http.rs` | operators only |
| `WireSession` | `wire/{mod,session,call_body}.rs`; extends `CallBody`, with which it is compared | operators only |
| `ErrorAnswer` | `error.rs`: status, type, code, advice; extends `Capability` | operators only |
| `Checks` | the first check that fails decides (the `?` operator); a sum | operators only |
| `MCPump`, `MCHttpExchange`, `MCSessions`, `MCShutdown`, `MCStartup`, `MCBoundary`, `MCRouteContract` | instances for TLC | |
| `MCDecisions` | the inputs on which the operators of `Headers`, `Addresses`, `FrameRecord`, `CappedBody`, `WireSession`, `ErrorAnswer` and `Subprotocol` are evaluated | `case` = one input |
| `DecisionProofs` | theorems about `Headers`, `Addresses`, `FrameRecord`, `CappedBody`, `WireSession`, `ErrorAnswer` and `Subprotocol` | |

Composition: `HttpExchange` and `Sessions` each implement `PermitPool`, `Pump`
implements `RelayContract`, `Shutdown` drives the operations of `FrameLog`. A
relay appears as module `Pump` in full, as the stages opening, relaying and
returned of `Sessions`, and as a holder of a logger clone in `Shutdown`. A
request goes through `Boundary` up to its stage inside, through `RouteContract`
up to the permit and the upstream request, and on through `HttpExchange` or
`Sessions`. The drain flag of `Boundary` is the one `Shutdown` raises, and the
pools and the flag `readyz` reads in `Startup` are those of `HttpExchange`,
`Sessions` and `Shutdown`, with their users reduced to taking and returning.
`WireSession` is composed with `CallBody`: what the library builds is read back
by the proxy's own reader. What `ErrorAnswer` says of an unsupported capability
it takes from the table of `Capability` that the handlers consult.

Definitions named `...Slip` are wrong versions of the definition that follows
them. The specifications never use them; each shows that a property notices the
mistake. A property with several parts has a slip for each part that a different
mistake breaks.

### Abstractions

* *Time.* A timer is a step that may happen while what it bounds is pending. In
  `Pump` a leg that accepts nothing for a whole timeout is "stalled"; the idle
  deadline is running or expired. A send that does not stall never times out.
* *A leg* works, is stalled, has a broken transport, or is "faulty": its stream
  ended or returned an error of the protocol while its transport may be whole. The
  code does not tell the last two apart: of a read error it learns that this leg
  failed, and it closes the other with the reason. `NoPeerAbandoned` therefore owes
  nothing to a faulty leg, and everything to the other. Only a broken transport is
  sure to be read as an error one day; a fault may come or not.
* *Frames* are numbers and sizes. Control frames are told from data because they
  move the idle deadline and do not cross.
* *Telling a leg* is the Close and then `sink.close()` with its own five-second
  bound; both are one step, `TellSent` or `TellLost`.
* *The connect future* of a private relay is not polled to readiness behind the
  task's back: it is ready when the task observes it.
* *Bodies and responses* appear as the outcomes of reading, parsing and
  executing. The upstream timeout is one of those outcomes.
* *A panic* can only happen while the HTTP client is polled.
* *Drops.* What one drop releases is released in one step, except where another
  task can act in between and the code says in which order (the guard of an
  exchange; a relay's sockets and its permit).
* *Connections* carry one request each in `Shutdown`.
* *Headers* are sequences of values, because who reads the first, who reads all
  and who refuses a second is what `RouteContract` and `Boundary` are about.
  Values are classes: an alpha is one of the two private ones, another text or
  not text; an origin is loopback, the served authority, configured or foreign.
  `metadata` stands for whichever other headers the policy of a route checks.
* *Content types* appear as sent and are read by `MediaType`; a query either
  decodes, and then is its selectors, or does not. An `Authorization` is absent, a
  bearer token, another text, not text, or there twice.
* *Offered subprotocols* are, in `Subprotocol`, fields of tokens with a kind, a
  length and whether they carry the admission token; a byte no token has makes a
  token "malformed". `RouteContract` and `Sessions` see the list of kinds. What
  the upstream of `Sessions` selects may also be "repeated": a header given twice,
  of which the client library reads the first and `validate_selected` neither.
* *A call body* is a sequence of multipart fields, a session field with the two
  markers the proxy looks for in it.
* *`unreachable!()` and `debug_assert!()`* are the value `Impossible`, or a
  condition of their own, so that TLC can look for a request that gets there.
* *Settings* in `Startup` are classes of texts (unset, blank, junk, not Unicode,
  and those the code tells apart); limits are numbers, against a machine word and
  a semaphore maximum that are constants.
* *URLs* in `Addresses` are sequences of tokens: the scheme as it is written,
  slashes, names, and the parts of a query. Identifiers are sequences of
  characters, of which a few stand for all: five digits, two hexadecimal letters and
  one that is not; an escape may decode to a letter. A base whose host is literally `v1`
  loses it with the suffix; such bases are left out, of the run and of the theorem
  (`IsBase`). A base carries no query: startup refuses one.
* *Bytes* in `FrameRecord` are seven classes that tell apart what UTF-8 and the
  search for U+FFFD do with them.
* *A session* in `WireSession` is what a reader makes of its JSON; a history is
  the lengths of its parts.
* *One request at a time* in `RouteContract` and one caller in `Boundary`: these
  decisions share no state but the permits, whose exhaustion is a refusal
  `Admit` may give at any time, and the drain flag, which may be raised at any step.

External, modelled from how the code uses it: axum's server (accept, graceful
shutdown, dropping the handler of a client that left, the upgrade task), the
WebSocket transports, the client library's check of a selected subprotocol, the
browser that sends its request only after a granted preflight.

## 3. The runs

Every run uses `CHECK_DEADLOCK FALSE`: relays, exchanges, sessions and the
process end, a decision is taken once, and then nothing is left to do.

| run | instance | shows |
|---|---|---|
| `pump_safety` | frame cap 2, sizes 1, 2 and 3, queue of 2, three client frames and two upstream frames | `Lossless`, `BoundedRetention`, `NoPeerAbandoned`, `LogLeadsWire`, `ImplementsContract` |
| `pump_live` | two client frames, one upstream frame | `NothingPinsTheRelay`, `ExpiryIsNoticed` |
| `pump_idle` | as `pump_live`, one size | violates `IdleExpiryClosesIdle` |
| `http` | two exchanges, one permit, both dialects | `PermitsAccounted`, `TerminalTellsTheTruth`, `FirstTerminalStands`, `ImplementsPool`, `ExchangesEnd` |
| `sessions` | three sessions, two permits, three sets of offered tokens | `NothingLeaks`, `ContactOrder`, `LegsAgree`, `ImplementsPool`, `HandshakesEnd` |
| `shutdown` | two relays and one request, a channel of two, two records each | `TypeOK`, `FileIsFaithful`, `CutOnlyAfterGivingUp`, `SignalEndsProcess` |
| `shutdown_cut` | a channel of one, one record each | violates `InFlightCallsSurvive` |
| `startup` | three sound environments and all that differ from one in two texts or one limit; pools of one or two permits, one probe at a time | `StartsAsConfigured`, `RefusalNamesTheFault`, `ReadinessIsHonest` |
| `contract` | six upstreams, five families of requests, bodies of up to three fields | `NoUnreachableArm`, `SpeaksOneDialect`, `ZeroContactIfAmbiguous`, `CredentialFits`, `UnsupportedIsExact`, `RegisteredIsServed`, `OneReading` |
| `boundary` | all eight configurations, two families of callers | `EchoFollowsVerdict`, `HandlerIsGuarded` |
| `decisions` | every input of small domains, and every day from 1970 to the summer of 2101 | `HeadersCross`, `OneAddress`, `LogTellsTheTruth`, `BodiesAreCapped`, `SessionsAsBuilt`, `AnswersAgree`, `OffersStand` |
| `decisions_scheme` | the bases of `decisions`, and one with its scheme in capitals | violates `SocketsAreJoined` |

The type invariants of `Pump`, `HttpExchange`, `Sessions`, `Boundary` and
`RouteContract` are not run: they are proved, for instances of every size.

Why these bounds are enough to meet the interesting cases:

* *Pump.* With a cap of 2 and sizes 1 to 3 a frame is below, at and above the
  cap; two frames fill the queue by number, 1+2 overfills it by size; three
  client frames leave one to be read after the flush, behind queued ones; two
  upstream frames allow both directions to interleave. The counters of frames
  are the only unbounded state: `MaxClient` and `MaxUpstream` bound them.
* *Exchanges and sessions.* They interact only through the semaphore. With two
  exchanges for one permit one is refused, or enters on a permit the other has
  just given back; more of them add nothing that the proofs, which hold for any
  number, do not cover. `sessions` has three for two.
* *Shutdown.* Two relays interleave in the channel, four records overfill a
  channel of two, and one plain request shows what the server waits for.
  `MaxRecords` bounds what a relay logs.
* *Startup.* Every class of every text, in pairs, so that the order of the checks
  and the credential that is missing for a profile are met; every limit at and
  beyond both ends of its range. The machine word holds 20 values: the overhead
  of a frame must not push its limit over it.
* *RouteContract.* Every profile with both shapes of base URL. The families vary
  together what one handler reads: probes of every path with either method; REST
  calls with eight content types; sockets by selectors, and by credentials and
  eight lists of subprotocols; sideband joins. Each has eight alphas: none, each
  kind once, and repeated with the same or another value. Two values tell "first",
  "all" and "refuse" apart; three fields let a body repeat one around another.
* *Boundary.* All headers with a few origins, and all origins with a few headers:
  the admission and the origin decision read disjoint headers, and only their
  order relates them.
* *Decisions.* Header maps vary two headers at a time, one of them among those a
  route treats specially: no check reads three. Bases have up to two slashes after
  each of six paths; call ids four characters, so that an escape is complete,
  incomplete, or encodes another escape; payloads five bytes, so that a
  replacement character has a fault on either side; bodies four chunks around a
  cap of up to five; errors three links; histories three items of two parts around
  limits of two items and three tokens; offers four tokens in one field or two, the
  caps at 25 and 58 bytes, so that a credential is at or above the first and three
  tokens fit the second until they are joined again. `MaxDay` ends the calendar after two
  century years, one of them a leap year. All errors, profiles and capabilities.

### Fairness, and what justifies it

* *Pump.* Weak fairness of the task's own steps: the runtime polls it, and every
  await has a timeout (`connect_timeout`, `send_timeout`, the close timeout).
  Strong fairness of the idle branch and of read errors: the connected loop's
  `select!` is unbiased, it polls its branches from a random start, so a branch
  that is ready again and again is taken. Peers and transports are under no
  obligation, and there is no fairness of reading messages.
* *HttpExchange.* Weak fairness of handlers, guards' drops and tasks; the body
  read has `request_read_timeout`. Nothing is assumed of the upstream: of the two
  parts of `ExchangesEnd`, `AbandonedWorkStops` holds for one that never answers,
  and `EveryExchangeEnds` has `UpstreamTimeoutElapses` as its hypothesis.
* *Sessions.* The handshake, the close of a declined upstream and the opening of
  a private relay have timeouts; a connection answered 101 is upgraded or fails.
* *Shutdown.* Handlers end, axum's server and `main` proceed, and the deadline of
  the drain passes. axum sets no bound on a client that takes its answer slowly:
  that it does take it is an assumption. Relays and the writer have no fairness.

## 4. Findings

* `pump_idle`: the README (lines 163-165) says that expiry of the idle timeout
  closes both legs with `1001 / idle timeout`. The connected loop awaits its
  sends inside the branch that read the frame, so a deadline that passes
  meanwhile is not looked at: with an idle timeout shorter than the send timeout
  the relay ends as 1011, send timed out. Only the flush of the queue races its
  sends against the deadline.
* `shutdown_cut`: `drain.rs` (line 1) speaks of draining "without dropping
  in-flight calls". Relays are not awaited: they are cut when `main` returns, as
  a comment in `frame_log.rs` (lines 146-150) acknowledges. `CutOnlyAfterGivingUp`
  says how far the wait goes: with a frame log, until its drain gives up.
* `decisions_scheme`: the WebSocket builders join "a validated base" and switch it
  to `ws` or `wss` (`realtime/websocket.rs`, line 418). The validation accepts the
  scheme in any letters, since the parser returns it in small ones, and keeps the
  text as it was written (`config.rs`, lines 254 and 277); the builders look for
  the small-letter prefixes only (`websocket.rs` 468, `sideband.rs` 115). A base
  written `HTTPS://host` starts and serves HTTP, and no WebSocket can be opened.

Two comments say what no request can observe, seen while modelling and not run:
`live/headers.rs` (lines 38-40) says that a repeated protocol header takes its
first value, but the validations in front of it refuse one (lines 138-143,
192-197); `call_create.rs` (line 219) says the guard has already recorded why a
task ended, but the guard is still alive there, and the next line records it.

Not disagreements, but worth knowing. A managed token or account id that is not
legal in a header is accepted at startup, and then every managed request is
refused, a token as a missing credential and an account as an invalid header
(`NoSilentChoice` excepts exactly this). And with an admission token and a managed
upstream, `Authorization` is a header the admission may be shown in, yet a
request that shows it there is refused as one that would forward the secret.
`HandlerIsGuarded` therefore finds the secret in one of the other two headers of
every network caller inside a handler. A test in `admission/auth.rs` (line 410)
documents it.

## 5. The proofs

The theorems hold for every value of the constants that satisfies the named
assumptions. `PumpAssumption`: the frame cap, the queue limit, the frame sizes
and the bounds on frames are natural numbers, and a peer's Close has a code and a
reason. `HttpAssumption`: the requests are finitely many and the semaphore has at
least one permit. `SessionsAssumption`: the same of the sessions and theirs.
`BoundaryAssumption`: the configurations and the callers are of their types, with
any number of values in each header. `RouteAssumption`: upstreams, requests and
bodies are of their types, each header, selector and body a sequence of any length.
`FrameLogAssumption` and `ShutdownAssumption`: the channel has room for a record,
and no relay is one of the owners of the log. `EnvironmentsAssumption` and
`SizesAssumption`: the environments are of their type, and the machine word, the
semaphore maximum and the defaults of `config.rs` are such that a default passes
the checks on it. `LimitsAssumption`: the limits of a history are positive, and one
item may estimate to no more than the whole (in the code both limits are 8192: an
item that is too large is refused for itself before the sum is).
`ProtocolLimitsAssumption`: the two caps on an offer are natural numbers.

| theorem | says |
|---|---|
| `PumpTypeCorrect` | the state of a relay is well typed |
| `PumpLossless` | a live relay loses, repeats and reorders no frame |
| `PumpAbandonsNobody` | a relay that has returned forgot no leg that was there |
| `PumpLogLeadsWire` | the frame log is never behind the wire, and one frame ahead at most |
| `PumpBoundedRetention` | a relay retains one frame cap in bytes and the pending cap in frames |
| `PumpImplementsContract` | the relay implements `RelayContract` |
| `HttpTypeCorrect` | the state of the exchanges is well typed |
| `HttpPermitsAccounted` | no permit leaks, returns twice or returns early |
| `HttpTellsTheTruth` | what an exchange recorded is what happened to it |
| `HttpFirstTerminalStands` | no terminal is overwritten (an action property) |
| `HttpImplementsPool` | the exchanges implement `PermitPool` |
| `SessionsTypeCorrect` | the state of the sessions is well typed |
| `SessionsLeakNothing` | a session that is gone holds no permit and no upstream |
| `SessionsContactInOrder` | the upstream is contacted only after the permit is had, and in the order of each dialect |
| `SessionsLegsAgree` | both legs speak the same subprotocol, and never the credential |
| `SessionsImplementPool` | the sessions implement `PermitPool` |
| `BoundaryTypeCorrect` | the state of the boundary is well typed |
| `BoundaryEchoesItsVerdict` | preflight, guard and CORS headers give one verdict, whenever the drain begins |
| `BoundaryGuardsHandlers` | what reaches a handler passed every check, and forwards no admission secret |
| `RouteTypeCorrect` | the state of a request is well typed: answered exactly with an error, contacted exactly with something sent |
| `RouteSpeaksOneDialect` | alpha, path, query and host sent upstream belong to one dialect |
| `RouteNoUnreachableArm` | what the code declares unreachable is |
| `RouteZeroContact` | a request with two readings contacts nobody |
| `RouteCredentialFits` | the upstream gets one credential, of the right domain; a missing one is the client's |
| `RouteUnsupportedIsExact` | an unsupported capability is answered with exactly the profiles that serve it |
| `RouteRegisteredIsServed` | a registered route is never answered 404 |
| `RouteOneReading` | the body a ChatGPT upstream is sent has one reading |
| `ShutdownTypeCorrect` | the state of the log and of the process is well typed |
| `ShutdownFileIsFaithful` | a successful drain lost nothing that was accepted, and the file is in order |
| `ShutdownCutsOnlyAfterGivingUp` | a relay is cut only when the drain of the log gave up, or there is no log |
| `StartupReadinessIsHonest` | the answer of the probe is true of the time it took |
| `StartupStartsAsConfigured` | a process listens only as its environment asks |
| `StartupRefusalNamesTheFault` | a refusal to start names a key that is at fault |
| `NoCutMatters`, `DecisionsBodiesAreCapped` | how a body is cut into chunks decides nothing |
| `FaultOfAnyPayload`, `DaysGoOn`, `DecisionsLogTellsTheTruth` | a line of the log gives the first fault of the payload, and the date and time |
| `BearerIsToken` | the pass of `valid_bearer` accepts the grammar of a bearer token |
| `OnlyThisCrosses`, `NothingIsPicked`, `DecisionsHeadersCross` | what is sent upstream may cross, with one owner's credential, and no repeated header is reduced to one value |
| `OffersReadAlike`, `DecisionsOffersStand` | what is sent on of an offer is read as it was, within both caps |
| `HistoriesFit`, `SessionsReadBack`, `DecisionsSessionsAsBuilt` | a built session is read back as its dialect alone, and an accepted history fits its limits |
| `VerdictsAgree`, `AdviceIsRight`, `DecisionsAnswersAgree` | the tables of errors do not contradict each other, nor the support matrix |
| `OneAddressForAll` | for every base all builders lead to one host and one root |
| `OneReadingOfCallIds`, `ModelsSurvive` | a call id has one reading wherever it is read, and a model survives a query |
| `DecisionsOneAddress` | the last three, of the cases |

*Pump.* `TypeOK` is inductive by itself. A relay can end in many places but only
through `End`, so `EndType` and `AbortType` settle the type of all of them.
`Lossless` compares what was read with what was delivered, held and queued, and
is not inductive: that a send of a data frame happens only with a frame in hand,
that only the pre-open phases have a queue, and that the hand is empty while the
loop reads, is `PipeShape`. `PipeInv == TypeOK /\ PipeShape /\ Lossless` is
inductive; lemmas on sequences say why each move (read, queue, flush, deliver)
keeps the order. `NoPeerAbandoned` speaks of the end only; `TellShape` says which
legs are being told on the way there, and `TellInv == TypeOK /\ TellShape` is
inductive. `LogLeadsWire` compares the log with the wire, between which the frame in
hand is: `Recorded` says that in a live relay the log is what was written and the
frame in hand, and `RecordInv == PipeInv /\ Recorded /\ LogLeadsWire` is inductive.

`BoundedRetention` speaks of a sum. `Retained` says that the counter of queued bytes
is that sum while the relay connects, and that the frame in hand and the queue
together stay within both caps; `RetainInv == PipeInv /\ Retained` is inductive.
`Total` is a recursive function, and what it gives for one more frame is an
induction, which is done without an operator parameter: were there a number at
which it fails there would be a least one (`LeastNumber`, from the well-foundedness
of the naturals), and it holds there.
`AddingUpExists`, `AddingUpIsUnique` and `TotalAdds` are proved so.

The refinement of `RelayContract` needs to know of each step what the contract
allows at that point: `RelayInv == PipeInv /\ TellShape /\ ByeShape`, where
`ByeShape` says that a leg is sent its Close when it is told and not before, and
that no leg of a live relay is being told.
`StepContract` sorts the actions into steps of the contract and stutters.

*HttpExchange.* A step changes one exchange and the semaphore (`StepLocal`), so
the invariant is what holds of each exchange by itself, `Here(r)`, and the count
of the permits. `Here` is needed because no property alone is inductive: that
the terminal is true (`Truth`) depends on where handler and task are (`Order`),
on which of them owns the permit (`Owner`), and on the token being canceled only
after the handler was dropped (`Cancel`). `Count` is kept because a step moves
the permit of one exchange in or out of a finite set (`StepMoves`). For the
refinement, `StepJob` sorts each step into entering, leaving or neither, and
`Count` is what gives an entering exchange room in the abstract pool.

*Sessions.* `SessionsInv` says of each session who holds its permit at which await
point (`Owner`), in which stages there can be an upstream (`Contact`), and what
is settled about the subprotocol once the client is answered (`Protocol`); `Count`
relates the permits held to the free ones. As above a step changes one session
and the semaphore.

*Boundary.* The verdict on an origin is a function of the configuration and the
caller, which no step changes (`VerdictsStand`). `BoundaryInv == TypeOK /\
Answered /\ Reached`: `Answered` ties each response to that verdict, and is what
carries a granted preflight over to the request itself; `Reached` says which
checks a request that came so far has passed. That a network caller inside a
handler showed the secret in a header of the proxy's own is `AdmittedByOwnHeader`:
the secret is in some header that is looked at, and is not in `Authorization`.

*RouteContract.* What a request is classified as is a function of it and of the
upstream, which no step changes; `Passed` says so, and which refusals a request
that came so far did not meet. `PassedAll` turns the absence of a refusal into the
negation of each check of a list, and `RestPasses`, `SocketPasses`, `AliasPasses`
and `MetadataPasses` say what that means on each route. `CapabilityTyped` is the
argument that no unreachable arm is reached; `UpstreamHearsOne` goes through the
four ways a URL is built. `RouteInv == TypeOK /\ Passed /\ SpeaksOneDialect` is
inductive, and `NoUnreachableArm` and `ZeroContactIfAmbiguous` follow from `Passed`.

What is answered is a second invariant on top of it, `AnswerInv`. `Answers` says what
each of three refusals means; `RouteRefuses`, `MetadataRefuses` and `BodyRefuses`
say which of them a list of checks can give. `LookedUp` says from which stage on the
support matrix has been asked, earlier for an official request than for a private
one, and `LacksItsOwn` needs it: that a supported request lacks a credential only if
the client was to bring it. `Credentialed` ties the credential that is sent to the
one that was checked, and `OfficialRefused` keeps an official request from a ChatGPT
profile's later stages. `OneReading` is inductive with these; `SentHasOneReading`
counts the fields of the two bodies that can be sent. The reading of a body is
stated by which field is the first to fail and which is the first of its name, so
that no fold stands between the fields and the refusal.

*Shutdown.* `LogInv == LogTypeOK(Owners) /\ Kept /\ InOrder` follows a record: once
handed over it is in the channel, in the writer's hands, in the file or among the
lost (`Kept`), and these places, end to end, hold the records of a relay in the
order of its frames (`InOrder`). What makes a successful drain mean that nothing is
left on the way is in `ProcessInv == ProcessOK /\ Settled /\ Cloned /\
CutOnlyAfterGivingUp`: a writer finishes only when no clone is left, and has then
written everything (`Settled`); a relay that runs, and the router while it serves,
have a clone (`Cloned`).

*Startup.* `ProbeInv == ProbeTypeOK /\ ProbeIsCurrent /\ ReadinessIsHonest`:
`ProbeIsCurrent` relates the reads already made to what stood in the way since the
probe began. `StartInv` says that what `main` holds is what the readers make of the
environment, which does not change. `TextErrorSays` and `LimitErrorSays` say of a
refusal which check failed, `SettledIsSound` what the environment of a process that
was not refused looks like, and `RefusalIsCurable` that another value of the named
key alone gets past the check.

*Decisions.* A loop is a recursive function on positions, and what it gives is an
induction up to a position (`UpTo`, by the least counterexample). `ReadAll` and
`Total` are two such loops: `Holds` relates them after each chunk, and `NoCutMatters`
reads the answers of both readers off it, for a body of any number of chunks.
A payload is read by `Runs`, from offset to offset. `CharacterShows` says that the
lead byte of a character gives its length, so that a run has one continuation
(`RunsGoOn`), a sound run is the beginning of the valid one (`RunsInside`), and a
lead byte begins a character wherever it is (`LeadsBegin`). So a replacement
character found anywhere is one of the text, and the first begins where the sound
run ends (`BrokenFollowsSound`): `FaultOfAnyPayload` holds of any length.
The calendar needs no induction but that of the days themselves. `LiesIn` says which
year of an era of 146097 days a day is in, `YearHolds` that the formula of
`civil_from_days` finds it and `YearIsUnique` that there is no other; `MonthStep`,
`SameYear` and `NewYear` go from one day to the next, and `EraStep` from one era to
the next. Each quotient is known only by its bounds (`IsQuotient`). `DaysGoOn` is
then the step of `DecisionsLogTellsTheTruth`.

*Headers.* `OfficialPasses`, `SocketPasses`, `CallPasses` and `SidebandPasses` say what
a request looks like that its validation did not refuse, `BuildingPasses` and
`BuildingMisses` what its policy then lacks; `OfficialCrosses`, `SocketCrosses` and
`PrivateCrosses` read each name off the builder of the route, and `EachNameCrosses`
puts them together. That a credential of the caller crosses only as a bearer token
needs `PassTells`: after each letter the two flags say whether padding has begun and
whether a letter of the base came before it.

*Offers.* The parser goes through fields and, within each, through tokens: two loops,
each with its invariant. `Sound` says of what has been read that its tokens are well
formed and no two of a kind; `OffersTell` and `FieldsTell` carry it over the loops, with the
bytes counted so far. `CanonicalIs` says how long the tokens are once joined, which is
what makes the joined field readable under the same caps (`OneFieldTells`).

*Sessions and errors.* `TotalsCompare` bounds a sum by another, item by item, which is
how estimated tokens bound bytes (`ItemsAreEstimated`). What is read back of a session
is a field of two markers, in which `OfferAndSession` finds the first of each name.
The tables of errors are finite: `CodesTellStatus` and `TablesAgree` go through them,
`RequiredAreServed` compares them with the support matrix.

*Escapes.* The decoder and the scan that the strict readers make before it go through a
text turn by turn, and `ReadAlike` relates them after each: they skip the same digits; a
percent sign that begins no escape is malformed to the one and is left in what the other
has read; and so is every character that is neither that sign nor a digit
(`ReadersAlike`). `OneReadingOfCallIds` follows, because neither the sign nor a plus nor a
space is in an id that is accepted. What is encoded is a sequence of blocks of one or
three characters; `FlatPlaces` says where each is, and `BlockReads` that the decoder
enters and leaves each with no digit to skip, having read its character.

*Bases.* `StemsAre` takes a base apart: its stem without slashes and without `/v1`, which
every builder starts from, whether it strips the suffix, appends to it or looks for it.
Then each URL is the stem, `/v1` and a path of its own (`OfficialIs`, `CallsAreMadeAt`,
`SocketsAreJoinedAt`), and equalities between them are the associativity of a join.

Liveness needs ENABLED under fairness, which is outside the prover. The induction
theorems of the library need an operator parameter; an induction by the least
counterexample does not, and is used where a sum or a position matters.

## 6. Only model-checked, and not modelled

Liveness (`NothingPinsTheRelay`, `ExpiryIsNoticed`, `ExchangesEnd`,
`HandshakesEnd`, `SignalEndsProcess`) rests on fairness and ENABLED and stays with
TLC. Every other property of a passing run is stated by a theorem. The properties
of the runs that expect a violation are false, and have none.

What is proved of `decisions` is proved of every input of the type (any number of
headers, fields, tokens, items, characters), except that the names of headers, the
forms of a credential, the classes of bytes, and the errors, profiles and capabilities
are the finite sets of the code or of the abstraction.

Not modelled:

* `live/location.rs`: it says itself that the relay passes a Location through
  untouched and that the parser exists for tests.
* In `realtime/subprotocol.rs`, which bytes a token may have: one that it may not
  have makes the token malformed.
* In `observability/mod.rs`, the subscriber and its filter: log output.
* Of URLs, headers and errors, whatever no two decisions can disagree about:
  ports, percent-encoding beyond the characters of `Addresses`, the wording of
  messages.
* `lib.rs` and the module files, which only declare modules; the conformance
  harness, the scripts and CI, which are around the service and not part of it.

## 7. Plan

Done, in this order: the pump and its contract with their proofs, the HTTP
exchange, the permit pool, the sessions, the frame log and the shutdown, the
boundary, the route contract with capabilities, header policies and call bodies;
then startup and readiness, headers, addresses, log records, capped bodies, wire
sessions, error answers, offered subprotocols, and the proofs about the boundary
and the route contract.

Then the proofs about the frame log, the shutdown and startup, the log, the
retention and the refinement of the pump, and the rest of the route contract, for
which the reading of a body was restated without a fold.

Then capped bodies, for which the two loops were stated as recursive functions, the
fault of a payload and the calendar.

Then the rest of `decisions`, for which the folds over tokens, letters, characters and
items were stated as recursive functions: headers, offers, sessions, errors, call ids,
models and bases.

With that every safety property of a passing run has its theorem. What could follow is
breadth, not depth: the bytes a token of an offer may have, ports and the rest of
percent-encoding, and the parser of a Location once the relay uses it.
