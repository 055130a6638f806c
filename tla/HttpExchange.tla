---------------------------- MODULE HttpExchange ----------------------------
(***************************************************************************)
(* HTTP exchanges through the relay: src/relay/http.rs with the two        *)
(* handlers that use it, src/realtime/http.rs (official) and               *)
(* src/live/call_create.rs (private).  The checks a handler makes before   *)
(* begin_exchange keep no state and are not here.                          *)
(*                                                                         *)
(* Three parties share an exchange: the handler, which the server drops    *)
(* when its client leaves; the guard in the handler, whose drop records a  *)
(* cancellation and then cancels the token, in two steps; and the task     *)
(* that sends the request upstream and outlives the handler.  All three    *)
(* write the terminal, and the first one wins.                             *)
(*                                                                         *)
(* The timers are abstracted: request_read_timeout and upstream_timeout    *)
(* are results a read and a poll may have.                                 *)
(***************************************************************************)
EXTENDS Naturals, FiniteSets

CONSTANTS Requests,   \* the exchanges: one per request that reaches a handler
          MaxActive,  \* limits.active_requests
          Parses      \* does the profile parse a private body (ChatGPT, backend)?

ASSUME HttpAssumption ==
    /\ IsFiniteSet(Requests)
    /\ MaxActive \in Nat \ {0}
    /\ Parses \in BOOLEAN

VARIABLES dialect,   \* dialect[r]: which of the two handlers serves r
          handler,   \* handler[r]: where the handler of r is
          free,      \* permits the semaphore has left
          permit,    \* permit[r]: who owns the permit of r
          terminal,  \* terminal[r]: ExchangeShared.terminal
          guard,     \* guard[r]: ExchangeGuard: armed, dropping or gone
          canceled,  \* canceled[r]: ExchangeShared.cancellation
          task,      \* task[r]: where the spawned task is
          result,    \* result[r]: what its select gave
          answer     \* answer[r]: what the handler returned

vars == <<dialect, handler, free, permit, terminal, guard, canceled, task,
          result, answer>>

ExchangeTerminal == {"InFlight", "Completed", "Failed", "TimedOut", "Canceled"}

BodyError == {"BodyTooLarge", "BodyUnreadable", "ClientCanceled",
              "RealtimeRequestBodyTimeout"}

\* Multipart, session evidence: all end as Failed with a status of their own.
CallError == {"InvalidCall", "UnsupportedSession"}

\* execute_capped, and the timeout around it.
WorkResult == {"Ok", "UpstreamFailed", "ResponseTooLarge", "UpstreamTimeout"}

Answer == WorkResult \cup BodyError \cup CallError
          \cup {"TooManyActiveRealtimeRequests"}

-----------------------------------------------------------------------------
(* A definition named ...Slip is not used by the specification: it is a      *)
(* wrong version of the definition that follows it, kept to show that a      *)
(* property of this module notices the difference.                           *)

\* finish_error of both handlers, and the match in spawn_execute.
TerminalOf(outcome) ==
    CASE outcome = "Ok" -> "Completed"
      [] outcome = "ClientCanceled" -> "Canceled"
      [] outcome \in {"RealtimeRequestBodyTimeout", "UpstreamTimeout"} -> "TimedOut"
      [] OTHER -> "Failed"

FinishSlip(current, next) == next

\* ExchangeLifecycle::finish, the first writer wins.
Finish(current, next) == IF current = "InFlight" THEN next ELSE current

\* Whose permit goes back to the semaphore when the handler of r ends: its own,
\* never the one the task holds.
HandlerReleasesSlip(r) == permit[r] # "nobody"
HandlerReleases(r) == permit[r] = "handler"

Release(r) ==
    /\ free' = free + 1
    /\ permit' = [permit EXCEPT ![r] = "nobody"]

HandlerGivesBack(r) ==
    IF HandlerReleases(r) THEN Release(r) ELSE UNCHANGED <<free, permit>>

(***************************************************************************)
(* The handler returns the answer `outcome`, having recorded the terminal  *)
(* `own`.  Its guard is dropped last, and records a cancellation if no     *)
(* terminal was recorded before.                                           *)
(***************************************************************************)
Return(r, outcome, own) ==
    /\ handler' = [handler EXCEPT ![r] = "answered"]
    /\ answer' = [answer EXCEPT ![r] = outcome]
    /\ guard' = [guard EXCEPT ![r] = "gone"]
    /\ terminal' = [terminal EXCEPT ![r] = Finish(own, "Canceled")]
    /\ canceled' = [canceled EXCEPT ![r] = @ \/ own = "InFlight"]
    /\ HandlerGivesBack(r)

-----------------------------------------------------------------------------
Init ==
    /\ dialect \in [Requests -> {"official", "private"}]
    /\ handler = [r \in Requests |-> "new"]
    /\ free = MaxActive
    /\ permit = [r \in Requests |-> "nobody"]
    /\ terminal = [r \in Requests |-> "InFlight"]
    /\ guard = [r \in Requests |-> "none"]
    /\ canceled = [r \in Requests |-> FALSE]
    /\ task = [r \in Requests |-> "none"]
    /\ result = [r \in Requests |-> "none"]
    /\ answer = [r \in Requests |-> "none"]

-----------------------------------------------------------------------------
(* The handler.                                                            *)

Begin(r) ==
    /\ handler[r] = "new"
    /\ free > 0
    /\ free' = free - 1
    /\ permit' = [permit EXCEPT ![r] = "handler"]
    /\ guard' = [guard EXCEPT ![r] = "armed"]
    /\ handler' = [handler EXCEPT ![r] = "reading"]
    /\ UNCHANGED <<dialect, terminal, canceled, task, result, answer>>

Refuse(r) ==
    /\ handler[r] = "new"
    /\ free = 0
    /\ Return(r, "TooManyActiveRealtimeRequests", Finish(terminal[r], "Failed"))
    /\ UNCHANGED <<dialect, task, result>>

BodyFails(r, error) ==
    /\ handler[r] = "reading"
    /\ Return(r, error, Finish(terminal[r], TerminalOf(error)))
    /\ UNCHANGED <<dialect, task, result>>

MustParse(r) == Parses /\ dialect[r] = "private"

StartParsing(r) ==
    /\ handler[r] = "reading"
    /\ MustParse(r)
    /\ handler' = [handler EXCEPT ![r] = "parsing"]
    /\ UNCHANGED <<dialect, free, permit, terminal, guard, canceled, task,
                   result, answer>>

CallRejected(r, error) ==
    /\ handler[r] = "parsing"
    /\ Return(r, error, Finish(terminal[r], TerminalOf(error)))
    /\ UNCHANGED <<dialect, task, result>>

\* The body is read, and parsed if it must be.
Prepared(r) ==
    \/ handler[r] = "reading" /\ ~MustParse(r)
    \/ handler[r] = "parsing"

CannotBuildSlip(r) ==
    /\ Prepared(r)
    /\ Return(r, "UpstreamFailed", terminal[r])
    /\ UNCHANGED <<dialect, task, result>>

\* official_url or the request builder fails.
CannotBuild(r) ==
    /\ Prepared(r)
    /\ Return(r, "UpstreamFailed", Finish(terminal[r], "Failed"))
    /\ UNCHANGED <<dialect, task, result>>

\* The task that names the permit `_` does not capture it.
SpawnSlip(r) ==
    /\ Prepared(r)
    /\ handler' = [handler EXCEPT ![r] = "waiting"]
    /\ Release(r)
    /\ task' = [task EXCEPT ![r] = "parked"]
    /\ UNCHANGED <<dialect, terminal, guard, canceled, result, answer>>

\* spawn_execute moves the permit into the task.
Spawn(r) ==
    /\ Prepared(r)
    /\ handler' = [handler EXCEPT ![r] = "waiting"]
    /\ permit' = [permit EXCEPT ![r] = "task"]
    /\ task' = [task EXCEPT ![r] = "parked"]
    /\ UNCHANGED <<dialect, free, terminal, guard, canceled, result, answer>>

\* The task's own terminal is recorded before its result can be awaited.
Respond(r) ==
    /\ handler[r] = "waiting"
    /\ task[r] = "exited"
    /\ Return(r, result[r], terminal[r])
    /\ UNCHANGED <<dialect, task, result>>

JoinErrorSlip(r) == FALSE

\* The JoinError arms: the two handlers answer differently.
JoinError(r) ==
    /\ handler[r] = "waiting"
    /\ task[r] = "panicked"
    /\ Return(r, IF dialect[r] = "official" THEN "UpstreamFailed" ELSE "ClientCanceled",
              Finish(terminal[r], "Failed"))
    /\ UNCHANGED <<dialect, task, result>>

(***************************************************************************)
(* The client leaves and the server drops the handler.  What the handler   *)
(* owned is dropped before the guard, which records the cancellation if it *)
(* is the first to record anything.                                        *)
(***************************************************************************)
ClientLeaves(r) ==
    /\ handler[r] \in {"reading", "parsing", "waiting"}
    /\ handler' = [handler EXCEPT ![r] = "dropped"]
    /\ terminal' = [terminal EXCEPT ![r] = Finish(terminal[r], "Canceled")]
    /\ guard' = [guard EXCEPT ![r] = IF terminal[r] = "InFlight" THEN "dropping" ELSE "gone"]
    /\ HandlerGivesBack(r)
    /\ UNCHANGED <<dialect, canceled, task, result, answer>>

GuardCancels(r) ==
    /\ guard[r] = "dropping"
    /\ guard' = [guard EXCEPT ![r] = "gone"]
    /\ canceled' = [canceled EXCEPT ![r] = TRUE]
    /\ UNCHANGED <<dialect, handler, free, permit, terminal, task, result, answer>>

-----------------------------------------------------------------------------
(* The task.  A poll of its biased select looks at the token first, and at *)
(* the work only when the token was not canceled; the token may be         *)
(* canceled while the work is being polled.                                *)

PollStartsSlip(r) ==
    /\ task[r] = "parked"
    /\ task' = [task EXCEPT ![r] = "polling"]
    /\ UNCHANGED <<dialect, handler, free, permit, terminal, guard, canceled,
                   result, answer>>

PollStarts(r) ==
    /\ task[r] = "parked"
    /\ IF canceled[r]
       THEN /\ task' = [task EXCEPT ![r] = "decided"]
            /\ result' = [result EXCEPT ![r] = "ClientCanceled"]
       ELSE /\ task' = [task EXCEPT ![r] = "polling"]
            /\ UNCHANGED result
    /\ UNCHANGED <<dialect, handler, free, permit, terminal, guard, canceled, answer>>

WorkPending(r) ==
    /\ task[r] = "polling"
    /\ task' = [task EXCEPT ![r] = "parked"]
    /\ UNCHANGED <<dialect, handler, free, permit, terminal, guard, canceled,
                   result, answer>>

WorkEnds(r) ==
    /\ task[r] = "polling"
    /\ \E outcome \in WorkResult :
          /\ result' = [result EXCEPT ![r] = outcome]
          /\ task' = [task EXCEPT ![r] = "decided"]
    /\ UNCHANGED <<dialect, handler, free, permit, terminal, guard, canceled, answer>>

TaskFinishes(r) ==
    /\ task[r] = "decided"
    /\ task' = [task EXCEPT ![r] = "recorded"]
    /\ terminal' = [terminal EXCEPT ![r] = Finish(terminal[r], TerminalOf(result[r]))]
    /\ UNCHANGED <<dialect, handler, free, permit, guard, canceled, result, answer>>

TaskExits(r) ==
    /\ task[r] = "recorded"
    /\ task' = [task EXCEPT ![r] = "exited"]
    /\ Release(r)
    /\ UNCHANGED <<dialect, handler, terminal, guard, canceled, result, answer>>

\* A panic of the HTTP client unwinds the task: it records nothing.
TaskPanics(r) ==
    /\ task[r] = "polling"
    /\ task' = [task EXCEPT ![r] = "panicked"]
    /\ Release(r)
    /\ UNCHANGED <<dialect, handler, terminal, guard, canceled, result, answer>>

-----------------------------------------------------------------------------
HandlerStep(r) ==
    \/ Begin(r)
    \/ Refuse(r)
    \/ \E error \in BodyError : BodyFails(r, error)
    \/ StartParsing(r)
    \/ \E error \in CallError : CallRejected(r, error)
    \/ CannotBuild(r)
    \/ Spawn(r)
    \/ Respond(r)
    \/ JoinError(r)

TaskStep(r) ==
    \/ PollStarts(r)
    \/ WorkPending(r)
    \/ WorkEnds(r)
    \/ TaskFinishes(r)
    \/ TaskExits(r)
    \/ TaskPanics(r)

Next == \E r \in Requests :
            HandlerStep(r) \/ TaskStep(r) \/ ClientLeaves(r) \/ GuardCancels(r)

Spec == Init /\ [][Next]_vars

(***************************************************************************)
(* Handlers, tasks and drops run; the body read is bounded by              *)
(* request_read_timeout.  Nothing is assumed of the upstream, nor that     *)
(* upstream_timeout ever elapses: a poll may always be pending.            *)
(***************************************************************************)
Fairness ==
    \A r \in Requests :
        /\ WF_vars(HandlerStep(r) /\ handler[r] # "new")
        /\ WF_vars(GuardCancels(r))
        /\ WF_vars(TaskStep(r))

FairSpec == Spec /\ Fairness

\* upstream_timeout: a task that is polled again and again ends its work.
UpstreamTimeoutElapses == \A r \in Requests : SF_vars(WorkEnds(r))

-----------------------------------------------------------------------------
(* Properties.                                                             *)

\* Type correctness of the exchanges of src/relay/http.rs and of the handlers.
TypeOK ==
    /\ dialect \in [Requests -> {"official", "private"}]
    /\ handler \in [Requests -> {"new", "reading", "parsing", "waiting",
                                 "answered", "dropped"}]
    /\ free \in 0..MaxActive
    /\ permit \in [Requests -> {"nobody", "handler", "task"}]
    /\ terminal \in [Requests -> ExchangeTerminal]
    /\ guard \in [Requests -> {"none", "armed", "dropping", "gone"}]
    /\ canceled \in [Requests -> BOOLEAN]
    /\ task \in [Requests -> {"none", "parked", "polling", "decided", "recorded",
                              "exited", "panicked"}]
    /\ result \in [Requests -> WorkResult \cup {"none", "ClientCanceled"}]
    /\ answer \in [Requests -> Answer \cup {"none"}]

TaskLives(r) == task[r] \in {"parked", "polling", "decided", "recorded"}

\* What a permit is meant to bound: a body being read or parsed, or an upstream
\* exchange in progress, whether or not its client is still there.
AtWork(r) == handler[r] \in {"reading", "parsing"} \/ TaskLives(r)

\* No permit is leaked or given back twice, and the permit of an exchange is out
\* exactly while the exchange is at work: the ownership passes from the handler
\* to the task, and a client that leaves does not free the permit of a task that
\* still runs.
PermitsAccounted ==
    /\ free + Cardinality({r \in Requests : permit[r] # "nobody"}) = MaxActive
    /\ \A r \in Requests : permit[r] # "nobody" <=> AtWork(r)

\* The record of an exchange tells what happened to it, although the handler,
\* its guard and the task race to write it: an answer has the terminal of its
\* own kind (a task that panicked has Failed), and a dropped handler leaves a
\* terminal, which is Canceled unless a task came first.  And a client that is
\* still served never has its exchange canceled under it: every path on which a
\* handler returns has recorded a terminal before its guard is dropped, so only
\* the drop of an unfinished handler cancels the token.
TerminalTellsTheTruth ==
    \A r \in Requests :
        /\ handler[r] = "answered" =>
              terminal[r] = (IF task[r] = "panicked" THEN "Failed"
                                                     ELSE TerminalOf(answer[r]))
        /\ handler[r] = "dropped" =>
              /\ terminal[r] # "InFlight"
              /\ task[r] = "none" => terminal[r] = "Canceled"
        /\ canceled[r] => handler[r] = "dropped"

\* The terminal is written once (ExchangeLifecycle::finish): of the handler, the
\* guard and the task, whoever comes later changes nothing.
FirstTerminalStands ==
    [][\A r \in Requests :
          terminal[r] # "InFlight" => terminal'[r] = terminal[r]]_vars

\* The request semaphore of src/app.rs bounds the exchanges that are really at
\* work, not just the permits that are out.
Pool == INSTANCE PermitPool
          WITH Jobs <- Requests, Size <- MaxActive,
               working <- {r \in Requests : AtWork(r)},
               left <- {r \in Requests : /\ handler[r] # "new"
                                         /\ ~AtWork(r)
                                         /\ answer[r] # "TooManyActiveRealtimeRequests"}
ImplementsPool == Pool!PoolSpec

\* A client that leaves stops the work done for it, even when the upstream never
\* answers and its timeout is still far away.
AbandonedWorkStops ==
    \A r \in Requests : handler[r] = "dropped" ~> ~AtWork(r)

\* Every permit comes back, and every exchange is answered or dropped, given only
\* that upstream_timeout elapses.
EveryExchangeEnds ==
    UpstreamTimeoutElapses =>
        \A r \in Requests :
            handler[r] = "reading" ~> (handler[r] \in {"answered", "dropped"} /\ ~AtWork(r))

\* Nothing an exchange was given is kept for good.
ExchangesEnd == AbandonedWorkStops /\ EveryExchangeEnds
=============================================================================
