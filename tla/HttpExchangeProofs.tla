------------------------- MODULE HttpExchangeProofs -------------------------
(***************************************************************************)
(* Theorems about the HTTP exchanges (module HttpExchange), for any finite *)
(* set of requests and any number of permits.                              *)
(*                                                                         *)
(* A step concerns one exchange and the semaphore.  The inductive          *)
(* invariant HttpInv is therefore what holds of each exchange by itself,   *)
(* Here(r), with the count of the permits.  Here(r) ties the owner of the  *)
(* permit to the places of handler and task, and the terminal to what      *)
(* handler and task have recorded so far.                                  *)
(***************************************************************************)
EXTENDS HttpExchange, FiniteSetTheorems, TLAPS

HandlerPlace == {"new", "reading", "parsing", "waiting", "answered", "dropped"}
TaskPlace == {"none", "parked", "polling", "decided", "recorded", "exited", "panicked"}
Results == WorkResult \cup {"none", "ClientCanceled"}
Answers == Answer \cup {"none"}

Functions ==
    /\ dialect \in [Requests -> {"official", "private"}]
    /\ handler \in [Requests -> HandlerPlace]
    /\ permit \in [Requests -> {"nobody", "handler", "task"}]
    /\ terminal \in [Requests -> ExchangeTerminal]
    /\ guard \in [Requests -> {"none", "armed", "dropping", "gone"}]
    /\ canceled \in [Requests -> BOOLEAN]
    /\ task \in [Requests -> TaskPlace]
    /\ result \in [Requests -> Results]
    /\ answer \in [Requests -> Answers]

(* Who owns the permit. *)
Owner(r) ==
    /\ permit[r] = "handler" <=> handler[r] \in {"reading", "parsing"}
    /\ permit[r] = "task" <=> TaskLives(r)

(* No task before the handler has spawned it, and a handler that answered  *)
(* has no task left; only then is there an answer.                         *)
Order(r) ==
    /\ handler[r] \in {"new", "reading", "parsing"} => task[r] = "none"
    /\ handler[r] = "waiting" => task[r] # "none"
    /\ handler[r] = "answered" => task[r] \in {"none", "exited", "panicked"}
    /\ handler[r] # "answered" => answer[r] = "none"

(* Only a dropped handler has its token canceled, and only a canceled task *)
(* ends as ClientCanceled.                                                 *)
Cancel(r) ==
    /\ guard[r] = "dropping" => handler[r] = "dropped"
    /\ canceled[r] => handler[r] = "dropped"
    /\ task[r] \in {"decided", "recorded", "exited"} => result[r] # "none"
    /\ result[r] = "ClientCanceled" => handler[r] = "dropped"

(* What is recorded, and when. *)
Truth(r) ==
    /\ handler[r] \in {"new", "reading", "parsing"} => terminal[r] = "InFlight"
    /\ handler[r] = "waiting" =>
          terminal[r] = (IF task[r] \in {"recorded", "exited"}
                         THEN TerminalOf(result[r]) ELSE "InFlight")
    /\ handler[r] = "answered" =>
          terminal[r] = (IF task[r] = "panicked" THEN "Failed"
                                                 ELSE TerminalOf(answer[r]))
    /\ handler[r] = "dropped" =>
          /\ terminal[r] # "InFlight"
          /\ task[r] = "none" => terminal[r] = "Canceled"

Here(r) == Owner(r) /\ Order(r) /\ Cancel(r) /\ Truth(r)

Held == {r \in Requests : permit[r] # "nobody"}

Count == free \in Nat /\ free + Cardinality(Held) = MaxActive

HttpInv == Functions /\ (\A r \in Requests : Here(r)) /\ Count

(* The variables of an exchange, at r and elsewhere. *)
Elsewhere(r) ==
    \A q \in Requests \ {r} :
        /\ handler'[q] = handler[q]
        /\ permit'[q] = permit[q]
        /\ terminal'[q] = terminal[q]
        /\ guard'[q] = guard[q]
        /\ canceled'[q] = canceled[q]
        /\ task'[q] = task[q]
        /\ result'[q] = result[q]
        /\ answer'[q] = answer[q]

Step(r) == HandlerStep(r) \/ TaskStep(r) \/ ClientLeaves(r) \/ GuardCancels(r)

-----------------------------------------------------------------------------
\* What is recorded is a terminal and never InFlight (finish_error of the handlers
\* and the match in spawn_execute).
LEMMA TerminalOfType ==
    ASSUME NEW outcome
    PROVE  TerminalOf(outcome) \in ExchangeTerminal \ {"InFlight"}
BY Zenon DEF TerminalOf, ExchangeTerminal

\* ExchangeLifecycle::finish keeps a terminal a terminal.
LEMMA FinishType ==
    ASSUME NEW current \in ExchangeTerminal, NEW next \in ExchangeTerminal
    PROVE  Finish(current, next) \in ExchangeTerminal
BY DEF Finish

-----------------------------------------------------------------------------
(* Every variable stays a function of its type, and a step of one exchange *)
(* leaves the others alone.                                                *)

\* Releasing a permit: drop of the OwnedSemaphorePermit.
LEMMA ReleaseLocal ==
    ASSUME Functions, NEW r \in Requests, Release(r)
    PROVE  /\ permit' \in [Requests -> {"nobody", "handler", "task"}]
           /\ \A q \in Requests \ {r} : permit'[q] = permit[q]
BY DEF Functions, Release

\* The same when the handler gives back only what it owns.
LEMMA GiveBackLocal ==
    ASSUME Functions, NEW r \in Requests, HandlerGivesBack(r)
    PROVE  /\ permit' \in [Requests -> {"nobody", "handler", "task"}]
           /\ \A q \in Requests \ {r} : permit'[q] = permit[q]
<1>1. CASE HandlerReleases(r)
  BY <1>1, ReleaseLocal DEF HandlerGivesBack
<1>2. CASE ~HandlerReleases(r)
  BY <1>2 DEF HandlerGivesBack, Functions
<1> QED
  BY <1>1, <1>2

\* A handler that answers changes its own exchange only: the return paths of both
\* handlers, with the drop of their guard.
LEMMA ReturnLocal ==
    ASSUME Functions, NEW r \in Requests,
           NEW outcome \in Answers, NEW own \in ExchangeTerminal,
           Return(r, outcome, own), UNCHANGED <<dialect, task, result>>
    PROVE  Functions' /\ Elsewhere(r)
<1>1. Finish(own, "Canceled") \in ExchangeTerminal
  BY FinishType DEF ExchangeTerminal
<1>2. /\ permit' \in [Requests -> {"nobody", "handler", "task"}]
      /\ \A q \in Requests \ {r} : permit'[q] = permit[q]
  BY GiveBackLocal DEF Return
<1>3. /\ handler' \in [Requests -> HandlerPlace]
      /\ \A q \in Requests \ {r} : handler'[q] = handler[q]
  BY DEF Return, Functions, HandlerPlace
<1>4. /\ answer' \in [Requests -> Answers]
      /\ \A q \in Requests \ {r} : answer'[q] = answer[q]
  BY DEF Return, Functions
<1>5. /\ guard' \in [Requests -> {"none", "armed", "dropping", "gone"}]
      /\ \A q \in Requests \ {r} : guard'[q] = guard[q]
  BY DEF Return, Functions
<1>6. /\ terminal' \in [Requests -> ExchangeTerminal]
      /\ \A q \in Requests \ {r} : terminal'[q] = terminal[q]
  BY <1>1 DEF Return, Functions
<1>7. /\ canceled' \in [Requests -> BOOLEAN]
      /\ \A q \in Requests \ {r} : canceled'[q] = canceled[q]
  BY DEF Return, Functions
<1> QED
  BY <1>2, <1>3, <1>4, <1>5, <1>6, <1>7 DEF Functions, Elsewhere

\* A step of the handler, of the task or of a drop changes its own exchange only.
LEMMA StepLocal ==
    ASSUME Functions, NEW r \in Requests, Step(r)
    PROVE  Functions' /\ Elsewhere(r)
<1> USE DEF HandlerPlace, TaskPlace
<1>1. CASE Begin(r)
  BY <1>1 DEF Begin, Functions, Elsewhere
<1>2. CASE Refuse(r)
  <2>1. "TooManyActiveRealtimeRequests" \in Answers
    BY Zenon DEF Answers, Answer
  <2>2. Finish(terminal[r], "Failed") \in ExchangeTerminal
    BY FinishType DEF Functions, ExchangeTerminal
  <2> QED
    BY <1>2, <2>1, <2>2, ReturnLocal DEF Refuse
<1>3. ASSUME NEW error \in BodyError, BodyFails(r, error)
      PROVE  Functions' /\ Elsewhere(r)
  <2>1. error \in Answers
    BY Zenon DEF Answers, Answer
  <2>2. Finish(terminal[r], TerminalOf(error)) \in ExchangeTerminal
    BY FinishType, TerminalOfType DEF Functions
  <2> QED
    BY <1>3, <2>1, <2>2, ReturnLocal DEF BodyFails
<1>4. CASE StartParsing(r)
  BY <1>4 DEF StartParsing, Functions, Elsewhere
<1>5. ASSUME NEW error \in CallError, CallRejected(r, error)
      PROVE  Functions' /\ Elsewhere(r)
  <2>1. error \in Answers
    BY Zenon DEF Answers, Answer
  <2>2. Finish(terminal[r], TerminalOf(error)) \in ExchangeTerminal
    BY FinishType, TerminalOfType DEF Functions
  <2> QED
    BY <1>5, <2>1, <2>2, ReturnLocal DEF CallRejected
<1>6. CASE CannotBuild(r)
  <2>1. "UpstreamFailed" \in Answers
    BY Zenon DEF Answers, Answer, WorkResult
  <2>2. Finish(terminal[r], "Failed") \in ExchangeTerminal
    BY FinishType DEF Functions, ExchangeTerminal
  <2> QED
    BY <1>6, <2>1, <2>2, ReturnLocal DEF CannotBuild
<1>7. CASE Spawn(r)
  BY <1>7 DEF Spawn, Functions, Elsewhere
<1>8. CASE Respond(r)
  <2>1. result[r] \in Answers
    <3>1. result[r] \in Results
      BY DEF Functions
    <3> QED
      BY <3>1, Zenon DEF Results, Answers, Answer, BodyError
  <2>2. terminal[r] \in ExchangeTerminal
    BY DEF Functions
  <2> QED
    BY <1>8, <2>1, <2>2, ReturnLocal DEF Respond
<1>9. CASE JoinError(r)
  <2>1. (IF dialect[r] = "official" THEN "UpstreamFailed" ELSE "ClientCanceled") \in Answers
    BY Zenon DEF Answers, Answer, WorkResult, BodyError
  <2>2. Finish(terminal[r], "Failed") \in ExchangeTerminal
    BY FinishType DEF Functions, ExchangeTerminal
  <2> QED
    BY <1>9, <2>1, <2>2, ReturnLocal DEF JoinError
<1>10. CASE ClientLeaves(r)
  <2>1. Finish(terminal[r], "Canceled") \in ExchangeTerminal
    BY FinishType DEF Functions, ExchangeTerminal
  <2>2. /\ permit' \in [Requests -> {"nobody", "handler", "task"}]
        /\ \A q \in Requests \ {r} : permit'[q] = permit[q]
    BY <1>10, GiveBackLocal DEF ClientLeaves
  <2> QED
    BY <1>10, <2>1, <2>2 DEF ClientLeaves, Functions, Elsewhere
<1>11. CASE GuardCancels(r)
  BY <1>11 DEF GuardCancels, Functions, Elsewhere
<1>12. CASE PollStarts(r)
  <2>1. "ClientCanceled" \in Results
    BY Zenon DEF Results
  <2> QED
    BY <1>12, <2>1 DEF PollStarts, Functions, Elsewhere
<1>13. CASE WorkPending(r)
  BY <1>13 DEF WorkPending, Functions, Elsewhere
<1>14. CASE WorkEnds(r)
  <2>1. PICK outcome \in WorkResult :
            /\ result' = [result EXCEPT ![r] = outcome]
            /\ task' = [task EXCEPT ![r] = "decided"]
    BY <1>14 DEF WorkEnds
  <2>2. outcome \in Results
    BY Zenon DEF Results
  <2> QED
    BY <1>14, <2>1, <2>2 DEF WorkEnds, Functions, Elsewhere
<1>15. CASE TaskFinishes(r)
  <2>1. Finish(terminal[r], TerminalOf(result[r])) \in ExchangeTerminal
    BY FinishType, TerminalOfType DEF Functions
  <2> QED
    BY <1>15, <2>1 DEF TaskFinishes, Functions, Elsewhere
<1>16. CASE TaskExits(r)
  BY <1>16, ReleaseLocal DEF TaskExits, Functions, Elsewhere
<1>17. CASE TaskPanics(r)
  BY <1>17, ReleaseLocal DEF TaskPanics, Functions, Elsewhere
<1> QED
  BY <1>1, <1>2, <1>3, <1>4, <1>5, <1>6, <1>7, <1>8, <1>9, <1>10, <1>11, <1>12,
     <1>13, <1>14, <1>15, <1>16, <1>17 DEF Step, HandlerStep, TaskStep

-----------------------------------------------------------------------------
(* Here(r) holds after a step of r.                                        *)

\* The answers of a handler that failed or was refused stand for Failed.
LEMMA FailedAnswers ==
    /\ TerminalOf("UpstreamFailed") = "Failed"
    /\ TerminalOf("TooManyActiveRealtimeRequests") = "Failed"
BY DEF TerminalOf

\* A handler that answers before it has a task, having recorded the terminal of its
\* answer, leaves its exchange in order: the early return paths of both handlers.
LEMMA EarlyReturnHere ==
    ASSUME Functions, NEW r \in Requests, Here(r),
           handler[r] \in {"new", "reading", "parsing"},
           NEW outcome, NEW own,
           own = Finish(terminal[r], TerminalOf(outcome)),
           Return(r, outcome, own), UNCHANGED <<dialect, task, result>>
    PROVE  Here(r)'
<1>1. /\ task[r] = "none" /\ task'[r] = "none"
      /\ result'[r] = result[r]
      /\ terminal[r] = "InFlight"
  BY DEF Here, Order, Truth
<1>2. TerminalOf(outcome) \in ExchangeTerminal \ {"InFlight"}
  BY TerminalOfType
<1>3. own = TerminalOf(outcome)
  BY <1>1 DEF Finish
<1>4. /\ handler'[r] = "answered"
      /\ answer'[r] = outcome
      /\ guard'[r] = "gone"
      /\ canceled'[r] = canceled[r]
      /\ terminal'[r] = TerminalOf(outcome)
  <2>1. Finish(own, "Canceled") = TerminalOf(outcome)
    BY <1>2, <1>3 DEF Finish
  <2> QED
    BY <1>2, <1>3, <2>1 DEF Return, Functions
<1>5. permit'[r] = "nobody"
  <2>1. permit[r] \in {"nobody", "handler"}
    BY <1>1 DEF Here, Owner, TaskLives, Functions
  <2>2. CASE permit[r] = "handler"
    BY <2>2 DEF Return, HandlerGivesBack, HandlerReleases, Release, Functions
  <2>3. CASE permit[r] = "nobody"
    BY <2>3 DEF Return, HandlerGivesBack, HandlerReleases
  <2> QED
    BY <2>1, <2>2, <2>3
<1>6. Owner(r)'
  BY <1>1, <1>4, <1>5 DEF Owner, TaskLives
<1>7. Order(r)'
  BY <1>1, <1>4 DEF Order
<1>8. Cancel(r)'
  BY <1>1, <1>4 DEF Cancel, Here
<1>9. Truth(r)'
  BY <1>1, <1>4 DEF Truth
<1> QED
  BY <1>6, <1>7, <1>8, <1>9 DEF Here

\* The same for a handler that answers for its task: it has a terminal by then.
LEMMA LateReturnHere ==
    ASSUME Functions, NEW r \in Requests, Here(r),
           handler[r] = "waiting", task[r] \in {"exited", "panicked"},
           NEW outcome, NEW own \in ExchangeTerminal \ {"InFlight"},
           own = (IF task[r] = "panicked" THEN "Failed" ELSE TerminalOf(outcome)),
           Return(r, outcome, own), UNCHANGED <<dialect, task, result>>
    PROVE  Here(r)'
<1>1. /\ task'[r] = task[r]
      /\ result'[r] = result[r]
  OBVIOUS
<1>2. /\ handler'[r] = "answered"
      /\ answer'[r] = outcome
      /\ guard'[r] = "gone"
      /\ canceled'[r] = canceled[r]
      /\ terminal'[r] = own
  <2>1. Finish(own, "Canceled") = own
    BY DEF Finish
  <2> QED
    BY <2>1 DEF Return, Functions
<1>3. permit[r] = "nobody"
  BY DEF Here, Owner, TaskLives, Functions
<1>4. permit'[r] = "nobody"
  BY <1>3 DEF Return, HandlerGivesBack, HandlerReleases
<1>5. Owner(r)'
  BY <1>1, <1>2, <1>4 DEF Owner, TaskLives
<1>6. Order(r)'
  BY <1>1, <1>2 DEF Order
<1>7. Cancel(r)'
  BY <1>1, <1>2 DEF Cancel, Here
<1>8. Truth(r)'
  BY <1>1, <1>2 DEF Truth
<1> QED
  BY <1>5, <1>6, <1>7, <1>8 DEF Here

\* Whatever the step, the exchange that takes it is in order afterwards.
LEMMA StepHere ==
    ASSUME Functions, NEW r \in Requests, Here(r), Step(r)
    PROVE  Here(r)'
<1> USE DEF HandlerPlace, TaskPlace
<1>1. CASE Begin(r)
  BY <1>1 DEF Begin, Functions, Here, Owner, Order, Cancel, Truth, TaskLives
<1>2. CASE Refuse(r)
  BY <1>2, EarlyReturnHere, FailedAnswers DEF Refuse
<1>3. ASSUME NEW error \in BodyError, BodyFails(r, error)
      PROVE  Here(r)'
  BY <1>3, EarlyReturnHere DEF BodyFails
<1>4. CASE StartParsing(r)
  BY <1>4 DEF StartParsing, Functions, Here, Owner, Order, Cancel, Truth, TaskLives
<1>5. ASSUME NEW error \in CallError, CallRejected(r, error)
      PROVE  Here(r)'
  BY <1>5, EarlyReturnHere DEF CallRejected
<1>6. CASE CannotBuild(r)
  BY <1>6, EarlyReturnHere, FailedAnswers DEF CannotBuild, Prepared
<1>7. CASE Spawn(r)
  BY <1>7 DEF Spawn, Prepared, Functions, Here, Owner, Order, Cancel, Truth, TaskLives
<1>8. CASE Respond(r)
  <2>1. terminal[r] = TerminalOf(result[r])
    BY <1>8 DEF Respond, Here, Truth
  <2>2. terminal[r] \in ExchangeTerminal \ {"InFlight"}
    BY <2>1, TerminalOfType
  <2>3. task[r] # "panicked"
    BY <1>8 DEF Respond
  <2> QED
    BY <1>8, <2>1, <2>2, <2>3, LateReturnHere DEF Respond
<1>9. CASE JoinError(r)
  <2>1. Finish(terminal[r], "Failed") = "Failed"
    BY <1>9 DEF JoinError, Here, Truth, Finish
  <2>2. "Failed" \in ExchangeTerminal \ {"InFlight"}
    BY Zenon DEF ExchangeTerminal
  <2> QED
    BY <1>9, <2>1, <2>2, LateReturnHere DEF JoinError
<1>10. CASE ClientLeaves(r)
  <2>1. /\ handler'[r] = "dropped"
        /\ task'[r] = task[r]
        /\ result'[r] = result[r]
        /\ answer'[r] = answer[r]
        /\ terminal'[r] = Finish(terminal[r], "Canceled")
    BY <1>10 DEF ClientLeaves, Functions
  <2>2. Owner(r)'
    <3>1. CASE permit[r] = "handler"
      BY <1>10, <2>1, <3>1 DEF ClientLeaves, HandlerGivesBack, HandlerReleases, Release,
         Functions, Here, Owner, Order, TaskLives
    <3>2. CASE permit[r] # "handler"
      BY <1>10, <2>1, <3>2 DEF ClientLeaves, HandlerGivesBack, HandlerReleases,
         Functions, Here, Owner, TaskLives
    <3> QED
      BY <3>1, <3>2
  <2>3. Order(r)'
    BY <1>10, <2>1 DEF ClientLeaves, Here, Order
  <2>4. Cancel(r)'
    BY <2>1 DEF Here, Cancel
  <2>5. Truth(r)'
    BY <1>10, <2>1 DEF ClientLeaves, Here, Order, Truth, Finish
  <2> QED
    BY <2>2, <2>3, <2>4, <2>5 DEF Here
<1>11. CASE GuardCancels(r)
  BY <1>11 DEF GuardCancels, Functions, Here, Owner, Order, Cancel, Truth, TaskLives
<1>12. CASE PollStarts(r)
  BY <1>12 DEF PollStarts, Functions, Here, Owner, Order, Cancel, Truth, TaskLives
<1>13. CASE WorkPending(r)
  BY <1>13 DEF WorkPending, Functions, Here, Owner, Order, Cancel, Truth, TaskLives
<1>14. CASE WorkEnds(r)
  <2>1. PICK outcome \in WorkResult :
            /\ result' = [result EXCEPT ![r] = outcome]
            /\ task' = [task EXCEPT ![r] = "decided"]
    BY <1>14 DEF WorkEnds
  <2>2. outcome # "none" /\ outcome # "ClientCanceled"
    BY DEF WorkResult
  <2>3. result'[r] = outcome /\ task'[r] = "decided"
    BY <2>1 DEF Functions
  <2> QED
    BY <1>14, <2>2, <2>3 DEF WorkEnds, Here, Owner, Order, Cancel, Truth, TaskLives
<1>15. CASE TaskFinishes(r)
  <2>1. TerminalOf(result[r]) # "InFlight"
    BY TerminalOfType
  <2>2. /\ task'[r] = "recorded"
        /\ terminal'[r] = Finish(terminal[r], TerminalOf(result[r]))
    BY <1>15 DEF TaskFinishes, Functions
  <2> QED
    BY <1>15, <2>1, <2>2 DEF TaskFinishes, Here, Owner, Order, Cancel, Truth, TaskLives, Finish
<1>16. CASE TaskExits(r)
  <2>1. task'[r] = "exited" /\ permit'[r] = "nobody"
    BY <1>16 DEF TaskExits, Release, Functions
  <2> QED
    BY <1>16, <2>1 DEF TaskExits, Here, Owner, Order, Cancel, Truth, TaskLives
<1>17. CASE TaskPanics(r)
  <2>1. task'[r] = "panicked" /\ permit'[r] = "nobody"
    BY <1>17 DEF TaskPanics, Release, Functions
  <2> QED
    BY <1>17, <2>1 DEF TaskPanics, Here, Owner, Order, Cancel, Truth, TaskLives
<1> QED
  BY <1>1, <1>2, <1>3, <1>4, <1>5, <1>6, <1>7, <1>8, <1>9, <1>10, <1>11, <1>12,
     <1>13, <1>14, <1>15, <1>16, <1>17 DEF Step, HandlerStep, TaskStep

-----------------------------------------------------------------------------
(* Here(q) holds after a step of another exchange, and the permits add up. *)

\* An exchange is not disturbed by the steps of the others: the terminal, the token
\* and the task are its own (ExchangeShared).
LEMMA OthersHere ==
    ASSUME NEW r \in Requests, NEW q \in Requests \ {r}, Here(q), Elsewhere(r)
    PROVE  Here(q)'
<1>1. /\ handler'[q] = handler[q]
      /\ permit'[q] = permit[q]
      /\ terminal'[q] = terminal[q]
      /\ guard'[q] = guard[q]
      /\ canceled'[q] = canceled[q]
      /\ task'[q] = task[q]
      /\ result'[q] = result[q]
      /\ answer'[q] = answer[q]
  BY DEF Elsewhere
<1>2. Owner(q)'
  BY <1>1 DEF Here, Owner, TaskLives
<1>3. Order(q)'
  BY <1>1 DEF Here, Order
<1>4. Cancel(q)'
  BY <1>1 DEF Here, Cancel
<1>5. Truth(q)'
  BY <1>1 DEF Here, Truth
<1> QED
  BY <1>2, <1>3, <1>4, <1>5 DEF Here

PermitMoves(r) ==
    \/ permit[r] = "nobody" /\ permit'[r] # "nobody" /\ free > 0 /\ free' = free - 1
    \/ permit[r] # "nobody" /\ permit'[r] = "nobody" /\ free' = free + 1
    \/ (permit'[r] = "nobody" <=> permit[r] = "nobody") /\ free' = free

\* Returning from a handler moves at most its own permit.
LEMMA GiveBackMoves ==
    ASSUME Functions, NEW r \in Requests, HandlerGivesBack(r)
    PROVE  PermitMoves(r)
<1>1. CASE HandlerReleases(r)
  BY <1>1 DEF HandlerGivesBack, HandlerReleases, Release, PermitMoves, Functions
<1>2. CASE ~HandlerReleases(r)
  BY <1>2 DEF HandlerGivesBack, PermitMoves
<1> QED
  BY <1>1, <1>2

\* A step moves at most one permit, the one of its exchange, with the semaphore
\* (try_acquire_owned, the move into the task, and the drops).
LEMMA StepMoves ==
    ASSUME Functions, NEW r \in Requests, Here(r), free \in Nat, Step(r)
    PROVE  PermitMoves(r)
<1>1. CASE Begin(r)
  BY <1>1 DEF Begin, Functions, Here, Owner, Order, TaskLives, PermitMoves
<1>2. CASE Refuse(r) \/ CannotBuild(r) \/ Respond(r) \/ JoinError(r) \/ ClientLeaves(r)
  BY <1>2, GiveBackMoves DEF Refuse, CannotBuild, Respond, JoinError, ClientLeaves, Return
<1>3. ASSUME NEW error \in BodyError, BodyFails(r, error)
      PROVE  PermitMoves(r)
  BY <1>3, GiveBackMoves DEF BodyFails, Return
<1>4. ASSUME NEW error \in CallError, CallRejected(r, error)
      PROVE  PermitMoves(r)
  BY <1>4, GiveBackMoves DEF CallRejected, Return
<1>5. CASE Spawn(r)
  <2>1. permit[r] = "handler"
    BY <1>5 DEF Spawn, Prepared, Here, Owner
  <2> QED
    BY <1>5, <2>1 DEF Spawn, Functions, PermitMoves
<1>6. CASE TaskExits(r) \/ TaskPanics(r)
  <2>1. permit[r] = "task"
    BY <1>6 DEF TaskExits, TaskPanics, Here, Owner, TaskLives
  <2> QED
    BY <1>6, <2>1 DEF TaskExits, TaskPanics, Release, Functions, PermitMoves
<1>7. CASE StartParsing(r) \/ GuardCancels(r) \/ PollStarts(r) \/ WorkPending(r)
           \/ WorkEnds(r) \/ TaskFinishes(r)
  BY <1>7 DEF StartParsing, GuardCancels, PollStarts, WorkPending, WorkEnds,
     TaskFinishes, PermitMoves
<1> QED
  BY <1>1, <1>2, <1>3, <1>4, <1>5, <1>6, <1>7 DEF Step, HandlerStep, TaskStep

\* The permits that are out and those that are left add up to the limit: what
\* limits.active_requests means.
LEMMA StepCount ==
    ASSUME Functions, NEW r \in Requests, Here(r), Count, Step(r)
    PROVE  Count'
<1>1. PermitMoves(r)
  BY StepMoves DEF Count
<1>2. Functions' /\ Elsewhere(r)
  BY StepLocal
<1>3. \A q \in Requests \ {r} : permit'[q] = permit[q]
  BY <1>2 DEF Elsewhere
<1>4. IsFiniteSet(Held)
  BY HttpAssumption, FS_Subset DEF Held
<1>5. Cardinality(Held) \in Nat /\ MaxActive \in Nat /\ free \in Nat
  BY <1>4, FS_CardinalityType, HttpAssumption DEF Count
<1>6. CASE permit[r] = "nobody" /\ permit'[r] # "nobody" /\ free > 0 /\ free' = free - 1
  <2>1. Held' = Held \cup {r} /\ r \notin Held
    BY <1>3, <1>6 DEF Held
  <2>2. Cardinality(Held') = Cardinality(Held) + 1
    BY <1>4, <2>1, FS_AddElement
  <2> QED
    BY <1>5, <1>6, <2>2 DEF Count
<1>7. CASE permit[r] # "nobody" /\ permit'[r] = "nobody" /\ free' = free + 1
  <2>1. Held' = Held \ {r} /\ r \in Held
    BY <1>3, <1>7 DEF Held
  <2>2. Cardinality(Held') = Cardinality(Held) - 1
    BY <1>4, <2>1, FS_RemoveElement
  <2> QED
    BY <1>5, <1>7, <2>2 DEF Count
<1>8. CASE (permit'[r] = "nobody" <=> permit[r] = "nobody") /\ free' = free
  <2>1. Held' = Held
    BY <1>3, <1>8 DEF Held
  <2> QED
    BY <1>8, <2>1 DEF Count
<1> QED
  BY <1>1, <1>6, <1>7, <1>8 DEF PermitMoves

-----------------------------------------------------------------------------
\* Init and every step keep the invariant: begin_exchange, and all that follows.
LEMMA HttpInvariant == Spec => []HttpInv
<1>1. Init => HttpInv
  <2> SUFFICES ASSUME Init PROVE HttpInv
    OBVIOUS
  <2>1. Functions
    BY Zenon DEF Init, Functions, HandlerPlace, TaskPlace, ExchangeTerminal, Results, Answers
  <2>2. ASSUME NEW r \in Requests PROVE Here(r)
    BY <2>2 DEF Init, Here, Owner, Order, Cancel, Truth, TaskLives
  <2>3. Held = {}
    BY DEF Init, Held
  <2>4. Count
    BY <2>3, FS_EmptySet, HttpAssumption DEF Init, Count
  <2> QED
    BY <2>1, <2>2, <2>4 DEF HttpInv
<1>2. HttpInv /\ [Next]_vars => HttpInv'
  <2> SUFFICES ASSUME HttpInv, [Next]_vars PROVE HttpInv'
    OBVIOUS
  <2>1. ASSUME NEW r \in Requests, Step(r) PROVE HttpInv'
    <3>1. Functions /\ Count /\ Here(r)
      BY <2>1 DEF HttpInv
    <3>2. Functions' /\ Elsewhere(r)
      BY <2>1, <3>1, StepLocal
    <3>3. Here(r)'
      BY <2>1, <3>1, StepHere
    <3>4. ASSUME NEW q \in Requests \ {r} PROVE Here(q)'
      BY <2>1, <3>2, <3>4, OthersHere DEF HttpInv
    <3>5. Count'
      BY <2>1, <3>1, StepCount
    <3> QED
      BY <3>2, <3>3, <3>4, <3>5 DEF HttpInv
  <2>2. CASE UNCHANGED vars
    <3>1. Functions'
      BY <2>2 DEF vars, HttpInv, Functions
    <3>2. ASSUME NEW r \in Requests PROVE Here(r)'
      BY <2>2, <3>2 DEF vars, HttpInv, Here, Owner, Order, Cancel, Truth, TaskLives
    <3>3. Count'
      BY <2>2 DEF vars, HttpInv, Count, Held
    <3> QED
      BY <3>1, <3>2, <3>3 DEF HttpInv
  <2> QED
    BY <2>1, <2>2 DEF Next, Step
<1> QED
  BY <1>1, <1>2, PTL DEF Spec

\* The state of the exchanges is always well typed; that the semaphore never counts
\* above its limit rests on the count of the permits that are out.
THEOREM HttpTypeCorrect == Spec => []TypeOK
<1>1. HttpInv => TypeOK
  <2> SUFFICES ASSUME HttpInv PROVE TypeOK
    OBVIOUS
  <2>1. IsFiniteSet(Held)
    BY HttpAssumption, FS_Subset DEF Held
  <2>2. free \in 0..MaxActive
    BY <2>1, FS_CardinalityType, HttpAssumption DEF HttpInv, Count
  <2> QED
    BY <2>2, Zenon DEF HttpInv, Functions, TypeOK, HandlerPlace, TaskPlace, Results, Answers
<1> QED
  BY <1>1, HttpInvariant, PTL

\* A permit of the request semaphore is out exactly while an exchange is at work,
\* and none is leaked or returned twice, for every number of exchanges and permits
\* and whenever clients leave or tasks panic.
THEOREM HttpPermitsAccounted == Spec => []PermitsAccounted
<1>1. HttpInv => PermitsAccounted
  <2> SUFFICES ASSUME HttpInv PROVE PermitsAccounted
    OBVIOUS
  <2>1. free + Cardinality({r \in Requests : permit[r] # "nobody"}) = MaxActive
    BY DEF HttpInv, Count, Held
  <2>2. ASSUME NEW r \in Requests PROVE permit[r] # "nobody" <=> AtWork(r)
    BY <2>2 DEF HttpInv, Functions, Here, Owner, AtWork
  <2> QED
    BY <2>1, <2>2 DEF PermitsAccounted
<1> QED
  BY <1>1, HttpInvariant, PTL

\* What an exchange has recorded is what happened to it, however handler, guard and
\* task race to ExchangeLifecycle::finish, and only the exchange of a client that
\* has left is canceled.
THEOREM HttpTellsTheTruth == Spec => []TerminalTellsTheTruth
<1>1. HttpInv => TerminalTellsTheTruth
  <2> SUFFICES ASSUME HttpInv, NEW r \in Requests
               PROVE  Truth(r) /\ Cancel(r)
    BY DEF Truth, Cancel, TerminalTellsTheTruth
  <2> QED
    BY DEF HttpInv, Here
<1> QED
  BY <1>1, HttpInvariant, PTL

TerminalStands ==
    \A r \in Requests : terminal[r] # "InFlight" => terminal'[r] = terminal[r]

\* The terminal of an exchange is written once: finish refuses every later writer.
THEOREM HttpFirstTerminalStands == Spec => FirstTerminalStands
<1>1. ASSUME HttpInv, [Next]_vars
      PROVE  TerminalStands
  <2>1. ASSUME NEW r \in Requests, Step(r)
        PROVE  TerminalStands
    <3>1. Functions
      BY <1>1 DEF HttpInv
    <3>2. Elsewhere(r)
      BY <2>1, <3>1, StepLocal
    <3>3. terminal[r] # "InFlight" => terminal'[r] = terminal[r]
      <4> SUFFICES ASSUME terminal[r] # "InFlight" PROVE terminal'[r] = terminal[r]
        OBVIOUS
      <4>1. \A next : Finish(terminal[r], next) = terminal[r]
        BY DEF Finish
      <4>2. ASSUME NEW outcome, Return(r, outcome, terminal[r])
            PROVE  terminal'[r] = terminal[r]
        BY <3>1, <4>1, <4>2 DEF Return, Functions
      <4>3. CASE Refuse(r) \/ CannotBuild(r) \/ Respond(r) \/ JoinError(r)
        BY <4>1, <4>2, <4>3 DEF Refuse, CannotBuild, Respond, JoinError
      <4>4. ASSUME NEW error \in BodyError, BodyFails(r, error)
            PROVE  terminal'[r] = terminal[r]
        BY <4>1, <4>2, <4>4 DEF BodyFails
      <4>5. ASSUME NEW error \in CallError, CallRejected(r, error)
            PROVE  terminal'[r] = terminal[r]
        BY <4>1, <4>2, <4>5 DEF CallRejected
      <4>6. CASE ClientLeaves(r) \/ TaskFinishes(r)
        BY <3>1, <4>1, <4>6 DEF ClientLeaves, TaskFinishes, Functions
      <4>7. CASE Begin(r) \/ StartParsing(r) \/ Spawn(r) \/ GuardCancels(r)
                 \/ PollStarts(r) \/ WorkPending(r) \/ WorkEnds(r) \/ TaskExits(r)
                 \/ TaskPanics(r)
        BY <4>7 DEF Begin, StartParsing, Spawn, GuardCancels, PollStarts, WorkPending,
           WorkEnds, TaskExits, TaskPanics
      <4> QED
        BY <2>1, <4>3, <4>4, <4>5, <4>6, <4>7 DEF Step, HandlerStep, TaskStep
    <3> QED
      BY <3>2, <3>3 DEF Elsewhere, TerminalStands
  <2>2. CASE UNCHANGED vars
    BY <2>2 DEF vars, TerminalStands
  <2> QED
    BY <1>1, <2>1, <2>2 DEF Next, Step
<1>2. HttpInv /\ [Next]_vars => [TerminalStands]_vars
  BY <1>1
<1> QED
  BY <1>2, HttpInvariant, PTL DEF Spec, FirstTerminalStands, TerminalStands

-----------------------------------------------------------------------------
(* The refinement of PermitPool.                                           *)

LeftPool(r) ==
    /\ handler[r] # "new"
    /\ ~AtWork(r)
    /\ answer[r] # "TooManyActiveRealtimeRequests"

Working == {r \in Requests : AtWork(r)}
Left == {r \in Requests : LeftPool(r)}

\* What a step means to the pool: the exchange enters on a free permit, leaves, or
\* nothing changes (begin_exchange to the end of the task).
LEMMA StepJob ==
    ASSUME Functions, NEW r \in Requests, Here(r), Step(r)
    PROVE  \/ ~AtWork(r) /\ ~LeftPool(r) /\ AtWork(r)' /\ ~LeftPool(r)' /\ free > 0
           \/ AtWork(r) /\ ~AtWork(r)' /\ LeftPool(r)'
           \/ (AtWork(r)' <=> AtWork(r)) /\ (LeftPool(r)' <=> LeftPool(r))
<1> USE DEF AtWork, TaskLives, LeftPool
<1>1. CASE Begin(r)
  BY <1>1 DEF Begin, Functions, Here, Order
<1>2. CASE Refuse(r)
  BY <1>2 DEF Refuse, Return, Functions, Here, Order
<1>3. ASSUME NEW error \in BodyError, BodyFails(r, error)
      PROVE  AtWork(r) /\ ~AtWork(r)' /\ LeftPool(r)'
  BY <1>3 DEF BodyFails, Return, BodyError, Functions, Here, Order
<1>4. ASSUME NEW error \in CallError, CallRejected(r, error)
      PROVE  AtWork(r) /\ ~AtWork(r)' /\ LeftPool(r)'
  BY <1>4 DEF CallRejected, Return, CallError, Functions, Here, Order
<1>5. CASE CannotBuild(r)
  BY <1>5 DEF CannotBuild, Prepared, Return, Functions, Here, Order
<1>6. CASE StartParsing(r) \/ Spawn(r)
  BY <1>6 DEF StartParsing, Spawn, Prepared, Functions, Here, Order
<1>7. CASE Respond(r)
  <2>1. result[r] # "TooManyActiveRealtimeRequests"
    BY DEF Functions, Results, WorkResult
  <2> QED
    BY <1>7, <2>1 DEF Respond, Return, Functions, Here, Order
<1>8. CASE JoinError(r)
  BY <1>8 DEF JoinError, Return, Functions, Here, Order
<1>9. CASE ClientLeaves(r)
  BY <1>9 DEF ClientLeaves, Functions, Here, Order
<1>10. CASE GuardCancels(r)
  BY <1>10 DEF GuardCancels
<1>11. CASE PollStarts(r) \/ WorkPending(r) \/ WorkEnds(r) \/ TaskFinishes(r)
  BY <1>11 DEF PollStarts, WorkPending, WorkEnds, TaskFinishes, Functions
<1>12. CASE TaskExits(r) \/ TaskPanics(r)
  BY <1>12 DEF TaskExits, TaskPanics, Functions, Here, Order
<1> QED
  BY <1>1, <1>2, <1>3, <1>4, <1>5, <1>6, <1>7, <1>8, <1>9, <1>10, <1>11, <1>12
     DEF Step, HandlerStep, TaskStep

\* The request semaphore, as the handlers and tasks use it, is a pool: at most
\* limits.active_requests exchanges are at work, and none works twice.
THEOREM HttpImplementsPool == Spec => ImplementsPool
<1>1. Init => Pool!Init
  <2> SUFFICES ASSUME Init PROVE Working = {} /\ Left = {}
    BY DEF Pool!Init, Working, Left, LeftPool
  <2> QED
    BY DEF Init, Working, Left, LeftPool, AtWork, TaskLives
<1>2. ASSUME HttpInv, [Next]_vars
      PROVE  [Pool!Next]_<<Working, Left>>
  <2>1. ASSUME NEW r \in Requests, Step(r)
        PROVE  [Pool!Next]_<<Working, Left>>
    <3>1. Functions /\ Here(r)
      BY <1>2 DEF HttpInv
    <3>2. Elsewhere(r)
      BY <2>1, <3>1, StepLocal
    <3>3. \A q \in Requests \ {r} :
             (AtWork(q)' <=> AtWork(q)) /\ (LeftPool(q)' <=> LeftPool(q))
      BY <3>2 DEF Elsewhere, AtWork, TaskLives, LeftPool
    <3>4. CASE ~AtWork(r) /\ ~LeftPool(r) /\ AtWork(r)' /\ ~LeftPool(r)' /\ free > 0
      <4>1. Working' = Working \cup {r} /\ Left' = Left
        BY <3>3, <3>4 DEF Working, Left
      <4>2. Working = Held
        BY <1>2 DEF HttpInv, Functions, Here, Owner, AtWork, Working, Held
      <4>3. IsFiniteSet(Held)
        BY HttpAssumption, FS_Subset DEF Held
      <4>4. Cardinality(Working) < MaxActive
        BY <1>2, <3>4, <4>2, <4>3, FS_CardinalityType, HttpAssumption DEF HttpInv, Count
      <4>5. r \notin Working \cup Left
        BY <3>4 DEF Working, Left
      <4>6. Pool!Cardinality(Working) < MaxActive
        BY <4>4 DEF Cardinality, Pool!Cardinality
      <4> QED
        BY <4>1, <4>5, <4>6 DEF Pool!Next, Pool!Enter, Working, Left, LeftPool
    <3>5. CASE AtWork(r) /\ ~AtWork(r)' /\ LeftPool(r)'
      <4>1. Working' = Working \ {r} /\ Left' = Left \cup {r} /\ r \in Working
        BY <3>3, <3>5 DEF Working, Left
      <4> QED
        BY <4>1 DEF Pool!Next, Pool!Leave, Working, Left, LeftPool
    <3>6. CASE (AtWork(r)' <=> AtWork(r)) /\ (LeftPool(r)' <=> LeftPool(r))
      BY <3>3, <3>6 DEF Working, Left
    <3> QED
      BY <2>1, <3>1, <3>4, <3>5, <3>6, StepJob
  <2>2. CASE UNCHANGED vars
    BY <2>2 DEF vars, Working, Left, LeftPool, AtWork, TaskLives
  <2> QED
    BY <1>2, <2>1, <2>2 DEF Next, Step
<1>3. HttpInv /\ [Next]_vars => [Pool!Next]_<<Working, Left>>
  BY <1>2
<1> QED
  BY <1>1, <1>3, HttpInvariant, PTL
     DEF Spec, ImplementsPool, Pool!PoolSpec, Working, Left, LeftPool

=============================================================================
