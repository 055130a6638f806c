------------------------------ MODULE Shutdown ------------------------------
(***************************************************************************)
(* The life of the process: src/main.rs, the drain flag of                 *)
(* src/admission/drain.rs, where it is read (protect in src/app.rs, guard  *)
(* in src/admission/mod.rs), and the frame log it flushes at the end.      *)
(*                                                                         *)
(* A call is one connection with one request.  Its handler is a step that  *)
(* answers, or that upgrades the connection to a relay; modules            *)
(* HttpExchange and Pump say what happens inside.  The server is axum's,   *)
(* external: after the shutdown signal it accepts nothing, closes idle     *)
(* connections, and returns when no connection is being served.  An        *)
(* upgraded connection is no longer the server's.                          *)
(***************************************************************************)
EXTENDS FrameLog

CONSTANTS Requests  \* the calls that are plain HTTP requests

Calls == Requests \cup Relays

VARIABLES draining,  \* DrainState
          server,    \* axum::serve: serving, graceful or stopped
          process,   \* running or exited
          call       \* call[c]: how far call c is

vars == <<logVars, draining, server, process, call>>

\* AppState of the router, and the clone main keeps.
Owners == {"router", "main"}

\* A relay's clone is its own.
ASSUME ShutdownAssumption == Relays \cap Owners = {}

\* A connection the server is still serving.
Served(c) == call[c] \in {"connected", "checked", "handling"}

-----------------------------------------------------------------------------
Init ==
    /\ LogInit(Owners)
    /\ draining = FALSE
    /\ server = "serving"
    /\ process = "running"
    /\ call = [c \in Calls |-> "new"]

Moves(c, from, to) ==
    /\ process = "running"
    /\ call[c] = from
    /\ call' = [call EXCEPT ![c] = to]
    /\ UNCHANGED <<draining, server, process>>

Connect(c) ==
    /\ server = "serving"
    /\ Moves(c, "new", "connected")
    /\ UNCHANGED logVars

\* protect reads the flag first, and answers 503.
FirstCheck(c) ==
    /\ Moves(c, "connected", IF draining THEN "refused" ELSE "checked")
    /\ UNCHANGED logVars

\* guard reads it again, then applies admission and origin policy.
Guard(c) ==
    /\ \/ ~draining /\ Moves(c, "checked", "handling")
       \/ Moves(c, "checked", "refused")
    /\ UNCHANGED logVars

Answer(c) ==
    /\ Moves(c, "handling", "answered")
    /\ UNCHANGED logVars

\* on_upgrade starts the relay with a clone of the logger.
Upgrade(c) ==
    /\ c \in Relays
    /\ Moves(c, "handling", "relaying")
    /\ CloneFor(c, "router")

ClientLeaves(c) ==
    /\ \/ Moves(c, "connected", "closed")
       \/ Moves(c, "handling", "closed")
    /\ UNCHANGED logVars

RelayLogs(c) ==
    /\ process = "running"
    /\ call[c] = "relaying"
    /\ AppendRecord(c)
    /\ UNCHANGED <<draining, server, process, call>>

RelayEnds(c) ==
    /\ Moves(c, "relaying", "ended")
    /\ Forget(c)

-----------------------------------------------------------------------------
\* The graceful-shutdown future sets the flag, then completes.
Signal ==
    /\ process = "running"
    /\ ~draining
    /\ draining' = TRUE
    /\ UNCHANGED <<logVars, server, process, call>>

StopAccepting ==
    /\ draining
    /\ server = "serving"
    /\ server' = "graceful"
    /\ UNCHANGED <<logVars, draining, process, call>>

CloseIdle(c) ==
    /\ server = "graceful"
    /\ Moves(c, "connected", "closed")
    /\ UNCHANGED logVars

NothingServed == \A c \in Calls : ~Served(c)

\* axum::serve returns, and the router is dropped with its clone.
ServeReturns ==
    /\ server = "graceful"
    /\ NothingServed
    /\ server' = "stopped"
    /\ Forget("router")
    /\ UNCHANGED <<draining, process, call>>

FlushLog ==
    /\ process = "running"
    /\ server = "stopped"
    /\ \/ DrainStarts("main")
       \/ DrainFlushed
       \/ DrainGivesUp
    /\ UNCHANGED <<draining, server, process, call>>

Writer ==
    /\ process = "running"
    /\ WriterTakes \/ WriterWrites \/ WriterFinishes
    /\ UNCHANGED <<draining, server, process, call>>

\* main returns: the relays that are left end with the process.
Exit ==
    /\ process = "running"
    /\ drain \in {"flushed", "gaveUp"}
    /\ process' = "exited"
    /\ call' = [c \in Calls |-> IF call[c] = "relaying" THEN "cut" ELSE call[c]]
    /\ UNCHANGED <<logVars, draining, server>>

Handling(c) == FirstCheck(c) \/ Guard(c) \/ Answer(c) \/ Upgrade(c) \/ CloseIdle(c)

Next ==
    \/ \E c \in Calls : \/ Connect(c)
                        \/ FirstCheck(c)
                        \/ Guard(c)
                        \/ Answer(c)
                        \/ Upgrade(c)
                        \/ ClientLeaves(c)
                        \/ CloseIdle(c)
    \/ \E c \in Relays : RelayLogs(c) \/ RelayEnds(c)
    \/ Signal
    \/ StopAccepting
    \/ ServeReturns
    \/ FlushLog
    \/ Writer
    \/ Exit

Spec == Init /\ [][Next]_vars

(***************************************************************************)
(* A handler ends (its timeouts bound it), a client takes the answer it is *)
(* sent (axum's server waits for that without a bound), the server and     *)
(* main proceed, and the deadline of the drain passes.  Relays may go on   *)
(* for ever, and the writer may be stuck in the file system.               *)
(***************************************************************************)
Fairness ==
    /\ \A c \in Calls : WF_vars(Handling(c))
    /\ WF_vars(StopAccepting)
    /\ WF_vars(ServeReturns)
    /\ WF_vars(FlushLog)
    /\ WF_vars(Exit)

FairSpec == Spec /\ Fairness

-----------------------------------------------------------------------------
(* Properties.                                                             *)

\* Type correctness of the process state and of the frame log.
TypeOK ==
    /\ LogTypeOK(Owners)
    /\ draining \in BOOLEAN
    /\ server \in {"serving", "graceful", "stopped"}
    /\ process \in {"running", "exited"}
    /\ call \in [Calls -> {"new", "connected", "checked", "refused", "handling",
                           "answered", "relaying", "ended", "closed", "cut"}]

\* A relay is cut by the exit of the process only when the frame log gave up
\* waiting for it, or when there is no writer to wait for: a drain that reports
\* success vouches for the relays too, since each holds a clone of the logger.
CutOnlyAfterGivingUp ==
    (\E c \in Calls : call[c] = "cut") => drain = "gaveUp" \/ writer = "absent"

\* A signal ends the process, although a relay may go on for ever, holding a clone
\* of the logger, and the writer may be stuck: main waits for neither without bound.
SignalEndsProcess == draining ~> process = "exited"

\* What src/admission/drain.rs:1 says of draining: "refuse new work while shutting
\* down, without dropping in-flight calls".
InFlightCallsSurvive == \A c \in Calls : call[c] # "cut"
=============================================================================
