------------------------------ MODULE MCStartup ------------------------------
(***************************************************************************)
(* Startup from three sound environments and from all that differ from one *)
(* of them in two texts or in one limit.  A machine word holds 20 values,  *)
(* so that the frame limit meets its end with a small overhead.            *)
(***************************************************************************)
EXTENDS Startup

MCMaxUsize == 19
MCMaxPermits == 2
MCOverhead == 4
MCDefaults == [key \in LimitKeys |->
    CASE key \in PoolLimits -> 1
      [] key = "WS_IDLE_TIMEOUT_MS" -> 0
      [] OTHER -> 8]

Unset == [form |-> "unset", value |-> 0]
Plain(upstream, mode) ==
    [text |-> [key \in TextKeys |-> CASE key = "UPSTREAM_MODE" -> upstream
                                      [] key = "CREDENTIAL_MODE" -> mode
                                      [] key = "TOKEN" -> "token"
                                      [] OTHER -> "unset"],
     limits |-> [key \in LimitKeys |-> Unset],
     origins |-> <<>>]
Baselines == {Plain("unset", "unset"), Plain("apikey", "managed"), Plain("apikey", "client")}

\* Values at and beyond both ends of each range.
Trials == {[form |-> "not_unicode", value |-> 0], [form |-> "junk", value |-> 0]} \cup
    {[form |-> "number", value |-> n] : n \in {0, 1, 2, 3, 15, 16, 19, 20}}

Reworded(base) == UNION {{[base EXCEPT !.text[key] = text] : text \in Texts[key]} : key \in TextKeys}
Relimited(base) ==
    {[base EXCEPT !.limits[key] = trial] : key \in LimitKeys, trial \in Trials}
        \cup {[base EXCEPT !.origins = pieces] :
                  pieces \in {<<"blank">>, <<"origin", "blank", "origin">>}}

MCEnvironments ==
    UNION {Relimited(base) : base \in Baselines}
        \cup UNION {Reworded(changed) : changed \in UNION {Reworded(base) : base \in Baselines}}
=============================================================================
