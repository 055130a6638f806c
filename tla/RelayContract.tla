--------------------------- MODULE RelayContract ---------------------------
(***************************************************************************)
(* What a WebSocket relay promises its two peers, with the pump's queue,   *)
(* its pending sends, its timers and its policies left out.  Each leg is a *)
(* pipe to the other one: what was taken from a leg is given to its peer   *)
(* in the order it was taken.  The relay ends once; after a clean end      *)
(* nothing that was taken is missing, after an aborted one a tail may be.  *)
(* At most one Close is written to a leg, after everything else.           *)
(*                                                                         *)
(* The pump of src/relay/pump.rs is shown to implement this specification  *)
(* (Pump!Contract).                                                        *)
(***************************************************************************)
EXTENDS Naturals, Sequences

CONSTANTS Frame,  \* data frames
          Close   \* close frames a leg can be sent

VARIABLES taken,  \* taken[l]: data frames read from leg l
          given,  \* given[l]: data frames the sink of leg l accepted
          bye,    \* bye[l]: the Close written to leg l, in a sequence of at most one
          ended   \* "no", "clean" or "aborted"

contractVars == <<taken, given, bye, ended>>

Leg == {"downstream", "upstream"}

Opposite(l) == IF l = "downstream" THEN "upstream" ELSE "downstream"

ContractInit ==
    /\ taken = [l \in Leg |-> <<>>]
    /\ given = [l \in Leg |-> <<>>]
    /\ bye = [l \in Leg |-> <<>>]
    /\ ended = "no"

(* A data frame is taken from leg l. *)
Take(l) ==
    /\ ended = "no"
    /\ \E f \in Frame : taken' = [taken EXCEPT ![l] = Append(@, f)]
    /\ UNCHANGED <<given, bye, ended>>

(* The oldest frame the peer of l has sent and l has not seen goes to l. *)
Give(l) ==
    /\ ended = "no"
    /\ Len(given[l]) < Len(taken[Opposite(l)])
    /\ given' = [given EXCEPT ![l] =
                   Append(@, taken[Opposite(l)][Len(given[l]) + 1])]
    /\ UNCHANGED <<taken, bye, ended>>

(* The relay ends; only a clean end promises that both directions are complete. *)
EndClean ==
    /\ ended = "no"
    /\ \A l \in Leg : given[l] = taken[Opposite(l)]
    /\ ended' = "clean"
    /\ UNCHANGED <<taken, given, bye>>

EndAborted ==
    /\ ended = "no"
    /\ ended' = "aborted"
    /\ UNCHANGED <<taken, given, bye>>

(* A leg is told of the end, once. *)
Dismiss(l) ==
    /\ ended # "no"
    /\ bye[l] = <<>>
    /\ \E c \in Close : bye' = [bye EXCEPT ![l] = <<c>>]
    /\ UNCHANGED <<taken, given, ended>>

ContractNext ==
    \/ \E l \in Leg : Take(l) \/ Give(l) \/ Dismiss(l)
    \/ EndClean
    \/ EndAborted

ContractSpec == ContractInit /\ [][ContractNext]_contractVars
=============================================================================
