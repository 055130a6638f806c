-------------------------------- MODULE Checks --------------------------------
(***************************************************************************)
(* The shape most decisions of this program have: checks made one after    *)
(* the other, of which the first that fails is the answer (the `?` after   *)
(* each step of a Rust function); and the sum of what is counted on the    *)
(* way.                                                                    *)
(***************************************************************************)
EXTENDS Naturals, Sequences, FiniteSetsExt

\* A check is a condition under which to refuse, and the refusal.
Failing(checks) == {i \in DOMAIN checks : checks[i][1]}

\* The first of a sequence of checks that fails decides.
FirstRefusal(checks) ==
    IF Failing(checks) = {} THEN "none" ELSE checks[Min(Failing(checks))][2]

Total(numbers) ==
    LET sum[n \in 0..Len(numbers)] == IF n = 0 THEN 0 ELSE sum[n - 1] + numbers[n]
    IN  sum[Len(numbers)]
=============================================================================
