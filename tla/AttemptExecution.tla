-------------------------- MODULE AttemptExecution --------------------------
(***************************************************************************)
(* What the host supervisor promises of an execution attempt: it starts    *)
(* the Docker mutation at most once, gives a verdict only afterwards, and  *)
(* does not take the verdict back.  Supervisor implements this for one     *)
(* attempt; Production relies on it for several.                           *)
(***************************************************************************)
EXTENDS Naturals

CONSTANT Attempts       \* execution attempts

VARIABLES
    mutated,            \* how often the Docker mutation was started
    verdict             \* the verdict on each attempt, or "none"

Init ==
    /\ mutated = [a \in Attempts |-> 0]
    /\ verdict = [a \in Attempts |-> "none"]

Mutate(a) ==
    /\ mutated[a] = 0
    /\ verdict[a] = "none"
    /\ mutated' = [mutated EXCEPT ![a] = 1]
    /\ UNCHANGED verdict

Conclude(a) ==
    /\ mutated[a] = 1
    /\ verdict[a] = "none"
    /\ \E v \in {"healthy", "failed"} : verdict' = [verdict EXCEPT ![a] = v]
    /\ UNCHANGED mutated

Next == \E a \in Attempts : Mutate(a) \/ Conclude(a)

Spec == Init /\ [][Next]_<<mutated, verdict>>
=============================================================================
