------------------------- MODULE IdentityDirectory -------------------------
(***************************************************************************)
(* What the identity authority promises: every Feishu subject has one      *)
(* history of principals without gaps.  It starts with the first           *)
(* assignment, each further one starts where the one before ends, and      *)
(* nothing that was assigned is ever changed or taken back.                *)
(***************************************************************************)
EXTENDS Naturals, Sequences

CONSTANTS
    Subjects,       \* Feishu subjects (a tenant and an open id)
    Principals,     \* principals they can stand for
    Times           \* when an assignment can begin

VARIABLE history    \* for each subject, its principals and since when

Init == history = [s \in Subjects |-> <<>>]

\* A subject gets a principal other than the one it has, at a later time.
Assign(s, p, at) ==
    /\ history[s] # <<>> =>
           LET last == history[s][Len(history[s])]
           IN  last.principal # p /\ last.since < at
    /\ history' = [history EXCEPT ![s] =
                      Append(@, [principal |-> p, since |-> at])]

Next == \E s \in Subjects, p \in Principals, at \in Times : Assign(s, p, at)

Spec == Init /\ [][Next]_history
=============================================================================
