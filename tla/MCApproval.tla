----------------------------- MODULE MCApproval -----------------------------
(***************************************************************************)
(* Small instances of Approval for TLC.                                    *)
(***************************************************************************)
EXTENDS Approval, TLC

MCOpenIds == {"ann", "bob", "eve"}
MCApprovers == {"ann", "bob"}
MCUserOf == [o \in MCOpenIds |->
                CASE o = "ann" -> "A" [] o = "bob" -> "B" [] OTHER -> NoRow]

Tap(id, action, request, open) ==
    [id |-> id, via |-> "card", action |-> action, request |-> request,
     open |-> open]
Say(id, action, request, open) ==
    [id |-> id, via |-> "text", action |-> action, request |-> request,
     open |-> open]

\* Two people decide on one request by card and by text; one event id is
\* used for two requests; somebody without a mapping takes part.
MCEvents ==
    { Tap("e1", "approve", "k1", "ann"),
      Tap("e1", "reject", "k2", "bob"),
      Tap("e2", "reject", "k1", "bob"),
      Say("e3", "approve", "k1", "bob"),
      Tap("e4", "wait", "k1", "bob"),
      Tap("e5", "approve", "k1", "eve"),
      Say("e6", "reject", "k1", "eve") }

\* For the run with clients that race for one request
MCOneEvent == { Tap("e1", "approve", "k1", "ann") }

WorkerSymmetry == Permutations(Workers)
=============================================================================
