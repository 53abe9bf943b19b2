----------------------------- MODULE Messaging -----------------------------
(***************************************************************************)
(* Everything that goes through Feishu apart from the approval decisions:  *)
(* Inbox and Outbox together, over the same delivery.                      *)
(***************************************************************************)
EXTENDS Inbox, Outbox

CONSTANT MaxWork    \* bound: events, inputs, notifications and requests

ASSUME MessagingConstants ==
    /\ MaxWork \in Nat
    /\ Workers \cap Clis = {}

VARIABLE work       \* how much of MaxWork is used up

vars == <<deliveryVars, inboxVars, outboxVars, work>>

TypeOK ==
    /\ DeliveryTypeOK /\ InboxTypeOK /\ OutboxTypeOK
    /\ work \in 0 .. MaxWork

Init == DeliveryInit /\ InboxInit /\ OutboxInit /\ work = 0

NewWork == work < MaxWork /\ work' = work + 1

Next ==
    \/ /\ NewWork
       /\ \/ \E w \in Workers, m \in Messages : Receive(w, m)
          \/ \E m \in Messages : CreateTextInput(m)
       /\ UNCHANGED outboxVars
    \/ /\ NewWork
       /\ \E p \in Clis :
             \/ \E n \in Notices : Notify(p, n)
             \/ \E k \in Keys : RequestApproval(p, k)
       /\ UNCHANGED inboxVars
    \/ ProvisionUser /\ UNCHANGED <<outboxVars, work>>
    \/ \E w \in Workers :
          (Handle(w) \/ WorkerDies(w)) /\ UNCHANGED <<outboxVars, work>>
    \/ \E p \in Clis :
          (Send(p) \/ CliDies(p)) /\ UNCHANGED <<inboxVars, work>>

Spec == Init /\ [][Next]_vars

\* A worker that has taken an event goes on, unless it dies.
FairSpec ==
    /\ Spec
    /\ \A w \in Workers :
          WF_vars(Handle(w) /\ UNCHANGED <<outboxVars, work>>)
=============================================================================
