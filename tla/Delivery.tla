------------------------------ MODULE Delivery ------------------------------
(***************************************************************************)
(* deliver_with_retry of app/services/feishu_delivery.py, which every text *)
(* and card to Feishu goes through: reply_text of app/feishu_worker.py and *)
(* send_structured_text and send_interactive_card of                       *)
(* app/services/feishu_messaging.py.                                       *)
(*                                                                         *)
(* The request carries no idempotency key: when the answer is lost, the    *)
(* message is in the chat and the sender tries again.  The delays between  *)
(* the attempts are left out.                                              *)
(***************************************************************************)
EXTENDS Naturals

CONSTANTS
    Senders,        \* processes that send
    Texts,          \* what can be sent
    MaxAttempts,    \* max_attempts
    Nothing         \* no delivery, no row, no event

ASSUME DeliveryConstants ==
    /\ MaxAttempts \in Nat \ {0}
    /\ Nothing \notin Senders /\ Nothing \notin Texts

VARIABLES
    sending,        \* the delivery each sender is in
    result,         \* how its last delivery ended, and the message id
    chat            \* Feishu: how often each text is in the chat

deliveryVars == <<sending, result, chat>>

DeliveryTypeOK ==
    /\ sending \in [Senders -> [text : Texts, attempt : 1 .. MaxAttempts] \cup {Nothing}]
    /\ result \in [Senders -> [code : {"none", "sent", "failed", "raised"},
                               id : Nat]]
    /\ chat \in [Texts -> Nat]

NoResult == [code |-> "none", id |-> 0]

DeliveryInit ==
    /\ sending = [p \in Senders |-> Nothing]
    /\ result = [p \in Senders |-> NoResult]
    /\ chat = [t \in Texts |-> 0]

\* The call of deliver_with_retry
StartDelivery(p, t) ==
    /\ sending' = [sending EXCEPT ![p] = [text |-> t, attempt |-> 1]]
    /\ result' = [result EXCEPT ![p] = NoResult]
    /\ UNCHANGED chat

Posted(t) == [chat EXCEPT ![t] = @ + 1]

EndDelivery(p, code, id) ==
    /\ sending' = [sending EXCEPT ![p] = Nothing]
    /\ result' = [result EXCEPT ![p] = [code |-> code, id |-> id]]

\* send_once() answers with success.  id 0 stands for no message id: the
\* answer has none or the caller gave no message_id_of.  The n-th copy of a
\* text has the id n.
SendSucceeds(p, readsId) ==
    LET t == sending[p].text IN
    /\ sending[p] # Nothing
    /\ chat' = Posted(t)
    /\ \E id \in {0} \cup (IF readsId THEN {chat[t] + 1} ELSE {}) :
          EndDelivery(p, "sent", id)

\* Mutant: the count of the attempts starts again.
SendIsTransient_Forever(p) ==
    /\ sending[p] # Nothing
    /\ sending' = [sending EXCEPT ![p].attempt =
                      IF @ = MaxAttempts THEN 1 ELSE @ + 1]
    /\ UNCHANGED <<result, chat>>

\* A transient exception or code.  After an exception the message may be in
\* the chat all the same.
SendIsTransient(p) ==
    LET t == sending[p].text IN
    /\ sending[p] # Nothing
    /\ chat' \in {chat, Posted(t)}
    /\ IF sending[p].attempt = MaxAttempts
       THEN EndDelivery(p, "failed", 0)
       ELSE /\ sending' = [sending EXCEPT ![p].attempt = @ + 1]
            /\ UNCHANGED result

\* A permanent code, or an exception that is not a transient one and is
\* left to the caller; one that is raised while the answer is read comes
\* after the message was posted.
SendIsPermanent(p) ==
    LET t == sending[p].text IN
    /\ sending[p] # Nothing
    /\ \/ EndDelivery(p, "failed", 0) /\ UNCHANGED chat
       \/ EndDelivery(p, "raised", 0) /\ chat' \in {chat, Posted(t)}

SendOnce(p, readsId) ==
    SendSucceeds(p, readsId) \/ SendIsTransient(p) \/ SendIsPermanent(p)

Delivering(p) == sending[p] # Nothing

\* The caller returns or dies, and its locals are gone.
LeaveDelivery(p) ==
    /\ sending' = [sending EXCEPT ![p] = Nothing]
    /\ result' = [result EXCEPT ![p] = NoResult]
    /\ UNCHANGED chat
=============================================================================
