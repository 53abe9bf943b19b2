------------------------------- MODULE Outbox -------------------------------
(***************************************************************************)
(* Messages that the system sends on its own account: deployment           *)
(* notifications (send_deployment_notification of                          *)
(* app/services/deployment_notifications.py) and the approval card of the  *)
(* command line tool (request-approval in run() of app/supervision_cli.py).*)
(*                                                                         *)
(* A notification is sent first and put on record afterwards, under its    *)
(* deployment and evidence key; the sink gets the evidence key alone, as   *)
(* its idempotency key, and two deployments may use the same.  A card is   *)
(* sent for a request that is already stored, and its message id is stored *)
(* in a transaction of its own.  The callers may die between any two       *)
(* steps, and be called again with the same key.                           *)
(***************************************************************************)
EXTENDS Delivery

CONSTANTS
    Clis,           \* processes that notify or request an approval
    Keys,           \* idempotency keys of approval requests
    Notices,        \* notifications, each of one deployment
    EvidenceKeys,   \* what evidence_key may be
    EvidenceKey     \* the evidence_key of each notification

ASSUME OutboxConstants ==
    /\ Clis \subseteq Senders
    /\ Keys \X {"card"} \subseteq Texts
    /\ EvidenceKey \in [Notices -> EvidenceKeys]

VARIABLES
    step,           \* where each process is
    key,            \* the notification or request key of its call
    reference,      \* the reference that its sink.send returned
    returned,       \* history: notifications and references returned
    evidence,       \* feishu_notification evidence: the reference on record
    posts,          \* the sink: how often it posted for an evidence key
    requests,       \* keys with a row in approval_requests
    cardId          \* card_message_id of each request

outboxVars == <<step, key, reference, returned, evidence, posts, requests,
                cardId>>

\* A reference stands for the n-th post of an evidence key; 0 when there is
\* none.
OutboxTypeOK ==
    /\ step \in [Clis -> {"idle", "look", "send", "record", "request",
                          "card", "storeId"}]
    /\ key \in [Clis -> Keys \cup Notices \cup {Nothing}]
    /\ reference \in [Clis -> Nat]
    /\ returned \subseteq Notices \X {1}
    /\ evidence \in [Notices -> Nat] /\ posts \in [EvidenceKeys -> Nat]
    /\ requests \subseteq Keys
    /\ cardId \in [Keys -> Nat]

OutboxInit ==
    /\ step = [p \in Clis |-> "idle"]
    /\ key = [p \in Clis |-> Nothing]
    /\ reference = [p \in Clis |-> 0] /\ returned = {}
    /\ evidence = [n \in Notices |-> 0] /\ posts = [e \in EvidenceKeys |-> 0]
    /\ requests = {}
    /\ cardId = [k \in Keys |-> 0]

Goto(p, label) == step' = [step EXCEPT ![p] = label]

Begin(p, k, label) ==
    /\ step[p] = "idle"
    /\ Goto(p, label)
    /\ key' = [key EXCEPT ![p] = k]

Return(p, ref) ==
    /\ Goto(p, "idle")
    /\ key' = [key EXCEPT ![p] = Nothing]
    /\ reference' = [reference EXCEPT ![p] = 0]
    /\ returned' = IF ref = 0 THEN returned ELSE returned \cup {<<key[p], ref>>}

-----------------------------------------------------------------------------
(* send_deployment_notification()                                          *)

Notify(p, n) ==
    /\ Begin(p, n, "look")
    /\ UNCHANGED <<reference, returned, evidence, posts, requests, cardId,
                   deliveryVars>>

\* A notification that is on record is not sent again.
LookUp(p) ==
    /\ step[p] = "look"
    /\ IF evidence[key[p]] # 0
       THEN Return(p, evidence[key[p]])
       ELSE Goto(p, "send") /\ UNCHANGED <<key, reference, returned>>
    /\ UNCHANGED <<evidence, posts, requests, cardId, deliveryVars>>

\* The sink posts an evidence key once and gives the same reference again.
SinkPosts(e) == IF posts[e] = 0 THEN 1 ELSE posts[e]

\* Mutant: every call of the sink has a key of its own.
SinkSends_FreshKey(p) ==
    LET e == EvidenceKey[key[p]]
        n == posts[e] + 1 IN
    /\ step[p] = "send"
    /\ posts' = [posts EXCEPT ![e] = n]
    /\ reference' = [reference EXCEPT ![p] = n]
    /\ Goto(p, "record")
    /\ UNCHANGED <<key, returned, evidence, requests, cardId, deliveryVars>>

\* sink.send(..., idempotency_key): it may fail before or after the post.
SinkSends(p) ==
    LET e == EvidenceKey[key[p]] IN
    /\ step[p] = "send"
    /\ \/ /\ posts' = [posts EXCEPT ![e] = SinkPosts(e)]
          /\ \/ /\ reference' = [reference EXCEPT ![p] = SinkPosts(e)]
                /\ Goto(p, "record")
                /\ UNCHANGED <<key, returned>>
             \/ Return(p, 0)
       \/ UNCHANGED posts /\ Return(p, 0)
    /\ UNCHANGED <<evidence, requests, cardId, deliveryVars>>

\* record_deployment_evidence: the same evidence again is accepted, other
\* evidence under the key is a conflict, and any database error leaves the
\* row there or not.
RecordEvidence(p) ==
    LET n == key[p] IN
    /\ step[p] = "record"
    /\ \/ /\ evidence[n] \in {0, reference[p]}
          /\ evidence' = [evidence EXCEPT ![n] = reference[p]]
          /\ \E ref \in {reference[p], 0} : Return(p, ref)
       \/ UNCHANGED evidence /\ Return(p, 0)
    /\ UNCHANGED <<posts, requests, cardId, deliveryVars>>

-----------------------------------------------------------------------------
(* request-approval                                                        *)

RequestApproval(p, k) ==
    /\ Begin(p, k, "request")
    /\ UNCHANGED <<reference, returned, evidence, posts, requests, cardId,
                   deliveryVars>>

\* Mutant: the card is sent although the request could not be stored.
CreateRequest_Optional(p) ==
    /\ step[p] = "request"
    /\ requests' \in {requests, requests \cup {key[p]}}
    /\ Goto(p, "card")
    /\ StartDelivery(p, <<key[p], "card">>)
    /\ UNCHANGED <<key, reference, returned, evidence, posts, cardId>>

\* create_approval_request, which returns the request of the key if there
\* is one, and the call of send_interactive_card; or an error, after which
\* the request may be there all the same.
CreateRequest(p) ==
    /\ step[p] = "request"
    /\ \/ /\ requests' = requests \cup {key[p]}
          /\ Goto(p, "card")
          /\ StartDelivery(p, <<key[p], "card">>)
          /\ UNCHANGED <<key, reference, returned>>
       \/ /\ requests' \in {requests, requests \cup {key[p]}}
          /\ Return(p, 0)
          /\ UNCHANGED deliveryVars
    /\ UNCHANGED <<evidence, posts, cardId>>

\* The card is sent and the answer has its message id, or the call ends.
CardDelivered(p) ==
    /\ step[p] = "card"
    /\ ~Delivering(p)
    /\ IF result[p].code = "sent" /\ result[p].id # 0
       THEN /\ Goto(p, "storeId")
            /\ UNCHANGED <<key, reference, returned, deliveryVars>>
       ELSE Return(p, 0) /\ LeaveDelivery(p)
    /\ UNCHANGED <<evidence, posts, requests, cardId>>

\* A second transaction stores the message id, or fails.
StoreCardId(p) ==
    /\ step[p] = "storeId"
    /\ cardId' \in {cardId, [cardId EXCEPT ![key[p]] = result[p].id]}
    /\ Return(p, 0)
    /\ LeaveDelivery(p)
    /\ UNCHANGED <<evidence, posts, requests>>

\* The process dies between two steps.
CliDies(p) ==
    /\ step[p] # "idle"
    /\ Return(p, 0)
    /\ LeaveDelivery(p)
    /\ UNCHANGED <<evidence, posts, requests, cardId>>

Send(p) ==
    \/ LookUp(p) \/ SinkSends(p) \/ RecordEvidence(p)
    \/ CreateRequest(p) \/ CardDelivered(p) \/ StoreCardId(p)
    \/ step[p] = "card" /\ SendOnce(p, TRUE) /\ UNCHANGED outboxVars

-----------------------------------------------------------------------------
(* Properties                                                              *)

\* Although a notification is sent before it is recorded, and a caller that
\* died in between is repeated, its evidence key is posted once, and what is
\* on record or was returned is the reference of that post
\* (send_deployment_notification).
NotifiedOnce ==
    /\ \A e \in EvidenceKeys : posts[e] <= 1
    /\ \A n \in Notices : evidence[n] <= posts[EvidenceKey[n]]
    /\ \A r \in returned : evidence[r[1]] = r[2]

\* No card is in the chat without its request, so a tap on any copy of a
\* card finds the request; and the message id that is stored is that of a
\* card of this request (request-approval).
CardsAreBacked ==
    \A k \in Keys :
        /\ chat[<<k, "card">>] > 0 => k \in requests
        /\ cardId[k] <= chat[<<k, "card">>]
=============================================================================
