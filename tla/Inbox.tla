-------------------------------- MODULE Inbox --------------------------------
(***************************************************************************)
(* The event handlers of the Feishu worker (handle_message and             *)
(* handle_card_action of app/feishu_worker.py), its counters               *)
(* (app/services/worker_health.py), and the other writer of                *)
(* core.raw_inputs, POST /inputs/text (app/api/inputs.py).                 *)
(*                                                                         *)
(* Feishu delivers an event again until a handler has returned, also to    *)
(* another worker process, so handlers of one message may overlap.  The    *)
(* handler catches every exception: it always returns, and the event is    *)
(* acknowledged whether or not the input was stored.  A worker may die at  *)
(* any point.  What a message that is an approval does is in Approval.     *)
(***************************************************************************)
EXTENDS Delivery

CONSTANTS
    Workers,        \* worker processes; one event at a time each
    Messages,       \* Feishu message ids
    Kind,           \* a text to store or anything else
    MaxDeliveries   \* bound: deliveries of one message

ASSUME InboxConstants ==
    /\ Workers \subseteq Senders
    /\ Kind \in [Messages -> {"text", "other"}]
    /\ Messages \X {"recorded", "duplicate", "other"} \subseteq Texts
    /\ Nothing \notin {"worker", "api"}
    /\ MaxDeliveries \in Nat

VARIABLES
    pc,             \* where each worker is in handle_message
    msg,            \* the message it handles
    inputs,         \* core.raw_inputs of channel feishu: who stored it
    counters,       \* WorkerHealth of each worker process
    deliveries,     \* Feishu: how often each message was delivered
    acked,          \* Feishu: messages that need no further delivery
    userKnown,      \* core.users has the row of settings.default_user_id
    failures,       \* history: messages some handler counted as failed
    refused         \* history: messages whose insert the foreign key refused

inboxVars == <<pc, msg, inputs, counters, deliveries, acked, userKnown,
               failures, refused>>

InboxTypeOK ==
    /\ pc \in [Workers -> {"idle", "route", "store", "reply"}]
    /\ msg \in [Workers -> Messages \cup {Nothing}]
    /\ inputs \in [Messages -> {"worker", "api", Nothing}]
    /\ counters \in [Workers -> [received : Nat, succeeded : Nat, failed : Nat]]
    /\ deliveries \in [Messages -> Nat]
    /\ acked \subseteq Messages
    /\ userKnown \in BOOLEAN
    /\ failures \subseteq Messages
    /\ refused \subseteq Messages

InboxInit ==
    /\ pc = [w \in Workers |-> "idle"]
    /\ msg = [w \in Workers |-> Nothing]
    /\ inputs = [m \in Messages |-> Nothing]
    /\ counters = [w \in Workers |-> [received |-> 0, succeeded |-> 0,
                                      failed |-> 0]]
    /\ deliveries = [m \in Messages |-> 0]
    /\ acked = {}
    /\ userKnown \in BOOLEAN
    /\ failures = {}
    /\ refused = {}

-----------------------------------------------------------------------------
(* handle_message()                                                        *)

\* The event arrives: mark_event_received.
Receive(w, m) ==
    /\ pc[w] = "idle"
    /\ m \notin acked
    /\ deliveries[m] < MaxDeliveries
    /\ deliveries' = [deliveries EXCEPT ![m] = @ + 1]
    /\ counters' = [counters EXCEPT ![w].received = @ + 1]
    /\ pc' = [pc EXCEPT ![w] = "route"]
    /\ msg' = [msg EXCEPT ![w] = m]
    /\ UNCHANGED <<inputs, acked, userKnown, failures, refused, deliveryVars>>

\* The finally clause; the return acknowledges the event.
Finish(w, failed) ==
    /\ pc' = [pc EXCEPT ![w] = "idle"]
    /\ msg' = [msg EXCEPT ![w] = Nothing]
    /\ counters' = [counters EXCEPT
           ![w].succeeded = IF failed THEN @ ELSE @ + 1,
           ![w].failed = IF failed THEN @ + 1 ELSE @]
    /\ acked' = acked \cup {msg[w]}
    /\ failures' = IF failed THEN failures \cup {msg[w]} ELSE failures
    /\ UNCHANGED <<deliveries, userKnown, refused>>

\* reply_text() with one of the fixed texts
Reply(w, text) ==
    /\ pc' = [pc EXCEPT ![w] = "reply"]
    /\ StartDelivery(w, <<msg[w], text>>)
    /\ UNCHANGED <<msg, counters, deliveries, acked, userKnown, failures>>

\* Events that end without a reply (not authorised, without a message id,
\* unreadable, or the tap on a card of handle_card_action, which answers in
\* its return value) or with one (another type, no text, an approval
\* command), and texts to store.  process_approval_message, which looks at
\* every text first, and the reading of the event may raise.
Route(w) ==
    /\ pc[w] = "route"
    /\ \/ /\ Kind[msg[w]] = "other"
          /\ Finish(w, FALSE)
          /\ UNCHANGED deliveryVars
       \/ /\ Finish(w, TRUE)
          /\ UNCHANGED deliveryVars
       \/ Kind[msg[w]] = "other" /\ Reply(w, "other") /\ UNCHANGED refused
       \/ /\ Kind[msg[w]] = "text"
          /\ pc' = [pc EXCEPT ![w] = "store"]
          /\ UNCHANGED <<msg, counters, deliveries, acked, userKnown, failures,
                         refused, deliveryVars>>
    /\ UNCHANGED inputs

\* Mutant: the user is told before the row is committed.
StoreCreated_ReplyFirst(w) ==
    /\ pc[w] = "store"
    /\ inputs[msg[w]] = Nothing
    /\ Reply(w, "recorded")
    /\ UNCHANGED <<inputs, refused>>

\* The insert of the raw input is committed and read back.
StoreCreated(w) ==
    /\ pc[w] = "store"
    /\ inputs[msg[w]] = Nothing /\ userKnown
    /\ inputs' = [inputs EXCEPT ![msg[w]] = "worker"]
    /\ Reply(w, "recorded")
    /\ UNCHANGED refused

\* Mutant: a duplicate is stored and confirmed once more.
StoreDuplicate_Again(w) ==
    /\ pc[w] = "store"
    /\ inputs[msg[w]] # Nothing
    /\ inputs' = [inputs EXCEPT ![msg[w]] = "worker"]
    /\ Reply(w, "recorded")
    /\ UNCHANGED refused

\* IntegrityError of uq_raw_inputs_channel_message
StoreDuplicate(w) ==
    /\ pc[w] = "store"
    /\ inputs[msg[w]] # Nothing
    /\ Reply(w, "duplicate")
    /\ UNCHANGED <<inputs, refused>>

\* IntegrityError of the foreign key to core.users.  The handler does not
\* tell the two apart: the user reads that the message is recorded already,
\* and the event counts as handled.
StoreRefused(w) ==
    /\ pc[w] = "store"
    /\ inputs[msg[w]] = Nothing /\ ~userKnown
    /\ refused' = refused \cup {msg[w]}
    /\ Reply(w, "duplicate")
    /\ UNCHANGED inputs

\* Mutant: the failure is logged and the event counted as handled.
StoreFails_Swallowed(w) ==
    /\ pc[w] = "store"
    /\ UNCHANGED inputs
    /\ Finish(w, FALSE)
    /\ UNCHANGED deliveryVars

\* Any error of commit() or refresh() but an IntegrityError: the row may be
\* there or not, and there is no reply.
StoreFails(w) ==
    /\ pc[w] = "store"
    /\ \/ UNCHANGED inputs
       \/ /\ inputs[msg[w]] = Nothing /\ userKnown
          /\ inputs' = [inputs EXCEPT ![msg[w]] = "worker"]
    /\ Finish(w, TRUE)
    /\ UNCHANGED deliveryVars

\* Whether the reply was sent is only logged; an exception fails the event.
EndReply(w) ==
    /\ pc[w] = "reply"
    /\ ~Delivering(w)
    /\ Finish(w, result[w].code = "raised")
    /\ LeaveDelivery(w)
    /\ UNCHANGED inputs

WorkerDies(w) ==
    /\ pc[w] # "idle"
    /\ pc' = [pc EXCEPT ![w] = "idle"]
    /\ msg' = [msg EXCEPT ![w] = Nothing]
    /\ counters' = [counters EXCEPT ![w] = [received |-> 0, succeeded |-> 0,
                                            failed |-> 0]]
    /\ LeaveDelivery(w)
    /\ UNCHANGED <<inputs, deliveries, acked, userKnown, failures, refused>>

Handle(w) ==
    \/ Route(w) \/ StoreCreated(w) \/ StoreDuplicate(w) \/ StoreRefused(w)
    \/ StoreFails(w) \/ EndReply(w)
    \/ pc[w] = "reply" /\ SendOnce(w, FALSE) /\ UNCHANGED inboxVars

\* create_text_input with the channel and the id of a Feishu message.  An
\* IntegrityError, because the message or because no user is there, is
\* answered with a 409 and changes nothing.
CreateTextInput(m) ==
    /\ inputs[m] = Nothing /\ userKnown
    /\ inputs' = [inputs EXCEPT ![m] = "api"]
    /\ UNCHANGED <<pc, msg, counters, deliveries, acked, userKnown, failures,
                   refused, deliveryVars>>

\* Somebody inserts the configured user.  No migration and no code does it.
ProvisionUser ==
    /\ ~userKnown
    /\ userKnown' = TRUE
    /\ UNCHANGED <<pc, msg, inputs, counters, deliveries, acked, failures,
                   refused, deliveryVars>>

-----------------------------------------------------------------------------
(* Properties                                                              *)

\* The user is never told that a message is recorded, now or already,
\* before its row is committed, whatever redeliveries, lost answers and
\* deaths come in between.  The one false reply is "already recorded" to a
\* message whose insert failed for want of the configured user
\* (handle_message takes every IntegrityError for a duplicate).
RepliesAreTruthful ==
    \A m \in Messages :
        /\ chat[<<m, "recorded">>] > 0 => inputs[m] = "worker"
        /\ chat[<<m, "duplicate">>] > 0 => inputs[m] # Nothing \/ m \in refused

\* Only one handling of a message confirms it: its confirmation is in the
\* chat at most once for each attempt of a single delivery
\* (deliver_with_retry, uq_raw_inputs_channel_message).
ConfirmedByOneHandler ==
    \A m \in Messages : chat[<<m, "recorded">>] <= MaxAttempts

\* A text that Feishu will not deliver again is stored, or the worker has
\* counted a failure, or its insert failed for want of the configured user:
\* nothing else is lost silently (handle_message).  And the counters of
\* /health add up: every event that was received is being handled or was
\* counted once, as a success or a failure (WorkerHealth).
LossIsCounted ==
    /\ \A m \in acked :
          Kind[m] = "text" =>
              inputs[m] # Nothing \/ m \in failures \/ m \in refused
    /\ \A w \in Workers :
          counters[w].received =
              counters[w].succeeded + counters[w].failed
              + (IF pc[w] = "idle" THEN 0 ELSE 1)

\* Every event that a worker has taken comes to an end: the retries of the
\* reply are bounded (deliver_with_retry).
EveryEventEnds == \A w \in Workers : pc[w] # "idle" ~> pc[w] = "idle"
=============================================================================
