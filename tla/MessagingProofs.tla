--------------------------- MODULE MessagingProofs ---------------------------
(***************************************************************************)
(* Theorems about the messages from and to Feishu, for every set of        *)
(* workers, callers, messages and keys and every number of attempts and    *)
(* deliveries.                                                             *)
(***************************************************************************)
EXTENDS Messaging, TLAPS

-----------------------------------------------------------------------------
(* The inductive invariant                                                 *)

Confirmation(m) == <<m, "recorded">>
Card(k) == <<k, "card">>

\* The message is stored, or its insert failed for want of the user.
Answered(m) == inputs[m] # Nothing \/ m \in refused

\* The text that the handler w is sending is a reply to its message, and the
\* truth.  Of a confirmation, the attempt it is at bounds the copies.
ReplyOK(w) ==
    sending[w] # Nothing =>
        /\ pc[w] = "reply"
        /\ \/ sending[w].text = <<msg[w], "other">>
           \/ /\ sending[w].text = <<msg[w], "duplicate">>
              /\ Answered(msg[w])
           \/ /\ sending[w].text = Confirmation(msg[w])
              /\ inputs[msg[w]] = "worker"
              /\ chat[Confirmation(msg[w])] < sending[w].attempt

\* What a handler knows of its message at every point
HandlerOK(w) ==
    /\ pc[w] # "idle" => msg[w] \in Messages
    /\ pc[w] = "store" => Kind[msg[w]] = "text"
    /\ pc[w] = "reply" /\ Kind[msg[w]] = "text" => Answered(msg[w])

\* A confirmation is sent by the handler that inserted the row.
OneConfirms ==
    \A m \in Messages, v, w \in Workers :
        /\ sending[v] # Nothing /\ sending[v].text = Confirmation(m)
        /\ sending[w] # Nothing /\ sending[w].text = Confirmation(m)
        => v = w

InboxInv ==
    /\ InboxTypeOK
    /\ \A w \in Workers : ReplyOK(w) /\ HandlerOK(w)
    /\ OneConfirms
    /\ RepliesAreTruthful /\ ConfirmedByOneHandler /\ LossIsCounted

\* What a caller of the notifications or of request-approval relies on
CliOK(p) ==
    /\ step[p] \in {"look", "send", "record"} => key[p] \in Notices
    /\ step[p] \in {"request", "card", "storeId"} => key[p] \in Keys
    /\ step[p] = "record" =>
          reference[p] = 1 /\ posts[EvidenceKey[key[p]]] = 1
    /\ step[p] \in {"card", "storeId"} =>
          key[p] \in requests /\ result[p].id <= chat[Card(key[p])]
    /\ sending[p] # Nothing =>
          step[p] = "card" /\ sending[p].text = Card(key[p])

OutboxInv ==
    /\ OutboxTypeOK
    /\ \A p \in Clis : CliOK(p)
    /\ NotifiedOnce /\ CardsAreBacked

Inv == DeliveryTypeOK /\ work \in 0 .. MaxWork /\ InboxInv /\ OutboxInv

\* The invariant holds in the initial state.
LEMMA InitInv == Init => Inv
<1> SUFFICES ASSUME Init PROVE Inv
  OBVIOUS
<1>1. DeliveryTypeOK /\ work \in 0 .. MaxWork
  BY MessagingConstants DEF Init, DeliveryInit, DeliveryTypeOK, NoResult
<1>2. InboxTypeOK /\ OutboxTypeOK
  BY DEF Init, InboxInit, OutboxInit, InboxTypeOK, OutboxTypeOK
<1>3. /\ \A w \in Workers : ReplyOK(w) /\ HandlerOK(w)
      /\ \A p \in Clis : CliOK(p)
      /\ OneConfirms
  <2>1. \A q \in Senders : sending[q] = Nothing
    BY DEF Init, DeliveryInit
  <2>2. \A q \in Workers \cup Clis : sending[q] = Nothing
    BY <2>1, InboxConstants, OutboxConstants
  <2>3. (\A w \in Workers : pc[w] = "idle") /\ \A p \in Clis : step[p] = "idle"
    BY DEF Init, InboxInit, OutboxInit
  <2> QED BY <2>2, <2>3 DEF ReplyOK, HandlerOK, CliOK, OneConfirms
<1>4. \A t \in Texts : chat[t] = 0
  BY DEF Init, DeliveryInit
<1>5. /\ \A m \in Messages : /\ chat[<<m, "recorded">>] = 0
                             /\ chat[<<m, "duplicate">>] = 0
      /\ \A k \in Keys : chat[<<k, "card">>] = 0
  BY <1>4, InboxConstants, OutboxConstants
<1>6. RepliesAreTruthful /\ ConfirmedByOneHandler /\ CardsAreBacked
  <2>1. MaxAttempts \in Nat /\ \A k \in Keys : cardId[k] = 0
    BY DeliveryConstants DEF Init, OutboxInit
  <2>2. ASSUME NEW m \in Messages
        PROVE  /\ chat[<<m, "recorded">>] <= MaxAttempts
               /\ ~(chat[<<m, "recorded">>] > 0)
               /\ ~(chat[<<m, "duplicate">>] > 0)
    BY <1>5, <2>1
  <2>3. ASSUME NEW k \in Keys
        PROVE  ~(chat[<<k, "card">>] > 0) /\ cardId[k] <= chat[<<k, "card">>]
    BY <1>5, <2>1
  <2> QED BY <2>2, <2>3
          DEF RepliesAreTruthful, ConfirmedByOneHandler, CardsAreBacked
<1>7. LossIsCounted /\ NotifiedOnce
  BY OutboxConstants
     DEF Init, InboxInit, OutboxInit, LossIsCounted, NotifiedOnce
<1> QED BY <1>1, <1>2, <1>3, <1>6, <1>7 DEF Inv, InboxInv, OutboxInv

-----------------------------------------------------------------------------
(* Deliveries                                                              *)

\* A sender leaves the deliveries of the others alone.
OthersKept(p) ==
    \A q \in Senders \ {p} : sending'[q] = sending[q] /\ result'[q] = result[q]

\* What the call of deliver_with_retry does
LEMMA StartFacts ==
  ASSUME DeliveryTypeOK, NEW p \in Senders, NEW t \in Texts,
         StartDelivery(p, t)
  PROVE  /\ DeliveryTypeOK' /\ OthersKept(p) /\ chat' = chat
         /\ sending'[p] = [text |-> t, attempt |-> 1]
         /\ result'[p].id = 0
<1>1. [text |-> t, attempt |-> 1] \in [text : Texts, attempt : 1 .. MaxAttempts]
  BY DeliveryConstants
<1>2. NoResult \in [code : {"none", "sent", "failed", "raised"}, id : Nat]
      /\ NoResult.id = 0
  BY DEF NoResult
<1>3. /\ sending' = [sending EXCEPT ![p] = [text |-> t, attempt |-> 1]]
      /\ result' = [result EXCEPT ![p] = NoResult] /\ chat' = chat
  BY DEF StartDelivery
<1> QED BY <1>1, <1>2, <1>3 DEF DeliveryTypeOK, OthersKept

\* What the return to the caller, or its death, does
LEMMA LeaveFacts ==
  ASSUME DeliveryTypeOK, NEW p \in Senders, LeaveDelivery(p)
  PROVE  /\ DeliveryTypeOK' /\ OthersKept(p) /\ chat' = chat
         /\ sending'[p] = Nothing
<1>1. NoResult \in [code : {"none", "sent", "failed", "raised"}, id : Nat]
  BY DEF NoResult
<1> QED BY <1>1 DEF LeaveDelivery, DeliveryTypeOK, OthersKept

\* One copy of a text more is in the chat.
LEMMA PostedFacts ==
  ASSUME DeliveryTypeOK, NEW t \in Texts, chat' = Posted(t)
  PROVE  /\ chat' \in [Texts -> Nat] /\ chat'[t] = chat[t] + 1
         /\ \A u \in Texts : u # t => chat'[u] = chat[u]
  BY DEF DeliveryTypeOK, Posted

\* How a delivery ends
LEMMA EndFacts ==
  ASSUME DeliveryTypeOK, NEW p \in Senders, NEW id \in Nat,
         NEW code \in {"sent", "failed", "raised"}, EndDelivery(p, code, id),
         chat' \in [Texts -> Nat]
  PROVE  /\ DeliveryTypeOK' /\ OthersKept(p) /\ sending'[p] = Nothing
         /\ result'[p].id = id
<1>1. [code |-> code, id |-> id]
         \in [code : {"none", "sent", "failed", "raised"}, id : Nat]
  OBVIOUS
<1> QED BY <1>1 DEF EndDelivery, DeliveryTypeOK, OthersKept

\* An attempt to send puts the text into the chat or not, and the delivery
\* ends or is at its next attempt.  A message id is that of a copy that is
\* in the chat.
LEMMA SendFacts ==
  ASSUME DeliveryTypeOK, NEW p \in Senders, NEW readsId \in BOOLEAN,
         SendOnce(p, readsId)
  PROVE  /\ sending[p] # Nothing /\ sending[p].text \in Texts
         /\ sending[p].attempt \in 1 .. MaxAttempts
         /\ DeliveryTypeOK' /\ OthersKept(p)
         /\ chat' = chat \/ chat' = Posted(sending[p].text)
         /\ \/ sending'[p] = Nothing
            \/ /\ sending'[p].text = sending[p].text
               /\ sending'[p].attempt = sending[p].attempt + 1
         /\ \/ result'[p].id = 0 \/ result'[p].id = result[p].id
            \/ result'[p].id = chat'[sending[p].text]
<1>1. sending[p] # Nothing
  BY DEF SendOnce, SendSucceeds, SendIsTransient, SendIsPermanent
<1>2. sending[p] \in [text : Texts, attempt : 1 .. MaxAttempts]
  BY <1>1 DEF DeliveryTypeOK
<1>3. sending[p].text \in Texts /\ sending[p].attempt \in 1 .. MaxAttempts
  BY <1>2
<1>4. chat' = chat \/ chat' = Posted(sending[p].text)
  BY DEF SendOnce, SendSucceeds, SendIsTransient, SendIsPermanent
<1>5. chat' \in [Texts -> Nat]
  BY <1>3, <1>4, PostedFacts DEF DeliveryTypeOK
<1>6. CASE SendSucceeds(p, readsId)
  <2>1. PICK id \in {0} \cup {chat[sending[p].text] + 1} :
           EndDelivery(p, "sent", id)
    BY <1>6 DEF SendSucceeds
  <2>2. chat[sending[p].text] \in Nat
    BY <1>3 DEF DeliveryTypeOK
  <2>3. id \in Nat
    BY <2>1, <2>2
  <2>4. id = 0 \/ id = chat'[sending[p].text]
    BY <1>3, <1>6, <2>1, PostedFacts DEF SendSucceeds
  <2> QED BY <1>1, <1>3, <1>4, <1>5, <2>1, <2>3, <2>4, EndFacts
<1>7. CASE \E code \in {"failed", "raised"} : EndDelivery(p, code, 0)
  BY <1>1, <1>3, <1>4, <1>5, <1>7, EndFacts
<1>8. CASE /\ sending[p].attempt # MaxAttempts /\ UNCHANGED result
           /\ sending' = [sending EXCEPT ![p].attempt = @ + 1]
  <2>1. sending[p].attempt + 1 \in 1 .. MaxAttempts
    BY <1>3, <1>8, DeliveryConstants
  <2> DEFINE next == [sending[p] EXCEPT !.attempt = @ + 1]
  <2>2. /\ next \in [text : Texts, attempt : 1 .. MaxAttempts]
        /\ next.text = sending[p].text
        /\ next.attempt = sending[p].attempt + 1
    BY <1>2, <2>1
  <2>3. sending' = [sending EXCEPT ![p] = next]
    BY <1>8
  <2> HIDE DEF next
  <2>4. DeliveryTypeOK' /\ OthersKept(p)
    BY <1>5, <1>8, <2>2, <2>3 DEF DeliveryTypeOK, OthersKept
  <2>5. sending'[p] = next
    BY <2>3 DEF DeliveryTypeOK
  <2> QED BY <1>1, <1>3, <1>4, <1>8, <2>2, <2>4, <2>5
<1> QED BY <1>6, <1>7, <1>8 DEF SendOnce, SendIsTransient, SendIsPermanent

-----------------------------------------------------------------------------
(* The handlers of the worker                                              *)

\* A row of core.raw_inputs stays as it was inserted.
InputsKept ==
    /\ inputs' \in [Messages -> {"worker", "api", Nothing}]
    /\ refused \subseteq refused' /\ refused' \subseteq Messages
    /\ \A m \in Messages : inputs[m] # Nothing => inputs'[m] = inputs[m]

\* While one handler takes a step, the others know what they knew: a
\* confirmation that is sent again is its own.
LEMMA OtherHandlers ==
  ASSUME DeliveryTypeOK, InboxInv, NEW w \in Workers,
         OthersKept(w), InputsKept,
         \A v \in Workers \ {w} : pc'[v] = pc[v] /\ msg'[v] = msg[v],
         \/ chat' = chat
         \/ sending[w] # Nothing /\ chat' = Posted(sending[w].text)
  PROVE  \A v \in Workers \ {w} : ReplyOK(v)' /\ HandlerOK(v)'
<1> SUFFICES ASSUME NEW v \in Workers \ {w} PROVE ReplyOK(v)' /\ HandlerOK(v)'
  OBVIOUS
<1>1. v \in Senders /\ w \in Senders /\ v # w
  BY InboxConstants
<1>2. /\ pc'[v] = pc[v] /\ msg'[v] = msg[v] /\ sending'[v] = sending[v]
      /\ ReplyOK(v) /\ HandlerOK(v)
  BY <1>1 DEF OthersKept, InboxInv
<1>3. HandlerOK(v)'
  BY <1>2 DEF HandlerOK, InputsKept, InboxTypeOK, Answered
<1>4. ASSUME sending[v] # Nothing PROVE ReplyOK(v)'
  <2>1. pc[v] = "reply" /\ msg[v] \in Messages
    BY <1>2, <1>4 DEF ReplyOK, HandlerOK
  <2>2. CASE sending[v].text = <<msg[v], "other">>
    BY <1>2, <2>1, <2>2 DEF ReplyOK
  <2>3. CASE /\ sending[v].text = <<msg[v], "duplicate">>
             /\ Answered(msg[v])
    BY <1>2, <2>1, <2>3 DEF ReplyOK, InputsKept, Answered
  <2>4. CASE /\ sending[v].text = Confirmation(msg[v])
             /\ inputs[msg[v]] = "worker"
             /\ chat[Confirmation(msg[v])] < sending[v].attempt
    <3>1. inputs'[msg[v]] = "worker"
      BY <2>1, <2>4, InboxConstants DEF InputsKept
    <3>2. Confirmation(msg[v]) \in Texts
      BY <2>1, InboxConstants DEF Confirmation
    <3>3. sending[w] # Nothing =>
             /\ sending[w].text # Confirmation(msg[v])
             /\ sending[w].text \in Texts
      BY <1>1, <1>4, <2>1, <2>4
         DEF InboxInv, OneConfirms, DeliveryTypeOK
    <3>4. chat'[Confirmation(msg[v])] = chat[Confirmation(msg[v])]
      BY <3>2, <3>3, PostedFacts
    <3> QED BY <1>2, <2>1, <2>4, <3>1, <3>4 DEF ReplyOK, Confirmation
  <2> QED BY <1>2, <1>4, <2>2, <2>3, <2>4 DEF ReplyOK
<1>5. CASE sending[v] = Nothing
  <2>1. sending'[v] = Nothing
    BY <1>2, <1>5
  <2> QED BY <1>3, <2>1 DEF ReplyOK
<1> QED BY <1>3, <1>4, <1>5

\* A step that puts nothing into the chat leaves the chat truthful.
LEMMA QuietChat ==
  ASSUME InboxInv, InputsKept, chat' = chat
  PROVE  RepliesAreTruthful' /\ ConfirmedByOneHandler'
<1>1. RepliesAreTruthful'
  <2> SUFFICES ASSUME NEW m \in Messages
               PROVE  /\ chat[<<m, "recorded">>] > 0 => inputs'[m] = "worker"
                      /\ chat[<<m, "duplicate">>] > 0 => Answered(m)'
    BY DEF RepliesAreTruthful, Answered
  <2>1. /\ chat[<<m, "recorded">>] > 0 => inputs[m] = "worker"
        /\ chat[<<m, "duplicate">>] > 0 => Answered(m)
    BY DEF InboxInv, RepliesAreTruthful, Answered
  <2> QED BY <2>1, InboxConstants DEF InputsKept, Answered
<1> QED BY <1>1 DEF InboxInv, ConfirmedByOneHandler

\* A handler that does not send, or has ended, takes part in no confirmation.
LEMMA StillOneConfirms ==
  ASSUME InboxInv, NEW w \in Workers, OthersKept(w), sending'[w] = Nothing
  PROVE  OneConfirms'
<1>1. \A v \in Workers \ {w} : sending'[v] = sending[v]
  BY InboxConstants DEF OthersKept
<1> QED BY <1>1 DEF InboxInv, OneConfirms

\* The record of the counters with two of them changed
LEMMA CountersUpdated ==
  ASSUME NEW c \in [received : Nat, succeeded : Nat, failed : Nat],
         NEW x \in Nat, NEW y \in Nat
  PROVE  LET d == [c EXCEPT !.succeeded = x, !.failed = y] IN
         /\ d \in [received : Nat, succeeded : Nat, failed : Nat]
         /\ d.received = c.received /\ d.succeeded = x /\ d.failed = y
  OBVIOUS

\* The finally clause: the event is counted once, and a text that is not
\* stored is counted as a failure.
LEMMA FinishPreserves ==
  ASSUME DeliveryTypeOK, InboxInv, NEW w \in Workers, NEW failed \in BOOLEAN,
         Finish(w, failed), pc[w] # "idle", OthersKept(w), InputsKept,
         sending'[w] = Nothing, chat' = chat,
         \/ failed \/ Kind[msg[w]] # "text"
         \/ inputs'[msg[w]] # Nothing \/ msg[w] \in refused'
  PROVE  InboxInv'
<1>1. InboxTypeOK /\ HandlerOK(w) /\ msg[w] \in Messages
  BY DEF InboxInv, HandlerOK
<1>2. /\ pc' = [pc EXCEPT ![w] = "idle"] /\ msg' = [msg EXCEPT ![w] = Nothing]
      /\ acked' = acked \cup {msg[w]}
      /\ UNCHANGED <<deliveries, userKnown, refused>>
      /\ failures' = IF failed THEN failures \cup {msg[w]} ELSE failures
  BY DEF Finish
<1>3. counters[w] \in [received : Nat, succeeded : Nat, failed : Nat]
  BY <1>1 DEF InboxTypeOK
<1> DEFINE x == IF failed THEN counters[w].succeeded
                          ELSE counters[w].succeeded + 1
           y == IF failed THEN counters[w].failed + 1 ELSE counters[w].failed
           c == [counters[w] EXCEPT !.succeeded = x, !.failed = y]
<1>4. counters' = [counters EXCEPT ![w] = c]
  BY DEF Finish
<1>5. /\ c \in [received : Nat, succeeded : Nat, failed : Nat]
      /\ c.received = counters[w].received
      /\ c.succeeded + c.failed = counters[w].succeeded + counters[w].failed + 1
  <2>1. counters[w].succeeded \in Nat /\ counters[w].failed \in Nat
    BY <1>3
  <2>2. x \in Nat /\ y \in Nat
        /\ x + y = counters[w].succeeded + counters[w].failed + 1
    BY <2>1
  <2> HIDE DEF x, y
  <2> QED BY <1>3, <2>2, CountersUpdated
<1> HIDE DEF c
<1>6. InboxTypeOK'
  BY <1>1, <1>2, <1>4, <1>5 DEF InboxTypeOK, InputsKept
<1>7. ASSUME NEW v \in Workers PROVE ReplyOK(v)' /\ HandlerOK(v)'
  <2>1. CASE v # w
    BY <1>1, <1>2, <2>1, OtherHandlers DEF InboxTypeOK
  <2>2. CASE v = w
    BY <1>1, <1>2, <2>2 DEF InboxTypeOK, ReplyOK, HandlerOK
  <2> QED BY <2>1, <2>2
<1>8. LossIsCounted'
  <2>1. ASSUME NEW m \in acked', Kind[m] = "text"
        PROVE  inputs'[m] # Nothing \/ m \in failures' \/ m \in refused'
    <3>1. CASE m = msg[w]
      BY <1>2, <2>1, <3>1 DEF Answered
    <3>2. CASE m # msg[w]
      BY <1>1, <1>2, <2>1, <3>2
         DEF InboxInv, LossIsCounted, InputsKept, InboxTypeOK
    <3> QED BY <3>1, <3>2
  <2>2. ASSUME NEW v \in Workers
        PROVE  counters'[v].received =
                  counters'[v].succeeded + counters'[v].failed
                  + (IF pc'[v] = "idle" THEN 0 ELSE 1)
    <3>1. counters[v].received =
             counters[v].succeeded + counters[v].failed
             + (IF pc[v] = "idle" THEN 0 ELSE 1)
      BY DEF InboxInv, LossIsCounted
    <3>2. CASE v = w
      <4>1. counters'[v] = c /\ pc'[v] = "idle"
        BY <1>1, <1>2, <1>4, <3>2 DEF InboxTypeOK
      <4>2. counters[w].received =
               counters[w].succeeded + counters[w].failed + 1
        BY <3>1, <3>2
      <4>3. c.succeeded + c.failed \in Nat
        BY <1>5
      <4> QED BY <1>5, <4>1, <4>2, <4>3
    <3>3. CASE v # w
      BY <1>1, <1>2, <1>4, <3>1, <3>3 DEF InboxTypeOK
    <3> QED BY <3>2, <3>3
  <2> QED BY <2>1, <2>2 DEF LossIsCounted
<1> QED BY <1>6, <1>7, <1>8, QuietChat, StillOneConfirms DEF InboxInv

\* A step that counts nothing and acknowledges nothing
LEMMA NothingCounted ==
  ASSUME InboxInv, NEW w \in Workers, InputsKept,
         UNCHANGED <<counters, acked, failures>>, pc[w] # "idle",
         NEW label \in {"route", "store", "reply"},
         pc' = [pc EXCEPT ![w] = label]
  PROVE  LossIsCounted'
<1>1. InboxTypeOK /\ LossIsCounted
  BY DEF InboxInv
<1>2. \A m \in acked' :
         Kind[m] = "text" =>
            inputs'[m] # Nothing \/ m \in failures' \/ m \in refused'
  BY <1>1 DEF LossIsCounted, InputsKept, InboxTypeOK
<1>3. \A v \in Workers : pc'[v] = "idle" <=> pc[v] = "idle"
  BY <1>1 DEF InboxTypeOK
<1> QED BY <1>1, <1>2, <1>3 DEF LossIsCounted

\* The texts of a message are texts, and different ones.
LEMMA TextsOfMessage ==
  ASSUME NEW m \in Messages
  PROVE  /\ <<m, "recorded">> \in Texts /\ <<m, "duplicate">> \in Texts
         /\ <<m, "other">> \in Texts
  BY InboxConstants

\* No confirmation of a message without a row is under way or in the chat.
LEMMA NotYetConfirmed ==
  ASSUME DeliveryTypeOK, InboxInv, NEW m \in Messages, inputs[m] = Nothing
  PROVE  /\ chat[<<m, "recorded">>] = 0
         /\ \A v \in Workers : sending[v] # Nothing =>
                                  sending[v].text # <<m, "recorded">>
<1>1. chat[<<m, "recorded">>] = 0
  <2>1. chat[<<m, "recorded">>] \in Nat
    BY TextsOfMessage DEF DeliveryTypeOK
  <2>2. chat[<<m, "recorded">>] > 0 => inputs[m] = "worker"
    BY DEF InboxInv, RepliesAreTruthful
  <2> QED BY <2>1, <2>2, InboxConstants
<1>2. ASSUME NEW v \in Workers, sending[v] # Nothing,
             sending[v].text = <<m, "recorded">>
      PROVE  FALSE
  <2>1. ReplyOK(v)
    BY DEF InboxInv
  <2>2. sending[v].text = <<msg[v], "recorded">> /\ inputs[msg[v]] = "worker"
    BY <1>2, <2>1 DEF ReplyOK, Confirmation
  <2>3. msg[v] = m
    BY <1>2, <2>2
  <2> QED BY <2>2, <2>3, InboxConstants
<1> QED BY <1>1, <1>2

\* reply_text is called with a text that the table bears out.
LEMMA ReplyPreserves ==
  ASSUME DeliveryTypeOK, InboxInv, NEW w \in Workers,
         pc[w] \in {"route", "store"}, InputsKept,
         NEW text \in {"recorded", "duplicate", "other"}, Reply(w, text),
         text = "recorded" => /\ inputs[msg[w]] = Nothing
                              /\ inputs'[msg[w]] = "worker",
         text = "duplicate" => Answered(msg[w])',
         Kind[msg[w]] = "text" => Answered(msg[w])'
  PROVE  InboxInv' /\ DeliveryTypeOK'
<1>1. /\ InboxTypeOK /\ msg[w] \in Messages /\ w \in Senders
      /\ pc[w] # "idle"
  BY InboxConstants DEF InboxInv, HandlerOK
<1>2. /\ pc' = [pc EXCEPT ![w] = "reply"] /\ StartDelivery(w, <<msg[w], text>>)
      /\ UNCHANGED <<msg, counters, deliveries, acked, userKnown, failures>>
  BY DEF Reply
<1>3. <<msg[w], text>> \in Texts
  BY <1>1, TextsOfMessage
<1>4. /\ DeliveryTypeOK' /\ OthersKept(w) /\ chat' = chat
      /\ sending'[w] = [text |-> <<msg[w], text>>, attempt |-> 1]
  BY <1>1, <1>2, <1>3, StartFacts
<1>5. sending'[w].text = <<msg[w], text>> /\ sending'[w].attempt = 1
  BY <1>4
<1>6. InboxTypeOK'
  BY <1>1, <1>2 DEF InboxTypeOK, InputsKept
<1>7. ReplyOK(w)' /\ HandlerOK(w)'
  <2>1. pc'[w] = "reply" /\ msg'[w] = msg[w]
    BY <1>1, <1>2 DEF InboxTypeOK
  <2>2. HandlerOK(w)'
    BY <1>1, <2>1 DEF HandlerOK, Answered
  <2>3. CASE text = "recorded"
    <3>1. chat'[<<msg[w], "recorded">>] < 1
      BY <1>1, <1>4, <2>3, NotYetConfirmed
    <3> QED BY <1>5, <2>1, <2>2, <2>3, <3>1 DEF ReplyOK, Confirmation
  <2>4. CASE text = "duplicate"
    BY <1>5, <2>1, <2>2, <2>4 DEF ReplyOK, Answered
  <2>5. CASE text = "other"
    BY <1>5, <2>1, <2>2, <2>5 DEF ReplyOK
  <2> QED BY <2>3, <2>4, <2>5
<1>8. \A v \in Workers \ {w} : ReplyOK(v)' /\ HandlerOK(v)'
  BY <1>1, <1>2, <1>4, OtherHandlers DEF InboxTypeOK
<1>9. OneConfirms'
  <2>1. \A v \in Workers \ {w} : sending'[v] = sending[v]
    BY <1>4, InboxConstants DEF OthersKept
  <2>2. ASSUME NEW m \in Messages, NEW v \in Workers \ {w},
               sending[v] # Nothing, sending[v].text = Confirmation(m),
               <<msg[w], text>> = Confirmation(m)
        PROVE  FALSE
    <3>1. msg[w] = m /\ text = "recorded"
      BY <2>2 DEF Confirmation
    <3> QED BY <2>2, <3>1, NotYetConfirmed DEF Confirmation
  <2>3. \A m \in Messages, u, v \in Workers \ {w} :
           /\ sending[u] # Nothing /\ sending[u].text = Confirmation(m)
           /\ sending[v] # Nothing /\ sending[v].text = Confirmation(m)
           => u = v
    BY DEF InboxInv, OneConfirms
  <2> SUFFICES ASSUME NEW m \in Messages, NEW u \in Workers, NEW v \in Workers,
                      sending'[u] # Nothing,
                      sending'[u].text = Confirmation(m),
                      sending'[v] # Nothing,
                      sending'[v].text = Confirmation(m)
               PROVE  u = v
    BY DEF OneConfirms, Confirmation
  <2>4. CASE u = w /\ v # w
    BY <1>5, <2>1, <2>2, <2>4
  <2>5. CASE u # w /\ v = w
    BY <1>5, <2>1, <2>2, <2>5
  <2> QED BY <2>1, <2>3, <2>4, <2>5
<1>10. LossIsCounted'
  BY <1>1, <1>2, NothingCounted
<1> QED BY <1>4, <1>6, <1>7, <1>8, <1>9, <1>10, QuietChat DEF InboxInv

\* An attempt to send a reply: the chat stays truthful, and a confirmation
\* is there at most once for each attempt.
LEMMA ReplySendPreserves ==
  ASSUME DeliveryTypeOK, InboxInv, NEW w \in Workers, SendOnce(w, FALSE),
         UNCHANGED inboxVars
  PROVE  InboxInv'
<1>1. w \in Senders /\ InboxTypeOK /\ ReplyOK(w) /\ HandlerOK(w)
      /\ UNCHANGED <<pc, msg, inputs, counters, deliveries, acked,
                     userKnown, failures, refused>>
  BY InboxConstants DEF InboxInv, inboxVars
<1> DEFINE t == sending[w].text
<1>2. /\ sending[w] # Nothing /\ t \in Texts
      /\ sending[w].attempt \in 1 .. MaxAttempts
      /\ DeliveryTypeOK' /\ OthersKept(w)
      /\ chat' = chat \/ chat' = Posted(t)
      /\ \/ sending'[w] = Nothing
         \/ /\ sending'[w].text = t
            /\ sending'[w].attempt = sending[w].attempt + 1
  BY <1>1, SendFacts
<1> HIDE DEF t
<1>3. pc[w] = "reply" /\ msg[w] \in Messages
  BY <1>1, <1>2 DEF ReplyOK, HandlerOK
<1>4. InputsKept
  BY <1>1 DEF InputsKept, InboxTypeOK
<1>5. \A v \in Workers \ {w} : ReplyOK(v)' /\ HandlerOK(v)'
  BY <1>1, <1>2, <1>4, OtherHandlers DEF t
<1>6. HandlerOK(w)'
  BY <1>1 DEF HandlerOK, Answered
<1>7. \/ t = <<msg[w], "other">>
      \/ t = <<msg[w], "duplicate">> /\ Answered(msg[w])
      \/ /\ t = <<msg[w], "recorded">> /\ inputs[msg[w]] = "worker"
         /\ chat[<<msg[w], "recorded">>] < sending[w].attempt
  BY <1>1, <1>2 DEF ReplyOK, Confirmation, t
<1>8. /\ chat'[t] = chat[t] \/ chat'[t] = chat[t] + 1
      /\ \A u \in Texts : u # t => chat'[u] = chat[u]
      /\ chat[t] \in Nat
  BY <1>2, PostedFacts DEF DeliveryTypeOK
<1>9. ReplyOK(w)'
  <2>1. CASE sending'[w] = Nothing
    BY <2>1 DEF ReplyOK
  <2>2. CASE /\ sending'[w].text = t
             /\ sending'[w].attempt = sending[w].attempt + 1
    <3>1. t = <<msg[w], "recorded">> => chat'[t] < sending[w].attempt + 1
      BY <1>2, <1>7, <1>8
    <3> QED BY <1>1, <1>3, <1>7, <2>2, <3>1
            DEF ReplyOK, Confirmation, Answered
  <2> QED BY <1>2, <2>1, <2>2
<1>10. ASSUME NEW m \in Messages
       PROVE  /\ chat'[<<m, "recorded">>] > 0 => inputs'[m] = "worker"
              /\ chat'[<<m, "duplicate">>] > 0 => Answered(m)'
              /\ chat'[<<m, "recorded">>] <= MaxAttempts
  <2>1. /\ chat[<<m, "recorded">>] > 0 => inputs[m] = "worker"
        /\ chat[<<m, "duplicate">>] > 0 => Answered(m)
        /\ chat[<<m, "recorded">>] <= MaxAttempts
    BY DEF InboxInv, RepliesAreTruthful, ConfirmedByOneHandler, Answered
  <2>2. CASE t = <<m, "recorded">>
    <3>1. msg[w] = m /\ inputs[m] = "worker" /\ chat[t] < sending[w].attempt
      BY <1>7, <2>2
    <3>2. chat'[t] <= MaxAttempts
      BY <1>2, <1>8, <3>1, DeliveryConstants
    <3>3. chat'[<<m, "duplicate">>] = chat[<<m, "duplicate">>]
      BY <1>8, <2>2, TextsOfMessage
    <3> QED BY <1>1, <2>1, <2>2, <3>1, <3>2, <3>3 DEF Answered
  <2>3. CASE t # <<m, "recorded">>
    <3>1. chat'[<<m, "recorded">>] = chat[<<m, "recorded">>]
      BY <1>8, <2>3, TextsOfMessage
    <3>2. CASE t = <<m, "duplicate">>
      <4>1. msg[w] = m /\ Answered(m)
        BY <1>7, <3>2
      <4> QED BY <1>1, <2>1, <3>1, <4>1 DEF Answered
    <3>3. CASE t # <<m, "duplicate">>
      <4>1. chat'[<<m, "duplicate">>] = chat[<<m, "duplicate">>]
        BY <1>8, <3>3, TextsOfMessage
      <4> QED BY <1>1, <2>1, <3>1, <4>1 DEF Answered
    <3> QED BY <3>2, <3>3
  <2> QED BY <2>2, <2>3
<1>11. RepliesAreTruthful' /\ ConfirmedByOneHandler'
  BY <1>10 DEF RepliesAreTruthful, ConfirmedByOneHandler, Answered
<1>12. OneConfirms'
  <2>1. \A v \in Workers \ {w} : sending'[v] = sending[v]
    BY <1>2, InboxConstants DEF OthersKept
  <2>2. sending'[w] # Nothing => sending'[w].text = sending[w].text
    BY <1>2 DEF t
  <2> QED BY <1>2, <2>1, <2>2 DEF InboxInv, OneConfirms
<1>13. LossIsCounted'
  BY <1>1 DEF InboxInv, LossIsCounted
<1> QED BY <1>1, <1>5, <1>6, <1>9, <1>11, <1>12, <1>13
        DEF InboxInv, InboxTypeOK

\* The event arrives.
LEMMA ReceivePreserves ==
  ASSUME DeliveryTypeOK, InboxInv, NEW w \in Workers, NEW m \in Messages,
         Receive(w, m)
  PROVE  InboxInv'
<1>1. /\ InboxTypeOK /\ pc[w] = "idle" /\ ReplyOK(w)
      /\ deliveries' = [deliveries EXCEPT ![m] = @ + 1]
      /\ counters' = [counters EXCEPT ![w].received = @ + 1]
      /\ pc' = [pc EXCEPT ![w] = "route"] /\ msg' = [msg EXCEPT ![w] = m]
      /\ UNCHANGED <<inputs, acked, userKnown, failures, refused, sending,
                     result, chat>>
  BY DEF InboxInv, Receive, deliveryVars
<1>2. counters[w] \in [received : Nat, succeeded : Nat, failed : Nat]
  BY <1>1 DEF InboxTypeOK
<1> DEFINE c == [counters[w] EXCEPT !.received = @ + 1]
<1>3. /\ c \in [received : Nat, succeeded : Nat, failed : Nat]
      /\ c.received = counters[w].received + 1
      /\ c.succeeded = counters[w].succeeded /\ c.failed = counters[w].failed
  BY <1>2
<1>4. counters' = [counters EXCEPT ![w] = c]
  BY <1>1
<1> HIDE DEF c
<1>5. InboxTypeOK'
  BY <1>1, <1>3, <1>4 DEF InboxTypeOK
<1>6. InputsKept /\ OthersKept(w) /\ sending'[w] = Nothing
  BY <1>1 DEF InputsKept, OthersKept, InboxTypeOK, ReplyOK
<1>7. ReplyOK(w)' /\ HandlerOK(w)'
  BY <1>1, <1>6 DEF ReplyOK, HandlerOK, InboxTypeOK
<1>8. \A v \in Workers \ {w} : ReplyOK(v)' /\ HandlerOK(v)'
  BY <1>1, <1>6, OtherHandlers DEF InboxTypeOK
<1>9. LossIsCounted'
  <2>1. \A x \in acked' :
           Kind[x] = "text" =>
              inputs'[x] # Nothing \/ x \in failures' \/ x \in refused'
    BY <1>1 DEF InboxInv, LossIsCounted
  <2>2. ASSUME NEW v \in Workers
        PROVE  counters'[v].received =
                  counters'[v].succeeded + counters'[v].failed
                  + (IF pc'[v] = "idle" THEN 0 ELSE 1)
    <3>1. counters[v].received =
             counters[v].succeeded + counters[v].failed
             + (IF pc[v] = "idle" THEN 0 ELSE 1)
      BY DEF InboxInv, LossIsCounted
    <3>2. CASE v = w
      <4>1. counters'[v] = c /\ pc'[v] = "route"
        BY <1>1, <1>4, <3>2 DEF InboxTypeOK
      <4>2. counters[w].succeeded \in Nat /\ counters[w].failed \in Nat
        BY <1>2
      <4> QED BY <1>1, <1>3, <3>1, <3>2, <4>1, <4>2
    <3>3. CASE v # w
      BY <1>1, <1>4, <3>1, <3>3 DEF InboxTypeOK
    <3> QED BY <3>2, <3>3
  <2> QED BY <2>1, <2>2 DEF LossIsCounted
<1> QED BY <1>1, <1>5, <1>6, <1>7, <1>8, <1>9, QuietChat, StillOneConfirms
        DEF InboxInv

\* Nothing is stored and nothing is sent.
LEMMA Unsent ==
  ASSUME DeliveryTypeOK, InboxInv, NEW w \in Workers, pc[w] # "reply",
         UNCHANGED <<inputs, refused, deliveryVars>>
  PROVE  /\ InputsKept /\ OthersKept(w) /\ chat' = chat
         /\ sending'[w] = Nothing /\ DeliveryTypeOK'
  BY DEF InboxInv, InboxTypeOK, ReplyOK, InputsKept, OthersKept, deliveryVars,
     DeliveryTypeOK

\* The event is silent, fails, is answered, or is a text to store.
LEMMA RoutePreserves ==
  ASSUME DeliveryTypeOK, InboxInv, NEW w \in Workers, Route(w)
  PROVE  InboxInv' /\ DeliveryTypeOK'
<1>1. /\ pc[w] = "route" /\ UNCHANGED <<inputs, refused>> /\ InboxTypeOK
      /\ msg[w] \in Messages
  BY DEF InboxInv, HandlerOK, Route, Finish
<1>2. ASSUME NEW failed \in BOOLEAN, Finish(w, failed), UNCHANGED deliveryVars,
             failed \/ Kind[msg[w]] # "text"
      PROVE  InboxInv' /\ DeliveryTypeOK'
  BY <1>1, <1>2, Unsent, FinishPreserves
<1>3. CASE Kind[msg[w]] = "other" /\ Reply(w, "other")
  <2>1. InputsKept
    BY <1>1 DEF InputsKept, InboxTypeOK
  <2> QED BY <1>1, <1>3, <2>1, ReplyPreserves
<1>4. CASE /\ Kind[msg[w]] = "text" /\ pc' = [pc EXCEPT ![w] = "store"]
           /\ UNCHANGED <<msg, counters, deliveries, acked, userKnown,
                          failures, deliveryVars>>
  <2>1. /\ InputsKept /\ OthersKept(w) /\ chat' = chat
        /\ sending'[w] = Nothing /\ DeliveryTypeOK'
    BY <1>1, <1>4, Unsent
  <2>2. ReplyOK(w)' /\ HandlerOK(w)'
    BY <1>1, <1>4, <2>1 DEF ReplyOK, HandlerOK, InboxTypeOK
  <2>3. \A v \in Workers \ {w} : ReplyOK(v)' /\ HandlerOK(v)'
    BY <1>1, <1>4, <2>1, OtherHandlers DEF InboxTypeOK
  <2>4. InboxTypeOK'
    BY <1>1, <1>4 DEF InboxTypeOK
  <2>5. LossIsCounted'
    BY <1>1, <1>4, <2>1, NothingCounted
  <2> QED BY <2>1, <2>2, <2>3, <2>4, <2>5, QuietChat, StillOneConfirms
          DEF InboxInv
<1>5. Kind[msg[w]] = "other" => Kind[msg[w]] # "text"
  OBVIOUS
<1> QED BY <1>2, <1>3, <1>4, <1>5 DEF Route

\* The row is inserted, is there already, is refused, or the database fails.
LEMMA StorePreserves ==
  ASSUME DeliveryTypeOK, InboxInv, NEW w \in Workers,
         \/ StoreCreated(w) \/ StoreDuplicate(w) \/ StoreRefused(w)
         \/ StoreFails(w)
  PROVE  InboxInv' /\ DeliveryTypeOK'
<1>1. pc[w] = "store" /\ InboxTypeOK /\ msg[w] \in Messages
  BY DEF InboxInv, HandlerOK, StoreCreated, StoreDuplicate, StoreRefused,
     StoreFails
<1>2. ASSUME inputs[msg[w]] = Nothing, UNCHANGED refused,
             inputs' = [inputs EXCEPT ![msg[w]] = "worker"]
      PROVE  InputsKept /\ inputs'[msg[w]] = "worker"
  BY <1>1, <1>2 DEF InputsKept, InboxTypeOK
<1>3. ASSUME UNCHANGED <<inputs, refused>> PROVE InputsKept
  BY <1>1, <1>3 DEF InputsKept, InboxTypeOK
<1>4. CASE StoreCreated(w)
  <2>1. inputs[msg[w]] = Nothing /\ Reply(w, "recorded")
        /\ InputsKept /\ inputs'[msg[w]] = "worker"
    BY <1>2, <1>4 DEF StoreCreated
  <2>2. Answered(msg[w])'
    BY <2>1, <1>4, InboxConstants DEF Answered, StoreCreated, Reply
  <2> QED BY <1>1, <2>1, <2>2, ReplyPreserves
<1>5. CASE StoreDuplicate(w)
  <2>1. Answered(msg[w])' /\ Reply(w, "duplicate") /\ InputsKept
    BY <1>3, <1>5 DEF StoreDuplicate, Answered, Reply
  <2> QED BY <1>1, <2>1, ReplyPreserves
<1>6. CASE StoreFails(w)
  <2>1. Finish(w, TRUE) /\ UNCHANGED deliveryVars /\ InputsKept
    BY <1>2, <1>3, <1>6 DEF StoreFails, Finish
  <2>2. /\ OthersKept(w) /\ chat' = chat
        /\ sending'[w] = Nothing /\ DeliveryTypeOK'
    BY <1>1, <2>1 DEF InboxInv, ReplyOK, OthersKept, deliveryVars,
       DeliveryTypeOK
  <2> QED BY <1>1, <2>1, <2>2, FinishPreserves
<1>7. CASE StoreRefused(w)
  <2>1. /\ refused' = refused \cup {msg[w]} /\ UNCHANGED <<inputs, msg>>
        /\ Reply(w, "duplicate")
    BY <1>7 DEF StoreRefused, Reply
  <2>2. InputsKept /\ Answered(msg[w])'
    BY <1>1, <2>1 DEF InputsKept, InboxTypeOK, Answered
  <2> QED BY <1>1, <2>1, <2>2, ReplyPreserves
<1> QED BY <1>4, <1>5, <1>6, <1>7

\* The reply is over.
LEMMA EndReplyPreserves ==
  ASSUME DeliveryTypeOK, InboxInv, NEW w \in Workers, EndReply(w)
  PROVE  InboxInv' /\ DeliveryTypeOK'
<1>1. /\ pc[w] = "reply" /\ LeaveDelivery(w) /\ UNCHANGED inputs
      /\ Finish(w, result[w].code = "raised")
      /\ InboxTypeOK /\ HandlerOK(w) /\ w \in Senders
  BY InboxConstants DEF InboxInv, EndReply
<1>2. /\ DeliveryTypeOK' /\ OthersKept(w) /\ chat' = chat
      /\ sending'[w] = Nothing
  BY <1>1, LeaveFacts
<1>3. /\ InputsKept
      /\ \/ Kind[msg[w]] # "text"
         \/ inputs'[msg[w]] # Nothing \/ msg[w] \in refused'
  BY <1>1 DEF InputsKept, InboxTypeOK, HandlerOK, Answered, Finish
<1>4. PICK failed \in BOOLEAN : failed = (result[w].code = "raised")
  OBVIOUS
<1>5. Finish(w, failed)
  BY <1>1, <1>4
<1> QED BY <1>1, <1>2, <1>3, <1>5, FinishPreserves

\* A worker that dies forgets what it was doing and what it has counted.
LEMMA WorkerDiesPreserves ==
  ASSUME DeliveryTypeOK, InboxInv, NEW w \in Workers, WorkerDies(w)
  PROVE  InboxInv' /\ DeliveryTypeOK'
<1> DEFINE zero == [received |-> 0, succeeded |-> 0, failed |-> 0]
<1>1. /\ InboxTypeOK /\ w \in Senders /\ LeaveDelivery(w)
      /\ pc' = [pc EXCEPT ![w] = "idle"] /\ msg' = [msg EXCEPT ![w] = Nothing]
      /\ counters' = [counters EXCEPT ![w] = zero]
      /\ UNCHANGED <<inputs, deliveries, acked, userKnown, failures, refused>>
  BY InboxConstants DEF InboxInv, WorkerDies
<1>2. /\ zero \in [received : Nat, succeeded : Nat, failed : Nat]
      /\ zero.received = 0 /\ zero.succeeded = 0 /\ zero.failed = 0
  OBVIOUS
<1> HIDE DEF zero
<1>3. /\ DeliveryTypeOK' /\ OthersKept(w) /\ chat' = chat
      /\ sending'[w] = Nothing
  BY <1>1, LeaveFacts
<1>4. InputsKept /\ InboxTypeOK'
  BY <1>1, <1>2 DEF InputsKept, InboxTypeOK
<1>5. ReplyOK(w)' /\ HandlerOK(w)'
  BY <1>1, <1>3 DEF ReplyOK, HandlerOK, InboxTypeOK
<1>6. \A v \in Workers \ {w} : ReplyOK(v)' /\ HandlerOK(v)'
  BY <1>1, <1>3, <1>4, OtherHandlers DEF InboxTypeOK
<1>7. LossIsCounted'
  <2>1. \A x \in acked' :
           Kind[x] = "text" =>
              inputs'[x] # Nothing \/ x \in failures' \/ x \in refused'
    BY <1>1 DEF InboxInv, LossIsCounted
  <2>2. ASSUME NEW v \in Workers
        PROVE  counters'[v].received =
                  counters'[v].succeeded + counters'[v].failed
                  + (IF pc'[v] = "idle" THEN 0 ELSE 1)
    <3>1. CASE v = w
      <4>1. counters'[v] = zero /\ pc'[v] = "idle"
        BY <1>1, <3>1 DEF InboxTypeOK
      <4> QED BY <1>2, <4>1
    <3>2. CASE v # w
      BY <1>1, <3>2 DEF InboxInv, LossIsCounted, InboxTypeOK
    <3> QED BY <3>1, <3>2
  <2> QED BY <2>1, <2>2 DEF LossIsCounted
<1> QED BY <1>3, <1>4, <1>5, <1>6, <1>7, QuietChat, StillOneConfirms
        DEF InboxInv

\* POST /inputs/text inserts a row that nobody has inserted.
LEMMA CreateTextInputPreserves ==
  ASSUME DeliveryTypeOK, InboxInv, NEW m \in Messages, CreateTextInput(m)
  PROVE  InboxInv' /\ DeliveryTypeOK'
<1>1. /\ InboxTypeOK /\ inputs[m] = Nothing
      /\ inputs' = [inputs EXCEPT ![m] = "api"]
      /\ UNCHANGED <<pc, msg, counters, deliveries, acked, userKnown,
                     failures, refused, sending, result, chat>>
  BY DEF InboxInv, CreateTextInput, deliveryVars
<1>2. InputsKept /\ InboxTypeOK' /\ DeliveryTypeOK'
  BY <1>1 DEF InputsKept, InboxTypeOK, DeliveryTypeOK
<1>3. ASSUME NEW w \in Workers PROVE ReplyOK(w)' /\ HandlerOK(w)'
  <2>1. ReplyOK(w) /\ HandlerOK(w)
    BY DEF InboxInv
  <2>2. HandlerOK(w)'
    BY <1>1, <1>2, <2>1 DEF HandlerOK, InputsKept, Answered
  <2>3. sending[w] # Nothing => msg[w] \in Messages
    BY <2>1 DEF ReplyOK, HandlerOK
  <2>4. sending[w] # Nothing /\ inputs[msg[w]] # Nothing =>
           inputs'[msg[w]] = inputs[msg[w]]
    BY <1>2, <2>3 DEF InputsKept
  <2> QED BY <1>1, <2>1, <2>2, <2>4, InboxConstants
          DEF ReplyOK, Confirmation, Answered
<1>4. OneConfirms' /\ LossIsCounted'
  BY <1>1, <1>2
     DEF InboxInv, OneConfirms, Confirmation, LossIsCounted, InputsKept,
     InboxTypeOK
<1> QED BY <1>1, <1>2, <1>3, <1>4, QuietChat DEF InboxInv

-----------------------------------------------------------------------------
(* The two halves do not disturb each other                                *)

\* Cards are texts, and no reply is one.
LEMMA CardsAreNoReplies ==
  ASSUME NEW k \in Keys
  PROVE  /\ Card(k) \in Texts
         /\ \A m \in Messages : /\ Card(k) # <<m, "recorded">>
                                /\ Card(k) # <<m, "duplicate">>
                                /\ Card(k) # <<m, "other">>
<1>1. Card(k) \in Texts
  BY OutboxConstants DEF Card
<1>2. ASSUME NEW m \in Messages
      PROVE  /\ Card(k) # <<m, "recorded">>
             /\ Card(k) # <<m, "duplicate">>
             /\ Card(k) # <<m, "other">>
  BY DEF Card
<1> QED BY <1>1, <1>2

\* A caller that sends cards does not disturb the handlers of the worker.
LEMMA InboxKept ==
  ASSUME DeliveryTypeOK, InboxInv, NEW p \in Clis, OthersKept(p),
         UNCHANGED inboxVars,
         chat' = chat \/ \E k \in Keys : chat' = Posted(Card(k))
  PROVE  InboxInv'
<1>1. /\ InboxTypeOK
      /\ UNCHANGED <<pc, msg, inputs, counters, deliveries, acked,
                     userKnown, failures, refused>>
  BY DEF InboxInv, inboxVars
<1>2. \A w \in Workers : sending'[w] = sending[w]
  BY InboxConstants, MessagingConstants DEF OthersKept
<1>3. ASSUME NEW m \in Messages
      PROVE  /\ chat'[<<m, "recorded">>] = chat[<<m, "recorded">>]
             /\ chat'[<<m, "duplicate">>] = chat[<<m, "duplicate">>]
  <2>1. ASSUME NEW k \in Keys, chat' = Posted(Card(k))
        PROVE  /\ chat'[<<m, "recorded">>] = chat[<<m, "recorded">>]
               /\ chat'[<<m, "duplicate">>] = chat[<<m, "duplicate">>]
    BY <2>1, TextsOfMessage, CardsAreNoReplies, PostedFacts
  <2> QED BY <2>1
<1>4. ASSUME NEW w \in Workers PROVE ReplyOK(w)' /\ HandlerOK(w)'
  <2>1. ReplyOK(w) /\ HandlerOK(w)
    BY DEF InboxInv
  <2>2. HandlerOK(w)'
    BY <1>1, <2>1 DEF HandlerOK, Answered
  <2>3. sending[w] # Nothing => msg[w] \in Messages
    BY <2>1 DEF ReplyOK, HandlerOK
  <2>4. sending[w] # Nothing =>
           chat'[<<msg[w], "recorded">>] = chat[<<msg[w], "recorded">>]
    BY <1>3, <2>3
  <2> QED BY <1>1, <1>2, <2>1, <2>2, <2>4
          DEF ReplyOK, Confirmation, Answered
<1>5. OneConfirms' /\ LossIsCounted'
  BY <1>1, <1>2 DEF InboxInv, OneConfirms, Confirmation, LossIsCounted
<1>6. ASSUME NEW m \in Messages
      PROVE  /\ chat'[<<m, "recorded">>] > 0 => inputs'[m] = "worker"
             /\ chat'[<<m, "duplicate">>] > 0 => Answered(m)'
             /\ chat'[<<m, "recorded">>] <= MaxAttempts
  <2>1. /\ chat[<<m, "recorded">>] > 0 => inputs[m] = "worker"
        /\ chat[<<m, "duplicate">>] > 0 => Answered(m)
        /\ chat[<<m, "recorded">>] <= MaxAttempts
    BY DEF InboxInv, RepliesAreTruthful, ConfirmedByOneHandler, Answered
  <2> QED BY <1>1, <1>3, <2>1 DEF Answered
<1>7. RepliesAreTruthful' /\ ConfirmedByOneHandler'
  BY <1>6 DEF RepliesAreTruthful, ConfirmedByOneHandler, Answered
<1> QED BY <1>1, <1>4, <1>5, <1>7 DEF InboxInv, InboxTypeOK

\* A handler does not disturb the callers.
LEMMA OutboxKept ==
  ASSUME OutboxInv, UNCHANGED outboxVars,
         \A p \in Clis : sending'[p] = sending[p] /\ result'[p] = result[p],
         \A k \in Keys : chat'[Card(k)] = chat[Card(k)]
  PROVE  OutboxInv'
<1>1. /\ OutboxTypeOK /\ NotifiedOnce
      /\ UNCHANGED <<step, key, reference, returned, evidence, posts, requests,
                     cardId>>
  BY DEF OutboxInv, outboxVars
<1>2. ASSUME NEW p \in Clis PROVE CliOK(p)'
  <2>1. /\ CliOK(p)
        /\ step[p] \in {"card", "storeId"} => key[p] \in Keys
    BY DEF OutboxInv, CliOK
  <2>2. step[p] \in {"card", "storeId"} =>
           chat'[Card(key[p])] = chat[Card(key[p])]
    BY <2>1
  <2> QED BY <1>1, <2>1, <2>2 DEF CliOK, Card
<1>3. ASSUME NEW k \in Keys
      PROVE  /\ chat'[<<k, "card">>] > 0 => k \in requests'
             /\ cardId'[k] <= chat'[<<k, "card">>]
  <2>1. /\ chat[<<k, "card">>] > 0 => k \in requests
        /\ cardId[k] <= chat[<<k, "card">>]
    BY DEF OutboxInv, CardsAreBacked
  <2>2. chat'[<<k, "card">>] = chat[<<k, "card">>]
    BY DEF Card
  <2> QED BY <1>1, <2>1, <2>2
<1>4. CardsAreBacked'
  BY <1>3 DEF CardsAreBacked
<1> QED BY <1>1, <1>2, <1>4 DEF OutboxInv, OutboxTypeOK, NotifiedOnce

\* Every step of a handler leaves the callers alone.
LEMMA HandlerKeepsOutbox ==
  ASSUME DeliveryTypeOK, InboxInv, OutboxInv, NEW w \in Workers, OthersKept(w),
         UNCHANGED outboxVars,
         \/ chat' = chat
         \/ sending[w] # Nothing /\ chat' = Posted(sending[w].text)
  PROVE  OutboxInv'
<1>1. \A p \in Clis : sending'[p] = sending[p] /\ result'[p] = result[p]
  BY OutboxConstants, MessagingConstants DEF OthersKept
<1>2. ASSUME NEW k \in Keys PROVE chat'[Card(k)] = chat[Card(k)]
  <2>1. CASE sending[w] # Nothing /\ chat' = Posted(sending[w].text)
    <3>1. ReplyOK(w) /\ HandlerOK(w)
      BY DEF InboxInv
    <3>2. msg[w] \in Messages
      BY <2>1, <3>1 DEF ReplyOK, HandlerOK
    <3>3. Card(k) # sending[w].text
      BY <2>1, <3>1, <3>2, CardsAreNoReplies DEF ReplyOK, Confirmation
    <3>4. sending[w].text \in Texts
      BY <2>1, InboxConstants DEF DeliveryTypeOK
    <3> QED BY <2>1, <3>3, <3>4, CardsAreNoReplies, PostedFacts
  <2> QED BY <2>1
<1> QED BY <1>1, <1>2, OutboxKept

-----------------------------------------------------------------------------
(* Notifications and approval cards                                        *)

\* The other callers, when one of them takes a step: posts, requests and
\* cards only become more.
LEMMA OtherClis ==
  ASSUME DeliveryTypeOK, OutboxInv, NEW p \in Clis, OthersKept(p),
         \A q \in Clis \ {p} : /\ step'[q] = step[q] /\ key'[q] = key[q]
                               /\ reference'[q] = reference[q],
         \A e \in EvidenceKeys : posts[e] = 1 => posts'[e] = 1,
         requests \subseteq requests',
         \A k \in Keys : chat[Card(k)] <= chat'[Card(k)],
         DeliveryTypeOK'
  PROVE  \A q \in Clis \ {p} : CliOK(q)'
<1> SUFFICES ASSUME NEW q \in Clis \ {p} PROVE CliOK(q)'
  OBVIOUS
<1>1. /\ q \in Senders /\ q # p
      /\ sending'[q] = sending[q] /\ result'[q] = result[q]
      /\ step'[q] = step[q] /\ key'[q] = key[q] /\ reference'[q] = reference[q]
      /\ CliOK(q)
  BY OutboxConstants DEF OthersKept, OutboxInv
<1>2. step[q] \in {"card", "storeId"} =>
         /\ key[q] \in requests' /\ result[q].id <= chat'[Card(key[q])]
  <2> SUFFICES ASSUME step[q] \in {"card", "storeId"}
               PROVE  /\ key[q] \in requests'
                      /\ result[q].id <= chat'[Card(key[q])]
    OBVIOUS
  <2>1. key[q] \in Keys
    BY <1>1 DEF CliOK
  <2>2. /\ result[q].id \in Nat /\ chat[Card(key[q])] \in Nat
        /\ chat'[Card(key[q])] \in Nat
    BY <1>1, <2>1, CardsAreNoReplies DEF DeliveryTypeOK
  <2>3. chat[Card(key[q])] <= chat'[Card(key[q])]
    BY <2>1
  <2> QED BY <1>1, <2>2, <2>3 DEF CliOK
<1>3. step[q] = "record" => reference[q] = 1 /\ posts'[EvidenceKey[key[q]]] = 1
  <2>1. step[q] = "record" => EvidenceKey[key[q]] \in EvidenceKeys
    BY <1>1, OutboxConstants DEF CliOK
  <2> QED BY <1>1, <2>1 DEF CliOK
<1> QED BY <1>1, <1>2, <1>3 DEF CliOK, Card

\* A call that has returned relies on nothing.
LEMMA ReturnedCli ==
  ASSUME OutboxInv, NEW p \in Clis, NEW ref \in Nat, Return(p, ref),
         sending'[p] = Nothing
  PROVE  /\ CliOK(p)'
         /\ step' \in [Clis -> {"idle", "look", "send", "record", "request",
                                "card", "storeId"}]
         /\ key' \in [Clis -> Keys \cup Notices \cup {Nothing}]
         /\ reference' \in [Clis -> Nat]
         /\ \A q \in Clis \ {p} : /\ step'[q] = step[q] /\ key'[q] = key[q]
                                  /\ reference'[q] = reference[q]
<1>1. OutboxTypeOK
  BY DEF OutboxInv
<1>2. step'[p] = "idle"
  BY <1>1 DEF Return, Goto, OutboxTypeOK
<1>3. CliOK(p)'
  BY <1>2 DEF CliOK
<1> QED BY <1>1, <1>3 DEF Return, Goto, OutboxTypeOK

\* What a step of a caller needs to keep the cards backed when nothing is
\* posted
LEMMA QuietCards ==
  ASSUME OutboxInv, chat' = chat, requests \subseteq requests',
         UNCHANGED cardId
  PROVE  CardsAreBacked'
  BY DEF OutboxInv, CardsAreBacked

\* What a step of a caller does to the deliveries
CliDelivers(p) ==
    /\ DeliveryTypeOK' /\ OthersKept(p)
    /\ chat' = chat \/ \E k \in Keys : chat' = Posted(Card(k))

\* A caller that leaves the deliveries alone
LEMMA NoDelivery ==
  ASSUME DeliveryTypeOK, NEW p \in Clis, UNCHANGED deliveryVars
  PROVE  CliDelivers(p) /\ chat' = chat /\ sending' = sending
  BY DEF deliveryVars, CliDelivers, OthersKept, DeliveryTypeOK

\* An evidence key was posted or not, and a notification is on record only
\* if its key was; what was returned is on record.
LEMMA NotificationTables ==
  ASSUME OutboxInv
  PROVE  /\ \A e \in EvidenceKeys : posts[e] \in {0, 1}
         /\ \A n \in Notices :
               /\ evidence[n] \in {0, 1}
               /\ evidence[n] = 1 => posts[EvidenceKey[n]] = 1
         /\ \A r \in returned :
               r[1] \in Notices /\ r[2] = 1 /\ evidence[r[1]] = 1
<1>1. OutboxTypeOK /\ NotifiedOnce
  BY DEF OutboxInv
<1>2. ASSUME NEW e \in EvidenceKeys PROVE posts[e] \in {0, 1}
  <2>1. posts[e] \in Nat
    BY <1>1 DEF OutboxTypeOK
  <2> QED BY <1>1, <2>1 DEF NotifiedOnce
<1>3. ASSUME NEW n \in Notices
      PROVE  /\ evidence[n] \in {0, 1}
             /\ evidence[n] = 1 => posts[EvidenceKey[n]] = 1
  <2>1. evidence[n] \in Nat /\ EvidenceKey[n] \in EvidenceKeys
    BY <1>1, OutboxConstants DEF OutboxTypeOK
  <2>2. posts[EvidenceKey[n]] \in {0, 1}
    BY <1>2, <2>1
  <2> QED BY <1>1, <2>1, <2>2 DEF NotifiedOnce
<1>4. ASSUME NEW r \in returned
      PROVE  r[1] \in Notices /\ r[2] = 1 /\ evidence[r[1]] = 1
  <2>1. r \in Notices \X {1}
    BY <1>1 DEF OutboxTypeOK
  <2> QED BY <1>1, <2>1 DEF NotifiedOnce
<1> QED BY <1>2, <1>3, <1>4

\* A step that only adds to the tables of the notifications keeps them.
LEMMA NotifiedStep ==
  ASSUME OutboxInv, posts' \in [EvidenceKeys -> {0, 1}],
         evidence' \in [Notices -> {0, 1}],
         \A n \in Notices : evidence'[n] = 1 => posts'[EvidenceKey[n]] = 1,
         \A n \in Notices : evidence[n] = 1 => evidence'[n] = 1,
         \/ returned' = returned
         \/ \E n \in Notices : /\ returned' = returned \cup {<<n, 1>>}
                               /\ evidence'[n] = 1
  PROVE  NotifiedOnce' /\ returned' \subseteq Notices \X {1}
<1>1. ASSUME NEW e \in EvidenceKeys PROVE posts'[e] <= 1
  <2>1. posts'[e] \in {0, 1}
    OBVIOUS
  <2> QED BY <2>1
<1>3. ASSUME NEW n \in Notices PROVE evidence'[n] <= posts'[EvidenceKey[n]]
  <2>1. EvidenceKey[n] \in EvidenceKeys
    BY OutboxConstants
  <2>2. /\ posts'[EvidenceKey[n]] \in {0, 1} /\ evidence'[n] \in {0, 1}
        /\ evidence'[n] = 1 => posts'[EvidenceKey[n]] = 1
    BY <2>1
  <2> QED BY <2>2
<1>2. ASSUME NEW r \in returned'
      PROVE  evidence'[r[1]] = r[2] /\ r \in Notices \X {1}
  <2>1. CASE r \in returned
    <3>1. r[1] \in Notices /\ r[2] = 1 /\ evidence[r[1]] = 1
      BY <2>1, NotificationTables
    <3>2. r \in Notices \X {1}
      BY <2>1 DEF OutboxInv, OutboxTypeOK
    <3> QED BY <3>1, <3>2
  <2>2. ASSUME NEW n \in Notices, r = <<n, 1>>, evidence'[n] = 1
        PROVE  evidence'[r[1]] = r[2] /\ r \in Notices \X {1}
    BY <2>2
  <2> QED BY <2>1, <2>2
<1> QED BY <1>1, <1>2, <1>3 DEF NotifiedOnce

\* A call begins.
LEMMA BeginPreserves ==
  ASSUME DeliveryTypeOK, OutboxInv, NEW p \in Clis, NEW k,
         \/ k \in Notices /\ Notify(p, k)
         \/ k \in Keys /\ RequestApproval(p, k)
  PROVE  OutboxInv' /\ CliDelivers(p)
<1>1. PICK label \in {"look", "request"} :
         Begin(p, k, label) /\ k \in IF label = "look" THEN Notices ELSE Keys
  BY DEF Notify, RequestApproval
<1>2. /\ OutboxTypeOK /\ CliOK(p) /\ step[p] = "idle"
      /\ step' = [step EXCEPT ![p] = label] /\ key' = [key EXCEPT ![p] = k]
      /\ UNCHANGED <<reference, returned, evidence, posts, requests, cardId,
                     deliveryVars>>
  BY <1>1 DEF OutboxInv, Begin, Goto, Notify, RequestApproval
<1>3. CliDelivers(p) /\ chat' = chat /\ sending' = sending
  BY <1>2, NoDelivery
<1>4. OutboxTypeOK'
  BY <1>1, <1>2 DEF OutboxTypeOK
<1>5. CliOK(p)'
  <2>1. step'[p] = label /\ key'[p] = k /\ sending'[p] = Nothing
    BY <1>2, <1>3 DEF OutboxTypeOK, CliOK
  <2> QED BY <1>1, <2>1 DEF CliOK
<1>6. \A q \in Clis \ {p} : /\ step'[q] = step[q] /\ key'[q] = key[q]
                            /\ reference'[q] = reference[q]
  BY <1>2 DEF OutboxTypeOK
<1>7. \A c \in Keys : chat[Card(c)] <= chat'[Card(c)]
  BY <1>3, CardsAreNoReplies DEF DeliveryTypeOK
<1>8. \A q \in Clis \ {p} : CliOK(q)'
  BY <1>2, <1>3, <1>6, <1>7, OtherClis DEF CliDelivers
<1>9. NotifiedOnce' /\ CardsAreBacked'
  BY <1>2, <1>3, QuietCards DEF OutboxInv, NotifiedOnce
<1> QED BY <1>3, <1>4, <1>5, <1>8, <1>9 DEF OutboxInv

\* A step of send_deployment_notification, which sends no card
LEMMA NotificationStep ==
  ASSUME DeliveryTypeOK, OutboxInv, NEW p \in Clis, OutboxTypeOK', CliOK(p)',
         UNCHANGED <<requests, cardId, deliveryVars>>, NotifiedOnce',
         \A q \in Clis \ {p} : /\ step'[q] = step[q] /\ key'[q] = key[q]
                               /\ reference'[q] = reference[q],
         \A e \in EvidenceKeys : posts[e] = 1 => posts'[e] = 1
  PROVE  OutboxInv' /\ CliDelivers(p)
<1>1. CliDelivers(p) /\ chat' = chat
  BY NoDelivery
<1>2. \A c \in Keys : chat[Card(c)] <= chat'[Card(c)]
  BY <1>1, CardsAreNoReplies DEF DeliveryTypeOK
<1>3. \A q \in Clis \ {p} : CliOK(q)'
  BY <1>1, <1>2, OtherClis DEF CliDelivers
<1> QED BY <1>1, <1>3, QuietCards DEF OutboxInv

\* The return of such a step
LEMMA NotificationReturns ==
  ASSUME DeliveryTypeOK, OutboxInv, NEW p \in Clis, NEW ref \in {0, 1},
         Return(p, ref), key[p] \in Notices, sending[p] = Nothing,
         UNCHANGED <<requests, cardId, deliveryVars>>,
         posts' \in [EvidenceKeys -> {0, 1}], evidence' \in [Notices -> {0, 1}],
         \A n \in Notices : evidence'[n] = 1 => posts'[EvidenceKey[n]] = 1,
         \A n \in Notices : evidence[n] = 1 => evidence'[n] = 1,
         \A e \in EvidenceKeys : posts[e] = 1 => posts'[e] = 1,
         ref = 1 => evidence'[key[p]] = 1
  PROVE  OutboxInv' /\ CliDelivers(p)
<1>1. sending'[p] = Nothing /\ ref \in Nat
  BY NoDelivery
<1>2. /\ CliOK(p)'
      /\ step' \in [Clis -> {"idle", "look", "send", "record", "request",
                             "card", "storeId"}]
      /\ key' \in [Clis -> Keys \cup Notices \cup {Nothing}]
      /\ reference' \in [Clis -> Nat]
      /\ \A q \in Clis \ {p} : /\ step'[q] = step[q] /\ key'[q] = key[q]
                               /\ reference'[q] = reference[q]
  BY <1>1, ReturnedCli
<1>3. \/ returned' = returned
      \/ returned' = returned \cup {<<key[p], 1>>} /\ evidence'[key[p]] = 1
  BY DEF Return
<1>4. NotifiedOnce' /\ returned' \subseteq Notices \X {1}
  BY <1>3, NotifiedStep
<1>5. posts' \in [EvidenceKeys -> Nat] /\ evidence' \in [Notices -> Nat]
  OBVIOUS
<1>6. requests' \subseteq Keys /\ cardId' \in [Keys -> Nat]
  BY DEF OutboxInv, OutboxTypeOK
<1>7. OutboxTypeOK'
  BY <1>2, <1>4, <1>5, <1>6 DEF OutboxTypeOK
<1> QED BY <1>2, <1>4, <1>7, NotificationStep

\* The steps of send_deployment_notification
LEMMA NotifyPreserves ==
  ASSUME DeliveryTypeOK, OutboxInv, NEW p \in Clis,
         LookUp(p) \/ SinkSends(p) \/ RecordEvidence(p)
  PROVE  OutboxInv' /\ CliDelivers(p)
<1> DEFINE k == key[p]
           e == EvidenceKey[k]
<1>1. /\ OutboxTypeOK /\ CliOK(p) /\ k \in Notices /\ e \in EvidenceKeys
      /\ sending[p] = Nothing
      /\ step[p] \in {"look", "send", "record"}
      /\ UNCHANGED <<requests, cardId, deliveryVars>>
  BY OutboxConstants DEF OutboxInv, CliOK, LookUp, SinkSends, RecordEvidence
<1>2. /\ posts \in [EvidenceKeys -> {0, 1}] /\ evidence \in [Notices -> {0, 1}]
      /\ \A n \in Notices : evidence[n] = 1 => posts[EvidenceKey[n]] = 1
  BY <1>1, NotificationTables DEF OutboxTypeOK
<1>3. CASE LookUp(p)
  <2>1. UNCHANGED <<evidence, posts>>
    BY <1>3 DEF LookUp
  <2>2. CASE evidence[k] # 0 /\ Return(p, evidence[k])
    <3>1. evidence[k] = 1
      BY <1>1, <1>2, <2>2
    <3> QED BY <1>1, <1>2, <2>1, <2>2, <3>1, NotificationReturns
  <2>3. CASE Goto(p, "send") /\ UNCHANGED <<key, reference, returned>>
    <3>1. OutboxTypeOK' /\ NotifiedOnce'
      BY <1>1, <2>1, <2>3 DEF OutboxInv, OutboxTypeOK, NotifiedOnce, Goto
    <3>2. step'[p] = "send" /\ sending'[p] = Nothing /\ key'[p] = k
      BY <1>1, <2>3, NoDelivery DEF OutboxTypeOK, Goto
    <3>3. CliOK(p)'
      BY <1>1, <3>2 DEF CliOK
    <3>4. \A q \in Clis \ {p} : /\ step'[q] = step[q] /\ key'[q] = key[q]
                                /\ reference'[q] = reference[q]
      BY <1>1, <2>3 DEF OutboxTypeOK, Goto
    <3> QED BY <1>1, <2>1, <3>1, <3>3, <3>4, NotificationStep
  <2> QED BY <1>3, <2>2, <2>3 DEF LookUp
<1>4. CASE SinkSends(p)
  <2>1. UNCHANGED evidence /\ SinkPosts(e) = 1
    BY <1>1, <1>2, <1>4 DEF SinkSends, SinkPosts
  <2>2. CASE UNCHANGED posts /\ Return(p, 0)
    BY <1>1, <1>2, <2>1, <2>2, NotificationReturns
  <2>3. ASSUME posts' = [posts EXCEPT ![e] = 1]
        PROVE  /\ posts' \in [EvidenceKeys -> {0, 1}] /\ posts'[e] = 1
               /\ \A f \in EvidenceKeys : posts[f] = 1 => posts'[f] = 1
    BY <1>1, <1>2, <2>3
  <2>4. CASE posts' = [posts EXCEPT ![e] = 1] /\ Return(p, 0)
    <3>1. \A n \in Notices : evidence'[n] = 1 => posts'[EvidenceKey[n]] = 1
      BY <1>2, <2>1, <2>3, <2>4, OutboxConstants
    <3> QED BY <1>1, <1>2, <2>1, <2>3, <2>4, <3>1, NotificationReturns
  <2>5. CASE /\ posts' = [posts EXCEPT ![e] = 1]
             /\ reference' = [reference EXCEPT ![p] = 1]
             /\ Goto(p, "record") /\ UNCHANGED <<key, returned>>
    <3>1. \A n \in Notices : evidence'[n] = 1 => posts'[EvidenceKey[n]] = 1
      BY <1>2, <2>1, <2>3, <2>5, OutboxConstants
    <3>2. NotifiedOnce' /\ returned' \subseteq Notices \X {1}
      BY <1>2, <2>1, <2>3, <2>5, <3>1, NotifiedStep
    <3>3. posts' \in [EvidenceKeys -> Nat] /\ reference' \in [Clis -> Nat]
      BY <1>1, <2>3, <2>5 DEF OutboxTypeOK
    <3>4. OutboxTypeOK'
      BY <1>1, <2>1, <2>5, <3>2, <3>3 DEF OutboxTypeOK, Goto
    <3>5. /\ step'[p] = "record" /\ reference'[p] = 1 /\ key'[p] = k
          /\ sending'[p] = Nothing
      BY <1>1, <2>5, NoDelivery DEF OutboxTypeOK, Goto
    <3>6. CliOK(p)'
      BY <1>1, <2>3, <2>5, <3>5 DEF CliOK
    <3>7. \A q \in Clis \ {p} : /\ step'[q] = step[q] /\ key'[q] = key[q]
                                /\ reference'[q] = reference[q]
      BY <1>1, <2>5 DEF OutboxTypeOK, Goto
    <3> QED BY <1>1, <2>3, <2>5, <3>2, <3>4, <3>6, <3>7, NotificationStep
  <2> QED BY <1>4, <2>1, <2>2, <2>4, <2>5 DEF SinkSends
<1>5. CASE RecordEvidence(p)
  <2>1. UNCHANGED posts /\ reference[p] = 1 /\ posts[e] = 1
    BY <1>1, <1>5 DEF RecordEvidence, CliOK
  <2>2. CASE UNCHANGED evidence /\ Return(p, 0)
    BY <1>1, <1>2, <2>1, <2>2, NotificationReturns
  <2>3. ASSUME evidence' = [evidence EXCEPT ![k] = 1],
               NEW ref \in {0, 1}, Return(p, ref)
        PROVE  OutboxInv' /\ CliDelivers(p)
    <3>1. /\ evidence' \in [Notices -> {0, 1}] /\ evidence'[k] = 1
          /\ \A n \in Notices : evidence[n] = 1 => evidence'[n] = 1
      BY <1>1, <1>2, <2>3
    <3>2. \A n \in Notices : evidence'[n] = 1 => posts'[EvidenceKey[n]] = 1
      BY <1>1, <1>2, <2>1, <2>3
    <3> QED BY <1>1, <1>2, <2>1, <2>3, <3>1, <3>2, NotificationReturns
  <2> QED BY <1>5, <2>1, <2>2, <2>3 DEF RecordEvidence
<1> QED BY <1>3, <1>4, <1>5

\* A step of request-approval that puts nothing into the chat
LEMMA RequestStep ==
  ASSUME DeliveryTypeOK, OutboxInv, NEW p \in Clis, OutboxTypeOK', CliOK(p)',
         UNCHANGED <<returned, evidence, posts>>, chat' = chat,
         DeliveryTypeOK', OthersKept(p), requests \subseteq requests',
         \A k \in Keys : cardId'[k] <= chat[<<k, "card">>],
         \A q \in Clis \ {p} : /\ step'[q] = step[q] /\ key'[q] = key[q]
                               /\ reference'[q] = reference[q]
  PROVE  OutboxInv' /\ CliDelivers(p)
<1>1. CliDelivers(p)
  BY DEF CliDelivers
<1>2. \A c \in Keys : chat[Card(c)] <= chat'[Card(c)]
  BY CardsAreNoReplies DEF DeliveryTypeOK
<1>3. \A q \in Clis \ {p} : CliOK(q)'
  BY <1>2, OtherClis
<1>4. NotifiedOnce'
  BY DEF OutboxInv, NotifiedOnce
<1>5. ASSUME NEW k \in Keys
      PROVE  /\ chat'[<<k, "card">>] > 0 => k \in requests'
             /\ cardId'[k] <= chat'[<<k, "card">>]
  BY DEF OutboxInv, CardsAreBacked
<1>6. CardsAreBacked'
  BY <1>5 DEF CardsAreBacked
<1> QED BY <1>1, <1>3, <1>4, <1>6 DEF OutboxInv

\* request-approval returns, fails or dies.
LEMMA RequestReturns ==
  ASSUME DeliveryTypeOK, OutboxInv, NEW p \in Clis, Return(p, 0),
         UNCHANGED <<evidence, posts>>, chat' = chat,
         DeliveryTypeOK', OthersKept(p), sending'[p] = Nothing,
         requests \subseteq requests', requests' \subseteq Keys,
         cardId' \in [Keys -> Nat],
         \A k \in Keys : cardId'[k] <= chat[<<k, "card">>]
  PROVE  OutboxInv' /\ CliDelivers(p)
<1>1. /\ CliOK(p)'
      /\ step' \in [Clis -> {"idle", "look", "send", "record", "request",
                             "card", "storeId"}]
      /\ key' \in [Clis -> Keys \cup Notices \cup {Nothing}]
      /\ reference' \in [Clis -> Nat]
      /\ \A q \in Clis \ {p} : /\ step'[q] = step[q] /\ key'[q] = key[q]
                               /\ reference'[q] = reference[q]
  BY ReturnedCli
<1>2. returned' = returned
  BY DEF Return
<1>3. OutboxTypeOK'
  BY <1>1, <1>2 DEF OutboxInv, OutboxTypeOK
<1> QED BY <1>1, <1>2, <1>3, RequestStep

\* The message ids that are stored stay those of cards in the chat.
LEMMA StoredIds ==
  ASSUME OutboxInv, UNCHANGED cardId
  PROVE  /\ cardId' \in [Keys -> Nat]
         /\ \A k \in Keys : cardId'[k] <= chat[<<k, "card">>]
<1>1. cardId' \in [Keys -> Nat]
  BY DEF OutboxInv, OutboxTypeOK
<1>2. ASSUME NEW k \in Keys PROVE cardId[k] <= chat[<<k, "card">>]
  BY DEF OutboxInv, CardsAreBacked
<1> QED BY <1>1, <1>2

\* The request is stored before the card is sent.
LEMMA CreateRequestPreserves ==
  ASSUME DeliveryTypeOK, OutboxInv, NEW p \in Clis, CreateRequest(p)
  PROVE  OutboxInv' /\ CliDelivers(p)
<1> DEFINE k == key[p]
<1>1. /\ OutboxTypeOK /\ CliOK(p) /\ k \in Keys /\ sending[p] = Nothing
      /\ step[p] = "request" /\ UNCHANGED <<evidence, posts, cardId>>
      /\ p \in Senders /\ Card(k) \in Texts
  BY OutboxConstants, CardsAreNoReplies DEF OutboxInv, CliOK, CreateRequest
<1>2. requests \subseteq requests' /\ requests' \subseteq Keys
  <2>1. requests' \in {requests, requests \cup {k}}
    BY DEF CreateRequest
  <2> QED BY <1>1, <2>1 DEF OutboxTypeOK
<1>3. CASE Return(p, 0) /\ UNCHANGED deliveryVars
  <2>1. DeliveryTypeOK' /\ OthersKept(p) /\ chat' = chat /\ sending' = sending
    BY <1>3, NoDelivery DEF CliDelivers
  <2> QED BY <1>1, <1>2, <1>3, <2>1, StoredIds, RequestReturns
<1>4. CASE /\ requests' = requests \cup {k} /\ Goto(p, "card")
           /\ StartDelivery(p, <<k, "card">>)
           /\ UNCHANGED <<key, reference, returned>>
  <2>1. /\ DeliveryTypeOK' /\ OthersKept(p) /\ chat' = chat
        /\ sending'[p] = [text |-> Card(k), attempt |-> 1]
        /\ result'[p].id = 0
    BY <1>1, <1>4, StartFacts DEF Card
  <2>2. OutboxTypeOK'
    BY <1>1, <1>2, <1>4 DEF OutboxTypeOK, Goto
  <2>3. step'[p] = "card" /\ key'[p] = k /\ k \in requests'
    BY <1>1, <1>4 DEF OutboxTypeOK, Goto
  <2>4. result'[p].id <= chat'[Card(k)]
    BY <1>1, <2>1 DEF DeliveryTypeOK
  <2>5. sending'[p].text = Card(k)
    BY <2>1
  <2>6. CliOK(p)'
    BY <1>1, <2>3, <2>4, <2>5 DEF CliOK, Card
  <2>7. \A q \in Clis \ {p} : /\ step'[q] = step[q] /\ key'[q] = key[q]
                              /\ reference'[q] = reference[q]
    BY <1>1, <1>4 DEF OutboxTypeOK, Goto
  <2> QED BY <1>1, <1>2, <1>4, <2>1, <2>2, <2>6, <2>7, StoredIds, RequestStep
<1> QED BY <1>3, <1>4 DEF CreateRequest

\* The delivery of the card is over.
LEMMA CardDeliveredPreserves ==
  ASSUME DeliveryTypeOK, OutboxInv, NEW p \in Clis, CardDelivered(p)
  PROVE  OutboxInv' /\ CliDelivers(p)
<1>1. /\ OutboxTypeOK /\ CliOK(p) /\ step[p] = "card" /\ sending[p] = Nothing
      /\ UNCHANGED <<evidence, posts, requests, cardId>> /\ p \in Senders
      /\ requests' \subseteq Keys
  BY OutboxConstants
     DEF OutboxInv, OutboxTypeOK, CardDelivered, Delivering
<1>2. CASE Return(p, 0) /\ LeaveDelivery(p)
  <2>1. /\ DeliveryTypeOK' /\ OthersKept(p) /\ chat' = chat
        /\ sending'[p] = Nothing
    BY <1>1, <1>2, LeaveFacts
  <2> QED BY <1>1, <1>2, <2>1, StoredIds, RequestReturns
<1>3. CASE /\ Goto(p, "storeId")
           /\ UNCHANGED <<key, reference, returned, deliveryVars>>
  <2>1. /\ DeliveryTypeOK' /\ OthersKept(p) /\ chat' = chat
        /\ sending' = sending /\ result' = result
    BY <1>3, NoDelivery DEF CliDelivers, deliveryVars
  <2>2. OutboxTypeOK'
    BY <1>1, <1>3 DEF OutboxTypeOK, Goto
  <2>3. step'[p] = "storeId" /\ key'[p] = key[p]
    BY <1>1, <1>3 DEF OutboxTypeOK, Goto
  <2>4. CliOK(p)'
    BY <1>1, <2>1, <2>3 DEF CliOK, Card
  <2>5. \A q \in Clis \ {p} : /\ step'[q] = step[q] /\ key'[q] = key[q]
                              /\ reference'[q] = reference[q]
    BY <1>1, <1>3 DEF OutboxTypeOK, Goto
  <2> QED BY <1>1, <1>3, <2>1, <2>2, <2>4, <2>5, StoredIds, RequestStep
<1> QED BY <1>2, <1>3 DEF CardDelivered

\* The message id that the answer had is stored, or nothing is.
LEMMA StoreCardIdPreserves ==
  ASSUME DeliveryTypeOK, OutboxInv, NEW p \in Clis, StoreCardId(p)
  PROVE  OutboxInv' /\ CliDelivers(p)
<1> DEFINE k == key[p]
<1>1. /\ OutboxTypeOK /\ CliOK(p) /\ step[p] = "storeId" /\ k \in Keys
      /\ UNCHANGED <<evidence, posts, requests>> /\ p \in Senders
      /\ requests' \subseteq Keys /\ Return(p, 0) /\ LeaveDelivery(p)
      /\ result[p].id \in Nat /\ result[p].id <= chat[Card(k)]
  BY OutboxConstants
     DEF OutboxInv, OutboxTypeOK, StoreCardId, CliOK, DeliveryTypeOK
<1>2. /\ DeliveryTypeOK' /\ OthersKept(p) /\ chat' = chat
      /\ sending'[p] = Nothing
  BY <1>1, LeaveFacts
<1>3. CASE UNCHANGED cardId
  BY <1>1, <1>2, <1>3, StoredIds, RequestReturns
<1>4. CASE cardId' = [cardId EXCEPT ![k] = result[p].id]
  <2>1. cardId' \in [Keys -> Nat]
    BY <1>1, <1>4 DEF OutboxTypeOK
  <2>2. ASSUME NEW c \in Keys PROVE cardId'[c] <= chat[<<c, "card">>]
    <3>1. CASE c = k
      BY <1>1, <1>4, <3>1 DEF OutboxTypeOK, Card
    <3>2. CASE c # k
      <4>1. cardId'[c] = cardId[c]
        BY <1>1, <1>4, <3>2 DEF OutboxTypeOK
      <4>2. cardId[c] <= chat[<<c, "card">>]
        BY DEF OutboxInv, CardsAreBacked
      <4> QED BY <4>1, <4>2
    <3> QED BY <3>1, <3>2
  <2> QED BY <1>1, <1>2, <2>1, <2>2, RequestReturns
<1> QED BY <1>3, <1>4 DEF StoreCardId

\* The process dies between two steps.
LEMMA CliDiesPreserves ==
  ASSUME DeliveryTypeOK, OutboxInv, NEW p \in Clis, CliDies(p)
  PROVE  OutboxInv' /\ CliDelivers(p)
<1>1. /\ UNCHANGED <<evidence, posts, requests, cardId>> /\ p \in Senders
      /\ requests' \subseteq Keys /\ Return(p, 0) /\ LeaveDelivery(p)
  BY OutboxConstants DEF OutboxInv, OutboxTypeOK, CliDies
<1>2. /\ DeliveryTypeOK' /\ OthersKept(p) /\ chat' = chat
      /\ sending'[p] = Nothing
  BY <1>1, LeaveFacts
<1> QED BY <1>1, <1>2, StoredIds, RequestReturns

\* An attempt to send the card of a request that is stored
LEMMA CardSendPreserves ==
  ASSUME DeliveryTypeOK, OutboxInv, NEW p \in Clis, SendOnce(p, TRUE),
         UNCHANGED outboxVars
  PROVE  OutboxInv' /\ CliDelivers(p)
<1> DEFINE k == key[p]
           t == sending[p].text
<1>1. /\ OutboxTypeOK /\ CliOK(p) /\ NotifiedOnce /\ p \in Senders
      /\ UNCHANGED <<step, key, reference, returned, evidence, posts, requests,
                     cardId>>
  BY OutboxConstants DEF OutboxInv, outboxVars
<1>2. /\ sending[p] # Nothing /\ DeliveryTypeOK' /\ OthersKept(p)
      /\ chat' = chat \/ chat' = Posted(t)
      /\ sending'[p] = Nothing \/ sending'[p].text = t
      /\ result'[p].id \in {0, result[p].id, chat'[t]}
  BY <1>1, SendFacts
<1>3. /\ step[p] = "card" /\ t = Card(k) /\ k \in Keys /\ k \in requests
      /\ result[p].id <= chat[Card(k)] /\ t \in Texts
  BY <1>1, <1>2, CardsAreNoReplies DEF CliOK
<1> HIDE DEF k, t
<1>4. /\ chat[t] \in Nat /\ chat'[t] \in Nat /\ result[p].id \in Nat
      /\ chat[t] <= chat'[t]
      /\ \A u \in Texts : u # t => chat'[u] = chat[u]
  BY <1>1, <1>2, <1>3, PostedFacts DEF DeliveryTypeOK
<1>5. ASSUME NEW c \in Keys PROVE chat[Card(c)] <= chat'[Card(c)]
  <2>1. Card(c) \in Texts
    BY CardsAreNoReplies
  <2>2. chat[Card(c)] \in Nat
    BY <2>1 DEF DeliveryTypeOK
  <2> QED BY <1>4, <2>1, <2>2
<1>6. CliDelivers(p)
  BY <1>2, <1>3 DEF CliDelivers
<1>7. CliOK(p)'
  <2>1. result'[p].id <= chat'[Card(k)]
    BY <1>2, <1>3, <1>4
  <2> QED BY <1>1, <1>2, <1>3, <2>1 DEF CliOK, k, Card
<1>8. \A q \in Clis \ {p} : CliOK(q)'
  BY <1>1, <1>2, <1>5, OtherClis
<1>9. ASSUME NEW c \in Keys
      PROVE  /\ chat'[<<c, "card">>] > 0 => c \in requests'
             /\ cardId'[c] <= chat'[<<c, "card">>]
  <2>1. /\ chat[<<c, "card">>] > 0 => c \in requests
        /\ cardId[c] <= chat[<<c, "card">>]
    BY DEF OutboxInv, CardsAreBacked
  <2>2. <<c, "card">> \in Texts /\ <<c, "card">> = Card(c)
    BY CardsAreNoReplies DEF Card
  <2>3. /\ cardId[c] \in Nat /\ chat[<<c, "card">>] \in Nat
        /\ chat'[<<c, "card">>] \in Nat
    BY <1>1, <1>2, <2>2 DEF OutboxTypeOK, DeliveryTypeOK
  <2>4. cardId'[c] <= chat'[<<c, "card">>]
    BY <1>1, <1>5, <2>1, <2>2, <2>3
  <2>5. CASE c = k
    BY <1>1, <1>3, <2>4, <2>5
  <2>6. CASE c # k
    <3>1. <<c, "card">> # t
      BY <1>3, <2>6 DEF Card
    <3> QED BY <1>1, <1>4, <2>1, <2>2, <2>4, <3>1
  <2> QED BY <2>5, <2>6
<1>10. CardsAreBacked' /\ NotifiedOnce' /\ OutboxTypeOK'
  BY <1>1, <1>9 DEF CardsAreBacked, NotifiedOnce, OutboxTypeOK
<1> QED BY <1>6, <1>7, <1>8, <1>10 DEF OutboxInv

-----------------------------------------------------------------------------
(* The theorems                                                            *)

\* What a step of a handler does to the deliveries
HandlerDelivers(w) ==
    /\ OthersKept(w)
    /\ \/ chat' = chat
       \/ sending[w] # Nothing /\ chat' = Posted(sending[w].text)

\* Only an attempt to send changes the chat, and only its own text.
LEMMA HandlerDeliveries ==
  ASSUME DeliveryTypeOK, InboxInv, NEW w \in Workers,
         Handle(w) \/ WorkerDies(w) \/ \E m \in Messages : Receive(w, m)
  PROVE  HandlerDelivers(w)
<1>1. w \in Senders
  BY InboxConstants
<1>2. CASE UNCHANGED deliveryVars
  BY <1>2 DEF deliveryVars, HandlerDelivers, OthersKept
<1>3. CASE LeaveDelivery(w)
  BY <1>1, <1>3, LeaveFacts DEF HandlerDelivers
<1>4. ASSUME NEW text \in {"recorded", "duplicate", "other"}, Reply(w, text),
             pc[w] \in {"route", "store"}
      PROVE  HandlerDelivers(w)
  <2>1. msg[w] \in Messages
    BY <1>4 DEF InboxInv, HandlerOK
  <2>2. <<msg[w], text>> \in Texts
    BY <2>1, TextsOfMessage
  <2> QED BY <1>1, <1>4, <2>2, StartFacts DEF Reply, HandlerDelivers
<1>5. CASE SendOnce(w, FALSE)
  BY <1>1, <1>5, SendFacts DEF HandlerDelivers
<1>6. CASE Route(w)
  BY <1>2, <1>4, <1>6 DEF Route
<1>7. CASE \/ StoreCreated(w) \/ StoreDuplicate(w) \/ StoreRefused(w)
           \/ StoreFails(w)
  BY <1>2, <1>4, <1>7 DEF StoreCreated, StoreDuplicate, StoreRefused,
     StoreFails
<1>8. CASE EndReply(w) \/ WorkerDies(w)
  BY <1>3, <1>8 DEF EndReply, WorkerDies
<1>9. CASE \E m \in Messages : Receive(w, m)
  BY <1>2, <1>9 DEF Receive
<1> QED BY <1>5, <1>6, <1>7, <1>8, <1>9 DEF Handle

\* Every step keeps the invariant.
LEMMA NextInv ==
  ASSUME Inv, [Next]_vars
  PROVE  Inv'
<1>1. DeliveryTypeOK /\ InboxInv /\ OutboxInv /\ work \in 0 .. MaxWork
  BY DEF Inv
<1>2. work' \in 0 .. MaxWork
  <2>1. NewWork => work' \in 0 .. MaxWork
    BY <1>1, MessagingConstants DEF NewWork
  <2> QED BY <1>1, <2>1 DEF Next, vars
<1>3. ASSUME NEW w \in Workers, UNCHANGED outboxVars,
             Handle(w) \/ WorkerDies(w) \/ \E m \in Messages : Receive(w, m)
      PROVE  Inv'
  <2>1. OutboxInv'
    BY <1>1, <1>3, HandlerDeliveries, HandlerKeepsOutbox DEF HandlerDelivers
  <2>2. CASE Handle(w)
    <3>1. CASE Route(w) \/ EndReply(w) \/ StoreCreated(w)
               \/ StoreDuplicate(w) \/ StoreRefused(w) \/ StoreFails(w)
      BY <1>1, <1>2, <2>1, <3>1, RoutePreserves, EndReplyPreserves,
         StorePreserves DEF Inv
    <3>2. CASE SendOnce(w, FALSE) /\ UNCHANGED inboxVars
      <4>1. InboxInv'
        BY <1>1, <3>2, ReplySendPreserves
      <4>2. DeliveryTypeOK'
        BY <1>1, <3>2, SendFacts, InboxConstants
      <4> QED BY <1>2, <2>1, <4>1, <4>2 DEF Inv
    <3> QED BY <2>2, <3>1, <3>2 DEF Handle
  <2>3. CASE WorkerDies(w)
    BY <1>1, <1>2, <2>1, <2>3, WorkerDiesPreserves DEF Inv
  <2>4. ASSUME NEW m \in Messages, Receive(w, m) PROVE Inv'
    <3>1. DeliveryTypeOK'
      BY <1>1, <2>4 DEF Receive, deliveryVars, DeliveryTypeOK
    <3> QED BY <1>1, <1>2, <2>1, <2>4, <3>1, ReceivePreserves DEF Inv
  <2> QED BY <1>3, <2>2, <2>3, <2>4
<1>4. ASSUME NEW m \in Messages, CreateTextInput(m), UNCHANGED outboxVars
      PROVE  Inv'
  <2>1. InboxInv' /\ DeliveryTypeOK'
    BY <1>1, <1>4, CreateTextInputPreserves
  <2>2. OutboxInv'
    BY <1>1, <1>4, OutboxKept DEF CreateTextInput, deliveryVars
  <2> QED BY <1>2, <2>1, <2>2 DEF Inv
<1>5. ASSUME NEW p \in Clis, UNCHANGED inboxVars, OutboxInv', CliDelivers(p)
      PROVE  Inv'
  <2>1. InboxInv'
    BY <1>1, <1>5, InboxKept DEF CliDelivers
  <2> QED BY <1>2, <1>5, <2>1 DEF Inv, CliDelivers
<1>6. ASSUME NEW p \in Clis, NEW k, UNCHANGED inboxVars,
             \/ k \in Notices /\ Notify(p, k)
             \/ k \in Keys /\ RequestApproval(p, k)
      PROVE  Inv'
  BY <1>1, <1>5, <1>6, BeginPreserves
<1>7. ASSUME NEW p \in Clis, UNCHANGED inboxVars, Send(p) \/ CliDies(p)
      PROVE  Inv'
  <2>1. OutboxInv' /\ CliDelivers(p)
    BY <1>1, <1>7, NotifyPreserves, CreateRequestPreserves,
       CardDeliveredPreserves, StoreCardIdPreserves, CardSendPreserves,
       CliDiesPreserves DEF Send
  <2> QED BY <1>5, <1>7, <2>1
<1>8. CASE UNCHANGED vars
  <2>1. UNCHANGED <<deliveryVars, inboxVars, outboxVars, work>>
    BY <1>8 DEF vars
  <2>2. DeliveryTypeOK'
    BY <1>1, <2>1 DEF deliveryVars, DeliveryTypeOK
  <2>3. OutboxInv'
    BY <1>1, <2>1, OutboxKept DEF deliveryVars
  <2>4. InboxInv'
    BY <1>1, <2>1
       DEF deliveryVars, inboxVars, InboxInv, InboxTypeOK, ReplyOK, HandlerOK,
       OneConfirms, Confirmation, RepliesAreTruthful, ConfirmedByOneHandler,
       LossIsCounted, Answered
  <2> QED BY <1>2, <2>2, <2>3, <2>4 DEF Inv
<1>9. ASSUME ProvisionUser, UNCHANGED outboxVars PROVE Inv'
  <2>1. /\ userKnown' = TRUE
        /\ UNCHANGED <<pc, msg, inputs, counters, deliveries, acked, failures,
                       refused, sending, result, chat>>
    BY <1>9 DEF ProvisionUser, deliveryVars
  <2>2. DeliveryTypeOK' /\ OutboxInv'
    BY <1>1, <1>9, <2>1, OutboxKept DEF DeliveryTypeOK
  <2>3. InboxInv'
    BY <1>1, <2>1
       DEF InboxInv, InboxTypeOK, ReplyOK, HandlerOK, OneConfirms,
       Confirmation, RepliesAreTruthful, ConfirmedByOneHandler, LossIsCounted,
       Answered
  <2> QED BY <1>2, <2>2, <2>3 DEF Inv
<1> QED BY <1>3, <1>4, <1>6, <1>7, <1>8, <1>9 DEF Next

\* Every reachable state satisfies the invariant.
LEMMA Invariant == Spec => []Inv
<1>1. Inv /\ [Next]_vars => Inv'
  BY NextInv
<1> QED BY <1>1, InitInv, PTL DEF Spec

\* The variables of the deliveries, the worker and the callers keep their
\* types.
THEOREM TypeCorrect == Spec => []TypeOK
<1>1. Inv => TypeOK
  BY DEF Inv, InboxInv, OutboxInv, TypeOK
<1> QED BY <1>1, Invariant, PTL

\* handle_message tells the user that a message is recorded only when its
\* row is committed, or when its insert failed for want of the configured
\* user.
THEOREM RepliesAreTrue == Spec => []RepliesAreTruthful
<1>1. Inv => RepliesAreTruthful
  BY DEF Inv, InboxInv
<1> QED BY <1>1, Invariant, PTL

\* Only the handler that inserted the row confirms the message, and
\* deliver_with_retry puts the confirmation into the chat at most once for
\* each attempt.
THEOREM ConfirmedOnce == Spec => []ConfirmedByOneHandler
<1>1. Inv => ConfirmedByOneHandler
  BY DEF Inv, InboxInv
<1> QED BY <1>1, Invariant, PTL

\* A text that is acknowledged is stored or counted as a failure, or its
\* insert failed for want of the configured user; and the counters of
\* WorkerHealth add up.
THEOREM NothingLostSilently == Spec => []LossIsCounted
<1>1. Inv => LossIsCounted
  BY DEF Inv, InboxInv
<1> QED BY <1>1, Invariant, PTL

\* The user is there, and so no insert has failed for want of it.
Provisioned == userKnown /\ refused = {}

\* Nothing takes the configured user away.
LEMMA UserStays ==
  ASSUME Provisioned, [Next]_vars
  PROVE  Provisioned'
<1> USE DEF Provisioned
<1>1. CASE UNCHANGED inboxVars
  BY <1>1 DEF inboxVars
<1>2. ASSUME NEW m \in Messages,
             CreateTextInput(m) \/ \E w \in Workers : Receive(w, m)
      PROVE  Provisioned'
  BY <1>2 DEF CreateTextInput, Receive
<1>3. ASSUME NEW w \in Workers, Handle(w) \/ WorkerDies(w)
      PROVE  Provisioned'
  <2>1. CASE Route(w) \/ EndReply(w) \/ StoreFails(w) \/ WorkerDies(w)
    BY <2>1 DEF Route, EndReply, StoreFails, WorkerDies, Finish, Reply
  <2>2. CASE StoreCreated(w) \/ StoreDuplicate(w) \/ StoreRefused(w)
    BY <2>2 DEF StoreCreated, StoreDuplicate, StoreRefused, Reply
  <2> QED BY <1>1, <1>3, <2>1, <2>2 DEF Handle
<1>4. ~ProvisionUser
  BY DEF ProvisionUser
<1> QED BY <1>1, <1>2, <1>3, <1>4 DEF Next, vars

\* When the configured user was inserted before the first event, "already
\* recorded" is true of every message it is said of, and every text that
\* Feishu will not deliver again is stored or counted as a failure: the
\* foreign key is the only way for handle_message to go wrong here.
THEOREM UserProvisioned ==
  Init /\ userKnown /\ [][Next]_vars =>
     [](/\ \A m \in Messages :
             chat[<<m, "duplicate">>] > 0 => inputs[m] # Nothing
        /\ \A m \in acked :
             Kind[m] = "text" => inputs[m] # Nothing \/ m \in failures)
<1> DEFINE Goal ==
       /\ \A m \in Messages :
             chat[<<m, "duplicate">>] > 0 => inputs[m] # Nothing
       /\ \A m \in acked :
             Kind[m] = "text" => inputs[m] # Nothing \/ m \in failures
<1>1. Init /\ userKnown => Inv /\ Provisioned
  BY InitInv DEF Init, InboxInit, Provisioned
<1>2. Inv /\ Provisioned /\ [Next]_vars => Inv' /\ Provisioned'
  BY NextInv, UserStays
<1>3. Inv /\ Provisioned => Goal
  BY DEF Inv, InboxInv, RepliesAreTruthful, LossIsCounted, Provisioned
<1> HIDE DEF Goal
<1>4. Init /\ userKnown /\ [][Next]_vars => []Goal
  BY <1>1, <1>2, <1>3, PTL
<1> QED BY <1>4 DEF Goal

\* send_deployment_notification posts every evidence key at most once, and
\* what is on record or was returned is the reference of that post.
THEOREM PostedOnce == Spec => []NotifiedOnce
<1>1. Inv => NotifiedOnce
  BY DEF Inv, OutboxInv
<1> QED BY <1>1, Invariant, PTL

\* Every card in the chat has its request, and every message id that is
\* stored is that of a card of the request.
THEOREM CardsHaveRequests == Spec => []CardsAreBacked
<1>1. Inv => CardsAreBacked
  BY DEF Inv, OutboxInv
<1> QED BY <1>1, Invariant, PTL
=============================================================================
