---------------------------- MODULE MCMessaging ----------------------------
(***************************************************************************)
(* A small instance of Messaging for TLC: one message of each kind, two    *)
(* workers, two command line processes, and two notifications with one     *)
(* evidence key.  MaxWork leaves three events and calls in one behaviour,  *)
(* so a message can be delivered twice and a third party can race with     *)
(* both deliveries.                                                        *)
(***************************************************************************)
EXTENDS Messaging

MCKind == [m \in Messages |-> m]
MCSenders == Workers \cup Clis
MCMessages == {"text", "other"}
MCEvidenceKey == [n \in Notices |-> CHOOSE e \in EvidenceKeys : TRUE]
MCTexts == (MCMessages \X {"recorded", "duplicate", "other"})
           \cup (Keys \X {"card"})
=============================================================================
