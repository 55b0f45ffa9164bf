------------------------- MODULE CustomerDeliveryMC -------------------------
(* A customer's message, a staff message in another language and an answer of  *)
(* unknown language.                                                           *)
EXTENDS CustomerDelivery

Spoken == {[sender |-> "CUSTOMER", lang |-> "same"],
           [sender |-> "INTERNAL_USER", lang |-> "other"],
           [sender |-> "AI_AGENT", lang |-> "unknown"]}
=============================================================================
