------------------------- MODULE TranslationJobsMC --------------------------
(* Two messages of staff whose language has to be confirmed first: they come   *)
(* to have a job or not in either order.                                       *)
EXTENDS TranslationJobs

Spoken == {[sender |-> "INTERNAL_USER", lang |-> "unknown"]}
=============================================================================
