------------------------ MODULE NotificationOutboxMC ------------------------
(***************************************************************************)
(* Small instances of NotificationOutbox.                                  *)
(***************************************************************************)
EXTENDS NotificationOutbox, TLC

=============================================================================
