--------------------------- MODULE MCNotifications ---------------------------
(* Small instances of Notifications for TLC. *)
EXTENDS Notifications

CONSTANTS s1, s2, f1
=============================================================================
