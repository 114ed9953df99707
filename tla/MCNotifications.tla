--------------------------- MODULE MCNotifications ---------------------------
(* Small instances of Notifications for TLC.                                *)
EXTENDS Notifications, TLC
CONSTANTS m1, m2, s1

Alike == Permutations(Clients)
=============================================================================
