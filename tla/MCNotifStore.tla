---------------------------- MODULE MCNotifStore ----------------------------
(* NotifStore for TLC: two notifications, so that a snapshot can move one to *)
(* another position, and two instances, so that a finished one still writes. *)
EXTENDS NotifStore

MCNotif == {1, 2}
=============================================================================
