--------------------------- MODULE MCNotifSettings ---------------------------
(***************************************************************************)
(* NotifSettings on three topics, one of them the mandatory one, and two   *)
(* unanswered calls per topic: enough for on, off, on before any answer.   *)
(***************************************************************************)
EXTENDS NotifSettings
=============================================================================
