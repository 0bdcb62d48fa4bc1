------------------------- MODULE MCIOSNotifications -------------------------
(* IOSNotifications for TLC: a mandatory message and one of a category that *)
(* the user can switch off.                                                 *)
EXTENDS IOSNotifications

CONSTANTS m1, m2, a1, a2

MCMessage == {m1, m2}
MCArticle == {a1, a2}
MCArticleOf == [m \in MCMessage |-> IF m = m1 THEN a1 ELSE a2]
MCCategoryOf == [m \in MCMessage |-> IF m = m1 THEN 0 ELSE 2]
=============================================================================
