--------------------------- MODULE MCIOSBulletin ---------------------------
(* IOSBulletin for TLC: two branches, one of them with two articles.        *)
EXTENDS IOSBulletin

CONSTANTS x1, x2, x3, b1, b2

MCArticle == {x1, x2, x3}
MCBranch == {b1, b2}
MCBranchOf == [a \in MCArticle |-> IF a = x3 THEN b2 ELSE b1]
=============================================================================
