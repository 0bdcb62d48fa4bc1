---------------------------- MODULE MCIOSArticles ----------------------------
(* IOSArticles for TLC: two branches with a featured article each.         *)
EXTENDS IOSArticles

CONSTANTS x1, x2, b1, b2

MCArticle == {x1, x2}
MCFeatured == MCArticle
MCBranch == {b1, b2}
MCBranchOf == [a \in MCArticle |-> IF a = x1 THEN b1 ELSE b2]
=============================================================================
