--------------------------- MODULE MCBulletinRead ---------------------------
(* BulletinRead for TLC: two articles, so that a snapshot can move one to   *)
(* another position, of two types, one of which the dot does not look at,   *)
(* and two instances, so that a closed one still writes.                    *)
EXTENDS BulletinRead, TLC

CONSTANTS academics, athletics

MCArticle == {1, 2}
MCTypeOf == 1 :> academics @@ 2 :> athletics
MCTitleOf == [a \in MCArticle |-> a]

\* No state beyond one with two selectors lit, or with one lit and two articles
\* open at once: what any selectors leave is proved (FilterIsExact).
FewAtOnce ==
  /\ \A s \in Selecting : Cardinality(selectors[s]) <= 1
  /\ Len(reading) <= 1 \/ \A s \in Selecting : selectors[s] = {}
=============================================================================
