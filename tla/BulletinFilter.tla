--------------------------- MODULE BulletinFilter ---------------------------
(***************************************************************************)
(* The selectors above Android's bulletin: what filterItems makes of the   *)
(* rows of a BulletinRecyclerAdapter.  It does not build the rows anew: it *)
(* removes rows and adds others, and tells articles apart by their titles. *)
(***************************************************************************)
EXTENDS Naturals

CONSTANTS Article, \* bulletin articles; a list has them in this order
          TypeOf,  \* the type of each, of Bulletin_Article.Type
          TitleOf  \* the title of each; nothing makes titles differ

ASSUME ArticleAssumption == Article \subseteq Nat

\* The rows a user expects: with no selector active, all of the articles.
Filtered(ids, active) == {a \in ids : active = {} \/ TypeOf[a] \in active}

Titles(S) == {TitleOf[a] : a \in S}

\* The first pass: rows whose title no wanted article has are removed.
Kept(rows, wanted) == {a \in rows : TitleOf[a] \in Titles(wanted)}

\* The second pass: a wanted article is added if no row, nor an article added
\* before it, has its title.
Added(rows, wanted) ==
  {a \in wanted : /\ TitleOf[a] \notin Titles(rows)
                  /\ \A b \in wanted : TitleOf[b] = TitleOf[a] => a <= b}

\* mutant: the rows that are missing are not added
OnlyRemove(ids, rows, active) == Kept(rows, Filtered(ids, active))

\* filterItems, with the articles ids and the rows there are.
FilterItems(ids, rows, active) ==
  LET wanted == Filtered(ids, active)
      kept   == Kept(rows, wanted)
  IN  kept \cup Added(kept, wanted)
=============================================================================
