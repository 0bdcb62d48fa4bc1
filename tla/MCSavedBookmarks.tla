-------------------------- MODULE MCSavedBookmarks --------------------------
(* SavedBookmarks for TLC: two articles of one kind and one of the other.    *)
EXTENDS SavedBookmarks

CONSTANTS n1, n2, b1

MCNews == {n1, n2}
MCBulletin == {b1}

\* Nothing distinguishes the articles of a kind.
Symmetric == Permutations(MCNews)

\* Once an article was open twice, nothing is claimed of the bookmarks any more.
NotDoubled == ~doubled
=============================================================================
