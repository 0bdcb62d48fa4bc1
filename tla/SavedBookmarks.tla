--------------------------- MODULE SavedBookmarks ---------------------------
(***************************************************************************)
(* Android: bookmarks.  An article screen asks SavedDatabase once, when it *)
(* is created, whether its article is saved; its button only changes its   *)
(* own copy, and its header's arrow stores the difference.  A              *)
(* Saved_Activity reads the list once, too, and afterwards only removes    *)
(* the row it remembers to have opened.  Screens stay in the task while    *)
(* others are opened over them, and the table has no UNIQUE.               *)
(***************************************************************************)
EXTENDS Naturals, SequencesExt, FiniteSetsExt

CONSTANTS News, Bulletin, \* articles shown by ArticleActivity, by
                          \* Bulletin_Article_Activity
          MaxScreens      \* bound: screens in the task

ASSUME KindsAssumption == News \cap Bulletin = {}
ASSUME MaxScreensAssumption == MaxScreens \in Nat

VARIABLES
  rows,    \* the table of SavedDatabase, oldest first: articles
  stack,   \* the task's screens, the last one is shown
  again,   \* a second tap may still reach the screen below the one just opened
  doubled  \* history: an article was ever open twice

bookmarkVars == <<rows, stack, again, doubled>>

Article == News \cup Bulletin

\* mutant: ArticleActivity is started for both
AlwaysArticle(a) == "article"

KindOf(a) == IF a \in News THEN "article" ELSE "bulletin"

\* Any screen that lists articles but does not show the bookmarks.
Feed == [kind |-> "feed"]

AlreadyAdded(table, a) == \E k \in DOMAIN table : table[k] = a

\* mutant: the table is not asked
NewUnmarked(table, a, from) ==
  [kind |-> KindOf(a), article |-> a, from |-> from, gone |-> FALSE,
   saved |-> FALSE, copy |-> FALSE]

\* onCreate of the two article screens; "from" is the Saved_Activity that waits
\* for the result, 0 for none.
NewArticle(table, a, from) ==
  [kind |-> KindOf(a), article |-> a, from |-> from, gone |-> FALSE,
   saved |-> AlreadyAdded(table, a), copy |-> AlreadyAdded(table, a)]

\* getAllArticlesFromNewest_withCallBack
NewestFirst(table) == Reverse(table)

\* onCreate of Saved_Activity.  "behind" is history: the table has changed in a
\* way it is not told of, or it has lost the position it had opened.
NewSaved(table) ==
  [kind |-> "saved", list |-> NewestFirst(table), position |-> 1,
   results |-> <<>>, gone |-> FALSE, behind |-> FALSE]

IsArticle(screen) == screen.kind \in {"article", "bulletin"}
Top == Last(stack)

BookmarksInit ==
  /\ rows = <<>> /\ stack = <<Feed>>
  /\ again = FALSE /\ doubled = FALSE

-----------------------------------------------------------------------------
(* A screen comes to the front *)

\* mutant: the row after the one that was opened is removed
NextRemoved(list, position) ==
  IF position < Len(list) THEN RemoveAt(list, position + 1) ELSE list

UpdateItemRemoved(list, position) ==
  IF position <= Len(list) THEN RemoveAt(list, position) ELSE list

\* onActivityResult, once for each article screen that was left by its arrow.
AfterResults(rest, position, results) ==
  FoldLeft(LAMBDA list, changed :
             IF changed THEN UpdateItemRemoved(list, position) ELSE list,
           rest, results)

TakeResults(s) ==
  [s EXCEPT !.list = AfterResults(@, s.position, s.results), !.results = <<>>]

\* A screen that was destroyed is created anew, and then gets its results.
Recreate(s, table) ==
  IF IsArticle(s) THEN NewArticle(table, s.article, s.from)
  ELSE [NewSaved(table) EXCEPT !.results = s.results,
                               !.behind = Contains(s.results, TRUE)]

Shown(s, table) ==
  LET live == IF s.kind # "feed" /\ s.gone THEN Recreate(s, table) ELSE s
  IN  IF s.kind = "saved" THEN TakeResults(live) ELSE live

\* The first k screens are left, with this table.
Reveal(screens, k, table) ==
  [SubSeq(screens, 1, k) EXCEPT ![k] = Shown(@, table)]

-----------------------------------------------------------------------------
(* Going to a screen *)

CanPush == Len(stack) < MaxScreens

Push(screens, a, from) ==
  /\ stack' = Append(screens, NewArticle(rows, a, from))
  /\ doubled' = (doubled \/ \E k \in DOMAIN screens :
                               IsArticle(screens[k]) /\ screens[k].article = a)
  /\ UNCHANGED rows

\* The navigation bar: goToHome, goToBulletin, goToSaved and so on.
GoTo(screen) ==
  /\ CanPush /\ ~IsArticle(Top)
  /\ ~(Top.kind = "saved" /\ screen.kind = "saved")
  /\ stack' = Append(stack, screen)
  /\ again' = FALSE
  /\ UNCHANGED <<rows, doubled>>

\* The screen that gets a tap: the one shown or, with a quick second tap, the
\* one below it.
Tapped(k) == k = Len(stack) \/ (again /\ k = Len(stack) - 1)

ClickFeed(a) ==
  /\ CanPush
  /\ \E k \in DOMAIN stack : Tapped(k) /\ stack[k].kind = "feed"
  /\ Push(stack, a, 0)
  /\ again' = ~again

\* Saved_Activity.onItemClick
ClickRow(k, position) ==
  /\ CanPush /\ Tapped(k) /\ stack[k].kind = "saved"
  /\ position \in DOMAIN stack[k].list
  /\ Push([stack EXCEPT ![k].position = position,
                        ![k].behind = (@ \/ k # Len(stack))],
          stack[k].list[position], k)
  /\ again' = ~again

\* A listener of News_Activity finds the article of a tapped notification.
OpenFound(a) ==
  /\ CanPush
  /\ Push(stack, a, 0)
  /\ again' = FALSE

\* A notification of NotifService is tapped: CLEAR_TOP and SINGLE_TOP.  The
\* screen of that kind that comes to the front ignores the new intent.
TapNotification(a) ==
  LET same == {k \in DOMAIN stack : stack[k].kind = KindOf(a)}
  IN /\ again' = FALSE
     /\ IF same = {}
          THEN CanPush /\ Push(stack, a, 0)
          ELSE /\ stack' = Reveal(stack, Max(same), rows)
               /\ UNCHANGED <<rows, doubled>>

-----------------------------------------------------------------------------
(* The bookmark *)

ToggleBookmark ==
  /\ IsArticle(Top)
  /\ stack' = [stack EXCEPT ![Len(stack)].saved = ~@]
  /\ again' = FALSE
  /\ UNCHANGED <<rows, doubled>>

\* The two methods add: one more row, whatever rows there are.
Add(table, a) == Append(table, a)

\* deleteByID: every row of the article.
DeleteByID(table, a) ==
  FoldLeft(LAMBDA kept, b : IF b = a THEN kept ELSE Append(kept, b), <<>>, table)

\* mutant: the article is added whatever the screen found when it was created
AddAlways(s) ==
  IF s.saved THEN Add(rows, s.article)
  ELSE IF s.copy THEN DeleteByID(rows, s.article) ELSE rows

\* The header's arrow: add or deleteByID, if the copy has changed.
UpdateSavedStatus(s) ==
  IF s.saved = s.copy THEN rows
  ELSE IF s.saved THEN Add(rows, s.article)
  ELSE DeleteByID(rows, s.article)

\* What the screens below know of it once the screen s has stored its change.
Told(k, s) ==
  LET screen == stack[k] IN
  IF screen.kind # "saved" THEN screen
  ELSE IF k = s.from
    THEN [screen EXCEPT !.results = Append(@, s.saved # s.copy),
                        !.behind = (@ \/ (s.saved /\ ~s.copy))]
    ELSE [screen EXCEPT !.behind = (@ \/ s.saved # s.copy)]

HeaderBack ==
  /\ IsArticle(Top) /\ Len(stack) > 1
  /\ rows' = UpdateSavedStatus(Top)
  /\ stack' = Reveal([k \in DOMAIN stack |-> Told(k, Top)],
                     Len(stack) - 1, rows')
  /\ again' = FALSE
  /\ UNCHANGED doubled

\* The system's back: an article screen drops its change and has no result.
SystemBack ==
  /\ Len(stack) > 1
  /\ stack' = Reveal(stack, Len(stack) - 1, rows)
  /\ again' = FALSE
  /\ UNCHANGED <<rows, doubled>>

\* The screens of these kinds are destroyed, each to be created anew when it is
\* shown: a rotation, which the article screens handle themselves, or the end
\* of the process, after which the system restores the task.
Destroy(kinds) ==
  /\ stack' = Reveal([k \in DOMAIN stack |->
                        IF stack[k].kind \in kinds
                          THEN [stack[k] EXCEPT !.gone = TRUE] ELSE stack[k]],
                     Len(stack), rows)
  /\ again' = FALSE
  /\ UNCHANGED <<rows, doubled>>

BookmarksNext ==
  \/ \E screen \in {Feed, NewSaved(rows)} : GoTo(screen)
  \/ \E a \in Article : ClickFeed(a) \/ OpenFound(a) \/ TapNotification(a)
  \/ \E k \in DOMAIN stack :
       /\ stack[k].kind = "saved"
       /\ \E position \in DOMAIN stack[k].list : ClickRow(k, position)
  \/ ToggleBookmark \/ HeaderBack \/ SystemBack
  \/ Destroy({"saved"}) \/ Destroy({"saved", "article", "bulletin"})

BookmarksSpec == BookmarksInit /\ [][BookmarksNext]_bookmarkVars

-----------------------------------------------------------------------------
(* Properties *)

\* The shape of every variable; a result is only waited for by a screen below.
BookmarksTypeOK ==
  /\ rows \in Seq(Article) /\ {again, doubled} \subseteq BOOLEAN
  /\ \A k \in DOMAIN stack :
       LET s == stack[k] IN
       \/ s = Feed
       \/ /\ s.kind = "saved"
          /\ s.list \in Seq(Article) /\ s.position \in Nat \ {0}
          /\ s.results \in Seq(BOOLEAN) /\ {s.gone, s.behind} \subseteq BOOLEAN
       \/ /\ IsArticle(s)
          /\ s.article \in IF s.kind = "article" THEN News ELSE Bulletin
          /\ {s.gone, s.saved, s.copy} \subseteq BOOLEAN
          /\ s.from # 0 => s.from < k /\ stack[s.from].kind = "saved"

\* An article has one bookmark at most, unless it was open twice.
OneBookmark == ~doubled => IsInjective(rows)

\* What an article screen believes was stored is what the table says, whatever
\* was opened over it, unless the article was open twice.
CopyIsCurrent ==
  ~doubled => \A k \in DOMAIN stack :
                IsArticle(stack[k]) /\ ~stack[k].gone
                  => stack[k].copy = AlreadyAdded(rows, stack[k].article)

\* The list that is shown is the table, newest first, after any number of
\* bookmarks removed from it, unless one was changed elsewhere, two rows were
\* tapped at once, or the screen was created anew with a result on its way.
ListIsTable ==
  Top.kind = "saved" /\ ~doubled /\ ~Top.behind => Top.list = Reverse(rows)
=============================================================================
