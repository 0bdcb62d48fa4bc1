----------------------------- MODULE IOSArticles -----------------------------
(***************************************************************************)
(* iOS: the home page and the saved articles in one app.  An article is    *)
(* opened from a button of the home page, from the saved page, or when the *)
(* fetch of a tapped push has found it, which may be long after the tap    *)
(* and while something else is presented.                                  *)
(***************************************************************************)
EXTENDS Naturals, Sequences

CONSTANTS Article, Featured, Branch, BranchOf, MaxAsked

ASSUME FeaturedAssumption == Featured \subseteq Article
ASSUME BranchAssumption == BranchOf \in [Article -> Branch]
ASSUME HomeAssumption == "home" \notin Article \* the page is no article
ASSUME BoundAssumption == MaxAsked \in Nat

VARIABLES
  alive, \* the app runs
  server, asked, list, featured, shown, sections, refreshing, popup, brought,
  overlapped,
  saved, stored, tab, page, selected, sheet, loaded, rows

Home == INSTANCE IOSHome
Saved == INSTANCE IOSSaved

homeVars == <<server, asked, list, featured, shown, sections, refreshing, popup,
              brought, overlapped>>
savedVars == <<saved, stored, tab, page, selected, sheet, loaded, rows>>
vars == <<alive, homeVars, savedVars>>

\* Nothing is presented over the tab bar.
Free == page = {} /\ ~popup /\ ~sheet

Init ==
  /\ alive = FALSE /\ server = {} /\ Home!NewPage
  /\ stored = Saved!NoData /\ Saved!NewApp

\* The tab bar is loaded, and then the home page.
Launch(connected) ==
  /\ ~alive /\ alive' = TRUE
  /\ Saved!GetArticleDictionary
  /\ Home!ViewDidLoad(connected)

\* The system ends the app.
Kill == alive /\ alive' = FALSE /\ Home!ForgetPage /\ Saved!ForgetApp

\* A tap on a button of the home page or of the saved page.
OpenArticle(a) ==
  /\ alive /\ Free
  /\ \/ tab = "home" /\ a \in Home!Buttons
     \/ tab = "saved" /\ a \in rows
  /\ Saved!ArticleSelector(a, Free)
  /\ UNCHANGED <<alive, homeVars>>

\* A push is tapped while the app runs; one that starts it is a Launch first.
TapPush(a, connected) ==
  /\ alive
  /\ Home!LoadAllArticles(a, connected)
  /\ UNCHANGED <<alive, savedVars>>

\* An answer; it opens the article of a push if it brings it.
Answer(b) ==
  /\ Home!Answer(b)
  /\ IF Head(asked[b]) \in Home!Published(b)
       THEN Saved!ArticleSelector(Head(asked[b]), Free)
       ELSE UNCHANGED savedVars
  /\ UNCHANGED alive

HomeStep ==
  /\ \/ \E S \in SUBSET Article : Home!Publish(S)
     \/ Home!DismissPopup
     \/ /\ alive /\ Free /\ tab = "home"
        /\ \E connected \in BOOLEAN : Home!RefreshAllArticles(connected)
  /\ UNCHANGED <<alive, savedVars>>

SavedStep ==
  /\ \/ Saved!SaveArticle \/ Saved!ExitArticle
     \/ alive /\ Free /\ \E t \in Saved!Tab : Saved!DidPressTab(t)
     \/ alive /\ Free /\ Saved!ResetPreferences
     \/ \E ok \in BOOLEAN : Saved!ConfirmReset(ok)
  /\ UNCHANGED <<alive, homeVars>>

Next ==
  \/ \E connected \in BOOLEAN : Launch(connected)
  \/ Kill
  \/ \E a \in Article : OpenArticle(a)
  \/ \E a \in Article, connected \in BOOLEAN : TapPush(a, connected)
  \/ \E b \in Branch : Answer(b)
  \/ HomeStep \/ SavedStep

Spec == Init /\ [][Next]_vars

-----------------------------------------------------------------------------
(* Properties *)

\* The shape of every variable; nothing is presented while the app is down, and
\* one thing at most while it runs.
TypeOK ==
  /\ alive \in BOOLEAN
  /\ Home!HomeTypeOK /\ Saved!SavedTypeOK
  /\ ~alive => Free
  /\ ~(page # {} /\ popup) /\ ~(page # {} /\ sheet) /\ ~(popup /\ sheet)

\* The page features each article of its last fetch once (IOSHome).
FeaturedIsLatest == Home!FeaturedIsLatest

\* An open article page shows whether its article is saved, however late and
\* from wherever it was opened (IOSSaved).
ButtonIsBookmark == Saved!ButtonIsBookmark

\* The saved page in front lists what is stored (IOSSaved).
RowsAreStored == Saved!RowsAreStored
=============================================================================
