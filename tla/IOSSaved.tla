------------------------------- MODULE IOSSaved -------------------------------
(***************************************************************************)
(* iOS: the saved articles.  One dictionary in memory, written to          *)
(* UserDefaults at each change and read back whenever the saved page is    *)
(* drawn; the article page, whose button saves and removes its article and *)
(* whose closing has the saved page drawn anew; the reset in the settings. *)
(***************************************************************************)
CONSTANT Article \* articles, by articleID

VARIABLES
  saved,    \* savedArticles
  stored,   \* savedArticleDict in UserDefaults
  tab,      \* the page chosen in the tab bar
  page,     \* the article of the article page, the empty set without one
  selected, \* its bookmarkButton.isSelected
  sheet,    \* the settings ask whether to reset the saved articles
  loaded,   \* the saved page has been loaded
  rows      \* the articles it was last drawn with

pageVars == <<page, selected>>
savedVars == <<saved, stored, tab, pageVars, sheet, loaded, rows>>

Tab == {"home", "saved", "settings"}
NoData == [present |-> FALSE, ids |-> {}]

\* UserDefaults may have nothing, and then the dictionary stays.
Dictionary == IF stored.present THEN stored.ids ELSE saved

\* A new process, before the tab bar is loaded.
NewApp ==
  /\ saved = {} /\ tab = "home"
  /\ page = {} /\ selected = FALSE /\ sheet = FALSE
  /\ loaded = FALSE /\ rows = {}

\* The process ends; UserDefaults stay.
ForgetApp ==
  /\ saved' = {} /\ tab' = "home"
  /\ page' = {} /\ selected' = FALSE /\ sheet' = FALSE
  /\ loaded' = FALSE /\ rows' = {}
  /\ UNCHANGED stored

-----------------------------------------------------------------------------
(* savedArticleClass *)

SaveArticleDictionary(ids) == [present |-> TRUE, ids |-> ids]

\* getArticleDictionary, when the tab bar is loaded.
GetArticleDictionary ==
  /\ saved' = Dictionary
  /\ UNCHANGED <<stored, tab, pageVars, sheet, loaded, rows>>

\* renderList, which calls getSavedArticles.
RenderList == saved' = Dictionary /\ rows' = saved'

-----------------------------------------------------------------------------
(* The article page *)

\* mutant: the button starts as it is in the storyboard
Unmarked(a, ids) == FALSE

\* setBookmarkColor
SetBookmarkColor(a, ids) == a \in ids

\* mutant: the article page is shown over whatever is there
PresentOver(a, free) ==
  /\ page' = {a} /\ selected' = SetBookmarkColor(a, saved)
  /\ UNCHANGED <<saved, stored, tab, sheet, loaded, rows>>

\* articleSelector; with something presented already, present does nothing.
ArticleSelector(a, free) ==
  IF free
    THEN /\ page' = {a} /\ selected' = SetBookmarkColor(a, saved)
         /\ UNCHANGED <<saved, stored, tab, sheet, loaded, rows>>
    ELSE UNCHANGED savedVars

\* saveCurrArticle and removeCurrArticle, by the state of the button.
SaveArticle ==
  /\ page # {}
  /\ saved' = IF selected THEN saved \ page ELSE saved \cup page
  /\ stored' = SaveArticleDictionary(saved')
  /\ selected' = (\A a \in page : SetBookmarkColor(a, saved'))
  /\ UNCHANGED <<tab, page, sheet, loaded, rows>>

\* mutant: closing the page tells nobody
Silent == UNCHANGED <<saved, rows>>

\* reloadSavedArticles, once the saved page is there to observe it.
Reload == IF loaded THEN RenderList ELSE UNCHANGED <<saved, rows>>

\* exitArticle, and handlePan when the page was dragged far enough.
ExitArticle ==
  /\ page # {}
  /\ Reload
  /\ page' = {} /\ selected' = FALSE
  /\ UNCHANGED <<stored, tab, sheet, loaded>>

-----------------------------------------------------------------------------
(* The tab bar, the saved page and the settings *)

\* didPressTab; the saved page is drawn whenever it appears.
DidPressTab(t) ==
  /\ t # tab /\ tab' = t
  /\ IF t = "saved" THEN loaded' = TRUE /\ RenderList
                    ELSE UNCHANGED <<saved, loaded, rows>>
  /\ UNCHANGED <<stored, pageVars, sheet>>

\* resetPreferences asks first.
ResetPreferences ==
  /\ tab = "settings" /\ ~sheet /\ sheet' = TRUE
  /\ UNCHANGED <<saved, stored, tab, pageVars, loaded, rows>>

\* Its Ok and its Cancel.
ConfirmReset(ok) ==
  /\ sheet /\ sheet' = FALSE
  /\ IF ok THEN stored' = NoData /\ saved' = {} ELSE UNCHANGED <<stored, saved>>
  /\ UNCHANGED <<tab, pageVars, loaded, rows>>

-----------------------------------------------------------------------------
(* Properties *)

SavedTypeOK ==
  /\ saved \subseteq Article /\ rows \subseteq Article
  /\ stored \in [present : BOOLEAN, ids : SUBSET Article]
  /\ tab \in Tab
  /\ page \subseteq Article /\ \A a, b \in page : a = b
  /\ {selected, sheet, loaded} \subseteq BOOLEAN

\* The button of the open article page says whether its article is saved.
ButtonIsBookmark == \A a \in page : selected <=> a \in stored.ids

\* The saved page, when it is in front, lists exactly the stored articles,
\* however they were changed by article pages opened over it from wherever.
RowsAreStored == tab = "saved" /\ page = {} => rows = stored.ids
=============================================================================
