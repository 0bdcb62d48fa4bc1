-------------------------- MODULE IOSArticlesProofs --------------------------
(***************************************************************************)
(* Proofs about IOSArticles, the home page and the saved articles in one   *)
(* app, for every set of articles and branches and any number of fetches:  *)
(* the type invariant, that button and saved page agree with what is       *)
(* stored, and that the page features what its last fetch has brought.     *)
(***************************************************************************)
EXTENDS IOSArticles, SequenceTheorems, TLAPS

\* What is presented, and which page can have presented it.
OneSheet ==
  /\ ~(page # {} /\ popup) /\ ~(page # {} /\ sheet) /\ ~(popup /\ sheet)
  /\ sheet => tab = "settings"

\* Outside of a step the dictionary in memory is the one in UserDefaults, and a
\* saved page that has been shown is there to be told of changes.
MemoryIsStored ==
  /\ stored \in [present : BOOLEAN, ids : SUBSET Article]
  /\ ~stored.present => stored.ids = {}
  /\ alive => saved = stored.ids
  /\ tab = "saved" => loaded

\* A process that does not run has nothing in memory.
NothingWhenDown == ~alive => saved = {} /\ tab = "home" /\ Free

SavedInv ==
  /\ Saved!SavedTypeOK /\ OneSheet /\ MemoryIsStored /\ NothingWhenDown
  /\ ButtonIsBookmark /\ RowsAreStored

-----------------------------------------------------------------------------
(* The saved articles *)

\* The steps of the home page change nothing of the saved articles, and show an
\* alert only where there is room for it.
LEMMA SavedUnchanged ==
  ASSUME SavedInv, UNCHANGED <<alive, savedVars>>,
         popup' => popup \/ (alive /\ Free)
  PROVE  SavedInv'
<1>1. Saved!SavedTypeOK'
  BY DEF SavedInv, Saved!SavedTypeOK, savedVars
<1>2. MemoryIsStored' /\ ButtonIsBookmark' /\ RowsAreStored'
  BY DEF SavedInv, MemoryIsStored, ButtonIsBookmark, RowsAreStored,
         Saved!ButtonIsBookmark, Saved!RowsAreStored, savedVars
<1>3. OneSheet' /\ NothingWhenDown'
  BY DEF SavedInv, OneSheet, NothingWhenDown, Free, savedVars
<1> QED
  BY <1>1, <1>2, <1>3 DEF SavedInv

\* An article page is opened only with nothing presented, and starts with the
\* button that the stored dictionary asks for.
LEMMA SelectorInv ==
  ASSUME SavedInv, alive, NEW a \in Article, Saved!ArticleSelector(a, Free),
         alive' = alive, popup' => popup
  PROVE  SavedInv'
<1>1. CASE ~Free
  BY <1>1, SavedUnchanged
  DEF Saved!ArticleSelector, Saved!savedVars, Saved!pageVars, savedVars
<1>2. CASE Free
  <2>1. /\ page' = {a} /\ selected' = (a \in saved)
        /\ UNCHANGED <<saved, stored, tab, sheet, loaded, rows>>
    BY <1>2 DEF Saved!ArticleSelector, Saved!SetBookmarkColor
  <2>2. saved = stored.ids
    BY DEF SavedInv, MemoryIsStored
  <2>3. selected' \in BOOLEAN
    BY <2>1
  <2>4. Saved!SavedTypeOK'
    BY <2>1, <2>3 DEF SavedInv, Saved!SavedTypeOK
  <2>5. OneSheet' /\ MemoryIsStored' /\ NothingWhenDown'
    BY <1>2, <2>1 DEF SavedInv, OneSheet, MemoryIsStored, NothingWhenDown, Free
  <2>6. ButtonIsBookmark' /\ RowsAreStored'
    BY <2>1, <2>2
    DEF ButtonIsBookmark, RowsAreStored, Saved!ButtonIsBookmark,
        Saved!RowsAreStored
  <2> QED
    BY <2>4, <2>5, <2>6 DEF SavedInv
<1> QED
  BY <1>1, <1>2

\* Drawing the saved page reads what is in memory already.
LEMMA RenderReads ==
  ASSUME SavedInv, alive, Saved!RenderList
  PROVE  saved' = stored.ids /\ rows' = stored.ids
BY DEF SavedInv, MemoryIsStored, Saved!RenderList, Saved!Dictionary

\* With an article page, a sheet, or a page to choose, the app runs.
LEMMA ShownMeansAlive ==
  ASSUME SavedInv PROVE page # {} \/ sheet => alive
BY DEF SavedInv, NothingWhenDown, Free

LEMMA SaveArticleInv ==
  ASSUME SavedInv, Saved!SaveArticle, alive' = alive, popup' = popup
  PROVE  SavedInv'
<1>1. /\ alive /\ page # {} /\ saved = stored.ids
      /\ saved \subseteq Article /\ page \subseteq Article
  BY ShownMeansAlive
  DEF Saved!SaveArticle, SavedInv, MemoryIsStored, Saved!SavedTypeOK
<1>2. /\ saved' \subseteq Article
      /\ stored' = [present |-> TRUE, ids |-> saved']
      /\ UNCHANGED <<tab, page, sheet, loaded, rows>>
  BY <1>1 DEF Saved!SaveArticle, Saved!SaveArticleDictionary
<1>3. selected' = (\A a \in page : a \in saved')
  BY DEF Saved!SaveArticle, Saved!SetBookmarkColor
<1>4. selected' \in BOOLEAN
  BY <1>3
<1>5. Saved!SavedTypeOK'
  BY <1>2, <1>4 DEF SavedInv, Saved!SavedTypeOK
<1>6. OneSheet' /\ MemoryIsStored' /\ NothingWhenDown'
  BY <1>1, <1>2 DEF SavedInv, OneSheet, MemoryIsStored, NothingWhenDown
<1>7. ButtonIsBookmark'
  <2>1. \A a, b \in page : a = b
    BY DEF SavedInv, Saved!SavedTypeOK
  <2> QED
    BY <1>2, <1>3, <2>1 DEF ButtonIsBookmark, Saved!ButtonIsBookmark
<1>8. RowsAreStored'
  BY <1>1, <1>2 DEF RowsAreStored, Saved!RowsAreStored
<1> QED
  BY <1>5, <1>6, <1>7, <1>8 DEF SavedInv

\* Closing the article page has the saved page drawn anew, if it is there.
LEMMA ExitArticleInv ==
  ASSUME SavedInv, Saved!ExitArticle, alive' = alive, popup' = popup
  PROVE  SavedInv'
<1>1. alive /\ page # {} /\ saved = stored.ids
  BY ShownMeansAlive DEF Saved!ExitArticle, SavedInv, MemoryIsStored
<1>2. /\ page' = {} /\ selected' = FALSE
      /\ UNCHANGED <<stored, tab, sheet, loaded>>
  BY DEF Saved!ExitArticle
<1>3. /\ saved' = stored.ids
      /\ rows' \in {rows, stored.ids} /\ (loaded => rows' = stored.ids)
  <2>1. CASE loaded
    BY <1>1, <2>1, RenderReads DEF Saved!ExitArticle, Saved!Reload
  <2>2. CASE ~loaded
    BY <1>1, <2>2 DEF Saved!ExitArticle, Saved!Reload
  <2> QED
    BY <2>1, <2>2
<1>4. Saved!SavedTypeOK'
  BY <1>1, <1>2, <1>3 DEF SavedInv, Saved!SavedTypeOK
<1>5. OneSheet' /\ MemoryIsStored' /\ NothingWhenDown'
  BY <1>1, <1>2, <1>3 DEF SavedInv, OneSheet, MemoryIsStored, NothingWhenDown
<1>6. ButtonIsBookmark' /\ RowsAreStored'
  BY <1>2, <1>3
  DEF SavedInv, MemoryIsStored, ButtonIsBookmark, RowsAreStored,
      Saved!ButtonIsBookmark, Saved!RowsAreStored
<1> QED
  BY <1>4, <1>5, <1>6 DEF SavedInv

LEMMA DidPressTabInv ==
  ASSUME SavedInv, alive, Free, NEW t \in Saved!Tab, Saved!DidPressTab(t),
         alive' = alive, popup' = popup
  PROVE  SavedInv'
<1>1. /\ page = {} /\ ~sheet /\ ~popup /\ saved = stored.ids
      /\ tab' = t /\ UNCHANGED <<stored, page, selected, sheet>>
  BY DEF Free, SavedInv, MemoryIsStored, Saved!DidPressTab, Saved!pageVars
<1>2. /\ saved' = stored.ids
      /\ rows' \in {rows, stored.ids}
      /\ t = "saved" => loaded' /\ rows' = stored.ids
      /\ loaded' \in BOOLEAN
  <2>1. CASE t = "saved"
    BY <2>1, RenderReads DEF Saved!DidPressTab
  <2>2. CASE t # "saved"
    BY <1>1, <2>2 DEF Saved!DidPressTab, SavedInv, Saved!SavedTypeOK
  <2> QED
    BY <2>1, <2>2
<1>3. Saved!SavedTypeOK'
  BY <1>1, <1>2 DEF SavedInv, Saved!SavedTypeOK
<1>4. OneSheet' /\ MemoryIsStored' /\ NothingWhenDown'
  BY <1>1, <1>2 DEF SavedInv, OneSheet, MemoryIsStored, NothingWhenDown
<1>5. ButtonIsBookmark' /\ RowsAreStored'
  BY <1>1, <1>2
  DEF ButtonIsBookmark, RowsAreStored, Saved!ButtonIsBookmark,
      Saved!RowsAreStored
<1> QED
  BY <1>3, <1>4, <1>5 DEF SavedInv

\* The question of the reset, and its answer, with no article page in the way.
LEMMA ResetInv ==
  ASSUME SavedInv, alive' = alive, popup' = popup,
         \/ alive /\ Free /\ Saved!ResetPreferences
         \/ \E ok \in BOOLEAN : Saved!ConfirmReset(ok)
  PROVE  SavedInv'
<1>1. CASE alive /\ Free /\ Saved!ResetPreferences
  <2>1. /\ page = {} /\ ~popup /\ tab = "settings" /\ sheet' = TRUE
        /\ UNCHANGED <<saved, stored, tab, page, selected, loaded, rows>>
    BY <1>1 DEF Free, Saved!ResetPreferences, Saved!pageVars
  <2>2. Saved!SavedTypeOK'
    BY <2>1 DEF SavedInv, Saved!SavedTypeOK
  <2>3. OneSheet' /\ MemoryIsStored' /\ NothingWhenDown'
    BY <1>1, <2>1 DEF SavedInv, OneSheet, MemoryIsStored, NothingWhenDown
  <2>4. ButtonIsBookmark' /\ RowsAreStored'
    BY <2>1
    DEF SavedInv, ButtonIsBookmark, RowsAreStored, Saved!ButtonIsBookmark,
        Saved!RowsAreStored
  <2> QED
    BY <2>2, <2>3, <2>4 DEF SavedInv
<1>2. ASSUME NEW ok \in BOOLEAN, Saved!ConfirmReset(ok) PROVE SavedInv'
  <2>1. /\ alive /\ tab = "settings" /\ page = {} /\ sheet' = FALSE
        /\ UNCHANGED <<tab, page, selected, loaded, rows>>
        /\ saved = stored.ids
    BY <1>2, ShownMeansAlive
    DEF SavedInv, OneSheet, MemoryIsStored, Saved!ConfirmReset, Saved!pageVars
  <2>2. /\ saved' \in {saved, {}} /\ saved' = stored'.ids
        /\ stored' \in [present : BOOLEAN, ids : SUBSET Article]
        /\ ~stored'.present => stored'.ids = {}
    <3>1. CASE ok
      <4>1. stored' = [present |-> FALSE, ids |-> {}] /\ saved' = {}
        BY <1>2, <3>1 DEF Saved!ConfirmReset, Saved!NoData
      <4> QED
        BY <4>1
    <3>2. CASE ~ok
      BY <1>2, <2>1, <3>2 DEF Saved!ConfirmReset, SavedInv, MemoryIsStored
    <3> QED
      BY <3>1, <3>2
  <2>3. Saved!SavedTypeOK'
    BY <2>1, <2>2 DEF SavedInv, Saved!SavedTypeOK
  <2>4. OneSheet' /\ MemoryIsStored' /\ NothingWhenDown'
    BY <2>1, <2>2 DEF SavedInv, OneSheet, MemoryIsStored, NothingWhenDown
  <2>5. ButtonIsBookmark' /\ RowsAreStored'
    BY <2>1
    DEF ButtonIsBookmark, RowsAreStored, Saved!ButtonIsBookmark,
        Saved!RowsAreStored
  <2> QED
    BY <2>3, <2>4, <2>5 DEF SavedInv
<1> QED
  BY <1>1, <1>2

\* The tab bar reads what is stored; with nothing stored there is nothing in
\* memory either.
LEMMA LaunchSavedInv ==
  ASSUME SavedInv, ~alive, alive' = TRUE, Saved!GetArticleDictionary,
         popup' = popup
  PROVE  SavedInv'
<1>1. /\ saved' = stored.ids /\ page = {} /\ tab = "home"
      /\ UNCHANGED <<stored, tab, page, selected, sheet, loaded, rows>>
  BY DEF SavedInv, MemoryIsStored, NothingWhenDown, Free,
         Saved!GetArticleDictionary, Saved!Dictionary, Saved!pageVars
<1>2. Saved!SavedTypeOK'
  BY <1>1 DEF SavedInv, Saved!SavedTypeOK
<1>3. OneSheet' /\ MemoryIsStored' /\ NothingWhenDown'
  BY <1>1 DEF SavedInv, OneSheet, MemoryIsStored, NothingWhenDown
<1>4. ButtonIsBookmark' /\ RowsAreStored'
  BY <1>1
  DEF ButtonIsBookmark, RowsAreStored, Saved!ButtonIsBookmark,
      Saved!RowsAreStored
<1> QED
  BY <1>2, <1>3, <1>4 DEF SavedInv

LEMMA KillSavedInv ==
  ASSUME SavedInv, alive' = FALSE, Saved!ForgetApp, popup' = FALSE
  PROVE  SavedInv'
<1>1. /\ saved' = {} /\ tab' = "home" /\ page' = {} /\ selected' = FALSE
      /\ sheet' = FALSE /\ loaded' = FALSE /\ rows' = {} /\ stored' = stored
  BY DEF Saved!ForgetApp
<1>2. Saved!SavedTypeOK'
  BY <1>1 DEF SavedInv, Saved!SavedTypeOK, Saved!Tab
<1>3. OneSheet' /\ MemoryIsStored' /\ NothingWhenDown'
  BY <1>1 DEF SavedInv, OneSheet, MemoryIsStored, NothingWhenDown, Free
<1>4. ButtonIsBookmark' /\ RowsAreStored'
  BY <1>1
  DEF ButtonIsBookmark, RowsAreStored, Saved!ButtonIsBookmark,
      Saved!RowsAreStored
<1> QED
  BY <1>2, <1>3, <1>4 DEF SavedInv

-----------------------------------------------------------------------------
(* The home page *)

\* Only a running app has asked for anything.
NothingAsked == ~alive => asked = Home!Nobody

\* While the page's fetch is the only one of its own, it waits for a branch once
\* at most, has nothing of a branch it still waits for, counts an article as
\* featured exactly if it has come, and has drawn that since the first answer.
FetchCounts ==
  ~overlapped =>
    /\ \A b \in Branch : \A j, k \in DOMAIN asked[b] :
         asked[b][j] = "home" /\ asked[b][k] = "home" => j = k
    /\ \A a \in brought : ~Home!Awaits(BranchOf[a])
    /\ featured = [a \in Featured |-> IF a \in brought THEN 1 ELSE 0]
    /\ (\E b \in Branch : ~Home!Awaits(b)) => shown = featured

HomeInv == Home!HomeTypeOK /\ NothingAsked /\ FetchCounts

\* The steps of the saved articles change nothing of the home page.
LEMMA HomeUnchanged ==
  ASSUME HomeInv, UNCHANGED <<alive, homeVars>> PROVE HomeInv'
BY DEF HomeInv, Home!HomeTypeOK, NothingAsked, FetchCounts, Home!Awaits,
       Home!Nobody, homeVars

\* One more fetch is asked of every branch, by the page or for an article.
LEMMA AskType ==
  ASSUME HomeInv, NEW who \in {"home"} \cup Article, Home!Ask(who)
  PROVE  /\ asked' \in [Branch -> Seq({"home"} \cup Article)]
         /\ \A b \in Branch :
              /\ DOMAIN asked[b] = 1 .. Len(asked[b])
              /\ DOMAIN asked'[b] = 1 .. Len(asked[b]) + 1
              /\ Len(asked[b]) \in Nat
              /\ asked'[b][Len(asked[b]) + 1] = who
              /\ \A k \in 1 .. Len(asked[b]) : asked'[b][k] = asked[b][k]
<1>1. asked \in [Branch -> Seq({"home"} \cup Article)]
  BY DEF HomeInv, Home!HomeTypeOK
<1>2. \A b \in Branch : asked'[b] = Append(asked[b], who)
  BY DEF Home!Ask
<1>3. ASSUME NEW b \in Branch PROVE asked'[b] \in Seq({"home"} \cup Article)
  <2>1. asked[b] \in Seq({"home"} \cup Article)
    BY <1>1
  <2> QED
    BY <1>2, <2>1, AppendProperties
<1>4. asked' \in [Branch -> Seq({"home"} \cup Article)]
  BY <1>1, <1>3 DEF Home!Ask
<1>5. ASSUME NEW b \in Branch
      PROVE  /\ DOMAIN asked[b] = 1 .. Len(asked[b])
             /\ DOMAIN asked'[b] = 1 .. Len(asked[b]) + 1
             /\ Len(asked[b]) \in Nat
             /\ asked'[b][Len(asked[b]) + 1] = who
             /\ \A k \in 1 .. Len(asked[b]) : asked'[b][k] = asked[b][k]
  <2>1. asked[b] \in Seq({"home"} \cup Article)
    BY <1>1
  <2>2. asked'[b] = Append(asked[b], who)
    BY <1>2
  <2> QED
    BY <2>1, <2>2, AppendProperties
<1> QED
  BY <1>4, <1>5

\* The page's fetch starts from nothing; that it is not overlapped means that
\* no branch was still out for an older one.
LEMMA GetHomepageDataInv ==
  ASSUME HomeInv, NEW connected \in BOOLEAN, Home!GetHomepageData(connected),
         alive', refreshing' \in BOOLEAN, popup' \in BOOLEAN,
         UNCHANGED <<server, shown, sections>>
  PROVE  HomeInv'
<1>1. CASE ~connected
  <2>1. UNCHANGED <<server, asked, list, featured, shown, sections, brought,
                    overlapped>>
    BY <1>1 DEF Home!GetHomepageData, Home!FeaturedAtFetch
  <2> QED
    BY <2>1 DEF HomeInv, Home!HomeTypeOK, NothingAsked, FetchCounts,
                Home!Awaits
<1>2. CASE connected
  <2>1. /\ featured' = [a \in Featured |-> 0] /\ list' = Home!NoList
        /\ Home!Ask("home") /\ brought' = {}
        /\ overlapped' = (\E b \in Branch : Home!Awaits(b))
    BY <1>2 DEF Home!GetHomepageData, Home!FeaturedAtFetch, Home!NoneFeatured
  <2>2. overlapped' \in BOOLEAN
    BY <2>1
  <2>3. featured' \in [Featured -> Nat] /\ list' \in [Branch -> SUBSET Article]
    BY <2>1 DEF Home!NoList
  <2>4. Home!HomeTypeOK'
    BY <2>1, <2>2, <2>3, AskType DEF HomeInv, Home!HomeTypeOK
  <2>5. ASSUME ~overlapped' PROVE /\ \A b \in Branch : Home!Awaits(b)'
                                  /\ \A b \in Branch : \A j, k \in DOMAIN asked'[b] :
                                       asked'[b][j] = "home" /\ asked'[b][k] = "home"
                                         => j = k
    <3>1. \A b \in Branch : \A k \in DOMAIN asked[b] : asked[b][k] # "home"
      BY <2>1, <2>5 DEF Home!Awaits
    <3>2. \A b \in Branch : /\ DOMAIN asked[b] = 1 .. Len(asked[b])
                            /\ DOMAIN asked'[b] = 1 .. Len(asked[b]) + 1
                            /\ Len(asked[b]) \in Nat
      BY <2>1, AskType
    <3>3. \A b \in Branch : /\ asked'[b][Len(asked[b]) + 1] = "home"
                            /\ \A k \in 1 .. Len(asked[b]) :
                                 asked'[b][k] = asked[b][k]
      BY <2>1, AskType
    <3>4. \A b \in Branch : Home!Awaits(b)'
      BY <3>2, <3>3 DEF Home!Awaits
    <3>5. \A b \in Branch : \A k \in DOMAIN asked'[b] :
            asked'[b][k] = "home" => k = Len(asked[b]) + 1
      BY <3>1, <3>2, <3>3
    <3> QED
      BY <3>4, <3>5
  <2>6. FetchCounts'
    BY <2>1, <2>5 DEF FetchCounts
  <2> QED
    BY <2>4, <2>6 DEF HomeInv, NothingAsked
<1> QED
  BY <1>1, <1>2

\* The fetch of a push waits in the same queues and is not the page's.
LEMMA LoadAllArticlesInv ==
  ASSUME HomeInv, alive, alive' = alive, NEW a \in Article,
         NEW connected \in BOOLEAN, Home!LoadAllArticles(a, connected)
  PROVE  HomeInv'
<1>1. UNCHANGED <<server, featured, shown, sections, refreshing, popup, brought,
                  overlapped>>
  BY DEF Home!LoadAllArticles, Home!pageVars
<1>2. CASE ~connected
  <2>1. UNCHANGED <<asked, list>>
    BY <1>2 DEF Home!LoadAllArticles
  <2> QED
    BY <1>1, <2>1, HomeUnchanged DEF homeVars
<1>3. CASE connected
  <2>1. list' = Home!NoList /\ Home!Ask(a)
    BY <1>3 DEF Home!LoadAllArticles
  <2>2. list' \in [Branch -> SUBSET Article]
    BY <2>1 DEF Home!NoList
  <2>3. Home!HomeTypeOK'
    BY <1>1, <2>1, <2>2, AskType DEF HomeInv, Home!HomeTypeOK
  <2>4. \A b \in Branch : /\ DOMAIN asked[b] = 1 .. Len(asked[b])
                          /\ DOMAIN asked'[b] = 1 .. Len(asked[b]) + 1
                          /\ Len(asked[b]) \in Nat
    BY <2>1, AskType
  <2>5. \A b \in Branch : /\ asked'[b][Len(asked[b]) + 1] # "home"
                          /\ \A k \in 1 .. Len(asked[b]) :
                               asked'[b][k] = asked[b][k]
    <3>1. a # "home"
      BY HomeAssumption
    <3> QED
      BY <2>1, <3>1, AskType
  <2>6. \A b \in Branch : \A k \in DOMAIN asked'[b] :
          asked'[b][k] = "home" => k \in DOMAIN asked[b] /\ asked[b][k] = "home"
    BY <2>4, <2>5
  <2>7. \A b \in Branch : Home!Awaits(b)' <=> Home!Awaits(b)
    BY <2>4, <2>5, <2>6 DEF Home!Awaits
  <2>8. brought \subseteq Article
    BY DEF HomeInv, Home!HomeTypeOK
  <2>9. FetchCounts'
    BY <1>1, <2>6, <2>7, <2>8, BranchAssumption DEF HomeInv, FetchCounts
  <2> QED
    BY <2>3, <2>9 DEF HomeInv, NothingAsked
<1> QED
  BY <1>2, <1>3

\* The queue of a branch after an answer: the same without its first entry.
LEMMA AnswerQueue ==
  ASSUME HomeInv, NEW b \in Branch, Home!Answer(b)
  PROVE  /\ Head(asked[b]) = asked[b][1] /\ 1 \in DOMAIN asked[b]
         /\ asked' \in [Branch -> Seq({"home"} \cup Article)]
         /\ \A c \in Branch : c # b => asked'[c] = asked[c]
         /\ \A k \in DOMAIN asked'[b] : /\ k + 1 \in DOMAIN asked[b] /\ k + 1 # 1
                                        /\ asked'[b][k] = asked[b][k + 1]
                                        /\ k \in Nat
         /\ \A k \in DOMAIN asked[b] : k # 1 =>
              \E j \in DOMAIN asked'[b] : asked'[b][j] = asked[b][k]
<1>1. asked \in [Branch -> Seq({"home"} \cup Article)]
  BY DEF HomeInv, Home!HomeTypeOK
<1>2. asked[b] \in Seq({"home"} \cup Article) /\ asked[b] # <<>>
  BY <1>1 DEF Home!Answer
<1>3. asked' = [asked EXCEPT ![b] = Tail(asked[b])]
  BY DEF Home!Answer
<1>4. asked'[b] = Tail(asked[b]) /\ \A c \in Branch : c # b => asked'[c] = asked[c]
  BY <1>1, <1>3
<1>5. Tail(asked[b]) \in Seq({"home"} \cup Article)
  BY <1>2, HeadTailProperties
<1>6. asked' \in [Branch -> Seq({"home"} \cup Article)]
  BY <1>1, <1>3, <1>5
<1>7. /\ Len(Tail(asked[b])) = Len(asked[b]) - 1
      /\ \A k \in 1 .. Len(Tail(asked[b])) : Tail(asked[b])[k] = asked[b][k + 1]
      /\ Len(asked[b]) \in Nat /\ Len(asked[b]) > 0
      /\ DOMAIN asked[b] = 1 .. Len(asked[b])
      /\ DOMAIN Tail(asked[b]) = 1 .. Len(Tail(asked[b]))
      /\ Head(asked[b]) = asked[b][1]
  BY <1>2, <1>5, HeadTailProperties
<1>8. \A k \in DOMAIN asked[b] : k # 1 =>
        \E j \in DOMAIN asked'[b] : asked'[b][j] = asked[b][k]
  <2> SUFFICES ASSUME NEW k \in DOMAIN asked[b], k # 1
               PROVE  \E j \in DOMAIN asked'[b] : asked'[b][j] = asked[b][k]
    OBVIOUS
  <2>1. k - 1 \in DOMAIN asked'[b] /\ asked'[b][k - 1] = asked[b][k]
    BY <1>4, <1>7
  <2> QED
    BY <2>1
<1> QED
  BY <1>4, <1>6, <1>7, <1>8

\* An answer to the page brings a branch that it no longer waits for.
LEMMA AnswerHomeInv ==
  ASSUME HomeInv, NEW b \in Branch, Home!Answer(b), alive' = alive
  PROVE  HomeInv'
<1> DEFINE here == Home!Published(b)
<1>1. /\ server \subseteq Article /\ brought \subseteq Article
      /\ asked \in [Branch -> Seq({"home"} \cup Article)]
      /\ {list, sections} \subseteq [Branch -> SUBSET Article]
      /\ {featured, shown} \subseteq [Featured -> Nat]
      /\ {refreshing, popup, overlapped} \subseteq BOOLEAN
  BY DEF HomeInv, Home!HomeTypeOK
<1>2. here \subseteq Article /\ \A a \in here : BranchOf[a] = b
  BY <1>1 DEF Home!Published
<1>3. UNCHANGED <<server, popup, overlapped>>
  BY DEF Home!Answer
<1>4. list' \in [Branch -> SUBSET Article]
  BY <1>1, <1>2 DEF Home!Answer
<1>5. alive
  <2>1. asked[b] # <<>>
    BY DEF Home!Answer
  <2> QED
    BY <2>1 DEF HomeInv, NothingAsked, Home!Nobody
<1>6. CASE Head(asked[b]) = "home"
  <2>1. /\ featured' = [a \in Featured |-> featured[a] + (IF a \in here THEN 1 ELSE 0)]
        /\ sections' = (IF list'[b] = {} THEN sections
                                         ELSE [sections EXCEPT ![b] = list'[b]])
        /\ shown' = featured' /\ refreshing' = FALSE
        /\ brought' = brought \cup here
    BY <1>6 DEF Home!Answer, Home!AppendFeatured, Home!SetUpSection,
                Home!SetUpFeatured
  <2>2. featured' \in [Featured -> Nat] /\ sections' \in [Branch -> SUBSET Article]
    BY <1>1, <1>4, <2>1
  <2>3. Home!HomeTypeOK'
    BY <1>1, <1>2, <1>3, <1>4, <2>1, <2>2, AnswerQueue DEF Home!HomeTypeOK
  <2>4. ASSUME ~overlapped PROVE FetchCounts'
    <3>1. /\ \A c \in Branch : \A j, k \in DOMAIN asked[c] :
               asked[c][j] = "home" /\ asked[c][k] = "home" => j = k
          /\ \A a \in brought : ~Home!Awaits(BranchOf[a])
          /\ featured = [a \in Featured |-> IF a \in brought THEN 1 ELSE 0]
      BY <2>4 DEF HomeInv, FetchCounts
    <3>2. Home!Awaits(b)
      BY <1>6, AnswerQueue DEF Home!Awaits
    <3>3. \A k \in DOMAIN asked'[b] : asked'[b][k] # "home"
      BY <1>6, <3>1, AnswerQueue
    <3>4. ~Home!Awaits(b)'
      BY <3>3 DEF Home!Awaits
    <3>5. \A c \in Branch : c # b => (Home!Awaits(c)' <=> Home!Awaits(c))
      BY AnswerQueue DEF Home!Awaits
    <3>6. \A c \in Branch : \A j, k \in DOMAIN asked'[c] :
            asked'[c][j] = "home" /\ asked'[c][k] = "home" => j = k
      <4> SUFFICES ASSUME NEW c \in Branch
                   PROVE  \A j, k \in DOMAIN asked'[c] :
                            asked'[c][j] = "home" /\ asked'[c][k] = "home" => j = k
        OBVIOUS
      <4>1. CASE c = b
        BY <3>3, <4>1
      <4>2. CASE c # b
        BY <3>1, <4>2, AnswerQueue
      <4> QED
        BY <4>1, <4>2
    <3>7. \A a \in brought' : ~Home!Awaits(BranchOf[a])'
      <4> SUFFICES ASSUME NEW a \in brought' PROVE ~Home!Awaits(BranchOf[a])'
        OBVIOUS
      <4>1. CASE a \in here
        BY <1>2, <3>4, <4>1
      <4>2. CASE a \in brought
        <5>1. BranchOf[a] \in Branch
          BY <1>1, <4>2, BranchAssumption
        <5> QED
          BY <3>1, <3>4, <3>5, <4>2, <5>1
      <4> QED
        BY <2>1, <4>1, <4>2
    <3>8. here \cap brought = {}
      BY <1>2, <3>1, <3>2
    <3>9. featured' = [a \in Featured |-> IF a \in brought' THEN 1 ELSE 0]
      BY <2>1, <3>1, <3>8
    <3> QED
      BY <2>1, <3>6, <3>7, <3>9 DEF FetchCounts
  <2>5. FetchCounts'
    BY <1>3, <2>4 DEF FetchCounts
  <2> QED
    BY <1>5, <2>3, <2>5 DEF HomeInv, NothingAsked
<1>7. CASE Head(asked[b]) # "home"
  <2>1. UNCHANGED <<featured, sections, shown, refreshing, brought>>
    BY <1>7 DEF Home!Answer
  <2>2. Home!HomeTypeOK'
    BY <1>1, <1>3, <1>4, <2>1, AnswerQueue DEF Home!HomeTypeOK
  <2>3. \A c \in Branch : Home!Awaits(c)' <=> Home!Awaits(c)
    <3> SUFFICES ASSUME NEW c \in Branch
                 PROVE  Home!Awaits(c)' <=> Home!Awaits(c)
      OBVIOUS
    <3>1. CASE c # b
      BY <3>1, AnswerQueue DEF Home!Awaits
    <3>2. CASE c = b
      <4>1. ASSUME Home!Awaits(b) PROVE Home!Awaits(b)'
        <5>1. PICK k \in DOMAIN asked[b] : asked[b][k] = "home"
          BY <4>1 DEF Home!Awaits
        <5>2. k # 1
          BY <1>7, <5>1, AnswerQueue
        <5> QED
          BY <5>1, <5>2, AnswerQueue DEF Home!Awaits
      <4>2. ASSUME Home!Awaits(b)' PROVE Home!Awaits(b)
        <5>1. PICK k \in DOMAIN asked'[b] : asked'[b][k] = "home"
          BY <4>2 DEF Home!Awaits
        <5> QED
          BY <5>1, AnswerQueue DEF Home!Awaits
      <4> QED
        BY <3>2, <4>1, <4>2
    <3> QED
      BY <3>1, <3>2
  <2>4. ASSUME ~overlapped
        PROVE  \A c \in Branch : \A j, k \in DOMAIN asked'[c] :
                 asked'[c][j] = "home" /\ asked'[c][k] = "home" => j = k
    <3> SUFFICES ASSUME NEW c \in Branch, NEW j \in DOMAIN asked'[c],
                        NEW k \in DOMAIN asked'[c],
                        asked'[c][j] = "home", asked'[c][k] = "home"
                 PROVE  j = k
      OBVIOUS
    <3>1. \A i, m \in DOMAIN asked[c] :
            asked[c][i] = "home" /\ asked[c][m] = "home" => i = m
      BY <2>4 DEF HomeInv, FetchCounts
    <3>2. CASE c # b
      BY <3>1, <3>2, AnswerQueue
    <3>3. CASE c = b
      <4>1. /\ j + 1 \in DOMAIN asked[b] /\ asked[b][j + 1] = "home" /\ j \in Nat
            /\ k + 1 \in DOMAIN asked[b] /\ asked[b][k + 1] = "home" /\ k \in Nat
        BY <3>3, AnswerQueue
      <4>2. j + 1 = k + 1
        BY <3>1, <3>3, <4>1
      <4> QED
        BY <4>1, <4>2
    <3> QED
      BY <3>2, <3>3
  <2>5. FetchCounts'
    BY <1>1, <1>3, <2>1, <2>3, <2>4, BranchAssumption DEF HomeInv, FetchCounts
  <2> QED
    BY <1>5, <2>2, <2>5 DEF HomeInv, NothingAsked
<1> QED
  BY <1>6, <1>7

LEMMA HomeStepInv ==
  ASSUME SavedInv, HomeInv, HomeStep PROVE SavedInv' /\ HomeInv'
<1>1. UNCHANGED <<alive, savedVars>>
  BY DEF HomeStep
<1>2. CASE \E S \in SUBSET Article : Home!Publish(S)
  <2>1. server' \subseteq Article /\ popup' = popup
        /\ UNCHANGED <<asked, list, featured, shown, sections, refreshing, popup,
                       brought, overlapped>>
    BY <1>2 DEF Home!Publish, Home!pageVars
  <2>2. HomeInv'
    BY <1>1, <2>1 DEF HomeInv, Home!HomeTypeOK, NothingAsked, FetchCounts,
                      Home!Awaits, Home!Nobody
  <2> QED
    BY <1>1, <2>1, <2>2, SavedUnchanged
<1>3. CASE Home!DismissPopup
  <2>1. /\ popup' = FALSE /\ refreshing' = FALSE
        /\ UNCHANGED <<server, asked, list, featured, shown, sections, brought,
                       overlapped>>
    BY <1>3 DEF Home!DismissPopup
  <2>2. HomeInv'
    BY <1>1, <2>1 DEF HomeInv, Home!HomeTypeOK, NothingAsked, FetchCounts,
                      Home!Awaits, Home!Nobody
  <2> QED
    BY <1>1, <2>1, <2>2, SavedUnchanged
<1>4. ASSUME alive, Free, NEW connected \in BOOLEAN,
             Home!RefreshAllArticles(connected)
      PROVE  SavedInv' /\ HomeInv'
  <2>1. /\ popup' = ~connected /\ refreshing' = TRUE
        /\ Home!GetHomepageData(connected)
        /\ UNCHANGED <<server, shown, sections>>
    BY <1>4 DEF Home!RefreshAllArticles
  <2>2. popup' \in BOOLEAN
    BY <2>1
  <2>3. alive'
    BY <1>1, <1>4
  <2> QED
    BY <1>1, <1>4, <2>1, <2>2, <2>3, SavedUnchanged, GetHomepageDataInv
<1> QED
  BY <1>2, <1>3, <1>4 DEF HomeStep

LEMMA SavedStepInv ==
  ASSUME SavedInv, HomeInv, SavedStep PROVE SavedInv' /\ HomeInv'
<1>1. UNCHANGED <<alive, homeVars>> /\ popup' = popup
  BY DEF SavedStep, homeVars
<1>2. HomeInv'
  BY <1>1, HomeUnchanged
<1>3. CASE Saved!SaveArticle
  BY <1>1, <1>2, <1>3, SaveArticleInv
<1>4. CASE Saved!ExitArticle
  BY <1>1, <1>2, <1>4, ExitArticleInv
<1>5. CASE alive /\ Free /\ \E t \in Saved!Tab : Saved!DidPressTab(t)
  BY <1>1, <1>2, <1>5, DidPressTabInv
<1>6. CASE \/ alive /\ Free /\ Saved!ResetPreferences
           \/ \E ok \in BOOLEAN : Saved!ConfirmReset(ok)
  BY <1>1, <1>2, <1>6, ResetInv
<1> QED
  BY <1>3, <1>4, <1>5, <1>6 DEF SavedStep

-----------------------------------------------------------------------------
(* Both in one app *)

Inv == alive \in BOOLEAN /\ SavedInv /\ HomeInv

\* The page of a process that has not asked for anything yet.
LEMMA NewPageInv == Home!NewPage /\ server \subseteq Article => HomeInv
<1> SUFFICES ASSUME Home!NewPage, server \subseteq Article PROVE HomeInv
  OBVIOUS
<1>1. /\ asked = [b \in Branch |-> <<>>]
      /\ list = [b \in Branch |-> {}] /\ sections = [b \in Branch |-> {}]
      /\ featured = [a \in Featured |-> 0] /\ shown = [a \in Featured |-> 0]
      /\ refreshing = FALSE /\ popup = FALSE
      /\ brought = {} /\ overlapped = FALSE
  BY DEF Home!NewPage, Home!Nobody, Home!NoList, Home!NoneFeatured
<1>2. asked \in [Branch -> Seq({"home"} \cup Article)]
  BY <1>1, EmptySeq
<1>3. Home!HomeTypeOK
  <2>1. {refreshing, popup, overlapped} \subseteq BOOLEAN
    BY <1>1
  <2>2. {list, sections} \subseteq [Branch -> SUBSET Article]
    BY <1>1
  <2>3. {featured, shown} \subseteq [Featured -> Nat]
    BY <1>1
  <2> QED
    BY <1>1, <1>2, <2>1, <2>2, <2>3 DEF Home!HomeTypeOK
<1>4. NothingAsked
  BY <1>1 DEF NothingAsked, Home!Nobody
<1>5. FetchCounts
  BY <1>1 DEF FetchCounts
<1> QED
  BY <1>3, <1>4, <1>5 DEF HomeInv

LEMMA InitInv == ASSUME Init PROVE Inv
<1>1. SavedInv
  <2>1. /\ alive = FALSE /\ saved = {} /\ tab = "home" /\ page = {}
        /\ selected = FALSE /\ sheet = FALSE /\ loaded = FALSE /\ rows = {}
        /\ stored = [present |-> FALSE, ids |-> {}] /\ popup = FALSE
    BY DEF Init, Saved!NewApp, Saved!NoData, Home!NewPage
  <2>2. Saved!SavedTypeOK
    BY <2>1 DEF Saved!SavedTypeOK, Saved!Tab
  <2>3. OneSheet /\ MemoryIsStored /\ NothingWhenDown
    BY <2>1 DEF OneSheet, MemoryIsStored, NothingWhenDown, Free
  <2>4. ButtonIsBookmark /\ RowsAreStored
    BY <2>1 DEF ButtonIsBookmark, RowsAreStored, Saved!ButtonIsBookmark,
                Saved!RowsAreStored
  <2> QED
    BY <2>2, <2>3, <2>4 DEF SavedInv
<1>2. HomeInv
  <2>1. Home!NewPage /\ server \subseteq Article
    BY DEF Init
  <2> QED
    BY <2>1, NewPageInv
<1> QED
  BY <1>1, <1>2 DEF Inv, Init

\* A new process and the end of one.
LEMMA ProcessInv ==
  ASSUME Inv, Kill \/ \E connected \in BOOLEAN : Launch(connected)
  PROVE  Inv'
<1>1. ASSUME NEW connected \in BOOLEAN, Launch(connected) PROVE Inv'
  <2>1. /\ ~alive /\ alive' = TRUE /\ popup' = popup /\ refreshing' = refreshing
        /\ Saved!GetArticleDictionary /\ Home!GetHomepageData(connected)
        /\ UNCHANGED <<server, shown, sections>>
    BY <1>1 DEF Launch, Home!ViewDidLoad
  <2>2. refreshing' \in BOOLEAN /\ popup' \in BOOLEAN
    BY <2>1 DEF Inv, HomeInv, Home!HomeTypeOK
  <2>3. SavedInv'
    BY <2>1, LaunchSavedInv DEF Inv
  <2>4. HomeInv'
    BY <2>1, <2>2, GetHomepageDataInv DEF Inv
  <2> QED
    BY <2>1, <2>3, <2>4 DEF Inv
<1>2. CASE Kill
  <2>1. alive' = FALSE /\ Saved!ForgetApp /\ Home!ForgetPage /\ popup' = FALSE
    BY <1>2 DEF Kill, Home!ForgetPage
  <2>2. SavedInv'
    BY <2>1, KillSavedInv DEF Inv
  <2>3. server' \subseteq Article
    BY <2>1 DEF Home!ForgetPage, Inv, HomeInv, Home!HomeTypeOK
  <2>4. Home!NewPage'
    BY <2>1 DEF Home!ForgetPage, Home!NewPage, Home!Nobody, Home!NoList,
                Home!NoneFeatured
  <2>5. (Home!NewPage /\ server \subseteq Article => HomeInv)'
    BY NewPageInv, PTL
  <2> QED
    BY <2>1, <2>2, <2>3, <2>4, <2>5 DEF Inv
<1> QED
  BY <1>1, <1>2

LEMMA NextInv == ASSUME Inv, [Next]_vars PROVE Inv'
<1>1. CASE Kill \/ \E connected \in BOOLEAN : Launch(connected)
  BY <1>1, ProcessInv
<1>2. ASSUME NEW a \in Article, OpenArticle(a) PROVE Inv'
  <2>1. /\ alive /\ Saved!ArticleSelector(a, Free)
        /\ UNCHANGED <<alive, homeVars>> /\ popup' = popup
    BY <1>2 DEF OpenArticle, homeVars
  <2> QED
    BY <2>1, SelectorInv, HomeUnchanged DEF Inv
<1>3. ASSUME NEW a \in Article, NEW connected \in BOOLEAN, TapPush(a, connected)
      PROVE  Inv'
  <2>1. /\ alive /\ Home!LoadAllArticles(a, connected)
        /\ UNCHANGED <<alive, savedVars>> /\ popup' = popup
    BY <1>3 DEF TapPush, Home!LoadAllArticles, Home!pageVars
  <2> QED
    BY <2>1, SavedUnchanged, LoadAllArticlesInv DEF Inv
<1>4. ASSUME NEW b \in Branch, Answer(b) PROVE Inv'
  <2>1. Home!Answer(b) /\ alive' = alive /\ popup' = popup
    BY <1>4 DEF Answer, Home!Answer
  <2>2. alive
    BY <2>1 DEF Inv, HomeInv, NothingAsked, Home!Nobody, Home!Answer
  <2>3. HomeInv'
    BY <2>1, AnswerHomeInv DEF Inv
  <2>4. CASE Head(asked[b]) \in Home!Published(b)
    <3>1. Head(asked[b]) \in Article
      BY <2>4 DEF Home!Published, Inv, HomeInv, Home!HomeTypeOK
    <3>2. Saved!ArticleSelector(Head(asked[b]), Free)
      BY <1>4, <2>4 DEF Answer
    <3>3. SavedInv'
      BY <2>1, <2>2, <3>1, <3>2, SelectorInv DEF Inv
    <3> QED
      BY <2>1, <2>3, <3>3 DEF Inv
  <2>5. CASE Head(asked[b]) \notin Home!Published(b)
    <3>1. UNCHANGED savedVars
      BY <1>4, <2>5 DEF Answer
    <3> QED
      BY <2>1, <2>3, <3>1, SavedUnchanged DEF Inv
  <2> QED
    BY <2>4, <2>5
<1>5. CASE HomeStep
  BY <1>5, HomeStepInv DEF Inv, HomeStep
<1>6. CASE SavedStep
  BY <1>6, SavedStepInv DEF Inv, SavedStep
<1>7. CASE UNCHANGED vars
  <2>1. UNCHANGED <<alive, savedVars>> /\ UNCHANGED <<alive, homeVars>>
        /\ popup' = popup
    BY <1>7 DEF vars, homeVars
  <2> QED
    BY <2>1, SavedUnchanged, HomeUnchanged DEF Inv
<1> QED
  BY <1>1, <1>2, <1>3, <1>4, <1>5, <1>6, <1>7 DEF Next

LEMMA InvAlways == Spec => []Inv
<1>1. Init => Inv
  BY InitInv
<1>2. Inv /\ [Next]_vars => Inv'
  BY NextInv
<1> QED
  BY <1>1, <1>2, PTL DEF Spec

-----------------------------------------------------------------------------
(* Theorems *)

\* Every state of IOSArticles is well formed, and at most one thing is presented
\* over the tab bar (articleSelector, the alerts of the home page and of the
\* settings), for every set of articles and branches.
THEOREM TypeCorrect == Spec => []TypeOK
<1>1. Inv => TypeOK
  BY DEF Inv, SavedInv, HomeInv, OneSheet, NothingWhenDown, TypeOK
<1> QED
  BY <1>1, InvAlways, PTL

\* However late a push's article is opened, over whatever page, the button of an
\* open article page (setBookmarkColor) shows whether its article is stored.
THEOREM ButtonAlwaysBookmark == Spec => []ButtonIsBookmark
<1>1. Inv => ButtonIsBookmark
  BY DEF Inv, SavedInv
<1> QED
  BY <1>1, InvAlways, PTL

\* The saved page in front lists what UserDefaults have (renderList), after
\* saves and removals in article pages opened from anywhere.
THEOREM RowsAlwaysStored == Spec => []RowsAreStored
<1>1. Inv => RowsAreStored
  BY DEF Inv, SavedInv
<1> QED
  BY <1>1, InvAlways, PTL

\* Every article of the page's last fetch is featured exactly once
\* (getHomepageData and its answers), however many pushes fetch in between,
\* unless that fetch began before an older one had ended.
THEOREM FeaturedAlwaysLatest == Spec => []FeaturedIsLatest
<1>1. Inv => FeaturedIsLatest
  BY DEF Inv, HomeInv, FetchCounts, FeaturedIsLatest, Home!FeaturedIsLatest
<1> QED
  BY <1>1, InvAlways, PTL
=============================================================================
