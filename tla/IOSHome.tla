------------------------------- MODULE IOSHome -------------------------------
(***************************************************************************)
(* iOS: the articles of the home page.  A fetch empties the featured       *)
(* articles and the lists of all branches at once and asks for each branch *)
(* by itself; every answer fills its list, appends its featured articles   *)
(* to those that are there, draws its section and the featured ones, and   *)
(* ends the refresh control, so that the page can be pulled again while    *)
(* the other branches are still out.  A tapped push fetches the same lists *)
(* to find one article, and draws nothing.                                 *)
(***************************************************************************)
EXTENDS Naturals, Sequences

CONSTANTS Article,  \* the home page's articles, by articleID
          Featured, \* those with isFeatured
          Branch,   \* General_Info, District, ASB
          BranchOf, \* the branch of each article
          MaxAsked  \* bound: fetches of a branch under way

VARIABLES
  server,     \* the articles Firebase has
  asked,      \* who waits for each branch, answered in this order: "home", or
              \* the article a push is about
  list,       \* homeArticleList
  featured,   \* featuredArticles: how often each of them is there
  shown,      \* the same, as last drawn
  sections,   \* per branch, the articles last drawn
  refreshing, \* refreshControl.isRefreshing
  popup,      \* the alert about the missing connection is shown
  brought,    \* history: the articles of the answers to the page's last fetch
  overlapped  \* history: that fetch began before an older one had ended

pageVars == <<featured, shown, sections, refreshing, popup>>
homeVars == <<server, asked, list, pageVars, brought, overlapped>>

NoList == [b \in Branch |-> {}]
Nobody == [b \in Branch |-> <<>>]
NoneFeatured == [a \in Featured |-> 0]

Awaits(b) == \E k \in DOMAIN asked[b] : asked[b][k] = "home"
CanAsk == \A b \in Branch : Len(asked[b]) < MaxAsked

\* A new process, before the page is loaded.
NewPage ==
  /\ asked = Nobody /\ list = NoList
  /\ featured = NoneFeatured /\ shown = NoneFeatured /\ sections = NoList
  /\ refreshing = FALSE /\ popup = FALSE
  /\ brought = {} /\ overlapped = FALSE

\* The process ends; the server stays.
ForgetPage ==
  /\ asked' = Nobody /\ list' = NoList
  /\ featured' = NoneFeatured /\ shown' = NoneFeatured /\ sections' = NoList
  /\ refreshing' = FALSE /\ popup' = FALSE
  /\ brought' = {} /\ overlapped' = FALSE
  /\ UNCHANGED server

-----------------------------------------------------------------------------
(* dataManager *)

Ask(who) == asked' = [b \in Branch |-> Append(asked[b], who)]

\* mutant: the featured articles are not emptied, as in loadAllArticles
FeaturedKept(connected) == featured

FeaturedAtFetch(connected) == IF connected THEN NoneFeatured ELSE featured

\* getHomepageData; without a connection nothing is fetched.
GetHomepageData(connected) ==
  /\ featured' = FeaturedAtFetch(connected)
  /\ IF connected
       THEN /\ list' = NoList /\ Ask("home")
            /\ brought' = {}
            /\ overlapped' = (\E b \in Branch : Awaits(b))
       ELSE UNCHANGED <<list, asked, brought, overlapped>>

\* loadAllArticles for the article of a tapped push; featuredArticles stays.
LoadAllArticles(a, connected) ==
  /\ CanAsk
  /\ IF connected THEN list' = NoList /\ Ask(a) ELSE UNCHANGED <<list, asked>>
  /\ UNCHANGED <<server, pageVars, brought, overlapped>>

Published(b) == {a \in server : BranchOf[a] = b}

\* The loop over a branch's articles.
AppendFeatured(articles) ==
  [a \in Featured |-> featured[a] + (IF a \in articles THEN 1 ELSE 0)]

\* setUpGeneralInfo and the other two: an empty branch leaves what was drawn.
SetUpSection(b, articles) ==
  IF articles = {} THEN sections ELSE [sections EXCEPT ![b] = articles]

\* setUpFeatured; with nothing featured the scroll view is hidden.
SetUpFeatured(articles) == articles

\* The answer for one branch; updateViews if the page has asked.
Answer(b) ==
  /\ asked[b] # <<>>
  /\ asked' = [asked EXCEPT ![b] = Tail(@)]
  /\ list' = [list EXCEPT ![b] = Published(b)]
  /\ IF Head(asked[b]) = "home"
       THEN /\ featured' = AppendFeatured(Published(b))
            /\ sections' = SetUpSection(b, list'[b])
            /\ shown' = SetUpFeatured(featured')
            /\ refreshing' = FALSE
            /\ brought' = brought \cup Published(b)
       ELSE UNCHANGED <<featured, sections, shown, refreshing, brought>>
  /\ UNCHANGED <<server, popup, overlapped>>

-----------------------------------------------------------------------------
(* The page and the server *)

\* viewDidLoad of the page that the app starts with.  An alert presented here
\* is not shown: the view is not in a window yet.
ViewDidLoad(connected) ==
  /\ GetHomepageData(connected)
  /\ UNCHANGED <<server, shown, sections, refreshing, popup>>

\* The page is pulled: refreshAllArticles.
RefreshAllArticles(connected) ==
  /\ ~refreshing /\ CanAsk
  /\ refreshing' = TRUE /\ popup' = ~connected
  /\ GetHomepageData(connected)
  /\ UNCHANGED <<server, shown, sections>>

\* The alert's Ok ends the refresh control.
DismissPopup ==
  /\ popup /\ popup' = FALSE /\ refreshing' = FALSE
  /\ UNCHANGED <<server, asked, list, featured, shown, sections, brought,
                 overlapped>>

\* The buttons the page has.
Buttons == {a \in Featured : shown[a] > 0}
             \cup UNION {sections[b] : b \in Branch}

Publish(articles) ==
  /\ server' = articles
  /\ UNCHANGED <<asked, list, pageVars, brought, overlapped>>

-----------------------------------------------------------------------------
(* Properties *)

HomeTypeOK ==
  /\ server \subseteq Article /\ brought \subseteq Article
  /\ asked \in [Branch -> Seq({"home"} \cup Article)]
  /\ {list, sections} \subseteq [Branch -> SUBSET Article]
  /\ {featured, shown} \subseteq [Featured -> Nat]
  /\ {refreshing, popup, overlapped} \subseteq BOOLEAN

\* From the first answer of a fetch on, the page features what its answers have
\* brought, each article once and nothing of before, whatever tapped pushes
\* have emptied and fetched in between; unless the page was pulled again before
\* an older fetch of its own had ended.
FeaturedIsLatest ==
  ~overlapped /\ (\E b \in Branch : ~Awaits(b)) =>
    \A a \in Featured : shown[a] = IF a \in brought THEN 1 ELSE 0
=============================================================================
