---------------------------- MODULE IOSBulletin ----------------------------
(***************************************************************************)
(* iOS: the bulletin page and the marks of the articles that were opened.  *)
(* dataManager keeps one list per branch of the bulletin.  A fetch empties *)
(* them all and fills each when its answer comes; the page asks for a      *)
(* fetch, and so do a tapped push and the notifications page, which only   *)
(* look for one article.  The page is drawn anew from the lists, as far as *)
(* they are filled, after each of its own answers and whenever a filter is *)
(* set; saving the marks drops those of articles that the last drawing did *)
(* not have.                                                               *)
(***************************************************************************)
EXTENDS Naturals, Sequences

CONSTANTS Article,  \* the bulletin's articles, by articleID
          Branch,   \* Academics, Athletics, Clubs, Colleges, Reference
          BranchOf, \* the branch of each article
          MaxAsked  \* bound: fetches of a branch under way

ASSUME BranchAssumption == BranchOf \in [Article -> Branch]
ASSUME BoundAssumption == MaxAsked \in Nat

VARIABLES
  alive,    \* the app runs
  loaded,   \* the page is loaded
  server,   \* the articles Firebase has
  asked,    \* who waits for each branch: page or other; answered in order
  list,     \* bulletinArticleList
  total,    \* totalArticles
  read,     \* bulletinReadDict: the keys that are true
  stored,   \* the same in UserDefaults
  filters,  \* selectedFilters: the branches that are true
  buttons,  \* the articles the page has buttons for
  fresh,    \* those whose button says New
  opened,   \* history: opened when fetched, and on the server ever since
  partial,  \* history: the page was last drawn while a fetch was under way
  hasty     \* history: an article was opened when it was

pageVars == <<total, buttons, fresh>>
vars == <<alive, loaded, server, asked, list, pageVars, read, stored, filters,
          opened, partial, hasty>>

Nobody == [b \in Branch |-> <<>>]
NoList == [b \in Branch |-> {}]

Init ==
  /\ alive = FALSE /\ loaded = FALSE /\ server = {}
  /\ asked = Nobody /\ list = NoList
  /\ total = {} /\ buttons = {} /\ fresh = {}
  /\ read = {} /\ stored = {} /\ filters = {}
  /\ opened = {} /\ partial = FALSE /\ hasty = FALSE

-----------------------------------------------------------------------------
(* dataManager, bulletinFunc and generateBulletin *)

\* getBulletinData and the second half of loadAllArticles, with a connection;
\* without one nothing is fetched and the lists stay.
Fetch(who, connected) ==
  IF connected
    THEN /\ list' = NoList
         /\ asked' = [b \in Branch |-> Append(asked[b], who)]
    ELSE UNCHANGED <<list, asked>>

InSome(lists) == UNION {lists[b] : b \in Branch}

\* mutant: the dictionary in memory is kept
MarksInMemory(saved) == read

LoadBullPref(saved) == saved

\* mutant: only the marks of the articles with a button are saved
MarksOnPage(marks) == marks \cap buttons

\* saveBullPref drops the marks of articles that are not in totalArticles.
SaveBullPref(marks) == marks \cap total

FilterArticles(articles, chosen) ==
  IF chosen = {} THEN articles ELSE {a \in articles : BranchOf[a] \in chosen}

\* mutant: the old buttons are not removed
DrawOver(articles, chosen) == buttons \cup FilterArticles(articles, chosen)

Draw(articles, chosen) == FilterArticles(articles, chosen)

\* generateBulletin, which does nothing when all lists are empty.
GenerateBulletin(lists, waiting, chosen) ==
  IF InSome(lists) = {}
    THEN UNCHANGED <<pageVars, read, partial>>
    ELSE /\ total' = InSome(lists)
         /\ read' = LoadBullPref(stored)
         /\ buttons' = Draw(total', chosen)
         /\ fresh' = buttons' \ read'
         /\ partial' = (waiting # Nobody)

-----------------------------------------------------------------------------
(* The app and the server *)

Launch ==
  /\ ~alive /\ alive' = TRUE
  /\ UNCHANGED <<loaded, server, asked, list, pageVars, read, stored, filters,
                 opened, partial, hasty>>

\* The system ends the app; UserDefaults stay.
Kill ==
  /\ alive /\ alive' = FALSE
  /\ loaded' = FALSE
  /\ asked' = Nobody /\ list' = NoList
  /\ total' = {} /\ buttons' = {} /\ fresh' = {}
  /\ read' = {} /\ filters' = {} /\ partial' = FALSE
  /\ UNCHANGED <<server, stored, opened, hasty>>

Publish(S) ==
  /\ server' = S
  /\ opened' = opened \cap S
  /\ UNCHANGED <<alive, loaded, asked, list, pageVars, read, stored, filters,
                 partial, hasty>>

CanAsk == \A b \in Branch : Len(asked[b]) < MaxAsked

\* A push is tapped, or the notifications page is opened: loadAllArticles.
LoadAllArticles(connected) ==
  /\ alive /\ CanAsk
  /\ Fetch("other", connected)
  /\ UNCHANGED <<alive, loaded, server, pageVars, read, stored, filters, opened,
                 partial, hasty>>

\* The answer for one branch; only the page's own answers draw it anew.
Answer(b) ==
  /\ asked[b] # <<>>
  /\ asked' = [asked EXCEPT ![b] = Tail(@)]
  /\ list' = [list EXCEPT ![b] = {a \in server : BranchOf[a] = b}]
  /\ IF Head(asked[b]) = "page" THEN GenerateBulletin(list', asked', filters)
                                ELSE UNCHANGED <<pageVars, read, partial>>
  /\ UNCHANGED <<alive, loaded, server, stored, filters, opened, hasty>>

-----------------------------------------------------------------------------
(* The page *)

\* viewDidLoad, once in the life of the app, and refreshBulletin.
GetBulletinArticleData(connected) ==
  /\ alive /\ CanAsk
  /\ loaded' = TRUE
  /\ Fetch("page", connected)
  /\ UNCHANGED <<alive, server, pageVars, read, stored, filters, opened,
                 partial, hasty>>

AddFilter(b) ==
  /\ loaded
  /\ filters' = IF b \in filters THEN filters \ {b} ELSE filters \cup {b}
  /\ GenerateBulletin(list, asked, filters')
  /\ UNCHANGED <<alive, loaded, server, asked, list, stored, opened, hasty>>

\* The mark is set and saved unless it was set; makeCustomButtonRead.
OpenArticle(a) ==
  /\ a \in buttons
  /\ IF a \in read
       THEN UNCHANGED <<read, stored, fresh, hasty>>
       ELSE /\ read' = read \cup {a}
            /\ stored' = SaveBullPref(read')
            /\ fresh' = fresh \ {a}
            /\ hasty' = (hasty \/ partial)
  /\ opened' = IF a \in server /\ (a \in list[BranchOf[a]]
                                     \/ asked[BranchOf[a]] # <<>>)
                 THEN opened \cup {a} ELSE opened
  /\ UNCHANGED <<alive, loaded, server, asked, list, total, buttons, filters,
                 partial>>

Next ==
  \/ Launch \/ Kill
  \/ \E S \in SUBSET Article : Publish(S)
  \/ \E connected \in BOOLEAN :
       LoadAllArticles(connected) \/ GetBulletinArticleData(connected)
  \/ \E b \in Branch : Answer(b) \/ AddFilter(b)
  \/ \E a \in Article : OpenArticle(a)

Spec == Init /\ [][Next]_vars

-----------------------------------------------------------------------------
(* Properties *)

\* The shape of every variable; the buttons are those of articles drawn last,
\* and only a loaded page has any.
TypeOK ==
  /\ {alive, loaded, partial, hasty} \subseteq BOOLEAN
  /\ server \subseteq Article /\ opened \subseteq server
  /\ asked \in [Branch -> Seq({"page", "other"})]
  /\ list \in [Branch -> SUBSET Article]
  /\ filters \subseteq Branch
  /\ total \subseteq Article
  /\ read \subseteq Article /\ stored \subseteq Article
  /\ fresh \subseteq buttons /\ buttons \subseteq total
  /\ (total # {} => loaded) /\ (loaded => alive)

\* An article that was opened stays marked, over refreshes, filters, pushes and
\* restarts, as long as the server has it and nothing is ever opened on a page
\* that was drawn while a fetch was under way.
MarksKept == ~hasty => opened \subseteq stored

\* A button says New exactly if the mark of its article is not in UserDefaults,
\* whatever was dropped there or in memory since it was drawn.
LabelsFollowMarks == fresh = buttons \ stored
=============================================================================
