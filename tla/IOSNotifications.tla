-------------------------- MODULE IOSNotifications --------------------------
(***************************************************************************)
(* iOS: the list of notifications, which of them are read, and the count   *)
(* on the bell and on the app's icon.  The list, the read marks and the    *)
(* count are static variables that the tab bar, the notifications page,    *)
(* the settings and the handler of tapped pushes all use; UserDefaults     *)
(* keeps the marks and the choice of categories, which the messaging       *)
(* service is told of as topics.  A fetch empties the list when it starts  *)
(* and appends to it when the answer comes, and several can be under way.  *)
(***************************************************************************)
EXTENDS Naturals, Sequences, FiniteSets

CONSTANTS Message,    \* notifications, by their messageID
          Article,    \* the articles they are about, by articleID
          ArticleOf,  \* the article of each message
          CategoryOf, \* the category of each message, 0 the mandatory one
          Category,   \* the switches of notificationSettings, 0 for all news
          MaxPending  \* bound: fetches under way

ASSUME KeysAssumption == Message \cap Article = {}
ASSUME MessageAssumption == IsFiniteSet(Message)
ASSUME FunctionsAssumption ==
  ArticleOf \in [Message -> Article] /\ CategoryOf \in [Message -> Category]
ASSUME BoundAssumption == 0 \in Category /\ MaxPending \in Nat

VARIABLES
  alive,      \* the app runs
  server,     \* the messages Firebase has
  pending,    \* the fetches not yet answered: dot, page or closed page
  total,      \* totalNotificationList
  read,       \* notificationReadDict: the keys that are true
  stored,     \* the same in UserDefaults
  selected,   \* selectedNotifications: the categories that are true
  chosen,     \* the same in UserDefaults
  topics,     \* the categories whose topic the app last asked to be sent
  unread,     \* unreadNotifCount
  badge,      \* applicationIconBadgeNumber
  dot,        \* the dot on the bell shows
  pageOpen,   \* the notifications page is shown
  buttons,    \* the messages it has buttons for
  opened,     \* history: opened when listed, and on the server ever since
  hasty,      \* history: one was opened while a fetch was under way
  overlapped, \* history: the last fetch began before an older one had ended
  counted     \* history: the list has not changed since it was last counted

choiceVars == <<selected, chosen, topics>>
countVars == <<unread, badge, dot>>
pageVars == <<pageOpen, buttons>>
vars == <<alive, server, pending, total, read, stored, choiceVars, countVars,
          pageVars, opened, hasty, overlapped, counted>>

Init ==
  /\ alive = FALSE /\ server = {}
  /\ pending = <<>> /\ total = <<>> /\ read = {} /\ stored = {}
  /\ selected = {} /\ chosen = {0} /\ topics = {}
  /\ unread = 0 /\ badge = 0 /\ dot = FALSE
  /\ pageOpen = FALSE /\ buttons = {}
  /\ opened = {} /\ hasty = FALSE /\ overlapped = FALSE /\ counted = FALSE

-----------------------------------------------------------------------------
(* dataManager and notificationFuncClass *)

ListedIn(seq) == {seq[k] : k \in DOMAIN seq}

\* The test of filterThroughSelectedNotifcations and of the two counters.
WantedCategory(c, choice) == 0 \in choice \/ c \in choice \/ c = 0
Wanted(m, choice) == WantedCategory(CategoryOf[m], choice)

\* mutant: a topic is never unsubscribed
OnlySubscribe(choice) == topics \cup choice \cup {0}

\* updateSubscriptionNotifs: the topics after its calls.
Subscribed(choice) == IF 0 \in choice THEN Category ELSE choice \cup {0}

\* The choice is read from UserDefaults and the service told, as most readers of
\* selectedNotifications do first.
LoadChoice ==
  selected' = chosen /\ topics' = Subscribed(chosen) /\ UNCHANGED chosen

\* numOfUnreadInArray of the filtered list, with the marks it has just loaded.
UnreadIn(list, marks, choice) ==
  Cardinality({k \in DOMAIN list :
                 Wanted(list[k], choice) /\ list[k] \notin marks})

\* getNotificationData and getNotificationDataDot: the list is emptied if there
\* is a connection.
ListAtFetch(connected) == IF connected THEN <<>> ELSE total

Fetch(kind, connected) ==
  /\ IF connected
       THEN /\ pending' = Append(pending, kind)
            /\ overlapped' = (pending # <<>>)
       ELSE UNCHANGED <<pending, overlapped>>
  /\ counted' = (kind = "dot")

\* The messages in the order in which the snapshot lists them.
InOrder(S) == CHOOSE q \in [1 .. Cardinality(S) -> S] : ListedIn(q) = S

\* mutant: only the marks of the messages on the page are stored
MarksOnPage(marks) ==
  marks \cap {m \in ListedIn(total) : Wanted(m, selected)}

\* filterReadDictionary: what saveNotifPref(filter: true) stores.
FilterMarks(marks) == marks \cap ListedIn(total)

-----------------------------------------------------------------------------
(* The life of the app *)

\* tabBarClass.viewDidLoad, setUpNotifDot.  Offline the completion runs at once.
Launch(connected) ==
  /\ ~alive /\ alive' = TRUE
  /\ read' = stored
  /\ unread' = 0
  /\ total' = ListAtFetch(connected)
  /\ Fetch("dot", connected)
  /\ IF connected THEN UNCHANGED <<badge, dot>> ELSE badge' = 0 /\ dot' = FALSE
  /\ LoadChoice
  /\ UNCHANGED <<server, stored, pageVars, opened, hasty>>

\* The system ends the app; UserDefaults and the badge stay.
Kill ==
  /\ alive /\ alive' = FALSE
  /\ pending' = <<>> /\ total' = <<>> /\ read' = {} /\ selected' = {}
  /\ unread' = 0 /\ dot' = FALSE
  /\ pageOpen' = FALSE /\ buttons' = {}
  /\ overlapped' = FALSE /\ counted' = FALSE
  /\ UNCHANGED <<server, stored, chosen, topics, badge, opened, hasty>>

\* messaging(didReceiveRegistrationToken), at startup and whenever it is renewed.
ReceiveToken ==
  /\ alive /\ LoadChoice
  /\ UNCHANGED <<alive, server, pending, total, read, stored, countVars, pageVars,
                 opened, hasty, overlapped, counted>>

\* A push is tapped: AppDelegate stores the mark under the article's ID.
TapPush(m) ==
  /\ alive
  /\ read' = stored \cup {ArticleOf[m]}
  /\ stored' = read'
  /\ UNCHANGED <<alive, server, pending, total, choiceVars, countVars,
                 pageVars, opened, hasty, overlapped, counted>>

Publish(S) ==
  /\ server' = S
  /\ opened' = opened \cap S
  /\ UNCHANGED <<alive, pending, total, read, stored, choiceVars, countVars,
                 pageVars, hasty, overlapped, counted>>

-----------------------------------------------------------------------------
(* Answers, in the order of the fetches *)

\* mutant: messages that are read are counted too
CountAll == unread + Cardinality({m \in server : Wanted(m, selected)})

\* Each message of the snapshot is tested and counted as it comes.
CountNew == unread + UnreadIn(InOrder(server), read, selected)

\* The dot's: every message is appended and counted; the bell and the icon are
\* set in the completion, which an empty snapshot never calls.
AnswerDot ==
  /\ pending # <<>> /\ Head(pending) = "dot"
  /\ pending' = Tail(pending)
  /\ total' = total \o InOrder(server)
  /\ unread' = CountNew
  /\ IF server = {} THEN UNCHANGED <<badge, dot>>
                    ELSE badge' = unread' /\ dot' = (unread' > 0)
  /\ UNCHANGED <<alive, server, read, stored, choiceVars, pageVars, opened, hasty,
                 overlapped, counted>>

\* mutant: the completion of any page draws on the one that is shown
DrawsOnAny(kind) == TRUE

\* The completion holds on to its own page, which may be closed.
DrawsOnScreen(kind) == kind = "page"

\* loadScrollView of a page: the choice is loaded, its buttons are made anew.
LoadScrollView(list, kind) ==
  /\ LoadChoice
  /\ buttons' = IF DrawsOnScreen(kind) THEN {m \in ListedIn(list) : Wanted(m, selected')}
                                       ELSE buttons

\* The page's: appended, and the buttons made anew, again for each message; the
\* completion of a page closed meanwhile draws what nobody sees.
AnswerPage ==
  /\ pending # <<>> /\ Head(pending) # "dot"
  /\ pending' = Tail(pending)
  /\ total' = total \o InOrder(server)
  /\ counted' = (counted /\ server = {})
  /\ IF server # {}
       THEN LoadScrollView(total', Head(pending))
       ELSE UNCHANGED <<buttons, choiceVars>>
  /\ UNCHANGED <<alive, server, read, stored, countVars, pageOpen, opened, hasty,
                 overlapped>>

-----------------------------------------------------------------------------
(* The notifications page and the settings *)

\* viewDidLoad empties the list whether or not there is a connection.
OpenPage(connected) ==
  /\ alive /\ ~pageOpen /\ Len(pending) < MaxPending
  /\ pageOpen' = TRUE /\ buttons' = {}
  /\ read' = stored
  /\ total' = <<>>
  /\ Fetch("page", connected)
  /\ UNCHANGED <<alive, server, stored, choiceVars, countVars, opened, hasty>>

\* Pulled down.  The buttons stay until the answer comes.
RefreshPage(connected) ==
  /\ pageOpen /\ Len(pending) < MaxPending
  /\ read' = stored
  /\ total' = ListAtFetch(connected)
  /\ IF connected THEN Fetch("page", TRUE)
                  ELSE UNCHANGED <<pending, overlapped, counted>>
  /\ UNCHANGED <<alive, server, stored, choiceVars, countVars, pageVars, opened,
                 hasty>>

\* openArticle: the mark is saved, filtered by the list as it is now; the count
\* loads what was saved.  No button is ever alreadyRead: nothing sets that.
OpenArticle(m) ==
  /\ pageOpen /\ m \in buttons
  /\ stored' = FilterMarks(read \cup {m})
  /\ read' = stored'
  /\ LoadScrollView(total, "page")
  /\ unread' = UnreadIn(total, read', selected')
  /\ badge' = unread'
  /\ hasty' = (hasty \/ pending # <<>>)
  /\ counted' = TRUE
  /\ opened' = opened \cup ({m} \cap server \cap ListedIn(total))
  /\ UNCHANGED <<alive, server, pending, total, dot, pageOpen, overlapped>>

\* viewWillDisappear posts updateNotifDot.
ClosePage ==
  /\ pageOpen /\ pageOpen' = FALSE /\ buttons' = {}
  /\ dot' = (unread > 0) /\ badge' = unread
  /\ pending' = [k \in DOMAIN pending |->
                   IF pending[k] = "page" THEN "closed" ELSE pending[k]]
  /\ UNCHANGED <<alive, server, total, read, stored, choiceVars, unread, opened,
                 hasty, overlapped, counted>>

\* changedSettings: 0 excludes the others; the choice is stored, the service told,
\* and the unread messages are counted anew.
ChangeSetting(c) ==
  /\ alive /\ ~pageOpen
  /\ selected' = IF c = 0 THEN (IF 0 \in selected THEN selected \ {0} ELSE {0})
                 ELSE IF c \in selected THEN selected \ {0, c}
                 ELSE (selected \ {0}) \cup {c}
  /\ chosen' = selected' /\ topics' = Subscribed(selected')
  /\ read' = stored
  /\ unread' = UnreadIn(total, read', selected')
  /\ badge' = unread'
  /\ counted' = TRUE
  /\ UNCHANGED <<alive, server, pending, total, stored, dot, pageVars, opened,
                 hasty, overlapped>>

Next ==
  \/ \E connected \in BOOLEAN :
       Launch(connected) \/ OpenPage(connected) \/ RefreshPage(connected)
  \/ Kill \/ ReceiveToken \/ AnswerDot \/ AnswerPage \/ ClosePage
  \/ \E m \in Message : TapPush(m) \/ OpenArticle(m)
  \/ \E S \in SUBSET Message : Publish(S)
  \/ \E c \in Category : ChangeSetting(c)

Spec == Init /\ [][Next]_vars

-----------------------------------------------------------------------------
(* Properties *)

Key == Message \cup Article

\* The shape of every variable; buttons are for messages, on an open page.
TypeOK ==
  /\ {alive, dot, pageOpen, hasty, overlapped, counted} \subseteq BOOLEAN
  /\ server \subseteq Message /\ opened \subseteq server
  /\ pending \in Seq({"dot", "page", "closed"})
  /\ total \in Seq(Message)
  /\ read \subseteq Key /\ stored \subseteq Key
  /\ {selected, chosen, topics} \subseteq SUBSET Category
  /\ {unread, badge} \subseteq Nat
  /\ buttons \subseteq Message /\ (buttons # {} => pageOpen)

\* A message opened on the page stays read, over refreshes, pushes, settings
\* and restarts, as long as the server has it and nothing is ever opened while
\* the list is being fetched.
MarksKept == ~hasty => opened \subseteq stored

\* What is stored is in force: on every path the marks and the choice in memory
\* are those of UserDefaults, and the service is asked for exactly the categories
\* whose messages the app lists and counts.
StoredIsInForce ==
  alive => /\ read = stored /\ selected = chosen
           /\ \A c \in Category : c \in topics <=> WantedCategory(c, chosen)

\* The count is that of the messages in the list, each counted once, as long as
\* it is the list that was counted and no fetch began before an older one ended.
CountMatchesList ==
  counted /\ ~overlapped =>
    unread = Cardinality({m \in ListedIn(total) : Wanted(m, selected) /\ m \notin read})
=============================================================================
