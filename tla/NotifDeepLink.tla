--------------------------- MODULE NotifDeepLink ---------------------------
(***************************************************************************)
(* Android: a notification shown by the system is tapped and News_Activity *)
(* starts with the ID of an article in its intent.  It looks in the two    *)
(* tables; if neither has the article it waits for the two lists of the    *)
(* server, which come in any order and again whenever they change.  An     *)
(* activity that is recreated starts the same search again, and the        *)
(* listeners of the old one stay.                                          *)
(***************************************************************************)
EXTENDS Naturals, Sequences

CONSTANTS MaxInstances, \* bound: News_Activity instances of one process
          MaxSnapshots  \* bound: snapshots sent to one process

ASSUME BoundsAssumption == {MaxInstances, MaxSnapshots} \subseteq Nat

VARIABLES
  stored,   \* the lists whose table holds the article
  holding,  \* the server's lists that hold it, as the client last heard
  loaded,   \* the lists the client has
  sent,     \* snapshots sent to this process
  queue,    \* the main thread's messages
  created,  \* instances created by this process
  lookups,  \* those that search the server's lists
  found,    \* per instance and list: news_found and bulletin_found
  opened    \* per instance, the screens it has started, in order

clientVars == <<holding, loaded, sent>>
vars == <<stored, clientVars, queue, created, lookups, found, opened>>

Instance == 1 .. MaxInstances
List == {"news", "bulletin"}
Other(l) == IF l = "news" THEN "bulletin" ELSE "news"

Init ==
  /\ stored \in SUBSET List
  /\ holding = {} /\ loaded = {} /\ sent = 0 /\ queue = <<>>
  /\ created = 0 /\ lookups = {}
  /\ found = [i \in Instance |-> [l \in List |-> "LOADING"]]
  /\ opened = [i \in Instance |-> <<>>]

-----------------------------------------------------------------------------
(* Firebase *)

Snapshot(l, has, S) == [list |-> l, has |-> has, for |-> S]

\* A list arrives or changes; every listener gets it.
Change(l, has) ==
  /\ created > 0 /\ sent < MaxSnapshots
  /\ loaded' = loaded \cup {l}
  /\ holding' = IF has THEN holding \cup {l} ELSE holding \ {l}
  /\ sent' = sent + 1
  /\ queue' = Append(queue, Snapshot(l, has, 1 .. created))
  /\ UNCHANGED <<stored, created, lookups, found, opened>>

\* What a listener added now gets at once: its list, if the client has it.
Cached(l, i) ==
  IF l \in loaded THEN <<Snapshot(l, l \in holding, {i})>> ELSE <<>>

-----------------------------------------------------------------------------
(* News_Activity *)

\* onCreate, the first time or again with the same intent: the tables are
\* asked first, ArticleDatabase before BulletinDatabase; the article opens at
\* once, or the lists are searched.
OnCreate ==
  /\ created < MaxInstances
  /\ created' = created + 1
  /\ IF stored # {}
       THEN /\ opened' = [opened EXCEPT ![created'] = <<"article">>]
            /\ UNCHANGED lookups
       ELSE /\ lookups' = lookups \cup {created'}
            /\ UNCHANGED opened
  /\ queue' = queue \o Cached("news", created') \o Cached("bulletin", created')
  /\ UNCHANGED <<stored, clientVars, found>>

\* mutant: a list without the article is enough
GiveUpEarly(i, l, status) == status # "FOUND"

\* The test of onAllArticlesLoaded: nothing here, and nothing there.
GiveUp(i, l, status) == found[i][Other(l)] = "NOT_FOUND" /\ status # "FOUND"

\* onArticleLoaded for every article of the list, then onAllArticlesLoaded.
Screens(i, l, has) ==
  LET status == IF has THEN "FOUND" ELSE found[i][l]
  IN  (IF has THEN <<"article">> ELSE <<>>)
        \o (IF GiveUp(i, l, status) THEN <<"list">> ELSE <<>>)

\* mutant: the outcome is kept, and LOADING with it
KeepStatus(l, has) == IF has THEN "FOUND" ELSE "LOADING"

\* onAllArticlesLoaded ends so whether the article was found or not.
StatusAfter(l, has) == "NOT_FOUND"

\* One snapshot, for all the listeners it is addressed to.  Each of them also
\* replaces the table by the list.
HandleSnapshot ==
  /\ queue # <<>>
  /\ LET m == Head(queue)
         S == m.for \cap lookups
     IN  /\ opened' = [i \in Instance |->
              IF i \in S THEN opened[i] \o Screens(i, m.list, m.has)
              ELSE opened[i]]
         /\ found' = [i \in Instance |->
              IF i \in S
                THEN [found[i] EXCEPT ![m.list] = StatusAfter(m.list, m.has)]
                ELSE found[i]]
         /\ stored' = IF m.has THEN stored \cup {m.list} ELSE stored \ {m.list}
  /\ queue' = Tail(queue)
  /\ UNCHANGED <<clientVars, created, lookups>>

\* The process dies; the tables stay, and the task can be started again.
Die ==
  /\ created > 0
  /\ holding' = {} /\ loaded' = {} /\ sent' = 0 /\ queue' = <<>>
  /\ created' = 0 /\ lookups' = {}
  /\ found' = [i \in Instance |-> [l \in List |-> "LOADING"]]
  /\ opened' = [i \in Instance |-> <<>>]
  /\ UNCHANGED stored

Next ==
  \/ \E l \in List, has \in BOOLEAN : Change(l, has)
  \/ OnCreate
  \/ HandleSnapshot
  \/ Die

\* The main thread handles its messages.
Spec == Init /\ [][Next]_vars /\ WF_vars(HandleSnapshot)

-----------------------------------------------------------------------------
(* Properties *)

\* The shape of every variable; only an instance that exists has done anything.
TypeOK ==
  /\ stored \subseteq List
  /\ holding \subseteq loaded /\ loaded \subseteq List
  /\ sent \in 0 .. MaxSnapshots
  /\ queue \in Seq([list : List, has : BOOLEAN, for : SUBSET Instance])
  /\ created \in 0 .. MaxInstances
  /\ lookups \subseteq 1 .. created
  /\ found \in [Instance -> [List -> {"LOADING", "NOT_FOUND"}]]
  /\ opened \in [Instance -> Seq({"article", "list"})]
  /\ \A i \in Instance \ (1 .. created) : opened[i] = <<>>

\* No tap is left without an answer: an instance opens something once both lists
\* are there, whatever came first and whatever came again.
TapAnswered ==
  \A i \in Instance :
    (created >= i /\ loaded = List) ~> (opened[i] # <<>> \/ created < i)

FirstScreen(i) == IF opened[i] = <<>> THEN "none" ELSE opened[i][1]

Answer == INSTANCE OneAnswer WITH
  holds <- stored,
  started <- 1 .. created,
  answer <- [i \in Instance |-> FirstScreen(i)],
  searched <- [i \in Instance |-> {l \in List : found[i][l] = "NOT_FOUND"}]

\* The first screen an instance opens is the right one: the article if a table
\* has it when the instance is created, or the first of the lists that come has
\* it; the list of notifications only when both have come without it and neither
\* table has it by then, whatever older snapshots were still on their way.
FirstAnswerRight == Answer!Spec
=============================================================================
