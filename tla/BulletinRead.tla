---------------------------- MODULE BulletinRead ----------------------------
(***************************************************************************)
(* The read marks of Android's bulletin.  The server's list comes in       *)
(* snapshots; News_Activity and every Bulletin_Activity ever opened listen *)
(* to them (no listener is ever removed) and each replaces the table of    *)
(* BulletinDatabase by the list, carrying over the marks it read there.    *)
(*                                                                         *)
(* All of it runs on the main thread, one message at a time, in the order  *)
(* of its queue: a snapshot, the update a Bulletin_Activity posts for it,  *)
(* a click, the result of a closed article.  A click holds the object that *)
(* was on the screen when the finger touched it, perhaps one of an older   *)
(* snapshot than the list the adapter has by the time the click runs.      *)
(*                                                                         *)
(* The selectors filter the rows of one Bulletin_Activity.  The navigation *)
(* bar of every page has its own listener, added after the page's, which   *)
(* shows a dot when it finds an unread article.                            *)
(***************************************************************************)
EXTENDS Integers, Sequences, FiniteSets, BulletinFilter

CONSTANTS Type,         \* Bulletin_Article.Type, the selectors
          DotTypes,     \* those whose category the navigation bar looks at
          MaxScreens,   \* bound: Bulletin_Activity instances of one process
          Selecting,    \* bound: the instances whose selectors are touched
          MaxSnapshots, \* bound: snapshots sent in all
          MaxQueue      \* bound: messages in the queue when a finger touches

ASSUME TypesAssumption ==
  /\ IsFiniteSet(Article)
  /\ TypeOf \in [Article -> Type] /\ DotTypes \subseteq Type
ASSUME BoundsAssumption == {MaxScreens, MaxSnapshots, MaxQueue} \subseteq Nat

VARIABLES
  running,   \* the process is alive and News_Activity listens
  synced,    \* the Firebase client has the list
  list,      \* that list
  sent,      \* snapshots sent
  crossed,   \* history: since the last snapshot was sent, an instance was opened
             \* while an update waited behind a snapshot
  queue,     \* the main thread's messages
  job,       \* the main thread between deleteAll and add: what is left to do
  rows,      \* the table of BulletinDatabase
  opened,    \* Bulletin_Activity instances created by this process
  stack,     \* the ones not finished, the visible one last
  objects,   \* per instance, the articles parsed from each snapshot
  selectors, \* per instance, selectors_active
  listed,    \* per instance, the rows: the articles in sortedList
  refilled,  \* history: instances whose rows a snapshot has filled, with
             \* selectors active, since a selector was last touched
  shown,     \* the visible list's views: their snapshot and their articles
  position,  \* per instance, the field set by onClick
  reading,   \* the open Bulletin_Article_Activities: the results they owe
  dots,      \* the pages whose navigation bar shows the dot
  published, \* history: the articles of the last snapshot handled
  earned,    \* history: articles opened, or hit by the result of an older list
  marked,    \* history: opened, and published in every snapshot since
  quiet      \* history: those of marked with no update waiting at the click

processVars == <<synced, list, sent, crossed>>
rowVars == <<selectors, listed, refilled, shown>>
screenVars == <<opened, stack, objects, rowVars, position, reading, dots>>
history == <<published, earned, marked, quiet>>
vars == <<running, processVars, queue, job, rows, screenVars, history>>

Screen == 1 .. MaxScreens
News == 0  \* the page of News_Activity
NO_POSITION == -1

\* Articles with their already_read flags: read is the set of the true ones.
Articles == [ids : SUBSET Article, read : SUBSET Article]
Nothing == [ids |-> {}, read |-> {}]
NoViews == [gen |-> 0, ids |-> {}]
NoJob == [items |-> Nothing, news |-> FALSE, for |-> {}, busy |-> FALSE]

Idle == running /\ ~job.busy
Waiting(kinds) == \E k \in DOMAIN queue : queue[k].kind \in kinds
Visible == stack[Len(stack)]
Latest(s) == IF objects[s] = <<>> THEN Nothing ELSE objects[s][Len(objects[s])]

\* Objects are in use by an update or a click that is waiting, by the adapter
\* of an instance that is not finished and by the visible views; others are
\* garbage.  The objects that stay when queue, views and instances are q, v, st:
Collect(objs, q, v, st) ==
  LET UsedBy(m, s, g) == m.kind \in {"update", "click"} /\ <<m.screen, m.gen>> = <<s, g>>
      InUse(s, g) ==
        \/ \E k \in DOMAIN q : UsedBy(q[k], s, g)
        \/ \E k \in DOMAIN st : st[k] = s /\ g = Len(objs[s])
        \/ st # <<>> /\ s = st[Len(st)] /\ g = v.gen
  IN  [s \in Screen |-> [g \in DOMAIN objs[s] |->
                          IF InUse(s, g) THEN objs[s][g] ELSE Nothing]]

Live == {stack[k] : k \in DOMAIN stack}

\* The views of an instance once it has been laid out.
Views(s) == [gen |-> Len(objects[s]), ids |-> listed[s]]

\* The index of an article in an adapter's list of ids.
IndexIn(a, ids) == Cardinality({b \in ids : b < a})

Init ==
  /\ running = FALSE
  /\ synced = FALSE /\ list = {} /\ sent = 0 /\ crossed = FALSE
  /\ queue = <<>> /\ job = NoJob
  /\ opened = 0 /\ stack = <<>> /\ reading = <<>> /\ dots = {}
  /\ objects = [s \in Screen |-> <<>>]
  /\ selectors = [s \in Screen |-> {}]
  /\ listed = [s \in Screen |-> {}] /\ refilled = {}
  /\ shown = NoViews
  /\ position = [s \in Screen |-> 0]
  /\ rows = Nothing
  /\ published = {} /\ earned = {} /\ marked = {} /\ quiet = {}

-----------------------------------------------------------------------------
(* Firebase, and the life of the activities *)

\* News_Activity is created and adds its listener.
Start ==
  /\ ~running /\ running' = TRUE
  /\ UNCHANGED <<processVars, queue, job, rows, screenVars, history>>

\* The list arrives or changes: one message to all listeners, in the order in
\* which they were added, News_Activity's first.
Snapshot(ids) ==
  /\ running /\ sent < MaxSnapshots /\ Len(queue) < MaxQueue
  /\ synced' = TRUE /\ list' = ids /\ sent' = sent + 1 /\ crossed' = FALSE
  /\ queue' = Append(queue, [kind |-> "data", ids |-> ids, news |-> TRUE,
                             for |-> 1 .. opened])
  /\ UNCHANGED <<running, job, rows, screenVars, history>>

\* An update that will be made between two snapshots that are waiting.
Crossing ==
  \E j, k \in DOMAIN queue :
    j < k /\ queue[j].kind = "data" /\ queue[k].kind = "update"

\* A tab opens a new Bulletin_Activity, whose listener gets the list at once
\* if the client has it.
OpenScreen ==
  /\ Idle /\ opened < MaxScreens /\ sent < MaxSnapshots
  /\ reading = <<>> /\ ~Waiting({"click", "result"})
  /\ opened' = opened + 1
  /\ stack' = Append(stack, opened')
  /\ shown' = NoViews
  /\ IF synced
       THEN /\ queue' = Append(queue, [kind |-> "data", ids |-> list,
                                       news |-> FALSE, for |-> {opened'}])
            /\ sent' = sent + 1
       ELSE UNCHANGED <<queue, sent>>
  /\ crossed' = (crossed \/ Crossing)
  /\ objects' = Collect(objects, queue', shown', stack')
  /\ UNCHANGED <<running, synced, list, job, rows, selectors, listed, refilled,
                 position, reading, dots, history>>

\* Back: the instance is finished, its listener stays.  The one below is laid
\* out before it can be touched.
CloseScreen ==
  /\ Idle /\ stack # <<>>
  /\ reading = <<>> /\ ~Waiting({"click", "result"})
  /\ stack' = SubSeq(stack, 1, Len(stack) - 1)
  /\ selectors' = [selectors EXCEPT ![Visible] = {}]
  /\ listed' = [listed EXCEPT ![Visible] = {}]
  /\ refilled' = refilled \ {Visible}
  /\ shown' = IF Len(stack) = 1 THEN NoViews ELSE Views(stack[Len(stack) - 1])
  /\ objects' = Collect(objects, queue, shown', stack')
  /\ position' = [position EXCEPT ![Visible] = 0]
  /\ dots' = dots \ {Visible}
  /\ UNCHANGED <<running, processVars, queue, job, rows, opened, reading,
                 history>>

\* The next frame binds the visible list's views to the rows.
Layout ==
  /\ Idle /\ stack # <<>>
  /\ shown # Views(Visible) /\ shown' = Views(Visible)
  /\ objects' = Collect(objects, queue, shown', stack)
  /\ UNCHANGED <<running, processVars, queue, job, rows, opened, stack, selectors,
                 listed, refilled, position, reading, dots, history>>

\* A finger: the view that is touched posts its click, bound to what it shows.
Touch(a) ==
  /\ Idle /\ stack # <<>> /\ reading = <<>> /\ a \in shown.ids
  /\ ~Waiting({"result"}) /\ Len(queue) < MaxQueue
  /\ queue' = Append(queue, [kind |-> "click", screen |-> Visible, id |-> a,
                             gen |-> shown.gen])
  /\ UNCHANGED <<running, processVars, job, rows, screenVars, history>>

\* A selector's onClick: its flag is turned, and filterItems.  It may still be
\* touched after a click, before the article has come up.
TouchSelector(t) ==
  /\ Idle /\ stack # <<>> /\ queue = <<>> /\ Visible \in Selecting
  /\ LET active == IF t \in selectors[Visible] THEN selectors[Visible] \ {t}
                                              ELSE selectors[Visible] \cup {t}
     IN  /\ selectors' = [selectors EXCEPT ![Visible] = active]
         /\ listed' = [listed EXCEPT ![Visible] =
                         FilterItems(Latest(Visible).ids, @, active)]
         /\ refilled' = refilled \ {Visible}
  /\ UNCHANGED <<running, processVars, queue, job, rows, opened, stack, objects,
                 shown, position, reading, dots, history>>

\* The user leaves the article: its own back button gives RESULT_OK, the
\* system's gives no result.
CloseArticle(ok) ==
  /\ Idle /\ reading # <<>>
  /\ reading' = SubSeq(reading, 1, Len(reading) - 1)
  /\ queue' = IF ok
                THEN Append(queue, reading[Len(reading)])
                ELSE queue
  /\ UNCHANGED <<running, processVars, job, rows, opened, stack, objects,
                 rowVars, position, dots, history>>

-----------------------------------------------------------------------------
(* The messages of the main thread *)

Turn(kind) ==
  /\ Idle /\ queue # <<>> /\ Head(queue).kind = kind
  /\ UNCHANGED <<running, processVars, opened, stack, shown>>

\* mutant: the stored marks are not looked up
ParseAsNew(ids, table) == [ids |-> ids, read |-> {}]

\* getBulletinArticles: each article with getReadStatusByID of its row.
Parse(ids, table) == [ids |-> ids, read |-> ids \cap table.read]

\* mutant: the search for an unread article ends with the first of the articles
FirstUnread(items) ==
  \E a \in items.ids \ items.read :
    TypeOf[a] \in DotTypes /\ \A b \in items.ids : a <= b

\* What the listener of a navigation bar looks for.
SomeUnread(items) == \E a \in items.ids \ items.read : TypeOf[a] \in DotTypes

\* Whether the dots of these pages appear; none is ever hidden.
ShowDots(items, pages) ==
  dots' = IF SomeUnread(items)
            THEN dots \cup (pages \cap ({News} \cup Live)) ELSE dots

\* onArticleLoaded and onAllArticlesLoaded of the instances: the adapter has new
\* articles, shows all of them, whatever the selectors say, and an update of the
\* table with the same objects is posted.
Deliver(items, instances, rest) ==
  /\ queue' = LET first == CHOOSE s \in instances : \A t \in instances : s <= t
              IN  rest \o [k \in 1 .. Cardinality(instances) |->
                    [kind |-> "update", screen |-> first + k - 1,
                     gen |-> Len(objects[first + k - 1]) + 1]]
  /\ objects' = Collect([s \in Screen |-> IF s \in instances
                                            THEN Append(objects[s], items)
                                            ELSE objects[s]],
                        queue', shown, stack)
  /\ listed' = [s \in Screen |-> IF s \in instances \cap Live
                                   THEN items.ids ELSE listed[s]]
  /\ refilled' = refilled \cup {s \in instances \cap Live : selectors[s] # {}}
  /\ UNCHANGED selectors

\* mutant: updateArticles adds without deleteAll
KeepOldRows(items, news, instances) ==
  /\ rows' = rows
  /\ job' = [items |-> [ids  |-> items.ids \cup rows.ids,
                        read |-> items.read \cup rows.read],
             news |-> news, for |-> instances, busy |-> TRUE]

\* updateArticles: deleteAll; the add that follows is a step of its own, for
\* the process may die in between.
ReplaceRows(items, news, instances) ==
  /\ rows' = Nothing
  /\ job' = [items |-> items, news |-> news, for |-> instances, busy |-> TRUE]

\* onDataChange.  News_Activity's listener comes first and updates at once.
HandleData ==
  /\ Turn("data")
  /\ LET m == Head(queue)
         items == Parse(m.ids, rows)
     IN  /\ IF m.news
              THEN /\ ReplaceRows(items, TRUE, m.for)
                   /\ queue' = Tail(queue)
                   /\ UNCHANGED <<objects, selectors, listed, refilled, dots>>
              ELSE /\ Deliver(items, m.for, Tail(queue))
                   /\ ShowDots(items, m.for)
                   /\ UNCHANGED <<rows, job>>
         /\ published' = m.ids
         /\ marked' = marked \cap m.ids
         /\ quiet' = quiet \cap m.ids
  /\ UNCHANGED <<position, reading, earned>>

\* The posted update of a Bulletin_Activity, with its objects as they are now.
HandleUpdate ==
  /\ Turn("update")
  /\ ReplaceRows(objects[Head(queue).screen][Head(queue).gen], FALSE, {})
  /\ queue' = Tail(queue)
  /\ objects' = Collect(objects, queue', shown, stack)
  /\ UNCHANGED <<selectors, listed, refilled, position, reading, dots, history>>

\* The transaction of add, and the listeners after News_Activity's if it was
\* the one that updated: its navigation bar's, and those of the instances.
FinishAdd ==
  /\ running /\ job.busy
  /\ rows' = job.items
  /\ job' = NoJob
  /\ Deliver(job.items, job.for, queue)
  /\ IF job.news THEN ShowDots(job.items, {News} \cup job.for)
                 ELSE UNCHANGED dots
  /\ UNCHANGED <<running, processVars, opened, stack, shown, position,
                 reading, history>>

HasRow(m) == m.gen = Len(objects[m.screen]) /\ m.id \in listed[m.screen]

\* mutant: the position counts from one
PositionFromOne(m) ==
  IF HasRow(m) THEN IndexIn(m.id, listed[m.screen]) + 1 ELSE NO_POSITION

\* getAdapterPosition of the clicked view: none once clearAll or filterItems has
\* removed its row.
AdapterPosition(m) ==
  IF HasRow(m) THEN IndexIn(m.id, listed[m.screen]) ELSE NO_POSITION

\* mutant: a mark is kept for an article that has no row
MarkWithoutRow(a) == rows' = [rows EXCEPT !.read = @ \cup {a}]

\* An UPDATE: an article that has no row gets none.
UpdateReadStatus(a) == rows' = [rows EXCEPT !.read = @ \cup ({a} \cap rows.ids)]

\* onClick: the object and its row in the table are marked, the article opens.
HandleClick ==
  /\ Turn("click")
  /\ LET m == Head(queue) IN
       /\ queue' = Tail(queue)
       /\ objects' = Collect([objects EXCEPT ![m.screen][m.gen].read =
                                               @ \cup {m.id}],
                             queue', shown, stack)
       /\ UpdateReadStatus(m.id)
       /\ position' = [position EXCEPT ![m.screen] = AdapterPosition(m)]
       /\ reading' = Append(reading, [kind |-> "result", screen |-> m.screen,
                                      gen |-> m.gen,
                                      among |-> listed[m.screen]])
       /\ earned' = earned \cup {m.id}
       /\ marked' = marked \cup ({m.id} \cap published)
       /\ quiet' = IF Waiting({"update"}) THEN quiet
                   ELSE marked' \cap (quiet \cup {m.id})
  /\ UNCHANGED <<job, selectors, listed, refilled, dots, published>>

\* The process dies; a crash in the window leaves the table empty.
Die ==
  /\ running' = FALSE
  /\ synced' = FALSE /\ list' = {} /\ crossed' = FALSE
  /\ queue' = <<>> /\ job' = NoJob
  /\ opened' = 0 /\ stack' = <<>> /\ reading' = <<>> /\ dots' = {}
  /\ objects' = [s \in Screen |-> <<>>]
  /\ selectors' = [s \in Screen |-> {}]
  /\ listed' = [s \in Screen |-> {}] /\ refilled' = {}
  /\ shown' = NoViews
  /\ position' = [s \in Screen |-> 0]
  /\ marked' = IF job.busy THEN {} ELSE marked
  /\ quiet' = IF job.busy THEN {} ELSE quiet
  /\ published' = {} /\ earned' = rows.read
  /\ UNCHANGED <<rows, sent>>

\* onActivityResult: updateReadItemPosition(position).  Its only test is
\* position < size, so NO_POSITION goes on to sortedList.get(-1), which throws.
HandleResult ==
  LET s == Head(queue).screen
      hit == {a \in listed[s] : IndexIn(a, listed[s]) = position[s]}
      same == Head(queue).gen = Len(objects[s]) /\ Head(queue).among = listed[s]
  IN  IF /\ Idle /\ queue # <<>> /\ Head(queue).kind = "result"
         /\ position[s] = NO_POSITION
        THEN Die
        ELSE /\ Turn("result")
             /\ objects' = [objects EXCEPT ![s][Len(objects[s])].read =
                                             @ \cup hit]
             /\ earned' = IF same THEN earned ELSE earned \cup hit
             /\ queue' = Tail(queue)
             /\ UNCHANGED <<job, rows, selectors, listed, refilled, position,
                            reading, dots, published, marked, quiet>>

\* The system kills the process.
Crash == running /\ Die

Next ==
  \/ Start \/ OpenScreen \/ CloseScreen \/ Layout \/ Crash
  \/ \E ids \in SUBSET Article : Snapshot(ids)
  \/ \E a \in Article : Touch(a)
  \/ \E t \in Type : TouchSelector(t)
  \/ \E ok \in BOOLEAN : CloseArticle(ok)
  \/ HandleData \/ HandleUpdate \/ FinishAdd \/ HandleClick \/ HandleResult

Spec == Init /\ [][Next]_vars

-----------------------------------------------------------------------------
(* Properties *)

Result == [kind : {"result"}, screen : Screen, gen : Nat \ {0},
           among : SUBSET Article]

Message ==
       [kind : {"data"}, ids : SUBSET Article, news : BOOLEAN,
        for : SUBSET Screen]
  \cup [kind : {"update"}, screen : Screen, gen : Nat \ {0}]
  \cup [kind : {"click"}, screen : Screen, id : Article, gen : Nat \ {0}]
  \cup Result

\* The shape of every variable; a click and an update name articles that exist.
TypeOK ==
  /\ {running, synced, crossed} \subseteq BOOLEAN
  /\ list \subseteq Article /\ sent \in 0 .. MaxSnapshots
  /\ queue \in Seq(Message)
  /\ \A k \in DOMAIN queue : queue[k].kind \in {"update", "click"} =>
       queue[k].gen \in DOMAIN objects[queue[k].screen]
  /\ job \in [items : Articles, news : BOOLEAN, for : SUBSET Screen, busy : BOOLEAN]
  /\ rows \in Articles /\ rows.read \subseteq rows.ids
  /\ opened \in 0 .. MaxScreens
  /\ stack \in Seq(Screen) /\ reading \in Seq(Result)
  /\ objects \in [Screen -> Seq(Articles)]
  /\ selectors \in [Screen -> SUBSET Type]
  /\ \A s \in Screen : listed[s] \subseteq Latest(s).ids
  /\ refilled \subseteq Screen
  /\ shown \in [gen : Nat, ids : SUBSET Article]
  /\ dots \subseteq {News} \cup Live
  /\ position \in [Screen -> Nat \cup {NO_POSITION}]
  /\ published \subseteq Article /\ earned \subseteq Article
  /\ quiet \subseteq marked /\ marked \subseteq Article

\* A mark made while no update was waiting outlives every later update, by
\* whichever listener and with whichever old objects, as long as the article
\* stays published and no crash falls between deleteAll and add.
QuietMarksKept == ~job.busy => quiet \subseteq rows.read

\* What the comment in updateArticles takes for granted: the marks survive the
\* deleteAll because getReadStatusByID has carried them into the new articles.
MarksSurviveUpdates ==
  Idle /\ ~Waiting({"update", "data"}) => marked \subseteq rows.read

\* When nothing is left to handle, the table holds the list and nothing else,
\* although instances closed long ago have written it too.
RowsFollowList ==
  Idle /\ synced /\ ~Waiting({"data", "update"}) => rows.ids = list

\* A mark, in the table or in any list, is on an article the user has opened,
\* or on the one at the same position of rows that were filtered or loaded anew
\* while the article was open.
OnlyEarnedMarks ==
  /\ rows.read \subseteq earned
  /\ \A s \in Screen : \A g \in DOMAIN objects[s] :
       objects[s][g].read \subseteq earned

\* From a touch of a selector to the next snapshot the rows are what the
\* selectors ask for, up to articles of one title, although filterItems starts
\* from whatever rows there are; a snapshot fills in everything, whatever the
\* selectors say, until one is touched again.
RowsFollowSelectors ==
  \A s \in Live :
    Titles(listed[s]) = Titles(IF s \in refilled
                                 THEN Latest(s).ids
                                 ELSE Filtered(Latest(s).ids, selectors[s]))

\* When nothing is left to handle, an unread article of a category the
\* navigation bar looks at has put the dot on every page, whatever was opened,
\* closed or rewritten in between, unless a page was opened while an update
\* waited behind a snapshot: that update is made before the page's own snapshot
\* comes, which then finds other marks than the pages before it have found.
DotShowsUnread ==
  /\ Idle /\ synced /\ ~Waiting({"data", "update"}) /\ ~crossed
  /\ \E a \in rows.ids \ rows.read : TypeOf[a] \in DotTypes
  => dots = {News} \cup Live
=============================================================================
