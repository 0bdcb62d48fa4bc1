----------------------------- MODULE NotifStore -----------------------------
(***************************************************************************)
(* Android: the page of notifications.  Every Notif_Activity ever opened   *)
(* keeps listening to the server's list; for each snapshot each of them    *)
(* fills its adapter, with the marks it reads from NotifDatabase, and      *)
(* replaces the table at once: deleteAll and one insert after another, in  *)
(* no transaction.  The first listener is that of NotifBtn, whose dot says *)
(* that something is unread.                                               *)
(*                                                                         *)
(* Unlike the bulletin's, this table is only marked by taps: the result of *)
(* an article that was left marks a row on the screen and nothing else.    *)
(***************************************************************************)
EXTENDS Integers, Sequences, FiniteSets

CONSTANTS Notif,        \* notifications; a list shows them in this order
          MaxScreens,   \* bound: Notif_Activity instances of one process
          MaxSnapshots, \* bound: snapshots sent to one process
          MaxQueue      \* bound: messages in the queue when a finger touches

ASSUME NotifAssumption == Notif \subseteq Nat /\ IsFiniteSet(Notif)
ASSUME BoundsAssumption == {MaxScreens, MaxSnapshots, MaxQueue} \subseteq Nat

VARIABLES
  running,  \* the process is alive and NotifBtn listens
  synced,   \* the Firebase client has the list
  list,     \* that list
  sent,     \* snapshots sent to this process
  queue,    \* the main thread's messages
  job,      \* the main thread within onDataChange: what is left to do
  rows,     \* the table of NotifDatabase
  dot,      \* the dot of NotifBtn is visible
  opened,   \* Notif_Activity instances created by this process
  stack,    \* the ones not finished, the visible one last
  adapter,  \* per instance, the objects of its SortedList
  shown,    \* per instance, what its views were last bound to
  position, \* per instance, the field set by onClick
  reading,  \* the open articles: the results they owe
  results,  \* the results kept until the page is shown again
  marked,   \* history: tapped while published, and published ever since
  returned  \* history: per instance, those tapped last and left by the arrow

processVars == <<running, synced, list, sent>>
screenVars == <<opened, stack, adapter, shown, position>>
visitVars == <<reading, results>>
history == <<marked, returned>>
storeVars ==
  <<processVars, queue, job, rows, dot, screenVars, visitVars, history>>

Screen == 1 .. MaxScreens
NO_POSITION == -1

Nothing == [ids |-> {}, read |-> {}]
NoJob == [for |-> {}, ids |-> {}, left |-> Nothing, busy |-> FALSE]

\* The objects of one snapshot: all, the marked ones, the snapshot's number.
NoObjects == [ids |-> {}, read |-> {}, gen |-> 0]

Idle == running /\ ~job.busy
Waiting(kinds) == \E k \in DOMAIN queue : queue[k].kind \in kinds
Visible == stack[Len(stack)]
Least(S) == CHOOSE k \in S : \A j \in S : k <= j

\* The index of a notification in an adapter's list of ids.
IndexIn(n, ids) == Cardinality({k \in ids : k < n})

StoreInit ==
  /\ running = FALSE
  /\ synced = FALSE /\ list = {} /\ sent = 0
  /\ queue = <<>> /\ job = NoJob /\ dot = FALSE
  /\ opened = 0 /\ stack = <<>>
  /\ adapter = [s \in Screen |-> NoObjects] /\ shown = adapter
  /\ position = [s \in Screen |-> 0]
  /\ reading = <<>> /\ results = <<>>
  /\ rows = Nothing
  /\ marked = {} /\ returned = [s \in Screen |-> {}]

-----------------------------------------------------------------------------
(* Firebase, and the life of the activities *)

\* NotifBtn is created, hides its dot and adds its listener.
Start ==
  /\ ~running /\ running' = TRUE
  /\ UNCHANGED <<synced, list, sent, queue, job, rows, dot, screenVars,
                 visitVars, history>>

\* The list arrives or changes: one message to all listeners, in the order in
\* which they were added.  One that comes in behind other messages is one that
\* comes later.
Snapshot(ids) ==
  /\ running /\ sent < MaxSnapshots /\ queue = <<>>
  /\ synced' = TRUE /\ list' = ids /\ sent' = sent + 1
  /\ queue' = Append(queue, [kind |-> "data", ids |-> ids, btn |-> TRUE,
                             for |-> 1 .. opened])
  /\ UNCHANGED <<running, job, rows, dot, screenVars, visitVars, history>>

\* Nothing the user did is still on its way.
Still == Idle /\ reading = <<>> /\ ~Waiting({"click", "result"})

\* onCreate of a new instance, whose listener gets the list at once if the
\* client has it.
OpenScreen ==
  /\ Still /\ opened < MaxScreens
  /\ opened' = opened + 1
  /\ stack' = Append(stack, opened')
  /\ queue' = IF synced
                THEN Append(queue, [kind |-> "data", ids |-> list,
                                    btn |-> FALSE, for |-> {opened'}])
                ELSE queue
  /\ UNCHANGED <<processVars, job, rows, dot, adapter, shown, position,
                 visitVars, history>>

\* Back: the instance is finished, its listener stays.  Its views and objects
\* are not seen any more, and are forgotten here.
CloseScreen ==
  /\ Still /\ stack # <<>>
  /\ stack' = SubSeq(stack, 1, Len(stack) - 1)
  /\ adapter' = [adapter EXCEPT ![Visible] = NoObjects]
  /\ shown' = [shown EXCEPT ![Visible] = NoObjects]
  /\ position' = [position EXCEPT ![Visible] = 0]
  /\ returned' = [returned EXCEPT ![Visible] = {}]
  /\ UNCHANGED <<processVars, queue, job, rows, dot, opened, visitVars, marked>>

\* The next frame, or scrolling, binds the visible views to the objects.
Layout ==
  /\ Idle /\ stack # <<>>
  /\ shown[Visible] # adapter[Visible]
  /\ shown' = [shown EXCEPT ![Visible] = adapter[Visible]]
  /\ UNCHANGED <<processVars, queue, job, rows, dot, opened, stack, adapter,
                 position, visitVars, history>>

\* A finger: the view posts its click, bound to the object it shows.
Touch(n) ==
  /\ Idle /\ stack # <<>> /\ reading = <<>>
  /\ ~Waiting({"result"}) /\ Len(queue) < MaxQueue
  /\ n \in shown[Visible].ids
  /\ queue' = Append(queue, [kind |-> "click", id |-> n,
                             gen |-> shown[Visible].gen])
  /\ UNCHANGED <<processVars, job, rows, dot, screenVars, visitVars, history>>

\* The user leaves the article on top: its arrow gives RESULT_OK, the system's
\* back no result.  The page gets them when it is shown again.  A click that was
\* in the queue when the article was opened has long been handled.
CloseArticle(ok) ==
  /\ Idle /\ reading # <<>> /\ ~Waiting({"click"})
  /\ LET all == IF ok THEN Append(results, reading[Len(reading)]) ELSE results
     IN  IF Len(reading) = 1
           THEN queue' = queue \o all /\ results' = <<>>
           ELSE results' = all /\ UNCHANGED queue
  /\ reading' = SubSeq(reading, 1, Len(reading) - 1)
  /\ UNCHANGED <<processVars, job, rows, dot, screenVars, history>>

-----------------------------------------------------------------------------
(* onDataChange *)

\* mutant: rows that are not there yet are not counted
KnownUnread(ids) == \E n \in ids : n \in rows.ids /\ n \notin rows.read

\* NotifBtn: alreadyAdded and getReadStatusByID of each.
SomeUnread(ids) == \E n \in ids : n \notin rows.ids \/ n \notin rows.read

\* mutant: the stored marks are not looked up
ParseAsNew(s, ids) == {}

\* mutant: an object keeps the mark of the one it replaces
ParseOver(s, ids) == ids \cap (rows.read \cup adapter[s].read)

\* getReadStatusByID of each notification in the list.
ParseMarks(s, ids) == ids \cap rows.read

\* The listener of one instance, up to deleteAll.
Listener(ids, instances) ==
  LET s == Least(instances)
      read == ParseMarks(s, ids)
  IN  /\ adapter' = IF \A k \in DOMAIN stack : stack[k] # s THEN adapter
                    ELSE [adapter EXCEPT ![s] =
                            [ids |-> ids, read |-> read, gen |-> @.gen + 1]]
      /\ rows' = Nothing
      /\ job' = [for |-> instances \ {s}, ids |-> ids, busy |-> TRUE,
                 left |-> [ids |-> ids, read |-> read]]

HandleData ==
  /\ Idle /\ queue # <<>> /\ Head(queue).kind = "data"
  /\ LET m == Head(queue) IN
       /\ dot' = (dot \/ (m.btn /\ SomeUnread(m.ids)))
       /\ IF m.for = {}
            THEN UNCHANGED <<adapter, rows, job>>
            ELSE Listener(m.ids, m.for)
       /\ marked' = marked \cap m.ids
       /\ returned' = [s \in Screen |-> returned[s] \cap m.ids]
  /\ queue' = Tail(queue)
  /\ UNCHANGED <<processVars, opened, stack, shown, position, visitVars>>

\* add: one row, committed on its own.
InsertNext ==
  /\ running /\ job.left.ids # {}
  /\ LET n == Least(job.left.ids) IN
       /\ rows' = [ids |-> rows.ids \cup {n},
                   read |-> rows.read \cup ({n} \cap job.left.read)]
       /\ job' = [job EXCEPT !.left.ids = @ \ {n}, !.left.read = @ \ {n}]
  /\ UNCHANGED <<processVars, queue, dot, screenVars, visitVars, history>>

\* All rows are in: the next listener's turn, or the end of the message.
NextListener ==
  /\ running /\ job.busy /\ job.left.ids = {}
  /\ IF job.for = {}
       THEN job' = NoJob /\ UNCHANGED <<adapter, rows>>
       ELSE Listener(job.ids, job.for)
  /\ UNCHANGED <<processVars, queue, dot, opened, stack, shown, position,
                 visitVars, history>>

-----------------------------------------------------------------------------
(* onClick and onActivityResult *)

\* getAdapterPosition of the clicked view: none once clearAll has removed it.
AdapterPosition(m) ==
  IF m.gen = adapter[Visible].gen
    THEN IndexIn(m.id, adapter[Visible].ids) ELSE NO_POSITION

\* mutant: a mark is kept for a notification that has no row
MarkWithoutRow(n) == rows' = [rows EXCEPT !.read = @ \cup {n}]

\* An UPDATE: a notification that has no row gets none.
UpdateReadStatus(n) == rows' = [rows EXCEPT !.read = @ \cup ({n} \cap rows.ids)]

\* mutant: the view is not told
NotBound(views, hit) == views

\* notifyItemChanged: the view at the position is bound again.
NotifyItemChanged(views, hit) == [views EXCEPT !.read = @ \cup hit]

\* updateReadItemPosition: an object is marked and its view bound again.
UpdateReadItemPosition(s, objects, at) ==
  LET hit == {n \in objects.ids : IndexIn(n, objects.ids) = at}
  IN  /\ adapter' = [adapter EXCEPT ![s] = [objects EXCEPT !.read = @ \cup hit]]
      /\ shown' = IF shown[s].gen = objects.gen
                    THEN [shown EXCEPT ![s] = NotifyItemChanged(@, hit)]
                    ELSE shown

\* All that is lost with the process.
EndProcess ==
  /\ running' = FALSE
  /\ synced' = FALSE /\ list' = {} /\ sent' = 0
  /\ queue' = <<>> /\ job' = NoJob /\ dot' = FALSE
  /\ opened' = 0 /\ stack' = <<>>
  /\ adapter' = [s \in Screen |-> NoObjects] /\ shown' = adapter'
  /\ position' = [s \in Screen |-> 0]
  /\ reading' = <<>> /\ results' = <<>>
  /\ returned' = [s \in Screen |-> {}]

\* The process dies; within onDataChange, rows are lost.
Die ==
  /\ EndProcess
  /\ marked' = IF job.busy THEN {} ELSE marked
  /\ UNCHANGED rows

\* The only test is position < size, so NO_POSITION goes on to
\* sortedList.get(-1), which throws.
Throws(at) == at = NO_POSITION

\* The object as the click marks it, if it is still the adapter's.
MarkedObject(m) ==
  IF m.gen = adapter[Visible].gen
    THEN [adapter[Visible] EXCEPT !.read = @ \cup {m.id}] ELSE adapter[Visible]

\* What is open already was not the last to be tapped.
Older == [k \in DOMAIN reading |-> [reading[k] EXCEPT !.last = FALSE]]

\* onClick: the object and its row are marked.  Whether it has a holder, whose
\* article is opened, is up to the tables of the articles when the list came.
HandleClick(linked) ==
  /\ Idle /\ queue # <<>> /\ Head(queue).kind = "click"
  /\ LET m == Head(queue)
         at == AdapterPosition(m)
     IN
       /\ UpdateReadStatus(m.id)
       /\ marked' = marked \cup ({m.id} \cap rows.ids)
       /\ IF ~linked /\ Throws(at)
            THEN EndProcess
            ELSE /\ position' = [position EXCEPT ![Visible] = at]
                 /\ queue' = Tail(queue)
                 /\ IF linked
                      THEN /\ adapter' = [adapter EXCEPT ![Visible] =
                                            MarkedObject(m)]
                           /\ reading' = Append(Older, [kind |-> "result",
                                                        id |-> m.id,
                                                        last |-> TRUE])
                           /\ UNCHANGED <<shown, returned>>
                      ELSE /\ UpdateReadItemPosition(Visible, MarkedObject(m),
                                                     at)
                           /\ reading' = Older
                           /\ returned' = [returned EXCEPT ![Visible] =
                                             @ \cup ({m.id} \cap rows.ids)]
                 /\ UNCHANGED <<processVars, job, dot, opened, stack, results>>

\* onActivityResult: updateReadItemPosition(position).
HandleResult ==
  /\ Idle /\ queue # <<>> /\ Head(queue).kind = "result"
  /\ IF Throws(position[Visible]) THEN Die
     ELSE /\ UpdateReadItemPosition(Visible, adapter[Visible],
                                    position[Visible])
          /\ queue' = Tail(queue)
          /\ returned' = IF Head(queue).last
                           THEN [returned EXCEPT ![Visible] =
                                   @ \cup ({Head(queue).id} \cap marked)]
                           ELSE returned
          /\ UNCHANGED <<processVars, job, rows, dot, opened, stack, position,
                         visitVars, marked>>

\* The system kills the process.
SystemKills == running /\ Die

StoreNext ==
  \/ Start \/ OpenScreen \/ CloseScreen \/ Layout \/ SystemKills
  \/ \E ids \in SUBSET Notif : Snapshot(ids)
  \/ \E n \in Notif : Touch(n)
  \/ \E ok \in BOOLEAN : CloseArticle(ok)
  \/ HandleData \/ InsertNext \/ NextListener
  \/ \E linked \in BOOLEAN : HandleClick(linked)
  \/ HandleResult

StoreSpec == StoreInit /\ [][StoreNext]_storeVars

-----------------------------------------------------------------------------
(* Properties *)

Rows == [ids : SUBSET Notif, read : SUBSET Notif]
Objects == [ids : SUBSET Notif, read : SUBSET Notif, gen : Nat]
Result == [kind : {"result"}, id : Notif, last : BOOLEAN]
Message ==
       [kind : {"data"}, ids : SUBSET Notif, btn : BOOLEAN,
        for : SUBSET Screen]
  \cup [kind : {"click"}, id : Notif, gen : Nat]
  \cup Result

\* The shape of every variable; marks are on rows and objects that exist.
StoreTypeOK ==
  /\ {running, synced, dot} \subseteq BOOLEAN
  /\ list \subseteq Notif /\ sent \in 0 .. MaxSnapshots
  /\ queue \in Seq(Message) /\ {reading, results} \subseteq Seq(Result)
  /\ job \in [for : SUBSET Screen, ids : SUBSET Notif, left : Rows,
              busy : BOOLEAN]
  /\ rows \in Rows /\ rows.read \subseteq rows.ids
  /\ opened \in 0 .. MaxScreens /\ stack \in Seq(1 .. opened)
  /\ {adapter, shown} \subseteq [Screen -> Objects]
  /\ \A s \in Screen : adapter[s].read \subseteq adapter[s].ids
  /\ position \in [Screen -> Nat \cup {NO_POSITION}]
  /\ marked \subseteq Notif /\ returned \in [Screen -> SUBSET Notif]

\* A tapped notification stays marked in the table for as long as it is
\* published, through the replacements of any number of open and finished
\* instances, unless the process died in the middle of one.
MarksKept == ~job.busy => marked \subseteq rows.read

\* Nothing but a tap ever adds a mark to the table, or to what is about to be
\* inserted: a row that a result marks because the list has moved under its
\* position is marked on the screen only.
StoredMarksAreTaps ==
  [][LET marks == rows.read \cup job.left.read
     IN  \/ \E linked \in BOOLEAN : HandleClick(linked)
         \/ (rows.read \cup job.left.read)' \subseteq marks]_storeVars

\* What was tapped on the visible page and left by the arrow is drawn as read,
\* whatever snapshots came while it was open, unless another one was tapped
\* before it had opened.
ReturnedShown ==
  Idle /\ stack # <<>> =>
    LET s == Visible IN
    shown[s].gen = adapter[s].gen =>
      returned[s] \cap marked \cap shown[s].ids \subseteq shown[s].read

\* While a published notification is not marked, the dot is visible.
DotShowsUnread ==
  Idle /\ synced /\ ~Waiting({"data"}) /\ ~(list \subseteq rows.read) => dot
=============================================================================
