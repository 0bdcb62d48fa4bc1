--------------------------- MODULE NotifDelivery ---------------------------
(***************************************************************************)
(* Android: NotifService shows a message that comes in while the app runs. *)
(* On its own thread it looks the article up in the tables that the main   *)
(* thread keeps replacing (deleteAll, then add, then db.close()), takes    *)
(* two numbers from a counter in the preferences, asks the system for a    *)
(* PendingIntent with the first and shows the notification under the       *)
(* second.                                                                 *)
(*                                                                         *)
(* PendingIntents belong to the system: they survive the process, and      *)
(* getActivity with flags 0 gives back the one it has for the same request *)
(* code and activity, with the extras it was created with.                 *)
(***************************************************************************)
EXTENDS Naturals

CONSTANTS News, Bulletin, \* the articles of the two lists
          MaxMessages     \* bound: messages ever received

ASSUME ArticlesAssumption == News \cap Bulletin = {}
ASSUME MaxMessagesAssumption == MaxMessages \in Nat

VARIABLES
  alive,     \* the process runs
  table,     \* the articles in ArticleDatabase and in BulletinDatabase
  update,    \* the main thread between deleteAll and add: table and articles
  counter,   \* NOTIF_ID_KEY in memory
  disk,      \* NOTIF_ID_KEY on disk
  received,  \* messages received so far
  service,   \* what onMessageReceived is doing, and for which article
  handle,    \* the SQLiteDatabase the service is about to query is open
  intents,   \* the system's PendingIntents
  shade,     \* the notifications shown
  rolledBack \* history: a crash took the counter back

mainVars == <<table, update>>
systemVars == <<intents, shade>>
vars == <<alive, mainVars, counter, disk, received, service, handle, systemVars,
          rolledBack>>

List == {"news", "bulletin"}
ArticlesOf(l) == IF l = "news" THEN News ELSE Bulletin
Article == News \cup Bulletin

NoUpdate == [list |-> "news", articles |-> {}, kept |-> {}, busy |-> FALSE]
NoCall == [pc |-> "idle", article |-> "none", target |-> "none", code |-> 0]

Init ==
  /\ alive = TRUE
  /\ table \in [List -> {{}}] /\ update = NoUpdate
  /\ counter = 1 /\ disk = 1 /\ received = 0
  /\ service = NoCall /\ handle = FALSE
  /\ intents = {} /\ shade = {}
  /\ rolledBack = FALSE

-----------------------------------------------------------------------------
(* The main thread *)

\* updateArticles of one of the two databases, up to deleteAll.
DeleteAll(l, articles) ==
  /\ alive /\ ~update.busy
  /\ update' = [list |-> l, articles |-> articles, busy |-> TRUE,
                kept |-> table[l] \cap articles]
  /\ table' = [table EXCEPT ![l] = {}]
  /\ UNCHANGED <<alive, counter, disk, received, service, handle, systemVars,
                 rolledBack>>

Querying(l) ==
  service.pc = IF l = "news" THEN "queryNews" ELSE "queryBulletin"

\* add: one transaction, then db.close(), under whoever is about to query it.
Add ==
  /\ alive /\ update.busy
  /\ table' = [table EXCEPT ![update.list] = update.articles]
  /\ update' = NoUpdate
  /\ handle' = (handle /\ ~Querying(update.list))
  /\ UNCHANGED <<alive, counter, disk, received, service, systemVars,
                 rolledBack>>

-----------------------------------------------------------------------------
(* The service's thread: one message after another *)

\* The process is killed, or ended by an exception nobody catches: so does a
\* message without a notification part, whose title is asked for between
\* GetIntent and Notify.
Crash ==
  /\ alive
  /\ alive' = FALSE
  /\ update' = NoUpdate
  /\ service' = NoCall /\ handle' = FALSE
  /\ counter' = disk
  /\ rolledBack' = (rolledBack \/ disk # counter)
  /\ UNCHANGED <<table, disk, received, systemVars>>

\* A message for an article arrives; ArticleDatabase is opened.
Receive(a) ==
  /\ alive /\ service.pc = "idle" /\ received < MaxMessages
  /\ received' = received + 1
  /\ service' = [NoCall EXCEPT !.pc = "queryNews", !.article = a]
  /\ handle' = TRUE
  /\ UNCHANGED <<alive, mainVars, counter, disk, systemVars, rolledBack>>

\* A message that names no article: no table is asked, a tap leads to the list.
ReceivePlain ==
  /\ alive /\ service.pc = "idle" /\ received < MaxMessages
  /\ received' = received + 1
  /\ service' = [NoCall EXCEPT !.pc = "intent", !.target = "list"]
  /\ UNCHANGED <<alive, mainVars, counter, disk, handle, systemVars, rolledBack>>

Found(l) == service.article \in table[l]

\* getArticleById of one database; with its handle closed in the meantime the
\* query throws, which nobody catches.
Query(l) ==
  /\ alive /\ Querying(l)
  /\ IF ~handle THEN Crash
     ELSE /\ service' =
               IF Found(l)
                 THEN [service EXCEPT !.pc = "intent", !.target = l]
               ELSE IF l = "news"
                 THEN [service EXCEPT !.pc = "queryBulletin"]
                 ELSE [service EXCEPT !.pc = "intent", !.target = "list"]
          /\ UNCHANGED <<alive, mainVars, counter, disk, received, handle,
                         systemVars, rolledBack>>

\* mutant: the counter is read and not advanced
SameNumber == counter

\* getUniqueNotifID advances the counter with apply().
NextNumber == counter + 1

\* The extras of an intent: the article, if there is one.
Extra == IF service.target = "list" THEN "none" ELSE service.article

Same(intent, code, target) == intent.code = code /\ intent.target = target

\* PendingIntent.getActivity(this, getUniqueNotifID(), intent, 0)
GetIntent ==
  /\ alive /\ service.pc = "intent"
  /\ intents' = IF \E p \in intents : Same(p, counter, service.target)
                  THEN intents
                  ELSE intents \cup
                         {[code |-> counter, target |-> service.target,
                           extra |-> Extra]}
  /\ service' = [service EXCEPT !.pc = "notify", !.code = counter]
  /\ counter' = NextNumber
  /\ UNCHANGED <<alive, mainVars, disk, received, handle, shade, rolledBack>>

\* mutant: the notification is given a number no intent was made for
FreshCode == counter

\* The PendingIntent that setContentIntent gives the notification.
ContentIntent == service.code

\* notify(getUniqueNotifID(), ...) replaces the notification of that number.
Notify ==
  /\ alive /\ service.pc = "notify"
  /\ shade' = {n \in shade : n.id # counter}
                \cup {[id |-> counter, code |-> ContentIntent,
                       target |-> service.target, about |-> Extra]}
  /\ counter' = NextNumber
  /\ service' = NoCall /\ handle' = FALSE
  /\ UNCHANGED <<alive, mainVars, disk, received, intents, rolledBack>>

-----------------------------------------------------------------------------
(* The system *)

WriteDisk ==
  /\ disk # counter
  /\ disk' = counter
  /\ UNCHANGED <<alive, mainVars, counter, received, service, handle,
                 systemVars, rolledBack>>

Restart ==
  /\ ~alive
  /\ alive' = TRUE
  /\ UNCHANGED <<mainVars, counter, disk, received, service, handle, systemVars,
                 rolledBack>>

\* A PendingIntent someone still refers to.
InUse(p) ==
  \/ \E n \in shade' : Same(p, n.code, n.target)
  \/ service.pc = "notify" /\ Same(p, service.code, service.target)

\* A notification is tapped or swiped away; the system may keep its intent.
Remove(n) ==
  /\ shade' = shade \ {n}
  /\ intents' \in {intents, {p \in intents : InUse(p)}}
  /\ UNCHANGED <<alive, mainVars, counter, disk, received, service, handle,
                 rolledBack>>

Next ==
  \/ \E l \in List : \E S \in SUBSET ArticlesOf(l) : DeleteAll(l, S)
  \/ Add
  \/ \E a \in Article : Receive(a)
  \/ ReceivePlain
  \/ \E l \in List : Query(l)
  \/ GetIntent \/ Notify
  \/ WriteDisk \/ Crash \/ Restart
  \/ \E n \in shade : Remove(n)

Spec == Init /\ [][Next]_vars

-----------------------------------------------------------------------------
(* Properties *)

Target == List \cup {"list"}

\* The shape of every variable; every notification still has its intent.
TypeOK ==
  /\ {alive, handle, rolledBack} \subseteq BOOLEAN
  /\ table \in [List -> SUBSET Article]
  /\ update \in [list : List, articles : SUBSET Article,
                 kept : SUBSET Article, busy : BOOLEAN]
  /\ {counter, disk} \subseteq Nat \ {0} /\ received \in 0 .. MaxMessages
  /\ service \in [pc : {"idle", "queryNews", "queryBulletin", "intent",
                        "notify"},
                  article : Article \cup {"none"},
                  target : Target \cup {"none"}, code : Nat]
  /\ intents \subseteq [code : Nat, target : Target,
                        extra : Article \cup {"none"}]
  /\ shade \subseteq [id : Nat, code : Nat, target : Target,
                      about : Article \cup {"none"}]
  /\ \A n \in shade : \E p \in intents : Same(p, n.code, n.target)

\* Tapping a notification opens the article it is about: getActivity has not
\* given it the PendingIntent of an older one.  Unless a crash took the counter
\* back to numbers that the system still has in use.
TapOpensItsArticle ==
  ~rolledBack =>
    \A n \in shade : \A p \in intents :
      Same(p, n.code, n.target) => p.extra = n.about

\* What the comment of updateArticles says: articles that are in the old list
\* and in the new one are updated rather than destroyed, so a lookup that comes
\* while the list is replaced, and is not cut short, returns such an article.
KeptArticlesFound ==
  [][\A l \in List :
       /\ Query(l) /\ alive'
       /\ update.busy /\ update.list = l /\ service.article \in update.kept
       => service'.target = l]_service
=============================================================================
