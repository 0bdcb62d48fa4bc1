---------------------------- MODULE NotifSettings ----------------------------
(***************************************************************************)
(* Android Settings.java: the notification preferences, their cache in the *)
(* NotifOption enum, and the topic subscriptions they ask of Firebase.     *)
(*                                                                         *)
(* updateNotifSettings and updateAllSetting write several preferences,     *)
(* each with its own apply(): memory changes at once, the disk later, and  *)
(* a process that dies in between comes back with what the disk holds.  So *)
(* a call is split at its applies.  The main thread runs one call at a     *)
(* time (pc); only the disk writer, the messaging service and a crash can  *)
(* come between its steps.                                                 *)
(***************************************************************************)
EXTENDS Naturals, Sequences

CONSTANTS Option,      \* NotifOption.values()
          Mandatory,   \* NotifOption.MANDATORY
          MaxRequests  \* bound: unanswered subscription calls of one topic

ASSUME OptionAssumption == Mandatory \in Option /\ Option # {Mandatory}
ASSUME MaxRequestsAssumption == MaxRequests \in Nat \ {0}

VARIABLES
  running,   \* the process is alive and News_Activity has been created
  prefs,     \* the SharedPreferences in memory: ALL and the topics that are on
  disk,      \* the same, as last written to the file
  current,   \* NotifOption.currentSetting, a static cache
  pc,        \* what the main thread is inside of
  goal,      \* the value the call in progress carries on with
  todo,      \* the topics updateAllSetting's loop has still to visit
  requests,  \* per topic, subscribe/unsubscribe calls not yet answered
  topic,     \* per topic, what the messaging service holds for this device
  torn       \* history: a crash restored preferences from inside a call

callVars == <<pc, goal, todo>>
serviceVars == <<requests, topic>>
vars == <<running, prefs, disk, current, callVars, serviceVars, torn>>

\* A set of flags is the set of the topics whose flag is true.
Prefs == [all : BOOLEAN, on : SUBSET Option]

Put(S, o, flag) == IF flag THEN S \cup {o} ELSE S \ {o}

Word(flag) == IF flag THEN "on" ELSE "off"

Consistent(p) == p.all <=> p.on = Option

Init ==
  /\ running = FALSE
  /\ prefs = [all |-> TRUE, on |-> Option]
  /\ disk = prefs
  /\ current = {}
  /\ pc = "idle" /\ goal = FALSE /\ todo = {}
  /\ requests = [o \in Option |-> <<>>]
  /\ topic = [o \in Option |-> "off"]
  /\ torn = FALSE

Idle == running /\ pc = "idle"

Room(o) == Len(requests[o]) < MaxRequests

-----------------------------------------------------------------------------
(* Calls on the main thread *)

\* mutant: only the topics that are on are asked for again
ResubscribeOnlyOn(o) ==
  IF o \in prefs.on THEN Append(requests[o], "on") ELSE requests[o]

\* resubscribeToAll for one topic: what the preferences say, whatever was asked
Resubscribe(o) == Append(requests[o], Word(o \in prefs.on))

\* News_Activity.onCreate posts this: a Settings object, whose constructor
\* fills the cache, and resubscribeToAll.
OpenNews ==
  /\ pc = "idle"
  /\ \A o \in Option : Room(o)
  /\ running' = TRUE
  /\ current' = prefs.on
  /\ requests' = [o \in Option |-> Resubscribe(o)]
  /\ UNCHANGED <<prefs, disk, callVars, topic, torn>>

\* mutant: the preference is saved and the messaging service not told
NoTopicSubscription(o, subscribe) == UNCHANGED requests

\* updateTopicSubscription, a call into the messaging service
UpdateTopicSubscription(o, subscribe) ==
  requests' = [requests EXCEPT ![o] = Append(@, Word(subscribe))]

\* mutant: ALL is computed before the topic's own flag has changed
DerivedTooEarly(o, new) == ~prefs.all /\ current = Option

\* The argument of updateAllSetting: off if ALL was on, else the conjunction.
Derived(o, new) == ~prefs.all /\ Put(current, o, new) = Option

\* updateNotifSettings up to its call of updateAllSetting, which follows when
\* the new value differs from ALL.
UpdateNotifSettings(o, new) ==
  /\ (o \in current) # new
  /\ prefs' = [prefs EXCEPT !.on = Put(@, o, new)]
  /\ current' = Put(current, o, new)
  /\ UpdateTopicSubscription(o, new)
  /\ IF new = prefs.all
       THEN UNCHANGED <<pc, goal>>
       ELSE /\ pc' = "derive"
            /\ goal' = Derived(o, new)

\* A switch of Notif_Settings_Activity.
ToggleTopic(o) ==
  /\ Idle /\ Room(o) /\ o # Mandatory
  /\ UpdateNotifSettings(o, o \notin current)
  /\ UNCHANGED <<running, disk, todo, topic, torn>>

\* updateAllSetting(goal, false), called at the end of updateNotifSettings
DeriveAll ==
  /\ running /\ pc = "derive"
  /\ prefs' = [prefs EXCEPT !.all = goal]
  /\ pc' = "idle"
  /\ torn' = FALSE
  /\ UNCHANGED <<running, disk, current, goal, todo, serviceVars>>

\* mutant: the loop does not leave the mandatory topic out
CascadeOverAll == Option

\* The topics the loop of updateAllSetting visits.
CascadeTopics == Option \ {Mandatory}

\* The ALL box of Settings_Activity: updateAllSetting(new, true) up to its loop.
SwitchAll(new) ==
  /\ Idle /\ new # prefs.all
  /\ \A o \in Option : Room(o)
  /\ prefs' = [prefs EXCEPT !.all = new]
  /\ pc' = "cascade" /\ goal' = new /\ todo' = CascadeTopics
  /\ UNCHANGED <<running, disk, current, serviceVars, torn>>

\* One turn of that loop.  A topic that already has the value is skipped by
\* the first test of updateNotifSettings.
CascadeTo(o) ==
  /\ running /\ pc = "cascade" /\ o \in todo
  /\ IF (o \in current) = goal
       THEN UNCHANGED <<prefs, current, requests>>
       ELSE /\ prefs' = [prefs EXCEPT !.on = Put(@, o, goal)]
            /\ current' = Put(current, o, goal)
            /\ UpdateTopicSubscription(o, goal)
  /\ todo' = todo \ {o}
  /\ pc' = IF todo' = {} THEN "idle" ELSE pc
  /\ torn' = (torn /\ todo' # {})
  /\ UNCHANGED <<running, disk, goal, topic>>

-----------------------------------------------------------------------------
(* The world around the main thread *)

\* The disk writer saves the preferences as they are in memory.
WriteDisk ==
  /\ disk # prefs
  /\ disk' = prefs
  /\ UNCHANGED <<running, prefs, current, callVars, serviceVars, torn>>

\* The messaging service answers the oldest call of a topic.  After a failure
\* nobody knows what it holds; the code shows a toast and does not retry.
Answer(o) ==
  /\ requests[o] # <<>>
  /\ requests' = [requests EXCEPT ![o] = Tail(@)]
  /\ \E result \in {Head(requests[o]), "unknown"} :
       topic' = [topic EXCEPT ![o] = result]
  /\ UNCHANGED <<running, prefs, disk, current, callVars, torn>>

\* The process dies at any point: memory is what the disk holds, the static
\* cache has its default, and calls not yet stored by the service are gone.
Crash ==
  /\ running
  /\ running' = FALSE
  /\ prefs' = disk
  /\ current' = {}
  /\ pc' = "idle" /\ goal' = FALSE /\ todo' = {}
  /\ \E lost \in SUBSET Option :
       requests' = [o \in Option |-> IF o \in lost THEN <<>> ELSE requests[o]]
  /\ torn' = ~Consistent(disk)
  /\ UNCHANGED <<disk, topic>>

Next ==
  \/ OpenNews
  \/ \E o \in Option : ToggleTopic(o) \/ CascadeTo(o)
  \/ DeriveAll
  \/ \E new \in BOOLEAN : SwitchAll(new)
  \/ WriteDisk
  \/ \E o \in Option : Answer(o)
  \/ Crash

Fairness == \A o \in Option : WF_vars(Answer(o))

Spec == Init /\ [][Next]_vars /\ Fairness

-----------------------------------------------------------------------------
(* Properties *)

\* The shape of every variable; the ALL loop never visits the mandatory topic.
TypeOK ==
  /\ running \in BOOLEAN /\ torn \in BOOLEAN
  /\ prefs \in Prefs /\ disk \in Prefs
  /\ current \subseteq Option
  /\ pc \in {"idle", "derive", "cascade"} /\ goal \in BOOLEAN
  /\ todo \subseteq Option \ {Mandatory}
  /\ requests \in [Option -> Seq({"on", "off"})]
  /\ topic \in [Option -> {"on", "off", "unknown"}]

\* Whenever no call is in progress ALL is on exactly when every topic is, unless
\* a crash brought back preferences from the middle of a call: neither the
\* derivation in updateNotifSettings nor the loop in updateAllSetting may leave
\* the two kinds of switch apart.
SwitchesAgree == Idle /\ ~torn => Consistent(prefs)

\* The last word the messaging service has or will hear of a topic.
LastWord(o) ==
  IF requests[o] = <<>> THEN topic[o] ELSE requests[o][Len(requests[o])]

\* While the app runs, what the service was last told of a topic is what the
\* preference says, or the last call failed: no path of Settings.java changes a
\* preference and forgets the subscription, or the reverse.
SubscriptionFollowsPreference ==
  running => \A o \in Option :
               LastWord(o) \in {Word(o \in prefs.on), "unknown"}

\* If a preference stays as it is and the app keeps running, the service ends
\* up with it, or with a failed call: older calls cannot win at the end.
PreferenceReachesService ==
  \A o \in Option : \A on \in BOOLEAN :
    <>[](running /\ (o \in prefs.on) = on)
      => <>[](topic[o] \in {Word(on), "unknown"})

\* A call counts as done when it starts: a topic the loop has still to visit has
\* the new value already, and so has ALL while it is being derived.
ChosenTopics ==
  {o \in Option : IF o \in todo THEN goal ELSE o \in prefs.on}
AllAsShown == IF pc = "derive" THEN goal ELSE prefs.all

Choice == INSTANCE TopicChoice
            WITH chosen <- ChosenTopics, allOn <- AllAsShown, live <- running

\* Settings.java with its many small writes is the simple choice of topics.
ImplementsChoice == Choice!Spec
=============================================================================
