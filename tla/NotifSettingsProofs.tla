------------------------- MODULE NotifSettingsProofs -------------------------
(***************************************************************************)
(* Proofs about NotifSettings for every set of topics: the type invariant, *)
(* the agreement of the ALL switch with the topics, that the messaging     *)
(* service is told of every preference, and the implementation of          *)
(* TopicChoice.                                                            *)
(***************************************************************************)
EXTENDS NotifSettings, SequenceTheorems, TLAPS

\* What SwitchesAgree needs to be inductive: the cache is the preferences, the
\* mandatory topic is always wanted, and a call in progress is on its way.
CacheIsCurrent == running => current = prefs.on

MandatoryWanted == Mandatory \in prefs.on /\ Mandatory \in disk.on

CallInProgress ==
  /\ pc # "idle" => running
  /\ pc = "derive" => goal = (prefs.on = Option)
  /\ pc = "cascade" => /\ goal = prefs.all /\ todo # {}
                       /\ \A o \in Option \ {Mandatory} :
                            o \in todo \/ (o \in prefs.on) = goal
  /\ pc # "cascade" => todo = {}

\* SwitchesAgree also while the process is down: the next start begins with it.
Settled == pc = "idle" /\ ~torn => Consistent(prefs)

IInv == /\ TypeOK
        /\ CacheIsCurrent
        /\ MandatoryWanted
        /\ CallInProgress
        /\ Settled

LEMMA InitType == Init => TypeOK
<1> SUFFICES ASSUME Init PROVE TypeOK
  OBVIOUS
<1>1. prefs \in Prefs /\ disk \in Prefs
  BY DEF Init, Prefs
<1>2. requests \in [Option -> Seq({"on", "off"})]
  BY DEF Init
<1> QED
  BY <1>1, <1>2 DEF Init, TypeOK

\* Asking for one more subscription keeps the queues of calls well formed.
LEMMA RequestType ==
  ASSUME TypeOK, NEW o \in Option, NEW b \in BOOLEAN,
         UpdateTopicSubscription(o, b)
  PROVE  requests' \in [Option -> Seq({"on", "off"})]
BY DEF TypeOK, UpdateTopicSubscription, Word

\* Writing one flag keeps the preferences well formed.
LEMMA PutType ==
  ASSUME TypeOK, NEW o \in Option, NEW b \in BOOLEAN
  PROVE  /\ [prefs EXCEPT !.on = Put(@, o, b)] \in Prefs
         /\ Put(current, o, b) \subseteq Option
BY DEF TypeOK, Prefs, Put

LEMMA ToggleType ==
  ASSUME TypeOK, NEW o \in Option, ToggleTopic(o) PROVE TypeOK'
<1>1. requests' \in [Option -> Seq({"on", "off"})]
  BY RequestType DEF ToggleTopic, UpdateNotifSettings
<1>2. prefs' \in Prefs /\ current' \subseteq Option
  BY PutType DEF ToggleTopic, UpdateNotifSettings
<1> QED
  BY <1>1, <1>2 DEF ToggleTopic, UpdateNotifSettings, Derived, TypeOK

LEMMA CascadeType ==
  ASSUME TypeOK, NEW o \in Option, CascadeTo(o) PROVE TypeOK'
<1>1. CASE (o \in current) = goal
  BY <1>1 DEF CascadeTo, TypeOK
<1>2. CASE (o \in current) # goal
  <2>1. requests' \in [Option -> Seq({"on", "off"})]
    BY <1>2, RequestType DEF CascadeTo, TypeOK
  <2>2. prefs' \in Prefs /\ current' \subseteq Option
    BY <1>2, PutType DEF CascadeTo, TypeOK
  <2> QED
    BY <2>1, <2>2 DEF CascadeTo, TypeOK
<1> QED
  BY <1>1, <1>2

LEMMA NextType == TypeOK /\ [Next]_vars => TypeOK'
<1> SUFFICES ASSUME TypeOK, [Next]_vars PROVE TypeOK'
  OBVIOUS
<1>1. CASE OpenNews
  <2>1. requests' \in [Option -> Seq({"on", "off"})]
    BY <1>1 DEF OpenNews, Resubscribe, Word, TypeOK
  <2> QED
    BY <1>1, <2>1 DEF OpenNews, callVars, TypeOK, Prefs
<1>2. ASSUME NEW o \in Option, ToggleTopic(o) PROVE TypeOK'
  BY <1>2, ToggleType
<1>3. ASSUME NEW o \in Option, CascadeTo(o) PROVE TypeOK'
  BY <1>3, CascadeType
<1>4. CASE DeriveAll
  <2>1. prefs' \in Prefs
    BY <1>4 DEF DeriveAll, TypeOK, Prefs
  <2> QED
    BY <1>4, <2>1 DEF DeriveAll, serviceVars, TypeOK
<1>5. ASSUME NEW new \in BOOLEAN, SwitchAll(new) PROVE TypeOK'
  <2>1. prefs' \in Prefs
    BY <1>5 DEF SwitchAll, TypeOK, Prefs
  <2> QED
    BY <1>5, <2>1 DEF SwitchAll, CascadeTopics, serviceVars, TypeOK
<1>6. CASE WriteDisk
  BY <1>6 DEF WriteDisk, callVars, serviceVars, TypeOK
<1>7. ASSUME NEW o \in Option, Answer(o) PROVE TypeOK'
  <2>1. requests' \in [Option -> Seq({"on", "off"})]
    BY <1>7 DEF Answer, TypeOK
  <2>2. topic' \in [Option -> {"on", "off", "unknown"}]
    BY <1>7 DEF Answer, TypeOK
  <2> QED
    BY <1>7, <2>1, <2>2 DEF Answer, callVars, TypeOK
<1>8. CASE Crash
  <2>1. requests' \in [Option -> Seq({"on", "off"})]
    BY <1>8 DEF Crash, TypeOK
  <2> QED
    BY <1>8, <2>1 DEF Crash, Consistent, TypeOK
<1>9. CASE UNCHANGED vars
  BY <1>9 DEF vars, callVars, serviceVars, TypeOK
<1> QED
  BY <1>1, <1>2, <1>3, <1>4, <1>5, <1>6, <1>7, <1>8, <1>9 DEF Next

\* The type invariant holds in every behaviour of Settings.java.
THEOREM TypeCorrect == Spec => []TypeOK
BY InitType, NextType, PTL DEF Spec

-----------------------------------------------------------------------------

LEMMA InitIInv == Init => IInv
<1> SUFFICES ASSUME Init PROVE IInv
  OBVIOUS
<1>1. TypeOK
  BY InitType
<1>2. MandatoryWanted
  BY OptionAssumption DEF Init, MandatoryWanted
<1>3. CacheIsCurrent /\ CallInProgress /\ Settled
  BY DEF Init, CacheIsCurrent, CallInProgress, Settled, Consistent
<1> QED
  BY <1>1, <1>2, <1>3 DEF IInv

\* A switch of one topic: either ALL already has the new value, or the call goes
\* on to derive it from flags that include the new one.
LEMMA ToggleIInv ==
  ASSUME IInv, TypeOK', NEW o \in Option, ToggleTopic(o) PROVE IInv'
<1> DEFINE new == o \notin current
<1>1. /\ running /\ pc = "idle" /\ o # Mandatory /\ current = prefs.on
      /\ todo = {} /\ todo' = {} /\ running' = running
      /\ disk' = disk /\ torn' = torn
  BY DEF IInv, CacheIsCurrent, CallInProgress, ToggleTopic, Idle, TypeOK
<1>2. /\ prefs'.all = prefs.all
      /\ prefs'.on = Put(prefs.on, o, new)
      /\ current' = Put(prefs.on, o, new)
  BY <1>1 DEF IInv, TypeOK, Prefs, ToggleTopic, UpdateNotifSettings
<1>3. MandatoryWanted'
  BY <1>1, <1>2 DEF IInv, MandatoryWanted, Put
<1>4. CASE new = prefs.all
  <2>1. pc' = "idle"
    BY <1>1, <1>4 DEF ToggleTopic, UpdateNotifSettings
  <2>2. ~torn => (prefs.all <=> prefs.on = Option)
    BY <1>1 DEF IInv, Settled, Consistent
  <2>3. ~torn => (prefs'.all <=> prefs'.on = Option)
    BY <1>1, <1>2, <1>4, <2>2 DEF Put
  <2> QED
    BY <1>1, <1>2, <1>3, <2>1, <2>3
       DEF IInv, CacheIsCurrent, CallInProgress, Settled, Consistent
<1>5. CASE new # prefs.all
  <2>1. pc' = "derive" /\ goal' = (~prefs.all /\ prefs'.on = Option)
    BY <1>1, <1>2, <1>5 DEF ToggleTopic, UpdateNotifSettings, Derived
  <2>2. prefs.all => prefs'.on # Option
    BY <1>2, <1>5 DEF Put
  <2>3. goal' = (prefs'.on = Option)
    BY <2>1, <2>2
  <2> QED
    BY <1>1, <1>2, <1>3, <2>1, <2>3
       DEF IInv, CacheIsCurrent, CallInProgress, Settled
<1> QED
  BY <1>4, <1>5 DEF IInv, TypeOK, Prefs

\* One turn of the ALL loop: the visited topic has the value of ALL, and when no
\* topic is left all of them but the mandatory one do.
LEMMA CascadeIInv ==
  ASSUME IInv, TypeOK', NEW o \in Option, CascadeTo(o) PROVE IInv'
<1>1. /\ running /\ pc = "cascade" /\ o \in todo /\ current = prefs.on
      /\ todo' = todo \ {o} /\ running' = running
      /\ disk' = disk /\ goal' = goal
      /\ o # Mandatory /\ goal = prefs.all /\ goal \in BOOLEAN
  BY DEF IInv, CacheIsCurrent, CallInProgress, CascadeTo, TypeOK
<1>2. /\ prefs'.all = prefs.all
      /\ prefs'.on = Put(prefs.on, o, goal)
      /\ current' = prefs'.on
  BY <1>1 DEF IInv, TypeOK, Prefs, CascadeTo, Put
<1>3. MandatoryWanted'
  BY <1>1, <1>2 DEF IInv, MandatoryWanted, Put
<1>4. \A p \in Option \ {Mandatory} : p \in todo' \/ (p \in prefs'.on) = goal
  BY <1>1, <1>2 DEF IInv, CallInProgress, Put
<1>5. CASE todo' = {}
  <2>1. pc' = "idle"
    BY <1>1, <1>5 DEF CascadeTo
  <2>2. prefs'.on \subseteq Option /\ Mandatory \in prefs'.on
    BY <1>3 DEF TypeOK, Prefs, MandatoryWanted
  <2>3. goal => prefs'.on = Option
    BY <1>4, <1>5, <2>2
  <2>4. ~goal => prefs'.on # Option
    BY <1>1, <1>2 DEF Put
  <2> QED
    BY <1>1, <1>2, <1>3, <1>5, <2>1, <2>3, <2>4
       DEF IInv, CacheIsCurrent, CallInProgress, Settled, Consistent
<1>6. CASE todo' # {}
  <2>1. pc' = "cascade"
    BY <1>1, <1>6 DEF CascadeTo
  <2> QED
    BY <1>1, <1>2, <1>3, <1>4, <1>6, <2>1
       DEF IInv, CacheIsCurrent, CallInProgress, Settled
<1> QED
  BY <1>5, <1>6

LEMMA NextIInv == IInv /\ [Next]_vars => IInv'
<1> SUFFICES ASSUME IInv, [Next]_vars PROVE IInv'
  OBVIOUS
<1>0. TypeOK /\ TypeOK'
  BY NextType DEF IInv
<1>1. CASE OpenNews
  BY <1>0, <1>1 DEF OpenNews, callVars, IInv, CacheIsCurrent, MandatoryWanted,
                    CallInProgress, Settled, Consistent
<1>2. ASSUME NEW o \in Option, ToggleTopic(o) PROVE IInv'
  BY <1>0, <1>2, ToggleIInv
<1>3. ASSUME NEW o \in Option, CascadeTo(o) PROVE IInv'
  BY <1>0, <1>3, CascadeIInv
<1>4. CASE DeriveAll
  <2>1. prefs'.all = goal /\ prefs'.on = prefs.on
    BY <1>0, <1>4 DEF DeriveAll, TypeOK, Prefs
  <2>2. goal = (prefs.on = Option) /\ todo = {}
    BY <1>4 DEF DeriveAll, IInv, CallInProgress
  <2> QED
    BY <1>0, <1>4, <2>1, <2>2
       DEF DeriveAll, IInv, CacheIsCurrent, MandatoryWanted, CallInProgress,
           Settled, Consistent
<1>5. ASSUME NEW new \in BOOLEAN, SwitchAll(new) PROVE IInv'
  <2>1. prefs'.all = new /\ prefs'.on = prefs.on
    BY <1>0, <1>5 DEF SwitchAll, TypeOK, Prefs
  <2>2. Option \ {Mandatory} # {}
    BY OptionAssumption
  <2> QED
    BY <1>0, <1>5, <2>1, <2>2
       DEF SwitchAll, CascadeTopics, IInv, CacheIsCurrent, MandatoryWanted,
           CallInProgress, Settled, Idle
<1>6. CASE WriteDisk
  BY <1>0, <1>6 DEF WriteDisk, callVars, IInv, CacheIsCurrent, MandatoryWanted,
                    CallInProgress, Settled, Consistent
<1>7. ASSUME NEW o \in Option, Answer(o) PROVE IInv'
  BY <1>0, <1>7 DEF Answer, callVars, IInv, CacheIsCurrent, MandatoryWanted,
                    CallInProgress, Settled, Consistent
<1>8. CASE Crash
  BY <1>0, <1>8 DEF Crash, IInv, CacheIsCurrent, MandatoryWanted,
                    CallInProgress, Settled
<1>9. CASE UNCHANGED vars
  BY <1>0, <1>9 DEF vars, callVars, IInv, CacheIsCurrent, MandatoryWanted,
                    CallInProgress, Settled, Consistent
<1> QED
  BY <1>1, <1>2, <1>3, <1>4, <1>5, <1>6, <1>7, <1>8, <1>9 DEF Next

LEMMA Invariance == Spec => []IInv
BY InitIInv, NextIInv, PTL DEF Spec

\* For any set of topics: between calls the ALL switch is on exactly when every
\* topic is, unless a crash restored preferences from inside a call.
THEOREM SwitchesAlwaysAgree == Spec => []SwitchesAgree
<1>1. IInv => SwitchesAgree
  BY DEF IInv, Settled, SwitchesAgree, Idle
<1> QED
  BY <1>1, Invariance, PTL

-----------------------------------------------------------------------------
(* Settings.java implements TopicChoice: a click takes effect when its call *)
(* starts, the turns of the loop and the derivation of ALL are stutters.    *)

LEMMA InitChoice == Init => Choice!Init
<1> SUFFICES ASSUME Init PROVE Choice!Init
  OBVIOUS
<1>1. /\ prefs.all = TRUE /\ prefs.on = Option /\ todo = {} /\ pc = "idle"
      /\ running = FALSE
  BY DEF Init
<1> QED
  BY <1>1 DEF Choice!Init, ChosenTopics, AllAsShown

\* Outside the loop the chosen topics are those of the preferences.
LEMMA ChosenOutsideLoop ==
  ASSUME TypeOK, todo = {} PROVE ChosenTopics = prefs.on
BY DEF TypeOK, Prefs, ChosenTopics

LEMMA ToggleIsFlip ==
  ASSUME IInv, IInv', NEW o \in Option, ToggleTopic(o) PROVE Choice!Flip(o)
<1>1. /\ pc = "idle" /\ todo = {} /\ todo' = {} /\ o # Mandatory
      /\ current = prefs.on /\ TypeOK /\ TypeOK'
      /\ running /\ running' = running
  BY DEF IInv, CacheIsCurrent, CallInProgress, ToggleTopic, Idle
<1>2. prefs'.all = prefs.all /\ prefs'.on = Put(prefs.on, o, o \notin prefs.on)
  BY <1>1 DEF TypeOK, Prefs, ToggleTopic, UpdateNotifSettings
<1>3. ChosenTopics = prefs.on /\ ChosenTopics' = prefs'.on
  BY <1>1, ChosenOutsideLoop DEF TypeOK, Prefs, ChosenTopics
<1>4. AllAsShown = prefs.all /\ AllAsShown \in BOOLEAN /\ AllAsShown' \in BOOLEAN
  BY <1>1 DEF AllAsShown, TypeOK, Prefs
<1>5. CASE (o \notin prefs.on) = prefs.all
  <2>1. AllAsShown' = prefs.all
    BY <1>1, <1>2, <1>5 DEF ToggleTopic, UpdateNotifSettings, AllAsShown
  <2> QED
    BY <1>1, <1>2, <1>3, <1>4, <1>5, <2>1
       DEF Choice!Flip, Choice!Truthful, Put
<1>6. CASE (o \notin prefs.on) # prefs.all
  <2>1. AllAsShown' = (~prefs.all /\ prefs'.on = Option)
    BY <1>1, <1>2, <1>6
       DEF ToggleTopic, UpdateNotifSettings, Derived, AllAsShown
  <2>2. prefs.all => prefs'.on # Option
    BY <1>2, <1>6 DEF Put
  <2> QED
    BY <1>1, <1>2, <1>3, <1>4, <2>1, <2>2
       DEF Choice!Flip, Choice!Truthful, Put
<1> QED
  BY <1>1, <1>5, <1>6 DEF TypeOK, Prefs

LEMMA CascadeIsStutter ==
  ASSUME IInv, IInv', NEW o \in Option, CascadeTo(o)
  PROVE  UNCHANGED <<ChosenTopics, AllAsShown, running>>
<1>1. /\ pc = "cascade" /\ pc' # "derive" /\ o \in todo /\ current = prefs.on
      /\ todo' = todo \ {o} /\ goal' = goal /\ goal \in BOOLEAN /\ TypeOK
      /\ running' = running
  BY DEF IInv, CacheIsCurrent, CallInProgress, CascadeTo, TypeOK
<1>2. /\ prefs'.all = prefs.all
      /\ prefs'.on = Put(prefs.on, o, goal)
  BY <1>1 DEF TypeOK, Prefs, CascadeTo, Put
<1>3. AllAsShown' = AllAsShown
  BY <1>1, <1>2 DEF AllAsShown
<1>4. ASSUME NEW p \in Option
      PROVE  (IF p \in todo' THEN goal' ELSE p \in prefs'.on)
               = (IF p \in todo THEN goal ELSE p \in prefs.on)
  BY <1>1, <1>2 DEF Put
<1> QED
  BY <1>1, <1>3, <1>4 DEF ChosenTopics

LEMMA NextChoice == IInv /\ IInv' /\ [Next]_vars => [Choice!Next]_(Choice!vars)
<1> SUFFICES ASSUME IInv, IInv', [Next]_vars
             PROVE  Choice!Next \/ UNCHANGED <<ChosenTopics, AllAsShown, running>>
  BY DEF Choice!vars
<1>0. TypeOK /\ TypeOK'
  BY DEF IInv
<1>1. CASE OpenNews
  <2>1. UNCHANGED <<ChosenTopics, AllAsShown>> /\ running' = TRUE
    BY <1>1 DEF OpenNews, callVars, ChosenTopics, AllAsShown
  <2> QED
    BY <2>1 DEF Choice!Next, Choice!Launch
<1>2. ASSUME NEW o \in Option, ToggleTopic(o) PROVE Choice!Next
  BY <1>2, ToggleIsFlip DEF Choice!Next
<1>3. ASSUME NEW o \in Option, CascadeTo(o)
      PROVE  UNCHANGED <<ChosenTopics, AllAsShown, running>>
  BY <1>3, CascadeIsStutter
<1>4. CASE DeriveAll
  <2>1. prefs'.all = goal /\ prefs'.on = prefs.on /\ todo' = todo /\ goal' = goal
    BY <1>0, <1>4 DEF DeriveAll, TypeOK, Prefs
  <2> QED
    BY <1>4, <2>1 DEF DeriveAll, ChosenTopics, AllAsShown
<1>5. ASSUME NEW new \in BOOLEAN, SwitchAll(new) PROVE Choice!SwitchAll(new)
  <2>1. prefs'.all = new /\ prefs'.on = prefs.on /\ goal' = new
        /\ todo' = Option \ {Mandatory} /\ pc' = "cascade"
        /\ running /\ running' = running
    BY <1>0, <1>5 DEF SwitchAll, CascadeTopics, Idle, TypeOK, Prefs
  <2>2. AllAsShown' = new
    BY <2>1 DEF AllAsShown
  <2>3. Mandatory \in prefs.on
    BY DEF IInv, MandatoryWanted
  <2>4. ChosenTopics' = IF new THEN Option ELSE {Mandatory}
    BY <2>1, <2>3, OptionAssumption DEF ChosenTopics
  <2> QED
    BY <2>1, <2>2, <2>4 DEF Choice!SwitchAll
<1>6. CASE WriteDisk
  BY <1>6 DEF WriteDisk, callVars, ChosenTopics, AllAsShown
<1>7. ASSUME NEW o \in Option, Answer(o)
      PROVE  UNCHANGED <<ChosenTopics, AllAsShown, running>>
  BY <1>7 DEF Answer, callVars, ChosenTopics, AllAsShown
<1>8. CASE Crash
  <2>1. /\ todo' = {} /\ pc' = "idle" /\ prefs' = disk
        /\ running /\ running' = FALSE
    BY <1>8 DEF Crash
  <2>2. ChosenTopics' = disk.on /\ AllAsShown' = disk.all
    BY <1>0, <2>1 DEF ChosenTopics, AllAsShown, TypeOK, Prefs
  <2>3. disk.on \in {C \in SUBSET Option : Mandatory \in C} /\ disk.all \in BOOLEAN
    BY <1>0 DEF IInv, MandatoryWanted, TypeOK, Prefs
  <2> QED
    BY <2>1, <2>2, <2>3 DEF Choice!Next, Choice!Relapse
<1>9. CASE UNCHANGED vars
  BY <1>9 DEF vars, callVars, ChosenTopics, AllAsShown
<1> QED
  BY <1>1, <1>2, <1>3, <1>4, <1>5, <1>6, <1>7, <1>8, <1>9 DEF Next, Choice!Next

\* For any set of topics, every behaviour of Settings.java, crashes included, is
\* one of the abstract choice of topics.
THEOREM ChoiceImplemented == Spec => ImplementsChoice
<1> QED
  BY InitChoice, NextChoice, Invariance, PTL
     DEF Spec, ImplementsChoice, Choice!Spec

-----------------------------------------------------------------------------
(* The messaging service is told *)

\* What was last asked for a topic is what a call of updateTopicSubscription asks.
LEMMA LastIsRequest ==
  ASSUME TypeOK, NEW o \in Option, NEW b \in BOOLEAN,
         UpdateTopicSubscription(o, b), topic' = topic
  PROVE  /\ LastWord(o)' = Word(b)
         /\ \A p \in Option \ {o} : LastWord(p)' = LastWord(p)
<1>1. requests[o] \in Seq({"on", "off"}) /\ Word(b) \in {"on", "off"}
  BY DEF TypeOK, Word
<1>2. requests'[o] = Append(requests[o], Word(b))
  BY DEF UpdateTopicSubscription, TypeOK
<1>3. LastWord(o)' = Word(b)
  BY <1>1, <1>2 DEF LastWord
<1>4. ASSUME NEW p \in Option \ {o} PROVE LastWord(p)' = LastWord(p)
  <2>1. requests'[p] = requests[p]
    BY DEF UpdateTopicSubscription, TypeOK
  <2> QED
    BY <2>1 DEF LastWord
<1> QED
  BY <1>3, <1>4

\* Every topic is asked for anew when the app is opened.
LEMMA OpenNewsTold ==
  ASSUME IInv, OpenNews PROVE SubscriptionFollowsPreference'
<1>1. ASSUME NEW o \in Option PROVE LastWord(o)' = Word(o \in prefs'.on)
  <2>1. requests[o] \in Seq({"on", "off"})
        /\ Word(o \in prefs.on) \in {"on", "off"}
    BY DEF IInv, TypeOK, Word
  <2>2. requests'[o] = Append(requests[o], Word(o \in prefs.on)) /\ prefs' = prefs
    BY DEF OpenNews, Resubscribe
  <2> QED
    BY <2>1, <2>2 DEF LastWord
<1> QED
  BY <1>1 DEF SubscriptionFollowsPreference

\* A change of one topic's preference comes with its call.
LEMMA PutTold ==
  ASSUME IInv, SubscriptionFollowsPreference, running,
         NEW o \in Option, NEW b \in BOOLEAN,
         prefs' = [prefs EXCEPT !.on = Put(@, o, b)],
         UpdateTopicSubscription(o, b), topic' = topic
  PROVE  SubscriptionFollowsPreference'
<1>1. /\ LastWord(o)' = Word(b)
      /\ \A p \in Option \ {o} : LastWord(p)' = LastWord(p)
  BY LastIsRequest DEF IInv
<1>2. prefs'.on = Put(prefs.on, o, b)
  BY DEF IInv, TypeOK, Prefs
<1>3. (o \in prefs'.on) = b
  BY <1>2 DEF Put
<1>4. ASSUME NEW p \in Option
      PROVE  LastWord(p)' \in {Word(p \in prefs'.on), "unknown"}
  <2>1. CASE p = o
    BY <1>1, <1>3, <2>1 DEF Word
  <2>2. CASE p # o
    <3>1. (p \in prefs'.on) <=> (p \in prefs.on)
      BY <1>2, <2>2 DEF Put
    <3>2. LastWord(p) \in {Word(p \in prefs.on), "unknown"}
      BY DEF SubscriptionFollowsPreference
    <3> QED
      BY <1>1, <2>2, <3>1, <3>2 DEF Word
  <2> QED
    BY <2>1, <2>2
<1> QED
  BY <1>4 DEF SubscriptionFollowsPreference

\* An answer takes the oldest call away, and the last one stays or was it.
LEMMA AnswerTold ==
  ASSUME IInv, SubscriptionFollowsPreference, NEW o \in Option, Answer(o)
  PROVE  SubscriptionFollowsPreference'
<1>1. requests[o] \in Seq({"on", "off"}) /\ requests[o] # <<>>
  BY DEF IInv, TypeOK, Answer
<1>2. requests'[o] = Tail(requests[o])
      /\ topic'[o] \in {Head(requests[o]), "unknown"}
  BY DEF Answer, IInv, TypeOK
<1>3. LastWord(o)' \in {LastWord(o), "unknown"}
  <2>1. CASE Len(requests[o]) = 1
    <3>1. requests'[o] = <<>>
      <4>1. Len(Tail(requests[o])) = 0
            /\ Tail(requests[o]) \in Seq({"on", "off"})
        BY <1>1, <2>1, HeadTailProperties
      <4> QED
        BY <1>2, <4>1, EmptySeq
    <3>2. requests[o][Len(requests[o])] = Head(requests[o])
      BY <1>1, <2>1
    <3> QED
      BY <1>1, <1>2, <3>1, <3>2 DEF LastWord
  <2>2. CASE Len(requests[o]) # 1
    <3>1. /\ requests'[o] # <<>>
          /\ requests'[o][Len(requests'[o])] = requests[o][Len(requests[o])]
      <4> DEFINE q == requests[o]
                 t == Tail(requests[o])
      <4>1. /\ t \in Seq({"on", "off"}) /\ Len(t) = Len(q) - 1
            /\ \A k \in 1 .. Len(t) : t[k] = q[k + 1]
        BY <1>1, HeadTailProperties
      <4>2. Len(q) \in Nat \ {0}
        BY <1>1, EmptySeq
      <4>3. Len(q) # 1
        BY <2>2
      <4> HIDE DEF q, t
      <4>4. Len(t) \in 1 .. Len(t) /\ Len(t) + 1 = Len(q) /\ Len(t) # 0
        BY <4>1, <4>2, <4>3
      <4>5. t # <<>>
        BY <4>4, EmptySeq
      <4>6. t[Len(t)] = q[Len(q)]
        BY <4>1, <4>4
      <4> QED
        BY <1>2, <4>5, <4>6 DEF q, t
    <3> QED
      BY <1>1, <3>1 DEF LastWord
  <2> QED
    BY <2>1, <2>2
<1>4. ASSUME NEW p \in Option \ {o} PROVE LastWord(p)' = LastWord(p)
  <2>1. requests'[p] = requests[p] /\ topic'[p] = topic[p]
    BY DEF Answer, IInv, TypeOK
  <2> QED
    BY <2>1 DEF LastWord
<1>5. prefs' = prefs /\ running' = running
  BY DEF Answer
<1> QED
  BY <1>3, <1>4, <1>5 DEF SubscriptionFollowsPreference

\* A step that neither asks nor hears of a topic, and changes none.
LEMMA OtherTold ==
  ASSUME SubscriptionFollowsPreference, requests' = requests, topic' = topic,
         running' = running, prefs'.on = prefs.on
  PROVE  SubscriptionFollowsPreference'
BY DEF SubscriptionFollowsPreference, LastWord

LEMMA NextTold ==
  IInv /\ SubscriptionFollowsPreference /\ [Next]_vars
    => SubscriptionFollowsPreference'
<1> SUFFICES ASSUME IInv, SubscriptionFollowsPreference, [Next]_vars
             PROVE  SubscriptionFollowsPreference'
  OBVIOUS
<1>1. CASE OpenNews
  BY <1>1, OpenNewsTold
<1>2. ASSUME NEW o \in Option, ToggleTopic(o)
      PROVE  SubscriptionFollowsPreference'
  <2>1. (o \notin current) \in BOOLEAN
    OBVIOUS
  <2> QED
    BY <1>2, <2>1, PutTold DEF ToggleTopic, UpdateNotifSettings, Idle
<1>3. ASSUME NEW o \in Option, CascadeTo(o)
      PROVE  SubscriptionFollowsPreference'
  <2>1. CASE (o \in current) = goal
    BY <1>3, <2>1, OtherTold DEF CascadeTo
  <2>2. CASE (o \in current) # goal
    BY <1>3, <2>2, PutTold DEF CascadeTo, IInv, TypeOK
  <2> QED
    BY <2>1, <2>2
<1>4. CASE DeriveAll
  BY <1>4, OtherTold DEF DeriveAll, serviceVars, IInv, TypeOK, Prefs
<1>5. ASSUME NEW new \in BOOLEAN, SwitchAll(new)
      PROVE  SubscriptionFollowsPreference'
  BY <1>5, OtherTold DEF SwitchAll, serviceVars, IInv, TypeOK, Prefs
<1>6. CASE WriteDisk
  BY <1>6, OtherTold DEF WriteDisk, callVars, serviceVars
<1>7. ASSUME NEW o \in Option, Answer(o) PROVE SubscriptionFollowsPreference'
  BY <1>7, AnswerTold
<1>8. CASE Crash
  BY <1>8 DEF Crash, SubscriptionFollowsPreference
<1>9. CASE UNCHANGED vars
  BY <1>9, OtherTold DEF vars, callVars, serviceVars
<1> QED
  BY <1>1, <1>2, <1>3, <1>4, <1>5, <1>6, <1>7, <1>8, <1>9 DEF Next

\* What the messaging service was last told of a topic is what its preference
\* says, or the last call failed, on every path of Settings.java.
THEOREM ServiceIsTold == Spec => []SubscriptionFollowsPreference
<1>1. Init => SubscriptionFollowsPreference
  BY DEF Init, SubscriptionFollowsPreference
<1> QED
  BY <1>1, NextTold, Invariance, PTL DEF Spec
=============================================================================
