------------------------- MODULE NotificationProofs -------------------------
(***************************************************************************)
(* Proofs about the two tables a notification passes through on Android.   *)
(*                                                                         *)
(* NotifDelivery, for every set of articles and any number of messages:    *)
(* the type invariant, and that a tap on a notification opens the article  *)
(* the notification is about.                                              *)
(*                                                                         *)
(* NotifStore, for every finite set of notifications and any number of     *)
(* instances of the page, snapshots and waiting messages: the type         *)
(* invariant, and that the marks, what the page draws and the dot stay     *)
(* right through the replacements of the table.                            *)
(***************************************************************************)
EXTENDS NotifDelivery, NotifStore, SequenceTheorems, FiniteSetTheorems,
        WellFoundedInduction, TLAPS

-----------------------------------------------------------------------------
(* NotifDelivery *)


\* What every notification needs of the system, also while the service is
\* between getActivity and notify: the intent it refers to is still there.
IntentsKept ==
  service.pc = "notify" =>
    \E p \in intents : Same(p, service.code, service.target)

\* A service that has chosen where a tap leads has done so for good.
TargetChosen == service.pc \in {"intent", "notify"} => service.target \in Target

TypeInv == TypeOK /\ IntentsKept /\ TargetChosen

\* The numbers the counter will give out are new, to the intents of the system
\* and to the notifications.
NumbersAreNew ==
  /\ \A p \in intents : p.code < counter
  /\ \A n \in shade : n.code < counter
  /\ service.pc = "notify" => service.code < counter

\* The intent that the service is about to show belongs to its article.
IntentIsOwn ==
  service.pc = "notify" =>
    \A p \in intents : Same(p, service.code, service.target) => p.extra = Extra

IInv ==
  /\ TypeInv
  /\ ~rolledBack => NumbersAreNew /\ IntentIsOwn
  /\ TapOpensItsArticle

Intent == [code : Nat, target : Target, extra : Article \cup {"none"}]
Notification == [id : Nat, code : Nat, target : Target,
                 about : Article \cup {"none"}]
Call == [pc : {"idle", "queryNews", "queryBulletin", "intent", "notify"},
         article : Article \cup {"none"},
         target : Target \cup {"none"}, code : Nat]

-----------------------------------------------------------------------------
(* The type invariant *)

LEMMA InitType == Init => TypeInv
<1> SUFFICES ASSUME Init PROVE TypeInv
  OBVIOUS
<1>1. table \in [List -> SUBSET Article]
  BY DEF Init
<1>2. update \in [list : List, articles : SUBSET Article,
                 kept : SUBSET Article, busy : BOOLEAN]
  BY DEF Init, NoUpdate, List
<1>3. service \in Call /\ service.pc = "idle"
  BY DEF Init, NoCall, Call
<1>4. received \in 0 .. MaxMessages
  BY MaxMessagesAssumption DEF Init
<1>5. {alive, handle, rolledBack} \subseteq BOOLEAN
  BY DEF Init
<1> QED
  BY <1>1, <1>2, <1>3, <1>4, <1>5
  DEF Init, TypeInv, TypeOK, IntentsKept, TargetChosen, Call

\* The end of the process: what the system keeps stays well formed.
LEMMA CrashType == ASSUME TypeInv, Crash PROVE TypeInv'
BY DEF TypeInv, TypeOK, IntentsKept, TargetChosen, Crash, NoUpdate, NoCall, List,
       Target, systemVars, Same

\* The extras of an intent are an article or nothing.
LEMMA ExtraType == ASSUME TypeInv PROVE Extra \in Article \cup {"none"}
BY DEF TypeInv, TypeOK, Extra

LEMMA GetIntentType == ASSUME TypeInv, GetIntent PROVE TypeInv'
<1> DEFINE own == [code |-> counter, target |-> service.target, extra |-> Extra]
<1>1. own \in Intent /\ Same(own, counter, service.target)
  BY ExtraType DEF TypeInv, TypeOK, TargetChosen, GetIntent, Same, Intent
<1>2. intents' \subseteq Intent /\ intents \subseteq intents'
  BY <1>1 DEF GetIntent, TypeInv, TypeOK, Intent
<1>3. service' \in Call /\ service'.pc = "notify"
      /\ service'.code = counter /\ service'.target = service.target
  BY DEF TypeInv, TypeOK, GetIntent, Call
<1>4. \E p \in intents' : Same(p, service'.code, service'.target)
  <2>1. CASE \E p \in intents : Same(p, counter, service.target)
    BY <2>1, <1>2, <1>3
  <2>2. CASE ~(\E p \in intents : Same(p, counter, service.target))
    <3>1. own \in intents'
      BY <2>2 DEF GetIntent
    <3> QED
      BY <3>1, <1>1, <1>3
  <2> QED
    BY <2>1, <2>2
<1>5. \A n \in shade' : \E p \in intents' : Same(p, n.code, n.target)
  BY <1>2 DEF GetIntent, TypeInv, TypeOK
<1>6. counter' \in Nat \ {0}
  BY DEF GetIntent, NextNumber, TypeInv, TypeOK
<1> QED
  BY <1>2, <1>3, <1>4, <1>5, <1>6
  DEF TypeInv, TypeOK, IntentsKept, TargetChosen, GetIntent, mainVars, Intent, Call

LEMMA NotifyType == ASSUME TypeInv, Notify PROVE TypeInv'
<1> DEFINE new == [id |-> counter, code |-> ContentIntent,
                   target |-> service.target, about |-> Extra]
<1>1. new \in Notification
  BY ExtraType
  DEF TypeInv, TypeOK, TargetChosen, Notify, ContentIntent, Notification
<1>2. shade' \subseteq Notification
  BY <1>1 DEF Notify, TypeInv, TypeOK, Notification
<1>3. \A n \in shade' : \E p \in intents' : Same(p, n.code, n.target)
  <2> SUFFICES ASSUME NEW n \in shade'
               PROVE  \E p \in intents : Same(p, n.code, n.target)
    BY DEF Notify
  <2>1. n \in shade \/ n = new
    BY DEF Notify
  <2>2. CASE n = new
    BY <2>2 DEF TypeInv, IntentsKept, Notify, ContentIntent
  <2> QED
    BY <2>1, <2>2 DEF TypeInv, TypeOK
<1>4. counter' \in Nat \ {0}
  BY DEF Notify, NextNumber, TypeInv, TypeOK
<1>5. service' \in Call /\ service'.pc = "idle"
  BY DEF Notify, NoCall, Call
<1>6. {alive', handle', rolledBack'} \subseteq BOOLEAN
  BY DEF Notify, TypeInv, TypeOK
<1> QED
  BY <1>2, <1>3, <1>4, <1>5, <1>6
  DEF TypeInv, TypeOK, IntentsKept, TargetChosen, Notify, mainVars, Call,
      Notification

LEMMA RemoveType == ASSUME TypeInv, NEW n \in shade, Remove(n) PROVE TypeInv'
<1>1. \A m \in shade' : \E p \in intents' : Same(p, m.code, m.target)
  BY DEF TypeInv, TypeOK, Remove, InUse
<1>2. IntentsKept'
  BY DEF TypeInv, IntentsKept, Remove, InUse
<1>3. intents' \subseteq intents /\ shade' \subseteq shade
  BY DEF Remove
<1> QED
  BY <1>1, <1>2, <1>3
  DEF TypeInv, TypeOK, TargetChosen, Remove, mainVars

LEMMA QueryType == ASSUME TypeInv, NEW l \in List, Query(l) PROVE TypeInv'
<1>1. CASE ~handle
  BY <1>1, CrashType DEF Query
<1>2. CASE handle
  <2>1. \E pc \in {"queryBulletin", "intent"} : \E t \in Target \cup {"none"} :
          /\ service' = [service EXCEPT !.pc = pc, !.target = t]
          /\ pc = "intent" => t \in Target
    <3>1. CASE Found(l)
      BY <1>2, <3>1 DEF Query, TypeInv, TypeOK, Target
    <3>2. CASE ~Found(l) /\ l = "news"
      <4>1. service' = [service EXCEPT !.pc = "queryBulletin"]
        BY <1>2, <3>2 DEF Query
      <4>2. service' = [service EXCEPT !.pc = "queryBulletin",
                                       !.target = service.target]
        BY <4>1 DEF TypeInv, TypeOK
      <4> QED
        BY <4>2 DEF TypeInv, TypeOK
    <3>3. CASE ~Found(l) /\ l # "news"
      BY <1>2, <3>3 DEF Query, TypeInv, TypeOK, Target
    <3> QED
      BY <3>1, <3>2, <3>3
  <2>2. service' \in Call /\ service'.pc # "notify"
        /\ (service'.pc = "intent" => service'.target \in Target)
    BY <2>1 DEF TypeInv, TypeOK, Call
  <2> QED
    BY <1>2, <2>2
    DEF Query, TypeInv, TypeOK, IntentsKept, TargetChosen, mainVars, systemVars,
        Call
<1> QED
  BY <1>1, <1>2

LEMMA NextType == TypeInv /\ [Next]_vars => TypeInv'
<1> SUFFICES ASSUME TypeInv, [Next]_vars PROVE TypeInv'
  OBVIOUS
<1> USE DEF TypeInv, TypeOK, IntentsKept, TargetChosen
<1>1. ASSUME NEW l \in List, NEW S \in SUBSET ArticlesOf(l), DeleteAll(l, S)
      PROVE  TypeInv'
  <2>1. S \subseteq Article /\ table[l] \cap S \subseteq Article
    BY DEF ArticlesOf, Article
  <2>2. update' \in [list : List, articles : SUBSET Article,
                     kept : SUBSET Article, busy : BOOLEAN]
    BY <1>1, <2>1 DEF DeleteAll
  <2>3. table' \in [List -> SUBSET Article]
    BY <1>1 DEF DeleteAll
  <2> QED
    BY <1>1, <2>2, <2>3 DEF DeleteAll, systemVars
<1>2. CASE Add
  <2>1. table' \in [List -> SUBSET Article] /\ handle' \in BOOLEAN
    BY <1>2 DEF Add
  <2> QED
    BY <1>2, <2>1 DEF Add, NoUpdate, List, systemVars
<1>3. ASSUME NEW a \in Article, Receive(a) PROVE TypeInv'
  <2>1. service' \in Call /\ service'.pc = "queryNews"
    BY <1>3 DEF Receive, NoCall, Call, Target
  <2>2. received' \in 0 .. MaxMessages
    BY <1>3, MaxMessagesAssumption DEF Receive
  <2> QED
    BY <1>3, <2>1, <2>2 DEF Receive, mainVars, systemVars, Call
<1>4. ASSUME NEW l \in List, Query(l) PROVE TypeInv'
  BY <1>4, QueryType
<1>5. CASE GetIntent
  BY <1>5, GetIntentType
<1>6. CASE Notify
  BY <1>6, NotifyType
<1>7. CASE WriteDisk
  BY <1>7 DEF WriteDisk, mainVars, systemVars
<1>8. CASE Crash
  BY <1>8, CrashType
<1>9. CASE Restart
  BY <1>9 DEF Restart, mainVars, systemVars
<1>10. ASSUME NEW n \in shade, Remove(n) PROVE TypeInv'
  BY <1>10, RemoveType
<1>11. CASE ReceivePlain
  <2>1. service' \in Call /\ service'.pc = "intent" /\ service'.target \in Target
    BY <1>11 DEF ReceivePlain, NoCall, Call, Target
  <2>2. received' \in 0 .. MaxMessages
    BY <1>11, MaxMessagesAssumption DEF ReceivePlain
  <2> QED
    BY <1>11, <2>1, <2>2 DEF ReceivePlain, mainVars, systemVars, Call
<1>12. CASE UNCHANGED vars
  BY <1>12 DEF vars, mainVars, systemVars
<1> QED
  BY <1>1, <1>2, <1>3, <1>4, <1>5, <1>6, <1>7, <1>8, <1>9, <1>10, <1>11, <1>12
  DEF Next

\* Every state is well formed, and every notification has its intent.
THEOREM TypeCorrect == Spec => []TypeOK
<1>1. TypeInv => TypeOK
  BY DEF TypeInv
<1> QED
  BY <1>1, InitType, NextType, PTL DEF Spec

-----------------------------------------------------------------------------
(* A tap opens the article the notification is about *)

LEMMA InitNumbers == Init => IInv
<1> SUFFICES ASSUME Init PROVE IInv
  OBVIOUS
<1>1. NumbersAreNew /\ IntentIsOwn /\ TapOpensItsArticle
  BY DEF Init, NumbersAreNew, IntentIsOwn, TapOpensItsArticle, NoCall
<1> QED
  BY <1>1, InitType DEF IInv

\* getActivity finds no old intent, for the number is new.
LEMMA GetIntentNumbers == ASSUME IInv, GetIntent PROVE IInv'
<1> SUFFICES ASSUME ~rolledBack
             PROVE  NumbersAreNew' /\ IntentIsOwn' /\ TapOpensItsArticle'
  BY GetIntentType DEF IInv, GetIntent, TapOpensItsArticle
<1> DEFINE own == [code |-> counter, target |-> service.target, extra |-> Extra]
<1>1. /\ counter \in Nat /\ counter' = counter + 1
      /\ service' = [service EXCEPT !.pc = "notify", !.code = counter]
      /\ service.pc = "intent" /\ shade' = shade
  BY DEF GetIntent, NextNumber, IInv, TypeInv, TypeOK
<1>2. service'.code = counter /\ service'.target = service.target
      /\ Extra' = Extra
  BY <1>1 DEF IInv, TypeInv, TypeOK, Extra
<1>3. \A p \in intents : p.code \in Nat /\ p.code < counter
  BY DEF IInv, TypeInv, TypeOK, NumbersAreNew
<1>4. intents' = intents \cup {own}
  BY <1>3, <1>1 DEF GetIntent, Same
<1>5. \A n \in shade : n.code \in Nat /\ n.code < counter
  BY DEF IInv, TypeInv, TypeOK, NumbersAreNew
<1>6. NumbersAreNew'
  BY <1>1, <1>2, <1>3, <1>4, <1>5 DEF NumbersAreNew
<1>7. IntentIsOwn'
  BY <1>1, <1>2, <1>3, <1>4 DEF IntentIsOwn, Same
<1>8. TapOpensItsArticle'
  BY <1>1, <1>4, <1>5 DEF IInv, TapOpensItsArticle, Same, GetIntent
<1> QED
  BY <1>6, <1>7, <1>8

\* notify shows the article with the intent that was made for it.
LEMMA NotifyNumbers == ASSUME IInv, Notify PROVE IInv'
<1> SUFFICES ASSUME ~rolledBack
             PROVE  NumbersAreNew' /\ IntentIsOwn' /\ TapOpensItsArticle'
  BY NotifyType DEF IInv, Notify, TapOpensItsArticle
<1> DEFINE new == [id |-> counter, code |-> service.code,
                   target |-> service.target, about |-> Extra]
<1>1. /\ counter \in Nat /\ counter' = counter + 1
      /\ service' = NoCall /\ service.pc = "notify" /\ service.code \in Nat
      /\ intents' = intents /\ shade' \subseteq shade \cup {new}
  BY DEF Notify, NextNumber, ContentIntent, IInv, TypeInv, TypeOK
<1>2. \A p \in intents : p.code \in Nat /\ p.code < counter
  BY DEF IInv, TypeInv, TypeOK, NumbersAreNew
<1>3. \A n \in shade : n.code \in Nat /\ n.code < counter
  BY DEF IInv, TypeInv, TypeOK, NumbersAreNew
<1>4. service.code < counter
  BY <1>1 DEF IInv, NumbersAreNew
<1>5. NumbersAreNew'
  BY <1>1, <1>2, <1>3, <1>4 DEF NumbersAreNew, NoCall
<1>6. IntentIsOwn'
  BY <1>1 DEF IntentIsOwn, NoCall
<1>7. ASSUME NEW n \in shade', NEW p \in intents', Same(p, n.code, n.target)
      PROVE  p.extra = n.about
  <2>1. CASE n = new
    BY <2>1, <1>1, <1>7 DEF IInv, IntentIsOwn
  <2>2. CASE n \in shade
    BY <2>2, <1>1, <1>7 DEF IInv, TapOpensItsArticle
  <2> QED
    BY <1>1, <2>1, <2>2
<1> QED
  BY <1>5, <1>6, <1>7 DEF TapOpensItsArticle

\* A crash that leaves the counter as it is takes nothing back.
LEMMA CrashNumbers == ASSUME IInv, Crash PROVE IInv'
<1>1. ~rolledBack' => ~rolledBack /\ counter' = counter
  BY DEF Crash, IInv, TypeInv, TypeOK
<1>2. service' = NoCall /\ intents' = intents /\ shade' = shade
  BY DEF Crash, systemVars
<1> QED
  BY <1>1, <1>2, CrashType
  DEF IInv, NumbersAreNew, IntentIsOwn, TapOpensItsArticle, NoCall

\* A step that gives out no number and shows nothing new.
LEMMA OtherNumbers ==
  ASSUME IInv, TypeInv', counter' = counter, rolledBack' = rolledBack,
         intents' \subseteq intents, shade' \subseteq shade,
         service'.pc = "notify" => service' = service
  PROVE  IInv'
<1>1. ~rolledBack => NumbersAreNew'
  BY DEF IInv, NumbersAreNew
<1>2. ~rolledBack => IntentIsOwn'
  BY DEF IInv, IntentIsOwn, Extra
<1>3. TapOpensItsArticle'
  BY DEF IInv, TapOpensItsArticle
<1> QED
  BY <1>1, <1>2, <1>3 DEF IInv

LEMMA NextNumbers == IInv /\ [Next]_vars => IInv'
<1> SUFFICES ASSUME IInv, [Next]_vars PROVE IInv'
  OBVIOUS
<1>0. TypeInv'
  BY NextType DEF IInv
<1>1. ASSUME NEW l \in List, NEW S \in SUBSET ArticlesOf(l), DeleteAll(l, S)
      PROVE  IInv'
  BY <1>0, <1>1, OtherNumbers DEF DeleteAll, systemVars
<1>2. CASE Add
  BY <1>0, <1>2, OtherNumbers DEF Add, systemVars
<1>3. ASSUME NEW a \in Article, Receive(a) PROVE IInv'
  <2>1. service'.pc = "queryNews"
    BY <1>3 DEF Receive, NoCall
  <2> QED
    BY <1>0, <1>3, <2>1, OtherNumbers DEF Receive, systemVars
<1>4. ASSUME NEW l \in List, Query(l) PROVE IInv'
  <2>1. CASE ~handle
    BY <1>4, <2>1, CrashNumbers DEF Query
  <2>2. CASE handle
    <3>1. service'.pc # "notify"
      BY <1>4, <2>2 DEF Query, IInv, TypeInv, TypeOK
    <3> QED
      BY <1>0, <1>4, <2>2, <3>1, OtherNumbers DEF Query, systemVars
  <2> QED
    BY <2>1, <2>2
<1>5. CASE GetIntent
  BY <1>5, GetIntentNumbers
<1>6. CASE Notify
  BY <1>6, NotifyNumbers
<1>7. CASE WriteDisk
  BY <1>0, <1>7, OtherNumbers DEF WriteDisk, systemVars
<1>8. CASE Crash
  BY <1>8, CrashNumbers
<1>9. CASE Restart
  BY <1>0, <1>9, OtherNumbers DEF Restart, systemVars
<1>10. ASSUME NEW n \in shade, Remove(n) PROVE IInv'
  <2>1. intents' \subseteq intents /\ shade' \subseteq shade
    BY <1>10 DEF Remove
  <2> QED
    BY <1>0, <1>10, <2>1, OtherNumbers DEF Remove
<1>11. CASE ReceivePlain
  <2>1. service'.pc = "intent"
    BY <1>11 DEF ReceivePlain, NoCall
  <2> QED
    BY <1>0, <1>11, <2>1, OtherNumbers DEF ReceivePlain, systemVars
<1>12. CASE UNCHANGED vars
  BY <1>0, <1>12, OtherNumbers DEF vars, systemVars
<1> QED
  BY <1>1, <1>2, <1>3, <1>4, <1>5, <1>6, <1>7, <1>8, <1>9, <1>10, <1>11, <1>12
  DEF Next

\* Tapping a notification opens the article it is about, unless a crash took the
\* counter back to numbers that are still in use.
THEOREM TapsAreRight == Spec => []TapOpensItsArticle
<1>1. IInv => TapOpensItsArticle
  BY DEF IInv
<1> QED
  BY <1>1, InitNumbers, NextNumbers, PTL DEF Spec

-----------------------------------------------------------------------------
-----------------------------------------------------------------------------
(* NotifStore *)

(* Sets and sequences *)

\* The least element of a set of naturals.
LEMMA LeastIsElement ==
  ASSUME NEW S, S \subseteq Nat, S # {}
  PROVE  Least(S) \in S
<1> DEFINE R == {pair \in Nat \X Nat : pair[1] < pair[2]}
<1>1. IsWellFoundedOn(R, Nat)
  BY NatLessThanWellFounded DEF OpToRel
<1>2. R = {pair \in Nat \X Nat : pair[1] < pair[2]}
  OBVIOUS
<1> HIDE DEF R
<1>3. PICK k \in S : \A j \in S : ~ (<<j, k>> \in R)
  BY <1>1, WFMin
<1>4. \A j \in S : j \in Nat /\ k \in Nat /\ ~(j < k)
  BY <1>2, <1>3
<1>5. \A j \in S : k <= j
  BY <1>4
<1> QED
  BY <1>5 DEF Least

LEMMA IndexType ==
  ASSUME NEW n, NEW ids \in SUBSET Notif
  PROVE  IndexIn(n, ids) \in Nat
<1>1. IsFiniteSet({k \in ids : k < n})
  BY NotifAssumption, FS_Subset
<1> QED
  BY <1>1, FS_CardinalityType DEF IndexIn

\* What is in a sequence.
Elements(q) == {q[k] : k \in DOMAIN q}

LEMMA ElementsOfEmpty == Elements(<<>>) = {}
BY DEF Elements

LEMMA ElementsType ==
  ASSUME NEW S, NEW q \in Seq(S) PROVE Elements(q) \subseteq S
BY ElementOfSeq DEF Elements

LEMMA ElementsOfAppend ==
  ASSUME NEW S, NEW q \in Seq(S), NEW e \in S
  PROVE  /\ Append(q, e) \in Seq(S)
         /\ Elements(Append(q, e)) = Elements(q) \cup {e}
<1>1. /\ Append(q, e) \in Seq(S) /\ Len(Append(q, e)) = Len(q) + 1
      /\ \A i \in 1 .. Len(q) : Append(q, e)[i] = q[i]
      /\ Append(q, e)[Len(q) + 1] = e
  BY AppendProperties
<1>2. /\ Len(q) \in Nat /\ DOMAIN q = 1 .. Len(q)
      /\ DOMAIN Append(q, e) = 1 .. Len(q) + 1
  BY <1>1, LenProperties
<1>3. ASSUME NEW x \in Elements(Append(q, e)) PROVE x \in Elements(q) \cup {e}
  <2>1. PICK k \in 1 .. Len(q) + 1 : x = Append(q, e)[k]
    BY <1>2, <1>3 DEF Elements
  <2> QED
    BY <1>1, <1>2, <2>1 DEF Elements
<1>4. ASSUME NEW x \in Elements(q) PROVE x \in Elements(Append(q, e))
  <2>1. PICK k \in 1 .. Len(q) : x = q[k]
    BY <1>2, <1>4 DEF Elements
  <2>2. k \in DOMAIN Append(q, e) /\ x = Append(q, e)[k]
    BY <1>1, <1>2, <2>1
  <2> QED
    BY <2>2 DEF Elements
<1>5. e \in Elements(Append(q, e))
  <2>1. Len(q) + 1 \in DOMAIN Append(q, e)
    BY <1>2
  <2> QED
    BY <1>1, <2>1 DEF Elements
<1> QED
  BY <1>1, <1>3, <1>4, <1>5

LEMMA ElementsOfTail ==
  ASSUME NEW S, NEW q \in Seq(S), q # <<>>
  PROVE  /\ Head(q) \in Elements(q) /\ Tail(q) \in Seq(S)
         /\ Elements(q) = Elements(Tail(q)) \cup {Head(q)}
<1>1. /\ Head(q) = q[1] /\ Tail(q) \in Seq(S) /\ Len(Tail(q)) = Len(q) - 1
      /\ \A i \in 1 .. Len(Tail(q)) : Tail(q)[i] = q[i + 1]
  BY HeadTailProperties
<1>2. /\ Len(q) \in Nat /\ Len(q) > 0 /\ DOMAIN q = 1 .. Len(q)
      /\ DOMAIN Tail(q) = 1 .. Len(q) - 1
  BY <1>1, LenProperties, EmptySeq
<1>3. Head(q) \in Elements(q)
  BY <1>1, <1>2 DEF Elements
<1>4. ASSUME NEW x \in Elements(q) PROVE x \in Elements(Tail(q)) \cup {Head(q)}
  <2>1. PICK k \in 1 .. Len(q) : x = q[k]
    BY <1>2, <1>4 DEF Elements
  <2>2. CASE k = 1
    BY <1>1, <2>1, <2>2
  <2>3. CASE k # 1
    <3>1. k - 1 \in 1 .. Len(q) - 1 /\ k - 1 + 1 = k
      BY <1>2, <2>1, <2>3
    <3>2. k - 1 \in DOMAIN Tail(q) /\ x = Tail(q)[k - 1]
      BY <1>1, <1>2, <2>1, <3>1
    <3> QED
      BY <3>2 DEF Elements
  <2> QED
    BY <2>2, <2>3
<1>5. ASSUME NEW x \in Elements(Tail(q)) PROVE x \in Elements(q)
  <2>1. PICK k \in 1 .. Len(q) - 1 : x = Tail(q)[k]
    BY <1>2, <1>5 DEF Elements
  <2>2. k + 1 \in DOMAIN q /\ x = q[k + 1]
    BY <1>1, <1>2, <2>1
  <2> QED
    BY <2>2 DEF Elements
<1> QED
  BY <1>1, <1>3, <1>4, <1>5

LEMMA ElementsOfConcat ==
  ASSUME NEW S, NEW p \in Seq(S), NEW q \in Seq(S)
  PROVE  /\ p \o q \in Seq(S)
         /\ Elements(p \o q) \subseteq Elements(p) \cup Elements(q)
         /\ Elements(p) \subseteq Elements(p \o q)
<1>1. /\ p \o q \in Seq(S) /\ Len(p \o q) = Len(p) + Len(q)
      /\ \A i \in 1 .. Len(p) + Len(q) :
           (p \o q)[i] = IF i <= Len(p) THEN p[i] ELSE q[i - Len(p)]
  BY ConcatProperties
<1>2. /\ Len(p) \in Nat /\ DOMAIN p = 1 .. Len(p)
      /\ Len(q) \in Nat /\ DOMAIN q = 1 .. Len(q)
      /\ DOMAIN (p \o q) = 1 .. Len(p) + Len(q)
  BY <1>1, LenProperties
<1>3. ASSUME NEW x \in Elements(p \o q) PROVE x \in Elements(p) \cup Elements(q)
  <2>1. PICK k \in 1 .. Len(p) + Len(q) : x = (p \o q)[k]
    BY <1>2, <1>3 DEF Elements
  <2>2. CASE k <= Len(p)
    <3>1. k \in DOMAIN p /\ x = p[k]
      BY <1>1, <1>2, <2>1, <2>2
    <3> QED
      BY <3>1 DEF Elements
  <2>3. CASE ~(k <= Len(p))
    <3>1. k - Len(p) \in DOMAIN q
      BY <1>2, <2>1, <2>3
    <3>2. x = q[k - Len(p)]
      BY <1>1, <2>1, <2>3
    <3> QED
      BY <3>1, <3>2 DEF Elements
  <2> QED
    BY <2>2, <2>3
<1>4. ASSUME NEW x \in Elements(p) PROVE x \in Elements(p \o q)
  <2>1. PICK k \in 1 .. Len(p) : x = p[k]
    BY <1>2, <1>4 DEF Elements
  <2>2. k \in 1 .. Len(p) + Len(q) /\ x = (p \o q)[k]
    BY <1>1, <1>2, <2>1
  <2> QED
    BY <1>2, <2>2 DEF Elements
<1> QED
  BY <1>1, <1>3, <1>4

\* All but the last.
LEMMA ElementsOfFront ==
  ASSUME NEW S, NEW q \in Seq(S), q # <<>>
  PROVE  /\ Len(q) \in Nat \ {0} /\ q[Len(q)] \in Elements(q)
         /\ SubSeq(q, 1, Len(q) - 1) \in Seq(S)
         /\ Elements(SubSeq(q, 1, Len(q) - 1)) \subseteq Elements(q)
         /\ Len(q) = 1 => SubSeq(q, 1, Len(q) - 1) = <<>>
         /\ Len(q) # 1 => SubSeq(q, 1, Len(q) - 1) # <<>>
<1>1. Len(q) \in Nat \ {0} /\ DOMAIN q = 1 .. Len(q)
  BY LenProperties, EmptySeq
<1>2. q[Len(q)] \in Elements(q)
  BY <1>1 DEF Elements
<1> DEFINE front == SubSeq(q, 1, Len(q) - 1)
<1>3. \A i \in 1 .. Len(q) - 1 : q[i] \in S
  BY <1>1, ElementOfSeq
<1>4. /\ front \in Seq(S) /\ Len(front) = Len(q) - 1
      /\ \A i \in 1 .. Len(q) - 1 : front[i] = q[i]
  BY <1>1, <1>3, SubSeqProperties
<1> HIDE DEF front
<1>5. DOMAIN front = 1 .. Len(q) - 1
  BY <1>1, <1>4, LenProperties
<1>6. Elements(front) \subseteq Elements(q)
  BY <1>1, <1>4, <1>5 DEF Elements
<1>7. (Len(q) = 1 => front = <<>>) /\ (Len(q) # 1 => front # <<>>)
  BY <1>1, <1>4, EmptySeq
<1> QED
  BY <1>1, <1>2, <1>4, <1>6, <1>7 DEF front

LEMMA WaitingIn == ASSUME NEW kinds
  PROVE Waiting(kinds) <=> \E m \in Elements(queue) : m.kind \in kinds
BY DEF Waiting, Elements
LEMMA WaitingInNext == ASSUME NEW kinds
  PROVE Waiting(kinds)' <=> \E m \in Elements(queue') : m.kind \in kinds
BY DEF Waiting, Elements

-----------------------------------------------------------------------------
(* The shape of the state *)

DataMessage == [kind : {"data"}, ids : SUBSET Notif, btn : BOOLEAN,
                for : SUBSET Screen]
Click == [kind : {"click"}, id : Notif, gen : Nat]
Job == [for : SUBSET Screen, ids : SUBSET Notif, left : Rows, busy : BOOLEAN]

\* Between two messages nothing is left to do, and what is about to be inserted
\* has marks on its own rows only.
JobShape ==
  /\ ~job.busy => job = NoJob
  /\ job.busy => running
  /\ job.left.read \subseteq job.left.ids

\* An open article, a result and a click have the page they belong to; results
\* wait for the articles below, and no click is left when one has come.
PageShown ==
  /\ (\/ reading # <<>> \/ results # <<>>
      \/ \E m \in Elements(queue) : m.kind \in {"click", "result"})
     => stack # <<>>
  /\ results # <<>> => reading # <<>>
  /\ results # <<>> \/ (\E m \in Elements(queue) : m.kind = "result")
     => \A m \in Elements(queue) : m.kind # "click"

\* A click is bound to an object that the page has, or had once.
ClicksBound ==
  \A m \in Elements(queue) : m.kind = "click" =>
    /\ m.gen <= adapter[Visible].gen
    /\ m.gen = adapter[Visible].gen => m.id \in adapter[Visible].ids

\* So are the views.
ViewsBound ==
  \A s \in Screen :
    /\ shown[s].gen <= adapter[s].gen
    /\ shown[s].gen = adapter[s].gen => shown[s].ids = adapter[s].ids

StoreTypeInv ==
  StoreTypeOK /\ JobShape /\ PageShown /\ ClicksBound /\ ViewsBound

LEMMA MessageKinds ==
  ASSUME NEW m \in Message
  PROVE  /\ m.kind \in {"data", "click", "result"}
         /\ m.kind = "data" => m \in DataMessage
         /\ m.kind = "click" => m \in Click
         /\ m.kind = "result" => m \in Result
BY DEF Message, DataMessage, Click, Result

LEMMA MessageIsOne ==
  /\ DataMessage \subseteq Message /\ Click \subseteq Message
  /\ Result \subseteq Message
BY DEF Message, DataMessage, Click, Result

LEMMA ScreenType ==
  ASSUME StoreTypeOK, stack # <<>>
  PROVE  /\ Len(stack) \in Nat \ {0} /\ Visible \in 1 .. opened
         /\ Visible \in Screen
<1>1. stack \in Seq(1 .. opened) /\ opened \in 0 .. MaxScreens
  BY DEF StoreTypeOK
<1>2. Len(stack) \in Nat \ {0} /\ stack[Len(stack)] \in Elements(stack)
  BY <1>1, ElementsOfFront
<1>3. Visible \in 1 .. opened
  BY <1>1, <1>2, ElementsType DEF Visible
<1> QED
  BY <1>1, <1>2, <1>3, BoundsAssumption DEF Screen

LEMMA MessageTypes ==
  ASSUME StoreTypeOK
  PROVE  /\ queue \in Seq(Message)
         /\ \A m \in Elements(queue) :
              /\ m \in Message /\ m.kind \in {"data", "click", "result"}
              /\ m.kind = "data" => m \in DataMessage
              /\ m.kind = "click" => m \in Click
              /\ m.kind = "result" => m \in Result
<1>1. queue \in Seq(Message)
  BY DEF StoreTypeOK
<1>2. Elements(queue) \subseteq Message
  BY <1>1, ElementsType
<1> QED
  BY <1>1, <1>2, MessageKinds

LEMMA StoreInitType == StoreInit => StoreTypeInv
<1> SUFFICES ASSUME StoreInit PROVE StoreTypeInv
  OBVIOUS
<1>1. rows \in Rows /\ rows.read \subseteq rows.ids
  BY DEF StoreInit, Nothing, Rows
<1>2. job \in Job /\ JobShape
  BY DEF StoreInit, NoJob, Nothing, Job, Rows, JobShape
<1>3. /\ adapter \in [Screen -> Objects] /\ shown = adapter
      /\ \A s \in Screen : adapter[s].read \subseteq adapter[s].ids
  BY DEF StoreInit, NoObjects, Objects
<1>4. /\ queue = <<>> /\ reading = <<>> /\ results = <<>> /\ stack = <<>>
      /\ queue \in Seq(Message) /\ {reading, results} \subseteq Seq(Result)
      /\ stack \in Seq(1 .. opened)
  BY EmptySeq DEF StoreInit
<1>5. opened \in 0 .. MaxScreens /\ sent \in 0 .. MaxSnapshots
  BY BoundsAssumption DEF StoreInit
<1>6. /\ {running, synced, dot} \subseteq BOOLEAN /\ list \subseteq Notif
      /\ position \in [Screen -> Nat \cup {NO_POSITION}]
      /\ marked \subseteq Notif /\ returned \in [Screen -> SUBSET Notif]
  BY DEF StoreInit
<1>7. StoreTypeOK
  BY <1>1, <1>2, <1>3, <1>4, <1>5, <1>6 DEF StoreTypeOK, Job
<1>8. PageShown /\ ClicksBound
  BY <1>4, ElementsOfEmpty DEF PageShown, ClicksBound
<1>9. ViewsBound
  BY <1>3 DEF ViewsBound, Objects
<1> QED
  BY <1>2, <1>7, <1>8, <1>9 DEF StoreTypeInv

\* The end of the process leaves nothing but the table and what is marked in it.
LEMMA EndType ==
  ASSUME StoreTypeInv, EndProcess, rows' \in Rows, rows'.read \subseteq rows'.ids,
         marked' \subseteq Notif
  PROVE  StoreTypeInv'
<1>1. job' \in Job /\ JobShape'
  BY DEF EndProcess, NoJob, Nothing, Job, Rows, JobShape
<1>2. /\ adapter' \in [Screen -> Objects] /\ shown' = adapter'
      /\ \A s \in Screen : adapter'[s].read \subseteq adapter'[s].ids
  BY DEF EndProcess, NoObjects, Objects
<1>3. /\ queue' = <<>> /\ reading' = <<>> /\ results' = <<>>
      /\ queue' \in Seq(Message) /\ {reading', results'} \subseteq Seq(Result)
      /\ stack' \in Seq(1 .. opened')
  BY EmptySeq DEF EndProcess
<1>4. opened' \in 0 .. MaxScreens /\ sent' \in 0 .. MaxSnapshots
  BY BoundsAssumption DEF EndProcess
<1>5. /\ {running', synced', dot'} \subseteq BOOLEAN /\ list' \subseteq Notif
      /\ position' \in [Screen -> Nat \cup {NO_POSITION}]
      /\ returned' \in [Screen -> SUBSET Notif]
  BY DEF EndProcess
<1>6. StoreTypeOK'
  BY <1>1, <1>2, <1>3, <1>4, <1>5 DEF StoreTypeOK, Job
<1>7. PageShown' /\ ClicksBound'
  BY <1>3, ElementsOfEmpty DEF PageShown, ClicksBound
<1>8. ViewsBound'
  BY <1>2 DEF ViewsBound, Objects
<1> QED
  BY <1>1, <1>6, <1>7, <1>8 DEF StoreTypeInv

LEMMA DieType ==
  ASSUME StoreTypeInv, Die PROVE StoreTypeInv'
<1>1. /\ rows' = rows /\ rows \in Rows /\ rows.read \subseteq rows.ids
      /\ marked' \subseteq Notif
  BY DEF Die, StoreTypeInv, StoreTypeOK
<1> QED
  BY <1>1, EndType DEF Die

LEMMA StartType ==
  ASSUME StoreTypeInv, Start PROVE StoreTypeInv'
<1>1. /\ running' = TRUE
      /\ UNCHANGED <<synced, list, sent, queue, job, rows, dot, screenVars,
                     visitVars, history>>
  BY DEF Start
<1>2. StoreTypeOK'
  BY <1>1 DEF StoreTypeInv, StoreTypeOK, screenVars, visitVars, history
<1>3. JobShape' /\ PageShown' /\ ClicksBound' /\ ViewsBound'
  BY <1>1 DEF StoreTypeInv, JobShape, PageShown, ClicksBound, ViewsBound,
              Visible, screenVars, visitVars, history
<1> QED
  BY <1>2, <1>3 DEF StoreTypeInv

\* A message of the list, or a click, comes in.
LEMMA SnapshotType ==
  ASSUME StoreTypeInv, NEW ids \in SUBSET Notif, Snapshot(ids)
  PROVE  StoreTypeInv'
<1> DEFINE m == [kind |-> "data", ids |-> ids, btn |-> TRUE, for |-> 1 .. opened]
<1>1. m \in Message /\ m.kind = "data"
  <2>1. 1 .. opened \in SUBSET Screen
    BY BoundsAssumption DEF StoreTypeInv, StoreTypeOK, Screen
  <2> QED
    BY <2>1 DEF Message
<1>2. queue' = Append(queue, m) /\ UNCHANGED stack
  BY DEF Snapshot, screenVars
<1> HIDE DEF m
<1>3. /\ queue' \in Seq(Message)
      /\ Elements(queue') = Elements(queue) \cup {m}
  BY <1>1, <1>2, ElementsOfAppend DEF StoreTypeInv, StoreTypeOK
<1>4. StoreTypeOK'
  BY <1>3, BoundsAssumption DEF Snapshot, StoreTypeInv, StoreTypeOK, screenVars, visitVars,
     history
<1>5. JobShape' /\ ViewsBound'
  BY DEF Snapshot, StoreTypeInv, JobShape, ViewsBound, screenVars
<1>6. PageShown'
  BY <1>1, <1>2, <1>3 DEF Snapshot, StoreTypeInv, PageShown, visitVars
<1>7. ClicksBound'
  BY <1>1, <1>2, <1>3 DEF Snapshot, StoreTypeInv, ClicksBound, Visible, screenVars
<1> QED
  BY <1>4, <1>5, <1>6, <1>7 DEF StoreTypeInv

LEMMA OpenScreenType ==
  ASSUME StoreTypeInv, OpenScreen PROVE StoreTypeInv'
<1> DEFINE m == [kind |-> "data", ids |-> list, btn |-> FALSE, for |-> {opened'}]
<1>1. opened' = opened + 1 /\ opened' \in Screen /\ opened' \in 0 .. MaxScreens
  BY BoundsAssumption DEF OpenScreen, StoreTypeInv, StoreTypeOK, Screen
<1>2. m \in Message /\ m.kind = "data"
  BY <1>1 DEF StoreTypeInv, StoreTypeOK, Message
<1>3. queue' = IF synced THEN Append(queue, m) ELSE queue
  BY DEF OpenScreen
<1> HIDE DEF m
<1>4. /\ queue' \in Seq(Message)
      /\ Elements(queue') \subseteq Elements(queue) \cup {m}
  <2>1. queue \in Seq(Message)
    BY DEF StoreTypeInv, StoreTypeOK
  <2> QED
    BY <1>2, <1>3, <2>1, ElementsOfAppend
<1>5. stack' \in Seq(1 .. opened')
  <2>1. stack \in Seq(1 .. opened) /\ opened \in Nat
    BY BoundsAssumption DEF StoreTypeInv, StoreTypeOK
  <2>2. stack \in Seq(1 .. opened')
    <3>1. 1 .. opened \subseteq 1 .. opened'
      BY <1>1, <2>1
    <3> QED
      BY <2>1, <3>1, SeqMonotonic
  <2>3. opened' \in 1 .. opened'
    BY <1>1, <2>1
  <2> QED
    BY <2>2, <2>3, AppendProperties DEF OpenScreen
<1>6. StoreTypeOK'
  BY <1>1, <1>4, <1>5 DEF OpenScreen, StoreTypeInv, StoreTypeOK,
     processVars, visitVars, history
<1>7. JobShape' /\ ViewsBound'
  BY DEF OpenScreen, StoreTypeInv, JobShape, ViewsBound, processVars
<1>8. \A k \in Elements(queue) : k.kind \notin {"click", "result"}
  BY WaitingIn DEF OpenScreen, Still
<1>9. reading' = <<>> /\ results' = <<>>
  BY DEF OpenScreen, Still, StoreTypeInv, PageShown, visitVars
<1>10. \A k \in Elements(queue') : k.kind \notin {"click", "result"}
  BY <1>2, <1>4, <1>8
<1>11. PageShown' /\ ClicksBound'
  BY <1>9, <1>10 DEF PageShown, ClicksBound
<1> QED
  BY <1>6, <1>7, <1>11 DEF StoreTypeInv

LEMMA CloseScreenType ==
  ASSUME StoreTypeInv, CloseScreen PROVE StoreTypeInv'
<1>1. Visible \in Screen
  BY ScreenType DEF CloseScreen, StoreTypeInv
<1>2. /\ adapter' = [adapter EXCEPT ![Visible] = NoObjects]
      /\ shown' = [shown EXCEPT ![Visible] = NoObjects]
      /\ NoObjects \in Objects /\ NoObjects.read \subseteq NoObjects.ids
      /\ adapter \in [Screen -> Objects] /\ shown \in [Screen -> Objects]
  BY DEF CloseScreen, StoreTypeInv, StoreTypeOK, NoObjects, Objects
<1>3. /\ adapter' \in [Screen -> Objects] /\ shown' \in [Screen -> Objects]
      /\ \A s \in Screen : adapter'[s].read \subseteq adapter'[s].ids
  <2>1. \A s \in Screen : adapter[s].read \subseteq adapter[s].ids
    BY DEF StoreTypeInv, StoreTypeOK
  <2> QED
    BY <1>1, <1>2, <2>1
<1>4. ViewsBound'
  <2>1. ASSUME NEW s \in Screen
        PROVE  /\ shown'[s].gen <= adapter'[s].gen
               /\ shown'[s].gen = adapter'[s].gen => shown'[s].ids = adapter'[s].ids
    <3>1. CASE s = Visible
      <4>1. shown'[s] = NoObjects /\ adapter'[s] = NoObjects /\ NoObjects.gen = 0
        BY <1>1, <1>2, <3>1 DEF NoObjects
      <4> QED
        BY <4>1
    <3>2. CASE s # Visible
      <4>1. shown'[s] = shown[s] /\ adapter'[s] = adapter[s]
        BY <1>1, <1>2, <3>2
      <4> QED
        BY <4>1 DEF StoreTypeInv, ViewsBound
    <3> QED
      BY <3>1, <3>2
  <2> QED
    BY <2>1 DEF ViewsBound
<1>5. stack' \in Seq(1 .. opened)
  BY ElementsOfFront DEF CloseScreen, StoreTypeInv, StoreTypeOK
<1>6. /\ position' \in [Screen -> Nat \cup {NO_POSITION}]
      /\ returned' \in [Screen -> SUBSET Notif]
  BY <1>1 DEF CloseScreen, StoreTypeInv, StoreTypeOK
<1>7. StoreTypeOK'
  BY <1>3, <1>5, <1>6 DEF CloseScreen, StoreTypeInv, StoreTypeOK, processVars, visitVars
<1>8. JobShape'
  BY DEF CloseScreen, StoreTypeInv, JobShape, processVars
<1>9. \A k \in Elements(queue) : k.kind \notin {"click", "result"}
  BY WaitingIn DEF CloseScreen, Still
<1>10. reading' = <<>> /\ results' = <<>> /\ queue' = queue
  BY DEF CloseScreen, Still, StoreTypeInv, PageShown, visitVars
<1>11. PageShown' /\ ClicksBound'
  BY <1>9, <1>10 DEF PageShown, ClicksBound
<1> QED
  BY <1>4, <1>7, <1>8, <1>11 DEF StoreTypeInv

LEMMA LayoutType ==
  ASSUME StoreTypeInv, Layout PROVE StoreTypeInv'
<1>1. Visible \in Screen
  BY ScreenType DEF Layout, StoreTypeInv
<1>2. /\ shown' = [shown EXCEPT ![Visible] = adapter[Visible]]
      /\ adapter \in [Screen -> Objects] /\ shown \in [Screen -> Objects]
      /\ adapter' = adapter
  BY DEF Layout, StoreTypeInv, StoreTypeOK
<1>3. shown' \in [Screen -> Objects]
  BY <1>1, <1>2
<1>4. StoreTypeOK'
  BY <1>3 DEF Layout, StoreTypeInv, StoreTypeOK, processVars, visitVars, history
<1>5. ViewsBound'
  BY <1>1, <1>2 DEF StoreTypeInv, ViewsBound, Objects
<1>6. JobShape' /\ PageShown' /\ ClicksBound'
  BY DEF Layout, StoreTypeInv, JobShape, PageShown, ClicksBound, Visible,
         processVars, visitVars
<1> QED
  BY <1>4, <1>5, <1>6 DEF StoreTypeInv

LEMMA TouchType ==
  ASSUME StoreTypeInv, NEW n \in Notif, Touch(n) PROVE StoreTypeInv'
<1> DEFINE m == [kind |-> "click", id |-> n, gen |-> shown[Visible].gen]
<1>1. /\ Visible \in Screen /\ stack # <<>> /\ n \in shown[Visible].ids
      /\ reading = <<>> /\ results = <<>>
      /\ \A k \in Elements(queue) : k.kind # "result"
  BY ScreenType, WaitingIn DEF Touch, StoreTypeInv, PageShown
<1>2. /\ shown[Visible].gen \in Nat /\ shown[Visible].gen <= adapter[Visible].gen
      /\ shown[Visible].gen = adapter[Visible].gen => n \in adapter[Visible].ids
  BY <1>1 DEF StoreTypeInv, StoreTypeOK, ViewsBound, Objects
<1>3. /\ m \in Message /\ m.kind = "click" /\ m.gen <= adapter[Visible].gen
      /\ m.gen = adapter[Visible].gen => m.id \in adapter[Visible].ids
  BY <1>2 DEF Message
<1>4. queue' = Append(queue, m) /\ UNCHANGED <<stack, adapter, shown, reading, results>>
  BY DEF Touch, screenVars, visitVars
<1> HIDE DEF m
<1>5. /\ queue' \in Seq(Message)
      /\ Elements(queue') = Elements(queue) \cup {m}
  BY <1>3, <1>4, ElementsOfAppend DEF StoreTypeInv, StoreTypeOK
<1>6. StoreTypeOK'
  BY <1>5 DEF Touch, StoreTypeInv, StoreTypeOK, processVars, screenVars, visitVars,
     history
<1>7. JobShape' /\ ViewsBound'
  BY DEF Touch, StoreTypeInv, JobShape, ViewsBound, screenVars, processVars
<1>8. PageShown'
  BY <1>1, <1>3, <1>4, <1>5 DEF PageShown
<1>9. ClicksBound'
  BY <1>3, <1>4, <1>5 DEF StoreTypeInv, ClicksBound, Visible
<1> QED
  BY <1>6, <1>7, <1>8, <1>9 DEF StoreTypeInv

LEMMA CloseArticleType ==
  ASSUME StoreTypeInv, NEW ok \in BOOLEAN, CloseArticle(ok) PROVE StoreTypeInv'
<1> DEFINE r == reading[Len(reading)]
           all == IF ok THEN Append(results, r) ELSE results
<1>1. /\ reading \in Seq(Result) /\ results \in Seq(Result)
      /\ queue \in Seq(Message) /\ reading # <<>> /\ stack # <<>>
  BY DEF CloseArticle, StoreTypeInv, StoreTypeOK, PageShown
<1>2. r \in Result /\ Len(reading) \in Nat \ {0}
  BY <1>1, ElementsOfFront, ElementsType
<1>3. all \in Seq(Result) /\ all \in Seq(Message)
  <2>1. all \in Seq(Result)
    BY <1>1, <1>2, ElementsOfAppend
  <2> QED
    BY <2>1, MessageIsOne, SeqMonotonic
<1>4. \A k \in Elements(all) : k.kind = "result"
  BY <1>3, ElementsType DEF Result
<1>5. \A k \in Elements(queue) : k.kind # "click"
  BY WaitingIn DEF CloseArticle
<1>6. /\ reading' = SubSeq(reading, 1, Len(reading) - 1)
      /\ reading' \in Seq(Result)
      /\ Len(reading) # 1 => reading' # <<>>
  BY <1>1, ElementsOfFront DEF CloseArticle
<1>7. IF Len(reading) = 1 THEN queue' = queue \o all /\ results' = <<>>
                          ELSE results' = all /\ queue' = queue
  BY DEF CloseArticle
<1> HIDE DEF all
<1>8. /\ queue' \in Seq(Message) /\ results' \in Seq(Result)
      /\ Elements(queue') \subseteq Elements(queue) \cup Elements(all)
  <2>1. /\ queue \o all \in Seq(Message)
        /\ Elements(queue \o all) \subseteq Elements(queue) \cup Elements(all)
    BY <1>1, <1>3, ElementsOfConcat
  <2> QED
    BY <1>1, <1>3, <1>7, <2>1, EmptySeq
<1>9. StoreTypeOK'
  BY <1>6, <1>8 DEF CloseArticle, StoreTypeInv, StoreTypeOK, processVars, screenVars,
     history
<1>10. JobShape' /\ ViewsBound'
  BY DEF CloseArticle, StoreTypeInv, JobShape, ViewsBound, screenVars, processVars
<1>11. \A k \in Elements(queue') : k.kind # "click"
  BY <1>4, <1>5, <1>8
<1>12. PageShown'
  BY <1>1, <1>6, <1>7, <1>11 DEF CloseArticle, PageShown, screenVars
<1>13. ClicksBound'
  BY <1>11 DEF ClicksBound
<1> QED
  BY <1>9, <1>10, <1>12, <1>13 DEF StoreTypeInv

\* What the listener of one instance does to its adapter: it is as it was, or
\* later.
AdapterOnlyLater ==
  \A s \in Screen :
    \/ adapter'[s] = adapter[s]
    \/ adapter'[s].gen = adapter[s].gen + 1

LEMMA ListenerType ==
  ASSUME StoreTypeInv, NEW ids \in SUBSET Notif, NEW instances \in SUBSET Screen,
         instances # {}, Listener(ids, instances)
  PROVE  /\ Least(instances) \in instances
         /\ adapter' \in [Screen -> Objects] /\ AdapterOnlyLater
         /\ \A s \in Screen : adapter'[s].read \subseteq adapter'[s].ids
         /\ rows' = Nothing /\ rows' \in Rows
         /\ job' \in Job /\ job'.busy /\ job'.ids = ids
         /\ job'.left.ids = ids /\ job'.left.read = ids \cap rows.read
         /\ \A s \in Screen :
              \/ adapter'[s] = adapter[s]
              \/ /\ adapter'[s].ids = ids /\ adapter'[s].read = ids \cap rows.read
                 /\ adapter'[s].gen = adapter[s].gen + 1
<1> DEFINE s == Least(instances)
           object == [ids |-> ids, read |-> ids \cap rows.read, gen |-> adapter[s].gen + 1]
<1>1. s \in instances /\ s \in Screen
  <2>1. instances \subseteq Nat
    BY BoundsAssumption DEF Screen
  <2> QED
    BY <2>1, LeastIsElement
<1>2. /\ adapter \in [Screen -> Objects]
      /\ \A t \in Screen : adapter[t].read \subseteq adapter[t].ids
  BY DEF StoreTypeInv, StoreTypeOK
<1>3. object \in Objects /\ object.read \subseteq object.ids
  <2>1. adapter[s].gen \in Nat
    BY <1>1, <1>2 DEF Objects
  <2> QED
    BY <2>1 DEF Objects
<1>4. adapter' \in {adapter, [adapter EXCEPT ![s] = object]}
  BY DEF Listener, ParseMarks
<1>5. /\ rows' = Nothing
      /\ job' = [for |-> instances \ {s}, ids |-> ids, busy |-> TRUE,
                 left |-> [ids |-> ids, read |-> ids \cap rows.read]]
  BY DEF Listener, ParseMarks
<1>6. object.ids = ids /\ object.read = ids \cap rows.read /\ object.gen = adapter[s].gen + 1
  OBVIOUS
<1> HIDE DEF s, object
<1>7. /\ adapter' \in [Screen -> Objects]
      /\ \A t \in Screen :
           adapter'[t] = adapter[t] \/ (t = s /\ adapter'[t] = object)
  BY <1>1, <1>2, <1>3, <1>4
<1>8. \A t \in Screen :
        \/ adapter'[t] = adapter[t]
        \/ /\ adapter'[t].ids = ids /\ adapter'[t].read = ids \cap rows.read
           /\ adapter'[t].gen = adapter[t].gen + 1
  BY <1>6, <1>7
<1>9. \A t \in Screen : adapter'[t].read \subseteq adapter'[t].ids
  BY <1>2, <1>3, <1>7
<1>10. rows' = Nothing /\ rows' \in Rows
  BY <1>5 DEF Nothing, Rows
<1>11. /\ job' \in Job /\ job'.busy /\ job'.ids = ids
       /\ job'.left.ids = ids /\ job'.left.read = ids \cap rows.read
  BY <1>5 DEF Job, Rows
<1>12. AdapterOnlyLater
  BY <1>8 DEF AdapterOnlyLater
<1> QED
  BY <1>1, <1>7, <1>8, <1>9, <1>10, <1>11, <1>12 DEF s

\* Clicks and views stay bound while the adapters only get later objects.
LEMMA BoundKept ==
  ASSUME StoreTypeInv, AdapterOnlyLater, adapter' \in [Screen -> Objects],
         UNCHANGED <<stack, shown>>, Elements(queue') \subseteq Elements(queue)
  PROVE  ClicksBound' /\ ViewsBound'
<1>1. /\ adapter \in [Screen -> Objects] /\ shown \in [Screen -> Objects]
      /\ Visible' = Visible
  BY DEF StoreTypeInv, StoreTypeOK, Visible
<1>2. \A s \in Screen :
        adapter[s].gen \in Nat /\ adapter'[s].gen \in Nat /\ shown[s].gen \in Nat
  BY <1>1 DEF Objects
<1>3. ViewsBound'
  <2>1. ASSUME NEW s \in Screen
        PROVE  /\ shown[s].gen <= adapter'[s].gen
               /\ shown[s].gen = adapter'[s].gen => shown[s].ids = adapter'[s].ids
    <3>1. /\ shown[s].gen <= adapter[s].gen
          /\ shown[s].gen = adapter[s].gen => shown[s].ids = adapter[s].ids
      BY DEF StoreTypeInv, ViewsBound
    <3>2. CASE adapter'[s] = adapter[s]
      BY <3>1, <3>2
    <3>3. CASE adapter'[s].gen = adapter[s].gen + 1
      BY <1>2, <3>1, <3>3
    <3> QED
      BY <3>2, <3>3 DEF AdapterOnlyLater
  <2> QED
    BY <2>1 DEF ViewsBound
<1>4. ASSUME NEW m \in Elements(queue'), m.kind = "click"
      PROVE  /\ m.gen <= adapter'[Visible].gen
             /\ m.gen = adapter'[Visible].gen => m.id \in adapter'[Visible].ids
  <2>1. m \in Elements(queue) /\ m.gen \in Nat /\ Visible \in Screen
    <3>1. m \in Elements(queue) /\ m \in Click
      BY <1>4, MessageTypes DEF StoreTypeInv
    <3>2. stack # <<>>
      BY <1>4, <3>1 DEF StoreTypeInv, PageShown
    <3> QED
      BY <3>1, <3>2, ScreenType DEF StoreTypeInv, Click
  <2>2. /\ m.gen <= adapter[Visible].gen
        /\ m.gen = adapter[Visible].gen => m.id \in adapter[Visible].ids
    BY <1>4, <2>1 DEF StoreTypeInv, ClicksBound
  <2>3. CASE adapter'[Visible] = adapter[Visible]
    BY <2>2, <2>3
  <2>4. CASE adapter'[Visible].gen = adapter[Visible].gen + 1
    BY <1>2, <2>1, <2>2, <2>4
  <2> QED
    BY <2>1, <2>3, <2>4 DEF AdapterOnlyLater
<1>5. ClicksBound'
  BY <1>1, <1>4 DEF ClicksBound
<1> QED
  BY <1>3, <1>5

\* The page that is shown stays while messages are handled.
LEMMA PageKept ==
  ASSUME StoreTypeInv, UNCHANGED <<stack, reading, results>>,
         Elements(queue') \subseteq Elements(queue)
  PROVE  PageShown'
BY DEF StoreTypeInv, PageShown

LEMMA HandleDataType ==
  ASSUME StoreTypeInv, HandleData PROVE StoreTypeInv'
<1> DEFINE m == Head(queue)
<1>1. /\ queue' \in Seq(Message) /\ m \in Elements(queue)
      /\ Elements(queue') \subseteq Elements(queue)
  BY MessageTypes, ElementsOfTail DEF HandleData, StoreTypeInv
<1>2. /\ m \in DataMessage /\ m.ids \subseteq Notif /\ m.for \subseteq Screen
      /\ m.btn \in BOOLEAN
  BY <1>1, MessageTypes DEF HandleData, StoreTypeInv, DataMessage
<1>3. PageShown'
  BY <1>1, PageKept DEF HandleData, visitVars
<1>4. /\ dot' \in BOOLEAN /\ marked' \subseteq Notif
      /\ returned' \in [Screen -> SUBSET Notif]
  BY <1>2 DEF HandleData, StoreTypeInv, StoreTypeOK
<1>5. /\ adapter' \in [Screen -> Objects] /\ AdapterOnlyLater
      /\ \A s \in Screen : adapter'[s].read \subseteq adapter'[s].ids
      /\ rows' \in Rows /\ rows'.read \subseteq rows'.ids
      /\ job' \in Job /\ JobShape'
  <2>1. CASE m.for = {}
    <3>1. UNCHANGED <<adapter, rows, job, running>>
      BY <2>1 DEF HandleData, processVars
    <3> QED
      BY <3>1 DEF StoreTypeInv, StoreTypeOK, AdapterOnlyLater, Job, JobShape
  <2>2. CASE m.for # {}
    <3>1. Listener(m.ids, m.for)
      BY <2>2 DEF HandleData
    <3>2. running' = TRUE
      BY DEF HandleData, Idle, StoreTypeInv, StoreTypeOK, processVars
    <3> HIDE DEF m
    <3>3. /\ adapter' \in [Screen -> Objects] /\ AdapterOnlyLater
          /\ \A s \in Screen : adapter'[s].read \subseteq adapter'[s].ids
          /\ rows' = Nothing /\ rows' \in Rows
          /\ job' \in Job /\ job'.busy
          /\ job'.left.ids = m.ids /\ job'.left.read = m.ids \cap rows.read
      BY <1>2, <2>2, <3>1, ListenerType
    <3>4. rows'.read \subseteq rows'.ids
      BY <3>3 DEF Nothing
    <3>5. JobShape'
      BY <3>2, <3>3 DEF JobShape
    <3> QED
      BY <3>3, <3>4, <3>5
  <2> QED
    BY <2>1, <2>2
<1> HIDE DEF m
<1>6. StoreTypeOK'
  BY <1>1, <1>4, <1>5 DEF HandleData, StoreTypeInv, StoreTypeOK, Job, processVars,
     visitVars
<1>7. ClicksBound' /\ ViewsBound'
  BY <1>1, <1>5, BoundKept DEF HandleData
<1> QED
  BY <1>3, <1>5, <1>6, <1>7 DEF StoreTypeInv

LEMMA InsertNextType ==
  ASSUME StoreTypeInv, InsertNext PROVE StoreTypeInv'
<1> DEFINE n == Least(job.left.ids)
<1>1. /\ job \in Job /\ job.left \in Rows /\ job.left.ids \subseteq Notif
      /\ job.left.read \subseteq job.left.ids
      /\ rows \in Rows /\ rows.read \subseteq rows.ids
  BY DEF StoreTypeInv, StoreTypeOK, JobShape, Job, Rows
<1>2. n \in job.left.ids /\ n \in Notif
  <2>1. job.left.ids \subseteq Nat /\ job.left.ids # {}
    BY <1>1, NotifAssumption DEF InsertNext
  <2> QED
    BY <1>1, <2>1, LeastIsElement
<1>3. /\ rows' = [ids |-> rows.ids \cup {n}, read |-> rows.read \cup ({n} \cap job.left.read)]
      /\ job' = [job EXCEPT !.left.ids = @ \ {n}, !.left.read = @ \ {n}]
  BY DEF InsertNext
<1> HIDE DEF n
<1>4. rows' \in Rows /\ rows'.read \subseteq rows'.ids
  BY <1>1, <1>2, <1>3 DEF Rows
<1>5. /\ job' \in Job /\ job'.left.read \subseteq job'.left.ids
      /\ job'.busy = job.busy
  BY <1>1, <1>3 DEF Job, Rows
<1>6. job.busy
  BY DEF InsertNext, StoreTypeInv, JobShape, NoJob, Nothing
<1>7. JobShape'
  BY <1>5, <1>6 DEF InsertNext, processVars, JobShape, StoreTypeInv
<1>8. StoreTypeOK'
  BY <1>4, <1>5 DEF InsertNext, StoreTypeInv, StoreTypeOK, Job, processVars,
     screenVars, visitVars, history
<1>9. PageShown' /\ ClicksBound' /\ ViewsBound'
  BY DEF InsertNext, StoreTypeInv, PageShown, ClicksBound, ViewsBound, Visible,
         screenVars, visitVars
<1> QED
  BY <1>7, <1>8, <1>9 DEF StoreTypeInv

LEMMA NextListenerType ==
  ASSUME StoreTypeInv, NextListener PROVE StoreTypeInv'
<1>1. /\ job \in Job /\ job.ids \in SUBSET Notif /\ job.for \in SUBSET Screen
      /\ rows \in Rows /\ rows.read \subseteq rows.ids
  BY DEF StoreTypeInv, StoreTypeOK, Job
<1>2. UNCHANGED <<stack, queue, shown, reading, results>>
  BY DEF NextListener, visitVars
<1>3. /\ adapter' \in [Screen -> Objects] /\ AdapterOnlyLater
      /\ \A s \in Screen : adapter'[s].read \subseteq adapter'[s].ids
      /\ rows' \in Rows /\ rows'.read \subseteq rows'.ids
      /\ job' \in Job /\ JobShape'
  <2>1. CASE job.for = {}
    <3>1. UNCHANGED <<adapter, rows>> /\ job' = NoJob
      BY <2>1 DEF NextListener
    <3>2. job' \in Job /\ JobShape'
      BY <3>1 DEF NoJob, Nothing, Job, Rows, JobShape
    <3> QED
      BY <3>1, <3>2 DEF StoreTypeInv, StoreTypeOK, AdapterOnlyLater
  <2>2. CASE job.for # {}
    <3>1. Listener(job.ids, job.for) /\ running' = running /\ running
      BY <2>2 DEF NextListener, processVars
    <3>2. /\ adapter' \in [Screen -> Objects] /\ AdapterOnlyLater
          /\ \A s \in Screen : adapter'[s].read \subseteq adapter'[s].ids
          /\ rows' = Nothing /\ rows' \in Rows
          /\ job' \in Job /\ job'.busy
          /\ job'.left.ids = job.ids /\ job'.left.read = job.ids \cap rows.read
      BY <1>1, <2>2, <3>1, ListenerType
    <3>3. rows'.read \subseteq rows'.ids
      BY <3>2 DEF Nothing
    <3>4. JobShape'
      BY <3>1, <3>2 DEF JobShape
    <3> QED
      BY <3>2, <3>3, <3>4
  <2> QED
    BY <2>1, <2>2
<1>4. StoreTypeOK'
  BY <1>3 DEF NextListener, StoreTypeInv, StoreTypeOK, Job, processVars, visitVars,
     history
<1>5. PageShown'
  BY <1>2, PageKept
<1>6. ClicksBound' /\ ViewsBound'
  BY <1>2, <1>3, BoundKept
<1> QED
  BY <1>3, <1>4, <1>5, <1>6 DEF StoreTypeInv

\* A tap changes marks, and neither objects nor positions.
OnlyMarks ==
  \A s \in Screen :
    /\ adapter'[s].ids = adapter[s].ids /\ adapter'[s].gen = adapter[s].gen
    /\ shown'[s].ids = shown[s].ids /\ shown'[s].gen = shown[s].gen

LEMMA MarkedObjectType ==
  ASSUME StoreTypeInv, NEW m \in Click, m \in Elements(queue)
  PROVE  /\ stack # <<>> /\ Visible \in Screen
         /\ MarkedObject(m) \in Objects
         /\ MarkedObject(m).ids = adapter[Visible].ids
         /\ MarkedObject(m).gen = adapter[Visible].gen
         /\ adapter[Visible].read \subseteq MarkedObject(m).read
         /\ MarkedObject(m).read \subseteq MarkedObject(m).ids
         /\ m.gen = adapter[Visible].gen =>
              m.id \in MarkedObject(m).read /\ m.id \in adapter[Visible].ids
<1>1. m.kind = "click" /\ m.id \in Notif /\ stack # <<>>
  BY DEF Click, StoreTypeInv, PageShown
<1>2. Visible \in Screen
  BY <1>1, ScreenType DEF StoreTypeInv
<1>3. /\ adapter[Visible] \in Objects
      /\ adapter[Visible].read \subseteq adapter[Visible].ids
      /\ m.gen = adapter[Visible].gen => m.id \in adapter[Visible].ids
  BY <1>1, <1>2 DEF StoreTypeInv, StoreTypeOK, ClicksBound
<1>4. CASE m.gen = adapter[Visible].gen
  <2>1. MarkedObject(m) = [adapter[Visible] EXCEPT !.read = @ \cup {m.id}]
    BY <1>4 DEF MarkedObject
  <2> QED
    BY <1>1, <1>2, <1>3, <1>4, <2>1 DEF Objects
<1>5. CASE m.gen # adapter[Visible].gen
  <2>1. MarkedObject(m) = adapter[Visible]
    BY <1>5 DEF MarkedObject
  <2> QED
    BY <1>1, <1>2, <1>3, <1>5, <2>1
<1> QED
  BY <1>4, <1>5

\* updateReadItemPosition on the adapter's objects, or on them with one more mark.
LEMMA UpdateType ==
  ASSUME StoreTypeInv, NEW s \in Screen, NEW objects \in Objects, NEW at,
         objects.ids = adapter[s].ids, objects.gen = adapter[s].gen,
         objects.read \subseteq objects.ids,
         UpdateReadItemPosition(s, objects, at)
  PROVE  LET hit == {n \in objects.ids : IndexIn(n, objects.ids) = at} IN
         /\ adapter' \in [Screen -> Objects] /\ shown' \in [Screen -> Objects]
         /\ OnlyMarks
         /\ \A t \in Screen : adapter'[t].read \subseteq adapter'[t].ids
         /\ \A t \in Screen : t # s => adapter'[t] = adapter[t] /\ shown'[t] = shown[t]
         /\ adapter'[s].read = objects.read \cup hit
         /\ shown[s].read \subseteq shown'[s].read
         /\ shown[s].gen = adapter[s].gen => shown'[s].read = shown[s].read \cup hit
<1> DEFINE hit == {n \in objects.ids : IndexIn(n, objects.ids) = at}
<1>1. /\ adapter \in [Screen -> Objects] /\ shown \in [Screen -> Objects]
      /\ \A t \in Screen : adapter[t].read \subseteq adapter[t].ids
  BY DEF StoreTypeInv, StoreTypeOK
<1>2. /\ adapter' = [adapter EXCEPT ![s] = [objects EXCEPT !.read = @ \cup hit]]
      /\ shown' = IF shown[s].gen = objects.gen
                    THEN [shown EXCEPT ![s] = NotifyItemChanged(shown[s], hit)]
                    ELSE shown
  BY DEF UpdateReadItemPosition
<1>3. hit \subseteq objects.ids /\ hit \subseteq Notif
  BY DEF Objects
<1> HIDE DEF hit
<1>4. /\ adapter' \in [Screen -> Objects]
      /\ adapter'[s] = [objects EXCEPT !.read = @ \cup hit]
      /\ \A t \in Screen : t # s => adapter'[t] = adapter[t]
  BY <1>1, <1>2, <1>3 DEF Objects
<1>5. /\ adapter'[s].ids = adapter[s].ids /\ adapter'[s].gen = adapter[s].gen
      /\ adapter'[s].read = objects.read \cup hit
      /\ adapter'[s].read \subseteq adapter'[s].ids
  BY <1>3, <1>4 DEF Objects
<1>6. /\ shown' \in [Screen -> Objects]
      /\ shown'[s].ids = shown[s].ids /\ shown'[s].gen = shown[s].gen
      /\ shown[s].read \subseteq shown'[s].read
      /\ shown[s].gen = adapter[s].gen => shown'[s].read = shown[s].read \cup hit
      /\ \A t \in Screen : t # s => shown'[t] = shown[t]
  <2>0. shown[s] \in Objects
    BY <1>1
  <2>1. CASE shown[s].gen = objects.gen
    <3>0. NotifyItemChanged(shown[s], hit) = [shown[s] EXCEPT !.read = @ \cup hit]
      BY DEF NotifyItemChanged
    <3>1. shown' = [shown EXCEPT ![s] = [shown[s] EXCEPT !.read = @ \cup hit]]
      BY <1>2, <2>1, <3>0
    <3>2. [shown[s] EXCEPT !.read = @ \cup hit] \in Objects
      BY <1>3, <2>0 DEF Objects
    <3>3. shown' \in [Screen -> Objects] /\ shown'[s] = [shown[s] EXCEPT !.read = @ \cup hit]
      BY <1>1, <3>1, <3>2
    <3>4. \A t \in Screen : t # s => shown'[t] = shown[t]
      BY <1>1, <3>1
    <3> QED
      BY <2>0, <3>3, <3>4 DEF Objects
  <2>2. CASE shown[s].gen # objects.gen
    BY <1>1, <1>2, <2>2
  <2> QED
    BY <2>1, <2>2
<1>7. OnlyMarks
  BY <1>4, <1>5, <1>6 DEF OnlyMarks
<1>8. \A t \in Screen : adapter'[t].read \subseteq adapter'[t].ids
  BY <1>1, <1>4, <1>5
<1> QED
  BY <1>4, <1>5, <1>6, <1>7, <1>8 DEF hit

LEMMA OnlyMarksBound ==
  ASSUME StoreTypeInv, OnlyMarks, UNCHANGED stack,
         Elements(queue') \subseteq Elements(queue)
  PROVE  ClicksBound' /\ ViewsBound'
<1>1. ViewsBound'
  BY DEF StoreTypeInv, ViewsBound, OnlyMarks
<1>2. ASSUME NEW m \in Elements(queue'), m.kind = "click"
      PROVE  /\ m.gen <= adapter'[Visible].gen
             /\ m.gen = adapter'[Visible].gen => m.id \in adapter'[Visible].ids
  <2>1. m \in Elements(queue) /\ Visible \in Screen
    <3>1. stack # <<>>
      BY <1>2 DEF StoreTypeInv, PageShown
    <3> QED
      BY <1>2, <3>1, ScreenType DEF StoreTypeInv
  <2> QED
    BY <1>2, <2>1 DEF StoreTypeInv, ClicksBound, OnlyMarks
<1>3. Visible' = Visible
  BY DEF Visible
<1> QED
  BY <1>1, <1>2, <1>3 DEF ClicksBound

LEMMA OlderType ==
  ASSUME StoreTypeInv
  PROVE  /\ Older \in Seq(Result)
         /\ (Older = <<>>) <=> (reading = <<>>)
         /\ \A r \in Elements(Older) : ~r.last
<1>1. /\ reading \in Seq(Result) /\ Len(reading) \in Nat
      /\ DOMAIN reading = 1 .. Len(reading)
  BY LenProperties DEF StoreTypeInv, StoreTypeOK
<1>2. \A k \in 1 .. Len(reading) :
        /\ [reading[k] EXCEPT !.last = FALSE] \in Result
        /\ ~[reading[k] EXCEPT !.last = FALSE].last
  <2>1. \A k \in 1 .. Len(reading) : reading[k] \in Result
    BY <1>1, ElementOfSeq
  <2> QED
    BY <2>1 DEF Result
<1>3. Older = [k \in 1 .. Len(reading) |-> [reading[k] EXCEPT !.last = FALSE]]
  BY <1>1 DEF Older
<1>4. Older \in Seq(Result) /\ Len(Older) = Len(reading) /\ DOMAIN Older = 1 .. Len(reading)
  BY <1>1, <1>2, <1>3, IsASeq
<1>5. (Older = <<>>) <=> (reading = <<>>)
  BY <1>1, <1>4, EmptySeq
<1>6. \A r \in Elements(Older) : ~r.last
  BY <1>2, <1>3, <1>4 DEF Elements
<1> QED
  BY <1>4, <1>5, <1>6

LEMMA HandleClickType ==
  ASSUME StoreTypeInv, NEW linked \in BOOLEAN, HandleClick(linked)
  PROVE  StoreTypeInv'
<1> DEFINE m == Head(queue)
           at == AdapterPosition(m)
           r == [kind |-> "result", id |-> m.id, last |-> TRUE]
<1>1. /\ m \in Elements(queue) /\ Elements(Tail(queue)) \subseteq Elements(queue)
      /\ Tail(queue) \in Seq(Message) /\ m.kind = "click"
  BY MessageTypes, ElementsOfTail DEF HandleClick, StoreTypeInv
<1>2. m \in Click /\ m.id \in Notif
  BY <1>1, MessageTypes DEF StoreTypeInv, Click
<1>3. rows' \in Rows /\ rows'.read \subseteq rows'.ids /\ marked' \subseteq Notif
  <2>1. rows \in Rows /\ rows.read \subseteq rows.ids /\ marked \subseteq Notif
    BY DEF StoreTypeInv, StoreTypeOK
  <2>2. rows' = [rows EXCEPT !.read = @ \cup ({m.id} \cap rows.ids)]
    BY DEF HandleClick, UpdateReadStatus
  <2>3. marked' = marked \cup ({m.id} \cap rows.ids)
    BY DEF HandleClick
  <2> HIDE DEF m
  <2> QED
    BY <1>2, <2>1, <2>2, <2>3 DEF Rows
<1>4. CASE ~linked /\ Throws(at)
  <2>1. EndProcess
    BY <1>4 DEF HandleClick
  <2> QED
    BY <1>3, <2>1, EndType
<1>5. CASE ~(~linked /\ Throws(at))
  <2>1. /\ position' = [position EXCEPT ![Visible] = at] /\ queue' = Tail(queue)
        /\ UNCHANGED <<processVars, job, dot, opened, stack, results>>
    BY <1>5 DEF HandleClick
  <2>2. /\ stack # <<>> /\ Visible \in Screen
        /\ MarkedObject(m) \in Objects
        /\ MarkedObject(m).ids = adapter[Visible].ids
        /\ MarkedObject(m).gen = adapter[Visible].gen
        /\ MarkedObject(m).read \subseteq MarkedObject(m).ids
    BY <1>1, <1>2, MarkedObjectType
  <2>3. /\ adapter \in [Screen -> Objects] /\ shown \in [Screen -> Objects]
        /\ position \in [Screen -> Nat \cup {NO_POSITION}]
        /\ returned \in [Screen -> SUBSET Notif]
        /\ results = <<>>
        /\ \A s \in Screen : adapter[s].read \subseteq adapter[s].ids
    BY <1>1 DEF StoreTypeInv, StoreTypeOK, PageShown
  <2>4. position' \in [Screen -> Nat \cup {NO_POSITION}]
    <3>1. adapter[Visible].ids \in SUBSET Notif
      BY <2>2, <2>3 DEF Objects
    <3>2. at \in Nat \cup {NO_POSITION}
      BY <3>1, IndexType DEF AdapterPosition
    <3> QED
      BY <2>1, <2>2, <2>3, <3>2
  <2>5. /\ adapter' \in [Screen -> Objects] /\ shown' \in [Screen -> Objects]
        /\ OnlyMarks
        /\ \A s \in Screen : adapter'[s].read \subseteq adapter'[s].ids
        /\ reading' \in Seq(Result) /\ returned' \in [Screen -> SUBSET Notif]
    <3>1. CASE linked
      <4>1. /\ adapter' = [adapter EXCEPT ![Visible] = MarkedObject(m)]
            /\ reading' = Append(Older, r) /\ UNCHANGED <<shown, returned>>
        BY <1>5, <3>1 DEF HandleClick
      <4>2. r \in Result
        BY <1>2 DEF Result
      <4>3. reading' \in Seq(Result)
        BY <4>1, <4>2, OlderType, ElementsOfAppend
      <4> HIDE DEF m, at, r
      <4> QED
        BY <2>2, <2>3, <4>1, <4>3 DEF OnlyMarks
    <3>2. CASE ~linked
      <4>1. /\ UpdateReadItemPosition(Visible, MarkedObject(m), at)
            /\ reading' = Older
            /\ returned' = [returned EXCEPT ![Visible] = @ \cup ({m.id} \cap rows.ids)]
        BY <1>5, <3>2 DEF HandleClick
      <4> HIDE DEF m, at
      <4>2. /\ adapter' \in [Screen -> Objects] /\ shown' \in [Screen -> Objects]
            /\ OnlyMarks
            /\ \A s \in Screen : adapter'[s].read \subseteq adapter'[s].ids
        BY <2>2, <4>1, UpdateType
      <4> QED
        BY <1>2, <2>2, <2>3, <4>1, <4>2, OlderType
    <3> QED
      BY <3>1, <3>2
  <2> HIDE DEF m, at, r
  <2>6. StoreTypeOK'
    BY <1>1, <1>3, <2>1, <2>4, <2>5 DEF StoreTypeInv, StoreTypeOK, processVars
  <2>7. JobShape'
    BY <2>1 DEF StoreTypeInv, JobShape, processVars
  <2>8. ClicksBound' /\ ViewsBound'
    BY <1>1, <2>1, <2>5, OnlyMarksBound
  <2>9. PageShown'
    BY <1>1, <2>1, <2>2, <2>3 DEF StoreTypeInv, PageShown
  <2> QED
    BY <2>6, <2>7, <2>8, <2>9 DEF StoreTypeInv
<1> QED
  BY <1>4, <1>5

LEMMA HandleResultType ==
  ASSUME StoreTypeInv, HandleResult PROVE StoreTypeInv'
<1> DEFINE m == Head(queue)
<1>1. /\ m \in Elements(queue) /\ Elements(Tail(queue)) \subseteq Elements(queue)
      /\ Tail(queue) \in Seq(Message) /\ m.kind = "result"
  BY MessageTypes, ElementsOfTail DEF HandleResult, StoreTypeInv
<1>2. stack # <<>> /\ Visible \in Screen
  <2>1. stack # <<>>
    BY <1>1 DEF StoreTypeInv, PageShown
  <2> QED
    BY <2>1, ScreenType DEF StoreTypeInv
<1>3. CASE Throws(position[Visible])
  BY <1>3, DieType DEF HandleResult
<1>4. CASE ~Throws(position[Visible])
  <2>1. /\ UpdateReadItemPosition(Visible, adapter[Visible], position[Visible])
        /\ queue' = Tail(queue)
        /\ UNCHANGED <<processVars, job, rows, dot, opened, stack, position,
                       visitVars, marked>>
    BY <1>4 DEF HandleResult
  <2>2. returned' \in [Screen -> SUBSET Notif]
    <3>1. returned' \in {returned, [returned EXCEPT ![Visible] = @ \cup ({m.id} \cap marked)]}
      BY <1>4 DEF HandleResult
    <3>2. marked \subseteq Notif /\ returned \in [Screen -> SUBSET Notif]
      BY DEF StoreTypeInv, StoreTypeOK
    <3> HIDE DEF m
    <3> QED
      BY <1>2, <3>1, <3>2
  <2>3. adapter[Visible] \in Objects /\ adapter[Visible].read \subseteq adapter[Visible].ids
    BY <1>2 DEF StoreTypeInv, StoreTypeOK
  <2>4. /\ adapter' \in [Screen -> Objects] /\ shown' \in [Screen -> Objects]
        /\ OnlyMarks
        /\ \A s \in Screen : adapter'[s].read \subseteq adapter'[s].ids
    BY <1>2, <2>1, <2>3, UpdateType
  <2> HIDE DEF m
  <2>5. StoreTypeOK'
    BY <1>1, <2>1, <2>2, <2>4 DEF StoreTypeInv, StoreTypeOK, processVars, visitVars
  <2>6. JobShape'
    BY <2>1 DEF StoreTypeInv, JobShape, processVars
  <2>7. ClicksBound' /\ ViewsBound'
    BY <1>1, <2>1, <2>4, OnlyMarksBound
  <2>8. PageShown'
    BY <1>1, <2>1, PageKept DEF visitVars
  <2> QED
    BY <2>5, <2>6, <2>7, <2>8 DEF StoreTypeInv
<1> QED
  BY <1>3, <1>4

LEMMA StoreNextType ==
  ASSUME StoreTypeInv, [StoreNext]_storeVars PROVE StoreTypeInv'
<1>1. CASE StoreNext
  BY <1>1, StartType, OpenScreenType, CloseScreenType, LayoutType, DieType,
     SnapshotType, TouchType, CloseArticleType, HandleDataType, InsertNextType,
     NextListenerType, HandleClickType, HandleResultType DEF StoreNext, SystemKills
<1>2. CASE UNCHANGED storeVars
  BY <1>2 DEF storeVars, processVars, screenVars, visitVars, history, StoreTypeInv,
     StoreTypeOK, JobShape, PageShown, ClicksBound, ViewsBound, Visible
<1> QED
  BY <1>1, <1>2

LEMMA StoreTypeInvariant == StoreSpec => []StoreTypeInv
<1>1. StoreInit => StoreTypeInv
  BY StoreInitType
<1>2. StoreTypeInv /\ [StoreNext]_storeVars => StoreTypeInv'
  BY StoreNextType
<1> QED
  BY <1>1, <1>2, PTL DEF StoreSpec

\* The state of the page of notifications is well formed: every mark is on a
\* row or an object that exists, whatever comes between a touch and its click.
THEOREM StoreTypeCorrect == StoreSpec => []StoreTypeOK
<1>1. StoreTypeInv => StoreTypeOK
  BY DEF StoreTypeInv
<1> QED
  BY <1>1, StoreTypeInvariant, PTL

-----------------------------------------------------------------------------
(* The marks of the table *)

\* What MarksKept needs while the table is being replaced: a mark that is not
\* in the table any more is among the rows still to be inserted, and every
\* list still to be stored has the notification.
MarksInv ==
  /\ marked \subseteq rows.read \cup job.left.read
  /\ job.busy => marked \subseteq job.ids

\* The steps that the table and its marks depend on.
LEMMA TableSteps ==
  ASSUME StoreNext
  PROVE  \/ UNCHANGED <<rows, job, marked>>
         \/ Die \/ HandleData \/ InsertNext \/ NextListener
         \/ \E linked \in BOOLEAN : HandleClick(linked)
<1>1. CASE Start \/ OpenScreen \/ CloseScreen \/ Layout \/ SystemKills
  BY <1>1 DEF Start, OpenScreen, CloseScreen, Layout, SystemKills, history
<1>2. CASE \/ \E ids \in SUBSET Notif : Snapshot(ids)
           \/ \E n \in Notif : Touch(n)
           \/ \E ok \in BOOLEAN : CloseArticle(ok)
  BY <1>2 DEF Snapshot, Touch, CloseArticle, history
<1>3. CASE HandleResult
  BY <1>3 DEF HandleResult
<1> QED
  BY <1>1, <1>2, <1>3 DEF StoreNext

LEMMA NoJobMarks == NoJob.left.read = {} /\ ~NoJob.busy
BY DEF NoJob, Nothing

\* The marks in the table and those about to be inserted, after each of those
\* steps.
LEMMA MarksOfStep ==
  ASSUME StoreTypeInv
  PROVE  /\ HandleData =>
              LET m == Head(queue) IN
              /\ ~job.busy /\ job.left.read = {}
              /\ m.kind = "data" /\ m \in DataMessage /\ m \in Elements(queue)
              /\ \/ m.for = {} /\ UNCHANGED <<rows, job>>
                 \/ /\ rows'.read = {} /\ job'.left.read = m.ids \cap rows.read
                    /\ job'.busy /\ job'.ids = m.ids
         /\ InsertNext =>
              /\ job.busy /\ job'.busy /\ job'.ids = job.ids
              /\ rows'.read \cup job'.left.read = rows.read \cup job.left.read
         /\ NextListener =>
              /\ job.busy /\ job.left.read = {}
              /\ \/ ~job'.busy /\ job'.left.read = {} /\ rows' = rows
                 \/ /\ rows'.read = {} /\ job'.left.read = job.ids \cap rows.read
                    /\ job'.busy /\ job'.ids = job.ids
         /\ Die => rows' = rows /\ ~job'.busy /\ job'.left.read = {}
         /\ \A linked \in BOOLEAN : HandleClick(linked) =>
              LET m == Head(queue) IN
              /\ ~job.busy /\ job.left.read = {} /\ ~job'.busy /\ job'.left.read = {}
              /\ rows'.read = rows.read \cup ({m.id} \cap rows.ids)
<1>1. ASSUME HandleData
      PROVE  LET m == Head(queue) IN
              /\ ~job.busy /\ job.left.read = {}
              /\ m.kind = "data" /\ m \in DataMessage /\ m \in Elements(queue)
              /\ \/ m.for = {} /\ UNCHANGED <<rows, job>>
                 \/ /\ rows'.read = {} /\ job'.left.read = m.ids \cap rows.read
                    /\ job'.busy /\ job'.ids = m.ids
  <2> DEFINE m == Head(queue)
  <2>1. ~job.busy /\ job.left.read = {}
    BY <1>1, NoJobMarks DEF HandleData, Idle, StoreTypeInv, JobShape
  <2>2. m \in Elements(queue) /\ m.kind = "data"
    BY <1>1, MessageTypes, ElementsOfTail DEF HandleData, StoreTypeInv
  <2>3. m \in DataMessage /\ m.ids \in SUBSET Notif /\ m.for \in SUBSET Screen
    BY <2>2, MessageTypes DEF StoreTypeInv, DataMessage
  <2>4. IF m.for = {} THEN UNCHANGED <<adapter, rows, job>> ELSE Listener(m.ids, m.for)
    BY <1>1 DEF HandleData
  <2> HIDE DEF m
  <2>5. CASE m.for # {}
    <3>1. /\ rows' = Nothing /\ job'.busy /\ job'.ids = m.ids
          /\ job'.left.read = m.ids \cap rows.read
      BY <2>3, <2>4, <2>5, ListenerType
    <3> QED
      BY <2>1, <2>2, <2>3, <3>1 DEF Nothing, m
  <2> QED
    BY <2>1, <2>2, <2>3, <2>4, <2>5 DEF m
<1>2. ASSUME InsertNext
      PROVE  /\ job.busy /\ job'.busy /\ job'.ids = job.ids
             /\ rows'.read \cup job'.left.read = rows.read \cup job.left.read
  <2> DEFINE n == Least(job.left.ids)
  <2>1. job \in Job /\ job.left \in Rows /\ rows \in Rows
    BY DEF StoreTypeInv, StoreTypeOK, Job
  <2>2. job.busy
    BY <1>2 DEF InsertNext, StoreTypeInv, JobShape, NoJob, Nothing
  <2>3. /\ rows' = [ids |-> rows.ids \cup {n}, read |-> rows.read \cup ({n} \cap job.left.read)]
        /\ job' = [job EXCEPT !.left.ids = @ \ {n}, !.left.read = @ \ {n}]
    BY <1>2 DEF InsertNext
  <2> HIDE DEF n
  <2>4. job'.left.read = job.left.read \ {n} /\ job'.busy = job.busy /\ job'.ids = job.ids
    BY <2>1, <2>3 DEF Job, Rows
  <2> QED
    BY <2>2, <2>3, <2>4
<1>3. ASSUME NextListener
      PROVE  /\ job.busy /\ job.left.read = {}
             /\ \/ ~job'.busy /\ job'.left.read = {} /\ rows' = rows
                \/ /\ rows'.read = {} /\ job'.left.read = job.ids \cap rows.read
                   /\ job'.busy /\ job'.ids = job.ids
  <2>1. job.busy /\ job.left.read = {}
    BY <1>3 DEF NextListener, StoreTypeInv, JobShape
  <2>2. CASE job.for = {}
    BY <1>3, <2>1, <2>2, NoJobMarks DEF NextListener
  <2>3. CASE job.for # {}
    <3>1. Listener(job.ids, job.for) /\ job.ids \in SUBSET Notif /\ job.for \in SUBSET Screen
      BY <1>3, <2>3 DEF NextListener, StoreTypeInv, StoreTypeOK
    <3>2. /\ rows' = Nothing /\ job'.busy /\ job'.ids = job.ids
          /\ job'.left.read = job.ids \cap rows.read
      BY <2>3, <3>1, ListenerType
    <3> QED
      BY <2>1, <3>2 DEF Nothing
  <2> QED
    BY <2>2, <2>3
<1>4. Die => rows' = rows /\ ~job'.busy /\ job'.left.read = {}
  BY NoJobMarks DEF Die, EndProcess
<1>5. ASSUME NEW linked \in BOOLEAN, HandleClick(linked)
      PROVE  LET m == Head(queue) IN
              /\ ~job.busy /\ job.left.read = {} /\ ~job'.busy /\ job'.left.read = {}
              /\ rows'.read = rows.read \cup ({m.id} \cap rows.ids)
  <2>1. ~job.busy /\ job.left.read = {}
    BY <1>5, NoJobMarks DEF HandleClick, Idle, StoreTypeInv, JobShape
  <2>2. job' = NoJob \/ job' = job
    BY <1>5 DEF HandleClick, EndProcess
  <2>3. rows' = [rows EXCEPT !.read = @ \cup ({Head(queue).id} \cap rows.ids)]
    BY <1>5 DEF HandleClick, UpdateReadStatus
  <2>4. rows'.read = rows.read \cup ({Head(queue).id} \cap rows.ids)
    BY <2>3 DEF StoreTypeInv, StoreTypeOK, Rows
  <2> QED
    BY <2>1, <2>2, <2>4, NoJobMarks
<1> QED
  BY <1>1, <1>2, <1>3, <1>4, <1>5

LEMMA MarksStep ==
  ASSUME StoreTypeInv, MarksInv, [StoreNext]_storeVars PROVE MarksInv'
<1>1. CASE UNCHANGED <<rows, job, marked>>
  BY <1>1 DEF MarksInv
<1>2. CASE Die
  <2>1. rows' = rows /\ ~job'.busy /\ job'.left.read = {}
    BY <1>2, MarksOfStep
  <2>2. marked' = IF job.busy THEN {} ELSE marked
    BY <1>2 DEF Die
  <2>3. ~job.busy => job.left.read = {}
    BY NoJobMarks DEF StoreTypeInv, JobShape
  <2> QED
    BY <2>1, <2>2, <2>3 DEF MarksInv
<1>3. CASE HandleData
  <2>1. marked' = marked \cap Head(queue).ids
    BY <1>3 DEF HandleData
  <2> QED
    BY <1>3, <2>1, MarksOfStep DEF MarksInv
<1>4. CASE InsertNext
  <2>1. marked' = marked
    BY <1>4 DEF InsertNext, history
  <2> QED
    BY <1>4, <2>1, MarksOfStep DEF MarksInv
<1>5. CASE NextListener
  <2>1. marked' = marked
    BY <1>5 DEF NextListener, history
  <2> QED
    BY <1>5, <2>1, MarksOfStep DEF MarksInv
<1>6. ASSUME NEW linked \in BOOLEAN, HandleClick(linked) PROVE MarksInv'
  <2>1. marked' = marked \cup ({Head(queue).id} \cap rows.ids)
    BY <1>6 DEF HandleClick
  <2>2. /\ ~job.busy /\ job.left.read = {} /\ ~job'.busy /\ job'.left.read = {}
        /\ rows'.read = rows.read \cup ({Head(queue).id} \cap rows.ids)
    BY <1>6, MarksOfStep
  <2> QED
    BY <2>1, <2>2 DEF MarksInv
<1>7. UNCHANGED storeVars => UNCHANGED <<rows, job, marked>>
  BY DEF storeVars, history
<1> QED
  BY <1>1, <1>2, <1>3, <1>4, <1>5, <1>6, <1>7, TableSteps

LEMMA MarksInvariant == StoreSpec => []MarksInv
<1>1. StoreInit => MarksInv
  BY DEF StoreInit, MarksInv, NoJob
<1>2. StoreTypeInv /\ MarksInv /\ [StoreNext]_storeVars => MarksInv'
  BY MarksStep
<1> QED
  BY <1>1, <1>2, StoreTypeInvariant, PTL DEF StoreSpec

\* A tapped notification stays marked in the table for as long as it is
\* published, whichever instances replace the table by however many lists,
\* unless the process dies in the middle of one.
THEOREM MarksAlwaysKept == StoreSpec => []MarksKept
<1>1. StoreTypeInv /\ MarksInv => MarksKept
  BY NoJobMarks DEF StoreTypeInv, JobShape, MarksInv, MarksKept
<1> QED
  BY <1>1, MarksInvariant, StoreTypeInvariant, PTL

\* No step but the click adds a mark to the table or to what is about to be
\* inserted.
THEOREM OnlyTapsAreStored == StoreSpec => StoredMarksAreTaps
<1> DEFINE marks == rows.read \cup job.left.read
<1>1. ASSUME StoreTypeInv, StoreNext
      PROVE  \/ \E linked \in BOOLEAN : HandleClick(linked)
             \/ (rows.read \cup job.left.read)' \subseteq marks
  <2>1. CASE UNCHANGED <<rows, job, marked>>
    BY <2>1
  <2>2. CASE Die
    BY <1>1, <2>2, MarksOfStep
  <2>3. CASE HandleData
    BY <1>1, <2>3, MarksOfStep
  <2>4. CASE InsertNext
    BY <1>1, <2>4, MarksOfStep
  <2>5. CASE NextListener
    BY <1>1, <2>5, MarksOfStep
  <2> QED
    BY <1>1, <2>1, <2>2, <2>3, <2>4, <2>5, TableSteps
<1>2. StoreTypeInv /\ [StoreNext]_storeVars =>
        [LET stored == rows.read \cup job.left.read
         IN  \/ \E linked \in BOOLEAN : HandleClick(linked)
             \/ (rows.read \cup job.left.read)' \subseteq stored]_storeVars
  BY <1>1
<1> QED
  BY <1>2, StoreTypeInvariant, PTL DEF StoreSpec, StoredMarksAreTaps

-----------------------------------------------------------------------------
(* The dot of NotifBtn *)

\* The dot is decided by the one message that NotifBtn gets of a list.  Until
\* that is handled it waits in the queue; afterwards, with no dot, all of the
\* list is marked, in the table or among the rows being inserted.
DotInv ==
  /\ synced => running
  /\ \A m \in Elements(queue) : m.kind = "data" => synced /\ m.ids = list
  /\ synced /\ ~dot /\ (\A m \in Elements(queue) : m.kind = "data" => ~m.btn) =>
       /\ list \subseteq rows.read \cup job.left.read
       /\ job.busy => job.ids = list

\* The steps of the user, and the answers to them, are no messages of the list.
LEMMA DotFrame ==
  ASSUME DotInv, UNCHANGED <<processVars, dot>>,
         rows.read \subseteq rows'.read, job' = job,
         \A m \in Elements(queue') : m \in Elements(queue) \/ m.kind # "data",
         \A m \in Elements(queue) : m \in Elements(queue') \/ m.kind # "data"
  PROVE  DotInv'
BY DEF DotInv, processVars

LEMMA DotSnapshot ==
  ASSUME StoreTypeInv, NEW ids \in SUBSET Notif, Snapshot(ids) PROVE DotInv'
<1> DEFINE m == [kind |-> "data", ids |-> ids, btn |-> TRUE, for |-> 1 .. opened]
<1>1. m \in Message /\ m.kind = "data" /\ m.btn /\ m.ids = ids
  <2>1. 1 .. opened \in SUBSET Screen
    BY BoundsAssumption DEF StoreTypeInv, StoreTypeOK, Screen
  <2> QED
    BY <2>1 DEF Message
<1>2. queue' = Append(<<>>, m) /\ list' = ids /\ synced' /\ running'
  BY DEF Snapshot
<1> HIDE DEF m
<1>3. Elements(queue') = {m}
  BY <1>1, <1>2, EmptySeq, ElementsOfAppend, ElementsOfEmpty
<1> QED
  BY <1>1, <1>2, <1>3 DEF DotInv

LEMMA DotOpenScreen ==
  ASSUME StoreTypeInv, DotInv, OpenScreen PROVE DotInv'
<1> DEFINE m == [kind |-> "data", ids |-> list, btn |-> FALSE, for |-> {opened'}]
<1>1. m \in Message /\ m.kind = "data" /\ ~m.btn /\ m.ids = list
  <2>1. {opened'} \in SUBSET Screen /\ list \in SUBSET Notif
    BY BoundsAssumption DEF OpenScreen, StoreTypeInv, StoreTypeOK, Screen
  <2> QED
    BY <2>1 DEF Message
<1>2. queue' = IF synced THEN Append(queue, m) ELSE queue
  BY DEF OpenScreen
<1> HIDE DEF m
<1>3. Elements(queue') = Elements(queue) \cup (IF synced THEN {m} ELSE {})
  BY <1>1, <1>2, ElementsOfAppend DEF StoreTypeInv, StoreTypeOK
<1>4. UNCHANGED <<running, synced, list, dot, rows, job>>
  BY DEF OpenScreen, processVars
<1> QED
  BY <1>1, <1>3, <1>4 DEF DotInv

LEMMA DotTouch ==
  ASSUME StoreTypeInv, DotInv, NEW n \in Notif, Touch(n) PROVE DotInv'
<1> DEFINE m == [kind |-> "click", id |-> n, gen |-> shown[Visible].gen]
<1>1. m \in Message /\ m.kind # "data"
  <2>1. shown[Visible].gen \in Nat
    BY ScreenType DEF Touch, StoreTypeInv, StoreTypeOK, Objects
  <2> QED
    BY <2>1 DEF Message
<1>2. queue' = Append(queue, m)
  BY DEF Touch
<1> HIDE DEF m
<1>3. Elements(queue') = Elements(queue) \cup {m}
  BY <1>1, <1>2, ElementsOfAppend DEF StoreTypeInv, StoreTypeOK
<1> QED
  BY <1>1, <1>3, DotFrame DEF Touch

LEMMA DotCloseArticle ==
  ASSUME StoreTypeInv, DotInv, NEW ok \in BOOLEAN, CloseArticle(ok) PROVE DotInv'
<1> DEFINE r == reading[Len(reading)]
           all == IF ok THEN Append(results, r) ELSE results
<1>1. /\ reading \in Seq(Result) /\ results \in Seq(Result)
      /\ queue \in Seq(Message) /\ reading # <<>>
  BY DEF CloseArticle, StoreTypeInv, StoreTypeOK
<1>2. r \in Result
  BY <1>1, ElementsOfFront, ElementsType
<1>3. all \in Seq(Result) /\ all \in Seq(Message)
  <2>1. all \in Seq(Result)
    BY <1>1, <1>2, ElementsOfAppend
  <2> QED
    BY <2>1, MessageIsOne, SeqMonotonic
<1>4. \A k \in Elements(all) : k.kind = "result"
  BY <1>3, ElementsType DEF Result
<1>5. queue' \in {queue, queue \o all}
  BY DEF CloseArticle
<1> HIDE DEF all
<1>6. /\ Elements(queue') \subseteq Elements(queue) \cup Elements(all)
      /\ Elements(queue) \subseteq Elements(queue')
  BY <1>1, <1>3, <1>5, ElementsOfConcat
<1> QED
  BY <1>4, <1>6, DotFrame DEF CloseArticle

LEMMA DotHandleData ==
  ASSUME StoreTypeInv, DotInv, HandleData PROVE DotInv'
<1> DEFINE m == Head(queue)
<1>1. /\ Elements(queue) = Elements(queue') \cup {m} /\ m.kind = "data"
  BY MessageTypes, ElementsOfTail DEF HandleData, StoreTypeInv
<1>2. /\ UNCHANGED <<running, synced, list>>
      /\ dot' = (dot \/ (m.btn /\ SomeUnread(m.ids)))
  BY DEF HandleData, processVars
<1>3. /\ ~job.busy /\ job.left.read = {} /\ m \in DataMessage
      /\ \/ UNCHANGED <<rows, job>>
         \/ /\ rows'.read = {} /\ job'.left.read = m.ids \cap rows.read
            /\ job'.ids = m.ids
  BY MarksOfStep
<1> HIDE DEF m
<1>4. synced /\ m.ids = list /\ running
  BY <1>1 DEF DotInv
<1>5. ASSUME ~dot', \A k \in Elements(queue') : k.kind = "data" => ~k.btn
      PROVE  list \subseteq rows.read
  <2>1. CASE m.btn
    <3>1. ~SomeUnread(list)
      BY <1>2, <1>4, <1>5, <2>1
    <3> QED
      BY <3>1 DEF SomeUnread
  <2>2. CASE ~m.btn
    <3>1. ~dot /\ \A k \in Elements(queue) : k.kind = "data" => ~k.btn
      BY <1>1, <1>2, <1>5, <2>2
    <3> QED
      BY <1>3, <1>4, <3>1 DEF DotInv
  <2> QED
    BY <2>1, <2>2
<1>6. ASSUME ~dot', \A k \in Elements(queue') : k.kind = "data" => ~k.btn
      PROVE  /\ list \subseteq rows'.read \cup job'.left.read
             /\ job'.busy => job'.ids = list
  BY <1>3, <1>4, <1>5, <1>6
<1> QED
  BY <1>1, <1>2, <1>4, <1>6 DEF DotInv

LEMMA DotInsertNext ==
  ASSUME StoreTypeInv, DotInv, InsertNext PROVE DotInv'
<1>1. /\ job.busy /\ job'.busy /\ job'.ids = job.ids
      /\ rows'.read \cup job'.left.read = rows.read \cup job.left.read
  BY MarksOfStep
<1>2. UNCHANGED <<running, synced, list, queue, dot>>
  BY DEF InsertNext, processVars
<1> QED
  BY <1>1, <1>2 DEF DotInv

LEMMA DotNextListener ==
  ASSUME StoreTypeInv, DotInv, NextListener PROVE DotInv'
<1>1. /\ job.busy /\ job.left.read = {}
      /\ \/ ~job'.busy /\ job'.left.read = {} /\ rows' = rows
         \/ /\ rows'.read = {} /\ job'.left.read = job.ids \cap rows.read
            /\ job'.busy /\ job'.ids = job.ids
  BY MarksOfStep
<1>2. UNCHANGED <<running, synced, list, queue, dot>>
  BY DEF NextListener, processVars
<1> QED
  BY <1>1, <1>2 DEF DotInv

LEMMA DotEnd ==
  ASSUME EndProcess PROVE DotInv'
<1>1. synced' = FALSE /\ queue' = <<>>
  BY DEF EndProcess
<1> QED
  BY <1>1, ElementsOfEmpty DEF DotInv

LEMMA DotHandleClick ==
  ASSUME StoreTypeInv, DotInv, NEW linked \in BOOLEAN, HandleClick(linked)
  PROVE  DotInv'
<1>1. /\ Elements(queue) = Elements(Tail(queue)) \cup {Head(queue)}
      /\ Head(queue).kind = "click"
  BY MessageTypes, ElementsOfTail DEF HandleClick, StoreTypeInv
<1>2. rows.read \subseteq rows'.read
  BY MarksOfStep
<1>3. CASE EndProcess
  BY <1>3, DotEnd
<1>4. CASE ~EndProcess
  <2>1. queue' = Tail(queue) /\ UNCHANGED <<processVars, job, dot>>
    BY <1>4 DEF HandleClick
  <2> QED
    BY <1>1, <1>2, <2>1, DotFrame
<1> QED
  BY <1>3, <1>4

LEMMA DotHandleResult ==
  ASSUME StoreTypeInv, DotInv, HandleResult PROVE DotInv'
<1>1. /\ Elements(queue) = Elements(Tail(queue)) \cup {Head(queue)}
      /\ Head(queue).kind = "result"
  BY MessageTypes, ElementsOfTail DEF HandleResult, StoreTypeInv
<1>2. CASE Die
  BY <1>2, DotEnd DEF Die
<1>3. CASE ~Die
  <2>1. queue' = Tail(queue) /\ UNCHANGED <<processVars, job, rows, dot>>
    BY <1>3 DEF HandleResult
  <2> QED
    BY <1>1, <2>1, DotFrame
<1> QED
  BY <1>2, <1>3

LEMMA DotStep ==
  ASSUME StoreTypeInv, DotInv, [StoreNext]_storeVars PROVE DotInv'
<1>1. CASE Start
  BY <1>1 DEF Start, DotInv
<1>2. CASE CloseScreen
  BY <1>2, DotFrame DEF CloseScreen
<1>3. CASE Layout
  BY <1>3, DotFrame DEF Layout
<1>4. CASE SystemKills
  BY <1>4, DotEnd DEF SystemKills, Die
<1>5. CASE UNCHANGED storeVars
  BY <1>5, DotFrame DEF storeVars
<1> QED
  BY <1>1, <1>2, <1>3, <1>4, <1>5, DotSnapshot, DotOpenScreen, DotTouch,
     DotCloseArticle, DotHandleData, DotInsertNext, DotNextListener, DotHandleClick,
     DotHandleResult DEF StoreNext

LEMMA DotInvariant == StoreSpec => []DotInv
<1>1. StoreInit => DotInv
  BY ElementsOfEmpty DEF StoreInit, DotInv
<1>2. StoreTypeInv /\ DotInv /\ [StoreNext]_storeVars => DotInv'
  BY DotStep
<1> QED
  BY <1>1, <1>2, StoreTypeInvariant, PTL DEF StoreSpec

\* Once nothing is left to handle, an unread notification of the list shows the
\* dot, whatever was tapped, opened or replaced before and behind the message.
THEOREM UnreadAlwaysDotted == StoreSpec => []DotShowsUnread
<1>1. StoreTypeInv /\ DotInv => DotShowsUnread
  <2> SUFFICES ASSUME StoreTypeInv, DotInv, Idle, synced, ~Waiting({"data"}), ~dot
               PROVE  list \subseteq rows.read
    BY DEF DotShowsUnread
  <2>1. \A m \in Elements(queue) : m.kind # "data"
    BY WaitingIn
  <2>2. job.left.read = {}
    BY NoJobMarks DEF Idle, StoreTypeInv, JobShape
  <2> QED
    BY <2>1, <2>2 DEF DotInv
<1> QED
  BY <1>1, DotInvariant, StoreTypeInvariant, PTL

-----------------------------------------------------------------------------
(* What is drawn as read *)

\* The results still to come of what was tapped last.
Owed == {r \in Elements(reading) \cup Elements(results) \cup Elements(queue) :
           r.kind = "result" /\ r.last}

\* The result of n will draw it as read: its object is marked, and its view is,
\* or is the one at the position.
WillBeDrawn(n) ==
  /\ n \in adapter[Visible].ids => n \in adapter[Visible].read
  /\ /\ shown[Visible].gen = adapter[Visible].gen
     /\ n \in shown[Visible].ids \ shown[Visible].read
     => IndexIn(n, adapter[Visible].ids) = position[Visible]

\* The objects of what has been left are marked, by the result or by the
\* snapshots since, and its views are, for as long as they are bound to these
\* objects.
ReturnedInv ==
  /\ \A s \in Screen :
       /\ returned[s] \subseteq marked
       /\ returned[s] \cap adapter[s].ids \subseteq adapter[s].read
       /\ shown[s].gen = adapter[s].gen =>
            returned[s] \cap shown[s].ids \subseteq shown[s].read
  /\ \A r \in Owed :
       r.id \in marked /\ position[Visible] # NO_POSITION => WillBeDrawn(r.id)

LEMMA OwedPage ==
  ASSUME StoreTypeInv, NEW r \in Owed PROVE stack # <<>> /\ Visible \in Screen
<1>1. reading # <<>> \/ results # <<>> \/ \E m \in Elements(queue) : m.kind = "result"
  BY ElementsOfEmpty DEF Owed
<1>2. stack # <<>>
  BY <1>1 DEF StoreTypeInv, PageShown
<1> QED
  BY <1>2, ScreenType DEF StoreTypeInv

LEMMA ReturnedFrame ==
  ASSUME ReturnedInv, UNCHANGED <<stack, adapter, shown, position, history>>,
         Owed' \subseteq Owed
  PROVE  ReturnedInv'
BY DEF ReturnedInv, WillBeDrawn, Visible, history

\* Adapters that get the objects of a list get the stored marks with them.
LEMMA ReturnedLater ==
  ASSUME StoreTypeInv, ReturnedInv, marked \subseteq rows.read, marked' \subseteq marked,
         NEW ids,
         \A s \in Screen : returned'[s] \subseteq returned[s] \cap marked',
         \A s \in Screen :
           \/ adapter'[s] = adapter[s]
           \/ /\ adapter'[s].ids = ids /\ adapter'[s].read = ids \cap rows.read
              /\ adapter'[s].gen = adapter[s].gen + 1,
         UNCHANGED <<stack, shown, position>>, Owed' \subseteq Owed
  PROVE  ReturnedInv'
<1>1. \A s \in Screen : adapter[s].gen \in Nat /\ shown[s].gen \in Nat
                        /\ shown[s].gen <= adapter[s].gen
  BY DEF StoreTypeInv, StoreTypeOK, Objects, ViewsBound
<1>2. ASSUME NEW s \in Screen
      PROVE  /\ returned'[s] \subseteq marked'
             /\ returned'[s] \cap adapter'[s].ids \subseteq adapter'[s].read
             /\ shown'[s].gen = adapter'[s].gen =>
                  returned'[s] \cap shown'[s].ids \subseteq shown'[s].read
  <2>1. CASE adapter'[s] = adapter[s]
    BY <2>1 DEF ReturnedInv
  <2>2. CASE /\ adapter'[s].ids = ids /\ adapter'[s].read = ids \cap rows.read
             /\ adapter'[s].gen = adapter[s].gen + 1
    BY <1>1, <2>2 DEF ReturnedInv
  <2> QED
    BY <2>1, <2>2
<1>3. ASSUME NEW r \in Owed', r.id \in marked', position'[Visible'] # NO_POSITION
      PROVE  WillBeDrawn(r.id)'
  <2>1. r \in Owed /\ Visible' = Visible /\ Visible \in Screen
    BY <1>3, OwedPage DEF Visible
  <2>2. WillBeDrawn(r.id)
    BY <1>3, <2>1 DEF ReturnedInv
  <2>3. CASE adapter'[Visible] = adapter[Visible]
    BY <2>1, <2>2, <2>3 DEF WillBeDrawn
  <2>4. CASE /\ adapter'[Visible].ids = ids /\ adapter'[Visible].read = ids \cap rows.read
             /\ adapter'[Visible].gen = adapter[Visible].gen + 1
    BY <1>1, <1>3, <2>1, <2>4 DEF WillBeDrawn
  <2> QED
    BY <2>1, <2>3, <2>4
<1> QED
  BY <1>2, <1>3 DEF ReturnedInv

LEMMA ReturnedEnd ==
  ASSUME EndProcess PROVE ReturnedInv'
<1>1. Owed' = {}
  BY ElementsOfEmpty DEF EndProcess, Owed
<1>2. \A s \in Screen : returned'[s] = {}
  BY DEF EndProcess
<1> QED
  BY <1>1, <1>2 DEF ReturnedInv

LEMMA ReturnedOpenScreen ==
  ASSUME StoreTypeInv, ReturnedInv, OpenScreen PROVE ReturnedInv'
<1> DEFINE m == [kind |-> "data", ids |-> list, btn |-> FALSE, for |-> {opened'}]
<1>1. m \in Message /\ m.kind = "data"
  <2>1. {opened'} \in SUBSET Screen /\ list \in SUBSET Notif
    BY BoundsAssumption DEF OpenScreen, StoreTypeInv, StoreTypeOK, Screen
  <2> QED
    BY <2>1 DEF Message
<1>2. queue' = IF synced THEN Append(queue, m) ELSE queue
  BY DEF OpenScreen
<1> HIDE DEF m
<1>3. Elements(queue') \subseteq Elements(queue) \cup {m}
  BY <1>1, <1>2, ElementsOfAppend DEF StoreTypeInv, StoreTypeOK
<1>4. \A k \in Elements(queue) : k.kind # "result"
  BY WaitingIn DEF OpenScreen, Still
<1>5. reading' = <<>> /\ results' = <<>>
  BY DEF OpenScreen, Still, StoreTypeInv, PageShown, visitVars
<1>6. Owed' = {}
  BY <1>1, <1>3, <1>4, <1>5, ElementsOfEmpty DEF Owed
<1>7. UNCHANGED <<adapter, shown, history>>
  BY DEF OpenScreen
<1> QED
  BY <1>6, <1>7 DEF ReturnedInv, history

LEMMA ReturnedCloseScreen ==
  ASSUME StoreTypeInv, ReturnedInv, CloseScreen PROVE ReturnedInv'
<1>1. \A k \in Elements(queue) : k.kind # "result"
  BY WaitingIn DEF CloseScreen, Still
<1>2. reading' = <<>> /\ results' = <<>> /\ queue' = queue
  BY DEF CloseScreen, Still, StoreTypeInv, PageShown, visitVars
<1>3. Owed' = {}
  BY <1>1, <1>2, ElementsOfEmpty DEF Owed
<1>4. /\ adapter' = [adapter EXCEPT ![Visible] = NoObjects]
      /\ shown' = [shown EXCEPT ![Visible] = NoObjects]
      /\ returned' = [returned EXCEPT ![Visible] = {}] /\ marked' = marked
      /\ adapter \in [Screen -> Objects] /\ shown \in [Screen -> Objects]
      /\ returned \in [Screen -> SUBSET Notif]
  BY DEF CloseScreen, StoreTypeInv, StoreTypeOK
<1>5. ASSUME NEW s \in Screen
      PROVE  /\ returned'[s] \subseteq marked'
             /\ returned'[s] \cap adapter'[s].ids \subseteq adapter'[s].read
             /\ shown'[s].gen = adapter'[s].gen =>
                  returned'[s] \cap shown'[s].ids \subseteq shown'[s].read
  <2>1. CASE s = Visible
    <3>1. returned'[s] = {}
      BY <1>4, <2>1
    <3> QED
      BY <3>1
  <2>2. CASE s # Visible
    <3>1. /\ returned'[s] = returned[s] /\ adapter'[s] = adapter[s]
          /\ shown'[s] = shown[s]
      BY <1>4, <2>2
    <3> QED
      BY <1>4, <3>1 DEF ReturnedInv
  <2> QED
    BY <2>1, <2>2
<1> QED
  BY <1>3, <1>5 DEF ReturnedInv

LEMMA ReturnedLayout ==
  ASSUME StoreTypeInv, ReturnedInv, Layout PROVE ReturnedInv'
<1>1. Visible \in Screen
  BY ScreenType DEF Layout, StoreTypeInv
<1>2. /\ shown' = [shown EXCEPT ![Visible] = adapter[Visible]]
      /\ shown \in [Screen -> Objects]
      /\ UNCHANGED <<stack, queue, reading, results, adapter, position, returned, marked>>
  BY DEF Layout, StoreTypeInv, StoreTypeOK, visitVars, history
<1>3. ASSUME NEW s \in Screen
      PROVE  shown'[s].gen = adapter'[s].gen =>
               returned'[s] \cap shown'[s].ids \subseteq shown'[s].read
  <2>1. CASE s = Visible
    <3>1. shown'[s] = adapter[s]
      BY <1>1, <1>2, <2>1
    <3> QED
      BY <1>2, <3>1 DEF ReturnedInv
  <2>2. CASE s # Visible
    <3>1. shown'[s] = shown[s]
      BY <1>2, <2>2
    <3> QED
      BY <1>2, <3>1 DEF ReturnedInv
  <2> QED
    BY <2>1, <2>2
<1>4. ASSUME NEW r \in Owed', r.id \in marked', position'[Visible'] # NO_POSITION
      PROVE  WillBeDrawn(r.id)'
  <2>1. r \in Owed /\ Visible' = Visible
    BY <1>2, <1>4 DEF Owed, Visible
  <2>2. WillBeDrawn(r.id)
    BY <1>2, <1>4, <2>1 DEF ReturnedInv
  <2>3. shown'[Visible] = adapter[Visible]
    BY <1>1, <1>2
  <2> QED
    BY <1>2, <2>1, <2>2, <2>3 DEF WillBeDrawn
<1> QED
  BY <1>2, <1>3, <1>4 DEF ReturnedInv

LEMMA OwedTouch ==
  ASSUME StoreTypeInv, NEW n \in Notif, Touch(n) PROVE Owed' \subseteq Owed
<1> DEFINE m == [kind |-> "click", id |-> n, gen |-> shown[Visible].gen]
<1>1. m \in Message /\ m.kind # "result"
  <2>1. shown[Visible].gen \in Nat
    BY ScreenType DEF Touch, StoreTypeInv, StoreTypeOK, Objects
  <2> QED
    BY <2>1 DEF Message
<1>2. queue' = Append(queue, m) /\ UNCHANGED <<reading, results>>
  BY DEF Touch, visitVars
<1> HIDE DEF m
<1>3. Elements(queue') = Elements(queue) \cup {m}
  BY <1>1, <1>2, ElementsOfAppend DEF StoreTypeInv, StoreTypeOK
<1> QED
  BY <1>1, <1>2, <1>3 DEF Owed

LEMMA OwedSnapshot ==
  ASSUME StoreTypeInv, NEW ids \in SUBSET Notif, Snapshot(ids) PROVE Owed' \subseteq Owed
<1> DEFINE m == [kind |-> "data", ids |-> ids, btn |-> TRUE, for |-> 1 .. opened]
<1>1. m \in Message /\ m.kind # "result"
  <2>1. 1 .. opened \in SUBSET Screen
    BY BoundsAssumption DEF StoreTypeInv, StoreTypeOK, Screen
  <2> QED
    BY <2>1 DEF Message
<1>2. queue' = Append(queue, m) /\ UNCHANGED <<reading, results>>
  BY DEF Snapshot, visitVars
<1> HIDE DEF m
<1>3. Elements(queue') = Elements(queue) \cup {m}
  BY <1>1, <1>2, ElementsOfAppend DEF StoreTypeInv, StoreTypeOK
<1> QED
  BY <1>1, <1>2, <1>3 DEF Owed

LEMMA OwedCloseArticle ==
  ASSUME StoreTypeInv, NEW ok \in BOOLEAN, CloseArticle(ok) PROVE Owed' \subseteq Owed
<1> DEFINE r == reading[Len(reading)]
           all == IF ok THEN Append(results, r) ELSE results
<1>1. /\ reading \in Seq(Result) /\ results \in Seq(Result)
      /\ queue \in Seq(Message) /\ reading # <<>>
  BY DEF CloseArticle, StoreTypeInv, StoreTypeOK
<1>2. r \in Result /\ r \in Elements(reading)
  BY <1>1, ElementsOfFront, ElementsType
<1>3. /\ all \in Seq(Result) /\ all \in Seq(Message)
      /\ Elements(all) \subseteq Elements(results) \cup {r}
  <2>1. all \in Seq(Result) /\ Elements(all) \subseteq Elements(results) \cup {r}
    BY <1>1, <1>2, ElementsOfAppend
  <2> QED
    BY <2>1, MessageIsOne, SeqMonotonic
<1>4. IF Len(reading) = 1 THEN queue' = queue \o all /\ results' = <<>>
                          ELSE results' = all /\ queue' = queue
  BY DEF CloseArticle
<1>5. Elements(reading') \subseteq Elements(reading)
  BY <1>1, ElementsOfFront DEF CloseArticle
<1> HIDE DEF all, r
<1>6. /\ Elements(queue') \subseteq Elements(queue) \cup Elements(all)
      /\ Elements(results') \subseteq Elements(all)
  <2>1. Elements(queue \o all) \subseteq Elements(queue) \cup Elements(all)
    BY <1>1, <1>3, ElementsOfConcat
  <2> QED
    BY <1>4, <2>1, ElementsOfEmpty
<1> QED
  BY <1>2, <1>3, <1>5, <1>6 DEF Owed

LEMMA ReturnedHandleData ==
  ASSUME StoreTypeInv, MarksInv, ReturnedInv, HandleData PROVE ReturnedInv'
<1> DEFINE m == Head(queue)
<1>1. Elements(queue') \subseteq Elements(queue)
  BY MessageTypes, ElementsOfTail DEF HandleData, StoreTypeInv
<1>2. /\ UNCHANGED <<stack, shown, position, reading, results>>
      /\ marked' = marked \cap m.ids
      /\ returned' = [s \in Screen |-> returned[s] \cap m.ids]
  BY DEF HandleData, visitVars
<1>3. Owed' \subseteq Owed
  BY <1>1, <1>2 DEF Owed
<1>4. /\ ~job.busy /\ job.left.read = {} /\ m \in DataMessage
  BY MarksOfStep
<1>5. marked \subseteq rows.read
  BY <1>4 DEF MarksInv
<1>6. m.ids \in SUBSET Notif /\ m.for \in SUBSET Screen
  BY <1>4 DEF DataMessage
<1>7. IF m.for = {} THEN UNCHANGED <<adapter, rows, job>> ELSE Listener(m.ids, m.for)
  BY DEF HandleData
<1> HIDE DEF m
<1>8. \A s \in Screen :
           \/ adapter'[s] = adapter[s]
           \/ /\ adapter'[s].ids = m.ids /\ adapter'[s].read = m.ids \cap rows.read
              /\ adapter'[s].gen = adapter[s].gen + 1
  BY <1>6, <1>7, ListenerType
<1>9. \A s \in Screen : returned'[s] \subseteq returned[s] \cap marked'
  BY <1>2 DEF ReturnedInv
<1> QED
  BY <1>2, <1>3, <1>5, <1>8, <1>9, ReturnedLater

LEMMA ReturnedNextListener ==
  ASSUME StoreTypeInv, MarksInv, ReturnedInv, NextListener PROVE ReturnedInv'
<1>1. UNCHANGED <<stack, queue, shown, position, reading, results, marked, returned>>
  BY DEF NextListener, visitVars, history
<1>2. Owed' \subseteq Owed
  BY <1>1 DEF Owed
<1>3. marked \subseteq rows.read
  BY MarksOfStep DEF MarksInv
<1>4. job.ids \in SUBSET Notif /\ job.for \in SUBSET Screen
  BY DEF StoreTypeInv, StoreTypeOK
<1>5. \A s \in Screen :
           \/ adapter'[s] = adapter[s]
           \/ /\ adapter'[s].ids = job.ids /\ adapter'[s].read = job.ids \cap rows.read
              /\ adapter'[s].gen = adapter[s].gen + 1
  <2>1. CASE job.for = {}
    BY <2>1 DEF NextListener
  <2>2. CASE job.for # {}
    BY <1>4, <2>2, ListenerType DEF NextListener
  <2> QED
    BY <2>1, <2>2
<1>6. \A s \in Screen : returned'[s] \subseteq returned[s] \cap marked'
  BY <1>1 DEF ReturnedInv
<1> QED
  BY <1>1, <1>2, <1>3, <1>5, <1>6, ReturnedLater

LEMMA ReturnedHandleClick ==
  ASSUME StoreTypeInv, ReturnedInv, NEW linked \in BOOLEAN, HandleClick(linked)
  PROVE  ReturnedInv'
<1> DEFINE m == Head(queue)
           at == AdapterPosition(m)
           r == [kind |-> "result", id |-> m.id, last |-> TRUE]
<1>1. /\ m \in Elements(queue) /\ Elements(Tail(queue)) \subseteq Elements(queue)
      /\ m.kind = "click"
  BY MessageTypes, ElementsOfTail DEF HandleClick, StoreTypeInv
<1>2. /\ m \in Click /\ m.id \in Notif
      /\ results = <<>> /\ \A k \in Elements(queue) : k.kind # "result"
  BY <1>1, MessageTypes DEF StoreTypeInv, PageShown, Click
<1>3. CASE ~linked /\ Throws(at)
  BY <1>3, ReturnedEnd DEF HandleClick
<1>4. CASE ~(~linked /\ Throws(at))
  <2>1. /\ position' = [position EXCEPT ![Visible] = at] /\ queue' = Tail(queue)
        /\ UNCHANGED <<stack, results>>
        /\ marked' = marked \cup ({m.id} \cap rows.ids)
    BY <1>4 DEF HandleClick
  <2>2. /\ stack # <<>> /\ Visible \in Screen
        /\ MarkedObject(m) \in Objects
        /\ MarkedObject(m).ids = adapter[Visible].ids
        /\ MarkedObject(m).gen = adapter[Visible].gen
        /\ adapter[Visible].read \subseteq MarkedObject(m).read
        /\ MarkedObject(m).read \subseteq MarkedObject(m).ids
        /\ m.gen = adapter[Visible].gen =>
             m.id \in MarkedObject(m).read /\ m.id \in adapter[Visible].ids
    BY <1>1, <1>2, MarkedObjectType
  <2>3. /\ adapter \in [Screen -> Objects] /\ shown \in [Screen -> Objects]
        /\ position \in [Screen -> Nat \cup {NO_POSITION}]
        /\ returned \in [Screen -> SUBSET Notif]
    BY DEF StoreTypeInv, StoreTypeOK
  <2>4. Visible' = Visible /\ position'[Visible] = at
    BY <2>1, <2>2, <2>3 DEF Visible
  <2>5. at # NO_POSITION =>
          /\ m.gen = adapter[Visible].gen
          /\ IndexIn(m.id, adapter[Visible].ids) = at
    BY DEF AdapterPosition
  <2>6. CASE linked
    <3>1. /\ adapter' = [adapter EXCEPT ![Visible] = MarkedObject(m)]
          /\ reading' = Append(Older, r) /\ UNCHANGED <<shown, returned>>
      BY <1>4, <2>6 DEF HandleClick
    <3>2. Elements(reading') = Elements(Older) \cup {r}
      <4>1. r \in Result
        BY <1>2 DEF Result
      <4>2. Older \in Seq(Result) /\ reading' = Append(Older, r)
        BY <3>1, OlderType
      <4> HIDE DEF r
      <4> QED
        BY <4>1, <4>2, ElementsOfAppend
    <3>3. Owed' \subseteq {r}
      BY <1>1, <1>2, <2>1, <3>2, OlderType, ElementsOfEmpty DEF Owed
    <3>4. r.id = m.id
      OBVIOUS
    <3> HIDE DEF m, at, r
    <3>5. /\ adapter'[Visible] = MarkedObject(m)
          /\ \A s \in Screen : s # Visible => adapter'[s] = adapter[s]
      BY <2>2, <2>3, <3>1
    <3>6. ASSUME NEW s \in Screen
          PROVE  /\ returned'[s] \subseteq marked'
                 /\ returned'[s] \cap adapter'[s].ids \subseteq adapter'[s].read
                 /\ shown'[s].gen = adapter'[s].gen =>
                      returned'[s] \cap shown'[s].ids \subseteq shown'[s].read
      <4>1. /\ adapter'[s].ids = adapter[s].ids /\ adapter'[s].gen = adapter[s].gen
            /\ adapter[s].read \subseteq adapter'[s].read
        BY <2>2, <3>5
      <4> QED
        BY <2>1, <3>1, <4>1 DEF ReturnedInv
    <3>7. ASSUME at # NO_POSITION, NEW n, n = m.id PROVE WillBeDrawn(n)'
      <4>1. /\ adapter'[Visible].ids = adapter[Visible].ids
            /\ n \in adapter'[Visible].read
        BY <2>2, <2>5, <3>5, <3>7
      <4>2. IndexIn(n, adapter[Visible].ids) = position'[Visible]
        BY <2>4, <2>5, <3>7
      <4> QED
        BY <2>4, <4>1, <4>2 DEF WillBeDrawn, IndexIn
    <3>8. ASSUME NEW o \in Owed', position'[Visible'] # NO_POSITION
          PROVE  WillBeDrawn(o.id)'
      <4>1. o = r /\ at # NO_POSITION
        BY <2>4, <3>3, <3>8
      <4>2. o.id = m.id
        BY <3>4, <4>1
      <4> QED
        BY <3>7, <4>1, <4>2
    <3> QED
      BY <3>6, <3>8 DEF ReturnedInv
  <2>7. CASE ~linked
    <3>1. /\ UpdateReadItemPosition(Visible, MarkedObject(m), at)
          /\ reading' = Older
          /\ returned' = [returned EXCEPT ![Visible] = @ \cup ({m.id} \cap rows.ids)]
      BY <1>4, <2>7 DEF HandleClick
    <3>2. Owed' = {}
      BY <1>1, <1>2, <2>1, <3>1, OlderType, ElementsOfEmpty DEF Owed
    <3>3. at # NO_POSITION
      BY <1>4, <2>7 DEF Throws
    <3> DEFINE hit == {n \in adapter[Visible].ids : IndexIn(n, adapter[Visible].ids) = at}
    <3>4. m.id \in hit
      BY <2>2, <2>5, <3>3
    <3> HIDE DEF m, at, hit
    <3>5. /\ OnlyMarks
          /\ \A t \in Screen : t # Visible => adapter'[t] = adapter[t] /\ shown'[t] = shown[t]
          /\ adapter'[Visible].read = MarkedObject(m).read \cup hit
          /\ shown[Visible].gen = adapter[Visible].gen =>
               shown'[Visible].read = shown[Visible].read \cup hit
      BY <2>2, <3>1, UpdateType DEF hit
    <3>6. /\ returned'[Visible] = returned[Visible] \cup ({m.id} \cap rows.ids)
          /\ \A s \in Screen : s # Visible => returned'[s] = returned[s]
      BY <2>2, <2>3, <3>1
    <3>7. ASSUME NEW s \in Screen
          PROVE  /\ returned'[s] \subseteq marked'
                 /\ returned'[s] \cap adapter'[s].ids \subseteq adapter'[s].read
                 /\ shown'[s].gen = adapter'[s].gen =>
                      returned'[s] \cap shown'[s].ids \subseteq shown'[s].read
      <4>1. CASE s # Visible
        BY <2>1, <3>5, <3>6, <4>1 DEF ReturnedInv
      <4>2. CASE s = Visible
        <5>1. /\ adapter'[s].ids = adapter[s].ids /\ adapter'[s].gen = adapter[s].gen
              /\ shown'[s].ids = shown[s].ids /\ shown'[s].gen = shown[s].gen
          BY <3>5 DEF OnlyMarks
        <5>2. returned'[s] \subseteq marked'
          BY <2>1, <3>6, <4>2 DEF ReturnedInv
        <5>3. returned'[s] \cap adapter'[s].ids \subseteq adapter'[s].read
          BY <2>2, <3>4, <3>5, <3>6, <4>2, <5>1 DEF ReturnedInv
        <5>4. shown'[s].gen = adapter'[s].gen =>
                      returned'[s] \cap shown'[s].ids \subseteq shown'[s].read
          BY <3>4, <3>5, <3>6, <4>2, <5>1 DEF ReturnedInv
        <5> QED
          BY <5>2, <5>3, <5>4
      <4> QED
        BY <4>1, <4>2
    <3> QED
      BY <3>2, <3>7 DEF ReturnedInv
  <2> QED
    BY <2>6, <2>7
<1> QED
  BY <1>3, <1>4

LEMMA ReturnedHandleResult ==
  ASSUME StoreTypeInv, ReturnedInv, HandleResult PROVE ReturnedInv'
<1> DEFINE r == Head(queue)
           V == Visible
           hit == {n \in adapter[V].ids : IndexIn(n, adapter[V].ids) = position[V]}
<1>1. /\ r \in Elements(queue) /\ Elements(Tail(queue)) \subseteq Elements(queue)
      /\ r.kind = "result"
  BY MessageTypes, ElementsOfTail DEF HandleResult, StoreTypeInv
<1>2. stack # <<>> /\ V \in Screen
  <2>1. stack # <<>>
    BY <1>1 DEF StoreTypeInv, PageShown
  <2> QED
    BY <2>1, ScreenType DEF StoreTypeInv
<1>3. CASE Throws(position[V])
  BY <1>3, ReturnedEnd DEF HandleResult, Die
<1>4. CASE ~Throws(position[V])
  <2>1. /\ UpdateReadItemPosition(V, adapter[V], position[V])
        /\ queue' = Tail(queue)
        /\ UNCHANGED <<stack, position, reading, results, marked>>
        /\ returned' = IF r.last THEN [returned EXCEPT ![V] = @ \cup ({r.id} \cap marked)]
                                 ELSE returned
    BY <1>4 DEF HandleResult, visitVars
  <2>2. /\ adapter[V] \in Objects /\ adapter[V].read \subseteq adapter[V].ids
        /\ returned \in [Screen -> SUBSET Notif]
        /\ shown[V].gen = adapter[V].gen => shown[V].ids = adapter[V].ids
    BY <1>2 DEF StoreTypeInv, StoreTypeOK, ViewsBound
  <2>3. position[V] # NO_POSITION
    BY <1>4 DEF Throws
  <2>4. r.last /\ r.id \in marked => WillBeDrawn(r.id)
    BY <1>1, <2>3 DEF ReturnedInv, Owed
  <2>5. Owed' \subseteq Owed
    BY <1>1, <2>1 DEF Owed
  <2>6. V' = V
    BY <2>1 DEF Visible
  <2> HIDE DEF r, hit
  <2>7. /\ OnlyMarks
        /\ \A t \in Screen : t # V => adapter'[t] = adapter[t] /\ shown'[t] = shown[t]
        /\ adapter'[V].read = adapter[V].read \cup hit
        /\ shown[V].read \subseteq shown'[V].read
        /\ shown[V].gen = adapter[V].gen => shown'[V].read = shown[V].read \cup hit
    BY <1>2, <2>1, <2>2, UpdateType DEF hit
  <2>8. /\ adapter'[V].ids = adapter[V].ids /\ adapter'[V].gen = adapter[V].gen
        /\ shown'[V].ids = shown[V].ids /\ shown'[V].gen = shown[V].gen
    BY <1>2, <2>7 DEF OnlyMarks
  <2>9. /\ returned'[V] \subseteq returned[V] \cup (IF r.last THEN {r.id} \cap marked ELSE {})
        /\ \A s \in Screen : s # V => returned'[s] = returned[s]
    BY <1>2, <2>1, <2>2
  <2>10. ASSUME NEW s \in Screen
         PROVE  /\ returned'[s] \subseteq marked'
                /\ returned'[s] \cap adapter'[s].ids \subseteq adapter'[s].read
                /\ shown'[s].gen = adapter'[s].gen =>
                     returned'[s] \cap shown'[s].ids \subseteq shown'[s].read
    <3>1. CASE s # V
      BY <2>1, <2>7, <2>9, <3>1 DEF ReturnedInv
    <3>2. CASE s = V
      <4>1. returned'[s] \subseteq marked'
        BY <2>1, <2>9, <3>2 DEF ReturnedInv
      <4>2. returned'[s] \cap adapter'[s].ids \subseteq adapter'[s].read
        BY <2>4, <2>7, <2>8, <2>9, <3>2 DEF ReturnedInv, WillBeDrawn
      <4>3. ASSUME shown'[s].gen = adapter'[s].gen,
                   NEW n \in returned'[s] \cap shown'[s].ids
            PROVE  n \in shown'[s].read
        <5>1. shown[V].gen = adapter[V].gen /\ n \in shown[V].ids /\ n \in adapter[V].ids
          BY <2>2, <2>8, <3>2, <4>3
        <5>2. CASE n \in returned[V]
          BY <2>7, <3>2, <5>1, <5>2 DEF ReturnedInv
        <5>3. CASE n \notin returned[V]
          <6>1. r.last /\ n = r.id /\ r.id \in marked
            BY <2>9, <3>2, <4>3, <5>3
          <6>2. n \in shown[V].read \/ IndexIn(n, adapter[V].ids) = position[V]
            BY <2>4, <5>1, <6>1 DEF WillBeDrawn
          <6>3. n \in shown[V].read \/ n \in hit
            BY <5>1, <6>2 DEF hit
          <6> QED
            BY <2>7, <3>2, <5>1, <6>3
        <5> QED
          BY <5>2, <5>3
      <4> QED
        BY <4>1, <4>2, <4>3
    <3> QED
      BY <3>1, <3>2
  <2>11. ASSUME NEW o \in Owed', o.id \in marked', position'[V'] # NO_POSITION
         PROVE  WillBeDrawn(o.id)'
    <3>1. WillBeDrawn(o.id)
      BY <2>1, <2>5, <2>6, <2>11 DEF ReturnedInv
    <3>2. /\ o.id \in adapter'[V].ids => o.id \in adapter'[V].read
          /\ /\ shown'[V].gen = adapter'[V].gen
             /\ o.id \in shown'[V].ids \ shown'[V].read
             => IndexIn(o.id, adapter[V].ids) = position[V]
      BY <2>7, <2>8, <3>1 DEF WillBeDrawn
    <3> QED
      BY <2>1, <2>6, <2>8, <3>2 DEF WillBeDrawn, IndexIn
  <2> QED
    BY <2>10, <2>11 DEF ReturnedInv
<1> QED
  BY <1>3, <1>4

LEMMA ReturnedStep ==
  ASSUME StoreTypeInv, MarksInv, ReturnedInv, [StoreNext]_storeVars
  PROVE  ReturnedInv'
<1>1. CASE Start \/ InsertNext \/ UNCHANGED storeVars
  <2>1. UNCHANGED <<stack, adapter, shown, position, history, queue, reading, results>>
    BY <1>1 DEF Start, InsertNext, storeVars, screenVars, visitVars
  <2>2. Owed' = Owed
    BY <2>1 DEF Owed
  <2> QED
    BY <2>1, <2>2, ReturnedFrame
<1>2. ASSUME NEW ids \in SUBSET Notif, Snapshot(ids) PROVE ReturnedInv'
  BY <1>2, OwedSnapshot, ReturnedFrame DEF Snapshot, screenVars
<1>3. ASSUME NEW n \in Notif, Touch(n) PROVE ReturnedInv'
  BY <1>3, OwedTouch, ReturnedFrame DEF Touch, screenVars
<1>4. ASSUME NEW ok \in BOOLEAN, CloseArticle(ok) PROVE ReturnedInv'
  BY <1>4, OwedCloseArticle, ReturnedFrame DEF CloseArticle, screenVars
<1>5. CASE SystemKills
  BY <1>5, ReturnedEnd DEF SystemKills, Die
<1> QED
  BY <1>1, <1>2, <1>3, <1>4, <1>5, ReturnedOpenScreen, ReturnedCloseScreen,
     ReturnedLayout, ReturnedHandleData, ReturnedNextListener, ReturnedHandleClick,
     ReturnedHandleResult DEF StoreNext

LEMMA ReturnedInvariant == StoreSpec => []ReturnedInv
<1>1. StoreInit => ReturnedInv
  <2>1. StoreInit => Owed = {}
    BY ElementsOfEmpty DEF StoreInit, Owed
  <2>2. StoreInit => \A s \in Screen : returned[s] = {}
    BY DEF StoreInit
  <2> QED
    BY <2>1, <2>2 DEF ReturnedInv
<1>2. StoreTypeInv /\ MarksInv /\ ReturnedInv /\ [StoreNext]_storeVars => ReturnedInv'
  BY ReturnedStep
<1> QED
  BY <1>1, <1>2, StoreTypeInvariant, MarksInvariant, PTL DEF StoreSpec

\* What was tapped last on the visible page, and left by the arrow, is drawn as
\* read by every view bound to the page's objects, whatever lists came while the
\* article was open.
THEOREM ReturnedAlwaysShown == StoreSpec => []ReturnedShown
<1>1. StoreTypeInv /\ ReturnedInv => ReturnedShown
  <2> SUFFICES ASSUME StoreTypeInv, ReturnedInv, stack # <<>>,
                      shown[Visible].gen = adapter[Visible].gen
               PROVE  returned[Visible] \cap marked \cap shown[Visible].ids
                        \subseteq shown[Visible].read
    BY DEF ReturnedShown
  <2>1. Visible \in Screen
    BY ScreenType DEF StoreTypeInv
  <2> QED
    BY <2>1 DEF ReturnedInv
<1> QED
  BY <1>1, ReturnedInvariant, StoreTypeInvariant, PTL
=============================================================================
