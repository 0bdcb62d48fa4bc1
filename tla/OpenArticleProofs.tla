------------------------- MODULE OpenArticleProofs -------------------------
(***************************************************************************)
(* Proofs about the two ways in which the Android app keeps an article it  *)
(* has opened in step with something else.  About NotifDeepLink, for every *)
(* number of instances and snapshots: the type invariant, and that the     *)
(* first screen an instance of News_Activity opens is the answer OneAnswer *)
(* asks for.  About SavedBookmarks, for every number of articles and       *)
(* screens: the type invariant, one bookmark at most, the copies of the    *)
(* article screens and the lists of bookmarks.  BookmarksInv is inductive. *)
(***************************************************************************)
EXTENDS NotifDeepLink, SavedBookmarks, SequenceTheorems, FiniteSetTheorems,
        WellFoundedInduction, TLAPS

-----------------------------------------------------------------------------
(* A tapped notification (NotifDeepLink) *)

Message == [list : List, has : BOOLEAN, for : SUBSET Instance]

-----------------------------------------------------------------------------
(* The shape of the state *)

\* What a new listener is sent at once is a sequence of messages.
LEMMA CachedType ==
  ASSUME NEW l \in List, NEW i \in Instance PROVE Cached(l, i) \in Seq(Message)
<1>1. CASE l \in loaded
  <2>1. (l \in holding) \in BOOLEAN
    OBVIOUS
  <2>2. Snapshot(l, l \in holding, {i}) \in Message
    BY <2>1 DEF Snapshot, Message
  <2> QED
    BY <1>1, <2>2 DEF Cached
<1>2. CASE l \notin loaded
  BY <1>2, EmptySeq DEF Cached
<1> QED
  BY <1>1, <1>2

\* What one snapshot has an instance open.
LEMMA ScreensType ==
  ASSUME NEW i, NEW l, NEW has \in BOOLEAN
  PROVE  /\ Screens(i, l, has) \in Seq({"article", "list"})
         /\ has => Screens(i, l, has) # <<>> /\ Screens(i, l, has)[1] = "article"
         /\ ~has /\ GiveUp(i, l, found[i][l]) =>
              Screens(i, l, has) # <<>> /\ Screens(i, l, has)[1] = "list"
         /\ ~has /\ ~GiveUp(i, l, found[i][l]) => Screens(i, l, has) = <<>>
<1>1. /\ <<"article">> \in Seq({"article", "list"})
      /\ <<"list">> \in Seq({"article", "list"})
      /\ <<>> \in Seq({"article", "list"})
  BY EmptySeq
<1>2. CASE has
  <2>1. ~GiveUp(i, l, "FOUND")
    BY DEF GiveUp
  <2>2. Screens(i, l, has) = <<"article">> \o <<>>
    BY <1>2, <2>1 DEF Screens
  <2>3. Screens(i, l, has) = <<"article">>
    BY <1>1, <2>2, ConcatEmptySeq
  <2>4. /\ Screens(i, l, has) \in Seq({"article", "list"})
        /\ Screens(i, l, has) # <<>> /\ Screens(i, l, has)[1] = "article"
    BY <1>1, <2>3
  <2> QED
    BY <1>2, <2>4
<1>3. CASE ~has /\ GiveUp(i, l, found[i][l])
  <2>1. Screens(i, l, has) = <<>> \o <<"list">>
    BY <1>3 DEF Screens
  <2>2. Screens(i, l, has) = <<"list">>
    BY <1>1, <2>1, ConcatEmptySeq
  <2>3. /\ Screens(i, l, has) \in Seq({"article", "list"})
        /\ Screens(i, l, has) # <<>> /\ Screens(i, l, has)[1] = "list"
    BY <1>1, <2>2
  <2> QED
    BY <1>3, <2>3
<1>4. CASE ~has /\ ~GiveUp(i, l, found[i][l])
  <2>1. Screens(i, l, has) = <<>> \o <<>>
    BY <1>4 DEF Screens
  <2>2. Screens(i, l, has) = <<>>
    BY <1>1, <2>1, ConcatEmptySeq
  <2> QED
    BY <1>1, <1>4, <2>2
<1> QED
  BY <1>2, <1>3, <1>4

\* An instance that does not search has looked through no list.
OnlySearchers ==
  \A i \in Instance \ lookups : \A l \in List : found[i][l] = "LOADING"

Inv == TypeOK /\ OnlySearchers

\* The first state of a process.
NewProcess ==
  /\ stored \subseteq List
  /\ holding = {} /\ loaded = {} /\ sent = 0 /\ queue = <<>>
  /\ created = 0 /\ lookups = {}
  /\ found = [i \in Instance |-> [l \in List |-> "LOADING"]]
  /\ opened = [i \in Instance |-> <<>>]

LEMMA NewProcessInv == NewProcess => Inv
<1> SUFFICES ASSUME NewProcess PROVE Inv
  OBVIOUS
<1> USE DEF NewProcess
<1>1. sent \in 0 .. MaxSnapshots /\ created \in 0 .. MaxInstances
  BY BoundsAssumption
<1>2. opened \in [Instance -> Seq({"article", "list"})]
      /\ queue \in Seq([list : List, has : BOOLEAN, for : SUBSET Instance])
  BY EmptySeq
<1>3. TypeOK
  BY <1>1, <1>2 DEF TypeOK
<1>4. OnlySearchers
  BY DEF OnlySearchers
<1> QED
  BY <1>3, <1>4 DEF Inv

LEMMA ChangeInv ==
  ASSUME Inv, NEW l \in List, NEW has \in BOOLEAN, Change(l, has) PROVE Inv'
<1>1. /\ sent < MaxSnapshots
      /\ loaded' = loaded \cup {l}
      /\ holding' = IF has THEN holding \cup {l} ELSE holding \ {l}
      /\ sent' = sent + 1
      /\ queue' = Append(queue, Snapshot(l, has, 1 .. created))
      /\ UNCHANGED <<stored, created, lookups, found, opened>>
  BY DEF Change
<1>2. sent' \in 0 .. MaxSnapshots
  BY <1>1, BoundsAssumption DEF Inv, TypeOK
<1>3. 1 .. created \subseteq Instance
  BY BoundsAssumption DEF Inv, TypeOK, Instance
<1>4. Snapshot(l, has, 1 .. created) \in Message
  BY <1>3 DEF Snapshot, Message
<1>5. queue' \in Seq(Message)
  BY <1>1, <1>4, AppendProperties DEF Inv, TypeOK, Message
<1>6. holding' \subseteq loaded' /\ loaded' \subseteq List
  BY <1>1 DEF Inv, TypeOK
<1> QED
  BY <1>1, <1>2, <1>5, <1>6 DEF Inv, TypeOK, OnlySearchers, Message

LEMMA OnCreateInv ==
  ASSUME Inv, OnCreate PROVE Inv'
<1>1. /\ created' = created + 1 /\ created' \in Instance
      /\ created' \in 0 .. MaxInstances /\ created \in Nat
  BY BoundsAssumption DEF OnCreate, Inv, TypeOK, Instance
<1>2. UNCHANGED <<stored, holding, loaded, sent, found>>
      /\ queue' = queue \o Cached("news", created') \o Cached("bulletin", created')
  BY DEF OnCreate, clientVars
<1>3. Cached("news", created') \in Seq(Message)
      /\ Cached("bulletin", created') \in Seq(Message)
  BY <1>1, CachedType DEF List
<1>4. queue' \in Seq(Message)
  <2>1. queue \in Seq(Message)
    BY DEF Inv, TypeOK, Message
  <2>2. queue \o Cached("news", created') \in Seq(Message)
    BY <1>3, <2>1, ConcatProperties
  <2> QED
    BY <1>2, <1>3, <2>2, ConcatProperties
<1>5. lookups' \in {lookups, lookups \cup {created'}}
  BY DEF OnCreate
<1>6. lookups' \subseteq 1 .. created'
  BY <1>1, <1>5 DEF Inv, TypeOK
<1>7. /\ opened' \in [Instance -> Seq({"article", "list"})]
      /\ \A i \in Instance \ (1 .. created') : opened'[i] = <<>>
  <2>1. opened \in [Instance -> Seq({"article", "list"})]
        /\ \A i \in Instance \ (1 .. created) : opened[i] = <<>>
    BY DEF Inv, TypeOK
  <2>2. \A i \in Instance \ (1 .. created') :
          i \in Instance \ (1 .. created) /\ i # created'
    BY <1>1 DEF Instance
  <2>3. <<"article">> \in Seq({"article", "list"})
    OBVIOUS
  <2>4. opened' \in {opened, [opened EXCEPT ![created'] = <<"article">>]}
    BY DEF OnCreate
  <2> QED
    BY <1>1, <2>1, <2>2, <2>3, <2>4
<1>8. OnlySearchers'
  BY <1>2, <1>5 DEF Inv, OnlySearchers
<1> QED
  BY <1>1, <1>2, <1>4, <1>6, <1>7, <1>8 DEF Inv, TypeOK, Message

\* What HandleSnapshot does, to the instances that are addressed and search.
LEMMA HandleSnapshotFacts ==
  ASSUME Inv, HandleSnapshot
  PROVE  \E m \in Message : \E S \in SUBSET lookups :
           /\ m = Head(queue) /\ S = m.for \cap lookups
           /\ queue' = Tail(queue) /\ queue' \in Seq(Message)
           /\ opened' = [i \in Instance |->
                IF i \in S THEN opened[i] \o Screens(i, m.list, m.has)
                           ELSE opened[i]]
           /\ found' = [i \in Instance |->
                IF i \in S THEN [found[i] EXCEPT ![m.list] = "NOT_FOUND"]
                           ELSE found[i]]
           /\ stored' = IF m.has THEN stored \cup {m.list}
                                 ELSE stored \ {m.list}
           /\ UNCHANGED <<holding, loaded, sent, created, lookups>>
<1>1. queue # <<>> /\ queue \in Seq(Message)
  BY DEF HandleSnapshot, Inv, TypeOK, Message
<1>2. Head(queue) \in Message /\ Tail(queue) \in Seq(Message)
  BY <1>1, HeadTailProperties
<1>3. Head(queue).for \cap lookups \in SUBSET lookups
  OBVIOUS
<1>4. /\ queue' = Tail(queue)
      /\ opened' = [i \in Instance |->
           IF i \in Head(queue).for \cap lookups
             THEN opened[i] \o Screens(i, Head(queue).list, Head(queue).has)
             ELSE opened[i]]
      /\ found' = [i \in Instance |->
           IF i \in Head(queue).for \cap lookups
             THEN [found[i] EXCEPT ![Head(queue).list] = "NOT_FOUND"]
             ELSE found[i]]
      /\ stored' = IF Head(queue).has THEN stored \cup {Head(queue).list}
                                      ELSE stored \ {Head(queue).list}
      /\ UNCHANGED <<holding, loaded, sent, created, lookups>>
  BY DEF HandleSnapshot, StatusAfter, clientVars
<1> QED
  BY <1>2, <1>3, <1>4

LEMMA HandleSnapshotInv ==
  ASSUME Inv, HandleSnapshot PROVE Inv'
<1>1. PICK m \in Message, S \in SUBSET lookups :
           /\ queue' \in Seq(Message)
           /\ opened' = [i \in Instance |->
                IF i \in S THEN opened[i] \o Screens(i, m.list, m.has)
                           ELSE opened[i]]
           /\ found' = [i \in Instance |->
                IF i \in S THEN [found[i] EXCEPT ![m.list] = "NOT_FOUND"]
                           ELSE found[i]]
           /\ stored' = IF m.has THEN stored \cup {m.list}
                                 ELSE stored \ {m.list}
           /\ UNCHANGED <<holding, loaded, sent, created, lookups>>
  BY HandleSnapshotFacts
<1>2. m.list \in List /\ m.has \in BOOLEAN
  BY DEF Message
<1>3. found' \in [Instance -> [List -> {"LOADING", "NOT_FOUND"}]]
  BY <1>1, <1>2 DEF Inv, TypeOK
<1>4. opened' \in [Instance -> Seq({"article", "list"})]
  <2>1. ASSUME NEW i \in Instance
        PROVE  opened[i] \o Screens(i, m.list, m.has) \in Seq({"article", "list"})
    <3>1. opened[i] \in Seq({"article", "list"})
      BY DEF Inv, TypeOK
    <3>2. Screens(i, m.list, m.has) \in Seq({"article", "list"})
      BY <1>2, ScreensType
    <3> QED
      BY <3>1, <3>2, ConcatProperties
  <2>2. \A i \in Instance : opened[i] \in Seq({"article", "list"})
    BY DEF Inv, TypeOK
  <2> QED
    BY <1>1, <2>1, <2>2
<1>5. \A i \in Instance \ (1 .. created') : opened'[i] = <<>>
  BY <1>1 DEF Inv, TypeOK
<1>6. OnlySearchers'
  BY <1>1 DEF Inv, OnlySearchers
<1>7. stored' \subseteq List
  BY <1>1, <1>2 DEF Inv, TypeOK
<1> QED
  BY <1>1, <1>3, <1>4, <1>5, <1>6, <1>7 DEF Inv, TypeOK, Message

LEMMA NextInv == ASSUME Inv, [Next]_vars PROVE Inv'
<1>1. ASSUME NEW l \in List, NEW has \in BOOLEAN, Change(l, has) PROVE Inv'
  BY <1>1, ChangeInv
<1>2. CASE OnCreate
  BY <1>2, OnCreateInv
<1>3. CASE HandleSnapshot
  BY <1>3, HandleSnapshotInv
<1>4. CASE Die
  <2>1. NewProcess'
    BY <1>4 DEF Die, Inv, TypeOK, NewProcess
  <2>2. (NewProcess => Inv)'
    BY NewProcessInv, PTL
  <2> QED
    BY <2>1, <2>2
<1>5. CASE UNCHANGED vars
  BY <1>5 DEF Inv, TypeOK, OnlySearchers, vars, clientVars
<1> QED
  BY <1>1, <1>2, <1>3, <1>4, <1>5 DEF Next

LEMMA InvAlways == Spec => []Inv
<1>1. Init => Inv
  BY NewProcessInv DEF Init, NewProcess
<1>2. Inv /\ [Next]_vars => Inv'
  BY NextInv
<1> QED
  BY <1>1, <1>2, PTL DEF Spec

\* Every state of News_Activity's search is well formed, and only instances that
\* exist have opened anything, for every number of instances and snapshots.
THEOREM TypeCorrect == Spec => []TypeOK
<1>1. Inv => TypeOK
  BY DEF Inv
<1> QED
  BY <1>1, InvAlways, PTL

-----------------------------------------------------------------------------
(* The messages that are still to come *)

\* A message for the list l that has the article.
Announces(q, l, k) == q[k].list = l /\ q[k].has

\* What the client has last heard of a list with the article is the last of the
\* list's messages, or in the table already.
LastHeard(q, hold, store) ==
  \A l \in hold :
    \/ \E k \in DOMAIN q : /\ Announces(q, l, k)
                           /\ \A j \in DOMAIN q : j > k => q[j].list # l
    \/ l \in store /\ \A k \in DOMAIN q : q[k].list # l

\* An instance that is sent a list without the article hears of it when the list
\* gets the article.
ToldOfChange(q, i) ==
  \A j, k \in DOMAIN q :
    /\ j < k /\ i \in q[j].for /\ ~q[j].has /\ Announces(q, q[j].list, k)
    => \E h \in DOMAIN q : /\ j < h /\ h <= k
                           /\ Announces(q, q[j].list, h) /\ i \in q[h].for

\* The first message for l that has the article is sent to the instance.
ToldFirst(q, i, l) ==
  \A k \in DOMAIN q : Announces(q, l, k) =>
    \E h \in DOMAIN q : h <= k /\ Announces(q, l, h) /\ i \in q[h].for

\* With n instances, those in look searching; vain has those that have no answer
\* with each list they have looked through.
QueueSound(q, n, look, vain) ==
  /\ \A k \in DOMAIN q : q[k].list \in loaded /\ q[k].for \subseteq 1 .. n
  /\ LastHeard(q, holding, stored)
  /\ \A i \in look : ToldOfChange(q, i)
  /\ \A p \in vain : p[2] \notin stored /\ ToldFirst(q, p[1], p[2])

Vain == {p \in lookups \X List :
           opened[p[1]] = <<>> /\ found[p[1]][p[2]] = "NOT_FOUND"}

QueueInv == QueueSound(queue, created, lookups, Vain)

\* A sequence of messages with one more.
LEMMA OneMoreMessage ==
  ASSUME NEW q \in Seq(Message), NEW m \in Message
  PROVE  /\ Append(q, m) \in Seq(Message)
         /\ DOMAIN q = 1 .. Len(q) /\ Len(q) \in Nat
         /\ DOMAIN Append(q, m) = 1 .. Len(q) + 1
         /\ Append(q, m)[Len(q) + 1] = m
         /\ \A k \in 1 .. Len(q) : Append(q, m)[k] = q[k]
<1>1. Len(q) \in Nat /\ DOMAIN q = 1 .. Len(q)
  OBVIOUS
<1>2. Append(q, m) \in Seq(Message) /\ Len(Append(q, m)) = Len(q) + 1
  BY AppendProperties
<1>3. DOMAIN Append(q, m) = 1 .. Len(q) + 1
  BY <1>2
<1> QED
  BY <1>1, <1>2, <1>3, AppendProperties

\* One more message, sent to the instance too.
LEMMA SentToo ==
  ASSUME NEW q \in Seq(Message), NEW m \in Message, NEW i \in m.for
  PROVE  /\ ToldOfChange(q, i) => ToldOfChange(Append(q, m), i)
         /\ \A l : ToldFirst(q, i, l) => ToldFirst(Append(q, m), i, l)
<1> DEFINE n == Len(q)
<1>1. PICK t : t = Append(q, m)
  OBVIOUS
<1>2. /\ n \in Nat /\ DOMAIN q = 1 .. n /\ DOMAIN t = 1 .. n + 1 /\ t[n + 1] = m
      /\ \A k \in 1 .. n : t[k] = q[k]
  BY <1>1, OneMoreMessage
<1> HIDE DEF n
<1>3. ASSUME ToldOfChange(q, i) PROVE ToldOfChange(t, i)
  <2> SUFFICES ASSUME NEW j \in 1 .. n + 1, NEW k \in 1 .. n + 1,
                      j < k, i \in t[j].for, ~t[j].has,
                      Announces(t, t[j].list, k)
               PROVE  \E h \in 1 .. n + 1 :
                        /\ j < h /\ h <= k
                        /\ Announces(t, t[j].list, h) /\ i \in t[h].for
    BY <1>2 DEF ToldOfChange
  <2>1. CASE k = n + 1
    BY <1>2, <2>1
  <2>2. CASE k \in 1 .. n
    <3>1. j \in 1 .. n /\ t[j] = q[j] /\ t[k] = q[k]
      BY <1>2, <2>2
    <3>2. PICK h \in 1 .. n : /\ j < h /\ h <= k
                              /\ Announces(q, q[j].list, h) /\ i \in q[h].for
      BY <1>2, <1>3, <2>2, <3>1 DEF ToldOfChange, Announces
    <3>3. h \in 1 .. n + 1 /\ t[h] = q[h]
      BY <1>2, <3>2
    <3> QED
      BY <3>1, <3>2, <3>3 DEF Announces
  <2> QED
    BY <1>2, <2>1, <2>2
<1>4. ASSUME NEW l, ToldFirst(q, i, l) PROVE ToldFirst(t, i, l)
  <2> SUFFICES ASSUME NEW k \in 1 .. n + 1, Announces(t, l, k)
               PROVE  \E h \in 1 .. n + 1 :
                        h <= k /\ Announces(t, l, h) /\ i \in t[h].for
    BY <1>2 DEF ToldFirst
  <2>1. CASE k = n + 1
    BY <1>2, <2>1
  <2>2. CASE k \in 1 .. n
    <3>1. t[k] = q[k]
      BY <1>2, <2>2
    <3>2. PICK h \in 1 .. n : h <= k /\ Announces(q, l, h) /\ i \in q[h].for
      BY <1>2, <1>4, <2>2, <3>1 DEF ToldFirst, Announces
    <3>3. h \in 1 .. n + 1 /\ t[h] = q[h]
      BY <1>2, <3>2
    <3> QED
      BY <3>2, <3>3 DEF Announces
  <2> QED
    BY <1>2, <2>1, <2>2
<1> QED
  BY <1>1, <1>3, <1>4

\* One more message that repeats to others what was last heard of its list.
LEMMA Repeated ==
  ASSUME NEW q \in Seq(Message), NEW m \in Message, NEW i,
         m.has => \/ \A k \in DOMAIN q : q[k].list # m.list
                  \/ \E k \in DOMAIN q :
                       /\ Announces(q, m.list, k)
                       /\ \A j \in DOMAIN q : j > k => q[j].list # m.list
  PROVE  /\ ToldOfChange(q, i) => ToldOfChange(Append(q, m), i)
         /\ \A l : /\ ToldFirst(q, i, l)
                   /\ m.has /\ m.list = l => \E k \in DOMAIN q : q[k].list = l
                   => ToldFirst(Append(q, m), i, l)
<1> DEFINE n == Len(q)
<1>1. PICK t : t = Append(q, m)
  OBVIOUS
<1>2. /\ n \in Nat /\ DOMAIN q = 1 .. n /\ DOMAIN t = 1 .. n + 1 /\ t[n + 1] = m
      /\ \A k \in 1 .. n : t[k] = q[k]
  BY <1>1, OneMoreMessage
<1> HIDE DEF n
<1>3. ASSUME ToldOfChange(q, i) PROVE ToldOfChange(t, i)
  <2> SUFFICES ASSUME NEW j \in 1 .. n + 1, NEW k \in 1 .. n + 1,
                      j < k, i \in t[j].for, ~t[j].has,
                      Announces(t, t[j].list, k)
               PROVE  \E h \in 1 .. n + 1 :
                        /\ j < h /\ h <= k
                        /\ Announces(t, t[j].list, h) /\ i \in t[h].for
    BY <1>2 DEF ToldOfChange
  <2>1. j \in 1 .. n /\ t[j] = q[j]
    BY <1>2
  <2>2. PICK e \in 1 .. n : Announces(q, q[j].list, e) /\ j < e /\ e <= k
    <3>1. CASE k = n + 1
      <4>1. m.has /\ m.list = q[j].list
        BY <1>2, <2>1, <3>1 DEF Announces
      <4>2. PICK e \in 1 .. n :
              /\ Announces(q, m.list, e)
              /\ \A o \in 1 .. n : o > e => q[o].list # m.list
        BY <1>2, <2>1, <4>1
      <4>3. ~(j > e) /\ j # e
        BY <2>1, <4>1, <4>2 DEF Announces
      <4> QED
        BY <1>2, <2>1, <3>1, <4>1, <4>2, <4>3
    <3>2. CASE k \in 1 .. n
      BY <1>2, <2>1, <3>2 DEF Announces
    <3> QED
      BY <1>2, <3>1, <3>2
  <2>3. PICK h \in 1 .. n : /\ j < h /\ h <= e
                            /\ Announces(q, q[j].list, h) /\ i \in q[h].for
    BY <1>2, <1>3, <2>1, <2>2 DEF ToldOfChange
  <2>4. h \in 1 .. n + 1 /\ t[h] = q[h] /\ h <= k
    BY <1>2, <2>2, <2>3
  <2> QED
    BY <2>1, <2>3, <2>4 DEF Announces
<1>4. ASSUME NEW l, ToldFirst(q, i, l),
             m.has /\ m.list = l => \E k \in 1 .. n : q[k].list = l
      PROVE  ToldFirst(t, i, l)
  <2> SUFFICES ASSUME NEW k \in 1 .. n + 1, Announces(t, l, k)
               PROVE  \E h \in 1 .. n + 1 :
                        h <= k /\ Announces(t, l, h) /\ i \in t[h].for
    BY <1>2 DEF ToldFirst
  <2>1. PICK e \in 1 .. n : Announces(q, l, e) /\ e <= k
    <3>1. CASE k = n + 1
      <4>1. m.has /\ m.list = l
        BY <1>2, <3>1 DEF Announces
      <4>2. PICK e \in 1 .. n : Announces(q, m.list, e)
        BY <1>2, <1>4, <4>1
      <4> QED
        BY <1>2, <3>1, <4>1, <4>2
    <3>2. CASE k \in 1 .. n
      BY <1>2, <3>2 DEF Announces
    <3> QED
      BY <1>2, <3>1, <3>2
  <2>2. PICK h \in 1 .. n : h <= e /\ Announces(q, l, h) /\ i \in q[h].for
    BY <1>2, <1>4, <2>1 DEF ToldFirst
  <2>3. h \in 1 .. n + 1 /\ t[h] = q[h] /\ h <= k
    BY <1>2, <2>1, <2>2
  <2> QED
    BY <2>2, <2>3 DEF Announces
<1> QED
  BY <1>1, <1>2, <1>3, <1>4

\* A sequence of messages without the first.
LEMMA OneMessageLess ==
  ASSUME NEW q \in Seq(Message), q # <<>>
  PROVE  /\ DOMAIN q = 1 .. Len(q) /\ Len(q) \in Nat /\ Len(q) >= 1
         /\ DOMAIN Tail(q) = 1 .. Len(q) - 1
         /\ Head(q) = q[1]
         /\ \A k \in 1 .. Len(q) - 1 : Tail(q)[k] = q[k + 1]
<1>1. Len(q) \in Nat /\ DOMAIN q = 1 .. Len(q) /\ Len(q) # 0
  BY EmptySeq, LenProperties
<1>2. Tail(q) \in Seq(Message) /\ Len(Tail(q)) = Len(q) - 1
      /\ \A k \in 1 .. Len(q) - 1 : Tail(q)[k] = q[k + 1]
  BY HeadTailProperties
<1>3. DOMAIN Tail(q) = 1 .. Len(q) - 1
  BY <1>2, LenProperties
<1> QED
  BY <1>1, <1>2, <1>3

\* What an instance is told is told without the first message too.
LEMMA ToldLater ==
  ASSUME NEW q \in Seq(Message), q # <<>>, NEW i
  PROVE  /\ ToldOfChange(q, i) => ToldOfChange(Tail(q), i)
         /\ \A l : ToldFirst(q, i, l) /\ ~Announces(q, l, 1)
                     => ToldFirst(Tail(q), i, l)
         /\ ToldOfChange(q, i) /\ i \in q[1].for /\ ~q[1].has
              => ToldFirst(Tail(q), i, q[1].list)
<1> DEFINE n == Len(q)
<1>1. PICK t : t = Tail(q)
  OBVIOUS
<1>2. /\ n \in Nat /\ n >= 1 /\ DOMAIN q = 1 .. n /\ DOMAIN t = 1 .. n - 1
      /\ \A k \in 1 .. n - 1 : t[k] = q[k + 1]
  BY <1>1, OneMessageLess
<1> HIDE DEF n
<1>3. \A k \in 1 .. n - 1 : k + 1 \in 1 .. n
  BY <1>2
<1>4. \A k \in 1 .. n : k # 1 => k - 1 \in 1 .. n - 1 /\ t[k - 1] = q[k]
  <2> TAKE k \in 1 .. n
  <2> HAVE k # 1
  <2>1. k - 1 \in 1 .. n - 1 /\ (k - 1) + 1 = k
    BY <1>2
  <2> QED
    BY <1>2, <2>1
<1>5. ASSUME ToldOfChange(q, i) PROVE ToldOfChange(t, i)
  <2> SUFFICES ASSUME NEW j \in 1 .. n - 1, NEW k \in 1 .. n - 1,
                      j < k, i \in t[j].for, ~t[j].has,
                      Announces(t, t[j].list, k)
               PROVE  \E h \in 1 .. n - 1 :
                        /\ j < h /\ h <= k
                        /\ Announces(t, t[j].list, h) /\ i \in t[h].for
    BY <1>2 DEF ToldOfChange
  <2>1. /\ j + 1 \in 1 .. n /\ k + 1 \in 1 .. n /\ j + 1 < k + 1
        /\ t[j] = q[j + 1] /\ t[k] = q[k + 1]
    BY <1>2, <1>3
  <2>2. PICK b \in 1 .. n, e \in 1 .. n : b = j + 1 /\ e = k + 1
    BY <2>1
  <2>3. b < e /\ i \in q[b].for /\ ~q[b].has /\ Announces(q, q[b].list, e)
    BY <2>1, <2>2 DEF Announces
  <2>4. PICK h \in 1 .. n : /\ b < h /\ h <= e
                            /\ Announces(q, q[b].list, h) /\ i \in q[h].for
    BY <1>2, <1>5, <2>3 DEF ToldOfChange
  <2>5. h - 1 \in 1 .. n - 1 /\ t[h - 1] = q[h] /\ j < h - 1 /\ h - 1 <= k
    BY <1>4, <2>2, <2>4
  <2> QED
    BY <2>1, <2>2, <2>4, <2>5 DEF Announces
<1>6. ASSUME NEW l, ToldFirst(q, i, l), ~Announces(q, l, 1)
      PROVE  ToldFirst(t, i, l)
  <2> SUFFICES ASSUME NEW k \in 1 .. n - 1, Announces(t, l, k)
               PROVE  \E h \in 1 .. n - 1 :
                        h <= k /\ Announces(t, l, h) /\ i \in t[h].for
    BY <1>2 DEF ToldFirst
  <2>1. k + 1 \in 1 .. n /\ t[k] = q[k + 1]
    BY <1>2, <1>3
  <2>2. PICK h \in 1 .. n :
          h <= k + 1 /\ Announces(q, l, h) /\ i \in q[h].for
    BY <1>2, <1>6, <2>1 DEF ToldFirst, Announces
  <2>3. h # 1
    BY <1>6, <2>2
  <2>4. h - 1 \in 1 .. n - 1 /\ t[h - 1] = q[h] /\ h - 1 <= k
    BY <1>4, <2>2, <2>3
  <2> QED
    BY <2>2, <2>4 DEF Announces
<1>7. ASSUME ToldOfChange(q, i), i \in q[1].for, ~q[1].has
      PROVE  ToldFirst(t, i, q[1].list)
  <2> SUFFICES ASSUME NEW k \in 1 .. n - 1, Announces(t, q[1].list, k)
               PROVE  \E h \in 1 .. n - 1 :
                        /\ h <= k /\ Announces(t, q[1].list, h)
                        /\ i \in t[h].for
    BY <1>2 DEF ToldFirst
  <2>1. k + 1 \in 1 .. n /\ t[k] = q[k + 1] /\ 1 \in 1 .. n /\ 1 < k + 1
    BY <1>2, <1>3
  <2>2. PICK h \in 1 .. n :
          /\ 1 < h /\ h <= k + 1
          /\ Announces(q, q[1].list, h) /\ i \in q[h].for
    BY <1>2, <1>7, <2>1 DEF ToldOfChange, Announces
  <2>3. h - 1 \in 1 .. n - 1 /\ t[h - 1] = q[h] /\ h - 1 <= k
    BY <1>4, <2>2
  <2> QED
    BY <2>2, <2>3 DEF Announces
<1> QED
  BY <1>1, <1>5, <1>6, <1>7

\* The first message is handled: what was last heard is in the table, or still
\* to come.
LEMMA HeardLater ==
  ASSUME NEW q \in Seq(Message), q # <<>>, NEW hold, NEW store,
         LastHeard(q, hold, store)
  PROVE  LastHeard(Tail(q), hold, IF q[1].has THEN store \cup {q[1].list}
                                              ELSE store \ {q[1].list})
<1> DEFINE n == Len(q)
<1>1. PICK t : t = Tail(q)
  OBVIOUS
<1>2. PICK new : new = IF q[1].has THEN store \cup {q[1].list}
                                   ELSE store \ {q[1].list}
  OBVIOUS
<1>3. /\ n \in Nat /\ n >= 1 /\ DOMAIN q = 1 .. n /\ DOMAIN t = 1 .. n - 1
      /\ \A k \in 1 .. n - 1 : t[k] = q[k + 1]
  BY <1>1, OneMessageLess
<1> HIDE DEF n
<1>4. \A k \in 1 .. n - 1 : k + 1 \in 1 .. n /\ t[k] = q[k + 1]
  BY <1>3
<1> SUFFICES ASSUME NEW l \in hold
             PROVE  \/ \E k \in 1 .. n - 1 :
                         /\ Announces(t, l, k)
                         /\ \A j \in 1 .. n - 1 : j > k => t[j].list # l
                    \/ l \in new /\ \A k \in 1 .. n - 1 : t[k].list # l
  BY <1>1, <1>2, <1>3 DEF LastHeard
<1>5. ASSUME NEW k \in 1 .. n, Announces(q, l, k),
             \A j \in 1 .. n : j > k => q[j].list # l
      PROVE  \/ \E h \in 1 .. n - 1 :
                  /\ Announces(t, l, h)
                  /\ \A j \in 1 .. n - 1 : j > h => t[j].list # l
             \/ l \in new /\ \A h \in 1 .. n - 1 : t[h].list # l
  <2>1. CASE k = 1
    <3>1. l \in new
      BY <1>2, <1>5, <2>1 DEF Announces
    <3>2. ASSUME NEW h \in 1 .. n - 1 PROVE t[h].list # l
      <4>1. h + 1 \in 1 .. n /\ h + 1 > k /\ t[h] = q[h + 1]
        BY <1>3, <1>4, <2>1
      <4> QED
        BY <1>5, <4>1
    <3> QED
      BY <3>1, <3>2
  <2>2. CASE k # 1
    <3>1. k - 1 \in 1 .. n - 1 /\ (k - 1) + 1 = k
      BY <1>3, <2>2
    <3>2. Announces(t, l, k - 1)
      BY <1>4, <1>5, <3>1 DEF Announces
    <3>3. ASSUME NEW j \in 1 .. n - 1, j > k - 1 PROVE t[j].list # l
      <4>1. j + 1 \in 1 .. n /\ j + 1 > k /\ t[j] = q[j + 1]
        BY <1>3, <1>4, <3>1, <3>3
      <4> QED
        BY <1>5, <4>1
    <3> QED
      BY <3>1, <3>2, <3>3
  <2> QED
    BY <2>1, <2>2
<1>6. ASSUME l \in store, \A k \in 1 .. n : q[k].list # l
      PROVE  l \in new /\ \A k \in 1 .. n - 1 : t[k].list # l
  <2>1. q[1].list # l
    BY <1>3, <1>6
  <2> QED
    BY <1>2, <1>4, <1>6, <2>1
<1> QED
  BY <1>3, <1>5, <1>6 DEF LastHeard

\* What the client has last heard, with one more message.
LEMMA HeardToo ==
  ASSUME NEW q \in Seq(Message), NEW m \in Message, NEW hold, NEW store,
         LastHeard(q, hold, store)
  PROVE  LastHeard(Append(q, m), IF m.has THEN hold \cup {m.list}
                                          ELSE hold \ {m.list}, store)
<1> DEFINE n == Len(q)
<1>1. PICK t : t = Append(q, m)
  OBVIOUS
<1>2. PICK new : new = IF m.has THEN hold \cup {m.list} ELSE hold \ {m.list}
  OBVIOUS
<1>3. /\ n \in Nat /\ DOMAIN q = 1 .. n /\ DOMAIN t = 1 .. n + 1 /\ t[n + 1] = m
      /\ \A k \in 1 .. n : t[k] = q[k]
  BY <1>1, OneMoreMessage
<1> HIDE DEF n
<1> SUFFICES ASSUME NEW l \in new
             PROVE  \/ \E k \in 1 .. n + 1 :
                         /\ Announces(t, l, k)
                         /\ \A j \in 1 .. n + 1 : j > k => t[j].list # l
                    \/ l \in store /\ \A k \in 1 .. n + 1 : t[k].list # l
  BY <1>1, <1>2, <1>3 DEF LastHeard
<1>4. CASE l = m.list
  <2>1. m.has
    BY <1>2, <1>4
  <2>2. n + 1 \in 1 .. n + 1 /\ Announces(t, l, n + 1)
    BY <1>3, <1>4, <2>1 DEF Announces
  <2>3. \A j \in 1 .. n + 1 : ~(j > n + 1)
    BY <1>3
  <2> QED
    BY <2>2, <2>3
<1>5. CASE l # m.list
  <2>1. l \in hold
    BY <1>2, <1>5
  <2>2. \A j \in 1 .. n + 1 : j \in 1 .. n \/ (j = n + 1 /\ t[j].list # l)
    BY <1>3, <1>5
  <2>3. ASSUME NEW k \in 1 .. n, Announces(q, l, k),
               \A j \in 1 .. n : j > k => q[j].list # l
        PROVE  \E h \in 1 .. n + 1 :
                 /\ Announces(t, l, h)
                 /\ \A j \in 1 .. n + 1 : j > h => t[j].list # l
    <3>1. k \in 1 .. n + 1 /\ Announces(t, l, k)
      BY <1>3, <2>3 DEF Announces
    <3>2. \A j \in 1 .. n + 1 : j > k => t[j].list # l
      BY <1>3, <2>2, <2>3
    <3> QED
      BY <3>1, <3>2
  <2>4. ASSUME l \in store, \A k \in 1 .. n : q[k].list # l
        PROVE  \A k \in 1 .. n + 1 : t[k].list # l
    BY <1>3, <2>2, <2>4
  <2> QED
    BY <1>3, <2>1, <2>3, <2>4 DEF LastHeard
<1> QED
  BY <1>4, <1>5

\* A concatenation is empty only when both parts are.
LEMMA ConcatEmptyStays ==
  ASSUME NEW s \in Seq({"article", "list"}), NEW t \in Seq({"article", "list"}),
         s \o t = <<>>
  PROVE  s = <<>> /\ t = <<>>
<1>1. Len(s \o t) = Len(s) + Len(t) /\ Len(s) \in Nat /\ Len(t) \in Nat
  BY ConcatProperties, LenProperties
<1>2. Len(s) = 0 /\ Len(t) = 0
  BY <1>1
<1> QED
  BY <1>2, EmptySeq

\* A new listener is sent what the client has last heard of a list.
LEMMA RepeatSound ==
  ASSUME NEW q \in Seq(Message), NEW n \in Nat, NEW look, NEW vain,
         NEW l \in List, NEW i \in Instance, i \in 1 .. n,
         QueueSound(q, n, look, vain)
  PROVE  QueueSound(q \o Cached(l, i), n, look, vain)
<1>1. CASE l \notin loaded
  <2>1. q \o Cached(l, i) = q
    BY <1>1, ConcatEmptySeq DEF Cached
  <2> QED
    BY <2>1
<1>2. CASE l \in loaded
  <2>1. PICK m : m = Snapshot(l, l \in holding, {i})
    OBVIOUS
  <2>2. (l \in holding) \in BOOLEAN
    OBVIOUS
  <2>3. m \in Message /\ m.list = l /\ m.for = {i}
    BY <2>1, <2>2 DEF Snapshot, Message
  <2>4. m.has = (l \in holding)
    BY <2>1 DEF Snapshot
  <2>5. q \o Cached(l, i) = Append(q, m)
    <3>1. Cached(l, i) = <<m>>
      BY <1>2, <2>1 DEF Cached
    <3> QED
      BY <2>3, <3>1, AppendIsConcat
  <2>6. PICK t : t = Append(q, m)
    OBVIOUS
  <2>7. /\ DOMAIN q = 1 .. Len(q) /\ Len(q) \in Nat
        /\ DOMAIN t = 1 .. Len(q) + 1 /\ t[Len(q) + 1] = m
        /\ \A k \in 1 .. Len(q) : t[k] = q[k]
    BY <2>3, <2>6, OneMoreMessage
  <2>8. \A k \in DOMAIN t : t[k].list \in loaded /\ t[k].for \subseteq 1 .. n
    <3>1. \A k \in DOMAIN q : q[k].list \in loaded /\ q[k].for \subseteq 1 .. n
      BY DEF QueueSound
    <3>2. m.list \in loaded /\ m.for \subseteq 1 .. n
      BY <1>2, <2>3
    <3>3. \A k \in 1 .. Len(q) + 1 : k \in 1 .. Len(q) \/ k = Len(q) + 1
      BY <2>7
    <3> QED
      BY <2>7, <3>1, <3>2, <3>3
  <2>9. LastHeard(q, holding, stored)
    BY DEF QueueSound
  <2>10. LastHeard(t, holding, stored)
    <3>1. LastHeard(t, IF m.has THEN holding \cup {m.list}
                                ELSE holding \ {m.list}, stored)
      BY <2>3, <2>6, <2>9, HeardToo
    <3>2. (IF m.has THEN holding \cup {m.list} ELSE holding \ {m.list})
            = holding
      BY <2>3, <2>4
    <3> QED
      BY <3>1, <3>2
  <2>11. /\ m.has => \/ \A k \in DOMAIN q : q[k].list # m.list
                     \/ \E k \in DOMAIN q :
                          /\ Announces(q, m.list, k)
                          /\ \A j \in DOMAIN q : j > k => q[j].list # m.list
         /\ m.has => m.list \in stored \/ \E k \in DOMAIN q : q[k].list = m.list
    <3> SUFFICES ASSUME m.has
                 PROVE  /\ \/ \A k \in DOMAIN q : q[k].list # m.list
                           \/ \E k \in DOMAIN q :
                                /\ Announces(q, m.list, k)
                                /\ \A j \in DOMAIN q :
                                     j > k => q[j].list # m.list
                        /\ \/ m.list \in stored
                           \/ \E k \in DOMAIN q : q[k].list = m.list
      OBVIOUS
    <3>1. m.list \in holding
      BY <2>3, <2>4
    <3>2. \/ \E k \in DOMAIN q :
               /\ Announces(q, m.list, k)
               /\ \A j \in DOMAIN q : j > k => q[j].list # m.list
          \/ m.list \in stored /\ \A k \in DOMAIN q : q[k].list # m.list
      BY <2>9, <3>1 DEF LastHeard
    <3> QED
      BY <3>2 DEF Announces
  <2>12. ASSUME NEW o
         PROVE  /\ ToldOfChange(q, o) => ToldOfChange(t, o)
                /\ \A p : /\ ToldFirst(q, o, p)
                          /\ m.has /\ m.list = p =>
                               \E k \in DOMAIN q : q[k].list = p
                          => ToldFirst(t, o, p)
    BY <2>3, <2>6, <2>11, Repeated
  <2>13. \A o \in look : ToldOfChange(t, o)
    BY <2>12 DEF QueueSound
  <2>14. ASSUME NEW p \in vain PROVE p[2] \notin stored /\ ToldFirst(t, p[1], p[2])
    <3>1. p[2] \notin stored /\ ToldFirst(q, p[1], p[2])
      BY DEF QueueSound
    <3>2. m.has /\ m.list = p[2] => \E k \in DOMAIN q : q[k].list = p[2]
      BY <2>11, <3>1
    <3> QED
      BY <2>12, <3>1, <3>2
  <2> QED
    BY <2>5, <2>6, <2>8, <2>10, <2>13, <2>14 DEF QueueSound
<1> QED
  BY <1>1, <1>2

LEMMA ChangeQueueInv ==
  ASSUME Inv, QueueInv, NEW l \in List, NEW has \in BOOLEAN, Change(l, has)
  PROVE  QueueInv'
<1>1. PICK m : m = Snapshot(l, has, 1 .. created)
  OBVIOUS
<1>2. PICK t : t = Append(queue, m)
  OBVIOUS
<1>3. /\ loaded' = loaded \cup {l}
      /\ holding' = IF has THEN holding \cup {l} ELSE holding \ {l}
      /\ queue' = t
      /\ UNCHANGED <<stored, created, lookups, found, opened>>
  BY <1>1, <1>2 DEF Change
<1>4. created \in 0 .. MaxInstances /\ lookups \subseteq 1 .. created
      /\ queue \in Seq(Message)
  BY DEF Inv, TypeOK, Message
<1>5. 1 .. created \subseteq Instance
  BY <1>4, BoundsAssumption DEF Instance
<1>6. m \in Message /\ m.list = l /\ m.has = has /\ m.for = 1 .. created
  BY <1>1, <1>5 DEF Snapshot, Message
<1>7. /\ DOMAIN queue = 1 .. Len(queue) /\ Len(queue) \in Nat
      /\ DOMAIN t = 1 .. Len(queue) + 1 /\ t[Len(queue) + 1] = m
      /\ \A k \in 1 .. Len(queue) : t[k] = queue[k]
  BY <1>2, <1>4, <1>6, OneMoreMessage
<1>8. QueueSound(queue, created, lookups, Vain)
  BY DEF QueueInv
<1>9. \A k \in DOMAIN t :
        t[k].list \in loaded \cup {l} /\ t[k].for \subseteq 1 .. created
  <2>1. \A k \in 1 .. Len(queue) :
          queue[k].list \in loaded /\ queue[k].for \subseteq 1 .. created
    BY <1>7, <1>8 DEF QueueSound
  <2>2. \A k \in 1 .. Len(queue) + 1 : k \in 1 .. Len(queue) \/ k = Len(queue) + 1
    BY <1>7
  <2> QED
    BY <1>6, <1>7, <2>1, <2>2
<1>10. LastHeard(t, holding', stored)
  <2>1. LastHeard(queue, holding, stored)
    BY <1>8 DEF QueueSound
  <2> QED
    BY <1>2, <1>3, <1>4, <1>6, <2>1, HeardToo
<1>11. \A i \in lookups : ToldOfChange(t, i)
  <2> TAKE i \in lookups
  <2>1. i \in m.for /\ ToldOfChange(queue, i)
    BY <1>4, <1>6, <1>8 DEF QueueSound
  <2> QED
    BY <1>2, <1>4, <1>6, <2>1, SentToo
<1>12. \A p \in Vain : p[2] \notin stored /\ ToldFirst(t, p[1], p[2])
  <2> TAKE p \in Vain
  <2>1. p[1] \in m.for
    BY <1>4, <1>6 DEF Vain
  <2>2. p[2] \notin stored /\ ToldFirst(queue, p[1], p[2])
    BY <1>8 DEF QueueSound
  <2> QED
    BY <1>2, <1>4, <1>6, <2>1, <2>2, SentToo
<1>13. Vain' = Vain
  BY <1>3 DEF Vain
<1> QED
  BY <1>3, <1>9, <1>10, <1>11, <1>12, <1>13 DEF QueueInv, QueueSound

LEMMA OnCreateQueueInv ==
  ASSUME Inv, QueueInv, OnCreate PROVE QueueInv'
<1>1. PICK n : n = created'
  OBVIOUS
<1>2. /\ n \in Instance /\ n \in Nat /\ n = created + 1 /\ created \in Nat
  BY <1>1, BoundsAssumption DEF OnCreate, Inv, TypeOK, Instance
<1>3. /\ queue' = queue \o Cached("news", n) \o Cached("bulletin", n)
      /\ UNCHANGED <<stored, holding, loaded, found>>
  BY <1>1 DEF OnCreate, clientVars
<1>4. /\ lookups \subseteq 1 .. created /\ queue \in Seq(Message)
      /\ opened \in [Instance -> Seq({"article", "list"})]
  BY DEF Inv, TypeOK, Message
<1>5. /\ lookups' \in {lookups, lookups \cup {n}}
      /\ opened' \in {opened, [opened EXCEPT ![n] = <<"article">>]}
  BY <1>1 DEF OnCreate
<1>6. n \notin lookups /\ n \notin 1 .. created
  BY <1>2, <1>4
<1>7. \A l \in List : found[n][l] = "LOADING"
  BY <1>2, <1>6 DEF Inv, OnlySearchers
<1>8. Vain' = Vain
  <2>1. ASSUME NEW i, i # n PROVE i \in lookups' <=> i \in lookups
    BY <1>5, <2>1
  <2>2. \A i \in lookups : i # n /\ i \in Instance
    BY <1>2, <1>4, <1>6, BoundsAssumption DEF Inv, TypeOK, Instance
  <2>3. \A i \in lookups : opened'[i] = opened[i]
    BY <1>4, <1>5, <2>2
  <2> QED
    BY <1>3, <1>5, <1>7, <2>1, <2>2, <2>3 DEF Vain
<1>9. QueueSound(queue, created, lookups, Vain)
  BY DEF QueueInv
<1>10. QueueSound(queue, n, lookups', Vain)
  <2>1. \A k \in DOMAIN queue :
          queue[k].list \in loaded /\ queue[k].for \subseteq 1 .. created
    BY <1>9 DEF QueueSound
  <2>2. 1 .. created \subseteq 1 .. n
    BY <1>2
  <2>3. ToldOfChange(queue, n)
    BY <1>6, <2>1 DEF ToldOfChange
  <2>4. \A i \in lookups' : i \in lookups \/ i = n
    BY <1>5
  <2>5. \A i \in lookups' : ToldOfChange(queue, i)
    BY <1>9, <2>3, <2>4 DEF QueueSound
  <2> QED
    BY <1>9, <2>1, <2>2, <2>5 DEF QueueSound
<1>11. n \in 1 .. n /\ "news" \in List /\ "bulletin" \in List
  BY <1>2 DEF List
<1>12. QueueSound(queue \o Cached("news", n), n, lookups', Vain)
  BY <1>2, <1>4, <1>10, <1>11, RepeatSound
<1>13. queue \o Cached("news", n) \in Seq(Message)
  BY <1>2, <1>4, <1>11, CachedType, ConcatProperties
<1>14. QueueSound(queue', n, lookups', Vain)
  <2>1. PICK q \in Seq(Message) : q = queue \o Cached("news", n)
    BY <1>13
  <2>2. QueueSound(q \o Cached("bulletin", n), n, lookups', Vain)
    BY <1>2, <1>11, <1>12, <2>1, RepeatSound
  <2> QED
    BY <1>3, <2>1, <2>2
<1> QED
  BY <1>1, <1>3, <1>8, <1>14 DEF QueueInv, QueueSound

LEMMA HandleSnapshotQueueInv ==
  ASSUME Inv, QueueInv, HandleSnapshot PROVE QueueInv'
<1>1. PICK m \in Message, S \in SUBSET lookups :
           /\ m = Head(queue) /\ S = m.for \cap lookups
           /\ queue' = Tail(queue) /\ queue' \in Seq(Message)
           /\ opened' = [i \in Instance |->
                IF i \in S THEN opened[i] \o Screens(i, m.list, m.has)
                           ELSE opened[i]]
           /\ found' = [i \in Instance |->
                IF i \in S THEN [found[i] EXCEPT ![m.list] = "NOT_FOUND"]
                           ELSE found[i]]
           /\ stored' = IF m.has THEN stored \cup {m.list}
                                 ELSE stored \ {m.list}
           /\ UNCHANGED <<holding, loaded, sent, created, lookups>>
  BY HandleSnapshotFacts
<1>2. queue # <<>> /\ queue \in Seq(Message)
  BY DEF HandleSnapshot, Inv, TypeOK, Message
<1>3. PICK t : t = Tail(queue)
  OBVIOUS
<1>4. /\ DOMAIN queue = 1 .. Len(queue) /\ Len(queue) \in Nat /\ Len(queue) >= 1
      /\ DOMAIN t = 1 .. Len(queue) - 1 /\ m = queue[1]
      /\ \A k \in 1 .. Len(queue) - 1 : t[k] = queue[k + 1]
  BY <1>1, <1>2, <1>3, OneMessageLess
<1>5. QueueSound(queue, created, lookups, Vain)
  BY DEF QueueInv
<1>6. \A k \in DOMAIN t : t[k].list \in loaded /\ t[k].for \subseteq 1 .. created
  <2>1. \A k \in 1 .. Len(queue) - 1 : k + 1 \in 1 .. Len(queue)
    BY <1>4
  <2> QED
    BY <1>4, <1>5, <2>1 DEF QueueSound
<1>7. LastHeard(t, holding, stored')
  <2>1. LastHeard(queue, holding, stored)
    BY <1>5 DEF QueueSound
  <2> QED
    BY <1>1, <1>2, <1>3, <1>4, <2>1, HeardLater
<1>8. \A i \in lookups : ToldOfChange(t, i)
  BY <1>2, <1>3, <1>5, ToldLater DEF QueueSound
<1>9. m.list \in List /\ m.has \in BOOLEAN
  BY DEF Message
<1>10. \A i \in lookups : i \in Instance
  <2>1. lookups \subseteq 1 .. created /\ created \in 0 .. MaxInstances
    BY DEF Inv, TypeOK
  <2> QED
    BY <2>1, BoundsAssumption DEF Instance
<1>11. ASSUME NEW i \in lookups, NEW l \in List,
              opened'[i] = <<>>, found'[i][l] = "NOT_FOUND"
       PROVE  l \notin stored' /\ ToldFirst(t, i, l)
  <2>1. /\ i \in Instance /\ opened[i] \in Seq({"article", "list"})
        /\ found[i] \in [List -> {"LOADING", "NOT_FOUND"}]
    BY <1>10 DEF Inv, TypeOK
  <2>2. opened[i] = <<>> /\ (i \in S => ~m.has)
    <3>1. CASE i \notin S
      BY <1>1, <1>11, <2>1, <3>1
    <3>2. CASE i \in S
      <4>1. opened'[i] = opened[i] \o Screens(i, m.list, m.has)
        BY <1>1, <2>1, <3>2
      <4>2. /\ Screens(i, m.list, m.has) \in Seq({"article", "list"})
            /\ m.has => Screens(i, m.list, m.has) # <<>>
        BY <1>9, ScreensType
      <4>3. PICK s \in Seq({"article", "list"}) : s = Screens(i, m.list, m.has)
        BY <4>2
      <4>4. opened[i] = <<>> /\ s = <<>>
        BY ONLY <1>11, <2>1, <4>1, <4>3, ConcatEmptyStays
      <4> QED
        BY <4>2, <4>3, <4>4
    <3> QED
      BY <3>1, <3>2
  <2>3. CASE found[i][l] = "NOT_FOUND"
    <3>1. <<i, l>> \in Vain
      BY <2>2, <2>3 DEF Vain
    <3>2. l \notin stored /\ ToldFirst(queue, i, l)
      BY <1>5, <3>1 DEF QueueSound
    <3>3. ~Announces(queue, l, 1)
      <4> SUFFICES ASSUME Announces(queue, l, 1) PROVE FALSE
        OBVIOUS
      <4>1. 1 \in DOMAIN queue
        BY <1>4
      <4>2. PICK h \in DOMAIN queue : h <= 1 /\ i \in queue[h].for
        BY <3>2, <4>1 DEF ToldFirst
      <4>3. h = 1
        BY <1>4, <4>2
      <4>4. i \in S /\ m.has
        BY <1>1, <1>4, <4>2, <4>3 DEF Announces
      <4> QED
        BY <2>2, <4>4
    <3>4. l \notin stored'
      BY <1>1, <1>4, <3>2, <3>3 DEF Announces
    <3> QED
      BY <1>2, <1>3, <3>2, <3>3, <3>4, ToldLater
  <2>4. CASE found[i][l] # "NOT_FOUND"
    <3>1. i \in S /\ l = m.list
      BY <1>1, <1>11, <2>1, <2>4
    <3>2. ~m.has
      BY <2>2, <3>1
    <3>3. l \notin stored'
      BY <1>1, <3>1, <3>2
    <3>4. ToldOfChange(queue, i) /\ i \in queue[1].for /\ ~queue[1].has
      BY <1>1, <1>4, <1>5, <3>1, <3>2 DEF QueueSound
    <3>5. ToldFirst(t, i, queue[1].list)
      BY <1>2, <1>3, <3>4, ToldLater
    <3> QED
      BY <1>4, <3>1, <3>3, <3>5
  <2> QED
    BY <2>3, <2>4
<1>12. \A p \in Vain' : p[2] \notin stored' /\ ToldFirst(t, p[1], p[2])
  <2>1. Vain' = {p \in lookups \X List :
                   opened'[p[1]] = <<>> /\ found'[p[1]][p[2]] = "NOT_FOUND"}
    BY <1>1 DEF Vain
  <2> QED
    BY <1>11, <2>1
<1> QED
  BY <1>1, <1>3, <1>6, <1>7, <1>8, <1>12 DEF QueueInv, QueueSound

LEMMA NoMessages ==
  ASSUME queue = <<>>, lookups = {}, holding = {} PROVE QueueInv
<1>1. DOMAIN queue = {}
  OBVIOUS
<1>2. Vain = {}
  BY DEF Vain
<1> QED
  BY <1>1, <1>2 DEF QueueInv, QueueSound, LastHeard

\* Of a list that an instance has looked through in vain, the app has no newer
\* version with the article that would not reach the instance first.
LEMMA QueueInvAlways == Spec => []QueueInv
<1>1. Init => QueueInv
  BY NoMessages DEF Init
<1>2. ASSUME Inv, QueueInv, [Next]_vars PROVE QueueInv'
  <2>1. ASSUME NEW l \in List, NEW has \in BOOLEAN, Change(l, has)
        PROVE  QueueInv'
    BY <1>2, <2>1, ChangeQueueInv
  <2>2. CASE OnCreate
    BY <1>2, <2>2, OnCreateQueueInv
  <2>3. CASE HandleSnapshot
    BY <1>2, <2>3, HandleSnapshotQueueInv
  <2>4. CASE Die
    <3>1. (queue = <<>> /\ lookups = {} /\ holding = {})'
      BY <2>4 DEF Die
    <3>2. (queue = <<>> /\ lookups = {} /\ holding = {} => QueueInv)'
      BY NoMessages, PTL
    <3> QED
      BY <3>1, <3>2
  <2>5. CASE UNCHANGED vars
    <3>1. UNCHANGED <<stored, holding, loaded, queue, created, lookups, found,
                      opened>>
      BY <2>5 DEF vars, clientVars
    <3> QED
      BY <1>2, <3>1 DEF QueueInv, QueueSound, LastHeard, Vain
  <2> QED
    BY <1>2, <2>1, <2>2, <2>3, <2>4, <2>5 DEF Next
<1> QED
  BY <1>1, <1>2, InvAlways, PTL DEF Spec

-----------------------------------------------------------------------------
(* The first screen is the answer *)

\* Two of OneAnswer's variables.
answered == [i \in Instance |-> FirstScreen(i)]
searchedLists == [i \in Instance |-> {l \in List : found[i][l] = "NOT_FOUND"}]

\* A first screen stays the first.
LEMMA FirstStays ==
  ASSUME NEW s \in Seq({"article", "list"}), NEW t \in Seq({"article", "list"})
  PROVE  /\ s # <<>> => s \o t # <<>> /\ (s \o t)[1] = s[1]
         /\ s = <<>> => s \o t = t
<1>1. s = <<>> => s \o t = t
  BY ConcatEmptySeq
<1>2. CASE s # <<>>
  <2>1. Len(s) \in Nat /\ Len(s) # 0 /\ Len(t) \in Nat
    BY <1>2, LenProperties, EmptySeq
  <2>2. (s \o t)[1] = s[1] /\ Len(s \o t) = Len(s) + Len(t)
        /\ s \o t \in Seq({"article", "list"})
    BY <2>1, ConcatProperties
  <2> QED
    BY <1>2, <2>1, <2>2, EmptySeq
<1> QED
  BY <1>1, <1>2

\* An instance that starts has the article at once if a table has it.
LEMMA OnCreateAnswers ==
  ASSUME Inv, OnCreate PROVE [Answer!Next]_(Answer!vars)
<1>1. /\ created' \in Instance /\ created' = created + 1 /\ created \in Nat
      /\ UNCHANGED <<found, stored>>
  BY BoundsAssumption DEF OnCreate, Inv, TypeOK, Instance
<1>2. PICK n \in Instance : n = created'
  BY <1>1
<1>3. opened[n] = <<>>
  <2>1. n \in Instance \ (1 .. created)
    BY <1>1, <1>2
  <2> QED
    BY <2>1 DEF Inv, TypeOK
<1>4. opened \in [Instance -> Seq({"article", "list"})]
  BY DEF Inv, TypeOK
<1>5. n \notin 1 .. created /\ (1 .. created)' = (1 .. created) \cup {n}
  BY <1>1, <1>2
<1>6. answered' = IF stored = {} THEN answered
                                 ELSE [answered EXCEPT ![n] = "article"]
  <2>1. CASE stored # {}
    <3>1. opened' = [opened EXCEPT ![n] = <<"article">>]
      BY <1>2, <2>1 DEF OnCreate
    <3>2. FirstScreen(n)' = "article"
      <4>1. opened'[n] = <<"article">>
        BY <1>4, <3>1
      <4>2. <<"article">> # <<>> /\ <<"article">>[1] = "article"
        OBVIOUS
      <4> QED
        BY <4>1, <4>2 DEF FirstScreen
    <3>3. \A i \in Instance : i # n => FirstScreen(i)' = FirstScreen(i)
      BY <1>4, <3>1 DEF FirstScreen
    <3> QED
      BY <2>1, <3>2, <3>3 DEF answered
  <2>2. CASE stored = {}
    <3>1. opened' = opened
      BY <2>2 DEF OnCreate
    <3> QED
      BY <2>2, <3>1 DEF answered, FirstScreen
  <2> QED
    BY <2>1, <2>2
<1>7. searchedLists' = searchedLists
  BY <1>1 DEF searchedLists
<1>8. Answer!Start(n)
  BY <1>1, <1>5, <1>6, <1>7 DEF Answer!Start, answered, searchedLists
<1> QED
  BY <1>8 DEF Answer!Next

\* A snapshot is one list looked through, by every instance that waits for it;
\* an instance that gives up has QueueInv's word that no table has the article.
LEMMA HandleSnapshotAnswers ==
  ASSUME Inv, QueueInv, HandleSnapshot
  PROVE  [Answer!Next]_(Answer!vars)
<1>1. PICK m \in Message, S \in SUBSET lookups :
           /\ opened' = [i \in Instance |->
                IF i \in S THEN opened[i] \o Screens(i, m.list, m.has)
                           ELSE opened[i]]
           /\ found' = [i \in Instance |->
                IF i \in S THEN [found[i] EXCEPT ![m.list] = "NOT_FOUND"]
                           ELSE found[i]]
           /\ stored' = IF m.has THEN stored \cup {m.list}
                                 ELSE stored \ {m.list}
           /\ UNCHANGED created
  BY HandleSnapshotFacts
<1>2. m.list \in List /\ m.has \in BOOLEAN
  BY DEF Message
<1>3. S \subseteq Instance /\ S \subseteq 1 .. created
  <2>1. lookups \subseteq 1 .. created /\ created \in 0 .. MaxInstances
    BY DEF Inv, TypeOK
  <2> QED
    BY <2>1, BoundsAssumption DEF Instance
<1>4. /\ opened \in [Instance -> Seq({"article", "list"})]
      /\ found \in [Instance -> [List -> {"LOADING", "NOT_FOUND"}]]
      /\ stored \subseteq List
  BY DEF Inv, TypeOK
<1>5. m.has <=> m.list \in stored'
  BY <1>1, <1>2
<1>6. ASSUME NEW i \in S PROVE FirstScreen(i)' = Answer!Reply(i, m.list)
  <2> DEFINE new == Screens(i, m.list, m.has)
  <2>1. i \in Instance /\ opened[i] \in Seq({"article", "list"})
        /\ new \in Seq({"article", "list"})
    BY <1>2, <1>3, <1>4, ScreensType
  <2>2. opened'[i] = opened[i] \o new
    BY <1>1, <2>1
  <2>3. CASE opened[i] # <<>>
    <3>1. opened'[i] # <<>> /\ opened'[i][1] = opened[i][1]
      BY <2>1, <2>2, <2>3, FirstStays
    <3>2. opened[i][1] # "none"
      <4>1. 1 \in DOMAIN opened[i]
        BY <2>1, <2>3, EmptySeq, LenProperties
      <4>2. opened[i][1] \in {"article", "list"}
        BY <2>1, <4>1, ElementOfSeq, LenProperties
      <4> QED
        BY <4>2
    <3> QED
      BY <2>1, <2>3, <3>1, <3>2 DEF Answer!Reply, FirstScreen
  <2>4. CASE opened[i] = <<>>
    <3>1. opened'[i] = new
      BY <2>1, <2>2, <2>4, FirstStays
    <3>2. FirstScreen(i) = "none"
      BY <2>4 DEF FirstScreen
    <3>3. GiveUp(i, m.list, found[i][m.list])
            <=> {l \in List : found[i][l] = "NOT_FOUND"} \cup {m.list} = List
      <4>1. found[i] \in [List -> {"LOADING", "NOT_FOUND"}]
        BY <1>4, <2>1
      <4>2. found[i][m.list] # "FOUND"
        BY <1>2, <4>1
      <4>3. CASE m.list = "news"
        BY <4>1, <4>2, <4>3 DEF GiveUp, Other, List
      <4>4. CASE m.list = "bulletin"
        BY <4>1, <4>2, <4>4 DEF GiveUp, Other, List
      <4> QED
        BY <1>2, <4>3, <4>4 DEF List
    <3>4. CASE m.has
      <4>1. new # <<>> /\ new[1] = "article"
        BY <1>2, <3>4, ScreensType
      <4> QED
        BY <1>5, <2>1, <3>1, <3>2, <3>4, <4>1 DEF FirstScreen, Answer!Reply
    <3>5. CASE ~m.has /\ GiveUp(i, m.list, found[i][m.list])
      <4>1. new # <<>> /\ new[1] = "list"
        BY <1>2, <3>5, ScreensType
      <4>2. Other(m.list) \in List /\ List = {m.list, Other(m.list)}
        BY <1>2 DEF Other, List
      <4>3. found[i][Other(m.list)] = "NOT_FOUND"
        BY <3>5 DEF GiveUp
      <4>4. <<i, Other(m.list)>> \in Vain
        BY <2>4, <4>2, <4>3 DEF Vain
      <4>5. Other(m.list) \notin stored
        BY <4>4 DEF QueueInv, QueueSound
      <4>6. stored' = {}
        BY <1>1, <1>4, <3>5, <4>2, <4>5
      <4> QED
        BY <1>5, <2>1, <3>1, <3>2, <3>3, <3>5, <4>1, <4>6
           DEF FirstScreen, Answer!Reply
    <3>6. CASE ~m.has /\ ~GiveUp(i, m.list, found[i][m.list])
      <4>1. new = <<>>
        BY <1>2, <3>6, ScreensType
      <4> QED
        BY <1>5, <2>1, <3>1, <3>2, <3>3, <3>6, <4>1
           DEF FirstScreen, Answer!Reply
    <3> QED
      BY <3>4, <3>5, <3>6
  <2> QED
    BY <2>3, <2>4
<1>7. \A i \in Instance \ S : FirstScreen(i)' = FirstScreen(i)
  BY <1>1 DEF FirstScreen
<1>8. answered' = [i \in Instance |->
                     IF i \in S THEN Answer!Reply(i, m.list) ELSE answered[i]]
  BY <1>6, <1>7 DEF answered
<1>9. \A i \in Instance :
        {l \in List : found'[i][l] = "NOT_FOUND"}
          = IF i \in S
              THEN {l \in List : found[i][l] = "NOT_FOUND"} \cup {m.list}
              ELSE {l \in List : found[i][l] = "NOT_FOUND"}
  BY <1>1, <1>2, <1>4
<1>10. searchedLists' = [i \in Instance |->
                           IF i \in S THEN searchedLists[i] \cup {m.list}
                                      ELSE searchedLists[i]]
  BY <1>9 DEF searchedLists
<1>11. stored' \in {stored \cup {m.list}, stored \ {m.list}}
  BY <1>1
<1>12. Answer!Search(S, m.list)
  BY <1>1, <1>3, <1>8, <1>10, <1>11
     DEF Answer!Search, answered, searchedLists
<1> QED
  BY <1>2, <1>3, <1>12 DEF Answer!Next

LEMMA OtherAnswers ==
  ASSUME Inv, \/ \E l \in List, has \in BOOLEAN : Change(l, has)
              \/ Die
              \/ UNCHANGED vars
  PROVE  [Answer!Next]_(Answer!vars)
<1>1. CASE Die
  <2>1. /\ found' = [i \in Instance |-> [l \in List |-> "LOADING"]]
        /\ opened' = [i \in Instance |-> <<>>]
        /\ created' = 0 /\ stored' = stored
    BY <1>1 DEF Die
  <2>2. answered' = [i \in Instance |-> "none"]
    BY <2>1 DEF answered, FirstScreen
  <2>3. searchedLists' = [i \in Instance |-> {}]
    BY <2>1 DEF searchedLists
  <2>4. (1 .. created)' = {}
    BY <2>1
  <2>5. Answer!Forget
    BY <2>1, <2>2, <2>3, <2>4
       DEF Answer!Forget, Answer!Unanswered, answered, searchedLists
  <2> QED
    BY <2>5 DEF Answer!Next
<1>2. CASE UNCHANGED <<stored, created, opened, found>>
  BY <1>2 DEF Answer!vars, FirstScreen
<1> QED
  BY <1>1, <1>2 DEF Change, vars

\* Whatever the order of the lists, of the tables' contents, of rotations and of
\* new intents, the first screen an instance of News_Activity opens is the
\* article if a table has it then, or else the first list it looks through that
\* has it; it is the list of notifications only if the instance has looked
\* through both lists and, by then, neither table has the article.
THEOREM FirstAnswerAlwaysRight == Spec => FirstAnswerRight
<1>1. Init => Answer!Init
  <2> SUFFICES ASSUME Init PROVE Answer!Init
    OBVIOUS
  <2>1. /\ found = [i \in Instance |-> [l \in List |-> "LOADING"]]
        /\ opened = [i \in Instance |-> <<>>]
        /\ created = 0 /\ stored \in SUBSET List
    BY DEF Init
  <2>2. answered = [i \in Instance |-> "none"]
    BY <2>1 DEF answered, FirstScreen
  <2>3. searchedLists = [i \in Instance |-> {}]
    BY <2>1 DEF searchedLists
  <2>4. 1 .. created = {}
    BY <2>1
  <2> QED
    BY <2>1, <2>2, <2>3, <2>4
       DEF Answer!Init, Answer!Unanswered, answered, searchedLists
<1>2. Inv /\ QueueInv /\ [Next]_vars
        => [Answer!Next]_(Answer!vars)
  BY OnCreateAnswers, HandleSnapshotAnswers, OtherAnswers DEF Next
<1> QED
  BY <1>1, <1>2, InvAlways, QueueInvAlways, PTL
     DEF Spec, FirstAnswerRight, Answer!Spec

-----------------------------------------------------------------------------
(* Induction over the natural numbers, and folds *)

\* A set of numbers has a least one.
LEMMA LeastElement ==
  ASSUME NEW T, T \subseteq Nat, T # {}
  PROVE  \E x \in T : \A y \in T : x <= y
<1>1. IsWellFoundedOn({ss \in Nat \X Nat : ss[1] < ss[2]}, Nat)
  BY NatLessThanWellFounded DEF OpToRel
<1> DEFINE R == {ss \in Nat \X Nat : ss[1] < ss[2]}
<1>2. IsWellFoundedOn(R, Nat)
  BY <1>1
<1> HIDE DEF R
<1>3. PICK x \in T : \A y \in T : ~ (<<y, x>> \in R)
  BY <1>2, WFMin
<1>4. \A y \in T : ~(y < x)
  BY <1>3 DEF R
<1> QED
  BY <1>4

\* Induction: a set that has 0 and the successor of each of its numbers.
LEMMA SetInduction ==
  ASSUME NEW S, 0 \in S, \A n \in Nat : n \in S => n + 1 \in S
  PROVE  Nat \subseteq S
<1> SUFFICES ASSUME Nat \ S # {} PROVE FALSE
  OBVIOUS
<1>1. PICK x \in Nat \ S : \A y \in Nat \ S : x <= y
  BY LeastElement
<1>2. x # 0
  OBVIOUS
<1>3. x - 1 \in Nat /\ x - 1 \in S
  BY <1>1, <1>2
<1>4. x - 1 + 1 \in S
  BY <1>3
<1> QED
  BY <1>1, <1>4

\* The largest of some numbers.
LEMMA MaxIn ==
  ASSUME NEW n \in Nat, NEW s, s \subseteq 1 .. n, s # {}
  PROVE  Max(s) \in s /\ \A y \in s : Max(s) >= y
<1> DEFINE T == {m \in Nat : \A y \in s : y <= m}
<1>1. n \in T
  OBVIOUS
<1>2. PICK x \in T : \A y \in T : x <= y
  BY <1>1, LeastElement
<1>3. x \in s
  <2> SUFFICES ASSUME x \notin s PROVE FALSE
    OBVIOUS
  <2>1. x - 1 \in T
    <3>1. PICK y \in s : TRUE
      OBVIOUS
    <3>2. x - 1 \in Nat
      BY <3>1
    <3>3. \A z \in s : z <= x - 1
      OBVIOUS
    <3> QED
      BY <3>2, <3>3
  <2> QED
    BY <1>2, <2>1
<1>4. \A y \in s : x >= y
  OBVIOUS
<1> QED
  BY <1>3, <1>4 DEF Max

\* One step of a recursion over the sets of numbers, from the largest down.
FoldsBy(g, S, base, h) ==
  \A s \in SUBSET S :
    g[s] = IF s = {} THEN base ELSE h[<<Max(s), g[s \ {Max(s)}]>>]

LEMMA MaxOf ==
  ASSUME NEW n \in Nat, NEW s, s \subseteq 1 .. n, s # {}
  PROVE  Max(s) \in 1 .. n /\ s \ {Max(s)} \subseteq 1 .. n
BY MaxIn

\* A set that has the largest number it can have.
LEMMA MaxTop ==
  ASSUME NEW n \in Nat, NEW s, s \subseteq 1 .. n + 1, n + 1 \in s
  PROVE  Max(s) = n + 1 /\ s \ {n + 1} \subseteq 1 .. n
<1>1. n + 1 \in Nat /\ s # {}
  OBVIOUS
<1>2. Max(s) \in s /\ \A y \in s : Max(s) >= y
  BY <1>1, MaxIn
<1>3. Max(s) >= n + 1 /\ Max(s) \in 1 .. n + 1
  BY <1>2
<1> QED
  BY <1>3

\* A recursion over the sets of k numbers goes on to those of k + 1.
LEMMA FoldStep ==
  ASSUME NEW n \in Nat, NEW X, NEW base \in X, NEW h \in [(1 .. n) \X X -> X],
         NEW k \in Nat, k + 1 <= n,
         NEW f \in [SUBSET (1 .. k) -> X], FoldsBy(f, 1 .. k, base, h)
  PROVE  \E g \in [SUBSET (1 .. k + 1) -> X] : FoldsBy(g, 1 .. k + 1, base, h)
<1> DEFINE Value(s) == IF k + 1 \in s THEN h[<<k + 1, f[s \ {k + 1}]>>] ELSE f[s]
           g == [s \in SUBSET (1 .. k + 1) |-> Value(s)]
<1>1. k + 1 \in 1 .. n /\ 1 .. k \subseteq 1 .. k + 1
  OBVIOUS
<1>2. ASSUME NEW s \in SUBSET (1 .. k + 1), k + 1 \in s
      PROVE  /\ Max(s) = k + 1 /\ s \ {k + 1} \in SUBSET (1 .. k)
             /\ s \ {k + 1} \in SUBSET (1 .. k + 1)
  BY <1>1, <1>2, MaxTop
<1>3. ASSUME NEW s \in SUBSET (1 .. k + 1), k + 1 \notin s
      PROVE  s \in SUBSET (1 .. k)
  BY <1>3
<1>4. ASSUME NEW s \in SUBSET (1 .. k + 1) PROVE Value(s) \in X
  <2>1. CASE k + 1 \in s
    <3>1. f[s \ {k + 1}] \in X
      BY <1>2, <2>1
    <3>2. h[<<k + 1, f[s \ {k + 1}]>>] \in X
      BY <1>1, <3>1
    <3> QED
      BY <2>1, <3>2
  <2>2. CASE k + 1 \notin s
    BY <1>3, <2>2
  <2> QED
    BY <2>1, <2>2
<1>5. g \in [SUBSET (1 .. k + 1) -> X]
  BY <1>4
<1>6. ASSUME NEW s \in SUBSET (1 .. k + 1)
      PROVE  g[s] = IF s = {} THEN base ELSE h[<<Max(s), g[s \ {Max(s)}]>>]
  <2>1. CASE k + 1 \in s
    <3>1. g[s \ {k + 1}] = f[s \ {k + 1}]
      BY <1>2, <2>1
    <3>2. g[s] = h[<<k + 1, f[s \ {k + 1}]>>]
      BY <2>1
    <3> HIDE DEF g
    <3> QED
      BY <1>2, <2>1, <3>1, <3>2
  <2>2. CASE k + 1 \notin s
    <3>1. s \in SUBSET (1 .. k) /\ g[s] = f[s]
      BY <1>3, <2>2
    <3>2. CASE s = {}
      <4>1. f[s] = base
        BY <3>1, <3>2 DEF FoldsBy
      <4> HIDE DEF g
      <4> QED
        BY <3>1, <3>2, <4>1
    <3>3. CASE s # {}
      <4>1. PICK m : m = Max(s)
        OBVIOUS
      <4>2. m \in 1 .. k /\ s \ {m} \subseteq 1 .. k
        BY <3>1, <3>3, <4>1, MaxOf
      <4>3. g[s \ {m}] = f[s \ {m}]
        BY <1>1, <4>2
      <4>4. f[s] = h[<<m, f[s \ {m}]>>]
        BY <3>1, <3>3, <4>1 DEF FoldsBy
      <4> HIDE DEF g
      <4> QED
        BY <3>1, <3>3, <4>1, <4>3, <4>4
    <3> QED
      BY <3>2, <3>3
  <2> QED
    BY <2>1, <2>2
<1>7. FoldsBy(g, 1 .. k + 1, base, h)
  BY <1>6 DEF FoldsBy
<1> HIDE DEF g
<1> QED
  BY <1>5, <1>7

\* The recursion of a fold has a solution.
LEMMA FoldExists ==
  ASSUME NEW n \in Nat, NEW X, NEW base \in X, NEW h \in [(1 .. n) \X X -> X]
  PROVE  \E g \in [SUBSET (1 .. n) -> X] : FoldsBy(g, 1 .. n, base, h)
<1> DEFINE P(k) == \E g \in [SUBSET (1 .. k) -> X] : FoldsBy(g, 1 .. k, base, h)
           S == {k \in Nat : k <= n => P(k)}
<1>1. P(0)
  <2>1. SUBSET (1 .. 0) = {{}}
    OBVIOUS
  <2> DEFINE g == [s \in SUBSET (1 .. 0) |-> base]
  <2>2. g \in [SUBSET (1 .. 0) -> X] /\ FoldsBy(g, 1 .. 0, base, h)
    BY <2>1 DEF FoldsBy
  <2> HIDE DEF g
  <2> QED
    BY <2>2
<1>2. ASSUME NEW k \in Nat, k + 1 <= n, P(k) PROVE P(k + 1)
  <2>1. PICK f \in [SUBSET (1 .. k) -> X] : FoldsBy(f, 1 .. k, base, h)
    BY <1>2
  <2> QED
    BY <1>2, <2>1, FoldStep
<1> HIDE DEF P
<1>3. 0 \in S
  BY <1>1
<1>4. ASSUME NEW k \in Nat, k \in S PROVE k + 1 \in S
  BY <1>2, <1>4
<1>5. Nat \subseteq S
  <2> HIDE DEF S
  <2> QED
    BY <1>3, <1>4, SetInduction
<1>6. P(n)
  BY <1>5
<1> QED
  BY <1>6 DEF P

\* The value of a fold over a sequence of n is the last of n steps that begin
\* with base.
FoldsIn(g, n, X, base, h) ==
  /\ g[{}] = base
  /\ \A s \in SUBSET (1 .. n) : s # {} /\ g[s \ {Max(s)}] \in X =>
       g[s] = h[<<Max(s), g[s \ {Max(s)}]>>]

RunsTo(r, n, X, base, h, value) ==
  /\ r \in [0 .. n -> X] /\ r[0] = base /\ r[n] = value
  /\ \A i \in 1 .. n : r[i] = h[<<i, r[i - 1]>>]

\* The recursion, as a run of n steps.
LEMMA FoldRun ==
  ASSUME NEW n \in Nat, NEW X, NEW base \in X, NEW h \in [(1 .. n) \X X -> X],
         NEW g, FoldsIn(g, n, X, base, h)
  PROVE  \E r : RunsTo(r, n, X, base, h, g[1 .. n])
<1> DEFINE r == [i \in 0 .. n |-> g[1 .. i]]
<1>1. \A i \in 0 .. n : r[i] = g[1 .. i]
  OBVIOUS
<1>2. r = [i \in 0 .. n |-> r[i]]
  OBVIOUS
<1> HIDE DEF r
<1>3. r[0] = base /\ r[n] = g[1 .. n]
  <2>1. 1 .. 0 = {} /\ 0 \in 0 .. n /\ n \in 0 .. n
    OBVIOUS
  <2> QED
    BY <1>1, <2>1 DEF FoldsIn
<1>4. ASSUME NEW i \in 1 .. n, r[i - 1] \in X
      PROVE  r[i] = h[<<i, r[i - 1]>>] /\ r[i] \in X
  <2>1. i - 1 \in Nat /\ (i - 1) + 1 = i /\ i \in 1 .. i
        /\ i \in 0 .. n /\ i - 1 \in 0 .. n
    OBVIOUS
  <2>2. Max(1 .. i) = i
    BY <2>1, MaxTop
  <2>3. (1 .. i) \ {i} = 1 .. i - 1
    BY <2>1
  <2>4. 1 .. i \in SUBSET (1 .. n) /\ 1 .. i # {}
    BY <2>1
  <2>5. g[(1 .. i) \ {i}] \in X
    BY <1>1, <1>4, <2>1, <2>3
  <2>6. g[1 .. i] = h[<<i, g[(1 .. i) \ {i}]>>]
    BY <2>2, <2>4, <2>5 DEF FoldsIn
  <2>7. r[i] = h[<<i, r[i - 1]>>]
    BY <1>1, <2>1, <2>3, <2>6
  <2> QED
    BY <1>4, <2>7
<1> DEFINE S == {k \in Nat : k <= n => r[k] \in X}
<1>5. 0 \in S
  BY <1>3
<1>6. ASSUME NEW k \in Nat, k \in S PROVE k + 1 \in S
  <2> SUFFICES ASSUME k + 1 <= n PROVE r[k + 1] \in X
    OBVIOUS
  <2>1. k + 1 \in 1 .. n /\ (k + 1) - 1 = k /\ r[k] \in X
    BY <1>6
  <2> QED
    BY <1>4, <2>1
<1>7. Nat \subseteq S
  <2> HIDE DEF S
  <2> QED
    BY <1>5, <1>6, SetInduction
<1>8. \A i \in 0 .. n : r[i] \in X
  BY <1>7
<1> HIDE DEF S
<1>9. r \in [0 .. n -> X]
  BY <1>2, <1>8
<1>10. \A i \in 1 .. n : r[i] = h[<<i, r[i - 1]>>]
  BY <1>4, <1>8
<1> QED
  BY <1>3, <1>9, <1>10 DEF RunsTo

\* Removing a row of a list leaves a list.
LEMMA RemovedType ==
  ASSUME NEW list \in Seq(Article), NEW position \in Nat \ {0}
  PROVE  UpdateItemRemoved(list, position) \in Seq(Article)
<1>1. ASSUME position <= Len(list) PROVE RemoveAt(list, position) \in Seq(Article)
  <2>1. SubSeq(list, 1, position - 1) \in Seq(Article)
        /\ SubSeq(list, position + 1, Len(list)) \in Seq(Article)
    BY <1>1
  <2> QED
    BY <2>1 DEF RemoveAt
<1> QED
  BY <1>1 DEF UpdateItemRemoved

\* What is left after each result, one after the other.
ResultsRunTo(r, rest, position, results) ==
  /\ r \in [0 .. Len(results) -> Seq(Article)] /\ r[0] = rest
  /\ \A i \in 1 .. Len(results) :
       r[i] = IF results[i] THEN UpdateItemRemoved(r[i - 1], position) ELSE r[i - 1]
  /\ r[Len(results)] = AfterResults(rest, position, results)

\* The fold of onActivityResult takes one result after the other.
LEMMA ResultsRun ==
  ASSUME NEW rest \in Seq(Article), NEW position \in Nat \ {0},
         NEW results \in Seq(BOOLEAN)
  PROVE  \E r : ResultsRunTo(r, rest, position, results)
<1> DEFINE n == Len(results)
           X == Seq(Article)
           After(i, l) == IF results[i] THEN UpdateItemRemoved(l, position) ELSE l
           h == [p \in (1 .. n) \X X |-> After(p[1], p[2])]
           Is(f) == f = [s \in SUBSET (DOMAIN results) |->
                           IF s = {} THEN rest
                           ELSE IF results[Max(s)]
                             THEN UpdateItemRemoved(f[s \ {Max(s)}], position)
                             ELSE f[s \ {Max(s)}]]
           g == CHOOSE f : Is(f)
<1>1. ASSUME NEW i \in 1 .. n, NEW l \in X
      PROVE  h[<<i, l>>] = After(i, l) /\ After(i, l) \in X
  <2>1. After(i, l) \in X
    BY RemovedType
  <2> QED
    BY <2>1
<1>2. h \in [(1 .. n) \X X -> X]
  BY <1>1
<1>3. AfterResults(rest, position, results) = g[DOMAIN results]
  BY DEF AfterResults, FoldLeft, MapThenFoldSet
<1>4. DOMAIN results = 1 .. n /\ n \in Nat
  OBVIOUS
<1>5. PICK f \in [SUBSET (1 .. n) -> X] : FoldsBy(f, 1 .. n, rest, h)
  <2> HIDE DEF h, n, X
  <2> QED
    BY <1>2, <1>4, FoldExists DEF X
<1>6. Is(f)
  <2>1. ASSUME NEW s \in SUBSET (1 .. n)
        PROVE  f[s] = IF s = {} THEN rest
                      ELSE IF results[Max(s)]
                             THEN UpdateItemRemoved(f[s \ {Max(s)}], position)
                             ELSE f[s \ {Max(s)}]
    <3>1. CASE s = {}
      BY <1>5, <3>1 DEF FoldsBy
    <3>2. CASE s # {}
      <4>1. PICK m : m = Max(s)
        OBVIOUS
      <4>2. m \in 1 .. n /\ s \ {m} \in SUBSET (1 .. n)
        BY <1>4, <3>2, <4>1, MaxOf
      <4>3. f[s] = h[<<m, f[s \ {m}]>>]
        BY <1>5, <3>2, <4>1 DEF FoldsBy
      <4>4. f[s \ {m}] \in X
        BY <1>5, <4>2
      <4>5. f[s] = After(m, f[s \ {m}])
        <5> HIDE DEF h, After
        <5> QED
          BY <1>1, <4>2, <4>3, <4>4
      <4> QED
        BY <3>2, <4>1, <4>5
    <3> QED
      BY <3>1, <3>2
  <2> QED
    BY <1>4, <1>5, <2>1
<1>7. Is(g)
  <2> HIDE DEF Is
  <2> QED
    BY <1>6
<1>8. \A s \in SUBSET (1 .. n) :
        g[s] = IF s = {} THEN rest ELSE After(Max(s), g[s \ {Max(s)}])
  <2> HIDE DEF g
  <2> QED
    BY <1>4, <1>7
<1> HIDE DEF g, Is
<1>9. ASSUME NEW s \in SUBSET (1 .. n), s # {}, g[s \ {Max(s)}] \in X
      PROVE  g[s] = h[<<Max(s), g[s \ {Max(s)}]>>]
  <2>1. PICK m : m = Max(s)
    OBVIOUS
  <2>2. m \in 1 .. n
    BY <1>4, <1>9, <2>1, MaxOf
  <2> HIDE DEF h, After
  <2> QED
    BY <1>1, <1>8, <1>9, <2>1, <2>2
<1>10. g[{}] = rest
  BY <1>8
<1>11. PICK r : RunsTo(r, n, X, rest, h, g[1 .. n])
  <2>1. rest \in X
    OBVIOUS
  <2>2. FoldsIn(g, n, X, rest, h)
    <3> HIDE DEF h
    <3> QED
      BY <1>9, <1>10 DEF FoldsIn
  <2> HIDE DEF h, n, X, After
  <2> QED
    BY <1>2, <1>4, <2>1, <2>2, FoldRun
<1>12. ASSUME NEW i \in 1 .. n PROVE r[i] = After(i, r[i - 1])
  <2>1. r[i - 1] \in X
    BY <1>11 DEF RunsTo
  <2> HIDE DEF h, After
  <2> QED
    BY <1>1, <1>11, <2>1 DEF RunsTo
<1>13. /\ r \in [0 .. Len(results) -> Seq(Article)] /\ r[0] = rest
       /\ r[n] = AfterResults(rest, position, results)
  BY <1>3, <1>4, <1>11 DEF RunsTo
<1> HIDE DEF h
<1> QED
  BY <1>12, <1>13 DEF ResultsRunTo

\* A list without changes stays, and one with a single change loses a row.
LEMMA ResultsLeave ==
  ASSUME NEW rest \in Seq(Article), NEW position \in Nat \ {0},
         NEW results \in Seq(BOOLEAN)
  PROVE  /\ AfterResults(rest, position, results) \in Seq(Article)
         /\ (\A i \in DOMAIN results : ~results[i]) =>
              AfterResults(rest, position, results) = rest
         /\ results = <<TRUE>> =>
              AfterResults(rest, position, results) = UpdateItemRemoved(rest, position)
<1>0. PICK r : ResultsRunTo(r, rest, position, results)
  BY ResultsRun
<1>1. /\ r \in [0 .. Len(results) -> Seq(Article)] /\ r[0] = rest
      /\ \A i \in 1 .. Len(results) :
           r[i] = IF results[i] THEN UpdateItemRemoved(r[i - 1], position) ELSE r[i - 1]
      /\ r[Len(results)] = AfterResults(rest, position, results)
  BY <1>0 DEF ResultsRunTo
<1>2. AfterResults(rest, position, results) \in Seq(Article)
  BY <1>1
<1>3. ASSUME \A i \in DOMAIN results : ~results[i] PROVE r[Len(results)] = rest
  <2> DEFINE S == {k \in Nat : k <= Len(results) => r[k] = rest}
  <2>1. 0 \in S
    BY <1>1
  <2>2. ASSUME NEW k \in Nat, k \in S PROVE k + 1 \in S
    <3> SUFFICES ASSUME k + 1 <= Len(results) PROVE r[k + 1] = rest
      OBVIOUS
    <3>1. k + 1 \in 1 .. Len(results) /\ (k + 1) - 1 = k /\ r[k] = rest
          /\ k + 1 \in DOMAIN results
      BY <2>2
    <3> QED
      BY <1>1, <1>3, <3>1
  <2>3. Nat \subseteq S
    <3> HIDE DEF S
    <3> QED
      BY <2>1, <2>2, SetInduction
  <2>4. Len(results) \in S
    BY <2>3
  <2> QED
    BY <2>4
<1>4. ASSUME results = <<TRUE>>
      PROVE  r[Len(results)] = UpdateItemRemoved(rest, position)
  <2>1. Len(results) = 1 /\ results[1] = TRUE
    BY <1>4
  <2>2. r[1] = UpdateItemRemoved(r[0], position)
    BY <1>1, <2>1
  <2> QED
    BY <1>1, <2>1, <2>2
<1> QED
  BY <1>1, <1>2, <1>3, <1>4

\* What deleteByID has kept of each beginning of the table.
KeptRun(r, table, a) ==
  /\ r \in [0 .. Len(table) -> Seq(Article)] /\ r[0] = <<>>
  /\ \A i \in 1 .. Len(table) :
       r[i] = IF table[i] = a THEN r[i - 1] ELSE Append(r[i - 1], table[i])
  /\ r[Len(table)] = DeleteByID(table, a)

\* The fold of deleteByID keeps one row after the other.
LEMMA DeleteRun ==
  ASSUME NEW table \in Seq(Article), NEW a
  PROVE  \E r : KeptRun(r, table, a)
<1> DEFINE n == Len(table)
           X == Seq(Article)
           Keep(i, l) == IF table[i] = a THEN l ELSE Append(l, table[i])
           h == [p \in (1 .. n) \X X |-> Keep(p[1], p[2])]
           Is(f) == f = [s \in SUBSET (DOMAIN table) |->
                           IF s = {} THEN <<>>
                           ELSE IF table[Max(s)] = a THEN f[s \ {Max(s)}]
                             ELSE Append(f[s \ {Max(s)}], table[Max(s)])]
           g == CHOOSE f : Is(f)
<1>1. ASSUME NEW i \in 1 .. n, NEW l \in X
      PROVE  h[<<i, l>>] = Keep(i, l) /\ Keep(i, l) \in X
  <2>1. Keep(i, l) \in X
    OBVIOUS
  <2> QED
    BY <2>1
<1>2. h \in [(1 .. n) \X X -> X]
  BY <1>1
<1>3. DeleteByID(table, a) = g[DOMAIN table]
  BY DEF DeleteByID, FoldLeft, MapThenFoldSet
<1>4. DOMAIN table = 1 .. n /\ n \in Nat /\ <<>> \in X
  OBVIOUS
<1>5. PICK f \in [SUBSET (1 .. n) -> X] : FoldsBy(f, 1 .. n, <<>>, h)
  <2> HIDE DEF h, n, X
  <2> QED
    BY <1>2, <1>4, FoldExists
<1>6. Is(f)
  <2>1. ASSUME NEW s \in SUBSET (1 .. n)
        PROVE  f[s] = IF s = {} THEN <<>>
                      ELSE IF table[Max(s)] = a THEN f[s \ {Max(s)}]
                             ELSE Append(f[s \ {Max(s)}], table[Max(s)])
    <3>1. CASE s = {}
      BY <1>5, <3>1 DEF FoldsBy
    <3>2. CASE s # {}
      <4>1. PICK m : m = Max(s)
        OBVIOUS
      <4>2. m \in 1 .. n /\ s \ {m} \in SUBSET (1 .. n)
        BY <1>4, <3>2, <4>1, MaxOf
      <4>3. f[s] = h[<<m, f[s \ {m}]>>]
        BY <1>5, <3>2, <4>1 DEF FoldsBy
      <4>4. f[s \ {m}] \in X
        BY <1>5, <4>2
      <4>5. f[s] = Keep(m, f[s \ {m}])
        <5> HIDE DEF h, Keep
        <5> QED
          BY <1>1, <4>2, <4>3, <4>4
      <4> QED
        BY <3>2, <4>1, <4>5
    <3> QED
      BY <3>1, <3>2
  <2> QED
    BY <1>4, <1>5, <2>1
<1>7. Is(g)
  <2> HIDE DEF Is
  <2> QED
    BY <1>6
<1>8. \A s \in SUBSET (1 .. n) :
        g[s] = IF s = {} THEN <<>> ELSE Keep(Max(s), g[s \ {Max(s)}])
  <2> HIDE DEF g
  <2> QED
    BY <1>4, <1>7
<1> HIDE DEF g, Is
<1>9. ASSUME NEW s \in SUBSET (1 .. n), s # {}, g[s \ {Max(s)}] \in X
      PROVE  g[s] = h[<<Max(s), g[s \ {Max(s)}]>>]
  <2>1. PICK m : m = Max(s)
    OBVIOUS
  <2>2. m \in 1 .. n
    BY <1>4, <1>9, <2>1, MaxOf
  <2> HIDE DEF h, Keep
  <2> QED
    BY <1>1, <1>8, <1>9, <2>1, <2>2
<1>10. g[{}] = <<>>
  BY <1>8
<1>11. PICK r : RunsTo(r, n, X, <<>>, h, g[1 .. n])
  <2>1. FoldsIn(g, n, X, <<>>, h)
    <3> HIDE DEF h
    <3> QED
      BY <1>9, <1>10 DEF FoldsIn
  <2> HIDE DEF h, n, X, Keep
  <2> QED
    BY <1>2, <1>4, <2>1, FoldRun
<1>12. ASSUME NEW i \in 1 .. n PROVE r[i] = Keep(i, r[i - 1])
  <2>1. r[i - 1] \in X
    BY <1>11 DEF RunsTo
  <2> HIDE DEF h, Keep
  <2> QED
    BY <1>1, <1>11, <2>1 DEF RunsTo
<1>13. /\ r \in [0 .. Len(table) -> Seq(Article)] /\ r[0] = <<>>
       /\ r[n] = DeleteByID(table, a)
  BY <1>3, <1>4, <1>11 DEF RunsTo
<1> HIDE DEF h
<1> QED
  BY <1>12, <1>13 DEF KeptRun

\* Removing a row that is there.
LEMMA RemovedRows ==
  ASSUME NEW list \in Seq(Article), NEW p \in 1 .. Len(list)
  PROVE  /\ RemoveAt(list, p) \in Seq(Article)
         /\ Len(RemoveAt(list, p)) = Len(list) - 1
         /\ \A i \in 1 .. Len(list) - 1 :
              RemoveAt(list, p)[i] = IF i < p THEN list[i] ELSE list[i + 1]
<1> DEFINE l == SubSeq(list, 1, p - 1)
           u == SubSeq(list, p + 1, Len(list))
<1>1. /\ l \in Seq(Article) /\ Len(l) = p - 1
      /\ \A i \in 1 .. p - 1 : l[i] = list[i]
  OBVIOUS
<1>2. /\ u \in Seq(Article) /\ Len(u) = Len(list) - p
      /\ \A i \in 1 .. Len(list) - p : u[i] = list[p + i]
  OBVIOUS
<1> HIDE DEF l, u
<1>3. /\ l \o u \in Seq(Article) /\ Len(l \o u) = Len(list) - 1
      /\ \A i \in 1 .. Len(list) - 1 :
           (l \o u)[i] = IF i <= p - 1 THEN l[i] ELSE u[i - (p - 1)]
  <2>1. /\ l \o u \in Seq(Article) /\ Len(l \o u) = Len(l) + Len(u)
        /\ \A i \in 1 .. Len(l) + Len(u) :
             (l \o u)[i] = IF i <= Len(l) THEN l[i] ELSE u[i - Len(l)]
    BY <1>1, <1>2, ConcatProperties
  <2>2. Len(l) + Len(u) = Len(list) - 1
    BY <1>1, <1>2
  <2> QED
    BY <1>1, <2>1, <2>2
<1>4. ASSUME NEW i \in 1 .. Len(list) - 1
      PROVE  (l \o u)[i] = IF i < p THEN list[i] ELSE list[i + 1]
  <2>1. CASE i < p
    BY <1>1, <1>3, <2>1
  <2>2. CASE ~(i < p)
    <3>1. i - (p - 1) \in 1 .. Len(list) - p /\ p + (i - (p - 1)) = i + 1
      BY <2>2
    <3> QED
      BY <1>2, <1>3, <2>2, <3>1
  <2> QED
    BY <2>1, <2>2
<1>5. RemoveAt(list, p) = l \o u
  BY DEF RemoveAt, l, u
<1> QED
  BY <1>3, <1>4, <1>5

\* deleteByID leaves articles, and removes the one row that an article has.
LEMMA Deleted ==
  ASSUME NEW table \in Seq(Article), NEW a
  PROVE  /\ DeleteByID(table, a) \in Seq(Article)
         /\ \A q \in 1 .. Len(table) :
              table[q] = a /\ IsInjective(table) =>
                DeleteByID(table, a) = RemoveAt(table, q)
<1> DEFINE n == Len(table)
<1>1. PICK r : KeptRun(r, table, a)
  BY DeleteRun
<1>2. DeleteByID(table, a) \in Seq(Article)
  BY <1>1 DEF KeptRun
<1>3. ASSUME NEW q \in 1 .. n, table[q] = a, IsInjective(table)
      PROVE  DeleteByID(table, a) = RemoveAt(table, q)
  <2> DEFINE Size(k) == IF k < q THEN k ELSE k - 1
             Good(k) == /\ Len(r[k]) = Size(k)
                        /\ \A i \in 1 .. Size(k) :
                             r[k][i] = IF i < q THEN table[i] ELSE table[i + 1]
             S == {k \in Nat : k <= n => Good(k)}
  <2>0. \A k \in 1 .. n : k # q => table[k] # a
    BY <1>3 DEF IsInjective
  <2>1. 0 \in S
    BY <1>1 DEF KeptRun
  <2>2. ASSUME NEW k \in Nat, k + 1 <= n, Good(k) PROVE Good(k + 1)
    <3>1. /\ k + 1 \in 1 .. n /\ (k + 1) - 1 = k /\ k \in 0 .. n
          /\ r[k] \in Seq(Article) /\ table[k + 1] \in Article
      <4>1. k + 1 \in 1 .. n /\ (k + 1) - 1 = k /\ k \in 0 .. n
        BY <2>2
      <4> HIDE DEF Good
      <4> QED
        BY <1>1, <4>1 DEF KeptRun
    <3>2. CASE k + 1 = q
      <4>1. r[k + 1] = r[k]
        BY <1>1, <1>3, <3>1, <3>2 DEF KeptRun
      <4>2. Size(k + 1) = Size(k)
        BY <3>2
      <4> HIDE DEF Size
      <4> QED
        BY <2>2, <4>1, <4>2
    <3>3. CASE k + 1 # q
      <4>1. r[k + 1] = Append(r[k], table[k + 1])
        BY <1>1, <2>0, <3>1, <3>3 DEF KeptRun
      <4>2. Size(k + 1) = Size(k) + 1 /\ Size(k) \in Nat
        BY <3>3
      <4>3. /\ Len(r[k + 1]) = Len(r[k]) + 1
            /\ r[k + 1][Len(r[k]) + 1] = table[k + 1]
            /\ \A i \in 1 .. Len(r[k]) : r[k + 1][i] = r[k][i]
        BY <3>1, <4>1
      <4>4. table[k + 1] = IF Size(k + 1) < q THEN table[Size(k + 1)]
                           ELSE table[Size(k + 1) + 1]
        BY <3>3
      <4> HIDE DEF Size
      <4>5. Len(r[k]) = Size(k)
        BY <2>2
      <4>6. ASSUME NEW i \in 1 .. Size(k + 1)
            PROVE  r[k + 1][i] = IF i < q THEN table[i] ELSE table[i + 1]
        <5>1. CASE i = Size(k + 1)
          BY <4>2, <4>3, <4>4, <4>5, <5>1
        <5>2. CASE i # Size(k + 1)
          <6>1. i \in 1 .. Size(k)
            BY <4>2, <5>2
          <6> QED
            BY <2>2, <4>3, <4>5, <6>1
        <5> QED
          BY <5>1, <5>2
      <4> QED
        BY <4>2, <4>3, <4>5, <4>6
    <3> QED
      BY <3>2, <3>3
  <2>3. Nat \subseteq S
    <3>1. ASSUME NEW k \in Nat, k \in S PROVE k + 1 \in S
      <4> HIDE DEF Good
      <4> QED
        BY <2>2, <3>1
    <3> HIDE DEF S
    <3> QED
      BY <2>1, <3>1, SetInduction
  <2>4. Good(n)
    <3> HIDE DEF Good
    <3> QED
      BY <2>3
  <2>5. r[n] = DeleteByID(table, a) /\ r[n] \in Seq(Article) /\ Size(n) = n - 1
    BY <1>1 DEF KeptRun
  <2>6. /\ Len(DeleteByID(table, a)) = n - 1
        /\ \A i \in 1 .. n - 1 :
             DeleteByID(table, a)[i] = IF i < q THEN table[i] ELSE table[i + 1]
    <3> HIDE DEF Size
    <3> QED
      BY <2>4, <2>5
  <2> QED
    <3>1. /\ RemoveAt(table, q) \in Seq(Article) /\ Len(RemoveAt(table, q)) = n - 1
          /\ \A i \in 1 .. n - 1 :
               RemoveAt(table, q)[i] = IF i < q THEN table[i] ELSE table[i + 1]
      BY RemovedRows
    <3> HIDE DEF Good
    <3> QED
      BY <1>2, <2>6, <3>1, SeqEqual
<1> QED
  BY <1>2, <1>3

\* The table without the bookmark of an article, and with one more.
LEMMA Removed ==
  ASSUME NEW table \in Seq(Article), IsInjective(table), NEW q \in 1 .. Len(table)
  PROVE  /\ IsInjective(RemoveAt(table, q))
         /\ \A b : AlreadyAdded(RemoveAt(table, q), b) <=>
                     b # table[q] /\ AlreadyAdded(table, b)
<1> DEFINE n == Len(table)
           t == RemoveAt(table, q)
           From(i) == IF i < q THEN i ELSE i + 1
<1>1. /\ DOMAIN t = 1 .. n - 1 /\ DOMAIN table = 1 .. n
      /\ \A i \in 1 .. n - 1 : t[i] = IF i < q THEN table[i] ELSE table[i + 1]
  BY RemovedRows
<1>2. \A i \in 1 .. n - 1 : From(i) \in 1 .. n /\ From(i) # q /\ t[i] = table[From(i)]
  BY <1>1
<1>3. \A i, j \in 1 .. n - 1 : From(i) = From(j) => i = j
  OBVIOUS
<1>4. \A i, j \in 1 .. n : table[i] = table[j] => i = j
  BY <1>1 DEF IsInjective
<1> HIDE DEF t, From
<1>5. IsInjective(t)
  BY <1>1, <1>2, <1>3, <1>4 DEF IsInjective
<1>6. ASSUME NEW b PROVE AlreadyAdded(t, b) <=> b # table[q] /\ AlreadyAdded(table, b)
  <2>1. ASSUME NEW i \in 1 .. n - 1, t[i] = b
        PROVE  b # table[q] /\ AlreadyAdded(table, b)
    BY <1>1, <1>2, <1>4, <2>1 DEF AlreadyAdded
  <2>2. ASSUME NEW i \in 1 .. n, table[i] = b, b # table[q] PROVE AlreadyAdded(t, b)
    <3>1. i # q
      BY <2>2
    <3>2. PICK j \in 1 .. n - 1 : From(j) = i
      <4>1. CASE i < q
        <5>1. i \in 1 .. n - 1 /\ From(i) = i
          BY <4>1 DEF From
        <5> QED
          BY <5>1
      <4>2. CASE i > q
        <5>1. i - 1 \in 1 .. n - 1 /\ From(i - 1) = i
          BY <4>2 DEF From
        <5> QED
          BY <5>1
      <4> QED
        BY <3>1, <4>1, <4>2
    <3>3. t[j] = b
      BY <1>2, <2>2, <3>2
    <3> QED
      BY <1>1, <3>3 DEF AlreadyAdded
  <2> QED
    BY <1>1, <2>1, <2>2 DEF AlreadyAdded
<1> QED
  BY <1>5, <1>6 DEF t

\* The table with one more row.
LEMMA Added ==
  ASSUME NEW table \in Seq(Article), NEW a \in Article
  PROVE  /\ Append(table, a) \in Seq(Article)
         /\ \A b : AlreadyAdded(Append(table, a), b) <=> b = a \/ AlreadyAdded(table, b)
         /\ IsInjective(table) /\ ~AlreadyAdded(table, a) =>
              IsInjective(Append(table, a))
<1> DEFINE n == Len(table)
           t == Append(table, a)
<1>1. /\ t \in Seq(Article) /\ DOMAIN t = 1 .. n + 1 /\ DOMAIN table = 1 .. n
      /\ t[n + 1] = a /\ \A i \in 1 .. n : t[i] = table[i]
  OBVIOUS
<1>2. \A i \in 1 .. n + 1 : i = n + 1 \/ i \in 1 .. n
  OBVIOUS
<1>3. 1 .. n \subseteq 1 .. n + 1 /\ n + 1 \in 1 .. n + 1
  OBVIOUS
<1> HIDE DEF t, n
<1>4. \A b : AlreadyAdded(t, b) <=> b = a \/ AlreadyAdded(table, b)
  BY <1>1, <1>2, <1>3 DEF AlreadyAdded
<1>5. ASSUME IsInjective(table), ~AlreadyAdded(table, a) PROVE IsInjective(t)
  BY <1>1, <1>2, <1>3, <1>5 DEF AlreadyAdded, IsInjective
<1> QED
  BY <1>1, <1>4, <1>5 DEF t

\* Newest first, a row that is removed leaves the others in order.
LEMMA ReversedRemoved ==
  ASSUME NEW table \in Seq(Article), NEW q \in 1 .. Len(table)
  PROVE  /\ Reverse(table) \in Seq(Article) /\ Len(Reverse(table)) = Len(table)
         /\ \A i \in 1 .. Len(table) : Reverse(table)[i] = table[Len(table) - i + 1]
         /\ RemoveAt(Reverse(table), Len(table) - q + 1) = Reverse(RemoveAt(table, q))
<1> DEFINE n == Len(table)
           v == Reverse(table)
           t == RemoveAt(table, q)
           p == n - q + 1
<1>1. /\ v \in Seq(Article) /\ Len(v) = n
      /\ \A i \in 1 .. n : v[i] = table[n - i + 1]
  BY DEF Reverse
<1>2. /\ t \in Seq(Article) /\ Len(t) = n - 1
      /\ \A i \in 1 .. n - 1 : t[i] = IF i < q THEN table[i] ELSE table[i + 1]
  BY RemovedRows
<1>3. p \in 1 .. Len(v)
  BY <1>1
<1>4. /\ RemoveAt(v, p) \in Seq(Article) /\ Len(RemoveAt(v, p)) = n - 1
      /\ \A i \in 1 .. n - 1 : RemoveAt(v, p)[i] = IF i < p THEN v[i] ELSE v[i + 1]
  <2> HIDE DEF v, p
  <2> QED
    BY <1>1, <1>3, RemovedRows
<1>5. /\ Reverse(t) \in Seq(Article) /\ Len(Reverse(t)) = n - 1
      /\ \A i \in 1 .. n - 1 : Reverse(t)[i] = t[n - 1 - i + 1]
  <2> HIDE DEF t
  <2> QED
    BY <1>2 DEF Reverse
<1>6. ASSUME NEW i \in 1 .. n - 1 PROVE RemoveAt(v, p)[i] = Reverse(t)[i]
  <2>1. n - i \in 1 .. n - 1 /\ n - 1 - i + 1 = n - i /\ n - (i + 1) + 1 = n - i
        /\ i \in 1 .. n /\ i + 1 \in 1 .. n
    OBVIOUS
  <2>2. Reverse(t)[i] = IF n - i < q THEN table[n - i] ELSE table[n - i + 1]
    <3> HIDE DEF t
    <3> QED
      BY <1>2, <1>5, <2>1
  <2>3. RemoveAt(v, p)[i] = IF i < p THEN table[n - i + 1] ELSE table[n - i]
    <3> HIDE DEF v, p
    <3> QED
      BY <1>1, <1>4, <2>1
  <2>4. i < p <=> ~(n - i < q)
    OBVIOUS
  <2> HIDE DEF v, t, p
  <2> QED
    BY <2>2, <2>3, <2>4
<1> HIDE DEF v, t
<1>7. RemoveAt(v, p) = Reverse(t)
  <2> HIDE DEF p
  <2> QED
    BY <1>4, <1>5, <1>6, SeqEqual
<1> QED
  BY <1>1, <1>7 DEF v, t

-----------------------------------------------------------------------------
(* The screens and the table of bookmarks (SavedBookmarks) *)

\* What a screen of the task can be.
SavedScreen ==
  [kind : {"saved"}, list : Seq(Article), position : Nat \ {0},
   results : Seq(BOOLEAN), gone : BOOLEAN, behind : BOOLEAN]
ArticleScreen ==
  {s \in [kind : {"article", "bulletin"}, article : Article, from : Nat,
          gone : BOOLEAN, saved : BOOLEAN, copy : BOOLEAN] :
     s.kind = KindOf(s.article)}
Screen == {Feed} \cup SavedScreen \cup ArticleScreen

\* Who waits for an article screen's result is a list of bookmarks below it.
FromSaved(screens) ==
  \A k \in DOMAIN screens :
    IsArticle(screens[k]) /\ screens[k].from # 0 =>
      screens[k].from < k /\ screens[screens[k].from].kind = "saved"

\* The screen that is shown has been created.
BookmarksTypeInv ==
  /\ rows \in Seq(Article) /\ again \in BOOLEAN /\ doubled \in BOOLEAN
  /\ stack \in Seq(Screen) /\ stack # <<>> /\ FromSaved(stack)
  /\ Top.kind # "feed" => ~Top.gone

\* No article is open twice.
OpenOnce(screens) ==
  \A j, k \in DOMAIN screens :
    /\ IsArticle(screens[j]) /\ IsArticle(screens[k])
    /\ screens[j].article = screens[k].article
    => j = k

\* What the article screens believe to be stored is what the table says.
Current(screens, table) ==
  \A k \in DOMAIN screens :
    IsArticle(screens[k]) /\ ~screens[k].gone =>
      screens[k].copy = AlreadyAdded(table, screens[k].article)

\* A list that nothing has been kept from is the table, shown or covered; only
\* the screen right above it can be its own, of the row at its position.
Follows(screens, table, k) ==
  LET s == screens[k] IN
  s.kind = "saved" /\ ~s.gone /\ ~s.behind =>
    /\ s.results = <<>> /\ s.list = Reverse(table)
    /\ \A j \in DOMAIN screens :
         IsArticle(screens[j]) /\ screens[j].from = k =>
           /\ j = k + 1
           /\ s.position \in DOMAIN s.list /\ s.list[s.position] = screens[j].article

\* What the bookmarks promise while no article has been open twice.
Sound(screens, table) ==
  /\ IsInjective(table) /\ OpenOnce(screens) /\ Current(screens, table)
  /\ \A k \in DOMAIN screens : Follows(screens, table, k)

\* The inductive invariant.
BookmarksInv == BookmarksTypeInv /\ (~doubled => Sound(stack, rows))

-----------------------------------------------------------------------------
(* Screens *)

\* What the kind of a screen says of it.
LEMMA ScreenFacts ==
  ASSUME NEW s \in Screen
  PROVE  /\ s.kind \in {"feed", "saved", "article", "bulletin"}
         /\ s.kind = "feed" <=> s = Feed
         /\ s.kind = "saved" <=> s \in SavedScreen
         /\ IsArticle(s) <=> s \in ArticleScreen
BY DEF Screen, SavedScreen, ArticleScreen, Feed, IsArticle, KindOf

\* What onCreate of an article screen makes.
LEMMA NewArticleType ==
  ASSUME NEW table, NEW a \in Article, NEW from \in Nat
  PROVE  /\ NewArticle(table, a, from) \in ArticleScreen
         /\ NewArticle(table, a, from) \in Screen
         /\ NewArticle(table, a, from).article = a
         /\ NewArticle(table, a, from).from = from
         /\ ~NewArticle(table, a, from).gone
         /\ NewArticle(table, a, from).copy = AlreadyAdded(table, a)
<1>1. AlreadyAdded(table, a) \in BOOLEAN
  BY DEF AlreadyAdded
<1>2. KindOf(a) \in {"article", "bulletin"}
  BY DEF KindOf
<1> QED
  BY <1>1, <1>2 DEF NewArticle, ArticleScreen, Screen

\* What onCreate of Saved_Activity makes.
LEMMA NewSavedType ==
  ASSUME NEW table \in Seq(Article), NEW s, s = NewSaved(table)
  PROVE  /\ s \in SavedScreen /\ s.list = Reverse(table) /\ s.position = 1
         /\ s.results = <<>> /\ ~s.gone /\ ~s.behind
<1>1. Reverse(table) \in Seq(Article)
  BY DEF Reverse
<1> QED
  BY <1>1 DEF NewSaved, NewestFirst, SavedScreen

\* A list of bookmarks takes the results that have come for it.
LEMMA TakeResultsType ==
  ASSUME NEW s \in SavedScreen, NEW t, t = TakeResults(s)
  PROVE  /\ t \in SavedScreen /\ t.results = <<>>
         /\ t.list = AfterResults(s.list, s.position, s.results)
         /\ t.position = s.position /\ t.gone = s.gone /\ t.behind = s.behind
<1>1. /\ s.list \in Seq(Article) /\ s.position \in Nat \ {0}
      /\ s.results \in Seq(BOOLEAN)
  BY DEF SavedScreen
<1>2. AfterResults(s.list, s.position, s.results) \in Seq(Article)
  BY <1>1, ResultsLeave
<1>3. PICK l : l = AfterResults(s.list, s.position, s.results)
  OBVIOUS
<1>4. t = [s EXCEPT !.list = l, !.results = <<>>]
  BY <1>3 DEF TakeResults
<1>5. /\ t.results = <<>> /\ t.list = l
      /\ t.position = s.position /\ t.gone = s.gone /\ t.behind = s.behind
  BY <1>4 DEF SavedScreen
<1>6. t \in SavedScreen
  <2>1. l \in Seq(Article) /\ <<>> \in Seq(BOOLEAN)
    BY <1>2, <1>3
  <2> QED
    BY <1>4, <2>1 DEF SavedScreen
<1> QED
  BY <1>3, <1>5, <1>6

\* What a screen is that comes to the front.
LEMMA ShownFacts ==
  ASSUME NEW s \in Screen, NEW table \in Seq(Article), NEW t, t = Shown(s, table)
  PROVE  /\ t \in Screen /\ t.kind = s.kind
         /\ t.kind # "feed" => ~t.gone
         /\ IsArticle(s) => /\ t.article = s.article /\ t.from = s.from
                            /\ s.gone => t.copy = AlreadyAdded(table, s.article)
                            /\ ~s.gone => t = s
         /\ s.kind = "saved" => t.results = <<>>
         /\ s.kind = "saved" /\ s.gone /\ ~t.behind => t.list = Reverse(table)
         /\ s.kind = "saved" /\ ~s.gone =>
              /\ t.behind = s.behind /\ t.position = s.position
              /\ t.list = AfterResults(s.list, s.position, s.results)
<1>1. CASE s.kind = "feed"
  <2>1. t = s /\ ~IsArticle(s)
    BY <1>1 DEF Shown, IsArticle
  <2> QED
    BY <1>1, <2>1
<1>2. CASE IsArticle(s) /\ ~s.gone
  <2>1. t = s /\ s.kind # "saved" /\ s.kind # "feed"
    BY <1>2 DEF Shown, IsArticle
  <2> QED
    BY <1>2, <2>1
<1>3. CASE IsArticle(s) /\ s.gone
  <2>1. t = NewArticle(table, s.article, s.from) /\ s.kind # "saved" /\ s.kind # "feed"
    BY <1>3 DEF Shown, Recreate, IsArticle
  <2>2. s.article \in Article /\ s.from \in Nat /\ s.kind = KindOf(s.article)
    BY <1>3, ScreenFacts DEF ArticleScreen
  <2>3. t.kind = KindOf(s.article)
    BY <2>1 DEF NewArticle
  <2>4. /\ t \in Screen /\ t.article = s.article /\ t.from = s.from /\ ~t.gone
        /\ t.copy = AlreadyAdded(table, s.article)
    <3>1. PICK a \in Article, from \in Nat : a = s.article /\ from = s.from
      BY <2>2
    <3>2. t = NewArticle(table, a, from)
      BY <2>1, <3>1
    <3>3. /\ NewArticle(table, a, from) \in Screen
          /\ NewArticle(table, a, from).article = a
          /\ NewArticle(table, a, from).from = from
          /\ ~NewArticle(table, a, from).gone
          /\ NewArticle(table, a, from).copy = AlreadyAdded(table, a)
      BY NewArticleType
    <3> QED
      BY <3>1, <3>2, <3>3
  <2> QED
    BY <1>3, <2>1, <2>2, <2>3, <2>4
<1>4. CASE s.kind = "saved" /\ ~s.gone
  <2>1. s \in SavedScreen /\ ~IsArticle(s) /\ t = TakeResults(s)
    BY <1>4, ScreenFacts DEF Shown, IsArticle
  <2>2. /\ t \in SavedScreen /\ t.results = <<>>
        /\ t.list = AfterResults(s.list, s.position, s.results)
        /\ t.position = s.position /\ t.gone = s.gone /\ t.behind = s.behind
    BY <2>1, TakeResultsType
  <2>3. t \in Screen /\ t.kind = "saved"
    BY <2>2 DEF Screen, SavedScreen
  <2> QED
    BY <1>4, <2>1, <2>2, <2>3
<1>5. CASE s.kind = "saved" /\ s.gone
  <2> DEFINE u == Recreate(s, table)
             new == NewSaved(table)
  <2>1. s \in SavedScreen /\ ~IsArticle(s)
    BY <1>5, ScreenFacts DEF IsArticle
  <2>2. u = [new EXCEPT !.results = s.results, !.behind = Contains(s.results, TRUE)]
    BY <2>1 DEF Recreate
  <2>3. /\ new \in SavedScreen /\ new.list = Reverse(table) /\ new.position = 1
        /\ ~new.gone
    BY NewSavedType
  <2>4. s.results \in Seq(BOOLEAN) /\ Contains(s.results, TRUE) \in BOOLEAN
    BY <2>1 DEF SavedScreen, Contains
  <2> HIDE DEF new, u
  <2>5. /\ u \in SavedScreen /\ u.list = Reverse(table) /\ u.position = 1 /\ ~u.gone
        /\ u.results = s.results /\ u.behind = Contains(s.results, TRUE)
    BY <2>2, <2>3, <2>4 DEF SavedScreen
  <2>6. t = TakeResults(u)
    BY <1>5 DEF Shown, u
  <2>7. /\ t \in SavedScreen /\ t.results = <<>>
        /\ t.list = AfterResults(u.list, u.position, u.results)
        /\ t.position = u.position /\ t.gone = u.gone /\ t.behind = u.behind
    BY <2>5, <2>6, TakeResultsType
  <2>8. t \in Screen /\ t.kind = "saved"
    BY <2>7 DEF Screen, SavedScreen
  <2>9. ASSUME ~t.behind PROVE t.list = Reverse(table)
    <3>1. \A i \in DOMAIN s.results : ~s.results[i]
      BY <2>4, <2>5, <2>7, <2>9 DEF Contains
    <3>2. u.list \in Seq(Article) /\ u.position \in Nat \ {0}
      BY <2>5 DEF SavedScreen
    <3>3. AfterResults(u.list, u.position, s.results) = u.list
      BY <2>4, <3>1, <3>2, ResultsLeave
    <3> QED
      BY <2>5, <2>7, <3>3
  <2> QED
    BY <1>5, <2>1, <2>5, <2>7, <2>8, <2>9
<1> QED
  BY <1>1, <1>2, <1>3, <1>4, <1>5, ScreenFacts DEF IsArticle

-----------------------------------------------------------------------------
(* Going to a screen and coming back *)

\* The screens that are left when the first m are, and the table.
LEMMA RevealType ==
  ASSUME NEW screens \in Seq(Screen), FromSaved(screens), NEW m \in 1 .. Len(screens),
         NEW table \in Seq(Article), NEW t, t = Reveal(screens, m, table)
  PROVE  /\ t \in Seq(Screen) /\ Len(t) = m /\ FromSaved(t)
         /\ \A k \in 1 .. m - 1 : t[k] = screens[k]
         /\ t[m] = Shown(screens[m], table)
         /\ t[m].kind # "feed" => ~t[m].gone
<1> DEFINE u == SubSeq(screens, 1, m)
<1>1. u \in Seq(Screen) /\ Len(u) = m /\ \A k \in 1 .. m : u[k] = screens[k]
  OBVIOUS
<1> HIDE DEF u
<1>2. t = [u EXCEPT ![m] = Shown(u[m], table)]
  BY DEF Reveal, u
<1>3. PICK top : top = Shown(screens[m], table)
  OBVIOUS
<1>4. /\ top \in Screen /\ top.kind = screens[m].kind
      /\ top.kind # "feed" => ~top.gone
      /\ IsArticle(screens[m]) => top.from = screens[m].from
  BY <1>3, ShownFacts
<1>5. t = [u EXCEPT ![m] = top]
  <2>1. u[m] = screens[m]
    BY <1>1
  <2> QED
    BY <1>2, <1>3, <2>1
<1>6. /\ t \in Seq(Screen) /\ Len(t) = m /\ t[m] = top
      /\ \A k \in 1 .. m - 1 : t[k] = screens[k]
  <2>1. m \in 1 .. Len(u) /\ top \in Screen
    BY <1>1, <1>4
  <2>2. t \in Seq(Screen) /\ Len(t) = Len(u)
        /\ \A k \in 1 .. Len(u) : t[k] = IF k = m THEN top ELSE u[k]
    BY <1>1, <1>5, <2>1, ExceptSeq
  <2> QED
    BY <1>1, <2>1, <2>2
<1>7. /\ DOMAIN t = 1 .. m
      /\ \A k \in 1 .. m : t[k].kind = screens[k].kind
      /\ \A k \in 1 .. m : IsArticle(t[k]) => t[k].from = screens[k].from
  <2>1. \A k \in 1 .. m : k = m \/ k \in 1 .. m - 1
    OBVIOUS
  <2> QED
    BY <1>4, <1>6, <2>1 DEF IsArticle
<1>8. FromSaved(t)
  <2> SUFFICES ASSUME NEW k \in 1 .. m, IsArticle(t[k]), t[k].from # 0
               PROVE  t[k].from < k /\ t[t[k].from].kind = "saved"
    BY <1>7 DEF FromSaved
  <2>1. IsArticle(screens[k]) /\ t[k].from = screens[k].from
    BY <1>7 DEF IsArticle
  <2>2. k \in DOMAIN screens /\ t[k] \in Screen
    BY <1>6, <1>7
  <2>3. screens[k].from < k /\ screens[screens[k].from].kind = "saved"
    BY <2>1, <2>2 DEF FromSaved
  <2>4. t[k].from \in Nat
    BY <2>2, ScreenFacts DEF ArticleScreen
  <2>5. t[k].from \in 1 .. m
    BY <2>1, <2>3, <2>4
  <2> QED
    BY <1>7, <2>1, <2>3, <2>5
<1> QED
  BY <1>3, <1>4, <1>6, <1>8

\* They are sound if they would be, but for a change the one that is shown now is
\* about to be told of.
LEMMA RevealSound ==
  ASSUME NEW screens \in Seq(Screen), FromSaved(screens), NEW m \in 1 .. Len(screens),
         NEW table \in Seq(Article), NEW t, t = Reveal(screens, m, table),
         IsInjective(table), OpenOnce(screens),
         \A k \in 1 .. m : IsArticle(screens[k]) /\ ~screens[k].gone =>
           screens[k].copy = AlreadyAdded(table, screens[k].article),
         \A k \in 1 .. m - 1 : Follows(screens, table, k),
         screens[m].kind = "saved" /\ ~screens[m].gone /\ ~screens[m].behind =>
           AfterResults(screens[m].list, screens[m].position, screens[m].results)
             = Reverse(table)
  PROVE  Sound(t, table)
<1>1. /\ t \in Seq(Screen) /\ Len(t) = m /\ FromSaved(t) /\ DOMAIN t = 1 .. m
      /\ \A k \in 1 .. m - 1 : t[k] = screens[k]
      /\ t[m] = Shown(screens[m], table)
  BY RevealType
<1>2. PICK top : top = t[m]
  OBVIOUS
<1>3. /\ top \in Screen /\ top.kind = screens[m].kind
      /\ top.kind # "feed" => ~top.gone
      /\ IsArticle(screens[m]) =>
           /\ top.article = screens[m].article /\ top.from = screens[m].from
           /\ screens[m].gone => top.copy = AlreadyAdded(table, screens[m].article)
           /\ ~screens[m].gone => top = screens[m]
      /\ screens[m].kind = "saved" => top.results = <<>>
      /\ screens[m].kind = "saved" /\ screens[m].gone /\ ~top.behind =>
           top.list = Reverse(table)
      /\ screens[m].kind = "saved" /\ ~screens[m].gone =>
           /\ top.behind = screens[m].behind /\ top.position = screens[m].position
           /\ top.list = AfterResults(screens[m].list, screens[m].position,
                                      screens[m].results)
  BY <1>1, <1>2, ShownFacts
<1>4. \A k \in 1 .. m : k = m \/ k \in 1 .. m - 1
  OBVIOUS
<1>5. /\ 1 .. m \subseteq DOMAIN screens
      /\ \A k \in 1 .. m : /\ t[k].kind = screens[k].kind
                           /\ IsArticle(t[k]) <=> IsArticle(screens[k])
                           /\ IsArticle(t[k]) => /\ t[k].article = screens[k].article
                                                 /\ t[k].from = screens[k].from
  BY <1>1, <1>2, <1>3, <1>4 DEF IsArticle
<1>6. OpenOnce(t)
  BY <1>1, <1>5 DEF OpenOnce
<1>7. Current(t, table)
  <2> SUFFICES ASSUME NEW k \in 1 .. m, IsArticle(t[k]), ~t[k].gone
               PROVE  t[k].copy = AlreadyAdded(table, t[k].article)
    BY <1>1 DEF Current
  <2>1. CASE k \in 1 .. m - 1
    BY <1>1, <2>1
  <2>2. CASE k = m
    <3>1. IsArticle(screens[m]) /\ t[k] = top
      BY <1>2, <1>5, <2>2
    <3>2. CASE screens[m].gone
      BY <1>3, <3>1, <3>2
    <3>3. CASE ~screens[m].gone
      <4>1. top = screens[m] /\ m \in 1 .. m
        BY <1>3, <3>1, <3>3
      <4> QED
        BY <3>1, <3>3, <4>1
    <3> QED
      BY <3>2, <3>3
  <2> QED
    BY <1>4, <2>1, <2>2
<1>8. ASSUME NEW k \in 1 .. m PROVE Follows(t, table, k)
  <2>1. CASE k \in 1 .. m - 1
    <3>1. t[k] = screens[k] /\ Follows(screens, table, k)
      BY <1>1, <2>1
    <3> QED
      BY <1>1, <1>5, <3>1 DEF Follows
  <2>2. CASE k = m
    <3> SUFFICES ASSUME top.kind = "saved", ~top.behind
                 PROVE  /\ top.results = <<>> /\ top.list = Reverse(table)
                        /\ \A j \in 1 .. m : ~(IsArticle(t[j]) /\ t[j].from = m)
      BY <1>1, <1>2, <2>2 DEF Follows
    <3>1. top.results = <<>>
      BY <1>3
    <3>2. top.list = Reverse(table)
      BY <1>3
    <3>3. ASSUME NEW j \in 1 .. m, IsArticle(t[j]), t[j].from = m PROVE FALSE
      <4>1. m < j
        BY <1>1, <3>3 DEF FromSaved
      <4> QED
        BY <4>1
    <3> QED
      BY <3>1, <3>2, <3>3
  <2> QED
    BY <1>4, <2>1, <2>2
<1> QED
  BY <1>1, <1>6, <1>7, <1>8 DEF Sound

\* One more article screen, on its own or for a list of bookmarks that is shown.
LEMMA PushInv ==
  ASSUME BookmarksTypeInv, NEW screens \in Seq(Screen), FromSaved(screens),
         ~doubled => Sound(screens, rows),
         NEW a \in Article, NEW from \in 0 .. Len(screens),
         from # 0 => screens[from].kind = "saved",
         from # 0 /\ ~screens[from].behind =>
           /\ from = Len(screens) /\ screens[from].position \in DOMAIN screens[from].list
           /\ screens[from].list[screens[from].position] = a,
         Push(screens, a, from), again' \in BOOLEAN
  PROVE  BookmarksInv'
<1> DEFINE n == Len(screens)
           new == NewArticle(rows, a, from)
           Open(k) == IsArticle(screens[k]) /\ screens[k].article = a
<1>1. /\ new \in ArticleScreen /\ new \in Screen /\ new.article = a /\ new.from = from
      /\ ~new.gone /\ new.copy = AlreadyAdded(rows, a)
  <2>1. from \in Nat
    OBVIOUS
  <2>2. PICK f \in Nat : f = from
    BY <2>1
  <2>3. /\ NewArticle(rows, a, f) \in ArticleScreen
        /\ NewArticle(rows, a, f) \in Screen
        /\ NewArticle(rows, a, f).article = a /\ NewArticle(rows, a, f).from = f
        /\ ~NewArticle(rows, a, f).gone
        /\ NewArticle(rows, a, f).copy = AlreadyAdded(rows, a)
    BY ONLY NewArticleType, f \in Nat, a \in Article
  <2> QED
    BY <2>2, <2>3
<1>2. /\ stack' = Append(screens, new) /\ rows' = rows
      /\ doubled' = (doubled \/ \E k \in DOMAIN screens : Open(k))
  BY DEF Push
<1> HIDE DEF new
<1>3. PICK t : t = Append(screens, new)
  OBVIOUS
<1>4. /\ t \in Seq(Screen) /\ Len(t) = n + 1 /\ DOMAIN t = 1 .. n + 1
      /\ t[n + 1] = new /\ DOMAIN screens = 1 .. n
      /\ \A k \in 1 .. n : t[k] = screens[k]
  BY <1>1, <1>3
<1>5. \A k \in 1 .. n + 1 : k = n + 1 \/ k \in 1 .. n
  OBVIOUS
<1>6. IsArticle(new) /\ new.kind # "saved" /\ new.kind # "feed"
  BY <1>1 DEF ArticleScreen, IsArticle
<1>7. FromSaved(t)
  <2> SUFFICES ASSUME NEW k \in 1 .. n + 1, IsArticle(t[k]), t[k].from # 0
               PROVE  t[k].from < k /\ t[t[k].from].kind = "saved"
    BY <1>4 DEF FromSaved
  <2>1. CASE k = n + 1
    <3>1. t[k].from = from
      BY <1>1, <1>4, <2>1
    <3>2. from \in 1 .. n
      BY <3>1
    <3>3. t[from] = screens[from] /\ screens[from].kind = "saved"
      BY <1>4, <3>1, <3>2
    <3>4. from < k
      BY <2>1, <3>2
    <3> QED
      BY <3>1, <3>3, <3>4
  <2>2. CASE k \in 1 .. n
    <3>1. t[k] = screens[k] /\ screens[k].from < k
          /\ screens[screens[k].from].kind = "saved"
      BY <1>4, <2>2 DEF FromSaved
    <3>2. screens[k].from \in Nat
      <4>1. screens[k] \in Screen
        BY <2>2
      <4> QED
        BY <3>1, <4>1, ScreenFacts DEF ArticleScreen
    <3>3. screens[k].from \in 1 .. n
      BY <2>2, <3>1, <3>2
    <3> QED
      BY <1>4, <3>1, <3>3
  <2> QED
    BY <1>5, <2>1, <2>2
<1>8. BookmarksTypeInv'
  <2>1. stack' = t
    BY <1>2, <1>3
  <2>2. t # <<>> /\ Last(t) = new
    <3>1. n + 1 # 0 /\ Len(<<>>) = 0 /\ Last(t) = t[Len(t)]
      BY DEF Last
    <3> QED
      BY <1>4, <3>1
  <2>3. Top' = new
    BY <2>1, <2>2 DEF Top
  <2>4. doubled' \in BOOLEAN
    BY <1>2 DEF BookmarksTypeInv
  <2> QED
    BY <1>1, <1>2, <1>4, <1>7, <2>1, <2>2, <2>3, <2>4 DEF BookmarksTypeInv
<1>9. ASSUME ~doubled' PROVE Sound(t, rows)
  <2>1. ~doubled /\ \A k \in 1 .. n : ~Open(k)
    BY <1>2, <1>4, <1>9
  <2>2. Sound(screens, rows)
    BY <2>1
  <2>3. OpenOnce(t)
    <3> SUFFICES ASSUME NEW j \in 1 .. n + 1, NEW k \in 1 .. n + 1,
                        IsArticle(t[j]), IsArticle(t[k]),
                        t[j].article = t[k].article
                 PROVE  j = k
      BY <1>4 DEF OpenOnce
    <3>1. CASE j \in 1 .. n /\ k \in 1 .. n
      BY <1>4, <2>2, <3>1 DEF Sound, OpenOnce
    <3>2. CASE j = n + 1 /\ k \in 1 .. n
      BY <1>1, <1>4, <2>1, <3>2
    <3>3. CASE k = n + 1 /\ j \in 1 .. n
      BY <1>1, <1>4, <2>1, <3>3
    <3> QED
      BY <1>5, <3>1, <3>2, <3>3
  <2>4. Current(t, rows)
    <3> SUFFICES ASSUME NEW k \in 1 .. n + 1, IsArticle(t[k]), ~t[k].gone
                 PROVE  t[k].copy = AlreadyAdded(rows, t[k].article)
      BY <1>4 DEF Current
    <3>1. CASE k \in 1 .. n
      BY <1>4, <2>2, <3>1 DEF Sound, Current
    <3>2. CASE k = n + 1
      BY <1>1, <1>4, <3>2
    <3> QED
      BY <1>5, <3>1, <3>2
  <2>5. ASSUME NEW k \in 1 .. n + 1 PROVE Follows(t, rows, k)
    <3>1. CASE k = n + 1
      BY <1>4, <1>6, <3>1 DEF Follows
    <3>2. CASE k \in 1 .. n
      <4> DEFINE b == screens[k]
      <4> SUFFICES ASSUME b.kind = "saved", ~b.gone, ~b.behind
                   PROVE  /\ b.results = <<>> /\ b.list = Reverse(rows)
                          /\ \A j \in 1 .. n + 1 :
                               IsArticle(t[j]) /\ t[j].from = k =>
                                 /\ j = k + 1 /\ b.position \in DOMAIN b.list
                                 /\ b.list[b.position] = t[j].article
        BY <1>4, <3>2 DEF Follows
      <4>1. /\ b.results = <<>> /\ b.list = Reverse(rows)
            /\ \A j \in 1 .. n :
                 IsArticle(screens[j]) /\ screens[j].from = k =>
                   /\ j = k + 1 /\ b.position \in DOMAIN b.list
                   /\ b.list[b.position] = screens[j].article
        BY <1>4, <2>2, <3>2 DEF Sound, Follows
      <4>2. ASSUME t[n + 1].from = k
            PROVE  /\ n + 1 = k + 1 /\ b.position \in DOMAIN b.list
                   /\ b.list[b.position] = t[n + 1].article
        <5>1. t[n + 1].from = from
          BY <1>1, <1>4
        <5>2. from = k
          BY <4>2, <5>1
        <5>3. k # 0
          BY <3>2
        <5> QED
          BY <1>1, <1>4, <5>2, <5>3
      <4> HIDE DEF b
      <4> QED
        BY <1>4, <1>5, <4>1, <4>2
    <3> QED
      BY <1>5, <3>1, <3>2
  <2> QED
    BY <1>4, <2>2, <2>3, <2>4, <2>5 DEF Sound
<1> QED
  BY <1>2, <1>3, <1>8, <1>9 DEF BookmarksInv

\* Screens that differ in nothing that is claimed of them.
Alike(t, screens) ==
  /\ Len(t) = Len(screens)
  /\ \A k \in 1 .. Len(screens) :
       /\ t[k].kind = screens[k].kind
       /\ IsArticle(t[k]) =>
            /\ t[k].article = screens[k].article /\ t[k].from = screens[k].from
            /\ ~t[k].gone => ~screens[k].gone /\ t[k].copy = screens[k].copy
       /\ t[k].kind = "saved" /\ ~t[k].gone /\ ~t[k].behind =>
            /\ ~screens[k].gone /\ ~screens[k].behind
            /\ t[k].list = screens[k].list /\ t[k].results = screens[k].results
            /\ k = Len(screens) \/ t[k].position = screens[k].position

\* Screens that are alike are as sound.
LEMMA AlikeSound ==
  ASSUME NEW screens \in Seq(Screen), FromSaved(screens), NEW t \in Seq(Screen),
         Alike(t, screens), NEW table
  PROVE  /\ FromSaved(t)
         /\ Sound(screens, table) => Sound(t, table)
<1> DEFINE n == Len(screens)
<1>1. DOMAIN t = 1 .. n /\ DOMAIN screens = 1 .. n
  BY DEF Alike
<1>2. \A k \in 1 .. n : /\ t[k].kind = screens[k].kind
                        /\ IsArticle(t[k]) <=> IsArticle(screens[k])
                        /\ IsArticle(t[k]) => /\ t[k].article = screens[k].article
                                              /\ t[k].from = screens[k].from
  BY DEF Alike, IsArticle
<1>3. FromSaved(t)
  <2> SUFFICES ASSUME NEW k \in 1 .. n, IsArticle(t[k]), t[k].from # 0
               PROVE  t[k].from < k /\ t[t[k].from].kind = "saved"
    BY <1>1 DEF FromSaved
  <2>1. /\ t[k].from = screens[k].from /\ screens[k].from < k
        /\ screens[screens[k].from].kind = "saved"
    BY <1>1, <1>2 DEF FromSaved
  <2>2. t[k].from \in Nat
    <3>1. t[k] \in Screen
      BY <1>1
    <3> QED
      BY <3>1, ScreenFacts DEF ArticleScreen
  <2>3. t[k].from \in 1 .. n
    BY <2>1, <2>2
  <2> QED
    BY <1>2, <2>1, <2>3
<1>4. ASSUME Sound(screens, table) PROVE Sound(t, table)
  <2>1. OpenOnce(t)
    BY <1>1, <1>2, <1>4 DEF Sound, OpenOnce
  <2>2. Current(t, table)
    <3> SUFFICES ASSUME NEW k \in 1 .. n, IsArticle(t[k]), ~t[k].gone
                 PROVE  t[k].copy = AlreadyAdded(table, t[k].article)
      BY <1>1 DEF Current
    <3>1. IsArticle(screens[k]) /\ ~screens[k].gone /\ t[k].copy = screens[k].copy
          /\ t[k].article = screens[k].article
      BY <1>2 DEF Alike
    <3>2. screens[k].copy = AlreadyAdded(table, screens[k].article)
      BY <1>1, <1>4, <3>1 DEF Sound, Current
    <3> QED
      BY <3>1, <3>2
  <2>3. ASSUME NEW k \in 1 .. n PROVE Follows(t, table, k)
    <3> SUFFICES ASSUME t[k].kind = "saved", ~t[k].gone, ~t[k].behind
                 PROVE  /\ t[k].results = <<>> /\ t[k].list = Reverse(table)
                        /\ \A j \in 1 .. n :
                             IsArticle(t[j]) /\ t[j].from = k =>
                               /\ j = k + 1 /\ t[k].position \in DOMAIN t[k].list
                               /\ t[k].list[t[k].position] = t[j].article
      BY <1>1 DEF Follows
    <3>1. /\ screens[k].kind = "saved" /\ ~screens[k].gone /\ ~screens[k].behind
          /\ t[k].list = screens[k].list /\ t[k].results = screens[k].results
          /\ k = n \/ t[k].position = screens[k].position
      BY DEF Alike
    <3>2. /\ screens[k].results = <<>> /\ screens[k].list = Reverse(table)
          /\ \A j \in 1 .. n :
               IsArticle(screens[j]) /\ screens[j].from = k =>
                 /\ j = k + 1 /\ screens[k].position \in DOMAIN screens[k].list
                 /\ screens[k].list[screens[k].position] = screens[j].article
      BY <1>1, <1>4, <3>1 DEF Sound, Follows
    <3>3. ASSUME NEW j \in 1 .. n, IsArticle(t[j]), t[j].from = k
          PROVE  /\ j = k + 1 /\ t[k].position \in DOMAIN t[k].list
                 /\ t[k].list[t[k].position] = t[j].article
      <4>1. IsArticle(screens[j]) /\ screens[j].from = k /\ t[j].article = screens[j].article
        BY <1>2, <3>3
      <4>2. k # n
        BY <3>2, <4>1
      <4> QED
        BY <3>1, <3>2, <4>1, <4>2
    <3> QED
      BY <3>1, <3>2, <3>3
  <2> QED
    BY <1>1, <1>4, <2>1, <2>2, <2>3 DEF Sound
<1> QED
  BY <1>3, <1>4

-----------------------------------------------------------------------------
(* The steps *)

\* What the invariant says of the state's own sequences.
LEMMA StackFacts ==
  ASSUME BookmarksTypeInv
  PROVE  /\ Len(stack) \in Nat \ {0} /\ DOMAIN stack = 1 .. Len(stack)
         /\ Len(stack) \in 1 .. Len(stack)
         /\ Top = stack[Len(stack)] /\ Top \in Screen
         /\ \A k \in 1 .. Len(stack) : stack[k] \in Screen
<1>1. stack \in Seq(Screen) /\ stack # <<>>
  BY DEF BookmarksTypeInv
<1>2. Len(stack) \in Nat \ {0} /\ DOMAIN stack = 1 .. Len(stack)
      /\ \A k \in 1 .. Len(stack) : stack[k] \in Screen
  BY <1>1
<1>3. Len(stack) \in 1 .. Len(stack) /\ Top = stack[Len(stack)]
  BY <1>2 DEF Top, Last
<1> QED
  BY <1>2, <1>3

\* Another page of the navigation bar.
LEMMA GoToInv ==
  ASSUME BookmarksInv, NEW screen \in {Feed, NewSaved(rows)}, GoTo(screen)
  PROVE  BookmarksInv'
<1> DEFINE n == Len(stack)
<1>1. BookmarksTypeInv /\ FromSaved(stack) /\ stack \in Seq(Screen) /\ rows \in Seq(Article)
  BY DEF BookmarksInv, BookmarksTypeInv
<1>2. screen \in Screen /\ ~IsArticle(screen)
      /\ (screen.kind = "saved" => /\ ~screen.gone /\ screen.results = <<>>
                                   /\ screen.list = Reverse(rows))
      /\ (screen.kind = "feed" \/ screen.kind = "saved")
  <2>1. CASE screen = Feed
    BY <2>1 DEF Feed, IsArticle, Screen
  <2>2. CASE screen = NewSaved(rows)
    <3>1. /\ screen \in SavedScreen /\ screen.list = Reverse(rows)
          /\ screen.results = <<>> /\ ~screen.gone
      BY <1>1, <2>2, NewSavedType
    <3>2. screen.kind = "saved" /\ screen \in Screen
      BY <3>1 DEF SavedScreen, Screen
    <3> QED
      BY <3>1, <3>2 DEF IsArticle
  <2> QED
    BY <2>1, <2>2
<1>3. /\ stack' = Append(stack, screen) /\ again' = FALSE
      /\ rows' = rows /\ doubled' = doubled
  BY DEF GoTo
<1>4. PICK t : t = Append(stack, screen)
  OBVIOUS
<1>5. /\ t \in Seq(Screen) /\ Len(t) = n + 1 /\ DOMAIN t = 1 .. n + 1
      /\ t[n + 1] = screen /\ DOMAIN stack = 1 .. n
      /\ \A k \in 1 .. n : t[k] = stack[k]
  BY <1>1, <1>2, <1>4
<1>6. \A k \in 1 .. n + 1 : k = n + 1 \/ k \in 1 .. n
  OBVIOUS
<1>7. \A k \in 1 .. n + 1 : IsArticle(t[k]) => k \in 1 .. n /\ t[k] = stack[k]
  BY <1>2, <1>5, <1>6
<1>8. ASSUME NEW k \in 1 .. n, IsArticle(stack[k]), stack[k].from # 0
      PROVE  /\ stack[k].from < k /\ stack[stack[k].from].kind = "saved"
             /\ stack[k].from \in 1 .. n
  <2>1. stack[k].from < k /\ stack[stack[k].from].kind = "saved"
    BY <1>1, <1>5, <1>8 DEF FromSaved
  <2>2. stack[k] \in Screen
    BY <1>1
  <2>3. stack[k].from \in Nat
    BY <1>8, <2>2, ScreenFacts DEF ArticleScreen
  <2> QED
    BY <1>8, <2>1, <2>3
<1>9. FromSaved(t)
  <2> SUFFICES ASSUME NEW k \in 1 .. n + 1, IsArticle(t[k]), t[k].from # 0
               PROVE  t[k].from < k /\ t[t[k].from].kind = "saved"
    BY <1>5 DEF FromSaved
  <2>1. k \in 1 .. n /\ t[k] = stack[k]
    BY <1>7
  <2> QED
    BY <1>5, <1>8, <2>1
<1>10. BookmarksTypeInv'
  <2>1. t # <<>> /\ Last(t) = screen
    <3>1. n + 1 # 0 /\ Len(<<>>) = 0 /\ Last(t) = t[Len(t)] /\ n \in Nat
      BY <1>1 DEF Last
    <3> QED
      BY <1>5, <3>1
  <2>2. Top' = screen
    BY <1>3, <1>4, <2>1 DEF Top
  <2> QED
    BY <1>1, <1>2, <1>3, <1>4, <1>5, <1>9, <2>1, <2>2 DEF BookmarksTypeInv
<1>11. ASSUME ~doubled PROVE Sound(t, rows)
  <2>1. Sound(stack, rows)
    BY <1>11 DEF BookmarksInv
  <2>2. OpenOnce(t)
    BY <1>5, <1>7, <2>1 DEF Sound, OpenOnce
  <2>3. Current(t, rows)
    BY <1>5, <1>7, <2>1 DEF Sound, Current
  <2>4. ASSUME NEW k \in 1 .. n + 1 PROVE Follows(t, rows, k)
    <3>1. CASE k \in 1 .. n
      <4>1. Follows(stack, rows, k) /\ t[k] = stack[k]
        BY <1>5, <2>1, <3>1 DEF Sound
      <4> QED
        BY <1>5, <1>7, <4>1 DEF Follows
    <3>2. CASE k = n + 1
      <4>1. ASSUME NEW j \in 1 .. n + 1, IsArticle(t[j]), t[j].from = k PROVE FALSE
        <5>1. j \in 1 .. n /\ t[j] = stack[j] /\ k # 0
          BY <1>7, <3>2, <4>1
        <5>2. stack[j].from < j
          BY <1>8, <4>1, <5>1
        <5> QED
          BY <3>2, <4>1, <5>1, <5>2
      <4> QED
        BY <1>2, <1>5, <3>2, <4>1 DEF Follows
    <3> QED
      BY <1>6, <3>1, <3>2
  <2> QED
    BY <1>5, <2>1, <2>2, <2>3, <2>4 DEF Sound
<1> QED
  BY <1>3, <1>4, <1>10, <1>11 DEF BookmarksInv

\* An article of a feed, or of a notification that News_Activity has found.
LEMMA OpenInv ==
  ASSUME BookmarksInv, NEW a \in Article, Push(stack, a, 0), again' \in BOOLEAN
  PROVE  BookmarksInv'
<1>1. /\ BookmarksTypeInv /\ FromSaved(stack) /\ stack \in Seq(Screen)
      /\ ~doubled => Sound(stack, rows)
  BY DEF BookmarksInv, BookmarksTypeInv
<1>2. 0 \in 0 .. Len(stack)
  BY <1>1
<1> QED
  BY <1>1, <1>2, PushInv

\* An article of a list of bookmarks, perhaps by a tap on one that is covered.
LEMMA ClickRowInv ==
  ASSUME BookmarksInv, NEW k \in DOMAIN stack, NEW position \in DOMAIN stack[k].list,
         ClickRow(k, position)
  PROVE  BookmarksInv'
<1> DEFINE n == Len(stack)
           a == stack[k].list[position]
<1>1. /\ BookmarksTypeInv /\ FromSaved(stack) /\ stack \in Seq(Screen)
      /\ ~doubled => Sound(stack, rows)
  BY DEF BookmarksInv, BookmarksTypeInv
<1>2. k \in 1 .. n /\ stack[k].kind = "saved" /\ stack[k] \in SavedScreen
  <2>1. k \in 1 .. n /\ stack[k] \in Screen /\ stack[k].kind = "saved"
    BY <1>1 DEF ClickRow
  <2> QED
    BY <2>1, ScreenFacts
<1>3. position \in Nat \ {0} /\ a \in Article /\ again' \in BOOLEAN
  <2>1. stack[k].list \in Seq(Article)
    BY <1>2 DEF SavedScreen
  <2>2. again \in BOOLEAN /\ again' = ~again
    BY <1>1 DEF BookmarksTypeInv, ClickRow
  <2> QED
    BY <2>1, <2>2
<1>4. PICK b : b = [stack[k] EXCEPT !.position = position,
                                    !.behind = (@ \/ k # n)]
  OBVIOUS
<1>5. /\ b \in SavedScreen /\ b.position = position /\ b.list = stack[k].list
      /\ b.results = stack[k].results /\ b.gone = stack[k].gone
      /\ b.behind = (stack[k].behind \/ k # n) /\ b.kind = "saved"
  BY <1>2, <1>3, <1>4 DEF SavedScreen
<1>6. PICK t : t = [stack EXCEPT ![k].position = position,
                                 ![k].behind = (@ \/ k # Len(stack))]
  OBVIOUS
<1>7. t = [stack EXCEPT ![k] = b]
  BY <1>1, <1>2, <1>4, <1>6 DEF SavedScreen
<1>8. /\ t \in Seq(Screen) /\ Len(t) = n /\ t[k] = b
      /\ \A i \in 1 .. n : i # k => t[i] = stack[i]
  <2>1. b \in Screen
    BY <1>5 DEF Screen
  <2>2. /\ t \in Seq(Screen) /\ Len(t) = n
        /\ \A i \in 1 .. n : t[i] = IF i = k THEN b ELSE stack[i]
    BY <1>1, <1>2, <1>7, <2>1, ExceptSeq
  <2> QED
    BY <1>2, <2>2
<1>9. Alike(t, stack)
  <2>1. ~IsArticle(b)
    BY <1>5 DEF IsArticle
  <2> SUFFICES ASSUME NEW i \in 1 .. n
               PROVE  /\ t[i].kind = stack[i].kind
                      /\ IsArticle(t[i]) =>
                           /\ t[i].article = stack[i].article /\ t[i].from = stack[i].from
                           /\ ~t[i].gone => ~stack[i].gone /\ t[i].copy = stack[i].copy
                      /\ t[i].kind = "saved" /\ ~t[i].gone /\ ~t[i].behind =>
                           /\ ~stack[i].gone /\ ~stack[i].behind
                           /\ t[i].list = stack[i].list
                           /\ t[i].results = stack[i].results
                           /\ i = n \/ t[i].position = stack[i].position
    BY <1>8 DEF Alike
  <2>2. CASE i # k
    <3>1. t[i] = stack[i]
      BY <1>8, <2>2
    <3> QED
      BY <3>1
  <2>3. CASE i = k
    BY <1>2, <1>5, <1>8, <2>1, <2>3
  <2> QED
    BY <2>2, <2>3
<1>10. FromSaved(t) /\ (~doubled => Sound(t, rows))
  BY <1>1, <1>8, <1>9, AlikeSound
<1>11. Push(t, a, k)
  BY <1>6 DEF ClickRow
<1>12. /\ k \in 0 .. Len(t) /\ t[k].kind = "saved"
       /\ (~t[k].behind => /\ k = Len(t) /\ t[k].position \in DOMAIN t[k].list
                           /\ t[k].list[t[k].position] = a)
  <2>1. k \in 0 .. Len(t) /\ t[k].kind = "saved"
    BY <1>2, <1>5, <1>8
  <2>2. t[k].position \in DOMAIN t[k].list /\ t[k].list[t[k].position] = a
    BY <1>5, <1>8
  <2>3. ~t[k].behind => k = n
    BY <1>5, <1>8
  <2> QED
    BY <1>8, <2>1, <2>2, <2>3
<1> HIDE DEF a
<1> QED
  BY <1>1, <1>3, <1>8, <1>10, <1>11, <1>12, PushInv

\* The first m screens are left as they are, the last of them comes to the front.
LEMMA RevealInv ==
  ASSUME BookmarksTypeInv, NEW screens \in Seq(Screen), FromSaved(screens),
         NEW m \in 1 .. Len(screens), ~doubled => Sound(screens, rows),
         stack' = Reveal(screens, m, rows), again' = FALSE, UNCHANGED <<rows, doubled>>
  PROVE  BookmarksInv'
<1>1. PICK t : t = Reveal(screens, m, rows)
  OBVIOUS
<1>2. rows \in Seq(Article) /\ rows' = rows /\ doubled' = doubled /\ doubled \in BOOLEAN
  BY DEF BookmarksTypeInv
<1>3. /\ t \in Seq(Screen) /\ Len(t) = m /\ FromSaved(t)
      /\ t[m].kind # "feed" => ~t[m].gone
  BY <1>1, <1>2, RevealType
<1>4. t # <<>> /\ Top' = t[m] /\ stack' = t
  <2>1. t # <<>> /\ Last(t) = t[m]
    BY <1>3 DEF Last
  <2> QED
    BY <1>1, <2>1 DEF Top
<1>5. BookmarksTypeInv'
  BY <1>2, <1>3, <1>4 DEF BookmarksTypeInv
<1>6. ASSUME ~doubled PROVE Sound(t, rows)
  <2>1. Sound(screens, rows)
    BY <1>6
  <2>2. m \in DOMAIN screens /\ screens[m] \in Screen /\ 1 .. m \subseteq DOMAIN screens
        /\ 1 .. m - 1 \subseteq DOMAIN screens
    OBVIOUS
  <2>3. /\ IsInjective(rows) /\ OpenOnce(screens)
        /\ \A k \in 1 .. m : IsArticle(screens[k]) /\ ~screens[k].gone =>
             screens[k].copy = AlreadyAdded(rows, screens[k].article)
        /\ \A k \in 1 .. m - 1 : Follows(screens, rows, k)
    BY <2>1, <2>2 DEF Sound, Current
  <2>4. ASSUME screens[m].kind = "saved", ~screens[m].gone, ~screens[m].behind
        PROVE  AfterResults(screens[m].list, screens[m].position, screens[m].results)
                 = Reverse(rows)
    <3>1. screens[m].results = <<>> /\ screens[m].list = Reverse(rows)
      BY <2>1, <2>2, <2>4 DEF Sound, Follows
    <3>2. /\ screens[m].list \in Seq(Article) /\ screens[m].position \in Nat \ {0}
          /\ screens[m].results \in Seq(BOOLEAN)
      BY <2>2, <2>4, ScreenFacts DEF SavedScreen
    <3>3. \A i \in DOMAIN screens[m].results : ~screens[m].results[i]
      BY <3>1
    <3> QED
      BY <3>1, <3>2, <3>3, ResultsLeave
  <2> QED
    BY <1>1, <1>2, <2>3, <2>4, RevealSound
<1> QED
  BY <1>2, <1>4, <1>5, <1>6 DEF BookmarksInv

\* A notification is tapped.
LEMMA TapNotificationInv ==
  ASSUME BookmarksInv, NEW a \in Article, TapNotification(a)
  PROVE  BookmarksInv'
<1> DEFINE same == {k \in DOMAIN stack : stack[k].kind = KindOf(a)}
<1>1. /\ BookmarksTypeInv /\ FromSaved(stack) /\ stack \in Seq(Screen)
      /\ ~doubled => Sound(stack, rows)
  BY DEF BookmarksInv, BookmarksTypeInv
<1>2. CASE same = {}
  <2>1. Push(stack, a, 0) /\ again' \in BOOLEAN
    BY <1>2 DEF TapNotification
  <2> QED
    BY <2>1, OpenInv
<1>3. CASE same # {}
  <2>1. /\ stack' = Reveal(stack, Max(same), rows) /\ again' = FALSE
        /\ UNCHANGED <<rows, doubled>>
    BY <1>3 DEF TapNotification
  <2>2. PICK m : m = Max(same)
    OBVIOUS
  <2>3. m \in 1 .. Len(stack)
    <3>1. Len(stack) \in Nat /\ same \subseteq 1 .. Len(stack)
      BY <1>1
    <3> HIDE DEF same
    <3>2. Max(same) \in same
      BY <1>3, <3>1, MaxIn
    <3> QED
      BY <2>2, <3>1, <3>2
  <2> HIDE DEF same
  <2> QED
    BY <1>1, <2>1, <2>2, <2>3, RevealInv
<1> QED
  BY <1>2, <1>3

\* The bookmark button changes the copy of the screen that is shown.
LEMMA ToggleBookmarkInv ==
  ASSUME BookmarksInv, ToggleBookmark PROVE BookmarksInv'
<1> DEFINE n == Len(stack)
<1>1. /\ BookmarksTypeInv /\ FromSaved(stack) /\ stack \in Seq(Screen)
      /\ ~doubled => Sound(stack, rows)
  BY DEF BookmarksInv, BookmarksTypeInv
<1>2. /\ IsArticle(Top) /\ Top = stack[n] /\ n \in 1 .. n /\ Top \in ArticleScreen
  <2>1. IsArticle(Top) /\ Top = stack[n] /\ n \in 1 .. n /\ Top \in Screen
    BY <1>1, StackFacts DEF ToggleBookmark
  <2> QED
    BY <2>1, ScreenFacts
<1>3. PICK b : b = [stack[n] EXCEPT !.saved = ~@]
  OBVIOUS
<1>4. /\ b \in ArticleScreen /\ b.kind = stack[n].kind /\ b.article = stack[n].article
      /\ b.from = stack[n].from /\ b.gone = stack[n].gone /\ b.copy = stack[n].copy
  BY <1>2, <1>3 DEF ArticleScreen
<1>5. PICK t : t = [stack EXCEPT ![Len(stack)].saved = ~@]
  OBVIOUS
<1>6. t = [stack EXCEPT ![n] = b]
  BY <1>3, <1>5
<1>7. /\ t \in Seq(Screen) /\ Len(t) = n /\ t[n] = b
      /\ \A i \in 1 .. n : i # n => t[i] = stack[i]
  <2>1. b \in Screen
    BY <1>4 DEF Screen
  <2>2. /\ t \in Seq(Screen) /\ Len(t) = n
        /\ \A i \in 1 .. n : t[i] = IF i = n THEN b ELSE stack[i]
    BY <1>1, <1>2, <1>6, <2>1, ExceptSeq
  <2> QED
    BY <1>2, <2>2
<1>8. Alike(t, stack)
  <2>1. b.kind # "saved"
    BY <1>4 DEF ArticleScreen
  <2> SUFFICES ASSUME NEW i \in 1 .. n
               PROVE  /\ t[i].kind = stack[i].kind
                      /\ IsArticle(t[i]) =>
                           /\ t[i].article = stack[i].article /\ t[i].from = stack[i].from
                           /\ ~t[i].gone => ~stack[i].gone /\ t[i].copy = stack[i].copy
                      /\ t[i].kind = "saved" /\ ~t[i].gone /\ ~t[i].behind =>
                           /\ ~stack[i].gone /\ ~stack[i].behind
                           /\ t[i].list = stack[i].list
                           /\ t[i].results = stack[i].results
                           /\ i = n \/ t[i].position = stack[i].position
    BY <1>7 DEF Alike
  <2>2. CASE i # n
    <3>1. t[i] = stack[i]
      BY <1>7, <2>2
    <3> QED
      BY <3>1
  <2>3. CASE i = n
    BY <1>4, <1>7, <2>1, <2>3
  <2> QED
    BY <2>2, <2>3
<1>9. FromSaved(t) /\ (~doubled => Sound(t, rows))
  BY <1>1, <1>7, <1>8, AlikeSound
<1>10. stack' = t /\ again' = FALSE /\ rows' = rows /\ doubled' = doubled
  BY <1>5 DEF ToggleBookmark
<1>11. BookmarksTypeInv'
  <2>1. t # <<>> /\ Last(t) = b
    BY <1>2, <1>7 DEF Last
  <2>2. Top' = b
    BY <1>10, <2>1 DEF Top
  <2>3. Top.kind # "feed" /\ ~Top.gone
    BY <1>1, <1>2 DEF BookmarksTypeInv, IsArticle
  <2>4. ~b.gone
    BY <1>2, <1>4, <2>3
  <2> QED
    BY <1>1, <1>7, <1>9, <1>10, <2>1, <2>2, <2>4 DEF BookmarksTypeInv
<1> QED
  BY <1>9, <1>10, <1>11 DEF BookmarksInv

\* The system's back leaves the screen that is shown.
LEMMA SystemBackInv ==
  ASSUME BookmarksInv, SystemBack PROVE BookmarksInv'
<1>1. /\ BookmarksTypeInv /\ FromSaved(stack) /\ stack \in Seq(Screen)
      /\ ~doubled => Sound(stack, rows)
  BY DEF BookmarksInv, BookmarksTypeInv
<1>2. PICK m : m = Len(stack) - 1
  OBVIOUS
<1>3. m \in 1 .. Len(stack)
  BY <1>1, <1>2 DEF SystemBack
<1>4. /\ stack' = Reveal(stack, m, rows) /\ again' = FALSE
      /\ UNCHANGED <<rows, doubled>>
  BY <1>2 DEF SystemBack
<1> QED
  BY <1>1, <1>3, <1>4, RevealInv

\* A rotation, or the end of the process and the task's restoration.
LEMMA DestroyInv ==
  ASSUME BookmarksInv, NEW kinds \in {{"saved"}, {"saved", "article", "bulletin"}},
         Destroy(kinds)
  PROVE  BookmarksInv'
<1> DEFINE n == Len(stack)
           Left(k) == IF stack[k].kind \in kinds
                        THEN [stack[k] EXCEPT !.gone = TRUE] ELSE stack[k]
<1>1. /\ BookmarksTypeInv /\ FromSaved(stack) /\ stack \in Seq(Screen)
      /\ ~doubled => Sound(stack, rows)
  BY DEF BookmarksInv, BookmarksTypeInv
<1>2. n \in Nat /\ n \in 1 .. n /\ DOMAIN stack = 1 .. n
      /\ \A k \in 1 .. n : stack[k] \in Screen
  BY <1>1, StackFacts
<1>3. PICK t : t = [k \in DOMAIN stack |-> Left(k)]
  OBVIOUS
<1>4. ASSUME NEW k \in 1 .. n
      PROVE  /\ Left(k) \in Screen /\ Left(k).kind = stack[k].kind
             /\ IsArticle(Left(k)) =>
                  /\ Left(k).article = stack[k].article /\ Left(k).from = stack[k].from
                  /\ ~Left(k).gone => ~stack[k].gone /\ Left(k).copy = stack[k].copy
             /\ Left(k).kind = "saved" => Left(k).gone
  <2>1. CASE stack[k].kind = "saved"
    <3>1. stack[k] \in SavedScreen /\ Left(k) = [stack[k] EXCEPT !.gone = TRUE]
      BY <1>2, <2>1, ScreenFacts
    <3>2. Left(k) \in SavedScreen /\ Left(k).kind = "saved" /\ Left(k).gone
      BY <3>1 DEF SavedScreen
    <3> HIDE DEF Left
    <3> QED
      BY <2>1, <3>2 DEF Screen, IsArticle
  <2>2. CASE IsArticle(stack[k])
    <3>1. stack[k] \in ArticleScreen
      BY <1>2, <2>2, ScreenFacts
    <3>2. CASE stack[k].kind \in kinds
      <4>1. Left(k) = [stack[k] EXCEPT !.gone = TRUE]
        BY <3>2
      <4>2. /\ Left(k) \in ArticleScreen /\ Left(k).kind = stack[k].kind /\ Left(k).gone
            /\ Left(k).article = stack[k].article /\ Left(k).from = stack[k].from
            /\ Left(k).kind # "saved"
        BY <3>1, <4>1 DEF ArticleScreen
      <4> HIDE DEF Left
      <4> QED
        BY <4>2 DEF Screen
    <3>3. CASE stack[k].kind \notin kinds
      <4>1. Left(k) = stack[k] /\ stack[k].kind # "saved"
        BY <3>3, <2>2 DEF IsArticle
      <4> HIDE DEF Left
      <4> QED
        BY <1>2, <4>1
    <3> QED
      BY <3>2, <3>3
  <2>3. CASE stack[k].kind = "feed"
    <3>1. Left(k) = stack[k] /\ ~IsArticle(stack[k])
      BY <2>3 DEF IsArticle
    <3> HIDE DEF Left
    <3> QED
      BY <1>2, <2>3, <3>1
  <2> QED
    BY <1>2, <2>1, <2>2, <2>3, ScreenFacts DEF IsArticle
<1> HIDE DEF Left
<1>5. t \in Seq(Screen) /\ Len(t) = n /\ \A k \in 1 .. n : t[k] = Left(k)
  <2>1. t = [k \in 1 .. n |-> Left(k)]
    BY <1>2, <1>3
  <2> QED
    BY <1>2, <1>4, <2>1
<1>6. Alike(t, stack)
  BY <1>4, <1>5 DEF Alike
<1>7. FromSaved(t) /\ (~doubled => Sound(t, rows))
  BY <1>1, <1>5, <1>6, AlikeSound
<1>8. /\ stack' = Reveal(t, n, rows) /\ again' = FALSE /\ UNCHANGED <<rows, doubled>>
  BY <1>3 DEF Destroy, Left
<1> QED
  BY <1>1, <1>2, <1>5, <1>7, <1>8, RevealInv

-----------------------------------------------------------------------------
(* The header's arrow *)

\* What it stores.
LEMMA StoredType ==
  ASSUME rows \in Seq(Article), NEW s \in ArticleScreen
  PROVE  UpdateSavedStatus(s) \in Seq(Article)
<1>1. s.article \in Article
  BY DEF ArticleScreen
<1> QED
  BY <1>1, Deleted, Added DEF UpdateSavedStatus, Add

\* A screen that knows the table leaves one row at most, and no other article's.
LEMMA StoredSound ==
  ASSUME rows \in Seq(Article), IsInjective(rows), NEW s \in ArticleScreen,
         s.copy = AlreadyAdded(rows, s.article)
  PROVE  /\ IsInjective(UpdateSavedStatus(s))
         /\ \A b : b # s.article =>
              AlreadyAdded(UpdateSavedStatus(s), b) = AlreadyAdded(rows, b)
<1>1. s.article \in Article /\ s.saved \in BOOLEAN /\ s.copy \in BOOLEAN
  BY DEF ArticleScreen
<1>2. \A t, b : AlreadyAdded(t, b) \in BOOLEAN
  BY DEF AlreadyAdded
<1>3. CASE s.saved = s.copy
  BY <1>3 DEF UpdateSavedStatus
<1>4. CASE s.saved /\ ~s.copy
  <2>1. UpdateSavedStatus(s) = Append(rows, s.article)
    BY <1>1, <1>4 DEF UpdateSavedStatus, Add
  <2>2. ~AlreadyAdded(rows, s.article)
    BY <1>4
  <2>3. /\ \A b : AlreadyAdded(Append(rows, s.article), b)
                    <=> b = s.article \/ AlreadyAdded(rows, b)
        /\ IsInjective(Append(rows, s.article))
    BY <1>1, <2>2, Added
  <2> QED
    BY <1>2, <2>1, <2>3
<1>5. CASE ~s.saved /\ s.copy
  <2>1. UpdateSavedStatus(s) = DeleteByID(rows, s.article)
    BY <1>1, <1>5 DEF UpdateSavedStatus
  <2>2. PICK q \in 1 .. Len(rows) : rows[q] = s.article
    <3>1. AlreadyAdded(rows, s.article)
      BY <1>5
    <3>2. PICK q \in DOMAIN rows : rows[q] = s.article
      BY <3>1 DEF AlreadyAdded
    <3>3. DOMAIN rows = 1 .. Len(rows)
      OBVIOUS
    <3> QED
      BY <3>2, <3>3
  <2>3. DeleteByID(rows, s.article) = RemoveAt(rows, q)
    BY <2>2, Deleted
  <2>4. /\ IsInjective(RemoveAt(rows, q))
        /\ \A b : AlreadyAdded(RemoveAt(rows, q), b)
                    <=> b # rows[q] /\ AlreadyAdded(rows, b)
    BY Removed
  <2> QED
    BY <1>2, <2>1, <2>2, <2>3, <2>4
<1> QED
  BY <1>1, <1>3, <1>4, <1>5

\* A sequence of results with one more.
LEMMA OneMore ==
  ASSUME NEW results \in Seq(BOOLEAN), NEW change \in BOOLEAN
  PROVE  Append(results, change) \in Seq(BOOLEAN)
OBVIOUS

\* A first result.
LEMMA FirstResult ==
  ASSUME NEW change \in BOOLEAN
  PROVE  /\ Append(<<>>, change) \in Seq(BOOLEAN)
         /\ DOMAIN Append(<<>>, change) = {1}
         /\ Append(<<>>, change)[1] = change
         /\ Append(<<>>, change) = <<change>>
<1>1. <<>> \in Seq(BOOLEAN) /\ Len(<<>>) = 0
  OBVIOUS
<1>2. PICK one : one = Append(<<>>, change)
  OBVIOUS
<1>3. one \in Seq(BOOLEAN) /\ Len(one) = 1 /\ one[1] = change
  BY <1>1, <1>2, AppendProperties
<1>4. <<change>> \in Seq(BOOLEAN) /\ Len(<<change>>) = 1 /\ <<change>>[1] = change
  OBVIOUS
<1>5. DOMAIN one = {1}
  BY <1>3
<1>6. one = <<change>>
  BY <1>3, <1>4, SeqEqual
<1> QED
  BY <1>2, <1>3, <1>5, <1>6

\* What the screens below are after they have been told.
LEMMA ToldType ==
  ASSUME NEW k \in DOMAIN stack, stack[k] \in Screen, NEW s \in ArticleScreen
  PROVE  /\ Told(k, s) \in Screen /\ Told(k, s).kind = stack[k].kind
         /\ stack[k].kind # "saved" => Told(k, s) = stack[k]
         /\ stack[k].kind = "saved" =>
              /\ Told(k, s).list = stack[k].list /\ Told(k, s).gone = stack[k].gone
              /\ Told(k, s).position = stack[k].position
              /\ ~Told(k, s).behind => ~stack[k].behind
              /\ k # s.from => Told(k, s).results = stack[k].results
              /\ k # s.from /\ ~Told(k, s).behind => s.saved = s.copy
              /\ k = s.from =>
                   Told(k, s).results = Append(stack[k].results, s.saved # s.copy)
              /\ k = s.from /\ ~Told(k, s).behind => ~(s.saved /\ ~s.copy)
<1>1. CASE stack[k].kind # "saved"
  BY <1>1 DEF Told
<1>2. CASE stack[k].kind = "saved"
  <2>1. stack[k] \in SavedScreen
    BY <1>2, ScreenFacts
  <2>2. PICK b : b = stack[k]
    OBVIOUS
  <2>3. /\ b \in SavedScreen /\ b.results \in Seq(BOOLEAN) /\ b.behind \in BOOLEAN
        /\ b.kind = "saved"
    BY <2>1, <2>2 DEF SavedScreen
  <2>4. s.saved \in BOOLEAN /\ s.copy \in BOOLEAN
    BY DEF ArticleScreen
  <2>5. PICK change \in BOOLEAN : change = (s.saved # s.copy)
    BY <2>4
  <2>6. CASE k = s.from
    <3>1. PICK told \in Seq(BOOLEAN) : told = Append(b.results, change)
      BY <2>3, <2>5, OneMore
    <3>2. PICK late \in BOOLEAN : late = (b.behind \/ (s.saved /\ ~s.copy))
      BY <2>3, <2>4
    <3>3. Told(k, s) = [b EXCEPT !.results = told, !.behind = late]
      BY <1>2, <2>2, <2>3, <2>5, <2>6, <3>1, <3>2 DEF Told, SavedScreen
    <3>4. PICK u : u = Told(k, s)
      OBVIOUS
    <3>5. /\ u \in SavedScreen /\ u.kind = "saved" /\ u.list = b.list /\ u.gone = b.gone
          /\ u.position = b.position /\ u.results = told /\ u.behind = late
      BY <2>3, <3>3, <3>4 DEF SavedScreen
    <3> QED
      BY <1>2, <2>2, <2>3, <2>5, <2>6, <3>1, <3>2, <3>4, <3>5 DEF Screen
  <2>7. CASE k # s.from
    <3>1. PICK late \in BOOLEAN : late = (b.behind \/ change)
      BY <2>3
    <3>2. Told(k, s) = [b EXCEPT !.behind = late]
      BY <1>2, <2>2, <2>3, <2>5, <2>7, <3>1 DEF Told, SavedScreen
    <3>3. PICK u : u = Told(k, s)
      OBVIOUS
    <3>4. /\ u \in SavedScreen /\ u.kind = "saved" /\ u.list = b.list /\ u.gone = b.gone
          /\ u.position = b.position /\ u.results = b.results /\ u.behind = late
      BY <2>3, <3>2, <3>3 DEF SavedScreen
    <3> QED
      BY <1>2, <2>2, <2>3, <2>5, <2>7, <3>1, <3>3, <3>4 DEF Screen
  <2> QED
    BY <2>6, <2>7
<1> QED
  BY <1>1, <1>2

\* The list of bookmarks that removes the row it remembers is the table again.
LEMMA RowRemoved ==
  ASSUME rows \in Seq(Article), IsInjective(rows), NEW a,
         NEW p \in DOMAIN Reverse(rows), Reverse(rows)[p] = a
  PROVE  UpdateItemRemoved(Reverse(rows), p) = Reverse(DeleteByID(rows, a))
<1> DEFINE n == Len(rows)
<1>1. PICK q : q = n - p + 1
  OBVIOUS
<1>2. p \in 1 .. n /\ Len(Reverse(rows)) = n
  BY DEF Reverse
<1>3. q \in 1 .. n /\ n - q + 1 = p /\ p <= Len(Reverse(rows))
  BY <1>1, <1>2
<1>4. /\ \A i \in 1 .. n : Reverse(rows)[i] = rows[n - i + 1]
      /\ RemoveAt(Reverse(rows), n - q + 1) = Reverse(RemoveAt(rows, q))
  BY <1>3, ReversedRemoved
<1>5. rows[q] = a
  BY <1>1, <1>2, <1>4
<1>6. DeleteByID(rows, a) = RemoveAt(rows, q)
  BY <1>3, <1>5, Deleted
<1> QED
  BY <1>3, <1>4, <1>6 DEF UpdateItemRemoved

\* The header's arrow stores the change and tells the screens below.
LEMMA HeaderBackInv ==
  ASSUME BookmarksInv, HeaderBack PROVE BookmarksInv'
<1> DEFINE n == Len(stack)
<1>1. /\ BookmarksTypeInv /\ FromSaved(stack) /\ stack \in Seq(Screen)
      /\ ~doubled => Sound(stack, rows)
      /\ rows \in Seq(Article) /\ doubled \in BOOLEAN
  BY DEF BookmarksInv, BookmarksTypeInv
<1>2. /\ n \in Nat /\ n \in 1 .. n /\ DOMAIN stack = 1 .. n
      /\ \A k \in 1 .. n : stack[k] \in Screen
  BY <1>1, StackFacts
<1>3. PICK s : s = Top
  OBVIOUS
<1>4. /\ s = stack[n] /\ IsArticle(s) /\ s \in ArticleScreen /\ ~s.gone
  <2>1. s = stack[n] /\ IsArticle(s) /\ s \in Screen
    BY <1>1, <1>3, StackFacts DEF HeaderBack
  <2>2. s.kind # "feed"
    BY <2>1 DEF IsArticle
  <2> QED
    BY <1>1, <1>3, <2>1, <2>2, ScreenFacts DEF BookmarksTypeInv
<1>5. PICK m : m = n - 1
  OBVIOUS
<1>6. m \in 1 .. n /\ m # n /\ m + 1 = n
  <2>1. n > 1
    BY DEF HeaderBack
  <2> HIDE DEF n
  <2> QED
    BY <1>2, <1>5, <2>1
<1>7. PICK table : table = UpdateSavedStatus(s)
  OBVIOUS
<1>8. PICK screens : screens = [k \in DOMAIN stack |-> Told(k, s)]
  OBVIOUS
<1>9. /\ rows' = table /\ stack' = Reveal(screens, m, table)
      /\ again' = FALSE /\ doubled' = doubled
  <2>1. /\ rows' = UpdateSavedStatus(Top)
        /\ stack' = Reveal([k \in DOMAIN stack |-> Told(k, Top)],
                           Len(stack) - 1, rows')
        /\ again' = FALSE /\ doubled' = doubled
    BY DEF HeaderBack
  <2> QED
    BY <1>3, <1>5, <1>7, <1>8, <2>1
<1>10. table \in Seq(Article)
  BY <1>1, <1>4, <1>7, StoredType
<1>11. /\ screens \in Seq(Screen) /\ Len(screens) = n /\ DOMAIN screens = 1 .. n
       /\ \A k \in 1 .. n : screens[k] = Told(k, s)
  <2>1. \A k \in 1 .. n : Told(k, s) \in Screen
    BY <1>2, <1>4, ToldType
  <2>2. screens = [k \in 1 .. n |-> Told(k, s)]
    BY <1>2, <1>8
  <2> QED
    BY <1>2, <2>1, <2>2
<1>12. ASSUME NEW k \in 1 .. n
       PROVE  /\ screens[k].kind = stack[k].kind
              /\ IsArticle(screens[k]) <=> IsArticle(stack[k])
              /\ IsArticle(screens[k]) => screens[k] = stack[k]
              /\ stack[k].kind = "saved" =>
                   /\ screens[k].list = stack[k].list /\ screens[k].gone = stack[k].gone
                   /\ screens[k].position = stack[k].position
                   /\ ~screens[k].behind => ~stack[k].behind
                   /\ k # s.from => screens[k].results = stack[k].results
                   /\ k # s.from /\ ~screens[k].behind => s.saved = s.copy
                   /\ k = s.from => screens[k].results
                                      = Append(stack[k].results, s.saved # s.copy)
                   /\ k = s.from /\ ~screens[k].behind => ~(s.saved /\ ~s.copy)
  BY <1>2, <1>4, <1>11, ToldType DEF IsArticle
<1>13. FromSaved(screens)
  <2> SUFFICES ASSUME NEW k \in 1 .. n, IsArticle(screens[k]), screens[k].from # 0
               PROVE  screens[k].from < k /\ screens[screens[k].from].kind = "saved"
    BY <1>11 DEF FromSaved
  <2>1. /\ screens[k] = stack[k] /\ stack[k].from < k
        /\ stack[stack[k].from].kind = "saved"
    BY <1>1, <1>2, <1>12 DEF FromSaved
  <2>2. stack[k].from \in Nat
    BY <1>2, <2>1, ScreenFacts DEF ArticleScreen
  <2>3. stack[k].from \in 1 .. n
    BY <2>1, <2>2
  <2> QED
    BY <1>12, <2>1, <2>3
<1>14. PICK t : t = Reveal(screens, m, table)
  OBVIOUS
<1>15. BookmarksTypeInv'
  <2>1. m \in 1 .. Len(screens)
    BY <1>6, <1>11
  <2>2. /\ t \in Seq(Screen) /\ Len(t) = m /\ FromSaved(t)
        /\ t[m].kind # "feed" => ~t[m].gone
    BY <1>10, <1>11, <1>13, <1>14, <2>1, RevealType
  <2>3. t # <<>> /\ Top' = t[m] /\ stack' = t
    <3>1. t # <<>> /\ Last(t) = t[m]
      BY <1>6, <2>2 DEF Last
    <3> QED
      BY <1>9, <1>14, <3>1 DEF Top
  <2> QED
    BY <1>1, <1>9, <1>10, <2>2, <2>3 DEF BookmarksTypeInv
<1>16. ASSUME ~doubled PROVE Sound(t, table)
  <2>1. IsInjective(rows) /\ OpenOnce(stack) /\ Current(stack, rows)
        /\ \A k \in 1 .. n : Follows(stack, rows, k)
    BY <1>1, <1>2, <1>16 DEF Sound
  <2>2. s.copy = AlreadyAdded(rows, s.article)
    BY <1>2, <1>4, <2>1 DEF Current
  <2>3. /\ IsInjective(table)
        /\ \A b : b # s.article => AlreadyAdded(table, b) = AlreadyAdded(rows, b)
    BY <1>1, <1>4, <1>7, <2>1, <2>2, StoredSound
  <2>4. OpenOnce(screens)
    BY <1>2, <1>11, <1>12, <2>1 DEF OpenOnce
  <2>5. ASSUME NEW k \in 1 .. m, IsArticle(screens[k]), ~screens[k].gone
        PROVE  screens[k].copy = AlreadyAdded(table, screens[k].article)
    <3>1. k \in 1 .. n /\ k # n
      BY <1>6
    <3>2. screens[k] = stack[k] /\ IsArticle(stack[k])
      BY <1>12, <2>5, <3>1
    <3>3. stack[k].article # s.article
      BY <1>2, <1>4, <2>1, <3>1, <3>2 DEF OpenOnce
    <3>4. stack[k].copy = AlreadyAdded(rows, stack[k].article)
      BY <1>2, <2>1, <2>5, <3>1, <3>2 DEF Current
    <3> QED
      BY <2>3, <3>2, <3>3, <3>4
  <2>6. ASSUME NEW k \in 1 .. n, stack[k].kind = "saved", ~stack[k].gone, ~stack[k].behind
        PROVE  /\ stack[k].results = <<>> /\ stack[k].list = Reverse(rows)
               /\ \A j \in 1 .. n :
                    IsArticle(stack[j]) /\ stack[j].from = k =>
                      /\ j = k + 1 /\ stack[k].position \in DOMAIN stack[k].list
                      /\ stack[k].list[stack[k].position] = stack[j].article
               /\ s.from = k =>
                    /\ k = m /\ stack[k].position \in DOMAIN stack[k].list
                    /\ stack[k].list[stack[k].position] = s.article
    <3>1. /\ stack[k].results = <<>> /\ stack[k].list = Reverse(rows)
          /\ \A j \in 1 .. n :
               IsArticle(stack[j]) /\ stack[j].from = k =>
                 /\ j = k + 1 /\ stack[k].position \in DOMAIN stack[k].list
                 /\ stack[k].list[stack[k].position] = stack[j].article
      BY <1>2, <2>1, <2>6 DEF Follows
    <3>2. ASSUME s.from = k
          PROVE  /\ n = k + 1 /\ stack[k].position \in DOMAIN stack[k].list
                 /\ stack[k].list[stack[k].position] = s.article
      BY <1>2, <1>4, <3>1, <3>2
    <3>3. n = k + 1 => k = m
      BY <1>6
    <3> QED
      BY <3>1, <3>2, <3>3
  <2>7. ASSUME s.saved = s.copy PROVE table = rows
    BY <1>7, <2>7 DEF UpdateSavedStatus
  <2>8. ASSUME NEW k \in 1 .. m - 1 PROVE Follows(screens, table, k)
    <3>1. k \in 1 .. n /\ k # m
      BY <1>6
    <3> SUFFICES ASSUME screens[k].kind = "saved", ~screens[k].gone, ~screens[k].behind
                 PROVE  /\ screens[k].results = <<>> /\ screens[k].list = Reverse(table)
                        /\ \A j \in 1 .. n :
                             IsArticle(screens[j]) /\ screens[j].from = k =>
                               /\ j = k + 1 /\ screens[k].position \in DOMAIN screens[k].list
                               /\ screens[k].list[screens[k].position] = screens[j].article
      BY <1>11 DEF Follows
    <3>2. stack[k].kind = "saved" /\ ~stack[k].gone /\ ~stack[k].behind
      BY <1>12, <3>1
    <3>3. k # s.from
      BY <2>6, <3>1, <3>2
    <3>4. screens[k].results = stack[k].results /\ s.saved = s.copy
          /\ screens[k].list = stack[k].list /\ screens[k].position = stack[k].position
      BY <1>12, <3>1, <3>2, <3>3
    <3>5. table = rows
      BY <2>7, <3>4
    <3> QED
      BY <1>12, <2>6, <3>1, <3>2, <3>4, <3>5
  <2>9. ASSUME screens[m].kind = "saved", ~screens[m].gone, ~screens[m].behind
        PROVE  AfterResults(screens[m].list, screens[m].position, screens[m].results)
                 = Reverse(table)
    <3>1. /\ stack[m].kind = "saved" /\ ~stack[m].gone /\ ~stack[m].behind
          /\ screens[m].list = stack[m].list /\ screens[m].position = stack[m].position
      BY <1>6, <1>12, <2>9
    <3>2. /\ stack[m].results = <<>> /\ stack[m].list = Reverse(rows)
          /\ s.from = m => /\ stack[m].position \in DOMAIN stack[m].list
                           /\ stack[m].list[stack[m].position] = s.article
      BY <1>6, <2>6, <3>1
    <3>3. stack[m] \in SavedScreen
      BY <1>2, <1>6, <3>1, ScreenFacts
    <3>4. stack[m].list \in Seq(Article) /\ stack[m].position \in Nat \ {0}
      BY <3>3 DEF SavedScreen
    <3>5. s.saved \in BOOLEAN /\ s.copy \in BOOLEAN
      BY <1>4 DEF ArticleScreen
    <3>6. CASE s.saved = s.copy
      <4>1. PICK change \in BOOLEAN : change = (s.saved # s.copy)
        BY <3>5
      <4>2. ~change
        BY <3>6, <4>1
      <4>3. \/ screens[m].results = <<>>
            \/ screens[m].results = Append(<<>>, change)
        BY <1>6, <1>12, <3>1, <3>2, <4>1
      <4>4. /\ screens[m].results \in Seq(BOOLEAN)
            /\ \A i \in DOMAIN screens[m].results : ~screens[m].results[i]
        <5>1. CASE screens[m].results = <<>>
          <6>1. <<>> \in Seq(BOOLEAN) /\ DOMAIN <<>> = {}
            OBVIOUS
          <6> QED
            BY <5>1, <6>1
        <5>2. CASE screens[m].results = Append(<<>>, change)
          BY <4>1, <4>2, <5>2, FirstResult
        <5> QED
          BY <4>3, <5>1, <5>2
      <4>5. AfterResults(stack[m].list, stack[m].position, screens[m].results)
              = stack[m].list
        BY <3>4, <4>4, ResultsLeave
      <4> QED
        BY <2>7, <3>1, <3>2, <3>6, <4>5
    <3>7. CASE s.saved # s.copy
      <4>1. s.from = m /\ ~s.saved /\ s.copy
        BY <1>6, <1>12, <2>9, <3>1, <3>5, <3>7
      <4>2. screens[m].results = <<TRUE>>
        <5>1. PICK change \in BOOLEAN : change = (s.saved # s.copy)
          BY <3>5
        <5>2. screens[m].results = Append(<<>>, change)
          BY <1>6, <1>12, <3>1, <3>2, <4>1, <5>1
        <5>3. change
          BY <3>7, <5>1
        <5>4. change = TRUE
          BY <5>3
        <5> QED
          BY <5>2, <5>4, FirstResult
      <4>3. <<TRUE>> \in Seq(BOOLEAN)
        OBVIOUS
      <4>4. AfterResults(stack[m].list, stack[m].position, <<TRUE>>)
              = UpdateItemRemoved(stack[m].list, stack[m].position)
        BY <3>4, <4>3, ResultsLeave
      <4>5. UpdateItemRemoved(Reverse(rows), stack[m].position)
              = Reverse(DeleteByID(rows, s.article))
        BY <1>1, <2>1, <3>2, <4>1, RowRemoved
      <4>6. table = DeleteByID(rows, s.article)
        BY <1>7, <3>5, <4>1 DEF UpdateSavedStatus
      <4> QED
        BY <3>1, <3>2, <4>2, <4>4, <4>5, <4>6
    <3> QED
      BY <3>6, <3>7
  <2>10. m \in 1 .. Len(screens)
    BY <1>6, <1>11
  <2> QED
    BY <1>10, <1>11, <1>13, <1>14, <2>3, <2>4, <2>5, <2>8, <2>9, <2>10, RevealSound
<1> QED
  BY <1>9, <1>14, <1>15, <1>16 DEF BookmarksInv

-----------------------------------------------------------------------------
(* The theorems *)

\* The invariant is inductive.
LEMMA BookmarksInitInv == BookmarksInit => BookmarksInv
<1> SUFFICES ASSUME BookmarksInit PROVE BookmarksInv
  OBVIOUS
<1>1. /\ rows = <<>> /\ stack = <<Feed>> /\ again = FALSE /\ doubled = FALSE
  BY DEF BookmarksInit
<1>2. Feed \in Screen /\ Feed.kind = "feed"
  BY DEF Screen, Feed
<1>3. /\ stack \in Seq(Screen) /\ stack # <<>> /\ DOMAIN stack = {1} /\ stack[1] = Feed
      /\ Last(stack) = Feed
  BY <1>1, <1>2 DEF Last
<1>4. ~IsArticle(Feed) /\ Feed.kind # "saved"
  BY <1>2 DEF IsArticle
<1>5. /\ rows \in Seq(Article) /\ IsInjective(rows)
      /\ again \in BOOLEAN /\ doubled \in BOOLEAN
  <2>1. <<>> \in Seq(Article) /\ DOMAIN <<>> = {}
    OBVIOUS
  <2> QED
    BY <1>1, <2>1 DEF IsInjective
<1>6. FromSaved(stack) /\ Top.kind = "feed"
  BY <1>2, <1>3, <1>4 DEF FromSaved, Top
<1>7. BookmarksTypeInv
  BY <1>3, <1>5, <1>6 DEF BookmarksTypeInv
<1>8. Sound(stack, rows)
  BY <1>3, <1>4, <1>5 DEF Sound, OpenOnce, Current, Follows
<1> QED
  BY <1>7, <1>8 DEF BookmarksInv

LEMMA BookmarksNextInv == BookmarksInv /\ [BookmarksNext]_bookmarkVars => BookmarksInv'
<1> SUFFICES ASSUME BookmarksInv, [BookmarksNext]_bookmarkVars PROVE BookmarksInv'
  OBVIOUS
<1>1. CASE \E screen \in {Feed, NewSaved(rows)} : GoTo(screen)
  BY <1>1, GoToInv
<1>2. CASE \E a \in Article : ClickFeed(a) \/ OpenFound(a) \/ TapNotification(a)
  <2>1. PICK a \in Article : ClickFeed(a) \/ OpenFound(a) \/ TapNotification(a)
    BY <1>2
  <2>2. ASSUME ClickFeed(a) \/ OpenFound(a)
        PROVE  Push(stack, a, 0) /\ again' \in BOOLEAN
    <3>1. again \in BOOLEAN
      BY DEF BookmarksInv, BookmarksTypeInv
    <3> QED
      BY <2>2, <3>1 DEF ClickFeed, OpenFound
  <2> QED
    BY <2>1, <2>2, OpenInv, TapNotificationInv
<1>3. CASE \E k \in DOMAIN stack :
             /\ stack[k].kind = "saved"
             /\ \E position \in DOMAIN stack[k].list : ClickRow(k, position)
  BY <1>3, ClickRowInv
<1>4. CASE ToggleBookmark
  BY <1>4, ToggleBookmarkInv
<1>5. CASE HeaderBack
  BY <1>5, HeaderBackInv
<1>6. CASE SystemBack
  BY <1>6, SystemBackInv
<1>7. CASE Destroy({"saved"}) \/ Destroy({"saved", "article", "bulletin"})
  BY <1>7, DestroyInv
<1>8. CASE UNCHANGED bookmarkVars
  BY <1>8 DEF bookmarkVars, BookmarksInv, BookmarksTypeInv, Top
<1> QED
  BY <1>1, <1>2, <1>3, <1>4, <1>5, <1>6, <1>7, <1>8 DEF BookmarksNext

LEMMA BookmarksInvAlways == BookmarksSpec => []BookmarksInv
BY BookmarksInitInv, BookmarksNextInv, PTL DEF BookmarksSpec

\* Every screen of the task is well formed, and a result is waited for by a list
\* of bookmarks that lies below it, whatever is opened, left, destroyed and
\* created anew.
THEOREM BookmarksTypeCorrect == BookmarksSpec => []BookmarksTypeOK
<1>1. BookmarksInv => BookmarksTypeOK
  <2> SUFFICES ASSUME BookmarksInv PROVE BookmarksTypeOK
    OBVIOUS
  <2>1. BookmarksTypeInv
    BY DEF BookmarksInv
  <2>2. rows \in Seq(Article) /\ {again, doubled} \subseteq BOOLEAN
    BY <2>1 DEF BookmarksTypeInv
  <2>3. ASSUME NEW k \in DOMAIN stack, NEW s, s = stack[k]
        PROVE  \/ s = Feed
               \/ /\ s.kind = "saved"
                  /\ s.list \in Seq(Article) /\ s.position \in Nat \ {0}
                  /\ s.results \in Seq(BOOLEAN) /\ {s.gone, s.behind} \subseteq BOOLEAN
               \/ /\ IsArticle(s)
                  /\ s.article \in IF s.kind = "article" THEN News ELSE Bulletin
                  /\ {s.gone, s.saved, s.copy} \subseteq BOOLEAN
                  /\ s.from # 0 => s.from < k /\ stack[s.from].kind = "saved"
    <3>1. s \in Screen /\ FromSaved(stack)
      BY <2>1, <2>3, StackFacts DEF BookmarksTypeInv
    <3>2. CASE s = Feed
      BY <3>2
    <3>3. CASE s \in SavedScreen
      BY <3>3 DEF SavedScreen
    <3>4. CASE s \in ArticleScreen
      <4>1. IsArticle(s)
        BY <3>4 DEF ArticleScreen, IsArticle
      <4>2. s.article \in IF s.kind = "article" THEN News ELSE Bulletin
        BY <3>4 DEF ArticleScreen, KindOf, Article
      <4>3. s.from # 0 => s.from < k /\ stack[s.from].kind = "saved"
        BY <2>3, <3>1, <4>1 DEF FromSaved
      <4> QED
        BY <3>4, <4>1, <4>2, <4>3 DEF ArticleScreen
    <3> QED
      BY <3>1, <3>2, <3>3, <3>4 DEF Screen
  <2> QED
    BY <2>2, <2>3 DEF BookmarksTypeOK
<1> QED
  BY <1>1, BookmarksInvAlways, PTL

\* No article is saved twice, although the table has no UNIQUE and every article
\* screen stores what it believed when it was created, unless an article was ever
\* open twice.
THEOREM AlwaysOneBookmark == BookmarksSpec => []OneBookmark
<1>1. BookmarksInv => OneBookmark
  BY DEF BookmarksInv, OneBookmark, Sound
<1> QED
  BY <1>1, BookmarksInvAlways, PTL

\* What an article screen believes to be stored is what the table says, through
\* everything that is opened over it and stored there.
THEOREM CopyAlwaysCurrent == BookmarksSpec => []CopyIsCurrent
<1>1. BookmarksInv => CopyIsCurrent
  BY DEF BookmarksInv, CopyIsCurrent, Sound, Current
<1> QED
  BY <1>1, BookmarksInvAlways, PTL

\* A list of bookmarks that only ever removes the row at a remembered position is
\* the table, for as long as nothing has been kept from it.
THEOREM ListAlwaysTable == BookmarksSpec => []ListIsTable
<1>1. BookmarksInv => ListIsTable
  <2> SUFFICES ASSUME BookmarksInv, Top.kind = "saved", ~doubled, ~Top.behind
               PROVE  Top.list = Reverse(rows)
    BY DEF ListIsTable
  <2>1. BookmarksTypeInv /\ Sound(stack, rows)
    BY DEF BookmarksInv
  <2>2. Top = stack[Len(stack)] /\ Len(stack) \in DOMAIN stack /\ ~Top.gone
    BY <2>1, StackFacts DEF BookmarksTypeInv
  <2> QED
    BY <2>1, <2>2 DEF Sound, Follows
<1> QED
  BY <1>1, BookmarksInvAlways, PTL
=============================================================================
