-------------------------- MODULE BulletinReadProofs --------------------------
(***************************************************************************)
(* Proofs about Android's bulletin, for every finite set of articles, any  *)
(* types and titles, and any number of instances and snapshots: what the   *)
(* selectors' filter leaves; that every state is well formed; that the     *)
(* rows follow the selectors; that the table ends as the server's list;    *)
(* that a mark made while no update waits is kept; where marks come from;  *)
(* and that an unread article has put the dot on every page.               *)
(***************************************************************************)
EXTENDS BulletinRead, SequenceTheorems, FiniteSetTheorems,
        WellFoundedInduction, TLAPS

-----------------------------------------------------------------------------
(* The filter *)

\* The first of some articles.
LEMMA FirstArticle ==
  ASSUME NEW S \in SUBSET Nat, S # {}
  PROVE  \E a \in S : \A b \in S : a <= b
<1>1. PICK a \in S : \A b \in S : ~ (<<b, a>> \in OpToRel(<, Nat))
  BY NatLessThanWellFounded, WFMin
<1>2. ASSUME NEW b \in S PROVE a <= b
  <2>1. ~ (b < a)
    BY <1>1 DEF OpToRel
  <2> QED
    BY <2>1
<1> QED
  BY <1>2

\* An article with a title is in the rows exactly when a wanted one has that
\* title: nothing of an earlier filter stays and no title is left out, from
\* whatever rows filterItems starts.
THEOREM FilterShowsTheTitles ==
  ASSUME NEW ids \in SUBSET Article, NEW old \in SUBSET Article, NEW active
  PROVE  Titles(FilterItems(ids, old, active)) = Titles(Filtered(ids, active))
<1> DEFINE wanted == Filtered(ids, active)
           kept == Kept(old, wanted)
<1>1. wanted \in SUBSET Nat
  BY ArticleAssumption DEF Filtered
<1>2. FilterItems(ids, old, active) = kept \cup Added(kept, wanted)
  BY DEF FilterItems
<1> HIDE DEF wanted
<1>3. ASSUME NEW a \in wanted
      PROVE  TitleOf[a] \in Titles(kept \cup Added(kept, wanted))
  <2>1. CASE TitleOf[a] \in Titles(kept)
    BY <2>1 DEF Titles
  <2>2. CASE TitleOf[a] \notin Titles(kept)
    <3> DEFINE same == {b \in wanted : TitleOf[b] = TitleOf[a]}
    <3>1. PICK b \in same : \A c \in same : b <= c
      <4>1. same \in SUBSET Nat /\ a \in same
        BY <1>1
      <4> QED
        BY <4>1, FirstArticle
    <3>2. b \in Added(kept, wanted)
      BY <2>2, <3>1 DEF Added
    <3> QED
      BY <3>1, <3>2 DEF Titles
  <2> QED
    BY <2>1, <2>2
<1>4. Titles(kept \cup Added(kept, wanted)) \subseteq Titles(wanted)
  BY DEF Titles, Kept, Added
<1> QED
  BY <1>2, <1>3, <1>4 DEF Titles, wanted

\* With titles that differ and rows of the same list, the rows become exactly the
\* wanted articles.
THEOREM FilterIsExact ==
  ASSUME NEW ids \in SUBSET Article, NEW old \in SUBSET ids, NEW active,
         \A a, b \in ids : TitleOf[a] = TitleOf[b] => a = b
  PROVE  FilterItems(ids, old, active) = Filtered(ids, active)
<1> DEFINE left == FilterItems(ids, old, active)
<1>1. Filtered(ids, active) \subseteq ids
  BY DEF Filtered
<1>2. left \subseteq ids
  BY <1>1 DEF FilterItems, Kept, Added
<1>3. Titles(left) = Titles(Filtered(ids, active))
  BY FilterShowsTheTitles
<1> HIDE DEF left
<1>4. ASSUME NEW a \in ids PROVE a \in left <=> a \in Filtered(ids, active)
  BY <1>1, <1>2, <1>3 DEF Titles
<1> QED
  BY <1>1, <1>2, <1>4 DEF left

-----------------------------------------------------------------------------
(* Objects: what is parsed is a list of articles with marks on them only *)

Marked(items) == items \in Articles /\ items.read \subseteq items.ids

Sound(objs) ==
  /\ objs \in [Screen -> Seq(Articles)]
  /\ \A s \in Screen : \A g \in DOMAIN objs[s] : Marked(objs[s][g])

\* What a message refers to is there: the objects of an update, the article of a
\* click, instances without a gap.
Batch(S, n) == \E i, j \in Int : S = i .. j /\ S \subseteq 1 .. n

MessageOK(m, objs, n) ==
  /\ m \in Message
  /\ m.kind \in {"update", "click"} => m.gen \in DOMAIN objs[m.screen]
  /\ m.kind = "click" => m.id \in objs[m.screen][m.gen].ids
  /\ m.kind = "data" => Batch(m.for, n)

QueueOK(q, objs, n) ==
  q \in Seq(Message) /\ \A k \in DOMAIN q : MessageOK(q[k], objs, n)

\* The garbage collector takes no list away, and empties only what nothing uses.
LEMMA CollectKeeps ==
  ASSUME NEW objs, Sound(objs), NEW q, NEW v, NEW st
  PROVE  /\ Sound(Collect(objs, q, v, st))
         /\ \A s \in Screen : Len(Collect(objs, q, v, st)[s]) = Len(objs[s])
         /\ \A s \in Screen : \A g \in 1 .. Len(objs[s]) :
              \/ \E k \in DOMAIN q : /\ q[k].kind \in {"update", "click"}
                                     /\ q[k].screen = s /\ q[k].gen = g
              \/ \E k \in DOMAIN st : st[k] = s /\ g = Len(objs[s])
              \/ st # <<>> /\ s = st[Len(st)] /\ g = v.gen
              => Collect(objs, q, v, st)[s][g] = objs[s][g]
         /\ \A s \in Screen : \A g \in 1 .. Len(objs[s]) :
              Collect(objs, q, v, st)[s][g] \in {objs[s][g], Nothing}
<1> DEFINE left == Collect(objs, q, v, st)
<1>1. Nothing \in Articles /\ Marked(Nothing)
  BY DEF Nothing, Articles, Marked
<1>2. \A s \in Screen : /\ objs[s] \in Seq(Articles) /\ Len(objs[s]) \in Nat
                        /\ DOMAIN objs[s] = 1 .. Len(objs[s])
                        /\ \A g \in 1 .. Len(objs[s]) : Marked(objs[s][g])
  BY DEF Sound
<1>3. \A s \in Screen :
        /\ DOMAIN left[s] = DOMAIN objs[s]
        /\ \A g \in DOMAIN objs[s] : left[s][g] \in {objs[s][g], Nothing}
  BY DEF Collect
<1>4. \A s \in Screen : \A g \in 1 .. Len(objs[s]) :
              \/ \E k \in DOMAIN q : /\ q[k].kind \in {"update", "click"}
                                     /\ q[k].screen = s /\ q[k].gen = g
              \/ \E k \in DOMAIN st : st[k] = s /\ g = Len(objs[s])
              \/ st # <<>> /\ s = st[Len(st)] /\ g = v.gen
              => left[s][g] = objs[s][g]
  BY <1>2 DEF Collect
<1>5. \A s \in Screen : left[s] = [g \in 1 .. Len(objs[s]) |-> left[s][g]]
  BY <1>2 DEF Collect
<1>6. left = [s \in Screen |-> left[s]]
  BY DEF Collect
<1> HIDE DEF left
<1>7. ASSUME NEW s \in Screen
      PROVE  left[s] \in Seq(Articles) /\ Len(left[s]) = Len(objs[s])
  <2>1. \A g \in 1 .. Len(objs[s]) : left[s][g] \in Articles
    BY <1>1, <1>2, <1>3 DEF Marked
  <2>2. left[s] \in [1 .. Len(objs[s]) -> Articles]
    BY <1>5, <2>1
  <2> QED
    BY <1>2, <2>2
<1>8. left \in [Screen -> Seq(Articles)]
  BY <1>6, <1>7
<1>9. \A s \in Screen : \A g \in DOMAIN left[s] : Marked(left[s][g])
  BY <1>1, <1>2, <1>3
<1>10. Sound(left)
  BY <1>8, <1>9 DEF Sound
<1> QED
  BY <1>2, <1>3, <1>4, <1>7, <1>10 DEF left

\* What instances, views, rows and messages refer to, in the objects objs: with
\* the queue q, the views v, the instances st, the rows l, and n instances opened.
LiveIn(st) == {st[k] : k \in DOMAIN st}

StackOK(st, n) ==
  /\ st \in Seq(Screen)
  /\ \A k \in DOMAIN st : st[k] <= n
  /\ \A j, k \in DOMAIN st : st[j] = st[k] => j = k

ViewsOK(v, objs, st) ==
  /\ v \in [gen : Nat, ids : SUBSET Article]
  /\ \/ v.ids = {}
     \/ /\ st # <<>> /\ v.gen \in DOMAIN objs[st[Len(st)]]
        /\ v.ids \subseteq objs[st[Len(st)]][v.gen].ids

RowsOK(l, objs, st) ==
  /\ l \in [Screen -> SUBSET Article]
  /\ \A s \in Screen : \/ l[s] = {}
                       \/ /\ s \in LiveIn(st) /\ Len(objs[s]) # 0
                          /\ l[s] \subseteq objs[s][Len(objs[s])].ids

Shape(objs, q, v, st, l, n) ==
  /\ Sound(objs) /\ \A s \in Screen : s > n => objs[s] = <<>>
  /\ StackOK(st, n)
  /\ QueueOK(q, objs, n)
  /\ ViewsOK(v, objs, st)
  /\ RowsOK(l, objs, st)

\* Objects that get marks, and no other articles, have the same shape.
LEMMA SameArticles ==
  ASSUME NEW objs, NEW q, NEW v, NEW st, NEW l, NEW n,
         Shape(objs, q, v, st, l, n), NEW more, Sound(more),
         \A s \in Screen : Len(more[s]) = Len(objs[s]),
         \A s \in Screen : \A g \in 1 .. Len(objs[s]) :
           more[s][g].ids = objs[s][g].ids
  PROVE  Shape(more, q, v, st, l, n)
<1>1. \A s \in Screen : /\ DOMAIN objs[s] = 1 .. Len(objs[s])
                        /\ DOMAIN more[s] = 1 .. Len(objs[s])
                        /\ Len(objs[s]) \in Nat /\ more[s] \in Seq(Articles)
  BY DEF Shape, Sound
<1>2. \A s \in Screen : s > n => more[s] = <<>>
  <2>1. \A s \in Screen : s > n => Len(more[s]) = 0
    BY DEF Shape
  <2> QED
    BY <2>1, <1>1, EmptySeq
<1>3. QueueOK(q, more, n)
  <2>1. QueueOK(q, objs, n)
    BY DEF Shape
  <2>2. ASSUME NEW k \in DOMAIN q PROVE MessageOK(q[k], more, n)
    <3>1. MessageOK(q[k], objs, n) /\ q[k] \in Message
      BY <2>1 DEF QueueOK, MessageOK
    <3>2. q[k].kind \in {"update", "click"} => q[k].screen \in Screen
      BY <3>1 DEF Message, Result
    <3> QED
      BY <1>1, <3>1, <3>2 DEF MessageOK
  <2> QED
    BY <2>1, <2>2 DEF QueueOK
<1>4. ViewsOK(v, more, st)
  <2>1. ViewsOK(v, objs, st) /\ st \in Seq(Screen)
    BY DEF Shape, StackOK
  <2>2. st # <<>> => st[Len(st)] \in Screen
    BY <2>1
  <2> QED
    BY <1>1, <2>1, <2>2 DEF ViewsOK
<1>5. RowsOK(l, more, st)
  <2>1. RowsOK(l, objs, st)
    BY DEF Shape
  <2>2. \A s \in Screen : Len(objs[s]) # 0 => Len(objs[s]) \in 1 .. Len(objs[s])
    BY <1>1
  <2> QED
    BY <1>1, <2>1, <2>2 DEF RowsOK
<1> QED
  BY <1>2, <1>3, <1>4, <1>5 DEF Shape

\* Nothing that is referred to is collected.
LEMMA CollectShape ==
  ASSUME NEW objs, NEW q, NEW v, NEW st, NEW l, NEW n,
         Shape(objs, q, v, st, l, n)
  PROVE  Shape(Collect(objs, q, v, st), q, v, st, l, n)
<1> DEFINE left == Collect(objs, q, v, st)
<1>1. Sound(objs)
  BY DEF Shape
<1>2. /\ Sound(left)
      /\ \A s \in Screen : Len(left[s]) = Len(objs[s])
      /\ \A s \in Screen : \A g \in 1 .. Len(objs[s]) :
           \/ \E k \in DOMAIN q : /\ q[k].kind \in {"update", "click"}
                                  /\ q[k].screen = s /\ q[k].gen = g
           \/ \E k \in DOMAIN st : st[k] = s /\ g = Len(objs[s])
           \/ st # <<>> /\ s = st[Len(st)] /\ g = v.gen
           => left[s][g] = objs[s][g]
  BY <1>1, CollectKeeps
<1> HIDE DEF left
<1>3. \A s \in Screen : /\ DOMAIN objs[s] = 1 .. Len(objs[s])
                        /\ DOMAIN left[s] = 1 .. Len(objs[s])
                        /\ Len(objs[s]) \in Nat /\ left[s] \in Seq(Articles)
  BY <1>1, <1>2 DEF Sound
<1>4. \A s \in Screen : s > n => left[s] = <<>>
  <2>1. \A s \in Screen : s > n => Len(left[s]) = 0
    BY <1>2 DEF Shape
  <2> QED
    BY <2>1, <1>3, EmptySeq
<1>5. QueueOK(q, left, n)
  <2>1. QueueOK(q, objs, n)
    BY DEF Shape
  <2>2. ASSUME NEW k \in DOMAIN q PROVE MessageOK(q[k], left, n)
    <3>1. MessageOK(q[k], objs, n) /\ q[k] \in Message
      BY <2>1 DEF QueueOK, MessageOK
    <3>2. q[k].kind \in {"update", "click"} => q[k].screen \in Screen
      BY <3>1 DEF Message, Result
    <3>3. q[k].kind = "click" =>
            left[q[k].screen][q[k].gen] = objs[q[k].screen][q[k].gen]
      BY <1>2, <1>3, <3>1, <3>2 DEF MessageOK
    <3> QED
      BY <1>3, <3>1, <3>2, <3>3 DEF MessageOK
  <2> QED
    BY <2>1, <2>2 DEF QueueOK
<1>6. ViewsOK(v, left, st)
  <2>1. ViewsOK(v, objs, st) /\ st \in Seq(Screen)
    BY DEF Shape, StackOK
  <2>2. st # <<>> => st[Len(st)] \in Screen
    BY <2>1
  <2> QED
    BY <1>2, <1>3, <2>1, <2>2 DEF ViewsOK
<1>7. RowsOK(l, left, st)
  <2>1. RowsOK(l, objs, st)
    BY DEF Shape
  <2>2. \A s \in Screen : Len(objs[s]) # 0 => Len(objs[s]) \in 1 .. Len(objs[s])
    BY <1>3
  <2>3. \A s \in LiveIn(st) : \E k \in DOMAIN st : st[k] = s
    BY DEF LiveIn
  <2> QED
    BY <1>2, <1>3, <2>1, <2>2, <2>3 DEF RowsOK
<1> QED
  BY <1>2, <1>4, <1>5, <1>6, <1>7 DEF Shape, left

-----------------------------------------------------------------------------
(* The queue *)

LEMMA QueueTail ==
  ASSUME NEW q, NEW objs, NEW n, QueueOK(q, objs, n), q # <<>>
  PROVE  /\ MessageOK(Head(q), objs, n)
         /\ QueueOK(Tail(q), objs, n)
         /\ Len(q) \in Nat /\ Len(Tail(q)) = Len(q) - 1
         /\ \A k \in DOMAIN Tail(q) : k + 1 \in DOMAIN q /\ Tail(q)[k] = q[k + 1]
<1>1. q \in Seq(Message) /\ \A k \in DOMAIN q : MessageOK(q[k], objs, n)
  BY DEF QueueOK
<1>2. /\ Tail(q) \in Seq(Message) /\ Head(q) = q[1] /\ 1 \in DOMAIN q
      /\ \A k \in DOMAIN Tail(q) : k + 1 \in DOMAIN q /\ Tail(q)[k] = q[k + 1]
  BY <1>1
<1> QED
  BY <1>1, <1>2 DEF QueueOK

LEMMA QueueAppend ==
  ASSUME NEW q, NEW objs, NEW n, QueueOK(q, objs, n),
         NEW m, MessageOK(m, objs, n)
  PROVE  QueueOK(Append(q, m), objs, n)
<1>1. q \in Seq(Message) /\ m \in Message
  BY DEF QueueOK, MessageOK
<1>2. /\ Append(q, m) \in Seq(Message)
      /\ \A k \in DOMAIN Append(q, m) :
           \/ k \in DOMAIN q /\ Append(q, m)[k] = q[k]
           \/ Append(q, m)[k] = m
  BY <1>1
<1> QED
  BY <1>1, <1>2 DEF QueueOK

\* More instances may have been opened since a message was sent.
LEMMA QueueMore ==
  ASSUME NEW q, NEW objs, NEW n \in Nat, QueueOK(q, objs, n)
  PROVE  QueueOK(q, objs, n + 1)
<1>1. ASSUME NEW S, Batch(S, n) PROVE Batch(S, n + 1)
  BY <1>1 DEF Batch
<1> QED
  BY <1>1 DEF QueueOK, MessageOK

\* The instances that a message is for, and the messages they post.
LEMMA BatchFirst ==
  ASSUME NEW n \in Nat, NEW S, Batch(S, n), S # {}
  PROVE  \E s \in S : \A t \in S : s <= t
<1>1. PICK i \in Int, j \in Int : S = i .. j
  BY DEF Batch
<1>2. i \in S /\ \A t \in S : i <= t
  BY <1>1
<1> QED
  BY <1>2

LEMMA BatchCounts ==
  ASSUME NEW n \in Nat, NEW S, Batch(S, n),
         NEW first \in S, \A t \in S : first <= t
  PROVE  /\ Cardinality(S) \in Nat \ {0}
         /\ \A k \in 1 .. Cardinality(S) : first + k - 1 \in S
         /\ \A s \in S : \E k \in 1 .. Cardinality(S) : s = first + k - 1
<1>1. PICK i \in Int, j \in Int : S = i .. j
  BY DEF Batch
<1>2. i <= j /\ first = i
  BY <1>1
<1>3. Cardinality(S) = j - i + 1
  BY <1>1, <1>2, FS_Interval
<1>4. ASSUME NEW s \in S
      PROVE  \E k \in 1 .. Cardinality(S) : s = first + k - 1
  <2>1. s - i + 1 \in 1 .. (j - i + 1) /\ s = i + (s - i + 1) - 1
    BY <1>1
  <2> QED
    BY <1>2, <1>3, <2>1
<1>5. ASSUME NEW k \in 1 .. Cardinality(S) PROVE first + k - 1 \in S
  <2>1. k \in 1 .. (j - i + 1)
    BY <1>3
  <2>2. i + k - 1 \in i .. j
    BY <2>1
  <2> QED
    BY <1>1, <1>2, <2>2
<1>6. Cardinality(S) \in Nat \ {0}
  BY <1>2, <1>3
<1> QED
  BY <1>4, <1>5, <1>6

-----------------------------------------------------------------------------
(* The articles that a snapshot brings to the instances *)

\* What Deliver makes of the objects and the queue: the instances have one
\* list more and post an update with it, and nothing in use is lost.
LEMMA Delivered ==
  ASSUME opened \in 0 .. MaxScreens, NEW rest,
         Shape(objects, rest, shown, stack, listed, opened),
         NEW items, Marked(items), NEW instances, Batch(instances, opened),
         Deliver(items, instances, rest)
  PROVE  /\ Shape(objects', queue', shown, stack, listed', opened)
         /\ Len(rest) \in Nat /\ Len(queue') \in Nat
         /\ Len(queue') = Len(rest) <=> instances = {}
         /\ Len(rest) <= Len(queue')
         /\ \A k \in 1 .. Len(rest) : queue'[k] = rest[k]
         /\ \A k \in 1 .. Len(queue') : k > Len(rest) =>
              /\ queue'[k].kind = "update" /\ queue'[k].screen \in instances
              /\ queue'[k].screen \in Screen
              /\ queue'[k].gen = Len(objects[queue'[k].screen]) + 1
         /\ \A s \in instances : objects'[s][Len(objects[s]) + 1] = items
         /\ \A s \in instances : Len(objects'[s]) = Len(objects[s]) + 1
         /\ \A s \in Screen \ instances : Len(objects'[s]) = Len(objects[s])
         /\ \A s \in Screen : \A g \in 1 .. Len(objects[s]) :
              objects'[s][g] \in {objects[s][g], Nothing}
         /\ \A k \in 1 .. Len(rest) : rest[k].kind \in {"update", "click"} =>
              objects'[rest[k].screen][rest[k].gen]
                = objects[rest[k].screen][rest[k].gen]
         /\ \A s \in Live \ instances : Len(objects[s]) # 0 =>
              objects'[s][Len(objects[s])] = objects[s][Len(objects[s])]
<1> DEFINE first == CHOOSE s \in instances : \A t \in instances : s <= t
           count == Cardinality(instances)
           posted == [k \in 1 .. count |->
                       [kind |-> "update", screen |-> first + k - 1,
                        gen |-> Len(objects[first + k - 1]) + 1]]
           grown == [s \in Screen |-> IF s \in instances
                                        THEN Append(objects[s], items)
                                        ELSE objects[s]]
<1>1. /\ queue' = rest \o posted
      /\ objects' = Collect(grown, queue', shown, stack)
      /\ listed' = [s \in Screen |-> IF s \in instances \cap Live
                                       THEN items.ids ELSE listed[s]]
  BY DEF Deliver
<1>2. MaxScreens \in Nat /\ opened \in Nat /\ opened <= MaxScreens
  BY BoundsAssumption
<1>3. instances \subseteq 1 .. opened /\ instances \subseteq Screen
  BY <1>2 DEF Batch, Screen
<1>4. /\ count \in Nat
      /\ instances = {} => count = 0
      /\ \A k \in 1 .. count : first + k - 1 \in instances
      /\ \A s \in instances : \E k \in 1 .. count : s = first + k - 1
  <2>1. CASE instances = {}
    BY <2>1, FS_EmptySet
  <2>2. CASE instances # {}
    <3>1. \E s \in instances : \A t \in instances : s <= t
      BY <1>2, <2>2, BatchFirst
    <3>2. first \in instances /\ \A t \in instances : first <= t
      BY <3>1
    <3> HIDE DEF first
    <3> QED
      BY <1>2, <2>2, <3>2, BatchCounts
  <2> QED
    BY <2>1, <2>2
<1> HIDE DEF first, count
<1>5. /\ objects \in [Screen -> Seq(Articles)]
      /\ \A s \in Screen : /\ Len(objects[s]) \in Nat
                           /\ DOMAIN objects[s] = 1 .. Len(objects[s])
                           /\ \A g \in 1 .. Len(objects[s]) : Marked(objects[s][g])
  BY DEF Shape, Sound
<1>6. ASSUME NEW s \in Screen
      PROVE  /\ grown[s] \in Seq(Articles)
             /\ s \in instances => Len(grown[s]) = Len(objects[s]) + 1
             /\ s \notin instances => Len(grown[s]) = Len(objects[s])
             /\ \A g \in 1 .. Len(objects[s]) : grown[s][g] = objects[s][g]
             /\ s \in instances => grown[s][Len(objects[s]) + 1] = items
             /\ \A g \in DOMAIN grown[s] : Marked(grown[s][g])
  <2>1. items \in Articles
    BY DEF Marked
  <2>2. CASE s \in instances
    <3>1. grown[s] = Append(objects[s], items)
      BY <2>2
    <3>2. /\ grown[s] \in Seq(Articles) /\ Len(grown[s]) = Len(objects[s]) + 1
          /\ \A g \in 1 .. Len(objects[s]) : grown[s][g] = objects[s][g]
          /\ grown[s][Len(objects[s]) + 1] = items
          /\ DOMAIN grown[s] = 1 .. Len(objects[s]) + 1
      BY <1>5, <2>1, <3>1
    <3> QED
      BY <1>5, <2>2, <3>2
  <2>3. CASE s \notin instances
    BY <1>5, <2>3
  <2> QED
    BY <2>2, <2>3
<1>7. grown \in [Screen -> Seq(Articles)]
  BY <1>6
<1>8. Sound(grown)
  BY <1>6, <1>7 DEF Sound
<1> HIDE DEF grown
<1>9. /\ rest \in Seq(Message) /\ Len(rest) \in Nat /\ DOMAIN rest = 1 .. Len(rest)
      /\ \A k \in 1 .. Len(rest) : MessageOK(rest[k], objects, opened)
  BY DEF Shape, QueueOK
<1>10. ASSUME NEW k \in 1 .. count
       PROVE  MessageOK(posted[k], grown, opened)
  <2>1. first + k - 1 \in Screen /\ first + k - 1 \in instances
    BY <1>3, <1>4
  <2>2. Len(objects[first + k - 1]) + 1 \in DOMAIN grown[first + k - 1]
    BY <1>5, <1>6, <2>1
  <2>3. posted[k] \in Message
    BY <1>5, <2>1 DEF Message
  <2> QED
    BY <2>2, <2>3 DEF MessageOK
<1>11. /\ posted \in Seq(Message) /\ Len(posted) = count
  BY <1>4, <1>10 DEF MessageOK
<1>12. ASSUME NEW k \in 1 .. Len(rest)
       PROVE  MessageOK(rest[k], grown, opened)
  <2>1. MessageOK(rest[k], objects, opened) /\ rest[k] \in Message
    BY <1>9 DEF MessageOK
  <2>2. rest[k].kind \in {"update", "click"} => rest[k].screen \in Screen
    BY <2>1 DEF Message, Result
  <2>3. rest[k].kind \in {"update", "click"} =>
          /\ rest[k].gen \in DOMAIN grown[rest[k].screen]
          /\ grown[rest[k].screen][rest[k].gen] = objects[rest[k].screen][rest[k].gen]
    <3> SUFFICES ASSUME rest[k].kind \in {"update", "click"}
                 PROVE  /\ rest[k].gen \in DOMAIN grown[rest[k].screen]
                        /\ grown[rest[k].screen][rest[k].gen]
                             = objects[rest[k].screen][rest[k].gen]
      OBVIOUS
    <3> DEFINE s == rest[k].screen
               g == rest[k].gen
    <3>1. s \in Screen /\ g \in 1 .. Len(objects[s])
      BY <1>5, <2>1, <2>2 DEF MessageOK
    <3> HIDE DEF s, g
    <3>2. grown[s] \in Seq(Articles) /\ Len(objects[s]) <= Len(grown[s])
      BY <1>5, <1>6, <3>1
    <3>3. g \in DOMAIN grown[s] /\ grown[s][g] = objects[s][g]
      BY <1>5, <1>6, <3>1, <3>2
    <3> QED
      BY <3>3 DEF s, g
  <2> QED
    BY <2>1, <2>3 DEF MessageOK
<1>13. /\ queue' \in Seq(Message)
       /\ Len(queue') = Len(rest) + count
       /\ \A k \in 1 .. Len(rest) : queue'[k] = rest[k]
       /\ \A k \in 1 .. Len(queue') : k > Len(rest) =>
            /\ k - Len(rest) \in 1 .. count
            /\ queue'[k] = posted[k - Len(rest)]
  BY <1>1, <1>4, <1>9, <1>11
<1>14. QueueOK(queue', grown, opened)
  <2>1. ASSUME NEW k \in DOMAIN queue' PROVE MessageOK(queue'[k], grown, opened)
    <3>1. k \in 1 .. Len(queue')
      BY <1>13
    <3>2. CASE k \in 1 .. Len(rest)
      BY <1>12, <1>13, <3>2
    <3>3. CASE k \notin 1 .. Len(rest)
      <4>1. k > Len(rest)
        BY <1>4, <1>9, <1>13, <3>1, <3>3
      <4>2. k - Len(rest) \in 1 .. count /\ queue'[k] = posted[k - Len(rest)]
        BY <1>13, <3>1, <4>1
      <4> HIDE DEF posted
      <4> QED
        BY <1>10, <4>2
    <3> QED
      BY <3>2, <3>3
  <2> QED
    BY <2>1, <1>13 DEF QueueOK
<1>15. Shape(grown, queue', shown, stack, listed', opened)
  <2>1. ASSUME NEW s \in Screen, s > opened PROVE grown[s] = <<>>
    <3>1. s \notin instances /\ objects[s] = <<>>
      BY <1>2, <1>3, <2>1 DEF Shape, Screen
    <3> QED
      BY <3>1 DEF grown
  <2>2. StackOK(stack, opened)
    BY DEF Shape
  <2>3. ViewsOK(shown, grown, stack)
    <3>1. ViewsOK(shown, objects, stack) /\ stack \in Seq(Screen)
      BY DEF Shape, StackOK
    <3>2. stack # <<>> => stack[Len(stack)] \in Screen
      BY <3>1
    <3>3. \A s \in Screen : \A g \in DOMAIN objects[s] :
            g \in DOMAIN grown[s] /\ grown[s][g] = objects[s][g]
      BY <1>5, <1>6
    <3> QED
      BY <3>1, <3>2, <3>3 DEF ViewsOK
  <2>4. RowsOK(listed', grown, stack)
    <3>1. RowsOK(listed, objects, stack)
      BY DEF Shape
    <3>2. items.ids \in SUBSET Article
      BY DEF Marked, Articles
    <3>3. listed' \in [Screen -> SUBSET Article]
      BY <1>1, <3>1, <3>2 DEF RowsOK
    <3>4. ASSUME NEW s \in Screen
          PROVE  \/ listed'[s] = {}
                 \/ /\ s \in LiveIn(stack) /\ Len(grown[s]) # 0
                    /\ listed'[s] \subseteq grown[s][Len(grown[s])].ids
      <4>1. CASE s \in instances
        <5>1. grown[s][Len(grown[s])] = items /\ Len(grown[s]) # 0
          BY <1>5, <1>6, <4>1
        <5>2. CASE s \in Live
          BY <1>1, <4>1, <5>1, <5>2 DEF Live, LiveIn
        <5>3. CASE s \notin Live
          BY <1>1, <3>1, <5>3 DEF Live, LiveIn, RowsOK
        <5> QED
          BY <5>2, <5>3
      <4>2. CASE s \notin instances
        BY <1>1, <3>1, <4>2 DEF RowsOK, grown
      <4> QED
        BY <4>1, <4>2
    <3> QED
      BY <3>3, <3>4 DEF RowsOK
  <2> QED
    BY <1>8, <1>14, <2>1, <2>2, <2>3, <2>4 DEF Shape
<1>16. Shape(objects', queue', shown, stack, listed', opened)
  BY <1>1, <1>15, CollectShape
<1>17. /\ \A s \in Screen : Len(objects'[s]) = Len(grown[s])
       /\ \A s \in Screen : \A g \in 1 .. Len(grown[s]) :
            \/ \E k \in DOMAIN queue' : /\ queue'[k].kind \in {"update", "click"}
                                        /\ queue'[k].screen = s /\ queue'[k].gen = g
            \/ \E k \in DOMAIN stack : stack[k] = s /\ g = Len(grown[s])
            \/ stack # <<>> /\ s = stack[Len(stack)] /\ g = shown.gen
            => objects'[s][g] = grown[s][g]
       /\ \A s \in Screen : \A g \in 1 .. Len(grown[s]) :
            objects'[s][g] \in {grown[s][g], Nothing}
  <2> DEFINE left == Collect(grown, queue', shown, stack)
  <2>1. /\ \A s \in Screen : Len(left[s]) = Len(grown[s])
        /\ \A s \in Screen : \A g \in 1 .. Len(grown[s]) :
             \/ \E k \in DOMAIN queue' : /\ queue'[k].kind \in {"update", "click"}
                                         /\ queue'[k].screen = s /\ queue'[k].gen = g
             \/ \E k \in DOMAIN stack : stack[k] = s /\ g = Len(grown[s])
             \/ stack # <<>> /\ s = stack[Len(stack)] /\ g = shown.gen
             => left[s][g] = grown[s][g]
        /\ \A s \in Screen : \A g \in 1 .. Len(grown[s]) :
             left[s][g] \in {grown[s][g], Nothing}
    BY <1>8, CollectKeeps
  <2>2. objects' = left
    BY <1>1
  <2> HIDE DEF left
  <2> QED
    BY <2>1, <2>2
<1> HIDE DEF posted
<1>18. ASSUME NEW s \in instances PROVE objects'[s][Len(objects[s]) + 1] = items
  <2>1. PICK k \in 1 .. count : s = first + k - 1
    BY <1>4
  <2>2. Len(rest) + k \in 1 .. Len(queue') /\ Len(rest) + k > Len(rest)
    BY <1>4, <1>9, <1>13
  <2>3. queue'[Len(rest) + k] = posted[k]
    BY <1>4, <1>9, <1>13, <2>2
  <2>4. /\ posted[k].kind = "update" /\ posted[k].screen = s
        /\ posted[k].gen = Len(objects[s]) + 1
    BY <2>1 DEF posted
  <2>5. Len(rest) + k \in DOMAIN queue'
    BY <1>13, <2>2
  <2>6. s \in Screen /\ Len(objects[s]) + 1 \in 1 .. Len(grown[s])
    BY <1>3, <1>5, <1>6
  <2> DEFINE n == Len(rest) + k
  <2>7. n \in DOMAIN queue' /\ queue'[n].kind \in {"update", "click"}
        /\ queue'[n].screen = s /\ queue'[n].gen = Len(objects[s]) + 1
    BY <2>3, <2>4, <2>5
  <2> HIDE DEF n
  <2>8. objects'[s][Len(objects[s]) + 1] = grown[s][Len(objects[s]) + 1]
    BY <1>17, <2>6, <2>7
  <2> QED
    BY <1>6, <2>6, <2>8
<1>19. /\ \A s \in instances : Len(objects'[s]) = Len(objects[s]) + 1
       /\ \A s \in Screen \ instances : Len(objects'[s]) = Len(objects[s])
       /\ \A s \in Screen : \A g \in 1 .. Len(objects[s]) :
            objects'[s][g] \in {objects[s][g], Nothing}
  BY <1>3, <1>5, <1>6, <1>17
<1>20. ASSUME NEW k \in 1 .. Len(rest), rest[k].kind \in {"update", "click"}
       PROVE  objects'[rest[k].screen][rest[k].gen]
                = objects[rest[k].screen][rest[k].gen]
  <2> DEFINE s == rest[k].screen
             g == rest[k].gen
  <2>1. MessageOK(rest[k], objects, opened) /\ rest[k] \in Message
    BY <1>9 DEF MessageOK
  <2>2. s \in Screen
    BY <1>20, <2>1 DEF Message, Result
  <2>3. g \in 1 .. Len(objects[s])
    BY <1>5, <1>20, <2>1, <2>2 DEF MessageOK
  <2>4. k \in DOMAIN queue' /\ queue'[k] = rest[k]
    BY <1>4, <1>9, <1>13
  <2>5. /\ queue'[k].kind \in {"update", "click"}
        /\ queue'[k].screen = s /\ queue'[k].gen = g
    BY <1>20, <2>4
  <2> HIDE DEF s, g
  <2>6. g \in 1 .. Len(grown[s]) /\ grown[s][g] = objects[s][g]
    BY <1>5, <1>6, <2>2, <2>3
  <2>7. objects'[s][g] = grown[s][g]
    BY <1>17, <2>2, <2>4, <2>5, <2>6
  <2> QED
    BY <2>6, <2>7 DEF s, g
<1>21. ASSUME NEW s \in Live \ instances, Len(objects[s]) # 0
       PROVE  objects'[s][Len(objects[s])] = objects[s][Len(objects[s])]
  <2>1. PICK k \in DOMAIN stack : stack[k] = s
    BY DEF Live
  <2>2. s \in Screen
    BY <2>1 DEF Shape, StackOK
  <2> QED
    BY <1>5, <1>6, <1>17, <1>21, <2>1, <2>2
<1>22. ASSUME NEW k \in 1 .. Len(queue'), k > Len(rest)
       PROVE  /\ queue'[k].kind = "update" /\ queue'[k].screen \in instances
              /\ queue'[k].screen \in Screen
              /\ queue'[k].gen = Len(objects[queue'[k].screen]) + 1
  <2>1. k - Len(rest) \in 1 .. count /\ queue'[k] = posted[k - Len(rest)]
    BY <1>13, <1>22
  <2>2. \A i \in 1 .. count : /\ posted[i].kind = "update"
                              /\ posted[i].screen = first + i - 1
                              /\ posted[i].gen = Len(objects[posted[i].screen]) + 1
    BY DEF posted
  <2>3. \A i \in 1 .. count : posted[i].screen \in instances
    BY <1>4, <2>2
  <2> QED
    BY <1>3, <2>1, <2>2, <2>3
<1>23. Len(queue') = Len(rest) <=> instances = {}
  <2>1. count = 0 <=> instances = {}
    BY <1>4
  <2> DEFINE before == Len(rest)
             after == Len(queue')
  <2>2. before \in Nat /\ count \in Nat /\ after = before + count
    BY <1>4, <1>9, <1>13
  <2> HIDE DEF before, after
  <2>3. after = before <=> count = 0
    BY <2>2
  <2> QED
    BY <2>1, <2>3 DEF before, after
<1>24. Len(queue') \in Nat /\ Len(rest) <= Len(queue')
  BY <1>4, <1>9, <1>13
<1>25. \A k \in 1 .. Len(rest) : queue'[k] = rest[k]
  BY <1>13
<1> HIDE DEF grown
<1> QED
  BY <1>9, <1>16, <1>18, <1>19, <1>20, <1>21, <1>22, <1>23, <1>24, <1>25

-----------------------------------------------------------------------------
(* The type invariant *)

ProcessOK ==
  /\ running \in BOOLEAN /\ synced \in BOOLEAN /\ crossed \in BOOLEAN
  /\ list \subseteq Article /\ sent \in 0 .. MaxSnapshots

TableOK ==
  /\ job \in [items : Articles, news : BOOLEAN, for : SUBSET Screen, busy : BOOLEAN]
  /\ Marked(job.items) /\ Batch(job.for, opened)
  /\ Marked(rows)

PagesOK ==
  /\ opened \in 0 .. MaxScreens
  /\ reading \in Seq(Result)
  /\ selectors \in [Screen -> SUBSET Type]
  /\ position \in [Screen -> Nat \cup {NO_POSITION}]
  /\ dots \subseteq {News} \cup Live

HistoryOK ==
  /\ published \subseteq Article /\ earned \subseteq Article
  /\ quiet \subseteq marked /\ marked \subseteq Article

ShapeOK == Shape(objects, queue, shown, stack, listed, opened)

TypeInv == ProcessOK /\ TableOK /\ PagesOK /\ HistoryOK /\ ShapeOK

LEMMA Bounds == MaxScreens \in Nat /\ MaxSnapshots \in Nat
  BY BoundsAssumption

LEMMA NothingMarked == Nothing \in Articles /\ Marked(Nothing)
  BY DEF Nothing, Articles, Marked

LEMMA NoJobOK ==
  ASSUME NEW n
  PROVE  /\ NoJob \in [items : Articles, news : BOOLEAN, for : SUBSET Screen,
                       busy : BOOLEAN]
         /\ Marked(NoJob.items) /\ Batch(NoJob.for, n)
<1>1. {} = 1 .. 0 /\ {} \subseteq 1 .. n
  OBVIOUS
<1>2. Batch({}, n)
  BY <1>1 DEF Batch
<1> QED
  BY <1>2, NothingMarked DEF NoJob

\* The facts about the variables that the steps start from.
LEMMA ShapeFacts ==
  ASSUME ShapeOK
  PROVE  /\ stack \in Seq(Screen) /\ Len(stack) \in Nat
         /\ Sound(objects) /\ objects \in [Screen -> Seq(Articles)]
         /\ listed \in [Screen -> SUBSET Article]
         /\ \A s \in Screen : /\ Len(objects[s]) \in Nat
                              /\ DOMAIN objects[s] = 1 .. Len(objects[s])
                              /\ listed[s] \subseteq Latest(s).ids
                              /\ Latest(s) \in Articles
         /\ queue \in Seq(Message) /\ QueueOK(queue, objects, opened)
         /\ Live \subseteq Screen
         /\ stack # <<>> => /\ Visible \in Screen /\ Visible \in Live
                            /\ Len(stack) \in DOMAIN stack
<1>1. /\ stack \in Seq(Screen) /\ Sound(objects) /\ QueueOK(queue, objects, opened)
      /\ RowsOK(listed, objects, stack)
  BY DEF ShapeOK, Shape, StackOK
<1>2. /\ Len(stack) \in Nat /\ objects \in [Screen -> Seq(Articles)]
      /\ \A s \in Screen : /\ Len(objects[s]) \in Nat
                           /\ DOMAIN objects[s] = 1 .. Len(objects[s])
      /\ queue \in Seq(Message)
      /\ listed \in [Screen -> SUBSET Article]
  BY <1>1 DEF Sound, QueueOK, RowsOK
<1>3. ASSUME NEW s \in Screen
      PROVE  listed[s] \subseteq Latest(s).ids /\ Latest(s) \in Articles
  <2>1. CASE objects[s] = <<>>
    <3>1. Len(objects[s]) = 0
      BY <2>1
    <3> QED
      BY <1>1, <2>1, <3>1, NothingMarked DEF RowsOK, Latest
  <2>2. CASE objects[s] # <<>>
    <3>1. objects[s] \in Seq(Articles)
      BY <1>2
    <3>2. Len(objects[s]) # 0 /\ objects[s][Len(objects[s])] \in Articles
      BY <2>2, <3>1
    <3> QED
      BY <1>1, <2>2, <3>2 DEF RowsOK, Latest
  <2> QED
    BY <2>1, <2>2
<1>4. stack # <<>> => /\ Visible \in Screen /\ Visible \in Live
                      /\ Len(stack) \in DOMAIN stack
  BY <1>1 DEF Visible, Live
<1>5. Live \subseteq Screen
  BY <1>1 DEF Live
<1> QED
  BY <1>1, <1>2, <1>3, <1>4, <1>5

LEMMA TypeInit == Init => TypeInv
<1> SUFFICES ASSUME Init PROVE TypeInv
  OBVIOUS
<1> USE DEF Init
<1>1. ProcessOK
  <2>1. sent \in 0 .. MaxSnapshots
    BY Bounds
  <2>2. /\ running \in BOOLEAN /\ synced \in BOOLEAN /\ crossed \in BOOLEAN
        /\ list \subseteq Article
    OBVIOUS
  <2> QED
    BY <2>1, <2>2 DEF ProcessOK
<1>2. TableOK
  BY NoJobOK, NothingMarked DEF TableOK
<1>3. PagesOK
  <2>1. reading \in Seq(Result)
    BY EmptySeq
  <2> QED
    BY <2>1, Bounds DEF PagesOK
<1>4. HistoryOK
  BY DEF HistoryOK
<1>5. ShapeOK
  <2>1. Sound(objects)
    BY EmptySeq DEF Sound
  <2>2. StackOK(stack, opened)
    BY EmptySeq DEF StackOK
  <2>3. QueueOK(queue, objects, opened)
    BY EmptySeq DEF QueueOK
  <2>4. ViewsOK(shown, objects, stack)
    BY DEF ViewsOK, NoViews
  <2>5. RowsOK(listed, objects, stack)
    BY DEF RowsOK
  <2> QED
    BY <2>1, <2>2, <2>3, <2>4, <2>5 DEF ShapeOK, Shape
<1> QED
  BY <1>1, <1>2, <1>3, <1>4, <1>5 DEF TypeInv

LEMMA TypeStart ==
  ASSUME TypeInv, Start PROVE TypeInv'
<1>1. ProcessOK'
  BY DEF TypeInv, ProcessOK, Start, processVars
<1>2. UNCHANGED <<queue, job, rows, screenVars, history>>
  BY DEF Start
<1> QED
  BY <1>1, <1>2 DEF TypeInv, TableOK, PagesOK, HistoryOK, ShapeOK, Live,
     screenVars, rowVars, history

LEMMA TypeSnapshot ==
  ASSUME TypeInv, NEW ids \in SUBSET Article, Snapshot(ids) PROVE TypeInv'
<1> USE DEF Snapshot, screenVars, rowVars, history, TypeInv
<1>1. ProcessOK'
  <2>1. /\ synced' = TRUE /\ crossed' = FALSE /\ list' = ids /\ running' = running
        /\ sent' = sent + 1 /\ sent < MaxSnapshots
    OBVIOUS
  <2>2. sent' \in 0 .. MaxSnapshots
    BY <2>1, Bounds DEF ProcessOK
  <2> QED
    BY <2>1, <2>2 DEF ProcessOK
<1>2. ShapeOK'
  <2> DEFINE m == [kind |-> "data", ids |-> ids, news |-> TRUE, for |-> 1 .. opened]
  <2>1. 1 .. opened \subseteq Screen /\ Batch(1 .. opened, opened)
    BY Bounds DEF PagesOK, Screen, Batch
  <2>2. MessageOK(m, objects, opened)
    BY <2>1 DEF MessageOK, Message
  <2>3. QueueOK(queue', objects, opened)
    BY <2>2, QueueAppend DEF ShapeOK, Shape
  <2> QED
    BY <2>3 DEF ShapeOK, Shape
<1> QED
  BY <1>1, <1>2 DEF TableOK, PagesOK, HistoryOK, Live

LEMMA TypeTouch ==
  ASSUME TypeInv, NEW a \in Article, Touch(a) PROVE TypeInv'
<1> USE DEF Touch, screenVars, rowVars, history, processVars, TypeInv
<1>1. ShapeOK'
  <2> DEFINE m == [kind |-> "click", screen |-> Visible, id |-> a, gen |-> shown.gen]
  <2>1. /\ ViewsOK(shown, objects, stack) /\ shown.ids # {}
    BY DEF ShapeOK, Shape
  <2>2. /\ Visible \in Screen /\ shown.gen \in DOMAIN objects[Visible]
        /\ a \in objects[Visible][shown.gen].ids
    BY <2>1, ShapeFacts DEF ViewsOK, Visible
  <2>3. shown.gen \in Nat \ {0}
    BY <2>1, <2>2, ShapeFacts
  <2>4. MessageOK(m, objects, opened)
    BY <2>2, <2>3 DEF MessageOK, Message
  <2>5. QueueOK(queue', objects, opened)
    BY <2>4, QueueAppend DEF ShapeOK, Shape
  <2> QED
    BY <2>5 DEF ShapeOK, Shape
<1> QED
  BY <1>1 DEF ProcessOK, TableOK, PagesOK, HistoryOK, Live

\* The views of an instance that has been laid out.
LEMMA LaidOut ==
  ASSUME NEW objs, Sound(objs), NEW st \in Seq(Screen), st # <<>>,
         NEW l, RowsOK(l, objs, st)
  PROVE  ViewsOK([gen |-> Len(objs[st[Len(st)]]), ids |-> l[st[Len(st)]]], objs, st)
<1> DEFINE s == st[Len(st)]
<1>1. s \in Screen
  OBVIOUS
<1> HIDE DEF s
<1>2. Len(objs[s]) \in Nat /\ DOMAIN objs[s] = 1 .. Len(objs[s])
  BY <1>1 DEF Sound
<1>3. l[s] \subseteq Article
  BY <1>1 DEF RowsOK
<1>4. \/ l[s] = {}
      \/ Len(objs[s]) \in DOMAIN objs[s] /\ l[s] \subseteq objs[s][Len(objs[s])].ids
  BY <1>1, <1>2 DEF RowsOK
<1>5. ViewsOK([gen |-> Len(objs[s]), ids |-> l[s]], objs, st)
  BY <1>2, <1>3, <1>4 DEF ViewsOK, s
<1> QED
  BY <1>5 DEF s

LEMMA TypeLayout ==
  ASSUME TypeInv, Layout PROVE TypeInv'
<1> USE DEF Layout, history, processVars, TypeInv
<1>1. ShapeOK'
  <2>1. ViewsOK(Views(Visible), objects, stack)
    <3>1. RowsOK(listed, objects, stack)
      BY DEF ShapeOK, Shape
    <3> QED
      BY <3>1, ShapeFacts, LaidOut DEF Views, Visible
  <2>2. Shape(objects, queue, shown', stack, listed, opened)
    BY <2>1 DEF ShapeOK, Shape
  <2>3. Shape(Collect(objects, queue, shown', stack), queue, shown', stack, listed,
              opened)
    BY <2>2, CollectShape
  <2> QED
    BY <2>3 DEF ShapeOK
<1> QED
  BY <1>1 DEF ProcessOK, TableOK, PagesOK, HistoryOK, Live

\* filterItems leaves rows of the list.
LEMMA FilterInList ==
  ASSUME NEW ids, NEW some \in SUBSET ids, NEW active
  PROVE  FilterItems(ids, some, active) \subseteq ids
  BY DEF FilterItems, Kept, Added, Filtered

LEMMA TypeTouchSelector ==
  ASSUME TypeInv, NEW t \in Type, TouchSelector(t) PROVE TypeInv'
<1> USE DEF TouchSelector, history, processVars, TypeInv
<1> DEFINE active == IF t \in selectors[Visible] THEN selectors[Visible] \ {t}
                                                 ELSE selectors[Visible] \cup {t}
           left == FilterItems(Latest(Visible).ids, listed[Visible], active)
<1>1. /\ selectors' = [selectors EXCEPT ![Visible] = active]
      /\ listed' = [listed EXCEPT ![Visible] = left]
  OBVIOUS
<1>2. Visible \in Screen /\ listed[Visible] \subseteq Latest(Visible).ids
  BY ShapeFacts
<1>3. left \subseteq Latest(Visible).ids
  BY <1>2, FilterInList
<1> HIDE DEF left
<1>4. PagesOK'
  BY <1>1, <1>2 DEF PagesOK, Live
<1>5. ShapeOK'
  <2>1. RowsOK(listed, objects, stack)
    BY DEF ShapeOK, Shape
  <2>2. RowsOK(listed', objects, stack)
    <3>1. Latest(Visible).ids \subseteq Article
      BY <1>2, ShapeFacts DEF Articles
    <3>2. \/ left = {}
          \/ /\ Visible \in LiveIn(stack) /\ Len(objects[Visible]) # 0
             /\ left \subseteq objects[Visible][Len(objects[Visible])].ids
      <4>1. CASE objects[Visible] = <<>>
        BY <4>1, <1>3 DEF Latest, Nothing
      <4>2. CASE objects[Visible] # <<>>
        <5>1. Visible \in LiveIn(stack) /\ objects[Visible] \in Seq(Articles)
          BY ShapeFacts DEF Live, LiveIn
        <5>2. Len(objects[Visible]) # 0
          BY <4>2, <5>1
        <5> QED
          BY <1>3, <4>2, <5>1, <5>2 DEF Latest
      <4> QED
        BY <4>1, <4>2
    <3> QED
      BY <1>1, <1>2, <1>3, <2>1, <3>1, <3>2 DEF RowsOK
  <2> QED
    BY <2>2 DEF ShapeOK, Shape
<1> QED
  BY <1>4, <1>5 DEF ProcessOK, TableOK, HistoryOK

\* An article that is closed leaves its result.
LEMMA TypeCloseArticle ==
  ASSUME TypeInv, NEW ok \in BOOLEAN, CloseArticle(ok) PROVE TypeInv'
<1> USE DEF CloseArticle, history, processVars, rowVars, TypeInv
<1>1. /\ reading \in Seq(Result) /\ reading # <<>>
      /\ reading' = SubSeq(reading, 1, Len(reading) - 1)
      /\ queue' \in {queue, Append(queue, reading[Len(reading)])}
  BY DEF PagesOK
<1>2. reading' \in Seq(Result) /\ reading[Len(reading)] \in Result
  BY <1>1
<1>3. PagesOK'
  BY <1>2 DEF PagesOK, Live
<1>4. ShapeOK'
  <2>1. MessageOK(reading[Len(reading)], objects, opened)
    BY <1>2 DEF MessageOK, Message, Result
  <2>2. QueueOK(queue, objects, opened)
    BY DEF ShapeOK, Shape
  <2>3. QueueOK(queue', objects, opened)
    BY <1>1, <2>1, <2>2, QueueAppend
  <2> QED
    BY <2>3 DEF ShapeOK, Shape
<1> QED
  BY <1>3, <1>4 DEF ProcessOK, TableOK, HistoryOK

LEMMA TypeOpenScreen ==
  ASSUME TypeInv, OpenScreen PROVE TypeInv'
<1> USE DEF TypeInv
<1> DEFINE new == opened + 1
           m == [kind |-> "data", ids |-> list, news |-> FALSE, for |-> {new}]
<1>1. /\ opened < MaxScreens /\ sent < MaxSnapshots
      /\ opened' = new /\ stack' = Append(stack, new)
      /\ shown' = NoViews
      /\ \/ queue' = Append(queue, m) /\ sent' = sent + 1
         \/ queue' = queue /\ sent' = sent
      /\ objects' = Collect(objects, queue', shown', stack')
      /\ UNCHANGED <<running, synced, list, job, rows, selectors, listed, position,
                     reading, dots, history>>
  BY DEF OpenScreen
<1>2. opened \in Nat /\ new \in 1 .. MaxScreens /\ new \in Screen
  BY <1>1, Bounds DEF PagesOK, Screen
<1>3. ProcessOK'
  <2>1. sent' \in 0 .. MaxSnapshots
    BY <1>1, Bounds DEF ProcessOK
  <2>2. crossed' \in BOOLEAN
    <3>1. crossed \in BOOLEAN /\ crossed' = (crossed \/ Crossing)
      BY DEF ProcessOK, OpenScreen
    <3>2. Crossing \in BOOLEAN
      BY DEF Crossing
    <3> QED
      BY <3>1, <3>2, Zenon
  <2> QED
    BY <1>1, <2>1, <2>2 DEF ProcessOK
<1>4. TableOK'
  <2>1. ASSUME NEW S, Batch(S, opened) PROVE Batch(S, new)
    BY <1>2, <2>1 DEF Batch
  <2> QED
    BY <1>1, <2>1 DEF TableOK
<1>5. /\ stack' \in Seq(Screen) /\ DOMAIN stack' = 1 .. Len(stack) + 1
      /\ \A k \in 1 .. Len(stack) : stack'[k] = stack[k]
      /\ stack'[Len(stack) + 1] = new /\ stack' # <<>>
      /\ DOMAIN stack = 1 .. Len(stack) /\ Len(stack) \in Nat
  BY <1>1, <1>2, ShapeFacts
<1>6. Live \subseteq Live' /\ LiveIn(stack) \subseteq LiveIn(stack')
  BY <1>5 DEF Live, LiveIn
<1>7. PagesOK'
  <2>1. opened' \in 0 .. MaxScreens
    BY <1>1, <1>2
  <2> QED
    BY <1>1, <1>6, <2>1 DEF PagesOK
<1>8. HistoryOK'
  BY <1>1 DEF HistoryOK, history
<1>9. ShapeOK'
  <2>1. Sound(objects) /\ \A s \in Screen : s > new => objects[s] = <<>>
    BY <1>2 DEF ShapeOK, Shape, Screen
  <2>2. StackOK(stack', new)
    <3>1. StackOK(stack, opened)
      BY DEF ShapeOK, Shape
    <3>2. \A k \in 1 .. Len(stack) : stack[k] <= opened /\ stack[k] \in Screen
      BY <1>5, <3>1 DEF StackOK
    <3>3. \A k \in DOMAIN stack' : stack'[k] <= new
      BY <1>2, <1>5, <3>2 DEF Screen
    <3>4. ASSUME NEW j \in DOMAIN stack', NEW k \in DOMAIN stack', stack'[j] = stack'[k]
          PROVE  j = k
      <4>1. CASE j \in 1 .. Len(stack) /\ k \in 1 .. Len(stack)
        BY <1>5, <3>1, <3>4, <4>1 DEF StackOK
      <4>2. \A i \in 1 .. Len(stack) : stack[i] # new
        BY <1>2, <3>2 DEF Screen
      <4> QED
        BY <1>5, <3>4, <4>1, <4>2
    <3> QED
      BY <1>5, <3>3, <3>4 DEF StackOK
  <2>3. QueueOK(queue', objects, new)
    <3>1. QueueOK(queue, objects, new)
      BY <1>2, QueueMore DEF ShapeOK, Shape
    <3>2. {new} = new .. new /\ {new} \subseteq 1 .. new
      BY <1>2
    <3>3. Batch({new}, new)
      BY <1>2, <3>2 DEF Batch
    <3>4. MessageOK(m, objects, new)
      BY <1>2, <3>3 DEF MessageOK, Message, ProcessOK
    <3> HIDE DEF m
    <3>5. QueueOK(Append(queue, m), objects, new)
      BY <3>1, <3>4, QueueAppend
    <3> QED
      BY <1>1, <3>1, <3>5
  <2>4. ViewsOK(shown', objects, stack')
    BY <1>1 DEF ViewsOK, NoViews
  <2>5. RowsOK(listed, objects, stack')
    BY <1>6 DEF ShapeOK, Shape, RowsOK
  <2>6. Shape(objects, queue', shown', stack', listed, new)
    BY <2>1, <2>2, <2>3, <2>4, <2>5 DEF Shape
  <2>7. Shape(Collect(objects, queue', shown', stack'), queue', shown', stack',
              listed, new)
    BY <2>6, CollectShape
  <2> QED
    BY <1>1, <2>7 DEF ShapeOK
<1> QED
  BY <1>3, <1>4, <1>7, <1>8, <1>9

LEMMA TypeCloseScreen ==
  ASSUME TypeInv, CloseScreen PROVE TypeInv'
<1> USE DEF TypeInv
<1>1. /\ stack # <<>>
      /\ stack' = SubSeq(stack, 1, Len(stack) - 1)
      /\ selectors' = [selectors EXCEPT ![Visible] = {}]
      /\ listed' = [listed EXCEPT ![Visible] = {}]
      /\ shown' = IF Len(stack) = 1 THEN NoViews ELSE Views(stack[Len(stack) - 1])
      /\ objects' = Collect(objects, queue, shown', stack')
      /\ position' = [position EXCEPT ![Visible] = 0]
      /\ dots' = dots \ {Visible}
      /\ UNCHANGED <<running, processVars, queue, job, rows, opened, reading,
                     history>>
  BY DEF CloseScreen
<1>2. /\ stack \in Seq(Screen) /\ Len(stack) \in Nat \ {0}
      /\ DOMAIN stack = 1 .. Len(stack)
      /\ Visible \in Screen /\ Visible = stack[Len(stack)]
  BY <1>1, ShapeFacts DEF Visible
<1>3. /\ stack' \in Seq(Screen) /\ DOMAIN stack' = 1 .. Len(stack) - 1
      /\ Len(stack') = Len(stack) - 1
      /\ \A k \in 1 .. Len(stack) - 1 : stack'[k] = stack[k]
  BY <1>1, <1>2
<1>4. StackOK(stack, opened) /\ RowsOK(listed, objects, stack)
  BY DEF ShapeOK, Shape
<1>5. StackOK(stack', opened)
  BY <1>2, <1>3, <1>4 DEF StackOK
<1>6. /\ Live \ {Visible} \subseteq Live'
      /\ LiveIn(stack) \ {Visible} \subseteq LiveIn(stack')
  BY <1>2, <1>3 DEF Live, LiveIn
<1>7. ProcessOK' /\ TableOK' /\ HistoryOK'
  BY <1>1 DEF ProcessOK, TableOK, HistoryOK, history, processVars
<1>8. PagesOK'
  BY <1>1, <1>2, <1>6 DEF PagesOK
<1>9. ShapeOK'
  <2>1. RowsOK(listed', objects, stack')
    BY <1>1, <1>2, <1>4, <1>6 DEF RowsOK
  <2>2. ViewsOK(shown', objects, stack')
    <3>1. CASE Len(stack) = 1
      BY <1>1, <3>1 DEF ViewsOK, NoViews
    <3>2. CASE Len(stack) # 1
      <4> DEFINE n == Len(stack) - 1
                 top == stack[n]
      <4>0. /\ n \in 1 .. Len(stack) - 1 /\ n \in 1 .. Len(stack)
            /\ n # Len(stack) /\ Len(stack) \in 1 .. Len(stack)
            /\ Len(stack') = n /\ n # 0
        <5> DEFINE len == Len(stack)
        <5>1. len \in Nat /\ len > 1 /\ Len(stack') = len - 1
          BY <1>2, <1>3, <3>2
        <5> HIDE DEF len
        <5>2. /\ len - 1 \in 1 .. len - 1 /\ len - 1 \in 1 .. len
              /\ len - 1 # len /\ len \in 1 .. len /\ len - 1 # 0
          BY <5>1
        <5> QED
          BY <5>1, <5>2 DEF len
      <4> HIDE DEF n
      <4>1. stack' # <<>> /\ stack'[Len(stack')] = top
        <5>1. stack'[n] = top
          BY <1>3, <4>0
        <5>2. stack' # <<>>
          BY <4>0
        <5> QED
          BY <4>0, <5>1, <5>2
      <4>2. top # Visible
        <5>1. top = Visible => n = Len(stack)
          BY <1>2, <1>4, <4>0 DEF StackOK
        <5> QED
          BY <4>0, <5>1
      <4>3. listed'[top] = listed[top] /\ top \in Screen
        <5>1. top \in Screen
          <6>1. n \in DOMAIN stack
            BY <1>2, <4>0
          <6> QED
            BY <1>2, <6>1, ElementOfSeq
        <5> QED
          BY <1>1, <1>2, <1>4, <4>2, <5>1 DEF RowsOK
      <4>4. shown' = [gen |-> Len(objects[top]), ids |-> listed'[top]]
        BY <1>1, <3>2, <4>3 DEF Views, n
      <4> HIDE DEF top
      <4> QED
        BY <1>3, <2>1, <4>1, <4>4, LaidOut, ShapeFacts
    <3> QED
      BY <3>1, <3>2
  <2>3. Shape(objects, queue, shown', stack', listed', opened)
    BY <1>5, <2>1, <2>2 DEF ShapeOK, Shape
  <2>4. Shape(Collect(objects, queue, shown', stack'), queue, shown', stack',
              listed', opened)
    BY <2>3, CollectShape
  <2> QED
    BY <1>1, <2>4 DEF ShapeOK
<1> QED
  BY <1>7, <1>8, <1>9

-----------------------------------------------------------------------------
(* The messages of the main thread keep the type invariant *)

LEMMA HeadFacts ==
  ASSUME TypeInv, NEW kind, Turn(kind)
  PROVE  /\ queue # <<>> /\ Head(queue).kind = kind
         /\ Head(queue) \in Message /\ MessageOK(Head(queue), objects, opened)
         /\ QueueOK(Tail(queue), objects, opened)
         /\ Len(queue) \in Nat /\ Len(Tail(queue)) = Len(queue) - 1
         /\ Head(queue) = queue[1] /\ 1 \in DOMAIN queue
         /\ \A k \in DOMAIN Tail(queue) :
              k + 1 \in DOMAIN queue /\ Tail(queue)[k] = queue[k + 1]
         /\ Shape(objects, Tail(queue), shown, stack, listed, opened)
         /\ ProcessOK'
<1>1. /\ queue # <<>> /\ Head(queue).kind = kind
      /\ UNCHANGED <<running, synced, list, sent, crossed>>
  BY DEF Turn, processVars
<1>2. QueueOK(queue, objects, opened) /\ queue \in Seq(Message)
  BY DEF TypeInv, ShapeOK, Shape, QueueOK
<1>3. Head(queue) = queue[1] /\ 1 \in DOMAIN queue
  BY <1>1, <1>2
<1>4. QueueOK(Tail(queue), objects, opened)
  BY <1>1, <1>2, QueueTail
<1>5. Shape(objects, Tail(queue), shown, stack, listed, opened)
  BY <1>4 DEF TypeInv, ShapeOK, Shape
<1>6. ProcessOK'
  BY <1>1 DEF TypeInv, ProcessOK
<1> QED
  BY <1>1, <1>2, <1>3, <1>4, <1>5, <1>6, QueueTail DEF MessageOK

\* What is parsed has marks on its articles only.
LEMMA ParseMarked ==
  ASSUME NEW ids \in SUBSET Article, NEW table
  PROVE  Parse(ids, table) \in Articles /\ Marked(Parse(ids, table))
  BY DEF Parse, Articles, Marked

LEMMA DotsStay ==
  ASSUME PagesOK, NEW items, NEW pages, ShowDots(items, pages), UNCHANGED stack
  PROVE  dots' \subseteq {News} \cup Live'
  BY DEF PagesOK, ShowDots, Live

LEMMA TypeHandleData ==
  ASSUME TypeInv, HandleData PROVE TypeInv'
<1> USE DEF TypeInv
<1> DEFINE m == Head(queue)
           items == Parse(m.ids, rows)
<1>1. /\ Turn("data")
      /\ \/ /\ m.news
            /\ ReplaceRows(items, TRUE, m.for)
            /\ queue' = Tail(queue)
            /\ UNCHANGED <<objects, selectors, listed, dots>>
         \/ /\ ~m.news
            /\ Deliver(items, m.for, Tail(queue))
            /\ ShowDots(items, m.for)
            /\ UNCHANGED <<rows, job>>
      /\ published' = m.ids
      /\ marked' = marked \cap m.ids
      /\ quiet' = quiet \cap m.ids
      /\ UNCHANGED <<position, reading, earned>>
  BY DEF HandleData
<1>2. UNCHANGED <<running, synced, list, sent, crossed, opened, stack, shown>>
  BY <1>1 DEF Turn, processVars
<1>3. /\ m \in Message /\ m.kind = "data" /\ Batch(m.for, opened)
      /\ Shape(objects, Tail(queue), shown, stack, listed, opened)
      /\ ProcessOK'
  BY <1>1, HeadFacts DEF MessageOK
<1>4. m.ids \in SUBSET Article /\ m.for \in SUBSET Screen
  BY <1>3 DEF Message, Result
<1> HIDE DEF m
<1>5. items \in Articles /\ Marked(items)
  BY <1>4, ParseMarked
<1> HIDE DEF items
<1>6. TableOK'
  <2>1. CASE ReplaceRows(items, TRUE, m.for)
    BY <1>2, <1>3, <1>4, <1>5, <2>1, NothingMarked DEF TableOK, ReplaceRows
  <2>2. CASE UNCHANGED <<rows, job>>
    BY <1>2, <2>2 DEF TableOK
  <2> QED
    BY <1>1, <2>1, <2>2
<1>7. HistoryOK'
  BY <1>1, <1>4 DEF HistoryOK
<1>8. PagesOK'
  <2>1. UNCHANGED selectors
    BY <1>1 DEF Deliver
  <2>2. dots' \subseteq {News} \cup Live'
    BY <1>1, <1>2, DotsStay DEF PagesOK, Live
  <2> QED
    BY <1>1, <1>2, <2>1, <2>2 DEF PagesOK
<1>9. ShapeOK'
  <2>1. CASE queue' = Tail(queue) /\ UNCHANGED <<objects, listed>>
    BY <1>2, <1>3, <2>1 DEF ShapeOK
  <2>2. CASE Deliver(items, m.for, Tail(queue))
    BY <1>2, <1>3, <1>5, <2>2, Delivered DEF ShapeOK, PagesOK
  <2> QED
    BY <1>1, <2>1, <2>2
<1> QED
  BY <1>3, <1>6, <1>7, <1>8, <1>9

LEMMA TypeHandleUpdate ==
  ASSUME TypeInv, HandleUpdate PROVE TypeInv'
<1> USE DEF TypeInv
<1> DEFINE m == Head(queue)
           items == objects[m.screen][m.gen]
<1>1. /\ Turn("update")
      /\ ReplaceRows(items, FALSE, {})
      /\ queue' = Tail(queue)
      /\ objects' = Collect(objects, queue', shown, stack)
      /\ UNCHANGED <<selectors, listed, position, reading, dots, history>>
  BY DEF HandleUpdate
<1>2. UNCHANGED <<running, synced, list, sent, crossed, opened, stack, shown>>
  BY <1>1 DEF Turn, processVars
<1>3. /\ m \in Message /\ m.kind = "update" /\ m.gen \in DOMAIN objects[m.screen]
      /\ Shape(objects, Tail(queue), shown, stack, listed, opened)
      /\ ProcessOK'
  BY <1>1, HeadFacts DEF MessageOK
<1>4. m.screen \in Screen
  BY <1>3 DEF Message, Result
<1> HIDE DEF m
<1>5. Marked(items) /\ items \in Articles
  BY <1>3, <1>4, ShapeFacts DEF Sound, Marked
<1> HIDE DEF items
<1>6. TableOK'
  BY <1>1, <1>5, NoJobOK, NothingMarked DEF TableOK, ReplaceRows, NoJob
<1>7. HistoryOK' /\ PagesOK'
  BY <1>1, <1>2 DEF HistoryOK, history, PagesOK, Live
<1>8. ShapeOK'
  <2>1. Shape(Collect(objects, queue', shown, stack), queue', shown, stack, listed,
              opened)
    BY <1>1, <1>3, CollectShape
  <2> QED
    BY <1>1, <1>2, <2>1 DEF ShapeOK
<1> QED
  BY <1>3, <1>6, <1>7, <1>8

LEMMA TypeFinishAdd ==
  ASSUME TypeInv, FinishAdd PROVE TypeInv'
<1> USE DEF TypeInv
<1>1. /\ rows' = job.items
      /\ job' = NoJob
      /\ Deliver(job.items, job.for, queue)
      /\ \/ ShowDots(job.items, {News} \cup job.for)
         \/ UNCHANGED dots
      /\ UNCHANGED <<running, synced, list, sent, crossed, opened, stack, shown, position,
                     reading, history>>
  BY DEF FinishAdd, processVars
<1>2. ProcessOK' /\ HistoryOK'
  BY <1>1 DEF ProcessOK, HistoryOK, history
<1>3. TableOK'
  BY <1>1, NoJobOK DEF TableOK
<1>4. PagesOK'
  <2>1. UNCHANGED selectors
    BY <1>1 DEF Deliver
  <2>2. dots' \subseteq {News} \cup Live'
    BY <1>1, DotsStay DEF PagesOK, Live
  <2> QED
    BY <1>1, <2>1, <2>2 DEF PagesOK
<1>5. ShapeOK'
  BY <1>1, Delivered DEF ShapeOK, TableOK, PagesOK
<1> QED
  BY <1>2, <1>3, <1>4, <1>5

\* The position of an article in a list.
LEMMA IndexType ==
  ASSUME NEW a \in Article, NEW ids \in SUBSET Article
  PROVE  IndexIn(a, ids) \in Nat
<1>1. {b \in ids : b < a} \subseteq Article
  OBVIOUS
<1>2. IsFiniteSet({b \in ids : b < a})
  BY <1>1, TypesAssumption, FS_Subset
<1> QED
  BY <1>2, FS_CardinalityType DEF IndexIn

\* Marking some objects with articles that they hold.
MarkedIn(objs, s, g, hit) == [objs EXCEPT ![s][g].read = @ \cup hit]

LEMMA MarkShape ==
  ASSUME NEW q, NEW l, Shape(objects, q, shown, stack, l, opened),
         NEW s \in Screen, NEW g, NEW hit,
         g \in DOMAIN objects[s] => hit \subseteq objects[s][g].ids,
         NEW more, more = MarkedIn(objects, s, g, hit)
  PROVE  /\ Shape(more, q, shown, stack, l, opened)
         /\ \A t \in Screen : Len(more[t]) = Len(objects[t])
         /\ \A t \in Screen : \A i \in 1 .. Len(objects[t]) :
              more[t][i].ids = objects[t][i].ids
         /\ \A t \in Screen : \A i \in 1 .. Len(objects[t]) :
              /\ objects[t][i].read \subseteq more[t][i].read
              /\ more[t][i].read \subseteq objects[t][i].read \cup hit
<1>0. more = [objects EXCEPT ![s][g].read = @ \cup hit]
  BY DEF MarkedIn
<1>1. /\ objects \in [Screen -> Seq(Articles)]
      /\ \A t \in Screen : /\ objects[t] \in Seq(Articles)
                           /\ Len(objects[t]) \in Nat
                           /\ DOMAIN objects[t] = 1 .. Len(objects[t])
                           /\ \A i \in 1 .. Len(objects[t]) :
                                objects[t][i] \in Articles /\ Marked(objects[t][i])
  BY DEF Shape, Sound, Marked
<1>2. ASSUME NEW t \in Screen, t # s PROVE more[t] = objects[t]
  BY <1>0, <1>1, <1>2
<1>3. more[s] = [objects[s] EXCEPT ![g].read = @ \cup hit]
  BY <1>0, <1>1
<1>4. ASSUME NEW i \in 1 .. Len(objects[s])
      PROVE  /\ more[s][i].ids = objects[s][i].ids
             /\ more[s][i].read = IF i = g THEN objects[s][i].read \cup hit
                                           ELSE objects[s][i].read
             /\ more[s][i] \in Articles /\ Marked(more[s][i])
  <2>1. objects[s][i] \in Articles /\ objects[s][i].read \subseteq objects[s][i].ids
    BY <1>1 DEF Marked
  <2>2. CASE i = g
    <3>1. hit \subseteq objects[s][i].ids
      BY <1>1, <2>2
    <3>2. more[s][i] = [objects[s][i] EXCEPT !.read = @ \cup hit]
      BY <1>1, <1>3, <2>2
    <3> QED
      BY <2>1, <2>2, <3>1, <3>2 DEF Articles, Marked
  <2>3. CASE i # g
    <3>1. more[s][i] = objects[s][i]
      BY <1>1, <1>3, <2>3
    <3> QED
      BY <2>1, <2>3, <3>1 DEF Marked
  <2> QED
    BY <2>2, <2>3
<1>5. DOMAIN more = Screen /\ DOMAIN more[s] = 1 .. Len(objects[s])
  BY <1>0, <1>1, <1>3
<1>6. more[s] = [i \in 1 .. Len(objects[s]) |-> more[s][i]]
  BY <1>1, <1>3
<1>7. more = [t \in Screen |-> more[t]]
  BY <1>0, <1>1
<1>8. more[s] \in Seq(Articles) /\ Len(more[s]) = Len(objects[s])
  <2>1. more[s] \in [1 .. Len(objects[s]) -> Articles]
    BY <1>4, <1>6
  <2>2. Len(objects[s]) \in Nat
    BY <1>1
  <2> QED
    BY <2>1, <2>2
<1>9. \A t \in Screen : more[t] \in Seq(Articles) /\ Len(more[t]) = Len(objects[t])
  BY <1>1, <1>2, <1>8
<1>10. more \in [Screen -> Seq(Articles)]
  BY <1>7, <1>9
<1>11. \A t \in Screen : \A i \in 1 .. Len(objects[t]) :
         /\ more[t][i].ids = objects[t][i].ids
         /\ objects[t][i].read \subseteq more[t][i].read
         /\ more[t][i].read \subseteq objects[t][i].read \cup hit
         /\ Marked(more[t][i])
  BY <1>1, <1>2, <1>4
<1>12. Sound(more)
  <2>1. \A t \in Screen : DOMAIN more[t] = 1 .. Len(objects[t])
    BY <1>1, <1>9
  <2>2. \A t \in Screen : \A i \in DOMAIN more[t] : Marked(more[t][i])
    BY <1>11, <2>1
  <2> QED
    BY <1>10, <2>2 DEF Sound
<1>13. Shape(more, q, shown, stack, l, opened)
  <2>1. /\ \A t \in Screen : Len(more[t]) = Len(objects[t])
        /\ \A t \in Screen : \A i \in 1 .. Len(objects[t]) :
             more[t][i].ids = objects[t][i].ids
    BY <1>9, <1>11
  <2> QED
    BY <1>12, <2>1, SameArticles
<1> QED
  BY <1>9, <1>11, <1>13

LEMMA TypeHandleClick ==
  ASSUME TypeInv, HandleClick PROVE TypeInv'
<1> USE DEF TypeInv
<1> DEFINE m == Head(queue)
           more == [objects EXCEPT ![m.screen][m.gen].read = @ \cup {m.id}]
           result == [kind |-> "result", screen |-> m.screen, gen |-> m.gen,
                      among |-> listed[m.screen]]
<1>1. /\ Turn("click")
      /\ queue' = Tail(queue)
      /\ objects' = Collect(more, queue', shown, stack)
      /\ UpdateReadStatus(m.id)
      /\ position' = [position EXCEPT ![m.screen] = AdapterPosition(m)]
      /\ reading' = Append(reading, result)
      /\ earned' = earned \cup {m.id}
      /\ marked' = marked \cup ({m.id} \cap published)
      /\ quiet' = IF Waiting({"update"}) THEN quiet
                  ELSE marked' \cap (quiet \cup {m.id})
      /\ UNCHANGED <<job, selectors, listed, dots, published>>
  BY DEF HandleClick
<1>2. UNCHANGED <<running, synced, list, sent, crossed, opened, stack, shown>>
  BY <1>1 DEF Turn, processVars
<1>3. /\ m \in Message /\ m.kind = "click" /\ m.gen \in DOMAIN objects[m.screen]
      /\ m.id \in objects[m.screen][m.gen].ids
      /\ Shape(objects, Tail(queue), shown, stack, listed, opened)
      /\ ProcessOK'
  BY <1>1, HeadFacts DEF MessageOK
<1>4. m.screen \in Screen /\ m.id \in Article /\ m.gen \in Nat \ {0}
  BY <1>3 DEF Message, Result
<1> HIDE DEF m
<1>5. ShapeOK'
  <2>1. {m.id} \subseteq objects[m.screen][m.gen].ids
    BY <1>3
  <2>2. Shape(more, queue', shown, stack, listed, opened)
    <3>1. more = MarkedIn(objects, m.screen, m.gen, {m.id})
      BY DEF MarkedIn
    <3> HIDE DEF more
    <3> QED
      BY <1>1, <1>3, <1>4, <2>1, <3>1, MarkShape
  <2>3. Shape(Collect(more, queue', shown, stack), queue', shown, stack, listed,
              opened)
    BY <2>2, CollectShape
  <2> QED
    BY <1>1, <1>2, <2>3 DEF ShapeOK
<1>6. TableOK'
  <2>1. rows' = [rows EXCEPT !.read = @ \cup ({m.id} \cap rows.ids)]
    BY <1>1 DEF UpdateReadStatus
  <2>2. rows \in Articles /\ rows.read \subseteq rows.ids
    BY DEF TableOK, Marked
  <2>3. Marked(rows')
    BY <2>1, <2>2 DEF Marked, Articles
  <2> QED
    BY <1>1, <1>2, <2>3 DEF TableOK
<1>7. HistoryOK'
  BY <1>1, <1>4 DEF HistoryOK
<1>8. PagesOK'
  <2>1. listed[m.screen] \in SUBSET Article
    BY <1>4, ShapeFacts
  <2>2. AdapterPosition(m) \in Nat \cup {NO_POSITION}
    BY <1>4, <2>1, IndexType DEF AdapterPosition
  <2>3. result \in Result
    BY <1>4, <2>1 DEF Result
  <2> HIDE DEF result
  <2>4. reading' \in Seq(Result)
    BY <1>1, <2>3 DEF PagesOK
  <2>5. position' \in [Screen -> Nat \cup {NO_POSITION}]
    BY <1>1, <1>4, <2>2 DEF PagesOK
  <2> QED
    BY <1>1, <1>2, <2>4, <2>5 DEF PagesOK, Live
<1> QED
  BY <1>3, <1>5, <1>6, <1>7, <1>8

LEMMA TypeDie ==
  ASSUME TypeInv, Die PROVE TypeInv'
<1> USE DEF TypeInv, Die
<1>1. ProcessOK'
  <2>1. sent' \in 0 .. MaxSnapshots
    BY DEF ProcessOK
  <2>2. /\ running' \in BOOLEAN /\ synced' \in BOOLEAN /\ crossed' \in BOOLEAN
        /\ list' \subseteq Article
    OBVIOUS
  <2> QED
    BY <2>1, <2>2 DEF ProcessOK
<1>2. TableOK'
  BY NoJobOK DEF TableOK
<1>3. PagesOK'
  <2>1. reading' \in Seq(Result)
    BY EmptySeq
  <2> QED
    BY <2>1, Bounds DEF PagesOK
<1>4. HistoryOK'
  BY DEF HistoryOK, TableOK, Marked, Articles
<1>5. ShapeOK'
  <2>1. Sound(objects')
    BY EmptySeq DEF Sound
  <2>2. StackOK(stack', opened')
    BY EmptySeq DEF StackOK
  <2>3. QueueOK(queue', objects', opened')
    BY EmptySeq DEF QueueOK
  <2>4. ViewsOK(shown', objects', stack')
    BY DEF ViewsOK, NoViews
  <2>5. RowsOK(listed', objects', stack')
    BY DEF RowsOK
  <2> QED
    BY <2>1, <2>2, <2>3, <2>4, <2>5 DEF ShapeOK, Shape
<1> QED
  BY <1>1, <1>2, <1>3, <1>4, <1>5

\* The rows that the position of a result names are articles of the last list.
LEMMA TypeHandleResult ==
  ASSUME TypeInv, HandleResult PROVE TypeInv'
<1> DEFINE s == Head(queue).screen
           hit == {a \in listed[s] : IndexIn(a, listed[s]) = position[s]}
           g == Len(objects[s])
<1>1. CASE Die
  BY <1>1, TypeDie
<1>2. CASE ~Die
  <2> USE DEF TypeInv
  <2>1. /\ Turn("result")
        /\ objects' = [objects EXCEPT ![s][g].read = @ \cup hit]
        /\ earned' \in {earned, earned \cup hit}
        /\ queue' = Tail(queue)
        /\ UNCHANGED <<job, rows, selectors, listed, position, reading, dots,
                       published, marked, quiet>>
    BY <1>2 DEF HandleResult
  <2>2. UNCHANGED <<running, synced, list, sent, crossed, opened, stack, shown>>
    BY <2>1 DEF Turn, processVars
  <2>3. /\ Head(queue) \in Message /\ Head(queue).kind = "result"
        /\ Shape(objects, Tail(queue), shown, stack, listed, opened)
        /\ ProcessOK'
    BY <2>1, HeadFacts
  <2>4. s \in Screen
    BY <2>3 DEF Message, Result
  <2> HIDE DEF s
  <2>5. listed[s] \subseteq Article /\ hit \subseteq listed[s]
    BY <2>4, ShapeFacts
  <2>6. g \in DOMAIN objects[s] => hit \subseteq objects[s][g].ids
    <3>1. RowsOK(listed, objects, stack)
      BY DEF ShapeOK, Shape
    <3> QED
      BY <2>4, <2>5, <3>1 DEF RowsOK
  <2> HIDE DEF hit, g
  <2>7. ShapeOK'
    <3>1. Shape(objects', Tail(queue), shown, stack, listed, opened)
      <4>1. objects' = MarkedIn(objects, s, g, hit)
        BY <2>1 DEF MarkedIn
      <4> QED
        BY <2>3, <2>4, <2>6, <4>1, MarkShape
    <3> QED
      BY <2>1, <2>2, <3>1 DEF ShapeOK
  <2>8. HistoryOK'
    BY <2>1, <2>5 DEF HistoryOK
  <2> QED
    BY <2>1, <2>2, <2>3, <2>7, <2>8 DEF TableOK, PagesOK, Live
<1> QED
  BY <1>1, <1>2

LEMMA TypeStep ==
  ASSUME TypeInv, [Next]_vars PROVE TypeInv'
<1>1. CASE Start
  BY <1>1, TypeStart
<1>2. CASE OpenScreen
  BY <1>2, TypeOpenScreen
<1>3. CASE CloseScreen
  BY <1>3, TypeCloseScreen
<1>4. CASE Layout
  BY <1>4, TypeLayout
<1>5. CASE Crash
  BY <1>5, TypeDie DEF Crash
<1>6. CASE \E ids \in SUBSET Article : Snapshot(ids)
  BY <1>6, TypeSnapshot
<1>7. CASE \E a \in Article : Touch(a)
  BY <1>7, TypeTouch
<1>8. CASE \E t \in Type : TouchSelector(t)
  BY <1>8, TypeTouchSelector
<1>9. CASE \E ok \in BOOLEAN : CloseArticle(ok)
  BY <1>9, TypeCloseArticle
<1>10. CASE HandleData
  BY <1>10, TypeHandleData
<1>11. CASE HandleUpdate
  BY <1>11, TypeHandleUpdate
<1>12. CASE FinishAdd
  BY <1>12, TypeFinishAdd
<1>13. CASE HandleClick
  BY <1>13, TypeHandleClick
<1>14. CASE HandleResult
  BY <1>14, TypeHandleResult
<1>15. CASE UNCHANGED vars
  BY <1>15 DEF vars, processVars, screenVars, rowVars, history, TypeInv, ProcessOK,
     TableOK, PagesOK, HistoryOK, ShapeOK, Live
<1> QED
  BY <1>1, <1>2, <1>3, <1>4, <1>5, <1>6, <1>7, <1>8, <1>9, <1>10, <1>11, <1>12,
     <1>13, <1>14, <1>15 DEF Next

RefilledOK == refilled \subseteq Screen

\* The history of the rows that snapshots have filled names instances only.
LEMMA RefilledStep ==
  ASSUME TypeInv, RefilledOK, [Next]_vars PROVE RefilledOK'
<1> USE DEF RefilledOK
<1>1. Live \subseteq Screen
  BY ShapeFacts DEF TypeInv
<1>2. CASE UNCHANGED refilled
  BY <1>2
<1>3. CASE refilled' = refilled \ {Visible}
  BY <1>3
<1>4. ASSUME NEW items, NEW instances, NEW rest, Deliver(items, instances, rest)
      PROVE  refilled' \subseteq Screen
  BY <1>1, <1>4 DEF Deliver
<1>5. CASE HandleData
  BY <1>2, <1>4, <1>5 DEF HandleData
<1>6. CASE FinishAdd
  BY <1>4, <1>6 DEF FinishAdd
<1>7. CASE HandleResult \/ Die
  BY <1>2, <1>7 DEF HandleResult, Die
<1>8. CASE \/ CloseScreen \/ (\E t \in Type : TouchSelector(t))
  BY <1>3, <1>8 DEF CloseScreen, TouchSelector
<1>9. CASE \/ Start \/ OpenScreen \/ Layout \/ HandleUpdate \/ HandleClick
           \/ (\E ids \in SUBSET Article : Snapshot(ids))
           \/ (\E a \in Article : Touch(a))
           \/ (\E ok \in BOOLEAN : CloseArticle(ok))
           \/ UNCHANGED vars
  BY <1>2, <1>9 DEF Start, OpenScreen, Layout, HandleUpdate, HandleClick,
     Snapshot, Touch, CloseArticle, vars, screenVars, rowVars
<1> QED
  BY <1>5, <1>6, <1>7, <1>8, <1>9 DEF Next, Crash

\* The shape of every variable, with marks on stored articles only, and nothing
\* that an update or a click holds is ever collected.
THEOREM TypeCorrect == Spec => []TypeOK
<1>1. TypeInv /\ RefilledOK => TypeOK
  <2> SUFFICES ASSUME TypeInv, RefilledOK PROVE TypeOK
    OBVIOUS
  <2> USE DEF TypeInv, RefilledOK
  <2>1. \A k \in DOMAIN queue : queue[k].kind \in {"update", "click"} =>
          queue[k].gen \in DOMAIN objects[queue[k].screen]
    BY DEF ShapeOK, Shape, QueueOK, MessageOK
  <2>2. {running, synced, crossed} \subseteq BOOLEAN
    BY DEF ProcessOK
  <2>3. shown \in [gen : Nat, ids : SUBSET Article]
    BY DEF ShapeOK, Shape, ViewsOK
  <2>4. rows \in Articles /\ rows.read \subseteq rows.ids
    BY DEF TableOK, Marked
  <2> QED
    BY <2>1, <2>2, <2>3, <2>4, ShapeFacts DEF TypeOK, ProcessOK, TableOK, PagesOK,
       HistoryOK
<1>2. Init => RefilledOK
  BY DEF Init, RefilledOK
<1> QED
  BY <1>1, <1>2, TypeInit, TypeStep, RefilledStep, PTL DEF Spec

-----------------------------------------------------------------------------
(* The rows follow the selectors *)

LEMMA LatestSame ==
  ASSUME ShapeOK, ShapeOK', NEW s \in Screen,
         Len(objects'[s]) = Len(objects[s]),
         Len(objects[s]) # 0 =>
           objects'[s][Len(objects[s])].ids = objects[s][Len(objects[s])].ids
  PROVE  Latest(s)'.ids = Latest(s).ids
<1>1. objects \in [Screen -> Seq(Articles)] /\ objects' \in [Screen -> Seq(Articles)]
  BY DEF ShapeOK, Shape, Sound
<1>2. CASE Len(objects[s]) = 0
  <2>1. objects[s] = <<>> /\ objects'[s] = <<>>
    BY <1>1, <1>2, EmptySeq
  <2> QED
    BY <2>1 DEF Latest
<1>3. CASE Len(objects[s]) # 0
  <2>1. objects[s] # <<>> /\ objects'[s] # <<>>
    BY <1>3
  <2> QED
    BY <1>3, <2>1 DEF Latest
<1> QED
  BY <1>2, <1>3

\* The latest articles of an instance that stays are not collected.
LEMMA LatestCollected ==
  ASSUME NEW objs, Sound(objs), NEW q, NEW v, NEW st, NEW s \in Screen,
         s \in LiveIn(st)
  PROVE  /\ Len(Collect(objs, q, v, st)[s]) = Len(objs[s])
         /\ Len(objs[s]) # 0 =>
              Collect(objs, q, v, st)[s][Len(objs[s])] = objs[s][Len(objs[s])]
<1> DEFINE left == Collect(objs, q, v, st)
<1>1. /\ Len(left[s]) = Len(objs[s])
      /\ \A g \in 1 .. Len(objs[s]) :
           (\E k \in DOMAIN st : st[k] = s /\ g = Len(objs[s]))
             => left[s][g] = objs[s][g]
  BY CollectKeeps
<1>2. \E k \in DOMAIN st : st[k] = s
  BY DEF LiveIn
<1>3. Len(objs[s]) # 0 => Len(objs[s]) \in 1 .. Len(objs[s])
  BY DEF Sound
<1> QED
  BY <1>1, <1>2, <1>3

\* A step that leaves the rows, the selectors and the lists of the instances.
LEMMA SelectorsFrame ==
  ASSUME RowsFollowSelectors, UNCHANGED <<selectors, listed, refilled>>,
         Live' \subseteq Live,
         \A s \in Live' : Latest(s)'.ids = Latest(s).ids
  PROVE  RowsFollowSelectors'
  BY DEF RowsFollowSelectors

\* A step that collects and marks at most.
LEMMA SelectorsCollect ==
  ASSUME TypeInv, TypeInv', RowsFollowSelectors,
         UNCHANGED <<selectors, listed, refilled, stack>>,
         NEW more, Sound(more),
         \A s \in Screen : Len(more[s]) = Len(objects[s]),
         \A s \in Screen : \A g \in 1 .. Len(objects[s]) :
           more[s][g].ids = objects[s][g].ids,
         NEW q, NEW v, objects' = Collect(more, q, v, stack) \/ objects' = more
  PROVE  RowsFollowSelectors'
<1>1. Live' = Live /\ Live = LiveIn(stack) /\ Live \subseteq Screen
  BY ShapeFacts DEF Live, LiveIn, TypeInv
<1>2. ASSUME NEW s \in Live PROVE Latest(s)'.ids = Latest(s).ids
  <2>1. s \in Screen /\ Len(objects[s]) \in Nat
    BY <1>1, ShapeFacts DEF TypeInv
  <2>2. Len(objects[s]) # 0 => Len(objects[s]) \in 1 .. Len(objects[s])
    BY <2>1
  <2>3. /\ Len(objects'[s]) = Len(more[s])
        /\ Len(more[s]) # 0 => objects'[s][Len(more[s])] = more[s][Len(more[s])]
    BY <1>1, <2>1, LatestCollected
  <2> QED
    BY <2>1, <2>2, <2>3, LatestSame DEF TypeInv
<1> QED
  BY <1>1, <1>2, SelectorsFrame

\* A step that brings new articles.
LEMMA SelectorsDelivered ==
  ASSUME TypeInv, TypeInv', RowsFollowSelectors, NEW rest,
         Shape(objects, rest, shown, stack, listed, opened),
         NEW items, Marked(items), NEW instances, Batch(instances, opened),
         Deliver(items, instances, rest), UNCHANGED <<stack, opened>>
  PROVE  RowsFollowSelectors'
<1>1. /\ \A s \in instances : objects'[s][Len(objects[s]) + 1] = items
      /\ \A s \in instances : Len(objects'[s]) = Len(objects[s]) + 1
      /\ \A s \in Screen \ instances : Len(objects'[s]) = Len(objects[s])
      /\ \A s \in Live \ instances : Len(objects[s]) # 0 =>
           objects'[s][Len(objects[s])] = objects[s][Len(objects[s])]
  BY Delivered DEF TypeInv, PagesOK
<1>2. Live' = Live /\ Live \subseteq Screen
  BY ShapeFacts DEF Live, TypeInv
<1>3. /\ listed' = [s \in Screen |-> IF s \in instances \cap Live
                                       THEN items.ids ELSE listed[s]]
      /\ refilled' = refilled
           \cup {s \in instances \cap Live : selectors[s] # {}}
      /\ UNCHANGED selectors
  BY DEF Deliver
<1>4. ASSUME NEW s \in Live
      PROVE  Titles(listed'[s]) =
               Titles(IF s \in refilled' THEN Latest(s)'.ids
                      ELSE Filtered(Latest(s)'.ids, selectors'[s]))
  <2>0. s \in Screen /\ Len(objects[s]) \in Nat
    BY <1>2, ShapeFacts DEF TypeInv
  <2>1. CASE s \in instances
    <3>1. listed'[s] = items.ids
      BY <1>3, <2>0, <2>1
    <3>2. Len(objects'[s]) = Len(objects[s]) + 1
      BY <1>1, <2>0, <2>1
    <3>3. objects'[s] # <<>> /\ objects'[s][Len(objects'[s])] = items
      BY <1>1, <2>0, <2>1, <3>2
    <3>4. Latest(s)' = items
      BY <3>3 DEF Latest
    <3>5. s \notin refilled' => selectors'[s] = {}
      BY <1>3, <2>1
    <3>6. Filtered(items.ids, {}) = items.ids
      BY DEF Filtered
    <3> QED
      BY <3>1, <3>4, <3>5, <3>6
  <2>2. CASE s \notin instances
    <3>1. listed'[s] = listed[s]
      BY <1>3, <2>0, <2>2
    <3>2. Latest(s)'.ids = Latest(s).ids
      <4>1. Len(objects'[s]) = Len(objects[s])
        BY <1>1, <2>0, <2>2
      <4>2. Len(objects[s]) # 0 =>
              objects'[s][Len(objects[s])].ids = objects[s][Len(objects[s])].ids
        BY <1>1, <2>2
      <4> QED
        BY <2>0, <4>1, <4>2, LatestSame DEF TypeInv
    <3> QED
      BY <1>3, <2>2, <3>1, <3>2 DEF RowsFollowSelectors
  <2> QED
    BY <2>1, <2>2
<1> QED
  BY <1>2, <1>4 DEF RowsFollowSelectors

LEMMA SelectorsOpenScreen ==
  ASSUME TypeInv, TypeInv', RowsFollowSelectors, OpenScreen
  PROVE  RowsFollowSelectors'
<1> DEFINE new == opened + 1
<1>1. /\ opened < MaxScreens /\ stack' = Append(stack, new)
      /\ objects' = Collect(objects, queue', shown', stack')
      /\ UNCHANGED <<selectors, listed, refilled>>
  BY DEF OpenScreen
<1>2. opened \in Nat /\ new \in Screen /\ new > opened
  BY <1>1, Bounds DEF TypeInv, PagesOK, Screen
<1>3. /\ stack \in Seq(Screen) /\ Live \subseteq Screen /\ Sound(objects)
      /\ RowsOK(listed, objects, stack) /\ StackOK(stack, opened)
      /\ objects[new] = <<>>
  BY <1>2, ShapeFacts DEF TypeInv, ShapeOK, Shape
<1> HIDE DEF new
<1>4. Live' = Live \cup {new} /\ Live' = LiveIn(stack')
  BY <1>1, <1>2, <1>3 DEF Live, LiveIn
<1>5. listed[new] = {}
  BY <1>2, <1>3 DEF RowsOK
<1>6. ASSUME NEW s \in Live' PROVE Latest(s)'.ids = Latest(s).ids
  <2>1. s \in Screen
    BY <1>2, <1>3, <1>4
  <2>2. /\ Len(objects'[s]) = Len(objects[s])
        /\ Len(objects[s]) # 0 => objects'[s][Len(objects[s])] = objects[s][Len(objects[s])]
    BY <1>1, <1>3, <1>4, <2>1, LatestCollected
  <2> QED
    BY <2>1, <2>2, LatestSame DEF TypeInv
<1>7. ASSUME NEW s \in Live'
      PROVE  Titles(listed'[s]) =
               Titles(IF s \in refilled' THEN Latest(s)'.ids
                      ELSE Filtered(Latest(s)'.ids, selectors'[s]))
  <2>1. CASE s \in Live
    BY <1>1, <1>6, <2>1 DEF RowsFollowSelectors
  <2>2. CASE s = new
    <3>1. Latest(s)'.ids = {}
      BY <1>3, <1>6, <2>2 DEF Latest, Nothing
    <3>2. \A active : Filtered({}, active) = {}
      BY DEF Filtered
    <3> QED
      BY <1>1, <1>5, <2>2, <3>1, <3>2
  <2> QED
    BY <1>4, <2>1, <2>2
<1> QED
  BY <1>7 DEF RowsFollowSelectors

LEMMA SelectorsCloseScreen ==
  ASSUME TypeInv, TypeInv', RowsFollowSelectors, CloseScreen
  PROVE  RowsFollowSelectors'
<1>1. /\ stack # <<>> /\ stack' = SubSeq(stack, 1, Len(stack) - 1)
      /\ selectors' = [selectors EXCEPT ![Visible] = {}]
      /\ listed' = [listed EXCEPT ![Visible] = {}]
      /\ refilled' = refilled \ {Visible}
      /\ objects' = Collect(objects, queue, shown', stack')
  BY DEF CloseScreen
<1>2. /\ stack \in Seq(Screen) /\ Len(stack) \in Nat /\ DOMAIN stack = 1 .. Len(stack)
      /\ StackOK(stack, opened) /\ Sound(objects)
      /\ Visible = stack[Len(stack)] /\ Len(stack) \in DOMAIN stack
      /\ Live \subseteq Screen
      /\ listed \in [Screen -> SUBSET Article] /\ selectors \in [Screen -> SUBSET Type]
  BY <1>1, ShapeFacts DEF TypeInv, ShapeOK, Shape, Visible, PagesOK
<1>3. /\ DOMAIN stack' = 1 .. Len(stack) - 1
      /\ \A k \in 1 .. Len(stack) - 1 : stack'[k] = stack[k]
  BY <1>1, <1>2
<1>4. Live' \subseteq Live \ {Visible} /\ Live' = LiveIn(stack')
  <2>1. ASSUME NEW k \in DOMAIN stack'
        PROVE  stack'[k] \in Live /\ stack'[k] # Visible
    <3>1. k \in DOMAIN stack /\ k # Len(stack) /\ stack'[k] = stack[k]
      BY <1>2, <1>3
    <3> QED
      BY <1>2, <3>1 DEF Live, StackOK
  <2> QED
    BY <2>1 DEF Live, LiveIn
<1>5. ASSUME NEW s \in Live' PROVE Latest(s)'.ids = Latest(s).ids
  <2>1. s \in Screen
    BY <1>2, <1>4
  <2>2. /\ Len(objects'[s]) = Len(objects[s])
        /\ Len(objects[s]) # 0 => objects'[s][Len(objects[s])] = objects[s][Len(objects[s])]
    BY <1>1, <1>2, <1>4, <2>1, LatestCollected
  <2> QED
    BY <2>1, <2>2, LatestSame DEF TypeInv
<1>6. \A s \in Live' : /\ listed'[s] = listed[s] /\ selectors'[s] = selectors[s]
                       /\ s \in refilled' <=> s \in refilled
  BY <1>1, <1>2, <1>4
<1> QED
  BY <1>4, <1>5, <1>6 DEF RowsFollowSelectors

LEMMA SelectorsTouch ==
  ASSUME TypeInv, TypeInv', RowsFollowSelectors, NEW t \in Type, TouchSelector(t)
  PROVE  RowsFollowSelectors'
<1> DEFINE active == IF t \in selectors[Visible] THEN selectors[Visible] \ {t}
                                                 ELSE selectors[Visible] \cup {t}
           left == FilterItems(Latest(Visible).ids, listed[Visible], active)
<1>1. /\ stack # <<>>
      /\ selectors' = [selectors EXCEPT ![Visible] = active]
      /\ listed' = [listed EXCEPT ![Visible] = left]
      /\ refilled' = refilled \ {Visible}
      /\ UNCHANGED <<stack, objects>>
  BY DEF TouchSelector
<1>2. /\ Visible \in Screen /\ Live \subseteq Screen
      /\ Latest(Visible) \in Articles
      /\ listed \in [Screen -> SUBSET Article] /\ selectors \in [Screen -> SUBSET Type]
  BY <1>1, ShapeFacts DEF TypeInv, PagesOK
<1>3. Titles(left) = Titles(Filtered(Latest(Visible).ids, active))
  BY <1>2, FilterShowsTheTitles DEF Articles
<1> HIDE DEF active, left
<1>4. Live' = Live /\ \A s \in Live : Latest(s)' = Latest(s)
  BY <1>1 DEF Live, Latest
<1>5. ASSUME NEW s \in Live
      PROVE  Titles(listed'[s]) =
               Titles(IF s \in refilled' THEN Latest(s).ids
                      ELSE Filtered(Latest(s).ids, selectors'[s]))
  <2>1. CASE s = Visible
    BY <1>1, <1>2, <1>3, <2>1
  <2>2. CASE s # Visible
    BY <1>1, <1>2, <2>2 DEF RowsFollowSelectors
  <2> QED
    BY <2>1, <2>2
<1> QED
  BY <1>4, <1>5 DEF RowsFollowSelectors

LEMMA SelectorsStep ==
  ASSUME TypeInv, TypeInv', RowsFollowSelectors, [Next]_vars
  PROVE  RowsFollowSelectors'
<1> DEFINE m == Head(queue)
<1>1. Sound(objects)
  BY ShapeFacts DEF TypeInv
<1>2. CASE UNCHANGED <<selectors, listed, refilled, stack, objects>>
  <2>1. Live' = Live /\ \A s \in Live : Latest(s)' = Latest(s)
    BY <1>2 DEF Live, Latest
  <2> QED
    BY <1>2, <2>1, SelectorsFrame
<1>3. CASE /\ UNCHANGED <<selectors, listed, refilled, stack>>
           /\ \E q, v : objects' = Collect(objects, q, v, stack)
  BY <1>1, <1>3, SelectorsCollect
<1>4. CASE HandleData
  <2>1. UNCHANGED <<stack, opened>> /\ Turn("data")
    BY <1>4 DEF HandleData, Turn
  <2>2. CASE UNCHANGED <<objects, selectors, listed, refilled>>
    BY <1>2, <2>1, <2>2
  <2>3. CASE Deliver(Parse(m.ids, rows), m.for, Tail(queue))
    <3>1. m \in Message /\ m.kind = "data" /\ Batch(m.for, opened)
      BY <2>1, HeadFacts DEF MessageOK
    <3>2. Marked(Parse(m.ids, rows))
      BY <3>1, ParseMarked DEF Message, Result
    <3> QED
      BY <2>1, <2>3, <3>1, <3>2, HeadFacts, SelectorsDelivered
  <2> QED
    BY <1>4, <2>2, <2>3 DEF HandleData
<1>5. CASE HandleUpdate
  BY <1>3, <1>5 DEF HandleUpdate, Turn
<1>6. CASE FinishAdd
  <2>1. Deliver(job.items, job.for, queue) /\ UNCHANGED <<stack, opened>>
    BY <1>6 DEF FinishAdd
  <2>2. Marked(job.items) /\ Batch(job.for, opened)
    BY DEF TypeInv, TableOK
  <2> QED
    BY <2>1, <2>2, SelectorsDelivered DEF TypeInv, ShapeOK
<1>7. CASE HandleClick
  <2> DEFINE more == [objects EXCEPT ![m.screen][m.gen].read = @ \cup {m.id}]
  <2>1. /\ Turn("click") /\ UNCHANGED <<selectors, listed, refilled, stack>>
        /\ objects' = Collect(more, queue', shown, stack)
    BY <1>7 DEF HandleClick, Turn
  <2>2. /\ m \in Message /\ m.kind = "click"
        /\ m.id \in objects[m.screen][m.gen].ids
    BY <2>1, HeadFacts DEF MessageOK
  <2>3. m.screen \in Screen
    BY <2>2 DEF Message, Result
  <2> HIDE DEF m
  <2>4. {m.id} \subseteq objects[m.screen][m.gen].ids
    BY <2>2
  <2>5. /\ Shape(more, queue, shown, stack, listed, opened)
        /\ \A s \in Screen : Len(more[s]) = Len(objects[s])
        /\ \A s \in Screen : \A g \in 1 .. Len(objects[s]) :
             more[s][g].ids = objects[s][g].ids
    <3>1. Shape(objects, queue, shown, stack, listed, opened)
      BY DEF TypeInv, ShapeOK
    <3>2. more = MarkedIn(objects, m.screen, m.gen, {m.id})
      BY DEF MarkedIn
    <3> HIDE DEF more
    <3> QED
      BY <2>3, <2>4, <3>1, <3>2, MarkShape
  <2>6. Sound(more)
    BY <2>5 DEF Shape
  <2> HIDE DEF more
  <2> QED
    BY <2>1, <2>5, <2>6, SelectorsCollect
<1>8. CASE HandleResult /\ ~Die
  <2> DEFINE s == m.screen
             g == Len(objects[s])
             hit == {a \in listed[s] : IndexIn(a, listed[s]) = position[s]}
             more == [objects EXCEPT ![s][g].read = @ \cup hit]
  <2>1. Turn("result") /\ UNCHANGED <<selectors, listed, refilled, stack>> /\ objects' = more
    BY <1>8 DEF HandleResult, Turn
  <2>2. m \in Message /\ m.kind = "result"
    BY <2>1, HeadFacts
  <2>3. s \in Screen
    BY <2>2 DEF Message, Result
  <2> HIDE DEF m, s
  <2>4. hit \subseteq listed[s] /\ RowsOK(listed, objects, stack)
    BY DEF TypeInv, ShapeOK, Shape
  <2> HIDE DEF hit
  <2>5. g \in DOMAIN objects[s] => hit \subseteq objects[s][g].ids
    BY <2>3, <2>4 DEF RowsOK
  <2>6. /\ Shape(more, queue, shown, stack, listed, opened)
        /\ \A t \in Screen : Len(more[t]) = Len(objects[t])
        /\ \A t \in Screen : \A i \in 1 .. Len(objects[t]) :
             more[t][i].ids = objects[t][i].ids
    <3>1. Shape(objects, queue, shown, stack, listed, opened)
      BY DEF TypeInv, ShapeOK
    <3>2. more = MarkedIn(objects, s, g, hit)
      BY DEF MarkedIn
    <3> HIDE DEF g, more
    <3> QED
      BY <2>3, <2>5, <3>1, <3>2, MarkShape
  <2>7. Sound(more)
    BY <2>6 DEF Shape
  <2> HIDE DEF more
  <2> QED
    BY <2>1, <2>6, <2>7, SelectorsCollect
<1>9. CASE Die
  <2>1. Live' = {}
    BY <1>9 DEF Die, Live
  <2> QED
    BY <2>1 DEF RowsFollowSelectors
<1>10. CASE Layout
  BY <1>3, <1>10 DEF Layout
<1>11. CASE OpenScreen \/ CloseScreen \/ \E t \in Type : TouchSelector(t)
  BY <1>11, SelectorsOpenScreen, SelectorsCloseScreen, SelectorsTouch
<1>12. CASE Start \/ (\E ids \in SUBSET Article : Snapshot(ids))
              \/ (\E a \in Article : Touch(a)) \/ UNCHANGED vars
  BY <1>2, <1>12 DEF Start, Snapshot, Touch, vars, screenVars, rowVars
<1>13. CASE \E ok \in BOOLEAN : CloseArticle(ok)
  BY <1>2, <1>13 DEF CloseArticle, rowVars
<1> QED
  BY <1>4, <1>5, <1>6, <1>7, <1>8, <1>9, <1>10, <1>11, <1>12, <1>13 DEF Next, Crash

\* After any sequence of selectors, snapshots and instances opened and closed,
\* the rows are those of the selectors that are active, and of no other filter,
\* unless a snapshot has filled in everything since a selector was last touched.
THEOREM RowsAlwaysFollow == Spec => []RowsFollowSelectors
<1>1. Init => RowsFollowSelectors
  BY DEF Init, RowsFollowSelectors, Live
<1>2. TypeInv /\ RowsFollowSelectors /\ [Next]_vars => (TypeInv /\ RowsFollowSelectors)'
  BY TypeStep, SelectorsStep
<1> QED
  BY <1>1, <1>2, TypeInit, PTL DEF Spec

-----------------------------------------------------------------------------
(* The order of the updates: the last one writes the last list *)

NoneOf(q, kind) == \A k \in DOMAIN q : q[k].kind # kind

LastOf(q, k, kind) ==
  /\ k \in DOMAIN q /\ q[k].kind = kind
  /\ \A j \in DOMAIN q : j > k => q[j].kind # kind

NoObjects == \A s \in Screen : objects[s] = <<>>

\* A list that is for no instance was sent before any was opened, so that nothing
\* else is waiting to write the table.
EarlyLists ==
  /\ \A k \in DOMAIN queue : queue[k].kind = "data" /\ queue[k].for = {} =>
       /\ \A j \in DOMAIN queue :
            j < k /\ queue[j].kind = "data" => queue[j].for = {}
       /\ NoObjects /\ job.for = {}
  /\ \A k \in DOMAIN queue : queue[k].kind = "data" /\ ~queue[k].news =>
       queue[k].for # {}
  /\ job.busy /\ job.news /\ job.for = {} => NoObjects
  /\ ~job.news => job.for = {}

\* What is written last is what was published last.
LastWrite ==
  /\ ~(job.busy /\ job.news) =>
       \A k \in DOMAIN queue : LastOf(queue, k, "update") =>
         objects[queue[k].screen][queue[k].gen].ids = published
  /\ job.busy /\ (job.news \/ NoneOf(queue, "update")) => job.items.ids = published
  /\ ~job.busy /\ NoneOf(queue, "update") =>
       /\ published \subseteq rows.ids
       /\ synced /\ NoneOf(queue, "data") => rows.ids = published

LastList ==
  synced =>
    /\ \A k \in DOMAIN queue : LastOf(queue, k, "data") => queue[k].ids = list
    /\ NoneOf(queue, "data") => published = list

OrderInv == EarlyLists /\ LastWrite /\ LastList

\* Steps that write no table and bring no list: the queue moves by d at most.
Moved(d) ==
  /\ \A k \in DOMAIN queue' :
       IF k + d \in DOMAIN queue THEN queue'[k] = queue[k + d]
                                 ELSE queue'[k].kind \notin {"data", "update"}
  /\ \A k \in DOMAIN queue : queue[k].kind \in {"data", "update"} =>
       k - d \in DOMAIN queue' /\ queue'[k - d] = queue[k]

Minor ==
  /\ UNCHANGED <<job, synced, list, published>>
  /\ rows'.ids = rows.ids /\ rows.read \subseteq rows'.read
  /\ \A s \in Screen : objects[s] = <<>> => objects'[s] = <<>>
  /\ \A k \in DOMAIN queue' : queue'[k].kind = "update" =>
       /\ objects'[queue'[k].screen][queue'[k].gen].ids
            = objects[queue'[k].screen][queue'[k].gen].ids
       /\ objects[queue'[k].screen][queue'[k].gen].read
            \subseteq objects'[queue'[k].screen][queue'[k].gen].read

LEMMA OrderMinor ==
  ASSUME TypeInv, TypeInv', OrderInv, NEW d \in {0, 1}, Moved(d), Minor
  PROVE  OrderInv'
<1>1. /\ DOMAIN queue = 1 .. Len(queue) /\ Len(queue) \in Nat
      /\ DOMAIN queue' = 1 .. Len(queue') /\ Len(queue') \in Nat
  BY DEF TypeInv, ShapeOK, Shape, QueueOK
<1>2. ASSUME NEW k \in DOMAIN queue', queue'[k].kind \in {"data", "update"}
      PROVE  k + d \in DOMAIN queue /\ queue'[k] = queue[k + d]
  BY <1>2 DEF Moved
<1>3. \A kind \in {"data", "update"} : NoneOf(queue', kind) <=> NoneOf(queue, kind)
  BY <1>2 DEF Moved, NoneOf
<1>4. ASSUME NEW kind \in {"data", "update"}, NEW k \in DOMAIN queue',
             LastOf(queue', k, kind)
      PROVE  LastOf(queue, k + d, kind) /\ queue'[k] = queue[k + d]
  <2>1. k + d \in DOMAIN queue /\ queue'[k] = queue[k + d] /\ queue[k + d].kind = kind
    BY <1>2, <1>4 DEF LastOf
  <2>2. ASSUME NEW j \in DOMAIN queue, j > k + d, queue[j].kind = kind
        PROVE  FALSE
    <3>1. j - d \in DOMAIN queue' /\ queue'[j - d] = queue[j]
      BY <2>2 DEF Moved
    <3>2. j - d > k
      BY <1>1, <2>2
    <3> QED
      BY <1>4, <2>2, <3>1, <3>2 DEF LastOf
  <2> QED
    BY <2>1, <2>2 DEF LastOf
<1>5. NoObjects => NoObjects'
  BY DEF NoObjects, Minor
<1>6. EarlyLists'
  <2>1. ASSUME NEW k \in DOMAIN queue', queue'[k].kind = "data", queue'[k].for = {}
        PROVE  /\ \A j \in DOMAIN queue' :
                    j < k /\ queue'[j].kind = "data" => queue'[j].for = {}
               /\ NoObjects' /\ job'.for = {}
    <3>1. k + d \in DOMAIN queue /\ queue'[k] = queue[k + d]
      BY <1>2, <2>1
    <3>2. /\ \A j \in DOMAIN queue :
               j < k + d /\ queue[j].kind = "data" => queue[j].for = {}
          /\ NoObjects /\ job.for = {}
      BY <2>1, <3>1 DEF OrderInv, EarlyLists
    <3>3. ASSUME NEW j \in DOMAIN queue', j < k, queue'[j].kind = "data"
          PROVE  queue'[j].for = {}
      <4>1. j + d \in DOMAIN queue /\ queue'[j] = queue[j + d]
        BY <1>2, <3>3
      <4>2. j + d < k + d
        BY <1>1, <3>3
      <4> QED
        BY <3>2, <3>3, <4>1, <4>2
    <3> QED
      BY <1>5, <3>2, <3>3 DEF Minor
  <2>2. \A k \in DOMAIN queue' : queue'[k].kind = "data" /\ ~queue'[k].news =>
          queue'[k].for # {}
    BY <1>2 DEF OrderInv, EarlyLists
  <2> QED
    BY <1>5, <2>1, <2>2 DEF OrderInv, EarlyLists, Minor
<1>7. LastWrite'
  <2>1. ASSUME ~(job.busy /\ job.news), NEW k \in DOMAIN queue',
               LastOf(queue', k, "update")
        PROVE  objects'[queue'[k].screen][queue'[k].gen].ids = published
    <3>1. LastOf(queue, k + d, "update") /\ queue'[k] = queue[k + d]
      BY <1>4, <2>1
    <3>2. objects[queue'[k].screen][queue'[k].gen].ids = published
      BY <2>1, <3>1 DEF OrderInv, LastWrite, LastOf
    <3> QED
      BY <2>1, <3>2 DEF Minor, LastOf
  <2> QED
    BY <1>3, <2>1 DEF OrderInv, LastWrite, Minor
<1>8. LastList'
  BY <1>3, <1>4 DEF OrderInv, LastList, Minor, LastOf
<1> QED
  BY <1>6, <1>7, <1>8 DEF OrderInv

\* The objects of the waiting updates are not collected.
LEMMA UpdatesCollected ==
  ASSUME NEW objs, Sound(objs), NEW q, NEW n, QueueOK(q, objs, n), NEW v, NEW st
  PROVE  /\ \A k \in DOMAIN q : q[k].kind = "update" =>
              /\ q[k].screen \in Screen
              /\ q[k].gen \in 1 .. Len(objs[q[k].screen])
              /\ Collect(objs, q, v, st)[q[k].screen][q[k].gen]
                   = objs[q[k].screen][q[k].gen]
         /\ \A s \in Screen : objs[s] = <<>> <=> Collect(objs, q, v, st)[s] = <<>>
<1> DEFINE left == Collect(objs, q, v, st)
<1>1. /\ Sound(left)
      /\ \A s \in Screen : Len(left[s]) = Len(objs[s])
      /\ \A s \in Screen : \A g \in 1 .. Len(objs[s]) :
           (\E k \in DOMAIN q : /\ q[k].kind \in {"update", "click"}
                                /\ q[k].screen = s /\ q[k].gen = g)
             => left[s][g] = objs[s][g]
  BY CollectKeeps
<1> HIDE DEF left
<1>2. \A s \in Screen : /\ objs[s] \in Seq(Articles) /\ left[s] \in Seq(Articles)
                        /\ DOMAIN objs[s] = 1 .. Len(objs[s])
  BY <1>1 DEF Sound
<1>3. \A s \in Screen : objs[s] = <<>> <=> left[s] = <<>>
  <2>1. \A s \in Screen : /\ objs[s] = <<>> <=> Len(objs[s]) = 0
                          /\ left[s] = <<>> <=> Len(left[s]) = 0
    BY <1>2, EmptySeq
  <2> QED
    BY <1>1, <2>1
<1>4. ASSUME NEW k \in DOMAIN q, q[k].kind = "update"
      PROVE  /\ q[k].screen \in Screen
             /\ q[k].gen \in 1 .. Len(objs[q[k].screen])
             /\ left[q[k].screen][q[k].gen] = objs[q[k].screen][q[k].gen]
  <2>1. MessageOK(q[k], objs, n) /\ q[k] \in Message
    BY DEF QueueOK, MessageOK
  <2>2. q[k].screen \in Screen
    BY <1>4, <2>1 DEF Message, Result
  <2>3. q[k].gen \in 1 .. Len(objs[q[k].screen])
    BY <1>2, <1>4, <2>1, <2>2 DEF MessageOK
  <2> QED
    BY <1>1, <1>4, <2>2, <2>3
<1> QED
  BY <1>3, <1>4 DEF left

\* A step after which the queue holds the same messages or one more of the user's.
LEMMA MovedAppend ==
  ASSUME TypeInv, NEW m, m.kind \notin {"data", "update"}, queue' = Append(queue, m)
  PROVE  Moved(0)
<1>1. queue \in Seq(Message) /\ Len(queue) \in Nat /\ DOMAIN queue = 1 .. Len(queue)
  BY DEF TypeInv, ShapeOK, Shape, QueueOK
<1>2. /\ DOMAIN queue' = 1 .. Len(queue) + 1
      /\ \A k \in 1 .. Len(queue) : queue'[k] = queue[k]
      /\ queue'[Len(queue) + 1] = m
  BY <1>1
<1>3. ASSUME NEW k \in DOMAIN queue'
      PROVE  IF k + 0 \in DOMAIN queue THEN queue'[k] = queue[k + 0]
                                       ELSE queue'[k].kind \notin {"data", "update"}
  <2>1. k + 0 = k
    BY <1>2, <1>1
  <2>2. k \in DOMAIN queue \/ k = Len(queue) + 1
    BY <1>1, <1>2
  <2> QED
    BY <1>1, <1>2, <2>1, <2>2
<1>4. ASSUME NEW k \in DOMAIN queue PROVE k - 0 \in DOMAIN queue' /\ queue'[k - 0] = queue[k]
  <2>1. k - 0 = k /\ k \in DOMAIN queue'
    BY <1>1, <1>2
  <2> QED
    BY <1>1, <1>2, <2>1
<1> QED
  BY <1>3, <1>4 DEF Moved

LEMMA MovedSame ==
  ASSUME TypeInv, UNCHANGED queue
  PROVE  Moved(0)
<1>1. Len(queue) \in Nat /\ DOMAIN queue = 1 .. Len(queue)
  BY DEF TypeInv, ShapeOK, Shape, QueueOK
<1>2. \A k \in DOMAIN queue : k + 0 = k /\ k - 0 = k
  BY <1>1
<1> QED
  BY <1>2 DEF Moved

LEMMA MovedTail ==
  ASSUME TypeInv, NEW kind, kind \notin {"data", "update"}, Turn(kind),
         queue' = Tail(queue)
  PROVE  Moved(1)
<1>1. /\ queue # <<>> /\ queue[1].kind = kind
      /\ queue \in Seq(Message) /\ Len(queue) \in Nat /\ DOMAIN queue = 1 .. Len(queue)
      /\ Len(Tail(queue)) = Len(queue) - 1
      /\ \A k \in DOMAIN queue' : k + 1 \in DOMAIN queue /\ queue'[k] = queue[k + 1]
  BY HeadFacts, ShapeFacts DEF TypeInv
<1>2. Tail(queue) \in Seq(Message)
  BY <1>1
<1>3. DOMAIN queue' = 1 .. Len(queue) - 1
  BY <1>1, <1>2
<1>4. ASSUME NEW k \in DOMAIN queue, queue[k].kind \in {"data", "update"}
      PROVE  k - 1 \in DOMAIN queue' /\ queue'[k - 1] = queue[k]
  <2>1. k # 1
    BY <1>1, <1>4
  <2>2. k - 1 \in DOMAIN queue' /\ (k - 1) + 1 = k
    BY <1>1, <1>3, <2>1
  <2> QED
    BY <1>1, <2>2
<1> QED
  BY <1>1, <1>4 DEF Moved

\* Collecting and marking are minor.
LEMMA MinorCollect ==
  ASSUME TypeInv, TypeInv', UNCHANGED <<job, synced, list, published>>,
         rows'.ids = rows.ids, rows.read \subseteq rows'.read,
         NEW more, Sound(more), QueueOK(queue', more, opened'),
         \A s \in Screen : Len(more[s]) = Len(objects[s]),
         \A s \in Screen : \A g \in 1 .. Len(objects[s]) :
           more[s][g].ids = objects[s][g].ids,
         \A s \in Screen : \A g \in 1 .. Len(objects[s]) :
           objects[s][g].read \subseteq more[s][g].read,
         NEW v, NEW st, objects' = more \/ objects' = Collect(more, queue', v, st)
  PROVE  Minor
<1>1. \A s \in Screen : objects[s] = <<>> => more[s] = <<>>
  <2>1. \A s \in Screen : objects[s] \in Seq(Articles) /\ more[s] \in Seq(Articles)
    BY ShapeFacts DEF TypeInv, Sound
  <2>2. \A s \in Screen : /\ objects[s] = <<>> <=> Len(objects[s]) = 0
                          /\ more[s] = <<>> <=> Len(more[s]) = 0
    BY <2>1, EmptySeq
  <2> QED
    BY <2>2
<1>2. /\ \A k \in DOMAIN queue' : queue'[k].kind = "update" =>
           /\ queue'[k].screen \in Screen
           /\ queue'[k].gen \in 1 .. Len(more[queue'[k].screen])
           /\ objects'[queue'[k].screen][queue'[k].gen]
                = more[queue'[k].screen][queue'[k].gen]
      /\ \A s \in Screen : more[s] = <<>> <=> objects'[s] = <<>>
  BY UpdatesCollected
<1>3. ASSUME NEW k \in DOMAIN queue', queue'[k].kind = "update"
      PROVE  /\ objects'[queue'[k].screen][queue'[k].gen].ids
                  = objects[queue'[k].screen][queue'[k].gen].ids
             /\ objects[queue'[k].screen][queue'[k].gen].read
                  \subseteq objects'[queue'[k].screen][queue'[k].gen].read
  <2>1. queue'[k].screen \in Screen
        /\ queue'[k].gen \in 1 .. Len(objects[queue'[k].screen])
    BY <1>2, <1>3
  <2> QED
    BY <1>2, <1>3, <2>1
<1> QED
  BY <1>1, <1>2, <1>3 DEF Minor

\* The steps of the user and of the screen, and of the messages but the updates.
LEMMA MinorSteps ==
  ASSUME TypeInv, TypeInv',
         \/ Start \/ CloseScreen \/ Layout \/ UNCHANGED vars
         \/ OpenScreen /\ UNCHANGED queue
         \/ \E a \in Article : Touch(a)
         \/ \E t \in Type : TouchSelector(t)
         \/ \E ok \in BOOLEAN : CloseArticle(ok)
         \/ HandleClick \/ (HandleResult /\ ~Die)
  PROVE  Minor /\ \E d \in {0, 1} : Moved(d)
<1> USE DEF processVars, screenVars, rowVars, history, vars
<1> DEFINE m == Head(queue)
<1>1. Sound(objects) /\ QueueOK(queue, objects, opened) /\ QueueOK(queue', objects', opened')
  BY DEF TypeInv, ShapeOK, Shape
<1>2. ASSUME UNCHANGED <<objects, job, synced, list, published, rows>> PROVE Minor
  BY <1>2 DEF Minor
<1>3. ASSUME UNCHANGED <<queue, opened, job, synced, list, published, rows>>,
             NEW v, NEW st, objects' = Collect(objects, queue', v, st)
      PROVE  Minor
  BY <1>1, <1>3, MinorCollect
<1>4. CASE Start \/ UNCHANGED vars \/ \E t \in Type : TouchSelector(t)
  BY <1>2, <1>4, MovedSame DEF Start, TouchSelector
<1>5. CASE CloseScreen
  <2>1. /\ UNCHANGED <<queue, opened, job, synced, list, published, rows>>
        /\ objects' = Collect(objects, queue', shown', stack')
    BY <1>5 DEF CloseScreen
  <2> QED
    BY <1>3, <2>1, MovedSame
<1>6. CASE Layout
  <2>1. /\ UNCHANGED <<queue, opened, job, synced, list, published, rows>>
        /\ objects' = Collect(objects, queue', shown', stack)
    BY <1>6 DEF Layout
  <2> QED
    BY <1>3, <2>1, MovedSame
<1>7. CASE OpenScreen /\ UNCHANGED queue
  <2>1. /\ opened' = opened + 1 /\ UNCHANGED <<synced, list, job, rows, history>>
        /\ objects' = Collect(objects, queue', shown', stack')
    BY <1>7 DEF OpenScreen
  <2>2. QueueOK(queue', objects, opened')
    BY <1>1, <1>7, <2>1, QueueMore, Bounds DEF TypeInv, PagesOK
  <2> QED
    BY <1>1, <1>7, <2>1, <2>2, MinorCollect, MovedSame
<1>8. CASE \E a \in Article : Touch(a)
  <2>1. PICK a \in Article : Touch(a)
    BY <1>8
  <2>2. UNCHANGED <<objects, job, synced, list, published, rows>>
    BY <2>1 DEF Touch
  <2> DEFINE c == [kind |-> "click", screen |-> Visible, id |-> a, gen |-> shown.gen]
  <2>3. queue' = Append(queue, c) /\ c.kind \notin {"data", "update"}
    BY <2>1 DEF Touch
  <2> HIDE DEF c
  <2> QED
    BY <1>2, <2>2, <2>3, MovedAppend
<1>9. CASE \E ok \in BOOLEAN : CloseArticle(ok)
  <2>1. /\ UNCHANGED <<objects, job, synced, list, published, rows>>
        /\ reading # <<>>
        /\ queue' = Append(queue, reading[Len(reading)]) \/ queue' = queue
    BY <1>9 DEF CloseArticle
  <2>2. reading[Len(reading)] \in Result
    BY <2>1 DEF TypeInv, PagesOK
  <2>3. reading[Len(reading)].kind \notin {"data", "update"}
    BY <2>2 DEF Result
  <2> QED
    BY <1>2, <2>1, <2>3, MovedAppend, MovedSame
<1>10. CASE HandleClick
  <2> DEFINE more == [objects EXCEPT ![m.screen][m.gen].read = @ \cup {m.id}]
  <2>1. /\ Turn("click") /\ UNCHANGED <<job, synced, list, published, opened>>
        /\ queue' = Tail(queue)
        /\ objects' = Collect(more, queue', shown, stack)
        /\ rows' = [rows EXCEPT !.read = @ \cup ({m.id} \cap rows.ids)]
    BY <1>10 DEF HandleClick, Turn, UpdateReadStatus
  <2>2. /\ m \in Message /\ m.kind = "click"
        /\ m.id \in objects[m.screen][m.gen].ids
        /\ Shape(objects, queue', shown, stack, listed, opened)
    BY <2>1, HeadFacts DEF MessageOK
  <2>3. m.screen \in Screen
    BY <2>2 DEF Message, Result
  <2>4. rows'.ids = rows.ids /\ rows.read \subseteq rows'.read
    BY <2>1 DEF TypeInv, TableOK, Marked, Articles
  <2> HIDE DEF m
  <2>5. {m.id} \subseteq objects[m.screen][m.gen].ids
    BY <2>2
  <2>6. more = MarkedIn(objects, m.screen, m.gen, {m.id})
    BY DEF MarkedIn
  <2> HIDE DEF more
  <2> DEFINE hit == {m.id}
             page == m.screen
             place == m.gen
  <2>10. /\ Shape(objects, queue', shown, stack, listed, opened) /\ page \in Screen
         /\ hit \subseteq objects[page][place].ids
         /\ more = MarkedIn(objects, page, place, hit)
    BY <2>2, <2>3, <2>5, <2>6
  <2> HIDE DEF hit, page, place
  <2>7. /\ Shape(more, queue', shown, stack, listed, opened)
        /\ \A s \in Screen : Len(more[s]) = Len(objects[s])
        /\ \A s \in Screen : \A g \in 1 .. Len(objects[s]) :
             more[s][g].ids = objects[s][g].ids
        /\ \A s \in Screen : \A g \in 1 .. Len(objects[s]) :
             objects[s][g].read \subseteq more[s][g].read
    BY <2>10, MarkShape
  <2>8. Sound(more) /\ QueueOK(queue', more, opened')
    BY <2>1, <2>7 DEF Shape
  <2>9. Minor
    BY <2>1, <2>4, <2>7, <2>8, MinorCollect
  <2> QED
    BY <2>1, <2>9, MovedTail
<1>11. CASE HandleResult /\ ~Die
  <2> DEFINE s == m.screen
             g == Len(objects[s])
             hit == {a \in listed[s] : IndexIn(a, listed[s]) = position[s]}
             more == [objects EXCEPT ![s][g].read = @ \cup hit]
  <2>1. /\ Turn("result") /\ UNCHANGED <<job, rows, synced, list, published, opened>>
        /\ queue' = Tail(queue) /\ objects' = more
    BY <1>11 DEF HandleResult, Turn
  <2>2. /\ m \in Message /\ m.kind = "result"
        /\ Shape(objects, queue', shown, stack, listed, opened)
    BY <2>1, HeadFacts
  <2>3. s \in Screen
    BY <2>2 DEF Message, Result
  <2> HIDE DEF m, s
  <2>4. hit \subseteq listed[s] /\ RowsOK(listed, objects, stack)
    BY DEF TypeInv, ShapeOK, Shape
  <2> HIDE DEF hit
  <2>5. g \in DOMAIN objects[s] => hit \subseteq objects[s][g].ids
    BY <2>3, <2>4 DEF RowsOK
  <2> HIDE DEF g
  <2>6. more = MarkedIn(objects, s, g, hit)
    BY DEF MarkedIn
  <2> HIDE DEF more
  <2>7. /\ Shape(more, queue', shown, stack, listed, opened)
        /\ \A t \in Screen : Len(more[t]) = Len(objects[t])
        /\ \A t \in Screen : \A i \in 1 .. Len(objects[t]) :
             more[t][i].ids = objects[t][i].ids
        /\ \A t \in Screen : \A i \in 1 .. Len(objects[t]) :
             objects[t][i].read \subseteq more[t][i].read
    BY <2>2, <2>3, <2>5, <2>6, MarkShape
  <2>8. Sound(more) /\ QueueOK(queue', more, opened')
    BY <2>1, <2>7 DEF Shape
  <2>9. Minor
    BY <2>1, <2>7, <2>8, MinorCollect
  <2> QED
    BY <2>1, <2>9, MovedTail
<1> QED
  BY <1>4, <1>5, <1>6, <1>7, <1>8, <1>9, <1>10, <1>11

\* A list is sent: it comes last.
LEMMA OrderListSent ==
  ASSUME TypeInv, TypeInv', OrderInv,
         NEW m, m.kind = "data", queue' = Append(queue, m),
         m.ids = list', synced',
         m.for = {} => NoObjects /\ job.for = {}
                       /\ \A k \in DOMAIN queue : queue[k].kind = "data" =>
                            queue[k].for = {},
         ~m.news => m.for # {},
         UNCHANGED <<job, rows, published>>,
         \A s \in Screen : objects[s] = <<>> => objects'[s] = <<>>,
         \A k \in DOMAIN queue : queue[k].kind = "update" =>
           objects'[queue[k].screen][queue[k].gen]
             = objects[queue[k].screen][queue[k].gen]
  PROVE  OrderInv'
<1>1. queue \in Seq(Message) /\ Len(queue) \in Nat /\ DOMAIN queue = 1 .. Len(queue)
  BY DEF TypeInv, ShapeOK, Shape, QueueOK
<1>2. /\ DOMAIN queue' = 1 .. Len(queue) + 1
      /\ \A k \in 1 .. Len(queue) : queue'[k] = queue[k]
      /\ queue'[Len(queue) + 1] = m
  BY <1>1
<1> DEFINE n == Len(queue) + 1
<1>3. /\ DOMAIN queue' = DOMAIN queue \cup {n} /\ n \notin DOMAIN queue
      /\ \A k \in DOMAIN queue : queue'[k] = queue[k] /\ k < n /\ ~(n < k)
      /\ queue'[n] = m /\ ~(n < n)
  BY <1>1, <1>2
<1> HIDE DEF n
<1>4. NoObjects => NoObjects'
  BY DEF NoObjects
<1>5. EarlyLists'
  <2>1. ASSUME NEW k \in DOMAIN queue', queue'[k].kind = "data", queue'[k].for = {}
        PROVE  /\ \A j \in DOMAIN queue' :
                    j < k /\ queue'[j].kind = "data" => queue'[j].for = {}
               /\ NoObjects /\ job.for = {}
    <3>1. CASE k = n
      BY <1>3, <2>1, <3>1
    <3>2. CASE k \in DOMAIN queue
      BY <1>3, <2>1, <3>2 DEF OrderInv, EarlyLists
    <3> QED
      BY <1>3, <3>1, <3>2
  <2>2. \A k \in DOMAIN queue' : queue'[k].kind = "data" /\ ~queue'[k].news =>
          queue'[k].for # {}
    BY <1>3 DEF OrderInv, EarlyLists
  <2> QED
    BY <1>4, <2>1, <2>2 DEF OrderInv, EarlyLists
<1>6. ~NoneOf(queue', "data") /\ (NoneOf(queue', "update") <=> NoneOf(queue, "update"))
  BY <1>3 DEF NoneOf
<1>7. ASSUME NEW k, LastOf(queue', k, "update")
      PROVE  LastOf(queue, k, "update") /\ queue'[k] = queue[k]
  BY <1>3, <1>7 DEF LastOf
<1>8. LastWrite'
  <2>1. ASSUME ~(job.busy /\ job.news), NEW k \in DOMAIN queue', LastOf(queue', k, "update")
        PROVE  objects'[queue'[k].screen][queue'[k].gen].ids = published
    BY <1>7, <2>1 DEF OrderInv, LastWrite, LastOf
  <2> QED
    BY <1>6, <2>1 DEF OrderInv, LastWrite
<1>9. ASSUME NEW k, LastOf(queue', k, "data") PROVE queue'[k].ids = list'
  BY <1>3, <1>9 DEF LastOf
<1> QED
  BY <1>5, <1>6, <1>8, <1>9 DEF OrderInv, LastList

\* Before any instance is opened there are no objects and no list is for one.
LEMMA NoneOpened ==
  ASSUME TypeInv, opened = 0
  PROVE  /\ NoObjects /\ job.for = {}
         /\ \A k \in DOMAIN queue : queue[k].kind = "data" => queue[k].for = {}
<1>1. NoObjects
  BY DEF NoObjects, TypeInv, ShapeOK, Shape, Screen
<1>2. ASSUME NEW S, Batch(S, 0) PROVE S = {}
  BY <1>2 DEF Batch
<1>3. Batch(job.for, 0)
  BY DEF TypeInv, TableOK
<1>4. \A k \in DOMAIN queue : queue[k].kind = "data" => Batch(queue[k].for, 0)
  BY DEF TypeInv, ShapeOK, Shape, QueueOK, MessageOK
<1> QED
  BY <1>1, <1>2, <1>3, <1>4

LEMMA OrderSnapshot ==
  ASSUME TypeInv, TypeInv', OrderInv, NEW ids \in SUBSET Article, Snapshot(ids)
  PROVE  OrderInv'
<1> DEFINE m == [kind |-> "data", ids |-> ids, news |-> TRUE, for |-> 1 .. opened]
<1>1. /\ synced' = TRUE /\ list' = ids /\ queue' = Append(queue, m)
      /\ UNCHANGED <<job, rows, published, objects>>
  BY DEF Snapshot, screenVars, history
<1>2. m.kind = "data" /\ m.ids = ids /\ m.news = TRUE /\ m.for = 1 .. opened
  OBVIOUS
<1> HIDE DEF m
<1>3. m.for = {} => opened = 0
  <2>1. opened \in Nat
    BY Bounds DEF TypeInv, PagesOK
  <2>2. opened # 0 => 1 \in 1 .. opened
    BY <2>1
  <2> QED
    BY <1>2, <2>2
<1> QED
  BY <1>1, <1>2, <1>3, NoneOpened, OrderListSent

LEMMA OrderOpenScreen ==
  ASSUME TypeInv, TypeInv', OrderInv, OpenScreen
  PROVE  OrderInv'
<1> DEFINE m == [kind |-> "data", ids |-> list, news |-> FALSE, for |-> {opened'}]
<1>1. CASE UNCHANGED queue
  BY <1>1, MinorSteps, OrderMinor
<1>2. CASE queue' # queue
  <2>1. /\ synced /\ UNCHANGED <<synced, list, job, rows, published>>
        /\ queue' = Append(queue, m) /\ opened' = opened + 1
        /\ objects' = Collect(objects, queue', shown', stack')
    BY <1>2 DEF OpenScreen, history
  <2>2. m.kind = "data" /\ m.ids = list /\ m.for # {}
    OBVIOUS
  <2> HIDE DEF m
  <2>3. Sound(objects) /\ QueueOK(queue, objects, opened) /\ queue \in Seq(Message)
    BY ShapeFacts DEF TypeInv
  <2>4. m \in Message
    <3>1. queue' \in Seq(Message) /\ queue'[Len(queue) + 1] = m
          /\ Len(queue) + 1 \in DOMAIN queue'
      <4>1. queue' \in Seq(Message)
        BY DEF TypeInv, ShapeOK, Shape, QueueOK
      <4> QED
        BY <2>1, <2>3, <4>1
    <3> QED
      BY <3>1
  <2>5. /\ queue' \in Seq(Message) /\ Len(queue) \in Nat
        /\ DOMAIN queue' = 1 .. Len(queue) + 1 /\ DOMAIN queue = 1 .. Len(queue)
        /\ \A k \in 1 .. Len(queue) : queue'[k] = queue[k]
        /\ queue'[Len(queue) + 1] = m
    BY <2>1, <2>3, <2>4
  <2>6. ASSUME NEW k \in DOMAIN queue'
        PROVE  queue'[k].kind = "update" => MessageOK(queue'[k], objects, opened)
    <3>1. CASE k \in DOMAIN queue
      BY <2>3, <2>5, <3>1 DEF QueueOK
    <3>2. CASE k = Len(queue) + 1
      BY <2>2, <2>5, <3>2
    <3> QED
      BY <2>5, <3>1, <3>2
  <2> DEFINE left == Collect(objects, queue', shown', stack')
  <2>7. /\ Sound(left)
        /\ \A s \in Screen : Len(left[s]) = Len(objects[s])
        /\ \A s \in Screen : \A g \in 1 .. Len(objects[s]) :
             (\E k \in DOMAIN queue' : /\ queue'[k].kind \in {"update", "click"}
                                       /\ queue'[k].screen = s /\ queue'[k].gen = g)
               => left[s][g] = objects[s][g]
    BY <2>3, CollectKeeps
  <2>8. objects' = left
    BY <2>1
  <2> HIDE DEF left
  <2>9. \A s \in Screen : objects[s] = <<>> => objects'[s] = <<>>
    <3>1. \A s \in Screen : objects'[s] = <<>> <=> Len(objects'[s]) = 0
      BY <2>7, <2>8, EmptySeq DEF Sound
    <3> QED
      BY <2>7, <2>8, <3>1
  <2>10. ASSUME NEW k \in DOMAIN queue, queue[k].kind = "update"
         PROVE  objects'[queue[k].screen][queue[k].gen]
                  = objects[queue[k].screen][queue[k].gen]
    <3>1. k \in DOMAIN queue' /\ queue'[k] = queue[k]
      BY <2>5
    <3>2. /\ queue[k] \in Message /\ queue[k].gen \in DOMAIN objects[queue[k].screen]
      BY <2>3, <2>10 DEF QueueOK, MessageOK
    <3>3. queue[k].screen \in Screen
      BY <2>10, <3>2 DEF Message, Result
    <3>4. queue[k].gen \in 1 .. Len(objects[queue[k].screen])
      BY <2>3, <3>2, <3>3 DEF Sound
    <3> QED
      BY <2>7, <2>8, <2>10, <3>1, <3>3, <3>4
  <2> QED
    BY <2>1, <2>2, <2>9, <2>10, OrderListSent
<1> QED
  BY <1>1, <1>2

LEMMA OrderHandleData ==
  ASSUME TypeInv, TypeInv', OrderInv, HandleData
  PROVE  OrderInv'
<1> DEFINE m == Head(queue)
           items == Parse(m.ids, rows)
           rest == Tail(queue)
<1>1. /\ Turn("data") /\ UNCHANGED <<synced, list>>
      /\ ~job.busy
      /\ published' = m.ids
      /\ \/ /\ m.news /\ rows' = Nothing
            /\ job' = [items |-> items, news |-> TRUE, for |-> m.for, busy |-> TRUE]
            /\ queue' = rest /\ UNCHANGED objects
         \/ /\ ~m.news /\ Deliver(items, m.for, rest) /\ UNCHANGED <<rows, job>>
  BY DEF HandleData, Turn, Idle, processVars, ReplaceRows
<1>2. /\ queue[1] = m /\ 1 \in DOMAIN queue /\ m.kind = "data" /\ m \in Message
      /\ Batch(m.for, opened)
      /\ Shape(objects, rest, shown, stack, listed, opened)
      /\ queue \in Seq(Message) /\ Len(queue) \in Nat /\ DOMAIN queue = 1 .. Len(queue)
      /\ Len(rest) = Len(queue) - 1
      /\ \A k \in DOMAIN rest : k + 1 \in DOMAIN queue /\ rest[k] = queue[k + 1]
      /\ rest \in Seq(Message)
  BY <1>1, HeadFacts, ShapeFacts DEF TypeInv, MessageOK, QueueOK
<1>3. items.ids = m.ids /\ Marked(items)
  BY <1>2, ParseMarked DEF Parse, Message, Result
<1> HIDE DEF m, items, rest
<1>4. DOMAIN rest = 1 .. Len(queue) - 1
  BY <1>2
<1>5. ASSUME NEW kind, NEW k, LastOf(rest, k, kind)
      PROVE  LastOf(queue, k + 1, kind) /\ rest[k] = queue[k + 1]
  <2>1. k + 1 \in DOMAIN queue /\ rest[k] = queue[k + 1] /\ queue[k + 1].kind = kind
    BY <1>2, <1>5 DEF LastOf
  <2>2. ASSUME NEW j \in DOMAIN queue, j > k + 1, queue[j].kind = kind PROVE FALSE
    <3>1. j - 1 \in DOMAIN rest /\ (j - 1) + 1 = j /\ j - 1 > k
      BY <1>2, <1>4, <1>5, <2>2 DEF LastOf
    <3> QED
      BY <1>2, <1>5, <2>2, <3>1 DEF LastOf
  <2> QED
    BY <2>1, <2>2 DEF LastOf
<1>6. NoneOf(rest, "data") => LastOf(queue, 1, "data")
  <2> SUFFICES ASSUME NoneOf(rest, "data"), NEW j \in DOMAIN queue, j > 1
               PROVE  queue[j].kind # "data"
    BY <1>2 DEF LastOf
  <2>1. j - 1 \in DOMAIN rest /\ (j - 1) + 1 = j
    BY <1>2, <1>4
  <2> QED
    BY <1>2, <2>1 DEF NoneOf
\* The list that is handled is the last one when no other waits.
<1>7. synced => /\ \A k \in DOMAIN rest : LastOf(rest, k, "data") => rest[k].ids = list
                /\ NoneOf(rest, "data") => m.ids = list
  BY <1>2, <1>5, <1>6 DEF OrderInv, LastList, LastOf
<1>8. CASE m.news
  <2>1. /\ rows' = Nothing /\ queue' = rest /\ UNCHANGED objects
        /\ job' = [items |-> items, news |-> TRUE, for |-> m.for, busy |-> TRUE]
    BY <1>1, <1>8
  <2>2. NoObjects' <=> NoObjects
    BY <2>1 DEF NoObjects
  <2>3. EarlyLists'
    <3>1. ASSUME NEW k \in DOMAIN rest, rest[k].kind = "data", rest[k].for = {}
          PROVE  /\ \A j \in DOMAIN rest :
                      j < k /\ rest[j].kind = "data" => rest[j].for = {}
                 /\ NoObjects /\ m.for = {}
      <4>1. k + 1 \in DOMAIN queue /\ rest[k] = queue[k + 1] /\ 1 < k + 1
        BY <1>2, <1>4
      <4>2. /\ \A j \in DOMAIN queue :
                 j < k + 1 /\ queue[j].kind = "data" => queue[j].for = {}
            /\ NoObjects
        BY <3>1, <4>1 DEF OrderInv, EarlyLists
      <4>3. m.for = {}
        BY <1>2, <4>1, <4>2
      <4>4. \A j \in DOMAIN rest : j < k => j + 1 < k + 1
        BY <1>2, <1>4
      <4> QED
        BY <1>2, <4>2, <4>3, <4>4
    <3>2. \A k \in DOMAIN rest : rest[k].kind = "data" /\ ~rest[k].news =>
            rest[k].for # {}
      BY <1>2 DEF OrderInv, EarlyLists
    <3>3. m.for = {} => NoObjects
      BY <1>2 DEF OrderInv, EarlyLists
    <3> QED
      BY <2>1, <2>2, <3>1, <3>2, <3>3 DEF EarlyLists
  <2>4. LastWrite'
    BY <1>1, <1>3, <2>1 DEF LastWrite
  <2>5. LastList'
    BY <1>1, <1>7, <2>1 DEF LastList
  <2> QED
    BY <2>3, <2>4, <2>5 DEF OrderInv
<1>9. CASE ~m.news
  <2>1. Deliver(items, m.for, rest) /\ UNCHANGED <<rows, job>> /\ m.for # {}
    BY <1>1, <1>2, <1>9 DEF OrderInv, EarlyLists
  <2>2. /\ Len(rest) \in Nat /\ Len(queue') \in Nat /\ Len(rest) < Len(queue')
        /\ \A k \in 1 .. Len(rest) : queue'[k] = rest[k]
        /\ \A k \in 1 .. Len(queue') : k > Len(rest) =>
             /\ queue'[k].kind = "update" /\ queue'[k].screen \in m.for
             /\ queue'[k].gen = Len(objects[queue'[k].screen]) + 1
        /\ \A s \in m.for : objects'[s][Len(objects[s]) + 1] = items
    <3>0. opened \in 0 .. MaxScreens
      BY DEF TypeInv, PagesOK
    <3>1. /\ Len(rest) \in Nat /\ Len(queue') \in Nat
          /\ Len(queue') = Len(rest) <=> m.for = {}
          /\ Len(rest) <= Len(queue')
      BY <1>2, <1>3, <2>1, <3>0, Delivered
    <3>2. Len(rest) < Len(queue')
      <4> DEFINE before == Len(rest)
                 after == Len(queue')
      <4>1. before \in Nat /\ after \in Nat /\ before <= after /\ after # before
        BY <2>1, <3>1
      <4> HIDE DEF before, after
      <4>2. before < after
        BY <4>1
      <4> QED
        BY <4>2 DEF before, after
    <3>3. /\ \A k \in 1 .. Len(rest) : queue'[k] = rest[k]
          /\ \A k \in 1 .. Len(queue') : k > Len(rest) =>
               /\ queue'[k].kind = "update" /\ queue'[k].screen \in m.for
               /\ queue'[k].gen = Len(objects[queue'[k].screen]) + 1
          /\ \A s \in m.for : objects'[s][Len(objects[s]) + 1] = items
      BY <1>2, <1>3, <2>1, <3>0, Delivered
    <3> QED
      BY <3>1, <3>2, <3>3
  <2>3. DOMAIN queue' = 1 .. Len(queue') /\ DOMAIN rest = 1 .. Len(rest)
    BY <1>2 DEF TypeInv, ShapeOK, Shape, QueueOK
  <2>4. \A k \in DOMAIN queue' :
          \/ k \in DOMAIN rest /\ queue'[k] = rest[k]
          \/ k > Len(rest) /\ queue'[k].kind = "update"
    BY <2>2, <2>3
  <2>5. EarlyLists'
    <3>1. ASSUME NEW k \in DOMAIN queue', queue'[k].kind = "data"
          PROVE  queue'[k].for # {}
      <4>1. k + 1 \in DOMAIN queue /\ queue'[k] = queue[k + 1] /\ 1 < k + 1
        BY <1>2, <1>4, <2>4, <3>1
      <4> QED
        BY <1>2, <2>1, <3>1, <4>1 DEF OrderInv, EarlyLists
    <3> QED
      BY <1>1, <2>1, <3>1 DEF OrderInv, EarlyLists
  <2>6. ASSUME NEW k \in DOMAIN queue', LastOf(queue', k, "update")
        PROVE  objects'[queue'[k].screen][queue'[k].gen].ids = m.ids
    <3>1. k > Len(rest)
      <4>1. Len(queue') \in DOMAIN queue' /\ queue'[Len(queue')].kind = "update"
        BY <2>2, <2>3
      <4>2. ~(Len(queue') > k)
        BY <2>6, <4>1 DEF LastOf
      <4> QED
        BY <2>2, <2>3, <4>2
    <3> QED
      BY <1>3, <2>2, <2>3, <3>1
  <2>7. ~NoneOf(queue', "update")
    <3>1. Len(queue') \in DOMAIN queue' /\ queue'[Len(queue')].kind = "update"
      BY <2>2, <2>3
    <3> QED
      BY <3>1 DEF NoneOf
  <2>8. LastWrite'
    BY <1>1, <2>1, <2>6, <2>7 DEF LastWrite
  <2>9. NoneOf(queue', "data") <=> NoneOf(rest, "data")
    <3>1. \A k \in DOMAIN rest : k \in DOMAIN queue' /\ queue'[k] = rest[k]
      BY <2>2, <2>3
    <3> QED
      BY <2>4, <3>1 DEF NoneOf
  <2>10. ASSUME NEW k \in DOMAIN queue', LastOf(queue', k, "data")
         PROVE  LastOf(rest, k, "data") /\ queue'[k] = rest[k]
    <3>1. \A j \in DOMAIN rest : j \in DOMAIN queue' /\ queue'[j] = rest[j]
      BY <2>2, <2>3
    <3> QED
      BY <2>4, <2>10, <3>1 DEF LastOf
  <2>11. LastList'
    BY <1>1, <1>7, <2>9, <2>10 DEF LastList, LastOf
  <2> QED
    BY <2>5, <2>8, <2>11 DEF OrderInv
<1> QED
  BY <1>8, <1>9

LEMMA OrderHandleUpdate ==
  ASSUME TypeInv, TypeInv', OrderInv, HandleUpdate
  PROVE  OrderInv'
<1> DEFINE m == Head(queue)
           items == objects[m.screen][m.gen]
           rest == Tail(queue)
<1>1. /\ Turn("update") /\ UNCHANGED <<synced, list, published, opened>>
      /\ ~job.busy /\ rows' = Nothing
      /\ job' = [items |-> items, news |-> FALSE, for |-> {}, busy |-> TRUE]
      /\ queue' = rest
      /\ objects' = Collect(objects, queue', shown, stack)
  BY DEF HandleUpdate, Turn, Idle, processVars, ReplaceRows, history
<1>2. /\ queue[1] = m /\ 1 \in DOMAIN queue /\ m.kind = "update" /\ m \in Message
      /\ m.gen \in DOMAIN objects[m.screen]
      /\ queue \in Seq(Message) /\ Len(queue) \in Nat /\ DOMAIN queue = 1 .. Len(queue)
      /\ Len(rest) = Len(queue) - 1
      /\ \A k \in DOMAIN rest : k + 1 \in DOMAIN queue /\ rest[k] = queue[k + 1]
      /\ rest \in Seq(Message)
      /\ Sound(objects) /\ QueueOK(rest, objects, opened)
  BY <1>1, HeadFacts, ShapeFacts DEF TypeInv, MessageOK, QueueOK
<1>3. m.screen \in Screen
  BY <1>2 DEF Message, Result
<1> HIDE DEF m, rest
<1>4. DOMAIN rest = 1 .. Len(queue) - 1
  BY <1>2
<1>5. ASSUME NEW kind, NEW k, LastOf(rest, k, kind)
      PROVE  LastOf(queue, k + 1, kind) /\ rest[k] = queue[k + 1]
  <2>1. k + 1 \in DOMAIN queue /\ rest[k] = queue[k + 1] /\ queue[k + 1].kind = kind
    BY <1>2, <1>5 DEF LastOf
  <2>2. ASSUME NEW j \in DOMAIN queue, j > k + 1, queue[j].kind = kind PROVE FALSE
    <3>1. j - 1 \in DOMAIN rest /\ (j - 1) + 1 = j /\ j - 1 > k
      BY <1>2, <1>4, <1>5, <2>2 DEF LastOf
    <3> QED
      BY <1>2, <1>5, <2>2, <3>1 DEF LastOf
  <2> QED
    BY <2>1, <2>2 DEF LastOf
<1>6. \A j \in DOMAIN queue : j # 1 => j - 1 \in DOMAIN rest /\ rest[j - 1] = queue[j]
  <2>1. \A j \in DOMAIN queue : j # 1 => j - 1 \in DOMAIN rest /\ (j - 1) + 1 = j
    BY <1>2, <1>4
  <2> QED
    BY <1>2, <2>1
<1>7. NoneOf(rest, "update") => LastOf(queue, 1, "update")
  BY <1>2, <1>6 DEF NoneOf, LastOf
<1>8. NoneOf(rest, "data") <=> NoneOf(queue, "data")
  BY <1>2, <1>6 DEF NoneOf
<1>9. ~NoObjects
  <2>1. objects[m.screen] = <<>> => Len(objects[m.screen]) = 0
    OBVIOUS
  <2>2. DOMAIN objects[m.screen] = 1 .. Len(objects[m.screen])
    BY <1>2, <1>3 DEF Sound
  <2> QED
    BY <1>2, <1>3, <2>1, <2>2 DEF NoObjects
<1>10. EarlyLists'
  <2>1. ASSUME NEW k \in DOMAIN rest, rest[k].kind = "data" PROVE rest[k].for # {}
    BY <1>2, <1>9, <2>1 DEF OrderInv, EarlyLists
  <2> QED
    BY <1>1, <2>1 DEF EarlyLists
<1>11. LastWrite'
  <2>1. ASSUME NEW k \in DOMAIN rest, LastOf(rest, k, "update")
        PROVE  objects'[rest[k].screen][rest[k].gen].ids = published
    <3>1. objects[rest[k].screen][rest[k].gen].ids = published
      <4>1. LastOf(queue, k + 1, "update") /\ rest[k] = queue[k + 1]
            /\ k + 1 \in DOMAIN queue
        BY <1>5, <2>1 DEF LastOf
      <4> QED
        BY <1>1, <4>1 DEF OrderInv, LastWrite
    <3>2. objects'[rest[k].screen][rest[k].gen] = objects[rest[k].screen][rest[k].gen]
      BY <1>1, <1>2, <2>1, UpdatesCollected DEF LastOf
    <3> QED
      BY <3>1, <3>2
  <2>2. NoneOf(rest, "update") => items.ids = published
    BY <1>1, <1>2, <1>7 DEF OrderInv, LastWrite
  <2> HIDE DEF items
  <2> QED
    BY <1>1, <2>1, <2>2 DEF LastWrite
<1>12. LastList'
  BY <1>1, <1>5, <1>8 DEF OrderInv, LastList, LastOf
<1> QED
  BY <1>10, <1>11, <1>12 DEF OrderInv

LEMMA OrderFinishAdd ==
  ASSUME TypeInv, TypeInv', OrderInv, FinishAdd
  PROVE  OrderInv'
<1>1. /\ job.busy /\ rows' = job.items /\ job' = NoJob
      /\ Deliver(job.items, job.for, queue)
      /\ UNCHANGED <<synced, list, published>>
  BY DEF FinishAdd, processVars, history
<1>2. /\ Len(queue) \in Nat /\ Len(queue') \in Nat
      /\ Len(queue') = Len(queue) <=> job.for = {}
      /\ Len(queue) <= Len(queue')
      /\ \A k \in 1 .. Len(queue) : queue'[k] = queue[k]
      /\ \A k \in 1 .. Len(queue') : k > Len(queue) =>
           /\ queue'[k].kind = "update" /\ queue'[k].screen \in job.for
           /\ queue'[k].gen = Len(objects[queue'[k].screen]) + 1
      /\ \A s \in job.for : objects'[s][Len(objects[s]) + 1] = job.items
      /\ \A s \in Screen \ job.for : Len(objects'[s]) = Len(objects[s])
      /\ \A k \in 1 .. Len(queue) : queue[k].kind \in {"update", "click"} =>
           objects'[queue[k].screen][queue[k].gen]
             = objects[queue[k].screen][queue[k].gen]
  BY <1>1, Delivered DEF TypeInv, PagesOK, TableOK, ShapeOK
<1>3. /\ DOMAIN queue' = 1 .. Len(queue') /\ DOMAIN queue = 1 .. Len(queue)
  BY DEF TypeInv, ShapeOK, Shape, QueueOK
<1> DEFINE before == Len(queue)
           after == Len(queue')
<1>14. /\ before \in Nat /\ after \in Nat /\ before <= after
       /\ after = before <=> job.for = {}
       /\ DOMAIN queue = 1 .. before /\ DOMAIN queue' = 1 .. after
       /\ \A k \in 1 .. before : queue'[k] = queue[k]
       /\ \A k \in 1 .. after : k > before =>
            /\ queue'[k].kind = "update" /\ queue'[k].screen \in job.for
            /\ queue'[k].gen = Len(objects[queue'[k].screen]) + 1
  BY <1>2, <1>3
<1> HIDE DEF before, after
<1>4. \A k \in DOMAIN queue : k \in DOMAIN queue' /\ queue'[k] = queue[k]
  BY <1>14
<1>5. \A k \in DOMAIN queue' : k \notin DOMAIN queue =>
        k > before /\ queue'[k].kind = "update"
  BY <1>14
<1>6. job.for = {} => DOMAIN queue' = DOMAIN queue
  BY <1>14
<1>7. job.for = {} /\ NoObjects => NoObjects'
  <2>1. \A s \in Screen : objects[s] \in Seq(Articles) /\ objects'[s] \in Seq(Articles)
    BY DEF TypeInv, ShapeOK, Shape, Sound
  <2>2. \A s \in Screen : /\ objects[s] = <<>> <=> Len(objects[s]) = 0
                          /\ objects'[s] = <<>> <=> Len(objects'[s]) = 0
    BY <2>1, EmptySeq
  <2> QED
    BY <1>2, <2>2 DEF NoObjects
<1>8. ~NoJob.busy /\ NoJob.for = {} /\ ~NoJob.news
  BY DEF NoJob
<1>9. EarlyLists'
  <2>1. ASSUME NEW k \in DOMAIN queue', queue'[k].kind = "data", queue'[k].for = {}
        PROVE  /\ \A j \in DOMAIN queue' :
                    j < k /\ queue'[j].kind = "data" => queue'[j].for = {}
               /\ NoObjects'
    <3>1. k \in DOMAIN queue /\ queue'[k] = queue[k]
      BY <1>4, <1>5, <2>1
    <3>2. /\ \A j \in DOMAIN queue :
               j < k /\ queue[j].kind = "data" => queue[j].for = {}
          /\ NoObjects /\ job.for = {}
      BY <2>1, <3>1 DEF OrderInv, EarlyLists
    <3> QED
      BY <1>4, <1>6, <1>7, <3>2
  <2>2. \A k \in DOMAIN queue' : queue'[k].kind = "data" /\ ~queue'[k].news =>
          queue'[k].for # {}
    BY <1>4, <1>5 DEF OrderInv, EarlyLists
  <2> QED
    BY <1>1, <1>8, <2>1, <2>2 DEF EarlyLists
<1>10. ASSUME NEW k \in DOMAIN queue', LastOf(queue', k, "update")
       PROVE  objects'[queue'[k].screen][queue'[k].gen].ids = published
  <2>1. CASE job.for # {}
    <3>1. after \in DOMAIN queue' /\ after > before
      BY <1>14, <2>1
    <3>2. k > before
      <4>1. queue'[after].kind = "update"
        BY <1>14, <3>1
      <4>2. ~(after > k)
        BY <1>10, <3>1, <4>1 DEF LastOf
      <4> QED
        BY <1>14, <3>1, <4>2
    <3>3. objects'[queue'[k].screen][queue'[k].gen] = job.items
      <4>1. /\ queue'[k].screen \in job.for
            /\ queue'[k].gen = Len(objects[queue'[k].screen]) + 1
        BY <1>14, <3>2
      <4> QED
        BY <1>2, <4>1
    <3>4. job.items.ids = published
      BY <1>1, <2>1 DEF OrderInv, EarlyLists, LastWrite
    <3> QED
      BY <3>3, <3>4
  <2>2. CASE job.for = {}
    <3>1. k \in DOMAIN queue /\ queue'[k] = queue[k] /\ queue[k].kind = "update"
      BY <1>4, <1>6, <1>10, <2>2 DEF LastOf
    <3>2. LastOf(queue, k, "update")
      BY <1>4, <1>6, <1>10, <2>2 DEF LastOf
    <3>3. ~NoObjects
      <4>1. queue[k].screen \in Screen /\ queue[k].gen \in 1 .. Len(objects[queue[k].screen])
        BY <3>1, UpdatesCollected DEF TypeInv, ShapeOK, Shape
      <4>2. objects[queue[k].screen] = <<>> => Len(objects[queue[k].screen]) = 0
        OBVIOUS
      <4> QED
        BY <4>1, <4>2 DEF NoObjects
    <3>4. objects[queue[k].screen][queue[k].gen].ids = published
      BY <1>1, <2>2, <3>1, <3>2, <3>3 DEF OrderInv, EarlyLists, LastWrite
    <3> QED
      BY <1>2, <1>3, <3>1, <3>4
  <2> QED
    BY <2>1, <2>2
<1>11. NoneOf(queue', "update") => NoneOf(queue, "update")
  BY <1>4 DEF NoneOf
<1>12. LastWrite'
  <2>1. NoneOf(queue', "update") => job.items.ids = published
    BY <1>1, <1>11 DEF OrderInv, LastWrite
  <2> QED
    BY <1>1, <1>8, <1>10, <2>1 DEF LastWrite
<1>13. LastList'
  <2>1. NoneOf(queue', "data") <=> NoneOf(queue, "data")
    BY <1>4, <1>5 DEF NoneOf
  <2>2. ASSUME NEW k \in DOMAIN queue', LastOf(queue', k, "data")
        PROVE  LastOf(queue, k, "data") /\ queue'[k] = queue[k] /\ k \in DOMAIN queue
    BY <1>4, <1>5, <2>2 DEF LastOf
  <2> QED
    BY <1>1, <2>1, <2>2 DEF OrderInv, LastList
<1> QED
  BY <1>9, <1>12, <1>13 DEF OrderInv

LEMMA OrderStep ==
  ASSUME TypeInv, TypeInv', OrderInv, [Next]_vars
  PROVE  OrderInv'
<1>1. CASE Die
  <2>1. /\ queue' = <<>> /\ job' = NoJob /\ published' = {} /\ synced' = FALSE
    BY <1>1 DEF Die
  <2> QED
    BY <2>1 DEF OrderInv, EarlyLists, LastWrite, LastList, NoJob, LastOf, NoneOf
<1>2. CASE \E ids \in SUBSET Article : Snapshot(ids)
  BY <1>2, OrderSnapshot
<1>3. CASE OpenScreen
  BY <1>3, OrderOpenScreen
<1>4. CASE HandleData
  BY <1>4, OrderHandleData
<1>5. CASE HandleUpdate
  BY <1>5, OrderHandleUpdate
<1>6. CASE FinishAdd
  BY <1>6, OrderFinishAdd
<1>7. CASE \/ Start \/ CloseScreen \/ Layout \/ UNCHANGED vars
           \/ (\E a \in Article : Touch(a))
           \/ (\E t \in Type : TouchSelector(t))
           \/ (\E ok \in BOOLEAN : CloseArticle(ok))
           \/ HandleClick \/ (HandleResult /\ ~Die)
  BY <1>7, MinorSteps, OrderMinor
<1> QED
  BY <1>1, <1>2, <1>3, <1>4, <1>5, <1>6, <1>7 DEF Next, Crash

\* When nothing is left to handle, the table holds the list and nothing else,
\* whichever instances, open or closed long ago, have written it and in whichever
\* order.
THEOREM TableIsTheList == Spec => []RowsFollowList
<1>1. Init => OrderInv
  BY DEF Init, OrderInv, EarlyLists, LastWrite, LastList, NoJob, NoneOf, LastOf, Nothing
<1>2. TypeInv /\ OrderInv /\ [Next]_vars => (TypeInv /\ OrderInv)'
  BY TypeStep, OrderStep
<1>3. TypeInv /\ OrderInv => RowsFollowList
  BY DEF OrderInv, LastWrite, LastList, RowsFollowList, Idle, Waiting, NoneOf
<1> QED
  BY <1>1, <1>2, <1>3, TypeInit, PTL DEF Spec

-----------------------------------------------------------------------------
(* Quiet marks: every write to come has them *)

QuietInv ==
  /\ ~job.busy => quiet \subseteq rows.read
  /\ job.busy => quiet \subseteq job.items.read
  /\ \A k \in DOMAIN queue : queue[k].kind = "update" =>
       quiet \subseteq objects[queue[k].screen][queue[k].gen].read
  /\ job.busy \/ ~NoObjects => marked \subseteq published

\* Objects of updates that keep or gain marks.
UpdatesKeptAt(k) ==
  \E j \in DOMAIN queue :
    /\ queue[j] = queue'[k]
    /\ objects[queue[j].screen][queue[j].gen].read
         \subseteq objects'[queue[j].screen][queue[j].gen].read

LEMMA QuietFrame ==
  ASSUME QuietInv, quiet' \subseteq quiet, UNCHANGED <<marked, published, job>>,
         rows.read \subseteq rows'.read, NoObjects => NoObjects',
         \A k \in DOMAIN queue' : queue'[k].kind = "update" => UpdatesKeptAt(k)
  PROVE  QuietInv'
<1>1. ASSUME NEW k \in DOMAIN queue', queue'[k].kind = "update"
      PROVE  quiet' \subseteq objects'[queue'[k].screen][queue'[k].gen].read
  <2>1. PICK j \in DOMAIN queue :
          /\ queue[j] = queue'[k]
          /\ objects[queue[j].screen][queue[j].gen].read
               \subseteq objects'[queue[j].screen][queue[j].gen].read
    BY <1>1 DEF UpdatesKeptAt
  <2>2. quiet \subseteq objects[queue[j].screen][queue[j].gen].read
    BY <1>1, <2>1 DEF QuietInv
  <2> QED
    BY <2>1, <2>2
<1> QED
  BY <1>1 DEF QuietInv

LEMMA MinorKeeps ==
  ASSUME Minor, NEW d \in {0, 1}, Moved(d)
  PROVE  /\ NoObjects => NoObjects'
         /\ rows.read \subseteq rows'.read
         /\ \A k \in DOMAIN queue' : queue'[k].kind = "update" => UpdatesKeptAt(k)
<1>1. NoObjects => NoObjects'
  BY DEF NoObjects, Minor
<1>2. ASSUME NEW k \in DOMAIN queue', queue'[k].kind = "update" PROVE UpdatesKeptAt(k)
  <2>1. k + d \in DOMAIN queue /\ queue[k + d] = queue'[k]
    BY <1>2 DEF Moved
  <2> QED
    BY <1>2, <2>1 DEF Minor, UpdatesKeptAt
<1> QED
  BY <1>1, <1>2 DEF Minor

LEMMA QuietMinor ==
  ASSUME TypeInv, TypeInv', QuietInv,
         \/ Start \/ CloseScreen \/ Layout \/ UNCHANGED vars
         \/ OpenScreen /\ UNCHANGED queue
         \/ \E a \in Article : Touch(a)
         \/ \E t \in Type : TouchSelector(t)
         \/ \E ok \in BOOLEAN : CloseArticle(ok)
         \/ HandleResult /\ ~Die
  PROVE  QuietInv'
<1>1. UNCHANGED <<quiet, marked, published, job>>
  BY DEF Start, CloseScreen, Layout, OpenScreen, Touch, TouchSelector, CloseArticle,
     HandleResult, Turn, vars, history
<1>2. Minor /\ \E d \in {0, 1} : Moved(d)
  BY MinorSteps
<1> QED
  BY <1>1, <1>2, MinorKeeps, QuietFrame

LEMMA QuietSnapshot ==
  ASSUME TypeInv, QuietInv, NEW ids \in SUBSET Article, Snapshot(ids)
  PROVE  QuietInv'
<1> DEFINE m == [kind |-> "data", ids |-> ids, news |-> TRUE, for |-> 1 .. opened]
<1>1. /\ queue' = Append(queue, m) /\ m.kind = "data"
      /\ UNCHANGED <<job, rows, quiet, marked, published, objects>>
  BY DEF Snapshot, screenVars, history
<1> HIDE DEF m
<1>2. queue \in Seq(Message)
  BY ShapeFacts DEF TypeInv
<1>3. \A k \in DOMAIN queue' :
        (k \in DOMAIN queue /\ queue'[k] = queue[k]) \/ queue'[k] = m
  BY <1>1, <1>2
<1>4. \A k \in DOMAIN queue' : queue'[k].kind = "update" => UpdatesKeptAt(k)
  BY <1>1, <1>3 DEF UpdatesKeptAt
<1> QED
  BY <1>1, <1>4, QuietFrame DEF NoObjects

LEMMA QuietOpenScreen ==
  ASSUME TypeInv, TypeInv', QuietInv, OpenScreen
  PROVE  QuietInv'
<1> DEFINE m == [kind |-> "data", ids |-> list, news |-> FALSE, for |-> {opened'}]
<1>1. CASE UNCHANGED queue
  BY <1>1, QuietMinor
<1>2. CASE queue' # queue
  <2>1. /\ UNCHANGED <<job, rows, quiet, marked, published>>
        /\ queue' = Append(queue, m) /\ m.kind = "data"
        /\ objects' = Collect(objects, queue', shown', stack')
    BY <1>2 DEF OpenScreen, history
  <2> HIDE DEF m
  <2>2. /\ queue \in Seq(Message) /\ Sound(objects) /\ Sound(objects')
        /\ QueueOK(queue, objects, opened) /\ queue' \in Seq(Message)
        /\ objects \in [Screen -> Seq(Articles)] /\ objects' \in [Screen -> Seq(Articles)]
    BY DEF TypeInv, ShapeOK, Shape, QueueOK, Sound
  <2>3. \A k \in DOMAIN queue' :
          (k \in DOMAIN queue /\ queue'[k] = queue[k]) \/ queue'[k].kind = "data"
    BY <2>1, <2>2
  <2>4. /\ \A s \in Screen : Len(objects'[s]) = Len(objects[s])
        /\ \A s \in Screen : \A g \in 1 .. Len(objects[s]) :
             (\E k \in DOMAIN queue' : /\ queue'[k].kind \in {"update", "click"}
                                       /\ queue'[k].screen = s /\ queue'[k].gen = g)
               => objects'[s][g] = objects[s][g]
    <3> DEFINE left == Collect(objects, queue', shown', stack')
    <3>1. /\ \A s \in Screen : Len(left[s]) = Len(objects[s])
          /\ \A s \in Screen : \A g \in 1 .. Len(objects[s]) :
               (\E k \in DOMAIN queue' : /\ queue'[k].kind \in {"update", "click"}
                                         /\ queue'[k].screen = s /\ queue'[k].gen = g)
                 => left[s][g] = objects[s][g]
      BY <2>2, CollectKeeps
    <3>2. objects' = left
      BY <2>1
    <3> HIDE DEF left
    <3> QED
      BY <3>1, <3>2
  <2>5. NoObjects => NoObjects'
    <3>1. \A s \in Screen : /\ objects[s] = <<>> <=> Len(objects[s]) = 0
                            /\ objects'[s] = <<>> <=> Len(objects'[s]) = 0
      BY <2>2, EmptySeq
    <3> QED
      BY <2>4, <3>1 DEF NoObjects
  <2>6. ASSUME NEW k \in DOMAIN queue', queue'[k].kind = "update"
        PROVE  UpdatesKeptAt(k)
    <3>1. k \in DOMAIN queue /\ queue'[k] = queue[k]
      BY <2>3, <2>6
    <3>2. /\ queue[k].screen \in Screen
          /\ queue[k].gen \in 1 .. Len(objects[queue[k].screen])
      BY <2>2, <2>6, <3>1, UpdatesCollected
    <3>3. objects'[queue[k].screen][queue[k].gen] = objects[queue[k].screen][queue[k].gen]
      BY <2>4, <2>6, <3>1, <3>2
    <3> QED
      BY <3>1, <3>3 DEF UpdatesKeptAt
  <2> QED
    BY <2>1, <2>5, <2>6, QuietFrame
<1> QED
  BY <1>1, <1>2

\* New articles carry the marks of the table, and so do their updates.
LEMMA QuietDelivered ==
  ASSUME TypeInv, TypeInv', NEW rest,
         Shape(objects, rest, shown, stack, listed, opened),
         NEW items, Marked(items), NEW instances, Batch(instances, opened),
         Deliver(items, instances, rest),
         quiet' \subseteq items.read,
         \A k \in 1 .. Len(rest) : rest[k].kind = "update" =>
           quiet' \subseteq objects[rest[k].screen][rest[k].gen].read
  PROVE  \A k \in DOMAIN queue' : queue'[k].kind = "update" =>
           quiet' \subseteq objects'[queue'[k].screen][queue'[k].gen].read
<1>1. /\ \A k \in 1 .. Len(rest) : queue'[k] = rest[k]
      /\ \A k \in 1 .. Len(queue') : k > Len(rest) =>
           /\ queue'[k].kind = "update" /\ queue'[k].screen \in instances
           /\ queue'[k].gen = Len(objects[queue'[k].screen]) + 1
      /\ \A s \in instances : objects'[s][Len(objects[s]) + 1] = items
      /\ \A k \in 1 .. Len(rest) : rest[k].kind \in {"update", "click"} =>
           objects'[rest[k].screen][rest[k].gen] = objects[rest[k].screen][rest[k].gen]
      /\ Len(rest) \in Nat
  BY Delivered DEF TypeInv, PagesOK
<1>2. DOMAIN queue' = 1 .. Len(queue')
  BY DEF TypeInv, ShapeOK, Shape, QueueOK
<1>3. \A k \in 1 .. Len(queue') : k \in 1 .. Len(rest) \/ k > Len(rest)
  BY <1>1
<1>4. ASSUME NEW k \in 1 .. Len(rest), queue'[k].kind = "update"
      PROVE  quiet' \subseteq objects'[queue'[k].screen][queue'[k].gen].read
  <2>1. queue'[k] = rest[k] /\ rest[k].kind = "update"
    BY <1>1, <1>4
  <2>2. objects'[rest[k].screen][rest[k].gen] = objects[rest[k].screen][rest[k].gen]
    BY <1>1, <2>1
  <2> QED
    BY <2>1, <2>2
<1>5. ASSUME NEW k \in 1 .. Len(queue'), k > Len(rest)
      PROVE  quiet' \subseteq objects'[queue'[k].screen][queue'[k].gen].read
  <2>1. /\ queue'[k].screen \in instances
        /\ queue'[k].gen = Len(objects[queue'[k].screen]) + 1
    BY <1>1, <1>5
  <2>2. objects'[queue'[k].screen][queue'[k].gen] = items
    BY <1>1, <2>1
  <2> QED
    BY <2>2
<1> QED
  BY <1>2, <1>3, <1>4, <1>5

LEMMA QuietHandleData ==
  ASSUME TypeInv, TypeInv', QuietInv, HandleData
  PROVE  QuietInv'
<1> DEFINE m == Head(queue)
           items == Parse(m.ids, rows)
           rest == Tail(queue)
<1>1. /\ Turn("data") /\ ~job.busy
      /\ published' = m.ids /\ marked' = marked \cap m.ids /\ quiet' = quiet \cap m.ids
      /\ \/ /\ job' = [items |-> items, news |-> TRUE, for |-> m.for, busy |-> TRUE]
            /\ queue' = rest /\ UNCHANGED objects
         \/ Deliver(items, m.for, rest) /\ UNCHANGED <<rows, job>>
  BY DEF HandleData, Turn, Idle, ReplaceRows
<1>2. /\ m \in Message /\ m.kind = "data" /\ Batch(m.for, opened)
      /\ Shape(objects, rest, shown, stack, listed, opened)
      /\ rest \in Seq(Message)
      /\ \A k \in DOMAIN rest : k + 1 \in DOMAIN queue /\ rest[k] = queue[k + 1]
  BY <1>1, HeadFacts DEF MessageOK, QueueOK
<1>3. Marked(items)
  BY <1>2, ParseMarked DEF Message, Result
<1>4. quiet' \subseteq items.read
  BY <1>1 DEF QuietInv, Parse
<1> HIDE DEF m, items, rest
<1>5. DOMAIN rest = 1 .. Len(rest)
  BY <1>2
<1>6. \A k \in 1 .. Len(rest) : rest[k].kind = "update" =>
        quiet' \subseteq objects[rest[k].screen][rest[k].gen].read
  BY <1>1, <1>2, <1>5 DEF QuietInv
<1>7. marked' \subseteq published'
  BY <1>1
<1>8. CASE /\ job' = [items |-> items, news |-> TRUE, for |-> m.for, busy |-> TRUE]
           /\ queue' = rest /\ UNCHANGED objects
  <2>1. job'.busy = TRUE /\ job'.items = items
    BY <1>8
  <2> QED
    BY <1>4, <1>5, <1>6, <1>7, <1>8, <2>1 DEF QuietInv
<1>9. CASE Deliver(items, m.for, rest) /\ UNCHANGED <<rows, job>>
  <2>1. \A k \in DOMAIN queue' : queue'[k].kind = "update" =>
          quiet' \subseteq objects'[queue'[k].screen][queue'[k].gen].read
    BY <1>2, <1>3, <1>4, <1>6, <1>9, QuietDelivered
  <2> QED
    BY <1>1, <1>7, <1>9, <2>1 DEF QuietInv
<1> QED
  BY <1>1, <1>8, <1>9

LEMMA QuietHandleUpdate ==
  ASSUME TypeInv, TypeInv', QuietInv, HandleUpdate
  PROVE  QuietInv'
<1> DEFINE m == Head(queue)
           items == objects[m.screen][m.gen]
           rest == Tail(queue)
<1>1. /\ Turn("update") /\ UNCHANGED <<published, quiet, marked>>
      /\ job' = [items |-> items, news |-> FALSE, for |-> {}, busy |-> TRUE]
      /\ queue' = rest
      /\ objects' = Collect(objects, queue', shown, stack)
  BY DEF HandleUpdate, Turn, ReplaceRows, history
<1>2. /\ queue[1] = m /\ 1 \in DOMAIN queue /\ m.kind = "update"
      /\ \A k \in DOMAIN rest : k + 1 \in DOMAIN queue /\ rest[k] = queue[k + 1]
      /\ Sound(objects) /\ QueueOK(queue, objects, opened) /\ QueueOK(rest, objects, opened)
  BY <1>1, HeadFacts, ShapeFacts DEF TypeInv
<1>3. m.screen \in Screen /\ m.gen \in 1 .. Len(objects[m.screen])
  BY <1>2, UpdatesCollected
<1> HIDE DEF m, rest
<1>4. quiet \subseteq items.read
  BY <1>2 DEF QuietInv
<1>5. ~NoObjects
  <2>1. objects[m.screen] = <<>> => Len(objects[m.screen]) = 0
    OBVIOUS
  <2> QED
    BY <1>3, <2>1 DEF NoObjects
<1>6. ASSUME NEW k \in DOMAIN queue', queue'[k].kind = "update"
      PROVE  quiet' \subseteq objects'[queue'[k].screen][queue'[k].gen].read
  <2>1. objects'[rest[k].screen][rest[k].gen] = objects[rest[k].screen][rest[k].gen]
    BY <1>1, <1>2, <1>6, UpdatesCollected
  <2>2. quiet \subseteq objects[rest[k].screen][rest[k].gen].read
    BY <1>1, <1>2, <1>6 DEF QuietInv
  <2> QED
    BY <1>1, <2>1, <2>2
<1> HIDE DEF items
<1>7. job'.busy = TRUE /\ job'.items = items
  BY <1>1
<1> QED
  BY <1>1, <1>4, <1>5, <1>6, <1>7 DEF QuietInv

LEMMA QuietFinishAdd ==
  ASSUME TypeInv, TypeInv', QuietInv, FinishAdd
  PROVE  QuietInv'
<1>1. /\ job.busy /\ rows' = job.items /\ job' = NoJob
      /\ Deliver(job.items, job.for, queue)
      /\ UNCHANGED <<quiet, marked, published>>
  BY DEF FinishAdd, history
<1>2. /\ Marked(job.items) /\ Batch(job.for, opened)
      /\ Shape(objects, queue, shown, stack, listed, opened)
      /\ DOMAIN queue = 1 .. Len(queue)
  BY DEF TypeInv, TableOK, ShapeOK, Shape, QueueOK
<1>3. \A k \in DOMAIN queue' : queue'[k].kind = "update" =>
        quiet' \subseteq objects'[queue'[k].screen][queue'[k].gen].read
  BY <1>1, <1>2, QuietDelivered DEF QuietInv
<1> QED
  BY <1>1, <1>3 DEF QuietInv, NoJob

\* A mark that is made while no update waits finds its row.
LEMMA QuietHandleClick ==
  ASSUME TypeInv, TypeInv', OrderInv, QuietInv, HandleClick
  PROVE  QuietInv'
<1> DEFINE m == Head(queue)
<1>1. /\ Turn("click") /\ ~job.busy /\ UNCHANGED <<job, published>>
      /\ queue' = Tail(queue)
      /\ rows' = [rows EXCEPT !.read = @ \cup ({m.id} \cap rows.ids)]
      /\ marked' = marked \cup ({m.id} \cap published)
      /\ quiet' = IF Waiting({"update"}) THEN quiet
                  ELSE marked' \cap (quiet \cup {m.id})
  BY DEF HandleClick, Turn, Idle, UpdateReadStatus
<1>2. /\ m \in Message /\ m.kind = "click" /\ m.gen \in DOMAIN objects[m.screen]
      /\ \A k \in DOMAIN Tail(queue) : k + 1 \in DOMAIN queue /\ Tail(queue)[k] = queue[k + 1]
  BY <1>1, HeadFacts DEF MessageOK
<1>3. m.screen \in Screen
  BY <1>2 DEF Message, Result
<1>4. Minor /\ (NoObjects => NoObjects')
      /\ \A k \in DOMAIN queue' : queue'[k].kind = "update" => UpdatesKeptAt(k)
  <2>1. Minor /\ \E d \in {0, 1} : Moved(d)
    BY MinorSteps
  <2> QED
    BY <2>1, MinorKeeps
<1> HIDE DEF m
<1>5. ~NoObjects
  <2>1. objects[m.screen] = <<>> => Len(objects[m.screen]) = 0
    OBVIOUS
  <2>2. DOMAIN objects[m.screen] = 1 .. Len(objects[m.screen])
    BY <1>3 DEF TypeInv, ShapeOK, Shape, Sound
  <2> QED
    BY <1>2, <1>3, <2>1, <2>2 DEF NoObjects
<1>6. marked' \subseteq published
  BY <1>1, <1>5 DEF QuietInv
<1>7. rows' \in Articles /\ rows'.read = rows.read \cup ({m.id} \cap rows.ids)
  BY <1>1 DEF TypeInv, TableOK, Marked, Articles
<1>8. CASE Waiting({"update"})
  <2>1. \A k \in DOMAIN queue' : queue'[k].kind = "update" =>
          quiet \subseteq objects'[queue'[k].screen][queue'[k].gen].read
    BY <1>4 DEF UpdatesKeptAt, QuietInv
  <2> QED
    BY <1>1, <1>6, <1>7, <1>8, <2>1 DEF QuietInv
<1>9. CASE ~Waiting({"update"})
  <2>1. NoneOf(queue, "update")
    BY <1>9 DEF Waiting, NoneOf
  <2>2. published \subseteq rows.ids
    BY <1>1, <2>1 DEF OrderInv, LastWrite
  <2>3. quiet' \subseteq quiet \cup ({m.id} \cap rows.ids)
    BY <1>1, <1>6, <1>9, <2>2
  <2>4. quiet' \subseteq rows'.read
    BY <1>1, <1>7, <2>3 DEF QuietInv
  <2>5. \A k \in DOMAIN queue' : queue'[k].kind # "update"
    BY <1>1, <1>2, <2>1 DEF NoneOf
  <2> QED
    BY <1>1, <1>6, <2>4, <2>5 DEF QuietInv
<1> QED
  BY <1>8, <1>9

LEMMA QuietStep ==
  ASSUME TypeInv, TypeInv', OrderInv, QuietInv, [Next]_vars
  PROVE  QuietInv'
<1>1. CASE Die
  <2>1. /\ queue' = <<>> /\ job' = NoJob /\ objects' = [s \in Screen |-> <<>>]
        /\ quiet' = IF job.busy THEN {} ELSE quiet
        /\ rows' = rows
    BY <1>1 DEF Die
  <2>2. NoObjects'
    BY <2>1 DEF NoObjects
  <2>3. quiet' \subseteq rows'.read
    BY <2>1 DEF QuietInv
  <2> QED
    BY <2>1, <2>2, <2>3 DEF QuietInv, NoJob
<1>2. CASE \E ids \in SUBSET Article : Snapshot(ids)
  BY <1>2, QuietSnapshot
<1>3. CASE OpenScreen
  BY <1>3, QuietOpenScreen
<1>4. CASE HandleData
  BY <1>4, QuietHandleData
<1>5. CASE HandleUpdate
  BY <1>5, QuietHandleUpdate
<1>6. CASE FinishAdd
  BY <1>6, QuietFinishAdd
<1>7. CASE HandleClick
  BY <1>7, QuietHandleClick
<1>8. CASE \/ Start \/ CloseScreen \/ Layout \/ UNCHANGED vars
           \/ (\E a \in Article : Touch(a))
           \/ (\E t \in Type : TouchSelector(t))
           \/ (\E ok \in BOOLEAN : CloseArticle(ok))
           \/ HandleResult /\ ~Die
  BY <1>8, QuietMinor
<1> QED
  BY <1>1, <1>2, <1>3, <1>4, <1>5, <1>6, <1>7, <1>8 DEF Next, Crash

\* A mark made while no update was waiting outlives every later update, by
\* whichever listener and with whichever old objects.
THEOREM QuietMarksStay == Spec => []QuietMarksKept
<1>1. Init => OrderInv /\ QuietInv
  BY DEF Init, OrderInv, EarlyLists, LastWrite, LastList, NoJob, NoneOf, LastOf, Nothing,
     QuietInv, NoObjects
<1>2. TypeInv /\ OrderInv /\ QuietInv /\ [Next]_vars
        => (TypeInv /\ OrderInv /\ QuietInv)'
  BY TypeStep, OrderStep, QuietStep
<1>3. QuietInv => QuietMarksKept
  BY DEF QuietInv, QuietMarksKept
<1> QED
  BY <1>1, <1>2, <1>3, TypeInit, PTL DEF Spec

-----------------------------------------------------------------------------
(* Where marks come from *)

\* Articles of one list have different positions.
LEMMA IndexInjective ==
  ASSUME NEW ids \in SUBSET Article, NEW a \in ids, NEW b \in ids,
         IndexIn(a, ids) = IndexIn(b, ids)
  PROVE  a = b
<1>1. ASSUME NEW x \in ids, NEW y \in ids, x < y
      PROVE  IndexIn(x, ids) # IndexIn(y, ids)
  <2> DEFINE below == {c \in ids : c < x}
             more == {c \in ids : c < y}
  <2>1. x \in Nat /\ y \in Nat /\ \A c \in ids : c \in Nat
    BY ArticleAssumption
  <2>2. below \in SUBSET more
    <3>1. \A c \in ids : c < x => c < y
      BY <1>1, <2>1
    <3> QED
      BY <3>1
  <2>3. x \in more /\ x \notin below
    BY <1>1, <2>1
  <2>4. IsFiniteSet(more)
    BY TypesAssumption, FS_Subset
  <2>5. IndexIn(x, ids) = Cardinality(below) /\ IndexIn(y, ids) = Cardinality(more)
    BY DEF IndexIn
  <2> HIDE DEF below, more
  <2>6. Cardinality(more) = Cardinality(below) => more = below
    BY <2>2, <2>4, FS_Subset
  <2> QED
    BY <2>3, <2>5, <2>6
<1>2. a \in Nat /\ b \in Nat
  BY ArticleAssumption
<1> QED
  BY <1>1, <1>2

\* What a result will mark in some rows, and the results that are still to come.
Hit(s, ids) == {a \in ids : IndexIn(a, ids) = position[s]}

Owed == {reading[k] : k \in DOMAIN reading}
        \cup {queue[k] : k \in {j \in DOMAIN queue : queue[j].kind = "result"}}

\* A result for the list that was clicked marks what was opened, if its rows are
\* those of the click.
OwedOK(r) ==
  /\ r.gen <= Len(objects[r.screen])
  /\ r.gen = Len(objects[r.screen]) => Hit(r.screen, r.among) \subseteq earned

\* While a click waits, the rows have not changed since an article was opened.
RowsStand(r) ==
  r.gen = Len(objects[r.screen]) => r.among = listed[r.screen]

EarnedInv ==
  /\ rows.read \subseteq earned /\ job.items.read \subseteq earned
  /\ \A s \in Screen : \A g \in 1 .. Len(objects[s]) :
       objects[s][g].read \subseteq earned
  /\ \A r \in Owed : OwedOK(r)
  /\ Waiting({"click"}) => \A r \in Owed : RowsStand(r)

LEMMA OwedType ==
  ASSUME TypeInv
  PROVE  Owed \subseteq Result
<1>1. reading \in Seq(Result) /\ queue \in Seq(Message)
  BY ShapeFacts DEF TypeInv, PagesOK
<1>2. \A m \in Message : m.kind = "result" => m \in Result
  BY DEF Message
<1> QED
  BY <1>1, <1>2 DEF Owed

\* Steps after which no more is owed, and positions are as they were.
LEMMA EarnedFrame ==
  ASSUME TypeInv, EarnedInv, UNCHANGED position,
         Owed' \subseteq Owed, earned \subseteq earned',
         rows'.read \subseteq earned', job'.items.read \subseteq earned',
         \A s \in Screen : \A g \in 1 .. Len(objects'[s]) :
           objects'[s][g].read \subseteq earned',
         \A s \in Screen : /\ Len(objects'[s]) \in Nat
                           /\ Len(objects[s]) <= Len(objects'[s]),
         Waiting({"click"})' =>
           \/ Owed' = {}
           \/ /\ Waiting({"click"})
              /\ \A s \in Screen :
                   Len(objects'[s]) = Len(objects[s]) => listed'[s] = listed[s]
  PROVE  EarnedInv'
<1>1. ASSUME NEW r \in Owed'
      PROVE  /\ OwedOK(r)'
             /\ Waiting({"click"})' => RowsStand(r)'
  <2>1. r \in Owed /\ r \in Result
    BY <1>1, OwedType
  <2>2. r.screen \in Screen /\ r.gen \in Nat
    BY <2>1 DEF Result
  <2>3. Len(objects[r.screen]) \in Nat
    BY <2>2, ShapeFacts DEF TypeInv
  <2>4. r.gen <= Len(objects[r.screen])
    BY <2>1 DEF EarnedInv, OwedOK
  <2>5. r.gen <= Len(objects'[r.screen])
    BY <2>2, <2>3, <2>4
  <2>6. r.gen = Len(objects'[r.screen]) =>
          /\ r.gen = Len(objects[r.screen])
          /\ Len(objects'[r.screen]) = Len(objects[r.screen])
    BY <2>2, <2>3, <2>4
  <2>7. r.gen = Len(objects'[r.screen]) => Hit(r.screen, r.among)' \subseteq earned'
    BY <2>1, <2>6 DEF EarnedInv, OwedOK, Hit
  <2>8. Waiting({"click"})' => RowsStand(r)'
    BY <1>1, <2>1, <2>2, <2>6 DEF EarnedInv, RowsStand
  <2> QED
    BY <2>5, <2>7, <2>8 DEF OwedOK
<1> QED
  BY <1>1 DEF EarnedInv

\* The results that wait when the queue keeps, loses or gains messages.
LEMMA OwedQueue ==
  ASSUME TypeInv, UNCHANGED reading,
         \A k \in DOMAIN queue' : queue'[k].kind \in {"result", "click"} =>
           \E j \in DOMAIN queue : queue[j] = queue'[k]
  PROVE  /\ Owed' \subseteq Owed
         /\ Waiting({"click"})' => Waiting({"click"})
  BY DEF Owed, Waiting

\* Objects that are only collected have no more marks and no other number.
LEMMA EarnedCollected ==
  ASSUME NEW objs, Sound(objs), NEW q, NEW v, NEW st,
         NEW left, left = Collect(objs, q, v, st)
  PROVE  /\ \A s \in Screen : Len(left[s]) = Len(objs[s])
         /\ \A s \in Screen : \A g \in 1 .. Len(objs[s]) :
              left[s][g].read \subseteq objs[s][g].read
<1>1. /\ \A s \in Screen : Len(left[s]) = Len(objs[s])
      /\ \A s \in Screen : \A g \in 1 .. Len(objs[s]) :
           left[s][g] \in {objs[s][g], Nothing}
  BY CollectKeeps
<1>2. Nothing.read = {}
  BY DEF Nothing
<1> QED
  BY <1>1, <1>2

\* A message that is posted comes last.
LEMMA PostedLast ==
  ASSUME TypeInv, NEW m, queue' = Append(queue, m)
  PROVE  \A k \in DOMAIN queue' :
           (k \in DOMAIN queue /\ queue'[k] = queue[k]) \/ queue'[k] = m
<1>1. queue \in Seq(Message) /\ Len(queue) \in Nat /\ DOMAIN queue = 1 .. Len(queue)
  BY DEF TypeInv, ShapeOK, Shape, QueueOK
<1>2. /\ DOMAIN queue' = 1 .. Len(queue) + 1
      /\ \A k \in 1 .. Len(queue) : queue'[k] = queue[k]
      /\ queue'[Len(queue) + 1] = m
  BY <1>1
<1>3. \A k \in 1 .. Len(queue) + 1 : k \in 1 .. Len(queue) \/ k = Len(queue) + 1
  BY <1>1
<1> QED
  BY <1>1, <1>2, <1>3

\* The objects before a step, and their marks.
LEMMA EarnedNow ==
  ASSUME TypeInv, TypeInv', EarnedInv
  PROVE  /\ Sound(objects)
         /\ \A s \in Screen : Len(objects[s]) \in Nat /\ Len(objects'[s]) \in Nat
         /\ \A s \in Screen : \A g \in 1 .. Len(objects[s]) :
              objects[s][g].read \subseteq earned
         /\ \A s \in Screen : Len(objects[s]) <= Len(objects[s])
<1>1. /\ Sound(objects) /\ Sound(objects')
  BY DEF TypeInv, ShapeOK, Shape
<1>2. \A s \in Screen : Len(objects[s]) \in Nat /\ Len(objects'[s]) \in Nat
  BY <1>1 DEF Sound
<1>3. \A s \in Screen : Len(objects[s]) <= Len(objects[s])
  BY <1>2
<1> QED
  BY <1>1, <1>2, <1>3 DEF EarnedInv

\* No article is open and no result waits.
LEMMA NothingOwed ==
  ASSUME reading = <<>>, ~Waiting({"result"})
  PROVE  Owed = {}
BY DEF Owed, Waiting

LEMMA AllButLast ==
  ASSUME NEW S, NEW s \in Seq(S), s # <<>>, NEW t, t = SubSeq(s, 1, Len(s) - 1)
  PROVE  \A k \in DOMAIN t : k \in DOMAIN s /\ t[k] = s[k]
<1>1. Len(s) \in Nat \ {0} /\ DOMAIN s = 1 .. Len(s)
  OBVIOUS
<1>2. /\ t \in Seq(S) /\ Len(t) = Len(s) - 1
      /\ \A k \in 1 .. Len(s) - 1 : t[k] = s[k]
  BY <1>1
<1>3. DOMAIN t = 1 .. Len(s) - 1
  BY <1>2
<1> QED
  BY <1>1, <1>2, <1>3

\* Steps that leave the objects, the table and the job.
LEMMA EarnedStill ==
  ASSUME TypeInv, TypeInv', EarnedInv,
         UNCHANGED <<position, objects, rows, job, earned>>,
         Owed' \subseteq Owed,
         Waiting({"click"})' =>
           Owed' = {} \/ (Waiting({"click"}) /\ UNCHANGED listed)
  PROVE  EarnedInv'
<1>1. rows.read \subseteq earned /\ job.items.read \subseteq earned
  BY DEF EarnedInv
<1> QED
  BY <1>1, EarnedNow, EarnedFrame

\* Steps that only collect.
LEMMA EarnedLeft ==
  ASSUME TypeInv, TypeInv', EarnedInv,
         UNCHANGED <<position, rows, job, earned>>,
         NEW v, NEW st, objects' = Collect(objects, queue', v, st),
         Owed' \subseteq Owed,
         Waiting({"click"})' =>
           Owed' = {} \/ (Waiting({"click"}) /\ UNCHANGED listed)
  PROVE  EarnedInv'
<1>1. rows.read \subseteq earned /\ job.items.read \subseteq earned
  BY DEF EarnedInv
<1>2. /\ \A s \in Screen : Len(objects'[s]) = Len(objects[s])
      /\ \A s \in Screen : \A g \in 1 .. Len(objects'[s]) :
           objects'[s][g].read \subseteq earned
  <2>1. /\ Sound(objects)
        /\ \A s \in Screen : \A g \in 1 .. Len(objects[s]) :
             objects[s][g].read \subseteq earned
    BY EarnedNow
  <2>2. /\ \A s \in Screen : Len(objects'[s]) = Len(objects[s])
        /\ \A s \in Screen : \A g \in 1 .. Len(objects[s]) :
             objects'[s][g].read \subseteq objects[s][g].read
    BY <2>1, EarnedCollected
  <2> QED
    BY <2>1, <2>2
<1>3. \A s \in Screen : /\ Len(objects'[s]) \in Nat
                        /\ Len(objects[s]) <= Len(objects'[s])
  BY <1>2, EarnedNow
<1> QED
  BY <1>1, <1>2, <1>3, EarnedFrame

\* The user, the screen and the snapshots.
LEMMA EarnedUser ==
  ASSUME TypeInv, TypeInv', EarnedInv,
         \/ Start \/ CloseScreen \/ Layout \/ UNCHANGED vars \/ OpenScreen
         \/ \E ids \in SUBSET Article : Snapshot(ids)
         \/ \E a \in Article : Touch(a)
         \/ \E t \in Type : TouchSelector(t)
         \/ \E ok \in BOOLEAN : CloseArticle(ok)
  PROVE  EarnedInv'
<1> USE DEF processVars, screenVars, rowVars, history, vars
<1>0. queue \in Seq(Message) /\ DOMAIN queue = 1 .. Len(queue) /\ Len(queue) \in Nat
  BY ShapeFacts DEF TypeInv
<1>1. CASE Start \/ UNCHANGED vars
  <2>1. UNCHANGED <<position, objects, rows, job, earned, queue, reading, listed>>
    BY <1>1 DEF Start
  <2>2. Owed' \subseteq Owed /\ (Waiting({"click"})' => Waiting({"click"}))
    BY <2>1, OwedQueue
  <2> QED
    BY <2>1, <2>2, EarnedStill
<1>2. CASE Layout
  <2>1. /\ UNCHANGED <<position, rows, job, earned, queue, reading, listed>>
        /\ objects' = Collect(objects, queue', shown', stack)
    BY <1>2 DEF Layout
  <2>2. Owed' \subseteq Owed /\ (Waiting({"click"})' => Waiting({"click"}))
    BY <2>1, OwedQueue
  <2> QED
    BY <2>1, <2>2, EarnedLeft
<1>3. CASE CloseScreen \/ OpenScreen
  <2>1. /\ UNCHANGED <<rows, job, earned, reading>>
        /\ objects' = Collect(objects, queue', shown', stack')
        /\ reading = <<>> /\ ~Waiting({"result"}) /\ ~Waiting({"click"})
    BY <1>3 DEF CloseScreen, OpenScreen, Waiting
  <2>2. \A k \in DOMAIN queue' :
          (k \in DOMAIN queue /\ queue'[k] = queue[k]) \/ queue'[k].kind = "data"
    BY <1>0, <1>3 DEF CloseScreen, OpenScreen
  <2>3. Owed' = {} /\ ~Waiting({"click"})'
    BY <2>1, <2>2 DEF Owed, Waiting
  <2>4. rows'.read \subseteq earned' /\ job'.items.read \subseteq earned'
    BY <2>1 DEF EarnedInv
  <2>5. /\ \A s \in Screen : Len(objects'[s]) = Len(objects[s])
        /\ \A s \in Screen : \A g \in 1 .. Len(objects'[s]) :
             objects'[s][g].read \subseteq earned'
    <3>1. /\ Sound(objects)
          /\ \A s \in Screen : \A g \in 1 .. Len(objects[s]) :
               objects[s][g].read \subseteq earned
      BY EarnedNow
    <3>2. objects' = Collect(objects, queue', shown', stack') /\ earned' = earned
      BY <2>1
    <3>3. /\ \A s \in Screen : Len(objects'[s]) = Len(objects[s])
          /\ \A s \in Screen : \A g \in 1 .. Len(objects[s]) :
               objects'[s][g].read \subseteq objects[s][g].read
      BY <3>1, <3>2, EarnedCollected
    <3> QED
      BY <3>1, <3>2, <3>3
  <2> QED
    BY <2>3, <2>4, <2>5 DEF EarnedInv
<1>4. CASE \E ids \in SUBSET Article : Snapshot(ids)
  <2>1. /\ UNCHANGED <<position, objects, rows, job, earned, reading, listed>>
        /\ \E m : m.kind = "data" /\ queue' = Append(queue, m)
    BY <1>4 DEF Snapshot
  <2>2. \A k \in DOMAIN queue' :
          (k \in DOMAIN queue /\ queue'[k] = queue[k]) \/ queue'[k].kind = "data"
    <3>1. PICK m : m.kind = "data" /\ queue' = Append(queue, m)
      BY <2>1
    <3>2. \A k \in DOMAIN queue' :
            (k \in DOMAIN queue /\ queue'[k] = queue[k]) \/ queue'[k] = m
      BY <3>1, PostedLast
    <3> QED
      BY <3>1, <3>2
  <2>3. Owed' \subseteq Owed /\ (Waiting({"click"})' => Waiting({"click"}))
    BY <2>1, <2>2, OwedQueue
  <2> QED
    BY <2>1, <2>3, EarnedStill
<1>5. CASE \E a \in Article : Touch(a)
  <2>1. /\ UNCHANGED <<position, objects, rows, job, earned, reading, listed>>
        /\ \E m : m.kind = "click" /\ queue' = Append(queue, m)
        /\ reading = <<>> /\ ~Waiting({"result"})
    BY <1>5 DEF Touch
  <2>2. \A k \in DOMAIN queue' :
          (k \in DOMAIN queue /\ queue'[k] = queue[k]) \/ queue'[k].kind = "click"
    <3>1. PICK m : m.kind = "click" /\ queue' = Append(queue, m)
      BY <2>1
    <3>2. \A k \in DOMAIN queue' :
            (k \in DOMAIN queue /\ queue'[k] = queue[k]) \/ queue'[k] = m
      BY <3>1, PostedLast
    <3> QED
      BY <3>1, <3>2
  <2>3. Owed' = {}
    BY <2>1, <2>2 DEF Owed, Waiting
  <2> QED
    BY <2>1, <2>3, EarnedStill
<1>6. CASE \E t \in Type : TouchSelector(t)
  <2>1. /\ UNCHANGED <<position, objects, rows, job, earned, reading, queue>>
        /\ queue = <<>>
    BY <1>6 DEF TouchSelector
  <2>2. Owed' \subseteq Owed /\ ~Waiting({"click"})'
    BY <2>1, OwedQueue DEF Waiting
  <2> QED
    BY <2>1, <2>2, EarnedStill
<1>7. CASE \E ok \in BOOLEAN : CloseArticle(ok)
  <2> DEFINE r == reading[Len(reading)]
  <2>1. /\ UNCHANGED <<position, objects, rows, job, earned, listed>>
        /\ reading # <<>> /\ reading' = SubSeq(reading, 1, Len(reading) - 1)
        /\ queue' = Append(queue, r) \/ queue' = queue
    BY <1>7 DEF CloseArticle
  <2>2. /\ reading \in Seq(Result) /\ Len(reading) \in DOMAIN reading
        /\ r.kind = "result"
        /\ \A k \in DOMAIN reading' : k \in DOMAIN reading /\ reading'[k] = reading[k]
    <3>1. reading \in Seq(Result)
      BY DEF TypeInv, PagesOK
    <3>2. Len(reading) \in Nat \ {0} /\ DOMAIN reading = 1 .. Len(reading)
      BY <2>1, <3>1
    <3>3. r \in Result
      BY <3>1, <3>2
    <3>4. \A k \in DOMAIN reading' : k \in DOMAIN reading /\ reading'[k] = reading[k]
      BY <2>1, <3>1, AllButLast
    <3> QED
      BY <3>1, <3>2, <3>3, <3>4 DEF Result
  <2>3. \A k \in DOMAIN queue' :
          (k \in DOMAIN queue /\ queue'[k] = queue[k]) \/ queue'[k] = r
    BY <1>0, <2>1
  <2>4. Owed' \subseteq Owed
    BY <2>2, <2>3 DEF Owed
  <2>5. Waiting({"click"})' => Waiting({"click"})
    BY <2>2, <2>3 DEF Waiting
  <2> QED
    BY <2>1, <2>4, <2>5, EarnedStill
<1> QED
  BY <1>1, <1>2, <1>3, <1>4, <1>5, <1>6, <1>7

\* Listeners get articles whose marks are known.
LEMMA EarnedDelivered ==
  ASSUME TypeInv, TypeInv', EarnedInv, UNCHANGED <<position, reading, earned>>,
         NEW rest, Shape(objects, rest, shown, stack, listed, opened),
         NEW items, Marked(items), items.read \subseteq earned,
         NEW instances, Batch(instances, opened),
         Deliver(items, instances, rest),
         rows'.read \subseteq earned, job'.items.read \subseteq earned,
         \A k \in 1 .. Len(rest) : \E j \in DOMAIN queue : queue[j] = rest[k]
  PROVE  EarnedInv'
<1>1. opened \in 0 .. MaxScreens
  BY DEF TypeInv, PagesOK
<1>2. /\ Len(rest) \in Nat /\ Len(queue') \in Nat
      /\ \A k \in 1 .. Len(rest) : queue'[k] = rest[k]
      /\ \A k \in 1 .. Len(queue') : k > Len(rest) => queue'[k].kind = "update"
  BY <1>1, Delivered
<1>3. /\ \A s \in instances : objects'[s][Len(objects[s]) + 1] = items
      /\ \A s \in instances : Len(objects'[s]) = Len(objects[s]) + 1
      /\ \A s \in Screen \ instances : Len(objects'[s]) = Len(objects[s])
      /\ \A s \in Screen : \A g \in 1 .. Len(objects[s]) :
           objects'[s][g] \in {objects[s][g], Nothing}
  BY <1>1, Delivered
<1>4. /\ \A s \in Screen : Len(objects[s]) \in Nat /\ Len(objects'[s]) \in Nat
      /\ \A s \in Screen : \A g \in 1 .. Len(objects[s]) :
           objects[s][g].read \subseteq earned
  BY EarnedNow
<1>5. \A k \in DOMAIN queue' : queue'[k].kind \in {"result", "click"} =>
        \E j \in DOMAIN queue : queue[j] = queue'[k]
  <2>1. DOMAIN queue' = 1 .. Len(queue')
    BY DEF TypeInv, ShapeOK, Shape, QueueOK
  <2>2. \A k \in 1 .. Len(queue') : k \in 1 .. Len(rest) \/ k > Len(rest)
    BY <1>2
  <2> QED
    BY <1>2, <2>1, <2>2
<1>6. Owed' \subseteq Owed /\ (Waiting({"click"})' => Waiting({"click"}))
  BY <1>5, OwedQueue
<1>7. ASSUME NEW s \in Screen, NEW g \in 1 .. Len(objects'[s])
      PROVE  objects'[s][g].read \subseteq earned'
  <2>1. CASE g \in 1 .. Len(objects[s])
    BY <1>3, <1>4, <2>1 DEF Nothing
  <2>2. CASE g \notin 1 .. Len(objects[s])
    <3>1. s \in instances
      BY <1>3, <2>2
    <3>2. g = Len(objects[s]) + 1
      BY <1>3, <1>4, <2>2, <3>1
    <3> QED
      BY <1>3, <3>1, <3>2
  <2> QED
    BY <2>1, <2>2
<1>8. \A s \in Screen : Len(objects[s]) <= Len(objects'[s])
  BY <1>3, <1>4
<1>9. ASSUME NEW s \in Screen, Len(objects'[s]) = Len(objects[s])
      PROVE  listed'[s] = listed[s]
  <2>1. s \notin instances
    BY <1>3, <1>4, <1>9
  <2>2. listed' = [t \in Screen |-> IF t \in instances \cap Live
                                      THEN items.ids ELSE listed[t]]
    BY DEF Deliver
  <2> QED
    BY <2>1, <2>2
<1> QED
  BY <1>4, <1>6, <1>7, <1>8, <1>9, EarnedFrame

LEMMA EarnedHandleData ==
  ASSUME TypeInv, TypeInv', EarnedInv, HandleData
  PROVE  EarnedInv'
<1> DEFINE m == Head(queue)
           items == Parse(m.ids, rows)
           rest == Tail(queue)
<1>1. /\ Turn("data") /\ UNCHANGED <<position, reading, earned>>
      /\ \/ /\ rows' = Nothing /\ job'.items = items
            /\ queue' = rest /\ UNCHANGED <<objects, listed>>
         \/ Deliver(items, m.for, rest) /\ UNCHANGED <<rows, job>>
  BY DEF HandleData, ReplaceRows
<1>2. /\ m \in Message /\ m.kind = "data" /\ Batch(m.for, opened)
      /\ Shape(objects, rest, shown, stack, listed, opened)
      /\ DOMAIN rest = 1 .. Len(rest)
      /\ \A k \in DOMAIN rest : \E j \in DOMAIN queue : queue[j] = rest[k]
  <2>1. rest \in Seq(Message)
    BY <1>1, HeadFacts DEF QueueOK
  <2> QED
    BY <1>1, <2>1, HeadFacts DEF MessageOK
<1>3. Marked(items) /\ items.read \subseteq earned
  BY <1>2, ParseMarked DEF Message, Result, EarnedInv, Parse
<1>4. rows.read \subseteq earned /\ job.items.read \subseteq earned /\ Nothing.read = {}
  BY DEF EarnedInv, Nothing
<1> HIDE DEF m, items, rest
<1>5. CASE UNCHANGED <<objects, listed>> /\ queue' = rest /\ rows' = Nothing
           /\ job'.items = items
  <2>1. Owed' \subseteq Owed /\ (Waiting({"click"})' => Waiting({"click"}))
    BY <1>1, <1>2, <1>5, OwedQueue
  <2>2. rows'.read \subseteq earned' /\ job'.items.read \subseteq earned'
    BY <1>1, <1>3, <1>4, <1>5
  <2> QED
    BY <1>1, <1>5, <2>1, <2>2, EarnedNow, EarnedFrame
<1>6. CASE Deliver(items, m.for, rest) /\ UNCHANGED <<rows, job>>
  BY <1>1, <1>2, <1>3, <1>4, <1>6, EarnedDelivered
<1> QED
  BY <1>1, <1>5, <1>6

LEMMA EarnedFinishAdd ==
  ASSUME TypeInv, TypeInv', EarnedInv, FinishAdd
  PROVE  EarnedInv'
<1>1. /\ rows' = job.items /\ job' = NoJob
      /\ Deliver(job.items, job.for, queue)
      /\ UNCHANGED <<position, reading, earned>>
  BY DEF FinishAdd, history
<1>2. /\ Marked(job.items) /\ Batch(job.for, opened)
      /\ Shape(objects, queue, shown, stack, listed, opened)
      /\ DOMAIN queue = 1 .. Len(queue)
  BY DEF TypeInv, TableOK, ShapeOK, Shape, QueueOK
<1>3. job.items.read \subseteq earned /\ NoJob.items.read = {}
  BY DEF EarnedInv, NoJob, Nothing
<1> QED
  BY <1>1, <1>2, <1>3, EarnedDelivered

LEMMA EarnedHandleUpdate ==
  ASSUME TypeInv, TypeInv', EarnedInv, HandleUpdate
  PROVE  EarnedInv'
<1> DEFINE m == Head(queue)
<1>1. /\ Turn("update") /\ UNCHANGED <<position, reading, earned, listed>>
      /\ rows' = Nothing /\ job'.items = objects[m.screen][m.gen]
      /\ queue' = Tail(queue)
      /\ objects' = Collect(objects, queue', shown, stack)
  BY DEF HandleUpdate, ReplaceRows, history
<1>2. /\ m.screen \in Screen /\ m.gen \in DOMAIN objects[m.screen]
      /\ \A k \in DOMAIN Tail(queue) : \E j \in DOMAIN queue : queue[j] = Tail(queue)[k]
  BY <1>1, HeadFacts DEF MessageOK, Message, Result
<1> HIDE DEF m
<1>3. Owed' \subseteq Owed /\ (Waiting({"click"})' => Waiting({"click"}))
  BY <1>1, <1>2, OwedQueue
<1>4. /\ Sound(objects)
      /\ \A s \in Screen : /\ Len(objects[s]) \in Nat /\ Len(objects'[s]) \in Nat
                           /\ DOMAIN objects[s] = 1 .. Len(objects[s])
      /\ \A s \in Screen : \A g \in 1 .. Len(objects[s]) :
           objects[s][g].read \subseteq earned
  BY EarnedNow DEF Sound
<1>5. /\ \A s \in Screen : Len(objects'[s]) = Len(objects[s])
      /\ \A s \in Screen : \A g \in 1 .. Len(objects[s]) :
           objects'[s][g].read \subseteq objects[s][g].read
  BY <1>1, <1>4, EarnedCollected
<1>6. /\ \A s \in Screen : \A g \in 1 .. Len(objects'[s]) :
           objects'[s][g].read \subseteq earned'
      /\ \A s \in Screen : Len(objects[s]) <= Len(objects'[s])
  BY <1>1, <1>4, <1>5
<1>7. rows'.read \subseteq earned' /\ job'.items.read \subseteq earned'
  BY <1>1, <1>2, <1>4 DEF Nothing
<1> QED
  BY <1>1, <1>3, <1>4, <1>6, <1>7, EarnedFrame

\* The position of a click names the article of the click, or none.
LEMMA ClickHits ==
  ASSUME NEW m, m.id \in Article, NEW ids \in SUBSET Article, ids = listed[m.screen],
         NEW a \in ids, IndexIn(a, ids) = AdapterPosition(m)
  PROVE  a = m.id
<1>1. IndexIn(a, ids) \in Nat
  BY IndexType
<1>2. HasRow(m)
  BY <1>1 DEF AdapterPosition, NO_POSITION
<1>3. m.id \in ids /\ IndexIn(a, ids) = IndexIn(m.id, ids)
  BY <1>2 DEF AdapterPosition, HasRow
<1> QED
  BY <1>3, IndexInjective

LEMMA EarnedHandleClick ==
  ASSUME TypeInv, TypeInv', EarnedInv, HandleClick
  PROVE  EarnedInv'
<1> DEFINE m == Head(queue)
           more == [objects EXCEPT ![m.screen][m.gen].read = @ \cup {m.id}]
           result == [kind |-> "result", screen |-> m.screen, gen |-> m.gen,
                      among |-> listed[m.screen]]
<1>1. /\ Turn("click") /\ queue' = Tail(queue) /\ UNCHANGED <<job, listed>>
      /\ objects' = Collect(more, queue', shown, stack)
      /\ rows' = [rows EXCEPT !.read = @ \cup ({m.id} \cap rows.ids)]
      /\ position' = [position EXCEPT ![m.screen] = AdapterPosition(m)]
      /\ reading' = Append(reading, result)
      /\ earned' = earned \cup {m.id}
  BY DEF HandleClick, UpdateReadStatus
<1>2. /\ m \in Message /\ m.kind = "click" /\ m.gen \in DOMAIN objects[m.screen]
      /\ m.id \in objects[m.screen][m.gen].ids
      /\ Shape(objects, queue', shown, stack, listed, opened)
      /\ \A k \in DOMAIN queue' : \E j \in DOMAIN queue : queue[j] = queue'[k]
      /\ m = queue[1] /\ 1 \in DOMAIN queue
  BY <1>1, HeadFacts DEF MessageOK
<1>3. m.screen \in Screen /\ m.id \in Article
  BY <1>2 DEF Message, Result
<1>4. Waiting({"click"})
  BY <1>2 DEF Waiting
<1>5. /\ result.screen = m.screen /\ result.gen = m.gen
      /\ result.among = listed[m.screen]
  OBVIOUS
<1> HIDE DEF m, result
<1>6. /\ \A s \in Screen : /\ Len(objects[s]) \in Nat
                           /\ DOMAIN objects[s] = 1 .. Len(objects[s])
                           /\ listed[s] \in SUBSET Article
      /\ reading \in Seq(Result) /\ position \in [Screen -> Nat \cup {NO_POSITION}]
  BY ShapeFacts DEF TypeInv, PagesOK
<1>7. /\ \A s \in Screen : Len(objects'[s]) = Len(objects[s])
      /\ \A s \in Screen : \A g \in 1 .. Len(objects'[s]) :
           objects'[s][g].read \subseteq earned'
  <2>1. {m.id} \subseteq objects[m.screen][m.gen].ids
    BY <1>2
  <2>2. more = MarkedIn(objects, m.screen, m.gen, {m.id})
    BY DEF MarkedIn
  <2> HIDE DEF more
  <2> DEFINE hit == {m.id}
  <2> HIDE DEF hit
  <2>3. /\ Shape(more, queue', shown, stack, listed, opened)
        /\ \A s \in Screen : Len(more[s]) = Len(objects[s])
        /\ \A s \in Screen : \A g \in 1 .. Len(objects[s]) :
             more[s][g].read \subseteq objects[s][g].read \cup {m.id}
    <3>1. /\ Shape(objects, queue', shown, stack, listed, opened)
          /\ m.screen \in Screen /\ hit = {m.id}
          /\ hit \subseteq objects[m.screen][m.gen].ids
          /\ more = MarkedIn(objects, m.screen, m.gen, hit)
      BY <1>2, <1>3, <2>1, <2>2 DEF hit
    <3>2. /\ Shape(more, queue', shown, stack, listed, opened)
          /\ \A s \in Screen : Len(more[s]) = Len(objects[s])
      BY <3>1, MarkShape
    <3>3. \A s \in Screen : \A g \in 1 .. Len(objects[s]) :
            more[s][g].read \subseteq objects[s][g].read \cup hit
      BY <3>1, MarkShape
    <3> QED
      BY <3>1, <3>2, <3>3
  <2>4. Sound(more)
    BY <2>3 DEF Shape
  <2>5. /\ \A s \in Screen : Len(objects'[s]) = Len(more[s])
        /\ \A s \in Screen : \A g \in 1 .. Len(more[s]) :
             objects'[s][g].read \subseteq more[s][g].read
    BY <1>1, <2>4, EarnedCollected
  <2> QED
    BY <1>1, <2>3, <2>5 DEF EarnedInv
<1> HIDE DEF more
<1>8. rows'.read \subseteq earned' /\ job'.items.read \subseteq earned'
  BY <1>1 DEF EarnedInv, TypeInv, TableOK, Marked, Articles
<1>9. \A r \in Owed' : r \in Owed \/ r = result
  <2>1. \A k \in DOMAIN reading' :
          (k \in DOMAIN reading /\ reading'[k] = reading[k]) \/ reading'[k] = result
    <3>1. Len(reading) \in Nat /\ DOMAIN reading = 1 .. Len(reading)
      BY <1>6
    <3>2. /\ DOMAIN reading' = 1 .. Len(reading) + 1
          /\ \A k \in 1 .. Len(reading) : reading'[k] = reading[k]
          /\ reading'[Len(reading) + 1] = result
      BY <1>1, <1>6, <3>1
    <3>3. \A k \in 1 .. Len(reading) + 1 : k \in 1 .. Len(reading) \/ k = Len(reading) + 1
      BY <3>1
    <3> QED
      BY <3>1, <3>2, <3>3
  <2> QED
    BY <1>2, <2>1 DEF Owed
<1>10. ASSUME NEW r \in Owed' PROVE RowsStand(r)' /\ OwedOK(r)'
  <2>1. /\ r.screen \in Screen
        /\ r.gen <= Len(objects[r.screen])
        /\ r.gen = Len(objects[r.screen]) => r.among = listed[r.screen]
    <3>1. CASE r \in Owed
      <4>1. r \in Result /\ OwedOK(r) /\ RowsStand(r)
        BY <1>4, <3>1, OwedType DEF EarnedInv
      <4> QED
        BY <4>1 DEF Result, OwedOK, RowsStand
    <3>2. CASE r = result
      <4>1. m.gen \in 1 .. Len(objects[m.screen])
        BY <1>2, <1>3, <1>6
      <4>2. m.gen <= Len(objects[m.screen])
        BY <1>3, <1>6, <4>1
      <4> QED
        BY <1>3, <1>5, <3>2, <4>2
    <3> QED
      BY <1>9, <3>1, <3>2
  <2>2. RowsStand(r)' /\ r.gen <= Len(objects'[r.screen])
    BY <1>1, <1>7, <2>1 DEF RowsStand
  <2>3. ASSUME r.gen = Len(objects'[r.screen])
        PROVE  Hit(r.screen, r.among)' \subseteq earned'
    <3>1. r.gen = Len(objects[r.screen]) /\ r.among = listed[r.screen]
      BY <1>7, <2>1, <2>3
    <3>2. CASE r.screen = m.screen
      <4>1. position'[r.screen] = AdapterPosition(m)
        BY <1>1, <1>3, <1>6, <3>2
      <4>2. \A a \in r.among : IndexIn(a, r.among) = AdapterPosition(m) => a = m.id
        BY <1>3, <1>6, <3>1, <3>2, ClickHits
      <4> QED
        BY <1>1, <4>1, <4>2 DEF Hit
    <3>3. CASE r.screen # m.screen
      <4>1. position'[r.screen] = position[r.screen]
        BY <1>1, <1>6, <2>1, <3>3
      <4>2. r \in Owed
        BY <1>5, <1>9, <3>3
      <4>3. Hit(r.screen, r.among) \subseteq earned
        BY <3>1, <4>2 DEF EarnedInv, OwedOK
      <4> QED
        BY <1>1, <4>1, <4>3 DEF Hit
    <3> QED
      BY <3>2, <3>3
  <2> QED
    BY <2>2, <2>3 DEF OwedOK
<1> QED
  BY <1>7, <1>8, <1>10 DEF EarnedInv

\* A result marks the article that was clicked, or one that is marked as the
\* result of an older list.
LEMMA EarnedHandleResult ==
  ASSUME TypeInv, TypeInv', EarnedInv, HandleResult, ~Die
  PROVE  EarnedInv'
<1> DEFINE m == Head(queue)
           s == m.screen
           g == Len(objects[s])
           hit == {a \in listed[s] : IndexIn(a, listed[s]) = position[s]}
<1>1. /\ Turn("result") /\ queue' = Tail(queue)
      /\ objects' = [objects EXCEPT ![s][g].read = @ \cup hit]
      /\ earned' = IF m.gen = g /\ m.among = listed[s] THEN earned
                   ELSE earned \cup hit
      /\ UNCHANGED <<job, rows, listed, position, reading>>
  BY DEF HandleResult
<1>2. /\ m \in Message /\ m.kind = "result"
      /\ Shape(objects, queue', shown, stack, listed, opened)
      /\ \A k \in DOMAIN queue' : \E j \in DOMAIN queue : queue[j] = queue'[k]
      /\ m = queue[1] /\ 1 \in DOMAIN queue
  BY <1>1, HeadFacts
<1>3. m \in Owed /\ s \in Screen
  BY <1>2 DEF Owed, Message, Result
<1>4. hit = Hit(s, listed[s])
  BY DEF Hit
<1> HIDE DEF m
<1>5. earned \subseteq earned' /\ hit \subseteq earned'
  BY <1>1, <1>3, <1>4 DEF EarnedInv, OwedOK
<1> HIDE DEF s
<1>6. hit \subseteq listed[s] /\ RowsOK(listed, objects, stack)
  BY DEF TypeInv, ShapeOK, Shape
<1> HIDE DEF hit
<1>7. g \in DOMAIN objects[s] => hit \subseteq objects[s][g].ids
  BY <1>3, <1>6 DEF RowsOK
<1> HIDE DEF g
<1>8. objects' = MarkedIn(objects, s, g, hit)
  BY <1>1 DEF MarkedIn
<1>9. /\ \A t \in Screen : Len(objects'[t]) = Len(objects[t])
      /\ \A t \in Screen : \A i \in 1 .. Len(objects[t]) :
           objects'[t][i].read \subseteq objects[t][i].read \cup hit
  BY <1>2, <1>3, <1>7, <1>8, MarkShape
<1>10. /\ \A t \in Screen : /\ Len(objects'[t]) \in Nat
                            /\ Len(objects[t]) <= Len(objects'[t])
       /\ \A t \in Screen : \A i \in 1 .. Len(objects'[t]) :
            objects'[t][i].read \subseteq earned'
  BY <1>5, <1>9, EarnedNow
<1>11. Owed' \subseteq Owed /\ (Waiting({"click"})' => Waiting({"click"}))
  BY <1>1, <1>2, OwedQueue
<1>12. rows'.read \subseteq earned' /\ job'.items.read \subseteq earned'
  BY <1>1, <1>5 DEF EarnedInv
<1> QED
  BY <1>1, <1>5, <1>10, <1>11, <1>12, EarnedFrame

LEMMA EarnedDie ==
  ASSUME TypeInv, TypeInv', EarnedInv, Die
  PROVE  EarnedInv'
<1>1. /\ queue' = <<>> /\ reading' = <<>> /\ rows' = rows /\ job' = NoJob
      /\ earned' = rows.read /\ objects' = [s \in Screen |-> <<>>]
  BY DEF Die
<1>2. Owed' = {} /\ ~Waiting({"click"})'
  BY <1>1 DEF Owed, Waiting
<1>3. \A s \in Screen : Len(objects'[s]) = 0
  BY <1>1
<1>4. \A s \in Screen : \A g \in 1 .. Len(objects'[s]) :
        objects'[s][g].read \subseteq earned'
  BY <1>3
<1> QED
  BY <1>1, <1>2, <1>4 DEF EarnedInv, NoJob, Nothing

LEMMA EarnedStep ==
  ASSUME TypeInv, TypeInv', EarnedInv, [Next]_vars
  PROVE  EarnedInv'
<1>1. CASE Die
  BY <1>1, EarnedDie
<1>2. CASE HandleData
  BY <1>2, EarnedHandleData
<1>3. CASE HandleUpdate
  BY <1>3, EarnedHandleUpdate
<1>4. CASE FinishAdd
  BY <1>4, EarnedFinishAdd
<1>5. CASE HandleClick
  BY <1>5, EarnedHandleClick
<1>6. CASE HandleResult /\ ~Die
  BY <1>6, EarnedHandleResult
<1>7. CASE \/ Start \/ CloseScreen \/ Layout \/ UNCHANGED vars \/ OpenScreen
           \/ \E ids \in SUBSET Article : Snapshot(ids)
           \/ \E a \in Article : Touch(a)
           \/ \E t \in Type : TouchSelector(t)
           \/ \E ok \in BOOLEAN : CloseArticle(ok)
  BY <1>7, EarnedUser
<1> QED
  BY <1>1, <1>2, <1>3, <1>4, <1>5, <1>6, <1>7 DEF Next, Crash

\* Whatever is filtered, loaded anew, opened or closed while an article is open,
\* a mark is on an article that was opened, or on the one at the same position of
\* rows that are not those of the click.
THEOREM MarksAreEarned == Spec => []OnlyEarnedMarks
<1>1. Init => EarnedInv
  <2> SUFFICES ASSUME Init PROVE EarnedInv
    OBVIOUS
  <2>1. Owed = {} /\ ~Waiting({"click"})
    BY DEF Init, Owed, Waiting
  <2>2. \A s \in Screen : Len(objects[s]) = 0
    BY DEF Init
  <2>3. \A s \in Screen : \A g \in 1 .. Len(objects[s]) :
          objects[s][g].read \subseteq earned
    BY <2>2
  <2> QED
    BY <2>1, <2>3 DEF Init, EarnedInv, NoJob, Nothing
<1>2. TypeInv /\ EarnedInv /\ [Next]_vars => (TypeInv /\ EarnedInv)'
  BY TypeStep, EarnedStep
<1>3. TypeInv /\ EarnedInv => OnlyEarnedMarks
  <2>1. TypeInv => \A s \in Screen : DOMAIN objects[s] = 1 .. Len(objects[s])
    BY ShapeFacts DEF TypeInv
  <2> QED
    BY <2>1 DEF EarnedInv, OnlyEarnedMarks
<1> QED
  BY <1>1, <1>2, <1>3, TypeInit, PTL DEF Spec

-----------------------------------------------------------------------------
(* The dot: what the table is about to hold has been seen by every page *)

IsNews(m) == m.kind = "data" /\ m.news
AfterNews(k) == \A j \in DOMAIN queue : j > k => ~IsNews(queue[j])
NewsWaits == \E k \in DOMAIN queue : IsNews(queue[k])

\* A list is on its way to a page.
Awaits(s) == \E k \in DOMAIN queue : queue[k].kind = "data" /\ s \in queue[k].for

\* The objects an update will write, and the last of the updates that come before
\* any list is handled.
Posted(k) == objects[queue[k].screen][queue[k].gen]

Ahead(k) ==
  /\ k \in DOMAIN queue /\ queue[k].kind = "update"
  /\ \A j \in DOMAIN queue : j < k => queue[j].kind # "data"

LastAhead(k) == Ahead(k) /\ \A j \in DOMAIN queue : j > k => ~Ahead(j)

\* Every page has its dot, or will find out for itself.
Dotted == \A p \in {News} \cup Live : p \in dots \/ Awaits(p)

Right(items) == items.ids = list /\ (SomeUnread(items) => Dotted)

\* The last list to all, and those sent since, are the server's.
ListComes ==
  synced =>
    /\ \A k \in DOMAIN queue :
         queue[k].kind = "data" /\ AfterNews(k) => queue[k].ids = list
    /\ ~NewsWaits => published = list

\* No update is made between the lists that the pages get since the last one that
\* went to all of them.
Together ==
  \A i, k, j \in DOMAIN queue :
    /\ i < k /\ k < j /\ AfterNews(i)
    /\ queue[i].kind = "data" /\ queue[j].kind = "data"
    => queue[k].kind # "update"

\* Who was not open when that one was sent gets one of its own.
EveryoneHears ==
  \A k \in DOMAIN queue : IsNews(queue[k]) /\ AfterNews(k) =>
    \A s \in Live :
      \/ s \in queue[k].for
      \/ \E j \in DOMAIN queue : j > k /\ queue[j].kind = "data" /\ s \in queue[j].for

\* While News_Activity writes that one, all that comes before the pages' own lists
\* is what it writes.
NewsFirst ==
  ~NewsWaits /\ job.busy /\ job.news =>
    /\ \A j, k \in DOMAIN queue :
         queue[j].kind = "data" /\ k < j => queue[k].kind # "update"
    /\ \A s \in Live : s \in job.for \/ Awaits(s)

\* What the table holds when the next list is handled, or when nothing is left.
NextWrite ==
  ~NewsWaits /\ ~(job.busy /\ job.news) =>
    /\ \A k \in DOMAIN queue : LastAhead(k) => Right(Posted(k))
    /\ (\A k \in DOMAIN queue : ~Ahead(k)) => Right(IF job.busy THEN job.items ELSE rows)

DotInv ==
  /\ ListComes
  /\ synced /\ ~crossed => Together /\ EveryoneHears /\ NewsFirst /\ NextWrite

\* A step after which the lists and updates of the queue are the same, but for the
\* first d messages, or are followed by more updates.
Later(d) ==
  /\ \A k \in DOMAIN queue' : queue'[k].kind \in {"data", "update"} =>
       \/ k + d \in DOMAIN queue /\ queue'[k] = queue[k + d]
       \/ /\ queue'[k].kind = "update"
          /\ \A j \in DOMAIN queue' : queue'[j].kind = "data" => j < k
  /\ \A k \in DOMAIN queue : k > d /\ queue[k].kind \in {"data", "update"} =>
       k - d \in DOMAIN queue' /\ queue'[k - d] = queue[k]

LEMMA QueueDomain ==
  ASSUME TypeInv
  PROVE  Len(queue) \in Nat /\ DOMAIN queue = 1 .. Len(queue) /\ queue \in Seq(Message)
BY DEF TypeInv, ShapeOK, Shape, QueueOK

LEMMA LaterOrder ==
  ASSUME TypeInv, TypeInv', NEW d \in {0, 1}, Later(d)
  PROVE  /\ \A k \in DOMAIN queue' : queue'[k].kind = "data" =>
              /\ k + d \in DOMAIN queue /\ queue'[k] = queue[k + d]
              /\ AfterNews(k)' => AfterNews(k + d)
         /\ Together => Together'
         /\ Live' \subseteq Live /\ EveryoneHears => EveryoneHears'
         /\ NewsWaits' => NewsWaits
         /\ \A s : Awaits(s)' => Awaits(s)
<1>1. /\ Len(queue) \in Nat /\ DOMAIN queue = 1 .. Len(queue)
      /\ Len(queue') \in Nat /\ DOMAIN queue' = 1 .. Len(queue')
  BY QueueDomain DEF TypeInv, ShapeOK, Shape, QueueOK
<1>2. ASSUME NEW k \in DOMAIN queue', queue'[k].kind = "data"
      PROVE  k + d \in DOMAIN queue /\ queue'[k] = queue[k + d]
  <2>1. ~(k < k)
    BY <1>1
  <2> QED
    BY <1>2, <2>1 DEF Later
<1>3. ASSUME NEW k \in DOMAIN queue', NEW j \in DOMAIN queue, j > k + d,
             queue[j].kind \in {"data", "update"}
      PROVE  j - d \in DOMAIN queue' /\ queue'[j - d] = queue[j] /\ j - d > k
  <2>1. j > d /\ j - d > k
    BY <1>1, <1>3
  <2> QED
    BY <1>3, <2>1 DEF Later
<1>4. ASSUME NEW k \in DOMAIN queue', AfterNews(k)' PROVE AfterNews(k + d)
  <2> SUFFICES ASSUME NEW j \in DOMAIN queue, j > k + d, IsNews(queue[j])
               PROVE  FALSE
    BY DEF AfterNews
  <2>1. j - d \in DOMAIN queue' /\ queue'[j - d] = queue[j] /\ j - d > k
    BY <1>3 DEF IsNews
  <2> QED
    BY <1>4, <2>1 DEF AfterNews, IsNews
<1>5. ASSUME Together PROVE Together'
  <2> SUFFICES ASSUME NEW i \in DOMAIN queue', NEW k \in DOMAIN queue',
                      NEW j \in DOMAIN queue', i < k, k < j, AfterNews(i)',
                      queue'[i].kind = "data", queue'[j].kind = "data",
                      queue'[k].kind = "update"
               PROVE  FALSE
    BY DEF Together
  <2>1. /\ i + d \in DOMAIN queue /\ queue[i + d].kind = "data" /\ AfterNews(i + d)
        /\ j + d \in DOMAIN queue /\ queue[j + d].kind = "data"
    BY <1>2, <1>4
  <2>2. k + d \in DOMAIN queue /\ queue[k + d].kind = "update"
    <3>1. ~(j < k)
      BY <1>1
    <3> QED
      BY <3>1 DEF Later
  <2>3. i + d < k + d /\ k + d < j + d
    BY <1>1
  <2> QED
    BY <1>5, <2>1, <2>2, <2>3 DEF Together
<1>6. ASSUME Live' \subseteq Live, EveryoneHears PROVE EveryoneHears'
  <2> SUFFICES ASSUME NEW k \in DOMAIN queue', IsNews(queue'[k]), AfterNews(k)',
                      NEW s \in Live'
               PROVE  \/ s \in queue'[k].for
                      \/ \E j \in DOMAIN queue' :
                           j > k /\ queue'[j].kind = "data" /\ s \in queue'[j].for
    BY DEF EveryoneHears, IsNews
  <2>1. /\ k + d \in DOMAIN queue /\ queue'[k] = queue[k + d] /\ AfterNews(k + d)
        /\ IsNews(queue[k + d])
    BY <1>2, <1>4 DEF IsNews
  <2>2. CASE s \in queue[k + d].for
    BY <2>1, <2>2
  <2>3. CASE s \notin queue[k + d].for
    <3>1. PICK j \in DOMAIN queue : j > k + d /\ queue[j].kind = "data" /\ s \in queue[j].for
      BY <1>6, <2>1, <2>3 DEF EveryoneHears
    <3>2. j - d \in DOMAIN queue' /\ queue'[j - d] = queue[j] /\ j - d > k
      BY <1>3, <3>1
    <3> QED
      BY <3>1, <3>2
  <2> QED
    BY <2>2, <2>3
<1>7. NewsWaits' => NewsWaits
  BY <1>2 DEF NewsWaits, IsNews
<1>8. \A s : Awaits(s)' => Awaits(s)
  BY <1>2 DEF Awaits
<1> QED
  BY <1>2, <1>4, <1>5, <1>6, <1>7, <1>8

\* If the messages that are gone were no lists, everyone waits for the same.
LEMMA LaterSame ==
  ASSUME TypeInv, TypeInv', NEW d \in {0, 1}, Later(d),
         d = 1 /\ queue # <<>> => queue[1].kind # "data"
  PROVE  /\ \A k \in DOMAIN queue : queue[k].kind = "data" =>
              k - d \in DOMAIN queue' /\ queue'[k - d] = queue[k]
         /\ NewsWaits => NewsWaits'
         /\ \A s : Awaits(s) => Awaits(s)'
         /\ UNCHANGED <<synced, list, published>> /\ ListComes => ListComes'
<1>1. /\ Len(queue) \in Nat /\ DOMAIN queue = 1 .. Len(queue) /\ queue \in Seq(Message)
  BY QueueDomain
<1>2. ASSUME NEW k \in DOMAIN queue, queue[k].kind = "data"
      PROVE  k - d \in DOMAIN queue' /\ queue'[k - d] = queue[k]
  <2>1. k > d
    <3>1. queue # <<>>
      BY <1>1, <1>2
    <3> QED
      BY <1>1, <1>2, <3>1
  <2> QED
    BY <1>2, <2>1 DEF Later
<1>3. NewsWaits => NewsWaits'
  BY <1>2 DEF NewsWaits, IsNews
<1>4. \A s : Awaits(s) => Awaits(s)'
  BY <1>2 DEF Awaits
<1>5. ASSUME UNCHANGED <<synced, list, published>>, ListComes PROVE ListComes'
  <2>1. ASSUME NEW k \in DOMAIN queue', queue'[k].kind = "data", AfterNews(k)', synced
        PROVE  queue'[k].ids = list
    <3>1. k + d \in DOMAIN queue /\ queue'[k] = queue[k + d] /\ AfterNews(k + d)
      BY <2>1, LaterOrder
    <3> QED
      BY <1>5, <2>1, <3>1 DEF ListComes
  <2> QED
    BY <1>3, <1>5, <2>1 DEF ListComes
<1> QED
  BY <1>2, <1>3, <1>4, <1>5

\* The updates ahead, when no list is gone and no update comes ahead.
LEMMA LaterAhead ==
  ASSUME TypeInv, TypeInv', NEW d \in {0, 1}, Later(d),
         d = 1 /\ queue # <<>> => queue[1].kind # "data",
         \A k \in DOMAIN queue' : queue'[k].kind = "update" =>
           k + d \in DOMAIN queue /\ queue'[k] = queue[k + d]
  PROVE  /\ \A k \in DOMAIN queue' : Ahead(k)' => Ahead(k + d)
         /\ \A k \in DOMAIN queue : Ahead(k) /\ k > d =>
              k - d \in DOMAIN queue' /\ Ahead(k - d)'
         /\ \A k \in DOMAIN queue' : LastAhead(k)' =>
              LastAhead(k + d) /\ k + d \in DOMAIN queue /\ queue'[k] = queue[k + d]
<1>1. /\ Len(queue) \in Nat /\ DOMAIN queue = 1 .. Len(queue)
      /\ Len(queue') \in Nat /\ DOMAIN queue' = 1 .. Len(queue')
  BY QueueDomain DEF TypeInv, ShapeOK, Shape, QueueOK
<1>2. ASSUME NEW k \in DOMAIN queue', Ahead(k)' PROVE Ahead(k + d)
  <2>1. k + d \in DOMAIN queue /\ queue[k + d].kind = "update"
    BY <1>2 DEF Ahead
  <2>2. ASSUME NEW j \in DOMAIN queue, j < k + d, queue[j].kind = "data" PROVE FALSE
    <3>1. j - d \in DOMAIN queue' /\ queue'[j - d] = queue[j]
      BY <2>2, LaterSame
    <3>2. j - d < k
      BY <1>1, <2>2
    <3> QED
      BY <1>2, <2>2, <3>1, <3>2 DEF Ahead
  <2> QED
    BY <2>1, <2>2 DEF Ahead
<1>3. ASSUME NEW k \in DOMAIN queue, Ahead(k), k > d
      PROVE  k - d \in DOMAIN queue' /\ Ahead(k - d)'
  <2>1. k - d \in DOMAIN queue' /\ queue'[k - d] = queue[k] /\ queue[k].kind = "update"
    BY <1>3 DEF Later, Ahead
  <2>2. ASSUME NEW j \in DOMAIN queue', j < k - d, queue'[j].kind = "data" PROVE FALSE
    <3>1. j + d \in DOMAIN queue /\ queue'[j] = queue[j + d]
      BY <2>2, LaterOrder
    <3>2. j + d < k
      BY <1>1, <2>2
    <3> QED
      BY <1>3, <2>2, <3>1, <3>2 DEF Ahead
  <2> DEFINE i == k - d
  <2>3. i \in DOMAIN queue' /\ queue'[i].kind = "update"
        /\ \A j \in DOMAIN queue' : j < i => queue'[j].kind # "data"
    BY <2>1, <2>2
  <2> QED
    BY <2>3 DEF Ahead
<1>4. ASSUME NEW k \in DOMAIN queue', LastAhead(k)'
      PROVE  LastAhead(k + d) /\ k + d \in DOMAIN queue /\ queue'[k] = queue[k + d]
  <2>1. Ahead(k)' /\ Ahead(k + d) /\ k + d \in DOMAIN queue /\ queue'[k] = queue[k + d]
    BY <1>2, <1>4 DEF LastAhead, Ahead
  <2>2. ASSUME NEW j \in DOMAIN queue, j > k + d, Ahead(j) PROVE FALSE
    <3>1. j > d /\ j - d > k
      BY <1>1, <2>2
    <3>2. j - d \in DOMAIN queue' /\ Ahead(j - d)'
      BY <1>3, <2>2, <3>1
    <3> QED
      BY <1>4, <3>1, <3>2 DEF LastAhead
  <2> QED
    BY <2>1, <2>2 DEF LastAhead
<1> QED
  BY <1>2, <1>3, <1>4

LEMMA MessagesCount ==
  ASSUME TypeInv'
  PROVE  DOMAIN queue' \subseteq Nat \ {0}
  BY DEF TypeInv, ShapeOK, Shape, QueueOK

LEMMA MovedLater ==
  ASSUME TypeInv, TypeInv', NEW d \in {0, 1}, Moved(d)
  PROVE  /\ Later(d)
         /\ d = 1 /\ queue # <<>> => queue[1].kind # "data"
         /\ \A k \in DOMAIN queue : queue[k].kind = "update" => k > d
         /\ \A k \in DOMAIN queue' : queue'[k].kind = "update" =>
              k + d \in DOMAIN queue /\ queue'[k] = queue[k + d]
<1>1. Len(queue) \in Nat /\ DOMAIN queue = 1 .. Len(queue) /\ queue \in Seq(Message)
  BY QueueDomain
<1>2. \A k \in DOMAIN queue' : queue'[k].kind \in {"data", "update"} =>
        k + d \in DOMAIN queue /\ queue'[k] = queue[k + d]
  BY DEF Moved
<1>3. \A k \in DOMAIN queue : queue[k].kind \in {"data", "update"} =>
        k - d \in DOMAIN queue' /\ queue'[k - d] = queue[k]
  BY DEF Moved
<1>4. Later(d)
  BY <1>2, <1>3 DEF Later
<1>5. ASSUME NEW k \in DOMAIN queue, queue[k].kind \in {"data", "update"} PROVE k > d
  <2>1. DOMAIN queue' \subseteq Nat \ {0}
    BY MessagesCount
  <2> QED
    BY <1>1, <1>3, <1>5, <2>1
<1>6. d = 1 /\ queue # <<>> => queue[1].kind # "data"
  <2>1. queue # <<>> => 1 \in DOMAIN queue
    BY <1>1
  <2> QED
    BY <1>5, <2>1
<1> QED
  BY <1>2, <1>4, <1>5, <1>6

LEMMA UnreadShrinks ==
  ASSUME NEW a, NEW b, b.ids = a.ids, a.read \subseteq b.read, SomeUnread(b)
  PROVE  SomeUnread(a)
  BY DEF SomeUnread

LEMMA DotMinor ==
  ASSUME TypeInv, TypeInv', DotInv, NEW d \in {0, 1}, Moved(d), Minor,
         UNCHANGED crossed, Live' \subseteq Live,
         \A p \in {News} \cup Live' : p \in dots => p \in dots'
  PROVE  DotInv'
<1>1. /\ Later(d) /\ (d = 1 /\ queue # <<>> => queue[1].kind # "data")
      /\ \A k \in DOMAIN queue : queue[k].kind = "update" => k > d
      /\ \A k \in DOMAIN queue' : queue'[k].kind = "update" =>
           k + d \in DOMAIN queue /\ queue'[k] = queue[k + d]
  BY MovedLater
<1>2. /\ Len(queue) \in Nat /\ DOMAIN queue = 1 .. Len(queue)
      /\ Len(queue') \in Nat /\ DOMAIN queue' = 1 .. Len(queue')
  BY QueueDomain DEF TypeInv, ShapeOK, Shape, QueueOK
<1>3. /\ UNCHANGED <<job, synced, list, published>>
      /\ rows'.ids = rows.ids /\ rows.read \subseteq rows'.read
      /\ \A k \in DOMAIN queue' : queue'[k].kind = "update" =>
           /\ objects'[queue'[k].screen][queue'[k].gen].ids
                = objects[queue'[k].screen][queue'[k].gen].ids
           /\ objects[queue'[k].screen][queue'[k].gen].read
                \subseteq objects'[queue'[k].screen][queue'[k].gen].read
  BY DEF Minor
<1>4. ListComes'
  BY <1>1, <1>3, LaterSame DEF DotInv
<1>5. /\ \A s : Awaits(s) => Awaits(s)'
      /\ NewsWaits => NewsWaits'
  BY <1>1, LaterSame
<1> SUFFICES ASSUME synced', ~crossed'
             PROVE  Together' /\ EveryoneHears' /\ NewsFirst' /\ NextWrite'
  BY <1>4 DEF DotInv
<1>6. Together /\ EveryoneHears /\ NewsFirst /\ NextWrite
  BY <1>3 DEF DotInv
<1>7. Together' /\ EveryoneHears'
  BY <1>1, <1>6, LaterOrder
<1>8. NewsFirst'
  <2> SUFFICES ASSUME ~NewsWaits', job'.busy, job'.news
               PROVE  /\ \A j, k \in DOMAIN queue' :
                           queue'[j].kind = "data" /\ k < j => queue'[k].kind # "update"
                      /\ \A s \in Live' : s \in job'.for \/ Awaits(s)'
    BY DEF NewsFirst
  <2>1. /\ \A j, k \in DOMAIN queue :
             queue[j].kind = "data" /\ k < j => queue[k].kind # "update"
        /\ \A s \in Live : s \in job.for \/ Awaits(s)
    BY <1>3, <1>5, <1>6 DEF NewsFirst
  <2>2. ASSUME NEW j \in DOMAIN queue', NEW k \in DOMAIN queue',
               queue'[j].kind = "data", k < j, queue'[k].kind = "update"
        PROVE  FALSE
    <3>1. j + d \in DOMAIN queue /\ queue'[j] = queue[j + d]
      BY <1>1, <2>2, LaterOrder
    <3>2. k + d \in DOMAIN queue /\ queue'[k] = queue[k + d]
      BY <1>1, <2>2
    <3>3. k + d < j + d
      BY <1>2, <2>2
    <3> QED
      BY <2>1, <2>2, <3>1, <3>2, <3>3
  <2> QED
    BY <1>3, <1>5, <2>1, <2>2
<1>9. Dotted => Dotted'
  BY <1>5 DEF Dotted
<1>10. NextWrite'
  <2> SUFFICES ASSUME ~NewsWaits', ~(job'.busy /\ job'.news)
               PROVE  /\ \A k \in DOMAIN queue' : LastAhead(k)' =>
                           /\ objects'[queue'[k].screen][queue'[k].gen].ids = list'
                           /\ SomeUnread(objects'[queue'[k].screen][queue'[k].gen])
                                => Dotted'
                      /\ (\A k \in DOMAIN queue' : ~Ahead(k)') =>
                           /\ (IF job'.busy THEN job'.items ELSE rows').ids = list'
                           /\ SomeUnread(IF job'.busy THEN job'.items ELSE rows')
                                => Dotted'
    BY DEF NextWrite, Right, Posted, SomeUnread
  <2>1. /\ \A k \in DOMAIN queue : LastAhead(k) => Right(Posted(k))
        /\ (\A k \in DOMAIN queue : ~Ahead(k)) =>
             Right(IF job.busy THEN job.items ELSE rows)
    BY <1>3, <1>5, <1>6 DEF NextWrite
  <2>2. ASSUME NEW k \in DOMAIN queue', LastAhead(k)'
        PROVE  /\ objects'[queue'[k].screen][queue'[k].gen].ids = list'
               /\ SomeUnread(objects'[queue'[k].screen][queue'[k].gen]) => Dotted'
    <3>1. LastAhead(k + d) /\ k + d \in DOMAIN queue /\ queue'[k] = queue[k + d]
      BY <1>1, <2>2, LaterAhead
    <3> DEFINE was == objects[queue'[k].screen][queue'[k].gen]
               is == objects'[queue'[k].screen][queue'[k].gen]
    <3>2. was.ids = list /\ (SomeUnread(was) => Dotted)
      BY <2>1, <3>1 DEF Right, Posted
    <3>3. is.ids = was.ids /\ was.read \subseteq is.read
      BY <1>3, <2>2 DEF LastAhead, Ahead
    <3> HIDE DEF was, is
    <3>4. is.ids = list' /\ (SomeUnread(is) => Dotted')
      BY <1>3, <1>9, <3>2, <3>3, UnreadShrinks
    <3> QED
      BY <3>4 DEF is
  <2>3. ASSUME \A k \in DOMAIN queue' : ~Ahead(k)'
        PROVE  /\ (IF job'.busy THEN job'.items ELSE rows').ids = list'
               /\ SomeUnread(IF job'.busy THEN job'.items ELSE rows') => Dotted'
    <3>1. ASSUME NEW k \in DOMAIN queue, Ahead(k) PROVE FALSE
      <4>1. k > d
        BY <1>1, <3>1 DEF Ahead
      <4>2. k - d \in DOMAIN queue' /\ Ahead(k - d)'
        BY <1>1, <3>1, <4>1, LaterAhead
      <4> QED
        BY <2>3, <4>2
    <3> DEFINE was == IF job.busy THEN job.items ELSE rows
               is == IF job'.busy THEN job'.items ELSE rows'
    <3>2. was.ids = list /\ (SomeUnread(was) => Dotted)
      BY <2>1, <3>1 DEF Right
    <3>3. is.ids = was.ids /\ was.read \subseteq is.read
      BY <1>3
    <3> HIDE DEF was, is
    <3>4. is.ids = list' /\ (SomeUnread(is) => Dotted')
      BY <1>3, <1>9, <3>2, <3>3, UnreadShrinks
    <3> QED
      BY <3>4 DEF is
  <2> QED
    BY <2>2, <2>3
<1> QED
  BY <1>7, <1>8, <1>10

\* The steps that write no table and bring no list.
LEMMA DotUser ==
  ASSUME TypeInv, TypeInv', DotInv,
         \/ Start \/ CloseScreen \/ Layout \/ UNCHANGED vars
         \/ (\E a \in Article : Touch(a))
         \/ (\E t \in Type : TouchSelector(t))
         \/ (\E ok \in BOOLEAN : CloseArticle(ok))
         \/ HandleClick \/ (HandleResult /\ ~Die)
  PROVE  DotInv'
<1>1. Minor /\ \E d \in {0, 1} : Moved(d)
  BY MinorSteps
<1>2. CASE CloseScreen
  <2>1. /\ stack # <<>> /\ stack' = SubSeq(stack, 1, Len(stack) - 1)
        /\ dots' = dots \ {Visible} /\ UNCHANGED crossed
    BY <1>2 DEF CloseScreen, processVars
  <2>2. /\ stack \in Seq(Screen) /\ Len(stack) \in Nat
        /\ \A j, k \in DOMAIN stack : stack[j] = stack[k] => j = k
    BY DEF TypeInv, ShapeOK, Shape, StackOK
  <2>3. /\ Len(stack) \in DOMAIN stack /\ stack[Len(stack)] \in Screen
        /\ DOMAIN stack' = 1 .. Len(stack) - 1
        /\ \A k \in DOMAIN stack' : /\ k \in DOMAIN stack /\ k # Len(stack)
                                    /\ stack'[k] = stack[k]
    BY <2>1, <2>2
  <2>4. Live' \subseteq Live /\ Visible \notin Live'
    BY <2>2, <2>3 DEF Live, Visible
  <2>5. Visible # News
    BY <2>3 DEF Visible, News, Screen
  <2> QED
    BY <1>1, <2>1, <2>4, <2>5, DotMinor
<1>3. ASSUME UNCHANGED <<stack, dots, crossed>> PROVE DotInv'
  <2>1. Live' = Live
    BY <1>3 DEF Live
  <2> QED
    BY <1>1, <1>3, <2>1, DotMinor
<1>4. CASE Start \/ Layout \/ UNCHANGED vars
  BY <1>3, <1>4 DEF Start, Layout, vars, processVars, screenVars
<1>5. CASE \/ \E a \in Article : Touch(a)
           \/ \E t \in Type : TouchSelector(t)
           \/ \E ok \in BOOLEAN : CloseArticle(ok)
  BY <1>3, <1>5 DEF Touch, TouchSelector, CloseArticle, processVars, screenVars
<1>6. CASE HandleClick \/ (HandleResult /\ ~Die)
  BY <1>3, <1>6 DEF HandleClick, HandleResult, Turn, processVars
<1> QED
  BY <1>2, <1>4, <1>5, <1>6

LEMMA Appended ==
  ASSUME TypeInv, NEW m, queue' = Append(queue, m), NEW n, n = Len(queue) + 1
  PROVE  /\ DOMAIN queue' = DOMAIN queue \cup {n} /\ n \notin DOMAIN queue
         /\ \A k \in DOMAIN queue : queue'[k] = queue[k] /\ k < n /\ ~(n < k)
         /\ queue'[n] = m /\ ~(n < n)
<1>1. queue \in Seq(Message) /\ Len(queue) \in Nat /\ DOMAIN queue = 1 .. Len(queue)
  BY QueueDomain
<1>2. /\ DOMAIN queue' = 1 .. Len(queue) + 1
      /\ \A k \in 1 .. Len(queue) : queue'[k] = queue[k]
      /\ queue'[Len(queue) + 1] = m
  BY <1>1
<1> QED
  BY <1>1, <1>2

\* An update that is still in the queue keeps its objects.
LEMMA CollectedAt ==
  ASSUME NEW n, QueueOK(queue, objects, n), Sound(objects), NEW q, NEW v, NEW st,
         NEW k \in DOMAIN queue, queue[k].kind = "update",
         NEW i \in DOMAIN q, q[i] = queue[k]
  PROVE  Collect(objects, q, v, st)[q[i].screen][q[i].gen]
           = objects[queue[k].screen][queue[k].gen]
<1>1. queue[k] \in Message /\ queue[k].gen \in DOMAIN objects[queue[k].screen]
  BY DEF QueueOK, MessageOK
<1>2. queue[k].screen \in Screen
  BY <1>1 DEF Message, Result
<1>3. queue[k].gen \in 1 .. Len(objects[queue[k].screen])
  BY <1>1, <1>2 DEF Sound
<1> QED
  BY <1>2, <1>3, CollectKeeps

LEMMA DotSnapshot ==
  ASSUME TypeInv, NEW ids \in SUBSET Article, Snapshot(ids)
  PROVE  DotInv'
<1> DEFINE m == [kind |-> "data", ids |-> ids, news |-> TRUE, for |-> 1 .. opened]
           n == Len(queue) + 1
<1>1. /\ synced' = TRUE /\ list' = ids /\ queue' = Append(queue, m)
      /\ UNCHANGED <<stack, opened>>
  BY DEF Snapshot, screenVars
<1>2. m.kind = "data" /\ m.ids = ids /\ m.news /\ m.for = 1 .. opened
  OBVIOUS
<1>3. \A s \in Live' : s \in m.for
  <2>1. /\ stack \in Seq(Screen) /\ \A k \in DOMAIN stack : stack[k] <= opened
        /\ opened \in Nat
    BY Bounds DEF TypeInv, ShapeOK, Shape, StackOK, PagesOK
  <2>2. \A k \in DOMAIN stack : stack[k] \in Screen
    BY <2>1
  <2> QED
    BY <1>1, <1>2, <2>1, <2>2 DEF Live, Screen
<1> HIDE DEF m
<1>4. /\ DOMAIN queue' = DOMAIN queue \cup {n} /\ n \notin DOMAIN queue
      /\ \A k \in DOMAIN queue : queue'[k] = queue[k] /\ k < n /\ ~(n < k)
      /\ queue'[n] = m /\ ~(n < n)
  BY <1>1, Appended
<1> HIDE DEF n
<1>5. n \in DOMAIN queue' /\ IsNews(queue'[n]) /\ NewsWaits'
  BY <1>2, <1>4 DEF IsNews, NewsWaits
<1>6. ASSUME NEW k \in DOMAIN queue', AfterNews(k)' PROVE k = n
  BY <1>4, <1>5, <1>6 DEF AfterNews, IsNews
<1>7. ListComes'
  BY <1>1, <1>2, <1>4, <1>5, <1>6 DEF ListComes
<1>8. Together'
  BY <1>4, <1>6 DEF Together
<1>9. EveryoneHears'
  BY <1>3, <1>4, <1>6 DEF EveryoneHears
<1> QED
  BY <1>5, <1>7, <1>8, <1>9 DEF DotInv, NewsFirst, NextWrite

LEMMA DotOpenScreen ==
  ASSUME TypeInv, TypeInv', DotInv, OpenScreen
  PROVE  DotInv'
<1> SUFFICES ASSUME NEW page, page = opened' PROVE DotInv'
  OBVIOUS
<1> DEFINE m == [kind |-> "data", ids |-> list, news |-> FALSE, for |-> {page}]
           n == Len(queue) + 1
<1>1. /\ ~job.busy /\ crossed' = (crossed \/ Crossing)
      /\ stack' = Append(stack, opened')
      /\ UNCHANGED <<synced, list, job, rows, published, dots>>
      /\ objects' = Collect(objects, queue', shown', stack')
      /\ opened' = opened + 1
  BY DEF OpenScreen, Idle, history
<1>2. CASE ~synced
  BY <1>1, <1>2 DEF DotInv, ListComes
<1>3. CASE synced
  <2>1. queue' = Append(queue, m)
    BY <1>3 DEF OpenScreen
  <2>2. m.kind = "data" /\ m.ids = list /\ m.news = FALSE /\ m.for = {page}
    OBVIOUS
  <2> HIDE DEF m
  <2>3. /\ DOMAIN queue' = DOMAIN queue \cup {n} /\ n \notin DOMAIN queue
        /\ \A k \in DOMAIN queue : queue'[k] = queue[k] /\ k < n /\ ~(n < k)
        /\ queue'[n] = m /\ ~(n < n)
    BY <2>1, Appended
  <2> HIDE DEF n
  <2>4. Live' = Live \cup {page}
    <3>1. stack \in Seq(Screen) /\ Len(stack) \in Nat
      BY DEF TypeInv, ShapeOK, Shape, StackOK
    <3>2. /\ DOMAIN stack' = DOMAIN stack \cup {Len(stack) + 1}
          /\ \A k \in DOMAIN stack : stack'[k] = stack[k]
          /\ stack'[Len(stack) + 1] = page
      BY <1>1, <3>1
    <3> QED
      BY <3>2 DEF Live
  <2>5. ~IsNews(queue'[n]) /\ queue'[n].kind # "update"
    BY <2>2, <2>3 DEF IsNews
  <2>6. /\ NewsWaits' <=> NewsWaits
        /\ \A k \in DOMAIN queue : AfterNews(k)' => AfterNews(k)
    BY <2>3, <2>5 DEF NewsWaits, AfterNews, IsNews
  <2>7. /\ \A s : Awaits(s) => Awaits(s)'
        /\ Awaits(page)'
    BY <2>2, <2>3 DEF Awaits
  <2>8. ListComes'
    <3>1. ListComes
      BY DEF DotInv
    <3> QED
      BY <1>1, <2>2, <2>3, <2>6, <3>1 DEF ListComes
  <2> SUFFICES ASSUME ~crossed' PROVE Together' /\ EveryoneHears' /\ NewsFirst' /\ NextWrite'
    BY <2>8 DEF DotInv
  <2>9. Together /\ EveryoneHears /\ NextWrite /\ ~Crossing
    BY <1>1, <1>3 DEF DotInv
  <2>10. Together'
    <3> SUFFICES ASSUME NEW i \in DOMAIN queue', NEW k \in DOMAIN queue',
                        NEW j \in DOMAIN queue', i < k, k < j,
                        queue'[i].kind = "data", queue'[k].kind = "update"
                 PROVE  FALSE
      BY DEF Together
    <3>1. k \in DOMAIN queue
      BY <2>3, <2>5
    <3>2. i \in DOMAIN queue
      BY <2>3, <3>1
    <3> QED
      BY <2>3, <2>9, <3>1, <3>2 DEF Crossing
  <2>11. EveryoneHears'
    <3> SUFFICES ASSUME NEW k \in DOMAIN queue', IsNews(queue'[k]), AfterNews(k)',
                        NEW s \in Live'
                 PROVE  \/ s \in queue'[k].for
                        \/ \E j \in DOMAIN queue' :
                             j > k /\ queue'[j].kind = "data" /\ s \in queue'[j].for
      BY DEF EveryoneHears, IsNews
    <3>1. k \in DOMAIN queue /\ IsNews(queue[k]) /\ AfterNews(k)
      BY <2>3, <2>5, <2>6
    <3>2. CASE s = page
      <4>1. n \in DOMAIN queue' /\ n > k /\ queue'[n].kind = "data" /\ s \in queue'[n].for
        <5>1. k \in Int /\ n \in Int /\ k < n
          BY <2>3, <3>1, QueueDomain DEF n
        <5> QED
          BY <2>2, <2>3, <3>2, <5>1
      <4> QED
        BY <4>1
    <3>3. CASE s \in Live
      <4>1. \/ s \in queue[k].for
            \/ \E j \in DOMAIN queue : j > k /\ queue[j].kind = "data" /\ s \in queue[j].for
        BY <2>9, <3>1, <3>3 DEF EveryoneHears
      <4> QED
        BY <2>3, <3>1, <4>1
    <3> QED
      BY <2>4, <3>2, <3>3
  <2>12. NewsFirst'
    BY <1>1 DEF NewsFirst
  <2>13. Dotted => Dotted'
    BY <1>1, <2>4, <2>7 DEF Dotted
  <2>14. \A k \in DOMAIN queue : Ahead(k) => Ahead(k)'
    BY <2>3, <2>5 DEF Ahead
  <2>15. ASSUME NEW k \in DOMAIN queue', Ahead(k)'
         PROVE  k \in DOMAIN queue /\ Ahead(k)
    BY <2>3, <2>5, <2>15 DEF Ahead
  <2>16. NextWrite'
    <3> SUFFICES ASSUME ~NewsWaits'
                 PROVE  /\ \A k \in DOMAIN queue' : LastAhead(k)' =>
                             /\ objects'[queue'[k].screen][queue'[k].gen].ids = list'
                             /\ SomeUnread(objects'[queue'[k].screen][queue'[k].gen])
                                  => Dotted'
                        /\ (\A k \in DOMAIN queue' : ~Ahead(k)') =>
                             rows'.ids = list' /\ (SomeUnread(rows') => Dotted')
      BY <1>1 DEF NextWrite, Right, Posted, SomeUnread
    <3>1. /\ \A k \in DOMAIN queue : LastAhead(k) => Right(Posted(k))
          /\ (\A k \in DOMAIN queue : ~Ahead(k)) => Right(rows)
      BY <1>1, <2>6, <2>9 DEF NextWrite
    <3>2. ASSUME NEW k \in DOMAIN queue', LastAhead(k)'
          PROVE  /\ objects'[queue'[k].screen][queue'[k].gen].ids = list'
                 /\ SomeUnread(objects'[queue'[k].screen][queue'[k].gen]) => Dotted'
      <4>1. k \in DOMAIN queue /\ LastAhead(k) /\ queue[k].kind = "update"
        BY <2>3, <2>14, <2>15, <3>2 DEF LastAhead, Ahead
      <4>2. objects'[queue'[k].screen][queue'[k].gen]
              = objects[queue[k].screen][queue[k].gen]
        <5>1. Sound(objects) /\ QueueOK(queue, objects, opened)
          BY ShapeFacts DEF TypeInv
        <5>2. k \in DOMAIN queue' /\ queue'[k] = queue[k]
          BY <2>3, <4>1
        <5> QED
          BY <1>1, <4>1, <5>1, <5>2, CollectedAt
      <4> DEFINE is == objects[queue[k].screen][queue[k].gen]
      <4>3. is.ids = list /\ (SomeUnread(is) => Dotted)
        BY <3>1, <4>1 DEF Right, Posted
      <4> HIDE DEF is
      <4>4. is.ids = list' /\ (SomeUnread(is) => Dotted')
        BY <1>1, <2>13, <4>3
      <4> QED
        BY <4>2, <4>4 DEF is
    <3>3. ASSUME \A k \in DOMAIN queue' : ~Ahead(k)'
          PROVE  rows'.ids = list' /\ (SomeUnread(rows') => Dotted')
      <4>1. \A k \in DOMAIN queue : ~Ahead(k)
        BY <2>3, <2>14, <3>3
      <4>2. rows.ids = list /\ (SomeUnread(rows) => Dotted)
        BY <3>1, <4>1 DEF Right
      <4> QED
        BY <1>1, <2>13, <4>2
    <3> QED
      BY <3>2, <3>3
  <2> QED
    BY <2>10, <2>11, <2>12, <2>16
<1> QED
  BY <1>2, <1>3

\* A queue of which the first message is gone.
LEMMA TailLater ==
  ASSUME TypeInv, NEW kind, Turn(kind), queue' = Tail(queue)
  PROVE  /\ \A k \in DOMAIN queue' : k + 1 \in DOMAIN queue /\ queue'[k] = queue[k + 1]
         /\ \A k \in DOMAIN queue : k # 1 =>
              k - 1 \in DOMAIN queue' /\ queue'[k - 1] = queue[k]
         /\ Later(1)
<1>1. /\ queue # <<>> /\ queue \in Seq(Message) /\ Len(queue) \in Nat
      /\ DOMAIN queue = 1 .. Len(queue) /\ Tail(queue) \in Seq(Message)
      /\ Len(Tail(queue)) = Len(queue) - 1
      /\ \A k \in DOMAIN queue' : k + 1 \in DOMAIN queue /\ queue'[k] = queue[k + 1]
  BY HeadFacts, QueueDomain
<1>2. DOMAIN queue' = 1 .. Len(queue) - 1
  BY <1>1
<1>3. ASSUME NEW k \in DOMAIN queue, k # 1
      PROVE  k - 1 \in DOMAIN queue' /\ queue'[k - 1] = queue[k]
  <2>1. k - 1 \in DOMAIN queue' /\ (k - 1) + 1 = k
    BY <1>1, <1>2, <1>3
  <2> QED
    BY <1>1, <2>1
<1>4. \A k \in DOMAIN queue : k > 1 => k # 1
  BY <1>1
<1> QED
  BY <1>1, <1>3, <1>4 DEF Later

LEMMA DotHandleUpdate ==
  ASSUME TypeInv, TypeInv', DotInv, HandleUpdate
  PROVE  DotInv'
<1> DEFINE m == Head(queue)
           items == objects[m.screen][m.gen]
<1>1. /\ Turn("update") /\ UNCHANGED <<synced, list, crossed, published, dots, stack>>
      /\ ~job.busy
      /\ job' = [items |-> items, news |-> FALSE, for |-> {}, busy |-> TRUE]
      /\ queue' = Tail(queue)
      /\ objects' = Collect(objects, queue', shown, stack)
  BY DEF HandleUpdate, Turn, Idle, processVars, ReplaceRows, history
<1>2. queue[1] = m /\ 1 \in DOMAIN queue /\ m.kind = "update"
  BY <1>1, HeadFacts
<1>3. job'.items = items /\ job'.busy /\ job'.news = FALSE
  BY <1>1
<1> HIDE DEF m, items
<1>4. /\ \A k \in DOMAIN queue' : k + 1 \in DOMAIN queue /\ queue'[k] = queue[k + 1]
      /\ \A k \in DOMAIN queue : k # 1 =>
           k - 1 \in DOMAIN queue' /\ queue'[k - 1] = queue[k]
      /\ Later(1)
  BY <1>1, TailLater
<1>5. 1 \in {0, 1} /\ queue[1].kind # "data"
  BY <1>2
<1>6. /\ \A s : Awaits(s) => Awaits(s)'
      /\ NewsWaits => NewsWaits'
      /\ ListComes => ListComes'
  BY <1>1, <1>4, <1>5, LaterSame
<1>7. ListComes'
  BY <1>6 DEF DotInv
<1> SUFFICES ASSUME synced', ~crossed'
             PROVE  Together' /\ EveryoneHears' /\ NewsFirst' /\ NextWrite'
  BY <1>7 DEF DotInv
<1>8. Together /\ EveryoneHears /\ NewsFirst /\ NextWrite
  BY <1>1 DEF DotInv
<1>9. Live' = Live
  BY <1>1 DEF Live
<1>10. Together' /\ EveryoneHears'
  BY <1>4, <1>5, <1>8, <1>9, LaterOrder
<1>11. NewsFirst'
  BY <1>3 DEF NewsFirst
<1>12. Dotted => Dotted'
  BY <1>1, <1>6, <1>9 DEF Dotted
<1>13. Len(queue) \in Nat /\ DOMAIN queue = 1 .. Len(queue)
  BY QueueDomain
<1>14. NextWrite'
  <2> SUFFICES ASSUME ~NewsWaits'
               PROVE  /\ \A k \in DOMAIN queue' : LastAhead(k)' =>
                           /\ objects'[queue'[k].screen][queue'[k].gen].ids = list'
                           /\ SomeUnread(objects'[queue'[k].screen][queue'[k].gen])
                                => Dotted'
                      /\ (\A k \in DOMAIN queue' : ~Ahead(k)') =>
                           items.ids = list' /\ (SomeUnread(items) => Dotted')
    BY <1>3 DEF NextWrite, Right, Posted, SomeUnread
  <2>1. \A k \in DOMAIN queue : LastAhead(k) => Right(Posted(k))
    BY <1>1, <1>6, <1>8 DEF NextWrite
  <2>2. \A k \in DOMAIN queue' : queue'[k].kind = "update" =>
          k + 1 \in DOMAIN queue /\ queue'[k] = queue[k + 1]
    BY <1>4
  <2>3. /\ \A k \in DOMAIN queue : Ahead(k) /\ k > 1 =>
             k - 1 \in DOMAIN queue' /\ Ahead(k - 1)'
        /\ \A k \in DOMAIN queue' : LastAhead(k)' =>
             LastAhead(k + 1) /\ k + 1 \in DOMAIN queue /\ queue'[k] = queue[k + 1]
    BY <1>4, <1>5, <2>2, LaterAhead
  <2>4. ASSUME NEW k \in DOMAIN queue', LastAhead(k)'
        PROVE  /\ objects'[queue'[k].screen][queue'[k].gen].ids = list'
               /\ SomeUnread(objects'[queue'[k].screen][queue'[k].gen]) => Dotted'
    <3> DEFINE j == k + 1
    <3>1. LastAhead(j) /\ j \in DOMAIN queue /\ queue'[k] = queue[j]
      BY <2>3, <2>4
    <3> HIDE DEF j
    <3>2. objects'[queue'[k].screen][queue'[k].gen]
            = objects[queue[j].screen][queue[j].gen]
      <4>1. Sound(objects) /\ QueueOK(queue, objects, opened)
        BY ShapeFacts DEF TypeInv
      <4>2. queue[j].kind = "update"
        BY <3>1 DEF LastAhead, Ahead
      <4>3. objects' = Collect(objects, queue', shown, stack)
        BY <1>1
      <4>4. Collect(objects, queue', shown, stack)[queue'[k].screen][queue'[k].gen]
              = objects[queue[j].screen][queue[j].gen]
        BY <3>1, <4>1, <4>2, CollectedAt
      <4> QED
        BY <4>3, <4>4
    <3> DEFINE is == objects[queue[j].screen][queue[j].gen]
    <3>3. is.ids = list /\ (SomeUnread(is) => Dotted)
      BY <2>1, <3>1 DEF Right, Posted
    <3> HIDE DEF is
    <3>4. is.ids = list' /\ (SomeUnread(is) => Dotted')
      BY <1>1, <1>12, <3>3
    <3> QED
      BY <3>2, <3>4 DEF is
  <2>5. ASSUME \A k \in DOMAIN queue' : ~Ahead(k)'
        PROVE  items.ids = list' /\ (SomeUnread(items) => Dotted')
    <3>1. Ahead(1)
      <4>1. \A j \in DOMAIN queue : ~(j < 1)
        BY <1>13
      <4> QED
        BY <1>2, <4>1 DEF Ahead
    <3>2. LastAhead(1)
      BY <2>3, <2>5, <3>1 DEF LastAhead
    <3>3. Posted(1) = items
      BY <1>2 DEF Posted, items
    <3>4. items.ids = list /\ (SomeUnread(items) => Dotted)
      BY <1>2, <2>1, <3>2, <3>3 DEF Right
    <3> QED
      BY <1>1, <1>12, <3>4
  <2> QED
    BY <2>4, <2>5
<1> QED
  BY <1>10, <1>11, <1>14

\* A list is handled: News_Activity begins to write it, or it goes to the pages.
LEMMA DotHandleNews ==
  ASSUME TypeInv, TypeInv', DotInv, HandleData, Head(queue).news
  PROVE  DotInv'
<1> DEFINE m == Head(queue)
           items == Parse(m.ids, rows)
<1>1. /\ Turn("data") /\ UNCHANGED <<synced, list, crossed, stack>>
      /\ published' = m.ids
      /\ job' = [items |-> items, news |-> TRUE, for |-> m.for, busy |-> TRUE]
      /\ queue' = Tail(queue)
  BY DEF HandleData, Turn, processVars, ReplaceRows
<1>2. queue[1] = m /\ 1 \in DOMAIN queue /\ m.kind = "data" /\ m.news
  BY <1>1, HeadFacts
<1>3. job'.for = m.for /\ job'.busy /\ job'.news = TRUE
  BY <1>1
<1> HIDE DEF m, items
<1>4. /\ \A k \in DOMAIN queue' : k + 1 \in DOMAIN queue /\ queue'[k] = queue[k + 1]
      /\ \A k \in DOMAIN queue : k # 1 =>
           k - 1 \in DOMAIN queue' /\ queue'[k - 1] = queue[k]
      /\ Later(1) /\ 1 \in {0, 1}
  BY <1>1, TailLater
<1>5. /\ Len(queue) \in Nat /\ DOMAIN queue = 1 .. Len(queue)
      /\ DOMAIN queue' \subseteq Nat \ {0}
  BY QueueDomain, MessagesCount
<1>6. /\ \A k \in DOMAIN queue' : queue'[k].kind = "data" =>
           k + 1 \in DOMAIN queue /\ queue'[k] = queue[k + 1]
           /\ (AfterNews(k)' => AfterNews(k + 1))
      /\ Together => Together'
      /\ Live' \subseteq Live /\ EveryoneHears => EveryoneHears'
  BY <1>4, LaterOrder
<1>7. ~NewsWaits' => AfterNews(1)
  <2> SUFFICES ASSUME NEW j \in DOMAIN queue, j > 1, IsNews(queue[j]) PROVE NewsWaits'
    BY DEF AfterNews
  <2>1. j - 1 \in DOMAIN queue' /\ queue'[j - 1] = queue[j]
    BY <1>4, <1>5
  <2> QED
    BY <2>1 DEF NewsWaits, IsNews
<1>8. ListComes'
  <2>1. ListComes
    BY DEF DotInv
  <2> QED
    BY <1>1, <1>2, <1>6, <1>7, <2>1 DEF ListComes
<1> SUFFICES ASSUME synced', ~crossed'
             PROVE  Together' /\ EveryoneHears' /\ NewsFirst' /\ NextWrite'
  BY <1>8 DEF DotInv
<1>9. Together /\ EveryoneHears /\ Live' = Live
  BY <1>1 DEF DotInv, Live
<1>10. NewsFirst'
  <2> SUFFICES ASSUME ~NewsWaits'
               PROVE  /\ \A j, k \in DOMAIN queue' :
                           queue'[j].kind = "data" /\ k < j => queue'[k].kind # "update"
                      /\ \A s \in Live' : s \in job'.for \/ Awaits(s)'
    BY DEF NewsFirst
  <2>1. AfterNews(1) /\ IsNews(queue[1])
    BY <1>2, <1>7 DEF IsNews
  <2>2. ASSUME NEW j \in DOMAIN queue', NEW k \in DOMAIN queue',
               queue'[j].kind = "data", k < j, queue'[k].kind = "update"
        PROVE  FALSE
    <3>1. 1 < k + 1 /\ k + 1 < j + 1
      BY <1>5, <2>2
    <3> QED
      BY <1>2, <1>4, <1>9, <2>1, <2>2, <3>1 DEF Together
  <2>3. ASSUME NEW s \in Live' PROVE s \in job'.for \/ Awaits(s)'
    <3>1. \/ s \in queue[1].for
          \/ \E j \in DOMAIN queue : j > 1 /\ queue[j].kind = "data" /\ s \in queue[j].for
      BY <1>2, <1>9, <2>1, <2>3 DEF EveryoneHears
    <3>2. ASSUME NEW j \in DOMAIN queue, j > 1, queue[j].kind = "data", s \in queue[j].for
          PROVE  Awaits(s)'
      <4>1. j - 1 \in DOMAIN queue' /\ queue'[j - 1] = queue[j]
        BY <1>4, <1>5, <3>2
      <4> QED
        BY <3>2, <4>1 DEF Awaits
    <3> QED
      BY <1>2, <1>3, <3>1, <3>2
  <2> QED
    BY <2>2, <2>3
<1> QED
  BY <1>3, <1>6, <1>9, <1>10 DEF NextWrite

\* New articles come to the instances: their updates are posted last, so that when
\* no update waits before a list, theirs are the last ahead.
LEMMA DeliveredAhead ==
  ASSUME TypeInv, TypeInv', NEW rest, rest \in Seq(Message),
         Shape(objects, rest, shown, stack, listed, opened),
         NEW items, Marked(items), NEW instances, Batch(instances, opened),
         Deliver(items, instances, rest),
         NEW d \in {0, 1},
         \A k \in DOMAIN rest : k + d \in DOMAIN queue /\ rest[k] = queue[k + d],
         \A k \in DOMAIN queue : k > d =>
           k - d \in DOMAIN rest /\ rest[k - d] = queue[k]
  PROVE  /\ Later(d)
         /\ \A k \in DOMAIN rest : k \in DOMAIN queue' /\ queue'[k] = rest[k]
         /\ instances = {} => DOMAIN queue' = DOMAIN rest
         /\ \A k \in DOMAIN rest : rest[k].kind = "update" =>
              objects'[rest[k].screen][rest[k].gen]
                = objects[rest[k].screen][rest[k].gen]
         /\ /\ instances = {} => \A k \in DOMAIN rest : rest[k].kind # "update"
            /\ \A j, k \in DOMAIN rest :
                 rest[j].kind = "data" /\ k < j => rest[k].kind # "update"
            => \A k \in DOMAIN queue' : LastAhead(k)' =>
                 objects'[queue'[k].screen][queue'[k].gen] = items
<1> DEFINE before == Len(rest)
           after == Len(queue')
<1>1. opened \in 0 .. MaxScreens
  BY DEF TypeInv, PagesOK
<1>2. /\ before \in Nat /\ after \in Nat /\ before <= after
      /\ after = before <=> instances = {}
      /\ \A k \in 1 .. before : queue'[k] = rest[k]
      /\ \A k \in 1 .. after : k > before =>
           /\ queue'[k].kind = "update" /\ queue'[k].screen \in instances
           /\ queue'[k].gen = Len(objects[queue'[k].screen]) + 1
      /\ \A s \in instances : objects'[s][Len(objects[s]) + 1] = items
      /\ \A k \in 1 .. before : rest[k].kind \in {"update", "click"} =>
           objects'[rest[k].screen][rest[k].gen]
             = objects[rest[k].screen][rest[k].gen]
  BY <1>1, Delivered
<1>3. DOMAIN rest = 1 .. before /\ DOMAIN queue' = 1 .. after
  BY DEF TypeInv, ShapeOK, Shape, QueueOK
<1> HIDE DEF before, after
<1>4. \A k \in DOMAIN queue' :
        \/ k \in DOMAIN rest /\ queue'[k] = rest[k]
        \/ /\ k \notin DOMAIN rest /\ k > before /\ queue'[k].kind = "update"
           /\ \A j \in DOMAIN rest : j < k
  BY <1>2, <1>3
<1>5. \A k \in DOMAIN rest : k \in DOMAIN queue' /\ queue'[k] = rest[k]
  BY <1>2, <1>3
<1>6. Later(d)
  <2>1. ASSUME NEW k \in DOMAIN queue', queue'[k].kind \in {"data", "update"}
        PROVE  \/ k + d \in DOMAIN queue /\ queue'[k] = queue[k + d]
               \/ /\ queue'[k].kind = "update"
                  /\ \A j \in DOMAIN queue' : queue'[j].kind = "data" => j < k
    <3>1. CASE k \in DOMAIN rest /\ queue'[k] = rest[k]
      BY <3>1
    <3>2. CASE queue'[k].kind = "update" /\ \A j \in DOMAIN rest : j < k
      BY <1>4, <3>2
    <3> QED
      BY <1>4, <3>1, <3>2
  <2>2. \A k \in DOMAIN queue : k > d /\ queue[k].kind \in {"data", "update"} =>
          k - d \in DOMAIN queue' /\ queue'[k - d] = queue[k]
    BY <1>5
  <2> QED
    BY <2>1, <2>2 DEF Later
<1>7. instances = {} => DOMAIN queue' = DOMAIN rest
  BY <1>2, <1>3
<1>8. ASSUME instances = {} => \A k \in DOMAIN rest : rest[k].kind # "update",
             \A j, k \in DOMAIN rest :
               rest[j].kind = "data" /\ k < j => rest[k].kind # "update",
             NEW k \in DOMAIN queue', LastAhead(k)'
      PROVE  objects'[queue'[k].screen][queue'[k].gen] = items
  <2>1. /\ queue'[k].kind = "update"
        /\ \A j \in DOMAIN queue' : j < k => queue'[j].kind # "data"
        /\ \A j \in DOMAIN queue' : j > k => ~Ahead(j)'
    BY <1>8 DEF LastAhead, Ahead
  <2>2. k > before
    <3> SUFFICES ASSUME k \in DOMAIN rest, queue'[k] = rest[k] PROVE FALSE
      BY <1>4
    <3>1. instances # {}
      BY <1>8, <2>1
    <3>2. after \in DOMAIN queue' /\ after > before /\ after > k
      <4>1. before < after
        BY <1>2, <3>1
      <4> QED
        BY <1>2, <1>3, <4>1
    <3>3. ASSUME NEW j \in DOMAIN queue', queue'[j].kind = "data" PROVE FALSE
      <4>1. j \in DOMAIN rest /\ rest[j].kind = "data"
        BY <1>4, <3>3
      <4>2. ~(k < j)
        BY <1>8, <2>1, <4>1
      <4>3. ~(j < k)
        BY <2>1, <3>3
      <4>4. j \in Int /\ k \in Int
        BY <1>3
      <4>5. j = k
        BY <4>2, <4>3, <4>4
      <4> QED
        BY <2>1, <3>3, <4>5
    <3>4. queue'[after].kind = "update"
      BY <1>2, <1>3, <3>2
    <3> DEFINE e == after
    <3>5. e \in DOMAIN queue' /\ queue'[e].kind = "update" /\ e > k
          /\ \A j \in DOMAIN queue' : j < e => queue'[j].kind # "data"
      BY <3>2, <3>3, <3>4
    <3> HIDE DEF e
    <3>6. \E i : /\ i \in DOMAIN queue' /\ i > k /\ queue'[i].kind = "update"
                 /\ \A j \in DOMAIN queue' : j < i => queue'[j].kind # "data"
      BY <3>5
    <3>7. PICK i : /\ i \in DOMAIN queue' /\ i > k /\ queue'[i].kind = "update"
                   /\ \A j \in DOMAIN queue' : j < i => queue'[j].kind # "data"
      BY <3>6
    <3> QED
      BY <2>1, <3>7 DEF Ahead
  <2>3. /\ queue'[k].screen \in instances
        /\ queue'[k].gen = Len(objects[queue'[k].screen]) + 1
    BY <1>2, <1>3, <2>2
  <2> QED
    BY <1>2, <2>3
<1>9. \A k \in DOMAIN rest : rest[k].kind = "update" =>
        objects'[rest[k].screen][rest[k].gen] = objects[rest[k].screen][rest[k].gen]
  BY <1>2, <1>3
<1> QED
  BY <1>5, <1>6, <1>7, <1>8, <1>9

\* The same when what is delivered is right.
LEMMA NextWriteDelivered ==
  ASSUME NEW items, items.ids = list, UNCHANGED list, SomeUnread(items) => Dotted',
         \A k \in DOMAIN queue' : LastAhead(k)' =>
           objects'[queue'[k].screen][queue'[k].gen] = items,
         ~job'.busy, rows'.ids = list, SomeUnread(rows') => Dotted'
  PROVE  NextWrite'
<1>1. ASSUME NEW k \in DOMAIN queue', LastAhead(k)'
      PROVE  /\ objects'[queue'[k].screen][queue'[k].gen].ids = list'
             /\ SomeUnread(objects'[queue'[k].screen][queue'[k].gen]) => Dotted'
  <2> DEFINE is == objects'[queue'[k].screen][queue'[k].gen]
  <2>1. is = items
    BY <1>1
  <2> HIDE DEF is
  <2>2. is.ids = list' /\ (SomeUnread(is) => Dotted')
    BY <2>1
  <2> QED
    BY <2>2 DEF is
<1> QED
  BY <1>1 DEF NextWrite, Right, Posted, SomeUnread

LEMMA DotHandlePage ==
  ASSUME TypeInv, TypeInv', OrderInv, DotInv, HandleData, ~Head(queue).news
  PROVE  DotInv'
<1> DEFINE m == Head(queue)
           items == Parse(m.ids, rows)
           rest == Tail(queue)
<1>1. /\ Turn("data") /\ UNCHANGED <<synced, list, crossed, stack, rows, job>>
      /\ ~job.busy
      /\ published' = m.ids
      /\ Deliver(items, m.for, rest)
      /\ ShowDots(items, m.for)
  BY DEF HandleData, Turn, Idle, processVars
<1>2. /\ queue[1] = m /\ 1 \in DOMAIN queue /\ m.kind = "data" /\ ~m.news
      /\ m \in Message /\ Batch(m.for, opened)
      /\ Shape(objects, rest, shown, stack, listed, opened)
      /\ queue # <<>> /\ queue \in Seq(Message)
      /\ Len(rest) = Len(queue) - 1
      /\ \A k \in DOMAIN rest : k + 1 \in DOMAIN queue /\ rest[k] = queue[k + 1]
  BY <1>1, HeadFacts, QueueDomain DEF MessageOK
<1>3. items.ids = m.ids /\ items.read = m.ids \cap rows.read /\ Marked(items)
  BY <1>2, ParseMarked DEF Parse, Message, Result
<1>4. rest \in Seq(Message)
  BY <1>2
<1> HIDE DEF m, items, rest
<1>5. m.for # {}
  BY <1>2 DEF OrderInv, EarlyLists
<1>6. /\ Len(queue) \in Nat /\ DOMAIN queue = 1 .. Len(queue)
      /\ DOMAIN queue' \subseteq Nat \ {0} /\ DOMAIN rest = 1 .. Len(queue) - 1
  BY <1>2, <1>4, QueueDomain, MessagesCount
<1>7. \A k \in DOMAIN queue : k > 1 => k - 1 \in DOMAIN rest /\ rest[k - 1] = queue[k]
  <2>1. \A k \in DOMAIN queue : k > 1 => k - 1 \in DOMAIN rest /\ (k - 1) + 1 = k
    BY <1>6
  <2> QED
    BY <1>2, <2>1
<1>8. /\ Later(1) /\ 1 \in {0, 1}
      /\ \A k \in DOMAIN rest : k \in DOMAIN queue' /\ queue'[k] = rest[k]
      /\ (\A j, k \in DOMAIN rest :
            rest[j].kind = "data" /\ k < j => rest[k].kind # "update")
         => \A k \in DOMAIN queue' : LastAhead(k)' =>
              objects'[queue'[k].screen][queue'[k].gen] = items
  <2>1. /\ 1 \in {0, 1} /\ rest \in Seq(Message)
        /\ Shape(objects, rest, shown, stack, listed, opened)
        /\ Marked(items) /\ Batch(m.for, opened) /\ Deliver(items, m.for, rest)
        /\ \A k \in DOMAIN rest : k + 1 \in DOMAIN queue /\ rest[k] = queue[k + 1]
        /\ \A k \in DOMAIN queue : k > 1 =>
             k - 1 \in DOMAIN rest /\ rest[k - 1] = queue[k]
    BY <1>1, <1>2, <1>3, <1>4, <1>7
  <2> DEFINE to == m.for
  <2>2. /\ to # {} /\ Batch(to, opened) /\ Deliver(items, to, rest)
    BY <1>5, <2>1
  <2> HIDE DEF to
  <2> QED
    BY <2>1, <2>2, DeliveredAhead
<1>9. /\ \A k \in DOMAIN queue' : queue'[k].kind = "data" =>
           k + 1 \in DOMAIN queue /\ queue'[k] = queue[k + 1]
           /\ (AfterNews(k)' => AfterNews(k + 1))
      /\ Together => Together'
      /\ Live' \subseteq Live /\ EveryoneHears => EveryoneHears'
  BY <1>8, LaterOrder
<1>10. \A j \in DOMAIN queue : j > 1 => j - 1 \in DOMAIN queue' /\ queue'[j - 1] = queue[j]
  BY <1>7, <1>8
<1>11. ~NewsWaits' => AfterNews(1) /\ ~NewsWaits
  <2>1. ASSUME NEW j \in DOMAIN queue, j > 1, IsNews(queue[j]) PROVE NewsWaits'
    BY <1>10, <2>1 DEF NewsWaits, IsNews
  <2>2. ASSUME NEW j \in DOMAIN queue, IsNews(queue[j]) PROVE j > 1
    <3>1. j # 1
      BY <1>2, <2>2 DEF IsNews
    <3> QED
      BY <1>6, <3>1
  <2> QED
    BY <2>1, <2>2 DEF NewsWaits, AfterNews
<1>12. ListComes'
  <2>1. ListComes
    BY DEF DotInv
  <2> QED
    BY <1>1, <1>2, <1>9, <1>11, <2>1 DEF ListComes
<1> SUFFICES ASSUME synced', ~crossed'
             PROVE  Together' /\ EveryoneHears' /\ NewsFirst' /\ NextWrite'
  BY <1>12 DEF DotInv
<1>13. Together /\ EveryoneHears /\ NextWrite /\ Live' = Live
  BY <1>1 DEF DotInv, Live
<1>14. NewsFirst'
  BY <1>1 DEF NewsFirst
<1>15. NextWrite'
  <2> SUFFICES ASSUME ~NewsWaits' PROVE NextWrite'
    BY DEF NextWrite
  <2>1. AfterNews(1) /\ ~NewsWaits
    BY <1>11
  <2>2. ASSUME NEW j \in DOMAIN rest, NEW k \in DOMAIN rest,
               rest[j].kind = "data", k < j, rest[k].kind = "update"
        PROVE  FALSE
    <3>1. 1 < k + 1 /\ k + 1 < j + 1
      BY <1>6, <2>2
    <3> QED
      BY <1>2, <1>13, <2>1, <2>2, <3>1 DEF Together
  <2>3. \A k \in DOMAIN queue' : LastAhead(k)' =>
          objects'[queue'[k].screen][queue'[k].gen] = items
    BY <1>8, <2>2
  <2>4. m.ids = list
    BY <1>1, <1>2, <2>1 DEF DotInv, ListComes
  <2>5. \A k \in DOMAIN queue : ~Ahead(k)
    <3> SUFFICES ASSUME NEW k \in DOMAIN queue, Ahead(k) PROVE FALSE
      OBVIOUS
    <3>1. k # 1
      BY <1>2 DEF Ahead
    <3>2. 1 < k
      BY <1>6, <3>1
    <3> QED
      BY <1>2, <3>2 DEF Ahead
  <2>6. rows.ids = list /\ (SomeUnread(rows) => Dotted)
    BY <1>1, <1>13, <2>1, <2>5 DEF NextWrite, Right
  <2>7. SomeUnread(items) <=> SomeUnread(rows)
    <3>1. items.ids = rows.ids /\ items.ids \ items.read = rows.ids \ rows.read
      BY <1>3, <2>4, <2>6
    <3> QED
      BY <3>1 DEF SomeUnread
  <2>8. ASSUME SomeUnread(rows) PROVE Dotted'
    <3> SUFFICES ASSUME NEW p \in {News} \cup Live PROVE p \in dots' \/ Awaits(p)'
      BY <1>13 DEF Dotted
    <3>1. dots' = dots \cup (m.for \cap ({News} \cup Live))
      BY <1>1, <2>7, <2>8 DEF ShowDots
    <3>2. p \in dots \/ Awaits(p)
      BY <2>6, <2>8 DEF Dotted
    <3>3. CASE p \in dots
      BY <3>1, <3>3
    <3>4. CASE Awaits(p)
      <4>1. PICK k \in DOMAIN queue : queue[k].kind = "data" /\ p \in queue[k].for
        BY <3>4 DEF Awaits
      <4>2. CASE k = 1
        BY <1>2, <3>1, <4>1, <4>2
      <4>3. CASE k # 1
        <5>1. k - 1 \in DOMAIN queue' /\ queue'[k - 1] = queue[k]
          BY <1>6, <1>10, <4>3
        <5> QED
          BY <4>1, <5>1 DEF Awaits
      <4> QED
        BY <4>2, <4>3
    <3> QED
      BY <3>2, <3>3, <3>4
  <2> QED
    BY <1>1, <1>3, <2>3, <2>4, <2>6, <2>7, <2>8, NextWriteDelivered
<1> QED
  BY <1>9, <1>13, <1>14, <1>15

LEMMA DotFinishAdd ==
  ASSUME TypeInv, TypeInv', OrderInv, DotInv, FinishAdd
  PROVE  DotInv'
<1>1. /\ job.busy /\ rows' = job.items /\ job' = NoJob
      /\ Deliver(job.items, job.for, queue)
      /\ UNCHANGED <<synced, list, crossed, published, stack>>
      /\ job.news => ShowDots(job.items, {News} \cup job.for)
      /\ ~job.news => dots' = dots
  BY DEF FinishAdd, processVars, history
<1>2. /\ Marked(job.items) /\ Batch(job.for, opened)
      /\ Shape(objects, queue, shown, stack, listed, opened)
      /\ queue \in Seq(Message)
      /\ Len(queue) \in Nat /\ DOMAIN queue = 1 .. Len(queue)
  BY QueueDomain DEF TypeInv, TableOK, ShapeOK
<1>3. 0 \in {0, 1} /\ \A k \in DOMAIN queue : k + 0 = k /\ k - 0 = k /\ k > 0
  BY <1>2
<1>4. /\ Later(0)
      /\ \A k \in DOMAIN queue : k \in DOMAIN queue' /\ queue'[k] = queue[k]
      /\ job.for = {} => DOMAIN queue' = DOMAIN queue
      /\ \A k \in DOMAIN queue : queue[k].kind = "update" =>
           objects'[queue[k].screen][queue[k].gen]
             = objects[queue[k].screen][queue[k].gen]
      /\ /\ job.for = {} => \A k \in DOMAIN queue : queue[k].kind # "update"
         /\ \A j, k \in DOMAIN queue :
              queue[j].kind = "data" /\ k < j => queue[k].kind # "update"
         => \A k \in DOMAIN queue' : LastAhead(k)' =>
              objects'[queue'[k].screen][queue'[k].gen] = job.items
  <2>1. /\ \A k \in DOMAIN queue : k + 0 \in DOMAIN queue /\ queue[k] = queue[k + 0]
        /\ \A k \in DOMAIN queue : k > 0 =>
             k - 0 \in DOMAIN queue /\ queue[k - 0] = queue[k]
    BY <1>3
  <2> QED
    BY <1>1, <1>2, <1>3, <2>1, DeliveredAhead
<1>5. /\ \A s : Awaits(s) => Awaits(s)'
      /\ NewsWaits => NewsWaits'
      /\ ListComes => ListComes'
  BY <1>1, <1>3, <1>4, LaterSame
<1>6. ListComes'
  BY <1>5 DEF DotInv
<1> SUFFICES ASSUME synced', ~crossed'
             PROVE  Together' /\ EveryoneHears' /\ NewsFirst' /\ NextWrite'
  BY <1>6 DEF DotInv
<1>7. Together /\ EveryoneHears /\ NewsFirst /\ NextWrite /\ ListComes /\ Live' = Live
  BY <1>1 DEF DotInv, Live
<1>8. Together' /\ EveryoneHears'
  BY <1>3, <1>4, <1>7, LaterOrder
<1>9. ~job'.busy
  BY <1>1 DEF NoJob
<1>10. NewsFirst'
  BY <1>9 DEF NewsFirst
<1>11. ASSUME ~NewsWaits', job.news PROVE NextWrite'
  <2>1. /\ \A j, k \in DOMAIN queue :
             queue[j].kind = "data" /\ k < j => queue[k].kind # "update"
        /\ \A s \in Live : s \in job.for \/ Awaits(s)
    BY <1>1, <1>5, <1>7, <1>11 DEF NewsFirst
  <2>2. ASSUME job.for = {}, NEW k \in DOMAIN queue, queue[k].kind = "update"
        PROVE  FALSE
    <3>1. queue[k].screen \in Screen /\ queue[k].gen \in 1 .. Len(objects[queue[k].screen])
      BY <2>2, UpdatesCollected DEF TypeInv, ShapeOK, Shape
    <3>2. NoObjects
      BY <1>1, <1>11, <2>2 DEF OrderInv, EarlyLists
    <3>3. objects[queue[k].screen] = <<>> => Len(objects[queue[k].screen]) = 0
      OBVIOUS
    <3> QED
      BY <3>1, <3>2, <3>3 DEF NoObjects
  <2>3. \A k \in DOMAIN queue' : LastAhead(k)' =>
          objects'[queue'[k].screen][queue'[k].gen] = job.items
    BY <1>4, <2>1, <2>2
  <2>4. job.items.ids = list
    BY <1>1, <1>5, <1>7, <1>11 DEF OrderInv, LastWrite, ListComes
  <2>5. ASSUME SomeUnread(job.items) PROVE Dotted'
    <3> SUFFICES ASSUME NEW p \in {News} \cup Live PROVE p \in dots' \/ Awaits(p)'
      BY <1>7 DEF Dotted
    <3>1. dots' = dots \cup (({News} \cup job.for) \cap ({News} \cup Live))
      BY <1>1, <1>11, <2>5 DEF ShowDots
    <3>2. CASE p = News
      BY <3>1, <3>2
    <3>3. CASE p \in Live
      BY <1>5, <2>1, <3>1, <3>3
    <3> QED
      BY <3>2, <3>3
  <2> QED
    BY <1>1, <1>9, <2>3, <2>4, <2>5, NextWriteDelivered
<1>12. ASSUME ~NewsWaits', ~job.news PROVE NextWrite'
  <2>1. job.for = {}
    BY <1>12 DEF OrderInv, EarlyLists
  <2>2. DOMAIN queue' = DOMAIN queue /\ \A k \in DOMAIN queue : queue'[k] = queue[k]
    BY <1>4, <2>1
  <2>3. /\ \A k \in DOMAIN queue : LastAhead(k) => Right(Posted(k))
        /\ (\A k \in DOMAIN queue : ~Ahead(k)) => Right(job.items)
    BY <1>1, <1>5, <1>7, <1>12 DEF NextWrite
  <2>4. \A k \in DOMAIN queue : Ahead(k)' <=> Ahead(k)
    BY <2>2 DEF Ahead
  <2>5. Dotted => Dotted'
    BY <1>1, <1>5, <1>7, <1>12 DEF Dotted
  <2>6. ASSUME NEW k \in DOMAIN queue', LastAhead(k)'
        PROVE  /\ objects'[queue'[k].screen][queue'[k].gen].ids = list'
               /\ SomeUnread(objects'[queue'[k].screen][queue'[k].gen]) => Dotted'
    <3>1. k \in DOMAIN queue /\ LastAhead(k) /\ queue[k].kind = "update"
      BY <2>2, <2>4, <2>6 DEF LastAhead, Ahead
    <3> DEFINE is == objects[queue[k].screen][queue[k].gen]
    <3>2. objects'[queue'[k].screen][queue'[k].gen] = is
      BY <1>4, <2>2, <3>1
    <3>3. is.ids = list /\ (SomeUnread(is) => Dotted)
      BY <2>3, <3>1 DEF Right, Posted
    <3> HIDE DEF is
    <3>4. is.ids = list' /\ (SomeUnread(is) => Dotted')
      BY <1>1, <2>5, <3>3
    <3> QED
      BY <3>2, <3>4
  <2>7. ASSUME \A k \in DOMAIN queue' : ~Ahead(k)'
        PROVE  rows'.ids = list' /\ (SomeUnread(rows') => Dotted')
    <3>1. job.items.ids = list /\ (SomeUnread(job.items) => Dotted)
      BY <2>2, <2>3, <2>4, <2>7 DEF Right
    <3> QED
      BY <1>1, <2>5, <3>1
  <2> QED
    BY <1>9, <2>6, <2>7 DEF NextWrite, Right, Posted, SomeUnread
<1> QED
  BY <1>8, <1>10, <1>11, <1>12 DEF NextWrite

LEMMA DotStep ==
  ASSUME TypeInv, TypeInv', OrderInv, DotInv, [Next]_vars
  PROVE  DotInv'
<1>1. CASE Die
  BY <1>1 DEF Die, DotInv, ListComes
<1>2. CASE \E ids \in SUBSET Article : Snapshot(ids)
  BY <1>2, DotSnapshot
<1>3. CASE OpenScreen
  BY <1>3, DotOpenScreen
<1>4. CASE HandleData
  BY <1>4, DotHandleNews, DotHandlePage
<1>5. CASE HandleUpdate
  BY <1>5, DotHandleUpdate
<1>6. CASE FinishAdd
  BY <1>6, DotFinishAdd
<1>7. CASE \/ Start \/ CloseScreen \/ Layout \/ UNCHANGED vars
           \/ (\E a \in Article : Touch(a))
           \/ (\E t \in Type : TouchSelector(t))
           \/ (\E ok \in BOOLEAN : CloseArticle(ok))
           \/ HandleClick \/ (HandleResult /\ ~Die)
  BY <1>7, DotUser
<1> QED
  BY <1>1, <1>2, <1>3, <1>4, <1>5, <1>6, <1>7 DEF Next, Crash

\* When nothing is left to handle, an unread article of a category the navigation
\* bar looks at has put the dot on every page that is open, unless a page was
\* opened while an update waited behind a snapshot.
THEOREM DotAlwaysShows == Spec => []DotShowsUnread
<1>1. Init => OrderInv /\ DotInv
  BY DEF Init, OrderInv, EarlyLists, LastWrite, LastList, NoJob, NoneOf, LastOf, Nothing,
         DotInv, ListComes
<1>2. TypeInv /\ OrderInv /\ DotInv /\ [Next]_vars => (TypeInv /\ OrderInv /\ DotInv)'
  BY TypeStep, OrderStep, DotStep
<1>3. ASSUME TypeInv, DotInv PROVE DotShowsUnread
  <2> SUFFICES ASSUME ~job.busy, synced, ~Waiting({"data", "update"}), ~crossed,
                      SomeUnread(rows)
               PROVE  dots = {News} \cup Live
    BY DEF DotShowsUnread, Idle, SomeUnread
  <2>1. /\ \A k \in DOMAIN queue : queue[k].kind # "data" /\ queue[k].kind # "update"
    BY DEF Waiting
  <2>2. ~NewsWaits /\ (\A k \in DOMAIN queue : ~Ahead(k)) /\ \A s : ~Awaits(s)
    BY <2>1 DEF NewsWaits, IsNews, Ahead, Awaits
  <2>3. Right(rows)
    BY <1>3, <2>2 DEF DotInv, NextWrite
  <2>4. \A p \in {News} \cup Live : p \in dots
    BY <2>2, <2>3 DEF Right, Dotted
  <2>5. dots \subseteq {News} \cup Live
    BY <1>3 DEF TypeInv, PagesOK
  <2> QED
    BY <2>4, <2>5
<1> QED
  BY <1>1, <1>2, <1>3, TypeInit, PTL DEF Spec
=============================================================================
