------------------------ MODULE IOSNotificationsProofs ------------------------
(***************************************************************************)
(* Proofs about IOSNotifications, for every finite set of messages, every  *)
(* choice of categories and any number of overlapping fetches: the type    *)
(* invariant, that what is stored is in force, that marks are kept, and    *)
(* that the count is that of the list.                                     *)
(***************************************************************************)
EXTENDS IOSNotifications, FiniteSetTheorems, SequenceTheorems, TLAPS

\* Nothing is under way, and no page is shown, while the app does not run.
NothingWhenDown == ~alive => pending = <<>> /\ ~pageOpen

\* A fetch that would draw on a page belongs to the page that is shown.
PageWaits == \A k \in DOMAIN pending : pending[k] = "page" => pageOpen

\* Buttons that can be tapped while no fetch is under way belong to a list that
\* has every message whose mark must be kept.
ListHasOpened == pending = <<>> /\ buttons # {} => opened \subseteq ListedIn(total)

IInv ==
  /\ TypeOK
  /\ NothingWhenDown /\ PageWaits
  /\ StoredIsInForce
  /\ ListHasOpened
  /\ MarksKept

Kind == {"dot", "page", "closed"}
Bools == {alive, dot, pageOpen, hasty, overlapped, counted} \subseteq BOOLEAN

-----------------------------------------------------------------------------
(* Lists and counts *)

\* A finite set of messages can be listed: the snapshot's order exists.
LEMMA InOrderLists ==
  ASSUME NEW S \in SUBSET Message
  PROVE  InOrder(S) \in Seq(Message) /\ ListedIn(InOrder(S)) = S
<1>1. IsFiniteSet(S)
  BY MessageAssumption, FS_Subset
<1>2. Cardinality(S) \in Nat /\ ExistsBijection(1 .. Cardinality(S), S)
  BY <1>1, FS_CardinalityType
<1>3. PICK f \in Bijection(1 .. Cardinality(S), S) : TRUE
  BY <1>2 DEF ExistsBijection
<1>4. f \in [1 .. Cardinality(S) -> S] /\ ListedIn(f) = S
  BY <1>3 DEF Bijection, Surjection, Injection, ListedIn
<1>5. /\ InOrder(S) \in [1 .. Cardinality(S) -> S]
      /\ ListedIn(InOrder(S)) = S
  BY <1>4 DEF InOrder
<1> QED
  BY <1>2, <1>5

\* Appending a snapshot to the list adds its messages.
LEMMA AppendSnapshot ==
  ASSUME NEW q \in Seq(Message), NEW S \in SUBSET Message
  PROVE  /\ q \o InOrder(S) \in Seq(Message)
         /\ S \subseteq ListedIn(q \o InOrder(S))
         /\ ListedIn(q \o InOrder(S)) \subseteq Message
<1> DEFINE r == InOrder(S)
           qr == q \o r
<1>1. r \in Seq(Message) /\ ListedIn(r) = S
  BY InOrderLists
<1> HIDE DEF r
<1>2. /\ qr \in Seq(Message)
      /\ Len(qr) = Len(q) + Len(r)
      /\ \A i \in 1 .. Len(q) + Len(r) :
           qr[i] = IF i <= Len(q) THEN q[i] ELSE r[i - Len(q)]
  BY <1>1, ConcatProperties
<1>3. ASSUME NEW m \in S PROVE m \in ListedIn(qr)
  <2>1. PICK k \in 1 .. Len(r) : r[k] = m
    BY <1>1 DEF ListedIn
  <2>2. /\ Len(q) + k \in 1 .. Len(q) + Len(r)
        /\ ~(Len(q) + k <= Len(q)) /\ (Len(q) + k) - Len(q) = k
    BY <1>1
  <2>3. qr[Len(q) + k] = m
    BY <1>2, <2>1, <2>2
  <2>4. DOMAIN qr = 1 .. Len(qr)
    BY <1>2
  <2> QED
    BY <1>2, <2>2, <2>3, <2>4 DEF ListedIn
<1>4. ListedIn(qr) \subseteq Message
  BY <1>2 DEF ListedIn
<1> QED
  BY <1>2, <1>3, <1>4 DEF r

\* A count is a number.
LEMMA CountType ==
  ASSUME NEW q \in Seq(Message), NEW marks, NEW choice
  PROVE  UnreadIn(q, marks, choice) \in Nat
<1> DEFINE K == {k \in DOMAIN q : Wanted(q[k], choice) /\ q[k] \notin marks}
<1>1. DOMAIN q = 1 .. Len(q) /\ Len(q) \in Nat
  OBVIOUS
<1>2. IsFiniteSet(DOMAIN q)
  BY <1>1, FS_Interval
<1>3. K \subseteq DOMAIN q
  OBVIOUS
<1>4. IsFiniteSet(K)
  BY <1>2, <1>3, FS_Subset
<1> QED
  BY <1>4, FS_CardinalityType DEF UnreadIn

\* The topics the service is asked for are those whose messages are wanted.
LEMMA TopicsFollowChoice ==
  ASSUME NEW choice \in SUBSET Category
  PROVE  /\ Subscribed(choice) \subseteq Category
         /\ \A c \in Category :
              c \in Subscribed(choice) <=> WantedCategory(c, choice)
BY BoundAssumption DEF Subscribed, WantedCategory

-----------------------------------------------------------------------------
(* Each action *)

\* What is the same in most steps: the shapes of the sets.
Sets ==
  /\ server \subseteq Message /\ opened \subseteq server
  /\ read \subseteq Key /\ stored \subseteq Key
  /\ selected \subseteq Category /\ chosen \subseteq Category
  /\ topics \subseteq Category
  /\ unread \in Nat /\ badge \in Nat
  /\ buttons \subseteq Message /\ (buttons # {} => pageOpen)
  /\ pending \in Seq(Kind) /\ total \in Seq(Message)

LEMMA TypeParts == TypeOK <=> Bools /\ Sets
BY DEF TypeOK, Bools, Sets, Kind

LEMMA InitInv == Init => IInv
<1> SUFFICES ASSUME Init PROVE IInv
  OBVIOUS
<1>1. Bools
  BY DEF Init, Bools
<1>3. Sets
  BY BoundAssumption DEF Init, Sets
<1>2. /\ NothingWhenDown /\ PageWaits
      /\ StoredIsInForce /\ ListHasOpened /\ MarksKept
  BY DEF Init, NothingWhenDown, PageWaits, StoredIsInForce, ListHasOpened, MarksKept
<1> QED
  BY <1>1, <1>2, <1>3, TypeParts DEF IInv

\* A fetch that starts is noted.
LEMMA FetchType ==
  ASSUME Bools, Sets, NEW kind \in Kind, NEW connected \in BOOLEAN,
         Fetch(kind, connected)
  PROVE  /\ pending' \in Seq(Kind)
         /\ connected => pending' # <<>>
         /\ ~connected => pending' = pending
         /\ overlapped' \in BOOLEAN /\ counted' \in BOOLEAN
         /\ kind = "dot" => counted'
<1>1. counted' = (kind = "dot") /\ counted' \in BOOLEAN
  BY DEF Fetch
<1>2. CASE connected
  <2>1. pending' = Append(pending, kind) /\ overlapped' \in BOOLEAN
    BY <1>2 DEF Fetch
  <2>2. pending' \in Seq(Kind) /\ pending' # <<>>
    BY <2>1, AppendProperties DEF Sets
  <2> QED
    BY <1>1, <1>2, <2>1, <2>2
<1>3. CASE ~connected
  BY <1>1, <1>3 DEF Fetch, Bools, Sets
<1> QED
  BY <1>2, <1>3

\* Loading the choice puts what is stored in force.
LEMMA LoadChoiceForce ==
  ASSUME Sets, LoadChoice
  PROVE  /\ selected' \subseteq Category /\ chosen' \subseteq Category
         /\ topics' \subseteq Category /\ selected' = chosen'
         /\ \A c \in Category : c \in topics' <=> WantedCategory(c, chosen')
<1>1. selected' = chosen /\ chosen' = chosen /\ topics' = Subscribed(chosen)
  BY DEF LoadChoice
<1>2. chosen \in SUBSET Category
  BY DEF Sets
<1> QED
  BY <1>1, <1>2, TopicsFollowChoice

LEMMA LaunchInv ==
  ASSUME IInv, NEW connected \in BOOLEAN, Launch(connected) PROVE IInv'
<1>0. Bools /\ Sets
  BY TypeParts DEF IInv
<1>1. /\ pending' \in Seq(Kind)
      /\ overlapped' \in BOOLEAN /\ counted' \in BOOLEAN
  <2>1. Fetch("dot", connected) /\ "dot" \in Kind
    BY DEF Launch, Kind
  <2> QED
    BY <1>0, <2>1, FetchType
<1>2. /\ selected' \subseteq Category /\ chosen' \subseteq Category
      /\ topics' \subseteq Category /\ selected' = chosen'
      /\ \A c \in Category : c \in topics' <=> WantedCategory(c, chosen')
  BY <1>0, LoadChoiceForce DEF Launch
<1>3. badge' \in Nat
  BY <1>0 DEF Launch, Sets
<1>9. dot' \in BOOLEAN
  <2>1. dot \in BOOLEAN
    BY <1>0 DEF Bools
  <2>2. dot' = dot \/ dot' = FALSE
    BY DEF Launch
  <2> QED
    BY <2>1, <2>2
<1>10. PageWaits'
  <2>1. pending = <<>> /\ (pending' = <<>> \/ pending' = Append(pending, "dot"))
    BY DEF IInv, NothingWhenDown, Launch, Fetch
  <2>2. pending' = <<>> \/ pending' = <<"dot">>
    BY <2>1
  <2> QED
    BY <2>2 DEF PageWaits
<1>4. total' \in Seq(Message)
  BY <1>0 DEF Launch, ListAtFetch, Sets
<1>5. Bools'
  BY <1>0, <1>1, <1>9 DEF Launch, Bools, pageVars
<1>6. Sets'
  BY <1>0, <1>1, <1>2, <1>3, <1>4 DEF Launch, Sets, pageVars
<1>7. buttons' = {}
  BY <1>0 DEF IInv, NothingWhenDown, Sets, Launch, pageVars
<1>8. NothingWhenDown' /\ StoredIsInForce' /\ ListHasOpened' /\ MarksKept'
  BY <1>2, <1>7
  DEF IInv, Launch, NothingWhenDown, StoredIsInForce, ListHasOpened, MarksKept
<1> QED
  BY <1>5, <1>6, <1>8, <1>10 DEF IInv, TypeOK, Bools, Sets, Kind

LEMMA KillInv == ASSUME IInv, Kill PROVE IInv'
<1>0. Bools /\ Sets
  BY TypeParts DEF IInv
<1>1. Bools'
  BY <1>0 DEF Kill, Bools
<1>3. Sets'
  BY <1>0 DEF Kill, Sets
<1>4. PageWaits'
  BY DEF PageWaits, Kill
<1>2. NothingWhenDown' /\ StoredIsInForce' /\ ListHasOpened' /\ MarksKept'
  BY DEF IInv, Kill, NothingWhenDown, StoredIsInForce, ListHasOpened, MarksKept
<1> QED
  BY <1>1, <1>2, <1>3, <1>4 DEF IInv, TypeOK, Bools, Sets, Kind

LEMMA ReceiveTokenInv == ASSUME IInv, ReceiveToken PROVE IInv'
<1>0. Bools /\ Sets
  BY TypeParts DEF IInv
<1>1. /\ selected' \subseteq Category /\ chosen' \subseteq Category
      /\ topics' \subseteq Category /\ selected' = chosen'
      /\ \A c \in Category : c \in topics' <=> WantedCategory(c, chosen')
  BY <1>0, LoadChoiceForce DEF ReceiveToken
<1>2. Bools'
  BY <1>0 DEF ReceiveToken, Bools, countVars, pageVars
<1>3. Sets'
  BY <1>0, <1>1 DEF ReceiveToken, Sets, countVars, pageVars
<1>5. PageWaits'
  BY DEF IInv, PageWaits, ReceiveToken, pageVars
<1>4. NothingWhenDown' /\ StoredIsInForce' /\ ListHasOpened' /\ MarksKept'
  BY <1>1
  DEF IInv, ReceiveToken, NothingWhenDown, StoredIsInForce, ListHasOpened, MarksKept,
      pageVars
<1> QED
  BY <1>2, <1>3, <1>4, <1>5 DEF IInv, TypeOK, Bools, Sets, Kind

LEMMA TapPushInv == ASSUME IInv, NEW m \in Message, TapPush(m) PROVE IInv'
<1>0. Bools /\ Sets
  BY TypeParts DEF IInv
<1>1. Bools'
  BY <1>0 DEF TapPush, Bools, countVars, pageVars
<1>2. ArticleOf[m] \in Key
  BY FunctionsAssumption DEF Key
<1>3. Sets'
  BY <1>0, <1>2 DEF TapPush, Sets, choiceVars, countVars, pageVars
<1>5. PageWaits'
  BY DEF IInv, PageWaits, TapPush, pageVars
<1>4. NothingWhenDown' /\ StoredIsInForce' /\ ListHasOpened' /\ MarksKept'
  BY DEF IInv, TapPush, NothingWhenDown, StoredIsInForce, ListHasOpened, MarksKept,
         choiceVars, pageVars
<1> QED
  BY <1>1, <1>3, <1>4, <1>5 DEF IInv, TypeOK, Bools, Sets, Kind

LEMMA PublishInv == ASSUME IInv, NEW S \in SUBSET Message, Publish(S) PROVE IInv'
<1>0. Bools /\ Sets
  BY TypeParts DEF IInv
<1>1. Bools'
  BY <1>0 DEF Publish, Bools, countVars, pageVars
<1>2. Sets'
  BY <1>0 DEF Publish, Sets, choiceVars, countVars, pageVars
<1>5. PageWaits'
  BY DEF IInv, PageWaits, Publish, pageVars
<1>3. NothingWhenDown' /\ StoredIsInForce' /\ ListHasOpened' /\ MarksKept'
  BY DEF IInv, Publish, NothingWhenDown, StoredIsInForce, ListHasOpened, MarksKept,
         choiceVars, pageVars
<1> QED
  BY <1>1, <1>2, <1>3, <1>5 DEF IInv, TypeOK, Bools, Sets, Kind

\* The rest of the fetches is still a sequence of fetches.
LEMMA TailType ==
  ASSUME Sets, pending # <<>>
  PROVE  Tail(pending) \in Seq(Kind) /\ Head(pending) \in Kind
BY HeadTailProperties DEF Sets

\* An answer leaves the other fetches as they are.
LEMMA TailWaits ==
  ASSUME Sets, PageWaits, pending # <<>>, pending' = Tail(pending),
         pageOpen' = pageOpen
  PROVE  PageWaits'
<1>1. /\ Len(Tail(pending)) = Len(pending) - 1
      /\ \A k \in 1 .. Len(Tail(pending)) : Tail(pending)[k] = pending[k + 1]
      /\ Tail(pending) \in Seq(Kind)
  BY HeadTailProperties DEF Sets
<1>2. DOMAIN pending = 1 .. Len(pending) /\ Len(pending) \in Nat
  BY DEF Sets
<1>3. DOMAIN Tail(pending) = 1 .. Len(Tail(pending))
  BY <1>1
<1>4. ASSUME NEW k \in DOMAIN pending', pending'[k] = "page" PROVE pageOpen
  <2>1. k \in 1 .. Len(Tail(pending)) /\ k + 1 \in DOMAIN pending
    BY <1>1, <1>2, <1>3, <1>4
  <2>2. pending[k + 1] = "page"
    BY <1>1, <1>4, <2>1
  <2> QED
    BY <2>1, <2>2 DEF PageWaits
<1> QED
  BY <1>4 DEF PageWaits

LEMMA AnswerDotInv == ASSUME IInv, AnswerDot PROVE IInv'
<1>0. Bools /\ Sets
  BY TypeParts DEF IInv
<1>1. pending' \in Seq(Kind)
  BY <1>0, TailType DEF AnswerDot
<1>2. total' \in Seq(Message) /\ server \subseteq ListedIn(total')
  BY <1>0, AppendSnapshot DEF AnswerDot, Sets
<1>3. unread' \in Nat
  <2>1. InOrder(server) \in Seq(Message)
    BY <1>0, InOrderLists DEF Sets
  <2>2. UnreadIn(InOrder(server), read, selected) \in Nat
    BY <2>1, CountType
  <2> QED
    BY <1>0, <2>2 DEF AnswerDot, CountNew, Sets
<1>4. badge' \in Nat
  BY <1>0, <1>3 DEF AnswerDot, Sets
<1>9. dot' \in BOOLEAN
  <2>1. dot \in BOOLEAN
    BY <1>0 DEF Bools
  <2>2. dot' = dot \/ dot' = (unread' > 0)
    BY DEF AnswerDot
  <2>3. (unread' > 0) \in BOOLEAN
    OBVIOUS
  <2> QED
    BY <2>1, <2>2, <2>3
<1>10. PageWaits'
  BY <1>0, TailWaits DEF IInv, AnswerDot, pageVars
<1>5. Bools'
  BY <1>0, <1>9 DEF AnswerDot, Bools, pageVars
<1>6. Sets'
  BY <1>0, <1>1, <1>2, <1>3, <1>4 DEF AnswerDot, Sets, choiceVars, pageVars
<1>7. opened' \subseteq ListedIn(total')
  BY <1>0, <1>2 DEF AnswerDot, Sets
<1>8. NothingWhenDown' /\ StoredIsInForce' /\ ListHasOpened' /\ MarksKept'
  BY <1>7
  DEF IInv, AnswerDot, NothingWhenDown, StoredIsInForce, ListHasOpened, MarksKept,
      choiceVars, pageVars
<1> QED
  BY <1>5, <1>6, <1>8, <1>10 DEF IInv, TypeOK, Bools, Sets, Kind

\* The buttons that are drawn are for messages; a closed page draws none.
LEMMA ScrollViewType ==
  ASSUME Sets, NEW q \in Seq(Message), NEW kind \in Kind, LoadScrollView(q, kind)
  PROVE  /\ buttons' \subseteq Message
         /\ kind # "page" => buttons' = buttons
         /\ LoadChoice
<1>1. ListedIn(q) \subseteq Message
  BY DEF ListedIn
<1> QED
  BY <1>1 DEF LoadScrollView, DrawsOnScreen, Sets

LEMMA AnswerPageInv == ASSUME IInv, AnswerPage PROVE IInv'
<1>0. Bools /\ Sets
  BY TypeParts DEF IInv
<1>1. pending' \in Seq(Kind) /\ Head(pending) \in Kind
  BY <1>0, TailType DEF AnswerPage
<1>2. total' \in Seq(Message) /\ server \subseteq ListedIn(total')
  BY <1>0, AppendSnapshot DEF AnswerPage, Sets
<1>3. PageWaits'
  BY <1>0, TailWaits DEF IInv, AnswerPage
<1>4. /\ buttons' \subseteq Message
      /\ Head(pending) # "page" => buttons' = buttons
      /\ LoadChoice \/ UNCHANGED choiceVars
  <2>1. CASE server = {}
    BY <1>0, <2>1 DEF AnswerPage, Sets
  <2>2. CASE server # {}
    <3>1. LoadScrollView(total', Head(pending))
      BY <2>2 DEF AnswerPage
    <3> QED
      BY <1>0, <1>1, <1>2, <3>1, ScrollViewType
  <2> QED
    BY <2>1, <2>2
<1>5. buttons' # {} => pageOpen'
  <2>1. Head(pending) = "page" => pageOpen
    BY <1>0, HeadTailProperties DEF IInv, PageWaits, AnswerPage, Sets
  <2> QED
    BY <1>0, <1>4, <2>1 DEF AnswerPage, Sets
<1>6. /\ selected' \subseteq Category /\ chosen' \subseteq Category
      /\ topics' \subseteq Category /\ StoredIsInForce'
  <2>1. CASE LoadChoice
    BY <1>0, <2>1, LoadChoiceForce DEF IInv, StoredIsInForce, AnswerPage
  <2>2. CASE UNCHANGED choiceVars
    BY <1>0, <2>2 DEF IInv, StoredIsInForce, AnswerPage, choiceVars, Sets
  <2> QED
    BY <1>4, <2>1, <2>2
<1>7. counted' \in BOOLEAN
  BY DEF AnswerPage
<1>8. Bools'
  BY <1>0, <1>7 DEF AnswerPage, Bools, countVars
<1>9. Sets'
  BY <1>0, <1>1, <1>2, <1>4, <1>5, <1>6 DEF AnswerPage, Sets, countVars
<1>10. opened' \subseteq ListedIn(total')
  BY <1>0, <1>2 DEF AnswerPage, Sets
<1>11. NothingWhenDown' /\ ListHasOpened' /\ MarksKept'
  BY <1>10
  DEF IInv, AnswerPage, NothingWhenDown, ListHasOpened, MarksKept
<1> QED
  BY <1>3, <1>6, <1>8, <1>9, <1>11 DEF IInv, TypeOK, Bools, Sets, Kind

\* A page that starts a fetch is shown.
LEMMA AppendWaits ==
  ASSUME Sets, PageWaits, pageOpen',
         pending' = pending \/ pending' = Append(pending, "page")
  PROVE  PageWaits'
BY DEF PageWaits

LEMMA OpenPageInv ==
  ASSUME IInv, NEW connected \in BOOLEAN, OpenPage(connected) PROVE IInv'
<1>0. Bools /\ Sets
  BY TypeParts DEF IInv
<1>1. /\ pending' \in Seq(Kind)
      /\ overlapped' \in BOOLEAN /\ counted' \in BOOLEAN
  <2>1. Fetch("page", connected) /\ "page" \in Kind
    BY DEF OpenPage, Kind
  <2> QED
    BY <1>0, <2>1, FetchType
<1>2. PageWaits'
  <2>1. pending' = pending \/ pending' = Append(pending, "page")
    BY DEF OpenPage, Fetch
  <2> QED
    BY <1>0, <2>1, AppendWaits DEF IInv, OpenPage
<1>3. Bools'
  BY <1>0, <1>1 DEF OpenPage, Bools, countVars
<1>4. Sets'
  BY <1>0, <1>1 DEF OpenPage, Sets, choiceVars, countVars
<1>5. NothingWhenDown' /\ StoredIsInForce' /\ ListHasOpened' /\ MarksKept'
  BY DEF IInv, OpenPage, NothingWhenDown, StoredIsInForce, ListHasOpened, MarksKept,
         choiceVars
<1> QED
  BY <1>2, <1>3, <1>4, <1>5 DEF IInv, TypeOK, Bools, Sets, Kind

\* A refresh empties the list only if the page will get a new one.
LEMMA RefreshPageInv ==
  ASSUME IInv, NEW connected \in BOOLEAN, RefreshPage(connected) PROVE IInv'
<1>0. Bools /\ Sets
  BY TypeParts DEF IInv
<1>1. /\ pending' \in Seq(Kind)
      /\ overlapped' \in BOOLEAN /\ counted' \in BOOLEAN
      /\ connected => pending' # <<>>
      /\ ~connected => pending' = pending
  <2>1. CASE connected
    <3>1. Fetch("page", TRUE) /\ "page" \in Kind
      BY <2>1 DEF RefreshPage, Kind
    <3> QED
      BY <1>0, <2>1, <3>1, FetchType
  <2>2. CASE ~connected
    BY <1>0, <2>2 DEF RefreshPage, Bools, Sets
  <2> QED
    BY <2>1, <2>2
<1>2. PageWaits'
  <2>1. pending' = pending \/ pending' = Append(pending, "page")
    BY DEF RefreshPage, Fetch
  <2> QED
    BY <1>0, <2>1, AppendWaits DEF IInv, RefreshPage, pageVars
<1>3. total' \in Seq(Message)
  BY <1>0 DEF RefreshPage, ListAtFetch, Sets
<1>4. Bools'
  BY <1>0, <1>1 DEF RefreshPage, Bools, countVars, pageVars
<1>5. Sets'
  BY <1>0, <1>1, <1>3 DEF RefreshPage, Sets, choiceVars, countVars, pageVars
<1>6. ListHasOpened'
  <2>1. CASE connected
    BY <1>1, <2>1 DEF ListHasOpened
  <2>2. CASE ~connected
    BY <1>1, <2>2
    DEF IInv, ListHasOpened, RefreshPage, ListAtFetch, pageVars
  <2> QED
    BY <2>1, <2>2
<1>7. NothingWhenDown' /\ StoredIsInForce' /\ MarksKept'
  BY DEF IInv, RefreshPage, NothingWhenDown, StoredIsInForce, MarksKept,
         choiceVars, pageVars
<1> QED
  BY <1>2, <1>4, <1>5, <1>6, <1>7 DEF IInv, TypeOK, Bools, Sets, Kind

\* The step for which the list must be complete: saving drops every mark whose
\* message is not in it.
LEMMA OpenArticleInv ==
  ASSUME IInv, NEW m \in Message, OpenArticle(m) PROVE IInv'
<1>0. Bools /\ Sets
  BY TypeParts DEF IInv
<1>1. alive /\ read = stored /\ m \in buttons
  BY DEF OpenArticle, IInv, NothingWhenDown, StoredIsInForce
<1>2. /\ stored' = (read \cup {m}) \cap ListedIn(total)
      /\ read' = stored'
  BY DEF OpenArticle, FilterMarks
<1>3. ListedIn(total) \subseteq Message
  BY <1>0 DEF ListedIn, Sets
<1>4. buttons' \subseteq Message /\ LoadChoice
  BY <1>0, ScrollViewType DEF OpenArticle, Sets, Kind
<1>5. /\ selected' \subseteq Category /\ chosen' \subseteq Category
      /\ topics' \subseteq Category /\ selected' = chosen'
      /\ \A c \in Category : c \in topics' <=> WantedCategory(c, chosen')
  BY <1>0, <1>4, LoadChoiceForce
<1>6. unread' \in Nat /\ badge' \in Nat
  BY <1>0, CountType DEF OpenArticle, Sets
<1>7. hasty' \in BOOLEAN /\ counted' \in BOOLEAN
  BY DEF OpenArticle
<1>8. Bools'
  BY <1>0, <1>7 DEF OpenArticle, Bools
<1>9. Sets'
  BY <1>0, <1>2, <1>3, <1>4, <1>5, <1>6 DEF OpenArticle, Sets, Key
<1>10. ~hasty' => ~hasty /\ pending = <<>>
  BY DEF OpenArticle
<1>11. pending = <<>> => opened' \subseteq ListedIn(total)
  BY <1>1 DEF IInv, ListHasOpened, OpenArticle
<1>12. MarksKept'
  BY <1>1, <1>2, <1>10, <1>11 DEF IInv, MarksKept, OpenArticle
<1>13. ListHasOpened'
  BY <1>11 DEF ListHasOpened, OpenArticle
<1>14. NothingWhenDown' /\ PageWaits'
  BY DEF IInv, OpenArticle, NothingWhenDown, PageWaits
<1>15. StoredIsInForce'
  BY <1>2, <1>5 DEF StoredIsInForce
<1> QED
  BY <1>8, <1>9, <1>12, <1>13, <1>14, <1>15 DEF IInv, TypeOK, Bools, Sets, Kind

LEMMA ClosePageInv == ASSUME IInv, ClosePage PROVE IInv'
<1>0. Bools /\ Sets
  BY TypeParts DEF IInv
<1>1. pending' \in Seq(Kind) /\ PageWaits' /\ (pending = <<>> => pending' = <<>>)
  <2>1. pending \in [1 .. Len(pending) -> Kind] /\ Len(pending) \in Nat
    BY <1>0 DEF Sets
  <2>2. \A k \in 1 .. Len(pending) :
          /\ pending'[k] \in Kind /\ pending'[k] # "page"
    BY <2>1 DEF ClosePage, Kind
  <2>3. pending' \in [1 .. Len(pending) -> Kind]
    BY <2>1 DEF ClosePage, Kind
  <2>4. pending' \in Seq(Kind) /\ DOMAIN pending' = 1 .. Len(pending)
    BY <2>1, <2>3
  <2>5. pending = <<>> => Len(pending) = 0
    OBVIOUS
  <2>6. Len(pending') = Len(pending)
    BY <2>1, <2>4
  <2>7. pending = <<>> => pending' = <<>>
    BY <2>4, <2>5, <2>6
  <2> QED
    BY <2>2, <2>4, <2>7 DEF PageWaits
<1>2. (unread > 0) \in BOOLEAN
  BY <1>0 DEF Sets
<1>3. Bools'
  BY <1>0, <1>2 DEF ClosePage, Bools
<1>4. Sets'
  BY <1>0, <1>1 DEF ClosePage, Sets, choiceVars
<1>5. NothingWhenDown' /\ StoredIsInForce' /\ ListHasOpened' /\ MarksKept'
  BY <1>1
  DEF IInv, ClosePage, NothingWhenDown, StoredIsInForce, ListHasOpened, MarksKept,
      choiceVars
<1> QED
  BY <1>1, <1>3, <1>4, <1>5 DEF IInv, TypeOK, Bools, Sets, Kind

LEMMA ChangeSettingInv ==
  ASSUME IInv, NEW c \in Category, ChangeSetting(c) PROVE IInv'
<1>0. Bools /\ Sets
  BY TypeParts DEF IInv
<1>1. selected' \in SUBSET Category
  BY <1>0, BoundAssumption DEF ChangeSetting, Sets
<1>2. /\ chosen' = selected' /\ topics' \subseteq Category
      /\ \A d \in Category : d \in topics' <=> WantedCategory(d, chosen')
  BY <1>1, TopicsFollowChoice DEF ChangeSetting
<1>3. unread' \in Nat /\ badge' \in Nat
  BY <1>0, CountType DEF ChangeSetting, Sets
<1>4. Bools'
  BY <1>0 DEF ChangeSetting, Bools, pageVars
<1>5. Sets'
  BY <1>0, <1>1, <1>2, <1>3 DEF ChangeSetting, Sets, pageVars
<1>6. StoredIsInForce'
  BY <1>2 DEF StoredIsInForce, ChangeSetting
<1>7. NothingWhenDown' /\ PageWaits' /\ ListHasOpened' /\ MarksKept'
  BY DEF IInv, ChangeSetting, NothingWhenDown, PageWaits, ListHasOpened, MarksKept,
         pageVars
<1> QED
  BY <1>4, <1>5, <1>6, <1>7 DEF IInv, TypeOK, Bools, Sets, Kind

-----------------------------------------------------------------------------
(* The theorems *)

LEMMA NextInv == IInv /\ [Next]_vars => IInv'
<1> SUFFICES ASSUME IInv, [Next]_vars PROVE IInv'
  OBVIOUS
<1>1. ASSUME NEW connected \in BOOLEAN, Launch(connected) PROVE IInv'
  BY <1>1, LaunchInv
<1>2. ASSUME NEW connected \in BOOLEAN, OpenPage(connected) PROVE IInv'
  BY <1>2, OpenPageInv
<1>3. ASSUME NEW connected \in BOOLEAN, RefreshPage(connected) PROVE IInv'
  BY <1>3, RefreshPageInv
<1>4. CASE Kill
  BY <1>4, KillInv
<1>5. CASE ReceiveToken
  BY <1>5, ReceiveTokenInv
<1>6. CASE AnswerDot
  BY <1>6, AnswerDotInv
<1>7. CASE AnswerPage
  BY <1>7, AnswerPageInv
<1>8. CASE ClosePage
  BY <1>8, ClosePageInv
<1>9. ASSUME NEW m \in Message, TapPush(m) PROVE IInv'
  BY <1>9, TapPushInv
<1>10. ASSUME NEW m \in Message, OpenArticle(m) PROVE IInv'
  BY <1>10, OpenArticleInv
<1>11. ASSUME NEW S \in SUBSET Message, Publish(S) PROVE IInv'
  BY <1>11, PublishInv
<1>12. ASSUME NEW c \in Category, ChangeSetting(c) PROVE IInv'
  BY <1>12, ChangeSettingInv
<1>13. CASE UNCHANGED vars
  <2>1. PageWaits' /\ NothingWhenDown' /\ StoredIsInForce'
    BY <1>13
    DEF IInv, PageWaits, NothingWhenDown, StoredIsInForce, vars, choiceVars, pageVars
  <2>2. ListHasOpened' /\ MarksKept'
    BY <1>13 DEF IInv, ListHasOpened, MarksKept, vars, pageVars
  <2>3. TypeOK'
    BY <1>13 DEF IInv, TypeOK, vars, choiceVars, countVars, pageVars
  <2> QED
    BY <2>1, <2>2, <2>3 DEF IInv
<1> QED
  BY <1>1, <1>2, <1>3, <1>4, <1>5, <1>6, <1>7, <1>8, <1>9, <1>10, <1>11, <1>12,
     <1>13 DEF Next

\* Every state is well formed: buttons are for messages, on an open page.
THEOREM TypeCorrect == Spec => []TypeOK
<1>1. IInv => TypeOK
  BY DEF IInv
<1> QED
  BY <1>1, InitInv, NextInv, PTL DEF Spec

\* Marks and choice in memory are those of UserDefaults, and the service is
\* asked for the topics whose messages the app lists, on every path.
THEOREM StoredAlwaysInForce == Spec => []StoredIsInForce
<1>1. IInv => StoredIsInForce
  BY DEF IInv
<1> QED
  BY <1>1, InitInv, NextInv, PTL DEF Spec

\* Messages opened on the page stay read as long as the server has them and
\* nothing is opened while the list is being fetched.
THEOREM MarksAreKept == Spec => []MarksKept
<1>1. IInv => MarksKept
  BY DEF IInv
<1> QED
  BY <1>1, InitInv, NextInv, PTL DEF Spec

-----------------------------------------------------------------------------
(* The count *)


\* A killed app has no list; a list is emptied when its fetch begins and filled
\* when it is answered, unless another fetch was under way.
ListWaits ==
  /\ ~alive => total = <<>>
  /\ ~overlapped => /\ Len(pending) <= 1
                    /\ pending # <<>> => total = <<>>

Once(q) == \A j, k \in DOMAIN q : q[j] = q[k] => j = k

\* Each message is listed once, and counted once.
CountInv ==
  /\ ListWaits
  /\ ~overlapped => Once(total)
  /\ counted /\ ~overlapped => unread = UnreadIn(total, read, selected)

\* A set of messages is listed without repetition, an empty one as <<>>.
LEMMA InOrderOnce ==
  ASSUME NEW S \in SUBSET Message
  PROVE  Once(InOrder(S)) /\ (S = {} => InOrder(S) = <<>>)
<1> DEFINE n == Cardinality(S)
           q == InOrder(S)
<1>1. IsFiniteSet(S) /\ n \in Nat
  BY MessageAssumption, FS_Subset, FS_CardinalityType
<1>2. q \in [1 .. n -> S] /\ ListedIn(q) = S
  <2>1. PICK f \in Bijection(1 .. n, S) : TRUE
    BY <1>1, FS_CardinalityType DEF ExistsBijection
  <2>2. f \in [1 .. n -> S] /\ ListedIn(f) = S
    BY <2>1 DEF Bijection, Surjection, Injection, ListedIn
  <2> QED
    BY <2>2 DEF InOrder
<1> HIDE DEF q, n
<1>3. q \in Surjection(1 .. n, S)
  BY <1>2 DEF Surjection, ListedIn
<1>4. IsFiniteSet(1 .. n) /\ Cardinality(1 .. n) = Cardinality(S)
  <2>1. Cardinality(1 .. n) = n
    BY <1>1, FS_Interval
  <2> QED
    BY <1>1, <2>1, FS_Interval DEF n
<1>5. q \in Injection(1 .. n, S)
  BY <1>3, <1>4, FS_SurjSameCardinalityImpliesInj
<1>6. Once(q)
  BY <1>2, <1>5 DEF Once, Injection, IsInjective
<1>7. S = {} => q = <<>>
  <2>1. S = {} => n = 0
    BY FS_EmptySet DEF n
  <2> QED
    BY <1>2, <2>1
<1> QED
  BY <1>6, <1>7 DEF q

\* The count depends on the marks of messages only.
LEMMA SameMarksSameCount ==
  ASSUME NEW q \in Seq(Message), NEW marks, NEW old, NEW choice,
         \A m \in Message : m \in marks <=> m \in old
  PROVE  UnreadIn(q, marks, choice) = UnreadIn(q, old, choice)
<1>1. \A k \in DOMAIN q : q[k] \in Message
  OBVIOUS
<1>2. {k \in DOMAIN q : Wanted(q[k], choice) /\ q[k] \notin marks}
      = {k \in DOMAIN q : Wanted(q[k], choice) /\ q[k] \notin old}
  BY <1>1
<1> QED
  BY <1>2 DEF UnreadIn

LEMMA NothingToCount ==
  ASSUME NEW marks, NEW choice PROVE UnreadIn(<<>>, marks, choice) = 0
<1>1. {k \in DOMAIN <<>> : Wanted(<<>>[k], choice) /\ <<>>[k] \notin marks} = {}
  OBVIOUS
<1> QED
  BY <1>1, FS_EmptySet DEF UnreadIn

\* In a list without repetition, counting places is counting messages.
LEMMA PlacesAreMessages ==
  ASSUME NEW q \in Seq(Message), Once(q), NEW marks, NEW choice
  PROVE  UnreadIn(q, marks, choice)
         = Cardinality({m \in ListedIn(q) : Wanted(m, choice) /\ m \notin marks})
<1> DEFINE K == {k \in DOMAIN q : Wanted(q[k], choice) /\ q[k] \notin marks}
           M == {m \in ListedIn(q) : Wanted(m, choice) /\ m \notin marks}
           f == [k \in K |-> q[k]]
<1>1. DOMAIN q = 1 .. Len(q) /\ Len(q) \in Nat
  OBVIOUS
<1>2. IsFiniteSet(K)
  <2>1. IsFiniteSet(DOMAIN q) /\ K \subseteq DOMAIN q
    BY <1>1, FS_Interval
  <2> QED
    BY <2>1, FS_Subset
<1>3. \A k \in K : q[k] \in M
  BY DEF ListedIn
<1>4. \A m \in M : \E k \in K : q[k] = m
  BY DEF ListedIn
<1>5. \A j, k \in K : q[j] = q[k] => j = k
  BY DEF Once
<1> HIDE DEF K, M
<1>6. f \in Bijection(K, M)
  BY <1>3, <1>4, <1>5 DEF Bijection, Injection, Surjection, IsInjective
<1>7. Cardinality(M) = Cardinality(K)
  BY <1>2, <1>6, FS_Bijection DEF ExistsBijection
<1> QED
  BY <1>7 DEF UnreadIn, K, M

-----------------------------------------------------------------------------

LEMMA CountInit == Init => CountInv
<1> SUFFICES ASSUME Init PROVE CountInv
  OBVIOUS
<1>1. Once(total) /\ ListWaits /\ ~counted
  BY DEF Init, ListWaits, Once
<1> QED
  BY <1>1 DEF CountInv

\* The app starts with the list empty and nothing counted.
LEMMA CountLaunch ==
  ASSUME IInv, CountInv, NEW connected \in BOOLEAN, Launch(connected)
  PROVE  CountInv'
<1>1. pending = <<>> /\ total = <<>>
  BY DEF IInv, NothingWhenDown, CountInv, ListWaits, Launch
<1>2. total' = <<>> /\ unread' = 0 /\ alive'
  BY <1>1 DEF Launch, ListAtFetch
<1>3. Len(pending') <= 1
  BY <1>1 DEF Launch, Fetch
<1>4. Once(total') /\ unread' = UnreadIn(total', read', selected')
  BY <1>2, NothingToCount DEF Once
<1> QED
  BY <1>2, <1>3, <1>4 DEF CountInv, ListWaits

LEMMA CountKill == ASSUME Kill PROVE CountInv'
<1>1. total' = <<>> /\ pending' = <<>> /\ counted' = FALSE
  BY DEF Kill
<1> QED
  BY <1>1 DEF CountInv, ListWaits, Once

\* A step that leaves the list alone, and the marks and the choice as far as
\* messages are concerned, leaves the count right.
LEMMA CountFrame ==
  ASSUME IInv, CountInv, UNCHANGED <<alive, pending, total, unread, overlapped, counted>>,
         selected' = selected, \A m \in Message : m \in read' <=> m \in read
  PROVE  CountInv'
<1>1. total \in Seq(Message)
  BY DEF IInv, TypeOK
<1>2. UnreadIn(total, read', selected) = UnreadIn(total, read, selected)
  BY <1>1, SameMarksSameCount
<1> QED
  BY <1>2 DEF CountInv, ListWaits, Once

LEMMA CountReceiveToken == ASSUME IInv, CountInv, ReceiveToken PROVE CountInv'
<1>1. selected' = selected
  BY DEF IInv, StoredIsInForce, ReceiveToken, LoadChoice
<1> QED
  BY <1>1, CountFrame DEF ReceiveToken, countVars

\* The mark a push leaves is under the article's ID, which is no message's.
LEMMA CountTapPush ==
  ASSUME IInv, CountInv, NEW m \in Message, TapPush(m) PROVE CountInv'
<1>1. ArticleOf[m] \notin Message
  BY KeysAssumption, FunctionsAssumption
<1>2. \A n \in Message : n \in read' <=> n \in read
  BY <1>1 DEF IInv, StoredIsInForce, TapPush
<1> QED
  BY <1>2, CountFrame DEF TapPush, countVars, choiceVars

LEMMA CountPublish ==
  ASSUME IInv, CountInv, NEW S \in SUBSET Message, Publish(S) PROVE CountInv'
BY CountFrame DEF Publish, countVars, choiceVars

\* The answer fills the list that its fetch has emptied.
LEMMA AnswerFills ==
  ASSUME IInv, CountInv, pending # <<>>, pending' = Tail(pending),
         total' = total \o InOrder(server), UNCHANGED <<alive, overlapped>>
  PROVE  /\ ListWaits'
         /\ ~overlapped => /\ total = <<>> /\ total' = InOrder(server)
                           /\ Once(total')
         /\ server = {} => total' = total
<1>1. /\ pending \in Seq(Kind) /\ total \in Seq(Message)
      /\ server \in SUBSET Message /\ alive
  BY DEF IInv, TypeOK, Kind, NothingWhenDown
<1>2. InOrder(server) \in Seq(Message) /\ Once(InOrder(server))
      /\ (server = {} => InOrder(server) = <<>>)
  BY <1>1, InOrderLists, InOrderOnce
<1>3. ~overlapped => total = <<>> /\ Len(pending) <= 1
  BY DEF CountInv, ListWaits
<1>4. ~overlapped => total' = InOrder(server)
  BY <1>2, <1>3
<1>5. ~overlapped => pending' = <<>> /\ Len(pending') <= 1
  BY <1>1, <1>3
<1>6. server = {} => total' = total
  BY <1>1, <1>2
<1> QED
  BY <1>1, <1>2, <1>3, <1>4, <1>5, <1>6 DEF ListWaits

LEMMA CountAnswerDot == ASSUME IInv, CountInv, AnswerDot PROVE CountInv'
<1>1. /\ ListWaits'
      /\ ~overlapped => /\ total = <<>> /\ total' = InOrder(server)
                        /\ Once(total')
  BY AnswerFills DEF AnswerDot
<1>2. ASSUME counted, ~overlapped
      PROVE  unread' = UnreadIn(total', read', selected')
  <2>1. unread = 0
    BY <1>1, <1>2, NothingToCount DEF CountInv
  <2>2. unread' = UnreadIn(InOrder(server), read, selected)
    <3>1. UnreadIn(InOrder(server), read, selected) \in Nat
      BY InOrderLists, CountType DEF IInv, TypeOK
    <3> QED
      BY <2>1, <3>1 DEF AnswerDot, CountNew
  <2> QED
    BY <1>1, <1>2, <2>2 DEF AnswerDot, choiceVars
<1> QED
  BY <1>1, <1>2 DEF CountInv, AnswerDot

LEMMA CountAnswerPage == ASSUME IInv, CountInv, AnswerPage PROVE CountInv'
<1>1. /\ ListWaits'
      /\ ~overlapped => Once(total')
      /\ server = {} => total' = total
  BY AnswerFills DEF AnswerPage
<1>2. ASSUME counted', ~overlapped
      PROVE  unread' = UnreadIn(total', read', selected')
  <2>1. counted /\ server = {}
    BY <1>2 DEF AnswerPage
  <2> QED
    BY <1>1, <1>2, <2>1 DEF AnswerPage, CountInv, choiceVars, countVars
<1> QED
  BY <1>1, <1>2 DEF CountInv, AnswerPage

\* A fetch that is alone has emptied the list.
LEMMA FetchEmpties ==
  ASSUME IInv, NEW kind \in Kind, NEW connected \in BOOLEAN, Fetch(kind, connected),
         connected => total' = <<>>, ~connected => total' \in {total, <<>>},
         alive', CountInv
  PROVE  ListWaits' /\ (~overlapped' => Once(total'))
<1>1. CASE connected
  <2>1. ~overlapped' => Len(pending') <= 1
    <3> SUFFICES ASSUME ~overlapped' PROVE Len(pending') <= 1
      OBVIOUS
    <3>1. pending' = Append(<<>>, kind)
      BY <1>1 DEF Fetch
    <3>2. Len(Append(<<>>, kind)) = 1
      OBVIOUS
    <3>3. Len(pending') = 1
      BY <3>1, <3>2, Zenon
    <3> QED
      BY <3>3
  <2> QED
    BY <1>1, <2>1 DEF ListWaits, Once
<1>2. CASE ~connected
  BY <1>2 DEF Fetch, CountInv, ListWaits, Once
<1> QED
  BY <1>1, <1>2

LEMMA CountOpenPage ==
  ASSUME IInv, CountInv, NEW connected \in BOOLEAN, OpenPage(connected)
  PROVE  CountInv'
<1>1. ListWaits' /\ (~overlapped' => Once(total'))
  BY FetchEmpties DEF OpenPage, Kind
<1>2. ~counted'
  BY DEF OpenPage, Fetch
<1> QED
  BY <1>1, <1>2 DEF CountInv

LEMMA CountRefreshPage ==
  ASSUME IInv, CountInv, NEW connected \in BOOLEAN, RefreshPage(connected)
  PROVE  CountInv'
<1>0. alive /\ read = stored
  BY DEF IInv, NothingWhenDown, StoredIsInForce, RefreshPage
<1>1. CASE connected
  <2>1. ListWaits' /\ (~overlapped' => Once(total'))
    BY <1>0, <1>1, FetchEmpties DEF Kind, RefreshPage, ListAtFetch
  <2>2. ~counted'
    BY <1>1 DEF RefreshPage, Fetch
  <2> QED
    BY <2>1, <2>2 DEF CountInv
<1>2. CASE ~connected
  BY <1>0, <1>2, CountFrame
  DEF RefreshPage, ListAtFetch, countVars, choiceVars
<1> QED
  BY <1>1, <1>2

\* Opening an article and changing a setting count anew.
LEMMA CountAnew ==
  ASSUME CountInv, UNCHANGED <<alive, pending, total, overlapped>>,
         unread' = UnreadIn(total, read', selected')
  PROVE  CountInv'
BY DEF CountInv, ListWaits, Once

LEMMA CountOpenArticle ==
  ASSUME CountInv, NEW m \in Message, OpenArticle(m) PROVE CountInv'
BY CountAnew DEF OpenArticle

LEMMA CountChangeSetting ==
  ASSUME CountInv, NEW c \in Category, ChangeSetting(c) PROVE CountInv'
BY CountAnew DEF ChangeSetting

LEMMA CountClosePage == ASSUME IInv, CountInv, ClosePage PROVE CountInv'
<1>1. pending \in Seq(Kind)
  BY DEF IInv, TypeOK, Kind
<1>2. Len(pending') = Len(pending) /\ (pending' # <<>> => pending # <<>>)
  BY <1>1 DEF ClosePage
<1> QED
  BY <1>2 DEF CountInv, ListWaits, Once, ClosePage, choiceVars

LEMMA CountNext == IInv /\ CountInv /\ [Next]_vars => CountInv'
<1> SUFFICES ASSUME IInv, CountInv, [Next]_vars PROVE CountInv'
  OBVIOUS
<1>1. ASSUME NEW connected \in BOOLEAN, Launch(connected) PROVE CountInv'
  BY <1>1, CountLaunch
<1>2. ASSUME NEW connected \in BOOLEAN, OpenPage(connected) PROVE CountInv'
  BY <1>2, CountOpenPage
<1>3. ASSUME NEW connected \in BOOLEAN, RefreshPage(connected) PROVE CountInv'
  BY <1>3, CountRefreshPage
<1>4. CASE Kill
  BY <1>4, CountKill
<1>5. CASE ReceiveToken
  BY <1>5, CountReceiveToken
<1>6. CASE AnswerDot
  BY <1>6, CountAnswerDot
<1>7. CASE AnswerPage
  BY <1>7, CountAnswerPage
<1>8. CASE ClosePage
  BY <1>8, CountClosePage
<1>9. ASSUME NEW m \in Message, TapPush(m) PROVE CountInv'
  BY <1>9, CountTapPush
<1>10. ASSUME NEW m \in Message, OpenArticle(m) PROVE CountInv'
  BY <1>10, CountOpenArticle
<1>11. ASSUME NEW S \in SUBSET Message, Publish(S) PROVE CountInv'
  BY <1>11, CountPublish
<1>12. ASSUME NEW c \in Category, ChangeSetting(c) PROVE CountInv'
  BY <1>12, CountChangeSetting
<1>13. CASE UNCHANGED vars
  BY <1>13, CountFrame DEF vars, choiceVars, countVars
<1> QED
  BY <1>1, <1>2, <1>3, <1>4, <1>5, <1>6, <1>7, <1>8, <1>9, <1>10, <1>11, <1>12,
     <1>13 DEF Next

\* Each message of the list is counted once, as long as it is the list that was
\* counted and no fetch began before an older one had ended.
THEOREM CountAlwaysMatches == Spec => []CountMatchesList
<1>1. IInv /\ CountInv => CountMatchesList
  <2> SUFFICES ASSUME IInv, CountInv, counted, ~overlapped
               PROVE  unread = Cardinality({m \in ListedIn(total) :
                                              Wanted(m, selected) /\ m \notin read})
    BY DEF CountMatchesList
  <2>1. total \in Seq(Message) /\ Once(total)
    BY DEF IInv, TypeOK, CountInv
  <2> QED
    BY <2>1, PlacesAreMessages DEF CountInv
<1> QED
  BY <1>1, InitInv, NextInv, CountInit, CountNext, PTL DEF Spec
=============================================================================
