-------------------------- MODULE IOSBulletinProofs --------------------------
(***************************************************************************)
(* Proofs about IOSBulletin, for every set of articles and branches and    *)
(* any number of fetches under way: the type invariant, that marks are     *)
(* kept, and that the labels of the buttons follow the marks.              *)
(***************************************************************************)
EXTENDS IOSBulletin, SequenceTheorems, TLAPS

\* Of the articles drawn last, memory and UserDefaults have the same marks.
MarksInStep == read \cap total = stored \cap total

\* An opened article that is still published is in its list or on its way,
\* except in a process that has not heard of any article yet.
OpenedIsCovered ==
  \/ \A a \in opened : a \in list[BranchOf[a]] \/ asked[BranchOf[a]] # <<>>
  \/ list = NoList /\ asked = Nobody /\ total = {}

\* A page drawn from complete lists had all articles opened before.
DrawnFromAll == ~partial => total = {} \/ opened \subseteq total

\* Only a page that is loaded asks for itself.
PageIsLoaded == ~loaded => \A b \in Branch : asked[b] \in Seq({"other"})

Inv ==
  /\ TypeOK /\ MarksKept /\ LabelsFollowMarks
  /\ MarksInStep /\ OpenedIsCovered /\ DrawnFromAll /\ PageIsLoaded

-----------------------------------------------------------------------------
(* The process and the server *)

LEMMA InitInv == Init => Inv
<1> SUFFICES ASSUME Init PROVE Inv
  OBVIOUS
<1> USE DEF Init
<1>1. asked \in [Branch -> Seq({"page", "other"})]
      /\ \A b \in Branch : asked[b] \in Seq({"other"})
  BY EmptySeq DEF Nobody
<1>2. {alive, loaded, partial, hasty} \subseteq BOOLEAN
  OBVIOUS
<1>3. TypeOK
  BY <1>1, <1>2 DEF TypeOK, NoList
<1>4. MarksKept /\ LabelsFollowMarks /\ MarksInStep /\ OpenedIsCovered
      /\ DrawnFromAll
  BY DEF MarksKept, LabelsFollowMarks, MarksInStep, OpenedIsCovered,
         DrawnFromAll
<1> QED
  BY <1>1, <1>3, <1>4 DEF Inv, PageIsLoaded

LEMMA LaunchInv == ASSUME Inv, Launch PROVE Inv'
<1>1. /\ alive' = TRUE
      /\ UNCHANGED <<loaded, server, asked, list, total, buttons, fresh, read,
                     stored, filters, opened, partial, hasty>>
  BY DEF Launch, pageVars
<1>2. TypeOK'
  BY <1>1 DEF Inv, TypeOK
<1> QED
  BY <1>1, <1>2 DEF Inv, MarksKept, LabelsFollowMarks, MarksInStep,
                    OpenedIsCovered, DrawnFromAll, PageIsLoaded, Nobody, NoList

\* After the end of the process nothing is drawn and nothing is asked.
LEMMA KillInv == ASSUME Inv, Kill PROVE Inv'
<1>1. /\ alive' = FALSE /\ loaded' = FALSE /\ asked' = Nobody /\ list' = NoList
      /\ total' = {} /\ buttons' = {} /\ fresh' = {} /\ read' = {}
      /\ filters' = {} /\ partial' = FALSE
      /\ UNCHANGED <<server, stored, opened, hasty>>
  BY DEF Kill
<1>2. asked' \in [Branch -> Seq({"page", "other"})]
      /\ \A b \in Branch : asked'[b] \in Seq({"other"})
  BY <1>1, EmptySeq DEF Nobody
<1>3. {alive, loaded, partial, hasty}' \subseteq BOOLEAN
  BY <1>1 DEF Inv, TypeOK
<1>4. list' \in [Branch -> SUBSET Article]
  BY <1>1 DEF NoList
<1>5. TypeOK'
  BY <1>1, <1>2, <1>3, <1>4 DEF Inv, TypeOK
<1>6. MarksKept' /\ LabelsFollowMarks' /\ MarksInStep' /\ DrawnFromAll'
  BY <1>1 DEF Inv, MarksKept, LabelsFollowMarks, MarksInStep, DrawnFromAll
<1>7. OpenedIsCovered'
  BY <1>1 DEF OpenedIsCovered, Nobody, NoList
<1> QED
  BY <1>2, <1>5, <1>6, <1>7 DEF Inv, PageIsLoaded

\* What is unpublished is no longer owed a mark.
LEMMA PublishInv == ASSUME Inv, NEW S \in SUBSET Article, Publish(S) PROVE Inv'
<1>1. /\ server' = S /\ opened' = opened \cap S
      /\ UNCHANGED <<alive, loaded, asked, list, total, buttons, fresh, read,
                     stored, filters, partial, hasty>>
  BY DEF Publish, pageVars
<1>2. TypeOK'
  BY <1>1 DEF Inv, TypeOK
<1> QED
  BY <1>1, <1>2 DEF Inv, MarksKept, LabelsFollowMarks, MarksInStep,
                    OpenedIsCovered, DrawnFromAll, PageIsLoaded, Nobody, NoList

-----------------------------------------------------------------------------
(* Fetching and drawing *)

\* A fetch empties the lists, but every branch is on its way then.
LEMMA FetchInv ==
  ASSUME Inv, alive, NEW who \in {"page", "other"}, NEW connected \in BOOLEAN,
         Fetch(who, connected), loaded' \in BOOLEAN, loaded => loaded',
         who = "page" => loaded',
         UNCHANGED <<alive, server, total, buttons, fresh, read, stored,
                     filters, opened, partial, hasty>>
  PROVE  Inv'
<1>1. asked \in [Branch -> Seq({"page", "other"})]
  BY DEF Inv, TypeOK
<1>2. CASE ~connected
  <2>1. UNCHANGED <<list, asked>>
    BY <1>2 DEF Fetch
  <2>2. TypeOK'
    BY <2>1 DEF Inv, TypeOK
  <2> QED
    BY <2>1, <2>2 DEF Inv, MarksKept, LabelsFollowMarks, MarksInStep,
                      OpenedIsCovered, DrawnFromAll, PageIsLoaded, Nobody, NoList
<1>3. CASE connected
  <2>1. /\ list' = NoList
        /\ asked' = [b \in Branch |-> Append(asked[b], who)]
    BY <1>3 DEF Fetch
  <2>2. ASSUME NEW b \in Branch
        PROVE  /\ asked'[b] \in Seq({"page", "other"}) /\ asked'[b] # <<>>
               /\ who = "other" /\ asked[b] \in Seq({"other"})
                    => asked'[b] \in Seq({"other"})
    <3>1. asked'[b] = Append(asked[b], who)
      BY <2>1
    <3>2. asked[b] \in Seq({"page", "other"})
      BY <1>1
    <3>3. asked'[b] \in Seq({"page", "other"}) /\ asked'[b] # <<>>
      BY <3>1, <3>2, AppendProperties
    <3>4. ASSUME who = "other", asked[b] \in Seq({"other"})
          PROVE  asked'[b] \in Seq({"other"})
      BY <3>1, <3>4, AppendProperties
    <3> QED
      BY <3>3, <3>4
  <2>3. asked' \in [Branch -> Seq({"page", "other"})]
    BY <2>1, <2>2
  <2>4. list' \in [Branch -> SUBSET Article]
    BY <2>1 DEF NoList
  <2>5. TypeOK'
    BY <2>3, <2>4 DEF Inv, TypeOK
  <2>6. PageIsLoaded'
    <3> SUFFICES ASSUME ~loaded', NEW b \in Branch
                 PROVE  asked'[b] \in Seq({"other"})
      BY DEF PageIsLoaded
    <3>1. ~loaded /\ who = "other"
      OBVIOUS
    <3> QED
      BY <2>2, <3>1 DEF Inv, PageIsLoaded
  <2>7. OpenedIsCovered'
    <3>1. opened' \subseteq Article
      BY DEF Inv, TypeOK
    <3> QED
      BY <2>2, <3>1, BranchAssumption DEF OpenedIsCovered
  <2> QED
    BY <2>5, <2>6, <2>7 DEF Inv, MarksKept, LabelsFollowMarks, MarksInStep,
                            DrawnFromAll
<1> QED
  BY <1>2, <1>3

\* A drawing, by an answer or a filter, takes up all marks that are stored.
LEMMA GenerateInv ==
  ASSUME Inv, loaded, alive, UNCHANGED <<alive, loaded, server, stored, opened,
                                         hasty>>,
         NEW chosen, chosen = filters', filters' \subseteq Branch,
         asked' \in [Branch -> Seq({"page", "other"})],
         list' \in [Branch -> SUBSET Article],
         OpenedIsCovered', GenerateBulletin(list', asked', chosen)
  PROVE  Inv'
<1>1. InSome(list') \subseteq Article
  BY DEF InSome
<1>2. CASE InSome(list') = {}
  <2>1. UNCHANGED <<total, buttons, fresh, read, partial>>
    BY <1>2 DEF GenerateBulletin, pageVars
  <2>2. TypeOK'
    BY <2>1 DEF Inv, TypeOK
  <2> QED
    BY <2>1, <2>2 DEF Inv, MarksKept, LabelsFollowMarks, MarksInStep,
                      DrawnFromAll, PageIsLoaded
<1>3. CASE InSome(list') # {}
  <2>1. /\ total' = InSome(list') /\ read' = stored
        /\ buttons' = FilterArticles(total', chosen)
        /\ fresh' = buttons' \ stored
        /\ partial' = (asked' # Nobody)
    BY <1>3 DEF GenerateBulletin, LoadBullPref, Draw
  <2>2. buttons' \subseteq total'
    BY <2>1 DEF FilterArticles
  <2>3. partial' \in BOOLEAN
    BY <2>1
  <2>4. TypeOK'
    BY <1>1, <2>1, <2>2, <2>3 DEF Inv, TypeOK
  <2>5. DrawnFromAll'
    <3> SUFFICES ASSUME ~partial' PROVE opened' \subseteq total'
      BY DEF DrawnFromAll
    <3>1. asked' = Nobody
      BY <2>1
    <3>2. \A a \in opened' : a \in list'[BranchOf[a]]
      <4>1. total' # {}
        BY <1>3, <2>1
      <4>2. opened' \subseteq Article
        BY DEF Inv, TypeOK
      <4> QED
        BY <3>1, <4>1, <4>2, BranchAssumption DEF OpenedIsCovered, Nobody
    <3>3. opened' \subseteq Article
      BY DEF Inv, TypeOK
    <3> QED
      BY <2>1, <3>2, <3>3, BranchAssumption DEF InSome
  <2>6. LabelsFollowMarks' /\ MarksInStep' /\ MarksKept'
    BY <2>1 DEF Inv, LabelsFollowMarks, MarksInStep, MarksKept
  <2> QED
    BY <2>4, <2>5, <2>6 DEF Inv, PageIsLoaded
<1> QED
  BY <1>2, <1>3

\* An answer brings all that its branch has, so that no opened article is lost.
LEMMA AnswerInv == ASSUME Inv, NEW b \in Branch, Answer(b) PROVE Inv'
<1>1. /\ asked[b] # <<>> /\ asked' = [asked EXCEPT ![b] = Tail(asked[b])]
      /\ list' = [list EXCEPT ![b] = {a \in server : BranchOf[a] = b}]
      /\ UNCHANGED <<alive, loaded, server, stored, filters, opened, hasty>>
  BY DEF Answer
<1>2. /\ asked \in [Branch -> Seq({"page", "other"})]
      /\ list \in [Branch -> SUBSET Article]
      /\ server \subseteq Article /\ opened \subseteq server
  BY DEF Inv, TypeOK
<1>3. Tail(asked[b]) \in Seq({"page", "other"})
      /\ Head(asked[b]) \in {"page", "other"}
  <2>1. asked[b] \in Seq({"page", "other"})
    BY <1>2
  <2> QED
    BY <1>1, <2>1, HeadTailProperties
<1>4. asked' \in [Branch -> Seq({"page", "other"})]
      /\ list' \in [Branch -> SUBSET Article]
  BY <1>1, <1>2, <1>3
<1>5. OpenedIsCovered'
  <2>1. asked # Nobody
    BY <1>1 DEF Nobody
  <2>2. \A a \in opened : a \in list[BranchOf[a]] \/ asked[BranchOf[a]] # <<>>
    BY <2>1 DEF Inv, OpenedIsCovered
  <2>3. ASSUME NEW a \in opened
        PROVE  a \in list'[BranchOf[a]] \/ asked'[BranchOf[a]] # <<>>
    <3>1. BranchOf[a] \in Branch /\ a \in server
      BY <1>2, BranchAssumption
    <3>2. CASE BranchOf[a] = b
      BY <1>1, <1>2, <3>1, <3>2
    <3>3. CASE BranchOf[a] # b
      BY <1>1, <1>2, <2>2, <3>1, <3>3
    <3> QED
      BY <3>2, <3>3
  <2> QED
    BY <1>1, <2>3 DEF OpenedIsCovered
<1>6. CASE Head(asked[b]) = "page"
  <2>1. loaded /\ alive
    <3>1. ASSUME ~loaded PROVE FALSE
      <4>1. asked[b] \in Seq({"other"})
        BY <3>1 DEF Inv, PageIsLoaded
      <4>2. Head(asked[b]) = "other"
        BY <1>1, <4>1, HeadTailProperties
      <4> QED
        BY <1>6, <4>2
    <3> QED
      BY <3>1 DEF Inv, TypeOK
  <2>2. GenerateBulletin(list', asked', filters')
    BY <1>1, <1>6 DEF Answer
  <2>3. filters' \subseteq Branch
    BY <1>1 DEF Inv, TypeOK
  <2> QED
    BY <1>1, <1>4, <1>5, <2>1, <2>2, <2>3, GenerateInv
<1>7. CASE Head(asked[b]) # "page"
  <2>1. UNCHANGED <<total, buttons, fresh, read, partial>>
    BY <1>7 DEF Answer, pageVars
  <2>2. TypeOK'
    BY <1>1, <1>4, <2>1 DEF Inv, TypeOK
  <2>3. PageIsLoaded'
    <3> SUFFICES ASSUME ~loaded', NEW c \in Branch
                 PROVE  asked'[c] \in Seq({"other"})
      BY DEF PageIsLoaded
    <3>1. asked[b] \in Seq({"other"}) /\ asked[c] \in Seq({"other"})
      BY <1>1 DEF Inv, PageIsLoaded
    <3>2. Tail(asked[b]) \in Seq({"other"})
      BY <1>1, <3>1, HeadTailProperties
    <3> QED
      BY <1>1, <1>2, <3>1, <3>2
  <2> QED
    BY <1>1, <1>5, <2>1, <2>2, <2>3
    DEF Inv, MarksKept, LabelsFollowMarks, MarksInStep, DrawnFromAll
<1> QED
  BY <1>6, <1>7

LEMMA AddFilterInv == ASSUME Inv, NEW b \in Branch, AddFilter(b) PROVE Inv'
<1>1. /\ loaded /\ alive
      /\ filters' = IF b \in filters THEN filters \ {b} ELSE filters \cup {b}
      /\ GenerateBulletin(list', asked', filters')
      /\ UNCHANGED <<alive, loaded, server, asked, list, stored, opened, hasty>>
  BY DEF AddFilter, Inv, TypeOK
<1>2. filters' \subseteq Branch
  BY <1>1 DEF Inv, TypeOK
<1>3. asked' \in [Branch -> Seq({"page", "other"})]
      /\ list' \in [Branch -> SUBSET Article]
  BY <1>1 DEF Inv, TypeOK
<1>4. OpenedIsCovered'
  <2>1. CASE \A a \in opened : a \in list[BranchOf[a]]
                                 \/ asked[BranchOf[a]] # <<>>
    BY <1>1, <2>1 DEF OpenedIsCovered
  <2>2. CASE list = NoList /\ asked = Nobody /\ total = {}
    <3>1. InSome(list') = {}
      BY <1>1, <2>2 DEF InSome, NoList
    <3>2. total' = total
      BY <1>1, <3>1 DEF GenerateBulletin, pageVars
    <3> QED
      BY <1>1, <2>2, <3>2 DEF OpenedIsCovered, NoList, Nobody
  <2> QED
    BY <2>1, <2>2 DEF Inv, OpenedIsCovered
<1> QED
  BY <1>1, <1>2, <1>3, <1>4, GenerateInv

-----------------------------------------------------------------------------
(* Opening an article *)

\* Saving drops the marks of articles not drawn last; without a fetch under way
\* at that drawing none of them is owed one.
LEMMA OpenArticleInv == ASSUME Inv, NEW a \in Article, OpenArticle(a) PROVE Inv'
<1>1. /\ a \in buttons /\ buttons \subseteq total
      /\ UNCHANGED <<alive, loaded, server, asked, list, total, buttons, filters,
                     partial>>
  BY DEF OpenArticle, Inv, TypeOK
<1>2. total # {}
  BY <1>1
<1>3. \A c \in opened : c \in list[BranchOf[c]] \/ asked[BranchOf[c]] # <<>>
  BY <1>2 DEF Inv, OpenedIsCovered
<1>4. /\ opened' \in {opened, opened \cup {a}} /\ opened' \subseteq server
      /\ \A c \in opened' : c \in list[BranchOf[c]] \/ asked[BranchOf[c]] # <<>>
  BY <1>3 DEF OpenArticle, Inv, TypeOK
<1>5. OpenedIsCovered'
  BY <1>1, <1>4 DEF OpenedIsCovered
<1>6. ~partial => opened \subseteq total /\ opened' \subseteq total
  BY <1>1, <1>2, <1>4 DEF Inv, DrawnFromAll
<1>7. DrawnFromAll'
  BY <1>1, <1>6 DEF DrawnFromAll
<1>8. PageIsLoaded'
  BY <1>1 DEF Inv, PageIsLoaded
<1>9. CASE a \in read
  <2>1. UNCHANGED <<read, stored, fresh, hasty>>
    BY <1>9 DEF OpenArticle
  <2>2. a \in stored
    BY <1>1, <1>9 DEF Inv, MarksInStep
  <2>3. TypeOK'
    BY <1>1, <1>4, <2>1 DEF Inv, TypeOK
  <2>4. MarksKept' /\ LabelsFollowMarks' /\ MarksInStep'
    BY <1>1, <1>4, <2>1, <2>2 DEF Inv, MarksKept, LabelsFollowMarks, MarksInStep
  <2> QED
    BY <1>5, <1>7, <1>8, <2>3, <2>4 DEF Inv
<1>10. CASE a \notin read
  <2>1. /\ read' = read \cup {a} /\ stored' = (read \cup {a}) \cap total
        /\ fresh' = fresh \ {a} /\ hasty' = (hasty \/ partial)
    BY <1>10 DEF OpenArticle, SaveBullPref
  <2>2. hasty' \in BOOLEAN
    BY <2>1
  <2>3. TypeOK'
    BY <1>1, <1>4, <2>1, <2>2 DEF Inv, TypeOK
  <2>4. MarksInStep'
    BY <1>1, <2>1 DEF MarksInStep
  <2>5. LabelsFollowMarks'
    <3>1. stored' = (stored \cap total) \cup {a}
      BY <1>1, <2>1 DEF Inv, MarksInStep
    <3> QED
      BY <1>1, <2>1, <3>1 DEF Inv, LabelsFollowMarks
  <2>6. MarksKept'
    <3> SUFFICES ASSUME ~hasty' PROVE opened' \subseteq stored'
      BY DEF MarksKept
    <3>1. ~hasty /\ ~partial
      BY <2>1
    <3>2. opened \subseteq stored \cap total
      BY <1>6, <3>1 DEF Inv, MarksKept
    <3>3. opened \subseteq read \cap total
      BY <3>2 DEF Inv, MarksInStep
    <3> QED
      BY <1>1, <1>4, <2>1, <3>3
  <2> QED
    BY <1>5, <1>7, <1>8, <2>3, <2>4, <2>5, <2>6 DEF Inv
<1> QED
  BY <1>9, <1>10

-----------------------------------------------------------------------------
(* Theorems *)

LEMMA NextInv == ASSUME Inv, [Next]_vars PROVE Inv'
<1>1. CASE Launch
  BY <1>1, LaunchInv
<1>2. CASE Kill
  BY <1>2, KillInv
<1>3. ASSUME NEW S \in SUBSET Article, Publish(S) PROVE Inv'
  BY <1>3, PublishInv
<1>4. ASSUME NEW connected \in BOOLEAN, LoadAllArticles(connected) PROVE Inv'
  <2>1. /\ alive /\ Fetch("other", connected)
        /\ UNCHANGED <<alive, loaded, server, total, buttons, fresh, read,
                       stored, filters, opened, partial, hasty>>
    BY <1>4 DEF LoadAllArticles, pageVars
  <2>2. loaded' \in BOOLEAN
    BY <2>1 DEF Inv, TypeOK
  <2> QED
    BY <2>1, <2>2, FetchInv
<1>5. ASSUME NEW connected \in BOOLEAN, GetBulletinArticleData(connected)
      PROVE  Inv'
  <2>1. /\ alive /\ Fetch("page", connected) /\ loaded' = TRUE
        /\ UNCHANGED <<alive, server, total, buttons, fresh, read, stored,
                       filters, opened, partial, hasty>>
    BY <1>5 DEF GetBulletinArticleData, pageVars
  <2> QED
    BY <2>1, FetchInv
<1>6. ASSUME NEW b \in Branch, Answer(b) PROVE Inv'
  BY <1>6, AnswerInv
<1>7. ASSUME NEW b \in Branch, AddFilter(b) PROVE Inv'
  BY <1>7, AddFilterInv
<1>8. ASSUME NEW a \in Article, OpenArticle(a) PROVE Inv'
  BY <1>8, OpenArticleInv
<1>9. CASE UNCHANGED vars
  BY <1>9
  DEF vars, pageVars, Inv, TypeOK, MarksKept, LabelsFollowMarks, MarksInStep,
      OpenedIsCovered, DrawnFromAll, PageIsLoaded, Nobody, NoList
<1> QED
  BY <1>1, <1>2, <1>3, <1>4, <1>5, <1>6, <1>7, <1>8, <1>9 DEF Next

LEMMA InvAlways == Spec => []Inv
<1>1. Init => Inv
  BY InitInv
<1>2. Inv /\ [Next]_vars => Inv'
  BY NextInv
<1> QED
  BY <1>1, <1>2, PTL DEF Spec

\* Every state of the bulletin is well formed; the page has buttons only of
\* articles it was drawn from, and only once it is loaded (generateBulletin).
THEOREM TypeCorrect == Spec => []TypeOK
<1>1. Inv => TypeOK
  BY DEF Inv
<1> QED
  BY <1>1, InvAlways, PTL

\* Although saveBullPref drops the marks of all articles the page was not drawn
\* from, the mark of an opened article stays as long as it is published, unless
\* something was opened on a page drawn while a fetch was under way.
THEOREM MarksAlwaysKept == Spec => []MarksKept
<1>1. Inv => MarksKept
  BY DEF Inv
<1> QED
  BY <1>1, InvAlways, PTL

\* The New labels are those of the buttons without a stored mark, at all times:
\* also between saveBullPref and the next generateBulletin.
THEOREM LabelsAlwaysFollow == Spec => []LabelsFollowMarks
<1>1. Inv => LabelsFollowMarks
  BY DEF Inv
<1> QED
  BY <1>1, InvAlways, PTL
=============================================================================
