----------------------- MODULE SettingsScreensProofs -----------------------
(***************************************************************************)
(* Proofs about SettingsScreens, for every set of topics and sizes and any *)
(* number of screens: what the two calls of Settings.java make of the      *)
(* preferences, that ALL and the topics agree after every step, and that   *)
(* going back changes nothing.                                             *)
(***************************************************************************)
EXTENDS SettingsScreens, TLAPS

\* Preferences with the mandatory topic in which ALL agrees with the topics.
Agreeing(p) ==
  /\ p \subseteq Flag /\ Mandatory \in p
  /\ All \in p <=> Option \subseteq p

\* updateAllSetting leaves ALL and the topics in agreement, whatever it is asked
\* for: there is a topic besides the mandatory one to tell "all" from "none".
LEMMA UpdateAllAgrees ==
  ASSUME NEW p, Agreeing(p), NEW new \in BOOLEAN
  PROVE  Agreeing(UpdateAllSetting(p, new))
<1>1. CASE (All \in p) = new
  BY <1>1 DEF UpdateAllSetting
<1>2. CASE (All \in p) # new /\ new
  BY <1>2, ScreenOptions DEF UpdateAllSetting, Agreeing, Flag
<1>3. CASE (All \in p) # new /\ ~new
  <2>1. PICK o \in Option : o # Mandatory
    BY ScreenOptions
  <2>2. UpdateAllSetting(p, new) = p \ (Flag \ {Mandatory})
    BY <1>3 DEF UpdateAllSetting
  <2> QED
    BY <2>1, <2>2, ScreenOptions, AllIsNoOption DEF Agreeing, Flag
<1> QED
  BY <1>1, <1>2, <1>3

\* So does updateNotifSettings, for a topic the user can switch.
LEMMA UpdateNotifAgrees ==
  ASSUME NEW p, Agreeing(p), NEW o \in Option \ {Mandatory}, NEW new \in BOOLEAN
  PROVE  Agreeing(UpdateNotifSettings(p, o, new))
<1> DEFINE q == Put(p, o, new)
<1>0. o # All /\ o # Mandatory /\ o \in Flag /\ All \in Flag /\ All # Mandatory
  BY AllIsNoOption, ScreenOptions DEF Flag
<1>1. /\ q \subseteq Flag /\ Mandatory \in q
      /\ All \in q <=> All \in p
  BY <1>0 DEF Put, Agreeing
<1>2. CASE (o \in p) = new
  BY <1>2 DEF UpdateNotifSettings
<1>3. CASE (o \in p) # new /\ new = (All \in p)
  <2>1. UpdateNotifSettings(p, o, new) = q
    BY <1>3 DEF UpdateNotifSettings
  <2>2. CASE new
    BY <1>3, <2>2 DEF Agreeing
  <2>3. CASE ~new
    BY <1>1, <1>3, <2>1, <2>3 DEF Put, Agreeing
  <2> QED
    BY <2>2, <2>3
<1>4. CASE (o \in p) # new /\ new # (All \in p)
  <2>1. UpdateNotifSettings(p, o, new) = Put(q, All, All \notin p /\ Option \subseteq q)
    BY <1>4 DEF UpdateNotifSettings
  <2>2. CASE new
    BY <1>0, <1>1, <1>4, <2>1, <2>2, AllIsNoOption DEF Put, Agreeing
  <2>3. CASE ~new
    BY <1>0, <1>1, <1>4, <2>1, <2>3, AllIsNoOption DEF Put, Agreeing
  <2> QED
    BY <2>2, <2>3
<1> QED
  BY <1>2, <1>3, <1>4

PrefsAgree == Agreeing(prefs)

\* The preferences agree after every step, whatever the screens show.
LEMMA NextAgrees == PrefsAgree /\ [Next]_vars => PrefsAgree'
<1> SUFFICES ASSUME Agreeing(prefs), [Next]_vars PROVE Agreeing(prefs')
  BY DEF PrefsAgree
<1>1. CASE OpenSettings \/ OpenTopics \/ Destroy \/ UNCHANGED vars
  BY <1>1 DEF OpenSettings, OpenTopics, Destroy, vars
<1>2. CASE TapAll
  <2>1. prefs' = UpdateAllSetting(prefs, All \notin Top.on)
    BY <1>2 DEF TapAll, Show
  <2> QED
    BY <2>1, UpdateAllAgrees
<1>3. ASSUME NEW o \in Option \ {Mandatory}, TapTopic(o) PROVE Agreeing(prefs')
  <2>1. prefs' = UpdateNotifSettings(prefs, o, o \notin Top.on)
    BY <1>3 DEF TapTopic
  <2> QED
    BY <2>1, UpdateNotifAgrees
<1>4. ASSUME NEW s \in Size, TapSize(s) PROVE Agreeing(prefs')
  BY <1>4 DEF TapSize, Show
<1>5. CASE Close
  <2>1. ASSUME NEW scr PROVE ResultListener(scr) = prefs
    BY DEF ResultListener, UpdateAllSetting
  <2>2. prefs' = prefs
    BY <1>5, <2>1 DEF Close
  <2> QED
    BY <2>2
<1>6. CASE Rebuild
  <2>1. prefs' = Restored(Top)
    BY <1>6 DEF Rebuild, Show
  <2>2. CASE Top.kind # "topics"
    <3>1. prefs' = UpdateAllSetting(prefs, All \in Top.on)
      BY <2>1, <2>2 DEF Restored
    <3>2. \A new \in BOOLEAN : Agreeing(UpdateAllSetting(prefs, new))
      BY UpdateAllAgrees
    <3>3. (All \in Top.on) \in BOOLEAN
      OBVIOUS
    <3> QED
      BY <3>1, <3>2, <3>3, Zenon
  <2> QED
    BY <2>1, <2>2 DEF Restored
<1> QED
  BY <1>1, <1>2, <1>3, <1>4, <1>5, <1>6 DEF Next

\* ALL is on exactly when every topic is, in every behaviour of the screens:
\* also when a rebuilt screen stores the old value of its box.
THEOREM AllAlwaysAgrees == Spec => []AllAgrees
<1>1. Init => PrefsAgree
  BY ScreenOptions DEF Init, PrefsAgree, Agreeing, Flag
<1>2. PrefsAgree => AllAgrees
  BY DEF PrefsAgree, Agreeing, AllAgrees
<1> QED
  BY <1>1, <1>2, NextAgrees, PTL DEF Spec

-----------------------------------------------------------------------------
(* The screens *)

\* The screens under the visible one.
LEMMA BelowSeq ==
  ASSUME screens \in Seq(Screen), Len(screens) \in 1 .. MaxScreens
  PROVE  /\ Below \in Seq(Screen) /\ Len(Below) = Len(screens) - 1
         /\ \A i \in 1 .. Len(Below) : Below[i] = screens[i]
         /\ Top \in Screen
<1>1. Len(screens) \in Nat /\ Len(screens) > 0
  BY MaxScreensAssumption
<1>2. Top \in Screen
  BY <1>1 DEF Top
<1>3. Below = [i \in 1 .. Len(screens) - 1 |-> screens[i]]
  BY <1>1 DEF Below
<1>4. \A i \in 1 .. Len(screens) - 1 : screens[i] \in Screen
  BY <1>1
<1> QED
  BY <1>1, <1>2, <1>3, <1>4

\* Outdating them keeps them a sequence of screens, each changed in stale only.
LEMMA OutdateSeq ==
  ASSUME NEW c \in Seq(Screen), NEW p, NEW s
  PROVE  /\ Outdate(c, p, s) \in Seq(Screen) /\ Len(Outdate(c, p, s)) = Len(c)
         /\ \A i \in 1 .. Len(c) :
              Outdate(c, p, s)[i] = [c[i] EXCEPT !.stale = @ \cup Changed(p, s)]
<1>1. \A i \in 1 .. Len(c) : c[i] \in Screen
  OBVIOUS
<1>2. Changed(p, s) \in SUBSET {"all", "size"}
  BY DEF Changed
<1>3. \A scr \in Screen : [scr EXCEPT !.stale = @ \cup Changed(p, s)] \in Screen
  BY <1>2 DEF Screen
<1>4. Outdate(c, p, s) = [i \in 1 .. Len(c) |-> [c[i] EXCEPT !.stale = @ \cup Changed(p, s)]]
  BY DEF Outdate
<1>5. \A i \in 1 .. Len(c) : [c[i] EXCEPT !.stale = @ \cup Changed(p, s)] \in Screen
  BY <1>1, <1>3
<1> QED
  BY <1>4, <1>5

LEMMA FreshScreen ==
  ASSUME NEW kind \in {"settings", "topics"}, NEW p, NEW s \in Size
  PROVE  Fresh(kind, p, s) \in Screen /\ Fresh(kind, p, s).on \subseteq Boxes(kind)
BY DEF Fresh, Screen, Boxes, Flag

\* What TypeOK says of the screens.
Stacked(q) ==
  /\ q \in Seq(Screen) /\ Len(q) \in 1 .. MaxScreens
  /\ \A i \in DOMAIN q : /\ q[i].on \subseteq Boxes(q[i].kind)
                         /\ q[i].kind = "topics" => i = Len(q) /\ i > 1

\* Only settings screens are covered.
Covered(c) ==
  /\ c \in Seq(Screen)
  /\ \A i \in 1 .. Len(c) : c[i].kind = "settings" /\ c[i].on \subseteq Boxes("settings")

LEMMA StackedBelow ==
  ASSUME Stacked(screens)
  PROVE  /\ Covered(Below) /\ Len(Below) = Len(screens) - 1
         /\ Top \in Screen /\ Top.on \subseteq Boxes(Top.kind)
         /\ Top.kind = "topics" => Len(screens) > 1
<1>1. screens \in Seq(Screen) /\ Len(screens) \in 1 .. MaxScreens /\ Len(screens) \in DOMAIN screens
  BY MaxScreensAssumption DEF Stacked
<1>2. \A i \in 1 .. Len(Below) : i \in DOMAIN screens /\ i # Len(screens)
  BY <1>1, BelowSeq
<1>3. \A scr \in Screen : scr.kind \in {"settings", "topics"}
  BY DEF Screen
<1>4. Below \in Seq(Screen) /\ \A i \in 1 .. Len(Below) : Below[i] = screens[i] /\ Below[i] \in Screen
  BY <1>1, BelowSeq
<1>5. ASSUME NEW i \in DOMAIN screens
      PROVE  /\ screens[i].on \subseteq Boxes(screens[i].kind)
             /\ screens[i].kind = "topics" => i = Len(screens) /\ i > 1
  BY <1>5 DEF Stacked
<1>6. Top.on \subseteq Boxes(Top.kind) /\ (Top.kind = "topics" => Len(screens) > 1)
  <2> DEFINE n == Len(screens)
  <2>1. n \in DOMAIN screens
    BY <1>1
  <2>2. screens[n].on \subseteq Boxes(screens[n].kind) /\ (screens[n].kind = "topics" => n > 1)
    BY <2>1, <1>5, Zenon
  <2> QED
    BY <2>2 DEF Top
<1>7. ASSUME NEW i \in 1 .. Len(Below)
      PROVE  Below[i].kind = "settings" /\ Below[i].on \subseteq Boxes("settings")
  <2>1. i \in DOMAIN screens /\ i # Len(screens) /\ Below[i] = screens[i] /\ Below[i] \in Screen
    BY <1>2, <1>4
  <2>2. Below[i].kind = "settings"
    BY <2>1, <1>3, <1>5
  <2> QED
    BY <2>1, <2>2, <1>5
<1> QED
  BY <1>1, <1>4, <1>6, <1>7, BelowSeq DEF Covered

LEMMA StackedAppend ==
  ASSUME NEW c, Covered(c), Len(c) < MaxScreens,
         NEW scr \in Screen, scr.on \subseteq Boxes(scr.kind),
         scr.kind = "topics" => Len(c) > 0
  PROVE  Stacked(Append(c, scr))
<1> DEFINE q == Append(c, scr)
<1>1. q \in Seq(Screen) /\ Len(q) = Len(c) + 1 /\ Len(c) \in Nat
  BY DEF Covered
<1>2. \A i \in 1 .. Len(q) : q[i] = IF i = Len(q) THEN scr ELSE c[i]
  BY <1>1 DEF Covered
<1>3. Len(q) \in 1 .. MaxScreens
  BY <1>1, MaxScreensAssumption
<1> HIDE DEF q
<1>4. ASSUME NEW i \in DOMAIN q
      PROVE  q[i].on \subseteq Boxes(q[i].kind) /\ (q[i].kind = "topics" => i = Len(q) /\ i > 1)
  <2>1. CASE i = Len(q)
    BY <1>1, <1>2, <1>3, <2>1
  <2>2. CASE i # Len(q)
    <3>1. i \in 1 .. Len(c) /\ q[i] = c[i]
      BY <1>1, <1>2, <2>2
    <3> QED
      BY <3>1 DEF Covered
  <2> QED
    BY <2>1, <2>2
<1> QED
  BY <1>1, <1>3, <1>4 DEF Stacked, q

LEMMA CoveredOutdate ==
  ASSUME NEW c, Covered(c), NEW p, NEW s
  PROVE  Covered(Outdate(c, p, s)) /\ Len(Outdate(c, p, s)) = Len(c)
<1>1. c \in Seq(Screen)
  BY DEF Covered
<1>2. \A i \in 1 .. Len(c) : /\ Outdate(c, p, s)[i].kind = c[i].kind
                             /\ Outdate(c, p, s)[i].on = c[i].on
  <2>1. \A scr \in Screen : \A T : /\ [scr EXCEPT !.stale = T].kind = scr.kind
                                   /\ [scr EXCEPT !.stale = T].on = scr.on
    BY DEF Screen
  <2> SUFFICES ASSUME NEW i \in 1 .. Len(c)
               PROVE  /\ Outdate(c, p, s)[i].kind = c[i].kind
                      /\ Outdate(c, p, s)[i].on = c[i].on
    OBVIOUS
  <2>2. c[i] \in Screen
    BY <1>1
  <2>3. Outdate(c, p, s)[i] = [c[i] EXCEPT !.stale = c[i].stale \cup Changed(p, s)]
    BY <1>1, OutdateSeq
  <2> QED
    BY <2>1, <2>2, <2>3
<1> QED
  BY <1>1, <1>2, OutdateSeq DEF Covered

-----------------------------------------------------------------------------
(* Types *)

TypeInv == size \in Size /\ Stacked(screens)

\* A step that outdates the covered screens and shows one of the same kind.
LEMMA ReplaceTop ==
  ASSUME TypeInv, NEW scr \in Screen, NEW p, NEW s,
         scr.on \subseteq Boxes(scr.kind), scr.kind \in {"settings", Top.kind}
  PROVE  Stacked(Append(Outdate(Below, p, s), scr))
<1>1. /\ Covered(Below) /\ Len(Below) = Len(screens) - 1
      /\ Len(screens) \in 1 .. MaxScreens
      /\ Top.kind = "topics" => Len(screens) > 1
  BY StackedBelow DEF TypeInv, Stacked
<1>2. Covered(Outdate(Below, p, s)) /\ Len(Outdate(Below, p, s)) = Len(Below)
  BY <1>1, CoveredOutdate
<1>3. Len(Below) < MaxScreens /\ (scr.kind = "topics" => Len(Below) > 0)
  BY <1>1, MaxScreensAssumption
<1> QED
  BY <1>2, <1>3, StackedAppend

LEMMA PushType ==
  ASSUME TypeInv, Top.kind = "settings", Len(screens) < MaxScreens,
         NEW kind \in {"settings", "topics"}
  PROVE  Stacked(Append(screens, Fresh(kind, prefs, size)))
<1>1. /\ screens \in Seq(Screen) /\ Len(screens) \in 1 .. MaxScreens
      /\ \A i \in DOMAIN screens : /\ screens[i].on \subseteq Boxes(screens[i].kind)
                                   /\ screens[i].kind = "topics" => i = Len(screens)
      /\ \A i \in DOMAIN screens : screens[i] \in Screen
  BY DEF TypeInv, Stacked
<1>2. \A scr \in Screen : scr.kind \in {"settings", "topics"}
  BY DEF Screen
<1>3. \A i \in DOMAIN screens : screens[i].kind = "settings"
  BY <1>1, <1>2 DEF Top
<1>4. Covered(screens)
  BY <1>1, <1>3 DEF Covered
<1>5. Fresh(kind, prefs, size) \in Screen
      /\ Fresh(kind, prefs, size).on \subseteq Boxes(Fresh(kind, prefs, size).kind)
  BY FreshScreen DEF TypeInv, Fresh
<1>6. Len(screens) > 0
  BY <1>1, MaxScreensAssumption
<1> QED
  BY <1>4, <1>5, <1>6, StackedAppend

LEMMA StackedCovered ==
  ASSUME NEW c, Covered(c), Len(c) \in 1 .. MaxScreens
  PROVE  Stacked(c)
<1>1. \A i \in DOMAIN c : c[i].kind = "settings" /\ c[i].on \subseteq Boxes("settings")
  BY DEF Covered
<1> QED
  BY <1>1 DEF Covered, Stacked

LEMMA TapAllType == ASSUME TypeInv, TapAll PROVE TypeInv'
<1> DEFINE new == All \notin Top.on
           scr == [Top EXCEPT !.on = Put(@, All, new), !.stale = @ \ {"all"}]
<1>1. Top \in Screen /\ Top.on \subseteq Boxes(Top.kind) /\ Top.kind = "settings"
  BY StackedBelow DEF TypeInv, TapAll
<1>3. scr \in Screen /\ scr.kind = Top.kind /\ scr.on \subseteq Boxes(Top.kind)
  BY <1>1 DEF Boxes, Flag, Put, Screen
<1>4. size' = size /\ screens' = Append(Outdate(Below, UpdateAllSetting(prefs, new), size), scr)
  BY DEF TapAll, Show
<1> HIDE DEF scr
<1> QED
  BY <1>3, <1>4, ReplaceTop DEF TypeInv

\* The screen under the topics screen, which is not outdated.
Waiter(c, p) ==
  [Outdate(c, p, size) EXCEPT ![Len(screens) - 1] = screens[Len(screens) - 1]]

LEMMA WaiterCovered ==
  ASSUME TypeInv, Len(screens) > 1, NEW p
  PROVE  Covered(Waiter(Below, p)) /\ Len(Waiter(Below, p)) = Len(screens) - 1
<1> DEFINE o == Outdate(Below, p, size)
           k == Len(screens) - 1
<1>1. Covered(Below) /\ Len(Below) = k /\ k \in 1 .. k /\ Len(screens) \in Nat
  BY StackedBelow, MaxScreensAssumption DEF TypeInv, Stacked
<1>2. Covered(o) /\ Len(o) = k
  BY <1>1, CoveredOutdate
<1>3. Below[k] = screens[k]
  BY <1>1, BelowSeq DEF TypeInv, Stacked
<1> HIDE DEF o, k
<1>4. Below[k] \in Screen /\ Below[k].kind = "settings" /\ Below[k].on \subseteq Boxes("settings")
  BY <1>1 DEF Covered
<1>5. Covered([o EXCEPT ![k] = Below[k]]) /\ Len([o EXCEPT ![k] = Below[k]]) = k
  BY <1>1, <1>2, <1>4 DEF Covered
<1> QED
  BY <1>3, <1>5 DEF Waiter, o, k

LEMMA TapTopicType ==
  ASSUME TypeInv, NEW t \in Option \ {Mandatory}, TapTopic(t) PROVE TypeInv'
<1> DEFINE new == t \notin Top.on
           scr == [Top EXCEPT !.on = Put(@, t, new)]
           p == UpdateNotifSettings(prefs, t, new)
<1>1. /\ Top \in Screen /\ Top.on \subseteq Boxes(Top.kind) /\ Top.kind = "topics"
      /\ Len(screens) > 1 /\ Len(screens) \in 1 .. MaxScreens
  BY StackedBelow DEF TypeInv, TapTopic, Stacked
<1>2. scr \in Screen /\ scr.kind = "topics" /\ scr.on \subseteq Boxes("topics")
  BY <1>1 DEF Boxes, Flag, Put, Screen
<1>3. size' = size /\ screens' = Append(Waiter(Below, p), scr)
  BY DEF TapTopic, Waiter
<1>4. Covered(Waiter(Below, p)) /\ Len(Waiter(Below, p)) = Len(screens) - 1
  BY <1>1, WaiterCovered
<1>5. Len(Waiter(Below, p)) < MaxScreens /\ Len(Waiter(Below, p)) > 0
  BY <1>1, <1>4, MaxScreensAssumption
<1> HIDE DEF scr, p
<1> QED
  BY <1>2, <1>3, <1>4, <1>5, StackedAppend DEF TypeInv

LEMMA TapSizeType == ASSUME TypeInv, NEW s \in Size, TapSize(s) PROVE TypeInv'
<1> DEFINE scr == IF s = size THEN [Top EXCEPT !.size = s, !.stale = @ \ {"size"}]
                              ELSE Run(s)
<1>1. Top \in Screen /\ Top.on \subseteq Boxes(Top.kind) /\ Top.kind = "settings"
  BY StackedBelow DEF TypeInv, TapSize
<1>2. Run(s) \in Screen /\ Run(s).kind = "settings" /\ Run(s).on \subseteq Boxes("settings")
  BY FreshScreen DEF Run, Fresh
<1>3. scr \in Screen /\ scr.kind = "settings" /\ scr.on \subseteq Boxes(scr.kind)
  BY <1>1, <1>2 DEF Screen
<1>4. size' = s /\ screens' = Append(Outdate(Below, prefs, s), scr)
  BY DEF TapSize, Show
<1> HIDE DEF scr
<1> QED
  BY <1>3, <1>4, ReplaceTop DEF TypeInv

LEMMA RebuildType == ASSUME TypeInv, Rebuild PROVE TypeInv'
<1> DEFINE p == Restored(Top)
           s == IF Top.kind = "topics" THEN size ELSE Top.size
           scr == IF Top.size = size \/ Top.kind = "topics"
                    THEN [Top EXCEPT !.gone = FALSE, !.stale = {}]
                    ELSE Fresh("settings", p, Top.size)
<1>1. Top \in Screen /\ Top.on \subseteq Boxes(Top.kind) /\ Top.size \in Size /\ s \in Size
  BY StackedBelow DEF TypeInv, Screen
<1>4. /\ scr \in Screen /\ scr.kind \in {"settings", Top.kind}
      /\ scr.on \subseteq Boxes(scr.kind)
  <2>1. CASE Top.size = size \/ Top.kind = "topics"
    BY <1>1, <2>1 DEF Screen
  <2>2. CASE ~(Top.size = size \/ Top.kind = "topics")
    <3>1. /\ Fresh("settings", p, Top.size) \in Screen
          /\ Fresh("settings", p, Top.size).on \subseteq Boxes("settings")
      BY <1>1, FreshScreen
    <3>2. Fresh("settings", p, Top.size).kind = "settings"
      BY DEF Fresh
    <3> QED
      BY <2>2, <3>1, <3>2
  <2> QED
    BY <2>1, <2>2
<1>5. size' = s /\ screens' = Append(Outdate(Below, p, s), scr)
  BY DEF Rebuild, Show
<1> HIDE DEF scr, s, p
<1> QED
  BY <1>1, <1>4, <1>5, ReplaceTop DEF TypeInv

LEMMA CloseType == ASSUME TypeInv, Close PROVE TypeInv'
<1> DEFINE k == Len(screens) - 1
<1>1. /\ Covered(Below) /\ Len(Below) = k /\ k \in 1 .. MaxScreens /\ size' = size
      /\ Below[k] = screens[k]
  BY StackedBelow, BelowSeq, MaxScreensAssumption DEF TypeInv, Stacked, Close
<1>2. Below[k] \in Screen /\ Below[k].kind = "settings"
  BY <1>1 DEF Covered
<1>3. CASE screens' = Below
  BY <1>1, <1>3, StackedCovered DEF TypeInv
<1>4. CASE screens' = [Below EXCEPT ![k] = ActivityResult(screens[k])]
  <2> DEFINE scr == ActivityResult(screens[k])
  <2>1. scr \in Screen /\ scr.kind = "settings" /\ scr.on \subseteq Boxes("settings")
    BY <1>1, <1>2 DEF ActivityResult, Screen, Boxes, Flag
  <2> HIDE DEF scr
  <2>2. Covered([Below EXCEPT ![k] = scr]) /\ Len([Below EXCEPT ![k] = scr]) = k
    BY <1>1, <2>1 DEF Covered
  <2> QED
    BY <1>1, <1>4, <2>2, StackedCovered DEF TypeInv, scr
<1> QED
  BY <1>3, <1>4 DEF Close

LEMMA DestroyType == ASSUME TypeInv, Destroy PROVE TypeInv'
<1>1. screens \in Seq(Screen) /\ Len(screens) \in 1 .. MaxScreens
  BY DEF TypeInv, Stacked
<1>2. screens' = [i \in 1 .. Len(screens) |-> [screens[i] EXCEPT !.gone = TRUE]]
  BY <1>1 DEF Destroy
<1>3. \A i \in 1 .. Len(screens) : screens[i] \in Screen
  BY <1>1
<1>4. \A scr \in Screen : /\ [scr EXCEPT !.gone = TRUE] \in Screen
                          /\ [scr EXCEPT !.gone = TRUE].kind = scr.kind
                          /\ [scr EXCEPT !.gone = TRUE].on = scr.on
  BY DEF Screen
<1>5. screens' \in Seq(Screen) /\ Len(screens') = Len(screens)
  BY <1>1, <1>2, <1>3, <1>4
<1>6. \A i \in DOMAIN screens' :
        /\ i \in DOMAIN screens
        /\ screens'[i].kind = screens[i].kind /\ screens'[i].on = screens[i].on
  <2> SUFFICES ASSUME NEW i \in 1 .. Len(screens)
               PROVE  screens'[i].kind = screens[i].kind /\ screens'[i].on = screens[i].on
    BY <1>1, <1>2
  <2>1. screens'[i] = [screens[i] EXCEPT !.gone = TRUE] /\ screens[i] \in Screen
    BY <1>2, <1>3
  <2> QED
    BY <2>1, <1>4
<1> QED
  BY <1>1, <1>5, <1>6 DEF TypeInv, Stacked, Destroy

LEMMA NextType == TypeInv /\ [Next]_vars => TypeInv'
<1> SUFFICES ASSUME TypeInv, [Next]_vars PROVE TypeInv'
  OBVIOUS
<1>1. CASE OpenSettings
  BY <1>1, PushType DEF OpenSettings, TypeInv
<1>2. CASE OpenTopics
  BY <1>2, PushType DEF OpenTopics, TypeInv
<1>3. CASE UNCHANGED vars
  BY <1>3 DEF vars, TypeInv
<1> QED
  BY <1>1, <1>2, <1>3, TapAllType, TapTopicType, TapSizeType, CloseType, DestroyType,
     RebuildType DEF Next

LEMMA InitType == Init => TypeInv
<1> SUFFICES ASSUME Init PROVE TypeInv
  OBVIOUS
<1> DEFINE scr == Fresh("settings", prefs, size)
<1>1. size \in Size /\ screens = Append(<<>>, scr)
  BY ScreenSizes DEF Init
<1>2. scr \in Screen /\ scr.on \subseteq Boxes("settings") /\ scr.kind = "settings"
  BY <1>1, FreshScreen DEF Fresh
<1> HIDE DEF scr
<1>3. Covered(<<>>) /\ Len(<<>>) < MaxScreens
  BY MaxScreensAssumption DEF Covered
<1> QED
  BY <1>1, <1>2, <1>3, StackedAppend DEF TypeInv

\* The types, and that a topics screen stands on top of the settings screen that
\* waits for its result, for any number of screens.
THEOREM TypeCorrect == Spec => []TypeOK
<1>1. Init => PrefsAgree
  BY ScreenOptions DEF Init, PrefsAgree, Agreeing, Flag
<1>2. PrefsAgree /\ TypeInv => TypeOK
  BY DEF PrefsAgree, Agreeing, TypeInv, Stacked, TypeOK
<1> QED
  BY <1>1, <1>2, InitType, NextAgrees, NextType, PTL DEF Spec

-----------------------------------------------------------------------------
(* What the screens show *)

\* What ShownIsStored says of the visible screen, for every screen that is
\* there, so that it holds again when the ones above have been left.  A settings
\* screen under the topics screen is let off its box until it gets the result.
Shown(scr, p, s, waits) ==
  /\ scr.kind = "topics" => scr.on = p \cap Boxes("topics")
  /\ scr.kind = "settings" /\ ~scr.gone =>
       /\ "all" \notin scr.stale /\ ~waits => scr.on = p \cap {All}
       /\ "size" \notin scr.stale => scr.size = s

Waits(i) == i = Len(screens) - 1 /\ Top.kind = "topics"

AllShown == \A i \in DOMAIN screens : Shown(screens[i], prefs, size, Waits(i))

IInv == PrefsAgree /\ TypeInv /\ AllShown

\* A covered screen that was up to date is so still, or is marked as outdated.
LEMMA OutdatedShown ==
  ASSUME NEW scr \in Screen, NEW p, NEW s, NEW waits, NEW next,
         scr.kind = "settings", Shown(scr, prefs, size, waits),
         next = [scr EXCEPT !.stale = @ \cup Changed(p, s)]
  PROVE  Shown(next, p, s, waits)
<1>1. /\ next.kind = "settings" /\ next.on = scr.on /\ next.gone = scr.gone
      /\ next.size = scr.size /\ next.stale = scr.stale \cup Changed(p, s)
  BY DEF Screen
<1>2. "all" \notin Changed(p, s) => (All \in p) = (All \in prefs)
  BY DEF Changed
<1>3. "size" \notin Changed(p, s) => s = size
  BY DEF Changed
<1>4. (All \in p) = (All \in prefs) => p \cap {All} = prefs \cap {All}
  OBVIOUS
<1> QED
  BY <1>1, <1>2, <1>3, <1>4 DEF Shown

\* A step that outdates the covered screens and shows one that is up to date.
LEMMA ShowKeeps ==
  ASSUME TypeInv, AllShown, NEW scr \in Screen, NEW p, NEW s,
         scr.kind = Top.kind, Shown(scr, p, s, FALSE), Show(scr, p, s)
  PROVE  AllShown'
<1> DEFINE n == Len(screens)
           o == Outdate(Below, p, s)
<1>1. /\ prefs' = p /\ size' = s /\ screens' = Append(o, scr)
      /\ Below \in Seq(Screen) /\ Len(Below) = n - 1 /\ n \in Nat /\ n > 0
      /\ \A i \in 1 .. n - 1 : i \in DOMAIN screens /\ Below[i] = screens[i]
  BY BelowSeq, MaxScreensAssumption DEF Show, TypeInv, Stacked
<1>2. o \in Seq(Screen) /\ Len(o) = n - 1
  BY <1>1, OutdateSeq
<1>3. /\ Len(screens') = n /\ Top' = scr /\ DOMAIN screens' = 1 .. n
      /\ screens'[n] = scr /\ \A i \in 1 .. n - 1 : screens'[i] = o[i]
  BY <1>1, <1>2 DEF Top
<1>4. \A i \in 1 .. n : Waits(i)' = Waits(i)
  BY <1>3 DEF Waits
<1>5. ASSUME NEW i \in 1 .. n - 1
      PROVE  Shown(screens'[i], prefs', size', Waits(i)')
  <2>1. o[i] = [Below[i] EXCEPT !.stale = @ \cup Changed(p, s)] /\ Below[i] \in Screen
    BY <1>1, OutdateSeq
  <2>2. Below[i].kind = "settings"
    BY <1>1, StackedBelow DEF TypeInv, Covered
  <2>3. Shown(Below[i], prefs, size, Waits(i))
    BY <1>1 DEF AllShown
  <2>4. Shown(o[i], p, s, Waits(i))
    BY <2>1, <2>2, <2>3, OutdatedShown
  <2> QED
    BY <1>1, <1>3, <1>4, <2>4
<1>6. ~Waits(n)
  BY <1>1 DEF Waits
<1>7. Shown(screens'[n], prefs', size', Waits(n)')
  BY <1>1, <1>3, <1>4, <1>6 DEF Shown
<1>8. \A i \in DOMAIN screens' : i = n \/ i \in 1 .. n - 1
  BY <1>1, <1>3
<1> QED
  BY <1>5, <1>7, <1>8 DEF AllShown, Shown

\* updateAllSetting sets ALL to what it is asked for.
LEMMA UpdateAllSets ==
  ASSUME NEW p, NEW new \in BOOLEAN
  PROVE  All \in UpdateAllSetting(p, new) <=> new
<1>1. All # Mandatory /\ All \in Flag
  BY AllIsNoOption, ScreenOptions DEF Flag
<1> QED
  BY <1>1 DEF UpdateAllSetting

LEMMA TapAllShown == ASSUME IInv, TapAll PROVE AllShown'
<1> DEFINE new == All \notin Top.on
           p == UpdateAllSetting(prefs, new)
           scr == [Top EXCEPT !.on = Put(@, All, new), !.stale = @ \ {"all"}]
<1>1. /\ Top \in Screen /\ Top.on \subseteq {All} /\ Top.kind = "settings" /\ ~Top.gone
      /\ Len(screens) \in DOMAIN screens
  BY StackedBelow, MaxScreensAssumption DEF IInv, TypeInv, Stacked, TapAll, Boxes
<1>2. /\ scr \in Screen /\ scr.kind = "settings" /\ scr.on = Put(Top.on, All, new)
      /\ scr.size = Top.size /\ scr.stale = Top.stale \ {"all"}
  BY <1>1 DEF Flag, Put, Screen
<1>3. "size" \notin scr.stale => scr.size = size
  <2>1. Shown(Top, prefs, size, Waits(Len(screens)))
    BY <1>1 DEF IInv, AllShown, Top
  <2> QED
    BY <1>1, <1>2, <2>1 DEF Shown
<1>4. scr.on = p \cap {All}
  <2>1. All \in p <=> new
    BY UpdateAllSets
  <2> QED
    BY <1>1, <1>2, <2>1 DEF Put
<1>5. Show(scr, p, size)
  BY DEF TapAll
<1> HIDE DEF scr, p
<1>6. Shown(scr, p, size, FALSE)
  BY <1>2, <1>3, <1>4 DEF Shown
<1> QED
  BY <1>1, <1>2, <1>5, <1>6, ShowKeeps DEF IInv

LEMMA TapSizeShown == ASSUME IInv, NEW s \in Size, TapSize(s) PROVE AllShown'
<1> DEFINE scr == IF s = size THEN [Top EXCEPT !.size = s, !.stale = @ \ {"size"}]
                              ELSE Run(s)
<1>1. /\ Top \in Screen /\ Top.kind = "settings" /\ ~Top.gone
      /\ Len(screens) \in DOMAIN screens
  BY StackedBelow, MaxScreensAssumption DEF IInv, TypeInv, Stacked, TapSize
<1>2. Shown(Top, prefs, size, FALSE)
  BY <1>1 DEF IInv, AllShown, Shown, Waits, Top, TypeInv, Stacked
<1>3. scr \in Screen /\ scr.kind = "settings" /\ Shown(scr, prefs, s, FALSE)
  <2>1. CASE s = size
    BY <1>1, <1>2, <2>1 DEF Screen, Shown
  <2>2. CASE s # size
    <3>1. Run(s) \in Screen
      BY FreshScreen DEF Run
    <3> QED
      BY <2>2, <3>1 DEF Run, Fresh, Boxes, Shown
  <2> QED
    BY <2>1, <2>2
<1>4. Show(scr, prefs, s)
  BY DEF TapSize
<1> HIDE DEF scr
<1> QED
  BY <1>1, <1>3, <1>4, ShowKeeps DEF IInv

\* A screen that is rebuilt stores what it showed, and so shows what is stored.
LEMMA RebuildShown == ASSUME IInv, Rebuild PROVE AllShown'
<1> DEFINE p == Restored(Top)
           s == IF Top.kind = "topics" THEN size ELSE Top.size
           scr == IF Top.size = size \/ Top.kind = "topics"
                    THEN [Top EXCEPT !.gone = FALSE, !.stale = {}]
                    ELSE Fresh("settings", p, Top.size)
<1>1. /\ Top \in Screen /\ Top.on \subseteq Boxes(Top.kind)
      /\ Top.kind \in {"settings", "topics"} /\ Top.size \in Size
      /\ Len(screens) \in DOMAIN screens
  BY StackedBelow, MaxScreensAssumption DEF IInv, TypeInv, Stacked, Screen
<1>2. Top.kind = "topics" => Top.on = prefs \cap Boxes("topics")
  BY <1>1 DEF IInv, AllShown, Shown, Top
<1>3. scr \in Screen /\ scr.kind = Top.kind
  BY <1>1, FreshScreen DEF Fresh, Screen
<1>4. Shown(scr, p, s, FALSE)
  <2>1. CASE Top.kind = "topics"
    BY <1>1, <1>2, <2>1 DEF Restored, Shown, Screen
  <2>2. CASE Top.kind = "settings" /\ Top.size = size
    <3>1. \A new \in BOOLEAN : All \in UpdateAllSetting(prefs, new) <=> new
      BY UpdateAllSets
    <3>2. p = UpdateAllSetting(prefs, All \in Top.on) /\ (All \in Top.on) \in BOOLEAN
      BY <2>2 DEF Restored
    <3>3. All \in p <=> All \in Top.on
      BY <3>1, <3>2, Zenon
    <3>4. Top.on = p \cap {All}
      BY <1>1, <2>2, <3>3 DEF Boxes
    <3> QED
      BY <1>1, <2>2, <3>4 DEF Shown, Screen
  <2>3. CASE Top.kind = "settings" /\ Top.size # size
    BY <2>3 DEF Fresh, Boxes, Shown
  <2> QED
    BY <1>1, <2>1, <2>2, <2>3
<1>5. Show(scr, p, s)
  BY DEF Rebuild
<1> HIDE DEF scr, p, s
<1> QED
  BY <1>3, <1>4, <1>5, ShowKeeps DEF IInv

LEMMA TapTopicShown ==
  ASSUME IInv, NEW t \in Option \ {Mandatory}, TapTopic(t) PROVE AllShown'
<1> DEFINE n == Len(screens)
           new == t \notin Top.on
           p == UpdateNotifSettings(prefs, t, new)
           scr == [Top EXCEPT !.on = Put(@, t, new)]
           o == Outdate(Below, p, size)
           c == Waiter(Below, p)
<1>1. /\ Top \in Screen /\ Top.kind = "topics" /\ n \in Nat /\ n > 1
      /\ n \in DOMAIN screens /\ screens \in Seq(Screen)
      /\ Covered(Below) /\ Len(Below) = n - 1
      /\ \A i \in 1 .. n - 1 : i \in DOMAIN screens /\ Below[i] = screens[i]
  BY StackedBelow, BelowSeq, MaxScreensAssumption
     DEF IInv, TypeInv, Stacked, TapTopic
<1>2. /\ prefs' = p /\ size' = size /\ screens' = Append(c, scr)
      /\ c \in Seq(Screen) /\ Len(c) = n - 1
  BY <1>1, WaiterCovered DEF IInv, Covered, TapTopic, Waiter
<1>3. /\ scr \in Screen /\ scr.kind = "topics" /\ scr.on = Put(Top.on, t, new)
      /\ Top.on = prefs \cap Boxes("topics")
  BY <1>1 DEF Flag, Put, Screen, IInv, AllShown, Shown, Top
<1>4. /\ Len(screens') = n /\ Top' = scr /\ DOMAIN screens' = 1 .. n
      /\ screens'[n] = scr /\ \A i \in 1 .. n - 1 : screens'[i] = c[i]
  BY <1>1, <1>2 DEF Top
<1>5. /\ c[n - 1] = screens[n - 1]
      /\ \A i \in 1 .. n - 1 : i # n - 1 => c[i] = o[i]
  <2>1. o \in Seq(Screen) /\ Len(o) = n - 1
    BY <1>1, OutdateSeq DEF Covered
  <2> QED
    BY <1>1, <2>1 DEF Waiter
<1>6. scr.on = p \cap Boxes("topics")
  <2>1. /\ t \in Boxes("topics") /\ All \notin Boxes("topics")
        /\ new \in BOOLEAN /\ new = (t \notin prefs)
    BY <1>3, AllIsNoOption DEF Boxes
  <2>2. p \cap Boxes("topics") = Put(prefs, t, new) \cap Boxes("topics")
    BY <2>1 DEF UpdateNotifSettings, Put
  <2> QED
    BY <1>3, <2>1, <2>2 DEF Put
<1>7. \A i \in 1 .. n : Waits(i)' = Waits(i)
  BY <1>1, <1>3, <1>4 DEF Waits
<1> HIDE DEF scr, c, o, p
<1>8. ASSUME NEW i \in 1 .. n - 1
      PROVE  Shown(c[i], p, size, Waits(i))
  <2>1. /\ Below[i] \in Screen /\ Below[i].kind = "settings"
        /\ Shown(Below[i], prefs, size, Waits(i))
    <3>1. i \in DOMAIN screens /\ Below[i] = screens[i]
      BY <1>1
    <3>2. Shown(screens[i], prefs, size, Waits(i))
      BY <3>1 DEF IInv, AllShown
    <3>3. Below[i] \in Screen /\ Below[i].kind = "settings"
      BY <1>1 DEF Covered
    <3> QED
      BY <3>1, <3>2, <3>3
  <2>2. CASE i = n - 1
    BY <1>1, <1>5, <2>1, <2>2 DEF Shown, Waits
  <2>3. CASE i # n - 1
    <3>1. o[i] = [Below[i] EXCEPT !.stale = @ \cup Changed(p, size)]
      BY <1>1, OutdateSeq DEF Covered, o
    <3>2. Shown(o[i], p, size, Waits(i))
      BY <2>1, <3>1, OutdatedShown
    <3> QED
      BY <1>5, <2>3, <3>2
  <2> QED
    BY <2>2, <2>3
<1>9. Shown(scr, p, size, FALSE)
  BY <1>3, <1>6 DEF Shown
<1>10. \A i \in DOMAIN screens' : i = n \/ i \in 1 .. n - 1
  BY <1>1, <1>4
<1> QED
  BY <1>2, <1>3, <1>4, <1>7, <1>8, <1>9, <1>10 DEF AllShown, Shown

\* A screen on top of a settings screen: what is covered showed the preferences.
LEMMA OpenShown ==
  ASSUME IInv, NEW kind \in {"settings", "topics"}, Top.kind = "settings",
         screens' = Append(screens, Fresh(kind, prefs, size)), UNCHANGED <<prefs, size>>
  PROVE  AllShown'
<1> DEFINE n == Len(screens)
           scr == Fresh(kind, prefs, size)
<1>1. screens \in Seq(Screen) /\ n \in Nat /\ scr \in Screen
  BY FreshScreen DEF IInv, TypeInv, Stacked
<1>2. scr.kind = kind /\ Shown(scr, prefs, size, FALSE)
  BY DEF Fresh, Shown, Boxes
<1> HIDE DEF scr
<1>3. /\ Len(screens') = n + 1 /\ DOMAIN screens' = 1 .. n + 1
      /\ screens'[n + 1] = scr /\ \A i \in 1 .. n : screens'[i] = screens[i]
  BY <1>1 DEF scr
<1>4. ASSUME NEW i \in 1 .. n
      PROVE  Shown(screens[i], prefs, size, Waits(i)')
  <2>1. Shown(screens[i], prefs, size, Waits(i)) /\ ~Waits(i)
    BY <1>1 DEF IInv, AllShown, Waits
  <2> QED
    BY <2>1 DEF Shown
<1>5. \A i \in DOMAIN screens' : i = n + 1 \/ i \in 1 .. n
  BY <1>1, <1>3
<1> QED
  BY <1>2, <1>3, <1>4, <1>5 DEF AllShown, Shown

LEMMA DestroyShown == ASSUME IInv, Destroy PROVE AllShown'
<1>1. /\ screens \in Seq(Screen) /\ prefs' = prefs /\ size' = size
      /\ DOMAIN screens' = DOMAIN screens
  BY DEF IInv, TypeInv, Stacked, Destroy
<1> SUFFICES ASSUME NEW i \in DOMAIN screens
             PROVE  Shown(screens'[i], prefs, size, Waits(i)')
  BY <1>1 DEF AllShown, Shown
<1>2. screens'[i] = [screens[i] EXCEPT !.gone = TRUE] /\ screens[i] \in Screen
  BY <1>1 DEF Destroy
<1>3. Shown(screens[i], prefs, size, Waits(i))
  BY DEF IInv, AllShown
<1> QED
  BY <1>2, <1>3 DEF Shown, Screen

\* The screen that appears is the one that waited, and has got its result; or is
\* one that was covered by a settings screen; or is gone and will be rebuilt.
LEMMA CloseShown == ASSUME IInv, Close PROVE AllShown'
<1> DEFINE n == Len(screens)
           k == n - 1
<1>1. /\ screens \in Seq(Screen) /\ n \in Nat /\ n > 1
      /\ Covered(Below) /\ Len(Below) = k
      /\ \A i \in 1 .. k : i \in DOMAIN screens /\ Below[i] = screens[i]
  BY StackedBelow, BelowSeq, MaxScreensAssumption DEF IInv, TypeInv, Stacked, Close
<1>2. prefs' = prefs /\ size' = size
  BY DEF Close, ResultListener, UpdateAllSetting
<1>3. ASSUME NEW i \in 1 .. k
      PROVE  /\ Below[i] \in Screen /\ Below[i].kind = "settings"
             /\ Shown(Below[i], prefs, size, Waits(i))
  <2>1. i \in DOMAIN screens /\ Below[i] = screens[i]
    BY <1>1
  <2>2. Shown(screens[i], prefs, size, Waits(i))
    BY <2>1 DEF IInv, AllShown
  <2>3. Below[i] \in Screen /\ Below[i].kind = "settings"
    BY <1>1 DEF Covered
  <2> QED
    BY <2>1, <2>2, <2>3
<1>4. CASE Top.kind = "topics" /\ ~screens[k].gone
  <2> DEFINE scr == ActivityResult(screens[k])
  <2>1. /\ scr.kind = "settings" /\ scr.on = prefs \cap {All}
        /\ scr.size = Below[k].size /\ scr.gone = Below[k].gone
        /\ "size" \in Below[k].stale => "size" \in scr.stale
    BY <1>1, <1>3 DEF ActivityResult, Screen
  <2>2. Shown(scr, prefs, size, FALSE)
    BY <1>1, <1>3, <2>1 DEF Shown
  <2>3. screens' = [Below EXCEPT ![k] = scr]
    BY <1>4 DEF Close
  <2> HIDE DEF scr
  <2>4. /\ DOMAIN screens' = 1 .. k /\ screens'[k] = scr
        /\ \A i \in 1 .. k : i # k => screens'[i] = Below[i]
    BY <1>1, <2>3 DEF Covered
  <2>5. ASSUME NEW i \in 1 .. k, i # k
        PROVE  Shown(Below[i], prefs, size, FALSE)
    BY <1>3, <2>5 DEF Shown, Waits
  <2> QED
    BY <1>2, <2>2, <2>4, <2>5 DEF AllShown, Shown
<1>5. CASE ~(Top.kind = "topics" /\ ~screens[k].gone)
  <2>1. screens' = Below /\ DOMAIN Below = 1 .. k
    BY <1>1, <1>5 DEF Close, Covered
  <2>2. ASSUME NEW i \in 1 .. k
        PROVE  Shown(Below[i], prefs, size, FALSE)
    BY <1>1, <1>3, <1>5 DEF Shown, Waits
  <2> QED
    BY <1>2, <2>1, <2>2 DEF AllShown, Shown
<1> QED
  BY <1>4, <1>5

LEMMA NextIInv == IInv /\ [Next]_vars => IInv'
<1> SUFFICES ASSUME IInv, [Next]_vars PROVE AllShown'
  BY NextAgrees, NextType DEF IInv
<1>1. CASE OpenSettings
  BY <1>1, OpenShown DEF OpenSettings
<1>2. CASE OpenTopics
  BY <1>2, OpenShown DEF OpenTopics
<1>3. CASE UNCHANGED vars
  BY <1>3 DEF vars, IInv, AllShown, Waits, Top
<1> QED
  BY <1>1, <1>2, <1>3, TapAllShown, TapTopicShown, TapSizeShown, CloseShown,
     DestroyShown, RebuildShown DEF Next

\* The visible screen shows what is stored, except for what another screen has
\* changed since; for any number of screens and any order of destroying them.
THEOREM ScreensShowTheStored == Spec => []ShownIsStored
<1>1. Init => IInv
  <2> SUFFICES ASSUME Init PROVE IInv
    OBVIOUS
  <2>1. PrefsAgree /\ TypeInv
    BY InitType, ScreenOptions DEF Init, PrefsAgree, Agreeing, Flag
  <2>2. AllShown
    BY DEF Init, AllShown, Shown, Fresh, Boxes
  <2> QED
    BY <2>1, <2>2 DEF IInv
<1>2. IInv => ShownIsStored
  <2> SUFFICES ASSUME IInv, ~Top.gone PROVE ShownIsStored
    BY DEF ShownIsStored
  <2>1. Len(screens) \in DOMAIN screens /\ Len(screens) \in Nat
    BY MaxScreensAssumption DEF IInv, TypeInv, Stacked
  <2>2. Shown(Top, prefs, size, FALSE)
    BY <2>1 DEF IInv, AllShown, Shown, Waits, Top
  <2> QED
    BY <2>2 DEF Shown, ShownIsStored
<1> QED
  BY <1>1, <1>2, NextIInv, PTL DEF Spec

LEMMA AppendLength ==
  ASSUME NEW S, NEW q \in Seq(S), NEW x
  PROVE  Len(Append(q, x)) = Len(q) + 1
<1>1. q \in Seq(S \cup {x})
  OBVIOUS
<1> QED
  BY <1>1

\* Going back to a screen that was only covered changes nothing that is stored:
\* a call of updateAllSetting with the value ALL already has does nothing.
THEOREM ComingBackIsHarmless == Spec => ComingBackChangesNothing
<1>1. TypeInv /\ [Next]_vars =>
        [Len(screens') < Len(screens) => UNCHANGED <<prefs, size>>]_vars
  <2> SUFFICES ASSUME TypeInv, Next, Len(screens') < Len(screens)
               PROVE  UNCHANGED <<prefs, size>>
    BY DEF vars
  <2>1. /\ screens \in Seq(Screen) /\ Len(screens) \in Nat /\ Len(screens) > 0
        /\ Below \in Seq(Screen) /\ Len(Below) = Len(screens) - 1
    BY BelowSeq, MaxScreensAssumption DEF TypeInv, Stacked
  <2>2. ASSUME NEW scr, NEW p, NEW s, Show(scr, p, s) PROVE FALSE
    <3>1. Outdate(Below, p, s) \in Seq(Screen) /\ Len(Outdate(Below, p, s)) = Len(Below)
      BY <2>1, OutdateSeq
    <3> QED
      BY <2>1, <2>2, <3>1, AppendLength DEF Show
  <2>3. ~OpenSettings /\ ~OpenTopics
    BY <2>1, AppendLength DEF OpenSettings, OpenTopics
  <2>4. ASSUME NEW t \in Option \ {Mandatory}, TapTopic(t) PROVE FALSE
    <3>1. TypeInv /\ Len(screens) > 1
      BY <2>4, StackedBelow DEF TapTopic, TypeInv
    <3>2. ASSUME NEW p
          PROVE  Waiter(Below, p) \in Seq(Screen) /\ Len(Waiter(Below, p)) = Len(screens) - 1
      BY <3>1, WaiterCovered DEF Covered
    <3>3. \E p : \E scr : screens' = Append(Waiter(Below, p), scr)
      BY <2>4 DEF TapTopic, Waiter
    <3> QED
      BY <2>1, <3>2, <3>3, AppendLength
  <2>5. ~Destroy
    BY <2>1 DEF Destroy
  <2>6. ~TapAll /\ ~Rebuild /\ \A s \in Size : ~TapSize(s)
    BY <2>2 DEF TapAll, Rebuild, TapSize
  <2>7. CASE Close
    BY <2>7 DEF Close, ResultListener, UpdateAllSetting
  <2> QED
    BY <2>3, <2>4, <2>5, <2>6, <2>7 DEF Next
<1> QED
  BY <1>1, InitType, NextType, PTL DEF Spec, ComingBackChangesNothing
=============================================================================
