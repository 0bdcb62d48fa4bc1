--------------------------- MODULE SettingsScreens ---------------------------
(***************************************************************************)
(* Android: the screens on which the preferences of Settings.java are      *)
(* changed.  Settings_Activity shows the ALL box and the text size,        *)
(* Notif_Settings_Activity one switch per topic.                           *)
(*                                                                         *)
(* A screen copies the preferences into its boxes once, in onCreate.  It   *)
(* can then be covered by other screens that change them, and it can be    *)
(* destroyed (a rotation, or the system needing memory) and built again:   *)
(* onCreate shows the preferences, and then Android puts back what every   *)
(* box showed before, through the same listeners that a tap calls.         *)
(*                                                                         *)
(* Everything here runs on the main thread, so a callback is one step; the *)
(* writes inside a call of Settings.java, and a process that dies between  *)
(* them, are the subject of NotifSettings.                                 *)
(***************************************************************************)
EXTENDS Naturals, Sequences

CONSTANTS Option,      \* NotifOption.values()
          Mandatory,   \* NotifOption.MANDATORY
          All,         \* the preference ALL_SETTING
          Size,        \* TextSizeOption.values()
          DefaultSize, \* the text size when none is stored
          MaxScreens   \* bound: screens on top of each other

ASSUME ScreenOptions == Mandatory \in Option /\ Option # {Mandatory}
ASSUME AllIsNoOption == All \notin Option
ASSUME ScreenSizes == DefaultSize \in Size
ASSUME MaxScreensAssumption == MaxScreens \in Nat \ {0, 1}

VARIABLES
  prefs,   \* the preferences that are on: topics, and All
  size,    \* the stored text size, which is also Settings.currentOption
  screens  \* the settings screens, the visible one last

vars == <<prefs, size, screens>>

Flag == Option \cup {All}

Put(S, f, flag) == IF flag THEN S \cup {f} ELSE S \ {f}

\* The boxes of each kind of screen.
Boxes(kind) == IF kind = "settings" THEN {All} ELSE Option \ {Mandatory}

\* stale: history, the values that other screens have changed since this one
\* last read them.
Screen == [kind : {"settings", "topics"}, on : SUBSET Flag, size : Size,
           gone : BOOLEAN, stale : SUBSET {"all", "size"}]

\* A screen as onCreate builds it.
Fresh(kind, p, s) ==
  [kind |-> kind, on |-> p \cap Boxes(kind), size |-> s,
   gone |-> FALSE, stale |-> {}]

Top == screens[Len(screens)]
Below == SubSeq(screens, 1, Len(screens) - 1)

Init ==
  /\ prefs = Flag
  /\ size = DefaultSize
  /\ screens = <<Fresh("settings", prefs, size)>>

-----------------------------------------------------------------------------
(* Settings.java: what a call makes of the preferences *)

\* mutant: switching on the last topic does not switch on All
NotifSettingsOnlyOff(p, o, new) ==
  IF (o \in p) = new THEN p
  ELSE Put(p, o, new) \ (IF new THEN {} ELSE {All})

\* updateNotifSettings: All goes off with the first topic that goes off, and on
\* with the last one that goes on.
UpdateNotifSettings(p, o, new) ==
  LET q == Put(p, o, new)
  IN  IF (o \in p) = new THEN p
      ELSE IF new = (All \in p) THEN q
      ELSE Put(q, All, All \notin p /\ Option \subseteq q)

\* mutant: the call takes effect whatever the preference already is
AlwaysUpdateAll(p, new) ==
  IF new THEN p \cup {All} \cup Option ELSE p \ (Flag \ {Mandatory})

\* mutant: the loop takes the mandatory topic along
UpdateEveryTopic(p, new) ==
  IF (All \in p) = new THEN p ELSE IF new THEN Flag ELSE {}

\* updateAllSetting(new, true): every topic but the mandatory one follows.
UpdateAllSetting(p, new) ==
  LET followers == Flag \ {Mandatory}
  IN  IF (All \in p) = new THEN p
      ELSE IF new THEN p \cup followers ELSE p \ followers

-----------------------------------------------------------------------------
(* The screens *)

\* What the screens under the visible one come to disagree with when the
\* preferences become p and the text size s.
Changed(p, s) ==
  (IF (All \in p) = (All \in prefs) THEN {} ELSE {"all"})
    \cup (IF s = size THEN {} ELSE {"size"})

Outdate(covered, p, s) ==
  [i \in DOMAIN covered |->
     [covered[i] EXCEPT !.stale = @ \cup Changed(p, s)]]

\* The visible screen becomes scr while the preferences become p and s.
Show(scr, p, s) ==
  /\ prefs' = p
  /\ size' = s
  /\ screens' = Append(Outdate(Below, p, s), scr)

\* Settings_Activity, reached again through the navigation bar of other pages:
\* every page starts a new one.
OpenSettings ==
  /\ ~Top.gone /\ Top.kind = "settings" /\ Len(screens) < MaxScreens
  /\ screens' = Append(screens, Fresh("settings", prefs, size))
  /\ UNCHANGED <<prefs, size>>

\* notifLayout's click: startActivityForResult
OpenTopics ==
  /\ ~Top.gone /\ Top.kind = "settings" /\ Len(screens) < MaxScreens
  /\ screens' = Append(screens, Fresh("topics", prefs, size))
  /\ UNCHANGED <<prefs, size>>

\* The ALL box is tapped.  A box that showed an old value may be switched to
\* the value the preference already has.
TapAll ==
  LET new == All \notin Top.on
      p == UpdateAllSetting(prefs, new)
  IN  /\ ~Top.gone /\ Top.kind = "settings"
      /\ Show([Top EXCEPT !.on = Put(@, All, new), !.stale = @ \ {"all"}],
              p, size)

\* A switch of Notif_Settings_Activity is tapped.  The settings screen under it
\* is not outdated: it will be told of the result.
TapTopic(o) ==
  LET new == o \notin Top.on
      p == UpdateNotifSettings(prefs, o, new)
      parent == screens[Len(screens) - 1]
      covered == [Outdate(Below, p, size) EXCEPT ![Len(screens) - 1] = parent]
  IN  /\ ~Top.gone /\ Top.kind = "topics"
      /\ prefs' = p
      /\ screens' = Append(covered, [Top EXCEPT !.on = Put(@, o, new)])
      /\ UNCHANGED size

\* Settings_Activity.run, called by updateTextSize when the size has changed: the
\* screen is finished and started again.
Run(s) == Fresh("settings", prefs, s)

\* The seek bar is moved.
TapSize(s) ==
  /\ ~Top.gone /\ Top.kind = "settings" /\ s # Top.size
  /\ Show(IF s = size THEN [Top EXCEPT !.size = s, !.stale = @ \ {"size"}]
                      ELSE Run(s),
          prefs, s)

\* mutant: the box keeps what it showed
NoActivityResult(scr) == [scr EXCEPT !.stale = @ \ {"all"}]

\* onActivityResult of the settings screen: its box shows ALL again.  When that
\* changes the box, the box's listener runs too.
ActivityResult(scr) ==
  [scr EXCEPT !.on = prefs \cap {All}, !.stale = @ \ {"all"}]

\* The preferences after the listener that setChecked of the box calls.
ResultListener(scr) ==
  IF (All \in scr.on) = (All \in prefs) THEN prefs
  ELSE UpdateAllSetting(prefs, All \in prefs)

\* The visible screen is left.  A screen that is still there appears as it was;
\* only the topics screen has a result for it.  One that is gone is rebuilt
\* first, and then its box already agrees with the result.
Close ==
  LET below == screens[Len(screens) - 1]
  IN  /\ ~Top.gone /\ Len(screens) > 1
      /\ IF Top.kind = "topics" /\ ~below.gone
           THEN /\ prefs' = ResultListener(below)
                /\ screens' = [Below EXCEPT ![Len(screens) - 1] =
                                 ActivityResult(below)]
           ELSE /\ screens' = Below
                /\ UNCHANGED prefs
      /\ UNCHANGED size

\* A rotation, or the system takes back the memory of an app in the background:
\* what every box shows is saved.
Destroy ==
  /\ ~Top.gone
  /\ screens' = [i \in DOMAIN screens |-> [screens[i] EXCEPT !.gone = TRUE]]
  /\ UNCHANGED <<prefs, size>>

\* The preferences after the box and the seek bar of a settings screen, or the
\* switches of a topics screen, have got their saved values back; a switch always
\* has the preference's value, as nothing can cover it.
Restored(scr) ==
  IF scr.kind = "topics" THEN prefs
  ELSE UpdateAllSetting(prefs, All \in scr.on)

\* onCreate and onRestoreInstanceState of the screen that becomes visible.  The
\* seek bar comes first: an old text size is stored and starts the screen
\* again.  The box comes next, and an old value of it is stored as well.
Rebuild ==
  LET p == Restored(Top)
  IN  /\ Top.gone
      /\ Show(IF Top.size = size \/ Top.kind = "topics"
                THEN [Top EXCEPT !.gone = FALSE, !.stale = {}]
                ELSE Fresh("settings", p, Top.size),
              p, IF Top.kind = "topics" THEN size ELSE Top.size)

Next ==
  \/ OpenSettings \/ OpenTopics
  \/ TapAll
  \/ \E o \in Option \ {Mandatory} : TapTopic(o)
  \/ \E s \in Size : TapSize(s)
  \/ Close
  \/ Destroy \/ Rebuild

Spec == Init /\ [][Next]_vars

-----------------------------------------------------------------------------
(* Properties *)

\* The shape of every variable; a topics screen is always the visible one and
\* stands on the settings screen that waits for its result.
TypeOK ==
  /\ prefs \in SUBSET Flag /\ Mandatory \in prefs
  /\ size \in Size
  /\ screens \in Seq(Screen) /\ Len(screens) \in 1..MaxScreens
  /\ \A i \in DOMAIN screens :
       /\ screens[i].on \subseteq Boxes(screens[i].kind)
       /\ screens[i].kind = "topics" => i = Len(screens) /\ i > 1

\* ALL is on exactly when every topic is, on whatever screen a switch was tapped
\* and whatever old value a rebuilt screen has put back.
AllAgrees == All \in prefs <=> Option \subseteq prefs

\* The visible screen shows the preferences and the text size in force, except
\* for what another screen has changed since: coming back from the topics screen
\* refreshes the box, rebuilding makes boxes and preferences agree again.
ShownIsStored ==
  ~Top.gone =>
    /\ Top.kind = "settings" /\ "all" \notin Top.stale
         => Top.on = prefs \cap {All}
    /\ Top.kind = "topics" => Top.on = prefs \cap Boxes("topics")
    /\ Top.kind = "settings" /\ "size" \notin Top.stale => Top.size = size

\* Going back to a screen that was only covered changes nothing that is stored,
\* although onActivityResult sets the ALL box and so calls its listener, which
\* could switch every topic.  (A screen that was destroyed in the meantime does
\* undo what was changed above it, in Rebuild.)
ComingBackChangesNothing ==
  [][Len(screens') < Len(screens) => UNCHANGED <<prefs, size>>]_vars
=============================================================================
