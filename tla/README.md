# AHS mobile app: TLA+ models, checks and proofs

This directory holds TLA+ specifications of the logic of the AHS app (Android in
`AHSMobile_Android`, iOS in `IOS/AHS20`), TLC configurations that check them on
small instances, and TLAPS proofs, for every value of the constants, of the safety
properties that the configurations check. Paths below are relative to the
sources; `J/` is `AHSMobile_Android/app/src/main/java/com/hsappdev/ahs/` and
`I/` is `IOS/AHS20/`. `PROJECT.json` maps every definition to the lines it
translates.

The app is a reader for a school's news, bulletin and notifications. It has no
server of its own: lists come from the Firebase Realtime Database, pushes from
Firebase Cloud Messaging, and everything a user does (marks of what was read,
bookmarks, switches) is kept on the device. Almost everything runs on one main
thread. What makes it hard is not parallelism but *order*: which message,
result, answer, crash or recreated screen comes between two steps that the code
takes for adjacent, and objects or positions that are older than the list they
are used on.

## 1. Inventory

### Android

| Component | State | Operations | Modelled in |
|---|---|---|---|
| Notification settings (`J/Settings.java`) | SharedPreferences in memory and on disk, the static cache `currentSetting`, the subscriptions held by the messaging service | `setUpNotifications`, `updateNotifSettings`, `updateAllSetting`, service answers | NotifSettings, TopicChoice |
| Settings screens (`settingsActivities/Settings_Activity`, `Notif_Settings_Activity`) | per screen its boxes and seek bar, what Android saved of them, the text size | taps, results, covering, destroying, restoring | SettingsScreens |
| Bulletin list and database (`Bulletin_Activity`, `BulletinRecyclerAdapter`, `BulletinDatabase`) | one SQLite table; per activity instance the parsed objects, the selectors, the adapter's rows, a remembered position | snapshots, posted updates, selectors, click, result | BulletinRead, BulletinFilter |
| Opening a tapped notification (`News_Activity`) | `news_found`/`bulletin_found` per instance, the tables | `onCreate` lookup, the two lists' callbacks | NotifDeepLink, OneAnswer |
| `NotifService` and the tables it reads (`ArticleDatabase`, `BulletinDatabase`) | counter of IDs in the preferences, the system's PendingIntents and shown notifications | `onMessageReceived` on its own thread, `updateArticles` on the main thread | NotifDelivery |
| Page of notifications and its dot (`Notif_Activity`, `NotifBtn`, `NotifDatabase`) | one SQLite table, per instance objects, views and position; the dot | snapshots, clicks, results | NotifStore |
| Bookmarks (`SavedDatabase`, `Saved_Activity`, both article screens) | one SQLite table; per article screen a copy of its status, per list of bookmarks a copy of the table and a position | open, toggle, back, result, rotation, restore | SavedBookmarks |
| Navigation bar's bulletin dot (`Navigation_Bar`) | a dot per page | snapshots, in the middle of which the bar's listener reads the marks | BulletinRead |
| News feed views, media pager, text views, static pages | none beyond the last snapshot | | not modelled: views |

### iOS

| Component | State | Operations | Modelled in |
|---|---|---|---|
| Notifications (`notificationFuncClass`, `notificationsPage*`, `tabBar`, `notificationSettings`, `AppDelegate`) | static list, read dictionary, choice of categories, counter, `UserDefaults`, dot and badge | fetches from tab bar and page, opening, switches, tapped pushes | IOSNotifications |
| Bulletin (`bulletinPage*`, `bulletinFunc`, `dataManager_bulletin`) | one static list per branch, read dictionary, filters, `UserDefaults` | fetches from the page, from pushes and from the notifications page; drawing, filters, opening | IOSBulletin |
| Home page (`homePage*`, `dataManager_home`) | lists per branch, featured articles | overlapping fetches, drawing, refresh, alert | IOSHome, IOSArticles |
| Saved articles and article page (`savedArticleClass`, `savedPage`, `articlePage*`, `tabBar`, `settingPage`) | one dictionary written through to `UserDefaults`, the button, the drawn list, what is presented | open, save, close, choose a tab, reset | IOSSaved, IOSArticles |
| Topic subscriptions (`dataManager.updateSubscriptionNotifs`) | the topics the app last asked for | loop of calls after a switch, a fetch, a new token | IOSNotifications |
| Layout, transitions, formatting | none | | not modelled: views |

### Services and the rest

Firebase Database, Messaging, SQLite, SharedPreferences and UserDefaults are
outside the repository; the modules model them from how the code uses them and
`PROJECT.json` marks those definitions external. The Firebase functions
(`Firebase/Firebase Functions/functions/index.js`) are commented out. `IOS/Pods`
is vendored. The tests are the ones the project templates generate.

### How the parts interact

* **Shared tables.** `BulletinDatabase` and `ArticleDatabase` are replaced
  (`deleteAll`, then `add`) by every listener ever registered, and read by
  `News_Activity`, `NotifService` and the list screens.
* **Listeners that are never removed** (`J/FirebaseDatabaseHandler.java`). Every
  instance of an activity adds one; a finished instance goes on replacing the
  table with what *it* parsed.
* **Results.** An article screen answers the list screen that opened it
  (`onActivityResult`), which then uses the *position* of the last click.
* **Restored boxes.** Android puts the old values of a rebuilt screen's boxes back
  through the listeners that a tap calls, so that a rotation can write settings.
* **Messages of the main thread.** `Bulletin_Activity` posts its update for
  later; a click that was on its way holds an object of an older list.
* **Static variables (iOS).** The list, the marks and the count are shared by
  the tab bar, a page, the settings and the push handler; fetches started by
  each of them empty the list at once and append to it at their answers.

## 2. Plan

Order of importance: what the user loses (marks, bookmarks, subscriptions, the
article behind a notification) before what is merely drawn.

| Module | What it is |
|---|---|
| NotifSettings, TopicChoice, NotifSettingsProofs | Settings.java, the abstract choice it implements |
| SettingsScreens, SettingsScreensProofs | the boxes on top of it, with rotations and results |
| BulletinRead, BulletinFilter, BulletinReadProofs | Android's bulletin: marks, rows under the selectors, the navigation bar's dot |
| NotifDeepLink, OneAnswer | a tapped notification, the abstract answer it implements |
| NotifDelivery | messages, numbers, PendingIntents |
| NotifStore | Android's page of notifications |
| NotificationProofs | the proofs of NotifDelivery and NotifStore |
| SavedBookmarks | Android's bookmarks |
| OpenArticleProofs | the proofs of NotifDeepLink and SavedBookmarks |
| IOSNotifications, IOSNotificationsProofs | the shared list, marks, choice, topics and count of iOS |
| IOSBulletin, IOSBulletinProofs | the bulletin's lists and marks of iOS |
| IOSHome, IOSSaved, composed in IOSArticles, IOSArticlesProofs | the home page's overlapping fetches; saved articles, article page and tab bar; what is presented over what |

All of these are written and checked, and every safety invariant and action
property that a run checks is proved (section 5). What is left is an abstract
specification that says in one place what all of them promise: a set of marks that
only taps add to and only unpublishing removes from, for BulletinRead, NotifStore
and the two iOS modules, each shown to implement it up to the losses that their
histories name.

## 3. The modules

In every module one action is one message handled by the main thread, or one
step between two points where something else can come in (a crash, another
thread, the disk). A *history* variable never influences the others; it only
lets a property say what the user did. A comment `mutant:` above a definition
marks a variant of the next one that no specification uses; each property is
known to fail when the definition is replaced by its variant (`PROJECT.json`,
"mutants").

### NotifSettings (`J/Settings.java`)

The preferences are ALL and one flag per topic. `updateNotifSettings` writes the
topic, its cache entry and the subscription (`ToggleTopic`), then derives ALL
(`DeriveAll`). `updateAllSetting` writes ALL (`SwitchAll`) and then loops over
all topics but the mandatory one (`CascadeTo`, one per topic). Each of these
steps is an `apply()`: memory changes at once, `WriteDisk` brings the file up to
date at any later moment, and `Crash` at any point goes back to the file and
drops the cache. `OpenNews` is `setUpNotifications`, which subscribes to what
the preferences say. `Answer` is the messaging service: it answers a topic's
calls in the order they were made and may fail, in which case nobody knows what
it holds (the code shows a toast and does not retry).

TopicChoice is what a user understands by the two kinds of switch: a set of
chosen topics, ALL exactly when all are chosen, one switch at a time, and only
the end of the process may lose a choice. The
refinement mapping counts a call as done when it starts (a topic the loop has
still to visit has its new value), so that the applies in between are stutters.

### SettingsScreens (`J/settingsActivities/Settings_Activity.java`, `Notif_Settings_Activity.java`)

The screens are a stack, each with the boxes it shows; a call of Settings.java is
one step here, because all of it runs on the main thread and NotifSettings has
its inside. `TapAll`, `TapTopic` and `TapSize` are the listeners, `Close` is back
with `onActivityResult` of the screen below (which sets the box, and so may call
its listener). `Destroy` is a rotation or the system taking memory back, and
`Rebuild` is `onCreate` followed by `onRestoreInstanceState`, which sets the seek
bar and the box to what they showed and *stores* that. `stale` is the history of
what other screens have changed since a screen last read it.

### BulletinRead and BulletinFilter (`J/Bulletin_Activity.java`, `BulletinRecyclerAdapter`, `BulletinDatabase`, `FirebaseDatabaseHandler`)

The main thread's queue holds the snapshot (`data`), the updates that each
Bulletin_Activity posts for it (`update`), clicks and results. `HandleData`
parses the list once per listener, with the marks found in the table, replaces
the table for News_Activity (the `job`, so that a crash can fall between
`deleteAll` and `add`), and posts one update per instance, finished or not.
`HandleUpdate` replaces the table by *that instance's* objects, `HandleClick`
marks the object and its row and remembers its adapter position,
`HandleResult` marks the object that is at that position *now*. `Touch` puts a
click on the queue with the object the finger saw; `Layout` rebinds the views.
If the clicked view has been removed the position is -1 and the result throws
(`HandleResult`, `Die`). `TouchSelector` turns a selector and runs `filterItems`
(BulletinFilter), which removes and adds rows by their titles; a snapshot shows
everything again whatever the selectors say (`Deliver`), so that the two disagree
until the next touch. `refilled` is the history of exactly that: the instances
whose rows a snapshot has filled while selectors were lit. The rows of all others
have the titles their selectors ask for, no more and no less
(`RowsFollowSelectors`). `ShowDots` is the listener of a page's navigation bar: it
comes after the page's own, but before the updates that Bulletin_Activities
post, and no dot is ever hidden. `crossed` is the history of a page opened while
an older update waited behind a snapshot (`Crossing`): that update is made
between the snapshot's reading of the marks and the new page's own, so that the
two may find different ones and only one of them shows its dot. It takes five
snapshots and three waiting messages (a row read on disk when the process starts,
two overlapping snapshots with their updates, a page in between), more than the
run's bounds allow; the attempt to prove the property without the condition found
it.

### NotifDeepLink (`J/News_Activity.java`)

`OnCreate` looks in the two tables and otherwise starts the search;
`HandleSnapshot` is `onArticleLoaded` for each article and then
`onAllArticlesLoaded` of every instance that is waiting. Instances accumulate
(rotations, new intents), each with its own flags; `Die` is the end of the
process. OneAnswer says what a tap should get, and its answers are tied to where
the article is: `holds` are the lists that have it as far as the app knows, which
the refinement mapping makes the tables (a list that comes replaces its table and is
looked through in the same step). An instance that starts answers with the article
if a list holds it, one that looks through a list if that list has it, and the list
of notifications is the answer only when both lists have been looked through and
*no* list holds the article at that moment. The mapping's answer is the first
screen each instance opens; the lists searched are its `NOT_FOUND` flags.

### NotifDelivery (`J/NotifService.java`, `ArticleDatabase`, `BulletinDatabase`)

`Receive`, `Query` (news, then bulletin), `GetIntent` and `Notify` are
`onMessageReceived` on its own thread, `ReceivePlain` the message without an
article ID, which asks no table; a message without a notification part throws
between the number for the intent and the one for the notification, which is the
`Crash` after `GetIntent`. `DeleteAll` and `Add` are
`updateArticles` on the main thread, which shares the SQLite handle with it and
closes it (a query then throws). The counter is written with `apply()`
(`WriteDisk`), so a `Crash` may take it back. PendingIntents and shown
notifications belong to the system and survive.

### NotifStore (`J/Notif_Activity.java`, `NotifBtn`, `NotifDatabase`, `NotifRecyclerAdapter`)

Like BulletinRead, but the table is replaced inside the snapshot's handler, row
by row and outside any transaction (`HandleData`, `InsertNext`, `NextListener`;
`SystemKills` comes at any point between), and the result of an article marks a row on the screen only. A snapshot is
delivered to an empty queue (one behind other messages is the same as one that
comes later), and whether a notification has an article to open is left open per
click.

### SavedBookmarks (`J/SavedDatabase.java`, `Saved_Activity`, `ArticleActivity`, `Bulletin_Article_Activity`)

The task is a stack of screens: feeds, lists of bookmarks with their copy of the
table, article screens with their copy of one status. `ToggleBookmark` changes
the copy, `HeaderBack` stores the difference, `SystemBack` drops it. `GoTo`,
`ClickFeed`, `ClickRow`, `OpenFound` and `TapNotification` push screens;
`again` lets a second tap reach the screen below. `Destroy` is a rotation (only
of screens that do not handle it) or the end of the process, after which screens
are created anew when they come to the front (`Reveal`).

### IOSNotifications (`I/UI/notificationsPage/`, `I/UI/tabBar/tabBar.swift`, `I/UI/notificationSettings.swift`, `I/AppDelegate.swift`)

`Launch`, `OpenPage` and `RefreshPage` start fetches that empty the list;
`AnswerDot` and `AnswerPage` append to it, count, and draw. `OpenArticle` marks,
saves and draws; `ClosePage` updates dot and badge; `ChangeSetting` recounts;
`TapPush` is the handler in AppDelegate, which marks the push's *article* (a key
under which no message is looked up, so that the mark has no effect). `selected`
and `chosen` are the choice of categories in memory and in `UserDefaults`;
`LoadChoice` (`Launch`, `ReceiveToken`, a drawing) reads it back and asks for
`topics`, `ChangeSetting` writes it.

### IOSBulletin (`I/UI/bulletinPage/`, `I/Backend/bulletinFunc.swift`, `dataManager_bulletin`, `dataManager_homeandbulletin`)

`GetBulletinArticleData` (page) and `LoadAllArticles` (push, notifications page)
empty the lists and ask every branch; `Answer` fills one branch and, if the page
asked, draws. `AddFilter` draws. A drawing loads the marks and an opening saves
them, dropping those of articles that the last drawing did not have.

### IOSHome, IOSSaved and their composition IOSArticles

IOSHome is the home page's part of `dataManager` and the drawing
(`I/UI/homePage/`, `dataManager_home`). `GetHomepageData` empties the featured
articles and all lists and asks each branch; each `Answer` fills its list,
appends its featured articles, draws and ends the refresh control, after which
`RefreshAllArticles` may start the next fetch while others are out. Order and
repetition of the featured articles matter only as how often each is there, so
`featured` is a bag. `LoadAllArticles` is the fetch of a tapped push, which
empties the lists but not the featured articles.

IOSSaved is the dictionary (`I/Backend/savedArticleClass.swift`), the article
page's button, the saved page, the tab bar and the reset. IOSArticles puts both
into one app: an article is opened by a button of either page or by the late
answer to a push (`Answer`), and UIKit ignores it if anything is presented
already (`Free`).

## 4. The runs

| Run | Question | Result |
|---|---|---|
| notif_settings | Do ALL, the topics, the cache, the disk and the service agree under every order of switches, answers, disk writes and crashes? | holds; liveness: the service ends up with the last preference or a failed call; implements TopicChoice |
| settings_screens | Do screens on top of each other, rotated and restored, show and keep what is stored? | ALL and the topics always agree; a box is right up to what other screens changed since; coming back to a covered screen changes nothing |
| bulletin_read | Which read marks survive, where do marks come from, does the table end as the list? | a mark made while no update was waiting survives (`QuietMarksKept`), marks are only on what was opened or on the row at the same position of a newer list (`OnlyEarnedMarks`), the table ends as the list, the rows have exactly the titles that the selectors ask for until a snapshot refills them (`RowsFollowSelectors`), an unread article has its dot everywhere unless a page was opened while an update waited behind a snapshot |
| bulletin_read_lost | Does every mark survive, as a comment takes for granted? | no: section 6 |
| notif_deep_link | Is every tap answered, and rightly, whatever comes first? | holds for the first answer; implements OneAnswer: the article if it is known where the instance looks, the list of notifications only if no table has it |
| notif_delivery | Does a tap open the article its notification is about? | holds unless a crash took the counter back |
| notif_lookup | Does a lookup, in the middle of an update too, return the article if the old and the new list have it? | no: section 6 |
| notif_store | Do taps stay marked, does nothing else get stored, does the dot tell the truth? | holds unless the process dies inside a replacement |
| saved_bookmarks | Is no article saved twice, does a screen ever work on an old status, is the list the table? | holds unless an article was open twice, or the list lost its position |
| ios_notifications | Do marks stay, do memory, `UserDefaults` and topics agree, is the count right? | the marks unless something was opened during a fetch, the count unless two fetches overlapped; `StoredIsInForce` always |
| ios_bulletin | Marks kept, labels right | unless an article is opened on a page drawn from half-filled lists |
| ios_articles | Does the home page feature what its last fetch brought? Do memory, `UserDefaults`, bookmark button and saved page agree, whatever is opened over what? | holds; the featured articles only unless the page was pulled again before its fetch had ended |

Conditions such as `~hasty`, `~overlapped`, `~doubled`, `~torn` and
`~rolledBack` are part of what the runs show: each names the course of
events under which the code loses the property, and without it TLC finds a
counterexample (without `~crossed` only with larger bounds than the run's:
one article, `MaxSnapshots` 5, `MaxQueue` 3).

### Bounds

| Run (the larger ones) | Distinct states, about | Time |
|---|---|---|
| notif_settings | 136,000 | 26 s |
| settings_screens | 107,000 | 3 s |
| bulletin_read | 2,405,948 | 1:24 |
| notif_deep_link | 20,721 | 3 s |
| notif_delivery | 3,043,454 | 48 s |
| ios_notifications | 372,460 | 11 s |
| ios_articles | 1,400,180 | 59 s |

| Constant | Value | Why it is enough |
|---|---|---|
| `Option` | 3, one mandatory | ALL differs from one topic, from both, and from the mandatory one |
| `MaxRequests` | 2 | an on and an off of one topic under way together |
| `Article` (bulletin), `Notif` | 2 | a position that means another article; one deleted before another |
| `MaxScreens` | 2 (lists), 4 (settings), 5 (task) | a finished instance and an open one; a topics screen over three settings screens; an article over a list over an article over a list over the feed |
| `Selecting` | one instance | the rows of an instance depend on its own selectors only |
| `Type`, `DotTypes` | 2 and 1 of them | an article the dot looks at and one it does not |
| `Category` | 3 | "all news", a category with a message, one without |
| `Size` | 3 | the stored size, an old one and a new one |
| `MaxSnapshots` | 3, 4 | a list, a changed one while the first is handled, one more to settle |
| `MaxQueue` | 2 | a click behind an update or another click |
| `MaxMessages` | 3 | two numbers per message, a crash back to a number in use, one more message |
| `MaxPending`, `MaxAsked` | 2 | two overlapping fetches |
| `Branch` | 2 | a branch that has answered and one that has not; the code treats all alike |

`SavedBookmarks` is checked up to permutations of the articles of a kind
(no property distinguishes them and there is no liveness property) and with the
constraint `NotDoubled`: `doubled` is never reset, and the three invariants say
nothing after it, so states beyond it need no exploration. `BulletinRead` is
checked with the constraint `FewAtOnce`, which goes on from no state with two
selectors lit, nor with one lit and two articles open; what several selectors leave
is proved instead (`FilterIsExact`, `RowsAlwaysFollow`). The other bounds are guards
of the actions; runs whose behaviours really end there do not check for
deadlock.

### Fairness

* NotifSettings: `WF(Answer(o))`: the messaging service completes each call's
  task, with success or failure. Nothing is assumed of the disk or the user.
* NotifDeepLink: `WF(HandleSnapshot)`: the main looper handles its messages.
  That both lists arrive is in the property's premise, not assumed.

### Assumptions and abstractions

* Firebase calls the listeners of one place in the order they were added, all in
  one message of the main thread; a listener added later gets the client's
  current list at once. The first listener is that of News_Activity or NotifBtn.
* A result is delivered before the screen below is usable again; a screen does
  not change while a click is queued.
* Lists are sets shown in a fixed order; times, texts and images are left out.
* A settings screen is left with back or by opening another one; the system
  destroys all screens of a task or none.
* A selector is touched while no message of the main thread waits.
* BulletinRead has one News_Activity, the first, although the bulletin's home button
  starts more (`J/Bulletin_Activity.java:124`); each would be one more listener
  that replaces the table within the snapshot, as the first does.
* SavedBookmarks takes the bookmark's status, which `J/ArticleActivity.java:109`
  reads in a message posted by `onCreate`, for part of `onCreate`.
* IOSArticles' `Free` counts article pages, saved page, alert and reset among what is
  presented, not the notifications page with its own article page
  (`I/UI/tabBar/tabBar.swift:61`,
  `I/UI/notificationsPage/notificationsPage.swift:57`): over those the model
  opens the article of a push that UIKit ignores, and what is saved in that
  article page is left out.
* On iOS the answers of one branch come in the order they were asked for, those
  of different branches in any order; `UserDefaults.set` is immediate. The reset of
  the saved articles is the only thing the settings present.
* In SavedBookmarks a tapped notification opens an article screen on top of the
  task; the variants of NotifService's other targets and of the feeds' flags
  only change which feeds lie below.

## 5. Proofs

Each Proofs module proves its theorems for every value of the constants that
satisfies the module's named assumptions (sets of topics, articles, messages or
branches of any size, any bound on what is under way), with one step per action.

| Module | Theorem | Statement |
|---|---|---|
| NotifSettingsProofs | `TypeCorrect` | `Spec => []TypeOK`; includes that the loop of ALL never visits the mandatory topic |
| | `SwitchesAlwaysAgree` | `Spec => []SwitchesAgree` |
| | `ServiceIsTold` | `Spec => []SubscriptionFollowsPreference` |
| | `ChoiceImplemented` | `Spec => ImplementsChoice`, the refinement of TopicChoice |
| SettingsScreensProofs | `TypeCorrect`, `AllAlwaysAgrees`, `ScreensShowTheStored` | `Spec => []TypeOK`, `[]AllAgrees`, `[]ShownIsStored` |
| | `ComingBackIsHarmless` | `Spec => ComingBackChangesNothing`, an action property |
| BulletinReadProofs | `FilterShowsTheTitles`, `FilterIsExact` | what `filterItems` leaves, from whatever rows it starts |
| | `TypeCorrect`, `RowsAlwaysFollow`, `TableIsTheList`, `QuietMarksStay`, `MarksAreEarned`, `DotAlwaysShows` | `Spec => []TypeOK`, `[]RowsFollowSelectors`, `[]RowsFollowList`, `[]QuietMarksKept`, `[]OnlyEarnedMarks`, `[]DotShowsUnread` |
| OpenArticleProofs (NotifDeepLink) | `TypeCorrect` | `Spec => []TypeOK` |
| | `FirstAnswerAlwaysRight` | `Spec => FirstAnswerRight`, the refinement of OneAnswer |
| OpenArticleProofs (SavedBookmarks) | `BookmarksTypeCorrect`, `AlwaysOneBookmark`, `CopyAlwaysCurrent`, `ListAlwaysTable` | `BookmarksSpec => []BookmarksTypeOK`, `[]OneBookmark`, `[]CopyIsCurrent`, `[]ListIsTable` |
| NotificationProofs (NotifDelivery) | `TypeCorrect`, `TapsAreRight` | `Spec => []TypeOK`, `[]TapOpensItsArticle` |
| NotificationProofs (NotifStore) | `StoreTypeCorrect`, `MarksAlwaysKept`, `UnreadAlwaysDotted`, `ReturnedAlwaysShown` | `StoreSpec => []StoreTypeOK`, `[]MarksKept`, `[]DotShowsUnread`, `[]ReturnedShown` |
| | `OnlyTapsAreStored` | `StoreSpec => StoredMarksAreTaps`, an action property |
| IOSNotificationsProofs | `TypeCorrect`, `StoredAlwaysInForce`, `MarksAreKept`, `CountAlwaysMatches` | `Spec => []TypeOK`, `[]StoredIsInForce`, `[]MarksKept`, `[]CountMatchesList` |
| IOSBulletinProofs | `TypeCorrect`, `MarksAlwaysKept`, `LabelsAlwaysFollow` | `Spec => []TypeOK`, `[]MarksKept`, `[]LabelsFollowMarks` |
| IOSArticlesProofs | `TypeCorrect`, `ButtonAlwaysBookmark`, `RowsAlwaysStored`, `FeaturedAlwaysLatest` | `Spec => []TypeOK`, `[]ButtonIsBookmark`, `[]RowsAreStored`, `[]FeaturedIsLatest` |

None of the safety properties is inductive as it stands. What each invariant adds,
and why:

* **NotifSettings.** `CacheIsCurrent`: the static cache equals the preferences
  while the app runs (otherwise `DeriveAll` could write anything).
  `MandatoryWanted`: the mandatory topic is on in memory and on disk (otherwise a
  loop that leaves it out could end with ALL on and one topic off).
  `CallInProgress`: a derivation is about to write the right value, and the loop
  has given the new value to every topic it has visited. `Settled`: agreement
  also while the process is down. `ChoiceImplemented` uses this and shows that the
  first step of a call is a step of TopicChoice, a crash is its `Relapse` step,
  and everything else stutters.
* **SettingsScreens.** `PrefsAgree` (agreement, and the mandatory topic on) holds
  whatever the screens show, because both calls restore it from any argument.
  `AllShown` says of *every* screen, covered or gone, what `ShownIsStored` says of
  the visible one, except that a settings screen under the topics screen is let
  off its box until it gets the result.
* **BulletinRead.** `TypeInv` adds what the objects in use are (`Shape`): every
  waiting update or click, every open instance and the visible views refer to
  articles that collection has left alone, the instances of one snapshot are an
  interval, and no article is marked that is not there. `OrderInv` is the order of
  the queue: before the client has the list no list waits (`EarlyLists`); the last
  list that waits is the server's (`LastList`); and the last update behind all lists
  writes the articles of the last list handled, or the table holds them already
  (`LastWrite`). `QuietInv`: the objects of every waiting update, and those of the
  job, carry the quiet marks, so that no order of updates can lose one; the steps
  that only move the queue share one lemma (`Minor`, `Moved`). `EarnedInv`: the
  results still owed for an instance's last list hit, at its position in their
  rows, opened articles only (`OwedOK`); a second click may move that position, but
  while it waits no rows have changed (`RowsStand`), and positions of one list
  differ (`IndexInjective`). `DotInv`: the dots of all pages are decided by the
  lists the pages get since the last one that went to all of them; those lists
  are the server's (`ListComes`), no update is made between two of them
  (`Together`, what `crossed` excludes), every page gets one (`EveryoneHears`),
  and what the table holds when the next of them is handled has no unread article
  of the bar's categories unless every page has its dot or will find out
  (`NewsFirst`, `NextWrite`).
* **NotifDeepLink.** `OnlySearchers`: an instance that does not search has looked
  through no list. `QueueInv` is about the snapshots that still wait, each sent to
  the instances there were: the last message of a list says what the client has
  last heard of it (`LastHeard`); an instance sent a list without the article hears
  of it when the list gets the article (`ToldOfChange`); and of a list it has looked
  through in vain (`Vain`) the table is without the article and the first waiting
  message that brings it is sent to the instance (`ToldFirst`). So no older
  snapshot, handled for other instances only, can put the article into a table that
  an instance has already given up on, and the list of notifications is opened only
  when no table has the article.
* **NotifDelivery.** `NumbersAreNew`: the numbers the counter will still give out
  belong to no intent and no notification; `IntentIsOwn`: the one that is about to
  be shown belongs to its article; `IntentsKept`: a shown notification has its
  intent.
* **NotifStore.** `StoreTypeInv` adds what waits for what: results wait for the
  articles below and leave no click behind them (`PageShown`), clicks and views
  are bound to objects that the page has or had (`ClicksBound`, `ViewsBound`), and
  no job is left between two messages (`JobShape`). `MarksInv`: while the table is
  being replaced a mark is in it or among the rows still to be inserted. `DotInv`:
  the dot is decided by NotifBtn's own message, and if that showed none, all of
  the list is marked, in the table or among the rows to be inserted.
  `ReturnedInv`: a result still to come of what was tapped last (`Owed`) will be
  drawn, for its object is marked and its view is, or is the one at the remembered
  position (`WillBeDrawn`).
* **SavedBookmarks.** `BookmarksInv` says of *every* screen of the task, covered
  ones too, what the properties say of the one in front (`Sound`): no article is
  open twice (`OpenOnce`), each article screen that has not been destroyed has the
  table's word for its article (`Current`), and a list that nothing was kept from
  is the table, and only the screen right above it can be its own, opened from the
  row at its position (`Follows`), so that the one result it can get takes out the
  row of the bookmark that was cleared. That needs what the sequence operators
  compute: `deleteByID` on a table with each article once takes out one row
  (`Deleted`), and doing so on the table and on the reversed list is the same
  (`ReversedRemoved`). `DeleteByID` and `AfterResults` are folds of the community
  modules, which choose a function by its recursion; `FoldExists` and `FoldRun`
  show that there is one and that it is a run over the sequence. The induction
  over the natural numbers behind that is done with a set for the formula: a set
  of numbers has a least element (`LeastElement`, from the library's
  well-foundedness of `<`), so one with 0 and all successors has them all
  (`SetInduction`).
* **IOSNotifications.** `NothingWhenDown`, `PageWaits` (a fetch that will draw
  belongs to the page shown) and `ListHasOpened`: buttons that can be tapped while
  no fetch is under way belong to a list that has every message whose mark is owed,
  which is exactly what saving, that drops the others, needs. `CountInv`: without
  overlapping fetches a list waits empty for its answer (`ListWaits`) and has each
  message once (`Once`), so that counting along the list is counting a set.
* **IOSBulletin.** `MarksInStep`: of the articles drawn last, memory and
  `UserDefaults` have the same marks. `OpenedIsCovered`: an opened article is in its
  list or on its way. `DrawnFromAll`: so a page drawn with no fetch under way was
  drawn from all of them. `PageIsLoaded`: only a loaded page is drawn.
* **IOSArticles.** The saved articles and the home page have an invariant each.
  `MemoryIsStored` and `NothingWhenDown` tie the dictionary to `UserDefaults`,
  `OneSheet` says what can be presented (an article page over a pending reset would
  show an old button). `FetchCounts`: as long as the page has only one fetch of its
  own under way, each branch is out once at most, has brought nothing while it is
  out, and every article is counted as featured exactly if it has come.

The assumptions are those named in the modules: the mandatory topic is one of
several and ALL is none of them, every article has a branch (message, category,
type), keys of articles and messages differ, a list of messages can be finite, the
home page is no article, bounds are numbers.

Left to TLC is what is beyond the proof system: liveness under fairness,
`PreferenceReachesService` of NotifSettings and `TapAnswered` of NotifDeepLink.

## 6. Where the code and its comments disagree

* `J/BulletinDatabase.java:194` relies on `getReadStatusByID()` having carried
  every mark. `Bulletin_Activity` posts its update for later, so a mark made
  between the reading and the update is lost. Run bulletin_read_lost.
* `J/ArticleDatabase.java:206-207` says that articles still there are updated
  rather than destroyed. `updateArticles` deletes all rows first, so that
  NotifService's lookup in between misses an article that is in the old and in
  the new list. Run notif_lookup.

Without a text that says otherwise, and so not listed as findings:

* The push handler (`I/AppDelegate.swift:120`) stores a mark under the ID of the
  push's article, where the dictionary's other keys are message IDs
  (`I/UI/notificationsPage/notificationsPage.swift:29`). No such mark is ever looked
  for; the next saving drops it.
* ALL is on in a settings screen; on the topics screen above it one topic is
  switched off, the device is rotated, the user goes back: the rebuilt settings
  screen puts its old box back, whose listener switches every topic on again
  (`Rebuild` of SettingsScreens). An old text size comes back in the same way from
  under another settings screen. `ComingBackChangesNothing` holds because it speaks
  of screens that were only covered.
* The bulletin's selectors stay lit over a snapshot that shows all rows again.
* The bulletin dot looks at the categories `Navigation_Bar` lists, which are not
  all types of the bulletin.

## 7. What is not modelled

Views, layout, formatting, animation, static pages, the media pager (libraries);
the iOS font size (one value, no interaction); the Firebase functions (commented
out). `IOS/Pods` is vendored: all of the repository's C, C++ and Objective-C is
there (Firebase, gRPC, BoringSSL, Protobuf and others), none of it is this
program's logic, and what the app relies on of it is stated as external
definitions. The app itself is the Java below `J/` and the Swift below `I/`.
Hazards that no property covers are in `PROJECT.json` with the reason.
