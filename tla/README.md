# A verification of MyMealPrep

MyMealPrep is an iOS app: it searches recipes, keeps a recipe book, makes meal
plans from saved recipes and puts ingredients on a shopping list. It stores them
through the Firestore client that is in the repository as C++ source. This directory
holds TLA+ models of the app's state and handlers and of the parts of that client
the app relies on, TLC runs that check them on small instances, and proofs of most of
their invariants for instances of every size.

Swift paths below are relative to `src/MyMealPrep/MyMealPrep/`, C++ paths to
`src/MyMealPrep/Pods/FirebaseFirestore/Firestore/core/src/`.

## The system

The app has no server of its own. It keeps state in four places:

| place | what | who writes it |
|---|---|---|
| memory (singletons) | `ShoppingListController.listItems`, `RecipeController.savedRecipes`, `RecipeController.recipes`, `MealPlanController.mealPlans`, `UserController.currentUser` | handlers on the main thread, Firestore callbacks, and for `recipes` a URLSession thread |
| screens | the rows of each table, the open selection of recipes, which controller is on top | UIKit and the handlers |
| device | `MyMealPrep.json` (the shopping list), the session of Firebase Auth | `saveToPersistentStorage`, Firebase |
| Firebase | Auth accounts; the collections of users, recipes and meal plans | asynchronous calls, answered later in any order |

| component | state | operations | interacts with |
|---|---|---|---|
| Shopping list (`ShoppingListController`, `ShoppingListViewController`, its cell) | `listItems`, the JSON file, the object each row holds | open, add, tick, rename, swipe to delete, clear, save, load | recipe and plan screens add to it |
| Adding ingredients (`SavedRecipesDetail…`, `MealPlanRecipesDetail…`, `MealPlanDetailViewController`) | none | add a recipe's or a plan's ingredients; push a new list screen | shopping list |
| Saved recipes and meal plans (`UserController`, `RecipeController`, `MealPlanController`) | local lists, Firestore documents, `Recipe.isChecked` | fetch, save, delete | home, book and plan screens |
| Recipe book, plan list, selection screens | table rows, `checkedRecipes`, `recipeSearchArray` | show, swipe, tick, search, save | saved recipes and plans |
| Account (`SignUpAndIn…`, `EditLoginInfo…`, `ProfileViewController`, `UserController`) | Auth accounts and session, users documents, `currentUser` | launch, sign up, sign in, log out, edit email and password | every screen behind the tabs |
| Recipe search and random recipe (`SearchRecipeViewController`, `RecipeController`) | `RecipeController.recipes`, the rows of up to two search screens, `randomRecipe` | search, open a result | recipe detail, and so the book |
| Home table and images (`HomeViewController`, `RecipeBookTableViewCell`) | `recentlySavedRecipes`, sections, what reused cells show | appear, draw, tap, image arrives | saved recipes |
| Firestore write pipeline (`core/sync_engine`, `local/local_store`, `leveldb_mutation_queue`, `remote/remote_store`, `write_stream`, `auth/`) | mutation queues and documents on disk; pipeline, stream, completions in memory | write, change of user, send, acknowledge, refuse, restart | every save and delete of the app; server |
| Firestore gets, listeners, online state (`core/event_manager`, `query_listener`, `sync_engine`, `remote/online_state_tracker`, `api/query_core`) | listeners, views, targets, stream, state, timer | listen, unlisten, answer, go offline, reject | every fetch of the app; server |
| Firestore watch targets (`remote/remote_event`, `remote_store`, `local/local_store`) | what is gathered per target, the target's keys and token on disk | handle a message, raise a snapshot, reset, resume | gets; server |
| Firestore streams (`remote/stream`) | state, idle timer, close count | start, open, close, back off, stop | the three above |
| Home recipe detail, list menu, earlier login screens | – | nothing reaches them | – |
| Contact, help, launch, constants, errors | – | no change of state | – |

What makes it hard:

- **Callbacks.** Firestore and Auth answer later and in any order, while the
  user goes on; closures use controllers and `currentUser` as they are then.
- **Two copies of everything.** List and file, list and table, list and
  collection, Auth account and users document: each handler updates both by
  hand, one after the other, and errors are printed and otherwise ignored.
- **Identity.** Items are compared by name, plans and recipes by value; plans
  have one UUID of their own and another for their document; a recipe from the
  search has none.
- **Termination.** The process may end between any two saves.
- **The network.** A stream may break or hang at any time, a token may come for
  another user, an acknowledgement may be lost; the client sends again what it
  cannot know to have arrived, and answers carry no name but their order.
- **Layers.** App, user executor, worker queue, event manager, sync engine, remote
  store, stream and server each hold their part of one listen or write, and pass it
  on by messages that may be out of date when they are read.

The properties that would make each component correct, and those hazards that
are still without one, are under "hazards" in `PROJECT.json`.

## The modules

| module | models | composed with |
|---|---|---|
| `DurableList` | what a shopping list promises: one list that outlives the app | abstract specification |
| `ShoppingList` | the shopping list, its file, its table, and the screens that add to it | implements `DurableList` |
| `Library` | users on one device, Firestore documents, fetches, saved recipes, meal plans and their screens | – |
| `Account` | Firebase Auth, the users collection, login chains, edits | – |
| `RecipeSearch` | the shared list of search results, the search screens, the random recipe | – |
| `HomeTable` | the home screen's table of saved recipes, its cells and their images | – |
| `DurableWrites` | what a store that works offline promises about writes | abstract specification |
| `FirestoreStream` | the states of a stream | used by the next two |
| `FirestoreWrites` | a write from the call to its completion, with the server | implements `DurableWrites` |
| `FirestoreGet` | a get from the call to its completion | – |
| `FirestoreWatch` | the messages about one query, made into snapshots, with the server | – |
| `…Proofs` | theorems about a module | extends that module |
| `MC…` | the small instances | – |

Definitions whose names begin with `Mut_` are not part of a model. Each is a
mistake the code could have made in the definition after it, and shows that a
property notices.

### ShoppingList

Handlers run on the main thread, so each is one action with everything it calls:
`addListItemButtonTapped` inserts, saves and reloads the table in one step.
A Swift object is identified by its position in `listItems`. A row holds a
reference to an object (`cell.item`), so `cells[i]` is the position of row i's
object, or 0 once that object has left the list. `DeleteRow` removes the *first*
namesake from the list (`firstIndex(of:)` with the `==` of `ShoppingList.swift`,
which compares names) and row i from the table; from there rows and list may
differ, and ticks and edits act on the row's object. `cellForRowAt` is UIKit
binding a row again when it scrolls in.

`saveToPersistentStorage` swallows errors, and the write is not atomic: with
`WriteFaults` it may leave the old file or one that does not decode. Ingredients
are saved one line at a time. `saveEachLine` gives the outcomes of the whole loop
(`StaleFiles` those after a failed last save), and `KilledWhileAdding` ends the
process between two of the saves. The button of a plan both adds ingredients and
performs a segue to a new list screen that loads the file: UIKit does not specify
the order, so both are there (`SeeListAddThenLoad`, `SeeListLoadThenAdd`).

`synced` is a history variable: whether the last save or load of this process
succeeded.

### DurableList

A list to which unticked entries are added on top, and whose entries change or
go only by a tick, a rename, a removal or a clear. `KeepsTheList` is the
refinement: the abstract list is the one in memory, or the one on disk before it
is first loaded in a process. So a relaunch, opening the list and an add from
another screen must all be steps of one list. `SavedItemsSurvive` is
the part of it that fails, in `list_unopened`, when the list is not opened first.

### Library

A fetch is three steps: the request, which empties the local list; the answer,
which Firestore computes from its documents and the writes queued so far; and
the callback on the main thread. The user acts between them unless `FetchFirst`.
A fetch asks for everybody's documents and keeps those of `currentUser` as it is
when the callback runs (`Own`). `logoutButtonTapped` changes nothing but the screen;
`SignIn` is what is left of the chain in `Account`: another current user, and new tabs.
Their home screen queues a block on the main thread
(`HomeViewController.swift:82`), and `loadUserData` is that block: it empties both lists
and asks for the documents. Between the two (`loading`) the lists are still those the
logout left, behind another user's tabs; old fetches may be answered before the block as
well as after it. The user taps nothing meanwhile (`TabsLoaded`): the block is on the
main queue before the transition to the tabs has finished, and UIKit takes no touches
during it. A fetch made in one user's session may be answered in another's; those of one
collection are answered in order, as the events of `FirestoreGet` are. A launch goes the
same way, with empty lists.
Writes are in the documents as soon as they are queued, as in Firestore's local
cache; with `StoreFaults` a call reports an error instead. `rows` is what the
table on screen shows: only `viewWillAppear` and swipes change it.
`isChecked` belongs to the `Recipe` objects, `selection.checked` to the
controller. `deleteRows` traps when the counts disagree, and `recipe.uid!` on nil:
both are actions that end the process and leave the reason in `crash`.
`stale`, `tapped` and `deleted` are history variables.

### Account

An account exists twice, in Firebase Auth and as a users document that repeats
its email and password. `pending` is the sequence of calls not answered yet; an
answer runs its closure, which usually makes the next call of the chain
(`Continues`): `signInFetch` then `signIn`; `signUpFetch`, `createAccount` then
`createUser`; `editAccount` then `editUser`. `Fails` is an error, at which the
closures print and stop. `AccountCreated` has the account made before the password
fields are compared, as in the code. `toTabBar` presents the tabs only if its
controller is on top and presents nothing else.
`calm` is chosen at the start: if it is TRUE there is one chain at a time, no call
fails and no sign-up is cut short by a mismatch or a logout, and an email is edited
at most once after a sign-in; if it is FALSE anything happens but an edit of the
email. That is where `SameUser`, `LoginsAgree` and `SignInSucceeds` are stated, and
`OneDocPerEmail` for both.

### RecipeSearch

`RecipeController.recipes` is static: one list, read by row number by every cell
and tap of the two search screens (a tab each: recipe book and meal plan). An
answer assigns it on the session's queue (`fetchRecipe`) and queues a block for
the main thread (`mainQueue`), which assigns it again and reloads the table of
the screen that searched (`Reload`). `rows[s]` is what the table of tab `s`
shows; a row is `Unbound` until a cell is drawn. A closed screen goes on waiting
(`Orphaned`). Home's `searchButtonTapped` is connected to nothing in the
storyboard and is left out. Two history variables: `foreign`,
the list was assigned for another screen since this one was reloaded; `lastTerm`,
what a screen searched last, forgotten when that failed or overtook an earlier one. The Swift array is
written without a lock while the main thread reads it; a read returns one of the
two lists, and a torn one is outside the model. A row number out of range, and
`randomElement()!` of no hits, end the process (`crash`).

### HomeTable

`reloadData` counts the sections at once (`sections`) and the run loop draws them
later (`cellForRowAt`, all in one layout pass), with cells new or reused. In
between, the block of `loadUserData` may empty the saved recipes: the cells are
then the mock recipe, with taps switched off and never switched on again.
`recentlySavedRecipes` is the slice remembered when cells were last drawn. A cell
keeps its image until one comes, whichever recipe that was asked for. A mock cell
is also overwritten by an image under way, which is why `ImagesMatch` speaks of
saved recipes. `awry` is a history variable: the cells with an image that failed or
overtook an older one since they were drawn. `Shown` is 3 in the code.

### FirestoreStream, FirestoreWrites, DurableWrites

`FirestoreStream` has the methods of `Stream` as operators on a record, so that the
two streams share them. In `FirestoreWrites` a `setData` or `delete` is a task for
the worker; `WriteLocally` runs it: the batch goes to the user's queue on disk and,
if there is room, to the pipeline and over an open stream. The handshake is the
first request of a stream. An answer settles the batch at the front of the pipeline,
whichever it was meant for. `HandleCredentialChange` is the task that swaps queues
when Firebase Auth has another user; between its being queued and run, calls, tokens
and answers of the other user go on. `asks` are the tokens asked for: `fresh` while
`token_counter` has not moved, `live` while `close_count_` has not. The server reads
requests in order, commits or refuses each, and answers in order; it reads no
further in a broken call and does not end a call with OK. A request it has committed
may be sent again, and is then applied again: a write is applied at least once, in
the model as in the code. `KeepsPromise` is the refinement of `DurableWrites`: users'
queues that outlive the app, applied in order, settled in order and once.
History variables: `settled`, `told`.

### FirestoreGet

A get adds a listener for one event. `OnViewSnapshot` and `Raise` decide who gets
one, `Becomes` hands the events to the user's executor, and `OnEvent` is
`ListenOnce`: mute, remove, call the app. `views[q]` is `none`, `local` or `synced`
with the server. `online`, `timer` and `failures` are the online state tracker, whose
limit of failures is 1. `HardAssert` stands for `HARD_ASSERT`, at the place the code has
it: in each handler of the tracker (`online_state_tracker.cc:62`, `68`, `88` and `90`), for the
target an unlisten erases (`remote_store.cc:173`), and for a stream that stops gracefully
(`remote_store.cc:236`). One that does not hold leaves `aborted` TRUE, and `AssertionsHold`
says that none fails. Documents are left out: an event says where it comes from.
A call to gRPC counts as open at once, so a hanging network is an open stream on
which nothing comes.

### FirestoreWatch

One query has one target id in every listen, and messages name nothing else.
`target.due` counts the answers due for requests, and until it is 0 the aggregator
ignores the target. `changes` is gathered until the next snapshot, which goes to the
view and the disk together (`ApplyRemoteEvent`). The server has the query's result
version by version; it may lag, but not behind a resume token. On a resumed query
the removals since the token come one by one, or are left to an existence filter
sent between `CURRENT` and the snapshot, or the target is reset. The targets of
several queries do not meet in the aggregator, so one query is enough.

Flaws of the code after a filter that does not match are steps of this model. The
reset waits for the next snapshot; a listen that ends and begins in between is asked
for again while the changes of the reset are dropped, against
`remote_event.cc:241-242`, and a document that is gone stays in a current view. The
mismatch clears the resume token in memory only (`remote_store.cc:329-334`): the one
on disk stays although the keys are gone, and a later listen or a relaunch resumes
from it. And a snapshot older than one already raised is ignored: documents that
come before the next one are in the view when the target is asked for anew from
nothing, and nothing takes them out. The history variables `unmended` (the keys on
disk are gone, and no token of a current result has come to the disk since) and
`spoilt` (a listen began meanwhile, or documents came before the target was dropped)
name these cases, and `CurrentIsExact` and `ListenerCatchesUp` except them.

## The runs

| run | checks | instance |
|---|---|---|
| `list_faults` | `TypeOK`, `SavedCopyIsCurrent`, `RowsFollowList`, `OnlyNamesakesMislead` | 2 names, 4 items, 4 batches, saves fail, 487,000 states |
| `list_durable` | `KeepsTheList` | the same, saves succeed, list opened before adding, 1,750 states |
| `list_unopened` | violates `SavedItemsSurvive` | saves succeed, list not opened first |
| `library_race` | `TypeOK`, `SelectionExact` | 1 user, 1 recipe, 2 + 2 ids, 2 saved recipes, 1 plan, errors, no waiting, 829,000 states |
| `library_waits` | `RowsCurrent`, `ListsAreOwn`, `ListsAreComplete` | 2 users, 1 recipe, 2 + 3 ids, 2 recipes, 2 plans, 1 more login, 2 fetches of a collection, the user waits, 877,000 states |
| `account` | `TypeOK`, `OneDocPerEmail`, `SameUser`, `LoginsAgree`, `SignInSucceeds` | 2 of each, 2 calls in flight, 896,000 states |
| `search` | `TypeOK`, `RowsShowList`, `LatestResults` | 2 tabs, 2 terms with 2 and 1 hits, 2 searches not yet shown, 2.2 million states |
| `home_table` | `TypeOK`, `TapOpensWhatIsShown`, `ImagesMatch` | 2 recipes, 2 cells and 2 sections, 3 saved, 3 images under way, 1.5 million states |
| `writes` | `TypeOK`, `WireFollowsQueue`, `UnderOwnName`, `CompletionsAreRight`, `ReadYourWrites`, `AssertionsHold`, `KeepsPromise`, `WritesSettle` | 2 users, 1 document, pipeline of 2, 3 writes, 1 fault, 1 change of user, 175,000 states |
| `get` | `TypeOK`, `AnsweredOnce`, `LayersAgree`, `NobodyWaitsOffline`, `AssertionsHold`, `GetsAreAnswered` | 2 queries, 2 gets, 2 flaps, 66,000 states |
| `get_hang` | violates `UnknownEnds` | the same, streams may hang |
| `watch` | `TypeOK`, `CurrentIsExact`, `AggregatorInStep`, `DiskFollowsView`, `ListenerCatchesUp` | 2 documents, 3 versions, 2 listens, 1 break, 1.2 million states |

Bounds, and why they are enough:

- Two names let items be namesakes or not. The two are a line with a comma and
  its prefix, since the edit field drops what follows the comma. Four items give a
  namesake above, at and below the swiped row with one other, and a batch of three
  lines has two points at which a run of saves can break off.
- One recipe in the book is enough because two *objects* may carry it (from the
  search, without a uid, and from a document); two uids give two documents of it.
  Plans need a UUID of their own and one for their document, and one more so that
  a second plan overlaps a deleted one. One more login puts the documents and
  fetches of one user before the other's; with two more and one plan the properties
  hold as well (2 million states), and with errors and one plan `ListsAreOwn` does (3.5
  million). The race has one login in each process; with one more (1.9 million states) its
  properties hold too.
- Two addresses and passwords, two accounts and documents: enough for someone
  else's session and for a second edit. Two calls in flight already interleave
  every pair of chains; with three, the same properties hold on two million states.
- Two terms with a different number of hits that share one recipe at different
  rows: rows past the end, and rows that name another recipe. Two searches not yet
  shown overtake each other; two screens are all the app has.
- The home table is scaled down from three sections to two, with one saved recipe
  more than it shows, so that the slice drops one. Three images under way are two
  drawings of a reused cell.
- Three writes and a pipeline of two (ten in the code): one waits outside while one
  is under way. One fault at every point, of every kind, with one change of user; the
  properties also hold with two users, two writes, two faults and two changes
  (808,000 states), and with two faults and one user (560,000).
- Two gets share a query or not; a third would meet the same three stages of
  another get: not listened to yet, listened to, answered. A flap is a message that
  is no answer, or a change of connectivity.
- Three versions of a result over two documents: each stays, comes or goes, and comes
  back. The last of the cases that `spoilt` excepts was found with four. The properties
  also hold with two versions and two breaks (236,000 states) and with four versions of
  one document, two listens and a break; the invariants with four versions of one
  document, three listens, two breaks and five messages (5.3 million), and of two
  documents with two listens, a break and three messages (11 million).
- Ids that nothing refers to any more are reused, so the runs are not short of them.

### The violations

Two runs show that the code does not do what the repository says, listed with the
lines under "findings" in `PROJECT.json`:

1. `list_unopened`: adding ingredients in a new process before the list tab was
   opened replaces the saved list.
2. `get_hang`: a listen made while the stream of an earlier one is still starting
   gets no timer. The trace: a get is answered from the cache because the timer
   fired; its unlisten puts the online state back to unknown; a second get finds the
   stream started; the stream then opens and hangs.

More flaws of the app are steps of the models, and the properties that pass say
how far they reach:

- A plan made and deleted in one process leaves its document, since `saveMealPlan`
  stores it under another UUID; the next fetch lists it again. `ListsAreComplete`
  excepts such plans (`deleted`).
- Deleting a recipe saved from the search in the same process traps
  (`crash = "nilUid"`, `UserController.swift:197`), and so does dating it in a plan.
- A recipe left ticked by an earlier selection cannot be selected for the next plan:
  the guard of `toggleRecipeChecked` returns (`stale` in `SelectionExact`).
- A second email edit in a session looks the document up by the old address
  (`UserController.swift:70`) and never reaches it: the two logins part for good.
  `LoginsAgree` holds with a sign-in between edits.
- A sign-up whose two password fields differ creates the account and then stops
  (`SignUpAndInViewController.swift:132`): the address can be used neither to sign in
  nor to sign up. `OneDocPerEmail` holds all the same.
- A home cell drawn while the list was empty never takes taps again (`enabled` in
  `HomeTable`).
- The shopping list file has no owner: whoever logs in on the device reads it.
- A logout leaves the lists of recipes and plans where they are. The next login's home
  table is reloaded from them when it appears (`HomeViewController.swift:39`), and the
  block that empties them does not reload it: it may show the earlier user's recipes
  until it is drawn or reloaded again. `HomeTable` has this order of steps. `ListsAreOwn`
  holds from the block on, which is when taps begin; it says nothing of the window before.

What a property excepts is a flaw of the code, a step of the model, and the limit of
what the property shows. Apart from those named above: `RowsCurrent` and
`ListsAreComplete` are about a user who waits for the fetches (`FetchFirst`), since a
callback behind a visible table does part rows from list and the next swipe traps
(`crash = "rows"`); `ListsAreComplete` is also about calls without errors, which nothing
undoes. `SameUser` beyond the existence of a user and a session, `LoginsAgree` and
`SignInSucceeds` are about one chain of calls at a time without errors (`calm`): a chain that
overtakes another or fails leaves another's `currentUser` behind, half an edit, or a
tap without effect. `RowsShowList` excepts the time between an answer and its reload
(`Queued`) and answers to the other screen (`foreign`), in which a row does open another recipe
or an index out of range; `LatestResults` excepts an overtaken search, `ImagesMatch` an
overtaken image. The notes under "hazards" say so one by one.

`OnlyNamesakesMislead` says that equality by name is the only way rows come to
mislead, `list_durable` that opening the list first is all the shopping list needs,
`RowsCurrent` that waiting for the fetches is all the tables need, `RowsShowList` that
only another screen's answer or a queued reload parts a search's rows from the list.

### Fairness

Four runs use fairness; in the others only safety is checked. Nothing is assumed
about users.

- `account`: weak fairness of the answer of each pending call. Firebase answers
  every call with a result or an error, and `SignInSucceeds` excludes errors (`calm`).
- `writes`: tokens asked for come, the worker runs its tasks, backoff timers fire and
  answers are handled, the server reads what it was sent. Faults are finitely many, as
  nothing settles under endless ones. A write waits while its user is not
  signed in, which `WritesSettle` allows for.
- `get`: `ClientSpec` is what the client does by itself: tasks and events run, tokens
  come or fail, the backoff and online timers fire. `FairSpec` adds that a call
  awaiting an answer gets one or breaks. `get_hang` is without the second.
- `watch`: the stream opens, messages are handled, the server reads and sends.

## The proofs

Each `…Proofs` module proves theorems `Spec => []Inv`, for an invariant, or
`Spec => P`, for a property of steps or a refinement, for every value of the
constants: any sets of names, recipes, users, queries or documents, any bounds, both
settings of every switch. TLC checks the same properties, on small instances.

| module | theorem | property |
|---|---|---|
| `ShoppingListProofs` | `TypeCorrect`, `SavedCopy`, `TableMatchesList`, `NamesakesOnly` | `TypeOK`, `SavedCopyIsCurrent`, `RowsFollowList`, `OnlyNamesakesMislead` |
| | `OneList` | `KeepsTheList`, the refinement of `DurableList` |
| `LibraryProofs` | `TypeCorrect`, `SelectionsAreExact`, `RowsAreCurrent`, `OwnLists`, `CompleteLists` | `TypeOK`, `SelectionExact`, `RowsCurrent`, `ListsAreOwn`, `ListsAreComplete` |
| `AccountProofs` | `TypeCorrect`, `OneDocument`, `TabsAgree`, `DocumentsSignIn` | `TypeOK`, `OneDocPerEmail`, `SameUser`, `LoginsAgree` |
| `RecipeSearchProofs` | `TypeCorrect`, `RowsAreTheList`, `LatestAreShown` | `TypeOK`, `RowsShowList`, `LatestResults` |
| `HomeTableProofs` | `TypeCorrect`, `TapsOpenWhatIsShown`, `ImagesAreRight` | `TypeOK`, `TapOpensWhatIsShown`, `ImagesMatch` |
| `FirestoreWritesProofs` | `TypeCorrect`, `OneSequence`, `OwnName`, `RightCompletions`, `OwnWritesAreRead`, `NoAssertionFails` | `TypeOK`, `WireFollowsQueue`, `UnderOwnName`, `CompletionsAreRight`, `ReadYourWrites`, `AssertionsHold` |
| | `PromiseKept` | `KeepsPromise`, the refinement of `DurableWrites` |
| `FirestoreGetProofs` | `TypeCorrect`, `AtMostOneAnswer`, `AllLayersAgree`, `NobodyIsKeptWaiting`, `NoAssertionFails` | `TypeOK`, `AnsweredOnce`, `LayersAgree`, `NobodyWaitsOffline`, `AssertionsHold` |
| `FirestoreWatchProofs` | `TypeCorrect`, `AggregatorKeepsStep`, `DiskIsNotBehind`, `CurrentViewsAreExact` | `TypeOK`, `AggregatorInStep`, `DiskFollowsView`, `CurrentIsExact` |

What is assumed are the named `ASSUME`s of the modules, which TLC evaluates in the
runs: the bounds are numbers, a name that means "none" is not one of the values it
stands for, lists returned by a service hold recipes, and the documents a query may
match (`Keys`) are finitely many, as the filter's count supposes. Three theorems have the
hypothesis of their run: `RowsAreCurrent` is about the user who waits for the fetches
(`FetchFirst`), `CompleteLists` about that user while Firestore reports no error
(`FetchFirst /\ ~StoreFaults`), without which a recipe saved before the fetch is answered
drops out of the list, and one whose deletion is refused comes back; `OneList` is about
saves that succeed and a list opened before it is added to
(`~WriteFaults /\ OpenFirst`); `list_unopened` shows it is needed.

Every proof has the same shape: `IInv` holds initially, a lemma for each
handler shows that it keeps it, and each theorem follows from `IInv`. TLC
has checked each `IInv`, and `LInv` of `Library`, as an invariant of the module's runs. What the
properties lack to be inductive, by module:

- **ShoppingList.** `TypeOK`, `SavedCopyIsCurrent` and both parts of
  `RowsFollowList`, and nothing more. That a tick changes an item of the list rests on
  the rows' positions lying in it; that a deletion keeps them there rests on
  `RowCount` and on the deleted namesake not lying below the swiped row
  (`RowsNeverLead`). `NamesakesOnly` is about single steps from `IInv`. `OneList` needs
  `OneCopy` besides: once the list has been opened the file has it, and until then memory
  holds none, so the list of `DurableList` is always the one on disk.
- **Library.** `Ticks`: while a selection is open, the recipes with a tick are the
  chosen and the stale ones, without which unticking could take the wrong one out.
  `Local`: before the fetch is answered, what is listed has no uid, so that the answer,
  which replaces ticked objects by unticked ones, replaces none that a selection
  holds. `Waits`, `Behind` and `Loading` say on which screens the user is meanwhile.
  `ListsAreOwn` says nothing from a login to its block (`TabsLoaded`), which empties the
  lists whatever they hold by then; from there on a fetch, of whichever login, is
  filtered by the user of the moment it is answered, and nobody else becomes the user
  but through the login screen. `CompleteLists` needs a second
  invariant, `LInv`. `Recent`: what a fetch was answered with is still what is stored when
  its callback runs, since documents change only between fetches. `BookListed`: there is
  an order of the user's documents in which each has the recipe of the row at its place,
  and its id if the row has one. A save extends that order, a deletion takes the same
  place out of both, and the counts of `BookIsComplete` are equal because the order is a
  bijection (`ListedIsComplete`). `PlansListed` adds to `PlanListComplete` that no
  plan's own UUID is the document of another, so that the deletion by that UUID never
  takes another plan's document; `Selecting`, that the plan a selection is open for is
  listed and not stored, so that saving it replaces nothing.
- **Account.** `OneDocPerEmail` needs that every document's address is that of an
  account (`AddressesHaveAccounts`) and accounts' addresses differ
  (`OneAccountPerEmail`): the account a sign-up has just made is then the proof that no
  other document has the address. It needs also that two calls that create documents are
  for two documents (`CallsFit`). `SameUser` and `LoginsAgree` hold between
  the chains of calls; `ChainFits` says what they are worth in the middle of each.
- **RecipeSearch.** `RowsShowList` is nearly inductive. `LatestResults` needs `Latest`:
  the hits of the last term are with the last call under way, or in the last
  block queued, or are the list.
- **HomeTable.** `CountFits`: the sections counted are those of the slice, or the list was
  emptied since. `ImagesExpected` follows each image: the last under way for a cell is
  the right one, or there is none and it is there.
- **FirestoreWrites.** `QueueInv` and `TasksInv` give one order of calls in the
  worker's tasks, the queues and what is settled. `Effects` says that every call and
  every live token is of the user who will be in effect when its task runs: this is what
  changes of user would break. `Conn` has, for each state of the stream, what may be
  under way on it, at most one token (`OneToken`) and, past the handshake, answers and
  requests that are the pipeline (`Wire`). The theorem `PromiseKept` maps each action to an
  action of `DurableWrites` or a stutter, from `IInv`.
- **FirestoreGet.** `AnsweredOnce` needs `Answers`: a get is added once, nothing
  happens to it before, an error is the last event of its get, and who has been
  answered is muted or past its last event. `Well` has the layers: `Asks` says that
  a target not asked for on an open stream is one whose view is synced and online.
  `AssertionsHold` needs `Timers`, that the timer runs only while the state is unknown and
  no failure counted, and `Started`, that it runs only while a stream is started or on its
  way: a stream is started only where none is, so `HandleWatchStreamStart` finds no timer.
  The path from an idle stop to the next listen is why `Stop` has to clear it.
- **FirestoreWatch.** `InStep` counts the answers due; `Fit`, that what is gathered
  suits the view, holds only while the count is 0. `DiskFollowsView` rests on the view
  and the disk being written in one step. `CurrentViewsAreExact` needs a second invariant,
  `EInv`, about what is under way. A message takes what is known of the target, its
  gathered documents, whether it is current, whether a filter did not match (`Track`),
  to the next (`Passes`); the inbox *leads* from one track to another if its messages do
  so one by one and every snapshot among them finds the documents of its version or a
  mismatch (`Leads`). `InTouch`: while no request waits for the server, some suffix of the
  inbox leads from what the client has, or from the view as the last answer due will find
  it, to the version the server has served. The lemmas say that each batch a server may
  send leads there from the documents of the request's token (`ServedLeads`), that batches
  join (`MoreLeads`), and that the handlers do what `Passes` says (`HandleTracks`).
  `Told` and `Recorded` say what the tokens in memory and on disk speak for, `Asked` that
  the last request carries the token in memory, `Waits` that a mismatch waits only for
  an active target that is not current.

The attempts changed the models. `CurrentIsExact` was false as first stated: the
invariant that its proof asked for failed where documents come between a mismatch and
the snapshot that drops the keys, and TLC then found a run of 35 steps with four versions
in which such a document stays. The bounds used until then hid it; the case is now excepted by
name. In `FirestoreWatch` too the cases of `HandleWatchChange` overlapped, and which was
taken was TLC's choice; they are now apart. In `Library` the recipes a selection offers were a sequence, whose order nothing
observed, and unticking took out all equal objects where the code takes the first. In
`Account`, that `None` is not a user was not said. The set of fresh ids of `Library` was
written so that TLC and the prover read it differently, a union of sets or a union
with sets; it is now unambiguous.

Only model-checked:

- `SignInSucceeds`, `WritesSettle`, `GetsAreAnswered`, `ListenerCatchesUp`: liveness, and
  the prover does not treat fairness.

## What is not modelled

- `moveRowAt` of the shopping list and `HomeRecipeDetailViewController`,
  `ShoppingListMenuViewController`, `SignInViewController`, `SignUpViewController`
  and the files whose names end in ` 2`: nothing reaches them.
- The user who does not wait while fetches of two logins overlap: the second callback
  would replace ticked objects in an open selection, which the model does not tell
  apart from the first (`OverlapsAreWaitedFor`).
- Dates of plans beyond the plan being created: the array of days in
  `createMealPlan` is discarded unused.
- Addresses and passwords that Auth would refuse; re-authentication.
- Scrolling of the book and plan tables; images of cells outside the home table.
- A torn read of the unsynchronised list of search results.
- Mail, help texts, colours, layout.
- Of the Firestore client: documents in limbo, the collection of old targets,
  transactions, `waitForPendingWrites`, enabling and disabling the network, stream
  tokens, patches and server timestamps, and every conversion of values, queries and
  messages. The app uses few of them, and the properties do not tell contents apart.
- The rest of `Pods/`: gRPC, BoringSSL, leveldb, abseil, nanopb and the other Firebase
  and Google libraries. They are third-party code of hundreds of thousands of lines,
  beneath or beside what the app calls. The models take from them that a call
  delivers in order or breaks and that a commit to disk is atomic. That is
  nearly all of the C and C++ in the repository, so only a small share of it is
  covered by these models.

## Plan

Done: the shopping list, the library with two users, the account, the search, the
home table; Firestore's writes, gets and watch targets; the proofs above.

1. Documents in limbo: a module over `FirestoreWatch` with documents and versions,
   limbo targets and their queue.
2. An abstract specification of the library, each user's recipes and plans that
   survive the process, and the refinement under `FetchFirst` and without errors, up
   to the plans that come back.
3. A composition of `Library` and `ShoppingList`: the ingredients of a plan that is
   edited or deleted.
