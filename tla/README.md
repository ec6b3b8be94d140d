# Formal model of log-agent (栈桥)

log-agent is a desktop dashboard over Dozzle log servers, with work spaces for
SSH commands, terminals, databases and Redis, and an assistant. One Go process
serves a web page shown in a native window. This directory holds TLA+ modules
that model its concurrent core and the page's, TLC configurations that check
them on small instances, and TLAPS proofs of what matters most for every
instance. `PROJECT.json` lists the runs, the proofs, the source lines each
definition stands for, the hazards of the code and, per property, a mutation of
the model that breaks it.

Tools: `tlc -config X.cfg MCX.tla` for a run, `tlapm X_proofs.tla` for a proof.

## 1. The system

| Component | Source | State it keeps | Modelled in |
|---|---|---|---|
| Log history | `main.go` 1301-1876, 3080-3124, 3353-3471, 3897-3989 | `logs`, `containerLogs`, `historyCoverage`, `historyLoads`, `historyLoadGeneration`, `historyGeneration`, `historyPending`, `staleHistoryNodes` | `HistoryLoads`, `HistoryWindow` |
| Nodes and streams | `main.go` 2602-3351, 3702-3770 | `nodes`, `nodeContexts`, `nodeCancels`, `streams` | `NodeStreams` |
| Configuration store | `store.go`, `config_api.go`, `node_order.go` | `nodes.json`, `models.json`, their copy in memory, `server.nodes` | `ConfigStore`, `Configuration` |
| Desktop bridge | `bridge.go`, `bridge.js` | request bodies, cancel functions, pending answers | `Bridge` |
| Scope of the log page | `app.js` 200-356, 1600-1910, 2060-2330, 3006-3055 | selected, hidden and kept containers, the page's container cache, a search; their copy in `localStorage` | `LogScope` |
| Record feed | `main.go` 1268-1299, 3906-3964; `app.js` 1711-1758, 2604-2792; `bootstrap.js` | identifiers of records; the page's list, its stream and its polls | `LogFeed` |
| Assistant and AI providers | `app.js` 385-620, 735-790, 923-1232; `main.go` 2032-2121 | chats, the question asked, attachments; providers in a file or in `localStorage` | `Assistant`, `Providers` |
| Command workspace | `app.js` 3064-3970, 4027-4381 | flows, groups, runs, logs | `CommandFlows` |
| Terminals | `terminal.js`, `term_api.go` | tabs, output offsets, input queue, directory trees, text files | `Terminal` |
| Database workspace | `database.js` | tabs, drafts, loads, commits; picker, targets, designer, form | `Database`, `DatabaseEditor` |
| Redis workspace | `redis.js`, `redis.go`, `redis_namespace.go` | profiles, the key shown, texts typed | `Redis` |
| The rest | `database*.go`, SSH commands, rules, windows, texts | see section 6 | |

How they interact. The page calls HTTP handlers through the bridge. Handlers
and goroutines share `server` under one `sync.RWMutex`, `server.mu`; the
configuration store has a mutex of its own, taken inside it by the node
handlers. A node has one context: `connectNode` learns its host, then reads its
event stream; every container list it receives is compared, purged and
committed by `updateNodeContainers`, which starts one stream goroutine per
container and, per stream, a history load. Range requests from the page start
loads, too. A load reads pages from Dozzle without the lock and takes it for
every record. The page polls `/api/bootstrap` every three seconds beside an event
stream, and asks for the records of the containers it is scoped to on its own;
each work space of the page asks the service for itself. In the page one
handler runs at a time, up to its next `await`.

What is hard. In the service, decisions are taken under `server.mu` and carried
out after it is released: loads are launched, pages asked for, contexts
cancelled and renewed while nodes are edited, unbound and added, containers come
and go, and the user changes range or clears the cache. In the page the user goes
on while a request is on its way: its answer may belong to a selection, a
question, a tab, a form or a mode that is gone. Stale work is recognized by a
generation number, a nonce, a key, an owner, a token or a cancelled context, and
each of these is checked in one step and acted on in another. Writes of
configuration files fail or are cut off; the service restarts under its pages;
others write the same files and keys.

What makes each part correct is what the properties of section 3 say.

## 2. The modules

`MCx` is the instance of module `x` that TLC checks. Some runs hold two modules that
share no variable, and a behaviour of theirs is of one of the two: `MCNodes` has
`ConfigStore` and `NodeStreams`, `MCHosts` `CommandFlows` and `Terminal`. `x_proofs` holds theorems
about `x`, or about a part of the program that several modules model: `Nodes_proofs`
about `ConfigStore` and `NodeStreams`, `Page_proofs` about `Assistant`, `Providers`,
`LogScope` and `LogFeed`, `Databases_proofs` about `Database`, `DatabaseEditor` and
`Redis`. Such modules share no names, so that one module can extend them: what each has
of its own is `ScopeSpec`, `FeedSpec`, `StreamsSpec`, `TerminalSpec`, `RedisSpec` and so on. In the
modules of the service one action is one lock section of the
code, or one exchange with Dozzle or the file system; in those of the page one
action is a handler up to its next `await`, or what follows the answer. What a
goroutine or a handler captured is a record of its own (`launches`, `worker`,
`fetch`, `connection`, `tailer`, `save`, `syncs`, `runs`, `loads`, `asked`,
`ops`, `writes`). What users, other clients and networks may do is bounded in
the guards (`MaxClicks`, `MaxEvents`, `MaxMishaps`, ...), never by a constraint.
Variables that no action reads are ghosts: they record what a property speaks of.

### HistoryLoads and HistoryWindow

`generation`, `pending`, `loads`, `owner` are `historyGeneration`,
`historyPending`, `historyLoads`, `historyLoadGeneration`. `HandleLogRange` is
`handleLogRange` up to its unlock; it leaves the loads it decided on in
`launches`. `StartLoad` and `RefuseLaunch` are the two outcomes of
`launchHistoryFetchWindow`; `ReleaseLoad` and `CompleteHistoryFetch` are the two
deferred calls of its goroutine, in the order Go runs them, in lock sections of
their own. How deep a container is cached is an input (`Depths`) here and state
in `HistoryWindow`.

In `HistoryWindow` records are their ages, 1 being the newest; a range of depth
r is the ages 1..r. `shared` is `server.logs`, `cached` is `containerLogs`. A
load checks for room (`CheckRoom`), asks for a page (`RequestPage`), takes in
one record per step, oldest first (`IngestRecord`), and moves its upper bound
(`FinishPage`); it may be cut off, fail or end with the window marked
(`Completed`). Every action is an action of `HistoryLoads` conjoined with its
effect on the caches, or leaves `HistoryLoads` alone: `LoadsImplemented` is the
specification of `HistoryLoads`, fairness included. `AgesAssumption` says that ages
count records: every range is one, and so is the age before a record's. The code's
filter of the shared list, `WithoutNode`, is `Picked` of `ListFilter`: the elements
at the positions that stay, by the ranks of these positions. It is `SelectSeq`, in a
form the provers can look into. `Outgrown` names a record a container's full list is
too new for. `changed` is the handler's local of that name: whether the list differs
is decided before the unlock, and not again when it is committed. An edit of the node
while a list waits to be committed is no mishap: the run has it beside one.

Abstractions: all records of a container have different ages, so a page boundary
never falls between two records of one millisecond; time stands still and no
live record arrives; the list is not replaced by an import; a page is answered whole, at the moment it is asked for, or
fails; the generation check of a line and its append are one step, because
`appendRemoteLogForGeneration` makes both under the lock. Goroutines are alike,
so a load takes the first idle one.

### NodeStreams

`AddNode`, `UpdateNodeURL`, `UnbindNode` are the handlers; `Doom`/`CancelContext`
is the `cancel()` they call after unlocking. A connection is a record with its
place in `connectNode` and `updateNodeContainers`: fetch the host, set it,
listen, compare lists, purge, cancel what the purge collected, commit, renew the
context, start streams. A tailer is a stream goroutine with the key it will
release. Left out: nodes whose URL names one container, error texts, latency and
the configuration import; a restarted log stream is the same goroutine.

### ConfigStore and Configuration

`save` is the operation that holds `configStore.mu`, with what a failed write
puts back (`undo`, the code's `previous`). `WriteTemporary` and `Rename` are
`writeFileAtomic`; `WriteFails` may happen before either, `Restart` at any time.
`nodesFile` may be `Missing`, `Broken`, hand-edited or a list the store wrote.
`DropNodes`, `ListNodes`, `InstallNodes` are `reloadNodesFromStore` after an
import. A start reads both files or none: when either cannot be read the server has no
nodes, though the store may have read some. `unread` names those until the next import
or start. An address stands for a node's name, address and style, a key for a
provider's fields. `Configuration` is the promise: a request changes one of two
values or neither, and what it changed is what a start reads. An import is the
exception it states: its nodes are kept before its providers are.
`SanitizeStoredNodes` is the loop of that name, a function of how many entries it has
read; lists are filtered by `Picked`. `SortedByID` and `Ordered` are the lists whose
places are the ranks of their identifiers, and of the first mention of them: the code
deletes a node it has placed (`delete(byID, id)`), so an order that names one twice
means the first. `HandWritten` bounds how many entries a hand-edited file has.

### Bridge

The page's half is `Ask`, `Pack`, `Begin`, `Continue` (the request's way out),
`OnHead`, `OnChunk`, `OnEnd` (the answer's way in), `Abort`, `CancelStream` and
the loop of an EventSource; Go's half is `Body`, `Request`, `Cancel`, the handler
with its `bridgeWriter` and `Quit`, `CloseBridge` for the window. Messages keep
their order in each direction; each call has queues of its own, since the maps
of both sides are keyed by the call. Body chunks and pieces of an answer are
numbered; statuses and headers are left out. The page is loaded once.

### LogScope and LogFeed: the log page

`LogScope` is which nodes and containers are selected (`selectedNodes`,
`selectedContainers`), dropped or kept in the lists, and stored; every click
handler is an action, with its persisting and the requests it starts. A load of
selected containers (`LoadSelectedContainerLogs`) and a search over the whole
range take a slot and are answered later; of a cached page only its presence is kept
and whether it was fetched (`fetched`), since a batch of the stream makes an entry, too
(`FlushStream`); of a result what was asked for. A search has the key of the moment it
was typed and asks for the range, the containers and the text of the moment its timer
fires (`FireSearch`). A range request is served (`ServeRangePost`) with the range it
asks for, however often the page has changed its own since (`rangePosts`), and
answered later. `underway` is a poll's answer the service gave before its last change,
which the page may read after it. The service's own list changes once
(`ServerChanges`).

`LogFeed` is the page's record list `logs` with its three sources: polls
(`AskSync`, `AnswerSync`, `TakeSync`; a second request when the service turns out to
be another one, `AskRestarted`), the event stream (`StreamEvent`,
`FlushPendingStreamLogs`) and full reloads after a range change. A record is its
identifier and the service that gave it. Bounds: a restarted service numbers no
more records than the page has counted until the page notices, and nothing is
streamed while the page lacks a record that is `Slack` older: beyond both the
code loses records (section 5). `MergeLogs` puts each record at the place that the
newer ones leave it, among the first `Capacity` (`TakeNewest`); that is what the
code's filter, merge and cut come to for two lists that are in order.

### Assistant and Providers

`Assistant` is the chats, newest first, their copy in `localStorage`, the
question that is answered (its two awaits, head and body, are the stages of
`runs`), its abort by a new chat or analysis, and files that are read side by
side. `Providers` is where AI providers live: `mode` is unknown until the
service has answered (`ApplyStorageMode`), then the file's, whose list is read
and whose writes are requests with a prompt for the admin token, or this
browser's, whose every change is persisted. Both share no variable, so a
behaviour of the run is of one of them (`PageNext`).

### CommandFlows

Flows of lines in a main list and, as copies, in a group; `runs` are the runs of
`commandRuns` with the line they are at, `seqs` the sequences of a group or of
all flows. `SendLine`, `UploadAnswers`, `CommandAnswers`, `UploadAborted` are the
requests of a line; `Pause` aborts uploads and lets commands finish; every editor
action is one of the spec, and may fall between two lines of a run. What a run
does once it has a line's result comes before anything else, as promises do. The
filters of the editor (`Without`) and of the idle flows are `Picked` of `ListFilter`,
too. There are two more identifiers of lines than a flow has lines: a new line must
differ from those of its flow and from the one its run has sent and the user removed.

### Terminal

Tabs of shells with the output each has printed and the page has read
(`AskOutput`, `ReadOutput` with its offset, `LoseOutput`, `EndOutput`), input sent
one request after the other, also after the shell has ended, the directory and its
tree with the epoch that makes listings stale, removal of selected entries, and a text
file that is opened, or cannot be, and saved while it is edited. A node of the tree
has no list, the service's, or one of a single name, made up for the directory below
it (`Partial`). A save that has been answered lasts until the directory it concerns has
been listed (`SaveEnds`). The service keeps only the last `Replay` pieces of output.

### Database and DatabaseEditor

`Database` is the tabs of tables and SQL, the panes below them and drafted edits.
A table's rows live in its tab and, while it is current, in `ui.current`;
`CaptureTableState` and its counterpart copy the one to the other on every
switch. Loads, queries, saves and commits over several connections go on by the
steps of their answers. `uncounted` are the edits of a grid that a commit has left
without the values its rows were loaded with: they are in the grid, but `changes()` fails
on them. `clearConnectionTabs` closes its tables one after the other; in between a
table may be shown that is closed next, which leaves no trace, and `CloseTables` closes
them at once.

`DatabaseEditor` is what is around the SQL: the picker, the targets, the designer of
tables and the form of a connection; `nonce`, `request`, `preview` and `overtaken` count
what makes an answer outdated. The targets of a tab are `checked`, by the user's choice
once `explicit`; else the database in `focus` is the one. Choosing a whole connection
waits for its catalog (`groups`). A connection is saved or deleted by a request, after
which the page clears it from every tab and lists the connections anew (`changes`,
`ConnectionChanged`, `ConnectionsListed`); tabs are created and chosen and queries run
meanwhile. The two modules share nothing but the tab in front, which each keeps for
itself, so a behaviour is of one of them, and each has a run of its own.

### Redis

`ops` is the handler that waits for the service (`run` lets one at a time), with
the step it takes next; a value is a number, fresh for each text typed and each
value another client writes, and stands for its version. Saving compares what was
read, deleting a name space the keys of its preview. `connections` is the service's
list: the page reads it at first, to refresh, to manage and after it has saved or
removed a connection (`ListRead`, `ListedAfter`), while other pages add to it and remove
from it (`OtherPage`). A connection leads to the same databases for good.

## 3. The runs

| Run | Question | Properties | Bounds |
|---|---|---|---|
| `history_loads` | Is the load registry consistent in every interleaving, and is every load given back? | `RegistryIsSound`, `LoadReleased` | 1 node, 1 container, 2 load goroutines, 2 undone launches, 3 generations |
| `history_window` | Do loads write only what belongs to their request and the nodes there are, and mark only what they read? Does the page loop implement the registry? | `CachesAreSound`, `MarkedWindowIsCached`, `RecordsLeaveOldestFirst`, `StaleLoadsWriteNothing`, `LoadsImplemented` | a container of 3 records replaced by an empty one, pages of 2, a shared cache of 2, one mishap, and edits while a list is committed |
| `nodes` | Is a request all or nothing, in memory and on disk, and does the server run on the stored list? Has every registered stream a goroutine, and is a node stale only for a moment? | `ListsAgree`, `ConfigurationImplemented`, `StreamsAreSound`, `StaleNodesRecover` | 3 addresses, 2 identifiers, 2 imports, 2 orders; 1 node, 1 container that comes and goes, 2 contexts, 2 stream goroutines |
| `bridge` | Does the page get whole answers or errors, always an end, and does what it gave up end? | `BridgeIsSound`, `AnswerIsWhole`, `AbortIsHeard`, `EndsAreTold` | 1 call of any kind, 3 chunks of body, 3 pieces |
| `log_scope` | Do the selection, the lists and what is stored agree, is a search's result of its query, and is every selected container loaded? | `ScopeIsKept`, `SearchShownIsOfItsQuery`, `ScopeIsServed` | 2 nodes, 2 containers, 2 ranges, 3 clicks, one of which may be a mishap, 2 loads on their way |
| `log_feed` | Is each record listed once and in order, does a pause hold, does the page catch up? | `RecordListIsSound`, `PausedPageShowsNothingNew`, `FeedCatchesUp` | 3 records, a list of 2, 2 polls on their way, 1 restart, 1 pause or range change or failure |
| `assistant` | Is no question lost, does a wait end, is a question that was given up silent? Does each provider stay where it belongs? | `QuestionsSurviveReload`, `WaitIsSound`, `GivenUpIsSilent`, `WaitEnds`, `ProvidersStayHome`, `ProvidersAreKept` | 2 chats, 2 questions, 2 files read at once; 2 providers of each kind, 2 models, 5 clicks |
| `hosts` | Is a flow run once at a time, is success whole, does a batch stop, does every run end? Is output shown once and in order, input sent in order, a tree of its directory, a text called saved only when it is? | `RunsAreExclusive`, `SuccessIsWhole`, `BatchStopsAtFailure`, `RunsEnd`, `TabsAreSound`, `CleanTextIsSaved` | 4 flows, 2 lines, 2 runs, 1 edit; 2 tabs, 2 directories, one in the other, a replay of 1, 2 attempts, 4 events |
| `database` | Is no draft lost or committed twice, does busy end? | `WorkIsKept`, `BusyEnds` | 2 tables of 2 connections, 2 SQL tabs, 2 edits, 5 clicks |
| `database_editor` | Does no answer fill a form that is not its own, are targets chosen? | `AnswersFitForms`, `TargetsAreChosen` | 3 databases of 2 connections, 2 SQL tabs, 2 targets, 4 clicks |
| `closing_asks` | Does closing a table ask before it discards an edit? It does not: a violation | `ClosingAsks` | 1 table, 1 SQL tab, 2 edits, 8 clicks |
| `redis` | Is what is shown what is chosen, is no text lost, is nothing of another client overwritten unseen, does busy end? | `SelectionIsKept`, `OthersAreKept`, `RequestsEnd` | 2 connections, one listed at first, 3 keys, 3 values, 4 clicks, those on other pages included |

A property that is a conjunction names its parts in the module, each with the
behaviour of the code it is about; the type invariant is among them.

Why the bounds are enough to be interesting. Every hazard of the registry needs
two goroutines of one container and two generations, one old, one current; a
third generation lets both be outdated. Holes need a page boundary inside the
window (three records, pages of two) and eviction one record more than a cache
holds. A node that is removed and added again needs one identifier; the second
context of a connection makes a stale one meet a live one. Order and re-use of
identifiers show with two nodes, one of them unusable. Two cases of `history_window`
are not in its instance, a container's list smaller than the shared one and the drop
of one of two nodes; the theorems cover them. In the page, a late
answer needs the request, a click that outdates it and one that makes it matter:
three clicks, five where a form has to be opened first; two requests on their
way show every overtaking. `closing_asks` needs six: open a table, edit it,
commit, show its tab again while it is loaded, which fails, edit it and close it; with
one table eight clicks are cheap. Lists are checked one element beyond their limit.
Two runs, tabs, tables or connections are enough to mistake one for the other.

Fairness. In `HistoryLoads` and `HistoryWindow` the steps of each load goroutine
that has started are weakly fair: the Go scheduler runs it, and every exchange
with Dozzle has a time limit. Requests, launches, node changes and failures are
never forced. In `NodeStreams` the steps of a handler from comparing a list to
committing it, and the `cancel()` after an edit, are weakly fair; receiving a
list and connecting are not. `ConfigStore` and `Terminal` state no liveness. In
`Bridge` the two message loops, the deferred calls and the closing of the bridge
are weakly fair, and a handler returns once its context is cancelled. In the page
the timers run (`PollSync`, `FlushPendingStreamLogs`, `SyncGoBackend`) and a
request is answered or fails in the end, since every `fetch` of the page settles
when the service answers or its connection ends:
`LogScope`, `LogFeed`, `Assistant`, `CommandFlows`, `Database` and `Redis` are
weakly fair in that and in nothing the user does. Where an answer need not be a
success, its failure counts (`Database`, `Redis`, `CommandFlows`); `FeedCatchesUp`
and `ScopeIsServed` hold because failures are bounded by `MaxEvents` and
`MaxMishaps`.

Deadlock checking is off where the caps on the counters may stop the model.

## 4. The proofs

`HistoryWindow_proofs` proves, first, `RegistryIsSound` of `HistoryLoads`, for all sets
of nodes, containers, requests and goroutines and all bounds: type correctness,
`LoadHasOwner`, `CurrentLoadRegistered`, `OneLoadPerWindow`,
`LoadingNotUnderreported`, and the action property `RangeRequestRestartsCount`.
The invariants are inductive only together and only once it is known that no
goroutine carries a generation ahead of the server's: that is the inductive
invariant, `Ownership`. Without it a release could match the owner of a load it
does not own, since `OwnsLoad` compares generations only. The proof takes one
step per action; a step that leaves the registry alone is covered by one lemma,
and the count by lemmas on the cardinality of the set of current loads.

Then it proves the rest of the history, for every page size and every capacity of the two caches. Every action is one of a few effects on the
caches (`CacheEffect`: it leaves them alone, drops a node, purges containers,
empties, marks or appends), so that `CachesAreSound` is proved effect by effect.
What filtering, inserting and cutting the shared list keep is stated in lemmas by
the positions records come from. `LoadsImplementedSafely` is the safety half of
the refinement: the initial states are those of `HistoryLoads`, and every step is
one of its steps or leaves its variables alone; the registry's invariants then hold
here as well (`RegistryIsSoundWithData`). `MarkedWindowIsCached` needs to know, of
every load at every place, what it has read so far: `WindowsRead` says that every
record down to its page is cached or outgrown, and every record of its page is that
or still on it (`ReadTo`, `Had`), unless the load is one that was emptied or will
not mark. `StaleLoadsWriteNothing` and `RecordsLeaveOldestFirst` are action
properties that follow from the types and the order of the list. Proving found two
statements that the small instance had passed and two nodes or a longer shared list
refute: that the shared list keeps the newest records of every container (dropping
one node makes room that nothing fills; `RecordsLeaveOldestFirst` says what is true
of the steps), and that it never holds a record twice (it may, once the container's
own list has outgrown it: section 5).

`Nodes_proofs` proves, of the streams, `StreamsAreSound`: type correctness,
`StreamHasTailer` and `StaleIsTransient`. The inductive invariant,
`Registration`, adds `Underway`: what a goroutine at each place knows (a handler
that purges has seen a change, one that starts streams has a context to start
them with, one that has connected knows an address), and that a context nobody
created has no goroutine.

Of the store it proves `ListsAgree` and that it implements `Configuration`, step by
step. `ListsAgree` speaks of moments at which nothing is being saved; what holds in
between is `ConfigKept`. `SaveKept` says what an operation has in memory, in its file
and in `undo` at each place, so that a failed write puts back the list the server
shows (but for the nodes that the last start could not show); `ReloadKept`, how far a
reload of the list is behind the store, and that nothing is added to the list while it
is read and installed. In the refinement the
beginning of a request and a failed one are stutters, `Rename` is the step of
`Configuration`, and the first of an import's two files is its `ImportNodes`. What a
start reads must then be what was written: `SanitizeStoredNodes` leaves a list alone
that the store wrote, which takes an induction over the entries it has read
(`AllCleaned`, by `LeastNatural`), as does that its result is always a list without
repeated identifiers. Both theorems have the hypothesis `AddDuringReload = FALSE`: a
node that is added while an import reloads the list is a known deviation (section 5),
which the constant excludes.

`Bridge_proofs` proves all the invariants of `Bridge`, for every set of calls, size
of a body and number of pieces, by four invariants on top of each other.
`Kept` is for `ClosedBridgeIsIdle`: what runs must be known to be registered, or
closing the bridge could not cancel it (`Registered`), and a call that has not
begun must have nothing in its queues (`Phased`). `Waiting` is for
`WaitingCallsAreCarried`: lemmas say what a queue holds after an append, a
concatenation and the removal of its head, one lemma lifts a step of one call to
all the others, and each action hands the call on from one disjunct of `Carried`
to another. `Uploads` is for `AbortIsHeard`: at most one message of `start()` and
one cancel are on their way to Go, in one of five orders (`Posting`); what Go has
buffered is what has been handed over, or lacks its first chunk since a cancel
overtook it (`Buffered`); nothing is said after the end (`Ended`). Only then is a
whole body proof that the cancel was not lost. `Answers` is for `AnswerIsWhole`:
while the page waits, what it has received, what is in the queue and what is in the
writer's buffer are consecutive pieces up to the last one written (`Chained`, a
sequence of bounds, which a concatenation composes), and nothing follows the end
(`Orderly`).

`Page_proofs` proves, of the chats, `QuestionsSurviveReload`, `WaitIsSound` and the
action property `GivenUpIsSilent`, for every number of chats, messages, files and
questions. The invariant is `ChatKept`: the list names each chat once and is stored as
it is, so that whatever moves the chat that is shown to the front keeps its questions
(`ChatsKept`; that an identifier for a new chat is always free is the pigeonhole
principle), and no request but the one that is waited for could be answered aloud
(`AsksKept`), which an abort achieves and a late answer cannot undo.

Of the providers it proves `ProvidersStayHome`. The property is not inductive: it
says nothing of a provider in the form, of a write on its way or of a page that
does not know its mode yet, each of which could carry a provider over with the
next click. `Separated` adds that a page that reads or writes the file is in file
mode, that any other holds no provider of the file, in its list or its form, and
that the mode is the service's or unknown. One lemma, `Persisting`, serves every
handler that ends in `persistAIProfiles`; a handler that ran before the mode was
known sets `guessed`, and then there is nothing to show. A second invariant,
`Stored`, gives `ProvidersAreKept`: identifiers name providers (`Named`), what is
chosen is one of the list (`Chosen`), and in this browser's mode the list shown is
the list stored (`Mirrored`).

Of the scope it proves `ScopeIsKept` and `SearchShownIsOfItsQuery`, for all nodes,
containers and ranges. `PageKept` adds that the chosen nodes and containers are lists
without repetition of nodes that exist, which toggling, moving and cleaning up keep;
and that every question on its way was asked of the scope and the text its nonce
stands for, so that one which is still current answers what is shown; a
timer's key is still that of the page's range unless a poll has moved it (`TimerKept`). Of the feed it
proves `RecordListIsSound` and the action property `PausedPageShowsNothingNew`, for
every capacity and every number of restarts of the service. The list is ordered and
holds no record twice, and yet that is not inductive: a batch, an answer or the buffer
could bring two records of one identifier, one from before a restart. `FeedSound` adds
that all records on their way are of the service that is there, numbered by it
(`ServiceSound`, `LinkSound`, `SyncsSound`), and that a pause leaves nothing on its
way. What sorting, merging and cutting do to a list is stated in lemmas by the number
of newer records.

`Terminal_proofs` proves `TabsAreSound` and `CleanTextIsSaved`, for every number of
tabs, directory and size of the replay. Its invariant is a conjunction of parts with
variables of their own: tabs (`TabsKept`), input (`InputKept`: what the shell got,
the one chunk on its way and what waits are in the order typed), output
(`OutputKept`: what is in the air goes on where the page's offset is), listings
(`TreeKept`: one that was asked for before the tree was cleared is of an earlier
epoch; a made-up list of the root has a listed directory below it) and texts (`DocsKept`). Each is proved against the actions that write one of
its variables.

`Databases_proofs` proves `WorkIsKept` of the database page, for all tables,
connections, SQL tabs and edits. A draft is in up to two places, the tab of its table and
the grid, and at any moment it may be on its way in a save, in one group of a commit, or
about to be overwritten by a load. The invariant, `WorkSound`, says what keeps these
apart. What a tab holds of the current table is never newer than the grid, so that
capturing loses nothing (`UIKept`, with the panes and their order). An edit is of one
table or of results, and of the connection it was made for (`EditsSound`). A table that
loads holds nothing but what was saved or what the user agreed to lose, and one that
saves has sent all it holds (`TablesSound`); the load that follows a save is the only
one and nothing else is sent meanwhile (`LoadsSound`); a commit has sent all its tables
hold, which hold nothing of it once they are loaded again (`CommitSound`). Every change
of the page is the composition of a few functions of `ui` (capture, restore, activate,
close): lemmas say of each what it keeps of a page that is sound, of its drafts and of
its SQL tabs, and there is one lemma per handler. `WorkStays` is of the page alone,
`WorkStaysBeside` of the specification the run checks.

Of the editor around the SQL it proves `AnswersFitForms`: an answer
of the picker, the designer or the password dialog is taken in only by the form that
asked. `EditorKept` says of each what its open requests may still be about: those of an
earlier opening have an older nonce, those of this one fit its text, table or source
(`PickerKept`, `DesignKept`, `PasswordKept`).

Of the targets of a query it proves the action property `TargetsAreChosen`. Several
requests may wait for one catalog and go on one after the other (`AllPicked`), each
writing the set the one before has left. That the function behind it exists, and that no
step of it touches another tab or lets an overtaken request write, is proved by the least
place where it would fail. `TargetsKept` adds that an overtaken request is of an earlier
epoch, which is what the page compares, and that a tab which has not been created has
nothing chosen.

Of the Redis page it proves `SelectionIsKept` and the action property `OthersAreKept`, for
all connections, keys and values. Its invariant says of the one handler that waits
what its answer may rely on (`OpKept`): the connection it was asked of is the one
chosen, the text it may replace has been given up or written, and the version it may
overwrite is one that no other client has replaced. `RestKept` adds that the page has only
connections that are listed or were.

`CommandFlows_proofs` proves `RunsAreExclusive`, `SuccessIsWhole` and
`BatchStopsAtFailure`, for every number of flows, lines, runs and edits. None is
inductive: that a flow has one run needs that the registry names the live run
(`RunsKept`) and that no flow is listed or awaited twice (`ListsKept`,
`SeqsKept`), since a list in parallel mode starts all its idle flows at once; that a
batch stops needs what its sequence believes of the runs behind it. The invariant,
`Kept`, has one lemma per handler; those of the editor share what duplicating,
inserting and filtering do to a list that names nothing twice. The attempt found the
model's identifiers too few: with as many as lines plus one, a full flow whose sent
line was removed leaves none for a new line. The instance had room for one edit and
could not show it.

`ListLemmas` holds what several of them need about numbers and lists. The induction
theorems of the library take an operator and cannot be used; `LeastNatural`, that a
set of naturals has a least element, is proved from the pigeonhole principle for
finite sets and stands for them. From it follow what `Min` chooses, that the function behind `AllPicked` exists, and that the ranks
of a finite set are dense, which is what filtering a list by ranks needs (`Picked`
returns the elements at the chosen places, in their order), and so does enumerating a
finite set of numbers upwards (`Enumerates`).

The proofs assume the named ASSUMEs of the modules, which TLC evaluates in the
runs, and nothing else but the hypothesis on `AddDuringReload` above.

Only model-checked: liveness under fairness (`LoadReleased`, `StaleNodesRecover`,
`ScopeIsServed`, `FeedCatchesUp`, `EndsAreTold`, `BusyEnds`, `WaitEnds`, `RunsEnd`, `RequestsEnd`)
and the fairness half of `LoadsImplemented`, which need ENABLED. Library operators that
are declared RECURSIVE, or whose definition the provers cannot look into
(`SelectSeq`), are not used in what is proved about.

## 5. Known deviations

Behaviours of the code against what a comment or a message of it says, or that
lose what the user did. The models contain those marked (m); the properties
excuse them, by a ghost variable, a bound or an exception they name; of one a run shows
that it contradicts the documentation. The others were met while
reading and lie outside what is modelled.

Service:

- (m) `unbindNode`, `updateNode` and `reloadNodeHistory` advance the generation
  without restarting `historyPending`; the loads that were counted are then
  ignored, and `historyLoading` stays true (`main.go:2834`, against the test at
  `main_test.go:633`).
- (m) A page that breaks off, oldest record first, leaves a hole; the next load
  resumes below the oldest cached record (`main.go:1720`, against 1637).
- (m) A page answered after the new list is committed brings removed containers
  back, and twice into the shared cache when they are loaded again
  (`main.go:3450`, against 264).
- (m) A wider range asked for while its containers load is never fetched
  (`main.go:1844`, against 1637).
- (m) The handler of a changed list runs in the context its own purge cancelled
  and starts no streams (`main.go:3019`, against 3012).
- (m) Clearing the log cache while a load runs lets it mark a window whose
  records are gone.
- (m) Records are de-duplicated against the container's own list, which holds 5000,
  not against the larger list of the dashboard: a load that reads an older record
  again shows it twice (`main.go:3966`, against 1728).
- (m) A handler of a node's old address that has passed the host check commits
  its list to the edited node; a stream goroutine of it that ends late deletes
  the registration of its successor.
- (m) A node added while an import reloads the list is stored but not shown
  (`main.go:1195`, `AddDuringReload`); a service that started with an unreadable
  `nodes.json` replaces it with the first node added (`main.go:1072`).
- (m) A service that starts with either file unreadable shows no nodes, also those its
  store has read (`main.go:1171`, `store.go:349`); they cannot be edited or removed, and
  the list shown is not the stored one (`unread`).
- (m) An import whose second file cannot be written leaves the first on disk.
- (m) An upload that is aborted goes on: the rest of the file is handed over and
  its request made without its beginning (`bridge.js:66`, against `app.js:3867`).
- A dashboard whose four-entry channel is full misses a record until the next
  poll (`main.go:3955`); a lost log stream misses what was logged until it is
  back (`main.go:3766`); a node whose host cannot be fetched once is never
  connected again (`main.go:3133`).

Log page:

- (m) A search is shown under the range it was typed for; if a poll moves the range
  before the timer fires, its records are of another one (`app.js:1682`, 1691).
- (m) A strict reload empties the page's container cache. When a batch of the stream makes
  an entry, with live records only, before the next poll has fetched the container
  again, the entry is taken for a loaded one and the container's history is not asked
  for until the selection changes or the cache is cleared (`app.js:4451`, 2726, 1784).
  `ScopeIsServed` makes the exception.
- Incremental polls start 2000 below the newest identifier, so a page that lacks
  older ones never gets them (`app.js:2616`); a restart is not noticed when the
  new service has counted as far as the old (`app.js:2622`).
- A late incremental answer brings back records a strict reload has purged
  (`app.js:2650`); a page opened while the service is down never polls
  (`bootstrap.js:28`); a container load of an old range overwrites the cache of
  the new one (`app.js:1791`); rolling a rule back undoes changes made since
  (`app.js:1960`).

Assistant and providers:

- (m) Until the service has answered, the page treats a visitor's providers as
  the file's: a save uploads the key (the service refuses it), and choosing the
  default model overwrites the browser's providers with an empty list
  (`app.js:532-538`, 1084, against 2838-2840). The ghost `guessed` excuses it.
- (m) The answer that lists the file's providers may be older than a save and
  drops it from the page (`app.js:514`); models added to or removed from a file's
  provider reach the file only with the next save of the form (`app.js:1146`,
  1178); a wrong admin token is kept, and every later write refused
  (`app.js:1033`).
- (m) A chat that is left while its question is answered: the answer lands in the
  chat shown (`app.js:1219`); an abort while the body is read leaves an empty
  answer. Two files read at once exceed the total, not the count (`app.js:760`).
- Several windows overwrite each other's chats, providers and flows.

Command workspace:

- (m) Removing or importing lines while a flow runs may leave its run registered
  for ever (`stage = "lost"`, against `app.js:3873`); a moved line's status is
  read as another's; a sequence walks the live list.
- The debounced save (400 ms) is lost on reload or overtakes another; a pause in
  the 380 ms before a line does not stop it; a log started while logs are loaded
  is overwritten.

Terminal:

- (m) `deleteSelected` reads the active tab again after each await and removes
  from another server (`terminal.js:395`, against `i18n.js:214`); a listing asked
  for by an action is of whatever tab is active.
- (m) A service that skips output for a slow reader makes the next read repeat
  some; an answer to a closed tab leaves its shell to the service's limit of
  sessions. A save whose answer is lost makes the next one conflict.
- (m) A directory above the one that is listed gets a list of one name; when its own
  listing fails it is left with it and is taken for listed: opening it in the tree asks
  for nothing (`terminal.js:297`, 599).

Database:

- (m) A commit of all edits empties the values the current table was loaded with. When a
  tab is shown before the table has been loaded again, the rows are kept without them;
  when that load then fails, what is typed into the table next is in the grid but not
  counted, and closing the table discards it without a question (`database.js:1345`, 595, 958, against
  `README.md:94`). The run `closing_asks` shows it; `WorkIsKept` excuses such edits
  (`uncounted`). A table that has only new rows is not distinguished from one with loaded
  values.
- (m) A connection that is removed or saved loses its targets in every SQL tab, also in
  one whose query runs; a catalog that was waited for may add a removed one again
  (`database.js:657`, 748, 726), and a database in focus stays in focus when another page
  has removed its connection, and may be picked (752). `TargetsAreChosen` says so.
- (m) A load that ends while a result pane is shown is overwritten when the table
  is captured; drafts the user agreed to discard are committed while the reload
  is on its way.
- A lost answer of `changes` inserts twice on retry; applying a schema after the
  dialog was closed acts on whatever is current (`database.js:1629`); reloading
  the page drops drafts without asking (`database.js:1071`); a query that runs
  while its connection is removed still shows its result.

Redis:

- (m) A save that is written but not read back conflicts with the next
  (`redis.js`); the token of a name space covers names of keys, not values
  (`redis_namespace.go:74`).
- (m) When the list of connections is read anew and lacks the chosen one, because
  another page has removed it, the list is replaced before the user is asked for the
  draft, and a draft that is kept keeps the connection with it (`redis.js:257`, 260). The
  removal of another connection does not look at the chosen one. `unlisted` excuses both.
- (m) Changing the type in the dialog of a new key replaces a typed text unasked
  (`redis.js:292`). The ghost `replaced` excuses it.

## 6. Not modelled, and what is left

- The database service (`database*.go`): pools, SQL for four engines and
  progress. The page's requests are modelled; what a database answers is chosen
  freely.
- SSH commands of the service (`main.go`): one request each, without state
  between two. Their runs are in `CommandFlows`.
- Around the SQL editor: a connection that is new, the reordering of connections and the
  closing of SQL tabs (which is in `Database`). Around Redis: a connection that is edited
  to lead elsewhere, the reordering of connections, saving an empty or untyped text.
- The moment between reading and replacing a text file in `term_text.go`, in which
  another writer is overwritten.
- Rules and alerts: optimistic edits of a list with a rollback. Next in line.
- The whole-file stores of commands and logs and their debounced saves; the
  reaper of terminal sessions; records of one millisecond split over two pages; a
  Dozzle that replays history over a stream.
- Desktop windows: the operating system's calls. Quitting is in `Bridge`.
- Texts, menus, layout, completion and the SQL recognizer: no state that other
  parts depend on. Vendored code and build scripts.

Proofs left: no invariant and no action property of a run; what is left is liveness.
