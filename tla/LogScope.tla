------------------------------- MODULE LogScope -------------------------------
(***************************************************************************)
(* The scope of the log page: which nodes and containers are selected,     *)
(* which containers the user has dropped from the lists, what of this      *)
(* survives a reload, and the records the page fetches for its scope (the   *)
(* container cache and the full-range search).                             *)
(*                                                                         *)
(* Every handler of the page runs to its end before another starts; a      *)
(* fetch or a timer splits it.  A container key is a container here, with  *)
(* the node it names.  Of a cached page only its presence is kept, and      *)
(* whether it was fetched; of a search result what was asked for.  The     *)
(* record feed and the handlers' effects on it are in LogFeed; older pages *)
(* are not modelled.                                                       *)
(***************************************************************************)
EXTENDS Naturals, FiniteSets, SequencesExt, ListFilter

CONSTANTS
  Nodes,       \* node identifiers
  Containers,  \* container keys
  NodeOf,      \* containerKeyNodeId
  HistoryRanges, \* the values of the range selector
  DefaultRange, \* state.range of a fresh page
  Texts,       \* what the user may type in the search box
  Lists,       \* what the server's node list may become: nodes and their containers
  MaxClicks,   \* bound on what the user does and what goes wrong, together
  MaxMishaps,  \* bound on the requests that fail and on what others change
  Slots        \* bound on the loads in flight

NoText == "none"
NoLoad == [key |-> <<>>, pending |-> {}, loading |-> FALSE, failed |-> FALSE]
NoTimer == [key |-> <<>>, moved |-> FALSE]
NoSearch == [key |-> <<>>, moved |-> FALSE, asked |-> <<>>]

ASSUME NodeOfAssumption == NodeOf \in [Containers -> Nodes]
ASSUME TextsAssumption == NoText \notin Texts
ASSUME ListsAssumption ==
  \A l \in Lists : l.nodes \subseteq Nodes /\ l.containers \subseteq {c \in Containers : NodeOf[c] \in l.nodes}
ASSUME RangesAssumption == DefaultRange \in HistoryRanges
ASSUME ScopeBoundsAssumption == MaxClicks \in Nat /\ MaxMishaps \in Nat

VARIABLES
  server,              \* the service's node list and its history range
  underway,            \* what it answered before its last change, still on its way
  shown, discovered,   \* the nodes of the page's list, their containers
  selectedNodes, selectedContainers, multiSelect,
  hiddenContainers, keptContainers,
  storedScope, storageWorks,  \* localStorage, and whether this browser allows it
  range, paused, connected,
  rangePosts,          \* the range requests that are not answered
  cache,               \* the containers that have an entry of records
  fetched,             \* history: those whose entry came from a load
  loadedKey, loads, retryKey,
  query, globalQuery, searchTimer, searches, found,
  clicks, mishaps

scopeVars == <<selectedNodes, selectedContainers, multiSelect>>
listVars == <<hiddenContainers, keptContainers>>
answerVars == <<server, underway>>
nodeVars == <<answerVars, shown, discovered>>
feedVars == <<range, paused, connected, rangePosts>>
cacheVars == <<cache, fetched>>
loadVars == <<cacheVars, loadedKey, loads, retryKey>>
searchVars == <<searchTimer, searches, found>>
textVars == <<query, globalQuery>>
boundVars == <<clicks, mishaps>>
logPageVars == <<nodeVars, scopeVars, listVars, storedScope, storageWorks, feedVars,
                loadVars, searchVars, textVars, boundVars>>

Of(nodes) == {c \in Containers : NodeOf[c] \in nodes}
Within(keys, S) == Picked(keys, {i \in DOMAIN keys : keys[i] \in S})

\* What the sidebar lists, and what a node's connection card offers: its
\* containers, the restore button, and the buttons of the ticked ones.
Sidebar == discovered \ hiddenContainers
Card(n) == [listed |-> Sidebar \cap Of({n}),
            dropped |-> discovered \cap hiddenContainers \cap Of({n}),
            kept |-> keptContainers \cap Of({n})]

\* selectedContainerTargets: the selected containers the page still lists.
Targets(keys, list) == ToSet(keys) \cap list

\* fullRangeSearchKey; <<>> for none.
SearchKey(scope, text, other, r) ==
  IF other \/ text = NoText \/ scope = <<>> THEN <<>> ELSE <<r, scope, text>>
CurrentSearchKey == SearchKey(selectedContainers, query, globalQuery, range)

Slot == [key : Seq(Containers), pending : SUBSET Containers,
         loading : BOOLEAN, failed : BOOLEAN]

\* A range request: the click it is of, what it asks for, whether a later one
\* has replaced it (historyRequestVersion) and whether the service has served it.
RangePost == [click : 1..MaxClicks, range : HistoryRanges, current : BOOLEAN, served : BOOLEAN]

ScopeInit ==
  /\ server = [list |-> [nodes |-> Nodes, containers |-> Containers], range |-> DefaultRange]
  /\ storageWorks \in BOOLEAN
  /\ \E multi \in {storageWorks, FALSE} :
       storedScope = [nodes |-> <<>>, containers |-> <<>>, multi |-> multi, hidden |-> {}]
  /\ underway = {} /\ shown = {} /\ discovered = {}
  /\ selectedNodes = <<>> /\ selectedContainers = <<>> /\ multiSelect = storedScope.multi
  /\ hiddenContainers = {} /\ keptContainers = {}
  /\ range = DefaultRange /\ paused = FALSE /\ connected = FALSE /\ rangePosts = {}
  /\ cache = {} /\ fetched = {} /\ loadedKey = <<>> /\ loads = [s \in Slots |-> NoLoad] /\ retryKey = <<>>
  /\ query = NoText /\ globalQuery = FALSE
  /\ searchTimer = NoTimer /\ searches = {} /\ found = NoSearch
  /\ clicks = 0 /\ mishaps = 0

(***************************************************************************)
(* What the handlers share.                                                *)
(***************************************************************************)
Free == {s \in Slots : loads[s] = NoLoad}
Click == /\ clicks + mishaps < MaxClicks /\ clicks' = clicks + 1
         /\ Free # {} /\ UNCHANGED mishaps
Mishap == /\ clicks + mishaps < MaxClicks /\ mishaps < MaxMishaps
          /\ mishaps' = mishaps + 1 /\ UNCHANGED clicks

\* persistSelection and persistHiddenContainers, after the page's own state.
Persist == storedScope' =
  IF storageWorks THEN [nodes |-> selectedNodes', containers |-> selectedContainers',
                        multi |-> multiSelect', hidden |-> hiddenContainers']
                  ELSE storedScope

\* clearFullRangeSearch: the timer is gone, a fetch in flight is out of date.
ClearFullRangeSearch ==
  /\ searchTimer' = NoTimer
  /\ searches' = {[s EXCEPT !.current = FALSE] : s \in searches}
  /\ found' = NoSearch

DropCache == cache' = {} /\ fetched' = {}

AlreadyLoadedByScope(targets) == loadedKey' = selectedContainers' \* Mutant: a dropped cache is not fetched again

\* Whether a load is skipped: the scope has been loaded and every container of
\* it has an entry.
AlreadyLoaded(targets) == loadedKey' = selectedContainers' /\ targets \subseteq cache'

\* loadSelectedContainerLogs up to its first await, over the state the handler
\* has left: cache', loadedKey' and the scope are set before.
LoadSelectedContainerLogs ==
  LET targets == Targets(selectedContainers', discovered')
  IN CASE paused' \/ targets = {} \/ ~connected' -> retryKey' = <<>> /\ loads' = loads
       [] AlreadyLoaded(targets) -> UNCHANGED <<retryKey, loads>>
       [] OTHER -> \E s \in Free :
            /\ loads' = [loads EXCEPT ![s] = [NoLoad EXCEPT !.key = selectedContainers',
                                                            !.pending = targets]]
            /\ UNCHANGED retryKey

\* The end of every handler that changes the scope.
RefreshScope ==
  /\ ClearFullRangeSearch
  /\ DropCache /\ loadedKey' = <<>>
  /\ Persist
  /\ LoadSelectedContainerLogs

KeepScope == UNCHANGED <<loadVars, searchVars>>

(***************************************************************************)
(* The sidebar: nodes, containers and the multi-select switch.             *)
(***************************************************************************)
SidebarFrame == UNCHANGED <<nodeVars, listVars, storageWorks, feedVars, textVars>>

ClickNodeKeeping(n) == \* Mutant: a click on another node keeps the containers of the last
  LET deselect == multiSelect /\ Contains(selectedNodes, n)
  IN /\ Click /\ n \in shown
     /\ selectedNodes' = CASE deselect -> Within(selectedNodes, Nodes \ {n})
                           [] multiSelect /\ ~deselect -> Append(selectedNodes, n)
                           [] OTHER -> <<n>>
     /\ selectedContainers' = IF deselect THEN Within(selectedContainers, Of(ToSet(selectedNodes')))
                                           ELSE selectedContainers
     /\ UNCHANGED multiSelect /\ SidebarFrame /\ RefreshScope

ClickNode(n) ==
  LET deselect == multiSelect /\ Contains(selectedNodes, n)
  IN /\ Click /\ n \in shown
     /\ selectedNodes' = CASE deselect -> Within(selectedNodes, Nodes \ {n})
                           [] multiSelect /\ ~deselect -> Append(selectedNodes, n)
                           [] OTHER -> <<n>>
     /\ selectedContainers' = IF multiSelect
          THEN IF deselect THEN Within(selectedContainers, Of(ToSet(selectedNodes')))
                           ELSE selectedContainers
          ELSE <<>>
     /\ UNCHANGED multiSelect /\ SidebarFrame /\ RefreshScope

Toggled(c) == IF Contains(selectedContainers, c)
              THEN Within(selectedContainers, Containers \ {c})
              ELSE Append(selectedContainers, c)

ClickContainer(c) ==
  /\ Click /\ c \in Sidebar
  /\ selectedContainers' = IF multiSelect THEN Toggled(c)
                                          ELSE Within(Toggled(c), Of({NodeOf[c]}))
  /\ selectedNodes' = IF ~multiSelect THEN <<NodeOf[c]>>
                      ELSE IF Contains(selectedNodes, NodeOf[c]) THEN selectedNodes
                      ELSE Append(selectedNodes, NodeOf[c])
  /\ UNCHANGED multiSelect /\ SidebarFrame /\ RefreshScope

SetMultiSelect(enabled) ==
  /\ Click /\ enabled # multiSelect
  /\ multiSelect' = enabled /\ SidebarFrame
  /\ IF ~enabled /\ Len(selectedNodes) > 1
     THEN /\ selectedNodes' = SubSeq(selectedNodes, 1, 1)
          /\ selectedContainers' = Within(selectedContainers, Of(ToSet(selectedNodes')))
          /\ RefreshScope
     ELSE UNCHANGED <<selectedNodes, selectedContainers>> /\ Persist /\ KeepScope

(***************************************************************************)
(* The connection cards: containers dropped from the lists and put back.   *)
(***************************************************************************)
CardFrame == UNCHANGED <<nodeVars, selectedNodes, multiSelect, storageWorks, feedVars, textVars>>

\* dropContainersFromScope, after the hidden set has changed.

DropContainersFromScope(keys) ==
  IF ToSet(selectedContainers) \cap keys = {}
  THEN UNCHANGED selectedContainers /\ Persist /\ KeepScope
  ELSE selectedContainers' = Within(selectedContainers, Containers \ keys) /\ RefreshScope

HideContainer(c) ==
  /\ Click /\ c \in Card(NodeOf[c]).listed
  /\ hiddenContainers' = hiddenContainers \cup {c}
  /\ keptContainers' = keptContainers \ {c}
  /\ CardFrame
  /\ DropContainersFromScope({c})

RestoreContainers(n) ==
  /\ Click /\ n \in shown /\ Card(n).dropped # {}
  /\ hiddenContainers' = hiddenContainers \ Of({n})
  /\ UNCHANGED <<selectedContainers, keptContainers>> /\ CardFrame /\ Persist /\ KeepScope

\* toggleConnectionContainerKeep, and clearConnectionContainerKeep.
ToggleKeep(c) ==
  /\ Click /\ c \in Card(NodeOf[c]).listed
  /\ keptContainers' = (keptContainers \ {c}) \cup ({c} \ keptContainers)
  /\ UNCHANGED <<selectedContainers, hiddenContainers, storedScope>> /\ KeepScope /\ CardFrame

ClearKeep(n) ==
  /\ Click /\ n \in shown /\ Card(n).kept # {}
  /\ keptContainers' = keptContainers \ Of({n})
  /\ UNCHANGED <<selectedContainers, hiddenContainers, storedScope>> /\ KeepScope /\ CardFrame

RemoveOtherContainers(n) ==
  LET kept == Card(n).kept
      dropped == (discovered \cap Of({n})) \ (kept \cup hiddenContainers)
  IN /\ Click /\ n \in shown /\ kept # {}
     /\ hiddenContainers' = hiddenContainers \cup dropped
     /\ keptContainers' = keptContainers \ Of({n})
     /\ CardFrame
     /\ DropContainersFromScope(dropped)

(***************************************************************************)
(* What the server answers: the node list, an unbinding.                   *)
(***************************************************************************)
RestFrame == UNCHANGED <<scopeVars, listVars, storedScope, storageWorks, feedVars, loadVars,
                         searchVars, textVars>>

\* The service changes while an answer is on its way, or while none is.
ServiceBecomes(list, r) ==
  /\ server' = [list |-> list, range |-> r]
  /\ underway' \in {underway, {server}}

\* The list of the service changes: containers come and go, other pages edit.
ServerChanges(l, r) ==
  /\ Mishap
  /\ ServiceBecomes(l, r)
  /\ UNCHANGED <<shown, discovered>> /\ RestFrame

\* syncGoBackend: what it does with the nodes, the containers and the range of
\* an answer.  Its records are in LogFeed.
SyncGoBackend(answer) ==
  /\ Free # {}
  /\ underway' = underway \ {answer}
  /\ shown' = answer.list.nodes /\ discovered' = answer.list.containers
  /\ range' = answer.range /\ connected' = TRUE
  /\ selectedNodes' = Within(selectedNodes, shown')
  /\ selectedContainers' = Within(selectedContainers, Of(ToSet(selectedNodes')))
  /\ searchTimer' = [key |-> searchTimer.key,
                      moved |-> searchTimer.moved \/ (searchTimer.key # <<>> /\ range' # range)]
  /\ UNCHANGED <<multiSelect, paused, cacheVars, loadedKey, listVars>>
  /\ Persist
  /\ IF paused \/ selectedContainers' = <<>> THEN UNCHANGED <<loads, retryKey>>
                                          ELSE LoadSelectedContainerLogs
  /\ UNCHANGED <<server, storageWorks, rangePosts, searches, found, textVars, boundVars>>

\* The page polls every three seconds while it is not paused; a paused page
\* polls after a range request, and what was asked before still arrives.
Poll == ~paused /\ SyncGoBackend(server)
SyncWhenever == \E answer \in underway \cup {server} : SyncGoBackend(answer)

\* A sync that fails, or a record stream that breaks.
LoseBackend ==
  /\ Mishap /\ connected
  /\ connected' = FALSE
  /\ UNCHANGED <<nodeVars, scopeVars, listVars, storedScope, storageWorks, range, paused,
                 rangePosts, loadVars, searchVars, textVars>>

\* unbindNode once the server has deleted the node.
UnbindNode(n) ==
  /\ Click /\ n \in shown /\ connected
  /\ shown' = shown \ {n} /\ discovered' = discovered \ Of({n})
  /\ ServiceBecomes([nodes |-> server.list.nodes \ {n},
                      containers |-> server.list.containers \ Of({n})], server.range)
  /\ selectedNodes' = Within(selectedNodes, Nodes \ {n})
  /\ selectedContainers' = Within(selectedContainers, Containers \ Of({n}))
  /\ UNCHANGED <<multiSelect, listVars>> /\ Persist
  /\ UNCHANGED <<storageWorks, feedVars, loadVars, searchVars, textVars>>

(***************************************************************************)
(* Container records: the answers, the retry, and what drops the cache.    *)
(***************************************************************************)
PageFrame == UNCHANGED <<nodeVars, scopeVars, listVars, storedScope, storageWorks, textVars>>

\* One target's answer.  The last answer of a load decides what follows;
\* a failed target rejects the load, its other targets still answer.
AnswerLoad(s, c, ok, loading) ==
  LET load == loads[s]
      live == ~paused /\ load.key = selectedContainers
      rest == load.pending \ {c}
      failed == load.failed \/ ~ok
      more == load.loading \/ (ok /\ live /\ loading)
  IN /\ c \in load.pending
     /\ IF ok THEN UNCHANGED boundVars ELSE Mishap
     /\ cache' = IF ok /\ live THEN cache \cup {c} ELSE cache
     /\ fetched' = IF ok /\ live THEN fetched \cup {c} ELSE fetched
     /\ loads' = [loads EXCEPT ![s] = IF rest = {} THEN NoLoad
                    ELSE [load EXCEPT !.pending = rest, !.loading = more, !.failed = failed]]
     /\ IF rest = {} /\ ~failed /\ live
        THEN IF more THEN retryKey' = load.key /\ UNCHANGED loadedKey
                     ELSE loadedKey' = load.key /\ UNCHANGED retryKey
        ELSE UNCHANGED <<retryKey, loadedKey>>
     /\ UNCHANGED <<feedVars, searchVars>> /\ PageFrame

RetryLoad ==
  /\ retryKey # <<>> /\ Free # {}
  /\ UNCHANGED <<cacheVars, loadedKey, feedVars, searchVars, boundVars>> /\ PageFrame
  /\ IF retryKey # selectedContainers THEN retryKey' = <<>> /\ UNCHANGED loads
     ELSE LET targets == Targets(selectedContainers, discovered)
          IN /\ retryKey' = <<>>
             /\ IF paused \/ ~connected \/ targets = {} \/ AlreadyLoaded(targets) THEN UNCHANGED loads
                ELSE \E s \in Free : loads' = [loads EXCEPT ![s] =
                       [NoLoad EXCEPT !.key = selectedContainers, !.pending = targets]]

\* flushPendingStreamLogs: a record of the stream makes an entry of its
\* container, which the scope must have and the page must list.
FlushStream(c) ==
  /\ ~paused /\ c \in Targets(selectedContainers, discovered)
  /\ cache' = cache \cup {c}
  /\ UNCHANGED <<fetched, loadedKey, loads, retryKey, feedVars, searchVars, boundVars>> /\ PageFrame

\* clearLogCache once the server has cleared its own.
ClearLogCache ==
  /\ Click
  /\ DropCache /\ loadedKey' = <<>>
  /\ UNCHANGED <<feedVars, searchVars>> /\ PageFrame
  /\ LoadSelectedContainerLogs

\* The range selector: before its request.  A request in flight is out of date;
\* the service still serves it.
ChangeRange(r) ==
  /\ Click /\ r # range
  /\ range' = r
  /\ rangePosts' = {[p EXCEPT !.current = FALSE] : p \in {q \in rangePosts : ~q.served}}
       \cup IF connected THEN {[click |-> clicks', range |-> r, current |-> TRUE, served |-> FALSE]}
                         ELSE {}
  /\ ClearFullRangeSearch
  /\ UNCHANGED <<paused, connected, loadVars>> /\ PageFrame

RangeFrame == /\ UNCHANGED <<shown, discovered, range, paused, connected, searchVars>>
              /\ UNCHANGED <<scopeVars, listVars, storedScope, storageWorks, textVars>>

\* handleLogRange: the service's range is the one that was asked for.  Nobody
\* waits for the answer to a request that has been replaced.
ServeRangePost(p) ==
  /\ p \in rangePosts /\ ~p.served
  /\ ServiceBecomes(server.list, p.range)
  /\ rangePosts' = (rangePosts \ {p}) \cup IF p.current THEN {[p EXCEPT !.served = TRUE]} ELSE {}
  /\ UNCHANGED <<loadVars, boundVars>> /\ RangeFrame

\* Its answer on the page; a poll follows.  After a strict reload the cache is
\* dropped, but neither what is loaded nor what is in flight.
AnswerRange(p, strictReload) ==
  /\ p \in rangePosts /\ p.served
  /\ rangePosts' = rangePosts \ {p}
  /\ IF strictReload THEN DropCache ELSE UNCHANGED cacheVars
  /\ UNCHANGED <<answerVars, loadedKey, loads, retryKey, boundVars>> /\ RangeFrame

\* The request does not arrive, or its answer does not.
FailRange(p) ==
  /\ Mishap /\ p \in rangePosts
  /\ rangePosts' = rangePosts \ {p}
  /\ UNCHANGED <<answerVars, loadVars>> /\ RangeFrame

TogglePause ==
  /\ Click /\ paused' = ~paused
  /\ retryKey' = IF paused' THEN <<>> ELSE retryKey
  /\ UNCHANGED <<range, connected, rangePosts, cacheVars, loadedKey, loads, searchVars>> /\ PageFrame

(***************************************************************************)
(* The search box and the full-range search it drives.                     *)
(***************************************************************************)
SearchFrame ==
  UNCHANGED <<nodeVars, scopeVars, listVars, storedScope, storageWorks, feedVars, loadVars>>

\* The input event: clearFullRangeSearch, then scheduleFullRangeSearch.
TypeQuery(text) ==
  LET key == SearchKey(selectedContainers, text, globalQuery, range)
  IN /\ Click /\ text # query /\ query' = text
     /\ searches' = {[s EXCEPT !.current = FALSE] : s \in searches}
     /\ found' = NoSearch
     /\ searchTimer' = IF connected THEN [key |-> key, moved |-> FALSE] ELSE NoTimer
     /\ UNCHANGED globalQuery /\ SearchFrame

\* The clear button empties the box and leaves the search as it is.
ClearFilters ==
  /\ query # NoText /\ query' = NoText
  /\ UNCHANGED <<globalQuery, searchVars, boundVars>> /\ SearchFrame

TypeGlobalQuery ==
  /\ Click /\ globalQuery' = ~globalQuery
  /\ UNCHANGED <<query, searchVars>> /\ SearchFrame

\* The timer's callback: the key is of what the page showed when the text was
\* typed, what it asks for is the range, the containers and the text of now.
FireSearch ==
  /\ searchTimer.key # <<>> /\ searchTimer' = NoTimer
  /\ searches' = searches \cup {[key |-> searchTimer.key, moved |-> searchTimer.moved,
       current |-> TRUE, asked |-> <<range, Targets(selectedContainers, discovered), query>>]}
  /\ UNCHANGED <<found, textVars, boundVars>> /\ SearchFrame

Result(s) == [key |-> s.key, moved |-> s.moved, asked |-> s.asked]

AnswerSearchLate(s) == \* Mutant: the answer of an outdated search is taken
  /\ s \in searches /\ searches' = searches \ {s}
  /\ found' = IF s.key = CurrentSearchKey THEN Result(s) ELSE found
  /\ UNCHANGED <<searchTimer, textVars, boundVars>> /\ SearchFrame

AnswerSearch(s) ==
  /\ s \in searches /\ searches' = searches \ {s}
  /\ found' = IF s.current /\ s.key = CurrentSearchKey
              THEN Result(s) ELSE found
  /\ UNCHANGED <<searchTimer, textVars, boundVars>> /\ SearchFrame

\* A reload of the page: restoreSelection and restoreHiddenContainers.
ReloadLogPage ==
  /\ Click /\ shown # {}
  /\ multiSelect' = storedScope.multi
  /\ selectedNodes' = IF storedScope.multi \/ Len(storedScope.nodes) <= 1
                      THEN storedScope.nodes ELSE SubSeq(storedScope.nodes, 1, 1)
  /\ hiddenContainers' = storedScope.hidden
  /\ selectedContainers' =
       Within(storedScope.containers, Of(ToSet(selectedNodes')) \ storedScope.hidden)
  /\ shown' = {} /\ discovered' = {} /\ keptContainers' = {}
  /\ paused' = FALSE /\ connected' = FALSE
  /\ rangePosts' = {[p EXCEPT !.current = FALSE] : p \in {q \in rangePosts : ~q.served}}
  /\ DropCache /\ loadedKey' = <<>> /\ loads' = [s \in Slots |-> NoLoad] /\ retryKey' = <<>>
  /\ query' = NoText /\ globalQuery' = FALSE
  /\ searchTimer' = NoTimer /\ searches' = {} /\ found' = NoSearch
  /\ range' = DefaultRange /\ underway' = {}
  /\ UNCHANGED <<server, storedScope, storageWorks>>

LoadAnswers == \E s \in Slots, c \in Containers, loading \in BOOLEAN : AnswerLoad(s, c, TRUE, loading)
SearchAnswers == \E s \in searches : AnswerSearch(s)

ScopeNext ==
  \/ \E n \in Nodes : ClickNode(n) \/ RestoreContainers(n) \/ ClearKeep(n)
                      \/ RemoveOtherContainers(n) \/ UnbindNode(n)
  \/ \E c \in Containers : ClickContainer(c) \/ HideContainer(c) \/ ToggleKeep(c) \/ FlushStream(c)
  \/ \E b \in BOOLEAN : SetMultiSelect(b) \/ \E p \in rangePosts : AnswerRange(p, b)
  \/ \E p \in rangePosts : ServeRangePost(p) \/ FailRange(p)
  \/ \E r \in HistoryRanges : ChangeRange(r)
  \/ \E l \in Lists, r \in HistoryRanges : ServerChanges(l, r)
  \/ SyncWhenever \/ LoseBackend \/ ClearLogCache \/ TogglePause \/ ReloadLogPage
  \/ LoadAnswers \/ \E s \in Slots, c \in Containers : AnswerLoad(s, c, FALSE, FALSE)
  \/ RetryLoad
  \/ \E text \in Texts \cup {NoText} : TypeQuery(text)
  \/ ClearFilters \/ TypeGlobalQuery \/ FireSearch \/ SearchAnswers

\* The page polls every three seconds while it is not paused, and the server answers.
ScopeSpec ==
  ScopeInit /\ [][ScopeNext]_logPageVars /\ WF_logPageVars(Poll) /\ WF_logPageVars(LoadAnswers)

(***************************************************************************)
(* Properties.                                                             *)
(***************************************************************************)
ScopeTypeOK ==
  /\ shown \subseteq Nodes /\ discovered \subseteq Of(shown)
  /\ selectedNodes \in Seq(Nodes) /\ IsInjective(selectedNodes)
  /\ selectedContainers \in Seq(Containers) /\ IsInjective(selectedContainers)
  /\ hiddenContainers \subseteq Containers /\ keptContainers \subseteq Containers
  /\ {multiSelect, storageWorks, paused, connected, globalQuery} \subseteq BOOLEAN
  /\ range \in HistoryRanges /\ rangePosts \subseteq RangePost
  /\ fetched \subseteq cache /\ cache \subseteq Containers /\ loads \in [Slots -> Slot]
  /\ query \in Texts \cup {NoText} /\ clicks \in 0..MaxClicks /\ mishaps \in 0..MaxMishaps

\* The scope never contradicts the page: a selected container belongs to a
\* selected node and is not dropped from the lists, and one node at most is
\* selected while the switch is off (app.js 219-227, 249, 2172-2180, 2208-2233).
ScopeIsSound ==
  /\ \A c \in ToSet(selectedContainers) : Contains(selectedNodes, NodeOf[c]) /\ c \notin hiddenContainers
  /\ multiSelect \/ Len(selectedNodes) <= 1

\* A reload at any moment brings back the scope and the dropped containers the
\* page shows, where localStorage works (persistSelection after every change).
ScopeSurvivesReload ==
  storageWorks => storedScope = [nodes |-> selectedNodes, containers |-> selectedContainers,
                            multi |-> multiSelect, hidden |-> hiddenContainers]

\* The records shown as the result of a full-range search were asked for with
\* the text, the containers and the range they are shown for, whatever was
\* typed, clicked or answered since (the request counter and the key of
\* scheduleFullRangeSearch).  The range is the exception the code makes: it
\* may be another one if a poll changed it between the typing and the question.
SearchShownIsOfItsQuery ==
  found.key # <<>> /\ found.key = CurrentSearchKey =>
    /\ found.asked[3] = query
    /\ found.asked[2] \subseteq ToSet(selectedContainers)
    /\ found.moved \/ found.asked[1] = range

\* A page that is connected and not paused comes to hold the fetched records of
\* every container it is scoped to, whatever dropped them.  The exception the
\* code makes: an entry that the stream made is taken for a fetched one while
\* the scope counts as loaded.
ScopeIsServed ==
  []<>(\/ paused \/ ~connected
       \/ Targets(selectedContainers, discovered)
            \subseteq IF loadedKey = selectedContainers THEN cache ELSE fetched)

\* What is stored, selected and dropped agree at every moment (persistSelection,
\* handleNodeClick, dropContainersFromScope).
ScopeIsKept == ScopeTypeOK /\ ScopeIsSound /\ ScopeSurvivesReload
=============================================================================
