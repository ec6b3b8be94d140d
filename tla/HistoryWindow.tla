---------------------------- MODULE HistoryWindow ----------------------------
(***************************************************************************)
(* What a history load reads, and what the two log caches hold.            *)
(*                                                                         *)
(* HistoryLoads says who may load a container; this module adds the data.  *)
(* The history of a container is a set of records, identified by age (1 is *)
(* the newest).  A range r stands for the records of age 1..r.  Time does  *)
(* not pass and no live record arrives: records are loaded, evicted,       *)
(* cleared and purged.  Each action of HistoryLoads it takes is conjoined  *)
(* with its effect on the caches, so every behaviour here is one of        *)
(* HistoryLoads (LoadsImplemented).                                        *)
(***************************************************************************)
EXTENDS HistoryLoads, SequencesExt, ListFilter

CONSTANTS
  Remote,             \* the ages each container has records of, at Dozzle
  PageSize,           \* dozzleHistoryPageSize
  SharedCapacity,     \* maxStoredLogs
  ContainerCapacity,  \* maxContainerLogs
  MaxMishaps,         \* bound: how often a node is edited or unbound, a list changes,
                      \* a request to Dozzle fails or the user clears the log cache
  Polled,             \* the containers whose logs the page asks for
  Streamed            \* bound: the containers whose stream is started

Ages == Depths \ {0}

\* Depths count records: the range of a request is one, and so is the age of
\* the record before a record.
ASSUME AgesAssumption == Ranges \subseteq Depths /\ \A a \in Ages : a - 1 \in Depths
ASSUME RemoteAssumption == Remote \in [Keys -> SUBSET Ages]
ASSUME SizesAssumption == {PageSize, SharedCapacity, ContainerCapacity} \subseteq Nat \ {0}
ASSUME MaxMishapsAssumption == MaxMishaps \in Nat
ASSUME PolledAssumption == Polled \subseteq Keys /\ Streamed \subseteq Keys
\* An empty list is not told apart from no list yet.
ASSUME ListsAssumption == {} \notin Reports

VARIABLES
  shared,    \* server.logs: newest first, one entry per appended record
  cached,    \* server.containerLogs: the ages held of each container
  coverage,  \* server.historyCoverage: how deep it is marked; 0: unmarked
  stale,     \* server.staleHistoryNodes
  changed,   \* the nodes whose handler found another list: its local "changed"
  cancelled, \* the nodes whose context is cancelled for good
  streams,   \* server.streams
  fetch,     \* the progress of each load goroutine
  purged,    \* the containers that a list has once not named; read by no action
  mishaps      \* counts towards MaxMishaps

cacheVars == <<shared, cached, coverage>>
connectionVars == <<stale, changed, cancelled, streams>>
ghostVars == <<purged, mishaps>>
windowVars == <<cacheVars, connectionVars, fetch, ghostVars>>
allVars == <<vars, windowVars>>

\* A load wants the records of age to + 1 .. from, and has asked for those
\* down to pageTo; "page" is what is left of the page Dozzle answered with,
\* "full" whether it had PageSize records and "oldest" the greatest age on it;
\* "emptied", which no action reads, whether what it had cached was dropped
\* while it ran and was of the current request.
Fetch == [step : {"check", "request", "ingest"}, from : Ranges, to : Depths, pageTo : Depths,
          always : BOOLEAN, page : SUBSET Ages, full : BOOLEAN, oldest : Depths,
          emptied : BOOLEAN]
NoFetch == [step |-> "check", from |-> FirstRange, to |-> 0, pageTo |-> 0,
            always |-> FALSE, page |-> {}, full |-> FALSE, oldest |-> 0, emptied |-> FALSE]

Largest(S) == CHOOSE x \in S \cup {0} : \A y \in S : y <= x

\* The "limit" newest of a set of ages.
Newest(S, limit) == {a \in S : Cardinality({b \in S : b < a}) < limit}

\* Mutant of Cut: the newest entry goes.
CutNewest(logs, limit) == IF Len(logs) > limit THEN Tail(logs) ELSE logs

Cut(logs, limit) == SubSeq(logs, 1, IF Len(logs) > limit THEN limit ELSE Len(logs))

\* insertNewestLog: before the first entry that is not newer, then cut.
InsertNewest(logs, entry, limit) ==
  LET newer == Cardinality({i \in DOMAIN logs : logs[i].age < entry.age})
  IN  Cut(InsertAt(logs, newer + 1, entry), limit)

\* filteredLogs: the entries of the other nodes, in their order.  (It is
\* SelectSeq, written without recursion so that it can be reasoned about.)
WithoutNode(logs, n) == Picked(logs, {i \in DOMAIN logs : logs[i].key[1] # n})

SharedFull == Len(shared) >= SharedCapacity
ContainerFull(k) == Cardinality(cached[k]) >= ContainerCapacity

\* addHistoryTargetLocked: a load goes on from the coverage or from the
\* oldest cached record, whichever is older.  That record is read again.
Boundary(k) == Largest({coverage[k]} \cup {a - 1 : a \in cached[k]})

FetchWithout(gone) ==
  [w \in Workers |->
    IF worker[w].pc = "fetch" /\ worker[w].gen = generation /\ worker[w].key \in gone
    THEN [fetch[w] EXCEPT !.emptied = TRUE]
    ELSE fetch[w]]

EmptyCaches ==
  /\ shared' = <<>>
  /\ cached' = [k \in Keys |-> {}]
  /\ coverage' = [k \in Keys |-> 0]

\* Drop what is cached of the containers in "gone".
Forget(gone) ==
  /\ cached' = [k \in Keys |-> IF k \in gone THEN {} ELSE cached[k]]
  /\ coverage' = [k \in Keys |-> IF k \in gone THEN 0 ELSE coverage[k]]

WindowInit ==
  /\ Init
  /\ shared = <<>>
  /\ cached = [k \in Keys |-> {}]
  /\ coverage = [k \in Keys |-> 0]
  /\ stale = {}
  /\ changed = {}
  /\ cancelled = {}
  /\ streams = {}
  /\ fetch = [w \in Workers |-> NoFetch]
  /\ purged = {}
  /\ mishaps = 0
-----------------------------------------------------------------------------
(***************************************************************************)
(* Nodes.                                                                  *)
(***************************************************************************)
\* The node is given a context of its own, whatever is left of one by its identifier.
NodeAdded(n) ==
  /\ AddNode(n)
  /\ cancelled' = cancelled \ {n}
  /\ UNCHANGED <<cacheVars, stale, changed, streams, fetch, ghostVars>>


HostLearnt(n) == n \notin hosted /\ SetNodeHost(n) /\ UNCHANGED windowVars

\* updateNode and unbindNode drop everything cached of the node; if it is used
\* again it has a new context.  That the node's list is about to be committed is
\* the one mishap then.
DropNode(n) ==
  /\ Forget(KeysOf(n))
  /\ shared' = WithoutNode(shared, n)
  /\ streams' = streams \ KeysOf(n)
  /\ cancelled' = cancelled \ {n}
  /\ n \in changed \/ mishaps < MaxMishaps
  /\ mishaps' = IF n \in changed THEN mishaps ELSE mishaps + 1
  /\ UNCHANGED <<stale, changed, fetch, purged>>

NodeUpdated(n) == UpdateNode(n) /\ DropNode(n)
NodeUnbound(n) == UnbindNode(n) /\ DropNode(n)

\* The list differs from the one known for the node; the first one does not.
ListChanged(n, listed) == names[n] # {} /\ names[n] # listed

\* server.logs keeps the records of the containers that are purged.
ContainersPurged(n, listed) ==
  /\ n \in hosted
  /\ names[n] # listed
  /\ ListChanged(n, listed) => mishaps < MaxMishaps
  /\ PurgeNodeHistory(n, listed)
  /\ IF ListChanged(n, listed)
     THEN LET gone == {k \in KeysOf(n) : k[2] \notin listed}
          IN  /\ Forget(gone)
              /\ stale' = stale \cup {n}
              /\ changed' = changed \cup {n}
              /\ fetch' = FetchWithout(gone)
              /\ purged' = purged \cup gone
              /\ mishaps' = mishaps + 1
     ELSE UNCHANGED <<cached, coverage, stale, changed, fetch, ghostVars>>
  /\ UNCHANGED <<shared, cancelled, streams>>

\* By now the purge has cancelled the context of the node, and this handler runs in
\* it: it puts a new one to use and cancels that as it returns.  If the list lacks
\* the pinned container it puts none to use; then a context the node was given
\* since, when it was edited and its names were dropped, stays.
CancelsContext(n) == Pinned[n] \in event[n] \cup {NoContainer} \/ names[n] # {}

\* Whether the list has changed was found before the purge: the node may have been
\* edited, or be gone, by now.
ContainersCommitted(n) ==
  /\ CommitContainers(n)
  /\ changed' = changed \ {n}
  /\ IF n \in changed
     THEN stale' = stale \ {n} /\ cancelled' = IF CancelsContext(n) THEN cancelled \cup {n} ELSE cancelled
     ELSE UNCHANGED <<stale, cancelled>>
  /\ UNCHANGED <<cacheVars, streams, fetch, ghostVars>>
-----------------------------------------------------------------------------
(***************************************************************************)
(* Requests.                                                               *)
(***************************************************************************)
StrictReload(r) == r < range /\ pending > 0

RangeRequested(r, req) ==
  /\ IF StrictReload(r)
     THEN HandleLogRange(r, req, [k \in Keys |-> 0]) /\ EmptyCaches
     ELSE HandleLogRange(r, req, [k \in Keys |-> Boundary(k)]) /\ UNCHANGED cacheVars
  /\ UNCHANGED <<connectionVars, fetch, ghostVars>>

ContainerPolled(k, r) ==
  /\ coverage[k] < r
  /\ EnsureContainerHistory(k, r)
  /\ UNCHANGED windowVars

StreamStarted(k) ==
  /\ k[1] \in hosted \ cancelled
  /\ k \notin streams
  /\ StartContainerStream(k)
  /\ streams' = streams \cup {k}
  /\ UNCHANGED <<cacheVars, stale, changed, cancelled, fetch, ghostVars>>

\* POST /api/cache/clear; loads in flight go on.
LogCacheCleared ==
  /\ mishaps < MaxMishaps
  /\ shared # <<>>
  /\ EmptyCaches
  /\ fetch' = FetchWithout(Keys)
  /\ mishaps' = mishaps + 1
  /\ UNCHANGED <<vars, connectionVars, purged>>
-----------------------------------------------------------------------------
(***************************************************************************)
(* A load, one lock section or one exchange with Dozzle per step.          *)
(***************************************************************************)
LaunchRefused(l) == RefuseLaunch(l) /\ UNCHANGED windowVars

\* Goroutines are alike: the first one that is idle stands for any.
FirstIdle == CHOOSE w \in Workers : worker[w] = Idle

LoadStarted(l, w) ==
  /\ worker[w] = Idle /\ w = FirstIdle
  /\ StartLoad(l, w)
  /\ fetch' = [fetch EXCEPT ![w] = [NoFetch EXCEPT !.from = l.from, !.to = l.to,
                                                   !.pageTo = l.to, !.always = l.always]]
  /\ UNCHANGED <<cacheVars, connectionVars, ghostVars>>

At(w, step) == worker[w].pc = "fetch" /\ fetch[w].step = step

MarkedBy(w) == worker[w].gen = generation

\* The window was read to its end: markHistoryCoverage, then the goroutine
\* goes on to give its container back.
Completed(w) ==
  LET k == worker[w].key
  IN  /\ FinishFetch(w)
      /\ coverage' = IF MarkedBy(w)
                     THEN [coverage EXCEPT ![k] = Largest({coverage[k], fetch[w].from})]
                     ELSE coverage
      /\ fetch' = [fetch EXCEPT ![w] = NoFetch]
      /\ UNCHANGED <<shared, cached, connectionVars, ghostVars>>

\* The load ends without an answer to whether anything is missing.
GivenUp(w) ==
  /\ FinishFetch(w)
  /\ fetch' = [fetch EXCEPT ![w] = NoFetch]
  /\ UNCHANGED <<cacheVars, connectionVars, ghostVars>>

Advance(w, progress) ==
  /\ fetch' = [fetch EXCEPT ![w] = progress]
  /\ UNCHANGED <<vars, connectionVars, ghostVars>>

\* Head of the page loop: is there room, and is the node still the same?
CheckRoom(w) ==
  LET k == worker[w].key
      shut == ~ fetch[w].always /\ SharedFull
      cut  == (fetch[w].always /\ ContainerFull(k)) \/ k[1] \in stale
  IN  /\ At(w, "check")
      /\ \/ shut /\ Completed(w)
         \/ ~ shut /\ cut /\ GivenUp(w)
         \/ ~ shut /\ ~ cut /\ Advance(w, [fetch[w] EXCEPT !.step = "request"])
                   /\ UNCHANGED cacheVars

\* Dozzle answers with the newest PageSize records of what is left.
RequestPage(w) ==
  LET f == fetch[w]
      page == Newest({a \in Remote[worker[w].key] : f.pageTo < a /\ a <= f.from}, PageSize)
  IN  /\ At(w, "request")
      /\ worker[w].key[1] \notin cancelled
      /\ IF page = {}
         THEN Completed(w)
         ELSE /\ Advance(w, [f EXCEPT !.step = "ingest", !.page = page, !.oldest = Largest(page),
                                      !.full = (Cardinality(page) = PageSize)])
              /\ UNCHANGED cacheVars

\* The request is refused or times out, or its context is cancelled.
RequestFails(w) ==
  /\ At(w, "request") \/ At(w, "ingest")
  /\ IF worker[w].key[1] \in stale \cup cancelled
     THEN UNCHANGED mishaps
     ELSE mishaps < MaxMishaps /\ mishaps' = mishaps + 1
  /\ FinishFetch(w)
  /\ fetch' = [fetch EXCEPT ![w] = NoFetch]
  /\ UNCHANGED <<cacheVars, connectionVars, purged>>

\* Mutants: the append ignores the generation; the append does not look for
\* a record that is there already.
NeverCutOff(w) == FALSE
CutOff(w) == worker[w].gen # generation

NeverDuplicate(k, a) == FALSE
Duplicate(k, a) == a \in cached[k]

\* appendRemoteLogLocked
AppendRecord(k, a) ==
  IF k[1] \notin bound \/ Duplicate(k, a)
  THEN UNCHANGED cacheVars
  ELSE /\ shared' = InsertNewest(shared, [key |-> k, age |-> a], SharedCapacity)
       /\ cached' = [cached EXCEPT ![k] = Newest(cached[k] \cup {a}, ContainerCapacity)]
       /\ UNCHANGED coverage

\* One record of the page, oldest first, unless the load has been cut off.
IngestRecord(w) ==
  LET f == fetch[w]
      a == Largest(f.page)
  IN  /\ At(w, "ingest")
      /\ f.page # {}
      /\ IF CutOff(w)
         THEN GivenUp(w)
         ELSE /\ AppendRecord(worker[w].key, a)
              /\ Advance(w, [f EXCEPT !.page = f.page \ {a}])

\* Mutant of NextTo: the next page skips a record.
SkippingTo(f) == f.oldest + 1
NextTo(f) == f.oldest

\* A full page may have older records behind it.
FinishPage(w) ==
  LET f == fetch[w]
  IN  /\ At(w, "ingest")
      /\ f.page = {}
      /\ IF ~ f.full \/ (~ f.always /\ SharedFull) \/ NextTo(f) \notin f.pageTo + 1 .. f.from - 1
         THEN Completed(w)
         ELSE /\ Advance(w, [f EXCEPT !.step = "check", !.pageTo = NextTo(f),
                                      !.full = FALSE, !.oldest = 0])
              /\ UNCHANGED cacheVars

\* Mutant of ContainerReleased: whoever loads the container by now loses it.
TakenFromAnyone(w) ==
  /\ worker[w].pc = "release"
  /\ loads' = loads \ {worker[w].key}
  /\ owner' = [owner EXCEPT ![worker[w].key] = 0]
  /\ worker' = [worker EXCEPT ![w].pc = "complete"]
  /\ UNCHANGED <<nodeVars, viewVars, generation, pending, launches, windowVars>>
ContainerReleased(w) == ReleaseLoad(w) /\ UNCHANGED windowVars
LoadCounted(w) == CompleteHistoryFetch(w) /\ UNCHANGED windowVars
-----------------------------------------------------------------------------
WindowNext ==
  \/ \E n \in Nodes : \/ NodeAdded(n) \/ HostLearnt(n) \/ NodeUpdated(n) \/ NodeUnbound(n)
                      \/ ContainersCommitted(n)
                      \/ \E listed \in Reports : ContainersPurged(n, listed)
  \/ \E r \in Ranges, req \in Requests : RangeRequested(r, req)
  \/ \E k \in Polled, r \in Ranges : ContainerPolled(k, r)
  \/ \E k \in Streamed : StreamStarted(k)
  \/ LogCacheCleared
  \/ \E l \in launches : LaunchRefused(l) \/ \E w \in Workers : LoadStarted(l, w)
  \/ \E w \in Workers : \/ CheckRoom(w) \/ RequestPage(w) \/ RequestFails(w)
                        \/ IngestRecord(w) \/ FinishPage(w)
                        \/ ContainerReleased(w) \/ LoadCounted(w)

\* A goroutine that can run does run, and Dozzle answers or fails:
\* historyFetchTimeout sees to that.
LoadProgress(w) ==
  \/ CheckRoom(w) \/ RequestPage(w) \/ RequestFails(w) \/ IngestRecord(w) \/ FinishPage(w)
  \/ ContainerReleased(w) \/ LoadCounted(w)

WindowFairness == \A w \in Workers : WF_allVars(LoadProgress(w))

WindowSpec == WindowInit /\ [][WindowNext]_allVars /\ WindowFairness
-----------------------------------------------------------------------------
\* No cache outgrows its limit.
WindowTypeOK ==
  /\ shared \in Seq([key : Keys, age : Ages]) /\ Len(shared) <= SharedCapacity
  /\ cached \in [Keys -> SUBSET Ages]
  /\ \A k \in Keys : Cardinality(cached[k]) <= ContainerCapacity
  /\ coverage \in [Keys -> Depths]
  /\ stale \subseteq Nodes /\ changed \subseteq Nodes /\ cancelled \subseteq Nodes
  /\ streams \subseteq Keys
  /\ fetch \in [Workers -> Fetch]
  /\ purged \subseteq Keys
  /\ mishaps \in 0..MaxMishaps

\* The page loop implements the load HistoryLoads abstracts it to, its
\* fairness included: pagination always ends, whatever is cached or dropped
\* under it, and a container is given back only by the load that has it.
LoadsImplemented == Spec

\* A container's own list holds no record this old: it is full of newer ones.
Outgrown(k, a) == ContainerFull(k) /\ \A b \in cached[k] : b < a

\* A load that marks its window as covered has read all of it, unless it is
\* one that stops when the shared cache is full: no page is skipped and no load
\* that was cut off marks (fetchDozzleHistoryWithCachePolicy).  What it read is
\* there, as far as the container's own list reaches.
MarkedWindowIsCached ==
  [][\A k \in Keys : coverage'[k] > coverage[k]
       => \E w \in Workers :
            /\ worker[w].key = k /\ fetch[w].from = coverage'[k]
            /\ \/ fetch[w].emptied
               \/ ~ fetch[w].always /\ SharedFull
               \/ \A a \in Remote[k] : fetch[w].to < a /\ a <= fetch[w].from
                    => a \in cached'[k] \/ Outgrown(k, a)']_allVars

\* The loads of an earlier request leave no trace in the caches, however late
\* they answer: purging, unbinding and strict reloads are not undone.
StaleLoadsWriteNothing ==
  [][\A w \in Workers : worker[w].gen # generation /\ fetch'[w] # fetch[w]
       => \/ worker[w] = Idle
          \/ UNCHANGED cacheVars]_allVars

\* Nothing is cached of, or marked for, a node that is not there: what a node
\* re-using the identifier shows is its own (unbindNode).
NothingOfUnboundNodes ==
  \A k \in Keys : k[1] \notin bound => cached[k] = {} /\ coverage[k] = 0

\* The dashboard's list misses a record that its container's own list shows only
\* by age: the step from which on it is missing leaves the list full of records
\* at least as new (insertNewestLog).  Dropping a node takes no record of
\* another one.
RecordsLeaveOldestFirst ==
  [][\A k \in Keys : \A a \in cached'[k] :
       LET e == [key |-> k, age |-> a]
       IN  e \notin Range(shared') /\ (a \notin cached[k] \/ e \in Range(shared))
             => SharedFull' /\ \A i \in DOMAIN shared' : shared'[i].age <= a]_allVars

\* insertNewestLog finds the place of a record by binary search.
SharedIsSorted ==
  \A i, j \in DOMAIN shared : i < j => shared[i].age <= shared[j].age

\* A record the dashboard shows is in its container's own list, which is where
\* hasDuplicateLogLocked looks for it.  It is not once purgeNodeHistory has
\* dropped that list and not the record, or the list has outgrown it.
SharedIsRemembered ==
  \A i \in DOMAIN shared :
    LET k == shared[i].key
    IN  k \in purged \/ shared[i].age \in cached[k] \/ Outgrown(k, shared[i].age)

\* main.go:1728: a record that is read again is de-duplicated.  It is, with the
\* same two exceptions: such a record can be read and shown a second time.
SharedHasNoDuplicates ==
  \A i, j \in DOMAIN shared :
    LET k == shared[i].key
    IN  shared[i] = shared[j] => i = j \/ k \in purged \/ Outgrown(k, shared[i].age)

\* The two caches agree with each other and with the nodes that are there:
\* appendRemoteLogLocked writes both, unbindNode and updateNode empty both.
CachesAreSound ==
  /\ WindowTypeOK
  /\ NothingOfUnboundNodes
  /\ SharedIsSorted
  /\ SharedIsRemembered
  /\ SharedHasNoDuplicates
=============================================================================
