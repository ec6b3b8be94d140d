---------------------------- MODULE HistoryLoads ----------------------------
(***************************************************************************)
(* Who is loading which container's history, and on behalf of which        *)
(* request.                                                                *)
(*                                                                         *)
(* Every request that changes what the dashboard shows advances            *)
(* historyGeneration.  A handler decides what to load while it holds       *)
(* server.mu, unlocks, and starts the loads one at a time with             *)
(* launchHistoryFetchWindow; each load is a goroutine that carries the     *)
(* generation it was decided under.  Three pieces of bookkeeping have to   *)
(* survive that: historyLoads (one load per container), its owner          *)
(* historyLoadGeneration, and historyPending, from which /api/bootstrap    *)
(* derives "historyLoading".                                               *)
(*                                                                         *)
(* This module is the control only.  What a load reads and what the cache  *)
(* holds is in HistoryWindow, which implements this one.                   *)
(***************************************************************************)
EXTENDS Naturals, FiniteSets

CONSTANTS
  Nodes,          \* node identifiers
  Containers,     \* container identifiers
  Pinned,         \* Node.containerID: the container a node's URL names
  NoContainer,    \* the value of Pinned for a URL that names none
  Ranges,         \* the durations of 30m, 5h, 1d, 1w as a history depth
  FirstRange,     \* the range a fresh server starts with (30m)
  Requests,       \* the node and container selections a page may ask for
  Reports,        \* the container lists a node's event stream may deliver
  Depths,         \* how deep a container may be cached already; 0: not at all
  NoScope,        \* historyNodeScope = ""
  NoEvent,        \* no container list of this node is being processed
  Workers,        \* load goroutines (bound: at most this many at a time)
  MaxLaunches,    \* bound on loads decided and not launched yet
  MaxGeneration   \* bound on historyGeneration

Keys == Nodes \X Containers          \* containerLogKey(node, container)
KeysOf(n) == {n} \X Containers
Scope == [nodes : SUBSET Nodes, containers : SUBSET Keys]

ASSUME PinnedAssumption == /\ NoContainer \notin Containers
                          /\ Pinned \in [Nodes -> Containers \cup {NoContainer}]
ASSUME RangesAssumption == Ranges \subseteq Nat \ {0} /\ FirstRange \in Ranges
ASSUME RequestsAssumption == Requests \subseteq Scope
ASSUME ReportsAssumption == Reports \subseteq SUBSET Containers
ASSUME DepthsAssumption == Depths \subseteq Nat /\ 0 \in Depths
ASSUME NoScopeAssumption == \A s \in Scope : NoScope # s
ASSUME NoEventAssumption == \A s \in SUBSET Containers : NoEvent # s
ASSUME WorkersAssumption == IsFiniteSet(Workers)
ASSUME BoundsAssumption == MaxLaunches \in Nat /\ MaxGeneration \in Nat

VARIABLES
  bound,       \* server.nodes
  hosted,      \* the nodes whose hostID is known
  names,       \* server.containerNames, the identifiers
  event,       \* the list updateNodeContainers is about to commit
  range,       \* server.historyRange
  scope,       \* server.historyNodeScope
  saved,       \* reloadNodeHistory's previousScope, while it launches
  generation,  \* server.historyGeneration
  pending,     \* server.historyPending
  loads,       \* server.historyLoads
  owner,       \* server.historyLoadGeneration; an absent key reads 0
  launches,    \* loads decided under the lock and not launched yet
  worker       \* the load goroutines

nodeVars == <<bound, hosted, names, event>>
viewVars == <<range, scope, saved>>
loadVars == <<generation, pending, loads, owner>>
vars == <<nodeVars, viewVars, loadVars, launches, worker>>

NoKey == <<>>
Busy == {"fetch", "release", "complete"}
Idle == [pc |-> "idle", key |-> NoKey, gen |-> 0]
Worker == {Idle} \cup [pc : Busy, key : Keys, gen : 0..MaxGeneration]

\* What a handler captured under the lock for launchHistoryFetchWindow: load
\* "key" down to depth "from", the part down to "to" being there already.
\* "always" is allowWhenSharedCacheFull.
Launch == [key : Keys, gen : 0..MaxGeneration, from : Ranges, to : Depths,
           by : {"range", "container", "stream", "reload"}, always : BOOLEAN]

(***************************************************************************)
(* The selection a request stands for, once nodes that no longer exist     *)
(* are dropped from it, and the containers it asks for.                    *)
(***************************************************************************)
ScopedNodes(req) == bound \cap (req.nodes \cup {k[1] : k \in req.containers})
ScopeKey(req) ==
  [nodes      |-> ScopedNodes(req),
   containers |-> {k \in req.containers : k[1] \in ScopedNodes(req)}]

\* The containers a whole-node selection loads: those the node reported,
\* or the one its URL names as long as it has reported none.
Listed(n) ==
  IF names[n] # {} THEN {n} \X names[n]
  ELSE {k \in KeysOf(n) : k[2] = Pinned[n]}

TargetsOf(req, n) ==
  LET chosen == {k \in req.containers : k[1] = n}
  IN  IF chosen # {} THEN chosen ELSE Listed(n)
Targets(req) ==
  LET shown == IF ScopedNodes(req) = {} THEN bound ELSE ScopedNodes(req)
  IN  UNION {TargetsOf(req, n) : n \in shown \cap hosted}

\* The loads a range request decides on; "to" gives how deep each container
\* is cached, and a container cached down to r needs none.
RangeLaunches(r, req, to) ==
  {[key |-> k, gen |-> generation + 1, from |-> r, to |-> to[k],
    by |-> "range", always |-> k \in req.containers] :
   k \in {t \in Targets(req) : to[t] < r}}

Init ==
  /\ bound \in SUBSET Nodes
  /\ hosted = {}
  /\ names = [n \in Nodes |-> {}]
  /\ event = [n \in Nodes |-> NoEvent]
  /\ range = FirstRange
  /\ scope = NoScope
  /\ saved = {}
  /\ generation = 0
  /\ pending = 0
  /\ loads = {}
  /\ owner = [k \in Keys |-> 0]
  /\ launches = {}
  /\ worker = [w \in Workers |-> Idle]

NextGeneration ==
  /\ generation < MaxGeneration
  /\ generation' = generation + 1

\* A handler unlocks with these loads still to be launched.
Decide(new) ==
  /\ Cardinality(launches \cup new) <= MaxLaunches
  /\ launches' = launches \cup new

-----------------------------------------------------------------------------
(***************************************************************************)
(* Nodes.  The generation moves without historyPending being reset: loads  *)
(* of the old generation are cut off and never counted down.               *)
(***************************************************************************)
\* POST /api/nodes
AddNode(n) ==
  /\ n \notin bound
  /\ bound' = bound \cup {n}
  /\ UNCHANGED <<hosted, names, event, viewVars, loadVars, launches, worker>>

\* connectNode learns the host of a node
SetNodeHost(n) ==
  /\ n \in bound
  /\ hosted' = hosted \cup {n}
  /\ UNCHANGED <<bound, names, event, viewVars, loadVars, launches, worker>>

\* PUT /api/nodes/<id>; the record keeps its hostID
UpdateNode(n) ==
  /\ n \in bound
  /\ names' = [names EXCEPT ![n] = {}]
  /\ NextGeneration
  /\ UNCHANGED <<bound, hosted, event, viewVars, pending, loads, owner,
                 launches, worker>>

UnbindNode(n) ==
  /\ n \in bound
  /\ bound' = bound \ {n}
  /\ hosted' = hosted \ {n}
  /\ names' = [names EXCEPT ![n] = {}]
  /\ NextGeneration
  /\ UNCHANGED <<event, viewVars, pending, loads, owner, launches, worker>>

\* Configuration import: the node list is rebuilt from the file.
ReloadNodesFromStore(stored) ==
  /\ bound' = stored
  /\ hosted' = {}
  /\ names' = [n \in Nodes |-> {}]
  /\ NextGeneration
  /\ UNCHANGED <<event, viewVars, pending, loads, owner, launches, worker>>

\* updateNodeContainers, up to and including purgeNodeHistory: when a known
\* container is gone the next range request must derive its targets again.
PurgeNodeHistory(n, listed) ==
  /\ n \in bound
  /\ event[n] = NoEvent
  /\ event' = [event EXCEPT ![n] = listed]
  /\ scope' = IF names[n] \subseteq listed THEN scope ELSE NoScope
  /\ UNCHANGED <<bound, hosted, names, range, saved, loadVars, launches, worker>>

\* updateNodeContainers, second lock section; the node may be gone by now.
CommitContainers(n) ==
  /\ event[n] # NoEvent
  /\ names' = [names EXCEPT ![n] = event[n]]
  /\ event' = [event EXCEPT ![n] = NoEvent]
  /\ UNCHANGED <<bound, hosted, viewVars, loadVars, launches, worker>>
-----------------------------------------------------------------------------
(***************************************************************************)
(* Requests for history.                                                   *)
(***************************************************************************)
RestartedCount == 0

\* GET or POST /api/logs/range
HandleLogRange(r, req, to) ==
  LET changed == scope # ScopeKey(req)
      strict  == r < range /\ pending > 0
  IN  /\ range # r \/ changed
      /\ range' = r
      /\ scope' = ScopeKey(req)
      /\ NextGeneration
      /\ pending' = RestartedCount
      /\ IF strict
         THEN loads' = {} /\ owner' = [k \in Keys |-> 0]
         ELSE UNCHANGED <<loads, owner>>
      /\ Decide(IF changed \/ r > range \/ strict THEN RangeLaunches(r, req, to) ELSE {})
      /\ UNCHANGED <<nodeVars, saved, worker>>

\* GET /api/logs/container, when the container is not loading already
EnsureContainerHistory(k, r) ==
  /\ k[1] \in bound \cap hosted
  /\ k \notin loads
  /\ Decide({[key |-> k, gen |-> generation, from |-> r, to |-> 0,
              by |-> "container", always |-> TRUE]})
  /\ UNCHANGED <<nodeVars, viewVars, loadVars, worker>>

\* A log stream that starts loads the current range of its container.
StartContainerStream(k) ==
  /\ k[1] \in bound
  /\ k \in Listed(k[1])
  /\ Decide({[key |-> k, gen |-> generation, from |-> range, to |-> 0,
              by |-> "stream", always |-> FALSE]})
  /\ UNCHANGED <<nodeVars, viewVars, loadVars, worker>>

\* After a purge: load range r again, read when the list was committed.
ReloadNodeHistory(n, r) ==
  /\ n \in bound \cap hosted
  /\ NextGeneration
  /\ scope' = NoScope
  /\ saved' = saved \cup {[gen |-> generation + 1, prev |-> scope]}
  /\ Decide({[key |-> k, gen |-> generation + 1, from |-> r, to |-> 0,
              by |-> "reload", always |-> FALSE] : k \in {n} \X names[n]})
  /\ UNCHANGED <<nodeVars, range, pending, loads, owner, worker>>

\* reloadNodeHistory puts the scope back once its loads are launched.
RestoreScope(s) ==
  /\ s \in saved
  /\ ~ \E l \in launches : l.by = "reload" /\ l.gen = s.gen
  /\ scope' = s.prev
  /\ saved' = saved \ {s}
  /\ UNCHANGED <<nodeVars, range, loadVars, launches, worker>>
-----------------------------------------------------------------------------
(***************************************************************************)
(* launchHistoryFetchWindow and the goroutine it starts.                   *)
(***************************************************************************)

Refused(l) == l.gen # generation \/ l.key \in loads

RefuseLaunch(l) ==
  /\ l \in launches
  /\ Refused(l)
  /\ launches' = launches \ {l}
  /\ UNCHANGED <<nodeVars, viewVars, loadVars, worker>>

StartLoad(l, w) ==
  /\ l \in launches
  /\ ~ Refused(l)
  /\ worker[w] = Idle
  /\ launches' = launches \ {l}
  /\ loads' = loads \cup {l.key}
  /\ owner' = [owner EXCEPT ![l.key] = l.gen]
  /\ pending' = pending + 1
  /\ worker' = [worker EXCEPT ![w] = [pc |-> "fetch", key |-> l.key, gen |-> l.gen]]
  /\ UNCHANGED <<nodeVars, viewVars, generation>>

\* fetchDozzleHistoryWithCachePolicy returns, for whichever reason.
FinishFetch(w) ==
  /\ worker[w].pc = "fetch"
  /\ worker' = [worker EXCEPT ![w].pc = "release"]
  /\ UNCHANGED <<nodeVars, viewVars, loadVars, launches>>

\* Mutant of OwnsLoad: a check of the wrong generation.
OwnsCurrentLoad(w) == worker[w].gen = generation

OwnsLoad(w) == owner[worker[w].key] = worker[w].gen

\* First deferred call: give the container back, if it is still ours.
ReleaseLoad(w) ==
  /\ worker[w].pc = "release"
  /\ IF OwnsLoad(w)
     THEN /\ loads' = loads \ {worker[w].key}
          /\ owner' = [owner EXCEPT ![worker[w].key] = 0]
     ELSE UNCHANGED <<loads, owner>>
  /\ worker' = [worker EXCEPT ![w].pc = "complete"]
  /\ UNCHANGED <<nodeVars, viewVars, generation, pending, launches>>

\* Mutant of Counted: the early return misses a condition.
CountedIfAny(w) == pending # 0

Counted(w) == worker[w].gen = generation /\ pending # 0

\* Second deferred call, completeHistoryFetch, in a lock section of its own.
CompleteHistoryFetch(w) ==
  /\ worker[w].pc = "complete"
  /\ pending' = IF Counted(w) THEN pending - 1 ELSE pending
  /\ worker' = [worker EXCEPT ![w] = Idle]
  /\ UNCHANGED <<nodeVars, viewVars, generation, loads, owner, launches>>
-----------------------------------------------------------------------------
NodeStep ==
  \/ \E n \in Nodes : \/ AddNode(n) \/ SetNodeHost(n)
                      \/ UpdateNode(n) \/ UnbindNode(n)
                      \/ CommitContainers(n)
                      \/ \E listed \in Reports : PurgeNodeHistory(n, listed)
  \/ \E stored \in SUBSET Nodes : ReloadNodesFromStore(stored)

RequestStep ==
  \/ \E r \in Ranges, req \in Requests, to \in [Keys -> Depths] : HandleLogRange(r, req, to)
  \/ \E k \in Keys, r \in Ranges : EnsureContainerHistory(k, r)
  \/ \E k \in Keys : StartContainerStream(k)
  \/ \E n \in Nodes, r \in Ranges : ReloadNodeHistory(n, r)
  \/ \E s \in saved : RestoreScope(s)

LoadStep ==
  \/ \E l \in launches : RefuseLaunch(l) \/ \E w \in Workers : StartLoad(l, w)
  \/ \E w \in Workers : FinishFetch(w) \/ ReleaseLoad(w) \/ CompleteHistoryFetch(w)

Next == LoadStep \/ NodeStep \/ RequestStep

\* A fetch ends at the latest when historyFetchTimeout expires, and a
\* goroutine that can run does run; nobody has to use the dashboard.
Fairness ==
  \A w \in Workers : WF_vars(FinishFetch(w) \/ ReleaseLoad(w) \/ CompleteHistoryFetch(w))

Spec == Init /\ [][Next]_vars /\ Fairness
-----------------------------------------------------------------------------
TypeOK ==
  /\ bound \in SUBSET Nodes /\ hosted \in SUBSET Nodes
  /\ names \in [Nodes -> SUBSET Containers]
  /\ event \in [Nodes -> {NoEvent} \cup SUBSET Containers]
  /\ range \in Ranges
  /\ scope \in {NoScope} \cup Scope
  /\ saved \in SUBSET [gen : 0..MaxGeneration, prev : {NoScope} \cup Scope]
  /\ generation \in 0..MaxGeneration
  /\ pending \in Nat
  /\ loads \in SUBSET Keys
  /\ owner \in [Keys -> 0..MaxGeneration]
  /\ launches \in SUBSET Launch
  /\ worker \in [Workers -> Worker]

\* The goroutine has not given its container back yet.
Holds(w) == worker[w].pc \in {"fetch", "release"}

\* The loads historyPending is meant to count.
CurrentLoads == {w \in Workers : worker[w].pc # "idle" /\ worker[w].gen = generation}

\* A container marked as loading is owned by a goroutine that will give it
\* back.  launchHistoryFetchWindow refuses every later load of a container in
\* historyLoads, so an entry without an owner would block it for good.
LoadHasOwner ==
  \A k \in loads : \E w \in Workers : Holds(w) /\ worker[w].key = k /\ worker[w].gen = owner[k]

\* A load of the current generation is registered, as its own, until it gives
\* its container back: the late cleanup of a load that a strict reload cut off
\* must not take the entry of the load that replaced it.
CurrentLoadRegistered ==
  \A w \in Workers :
    Holds(w) /\ worker[w].gen = generation
      => worker[w].key \in loads /\ owner[worker[w].key] = generation

\* One window of one container is never fetched twice at a time.
OneLoadPerWindow ==
  \A v, w \in Workers :
    Holds(v) /\ Holds(w) /\ worker[v].key = worker[w].key
      => v = w \/ worker[v].gen # worker[w].gen

\* /api/bootstrap never reports history as loaded while a load of the request
\* on screen runs: late completions of earlier requests are not counted.
LoadingNotUnderreported == Cardinality(CurrentLoads) <= pending

\* A container that is marked as loading is eventually free again, whatever
\* the requests, node changes and reloads in between.
LoadReleased == \A k \in Keys : k \in loads ~> k \notin loads

\* A range request restarts the count: right after it no load is counted that
\* no longer belongs to the request.
RangeRequestRestartsCount ==
  [][(range' # range) => Cardinality(CurrentLoads') = pending']_vars

\* The registry of loads, their owners and the count of pending ones agree, over
\* every order of requests, node changes and late answers
\* (launchHistoryFetchWindow, completeHistoryFetch).
RegistryIsSound ==
  /\ TypeOK
  /\ LoadHasOwner
  /\ CurrentLoadRegistered
  /\ OneLoadPerWindow
  /\ LoadingNotUnderreported
=============================================================================
