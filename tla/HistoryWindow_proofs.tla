------------------------ MODULE HistoryWindow_proofs ------------------------
(***************************************************************************)
(* Proofs about HistoryLoads and HistoryWindow: for every set of nodes,    *)
(* containers and requests, every page size and every capacity of the two  *)
(* caches.                                                                 *)
(***************************************************************************)
EXTENDS HistoryWindow, ListLemmas

(***************************************************************************)
(* The control alone: the loads of HistoryLoads.                           *)
(***************************************************************************)

\* What a range request decides to launch is a set of launches of the
\* generation it is about to begin.
LEMMA RangeLaunchesType ==
  ASSUME TypeOK, generation < MaxGeneration,
         NEW r \in Ranges, NEW req \in Requests, NEW to \in [Keys -> Depths]
  PROVE  RangeLaunches(r, req, to) \subseteq {l \in Launch : l.gen = generation + 1}
<1>1. generation + 1 \in 0..MaxGeneration
  BY BoundsAssumption DEF TypeOK
<1>2. Targets(req) \subseteq Keys
  BY RequestsAssumption DEF Targets, TargetsOf, Listed, KeysOf, ScopedNodes, Keys, Scope, TypeOK
<1>3. ASSUME NEW k \in Keys
      PROVE  [key |-> k, gen |-> generation + 1, from |-> r, to |-> to[k],
              by |-> "range", always |-> k \in req.containers] \in Launch
  BY <1>1 DEF Launch
<1>4. ASSUME NEW l \in RangeLaunches(r, req, to)
      PROVE  l \in Launch /\ l.gen = generation + 1
  <2>1. PICK k \in Keys :
          l = [key |-> k, gen |-> generation + 1, from |-> r, to |-> to[k],
               by |-> "range", always |-> k \in req.containers]
    BY <1>2, <1>4, Zenon DEF RangeLaunches
  <2>2. QED BY <1>3, <2>1
<1>5. QED
  BY <1>4

\* The scope a request leaves behind is a selection.
LEMMA ScopeKeyType ==
  ASSUME TypeOK, NEW req \in Requests
  PROVE  ScopeKey(req) \in Scope
  BY RequestsAssumption DEF ScopeKey, ScopedNodes, Scope, TypeOK

\* Every variable keeps its type, whatever the environment does.
LEMMA TypeStep == TypeOK /\ [Next]_vars => TypeOK'
<1> SUFFICES ASSUME TypeOK, [Next]_vars PROVE TypeOK'
  OBVIOUS
<1>1. CASE NodeStep
  <2>1. ASSUME NEW n \in Nodes, AddNode(n) PROVE TypeOK'
    BY <2>1 DEF AddNode, TypeOK, viewVars, loadVars
  <2>2. ASSUME NEW n \in Nodes, SetNodeHost(n) PROVE TypeOK'
    BY <2>2 DEF SetNodeHost, TypeOK, viewVars, loadVars
  <2>3. ASSUME NEW n \in Nodes, UpdateNode(n) PROVE TypeOK'
    BY <2>3, BoundsAssumption DEF UpdateNode, NextGeneration, TypeOK, viewVars
  <2>4. ASSUME NEW n \in Nodes, UnbindNode(n) PROVE TypeOK'
    BY <2>4, BoundsAssumption DEF UnbindNode, NextGeneration, TypeOK, viewVars
  <2>5. ASSUME NEW n \in Nodes, CommitContainers(n) PROVE TypeOK'
    BY <2>5 DEF CommitContainers, TypeOK, viewVars, loadVars
  <2>6. ASSUME NEW n \in Nodes, NEW listed \in Reports, PurgeNodeHistory(n, listed)
        PROVE  TypeOK'
    BY <2>6, ReportsAssumption DEF PurgeNodeHistory, TypeOK, loadVars
  <2>7. ASSUME NEW stored \in SUBSET Nodes, ReloadNodesFromStore(stored) PROVE TypeOK'
    BY <2>7, BoundsAssumption DEF ReloadNodesFromStore, NextGeneration, TypeOK, viewVars
  <2>8. QED BY <1>1, <2>1, <2>2, <2>3, <2>4, <2>5, <2>6, <2>7 DEF NodeStep
<1>2. CASE RequestStep
  <2>1. ASSUME NEW r \in Ranges, NEW req \in Requests, NEW to \in [Keys -> Depths],
               HandleLogRange(r, req, to)
        PROVE  TypeOK'
    <3>1. launches' \in SUBSET Launch
      BY <2>1, RangeLaunchesType DEF HandleLogRange, NextGeneration, Decide, TypeOK
    <3>2. scope' \in Scope
      BY <2>1, ScopeKeyType DEF HandleLogRange
    <3>3. QED
      BY <2>1, <3>1, <3>2, BoundsAssumption
      DEF HandleLogRange, NextGeneration, RestartedCount, TypeOK, nodeVars
  <2>2. ASSUME NEW k \in Keys, NEW r \in Ranges, EnsureContainerHistory(k, r)
        PROVE  TypeOK'
    <3>1. [key |-> k, gen |-> generation, from |-> r, to |-> 0,
           by |-> "container", always |-> TRUE] \in Launch
      BY BoundsAssumption, DepthsAssumption, RangesAssumption DEF Launch, TypeOK
    <3>2. QED
      BY <2>2, <3>1 DEF EnsureContainerHistory, Decide, TypeOK, nodeVars, viewVars, loadVars
  <2>3. ASSUME NEW k \in Keys, StartContainerStream(k) PROVE TypeOK'
    <3>1. [key |-> k, gen |-> generation, from |-> range, to |-> 0,
           by |-> "stream", always |-> FALSE] \in Launch
      BY BoundsAssumption, DepthsAssumption, RangesAssumption DEF Launch, TypeOK
    <3>2. QED
      BY <2>3, <3>1 DEF StartContainerStream, Decide, TypeOK, nodeVars, viewVars, loadVars
  <2>4. ASSUME NEW n \in Nodes, NEW r \in Ranges, ReloadNodeHistory(n, r) PROVE TypeOK'
    <3>1. {n} \X names[n] \subseteq Keys
      BY DEF TypeOK, Keys
    <3>2. generation + 1 \in 0..MaxGeneration
      BY <2>4, BoundsAssumption DEF ReloadNodeHistory, NextGeneration, TypeOK
    <3>3. ASSUME NEW k \in Keys
          PROVE  [key |-> k, gen |-> generation + 1, from |-> r, to |-> 0,
                  by |-> "reload", always |-> FALSE] \in Launch
      BY <3>2, BoundsAssumption, DepthsAssumption, RangesAssumption DEF Launch
    <3>4. launches' \in SUBSET Launch
      <4>1. ASSUME NEW l \in {[key |-> k, gen |-> generation + 1, from |-> r, to |-> 0,
                               by |-> "reload", always |-> FALSE] : k \in {n} \X names[n]}
            PROVE  l \in Launch
        <5>1. PICK k \in {n} \X names[n] :
                l = [key |-> k, gen |-> generation + 1, from |-> r, to |-> 0,
                     by |-> "reload", always |-> FALSE]
          BY <4>1, Zenon
        <5>2. QED BY <3>1, <3>3, <5>1
      <4>2. QED BY <2>4, <4>1 DEF ReloadNodeHistory, Decide, TypeOK
    <3>5. [gen |-> generation + 1, prev |-> scope]
            \in [gen : 0..MaxGeneration, prev : {NoScope} \cup Scope]
      BY <3>2 DEF TypeOK
    <3>6. QED
      BY <2>4, <3>2, <3>4, <3>5 DEF ReloadNodeHistory, NextGeneration, TypeOK, nodeVars
  <2>5. ASSUME NEW s \in saved, RestoreScope(s) PROVE TypeOK'
    BY <2>5 DEF RestoreScope, TypeOK, nodeVars, loadVars
  <2>6. QED BY <1>2, <2>1, <2>2, <2>3, <2>4, <2>5 DEF RequestStep
<1>3. CASE LoadStep
  <2>1. ASSUME NEW l \in launches, RefuseLaunch(l) PROVE TypeOK'
    BY <2>1 DEF RefuseLaunch, TypeOK, nodeVars, viewVars, loadVars
  <2>2. ASSUME NEW l \in launches, NEW w \in Workers, StartLoad(l, w) PROVE TypeOK'
    <3>1. l.key \in Keys /\ l.gen \in 0..MaxGeneration
      BY DEF TypeOK, Launch
    <3>2. QED
      BY <2>2, <3>1 DEF StartLoad, TypeOK, Worker, Busy, nodeVars, viewVars
  <2>3. ASSUME NEW w \in Workers, FinishFetch(w) PROVE TypeOK'
    BY <2>3 DEF FinishFetch, TypeOK, Worker, Busy, Idle, nodeVars, viewVars, loadVars
  <2>4. ASSUME NEW w \in Workers, ReleaseLoad(w) PROVE TypeOK'
    BY <2>4, BoundsAssumption DEF ReleaseLoad, TypeOK, Worker, Busy, Idle, nodeVars, viewVars
  <2>5. ASSUME NEW w \in Workers, CompleteHistoryFetch(w) PROVE TypeOK'
    BY <2>5 DEF CompleteHistoryFetch, Counted, TypeOK, Worker, nodeVars, viewVars
  <2>6. QED BY <1>3, <2>1, <2>2, <2>3, <2>4, <2>5 DEF LoadStep
<1>4. CASE UNCHANGED vars
  BY <1>4 DEF TypeOK, vars, nodeVars, viewVars, loadVars
<1>5. QED BY <1>1, <1>2, <1>3, <1>4 DEF Next

\* The variables of a server keep their types for every value of the constants.
THEOREM TypeCorrect == Spec => []TypeOK
<1>1. Init => TypeOK
  BY BoundsAssumption, DepthsAssumption, RangesAssumption DEF Init, TypeOK, Worker, Keys
<1>2. QED BY <1>1, TypeStep, PTL DEF Spec
-----------------------------------------------------------------------------
(***************************************************************************)
(* Ownership of loads.  The four properties the runs check are inductive   *)
(* together, once it is known that no goroutine is ahead of                *)
(* historyGeneration.                                                      *)
(***************************************************************************)
NoneAhead == \A w \in Workers : worker[w].gen <= generation

Ownership ==
  /\ TypeOK
  /\ NoneAhead
  /\ LoadHasOwner
  /\ CurrentLoadRegistered
  /\ OneLoadPerWindow
  /\ LoadingNotUnderreported

\* The loads being counted are finitely many.
LEMMA CurrentLoadsFinite ==
  /\ IsFiniteSet(CurrentLoads)
  /\ Cardinality(CurrentLoads) \in Nat
<1>1. CurrentLoads \in SUBSET Workers
  BY DEF CurrentLoads
<1>2. QED
  BY <1>1, WorkersAssumption, FS_Subset, FS_CardinalityType

\* A step that leaves the loads alone leaves their ownership alone.
LEMMA OwnershipFrame ==
  ASSUME Ownership, TypeOK', UNCHANGED <<loadVars, worker>>
  PROVE  Ownership'
<1>1. CurrentLoads' = CurrentLoads
  BY DEF CurrentLoads, loadVars
<1>2. QED
  BY <1>1 DEF Ownership, NoneAhead, LoadHasOwner, CurrentLoadRegistered,
    OneLoadPerWindow, LoadingNotUnderreported, Holds, loadVars

\* A new generation starts with no load of its own, so ownership survives
\* whether historyLoads is kept or emptied, and whatever pending becomes.
LEMMA OwnershipNewGeneration ==
  ASSUME Ownership, TypeOK', generation' = generation + 1, worker' = worker,
         loads' = {} \/ (loads' = loads /\ owner' = owner)
  PROVE  Ownership' /\ CurrentLoads' = {}
<1>1. \A w \in Workers : worker[w].gen \in Nat /\ generation \in Nat
  BY DEF Ownership, TypeOK, Worker, Idle
<1>2. \A w \in Workers : worker'[w].gen < generation'
  BY <1>1 DEF Ownership, NoneAhead
<1>3. NoneAhead' /\ CurrentLoads' = {} /\ CurrentLoadRegistered'
  BY <1>1, <1>2 DEF NoneAhead, CurrentLoads, CurrentLoadRegistered
<1>4. LoadHasOwner' /\ OneLoadPerWindow'
  BY DEF Ownership, LoadHasOwner, OneLoadPerWindow, Holds
<1>5. LoadingNotUnderreported'
  BY <1>3, FS_EmptySet DEF LoadingNotUnderreported, TypeOK
<1>6. QED BY <1>3, <1>4, <1>5 DEF Ownership

\* launchHistoryFetchWindow keeps the books when it starts a load.
LEMMA OwnershipStart ==
  ASSUME Ownership, TypeOK', NEW l \in launches, NEW w \in Workers, StartLoad(l, w)
  PROVE  Ownership'
<1> DEFINE new == [pc |-> "fetch", key |-> l.key, gen |-> generation]
<1>1. /\ l.gen = generation /\ l.key \notin loads
      /\ worker[w] = Idle /\ worker' = [worker EXCEPT ![w] = new]
      /\ loads' = loads \cup {l.key}
      /\ owner' = [owner EXCEPT ![l.key] = generation]
      /\ pending' = pending + 1 /\ generation' = generation
  BY DEF StartLoad, Refused, viewVars
<1>2. l.key \in Keys /\ worker \in [Workers -> Worker]
      /\ owner \in [Keys -> 0..MaxGeneration] /\ pending \in Nat /\ generation \in Nat
  BY DEF Ownership, TypeOK, Launch
<1>3. worker'[w] = new /\ \A v \in Workers \ {w} : worker'[v] = worker[v]
  BY <1>1, <1>2
<1>4. ~ Holds(w) /\ Holds(w)' /\ \A v \in Workers \ {w} : Holds(v)' = Holds(v)
  BY <1>1, <1>3 DEF Holds, Idle
<1>5. NoneAhead'
  BY <1>1, <1>2, <1>3 DEF Ownership, NoneAhead
<1>6. LoadHasOwner'
  <2> SUFFICES ASSUME NEW k \in loads'
               PROVE  \E v \in Workers : Holds(v)' /\ worker'[v].key = k /\ worker'[v].gen = owner'[k]
    BY DEF LoadHasOwner, Holds
  <2>1. CASE k = l.key
    BY <2>1, <1>1, <1>2, <1>3, <1>4
  <2>2. CASE k # l.key
    <3>1. k \in loads /\ k \in Keys /\ owner'[k] = owner[k]
      BY <2>2, <1>1, <1>2 DEF Ownership, TypeOK
    <3>2. PICK v \in Workers : Holds(v) /\ worker[v].key = k /\ worker[v].gen = owner[k]
      BY <3>1 DEF Ownership, LoadHasOwner
    <3>3. QED BY <3>1, <3>2, <1>3, <1>4
  <2>3. QED BY <2>1, <2>2
<1>7. CurrentLoadRegistered'
  <2> SUFFICES ASSUME NEW v \in Workers, Holds(v)', worker'[v].gen = generation
               PROVE  worker'[v].key \in loads' /\ owner'[worker'[v].key] = generation
    BY <1>1 DEF CurrentLoadRegistered, Holds
  <2>1. CASE v = w
    BY <2>1, <1>1, <1>2, <1>3
  <2>2. CASE v # w
    BY <2>2, <1>1, <1>2, <1>3, <1>4 DEF Ownership, TypeOK, CurrentLoadRegistered
  <2>3. QED BY <2>1, <2>2
<1>8. OneLoadPerWindow'
  <2>1. \A v \in Workers \ {w} : Holds(v) /\ worker[v].key = l.key => worker[v].gen # generation
    BY <1>1 DEF Ownership, CurrentLoadRegistered
  <2> SUFFICES ASSUME NEW u \in Workers, NEW v \in Workers, Holds(u)', Holds(v)',
                      worker'[u].key = worker'[v].key, u # v
               PROVE  worker'[u].gen # worker'[v].gen
    BY DEF OneLoadPerWindow, Holds
  <2>2. CASE u = w \/ v = w
    BY <2>1, <2>2, <1>3, <1>4
  <2>3. CASE u # w /\ v # w
    BY <2>3, <1>3, <1>4 DEF Ownership, OneLoadPerWindow
  <2>4. QED BY <2>2, <2>3
<1>9. LoadingNotUnderreported'
  <2>1. CurrentLoads' = CurrentLoads \cup {w} /\ w \notin CurrentLoads
    BY <1>1, <1>2, <1>3 DEF CurrentLoads, Idle
  <2>2. Cardinality(CurrentLoads') = Cardinality(CurrentLoads) + 1
    BY <2>1, CurrentLoadsFinite, FS_AddElement
  <2>3. QED
    BY <2>2, <1>1, <1>2, CurrentLoadsFinite DEF Ownership, LoadingNotUnderreported
<1>10. QED BY <1>5, <1>6, <1>7, <1>8, <1>9 DEF Ownership

\* A goroutine that moves on without touching the books keeps them.
LEMMA OwnershipFinish ==
  ASSUME Ownership, TypeOK', NEW w \in Workers, FinishFetch(w)
  PROVE  Ownership'
<1>1. /\ worker[w].pc = "fetch" /\ worker' = [worker EXCEPT ![w].pc = "release"]
      /\ UNCHANGED loadVars /\ worker \in [Workers -> Worker]
  BY DEF FinishFetch, Ownership, TypeOK
<1>2. \A v \in Workers : /\ Holds(v)' = Holds(v)
                         /\ worker'[v].key = worker[v].key
                         /\ worker'[v].gen = worker[v].gen
                         /\ (worker'[v].pc = "idle") = (worker[v].pc = "idle")
  BY <1>1 DEF Holds, Worker, Idle
<1>3. CurrentLoads' = CurrentLoads
  BY <1>1, <1>2 DEF CurrentLoads, loadVars
<1>4. QED
  BY <1>1, <1>2, <1>3 DEF Ownership, NoneAhead, LoadHasOwner, CurrentLoadRegistered,
    OneLoadPerWindow, LoadingNotUnderreported, loadVars, Holds

\* A goroutine only removes an entry it owns.
LEMMA OwnershipRelease ==
  ASSUME Ownership, TypeOK', NEW w \in Workers, ReleaseLoad(w)
  PROVE  Ownership'
<1> DEFINE key == worker[w].key
           gen == worker[w].gen
<1>1. /\ worker[w].pc = "release" /\ worker' = [worker EXCEPT ![w].pc = "complete"]
      /\ pending' = pending /\ generation' = generation
      /\ worker \in [Workers -> Worker] /\ owner \in [Keys -> 0..MaxGeneration]
      /\ loads \subseteq Keys
  BY DEF ReleaseLoad, Ownership, TypeOK
<1>2. key \in Keys
  BY <1>1 DEF Worker, Idle
<1>3. \A v \in Workers : /\ worker'[v].key = worker[v].key
                         /\ worker'[v].gen = worker[v].gen
                         /\ (worker'[v].pc = "idle") = (worker[v].pc = "idle")
                         /\ v # w => Holds(v)' = Holds(v)
  BY <1>1 DEF Holds, Worker, Idle
<1>4. Holds(w) /\ ~ Holds(w)'
  BY <1>1 DEF Holds
<1>5. \/ gen = owner[key] /\ loads' = loads \ {key} /\ owner' = [owner EXCEPT ![key] = 0]
      \/ gen # owner[key] /\ loads' = loads /\ owner' = owner
  BY <1>1 DEF ReleaseLoad, OwnsLoad
<1>6. NoneAhead' /\ OneLoadPerWindow' /\ LoadingNotUnderreported'
  <2>1. CurrentLoads' = CurrentLoads
    BY <1>1, <1>3 DEF CurrentLoads
  <2>2. QED
    BY <1>1, <1>3, <1>4, <2>1
    DEF Ownership, NoneAhead, OneLoadPerWindow, LoadingNotUnderreported, Holds
<1>7. LoadHasOwner'
  <2> SUFFICES ASSUME NEW k \in loads'
               PROVE  \E v \in Workers : Holds(v)' /\ worker'[v].key = k /\ worker'[v].gen = owner'[k]
    BY DEF LoadHasOwner, Holds
  <2>1. k \in loads /\ k \in Keys /\ owner'[k] = owner[k] /\ (k = key => gen # owner[k])
    BY <1>1, <1>5
  <2>2. PICK v \in Workers : Holds(v) /\ worker[v].key = k /\ worker[v].gen = owner[k]
    BY <2>1 DEF Ownership, LoadHasOwner
  <2>3. QED BY <2>1, <2>2, <1>3
<1>8. CurrentLoadRegistered'
  <2> SUFFICES ASSUME NEW v \in Workers, Holds(v)', worker'[v].gen = generation
               PROVE  worker'[v].key \in loads' /\ owner'[worker'[v].key] = generation
    BY <1>1 DEF CurrentLoadRegistered, Holds
  <2>1. v # w /\ Holds(v) /\ worker[v].gen = generation
    BY <1>3, <1>4
  <2>2. worker[v].key \in loads /\ owner[worker[v].key] = generation
    BY <2>1 DEF Ownership, CurrentLoadRegistered
  <2>3. worker[v].key = key => gen # generation
    BY <2>1, <1>4 DEF Ownership, OneLoadPerWindow
  <2>4. QED BY <2>2, <2>3, <1>1, <1>2, <1>3, <1>5
<1>9. QED BY <1>6, <1>7, <1>8 DEF Ownership

\* completeHistoryFetch counts a load of the current generation down, once.
LEMMA OwnershipComplete ==
  ASSUME Ownership, TypeOK', NEW w \in Workers, CompleteHistoryFetch(w)
  PROVE  Ownership'
<1>1. /\ worker[w].pc = "complete" /\ worker' = [worker EXCEPT ![w] = Idle]
      /\ pending' = IF Counted(w) THEN pending - 1 ELSE pending
      /\ generation' = generation /\ loads' = loads /\ owner' = owner
      /\ worker \in [Workers -> Worker] /\ pending \in Nat /\ generation \in Nat
  BY DEF CompleteHistoryFetch, Ownership, TypeOK
<1>2. worker'[w] = Idle /\ \A v \in Workers \ {w} : worker'[v] = worker[v]
  BY <1>1
<1>3. ~ Holds(w) /\ \A v \in Workers : Holds(v)' = Holds(v)
  BY <1>1, <1>2 DEF Holds, Idle
<1>4. NoneAhead' /\ LoadHasOwner' /\ CurrentLoadRegistered' /\ OneLoadPerWindow'
  BY <1>1, <1>2, <1>3
  DEF Ownership, NoneAhead, LoadHasOwner, CurrentLoadRegistered, OneLoadPerWindow, Idle, Holds
<1>5. LoadingNotUnderreported'
  <2>1. CASE worker[w].gen = generation
    <3>1. w \in CurrentLoads /\ CurrentLoads' = CurrentLoads \ {w}
      BY <2>1, <1>1, <1>2 DEF CurrentLoads, Idle
    <3>2. Cardinality(CurrentLoads') = Cardinality(CurrentLoads) - 1
      BY <3>1, CurrentLoadsFinite, FS_RemoveElement
    <3>3. Cardinality(CurrentLoads) <= pending /\ Cardinality(CurrentLoads) # 0
      BY <3>1, CurrentLoadsFinite, FS_EmptySet DEF Ownership, LoadingNotUnderreported
    <3>4. QED
      BY <2>1, <3>2, <3>3, <1>1, CurrentLoadsFinite DEF LoadingNotUnderreported, Counted
  <2>2. CASE worker[w].gen # generation
    <3>1. CurrentLoads' = CurrentLoads
      BY <2>2, <1>1, <1>2 DEF CurrentLoads, Idle
    <3>2. QED
      BY <2>2, <3>1, <1>1 DEF Ownership, LoadingNotUnderreported, Counted
  <2>3. QED BY <2>1, <2>2
<1>6. QED BY <1>4, <1>5 DEF Ownership
-----------------------------------------------------------------------------
\* Every step keeps the ownership of loads.
LEMMA OwnershipStep == Ownership /\ [Next]_vars => Ownership'
<1> SUFFICES ASSUME Ownership, [Next]_vars PROVE Ownership'
  OBVIOUS
<1>0. TypeOK'
  BY TypeStep DEF Ownership
<1>1. CASE NodeStep
  <2>1. ASSUME NEW n \in Nodes, AddNode(n) \/ SetNodeHost(n) \/ CommitContainers(n)
        PROVE  Ownership'
    BY <2>1, <1>0, OwnershipFrame DEF AddNode, SetNodeHost, CommitContainers
  <2>2. ASSUME NEW n \in Nodes, UpdateNode(n) \/ UnbindNode(n)
        PROVE  Ownership'
    BY <2>2, <1>0, OwnershipNewGeneration DEF UpdateNode, UnbindNode, NextGeneration
  <2>3. ASSUME NEW n \in Nodes, NEW listed \in Reports, PurgeNodeHistory(n, listed)
        PROVE  Ownership'
    BY <2>3, <1>0, OwnershipFrame DEF PurgeNodeHistory
  <2>4. ASSUME NEW stored \in SUBSET Nodes, ReloadNodesFromStore(stored)
        PROVE  Ownership'
    BY <2>4, <1>0, OwnershipNewGeneration DEF ReloadNodesFromStore, NextGeneration
  <2>5. QED BY <1>1, <2>1, <2>2, <2>3, <2>4 DEF NodeStep
<1>2. CASE RequestStep
  <2>1. ASSUME NEW r \in Ranges, NEW req \in Requests, NEW to \in [Keys -> Depths],
               HandleLogRange(r, req, to)
        PROVE  Ownership'
    <3>1. generation' = generation + 1 /\ worker' = worker
          /\ (loads' = {} \/ (loads' = loads /\ owner' = owner))
      BY <2>1 DEF HandleLogRange, NextGeneration
    <3>2. QED BY <3>1, <1>0, OwnershipNewGeneration
  <2>2. ASSUME NEW k \in Keys, NEW r \in Ranges, EnsureContainerHistory(k, r)
        PROVE  Ownership'
    BY <2>2, <1>0, OwnershipFrame DEF EnsureContainerHistory
  <2>3. ASSUME NEW k \in Keys, StartContainerStream(k) PROVE Ownership'
    BY <2>3, <1>0, OwnershipFrame DEF StartContainerStream
  <2>4. ASSUME NEW n \in Nodes, NEW r \in Ranges, ReloadNodeHistory(n, r) PROVE Ownership'
    BY <2>4, <1>0, OwnershipNewGeneration DEF ReloadNodeHistory, NextGeneration
  <2>5. ASSUME NEW s \in saved, RestoreScope(s) PROVE Ownership'
    BY <2>5, <1>0, OwnershipFrame DEF RestoreScope
  <2>6. QED BY <1>2, <2>1, <2>2, <2>3, <2>4, <2>5 DEF RequestStep
<1>3. CASE LoadStep
  <2>1. ASSUME NEW l \in launches, RefuseLaunch(l) PROVE Ownership'
    BY <2>1, <1>0, OwnershipFrame DEF RefuseLaunch
  <2>2. QED
    BY <1>3, <1>0, <2>1, OwnershipStart, OwnershipFinish, OwnershipRelease, OwnershipComplete
    DEF LoadStep
<1>4. CASE UNCHANGED vars
  BY <1>4, <1>0, OwnershipFrame DEF vars
<1>5. QED BY <1>1, <1>2, <1>3, <1>4 DEF Next

\* The ownership of loads holds from the start: nothing is loading yet.
LEMMA OwnershipInit == Init => Ownership
<1> SUFFICES ASSUME Init PROVE Ownership
  OBVIOUS
<1>1. TypeOK
  BY BoundsAssumption, DepthsAssumption, RangesAssumption DEF Init, TypeOK, Worker, Keys
<1>2. CurrentLoads = {}
  BY DEF Init, CurrentLoads, Idle
<1>3. QED
  BY <1>1, <1>2, FS_EmptySet DEF Init, Ownership, NoneAhead, LoadHasOwner,
    CurrentLoadRegistered, OneLoadPerWindow, LoadingNotUnderreported, Holds, Idle

\* The inductive invariant holds in every reachable state.
THEOREM OwnershipInvariant == Spec => []Ownership
  BY OwnershipInit, OwnershipStep, PTL DEF Spec

\* A container marked as loading always has the goroutine that will free it.
THEOREM LoadHasOwnerAlways == Spec => []LoadHasOwner
<1>1. Ownership => LoadHasOwner
  BY DEF Ownership
<1>2. QED BY <1>1, OwnershipInvariant, PTL

\* No late cleanup ever removes the entry of a load of the current request.
THEOREM CurrentLoadRegisteredAlways == Spec => []CurrentLoadRegistered
<1>1. Ownership => CurrentLoadRegistered
  BY DEF Ownership
<1>2. QED BY <1>1, OwnershipInvariant, PTL

\* The same window of a container is never fetched by two goroutines.
THEOREM OneLoadPerWindowAlways == Spec => []OneLoadPerWindow
<1>1. Ownership => OneLoadPerWindow
  BY DEF Ownership
<1>2. QED BY <1>1, OwnershipInvariant, PTL

\* historyLoading is reported for as long as a load of the current request
\* runs.
THEOREM LoadingNotUnderreportedAlways == Spec => []LoadingNotUnderreported
<1>1. Ownership => LoadingNotUnderreported
  BY DEF Ownership
<1>2. QED BY <1>1, OwnershipInvariant, PTL

\* Whatever was left over in historyPending, a range request that changes the
\* range starts it over from the loads that belong to it: none yet.
THEOREM RangeRequestRestartsCountAlways == Spec => RangeRequestRestartsCount
<1>1. Ownership /\ [Next]_vars => [(range' # range) => Cardinality(CurrentLoads') = pending']_vars
  <2> SUFFICES ASSUME Ownership, Next, range' # range
               PROVE  Cardinality(CurrentLoads') = pending'
    OBVIOUS
  <2>1. PICK r \in Ranges, req \in Requests, to \in [Keys -> Depths] :
          HandleLogRange(r, req, to)
    BY Zenon DEF Next, NodeStep, RequestStep, LoadStep, AddNode, SetNodeHost, UpdateNode, UnbindNode,
      CommitContainers, PurgeNodeHistory, ReloadNodesFromStore, EnsureContainerHistory,
      StartContainerStream, ReloadNodeHistory, RestoreScope, RefuseLaunch, StartLoad,
      FinishFetch, ReleaseLoad, CompleteHistoryFetch, viewVars
  <2>2. /\ generation' = generation + 1 /\ worker' = worker /\ pending' = 0
        /\ loads' = {} \/ (loads' = loads /\ owner' = owner)
    BY <2>1 DEF HandleLogRange, NextGeneration, RestartedCount
  <2>3. TypeOK'
    BY TypeStep DEF Ownership
  <2>4. CurrentLoads' = {}
    BY <2>2, <2>3, OwnershipNewGeneration
  <2>5. QED BY <2>2, <2>4, FS_EmptySet
<1>2. QED BY <1>1, OwnershipInvariant, PTL DEF Spec, RangeRequestRestartsCount

\* Types, owners, registrations and the count of pending loads stay in agreement
\* (launchHistoryFetchWindow, completeHistoryFetch).
THEOREM RegistryIsSoundAlways == Spec => []RegistryIsSound
<1>1. Ownership => LoadHasOwner /\ CurrentLoadRegistered /\ OneLoadPerWindow /\ LoadingNotUnderreported
  BY DEF Ownership
<1>2. TypeOK /\ Ownership => RegistryIsSound
  BY <1>1 DEF RegistryIsSound
<1>3. QED BY <1>2, TypeCorrect, OwnershipInvariant, PTL

-----------------------------------------------------------------------------
(***************************************************************************)
(* The loads with their data: the page loop and the two caches.            *)
(***************************************************************************)
Entry == [key : Keys, age : Ages]
Sorted(logs) == \A i, j \in DOMAIN logs : i < j => logs[i].age <= logs[j].age

\* The positions of the records that stay, in the order they are in.
StaysAt(logs, n, nth, m) ==
  /\ nth \in [1..m -> 1..Len(logs)]
  /\ WithoutNode(logs, n) \in Seq(Entry) /\ Len(WithoutNode(logs, n)) = m
  /\ \A j \in 1..m : WithoutNode(logs, n)[j] = logs[nth[j]] /\ logs[nth[j]].key[1] # n
  /\ \A i, j \in 1..m : i < j => nth[i] < nth[j]
  /\ \A i \in 1..Len(logs) : logs[i].key[1] # n => \E j \in 1..m : nth[j] = i

\* filteredLogs (updateNode, unbindNode): the records of the other nodes, all of
\* them, each once and in their order.
LEMMA WithoutNodeKeeps ==
  ASSUME NEW logs \in Seq(Entry), NEW n
  PROVE  \E m \in 0..Len(logs) : \E nth \in [1..m -> 1..Len(logs)] : StaysAt(logs, n, nth, m)
<1> DEFINE kept == {i \in DOMAIN logs : logs[i].key[1] # n}
<1>1. /\ DOMAIN logs = 1..Len(logs) /\ Len(logs) \in Nat
      /\ \A i \in 1..Len(logs) : logs[i] \in Entry
  OBVIOUS
<1>2. kept \in SUBSET (1..Len(logs))
  BY <1>1
<1>3. \A i \in kept : i \in 1..Len(logs) /\ logs[i].key[1] # n
  BY <1>1
<1>4. \A i \in 1..Len(logs) : logs[i].key[1] # n => i \in kept
  BY <1>1
<1>5. WithoutNode(logs, n) = Picked(logs, kept)
  BY DEF WithoutNode
<1> HIDE DEF kept
<1>6. WithoutNode(logs, n) \in Seq(Entry)
  BY <1>2, <1>5, PickedElements
<1>7. PICK m \in 0..Len(logs) : \E nth \in [1..m -> kept] : PickedAt(logs, kept, nth, m)
  BY <1>2, PickedElements
<1>8. PICK nth \in [1..m -> kept] : PickedAt(logs, kept, nth, m)
  BY <1>7
<1>9. nth \in [1..m -> 1..Len(logs)]
  BY <1>3
<1>10. /\ Len(WithoutNode(logs, n)) = m
       /\ \A j \in 1..m : WithoutNode(logs, n)[j] = logs[nth[j]]
       /\ \A i, j \in 1..m : i < j => nth[i] < nth[j]
       /\ \A i \in kept : \E j \in 1..m : nth[j] = i
  BY <1>5, <1>8 DEF PickedAt
<1>11. \A j \in 1..m : logs[nth[j]].key[1] # n
  BY <1>3
<1>12. \A i \in 1..Len(logs) : logs[i].key[1] # n => \E j \in 1..m : nth[j] = i
  BY <1>4, <1>10
<1>13. StaysAt(logs, n, nth, m)
  BY <1>6, <1>9, <1>10, <1>11, <1>12 DEF StaysAt
<1>14. QED
  BY <1>9, <1>13

\* Where insertNewestLog puts an entry, and what the cut leaves: the m entries
\* that are newer, the new one and then the others, up to the limit.
PlacedAt(logs, e, limit, m) ==
  LET q == InsertNewest(logs, e, limit)
  IN  /\ q \in Seq(Entry)
      /\ Len(q) = IF Len(logs) + 1 > limit THEN limit ELSE Len(logs) + 1
      /\ \A i \in 1..Len(logs) : i <= m <=> logs[i].age < e.age
      /\ \A i \in 1..Len(q) : q[i] = IF i <= m THEN logs[i] ELSE IF i = m + 1 THEN e ELSE logs[i - 1]

\* In a list sorted by age the newer entries are a prefix, so counting them finds
\* the place that the binary search of insertNewestLog finds.
LEMMA InsertNewestPlaces ==
  ASSUME NEW logs \in Seq(Entry), Sorted(logs), NEW e \in Entry, NEW limit \in Nat \ {0}
  PROVE  \E m \in 0..Len(logs) : PlacedAt(logs, e, limit, m)
<1> DEFINE n == Len(logs)
           newer == {i \in DOMAIN logs : logs[i].age < e.age}
           m == Cardinality(newer)
           all == InsertAt(logs, m + 1, e)
<1>1. DOMAIN logs = 1..n /\ n \in Nat /\ \A i \in 1..n : logs[i] \in Entry
  OBVIOUS
<1>2. \A x \in Entry : x.age \in Nat
  BY DepthsAssumption DEF Entry, Ages
<1>3. m \in 0..n /\ newer = 1..m
  <2>1. newer \subseteq 1..n
    BY <1>1
  <2>2. \A i \in newer : \A j \in 1..i : j \in newer
    <3> SUFFICES ASSUME NEW i \in 1..n, logs[i].age < e.age, NEW j \in 1..i
                 PROVE  j \in 1..n /\ logs[j].age < e.age
      BY <1>1
    <3>1. j \in 1..n /\ (j < i \/ j = i)
      BY <1>1
    <3>2. logs[j].age <= logs[i].age
      <4>1. logs[i].age \in Nat
        BY <1>1, <1>2
      <4>2. QED
        BY <1>1, <3>1, <4>1 DEF Sorted
    <3>3. logs[j].age \in Nat /\ logs[i].age \in Nat /\ e.age \in Nat
      BY <1>1, <1>2, <3>1
    <3>4. QED
      BY <3>1, <3>2, <3>3
  <2> HIDE DEF newer
  <2>3. QED
    BY <1>1, <2>1, <2>2, NoGapIsInterval
<1>4. \A i \in 1..n : i <= m <=> logs[i].age < e.age
  <2>1. \A i \in 1..n : i \in newer <=> logs[i].age < e.age
    BY <1>1
  <2> HIDE DEF newer
  <2>2. \A i \in 1..n : i \in newer <=> i <= m
    BY <1>1, <1>3
  <2>3. QED
    BY <2>1, <2>2
<1>5. InsertNewest(logs, e, limit) = Cut(all, limit)
  BY DEF InsertNewest
<1> HIDE DEF m
<1>6. m \in 0..Len(logs)
  BY <1>3
<1>7. /\ all \in Seq(Entry) /\ Len(all) = n + 1
      /\ \A i \in 1..(n + 1) : all[i] = IF i <= m THEN logs[i] ELSE IF i = m + 1 THEN e ELSE logs[i - 1]
  BY <1>6, InsertedElements
<1> HIDE DEF all, n
<1> DEFINE cut == IF n + 1 > limit THEN limit ELSE n + 1
<1>8. cut \in 0..(n + 1)
  BY <1>1
<1>9. InsertNewest(logs, e, limit) = SubSeq(all, 1, cut)
  BY <1>5, <1>7 DEF Cut
<1> HIDE DEF cut
<1>10. /\ SubSeq(all, 1, cut) \in Seq(Entry) /\ Len(SubSeq(all, 1, cut)) = cut
       /\ \A i \in 1..cut : SubSeq(all, 1, cut)[i] = all[i]
  BY <1>7, <1>8, FirstElements
<1>11. \A i \in 1..cut : i \in 1..(n + 1)
  BY <1>1, <1>8
<1>12. PlacedAt(logs, e, limit, m)
  BY <1>4, <1>7, <1>9, <1>10, <1>11 DEF PlacedAt, cut, n
<1>13. QED
  BY <1>3, <1>12 DEF n
-----------------------------------------------------------------------------
(***************************************************************************)
(* The ages: the greatest of a set, and the newest of it.                  *)
(***************************************************************************)
\* Largest finds the oldest of finitely many ages, 0 if there are none.
LEMMA LargestIsGreatest ==
  ASSUME NEW S, S \subseteq Nat, IsFiniteSet(S)
  PROVE  /\ Largest(S) \in S \cup {0}
         /\ \A y \in S : y <= Largest(S)
         /\ S # {} => Largest(S) \in S
<1>1. \E x \in S \cup {0} : \A y \in S : y <= x
  BY FiniteHasGreatest
<1>2. Largest(S) \in S \cup {0} /\ \A y \in S : y <= Largest(S)
  BY <1>1 DEF Largest
<1>3. ASSUME S # {} PROVE Largest(S) \in S
  <2>1. PICK y \in S : y \in Nat
    BY <1>3
  <2>2. CASE Largest(S) = 0
    <3>1. y <= 0
      BY <1>2, <2>2
    <3>2. QED
      BY <2>1, <2>2, <3>1
  <2>3. QED
    BY <1>2, <2>2
<1>4. QED
  BY <1>2, <1>3

NewerIn(S, a) == {b \in S : b < a}

\* The newer ones of a finite set of ages: fewer than its elements, and the more
\* the older the age.
LEMMA NewerAreFewer ==
  ASSUME NEW S, S \subseteq Nat, IsFiniteSet(S)
  PROVE  /\ Cardinality(S) \in Nat
         /\ \A a \in Nat : IsFiniteSet(NewerIn(S, a)) /\ Cardinality(NewerIn(S, a)) \in 0..Cardinality(S)
         /\ \A a \in S : Cardinality(NewerIn(S, a)) < Cardinality(S)
         /\ \A a, c \in Nat : a <= c => Cardinality(NewerIn(S, a)) <= Cardinality(NewerIn(S, c))
<1>1. Cardinality(S) \in Nat
  BY FS_CardinalityType
<1>2. \A a \in Nat : NewerIn(S, a) \in SUBSET S
  BY DEF NewerIn
<1>3. \A a \in Nat : IsFiniteSet(NewerIn(S, a)) /\ Cardinality(NewerIn(S, a)) \in 0..Cardinality(S)
  <2> TAKE a \in Nat
  <2>1. NewerIn(S, a) \in SUBSET S
    BY <1>2
  <2>2. IsFiniteSet(NewerIn(S, a)) /\ Cardinality(NewerIn(S, a)) <= Cardinality(S)
    BY <2>1, FS_Subset
  <2>3. Cardinality(NewerIn(S, a)) \in Nat
    BY <2>2, FS_CardinalityType
  <2>4. QED
    BY <1>1, <2>2, <2>3
<1>4. \A a \in S : Cardinality(NewerIn(S, a)) < Cardinality(S)
  <2> TAKE a \in S
  <2>1. a \in Nat
    OBVIOUS
  <2>2. a \notin NewerIn(S, a)
    BY <2>1 DEF NewerIn
  <2>3. NewerIn(S, a) \in SUBSET S /\ NewerIn(S, a) # S
    BY <1>2, <2>1, <2>2
  <2>4. Cardinality(NewerIn(S, a)) # Cardinality(S)
    BY <2>3, FS_Subset
  <2>5. QED
    BY <1>1, <1>3, <2>1, <2>4
<1>5. \A a, c \in Nat : a <= c => Cardinality(NewerIn(S, a)) <= Cardinality(NewerIn(S, c))
  <2> SUFFICES ASSUME NEW a \in Nat, NEW c \in Nat, a <= c
               PROVE  Cardinality(NewerIn(S, a)) <= Cardinality(NewerIn(S, c))
    OBVIOUS
  <2>1. \A b \in S : b < a => b < c
    <3> TAKE b \in S
    <3>1. b \in Nat
      OBVIOUS
    <3>2. QED
      BY <3>1
  <2>2. NewerIn(S, a) \in SUBSET NewerIn(S, c)
    BY <2>1 DEF NewerIn
  <2>3. QED
    BY <1>3, <2>2, FS_Subset
<1>6. QED
  BY <1>1, <1>3, <1>4, <1>5

\* A set of at most "limit" ages is kept whole.
LEMMA NewestKeepsFew ==
  ASSUME NEW S, S \subseteq Nat, IsFiniteSet(S), NEW limit \in Nat, Cardinality(S) <= limit
  PROVE  Newest(S, limit) = S
<1>1. \A a \in S : Cardinality(NewerIn(S, a)) \in Nat /\ Cardinality(NewerIn(S, a)) < Cardinality(S)
  <2> TAKE a \in S
  <2>1. a \in Nat
    OBVIOUS
  <2>2. Cardinality(NewerIn(S, a)) \in 0..Cardinality(S)
    BY <2>1, NewerAreFewer
  <2>3. Cardinality(NewerIn(S, a)) < Cardinality(S)
    BY NewerAreFewer
  <2>4. QED
    BY <2>2, <2>3
<1>2. \A a \in S : Cardinality(NewerIn(S, a)) < limit
  <2> TAKE a \in S
  <2>1. Cardinality(S) \in Nat
    BY FS_CardinalityType
  <2>2. QED
    BY <1>1, <2>1
<1>3. QED
  BY <1>2 DEF Newest, NewerIn

\* Of one more than "limit" the oldest goes.
LEMMA NewestDropsOldest ==
  ASSUME NEW S, S \subseteq Nat, IsFiniteSet(S), NEW limit \in Nat, Cardinality(S) = limit + 1,
         NEW m \in S, \A a \in S : a <= m
  PROVE  Newest(S, limit) = S \ {m}
<1>1. m \in Nat
  OBVIOUS
<1>2. NewerIn(S, m) = S \ {m}
  <2>1. \A a \in S : a < m <=> a # m
    <3> TAKE a \in S
    <3>1. a \in Nat /\ a <= m
      OBVIOUS
    <3>2. QED
      BY <1>1, <3>1
  <2>2. QED
    BY <2>1 DEF NewerIn
<1>3. IsFiniteSet(S \ {m}) /\ Cardinality(S \ {m}) = limit
  <2>1. IsFiniteSet(S \ {m}) /\ Cardinality(S \ {m}) = Cardinality(S) - 1
    BY FS_RemoveElement
  <2>2. QED
    BY <2>1
<1>4. \A a \in S \ {m} : Cardinality(NewerIn(S, a)) < limit
  <2> TAKE a \in S \ {m}
  <2>1. a \in S /\ a \in Nat /\ a < m
    <3>1. a \in S /\ a \in Nat /\ a # m /\ a <= m
      OBVIOUS
    <3>2. QED
      BY <1>1, <3>1
  <2>2. NewerIn(S, a) \in SUBSET (S \ {m}) /\ a \in S \ {m} /\ a \notin NewerIn(S, a)
    <3>1. \A b \in S : b < a => b # m
      BY <1>1, <2>1
    <3>2. ~ (a < a)
      BY <2>1
    <3>3. QED
      BY <2>1, <3>1, <3>2 DEF NewerIn
  <2>3. Cardinality(NewerIn(S, a)) <= limit /\ Cardinality(NewerIn(S, a)) # limit
    BY <1>3, <2>2, FS_Subset
  <2>4. Cardinality(NewerIn(S, a)) \in 0..Cardinality(S)
    BY <2>1, NewerAreFewer
  <2>5. QED
    BY <2>3, <2>4
<1>5. ~ (Cardinality(NewerIn(S, m)) < limit)
  BY <1>2, <1>3
<1>6. Newest(S, limit) = {a \in S : Cardinality(NewerIn(S, a)) < limit}
  BY DEF Newest, NewerIn
<1>7. QED
  BY <1>4, <1>5, <1>6

\* The list is full of records newer than x, so x has no place in it.
FullBefore(S, limit, x) == Cardinality(S) >= limit /\ \A b \in S : b < x

\* What appending does to a container's own list: it keeps to its limit, an age
\* that it does not hold afterwards is older than all of a full list, and one
\* that was stays so.
LEMMA AppendedNewest ==
  ASSUME NEW S, S \subseteq Nat, IsFiniteSet(S), NEW limit \in Nat \ {0}, Cardinality(S) <= limit,
         NEW a \in Nat
  PROVE  /\ Newest(S \cup {a}, limit) \subseteq S \cup {a}
         /\ IsFiniteSet(Newest(S \cup {a}, limit))
         /\ Cardinality(Newest(S \cup {a}, limit)) <= limit
         /\ \A x \in S \cup {a} : x \in Newest(S \cup {a}, limit) \/ FullBefore(Newest(S \cup {a}, limit), limit, x)
         /\ \A x \in Nat : FullBefore(S, limit, x) => FullBefore(Newest(S \cup {a}, limit), limit, x)
<1> DEFINE all == S \cup {a}
           T == Newest(all, limit)
<1>1. Cardinality(S) \in Nat /\ limit \in Nat
  BY FS_CardinalityType
<1>2. /\ all \subseteq Nat /\ IsFiniteSet(all)
      /\ Cardinality(all) = IF a \in S THEN Cardinality(S) ELSE Cardinality(S) + 1
  BY FS_AddElement
<1>3. S \subseteq all /\ a \in all /\ \A x \in all : x \in S \/ x = a
  OBVIOUS
<1> HIDE DEF all
<1>4. CASE Cardinality(all) <= limit
  <2>1. T = all
    BY <1>2, <1>4, NewestKeepsFew
  <2>2. \A x \in Nat : FullBefore(S, limit, x) => FullBefore(all, limit, x)
    <3> SUFFICES ASSUME NEW x \in Nat, FullBefore(S, limit, x) PROVE FullBefore(all, limit, x)
      OBVIOUS
    <3>1. a \in S
      BY <1>1, <1>2, <1>4 DEF FullBefore
    <3>2. all = S
      BY <3>1 DEF all
    <3>3. QED
      BY <3>2
  <2> HIDE DEF T
  <2>3. /\ T \subseteq all /\ IsFiniteSet(T) /\ Cardinality(T) <= limit
        /\ \A x \in all : x \in T \/ FullBefore(T, limit, x)
        /\ \A x \in Nat : FullBefore(S, limit, x) => FullBefore(T, limit, x)
    BY <1>2, <1>4, <2>1, <2>2
  <2>4. QED
    BY <2>3 DEF T, all
<1>5. CASE ~ (Cardinality(all) <= limit)
  <2>1. a \notin S /\ Cardinality(all) = limit + 1 /\ Cardinality(S) = limit
    BY <1>1, <1>2, <1>5
  <2>2. PICK m \in all : \A y \in all : y <= m
    BY <1>2, <1>3, FiniteHasGreatest
  <2>3. T = all \ {m}
    BY <1>1, <1>2, <2>1, <2>2, NewestDropsOldest
  <2> HIDE DEF T
  <2>4. T \subseteq all /\ IsFiniteSet(T) /\ Cardinality(T) = limit
    <3>1. IsFiniteSet(all \ {m}) /\ Cardinality(all \ {m}) = Cardinality(all) - 1
      BY <1>2, <2>2, FS_RemoveElement
    <3>2. QED
      BY <1>1, <2>1, <2>3, <3>1
  <2>5. m \in Nat /\ \A b \in T : b \in all /\ b \in Nat /\ b <= m /\ b # m
    BY <1>2, <2>2, <2>3
  <2>6. \A b \in T : b < m
    BY <2>5
  <2>7. FullBefore(T, limit, m)
    BY <1>1, <2>4, <2>6 DEF FullBefore
  <2>8. \A x \in all : x \in T \/ FullBefore(T, limit, x)
    BY <2>3, <2>7
  <2>9. ASSUME NEW x \in Nat, FullBefore(S, limit, x) PROVE FullBefore(T, limit, x)
    <3>1. \A b \in S : b < x
      BY <2>9 DEF FullBefore
    <3>2. CASE a < x
      <4>1. \A b \in T : b < x
        BY <1>3, <2>4, <3>1, <3>2
      <4>2. QED
        BY <1>1, <2>4, <4>1 DEF FullBefore
    <3>3. CASE ~ (a < x)
      <4>1. m = a
        <5>1. CASE m \in S
          <6>1. m < x /\ a <= m
            BY <1>3, <2>2, <3>1, <5>1
          <6>2. QED
            BY <2>5, <3>3, <6>1
        <5>2. QED
          BY <1>3, <2>2, <5>1
      <4>2. \A b \in T : b \in S
        BY <1>3, <2>5, <4>1
      <4>3. \A b \in T : b < x
        BY <3>1, <4>2
      <4>4. QED
        BY <1>1, <2>4, <4>3 DEF FullBefore
    <3>4. QED
      BY <3>2, <3>3
  <2>10. /\ T \subseteq all /\ IsFiniteSet(T) /\ Cardinality(T) <= limit
         /\ \A x \in all : x \in T \/ FullBefore(T, limit, x)
         /\ \A x \in Nat : FullBefore(S, limit, x) => FullBefore(T, limit, x)
    BY <1>1, <2>4, <2>8, <2>9
  <2>11. QED
    BY <2>10 DEF T, all
<1>6. QED
  BY <1>4, <1>5

\* The page Dozzle answers with: the newest "limit" records of what was asked for.
\* It has everything up to the oldest record on it, and is all there is unless it
\* has "limit" records.
LEMMA PageIsNewest ==
  ASSUME NEW S, S \subseteq Nat, IsFiniteSet(S), NEW limit \in Nat \ {0}
  PROVE  /\ Newest(S, limit) \subseteq S /\ IsFiniteSet(Newest(S, limit))
         /\ S # {} => Newest(S, limit) # {}
         /\ \A a \in S, m \in Newest(S, limit) : a <= m => a \in Newest(S, limit)
         /\ Cardinality(Newest(S, limit)) # limit => Newest(S, limit) = S
<1> DEFINE T == Newest(S, limit)
<1>1. T = {a \in S : Cardinality(NewerIn(S, a)) < limit}
  BY DEF Newest, NewerIn
<1>2. /\ Cardinality(S) \in Nat
      /\ \A a \in S : Cardinality(NewerIn(S, a)) \in Nat
      /\ \A a, c \in S : a <= c => Cardinality(NewerIn(S, a)) <= Cardinality(NewerIn(S, c))
  <2>1. \A a \in S : a \in Nat
    OBVIOUS
  <2>2. \A a \in S : Cardinality(NewerIn(S, a)) \in 0..Cardinality(S)
    BY <2>1, NewerAreFewer
  <2>3. \A a, c \in S : a <= c => Cardinality(NewerIn(S, a)) <= Cardinality(NewerIn(S, c))
    BY <2>1, NewerAreFewer
  <2>4. Cardinality(S) \in Nat
    BY FS_CardinalityType
  <2>5. QED
    BY <2>2, <2>3, <2>4
<1> HIDE DEF T
<1>3. T \in SUBSET S
  BY <1>1
<1>4. IsFiniteSet(T) /\ Cardinality(T) \in Nat
  BY <1>3, FS_Subset, FS_CardinalityType
<1>5. \A a \in S, m \in T : a <= m => a \in T
  <2> SUFFICES ASSUME NEW a \in S, NEW m \in S, m \in T, a <= m PROVE a \in T
    BY <1>3
  <2>1. Cardinality(NewerIn(S, a)) <= Cardinality(NewerIn(S, m)) /\ Cardinality(NewerIn(S, m)) < limit
    BY <1>1, <1>2
  <2>2. QED
    BY <1>1, <1>2, <2>1
<1>6. ASSUME NEW x \in S, \A y \in S : y < x => y \in T
      PROVE  NewerIn(S, x) \in SUBSET T
  BY <1>6 DEF NewerIn
<1>7. ASSUME S # {} PROVE T # {}
  <2>1. PICK x \in S : \A y \in S : x <= y
    BY <1>7, LeastNatural
  <2>2. NewerIn(S, x) = {}
    <3>1. \A y \in S : ~ (y < x)
      BY <2>1
    <3>2. QED
      BY <3>1 DEF NewerIn
  <2>3. Cardinality(NewerIn(S, x)) = 0
    BY <2>2, FS_EmptySet
  <2>4. QED
    BY <1>1, <2>3
<1>8. ASSUME Cardinality(T) # limit PROVE T = S
  <2> SUFFICES ASSUME T # S PROVE FALSE
    OBVIOUS
  <2>1. S \ T \subseteq Nat /\ S \ T # {}
    BY <1>3
  <2>2. PICK x \in S \ T : \A y \in S \ T : x <= y
    BY <2>1, LeastNatural
  <2>3. NewerIn(S, x) = T
    <3>1. \A y \in S : y < x => y \in T
      <4> TAKE y \in S
      <4>1. x \in Nat /\ y \in Nat
        OBVIOUS
      <4>2. y \in S \ T => ~ (y < x)
        BY <2>2, <4>1
      <4>3. QED
        BY <4>2
    <3>2. \A y \in T : y \in S /\ y < x
      <4> TAKE y \in T
      <4>1. y \in S /\ x \in Nat /\ y \in Nat /\ x \in S /\ x \notin T
        BY <1>3
      <4>2. ~ (x <= y)
        BY <1>5, <4>1
      <4>3. QED
        BY <4>1, <4>2
    <3>3. QED
      BY <3>1, <3>2 DEF NewerIn
  <2>4. Cardinality(T) >= limit
    <3>1. ~ (Cardinality(NewerIn(S, x)) < limit)
      BY <1>1
    <3>2. QED
      BY <1>4, <2>3, <3>1
  <2>5. T # {}
    BY <1>4, <2>4, FS_EmptySet
  <2>6. PICK m \in T : \A y \in T : y <= m
    BY <1>3, <1>4, <2>5, FiniteHasGreatest
  <2>7. m \in S /\ Cardinality(NewerIn(S, m)) < limit /\ Cardinality(NewerIn(S, m)) \in Nat
    BY <1>1, <1>2
  <2>8. NewerIn(S, m) = T \ {m}
    <3>1. \A y \in S : y < m => y \in T /\ y # m
      <4> TAKE y \in S
      <4>1. m \in Nat /\ y \in Nat
        BY <2>7
      <4>2. QED
        BY <1>5, <4>1
    <3>2. \A y \in T : y # m => y < m
      <4> TAKE y \in T
      <4>1. m \in Nat /\ y \in Nat /\ y <= m
        BY <1>3, <2>6, <2>7
      <4>2. QED
        BY <4>1
    <3>3. QED
      BY <1>3, <3>1, <3>2 DEF NewerIn
  <2>9. Cardinality(T \ {m}) = Cardinality(T) - 1
    BY <1>4, FS_RemoveElement
  <2>10. QED
    BY <1>4, <1>8, <2>4, <2>7, <2>8, <2>9
<1>9. QED
  BY <1>3, <1>4, <1>5, <1>7, <1>8 DEF T
-----------------------------------------------------------------------------
(***************************************************************************)
(* Every step is one of HistoryLoads.                                      *)
(***************************************************************************)
CachesTyped ==
  /\ shared \in Seq(Entry) /\ Len(shared) <= SharedCapacity
  /\ cached \in [Keys -> SUBSET Ages]
  /\ \A k \in Keys : IsFiniteSet(cached[k]) /\ Cardinality(cached[k]) <= ContainerCapacity
  /\ coverage \in [Keys -> Depths]

\* A load goes on from a depth: the coverage, or what is cached of its container.
LEMMA BoundaryType ==
  ASSUME CachesTyped, NEW k \in Keys
  PROVE  Boundary(k) \in Depths
<1> DEFINE S == {coverage[k]} \cup {a - 1 : a \in cached[k]}
<1>1. coverage[k] \in Depths /\ cached[k] \subseteq Ages /\ IsFiniteSet(cached[k])
  BY DEF CachesTyped
<1>2. \A a \in cached[k] : a - 1 \in Depths
  BY <1>1, AgesAssumption
<1>3. S \subseteq Depths /\ Depths \subseteq Nat /\ 0 \in Depths
  BY <1>1, <1>2, DepthsAssumption
<1>4. IsFiniteSet(S)
  <2> DEFINE before == [a \in cached[k] |-> a - 1]
             B == {a - 1 : a \in cached[k]}
  <2>1. before \in Surjection(cached[k], B)
    BY DEF Surjection
  <2> HIDE DEF before
  <2>2. IsFiniteSet(B)
    BY <1>1, <2>1, FS_Surjection
  <2> HIDE DEF B
  <2>3. IsFiniteSet(B \cup {coverage[k]})
    BY <2>2, FS_AddElement
  <2>4. S = B \cup {coverage[k]}
    BY DEF B
  <2> HIDE DEF S
  <2>5. QED
    BY <2>3, <2>4
<1> HIDE DEF S
<1>5. Largest(S) \in S \cup {0}
  BY <1>3, <1>4, LargestIsGreatest
<1>6. Largest(S) \in Depths
  BY <1>3, <1>5
<1>7. QED
  BY <1>6 DEF Boundary, S

\* What a goroutine does to its load, from the first look at the cache to the last
\* deferred call.
LEMMA LoadProgressImplements ==
  ASSUME NEW w \in Workers, LoadProgress(w)
  PROVE  UNCHANGED vars \/ FinishFetch(w) \/ ReleaseLoad(w) \/ CompleteHistoryFetch(w)
<1>1. CASE CheckRoom(w)
  BY <1>1 DEF CheckRoom, Completed, GivenUp, Advance
<1>2. CASE RequestPage(w)
  BY <1>2 DEF RequestPage, Completed, Advance
<1>3. CASE RequestFails(w)
  BY <1>3 DEF RequestFails
<1>4. CASE IngestRecord(w)
  BY <1>4 DEF IngestRecord, GivenUp, Advance
<1>5. CASE FinishPage(w)
  BY <1>5 DEF FinishPage, Completed, Advance
<1>6. CASE ContainerReleased(w) \/ LoadCounted(w)
  BY <1>6 DEF ContainerReleased, LoadCounted
<1>7. QED
  BY <1>1, <1>2, <1>3, <1>4, <1>5, <1>6 DEF LoadProgress

\* What the nodes' handlers do is what HistoryLoads has them do.
LEMMA NodeStepImplements ==
  ASSUME NEW n \in Nodes,
         NodeAdded(n) \/ HostLearnt(n) \/ NodeUpdated(n) \/ NodeUnbound(n)
         \/ ContainersCommitted(n) \/ (\E listed \in Reports : ContainersPurged(n, listed))
  PROVE  Next
<1>1. AddNode(n) \/ SetNodeHost(n) \/ UpdateNode(n) \/ UnbindNode(n) \/ CommitContainers(n)
      \/ (\E listed \in Reports : PurgeNodeHistory(n, listed))
  BY DEF NodeAdded, HostLearnt, NodeUpdated, NodeUnbound, ContainersCommitted, ContainersPurged
<1>2. NodeStep
  BY <1>1, Zenon DEF NodeStep
<1>3. QED
  BY <1>2 DEF Next

\* What the requests decide to load is what HistoryLoads lets them decide: the
\* depths they go on from are depths.
LEMMA RequestStepImplements ==
  ASSUME CachesTyped,
         (\E r \in Ranges, req \in Requests : RangeRequested(r, req))
         \/ (\E k \in Polled, r \in Ranges : ContainerPolled(k, r))
         \/ (\E k \in Streamed : StreamStarted(k))
  PROVE  Next
<1>1. CASE \E r \in Ranges, req \in Requests : RangeRequested(r, req)
  <2>1. PICK r \in Ranges, req \in Requests : RangeRequested(r, req)
    BY <1>1
  <2>2. [k \in Keys |-> 0] \in [Keys -> Depths] /\ [k \in Keys |-> Boundary(k)] \in [Keys -> Depths]
    BY BoundaryType, DepthsAssumption
  <2>3. HandleLogRange(r, req, [k \in Keys |-> 0]) \/ HandleLogRange(r, req, [k \in Keys |-> Boundary(k)])
    BY <2>1 DEF RangeRequested
  <2>4. \E to \in [Keys -> Depths] : HandleLogRange(r, req, to)
    BY <2>2, <2>3, Zenon
  <2>5. RequestStep
    BY <2>4, Zenon DEF RequestStep
  <2>6. QED
    BY <2>5 DEF Next
<1>2. CASE \E k \in Polled, r \in Ranges : ContainerPolled(k, r)
  <2>1. PICK k \in Keys, r \in Ranges : EnsureContainerHistory(k, r)
    BY <1>2, PolledAssumption DEF ContainerPolled
  <2>2. RequestStep
    BY <2>1, Zenon DEF RequestStep
  <2>3. QED
    BY <2>2 DEF Next
<1>3. CASE \E k \in Streamed : StreamStarted(k)
  <2>1. PICK k \in Keys : StartContainerStream(k)
    BY <1>3, PolledAssumption DEF StreamStarted
  <2>2. RequestStep
    BY <2>1, Zenon DEF RequestStep
  <2>3. QED
    BY <2>2 DEF Next
<1>4. QED
  BY <1>1, <1>2, <1>3

\* Loading the data takes no step that the control does not allow
\* (launchHistoryFetchWindow, fetchDozzleHistoryWithCachePolicy, handleLogRange).
LEMMA StepImplements ==
  ASSUME CachesTyped, [WindowNext]_allVars
  PROVE  [Next]_vars
<1>1. CASE \E n \in Nodes : \/ NodeAdded(n) \/ HostLearnt(n) \/ NodeUpdated(n) \/ NodeUnbound(n)
                            \/ ContainersCommitted(n)
                            \/ \E listed \in Reports : ContainersPurged(n, listed)
  BY <1>1, NodeStepImplements
<1>2. CASE \/ \E r \in Ranges, req \in Requests : RangeRequested(r, req)
           \/ \E k \in Polled, r \in Ranges : ContainerPolled(k, r)
           \/ \E k \in Streamed : StreamStarted(k)
  BY <1>2, RequestStepImplements
<1>3. CASE LogCacheCleared
  BY <1>3 DEF LogCacheCleared
<1>4. CASE \E l \in launches : LaunchRefused(l) \/ \E w \in Workers : LoadStarted(l, w)
  <2>1. \E l \in launches : RefuseLaunch(l) \/ \E w \in Workers : StartLoad(l, w)
    BY <1>4 DEF LaunchRefused, LoadStarted
  <2>2. QED
    BY <2>1, Zenon DEF Next, LoadStep
<1>5. CASE \E w \in Workers : LoadProgress(w)
  <2>1. PICK w \in Workers : LoadProgress(w)
    BY <1>5
  <2>2. UNCHANGED vars \/ FinishFetch(w) \/ ReleaseLoad(w) \/ CompleteHistoryFetch(w)
    BY <2>1, LoadProgressImplements
  <2>3. QED
    BY <2>2, Zenon DEF Next, LoadStep
<1>6. CASE UNCHANGED allVars
  BY <1>6 DEF allVars
<1>7. QED
  BY <1>1, <1>2, <1>3, <1>4, <1>5, <1>6, Zenon DEF WindowNext, LoadProgress
-----------------------------------------------------------------------------
(***************************************************************************)
(* What a step does to the caches.                                         *)
(***************************************************************************)
Stays == UNCHANGED <<cacheVars, purged>> /\ bound \subseteq bound'
DropsNode(n) ==
  /\ Forget(KeysOf(n)) /\ shared' = WithoutNode(shared, n)
  /\ purged' = purged /\ bound \ {n} \subseteq bound'
Purges(gone) ==
  Forget(gone) /\ shared' = shared /\ purged' = purged \cup gone /\ bound' = bound
Empties == EmptyCaches /\ purged' = purged /\ bound' = bound
Marks(w) ==
  /\ worker[w].pc = "fetch" /\ MarkedBy(w)
  /\ coverage' = [coverage EXCEPT ![worker[w].key] = Largest({coverage[worker[w].key], fetch[w].from})]
  /\ UNCHANGED <<shared, cached, purged, bound>>
Appends(w) ==
  /\ At(w, "ingest") /\ fetch[w].page # {} /\ ~ CutOff(w)
  /\ AppendRecord(worker[w].key, Largest(fetch[w].page))
  /\ UNCHANGED <<purged, bound>>

CacheEffect ==
  \/ Stays
  \/ \E n \in Nodes : DropsNode(n)
  \/ \E gone \in SUBSET Keys : Purges(gone)
  \/ Empties
  \/ \E w \in Workers : Marks(w)
  \/ \E w \in Workers : Appends(w)

\* A load that ends has marked its window or left the caches alone.
LEMMA CompletedMarks ==
  ASSUME NEW w \in Workers, Completed(w)
  PROVE  Marks(w) \/ Stays
<1>1. CASE MarkedBy(w)
  BY <1>1 DEF Completed, Marks, FinishFetch, nodeVars, ghostVars
<1>2. CASE ~ MarkedBy(w)
  BY <1>2 DEF Completed, Stays, cacheVars, FinishFetch, nodeVars, ghostVars
<1>3. QED
  BY <1>1, <1>2

\* Every step of a load leaves the caches alone, marks its window or appends one
\* record.
LEMMA LoadEffect ==
  ASSUME NEW w \in Workers, LoadProgress(w)
  PROVE  Stays \/ Marks(w) \/ Appends(w)
<1>1. CASE CheckRoom(w)
  <2>1. Completed(w) \/ (GivenUp(w) \/ (\E p : Advance(w, p) /\ UNCHANGED cacheVars))
    BY <1>1 DEF CheckRoom
  <2>2. ASSUME GivenUp(w) PROVE Stays
    BY <2>2 DEF GivenUp, FinishFetch, Stays, nodeVars, ghostVars
  <2>3. ASSUME NEW p, Advance(w, p), UNCHANGED cacheVars PROVE Stays
    BY <2>3 DEF Advance, Stays, vars, nodeVars, ghostVars
  <2>4. QED
    BY <2>1, <2>2, <2>3, CompletedMarks
<1>2. CASE RequestPage(w)
  <2>1. Completed(w) \/ (\E p : Advance(w, p) /\ UNCHANGED cacheVars)
    BY <1>2 DEF RequestPage
  <2>2. ASSUME NEW p, Advance(w, p), UNCHANGED cacheVars PROVE Stays
    BY <2>2 DEF Advance, Stays, vars, nodeVars, ghostVars
  <2>3. QED
    BY <2>1, <2>2, CompletedMarks
<1>3. CASE RequestFails(w)
  BY <1>3 DEF RequestFails, FinishFetch, Stays, nodeVars
<1>4. CASE IngestRecord(w)
  <2>1. CASE CutOff(w)
    BY <1>4, <2>1 DEF IngestRecord, GivenUp, FinishFetch, Stays, nodeVars, ghostVars
  <2>2. CASE ~ CutOff(w)
    BY <1>4, <2>2 DEF IngestRecord, Appends, Advance, vars, nodeVars, ghostVars
  <2>3. QED
    BY <2>1, <2>2
<1>5. CASE FinishPage(w)
  <2>1. Completed(w) \/ (\E p : Advance(w, p) /\ UNCHANGED cacheVars)
    BY <1>5 DEF FinishPage
  <2>2. ASSUME NEW p, Advance(w, p), UNCHANGED cacheVars PROVE Stays
    BY <2>2 DEF Advance, Stays, vars, nodeVars, ghostVars
  <2>3. QED
    BY <2>1, <2>2, CompletedMarks
<1>6. CASE ContainerReleased(w) \/ LoadCounted(w)
  BY <1>6 DEF ContainerReleased, LoadCounted, ReleaseLoad, CompleteHistoryFetch, Stays, windowVars,
    ghostVars, nodeVars
<1>7. QED
  BY <1>1, <1>2, <1>3, <1>4, <1>5, <1>6 DEF LoadProgress

\* What a step may do to the caches, whoever takes it.
LEMMA StepEffect ==
  ASSUME [WindowNext]_allVars
  PROVE  CacheEffect
<1>1. ASSUME NEW n \in Nodes, NodeAdded(n) \/ HostLearnt(n) \/ ContainersCommitted(n) PROVE Stays
  BY <1>1 DEF NodeAdded, HostLearnt, ContainersCommitted, AddNode, SetNodeHost, CommitContainers, Stays,
    windowVars, ghostVars
<1>2. ASSUME NEW n \in Nodes, NodeUpdated(n) \/ NodeUnbound(n) PROVE DropsNode(n)
  BY <1>2 DEF NodeUpdated, NodeUnbound, DropNode, UpdateNode, UnbindNode, DropsNode
<1>3. ASSUME NEW n \in Nodes, NEW listed \in Reports, ContainersPurged(n, listed)
      PROVE  Stays \/ \E gone \in SUBSET Keys : Purges(gone)
  <2> DEFINE gone == {k \in KeysOf(n) : k[2] \notin listed}
  <2>1. gone \in SUBSET Keys
    BY DEF KeysOf, Keys
  <2>2. CASE ListChanged(n, listed)
    <3>1. Forget(gone) /\ purged' = purged \cup gone /\ shared' = shared /\ bound' = bound
      BY <1>3, <2>2 DEF ContainersPurged, PurgeNodeHistory
    <3>2. Purges(gone)
      BY <3>1 DEF Purges
    <3>3. QED
      BY <2>1, <3>2
  <2>3. CASE ~ ListChanged(n, listed)
    BY <1>3, <2>3 DEF ContainersPurged, PurgeNodeHistory, Stays, cacheVars, ghostVars
  <2>4. QED
    BY <2>2, <2>3
<1>4. ASSUME NEW r \in Ranges, NEW req \in Requests, RangeRequested(r, req) PROVE Stays \/ Empties
  <2>1. CASE StrictReload(r)
    BY <1>4, <2>1 DEF RangeRequested, HandleLogRange, Empties, ghostVars, nodeVars
  <2>2. CASE ~ StrictReload(r)
    BY <1>4, <2>2 DEF RangeRequested, HandleLogRange, Stays, ghostVars, nodeVars
  <2>3. QED
    BY <2>1, <2>2
<1>5. ASSUME NEW k, NEW r, ContainerPolled(k, r) PROVE Stays
  BY <1>5 DEF ContainerPolled, EnsureContainerHistory, Stays, windowVars, ghostVars, nodeVars
<1>6. ASSUME NEW k, StreamStarted(k) PROVE Stays
  BY <1>6 DEF StreamStarted, StartContainerStream, Stays, ghostVars, nodeVars
<1>7. ASSUME LogCacheCleared PROVE Empties
  BY <1>7 DEF LogCacheCleared, Empties, vars, nodeVars
<1>8. ASSUME NEW l, LaunchRefused(l) PROVE Stays
  BY <1>8 DEF LaunchRefused, RefuseLaunch, Stays, windowVars, ghostVars, nodeVars
<1>9. ASSUME NEW l, NEW w, LoadStarted(l, w) PROVE Stays
  BY <1>9 DEF LoadStarted, StartLoad, Stays, ghostVars, nodeVars
<1>10. ASSUME NEW w \in Workers, LoadProgress(w) PROVE CacheEffect
  BY <1>10, LoadEffect DEF CacheEffect
<1>11. ASSUME UNCHANGED allVars PROVE Stays
  BY <1>11 DEF allVars, vars, nodeVars, windowVars, ghostVars, Stays
<1>12. CASE \E n \in Nodes : \/ NodeAdded(n) \/ HostLearnt(n) \/ NodeUpdated(n) \/ NodeUnbound(n)
                             \/ ContainersCommitted(n)
                             \/ \E listed \in Reports : ContainersPurged(n, listed)
  BY <1>1, <1>2, <1>3, <1>12, Zenon DEF CacheEffect
<1>13. CASE \/ \E r \in Ranges, req \in Requests : RangeRequested(r, req)
            \/ \E k \in Polled, r \in Ranges : ContainerPolled(k, r)
            \/ \E k \in Streamed : StreamStarted(k)
            \/ LogCacheCleared
            \/ \E l \in launches : LaunchRefused(l) \/ \E w \in Workers : LoadStarted(l, w)
  BY <1>4, <1>5, <1>6, <1>7, <1>8, <1>9, <1>13, Zenon DEF CacheEffect
<1>14. CASE \E w \in Workers : LoadProgress(w)
  BY <1>10, <1>14
<1>15. CASE UNCHANGED allVars
  BY <1>11, <1>15 DEF CacheEffect
<1>16. QED
  BY <1>12, <1>13, <1>14, <1>15, Zenon DEF WindowNext, LoadProgress
-----------------------------------------------------------------------------
(***************************************************************************)
(* Types.                                                                  *)
(***************************************************************************)
ConnectionsTyped ==
  /\ stale \subseteq Nodes /\ changed \subseteq Nodes /\ cancelled \subseteq Nodes
  /\ streams \subseteq Keys
  /\ purged \subseteq Keys
  /\ mishaps \in 0..MaxMishaps

Progress == {p \in Fetch : IsFiniteSet(p.page)}
FetchTyped == fetch \in [Workers -> Progress]

\* A goroutine starts its load with nothing read.
LEMMA NoFetchType ==
  /\ NoFetch \in Progress
  /\ \A l \in Launch : [NoFetch EXCEPT !.from = l.from, !.to = l.to, !.pageTo = l.to,
                                       !.always = l.always] \in Progress
<1>1. NoFetch \in Fetch /\ IsFiniteSet(NoFetch.page)
  BY RangesAssumption, DepthsAssumption, FS_EmptySet DEF NoFetch, Fetch
<1>2. ASSUME NEW l \in Launch
      PROVE  [NoFetch EXCEPT !.from = l.from, !.to = l.to, !.pageTo = l.to, !.always = l.always] \in Progress
  <2>1. l.from \in Ranges /\ l.to \in Depths /\ l.always \in BOOLEAN
    BY DEF Launch
  <2> DEFINE p == [NoFetch EXCEPT !.from = l.from, !.to = l.to, !.pageTo = l.to, !.always = l.always]
  <2>2. p \in Fetch /\ p.page = NoFetch.page
    BY <1>1, <2>1 DEF Fetch
  <2> HIDE DEF p
  <2>3. p \in Progress
    BY <1>1, <2>2 DEF Progress
  <2>4. QED
    BY <2>3 DEF p
<1>3. QED
  BY <1>1, <1>2 DEF Progress

\* Dropping what is cached only notes that it was dropped.
LEMMA EmptiedType ==
  ASSUME FetchTyped, NEW gone, fetch' = FetchWithout(gone)
  PROVE  FetchTyped'
<1>1. ASSUME NEW p \in Progress PROVE [p EXCEPT !.emptied = TRUE] \in Progress
  <2>1. p \in Fetch /\ IsFiniteSet(p.page)
    BY DEF Progress
  <2>2. [p EXCEPT !.emptied = TRUE] \in Fetch /\ [p EXCEPT !.emptied = TRUE].page = p.page
    BY <2>1 DEF Fetch
  <2>3. QED
    BY <2>1, <2>2 DEF Progress
<1>2. \A w \in Workers : fetch[w] \in Progress
  BY DEF FetchTyped
<1>3. QED
  BY <1>1, <1>2 DEF FetchWithout, FetchTyped

Asked(w) == {a \in Remote[worker[w].key] : fetch[w].pageTo < a /\ a <= fetch[w].from}

\* What a load asks Dozzle for is finite, however long the history is.
LEMMA AskedType ==
  ASSUME TypeOK, FetchTyped, NEW w \in Workers, worker[w].pc = "fetch"
  PROVE  /\ worker[w].key \in Keys
         /\ Asked(w) \subseteq Ages /\ Asked(w) \subseteq Nat /\ IsFiniteSet(Asked(w))
<1>1. worker[w].key \in Keys
  BY DEF TypeOK, Worker, Idle
<1>2. Remote[worker[w].key] \subseteq Ages
  BY <1>1, RemoteAssumption
<1>3. Ages \subseteq Nat
  BY DepthsAssumption DEF Ages
<1>4. fetch[w].from \in Nat
  BY RangesAssumption DEF FetchTyped, Progress, Fetch
<1>5. Asked(w) \subseteq Ages /\ Asked(w) \subseteq Nat /\ \A a \in Asked(w) : a <= fetch[w].from
  BY <1>2, <1>3 DEF Asked
<1>6. IsFiniteSet(Asked(w))
  BY <1>4, <1>5, FS_BoundedSetOfNaturals
<1>7. QED
  BY <1>1, <1>5, <1>6

\* The steps of a load keep the type of its progress.
LEMMA ProgressType ==
  ASSUME TypeOK, FetchTyped, NEW w \in Workers, LoadProgress(w)
  PROVE  FetchTyped'
<1> DEFINE f == fetch[w]
<1>1. f \in Fetch /\ IsFiniteSet(f.page)
  BY DEF FetchTyped, Progress
<1> HIDE DEF f
<1>2. ASSUME NEW p \in Progress, fetch' = [fetch EXCEPT ![w] = p] PROVE FetchTyped'
  BY <1>2 DEF FetchTyped
<1>3. ASSUME fetch' = [fetch EXCEPT ![w] = NoFetch] PROVE FetchTyped'
  BY <1>2, <1>3, NoFetchType
<1>4. CASE CheckRoom(w)
  <2>1. [f EXCEPT !.step = "request"] \in Progress
    <3>1. [f EXCEPT !.step = "request"] \in Fetch /\ [f EXCEPT !.step = "request"].page = f.page
      BY <1>1 DEF Fetch
    <3>2. QED
      BY <1>1, <3>1 DEF Progress
  <2>2. fetch' = [fetch EXCEPT ![w] = NoFetch] \/ fetch' = [fetch EXCEPT ![w] = [f EXCEPT !.step = "request"]]
    BY <1>4 DEF CheckRoom, Completed, GivenUp, Advance, f
  <2>3. QED
    BY <1>2, <1>3, <2>1, <2>2
<1>5. CASE RequestPage(w)
  <2> DEFINE page == Newest(Asked(w), PageSize)
             g == [f EXCEPT !.step = "ingest", !.page = page, !.oldest = Largest(page),
                            !.full = (Cardinality(page) = PageSize)]
  <2>1. fetch' = [fetch EXCEPT ![w] = NoFetch] \/ fetch' = [fetch EXCEPT ![w] = g]
    BY <1>5 DEF RequestPage, Completed, Advance, Asked, f
  <2>2. worker[w].pc = "fetch"
    BY <1>5 DEF RequestPage, At
  <2>3. page \subseteq Asked(w) /\ IsFiniteSet(page)
    BY <2>2, AskedType, PageIsNewest, SizesAssumption
  <2>4. page \subseteq Ages /\ page \subseteq Nat
    BY <2>2, <2>3, AskedType
  <2> HIDE DEF page
  <2>5. Largest(page) \in Depths
    <3>1. Largest(page) \in page \cup {0}
      BY <2>3, <2>4, LargestIsGreatest
    <3>2. QED
      BY <2>4, <3>1, DepthsAssumption DEF Ages
  <2>6. g \in Fetch /\ g.page = page
    <3>1. (Cardinality(page) = PageSize) \in BOOLEAN
      OBVIOUS
    <3>2. QED
      BY <1>1, <2>4, <2>5, <3>1 DEF Fetch
  <2>7. g \in Progress
    BY <2>3, <2>6 DEF Progress
  <2> HIDE DEF g
  <2>8. QED
    BY <1>2, <1>3, <2>1, <2>7
<1>6. CASE RequestFails(w)
  BY <1>3, <1>6 DEF RequestFails
<1>7. CASE IngestRecord(w)
  <2> DEFINE g == [f EXCEPT !.page = f.page \ {Largest(f.page)}]
  <2>1. fetch' = [fetch EXCEPT ![w] = NoFetch] \/ fetch' = [fetch EXCEPT ![w] = g]
    BY <1>7 DEF IngestRecord, GivenUp, Advance, f
  <2>2. g \in Fetch /\ g.page = f.page \ {Largest(f.page)}
    BY <1>1 DEF Fetch
  <2>3. g \in Progress
    BY <1>1, <2>2, FS_RemoveElement DEF Progress
  <2> HIDE DEF g
  <2>4. QED
    BY <1>2, <1>3, <2>1, <2>3
<1>8. CASE FinishPage(w)
  <2> DEFINE g == [f EXCEPT !.step = "check", !.pageTo = f.oldest, !.full = FALSE, !.oldest = 0]
  <2>1. fetch' = [fetch EXCEPT ![w] = NoFetch] \/ fetch' = [fetch EXCEPT ![w] = g]
    BY <1>8 DEF FinishPage, Completed, Advance, NextTo, f
  <2>2. g \in Fetch /\ g.page = f.page
    BY <1>1, DepthsAssumption DEF Fetch
  <2>3. g \in Progress
    BY <1>1, <2>2 DEF Progress
  <2> HIDE DEF g
  <2>4. QED
    BY <1>2, <1>3, <2>1, <2>3
<1>9. CASE ContainerReleased(w) \/ LoadCounted(w)
  BY <1>9 DEF ContainerReleased, LoadCounted, windowVars, FetchTyped
<1>10. QED
  BY <1>4, <1>5, <1>6, <1>7, <1>8, <1>9 DEF LoadProgress

\* Every step keeps the types of the connections and of the loads' progress.
LEMMA TypesStep ==
  ASSUME TypeOK, FetchTyped, ConnectionsTyped, [WindowNext]_allVars
  PROVE  FetchTyped' /\ ConnectionsTyped'
<1>1. ASSUME NEW n \in Nodes, NodeAdded(n) \/ HostLearnt(n) PROVE FetchTyped' /\ ConnectionsTyped'
  BY <1>1 DEF NodeAdded, HostLearnt, windowVars, connectionVars, ghostVars, FetchTyped, ConnectionsTyped
<1>2. ASSUME NEW n \in Nodes, NodeUpdated(n) \/ NodeUnbound(n) PROVE FetchTyped' /\ ConnectionsTyped'
  <2>1. DropNode(n)
    BY <1>2 DEF NodeUpdated, NodeUnbound
  <2>2. QED
    BY <2>1, MaxMishapsAssumption DEF DropNode, FetchTyped, ConnectionsTyped
<1>3. ASSUME NEW n \in Nodes, ContainersCommitted(n) PROVE FetchTyped' /\ ConnectionsTyped'
  BY <1>3 DEF ContainersCommitted, ghostVars, FetchTyped, ConnectionsTyped
<1>4. ASSUME NEW n \in Nodes, NEW listed \in Reports, ContainersPurged(n, listed)
      PROVE  FetchTyped' /\ ConnectionsTyped'
  <2> DEFINE gone == {k \in KeysOf(n) : k[2] \notin listed}
  <2>1. gone \subseteq Keys
    BY DEF KeysOf, Keys
  <2>2. CASE ListChanged(n, listed)
    <3>1. /\ fetch' = FetchWithout(gone) /\ purged' = purged \cup gone /\ stale' = stale \cup {n}
          /\ changed' = changed \cup {n} /\ mishaps < MaxMishaps /\ mishaps' = mishaps + 1
          /\ cancelled' = cancelled /\ streams' = streams
      BY <1>4, <2>2 DEF ContainersPurged
    <3> HIDE DEF gone
    <3>2. FetchTyped'
      BY <3>1, EmptiedType
    <3>3. ConnectionsTyped'
      BY <2>1, <3>1, MaxMishapsAssumption DEF ConnectionsTyped
    <3>4. QED
      BY <3>2, <3>3
  <2>3. CASE ~ ListChanged(n, listed)
    BY <1>4, <2>3 DEF ContainersPurged, ghostVars, FetchTyped, ConnectionsTyped
  <2>4. QED
    BY <2>2, <2>3
<1>5. ASSUME NEW r, NEW req, RangeRequested(r, req) PROVE FetchTyped' /\ ConnectionsTyped'
  BY <1>5 DEF RangeRequested, connectionVars, ghostVars, FetchTyped, ConnectionsTyped
<1>6. ASSUME NEW k, NEW r, ContainerPolled(k, r) PROVE FetchTyped' /\ ConnectionsTyped'
  BY <1>6 DEF ContainerPolled, windowVars, connectionVars, ghostVars, FetchTyped, ConnectionsTyped
<1>7. ASSUME NEW k \in Streamed, StreamStarted(k) PROVE FetchTyped' /\ ConnectionsTyped'
  BY <1>7, PolledAssumption DEF StreamStarted, ghostVars, FetchTyped, ConnectionsTyped
<1>8. ASSUME LogCacheCleared PROVE FetchTyped' /\ ConnectionsTyped'
  <2>1. /\ fetch' = FetchWithout(Keys) /\ mishaps < MaxMishaps /\ mishaps' = mishaps + 1
        /\ UNCHANGED <<stale, changed, cancelled, streams, purged>>
    BY <1>8 DEF LogCacheCleared, connectionVars
  <2>2. FetchTyped'
    BY <2>1, EmptiedType
  <2>3. ConnectionsTyped'
    BY <2>1, MaxMishapsAssumption DEF ConnectionsTyped
  <2>4. QED
    BY <2>2, <2>3
<1>9. ASSUME NEW l, LaunchRefused(l) PROVE FetchTyped' /\ ConnectionsTyped'
  BY <1>9 DEF LaunchRefused, windowVars, connectionVars, ghostVars, FetchTyped, ConnectionsTyped
<1>10. ASSUME NEW l \in launches, NEW w \in Workers, LoadStarted(l, w) PROVE FetchTyped' /\ ConnectionsTyped'
  <2> DEFINE g == [NoFetch EXCEPT !.from = l.from, !.to = l.to, !.pageTo = l.to, !.always = l.always]
  <2>1. l \in Launch
    BY DEF TypeOK
  <2>2. g \in Progress
    BY <2>1, NoFetchType
  <2>3. fetch' = [fetch EXCEPT ![w] = g] /\ UNCHANGED <<stale, changed, cancelled, streams, purged, mishaps>>
    BY <1>10 DEF LoadStarted, connectionVars, ghostVars
  <2> HIDE DEF g
  <2>4. QED
    BY <2>2, <2>3 DEF FetchTyped, ConnectionsTyped
<1>11. ASSUME NEW w \in Workers, LoadProgress(w) PROVE FetchTyped' /\ ConnectionsTyped'
  <2>1. /\ UNCHANGED <<stale, changed, cancelled, streams, purged>>
        /\ mishaps' = mishaps \/ (mishaps < MaxMishaps /\ mishaps' = mishaps + 1)
    BY <1>11 DEF LoadProgress, CheckRoom, RequestPage, RequestFails, IngestRecord, FinishPage,
      ContainerReleased, LoadCounted, Completed, GivenUp, Advance, connectionVars, ghostVars, windowVars
  <2>2. ConnectionsTyped'
    BY <2>1, MaxMishapsAssumption DEF ConnectionsTyped
  <2>3. QED
    BY <1>11, <2>2, ProgressType
<1>12. ASSUME UNCHANGED allVars PROVE FetchTyped' /\ ConnectionsTyped'
  BY <1>12 DEF allVars, windowVars, connectionVars, ghostVars, FetchTyped, ConnectionsTyped
<1>13. QED
  BY <1>1, <1>2, <1>3, <1>4, <1>5, <1>6, <1>7, <1>8, <1>9, <1>10, <1>11, <1>12, Zenon
     DEF WindowNext, LoadProgress

-----------------------------------------------------------------------------
(***************************************************************************)
(* Nothing is cached of a node that is not there.  A load of the current   *)
(* generation is of a node that is bound: unbindNode begins a new one.     *)
(***************************************************************************)
CurrentLoadsOfBoundNodes ==
  /\ \A l \in launches : l.gen <= generation /\ (l.gen = generation => l.key[1] \in bound)
  /\ \A w \in Workers : worker[w].pc # "idle" /\ worker[w].gen = generation => worker[w].key[1] \in bound

\* A range request asks for containers of bound nodes, as its own generation.
LEMMA RangeLaunchesOfBoundNodes ==
  ASSUME NEW r, NEW req, NEW to, NEW l \in RangeLaunches(r, req, to)
  PROVE  l.gen = generation + 1 /\ l.key[1] \in bound
<1>1. PICK k \in Targets(req) : l.key = k /\ l.gen = generation + 1
  BY DEF RangeLaunches
<1>2. k[1] \in bound
  <2>1. PICK n \in bound : k \in TargetsOf(req, n)
    BY <1>1 DEF Targets, ScopedNodes
  <2>2. k[1] = n
    BY <2>1 DEF TargetsOf, Listed, KeysOf
  <2>3. QED
    BY <2>1, <2>2
<1>3. QED
  BY <1>1, <1>2

\* Whatever a step does, the loads of the current generation are of bound nodes.
LEMMA CurrentLoadsStep ==
  ASSUME TypeOK, NoneAhead, CurrentLoadsOfBoundNodes, [Next]_vars
  PROVE  CurrentLoadsOfBoundNodes'
<1>1. /\ generation \in Nat
      /\ \A l \in launches : l.gen \in Nat
      /\ \A w \in Workers : worker[w].gen \in Nat /\ worker[w].gen <= generation
  <2>1. generation \in Nat /\ \A l \in launches : l.gen \in Nat
    BY BoundsAssumption DEF TypeOK, Launch
  <2>2. \A w \in Workers : worker[w].gen \in Nat
    BY BoundsAssumption DEF TypeOK, Worker, Idle
  <2>3. QED
    BY <2>1, <2>2 DEF NoneAhead
<1>2. ASSUME UNCHANGED <<generation, launches, worker>>, bound \subseteq bound'
      PROVE  CurrentLoadsOfBoundNodes'
  BY <1>2 DEF CurrentLoadsOfBoundNodes
<1>3. ASSUME generation' = generation + 1, worker' = worker,
             NEW new, launches' = launches \cup new,
             \A l \in new : l.gen = generation + 1 /\ l.key[1] \in bound'
      PROVE  CurrentLoadsOfBoundNodes'
  <2>1. \A l \in launches' : l.gen <= generation' /\ (l.gen = generation' => l.key[1] \in bound')
    <3>1. \A l \in launches : l.gen <= generation
      BY DEF CurrentLoadsOfBoundNodes
    <3>2. QED
      BY <1>1, <1>3, <3>1
  <2>2. \A w \in Workers : worker[w].gen # generation'
    BY <1>1, <1>3
  <2>3. QED
    BY <1>3, <2>1, <2>2 DEF CurrentLoadsOfBoundNodes
<1>4. ASSUME NEW n \in Nodes, AddNode(n) \/ SetNodeHost(n) \/ CommitContainers(n)
      PROVE  CurrentLoadsOfBoundNodes'
  BY <1>2, <1>4 DEF AddNode, SetNodeHost, CommitContainers, loadVars
<1>5. ASSUME NEW n \in Nodes, NEW listed, PurgeNodeHistory(n, listed)
      PROVE  CurrentLoadsOfBoundNodes'
  BY <1>2, <1>5 DEF PurgeNodeHistory, loadVars
<1>6. ASSUME \/ \E n \in Nodes : UpdateNode(n) \/ UnbindNode(n)
             \/ \E stored \in SUBSET Nodes : ReloadNodesFromStore(stored)
      PROVE  CurrentLoadsOfBoundNodes'
  <2>1. generation' = generation + 1 /\ worker' = worker /\ launches' = launches
    BY <1>6 DEF UpdateNode, UnbindNode, ReloadNodesFromStore, NextGeneration
  <2>2. PICK none : none = {}
    OBVIOUS
  <2>3. launches' = launches \cup none /\ \A l \in none : l.gen = generation + 1 /\ l.key[1] \in bound'
    BY <2>1, <2>2
  <2>4. QED
    BY <1>3, <2>1, <2>3
<1>7. ASSUME NEW r, NEW req, NEW to, HandleLogRange(r, req, to) PROVE CurrentLoadsOfBoundNodes'
  <2>1. generation' = generation + 1 /\ worker' = worker /\ bound' = bound
    BY <1>7 DEF HandleLogRange, NextGeneration, nodeVars
  <2>2. PICK new : /\ launches' = launches \cup new
                   /\ new = {} \/ new = RangeLaunches(r, req, to)
    BY <1>7 DEF HandleLogRange, Decide
  <2>3. \A l \in new : l.gen = generation + 1 /\ l.key[1] \in bound'
    BY <2>1, <2>2, RangeLaunchesOfBoundNodes
  <2>4. QED
    BY <1>3, <2>1, <2>2, <2>3
<1>8. ASSUME NEW k \in Keys, (\E r \in Ranges : EnsureContainerHistory(k, r)) \/ StartContainerStream(k)
      PROVE  CurrentLoadsOfBoundNodes'
  <2>1. \E l : launches' = launches \cup {l} /\ l.gen = generation /\ l.key = k
    <3>1. CASE StartContainerStream(k)
      <4>1. PICK l : l = [key |-> k, gen |-> generation, from |-> range, to |-> 0,
                          by |-> "stream", always |-> FALSE]
        OBVIOUS
      <4>2. launches' = launches \cup {l}
        BY <3>1, <4>1 DEF StartContainerStream, Decide
      <4>3. l.gen = generation /\ l.key = k
        BY <4>1
      <4>4. QED
        BY <4>2, <4>3, Zenon
    <3>2. CASE \E r \in Ranges : EnsureContainerHistory(k, r)
      <4>1. PICK r \in Ranges : EnsureContainerHistory(k, r)
        BY <3>2
      <4>2. PICK l : l = [key |-> k, gen |-> generation, from |-> r, to |-> 0,
                          by |-> "container", always |-> TRUE]
        OBVIOUS
      <4>3. launches' = launches \cup {l}
        BY <4>1, <4>2 DEF EnsureContainerHistory, Decide
      <4>4. l.gen = generation /\ l.key = k
        BY <4>2
      <4>5. QED
        BY <4>3, <4>4, Zenon
    <3>3. QED
      BY <1>8, <3>1, <3>2
  <2>2. k[1] \in bound /\ UNCHANGED <<bound, generation, worker>>
    BY <1>8 DEF EnsureContainerHistory, StartContainerStream, nodeVars, loadVars
  <2>3. QED
    BY <1>1, <2>1, <2>2 DEF CurrentLoadsOfBoundNodes
<1>9. ASSUME NEW n \in Nodes, NEW r \in Ranges, ReloadNodeHistory(n, r) PROVE CurrentLoadsOfBoundNodes'
  <2> DEFINE new == {[key |-> k, gen |-> generation + 1, from |-> r, to |-> 0,
                      by |-> "reload", always |-> FALSE] : k \in {n} \X names[n]}
  <2>1. /\ launches' = launches \cup new /\ generation' = generation + 1
        /\ worker' = worker /\ bound' = bound /\ n \in bound
    BY <1>9 DEF ReloadNodeHistory, Decide, NextGeneration, nodeVars
  <2>2. \A l \in new : l.gen = generation + 1 /\ l.key[1] \in bound'
    BY <2>1
  <2> HIDE DEF new
  <2>3. QED
    BY <1>3, <2>1, <2>2
<1>10. ASSUME NEW s \in saved, RestoreScope(s) PROVE CurrentLoadsOfBoundNodes'
  BY <1>2, <1>10 DEF RestoreScope, loadVars, nodeVars
<1>11. ASSUME NEW l \in launches, RefuseLaunch(l) PROVE CurrentLoadsOfBoundNodes'
  BY <1>11 DEF RefuseLaunch, loadVars, nodeVars, CurrentLoadsOfBoundNodes
<1>12. ASSUME NEW l \in launches, NEW w \in Workers, StartLoad(l, w) PROVE CurrentLoadsOfBoundNodes'
  <2>1. /\ launches' = launches \ {l} /\ UNCHANGED <<generation, bound>>
        /\ worker' = [worker EXCEPT ![w] = [pc |-> "fetch", key |-> l.key, gen |-> l.gen]]
        /\ l.gen = generation
    BY <1>12 DEF StartLoad, Refused, nodeVars
  <2>2. l.key[1] \in bound
    BY <2>1 DEF CurrentLoadsOfBoundNodes
  <2>3. \A v \in Workers : worker'[v] = IF v = w THEN [pc |-> "fetch", key |-> l.key, gen |-> l.gen] ELSE worker[v]
    BY <2>1 DEF TypeOK
  <2>4. QED
    BY <2>1, <2>2, <2>3 DEF CurrentLoadsOfBoundNodes
<1>13. ASSUME NEW w \in Workers, FinishFetch(w) \/ ReleaseLoad(w) \/ CompleteHistoryFetch(w)
       PROVE  CurrentLoadsOfBoundNodes'
  <2>1. UNCHANGED <<generation, bound, launches>>
    BY <1>13 DEF FinishFetch, ReleaseLoad, CompleteHistoryFetch, nodeVars, loadVars
  <2>2. worker[w].pc # "idle"
    BY <1>13 DEF FinishFetch, ReleaseLoad, CompleteHistoryFetch
  <2>3. \A v \in Workers : worker'[v] = worker[v] \/ worker'[v] = Idle
                           \/ (v = w /\ worker'[v].key = worker[v].key /\ worker'[v].gen = worker[v].gen)
    <3>1. worker[w] \in Worker /\ worker \in [Workers -> Worker]
      BY DEF TypeOK
    <3>2. worker[w] \in [pc : Busy, key : Keys, gen : 0..MaxGeneration]
      BY <2>2, <3>1 DEF Worker, Idle
    <3>3. ASSUME NEW p, worker' = [worker EXCEPT ![w] = [worker[w] EXCEPT !.pc = p]]
          PROVE  /\ \A v \in Workers \ {w} : worker'[v] = worker[v]
                 /\ worker'[w].key = worker[w].key /\ worker'[w].gen = worker[w].gen
      BY <3>1, <3>2, <3>3
    <3>4. \/ worker' = [worker EXCEPT ![w] = [worker[w] EXCEPT !.pc = "release"]]
          \/ worker' = [worker EXCEPT ![w] = [worker[w] EXCEPT !.pc = "complete"]]
          \/ worker' = [worker EXCEPT ![w] = Idle]
      BY <1>13, <3>1 DEF FinishFetch, ReleaseLoad, CompleteHistoryFetch
    <3>5. CASE worker' = [worker EXCEPT ![w] = Idle]
      BY <3>1, <3>5
    <3>6. CASE ~ (worker' = [worker EXCEPT ![w] = Idle])
      BY <3>3, <3>4, <3>6
    <3>7. QED
      BY <3>5, <3>6
  <2>4. QED
    BY <2>1, <2>2, <2>3 DEF CurrentLoadsOfBoundNodes, Idle
<1>14. CASE LoadStep
  BY <1>11, <1>12, <1>13, <1>14, Zenon DEF LoadStep
<1>15. CASE NodeStep
  BY <1>4, <1>5, <1>6, <1>15, Zenon DEF NodeStep
<1>16. CASE RequestStep
  BY <1>7, <1>8, <1>9, <1>10, <1>16, Zenon DEF RequestStep
<1>17. CASE UNCHANGED vars
  BY <1>2, <1>17 DEF vars, nodeVars, loadVars
<1>18. QED
  BY <1>14, <1>15, <1>16, <1>17 DEF Next

\* Nothing is cached of, or marked for, a node that is not there: unbindNode and
\* updateNode drop it, and what is loaded afterwards is of a bound node.
LEMMA UnboundStep ==
  ASSUME TypeOK, CachesTyped, CurrentLoadsOfBoundNodes, NothingOfUnboundNodes, CacheEffect
  PROVE  NothingOfUnboundNodes'
<1>1. \A k \in Keys : k[1] \notin bound => cached[k] = {} /\ coverage[k] = 0
  BY DEF NothingOfUnboundNodes
<1>2. CASE Stays
  BY <1>1, <1>2 DEF Stays, cacheVars, NothingOfUnboundNodes
<1>3. ASSUME NEW n \in Nodes, DropsNode(n) PROVE NothingOfUnboundNodes'
  <2>1. \A k \in Keys : k[1] = n => k \in KeysOf(n)
    BY DEF KeysOf, Keys
  <2>2. QED
    BY <1>1, <1>3, <2>1 DEF DropsNode, Forget, NothingOfUnboundNodes
<1>4. ASSUME NEW gone \in SUBSET Keys, Purges(gone) PROVE NothingOfUnboundNodes'
  BY <1>1, <1>4 DEF Purges, Forget, NothingOfUnboundNodes
<1>5. CASE Empties
  BY <1>5 DEF Empties, EmptyCaches, NothingOfUnboundNodes
<1>6. ASSUME NEW w \in Workers, Marks(w) PROVE NothingOfUnboundNodes'
  <2>1. worker[w].key[1] \in bound
    BY <1>6 DEF Marks, MarkedBy, CurrentLoadsOfBoundNodes
  <2>2. \A k \in Keys : k # worker[w].key => coverage'[k] = coverage[k]
    BY <1>6 DEF Marks, CachesTyped
  <2>3. cached' = cached /\ bound' = bound
    BY <1>6 DEF Marks
  <2>4. QED
    BY <1>1, <2>1, <2>2, <2>3 DEF NothingOfUnboundNodes
<1>7. ASSUME NEW w \in Workers, Appends(w) PROVE NothingOfUnboundNodes'
  <2>1. worker[w].key[1] \in bound
    BY <1>7 DEF Appends, At, CutOff, CurrentLoadsOfBoundNodes
  <2>2. bound' = bound /\ coverage' = coverage
    BY <1>7 DEF Appends, AppendRecord, cacheVars
  <2>3. \A k \in Keys : k # worker[w].key => cached'[k] = cached[k]
    BY <1>7 DEF Appends, AppendRecord, cacheVars, CachesTyped
  <2>4. QED
    BY <1>1, <2>1, <2>2, <2>3 DEF NothingOfUnboundNodes
<1>8. QED
  BY <1>2, <1>3, <1>4, <1>5, <1>6, <1>7 DEF CacheEffect

-----------------------------------------------------------------------------
(***************************************************************************)
(* The two caches agree.                                                   *)
(***************************************************************************)
CachesKept ==
  /\ CachesTyped
  /\ SharedIsSorted
  /\ SharedIsRemembered
  /\ SharedHasNoDuplicates

\* What is in a container's own list after one more record.
LEMMA CachedAfterAppend ==
  ASSUME CachesTyped, NEW k \in Keys, NEW a \in Ages,
         cached' = [cached EXCEPT ![k] = Newest(cached[k] \cup {a}, ContainerCapacity)]
  PROVE  /\ cached' \in [Keys -> SUBSET Ages]
         /\ \A j \in Keys : IsFiniteSet(cached'[j]) /\ Cardinality(cached'[j]) <= ContainerCapacity
         /\ \A j \in Keys : j # k => cached'[j] = cached[j]
         /\ cached'[k] \subseteq cached[k] \cup {a}
         /\ \A x \in cached[k] \cup {a} : x \in cached'[k] \/ Outgrown(k, x)'
         /\ \A j \in Keys, x \in Nat : Outgrown(j, x) => Outgrown(j, x)'
<1> DEFINE T == Newest(cached[k] \cup {a}, ContainerCapacity)
<1>1. /\ cached \in [Keys -> SUBSET Ages] /\ cached[k] \subseteq Ages /\ Ages \subseteq Nat
      /\ IsFiniteSet(cached[k]) /\ Cardinality(cached[k]) <= ContainerCapacity
      /\ ContainerCapacity \in Nat \ {0} /\ a \in Nat /\ cached[k] \subseteq Nat
  BY SizesAssumption, DepthsAssumption DEF CachesTyped, Ages
<1>2. /\ T \subseteq cached[k] \cup {a}
      /\ IsFiniteSet(T)
      /\ Cardinality(T) <= ContainerCapacity
      /\ \A x \in cached[k] \cup {a} : x \in T \/ FullBefore(T, ContainerCapacity, x)
      /\ \A x \in Nat : FullBefore(cached[k], ContainerCapacity, x) => FullBefore(T, ContainerCapacity, x)
  BY <1>1, AppendedNewest
<1> HIDE DEF T
<1>3. cached' = [cached EXCEPT ![k] = T]
  BY DEF T
<1>4. cached'[k] = T /\ \A j \in Keys : j # k => cached'[j] = cached[j]
  BY <1>1, <1>3
<1>5. T \subseteq Ages
  BY <1>1, <1>2
<1>6. cached' \in [Keys -> SUBSET Ages]
  BY <1>1, <1>3, <1>5
<1>7. \A j \in Keys : IsFiniteSet(cached'[j]) /\ Cardinality(cached'[j]) <= ContainerCapacity
  BY <1>2, <1>4 DEF CachesTyped
<1>8. \A j, x : /\ Outgrown(j, x) <=> FullBefore(cached[j], ContainerCapacity, x)
                /\ Outgrown(j, x)' <=> FullBefore(cached'[j], ContainerCapacity, x)
  BY DEF Outgrown, ContainerFull, FullBefore
<1>9. \A x \in cached[k] \cup {a} : x \in cached'[k] \/ Outgrown(k, x)'
  BY <1>2, <1>4, <1>8
<1>10. \A j \in Keys, x \in Nat : Outgrown(j, x) => Outgrown(j, x)'
  <2> TAKE j \in Keys, x \in Nat
  <2>1. CASE j = k
    BY <1>2, <1>4, <1>8, <2>1
  <2>2. CASE j # k
    BY <1>4, <1>8, <2>2
  <2>3. QED
    BY <2>1, <2>2
<1>11. QED
  BY <1>2, <1>4, <1>6, <1>7, <1>9, <1>10

\* Where the entries of a list came from: one is new, the others were there, in
\* the same order.
CameFrom(q, logs, e, m, old) ==
  /\ \A i \in 1..Len(q) : i # m + 1 => old[i] \in 1..Len(logs) /\ q[i] = logs[old[i]]
  /\ \A i \in 1..Len(q) : i = m + 1 => q[i] = e
  /\ \A i, j \in 1..Len(q) : i # m + 1 /\ j # m + 1 /\ i < j => old[i] < old[j]
  /\ \A i \in 1..Len(q) : i < m + 1 => logs[old[i]].age < e.age
  /\ \A i \in 1..Len(q) : i > m + 1 => ~ (logs[old[i]].age < e.age)

\* Which entries the list has after an insertion: the new one at place m + 1, if
\* the cut leaves it, and each other one where an old one was, in their order.
LEMMA PlacedEntries ==
  ASSUME NEW logs \in Seq(Entry), NEW e \in Entry, NEW limit \in Nat \ {0}, NEW m \in 0..Len(logs),
         PlacedAt(logs, e, limit, m), NEW q, q = InsertNewest(logs, e, limit)
  PROVE  /\ q \in Seq(Entry) /\ Len(q) <= limit /\ DOMAIN q = 1..Len(q)
         /\ \E old \in [1..Len(q) -> Nat] : CameFrom(q, logs, e, m, old)
<1>1. /\ q \in Seq(Entry)
      /\ Len(q) = IF Len(logs) + 1 > limit THEN limit ELSE Len(logs) + 1
      /\ \A i \in 1..Len(logs) : i <= m <=> logs[i].age < e.age
      /\ \A i \in 1..Len(q) : q[i] = IF i <= m THEN logs[i] ELSE IF i = m + 1 THEN e ELSE logs[i - 1]
  BY DEF PlacedAt
<1>2. Len(logs) \in Nat /\ m \in Nat /\ m <= Len(logs) /\ limit \in Nat /\ Len(q) \in Nat
  BY <1>1
<1>3. Len(q) <= limit /\ Len(q) <= Len(logs) + 1 /\ DOMAIN q = 1..Len(q)
  BY <1>1, <1>2
<1> DEFINE old == [i \in 1..Len(q) |-> IF i <= m THEN i ELSE i - 1]
<1>4. old \in [1..Len(q) -> Nat]
  BY <1>2
<1>5. \A i \in 1..Len(q) : /\ i <= m => old[i] = i /\ i \in 1..Len(logs) /\ q[i] = logs[i]
                           /\ i > m + 1 => old[i] = i - 1 /\ i - 1 \in 1..Len(logs) /\ q[i] = logs[i - 1]
                           /\ i = m + 1 => q[i] = e
  BY <1>1, <1>2, <1>3
<1>6. \A i \in 1..Len(q) : i # m + 1 => i <= m \/ i > m + 1
  BY <1>2
<1>7. \A i, j \in 1..Len(q) : i # m + 1 /\ j # m + 1 /\ i < j => old[i] < old[j]
  BY <1>2
<1> HIDE DEF old
<1>8. \A i \in 1..Len(q) : i # m + 1 => old[i] \in 1..Len(logs) /\ q[i] = logs[old[i]]
  BY <1>5, <1>6
<1>9. \A i \in 1..Len(q) : i < m + 1 => logs[old[i]].age < e.age
  BY <1>1, <1>2, <1>5
<1>10. \A i \in 1..Len(q) : i > m + 1 => ~ (logs[old[i]].age < e.age)
  <2> SUFFICES ASSUME NEW i \in 1..Len(q), i > m + 1 PROVE ~ (logs[old[i]].age < e.age)
    OBVIOUS
  <2>1. old[i] = i - 1 /\ i - 1 \in 1..Len(logs)
    BY <1>5
  <2>2. ~ (i - 1 <= m)
    BY <1>2
  <2>3. QED
    BY <1>1, <2>1, <2>2
<1>11. \A i \in 1..Len(q) : i = m + 1 => q[i] = e
  BY <1>5
<1>12. q \in Seq(Entry)
  BY <1>1
<1>13. CameFrom(q, logs, e, m, old)
  BY <1>7, <1>8, <1>9, <1>10, <1>11, Zenon DEF CameFrom
<1>14. QED
  BY <1>3, <1>4, <1>12, <1>13

\* One record appended, to both lists (appendRemoteLogLocked).
LEMMA AppendKept ==
  ASSUME CachesKept, purged' = purged, NEW k \in Keys, NEW a \in Ages, AppendRecord(k, a)
  PROVE  CachesKept'
<1>1. CASE UNCHANGED cacheVars
  BY <1>1 DEF CachesKept, CachesTyped, SharedIsSorted, SharedIsRemembered, SharedHasNoDuplicates,
    Outgrown, ContainerFull, cacheVars
<1>2. CASE ~ UNCHANGED cacheVars
  <2> DEFINE e == [key |-> k, age |-> a]
  <2>1. /\ a \notin cached[k]
        /\ shared' = InsertNewest(shared, e, SharedCapacity)
        /\ cached' = [cached EXCEPT ![k] = Newest(cached[k] \cup {a}, ContainerCapacity)]
        /\ coverage' = coverage
    BY <1>2 DEF AppendRecord, Duplicate
  <2>2. e \in Entry /\ e.key = k /\ e.age = a
    BY DEF Entry
  <2> HIDE DEF e
  <2>3. /\ shared \in Seq(Entry) /\ SharedCapacity \in Nat \ {0}
        /\ DOMAIN shared = 1..Len(shared) /\ Len(shared) \in Nat
        /\ \A i \in 1..Len(shared) : shared[i] \in Entry /\ shared[i].key \in Keys /\ shared[i].age \in Nat
    <3>1. shared \in Seq(Entry) /\ SharedCapacity \in Nat \ {0}
      BY SizesAssumption DEF CachesKept, CachesTyped
    <3>2. \A i \in 1..Len(shared) : shared[i] \in Entry
      BY <3>1
    <3>3. \A x \in Entry : x.key \in Keys /\ x.age \in Nat
      BY DepthsAssumption DEF Entry, Ages
    <3>4. QED
      BY <3>1, <3>2, <3>3
  <2>4. Sorted(shared)
    BY DEF CachesKept, SharedIsSorted, Sorted
  <2>5. PICK m \in 0..Len(shared) : PlacedAt(shared, e, SharedCapacity, m)
    BY <2>2, <2>3, <2>4, InsertNewestPlaces
  <2>6. PICK q : q = InsertNewest(shared, e, SharedCapacity)
    OBVIOUS
  <2>7. /\ q \in Seq(Entry) /\ Len(q) <= SharedCapacity /\ DOMAIN q = 1..Len(q)
        /\ \E old \in [1..Len(q) -> Nat] : CameFrom(q, shared, e, m, old)
    <3>1. shared \in Seq(Entry) /\ SharedCapacity \in Nat \ {0} /\ e \in Entry
      BY <2>2, <2>3
    <3>2. m \in 0..Len(shared) /\ PlacedAt(shared, e, SharedCapacity, m)
      BY <2>5
    <3>3. QED
      BY <2>6, <3>1, <3>2, PlacedEntries
  <2>8. PICK old \in [1..Len(q) -> Nat] :
              /\ \A i \in 1..Len(q) : i # m + 1 => old[i] \in 1..Len(shared) /\ q[i] = shared[old[i]]
              /\ \A i \in 1..Len(q) : i = m + 1 => q[i] = e
              /\ \A i, j \in 1..Len(q) : i # m + 1 /\ j # m + 1 /\ i < j => old[i] < old[j]
              /\ \A i \in 1..Len(q) : i < m + 1 => shared[old[i]].age < e.age
              /\ \A i \in 1..Len(q) : i > m + 1 => ~ (shared[old[i]].age < e.age)
    BY <2>7 DEF CameFrom
  <2>9. shared' = q
    BY <2>1, <2>6
  <2>10. /\ cached' \in [Keys -> SUBSET Ages]
         /\ \A j \in Keys : IsFiniteSet(cached'[j]) /\ Cardinality(cached'[j]) <= ContainerCapacity
         /\ \A j \in Keys : j # k => cached'[j] = cached[j]
         /\ \A x \in cached[k] \cup {a} : x \in cached'[k] \/ Outgrown(k, x)'
         /\ \A j \in Keys, x \in Nat : Outgrown(j, x) => Outgrown(j, x)'
    <3>1. CachesTyped
      BY DEF CachesKept
    <3>2. QED
      BY <2>1, <3>1, CachedAfterAppend
  <2>11. CachesTyped'
    BY <2>1, <2>7, <2>9, <2>10 DEF CachesKept, CachesTyped
  <2>12. SharedIsSorted'
    <3> SUFFICES ASSUME NEW i \in 1..Len(q), NEW j \in 1..Len(q), i < j
                 PROVE  q[i].age <= q[j].age
      BY <2>7, <2>9 DEF SharedIsSorted
    <3>1. /\ m \in Nat /\ a \in Nat
          /\ \A x, y \in 1..Len(shared) : x < y => shared[x].age <= shared[y].age
      <4>1. SharedIsSorted /\ DOMAIN shared = 1..Len(shared) /\ Len(shared) \in Nat
        BY <2>3 DEF CachesKept
      <4>2. \A x, y \in 1..Len(shared) : x < y => shared[x].age <= shared[y].age
        BY <4>1 DEF SharedIsSorted
      <4>3. m \in Nat /\ a \in Nat
        BY <4>1, DepthsAssumption DEF Ages
      <4>4. QED
        BY <4>2, <4>3
    <3>2. CASE i # m + 1 /\ j # m + 1
      <4>1. /\ old[i] \in 1..Len(shared) /\ old[j] \in 1..Len(shared) /\ old[i] < old[j]
            /\ q[i] = shared[old[i]] /\ q[j] = shared[old[j]]
        BY <2>8, <3>2
      <4>2. QED
        BY <3>1, <4>1
    <3>3. CASE i = m + 1
      <4>1. j > m + 1 /\ j # m + 1
        BY <3>1, <3>3
      <4>2. q[i] = e /\ old[j] \in 1..Len(shared) /\ q[j] = shared[old[j]] /\ ~ (shared[old[j]].age < e.age)
        BY <2>8, <3>3, <4>1
      <4>3. shared[old[j]].age \in Nat
        BY <2>3, <4>2
      <4>4. QED
        BY <2>2, <3>1, <4>2, <4>3
    <3>4. CASE j = m + 1
      <4>1. i < m + 1 /\ i # m + 1
        BY <3>1, <3>4
      <4>2. q[j] = e /\ old[i] \in 1..Len(shared) /\ q[i] = shared[old[i]] /\ shared[old[i]].age < e.age
        BY <2>8, <3>4, <4>1
      <4>3. shared[old[i]].age \in Nat
        BY <2>3, <4>2
      <4>4. QED
        BY <2>2, <3>1, <4>2, <4>3
    <3>5. QED
      BY <3>2, <3>3, <3>4
  <2>13. \A i \in 1..Len(shared) :
           \/ shared[i].key \in purged \/ shared[i].age \in cached[shared[i].key]
           \/ Outgrown(shared[i].key, shared[i].age)
    BY <2>3 DEF CachesKept, SharedIsRemembered
  <2>14. \A i \in 1..Len(q) : q[i].key \in purged \/ q[i].age \in cached'[q[i].key] \/ Outgrown(q[i].key, q[i].age)'
    <3> SUFFICES ASSUME NEW i \in 1..Len(q)
                 PROVE  q[i].key \in purged \/ q[i].age \in cached'[q[i].key] \/ Outgrown(q[i].key, q[i].age)'
      OBVIOUS
    <3>1. CASE i = m + 1
      <4>1. q[i] = e
        BY <2>8, <3>1
      <4>2. q[i].key = k /\ q[i].age = a
        BY <2>2, <4>1
      <4>3. a \in cached'[k] \/ Outgrown(k, a)'
        BY <2>10
      <4>4. QED
        BY <4>2, <4>3
    <3>2. CASE i # m + 1
      <4>1. old[i] \in 1..Len(shared) /\ q[i] = shared[old[i]]
        BY <2>8, <3>2
      <4>2. PICK j, x : j = q[i].key /\ x = q[i].age
        OBVIOUS
      <4>3. j \in Keys /\ x \in Nat
        BY <2>3, <4>1, <4>2
      <4>4. j \in purged \/ x \in cached[j] \/ Outgrown(j, x)
        BY <2>13, <4>1, <4>2
      <4>5. x \in cached[j] => x \in cached'[j] \/ Outgrown(j, x)'
        BY <2>10, <4>3
      <4>6. Outgrown(j, x) => Outgrown(j, x)'
        BY <2>10, <4>3
      <4>7. j \in purged \/ x \in cached'[j] \/ Outgrown(j, x)'
        BY <4>4, <4>5, <4>6
      <4>8. QED
        BY <4>2, <4>7
    <3>3. QED
      BY <3>1, <3>2
  <2>15. SharedIsRemembered'
    BY <2>7, <2>9, <2>14 DEF SharedIsRemembered
  <2>16. \A i \in 1..Len(shared), j \in 1..Len(shared) :
           shared[i] = shared[j] => i = j \/ shared[i].key \in purged \/ Outgrown(shared[i].key, shared[i].age)
    BY <2>3 DEF CachesKept, SharedHasNoDuplicates
  <2>17. \A i \in 1..Len(q) : i # m + 1 /\ q[i] = e => k \in purged \/ Outgrown(k, a)'
    <3> SUFFICES ASSUME NEW i \in 1..Len(q), i # m + 1, q[i] = e PROVE k \in purged \/ Outgrown(k, a)'
      OBVIOUS
    <3>1. old[i] \in 1..Len(shared) /\ shared[old[i]] = e
      BY <2>8
    <3>2. k \in purged \/ a \in cached[k] \/ Outgrown(k, a)
      BY <2>2, <2>13, <3>1
    <3>3. a \in Nat
      BY DepthsAssumption DEF Ages
    <3>4. QED
      BY <2>1, <2>10, <3>2, <3>3
  <2>18. \A i \in 1..Len(q), j \in 1..Len(q) :
           q[i] = q[j] => i = j \/ q[i].key \in purged \/ Outgrown(q[i].key, q[i].age)'
    <3> SUFFICES ASSUME NEW i \in 1..Len(q), NEW j \in 1..Len(q), q[i] = q[j], i # j
                 PROVE  q[i].key \in purged \/ Outgrown(q[i].key, q[i].age)'
      OBVIOUS
    <3>1. PICK h, x : h = q[i].key /\ x = q[i].age
      OBVIOUS
    <3>2. CASE i = m + 1 \/ j = m + 1
      <4>1. q[i] = e
        BY <2>8, <3>2
      <4>2. h = k /\ x = a
        BY <2>2, <3>1, <4>1
      <4>3. k \in purged \/ Outgrown(k, a)'
        BY <2>17, <3>2, <4>1
      <4>4. QED
        BY <3>1, <4>2, <4>3
    <3>3. CASE i # m + 1 /\ j # m + 1
      <4>1. /\ old[i] \in 1..Len(shared) /\ old[j] \in 1..Len(shared)
            /\ q[i] = shared[old[i]] /\ q[j] = shared[old[j]]
        BY <2>8, <3>3
      <4>2. old[i] # old[j]
        <5>1. i < j \/ j < i
          OBVIOUS
        <5>2. old[i] < old[j] \/ old[j] < old[i]
          BY <2>8, <3>3, <5>1
        <5>3. old[i] \in Nat /\ old[j] \in Nat
          BY <4>1
        <5>4. QED
          BY <5>2, <5>3
      <4>3. h \in purged \/ Outgrown(h, x)
        BY <2>16, <3>1, <4>1, <4>2
      <4>4. h \in Keys /\ x \in Nat
        BY <2>3, <3>1, <4>1
      <4>5. h \in purged \/ Outgrown(h, x)'
        BY <2>10, <4>3, <4>4
      <4>6. QED
        BY <3>1, <4>5
    <3>4. QED
      BY <3>2, <3>3
  <2>19. SharedHasNoDuplicates'
    BY <2>7, <2>9, <2>18 DEF SharedHasNoDuplicates
  <2>20. QED
    BY <2>11, <2>12, <2>15, <2>19 DEF CachesKept
<1>3. QED
  BY <1>1, <1>2

\* What is cached of the containers that are kept is as it was.
LEMMA ForgetKeeps ==
  ASSUME CachesTyped, NEW gone \in SUBSET Keys, Forget(gone)
  PROVE  /\ cached' \in [Keys -> SUBSET Ages]
         /\ \A k \in Keys : IsFiniteSet(cached'[k]) /\ Cardinality(cached'[k]) <= ContainerCapacity
         /\ coverage' \in [Keys -> Depths]
         /\ \A k \in Keys \ gone : cached'[k] = cached[k]
         /\ \A k \in Keys \ gone : \A x : Outgrown(k, x) => Outgrown(k, x)'
<1>1. \A k \in Keys : cached'[k] = IF k \in gone THEN {} ELSE cached[k]
  BY DEF Forget
<1>2. /\ cached' \in [Keys -> SUBSET Ages]
      /\ coverage' \in [Keys -> Depths]
  BY DepthsAssumption DEF Forget, CachesTyped
<1>3. IsFiniteSet({}) /\ Cardinality({}) <= ContainerCapacity
  BY FS_EmptySet, SizesAssumption
<1>4. \A k \in Keys : IsFiniteSet(cached'[k]) /\ Cardinality(cached'[k]) <= ContainerCapacity
  BY <1>1, <1>3 DEF CachesTyped
<1>5. \A k \in Keys \ gone : \A x : Outgrown(k, x) => Outgrown(k, x)'
  BY <1>1 DEF Outgrown, ContainerFull
<1>6. QED
  BY <1>1, <1>2, <1>4, <1>5

\* Dropping a node takes its records from both lists and no other record.
LEMMA DropKept ==
  ASSUME CachesKept, NEW n \in Nodes, DropsNode(n)
  PROVE  CachesKept'
<1>1. KeysOf(n) \in SUBSET Keys /\ \A k \in Keys : k[1] # n => k \in Keys \ KeysOf(n)
  BY DEF KeysOf, Keys
<1>2. /\ cached' \in [Keys -> SUBSET Ages]
      /\ \A k \in Keys : IsFiniteSet(cached'[k]) /\ Cardinality(cached'[k]) <= ContainerCapacity
      /\ coverage' \in [Keys -> Depths]
      /\ \A k \in Keys \ KeysOf(n) : cached'[k] = cached[k]
      /\ \A k \in Keys \ KeysOf(n) : \A x : Outgrown(k, x) => Outgrown(k, x)'
  <2>1. CachesTyped /\ Forget(KeysOf(n))
    BY DEF CachesKept, DropsNode
  <2>2. QED
    BY <1>1, <2>1, ForgetKeeps
<1>3. /\ shared \in Seq(Entry) /\ Len(shared) <= SharedCapacity /\ Len(shared) \in Nat
      /\ DOMAIN shared = 1..Len(shared) /\ SharedCapacity \in Nat
  BY SizesAssumption DEF CachesKept, CachesTyped
<1>4. \A i \in 1..Len(shared) : shared[i].key \in Keys
  <2>1. \A i \in 1..Len(shared) : shared[i] \in Entry
    BY <1>3
  <2>2. QED
    BY <2>1 DEF Entry
<1>5. PICK m \in 0..Len(shared) : \E nth \in [1..m -> 1..Len(shared)] : StaysAt(shared, n, nth, m)
  BY <1>3, WithoutNodeKeeps
<1>6. PICK nth \in [1..m -> 1..Len(shared)] : StaysAt(shared, n, nth, m)
  BY <1>5
<1>7. PICK q : q = WithoutNode(shared, n)
  OBVIOUS
<1>8. /\ q \in Seq(Entry) /\ Len(q) = m /\ DOMAIN q = 1..m
      /\ \A j \in 1..m : q[j] = shared[nth[j]] /\ shared[nth[j]].key[1] # n
      /\ \A i, j \in 1..m : i < j => nth[i] < nth[j]
  BY <1>6, <1>7 DEF StaysAt
<1>9. shared' = q /\ purged' = purged
  BY <1>7 DEF DropsNode
<1>10. \A j \in 1..m : /\ nth[j] \in 1..Len(shared) /\ q[j].key \in Keys \ KeysOf(n)
                       /\ q[j] = shared[nth[j]]
  BY <1>1, <1>4, <1>6, <1>8
<1>11. CachesTyped'
  <2>1. m <= Len(shared) /\ m \in Nat
    BY <1>3
  <2>2. Len(q) <= SharedCapacity
    BY <1>3, <1>8, <2>1
  <2>3. QED
    BY <1>2, <1>8, <1>9, <2>2 DEF CachesTyped
<1>12. SharedIsSorted'
  <2>1. \A i, j \in 1..Len(shared) : i < j => shared[i].age <= shared[j].age
    BY <1>3 DEF CachesKept, SharedIsSorted
  <2>2. \A i, j \in 1..m : i < j => q[i].age <= q[j].age
    BY <1>8, <1>10, <2>1, SMTT(40)
  <2>3. QED
    BY <1>8, <1>9, <2>2 DEF SharedIsSorted
<1>13. SharedIsRemembered'
  <2>1. \A i \in 1..Len(shared) : \/ shared[i].key \in purged \/ shared[i].age \in cached[shared[i].key]
                                  \/ Outgrown(shared[i].key, shared[i].age)
    BY <1>3 DEF CachesKept, SharedIsRemembered
  <2>2. \A j \in 1..m : \/ q[j].key \in purged \/ q[j].age \in cached[q[j].key]
                        \/ Outgrown(q[j].key, q[j].age)
    BY <1>10, <2>1
  <2>3. \A j \in 1..m : \/ q[j].key \in purged \/ q[j].age \in cached'[q[j].key]
                        \/ Outgrown(q[j].key, q[j].age)'
    <3> TAKE j \in 1..m
    <3>1. PICK k, x : k = q[j].key /\ x = q[j].age
      OBVIOUS
    <3>2. k \in Keys \ KeysOf(n)
      BY <1>10, <3>1
    <3>3. k \in purged \/ x \in cached[k] \/ Outgrown(k, x)
      BY <2>2, <3>1
    <3>4. k \in purged \/ x \in cached'[k] \/ Outgrown(k, x)'
      BY <1>2, <3>2, <3>3
    <3>5. QED
      BY <3>1, <3>4
  <2>4. QED
    BY <1>8, <1>9, <2>3 DEF SharedIsRemembered
<1>14. SharedHasNoDuplicates'
  <2>1. \A i, j \in 1..Len(shared) :
          shared[i] = shared[j] => i = j \/ shared[i].key \in purged \/ Outgrown(shared[i].key, shared[i].age)
    BY <1>3 DEF CachesKept, SharedHasNoDuplicates
  <2>2. \A i, j \in 1..m : q[i] = q[j] => i = j \/ q[i].key \in purged \/ Outgrown(q[i].key, q[i].age)'
    <3> SUFFICES ASSUME NEW i \in 1..m, NEW j \in 1..m, q[i] = q[j], i # j
                 PROVE  q[i].key \in purged \/ Outgrown(q[i].key, q[i].age)'
      OBVIOUS
    <3>1. PICK k, x : k = q[i].key /\ x = q[i].age
      OBVIOUS
    <3>2. k \in Keys \ KeysOf(n)
      BY <1>10, <3>1
    <3>3. nth[i] # nth[j]
      <4>1. i < j \/ j < i
        OBVIOUS
      <4>2. nth[i] < nth[j] \/ nth[j] < nth[i]
        BY <1>8, <4>1
      <4>3. nth[i] \in Nat /\ nth[j] \in Nat
        BY <1>10
      <4>4. QED
        BY <4>2, <4>3
    <3>4. k \in purged \/ Outgrown(k, x)
      BY <1>10, <2>1, <3>1, <3>3
    <3>5. k \in purged \/ Outgrown(k, x)'
      BY <1>2, <3>2, <3>4
    <3>6. QED
      BY <3>1, <3>5
  <2>3. QED
    BY <1>8, <1>9, <2>2 DEF SharedHasNoDuplicates
<1>15. QED
  BY <1>11, <1>12, <1>13, <1>14 DEF CachesKept

\* A container that is purged keeps its records in the dashboard's list only.
LEMMA PurgeKept ==
  ASSUME CachesKept, NEW gone \in SUBSET Keys, Purges(gone)
  PROVE  CachesKept'
<1>1. /\ cached' \in [Keys -> SUBSET Ages]
      /\ \A k \in Keys : IsFiniteSet(cached'[k]) /\ Cardinality(cached'[k]) <= ContainerCapacity
      /\ coverage' \in [Keys -> Depths]
      /\ \A k \in Keys \ gone : cached'[k] = cached[k]
      /\ \A k \in Keys \ gone : \A x : Outgrown(k, x) => Outgrown(k, x)'
  <2>1. CachesTyped /\ Forget(gone)
    BY DEF CachesKept, Purges
  <2>2. QED
    BY <2>1, ForgetKeeps
<1>0. PICK q : q = shared
  OBVIOUS
<1>2. shared' = q /\ q = shared /\ purged' = purged \cup gone
  BY <1>0 DEF Purges
<1>3. \A i \in DOMAIN q : q[i].key \in Keys
  <2>1. \A i \in DOMAIN q : q[i] \in Entry
    BY <1>2 DEF CachesKept, CachesTyped
  <2>2. QED
    BY <2>1 DEF Entry
<1>4. CachesTyped' /\ SharedIsSorted'
  BY <1>1, <1>2 DEF CachesKept, CachesTyped, SharedIsSorted
<1>5. SharedIsRemembered'
  <2>1. \A i \in DOMAIN q : \/ q[i].key \in purged \/ q[i].age \in cached[q[i].key]
                                 \/ Outgrown(q[i].key, q[i].age)
    BY <1>2 DEF CachesKept, SharedIsRemembered
  <2>2. \A i \in DOMAIN q : \/ q[i].key \in purged \cup gone \/ q[i].age \in cached'[q[i].key]
                                 \/ Outgrown(q[i].key, q[i].age)'
    <3> TAKE i \in DOMAIN q
    <3>1. PICK k, x : k = q[i].key /\ x = q[i].age
      OBVIOUS
    <3>2. k \in Keys /\ (k \in purged \/ x \in cached[k] \/ Outgrown(k, x))
      BY <1>3, <2>1, <3>1
    <3>3. k \in purged \cup gone \/ x \in cached'[k] \/ Outgrown(k, x)'
      BY <1>1, <3>2
    <3>4. QED
      BY <3>1, <3>3
  <2>3. QED
    BY <1>2, <2>2 DEF SharedIsRemembered
<1>6. SharedHasNoDuplicates'
  <2>1. \A i, j \in DOMAIN q :
          q[i] = q[j] => i = j \/ q[i].key \in purged \/ Outgrown(q[i].key, q[i].age)
    BY <1>2 DEF CachesKept, SharedHasNoDuplicates
  <2>2. \A i, j \in DOMAIN q :
          q[i] = q[j] => i = j \/ q[i].key \in purged \cup gone
                                   \/ Outgrown(q[i].key, q[i].age)'
    <3> SUFFICES ASSUME NEW i \in DOMAIN q, NEW j \in DOMAIN q, q[i] = q[j], i # j
                 PROVE  q[i].key \in purged \cup gone \/ Outgrown(q[i].key, q[i].age)'
      OBVIOUS
    <3>1. PICK k, x : k = q[i].key /\ x = q[i].age
      OBVIOUS
    <3>2. k \in Keys /\ (k \in purged \/ Outgrown(k, x))
      BY <1>3, <2>1, <3>1
    <3>3. k \in purged \cup gone \/ Outgrown(k, x)'
      BY <1>1, <3>2
    <3>4. QED
      BY <3>1, <3>3
  <2>3. QED
    BY <1>2, <2>2 DEF SharedHasNoDuplicates
<1>7. QED
  BY <1>4, <1>5, <1>6 DEF CachesKept

\* Every step keeps the two caches in agreement.
LEMMA CachesStep ==
  ASSUME TypeOK, FetchTyped, CachesKept, CacheEffect
  PROVE  CachesKept'
<1>1. CASE Stays
  BY <1>1 DEF Stays, cacheVars, CachesKept, CachesTyped, SharedIsSorted, SharedIsRemembered,
    SharedHasNoDuplicates, Outgrown, ContainerFull
<1>2. CASE Empties
  <2>1. /\ shared' = <<>> /\ cached' = [k \in Keys |-> {}] /\ coverage' = [k \in Keys |-> 0]
    BY <1>2 DEF Empties, EmptyCaches
  <2>2. /\ <<>> \in Seq(Entry) /\ Len(<<>>) = 0 /\ DOMAIN <<>> = {} /\ SharedCapacity \in Nat
    BY SizesAssumption
  <2>3. Len(<<>>) <= SharedCapacity
    BY <2>2
  <2>4. IsFiniteSet({}) /\ Cardinality({}) <= ContainerCapacity
    BY FS_EmptySet, SizesAssumption
  <2>5. CachesTyped'
    BY <2>1, <2>2, <2>3, <2>4, DepthsAssumption DEF CachesTyped
  <2>6. SharedIsSorted' /\ SharedIsRemembered' /\ SharedHasNoDuplicates'
    BY <2>1, <2>2 DEF SharedIsSorted, SharedIsRemembered, SharedHasNoDuplicates
  <2>7. QED
    BY <2>5, <2>6 DEF CachesKept
<1>3. ASSUME NEW w \in Workers, Marks(w) PROVE CachesKept'
  <2> DEFINE k == worker[w].key
             c == Largest({coverage[k], fetch[w].from})
  <2>1. k \in Keys
    BY <1>3 DEF Marks, TypeOK, Worker, Idle
  <2>2. {coverage[k], fetch[w].from} \subseteq Depths /\ Depths \subseteq Nat /\ 0 \in Depths
    BY <2>1, AgesAssumption, DepthsAssumption DEF CachesKept, CachesTyped, FetchTyped, Progress, Fetch
  <2>3. IsFiniteSet({coverage[k], fetch[w].from})
    <3>1. IsFiniteSet({coverage[k]})
      BY FS_Singleton
    <3>2. IsFiniteSet({coverage[k]} \cup {fetch[w].from})
      BY <3>1, FS_AddElement
    <3>3. {coverage[k], fetch[w].from} = {coverage[k]} \cup {fetch[w].from}
      OBVIOUS
    <3>4. QED
      BY <3>2, <3>3
  <2>4. {coverage[k], fetch[w].from} \subseteq Nat
    BY <2>2
  <2>5. c \in {coverage[k], fetch[w].from} \cup {0}
    BY <2>3, <2>4, LargestIsGreatest
  <2>6. c \in Depths
    BY <2>2, <2>5
  <2>7. coverage' = [coverage EXCEPT ![k] = c] /\ UNCHANGED <<shared, cached, purged>>
    BY <1>3 DEF Marks
  <2> HIDE DEF c, k
  <2>8. CachesTyped'
    BY <2>1, <2>6, <2>7 DEF CachesKept, CachesTyped
  <2>9. SharedIsSorted' /\ SharedIsRemembered' /\ SharedHasNoDuplicates'
    BY <2>7 DEF CachesKept, SharedIsSorted, SharedIsRemembered, SharedHasNoDuplicates, Outgrown, ContainerFull
  <2>10. QED
    BY <2>8, <2>9 DEF CachesKept
<1>4. ASSUME NEW w \in Workers, Appends(w) PROVE CachesKept'
  <2> DEFINE k == worker[w].key
             a == Largest(fetch[w].page)
  <2>1. k \in Keys
    BY <1>4 DEF Appends, At, TypeOK, Worker, Idle
  <2>2. fetch[w].page \subseteq Ages /\ IsFiniteSet(fetch[w].page) /\ fetch[w].page # {}
    BY <1>4 DEF Appends, FetchTyped, Progress, Fetch
  <2>3. fetch[w].page \subseteq Nat
    BY <2>2, DepthsAssumption DEF Ages
  <2>4. a \in Ages
    BY <2>2, <2>3, LargestIsGreatest
  <2>5. AppendRecord(k, a) /\ purged' = purged
    BY <1>4 DEF Appends
  <2> HIDE DEF k, a
  <2>6. PICK j, x : j = k /\ x = a
    OBVIOUS
  <2>7. j \in Keys /\ x \in Ages /\ AppendRecord(j, x)
    BY <2>1, <2>4, <2>5, <2>6
  <2>8. QED
    BY <2>5, <2>7, AppendKept
<1>5. QED
  BY <1>1, <1>2, <1>3, <1>4, DropKept, PurgeKept DEF CacheEffect
-----------------------------------------------------------------------------
(***************************************************************************)
(* What a load has read.  A load that still counts has put everything it   *)
(* was answered down to its page where it belongs; what it has not handled *)
(* yet is on its page.                                                     *)
(***************************************************************************)
\* The ages a container's own list has, or would have if it were longer.
Had(k) == {a \in Nat : a \in cached[k] \/ Outgrown(k, a)}

\* "f" is how far a load of a container with the records "remote" has got, "had"
\* what is there of it.
ReadTo(f, remote, had) ==
  /\ \A a \in remote : f.to < a /\ a <= f.pageTo => a \in had
  /\ f.step = "ingest" =>
       /\ f.pageTo < f.oldest /\ f.oldest <= f.from
       /\ \A a \in remote : f.pageTo < a /\ a <= f.oldest => a \in f.page \/ a \in had
       /\ ~ f.full => \A a \in remote : f.pageTo < a /\ a <= f.from => a <= f.oldest

Counts(w) == worker[w].pc = "fetch" /\ MarkedBy(w) /\ ~ fetch[w].emptied

WindowsRead == \A w \in Workers : Counts(w) => ReadTo(fetch[w], Remote[worker[w].key], Had(worker[w].key))

\* What has been read stays read while nothing is dropped.
LEMMA ReadToGrows ==
  ASSUME NEW f, NEW remote, NEW had, NEW more, ReadTo(f, remote, had), had \subseteq more
  PROVE  ReadTo(f, remote, more)
BY DEF ReadTo

\* A load starts with nothing to have read.
LEMMA ReadToStarts ==
  ASSUME NEW f \in Fetch, f.step = "check", f.pageTo = f.to, NEW remote \in SUBSET Nat, NEW had
  PROVE  ReadTo(f, remote, had)
<1>1. f.to \in Nat
  BY DepthsAssumption DEF Fetch
<1>2. QED
  BY <1>1 DEF ReadTo

\* An answer is the newest part of what was asked for: nothing is left out between
\* its records, and nothing behind them unless the page is full.
LEMMA ReadToAnswered ==
  ASSUME NEW f \in Fetch, NEW remote \in SUBSET Nat, NEW had, ReadTo(f, remote, had),
         NEW asked, asked = {a \in remote : f.pageTo < a /\ a <= f.from}, IsFiniteSet(asked),
         NEW page, page = Newest(asked, PageSize), page # {}
  PROVE  ReadTo([f EXCEPT !.step = "ingest", !.page = page, !.oldest = Largest(page),
                          !.full = (Cardinality(page) = PageSize)], remote, had)
<1> DEFINE o == Largest(page)
           full == (Cardinality(page) = PageSize)
           g == [f EXCEPT !.step = "ingest", !.page = page, !.oldest = o, !.full = full]
<1>1. f.to \in Nat /\ f.pageTo \in Nat /\ f.from \in Nat
  BY DepthsAssumption, RangesAssumption DEF Fetch
<1>2. /\ page \subseteq asked /\ IsFiniteSet(page)
      /\ \A a \in asked, m \in page : a <= m => a \in page
      /\ ~ full => page = asked
  BY PageIsNewest, SizesAssumption
<1>3. o \in page /\ \A a \in page : a <= o
  BY <1>2, LargestIsGreatest
<1>4. o \in Nat /\ f.pageTo < o /\ o <= f.from
  BY <1>2, <1>3
<1> HIDE DEF o, full
<1>5. /\ g.step = "ingest" /\ g.to = f.to /\ g.pageTo = f.pageTo /\ g.from = f.from
      /\ g.page = page /\ g.oldest = o /\ g.full = full
  BY DEF Fetch
<1>6. \A a \in remote : f.pageTo < a /\ a <= o => a \in page
  BY <1>1, <1>2, <1>3, <1>4
<1>7. ~ full => \A a \in remote : f.pageTo < a /\ a <= f.from => a <= o
  BY <1>2, <1>3
<1>8. \A a \in remote : f.to < a /\ a <= f.pageTo => a \in had
  BY DEF ReadTo
<1> HIDE DEF g
<1>9. ReadTo(g, remote, had)
  BY <1>4, <1>5, <1>6, <1>7, <1>8 DEF ReadTo
<1>10. QED
  BY <1>9 DEF g, o, full

\* A record that is handled moves from the page to the container's list.
LEMMA ReadToIngested ==
  ASSUME NEW f \in Fetch, NEW remote, NEW had, ReadTo(f, remote, had), f.step = "ingest",
         NEW a, NEW more, had \cup {a} \subseteq more
  PROVE  ReadTo([f EXCEPT !.page = f.page \ {a}], remote, more)
<1> DEFINE g == [f EXCEPT !.page = f.page \ {a}]
<1>1. /\ g.step = f.step /\ g.to = f.to /\ g.pageTo = f.pageTo /\ g.from = f.from
      /\ g.page = f.page \ {a} /\ g.oldest = f.oldest /\ g.full = f.full
  BY DEF Fetch
<1> HIDE DEF g
<1>2. ReadTo(g, remote, more)
  BY <1>1 DEF ReadTo
<1>3. QED
  BY <1>2 DEF g

\* The next page takes up where the last one ended.
LEMMA ReadToTurned ==
  ASSUME NEW f \in Fetch, NEW remote \in SUBSET Nat, NEW had, ReadTo(f, remote, had), f.step = "ingest",
         f.page = {}
  PROVE  /\ ReadTo([f EXCEPT !.step = "check", !.pageTo = f.oldest, !.full = FALSE, !.oldest = 0], remote, had)
         /\ ~ f.full \/ f.oldest \notin f.pageTo + 1 .. f.from - 1
              => \A a \in remote : f.to < a /\ a <= f.from => a \in had
<1> DEFINE g == [f EXCEPT !.step = "check", !.pageTo = f.oldest, !.full = FALSE, !.oldest = 0]
<1>1. f.to \in Nat /\ f.pageTo \in Nat /\ f.from \in Nat /\ f.oldest \in Nat
  BY DepthsAssumption, RangesAssumption DEF Fetch
<1>2. /\ f.pageTo < f.oldest /\ f.oldest <= f.from
      /\ \A a \in remote : f.to < a /\ a <= f.pageTo => a \in had
      /\ \A a \in remote : f.pageTo < a /\ a <= f.oldest => a \in had
      /\ ~ f.full => \A a \in remote : f.pageTo < a /\ a <= f.from => a <= f.oldest
  BY DEF ReadTo
<1>3. \A a \in remote : f.to < a /\ a <= f.oldest => a \in had
  <2> SUFFICES ASSUME NEW a \in remote, f.to < a, a <= f.oldest
               PROVE  a \in had
    OBVIOUS
  <2>1. a \in Nat
    OBVIOUS
  <2>2. CASE a <= f.pageTo
    BY <1>2, <2>2
  <2>3. CASE f.pageTo < a
    BY <1>2, <2>3
  <2>4. QED
    BY <1>1, <2>1, <2>2, <2>3
<1>4. g.step = "check" /\ g.to = f.to /\ g.pageTo = f.oldest
  BY DEF Fetch
<1>5. ASSUME ~ f.full \/ f.oldest \notin f.pageTo + 1 .. f.from - 1
      PROVE  \A a \in remote : f.to < a /\ a <= f.from => a \in had
  <2> SUFFICES ASSUME NEW a \in remote, f.to < a, a <= f.from
               PROVE  a \in had
    OBVIOUS
  <2>1. a \in Nat
    OBVIOUS
  <2>2. a <= f.oldest
    <3>1. CASE ~ f.full
      <4>1. CASE f.pageTo < a
        BY <1>2, <3>1, <4>1
      <4>2. CASE ~ f.pageTo < a
        BY <1>1, <1>2, <2>1, <4>2
      <4>3. QED
        BY <4>1, <4>2
    <3>2. CASE f.oldest \notin f.pageTo + 1 .. f.from - 1
      <4>1. f.oldest = f.from
        BY <1>1, <1>2, <3>2
      <4>2. QED
        BY <4>1
    <3>3. QED
      BY <1>5, <3>1, <3>2
  <2>3. QED
    BY <1>3, <2>2
<1> HIDE DEF g
<1>6. ReadTo(g, remote, had)
  BY <1>3, <1>4 DEF ReadTo
<1>7. QED
  BY <1>5, <1>6 DEF g

\* The records of a load's container, and what is asked for of them.
LEMMA ReadingType ==
  ASSUME TypeOK, FetchTyped, NEW w \in Workers, worker[w].pc = "fetch"
  PROVE  /\ worker[w].key \in Keys /\ fetch[w] \in Fetch
         /\ Remote[worker[w].key] \in SUBSET Nat
<1>1. worker[w].key \in Keys
  BY AskedType
<1>2. Remote[worker[w].key] \in SUBSET Ages
  BY <1>1, RemoteAssumption
<1>3. QED
  BY <1>1, <1>2, DepthsAssumption DEF Ages, FetchTyped, Progress

\* A container's list only loses what it has no more room for, unless it is
\* dropped as a whole.
LEMMA AppendGrows ==
  ASSUME CachesTyped, NEW j \in Keys, NEW a \in Ages, AppendRecord(j, a)
  PROVE  /\ \A k \in Keys : Had(k) \subseteq Had(k)'
         /\ j[1] \in bound => a \in Had(j)'
<1>1. a \in Nat
  BY DepthsAssumption DEF Ages
<1>2. CASE j[1] \notin bound \/ Duplicate(j, a)
  <2>1. \A k \in Keys : Had(k)' = Had(k)
    BY <1>2 DEF AppendRecord, cacheVars, Had, Outgrown, ContainerFull
  <2>2. j[1] \in bound => a \in Had(j)
    BY <1>1, <1>2 DEF Had, Duplicate
  <2>3. QED
    BY <2>1, <2>2
<1>3. CASE ~ (j[1] \notin bound \/ Duplicate(j, a))
  <2>1. cached' = [cached EXCEPT ![j] = Newest(cached[j] \cup {a}, ContainerCapacity)]
    BY <1>3 DEF AppendRecord
  <2>2. /\ \A k \in Keys : k # j => cached'[k] = cached[k]
        /\ \A x \in cached[j] \cup {a} : x \in cached'[j] \/ Outgrown(j, x)'
        /\ \A k \in Keys, x \in Nat : Outgrown(k, x) => Outgrown(k, x)'
    BY <2>1, CachedAfterAppend
  <2>3. ASSUME NEW k \in Keys, NEW x \in Had(k) PROVE x \in Had(k)'
    <3>1. x \in Nat /\ (x \in cached[k] \/ Outgrown(k, x))
      BY DEF Had
    <3>2. x \in cached[k] => x \in cached'[k] \/ Outgrown(k, x)'
      BY <2>2
    <3>3. x \in cached'[k] \/ Outgrown(k, x)'
      BY <2>2, <3>1, <3>2
    <3>4. QED
      BY <3>1, <3>3 DEF Had
  <2>4. a \in Had(j)'
    BY <1>1, <2>2 DEF Had
  <2>5. QED
    BY <2>3, <2>4
<1>4. QED
  BY <1>2, <1>3

\* A load that goes on has kept count of what it has read.
LEMMA ProgressRead ==
  ASSUME TypeOK, FetchTyped, CachesTyped, CurrentLoadsOfBoundNodes, NEW w \in Workers, LoadProgress(w),
         Counts(w) => ReadTo(fetch[w], Remote[worker[w].key], Had(worker[w].key)), Counts(w)'
  PROVE  ReadTo(fetch[w], Remote[worker[w].key], Had(worker[w].key))'
<1>1. worker' = worker /\ generation' = generation /\ worker[w].pc = "fetch" /\ ~ FinishFetch(w)
  <2>1. UNCHANGED vars \/ FinishFetch(w) \/ ReleaseLoad(w) \/ CompleteHistoryFetch(w)
    BY LoadProgressImplements
  <2>2. worker'[w].pc = "fetch"
    BY DEF Counts
  <2>3. worker \in [Workers -> Worker]
    BY DEF TypeOK
  <2>4. UNCHANGED vars /\ ~ FinishFetch(w)
    <3>1. ~ FinishFetch(w)
      BY <2>2, <2>3 DEF FinishFetch, Worker, Idle
    <3>2. ~ ReleaseLoad(w)
      BY <2>2, <2>3 DEF ReleaseLoad, Worker, Idle
    <3>3. ~ CompleteHistoryFetch(w)
      BY <2>2, <2>3 DEF CompleteHistoryFetch, Worker, Idle
    <3>4. QED
      BY <2>1, <3>1, <3>2, <3>3
  <2>5. QED
    BY <2>2, <2>4 DEF vars, loadVars
<1> DEFINE f == fetch[w]
           k == worker[w].key
<1>2. k \in Keys /\ f \in Fetch /\ Remote[k] \in SUBSET Nat
  BY <1>1, ReadingType
<1>3. fetch \in [Workers -> Progress]
  BY DEF FetchTyped
<1>4. ASSUME NEW g, fetch' = [fetch EXCEPT ![w] = g]
      PROVE  fetch'[w] = g
  BY <1>3, <1>4
<1>5. ASSUME f.emptied = FALSE PROVE ReadTo(f, Remote[k], Had(k))
  BY <1>1, <1>5 DEF Counts, MarkedBy
<1>6. f.emptied \in BOOLEAN
  BY <1>2 DEF Fetch
<1>7. ~ Completed(w) /\ ~ GivenUp(w) /\ ~ RequestFails(w) /\ ~ ContainerReleased(w) /\ ~ LoadCounted(w)
  BY <1>1 DEF Completed, GivenUp, RequestFails, ContainerReleased, LoadCounted, ReleaseLoad, CompleteHistoryFetch
<1>8. CASE CheckRoom(w)
  <2> DEFINE g == [f EXCEPT !.step = "request"]
  <2>1. fetch' = [fetch EXCEPT ![w] = g] /\ UNCHANGED cacheVars
    BY <1>7, <1>8 DEF CheckRoom, Advance
  <2>2. /\ g.step = "request" /\ g.to = f.to /\ g.pageTo = f.pageTo /\ g.emptied = f.emptied
    BY <1>2 DEF Fetch
  <2>3. fetch'[w] = g
    BY <1>4, <2>1
  <2>4. f.emptied = FALSE
    BY <1>6, <2>2, <2>3 DEF Counts
  <2>5. ReadTo(f, Remote[k], Had(k))
    BY <1>5, <2>4
  <2> HIDE DEF g
  <2>6. ReadTo(g, Remote[k], Had(k))
    BY <2>2, <2>5 DEF ReadTo
  <2>7. Had(k)' = Had(k)
    BY <1>1, <2>1 DEF cacheVars, Had, Outgrown, ContainerFull
  <2>8. QED
    BY <1>1, <2>3, <2>6, <2>7
<1>9. CASE RequestPage(w)
  <2> DEFINE page == Newest(Asked(w), PageSize)
             g == [f EXCEPT !.step = "ingest", !.page = page, !.oldest = Largest(page),
                            !.full = (Cardinality(page) = PageSize)]
  <2>1. fetch' = [fetch EXCEPT ![w] = g] /\ UNCHANGED cacheVars /\ page # {}
    BY <1>7, <1>9 DEF RequestPage, Advance, Asked
  <2>2. g.emptied = f.emptied
    BY <1>2 DEF Fetch
  <2>3. fetch'[w] = g
    BY <1>4, <2>1
  <2>4. f.emptied = FALSE
    BY <1>6, <2>2, <2>3 DEF Counts
  <2>5. ReadTo(f, Remote[k], Had(k))
    BY <1>5, <2>4
  <2>6. IsFiniteSet(Asked(w)) /\ Asked(w) = {a \in Remote[k] : f.pageTo < a /\ a <= f.from}
    BY <1>1, AskedType DEF Asked
  <2>7. PICK asked, p : asked = Asked(w) /\ p = page
    OBVIOUS
  <2>8. ReadTo(g, Remote[k], Had(k))
    <3> HIDE DEF f, k
    <3>1. ReadTo([f EXCEPT !.step = "ingest", !.page = p, !.oldest = Largest(p),
                          !.full = (Cardinality(p) = PageSize)], Remote[k], Had(k))
      BY <1>2, <2>1, <2>5, <2>6, <2>7, ReadToAnswered
    <3>2. QED
      BY <2>7, <3>1
  <2> HIDE DEF g
  <2>9. Had(k)' = Had(k)
    BY <1>1, <2>1 DEF cacheVars, Had, Outgrown, ContainerFull
  <2>10. QED
    BY <1>1, <2>3, <2>8, <2>9
<1>10. CASE IngestRecord(w)
  <2> DEFINE a == Largest(f.page)
             g == [f EXCEPT !.page = f.page \ {a}]
  <2>1. /\ fetch' = [fetch EXCEPT ![w] = g] /\ AppendRecord(k, a) /\ f.step = "ingest" /\ f.page # {}
        /\ ~ CutOff(w)
    BY <1>7, <1>10 DEF IngestRecord, Advance, At
  <2>2. f.page \subseteq Ages /\ IsFiniteSet(f.page)
    BY <1>3 DEF Fetch, Progress
  <2>3. a \in Ages
    <3>1. f.page \subseteq Nat
      BY <2>2, DepthsAssumption DEF Ages
    <3>2. QED
      BY <2>1, <2>2, <3>1, LargestIsGreatest
  <2>4. g.emptied = f.emptied
    BY <1>2 DEF Fetch
  <2>5. fetch'[w] = g
    BY <1>4, <2>1
  <2>6. f.emptied = FALSE
    BY <1>6, <2>4, <2>5 DEF Counts
  <2>7. ReadTo(f, Remote[k], Had(k))
    BY <1>5, <2>6
  <2>8. k[1] \in bound
    BY <1>1, <2>1 DEF CutOff, CurrentLoadsOfBoundNodes
  <2>9. PICK j, x : j = k /\ x = a
    OBVIOUS
  <2>10. Had(j) \subseteq Had(j)' /\ x \in Had(j)'
    <3>1. j \in Keys /\ x \in Ages /\ AppendRecord(j, x)
      BY <1>2, <2>1, <2>3, <2>9
    <3>2. QED
      BY <2>8, <2>9, <3>1, AppendGrows
  <2>11. PICK more : more = Had(j)'
    OBVIOUS
  <2>12. Had(k) \cup {a} \subseteq more
    BY <2>9, <2>10, <2>11
  <2>13. ReadTo(g, Remote[k], more)
    <3> HIDE DEF f, k, a
    <3>1. QED
      BY <1>2, <2>1, <2>7, <2>12, ReadToIngested
  <2> HIDE DEF g
  <2>14. worker'[w].key = j
    BY <1>1, <2>9
  <2>15. ReadTo(fetch'[w], Remote[j], Had(j)')
    BY <2>5, <2>9, <2>11, <2>13
  <2>16. QED
    BY <2>14, <2>15
<1>11. CASE FinishPage(w)
  <2> DEFINE g == [f EXCEPT !.step = "check", !.pageTo = f.oldest, !.full = FALSE, !.oldest = 0]
  <2>1. fetch' = [fetch EXCEPT ![w] = g] /\ UNCHANGED cacheVars /\ f.step = "ingest" /\ f.page = {}
    BY <1>7, <1>11 DEF FinishPage, Advance, At, NextTo
  <2>2. g.emptied = f.emptied
    BY <1>2 DEF Fetch
  <2>3. fetch'[w] = g
    BY <1>4, <2>1
  <2>4. f.emptied = FALSE
    BY <1>6, <2>2, <2>3 DEF Counts
  <2>5. ReadTo(f, Remote[k], Had(k))
    BY <1>5, <2>4
  <2>6. ReadTo(g, Remote[k], Had(k))
    <3> HIDE DEF f, k
    <3>1. PICK r, had : r = Remote[k] /\ had = Had(k)
      OBVIOUS
    <3>2. f \in Fetch /\ r \in SUBSET Nat /\ ReadTo(f, r, had) /\ f.step = "ingest" /\ f.page = {}
      BY <1>2, <2>1, <2>5, <3>1
    <3>3. ReadTo([f EXCEPT !.step = "check", !.pageTo = f.oldest, !.full = FALSE, !.oldest = 0], r, had)
      BY <3>2, ReadToTurned
    <3>4. QED
      BY <3>1, <3>3
  <2> HIDE DEF g
  <2>7. Had(k)' = Had(k)
    BY <1>1, <2>1 DEF cacheVars, Had, Outgrown, ContainerFull
  <2>8. QED
    BY <1>1, <2>3, <2>6, <2>7
<1>12. QED
  BY <1>7, <1>8, <1>9, <1>10, <1>11 DEF LoadProgress

\* Nobody touches this load, nor takes away what it has read.
Undisturbed(w) ==
  /\ worker'[w] = worker[w] /\ generation' = generation /\ fetch'[w] = fetch[w]
  /\ Counts(w) => Had(worker[w].key) \subseteq Had(worker[w].key)'

\* A load nobody touches has read what it had.
LEMMA UndisturbedRead ==
  ASSUME NEW w \in Workers, Undisturbed(w), Counts(w)',
         Counts(w) => ReadTo(fetch[w], Remote[worker[w].key], Had(worker[w].key))
  PROVE  ReadTo(fetch[w], Remote[worker[w].key], Had(worker[w].key))'
<1>1. PICK k, f : k = worker[w].key /\ f = fetch[w]
  OBVIOUS
<1>2. worker'[w].key = k /\ fetch'[w] = f
  BY <1>1 DEF Undisturbed
<1>3. Counts(w)
  BY DEF Undisturbed, Counts, MarkedBy
<1>4. Had(k) \subseteq Had(k)'
  BY <1>1, <1>2, <1>3 DEF Undisturbed
<1>5. ReadTo(f, Remote[k], Had(k)')
  BY <1>1, <1>3, <1>4, ReadToGrows
<1>6. QED
  BY <1>2, <1>5

\* The loads of a generation that is over do not count.
LEMMA NewGenerationCountsNone ==
  ASSUME TypeOK, NoneAhead, generation' = generation + 1, worker' = worker, NEW w \in Workers
  PROVE  ~ Counts(w)'
<1>1. worker[w].gen <= generation /\ generation \in Nat
  BY DEF NoneAhead, TypeOK
<1>2. worker[w].gen # generation + 1
  <2>1. CASE worker[w] = Idle
    BY <1>1, <2>1 DEF Idle
  <2>2. CASE worker[w] # Idle
    <3>1. worker[w].gen \in Nat
      BY <2>2, BoundsAssumption DEF TypeOK, Worker
    <3>2. QED
      BY <1>1, <3>1
  <2>3. QED
    BY <2>1, <2>2
<1>3. QED
  BY <1>2 DEF Counts, MarkedBy

\* A load whose container is dropped no longer counts; the others keep theirs.
LEMMA ForgetRead ==
  ASSUME TypeOK, CachesTyped, FetchTyped, NEW gone \in SUBSET Keys, fetch' = FetchWithout(gone),
         worker' = worker, generation' = generation,
         \A k \in Keys \ gone : cached'[k] = cached[k], NEW w \in Workers, Counts(w)'
  PROVE  Undisturbed(w)
<1>1. worker[w].pc = "fetch" /\ worker[w].gen = generation /\ fetch'[w].emptied = FALSE
  <2>1. fetch'[w] = IF worker[w].pc = "fetch" /\ worker[w].gen = generation /\ worker[w].key \in gone
                    THEN [fetch[w] EXCEPT !.emptied = TRUE]
                    ELSE fetch[w]
    BY DEF FetchWithout
  <2>2. fetch[w] \in Fetch
    BY DEF FetchTyped, Progress
  <2>3. fetch'[w].emptied \in BOOLEAN
    BY <2>1, <2>2 DEF Fetch
  <2>4. QED
    BY <2>3 DEF Counts, MarkedBy
<1>2. worker[w].key \in Keys
  BY <1>1, ReadingType
<1>3. worker[w].key \notin gone
  <2>1. SUFFICES ASSUME worker[w].key \in gone PROVE FALSE
    OBVIOUS
  <2>2. fetch'[w] = [fetch[w] EXCEPT !.emptied = TRUE]
    BY <1>1, <2>1 DEF FetchWithout
  <2>3. fetch[w] \in Fetch
    BY DEF FetchTyped, Progress
  <2>4. fetch'[w].emptied = TRUE
    BY <2>2, <2>3 DEF Fetch
  <2>5. QED
    BY <1>1, <2>4
<1>4. fetch'[w] = fetch[w]
  BY <1>1, <1>3 DEF FetchWithout
<1>5. PICK k : k = worker[w].key
  OBVIOUS
<1>6. Had(k)' = Had(k)
  BY <1>2, <1>3, <1>5 DEF Had, Outgrown, ContainerFull
<1>7. QED
  BY <1>4, <1>5, <1>6 DEF Undisturbed

\* Loads do not disturb each other.
LEMMA OthersUndisturbed ==
  ASSUME TypeOK, CachesTyped, FetchTyped, NEW v \in Workers, LoadProgress(v),
         NEW w \in Workers, w # v
  PROVE  Undisturbed(w)
<1>1. worker'[w] = worker[w] /\ generation' = generation
  <2>1. UNCHANGED vars \/ FinishFetch(v) \/ ReleaseLoad(v) \/ CompleteHistoryFetch(v)
    BY LoadProgressImplements
  <2>2. worker \in [Workers -> Worker]
    BY DEF TypeOK
  <2>3. QED
    BY <2>1, <2>2 DEF vars, loadVars, FinishFetch, ReleaseLoad, CompleteHistoryFetch
<1>2. fetch'[w] = fetch[w]
  <2>1. fetch' = fetch \/ \E p : fetch' = [fetch EXCEPT ![v] = p]
    BY DEF LoadProgress, CheckRoom, RequestPage, RequestFails, IngestRecord, FinishPage,
      ContainerReleased, LoadCounted, Completed, GivenUp, Advance, windowVars
  <2>2. fetch \in [Workers -> Progress]
    BY DEF FetchTyped
  <2>3. QED
    BY <2>1, <2>2
<1>3. ASSUME Counts(w) PROVE Had(worker[w].key) \subseteq Had(worker[w].key)'
  <2>1. PICK k : k = worker[w].key
    OBVIOUS
  <2>2. k \in Keys
    BY <1>3, <2>1, ReadingType DEF Counts
  <2>3. Had(k) \subseteq Had(k)'
    <3>1. CASE Stays \/ Marks(v)
      BY <3>1 DEF Stays, Marks, cacheVars, Had, Outgrown, ContainerFull
    <3>2. CASE Appends(v)
      <4>1. PICK j, x : j = worker[v].key /\ x = Largest(fetch[v].page)
        OBVIOUS
      <4>2. worker[v].pc = "fetch" /\ fetch[v].page # {} /\ AppendRecord(j, x)
        BY <3>2, <4>1 DEF Appends, At
      <4>3. j \in Keys
        BY <4>1, <4>2, ReadingType
      <4>4. fetch[v].page \subseteq Ages /\ IsFiniteSet(fetch[v].page)
        BY DEF FetchTyped, Progress, Fetch
      <4>5. fetch[v].page \subseteq Nat
        BY <4>4, DepthsAssumption DEF Ages
      <4>6. x \in Ages
        BY <4>1, <4>2, <4>4, <4>5, LargestIsGreatest
      <4>7. QED
        BY <2>2, <4>2, <4>3, <4>6, AppendGrows
    <3>3. QED
      BY <3>1, <3>2, LoadEffect
  <2>4. QED
    BY <1>1, <2>1, <2>3
<1>4. QED
  BY <1>1, <1>2, <1>3 DEF Undisturbed

\* A load that starts has asked for nothing yet.
LEMMA StartedRead ==
  ASSUME TypeOK, CachesTyped, FetchTyped, NEW l \in launches, NEW v \in Workers, LoadStarted(l, v),
         NEW w \in Workers
  PROVE  Undisturbed(w) \/ ReadTo(fetch[w], Remote[worker[w].key], Had(worker[w].key))'
<1>1. l \in Launch /\ worker \in [Workers -> Worker] /\ fetch \in [Workers -> Progress]
  BY DEF TypeOK, FetchTyped
<1> DEFINE g == [NoFetch EXCEPT !.from = l.from, !.to = l.to, !.pageTo = l.to, !.always = l.always]
<1>2. /\ worker' = [worker EXCEPT ![v] = [pc |-> "fetch", key |-> l.key, gen |-> l.gen]]
      /\ fetch' = [fetch EXCEPT ![v] = g] /\ generation' = generation /\ cached' = cached
  BY DEF LoadStarted, StartLoad, cacheVars
<1>3. g \in Fetch /\ g.step = "check" /\ g.pageTo = g.to
  <2>1. g \in Progress
    BY <1>1, NoFetchType
  <2>2. g.step = "check" /\ g.pageTo = g.to
    BY DEF NoFetch
  <2>3. QED
    BY <2>1, <2>2 DEF Progress
<1> HIDE DEF g
<1>4. CASE w = v
  <2>1. worker'[w].key = l.key /\ fetch'[w] = g
    BY <1>1, <1>2, <1>4
  <2>2. Remote[l.key] \in SUBSET Nat
    <3>1. l.key \in Keys
      BY <1>1 DEF Launch
    <3>2. Remote[l.key] \in SUBSET Ages
      BY <3>1, RemoteAssumption
    <3>3. QED
      BY <3>2, DepthsAssumption DEF Ages
  <2>3. PICK k : k = l.key
    OBVIOUS
  <2>4. ReadTo(g, Remote[k], Had(k)')
    BY <1>3, <2>2, <2>3, ReadToStarts
  <2>5. worker'[w].key = k
    BY <2>1, <2>3
  <2>6. QED
    BY <2>1, <2>4, <2>5
<1>5. CASE w # v
  <2>1. worker'[w] = worker[w] /\ fetch'[w] = fetch[w]
    BY <1>1, <1>2, <1>5
  <2>2. PICK k : k = worker[w].key
    OBVIOUS
  <2>3. Had(k)' = Had(k)
    BY <1>2 DEF Had, Outgrown, ContainerFull
  <2>4. QED
    BY <1>2, <2>1, <2>2, <2>3 DEF Undisturbed
<1>6. QED
  BY <1>4, <1>5

\* Every load that counts stays in agreement with what is cached
\* (fetchDozzleHistoryWithCachePolicy).
LEMMA WindowsReadStep ==
  ASSUME TypeOK, NoneAhead, CachesTyped, FetchTyped, CurrentLoadsOfBoundNodes, WindowsRead,
         [WindowNext]_allVars
  PROVE  WindowsRead'
<1> DEFINE Kept(w) == ReadTo(fetch[w], Remote[worker[w].key], Had(worker[w].key))
           Fine(w) == ~ Counts(w)' \/ Undisturbed(w) \/ Kept(w)'
<1>1. ASSUME NEW w \in Workers, worker' = worker, generation' = generation, fetch' = fetch, cached' = cached
      PROVE  Fine(w)
  <2>1. PICK k : k = worker[w].key
    OBVIOUS
  <2>2. Had(k)' = Had(k)
    BY <1>1 DEF Had, Outgrown, ContainerFull
  <2>3. QED
    BY <1>1, <2>1, <2>2 DEF Undisturbed
<1>2. ASSUME NEW w \in Workers, worker' = worker, generation' = generation + 1 PROVE Fine(w)
  BY <1>2, NewGenerationCountsNone
<1>3. ASSUME NEW n \in Nodes, NodeAdded(n) \/ HostLearnt(n) \/ ContainersCommitted(n), NEW w \in Workers
      PROVE  Fine(w)
  <2>1. worker' = worker /\ generation' = generation /\ fetch' = fetch /\ cached' = cached
    BY <1>3 DEF NodeAdded, HostLearnt, ContainersCommitted, AddNode, SetNodeHost, CommitContainers, loadVars,
      windowVars, cacheVars
  <2>2. QED
    BY <1>1, <2>1
<1>4. ASSUME NEW n \in Nodes, NodeUpdated(n) \/ NodeUnbound(n), NEW w \in Workers PROVE Fine(w)
  <2>1. worker' = worker /\ generation' = generation + 1
    BY <1>4 DEF NodeUpdated, NodeUnbound, UpdateNode, UnbindNode, NextGeneration
  <2>2. QED
    BY <1>2, <2>1
<1>5. ASSUME NEW n \in Nodes, NEW listed \in Reports, ContainersPurged(n, listed), NEW w \in Workers
      PROVE  Fine(w)
  <2>1. worker' = worker /\ generation' = generation
    BY <1>5 DEF ContainersPurged, PurgeNodeHistory, loadVars
  <2>2. CASE ListChanged(n, listed)
    <3>1. PICK gone : gone = {k \in KeysOf(n) : k[2] \notin listed}
      OBVIOUS
    <3>2. gone \in SUBSET Keys
      BY <3>1 DEF KeysOf, Keys
    <3>3. Forget(gone) /\ fetch' = FetchWithout(gone)
      BY <1>5, <2>2, <3>1 DEF ContainersPurged
    <3>4. \A k \in Keys \ gone : cached'[k] = cached[k]
      BY <3>3 DEF Forget
    <3>5. QED
      BY <2>1, <3>2, <3>3, <3>4, ForgetRead
  <2>3. CASE ~ ListChanged(n, listed)
    <3>1. fetch' = fetch /\ cached' = cached
      BY <1>5, <2>3 DEF ContainersPurged
    <3>2. QED
      BY <1>1, <2>1, <3>1
  <2>4. QED
    BY <2>2, <2>3
<1>6. ASSUME NEW r, NEW req, RangeRequested(r, req), NEW w \in Workers PROVE Fine(w)
  <2>1. worker' = worker /\ generation' = generation + 1
    BY <1>6 DEF RangeRequested, HandleLogRange, NextGeneration
  <2>2. QED
    BY <1>2, <2>1
<1>7. ASSUME NEW k, NEW r, ContainerPolled(k, r), NEW w \in Workers PROVE Fine(w)
  <2>1. worker' = worker /\ generation' = generation /\ fetch' = fetch /\ cached' = cached
    BY <1>7 DEF ContainerPolled, EnsureContainerHistory, loadVars, windowVars, cacheVars
  <2>2. QED
    BY <1>1, <2>1
<1>8. ASSUME NEW k, StreamStarted(k), NEW w \in Workers PROVE Fine(w)
  <2>1. worker' = worker /\ generation' = generation /\ fetch' = fetch /\ cached' = cached
    BY <1>8 DEF StreamStarted, StartContainerStream, loadVars, cacheVars
  <2>2. QED
    BY <1>1, <2>1
<1>9. ASSUME LogCacheCleared, NEW w \in Workers PROVE Fine(w)
  <2>1. worker' = worker /\ generation' = generation /\ fetch' = FetchWithout(Keys)
    BY <1>9 DEF LogCacheCleared, vars, loadVars
  <2>2. QED
    BY <2>1, ForgetRead
<1>10. ASSUME NEW l, LaunchRefused(l), NEW w \in Workers PROVE Fine(w)
  <2>1. worker' = worker /\ generation' = generation /\ fetch' = fetch /\ cached' = cached
    BY <1>10 DEF LaunchRefused, RefuseLaunch, loadVars, windowVars, cacheVars
  <2>2. QED
    BY <1>1, <2>1
<1>11. ASSUME NEW l \in launches, NEW v \in Workers, LoadStarted(l, v), NEW w \in Workers PROVE Fine(w)
  BY <1>11, StartedRead
<1>12. ASSUME NEW v \in Workers, LoadProgress(v), NEW w \in Workers PROVE Fine(w)
  <2>1. CASE w = v
    BY <1>12, <2>1, ProgressRead DEF WindowsRead
  <2>2. CASE w # v
    BY <1>12, <2>2, OthersUndisturbed
  <2>3. QED
    BY <2>1, <2>2
<1>13. ASSUME UNCHANGED allVars, NEW w \in Workers PROVE Fine(w)
  <2>1. worker' = worker /\ generation' = generation /\ fetch' = fetch /\ cached' = cached
    BY <1>13 DEF allVars, vars, loadVars, windowVars, cacheVars
  <2>2. QED
    BY <1>1, <2>1
<1>14. ASSUME NEW w \in Workers PROVE Fine(w)
  <2> HIDE DEF Fine
  <2>1. QED
    BY <1>3, <1>4, <1>5, <1>6, <1>7, <1>8, <1>9, <1>10, <1>11, <1>12, <1>13, Zenon
       DEF WindowNext, LoadProgress
<1>15. ASSUME NEW w \in Workers, Counts(w)' PROVE Kept(w)'
  <2>1. Counts(w) => Kept(w)
    BY DEF WindowsRead
  <2>2. Undisturbed(w) => Kept(w)'
    BY <1>15, <2>1, UndisturbedRead
  <2>3. QED
    BY <1>14, <1>15, <2>2
<1>16. QED
  BY <1>15 DEF WindowsRead
-----------------------------------------------------------------------------
(***************************************************************************)
(* The invariant of the loads and the caches, and what follows from it.    *)
(***************************************************************************)
WindowKept ==
  /\ Ownership
  /\ FetchTyped
  /\ ConnectionsTyped
  /\ CachesKept
  /\ CurrentLoadsOfBoundNodes
  /\ NothingOfUnboundNodes
  /\ WindowsRead

\* A server starts with nothing loaded.
LEMMA WindowKeptInit == WindowInit => WindowKept
<1> SUFFICES ASSUME WindowInit PROVE WindowKept
  OBVIOUS
<1>1. Ownership
  BY OwnershipInit DEF WindowInit
<1>2. FetchTyped
  BY NoFetchType DEF WindowInit, FetchTyped
<1>3. ConnectionsTyped
  BY MaxMishapsAssumption DEF WindowInit, ConnectionsTyped
<1>4. /\ shared = <<>> /\ cached = [k \in Keys |-> {}] /\ coverage = [k \in Keys |-> 0]
      /\ launches = {} /\ worker = [w \in Workers |-> Idle]
  BY DEF WindowInit, Init
<1>5. CachesKept
  <2>1. /\ <<>> \in Seq(Entry) /\ Len(<<>>) = 0 /\ DOMAIN <<>> = {} /\ SharedCapacity \in Nat
    BY SizesAssumption
  <2>2. Len(<<>>) <= SharedCapacity
    BY <2>1
  <2>3. IsFiniteSet({}) /\ Cardinality({}) <= ContainerCapacity
    BY FS_EmptySet, SizesAssumption
  <2>4. CachesTyped
    BY <1>4, <2>1, <2>2, <2>3, DepthsAssumption DEF CachesTyped
  <2>5. SharedIsSorted /\ SharedIsRemembered /\ SharedHasNoDuplicates
    BY <1>4, <2>1 DEF SharedIsSorted, SharedIsRemembered, SharedHasNoDuplicates
  <2>6. QED
    BY <2>4, <2>5 DEF CachesKept
<1>6. \A w \in Workers : worker[w].pc = "idle"
  BY <1>4 DEF Idle
<1>7. CurrentLoadsOfBoundNodes
  BY <1>4, <1>6 DEF CurrentLoadsOfBoundNodes
<1>8. NothingOfUnboundNodes
  BY <1>4 DEF NothingOfUnboundNodes
<1>9. WindowsRead
  BY <1>6 DEF WindowsRead, Counts
<1>10. QED
  BY <1>1, <1>2, <1>3, <1>5, <1>7, <1>8, <1>9 DEF WindowKept

\* Every step keeps it.
LEMMA WindowKeptStep == WindowKept /\ [WindowNext]_allVars => WindowKept'
<1> SUFFICES ASSUME WindowKept, [WindowNext]_allVars PROVE WindowKept'
  OBVIOUS
<1>1. /\ Ownership /\ FetchTyped /\ ConnectionsTyped /\ CachesKept /\ CurrentLoadsOfBoundNodes
      /\ NothingOfUnboundNodes /\ WindowsRead
  BY DEF WindowKept
<1>2. TypeOK /\ NoneAhead /\ CachesTyped
  BY <1>1 DEF Ownership, CachesKept
<1>3. [Next]_vars
  BY <1>2, StepImplements
<1>4. CacheEffect
  BY StepEffect
<1>5. Ownership'
  BY <1>1, <1>3, OwnershipStep
<1>6. FetchTyped' /\ ConnectionsTyped'
  BY <1>1, <1>2, TypesStep
<1>7. CachesKept'
  BY <1>1, <1>2, <1>4, CachesStep
<1>8. CurrentLoadsOfBoundNodes'
  BY <1>1, <1>2, <1>3, CurrentLoadsStep
<1>9. NothingOfUnboundNodes'
  BY <1>1, <1>2, <1>4, UnboundStep
<1>10. WindowsRead'
  BY <1>1, <1>2, WindowsReadStep
<1>11. QED
  BY <1>5, <1>6, <1>7, <1>8, <1>9, <1>10 DEF WindowKept

\* The loads, the caches and the nodes stay in agreement.
THEOREM WindowIsKept == WindowSpec => []WindowKept
  BY WindowKeptInit, WindowKeptStep, PTL DEF WindowSpec

\* Every behaviour with data is one of the control alone: the page loop, whatever
\* is cached or dropped under it, takes no step that HistoryLoads does not allow.
\* (That the loads end as HistoryLoads says is left to TLC.)
THEOREM LoadsImplementedSafely == WindowSpec => Init /\ [][Next]_vars
<1>1. WindowInit => Init
  BY DEF WindowInit
<1>2. WindowKept /\ [WindowNext]_allVars => [Next]_vars
  BY StepImplements DEF WindowKept, CachesKept
<1>3. QED
  BY <1>1, <1>2, WindowIsKept, PTL DEF WindowSpec

\* The registry of loads is sound under the real page loop
\* (launchHistoryFetchWindow, completeHistoryFetch).
THEOREM RegistryIsSoundWithData == WindowSpec => []RegistryIsSound
<1>1. WindowKept => RegistryIsSound
  BY DEF WindowKept, Ownership, RegistryIsSound
<1>2. QED
  BY <1>1, WindowIsKept, PTL

\* The two caches agree with each other and with the nodes that are there
\* (appendRemoteLogLocked, insertNewestLog, unbindNode, updateNode).
THEOREM CachesAlwaysSound == WindowSpec => []CachesAreSound
<1>1. WindowKept => CachesAreSound
  <2> SUFFICES ASSUME WindowKept PROVE CachesAreSound
    OBVIOUS
  <2>1. FetchTyped /\ ConnectionsTyped /\ CachesKept /\ NothingOfUnboundNodes
    BY DEF WindowKept
  <2>2. fetch \in [Workers -> Fetch]
    BY <2>1 DEF FetchTyped, Progress
  <2>3. shared \in Seq([key : Keys, age : Ages]) /\ Len(shared) <= SharedCapacity
    BY <2>1 DEF CachesKept, CachesTyped, Entry
  <2>4. WindowTypeOK
    BY <2>1, <2>2, <2>3 DEF WindowTypeOK, ConnectionsTyped, CachesKept, CachesTyped
  <2>5. QED
    BY <2>1, <2>4 DEF CachesAreSound, CachesKept
<1>2. QED
  BY <1>1, WindowIsKept, PTL

\* Only a load marks a container as covered.
LEMMA OnlyLoadsMark ==
  ASSUME TypeOK, CachesTyped, [WindowNext]_allVars, NEW k \in Keys, coverage'[k] > coverage[k]
  PROVE  \E w \in Workers : LoadProgress(w)
<1>1. coverage[k] \in Nat
  BY DepthsAssumption DEF CachesTyped
<1>2. coverage' # coverage /\ coverage'[k] # 0
  BY <1>1
<1>3. ASSUME NEW gone PROVE ~ Forget(gone)
  BY <1>1 DEF Forget
<1>4. ~ EmptyCaches
  BY <1>2 DEF EmptyCaches
<1>5. ASSUME NEW n \in Nodes, NodeAdded(n) \/ HostLearnt(n) \/ NodeUpdated(n) \/ NodeUnbound(n)
                              \/ ContainersCommitted(n)
      PROVE  FALSE
  BY <1>2, <1>3, <1>5 DEF NodeAdded, HostLearnt, NodeUpdated, NodeUnbound, ContainersCommitted, DropNode,
    windowVars, cacheVars
<1>6. ASSUME NEW n \in Nodes, NEW listed \in Reports, ContainersPurged(n, listed) PROVE FALSE
  BY <1>2, <1>3, <1>6 DEF ContainersPurged
<1>7. ASSUME NEW r, NEW req, RangeRequested(r, req) PROVE FALSE
  BY <1>2, <1>4, <1>7 DEF RangeRequested, cacheVars
<1>8. ASSUME NEW j, NEW r, ContainerPolled(j, r) PROVE FALSE
  BY <1>2, <1>8 DEF ContainerPolled, windowVars, cacheVars
<1>9. ASSUME NEW j, StreamStarted(j) PROVE FALSE
  BY <1>2, <1>9 DEF StreamStarted, cacheVars
<1>10. ~ LogCacheCleared
  BY <1>4 DEF LogCacheCleared
<1>11. ASSUME NEW l, LaunchRefused(l) PROVE FALSE
  BY <1>2, <1>11 DEF LaunchRefused, windowVars, cacheVars
<1>12. ASSUME NEW l, NEW w, LoadStarted(l, w) PROVE FALSE
  BY <1>2, <1>12 DEF LoadStarted, cacheVars
<1>13. ~ UNCHANGED allVars
  BY <1>2 DEF allVars, windowVars, cacheVars
<1>14. QED
  BY <1>5, <1>6, <1>7, <1>8, <1>9, <1>10, <1>11, <1>12, <1>13, Zenon DEF WindowNext, LoadProgress

\* A load that marks its window has read all of it, or stopped for want of room.
LEMMA MarkedRead ==
  ASSUME TypeOK, FetchTyped, CachesTyped, WindowsRead, NEW w \in Workers, LoadProgress(w),
         coverage' # coverage
  PROVE  LET f == fetch[w]
             k == worker[w].key
         IN  /\ worker[w].pc = "fetch"
             /\ coverage' = [coverage EXCEPT ![k] = Largest({coverage[k], f.from})]
             /\ cached' = cached
             /\ \/ f.emptied
                \/ ~ f.always /\ SharedFull
                \/ \A a \in Remote[k] : f.to < a /\ a <= f.from => a \in Had(k)
<1> DEFINE f == fetch[w]
           k == worker[w].key
           Done == \A a \in Remote[k] : f.to < a /\ a <= f.from => a \in Had(k)
<1>1. ~ GivenUp(w) /\ ~ RequestFails(w) /\ ~ ContainerReleased(w) /\ ~ LoadCounted(w) /\ ~ UNCHANGED cacheVars
  BY DEF GivenUp, RequestFails, ContainerReleased, LoadCounted, windowVars, cacheVars
<1>2. ~ IngestRecord(w)
  BY <1>1 DEF IngestRecord, AppendRecord, cacheVars
<1>3. Completed(w)
  BY <1>1, <1>2 DEF LoadProgress, CheckRoom, RequestPage, FinishPage
<1>4. /\ MarkedBy(w) /\ worker[w].pc = "fetch" /\ cached' = cached
      /\ coverage' = [coverage EXCEPT ![k] = Largest({coverage[k], f.from})]
  BY <1>3 DEF Completed, FinishFetch
<1>5. k \in Keys /\ f \in Fetch /\ Remote[k] \in SUBSET Nat
  BY <1>4, ReadingType
<1>6. ASSUME ~ f.emptied, ~ (~ f.always /\ SharedFull) PROVE Done
  <2>1. ReadTo(f, Remote[k], Had(k))
    BY <1>4, <1>6 DEF WindowsRead, Counts
  <2>2. ~ CheckRoom(w)
    BY <1>1, <1>6 DEF CheckRoom
  <2>3. CASE RequestPage(w)
    <3>1. Newest(Asked(w), PageSize) = {}
      BY <1>1, <2>3 DEF RequestPage, Asked
    <3>2. Asked(w) = {}
      BY <1>4, <3>1, AskedType, PageIsNewest, SizesAssumption
    <3>3. \A a \in Remote[k] : ~ (f.pageTo < a /\ a <= f.from)
      BY <3>2 DEF Asked
    <3>4. \A a \in Remote[k] : f.to < a /\ a <= f.pageTo => a \in Had(k)
      BY <2>1 DEF ReadTo
    <3>5. f.pageTo \in Nat
      BY <1>5, DepthsAssumption DEF Fetch
    <3> HIDE DEF f, k
    <3>6. ASSUME NEW a \in Remote[k], f.to < a, a <= f.from PROVE a \in Had(k)
      <4>1. a \in Nat
        BY <1>5
      <4>2. a <= f.pageTo
        BY <3>3, <3>5, <3>6, <4>1
      <4>3. QED
        BY <3>4, <3>6, <4>2
    <3>7. QED
      BY <3>6
  <2>4. CASE FinishPage(w)
    <3>1. f.step = "ingest" /\ f.page = {} /\ (~ f.full \/ f.oldest \notin f.pageTo + 1 .. f.from - 1)
      BY <1>1, <1>6, <2>4 DEF FinishPage, At, NextTo
    <3> HIDE DEF f, k
    <3>2. PICK r, had : r = Remote[k] /\ had = Had(k)
      OBVIOUS
    <3>3. f \in Fetch /\ r \in SUBSET Nat /\ ReadTo(f, r, had) /\ f.step = "ingest" /\ f.page = {}
      BY <1>5, <2>1, <3>1, <3>2
    <3>4. \A a \in r : f.to < a /\ a <= f.from => a \in had
      BY <3>1, <3>3, ReadToTurned
    <3>5. QED
      BY <3>2, <3>4
  <2>5. QED
    BY <1>1, <1>2, <2>2, <2>3, <2>4 DEF LoadProgress
<1>7. QED
  BY <1>4, <1>6

\* The load that accounts for the new mark of container k.
WindowMarked(k) ==
  \E w \in Workers :
    /\ worker[w].key = k /\ fetch[w].from = coverage'[k]
    /\ \/ fetch[w].emptied
       \/ ~ fetch[w].always /\ SharedFull
       \/ \A a \in Remote[k] : fetch[w].to < a /\ a <= fetch[w].from
            => a \in cached'[k] \/ Outgrown(k, a)'

\* A window is marked as covered only once what is there of it has been read and
\* put in its container's list, as far as that reaches
\* (fetchDozzleHistoryWithCachePolicy, markHistoryCoverage).
THEOREM MarkedWindowAlwaysCached == WindowSpec => MarkedWindowIsCached
<1> DEFINE Step == \A k \in Keys : coverage'[k] > coverage[k] => WindowMarked(k)
<1>1. WindowKept /\ [WindowNext]_allVars => Step
  <2> SUFFICES ASSUME WindowKept, [WindowNext]_allVars, NEW k \in Keys, coverage'[k] > coverage[k]
               PROVE  WindowMarked(k)
    OBVIOUS
  <2>1. TypeOK /\ FetchTyped /\ CachesTyped /\ WindowsRead
    BY DEF WindowKept, Ownership, CachesKept
  <2>2. PICK w \in Workers : LoadProgress(w)
    BY <2>1, OnlyLoadsMark
  <2>3. coverage[k] \in Nat /\ coverage' # coverage
    <3>1. coverage[k] \in Nat
      BY <2>1, DepthsAssumption DEF CachesTyped
    <3>2. QED
      BY <3>1
  <2>4. /\ worker[w].pc = "fetch"
        /\ coverage' = [coverage EXCEPT ![worker[w].key] = Largest({coverage[worker[w].key], fetch[w].from})]
        /\ cached' = cached
        /\ \/ fetch[w].emptied
           \/ ~ fetch[w].always /\ SharedFull
           \/ \A a \in Remote[worker[w].key] : fetch[w].to < a /\ a <= fetch[w].from
                => a \in Had(worker[w].key)
    BY <2>1, <2>2, <2>3, MarkedRead
  <2>5. worker[w].key = k
    <3>1. worker[w].key # k => coverage'[k] = coverage[k]
      BY <2>1, <2>4 DEF CachesTyped
    <3>2. QED
      BY <2>3, <3>1
  <2>6. coverage'[k] = Largest({coverage[k], fetch[w].from})
    BY <2>1, <2>4, <2>5 DEF CachesTyped
  <2>7. fetch[w].from \in Nat
    BY <2>1, RangesAssumption DEF FetchTyped, Progress, Fetch
  <2>8. Largest({coverage[k], fetch[w].from}) \in {coverage[k], fetch[w].from} \cup {0}
    <3>1. IsFiniteSet({coverage[k]} \cup {fetch[w].from})
      BY FS_Singleton, FS_AddElement
    <3>2. {coverage[k]} \cup {fetch[w].from} = {coverage[k], fetch[w].from}
      OBVIOUS
    <3>3. {coverage[k], fetch[w].from} \subseteq Nat
      BY <2>3, <2>7
    <3>4. QED
      BY <3>1, <3>2, <3>3, LargestIsGreatest
  <2>9. fetch[w].from = coverage'[k]
    BY <2>3, <2>6, <2>8
  <2>10. \A a : a \in Had(k) => a \in cached'[k] \/ Outgrown(k, a)'
    BY <2>4 DEF Had, Outgrown, ContainerFull
  <2>11. QED
    BY <2>4, <2>5, <2>9, <2>10 DEF WindowMarked
<1>2. WindowKept /\ [WindowNext]_allVars => [Step]_allVars
  BY <1>1
<1>3. MarkedWindowIsCached <=> [][Step]_allVars
  BY DEF MarkedWindowIsCached, WindowMarked
<1>4. QED
  BY <1>2, <1>3, WindowIsKept, PTL DEF WindowSpec

\* A load of an earlier generation that goes on leaves the caches alone.
LEMMA StaleLoadIsQuiet ==
  ASSUME NEW w \in Workers, LoadProgress(w), worker[w].gen # generation
  PROVE  UNCHANGED cacheVars
<1>1. ~ MarkedBy(w) /\ CutOff(w)
  BY DEF MarkedBy, CutOff
<1>2. Completed(w) => UNCHANGED cacheVars
  BY <1>1 DEF Completed, cacheVars
<1>3. GivenUp(w) => UNCHANGED cacheVars
  BY DEF GivenUp
<1>4. QED
  BY <1>1, <1>2, <1>3 DEF LoadProgress, CheckRoom, RequestPage, RequestFails, IngestRecord, FinishPage,
    ContainerReleased, LoadCounted, windowVars

\* Whoever makes progress as a load of an earlier request leaves the caches as they
\* are.
StaleIsQuiet(w) ==
  worker[w].gen # generation /\ fetch'[w] # fetch[w]
    => \/ worker[w] = Idle
       \/ UNCHANGED cacheVars

\* No step lets a load of an earlier generation write.
LEMMA StaleStep ==
  ASSUME TypeOK, FetchTyped, [WindowNext]_allVars, NEW w \in Workers
  PROVE  StaleIsQuiet(w)
<1>1. ASSUME fetch' = fetch PROVE StaleIsQuiet(w)
  BY <1>1 DEF StaleIsQuiet
<1>2. ASSUME NEW gone, fetch' = FetchWithout(gone) PROVE StaleIsQuiet(w)
  <2>1. worker[w].gen # generation => fetch'[w] = fetch[w]
    BY <1>2 DEF FetchWithout
  <2>2. QED
    BY <2>1 DEF StaleIsQuiet
<1>3. ASSUME NEW n, NodeAdded(n) \/ HostLearnt(n) \/ NodeUpdated(n) \/ NodeUnbound(n) \/ ContainersCommitted(n)
      PROVE  StaleIsQuiet(w)
  BY <1>1, <1>3 DEF NodeAdded, HostLearnt, NodeUpdated, NodeUnbound, ContainersCommitted, DropNode, windowVars
<1>4. ASSUME NEW n, NEW listed, ContainersPurged(n, listed) PROVE StaleIsQuiet(w)
  BY <1>1, <1>2, <1>4 DEF ContainersPurged
<1>5. ASSUME NEW r, NEW req, RangeRequested(r, req) PROVE StaleIsQuiet(w)
  BY <1>1, <1>5 DEF RangeRequested
<1>6. ASSUME NEW k, NEW r, ContainerPolled(k, r) PROVE StaleIsQuiet(w)
  BY <1>1, <1>6 DEF ContainerPolled, windowVars
<1>7. ASSUME NEW k, StreamStarted(k) PROVE StaleIsQuiet(w)
  BY <1>1, <1>7 DEF StreamStarted
<1>8. ASSUME LogCacheCleared PROVE StaleIsQuiet(w)
  BY <1>2, <1>8 DEF LogCacheCleared
<1>9. ASSUME NEW l, LaunchRefused(l) PROVE StaleIsQuiet(w)
  BY <1>1, <1>9 DEF LaunchRefused, windowVars
<1>10. ASSUME NEW l, NEW v \in Workers, LoadStarted(l, v) PROVE StaleIsQuiet(w)
  BY <1>10 DEF LoadStarted, StaleIsQuiet
<1>11. ASSUME NEW v \in Workers, LoadProgress(v) PROVE StaleIsQuiet(w)
  <2>1. CASE w = v
    BY <1>11, <2>1, StaleLoadIsQuiet DEF StaleIsQuiet
  <2>2. CASE w # v
    <3>1. fetch' = fetch \/ \E p : fetch' = [fetch EXCEPT ![v] = p]
      BY <1>11 DEF LoadProgress, CheckRoom, RequestPage, RequestFails, IngestRecord, FinishPage,
        ContainerReleased, LoadCounted, Completed, GivenUp, Advance, windowVars
    <3>2. fetch'[w] = fetch[w]
      BY <2>2, <3>1 DEF FetchTyped
    <3>3. QED
      BY <3>2 DEF StaleIsQuiet
  <2>3. QED
    BY <2>1, <2>2
<1>12. ASSUME UNCHANGED allVars PROVE StaleIsQuiet(w)
  BY <1>1, <1>12 DEF allVars, windowVars
<1>13. QED
  BY <1>3, <1>4, <1>5, <1>6, <1>7, <1>8, <1>9, <1>10, <1>11, <1>12, Zenon DEF WindowNext, LoadProgress

\* However late a load of an earlier request is answered, it changes neither cache
\* nor coverage (appendRemoteLogIfCurrent, markHistoryCoverage).
THEOREM StaleLoadsNeverWrite == WindowSpec => StaleLoadsWriteNothing
<1> DEFINE Step == \A w \in Workers : StaleIsQuiet(w)
<1>1. WindowKept /\ [WindowNext]_allVars => [Step]_allVars
  BY StaleStep DEF WindowKept, Ownership
<1>2. StaleLoadsWriteNothing <=> [][Step]_allVars
  BY DEF StaleLoadsWriteNothing, StaleIsQuiet
<1>3. QED
  BY <1>1, <1>2, WindowIsKept, PTL DEF WindowSpec

\* An entry that a cut list has lost, or never took up, is no newer than those that
\* stay.
LEMMA CutIsOldest ==
  ASSUME NEW logs \in Seq(Entry), Sorted(logs), Len(logs) <= SharedCapacity,
         NEW e \in Entry, NEW q, q = InsertNewest(logs, e, SharedCapacity),
         NEW x \in Entry, x = e \/ x \in Range(logs), x \notin Range(q)
  PROVE  Len(q) >= SharedCapacity /\ \A i \in DOMAIN q : q[i].age <= x.age
<1>1. SharedCapacity \in Nat \ {0} /\ Ages \subseteq Nat
  BY SizesAssumption, DepthsAssumption DEF Ages
<1>2. PICK m \in 0..Len(logs) : PlacedAt(logs, e, SharedCapacity, m)
  BY <1>1, InsertNewestPlaces
<1>3. /\ q \in Seq(Entry)
      /\ Len(q) = IF Len(logs) + 1 > SharedCapacity THEN SharedCapacity ELSE Len(logs) + 1
      /\ \A i \in 1..Len(logs) : i <= m <=> logs[i].age < e.age
      /\ \A i \in 1..Len(q) : q[i] = IF i <= m THEN logs[i] ELSE IF i = m + 1 THEN e ELSE logs[i - 1]
  BY <1>2 DEF PlacedAt
<1>4. \A i \in 1..Len(q) : q[i] # x
  BY <1>3 DEF Range
<1>5. Len(logs) \in Nat /\ Len(q) \in Nat /\ m \in Nat /\ m <= Len(logs) /\ DOMAIN q = 1..Len(q)
      /\ DOMAIN logs = 1..Len(logs)
  BY <1>3
<1>6. e.age \in Nat /\ x.age \in Nat /\ \A i \in 1..Len(logs) : logs[i] \in Entry /\ logs[i].age \in Nat
  <2>1. \A i \in 1..Len(logs) : logs[i] \in Entry
    BY <1>5
  <2>2. QED
    BY <1>1, <2>1 DEF Entry
<1>7. PICK n, l, c : n = Len(q) /\ l = Len(logs) /\ c = SharedCapacity
  OBVIOUS
<1>8. n \in Nat /\ l \in Nat /\ c \in Nat /\ m \in Nat /\ m <= l /\ l <= c
  BY <1>1, <1>5, <1>7
<1>9. n = IF l + 1 > c THEN c ELSE l + 1
  BY <1>3, <1>7
<1>10. Len(logs) = SharedCapacity /\ Len(q) = Len(logs)
      /\ \A i \in 1..Len(q) : q[i].age <= x.age
  <2>1. CASE x = e
    <3>1. m = Len(logs) /\ Len(q) = m
      <4>1. m + 1 \notin 1..Len(q)
        <5>1. m + 1 \in 1..Len(q) => q[m + 1] = e
          BY <1>3, <1>5
        <5>2. QED
          BY <1>4, <2>1, <5>1
      <4>2. m + 1 \notin 1..n
        BY <1>7, <4>1
      <4>3. m = l /\ n = m
        BY <1>8, <1>9, <4>2
      <4>4. QED
        BY <1>7, <4>3
    <3>2. Len(logs) = SharedCapacity
      <4>1. m = l /\ n = m
        BY <1>7, <3>1
      <4>2. l = c
        BY <1>8, <1>9, <4>1
      <4>3. QED
        BY <1>7, <4>2
    <3>3. ASSUME NEW i \in 1..Len(q) PROVE q[i].age <= x.age
      <4>1. i \in 1..Len(logs) /\ i <= m
        BY <1>5, <3>1
      <4>2. q[i] = logs[i]
        BY <1>3, <4>1
      <4>3. logs[i].age < e.age
        BY <1>3, <4>1
      <4>4. QED
        BY <1>6, <2>1, <4>1, <4>2, <4>3
    <3>4. QED
      BY <3>1, <3>2, <3>3
  <2>2. CASE x \in Range(logs)
    <3>1. PICK h \in 1..Len(logs) : logs[h] = x
      BY <1>5, <2>2 DEF Range
    <3>2. ~ (h <= m)
      <4>1. SUFFICES ASSUME h <= m PROVE FALSE
        OBVIOUS
      <4>2. h \in 1..Len(q)
        BY <1>1, <1>3, <1>5
      <4>3. q[h] = logs[h]
        BY <1>3, <4>1, <4>2
      <4>4. QED
        BY <1>4, <3>1, <4>2, <4>3
    <3>3. h + 1 \notin 1..Len(q)
      <4>1. SUFFICES ASSUME h + 1 \in 1..Len(q) PROVE FALSE
        OBVIOUS
      <4>2. PICK g : g = h + 1
        OBVIOUS
      <4>3. g \in 1..Len(q) /\ ~ (g <= m) /\ g # m + 1 /\ g - 1 = h
        BY <1>8, <3>2, <4>1, <4>2
      <4>4. q[g] = logs[g - 1]
        BY <1>3, <4>3
      <4>5. QED
        BY <1>4, <3>1, <4>3, <4>4
    <3>4. h = Len(logs) /\ Len(logs) = SharedCapacity /\ Len(q) = Len(logs)
      <4>1. h \in 1..l /\ h + 1 \notin 1..n
        BY <1>7, <3>3
      <4>2. h = l /\ l = c /\ n = l
        BY <1>8, <1>9, <4>1
      <4>3. QED
        BY <1>7, <4>2
    <3>5. \A i \in 1..Len(logs) : logs[i].age <= x.age
      <4>1. \A i \in 1..Len(logs) : i < h => logs[i].age <= logs[h].age
        BY <1>5 DEF Sorted
      <4>2. ASSUME NEW i \in 1..Len(logs) PROVE logs[i].age <= x.age
        <5>1. i < h \/ i = h
          BY <1>5, <3>4
        <5>2. QED
          BY <1>6, <3>1, <4>1, <5>1
      <4>3. QED
        BY <4>2
    <3>6. e.age <= x.age
      <4>1. ~ (logs[h].age < e.age)
        BY <1>3, <3>2
      <4>2. QED
        BY <1>6, <3>1, <4>1
    <3>7. ASSUME NEW i \in 1..Len(q) PROVE q[i].age <= x.age
      <4>1. CASE i <= m
        <5>1. q[i] = logs[i] /\ i \in 1..Len(logs)
          BY <1>3, <3>4, <4>1
        <5>2. QED
          BY <3>5, <5>1
      <4>2. CASE i = m + 1
        <5>1. q[i] = e
          BY <1>3, <1>5, <4>2
        <5>2. QED
          BY <3>6, <5>1
      <4>3. CASE i > m + 1
        <5>1. q[i] = logs[i - 1] /\ i - 1 \in 1..Len(logs)
          BY <1>3, <1>5, <3>4, <4>3
        <5>2. QED
          BY <3>5, <5>1
      <4>4. QED
        BY <1>5, <4>1, <4>2, <4>3
    <3>8. QED
      BY <3>4, <3>7
  <2>3. QED
    BY <2>1, <2>2
<1>11. QED
  BY <1>1, <1>5, <1>10

\* Record a of container k, if the container's list has it and the dashboard's has
\* it no longer or never had it, is no newer than all the dashboard shows.
LeftAsOldest(k, a) ==
  LET e == [key |-> k, age |-> a]
  IN  e \notin Range(shared') /\ (a \notin cached[k] \/ e \in Range(shared))
        => SharedFull' /\ \A i \in DOMAIN shared' : shared'[i].age <= a

\* Every effect of a step takes the oldest records first.
LEMMA LeaveStep ==
  ASSUME TypeOK, FetchTyped, CachesKept, CacheEffect, NEW k \in Keys, NEW a \in cached'[k]
  PROVE  LeftAsOldest(k, a)
<1>1. CachesTyped /\ SharedIsSorted
  BY DEF CachesKept
<1> DEFINE e == [key |-> k, age |-> a]
<1>2. ASSUME shared' = shared, a \in cached[k] PROVE LeftAsOldest(k, a)
  BY <1>2 DEF LeftAsOldest
<1>3. ASSUME NEW gone, Forget(gone) PROVE a \in cached[k] /\ k \notin gone
  BY <1>3 DEF Forget
<1>4. CASE Stays
  BY <1>2, <1>4 DEF Stays, cacheVars
<1>5. CASE Empties
  BY <1>5 DEF Empties, EmptyCaches
<1>6. ASSUME NEW gone, Purges(gone) PROVE LeftAsOldest(k, a)
  BY <1>2, <1>3, <1>6 DEF Purges
<1>7. ASSUME NEW w, Marks(w) PROVE LeftAsOldest(k, a)
  BY <1>2, <1>7 DEF Marks
<1>8. ASSUME NEW n \in Nodes, DropsNode(n) PROVE LeftAsOldest(k, a)
  <2>1. Forget(KeysOf(n)) /\ shared' = WithoutNode(shared, n)
    BY <1>8 DEF DropsNode
  <2>2. a \in cached[k] /\ k \notin KeysOf(n)
    BY <1>3, <2>1
  <2>3. k[1] # n
    BY <2>2 DEF KeysOf, Keys
  <2>4. PICK q : q = shared
    OBVIOUS
  <2>5. q \in Seq(Entry)
    BY <1>1, <2>4 DEF CachesTyped
  <2>6. PICK m \in 0..Len(q) : \E nth \in [1..m -> 1..Len(q)] : StaysAt(q, n, nth, m)
    BY <2>5, WithoutNodeKeeps
  <2>7. PICK nth \in [1..m -> 1..Len(q)] : StaysAt(q, n, nth, m)
    BY <2>6
  <2>8. e \in Range(shared) => e \in Range(shared')
    <3>1. SUFFICES ASSUME e \in Range(q) PROVE e \in Range(WithoutNode(q, n))
      BY <2>1, <2>4
    <3>2. PICK i \in 1..Len(q) : q[i] = e
      BY <2>5, <3>1 DEF Range
    <3>3. q[i].key[1] # n
      BY <2>3, <3>2
    <3>4. PICK j \in 1..m : nth[j] = i
      BY <2>7, <3>3 DEF StaysAt
    <3>5. WithoutNode(q, n)[j] = q[nth[j]]
      BY <2>7 DEF StaysAt
    <3>6. DOMAIN WithoutNode(q, n) = 1..m
      BY <2>7 DEF StaysAt
    <3>7. QED
      BY <3>2, <3>4, <3>5, <3>6 DEF Range
  <2>9. QED
    BY <2>2, <2>8 DEF LeftAsOldest
<1>9. ASSUME NEW w \in Workers, Appends(w) PROVE LeftAsOldest(k, a)
  <2>1. PICK j, x : j = worker[w].key /\ x = Largest(fetch[w].page)
    OBVIOUS
  <2>2. worker[w].pc = "fetch" /\ fetch[w].page # {} /\ AppendRecord(j, x)
    BY <1>9, <2>1 DEF Appends, At
  <2>3. j \in Keys
    BY <2>1, <2>2, AskedType
  <2>4. x \in Ages
    <3>1. fetch[w].page \subseteq Ages /\ IsFiniteSet(fetch[w].page)
      BY DEF FetchTyped, Progress, Fetch
    <3>2. fetch[w].page \subseteq Nat
      BY <3>1, DepthsAssumption DEF Ages
    <3>3. QED
      BY <2>1, <2>2, <3>1, <3>2, LargestIsGreatest
  <2>5. CASE j[1] \notin bound \/ Duplicate(j, x)
    BY <1>2, <2>2, <2>5 DEF AppendRecord, cacheVars
  <2>6. CASE ~ (j[1] \notin bound \/ Duplicate(j, x))
    <3>1. /\ shared' = InsertNewest(shared, [key |-> j, age |-> x], SharedCapacity)
          /\ cached' = [cached EXCEPT ![j] = Newest(cached[j] \cup {x}, ContainerCapacity)]
      BY <2>2, <2>6 DEF AppendRecord
    <3>2. PICK q, r, d : q = shared /\ r = shared' /\ d = [key |-> j, age |-> x]
      OBVIOUS
    <3>3. q \in Seq(Entry) /\ Len(q) <= SharedCapacity /\ Sorted(q)
      BY <1>1, <3>2 DEF CachesTyped, SharedIsSorted, Sorted
    <3>4. d \in Entry /\ r = InsertNewest(q, d, SharedCapacity)
      BY <2>3, <2>4, <3>1, <3>2 DEF Entry
    <3>5. cached' \in [Keys -> SUBSET Ages] /\ cached'[j] \subseteq cached[j] \cup {x}
          /\ (j # k => cached'[k] = cached[k])
      BY <1>1, <2>3, <2>4, <3>1, CachedAfterAppend
    <3>6. e \in Entry
      BY <3>5 DEF Entry
    <3>7. a \notin cached[k] => e = d
      BY <3>2, <3>5
    <3>8. ASSUME e \notin Range(r), a \notin cached[k] \/ e \in Range(q)
          PROVE  Len(r) >= SharedCapacity /\ \A i \in DOMAIN r : r[i].age <= a
      <4>1. PICK y : y = e
        OBVIOUS
      <4>2. y = d \/ y \in Range(q)
        BY <3>7, <3>8, <4>1
      <4>3. Len(r) >= SharedCapacity /\ \A i \in DOMAIN r : r[i].age <= y.age
        <5>1. y \in Entry /\ y \notin Range(r)
          BY <3>6, <3>8, <4>1
        <5>2. QED
          BY <3>3, <3>4, <4>2, <5>1, CutIsOldest
      <4>4. QED
        BY <4>1, <4>3
    <3>9. QED
      BY <3>2, <3>8 DEF LeftAsOldest, SharedFull
  <2>7. QED
    BY <2>5, <2>6
<1>10. QED
  BY <1>4, <1>5, <1>6, <1>7, <1>8, <1>9 DEF CacheEffect

\* The dashboard's list gives up, and refuses, only its oldest records, and only
\* when it is full; dropping a node takes no record of another (insertNewestLog,
\* updateNode).
THEOREM RecordsAlwaysLeaveOldestFirst == WindowSpec => RecordsLeaveOldestFirst
<1> DEFINE Step == \A k \in Keys : \A a \in cached'[k] : LeftAsOldest(k, a)
<1>1. WindowKept /\ [WindowNext]_allVars => [Step]_allVars
  <2> SUFFICES ASSUME WindowKept, [WindowNext]_allVars, NEW k \in Keys, NEW a \in cached'[k]
               PROVE  LeftAsOldest(k, a)
    OBVIOUS
  <2>1. TypeOK /\ FetchTyped /\ CachesKept
    BY DEF WindowKept, Ownership
  <2>2. QED
    BY <2>1, StepEffect, LeaveStep
<1>2. RecordsLeaveOldestFirst <=> [][Step]_allVars
  BY DEF RecordsLeaveOldestFirst, LeftAsOldest
<1>3. QED
  BY <1>1, <1>2, WindowIsKept, PTL DEF WindowSpec
=============================================================================
