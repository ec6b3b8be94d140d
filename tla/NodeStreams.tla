----------------------------- MODULE NodeStreams -----------------------------
(***************************************************************************)
(* The goroutines that keep a node connected, and the contexts that are    *)
(* meant to stop them.                                                     *)
(*                                                                         *)
(* Adding or editing a node creates a context and a goroutine that learns  *)
(* the node's host (connectNode) and then follows its event stream         *)
(* (consumeDozzleEvents).  Every "containers-changed" event runs           *)
(* updateNodeContainers on that goroutine, which takes server.mu several   *)
(* times; a changed list makes it cancel the node's context, install a new *)
(* one and start a goroutine per container (consumeDozzleLogs).  The user  *)
(* may edit or unbind the node between any two of those lock sections.     *)
(*                                                                         *)
(* A connection goroutine is named by the context it was started with.     *)
(* The URLs here name no container, every listed container is running, and *)
(* a connection that is lost and retried reports again.  The history a     *)
(* purge drops and a stream start loads is in HistoryLoads.                *)
(***************************************************************************)
EXTENDS Naturals, FiniteSets

CONSTANTS
  Nodes,       \* node identifiers
  URLs,        \* node URLs; each is a Dozzle with one host
  Containers,  \* container identifiers
  Lists,       \* the container lists the Dozzle at an address may report
  Tailers,     \* stream goroutines (bound: at most this many at a time)
  MaxContexts, \* bound on the contexts ever created
  NoURL, NoHost, NoList

StreamKeys == Nodes \X Containers    \* nodeID + ":" + containerID
KeysOf(n) == {n} \X Containers
Contexts == 1..MaxContexts
NoContext == 0

ASSUME ListsAssumption == Lists \in [URLs -> SUBSET SUBSET Containers]
ASSUME NoURLAssumption == NoURL \notin URLs
ASSUME NoHostAssumption == NoHost \notin URLs
ASSUME NoListAssumption == \A s \in SUBSET Containers : NoList # s
ASSUME MaxContextsAssumption == MaxContexts \in Nat

VARIABLES
  address,     \* server.nodes: the URL of a node; NoURL: no such node
  hostID,      \* Node.hostID: the address whose host it is, or NoHost
  names,       \* server.containerNames, the identifiers
  stale,       \* server.staleHistoryNodes
  nodeContext, \* server.nodeContexts and server.nodeCancels
  created,     \* how many contexts there are
  cancelled,   \* the contexts that are cancelled
  doomed,      \* contexts a handler has unlinked and is about to cancel
  connection,  \* the connection goroutine of each context
  streams,     \* server.streams
  tailer       \* the stream goroutines

nodeVars == <<address, hostID, names, stale>>
contextVars == <<nodeContext, created, cancelled, doomed>>
streamVars == <<streams, tailer>>
streamsVars == <<nodeVars, contextVars, connection, streamVars>>

\* "own" is the address the goroutine connected to, "list" the list it is
\* processing, "changed" whether that differs from the one before, "use" the
\* context it cancels or starts streams with, "todo" the containers to start
\* and "next" the one being started.
Places == {"start", "connect", "learnt", "listen", "compare", "purge",
           "cancel", "commit", "renew", "check", "register"}
NoConnection == [pc |-> "none", node |-> <<>>, own |-> NoURL, list |-> {},
                 changed |-> FALSE, use |-> NoContext, todo |-> {}, next |-> {}]
Running == [pc : Places, node : Nodes, own : URLs \cup {NoURL},
            list : SUBSET Containers, changed : BOOLEAN, use : Contexts \cup {NoContext},
            todo : SUBSET Containers, next : SUBSET Containers]
Connection == {NoConnection} \cup Running

IdleTailer == [pc |-> "idle", key |-> <<>>, ctx |-> NoContext]
Tailer == {IdleTailer} \cup [pc : {"reading", "release"}, key : StreamKeys, ctx : Contexts]

Bound == {n \in Nodes : address[n] # NoURL}
At(c, place) == connection[c].pc = place
Node(c) == connection[c].node
Become(c, state) == connection' = [connection EXCEPT ![c] = state]
Move(c, place) == Become(c, [connection[c] EXCEPT !.pc = place])

\* updateNodeContainers returns; its locals are gone.
Listen(c) ==
  Become(c, [connection[c] EXCEPT !.pc = "listen", !.list = {}, !.changed = FALSE,
                                  !.use = NoContext, !.todo = {}])

StreamsInit ==
  /\ address = [n \in Nodes |-> NoURL]
  /\ hostID = [n \in Nodes |-> NoHost]
  /\ names = [n \in Nodes |-> NoList]
  /\ stale = {}
  /\ nodeContext = [n \in Nodes |-> NoContext]
  /\ created = 0
  /\ cancelled = {}
  /\ doomed = {}
  /\ connection = [c \in Contexts |-> NoConnection]
  /\ streams = {}
  /\ tailer = [t \in Tailers |-> IdleTailer]

\* go s.connectNode(ctx, n), with a new context that is the node's.
Connect(n) ==
  /\ created < MaxContexts
  /\ created' = created + 1
  /\ nodeContext' = [nodeContext EXCEPT ![n] = created + 1]
  /\ Become(created + 1, [NoConnection EXCEPT !.pc = "start", !.node = n])

\* canonicalNodeURL: no two nodes share an address.
Free(a, n) == \A m \in Nodes \ {n} : address[m] # a

\* The context is out of the maps; cancel() is called after the unlock.
Doom(n) == doomed' = doomed \cup ({nodeContext[n]} \ {NoContext})
-----------------------------------------------------------------------------
(***************************************************************************)
(* The user's operations.                                                  *)
(***************************************************************************)
\* POST /api/nodes
AddNode(n, a) ==
  /\ n \notin Bound
  /\ Free(a, n)
  /\ address' = [address EXCEPT ![n] = a]
  /\ hostID' = [hostID EXCEPT ![n] = NoHost]
  /\ Connect(n)
  /\ UNCHANGED <<names, stale, cancelled, doomed, streamVars>>

\* PUT /api/nodes/<id>; the edited record keeps its hostID.
UpdateNodeURL(n, a) ==
  /\ n \in Bound
  /\ Free(a, n)
  /\ address' = [address EXCEPT ![n] = a]
  /\ names' = [names EXCEPT ![n] = NoList]
  /\ streams' = streams \ KeysOf(n)
  /\ Connect(n)
  /\ Doom(n)
  /\ UNCHANGED <<hostID, stale, cancelled, tailer>>

\* DELETE /api/nodes/<id>
UnbindNode(n) ==
  /\ n \in Bound
  /\ address' = [address EXCEPT ![n] = NoURL]
  /\ hostID' = [hostID EXCEPT ![n] = NoHost]
  /\ names' = [names EXCEPT ![n] = NoList]
  /\ streams' = streams \ KeysOf(n)
  /\ nodeContext' = [nodeContext EXCEPT ![n] = NoContext]
  /\ Doom(n)
  /\ UNCHANGED <<stale, created, cancelled, connection, tailer>>

Cancelled(c) == cancelled \cup {c}

CancelContext(c) ==
  /\ c \in doomed
  /\ doomed' = doomed \ {c}
  /\ cancelled' = Cancelled(c)
  /\ UNCHANGED <<nodeVars, nodeContext, created, connection, streamVars>>
-----------------------------------------------------------------------------
(***************************************************************************)
(* connectNode                                                             *)
(***************************************************************************)
\* nodeSnapshot: whatever the node is by now.
ReadNode(c) ==
  /\ At(c, "start")
  /\ Become(c, IF Node(c) \in Bound
               THEN [connection[c] EXCEPT !.pc = "connect", !.own = address[Node(c)]]
               ELSE NoConnection)
  /\ UNCHANGED <<nodeVars, contextVars, streamVars>>

\* fetchDozzleHost answers, unless the context is cancelled by then.
FetchHost(c) ==
  /\ At(c, "connect")
  /\ c \notin cancelled
  /\ Move(c, "learnt")
  /\ UNCHANGED <<nodeVars, contextVars, streamVars>>

\* It fails: the goroutine ends, and nothing connects the node again.
FetchHostFails(c) ==
  /\ At(c, "connect")
  /\ Become(c, NoConnection)
  /\ UNCHANGED <<nodeVars, contextVars, streamVars>>

\* setNodeHost, for the node that has the identifier now.
SetNodeHost(c) ==
  /\ At(c, "learnt")
  /\ hostID' = IF Node(c) \in Bound
               THEN [hostID EXCEPT ![Node(c)] = connection[c].own]
               ELSE hostID
  /\ Move(c, "listen")
  /\ UNCHANGED <<address, names, stale, contextVars, streamVars>>
-----------------------------------------------------------------------------
(***************************************************************************)
(* consumeDozzleEvents and updateNodeContainers                            *)
(***************************************************************************)
EndListening(c) ==
  /\ At(c, "listen")
  /\ c \in cancelled
  /\ Become(c, NoConnection)
  /\ UNCHANGED <<nodeVars, contextVars, streamVars>>

\* The containers are tagged with another host than the node's.
Foreign(c, list) ==
  hostID[Node(c)] # NoHost /\ list # {} /\ connection[c].own # hostID[Node(c)]

\* An event whose node is gone or whose host differs is dropped, and so is a
\* stream of a node whose host is not known.
ContainersChanged(c, list) ==
  /\ At(c, "listen")
  /\ c \notin cancelled
  /\ list \in Lists[connection[c].own]
  /\ Node(c) \in Bound /\ ~ Foreign(c, list)
  /\ Become(c, [connection[c] EXCEPT !.pc = "compare", !.list = list,
                  !.todo = IF hostID[Node(c)] = NoHost THEN {} ELSE list])
  /\ UNCHANGED <<nodeVars, contextVars, streamVars>>

\* sameContainerSet
SameContainerSet(previous, current) == previous = NoList \/ previous = current

CompareLists(c) ==
  LET changed == ~ SameContainerSet(names[Node(c)], connection[c].list)
  IN  /\ At(c, "compare")
      /\ Become(c, [connection[c] EXCEPT !.changed = changed,
                      !.pc = IF changed THEN "purge" ELSE "commit"])
      /\ UNCHANGED <<nodeVars, contextVars, streamVars>>

\* purgeNodeHistory takes the cancel function the node has by then, and calls
\* it after the unlock.
PurgeNodeHistory(c) ==
  /\ At(c, "purge")
  /\ stale' = stale \cup {Node(c)}
  /\ Become(c, [connection[c] EXCEPT !.pc = "cancel", !.use = nodeContext[Node(c)]])
  /\ UNCHANGED <<address, hostID, names, contextVars, streamVars>>

ToCancel(c) == {connection[c].use} \ {NoContext}

CancelPurged(c) ==
  /\ At(c, "cancel")
  /\ cancelled' = cancelled \cup ToCancel(c)
  /\ Move(c, "commit")
  /\ UNCHANGED <<nodeVars, nodeContext, created, doomed, streamVars>>

\* Mutant of Freshened: a node that is gone stays stale.
FreshenedIfBound(c) ==
  IF connection[c].changed /\ Node(c) \in Bound THEN stale \ {Node(c)} ELSE stale
Freshened(c) == IF connection[c].changed THEN stale \ {Node(c)} ELSE stale

\* The list is committed to whatever node has the identifier, if any.
CommitContainers(c) ==
  /\ At(c, "commit")
  /\ names' = [names EXCEPT ![Node(c)] = connection[c].list]
  /\ stale' = Freshened(c)
  /\ Become(c, [connection[c] EXCEPT !.use = c,
                  !.pc = IF connection[c].changed THEN "renew" ELSE "check"])
  /\ UNCHANGED <<address, hostID, contextVars, streamVars>>

\* A new context for the node; the handler runs in c, and goes on with the
\* new one only if c is not cancelled.
RenewContext(c) ==
  LET fresh == created + 1
  IN  /\ At(c, "renew")
      /\ created < MaxContexts
      /\ created' = fresh
      /\ nodeContext' = [nodeContext EXCEPT ![Node(c)] = fresh]
      /\ IF c \in cancelled
         THEN cancelled' = cancelled \cup {fresh} /\ Listen(c)
         ELSE /\ Become(c, [connection[c] EXCEPT !.pc = "check", !.use = fresh])
              /\ UNCHANGED cancelled
      /\ UNCHANGED <<nodeVars, doomed, streamVars>>
-----------------------------------------------------------------------------
(***************************************************************************)
(* startContainerStreams and consumeDozzleLogs                             *)
(***************************************************************************)
StreamsDone(c) ==
  /\ At(c, "check")
  /\ connection[c].todo = {}
  /\ Listen(c)
  /\ UNCHANGED <<nodeVars, contextVars, streamVars>>

\* The context is looked at before the lock is taken.
CheckContext(c, k) ==
  /\ At(c, "check")
  /\ k \in connection[c].todo
  /\ Become(c, [connection[c] EXCEPT !.todo = @ \ {k},
                  !.next = IF connection[c].use \in cancelled THEN {} ELSE {k},
                  !.pc = IF connection[c].use \in cancelled THEN "check" ELSE "register"])
  /\ UNCHANGED <<nodeVars, contextVars, streamVars>>

StartTailer(t, key, ctx) ==
  /\ tailer[t] = IdleTailer
  /\ streams' = streams \cup {key}
  /\ tailer' = [tailer EXCEPT ![t] = [pc |-> "reading", key |-> key, ctx |-> ctx]]

RegisterStream(c) ==
  /\ At(c, "register")
  /\ \E k \in connection[c].next :
       IF <<Node(c), k>> \in streams \/ Node(c) \notin Bound
       THEN UNCHANGED streamVars
       ELSE \E t \in Tailers : StartTailer(t, <<Node(c), k>>, connection[c].use)
  /\ Become(c, [connection[c] EXCEPT !.pc = "check", !.next = {}])
  /\ UNCHANGED <<nodeVars, contextVars>>

\* The stream goroutine ends; until then it reads, or waits to retry.
StopTailer(t) ==
  /\ tailer[t].pc = "reading"
  /\ tailer[t].ctx \in cancelled
  /\ tailer' = [tailer EXCEPT ![t].pc = "release"]
  /\ UNCHANGED <<nodeVars, contextVars, connection, streams>>

\* Mutant of Released: the key stays.
NeverReleased(t) == streams
Released(t) == streams \ {tailer[t].key}

ReleaseContainerStream(t) ==
  /\ tailer[t].pc = "release"
  /\ streams' = Released(t)
  /\ tailer' = [tailer EXCEPT ![t] = IdleTailer]
  /\ UNCHANGED <<nodeVars, contextVars, connection>>
-----------------------------------------------------------------------------
UserStep ==
  \/ \E n \in Nodes, a \in URLs : AddNode(n, a) \/ UpdateNodeURL(n, a)
  \/ \E n \in Nodes : UnbindNode(n)

ConnectionStep(c) ==
  \/ CancelContext(c)
  \/ ReadNode(c) \/ FetchHost(c) \/ FetchHostFails(c) \/ SetNodeHost(c)
  \/ EndListening(c) \/ \E list \in SUBSET Containers : ContainersChanged(c, list)
  \/ CompareLists(c) \/ PurgeNodeHistory(c) \/ CancelPurged(c)
  \/ CommitContainers(c) \/ RenewContext(c)
  \/ StreamsDone(c) \/ RegisterStream(c)
  \/ \E k \in Containers : CheckContext(c, k)

TailerStep(t) == StopTailer(t) \/ ReleaseContainerStream(t)

StreamsNext ==
  \/ UserStep
  \/ \E c \in Contexts : ConnectionStep(c)
  \/ \E t \in Tailers : TailerStep(t)

\* A handler that has begun goes on to its end, and cancel() is called; no
\* Dozzle has to answer or to report anything.
Fairness ==
  \A c \in Contexts : /\ WF_streamsVars(CancelContext(c))
                      /\ WF_streamsVars(CompareLists(c) \/ PurgeNodeHistory(c)
                                     \/ CancelPurged(c) \/ CommitContainers(c))

StreamsSpec == StreamsInit /\ [][StreamsNext]_streamsVars /\ Fairness
-----------------------------------------------------------------------------
Processing(c) == connection[c].pc \in {"cancel", "commit"} /\ connection[c].changed

StreamsTypeOK ==
  /\ address \in [Nodes -> URLs \cup {NoURL}]
  /\ hostID \in [Nodes -> URLs \cup {NoHost}]
  /\ names \in [Nodes -> {NoList} \cup SUBSET Containers]
  /\ stale \subseteq Nodes
  /\ nodeContext \in [Nodes -> Contexts \cup {NoContext}]
  /\ created \in 0..MaxContexts
  /\ cancelled \subseteq Contexts /\ doomed \subseteq Contexts
  /\ connection \in [Contexts -> Connection]
  /\ streams \subseteq StreamKeys
  /\ tailer \in [Tailers -> Tailer]

\* A container whose stream is registered has a goroutine that will give the
\* registration back: startContainerStreams refuses every other stream of it.
StreamHasTailer ==
  \A key \in streams : \E t \in Tailers : tailer[t] # IdleTailer /\ tailer[t].key = key

\* A node is stale only while a handler is on its way to commit its new list:
\* while it is, no history of it is loaded.
StaleIsTransient ==
  \A n \in stale : \E c \in Contexts : Processing(c) /\ Node(c) = n

\* A node that is stale does not stay so, whatever is edited meanwhile.
StaleNodesRecover == \A n \in Nodes : n \in stale ~> n \notin stale

\* The registrations of nodes and streams have goroutines behind them that end
\* them (updateNodeContainers, startContainerStreams).
StreamsAreSound ==
  /\ StreamsTypeOK
  /\ StaleIsTransient
  /\ StreamHasTailer
==============================================================================
