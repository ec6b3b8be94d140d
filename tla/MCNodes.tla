------------------------------ MODULE MCNodes ------------------------------
(***************************************************************************)
(* The nodes of the service, for TLC: how they are stored (ConfigStore),   *)
(* with three addresses, one of which parseDozzleURL refuses, one provider *)
(* key and identifiers up to two; or how their containers are streamed     *)
(* (NodeStreams), with one node identifier that is added, edited, unbound  *)
(* and used again, and whose one container comes and goes.                 *)
(***************************************************************************)
EXTENDS ConfigStore, NodeStreams

CONSTANTS a1, a2, ill, k1, n1, c1, t1, t2

MCAddresses == {a1, a2, ill}
MCUsable == {a1, a2}
MCKeys == {k1}
Entry(id, a) == [id |-> id, address |-> a]

\* A file with a repeated identifier, an entry without one, an incomplete
\* entry and one whose address cannot be used; and one that is out of order.
MCHandEdited == {<<Entry(1, a1), Entry(1, ill), Entry(2, NoAddress)>>,
                 <<Entry(0, ill), Entry(1, a2)>>}

\* An import whose order is not that of the identifiers, and one of providers.
MCPayloads == {[nodes |-> <<Entry(2, a2), Entry(1, a1)>>, providers |-> {}],
               [nodes |-> <<>>, providers |-> {[id |-> 1, key |-> k1]}]}

\* A stale page names a node that is gone, or names one twice and leaves out one it
\* never saw.
MCOrders == {<<3, 2, 1>>, <<2, 2>>}

MCNodeIDs == {n1}
MCURLs == {a1}
MCContainers == {c1}
MCTailers == {t1, t2}
MCStoppedLists == [a \in URLs |-> {{c1}, {}}]

\* The two share no variable: a behaviour is of the store, whatever files it
\* finds, or of the streams of a service that found none.
NodesInit == Init /\ StreamsInit
NodesNext ==
  \/ StreamsInit /\ Next /\ UNCHANGED streamsVars
  \/ Init /\ nodesFile = Missing /\ modelsFile = Missing /\ StreamsNext /\ UNCHANGED vars

NodesSpec == NodesInit /\ [][NodesNext]_<<vars, streamsVars>> /\ Fairness
=============================================================================
