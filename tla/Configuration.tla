---------------------------- MODULE Configuration ----------------------------
(***************************************************************************)
(* What the configuration store promises: the node list and the AI         *)
(* providers are each one value, a request changes one of them or neither, *)
(* and what a request has changed is what the next start reads.            *)
(*                                                                         *)
(* "kept" is what a start would read.  The one request that changes both   *)
(* values, an import, keeps the nodes before it keeps the providers; until *)
(* it has succeeded nothing of it is shown.                                *)
(***************************************************************************)
EXTENDS Naturals, Sequences

CONSTANTS
  IDs,        \* identifiers of nodes and providers
  Addresses,  \* what a node's name, address and style may be
  Keys        \* what a provider's fields may be

ListedNode == [id : IDs, address : Addresses]
Providers == SUBSET [id : IDs, key : Keys]

VARIABLES
  nodeList,       \* the node list the service answers with
  providers,      \* the providers it answers with
  keptNodeList,   \* the node list a start would read
  keptProviders   \* the providers a start would read

configuration == <<nodeList, providers, keptNodeList, keptProviders>>

Identifiers(list) == {list[i].id : i \in DOMAIN list}
Positions(list) == [id \in Identifiers(list) |->
                      CHOOSE i \in DOMAIN list : list[i].id = id]
NodeWith(list, id) == list[Positions(list)[id]]
Unique(list) == \A i, j \in DOMAIN list : list[i].id = list[j].id => i = j

\* A node is appended under an identifier that is free.
Added(old, new) ==
  \E n \in ListedNode : n.id \notin Identifiers(old) /\ new = Append(old, n)

\* One node changes in place.
Edited(old, new) ==
  \E i \in DOMAIN old, a \in Addresses :
     new = [old EXCEPT ![i].address = a]

\* One node goes and the others keep their order.
Removed(old, new) ==
  \E i \in DOMAIN old :
     new = SubSeq(old, 1, i - 1) \o SubSeq(old, i + 1, Len(old))

\* The same nodes in another order.
Reordered(old, new) ==
  /\ Len(new) = Len(old) /\ Unique(new)
  /\ Identifiers(new) = Identifiers(old)
  /\ \A id \in Identifiers(old) : NodeWith(new, id) = NodeWith(old, id)

Start ==
  /\ nodeList \in Seq(ListedNode) /\ Unique(nodeList)
  /\ providers \in Providers
  /\ keptNodeList = nodeList /\ keptProviders = providers

NodeRequest ==
  /\ UNCHANGED <<providers, keptProviders>>
  /\ keptNodeList' = nodeList'
  /\ \/ Added(nodeList, nodeList') \/ Edited(nodeList, nodeList')
     \/ Removed(nodeList, nodeList') \/ Reordered(nodeList, nodeList')

ProviderRequest ==
  /\ UNCHANGED <<nodeList, keptNodeList>>
  /\ keptProviders' = providers'
  /\ providers' \in Providers

\* The first half of an import, whether or not the second half succeeds.
ImportNodes ==
  /\ UNCHANGED <<nodeList, providers, keptProviders>>
  /\ keptNodeList' \in Seq(ListedNode) /\ Unique(keptNodeList')

Import ==
  /\ UNCHANGED keptNodeList
  /\ nodeList' = keptNodeList
  /\ keptProviders' = providers'
  /\ providers' \in Providers

Restart ==
  /\ nodeList' = keptNodeList
  /\ providers' = keptProviders
  /\ UNCHANGED <<keptNodeList, keptProviders>>

Change == NodeRequest \/ ProviderRequest \/ ImportNodes \/ Import \/ Restart

ConfigurationSpec == Start /\ [][Change]_configuration
=============================================================================
