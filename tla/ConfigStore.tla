----------------------------- MODULE ConfigStore -----------------------------
(***************************************************************************)
(* The configuration files and the node list built from them.              *)
(*                                                                         *)
(* configStore keeps the nodes and the AI providers in memory and in two   *)
(* files; its mutex is held over a whole operation, file writes included.  *)
(* The server keeps a second copy of the node list, server.nodes, under    *)
(* server.mu: the handlers that add, edit, unbind and reorder nodes hold   *)
(* that lock over the store operation too, the provider handlers and the   *)
(* import do not.  An import replaces both files and then rebuilds         *)
(* server.nodes in three steps that are not under one lock.                *)
(*                                                                         *)
(* A write may fail at any of its steps, and the process may stop between  *)
(* any two of them; the next start reads the files.  newServer calls       *)
(* listNodes before any handler can run, so "loaded" is always true here.  *)
(* What dropping and starting nodes does to connections is in NodeStreams. *)
(***************************************************************************)
EXTENDS Naturals, Sequences, FiniteSets, SequencesExt, ListFilter

CONSTANTS
  Addresses,       \* a node's name, address and style as one value
  NoAddress,       \* a hand-edited entry that lacks a name or an address
  Usable,          \* the addresses parseDozzleURL accepts
  Keys,            \* a provider's key and the other fields as one value
  NoKey,           \* the form left the key empty
  Missing, Broken, \* a file that is absent or empty, or cannot be parsed
  HandEdited,      \* what nodes.json may hold before the first start
  Payloads,        \* the configurations an import may carry
  Orders,          \* the orders a page may ask for
  MaxID,           \* bound on identifiers
  AddDuringReload, \* whether nodes may be added while an import reloads them
  NoSave           \* the store's mutex is free

Providers == SUBSET [id : 1..MaxID, key : Keys \cup {NoKey}]
ModelList == {list \in Providers : \A m, n \in list : m.id = n.id => m = n}
NodeList(S) ==
  {list \in Seq([id : 1..MaxID, address : S]) : IsInjective([i \in DOMAIN list |-> list[i].id])}

\* What an operation that holds the mutex will have stored, and puts back.
Saving == [by : {"nodes", "models", "import"}, file : {"nodes", "models"},
           pc : {"write", "rename"},
           next : [nodes : NodeList(Addresses), models : ModelList, shown : NodeList(Usable)],
           undo : [nodes : NodeList(Addresses), models : ModelList]]

ASSUME AddressesAssumption == NoAddress \notin Addresses /\ Usable \subseteq Addresses
ASSUME KeysAssumption == NoKey \notin Keys
ASSUME BoundAssumption == MaxID \in Nat /\ AddDuringReload \in BOOLEAN
ASSUME NoSaveAssumption == NoSave \notin Saving
ASSUME FilesAssumption ==
  \A file \in {Missing, Broken} : file \notin NodeList(Addresses) /\ \A list \in ModelList : file # list
ASSUME OrdersAssumption == \A order \in Orders : order \in Seq(Nat)

VARIABLES
  nodesFile,    \* nodes.json
  modelsFile,   \* models.json
  nodes,        \* configStore.nodes
  models,       \* configStore.models
  save,         \* the operation that holds configStore.mu
  serverNodes,  \* server.nodes
  unread,       \* history: the stored nodes that the last start could not show
  reload,       \* how far the import's reloadNodesFromStore is
  listed        \* the list it has read and not yet installed

files == <<nodesFile, modelsFile>>
reloading == <<reload, listed>>
vars == <<files, nodes, models, save, serverNodes, unread, reloading>>

IdentifiersOf(list) == {n.id : n \in ToSet(list)}
IndexOf(list, id) == CHOOSE i \in DOMAIN list : list[i].id = id
NextID(records) == Max({n.id : n \in records} \cup {0}) + 1

\* An entry keeps its identifier if that is positive and not taken, and else
\* gets the next one that is free.
SanitizeEntry(done, node) ==
  LET wanted == IF node.id = 0 THEN done.next ELSE node.id
      taken  == IdentifiersOf(done.nodes)
      free   == Min((wanted..wanted + Len(done.nodes)) \ taken)
  IN  IF node.address = NoAddress THEN done
      ELSE [nodes |-> Append(done.nodes, [node EXCEPT !.id = free]),
            next  |-> Max({done.next, free + 1})]
SanitizeStoredNodes(list) ==
  LET done[k \in 0..Len(list)] == IF k = 0 THEN [nodes |-> <<>>, next |-> 1]
                                  ELSE SanitizeEntry(done[k - 1], list[k])
  IN  done[Len(list)].nodes

SortedByID(list) ==
  LET byID == [id \in IdentifiersOf(list) |-> list[IndexOf(list, id)]]
  IN  Picked(byID, DOMAIN byID)

\* What a hand or an import may write: any identifiers, repeated, zero or missing.
\* Bound: those that replace them are up to MaxID.
HandWritten(list) ==
  /\ list \in Seq([id : Nat, address : Addresses \cup {NoAddress}])
  /\ IdentifiersOf(SanitizeStoredNodes(list)) \subseteq 1..MaxID
ASSUME HandEditedAssumption == \A list \in HandEdited : HandWritten(list)
\* Providers are taken as sanitizeStoredModels leaves them.
ASSUME PayloadsAssumption ==
  \A p \in Payloads : /\ HandWritten(p.nodes)
                      /\ \A i \in DOMAIN p.nodes : p.nodes[i].address \in Usable
                      /\ p.providers \in ModelList

\* A file that is absent or cannot be read gives an empty list.
LoadNodes(file) ==
  IF file \in {Missing, Broken} THEN <<>> ELSE SanitizeStoredNodes(file)
LoadModels(file) == IF file \in {Missing, Broken} THEN {} ELSE file

\* The nodes of the store that make it into server.nodes, less the hidden ones.
Shown(list, hidden) ==
  Picked(list, {i \in DOMAIN list : list[i].address \in Usable /\ list[i].id \notin hidden})

\* A start that cannot read one of the files goes on with no nodes, also when
\* the store has them: listNodes fails as a whole.
Unread(list) == IF Broken \in {nodesFile, modelsFile} THEN IdentifiersOf(list) ELSE {}

Init ==
  /\ nodesFile \in HandEdited \cup {Missing, Broken}
  /\ modelsFile \in {Missing, Broken}
  /\ nodes = LoadNodes(nodesFile)
  /\ models = LoadModels(modelsFile)
  /\ save = NoSave
  /\ unread = Unread(nodes)
  /\ serverNodes = Shown(nodes, unread)
  /\ reload = "idle"
  /\ listed = <<>>

-----------------------------------------------------------------------------
(***************************************************************************)
(* Requests.  The new value is in memory before it is written; "undo" is   *)
(* what a failed write puts back.                                          *)
(***************************************************************************)
Save(by, file, next) ==
  [by |-> by, file |-> file, pc |-> "write", next |-> next,
   undo |-> [nodes |-> nodes, models |-> models]]

SaveNodes(list, shown) ==
  /\ save = NoSave
  /\ nodes' = list
  /\ save' = Save("nodes", "nodes",
                  [nodes |-> list, models |-> models, shown |-> shown])
  /\ UNCHANGED <<files, models, serverNodes, unread, reloading>>

\* POST /api/nodes
InsertNode(a) ==
  /\ AddDuringReload \/ reload = "idle"
  /\ a \in Usable
  /\ \A n \in ToSet(serverNodes) : n.address # a
  /\ NextID(ToSet(nodes)) <= MaxID
  /\ LET node == [id |-> NextID(ToSet(nodes)), address |-> a]
     IN  SaveNodes(Append(nodes, node), Append(serverNodes, node))

\* PUT /api/nodes/<id>; nothing changes when the store has no such record
UpdateNode(id, a) ==
  /\ a \in Usable
  /\ id \in IdentifiersOf(serverNodes) \cap IdentifiersOf(nodes)
  /\ \A n \in ToSet(serverNodes) : n.id # id => n.address # a
  /\ SaveNodes([nodes EXCEPT ![IndexOf(nodes, id)].address = a],
               [serverNodes EXCEPT ![IndexOf(serverNodes, id)].address = a])

\* DELETE /api/nodes/<id>
DeleteNode(id) ==
  /\ id \in IdentifiersOf(serverNodes) \cap IdentifiersOf(nodes)
  /\ SaveNodes(RemoveAt(nodes, IndexOf(nodes, id)),
               RemoveAt(serverNodes, IndexOf(serverNodes, id)))

\* The nodes of a list in the order of ids, each where it is named first, then
\* those that ids leaves out.
Ordered(list, ids) ==
  LET known == Picked(ids, {k \in DOMAIN ids : /\ ids[k] \in IdentifiersOf(list)
                                               /\ \A h \in 1..(k - 1) : ids[h] # ids[k]})
  IN  [i \in DOMAIN known |-> list[IndexOf(list, known[i])]]
      \o Picked(list, {i \in DOMAIN list : list[i].id \notin ToSet(ids)})

\* PUT /api/nodes
ReorderNodes(order) ==
  LET shown == Ordered(serverNodes, order)
  IN  SaveNodes(Ordered(nodes, [i \in DOMAIN shown |-> shown[i].id]), shown)

SaveModels(new) ==
  /\ save = NoSave
  /\ models' = new
  /\ save' = Save("models", "models",
                  [nodes |-> nodes, models |-> new, shown |-> <<>>])
  /\ UNCHANGED <<files, nodes, serverNodes, unread, reloading>>

InsertModel(key) ==
  /\ NextID(models) <= MaxID
  /\ SaveModels(models \cup {[id |-> NextID(models), key |-> key]})

\* An empty key keeps the stored one.
UpdateModel(m, key) ==
  LET kept == IF key = NoKey THEN m.key ELSE key
  IN  m \in models /\ SaveModels((models \ {m}) \cup {[m EXCEPT !.key = kept]})

DeleteModel(m) == m \in models /\ SaveModels(models \ {m})

\* POST /api/config/import: the memory is left alone until both files are
\* written.  Bound: the reload of the last import has ended.
ImportConfig(p) ==
  LET cleaned == SortedByID(SanitizeStoredNodes(p.nodes))
  IN  /\ save = NoSave /\ reload = "idle"
      /\ save' = Save("import", "nodes", [nodes |-> cleaned,
                      models |-> p.providers, shown |-> <<>>])
      /\ UNCHANGED <<files, nodes, models, serverNodes, unread, reloading>>

-----------------------------------------------------------------------------
(***************************************************************************)
(* writeFileAtomic: a temporary file is written and then renamed.          *)
(***************************************************************************)
\* Mutant: the file itself is opened and written.
WriteInPlace ==
  /\ save # NoSave /\ save.pc = "write"
  /\ save' = [save EXCEPT !.pc = "rename"]
  /\ IF save.file = "nodes" THEN nodesFile' = Broken /\ UNCHANGED modelsFile
     ELSE modelsFile' = Broken /\ UNCHANGED nodesFile
  /\ UNCHANGED <<nodes, models, serverNodes, unread, reloading>>
WriteTemporary ==
  /\ save # NoSave /\ save.pc = "write"
  /\ save' = [save EXCEPT !.pc = "rename"]
  /\ UNCHANGED <<files, nodes, models, serverNodes, unread, reloading>>

\* An import goes on with the second file, any other operation is done.
Rename ==
  /\ save # NoSave /\ save.pc = "rename"
  /\ IF save.file = "nodes"
     THEN nodesFile' = save.next.nodes /\ UNCHANGED modelsFile
     ELSE modelsFile' = save.next.models /\ UNCHANGED nodesFile
  /\ IF save.by = "import" /\ save.file = "nodes"
     THEN /\ save' = [save EXCEPT !.file = "models", !.pc = "write"]
          /\ UNCHANGED <<nodes, models, serverNodes, reload>>
     ELSE /\ save' = NoSave
          /\ nodes' = save.next.nodes
          /\ models' = save.next.models
          /\ serverNodes' = IF save.by = "nodes" THEN save.next.shown ELSE serverNodes
          /\ reload' = IF save.by = "import" THEN "drop" ELSE reload
  /\ UNCHANGED <<unread, listed>>

\* The temporary file is removed and the error answered.
\* Mutant: the memory keeps what could not be written.
NeverUndone == save.next
Undone == save.undo
WriteFails ==
  /\ save # NoSave
  /\ save' = NoSave
  /\ nodes' = Undone.nodes
  /\ models' = Undone.models
  /\ UNCHANGED <<files, serverNodes, unread, reloading>>

-----------------------------------------------------------------------------
(***************************************************************************)
(* reloadNodesFromStore, after an import.                                  *)
(***************************************************************************)
\* server.mu is held by the node handlers while they save
ServerUnlocked == save # NoSave => save.by # "nodes"

DropNodes ==
  /\ reload = "drop" /\ ServerUnlocked
  /\ serverNodes' = <<>>
  /\ reload' = "list"
  /\ UNCHANGED <<files, nodes, models, save, unread, listed>>

ListNodes ==
  /\ reload = "list" /\ save = NoSave
  /\ listed' = nodes
  /\ reload' = "install"
  /\ UNCHANGED <<files, nodes, models, save, serverNodes, unread>>

InstallNodes ==
  /\ reload = "install" /\ ServerUnlocked
  /\ unread' = {}
  /\ serverNodes' = Shown(listed, {})
  /\ reload' = "idle"
  /\ listed' = <<>>
  /\ UNCHANGED <<files, nodes, models, save>>

\* The process stops, at any moment, and is started again.
Restart ==
  /\ nodes' = LoadNodes(nodesFile)
  /\ models' = LoadModels(modelsFile)
  /\ unread' = Unread(nodes')
  /\ serverNodes' = Shown(nodes', unread')
  /\ save' = NoSave
  /\ reload' = "idle"
  /\ listed' = <<>>
  /\ UNCHANGED files

Next ==
  \/ \E a \in Usable : InsertNode(a) \/ \E id \in 1..MaxID : UpdateNode(id, a)
  \/ \E id \in 1..MaxID : DeleteNode(id)
  \/ \E order \in Orders : ReorderNodes(order)
  \/ \E key \in Keys \cup {NoKey} :
        InsertModel(key) \/ \E m \in models : UpdateModel(m, key)
  \/ \E m \in models : DeleteModel(m)
  \/ \E p \in Payloads : ImportConfig(p)
  \/ WriteTemporary \/ Rename \/ WriteFails
  \/ DropNodes \/ ListNodes \/ InstallNodes
  \/ Restart

Spec == Init /\ [][Next]_vars

-----------------------------------------------------------------------------
(***************************************************************************)
(* Properties.                                                             *)
(***************************************************************************)
\* The lists in memory have distinct identifiers whatever the files and the
\* imports contain (sanitizeStoredNodes, nextNodeIDLocked), and server.nodes
\* holds usable addresses only (loadNodesFromStore).
TypeOK ==
  /\ nodes \in NodeList(Addresses) /\ serverNodes \in NodeList(Usable)
  /\ nodesFile \in NodeList(Addresses) \cup HandEdited \cup {Missing, Broken}
  /\ models \in ModelList /\ modelsFile \in {Missing, Broken} \cup ModelList
  /\ save \in Saving \cup {NoSave} /\ unread \subseteq 1..MaxID
  /\ reload \in {"idle", "drop", "list", "install"} /\ listed \in NodeList(Addresses)

\* Between requests the node list the service runs on is the stored one, in
\* the same order, less the entries whose address it cannot use and less what a
\* start with an unreadable file left out: those nodes stay in the store, in
\* no other request's way, until an import replaces them or the next start
\* shows them (loadNodesFromStore, updateNode, deleteNode, reorderNodes).
ServerShowsStore ==
  save = NoSave /\ reload = "idle" =>
     /\ serverNodes = Shown(nodes, unread)
     /\ unread \subseteq IdentifiersOf(nodes)

\* The lists are sound and the same in the store and in the server (updateNode,
\* reorderNodes, loadNodesFromStore).
ListsAgree == TypeOK /\ ServerShowsStore

(***************************************************************************)
(* The store implements Configuration: a request that fails, or is cut off *)
(* by the process stopping, leaves both lists and both files as they were, *)
(* and one that succeeds is on disk, with only the import's first file     *)
(* ever ahead of what the service answers.                                 *)
(***************************************************************************)
Answered == IF save = NoSave THEN [nodes |-> nodes, models |-> models] ELSE save.undo

Promised == INSTANCE Configuration WITH
  IDs <- 1..MaxID, Keys <- Keys \cup {NoKey},
  nodeList <- Answered.nodes, providers <- Answered.models,
  keptNodeList <- LoadNodes(nodesFile), keptProviders <- LoadModels(modelsFile)

ConfigurationImplemented == Promised!ConfigurationSpec
=============================================================================
