-------------------------------- MODULE Redis --------------------------------
(***************************************************************************)
(* The Redis workspace of the page, with the service that reads and writes *)
(* for it and the other clients of the same databases.                     *)
(*                                                                         *)
(* `run` lets one handler at a time wait for the service; what a waiting   *)
(* handler does next is its record in `ops`.  A value is a number, fresh   *)
(* for each text that is typed and each value another client writes, and   *)
(* stands for its version too.  The tree of keys, types, formats and times *)
(* to live are left out, and with them the values too large to be edited:  *)
(* any key may be chosen.  A connection leads to the same databases for    *)
(* good; other pages of the service add connections and remove them, and   *)
(* one that was removed does not come back.                                *)
(***************************************************************************)
EXTENDS Naturals, FiniteSets, SequencesExt

CONSTANTS
  Servers,           \* the connections there are, or will be
  Listed,            \* those the service lists at first
  Keys,
  Namespace,         \* the keys below the one prefix that is chosen
  Stored,            \* the keys that are there at first
  NoKey, NoConnection,
  MaxValues,         \* bound on the values typed or written by others
  MaxRedisClicks     \* bound on what the user does, here and on other pages

ASSUME RedisAssumption ==
  /\ Namespace \subseteq Keys /\ Stored \subseteq Keys /\ Listed \subseteq Servers
  /\ NoKey \notin Keys /\ NoConnection \notin Servers
  /\ {MaxValues, MaxRedisClicks} \subseteq Nat \ {0}

VARIABLES
  store,     \* of each connection the value of each key, Absent when none
  connections, removed,   \* what the service lists; what it has listed before
  profiles, id,   \* ui.profiles; ui.id
  page,      \* the key that is shown and its editor
  newKey,    \* the dialog of a new key
  file,      \* the file being read for it
  ops,       \* handlers that wait; ui.busy when there are some
  made, typed, given, written,   \* values so far, typed, given up by the user, stored
  replaced,  \* typed for a new key whose type was changed
  unlisted,  \* the chosen connection was kept though a list without it was read
  unseen,    \* what other clients have written since the page has read it
  redisClicks

pageVars == <<profiles, id, page, newKey, file>>
ghosts == <<made, typed, given, written, replaced>>
serviceVars == <<connections, removed, unlisted>>
redisVars == <<store, serviceVars, pageVars, ops, ghosts, unseen, redisClicks>>

Absent == 0
Values == 1..MaxValues
NoPage == [key |-> NoKey, of |-> NoConnection, version |-> Absent, text |-> Absent, ttl |-> FALSE]
NoDialog == [open |-> FALSE, text |-> Absent, generation |-> 0]
NoFile == [reading |-> FALSE, generation |-> 0, previous |-> Absent]

\* A handler that awaits `kind`, asked of the connection that was chosen then.
Op(kind, c, k, value, version, keys) ==
  [kind |-> kind, of |-> c, key |-> k, value |-> value, version |-> version, keys |-> keys]
Load(c, k) == Op("load", c, k, Absent, Absent, {})
Scan(c) == Op("scan", c, NoKey, Absent, Absent, {})
Write(c, k, value, version) == Op("write", c, k, value, version, {})
Delete(c, k, version) == Op("delete", c, k, Absent, version, {})
Listing(kind, c) == Op(kind, c, NoKey, Absent, Absent, {})

\* One that is not there any more gives way to another.
Another(c, left) ==
  IF c \in left THEN c ELSE IF left = {} THEN NoConnection ELSE CHOOSE other \in left : TRUE

RedisInit ==
  /\ store = [c \in Servers |-> [k \in Keys |-> IF k \in Stored THEN 1 ELSE Absent]]
  /\ connections = Listed /\ removed = {} /\ unlisted = FALSE
  /\ profiles = {} /\ id = NoConnection
  /\ page = NoPage /\ newKey = NoDialog /\ file = NoFile
  /\ ops = {Listing("list", NoConnection)}
  /\ made = 1 /\ typed = {} /\ given = {} /\ written = {} /\ replaced = {}
  /\ unseen = {} /\ redisClicks = 0

(***************************************************************************)
(* run, guard and what the page shows.                                     *)
(***************************************************************************)
IdleAlways == TRUE \* Mutant: run does not look at ui.busy
Idle == ops = {}
\* The dialog of a new key is modal.
AtPage == Idle /\ ~newKey.open
InDialog == Idle /\ newKey.open

RedisClick == redisClicks < MaxRedisClicks /\ redisClicks' = redisClicks + 1
Starts(o) == ops' = ops \union {o}
Goes(o, next) == ops' = (ops \ {o}) \union {next}
Ends(o) == ops' = ops \ {o}

\* Mutant: ui.busy is reset by the handlers that succeed.
FailsHeld(o) == Goes(o, [o EXCEPT !.kind = "failed"])

\* The error is shown; `finally` frees the page.
Fails(o) == Ends(o)

\* Painted anew whenever a handler ends: controls().
TextChanged == page.text # page.version \/ page.ttl

\* A confirmed guard gives the text up; one that is refused changes nothing.
Discarded == IF page.text # page.version THEN {page.text} ELSE {}
Guard == given' = given \union Discarded

PageOf(c, k, value) == [key |-> k, of |-> c, version |-> value, text |-> value, ttl |-> FALSE]

\* selectConnection: the page is cleared before the keys are asked for.
SelectConnection(c, left) ==
  id' = Another(c, left) /\ page' = NoPage /\ profiles' = left /\ unlisted' = FALSE

NewValue == made < MaxValues /\ made' = made + 1

(***************************************************************************)
(* What the user does.                                                     *)
(***************************************************************************)
\* A key in the tree, or the one that is shown once more.
OpenKey(k) ==
  /\ RedisClick /\ AtPage /\ id # NoConnection
  /\ Guard /\ Starts(Load(id, k))
  /\ UNCHANGED <<store, serviceVars, pageVars, made, typed, written, replaced, unseen>>

TypeValue ==
  /\ RedisClick /\ AtPage /\ page.key # NoKey /\ NewValue
  /\ page' = [page EXCEPT !.text = made + 1]
  /\ typed' = typed \union {made + 1} /\ Guard
  /\ UNCHANGED <<store, serviceVars, profiles, id, newKey, file, ops, written, replaced, unseen>>

TypeTTL ==
  /\ RedisClick /\ AtPage /\ page.key # NoKey /\ ~page.ttl
  /\ page' = [page EXCEPT !.ttl = TRUE]
  /\ UNCHANGED <<store, serviceVars, profiles, id, newKey, file, ops, ghosts, unseen>>

Save ==
  /\ RedisClick /\ AtPage /\ page.key # NoKey
  /\ Starts(Write(id, page.key, page.text, page.version))
  /\ UNCHANGED <<store, serviceVars, pageVars, ghosts, unseen>>

\* The time to live alone: the text is loaded again.
Expire ==
  /\ RedisClick /\ AtPage /\ page.key # NoKey
  /\ Guard /\ Starts(Write(id, page.key, page.version, page.version))
  /\ UNCHANGED <<store, serviceVars, pageVars, made, typed, written, replaced, unseen>>

\* Of a key that is not shown the version is read first.
DeleteKey(k) ==
  /\ RedisClick /\ AtPage /\ id # NoConnection
  /\ IF k = page.key THEN Guard /\ Starts(Delete(id, k, page.version))
     ELSE Starts(Op("version", id, k, Absent, Absent, {})) /\ UNCHANGED given
  /\ UNCHANGED <<store, serviceVars, pageVars, made, typed, written, replaced, unseen>>

\* Of another key than the shown one; the clipboard is left out.
CopyKey(k) ==
  /\ RedisClick /\ AtPage /\ id # NoConnection /\ k # page.key
  /\ Starts(Op("copy", id, k, Absent, Absent, {}))
  /\ UNCHANGED <<store, serviceVars, pageVars, ghosts, unseen>>

\* The search, the next keys, the namespace once more.
AskKeys ==
  /\ RedisClick /\ AtPage /\ id # NoConnection
  /\ Starts(Scan(id))
  /\ UNCHANGED <<store, serviceVars, pageVars, ghosts, unseen>>

\* refresh and manage, also when no connection is chosen.
AskConnections ==
  /\ RedisClick /\ AtPage /\ Starts(Listing("list", NoConnection))
  /\ UNCHANGED <<store, serviceVars, pageVars, ghosts, unseen>>

DeleteNamespace ==
  /\ RedisClick /\ AtPage /\ id # NoConnection
  /\ IF page.key \in Namespace THEN Guard ELSE UNCHANGED given
  /\ Starts(Op("preview", id, NoKey, Absent, Absent, {}))
  /\ UNCHANGED <<store, serviceVars, pageVars, made, typed, written, replaced, unseen>>

\* The list of connections, or the manager.
ChooseConnection(c) ==
  /\ RedisClick /\ AtPage /\ c \in profiles
  /\ Guard /\ SelectConnection(c, profiles) /\ Starts(Scan(c))
  /\ UNCHANGED <<store, connections, removed, newKey, file, made, typed, written, replaced, unseen>>

\* Of the list, or a new one.
SaveConnection(c) ==
  /\ RedisClick /\ AtPage /\ c \in profiles \union {NoConnection} /\ Guard
  /\ Starts(Op("connect", c, NoKey, Absent, Absent, {}))
  /\ UNCHANGED <<store, serviceVars, pageVars, made, typed, written, replaced, unseen>>

RemoveConnection(c) ==
  /\ RedisClick /\ AtPage /\ c \in profiles
  /\ IF c = id THEN Guard ELSE UNCHANGED given
  /\ Starts(Op("remove", c, NoKey, Absent, Absent, {}))
  /\ UNCHANGED <<store, serviceVars, pageVars, made, typed, written, replaced, unseen>>

OpenNewKey ==
  /\ AtPage /\ id # NoConnection
  /\ newKey' = [open |-> TRUE, text |-> Absent, generation |-> newKey.generation + 1]
  /\ UNCHANGED <<store, serviceVars, profiles, id, page, file, ops, ghosts, unseen, redisClicks>>

TypeNewKey ==
  /\ RedisClick /\ InDialog /\ NewValue
  /\ newKey' = [newKey EXCEPT !.text = made + 1]
  /\ typed' = typed \union {made + 1} /\ given' = given \union {newKey.text}
  /\ UNCHANGED <<store, serviceVars, profiles, id, page, file, ops, written, replaced, unseen>>

\* Another type: nothing, or a value that is its example, whatever was typed.
ChooseType ==
  /\ RedisClick /\ InDialog /\ replaced' = replaced \union {newKey.text}
  /\ \/ newKey' = [newKey EXCEPT !.text = Absent] /\ UNCHANGED made
     \/ NewValue /\ newKey' = [newKey EXCEPT !.text = made + 1]
  /\ UNCHANGED <<store, serviceVars, profiles, id, page, file, ops, typed, given, written, unseen>>

Closed == [open |-> FALSE, text |-> Absent, generation |-> newKey.generation + 1]

CloseNewKey ==
  /\ RedisClick /\ InDialog
  /\ newKey' = Closed /\ given' = given \union {newKey.text}
  /\ UNCHANGED <<store, serviceVars, profiles, id, page, file, ops, made, typed, written, replaced, unseen>>

SaveNewKey(k) ==
  /\ RedisClick /\ InDialog /\ newKey.text # Absent
  /\ Starts(Op("create", id, k, newKey.text, Absent, {}))
  /\ UNCHANGED <<store, serviceVars, pageVars, ghosts, unseen>>

ChooseFile ==
  /\ RedisClick /\ InDialog /\ ~file.reading
  /\ file' = [reading |-> TRUE, generation |-> newKey.generation, previous |-> newKey.text]
  /\ UNCHANGED <<store, serviceVars, profiles, id, page, newKey, ops, ghosts, unseen>>

FileIsFor ==
  newKey.open /\ newKey.generation = file.generation /\ newKey.text = file.previous

\* The file's text takes the place of the one it was chosen over, which is no
\* longer there when the user has typed on, or has closed the dialog.
FileRead ==
  /\ file.reading /\ file' = NoFile
  /\ IF FileIsFor /\ made < MaxValues
       THEN newKey' = [newKey EXCEPT !.text = made + 1] /\ made' = made + 1
            /\ given' = given \union {file.previous}
       ELSE UNCHANGED <<newKey, made, given>>
  /\ UNCHANGED <<store, serviceVars, profiles, id, page, ops, typed, written, replaced, unseen, redisClicks>>

(***************************************************************************)
(* The answers.  Any request may fail; a write may fail after it is done.  *)
(* A request that names a connection finds it in the service's list.       *)
(***************************************************************************)
Reached(o) == o.of \in connections
Seen(o, keys) == unseen' = unseen \ {<<o.of, k>> : k \in keys}

RequestFails(o) ==
  /\ o.kind # "failed" /\ Fails(o)
  /\ UNCHANGED <<store, serviceVars, pageVars, ghosts, unseen, redisClicks>>

ValueRead(o) ==
  /\ o.kind = "load" /\ store[o.of][o.key] # Absent
  /\ page' = PageOf(o.of, o.key, store[o.of][o.key])
  /\ Seen(o, {o.key}) /\ Ends(o)
  /\ UNCHANGED <<store, serviceVars, profiles, id, newKey, file, ghosts, redisClicks>>

VersionRead(o) ==
  /\ o.kind = "version" /\ store[o.of][o.key] # Absent
  /\ Seen(o, {o.key}) /\ Goes(o, Delete(o.of, o.key, store[o.of][o.key]))
  /\ UNCHANGED <<store, serviceVars, pageVars, ghosts, redisClicks>>

CopyRead(o) ==
  /\ o.kind = "copy" /\ store[o.of][o.key] # Absent /\ Ends(o)
  /\ UNCHANGED <<store, serviceVars, pageVars, ghosts, unseen, redisClicks>>

UnchangedForAny(o) == store[o.of][o.key] # Absent \* Mutant: the key is there

\* writeRedisValue, in a transaction that watches the key.
UnchangedFor(o) ==
  IF o.kind = "create" THEN store[o.of][o.key] = Absent
  ELSE store[o.of][o.key] # Absent /\ store[o.of][o.key] = o.version

\* What the page does after a write: the key is loaded again; the dialog does
\* not take the place of a draft.
AfterWrite(o) ==
  IF o.kind = "create" /\ TextChanged THEN Ends(o) ELSE Goes(o, Load(id, o.key))

KeyWritten(o, answered) ==
  /\ o.kind \in {"write", "create"} /\ UnchangedFor(o)
  /\ store' = [store EXCEPT ![o.of][o.key] = o.value]
  /\ written' = written \union {o.value}
  /\ newKey' = IF o.kind = "create" /\ answered THEN Closed ELSE newKey
  /\ IF answered THEN AfterWrite(o) ELSE Fails(o)
  /\ UNCHANGED <<serviceVars, profiles, id, page, file, made, typed, given, replaced, unseen, redisClicks>>

KeyDeleted(o, answered) ==
  /\ o.kind = "delete" /\ UnchangedFor(o)
  /\ store' = [store EXCEPT ![o.of][o.key] = Absent]
  /\ page' = IF answered /\ page.key = o.key THEN NoPage ELSE page
  /\ IF answered THEN Ends(o) ELSE Fails(o)
  /\ UNCHANGED <<serviceVars, profiles, id, newKey, file, ghosts, unseen, redisClicks>>

KeysListed(o) ==
  /\ o.kind = "scan" /\ Ends(o)
  /\ UNCHANGED <<store, serviceVars, pageVars, ghosts, unseen, redisClicks>>

Present(c) == {k \in Namespace : store[c][k] # Absent}

\* The number of keys is shown; the user confirms, or the handler ends.
NamespacePreviewed(o) ==
  /\ o.kind = "preview"
  /\ \/ Goes(o, Op("namespace", o.of, NoKey, Absent, Absent, Present(o.of)))
     \/ Ends(o)
  /\ UNCHANGED <<store, serviceVars, pageVars, ghosts, unseen, redisClicks>>

TokenOf(o) == Present(o.of) = o.keys

\* The confirmed keys are deleted in batches, of which a later one may fail, and
\* the answer may be lost after the last.
NamespaceDeleted(o, deleted, answered) ==
  /\ o.kind = "namespace" /\ TokenOf(o) /\ deleted \subseteq Present(o.of)
  /\ answered => deleted = Present(o.of)
  /\ store' = [store EXCEPT ![o.of] = [k \in Keys |-> IF k \in deleted THEN Absent ELSE @[k]]]
  /\ page' = IF answered /\ page.key \in Namespace THEN NoPage ELSE page
  /\ IF answered THEN Ends(o) ELSE Fails(o)
  /\ UNCHANGED <<serviceVars, profiles, id, newKey, file, ghosts, unseen, redisClicks>>

\* handleRedisProfiles; the list is read anew before the page takes the answer.
ConnectionSaved(o, c, answered) ==
  /\ o.kind = "connect"
  /\ IF o.of = NoConnection THEN c \notin connections \union removed
     ELSE c = o.of /\ Reached(o)
  /\ connections' = connections \union {c}
  /\ IF answered THEN Goes(o, Listing("saved", c)) ELSE Fails(o)
  /\ UNCHANGED <<store, removed, unlisted, pageVars, ghosts, unseen, redisClicks>>

ConnectionRemoved(o, answered) ==
  /\ o.kind = "remove" /\ Reached(o)
  /\ connections' = connections \ {o.of} /\ removed' = removed \union {o.of}
  /\ IF answered THEN Goes(o, Listing("removed", o.of)) ELSE Fails(o)
  /\ UNCHANGED <<store, unlisted, pageVars, ghosts, unseen, redisClicks>>

\* selectConnection with the list that was read; the keys are asked for.
TakesConnection(o, c) ==
  /\ SelectConnection(c, connections)
  /\ IF id' = NoConnection THEN Ends(o) ELSE Goes(o, Scan(id'))

\* The list takes the place of the old one, whatever is chosen.
KeepsConnection(o) ==
  /\ profiles' = connections /\ unlisted' = (id \notin connections)
  /\ UNCHANGED <<id, page, given>>

\* Only refresh goes on to the keys; a draft of a connection that is not in the
\* list any more is kept when the user says so.
ListRead(o) ==
  /\ o.kind = "list"
  /\ \/ id \in connections /\ KeepsConnection(o) /\ (Goes(o, Scan(id)) \/ Ends(o))
     \/ id \notin connections /\ Guard /\ TakesConnection(o, NoConnection)
     \/ id \notin connections /\ TextChanged /\ KeepsConnection(o) /\ Ends(o)
  /\ UNCHANGED <<store, connections, removed, newKey, file, made, typed, written, replaced,
                 unseen, redisClicks>>

\* After a connection was saved or removed.
ListedAfter(o) ==
  /\ \/ o.kind = "saved" /\ TakesConnection(o, o.of) /\ UNCHANGED given
     \/ o.kind = "removed" /\ o.of = id /\ TakesConnection(o, NoConnection) /\ UNCHANGED given
     \/ o.kind = "removed" /\ o.of # id /\ KeepsConnection(o) /\ Ends(o)
  /\ UNCHANGED <<store, connections, removed, newKey, file, made, typed, written, replaced,
                 unseen, redisClicks>>

\* Another page of the service adds a connection, or removes one.
OtherPage(c) ==
  /\ RedisClick /\ c \notin removed
  /\ IF c \in connections THEN connections' = connections \ {c} /\ removed' = removed \union {c}
     ELSE connections' = connections \union {c} /\ UNCHANGED removed
  /\ UNCHANGED <<store, unlisted, pageVars, ops, ghosts, unseen>>

\* Another client writes or deletes a key.
OtherClient(c, k) ==
  /\ NewValue
  /\ \E value \in {Absent, made + 1} :
       /\ value # store[c][k]
       /\ store' = [store EXCEPT ![c][k] = value]
  /\ unseen' = unseen \union {<<c, k>>}
  /\ UNCHANGED <<serviceVars, pageVars, ops, typed, given, written, replaced, redisClicks>>
(***************************************************************************)
(* The specification.                                                      *)
(***************************************************************************)
Answered(o) ==
  \/ RequestFails(o) \/ ListRead(o) \/ ListedAfter(o)
  \/ Reached(o) /\ (ValueRead(o) \/ VersionRead(o) \/ CopyRead(o) \/ KeysListed(o) \/ NamespacePreviewed(o))
  \/ \E answered \in BOOLEAN :
       \/ Reached(o) /\ (KeyWritten(o, answered) \/ KeyDeleted(o, answered))
       \/ Reached(o) /\ \E deleted \in SUBSET Namespace : NamespaceDeleted(o, deleted, answered)
       \/ ConnectionRemoved(o, answered) \/ \E c \in Servers : ConnectionSaved(o, c, answered)

RedisUser ==
  \/ \E k \in Keys : OpenKey(k) \/ DeleteKey(k) \/ CopyKey(k) \/ SaveNewKey(k)
  \/ TypeValue \/ TypeTTL \/ Save \/ Expire \/ AskKeys \/ AskConnections \/ DeleteNamespace
  \/ \E c \in Servers : ChooseConnection(c) \/ RemoveConnection(c)
  \/ \E c \in Servers \union {NoConnection} : SaveConnection(c)
  \/ OpenNewKey \/ TypeNewKey \/ ChooseType \/ CloseNewKey \/ ChooseFile

RedisNext ==
  \/ RedisUser
  \/ \E o \in ops : Answered(o)
  \/ FileRead
  \/ \E c \in Servers : OtherPage(c) \/ \E k \in Keys : OtherClient(c, k)

\* A request is answered or fails.
RedisSpec == RedisInit /\ [][RedisNext]_redisVars /\ WF_redisVars(\E o \in ops : Answered(o))

(***************************************************************************)
(* Properties.                                                             *)
(***************************************************************************)
\* One handler waits at a time, a key is shown only of the chosen connection,
\* and the chosen connection is one of the profiles, unless it was removed and
\* the user has kept its draft, or removed another one, when the list was read.
ShownIsOfSelection ==
  /\ Cardinality(ops) <= 1
  /\ page.key # NoKey => page.of = id
  /\ \/ id \in profiles \/ (id = NoConnection /\ profiles = {})
     \/ unlisted /\ id \in removed

\* A text typed for a key stays in its editor or dialog until it is stored or
\* the user gives it up: no loaded value, new key, file or list of connections
\* takes its place unasked (guard, saveNewKey, new-key-file).  Only a change of
\* the new key's type does (new-key-type).
TextsAreKept == typed \subseteq given \union written \union replaced \union {page.text, newKey.text}

\* What another client has written and the page has not read since is neither
\* overwritten nor deleted by the page, except as a confirmed key of a
\* namespace (writeRedisValue, redisNamespaceAction).
OthersAreKept ==
  [][\A c \in Servers, k \in Keys :
       <<c, k>> \in unseen /\ store[c][k] \notin {Absent, store'[c][k]} =>
         \/ OtherClient(c, k)
         \/ \E o \in ops : o.kind = "namespace" /\ o.of = c /\ k \in o.keys]_redisVars

\* The page does not stay locked, whatever fails (run).
RequestsEnd == ops # {} ~> ops = {}

RedisTypeOK ==
  /\ store \in [Servers -> [Keys -> Values \union {Absent}]]
  /\ connections \union removed \union profiles \subseteq Servers
  /\ id \in Servers \union {NoConnection} /\ unlisted \in BOOLEAN
  /\ page.key \in Keys \union {NoKey} /\ page.text \in Values \union {Absent}
  /\ newKey.open \in BOOLEAN /\ file.reading \in BOOLEAN
  /\ typed \union given \union written \union replaced \subseteq 0..made /\ made \in Values
  /\ unseen \subseteq Servers \X Keys /\ redisClicks \in 0..MaxRedisClicks

\* The page shows what is chosen and keeps what is typed, one handler waiting at
\* a time (run, selectConnection, guard).
SelectionIsKept == RedisTypeOK /\ ShownIsOfSelection /\ TextsAreKept
==============================================================================
