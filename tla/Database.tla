------------------------------ MODULE Database ------------------------------
(***************************************************************************)
(* The database workspace of the page: the tabs of tables and of SQL, the  *)
(* panes below them, and the edits of rows, which stay in the page until   *)
(* they are committed.                                                     *)
(*                                                                         *)
(* A table tab keeps its rows twice: in the tab, and, while it is the      *)
(* current table, in the grid and in the fields of `ui`.  Each switch      *)
(* copies the one into the other.  An edit is a number; what rows hold,    *)
(* pages and columns are left out.  A handler is one step; loads, queries, *)
(* saves and commits go on by the steps of their answers.                  *)
(***************************************************************************)
EXTENDS Naturals, FiniteSets, SequencesExt, ListFilter

CONSTANTS
  Tables,
  Connections,
  ConnectionOf,   \* the connection of each table
  NoTable,
  MaxSQL,         \* bound on the SQL tabs ever created
  MaxEdits,       \* bound on the edits
  MaxClicks       \* bound on what the user does

ASSUME DatabaseAssumption ==
  /\ ConnectionOf \in [Tables -> Connections] /\ NoTable \notin Tables
  /\ {MaxSQL, MaxEdits, MaxClicks} \subseteq Nat \ {0}

VARIABLES
  ui,       \* the tabs, the current table, the panes
  loads,    \* table loads in flight
  saves,    \* of each table the edits that saveRows has sent
  commit,   \* what commitEdits has sent
  home,     \* the connection of each edit so far
  uncounted, \* edits in a grid that has lost the values its rows were loaded with
  agreed,   \* edits the user has agreed to discard
  saved,    \* edits whose saving the service has answered
  clicks

vars == <<ui, loads, saves, commit, home, uncounted, agreed, saved, clicks>>

SQLs == 1..MaxSQL
Edits == 1..MaxEdits
NoSQL == 0
NoPane == [kind |-> "none", id |-> NoSQL]
Table(t) == [kind |-> "table", id |-> t]
Result(s) == [kind |-> "result", id |-> s]

\* No draft is kept: `kept` says whether tab.rows is there, `original` whether
\* the values its rows were loaded with are.
Fresh == [kept |-> FALSE, rows |-> {}, original |-> TRUE, dirty |-> FALSE]
ClosedTab == [open |-> FALSE, response |-> FALSE, draft |-> Fresh,
              saving |-> FALSE, loading |-> FALSE, nonce |-> 0, progress |-> 0]
NewTab == [ClosedTab EXCEPT !.open = TRUE]
NoSession == [text |-> FALSE, controller |-> "none", query |-> FALSE,
              drafts |-> {}, saving |-> FALSE, message |-> FALSE]
\* ui.currentTableId, ui.tableResponse, the grid with ui.original and ui.dirty,
\* ui.saving.
NoCurrent == [table |-> NoTable, response |-> FALSE, draft |-> Fresh, saving |-> FALSE]
NoCommit == [busy |-> FALSE, results |-> {}, tables |-> {}, edits |-> {}, left |-> {},
             saved |-> {}, reload |-> {}, loading |-> FALSE]

IsOpen(u, t) == u.tab[t].open
Open(u) == {t \in Tables : IsOpen(u, t)}
Dirty(u) == {t \in Open(u) : u.tab[t].draft.dirty}
Edited(u) == {s \in SQLs : u.sql[s].drafts # {}}
Shown(t) == ui.active = Table(t)
Busy(t) == commit.busy \/ ui.tab[t].saving \/ ui.tab[t].loading

Init ==
  /\ ui = [tab |-> [t \in Tables |-> ClosedTab], current |-> NoCurrent,
           sql |-> [s \in SQLs |-> NoSession], order |-> <<1>>, sequence |-> 1,
           activeSQL |-> 1, bottom |-> <<>>, active |-> NoPane]
  /\ loads = {} /\ saves = [t \in Tables |-> {}] /\ commit = NoCommit
  /\ home = <<>> /\ uncounted = {} /\ agreed = {} /\ saved = {} /\ clicks = 0

(***************************************************************************)
(* The copying between the tab and the grid, and the panes.                *)
(***************************************************************************)
\* Mutant: only the paging and the view are captured, not the rows.
CaptureTableStateNoRows(u) ==
  IF u.current.response
    THEN [u EXCEPT !.tab[u.current.table].draft.dirty = u.current.draft.dirty] ELSE u

\* captureTableState: a current table that is loaded is written into its tab,
\* over whatever a load has put there meanwhile.
CaptureTableState(u) ==
  IF u.current.response
    THEN [u EXCEPT !.tab[u.current.table].response = TRUE,
                   !.tab[u.current.table].draft = [u.current.draft EXCEPT !.kept = TRUE]]
    ELSE u

\* restoreTableState and renderData: rows that are not kept come from the response.
RestoreTableState(u, t) ==
  [u EXCEPT !.current =
    [table |-> t, response |-> u.tab[t].response, saving |-> u.tab[t].saving,
     draft |-> IF u.tab[t].response /\ u.tab[t].draft.kept THEN u.tab[t].draft
               ELSE [Fresh EXCEPT !.dirty = u.tab[t].draft.dirty]]]

ActivateBottom(u, pane) ==
  LET captured == CaptureTableState(u)
      placed == [captured EXCEPT !.active = pane,
                   !.bottom = IF Contains(@, pane) THEN @ ELSE Append(@, pane)]
  IN IF pane.kind = "table" THEN RestoreTableState(placed, pane.id) ELSE placed

Without(list, gone) == Picked(list, {i \in DOMAIN list : list[i] \notin gone})

\* The last pane takes the place of one that is closed.
NextPane(u, closed) ==
  IF u.active \notin closed THEN u
  ELSE LET none == [u EXCEPT !.active = NoPane]
       IN IF u.bottom = <<>> THEN none ELSE ActivateBottom(none, Last(u.bottom))

\* One tab after the other: a pane that is shown in between is closed as well.
CloseTables(u, tables) ==
  LET panes == {Table(t) : t \in tables}
      captured == CaptureTableState(u)
      gone == [captured EXCEPT !.bottom = Without(@, panes),
                 !.tab = [t \in Tables |-> IF t \in tables THEN ClosedTab ELSE @[t]],
                 !.current = IF @.table \in tables THEN NoCurrent ELSE @]
  IN NextPane(gone, panes)

CloseResult(u, s) ==
  NextPane([CaptureTableState(u) EXCEPT !.bottom = Without(@, {Result(s)}), !.sql[s].drafts = {}],
           {Result(s)})

CloseBottomTab(u, pane) ==
  IF pane.kind = "table" THEN CloseTables(u, {pane.id}) ELSE CloseResult(u, pane.id)

\* activateSQLTab: the result is shown when there is something to show.
ActivateSQLTab(u, s) ==
  LET shown == [u EXCEPT !.activeSQL = s]
      tab == u.sql[s]
  IN IF s # u.activeSQL /\ (tab.query \/ tab.message \/ tab.controller # "none")
       THEN ActivateBottom(shown, Result(s)) ELSE shown

CreateSQLTab(u) ==
  ActivateSQLTab([u EXCEPT !.sequence = @ + 1, !.order = Append(@, u.sequence + 1)],
                 u.sequence + 1)

CloseSQLTab(u, s) ==
  LET gone == [u EXCEPT !.order = Without(@, {s}), !.bottom = Without(@, {Result(s)}),
                        !.sql[s] = NoSession]
      other == IF u.activeSQL # s THEN gone
               ELSE IF gone.order = <<>> THEN CreateSQLTab([gone EXCEPT !.activeSQL = NoSQL])
               ELSE ActivateSQLTab([gone EXCEPT !.activeSQL = NoSQL], Last(gone.order))
  IN NextPane(other, {Result(s)})

(***************************************************************************)
(* Loads of tables.                                                        *)
(***************************************************************************)
\* beginDatabaseLoad: the overlay shows the progress of the load.
BeginDatabaseLoad(u, t) == [u EXCEPT !.tab[t].progress = u.tab[t].nonce]

FinishDatabaseLoad(u, t, nonce) ==
  [u EXCEPT !.tab[t].progress = IF @ = nonce THEN 0 ELSE @]

AbortLoads(t) == {IF l.table = t THEN [l EXCEPT !.aborted = TRUE] ELSE l : l \in loads}

\* fetchTableRecord: from `u`, a load of table t, which `why` waits for.
FetchTableRecord(u, t, why) ==
  LET started == [u EXCEPT !.tab[t].nonce = @ + 1, !.tab[t].loading = TRUE]
  IN /\ ui' = BeginDatabaseLoad(started, t)
     /\ loads' = AbortLoads(t) \union
                   {[table |-> t, nonce |-> started.tab[t].nonce, why |-> why,
                     sql |-> u.activeSQL, aborted |-> FALSE]}

\* Mutant: an aborted load returns before it has said that it ended.
LoadedSilent(u, l, ok) ==
  LET t == l.table
      finished == FinishDatabaseLoad(u, t, l.nonce)
      taken == [finished EXCEPT !.tab[t].response = TRUE, !.tab[t].draft = Fresh,
                                !.tab[t].loading = FALSE]
  IN IF ok THEN IF Shown(t) THEN RestoreTableState(taken, t) ELSE taken ELSE u

\* The end of a load, answered or not.  An outdated one changes nothing.
Loaded(u, l, ok) ==
  LET t == l.table
      finished == FinishDatabaseLoad(u, t, l.nonce)
      taken == IF ok THEN [finished EXCEPT !.tab[t].response = TRUE, !.tab[t].draft = Fresh]
               ELSE finished
      ended == [taken EXCEPT !.tab[t].loading = FALSE]
  IN IF u.tab[t].nonce # l.nonce THEN finished
     ELSE IF Shown(t) THEN RestoreTableState(ended, t) ELSE ended

\* The rest of openTable: an empty editor is given a query of the table.
Prefilled(u, l) ==
  IF l.why = "open" /\ u.tab[l.table].response /\ u.activeSQL = l.sql
    THEN [u EXCEPT !.sql[l.sql].text = TRUE] ELSE u

\* The rest of saveRows.
SaveEnded(u, t) ==
  [u EXCEPT !.tab[t].saving = FALSE,
            !.current.saving = IF u.current.table = t THEN FALSE ELSE @]

EndLoad(l, ok) ==
  LET loaded == Prefilled(Loaded(ui, l, ok), l)
  IN /\ l \in loads /\ ok => ~l.aborted
     /\ loads' = loads \ {l}
     /\ ui' = IF l.why = "save" THEN SaveEnded(loaded, l.table) ELSE loaded
     /\ commit' = [commit EXCEPT !.loading = @ /\ l.why # "commit"]
     /\ UNCHANGED <<saves, home, uncounted, agreed, saved, clicks>>

(***************************************************************************)
(* What the user does to tables.  A confirmation that is refused changes   *)
(* nothing and is left out; one that is given is kept in `agreed`.         *)
(***************************************************************************)
Click == clicks < MaxClicks /\ clicks' = clicks + 1

\* What captureTableState would put into the tab of t.
DraftOf(u, t) == CaptureTableState(u).tab[t].draft
Agree(edits) == agreed' = agreed \union edits

OpenTable(t) ==
  /\ Click
  /\ IF IsOpen(ui, t)
       THEN ui' = ActivateBottom(ui, Table(t)) /\ UNCHANGED loads
       ELSE FetchTableRecord(ActivateBottom([ui EXCEPT !.tab[t] = NewTab], Table(t)), t, "open")
  /\ UNCHANGED <<saves, commit, home, uncounted, agreed, saved>>

\* Another page, or the same one again.
ReloadTable(t) ==
  /\ Click /\ Shown(t) /\ ~Busy(t)
  /\ Agree(IF DraftOf(ui, t).dirty THEN DraftOf(ui, t).rows ELSE {})
  /\ FetchTableRecord(ActivateBottom(ui, Table(t)), t, "open")
  /\ UNCHANGED <<saves, commit, home, uncounted, saved>>

StopLoad(t) ==
  /\ Click /\ Shown(t) /\ ui.tab[t].loading
  /\ loads' = AbortLoads(t)
  /\ UNCHANGED <<ui, saves, commit, home, uncounted, agreed, saved>>

\* The applied change of the designer: the table is gone, or loaded again.
ApplySchema(t, drop) ==
  /\ Click /\ Shown(t) /\ ~commit.busy /\ ~ui.tab[t].saving
  /\ Agree(IF ui.current.draft.dirty THEN ui.current.draft.rows ELSE {})
  /\ IF drop THEN /\ ui' = CloseBottomTab(ui, Table(t))
                  /\ loads' = {l \in loads : l.table # t}
     ELSE FetchTableRecord(ActivateBottom(ui, Table(t)), t, "open")
  /\ UNCHANGED <<saves, commit, home, uncounted, saved>>

ShowPane(pane) ==
  /\ Click /\ Contains(ui.bottom, pane)
  /\ ui' = ActivateBottom(ui, pane)
  /\ UNCHANGED <<loads, saves, commit, home, uncounted, agreed, saved>>

\* A tab is dragged to another place of its row.
MoveItem(list, i, j) == InsertAt(RemoveAt(list, i), j, list[i])

MoveTab ==
  /\ Click
  /\ \/ \E i, j \in 1..Len(ui.bottom) : i # j /\ ui' = [ui EXCEPT !.bottom = MoveItem(@, i, j)]
     \/ \E i, j \in 1..Len(ui.order) : i # j /\ ui' = [ui EXCEPT !.order = MoveItem(@, i, j)]
  /\ UNCHANGED <<loads, saves, commit, home, uncounted, agreed, saved>>

ClosePane(pane) ==
  /\ Click /\ Contains(ui.bottom, pane) /\ ~commit.busy
  /\ IF pane.kind = "table"
       THEN /\ ~ui.tab[pane.id].saving
            /\ Agree(IF DraftOf(ui, pane.id).dirty THEN DraftOf(ui, pane.id).rows ELSE {})
            /\ loads' = {l \in loads : l.table # pane.id}
       ELSE ~ui.sql[pane.id].saving /\ Agree(ui.sql[pane.id].drafts) /\ UNCHANGED loads
  /\ ui' = CloseBottomTab(ui, pane)
  /\ UNCHANGED <<saves, commit, home, uncounted, saved>>

\* A cell, a row or a paste into the grid.  updateDirty counts it with the other
\* changes; in a grid without its loaded values changes() fails on the first row,
\* and the edit stays in the grid but is not counted.
EditRows(t) ==
  LET e == Len(home) + 1
      counted == ui.current.draft.original
  IN /\ Click /\ Shown(t) /\ ui.current.response /\ ~Busy(t) /\ ~ui.current.saving /\ e \in Edits
     /\ home' = Append(home, ConnectionOf[t])
     /\ uncounted' = IF counted THEN uncounted ELSE uncounted \union {e}
     /\ ui' = [ui EXCEPT !.current.draft.rows = @ \union {e}, !.current.draft.dirty = @ \/ counted,
                         !.tab[t].draft.dirty = @ \/ counted]
     /\ UNCHANGED <<loads, saves, commit, agreed, saved>>

RollbackRows(t) ==
  /\ Click /\ Shown(t) /\ ui.tab[t].response /\ ~Busy(t) /\ ui.tab[t].draft.dirty
  /\ Agree(ui.current.draft.rows)
  /\ ui' = [ui EXCEPT !.tab[t].draft = Fresh, !.current.draft = Fresh]
  /\ UNCHANGED <<loads, saves, commit, home, uncounted, saved>>

\* saveRows, from the button or the keyboard; a load does not keep it off.
SaveRows(t) ==
  /\ Click /\ Shown(t) /\ ~ui.current.saving /\ ~commit.busy
  /\ ui.current.response /\ ui.current.draft.original /\ ui.current.draft.rows # {}
  /\ saves' = [saves EXCEPT ![t] = ui.current.draft.rows]
  /\ ui' = [CaptureTableState(ui) EXCEPT !.tab[t].saving = TRUE, !.current.saving = TRUE]
  /\ UNCHANGED <<loads, commit, home, uncounted, agreed, saved>>

\* The answer of `changes`; the table is loaded again, and saved only then.
RowsSaved(t) ==
  LET done == [ui EXCEPT !.tab[t].response = FALSE, !.tab[t].draft = Fresh]
  IN /\ saves[t] # {}
     /\ saved' = saved \union saves[t]
     /\ saves' = [saves EXCEPT ![t] = {}]
     /\ FetchTableRecord(IF ui.current.table = t
                           THEN [done EXCEPT !.current.response = FALSE, !.current.draft = Fresh]
                           ELSE done, t, "save")
     /\ UNCHANGED <<commit, home, uncounted, agreed, clicks>>

\* The service has refused the changes, or its answer is lost.
RowsRefused(t) ==
  /\ saves[t] # {}
  /\ saves' = [saves EXCEPT ![t] = {}]
  /\ ui' = SaveEnded(ui, t)
  /\ UNCHANGED <<loads, commit, home, uncounted, agreed, saved, clicks>>

(***************************************************************************)
(* SQL tabs, queries and the edits of their results.                       *)
(***************************************************************************)
TypeSQL ==
  /\ Click /\ ~ui.sql[ui.activeSQL].text
  /\ ui' = [ui EXCEPT !.sql[ui.activeSQL].text = TRUE]
  /\ UNCHANGED <<loads, saves, commit, home, uncounted, agreed, saved>>

AddSQLTab ==
  /\ Click /\ ui.sequence < MaxSQL
  /\ ui' = CreateSQLTab(ui)
  /\ UNCHANGED <<loads, saves, commit, home, uncounted, agreed, saved>>

SelectSQLTab(s) ==
  /\ Click /\ Contains(ui.order, s) /\ s # ui.activeSQL
  /\ ui' = ActivateSQLTab(ui, s)
  /\ UNCHANGED <<loads, saves, commit, home, uncounted, agreed, saved>>

\* The last one is replaced by a new one.
RemoveSQLTab(s) ==
  /\ Click /\ Contains(ui.order, s) /\ ~ui.sql[s].saving /\ ~commit.busy
  /\ Len(ui.order) > 1 \/ ui.sequence < MaxSQL
  /\ Agree(ui.sql[s].drafts)
  /\ ui' = CloseSQLTab(ui, s)
  /\ UNCHANGED <<loads, saves, commit, home, uncounted, saved>>

\* runSQL in the active tab, or the query of the shown result once more.
RunSQL(s) ==
  LET u == ActivateSQLTab(ui, s)
  IN /\ Click
     /\ \/ s = ui.activeSQL /\ ui.sql[s].text
        \/ ui.active = Result(s) /\ ui.sql[s].query
     /\ ui.sql[s].controller = "none" /\ ~ui.sql[s].saving /\ ~commit.busy
     /\ Agree(ui.sql[s].drafts)
     /\ ui' = ActivateBottom([u EXCEPT !.sql[s] =
                [@ EXCEPT !.controller = "waiting", !.query = FALSE, !.drafts = {},
                          !.message = TRUE]], Result(s))
     /\ UNCHANGED <<loads, saves, commit, home, uncounted, saved>>

CancelSQL(s) ==
  /\ Click
  /\ s = ui.activeSQL \/ ui.active = Result(s)
  /\ ui.sql[s].controller = "waiting"
  /\ ui' = [ui EXCEPT !.sql[s].controller = "aborted"]
  /\ UNCHANGED <<loads, saves, commit, home, uncounted, agreed, saved>>

\* The result is there; a statement's objects are read again before it ends.
QueryAnswered(s) ==
  /\ ui.sql[s].controller = "waiting"
  /\ ui' = [ui EXCEPT !.sql[s].query = TRUE, !.sql[s].message = FALSE,
                      !.sql[s].controller = "answered"]
  /\ UNCHANGED <<loads, saves, commit, home, uncounted, agreed, saved, clicks>>

\* Answered, refused or aborted.
QueryEnded(s) ==
  /\ ui.sql[s].controller # "none"
  /\ ui' = [ui EXCEPT !.sql[s].controller = "none"]
  /\ UNCHANGED <<loads, saves, commit, home, uncounted, agreed, saved, clicks>>

\* stageQueryCell or deleteQueryRows, on a row of connection c.
StageQueryRow(s, c) ==
  LET e == Len(home) + 1
  IN /\ Click /\ ui.active = Result(s) /\ ui.sql[s].query
     /\ ~ui.sql[s].saving /\ ~commit.busy /\ e \in Edits
     /\ home' = Append(home, c)
     /\ ui' = [ui EXCEPT !.sql[s].drafts = @ \union {e}]
     /\ UNCHANGED <<loads, saves, commit, uncounted, agreed, saved>>

RollbackQueryRows(s) ==
  /\ Click /\ ui.active = Result(s) /\ ui.sql[s].drafts # {}
  /\ ~ui.sql[s].saving /\ ~commit.busy
  /\ Agree(ui.sql[s].drafts)
  /\ ui' = [ui EXCEPT !.sql[s].drafts = {}]
  /\ UNCHANGED <<loads, saves, commit, home, uncounted, saved>>

(***************************************************************************)
(* commitEdits: the edits of the shown result or of every page, one        *)
(* transaction for each connection.                                        *)
(***************************************************************************)
ResultOwners(all) ==
  IF all THEN Edited(ui)
  ELSE IF ui.active.kind = "result" THEN {ui.active.id} \intersect Edited(ui) ELSE {}

CommitEdits(all) ==
  LET u == CaptureTableState(ui)
      results == ResultOwners(all)
      tables == IF all THEN Dirty(u) ELSE {}
      edits == UNION ({u.sql[s].drafts : s \in results} \union {u.tab[t].draft.rows : t \in tables})
  IN /\ Click /\ ui.active # NoPane /\ ~commit.busy /\ edits # {}
     /\ \A t \in Tables : ~ui.tab[t].saving
     /\ commit' = [NoCommit EXCEPT !.busy = TRUE, !.results = results, !.tables = tables,
                     !.edits = edits, !.left = {home[e] : e \in edits}]
     /\ ui' = [u EXCEPT
          !.sql = [s \in SQLs |-> IF s \in results THEN [@[s] EXCEPT !.saving = TRUE] ELSE @[s]],
          !.tab = [t \in Tables |-> IF t \in tables THEN [@[t] EXCEPT !.saving = TRUE] ELSE @[t]]]
     /\ UNCHANGED <<loads, saves, home, uncounted, agreed, saved>>

Group(c) == {e \in commit.edits : home[e] = c}

\* A result's row takes the values that were saved and loses its draft.
SavedDrafts(u, c) ==
  [u EXCEPT !.sql = [s \in SQLs |-> [u.sql[s] EXCEPT !.drafts = @ \ Group(c)]]]

GroupSaved(c) ==
  LET tables == {t \in commit.tables : ConnectionOf[t] = c}
  IN /\ c \in commit.left
     /\ commit' = [commit EXCEPT !.left = @ \ {c}, !.saved = @ \union tables,
                                 !.reload = @ \union tables]
     /\ ui' = SavedDrafts(ui, c)
     /\ saved' = saved \union Group(c)
     /\ UNCHANGED <<loads, saves, home, uncounted, agreed, clicks>>

GroupRefused(c) ==
  /\ c \in commit.left
  /\ commit' = [commit EXCEPT !.left = @ \ {c}]
  /\ UNCHANGED <<ui, loads, saves, home, uncounted, agreed, saved, clicks>>

\* The drafts of a saved table are dropped.  Of the current one the grid keeps
\* its rows and loses the values they were loaded with.
SavedTable(u, t) ==
  [u EXCEPT !.tab[t].draft = Fresh,
            !.current.draft = IF u.current.table = t
                                THEN [@ EXCEPT !.dirty = FALSE, !.original = ~u.current.response]
                                ELSE @]

ReloadSaved(t) ==
  /\ commit.busy /\ commit.left = {} /\ ~commit.loading /\ t \in commit.reload
  /\ commit' = [commit EXCEPT !.reload = @ \ {t}, !.loading = TRUE]
  /\ FetchTableRecord(SavedTable(ui, t), t, "commit")
  /\ UNCHANGED <<saves, home, uncounted, agreed, saved, clicks>>

CommitEnds ==
  LET u == [ui EXCEPT
        !.sql = [s \in SQLs |-> [ui.sql[s] EXCEPT !.saving = @ /\ s \notin commit.results]],
        !.tab = [t \in Tables |-> [ui.tab[t] EXCEPT !.saving = @ /\ t \notin commit.tables]]]
      t == u.current.table
  IN /\ commit.busy /\ commit.left = {} /\ commit.reload = {} /\ ~commit.loading
     /\ commit' = NoCommit
     /\ ui' = IF t = NoTable THEN u
              ELSE IF Shown(t) /\ t \in commit.saved THEN RestoreTableState(u, t)
              ELSE [u EXCEPT !.current.saving = u.tab[t].saving]
     /\ UNCHANGED <<loads, saves, home, uncounted, agreed, saved, clicks>>

\* A connection is saved or deleted: connectionTabsGuard, clearConnectionTabs.
\* Every query reads from every connection.  What becomes of the targets of the
\* tabs is in DatabaseEditor (ConnectionChanged).
ClearConnection(c) ==
  LET tables == {t \in Open(ui) : ConnectionOf[t] = c}
      captured == CaptureTableState(ui)
      queried == {s \in SQLs : ui.sql[s].query}
      closed == CloseTables(ui, tables)
  IN /\ Click /\ ~commit.busy /\ \A t \in tables : ~ui.tab[t].saving
     /\ Agree(UNION ({captured.sql[s].drafts : s \in queried}
                       \union {captured.tab[t].draft.rows : t \in tables \intersect Dirty(captured)}))
     /\ ui' = [closed EXCEPT !.sql = [s \in SQLs |->
                 IF s \in queried THEN [@[s] EXCEPT !.query = FALSE, !.drafts = {}, !.message = FALSE]
                 ELSE @[s]]]
     /\ loads' = {l \in loads : l.table \notin tables}
     /\ UNCHANGED <<saves, commit, home, uncounted, saved>>

(***************************************************************************)
(* The specification.                                                      *)
(***************************************************************************)
Answers ==
  \/ \E l \in loads, ok \in BOOLEAN : EndLoad(l, ok)
  \/ \E t \in Tables : RowsSaved(t) \/ RowsRefused(t) \/ ReloadSaved(t)
  \/ \E s \in SQLs : QueryAnswered(s) \/ QueryEnded(s)
  \/ \E c \in Connections : GroupSaved(c) \/ GroupRefused(c)
  \/ CommitEnds

User ==
  \/ \E t \in Tables : \/ OpenTable(t) \/ ReloadTable(t) \/ StopLoad(t)
                       \/ \E drop \in BOOLEAN : ApplySchema(t, drop)
                       \/ EditRows(t) \/ RollbackRows(t) \/ SaveRows(t)
  \/ \E pane \in ToSet(ui.bottom) : ShowPane(pane) \/ ClosePane(pane)
  \/ MoveTab \/ TypeSQL \/ AddSQLTab
  \/ \E s \in SQLs : \/ SelectSQLTab(s) \/ RemoveSQLTab(s) \/ RunSQL(s) \/ CancelSQL(s)
                     \/ RollbackQueryRows(s)
                     \/ \E c \in Connections : StageQueryRow(s, c)
  \/ \E all \in BOOLEAN : CommitEdits(all)
  \/ \E c \in Connections : ClearConnection(c)

Next == Answers \/ User

\* A request ends: it is answered, refused or aborted.
Fairness ==
  /\ \A t \in Tables :
       /\ WF_vars(\E l \in loads, ok \in BOOLEAN : l.table = t /\ EndLoad(l, ok))
       /\ WF_vars(RowsSaved(t) \/ RowsRefused(t)) /\ WF_vars(ReloadSaved(t))
  /\ \A s \in SQLs : WF_vars(QueryEnded(s))
  /\ \A c \in Connections : WF_vars(GroupSaved(c) \/ GroupRefused(c))
  /\ WF_vars(CommitEnds)

Spec == Init /\ [][Next]_vars /\ Fairness

(***************************************************************************)
(* Properties.                                                             *)
(***************************************************************************)
\* What a table would warn of before it is closed: the rows of its grid, or of
\* its tab when another table is current.
RowsIn(u, t) ==
  LET draft == DraftOf(u, t) IN IF IsOpen(u, t) /\ draft.dirty THEN draft.rows ELSE {}
PendingRows(t) == RowsIn(ui, t)
Pending == UNION ({PendingRows(t) : t \in Tables} \union {ui.sql[s].drafts : s \in SQLs})

\* The panes are of open tabs, the shown one is among them, and a table with
\* counted drafts has the values its rows were loaded with.
TypeOK ==
  /\ \A i \in 1..Len(ui.bottom) :
       IF ui.bottom[i].kind = "table" THEN IsOpen(ui, ui.bottom[i].id)
       ELSE Contains(ui.order, ui.bottom[i].id)
  /\ ui.active = NoPane \/ Contains(ui.bottom, ui.active)
  /\ ui.activeSQL \in ToSet(ui.order)
  /\ ui.current.table = NoTable \/ IsOpen(ui, ui.current.table)
  /\ ui.current.draft.dirty => ui.current.draft.original
  /\ \A t \in Tables : ui.tab[t].draft.dirty => ui.tab[t].draft.original
  /\ agreed \union saved \subseteq 1..Len(home)

\* An edit of a row stays pending, in whichever tab or pane it was made, until
\* its saving is answered or the user has agreed to discard it
\* (captureTableState and the confirmations).  Excused are the edits of a grid that
\* a commit has left without its loaded values (updateDirty, changes).
DraftsAreKept == 1..Len(home) \subseteq Pending \union agreed \union saved \union uncounted

\* The README on tables: "Closing a table with pending edits asks before
\* discarding them."
ClosingAsks ==
  [][\A t \in Tables : IsOpen(ui, t) /\ ~IsOpen(ui', t) =>
       DraftOf(ui, t).rows \subseteq agreed' \union saved]_vars

\* What was saved is not pending once the commit is over, so no later commit
\* sends it again (commitEdits, saveRows).
SavedIsNotPending == ~commit.busy => Pending \intersect saved = {}

\* A table that is loading shows the progress of that load, also when the load
\* it has replaced ends after it began (finishDatabaseLoad).
LoadingIsShown ==
  \A t \in Tables : ui.tab[t].loading => ui.tab[t].progress = ui.tab[t].nonce

\* No table stays loading or saving, no commit goes on for ever, whatever the
\* service refuses and the user stops or closes meanwhile.
BusyEnds ==
  /\ \A t \in Tables : /\ ui.tab[t].loading ~> ~ui.tab[t].loading
                       /\ ui.tab[t].saving ~> ~ui.tab[t].saving
  /\ commit.busy ~> ~commit.busy

\* Panes, drafts and loads agree: nothing the user typed is lost or sent twice,
\* and what loads is shown to load (captureTableState, commitEdits,
\* finishDatabaseLoad).
WorkIsKept == TypeOK /\ DraftsAreKept /\ SavedIsNotPending /\ LoadingIsShown
=============================================================================
