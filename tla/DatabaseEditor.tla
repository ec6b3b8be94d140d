---------------------------- MODULE DatabaseEditor ----------------------------
(***************************************************************************)
(* What is written and chosen around the SQL of the database workspace:    *)
(* the picker that fills the places of the text, the targets a query is    *)
(* sent to, the designer of tables, and the password of a connection.      *)
(*                                                                         *)
(* Each of them asks the service while the user goes on (`asked`), and     *)
(* takes the answer only if it is still for what the page shows: `nonce`   *)
(* counts what makes an answer outdated.  Of a text the table it names is  *)
(* kept, and how often it has changed; of a form how often it has changed. *)
(***************************************************************************)
EXTENDS Database

CONSTANTS
  Databases,
  DatabaseOf,     \* the database of each table
  ProfileOf,      \* the connection of each database
  NoProfile,
  MaxTargets,     \* 16 in the code
  MaxEditorClicks \* bound on what the user does

ASSUME EditorAssumption ==
  /\ DatabaseOf \in [Tables -> Databases] /\ ProfileOf \in [Databases -> Connections]
  /\ NoProfile \notin Connections /\ {MaxTargets, MaxEditorClicks} \subseteq Nat \ {0}

VARIABLES
  active, text,           \* ui.activeSQL; what each tab holds
  picker,                 \* the inline picker
  sqlTabs, targets, running, \* the SQL tabs, the targets of each, whose query runs
  epoch, catalog, groups, \* the target picker; changes of a whole connection
  uiProfiles, stored,     \* the connections the page lists, those the service has
  changes,                \* connections that are being saved, deleted or listed
  designer, password,     \* the designer; the form of a connection
  editorClicks

connectionVars == <<uiProfiles, stored, changes>>
targetVars == <<sqlTabs, targets, running, epoch, catalog, groups, connectionVars>>
editorVars == <<active, text, picker, targetVars, designer, password, editorClicks>>

EditorClick == editorClicks < MaxEditorClicks /\ editorClicks' = editorClicks + 1

NoPicker == [open |-> FALSE, nonce |-> 0, sql |-> NoSQL, version |-> 0, kind |-> "table",
             pending |-> "none", listed |-> FALSE, choice |-> NoTable, columns |-> NoTable,
             asked |-> {}]
NoPlan == [form |-> 0, mode |-> 0, target |-> NoTable]
\* `mode` is 0 for the designer of the shown table, else the object that
\* openTemplateDesigner has made, for the SQL tab `sql`.
NoDesigner == [open |-> FALSE, mode |-> 0, made |-> 0, sql |-> NoSQL, nonce |-> 0,
               listed |-> FALSE, loading |-> FALSE, target |-> NoTable, form |-> 1,
               preview |-> 0, plan |-> NoPlan, sent |-> FALSE, asked |-> {}]
NoPassword == [form |-> NoProfile, request |-> 0, value |-> NoProfile, typed |-> FALSE,
               visible |-> FALSE, asked |-> {}]
\* tab.checked, tab.targetsExplicit, and tab.focus when there is one.
NoTargets == [checked |-> {}, explicit |-> FALSE, focus |-> {}]

EditorInit ==
  /\ active = 1
  /\ text = [s \in SQLs |-> [table |-> NoTable, context |-> NoTable, version |-> 0]]
  /\ picker = NoPicker
  /\ sqlTabs = {1} /\ targets = [s \in SQLs |-> NoTargets] /\ running = {} /\ epoch = 0
  /\ catalog = [p \in Connections |-> [state |-> "unknown", request |-> 0]] /\ groups = <<>>
  /\ uiProfiles = Connections /\ stored = Connections /\ changes = {}
  /\ designer = NoDesigner /\ password = NoPassword /\ editorClicks = 0

(***************************************************************************)
(* The inline picker: of a table, of a field or other part of the table    *)
(* the text names, or of a table to be joined.                             *)
(***************************************************************************)
Ask(kind, p, t) == [p EXCEPT !.asked = @ \union {[kind |-> kind, nonce |-> p.nonce, table |-> t]}]

CloseInlinePicker(p) == [NoPicker EXCEPT !.nonce = p.nonce + 1, !.asked = p.asked]

\* loadInlineObjects, and renderJoinPicker, which asks for the same list.
LoadInlineObjects(p, near) ==
  Ask("objects", [p EXCEPT !.nonce = @ + 1, !.listed = FALSE, !.columns = NoTable], near)

\* loadInlineMetadata, and loadJoinColumns for the table to be joined.
LoadInlineMetadata(p, t) ==
  Ask("columns", [p EXCEPT !.nonce = @ + 1, !.listed = TRUE, !.choice = t, !.columns = NoTable], t)

ContextMatchesTable(tab) == tab.table # NoTable /\ tab.context = tab.table

\* What openInlinePicker shows once the text's table is known.
Offer(p, t) ==
  IF p.kind = "join" THEN LoadInlineObjects(p, t) ELSE [p EXCEPT !.choice = t, !.columns = t]

OpenInlinePicker(p, tab, kind) ==
  LET opened == [CloseInlinePicker(p) EXCEPT !.open = TRUE, !.sql = active,
                   !.version = tab.version, !.kind = kind]
  IN IF kind = "table" THEN LoadInlineObjects(opened, tab.context)
     ELSE IF ContextMatchesTable(tab) THEN Offer(opened, tab.table)
     ELSE Ask("resolve", opened, tab.table)

OpenPicker(kind) ==
  /\ EditorClick /\ picker' = OpenInlinePicker(picker, text[active], kind)
  /\ UNCHANGED <<active, text, targetVars, designer, password>>

PickerWaits(a) == picker.open /\ picker.nonce = a.nonce /\ picker.sql = active

\* The table of the text is found or not; then one has to be chosen first.
TableResolved(p, a) ==
  /\ a.kind = "resolve"
  /\ \/ /\ a.table # NoTable /\ picker' = Offer(p, a.table)
        /\ text' = [text EXCEPT ![active].context = a.table]
     \/ /\ text' = [text EXCEPT ![active].context = NoTable]
        /\ picker' = LoadInlineObjects([p EXCEPT !.kind = "table", !.pending = p.kind], NoTable)

\* The table of the context is chosen when it is in the list.
ObjectsListed(p, a) ==
  /\ a.kind = "objects" /\ UNCHANGED text
  /\ picker' \in {LoadInlineMetadata(p, t) : t \in IF a.table = NoTable THEN Tables ELSE {a.table}}

ColumnsRead(p, a) ==
  a.kind = "columns" /\ picker' = [p EXCEPT !.columns = a.table] /\ UNCHANGED text

\* An answer, one that is outdated, or an error, which is only shown.
PickerAnswered(a) ==
  LET rest == [picker EXCEPT !.asked = @ \ {a}]
  IN /\ IF PickerWaits(a)
          THEN \/ TableResolved(rest, a) \/ ObjectsListed(rest, a) \/ ColumnsRead(rest, a)
               \/ a.kind # "resolve" /\ picker' = rest /\ UNCHANGED text
          ELSE picker' = rest /\ UNCHANGED text
     /\ UNCHANGED <<active, targetVars, designer, password, editorClicks>>

\* Another source, or another table of the list.
ChooseSource ==
  /\ EditorClick /\ picker.open /\ picker.kind = "table"
  /\ picker' = LoadInlineObjects(picker, NoTable)
  /\ UNCHANGED <<active, text, targetVars, designer, password>>

ChooseTable(t) ==
  /\ EditorClick /\ picker.open /\ picker.listed /\ t # picker.choice
  /\ picker' = LoadInlineMetadata(picker, t)
  /\ UNCHANGED <<active, text, targetVars, designer, password>>

\* The text is written, which closes the picker; the part that was asked for
\* is picked next.
ApplyInlinePicker ==
  LET tab == text[active]
      chosen == IF picker.kind = "join" THEN [tab EXCEPT !.version = @ + 1]
                ELSE [table |-> IF picker.kind = "table" THEN picker.columns ELSE tab.table,
                      context |-> picker.columns, version |-> tab.version + 1]
  IN /\ EditorClick /\ picker.open /\ picker.sql = active /\ picker.columns # NoTable
     /\ text' = [text EXCEPT ![active] = chosen]
     /\ picker' = IF picker.pending = "none" THEN CloseInlinePicker(picker)
                  ELSE OpenInlinePicker(CloseInlinePicker(picker), chosen, picker.pending)
     /\ UNCHANGED <<active, targetVars, designer, password>>

Written(tab, t, context) == [table |-> t, context |-> context, version |-> tab.version + 1]

EditorChanged(p) == IF p.open THEN CloseInlinePicker(p) ELSE p

\* The user types, and may name another table.
TypeText(t) ==
  /\ EditorClick
  /\ text' = [text EXCEPT ![active] = Written(@, t, @.context)]
  /\ picker' = EditorChanged(picker)
  /\ UNCHANGED <<active, targetVars, designer, password>>

\* A template is written for the table that was picked last; if none was, for
\* the one that is shown, when it is of the query's target.
FillTemplate ==
  /\ EditorClick
  /\ \E t \in IF text[active].context = NoTable THEN Tables \union {NoTable}
              ELSE {text[active].context} :
       text' = [text EXCEPT ![active] = Written(@, t, t)]
  /\ picker' = CloseInlinePicker(picker)
  /\ UNCHANGED <<active, targetVars, designer, password>>

\* Another pane, the list of targets, Escape, or a click beside it.
LeavePicker ==
  /\ EditorClick /\ picker.open /\ picker' = CloseInlinePicker(picker)
  /\ UNCHANGED <<active, text, targetVars, designer, password>>

(***************************************************************************)
(* The targets of a query.                                                 *)
(***************************************************************************)
OfProfile(p) == {d \in Databases : ProfileOf[d] = p}
OfProfiles(list) == {d \in Databases : ProfileOf[d] \in list}
Overtaken(gs) == [i \in DOMAIN gs |-> [gs[i] EXCEPT !.overtaken = TRUE]]

\* targetList: without a choice of the user the database in focus.
TargetList(c) == IF c.checked = {} /\ ~c.explicit THEN c.focus ELSE c.checked

\* activateSQLTab: of the tab's targets those are shown that are still listed.
ActivateTab(all, s) ==
  /\ active' = s /\ picker' = CloseInlinePicker(picker)
  /\ epoch' = epoch + 1 /\ groups' = Overtaken(groups)
  /\ targets' = [all EXCEPT ![s] = [checked |-> @.checked \intersect OfProfiles(uiProfiles),
                   explicit |-> @.explicit, focus |-> @.focus \intersect OfProfiles(uiProfiles)]]

SelectTab(s) ==
  /\ EditorClick /\ s \in sqlTabs /\ s # active /\ ActivateTab(targets, s)
  /\ UNCHANGED <<text, sqlTabs, running, catalog, connectionVars, designer, password>>

\* createSQLTab: with the targets of the tab that was shown.
CreateTab(s) ==
  /\ EditorClick /\ s \notin sqlTabs /\ sqlTabs' = sqlTabs \union {s}
  /\ ActivateTab([targets EXCEPT ![s] = targets[active]], s)
  /\ UNCHANGED <<text, running, catalog, connectionVars, designer, password>>

\* A database of the tree, or an opened table, comes into focus.
FocusDatabase(d) ==
  /\ EditorClick /\ ProfileOf[d] \in uiProfiles
  /\ targets' = [targets EXCEPT ![active].focus = {d}]
  /\ UNCHANGED <<active, text, picker, sqlTabs, running, epoch, catalog, groups, connectionVars,
                 designer, password>>

\* To all targets, or to the one that is chosen among them and the focus.
StartQuery ==
  /\ EditorClick /\ active \notin running
  /\ TargetList(targets[active]) \union targets[active].focus # {}
  /\ running' = running \union {active}
  /\ picker' = CloseInlinePicker(picker)
  /\ UNCHANGED <<active, text, sqlTabs, targets, epoch, catalog, groups, connectionVars,
                 designer, password>>

EndQuery(s) ==
  /\ s \in running /\ running' = running \ {s}
  /\ UNCHANGED <<active, text, picker, sqlTabs, targets, epoch, catalog, groups, connectionVars,
                 designer, password, editorClicks>>

\* commitTargets: more than the limit are refused.
CommitTargets(all, s, set) ==
  IF Cardinality(set) > MaxTargets THEN all
  ELSE [all EXCEPT ![s] = [checked |-> set, explicit |-> TRUE, focus |-> @.focus]]

ToggleTarget(d) ==
  LET old == TargetList(targets[active])
  IN /\ EditorClick /\ active \notin running /\ ProfileOf[d] \in uiProfiles
     /\ targets' = CommitTargets(targets, active, IF d \in old THEN old \ {d} ELSE old \union {d})
     /\ UNCHANGED <<active, text, picker, sqlTabs, running, epoch, catalog, groups, connectionVars,
                    designer, password>>

ClearTargets ==
  /\ EditorClick /\ active \notin running
  /\ targets' = CommitTargets(targets, active, {})
  /\ epoch' = epoch + 1 /\ groups' = Overtaken(groups)
  /\ UNCHANGED <<active, text, picker, sqlTabs, running, catalog, connectionVars, designer, password>>

\* Mutant: only the tab is compared.
GroupStandsForTab(g) == g.sql = active /\ active \notin running

GroupStands(g) == g.sql = active /\ active \notin running /\ g.epoch = epoch

\* The rest of changePickedTargets, after the catalog is there.
GroupPicked(all, g) ==
  LET old == TargetList(all[g.sql])
  IN IF ~GroupStands(g) THEN all
     ELSE CommitTargets(all, g.sql, IF g.on THEN old \union OfProfile(g.profile)
                                    ELSE old \ OfProfile(g.profile))

CatalogIs(p, state) == catalog' = [catalog EXCEPT ![p].state = state]

\* All databases of a connection; a catalog that is asked for is asked once.
ToggleGroup(p, on) ==
  LET g == [profile |-> p, on |-> on, sql |-> active, epoch |-> epoch,
            request |-> catalog[p].request, overtaken |-> FALSE]
  IN /\ EditorClick /\ active \notin running /\ p \in uiProfiles
     /\ IF catalog[p].state = "there"
          THEN targets' = GroupPicked(targets, g) /\ UNCHANGED <<catalog, groups>>
          ELSE CatalogIs(p, "asked") /\ groups' = Append(groups, g) /\ UNCHANGED targets
     /\ UNCHANGED <<active, text, picker, sqlTabs, running, epoch, connectionVars, designer, password>>

\* toggleConnection: the databases are listed.
ExpandProfile(p) ==
  /\ EditorClick /\ p \in uiProfiles /\ catalog[p].state \in {"unknown", "failed"}
  /\ CatalogIs(p, "asked")
  /\ UNCHANGED <<active, text, picker, sqlTabs, targets, running, epoch, groups, connectionVars,
                 designer, password>>

Waits(g, p, n) == g.profile = p /\ g.request = n
WaitFor(p, n) == Picked(groups, {i \in DOMAIN groups : Waits(groups[i], p, n)})

\* One after the other.
AllPicked(all, gs) ==
  LET after[i \in 0..Len(gs)] == IF i = 0 THEN all ELSE GroupPicked(after[i - 1], gs[i])
  IN after[Len(gs)]

\* All who wait for the catalog go on, in their order; they also wait for one
\* that the page has dropped since, with its connection.
CatalogRead(p, n, ok) ==
  /\ IF n = catalog[p].request
       THEN catalog[p].state = "asked" /\ CatalogIs(p, IF ok THEN "there" ELSE "failed")
       ELSE WaitFor(p, n) # <<>> /\ UNCHANGED catalog
  /\ targets' = IF ok THEN AllPicked(targets, WaitFor(p, n)) ELSE targets
  /\ groups' = Picked(groups, {i \in DOMAIN groups : ~Waits(groups[i], p, n)})
  /\ UNCHANGED <<active, text, picker, sqlTabs, running, epoch, connectionVars, designer, password,
                 editorClicks>>

\* The requests of p for which somebody waits.
Requests(p) == {catalog[p].request} \union {groups[i].request : i \in DOMAIN groups}

(***************************************************************************)
(* The designer: of the shown table, or of a statement for the SQL tab.    *)
(***************************************************************************)
Draw(kind, nonce, d, t) ==
  [d EXCEPT !.asked = @ \union {[kind |-> kind, nonce |-> nonce, mode |-> d.mode, form |-> d.form, table |-> t]}]

ClearPlan(d) == [d EXCEPT !.preview = @ + 1, !.plan = NoPlan, !.sent = FALSE]
ResetTemplateDesigner(d) == [d EXCEPT !.nonce = @ + 1, !.mode = 0, !.sql = NoSQL, !.loading = FALSE]
CloseDialog(d) ==
  ClearPlan([ResetTemplateDesigner(d) EXCEPT !.open = FALSE, !.listed = FALSE, !.target = NoTable])

\* Objects and columns are asked for; the fields are empty meanwhile.
LoadsSchema(d, listed) ==
  ClearPlan([d EXCEPT !.nonce = @ + 1, !.listed = listed, !.loading = TRUE, !.target = NoTable])
LoadTemplateSchemaObjects(d) == Draw("objects", d.nonce + 1, LoadsSchema(d, FALSE), NoTable)
LoadTemplateSchemaColumns(d, t) == Draw("columns", d.nonce + 1, LoadsSchema(d, TRUE), t)

OpenDesigner(t) ==
  /\ EditorClick /\ ~designer.open
  /\ designer' = ClearPlan([ResetTemplateDesigner(designer) EXCEPT !.open = TRUE, !.target = t, !.form = @ + 1])
  /\ UNCHANGED <<active, text, picker, targetVars, password>>

OpenTemplateDesigner ==
  /\ EditorClick /\ ~designer.open
  /\ designer' = LoadTemplateSchemaObjects(
       [designer EXCEPT !.open = TRUE, !.made = @ + 1, !.mode = designer.made + 1,
                        !.sql = active, !.form = @ + 1])
  /\ picker' = CloseInlinePicker(picker)
  /\ UNCHANGED <<active, text, targetVars, password>>

ChooseSchemaSource ==
  /\ EditorClick /\ designer.open /\ designer.mode # 0
  /\ designer' = LoadTemplateSchemaObjects(designer)
  /\ UNCHANGED <<active, text, picker, targetVars, password>>

ChooseSchemaTable(t) ==
  /\ EditorClick /\ designer.open /\ designer.mode # 0 /\ designer.listed
  /\ designer' = LoadTemplateSchemaColumns(designer, t)
  /\ UNCHANGED <<active, text, picker, targetVars, password>>

\* Any input of the form drops the plan.
FormChanged(d) == ClearPlan([d EXCEPT !.form = @ + 1])

EditForm ==
  /\ EditorClick /\ designer.open /\ ~designer.loading
  /\ designer' = FormChanged(designer)
  /\ UNCHANGED <<active, text, picker, targetVars, password>>

PreviewSchema ==
  LET next == [ClearPlan(designer) EXCEPT !.preview = @ + 1]
  IN /\ EditorClick /\ designer.open /\ ~designer.loading
     /\ designer' = Draw("preview", next.preview, next, next.target)
     /\ UNCHANGED <<active, text, picker, targetVars, password>>

\* The SQL of the preview is shown, unless the form has changed or is closed.
PreviewRead(d, a) ==
  IF a.nonce = d.preview /\ a.mode = d.mode /\ d.open
    THEN [d EXCEPT !.plan = [form |-> a.form, mode |-> a.mode, target |-> a.table], !.sent = FALSE]
    ELSE d

SchemaWaits(d, a) == a.mode = d.mode /\ a.nonce = d.nonce

\* An answer, one that is outdated, or an error, which is only shown; of a
\* change that is applied the error drops the plan.
DesignerAnswered(a) ==
  LET rest == [designer EXCEPT !.asked = @ \ {a}]
  IN /\ \/ a.kind = "preview" /\ designer' \in {rest, PreviewRead(rest, a)}
        \/ a.kind = "apply" /\ designer' \in {CloseDialog(rest), ClearPlan(rest)}
        \/ a.kind = "objects" /\ SchemaWaits(rest, a)
           /\ designer' \in {LoadTemplateSchemaColumns(rest, t) : t \in Tables}
        \/ a.kind = "columns" /\ SchemaWaits(rest, a)
           /\ designer' = FormChanged([rest EXCEPT !.target = a.table, !.loading = FALSE])
        \/ a.kind \in {"objects", "columns"} /\ designer' = rest
     /\ UNCHANGED <<active, text, picker, targetVars, password, editorClicks>>

\* Of the shown table the change is sent, for an SQL tab its text is written.
ApplyPlan ==
  /\ EditorClick /\ designer.plan # NoPlan /\ ~designer.sent
  /\ IF designer.plan.mode = 0
       THEN /\ designer' = [Draw("apply", 0, designer, designer.plan.target) EXCEPT !.sent = TRUE]
            /\ UNCHANGED <<text, picker>>
       ELSE /\ designer.plan.mode = designer.mode /\ designer.sql = active
            /\ text' = [text EXCEPT ![active] = Written(@, designer.plan.target, designer.plan.target)]
            /\ picker' = EditorChanged(picker)
            /\ designer' = CloseDialog(designer)
  /\ UNCHANGED <<active, targetVars, password>>

CloseDesigner ==
  /\ EditorClick /\ designer.open /\ designer' = CloseDialog(designer)
  /\ UNCHANGED <<active, text, picker, targetVars, password>>

(***************************************************************************)
(* The password of a stored connection, shown in its form on request.      *)
(***************************************************************************)
Form(p) == [NoPassword EXCEPT !.form = p, !.request = password.request + 1, !.asked = password.asked]

OpenConnectionForm(p) ==
  /\ EditorClick /\ p \in uiProfiles /\ password.form = NoProfile /\ password' = Form(p)
  /\ UNCHANGED <<active, text, picker, targetVars, designer>>

\* Closed without saving.  Not counted as a click: it takes one to open the form
\* again.
CloseConnectionForm ==
  /\ password.form # NoProfile /\ password' = Form(NoProfile)
  /\ UNCHANGED <<active, text, picker, targetVars, designer, editorClicks>>

TypePassword ==
  /\ EditorClick /\ password.form # NoProfile
  /\ password' = [password EXCEPT !.request = @ + 1, !.typed = TRUE, !.value = NoProfile]
  /\ UNCHANGED <<active, text, picker, targetVars, designer>>

ToggleConnectionPassword ==
  LET next == [password EXCEPT !.request = @ + 1]
  IN /\ EditorClick /\ password.form # NoProfile
     /\ password' =
          IF password.visible \/ password.typed \/ password.value # NoProfile
            THEN [next EXCEPT !.visible = ~@]
            ELSE [next EXCEPT !.asked = @ \union {[request |-> next.request, profile |-> next.form]}]
     /\ UNCHANGED <<active, text, picker, targetVars, designer>>

\* Mutant: only that a form is open is looked at.
StillAskedOpen(a) == password.form # NoProfile

StillAsked(a) == a.request = password.request /\ a.profile = password.form

PasswordRead(a, ok) ==
  LET rest == [password EXCEPT !.asked = @ \ {a}]
  IN /\ password' = IF ok /\ StillAsked(a) THEN [rest EXCEPT !.value = a.profile, !.visible = TRUE]
                    ELSE rest
     /\ UNCHANGED <<active, text, picker, targetVars, designer, editorClicks>>

(***************************************************************************)
(* A connection is saved or deleted in its form.                           *)
(***************************************************************************)
Lacking(c, p) == [checked |-> c.checked \ OfProfile(p), explicit |-> c.explicit,
                  focus |-> c.focus \ OfProfile(p)]

\* clearConnectionTabs, and what its callers do to the shown tab: the targets it
\* has checked go when the connection was saved, else with the list.
Cleared(kind, p) ==
  [s \in SQLs |-> IF s = active /\ kind = "delete"
                    THEN [Lacking(targets[s], p) EXCEPT !.checked = targets[s].checked]
                    ELSE Lacking(targets[s], p)]

\* Entries of ui.catalogs are dropped; what was asked for answers to nobody new.
Dropped(gone) ==
  [p \in Connections |->
     IF p \in gone /\ catalog[p].state # "unknown"
       THEN [state |-> "unknown", request |-> catalog[p].request + 1] ELSE catalog[p]]

\* The form is sent, or the connections are only listed again (kind "list"), for
\* the list of them or for the tree, which drops its catalogs.
\* `known` is what the service had when the list was asked for.
Sent(kind, p) ==
  [kind |-> kind, profile |-> p, listing |-> kind = "list",
   known |-> IF kind = "list" THEN stored ELSE {}]

SendConnection(kind) ==
  /\ EditorClick /\ (kind = "list" \/ password.form # NoProfile)
  /\ changes' = changes \union {Sent(kind, password.form)}
  /\ catalog' \in {catalog, IF kind = "list" THEN Dropped(Connections) ELSE catalog}
  /\ UNCHANGED <<active, text, picker, sqlTabs, targets, running, epoch, groups, uiProfiles, stored,
                 designer, password>>

\* One that was deleted meanwhile is stored again when it is saved.
StoredAfter(r) == IF r.kind = "delete" THEN stored \ {r.profile} ELSE stored \union {r.profile}

\* The service has done it; the connections are listed next, in an open form.
ConnectionChanged(r) ==
  LET p == r.profile
  IN /\ r \in changes /\ ~r.listing /\ (r.kind = "delete" => p \in stored)
     /\ stored' = StoredAfter(r)
     /\ changes' = (changes \ {r}) \union {[r EXCEPT !.listing = TRUE, !.known = stored']}
     /\ targets' = Cleared(r.kind, p)
     /\ text' = [s \in SQLs |-> IF text[s].context \in {t \in Tables : ProfileOf[DatabaseOf[t]] = p}
                                  THEN [text[s] EXCEPT !.context = NoTable] ELSE text[s]]
     /\ catalog' = IF r.kind = "save" THEN Dropped({p}) ELSE catalog
     /\ UNCHANGED <<active, picker, sqlTabs, running, epoch, groups, uiProfiles, designer, password,
                    editorClicks>>

\* loadProfiles; then closeDialog, and a saved connection is expanded, which reads
\* its databases unless they are there.
ConnectionsListed(r) ==
  /\ r \in changes /\ r.listing
  /\ \E list \in SUBSET (r.known \union stored) :
       LET kept == Dropped(Connections \ list)
       IN /\ r.known \intersect stored \subseteq list
          /\ uiProfiles' = list
          /\ targets' = [targets EXCEPT ![active].checked = @ \intersect OfProfiles(list)]
          /\ \/ catalog' = kept /\ (r.kind = "save" => kept[r.profile].state # "unknown")
             \/ /\ r.kind = "save" /\ kept[r.profile].state \in {"unknown", "failed"}
                /\ catalog' = [kept EXCEPT ![r.profile].state = "asked"]
  /\ changes' = changes \ {r}
  /\ password' = IF r.kind = "list" THEN password ELSE Form(NoProfile)
  /\ UNCHANGED <<active, text, picker, sqlTabs, running, epoch, groups, stored, designer, editorClicks>>

\* Refused, or the answer is lost: it is only shown.
ConnectionFailed(r) ==
  /\ r \in changes /\ changes' = changes \ {r}
  /\ stored' \in {stored, IF r.listing THEN stored ELSE StoredAfter(r)}
  /\ UNCHANGED <<active, text, picker, sqlTabs, targets, running, epoch, catalog, groups, uiProfiles,
                 designer, password, editorClicks>>

(***************************************************************************)
(* The specification.                                                      *)
(***************************************************************************)
EditorNext ==
  \/ \E kind \in {"table", "field", "join"} : OpenPicker(kind)
  \/ \E a \in picker.asked : PickerAnswered(a)
  \/ ChooseSource \/ ApplyInlinePicker \/ FillTemplate \/ LeavePicker
  \/ \E t \in Tables : ChooseTable(t) \/ TypeText(t) \/ OpenDesigner(t) \/ ChooseSchemaTable(t)
  \/ \E s \in SQLs : SelectTab(s) \/ CreateTab(s) \/ EndQuery(s)
  \/ StartQuery \/ ClearTargets \/ \E d \in Databases : ToggleTarget(d) \/ FocusDatabase(d)
  \/ \E p \in Connections : \/ ExpandProfile(p) \/ OpenConnectionForm(p)
                         \/ \E ok \in BOOLEAN : \/ ToggleGroup(p, ok)
                                                \/ \E n \in Requests(p) : CatalogRead(p, n, ok)
  \/ \E kind \in {"save", "delete", "list"} : SendConnection(kind)
  \/ \E r \in changes : ConnectionChanged(r) \/ ConnectionsListed(r) \/ ConnectionFailed(r)
  \/ OpenTemplateDesigner \/ ChooseSchemaSource \/ EditForm \/ PreviewSchema \/ ApplyPlan \/ CloseDesigner
  \/ \E a \in designer.asked : DesignerAnswered(a)
  \/ CloseConnectionForm \/ TypePassword \/ ToggleConnectionPassword
  \/ \E a \in password.asked, ok \in BOOLEAN : PasswordRead(a, ok)

\* The tabs and the editor touch only in which SQL tab is active, which each
\* keeps here for itself: a behaviour is of one of them.
WorkspaceInit == Init /\ EditorInit
WorkspaceNext ==
  \/ editorClicks = 0 /\ Next /\ UNCHANGED editorVars
  \/ clicks = 0 /\ EditorNext /\ UNCHANGED vars

WorkspaceSpec == WorkspaceInit /\ [][WorkspaceNext]_<<vars, editorVars>> /\ Fairness

(***************************************************************************)
(* Properties.                                                             *)
(***************************************************************************)
\* The picker is open over the tab and the very text it was opened for, and
\* what it offers is of the table that was chosen last, or that the text names
\* (openInlinePicker, loadInlineMetadata, loadJoinColumns, editorChanged).
PickerFitsText ==
  picker.open =>
    /\ picker.sql = active /\ picker.version = text[active].version
    /\ picker.columns \in {NoTable, picker.choice}
    /\ picker.kind = "field" => picker.columns \in {NoTable, text[active].table}

\* What can be applied in the designer is the preview of the form as it stands,
\* for the table and the SQL tab it is open for (previewSchema, clearPlan); a
\* connection's password is never in another one's form.
PlanIsOfForm ==
  /\ designer.plan # NoPlan =>
       /\ designer.open /\ designer.plan.form = designer.form
       /\ designer.plan.mode = designer.mode /\ designer.plan.target = designer.target
  /\ password.value \in {NoProfile, password.form}

\* No answer fills a picker, a designer or a form it was not asked for
\* (loadInlineMetadata, previewSchema, openConnection).
AnswersFitForms == PickerFitsText /\ PlanIsOfForm

\* Targets are added only to the shown tab, never while its query runs, and to a
\* new tab, which starts with those of the shown one.  They are taken away by the
\* user in the same way, and with a connection that is saved, deleted or no longer
\* listed: then from every tab, also from one whose query runs.  The database in
\* focus never stands in for what the user has chosen, not even when nothing is
\* left of it.  When a tab is shown or another list is read, only targets of listed
\* connections stay checked there; of others only the database in focus, which a
\* list leaves alone, and a connection whose catalog was waited for are added.  A
\* connection that is picked whole does not come back after the tab has been
\* changed or the targets have been cleared (changePickedTargets,
\* clearConnectionTabs, loadProfiles, activateSQLTab, targetList).
Added(s) == targets'[s].checked \ targets[s].checked
Removed(s) == targets[s].checked \ targets'[s].checked
Awaiting == {groups[i].profile : i \in DOMAIN groups}

TargetsAreChosen ==
  [][/\ \A s \in SQLs :
          /\ Added(s) # {} => \/ s = active /\ s \notin running
                              \/ s \notin sqlTabs /\ Added(s) \subseteq targets[active].checked
          /\ Removed(s) # {} => \/ s = active /\ s \notin running
                                \/ \A d \in Removed(s) : \/ \E r \in changes : r.profile = ProfileOf[d]
                                                         \/ ProfileOf[d] \notin uiProfiles'
          /\ targets[s].explicit => targets'[s].explicit
          /\ Added(s) \subseteq OfProfiles(uiProfiles \union Awaiting) \union targets[s].focus
     /\ (active' # active \/ uiProfiles' # uiProfiles) =>
          targets'[active'].checked \subseteq OfProfiles(uiProfiles')
     /\ groups' # groups /\ (\A i \in DOMAIN groups : groups[i].overtaken) =>
          \A s \in sqlTabs : Added(s) = {}]_editorVars
=============================================================================
