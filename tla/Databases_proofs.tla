-------------------------- MODULE Databases_proofs --------------------------
(***************************************************************************)
(* Proofs about the data pages: the tabs and the edits of the database     *)
(* workspace (Database), its command line, its forms and its picker        *)
(* (DatabaseEditor), and the page of Redis keys (Redis), each for every    *)
(* value of its constants.                                                 *)
(***************************************************************************)
EXTENDS DatabaseEditor, Redis, ListLemmas

(***************************************************************************)
(* The tabs and the edits of the database page.                            *)
(***************************************************************************)
DraftType == [kept : BOOLEAN, rows : SUBSET Edits, original : BOOLEAN, dirty : BOOLEAN]
TabType ==
  [open : BOOLEAN, response : BOOLEAN, draft : DraftType, saving : BOOLEAN, loading : BOOLEAN,
   nonce : Nat, progress : Nat]
SessionType ==
  [text : BOOLEAN, controller : {"none", "waiting", "aborted", "answered"}, query : BOOLEAN,
   drafts : SUBSET Edits, saving : BOOLEAN, message : BOOLEAN]
CurrentType ==
  [table : Tables \cup {NoTable}, response : BOOLEAN, draft : DraftType, saving : BOOLEAN]
PaneType == {Table(t) : t \in Tables} \cup {Result(s) : s \in SQLs}
TabsType == [Tables -> TabType]
UIType ==
  [tab : TabsType, current : CurrentType, sql : [SQLs -> SessionType], order : Seq(SQLs),
   sequence : SQLs, activeSQL : SQLs \cup {NoSQL}, bottom : Seq(PaneType),
   active : PaneType \cup {NoPane}]

\* A draft is counted by the values its rows were loaded with.
DraftSound(d) == (d.dirty => d.original) /\ (d.original /\ d.rows # {} => d.dirty)
TabSound(tab) ==
  /\ DraftSound(tab.draft)
  /\ ~tab.open => tab = ClosedTab
  /\ ~tab.draft.kept => tab.draft.rows = {} /\ tab.draft.original
  /\ ~tab.response => tab.draft.rows = {} /\ ~tab.draft.dirty

\* What the tab holds of the current table is not newer than the grid.
CurrentSound(c, tabs) ==
  /\ DraftSound(c.draft)
  /\ ~c.response => c.draft.rows = {} /\ ~c.draft.dirty
  /\ c.table # NoTable => tabs[c.table].open
  /\ c.response =>
       /\ c.table # NoTable /\ tabs[c.table].response
       /\ tabs[c.table].draft.rows \subseteq c.draft.rows
       /\ tabs[c.table].draft.dirty => c.draft.dirty
       /\ c.draft.original => tabs[c.table].draft.original
PaneSound(u, p) == IF p.kind = "table" THEN IsOpen(u, p.id) ELSE p.id \in ToSet(u.order)
OrderSound(u) ==
  /\ \A i, j \in DOMAIN u.order : i # j => u.order[i] # u.order[j]
  /\ \A i \in DOMAIN u.order : u.order[i] <= u.sequence
TabsSound(u) == CurrentSound(u.current, u.tab) /\ \A t \in Tables : TabSound(u.tab[t])
PanesSound(u) == \A i \in DOMAIN u.bottom : PaneSound(u, u.bottom[i])
UISound(u) == u \in UIType /\ TabsSound(u) /\ PanesSound(u) /\ OrderSound(u)
ShownSound(u) ==
  /\ u.active = NoPane \/ u.active \in ToSet(u.bottom)
  /\ \A t \in Tables : u.active = Table(t) =>
       u.current.table = t /\ (u.tab[t].response => u.current.response)
SavingShown(u) == u.current.table # NoTable /\ u.tab[u.current.table].saving => u.current.saving

\* What is outside the drafts of tables does not change.
SameFlags(a, b) ==
  /\ b.open = a.open /\ b.saving = a.saving /\ b.loading = a.loading /\ b.nonce = a.nonce
  /\ b.progress = a.progress
SameSQL(u, v) ==
  v.sql = u.sql /\ v.order = u.order /\ v.sequence = u.sequence /\ v.activeSQL = u.activeSQL

USE DatabaseAssumption

LEMMA FreshTypes ==
  /\ Fresh \in DraftType /\ ClosedTab \in TabType /\ NewTab \in TabType /\ NoSession \in SessionType
  /\ NoCurrent \in CurrentType /\ DraftSound(Fresh) /\ TabSound(ClosedTab) /\ TabSound(NewTab)
<1>1. Fresh \in DraftType /\ DraftSound(Fresh)
  BY DEF Fresh, DraftType, DraftSound
<1>2. ClosedTab \in TabType /\ ClosedTab.draft = Fresh
  BY <1>1 DEF ClosedTab, TabType
<1>3. NewTab \in TabType /\ NewTab.draft = Fresh /\ NewTab.open
  BY <1>2 DEF NewTab, TabType
<1>4. NoSession \in SessionType
  BY DEF NoSession, SessionType
<1>5. NoCurrent \in CurrentType
  BY <1>1 DEF NoCurrent, CurrentType
<1>6. Fresh.rows = {} /\ Fresh.original /\ ~Fresh.dirty
  BY DEF Fresh
<1>7. QED
  BY <1>1, <1>2, <1>3, <1>4, <1>5, <1>6 DEF TabSound

\* What captureTableState writes.
LEMMA CaptureFields ==
  ASSUME NEW u, UISound(u)
  PROVE  LET v == CaptureTableState(u)
         IN  /\ v \in UIType /\ SameSQL(u, v)
             /\ v.current = u.current /\ v.bottom = u.bottom /\ v.active = u.active
             /\ \A t \in Tables : v.tab[t] = IF u.current.response /\ t = u.current.table
                  THEN [u.tab[t] EXCEPT !.response = TRUE, !.draft = [u.current.draft EXCEPT !.kept = TRUE]]
                  ELSE u.tab[t]
<1>1. u \in UIType
  BY DEF UISound
<1>2. CASE ~u.current.response
  BY <1>1, <1>2 DEF CaptureTableState, SameSQL
<1>3. CASE u.current.response
  <2> DEFINE t == u.current.table
             d == [u.current.draft EXCEPT !.kept = TRUE]
             tab == [u.tab[t] EXCEPT !.response = TRUE, !.draft = d]
             v == CaptureTableState(u)
  <2>1. t \in Tables /\ u.current.draft \in DraftType /\ u.tab \in TabsType
    BY <1>1, <1>3 DEF UISound, TabsSound, CurrentSound, UIType, CurrentType
  <2>2. d \in DraftType
    BY <2>1 DEF DraftType
  <2>3. u.tab[t] \in TabType
    BY <2>1 DEF TabsType
  <2> HIDE DEF d
  <2>4. tab \in TabType
    BY <2>2, <2>3 DEF TabType
  <2>5. v = [u EXCEPT !.tab = [u.tab EXCEPT ![t] = tab]]
    BY <1>1, <1>3, <2>1, <2>3 DEF CaptureTableState, d, UIType, TabsType, TabType
  <2> HIDE DEF tab, t, v
  <2>6. [u.tab EXCEPT ![t] = tab] \in TabsType
    BY <2>1, <2>4 DEF TabsType
  <2>7. /\ v \in UIType /\ v.tab = [u.tab EXCEPT ![t] = tab] /\ SameSQL(u, v)
        /\ v.current = u.current /\ v.bottom = u.bottom /\ v.active = u.active
    BY <1>1, <2>5, <2>6 DEF UIType, SameSQL
  <2>8. \A o \in Tables : v.tab[o] = IF o = t THEN tab ELSE u.tab[o]
    BY <2>1, <2>7 DEF TabsType
  <2>9. QED
    BY <1>3, <2>7, <2>8 DEF v, t, tab, d
<1>4. QED
  BY <1>2, <1>3

\* The rows the tab itself would warn of.
TabRows(u, t) == IF IsOpen(u, t) /\ u.tab[t].draft.dirty THEN u.tab[t].draft.rows ELSE {}
GridRows(u) == IF u.current.draft.dirty THEN u.current.draft.rows ELSE {}

LEMMA RowsShape ==
  ASSUME NEW u, UISound(u), NEW t \in Tables
  PROVE  /\ RowsIn(u, t) = IF u.current.response /\ t = u.current.table THEN GridRows(u) ELSE TabRows(u, t)
         /\ TabRows(u, t) \subseteq RowsIn(u, t) /\ RowsIn(u, t) \subseteq Edits
         /\ ~u.tab[t].open => RowsIn(u, t) = {}
<1> DEFINE v == CaptureTableState(u)
           d == [u.current.draft EXCEPT !.kept = TRUE]
<1>1. v.tab[t] = IF u.current.response /\ t = u.current.table
                  THEN [u.tab[t] EXCEPT !.response = TRUE, !.draft = d] ELSE u.tab[t]
  BY CaptureFields
<1>2. /\ u.tab[t] \in TabType /\ u.current \in CurrentType /\ u.current.draft \in DraftType
      /\ TabSound(u.tab[t]) /\ CurrentSound(u.current, u.tab)
  BY DEF UISound, UIType, TabsType, CurrentType, TabsSound
<1>3. d.dirty = u.current.draft.dirty /\ d.rows = u.current.draft.rows
  BY <1>2 DEF DraftType
<1> HIDE DEF v, d
<1>4. CASE u.current.response /\ t = u.current.table
  <2>1. v.tab[t].draft = d /\ u.tab[t].open
    BY <1>1, <1>2, <1>4 DEF TabType, CurrentSound
  <2>2. RowsIn(u, t) = GridRows(u)
    BY <1>3, <2>1 DEF RowsIn, DraftOf, GridRows, IsOpen, v
  <2>3. GridRows(u) \subseteq Edits /\ TabRows(u, t) \subseteq GridRows(u)
    BY <1>2, <1>4 DEF GridRows, TabRows, CurrentSound, DraftType
  <2>4. QED
    BY <1>4, <2>1, <2>2, <2>3
<1>5. CASE ~(u.current.response /\ t = u.current.table)
  <2>1. RowsIn(u, t) = TabRows(u, t)
    BY <1>1, <1>5 DEF RowsIn, DraftOf, TabRows, v
  <2>2. TabRows(u, t) \subseteq Edits
    BY <1>2 DEF TabRows, TabType, DraftType
  <2>3. QED
    BY <1>5, <2>1, <2>2 DEF TabRows, IsOpen
<1>6. QED
  BY <1>4, <1>5

\* Copying the grid into its tab changes nothing that is pending.
LEMMA CaptureKeeps ==
  ASSUME NEW u, UISound(u)
  PROVE  LET v == CaptureTableState(u)
         IN  /\ UISound(v)
             /\ \A t \in Tables :
                  /\ SameFlags(u.tab[t], v.tab[t])
                  /\ RowsIn(v, t) = RowsIn(u, t) /\ TabRows(v, t) = RowsIn(u, t)
             /\ SavingShown(u) => SavingShown(v)
             /\ ShownSound(u) => ShownSound(v)
<1> DEFINE v == CaptureTableState(u)
           c == u.current
           d == [c.draft EXCEPT !.kept = TRUE]
<1>1. /\ v \in UIType /\ SameSQL(u, v)
      /\ v.current = u.current /\ v.bottom = u.bottom /\ v.active = u.active
      /\ \A t \in Tables : v.tab[t] = IF c.response /\ t = c.table
           THEN [u.tab[t] EXCEPT !.response = TRUE, !.draft = d] ELSE u.tab[t]
  BY CaptureFields
<1>2. /\ u \in UIType /\ c \in CurrentType /\ c.draft \in DraftType /\ CurrentSound(c, u.tab)
      /\ \A t \in Tables : u.tab[t] \in TabType /\ TabSound(u.tab[t])
  BY DEF UISound, UIType, TabsType, CurrentType, TabsSound
<1>3. d.kept /\ d.dirty = c.draft.dirty /\ d.rows = c.draft.rows /\ d.original = c.draft.original
  BY <1>2 DEF DraftType
<1> HIDE DEF v, d, c
<1>4. ASSUME NEW t \in Tables
      PROVE  /\ SameFlags(u.tab[t], v.tab[t])
             /\ v.tab[t].response = u.tab[t].response
             /\ v.tab[t].draft = IF c.response /\ t = c.table THEN d ELSE u.tab[t].draft
             /\ TabSound(v.tab[t])
  <2>1. CASE c.response /\ t = c.table
    <3>1. /\ v.tab[t].draft = d /\ v.tab[t].response /\ u.tab[t].response /\ u.tab[t].open
          /\ SameFlags(u.tab[t], v.tab[t])
      <4>1. t = c.table /\ c.table # NoTable /\ u.tab[t].response /\ u.tab[t].open
        BY <1>2, <2>1 DEF CurrentSound
      <4>2. v.tab[t] = [u.tab[t] EXCEPT !.response = TRUE, !.draft = d] /\ u.tab[t] \in TabType
        BY <1>1, <1>2, <2>1
      <4>3. QED
        BY <4>1, <4>2 DEF TabType, SameFlags
    <3>2. DraftSound(d) /\ v.tab[t].open
      <4>1. DraftSound(c.draft)
        BY <1>2 DEF CurrentSound
      <4>2. DraftSound(d)
        BY <1>3, <4>1 DEF DraftSound
      <4>3. QED
        BY <3>1, <4>2 DEF SameFlags
    <3>3. TabSound(v.tab[t])
      BY <1>3, <3>1, <3>2 DEF TabSound
    <3>4. QED
      BY <2>1, <3>1, <3>3
  <2>2. CASE ~(c.response /\ t = c.table)
    BY <1>1, <1>2, <2>2 DEF SameFlags
  <2>3. QED
    BY <2>1, <2>2
<1>5. CurrentSound(v.current, v.tab)
  <2>1. CASE c.table = NoTable
    BY <1>1, <1>2, <2>1 DEF CurrentSound, c
  <2>2. CASE c.table # NoTable
    <3>1. c.table \in Tables
      BY <1>2, <2>2 DEF CurrentType
    <3>2. /\ v.tab[c.table].open = u.tab[c.table].open
          /\ v.tab[c.table].response = u.tab[c.table].response
          /\ c.response => v.tab[c.table].draft = d
      BY <1>4, <3>1 DEF SameFlags
    <3>3. v.current = c
      BY <1>1 DEF c
    <3>4. QED
      BY <1>2, <1>3, <3>2, <3>3 DEF CurrentSound
  <2>3. QED
    BY <2>1, <2>2
<1>6. PanesSound(v) /\ OrderSound(v)
  <2>1. PanesSound(u) /\ OrderSound(u) /\ u.bottom \in Seq(PaneType)
    BY DEF UISound, UIType
  <2>2. OrderSound(v)
    <3>1. v.order = u.order /\ v.sequence = u.sequence
      BY <1>1 DEF SameSQL
    <3>2. QED
      BY <2>1, <3>1 DEF OrderSound
  <2>3. ASSUME NEW i \in DOMAIN v.bottom PROVE PaneSound(v, v.bottom[i])
    <3>0. v.bottom = u.bottom
      BY <1>1
    <3>1. i \in DOMAIN u.bottom /\ v.bottom[i] = u.bottom[i] /\ PaneSound(u, u.bottom[i]) /\ u.bottom[i] \in PaneType
      BY <2>1, <2>3, <3>0 DEF PanesSound
    <3>2. u.bottom[i].kind = "table" => u.bottom[i].id \in Tables
      BY <3>1 DEF PaneType, Table, Result
    <3>3. QED
      BY <1>1, <1>4, <3>1, <3>2 DEF PaneSound, IsOpen, SameFlags, SameSQL
  <2>4. QED
    BY <2>2, <2>3 DEF PanesSound
<1>7. UISound(v)
  BY <1>1, <1>4, <1>5, <1>6 DEF UISound, TabsSound
<1>8. ASSUME NEW t \in Tables PROVE RowsIn(v, t) = RowsIn(u, t) /\ TabRows(v, t) = RowsIn(u, t)
  <2>0. v.current = c
    BY <1>1 DEF c
  <2>1. GridRows(v) = GridRows(u)
    BY <2>0 DEF GridRows, c
  <2>2. RowsIn(v, t) = IF c.response /\ t = c.table THEN GridRows(u) ELSE TabRows(v, t)
    <3>1. RowsIn(v, t) = IF v.current.response /\ t = v.current.table THEN GridRows(v) ELSE TabRows(v, t)
      BY <1>7, RowsShape
    <3>2. QED
      BY <2>0, <2>1, <3>1
  <2>3. RowsIn(u, t) = IF c.response /\ t = c.table THEN GridRows(u) ELSE TabRows(u, t)
    BY RowsShape DEF c
  <2>4. c.response /\ t = c.table => TabRows(v, t) = GridRows(u)
    BY <1>2, <1>3, <1>4 DEF TabRows, GridRows, IsOpen, SameFlags, CurrentSound, c
  <2>5. ~(c.response /\ t = c.table) => TabRows(v, t) = TabRows(u, t)
    BY <1>4 DEF TabRows, IsOpen, SameFlags
  <2>6. QED
    BY <2>2, <2>3, <2>4, <2>5
<1>9. SavingShown(u) => SavingShown(v)
  <2>1. v.current = c /\ u.current = c /\ c.table \in Tables \cup {NoTable}
    BY <1>1, <1>2 DEF CurrentType, c
  <2>2. \A t \in Tables : v.tab[t].saving = u.tab[t].saving
    BY <1>4 DEF SameFlags
  <2>3. QED
    BY <2>1, <2>2 DEF SavingShown
<1>10. ShownSound(u) => ShownSound(v)
  BY <1>1, <1>4 DEF ShownSound
<1>11. QED
  BY <1>4, <1>7, <1>8, <1>9, <1>10 DEF v

\* What may change of the tables when a tab is shown: only where drafts are kept.
SameRows(u, v) ==
  \A t \in Tables : SameFlags(u.tab[t], v.tab[t]) /\ RowsIn(v, t) = RowsIn(u, t)

\* The grid shows what the tab has kept, also where it was further.
LEMMA RestoreKeeps ==
  ASSUME NEW u, UISound(u), NEW t \in Tables, u.tab[t].open
  PROVE  LET v == RestoreTableState(u, t)
         IN  /\ UISound(v) /\ SameSQL(u, v) /\ v.tab = u.tab /\ v.bottom = u.bottom /\ v.active = u.active
             /\ v.current.table = t /\ v.current.response = u.tab[t].response
             /\ SavingShown(v)
             /\ \A o \in Tables : RowsIn(v, o) = TabRows(u, o)
<1> DEFINE tab == u.tab[t]
           draft == IF tab.response /\ tab.draft.kept THEN tab.draft ELSE [Fresh EXCEPT !.dirty = tab.draft.dirty]
           c == [table |-> t, response |-> tab.response, saving |-> tab.saving, draft |-> draft]
           v == RestoreTableState(u, t)
<1>1. u \in UIType /\ tab \in TabType /\ TabSound(tab) /\ PanesSound(u) /\ OrderSound(u)
  BY DEF UISound, UIType, TabsType, TabsSound
<1>2. v = [u EXCEPT !.current = c]
  BY DEF RestoreTableState
<1>3. /\ draft \in DraftType /\ draft.dirty = tab.draft.dirty
      /\ DraftSound(draft)
      /\ ~tab.response => draft.rows = {} /\ ~draft.dirty
      /\ draft.rows = tab.draft.rows
      /\ tab.response /\ draft.original => tab.draft.original
  <2>1. tab.draft \in DraftType /\ DraftSound(tab.draft)
    BY <1>1 DEF TabType, TabSound
  <2>2. CASE tab.response /\ tab.draft.kept
    <3>1. draft = tab.draft
      BY <2>2
    <3>2. QED
      BY <2>1, <2>2, <3>1
  <2>3. CASE ~(tab.response /\ tab.draft.kept)
    <3>1. draft = [Fresh EXCEPT !.dirty = tab.draft.dirty]
      BY <2>3
    <3>2. draft.rows = {} /\ draft.original /\ draft.dirty = tab.draft.dirty /\ draft \in DraftType
      BY <2>1, <3>1 DEF Fresh, DraftType
    <3>3. tab.draft.rows = {} /\ (~tab.response => ~tab.draft.dirty)
      BY <1>1, <2>3 DEF TabSound
    <3>4. tab.response => tab.draft.original
      BY <1>1, <2>3 DEF TabSound
    <3>5. QED
      BY <3>2, <3>3, <3>4 DEF DraftSound
  <2>4. QED
    BY <2>2, <2>3
<1> HIDE DEF draft
<1>4. c \in CurrentType
  BY <1>1, <1>3 DEF CurrentType, TabType
<1>5. c.table = t /\ c.response = tab.response /\ c.saving = tab.saving /\ c.draft = draft
  OBVIOUS
<1> HIDE DEF c, v
<1>6. /\ v \in UIType /\ v.tab = u.tab /\ v.current = c /\ SameSQL(u, v)
      /\ v.bottom = u.bottom /\ v.active = u.active
  BY <1>1, <1>2, <1>4 DEF UIType, SameSQL
<1>7. t # NoTable
  OBVIOUS
<1>8. CurrentSound(v.current, v.tab)
  BY <1>3, <1>5, <1>6, <1>7 DEF CurrentSound
<1>9. PanesSound(v) /\ OrderSound(v)
  BY <1>1, <1>6 DEF PanesSound, PaneSound, OrderSound, IsOpen, SameSQL
<1>10. UISound(v)
  <2>1. \A o \in Tables : TabSound(v.tab[o])
    BY <1>6 DEF UISound, TabsSound
  <2>2. QED
    BY <1>6, <1>8, <1>9, <2>1 DEF UISound, TabsSound
<1>11. ASSUME NEW o \in Tables PROVE RowsIn(v, o) = TabRows(u, o)
  <2>1. RowsIn(v, o) = IF v.current.response /\ o = v.current.table THEN GridRows(v) ELSE TabRows(v, o)
    BY <1>10, RowsShape
  <2>2. TabRows(v, o) = TabRows(u, o)
    BY <1>6 DEF TabRows, IsOpen
  <2>3. GridRows(v) = TabRows(u, t)
    BY <1>3, <1>5, <1>6 DEF GridRows, TabRows, IsOpen
  <2>4. QED
    BY <1>5, <1>6, <2>1, <2>2, <2>3
<1>12. SavingShown(v)
  BY <1>5, <1>6 DEF SavingShown
<1>13. QED
  BY <1>5, <1>6, <1>10, <1>11, <1>12 DEF v

\* A pane that is shown: of the tables nothing changes but where drafts are kept.
LEMMA ActivateKeeps ==
  ASSUME NEW u, UISound(u), NEW pane \in PaneType, PaneSound(u, pane)
  PROVE  LET v == ActivateBottom(u, pane)
         IN  /\ UISound(v) /\ ShownSound(v) /\ SameSQL(u, v) /\ SameRows(u, v) /\ v.active = pane
             /\ SavingShown(u) => SavingShown(v)
<1> DEFINE w == CaptureTableState(u)
           bottom == IF Contains(w.bottom, pane) THEN w.bottom ELSE Append(w.bottom, pane)
           x == [w EXCEPT !.active = pane, !.bottom = IF Contains(@, pane) THEN @ ELSE Append(@, pane)]
           v == ActivateBottom(u, pane)
<1>1. /\ UISound(w) /\ w \in UIType /\ SameSQL(u, w) /\ w.bottom = u.bottom /\ SameRows(u, w)
      /\ SavingShown(u) => SavingShown(w)
      /\ \A t \in Tables : TabRows(w, t) = RowsIn(u, t)
  BY CaptureKeeps, CaptureFields DEF SameRows
<1>2. v = IF pane.kind = "table" THEN RestoreTableState(x, pane.id) ELSE x
  BY DEF ActivateBottom
<1> HIDE DEF w, v
<1>3. /\ bottom \in Seq(PaneType) /\ pane \in ToSet(bottom)
      /\ \A i \in DOMAIN bottom : bottom[i] = pane \/ (i \in DOMAIN w.bottom /\ bottom[i] = w.bottom[i])
  <2>1. w.bottom \in Seq(PaneType)
    BY <1>1 DEF UIType
  <2>2. CASE Contains(w.bottom, pane)
    <3>1. bottom = w.bottom
      BY <2>2
    <3>2. PICK i \in 1..Len(w.bottom) : w.bottom[i] = pane
      BY <2>2 DEF Contains
    <3>3. pane \in ToSet(w.bottom)
      BY <2>1, <3>2 DEF ToSet
    <3>4. QED
      BY <2>1, <3>1, <3>3
  <2>3. CASE ~Contains(w.bottom, pane)
    <3>1. bottom = Append(w.bottom, pane)
      BY <2>3
    <3> DEFINE n == Len(w.bottom)
    <3>2. /\ bottom \in Seq(PaneType) /\ Len(bottom) = n + 1 /\ bottom[n + 1] = pane
          /\ \A i \in 1..n : bottom[i] = w.bottom[i]
          /\ n \in Nat /\ DOMAIN bottom = 1..(n + 1) /\ DOMAIN w.bottom = 1..n
      BY <2>1, <3>1
    <3> HIDE DEF n, bottom
    <3>3. n + 1 \in DOMAIN bottom /\ \A i \in 1..(n + 1) : i \in 1..n \/ i = n + 1
      BY <3>2
    <3>4. QED
      BY <3>2, <3>3 DEF ToSet
  <2>4. QED
    BY <2>2, <2>3
<1>4. x = [w EXCEPT !.active = pane, !.bottom = bottom]
  BY <1>1 DEF UIType
<1> HIDE DEF x, bottom
<1>5. /\ x \in UIType /\ x.tab = w.tab /\ x.current = w.current /\ SameSQL(w, x)
      /\ x.active = pane /\ x.bottom = bottom
  BY <1>1, <1>3, <1>4 DEF UIType, SameSQL
<1>6. PanesSound(x) /\ OrderSound(x)
  <2>1. PanesSound(w) /\ OrderSound(w)
    BY <1>1 DEF UISound
  <2>2. PaneSound(x, pane)
    <3>1. x.order = u.order
      BY <1>1, <1>5 DEF SameSQL
    <3>2. \A t \in Tables : x.tab[t].open = u.tab[t].open
      BY <1>1, <1>5 DEF SameRows, SameFlags
    <3>3. pane.kind = "table" => pane.id \in Tables
      BY DEF PaneType, Table, Result
    <3>4. QED
      BY <3>1, <3>2, <3>3 DEF PaneSound, IsOpen
  <2>3. ASSUME NEW i \in DOMAIN x.bottom PROVE PaneSound(x, x.bottom[i])
    <3>1. CASE x.bottom[i] = pane
      BY <2>2, <3>1
    <3>2. CASE i \in DOMAIN w.bottom /\ bottom[i] = w.bottom[i]
      BY <1>5, <2>1, <3>2 DEF PanesSound, PaneSound, IsOpen, SameSQL
    <3>3. QED
      BY <1>3, <1>5, <2>3, <3>1, <3>2
  <2>4. OrderSound(x)
    BY <1>5, <2>1 DEF OrderSound, SameSQL
  <2>5. QED
    BY <2>3, <2>4 DEF PanesSound
<1>7. UISound(x)
  BY <1>1, <1>5, <1>6 DEF UISound, TabsSound
<1>8. \A t \in Tables : RowsIn(x, t) = RowsIn(w, t) /\ TabRows(x, t) = TabRows(w, t)
  <2> TAKE t \in Tables
  <2>1. GridRows(x) = GridRows(w) /\ TabRows(x, t) = TabRows(w, t)
    BY <1>5 DEF GridRows, TabRows, IsOpen
  <2>2. /\ RowsIn(x, t) = IF x.current.response /\ t = x.current.table THEN GridRows(x) ELSE TabRows(x, t)
        /\ RowsIn(w, t) = IF w.current.response /\ t = w.current.table THEN GridRows(w) ELSE TabRows(w, t)
    BY <1>1, <1>7, RowsShape
  <2>3. QED
    BY <1>5, <2>1, <2>2
<1>9. SameSQL(u, x) /\ SameRows(u, x) /\ (SavingShown(u) => SavingShown(x))
  BY <1>1, <1>5, <1>8 DEF SameSQL, SameRows, SavingShown
<1>10. CASE pane.kind = "table"
  <2> DEFINE t == pane.id
  <2>1. t \in Tables /\ pane = Table(t)
    BY <1>10 DEF PaneType, Table, Result
  <2>2. x.tab[t].open
    BY <1>10, <2>1, <1>9 DEF PaneSound, IsOpen, SameRows, SameFlags
  <2>3. v = RestoreTableState(x, t)
    BY <1>2, <1>10
  <2> HIDE DEF t
  <2>4. /\ UISound(v) /\ SameSQL(x, v) /\ v.tab = x.tab /\ v.bottom = x.bottom /\ v.active = x.active
        /\ v.current.table = t /\ v.current.response = x.tab[t].response
        /\ SavingShown(v)
        /\ \A o \in Tables : RowsIn(v, o) = TabRows(x, o)
    BY <1>7, <2>1, <2>2, <2>3, RestoreKeeps
  <2>5. ShownSound(v)
    BY <1>3, <1>5, <2>1, <2>4 DEF ShownSound, Table
  <2>6. SameSQL(u, v) /\ SameRows(u, v)
    BY <1>1, <1>8, <1>9, <2>4 DEF SameSQL, SameRows
  <2>7. QED
    BY <1>5, <2>4, <2>5, <2>6 DEF v
<1>11. CASE pane.kind # "table"
  <2>1. v = x
    BY <1>2, <1>11
  <2>2. \A t \in Tables : pane # Table(t)
    BY <1>11 DEF Table
  <2>3. ShownSound(v)
    BY <1>3, <1>5, <2>1, <2>2 DEF ShownSound
  <2>4. QED
    BY <1>5, <1>7, <1>9, <2>1, <2>3 DEF v
<1>12. QED
  BY <1>10, <1>11

\* A list that some elements are taken out of: the others stay, each in one place.
Distinct(q) == \A i, j \in DOMAIN q : i # j => q[i] # q[j]
LEMMA WithoutElements ==
  ASSUME NEW S, NEW list \in Seq(S), NEW gone
  PROVE  /\ Without(list, gone) \in Seq(S)
         /\ ToSet(Without(list, gone)) = ToSet(list) \ gone
         /\ Distinct(list) => Distinct(Without(list, gone))
<1> DEFINE kept == {i \in DOMAIN list : list[i] \notin gone}
           w == Without(list, gone)
<1>1. kept \in SUBSET (1..Len(list)) /\ DOMAIN list = 1..Len(list)
  OBVIOUS
<1>2. w = Picked(list, kept)
  BY DEF Without
<1>3. \A i \in kept : i \in DOMAIN list /\ list[i] \notin gone
  OBVIOUS
<1>4. \A i \in DOMAIN list : list[i] \notin gone => i \in kept
  OBVIOUS
<1> HIDE DEF kept, w
<1>5. Picked(list, kept) \in Seq(S)
  BY <1>1, PickedElements
<1>6. PICK m \in 0..Len(list) : \E nth \in [1..m -> kept] : PickedAt(list, kept, nth, m)
  BY <1>1, PickedElements
<1>7. PICK nth \in [1..m -> kept] : PickedAt(list, kept, nth, m)
  BY <1>6
<1>8. /\ w \in Seq(S) /\ DOMAIN w = 1..m
      /\ \A j \in 1..m : w[j] = list[nth[j]]
      /\ \A i, j \in 1..m : i < j => nth[i] < nth[j]
      /\ \A i \in kept : \E j \in 1..m : nth[j] = i
  <2>1. Len(w) = m
    BY <1>2, <1>7 DEF PickedAt
  <2>2. w \in Seq(S)
    BY <1>2, <1>5
  <2>3. DOMAIN w = 1..m
    BY <2>1, <2>2
  <2>4. QED
    BY <1>2, <1>7, <2>2, <2>3 DEF PickedAt
<1>9. ToSet(w) = ToSet(list) \ gone
  <2>1. ASSUME NEW j \in 1..m PROVE w[j] \in ToSet(list) \ gone
    BY <1>3, <1>8 DEF ToSet
  <2>2. ASSUME NEW i \in DOMAIN list, list[i] \notin gone PROVE \E j \in DOMAIN w : w[j] = list[i]
    <3>1. i \in kept
      BY <1>4, <2>2
    <3>2. PICK j \in 1..m : nth[j] = i
      BY <1>8, <3>1
    <3>3. QED
      BY <1>8, <3>2
  <2>3. \A x \in ToSet(w) : x \in ToSet(list) \ gone
    <3>1. \A x \in ToSet(w) : \E j \in 1..m : x = w[j]
      BY <1>8 DEF ToSet
    <3>2. QED
      BY <2>1, <3>1
  <2>4. \A x \in ToSet(list) \ gone : x \in ToSet(w)
    BY <2>2 DEF ToSet
  <2>5. QED
    BY <2>3, <2>4
<1>10. ASSUME Distinct(list) PROVE Distinct(w)
  <2> SUFFICES ASSUME NEW i \in DOMAIN w, NEW j \in DOMAIN w, i # j PROVE w[i] # w[j]
    BY DEF Distinct
  <2>1. i \in 1..m /\ j \in 1..m /\ (i < j \/ j < i)
    BY <1>8
  <2>2. nth[i] \in Nat /\ nth[j] \in Nat /\ nth[i] \in DOMAIN list /\ nth[j] \in DOMAIN list
    <3>1. nth[i] \in kept /\ nth[j] \in kept
      BY <2>1
    <3>2. kept \subseteq DOMAIN list /\ DOMAIN list \subseteq Nat
      BY <1>1
    <3>3. QED
      BY <3>1, <3>2
  <2>3. nth[i] < nth[j] \/ nth[j] < nth[i]
    BY <1>8, <2>1
  <2>4. nth[i] # nth[j]
    BY <2>2, <2>3
  <2>5. QED
    BY <1>8, <1>10, <2>1, <2>2, <2>4 DEF Distinct
<1>11. QED
  BY <1>8, <1>9, <1>10 DEF w

\* What is pending is told by the tabs and the grid.
LEMMA RowsDepend ==
  ASSUME NEW u, UISound(u), NEW v, UISound(v), v.tab = u.tab, v.current = u.current
  PROVE  SameRows(u, v) /\ (SavingShown(u) => SavingShown(v))
<1>1. ASSUME NEW t \in Tables PROVE RowsIn(v, t) = RowsIn(u, t)
  <2>1. GridRows(v) = GridRows(u) /\ TabRows(v, t) = TabRows(u, t)
    BY DEF GridRows, TabRows, IsOpen
  <2>2. /\ RowsIn(v, t) = IF v.current.response /\ t = v.current.table THEN GridRows(v) ELSE TabRows(v, t)
        /\ RowsIn(u, t) = IF u.current.response /\ t = u.current.table THEN GridRows(u) ELSE TabRows(u, t)
    BY RowsShape
  <2>3. QED
    BY <2>1, <2>2
<1>2. QED
  BY <1>1 DEF SameRows, SameFlags, SavingShown

LEMMA SameRowsTwice ==
  ASSUME NEW u, NEW v, NEW w, SameRows(u, v), SameRows(v, w)
  PROVE  SameRows(u, w)
BY DEF SameRows, SameFlags

\* Its last pane is shown when the one that was shown is closed.
Leavable(u, closed) == u.active \in closed \/ ShownSound(u)
LEMMA NextPaneKeeps ==
  ASSUME NEW u, UISound(u), NEW closed, Leavable(u, closed)
  PROVE  LET v == NextPane(u, closed)
         IN  /\ UISound(v) /\ ShownSound(v) /\ SameSQL(u, v) /\ SameRows(u, v)
             /\ SavingShown(u) => SavingShown(v)
<1> DEFINE v == NextPane(u, closed)
<1>1. u \in UIType
  BY DEF UISound
<1>2. CASE u.active \notin closed
  <2>1. v = u
    BY <1>2 DEF NextPane
  <2>2. SameRows(u, u) /\ SameSQL(u, u)
    BY DEF SameRows, SameFlags, SameSQL
  <2>3. QED
    BY <1>2, <2>1, <2>2 DEF Leavable
<1>3. CASE u.active \in closed
  <2> DEFINE none == [u EXCEPT !.active = NoPane]
  <2>1. v = IF u.bottom = <<>> THEN none ELSE ActivateBottom(none, Last(u.bottom))
    BY <1>3 DEF NextPane
  <2> HIDE DEF none, v
  <2>2. /\ none \in UIType /\ none.tab = u.tab /\ none.current = u.current /\ SameSQL(u, none)
        /\ none.bottom = u.bottom /\ none.active = NoPane
    BY <1>1 DEF none, UIType, SameSQL
  <2>3. UISound(none)
    BY <2>2 DEF UISound, TabsSound, PanesSound, PaneSound, OrderSound, IsOpen, SameSQL
  <2>4. SameRows(u, none) /\ (SavingShown(u) => SavingShown(none))
    BY <2>2, <2>3, RowsDepend
  <2>5. CASE u.bottom = <<>>
    <3>1. v = none
      BY <2>1, <2>5
    <3>2. ShownSound(none)
      BY <2>2 DEF ShownSound, NoPane, Table
    <3>3. QED
      BY <2>2, <2>3, <2>4, <3>1, <3>2 DEF v
  <2>6. CASE u.bottom # <<>>
    <3> DEFINE pane == Last(u.bottom)
               n == Len(u.bottom)
    <3>1. u.bottom \in Seq(PaneType) /\ n \in DOMAIN u.bottom /\ pane = u.bottom[n]
      BY <1>1, <2>6 DEF UIType, Last
    <3>2. pane \in PaneType
      BY <3>1
    <3>3. PaneSound(none, pane)
      BY <2>2, <2>3, <3>1 DEF UISound, PanesSound
    <3>4. v = ActivateBottom(none, pane)
      BY <2>1, <2>6
    <3> HIDE DEF pane
    <3>5. /\ UISound(v) /\ ShownSound(v) /\ SameSQL(none, v) /\ SameRows(none, v)
          /\ SavingShown(none) => SavingShown(v)
      BY <2>3, <3>2, <3>3, <3>4, ActivateKeeps
    <3>6. SameSQL(u, v) /\ SameRows(u, v)
      BY <2>2, <2>4, <3>5, SameRowsTwice DEF SameSQL
    <3>7. QED
      BY <2>4, <3>5, <3>6 DEF v
  <2>7. QED
    BY <2>5, <2>6
<1>4. QED
  BY <1>2, <1>3

\* The tabs of some tables are closed, with all that is pending in them; of the others
\* nothing changes.
LEMMA CloseTablesKeeps ==
  ASSUME NEW u, UISound(u), ShownSound(u), NEW tables \in SUBSET Tables
  PROVE  LET v == CloseTables(u, tables)
         IN  /\ UISound(v) /\ ShownSound(v) /\ SameSQL(u, v)
             /\ SavingShown(u) => SavingShown(v)
             /\ \A t \in Tables :
                  IF t \in tables THEN v.tab[t] = ClosedTab /\ RowsIn(v, t) = {}
                  ELSE SameFlags(u.tab[t], v.tab[t]) /\ RowsIn(v, t) = RowsIn(u, t)
<1> DEFINE w == CaptureTableState(u)
           panes == {Table(t) : t \in tables}
           tabs == [t \in Tables |-> IF t \in tables THEN ClosedTab ELSE w.tab[t]]
           bottom == Without(w.bottom, panes)
           c == IF w.current.table \in tables THEN NoCurrent ELSE w.current
           gone == [w EXCEPT !.bottom = Without(@, panes),
                      !.tab = [t \in Tables |-> IF t \in tables THEN ClosedTab ELSE @[t]],
                      !.current = IF @.table \in tables THEN NoCurrent ELSE @]
           v == CloseTables(u, tables)
<1>1. /\ UISound(w) /\ w \in UIType /\ SameSQL(u, w) /\ w.active = u.active /\ SameRows(u, w) /\ ShownSound(w)
      /\ SavingShown(u) => SavingShown(w)
  BY CaptureKeeps, CaptureFields DEF SameRows
<1>2. v = NextPane(gone, panes)
  BY DEF CloseTables
<1>3. /\ bottom \in Seq(PaneType) /\ ToSet(bottom) = ToSet(w.bottom) \ panes
  BY <1>1, WithoutElements DEF UIType
<1>4. tabs \in TabsType /\ c \in CurrentType
  BY <1>1, FreshTypes DEF UIType, TabsType
<1>5. gone = [w EXCEPT !.bottom = bottom, !.tab = tabs, !.current = c]
  BY <1>1 DEF UIType
<1>6. \A p \in panes : \E t \in tables : p = Table(t)
  OBVIOUS
<1>7. \A t \in tables : Table(t) \in panes
  OBVIOUS
<1>8. \A t \in Tables : tabs[t] = IF t \in tables THEN ClosedTab ELSE w.tab[t]
  OBVIOUS
<1>9. IF w.current.table \in tables THEN c = NoCurrent ELSE c = w.current
  OBVIOUS
<1> HIDE DEF w, panes, tabs, bottom, c, gone, v
<1>10. /\ gone \in UIType /\ gone.tab = tabs /\ gone.current = c /\ gone.bottom = bottom
       /\ gone.active = w.active /\ SameSQL(w, gone)
  BY <1>1, <1>3, <1>4, <1>5 DEF UIType, SameSQL
<1>11. TabsSound(gone)
  <2>1. \A t \in Tables : TabSound(tabs[t])
    BY <1>1, <1>8, FreshTypes DEF UISound, TabsSound
  <2>2. CurrentSound(c, tabs)
    <3>1. CASE w.current.table \in tables
      <4>1. DraftSound(Fresh)
        BY FreshTypes
      <4>2. c = NoCurrent
        BY <1>9, <3>1
      <4>3. QED
        BY <4>1, <4>2 DEF NoCurrent, CurrentSound, Fresh
    <3>2. CASE w.current.table \notin tables
      <4>1. c = w.current /\ w.current \in CurrentType /\ CurrentSound(w.current, w.tab)
        BY <1>1, <1>9, <3>2 DEF UISound, UIType, TabsSound
      <4>2. w.current.table # NoTable => tabs[w.current.table] = w.tab[w.current.table]
        BY <1>8, <3>2, <4>1 DEF CurrentType
      <4>3. QED
        BY <4>1, <4>2 DEF CurrentSound
    <3>3. QED
      BY <3>1, <3>2
  <2>3. QED
    BY <1>10, <2>1, <2>2 DEF TabsSound
<1>12. PanesSound(gone) /\ OrderSound(gone)
  <2>1. PanesSound(w) /\ OrderSound(w)
    BY <1>1 DEF UISound
  <2>2. ASSUME NEW i \in DOMAIN bottom PROVE PaneSound(gone, bottom[i])
    <3> DEFINE p == bottom[i]
    <3>1. p \in ToSet(w.bottom) /\ p \notin panes /\ p \in PaneType
      BY <1>3, <2>2 DEF ToSet
    <3> HIDE DEF p
    <3>2. PaneSound(w, p)
      BY <2>1, <3>1 DEF PanesSound, ToSet
    <3>3. p.kind = "table" => p.id \in Tables /\ p = Table(p.id)
      BY <3>1 DEF PaneType, Table, Result
    <3>4. p.kind = "table" => p.id \notin tables
      BY <1>7, <3>1, <3>3
    <3>5. PaneSound(gone, p)
      BY <1>8, <1>10, <3>2, <3>3, <3>4 DEF PaneSound, IsOpen, SameSQL
    <3>6. QED
      BY <3>5 DEF p
  <2>3. OrderSound(gone)
    BY <1>10, <2>1 DEF OrderSound, SameSQL
  <2>4. QED
    BY <1>10, <2>2, <2>3 DEF PanesSound
<1>13. UISound(gone)
  BY <1>10, <1>11, <1>12 DEF UISound
<1>14. Leavable(gone, panes)
  <2> SUFFICES ASSUME gone.active \notin panes PROVE ShownSound(gone)
    BY DEF Leavable
  <2>1. gone.active = NoPane \/ gone.active \in ToSet(gone.bottom)
    BY <1>1, <1>3, <1>10 DEF ShownSound
  <2>2. ASSUME NEW t \in Tables, gone.active = Table(t)
        PROVE  gone.current.table = t /\ (gone.tab[t].response => gone.current.response)
    <3>1. t \notin tables
      BY <1>7, <2>2
    <3>2. w.current.table = t /\ (w.tab[t].response => w.current.response)
      BY <1>1, <1>10, <2>2 DEF ShownSound
    <3>3. QED
      BY <1>8, <1>9, <1>10, <3>1, <3>2
  <2>3. QED
    BY <2>1, <2>2 DEF ShownSound
<1>15. /\ UISound(v) /\ ShownSound(v) /\ SameSQL(gone, v) /\ SameRows(gone, v)
       /\ SavingShown(gone) => SavingShown(v)
  BY <1>2, <1>13, <1>14, NextPaneKeeps
<1>16. SavingShown(w) => SavingShown(gone)
  <2>1. CASE w.current.table \in tables
    BY <1>9, <1>10, <2>1 DEF SavingShown, NoCurrent
  <2>2. CASE w.current.table \notin tables
    <3>1. w.current.table \in Tables \cup {NoTable}
      BY <1>1 DEF UIType, CurrentType
    <3>2. QED
      BY <1>8, <1>9, <1>10, <2>2, <3>1 DEF SavingShown
  <2>3. QED
    BY <2>1, <2>2
<1>17. ASSUME NEW t \in Tables
       PROVE  IF t \in tables THEN v.tab[t] = ClosedTab /\ RowsIn(v, t) = {}
              ELSE SameFlags(u.tab[t], v.tab[t]) /\ RowsIn(v, t) = RowsIn(u, t)
  <2>1. CASE t \in tables
    <3>1. ~v.tab[t].open
      BY <1>8, <1>10, <1>15, <2>1 DEF SameRows, SameFlags, ClosedTab
    <3>2. v.tab[t] = ClosedTab
      BY <1>15, <3>1 DEF UISound, TabsSound, TabSound
    <3>3. RowsIn(v, t) = {}
      BY <1>15, <3>1, RowsShape
    <3>4. QED
      BY <2>1, <3>2, <3>3
  <2>2. CASE t \notin tables
    <3>1. SameFlags(u.tab[t], w.tab[t]) /\ RowsIn(w, t) = RowsIn(u, t)
      BY <1>1 DEF SameRows
    <3>2. SameFlags(gone.tab[t], v.tab[t]) /\ RowsIn(v, t) = RowsIn(gone, t)
      BY <1>15 DEF SameRows
    <3>3. gone.tab[t] = w.tab[t]
      BY <1>8, <1>10, <2>2
    <3>4. RowsIn(gone, t) = RowsIn(w, t)
      <4>1. /\ RowsIn(gone, t) = IF gone.current.response /\ t = gone.current.table
                                   THEN GridRows(gone) ELSE TabRows(gone, t)
            /\ RowsIn(w, t) = IF w.current.response /\ t = w.current.table THEN GridRows(w) ELSE TabRows(w, t)
        BY <1>1, <1>13, RowsShape
      <4>2. TabRows(gone, t) = TabRows(w, t)
        BY <3>3 DEF TabRows, IsOpen
      <4>3. CASE w.current.table \in tables
        <5>1. ~gone.current.response /\ t # w.current.table
          BY <1>9, <1>10, <2>2, <4>3 DEF NoCurrent
        <5>2. QED
          BY <4>1, <4>2, <5>1
      <4>4. CASE w.current.table \notin tables
        <5>1. gone.current = w.current
          BY <1>9, <1>10, <4>4
        <5>2. GridRows(gone) = GridRows(w)
          BY <5>1 DEF GridRows
        <5>3. QED
          BY <4>1, <4>2, <5>1, <5>2
      <4>5. QED
        BY <4>3, <4>4
    <3>5. QED
      BY <2>2, <3>1, <3>2, <3>3, <3>4 DEF SameFlags
  <2>3. QED
    BY <2>1, <2>2
<1>18. SameSQL(u, v)
  BY <1>1, <1>10, <1>15 DEF SameSQL
<1>19. QED
  BY <1>1, <1>15, <1>16, <1>17, <1>18 DEF v

\* A result that is closed loses its drafts.
LEMMA CloseResultKeeps ==
  ASSUME NEW u, UISound(u), ShownSound(u), NEW s \in SQLs
  PROVE  LET v == CloseResult(u, s)
         IN  /\ UISound(v) /\ ShownSound(v) /\ SameRows(u, v)
             /\ SavingShown(u) => SavingShown(v)
             /\ v.sql = [u.sql EXCEPT ![s].drafts = {}]
             /\ v.order = u.order /\ v.sequence = u.sequence /\ v.activeSQL = u.activeSQL
<1> DEFINE w == CaptureTableState(u)
           closed == {Result(s)}
           bottom == Without(w.bottom, closed)
           sql == [u.sql EXCEPT ![s].drafts = {}]
           gone == [w EXCEPT !.bottom = Without(@, {Result(s)}), !.sql[s].drafts = {}]
           v == CloseResult(u, s)
<1>1. /\ UISound(w) /\ w \in UIType /\ SameSQL(u, w) /\ w.active = u.active /\ SameRows(u, w) /\ ShownSound(w)
      /\ SavingShown(u) => SavingShown(w)
  BY CaptureKeeps, CaptureFields DEF SameRows
<1>2. v = NextPane(gone, closed)
  BY DEF CloseResult
<1>3. bottom \in Seq(PaneType) /\ ToSet(bottom) = ToSet(w.bottom) \ closed
  BY <1>1, WithoutElements DEF UIType
<1>4. sql \in [SQLs -> SessionType]
  <2>1. u.sql \in [SQLs -> SessionType]
    BY DEF UISound, UIType
  <2>2. [u.sql[s] EXCEPT !.drafts = {}] \in SessionType
    BY <2>1 DEF SessionType
  <2>3. QED
    BY <2>1, <2>2
<1>5. gone = [w EXCEPT !.bottom = bottom, !.sql = sql]
  BY <1>1 DEF UIType, SameSQL
<1> HIDE DEF w, closed, bottom, sql, gone, v
<1>6. /\ gone \in UIType /\ gone.tab = w.tab /\ gone.current = w.current /\ gone.bottom = bottom
      /\ gone.active = w.active /\ gone.sql = sql /\ gone.order = w.order
      /\ gone.sequence = w.sequence /\ gone.activeSQL = w.activeSQL
  BY <1>1, <1>3, <1>4, <1>5 DEF UIType
<1>7. PanesSound(gone) /\ OrderSound(gone)
  <2>1. PanesSound(w) /\ OrderSound(w)
    BY <1>1 DEF UISound
  <2>2. ASSUME NEW i \in DOMAIN bottom PROVE PaneSound(gone, bottom[i])
    <3> DEFINE p == bottom[i]
    <3>1. p \in ToSet(w.bottom)
      BY <1>3, <2>2 DEF ToSet
    <3> HIDE DEF p
    <3>2. PaneSound(w, p)
      BY <2>1, <3>1 DEF PanesSound, ToSet
    <3>3. PaneSound(gone, p)
      BY <1>6, <3>2 DEF PaneSound, IsOpen
    <3>4. QED
      BY <3>3 DEF p
  <2>3. OrderSound(gone)
    BY <1>6, <2>1 DEF OrderSound
  <2>4. QED
    BY <1>6, <2>2, <2>3 DEF PanesSound
<1>8. UISound(gone)
  BY <1>1, <1>6, <1>7 DEF UISound, TabsSound
<1>9. Leavable(gone, closed)
  BY <1>1, <1>3, <1>6 DEF Leavable, ShownSound
<1>10. SameRows(w, gone) /\ (SavingShown(w) => SavingShown(gone))
  BY <1>1, <1>6, <1>8, RowsDepend
<1>11. /\ UISound(v) /\ ShownSound(v) /\ SameSQL(gone, v) /\ SameRows(gone, v)
       /\ SavingShown(gone) => SavingShown(v)
  BY <1>2, <1>8, <1>9, NextPaneKeeps
<1>12. SameRows(u, v)
  BY <1>1, <1>10, <1>11, SameRowsTwice
<1>13. QED
  BY <1>1, <1>6, <1>10, <1>11, <1>12 DEF v, sql, SameSQL

\* Another SQL tab is active; its result may be shown for it.
LEMMA ActivateSQLKeeps ==
  ASSUME NEW u, UISound(u), NEW s \in SQLs, s \in ToSet(u.order), NEW closed, Leavable(u, closed)
  PROVE  LET v == ActivateSQLTab(u, s)
         IN  /\ UISound(v) /\ Leavable(v, closed) /\ SameRows(u, v)
             /\ ShownSound(u) => ShownSound(v)
             /\ SavingShown(u) => SavingShown(v)
             /\ v.sql = u.sql /\ v.order = u.order /\ v.sequence = u.sequence /\ v.activeSQL = s
<1> DEFINE shown == [u EXCEPT !.activeSQL = s]
           v == ActivateSQLTab(u, s)
<1>1. u \in UIType
  BY DEF UISound
<1>2. v = ActivateBottom(shown, Result(s)) \/ v = shown
  BY DEF ActivateSQLTab
<1> HIDE DEF shown, v
<1>3. /\ shown \in UIType /\ shown.tab = u.tab /\ shown.current = u.current /\ shown.bottom = u.bottom
      /\ shown.active = u.active /\ shown.sql = u.sql /\ shown.order = u.order
      /\ shown.sequence = u.sequence /\ shown.activeSQL = s
  BY <1>1 DEF shown, UIType
<1>4. UISound(shown)
  BY <1>3 DEF UISound, TabsSound, PanesSound, PaneSound, OrderSound, IsOpen
<1>5. /\ SameRows(u, shown) /\ (SavingShown(u) => SavingShown(shown))
  BY <1>3, <1>4, RowsDepend
<1>6. (ShownSound(u) => ShownSound(shown)) /\ Leavable(shown, closed)
  BY <1>3 DEF ShownSound, Leavable
<1>7. CASE v = shown
  BY <1>3, <1>4, <1>5, <1>6, <1>7 DEF v
<1>8. CASE v = ActivateBottom(shown, Result(s))
  <2>1. Result(s) \in PaneType /\ PaneSound(shown, Result(s))
    BY <1>3 DEF PaneType, PaneSound, Result
  <2>2. /\ UISound(v) /\ ShownSound(v) /\ SameSQL(shown, v) /\ SameRows(shown, v)
        /\ SavingShown(shown) => SavingShown(v)
    BY <1>4, <1>8, <2>1, ActivateKeeps
  <2>3. SameRows(u, v)
    BY <1>5, <2>2, SameRowsTwice
  <2>4. QED
    BY <1>3, <1>5, <2>2, <2>3 DEF v, SameSQL, Leavable
<1>9. QED
  BY <1>2, <1>7, <1>8

\* A new SQL tab stands behind the others.
LEMMA CreateSQLKeeps ==
  ASSUME NEW u, UISound(u), u.sequence < MaxSQL, NEW closed, Leavable(u, closed)
  PROVE  LET v == CreateSQLTab(u)
         IN  /\ UISound(v) /\ Leavable(v, closed) /\ SameRows(u, v)
             /\ ShownSound(u) => ShownSound(v)
             /\ SavingShown(u) => SavingShown(v)
             /\ v.sql = u.sql /\ v.activeSQL \in ToSet(v.order)
<1> DEFINE new == u.sequence + 1
           order == Append(u.order, new)
           w == [u EXCEPT !.sequence = @ + 1, !.order = Append(@, u.sequence + 1)]
           v == CreateSQLTab(u)
           n == Len(u.order)
<1>1. u \in UIType /\ u.sequence \in SQLs /\ u.order \in Seq(SQLs) /\ OrderSound(u) /\ PanesSound(u)
  BY DEF UISound, UIType
<1>2. new \in SQLs /\ u.sequence < new /\ new \in Nat
  BY <1>1 DEF SQLs
<1>3. /\ order \in Seq(SQLs) /\ DOMAIN order = 1..(n + 1) /\ order[n + 1] = new
      /\ \A i \in 1..n : order[i] = u.order[i]
      /\ n \in Nat /\ DOMAIN u.order = 1..n
  BY <1>1, <1>2
<1>4. w = [u EXCEPT !.sequence = new, !.order = order]
  BY <1>1 DEF UIType
<1>5. v = ActivateSQLTab(w, new)
  BY DEF CreateSQLTab
<1>6. \A i \in 1..(n + 1) : i \in 1..n \/ i = n + 1
  BY <1>3
<1> HIDE DEF new, order, w, v, n
<1>7. /\ w \in UIType /\ w.tab = u.tab /\ w.current = u.current /\ w.bottom = u.bottom
      /\ w.active = u.active /\ w.sql = u.sql /\ w.order = order /\ w.sequence = new
  BY <1>1, <1>2, <1>3, <1>4 DEF UIType
<1>8. OrderSound(w)
  <2>1. \A i \in 1..n : u.order[i] \in SQLs /\ u.order[i] <= u.sequence
    BY <1>1, <1>3 DEF OrderSound
  <2>2. \A i \in 1..n : u.order[i] # new /\ u.order[i] <= new
    <3>1. u.sequence \in Nat /\ \A i \in 1..n : u.order[i] \in Nat
      BY <1>1, <2>1, DatabaseAssumption DEF SQLs
    <3>2. QED
      BY <1>2, <2>1, <3>1
  <2>3. \A i \in 1..(n + 1) : order[i] <= new
    BY <1>2, <1>3, <1>6, <2>2
  <2>4. \A i, j \in 1..(n + 1) : i # j => order[i] # order[j]
    BY <1>1, <1>3, <1>6, <2>2 DEF OrderSound
  <2>5. QED
    BY <1>3, <1>7, <2>3, <2>4 DEF OrderSound
<1>9. new \in ToSet(w.order) /\ \A x \in ToSet(u.order) : x \in ToSet(w.order)
  <2>1. n + 1 \in DOMAIN order /\ \A i \in DOMAIN u.order : i \in DOMAIN order /\ order[i] = u.order[i]
    BY <1>3
  <2>2. QED
    BY <1>3, <1>7, <2>1 DEF ToSet
<1>10. PanesSound(w)
  BY <1>1, <1>7, <1>9 DEF PanesSound, PaneSound, IsOpen
<1>11. UISound(w)
  BY <1>7, <1>8, <1>10 DEF UISound, TabsSound
<1>12. SameRows(u, w) /\ (SavingShown(u) => SavingShown(w))
  BY <1>7, <1>11, RowsDepend
<1>13. (ShownSound(u) => ShownSound(w)) /\ Leavable(w, closed)
  BY <1>7 DEF ShownSound, Leavable
<1>14. /\ UISound(v) /\ Leavable(v, closed) /\ SameRows(w, v)
       /\ ShownSound(w) => ShownSound(v)
       /\ SavingShown(w) => SavingShown(v)
       /\ v.sql = w.sql /\ v.order = w.order /\ v.activeSQL = new
  BY <1>2, <1>5, <1>9, <1>11, <1>13, ActivateSQLKeeps
<1>15. SameRows(u, v)
  BY <1>12, <1>14, SameRowsTwice
<1>16. QED
  BY <1>7, <1>9, <1>12, <1>13, <1>14, <1>15 DEF v

\* An SQL tab that is closed takes its pane along; one is always there.
LEMMA CloseSQLKeeps ==
  ASSUME NEW u, UISound(u), ShownSound(u), u.activeSQL \in ToSet(u.order), NEW s \in SQLs,
         s \in ToSet(u.order), Len(u.order) > 1 \/ u.sequence < MaxSQL
  PROVE  LET v == CloseSQLTab(u, s)
         IN  /\ UISound(v) /\ ShownSound(v) /\ SameRows(u, v)
             /\ SavingShown(u) => SavingShown(v)
             /\ v.sql = [u.sql EXCEPT ![s] = NoSession] /\ v.activeSQL \in ToSet(v.order)
<1> DEFINE closed == {Result(s)}
           order == Without(u.order, {s})
           bottom == Without(u.bottom, closed)
           sql == [u.sql EXCEPT ![s] = NoSession]
           gone == [u EXCEPT !.order = Without(@, {s}), !.bottom = Without(@, {Result(s)}), !.sql[s] = NoSession]
           none == [gone EXCEPT !.activeSQL = NoSQL]
           other == IF u.activeSQL # s THEN gone
                    ELSE IF gone.order = <<>> THEN CreateSQLTab(none) ELSE ActivateSQLTab(none, Last(gone.order))
           v == CloseSQLTab(u, s)
<1>1. /\ u \in UIType /\ u.order \in Seq(SQLs) /\ u.bottom \in Seq(PaneType)
      /\ PanesSound(u) /\ OrderSound(u) /\ TabsSound(u)
  BY DEF UISound, UIType
<1>2. /\ order \in Seq(SQLs) /\ ToSet(order) = ToSet(u.order) \ {s} /\ Distinct(order)
      /\ bottom \in Seq(PaneType) /\ ToSet(bottom) = ToSet(u.bottom) \ closed
  <2>1. Distinct(u.order)
    BY <1>1 DEF OrderSound, Distinct
  <2>2. QED
    BY <1>1, <2>1, WithoutElements
<1>3. sql \in [SQLs -> SessionType]
  BY <1>1, FreshTypes DEF UIType
<1>4. v = NextPane(other, closed)
  BY DEF CloseSQLTab
<1>5. gone = [u EXCEPT !.order = order, !.bottom = bottom, !.sql = sql]
  BY <1>1 DEF UIType
<1> HIDE DEF closed, order, bottom, sql, gone, v
<1>6. /\ gone \in UIType /\ gone.tab = u.tab /\ gone.current = u.current /\ gone.bottom = bottom
      /\ gone.active = u.active /\ gone.sql = sql /\ gone.order = order /\ gone.sequence = u.sequence
      /\ gone.activeSQL = u.activeSQL
  BY <1>1, <1>2, <1>3, <1>5 DEF UIType
<1>7. OrderSound(gone)
  <2>1. ASSUME NEW i \in DOMAIN order PROVE order[i] <= u.sequence
    <3>1. order[i] \in ToSet(u.order)
      BY <1>2, <2>1 DEF ToSet
    <3>2. PICK j \in DOMAIN u.order : u.order[j] = order[i]
      BY <3>1 DEF ToSet
    <3>3. QED
      BY <1>1, <3>2 DEF OrderSound
  <2>2. QED
    BY <1>2, <1>6, <2>1 DEF OrderSound, Distinct
<1>8. PanesSound(gone)
  <2>1. ASSUME NEW i \in DOMAIN bottom PROVE PaneSound(gone, bottom[i])
    <3> DEFINE p == bottom[i]
    <3>1. p \in ToSet(u.bottom) /\ p # Result(s) /\ p \in PaneType
      <4>1. p \in ToSet(bottom) /\ p \in PaneType
        BY <1>2, <2>1 DEF ToSet
      <4>2. QED
        BY <1>2, <4>1 DEF closed
    <3> HIDE DEF p
    <3>2. PaneSound(u, p)
      BY <1>1, <3>1 DEF PanesSound, ToSet
    <3>3. p.kind # "table" => p.id # s
      BY <3>1 DEF PaneType, Table, Result
    <3>4. PaneSound(gone, p)
      BY <1>2, <1>6, <3>2, <3>3 DEF PaneSound, IsOpen
    <3>5. QED
      BY <3>4 DEF p
  <2>2. QED
    BY <1>6, <2>1 DEF PanesSound
<1>9. UISound(gone)
  BY <1>1, <1>6, <1>7, <1>8 DEF UISound, TabsSound
<1>10. Leavable(gone, closed)
  BY <1>2, <1>6 DEF Leavable, ShownSound
<1>11. SameRows(u, gone) /\ (SavingShown(u) => SavingShown(gone))
  BY <1>6, <1>9, RowsDepend
<1>12. /\ UISound(other) /\ Leavable(other, closed) /\ SameRows(gone, other)
       /\ SavingShown(gone) => SavingShown(other)
       /\ other.sql = sql /\ other.activeSQL \in ToSet(other.order)
  <2>1. CASE u.activeSQL # s
    <3>1. other = gone
      BY <2>1
    <3>2. SameRows(gone, gone)
      BY DEF SameRows, SameFlags
    <3> HIDE DEF other
    <3>3. QED
      BY <1>2, <1>6, <1>9, <1>10, <2>1, <3>1, <3>2
  <2>2. CASE u.activeSQL = s
    <3>1. /\ none \in UIType /\ none.tab = gone.tab /\ none.current = gone.current /\ none.bottom = gone.bottom
          /\ none.active = gone.active /\ none.sql = gone.sql /\ none.order = gone.order
          /\ none.sequence = gone.sequence
      BY <1>6 DEF UIType
    <3> HIDE DEF none
    <3>2. UISound(none)
      BY <1>9, <3>1 DEF UISound, TabsSound, PanesSound, PaneSound, OrderSound, IsOpen
    <3>3. SameRows(gone, none) /\ (SavingShown(gone) => SavingShown(none))
      BY <1>9, <3>1, <3>2, RowsDepend
    <3>4. Leavable(none, closed)
      BY <1>10, <3>1 DEF Leavable, ShownSound
    <3>5. CASE gone.order = <<>>
      <4>1. other = CreateSQLTab(none)
        BY <2>2, <3>5
      <4>2. u.sequence < MaxSQL
        <5> SUFFICES ASSUME Len(u.order) > 1 PROVE FALSE
          OBVIOUS
        <5>1. 1 \in DOMAIN u.order /\ 2 \in DOMAIN u.order
          BY <1>1
        <5>2. u.order[1] # u.order[2]
          BY <1>1, <5>1 DEF OrderSound
        <5>3. PICK x \in ToSet(u.order) : x # s
          BY <5>1, <5>2 DEF ToSet
        <5>4. x \in ToSet(order)
          BY <1>2, <5>3
        <5>5. order = <<>>
          BY <1>6, <3>5
        <5>6. QED
          BY <5>4, <5>5 DEF ToSet
      <4>3. none.sequence < MaxSQL
        BY <1>6, <3>1, <4>2
      <4> HIDE DEF other
      <4>4. /\ UISound(other) /\ Leavable(other, closed) /\ SameRows(none, other)
            /\ SavingShown(none) => SavingShown(other)
            /\ other.sql = none.sql /\ other.activeSQL \in ToSet(other.order)
        BY <3>2, <3>4, <4>1, <4>3, CreateSQLKeeps
      <4>5. SameRows(gone, other)
        BY <3>3, <4>4, SameRowsTwice
      <4>6. QED
        BY <1>6, <3>1, <3>3, <4>4, <4>5
    <3>6. CASE gone.order # <<>>
      <4> DEFINE last == Last(gone.order)
      <4>1. other = ActivateSQLTab(none, last)
        BY <2>2, <3>6
      <4>2. last \in SQLs /\ last \in ToSet(none.order)
        <5>1. Len(order) \in DOMAIN order /\ last = order[Len(order)]
          BY <1>2, <1>6, <3>6 DEF Last
        <5>2. QED
          BY <1>2, <1>6, <3>1, <5>1 DEF ToSet
      <4> HIDE DEF other, last
      <4>3. /\ UISound(other) /\ Leavable(other, closed) /\ SameRows(none, other)
            /\ SavingShown(none) => SavingShown(other)
            /\ other.sql = none.sql /\ other.order = none.order /\ other.activeSQL = last
        BY <3>2, <3>4, <4>1, <4>2, ActivateSQLKeeps
      <4>4. SameRows(gone, other)
        BY <3>3, <4>3, SameRowsTwice
      <4>5. QED
        BY <1>6, <3>1, <3>3, <4>2, <4>3, <4>4
    <3>7. QED
      BY <3>5, <3>6
  <2>3. QED
    BY <2>1, <2>2
<1> HIDE DEF other
<1>13. /\ UISound(v) /\ ShownSound(v) /\ SameSQL(other, v) /\ SameRows(other, v)
       /\ SavingShown(other) => SavingShown(v)
  BY <1>4, <1>12, NextPaneKeeps
<1>14. SameRows(u, v)
  BY <1>11, <1>12, <1>13, SameRowsTwice
<1>15. QED
  BY <1>11, <1>12, <1>13, <1>14 DEF v, sql, SameSQL

(***************************************************************************)
(* The edits, what is sent of them, and the commit.                        *)
(***************************************************************************)
LoadType ==
  [table : Tables, nonce : Nat, why : {"open", "save", "commit"}, sql : SQLs \cup {NoSQL}, aborted : BOOLEAN]
CommitType ==
  [busy : BOOLEAN, results : SUBSET SQLs, tables : SUBSET Tables, edits : SUBSET Nat,
   left : SUBSET Connections, saved : SUBSET Tables, reload : SUBSET Tables, loading : BOOLEAN]

UIKept == UISound(ui) /\ ShownSound(ui) /\ ui.activeSQL \in ToSet(ui.order)
Made == 1..Len(home)
Done == agreed \cup saved \cup uncounted

\* An edit is of one table or of results; what is drafted in a result is not saved.
Apart == \A t, o \in Tables : t # o => RowsIn(ui, t) \cap (RowsIn(ui, o) \cup saves[o]) = {}
EditsSound ==
  /\ home \in Seq(Connections) /\ saves \in [Tables -> SUBSET Made]
  /\ agreed \subseteq Made /\ saved \subseteq Made /\ commit.edits \subseteq Made
  /\ \A t \in Tables : RowsIn(ui, t) \subseteq Made /\ \A e \in RowsIn(ui, t) : home[e] = ConnectionOf[t]
  /\ Apart
  /\ \A s \in SQLs :
       /\ ui.sql[s].drafts \subseteq Made /\ ui.sql[s].drafts \cap saved = {}
       /\ \A t \in Tables : ui.sql[s].drafts \cap (RowsIn(ui, t) \cup saves[t]) = {}

\* What a table that loads holds may be lost; of one that saves, all was sent.
TableSound(t) ==
  /\ ui.tab[t].loading => ui.tab[t].progress = ui.tab[t].nonce /\ RowsIn(ui, t) \subseteq Done
  /\ saves[t] # {} => ui.tab[t].saving /\ RowsIn(ui, t) \subseteq saves[t]
  /\ commit.busy => saves[t] = {}
TablesSound == \A t \in Tables : TableSound(t)

\* A load is of an open table and, when it is the latest, of one that loads; the load
\* after a save is the only one, and nothing else is sent meanwhile.
LoadSound(l) ==
  LET tab == ui.tab[l.table]
  IN  /\ tab.open /\ l.nonce <= tab.nonce /\ (l.nonce = tab.nonce => tab.loading)
      /\ l.why = "save" => tab.saving /\ saves[l.table] = {} /\ ~commit.busy
LoadsApart(ls) ==
  /\ ls \subseteq LoadType
  /\ \A l, m \in ls : l.table = m.table /\ (l.nonce = m.nonce \/ (l.why = "save" /\ m.why = "save")) => l = m
LoadsSound == LoadsApart(loads) /\ \A l \in loads : LoadSound(l)

\* A commit has sent all that its tables hold, and they hold nothing once they are
\* loaded again.
CommitSound ==
  /\ commit \in CommitType
  /\ ~commit.busy => commit = NoCommit /\ SavingShown(ui)
  /\ commit.reload \subseteq commit.saved /\ commit.saved \subseteq commit.tables
  /\ \A t \in commit.tables : ui.tab[t].open /\ RowsIn(ui, t) \subseteq commit.edits
  /\ \A t \in Tables : commit.edits \cap RowsIn(ui, t) # {} => t \in commit.tables
  /\ \A t \in commit.reload : RowsIn(ui, t) \subseteq saved
  /\ \A t \in commit.saved : t \in commit.reload \/ RowsIn(ui, t) = {}
  /\ \A t \in Tables : RowsIn(ui, t) \cap saved # {} => t \in commit.reload

WorkSound == UIKept /\ EditsSound /\ TablesSound /\ LoadsSound /\ CommitSound /\ DraftsAreKept

\* The edits that are there stay sound when no new one is made.
LEMMA EditsStay ==
  ASSUME EditsSound, home' = home, saves' \in [Tables -> SUBSET Made],
         agreed' \subseteq Made, saved' \subseteq Made, commit'.edits \subseteq Made,
         \A t \in Tables : saves'[t] \subseteq saves[t] \cup RowsIn(ui, t),
         \A t \in Tables : RowsIn(ui', t) \subseteq RowsIn(ui, t),
         \A s \in SQLs : ui'.sql[s].drafts \subseteq ui.sql[s].drafts,
         \A s \in SQLs : ui'.sql[s].drafts \cap saved' = {}
  PROVE  EditsSound'
<1>1. Made' = Made /\ home' \in Seq(Connections)
  BY DEF Made, EditsSound
<1>2. ASSUME NEW t \in Tables
      PROVE  RowsIn(ui', t) \subseteq Made /\ \A e \in RowsIn(ui', t) : home'[e] = ConnectionOf[t]
  BY DEF EditsSound
<1>3. ASSUME NEW t \in Tables, NEW o \in Tables, t # o
      PROVE  RowsIn(ui', t) \cap (RowsIn(ui', o) \cup saves'[o]) = {}
  <2>1. RowsIn(ui, t) \cap (RowsIn(ui, o) \cup saves[o]) = {}
    BY <1>3 DEF EditsSound, Apart
  <2>2. saves'[o] \subseteq saves[o] \cup RowsIn(ui, o) /\ RowsIn(ui', o) \subseteq RowsIn(ui, o)
    OBVIOUS
  <2>3. RowsIn(ui', t) \subseteq RowsIn(ui, t)
    OBVIOUS
  <2>4. QED
    BY <2>1, <2>2, <2>3
<1>4. ASSUME NEW s \in SQLs
      PROVE  /\ ui'.sql[s].drafts \subseteq Made /\ ui'.sql[s].drafts \cap saved' = {}
             /\ \A t \in Tables : ui'.sql[s].drafts \cap (RowsIn(ui', t) \cup saves'[t]) = {}
  <2>1. /\ ui.sql[s].drafts \subseteq Made
        /\ \A t \in Tables : ui.sql[s].drafts \cap (RowsIn(ui, t) \cup saves[t]) = {}
    BY DEF EditsSound
  <2>2. ASSUME NEW t \in Tables PROVE ui'.sql[s].drafts \cap (RowsIn(ui', t) \cup saves'[t]) = {}
    <3>1. saves'[t] \subseteq saves[t] \cup RowsIn(ui, t) /\ RowsIn(ui', t) \subseteq RowsIn(ui, t)
      OBVIOUS
    <3>2. ui'.sql[s].drafts \subseteq ui.sql[s].drafts /\ ui.sql[s].drafts \cap (RowsIn(ui, t) \cup saves[t]) = {}
      BY <2>1
    <3>3. QED
      BY <3>1, <3>2
  <2>3. QED
    BY <2>1, <2>2
<1>5. Apart'
  BY <1>3 DEF Apart
<1>6. QED
  BY <1>1, <1>2, <1>4, <1>5 DEF EditsSound

LEMMA DraftsStay ==
  ASSUME DraftsAreKept, home' = home, Done \subseteq Done',
         \A t \in Tables : RowsIn(ui, t) \subseteq RowsIn(ui', t) \cup Done',
         \A s \in SQLs : ui.sql[s].drafts \subseteq ui'.sql[s].drafts \cup Done'
  PROVE  DraftsAreKept'
<1> SUFFICES ASSUME NEW e \in 1..Len(home) PROVE e \in Pending' \cup Done'
  BY DEF DraftsAreKept, Done
<1>1. e \in Pending \cup Done
  BY DEF DraftsAreKept, Done
<1>2. CASE e \in Done
  BY <1>2
<1>3. ASSUME NEW t \in Tables, e \in RowsIn(ui, t) PROVE e \in Pending' \cup Done'
  <2>1. e \in RowsIn(ui', t) \cup Done'
    BY <1>3
  <2>2. e \in RowsIn(ui', t) => e \in Pending'
    BY DEF Pending, PendingRows
  <2>3. QED
    BY <2>1, <2>2
<1>4. ASSUME NEW s \in SQLs, e \in ui.sql[s].drafts PROVE e \in Pending' \cup Done'
  <2>1. e \in ui'.sql[s].drafts \cup Done'
    BY <1>4
  <2>2. e \in ui'.sql[s].drafts => e \in Pending'
    BY DEF Pending
  <2>3. QED
    BY <2>1, <2>2
<1>5. e \in Pending => (\E t \in Tables : e \in RowsIn(ui, t)) \/ (\E s \in SQLs : e \in ui.sql[s].drafts)
  BY DEF Pending, PendingRows
<1>6. QED
  BY <1>1, <1>2, <1>3, <1>4, <1>5

LEMMA TableStays ==
  ASSUME NEW t \in Tables, TableSound(t), SameFlags(ui.tab[t], ui'.tab[t]),
         RowsIn(ui', t) \subseteq RowsIn(ui, t), Done \subseteq Done', saves'[t] = saves[t],
         commit'.busy => commit.busy
  PROVE  TableSound(t)'
BY DEF TableSound, SameFlags

LEMMA CommitStays ==
  ASSUME CommitSound, commit' = commit, saved' = saved,
         commit.busy \/ SavingShown(ui'),
         \A t \in commit.tables : ui'.tab[t].open,
         \A t \in Tables : RowsIn(ui', t) \subseteq RowsIn(ui, t)
  PROVE  CommitSound'
<1>1. commit.tables \subseteq Tables /\ commit.reload \subseteq Tables /\ commit.saved \subseteq Tables
  BY DEF CommitSound, CommitType
<1>2. \A t \in commit.tables : ui'.tab[t].open /\ RowsIn(ui', t) \subseteq commit.edits
  BY <1>1 DEF CommitSound
<1>3. \A t \in Tables : commit.edits \cap RowsIn(ui', t) # {} => t \in commit.tables
  BY DEF CommitSound
<1>4. \A t \in commit.reload : RowsIn(ui', t) \subseteq saved
  BY <1>1 DEF CommitSound
<1>5. \A t \in commit.saved : t \in commit.reload \/ RowsIn(ui', t) = {}
  BY <1>1 DEF CommitSound
<1>6. \A t \in Tables : RowsIn(ui', t) \cap saved # {} => t \in commit.reload
  BY DEF CommitSound
<1>7. /\ commit \in CommitType /\ (~commit.busy => commit = NoCommit)
      /\ commit.reload \subseteq commit.saved /\ commit.saved \subseteq commit.tables
  BY DEF CommitSound
<1>8. ~commit.busy => SavingShown(ui')
  OBVIOUS
<1>9. QED
  BY <1>2, <1>3, <1>4, <1>5, <1>6, <1>7, <1>8 DEF CommitSound

\* Where the loads come from: none is new.
LoadsFrom(ls, ms) ==
  /\ LoadsApart(ms)
  /\ \A m \in ms : \E l \in ls : l.table = m.table /\ l.nonce = m.nonce /\ l.why = m.why

LEMMA FewerLoads ==
  ASSUME NEW ls, LoadsApart(ls), NEW ms \in SUBSET ls
  PROVE  LoadsFrom(ls, ms)
BY DEF LoadsFrom, LoadsApart

LEMMA AbortedLoads ==
  ASSUME LoadsApart(loads), NEW t \in Tables
  PROVE  LoadsFrom(loads, AbortLoads(t))
<1> DEFINE f(l) == IF l.table = t THEN [l EXCEPT !.aborted = TRUE] ELSE l
<1>1. \A m \in AbortLoads(t) : \E l \in loads : m = f(l)
  BY DEF AbortLoads
<1>2. ASSUME NEW l \in loads
      PROVE  f(l) \in LoadType /\ f(l).table = l.table /\ f(l).nonce = l.nonce /\ f(l).why = l.why
  <2>1. l \in LoadType
    BY DEF LoadsApart
  <2>2. CASE l.table = t
    BY <2>1, <2>2 DEF LoadType
  <2>3. CASE l.table # t
    BY <2>1, <2>3
  <2>4. QED
    BY <2>2, <2>3
<1> HIDE DEF f
<1>3. AbortLoads(t) \subseteq LoadType
  BY <1>1, <1>2
<1>4. ASSUME NEW m \in AbortLoads(t), NEW n \in AbortLoads(t), m.table = n.table,
             m.nonce = n.nonce \/ (m.why = "save" /\ n.why = "save")
      PROVE  m = n
  <2>1. PICK k \in loads, l \in loads : m = f(k) /\ n = f(l)
    BY <1>1
  <2>2. k.table = l.table /\ (k.nonce = l.nonce \/ (k.why = "save" /\ l.why = "save"))
    BY <1>2, <1>4, <2>1
  <2>3. k = l
    BY <2>2 DEF LoadsApart
  <2>4. QED
    BY <2>1, <2>3
<1>5. LoadsApart(AbortLoads(t))
  BY <1>3, <1>4 DEF LoadsApart
<1>6. \A m \in AbortLoads(t) : \E l \in loads : l.table = m.table /\ l.nonce = m.nonce /\ l.why = m.why
  BY <1>1, <1>2
<1>7. QED
  BY <1>5, <1>6 DEF LoadsFrom

LEMMA LoadStays ==
  ASSUME NEW l \in loads, LoadSound(l), NEW m, l.table = m.table, l.nonce = m.nonce, l.why = m.why,
         SameFlags(ui.tab[l.table], ui'.tab[l.table]), saves'[l.table] \subseteq saves[l.table],
         commit'.busy => commit.busy
  PROVE  LoadSound(m)'
BY DEF LoadSound, SameFlags

\* A step that makes no edit and sends none: some are discarded with agreement, and
\* tables may close that are neither saving nor committed.
LEMMA DiscardKeeps ==
  ASSUME WorkSound, UIKept', UNCHANGED <<saves, commit, home, uncounted, saved>>,
         agreed \subseteq agreed', agreed' \subseteq Made,
         NEW closed \in SUBSET Tables, closed # {} => ~commit.busy,
         \A t \in closed : ~ui.tab[t].saving /\ ui'.tab[t] = ClosedTab,
         \A t \in Tables : t \notin closed => SameFlags(ui.tab[t], ui'.tab[t]),
         \A t \in Tables : RowsIn(ui', t) \subseteq RowsIn(ui, t) /\ RowsIn(ui, t) \subseteq RowsIn(ui', t) \cup agreed',
         \A s \in SQLs : /\ ui'.sql[s].drafts \subseteq ui.sql[s].drafts
                         /\ ui.sql[s].drafts \subseteq ui'.sql[s].drafts \cup agreed',
         SavingShown(ui) => SavingShown(ui'),
         LoadsFrom(loads, loads'), \A l \in loads' : l.table \notin closed
  PROVE  WorkSound'
<1>1. EditsSound /\ TablesSound /\ LoadsSound /\ CommitSound /\ DraftsAreKept
  BY DEF WorkSound
<1>2. Done \subseteq Done' /\ agreed' \subseteq Done'
  BY DEF Done
<1>3. EditsSound'
  <2>1. /\ saves' \in [Tables -> SUBSET Made] /\ saved' \subseteq Made /\ commit'.edits \subseteq Made
        /\ \A s \in SQLs : ui'.sql[s].drafts \cap saved' = {}
    BY <1>1 DEF EditsSound
  <2>2. QED
    BY <1>1, <2>1, EditsStay
<1>4. DraftsAreKept'
  <2>1. \A t \in Tables : RowsIn(ui, t) \subseteq RowsIn(ui', t) \cup Done'
    BY <1>2
  <2>2. \A s \in SQLs : ui.sql[s].drafts \subseteq ui'.sql[s].drafts \cup Done'
    BY <1>2
  <2>3. QED
    BY <1>1, <1>2, <2>1, <2>2, DraftsStay
<1>5. ASSUME NEW t \in Tables PROVE TableSound(t)'
  <2>1. TableSound(t)
    BY <1>1 DEF TablesSound
  <2>2. CASE t \notin closed
    BY <1>2, <2>1, <2>2, TableStays
  <2>3. CASE t \in closed
    <3>1. ui'.tab[t] = ClosedTab /\ saves[t] = {} /\ saves' = saves
      BY <2>1, <2>3 DEF TableSound
    <3>2. QED
      BY <3>1 DEF TableSound, ClosedTab
  <2>4. QED
    BY <2>2, <2>3
<1>6. LoadsSound'
  <2>1. ASSUME NEW m \in loads' PROVE LoadSound(m)'
    <3>1. PICK l \in loads : l.table = m.table /\ l.nonce = m.nonce /\ l.why = m.why
      BY <2>1 DEF LoadsFrom
    <3>2. l.table \in Tables /\ l.table \notin closed /\ LoadSound(l)
      BY <1>1, <3>1 DEF LoadsSound, LoadsApart, LoadType
    <3>3. SameFlags(ui.tab[l.table], ui'.tab[l.table]) /\ saves' = saves
      BY <3>2
    <3>4. QED
      BY <3>1, <3>2, <3>3, LoadStays
  <2>2. LoadsApart(loads')
    BY DEF LoadsFrom
  <2>3. QED
    BY <2>1, <2>2 DEF LoadsSound
<1>7. CommitSound'
  <2>1. commit.busy \/ SavingShown(ui')
    BY <1>1 DEF CommitSound
  <2>2. ASSUME NEW t \in commit.tables PROVE ui'.tab[t].open
    <3>1. t \in Tables /\ ui.tab[t].open
      BY <1>1 DEF CommitSound, CommitType
    <3>2. commit.busy
      <4>1. commit.tables # {}
        OBVIOUS
      <4>2. QED
        BY <1>1, <4>1 DEF CommitSound, NoCommit
    <3>3. QED
      BY <3>1, <3>2 DEF SameFlags
  <2>3. QED
    BY <1>1, <2>1, <2>2, CommitStays
<1>8. QED
  BY <1>3, <1>4, <1>5, <1>6, <1>7 DEF WorkSound, TablesSound

\* A dragged tab takes another place, and every tab keeps one.
LEMMA MovedElements ==
  ASSUME NEW S, NEW list \in Seq(S), NEW i \in 1..Len(list), NEW j \in 1..Len(list)
  PROVE  /\ MoveItem(list, i, j) \in Seq(S) /\ ToSet(MoveItem(list, i, j)) = ToSet(list)
         /\ Distinct(list) => Distinct(MoveItem(list, i, j))
<1> DEFINE n == Len(list)
           q == RemoveAt(list, i)
           r == MoveItem(list, i, j)
           src(k) == IF k = j THEN i
                     ELSE IF k < j THEN (IF k < i THEN k ELSE k + 1) ELSE (IF k - 1 < i THEN k - 1 ELSE k)
           dst(x) == IF x = i THEN j
                     ELSE IF x < i THEN (IF x < j THEN x ELSE x + 1) ELSE (IF x - 1 < j THEN x - 1 ELSE x)
<1>1. n \in Nat /\ i \in 1..n /\ j \in 1..n /\ DOMAIN list = 1..n /\ list[i] \in S
  OBVIOUS
<1>2. /\ q \in Seq(S) /\ Len(q) = n - 1
      /\ \A k \in 1..(n - 1) : q[k] = IF k < i THEN list[k] ELSE list[k + 1]
  <2>1. i \in DOMAIN list
    BY <1>1
  <2>2. QED
    BY <2>1, RemovedElements
<1>3. r = InsertAt(q, j, list[i])
  BY DEF MoveItem
<1> HIDE DEF n, q, r
<1>4. PICK m \in 0..Len(q) : j = m + 1
  <2>1. j - 1 \in 0..Len(q) /\ j = (j - 1) + 1
    BY <1>1, <1>2
  <2>2. QED
    BY <2>1
<1>5. /\ r \in Seq(S) /\ Len(r) = Len(q) + 1
      /\ \A k \in 1..(Len(q) + 1) : r[k] = IF k <= m THEN q[k] ELSE IF k = m + 1 THEN list[i] ELSE q[k - 1]
  <2>1. PICK e \in S : e = list[i]
    BY <1>1
  <2>2. r = InsertAt(q, m + 1, e)
    BY <1>3, <1>4, <2>1
  <2>3. /\ InsertAt(q, m + 1, e) \in Seq(S) /\ Len(InsertAt(q, m + 1, e)) = Len(q) + 1
        /\ \A k \in 1..(Len(q) + 1) :
             InsertAt(q, m + 1, e)[k] = IF k <= m THEN q[k] ELSE IF k = m + 1 THEN e ELSE q[k - 1]
    <3>1. q \in Seq(S) /\ m \in 0..Len(q) /\ e \in S
      BY <1>2
    <3>2. QED
      BY ONLY <3>1, InsertedElements
  <2>4. QED
    BY <2>1, <2>2, <2>3
<1>6. Len(r) = n /\ DOMAIN r = 1..n /\ Len(q) + 1 = n
  BY <1>1, <1>2, <1>5
<1>7. \A k \in 1..n : src(k) \in 1..n
  BY <1>1
<1>8. ASSUME NEW k \in 1..n PROVE r[k] = list[src(k)]
  <2>1. r[k] = IF k <= m THEN q[k] ELSE IF k = m + 1 THEN list[i] ELSE q[k - 1]
    BY <1>5, <1>6
  <2>2. k \in Nat /\ m \in Nat /\ i \in Nat
    BY <1>1, <1>2, <1>4
  <2>3. CASE k = j
    BY <1>4, <2>1, <2>2, <2>3
  <2>4. CASE k < j
    <3>1. k <= m /\ k \in 1..(n - 1)
      BY <1>1, <1>4, <2>2, <2>4
    <3>2. r[k] = q[k]
      BY <2>1, <3>1
    <3>3. src(k) = IF k < i THEN k ELSE k + 1
      BY <2>2, <2>4, <1>1
    <3>4. QED
      BY <1>2, <3>1, <3>2, <3>3
  <2>5. CASE j < k
    <3>1. ~(k <= m) /\ k # m + 1 /\ k - 1 \in 1..(n - 1) /\ (k - 1) + 1 = k
      BY <1>1, <1>4, <2>2, <2>5
    <3>2. r[k] = q[k - 1]
      BY <2>1, <3>1
    <3>3. src(k) = IF k - 1 < i THEN k - 1 ELSE k
      BY <2>2, <2>5, <1>1
    <3>4. q[k - 1] = IF k - 1 < i THEN list[k - 1] ELSE list[k]
      BY <1>2, <3>1
    <3>5. QED
      BY <3>2, <3>3, <3>4
  <2>6. QED
    BY <1>1, <2>2, <2>3, <2>4, <2>5
<1>9. \A x \in 1..n : dst(x) \in 1..n /\ src(dst(x)) = x
  BY <1>1
<1>10. \A k, l \in 1..n : k # l => src(k) # src(l)
  BY <1>1
<1> HIDE DEF src, dst
<1>11. ToSet(r) = ToSet(list)
  <2>1. \A x \in ToSet(r) : x \in ToSet(list)
    BY <1>1, <1>6, <1>7, <1>8 DEF ToSet
  <2>2. ASSUME NEW x \in 1..n PROVE list[x] \in ToSet(r)
    BY <1>6, <1>8, <1>9 DEF ToSet
  <2>3. \A y \in ToSet(list) : y \in ToSet(r)
    BY <1>1, <2>2 DEF ToSet
  <2>4. QED
    BY <2>1, <2>3
<1>12. ASSUME Distinct(list) PROVE Distinct(r)
  <2>1. ASSUME NEW k \in 1..n, NEW l \in 1..n, k # l PROVE r[k] # r[l]
    <3>1. src(k) # src(l) /\ src(k) \in 1..n /\ src(l) \in 1..n
      BY <1>7, <1>10, <2>1
    <3>2. r[k] = list[src(k)] /\ r[l] = list[src(l)]
      BY <1>8
    <3>3. DOMAIN list = 1..n
      BY <1>1
    <3>4. QED
      BY <1>12, <3>1, <3>2, <3>3 DEF Distinct
  <2>2. QED
    BY <1>6, <2>1 DEF Distinct
<1>13. QED
  BY <1>5, <1>11, <1>12 DEF r

\* Writing the SQL tabs leaves tables and panes alone.
LEMMA SQLWritten ==
  ASSUME NEW u, UISound(u), NEW q \in [SQLs -> SessionType]
  PROVE  LET v == [u EXCEPT !.sql = q]
         IN  /\ UISound(v) /\ SameRows(u, v) /\ v.sql = q /\ v.tab = u.tab /\ v.current = u.current
             /\ v.bottom = u.bottom /\ v.active = u.active
             /\ v.order = u.order /\ v.sequence = u.sequence /\ v.activeSQL = u.activeSQL
             /\ ShownSound(u) => ShownSound(v)
             /\ SavingShown(u) => SavingShown(v)
<1> DEFINE v == [u EXCEPT !.sql = q]
<1>1. u \in UIType
  BY DEF UISound
<1>2. /\ v \in UIType /\ v.tab = u.tab /\ v.current = u.current /\ v.bottom = u.bottom
      /\ v.active = u.active /\ v.sql = q /\ v.order = u.order
      /\ v.sequence = u.sequence /\ v.activeSQL = u.activeSQL
  BY <1>1 DEF UIType
<1> HIDE DEF v
<1>3. UISound(v)
  BY <1>2 DEF UISound, TabsSound, PanesSound, PaneSound, OrderSound, IsOpen
<1>4. /\ SameRows(u, v) /\ (SavingShown(u) => SavingShown(v))
  BY <1>2, <1>3, RowsDepend
<1>5. ShownSound(u) => ShownSound(v)
  BY <1>2 DEF ShownSound
<1>6. QED
  BY <1>2, <1>3, <1>4, <1>5 DEF v

\* A step of the page alone.
LEMMA PageStep ==
  ASSUME WorkSound, UIKept', UNCHANGED <<loads, saves, commit, home, uncounted, agreed, saved>>,
         SameRows(ui, ui'), SavingShown(ui) => SavingShown(ui'),
         \A s \in SQLs : ui'.sql[s].drafts = ui.sql[s].drafts
  PROVE  WorkSound'
<1>1. agreed \subseteq agreed' /\ agreed' \subseteq Made /\ LoadsApart(loads)
  BY DEF WorkSound, EditsSound, LoadsSound
<1>2. LoadsFrom(loads, loads')
  BY <1>1, FewerLoads
<1>3. PICK closed \in SUBSET Tables : closed = {}
  OBVIOUS
<1>4. \A t \in Tables : SameFlags(ui.tab[t], ui'.tab[t]) /\ RowsIn(ui', t) = RowsIn(ui, t)
  BY DEF SameRows
<1>5. QED
  BY <1>1, <1>2, <1>3, <1>4, DiscardKeeps

LEMMA StutterKeeps == WorkSound /\ UNCHANGED vars => WorkSound'
<1> SUFFICES ASSUME WorkSound, UNCHANGED vars PROVE WorkSound'
  OBVIOUS
<1>1. UIKept' /\ UNCHANGED <<loads, saves, commit, home, uncounted, agreed, saved>> /\ ui' = ui
  BY DEF WorkSound, UIKept, vars
<1>2. SameRows(ui, ui)
  BY DEF SameRows, SameFlags
<1>3. QED
  BY <1>1, <1>2, PageStep

\* The steps that show another pane or another SQL tab.
LEMMA ShowKeeps ==
  ASSUME WorkSound,
         \/ \E t \in Tables : OpenTable(t) /\ IsOpen(ui, t)
         \/ \E pane \in ToSet(ui.bottom) : ShowPane(pane)
         \/ AddSQLTab \/ \E s \in SQLs : SelectSQLTab(s)
  PROVE  WorkSound'
<1>1. UISound(ui) /\ ShownSound(ui) /\ ui.activeSQL \in ToSet(ui.order) /\ ui \in UIType
  BY DEF WorkSound, UIKept, UISound
<1>2. ASSUME NEW pane \in PaneType, PaneSound(ui, pane), ui' = ActivateBottom(ui, pane),
             UNCHANGED <<loads, saves, commit, home, uncounted, agreed, saved>>
      PROVE  WorkSound'
  <2>1. /\ UISound(ui') /\ ShownSound(ui') /\ SameSQL(ui, ui') /\ SameRows(ui, ui')
        /\ SavingShown(ui) => SavingShown(ui')
    BY <1>1, <1>2, ActivateKeeps
  <2>2. UIKept'
    BY <1>1, <2>1 DEF UIKept, SameSQL
  <2>3. QED
    BY <1>2, <2>1, <2>2, PageStep DEF SameSQL
<1>3. ASSUME NEW t \in Tables, OpenTable(t), IsOpen(ui, t) PROVE WorkSound'
  <2>1. Table(t) \in PaneType /\ PaneSound(ui, Table(t))
    BY <1>3 DEF PaneType, PaneSound, Table
  <2>2. ui' = ActivateBottom(ui, Table(t)) /\ UNCHANGED <<loads, saves, commit, home, uncounted, agreed, saved>>
    BY <1>3 DEF OpenTable
  <2>3. QED
    BY <1>2, <2>1, <2>2
<1>4. ASSUME NEW pane \in ToSet(ui.bottom), ShowPane(pane) PROVE WorkSound'
  <2>1. pane \in PaneType /\ PaneSound(ui, pane)
    BY <1>1, <1>4 DEF ToSet, UISound, PanesSound, UIType
  <2>2. ui' = ActivateBottom(ui, pane) /\ UNCHANGED <<loads, saves, commit, home, uncounted, agreed, saved>>
    BY <1>4 DEF ShowPane
  <2>3. QED
    BY <1>2, <2>1, <2>2
<1>5. PICK closed : closed = {}
  OBVIOUS
<1>6. Leavable(ui, closed)
  BY <1>1 DEF Leavable
<1>7. CASE AddSQLTab
  <2>1. /\ ui' = CreateSQLTab(ui) /\ ui.sequence < MaxSQL
        /\ UNCHANGED <<loads, saves, commit, home, uncounted, agreed, saved>>
    BY <1>7 DEF AddSQLTab
  <2>2. /\ UISound(ui') /\ ShownSound(ui') /\ SameRows(ui, ui')
        /\ SavingShown(ui) => SavingShown(ui')
        /\ ui'.sql = ui.sql /\ ui'.activeSQL \in ToSet(ui'.order)
    BY <1>1, <1>6, <2>1, CreateSQLKeeps
  <2>3. UIKept'
    BY <2>2 DEF UIKept
  <2>4. QED
    BY <2>1, <2>2, <2>3, PageStep
<1>8. ASSUME NEW s \in SQLs, SelectSQLTab(s) PROVE WorkSound'
  <2>1. ui' = ActivateSQLTab(ui, s) /\ UNCHANGED <<loads, saves, commit, home, uncounted, agreed, saved>>
    BY <1>8 DEF SelectSQLTab
  <2>2. s \in ToSet(ui.order)
    BY <1>1, <1>8 DEF SelectSQLTab, Contains, ToSet, UIType
  <2>3. /\ UISound(ui') /\ ShownSound(ui') /\ SameRows(ui, ui')
        /\ SavingShown(ui) => SavingShown(ui')
        /\ ui'.sql = ui.sql /\ ui'.order = ui.order /\ ui'.activeSQL = s
    BY <1>1, <1>6, <2>1, <2>2, ActivateSQLKeeps
  <2>4. UIKept'
    BY <2>2, <2>3 DEF UIKept
  <2>5. QED
    BY <2>1, <2>3, <2>4, PageStep
<1>9. QED
  BY <1>3, <1>4, <1>7, <1>8

\* What a query does to its tab, while its drafts stay.
LEMMA SessionStep ==
  ASSUME WorkSound, NEW s \in SQLs, NEW x \in SessionType, x.drafts = ui.sql[s].drafts,
         ui' = [ui EXCEPT !.sql = [ui.sql EXCEPT ![s] = x]],
         UNCHANGED <<loads, saves, commit, home, uncounted, agreed, saved>>
  PROVE  WorkSound'
<1> DEFINE q == [ui.sql EXCEPT ![s] = x]
<1>1. UISound(ui) /\ ShownSound(ui) /\ ui.activeSQL \in ToSet(ui.order) /\ ui.sql \in [SQLs -> SessionType]
  BY DEF WorkSound, UIKept, UISound, UIType
<1>2. q \in [SQLs -> SessionType] /\ \A o \in SQLs : q[o].drafts = ui.sql[o].drafts
  BY <1>1
<1> HIDE DEF q
<1>3. ui' = [ui EXCEPT !.sql = q]
  BY DEF q
<1>4. /\ UISound(ui') /\ SameRows(ui, ui') /\ ui'.sql = q /\ ui'.order = ui.order /\ ui'.activeSQL = ui.activeSQL
      /\ ShownSound(ui) => ShownSound(ui')
      /\ SavingShown(ui) => SavingShown(ui')
  <2> DEFINE v == [ui EXCEPT !.sql = q]
  <2>1. /\ UISound(v) /\ SameRows(ui, v) /\ v.sql = q /\ v.order = ui.order /\ v.activeSQL = ui.activeSQL
        /\ ShownSound(ui) => ShownSound(v)
        /\ SavingShown(ui) => SavingShown(v)
    BY <1>1, <1>2, SQLWritten
  <2>2. ui' = v
    BY <1>3
  <2> HIDE DEF v
  <2>3. QED
    BY <2>1, <2>2
<1>5. UIKept'
  BY <1>1, <1>4 DEF UIKept
<1>6. QED
  BY <1>2, <1>4, <1>5, PageStep

LEMMA QueryKeeps ==
  ASSUME WorkSound, TypeSQL \/ \E s \in SQLs : CancelSQL(s) \/ QueryAnswered(s) \/ QueryEnded(s)
  PROVE  WorkSound'
<1>1. ui \in UIType /\ ui.sql \in [SQLs -> SessionType]
  BY DEF WorkSound, UIKept, UISound, UIType
<1>2. ui.activeSQL \in SQLs
  BY <1>1 DEF WorkSound, UIKept, ToSet, UIType
<1>3. CASE TypeSQL
  <2>0. PICK s \in SQLs : s = ui.activeSQL
    BY <1>2
  <2> DEFINE x == [ui.sql[s] EXCEPT !.text = TRUE]
  <2>1. /\ ui' = [ui EXCEPT !.sql[s].text = TRUE]
        /\ UNCHANGED <<loads, saves, commit, home, uncounted, agreed, saved>>
    BY <1>3, <2>0 DEF TypeSQL
  <2>2. x \in SessionType /\ x.drafts = ui.sql[s].drafts
    BY <1>1 DEF SessionType
  <2>3. ui' = [ui EXCEPT !.sql = [ui.sql EXCEPT ![s] = x]]
    BY <1>1, <2>1 DEF UIType
  <2> HIDE DEF x
  <2>4. QED
    BY <2>1, <2>2, <2>3, SessionStep
<1>4. ASSUME NEW s \in SQLs, CancelSQL(s) \/ QueryAnswered(s) \/ QueryEnded(s) PROVE WorkSound'
  <2>1. PICK x \in SessionType :
          /\ x.drafts = ui.sql[s].drafts /\ ui' = [ui EXCEPT !.sql = [ui.sql EXCEPT ![s] = x]]
    <3> DEFINE a == [ui.sql[s] EXCEPT !.controller = "aborted"]
               b == [ui.sql[s] EXCEPT !.query = TRUE, !.message = FALSE, !.controller = "answered"]
               c == [ui.sql[s] EXCEPT !.controller = "none"]
    <3>1. /\ a \in SessionType /\ a.drafts = ui.sql[s].drafts
          /\ b \in SessionType /\ b.drafts = ui.sql[s].drafts
          /\ c \in SessionType /\ c.drafts = ui.sql[s].drafts
      BY <1>1 DEF SessionType
    <3>2. CASE CancelSQL(s)
      <4>1. ui' = [ui EXCEPT !.sql = [ui.sql EXCEPT ![s] = a]]
        BY <1>1, <3>2 DEF CancelSQL, UIType
      <4>2. QED
        BY <3>1, <4>1
    <3>3. CASE QueryAnswered(s)
      <4>1. ui' = [ui EXCEPT !.sql[s].query = TRUE, !.sql[s].message = FALSE, !.sql[s].controller = "answered"]
        BY <3>3 DEF QueryAnswered
      <4>2. ui' = [ui EXCEPT !.sql = [ui.sql EXCEPT ![s] = b]]
        BY <1>1, <4>1 DEF UIType, SessionType
      <4>3. QED
        BY <3>1, <4>2
    <3>4. CASE QueryEnded(s)
      <4>1. ui' = [ui EXCEPT !.sql = [ui.sql EXCEPT ![s] = c]]
        BY <1>1, <3>4 DEF QueryEnded, UIType
      <4>2. QED
        BY <3>1, <4>1
    <3>5. QED
      BY <1>4, <3>2, <3>3, <3>4
  <2>2. UNCHANGED <<loads, saves, commit, home, uncounted, agreed, saved>>
    BY <1>4 DEF CancelSQL, QueryAnswered, QueryEnded
  <2>3. QED
    BY <2>1, <2>2, SessionStep
<1>5. QED
  BY <1>3, <1>4

LEMMA MoveKeeps ==
  ASSUME WorkSound, MoveTab
  PROVE  WorkSound'
<1>1. /\ UISound(ui) /\ ShownSound(ui) /\ ui.activeSQL \in ToSet(ui.order) /\ ui \in UIType
      /\ ui.bottom \in Seq(PaneType) /\ ui.order \in Seq(SQLs) /\ PanesSound(ui) /\ OrderSound(ui)
  BY DEF WorkSound, UIKept, UISound, UIType
<1>2. UNCHANGED <<loads, saves, commit, home, uncounted, agreed, saved>>
  BY DEF MoveTab
<1>3. ASSUME UISound(ui'), ShownSound(ui'), ui'.activeSQL \in ToSet(ui'.order), ui'.tab = ui.tab,
             ui'.current = ui.current, ui'.sql = ui.sql
      PROVE  WorkSound'
  <2>1. SameRows(ui, ui') /\ (SavingShown(ui) => SavingShown(ui'))
    BY <1>1, <1>3, RowsDepend
  <2>2. UIKept'
    BY <1>3 DEF UIKept
  <2>3. QED
    BY <1>2, <1>3, <2>1, <2>2, PageStep
<1>4. ASSUME NEW i \in 1..Len(ui.bottom), NEW j \in 1..Len(ui.bottom),
             ui' = [ui EXCEPT !.bottom = MoveItem(@, i, j)]
      PROVE  WorkSound'
  <2> DEFINE q == MoveItem(ui.bottom, i, j)
  <2>1. q \in Seq(PaneType) /\ ToSet(q) = ToSet(ui.bottom)
    BY <1>1, MovedElements
  <2>2. ui' = [ui EXCEPT !.bottom = q]
    BY <1>1, <1>4 DEF UIType
  <2> HIDE DEF q
  <2>3. /\ ui' \in UIType /\ ui'.tab = ui.tab /\ ui'.current = ui.current /\ ui'.bottom = q
        /\ ui'.active = ui.active /\ ui'.sql = ui.sql /\ ui'.order = ui.order
        /\ ui'.sequence = ui.sequence /\ ui'.activeSQL = ui.activeSQL
    BY <1>1, <2>1, <2>2 DEF UIType
  <2>4. PanesSound(ui')
    <3>1. \A p \in ToSet(ui.bottom) : PaneSound(ui, p)
      BY <1>1 DEF PanesSound, ToSet
    <3>2. \A k \in DOMAIN q : q[k] \in ToSet(ui.bottom)
      BY <2>1 DEF ToSet
    <3>3. QED
      BY <2>3, <3>1, <3>2 DEF PanesSound, PaneSound, IsOpen
  <2>5. UISound(ui')
    BY <1>1, <2>3, <2>4 DEF UISound, TabsSound, OrderSound
  <2>6. ShownSound(ui')
    BY <1>1, <2>1, <2>3 DEF ShownSound
  <2>7. QED
    BY <1>1, <1>3, <2>3, <2>5, <2>6
<1>5. ASSUME NEW i \in 1..Len(ui.order), NEW j \in 1..Len(ui.order),
             ui' = [ui EXCEPT !.order = MoveItem(@, i, j)]
      PROVE  WorkSound'
  <2> DEFINE q == MoveItem(ui.order, i, j)
  <2>0. Distinct(ui.order) /\ \A x \in ToSet(ui.order) : x <= ui.sequence
    BY <1>1 DEF OrderSound, Distinct, ToSet
  <2>1. q \in Seq(SQLs) /\ ToSet(q) = ToSet(ui.order) /\ Distinct(q)
    BY <1>1, <2>0, MovedElements
  <2>2. ui' = [ui EXCEPT !.order = q]
    BY <1>1, <1>5 DEF UIType
  <2> HIDE DEF q
  <2>3. /\ ui' \in UIType /\ ui'.tab = ui.tab /\ ui'.current = ui.current /\ ui'.bottom = ui.bottom
        /\ ui'.active = ui.active /\ ui'.sql = ui.sql /\ ui'.order = q
        /\ ui'.sequence = ui.sequence /\ ui'.activeSQL = ui.activeSQL
    BY <1>1, <2>1, <2>2 DEF UIType
  <2>4. PanesSound(ui')
    BY <1>1, <2>1, <2>3 DEF PanesSound, PaneSound, IsOpen
  <2>5. OrderSound(ui')
    <3>1. \A k \in DOMAIN q : q[k] \in ToSet(ui.order)
      BY <2>1 DEF ToSet
    <3>2. QED
      BY <2>0, <2>1, <2>3, <3>1 DEF OrderSound, Distinct
  <2>6. UISound(ui')
    BY <1>1, <2>3, <2>4, <2>5 DEF UISound, TabsSound
  <2>7. ShownSound(ui') /\ ui'.activeSQL \in ToSet(ui'.order)
    BY <1>1, <2>1, <2>3 DEF ShownSound
  <2>8. QED
    BY <1>3, <2>3, <2>6, <2>7
<1>6. QED
  BY <1>4, <1>5 DEF MoveTab

\* Drafts of results that the user has agreed to discard.
LEMMA ResultsDiscarded ==
  ASSUME WorkSound, UISound(ui'), ShownSound(ui'), ui'.activeSQL \in ToSet(ui'.order),
         SameRows(ui, ui'), SavingShown(ui) => SavingShown(ui'),
         UNCHANGED <<loads, saves, commit, home, uncounted, saved>>,
         NEW s \in SQLs, agreed' = agreed \cup ui.sql[s].drafts,
         ui'.sql[s].drafts = {}, \A o \in SQLs : o # s => ui'.sql[o].drafts = ui.sql[o].drafts
  PROVE  WorkSound'
<1>1. agreed \subseteq agreed' /\ agreed' \subseteq Made /\ LoadsApart(loads)
  BY DEF WorkSound, EditsSound, LoadsSound
<1>2. LoadsFrom(loads, loads')
  BY <1>1, FewerLoads
<1>3. PICK closed \in SUBSET Tables : closed = {}
  OBVIOUS
<1>4. \A t \in Tables : SameFlags(ui.tab[t], ui'.tab[t]) /\ RowsIn(ui', t) = RowsIn(ui, t)
  BY DEF SameRows
<1>5. \A o \in SQLs : /\ ui'.sql[o].drafts \subseteq ui.sql[o].drafts
                      /\ ui.sql[o].drafts \subseteq ui'.sql[o].drafts \cup agreed'
  OBVIOUS
<1>6. UIKept'
  BY DEF UIKept
<1>7. QED
  BY <1>1, <1>2, <1>3, <1>4, <1>5, <1>6, DiscardKeeps

LEMMA RollbackQueryKeeps ==
  ASSUME WorkSound, NEW s \in SQLs, RollbackQueryRows(s)
  PROVE  WorkSound'
<1> DEFINE x == [ui.sql[s] EXCEPT !.drafts = {}]
           q == [ui.sql EXCEPT ![s] = x]
           v == [ui EXCEPT !.sql = q]
<1>1. UISound(ui) /\ ShownSound(ui) /\ ui.activeSQL \in ToSet(ui.order) /\ ui \in UIType
      /\ ui.sql \in [SQLs -> SessionType]
  BY DEF WorkSound, UIKept, UISound, UIType
<1>2. x \in SessionType /\ x.drafts = {}
  BY <1>1 DEF SessionType
<1>3. ui' = v
  BY <1>1 DEF RollbackQueryRows, UIType
<1> HIDE DEF x
<1>4. /\ q \in [SQLs -> SessionType] /\ q[s].drafts = {}
      /\ \A o \in SQLs : o # s => q[o].drafts = ui.sql[o].drafts
  BY <1>1, <1>2
<1> HIDE DEF q
<1>5. /\ UISound(v) /\ SameRows(ui, v) /\ v.sql = q /\ v.order = ui.order /\ v.activeSQL = ui.activeSQL
      /\ ShownSound(ui) => ShownSound(v)
      /\ SavingShown(ui) => SavingShown(v)
  BY <1>1, <1>4, SQLWritten
<1>6. UNCHANGED <<loads, saves, commit, home, uncounted, saved>> /\ agreed' = agreed \cup ui.sql[s].drafts
  BY DEF RollbackQueryRows, Agree
<1> HIDE DEF v
<1>7. QED
  BY <1>1, <1>3, <1>4, <1>5, <1>6, ResultsDiscarded

LEMMA RunKeeps ==
  ASSUME WorkSound, NEW s \in SQLs, RunSQL(s)
  PROVE  WorkSound'
<1> DEFINE u == ActivateSQLTab(ui, s)
           x == [u.sql[s] EXCEPT !.controller = "waiting", !.query = FALSE, !.drafts = {}, !.message = TRUE]
           q == [u.sql EXCEPT ![s] = x]
           w == [u EXCEPT !.sql = q]
<1>1. UISound(ui) /\ ShownSound(ui) /\ ui.activeSQL \in ToSet(ui.order) /\ ui \in UIType
  BY DEF WorkSound, UIKept, UISound
<1>2. s \in ToSet(ui.order)
  <2>1. CASE s = ui.activeSQL
    BY <1>1, <2>1
  <2>2. CASE ui.active = Result(s)
    <3>1. Result(s) \in ToSet(ui.bottom)
      BY <1>1, <2>2 DEF ShownSound, NoPane, Result
    <3>2. PaneSound(ui, Result(s))
      BY <1>1, <3>1 DEF ToSet, UISound, PanesSound
    <3>3. QED
      BY <3>2 DEF PaneSound, Result
  <2>3. QED
    BY <2>1, <2>2 DEF RunSQL
<1>3. PICK closed : closed = {}
  OBVIOUS
<1>4. Leavable(ui, closed)
  BY <1>1 DEF Leavable
<1>5. /\ UISound(u) /\ SameRows(ui, u) /\ (SavingShown(ui) => SavingShown(u))
      /\ u.sql = ui.sql /\ u.order = ui.order /\ u.activeSQL = s
  BY <1>1, <1>2, <1>4, ActivateSQLKeeps
<1>6. /\ ui' = ActivateBottom([u EXCEPT !.sql[s] =
                 [@ EXCEPT !.controller = "waiting", !.query = FALSE, !.drafts = {}, !.message = TRUE]], Result(s))
      /\ UNCHANGED <<loads, saves, commit, home, uncounted, saved>> /\ agreed' = agreed \cup ui.sql[s].drafts
  BY DEF RunSQL, Agree
<1> HIDE DEF u
<1>7. u \in UIType /\ u.sql \in [SQLs -> SessionType]
  BY <1>5 DEF UISound, UIType
<1>8. x \in SessionType /\ x.drafts = {}
  BY <1>7 DEF SessionType
<1>9. ui' = ActivateBottom(w, Result(s))
  BY <1>6, <1>7 DEF UIType
<1> HIDE DEF x
<1>10. /\ q \in [SQLs -> SessionType] /\ q[s].drafts = {}
       /\ \A o \in SQLs : o # s => q[o].drafts = ui.sql[o].drafts
  BY <1>5, <1>7, <1>8
<1> HIDE DEF q
<1>11. /\ UISound(w) /\ SameRows(u, w) /\ w.sql = q /\ w.order = u.order /\ w.activeSQL = u.activeSQL
       /\ SavingShown(u) => SavingShown(w)
  BY <1>5, <1>10, SQLWritten
<1> HIDE DEF w
<1>12. Result(s) \in PaneType /\ PaneSound(w, Result(s))
  BY <1>2, <1>5, <1>11 DEF PaneType, PaneSound, Result
<1>13. /\ UISound(ui') /\ ShownSound(ui') /\ SameSQL(w, ui') /\ SameRows(w, ui')
       /\ SavingShown(w) => SavingShown(ui')
  BY <1>9, <1>11, <1>12, ActivateKeeps
<1>14. SameRows(ui, ui')
  BY <1>5, <1>11, <1>13, SameRowsTwice
<1>15. /\ ui'.activeSQL \in ToSet(ui'.order) /\ ui'.sql = q /\ (SavingShown(ui) => SavingShown(ui'))
  BY <1>2, <1>5, <1>11, <1>13 DEF SameSQL
<1>16. QED
  BY <1>6, <1>10, <1>13, <1>14, <1>15, ResultsDiscarded

LEMMA RemoveSQLKeeps ==
  ASSUME WorkSound, NEW s \in SQLs, RemoveSQLTab(s)
  PROVE  WorkSound'
<1>1. UISound(ui) /\ ShownSound(ui) /\ ui.activeSQL \in ToSet(ui.order) /\ ui \in UIType
      /\ ui.sql \in [SQLs -> SessionType]
  BY DEF WorkSound, UIKept, UISound, UIType
<1>2. s \in ToSet(ui.order) /\ (Len(ui.order) > 1 \/ ui.sequence < MaxSQL)
  BY <1>1 DEF RemoveSQLTab, Contains, ToSet, UIType
<1>3. /\ ui' = CloseSQLTab(ui, s)
      /\ UNCHANGED <<loads, saves, commit, home, uncounted, saved>> /\ agreed' = agreed \cup ui.sql[s].drafts
  BY DEF RemoveSQLTab, Agree
<1>4. /\ UISound(ui') /\ ShownSound(ui') /\ SameRows(ui, ui')
      /\ SavingShown(ui) => SavingShown(ui')
      /\ ui'.sql = [ui.sql EXCEPT ![s] = NoSession] /\ ui'.activeSQL \in ToSet(ui'.order)
  BY <1>1, <1>2, <1>3, CloseSQLKeeps
<1>5. ui'.sql[s].drafts = {} /\ \A o \in SQLs : o # s => ui'.sql[o].drafts = ui.sql[o].drafts
  BY <1>1, <1>4 DEF NoSession
<1>6. QED
  BY <1>3, <1>4, <1>5, ResultsDiscarded

\* Of the table that is shown the grid says what is pending.
LEMMA ShownRows ==
  ASSUME UIKept, NEW t \in Tables, Shown(t)
  PROVE  /\ ui.current.table = t /\ ui.tab[t].open /\ RowsIn(ui, t) = GridRows(ui)
         /\ ui.tab[t].response = ui.current.response
<1>1. /\ ui.current.table = t /\ (ui.tab[t].response => ui.current.response)
      /\ UISound(ui) /\ CurrentSound(ui.current, ui.tab) /\ TabSound(ui.tab[t])
      /\ ui.tab[t] \in TabType /\ ui.current \in CurrentType
  BY DEF UIKept, ShownSound, Shown, UISound, UIType, TabsType, TabsSound
<1>2. ui.tab[t].open /\ ui.tab[t].response = ui.current.response
  BY <1>1 DEF CurrentSound, TabType, CurrentType
<1>3. RowsIn(ui, t) = IF ui.current.response /\ t = ui.current.table THEN GridRows(ui) ELSE TabRows(ui, t)
  BY <1>1, RowsShape
<1>4. ~ui.current.response => GridRows(ui) = {} /\ TabRows(ui, t) = {}
  BY <1>1, <1>2 DEF GridRows, TabRows, CurrentSound, TabSound
<1>5. QED
  BY <1>1, <1>2, <1>3, <1>4

LEMMA StopKeeps ==
  ASSUME WorkSound, NEW t \in Tables, StopLoad(t)
  PROVE  WorkSound'
<1>1. UNCHANGED <<ui, saves, commit, home, uncounted, agreed, saved>> /\ loads' = AbortLoads(t)
  BY DEF StopLoad
<1>2. UIKept' /\ LoadsApart(loads) /\ agreed \subseteq agreed' /\ agreed' \subseteq Made
  BY <1>1 DEF WorkSound, UIKept, EditsSound, LoadsSound
<1>3. LoadsFrom(loads, loads')
  BY <1>1, <1>2, AbortedLoads
<1>4. PICK closed \in SUBSET Tables : closed = {}
  OBVIOUS
<1>5. \A o \in Tables : SameFlags(ui.tab[o], ui'.tab[o]) /\ RowsIn(ui', o) = RowsIn(ui, o)
  BY <1>1 DEF SameFlags
<1>6. \A s \in SQLs : ui'.sql[s].drafts = ui.sql[s].drafts
  BY <1>1
<1>7. SavingShown(ui) => SavingShown(ui')
  BY <1>1
<1>8. QED
  BY <1>1, <1>2, <1>3, <1>4, <1>5, <1>6, <1>7, DiscardKeeps

LEMMA RollbackKeeps ==
  ASSUME WorkSound, NEW t \in Tables, RollbackRows(t)
  PROVE  WorkSound'
<1> DEFINE tab == [ui.tab[t] EXCEPT !.draft = Fresh]
           tabs == [ui.tab EXCEPT ![t] = tab]
           c == [ui.current EXCEPT !.draft = Fresh]
<1>1. /\ UISound(ui) /\ ShownSound(ui) /\ ui.activeSQL \in ToSet(ui.order) /\ ui \in UIType /\ UIKept
      /\ ui.tab \in TabsType /\ ui.tab[t] \in TabType /\ ui.current \in CurrentType
      /\ CurrentSound(ui.current, ui.tab) /\ TabsSound(ui) /\ PanesSound(ui) /\ OrderSound(ui)
  BY DEF WorkSound, UIKept, UISound, UIType, TabsType, TabsSound
<1>2. /\ Shown(t) /\ ui.tab[t].response /\ ui.tab[t].draft.dirty
      /\ ui' = [ui EXCEPT !.tab[t].draft = Fresh, !.current.draft = Fresh]
      /\ UNCHANGED <<loads, saves, commit, home, uncounted, saved>> /\ agreed' = agreed \cup ui.current.draft.rows
  BY DEF RollbackRows, Agree
<1>3. /\ ui.current.table = t /\ ui.tab[t].open /\ RowsIn(ui, t) = GridRows(ui)
      /\ ui.tab[t].response = ui.current.response
  BY <1>1, <1>2, ShownRows
<1>4. Fresh \in DraftType /\ DraftSound(Fresh) /\ Fresh.rows = {} /\ ~Fresh.dirty /\ Fresh.original
  <2>1. Fresh \in DraftType /\ DraftSound(Fresh)
    BY FreshTypes
  <2>2. QED
    BY <2>1 DEF Fresh
<1>5. /\ tab \in TabType /\ tab.draft = Fresh /\ tab.open /\ tab.response /\ SameFlags(ui.tab[t], tab)
  BY <1>1, <1>2, <1>3, <1>4 DEF TabType, SameFlags
<1>6. c \in CurrentType /\ c.table = t /\ c.response = ui.current.response /\ c.draft = Fresh /\ c.saving = ui.current.saving
  BY <1>1, <1>3, <1>4 DEF CurrentType
<1>7. ui' = [ui EXCEPT !.tab = tabs, !.current = c]
  BY <1>1, <1>2 DEF UIType
<1> HIDE DEF tab
<1>8. tabs \in TabsType /\ \A o \in Tables : tabs[o] = IF o = t THEN tab ELSE ui.tab[o]
  BY <1>1, <1>5 DEF TabsType
<1> HIDE DEF tabs, c
<1>9. /\ ui' \in UIType /\ ui'.tab = tabs /\ ui'.current = c /\ ui'.bottom = ui.bottom
      /\ ui'.active = ui.active /\ SameSQL(ui, ui')
  BY <1>1, <1>6, <1>7, <1>8 DEF UIType, SameSQL
<1>10. /\ \A o \in Tables : SameFlags(ui.tab[o], ui'.tab[o]) /\ ui'.tab[o].response = ui.tab[o].response
  BY <1>2, <1>5, <1>8, <1>9 DEF SameFlags
<1>11. UISound(ui')
  <2>1. TabSound(tab)
    BY <1>4, <1>5 DEF TabSound
  <2>2. \A o \in Tables : TabSound(ui'.tab[o])
    BY <1>1, <1>8, <1>9, <2>1 DEF TabsSound
  <2>3. tabs[t] = tab /\ t # NoTable
    BY <1>8
  <2>4. CurrentSound(c, tabs)
    BY <1>4, <1>5, <1>6, <2>3 DEF CurrentSound
  <2>5. PanesSound(ui')
    <3>1. \A p \in PaneType : p.kind = "table" => p.id \in Tables
      BY DEF PaneType, Table, Result
    <3>2. \A i \in DOMAIN ui.bottom : ui.bottom[i] \in PaneType
      BY <1>1 DEF UIType
    <3>3. QED
      BY <1>1, <1>9, <1>10, <3>1, <3>2 DEF PanesSound, PaneSound, IsOpen, SameFlags, SameSQL
  <2>6. OrderSound(ui')
    BY <1>1, <1>9 DEF OrderSound, SameSQL
  <2>7. QED
    BY <1>9, <2>2, <2>4, <2>5, <2>6 DEF UISound, TabsSound
<1>12. UIKept'
  <2>1. ShownSound(ui')
    BY <1>1, <1>3, <1>6, <1>9, <1>10 DEF ShownSound
  <2>2. QED
    BY <1>1, <1>9, <1>11, <2>1 DEF UIKept, SameSQL
<1>13. SavingShown(ui) => SavingShown(ui')
  BY <1>3, <1>6, <1>9, <1>10 DEF SavingShown, SameFlags
<1>14. ASSUME NEW o \in Tables PROVE RowsIn(ui', o) = IF o = t THEN {} ELSE RowsIn(ui, o)
  <2>1. RowsIn(ui', o) = IF ui'.current.response /\ o = ui'.current.table THEN GridRows(ui') ELSE TabRows(ui', o)
    BY <1>11, RowsShape
  <2>2. RowsIn(ui, o) = IF ui.current.response /\ o = ui.current.table THEN GridRows(ui) ELSE TabRows(ui, o)
    BY <1>1, RowsShape
  <2>3. GridRows(ui') = {}
    BY <1>4, <1>6, <1>9 DEF GridRows
  <2>4. TabRows(ui', t) = {}
    BY <1>4, <1>5, <1>8, <1>9 DEF TabRows
  <2>5. o # t => TabRows(ui', o) = TabRows(ui, o)
    BY <1>8, <1>9 DEF TabRows, IsOpen
  <2>6. ui'.current.table = t
    BY <1>6, <1>9
  <2>7. CASE o = t
    BY <2>1, <2>3, <2>4, <2>7
  <2>8. CASE o # t
    BY <1>3, <2>1, <2>2, <2>5, <2>6, <2>8
  <2>9. QED
    BY <2>7, <2>8
<1>15. RowsIn(ui, t) = ui.current.draft.rows
  <2>1. ui.current.draft.dirty
    BY <1>1, <1>2, <1>3 DEF CurrentSound
  <2>2. QED
    BY <1>3, <2>1 DEF GridRows
<1>16. agreed \subseteq agreed' /\ agreed' \subseteq Made /\ LoadsApart(loads)
  BY <1>2, <1>15 DEF WorkSound, EditsSound, LoadsSound
<1>17. LoadsFrom(loads, loads')
  BY <1>2, <1>16, FewerLoads
<1>18. PICK closed \in SUBSET Tables : closed = {}
  OBVIOUS
<1>19. \A o \in Tables : /\ RowsIn(ui', o) \subseteq RowsIn(ui, o)
                         /\ RowsIn(ui, o) \subseteq RowsIn(ui', o) \cup agreed'
  BY <1>2, <1>14, <1>15
<1>20. \A s \in SQLs : ui'.sql[s].drafts = ui.sql[s].drafts
  BY <1>9 DEF SameSQL
<1>21. QED
  BY <1>2, <1>10, <1>12, <1>13, <1>16, <1>17, <1>18, <1>19, <1>20, DiscardKeeps

\* A table is closed, once its rows may be discarded.
LEMMA TableClosed ==
  ASSUME WorkSound, NEW t \in Tables, ~commit.busy, ~ui.tab[t].saving,
         ui' = CloseTables(ui, {t}), loads' = {l \in loads : l.table # t},
         agreed' = agreed \cup RowsIn(ui, t), UNCHANGED <<saves, commit, home, uncounted, saved>>
  PROVE  WorkSound'
<1>1. UISound(ui) /\ ShownSound(ui) /\ ui.activeSQL \in ToSet(ui.order)
  BY DEF WorkSound, UIKept
<1>2. PICK closed \in SUBSET Tables : closed = {t}
  OBVIOUS
<1>3. /\ UISound(ui') /\ ShownSound(ui') /\ SameSQL(ui, ui')
      /\ SavingShown(ui) => SavingShown(ui')
      /\ \A o \in Tables :
           IF o \in closed THEN ui'.tab[o] = ClosedTab /\ RowsIn(ui', o) = {}
           ELSE SameFlags(ui.tab[o], ui'.tab[o]) /\ RowsIn(ui', o) = RowsIn(ui, o)
  BY <1>1, <1>2, CloseTablesKeeps
<1>4. UIKept'
  BY <1>1, <1>3 DEF UIKept, SameSQL
<1>5. agreed \subseteq agreed' /\ agreed' \subseteq Made /\ LoadsApart(loads)
  BY DEF WorkSound, EditsSound, LoadsSound
<1>6. LoadsFrom(loads, loads')
  BY <1>5, FewerLoads
<1>7. \A o \in Tables : /\ RowsIn(ui', o) \subseteq RowsIn(ui, o)
                        /\ RowsIn(ui, o) \subseteq RowsIn(ui', o) \cup agreed'
  BY <1>2, <1>3
<1>8. \A s \in SQLs : ui'.sql[s].drafts = ui.sql[s].drafts
  BY <1>3 DEF SameSQL
<1>9. \A o \in closed : ~ui.tab[o].saving /\ ui'.tab[o] = ClosedTab
  BY <1>2, <1>3
<1>10. \A o \in Tables : o \notin closed => SameFlags(ui.tab[o], ui'.tab[o])
  BY <1>3
<1>11. \A l \in loads' : l.table \notin closed
  BY <1>2
<1>12. QED
  BY <1>2, <1>3, <1>4, <1>5, <1>6, <1>7, <1>8, <1>9, <1>10, <1>11, DiscardKeeps

LEMMA ClosePaneKeeps ==
  ASSUME WorkSound, NEW pane \in ToSet(ui.bottom), ClosePane(pane)
  PROVE  WorkSound'
<1>1. /\ UISound(ui) /\ ShownSound(ui) /\ ui.activeSQL \in ToSet(ui.order) /\ ui \in UIType
      /\ ui.sql \in [SQLs -> SessionType]
  BY DEF WorkSound, UIKept, UISound, UIType
<1>2. pane \in PaneType /\ PaneSound(ui, pane)
  BY <1>1 DEF ToSet, UISound, PanesSound, UIType
<1>3. CASE pane.kind = "table"
  <2>1. pane.id \in Tables /\ IsOpen(ui, pane.id)
    BY <1>2, <1>3 DEF PaneType, Table, Result, PaneSound
  <2>2. /\ ~commit.busy /\ ~ui.tab[pane.id].saving /\ ui' = CloseTables(ui, {pane.id})
        /\ loads' = {l \in loads : l.table # pane.id} /\ UNCHANGED <<saves, commit, home, uncounted, saved>>
        /\ agreed' = agreed \cup RowsIn(ui, pane.id)
    BY <1>3, <2>1 DEF ClosePane, CloseBottomTab, Agree, RowsIn
  <2>3. QED
    BY <2>1, <2>2, TableClosed
<1>4. CASE pane.kind # "table"
  <2>1. pane.id \in SQLs
    BY <1>2, <1>4 DEF PaneType, Table, Result
  <2>2. /\ ui' = CloseResult(ui, pane.id) /\ agreed' = agreed \cup ui.sql[pane.id].drafts
        /\ UNCHANGED <<loads, saves, commit, home, uncounted, saved>>
    BY <1>4 DEF ClosePane, CloseBottomTab, Agree
  <2>3. /\ UISound(ui') /\ ShownSound(ui') /\ SameRows(ui, ui')
        /\ SavingShown(ui) => SavingShown(ui')
        /\ ui'.sql = [ui.sql EXCEPT ![pane.id].drafts = {}]
        /\ ui'.order = ui.order /\ ui'.activeSQL = ui.activeSQL
    BY <1>1, <2>1, <2>2, CloseResultKeeps
  <2>4. /\ ui'.sql[pane.id].drafts = {}
        /\ \A o \in SQLs : o # pane.id => ui'.sql[o].drafts = ui.sql[o].drafts
    BY <1>1, <2>1, <2>3 DEF SessionType
  <2>5. QED
    BY <1>1, <2>1, <2>2, <2>3, <2>4, ResultsDiscarded
<1>5. QED
  BY <1>3, <1>4

LEMMA DropKeeps ==
  ASSUME WorkSound, NEW t \in Tables, ApplySchema(t, TRUE)
  PROVE  WorkSound'
<1>1. /\ Shown(t) /\ ~commit.busy /\ ~ui.tab[t].saving /\ UNCHANGED <<saves, commit, home, uncounted, saved>>
      /\ ui' = CloseTables(ui, {t}) /\ loads' = {l \in loads : l.table # t}
      /\ agreed' = agreed \cup GridRows(ui)
  BY DEF ApplySchema, CloseBottomTab, Agree, GridRows, Table
<1>2. RowsIn(ui, t) = GridRows(ui)
  BY <1>1, ShownRows DEF WorkSound
<1>3. QED
  BY <1>1, <1>2, TableClosed

\* A connection's tables close, and every queried result is gone.
LEMMA ClearKeeps ==
  ASSUME WorkSound, NEW c \in Connections, ClearConnection(c)
  PROVE  WorkSound'
<1> DEFINE v == CaptureTableState(ui)
           queried == {s \in SQLs : ui.sql[s].query}
           q(w) == [s \in SQLs |-> IF s \in queried
                      THEN [w[s] EXCEPT !.query = FALSE, !.drafts = {}, !.message = FALSE] ELSE w[s]]
<1>1. /\ UISound(ui) /\ ShownSound(ui) /\ ui.activeSQL \in ToSet(ui.order)
      /\ ui.sql \in [SQLs -> SessionType]
  BY DEF WorkSound, UIKept, UISound, UIType
<1>2. PICK tables \in SUBSET Tables : tables = {t \in Open(ui) : ConnectionOf[t] = c}
  BY DEF Open
<1>3. PICK w : w = CloseTables(ui, tables)
  OBVIOUS
<1>4. /\ ~commit.busy /\ \A t \in tables : ~ui.tab[t].saving
      /\ agreed' = agreed \cup UNION ({v.sql[s].drafts : s \in queried}
                       \cup {v.tab[t].draft.rows : t \in tables \cap Dirty(v)})
      /\ ui' = [w EXCEPT !.sql = [s \in SQLs |-> IF s \in queried
                      THEN [@[s] EXCEPT !.query = FALSE, !.drafts = {}, !.message = FALSE] ELSE @[s]]]
      /\ loads' = {l \in loads : l.table \notin tables}
      /\ UNCHANGED <<saves, commit, home, uncounted, saved>>
  BY <1>2, <1>3 DEF ClearConnection, Agree
<1>5. /\ UISound(w) /\ ShownSound(w) /\ SameSQL(ui, w)
      /\ SavingShown(ui) => SavingShown(w)
      /\ \A t \in Tables :
           IF t \in tables THEN w.tab[t] = ClosedTab /\ RowsIn(w, t) = {}
           ELSE SameFlags(ui.tab[t], w.tab[t]) /\ RowsIn(w, t) = RowsIn(ui, t)
  BY <1>1, <1>3, CloseTablesKeeps
<1>6. w \in UIType /\ w.sql = ui.sql
  BY <1>5 DEF UISound, SameSQL
<1>7. ui' = [w EXCEPT !.sql = q(ui.sql)]
  BY <1>4, <1>6 DEF UIType
<1>8. /\ q(ui.sql) \in [SQLs -> SessionType]
      /\ \A s \in SQLs : q(ui.sql)[s].drafts = IF s \in queried THEN {} ELSE ui.sql[s].drafts
  <2>1. ASSUME NEW s \in SQLs
        PROVE  /\ [ui.sql[s] EXCEPT !.query = FALSE, !.drafts = {}, !.message = FALSE] \in SessionType
               /\ [ui.sql[s] EXCEPT !.query = FALSE, !.drafts = {}, !.message = FALSE].drafts = {}
    <3>1. ui.sql[s] \in SessionType
      BY <1>1
    <3>2. QED
      BY <3>1 DEF SessionType
  <2>2. \A s \in SQLs : ui.sql[s] \in SessionType
    BY <1>1
  <2>3. QED
    BY <2>1, <2>2
<1>9. PICK p : p = q(ui.sql)
  OBVIOUS
<1> HIDE DEF q
<1>10. /\ UISound(ui') /\ SameRows(w, ui') /\ ui'.sql = p /\ ui'.tab = w.tab
       /\ ui'.order = w.order /\ ui'.activeSQL = w.activeSQL
       /\ ShownSound(ui') /\ (SavingShown(w) => SavingShown(ui'))
  <2>1. p \in [SQLs -> SessionType] /\ ui' = [w EXCEPT !.sql = p]
    BY <1>7, <1>8, <1>9
  <2>2. QED
    BY <1>5, <2>1, SQLWritten
<1>11. UIKept'
  BY <1>1, <1>5, <1>10 DEF UIKept, SameSQL
<1>12. /\ \A t \in tables : ui'.tab[t] = ClosedTab
       /\ \A t \in Tables : t \notin tables => SameFlags(ui.tab[t], ui'.tab[t])
       /\ \A t \in Tables : RowsIn(ui', t) = IF t \in tables THEN {} ELSE RowsIn(ui, t)
  BY <1>5, <1>10 DEF SameRows
<1>13. SavingShown(ui) => SavingShown(ui')
  BY <1>5, <1>10
<1>14. /\ v.sql = ui.sql
       /\ \A t \in Tables : TabRows(v, t) = RowsIn(ui, t) /\ v.tab[t].open = ui.tab[t].open
  <2>1. SameSQL(ui, v)
    BY <1>1, CaptureFields
  <2>2. \A t \in Tables : SameFlags(ui.tab[t], v.tab[t]) /\ TabRows(v, t) = RowsIn(ui, t)
    BY <1>1, CaptureKeeps
  <2>3. QED
    BY <2>1, <2>2 DEF SameSQL, SameFlags
<1> HIDE DEF v
<1>15. agreed' \subseteq Made
  <2>1. \A s \in SQLs : v.sql[s].drafts \subseteq Made
    BY <1>14 DEF WorkSound, EditsSound
  <2>2. \A t \in tables \cap Dirty(v) : v.tab[t].draft.rows \subseteq Made
    <3>1. \A t \in tables \cap Dirty(v) : v.tab[t].draft.rows = TabRows(v, t)
      BY DEF Dirty, Open, TabRows, IsOpen
    <3>2. QED
      BY <1>14, <3>1 DEF WorkSound, EditsSound
  <2>3. agreed \subseteq Made
    BY DEF WorkSound, EditsSound
  <2> DEFINE drafts == {v.sql[s].drafts : s \in queried} \cup {v.tab[t].draft.rows : t \in tables \cap Dirty(v)}
  <2>4. agreed' = agreed \cup UNION drafts
    BY <1>4, Zenon
  <2>5. \A d \in drafts : d \subseteq Made
    BY <2>1, <2>2
  <2> HIDE DEF drafts
  <2>6. QED
    BY <2>3, <2>4, <2>5
<1>16. \A s \in queried : ui.sql[s].drafts \subseteq agreed'
  BY <1>4, <1>14
<1>17. ASSUME NEW t \in tables PROVE RowsIn(ui, t) \subseteq agreed'
  <2>1. RowsIn(ui, t) = TabRows(v, t)
    BY <1>14
  <2>2. CASE t \in Dirty(v)
    <3>1. v.tab[t].draft.rows \subseteq agreed'
      BY <1>4, <2>2
    <3>2. QED
      BY <2>1, <3>1 DEF TabRows
  <2>3. CASE t \notin Dirty(v)
    BY <2>1, <2>3 DEF Dirty, Open, TabRows, IsOpen
  <2>4. QED
    BY <2>2, <2>3
<1>18. agreed \subseteq agreed' /\ LoadsApart(loads)
  BY <1>4 DEF WorkSound, LoadsSound
<1>19. LoadsFrom(loads, loads')
  <2>1. loads' \in SUBSET loads
    BY <1>4
  <2>2. QED
    BY <1>18, <2>1, FewerLoads
<1>20. \A t \in Tables : /\ RowsIn(ui', t) \subseteq RowsIn(ui, t)
                         /\ RowsIn(ui, t) \subseteq RowsIn(ui', t) \cup agreed'
  BY <1>12, <1>17
<1>21. \A s \in SQLs : /\ ui'.sql[s].drafts \subseteq ui.sql[s].drafts
                       /\ ui.sql[s].drafts \subseteq ui'.sql[s].drafts \cup agreed'
  BY <1>8, <1>9, <1>10, <1>16
<1>22. \A l \in loads' : l.table \notin tables
  BY <1>4
<1>23. \A t \in tables : ~ui.tab[t].saving /\ ui'.tab[t] = ClosedTab
  BY <1>4, <1>12
<1>24. QED
  BY <1>4, <1>11, <1>12, <1>13, <1>15, <1>18, <1>19, <1>20, <1>21, <1>22, <1>23, DiscardKeeps

\* The tabs and the grid are written, the panes and the SQL tabs are not.
Rewritten(u, tabs, c) == [u EXCEPT !.tab = tabs, !.current = c]

LEMMA GridWritten ==
  ASSUME NEW u, UISound(u), NEW tabs \in TabsType, NEW c \in CurrentType,
         \A t \in Tables : TabSound(tabs[t]) /\ (u.tab[t].open => tabs[t].open), CurrentSound(c, tabs)
  PROVE  LET v == Rewritten(u, tabs, c)
         IN  /\ UISound(v) /\ SameSQL(u, v) /\ v.tab = tabs /\ v.current = c
             /\ v.bottom = u.bottom /\ v.active = u.active
             /\ \A t \in Tables :
                  RowsIn(v, t) = IF c.response /\ t = c.table THEN GridRows(v) ELSE TabRows(v, t)
<1> DEFINE v == Rewritten(u, tabs, c)
<1>1. u \in UIType /\ PanesSound(u) /\ OrderSound(u)
  BY DEF UISound
<1>2. /\ v \in UIType /\ v.tab = tabs /\ v.current = c /\ v.bottom = u.bottom
      /\ v.active = u.active /\ SameSQL(u, v)
  BY <1>1 DEF UIType, SameSQL, Rewritten
<1> HIDE DEF v
<1>3. TabsSound(v)
  BY <1>2 DEF TabsSound
<1>4. PanesSound(v)
  <2>1. \A p \in PaneType : p.kind = "table" => p.id \in Tables
    BY DEF PaneType, Table, Result
  <2>2. \A i \in DOMAIN u.bottom : u.bottom[i] \in PaneType
    BY <1>1 DEF UIType
  <2>3. QED
    BY <1>1, <1>2, <2>1, <2>2 DEF PanesSound, PaneSound, IsOpen, SameSQL
<1>5. OrderSound(v)
  BY <1>1, <1>2 DEF OrderSound, SameSQL
<1>6. UISound(v)
  BY <1>2, <1>3, <1>4, <1>5 DEF UISound
<1>7. \A t \in Tables :
        RowsIn(v, t) = IF v.current.response /\ t = v.current.table THEN GridRows(v) ELSE TabRows(v, t)
  BY <1>6, RowsShape
<1>8. QED
  BY <1>2, <1>6, <1>7 DEF v

\* The load that begins is the latest of its table.
LEMMA LoadBegins ==
  ASSUME NEW u, UISound(u), NEW t \in Tables, u.tab[t].open, NEW why \in {"open", "save", "commit"},
         FetchTableRecord(u, t, why)
  PROVE  /\ UISound(ui') /\ SameSQL(u, ui')
         /\ ShownSound(u) => ShownSound(ui')
         /\ SavingShown(u) => SavingShown(ui')
         /\ \A o \in Tables : RowsIn(ui', o) = RowsIn(u, o) /\ (o # t => ui'.tab[o] = u.tab[o])
         /\ ui'.tab[t].open /\ ui'.tab[t].saving = u.tab[t].saving /\ ui'.tab[t].loading
         /\ ui'.tab[t].nonce = u.tab[t].nonce + 1 /\ ui'.tab[t].progress = ui'.tab[t].nonce
<1> DEFINE n == u.tab[t].nonce + 1
           tab == [u.tab[t] EXCEPT !.nonce = n, !.loading = TRUE, !.progress = n]
           tabs == [u.tab EXCEPT ![t] = tab]
<1>1. /\ u \in UIType /\ u.tab \in TabsType /\ u.tab[t] \in TabType /\ u.current \in CurrentType
      /\ CurrentSound(u.current, u.tab) /\ \A o \in Tables : TabSound(u.tab[o])
  BY DEF UISound, UIType, TabsType, TabsSound
<1>2. tab \in TabType /\ tab.open /\ tab.saving = u.tab[t].saving /\ tab.loading
      /\ tab.nonce = n /\ tab.progress = n /\ tab.response = u.tab[t].response /\ tab.draft = u.tab[t].draft
  <2>1. n \in Nat
    BY <1>1 DEF TabType
  <2> HIDE DEF n
  <2>2. QED
    BY <1>1, <2>1 DEF TabType
<1>3. ui' = [u EXCEPT !.tab = tabs]
  <2>1. PICK started : started = [u EXCEPT !.tab[t].nonce = @ + 1, !.tab[t].loading = TRUE]
    OBVIOUS
  <2>2. started = [u EXCEPT !.tab = [u.tab EXCEPT ![t] = [u.tab[t] EXCEPT !.nonce = n, !.loading = TRUE]]]
    BY <1>1, <2>1 DEF UIType, TabsType
  <2>3. started.tab[t].nonce = n
    BY <1>1, <2>2 DEF UIType, TabsType, TabType
  <2>4. ui' = [started EXCEPT !.tab[t].progress = started.tab[t].nonce]
    BY <2>1 DEF FetchTableRecord, BeginDatabaseLoad
  <2>5. /\ started.tab[t] = [u.tab[t] EXCEPT !.nonce = n, !.loading = TRUE]
        /\ started.tab = [u.tab EXCEPT ![t] = [u.tab[t] EXCEPT !.nonce = n, !.loading = TRUE]]
    BY <1>1, <2>2 DEF UIType, TabsType
  <2>6. [started.tab[t] EXCEPT !.progress = n] = tab
    BY <1>1, <2>5 DEF TabType
  <2>7. [started.tab EXCEPT ![t].progress = n] = [started.tab EXCEPT ![t] = tab]
    BY <2>6
  <2> HIDE DEF tab, n
  <2>8. [started.tab EXCEPT ![t] = tab] = tabs
    BY <1>1, <2>5 DEF TabsType
  <2>9. ui' = [started EXCEPT !.tab = tabs]
    BY <2>3, <2>4, <2>7, <2>8
  <2>10. QED
    BY <1>1, <2>2, <2>9 DEF UIType
<1> HIDE DEF tab, n
<1>4. tabs \in TabsType /\ \A o \in Tables : tabs[o] = IF o = t THEN tab ELSE u.tab[o]
  BY <1>1, <1>2 DEF TabsType
<1> HIDE DEF tabs
<1>5. ui' = [u EXCEPT !.tab = tabs, !.current = u.current]
  BY <1>1, <1>3 DEF UIType
<1>6. \A o \in Tables : /\ TabSound(tabs[o]) /\ tabs[o].open = u.tab[o].open
                        /\ tabs[o].draft = u.tab[o].draft /\ tabs[o].response = u.tab[o].response
  <2>1. TabSound(tab)
    BY <1>1, <1>2 DEF TabSound
  <2>2. ASSUME NEW o \in Tables
        PROVE  /\ TabSound(tabs[o]) /\ tabs[o].open = u.tab[o].open
               /\ tabs[o].draft = u.tab[o].draft /\ tabs[o].response = u.tab[o].response
    <3>1. CASE o = t
      BY <1>2, <1>4, <2>1, <3>1
    <3>2. CASE o # t
      BY <1>1, <1>4, <3>2
    <3>3. QED
      BY <3>1, <3>2
  <2>3. QED
    BY <2>2
<1>7. CurrentSound(u.current, tabs)
  BY <1>1, <1>6 DEF CurrentSound, CurrentType
<1>8. /\ UISound(ui') /\ SameSQL(u, ui') /\ ui'.tab = tabs /\ ui'.current = u.current
      /\ ui'.bottom = u.bottom /\ ui'.active = u.active
      /\ \A o \in Tables : RowsIn(ui', o) =
           IF u.current.response /\ o = u.current.table THEN GridRows(ui') ELSE TabRows(ui', o)
  <2>0. PICK c \in CurrentType : c = u.current
    BY <1>1
  <2> DEFINE v == Rewritten(u, tabs, c)
  <2>1. /\ \A o \in Tables : TabSound(tabs[o]) /\ (u.tab[o].open => tabs[o].open)
        /\ CurrentSound(c, tabs) /\ tabs \in TabsType
    BY <1>4, <1>6, <1>7, <2>0
  <2>2. /\ UISound(v) /\ SameSQL(u, v) /\ v.tab = tabs /\ v.current = c
        /\ v.bottom = u.bottom /\ v.active = u.active
        /\ \A o \in Tables : RowsIn(v, o) =
             IF c.response /\ o = c.table THEN GridRows(v) ELSE TabRows(v, o)
    BY <2>1, GridWritten
  <2>4. ui' = v
    BY <1>5, <2>0 DEF Rewritten
  <2> HIDE DEF v
  <2>5. QED
    BY <2>0, <2>2, <2>4
<1>9. ASSUME NEW o \in Tables PROVE RowsIn(ui', o) = RowsIn(u, o)
  <2>1. RowsIn(u, o) = IF u.current.response /\ o = u.current.table THEN GridRows(u) ELSE TabRows(u, o)
    BY RowsShape
  <2>2. GridRows(ui') = GridRows(u)
    BY <1>8 DEF GridRows
  <2>3. TabRows(ui', o) = TabRows(u, o)
    BY <1>6, <1>8 DEF TabRows, IsOpen
  <2>4. QED
    BY <1>8, <2>1, <2>2, <2>3
<1>10. ShownSound(u) => ShownSound(ui')
  BY <1>6, <1>8 DEF ShownSound
<1>11. SavingShown(u) => SavingShown(ui')
  BY <1>1, <1>2, <1>4, <1>8 DEF SavingShown, CurrentType
<1>12. QED
  BY <1>2, <1>4, <1>8, <1>9, <1>10, <1>11 DEF n

LEMMA LoadAdded ==
  ASSUME LoadsApart(loads), NEW u, u \in UIType, u.activeSQL \in SQLs, NEW t \in Tables,
         NEW why \in {"open", "save", "commit"}, FetchTableRecord(u, t, why),
         NEW n \in Nat, n = u.tab[t].nonce + 1,
         \A l \in loads : l.table = t => l.nonce < n,
         why = "save" => \A l \in loads : l.table = t => l.why # "save"
  PROVE  /\ LoadsApart(loads')
         /\ \A m \in loads' :
              \/ \E l \in loads : l.table = m.table /\ l.nonce = m.nonce /\ l.why = m.why
              \/ m.table = t /\ m.nonce = n /\ m.why = why
<1> DEFINE new == [table |-> t, nonce |-> n, why |-> why, sql |-> u.activeSQL, aborted |-> FALSE]
<1>1. new \in LoadType /\ new.table = t /\ new.nonce = n /\ new.why = why
  BY DEF LoadType
<1>2. loads' = AbortLoads(t) \cup {new}
  <2>1. PICK started : started = [u EXCEPT !.tab[t].nonce = @ + 1, !.tab[t].loading = TRUE]
    OBVIOUS
  <2>2. started = [u EXCEPT !.tab = [u.tab EXCEPT ![t] = [u.tab[t] EXCEPT !.nonce = n, !.loading = TRUE]]]
    BY <2>1 DEF UIType, TabsType
  <2>3. started.tab[t].nonce = n
    BY <2>2 DEF UIType, TabsType, TabType
  <2>4. QED
    BY <2>1, <2>3 DEF FetchTableRecord
<1> HIDE DEF new
<1>3. LoadsFrom(loads, AbortLoads(t))
  BY AbortedLoads
<1>4. /\ LoadsApart(AbortLoads(t))
      /\ \A m \in AbortLoads(t) : \E l \in loads : l.table = m.table /\ l.nonce = m.nonce /\ l.why = m.why
  BY <1>3 DEF LoadsFrom
<1>5. ASSUME NEW m \in AbortLoads(t), m.table = t PROVE m.nonce # n /\ (why = "save" => m.why # "save")
  <2>1. PICK l \in loads : l.table = m.table /\ l.nonce = m.nonce /\ l.why = m.why
    BY <1>4
  <2>2. l.nonce < n /\ l.nonce \in Nat
    BY <1>5, <2>1 DEF LoadsApart, LoadType
  <2>3. QED
    BY <1>5, <2>1, <2>2
<1>6. LoadsApart(loads')
  <2>1. loads' \subseteq LoadType
    BY <1>1, <1>2, <1>4 DEF LoadsApart
  <2>2. ASSUME NEW l \in loads', NEW m \in loads', l.table = m.table,
               l.nonce = m.nonce \/ (l.why = "save" /\ m.why = "save")
        PROVE  l = m
    <3>1. CASE l \in AbortLoads(t) /\ m \in AbortLoads(t)
      BY <1>4, <2>2, <3>1 DEF LoadsApart
    <3>2. CASE l = new /\ m \in AbortLoads(t)
      BY <1>1, <1>5, <2>2, <3>2
    <3>3. CASE l \in AbortLoads(t) /\ m = new
      BY <1>1, <1>5, <2>2, <3>3
    <3>4. CASE l = new /\ m = new
      BY <3>4
    <3>5. QED
      BY <1>2, <3>1, <3>2, <3>3, <3>4
  <2>3. QED
    BY <2>1, <2>2 DEF LoadsApart
<1>7. ASSUME NEW m \in loads'
      PROVE  \/ \E l \in loads : l.table = m.table /\ l.nonce = m.nonce /\ l.why = m.why
             \/ m.table = t /\ m.nonce = n /\ m.why = why
  BY <1>1, <1>2, <1>4
<1>8. QED
  BY <1>6, <1>7

\* A load begins from a page `u` in which table t may have been opened or emptied.
LEMMA FetchSound ==
  ASSUME WorkSound, NEW u, UISound(u), SameSQL(ui, u), NEW t \in Tables, u.tab[t].open,
         NEW why \in {"open", "save", "commit"}, FetchTableRecord(u, t, why),
         \A o \in Tables : o # t => SameFlags(ui.tab[o], u.tab[o]),
         SameFlags(ui.tab[t], u.tab[t]) \/ (~ui.tab[t].open /\ ~u.tab[t].saving),
         \A o \in Tables : RowsIn(u, o) \subseteq RowsIn(ui, o), RowsIn(u, t) \subseteq Done',
         Done \subseteq Done', \A o \in Tables : saves'[o] = saves[o] \/ (o = t /\ saves'[o] = {}),
         commit'.busy = commit.busy,
         why = "save" => ui.tab[t].saving /\ saves[t] # {} /\ saves'[t] = {} /\ ~commit.busy
  PROVE  TablesSound' /\ LoadsSound'
<1>1. /\ UISound(ui) /\ TablesSound /\ LoadsApart(loads) /\ \A l \in loads : LoadSound(l)
      /\ ui.activeSQL \in ToSet(ui.order) /\ ui \in UIType
  BY DEF WorkSound, UIKept, LoadsSound, UISound
<1>2. u \in UIType /\ u.tab[t] \in TabType /\ ui.tab[t] \in TabType /\ TabSound(ui.tab[t])
  BY <1>1 DEF UISound, UIType, TabsType, TabsSound
<1>3. u.activeSQL \in SQLs
  BY <1>1 DEF SameSQL, UIType, ToSet
<1>4. PICK n \in Nat : n = u.tab[t].nonce + 1
  BY <1>2 DEF TabType
<1>5. /\ \A o \in Tables : RowsIn(ui', o) = RowsIn(u, o) /\ (o # t => ui'.tab[o] = u.tab[o])
      /\ ui'.tab[t].open /\ ui'.tab[t].saving = u.tab[t].saving /\ ui'.tab[t].loading
      /\ ui'.tab[t].nonce = n /\ ui'.tab[t].progress = ui'.tab[t].nonce
  BY <1>4, LoadBegins
<1>6. ASSUME NEW l \in loads, l.table = t
      PROVE  l.nonce \in Nat /\ l.nonce < n /\ SameFlags(ui.tab[t], u.tab[t]) /\ (why = "save" => l.why # "save")
  <2>1. LoadSound(l) /\ l.nonce \in Nat
    BY <1>1 DEF LoadsApart, LoadType
  <2>2. ui.tab[t].open /\ l.nonce <= ui.tab[t].nonce /\ (l.why = "save" => saves[t] = {})
    BY <1>6, <2>1 DEF LoadSound
  <2>3. SameFlags(ui.tab[t], u.tab[t])
    BY <2>2
  <2>4. u.tab[t].nonce = ui.tab[t].nonce /\ u.tab[t].nonce \in Nat
    BY <1>2, <2>3 DEF SameFlags, TabType
  <2>5. QED
    BY <1>4, <2>1, <2>2, <2>3, <2>4
<1>7. /\ LoadsApart(loads')
      /\ \A m \in loads' :
           \/ \E l \in loads : l.table = m.table /\ l.nonce = m.nonce /\ l.why = m.why
           \/ m.table = t /\ m.nonce = n /\ m.why = why
  BY <1>1, <1>2, <1>3, <1>4, <1>6, LoadAdded
<1>8. ASSUME NEW o \in Tables PROVE TableSound(o)'
  <2>1. TableSound(o)
    BY <1>1 DEF TablesSound
  <2>2. CASE o # t
    <3>1. SameFlags(ui.tab[o], ui'.tab[o])
      BY <1>5, <2>2
    <3>2. RowsIn(ui', o) \subseteq RowsIn(ui, o) /\ saves'[o] = saves[o] /\ (commit'.busy => commit.busy)
      BY <1>5, <2>2
    <3>3. QED
      BY <2>1, <3>1, <3>2, TableStays
  <2>3. CASE o = t
    <3>1. ui'.tab[t].progress = ui'.tab[t].nonce /\ RowsIn(ui', t) \subseteq Done'
      BY <1>5
    <3>2. saves'[t] # {} => ui'.tab[t].saving /\ RowsIn(ui', t) \subseteq saves'[t]
      <4>1. saves'[t] # {} => saves'[t] = saves[t] /\ ui.tab[t].saving /\ RowsIn(ui, t) \subseteq saves[t]
        BY <2>1, <2>3 DEF TableSound
      <4>2. ~ui.tab[t].open => ~ui.tab[t].saving
        BY <1>2 DEF TabSound, ClosedTab
      <4>3. saves'[t] # {} => u.tab[t].saving
        BY <4>1, <4>2 DEF SameFlags
      <4>4. QED
        BY <1>5, <4>1, <4>3
    <3>3. commit'.busy => saves'[t] = {}
      BY <2>1, <2>3 DEF TableSound
    <3>4. QED
      BY <2>3, <3>1, <3>2, <3>3 DEF TableSound
  <2>4. QED
    BY <2>2, <2>3
<1>9. ASSUME NEW m \in loads' PROVE LoadSound(m)'
  <2>1. CASE m.table = t /\ m.nonce = n /\ m.why = why
    <3>1. ui'.tab[t].saving = ui.tab[t].saving \/ ~ui.tab[t].open
      BY <1>5 DEF SameFlags
    <3>2. ~ui.tab[t].open => ~ui.tab[t].saving
      BY <1>2 DEF TabSound, ClosedTab
    <3>3. m.why = "save" => ui'.tab[t].saving /\ saves'[t] = {} /\ ~commit'.busy
      BY <2>1, <3>1, <3>2
    <3>4. QED
      BY <1>5, <2>1, <3>3 DEF LoadSound
  <2>2. ASSUME NEW l \in loads, l.table = m.table, l.nonce = m.nonce, l.why = m.why PROVE LoadSound(m)'
    <3>1. LoadSound(l) /\ l.table \in Tables /\ l.nonce \in Nat
      BY <1>1 DEF LoadsApart, LoadType
    <3>2. saves'[l.table] \subseteq saves[l.table] /\ (commit'.busy => commit.busy)
      BY <3>1
    <3>3. CASE l.table # t
      <4>1. SameFlags(ui.tab[l.table], ui'.tab[l.table])
        BY <1>5, <3>1, <3>3
      <4>2. QED
        BY <2>2, <3>1, <3>2, <4>1, LoadStays
    <3>4. CASE l.table = t
      <4>1. l.nonce < n /\ SameFlags(ui.tab[t], u.tab[t])
        BY <1>6, <3>4
      <4>2. m.table = t /\ m.nonce <= ui'.tab[t].nonce /\ m.nonce # ui'.tab[t].nonce
        BY <1>5, <2>2, <3>1, <3>4, <4>1
      <4>3. m.why = "save" => ui.tab[t].saving /\ saves[t] = {} /\ ~commit.busy
        BY <2>2, <3>1, <3>4 DEF LoadSound
      <4>4. m.why = "save" => ui'.tab[t].saving /\ saves'[t] = {} /\ ~commit'.busy
        BY <1>5, <3>2, <3>4, <4>1, <4>3 DEF SameFlags
      <4>5. QED
        BY <1>5, <4>2, <4>4 DEF LoadSound
    <3>5. QED
      BY <3>3, <3>4
  <2>3. QED
    BY <1>7, <2>1, <2>2
<1>10. QED
  BY <1>7, <1>8, <1>9 DEF TablesSound, LoadsSound

\* A load that the user asks for, of a table whose rows may be lost.
LEMMA FetchKeeps ==
  ASSUME WorkSound, NEW u, UISound(u), ShownSound(u), SameSQL(ui, u), SavingShown(ui) => SavingShown(u),
         NEW t \in Tables, u.tab[t].open, FetchTableRecord(u, t, "open"),
         \A o \in Tables : o # t => SameFlags(ui.tab[o], u.tab[o]),
         SameFlags(ui.tab[t], u.tab[t]) \/ (~ui.tab[t].open /\ ~u.tab[t].saving),
         \A o \in Tables : RowsIn(u, o) = RowsIn(ui, o), RowsIn(ui, t) \subseteq agreed',
         agreed \subseteq agreed', agreed' \subseteq Made, UNCHANGED <<saves, commit, home, uncounted, saved>>
  PROVE  WorkSound'
<1>1. EditsSound /\ CommitSound /\ DraftsAreKept /\ ui.activeSQL \in ToSet(ui.order)
  BY DEF WorkSound, UIKept
<1>2. Done \subseteq Done' /\ RowsIn(u, t) \subseteq Done'
  BY DEF Done
<1>3. /\ UISound(ui') /\ SameSQL(u, ui') /\ ShownSound(ui')
      /\ SavingShown(u) => SavingShown(ui')
      /\ \A o \in Tables : RowsIn(ui', o) = RowsIn(u, o) /\ (o # t => ui'.tab[o] = u.tab[o])
      /\ ui'.tab[t].open
  BY LoadBegins
<1>4. TablesSound' /\ LoadsSound'
  <2>1. PICK why \in {"open", "save", "commit"} : why = "open"
    OBVIOUS
  <2>2. /\ FetchTableRecord(u, t, why) /\ why # "save" /\ commit'.busy = commit.busy
        /\ \A o \in Tables : RowsIn(u, o) \subseteq RowsIn(ui, o)
        /\ \A o \in Tables : saves'[o] = saves[o] \/ (o = t /\ saves'[o] = {})
    BY <2>1
  <2>3. QED
    BY <1>2, <2>2, FetchSound
<1>5. UIKept'
  BY <1>1, <1>3 DEF UIKept, SameSQL
<1>6. \A s \in SQLs : ui'.sql[s].drafts = ui.sql[s].drafts
  BY <1>3 DEF SameSQL
<1>7. \A o \in Tables : RowsIn(ui', o) = RowsIn(ui, o)
  BY <1>3
<1>8. EditsSound'
  <2>1. /\ saves' \in [Tables -> SUBSET Made] /\ saved' \subseteq Made /\ commit'.edits \subseteq Made
        /\ \A s \in SQLs : ui'.sql[s].drafts \cap saved' = {}
    BY <1>1, <1>6 DEF EditsSound
  <2>2. QED
    BY <1>1, <1>6, <1>7, <2>1, EditsStay
<1>9. DraftsAreKept'
  BY <1>1, <1>2, <1>6, <1>7, DraftsStay
<1>10. CommitSound'
  <2>1. commit.busy \/ SavingShown(ui')
    BY <1>1, <1>3 DEF CommitSound
  <2>2. ASSUME NEW o \in commit.tables PROVE ui'.tab[o].open
    <3>1. o \in Tables /\ ui.tab[o].open
      BY <1>1 DEF CommitSound, CommitType
    <3>2. QED
      BY <1>3, <3>1 DEF SameFlags
  <2>3. QED
    BY <1>1, <1>7, <2>1, <2>2, CommitStays
<1>11. QED
  BY <1>4, <1>5, <1>8, <1>9, <1>10 DEF WorkSound

LEMMA OpenKeeps ==
  ASSUME WorkSound, NEW t \in Tables, OpenTable(t), ~IsOpen(ui, t)
  PROVE  WorkSound'
<1> DEFINE tabs == [ui.tab EXCEPT ![t] = NewTab]
           v == Rewritten(ui, tabs, ui.current)
<1>1. /\ UISound(ui) /\ ui \in UIType /\ ui.tab \in TabsType /\ ui.current \in CurrentType
      /\ CurrentSound(ui.current, ui.tab) /\ \A o \in Tables : TabSound(ui.tab[o])
  BY DEF WorkSound, UIKept, UISound, UIType, TabsSound
<1>2. ~ui.tab[t].open
  BY DEF IsOpen
<1>3. /\ FetchTableRecord(ActivateBottom([ui EXCEPT !.tab[t] = NewTab], Table(t)), t, "open")
      /\ UNCHANGED <<saves, commit, home, uncounted, agreed, saved>>
  BY <1>2 DEF OpenTable, IsOpen
<1>4. [ui EXCEPT !.tab[t] = NewTab] = v
  BY <1>1 DEF Rewritten, UIType
<1>5. /\ NewTab \in TabType /\ TabSound(NewTab) /\ NewTab.open /\ ~NewTab.saving /\ ~NewTab.draft.dirty
  <2>1. NewTab \in TabType /\ TabSound(NewTab)
    BY FreshTypes
  <2>2. QED
    BY <2>1 DEF NewTab, ClosedTab, Fresh
<1>6. tabs \in TabsType /\ \A o \in Tables : tabs[o] = IF o = t THEN NewTab ELSE ui.tab[o]
  BY <1>1, <1>5 DEF TabsType
<1> HIDE DEF tabs
<1>7. \A o \in Tables : TabSound(tabs[o]) /\ (ui.tab[o].open => tabs[o].open)
  BY <1>1, <1>5, <1>6
<1>8. ui.current.table # t /\ t # NoTable
  BY <1>1, <1>2 DEF CurrentSound
<1>9. CurrentSound(ui.current, tabs)
  BY <1>1, <1>6, <1>8 DEF CurrentSound, CurrentType
<1>10. PICK c \in CurrentType : c = ui.current
  BY <1>1
<1>11. CurrentSound(c, tabs) /\ v = Rewritten(ui, tabs, c)
  BY <1>9, <1>10
<1> HIDE DEF v
<1>12. /\ UISound(v) /\ SameSQL(ui, v) /\ v.tab = tabs /\ v.current = c
       /\ \A o \in Tables : RowsIn(v, o) = IF c.response /\ o = c.table THEN GridRows(v) ELSE TabRows(v, o)
  BY <1>1, <1>6, <1>7, <1>11, GridWritten
<1>13. ASSUME NEW o \in Tables PROVE RowsIn(v, o) = RowsIn(ui, o)
  <2>1. RowsIn(ui, o) = IF ui.current.response /\ o = ui.current.table THEN GridRows(ui) ELSE TabRows(ui, o)
    BY <1>1, RowsShape
  <2>2. GridRows(v) = GridRows(ui)
    BY <1>10, <1>12 DEF GridRows
  <2>3. o # t => TabRows(v, o) = TabRows(ui, o)
    BY <1>6, <1>12 DEF TabRows, IsOpen
  <2>4. TabRows(v, t) = {} /\ TabRows(ui, t) = {}
    BY <1>2, <1>5, <1>6, <1>12 DEF TabRows, IsOpen
  <2>5. QED
    BY <1>8, <1>10, <1>12, <2>1, <2>2, <2>3, <2>4
<1>14. SavingShown(ui) => SavingShown(v)
  BY <1>1, <1>6, <1>8, <1>10, <1>12 DEF SavingShown, CurrentType
<1>15. Table(t) \in PaneType /\ PaneSound(v, Table(t))
  BY <1>5, <1>6, <1>12 DEF PaneType, PaneSound, Table, IsOpen
<1>16. PICK w : w = ActivateBottom(v, Table(t))
  OBVIOUS
<1>17. /\ UISound(w) /\ ShownSound(w) /\ SameSQL(v, w) /\ SameRows(v, w)
       /\ SavingShown(v) => SavingShown(w)
  BY <1>12, <1>15, <1>16, ActivateKeeps
<1>18. SameSQL(ui, w)
  BY <1>12, <1>17 DEF SameSQL
<1>19. \A o \in Tables : RowsIn(w, o) = RowsIn(ui, o) /\ SameFlags(tabs[o], w.tab[o])
  BY <1>12, <1>13, <1>17 DEF SameRows
<1>20. \A o \in Tables : o # t => SameFlags(ui.tab[o], w.tab[o])
  BY <1>6, <1>19
<1>21. w.tab[t].open /\ ~w.tab[t].saving
  BY <1>5, <1>6, <1>19 DEF SameFlags
<1>22. RowsIn(ui, t) \subseteq agreed' /\ agreed \subseteq agreed' /\ agreed' \subseteq Made
  <2>1. RowsIn(ui, t) = {}
    BY <1>1, <1>2, RowsShape
  <2>2. QED
    BY <1>3, <2>1 DEF WorkSound, EditsSound
<1>23. FetchTableRecord(w, t, "open")
  BY <1>3, <1>4, <1>16
<1>24. QED
  BY <1>2, <1>3, <1>14, <1>17, <1>18, <1>19, <1>20, <1>21, <1>22, <1>23, FetchKeeps

\* ReloadTable and the designer's change of a table.
LEMMA ReloadKeeps ==
  ASSUME WorkSound, NEW t \in Tables, ReloadTable(t) \/ ApplySchema(t, FALSE)
  PROVE  WorkSound'
<1>1. UISound(ui) /\ ui \in UIType /\ UIKept
  BY DEF WorkSound, UIKept, UISound
<1>2. /\ Shown(t) /\ UNCHANGED <<saves, commit, home, uncounted, saved>>
      /\ FetchTableRecord(ActivateBottom(ui, Table(t)), t, "open")
  BY DEF ReloadTable, ApplySchema
<1>3. ui.current.table = t /\ ui.tab[t].open /\ RowsIn(ui, t) = GridRows(ui)
  BY <1>1, <1>2, ShownRows
<1>4. agreed' = agreed \cup RowsIn(ui, t)
  <2>1. CASE ReloadTable(t)
    BY <1>3, <2>1 DEF ReloadTable, Agree, RowsIn, IsOpen
  <2>2. CASE ApplySchema(t, FALSE)
    BY <1>3, <2>2 DEF ApplySchema, Agree, GridRows
  <2>3. QED
    BY <2>1, <2>2
<1>5. Table(t) \in PaneType /\ PaneSound(ui, Table(t))
  BY <1>3 DEF PaneType, PaneSound, Table, IsOpen
<1>6. PICK w : w = ActivateBottom(ui, Table(t))
  OBVIOUS
<1>7. /\ UISound(w) /\ ShownSound(w) /\ SameSQL(ui, w) /\ SameRows(ui, w)
      /\ SavingShown(ui) => SavingShown(w)
  BY <1>1, <1>5, <1>6, ActivateKeeps
<1>8. \A o \in Tables : RowsIn(w, o) = RowsIn(ui, o) /\ SameFlags(ui.tab[o], w.tab[o])
  BY <1>7 DEF SameRows
<1>9. w.tab[t].open
  BY <1>3, <1>8 DEF SameFlags
<1>10. agreed \subseteq agreed' /\ agreed' \subseteq Made /\ RowsIn(ui, t) \subseteq agreed'
  BY <1>4 DEF WorkSound, EditsSound
<1>11. FetchTableRecord(w, t, "open")
  BY <1>2, <1>6
<1>12. QED
  BY <1>2, <1>7, <1>8, <1>9, <1>10, <1>11, FetchKeeps

\* What table t holds is dropped, from its tab and from the grid.
LEMMA RowsDropped ==
  ASSUME UISound(ui), NEW t \in Tables, NEW tab \in TabType, NEW c \in CurrentType,
         SameFlags(ui.tab[t], tab), tab.draft = Fresh, tab.open,
         c.table = ui.current.table, c.saving = ui.current.saving, c.table # t => c = ui.current,
         c.table = t => /\ DraftSound(c.draft) /\ ~c.draft.dirty /\ (~c.response => c.draft.rows = {})
                        /\ c.response => tab.response,
         NEW tabs, tabs = [ui.tab EXCEPT ![t] = tab]
  PROVE  LET v == Rewritten(ui, tabs, c)
         IN  /\ UISound(v) /\ SameSQL(ui, v) /\ v.tab = tabs /\ v.current = c
             /\ SavingShown(ui) => SavingShown(v)
             /\ ShownSound(ui) /\ ((tab.response => c.response) \/ (tab.response = ui.tab[t].response /\ c.response = ui.current.response)) => ShownSound(v)
             /\ \A o \in Tables : /\ SameFlags(ui.tab[o], v.tab[o])
                                  /\ RowsIn(v, o) = IF o = t THEN {} ELSE RowsIn(ui, o)
<1> DEFINE v == Rewritten(ui, tabs, c)
<1>1. /\ ui.tab \in TabsType /\ ui.current \in CurrentType
      /\ CurrentSound(ui.current, ui.tab) /\ \A o \in Tables : TabSound(ui.tab[o])
  BY DEF UISound, UIType, TabsSound
<1>2. tabs \in TabsType /\ \A o \in Tables : tabs[o] = IF o = t THEN tab ELSE ui.tab[o]
  BY <1>1 DEF TabsType
<1>3. Fresh.rows = {} /\ ~Fresh.dirty /\ Fresh.original /\ DraftSound(Fresh)
  BY FreshTypes DEF Fresh
<1>4. TabSound(tab)
  BY <1>3 DEF TabSound
<1>5. \A o \in Tables : TabSound(tabs[o]) /\ (ui.tab[o].open => tabs[o].open)
  BY <1>1, <1>2, <1>4
<1>6. CurrentSound(c, tabs)
  <2>1. CASE c.table = t
    <3>1. tabs[c.table] = tab /\ t # NoTable
      BY <1>2, <2>1
    <3>2. QED
      BY <1>3, <2>1, <3>1 DEF CurrentSound
  <2>2. CASE c.table # t
    <3>1. c = ui.current /\ (c.table # NoTable => tabs[c.table] = ui.tab[c.table])
      BY <1>1, <1>2, <2>2 DEF CurrentType
    <3>2. QED
      BY <1>1, <3>1 DEF CurrentSound
  <2>3. QED
    BY <2>1, <2>2
<1>7. /\ UISound(v) /\ SameSQL(ui, v) /\ v.tab = tabs /\ v.current = c
      /\ v.bottom = ui.bottom /\ v.active = ui.active
      /\ \A o \in Tables : RowsIn(v, o) = IF c.response /\ o = c.table THEN GridRows(v) ELSE TabRows(v, o)
  <2>1. UISound(ui) /\ tabs \in TabsType
    BY <1>2
  <2>2. QED
    BY ONLY <2>1, <1>5, <1>6, GridWritten
<1> HIDE DEF v
<1>8. ASSUME NEW o \in Tables PROVE SameFlags(ui.tab[o], v.tab[o])
  <2>1. CASE o = t
    BY <1>2, <1>7, <2>1
  <2>2. CASE o # t
    BY <1>2, <1>7, <2>2 DEF SameFlags
  <2>3. QED
    BY <2>1, <2>2
<1>9. ASSUME NEW o \in Tables PROVE RowsIn(v, o) = IF o = t THEN {} ELSE RowsIn(ui, o)
  <2>1. RowsIn(ui, o) = IF ui.current.response /\ o = ui.current.table THEN GridRows(ui) ELSE TabRows(ui, o)
    BY RowsShape
  <2>2. TabRows(v, t) = {}
    BY <1>2, <1>3, <1>7 DEF TabRows
  <2>3. CASE o = t
    <3>1. c.table = t => GridRows(v) = {}
      BY <1>7 DEF GridRows
    <3>2. QED
      BY <1>7, <2>2, <2>3, <3>1
  <2>4. CASE o # t
    <3>1. TabRows(v, o) = TabRows(ui, o)
      BY <1>2, <1>7, <2>4 DEF TabRows, IsOpen
    <3>2. CASE c.table = t
      BY <1>7, <2>1, <2>4, <3>1, <3>2
    <3>3. CASE c.table # t
      <4>1. c = ui.current
        BY <3>3
      <4>2. GridRows(v) = GridRows(ui)
        BY <1>7, <4>1 DEF GridRows
      <4>3. QED
        BY <1>7, <2>1, <2>4, <3>1, <4>1, <4>2
    <3>4. QED
      BY <3>2, <3>3
  <2>5. QED
    BY <2>3, <2>4
<1>10. SavingShown(ui) => SavingShown(v)
  BY <1>1, <1>7, <1>8 DEF SavingShown, SameFlags, CurrentType
<1>11. ASSUME ShownSound(ui),
              (tab.response => c.response) \/ (tab.response = ui.tab[t].response /\ c.response = ui.current.response)
       PROVE  ShownSound(v)
  <2>1. ASSUME NEW o \in Tables, ui.active = Table(o)
        PROVE  v.current.table = o /\ (v.tab[o].response => v.current.response)
    <3>1. ui.current.table = o /\ (ui.tab[o].response => ui.current.response)
      BY <1>11, <2>1 DEF ShownSound
    <3>2. CASE o = t
      BY <1>2, <1>7, <1>11, <3>1, <3>2
    <3>3. CASE o # t
      BY <1>2, <1>7, <3>1, <3>3
    <3>4. QED
      BY <3>2, <3>3
  <2>2. v.active = NoPane \/ v.active \in ToSet(v.bottom)
    BY <1>7, <1>11 DEF ShownSound
  <2>3. QED
    BY <1>7, <2>1, <2>2 DEF ShownSound
<1>12. QED
  BY <1>7, <1>8, <1>9, <1>10, <1>11 DEF v

\* The save of t is answered: its rows are saved, and it loads again.
LEMMA RowsSavedKeeps ==
  ASSUME WorkSound, NEW t \in Tables, RowsSaved(t)
  PROVE  WorkSound'
<1> DEFINE tab == [ui.tab[t] EXCEPT !.response = FALSE, !.draft = Fresh]
           tabs == [ui.tab EXCEPT ![t] = tab]
           d == [ui.current EXCEPT !.response = FALSE, !.draft = Fresh]
<1>1. /\ UISound(ui) /\ ShownSound(ui) /\ ui.activeSQL \in ToSet(ui.order) /\ ui \in UIType
      /\ ui.tab \in TabsType /\ ui.tab[t] \in TabType /\ ui.current \in CurrentType /\ TabSound(ui.tab[t])
  BY DEF WorkSound, UIKept, UISound, UIType, TabsType, TabsSound
<1>2. EditsSound /\ CommitSound /\ DraftsAreKept /\ TableSound(t)
  BY DEF WorkSound, TablesSound
<1>3. /\ saves[t] # {} /\ saved' = saved \cup saves[t] /\ saves' = [saves EXCEPT ![t] = {}]
      /\ UNCHANGED <<commit, home, uncounted, agreed>>
  BY DEF RowsSaved
<1>4. ui.tab[t].saving /\ RowsIn(ui, t) \subseteq saves[t] /\ ~commit.busy
  BY <1>2, <1>3 DEF TableSound
<1>5. ui.tab[t].open
  BY <1>1, <1>4 DEF TabSound, ClosedTab
<1>6. Fresh \in DraftType /\ DraftSound(Fresh) /\ ~Fresh.dirty /\ Fresh.rows = {}
  BY FreshTypes DEF Fresh
<1>7. tab \in TabType /\ SameFlags(ui.tab[t], tab) /\ tab.draft = Fresh /\ tab.open /\ ~tab.response
  BY <1>1, <1>5, <1>6 DEF TabType, SameFlags
<1>8. /\ d \in CurrentType /\ d.table = ui.current.table /\ d.saving = ui.current.saving
      /\ ~d.response /\ d.draft = Fresh
  BY <1>1, <1>6 DEF CurrentType
<1> DEFINE x == [ui EXCEPT !.tab[t].response = FALSE, !.tab[t].draft = Fresh]
<1>9. x = [ui EXCEPT !.tab = tabs] /\ x.current = ui.current
  BY <1>1 DEF UIType, TabsType
<1>10. FetchTableRecord(IF ui.current.table = t
             THEN [x EXCEPT !.current.response = FALSE, !.current.draft = Fresh] ELSE x, t, "save")
  BY DEF RowsSaved
<1> HIDE DEF tab, tabs
<1>11. PICK c \in CurrentType : c = IF ui.current.table = t THEN d ELSE ui.current
  BY <1>1, <1>8
<1>12. x.current \in CurrentType /\ [x EXCEPT !.current.response = FALSE, !.current.draft = Fresh] = [x EXCEPT !.current = d]
  BY <1>1, <1>9
<1> HIDE DEF x, d
<1>13. (IF ui.current.table = t
             THEN [x EXCEPT !.current.response = FALSE, !.current.draft = Fresh] ELSE x) = Rewritten(ui, tabs, c)
  <2>1. CASE ui.current.table = t
    BY <1>1, <1>9, <1>11, <1>12, <2>1 DEF Rewritten, UIType
  <2>2. CASE ui.current.table # t
    BY <1>1, <1>9, <1>11, <2>2 DEF Rewritten, UIType
  <2>3. QED
    BY <2>1, <2>2
<1>14. PICK u : u = Rewritten(ui, tabs, c)
  OBVIOUS
<1>15. FetchTableRecord(u, t, "save")
  BY <1>10, <1>13, <1>14
<1>16. /\ c.table = ui.current.table /\ c.saving = ui.current.saving /\ (c.table # t => c = ui.current)
       /\ c.table = t => /\ DraftSound(c.draft) /\ ~c.draft.dirty /\ (~c.response => c.draft.rows = {})
                         /\ c.response => tab.response
  BY <1>6, <1>8, <1>11
<1>17. tabs = [ui.tab EXCEPT ![t] = tab]
  BY DEF tabs
<1>18. /\ UISound(u) /\ SameSQL(ui, u) /\ ShownSound(u)
       /\ SavingShown(ui) => SavingShown(u)
       /\ \A o \in Tables : /\ SameFlags(ui.tab[o], u.tab[o])
                            /\ RowsIn(u, o) = IF o = t THEN {} ELSE RowsIn(ui, o)
  BY <1>1, <1>7, <1>14, <1>16, <1>17, RowsDropped
<1>19. u.tab[t].open
  BY <1>5, <1>18 DEF SameFlags
<1>20. PICK why \in {"open", "save", "commit"} : why = "save"
  OBVIOUS
<1>21. /\ UISound(ui') /\ SameSQL(u, ui') /\ ShownSound(ui')
       /\ SavingShown(u) => SavingShown(ui')
       /\ \A o \in Tables : RowsIn(ui', o) = RowsIn(u, o)
  BY <1>15, <1>18, <1>19, <1>20, LoadBegins
<1>22. Done \subseteq Done' /\ RowsIn(u, t) \subseteq Done' /\ RowsIn(ui, t) \subseteq Done'
  BY <1>3, <1>4, <1>18 DEF Done
<1>23. \A o \in Tables : saves'[o] = IF o = t THEN {} ELSE saves[o]
  BY <1>2, <1>3 DEF EditsSound
<1>24. TablesSound' /\ LoadsSound'
  BY <1>3, <1>4, <1>15, <1>18, <1>19, <1>20, <1>22, <1>23, FetchSound
<1>25. UIKept'
  BY <1>1, <1>18, <1>21 DEF UIKept, SameSQL
<1>26. \A s \in SQLs : ui'.sql[s].drafts = ui.sql[s].drafts
  BY <1>18, <1>21 DEF SameSQL
<1>27. \A o \in Tables : RowsIn(ui', o) = IF o = t THEN {} ELSE RowsIn(ui, o)
  BY <1>18, <1>21
<1>28. EditsSound'
  <2>1. /\ saves' \in [Tables -> SUBSET Made] /\ saved' \subseteq Made /\ commit'.edits \subseteq Made
        /\ agreed' \subseteq Made
    BY <1>2, <1>3 DEF EditsSound
  <2>2. \A s \in SQLs : ui'.sql[s].drafts \cap saved' = {}
    BY <1>2, <1>3, <1>26 DEF EditsSound
  <2>3. QED
    BY <1>2, <1>3, <1>23, <1>26, <1>27, <2>1, <2>2, EditsStay
<1>29. DraftsAreKept'
  BY <1>2, <1>3, <1>22, <1>26, <1>27, DraftsStay
<1>30. CommitSound'
  <2>1. commit' = NoCommit /\ NoCommit \in CommitType /\ SavingShown(ui')
    <3>1. commit = NoCommit /\ SavingShown(ui) /\ commit \in CommitType
      BY <1>2, <1>4 DEF CommitSound
    <3>2. QED
      BY <1>3, <1>18, <1>21, <3>1
  <2>2. ASSUME NEW o \in Tables PROVE RowsIn(ui', o) \cap saved' = {}
    <3>1. RowsIn(ui, o) \cap saved = {}
      <4>1. commit = NoCommit
        BY <1>2, <1>4 DEF CommitSound
      <4>2. QED
        BY <1>2, <4>1 DEF CommitSound, NoCommit
    <3>2. o # t => RowsIn(ui, o) \cap saves[t] = {}
      BY <1>2 DEF EditsSound, Apart
    <3>3. QED
      BY <1>3, <1>27, <3>1, <3>2
  <2>3. QED
    BY <2>1, <2>2 DEF CommitSound, NoCommit
<1>31. QED
  BY <1>24, <1>25, <1>28, <1>29, <1>30 DEF WorkSound

\* A table whose rows are saved loads again, one after the other.
LEMMA ReloadSavedKeeps ==
  ASSUME WorkSound, NEW t \in Tables, ReloadSaved(t)
  PROVE  WorkSound'
<1> DEFINE tab == [ui.tab[t] EXCEPT !.draft = Fresh]
           tabs == [ui.tab EXCEPT ![t] = tab]
           f == [ui.current.draft EXCEPT !.dirty = FALSE, !.original = ~ui.current.response]
           d == [ui.current EXCEPT !.draft = f]
<1>1. /\ UISound(ui) /\ ShownSound(ui) /\ ui.activeSQL \in ToSet(ui.order) /\ ui \in UIType
      /\ ui.tab \in TabsType /\ ui.tab[t] \in TabType /\ ui.current \in CurrentType /\ TabSound(ui.tab[t])
      /\ CurrentSound(ui.current, ui.tab)
  BY DEF WorkSound, UIKept, UISound, UIType, TabsType, TabsSound
<1>2. EditsSound /\ CommitSound /\ DraftsAreKept /\ TableSound(t)
  BY DEF WorkSound, TablesSound
<1>3. /\ commit.busy /\ t \in commit.reload /\ UNCHANGED <<saves, home, uncounted, agreed, saved>>
      /\ commit' = [commit EXCEPT !.reload = @ \ {t}, !.loading = TRUE]
      /\ FetchTableRecord(SavedTable(ui, t), t, "commit")
  BY DEF ReloadSaved
<1>4. ui.tab[t].open /\ RowsIn(ui, t) \subseteq saved
  BY <1>2, <1>3 DEF CommitSound
<1>5. Fresh \in DraftType /\ DraftSound(Fresh)
  BY FreshTypes
<1>6. tab \in TabType /\ SameFlags(ui.tab[t], tab) /\ tab.draft = Fresh /\ tab.open /\ tab.response = ui.tab[t].response
  BY <1>1, <1>4, <1>5 DEF TabType, SameFlags
<1>7. f \in DraftType /\ ~f.dirty /\ f.rows = ui.current.draft.rows /\ f.original = ~ui.current.response
  BY <1>1 DEF CurrentType, DraftType
<1> HIDE DEF f
<1>8. /\ d \in CurrentType /\ d.table = ui.current.table /\ d.saving = ui.current.saving
      /\ d.response = ui.current.response /\ d.draft = f
  BY <1>1, <1>7 DEF CurrentType
<1>9. SavedTable(ui, t) = [ui EXCEPT !.tab = tabs, !.current.draft = IF ui.current.table = t THEN f ELSE @]
  BY <1>1 DEF SavedTable, f, UIType, TabsType
<1>10. PICK c \in CurrentType : c = IF ui.current.table = t THEN d ELSE ui.current
  BY <1>1, <1>8
<1>11. c = [ui.current EXCEPT !.draft = IF ui.current.table = t THEN f ELSE @]
  <2>1. CASE ui.current.table = t
    BY <1>10, <2>1
  <2>2. CASE ui.current.table # t
    BY <1>1, <1>10, <2>2 DEF CurrentType
  <2>3. QED
    BY <2>1, <2>2
<1> HIDE DEF tab, tabs, d
<1>12. SavedTable(ui, t) = Rewritten(ui, tabs, c)
  BY <1>1, <1>9, <1>11 DEF Rewritten, UIType
<1>13. PICK u : u = Rewritten(ui, tabs, c)
  OBVIOUS
<1>14. FetchTableRecord(u, t, "commit")
  BY <1>3, <1>12, <1>13
<1>15. /\ c.table = ui.current.table /\ c.saving = ui.current.saving /\ (c.table # t => c = ui.current)
       /\ c.response = ui.current.response
       /\ c.table = t => /\ DraftSound(c.draft) /\ ~c.draft.dirty /\ (~c.response => c.draft.rows = {})
                         /\ c.response => tab.response
  <2>1. c.table = ui.current.table /\ c.saving = ui.current.saving /\ (c.table # t => c = ui.current)
        /\ c.response = ui.current.response
    BY <1>8, <1>10
  <2>2. ASSUME c.table = t
        PROVE  /\ DraftSound(c.draft) /\ ~c.draft.dirty /\ (~c.response => c.draft.rows = {})
               /\ c.response => tab.response
    <3>1. c = d /\ c.draft = f /\ ui.current.table = t /\ t # NoTable
      BY <1>8, <1>10, <2>1, <2>2
    <3>2. ~ui.current.response => f.rows = {}
      BY <1>1, <1>7 DEF CurrentSound
    <3>3. DraftSound(f)
      BY <1>7, <3>2 DEF DraftSound
    <3>4. ui.current.response => ui.tab[t].response
      BY <1>1, <3>1 DEF CurrentSound
    <3>5. QED
      BY <1>6, <1>7, <2>1, <3>1, <3>2, <3>3, <3>4
  <2>3. QED
    BY <2>1, <2>2
<1>16. tabs = [ui.tab EXCEPT ![t] = tab]
  BY DEF tabs
<1>17. /\ UISound(u) /\ SameSQL(ui, u) /\ ShownSound(u)
       /\ SavingShown(ui) => SavingShown(u)
       /\ \A o \in Tables : /\ SameFlags(ui.tab[o], u.tab[o])
                            /\ RowsIn(u, o) = IF o = t THEN {} ELSE RowsIn(ui, o)
  BY <1>1, <1>6, <1>13, <1>15, <1>16, RowsDropped
<1>18. u.tab[t].open
  BY <1>4, <1>17 DEF SameFlags
<1>19. PICK why \in {"open", "save", "commit"} : why = "commit"
  OBVIOUS
<1>20. /\ UISound(ui') /\ SameSQL(u, ui') /\ ShownSound(ui')
       /\ SavingShown(u) => SavingShown(ui')
       /\ \A o \in Tables : RowsIn(ui', o) = RowsIn(u, o) /\ (o # t => ui'.tab[o] = u.tab[o])
       /\ ui'.tab[t].open
  BY <1>14, <1>17, <1>18, <1>19, LoadBegins
<1>21. Done \subseteq Done' /\ RowsIn(u, t) \subseteq Done' /\ RowsIn(ui, t) \subseteq Done'
  BY <1>3, <1>4, <1>17 DEF Done
<1>22. /\ commit' \in CommitType /\ commit'.busy = commit.busy /\ commit'.edits = commit.edits
       /\ commit'.tables = commit.tables /\ commit'.saved = commit.saved /\ commit'.reload = commit.reload \ {t}
  BY <1>2, <1>3 DEF CommitSound, CommitType
<1>23. \A o \in Tables : saves'[o] = saves[o]
  BY <1>3
<1>24. TablesSound' /\ LoadsSound'
  BY <1>3, <1>14, <1>17, <1>18, <1>19, <1>21, <1>22, <1>23, FetchSound
<1>25. UIKept'
  BY <1>1, <1>17, <1>20 DEF UIKept, SameSQL
<1>26. \A s \in SQLs : ui'.sql[s].drafts = ui.sql[s].drafts
  BY <1>17, <1>20 DEF SameSQL
<1>27. \A o \in Tables : RowsIn(ui', o) = IF o = t THEN {} ELSE RowsIn(ui, o)
  BY <1>17, <1>20
<1>28. EditsSound'
  <2>1. /\ saves' \in [Tables -> SUBSET Made] /\ saved' \subseteq Made /\ commit'.edits \subseteq Made
        /\ agreed' \subseteq Made /\ \A s \in SQLs : ui'.sql[s].drafts \cap saved' = {}
    BY <1>2, <1>3, <1>22, <1>26 DEF EditsSound
  <2>2. QED
    BY <1>2, <1>3, <1>23, <1>26, <1>27, <2>1, EditsStay
<1>29. DraftsAreKept'
  BY <1>2, <1>3, <1>21, <1>26, <1>27, DraftsStay
<1>30. CommitSound'
  <2>1. /\ commit.tables \subseteq Tables /\ commit.reload \subseteq commit.saved /\ commit.saved \subseteq commit.tables
    BY <1>2 DEF CommitSound, CommitType
  <2>2. \A o \in commit.tables : ui'.tab[o].open /\ RowsIn(ui', o) \subseteq commit.edits
    <3>1. \A o \in commit.tables : ui.tab[o].open /\ RowsIn(ui, o) \subseteq commit.edits
      BY <1>2 DEF CommitSound
    <3>2. QED
      BY <1>17, <1>20, <1>27, <2>1, <3>1 DEF SameFlags
  <2>3. \A o \in Tables : commit.edits \cap RowsIn(ui', o) # {} => o \in commit.tables
    BY <1>2, <1>27 DEF CommitSound
  <2>4. \A o \in commit'.reload : RowsIn(ui', o) \subseteq saved'
    BY <1>2, <1>3, <1>22, <1>27, <2>1 DEF CommitSound
  <2>5. \A o \in commit.saved : o \in commit'.reload \/ RowsIn(ui', o) = {}
    BY <1>2, <1>22, <1>27, <2>1 DEF CommitSound
  <2>6. \A o \in Tables : RowsIn(ui', o) \cap saved' # {} => o \in commit'.reload
    BY <1>2, <1>3, <1>22, <1>27 DEF CommitSound
  <2>7. QED
    BY <1>3, <1>22, <2>1, <2>2, <2>3, <2>4, <2>5, <2>6 DEF CommitSound
<1>31. QED
  BY <1>24, <1>25, <1>28, <1>29, <1>30 DEF WorkSound

\* One more edit is made, in one table or in results.
LEMMA NewEditKeeps ==
  ASSUME WorkSound, UIKept', UNCHANGED <<loads, saves, commit, agreed, saved>>, ~commit.busy,
         uncounted \subseteq uncounted',
         SavingShown(ui) => SavingShown(ui'), \A o \in Tables : SameFlags(ui.tab[o], ui'.tab[o]),
         NEW c \in Connections, home' = Append(home, c), NEW e, e = Len(home) + 1,
         \A o \in Tables :
           /\ RowsIn(ui, o) \subseteq RowsIn(ui', o) /\ RowsIn(ui', o) \subseteq RowsIn(ui, o) \cup {e}
           /\ e \in RowsIn(ui', o) => c = ConnectionOf[o] /\ ~ui.tab[o].loading /\ ~ui.tab[o].saving,
         \A s \in SQLs : /\ ui.sql[s].drafts \subseteq ui'.sql[s].drafts
                         /\ ui'.sql[s].drafts \subseteq ui.sql[s].drafts \cup {e},
         \A o, p \in Tables : e \in RowsIn(ui', o) /\ e \in RowsIn(ui', p) => o = p,
         \A o \in Tables, s \in SQLs : e \in RowsIn(ui', o) => e \notin ui'.sql[s].drafts,
         (\E o \in Tables : e \in RowsIn(ui', o)) \/ (\E s \in SQLs : e \in ui'.sql[s].drafts) \/ e \in uncounted'
  PROVE  WorkSound'
<1>1. /\ EditsSound /\ TablesSound /\ LoadsApart(loads) /\ (\A l \in loads : LoadSound(l))
      /\ CommitSound /\ DraftsAreKept
  BY DEF WorkSound, LoadsSound
<1>2. home \in Seq(Connections) /\ Len(home) \in Nat
  BY <1>1 DEF EditsSound
<1>3. /\ home' \in Seq(Connections) /\ Len(home') = e /\ e \in Nat /\ e \notin Made
      /\ Made' = Made \cup {e} /\ home'[e] = c /\ \A i \in Made : home'[i] = home[i]
  BY <1>2 DEF Made
<1>4. /\ \A o \in Tables : e \notin RowsIn(ui, o) /\ e \notin saves[o]
      /\ \A s \in SQLs : e \notin ui.sql[s].drafts
      /\ e \notin saved /\ e \notin agreed
  BY <1>1, <1>3 DEF EditsSound
<1>5. EditsSound'
  <2>1. /\ home' \in Seq(Connections) /\ saves' \in [Tables -> SUBSET Made']
        /\ agreed' \subseteq Made' /\ saved' \subseteq Made' /\ commit'.edits \subseteq Made'
    <3>1. saves \in [Tables -> SUBSET Made] /\ agreed \subseteq Made /\ saved \subseteq Made /\ commit.edits \subseteq Made
      BY <1>1 DEF EditsSound
    <3>2. SUBSET Made \subseteq SUBSET Made'
      BY <1>3
    <3>3. saves \in [Tables -> SUBSET Made']
      BY <3>1, <3>2
    <3>4. QED
      BY <1>3, <3>1, <3>3
  <2>2. ASSUME NEW o \in Tables
        PROVE  RowsIn(ui', o) \subseteq Made' /\ \A i \in RowsIn(ui', o) : home'[i] = ConnectionOf[o]
    <3>1. RowsIn(ui, o) \subseteq Made /\ \A i \in RowsIn(ui, o) : home[i] = ConnectionOf[o]
      BY <1>1 DEF EditsSound
    <3>2. RowsIn(ui', o) \subseteq RowsIn(ui, o) \cup {e} /\ (e \in RowsIn(ui', o) => c = ConnectionOf[o])
      OBVIOUS
    <3>3. QED
      BY <1>3, <3>1, <3>2
  <2>3. ASSUME NEW o \in Tables, NEW p \in Tables, o # p
        PROVE  RowsIn(ui', o) \cap (RowsIn(ui', p) \cup saves'[p]) = {}
    <3>1. RowsIn(ui, o) \cap (RowsIn(ui, p) \cup saves[p]) = {}
      BY <1>1, <2>3 DEF EditsSound, Apart
    <3>2. RowsIn(ui', o) \subseteq RowsIn(ui, o) \cup {e} /\ RowsIn(ui', p) \subseteq RowsIn(ui, p) \cup {e}
      OBVIOUS
    <3>3. e \in RowsIn(ui', o) => e \notin RowsIn(ui', p)
      BY <2>3
    <3>4. e \notin RowsIn(ui, o) /\ e \notin RowsIn(ui, p) /\ e \notin saves[p] /\ saves'[p] = saves[p]
      BY <1>4
    <3>5. QED
      BY ONLY <3>1, <3>2, <3>3, <3>4
  <2>4. ASSUME NEW s \in SQLs
        PROVE  /\ ui'.sql[s].drafts \subseteq Made' /\ ui'.sql[s].drafts \cap saved' = {}
               /\ \A o \in Tables : ui'.sql[s].drafts \cap (RowsIn(ui', o) \cup saves'[o]) = {}
    <3>1. /\ ui.sql[s].drafts \subseteq Made /\ ui.sql[s].drafts \cap saved = {}
          /\ \A o \in Tables : ui.sql[s].drafts \cap (RowsIn(ui, o) \cup saves[o]) = {}
      BY <1>1 DEF EditsSound
    <3>2. ui'.sql[s].drafts \subseteq ui.sql[s].drafts \cup {e}
      OBVIOUS
    <3>3. ASSUME NEW o \in Tables PROVE ui'.sql[s].drafts \cap (RowsIn(ui', o) \cup saves'[o]) = {}
      <4>1. RowsIn(ui', o) \subseteq RowsIn(ui, o) \cup {e} /\ (e \in RowsIn(ui', o) => e \notin ui'.sql[s].drafts)
        OBVIOUS
      <4>2. e \notin saves[o] /\ saves'[o] = saves[o] /\ e \notin RowsIn(ui, o) /\ e \notin ui.sql[s].drafts
        BY <1>4
      <4>3. ui.sql[s].drafts \cap (RowsIn(ui, o) \cup saves[o]) = {}
        BY <3>1
      <4>4. QED
        BY ONLY <3>2, <4>1, <4>2, <4>3
    <3>4. QED
      BY <1>3, <1>4, <3>1, <3>2, <3>3
  <2>5. Apart'
    BY <2>3 DEF Apart
  <2>6. QED
    BY <2>1, <2>2, <2>4, <2>5 DEF EditsSound
<1>6. ASSUME NEW o \in Tables PROVE TableSound(o)'
  <2>1. TableSound(o)
    BY <1>1 DEF TablesSound
  <2>2. CASE e \in RowsIn(ui', o)
    <3>1. ~ui.tab[o].loading /\ ~ui.tab[o].saving /\ SameFlags(ui.tab[o], ui'.tab[o])
      BY <2>2
    <3>2. saves'[o] = {}
      BY <2>1, <3>1 DEF TableSound
    <3>3. QED
      BY <3>1, <3>2 DEF TableSound, SameFlags
  <2>3. CASE e \notin RowsIn(ui', o)
    <3>1. RowsIn(ui', o) \subseteq RowsIn(ui, o) /\ SameFlags(ui.tab[o], ui'.tab[o]) /\ Done \subseteq Done'
      BY <2>3 DEF Done
    <3>2. QED
      BY <2>1, <3>1, TableStays
  <2>4. QED
    BY <2>2, <2>3
<1>7. ASSUME NEW l \in loads' PROVE LoadSound(l)'
  <2>1. l \in loads /\ l.table \in Tables /\ LoadSound(l)
    BY <1>1 DEF LoadsApart, LoadType
  <2>2. SameFlags(ui.tab[l.table], ui'.tab[l.table]) /\ saves' = saves /\ commit' = commit
    BY <2>1
  <2>3. QED
    BY <2>1, <2>2, LoadStays
<1>8. CommitSound'
  <2>1. commit = NoCommit /\ commit \in CommitType /\ SavingShown(ui')
    BY <1>1 DEF CommitSound
  <2>2. ASSUME NEW o \in Tables PROVE RowsIn(ui', o) \cap saved = {}
    <3>1. RowsIn(ui, o) \cap saved = {}
      BY <1>1, <2>1 DEF CommitSound, NoCommit
    <3>2. RowsIn(ui', o) \subseteq RowsIn(ui, o) \cup {e}
      OBVIOUS
    <3>3. QED
      BY <1>4, <3>1, <3>2
  <2>3. QED
    BY <2>1, <2>2 DEF CommitSound, NoCommit
<1>9. DraftsAreKept'
  <2> SUFFICES ASSUME NEW i \in 1..Len(home') PROVE i \in Pending' \cup Done'
    BY DEF DraftsAreKept, Done
  <2>1. /\ \A o \in Tables : RowsIn(ui', o) \subseteq Pending'
        /\ \A s \in SQLs : ui'.sql[s].drafts \subseteq Pending'
    BY DEF Pending, PendingRows
  <2>2. CASE i = e
    BY <2>1, <2>2 DEF Done
  <2>3. CASE i \in 1..Len(home)
    <3>1. i \in Pending \cup Done
      BY <1>1, <2>3 DEF DraftsAreKept, Done
    <3>2. i \in Pending => (\E o \in Tables : i \in RowsIn(ui, o)) \/ (\E s \in SQLs : i \in ui.sql[s].drafts)
      BY DEF Pending, PendingRows
    <3>3. Done \subseteq Done'
      BY DEF Done
    <3>4. (\E o \in Tables : i \in RowsIn(ui, o)) => i \in Pending'
      BY <2>1
    <3>5. (\E s \in SQLs : i \in ui.sql[s].drafts) => i \in Pending'
      BY <2>1
    <3>6. QED
      BY <3>1, <3>2, <3>3, <3>4, <3>5
  <2>4. QED
    BY <1>3, <2>2, <2>3 DEF Made
<1>10. QED
  BY <1>1, <1>5, <1>6, <1>7, <1>8, <1>9 DEF WorkSound, TablesSound, LoadsSound

LEMMA EditKeeps ==
  ASSUME WorkSound, NEW t \in Tables, EditRows(t)
  PROVE  WorkSound'
<1> DEFINE counted == ui.current.draft.original
           a == [ui.tab[t].draft EXCEPT !.dirty = @ \/ counted]
           tab == [ui.tab[t] EXCEPT !.draft = a]
           tabs == [ui.tab EXCEPT ![t] = tab]
<1>1. /\ UISound(ui) /\ ShownSound(ui) /\ UIKept /\ ui.activeSQL \in ToSet(ui.order) /\ ui \in UIType
      /\ ui.tab \in TabsType /\ ui.tab[t] \in TabType /\ ui.current \in CurrentType /\ TabSound(ui.tab[t])
      /\ CurrentSound(ui.current, ui.tab) /\ \A o \in Tables : TabSound(ui.tab[o])
  BY DEF WorkSound, UIKept, UISound, UIType, TabsType, TabsSound
<1>2. PICK e \in Edits : e = Len(home) + 1
  BY DEF EditRows
<1>3. /\ Shown(t) /\ ui.current.response /\ ~commit.busy /\ ~ui.tab[t].saving /\ ~ui.tab[t].loading
      /\ home' = Append(home, ConnectionOf[t])
      /\ uncounted' = IF counted THEN uncounted ELSE uncounted \union {e}
      /\ ui' = [ui EXCEPT !.current.draft.rows = @ \union {e}, !.current.draft.dirty = @ \/ counted,
                         !.tab[t].draft.dirty = @ \/ counted]
      /\ UNCHANGED <<loads, saves, commit, agreed, saved>>
  BY <1>2 DEF EditRows, Busy
<1>4. /\ ui.current.table = t /\ ui.tab[t].open /\ RowsIn(ui, t) = GridRows(ui)
      /\ ui.tab[t].response = ui.current.response
  BY <1>1, <1>3, ShownRows
<1> DEFINE b == [ui.current.draft EXCEPT !.rows = @ \cup {e}, !.dirty = @ \/ counted]
           d == [ui.current EXCEPT !.draft = b]
<1>5. /\ a \in DraftType /\ a.dirty = (ui.tab[t].draft.dirty \/ counted) /\ a.original = ui.tab[t].draft.original /\ a.rows = ui.tab[t].draft.rows
      /\ a.kept = ui.tab[t].draft.kept
  BY <1>1 DEF TabType, DraftType
<1>6. /\ b \in DraftType /\ b.rows = ui.current.draft.rows \cup {e} /\ b.original = counted
      /\ b.dirty = (ui.current.draft.dirty \/ counted)
  BY <1>1, <1>3 DEF CurrentType, DraftType
<1> HIDE DEF a
<1>7. tab \in TabType /\ tab.draft = a /\ SameFlags(ui.tab[t], tab) /\ tab.open /\ tab.response
  BY <1>1, <1>3, <1>4, <1>5 DEF TabType, SameFlags
<1>8. /\ d \in CurrentType /\ d.table = t /\ d.response /\ d.saving = ui.current.saving /\ d.draft = b
  <2> HIDE DEF b
  <2>1. QED
    BY <1>1, <1>3, <1>4, <1>6 DEF CurrentType
<1>9. ui' = Rewritten(ui, tabs, d)
  <2> DEFINE x == [ui EXCEPT !.current.draft.rows = @ \union {e}, !.current.draft.dirty = @ \/ counted]
  <2>1. x = [ui EXCEPT !.current = d]
    BY <1>1 DEF UIType, CurrentType
  <2>2. x.tab = ui.tab
    BY <1>1 DEF UIType
  <2>3. ui' = [x EXCEPT !.tab[t].draft.dirty = @ \/ counted]
    BY <1>3
  <2> HIDE DEF x
  <2>4. [x EXCEPT !.tab[t].draft.dirty = @ \/ counted] = [x EXCEPT !.tab = tabs]
    BY <2>2 DEF a
  <2> HIDE DEF tab, d, b, tabs
  <2>5. QED
    BY <1>1, <2>1, <2>3, <2>4 DEF Rewritten, UIType
<1> HIDE DEF tab, d, b
<1>10. tabs \in TabsType /\ \A o \in Tables : tabs[o] = IF o = t THEN tab ELSE ui.tab[o]
  BY <1>1, <1>7 DEF TabsType
<1> HIDE DEF tabs
<1>11. /\ ui.tab[t].draft.rows \subseteq ui.current.draft.rows
       /\ counted => ui.tab[t].draft.original
       /\ ui.tab[t].draft.dirty => ui.current.draft.dirty
       /\ DraftSound(ui.current.draft) /\ DraftSound(ui.tab[t].draft)
  BY <1>1, <1>3, <1>4 DEF CurrentSound, TabSound
<1>12. \A o \in Tables : TabSound(tabs[o]) /\ (ui.tab[o].open => tabs[o].open)
  <2>1. TabSound(tab)
    BY <1>1, <1>5, <1>7, <1>11 DEF TabSound, DraftSound
  <2>2. QED
    BY <1>1, <1>7, <1>10, <2>1
<1>13. CurrentSound(d, tabs)
  <2>1. tabs[d.table] = tab /\ t # NoTable
    BY <1>8, <1>10
  <2>2. DraftSound(b)
    BY <1>6, <1>11 DEF DraftSound
  <2>3. /\ tab.draft.rows \subseteq d.draft.rows /\ (d.draft.original => tab.draft.original)
        /\ tab.draft.dirty => d.draft.dirty
    BY <1>5, <1>6, <1>7, <1>8, <1>11
  <2>4. QED
    BY <1>6, <1>7, <1>8, <2>1, <2>2, <2>3 DEF CurrentSound
<1>14. /\ UISound(ui') /\ SameSQL(ui, ui') /\ ui'.tab = tabs /\ ui'.current = d
       /\ ui'.bottom = ui.bottom /\ ui'.active = ui.active
       /\ \A o \in Tables : RowsIn(ui', o) = IF d.response /\ o = d.table THEN GridRows(ui') ELSE TabRows(ui', o)
  BY <1>1, <1>8, <1>9, <1>10, <1>12, <1>13, GridWritten
<1>15. \A o \in Tables : SameFlags(ui.tab[o], ui'.tab[o])
  BY <1>7, <1>10, <1>14 DEF SameFlags
<1>16. UIKept'
  <2>1. ShownSound(ui')
    BY <1>1, <1>4, <1>8, <1>14 DEF ShownSound
  <2>2. QED
    BY <1>1, <1>14, <2>1 DEF UIKept, SameSQL
<1>17. SavingShown(ui) => SavingShown(ui')
  BY <1>4, <1>8, <1>14, <1>15 DEF SavingShown, SameFlags
<1>18. ASSUME NEW o \in Tables
       PROVE  /\ RowsIn(ui, o) \subseteq RowsIn(ui', o) /\ RowsIn(ui', o) \subseteq RowsIn(ui, o) \cup {e}
              /\ o # t => RowsIn(ui', o) = RowsIn(ui, o)
              /\ counted => e \in RowsIn(ui', t)
  <2>1. RowsIn(ui', t) = IF b.dirty THEN b.rows ELSE {}
    BY <1>8, <1>14 DEF GridRows
  <2>2. RowsIn(ui, t) = IF ui.current.draft.dirty THEN ui.current.draft.rows ELSE {}
    BY <1>4 DEF GridRows
  <2>5. counted /\ ~ui.current.draft.dirty => ui.current.draft.rows = {}
    BY <1>11 DEF DraftSound
  <2>3. o # t => RowsIn(ui', o) = RowsIn(ui, o)
    <3>1. RowsIn(ui, o) = IF ui.current.response /\ o = ui.current.table THEN GridRows(ui) ELSE TabRows(ui, o)
      BY <1>1, RowsShape
    <3>2. o # t => TabRows(ui', o) = TabRows(ui, o)
      BY <1>10, <1>14 DEF TabRows, IsOpen
    <3>3. QED
      BY <1>4, <1>8, <1>14, <3>1, <3>2
  <2>4. QED
    BY <1>6, <2>1, <2>2, <2>3, <2>5
<1>19. /\ \A o \in Tables : e \notin RowsIn(ui, o)
       /\ \A s \in SQLs : ui'.sql[s].drafts = ui.sql[s].drafts /\ e \notin ui'.sql[s].drafts
  <2>1. Len(home) \in Nat /\ e \notin Made
    BY <1>2 DEF WorkSound, EditsSound, Made
  <2>2. QED
    BY <1>14, <2>1 DEF SameSQL, WorkSound, EditsSound
<1>20. \A o \in Tables : e \in RowsIn(ui', o) => o = t
  BY <1>18, <1>19
<1>21. PICK c \in Connections : c = ConnectionOf[t]
  OBVIOUS
<1>22. home' = Append(home, c)
  BY <1>3, <1>21
<1>23. \A o \in Tables : /\ RowsIn(ui, o) \subseteq RowsIn(ui', o) /\ RowsIn(ui', o) \subseteq RowsIn(ui, o) \cup {e}
                         /\ e \in RowsIn(ui', o) => c = ConnectionOf[o] /\ ~ui.tab[o].loading /\ ~ui.tab[o].saving
  BY <1>3, <1>18, <1>20, <1>21
<1>24. (\E o \in Tables : e \in RowsIn(ui', o)) \/ e \in uncounted'
  BY <1>3, <1>18
<1>25. \A s \in SQLs : /\ ui.sql[s].drafts \subseteq ui'.sql[s].drafts
                       /\ ui'.sql[s].drafts \subseteq ui.sql[s].drafts \cup {e}
  BY <1>19
<1>26. \A o \in Tables, s \in SQLs : e \in RowsIn(ui', o) => e \notin ui'.sql[s].drafts
  BY <1>19
<1>27. \A o, p \in Tables : e \in RowsIn(ui', o) /\ e \in RowsIn(ui', p) => o = p
  BY <1>20
<1>28. UNCHANGED <<loads, saves, commit, agreed, saved>> /\ ~commit.busy /\ uncounted \subseteq uncounted'
  BY <1>3
<1>29. QED
  BY <1>2, <1>15, <1>16, <1>17, <1>22, <1>23, <1>24, <1>25, <1>26, <1>27, <1>28, NewEditKeeps

LEMMA StageKeeps ==
  ASSUME WorkSound, NEW s \in SQLs, NEW c \in Connections, StageQueryRow(s, c)
  PROVE  WorkSound'
<1>1. /\ UISound(ui) /\ ShownSound(ui) /\ ui.activeSQL \in ToSet(ui.order) /\ ui \in UIType
      /\ ui.sql \in [SQLs -> SessionType]
  BY DEF WorkSound, UIKept, UISound, UIType
<1>2. PICK e \in Edits : e = Len(home) + 1
  BY DEF StageQueryRow
<1>3. /\ ~commit.busy /\ home' = Append(home, c)
      /\ ui' = [ui EXCEPT !.sql[s].drafts = @ \union {e}]
      /\ UNCHANGED <<loads, saves, commit, uncounted, agreed, saved>>
  BY <1>2 DEF StageQueryRow
<1> DEFINE x == [ui.sql[s] EXCEPT !.drafts = @ \cup {e}]
           q == [ui.sql EXCEPT ![s] = x]
           v == [ui EXCEPT !.sql = q]
<1>4. x \in SessionType /\ x.drafts = ui.sql[s].drafts \cup {e}
  BY <1>1 DEF SessionType
<1>5. ui' = v
  BY <1>1, <1>3 DEF UIType
<1> HIDE DEF x
<1>6. q \in [SQLs -> SessionType] /\ \A o \in SQLs : q[o].drafts = IF o = s THEN ui.sql[s].drafts \cup {e} ELSE ui.sql[o].drafts
  BY <1>1, <1>4
<1> HIDE DEF q
<1>7. /\ UISound(v) /\ SameRows(ui, v) /\ v.sql = q /\ v.order = ui.order /\ v.activeSQL = ui.activeSQL
      /\ ShownSound(ui) => ShownSound(v)
      /\ SavingShown(ui) => SavingShown(v)
  BY <1>1, <1>6, SQLWritten
<1> HIDE DEF v
<1>8. UIKept'
  BY <1>1, <1>5, <1>7 DEF UIKept
<1>9. \A o \in Tables : SameFlags(ui.tab[o], ui'.tab[o]) /\ RowsIn(ui', o) = RowsIn(ui, o)
  BY <1>5, <1>7 DEF SameRows
<1>10. \A o \in Tables : e \notin RowsIn(ui', o)
  <2>1. Len(home) \in Nat /\ e \notin Made
    BY <1>2 DEF WorkSound, EditsSound, Made
  <2>2. QED
    BY <1>9, <2>1 DEF WorkSound, EditsSound
<1>11. \A o \in SQLs : /\ ui.sql[o].drafts \subseteq ui'.sql[o].drafts
                       /\ ui'.sql[o].drafts \subseteq ui.sql[o].drafts \cup {e}
                       /\ e \in ui'.sql[s].drafts
  BY <1>5, <1>6, <1>7
<1>12. SavingShown(ui) => SavingShown(ui')
  BY <1>5, <1>7
<1>13. QED
  BY <1>2, <1>3, <1>8, <1>9, <1>10, <1>11, <1>12, NewEditKeeps

\* What the tabs and the grid hold stays when they start or cease to save.
LEMMA FlagsWritten ==
  ASSUME NEW u, UISound(u), NEW tabs \in TabsType, NEW c \in CurrentType,
         \A o \in Tables : /\ tabs[o].open = u.tab[o].open /\ tabs[o].draft = u.tab[o].draft
                           /\ tabs[o].response = u.tab[o].response /\ (tabs[o].open \/ tabs[o] = u.tab[o]),
         c.table = u.current.table, c.response = u.current.response, c.draft = u.current.draft
  PROVE  LET v == Rewritten(u, tabs, c)
         IN  /\ UISound(v) /\ SameSQL(u, v) /\ v.tab = tabs /\ v.current = c
             /\ \A o \in Tables : RowsIn(v, o) = RowsIn(u, o)
             /\ ShownSound(u) => ShownSound(v)
<1> DEFINE v == Rewritten(u, tabs, c)
<1>1. u.current \in CurrentType /\ CurrentSound(u.current, u.tab) /\ \A o \in Tables : TabSound(u.tab[o])
  BY DEF UISound, UIType, TabsSound
<1>2. ASSUME NEW o \in Tables PROVE TabSound(tabs[o])
  <2>1. TabSound(u.tab[o])
    BY <1>1
  <2>2. CASE tabs[o] = u.tab[o]
    BY <2>1, <2>2
  <2>3. CASE tabs[o].open
    BY <2>1, <2>3 DEF TabSound
  <2>4. QED
    BY <2>2, <2>3
<1>3. CurrentSound(c, tabs)
  BY <1>1 DEF CurrentSound, CurrentType
<1>4. \A o \in Tables : TabSound(tabs[o]) /\ (u.tab[o].open => tabs[o].open)
  BY <1>2
<1>5. /\ UISound(v) /\ SameSQL(u, v) /\ v.tab = tabs /\ v.current = c
      /\ v.bottom = u.bottom /\ v.active = u.active
      /\ \A o \in Tables : RowsIn(v, o) = IF c.response /\ o = c.table THEN GridRows(v) ELSE TabRows(v, o)
  BY <1>3, <1>4, GridWritten
<1> HIDE DEF v
<1>6. ASSUME NEW o \in Tables PROVE RowsIn(v, o) = RowsIn(u, o)
  <2>1. RowsIn(u, o) = IF u.current.response /\ o = u.current.table THEN GridRows(u) ELSE TabRows(u, o)
    BY RowsShape
  <2>2. GridRows(v) = GridRows(u)
    BY <1>5 DEF GridRows
  <2>3. TabRows(v, o) = TabRows(u, o)
    BY <1>5 DEF TabRows, IsOpen
  <2>4. QED
    BY <1>5, <2>1, <2>2, <2>3
<1>7. ShownSound(u) => ShownSound(v)
  BY <1>5 DEF ShownSound
<1>8. QED
  BY <1>5, <1>6, <1>7 DEF v

\* A step in which tabs only start or cease to save.
LEMMA SavingStep ==
  ASSUME WorkSound, UISound(ui'), ShownSound(ui'), ui'.order = ui.order, ui'.activeSQL = ui.activeSQL,
         \A s \in SQLs : ui'.sql[s].drafts = ui.sql[s].drafts,
         \A o \in Tables :
           /\ ui'.tab[o].open = ui.tab[o].open /\ ui'.tab[o].loading = ui.tab[o].loading
           /\ ui'.tab[o].nonce = ui.tab[o].nonce /\ ui'.tab[o].progress = ui.tab[o].progress
           /\ RowsIn(ui', o) = RowsIn(ui, o),
         UNCHANGED <<loads, home, uncounted, agreed, saved>>, saves' \in [Tables -> SUBSET Made],
         commit'.edits \subseteq Made,
         \A o \in Tables : saves'[o] \subseteq saves[o] \cup RowsIn(ui, o),
         \A o \in Tables : saves'[o] # {} => ui'.tab[o].saving /\ RowsIn(ui, o) \subseteq saves'[o] /\ ~commit'.busy,
         \A l \in loads : l.why = "save" => ui'.tab[l.table].saving /\ saves'[l.table] = {} /\ ~commit'.busy,
         CommitSound'
  PROVE  WorkSound'
<1>1. /\ EditsSound /\ TablesSound /\ LoadsApart(loads) /\ (\A l \in loads : LoadSound(l)) /\ DraftsAreKept
      /\ ui.activeSQL \in ToSet(ui.order)
  BY DEF WorkSound, UIKept, LoadsSound
<1>2. EditsSound'
  <2>1. agreed' \subseteq Made /\ saved' \subseteq Made /\ \A s \in SQLs : ui'.sql[s].drafts \cap saved' = {}
    BY <1>1 DEF EditsSound
  <2>2. QED
    BY <1>1, <2>1, EditsStay
<1>3. Done' = Done
  BY DEF Done
<1>4. DraftsAreKept'
  BY <1>1, <1>3, DraftsStay
<1>5. ASSUME NEW o \in Tables PROVE TableSound(o)'
  <2>1. ui'.tab[o].loading => ui'.tab[o].progress = ui'.tab[o].nonce /\ RowsIn(ui', o) \subseteq Done'
    BY <1>1, <1>3 DEF TablesSound, TableSound
  <2>2. /\ saves'[o] # {} => ui'.tab[o].saving /\ RowsIn(ui', o) \subseteq saves'[o]
        /\ commit'.busy => saves'[o] = {}
    OBVIOUS
  <2>3. QED
    BY <2>1, <2>2 DEF TableSound
<1>6. ASSUME NEW l \in loads' PROVE LoadSound(l)'
  <2>1. l \in loads /\ l.table \in Tables /\ LoadSound(l)
    BY <1>1 DEF LoadsApart, LoadType
  <2>2. QED
    BY <2>1 DEF LoadSound
<1>7. UIKept'
  BY <1>1 DEF UIKept
<1>8. QED
  BY <1>1, <1>2, <1>4, <1>5, <1>6, <1>7 DEF WorkSound, TablesSound, LoadsSound

LEMMA SaveKeeps ==
  ASSUME WorkSound, NEW t \in Tables, SaveRows(t)
  PROVE  WorkSound'
<1>1. /\ UISound(ui) /\ ShownSound(ui) /\ UIKept /\ EditsSound /\ CommitSound /\ TableSound(t)
      /\ LoadsApart(loads) /\ \A l \in loads : LoadSound(l)
  BY DEF WorkSound, UIKept, TablesSound, LoadsSound
<1>2. PICK u : u = CaptureTableState(ui)
  OBVIOUS
<1>3. /\ Shown(t) /\ ~ui.current.saving /\ ~commit.busy
      /\ ui.current.response /\ ui.current.draft.original /\ ui.current.draft.rows # {}
      /\ saves' = [saves EXCEPT ![t] = ui.current.draft.rows]
      /\ ui' = [u EXCEPT !.tab[t].saving = TRUE, !.current.saving = TRUE]
      /\ UNCHANGED <<loads, commit, home, uncounted, agreed, saved>>
  BY <1>2 DEF SaveRows
<1>4. ui.current.table = t /\ ui.tab[t].open /\ RowsIn(ui, t) = GridRows(ui)
  BY <1>1, <1>3, ShownRows
<1>5. ui.current.draft.rows = RowsIn(ui, t)
  BY <1>1, <1>3, <1>4 DEF GridRows, UISound, TabsSound, CurrentSound, DraftSound
<1>6. ~ui.tab[t].saving /\ commit = NoCommit
  BY <1>1, <1>3, <1>4 DEF CommitSound, SavingShown
<1>7. /\ UISound(u) /\ SameSQL(ui, u) /\ u.current = ui.current /\ ShownSound(u)
      /\ \A o \in Tables : SameFlags(ui.tab[o], u.tab[o]) /\ RowsIn(u, o) = RowsIn(ui, o)
  BY <1>1, <1>2, CaptureFields, CaptureKeeps
<1> DEFINE tab == [u.tab[t] EXCEPT !.saving = TRUE]
           tabs == [u.tab EXCEPT ![t] = tab]
           d == [u.current EXCEPT !.saving = TRUE]
<1>8. u \in UIType /\ u.tab \in TabsType /\ u.tab[t] \in TabType /\ u.current \in CurrentType
  BY <1>7 DEF UISound, UIType, TabsType
<1>9. /\ tab \in TabType /\ tab.open = u.tab[t].open /\ tab.draft = u.tab[t].draft /\ tab.response = u.tab[t].response
      /\ tab.saving /\ tab.loading = u.tab[t].loading /\ tab.nonce = u.tab[t].nonce /\ tab.progress = u.tab[t].progress
  BY <1>8 DEF TabType
<1>10. d \in CurrentType /\ d.table = u.current.table /\ d.response = u.current.response
       /\ d.draft = u.current.draft /\ d.saving
  BY <1>8 DEF CurrentType
<1>11. ui' = Rewritten(u, tabs, d)
  BY <1>3, <1>8 DEF Rewritten, UIType
<1> HIDE DEF tab, d
<1>12. tabs \in TabsType /\ \A o \in Tables : tabs[o] = IF o = t THEN tab ELSE u.tab[o]
  BY <1>8, <1>9 DEF TabsType
<1> HIDE DEF tabs
<1>13. u.tab[t].open
  BY <1>4, <1>7 DEF SameFlags
<1>14. \A o \in Tables : /\ tabs[o].open = u.tab[o].open /\ tabs[o].draft = u.tab[o].draft
                         /\ tabs[o].response = u.tab[o].response /\ (tabs[o].open \/ tabs[o] = u.tab[o])
  BY <1>9, <1>12, <1>13
<1>15. /\ UISound(ui') /\ SameSQL(u, ui') /\ ui'.tab = tabs /\ ui'.current = d
       /\ \A o \in Tables : RowsIn(ui', o) = RowsIn(u, o)
       /\ ShownSound(ui')
  BY <1>7, <1>10, <1>11, <1>12, <1>14, FlagsWritten
<1>16. /\ ui'.order = ui.order /\ ui'.activeSQL = ui.activeSQL
       /\ \A s \in SQLs : ui'.sql[s].drafts = ui.sql[s].drafts
  BY <1>7, <1>15 DEF SameSQL
<1>17. ASSUME NEW o \in Tables
       PROVE  /\ ui'.tab[o].open = ui.tab[o].open /\ ui'.tab[o].loading = ui.tab[o].loading
              /\ ui'.tab[o].nonce = ui.tab[o].nonce /\ ui'.tab[o].progress = ui.tab[o].progress
              /\ RowsIn(ui', o) = RowsIn(ui, o)
              /\ ui'.tab[o].saving = (o = t \/ ui.tab[o].saving)
  <2>1. SameFlags(ui.tab[o], u.tab[o]) /\ RowsIn(u, o) = RowsIn(ui, o) /\ RowsIn(ui', o) = RowsIn(u, o)
    BY <1>7, <1>15
  <2>2. ui.tab[o].saving \in BOOLEAN
    BY <1>1 DEF UISound, UIType, TabsType, TabType
  <2>3. CASE o = t
    BY <1>9, <1>12, <1>15, <2>1, <2>3 DEF SameFlags
  <2>4. CASE o # t
    BY <1>12, <1>15, <2>1, <2>2, <2>4 DEF SameFlags
  <2>5. QED
    BY <2>3, <2>4
<1>18. /\ saves' \in [Tables -> SUBSET Made] /\ commit'.edits \subseteq Made
       /\ \A o \in Tables : saves'[o] = IF o = t THEN RowsIn(ui, t) ELSE saves[o]
  <2>1. saves \in [Tables -> SUBSET Made] /\ RowsIn(ui, t) \in SUBSET Made /\ commit.edits \subseteq Made
    BY <1>1 DEF EditsSound
  <2>2. QED
    BY <1>3, <1>5, <2>1
<1>19. ASSUME NEW o \in Tables, saves'[o] # {}
       PROVE  ui'.tab[o].saving /\ RowsIn(ui, o) \subseteq saves'[o] /\ ~commit'.busy
  <2>1. TableSound(o)
    BY DEF WorkSound, TablesSound
  <2>2. ~commit'.busy
    BY <1>3
  <2>3. CASE o = t
    BY <1>17, <1>18, <2>2, <2>3
  <2>4. CASE o # t
    <3>1. saves[o] # {} /\ saves'[o] = saves[o]
      BY <1>18, <1>19, <2>4
    <3>2. ui.tab[o].saving /\ RowsIn(ui, o) \subseteq saves[o]
      BY <2>1, <3>1 DEF TableSound
    <3>3. QED
      BY <1>17, <2>2, <3>1, <3>2
  <2>5. QED
    BY <2>3, <2>4
<1>20. ASSUME NEW l \in loads, l.why = "save"
       PROVE  ui'.tab[l.table].saving /\ saves'[l.table] = {} /\ ~commit'.busy
  <2>1. l.table \in Tables /\ ui.tab[l.table].saving /\ saves[l.table] = {}
    BY <1>1, <1>20 DEF LoadsApart, LoadType, LoadSound
  <2>2. l.table # t
    BY <1>6, <2>1
  <2>3. ui'.tab[l.table].saving /\ saves'[l.table] = {}
    BY <1>17, <1>18, <2>1, <2>2
  <2>4. QED
    BY <1>3, <2>3
<1>21. CommitSound'
  <2>1. SavingShown(ui')
    BY <1>10, <1>15 DEF SavingShown
  <2>2. \A o \in commit.tables : ui'.tab[o].open
    BY <1>6 DEF NoCommit
  <2>3. QED
    BY <1>1, <1>3, <1>17, <2>1, <2>2, CommitStays
<1>22. \A o \in Tables : saves'[o] \subseteq saves[o] \cup RowsIn(ui, o)
  BY <1>18
<1>23. QED
  BY <1>3, <1>15, <1>16, <1>17, <1>18, <1>19, <1>20, <1>21, <1>22, SavingStep

LEMMA SaveEndedKeeps ==
  ASSUME NEW u, UISound(u), NEW t \in Tables, u.tab[t].open
  PROVE  LET v == SaveEnded(u, t)
         IN  /\ UISound(v) /\ SameSQL(u, v)
             /\ ShownSound(u) => ShownSound(v)
             /\ SavingShown(u) => SavingShown(v)
             /\ v.current.table = u.current.table /\ v.active = u.active
             /\ \A o \in Tables :
                  /\ v.tab[o].open = u.tab[o].open /\ v.tab[o].loading = u.tab[o].loading
                  /\ v.tab[o].nonce = u.tab[o].nonce /\ v.tab[o].progress = u.tab[o].progress
                  /\ RowsIn(v, o) = RowsIn(u, o)
                  /\ o # t => v.tab[o].saving = u.tab[o].saving
             /\ ~v.tab[t].saving
<1> DEFINE tab == [u.tab[t] EXCEPT !.saving = FALSE]
           tabs == [u.tab EXCEPT ![t] = tab]
           d == [u.current EXCEPT !.saving = IF u.current.table = t THEN FALSE ELSE @]
           v == SaveEnded(u, t)
<1>1. u \in UIType /\ u.tab \in TabsType /\ u.tab[t] \in TabType /\ u.current \in CurrentType
  BY DEF UISound, UIType, TabsType
<1>2. /\ tab \in TabType /\ tab.open = u.tab[t].open /\ tab.draft = u.tab[t].draft /\ tab.response = u.tab[t].response
      /\ ~tab.saving /\ tab.loading = u.tab[t].loading /\ tab.nonce = u.tab[t].nonce /\ tab.progress = u.tab[t].progress
  BY <1>1 DEF TabType
<1>3. d \in CurrentType /\ d.table = u.current.table /\ d.response = u.current.response
      /\ d.draft = u.current.draft /\ d.saving = (u.current.table # t /\ u.current.saving)
  BY <1>1 DEF CurrentType
<1>4. v = Rewritten(u, tabs, d)
  BY <1>1 DEF Rewritten, UIType, SaveEnded
<1> HIDE DEF tab, d
<1>5. tabs \in TabsType /\ \A o \in Tables : tabs[o] = IF o = t THEN tab ELSE u.tab[o]
  BY <1>1, <1>2 DEF TabsType
<1> HIDE DEF tabs, v
<1>6. \A o \in Tables : /\ tabs[o].open = u.tab[o].open /\ tabs[o].draft = u.tab[o].draft
                        /\ tabs[o].response = u.tab[o].response /\ (tabs[o].open \/ tabs[o] = u.tab[o])
  BY <1>2, <1>5
<1>7. /\ UISound(v) /\ SameSQL(u, v) /\ v.tab = tabs /\ v.current = d
      /\ \A o \in Tables : RowsIn(v, o) = RowsIn(u, o)
      /\ ShownSound(u) => ShownSound(v)
  BY <1>3, <1>4, <1>5, <1>6, FlagsWritten
<1>8. v.active = u.active
  BY <1>1, <1>4 DEF Rewritten, UIType
<1>9. ASSUME NEW o \in Tables
      PROVE  /\ v.tab[o].open = u.tab[o].open /\ v.tab[o].loading = u.tab[o].loading
             /\ v.tab[o].nonce = u.tab[o].nonce /\ v.tab[o].progress = u.tab[o].progress
             /\ RowsIn(v, o) = RowsIn(u, o)
             /\ o # t => v.tab[o].saving = u.tab[o].saving
  <2>1. CASE o = t
    BY <1>2, <1>5, <1>7, <2>1
  <2>2. CASE o # t
    BY <1>5, <1>7, <2>2
  <2>3. QED
    BY <2>1, <2>2
<1>10. ~v.tab[t].saving
  BY <1>2, <1>5, <1>7
<1>11. SavingShown(u) => SavingShown(v)
  <2>1. SUFFICES ASSUME SavingShown(u), v.current.table # NoTable, v.tab[v.current.table].saving PROVE v.current.saving
    BY DEF SavingShown
  <2>2. v.current.table = u.current.table /\ u.current.table \in Tables /\ u.current.table # t
    BY <1>1, <1>3, <1>7, <1>10, <2>1 DEF CurrentType
  <2>3. u.current.saving
    BY <1>9, <2>1, <2>2 DEF SavingShown
  <2>4. QED
    BY <1>3, <1>7, <2>2, <2>3
<1>12. QED
  BY <1>3, <1>7, <1>8, <1>9, <1>10, <1>11 DEF v

LEMMA RowsRefusedKeeps ==
  ASSUME WorkSound, NEW t \in Tables, RowsRefused(t)
  PROVE  WorkSound'
<1>1. /\ UISound(ui) /\ ShownSound(ui) /\ EditsSound /\ CommitSound /\ TableSound(t)
      /\ TabSound(ui.tab[t]) /\ LoadsApart(loads) /\ \A l \in loads : LoadSound(l)
  BY DEF WorkSound, UIKept, TablesSound, LoadsSound, UISound, TabsSound
<1>2. /\ saves[t] # {} /\ saves' = [saves EXCEPT ![t] = {}] /\ ui' = SaveEnded(ui, t)
      /\ UNCHANGED <<loads, commit, home, uncounted, agreed, saved>>
  BY DEF RowsRefused
<1>3. ui.tab[t].saving /\ ~commit.busy /\ commit = NoCommit
  BY <1>1, <1>2 DEF TableSound, CommitSound
<1>4. ui.tab[t].open
  BY <1>1, <1>3 DEF TabSound, ClosedTab
<1>5. /\ UISound(ui') /\ SameSQL(ui, ui') /\ ShownSound(ui')
      /\ SavingShown(ui) => SavingShown(ui')
      /\ \A o \in Tables :
           /\ ui'.tab[o].open = ui.tab[o].open /\ ui'.tab[o].loading = ui.tab[o].loading
           /\ ui'.tab[o].nonce = ui.tab[o].nonce /\ ui'.tab[o].progress = ui.tab[o].progress
           /\ RowsIn(ui', o) = RowsIn(ui, o)
           /\ o # t => ui'.tab[o].saving = ui.tab[o].saving
  BY <1>1, <1>2, <1>4, SaveEndedKeeps
<1>6. /\ ui'.order = ui.order /\ ui'.activeSQL = ui.activeSQL
      /\ \A s \in SQLs : ui'.sql[s].drafts = ui.sql[s].drafts
  BY <1>5 DEF SameSQL
<1>7. /\ saves' \in [Tables -> SUBSET Made] /\ commit'.edits \subseteq Made
      /\ \A o \in Tables : saves'[o] = IF o = t THEN {} ELSE saves[o]
  BY <1>1, <1>2 DEF EditsSound
<1>8. ASSUME NEW o \in Tables, saves'[o] # {}
      PROVE  ui'.tab[o].saving /\ RowsIn(ui, o) \subseteq saves'[o] /\ ~commit'.busy
  <2>1. TableSound(o) /\ o # t /\ saves'[o] = saves[o]
    BY <1>7, <1>8 DEF WorkSound, TablesSound
  <2>2. ui.tab[o].saving /\ RowsIn(ui, o) \subseteq saves[o]
    BY <1>8, <2>1 DEF TableSound
  <2>3. QED
    BY <1>2, <1>3, <1>5, <2>1, <2>2
<1>9. ASSUME NEW l \in loads, l.why = "save"
      PROVE  ui'.tab[l.table].saving /\ saves'[l.table] = {} /\ ~commit'.busy
  <2>1. l.table \in Tables /\ ui.tab[l.table].saving /\ saves[l.table] = {}
    BY <1>1, <1>9 DEF LoadsApart, LoadType, LoadSound
  <2>2. l.table # t
    BY <1>2, <2>1
  <2>3. QED
    BY <1>2, <1>3, <1>5, <1>7, <2>1, <2>2
<1>10. CommitSound'
  <2>1. SavingShown(ui')
    BY <1>1, <1>3, <1>5 DEF CommitSound
  <2>2. \A o \in commit.tables : ui'.tab[o].open
    BY <1>3 DEF NoCommit
  <2>3. QED
    BY <1>1, <1>2, <1>5, <2>1, <2>2, CommitStays
<1>11. \A o \in Tables : saves'[o] \subseteq saves[o] \cup RowsIn(ui, o)
  BY <1>7
<1>12. QED
  BY <1>2, <1>5, <1>6, <1>7, <1>8, <1>9, <1>10, <1>11, SavingStep

\* Every edit that is sent is drafted in a result or pending in a table of the commit.
LEMMA CommitKeeps ==
  ASSUME WorkSound, NEW all \in BOOLEAN, CommitEdits(all)
  PROVE  WorkSound'
<1>1. /\ UISound(ui) /\ ShownSound(ui) /\ EditsSound /\ CommitSound /\ TablesSound
      /\ LoadsApart(loads) /\ (\A l \in loads : LoadSound(l)) /\ ui \in UIType
  BY DEF WorkSound, UIKept, LoadsSound, UISound
<1>2. PICK u : u = CaptureTableState(ui)
  OBVIOUS
<1>3. PICK results : results = ResultOwners(all)
  OBVIOUS
<1>4. PICK tables : tables = IF all THEN Dirty(u) ELSE {}
  OBVIOUS
<1>5. PICK edits : edits = UNION ({u.sql[s].drafts : s \in results} \union {u.tab[t].draft.rows : t \in tables})
  OBVIOUS
<1> DEFINE q == [s \in SQLs |-> IF s \in results THEN [u.sql[s] EXCEPT !.saving = TRUE] ELSE u.sql[s]]
           tabs == [t \in Tables |-> IF t \in tables THEN [u.tab[t] EXCEPT !.saving = TRUE] ELSE u.tab[t]]
<1>6. /\ ~commit.busy /\ \A t \in Tables : ~ui.tab[t].saving
      /\ commit' = [NoCommit EXCEPT !.busy = TRUE, !.results = results, !.tables = tables,
                     !.edits = edits, !.left = {home[e] : e \in edits}]
      /\ ui' = [u EXCEPT
           !.sql = [s \in SQLs |-> IF s \in results THEN [@[s] EXCEPT !.saving = TRUE] ELSE @[s]],
           !.tab = [t \in Tables |-> IF t \in tables THEN [@[t] EXCEPT !.saving = TRUE] ELSE @[t]]]
      /\ UNCHANGED <<loads, saves, home, uncounted, agreed, saved>>
  BY <1>2, <1>3, <1>4, <1>5 DEF CommitEdits
<1>7. /\ UISound(u) /\ SameSQL(ui, u) /\ u.current = ui.current /\ ShownSound(u)
      /\ \A o \in Tables : SameFlags(ui.tab[o], u.tab[o]) /\ RowsIn(u, o) = RowsIn(ui, o) /\ TabRows(u, o) = RowsIn(ui, o)
  BY <1>1, <1>2, CaptureFields, CaptureKeeps
<1>8. u \in UIType /\ u.tab \in TabsType /\ u.current \in CurrentType /\ u.sql \in [SQLs -> SessionType]
  BY <1>7 DEF UISound, UIType
<1>9. results \subseteq SQLs /\ tables \subseteq Tables /\ \A t \in tables : u.tab[t].open /\ TabRows(u, t) = u.tab[t].draft.rows
  BY <1>3, <1>4 DEF ResultOwners, Edited, Dirty, Open, TabRows, IsOpen
<1>10. commit = NoCommit /\ \A o \in Tables : saves[o] = {} /\ RowsIn(ui, o) \cap saved = {}
  <2>1. commit = NoCommit
    BY <1>1, <1>6 DEF CommitSound
  <2>2. \A o \in Tables : saves[o] = {}
    BY <1>1, <1>6 DEF TablesSound, TableSound
  <2>3. \A o \in Tables : RowsIn(ui, o) \cap saved = {}
    BY <1>1, <2>1 DEF CommitSound, NoCommit
  <2>4. QED
    BY <2>1, <2>2, <2>3
<1>11. ASSUME NEW t \in Tables
       PROVE  /\ tabs[t] \in TabType /\ tabs[t].open = u.tab[t].open /\ tabs[t].draft = u.tab[t].draft
              /\ tabs[t].response = u.tab[t].response /\ tabs[t].loading = u.tab[t].loading
              /\ tabs[t].nonce = u.tab[t].nonce /\ tabs[t].progress = u.tab[t].progress
              /\ tabs[t].open \/ tabs[t] = u.tab[t]
  <2>1. u.tab[t] \in TabType
    BY <1>8 DEF TabsType
  <2>2. CASE t \in tables
    <3>1. tabs[t] = [u.tab[t] EXCEPT !.saving = TRUE] /\ u.tab[t].open
      BY <1>9, <2>2
    <3>2. QED
      BY <2>1, <3>1 DEF TabType
  <2>3. CASE t \notin tables
    BY <2>1, <2>3
  <2>4. QED
    BY <2>2, <2>3
<1>12. q \in [SQLs -> SessionType] /\ \A s \in SQLs : q[s].drafts = u.sql[s].drafts
  <2>1. ASSUME NEW s \in SQLs PROVE q[s] \in SessionType /\ q[s].drafts = u.sql[s].drafts
    <3>1. u.sql[s] \in SessionType
      BY <1>8
    <3>2. [u.sql[s] EXCEPT !.saving = TRUE] \in SessionType /\ [u.sql[s] EXCEPT !.saving = TRUE].drafts = u.sql[s].drafts
      BY <3>1 DEF SessionType
    <3>3. QED
      BY <3>1, <3>2
  <2>2. QED
    BY <2>1
<1>13. tabs \in TabsType
  BY <1>11 DEF TabsType
<1>14. PICK w : w = Rewritten(u, tabs, u.current)
  OBVIOUS
<1>15. ui' = [w EXCEPT !.sql = q]
  BY <1>6, <1>8, <1>14 DEF Rewritten, UIType
<1> HIDE DEF q, tabs
<1>16. /\ UISound(w) /\ SameSQL(u, w) /\ w.tab = tabs /\ w.current = u.current
       /\ \A o \in Tables : RowsIn(w, o) = RowsIn(u, o)
       /\ ShownSound(w)
  <2>1. PICK c \in CurrentType : c = u.current
    BY <1>8
  <2>2. w = Rewritten(u, tabs, c)
    BY <1>14, <2>1
  <2>3. QED
    BY <1>7, <1>11, <1>13, <2>1, <2>2, FlagsWritten
<1>17. /\ UISound(ui') /\ SameRows(w, ui') /\ ui'.sql = q /\ ui'.tab = w.tab /\ ui'.current = w.current
       /\ ui'.order = w.order /\ ui'.activeSQL = w.activeSQL /\ ShownSound(ui')
  BY <1>12, <1>15, <1>16, SQLWritten
<1>18. /\ ui'.order = ui.order /\ ui'.activeSQL = ui.activeSQL
       /\ \A s \in SQLs : ui'.sql[s].drafts = ui.sql[s].drafts
  BY <1>7, <1>12, <1>16, <1>17 DEF SameSQL
<1>19. ASSUME NEW o \in Tables
       PROVE  /\ ui'.tab[o].open = ui.tab[o].open /\ ui'.tab[o].loading = ui.tab[o].loading
              /\ ui'.tab[o].nonce = ui.tab[o].nonce /\ ui'.tab[o].progress = ui.tab[o].progress
              /\ RowsIn(ui', o) = RowsIn(ui, o)
  BY <1>7, <1>11, <1>16, <1>17 DEF SameFlags, SameRows
<1>20. /\ edits \subseteq Made
       /\ \A e \in edits : (\E s \in SQLs : e \in ui.sql[s].drafts) \/ (\E t \in tables : e \in RowsIn(ui, t))
       /\ \A t \in tables : RowsIn(ui, t) \subseteq edits
  <2>1. \A t \in tables : u.tab[t].draft.rows = RowsIn(ui, t)
    BY <1>7, <1>9
  <2>2. \A s \in SQLs : u.sql[s].drafts = ui.sql[s].drafts
    BY <1>7 DEF SameSQL
  <2>3. \A e \in edits : (\E s \in SQLs : e \in ui.sql[s].drafts) \/ (\E t \in tables : e \in RowsIn(ui, t))
    BY <1>5, <1>9, <2>1, <2>2
  <2>4. \A t \in tables : RowsIn(ui, t) \subseteq edits
    BY <1>5, <2>1
  <2>5. edits \subseteq Made
    BY <1>1, <1>9, <2>3 DEF EditsSound
  <2>6. QED
    BY <2>3, <2>4, <2>5
<1>21. /\ commit' \in CommitType /\ commit'.busy /\ commit'.tables = tables /\ commit'.edits = edits
       /\ commit'.saved = {} /\ commit'.reload = {}
  <2>1. \A e \in edits : home[e] \in Connections /\ e \in Nat
    BY <1>1, <1>20 DEF EditsSound, Made
  <2>2. {home[e] : e \in edits} \subseteq Connections /\ edits \subseteq Nat
    BY <2>1
  <2>3. QED
    BY <1>6, <1>9, <2>2 DEF CommitType, NoCommit
<1>22. CommitSound'
  <2>1. \A t \in tables : ui'.tab[t].open /\ RowsIn(ui', t) \subseteq edits
    BY <1>7, <1>9, <1>19, <1>20 DEF SameFlags
  <2>2. ASSUME NEW o \in Tables, edits \cap RowsIn(ui', o) # {} PROVE o \in tables
    <3>1. PICK e \in edits : e \in RowsIn(ui, o)
      BY <1>19, <2>2
    <3>2. \A s \in SQLs : e \notin ui.sql[s].drafts
      BY <1>1, <3>1 DEF EditsSound
    <3>3. PICK t \in tables : e \in RowsIn(ui, t)
      BY <1>20, <3>2
    <3>4. t = o
      BY <1>1, <1>9, <3>1, <3>3 DEF EditsSound, Apart
    <3>5. QED
      BY <3>3, <3>4
  <2>3. \A o \in Tables : RowsIn(ui', o) \cap saved' = {}
    BY <1>6, <1>10, <1>19
  <2>4. QED
    BY <1>21, <2>1, <2>2, <2>3 DEF CommitSound
<1>23. saves' \in [Tables -> SUBSET Made] /\ \A o \in Tables : saves'[o] = {}
  BY <1>1, <1>6, <1>10 DEF EditsSound
<1>24. \A l \in loads : l.why # "save"
  BY <1>1, <1>6 DEF LoadsApart, LoadType, LoadSound
<1>25. QED
  BY <1>6, <1>17, <1>18, <1>19, <1>20, <1>21, <1>22, <1>23, <1>24, SavingStep

\* One connection's edits are saved: those of its tables, and drafts of results.
LEMMA GroupSavedKeeps ==
  ASSUME WorkSound, NEW c \in Connections, GroupSaved(c)
  PROVE  WorkSound'
<1>1. /\ UISound(ui) /\ ShownSound(ui) /\ ui.activeSQL \in ToSet(ui.order) /\ EditsSound /\ CommitSound
      /\ TablesSound /\ LoadsApart(loads) /\ (\A l \in loads : LoadSound(l)) /\ DraftsAreKept
      /\ ui \in UIType /\ ui.sql \in [SQLs -> SessionType]
  BY DEF WorkSound, UIKept, LoadsSound, UISound, UIType
<1>2. PICK tables : tables = {t \in commit.tables : ConnectionOf[t] = c}
  OBVIOUS
<1>3. PICK group : group = Group(c)
  OBVIOUS
<1> DEFINE q == [s \in SQLs |-> [ui.sql[s] EXCEPT !.drafts = @ \ group]]
<1>4. /\ c \in commit.left
      /\ commit' = [commit EXCEPT !.left = @ \ {c}, !.saved = @ \union tables, !.reload = @ \union tables]
      /\ saved' = saved \cup group
      /\ UNCHANGED <<loads, saves, home, uncounted, agreed>>
  BY <1>2, <1>3 DEF GroupSaved
<1>5. ui' = [ui EXCEPT !.sql = q]
  <2>1. ui' = [ui EXCEPT !.sql = [s \in SQLs |-> [ui.sql[s] EXCEPT !.drafts = @ \ Group(c)]]]
    BY DEF GroupSaved, SavedDrafts
  <2>2. QED
    BY <1>3, <2>1
<1>6. q \in [SQLs -> SessionType] /\ \A s \in SQLs : q[s].drafts = ui.sql[s].drafts \ group
  <2>1. ASSUME NEW s \in SQLs PROVE q[s] \in SessionType /\ q[s].drafts = ui.sql[s].drafts \ group
    <3>1. ui.sql[s] \in SessionType
      BY <1>1
    <3>2. QED
      BY <3>1 DEF SessionType
  <2>2. QED
    BY <2>1
<1> HIDE DEF q
<1>7. /\ UISound(ui') /\ SameRows(ui, ui') /\ ui'.sql = q /\ ui'.tab = ui.tab
      /\ ui'.order = ui.order /\ ui'.activeSQL = ui.activeSQL /\ ShownSound(ui')
  BY <1>1, <1>5, <1>6, SQLWritten
<1>8. UIKept'
  BY <1>1, <1>7 DEF UIKept
<1>9. \A o \in Tables : SameFlags(ui.tab[o], ui'.tab[o]) /\ RowsIn(ui', o) = RowsIn(ui, o)
  BY <1>7 DEF SameRows
<1>10. /\ commit.busy /\ commit \in CommitType
       /\ tables \subseteq commit.tables /\ commit.tables \subseteq Tables
  BY <1>1, <1>2, <1>4 DEF CommitSound, CommitType, NoCommit
<1>11. /\ commit' \in CommitType /\ commit'.busy = commit.busy /\ commit'.edits = commit.edits
       /\ commit'.tables = commit.tables /\ commit'.saved = commit.saved \cup tables
       /\ commit'.reload = commit.reload \cup tables
  BY <1>4, <1>10 DEF CommitType
<1>12. group \subseteq commit.edits /\ group \subseteq Made /\ \A e \in commit.edits : home[e] = c => e \in group
  BY <1>1, <1>3 DEF Group, EditsSound
<1>13. \A s \in SQLs : ui'.sql[s].drafts = ui.sql[s].drafts \ group
  BY <1>6, <1>7
<1>14. EditsSound'
  <2>1. /\ saves' \in [Tables -> SUBSET Made] /\ saved' \subseteq Made /\ commit'.edits \subseteq Made
        /\ agreed' \subseteq Made
    BY <1>1, <1>4, <1>11, <1>12 DEF EditsSound
  <2>2. \A s \in SQLs : ui'.sql[s].drafts \cap saved' = {}
    BY <1>1, <1>4, <1>13 DEF EditsSound
  <2>3. QED
    BY <1>1, <1>4, <1>9, <1>13, <2>1, <2>2, EditsStay
<1>15. Done \subseteq Done' /\ group \subseteq Done'
  BY <1>4 DEF Done
<1>16. DraftsAreKept'
  BY <1>1, <1>4, <1>9, <1>13, <1>15, DraftsStay
<1>17. ASSUME NEW o \in Tables PROVE TableSound(o)'
  <2>1. TableSound(o)
    BY <1>1 DEF TablesSound
  <2>2. saves'[o] = saves[o] /\ (commit'.busy => commit.busy)
    BY <1>4, <1>11
  <2>3. QED
    BY <1>9, <1>15, <2>1, <2>2, TableStays
<1>18. ASSUME NEW l \in loads' PROVE LoadSound(l)'
  <2>1. l \in loads /\ l.table \in Tables /\ LoadSound(l)
    BY <1>1, <1>4 DEF LoadsApart, LoadType
  <2>2. saves'[l.table] \subseteq saves[l.table] /\ (commit'.busy => commit.busy)
    BY <1>4, <1>11
  <2>3. QED
    BY <1>9, <2>1, <2>2, LoadStays
<1>19. CommitSound'
  <2>1. \A o \in commit.tables : ui'.tab[o].open /\ RowsIn(ui', o) \subseteq commit.edits
    <3>1. \A o \in commit.tables : ui.tab[o].open /\ RowsIn(ui, o) \subseteq commit.edits
      BY <1>1 DEF CommitSound
    <3>2. QED
      BY <1>9, <1>10, <3>1 DEF SameFlags
  <2>2. \A o \in Tables : commit.edits \cap RowsIn(ui', o) # {} => o \in commit.tables
    BY <1>1, <1>9 DEF CommitSound
  <2>3. ASSUME NEW o \in tables PROVE RowsIn(ui', o) \subseteq group
    <3>1. o \in Tables /\ ConnectionOf[o] = c /\ RowsIn(ui, o) \subseteq commit.edits
      BY <1>1, <1>2, <1>10 DEF CommitSound
    <3>2. \A e \in RowsIn(ui, o) : home[e] = c
      BY <1>1, <3>1 DEF EditsSound
    <3>3. QED
      BY <1>9, <1>12, <3>1, <3>2
  <2>4. /\ commit.reload \subseteq commit.saved /\ commit.saved \subseteq commit.tables
        /\ \A o \in commit.reload : RowsIn(ui, o) \subseteq saved
        /\ \A o \in commit.saved : o \in commit.reload \/ RowsIn(ui, o) = {}
    BY <1>1 DEF CommitSound
  <2>5. \A o \in commit'.reload : RowsIn(ui', o) \subseteq saved'
    BY <1>4, <1>9, <1>10, <1>11, <2>3, <2>4
  <2>6. \A o \in commit'.saved : o \in commit'.reload \/ RowsIn(ui', o) = {}
    BY <1>9, <1>10, <1>11, <2>4
  <2>7. ASSUME NEW o \in Tables, RowsIn(ui', o) \cap saved' # {} PROVE o \in commit'.reload
    <3>1. CASE RowsIn(ui, o) \cap saved # {}
      BY <1>1, <1>11, <3>1 DEF CommitSound
    <3>2. CASE RowsIn(ui, o) \cap group # {}
      <4>1. PICK e \in group : e \in RowsIn(ui, o)
        BY <3>2
      <4>2. home[e] = c /\ e \in commit.edits /\ home[e] = ConnectionOf[o]
        BY <1>1, <1>3, <4>1 DEF Group, EditsSound
      <4>3. o \in commit.tables
        BY <1>1, <4>1, <4>2 DEF CommitSound
      <4>4. QED
        BY <1>2, <1>11, <4>2, <4>3
    <3>3. QED
      BY <1>4, <1>9, <2>7, <3>1, <3>2
  <2>8. commit'.reload \subseteq commit'.saved /\ commit'.saved \subseteq commit'.tables
    BY <1>10, <1>11, <2>4
  <2>9. QED
    BY <1>10, <1>11, <2>1, <2>2, <2>5, <2>6, <2>7, <2>8 DEF CommitSound
<1>20. QED
  BY <1>1, <1>4, <1>8, <1>14, <1>16, <1>17, <1>18, <1>19 DEF WorkSound, TablesSound, LoadsSound

LEMMA GroupRefusedKeeps ==
  ASSUME WorkSound, NEW c \in Connections, GroupRefused(c)
  PROVE  WorkSound'
<1>1. /\ UIKept /\ UISound(ui) /\ ShownSound(ui) /\ EditsSound /\ CommitSound
      /\ TablesSound /\ LoadsApart(loads) /\ (\A l \in loads : LoadSound(l))
  BY DEF WorkSound, UIKept, LoadsSound
<1>2. /\ c \in commit.left /\ commit' = [commit EXCEPT !.left = @ \ {c}]
      /\ UNCHANGED <<ui, loads, saves, home, uncounted, agreed, saved>>
  BY DEF GroupRefused
<1>3. commit.busy /\ commit \in CommitType
  BY <1>1, <1>2 DEF CommitSound, NoCommit
<1>4. /\ commit' \in CommitType /\ commit'.busy = commit.busy /\ commit'.edits = commit.edits
      /\ commit'.tables = commit.tables /\ commit'.saved = commit.saved /\ commit'.reload = commit.reload
  BY <1>2, <1>3 DEF CommitType
<1>5. CommitSound'
  BY <1>1, <1>2, <1>3, <1>4 DEF CommitSound
<1>6. saves' \in [Tables -> SUBSET Made] /\ commit'.edits \subseteq Made /\ \A o \in Tables : saves'[o] = {}
  BY <1>1, <1>2, <1>3, <1>4 DEF EditsSound, TablesSound, TableSound
<1>7. \A l \in loads : l.why # "save"
  BY <1>1, <1>3 DEF LoadsApart, LoadType, LoadSound
<1>8. /\ UISound(ui') /\ ShownSound(ui') /\ ui'.order = ui.order /\ ui'.activeSQL = ui.activeSQL
      /\ \A s \in SQLs : ui'.sql[s].drafts = ui.sql[s].drafts
      /\ \A o \in Tables :
           /\ ui'.tab[o].open = ui.tab[o].open /\ ui'.tab[o].loading = ui.tab[o].loading
           /\ ui'.tab[o].nonce = ui.tab[o].nonce /\ ui'.tab[o].progress = ui.tab[o].progress
           /\ RowsIn(ui', o) = RowsIn(ui, o)
  BY <1>1, <1>2
<1>9. QED
  BY <1>2, <1>5, <1>6, <1>7, <1>8, SavingStep

\* The end of a commit: what was saved has loaded again, and nothing saves.
LEMMA CommitEndsKeeps == WorkSound /\ CommitEnds => WorkSound'
<1> SUFFICES ASSUME WorkSound, CommitEnds PROVE WorkSound'
  OBVIOUS
<1> DEFINE q == [s \in SQLs |-> [ui.sql[s] EXCEPT !.saving = @ /\ s \notin commit.results]]
           tabs == [o \in Tables |-> [ui.tab[o] EXCEPT !.saving = @ /\ o \notin commit.tables]]
           t == ui.current.table
<1>1. /\ UISound(ui) /\ ShownSound(ui) /\ EditsSound /\ CommitSound /\ TablesSound
      /\ LoadsApart(loads) /\ (\A l \in loads : LoadSound(l)) /\ ui \in UIType /\ UIKept
      /\ ui.tab \in TabsType /\ ui.current \in CurrentType /\ ui.sql \in [SQLs -> SessionType]
      /\ CurrentSound(ui.current, ui.tab) /\ \A o \in Tables : TabSound(ui.tab[o])
  BY DEF WorkSound, UIKept, LoadsSound, UISound, UIType, TabsSound
<1>2. PICK u : u = [ui EXCEPT
        !.sql = [s \in SQLs |-> [ui.sql[s] EXCEPT !.saving = @ /\ s \notin commit.results]],
        !.tab = [o \in Tables |-> [ui.tab[o] EXCEPT !.saving = @ /\ o \notin commit.tables]]]
  OBVIOUS
<1>3. /\ commit.busy /\ commit.reload = {} /\ commit' = NoCommit
      /\ ui' = IF t = NoTable THEN u
               ELSE IF Shown(t) /\ t \in commit.saved THEN RestoreTableState(u, t)
               ELSE [u EXCEPT !.current.saving = u.tab[t].saving]
      /\ UNCHANGED <<loads, saves, home, uncounted, agreed, saved>>
  BY <1>2 DEF CommitEnds
<1>4. /\ \A o \in Tables : saves[o] = {} /\ RowsIn(ui, o) \cap saved = {}
      /\ \A o \in commit.saved : RowsIn(ui, o) = {}
      /\ commit.saved \subseteq Tables
  <2>1. \A o \in Tables : saves[o] = {}
    BY <1>1, <1>3 DEF TablesSound, TableSound
  <2>2. \A o \in Tables : RowsIn(ui, o) \cap saved = {}
    BY <1>1, <1>3 DEF CommitSound
  <2>3. (\A o \in commit.saved : RowsIn(ui, o) = {}) /\ commit.saved \subseteq Tables
    BY <1>1, <1>3 DEF CommitSound, CommitType
  <2>4. QED
    BY <2>1, <2>2, <2>3
<1>5. ASSUME NEW o \in Tables
      PROVE  /\ tabs[o] \in TabType /\ tabs[o].open = ui.tab[o].open /\ tabs[o].draft = ui.tab[o].draft
             /\ tabs[o].response = ui.tab[o].response /\ tabs[o].loading = ui.tab[o].loading
             /\ tabs[o].nonce = ui.tab[o].nonce /\ tabs[o].progress = ui.tab[o].progress
             /\ tabs[o].open \/ tabs[o] = ui.tab[o]
  <2>1. ui.tab[o] \in TabType /\ tabs[o] = [ui.tab[o] EXCEPT !.saving = @ /\ o \notin commit.tables]
    BY <1>1 DEF TabsType
  <2>2. ui.tab[o].open \/ ~ui.tab[o].saving
    BY <1>1 DEF TabSound, ClosedTab
  <2>3. /\ tabs[o] \in TabType /\ tabs[o].open = ui.tab[o].open /\ tabs[o].draft = ui.tab[o].draft
        /\ tabs[o].response = ui.tab[o].response /\ tabs[o].loading = ui.tab[o].loading
        /\ tabs[o].nonce = ui.tab[o].nonce /\ tabs[o].progress = ui.tab[o].progress
    BY <2>1 DEF TabType
  <2>4. ~ui.tab[o].saving => tabs[o] = ui.tab[o]
    BY <2>1 DEF TabType
  <2>5. QED
    BY <2>2, <2>3, <2>4
<1>6. q \in [SQLs -> SessionType] /\ \A s \in SQLs : q[s].drafts = ui.sql[s].drafts
  <2>1. ASSUME NEW s \in SQLs PROVE q[s] \in SessionType /\ q[s].drafts = ui.sql[s].drafts
    <3>1. ui.sql[s] \in SessionType
      BY <1>1
    <3>2. QED
      BY <3>1 DEF SessionType
  <2>2. QED
    BY <2>1
<1>7. tabs \in TabsType
  BY <1>5 DEF TabsType
<1>8. PICK w : w = Rewritten(ui, tabs, ui.current)
  OBVIOUS
<1>9. u = [w EXCEPT !.sql = q]
  BY <1>1, <1>2, <1>8 DEF Rewritten, UIType
<1> HIDE DEF q, tabs
<1>10. /\ UISound(w) /\ SameSQL(ui, w) /\ w.tab = tabs /\ w.current = ui.current
       /\ \A o \in Tables : RowsIn(w, o) = RowsIn(ui, o)
       /\ ShownSound(w)
  <2>1. PICK c \in CurrentType : c = ui.current
    BY <1>1
  <2>2. w = Rewritten(ui, tabs, c)
    BY <1>8, <2>1
  <2>3. QED
    BY <1>1, <1>5, <1>7, <2>1, <2>2, FlagsWritten
<1>11. /\ UISound(u) /\ SameRows(w, u) /\ u.sql = q /\ u.tab = w.tab /\ u.current = w.current
       /\ u.order = w.order /\ u.activeSQL = w.activeSQL /\ ShownSound(u) /\ u.active = w.active /\ u.bottom = w.bottom
  BY <1>6, <1>9, <1>10, SQLWritten
<1>12. /\ u.order = ui.order /\ u.activeSQL = ui.activeSQL
       /\ \A s \in SQLs : u.sql[s].drafts = ui.sql[s].drafts
  BY <1>6, <1>10, <1>11 DEF SameSQL
<1>13. ASSUME NEW o \in Tables
       PROVE  /\ u.tab[o].open = ui.tab[o].open /\ u.tab[o].loading = ui.tab[o].loading
              /\ u.tab[o].nonce = ui.tab[o].nonce /\ u.tab[o].progress = ui.tab[o].progress
              /\ RowsIn(u, o) = RowsIn(ui, o)
  BY <1>5, <1>10, <1>11 DEF SameRows
<1>14. u.current = ui.current /\ u \in UIType /\ u.tab = tabs
  BY <1>10, <1>11 DEF UISound
<1>15. t # NoTable => t \in Tables /\ u.tab[t].open
  BY <1>1, <1>13 DEF CurrentType, CurrentSound
<1>16. /\ UISound(ui') /\ ShownSound(ui') /\ SameSQL(u, ui') /\ ui'.tab = u.tab
       /\ SavingShown(ui') /\ \A o \in Tables : RowsIn(ui', o) = RowsIn(u, o)
  <2>1. CASE t = NoTable
    <3>1. ui' = u
      BY <1>3, <2>1
    <3>2. QED
      BY <1>11, <1>14, <2>1, <3>1 DEF SameSQL, SavingShown
  <2>2. CASE t # NoTable /\ Shown(t) /\ t \in commit.saved
    <3>1. ui' = RestoreTableState(u, t) /\ t \in Tables /\ u.tab[t].open
      BY <1>3, <1>15, <2>2
    <3> HIDE DEF t
    <3>2. /\ UISound(ui') /\ SameSQL(u, ui') /\ ui'.tab = u.tab /\ ui'.bottom = u.bottom /\ ui'.active = u.active
          /\ ui'.current.table = t /\ ui'.current.response = u.tab[t].response
          /\ SavingShown(ui') /\ \A o \in Tables : RowsIn(ui', o) = TabRows(u, o)
      BY <1>11, <3>1, RestoreKeeps
    <3>3. \A o \in Tables : o # t => TabRows(u, o) = RowsIn(u, o)
      BY <1>11, <1>14, RowsShape DEF t
    <3>4. RowsIn(u, t) = {} /\ TabRows(u, t) \subseteq RowsIn(u, t)
      BY <1>4, <1>11, <1>13, <2>2, <3>1, RowsShape
    <3>5. ShownSound(ui')
      <4>1. ui'.active = NoPane \/ ui'.active \in ToSet(ui'.bottom)
        BY <1>11, <3>2 DEF ShownSound
      <4>2. \A o \in Tables : ui'.active = Table(o) => u.current.table = o
        BY <1>11, <3>2 DEF ShownSound
      <4>3. \A o \in Tables : ui'.active = Table(o) => o = t
        BY <1>14, <4>2 DEF t
      <4>4. QED
        BY <3>2, <4>1, <4>3 DEF ShownSound
    <3>6. QED
      BY <3>2, <3>3, <3>4, <3>5
  <2>3. CASE t # NoTable /\ ~(Shown(t) /\ t \in commit.saved)
    <3> DEFINE d == [u.current EXCEPT !.saving = u.tab[t].saving]
    <3>1. ui' = [u EXCEPT !.current.saving = u.tab[t].saving] /\ t \in Tables
      BY <1>3, <1>15, <2>3
    <3>2. u.tab[t].saving \in BOOLEAN /\ u.current \in CurrentType /\ u.tab \in TabsType
      BY <1>14, <3>1 DEF UIType, TabsType, TabType
    <3>3. /\ d \in CurrentType /\ d.table = u.current.table /\ d.response = u.current.response
          /\ d.draft = u.current.draft /\ d.saving = u.tab[t].saving
      BY <3>2 DEF CurrentType
    <3>4. ui' = Rewritten(u, u.tab, d)
      BY <1>14, <3>1 DEF Rewritten, UIType
    <3> HIDE DEF d
    <3>5. PICK x \in TabsType : x = u.tab
      BY <3>2
    <3>6. /\ \A o \in Tables : /\ x[o].open = u.tab[o].open /\ x[o].draft = u.tab[o].draft
                               /\ x[o].response = u.tab[o].response /\ (x[o].open \/ x[o] = u.tab[o])
          /\ ui' = Rewritten(u, x, d)
      BY <3>4, <3>5
    <3>7. /\ UISound(ui') /\ SameSQL(u, ui') /\ ui'.tab = x /\ ui'.current = d
          /\ \A o \in Tables : RowsIn(ui', o) = RowsIn(u, o)
          /\ ShownSound(ui')
      BY <1>11, <3>3, <3>6, FlagsWritten
    <3>8. SavingShown(ui')
      BY <1>14, <3>3, <3>5, <3>7 DEF SavingShown
    <3>9. QED
      BY <3>5, <3>7, <3>8
  <2>4. QED
    BY <2>1, <2>2, <2>3
<1>17. /\ ui'.order = ui.order /\ ui'.activeSQL = ui.activeSQL
       /\ \A s \in SQLs : ui'.sql[s].drafts = ui.sql[s].drafts
  BY <1>12, <1>16 DEF SameSQL
<1>18. ASSUME NEW o \in Tables
       PROVE  /\ ui'.tab[o].open = ui.tab[o].open /\ ui'.tab[o].loading = ui.tab[o].loading
              /\ ui'.tab[o].nonce = ui.tab[o].nonce /\ ui'.tab[o].progress = ui.tab[o].progress
              /\ RowsIn(ui', o) = RowsIn(ui, o)
  BY <1>13, <1>16
<1>19. CommitSound'
  <2>1. NoCommit \in CommitType
    BY DEF NoCommit, CommitType
  <2>2. \A o \in Tables : RowsIn(ui', o) \cap saved' = {}
    BY <1>3, <1>4, <1>18
  <2>3. QED
    BY <1>3, <1>16, <2>1, <2>2 DEF CommitSound, NoCommit
<1>20. /\ saves' \in [Tables -> SUBSET Made] /\ commit'.edits \subseteq Made
       /\ \A o \in Tables : saves'[o] = {}
  BY <1>1, <1>3, <1>4 DEF EditsSound, NoCommit
<1>21. \A l \in loads : l.why # "save"
  BY <1>1, <1>3 DEF LoadsApart, LoadType, LoadSound
<1>22. QED
  BY <1>3, <1>16, <1>17, <1>18, <1>19, <1>20, <1>21, SavingStep

\* The tab of t is written while the grid stays: as it was, or with the rows of an answer.
LEMMA TabAnswered ==
  ASSUME UISound(ui), NEW t \in Tables, NEW tab \in TabType, tab.open, tab.saving = ui.tab[t].saving,
         ui.tab[t].open,
         \/ tab.draft = ui.tab[t].draft /\ tab.response = ui.tab[t].response
         \/ tab.draft = Fresh /\ tab.response,
         NEW tabs \in TabsType, \A o \in Tables : tabs[o] = IF o = t THEN tab ELSE ui.tab[o]
  PROVE  LET v == Rewritten(ui, tabs, ui.current)
         IN  /\ UISound(v) /\ SameSQL(ui, v) /\ v.tab = tabs /\ v.current = ui.current
             /\ v.bottom = ui.bottom /\ v.active = ui.active
             /\ \A o \in Tables : /\ RowsIn(v, o) \subseteq RowsIn(ui, o)
                                  /\ o # t => RowsIn(v, o) = RowsIn(ui, o) /\ TabRows(v, o) = TabRows(ui, o)
             /\ TabRows(v, t) \subseteq RowsIn(ui, t)
             /\ tab.draft = ui.tab[t].draft /\ tab.response = ui.tab[t].response => RowsIn(v, t) = RowsIn(ui, t)
             /\ SavingShown(ui) => SavingShown(v)
<1> DEFINE v == Rewritten(ui, tabs, ui.current)
<1>1. /\ ui.current \in CurrentType /\ CurrentSound(ui.current, ui.tab)
      /\ \A o \in Tables : TabSound(ui.tab[o])
  BY DEF UISound, UIType, TabsSound
<1>2. Fresh.rows = {} /\ ~Fresh.dirty /\ Fresh.original /\ DraftSound(Fresh)
  BY FreshTypes DEF Fresh
<1>3. TabSound(tab)
  <2>1. TabSound(ui.tab[t])
    BY <1>1
  <2>2. CASE tab.draft = ui.tab[t].draft /\ tab.response = ui.tab[t].response
    BY <2>1, <2>2 DEF TabSound
  <2>3. CASE tab.draft = Fresh /\ tab.response
    BY <1>2, <2>3 DEF TabSound
  <2>4. QED
    BY <2>2, <2>3
<1>4. CurrentSound(ui.current, tabs)
  <2>1. CASE ui.current.table = t
    <3>1. tabs[ui.current.table] = tab /\ t # NoTable
      BY <2>1
    <3>2. CASE tab.draft = ui.tab[t].draft /\ tab.response = ui.tab[t].response
      BY <1>1, <2>1, <3>1, <3>2 DEF CurrentSound
    <3>3. CASE tab.draft = Fresh /\ tab.response
      BY <1>1, <1>2, <2>1, <3>1, <3>3 DEF CurrentSound
    <3>4. QED
      BY <3>2, <3>3
  <2>2. CASE ui.current.table # t
    <3>1. ui.current.table # NoTable => tabs[ui.current.table] = ui.tab[ui.current.table]
      BY <1>1, <2>2 DEF CurrentType
    <3>2. QED
      BY <1>1, <3>1 DEF CurrentSound
  <2>3. QED
    BY <2>1, <2>2
<1>5. \A o \in Tables : TabSound(tabs[o]) /\ (ui.tab[o].open => tabs[o].open)
  BY <1>1, <1>3
<1>6. /\ UISound(v) /\ SameSQL(ui, v) /\ v.tab = tabs /\ v.current = ui.current
      /\ v.bottom = ui.bottom /\ v.active = ui.active
      /\ \A o \in Tables : RowsIn(v, o) = IF ui.current.response /\ o = ui.current.table THEN GridRows(v) ELSE TabRows(v, o)
  <2>1. PICK c \in CurrentType : c = ui.current
    BY <1>1
  <2>2. CurrentSound(c, tabs) /\ v = Rewritten(ui, tabs, c)
    BY <1>4, <2>1
  <2> HIDE DEF v
  <2>3. /\ UISound(v) /\ SameSQL(ui, v) /\ v.tab = tabs /\ v.current = c
        /\ v.bottom = ui.bottom /\ v.active = ui.active
        /\ \A o \in Tables : RowsIn(v, o) = IF c.response /\ o = c.table THEN GridRows(v) ELSE TabRows(v, o)
    BY <1>5, <2>2, GridWritten
  <2>4. QED
    BY <2>1, <2>3
<1> HIDE DEF v
<1>7. GridRows(v) = GridRows(ui)
  BY <1>6 DEF GridRows
<1>8. \A o \in Tables : o # t => TabRows(v, o) = TabRows(ui, o)
  BY <1>6 DEF TabRows, IsOpen
<1>9. /\ TabRows(v, t) = TabRows(ui, t) \/ TabRows(v, t) = {}
      /\ tab.draft = ui.tab[t].draft /\ tab.response = ui.tab[t].response => TabRows(v, t) = TabRows(ui, t)
  <2>1. v.tab[t] = tab
    BY <1>6
  <2>2. tab.draft = ui.tab[t].draft => TabRows(v, t) = TabRows(ui, t)
    BY <2>1 DEF TabRows, IsOpen
  <2>3. tab.draft = Fresh => TabRows(v, t) = {}
    BY <1>2, <2>1 DEF TabRows, IsOpen
  <2>4. QED
    BY <2>2, <2>3
<1>10. \A o \in Tables :
         /\ RowsIn(ui, o) = IF ui.current.response /\ o = ui.current.table THEN GridRows(ui) ELSE TabRows(ui, o)
         /\ TabRows(ui, o) \subseteq RowsIn(ui, o)
  BY RowsShape
<1>11. SavingShown(ui) => SavingShown(v)
  <2>1. \A o \in Tables : v.tab[o].saving = ui.tab[o].saving
    BY <1>6
  <2>2. QED
    BY <1>1, <1>6, <2>1 DEF SavingShown, CurrentType
<1>12. \A o \in Tables : /\ RowsIn(v, o) \subseteq RowsIn(ui, o)
                         /\ o # t => RowsIn(v, o) = RowsIn(ui, o) /\ TabRows(v, o) = TabRows(ui, o)
  BY <1>6, <1>7, <1>8, <1>9, <1>10
<1>13. TabRows(v, t) \subseteq RowsIn(ui, t)
  BY <1>9, <1>10
<1>14. tab.draft = ui.tab[t].draft /\ tab.response = ui.tab[t].response => RowsIn(v, t) = RowsIn(ui, t)
  BY <1>6, <1>7, <1>9, <1>10
<1>15. QED
  BY <1>6, <1>11, <1>12, <1>13, <1>14 DEF v

\* The end of a load: an outdated one ends its own progress alone, the latest one
\* may lose what its table held.
LEMMA LoadedKeeps ==
  ASSUME UISound(ui), ShownSound(ui), NEW l \in LoadType, ui.tab[l.table].open, NEW ok \in BOOLEAN
  PROVE  LET v == Loaded(ui, l, ok)
             t == l.table
         IN  /\ UISound(v) /\ SameSQL(ui, v) /\ ShownSound(v)
             /\ SavingShown(ui) => SavingShown(v)
             /\ \A o \in Tables : /\ RowsIn(v, o) \subseteq RowsIn(ui, o)
                                  /\ o # t => RowsIn(v, o) = RowsIn(ui, o) /\ v.tab[o] = ui.tab[o]
             /\ v.tab[t].open /\ v.tab[t].saving = ui.tab[t].saving /\ v.tab[t].nonce = ui.tab[t].nonce
             /\ IF ui.tab[t].nonce = l.nonce THEN ~v.tab[t].loading
                ELSE /\ v.tab[t].loading = ui.tab[t].loading /\ RowsIn(v, t) = RowsIn(ui, t)
                     /\ ui.tab[t].progress = ui.tab[t].nonce => v.tab[t].progress = v.tab[t].nonce
<1> DEFINE v == Loaded(ui, l, ok)
           w == FinishDatabaseLoad(ui, l.table, l.nonce)
<1>1. PICK t \in Tables : t = l.table
  BY DEF LoadType
<1>2. PICK n \in Nat : n = l.nonce
  BY DEF LoadType
<1>3. /\ ui \in UIType /\ ui.tab \in TabsType /\ ui.tab[t] \in TabType /\ ui.current \in CurrentType
  BY <1>1 DEF UISound, UIType, TabsType
<1> DEFINE fin == [ui.tab[t] EXCEPT !.progress = IF @ = n THEN 0 ELSE @]
           end == IF ok THEN [fin EXCEPT !.response = TRUE, !.draft = Fresh, !.loading = FALSE]
                  ELSE [fin EXCEPT !.loading = FALSE]
           T(tab) == [ui.tab EXCEPT ![t] = tab]
<1>4. /\ fin \in TabType /\ fin.open = ui.tab[t].open /\ fin.saving = ui.tab[t].saving /\ fin.nonce = ui.tab[t].nonce
      /\ fin.loading = ui.tab[t].loading /\ fin.draft = ui.tab[t].draft /\ fin.response = ui.tab[t].response
      /\ ui.tab[t].progress # n => fin.progress = ui.tab[t].progress
  BY <1>3 DEF TabType
<1>5. w = Rewritten(ui, T(fin), ui.current)
  BY <1>1, <1>2, <1>3 DEF Rewritten, FinishDatabaseLoad, UIType
<1> HIDE DEF fin
<1>6. /\ end \in TabType /\ end.open = ui.tab[t].open /\ end.saving = ui.tab[t].saving /\ end.nonce = ui.tab[t].nonce
      /\ ~end.loading
      /\ \/ end.draft = ui.tab[t].draft /\ end.response = ui.tab[t].response
         \/ end.draft = Fresh /\ end.response
  <2>1. Fresh \in DraftType
    BY FreshTypes
  <2>2. CASE ok
    BY <1>4, <2>1, <2>2 DEF TabType
  <2>3. CASE ~ok
    BY <1>4, <2>3 DEF TabType
  <2>4. QED
    BY <2>2, <2>3
<1>7. PICK taken : taken = IF ok THEN [w EXCEPT !.tab[l.table].response = TRUE, !.tab[l.table].draft = Fresh] ELSE w
  OBVIOUS
<1>8. PICK ended : ended = [taken EXCEPT !.tab[l.table].loading = FALSE]
  OBVIOUS
<1>9. v = IF ui.tab[t].nonce # n THEN w ELSE IF Shown(t) THEN RestoreTableState(ended, t) ELSE ended
  <2> DEFINE x == IF ok THEN [w EXCEPT !.tab[l.table].response = TRUE, !.tab[l.table].draft = Fresh] ELSE w
             y == [x EXCEPT !.tab[l.table].loading = FALSE]
  <2>1. v = IF ui.tab[l.table].nonce # l.nonce THEN w
            ELSE IF Shown(l.table) THEN RestoreTableState(y, l.table) ELSE y
    BY DEF Loaded
  <2>2. taken = x
    BY <1>7
  <2> HIDE DEF x
  <2>3. ended = y
    BY <1>8, <2>2
  <2> HIDE DEF v, w, y
  <2>4. QED
    BY <1>1, <1>2, <2>1, <2>3
<1> HIDE DEF v, w
<1>10. ended = Rewritten(ui, T(end), ui.current)
  <2>1. w = [ui EXCEPT !.tab = T(fin)]
    BY <1>3, <1>5 DEF Rewritten, UIType
  <2>2. T(fin)[t] = fin /\ T(fin) \in TabsType /\ w.tab = T(fin) /\ w \in UIType
    BY <1>3, <1>4, <2>1 DEF TabsType, UIType
  <2> HIDE DEF T
  <2>3. CASE ok
    <3>1. taken = [w EXCEPT !.tab = [w.tab EXCEPT ![t] = [fin EXCEPT !.response = TRUE, !.draft = Fresh]]]
      BY <1>1, <1>7, <2>2, <2>3 DEF UIType, TabsType
    <3>2. ended = [w EXCEPT !.tab = [w.tab EXCEPT ![t] = end]]
      BY <1>1, <1>4, <1>8, <2>2, <2>3, <3>1 DEF UIType, TabsType
    <3>3. [w.tab EXCEPT ![t] = end] = T(end)
      BY <1>3, <2>2 DEF T, TabsType
    <3> HIDE DEF end
    <3>4. QED
      BY <1>3, <2>1, <3>2, <3>3 DEF Rewritten, UIType
  <2>4. CASE ~ok
    <3>1. taken = w
      BY <1>7, <2>4
    <3>2. ended = [w EXCEPT !.tab = [w.tab EXCEPT ![t] = end]]
      BY <1>1, <1>4, <1>8, <2>2, <2>4, <3>1 DEF UIType, TabsType
    <3>3. [w.tab EXCEPT ![t] = end] = T(end)
      BY <1>3, <2>2 DEF T, TabsType
    <3> HIDE DEF end
    <3>4. QED
      BY <1>3, <2>1, <3>2, <3>3 DEF Rewritten, UIType
  <2>5. QED
    BY <2>3, <2>4
<1> HIDE DEF end
<1>11. /\ T(fin) \in TabsType /\ \A o \in Tables : T(fin)[o] = IF o = t THEN fin ELSE ui.tab[o]
       /\ T(end) \in TabsType /\ \A o \in Tables : T(end)[o] = IF o = t THEN end ELSE ui.tab[o]
  BY <1>3, <1>4, <1>6 DEF TabsType
<1>12. PICK a \in TabsType, b \in TabsType : a = T(fin) /\ b = T(end)
  BY <1>11
<1> HIDE DEF T
<1>13. /\ \A o \in Tables : a[o] = IF o = t THEN fin ELSE ui.tab[o]
       /\ \A o \in Tables : b[o] = IF o = t THEN end ELSE ui.tab[o]
       /\ w = Rewritten(ui, a, ui.current) /\ ended = Rewritten(ui, b, ui.current)
  BY <1>5, <1>10, <1>11, <1>12
<1>14. CASE ui.tab[t].nonce # n
  <2>1. v = w
    BY <1>9, <1>14
  <2>2. /\ UISound(w) /\ SameSQL(ui, w) /\ w.tab = a /\ w.current = ui.current
        /\ w.bottom = ui.bottom /\ w.active = ui.active
        /\ \A o \in Tables : /\ RowsIn(w, o) \subseteq RowsIn(ui, o)
                             /\ o # t => RowsIn(w, o) = RowsIn(ui, o)
        /\ RowsIn(w, t) = RowsIn(ui, t)
        /\ SavingShown(ui) => SavingShown(w)
    BY <1>1, <1>4, <1>13, TabAnswered
  <2>3. ShownSound(w)
    BY <1>4, <1>13, <2>2 DEF ShownSound
  <2>4. w.tab[t] = fin /\ \A o \in Tables : o # t => w.tab[o] = ui.tab[o]
    BY <1>13, <2>2
  <2>5. ui.tab[t].progress = ui.tab[t].nonce => fin.progress = fin.nonce
    BY <1>4, <1>14
  <2>6. QED
    BY <1>1, <1>2, <1>4, <1>14, <2>1, <2>2, <2>3, <2>4, <2>5 DEF v
<1>15. CASE ui.tab[t].nonce = n
  <2>1. v = IF Shown(t) THEN RestoreTableState(ended, t) ELSE ended
    BY <1>9, <1>15
  <2>2. /\ UISound(ended) /\ SameSQL(ui, ended) /\ ended.tab = b /\ ended.current = ui.current
        /\ ended.bottom = ui.bottom /\ ended.active = ui.active
        /\ \A o \in Tables : /\ RowsIn(ended, o) \subseteq RowsIn(ui, o)
                             /\ o # t => RowsIn(ended, o) = RowsIn(ui, o) /\ TabRows(ended, o) = TabRows(ui, o)
        /\ TabRows(ended, t) \subseteq RowsIn(ui, t)
        /\ SavingShown(ui) => SavingShown(ended)
    BY <1>1, <1>6, <1>13, TabAnswered
  <2>3. ended.tab[t] = end /\ \A o \in Tables : o # t => ended.tab[o] = ui.tab[o]
    BY <1>13, <2>2
  <2>4. CASE Shown(t)
    <3>1. ended.tab[t].open /\ v = RestoreTableState(ended, t)
      BY <1>1, <1>6, <2>1, <2>3, <2>4
    <3>2. /\ UISound(v) /\ SameSQL(ended, v) /\ v.tab = ended.tab /\ v.bottom = ended.bottom /\ v.active = ended.active
          /\ v.current.table = t /\ v.current.response = ended.tab[t].response
          /\ SavingShown(v) /\ \A o \in Tables : RowsIn(v, o) = TabRows(ended, o)
      BY <2>2, <3>1, RestoreKeeps
    <3>3. ui.current.table = t
      BY <2>4 DEF ShownSound, Shown
    <3>4. ASSUME NEW o \in Tables
          PROVE  RowsIn(v, o) \subseteq RowsIn(ui, o) /\ (o # t => RowsIn(v, o) = RowsIn(ui, o))
      <4>1. RowsIn(ui, o) = IF ui.current.response /\ o = ui.current.table THEN GridRows(ui) ELSE TabRows(ui, o)
        BY RowsShape
      <4>2. CASE o = t
        BY <2>2, <3>2, <4>2
      <4>3. CASE o # t
        BY <2>2, <3>2, <3>3, <4>1, <4>3
      <4>4. QED
        BY <4>2, <4>3
    <3>5. ShownSound(v)
      <4>1. v.active = NoPane \/ v.active \in ToSet(v.bottom)
        BY <2>2, <3>2 DEF ShownSound
      <4>2. \A o \in Tables : v.active = Table(o) => o = t
        BY <2>2, <3>2, <3>3 DEF ShownSound
      <4>3. QED
        BY <3>2, <4>1, <4>2 DEF ShownSound
    <3>6. SameSQL(ui, v)
      BY <2>2, <3>2 DEF SameSQL
    <3>7. QED
      BY <1>1, <1>2, <1>6, <1>15, <2>3, <3>2, <3>4, <3>5, <3>6 DEF v
  <2>5. CASE ~Shown(t)
    <3>1. v = ended
      BY <2>1, <2>5
    <3>2. ShownSound(ended)
      <4>1. ended.active = NoPane \/ ended.active \in ToSet(ended.bottom)
        BY <2>2 DEF ShownSound
      <4>2. ASSUME NEW o \in Tables, ended.active = Table(o)
            PROVE  ended.current.table = o /\ (ended.tab[o].response => ended.current.response)
        <5>1. o # t
          BY <2>2, <2>5, <4>2 DEF Shown
        <5>2. QED
          BY <2>2, <2>3, <4>2, <5>1 DEF ShownSound
      <4>3. QED
        BY <4>1, <4>2 DEF ShownSound
    <3>3. QED
      BY <1>1, <1>2, <1>6, <1>15, <2>2, <2>3, <3>1, <3>2 DEF v
  <2>6. QED
    BY <2>4, <2>5
<1>16. QED
  BY <1>14, <1>15

\* The rest of openTable writes a text alone.
LEMMA PrefilledKeeps ==
  ASSUME NEW u, UISound(u), NEW l
  PROVE  LET v == Prefilled(u, l)
         IN  /\ UISound(v) /\ v.tab = u.tab /\ v.current = u.current
             /\ v.order = u.order /\ v.activeSQL = u.activeSQL
             /\ \A s \in SQLs : v.sql[s].drafts = u.sql[s].drafts
             /\ \A o \in Tables : RowsIn(v, o) = RowsIn(u, o)
             /\ ShownSound(u) => ShownSound(v)
             /\ SavingShown(u) => SavingShown(v)
<1> DEFINE v == Prefilled(u, l)
<1>1. u \in UIType /\ u.sql \in [SQLs -> SessionType] /\ u.activeSQL \in SQLs \cup {NoSQL}
  BY DEF UISound, UIType
<1>2. CASE ~(l.why = "open" /\ u.tab[l.table].response /\ u.activeSQL = l.sql)
  BY <1>2 DEF Prefilled
<1>3. CASE (l.why = "open" /\ u.tab[l.table].response /\ u.activeSQL = l.sql)
  <2> DEFINE q == [u.sql EXCEPT ![l.sql].text = TRUE]
  <2>1. v = [u EXCEPT !.sql = q]
    BY <1>3 DEF Prefilled
  <2>2. q \in [SQLs -> SessionType] /\ \A s \in SQLs : q[s].drafts = u.sql[s].drafts
    <3>1. ASSUME NEW s \in SQLs PROVE [u.sql[s] EXCEPT !.text = TRUE] \in SessionType
                                      /\ [u.sql[s] EXCEPT !.text = TRUE].drafts = u.sql[s].drafts
      <4>1. u.sql[s] \in SessionType
        BY <1>1
      <4>2. QED
        BY <4>1 DEF SessionType
    <3>2. \A s \in SQLs : q[s] = IF s = l.sql THEN [u.sql[s] EXCEPT !.text = TRUE] ELSE u.sql[s]
      BY <1>1
    <3>3. DOMAIN q = SQLs /\ q = [s \in SQLs |-> q[s]]
      BY <1>1
    <3> HIDE DEF q
    <3>4. \A s \in SQLs : q[s] \in SessionType /\ q[s].drafts = u.sql[s].drafts
      BY <1>1, <3>1, <3>2
    <3>5. QED
      BY <3>3, <3>4
  <2> HIDE DEF q, v
  <2>3. /\ UISound(v) /\ SameRows(u, v) /\ v.sql = q /\ v.tab = u.tab /\ v.current = u.current
        /\ v.order = u.order /\ v.activeSQL = u.activeSQL
        /\ ShownSound(u) => ShownSound(v)
        /\ SavingShown(u) => SavingShown(v)
    BY <2>1, <2>2, SQLWritten
  <2>4. QED
    BY <2>2, <2>3 DEF SameRows, v
<1>4. QED
  BY <1>2, <1>3

LEMMA EndLoadKeeps ==
  ASSUME WorkSound, NEW l \in loads, NEW ok \in BOOLEAN, EndLoad(l, ok)
  PROVE  WorkSound'
<1>1. /\ UISound(ui) /\ ShownSound(ui) /\ ui.activeSQL \in ToSet(ui.order) /\ EditsSound /\ CommitSound
      /\ TablesSound /\ LoadsApart(loads) /\ (\A m \in loads : LoadSound(m)) /\ DraftsAreKept
  BY DEF WorkSound, UIKept, LoadsSound
<1>2. l \in LoadType /\ LoadSound(l)
  BY <1>1 DEF LoadsApart
<1>3. PICK t \in Tables : t = l.table
  BY <1>2 DEF LoadType
<1>4. PICK w : w = Loaded(ui, l, ok)
  OBVIOUS
<1>5. PICK u : u = Prefilled(w, l)
  OBVIOUS
<1>6. /\ loads' = loads \ {l} /\ ui' = (IF l.why = "save" THEN SaveEnded(u, t) ELSE u)
      /\ commit' = [commit EXCEPT !.loading = @ /\ l.why # "commit"]
      /\ UNCHANGED <<saves, home, uncounted, agreed, saved>>
  BY <1>3, <1>4, <1>5 DEF EndLoad
<1>7. ui.tab[t].open /\ TableSound(t)
  BY <1>1, <1>2, <1>3 DEF LoadSound, TablesSound
<1>8. /\ UISound(w) /\ SameSQL(ui, w) /\ ShownSound(w)
      /\ SavingShown(ui) => SavingShown(w)
      /\ \A o \in Tables : /\ RowsIn(w, o) \subseteq RowsIn(ui, o)
                           /\ o # t => RowsIn(w, o) = RowsIn(ui, o) /\ w.tab[o] = ui.tab[o]
      /\ w.tab[t].open /\ w.tab[t].saving = ui.tab[t].saving /\ w.tab[t].nonce = ui.tab[t].nonce
      /\ IF ui.tab[t].nonce = l.nonce THEN ~w.tab[t].loading
         ELSE /\ w.tab[t].loading = ui.tab[t].loading /\ RowsIn(w, t) = RowsIn(ui, t)
              /\ ui.tab[t].progress = ui.tab[t].nonce => w.tab[t].progress = w.tab[t].nonce
  BY <1>1, <1>2, <1>3, <1>4, <1>7, LoadedKeeps
<1>9. /\ UISound(u) /\ u.tab = w.tab /\ u.current = w.current
      /\ u.order = w.order /\ u.activeSQL = w.activeSQL
      /\ \A s \in SQLs : u.sql[s].drafts = w.sql[s].drafts
      /\ \A o \in Tables : RowsIn(u, o) = RowsIn(w, o)
      /\ ShownSound(u) /\ (SavingShown(w) => SavingShown(u))
  BY <1>5, <1>8, PrefilledKeeps
<1>10. /\ UISound(ui') /\ ShownSound(ui') /\ (SavingShown(u) => SavingShown(ui'))
       /\ ui'.order = u.order /\ ui'.activeSQL = u.activeSQL
       /\ \A s \in SQLs : ui'.sql[s].drafts = u.sql[s].drafts
       /\ \A o \in Tables : /\ ui'.tab[o].open = u.tab[o].open /\ ui'.tab[o].loading = u.tab[o].loading
                            /\ ui'.tab[o].nonce = u.tab[o].nonce /\ ui'.tab[o].progress = u.tab[o].progress
                            /\ RowsIn(ui', o) = RowsIn(u, o)
                            /\ o # t \/ l.why # "save" => ui'.tab[o].saving = u.tab[o].saving
  <2>1. CASE l.why = "save"
    <3>1. ui' = SaveEnded(u, t) /\ u.tab[t].open
      BY <1>6, <1>8, <1>9, <2>1
    <3>2. /\ UISound(ui') /\ SameSQL(u, ui')
          /\ ShownSound(u) => ShownSound(ui')
          /\ SavingShown(u) => SavingShown(ui')
          /\ \A o \in Tables :
               /\ ui'.tab[o].open = u.tab[o].open /\ ui'.tab[o].loading = u.tab[o].loading
               /\ ui'.tab[o].nonce = u.tab[o].nonce /\ ui'.tab[o].progress = u.tab[o].progress
               /\ RowsIn(ui', o) = RowsIn(u, o)
               /\ o # t => ui'.tab[o].saving = u.tab[o].saving
      BY <1>9, <3>1, SaveEndedKeeps
    <3>3. QED
      BY <1>9, <2>1, <3>2 DEF SameSQL
  <2>2. CASE l.why # "save"
    <3>1. ui' = u
      BY <1>6, <2>2
    <3>2. QED
      BY <1>9, <3>1
  <2>3. QED
    BY <2>1, <2>2
<1>11. UIKept'
  BY <1>1, <1>8, <1>9, <1>10 DEF UIKept, SameSQL
<1>12. \A s \in SQLs : ui'.sql[s].drafts = ui.sql[s].drafts
  BY <1>8, <1>9, <1>10 DEF SameSQL
<1>13. \A o \in Tables : /\ RowsIn(ui', o) \subseteq RowsIn(ui, o)
                         /\ o # t => RowsIn(ui', o) = RowsIn(ui, o) /\ SameFlags(ui.tab[o], ui'.tab[o])
                         /\ ui.tab[o].open => ui'.tab[o].open
                         /\ ui'.tab[o].nonce = ui.tab[o].nonce
  <2>1. \A o \in Tables : RowsIn(ui', o) = RowsIn(w, o)
    BY <1>9, <1>10
  <2>2. \A o \in Tables : o # t => SameFlags(ui.tab[o], ui'.tab[o])
    BY <1>8, <1>9, <1>10 DEF SameFlags
  <2>3. ui'.tab[t].open /\ ui'.tab[t].nonce = ui.tab[t].nonce
    BY <1>8, <1>9, <1>10
  <2>4. QED
    BY <1>8, <2>1, <2>2, <2>3 DEF SameFlags
<1>14. /\ ui'.tab[t].loading = w.tab[t].loading /\ ui'.tab[t].progress = w.tab[t].progress
       /\ ui'.tab[t].nonce = w.tab[t].nonce /\ RowsIn(ui', t) = RowsIn(w, t)
       /\ l.why # "save" => ui'.tab[t].saving = ui.tab[t].saving
  BY <1>8, <1>9, <1>10
<1>15. /\ commit' \in CommitType /\ commit'.busy = commit.busy /\ commit'.edits = commit.edits
       /\ commit'.tables = commit.tables /\ commit'.saved = commit.saved /\ commit'.reload = commit.reload
       /\ ~commit.busy => commit' = NoCommit
  <2>1. commit \in CommitType /\ (~commit.busy => commit = NoCommit)
    BY <1>1 DEF CommitSound
  <2>2. ASSUME commit = NoCommit PROVE commit' = NoCommit
    <3>1. (commit.loading /\ l.why # "commit") = FALSE
      BY <2>2 DEF NoCommit
    <3>2. commit' = [NoCommit EXCEPT !.loading = FALSE]
      BY <1>6, <2>2, <3>1
    <3>3. QED
      BY <3>2 DEF NoCommit
  <2>3. QED
    BY <1>6, <2>1, <2>2 DEF CommitType
<1>16. Done' = Done
  BY <1>6 DEF Done
<1>17. EditsSound'
  <2>1. /\ saves' \in [Tables -> SUBSET Made] /\ saved' \subseteq Made /\ commit'.edits \subseteq Made
        /\ agreed' \subseteq Made /\ \A s \in SQLs : ui'.sql[s].drafts \cap saved' = {}
    BY <1>1, <1>6, <1>12, <1>15 DEF EditsSound
  <2>2. QED
    BY <1>1, <1>6, <1>12, <1>13, <2>1, EditsStay
<1>18. DraftsAreKept'
  <2>1. RowsIn(ui, t) \subseteq RowsIn(ui', t) \cup Done
    <3>1. CASE ui.tab[t].nonce = l.nonce
      BY <1>2, <1>3, <1>7, <3>1 DEF LoadSound, TableSound
    <3>2. CASE ui.tab[t].nonce # l.nonce
      BY <1>8, <1>14, <3>2
    <3>3. QED
      BY <3>1, <3>2
  <2>2. \A o \in Tables : RowsIn(ui, o) \subseteq RowsIn(ui', o) \cup Done'
    BY <1>13, <1>16, <2>1
  <2>3. QED
    BY <1>1, <1>6, <1>12, <1>16, <2>2, DraftsStay
<1>19. ASSUME NEW o \in Tables PROVE TableSound(o)'
  <2>1. TableSound(o)
    BY <1>1 DEF TablesSound
  <2>2. CASE o # t
    <3>1. saves'[o] = saves[o] /\ (commit'.busy => commit.busy) /\ Done \subseteq Done'
      BY <1>6, <1>15, <1>16
    <3>2. QED
      BY <1>13, <2>1, <2>2, <3>1, TableStays
  <2>3. CASE o = t
    <3>1. ui'.tab[t].loading => ui'.tab[t].progress = ui'.tab[t].nonce /\ RowsIn(ui', t) \subseteq Done'
      <4>1. ui.tab[t].loading => ui.tab[t].progress = ui.tab[t].nonce /\ RowsIn(ui, t) \subseteq Done
        BY <1>7 DEF TableSound
      <4>2. QED
        BY <1>8, <1>13, <1>14, <1>16, <4>1
    <3>2. saves'[t] # {} => ui'.tab[t].saving /\ RowsIn(ui', t) \subseteq saves'[t]
      <4>1. saves[t] # {} => ui.tab[t].saving /\ RowsIn(ui, t) \subseteq saves[t]
        BY <1>7 DEF TableSound
      <4>2. saves[t] # {} => l.why # "save"
        BY <1>2, <1>3 DEF LoadSound
      <4>3. QED
        BY <1>6, <1>13, <1>14, <4>1, <4>2
    <3>3. commit'.busy => saves'[t] = {}
      BY <1>6, <1>7, <1>15 DEF TableSound
    <3>4. QED
      BY <2>3, <3>1, <3>2, <3>3 DEF TableSound
  <2>4. QED
    BY <2>2, <2>3
<1>20. ASSUME NEW m \in loads' PROVE LoadSound(m)'
  <2>1. m \in loads /\ m # l /\ m.table \in Tables /\ LoadSound(m)
    BY <1>1, <1>6 DEF LoadsApart, LoadType
  <2>2. saves'[m.table] = saves[m.table] /\ (commit'.busy => commit.busy)
    BY <1>6, <1>15
  <2>3. CASE m.table # t
    BY <1>13, <2>1, <2>2, <2>3, LoadStays
  <2>4. CASE m.table = t
    <3>1. m.nonce # l.nonce /\ ~(m.why = "save" /\ l.why = "save")
      BY <1>1, <1>3, <2>1, <2>4 DEF LoadsApart
    <3>2. ui.tab[t].open /\ m.nonce <= ui.tab[t].nonce /\ (m.nonce = ui.tab[t].nonce => ui.tab[t].loading)
      BY <2>1, <2>4 DEF LoadSound
    <3>3. m.nonce = ui'.tab[t].nonce => ui'.tab[t].loading
      BY <1>8, <1>14, <3>1, <3>2
    <3>4. m.why = "save" => ui'.tab[t].saving /\ saves'[t] = {} /\ ~commit'.busy
      BY <1>14, <1>15, <2>1, <2>2, <2>4, <3>1 DEF LoadSound
    <3>5. ui'.tab[t].open /\ m.nonce <= ui'.tab[t].nonce
      BY <1>13, <3>2
    <3>6. QED
      BY <2>4, <3>3, <3>4, <3>5 DEF LoadSound
  <2>5. QED
    BY <2>3, <2>4
<1>21. LoadsApart(loads')
  <2>1. loads' \in SUBSET loads
    BY <1>6
  <2>2. QED
    BY <1>1, <2>1 DEF LoadsApart
<1>22. CommitSound'
  <2>1. ~commit'.busy => commit' = NoCommit /\ SavingShown(ui')
    BY <1>1, <1>8, <1>9, <1>10, <1>15 DEF CommitSound
  <2>2. /\ commit.tables \subseteq Tables /\ commit.saved \subseteq Tables /\ commit.reload \subseteq Tables
        /\ commit.reload \subseteq commit.saved /\ commit.saved \subseteq commit.tables
    BY <1>1 DEF CommitSound, CommitType
  <2>3. \A o \in commit.tables : ui'.tab[o].open /\ RowsIn(ui', o) \subseteq commit.edits
    BY <1>1, <1>13, <2>2 DEF CommitSound
  <2>4. \A o \in Tables : commit.edits \cap RowsIn(ui', o) # {} => o \in commit.tables
    BY <1>1, <1>13 DEF CommitSound
  <2>5. \A o \in commit.reload : RowsIn(ui', o) \subseteq saved
    BY <1>1, <1>13, <2>2 DEF CommitSound
  <2>6. \A o \in commit.saved : o \in commit.reload \/ RowsIn(ui', o) = {}
    BY <1>1, <1>13, <2>2 DEF CommitSound
  <2>7. \A o \in Tables : RowsIn(ui', o) \cap saved # {} => o \in commit.reload
    BY <1>1, <1>13 DEF CommitSound
  <2>8. QED
    BY <1>6, <1>15, <2>1, <2>2, <2>3, <2>4, <2>5, <2>6, <2>7 DEF CommitSound
<1>23. QED
  BY <1>11, <1>17, <1>18, <1>19, <1>20, <1>21, <1>22 DEF WorkSound, TablesSound, LoadsSound

LEMMA PageStarts == Init => WorkSound
<1> SUFFICES ASSUME Init PROVE WorkSound
  OBVIOUS
<1>1. /\ ui = [tab |-> [t \in Tables |-> ClosedTab], current |-> NoCurrent,
           sql |-> [s \in SQLs |-> NoSession], order |-> <<1>>, sequence |-> 1,
           activeSQL |-> 1, bottom |-> <<>>, active |-> NoPane]
      /\ loads = {} /\ saves = [t \in Tables |-> {}] /\ commit = NoCommit
      /\ home = <<>> /\ agreed = {} /\ saved = {}
  BY DEF Init
<1>2. /\ ClosedTab \in TabType /\ TabSound(ClosedTab) /\ NoSession \in SessionType /\ NoCurrent \in CurrentType
      /\ DraftSound(Fresh)
  BY FreshTypes
<1>3. /\ ~ClosedTab.open /\ ~ClosedTab.loading /\ ~ClosedTab.saving /\ NoSession.drafts = {} /\ NoCurrent.table = NoTable
      /\ ~NoCurrent.response /\ NoCurrent.draft = Fresh /\ ~NoCurrent.saving /\ Fresh.rows = {} /\ ~Fresh.dirty
  BY DEF ClosedTab, NoSession, NoCurrent, Fresh
<1>4. /\ ui.tab \in TabsType /\ ui.current = NoCurrent /\ ui.sql \in [SQLs -> SessionType]
      /\ ui.order = <<1>> /\ ui.sequence = 1 /\ ui.activeSQL = 1 /\ ui.bottom = <<>> /\ ui.active = NoPane
      /\ \A t \in Tables : ui.tab[t] = ClosedTab
      /\ \A s \in SQLs : ui.sql[s].drafts = {}
  BY <1>1, <1>2, <1>3 DEF TabsType
<1>5. 1 \in SQLs /\ <<1>> \in Seq(SQLs) /\ <<>> \in Seq(PaneType) /\ ToSet(<<1>>) = {1}
  <2>1. 1 \in SQLs
    BY DEF SQLs
  <2>2. QED
    BY <2>1 DEF ToSet
<1>6. ui \in UIType
  <2>1. ui = [tab |-> ui.tab, current |-> ui.current, sql |-> ui.sql, order |-> ui.order, sequence |-> ui.sequence,
              activeSQL |-> ui.activeSQL, bottom |-> ui.bottom, active |-> ui.active]
    BY <1>1
  <2>2. /\ ui.current \in CurrentType /\ ui.order \in Seq(SQLs) /\ ui.sequence \in SQLs
        /\ ui.activeSQL \in SQLs \cup {NoSQL} /\ ui.bottom \in Seq(PaneType) /\ ui.active \in PaneType \cup {NoPane}
    BY <1>2, <1>4, <1>5
  <2>3. QED
    BY ONLY <2>1, <2>2, <1>4 DEF UIType
<1>7. UISound(ui)
  <2>1. TabsSound(ui)
    BY <1>2, <1>3, <1>4 DEF TabsSound, CurrentSound
  <2>2. PanesSound(ui)
    BY <1>4 DEF PanesSound
  <2>3. OrderSound(ui)
    BY <1>4 DEF OrderSound
  <2>4. QED
    BY <1>6, <2>1, <2>2, <2>3 DEF UISound
<1>8. UIKept
  <2>1. \A t \in Tables : ui.active # Table(t)
    BY <1>4 DEF NoPane, Table
  <2>2. QED
    BY <1>4, <1>5, <1>7, <2>1 DEF UIKept, ShownSound
<1>9. \A t \in Tables : RowsIn(ui, t) = {} /\ saves[t] = {}
  BY <1>1, <1>3, <1>4, <1>7, RowsShape
<1>10. Len(home) = 0 /\ Made = {}
  BY <1>1 DEF Made
<1>11. EditsSound
  <2>1. home \in Seq(Connections) /\ saves \in [Tables -> SUBSET Made] /\ agreed \subseteq Made /\ saved \subseteq Made
    BY <1>1
  <2>2. commit.edits \subseteq Made
    BY <1>1 DEF NoCommit
  <2>3. QED
    BY <1>1, <1>4, <1>9, <2>1, <2>2 DEF EditsSound, Apart
<1>12. TablesSound
  BY <1>1, <1>3, <1>4, <1>9 DEF TablesSound, TableSound, NoCommit
<1>13. LoadsSound
  BY <1>1 DEF LoadsSound, LoadsApart
<1>14. CommitSound
  <2>1. NoCommit \in CommitType
    BY DEF NoCommit, CommitType
  <2>2. SavingShown(ui)
    BY <1>3, <1>4 DEF SavingShown
  <2>3. QED
    BY <1>1, <1>9, <2>1, <2>2 DEF CommitSound, NoCommit
<1>15. DraftsAreKept
  BY <1>10 DEF DraftsAreKept
<1>16. QED
  BY <1>8, <1>11, <1>12, <1>13, <1>14, <1>15 DEF WorkSound

LEMMA PageGoesOn == WorkSound /\ [Next]_vars => WorkSound'
<1> SUFFICES ASSUME WorkSound, [Next]_vars PROVE WorkSound'
  OBVIOUS
<1>1. CASE UNCHANGED vars
  BY <1>1, StutterKeeps
<1>2. CASE Answers
  <2>1. ASSUME NEW l \in loads, NEW ok \in BOOLEAN, EndLoad(l, ok) PROVE WorkSound'
    BY <2>1, EndLoadKeeps
  <2>2. ASSUME NEW t \in Tables, RowsSaved(t) \/ RowsRefused(t) \/ ReloadSaved(t) PROVE WorkSound'
    BY <2>2, RowsSavedKeeps, RowsRefusedKeeps, ReloadSavedKeeps
  <2>3. ASSUME NEW s \in SQLs, QueryAnswered(s) \/ QueryEnded(s) PROVE WorkSound'
    BY <2>3, QueryKeeps
  <2>4. ASSUME NEW c \in Connections, GroupSaved(c) \/ GroupRefused(c) PROVE WorkSound'
    BY <2>4, GroupSavedKeeps, GroupRefusedKeeps
  <2>5. CASE CommitEnds
    BY <2>5, CommitEndsKeeps
  <2>6. QED
    BY <1>2, <2>1, <2>2, <2>3, <2>4, <2>5 DEF Answers
<1>3. CASE User
  <2>1. ASSUME NEW t \in Tables, OpenTable(t) PROVE WorkSound'
    BY <2>1, ShowKeeps, OpenKeeps
  <2>2. ASSUME NEW t \in Tables, ReloadTable(t) \/ StopLoad(t) \/ EditRows(t) \/ RollbackRows(t) \/ SaveRows(t)
        PROVE  WorkSound'
    BY <2>2, ReloadKeeps, StopKeeps, EditKeeps, RollbackKeeps, SaveKeeps
  <2>3. ASSUME NEW t \in Tables, NEW drop \in BOOLEAN, ApplySchema(t, drop) PROVE WorkSound'
    <3>1. CASE drop = TRUE
      BY <2>3, <3>1, DropKeeps
    <3>2. CASE drop = FALSE
      BY <2>3, <3>2, ReloadKeeps
    <3>3. QED
      BY <3>1, <3>2
  <2>4. ASSUME NEW pane \in ToSet(ui.bottom), ShowPane(pane) \/ ClosePane(pane) PROVE WorkSound'
    BY <2>4, ShowKeeps, ClosePaneKeeps
  <2>5. CASE MoveTab
    BY <2>5, MoveKeeps
  <2>6. CASE AddSQLTab
    BY <2>6, ShowKeeps
  <2>7. CASE TypeSQL
    BY <2>7, QueryKeeps
  <2>8. ASSUME NEW s \in SQLs, SelectSQLTab(s) \/ CancelSQL(s) PROVE WorkSound'
    BY <2>8, ShowKeeps, QueryKeeps
  <2>9. ASSUME NEW s \in SQLs, RemoveSQLTab(s) \/ RunSQL(s) \/ RollbackQueryRows(s) PROVE WorkSound'
    BY <2>9, RemoveSQLKeeps, RunKeeps, RollbackQueryKeeps
  <2>10. ASSUME NEW s \in SQLs, NEW c \in Connections, StageQueryRow(s, c) PROVE WorkSound'
    BY <2>10, StageKeeps
  <2>11. ASSUME NEW all \in BOOLEAN, CommitEdits(all) PROVE WorkSound'
    BY <2>11, CommitKeeps
  <2>12. ASSUME NEW c \in Connections, ClearConnection(c) PROVE WorkSound'
    BY <2>12, ClearKeeps
  <2>13. QED
    BY <1>3, <2>1, <2>2, <2>3, <2>4, <2>5, <2>6, <2>7, <2>8, <2>9, <2>10, <2>11, <2>12 DEF User
<1>4. QED
  BY <1>1, <1>2, <1>3 DEF Next

LEMMA PageSound == WorkSound => WorkIsKept
<1> SUFFICES ASSUME WorkSound PROVE WorkIsKept
  OBVIOUS
<1>1. /\ UISound(ui) /\ ShownSound(ui) /\ ui.activeSQL \in ToSet(ui.order) /\ ui \in UIType
      /\ CurrentSound(ui.current, ui.tab) /\ PanesSound(ui) /\ \A t \in Tables : TabSound(ui.tab[t])
      /\ EditsSound /\ CommitSound /\ TablesSound /\ DraftsAreKept
  BY DEF WorkSound, UIKept, UISound, TabsSound
<1>2. /\ ui.bottom \in Seq(PaneType) /\ ui.order \in Seq(SQLs) /\ ui.current \in CurrentType
      /\ DOMAIN ui.bottom = 1..Len(ui.bottom) /\ DOMAIN ui.order = 1..Len(ui.order)
  BY <1>1 DEF UIType
<1>3. TypeOK
  <2>1. ASSUME NEW i \in 1..Len(ui.bottom)
        PROVE  IF ui.bottom[i].kind = "table" THEN IsOpen(ui, ui.bottom[i].id)
               ELSE Contains(ui.order, ui.bottom[i].id)
    <3>1. PaneSound(ui, ui.bottom[i])
      BY <1>1, <1>2 DEF PanesSound
    <3>2. QED
      BY <1>2, <3>1 DEF PaneSound, Contains, ToSet
  <2>2. ui.active = NoPane \/ Contains(ui.bottom, ui.active)
    BY <1>1, <1>2 DEF ShownSound, Contains, ToSet
  <2>3. ui.current.table = NoTable \/ IsOpen(ui, ui.current.table)
    BY <1>1 DEF CurrentSound, IsOpen
  <2>4. ui.current.draft.dirty => ui.current.draft.original
    BY <1>1 DEF CurrentSound, DraftSound
  <2>5. \A t \in Tables : ui.tab[t].draft.dirty => ui.tab[t].draft.original
    BY <1>1 DEF TabSound, DraftSound
  <2>6. agreed \cup saved \subseteq 1..Len(home)
    BY <1>1 DEF EditsSound, Made
  <2>7. QED
    BY <1>1, <2>1, <2>2, <2>3, <2>4, <2>5, <2>6 DEF TypeOK
<1>4. SavedIsNotPending
  <2> SUFFICES ASSUME ~commit.busy, NEW e \in saved PROVE e \notin Pending
    BY DEF SavedIsNotPending
  <2>1. \A t \in Tables : e \notin RowsIn(ui, t)
    BY <1>1 DEF CommitSound, NoCommit
  <2>2. \A s \in SQLs : e \notin ui.sql[s].drafts
    BY <1>1 DEF EditsSound
  <2>3. QED
    BY <2>1, <2>2 DEF Pending, PendingRows
<1>5. LoadingIsShown
  BY <1>1 DEF LoadingIsShown, TablesSound, TableSound
<1>6. QED
  BY <1>1, <1>3, <1>4, <1>5 DEF WorkIsKept

\* Nothing the user typed into a table or a result is lost or sent twice, and what
\* loads is shown to load (captureTableState, commitEdits, finishDatabaseLoad).
THEOREM WorkStays == Spec => []WorkIsKept
<1>1. Spec => Init /\ [][Next]_vars
  BY DEF Spec
<1>2. QED
  BY <1>1, PageStarts, PageGoesOn, PageSound, PTL

\* The same beside the command line, the forms and the picker, which write nothing of
\* what the page keeps.
THEOREM WorkStaysBeside == WorkspaceSpec => []WorkIsKept
<1>1. WorkspaceInit => Init
  BY DEF WorkspaceInit
<1>2. [WorkspaceNext]_<<vars, editorVars>> => [Next]_vars
  BY DEF WorkspaceNext
<1>3. WorkspaceSpec => WorkspaceInit /\ [][WorkspaceNext]_<<vars, editorVars>>
  BY DEF WorkspaceSpec
<1>4. QED
  BY <1>1, <1>2, <1>3, PageStarts, PageGoesOn, PageSound, PTL

HIDE DatabaseAssumption


(***************************************************************************)
(* The inline picker.                                                      *)
(***************************************************************************)
Names == Tables \cup {NoTable}
PickerAsk == [kind : {"resolve", "objects", "columns"}, nonce : Nat, table : Names]
PickerState ==
  [open : BOOLEAN, nonce : Nat, sql : SQLs \cup {NoSQL}, version : Nat, kind : {"table", "field", "join"},
   pending : {"none", "table", "field", "join"}, listed : BOOLEAN, choice : Names, columns : Names,
   asked : SUBSET PickerAsk]
TextState == [table : Names, context : Names, version : Nat]

\* What a picker that is open over a text may have asked for.
AskFits(p, tab, a) ==
  /\ a.kind = "resolve" => p.kind # "table" /\ a.table = tab.table
  /\ a.kind # "resolve" => p.kind # "field"
  /\ a.kind = "columns" => a.table = p.choice

\* Every request is of this opening of the picker or of an earlier one, and of those
\* of this one the answer fits: the list of fields has no tables to choose from.
PickerOver(p, s, tab) ==
  /\ p \in PickerState
  /\ \A a \in p.asked : a.nonce <= p.nonce
  /\ p.open => p.sql = s /\ p.version = tab.version
PickerFits(p, s, tab) ==
  /\ PickerOver(p, s, tab)
  /\ p.open =>
       /\ p.columns \in {NoTable, p.choice}
       /\ p.kind = "field" => ~p.listed /\ p.columns \in {NoTable, tab.table}
       /\ \A a \in p.asked : a.nonce = p.nonce => AskFits(p, tab, a)

TextKept == active \in SQLs /\ text \in [SQLs -> TextState]
PickerKept == TextKept /\ PickerFits(picker, active, text[active])

\* A picker that is closed fits any text.
LEMMA ClosedFits ==
  ASSUME NEW p, NEW s, NEW tab, PickerFits(p, s, tab), NEW r, NEW other
  PROVE  /\ PickerFits(CloseInlinePicker(p), r, other) /\ ~CloseInlinePicker(p).open
         /\ CloseInlinePicker(p).nonce = p.nonce + 1 /\ CloseInlinePicker(p).asked = p.asked
         /\ CloseInlinePicker(p) = [NoPicker EXCEPT !.nonce = p.nonce + 1, !.asked = p.asked]
<1>1. p.nonce \in Nat /\ p.asked \in SUBSET PickerAsk /\ \A a \in p.asked : a.nonce <= p.nonce
  BY DEF PickerFits, PickerOver, PickerState
<1> DEFINE c == CloseInlinePicker(p)
<1>2. c = [NoPicker EXCEPT !.nonce = p.nonce + 1, !.asked = p.asked]
  BY DEF CloseInlinePicker
<1>3. c \in PickerState /\ ~c.open /\ c.nonce = p.nonce + 1 /\ c.asked = p.asked
  <2>1. NoPicker \in PickerState /\ NoPicker.open = FALSE
    BY DEF NoPicker, PickerState, Names
  <2> HIDE DEF c
  <2> DEFINE d == [NoPicker EXCEPT !.nonce = p.nonce + 1]
  <2>2. d \in PickerState /\ d.nonce = p.nonce + 1 /\ d.open = FALSE
    BY <1>1, <2>1 DEF PickerState
  <2>3. c = [d EXCEPT !.asked = p.asked]
    BY <1>2
  <2> HIDE DEF d
  <2>4. QED
    BY <1>1, <2>2, <2>3 DEF PickerState
<1> HIDE DEF c
<1>4. \A a \in p.asked : a.nonce \in Nat /\ a.nonce <= p.nonce + 1
  BY <1>1 DEF PickerAsk
<1>5. PickerFits(c, r, other)
  BY <1>3, <1>4 DEF PickerFits, PickerOver
<1>6. QED
  BY <1>2, <1>3, <1>5 DEF c

\* One more request, of the opening that is there.
LEMMA AskedFits ==
  ASSUME NEW p, NEW s, NEW tab, PickerFits(p, s, tab), NEW kind \in {"resolve", "objects", "columns"},
         NEW t \in Names, AskFits(p, tab, [kind |-> kind, nonce |-> p.nonce, table |-> t])
  PROVE  PickerFits(Ask(kind, p, t), s, tab)
<1> DEFINE a == [kind |-> kind, nonce |-> p.nonce, table |-> t]
           q == Ask(kind, p, t)
<1>1. q = [p EXCEPT !.asked = @ \cup {a}] /\ p \in PickerState
  BY DEF Ask, PickerFits, PickerOver
<1>2. a \in PickerAsk /\ a.nonce <= p.nonce
  BY <1>1 DEF PickerState, PickerAsk
<1> HIDE DEF a
<1>3. /\ q \in PickerState /\ q.asked = p.asked \cup {a} /\ q.open = p.open /\ q.nonce = p.nonce
      /\ q.sql = p.sql /\ q.version = p.version /\ q.columns = p.columns /\ q.choice = p.choice
      /\ q.kind = p.kind /\ q.listed = p.listed
  BY <1>1, <1>2 DEF PickerState
<1> HIDE DEF q
<1>4. AskFits(p, tab, a)
  BY DEF a
<1>5. \A b \in q.asked : AskFits(p, tab, b) => AskFits(q, tab, b)
  BY <1>3 DEF AskFits
<1>6. QED
  BY <1>2, <1>3, <1>4, <1>5 DEF PickerFits, PickerOver, q

\* What is asked anew outdates what was asked before.
Anew(p, listed, t) == [p EXCEPT !.nonce = @ + 1, !.listed = listed, !.choice = t, !.columns = NoTable]
LEMMA AnewFits ==
  ASSUME NEW p, NEW s, NEW tab, PickerOver(p, s, tab), NEW listed \in BOOLEAN, NEW t \in Names,
         p.kind # "field"
  PROVE  LET q == Anew(p, listed, t)
         IN  PickerFits(q, s, tab) /\ q.kind = p.kind /\ q.choice = t
<1> DEFINE q == Anew(p, listed, t)
<1>1. p \in PickerState /\ p.nonce \in Nat /\ NoTable \in Names
  BY DEF PickerFits, PickerOver, PickerState, Names
<1> DEFINE d == [p EXCEPT !.nonce = @ + 1]
           e == [d EXCEPT !.listed = listed]
           f == [e EXCEPT !.choice = t]
<1>2. /\ d \in PickerState /\ d.asked = p.asked /\ d.open = p.open /\ d.nonce = p.nonce + 1
      /\ d.sql = p.sql /\ d.version = p.version /\ d.kind = p.kind
  BY <1>1 DEF PickerState
<1>3. q = [f EXCEPT !.columns = NoTable]
  BY DEF Anew
<1> HIDE DEF d
<1>4. /\ e \in PickerState /\ e.asked = p.asked /\ e.open = p.open /\ e.nonce = p.nonce + 1
      /\ e.sql = p.sql /\ e.version = p.version /\ e.kind = p.kind /\ e.listed = listed
  BY <1>2 DEF PickerState
<1> HIDE DEF e
<1>5. /\ f \in PickerState /\ f.asked = p.asked /\ f.open = p.open /\ f.nonce = p.nonce + 1
      /\ f.sql = p.sql /\ f.version = p.version /\ f.kind = p.kind /\ f.listed = listed /\ f.choice = t
  BY <1>4 DEF PickerState
<1> HIDE DEF f, q
<1>6. /\ q \in PickerState /\ q.asked = p.asked /\ q.open = p.open /\ q.nonce = p.nonce + 1
      /\ q.sql = p.sql /\ q.version = p.version /\ q.kind = p.kind /\ q.listed = listed /\ q.choice = t
      /\ q.columns = NoTable
  BY <1>1, <1>3, <1>5 DEF PickerState
<1>7. \A a \in p.asked : a.nonce \in Nat
  BY <1>1 DEF PickerState, PickerAsk
<1>8. QED
  BY <1>1, <1>6, <1>7 DEF PickerFits, PickerOver, q

\* The list of tables, and the fields of one of them.
LEMMA LoadsFit ==
  ASSUME NEW p, NEW s, NEW tab, PickerOver(p, s, tab), NEW t \in Names, p.kind # "field"
  PROVE  /\ PickerFits(LoadInlineObjects(p, t), s, tab)
         /\ PickerFits(LoadInlineMetadata(p, t), s, tab)
<1>1. p \in PickerState /\ p.choice \in Names
  BY DEF PickerFits, PickerOver, PickerState
<1>2. PickerFits(LoadInlineObjects(p, t), s, tab)
  <2>1. PICK q : q = [p EXCEPT !.nonce = @ + 1, !.listed = FALSE, !.columns = NoTable]
    OBVIOUS
  <2>2. q = [p EXCEPT !.nonce = @ + 1, !.listed = FALSE, !.choice = p.choice, !.columns = NoTable]
    BY <1>1, <2>1 DEF PickerState
  <2>3. PickerFits(q, s, tab) /\ q.kind = p.kind
    <3>1. PICK b \in BOOLEAN : b = FALSE
      OBVIOUS
    <3>2. q = Anew(p, b, p.choice)
      BY <2>2, <3>1 DEF Anew
    <3>3. QED
      BY <1>1, <3>2, AnewFits
  <2>4. AskFits(q, tab, [kind |-> "objects", nonce |-> q.nonce, table |-> t])
    BY <2>3 DEF AskFits
  <2>5. PickerFits(Ask("objects", q, t), s, tab)
    BY <2>3, <2>4, AskedFits
  <2>6. QED
    BY <2>1, <2>5 DEF LoadInlineObjects
<1>3. PickerFits(LoadInlineMetadata(p, t), s, tab)
  <2>1. PICK q : q = [p EXCEPT !.nonce = @ + 1, !.listed = TRUE, !.choice = t, !.columns = NoTable]
    OBVIOUS
  <2>2. PickerFits(q, s, tab) /\ q.kind = p.kind /\ q.choice = t
    <3>1. PICK b \in BOOLEAN : b = TRUE
      OBVIOUS
    <3>2. q = Anew(p, b, t)
      BY <2>1, <3>1 DEF Anew
    <3>3. QED
      BY <3>2, AnewFits
  <2>3. AskFits(q, tab, [kind |-> "columns", nonce |-> q.nonce, table |-> t])
    BY <2>2 DEF AskFits
  <2>4. PickerFits(Ask("columns", q, t), s, tab)
    BY <2>2, <2>3, AskedFits
  <2>5. QED
    BY <2>1, <2>4 DEF LoadInlineMetadata
<1>4. QED
  BY <1>2, <1>3

\* What is opened over a text, or offered once its table is known.
LEMMA OfferFits ==
  ASSUME NEW p, NEW s, NEW tab, PickerFits(p, s, tab), NEW t \in Names, t = tab.table, p.kind # "table",
         p.open
  PROVE  PickerFits(Offer(p, t), s, tab)
<1>1. CASE p.kind = "join"
  BY <1>1, LoadsFit DEF Offer, PickerFits
<1>2. CASE p.kind # "join"
  <2>1. p \in PickerState /\ p.kind = "field"
    BY <1>2 DEF PickerFits, PickerOver, PickerState
  <2>2. PICK q : q = [p EXCEPT !.choice = t, !.columns = t]
    OBVIOUS
  <2>3. /\ q \in PickerState /\ q.asked = p.asked /\ q.open = p.open /\ q.nonce = p.nonce
        /\ q.sql = p.sql /\ q.version = p.version /\ q.kind = p.kind /\ q.listed = p.listed /\ q.choice = t
        /\ q.columns = t
    BY <2>1, <2>2 DEF PickerState
  <2>4. \A a \in p.asked : a.nonce = p.nonce => AskFits(p, tab, a) /\ a.kind \in {"resolve", "objects", "columns"}
    BY <2>1 DEF PickerFits, PickerOver, PickerState, PickerAsk
  <2>5. \A a \in q.asked : a.nonce = q.nonce => AskFits(q, tab, a)
    BY <2>1, <2>3, <2>4 DEF AskFits
  <2>6. PickerFits(q, s, tab)
    BY <2>1, <2>3, <2>5 DEF PickerFits, PickerOver
  <2>7. QED
    BY <1>2, <2>2, <2>6 DEF Offer
<1>3. QED
  BY <1>1, <1>2

LEMMA OpenedFits ==
  ASSUME NEW p, NEW r, NEW other, PickerFits(p, r, other), active \in SQLs, NEW tab \in TextState,
         NEW kind \in {"table", "field", "join"}
  PROVE  PickerFits(OpenInlinePicker(p, tab, kind), active, tab)
<1> DEFINE c == CloseInlinePicker(p)
<1>1. PICK q : q = [c EXCEPT !.open = TRUE, !.sql = active, !.version = tab.version, !.kind = kind]
  OBVIOUS
<1>2. c \in PickerState /\ c.nonce = p.nonce + 1 /\ c.asked = p.asked /\ c.listed = FALSE /\ c.columns = NoTable
  <2>1. PickerFits(c, r, other) /\ c.nonce = p.nonce + 1 /\ c.asked = p.asked
        /\ c = [NoPicker EXCEPT !.nonce = p.nonce + 1, !.asked = p.asked]
    BY ClosedFits
  <2>2. c \in PickerState
    BY <2>1 DEF PickerFits, PickerOver
  <2>3. c.listed = NoPicker.listed /\ c.columns = NoPicker.columns
    <3>1. NoPicker \in PickerState
      BY DEF NoPicker, PickerState, Names
    <3>2. PICK d : d = [NoPicker EXCEPT !.nonce = p.nonce + 1]
      OBVIOUS
    <3>3. d.listed = NoPicker.listed /\ d.columns = NoPicker.columns /\ d \in [DOMAIN NoPicker -> {NoPicker[f] : f \in DOMAIN NoPicker} \cup {p.nonce + 1}]
      BY <3>2 DEF NoPicker
    <3> HIDE DEF c
    <3>4. c = [d EXCEPT !.asked = p.asked]
      BY <2>1, <3>2
    <3>5. QED
      BY <3>2, <3>3, <3>4 DEF NoPicker
  <2>4. QED
    BY <2>1, <2>2, <2>3 DEF NoPicker
<1>3. \A a \in p.asked : a.nonce \in Nat /\ a.nonce <= p.nonce /\ p.nonce \in Nat
  BY DEF PickerFits, PickerOver, PickerState, PickerAsk
<1>4. tab.version \in Nat /\ tab.table \in Names /\ tab.context \in Names
  BY DEF TextState
<1> HIDE DEF c
<1>5. /\ q \in PickerState /\ q.open = TRUE /\ q.sql = active /\ q.version = tab.version /\ q.kind = kind
      /\ q.nonce = c.nonce /\ q.asked = c.asked /\ q.listed = c.listed /\ q.columns = c.columns
  <2> DEFINE d == [c EXCEPT !.open = TRUE]
             e == [d EXCEPT !.sql = active]
             f == [e EXCEPT !.version = tab.version]
  <2>1. d \in PickerState /\ d.open = TRUE /\ d.nonce = c.nonce /\ d.asked = c.asked /\ d.listed = c.listed /\ d.columns = c.columns
    BY <1>2 DEF PickerState
  <2>2. q = [f EXCEPT !.kind = kind]
    BY <1>1
  <2> HIDE DEF d
  <2>3. e \in PickerState /\ e.open = TRUE /\ e.nonce = c.nonce /\ e.asked = c.asked /\ e.listed = c.listed /\ e.columns = c.columns
        /\ e.sql = active
    BY <2>1 DEF PickerState
  <2> HIDE DEF e
  <2>4. f \in PickerState /\ f.open = TRUE /\ f.nonce = c.nonce /\ f.asked = c.asked /\ f.listed = c.listed /\ f.columns = c.columns
        /\ f.sql = active /\ f.version = tab.version
    BY <1>4, <2>3 DEF PickerState
  <2> HIDE DEF f
  <2>5. QED
    BY <2>2, <2>4 DEF PickerState
<1>6. PickerFits(q, active, tab)
  BY <1>2, <1>3, <1>5 DEF PickerFits, PickerOver
<1>7. CASE kind = "table"
  <2>1. PickerFits(LoadInlineObjects(q, tab.context), active, tab)
    BY <1>4, <1>5, <1>6, <1>7, LoadsFit DEF PickerFits
  <2>2. QED
    BY <1>1, <1>7, <2>1 DEF OpenInlinePicker, c
<1>8. CASE kind # "table" /\ ContextMatchesTable(tab)
  <2>1. PickerFits(Offer(q, tab.table), active, tab)
    BY <1>4, <1>5, <1>6, <1>8, OfferFits
  <2>2. QED
    BY <1>1, <1>8, <2>1 DEF OpenInlinePicker, c
<1>9. CASE kind # "table" /\ ~ContextMatchesTable(tab)
  <2>1. AskFits(q, tab, [kind |-> "resolve", nonce |-> q.nonce, table |-> tab.table])
    BY <1>5, <1>9 DEF AskFits
  <2>2. PickerFits(Ask("resolve", q, tab.table), active, tab)
    BY <1>4, <1>6, <2>1, AskedFits
  <2>3. QED
    BY <1>1, <1>9, <2>2 DEF OpenInlinePicker, c
<1>10. QED
  BY <1>7, <1>8, <1>9

\* Of a text the picker looks at the table it names and at how often it has changed.
LEMMA SameTextFits ==
  ASSUME NEW p, NEW s, NEW tab, PickerFits(p, s, tab), NEW other, other.table = tab.table,
         other.version = tab.version
  PROVE  PickerFits(p, s, other)
  BY DEF PickerFits, PickerOver, AskFits

\* A picker that is not open fits any text; so does one that the text closes.
LEMMA LeftFits ==
  ASSUME NEW p, NEW s, NEW tab, PickerFits(p, s, tab), NEW r, NEW other
  PROVE  /\ ~p.open => PickerFits(p, r, other)
         /\ PickerFits(EditorChanged(p), r, other)
<1>1. PickerFits(CloseInlinePicker(p), r, other)
  BY ClosedFits
<1>2. ~p.open => PickerFits(p, r, other)
  BY DEF PickerFits, PickerOver
<1>3. QED
  BY <1>1, <1>2 DEF EditorChanged

\* The text of the active tab is written anew.
LEMMA WrittenKept ==
  ASSUME TextKept, NEW tab \in TextState, text' = [text EXCEPT ![active] = tab], active' = active
  PROVE  TextKept' /\ text'[active'] = tab
  BY DEF TextKept

LEMMA PickerAnsweredKept ==
  ASSUME PickerKept, NEW a \in picker.asked, PickerAnswered(a)
  PROVE  PickerKept'
<1> DEFINE tab == text[active]
           rest == [picker EXCEPT !.asked = @ \ {a}]
<1>1. TextKept /\ PickerFits(picker, active, tab) /\ picker \in PickerState /\ active \in SQLs /\ tab \in TextState
  BY DEF PickerKept, TextKept, PickerFits, PickerOver
<1>2. a \in PickerAsk
  BY <1>1 DEF PickerState
<1>3. /\ rest \in PickerState /\ rest.asked = picker.asked \ {a} /\ rest.open = picker.open
      /\ rest.nonce = picker.nonce /\ rest.sql = picker.sql /\ rest.version = picker.version
      /\ rest.kind = picker.kind /\ rest.listed = picker.listed /\ rest.choice = picker.choice
      /\ rest.columns = picker.columns
  BY <1>1 DEF PickerState
<1>4. active' = active /\ \/ PickerWaits(a) /\ (TableResolved(rest, a) \/ ObjectsListed(rest, a) \/ ColumnsRead(rest, a))
                          \/ picker' = rest /\ text' = text
  <2>1. CASE PickerWaits(a)
    BY <2>1 DEF PickerAnswered
  <2>2. CASE ~PickerWaits(a)
    BY <2>2 DEF PickerAnswered
  <2>3. QED
    BY <2>1, <2>2
<1> HIDE DEF rest, tab
<1>5. PickerFits(rest, active, tab)
  <2>1. \A b : AskFits(picker, tab, b) => AskFits(rest, tab, b)
    BY <1>3 DEF AskFits
  <2>2. PickerOver(rest, active, tab)
    BY <1>1, <1>3 DEF PickerFits, PickerOver
  <2>3. QED
    BY <1>1, <1>3, <2>1, <2>2 DEF PickerFits
<1>6. PickerWaits(a) => AskFits(rest, tab, a) /\ rest.open
  BY <1>1, <1>3 DEF PickerWaits, PickerFits, AskFits
<1>7. CASE picker' = rest /\ text' = text
  BY <1>1, <1>4, <1>5, <1>7 DEF PickerKept, TextKept, tab
<1>8. CASE PickerWaits(a) /\ TableResolved(rest, a)
  <2>1. a.kind = "resolve" /\ a.table = tab.table /\ rest.kind # "table" /\ rest.open
    BY <1>6, <1>8 DEF TableResolved, AskFits
  <2>2. CASE picker' = Offer(rest, a.table) /\ text' = [text EXCEPT ![active].context = a.table]
    <3> DEFINE new == [tab EXCEPT !.context = a.table]
    <3>1. new \in TextState /\ new.table = tab.table /\ new.version = tab.version
      BY <1>1, <1>2 DEF TextState, PickerAsk
    <3>2. text' = [text EXCEPT ![active] = new]
      BY <2>2 DEF tab
    <3> HIDE DEF new
    <3>3. TextKept' /\ text'[active'] = new
      BY <1>1, <1>4, <3>1, <3>2, WrittenKept
    <3>4. a.table \in Names
      BY <1>2 DEF PickerAsk
    <3>5. PickerFits(Offer(rest, a.table), active, tab)
      BY <1>5, <2>1, <3>4, OfferFits
    <3>6. PickerFits(Offer(rest, a.table), active, new)
      BY <3>1, <3>5, SameTextFits
    <3>7. QED
      BY <1>4, <2>2, <3>3, <3>6 DEF PickerKept
  <2>3. CASE /\ text' = [text EXCEPT ![active].context = NoTable]
             /\ picker' = LoadInlineObjects([rest EXCEPT !.kind = "table", !.pending = rest.kind], NoTable)
    <3> DEFINE new == [tab EXCEPT !.context = NoTable]
               d == [rest EXCEPT !.kind = "table"]
               e == [d EXCEPT !.pending = rest.kind]
    <3>1. new \in TextState /\ new.table = tab.table /\ new.version = tab.version
      BY <1>1 DEF TextState, Names
    <3>2. text' = [text EXCEPT ![active] = new]
      BY <2>3 DEF tab
    <3> HIDE DEF new
    <3>3. TextKept' /\ text'[active'] = new
      BY <1>1, <1>4, <3>1, <3>2, WrittenKept
    <3>4. /\ d \in PickerState /\ d.asked = rest.asked /\ d.open = rest.open /\ d.nonce = rest.nonce
          /\ d.sql = rest.sql /\ d.version = rest.version /\ d.kind = "table" /\ rest.kind \in {"table", "field", "join"}
      BY <1>3 DEF PickerState
    <3>5. picker' = LoadInlineObjects(e, NoTable)
      BY <2>3
    <3> HIDE DEF d
    <3>6. /\ e \in PickerState /\ e.asked = rest.asked /\ e.open = rest.open /\ e.nonce = rest.nonce
          /\ e.sql = rest.sql /\ e.version = rest.version /\ e.kind = "table"
      BY <3>4 DEF PickerState
    <3> HIDE DEF e
    <3>7. PickerOver(e, active, new)
      BY <1>5, <3>1, <3>6 DEF PickerFits, PickerOver
    <3>8. PickerFits(LoadInlineObjects(e, NoTable), active, new)
      BY <3>6, <3>7, LoadsFit DEF Names
    <3>9. QED
      BY <1>4, <3>3, <3>5, <3>8 DEF PickerKept
  <2>4. QED
    BY <1>8, <2>2, <2>3 DEF TableResolved
<1>9. CASE PickerWaits(a) /\ ObjectsListed(rest, a)
  <2>1. a.kind = "objects" /\ rest.kind # "field" /\ text' = text
    BY <1>6, <1>9 DEF ObjectsListed, AskFits
  <2>2. PICK t \in Names : picker' = LoadInlineMetadata(rest, t)
    BY <1>2, <1>9 DEF ObjectsListed, PickerAsk, Names
  <2>3. PickerFits(picker', active, tab)
    BY <1>5, <2>1, <2>2, LoadsFit DEF PickerFits
  <2>4. QED
    BY <1>1, <1>4, <2>1, <2>3 DEF PickerKept, TextKept, tab
<1>10. CASE PickerWaits(a) /\ ColumnsRead(rest, a)
  <2>1. a.kind = "columns" /\ rest.kind # "field" /\ text' = text /\ a.table = rest.choice
        /\ picker' = [rest EXCEPT !.columns = a.table]
    BY <1>6, <1>10 DEF ColumnsRead, AskFits
  <2>2. PICK q : q = [rest EXCEPT !.columns = a.table]
    OBVIOUS
  <2>3. /\ q \in PickerState /\ q.asked = rest.asked /\ q.open = rest.open /\ q.nonce = rest.nonce
        /\ q.sql = rest.sql /\ q.version = rest.version /\ q.kind = rest.kind /\ q.listed = rest.listed
        /\ q.choice = rest.choice /\ q.columns = a.table
    BY <1>2, <1>3, <2>2 DEF PickerState, PickerAsk
  <2>4. \A b : AskFits(rest, tab, b) => AskFits(q, tab, b)
    BY <2>3 DEF AskFits
  <2>5. PickerFits(q, active, tab)
    BY <1>5, <2>1, <2>3, <2>4 DEF PickerFits, PickerOver
  <2>6. QED
    BY <1>1, <1>4, <2>1, <2>2, <2>5 DEF PickerKept, TextKept, tab
<1>11. QED
  BY <1>4, <1>7, <1>8, <1>9, <1>10

\* The picker's own actions.
LEMMA PickerClicksKept ==
  ASSUME PickerKept,
         \/ \E kind \in {"table", "field", "join"} : OpenPicker(kind)
         \/ ChooseSource \/ ApplyInlinePicker \/ FillTemplate \/ LeavePicker
         \/ \E t \in Tables : ChooseTable(t) \/ TypeText(t)
  PROVE  PickerKept'
<1> DEFINE tab == text[active]
<1>1. TextKept /\ PickerFits(picker, active, tab) /\ picker \in PickerState /\ active \in SQLs /\ tab \in TextState
  BY DEF PickerKept, TextKept, PickerFits, PickerOver
<1>2. tab.table \in Names /\ tab.context \in Names /\ tab.version \in Nat
  BY <1>1 DEF TextState
<1>3. ASSUME active' = active, text' = text, PickerFits(picker', active, tab)
      PROVE  PickerKept'
  BY <1>1, <1>3 DEF PickerKept, TextKept
<1>4. ASSUME active' = active, NEW new \in TextState, text' = [text EXCEPT ![active] = new],
             PickerFits(picker', active, new)
      PROVE  PickerKept'
  BY <1>1, <1>4, WrittenKept DEF PickerKept
<1> HIDE DEF tab
<1>5. ASSUME NEW kind \in {"table", "field", "join"}, OpenPicker(kind) PROVE PickerKept'
  <2>1. active' = active /\ text' = text /\ picker' = OpenInlinePicker(picker, tab, kind)
    BY <1>5 DEF OpenPicker, tab
  <2>2. QED
    BY <1>1, <1>3, <2>1, OpenedFits
<1>6. CASE ChooseSource
  <2>1. active' = active /\ text' = text /\ picker' = LoadInlineObjects(picker, NoTable) /\ picker.kind = "table"
    BY <1>6 DEF ChooseSource
  <2>2. PickerOver(picker, active, tab) /\ NoTable \in Names
    BY <1>1 DEF PickerFits, Names
  <2>3. QED
    BY <1>3, <2>1, <2>2, LoadsFit
<1>7. CASE LeavePicker
  BY <1>1, <1>3, <1>7, ClosedFits DEF LeavePicker
<1>8. ASSUME NEW t \in Tables, ChooseTable(t) PROVE PickerKept'
  <2>1. active' = active /\ text' = text /\ picker' = LoadInlineMetadata(picker, t) /\ picker.open /\ picker.listed
    BY <1>8 DEF ChooseTable
  <2>2. PickerOver(picker, active, tab) /\ t \in Names /\ picker.kind # "field"
    BY <1>1, <2>1 DEF PickerFits, Names
  <2>3. QED
    BY <1>3, <2>1, <2>2, LoadsFit
<1>9. ASSUME NEW t \in Tables, TypeText(t) PROVE PickerKept'
  <2> DEFINE new == Written(tab, t, tab.context)
  <2>1. active' = active /\ text' = [text EXCEPT ![active] = new] /\ picker' = EditorChanged(picker)
    BY <1>9 DEF TypeText, tab
  <2>2. new \in TextState
    BY <1>2 DEF Written, TextState, Names
  <2> HIDE DEF new
  <2>3. PickerFits(picker', active, new)
    BY <1>1, <2>1, LeftFits
  <2>4. QED
    BY <1>4, <2>1, <2>2, <2>3
<1>10. CASE FillTemplate
  <2>1. PICK t \in Names : text' = [text EXCEPT ![active] = Written(@, t, t)]
    BY <1>2, <1>10 DEF FillTemplate, tab, Names
  <2> DEFINE new == Written(tab, t, t)
  <2>2. active' = active /\ text' = [text EXCEPT ![active] = new] /\ picker' = CloseInlinePicker(picker)
    BY <1>10, <2>1 DEF FillTemplate, tab
  <2>3. new \in TextState
    BY <1>2 DEF Written, TextState
  <2> HIDE DEF new
  <2>4. PickerFits(picker', active, new)
    BY <1>1, <2>2, ClosedFits
  <2>5. QED
    BY <1>4, <2>2, <2>3, <2>4
<1>11. CASE ApplyInlinePicker
  <2> DEFINE new == IF picker.kind = "join" THEN [tab EXCEPT !.version = @ + 1]
                    ELSE [table |-> IF picker.kind = "table" THEN picker.columns ELSE tab.table,
                          context |-> picker.columns, version |-> tab.version + 1]
  <2>1. /\ active' = active /\ text' = [text EXCEPT ![active] = new]
        /\ picker' = IF picker.pending = "none" THEN CloseInlinePicker(picker)
                     ELSE OpenInlinePicker(CloseInlinePicker(picker), new, picker.pending)
    BY <1>11 DEF ApplyInlinePicker, tab
  <2>2. new \in TextState
    <3>1. picker.columns \in Names
      BY <1>1 DEF PickerState
    <3>2. CASE picker.kind = "join"
      BY <1>1, <3>2 DEF TextState
    <3>3. CASE picker.kind = "table"
      BY <1>2, <3>1, <3>3 DEF TextState
    <3>4. CASE picker.kind \notin {"join", "table"}
      BY <1>2, <3>1, <3>4 DEF TextState
    <3>5. QED
      BY <3>2, <3>3, <3>4
  <2> HIDE DEF new
  <2>3. PickerFits(CloseInlinePicker(picker), active, new)
    BY <1>1, ClosedFits
  <2>4. CASE picker.pending = "none"
    BY <1>4, <2>1, <2>2, <2>3, <2>4
  <2>5. CASE picker.pending # "none"
    <3>1. picker.pending \in {"table", "field", "join"}
      BY <1>1, <2>5 DEF PickerState
    <3>2. PickerFits(OpenInlinePicker(CloseInlinePicker(picker), new, picker.pending), active, new)
      BY <1>1, <2>2, <2>3, <3>1, OpenedFits
    <3>3. QED
      BY <1>4, <2>1, <2>2, <2>5, <3>2
  <2>6. QED
    BY <2>4, <2>5
<1>12. QED
  BY <1>5, <1>6, <1>7, <1>8, <1>9, <1>10, <1>11

(***************************************************************************)
(* The designer and the form of a connection.                              *)
(***************************************************************************)
DesignerAsk == [kind : {"objects", "columns", "preview", "apply"}, nonce : Nat, mode : Nat, form : Nat, table : Names]
DesignerState ==
  [open : BOOLEAN, mode : Nat, made : Nat, sql : SQLs \cup {NoSQL}, nonce : Nat, listed : BOOLEAN,
   loading : BOOLEAN, target : Names, form : Nat, preview : Nat,
   plan : [form : Nat, mode : Nat, target : Names], sent : BOOLEAN, asked : SUBSET DesignerAsk]

Planned(d) ==
  d.plan # NoPlan => d.open /\ d.plan.form = d.form /\ d.plan.mode = d.mode /\ d.plan.target = d.target
\* A preview that is still awaited is of the form as it stands; every other is of an
\* earlier count.
Counted(d) == \A a \in d.asked : a.kind = "preview" => a.nonce <= d.preview
Awaited(d) ==
  /\ Counted(d)
  /\ \A a \in d.asked : a.kind = "preview" /\ a.nonce = d.preview /\ a.mode = d.mode /\ d.open =>
       a.form = d.form /\ a.table = d.target

\* A count that has gone on outdates every preview asked for.
LEMMA ClearedKept ==
  ASSUME NEW d, d \in DesignerState, Counted(d), NEW e, e \in DesignerState, e.plan = NoPlan,
         e.preview > d.preview, e.asked \subseteq d.asked
  PROVE  Planned(e) /\ Awaited(e)
<1>1. d.preview \in Nat /\ e.preview \in Nat /\ \A a \in d.asked : a.nonce \in Nat
  BY DEF DesignerState, DesignerAsk
<1>2. QED
  BY <1>1 DEF Planned, Awaited, Counted

\* A request that is not of a preview.
LEMMA DrawnKept ==
  ASSUME NEW d, d \in DesignerState, Planned(d), Awaited(d), NEW kind \in {"objects", "columns", "apply"},
         NEW nonce \in Nat, NEW t \in Names
  PROVE  LET e == Draw(kind, nonce, d, t)
         IN  e \in DesignerState /\ Planned(e) /\ Awaited(e)
<1> DEFINE a == [kind |-> kind, nonce |-> nonce, mode |-> d.mode, form |-> d.form, table |-> t]
           e == Draw(kind, nonce, d, t)
<1>1. a \in DesignerAsk /\ a.kind # "preview"
  BY DEF DesignerAsk, DesignerState
<1>2. e = [d EXCEPT !.asked = @ \cup {a}]
  BY DEF Draw
<1> HIDE DEF a, e
<1>3. e \in DesignerState
  BY <1>1, <1>2 DEF DesignerState
<1>4. e.plan = d.plan /\ e.open = d.open /\ e.form = d.form /\ e.mode = d.mode /\ e.target = d.target
      /\ e.preview = d.preview /\ e.asked = d.asked \cup {a}
  BY <1>2 DEF DesignerState
<1>5. QED
  BY <1>1, <1>3, <1>4 DEF Planned, Awaited, Counted, e

\* What the designer does to itself keeps its shape and never sets back the count.
LEMMA DesignerShapes ==
  ASSUME NEW d, d \in DesignerState
  PROVE  /\ LET e == ClearPlan(d)
            IN  /\ e \in DesignerState /\ e.plan = NoPlan /\ e.preview = d.preview + 1 /\ e.asked = d.asked
                /\ e.open = d.open /\ e.mode = d.mode /\ e.form = d.form /\ e.target = d.target
                /\ e.nonce = d.nonce
         /\ LET e == ResetTemplateDesigner(d)
            IN  e \in DesignerState /\ e.preview = d.preview /\ e.asked = d.asked
<1>1. NoPlan \in [form : Nat, mode : Nat, target : Names]
  BY DEF NoPlan, Names
<1>2. LET e == ClearPlan(d)
      IN  /\ e \in DesignerState /\ e.plan = NoPlan /\ e.preview = d.preview + 1 /\ e.asked = d.asked
          /\ e.open = d.open /\ e.mode = d.mode /\ e.form = d.form /\ e.target = d.target /\ e.nonce = d.nonce
  <2> DEFINE f == [d EXCEPT !.preview = @ + 1]
             g == [f EXCEPT !.plan = NoPlan]
             e == ClearPlan(d)
  <2>1. /\ f \in DesignerState /\ f.preview = d.preview + 1 /\ f.asked = d.asked
        /\ f.open = d.open /\ f.mode = d.mode /\ f.form = d.form /\ f.target = d.target /\ f.nonce = d.nonce
    BY DEF DesignerState
  <2>2. e = [g EXCEPT !.sent = FALSE]
    BY DEF ClearPlan
  <2> HIDE DEF f
  <2>3. /\ g \in DesignerState /\ g.preview = d.preview + 1 /\ g.asked = d.asked /\ g.plan = NoPlan
        /\ g.open = d.open /\ g.mode = d.mode /\ g.form = d.form /\ g.target = d.target /\ g.nonce = d.nonce
    BY <1>1, <2>1 DEF DesignerState
  <2> HIDE DEF g, e
  <2>4. e \in DesignerState
    BY <2>2, <2>3 DEF DesignerState
  <2>5. /\ e.preview = d.preview + 1 /\ e.asked = d.asked /\ e.plan = NoPlan
        /\ e.open = d.open /\ e.mode = d.mode /\ e.form = d.form /\ e.target = d.target /\ e.nonce = d.nonce
    BY <2>2, <2>3 DEF DesignerState
  <2>6. QED
    BY <2>4, <2>5 DEF e
<1>3. LET e == ResetTemplateDesigner(d)
      IN  e \in DesignerState /\ e.preview = d.preview /\ e.asked = d.asked
  <2> DEFINE f == [d EXCEPT !.nonce = @ + 1]
             g == [f EXCEPT !.mode = 0]
             h == [g EXCEPT !.sql = NoSQL]
             e == ResetTemplateDesigner(d)
  <2>1. f \in DesignerState /\ f.preview = d.preview /\ f.asked = d.asked
    BY DEF DesignerState
  <2>2. e = [h EXCEPT !.loading = FALSE]
    BY DEF ResetTemplateDesigner
  <2> HIDE DEF f
  <2>3. g \in DesignerState /\ g.preview = d.preview /\ g.asked = d.asked
    BY <2>1 DEF DesignerState
  <2> HIDE DEF g
  <2>4. h \in DesignerState /\ h.preview = d.preview /\ h.asked = d.asked
    BY <2>3 DEF DesignerState
  <2> HIDE DEF h, e
  <2>5. e \in DesignerState /\ e.preview = d.preview /\ e.asked = d.asked
    BY <2>2, <2>4 DEF DesignerState
  <2>6. QED
    BY <2>5 DEF e
<1>4. QED
  BY <1>2, <1>3

\* Closing, loading and editing clear the plan.
Clears(d, e) ==
  e \in DesignerState /\ e.plan = NoPlan /\ e.preview = d.preview + 1 /\ e.asked = d.asked
DesignKept(d) == d \in DesignerState /\ Planned(d) /\ Awaited(d)

LEMMA ClearsKept ==
  ASSUME NEW d, d \in DesignerState, Counted(d), NEW e, Clears(d, e)
  PROVE  DesignKept(e)
<1>1. d.preview \in Nat
  BY DEF DesignerState
<1>2. e \in DesignerState /\ e.plan = NoPlan /\ e.preview > d.preview /\ e.asked \subseteq d.asked
  BY <1>1 DEF Clears
<1>3. QED
  BY <1>2, ClearedKept DEF DesignKept

LEMMA DesignerClears ==
  ASSUME NEW d, d \in DesignerState
  PROVE  /\ Clears(d, CloseDialog(d))
         /\ \A listed \in BOOLEAN : Clears(d, LoadsSchema(d, listed))
         /\ Clears(d, FormChanged(d))
<1>1. NoTable \in Names
  BY DEF Names
<1>2. Clears(d, CloseDialog(d))
  <2> DEFINE r == ResetTemplateDesigner(d)
             f == [r EXCEPT !.open = FALSE]
             g == [f EXCEPT !.listed = FALSE]
             h == [g EXCEPT !.target = NoTable]
  <2>1. r \in DesignerState /\ r.preview = d.preview /\ r.asked = d.asked
    BY DesignerShapes
  <2>2. CloseDialog(d) = ClearPlan(h)
    BY DEF CloseDialog
  <2> HIDE DEF r
  <2>3. f \in DesignerState /\ f.preview = d.preview /\ f.asked = d.asked
    BY <2>1 DEF DesignerState
  <2> HIDE DEF f
  <2>4. g \in DesignerState /\ g.preview = d.preview /\ g.asked = d.asked
    BY <2>3 DEF DesignerState
  <2> HIDE DEF g
  <2>5. h \in DesignerState /\ h.preview = d.preview /\ h.asked = d.asked
    BY <1>1, <2>4 DEF DesignerState
  <2> HIDE DEF h
  <2>6. QED
    BY <2>2, <2>5, DesignerShapes DEF Clears
<1>3. ASSUME NEW listed \in BOOLEAN PROVE Clears(d, LoadsSchema(d, listed))
  <2> DEFINE f == [d EXCEPT !.nonce = @ + 1]
             g == [f EXCEPT !.listed = listed]
             h == [g EXCEPT !.loading = TRUE]
             i == [h EXCEPT !.target = NoTable]
  <2>1. LoadsSchema(d, listed) = ClearPlan(i)
    BY DEF LoadsSchema
  <2>2. f \in DesignerState /\ f.preview = d.preview /\ f.asked = d.asked
    BY DEF DesignerState
  <2> HIDE DEF f
  <2>3. g \in DesignerState /\ g.preview = d.preview /\ g.asked = d.asked
    BY <2>2 DEF DesignerState
  <2> HIDE DEF g
  <2>4. h \in DesignerState /\ h.preview = d.preview /\ h.asked = d.asked
    BY <2>3 DEF DesignerState
  <2> HIDE DEF h
  <2>5. i \in DesignerState /\ i.preview = d.preview /\ i.asked = d.asked
    BY <1>1, <2>4 DEF DesignerState
  <2> HIDE DEF i
  <2>6. QED
    BY <2>1, <2>5, DesignerShapes DEF Clears
<1>4. Clears(d, FormChanged(d))
  <2> DEFINE f == [d EXCEPT !.form = @ + 1]
  <2>1. f \in DesignerState /\ f.preview = d.preview /\ f.asked = d.asked
    BY DEF DesignerState
  <2>2. FormChanged(d) = ClearPlan(f)
    BY DEF FormChanged
  <2> HIDE DEF f
  <2>3. QED
    BY <2>1, <2>2, DesignerShapes DEF Clears
<1>5. QED
  BY <1>2, <1>3, <1>4

\* A list of tables or columns that is asked for.
LEMMA SchemaLoadsKept ==
  ASSUME NEW d, d \in DesignerState, Counted(d)
  PROVE  /\ DesignKept(LoadTemplateSchemaObjects(d))
         /\ \A t \in Names : DesignKept(LoadTemplateSchemaColumns(d, t))
<1>1. d.nonce + 1 \in Nat /\ NoTable \in Names
  BY DEF DesignerState, Names
<1>2. ASSUME NEW listed \in BOOLEAN, NEW kind \in {"objects", "columns"}, NEW t \in Names
      PROVE  DesignKept(Draw(kind, d.nonce + 1, LoadsSchema(d, listed), t))
  <2>1. DesignKept(LoadsSchema(d, listed))
    BY DesignerClears, ClearsKept
  <2>2. QED
    BY <1>1, <2>1, DrawnKept DEF DesignKept
<1>3. \A kind \in {"objects", "columns"}, t \in Names :
        /\ DesignKept(Draw(kind, d.nonce + 1, LoadsSchema(d, FALSE), t))
        /\ DesignKept(Draw(kind, d.nonce + 1, LoadsSchema(d, TRUE), t))
  BY <1>2
<1>4. QED
  BY <1>1, <1>3 DEF LoadTemplateSchemaObjects, LoadTemplateSchemaColumns

LEMMA DesignerClicksKept ==
  ASSUME DesignKept(designer), active \in SQLs,
         \/ \E t \in Tables : OpenDesigner(t) \/ ChooseSchemaTable(t)
         \/ OpenTemplateDesigner \/ ChooseSchemaSource \/ EditForm \/ PreviewSchema \/ ApplyPlan \/ CloseDesigner
  PROVE  DesignKept(designer')
<1> DEFINE d == designer
<1>1. d \in DesignerState /\ Planned(d) /\ Awaited(d) /\ Counted(d) /\ d.preview \in Nat
  BY DEF DesignKept, DesignerState, Awaited
<1>2. ASSUME NEW t \in Tables, OpenDesigner(t) PROVE DesignKept(designer')
  <2> DEFINE r == ResetTemplateDesigner(d)
             f == [r EXCEPT !.open = TRUE]
             g == [f EXCEPT !.target = t]
             h == [g EXCEPT !.form = @ + 1]
  <2>1. r \in DesignerState /\ r.preview = d.preview /\ r.asked = d.asked
    BY <1>1, DesignerShapes
  <2>2. designer' = ClearPlan(h)
    BY <1>2 DEF OpenDesigner
  <2> HIDE DEF r
  <2>3. f \in DesignerState /\ f.preview = d.preview /\ f.asked = d.asked
    BY <2>1 DEF DesignerState
  <2> HIDE DEF f
  <2>4. g \in DesignerState /\ g.preview = d.preview /\ g.asked = d.asked
    BY <2>3 DEF DesignerState, Names
  <2> HIDE DEF g
  <2>5. h \in DesignerState /\ h.preview = d.preview /\ h.asked = d.asked
    BY <2>4 DEF DesignerState
  <2> HIDE DEF h
  <2>6. Clears(d, designer')
    BY <2>2, <2>5, DesignerShapes DEF Clears
  <2>7. QED
    BY <1>1, <2>6, ClearsKept
<1>3. CASE OpenTemplateDesigner
  <2> DEFINE f == [d EXCEPT !.open = TRUE]
             g == [f EXCEPT !.made = @ + 1]
             h == [g EXCEPT !.mode = d.made + 1]
             i == [h EXCEPT !.sql = active]
             j == [i EXCEPT !.form = @ + 1]
  <2>1. designer' = LoadTemplateSchemaObjects(
          [d EXCEPT !.open = TRUE, !.made = @ + 1, !.mode = d.made + 1, !.sql = active, !.form = @ + 1])
        /\ ~d.open
    BY <1>3 DEF OpenTemplateDesigner
  <2>2. designer' = LoadTemplateSchemaObjects(j)
    BY <2>1
  <2>3. f \in DesignerState /\ f.preview = d.preview /\ f.asked = d.asked /\ f.made = d.made
    BY <1>1 DEF DesignerState
  <2> HIDE DEF f
  <2>4. g \in DesignerState /\ g.preview = d.preview /\ g.asked = d.asked /\ d.made \in Nat
    BY <1>1, <2>3 DEF DesignerState
  <2> HIDE DEF g
  <2>5. h \in DesignerState /\ h.preview = d.preview /\ h.asked = d.asked
    BY <2>4 DEF DesignerState
  <2> HIDE DEF h
  <2>6. i \in DesignerState /\ i.preview = d.preview /\ i.asked = d.asked
    BY <2>5 DEF DesignerState
  <2> HIDE DEF i
  <2>7. j \in DesignerState /\ j.preview = d.preview /\ j.asked = d.asked
    BY <2>6 DEF DesignerState
  <2> HIDE DEF j
  <2>8. Counted(j)
    BY <1>1, <2>7 DEF Counted
  <2>9. QED
    BY <2>2, <2>7, <2>8, SchemaLoadsKept
<1>4. CASE ChooseSchemaSource
  BY <1>1, <1>4, SchemaLoadsKept DEF ChooseSchemaSource
<1>5. ASSUME NEW t \in Tables, ChooseSchemaTable(t) PROVE DesignKept(designer')
  BY <1>1, <1>5, SchemaLoadsKept DEF ChooseSchemaTable, Names
<1>6. CASE EditForm
  BY <1>1, <1>6, DesignerClears, ClearsKept DEF EditForm
<1>7. CASE PreviewSchema
  <2> DEFINE c == ClearPlan(d)
             next == [c EXCEPT !.preview = @ + 1]
             a == [kind |-> "preview", nonce |-> next.preview, mode |-> next.mode, form |-> next.form, table |-> next.target]
  <2>1. /\ c \in DesignerState /\ c.plan = NoPlan /\ c.preview = d.preview + 1 /\ c.asked = d.asked
    BY <1>1, DesignerShapes
  <2>2. designer' = Draw("preview", next.preview, next, next.target)
    BY <1>7 DEF PreviewSchema
  <2> HIDE DEF c
  <2>3. next \in DesignerState /\ next.plan = NoPlan /\ next.preview = d.preview + 2 /\ next.asked = d.asked
    BY <1>1, <2>1 DEF DesignerState
  <2> HIDE DEF next
  <2>4. a \in DesignerAsk
    BY <2>3 DEF DesignerState, DesignerAsk
  <2>5. designer' = [next EXCEPT !.asked = @ \cup {a}]
    BY <2>2 DEF Draw
  <2>6. a.nonce = next.preview /\ a.form = next.form /\ a.table = next.target
    OBVIOUS
  <2> HIDE DEF a
  <2>7. designer' \in DesignerState
    BY <2>3, <2>4, <2>5 DEF DesignerState
  <2>8. /\ designer'.plan = NoPlan /\ designer'.preview = next.preview /\ designer'.asked = d.asked \cup {a}
        /\ designer'.form = next.form /\ designer'.target = next.target
    BY <2>3, <2>5 DEF DesignerState
  <2>9. \A b \in d.asked : b.nonce \in Nat /\ (b.kind = "preview" => b.nonce <= d.preview)
    BY <1>1 DEF DesignerState, DesignerAsk, Awaited, Counted
  <2>10. Awaited(designer')
    BY <1>1, <2>3, <2>6, <2>8, <2>9 DEF Awaited, Counted
  <2>11. QED
    BY <2>7, <2>8, <2>10 DEF DesignKept, Planned
<1>8. CASE ApplyPlan
  <2>1. CASE designer' = [Draw("apply", 0, d, d.plan.target) EXCEPT !.sent = TRUE]
    <3> DEFINE e == Draw("apply", 0, d, d.plan.target)
    <3>1. d.plan.target \in Names /\ 0 \in Nat
      BY <1>1 DEF DesignerState
    <3>2. e \in DesignerState /\ Planned(e) /\ Awaited(e)
      BY <1>1, <3>1, DrawnKept
    <3> HIDE DEF e
    <3>3. designer' = [e EXCEPT !.sent = TRUE]
      BY <2>1 DEF e
    <3>4. designer' \in DesignerState
      BY <3>2, <3>3 DEF DesignerState
    <3>5. /\ designer'.plan = e.plan /\ designer'.preview = e.preview /\ designer'.asked = e.asked
          /\ designer'.form = e.form /\ designer'.target = e.target /\ designer'.open = e.open /\ designer'.mode = e.mode
      BY <3>2, <3>3 DEF DesignerState
    <3>6. Planned(designer') /\ Awaited(designer')
      BY <3>2, <3>5 DEF Planned, Awaited, Counted
    <3>7. QED
      BY <3>4, <3>6 DEF DesignKept
  <2>2. CASE designer' = CloseDialog(d)
    BY <1>1, <2>2, DesignerClears, ClearsKept
  <2>3. QED
    BY <1>8, <2>1, <2>2 DEF ApplyPlan
<1>9. CASE CloseDesigner
  BY <1>1, <1>9, DesignerClears, ClearsKept DEF CloseDesigner
<1>10. QED
  BY <1>2, <1>3, <1>4, <1>5, <1>6, <1>7, <1>8, <1>9

LEMMA DesignerAnsweredKept ==
  ASSUME DesignKept(designer), NEW a \in designer.asked, DesignerAnswered(a)
  PROVE  DesignKept(designer')
<1> DEFINE rest == [designer EXCEPT !.asked = @ \ {a}]
<1>1. designer \in DesignerState /\ Planned(designer) /\ Awaited(designer) /\ a \in DesignerAsk
  BY DEF DesignKept, DesignerState
<1>2. /\ rest \in DesignerState /\ rest.plan = designer.plan /\ rest.preview = designer.preview
      /\ rest.asked = designer.asked \ {a} /\ rest.form = designer.form /\ rest.target = designer.target
      /\ rest.open = designer.open /\ rest.mode = designer.mode
  BY <1>1 DEF DesignerState
<1>3. \/ a.kind = "preview" /\ designer' = PreviewRead(rest, a)
      \/ designer' = CloseDialog(rest) \/ designer' = ClearPlan(rest)
      \/ \E t \in Tables : designer' = LoadTemplateSchemaColumns(rest, t)
      \/ designer' = FormChanged([rest EXCEPT !.target = a.table, !.loading = FALSE])
      \/ designer' = rest
  BY DEF DesignerAnswered
<1> HIDE DEF rest
<1>4. DesignKept(rest) /\ Counted(rest)
  BY <1>1, <1>2 DEF DesignKept, Planned, Awaited, Counted
<1>5. CASE a.kind = "preview" /\ designer' = PreviewRead(rest, a)
  <2>1. CASE a.nonce = rest.preview /\ a.mode = rest.mode /\ rest.open
    <3>1. a.form = rest.form /\ a.table = rest.target
      BY <1>1, <1>2, <1>5, <2>1 DEF Awaited, Counted
    <3> DEFINE plan == [form |-> a.form, mode |-> a.mode, target |-> a.table]
               f == [rest EXCEPT !.plan = plan]
    <3>2. plan \in [form : Nat, mode : Nat, target : Names]
      BY <1>1 DEF DesignerAsk
    <3>3. designer' = [f EXCEPT !.sent = FALSE]
      BY <1>5, <2>1 DEF PreviewRead
    <3>4. plan.form = rest.form /\ plan.mode = rest.mode /\ plan.target = rest.target
      BY <2>1, <3>1
    <3> HIDE DEF plan
    <3>5. /\ f \in DesignerState /\ f.plan = plan /\ f.preview = rest.preview
          /\ f.asked = rest.asked /\ f.form = rest.form /\ f.target = rest.target
          /\ f.open = rest.open /\ f.mode = rest.mode
      BY <1>2, <3>2 DEF DesignerState
    <3> HIDE DEF f
    <3>6. designer' \in DesignerState
      BY <3>3, <3>5 DEF DesignerState
    <3>7. /\ designer'.plan = plan /\ designer'.preview = rest.preview
          /\ designer'.asked = rest.asked /\ designer'.form = rest.form /\ designer'.target = rest.target
          /\ designer'.open = rest.open /\ designer'.mode = rest.mode
      BY <3>3, <3>5 DEF DesignerState
    <3>8. Planned(designer') /\ Awaited(designer')
      BY <1>4, <2>1, <3>4, <3>7 DEF DesignKept, Planned, Awaited, Counted
    <3>9. QED
      BY <3>6, <3>8 DEF DesignKept
  <2>2. CASE ~ (a.nonce = rest.preview /\ a.mode = rest.mode /\ rest.open)
    BY <1>4, <1>5, <2>2 DEF PreviewRead
  <2>3. QED
    BY <2>1, <2>2
<1>6. CASE designer' = CloseDialog(rest)
  BY <1>4, <1>6, DesignerClears, ClearsKept DEF DesignKept
<1>7. CASE designer' = ClearPlan(rest)
  <2>1. Clears(rest, ClearPlan(rest))
    BY <1>2, DesignerShapes DEF Clears
  <2>2. QED
    BY <1>4, <1>7, <2>1, ClearsKept DEF DesignKept
<1>8. ASSUME NEW t \in Tables, designer' = LoadTemplateSchemaColumns(rest, t) PROVE DesignKept(designer')
  BY <1>4, <1>8, SchemaLoadsKept DEF DesignKept, Names
<1>9. CASE designer' = FormChanged([rest EXCEPT !.target = a.table, !.loading = FALSE])
  <2> DEFINE f == [rest EXCEPT !.target = a.table]
             g == [f EXCEPT !.loading = FALSE]
  <2>1. f \in DesignerState /\ f.preview = rest.preview /\ f.asked = rest.asked
    BY <1>1, <1>2 DEF DesignerState, DesignerAsk
  <2>2. designer' = FormChanged(g)
    BY <1>9
  <2> HIDE DEF f
  <2>3. g \in DesignerState /\ g.preview = rest.preview /\ g.asked = rest.asked
    BY <2>1 DEF DesignerState
  <2> HIDE DEF g
  <2>4. Clears(g, designer')
    BY <2>2, <2>3, DesignerClears
  <2>5. Clears(rest, designer')
    BY <2>3, <2>4 DEF Clears
  <2>6. QED
    BY <1>4, <2>5, ClearsKept DEF DesignKept
<1>10. QED
  BY <1>3, <1>4, <1>5, <1>6, <1>7, <1>8, <1>9

PasswordKept == password.value \in {NoProfile, password.form}

\* What every step around the SQL keeps.
EditorKept == PickerKept /\ DesignKept(designer) /\ PasswordKept

\* The steps that are of neither the picker nor the designer leave the picker closed or
\* alone.
LEMMA OthersKeepPicker ==
  ASSUME PickerKept, DesignKept(designer),
         \/ \E s \in SQLs : SelectTab(s) \/ CreateTab(s) \/ EndQuery(s)
         \/ StartQuery \/ ClearTargets \/ (\E d \in Databases : ToggleTarget(d) \/ FocusDatabase(d))
         \/ \E p \in Connections : \/ ExpandProfile(p) \/ OpenConnectionForm(p)
                                 \/ \E ok \in BOOLEAN : \/ ToggleGroup(p, ok)
                                                        \/ \E n \in Requests(p) : CatalogRead(p, n, ok)
         \/ \E kind \in {"save", "delete", "list"} : SendConnection(kind)
         \/ \E r \in changes : ConnectionChanged(r) \/ ConnectionsListed(r) \/ ConnectionFailed(r)
         \/ \E t \in Tables : OpenDesigner(t) \/ ChooseSchemaTable(t)
         \/ OpenTemplateDesigner \/ ChooseSchemaSource \/ EditForm \/ PreviewSchema \/ ApplyPlan \/ CloseDesigner
         \/ \E a \in designer.asked : DesignerAnswered(a)
         \/ CloseConnectionForm \/ TypePassword \/ ToggleConnectionPassword
         \/ \E a \in password.asked, ok \in BOOLEAN : PasswordRead(a, ok)
  PROVE  PickerKept'
<1> DEFINE tab == text[active]
<1>1. /\ TextKept /\ PickerFits(picker, active, tab) /\ active \in SQLs /\ tab \in TextState
      /\ text \in [SQLs -> TextState]
  BY DEF PickerKept, TextKept
<1>2. ASSUME UNCHANGED <<active, text, picker>> PROVE PickerKept'
  BY <1>1, <1>2 DEF PickerKept, TextKept, tab
<1>3. ASSUME active' \in SQLs, UNCHANGED text, picker' = CloseInlinePicker(picker) PROVE PickerKept'
  <2>1. TextKept'
    BY <1>1, <1>3 DEF TextKept
  <2>2. PickerFits(picker', active', text'[active'])
    BY <1>1, <1>3, ClosedFits
  <2>3. QED
    BY <2>1, <2>2 DEF PickerKept
<1>4. ASSUME NEW s \in SQLs, SelectTab(s) \/ CreateTab(s) \/ EndQuery(s) PROVE PickerKept'
  BY <1>2, <1>3, <1>4 DEF SelectTab, CreateTab, ActivateTab, EndQuery
<1>5. CASE StartQuery \/ OpenTemplateDesigner
  BY <1>1, <1>3, <1>5 DEF StartQuery, OpenTemplateDesigner
<1>6. CASE \/ ClearTargets \/ (\E d \in Databases : ToggleTarget(d) \/ FocusDatabase(d))
           \/ \E p \in Connections : \/ ExpandProfile(p) \/ OpenConnectionForm(p)
                                   \/ \E ok \in BOOLEAN : \/ ToggleGroup(p, ok)
                                                          \/ \E n \in Requests(p) : CatalogRead(p, n, ok)
           \/ \E kind \in {"save", "delete", "list"} : SendConnection(kind)
           \/ \E r \in changes : ConnectionsListed(r) \/ ConnectionFailed(r)
  BY <1>2, <1>6 DEF ClearTargets, ToggleTarget, FocusDatabase, ExpandProfile, OpenConnectionForm, ToggleGroup,
     CatalogRead, SendConnection, ConnectionsListed, ConnectionFailed
<1>7. CASE \/ \E t \in Tables : OpenDesigner(t) \/ ChooseSchemaTable(t)
           \/ ChooseSchemaSource \/ EditForm \/ PreviewSchema \/ CloseDesigner
           \/ \E a \in designer.asked : DesignerAnswered(a)
  BY <1>2, <1>7 DEF OpenDesigner, ChooseSchemaTable, ChooseSchemaSource, EditForm, PreviewSchema, CloseDesigner,
     DesignerAnswered
<1>8. CASE \/ CloseConnectionForm \/ TypePassword \/ ToggleConnectionPassword
           \/ \E a \in password.asked, ok \in BOOLEAN : PasswordRead(a, ok)
  BY <1>2, <1>8 DEF CloseConnectionForm, TypePassword, ToggleConnectionPassword, PasswordRead
<1>9. CASE ApplyPlan
  <2>1. active' = active
    BY <1>9 DEF ApplyPlan
  <2>2. CASE UNCHANGED <<text, picker>>
    BY <1>2, <2>1, <2>2
  <2>3. CASE /\ text' = [text EXCEPT ![active] = Written(@, designer.plan.target, designer.plan.target)]
             /\ picker' = EditorChanged(picker)
    <3> DEFINE new == Written(tab, designer.plan.target, designer.plan.target)
    <3>1. designer.plan.target \in Names /\ tab.version \in Nat
      BY <1>1 DEF DesignKept, DesignerState, TextState
    <3>2. new \in TextState /\ text' = [text EXCEPT ![active] = new]
      BY <2>3, <3>1 DEF Written, TextState
    <3> HIDE DEF new
    <3>3. TextKept' /\ text'[active'] = new
      BY <1>1, <2>1, <3>2, WrittenKept
    <3>4. PickerFits(picker', active', new)
      BY <1>1, <2>3, LeftFits
    <3>5. QED
      BY <3>3, <3>4 DEF PickerKept
  <2>4. QED
    BY <1>9, <2>2, <2>3 DEF ApplyPlan
<1>10. ASSUME NEW r \in changes, ConnectionChanged(r) PROVE PickerKept'
  <2> DEFINE contexts == {t \in Tables : ProfileOf[DatabaseOf[t]] = r.profile}
  <2>1. /\ UNCHANGED <<active, picker>>
        /\ text' = [s \in SQLs |-> IF text[s].context \in contexts THEN [text[s] EXCEPT !.context = NoTable]
                                   ELSE text[s]]
    BY <1>10 DEF ConnectionChanged
  <2>2. ASSUME NEW s \in SQLs
        PROVE  text'[s] \in TextState /\ text'[s].table = text[s].table /\ text'[s].version = text[s].version
    <3>1. text[s] \in TextState /\ NoTable \in Names
      BY <1>1 DEF Names
    <3>2. [text[s] EXCEPT !.context = NoTable] \in TextState
      BY <3>1 DEF TextState
    <3>3. /\ [text[s] EXCEPT !.context = NoTable].table = text[s].table
          /\ [text[s] EXCEPT !.context = NoTable].version = text[s].version
      BY <3>1 DEF TextState
    <3>4. text'[s] \in {text[s], [text[s] EXCEPT !.context = NoTable]}
      BY <2>1
    <3>5. QED
      BY <3>1, <3>2, <3>3, <3>4
  <2>3. text' \in [SQLs -> TextState]
    BY <2>1, <2>2
  <2>4. PickerFits(picker, active, text'[active])
    BY <1>1, <2>2 DEF PickerFits, PickerOver, AskFits, tab
  <2>5. QED
    BY <1>1, <2>1, <2>3, <2>4 DEF PickerKept, TextKept
<1>11. QED
  BY <1>4, <1>5, <1>6, <1>7, <1>8, <1>9, <1>10

\* Only its own answers and clicks change the designer or the password.
LEMMA OthersKeepForms ==
  ASSUME DesignKept(designer), PasswordKept, active \in SQLs, EditorNext
  PROVE  DesignKept(designer') /\ PasswordKept'
<1>1. UNCHANGED designer => DesignKept(designer')
  OBVIOUS
<1>2. UNCHANGED password => PasswordKept'
  BY DEF PasswordKept
<1>3. CASE \/ \E kind \in {"table", "field", "join"} : OpenPicker(kind)
           \/ \E a \in picker.asked : PickerAnswered(a)
           \/ ChooseSource \/ ApplyInlinePicker \/ FillTemplate \/ LeavePicker
           \/ \E t \in Tables : ChooseTable(t) \/ TypeText(t)
  BY <1>1, <1>2, <1>3 DEF OpenPicker, PickerAnswered, ChooseSource, ApplyInlinePicker, FillTemplate, LeavePicker,
     ChooseTable, TypeText
<1>4. CASE \/ \E s \in SQLs : SelectTab(s) \/ CreateTab(s) \/ EndQuery(s)
           \/ StartQuery \/ ClearTargets \/ (\E d \in Databases : ToggleTarget(d) \/ FocusDatabase(d))
           \/ \E p \in Connections : \/ ExpandProfile(p)
                                   \/ \E ok \in BOOLEAN : \/ ToggleGroup(p, ok)
                                                          \/ \E n \in Requests(p) : CatalogRead(p, n, ok)
           \/ \E kind \in {"save", "delete", "list"} : SendConnection(kind)
           \/ \E r \in changes : ConnectionChanged(r) \/ ConnectionFailed(r)
  BY <1>1, <1>2, <1>4 DEF SelectTab, CreateTab, EndQuery, StartQuery, ClearTargets, ToggleTarget, FocusDatabase,
     ExpandProfile, ToggleGroup, CatalogRead, SendConnection, ConnectionChanged, ConnectionFailed
<1>5. CASE \/ \E t \in Tables : OpenDesigner(t) \/ ChooseSchemaTable(t)
           \/ OpenTemplateDesigner \/ ChooseSchemaSource \/ EditForm \/ PreviewSchema \/ ApplyPlan \/ CloseDesigner
  <2>1. DesignKept(designer')
    BY <1>5, DesignerClicksKept
  <2>2. UNCHANGED password
    BY <1>5 DEF OpenDesigner, ChooseSchemaTable, OpenTemplateDesigner, ChooseSchemaSource, EditForm, PreviewSchema,
       ApplyPlan, CloseDesigner
  <2>3. QED
    BY <1>2, <2>1, <2>2
<1>6. ASSUME NEW a \in designer.asked, DesignerAnswered(a) PROVE DesignKept(designer') /\ PasswordKept'
  <2>1. DesignKept(designer')
    BY <1>6, DesignerAnsweredKept
  <2>2. UNCHANGED password
    BY <1>6 DEF DesignerAnswered
  <2>3. QED
    BY <1>2, <2>1, <2>2
<1>7. ASSUME NEW p, password' = Form(p) PROVE PasswordKept'
  BY <1>7 DEF PasswordKept, Form, NoPassword
<1>8. CASE CloseConnectionForm \/ (\E p \in Connections : OpenConnectionForm(p))
  BY <1>1, <1>7, <1>8 DEF CloseConnectionForm, OpenConnectionForm
<1>9. CASE TypePassword
  <2>1. UNCHANGED designer /\ password' = [password EXCEPT !.request = @ + 1, !.typed = TRUE, !.value = NoProfile]
    BY <1>9 DEF TypePassword
  <2>2. PasswordKept'
    BY <2>1 DEF PasswordKept
  <2>3. QED
    BY <1>1, <2>1, <2>2
<1>10. CASE ToggleConnectionPassword
  <2>1. UNCHANGED designer /\ password'.value = password.value /\ password'.form = password.form
    BY <1>10 DEF ToggleConnectionPassword
  <2>2. QED
    BY <1>1, <2>1 DEF PasswordKept
<1>11. ASSUME NEW a \in password.asked, NEW ok \in BOOLEAN, PasswordRead(a, ok)
       PROVE  DesignKept(designer') /\ PasswordKept'
  <2> DEFINE rest == [password EXCEPT !.asked = @ \ {a}]
  <2>1. UNCHANGED designer
    BY <1>11 DEF PasswordRead
  <2>2. PasswordKept'
    <3>1. CASE ok /\ StillAsked(a)
      BY <1>11, <3>1 DEF PasswordRead, StillAsked, PasswordKept
    <3>2. CASE ~ (ok /\ StillAsked(a))
      BY <1>11, <3>2 DEF PasswordRead, PasswordKept
    <3>3. QED
      BY <3>1, <3>2
  <2>3. QED
    BY <1>1, <2>1, <2>2
<1>12. ASSUME NEW r \in changes, ConnectionsListed(r) PROVE DesignKept(designer') /\ PasswordKept'
  <2>1. UNCHANGED designer /\ (password' = password \/ password' = Form(NoProfile))
    BY <1>12 DEF ConnectionsListed
  <2>2. QED
    BY <1>1, <1>2, <1>7, <2>1
<1>13. QED
  BY <1>3, <1>4, <1>5, <1>6, <1>8, <1>9, <1>10, <1>11, <1>12 DEF EditorNext

LEMMA EditorInitKept == WorkspaceInit => EditorKept
<1> SUFFICES ASSUME WorkspaceInit PROVE EditorKept
  OBVIOUS
<1> USE DEF WorkspaceInit, EditorInit
<1>1. NoTable \in Names /\ MaxSQL \in Nat \ {0}
  BY DatabaseAssumption DEF Names
<1>2. TextKept
  BY <1>1 DEF TextKept, TextState, SQLs
<1>3. NoPicker \in PickerState /\ NoPicker.open = FALSE /\ NoPicker.asked = {}
  BY <1>1 DEF NoPicker, PickerState
<1>4. PickerKept
  BY <1>2, <1>3 DEF PickerKept, PickerFits, PickerOver
<1>5. NoDesigner \in DesignerState /\ NoDesigner.plan = NoPlan /\ NoDesigner.asked = {}
  <2>1. NoPlan \in [form : Nat, mode : Nat, target : Names]
    BY <1>1 DEF NoPlan
  <2>2. QED
    BY <1>1, <2>1 DEF NoDesigner, DesignerState
<1>6. DesignKept(designer)
  BY <1>5 DEF DesignKept, Planned, Awaited, Counted
<1>7. PasswordKept
  BY DEF PasswordKept, NoPassword
<1>8. QED
  BY <1>4, <1>6, <1>7 DEF EditorKept

LEMMA EditorNextKept == EditorKept /\ [WorkspaceNext]_<<vars, editorVars>> => EditorKept'
<1> SUFFICES ASSUME EditorKept, [WorkspaceNext]_<<vars, editorVars>> PROVE EditorKept'
  OBVIOUS
<1>1. PickerKept /\ DesignKept(designer) /\ PasswordKept /\ active \in SQLs
  BY DEF EditorKept, PickerKept, TextKept
<1>2. CASE UNCHANGED editorVars
  BY <1>2 DEF editorVars, EditorKept, PickerKept, TextKept, PasswordKept
<1>3. CASE EditorNext
  <2>1. DesignKept(designer') /\ PasswordKept'
    BY <1>1, <1>3, OthersKeepForms
  <2>2. PickerKept'
    <3>1. ASSUME NEW a \in picker.asked, PickerAnswered(a) PROVE PickerKept'
      BY <1>1, <3>1, PickerAnsweredKept
    <3>2. CASE \/ \E kind \in {"table", "field", "join"} : OpenPicker(kind)
               \/ ChooseSource \/ ApplyInlinePicker \/ FillTemplate \/ LeavePicker
               \/ \E t \in Tables : ChooseTable(t) \/ TypeText(t)
      BY <1>1, <3>2, PickerClicksKept
    <3>3. CASE \/ \E s \in SQLs : SelectTab(s) \/ CreateTab(s) \/ EndQuery(s)
               \/ StartQuery \/ ClearTargets \/ (\E d \in Databases : ToggleTarget(d) \/ FocusDatabase(d))
               \/ \E p \in Connections : \/ ExpandProfile(p) \/ OpenConnectionForm(p)
                                       \/ \E ok \in BOOLEAN : \/ ToggleGroup(p, ok)
                                                              \/ \E n \in Requests(p) : CatalogRead(p, n, ok)
               \/ \E kind \in {"save", "delete", "list"} : SendConnection(kind)
               \/ \E r \in changes : ConnectionChanged(r) \/ ConnectionsListed(r) \/ ConnectionFailed(r)
               \/ \E t \in Tables : OpenDesigner(t) \/ ChooseSchemaTable(t)
               \/ OpenTemplateDesigner \/ ChooseSchemaSource \/ EditForm \/ PreviewSchema \/ ApplyPlan
               \/ CloseDesigner
               \/ \E a \in designer.asked : DesignerAnswered(a)
               \/ CloseConnectionForm \/ TypePassword \/ ToggleConnectionPassword
               \/ \E a \in password.asked, ok \in BOOLEAN : PasswordRead(a, ok)
      BY <1>1, <3>3, OthersKeepPicker
    <3>4. QED
      BY <1>3, <3>1, <3>2, <3>3 DEF EditorNext
  <2>3. QED
    BY <2>1, <2>2 DEF EditorKept
<1>4. QED
  BY <1>2, <1>3 DEF WorkspaceNext

\* What the page knows of its open questions holds throughout: an answer of an earlier
\* opening, form or count fits nothing.
THEOREM EditorAlwaysKept == WorkspaceSpec => []EditorKept
<1>1. QED
  BY EditorInitKept, EditorNextKept, PTL DEF WorkspaceSpec

\* No answer fills a picker, a designer or a form it was not asked for
\* (loadInlineMetadata, previewSchema, openConnection).
THEOREM AnswersAlwaysFitForms == WorkspaceSpec => []AnswersFitForms
<1>1. EditorKept => AnswersFitForms
  <2> SUFFICES ASSUME EditorKept PROVE AnswersFitForms
    OBVIOUS
  <2>1. PickerFitsText
    BY DEF EditorKept, PickerKept, PickerFits, PickerOver, PickerFitsText
  <2>2. PlanIsOfForm
    BY DEF EditorKept, DesignKept, Planned, PasswordKept, PlanIsOfForm
  <2>3. QED
    BY <2>1, <2>2 DEF AnswersFitForms
<1>2. QED
  BY <1>1, EditorAlwaysKept, PTL

-----------------------------------------------------------------------------
(***************************************************************************)
(* The targets of a query.                                                 *)
(***************************************************************************)
GroupType == [profile : Connections, on : BOOLEAN, sql : SQLs, epoch : Nat, request : Nat, overtaken : BOOLEAN]
ChosenType == [checked : SUBSET Databases, explicit : BOOLEAN, focus : SUBSET Databases]
TargetsType == [SQLs -> ChosenType]
CatalogType == [Connections -> [state : {"unknown", "asked", "there", "failed"}, request : Nat]]

\* A group that was overtaken is of an earlier epoch; nothing is chosen for a tab that
\* does not exist yet.
GroupFits(g) == g.epoch <= epoch /\ (g.overtaken => g.epoch < epoch)
NoneChosen(c) == c.checked = {} /\ ~c.explicit
TargetsKept ==
  /\ epoch \in Nat /\ active \in sqlTabs /\ sqlTabs \subseteq SQLs /\ targets \in TargetsType
  /\ groups \in Seq(GroupType) /\ catalog \in CatalogType
  /\ \A i \in 1..Len(groups) : GroupFits(groups[i])
  /\ \A s \in SQLs \ sqlTabs : NoneChosen(targets[s])

\* Of the targets at most those of the shown tab differ, and none while its query runs;
\* those that are added are of the given connections.
OnlyActive(old, chosen, from) ==
  /\ chosen \in TargetsType
  /\ \A s \in SQLs : chosen[s] # old[s] => s = active /\ s \notin running
  /\ \A s \in SQLs : /\ chosen[s].focus = old[s].focus
                     /\ old[s].explicit => chosen[s].explicit
                     /\ chosen[s].checked \subseteq old[s].checked \cup old[s].focus \cup OfProfiles(from)

LEMMA NothingChosen ==
  ASSUME NEW old \in TargetsType, NEW from
  PROVE  OnlyActive(old, old, from)
BY DEF OnlyActive

LEMMA ChosenTwice ==
  ASSUME NEW old \in TargetsType, NEW from, NEW once, OnlyActive(old, once, from),
         NEW twice, OnlyActive(once, twice, from)
  PROVE  OnlyActive(old, twice, from)
<1>1. twice \in TargetsType /\ \A s \in SQLs : twice[s] # old[s] => s = active /\ s \notin running
  BY DEF OnlyActive
<1>2. ASSUME NEW s \in SQLs
      PROVE  /\ twice[s].focus = old[s].focus
             /\ old[s].explicit => twice[s].explicit
             /\ twice[s].checked \subseteq old[s].checked \cup old[s].focus \cup OfProfiles(from)
  BY DEF OnlyActive
<1>3. QED
  BY <1>1, <1>2 DEF OnlyActive

LEMMA CommitIsOfActive ==
  ASSUME NEW old \in TargetsType, NEW from, active \in SQLs, active \notin running,
         NEW chosen \in SUBSET Databases,
         chosen \subseteq old[active].checked \cup old[active].focus \cup OfProfiles(from)
  PROVE  OnlyActive(old, CommitTargets(old, active, chosen), from)
<1> DEFINE new == [checked |-> chosen, explicit |-> TRUE, focus |-> old[active].focus]
           next == [old EXCEPT ![active] = new]
<1>1. CommitTargets(old, active, chosen) \in {old, next}
  BY DEF CommitTargets
<1>2. OnlyActive(old, next, from)
  <2>1. new \in ChosenType
    BY DEF TargetsType, ChosenType
  <2>2. next \in TargetsType /\ next[active] = new
    BY <2>1 DEF TargetsType
  <2>3. \A s \in SQLs : s # active => next[s] = old[s]
    BY DEF TargetsType
  <2>4. new.checked = chosen /\ new.explicit /\ new.focus = old[active].focus
    OBVIOUS
  <2> HIDE DEF new, next
  <2>5. QED
    BY <2>2, <2>3, <2>4 DEF OnlyActive
<1>3. QED
  BY <1>1, <1>2, NothingChosen

LEMMA TargetListIsOf ==
  ASSUME NEW c \in ChosenType
  PROVE  TargetList(c) \subseteq c.checked \cup c.focus /\ TargetList(c) \in SUBSET Databases
BY DEF TargetList, ChosenType

LEMMA GroupIsOfActive ==
  ASSUME NEW old \in TargetsType, NEW g \in GroupType, active \in SQLs, NEW from, g.profile \in from
  PROVE  /\ OnlyActive(old, GroupPicked(old, g), from)
         /\ ~GroupStands(g) => GroupPicked(old, g) = old
<1>1. CASE ~GroupStands(g)
  <2>1. GroupPicked(old, g) = old
    BY <1>1 DEF GroupPicked
  <2>2. QED
    BY <2>1, NothingChosen
<1>2. CASE GroupStands(g)
  <2>1. g.sql = active /\ active \notin running
    BY <1>2 DEF GroupStands
  <2>2. PICK chosen : chosen = IF g.on THEN TargetList(old[active]) \cup OfProfile(g.profile)
                               ELSE TargetList(old[active]) \ OfProfile(g.profile)
    OBVIOUS
  <2>3. GroupPicked(old, g) = CommitTargets(old, active, chosen)
    BY <1>2, <2>1, <2>2 DEF GroupPicked
  <2>4. old[active] \in ChosenType
    BY DEF TargetsType
  <2>5. OfProfile(g.profile) \subseteq OfProfiles(from) /\ OfProfile(g.profile) \subseteq Databases
    BY DEF OfProfile, OfProfiles
  <2>6. chosen \in SUBSET Databases /\ chosen \subseteq old[active].checked \cup old[active].focus \cup OfProfiles(from)
    BY <2>2, <2>4, <2>5, TargetListIsOf
  <2>7. QED
    BY <1>2, <2>1, <2>3, <2>6, CommitIsOfActive
<1>3. QED
  BY <1>1, <1>2

\* The function that goes through the groups exists, as each of its values is made of the
\* one before.
LEMMA AfterExists ==
  ASSUME NEW gs \in Seq(GroupType), NEW all
  PROVE  \E f : f = [i \in 0..Len(gs) |-> IF i = 0 THEN all ELSE GroupPicked(f[i - 1], gs[i])]
<1> DEFINE Is(n, f) == f = [i \in 0..n |-> IF i = 0 THEN all ELSE GroupPicked(f[i - 1], gs[i])]
           none == {n \in Nat : ~ \E f : Is(n, f)}
<1>1. Is(0, [i \in 0..0 |-> all])
  <2> DEFINE f == [i \in 0..0 |-> all]
  <2>1. \A i \in 0..0 : i = 0
    OBVIOUS
  <2>2. f = [i \in 0..0 |-> IF i = 0 THEN all ELSE GroupPicked(f[i - 1], gs[i])]
    BY <2>1, Zenon
  <2>3. QED
    BY <2>2
<1>2. ASSUME NEW n \in Nat \ {0}, NEW g, Is(n - 1, g)
      PROVE  \E f : Is(n, f)
  <2> DEFINE f == [i \in 0..n |-> IF i = n THEN GroupPicked(g[n - 1], gs[n]) ELSE g[i]]
             h == [i \in 0..n |-> IF i = 0 THEN all ELSE GroupPicked(f[i - 1], gs[i])]
  <2>1. ASSUME NEW i \in 0..n PROVE f[i] = h[i]
    <3>1. n - 1 \in 0..n /\ n - 1 # n /\ n \in 0..n /\ n # 0 /\ f[n - 1] = g[n - 1]
      OBVIOUS
    <3>2. CASE i = n
      <4>1. f[n] = GroupPicked(g[n - 1], gs[n]) /\ h[n] = GroupPicked(f[n - 1], gs[n])
        BY <3>1, Zenon
      <4>2. QED
        BY <3>1, <3>2, <4>1, Zenon
    <3>3. CASE i = 0
      <4>1. 0 \in 0..n /\ 0 \in 0..(n - 1) /\ 0 # n
        OBVIOUS
      <4>2. f[0] = g[0] /\ h[0] = all
        BY <4>1, Zenon
      <4>3. g[0] = all
        BY <1>2, <4>1, Zenon
      <4>4. QED
        BY <3>3, <4>2, <4>3
    <3>4. CASE i # n /\ i # 0
      <4>1. i \in 0..(n - 1) /\ i - 1 \in 0..n /\ i - 1 # n
        BY <3>4
      <4>2. f[i] = g[i] /\ h[i] = GroupPicked(f[i - 1], gs[i]) /\ f[i - 1] = g[i - 1]
        BY <3>4, <4>1, Zenon
      <4>3. g[i] = GroupPicked(g[i - 1], gs[i])
        BY <1>2, <3>4, <4>1, Zenon
      <4>4. QED
        BY <4>2, <4>3, Zenon
    <3>5. QED
      BY <3>2, <3>3, <3>4
  <2>2. f = h
    BY <2>1, Zenon
  <2>3. QED
    BY <2>2, Zenon
<1>3. none = {}
  <2> SUFFICES ASSUME none # {} PROVE FALSE
    OBVIOUS
  <2>1. none \subseteq Nat
    OBVIOUS
  <2>2. PICK n \in none : \A m \in none : n <= m
    BY <2>1, LeastNatural
  <2>3. n \in Nat /\ ~ \E f : Is(n, f)
    OBVIOUS
  <2>4. n # 0
    BY <1>1, <2>3, Zenon
  <2>5. n - 1 \in Nat /\ n - 1 \notin none
    <3>1. n - 1 \in Nat /\ ~ (n <= n - 1)
      BY <2>3, <2>4
    <3>2. QED
      BY <2>2, <3>1
  <2>6. PICK g : Is(n - 1, g)
    BY <2>5
  <2> HIDE DEF Is
  <2>7. QED
    BY <1>2, <2>3, <2>4, <2>6
<1>4. Len(gs) \in Nat
  OBVIOUS
<1>5. QED
  BY <1>3, <1>4

LEMMA AfterEach ==
  ASSUME NEW gs \in Seq(GroupType), NEW all
  PROVE  \E f : /\ f[0] = all
                /\ \A i \in 1..Len(gs) : f[i] = GroupPicked(f[i - 1], gs[i])
                /\ AllPicked(all, gs) = f[Len(gs)]
<1> DEFINE Is(h) == h = [i \in 0..Len(gs) |-> IF i = 0 THEN all ELSE GroupPicked(h[i - 1], gs[i])]
           f == CHOOSE h : Is(h)
<1>1. \E h : Is(h)
  BY AfterExists
<1>2. AllPicked(all, gs) = f[Len(gs)]
  BY DEF AllPicked
<1>3. Is(f)
  <2> HIDE DEF Is
  <2>1. QED
    BY <1>1, Zenon
<1>4. f = [i \in 0..Len(gs) |-> IF i = 0 THEN all ELSE GroupPicked(f[i - 1], gs[i])]
  BY <1>3, Zenon
<1> HIDE DEF f
<1>5. f[0] = all
  <2>1. 0 \in 0..Len(gs)
    OBVIOUS
  <2>2. QED
    BY <1>4, <2>1, Zenon
<1>6. ASSUME NEW i \in 1..Len(gs) PROVE f[i] = GroupPicked(f[i - 1], gs[i])
  <2>1. i \in 0..Len(gs) /\ i # 0
    OBVIOUS
  <2>2. QED
    BY <1>4, <2>1, Zenon
<1>7. QED
  BY <1>2, <1>5, <1>6

\* Whoever waits for a catalog, only the shown tab is written, and by nobody who no
\* longer stands.
LEMMA AllAreOfActive ==
  ASSUME NEW old \in TargetsType, NEW gs \in Seq(GroupType), active \in SQLs,
         NEW from, \A i \in 1..Len(gs) : gs[i].profile \in from
  PROVE  /\ OnlyActive(old, AllPicked(old, gs), from)
         /\ (\A i \in 1..Len(gs) : ~GroupStands(gs[i])) => AllPicked(old, gs) = old
<1>1. PICK f : /\ f[0] = old
               /\ \A i \in 1..Len(gs) : f[i] = GroupPicked(f[i - 1], gs[i])
               /\ AllPicked(old, gs) = f[Len(gs)]
  BY AfterEach
<1> DEFINE Right(i) == OnlyActive(old, f[i], from) /\ ((\A j \in 1..Len(gs) : ~GroupStands(gs[j])) => f[i] = old)
           wrong == {i \in 0..Len(gs) : ~Right(i)}
<1>2. Right(0)
  BY <1>1, NothingChosen
<1>3. ASSUME NEW i \in 1..Len(gs), Right(i - 1) PROVE Right(i)
  <2>1. f[i - 1] \in TargetsType /\ gs[i] \in GroupType /\ f[i] = GroupPicked(f[i - 1], gs[i])
    BY <1>1, <1>3 DEF OnlyActive
  <2>2. OnlyActive(f[i - 1], f[i], from) /\ (~GroupStands(gs[i]) => f[i] = f[i - 1])
    BY <2>1, GroupIsOfActive
  <2>3. OnlyActive(old, f[i], from)
    BY <1>3, <2>2, ChosenTwice
  <2>4. QED
    BY <1>3, <2>2, <2>3
<1> HIDE DEF Right
<1>4. wrong = {}
  <2> SUFFICES ASSUME wrong # {} PROVE FALSE
    OBVIOUS
  <2>1. wrong \subseteq Nat
    OBVIOUS
  <2>2. PICK n \in wrong : \A m \in wrong : n <= m
    BY <2>1, LeastNatural
  <2>3. n # 0 /\ n \in 0..Len(gs) /\ ~Right(n)
    BY <1>2
  <2>4. n \in 1..Len(gs) /\ n - 1 \in 0..Len(gs) /\ ~ (n <= n - 1)
    BY <2>3
  <2>5. Right(n - 1)
    BY <2>2, <2>4
  <2>6. QED
    BY <1>3, <2>3, <2>4, <2>5
<1>5. Right(Len(gs))
  <2>1. Len(gs) \in 0..Len(gs)
    OBVIOUS
  <2>2. QED
    BY <1>4, <2>1
<1>6. QED
  BY <1>1, <1>5 DEF Right

\* What one step does to the targets of a tab, and to those who wait.
TabStep(s) ==
  /\ Added(s) # {} => \/ s = active /\ s \notin running
                      \/ s \notin sqlTabs /\ Added(s) \subseteq targets[active].checked
  /\ Removed(s) # {} => \/ s = active /\ s \notin running
                        \/ \A d \in Removed(s) : \/ \E r \in changes : r.profile = ProfileOf[d]
                                                 \/ ProfileOf[d] \notin uiProfiles'
  /\ targets[s].explicit => targets'[s].explicit
  /\ Added(s) \subseteq OfProfiles(uiProfiles \union Awaiting) \union targets[s].focus
TargetsStep ==
  /\ \A s \in SQLs : TabStep(s)
  /\ (active' # active \/ uiProfiles' # uiProfiles) => targets'[active'].checked \subseteq OfProfiles(uiProfiles')
  /\ groups' # groups /\ (\A i \in DOMAIN groups : groups[i].overtaken) => \A s \in sqlTabs : Added(s) = {}

\* A tab whose targets are not touched, or only lose some.
LEMMA LessChosen ==
  ASSUME NEW s, targets'[s].checked \subseteq targets[s].checked,
         targets[s].explicit => targets'[s].explicit,
         \/ s = active /\ s \notin running
         \/ \A d \in targets[s].checked \ targets'[s].checked :
              (\E r \in changes : r.profile = ProfileOf[d]) \/ ProfileOf[d] \notin uiProfiles'
  PROVE  TabStep(s) /\ Added(s) = {}
<1>1. Added(s) = {}
  BY DEF Added
<1>2. Removed(s) # {} => \/ s = active /\ s \notin running
                         \/ \A d \in Removed(s) : \/ \E r \in changes : r.profile = ProfileOf[d]
                                                  \/ ProfileOf[d] \notin uiProfiles'
  BY DEF Removed
<1>3. QED
  BY <1>1, <1>2 DEF TabStep

\* The user or a catalog that was waited for chooses in the shown tab.
LEMMA ActiveChooses ==
  ASSUME TargetsKept, NEW from \in SUBSET (uiProfiles \cup Awaiting), OnlyActive(targets, targets', from),
         UNCHANGED <<active, uiProfiles>>,
         (groups' # groups /\ \A i \in DOMAIN groups : groups[i].overtaken) => targets' = targets
  PROVE  TargetsStep
<1>1. ASSUME NEW s \in SQLs PROVE TabStep(s)
  <2>1. Added(s) # {} \/ Removed(s) # {} => s = active /\ s \notin running
    BY DEF Added, Removed, OnlyActive
  <2>2. targets[s].explicit => targets'[s].explicit
    BY DEF OnlyActive
  <2>3. OfProfiles(from) \subseteq OfProfiles(uiProfiles \cup Awaiting)
    BY DEF OfProfiles
  <2>4. Added(s) \subseteq OfProfiles(from) \cup targets[s].focus
    BY DEF Added, OnlyActive
  <2>5. QED
    BY <2>1, <2>2, <2>3, <2>4 DEF TabStep
<1>2. (groups' # groups /\ \A i \in DOMAIN groups : groups[i].overtaken) => \A s \in sqlTabs : Added(s) = {}
  BY DEF Added
<1>3. QED
  BY <1>1, <1>2 DEF TargetsStep

\* Nothing is chosen, and the tab and the connections stay.
LEMMA NobodyChooses ==
  ASSUME TargetsKept, UNCHANGED <<active, uiProfiles, targets>>
  PROVE  TargetsStep
<1>1. OnlyActive(targets, targets', {})
  BY NothingChosen DEF TargetsKept
<1>2. QED
  BY <1>1, ActiveChooses

LEMMA OvertakenFit ==
  ASSUME TargetsKept, groups' = Overtaken(groups), epoch' = epoch + 1, active' \in sqlTabs',
         sqlTabs' \subseteq SQLs, targets' \in TargetsType, catalog' = catalog,
         \A s \in SQLs \ sqlTabs' : NoneChosen(targets'[s])
  PROVE  TargetsKept' /\ ((\A i \in DOMAIN groups : groups[i].overtaken) => groups' = groups)
<1>1. /\ groups \in Seq(GroupType) /\ epoch \in Nat /\ DOMAIN groups = 1..Len(groups)
      /\ \A i \in 1..Len(groups) : groups[i] \in GroupType /\ groups[i].epoch <= epoch
  BY DEF TargetsKept, GroupFits
<1>2. \A i \in 1..Len(groups) : /\ [groups[i] EXCEPT !.overtaken = TRUE] \in GroupType
                                /\ [groups[i] EXCEPT !.overtaken = TRUE].epoch = groups[i].epoch
                                /\ groups[i].overtaken => [groups[i] EXCEPT !.overtaken = TRUE] = groups[i]
  BY <1>1 DEF GroupType
<1>3. groups' = [i \in 1..Len(groups) |-> [groups[i] EXCEPT !.overtaken = TRUE]]
  BY <1>1 DEF Overtaken
<1>4. groups' \in Seq(GroupType) /\ Len(groups') = Len(groups)
  <2>1. Len(groups) \in Nat
    BY <1>1
  <2>2. QED
    BY <1>2, <1>3, <2>1
<1>5. ASSUME NEW i \in 1..Len(groups) PROVE groups'[i].epoch <= epoch /\ groups'[i].epoch \in Nat
  <2>1. groups'[i] = [groups[i] EXCEPT !.overtaken = TRUE]
    BY <1>3
  <2>2. groups'[i].epoch = groups[i].epoch
    BY <1>2, <2>1
  <2>3. groups[i].epoch <= epoch /\ groups[i].epoch \in Nat
    BY <1>1 DEF GroupType
  <2>4. QED
    BY <2>2, <2>3
<1>6. TargetsKept'
  <2>1. \A i \in 1..Len(groups') : groups'[i].epoch <= epoch' /\ (groups'[i].overtaken => groups'[i].epoch < epoch')
    BY <1>1, <1>4, <1>5
  <2>2. catalog' \in CatalogType /\ epoch' \in Nat
    BY <1>1 DEF TargetsKept
  <2>3. QED
    BY <1>4, <2>1, <2>2 DEF TargetsKept, GroupFits, NoneChosen
<1>7. ASSUME \A i \in DOMAIN groups : groups[i].overtaken PROVE groups' = groups
  <2>1. \A i \in 1..Len(groups) : groups'[i] = groups[i]
    BY <1>1, <1>2, <1>3, <1>7
  <2>2. QED
    BY <1>1, <1>4, <2>1
<1>8. QED
  BY <1>6, <1>7

\* The groups, the catalogs and the tabs stay.
LEMMA ChosenKept ==
  ASSUME TargetsKept, UNCHANGED <<active, sqlTabs, epoch, groups>>, catalog' \in CatalogType,
         targets' \in TargetsType, \A s \in SQLs \ sqlTabs : NoneChosen(targets'[s])
  PROVE  TargetsKept'
BY DEF TargetsKept, GroupFits, NoneChosen

\* A choice in the shown tab leaves those that do not exist alone.
LEMMA OthersNotChosen ==
  ASSUME TargetsKept, NEW from, OnlyActive(targets, targets', from)
  PROVE  targets' \in TargetsType /\ \A s \in SQLs \ sqlTabs : NoneChosen(targets'[s])
BY DEF TargetsKept, OnlyActive

LEMMA CatalogReadChooses ==
  ASSUME TargetsKept, NEW p \in Connections, NEW r, NEW ok \in BOOLEAN, CatalogRead(p, r, ok)
  PROVE  TargetsKept' /\ TargetsStep
<1> DEFINE n == Len(groups)
           stay == {i \in 1..n : ~Waits(groups[i], p, r)}
           go == {i \in 1..n : Waits(groups[i], p, r)}
<1>1. /\ groups \in Seq(GroupType) /\ epoch \in Nat /\ DOMAIN groups = 1..n /\ active \in SQLs
      /\ targets \in TargetsType /\ \A i \in 1..n : GroupFits(groups[i])
  BY DEF TargetsKept
<1>2. /\ groups' = Picked(groups, stay) /\ WaitFor(p, r) = Picked(groups, go)
      /\ targets' = IF ok THEN AllPicked(targets, WaitFor(p, r)) ELSE targets
      /\ UNCHANGED <<active, sqlTabs, running, epoch, uiProfiles>>
  BY <1>1 DEF CatalogRead, WaitFor, connectionVars
<1>3. stay \in SUBSET (1..n) /\ go \in SUBSET (1..n)
  OBVIOUS
<1>4. PICK m \in 0..n : \E nth \in [1..m -> stay] : PickedAt(groups, stay, nth, m)
  BY <1>1, <1>3, PickedElements
<1>5. PICK nth \in [1..m -> stay] : PickedAt(groups, stay, nth, m)
  BY <1>4
<1>6. groups' \in Seq(GroupType) /\ Len(groups') = m
  <2>1. Picked(groups, stay) \in Seq(GroupType)
    BY <1>1, <1>3, PickedElements
  <2>2. Len(Picked(groups, stay)) = m
    BY <1>5 DEF PickedAt
  <2>3. QED
    BY <1>2, <2>1, <2>2
<1>7. ASSUME NEW j \in 1..m PROVE GroupFits(groups'[j])
  BY <1>1, <1>2, <1>5 DEF PickedAt
<1>8. PICK w \in 0..n : \E at \in [1..w -> go] : PickedAt(groups, go, at, w)
  BY <1>1, <1>3, PickedElements
<1>9. PICK at \in [1..w -> go] : PickedAt(groups, go, at, w)
  BY <1>8
<1>10. WaitFor(p, r) \in Seq(GroupType) /\ Len(WaitFor(p, r)) = w
  <2>1. Picked(groups, go) \in Seq(GroupType)
    BY <1>1, <1>3, PickedElements
  <2>2. Len(Picked(groups, go)) = w
    BY <1>9 DEF PickedAt
  <2>3. QED
    BY <1>2, <2>1, <2>2
<1>11. \A j \in 1..Len(WaitFor(p, r)) : \E i \in 1..n : WaitFor(p, r)[j] = groups[i]
  BY <1>2, <1>9, <1>10 DEF PickedAt
<1>12. OnlyActive(targets, targets', Awaiting)
  <2>1. OnlyActive(targets, targets, Awaiting)
    BY <1>1, NothingChosen
  <2>2. \A j \in 1..Len(WaitFor(p, r)) : WaitFor(p, r)[j].profile \in Awaiting
    BY <1>1, <1>11 DEF Awaiting
  <2>3. QED
    BY <1>1, <1>2, <1>10, <2>1, <2>2, AllAreOfActive
<1>13. ASSUME \A i \in DOMAIN groups : groups[i].overtaken PROVE targets' = targets
  <2>1. ASSUME NEW j \in 1..Len(WaitFor(p, r)) PROVE ~GroupStands(WaitFor(p, r)[j])
    <3>1. PICK i \in 1..n : WaitFor(p, r)[j] = groups[i]
      BY <1>11
    <3>2. groups[i] \in GroupType /\ GroupFits(groups[i]) /\ groups[i].overtaken
      <4>1. groups[i] \in GroupType
        BY <1>1
      <4>2. QED
        BY <1>1, <1>13, <4>1
    <3>3. groups[i].epoch \in Nat /\ groups[i].epoch < epoch
      BY <3>2 DEF GroupFits, GroupType
    <3>4. QED
      BY <1>1, <3>1, <3>3 DEF GroupStands
  <2>2. \A j \in 1..Len(WaitFor(p, r)) : WaitFor(p, r)[j].profile \in Awaiting
    BY <1>1, <1>11 DEF Awaiting
  <2>3. QED
    BY <1>1, <1>2, <1>10, <2>1, <2>2, AllAreOfActive
<1>14. catalog' \in CatalogType
  <2>1. catalog \in CatalogType
    BY DEF TargetsKept
  <2>2. catalog' = catalog \/ CatalogIs(p, "there") \/ CatalogIs(p, "failed")
    BY DEF CatalogRead
  <2>3. QED
    BY <2>1, <2>2 DEF CatalogIs, CatalogType
<1>15. TargetsKept'
  <2>1. targets' \in TargetsType /\ \A s \in SQLs \ sqlTabs : NoneChosen(targets'[s])
    BY <1>12, OthersNotChosen
  <2>2. \A j \in 1..m : groups'[j].epoch <= epoch' /\ (groups'[j].overtaken => groups'[j].epoch < epoch')
    BY <1>2, <1>7 DEF GroupFits
  <2>3. active' \in sqlTabs' /\ sqlTabs' \subseteq SQLs /\ epoch' \in Nat
    BY <1>2 DEF TargetsKept
  <2>4. QED
    BY <1>2, <1>6, <1>14, <2>1, <2>2, <2>3 DEF TargetsKept, GroupFits, NoneChosen
<1>16. TargetsStep
  BY <1>2, <1>12, <1>13, ActiveChooses
<1>17. QED
  BY <1>15, <1>16

LEMMA ToggleGroupChooses ==
  ASSUME TargetsKept, NEW p \in Connections, NEW on \in BOOLEAN, ToggleGroup(p, on)
  PROVE  TargetsKept' /\ TargetsStep
<1>1. PICK g : g = [profile |-> p, on |-> on, sql |-> active, epoch |-> epoch,
                    request |-> catalog[p].request, overtaken |-> FALSE]
  OBVIOUS
<1>2. /\ groups \in Seq(GroupType) /\ epoch \in Nat /\ active \in SQLs /\ targets \in TargetsType
      /\ DOMAIN groups = 1..Len(groups) /\ \A i \in 1..Len(groups) : GroupFits(groups[i])
      /\ catalog[p].request \in Nat
  BY DEF TargetsKept, CatalogType
<1>3. g \in GroupType /\ GroupFits(g) /\ g.profile = p
  BY <1>1, <1>2 DEF GroupType, GroupFits
<1>4. /\ UNCHANGED <<active, sqlTabs, running, epoch, uiProfiles>> /\ p \in uiProfiles
      /\ \/ targets' = GroupPicked(targets, g) /\ groups' = groups /\ catalog' = catalog
         \/ groups' = Append(groups, g) /\ targets' = targets /\ CatalogIs(p, "asked")
  BY <1>1 DEF ToggleGroup, connectionVars
<1>5. CASE targets' = GroupPicked(targets, g) /\ groups' = groups /\ catalog' = catalog
  <2>1. OnlyActive(targets, targets', {p})
    BY <1>2, <1>3, <1>5, GroupIsOfActive
  <2>2. TargetsKept'
    <3>1. catalog' \in CatalogType
      BY <1>5 DEF TargetsKept
    <3>2. QED
      BY <1>4, <1>5, <2>1, <3>1, ChosenKept, OthersNotChosen
  <2>3. TargetsStep
    BY <1>4, <1>5, <2>1, ActiveChooses
  <2>4. QED
    BY <2>2, <2>3
<1>6. CASE groups' = Append(groups, g) /\ targets' = targets /\ CatalogIs(p, "asked")
  <2>1. /\ groups' \in Seq(GroupType) /\ Len(groups') = Len(groups) + 1 /\ groups'[Len(groups) + 1] = g
        /\ \A i \in 1..Len(groups) : groups'[i] = groups[i]
    BY <1>2, <1>3, <1>6
  <2>2. \A i \in 1..Len(groups') : GroupFits(groups'[i])
    BY <1>2, <1>3, <2>1
  <2>3. catalog' \in CatalogType
    BY <1>6 DEF TargetsKept, CatalogIs, CatalogType
  <2>4. TargetsKept'
    BY <1>4, <1>6, <2>1, <2>2, <2>3 DEF TargetsKept, GroupFits, NoneChosen
  <2>5. QED
    BY <1>4, <1>6, <2>4, NobodyChooses
<1>7. QED
  BY <1>4, <1>5, <1>6

\* Of the tab that comes to the front only targets of listed connections stay.
LEMMA ActivateTabKept ==
  ASSUME TargetsKept, NEW s \in SQLs, NEW all \in TargetsType, ActivateTab(all, s), catalog' = catalog,
         sqlTabs' = sqlTabs \cup {s}, \A r \in SQLs \ sqlTabs' : all[r] = targets[r]
  PROVE  /\ TargetsKept' /\ ((\A i \in DOMAIN groups : groups[i].overtaken) => groups' = groups)
         /\ \A r \in SQLs : r # s => targets'[r] = all[r]
         /\ targets'[s].checked = all[s].checked \intersect OfProfiles(uiProfiles)
         /\ targets'[s].explicit = all[s].explicit
<1> DEFINE new == [checked |-> all[s].checked \intersect OfProfiles(uiProfiles),
                   explicit |-> all[s].explicit, focus |-> all[s].focus \intersect OfProfiles(uiProfiles)]
<1>1. active' = s /\ epoch' = epoch + 1 /\ groups' = Overtaken(groups) /\ targets' = [all EXCEPT ![s] = new]
  BY DEF ActivateTab
<1>2. new \in ChosenType
  BY DEF TargetsType, ChosenType
<1>3. /\ new.checked = all[s].checked \intersect OfProfiles(uiProfiles)
      /\ new.explicit = all[s].explicit
  OBVIOUS
<1> HIDE DEF new
<1>4. /\ targets' \in TargetsType /\ targets'[s] = new
      /\ \A r \in SQLs : r # s => targets'[r] = all[r]
  BY <1>1, <1>2 DEF TargetsType
<1>5. \A r \in SQLs \ sqlTabs' : NoneChosen(targets'[r])
  BY <1>4 DEF TargetsKept
<1>6. sqlTabs' \subseteq SQLs /\ active' \in sqlTabs'
  BY <1>1 DEF TargetsKept
<1>7. TargetsKept' /\ ((\A i \in DOMAIN groups : groups[i].overtaken) => groups' = groups)
  BY <1>1, <1>4, <1>5, <1>6, OvertakenFit
<1>8. QED
  BY <1>3, <1>4, <1>7

LEMMA SelectTabChooses ==
  ASSUME TargetsKept, NEW s \in SQLs, SelectTab(s)
  PROVE  TargetsKept' /\ TargetsStep
<1>1. /\ s \in sqlTabs /\ active' = s /\ ActivateTab(targets, s)
      /\ UNCHANGED <<sqlTabs, catalog, uiProfiles, changes>>
  BY DEF SelectTab, ActivateTab, connectionVars
<1>2. targets \in TargetsType /\ sqlTabs' = sqlTabs \cup {s}
  BY <1>1 DEF TargetsKept
<1>3. /\ TargetsKept' /\ ((\A i \in DOMAIN groups : groups[i].overtaken) => groups' = groups)
      /\ \A r \in SQLs : r # s => targets'[r] = targets[r]
      /\ targets'[s].checked = targets[s].checked \intersect OfProfiles(uiProfiles)
      /\ targets'[s].explicit = targets[s].explicit
  BY <1>1, <1>2, ActivateTabKept
<1>4. ASSUME NEW r \in SQLs PROVE TabStep(r)
  <2>1. CASE r # s
    BY <1>3, <2>1, LessChosen
  <2>2. CASE r = s
    <3>1. \A d \in targets[s].checked \ targets'[s].checked : ProfileOf[d] \notin uiProfiles'
      BY <1>1, <1>2, <1>3 DEF OfProfiles, TargetsType, ChosenType
    <3>2. targets'[s].checked \subseteq targets[s].checked
      BY <1>3
    <3>3. QED
      BY <1>3, <2>2, <3>1, <3>2, LessChosen
  <2>3. QED
    BY <2>1, <2>2
<1>5. targets'[active'].checked \subseteq OfProfiles(uiProfiles')
  BY <1>1, <1>3 DEF OfProfiles
<1>6. QED
  BY <1>3, <1>4, <1>5 DEF TargetsStep

LEMMA CreateTabChooses ==
  ASSUME TargetsKept, NEW s \in SQLs, CreateTab(s)
  PROVE  TargetsKept' /\ TargetsStep
<1> DEFINE all == [targets EXCEPT ![s] = targets[active]]
<1>1. /\ s \notin sqlTabs /\ active' = s /\ ActivateTab(all, s) /\ sqlTabs' = sqlTabs \cup {s}
      /\ UNCHANGED <<catalog, uiProfiles, changes>>
  BY DEF CreateTab, ActivateTab, connectionVars
<1>2. targets \in TargetsType /\ active \in SQLs /\ NoneChosen(targets[s])
  BY <1>1 DEF TargetsKept
<1>3. all \in TargetsType /\ all[s] = targets[active] /\ \A r \in SQLs : r # s => all[r] = targets[r]
  BY <1>2 DEF TargetsType
<1> HIDE DEF all
<1>4. /\ TargetsKept' /\ ((\A i \in DOMAIN groups : groups[i].overtaken) => groups' = groups)
      /\ \A r \in SQLs : r # s => targets'[r] = all[r]
      /\ targets'[s].checked = all[s].checked \intersect OfProfiles(uiProfiles)
  <2>1. \A r \in SQLs \ sqlTabs' : all[r] = targets[r]
    BY <1>1, <1>3
  <2>2. QED
    BY <1>1, <1>3, <2>1, ActivateTabKept
<1>5. ASSUME NEW r \in SQLs PROVE TabStep(r)
  <2>1. CASE r # s
    BY <1>3, <1>4, <2>1, LessChosen
  <2>2. CASE r = s
    <3>1. Removed(s) = {} /\ ~targets[s].explicit
      BY <1>2 DEF Removed, NoneChosen
    <3>2. Added(s) \subseteq targets[active].checked /\ Added(s) \subseteq OfProfiles(uiProfiles)
      BY <1>3, <1>4 DEF Added
    <3>3. OfProfiles(uiProfiles) \subseteq OfProfiles(uiProfiles \cup Awaiting)
      BY DEF OfProfiles
    <3>4. QED
      BY <1>1, <2>2, <3>1, <3>2, <3>3 DEF TabStep
  <2>3. QED
    BY <2>1, <2>2
<1>6. targets'[active'].checked \subseteq OfProfiles(uiProfiles')
  BY <1>1, <1>4 DEF OfProfiles
<1>7. QED
  BY <1>4, <1>5, <1>6 DEF TargetsStep

LEMMA ClearTargetsChooses ==
  ASSUME TargetsKept, ClearTargets
  PROVE  TargetsKept' /\ TargetsStep
<1>1. /\ groups' = Overtaken(groups) /\ epoch' = epoch + 1 /\ active \notin running
      /\ UNCHANGED <<active, sqlTabs, catalog, uiProfiles>>
      /\ targets' = CommitTargets(targets, active, {})
  BY DEF ClearTargets, connectionVars
<1>2. active \in SQLs /\ targets \in TargetsType
  BY DEF TargetsKept
<1>3. OnlyActive(targets, targets', {})
  BY <1>1, <1>2, CommitIsOfActive
<1>4. targets' \in TargetsType /\ \A s \in SQLs \ sqlTabs : NoneChosen(targets'[s])
  BY <1>3, OthersNotChosen
<1>5. active' \in sqlTabs' /\ sqlTabs' \subseteq SQLs /\ sqlTabs' = sqlTabs
  BY <1>1 DEF TargetsKept
<1>6. TargetsKept' /\ ((\A i \in DOMAIN groups : groups[i].overtaken) => groups' = groups)
  BY <1>1, <1>4, <1>5, OvertakenFit
<1>7. QED
  BY <1>1, <1>3, <1>6, ActiveChooses

LEMMA ToggleTargetChooses ==
  ASSUME TargetsKept, NEW d \in Databases, ToggleTarget(d)
  PROVE  TargetsKept' /\ TargetsStep
<1> DEFINE old == TargetList(targets[active])
<1>1. PICK chosen : chosen = IF d \in old THEN old \ {d} ELSE old \cup {d}
  OBVIOUS
<1>2. /\ active \notin running /\ targets' = CommitTargets(targets, active, chosen) /\ ProfileOf[d] \in uiProfiles
      /\ UNCHANGED <<active, sqlTabs, running, epoch, groups, catalog, uiProfiles>>
  BY <1>1 DEF ToggleTarget, connectionVars
<1>3. active \in SQLs /\ targets \in TargetsType /\ targets[active] \in ChosenType /\ catalog' \in CatalogType
  BY <1>2 DEF TargetsKept, TargetsType
<1>4. old \subseteq targets[active].checked \cup targets[active].focus /\ old \in SUBSET Databases
  BY <1>3, TargetListIsOf
<1> HIDE DEF old
<1>5. {d} \subseteq OfProfiles(uiProfiles)
  BY <1>2 DEF OfProfiles
<1>6. /\ chosen \in SUBSET Databases
      /\ chosen \subseteq targets[active].checked \cup targets[active].focus \cup OfProfiles(uiProfiles)
  BY <1>1, <1>4, <1>5
<1>7. OnlyActive(targets, targets', uiProfiles)
  BY <1>2, <1>3, <1>6, CommitIsOfActive
<1>8. TargetsKept'
  BY <1>2, <1>3, <1>7, ChosenKept, OthersNotChosen
<1>9. QED
  BY <1>2, <1>7, <1>8, ActiveChooses

LEMMA FocusDatabaseChooses ==
  ASSUME TargetsKept, NEW d \in Databases, FocusDatabase(d)
  PROVE  TargetsKept' /\ TargetsStep
<1> DEFINE new == [targets[active] EXCEPT !.focus = {d}]
<1>1. /\ targets' = [targets EXCEPT ![active] = new]
      /\ UNCHANGED <<active, sqlTabs, epoch, groups, catalog, uiProfiles>>
  BY DEF FocusDatabase, connectionVars
<1>2. active \in SQLs /\ targets \in TargetsType /\ catalog' \in CatalogType
  BY <1>1 DEF TargetsKept
<1>3. new \in ChosenType /\ new.checked = targets[active].checked /\ new.explicit = targets[active].explicit
  BY <1>2 DEF TargetsType, ChosenType
<1> HIDE DEF new
<1>4. /\ targets' \in TargetsType
      /\ \A s \in SQLs : targets'[s].checked = targets[s].checked /\ targets'[s].explicit = targets[s].explicit
  BY <1>1, <1>2, <1>3 DEF TargetsType
<1>5. TargetsKept'
  <2>1. \A s \in SQLs \ sqlTabs : NoneChosen(targets'[s])
    BY <1>4 DEF TargetsKept, NoneChosen
  <2>2. QED
    BY <1>1, <1>2, <1>4, <2>1, ChosenKept
<1>6. \A s \in SQLs : TabStep(s) /\ Added(s) = {}
  BY <1>4, LessChosen
<1>7. QED
  BY <1>1, <1>5, <1>6 DEF TargetsStep

\* A connection is gone from every tab but, when it was deleted, from the shown one.
LEMMA ConnectionChangedChooses ==
  ASSUME TargetsKept, NEW r \in changes, ConnectionChanged(r)
  PROVE  TargetsKept' /\ TargetsStep
<1>1. /\ UNCHANGED <<active, sqlTabs, epoch, groups, uiProfiles>> /\ targets' = Cleared(r.kind, r.profile)
      /\ catalog' = catalog \/ catalog' = Dropped({r.profile})
  BY DEF ConnectionChanged
<1>2. targets \in TargetsType /\ catalog \in CatalogType
  BY DEF TargetsKept
<1>3. catalog' \in CatalogType
  BY <1>1, <1>2 DEF Dropped, CatalogType
<1>4. ASSUME NEW s \in SQLs
      PROVE  /\ targets'[s] \in ChosenType /\ targets'[s].explicit = targets[s].explicit
             /\ targets'[s].checked \in {targets[s].checked, targets[s].checked \ OfProfile(r.profile)}
  <2> DEFINE less == Lacking(targets[s], r.profile)
             kept == [less EXCEPT !.checked = targets[s].checked]
  <2>1. targets'[s] = less \/ targets'[s] = kept
    BY <1>1 DEF Cleared
  <2>2. targets[s] \in ChosenType
    BY <1>2 DEF TargetsType
  <2>3. less \in ChosenType /\ less.explicit = targets[s].explicit /\ less.checked = targets[s].checked \ OfProfile(r.profile)
    BY <2>2 DEF Lacking, ChosenType
  <2> HIDE DEF less
  <2>4. kept \in ChosenType /\ kept.explicit = targets[s].explicit /\ kept.checked = targets[s].checked
    BY <2>2, <2>3 DEF ChosenType
  <2>5. QED
    BY <2>1, <2>3, <2>4
<1>5. targets' \in TargetsType
  <2>1. targets' = [s \in SQLs |-> targets'[s]]
    BY <1>1 DEF Cleared
  <2>2. QED
    BY <1>4, <2>1 DEF TargetsType
<1>6. TargetsKept'
  <2>1. \A s \in SQLs \ sqlTabs : NoneChosen(targets'[s])
    BY <1>4 DEF TargetsKept, NoneChosen
  <2>2. QED
    BY <1>1, <1>3, <1>5, <2>1, ChosenKept
<1>7. ASSUME NEW s \in SQLs PROVE TabStep(s) /\ Added(s) = {}
  <2>1. \A d \in targets[s].checked \ targets'[s].checked : \E c \in changes : c.profile = ProfileOf[d]
    BY <1>4 DEF OfProfile
  <2>2. targets'[s].checked \subseteq targets[s].checked
    BY <1>4
  <2>3. QED
    BY <1>4, <2>1, <2>2, LessChosen
<1>8. QED
  BY <1>1, <1>6, <1>7 DEF TargetsStep, TargetsKept

\* Another list of connections leaves in the shown tab only the targets of those it has.
LEMMA ConnectionsListedChooses ==
  ASSUME TargetsKept, NEW r \in changes, ConnectionsListed(r)
  PROVE  TargetsKept' /\ TargetsStep
<1>1. PICK list : /\ uiProfiles' = list
                  /\ targets' = [targets EXCEPT ![active].checked = @ \intersect OfProfiles(list)]
                  /\ \/ catalog' = Dropped(Connections \ list)
                     \/ catalog' = [Dropped(Connections \ list) EXCEPT ![r.profile].state = "asked"]
  BY DEF ConnectionsListed
<1>2. UNCHANGED <<active, sqlTabs, epoch, groups>>
  BY DEF ConnectionsListed
<1>3. active \in SQLs /\ active \in sqlTabs /\ targets \in TargetsType /\ catalog \in CatalogType
  BY DEF TargetsKept
<1>4. catalog' \in CatalogType
  <2> DEFINE kept == Dropped(Connections \ list)
  <2>1. kept \in CatalogType
    BY <1>3 DEF Dropped, CatalogType
  <2> HIDE DEF kept
  <2>2. [kept EXCEPT ![r.profile].state = "asked"] \in CatalogType
    BY <2>1 DEF CatalogType
  <2>3. QED
    BY <1>1, <2>1, <2>2 DEF kept
<1> DEFINE left == targets[active].checked \intersect OfProfiles(list)
           new == [targets[active] EXCEPT !.checked = left]
<1>5. targets' = [targets EXCEPT ![active] = new]
  BY <1>1
<1>6. new \in ChosenType /\ new.checked = left /\ new.explicit = targets[active].explicit
  BY <1>3 DEF TargetsType, ChosenType
<1> HIDE DEF new
<1>7. /\ targets' \in TargetsType /\ targets'[active] = new
      /\ \A s \in SQLs : s # active => targets'[s] = targets[s]
  BY <1>3, <1>5, <1>6 DEF TargetsType
<1>8. TargetsKept'
  <2>1. \A s \in SQLs \ sqlTabs : NoneChosen(targets'[s])
    BY <1>3, <1>7 DEF TargetsKept
  <2>2. QED
    BY <1>2, <1>4, <1>7, <2>1, ChosenKept
<1>9. ASSUME NEW s \in SQLs PROVE TabStep(s) /\ Added(s) = {}
  <2>1. CASE s # active
    BY <1>7, <2>1, LessChosen
  <2>2. CASE s = active
    <3>1. \A d \in targets[s].checked \ targets'[s].checked : ProfileOf[d] \notin uiProfiles'
      BY <1>1, <1>3, <1>6, <1>7, <2>2 DEF OfProfiles, TargetsType, ChosenType
    <3>2. targets'[s].checked \subseteq targets[s].checked /\ targets'[s].explicit = targets[s].explicit
      BY <1>6, <1>7, <2>2
    <3>3. QED
      BY <3>1, <3>2, LessChosen
  <2>3. QED
    BY <2>1, <2>2
<1>10. targets'[active'].checked \subseteq OfProfiles(uiProfiles')
  BY <1>1, <1>2, <1>6, <1>7
<1>11. \A s \in SQLs : TabStep(s)
  BY <1>9
<1>12. groups' = groups
  BY <1>2
<1>13. QED
  BY <1>8, <1>10, <1>11, <1>12 DEF TargetsStep

LEMMA EditorChooses ==
  ASSUME TargetsKept, EditorNext
  PROVE  TargetsKept' /\ TargetsStep
<1>1. ASSUME UNCHANGED <<active, targetVars>> PROVE TargetsKept' /\ TargetsStep
  <2>1. UNCHANGED <<active, sqlTabs, targets, epoch, catalog, groups, uiProfiles>>
    BY <1>1 DEF targetVars, connectionVars
  <2>2. QED
    BY <2>1, NobodyChooses DEF TargetsKept, GroupFits, NoneChosen
<1>2. ASSUME UNCHANGED <<active, sqlTabs, targets, epoch, groups, uiProfiles>>, catalog' \in CatalogType
      PROVE  TargetsKept' /\ TargetsStep
  BY <1>2, NobodyChooses DEF TargetsKept, GroupFits, NoneChosen
<1>3. catalog \in CatalogType
  BY DEF TargetsKept
<1>4. CASE \/ \E s \in SQLs : SelectTab(s) \/ CreateTab(s)
           \/ ClearTargets \/ (\E d \in Databases : ToggleTarget(d) \/ FocusDatabase(d))
           \/ \E r \in changes : ConnectionChanged(r) \/ ConnectionsListed(r)
  BY <1>4, SelectTabChooses, CreateTabChooses, ClearTargetsChooses, ToggleTargetChooses, FocusDatabaseChooses,
     ConnectionChangedChooses, ConnectionsListedChooses
<1>5. CASE StartQuery \/ \E s \in SQLs : EndQuery(s)
  BY <1>2, <1>3, <1>5 DEF StartQuery, EndQuery, connectionVars
<1>6. ASSUME NEW p \in Connections, ExpandProfile(p) PROVE TargetsKept' /\ TargetsStep
  <2>1. catalog' \in CatalogType
    BY <1>3, <1>6 DEF ExpandProfile, CatalogIs, CatalogType
  <2>2. QED
    BY <1>2, <1>6, <2>1 DEF ExpandProfile, connectionVars
<1>7. ASSUME NEW kind, SendConnection(kind) PROVE TargetsKept' /\ TargetsStep
  <2>1. catalog' \in CatalogType
    BY <1>3, <1>7 DEF SendConnection, Dropped, CatalogType
  <2>2. QED
    BY <1>2, <1>7, <2>1 DEF SendConnection
<1>8. ASSUME NEW r \in changes, ConnectionFailed(r) PROVE TargetsKept' /\ TargetsStep
  BY <1>2, <1>3, <1>8 DEF ConnectionFailed
<1>9. CASE \/ \E kind \in {"table", "field", "join"} : OpenPicker(kind)
           \/ \E a \in picker.asked : PickerAnswered(a)
           \/ ChooseSource \/ ApplyInlinePicker \/ FillTemplate \/ LeavePicker
           \/ \E t \in Tables : ChooseTable(t) \/ TypeText(t)
  BY <1>1, <1>9 DEF OpenPicker, PickerAnswered, ChooseSource, ApplyInlinePicker, FillTemplate, LeavePicker,
     ChooseTable, TypeText
<1>10. CASE \/ \E t \in Tables : OpenDesigner(t) \/ ChooseSchemaTable(t)
            \/ OpenTemplateDesigner \/ ChooseSchemaSource \/ EditForm \/ PreviewSchema \/ ApplyPlan \/ CloseDesigner
            \/ \E a \in designer.asked : DesignerAnswered(a)
  BY <1>1, <1>10 DEF OpenDesigner, ChooseSchemaTable, OpenTemplateDesigner, ChooseSchemaSource, EditForm,
     PreviewSchema, ApplyPlan, CloseDesigner, DesignerAnswered
<1>11. CASE \/ \E p \in Connections : OpenConnectionForm(p)
            \/ CloseConnectionForm \/ TypePassword \/ ToggleConnectionPassword
            \/ \E a \in password.asked, ok \in BOOLEAN : PasswordRead(a, ok)
  BY <1>1, <1>11 DEF OpenConnectionForm, CloseConnectionForm, TypePassword, ToggleConnectionPassword, PasswordRead
<1>12. ASSUME NEW p \in Connections, NEW ok \in BOOLEAN,
              ToggleGroup(p, ok) \/ \E n \in Requests(p) : CatalogRead(p, n, ok)
       PROVE  TargetsKept' /\ TargetsStep
  BY <1>12, CatalogReadChooses, ToggleGroupChooses
<1>13. QED
  BY <1>4, <1>5, <1>6, <1>7, <1>8, <1>9, <1>10, <1>11, <1>12 DEF EditorNext

LEMMA TargetsStart == EditorInit => TargetsKept
<1> SUFFICES ASSUME EditorInit PROVE TargetsKept
  OBVIOUS
<1>1. 1 \in SQLs
  BY DatabaseAssumption DEF SQLs
<1>2. targets \in TargetsType /\ \A s \in SQLs : NoneChosen(targets[s])
  BY DEF EditorInit, TargetsType, ChosenType, NoTargets, NoneChosen
<1>3. catalog \in CatalogType
  BY DEF EditorInit, CatalogType
<1>4. QED
  BY <1>1, <1>2, <1>3 DEF EditorInit, TargetsKept, GroupFits

LEMMA TargetsGoOn == TargetsKept /\ [WorkspaceNext]_<<vars, editorVars>> => TargetsKept' /\ [TargetsStep]_editorVars
<1> SUFFICES ASSUME TargetsKept, [WorkspaceNext]_<<vars, editorVars>>
             PROVE  TargetsKept' /\ [TargetsStep]_editorVars
  OBVIOUS
<1>1. CASE UNCHANGED editorVars
  BY <1>1 DEF editorVars, targetVars, connectionVars, TargetsKept, GroupFits, NoneChosen
<1>2. CASE EditorNext
  BY <1>2, EditorChooses
<1>3. QED
  BY <1>1, <1>2 DEF WorkspaceNext

\* What the page knows of those who wait for a catalog holds throughout.
THEOREM TargetsAlwaysKept == WorkspaceSpec => []TargetsKept
<1>1. WorkspaceInit => EditorInit
  BY DEF WorkspaceInit
<1>2. QED
  BY <1>1, TargetsStart, TargetsGoOn, PTL DEF WorkspaceSpec

\* Targets are added only to the shown tab, never while its query runs, and to a new tab;
\* they are taken away there, and from every tab with a connection that is saved, deleted
\* or no longer listed.  A connection that is picked whole does not come back after the
\* tab has been changed or the targets have been cleared (changePickedTargets,
\* clearConnectionTabs, loadProfiles, activateSQLTab, targetList).
THEOREM TargetsAreAlwaysChosen == WorkspaceSpec => TargetsAreChosen
<1>1. [TargetsStep]_editorVars =>
        [/\ \A s \in SQLs :
              /\ Added(s) # {} => \/ s = active /\ s \notin running
                                  \/ s \notin sqlTabs /\ Added(s) \subseteq targets[active].checked
              /\ Removed(s) # {} => \/ s = active /\ s \notin running
                                    \/ \A d \in Removed(s) : \/ \E r \in changes : r.profile = ProfileOf[d]
                                                             \/ ProfileOf[d] \notin uiProfiles'
              /\ targets[s].explicit => targets'[s].explicit
              /\ Added(s) \subseteq OfProfiles(uiProfiles \union Awaiting) \union targets[s].focus
         /\ (active' # active \/ uiProfiles' # uiProfiles) =>
              targets'[active'].checked \subseteq OfProfiles(uiProfiles')
         /\ groups' # groups /\ (\A i \in DOMAIN groups : groups[i].overtaken) =>
              \A s \in sqlTabs : Added(s) = {}]_editorVars
  BY DEF TargetsStep, TabStep
<1>2. WorkspaceInit => EditorInit
  BY DEF WorkspaceInit
<1>3. QED
  BY <1>1, <1>2, TargetsStart, TargetsGoOn, PTL DEF WorkspaceSpec, TargetsAreChosen

-----------------------------------------------------------------------------
(***************************************************************************)
(* The page of Redis keys (Redis): for all connections, keys and           *)
(* namespaces, and every number of values and redisClicks.                 *)
(*                                                                         *)
(* The invariant says of the one handler that waits what its answer may    *)
(* rely on: which connection it was asked of, which text it may replace    *)
(* and which version it may overwrite.                                     *)
(***************************************************************************)
USE RedisAssumption

Kinds == {"load", "scan", "write", "delete", "version", "copy", "preview", "namespace", "connect", "remove", "create",
          "list", "saved", "removed"}
OfConnection == {"connect", "remove", "list", "saved", "removed"}
OfKey == {"load", "write", "delete", "version", "copy", "create"}

\* Values are those made so far.
ValuesKept ==
  /\ made \in Values
  /\ store \in [Servers -> [Keys -> Nat]]
  /\ \A c \in Servers, k \in Keys : store[c][k] <= made
  /\ typed \union given \union written \union replaced \subseteq 0..made
PageKept ==
  /\ page \in [key : Keys \union {NoKey}, of : Servers \union {NoConnection},
               version : Nat, text : Nat, ttl : BOOLEAN]
  /\ page.version <= made /\ page.text <= made
  /\ page.key = NoKey => page.text = page.version /\ ~page.ttl
DialogKept ==
  /\ newKey \in [open : BOOLEAN, text : Nat, generation : Nat] /\ newKey.text <= made
  /\ file \in [reading : BOOLEAN, generation : Nat, previous : Nat] /\ file.previous <= made
  /\ newKey.text # Absent => newKey.open
  /\ newKey.open => id # NoConnection
RestKept ==
  /\ connections \union removed \subseteq Servers /\ unlisted \in BOOLEAN
  /\ profiles \subseteq connections \union removed
  /\ id # NoConnection => id \in connections \union removed
  /\ unseen \subseteq Servers \X Keys /\ redisClicks \in 0..MaxRedisClicks

\* A key is shown only of the chosen connection, which is one of the profiles or was
\* removed and kept.
SelectionKept ==
  /\ page.key # NoKey => page.of = id /\ id # NoConnection
  /\ \/ id \in profiles \/ (id = NoConnection /\ profiles = {})
     \/ unlisted /\ id \in removed

\* Texts: what may be let go of has been given up or written.
Spent(t) == t \in typed => t \in given \union written \union replaced
DraftsKept ==
  /\ TextsAreKept /\ Absent \notin typed
  /\ Spent(page.version)
  /\ \A c \in Servers, k \in Keys : store[c][k] \in typed => store[c][k] \in written

\* Versions: one that another client has replaced does not come back.
Stale(c, k, version) ==
  <<c, k>> \in unseen /\ store[c][k] # Absent => store[c][k] # version
VersionsKept ==
  /\ page.key # NoKey => Stale(page.of, page.key, page.version)
  /\ newKey.text # Absent => newKey.text # page.version

\* What the answer to the handler that waits may rely on.
OpType ==
  [kind : Kinds, of : Servers \union {NoConnection}, key : Keys \union {NoKey}, value : Nat, version : Nat, keys : SUBSET Keys]
OpTyped(o) ==
  /\ o \in OpType /\ o.value <= made /\ o.version <= made
  /\ o.kind \notin OfConnection => o.of = id
  /\ o.kind \in OfKey => o.key \in Keys
  /\ o.kind \notin {"connect", "list"} => o.of \in Servers
  /\ o.kind \in {"remove", "removed"} => id # NoConnection
OpSpends(o) ==
  /\ o.kind \in {"load", "connect", "saved"} => Spent(page.text)
  /\ o.kind = "delete" /\ o.key = page.key => Spent(page.text)
  /\ o.kind = "version" => o.key # page.key
  /\ o.kind \in {"preview", "namespace"} /\ page.key \in Namespace => Spent(page.text)
  /\ o.kind \in {"remove", "removed"} /\ o.of = id => Spent(page.text)
  /\ o.kind = "write" /\ page.text # o.value => Spent(page.text)
  /\ o.kind = "create" /\ newKey.text # o.value => Spent(newKey.text)
OpVersion(o) ==
  /\ o.kind \in {"write", "delete"} => Stale(o.of, o.key, o.version)
  /\ o.kind = "create" => o.value # Absent /\ o.value # page.version
  /\ newKey.open => o.kind = "create"
OpKept(o) == OpTyped(o) /\ OpSpends(o) /\ OpVersion(o)
OpsKept == \A o \in ops : ops = {o} /\ OpKept(o)

KeysKept ==
  /\ ValuesKept /\ PageKept /\ DialogKept /\ RestKept
  /\ SelectionKept /\ DraftsKept /\ VersionsKept /\ OpsKept

(***************************************************************************)
(* What starts, and what the user types.                                   *)
(***************************************************************************)
\* What was spent stays so.
LEMMA SpentStays ==
  ASSUME NEW t, Spent(t), typed' = typed, given \subseteq given', written \subseteq written',
         replaced \subseteq replaced'
  PROVE  t \in typed' => t \in given' \union written' \union replaced'
  BY DEF Spent

\* A confirmed guard spends the text of the page.
LEMMA GuardSpends ==
  ASSUME KeysKept, Guard, UNCHANGED <<typed, written, replaced>>
  PROVE  /\ given \subseteq given' /\ given' \subseteq 0..made
         /\ page.text \in typed => page.text \in given' \union written' \union replaced'
<1>1. page.text \in 0..made /\ given \subseteq 0..made /\ Spent(page.version)
  BY DEF KeysKept, PageKept, ValuesKept, DraftsKept, Values
<1>2. given' = given \union Discarded /\ Discarded \in {{}, {page.text}}
  BY DEF Guard, Discarded
<1>3. CASE page.text # page.version
  BY <1>1, <1>2, <1>3 DEF Discarded
<1>4. CASE page.text = page.version
  BY <1>1, <1>2, <1>4 DEF Spent
<1>5. QED
  BY <1>3, <1>4

\* Only the handler that waits and what was given up change.
LEMMA StartedIsKept ==
  ASSUME KeysKept, RedisClick, NEW o, ops' = {o}, UNCHANGED <<store, serviceVars, pageVars, made, typed, written, replaced, unseen>>,
         given \subseteq given', given' \subseteq 0..made, OpKept(o)'
  PROVE  KeysKept'
<1>1. UNCHANGED <<store, connections, removed, unlisted, profiles, id, page, newKey, file, made, typed,
                  written, replaced, unseen>>
  BY DEF pageVars, serviceVars
<1>2. redisClicks' \in 0..MaxRedisClicks
  BY DEF KeysKept, RestKept, RedisClick
<1>3. ValuesKept' /\ PageKept' /\ DialogKept' /\ RestKept'
  <2>1. ValuesKept'
    BY <1>1 DEF KeysKept, ValuesKept
  <2>2. PageKept' /\ DialogKept'
    BY <1>1 DEF KeysKept, PageKept, DialogKept
  <2>3. RestKept'
    BY <1>1, <1>2 DEF KeysKept, RestKept
  <2>4. QED
    BY <2>1, <2>2, <2>3
<1>4. SelectionKept' /\ VersionsKept'
  BY <1>1 DEF KeysKept, SelectionKept, VersionsKept, Stale
<1>5. DraftsKept'
  BY <1>1 DEF KeysKept, DraftsKept, TextsAreKept, Spent
<1>6. OpsKept'
  BY DEF OpsKept
<1>7. QED
  BY <1>3, <1>4, <1>5, <1>6 DEF KeysKept

\* The connection and the key of the page.
LEMMA PageIsChosen ==
  ASSUME KeysKept
  PROVE  /\ id # NoConnection => id \in Servers
         /\ page.key # NoKey => page.of = id /\ id \in Servers /\ page.key \in Keys
         /\ page.version \in Nat /\ page.version <= made /\ page.text \in Nat /\ page.text <= made
         /\ newKey.text \in Nat /\ newKey.text <= made /\ made \in Nat
         /\ newKey.open => id # NoConnection
  BY DEF KeysKept, SelectionKept, RestKept, PageKept, DialogKept, ValuesKept, Values

\* A click that asks the service starts one operation on what is chosen.
LEMMA UserStarts ==
  ASSUME KeysKept,
         \/ \E k \in Keys : OpenKey(k) \/ DeleteKey(k) \/ CopyKey(k) \/ SaveNewKey(k)
         \/ Save \/ Expire \/ AskKeys \/ AskConnections \/ DeleteNamespace
         \/ \E c \in Servers : RemoveConnection(c)
         \/ \E c \in Servers \union {NoConnection} : SaveConnection(c)
  PROVE  KeysKept'
<1>1. /\ id # NoConnection => id \in Servers
      /\ page.key # NoKey => page.of = id /\ id \in Servers /\ page.key \in Keys
      /\ page.version \in Nat /\ page.version <= made /\ page.text \in Nat /\ page.text <= made
      /\ newKey.text \in Nat /\ newKey.text <= made /\ made \in Nat
      /\ newKey.open => id # NoConnection
  BY PageIsChosen
<1>2. given \subseteq 0..made /\ VersionsKept
  BY DEF KeysKept, ValuesKept
\* What starts is of a kind, a key and a connection, and may do what it will do.
<1>3. ASSUME NEW o, o \in OpType, o.value <= made, o.version <= made,
             o.kind \notin OfConnection => o.of = id, o.kind \in OfKey => o.key \in Keys,
             o.kind \notin {"connect", "list"} => o.of \in Servers,
             o.kind \in {"remove", "removed"} => id # NoConnection,
             UNCHANGED <<store, serviceVars, pageVars, made, typed, written, replaced, unseen>>,
             OpSpends(o)', OpVersion(o)',
             RedisClick, ops = {}, Starts(o), given \subseteq given', given' \subseteq 0..made
      PROVE  KeysKept'
  <2>1. OpTyped(o)'
    BY <1>3 DEF OpTyped, pageVars
  <2>2. OpKept(o)' /\ ops' = {o}
    BY <1>3, <2>1 DEF OpKept, Starts
  <2>3. QED
    BY <1>3, <2>2, StartedIsKept
<1>4. ASSUME NEW k \in Keys, OpenKey(k) PROVE KeysKept'
  <2>1. /\ RedisClick /\ ops = {} /\ ~newKey.open /\ id # NoConnection /\ Guard /\ Starts(Load(id, k))
        /\ UNCHANGED <<store, serviceVars, pageVars, made, typed, written, replaced, unseen>>
    BY <1>4 DEF OpenKey, AtPage, Idle
  <2>2. /\ given \subseteq given' /\ given' \subseteq 0..made
        /\ page.text \in typed => page.text \in given' \union written' \union replaced'
    BY <2>1, GuardSpends
  <2>3. PICK o : o = Load(id, k)
    OBVIOUS
  <2>4. o \in OpType /\ o.kind = "load" /\ o.of = id /\ o.key = k /\ o.value = 0 /\ o.version = 0
    BY <1>1, <2>1, <2>3 DEF Load, Op, OpType, Kinds, Absent
  <2>5. OpSpends(o)' /\ OpVersion(o)'
    BY <2>1, <2>2, <2>4 DEF OpSpends, OpVersion, Spent, pageVars
  <2>6. QED
    BY <1>1, <1>3, <2>1, <2>2, <2>3, <2>4, <2>5
<1>5. ASSUME NEW k \in Keys, DeleteKey(k) PROVE KeysKept'
  <2>1. /\ RedisClick /\ ops = {} /\ ~newKey.open /\ id # NoConnection
        /\ UNCHANGED <<store, serviceVars, pageVars, made, typed, written, replaced, unseen>>
    BY <1>5 DEF DeleteKey, AtPage, Idle
  <2>2. CASE k = page.key
    <3>1. Guard /\ Starts(Delete(id, k, page.version))
      BY <1>5, <2>2 DEF DeleteKey
    <3>2. /\ given \subseteq given' /\ given' \subseteq 0..made
          /\ page.text \in typed => page.text \in given' \union written' \union replaced'
      BY <2>1, <3>1, GuardSpends
    <3>3. PICK o : o = Delete(id, k, page.version)
      OBVIOUS
    <3>4. o \in OpType /\ o.kind = "delete" /\ o.of = id /\ o.key = k /\ o.value = 0 /\ o.version = page.version
      BY <1>1, <2>1, <3>3 DEF Delete, Op, OpType, Kinds, Absent
    <3>5. OpSpends(o)'
      BY <2>1, <3>2, <3>4 DEF OpSpends, Spent, pageVars
    <3>6. OpVersion(o)'
      BY <1>1, <1>2, <2>1, <2>2, <3>4 DEF OpVersion, VersionsKept, Stale, pageVars
    <3>7. QED
      BY <1>1, <1>3, <2>1, <3>1, <3>2, <3>3, <3>4, <3>5, <3>6
  <2>3. CASE k # page.key
    <3>1. Starts(Op("version", id, k, Absent, Absent, {})) /\ UNCHANGED given
      BY <1>5, <2>3 DEF DeleteKey
    <3>2. PICK o : o = Op("version", id, k, Absent, Absent, {})
      OBVIOUS
    <3>3. o \in OpType /\ o.kind = "version" /\ o.of = id /\ o.key = k /\ o.value = 0 /\ o.version = 0
      BY <1>1, <2>1, <3>2 DEF Op, OpType, Kinds, Absent
    <3>4. OpSpends(o)' /\ OpVersion(o)'
      BY <2>1, <2>3, <3>3 DEF OpSpends, OpVersion, pageVars
    <3>5. QED
      BY <1>1, <1>2, <1>3, <2>1, <3>1, <3>2, <3>3, <3>4
  <2>4. QED
    BY <2>2, <2>3
<1>6. ASSUME NEW k \in Keys, CopyKey(k) PROVE KeysKept'
  <2>1. /\ RedisClick /\ ops = {} /\ ~newKey.open /\ id # NoConnection /\ Starts(Op("copy", id, k, Absent, Absent, {}))
        /\ UNCHANGED <<store, serviceVars, pageVars, made, typed, given, written, replaced, unseen>>
    BY <1>6 DEF CopyKey, AtPage, Idle, ghosts
  <2>2. PICK o : o = Op("copy", id, k, Absent, Absent, {})
    OBVIOUS
  <2>3. o \in OpType /\ o.kind = "copy" /\ o.of = id /\ o.key = k /\ o.value = 0 /\ o.version = 0
    BY <1>1, <2>1, <2>2 DEF Op, OpType, Kinds, Absent
  <2>4. OpSpends(o)' /\ OpVersion(o)'
    BY <2>1, <2>3 DEF OpSpends, OpVersion, pageVars
  <2>5. QED
    BY <1>1, <1>2, <1>3, <2>1, <2>2, <2>3, <2>4
<1>7. ASSUME NEW k \in Keys, SaveNewKey(k) PROVE KeysKept'
  <2>1. /\ RedisClick /\ ops = {} /\ newKey.open /\ newKey.text # Absent /\ Starts(Op("create", id, k, newKey.text, Absent, {}))
        /\ UNCHANGED <<store, serviceVars, pageVars, made, typed, given, written, replaced, unseen>>
    BY <1>7 DEF SaveNewKey, InDialog, Idle, ghosts
  <2>2. PICK o : o = Op("create", id, k, newKey.text, Absent, {})
    OBVIOUS
  <2>3. o \in OpType /\ o.kind = "create" /\ o.of = id /\ o.key = k /\ o.value = newKey.text /\ o.version = 0
    BY <1>1, <2>1, <2>2 DEF Op, OpType, Kinds, Absent
  <2>4. OpSpends(o)' /\ OpVersion(o)'
    BY <1>2, <2>1, <2>3 DEF OpSpends, OpVersion, VersionsKept, pageVars
  <2>5. QED
    BY <1>1, <1>2, <1>3, <2>1, <2>2, <2>3, <2>4
<1>8. CASE Save
  <2>1. /\ RedisClick /\ ops = {} /\ ~newKey.open /\ page.key # NoKey
        /\ Starts(Write(id, page.key, page.text, page.version))
        /\ UNCHANGED <<store, serviceVars, pageVars, made, typed, given, written, replaced, unseen>>
    BY <1>8 DEF Save, AtPage, Idle, ghosts
  <2>2. PICK o : o = Write(id, page.key, page.text, page.version)
    OBVIOUS
  <2>3. o \in OpType /\ o.kind = "write" /\ o.of = id /\ o.key = page.key /\ o.value = page.text /\ o.version = page.version
    BY <1>1, <2>1, <2>2 DEF Write, Op, OpType, Kinds
  <2>4. OpSpends(o)' /\ OpVersion(o)'
    BY <1>1, <1>2, <2>1, <2>3 DEF OpSpends, OpVersion, VersionsKept, Stale, pageVars
  <2>5. QED
    BY <1>1, <1>2, <1>3, <2>1, <2>2, <2>3, <2>4
<1>9. CASE Expire
  <2>1. /\ RedisClick /\ ops = {} /\ ~newKey.open /\ page.key # NoKey /\ Guard
        /\ Starts(Write(id, page.key, page.version, page.version))
        /\ UNCHANGED <<store, serviceVars, pageVars, made, typed, written, replaced, unseen>>
    BY <1>9 DEF Expire, AtPage, Idle
  <2>2. /\ given \subseteq given' /\ given' \subseteq 0..made
        /\ page.text \in typed => page.text \in given' \union written' \union replaced'
    BY <2>1, GuardSpends
  <2>3. PICK o : o = Write(id, page.key, page.version, page.version)
    OBVIOUS
  <2>4. o \in OpType /\ o.kind = "write" /\ o.of = id /\ o.key = page.key /\ o.value = page.version /\ o.version = page.version
    BY <1>1, <2>1, <2>3 DEF Write, Op, OpType, Kinds
  <2>5. OpSpends(o)' /\ OpVersion(o)'
    BY <1>1, <1>2, <2>1, <2>2, <2>4 DEF OpSpends, OpVersion, VersionsKept, Stale, Spent, pageVars
  <2>6. QED
    BY <1>1, <1>3, <2>1, <2>2, <2>3, <2>4, <2>5
<1>10. CASE AskKeys
  <2>1. /\ RedisClick /\ ops = {} /\ ~newKey.open /\ id # NoConnection /\ Starts(Scan(id))
        /\ UNCHANGED <<store, serviceVars, pageVars, made, typed, given, written, replaced, unseen>>
    BY <1>10 DEF AskKeys, AtPage, Idle, ghosts
  <2>2. PICK o : o = Scan(id)
    OBVIOUS
  <2>3. o \in OpType /\ o.kind = "scan" /\ o.of = id /\ o.value = 0 /\ o.version = 0
    BY <1>1, <2>1, <2>2 DEF Scan, Op, OpType, Kinds, Absent
  <2>4. OpSpends(o)' /\ OpVersion(o)' /\ o.kind \notin OfKey
    BY <2>1, <2>3 DEF OpSpends, OpVersion, pageVars, OfKey
  <2>5. QED
    BY <1>1, <1>2, <1>3, <2>1, <2>2, <2>3, <2>4
<1>11. CASE DeleteNamespace
  <2>1. /\ RedisClick /\ ops = {} /\ ~newKey.open /\ id # NoConnection
        /\ (IF page.key \in Namespace THEN Guard ELSE UNCHANGED given)
        /\ Starts(Op("preview", id, NoKey, Absent, Absent, {}))
        /\ UNCHANGED <<store, serviceVars, pageVars, made, typed, written, replaced, unseen>>
    BY <1>11 DEF DeleteNamespace, AtPage, Idle
  <2>2. /\ given \subseteq given' /\ given' \subseteq 0..made
        /\ page.key \in Namespace => (page.text \in typed => page.text \in given' \union written' \union replaced')
    BY <1>2, <2>1, GuardSpends
  <2>3. PICK o : o = Op("preview", id, NoKey, Absent, Absent, {})
    OBVIOUS
  <2>4. o \in OpType /\ o.kind = "preview" /\ o.of = id /\ o.value = 0 /\ o.version = 0
    BY <1>1, <2>1, <2>3 DEF Op, OpType, Kinds, Absent
  <2>5. OpSpends(o)' /\ OpVersion(o)' /\ o.kind \notin OfKey
    BY <2>1, <2>2, <2>4 DEF OpSpends, OpVersion, Spent, pageVars, OfKey
  <2>6. QED
    BY <1>1, <1>3, <2>1, <2>2, <2>3, <2>4, <2>5
<1>12. ASSUME NEW c \in Servers \union {NoConnection}, SaveConnection(c) PROVE KeysKept'
  <2>1. /\ RedisClick /\ ops = {} /\ ~newKey.open /\ Guard /\ Starts(Op("connect", c, NoKey, Absent, Absent, {}))
        /\ UNCHANGED <<store, serviceVars, pageVars, made, typed, written, replaced, unseen>>
    BY <1>12 DEF SaveConnection, AtPage, Idle
  <2>2. /\ given \subseteq given' /\ given' \subseteq 0..made
        /\ page.text \in typed => page.text \in given' \union written' \union replaced'
    BY <2>1, GuardSpends
  <2>3. PICK o : o = Op("connect", c, NoKey, Absent, Absent, {})
    OBVIOUS
  <2>4. o \in OpType /\ o.kind = "connect" /\ o.value = 0 /\ o.version = 0
    BY <2>1, <2>3 DEF Op, OpType, Kinds, Absent
  <2>5. OpSpends(o)' /\ OpVersion(o)' /\ o.kind \notin OfKey /\ o.kind \in OfConnection
    BY <2>1, <2>2, <2>4 DEF OpSpends, OpVersion, Spent, pageVars, OfKey, OfConnection
  <2>6. QED
    BY <1>1, <1>3, <2>1, <2>2, <2>3, <2>4, <2>5
<1>13. ASSUME NEW c \in Servers, RemoveConnection(c) PROVE KeysKept'
  <2>1. /\ RedisClick /\ ops = {} /\ ~newKey.open /\ (IF c = id THEN Guard ELSE UNCHANGED given)
        /\ Starts(Op("remove", c, NoKey, Absent, Absent, {}))
        /\ UNCHANGED <<store, serviceVars, pageVars, made, typed, written, replaced, unseen>>
    BY <1>13 DEF RemoveConnection, AtPage, Idle
  <2>2. /\ given \subseteq given' /\ given' \subseteq 0..made
        /\ c = id => (page.text \in typed => page.text \in given' \union written' \union replaced')
    BY <1>2, <2>1, GuardSpends
  <2>3. PICK o : o = Op("remove", c, NoKey, Absent, Absent, {})
    OBVIOUS
  <2>4. o \in OpType /\ o.kind = "remove" /\ o.of = c /\ o.value = 0 /\ o.version = 0
    BY <2>1, <2>3 DEF Op, OpType, Kinds, Absent
  <2>5. OpSpends(o)' /\ OpVersion(o)' /\ o.kind \notin OfKey /\ o.kind \in OfConnection
    BY <2>1, <2>2, <2>4 DEF OpSpends, OpVersion, Spent, pageVars, OfKey, OfConnection
  <2>6. id # NoConnection
    BY <1>13 DEF RemoveConnection, KeysKept, SelectionKept, RestKept
  <2>7. QED
    BY <1>1, <1>3, <2>1, <2>2, <2>3, <2>4, <2>5, <2>6
<1>14. CASE AskConnections
  <2>1. /\ RedisClick /\ ops = {} /\ ~newKey.open /\ Starts(Listing("list", NoConnection))
        /\ UNCHANGED <<store, serviceVars, pageVars, made, typed, given, written, replaced, unseen>>
    BY <1>14 DEF AskConnections, AtPage, Idle, ghosts
  <2>2. PICK o : o = Listing("list", NoConnection)
    OBVIOUS
  <2>3. o \in OpType /\ o.kind = "list" /\ o.value = 0 /\ o.version = 0
    BY <2>1, <2>2 DEF Listing, Op, OpType, Kinds, Absent
  <2>4. OpSpends(o)' /\ OpVersion(o)' /\ o.kind \notin OfKey /\ o.kind \in OfConnection
    BY <2>1, <2>3 DEF OpSpends, OpVersion, pageVars, OfKey, OfConnection
  <2>5. QED
    BY <1>1, <1>2, <1>3, <2>1, <2>2, <2>3, <2>4
<1>15. QED
  BY <1>4, <1>5, <1>6, <1>7, <1>8, <1>9, <1>10, <1>11, <1>12, <1>13, <1>14

\* What the actions leave alone keeps its part of the invariant.
LEMMA PartsStay ==
  ASSUME KeysKept, made' \in Values, made' >= made
  PROVE  /\ UNCHANGED page => PageKept'
         /\ UNCHANGED <<newKey, file, id>> => DialogKept'
         /\ UNCHANGED <<serviceVars, profiles, id, unseen>> /\ (RedisClick \/ UNCHANGED redisClicks) => RestKept'
         /\ UNCHANGED <<store, typed, given, written, replaced>> => ValuesKept'
         /\ UNCHANGED <<serviceVars, page, id, profiles>> => SelectionKept'
         /\ ops' = {} => OpsKept'
<1>1. made \in Nat /\ made' \in Nat
  BY DEF KeysKept, ValuesKept, Values
<1>2. UNCHANGED page => PageKept'
  BY <1>1 DEF KeysKept, PageKept
<1>3. UNCHANGED <<newKey, file, id>> => DialogKept'
  BY <1>1 DEF KeysKept, DialogKept
<1>4. UNCHANGED <<serviceVars, profiles, id, unseen>> /\ (RedisClick \/ UNCHANGED redisClicks) => RestKept'
  BY DEF KeysKept, RestKept, RedisClick, serviceVars
<1>5. UNCHANGED <<store, typed, given, written, replaced>> => ValuesKept'
  BY <1>1 DEF KeysKept, ValuesKept
<1>6. UNCHANGED <<serviceVars, page, id, profiles>> => SelectionKept'
  BY DEF KeysKept, SelectionKept, serviceVars
<1>7. ops' = {} => OpsKept'
  BY DEF OpsKept
<1>8. QED
  BY <1>2, <1>3, <1>4, <1>5, <1>6, <1>7

\* A value nobody had is greater than all there are.
LEMMA FreshIsNew ==
  ASSUME KeysKept, NewValue
  PROVE  /\ made \in Nat /\ made' = made + 1 /\ made' \in Values /\ made' >= made
         /\ typed \union given \union written \union replaced \subseteq 0..made /\ made + 1 \notin typed \union given \union written \union replaced
         /\ page.version \in Nat /\ page.version <= made /\ page.text \in Nat /\ page.text <= made
         /\ newKey.text \in Nat /\ newKey.text <= made
  BY DEF NewValue, KeysKept, ValuesKept, PageKept, DialogKept, Values

\* Typing a value or a lifetime changes the page alone.
LEMMA PageEdits ==
  ASSUME KeysKept, TypeValue \/ TypeTTL
  PROVE  KeysKept'
<1>1. CASE TypeValue
  <2>1. /\ RedisClick /\ ops = {} /\ ~newKey.open /\ page.key # NoKey /\ NewValue /\ Guard
        /\ page' = [page EXCEPT !.text = made + 1] /\ typed' = typed \union {made + 1}
        /\ UNCHANGED <<store, serviceVars, profiles, id, newKey, file, ops, written, replaced, unseen>>
    BY <1>1 DEF TypeValue, AtPage, Idle
  <2>2. /\ made \in Nat /\ made' = made + 1 /\ made' \in Values /\ made' >= made
        /\ typed \union given \union written \union replaced \subseteq 0..made
        /\ page.version \in Nat /\ page.version <= made /\ page.text \in Nat /\ page.text <= made
        /\ newKey.text \in Nat /\ newKey.text <= made
    BY <2>1, FreshIsNew
  <2>3. DialogKept' /\ RestKept' /\ OpsKept'
    BY <2>1, <2>2, PartsStay
  <2>4. /\ page'.key = page.key /\ page'.of = page.of /\ page'.version = page.version /\ page'.text = made + 1
        /\ PageKept'
    BY <2>1, <2>2 DEF KeysKept, PageKept
  <2>5. given' = given \union Discarded /\ Discarded \subseteq {page.text}
        /\ (page.text \in typed => page.text \in given' \union written' \union replaced')
    <3>1. Spent(page.version)
      BY DEF KeysKept, DraftsKept
    <3>2. QED
      BY <2>1, <3>1 DEF Guard, Discarded, Spent
  <2>6. ValuesKept'
    <3>1. store' = store /\ store \in [Servers -> [Keys -> Nat]]
          /\ \A c \in Servers, k \in Keys : store[c][k] <= made
      BY <2>1 DEF KeysKept, ValuesKept
    <3>2. \A c \in Servers, k \in Keys : store[c][k] <= made + 1
      BY <2>2, <3>1
    <3>3. typed' \union given' \union written' \union replaced' \subseteq 0..(made + 1)
      BY <2>1, <2>2, <2>5
    <3>4. QED
      BY <2>2, <3>1, <3>2, <3>3 DEF ValuesKept
  <2>7. SelectionKept'
    BY <2>1, <2>4 DEF KeysKept, SelectionKept, serviceVars
  <2>8. VersionsKept'
    BY <2>1, <2>4 DEF KeysKept, VersionsKept, Stale
  <2>9. DraftsKept'
    <3>1. TextsAreKept'
      BY <2>1, <2>4, <2>5 DEF KeysKept, DraftsKept, TextsAreKept
    <3>2. Spent(page.version)'
      BY <2>1, <2>2, <2>4, <2>5 DEF KeysKept, DraftsKept, Spent
    <3>3. \A c \in Servers, k \in Keys : store[c][k] \in typed' => store[c][k] \in written
      <4>1. \A c \in Servers, k \in Keys : store[c][k] \in Nat /\ store[c][k] <= made
        BY DEF KeysKept, ValuesKept
      <4>2. QED
        BY <2>1, <2>2, <4>1 DEF KeysKept, DraftsKept
    <3>4. Absent \notin typed'
      BY <2>1, <2>2 DEF KeysKept, DraftsKept, Absent
    <3>5. QED
      BY <2>1, <3>1, <3>2, <3>3, <3>4 DEF DraftsKept
  <2>10. QED
    BY <2>3, <2>4, <2>6, <2>7, <2>8, <2>9 DEF KeysKept
<1>2. CASE TypeTTL
  <2>1. /\ RedisClick /\ ops = {} /\ page.key # NoKey /\ page' = [page EXCEPT !.ttl = TRUE]
        /\ UNCHANGED <<store, serviceVars, profiles, id, newKey, file, ops, made, typed, given, written, replaced, unseen>>
    BY <1>2 DEF TypeTTL, AtPage, Idle, ghosts
  <2>2. made' \in Values /\ made' >= made
    BY <2>1 DEF KeysKept, ValuesKept, Values
  <2>3. DialogKept' /\ RestKept' /\ OpsKept' /\ ValuesKept'
    BY <2>1, <2>2, PartsStay
  <2>4. /\ page'.key = page.key /\ page'.of = page.of /\ page'.version = page.version /\ page'.text = page.text
        /\ PageKept'
    BY <2>1 DEF KeysKept, PageKept
  <2>5. SelectionKept' /\ VersionsKept'
    BY <2>1, <2>4 DEF KeysKept, SelectionKept, VersionsKept, Stale, serviceVars
  <2>6. DraftsKept'
    BY <2>1, <2>4 DEF KeysKept, DraftsKept, TextsAreKept, Spent
  <2>7. QED
    BY <2>3, <2>4, <2>5, <2>6 DEF KeysKept
<1>3. QED
  BY <1>1, <1>2

\* The dialog gets another text, which is none or new, and its old one is given up.
LEMMA DialogChanges ==
  ASSUME KeysKept, made' \in Values, made' >= made, NEW new \in Nat, NEW dialog, newKey' = dialog,
         dialog \in [open : BOOLEAN, text : Nat, generation : Nat], dialog.text = new,
         new = Absent \/ (new = made + 1 /\ made' = new /\ dialog.open),
         typed' = typed \/ (typed' = typed \union {new} /\ new = made + 1),
         \/ given' = given \union {newKey.text} /\ replaced' = replaced
         \/ replaced' = replaced \union {newKey.text} /\ given' = given,
         dialog.open => id # NoConnection,
         file' \in [reading : BOOLEAN, generation : Nat, previous : Nat], file'.previous <= made',
         UNCHANGED <<store, serviceVars, profiles, id, page, written, unseen>>, RedisClick \/ UNCHANGED redisClicks
  PROVE  /\ ValuesKept' /\ PageKept' /\ DialogKept' /\ RestKept'
         /\ SelectionKept' /\ DraftsKept' /\ VersionsKept'
<1>1. PageKept' /\ RestKept' /\ SelectionKept'
  BY PartsStay
<1>2. /\ made \in Nat /\ made' \in Nat /\ made' >= made /\ page.version \in Nat /\ page.version <= made
      /\ newKey.text \in Nat /\ newKey.text <= made /\ new <= made'
      /\ typed \union given \union written \union replaced \subseteq 0..made
  <2>1. made \in Nat /\ made' \in Nat /\ typed \union given \union written \union replaced \subseteq 0..made
    BY DEF KeysKept, ValuesKept, Values
  <2>2. QED
    BY <2>1, PageIsChosen DEF Absent
<1>3. DialogKept'
  BY <1>2 DEF DialogKept, Absent
<1>4. ValuesKept'
  <2>1. store' = store /\ store \in [Servers -> [Keys -> Nat]]
        /\ \A c \in Servers, k \in Keys : store[c][k] <= made
    BY DEF KeysKept, ValuesKept
  <2>2. \A c \in Servers, k \in Keys : store[c][k] <= made'
    BY <1>2, <2>1
  <2>3. typed' \union given' \union written' \union replaced' \subseteq 0..made'
    BY <1>2
  <2>4. QED
    BY <2>1, <2>2, <2>3 DEF ValuesKept
<1>5. VersionsKept'
  BY <1>2 DEF KeysKept, VersionsKept, Stale, Absent
<1>6. DraftsKept'
  <2>1. TextsAreKept'
    BY DEF KeysKept, DraftsKept, TextsAreKept
  <2>2. Spent(page.version)'
    BY <1>2 DEF KeysKept, DraftsKept, Spent
  <2>3. \A c \in Servers, k \in Keys : store[c][k] \in typed' => store[c][k] \in written
    <3>1. \A c \in Servers, k \in Keys : store[c][k] \in Nat /\ store[c][k] <= made
      BY DEF KeysKept, ValuesKept
    <3>2. QED
      BY <1>2, <3>1 DEF KeysKept, DraftsKept
  <2>4. Absent \notin typed'
    BY <1>2 DEF KeysKept, DraftsKept, Absent
  <2>5. QED
    BY <2>1, <2>2, <2>3, <2>4 DEF DraftsKept
<1>7. QED
  BY <1>1, <1>3, <1>4, <1>5, <1>6

\* What happens in the dialog of a new key stays there.
LEMMA DialogEdits ==
  ASSUME KeysKept, OpenNewKey \/ TypeNewKey \/ ChooseType \/ CloseNewKey \/ ChooseFile
  PROVE  KeysKept'
<1>1. /\ made \in Values /\ made \in Nat /\ newKey \in [open : BOOLEAN, text : Nat, generation : Nat]
      /\ newKey.text <= made /\ file \in [reading : BOOLEAN, generation : Nat, previous : Nat] /\ file.previous <= made
      /\ (newKey.text # Absent => newKey.open) /\ (newKey.open => id # NoConnection)
  BY DEF KeysKept, ValuesKept, DialogKept, Values
<1>2. CASE OpenNewKey
  <2> DEFINE dialog == [open |-> TRUE, text |-> Absent, generation |-> newKey.generation + 1]
  <2>1. /\ ops = {} /\ ~newKey.open /\ id # NoConnection /\ newKey' = dialog
        /\ UNCHANGED <<store, serviceVars, profiles, id, page, file, ops, made, typed, given, written, replaced, unseen, redisClicks>>
    BY <1>2 DEF OpenNewKey, AtPage, Idle, ghosts
  <2>2. PageKept' /\ RestKept' /\ SelectionKept' /\ ValuesKept' /\ OpsKept'
    BY <1>1, <2>1, PartsStay
  <2>3. newKey.text = Absent /\ newKey'.text = Absent
    BY <1>1, <2>1
  <2>4. DialogKept'
    BY <1>1, <2>1 DEF DialogKept, Absent
  <2>5. VersionsKept'
    BY <2>1, <2>3 DEF KeysKept, VersionsKept, Stale
  <2>6. DraftsKept'
    BY <2>1, <2>3 DEF KeysKept, DraftsKept, TextsAreKept, Spent
  <2>7. QED
    BY <2>2, <2>4, <2>5, <2>6 DEF KeysKept
<1>3. CASE TypeNewKey
  <2> DEFINE dialog == [newKey EXCEPT !.text = made + 1]
  <2>1. /\ RedisClick /\ ops = {} /\ newKey.open /\ NewValue /\ newKey' = dialog /\ typed' = typed \union {made + 1}
        /\ given' = given \union {newKey.text}
        /\ UNCHANGED <<store, serviceVars, profiles, id, page, file, ops, written, replaced, unseen>>
    BY <1>3 DEF TypeNewKey, InDialog, Idle
  <2>2. made' = made + 1 /\ made' \in Values /\ made' >= made
    BY <2>1, FreshIsNew
  <2>3. dialog \in [open : BOOLEAN, text : Nat, generation : Nat] /\ dialog.text = made + 1 /\ dialog.open
    BY <1>1, <2>1
  <2>4. file'.previous <= made' /\ file' \in [reading : BOOLEAN, generation : Nat, previous : Nat] /\ made + 1 \in Nat
    BY <1>1, <2>1, <2>2
  <2> HIDE DEF dialog
  <2>5. /\ ValuesKept' /\ PageKept' /\ DialogKept' /\ RestKept'
        /\ SelectionKept' /\ DraftsKept' /\ VersionsKept'
    BY <1>1, <2>1, <2>2, <2>3, <2>4, DialogChanges
  <2>6. QED
    BY <2>1, <2>5 DEF KeysKept, OpsKept
<1>4. CASE CloseNewKey
  <2>1. /\ RedisClick /\ ops = {} /\ newKey' = Closed /\ given' = given \union {newKey.text}
        /\ UNCHANGED <<store, serviceVars, profiles, id, page, file, ops, made, typed, written, replaced, unseen>>
    BY <1>4 DEF CloseNewKey, InDialog, Idle
  <2>2. /\ Closed \in [open : BOOLEAN, text : Nat, generation : Nat] /\ Closed.text = Absent /\ ~Closed.open
        /\ Absent \in Nat /\ made' = made /\ made' \in Values /\ made' >= made /\ typed' = typed
        /\ file' \in [reading : BOOLEAN, generation : Nat, previous : Nat] /\ file'.previous <= made'
    BY <1>1, <2>1 DEF Closed, Absent
  <2>3. /\ ValuesKept' /\ PageKept' /\ DialogKept' /\ RestKept'
        /\ SelectionKept' /\ DraftsKept' /\ VersionsKept'
    BY <2>1, <2>2, DialogChanges
  <2>4. QED
    BY <2>1, <2>3 DEF KeysKept, OpsKept
<1>5. CASE ChooseFile
  <2>1. /\ RedisClick /\ ops = {} /\ file' = [reading |-> TRUE, generation |-> newKey.generation, previous |-> newKey.text]
        /\ UNCHANGED <<store, serviceVars, profiles, id, page, newKey, ops, made, typed, given, written, replaced, unseen>>
    BY <1>5 DEF ChooseFile, InDialog, Idle, ghosts
  <2>2. PageKept' /\ RestKept' /\ SelectionKept' /\ ValuesKept' /\ OpsKept'
    BY <1>1, <2>1, PartsStay
  <2>3. DialogKept'
    BY <1>1, <2>1 DEF DialogKept
  <2>4. VersionsKept' /\ DraftsKept'
    BY <2>1 DEF KeysKept, VersionsKept, Stale, DraftsKept, TextsAreKept, Spent
  <2>5. QED
    BY <2>2, <2>3, <2>4 DEF KeysKept
<1>6. CASE ChooseType
  <2>1. /\ RedisClick /\ ops = {} /\ newKey.open /\ replaced' = replaced \union {newKey.text}
        /\ UNCHANGED <<store, serviceVars, profiles, id, page, file, ops, typed, given, written, unseen>>
    BY <1>6 DEF ChooseType, InDialog, Idle
  <2>2. PICK new \in {Absent, made + 1} :
          /\ newKey' = [newKey EXCEPT !.text = new]
          /\ IF new = Absent THEN UNCHANGED made ELSE NewValue
    BY <1>1, <1>6 DEF ChooseType, Absent
  <2> DEFINE dialog == [newKey EXCEPT !.text = new]
  <2>3. /\ made' \in Values /\ made' >= made /\ new \in Nat
        /\ new = Absent \/ (new = made + 1 /\ made' = new)
    BY <1>1, <2>2, FreshIsNew DEF Absent
  <2>4. dialog \in [open : BOOLEAN, text : Nat, generation : Nat] /\ dialog.text = new /\ dialog.open
    BY <1>1, <2>1, <2>3
  <2>5. /\ file'.previous <= made' /\ file' \in [reading : BOOLEAN, generation : Nat, previous : Nat]
        /\ newKey' = dialog
    BY <1>1, <2>1, <2>2, <2>3 DEF Values
  <2> HIDE DEF dialog
  <2>6. /\ ValuesKept' /\ PageKept' /\ DialogKept' /\ RestKept'
        /\ SelectionKept' /\ DraftsKept' /\ VersionsKept'
    BY <1>1, <2>1, <2>3, <2>4, <2>5, DialogChanges
  <2>7. QED
    BY <2>1, <2>6 DEF KeysKept, OpsKept
<1>7. QED
  BY <1>2, <1>3, <1>4, <1>5, <1>6

\* The file that was read takes the place of a text it was chosen over, while a handler
\* may wait.
LEMMA FileReadStep ==
  ASSUME KeysKept, FileRead
  PROVE  KeysKept'
<1>1. /\ made \in Values /\ made \in Nat /\ newKey \in [open : BOOLEAN, text : Nat, generation : Nat]
      /\ newKey.text <= made /\ (newKey.open => id # NoConnection) /\ typed \subseteq 0..made
      /\ NoFile \in [reading : BOOLEAN, generation : Nat, previous : Nat] /\ NoFile.previous = 0
  BY DEF KeysKept, ValuesKept, DialogKept, Values, NoFile, Absent
<1>2. file' = NoFile /\ UNCHANGED <<store, serviceVars, profiles, id, page, ops, typed, written, replaced, unseen, redisClicks>>
  BY DEF FileRead
<1>3. CASE UNCHANGED <<newKey, made, given>>
  <2>1. PageKept' /\ RestKept' /\ SelectionKept' /\ ValuesKept'
    BY <1>1, <1>2, <1>3, PartsStay
  <2>2. DialogKept'
    BY <1>1, <1>2, <1>3 DEF KeysKept, DialogKept
  <2>3. VersionsKept' /\ DraftsKept'
    BY <1>2, <1>3 DEF KeysKept, VersionsKept, Stale, DraftsKept, TextsAreKept, Spent
  <2>4. ASSUME NEW o \in ops PROVE OpKept(o)'
    <3>1. OpKept(o)
      BY DEF KeysKept, OpsKept
    <3>2. OpTyped(o)'
      BY <1>2, <1>3, <3>1 DEF OpKept, OpTyped
    <3>3. OpSpends(o)' /\ OpVersion(o)'
      BY <1>2, <1>3, <3>1 DEF OpKept, OpSpends, OpVersion, Spent, Stale
    <3>4. QED
      BY <3>2, <3>3 DEF OpKept
  <2>5. OpsKept'
    BY <1>2, <2>4 DEF KeysKept, OpsKept
  <2>6. QED
    BY <2>1, <2>2, <2>3, <2>5 DEF KeysKept
<1>4. CASE /\ FileIsFor /\ made < MaxValues /\ newKey' = [newKey EXCEPT !.text = made + 1] /\ made' = made + 1
           /\ given' = given \union {file.previous}
  <2> DEFINE dialog == [newKey EXCEPT !.text = made + 1]
  <2>1. newKey.open /\ file.previous = newKey.text
    BY <1>4 DEF FileIsFor
  <2>2. made' \in Values /\ made' >= made /\ made + 1 \in Nat
    BY <1>1, <1>4 DEF Values
  <2>3. dialog \in [open : BOOLEAN, text : Nat, generation : Nat] /\ dialog.text = made + 1 /\ dialog.open
    BY <1>1, <2>1
  <2>4. newKey' = dialog /\ given' = given \union {newKey.text} /\ file'.previous <= made'
    BY <1>1, <1>2, <1>4, <2>1
  <2> HIDE DEF dialog
  <2>5. /\ ValuesKept' /\ PageKept' /\ DialogKept' /\ RestKept'
        /\ SelectionKept' /\ DraftsKept' /\ VersionsKept'
    BY <1>1, <1>2, <1>4, <2>1, <2>2, <2>3, <2>4, DialogChanges
  <2>6. ASSUME NEW o \in ops PROVE OpKept(o)'
    <3>1. OpKept(o) /\ ops = {o} /\ o.kind = "create"
      BY <2>1 DEF KeysKept, OpsKept, OpKept, OpVersion
    <3>2. OpTyped(o)'
      BY <1>1, <1>2, <1>4, <3>1 DEF OpKept, OpTyped, OpType
    <3>3. newKey'.text = made + 1 /\ made + 1 \notin typed
      BY <1>1, <2>3, <2>4
    <3>4. OpSpends(o)' /\ OpVersion(o)'
      BY <1>2, <3>1, <3>3 DEF OpKept, OpSpends, OpVersion, Spent
    <3>5. QED
      BY <3>2, <3>4 DEF OpKept
  <2>7. OpsKept'
    BY <1>2, <2>6 DEF KeysKept, OpsKept
  <2>8. QED
    BY <2>5, <2>7 DEF KeysKept
<1>5. QED
  BY <1>3, <1>4 DEF FileRead

(***************************************************************************)
(* The connections, the other clients and the answers.                     *)
(***************************************************************************)
\* The page is cleared, and keys may be deleted: what it showed has been spent.
LEMMA ClearedIsKept ==
  ASSUME KeysKept, page' = NoPage, page.text \in typed => page.text \in given' \union written' \union replaced',
         UNCHANGED <<newKey, made, typed, written, replaced, unseen>>, given \subseteq given',
         \A c \in Servers, k \in Keys : store'[c][k] \in {store[c][k], Absent}
  PROVE  PageKept' /\ VersionsKept' /\ DraftsKept'
<1>1. made \in Nat /\ Absent \notin typed /\ DraftsKept
  BY DEF KeysKept, ValuesKept, Values, DraftsKept
<1>2. PageKept'
  BY <1>1 DEF PageKept, NoPage, Absent
<1>3. VersionsKept'
  BY DEF VersionsKept, NoPage
<1>4. DraftsKept'
  <2>1. TextsAreKept'
    BY <1>1 DEF DraftsKept, TextsAreKept
  <2>2. Spent(page.version)'
    BY <1>1 DEF Spent, NoPage
  <2>3. \A c \in Servers, k \in Keys : store'[c][k] \in typed => store'[c][k] \in written
    BY <1>1 DEF DraftsKept
  <2>4. QED
    BY <1>1, <2>1, <2>2, <2>3 DEF DraftsKept
<1>5. QED
  BY <1>2, <1>3, <1>4

\* Another connection is chosen, or none is left.
LEMMA AnotherIsChosen ==
  ASSUME NEW left, left \subseteq Servers, NEW c, SelectConnection(c, left)
  PROVE  /\ SelectionKept' /\ profiles' \subseteq Servers /\ page' = NoPage
         /\ profiles' = left /\ unlisted' = FALSE
         /\ (c \in left => id' = c) /\ (id' # NoConnection => id' \in left)
<1>1. Another(c, left) \in left \/ (Another(c, left) = NoConnection /\ left = {})
  BY DEF Another
<1>2. c \in left => Another(c, left) = c
  BY DEF Another
<1>3. QED
  BY <1>1, <1>2 DEF SelectConnection, SelectionKept, NoPage

\* The lists of the service are those of a connection that is chosen anew.
LEMMA ChosenIsKept ==
  ASSUME KeysKept, NEW left, left \subseteq connections' \union removed', NEW c, SelectConnection(c, left),
         connections' \union removed' \subseteq Servers, UNCHANGED <<newKey, file, made, unseen>>,
         ~newKey.open, RedisClick \/ UNCHANGED redisClicks
  PROVE  SelectionKept' /\ RestKept' /\ DialogKept'
<1>1. /\ SelectionKept' /\ profiles' = left /\ unlisted' = FALSE /\ (id' # NoConnection => id' \in left)
  BY AnotherIsChosen
<1>2. unseen \subseteq Servers \X Keys /\ redisClicks' \in 0..MaxRedisClicks
  BY DEF KeysKept, RestKept, RedisClick
<1>3. RestKept'
  BY <1>1, <1>2 DEF RestKept
<1>4. DialogKept'
  BY DEF KeysKept, DialogKept
<1>5. QED
  BY <1>1, <1>3, <1>4

\* The keys of the chosen connection are asked for.
LEMMA ScanIsKept ==
  ASSUME NEW o, o = Scan(id'), id' \in Servers, made' \in Nat, ~newKey'.open
  PROVE  OpKept(o)'
<1>1. /\ o \in OpType /\ o.kind = "scan" /\ o.of = id' /\ o.value = 0 /\ o.version = 0
  BY DEF Scan, Op, OpType, Kinds, Absent
<1>2. OpTyped(o)'
  BY <1>1 DEF OpTyped, OfKey
<1>3. OpSpends(o)' /\ OpVersion(o)'
  BY <1>1 DEF OpSpends, OpVersion
<1>4. QED
  BY <1>2, <1>3 DEF OpKept

\* Choosing another connection clears the page.
LEMMA ChooseConnectionStep ==
  ASSUME KeysKept, NEW c \in Servers, ChooseConnection(c)
  PROVE  KeysKept'
<1>1. /\ RedisClick /\ ops = {} /\ ~newKey.open /\ c \in profiles /\ Guard /\ SelectConnection(c, profiles) /\ ops' = {Scan(c)}
      /\ UNCHANGED <<store, connections, removed, newKey, file, made, typed, written, replaced, unseen>>
  BY DEF ChooseConnection, AtPage, Idle, Starts
<1>2. /\ given \subseteq given' /\ given' \subseteq 0..made
      /\ page.text \in typed => page.text \in given' \union written' \union replaced'
  BY <1>1, GuardSpends
<1>3. /\ profiles \subseteq connections \union removed /\ connections \union removed \subseteq Servers
      /\ profiles \subseteq Servers /\ made \in Nat /\ made \in Values
  BY DEF KeysKept, RestKept, ValuesKept, Values
<1>4. SelectionKept' /\ page' = NoPage /\ id' = c
  BY <1>1, <1>3, AnotherIsChosen
<1>5. PageKept' /\ VersionsKept' /\ DraftsKept'
  BY <1>1, <1>2, <1>4, ClearedIsKept
<1>6. ValuesKept'
  BY <1>1, <1>2 DEF KeysKept, ValuesKept
<1>7. DialogKept' /\ RestKept'
  BY <1>1, <1>3, ChosenIsKept
<1>8. PICK o : o = Scan(id')
  OBVIOUS
<1>9. OpKept(o)' /\ ops' = {o}
  BY <1>1, <1>3, <1>4, <1>8, ScanIsKept
<1>10. QED
  BY <1>4, <1>5, <1>6, <1>7, <1>9 DEF KeysKept, OpsKept

\* What another client writes is new, so the page has no version of it.
LEMMA OtherClientStep ==
  ASSUME KeysKept, NEW c \in Servers, NEW k \in Keys, OtherClient(c, k)
  PROVE  KeysKept'
<1>1. PICK value \in {Absent, made + 1} : store' = [store EXCEPT ![c][k] = value]
  BY DEF OtherClient
<1>2. /\ NewValue /\ unseen' = unseen \union {<<c, k>>}
      /\ UNCHANGED <<serviceVars, profiles, id, page, newKey, file, ops, typed, given, written, replaced, redisClicks>>
  BY DEF OtherClient, pageVars
<1>3. /\ made \in Nat /\ made' = made + 1 /\ made' \in Values /\ made' >= made
      /\ typed \union given \union written \union replaced \subseteq 0..made /\ made + 1 \notin typed \union given \union written \union replaced
      /\ page.version \in Nat /\ page.version <= made
  BY <1>2, FreshIsNew
<1>4. store \in [Servers -> [Keys -> Nat]] /\ value \in Nat /\ value <= made'
  BY <1>1, <1>3 DEF KeysKept, ValuesKept, Absent
<1>5. /\ store' \in [Servers -> [Keys -> Nat]]
      /\ \A n \in Servers, m \in Keys : store'[n][m] = IF n = c /\ m = k THEN value ELSE store[n][m]
  <2> DEFINE values == [store[c] EXCEPT ![k] = value]
  <2>1. values \in [Keys -> Nat] /\ store' = [store EXCEPT ![c] = values]
    BY <1>1, <1>4
  <2>2. \A m \in Keys : values[m] = IF m = k THEN value ELSE store[c][m]
    BY <1>4
  <2> HIDE DEF values
  <2>3. QED
    BY <1>4, <2>1, <2>2
<1>6. PageKept' /\ DialogKept' /\ SelectionKept'
  BY <1>2, <1>3, PartsStay
<1>7. RestKept'
  BY <1>2 DEF KeysKept, RestKept, serviceVars
<1>8. ValuesKept'
  <2>1. \A n \in Servers, m \in Keys : store[n][m] \in Nat /\ store[n][m] <= made
    BY DEF KeysKept, ValuesKept
  <2>2. \A n \in Servers, m \in Keys : store'[n][m] <= made'
    BY <1>3, <1>4, <1>5, <2>1
  <2>3. QED
    BY <1>2, <1>3, <1>5, <2>2 DEF ValuesKept
\* Of a version that is at most made.
<1>9. ASSUME NEW n \in Servers, NEW m \in Keys, NEW version \in Nat, version <= made, Stale(n, m, version)
      PROVE  <<n, m>> \in unseen' /\ store'[n][m] # Absent => store'[n][m] # version
  <2>1. CASE n = c /\ m = k
    BY <1>1, <1>3, <1>5, <1>9, <2>1
  <2>2. CASE ~(n = c /\ m = k)
    BY <1>2, <1>5, <1>9, <2>2 DEF Stale
  <2>3. QED
    BY <2>1, <2>2
<1>10. VersionsKept'
  <2>1. page.key # NoKey => page.of \in Servers /\ page.key \in Keys
    BY PageIsChosen
  <2>2. page.key # NoKey => Stale(page.of, page.key, page.version)
    BY DEF KeysKept, VersionsKept
  <2>3. page.key # NoKey => Stale(page.of, page.key, page.version)'
    BY <1>2, <1>3, <1>9, <2>1, <2>2 DEF Stale
  <2>4. QED
    BY <1>2, <2>3 DEF KeysKept, VersionsKept
<1>11. DraftsKept'
  <2>1. Absent \notin typed /\ \A n \in Servers, m \in Keys : store[n][m] \in typed => store[n][m] \in written
    BY DEF KeysKept, DraftsKept
  <2>2. value \notin typed
    BY <1>1, <1>3, <2>1
  <2>3. \A n \in Servers, m \in Keys : store'[n][m] \in typed => store'[n][m] \in written
    BY <1>5, <2>1, <2>2
  <2>4. QED
    BY <1>2, <2>3 DEF KeysKept, DraftsKept, TextsAreKept, Spent
<1>12. ASSUME NEW o \in ops PROVE OpKept(o)'
  <2>1. OpKept(o)
    BY DEF KeysKept, OpsKept
  <2>2. OpTyped(o)'
    BY <1>2, <1>3, <2>1 DEF OpKept, OpTyped, OpType
  <2>3. OpSpends(o)'
    BY <1>2, <2>1 DEF OpKept, OpSpends, Spent
  <2>4. o.kind \in {"write", "delete"} => Stale(o.of, o.key, o.version)'
    <3>1. o.kind \in {"write", "delete"} =>
            /\ o.of \in Servers /\ o.key \in Keys /\ o.version \in Nat /\ o.version <= made
            /\ Stale(o.of, o.key, o.version)
      BY <2>1 DEF OpKept, OpTyped, OpType, OpVersion, OfKey
    <3>2. QED
      BY <1>9, <3>1 DEF Stale
  <2>5. OpVersion(o)'
    BY <1>2, <2>1, <2>4 DEF OpKept, OpVersion
  <2>6. QED
    BY <2>2, <2>3, <2>5 DEF OpKept
<1>13. OpsKept'
  BY <1>2, <1>12 DEF KeysKept, OpsKept
<1>14. QED
  BY <1>6, <1>7, <1>8, <1>10, <1>11, <1>13 DEF KeysKept

\* What a handler that waits may rely on.
LEMMA WaitingIsKept ==
  ASSUME KeysKept, NEW o \in ops
  PROVE  /\ ops = {o} /\ OpTyped(o) /\ OpSpends(o) /\ OpVersion(o)
         /\ (o.kind \notin {"connect", "list"} => o.of \in Servers) /\ o.of \in Servers \union {NoConnection}
         /\ o.value \in Nat /\ o.value <= made /\ o.version \in Nat
         /\ o.keys \subseteq Keys
         /\ (o.kind \in OfKey => o.key \in Keys) /\ (o.kind \notin OfConnection => o.of = id)
         /\ (o.kind # "create" => ~newKey.open)
  BY DEF KeysKept, OpsKept, OpKept, OpTyped, OpType, OpVersion

\* A handler ends, or goes on, and nothing else changes but the list of the service, in
\* which nothing comes back.
LEMMA WaitsOn ==
  ASSUME KeysKept, UNCHANGED <<store, unlisted, pageVars, ghosts>>, unseen' \subseteq unseen,
         connections' \union removed' \subseteq Servers, removed \subseteq removed',
         connections \union removed \subseteq connections' \union removed',
         RedisClick \/ UNCHANGED redisClicks,
         ops' = {} \/ \E o : ops' = {o} /\ OpKept(o)'
  PROVE  KeysKept'
<1>1. UNCHANGED <<store, unlisted, profiles, id, page, newKey, file, made, typed, given, written, replaced>>
  BY DEF pageVars, ghosts
<1>2. made' \in Values /\ made' >= made
  BY <1>1 DEF KeysKept, ValuesKept, Values
<1>3. PageKept' /\ DialogKept' /\ ValuesKept'
  BY <1>1, <1>2, PartsStay
<1>4. RestKept'
  BY <1>1 DEF KeysKept, RestKept, RedisClick
<1>5. SelectionKept'
  BY <1>1 DEF KeysKept, SelectionKept
<1>6. VersionsKept'
  BY <1>1 DEF KeysKept, VersionsKept, Stale
<1>7. DraftsKept'
  BY <1>1 DEF KeysKept, DraftsKept, TextsAreKept, Spent
<1>8. OpsKept'
  BY DEF OpsKept
<1>9. QED
  BY <1>3, <1>4, <1>5, <1>6, <1>7, <1>8 DEF KeysKept

\* A list of the service that stays is one in which nothing comes back.
LEMMA ListStays ==
  ASSUME KeysKept, UNCHANGED serviceVars
  PROVE  /\ connections' \union removed' \subseteq Servers /\ removed \subseteq removed'
         /\ connections \union removed \subseteq connections' \union removed' /\ UNCHANGED unlisted
  BY DEF KeysKept, RestKept, serviceVars

\* A failure, or an answer that is only read, leaves values as they are.
LEMMA QuietAnswers ==
  ASSUME KeysKept, NEW o \in ops,
         RequestFails(o) \/ VersionRead(o) \/ CopyRead(o) \/ KeysListed(o) \/ NamespacePreviewed(o)
  PROVE  KeysKept'
<1>1. /\ ops = {o} /\ OpTyped(o) /\ OpSpends(o) /\ OpVersion(o)
      /\ (o.kind \notin {"connect", "list"} => o.of \in Servers)
      /\ o.value \in Nat /\ o.value <= made /\ o.version \in Nat
      /\ (o.kind \in OfKey => o.key \in Keys) /\ (o.kind \notin OfConnection => o.of = id)
      /\ (o.kind # "create" => ~newKey.open)
  BY WaitingIsKept
<1>2. CASE RequestFails(o) \/ CopyRead(o) \/ KeysListed(o)
  <2>1. ops' = {} /\ UNCHANGED <<store, serviceVars, pageVars, ghosts, redisClicks>> /\ unseen' = unseen
    BY <1>1, <1>2 DEF RequestFails, CopyRead, KeysListed, Fails, Ends
  <2>2. QED
    BY <2>1, ListStays, WaitsOn
<1>3. CASE VersionRead(o)
  <2>1. /\ o.kind = "version" /\ ops' = {Delete(o.of, o.key, store[o.of][o.key])}
        /\ unseen' = unseen \ {<<o.of, k>> : k \in {o.key}} /\ UNCHANGED <<store, serviceVars, pageVars, ghosts, redisClicks>>
    BY <1>1, <1>3 DEF VersionRead, Seen, Goes
  <2>2. UNCHANGED <<store, id, page, newKey, made, typed, given, written, replaced>> /\ o.key \in Keys /\ o.of = id /\ o.of \in Servers /\ ~newKey.open
    BY <1>1, <2>1 DEF pageVars, ghosts, OfKey, OfConnection
  <2>3. store[o.of][o.key] \in Nat /\ store[o.of][o.key] <= made /\ made \in Nat
    BY <1>1, <2>2 DEF KeysKept, ValuesKept, Values
  <2>4. PICK p : p = Delete(o.of, o.key, store[o.of][o.key])
    OBVIOUS
  <2>5. /\ p \in OpType /\ p.kind = "delete" /\ p.of = o.of /\ p.key = o.key /\ p.value = 0
        /\ p.version = store[o.of][o.key]
    BY <1>1, <2>2, <2>3, <2>4 DEF Delete, Op, OpType, Kinds, Absent
  <2>6. OpTyped(p)'
    BY <2>2, <2>3, <2>5 DEF OpTyped, OfConnection
  <2>7. OpSpends(p)'
    BY <1>1, <2>1, <2>2, <2>5 DEF OpSpends
  <2>8. <<o.of, o.key>> \notin unseen'
    BY <2>1
  <2>9. OpVersion(p)'
    BY <2>2, <2>5, <2>8 DEF OpVersion, Stale
  <2>10. OpKept(p)' /\ ops' = {p} /\ unseen' \subseteq unseen
    BY <2>1, <2>4, <2>6, <2>7, <2>9 DEF OpKept
  <2>11. QED
    BY <2>1, <2>10, ListStays, WaitsOn
<1>4. CASE NamespacePreviewed(o)
  <2>1. /\ o.kind = "preview" /\ UNCHANGED <<store, serviceVars, pageVars, ghosts, unseen, redisClicks>>
        /\ ops' = {} \/ ops' = {Op("namespace", o.of, NoKey, Absent, Absent, Present(o.of))}
    BY <1>1, <1>4 DEF NamespacePreviewed, Goes, Ends
  <2>2. UNCHANGED <<store, id, page, newKey, made, typed, given, written, replaced>> /\ o.of = id /\ o.of \in Servers /\ ~newKey.open /\ made \in Nat
    BY <1>1, <2>1 DEF pageVars, ghosts, KeysKept, ValuesKept, Values, OfConnection
  <2>3. CASE ops' = {}
    BY <2>1, <2>3, ListStays, WaitsOn
  <2>4. CASE ops' = {Op("namespace", o.of, NoKey, Absent, Absent, Present(o.of))}
    <3>1. PICK p : p = Op("namespace", o.of, NoKey, Absent, Absent, Present(o.of))
      OBVIOUS
    <3>2. Present(o.of) \subseteq Keys
      BY DEF Present
    <3>3. p \in OpType /\ p.kind = "namespace" /\ p.of = o.of /\ p.value = 0 /\ p.version = 0
      BY <1>1, <2>2, <3>1, <3>2 DEF Op, OpType, Kinds, Absent
    <3>4. OpTyped(p)'
      BY <2>2, <3>3 DEF OpTyped, OfKey, OfConnection
    <3>5. OpSpends(p)' /\ OpVersion(p)'
      BY <1>1, <2>1, <2>2, <3>3 DEF OpSpends, OpVersion, Spent
    <3>6. OpKept(p)' /\ ops' = {p}
      BY <2>4, <3>1, <3>4, <3>5 DEF OpKept
    <3>7. QED
      BY <2>1, <3>6, ListStays, WaitsOn
  <2>5. QED
    BY <2>1, <2>3, <2>4
<1>5. QED
  BY <1>2, <1>3, <1>4

\* The value of the key takes the place of a text that is spent.
LEMMA ValueReadStep ==
  ASSUME KeysKept, NEW o \in ops, ValueRead(o)
  PROVE  KeysKept'
<1>1. /\ o.kind = "load" /\ page' = PageOf(o.of, o.key, store[o.of][o.key]) /\ ops' = {}
      /\ unseen' = unseen \ {<<o.of, k>> : k \in {o.key}}
      /\ UNCHANGED <<store, serviceVars, profiles, id, newKey, file, made, typed, given, written, replaced, redisClicks>>
  BY WaitingIsKept DEF ValueRead, Seen, Ends, ghosts
<1>2. o.of = id /\ o.of \in Servers /\ o.key \in Keys /\ ~newKey.open /\ Spent(page.text)
  BY <1>1, WaitingIsKept DEF OfKey, OfConnection, OpSpends
<1>3. /\ store[o.of][o.key] \in Nat /\ store[o.of][o.key] <= made /\ made \in Nat /\ made \in Values
      /\ newKey.text = Absent
  BY <1>2 DEF KeysKept, ValuesKept, Values, DialogKept
<1>4. ValuesKept' /\ DialogKept' /\ OpsKept'
  BY <1>1, <1>3, PartsStay
<1>5. RestKept'
  BY <1>1 DEF KeysKept, RestKept, serviceVars
<1>6. /\ page'.key = o.key /\ page'.of = o.of /\ page'.version = store[o.of][o.key]
      /\ page'.text = store[o.of][o.key] /\ PageKept'
  BY <1>1, <1>2, <1>3 DEF PageOf, PageKept
<1>7. SelectionKept'
  BY <1>1, <1>2, <1>6 DEF KeysKept, SelectionKept, serviceVars
<1>8. VersionsKept'
  <2>1. <<o.of, o.key>> \notin unseen'
    BY <1>1
  <2>2. QED
    BY <1>1, <1>3, <1>6, <2>1 DEF VersionsKept, Stale
<1>9. DraftsKept'
  <2>1. DraftsKept /\ Absent \notin typed
    BY DEF KeysKept, DraftsKept
  <2>2. TextsAreKept'
    BY <1>1, <1>2, <1>3, <2>1 DEF DraftsKept, TextsAreKept, Spent
  <2>3. Spent(page.version)'
    BY <1>1, <1>2, <1>6, <2>1 DEF DraftsKept, Spent
  <2>4. QED
    BY <1>1, <2>1, <2>2, <2>3 DEF DraftsKept
<1>10. QED
  BY <1>4, <1>5, <1>6, <1>7, <1>8, <1>9 DEF KeysKept

\* A write replaces the version the page has read; a new key replaces none.
LEMMA KeyWrittenStep ==
  ASSUME KeysKept, NEW o \in ops, NEW answered \in BOOLEAN, KeyWritten(o, answered)
  PROVE  KeysKept'
<1>1. /\ o.kind \in {"write", "create"} /\ UnchangedFor(o)
      /\ store' = [store EXCEPT ![o.of][o.key] = o.value] /\ written' = written \union {o.value}
      /\ newKey' = (IF o.kind = "create" /\ answered THEN Closed ELSE newKey)
      /\ (IF answered THEN AfterWrite(o) ELSE Fails(o))
      /\ UNCHANGED <<serviceVars, profiles, id, page, file, made, typed, given, replaced, unseen, redisClicks>>
  BY DEF KeyWritten
<1>2. /\ ops = {o} /\ OpTyped(o) /\ OpSpends(o) /\ OpVersion(o)
      /\ o.of \in Servers /\ o.value \in Nat /\ o.value <= made /\ o.key \in Keys /\ o.of = id
      /\ (o.kind # "create" => ~newKey.open)
  BY <1>1, WaitingIsKept DEF OfKey, OfConnection
<1>3. made \in Nat /\ made \in Values /\ store \in [Servers -> [Keys -> Nat]]
  BY DEF KeysKept, ValuesKept, Values
<1>4. /\ store' \in [Servers -> [Keys -> Nat]]
      /\ \A n \in Servers, m \in Keys : store'[n][m] = IF n = o.of /\ m = o.key THEN o.value ELSE store[n][m]
  <2> DEFINE values == [store[o.of] EXCEPT ![o.key] = o.value]
  <2>1. values \in [Keys -> Nat] /\ store' = [store EXCEPT ![o.of] = values]
    BY <1>1, <1>2, <1>3
  <2>2. \A m \in Keys : values[m] = IF m = o.key THEN o.value ELSE store[o.of][m]
    BY <1>2, <1>3
  <2> HIDE DEF values
  <2>3. QED
    BY <1>2, <1>3, <2>1, <2>2
<1>5. PageKept' /\ SelectionKept'
  BY <1>1, <1>3, PartsStay
<1>6. RestKept'
  BY <1>1 DEF KeysKept, RestKept, serviceVars
<1>7. newKey' \in {newKey, Closed} /\ Closed.text = Absent /\ ~Closed.open
      /\ Closed \in [open : BOOLEAN, text : Nat, generation : Nat]
  BY <1>1 DEF Closed, Absent, KeysKept, DialogKept
<1>8. DialogKept'
  BY <1>1, <1>3, <1>7 DEF KeysKept, DialogKept, Absent
<1>9. ValuesKept'
  <2>1. \A n \in Servers, m \in Keys : store[n][m] <= made
    BY DEF KeysKept, ValuesKept
  <2>2. \A n \in Servers, m \in Keys : store'[n][m] <= made
    BY <1>2, <1>4, <2>1
  <2>3. typed' \union given' \union written' \union replaced' \subseteq 0..made
    BY <1>1, <1>2, <1>3 DEF KeysKept, ValuesKept
  <2>4. QED
    BY <1>1, <1>3, <1>4, <2>2, <2>3 DEF ValuesKept
<1>10. VersionsKept'
  <2>1. ASSUME page.key # NoKey PROVE Stale(page.of, page.key, page.version)'
    <3>1. page.of \in Servers /\ page.key \in Keys /\ Stale(page.of, page.key, page.version)
      BY <2>1, PageIsChosen DEF KeysKept, VersionsKept
    <3>2. CASE ~(page.of = o.of /\ page.key = o.key)
      BY <1>1, <1>4, <3>1, <3>2 DEF Stale
    <3>3. CASE page.of = o.of /\ page.key = o.key /\ o.kind = "create"
      BY <1>1, <1>2, <1>4, <3>1, <3>3 DEF Stale, OpVersion
    <3>4. CASE page.of = o.of /\ page.key = o.key /\ o.kind = "write"
      BY <1>1, <1>2, <3>4 DEF Stale, OpVersion, UnchangedFor
    <3>5. QED
      BY <1>1, <3>2, <3>3, <3>4
  <2>2. newKey'.text # Absent => newKey'.text # page'.version
    BY <1>1, <1>7 DEF KeysKept, VersionsKept
  <2>3. QED
    BY <1>1, <2>1, <2>2 DEF VersionsKept
<1>11. DraftsKept'
  <2>1. DraftsKept
    BY DEF KeysKept
  <2>2. newKey' = newKey \/ (newKey.text \in typed => newKey.text \in given \union written' \union replaced)
    BY <1>1, <1>2 DEF OpSpends, Spent
  <2>3. TextsAreKept'
    BY <1>1, <2>1, <2>2 DEF DraftsKept, TextsAreKept
  <2>4. Spent(page.version)'
    BY <1>1, <2>1 DEF DraftsKept, Spent
  <2>5. \A n \in Servers, m \in Keys : store'[n][m] \in typed => store'[n][m] \in written'
    BY <1>1, <1>4, <2>1 DEF DraftsKept
  <2>6. QED
    BY <1>1, <2>1, <2>3, <2>4, <2>5 DEF DraftsKept
<1>12. OpsKept'
  <2>1. CASE ops' = {}
    BY <2>1 DEF OpsKept
  <2>2. CASE answered /\ ~(o.kind = "create" /\ TextChanged) /\ ops' = {Load(id, o.key)}
    <3>1. PICK p : p = Load(id, o.key)
      OBVIOUS
    <3>2. /\ p \in OpType /\ p.kind = "load" /\ p.of = id /\ p.key = o.key /\ p.value = 0 /\ p.version = 0
      BY <1>2, <3>1 DEF Load, Op, OpType, Kinds, Absent
    <3>3. Spent(page.text)'
      <4>1. CASE o.kind = "write"
        BY <1>1, <1>2, <4>1 DEF OpSpends, Spent
      <4>2. CASE o.kind = "create"
        <5>1. page.text = page.version
          BY <2>2, <4>2 DEF TextChanged
        <5>2. QED
          BY <1>1, <5>1 DEF Spent, KeysKept, DraftsKept
      <4>3. QED
        BY <1>1, <4>1, <4>2
    <3>4. ~newKey'.open
      BY <1>1, <1>2, <1>7, <2>2
    <3>5. OpTyped(p)'
      BY <1>1, <1>2, <1>3, <3>2 DEF OpTyped
    <3>6. OpSpends(p)' /\ OpVersion(p)'
      BY <3>2, <3>3, <3>4 DEF OpSpends, OpVersion
    <3>7. ops' = {p}
      BY <2>2, <3>1
    <3>8. QED
      BY <3>5, <3>6, <3>7 DEF OpsKept, OpKept
  <2>3. QED
    BY <1>1, <1>2, <2>1, <2>2 DEF AfterWrite, Fails, Ends, Goes
<1>13. QED
  BY <1>5, <1>6, <1>8, <1>9, <1>10, <1>11, <1>12 DEF KeysKept

\* Keys are deleted, and the page is cleared when what it showed is spent, or goes on.
LEMMA DeletedIsKept ==
  ASSUME KeysKept, ops' = {}, UNCHANGED <<serviceVars, profiles, id, newKey, file, made, typed, given, written, replaced, unseen, redisClicks>>,
         store' \in [Servers -> [Keys -> Nat]],
         \A c \in Servers, k \in Keys : store'[c][k] \in {store[c][k], Absent},
         UNCHANGED page \/ (page' = NoPage /\ Spent(page.text))
  PROVE  KeysKept'
<1>1. made \in Nat /\ made \in Values /\ made' \in Values /\ made' >= made
  BY DEF KeysKept, ValuesKept, Values
<1>2. DialogKept' /\ RestKept' /\ OpsKept'
  BY <1>1, PartsStay
<1>3. ValuesKept'
  <2>1. \A c \in Servers, k \in Keys : store[c][k] <= made
    BY DEF KeysKept, ValuesKept
  <2>2. \A c \in Servers, k \in Keys : store'[c][k] <= made
    BY <1>1, <2>1 DEF Absent
  <2>3. QED
    BY <1>1, <2>2 DEF KeysKept, ValuesKept
<1>4. CASE page' = NoPage /\ Spent(page.text)
  <2>1. PageKept' /\ VersionsKept' /\ DraftsKept'
    BY <1>4, ClearedIsKept DEF Spent
  <2>2. SelectionKept'
    BY <1>4 DEF KeysKept, SelectionKept, NoPage, serviceVars
  <2>3. QED
    BY <1>2, <1>3, <2>1, <2>2 DEF KeysKept
<1>5. CASE UNCHANGED page
  <2>1. PageKept' /\ SelectionKept'
    BY <1>1, <1>5, PartsStay
  <2>2. VersionsKept'
    <3>1. ASSUME page.key # NoKey PROVE Stale(page.of, page.key, page.version)'
      <4>1. page.of \in Servers /\ page.key \in Keys /\ Stale(page.of, page.key, page.version)
        BY <3>1, PageIsChosen DEF KeysKept, VersionsKept
      <4>2. store'[page.of][page.key] \in {store[page.of][page.key], Absent}
        BY <4>1
      <4>3. QED
        BY <1>5, <4>1, <4>2 DEF Stale
    <3>2. QED
      BY <1>5, <3>1 DEF KeysKept, VersionsKept
  <2>3. DraftsKept'
    <3>1. DraftsKept /\ Absent \notin typed
      BY DEF KeysKept, DraftsKept
    <3>2. \A c \in Servers, k \in Keys : store'[c][k] \in typed => store'[c][k] \in written
      BY <3>1 DEF DraftsKept
    <3>3. QED
      BY <1>5, <3>1, <3>2 DEF DraftsKept, TextsAreKept, Spent
  <2>4. QED
    BY <1>2, <1>3, <2>1, <2>2, <2>3 DEF KeysKept
<1>6. QED
  BY <1>4, <1>5

\* The key shown is deleted only as it was read.
LEMMA KeyDeletedStep ==
  ASSUME KeysKept, NEW o \in ops, NEW answered \in BOOLEAN, KeyDeleted(o, answered)
  PROVE  KeysKept'
<1>1. /\ o.kind = "delete" /\ store' = [store EXCEPT ![o.of][o.key] = Absent]
      /\ page' = (IF answered /\ page.key = o.key THEN NoPage ELSE page)
      /\ ops' = {} /\ UNCHANGED <<serviceVars, profiles, id, newKey, file, made, typed, given, written, replaced, unseen, redisClicks>>
  BY WaitingIsKept DEF KeyDeleted, Ends, Fails, ghosts
<1>2. o.of \in Servers /\ o.key \in Keys /\ OpSpends(o)
  BY <1>1, WaitingIsKept DEF OfKey
<1>3. store \in [Servers -> [Keys -> Nat]]
  BY DEF KeysKept, ValuesKept
<1>4. /\ store' \in [Servers -> [Keys -> Nat]]
      /\ \A n \in Servers, m \in Keys : store'[n][m] \in {store[n][m], Absent}
  <2> DEFINE values == [store[o.of] EXCEPT ![o.key] = Absent]
  <2>1. values \in [Keys -> Nat] /\ store' = [store EXCEPT ![o.of] = values]
    BY <1>1, <1>2, <1>3 DEF Absent
  <2>2. \A m \in Keys : values[m] \in {store[o.of][m], Absent}
    BY <1>2, <1>3
  <2> HIDE DEF values
  <2>3. QED
    BY <1>2, <1>3, <2>1, <2>2
<1>5. UNCHANGED page \/ (page' = NoPage /\ Spent(page.text))
  BY <1>1, <1>2 DEF OpSpends
<1>6. QED
  BY <1>1, <1>4, <1>5, DeletedIsKept

\* Of a name space only the keys of the preview go.
LEMMA NamespaceDeletedStep ==
  ASSUME KeysKept, NEW o \in ops, NEW deleted, NEW answered \in BOOLEAN, NamespaceDeleted(o, deleted, answered)
  PROVE  KeysKept'
<1> DEFINE values == [k \in Keys |-> IF k \in deleted THEN Absent ELSE store[o.of][k]]
<1>1. /\ o.kind = "namespace" /\ store' = [store EXCEPT ![o.of] = values]
      /\ page' = (IF answered /\ page.key \in Namespace THEN NoPage ELSE page)
      /\ ops' = {} /\ UNCHANGED <<serviceVars, profiles, id, newKey, file, made, typed, given, written, replaced, unseen, redisClicks>>
  BY WaitingIsKept DEF NamespaceDeleted, Ends, Fails, ghosts
<1>2. o.of \in Servers /\ OpSpends(o)
  BY <1>1, WaitingIsKept
<1>3. store \in [Servers -> [Keys -> Nat]]
  BY DEF KeysKept, ValuesKept
<1>4. values \in [Keys -> Nat] /\ \A m \in Keys : values[m] \in {store[o.of][m], Absent}
  <2>1. \A m \in Keys : store[o.of][m] \in Nat
    BY <1>2, <1>3
  <2>2. QED
    BY <2>1 DEF Absent
<1> HIDE DEF values
<1>5. /\ store' \in [Servers -> [Keys -> Nat]]
      /\ \A n \in Servers, m \in Keys : store'[n][m] \in {store[n][m], Absent}
  BY <1>1, <1>2, <1>3, <1>4
<1>6. UNCHANGED page \/ (page' = NoPage /\ Spent(page.text))
  BY <1>1, <1>2 DEF OpSpends
<1>7. QED
  BY <1>1, <1>5, <1>6, DeletedIsKept

\* What a handler relies on stays with what the page has.
LEMMA OpStays ==
  ASSUME KeysKept, NEW o \in ops, ops' = ops, unseen' = unseen,
         UNCHANGED <<id, page, newKey, store, made, typed, given, written, replaced>>
  PROVE  ops' = {o} /\ OpKept(o)'
<1>1. OpKept(o) /\ ops' = {o}
  BY DEF KeysKept, OpsKept
<1>2. OpTyped(o)'
  BY <1>1 DEF OpKept, OpTyped
<1>3. OpSpends(o)' /\ OpVersion(o)'
  BY <1>1 DEF OpKept, OpSpends, OpVersion, Spent, Stale
<1>4. QED
  BY <1>1, <1>2, <1>3 DEF OpKept

\* The service lists one more connection or one less, and the list is asked for.
LEMMA ConnectionAnswers ==
  ASSUME KeysKept, NEW o \in ops, NEW answered \in BOOLEAN,
         ConnectionRemoved(o, answered) \/ \E c \in Servers : ConnectionSaved(o, c, answered)
  PROVE  KeysKept'
<1>1. /\ ops = {o} /\ OpTyped(o) /\ OpSpends(o) /\ (o.kind # "create" => ~newKey.open)
      /\ connections \union removed \subseteq Servers /\ made \in Nat
  BY WaitingIsKept DEF KeysKept, RestKept, ValuesKept, Values
<1>2. ASSUME NEW kind \in {"saved", "removed"}, NEW c \in Servers,
             UNCHANGED <<store, unlisted, pageVars, ghosts, unseen, redisClicks>>,
             removed \subseteq removed', connections' \union removed' \subseteq Servers,
             connections \union removed \subseteq connections' \union removed',
             ~newKey.open, (kind = "removed") => id # NoConnection,
             (kind = "saved" \/ c = id) => Spent(page.text),
             IF answered THEN ops' = {Listing(kind, c)} ELSE ops' = {}
      PROVE  KeysKept'
  <2>1. CASE ops' = {}
    BY <1>2, <2>1, WaitsOn
  <2>2. CASE ops' = {Listing(kind, c)}
    <3>1. UNCHANGED <<id, page, newKey, made, typed, given, written, replaced>>
      BY <1>2 DEF pageVars, ghosts
    <3>2. PICK p : p = Listing(kind, c)
      OBVIOUS
    <3>3. p \in OpType /\ p.kind = kind /\ p.of = c /\ p.value = 0 /\ p.version = 0
      BY <1>2, <3>2 DEF Listing, Op, OpType, Kinds, Absent
    <3>4. OpTyped(p)'
      BY <1>1, <1>2, <3>1, <3>3 DEF OpTyped, OfKey, OfConnection
    <3>5. OpSpends(p)' /\ OpVersion(p)'
      BY <1>2, <3>1, <3>3 DEF OpSpends, OpVersion, Spent
    <3>6. OpKept(p)' /\ ops' = {p}
      BY <2>2, <3>2, <3>4, <3>5 DEF OpKept
    <3>7. QED
      BY <1>2, <3>6, WaitsOn
  <2>3. QED
    BY <1>2, <2>1, <2>2
<1>3. CASE ConnectionRemoved(o, answered)
  <2>1. /\ o.kind = "remove" /\ connections' = connections \ {o.of} /\ removed' = removed \union {o.of}
        /\ (IF answered THEN ops' = {Listing("removed", o.of)} ELSE ops' = {})
        /\ UNCHANGED <<store, unlisted, pageVars, ghosts, unseen, redisClicks>>
    BY <1>1, <1>3 DEF ConnectionRemoved, Goes, Ends, Fails
  <2>2. o.of \in Servers /\ id # NoConnection /\ (o.of = id => Spent(page.text)) /\ ~newKey.open
    BY <1>1, <2>1 DEF OpTyped, OpSpends
  <2>3. /\ removed \subseteq removed' /\ connections' \union removed' \subseteq Servers
        /\ connections \union removed \subseteq connections' \union removed'
    BY <1>1, <2>1, <2>2
  <2>4. QED
    BY <1>2, <2>1, <2>2, <2>3
<1>4. ASSUME NEW c \in Servers, ConnectionSaved(o, c, answered) PROVE KeysKept'
  <2>1. /\ o.kind = "connect" /\ connections' = connections \union {c} /\ removed' = removed
        /\ (IF answered THEN ops' = {Listing("saved", c)} ELSE ops' = {})
        /\ UNCHANGED <<store, unlisted, pageVars, ghosts, unseen, redisClicks>>
    BY <1>1, <1>4 DEF ConnectionSaved, Goes, Ends, Fails
  <2>2. Spent(page.text) /\ ~newKey.open
    BY <1>1, <2>1 DEF OpSpends
  <2>3. /\ removed \subseteq removed' /\ connections' \union removed' \subseteq Servers
        /\ connections \union removed \subseteq connections' \union removed'
    BY <1>1, <2>1
  <2>4. QED
    BY <1>2, <2>1, <2>2, <2>3
<1>5. QED
  BY <1>3, <1>4

\* The list that was read is taken: a connection that is there is chosen, or the one that
\* was removed is kept with its draft.
LEMMA ListsAreTaken ==
  ASSUME KeysKept, NEW o \in ops, ListRead(o) \/ ListedAfter(o)
  PROVE  KeysKept'
<1>1. /\ ops = {o} /\ OpTyped(o) /\ OpSpends(o) /\ (o.kind # "create" => ~newKey.open)
  BY WaitingIsKept
<1>2. /\ o.kind \in {"list", "saved", "removed"}
      /\ UNCHANGED <<store, connections, removed, newKey, file, made, typed, written, replaced,
                     unseen, redisClicks>>
  BY DEF ListRead, ListedAfter
<1>3. /\ connections \union removed \subseteq Servers /\ connections \subseteq Servers
      /\ made \in Nat /\ made \in Values /\ ~newKey.open /\ given \subseteq 0..made
      /\ (id # NoConnection => id \in connections \union removed)
  BY <1>1, <1>2 DEF KeysKept, RestKept, ValuesKept, Values
\* Another connection is chosen and its keys are asked for, if there is one.
<1>4. ASSUME NEW c, TakesConnection(o, c), given \subseteq given', given' \subseteq 0..made,
             page.text \in typed => page.text \in given' \union written' \union replaced'
      PROVE  KeysKept'
  <2>1. /\ SelectConnection(c, connections)
        /\ (IF id' = NoConnection THEN ops' = {} ELSE ops' = {Scan(id')})
    BY <1>1, <1>4 DEF TakesConnection, Ends, Goes
  <2>2. /\ SelectionKept' /\ page' = NoPage /\ (id' # NoConnection => id' \in connections)
    BY <1>3, <2>1, AnotherIsChosen
  <2>3. PageKept' /\ VersionsKept' /\ DraftsKept'
    BY <1>2, <1>4, <2>2, ClearedIsKept
  <2>4. DialogKept' /\ RestKept'
    BY <1>2, <1>3, <2>1, ChosenIsKept
  <2>5. ValuesKept'
    BY <1>2, <1>3, <1>4 DEF KeysKept, ValuesKept
  <2>6. OpsKept'
    <3>1. CASE ops' = {}
      BY <3>1 DEF OpsKept
    <3>2. CASE ops' = {Scan(id')} /\ id' # NoConnection
      <4>1. PICK p : p = Scan(id')
        OBVIOUS
      <4>2. id' \in Servers /\ made' \in Nat /\ ~newKey'.open
        BY <1>2, <1>3, <2>2, <3>2
      <4>3. OpKept(p)' /\ ops' = {p}
        BY <3>2, <4>1, <4>2, ScanIsKept
      <4>4. QED
        BY <4>3 DEF OpsKept
    <3>3. QED
      BY <2>1, <3>1, <3>2
  <2>7. QED
    BY <2>2, <2>3, <2>4, <2>5, <2>6 DEF KeysKept
\* The one that is chosen stays, with what is shown of it.
<1>5. ASSUME KeepsConnection(o), id = NoConnection => connections = {},
             ops' = {} \/ (ops' = {Scan(id)} /\ id \in connections)
      PROVE  KeysKept'
  <2>1. /\ profiles' = connections /\ unlisted' = (id \notin connections) /\ UNCHANGED <<id, page, given>>
    BY <1>5 DEF KeepsConnection
  <2>2. PageKept' /\ DialogKept' /\ ValuesKept'
    BY <1>2, <1>3, <2>1, PartsStay
  <2>3. RestKept'
    BY <1>2, <1>3, <2>1 DEF KeysKept, RestKept
  <2>4. SelectionKept'
    BY <1>2, <1>3, <1>5, <2>1 DEF KeysKept, SelectionKept
  <2>5. VersionsKept' /\ DraftsKept'
    BY <1>2, <2>1 DEF KeysKept, VersionsKept, Stale, DraftsKept, TextsAreKept, Spent
  <2>6. OpsKept'
    <3>1. CASE ops' = {}
      BY <3>1 DEF OpsKept
    <3>2. CASE ops' = {Scan(id)} /\ id \in connections
      <4>1. PICK p : p = Scan(id')
        OBVIOUS
      <4>2. OpKept(p)' /\ ops' = {p}
        BY <1>2, <1>3, <2>1, <3>2, <4>1, ScanIsKept
      <4>3. QED
        BY <4>2 DEF OpsKept
    <3>3. QED
      BY <1>5, <3>1, <3>2
  <2>7. QED
    BY <2>2, <2>3, <2>4, <2>5, <2>6 DEF KeysKept
<1>6. CASE ListRead(o)
  <2>1. CASE id \in connections /\ KeepsConnection(o) /\ (Goes(o, Scan(id)) \/ Ends(o))
    <3>1. ops' = {} \/ ops' = {Scan(id)}
      BY <1>1, <2>1 DEF Goes, Ends
    <3>2. id # NoConnection
      BY <1>3, <2>1
    <3>3. QED
      BY <1>5, <2>1, <3>1, <3>2
  <2>2. CASE Guard /\ TakesConnection(o, NoConnection)
    <3>1. UNCHANGED <<typed, written, replaced>>
      BY <1>2
    <3>2. /\ given \subseteq given' /\ given' \subseteq 0..made
          /\ page.text \in typed => page.text \in given' \union written' \union replaced'
      BY <2>2, <3>1, GuardSpends
    <3>3. QED
      BY <1>4, <2>2, <3>2
  <2>3. CASE id \notin connections /\ TextChanged /\ KeepsConnection(o) /\ Ends(o)
    <3>1. ops' = {}
      BY <1>1, <2>3 DEF Ends
    <3>2. id # NoConnection
      BY <2>3 DEF KeysKept, SelectionKept, PageKept, TextChanged
    <3>3. QED
      BY <1>5, <2>3, <3>1, <3>2
  <2>4. QED
    BY <1>6, <2>1, <2>2, <2>3 DEF ListRead
<1>7. CASE ListedAfter(o)
  <2>1. ASSUME NEW c, TakesConnection(o, c), UNCHANGED given, Spent(page.text) PROVE KeysKept'
    BY <1>2, <1>3, <1>4, <2>1 DEF Spent
  <2>2. CASE o.kind = "saved" /\ TakesConnection(o, o.of) /\ UNCHANGED given
    BY <1>1, <2>1, <2>2 DEF OpSpends
  <2>3. CASE o.kind = "removed" /\ o.of = id /\ TakesConnection(o, NoConnection) /\ UNCHANGED given
    BY <1>1, <2>1, <2>3 DEF OpSpends
  <2>4. CASE o.kind = "removed" /\ o.of # id /\ KeepsConnection(o) /\ Ends(o)
    <3>1. ops' = {} /\ id # NoConnection
      BY <1>1, <2>4 DEF Ends, OpTyped
    <3>2. QED
      BY <1>5, <2>4, <3>1
  <2>5. QED
    BY <1>7, <2>2, <2>3, <2>4 DEF ListedAfter
<1>8. QED
  BY <1>6, <1>7

\* A handler that waits does not notice what another page does to the list.
LEMMA OtherPageStep ==
  ASSUME KeysKept, NEW c \in Servers, OtherPage(c)
  PROVE  KeysKept'
<1>1. /\ RedisClick /\ UNCHANGED <<store, unlisted, pageVars, ghosts>> /\ ops' = ops /\ unseen' = unseen
      /\ UNCHANGED <<id, page, newKey, store, made, typed, given, written, replaced>>
  BY DEF OtherPage, pageVars, ghosts
<1>2. /\ connections' \union removed' \subseteq Servers /\ removed \subseteq removed'
      /\ connections \union removed \subseteq connections' \union removed'
  BY DEF OtherPage, KeysKept, RestKept
<1>3. ASSUME NEW o \in ops PROVE ops' = {o} /\ OpKept(o)'
  BY <1>1, OpStays
<1>4. CASE ops = {}
  BY <1>1, <1>2, <1>4, WaitsOn
<1>5. CASE ops # {}
  <2>1. PICK o \in ops : TRUE
    BY <1>5
  <2>2. ops' = {o} /\ OpKept(o)'
    BY <1>3
  <2>3. QED
    BY <1>1, <1>2, <2>2, WaitsOn
<1>6. QED
  BY <1>4, <1>5

(***************************************************************************)
(* What the page keeps to.                                                 *)
(***************************************************************************)
\* The list of connections is asked for, and nothing is chosen yet.
LEMMA InitKept ==
  ASSUME RedisInit
  PROVE  KeysKept
<1>1. /\ connections = Listed /\ removed = {} /\ unlisted = FALSE /\ profiles = {} /\ id = NoConnection
      /\ page = NoPage /\ newKey = NoDialog /\ file = NoFile /\ ops = {Listing("list", NoConnection)}
      /\ made = 1 /\ typed = {} /\ given = {} /\ written = {} /\ replaced = {} /\ unseen = {} /\ redisClicks = 0
      /\ store = [c \in Servers |-> [k \in Keys |-> IF k \in Stored THEN 1 ELSE Absent]]
  BY DEF RedisInit
<1>2. ValuesKept
  BY <1>1 DEF ValuesKept, Values, Absent
<1>3. PageKept /\ DialogKept /\ RestKept
  <2>1. PageKept
    BY <1>1 DEF PageKept, NoPage, Absent
  <2>2. DialogKept
    BY <1>1 DEF DialogKept, NoDialog, NoFile, Absent
  <2>3. RestKept
    <3>1. Listed \union {} \subseteq Servers /\ 0 \in 0..MaxRedisClicks
      OBVIOUS
    <3>2. QED
      BY <1>1, <3>1 DEF RestKept
  <2>4. QED
    BY <2>1, <2>2, <2>3
<1>4. SelectionKept /\ DraftsKept /\ VersionsKept
  BY <1>1 DEF SelectionKept, DraftsKept, TextsAreKept, Spent, VersionsKept, NoPage, NoDialog
<1>5. OpsKept
  <2>1. PICK o : o = Listing("list", NoConnection)
    OBVIOUS
  <2>2. o \in OpType /\ o.kind = "list" /\ o.value = 0 /\ o.version = 0
    BY <2>1 DEF Listing, Op, OpType, Kinds, Absent
  <2>3. OpTyped(o)
    BY <1>1, <2>2 DEF OpTyped, OfKey, OfConnection
  <2>4. OpSpends(o) /\ OpVersion(o)
    BY <1>1, <2>2 DEF OpSpends, OpVersion, NoDialog
  <2>5. ops = {o} /\ OpKept(o)
    BY <1>1, <2>1, <2>3, <2>4 DEF OpKept
  <2>6. QED
    BY <2>5 DEF OpsKept
<1>6. QED
  BY <1>2, <1>3, <1>4, <1>5 DEF KeysKept

\* Every answer keeps the invariant.
LEMMA AnswersAreKept ==
  ASSUME KeysKept, NEW o \in ops, Answered(o)
  PROVE  KeysKept'
  BY QuietAnswers, ValueReadStep, KeyWrittenStep, KeyDeletedStep, NamespaceDeletedStep, ConnectionAnswers,
     ListsAreTaken DEF Answered

\* Every handler and every answer keeps the invariant.
LEMMA NextKept ==
  ASSUME KeysKept, [RedisNext]_redisVars
  PROVE  KeysKept'
<1>1. CASE RedisUser
  BY <1>1, UserStarts, PageEdits, DialogEdits, ChooseConnectionStep DEF RedisUser
<1>2. ASSUME NEW o \in ops, Answered(o) PROVE KeysKept'
  BY <1>2, AnswersAreKept
<1>3. CASE FileRead
  BY <1>3, FileReadStep
<1>4. ASSUME NEW c \in Servers, NEW k \in Keys, OtherClient(c, k) PROVE KeysKept'
  BY <1>4, OtherClientStep
<1>5. CASE UNCHANGED redisVars
  <2>1. /\ UNCHANGED <<store, serviceVars, pageVars, ghosts, redisClicks>> /\ unseen' = unseen /\ ops' = ops
        /\ UNCHANGED <<id, page, newKey, store, made, typed, given, written, replaced>>
    BY <1>5 DEF redisVars, pageVars, ghosts
  <2>2. CASE ops = {}
    BY <2>1, <2>2, ListStays, WaitsOn
  <2>3. CASE ops # {}
    <3>1. PICK o \in ops : TRUE
      BY <2>3
    <3>2. ops' = {o} /\ OpKept(o)'
      BY <2>1, OpStays
    <3>3. QED
      BY <2>1, <3>2, ListStays, WaitsOn
  <2>4. QED
    BY <2>2, <2>3
<1>6. ASSUME NEW c \in Servers, OtherPage(c) PROVE KeysKept'
  BY <1>6, OtherPageStep
<1>7. QED
  BY <1>1, <1>2, <1>3, <1>4, <1>5, <1>6 DEF RedisNext

\* The inductive invariant of the Redis workspace.
THEOREM RedisIsKept == RedisSpec => []KeysKept
<1>1. RedisInit => KeysKept
  BY InitKept
<1>2. KeysKept /\ [RedisNext]_redisVars => KeysKept'
  BY NextKept
<1>3. QED
  BY <1>1, <1>2, PTL DEF RedisSpec

\* One handler waits at a time; a key is shown only of the chosen connection, which is one
\* of the profiles unless it was removed and the user has kept its draft, or removed another
\* one, when the list was read; and a text that was typed stays until it is written or given
\* up, or the type of its new key is changed (run, refresh, manage, selectConnection, guard,
\* saveNewKey, new-key-file, new-key-type).
THEOREM SelectionAlwaysKept == RedisSpec => []SelectionIsKept
<1>1. KeysKept => SelectionIsKept
  <2> SUFFICES ASSUME KeysKept PROVE SelectionIsKept
    OBVIOUS
  <2>1. made \in Nat /\ made \in 1..MaxValues /\ 0..made \subseteq Values \union {Absent}
    BY DEF KeysKept, ValuesKept, Values, Absent
  <2>2. store \in [Servers -> [Keys -> Values \union {Absent}]]
    <3>1. store \in [Servers -> [Keys -> Nat]] /\ \A c \in Servers, k \in Keys : store[c][k] <= made
      BY DEF KeysKept, ValuesKept
    <3>2. \A c \in Servers : store[c] \in [Keys -> Nat]
      BY <3>1
    <3>3. ASSUME NEW c \in Servers PROVE store[c] \in [Keys -> Values \union {Absent}]
      <4>1. \A k \in Keys : store[c][k] \in 0..made
        BY <2>1, <3>1, <3>2
      <4>2. QED
        BY <2>1, <3>2, <4>1
    <3>4. QED
      BY <3>1, <3>3
  <2>3. page.key \in Keys \union {NoKey} /\ page.text \in Values \union {Absent}
    BY <2>1 DEF KeysKept, PageKept
  <2>4. id \in Servers \union {NoConnection}
    BY DEF KeysKept, SelectionKept, RestKept
  <2>5. RedisTypeOK
    BY <2>1, <2>2, <2>3, <2>4 DEF KeysKept, ValuesKept, RestKept, DialogKept, RedisTypeOK
  <2>6. Cardinality(ops) <= 1
    <3>1. CASE ops = {}
      BY <3>1, FS_EmptySet
    <3>2. CASE ops # {}
      <4>1. PICK o : ops = {o}
        BY <3>2 DEF KeysKept, OpsKept
      <4>2. Cardinality({o}) = 1
        BY FS_Singleton
      <4>3. QED
        BY <4>1, <4>2
    <3>3. QED
      BY <3>1, <3>2
  <2>7. ShownIsOfSelection
    <3>1. Cardinality(ops) = Cardinality(ops)
      BY DEF Cardinality, Cardinality
    <3>2. QED
      BY <2>6, <3>1 DEF KeysKept, SelectionKept, ShownIsOfSelection
  <2>8. QED
    BY <2>5, <2>7 DEF KeysKept, DraftsKept, SelectionIsKept
<1>2. QED
  BY <1>1, RedisIsKept, PTL

\* One step does to a key that another client has written and the page has not read.
OthersStep ==
  \A c \in Servers, k \in Keys :
    <<c, k>> \in unseen /\ store[c][k] \notin {Absent, store'[c][k]} =>
      \/ OtherClient(c, k)
      \/ \E o \in ops : o.kind = "namespace" /\ o.of = c /\ k \in o.keys

\* No step of the page overwrites what another client wrote unseen.
LEMMA OthersStepIsKept ==
  ASSUME KeysKept, [RedisNext]_redisVars
  PROVE  OthersStep
<1> SUFFICES ASSUME NEW c \in Servers, NEW k \in Keys,
                    <<c, k>> \in unseen, store[c][k] # Absent, store[c][k] # store'[c][k]
             PROVE  \/ OtherClient(c, k)
                    \/ \E o \in ops : o.kind = "namespace" /\ o.of = c /\ k \in o.keys
  BY DEF OthersStep
<1>1. store \in [Servers -> [Keys -> Nat]]
  BY DEF KeysKept, ValuesKept
<1>2. CASE store' = store
  BY <1>2
<1>3. ASSUME NEW o \in ops, NEW answered \in BOOLEAN, KeyWritten(o, answered) \/ KeyDeleted(o, answered) PROVE FALSE
  <2>1. /\ o.kind \in {"write", "create", "delete"} /\ UnchangedFor(o)
        /\ \E value : store' = [store EXCEPT ![o.of][o.key] = value]
    BY <1>3 DEF KeyWritten, KeyDeleted
  <2>2. o.of \in Servers /\ o.key \in Keys /\ OpVersion(o)
    BY <2>1, WaitingIsKept DEF OfKey
  <2>3. o.of = c /\ o.key = k
    BY <1>1, <2>1, <2>2
  <2>4. QED
    BY <2>1, <2>2, <2>3 DEF OpVersion, Stale, UnchangedFor
<1>4. ASSUME NEW o \in ops, NEW deleted, NEW answered, NamespaceDeleted(o, deleted, answered)
      PROVE  o.kind = "namespace" /\ o.of = c /\ k \in o.keys
  <2>1. /\ o.kind = "namespace" /\ TokenOf(o) /\ deleted \subseteq Present(o.of)
        /\ store' = [store EXCEPT ![o.of] = [m \in Keys |-> IF m \in deleted THEN Absent ELSE store[o.of][m]]]
    BY <1>4 DEF NamespaceDeleted
  <2>2. o.of \in Servers
    BY <2>1, WaitingIsKept
  <2>3. o.of = c
    BY <1>1, <2>1, <2>2
  <2>4. k \in deleted
    BY <1>1, <2>1, <2>2, <2>3
  <2>5. QED
    BY <2>1, <2>3, <2>4 DEF TokenOf
<1>5. ASSUME NEW n \in Servers, NEW m \in Keys, OtherClient(n, m) PROVE n = c /\ m = k
  BY <1>1, <1>5 DEF OtherClient
<1>6. CASE RedisUser
  <2>1. ASSUME NEW m \in Keys, OpenKey(m) \/ DeleteKey(m) \/ CopyKey(m) \/ SaveNewKey(m) PROVE store' = store
    BY <2>1 DEF OpenKey, DeleteKey, CopyKey, SaveNewKey
  <2>2. CASE TypeValue \/ TypeTTL \/ Save \/ Expire \/ AskKeys \/ AskConnections \/ DeleteNamespace
    BY <1>2, <2>2 DEF TypeValue, TypeTTL, Save, Expire, AskKeys, AskConnections, DeleteNamespace
  <2>3. ASSUME NEW n, ChooseConnection(n) \/ SaveConnection(n) \/ RemoveConnection(n) PROVE store' = store
    BY <2>3 DEF ChooseConnection, SaveConnection, RemoveConnection
  <2>4. CASE OpenNewKey \/ TypeNewKey \/ ChooseType \/ CloseNewKey \/ ChooseFile
    BY <1>2, <2>4 DEF OpenNewKey, TypeNewKey, ChooseType, CloseNewKey, ChooseFile
  <2>5. QED
    BY <1>2, <1>6, <2>1, <2>2, <2>3, <2>4 DEF RedisUser
<1>7. ASSUME NEW o \in ops,
             \/ RequestFails(o) \/ ValueRead(o) \/ VersionRead(o) \/ CopyRead(o) \/ KeysListed(o)
             \/ NamespacePreviewed(o) \/ ListRead(o) \/ ListedAfter(o)
             \/ \E answered \in BOOLEAN :
                  ConnectionRemoved(o, answered) \/ \E n \in Servers : ConnectionSaved(o, n, answered)
      PROVE  store' = store
  BY <1>7 DEF RequestFails, ValueRead, VersionRead, CopyRead, KeysListed, NamespacePreviewed,
              ListRead, ListedAfter, ConnectionSaved, ConnectionRemoved
<1>8. ASSUME NEW o \in ops, Answered(o)
      PROVE  \E p \in ops : p.kind = "namespace" /\ p.of = c /\ k \in p.keys
  BY <1>2, <1>3, <1>4, <1>7, <1>8 DEF Answered
<1>9. CASE FileRead
  BY <1>2, <1>9 DEF FileRead
<1>10. CASE UNCHANGED redisVars
  BY <1>2, <1>10 DEF redisVars
<1>11. ASSUME NEW n \in Servers, OtherPage(n) PROVE store' = store
  BY <1>11 DEF OtherPage
<1>12. QED
  BY <1>2, <1>5, <1>6, <1>8, <1>9, <1>10, <1>11 DEF RedisNext

\* What another client has written and the page has not read is neither overwritten nor
\* deleted by the page, except as a confirmed key of a namespace, whichever requests
\* fail after they were done (writeRedisValue, redisNamespaceAction).
THEOREM OthersAlwaysKept == RedisSpec => OthersAreKept
<1>1. KeysKept /\ [RedisNext]_redisVars => [OthersStep]_redisVars
  BY OthersStepIsKept
<1>2. RedisSpec => [][OthersStep]_redisVars
  BY <1>1, RedisIsKept, PTL DEF RedisSpec
<1>3. QED
  BY <1>2 DEF OthersAreKept, OthersStep
=============================================================================
