--------------------------- MODULE Terminal_proofs ---------------------------
(***************************************************************************)
(* Proofs about Terminal, for every number of tabs and events, all         *)
(* directories and names, and every size of the replay.                    *)
(*                                                                         *)
(* The invariant is a conjunction of parts, each about variables of its    *)
(* own; a part is proved against the actions that write one of them, and   *)
(* kept by all the others.                                                 *)
(***************************************************************************)
EXTENDS Terminal, ListLemmas

USE DirsAssumption, TerminalAssumption

\* The texts: what is not marked as changed is what was read or saved.
Doc == [state : {"none", "opening", "open"}, dir : Dirs \cup {""}, text : Nat, baseline : Nat, etag : Nat,
        dirty : BOOLEAN, saving : {"no", "sent", "listing"}, sent : Nat]
DocsType == doc \in [Tabs -> Doc] /\ file \in [Tabs -> Nat]
DocsKept == DocsType /\ CleanTextIsSaved

\* The tabs: which there are, which of them is shown, and that the output of one
\* that has not connected has not been asked for.
TabsKept ==
  /\ status \in [Tabs -> {"new", "connecting", "open", "ended", "closed"}]
  /\ active \in Tabs \cup {NoTab} /\ connecting \in Tabs \cup {NoTab}
  /\ stream \in [Tabs -> [state : {"none", "wait", "live", "over"}, tries : Nat]]
  /\ \A s \in Tabs : status[s] \in {"new", "connecting"} => stream[s].state = "none"

\* The input: a chunk at most is on its way; what was typed is in the shell, on its
\* way or waiting, in this order.
InputType ==
  /\ typed \in [Tabs -> Nat] /\ pending \in [Tabs -> Seq(Nat)] /\ got \in [Tabs -> Seq(Nat)]
  /\ sending \in [Tabs -> SUBSET Seq(Nat)]
InputOf(s) ==
  /\ Increasing(got[s]) /\ Increasing(pending[s]) /\ Before(got[s], pending[s])
  /\ AtMost(got[s], typed[s]) /\ AtMost(pending[s], typed[s])
  /\ \A chunk \in sending[s] :
       /\ sending[s] = {chunk} /\ Increasing(chunk) /\ AtMost(chunk, typed[s])
       /\ Before(got[s], chunk) /\ Before(chunk, pending[s])
InputKept == InputType /\ \A s \in Tabs : InputOf(s)

\* The output: what is in the air follows the page's offset without a gap, as long as
\* the service has not put the reader forward.
OutputType ==
  /\ made \in [Tabs -> Nat] /\ at \in [Tabs -> Nat] /\ offset \in [Tabs -> Nat]
  /\ air \in [Tabs -> Seq(Nat)] /\ shown \in [Tabs -> Seq(Nat)] /\ skipped \subseteq Tabs
OutputOf(s) ==
  /\ Increasing(shown[s]) /\ AtMost(shown[s], offset[s])
  /\ stream[s].state = "live" =>
       /\ at[s] = offset[s] + Len(air[s])
       /\ \A i \in DOMAIN air[s] : air[s][i] = offset[s] + i
OutputKept ==
  /\ OutputType
  /\ \A s \in Tabs : stream[s].state # "live" => air[s] = <<>>
  /\ \A s \in Tabs \ skipped : OutputOf(s)

\* The tree: a directory that was asked for before the tree was cleared is not the one
\* that was asked for last.
ListingType == [tab : Tabs, dir : Dirs, kind : {"dir", "tree"}, saved : BOOLEAN, epoch : Nat,
                answered : BOOLEAN, request : Nat]
Node == [epoch : Nat, list : {"missing", "partial", "listed"}]
TreeType ==
  /\ listings \subseteq ListingType
  /\ dirRequest \in [Tabs -> Nat] /\ epoch \in [Tabs -> Nat] /\ cwd \in [Tabs -> Dirs \cup {""}]
  /\ treeRequests \in [Tabs -> [Dirs -> Nat]]
  /\ tree \in [Tabs -> [Dirs -> Node]]
ListingFits(l) ==
  /\ l.kind = "dir" => l.request <= dirRequest[l.tab]
  /\ l.kind = "dir" /\ l.request = dirRequest[l.tab] => l.epoch = epoch[l.tab]
TreeKept == TreeType /\ (\A l \in listings : ListingFits(l)) /\ TreeIsFresh

\* A text is of a directory, which may be listed when the text was saved.
TextsHaveDirs ==
  \A s \in Tabs : doc[s].state # "none" \/ doc[s].saving # "no" \/ doc[s].dirty => doc[s].dir \in Dirs

\* The rest of what TerminalTypeOK says.
RestKept == removing.left \subseteq Names /\ acting \in BOOLEAN /\ clicks \in 0..MaxEvents

Kept == TabsKept /\ OutputKept /\ InputKept /\ TreeKept /\ TextsHaveDirs /\ DocsKept /\ RestKept

(***************************************************************************)
(* The texts.                                                              *)
(***************************************************************************)
\* Who writes a text or a file.
LEMMA DocWriters ==
  ASSUME TerminalNext
  PROVE  \/ UNCHANGED docVars
         \/ \E s \in Tabs : CloseTab(s) \/ TakeOpen(s) \/ TextOpened(s) \/ SaveAnswered(s) \/ SaveEnds(s)
         \/ OpenText
         \/ \E s \in Tabs : EditText(s, Edited) \/ EditText(s, doc[s].baseline) \/ SaveText(s)
                            \/ CloseText(s) \/ WriteFile(s)
<1>1. CASE User
  <2>1. ASSUME NEW s \in Tabs, Connect(s) \/ SelectTab(s) \/ Type(s) PROVE UNCHANGED docVars
    BY <2>1 DEF Connect, SelectTab, Type
  <2>2. ASSUME NEW dir \in Dirs, LoadDir(dir) \/ LoadTreeNode(dir) PROVE UNCHANGED docVars
    BY <2>2 DEF LoadDir, LoadTreeNode, dirRest
  <2>3. ASSUME NEW names, Refresh \/ ChangeDir \/ DeleteSelected(names) PROVE UNCHANGED docVars
    BY <2>3 DEF Refresh, ChangeDir, DeleteSelected, dirRest
  <2>4. QED
    BY <1>1, <2>1, <2>2, <2>3 DEF User
<1>2. CASE Service
  <2>1. ASSUME NEW s \in Tabs, ServeOpen(s) \/ TakeLateOpen(s) \/ InputAnswered(s) PROVE UNCHANGED docVars
    BY <2>1 DEF ServeOpen, TakeLateOpen, InputAnswered
  <2>2. ASSUME NEW s \in Tabs,
               \/ WriteOutput(s) \/ ExitShell(s) \/ AskOutput(s) \/ SendOutput(s) \/ ReadOutput(s)
               \/ LoseOutput(s) \/ EndOutput(s)
        PROVE  UNCHANGED docVars
    BY <2>2 DEF WriteOutput, ExitShell, AskOutput, SendOutput, ReadOutput, LoseOutput, EndOutput
  <2>3. ASSUME NEW l, ServeListing(l) \/ TakeListing(l) PROVE UNCHANGED docVars
    BY <2>3 DEF ServeListing, TakeListing, dirRest
  <2>4. ASSUME NEW ok, ActionEnds \/ RemovalAnswered(ok) PROVE UNCHANGED docVars
    BY <2>4 DEF ActionEnds, RemovalAnswered, dirRest
  <2>5. QED
    BY <1>2, <2>1, <2>2, <2>3, <2>4 DEF Service
<1>3. QED
  BY <1>1, <1>2 DEF TerminalNext

\* What is not marked stays what was read or saved.
LEMMA DocsStep ==
  ASSUME Kept, TerminalNext
  PROVE  DocsKept'
<1>1. /\ doc \in [Tabs -> Doc] /\ file \in [Tabs -> Nat] /\ CleanTextIsSaved
      /\ active \in Tabs \cup {NoTab} /\ clicks \in Nat
  BY DEF Kept, DocsKept, DocsType, TabsKept, RestKept
<1>2. cwd \in [Tabs -> Dirs \cup {""}]
  BY DEF Kept, TreeKept, TreeType
<1>3. NoDoc \in Doc /\ ~NoDoc.dirty /\ NoDoc.text = NoDoc.baseline
  BY DEF NoDoc, Doc
\* One text becomes d, which keeps to the rule.
<1>4. ASSUME NEW s \in Tabs, NEW d \in Doc, ~d.dirty => d.text = d.baseline,
             doc' = [doc EXCEPT ![s] = d], file' \in [Tabs -> Nat]
      PROVE  DocsKept'
  BY <1>1, <1>4 DEF DocsKept, DocsType, CleanTextIsSaved
<1>5. CASE UNCHANGED docVars
  BY <1>1, <1>5 DEF docVars, DocsKept, DocsType, CleanTextIsSaved
<1>6. ASSUME NEW s \in Tabs, CloseTab(s) PROVE DocsKept'
  BY <1>1, <1>3, <1>4, <1>6 DEF CloseTab, Dispose, disposeRest
<1>7. ASSUME NEW s \in Tabs, TakeOpen(s) PROVE DocsKept'
  <2>1. CASE UNCHANGED docVars
    BY <1>5, <2>1
  <2>2. CASE Dispose(s) /\ UNCHANGED disposeRest
    BY <1>1, <1>3, <1>4, <2>2 DEF Dispose, disposeRest
  <2>3. QED
    BY <1>7, <2>1, <2>2 DEF TakeOpen
<1>8. ASSUME NEW s \in Tabs, TextOpened(s) PROVE DocsKept'
  <2> DEFINE d == [doc[s] EXCEPT !.state = "open", !.text = file[s], !.baseline = file[s], !.etag = file[s]]
  <2>1. d \in Doc /\ d.text = d.baseline
    BY <1>1 DEF Doc
  <2>2. (doc' = [doc EXCEPT ![s] = d] \/ doc' = [doc EXCEPT ![s] = NoDoc]) /\ file' = file
    BY <1>8 DEF TextOpened
  <2> HIDE DEF d
  <2>3. QED
    BY <1>1, <1>3, <1>4, <2>1, <2>2
\* A save ends, or goes on with the listing of the directory.
<1>9. ASSUME NEW s \in Tabs, NEW saving \in {"no", "listing"}
       PROVE  /\ [doc[s] EXCEPT !.saving = saving] \in Doc
              /\ [doc[s] EXCEPT !.saving = saving].dirty = doc[s].dirty
              /\ [doc[s] EXCEPT !.saving = saving].text = doc[s].text
              /\ [doc[s] EXCEPT !.saving = saving].baseline = doc[s].baseline
  BY <1>1 DEF Doc
<1>10. ASSUME NEW s \in Tabs, NEW saving \in {"no", "listing"}
       PROVE  /\ [Saved(doc[s]) EXCEPT !.saving = saving] \in Doc
              /\ \/ [Saved(doc[s]) EXCEPT !.saving = saving].dirty
                 \/ [Saved(doc[s]) EXCEPT !.saving = saving].text = [Saved(doc[s]) EXCEPT !.saving = saving].baseline
  BY <1>1 DEF Saved, Doc
<1>11. ASSUME NEW s \in Tabs, SaveAnswered(s) PROVE DocsKept'
  <2>1. file' \in [Tabs -> Nat]
    BY <1>1, <1>11 DEF SaveAnswered, Doc
  <2>2. CASE doc' = [doc EXCEPT ![s] = [Saved(doc[s]) EXCEPT !.saving = "listing"]]
    BY <1>4, <1>10, <2>1, <2>2
  <2>3. CASE doc' = [doc EXCEPT ![s] = [Saved(doc[s]) EXCEPT !.saving = "no"]]
    BY <1>4, <1>10, <2>1, <2>3
  <2>4. CASE doc' = [doc EXCEPT ![s] = [doc[s] EXCEPT !.saving = "no"]]
    BY <1>1, <1>4, <1>9, <2>1, <2>4 DEF CleanTextIsSaved
  <2>5. QED
    BY <1>11, <2>2, <2>3, <2>4 DEF SaveAnswered
<1>12. ASSUME NEW s \in Tabs, SaveEnds(s) PROVE DocsKept'
  <2>1. doc' = [doc EXCEPT ![s] = [doc[s] EXCEPT !.saving = "no"]] /\ file' = file
    BY <1>12 DEF SaveEnds
  <2>2. QED
    BY <1>1, <1>4, <1>9, <2>1 DEF CleanTextIsSaved
<1>13. CASE OpenText
  <2> DEFINE d == [doc[active] EXCEPT !.state = "opening", !.dir = cwd[active]]
  <2>1. active \in Tabs /\ doc' = [doc EXCEPT ![active] = d] /\ file' = file
    BY <1>1, <1>13 DEF OpenText, Usable
  <2>2. d \in Doc /\ d.dirty = doc[active].dirty /\ d.text = doc[active].text /\ d.baseline = doc[active].baseline
    BY <1>1, <1>2, <2>1 DEF Doc
  <2>3. QED
    BY <1>1, <1>4, <2>1, <2>2 DEF CleanTextIsSaved
<1>14. ASSUME NEW s \in Tabs, NEW text \in Nat, EditText(s, text) PROVE DocsKept'
  <2> DEFINE d == [doc[s] EXCEPT !.text = text, !.dirty = text # doc[s].baseline]
  <2>1. doc' = [doc EXCEPT ![s] = d] /\ file' = file
    BY <1>14 DEF EditText
  <2>2. d \in Doc /\ (~d.dirty => d.text = d.baseline)
    BY <1>1 DEF Doc
  <2>3. QED
    BY <1>1, <1>4, <2>1, <2>2
<1>15. ASSUME NEW s \in Tabs, SaveText(s) PROVE DocsKept'
  <2> DEFINE d == [doc[s] EXCEPT !.saving = "sent", !.sent = doc[s].text]
  <2>1. doc' = [doc EXCEPT ![s] = d] /\ file' = file
    BY <1>15 DEF SaveText
  <2>2. d \in Doc /\ d.dirty = doc[s].dirty /\ d.text = doc[s].text /\ d.baseline = doc[s].baseline
    BY <1>1 DEF Doc
  <2>3. QED
    BY <1>1, <1>4, <2>1, <2>2 DEF CleanTextIsSaved
<1>16. ASSUME NEW s \in Tabs, CloseText(s) PROVE DocsKept'
  BY <1>1, <1>3, <1>4, <1>16 DEF CloseText
<1>17. ASSUME NEW s \in Tabs, WriteFile(s) PROVE DocsKept'
  BY <1>1, <1>17 DEF WriteFile, Click, Edited, DocsKept, DocsType, CleanTextIsSaved
<1>18. ASSUME NEW s \in Tabs, EditText(s, Edited) \/ EditText(s, doc[s].baseline) PROVE DocsKept'
  <2>1. doc[s].baseline \in Nat
    BY <1>1 DEF Doc
  <2>2. clicks' = clicks + 1
    BY <1>18 DEF EditText, Click
  <2>3. Edited \in Nat
    BY <1>1, <2>2 DEF Edited
  <2>4. QED
    BY <1>14, <1>18, <2>1, <2>3
<1>19. QED
  BY DocWriters, <1>12, <1>5, <1>6, <1>7, <1>8, <1>11, <1>13, <1>15, <1>16, <1>17, <1>18

(***************************************************************************)
(* The tabs.                                                               *)
(***************************************************************************)
tabState == <<status, active, connecting, stream>>

\* Who writes the state of a tab, which is shown, or the state of its output.
LEMMA TabWriters ==
  ASSUME TerminalNext
  PROVE  \/ UNCHANGED tabState
         \/ \E s \in Tabs : Connect(s) \/ CloseTab(s) \/ SelectTab(s) \/ TakeOpen(s)
         \/ \E s \in Tabs : AskOutput(s) \/ LoseOutput(s) \/ EndOutput(s)
<1>1. CASE User
  <2>1. ASSUME NEW s \in Tabs, Type(s) PROVE UNCHANGED tabState
    BY <2>1 DEF Type, tabState, tabVars, outVars
  <2>2. ASSUME NEW dir \in Dirs, LoadDir(dir) \/ LoadTreeNode(dir) PROVE UNCHANGED tabState
    BY <2>2 DEF LoadDir, LoadTreeNode, dirRest, tabState, tabVars, outVars
  <2>3. ASSUME NEW names, Refresh \/ ChangeDir \/ DeleteSelected(names) PROVE UNCHANGED tabState
    BY <2>3 DEF Refresh, ChangeDir, DeleteSelected, dirRest, tabState, tabVars, outVars
  <2>4. ASSUME NEW s \in Tabs,
               \/ EditText(s, Edited) \/ EditText(s, doc[s].baseline)
               \/ SaveText(s) \/ CloseText(s) \/ WriteFile(s)
        PROVE  UNCHANGED tabState
    BY <2>4 DEF EditText, SaveText, CloseText, WriteFile, docRest, tabState, tabVars, outVars
  <2>5. QED
    <3>1. CASE OpenText
      BY <3>1 DEF OpenText, docRest, tabState, tabVars, outVars
    <3>2. QED
      BY <1>1, <2>1, <2>2, <2>3, <2>4, <3>1 DEF User
<1>2. CASE Service
  <2>1. ASSUME NEW s \in Tabs, ServeOpen(s) \/ TakeLateOpen(s) \/ InputAnswered(s) PROVE UNCHANGED tabState
    BY <2>1 DEF ServeOpen, TakeLateOpen, InputAnswered, tabState, tabVars, outVars
  <2>2. ASSUME NEW s \in Tabs, WriteOutput(s) \/ ExitShell(s) \/ SendOutput(s) \/ ReadOutput(s)
        PROVE  UNCHANGED tabState
    BY <2>2 DEF WriteOutput, ExitShell, SendOutput, ReadOutput, tabState, tabVars, outVars
  <2>3. ASSUME NEW l, ServeListing(l) \/ TakeListing(l) PROVE UNCHANGED tabState
    BY <2>3 DEF ServeListing, TakeListing, dirRest, tabState, tabVars, outVars
  <2>4. ASSUME NEW ok, ActionEnds \/ RemovalAnswered(ok) PROVE UNCHANGED tabState
    BY <2>4 DEF ActionEnds, RemovalAnswered, dirRest, tabState, tabVars, outVars
  <2>5. ASSUME NEW s \in Tabs, TextOpened(s) \/ SaveAnswered(s) \/ SaveEnds(s) PROVE UNCHANGED tabState
    BY <2>5 DEF TextOpened, SaveAnswered, SaveEnds, docRest, tabState, tabVars, outVars
  <2>6. QED
    BY <1>2, <2>1, <2>2, <2>3, <2>4, <2>5 DEF Service
<1>3. QED
  BY <1>1, <1>2 DEF TerminalNext

\* The tab that is closed gives way to one that is open.
LEMMA DisposeShows ==
  ASSUME NEW s \in Tabs, Dispose(s), active \in Tabs \cup {NoTab}
  PROVE  active' \in Tabs \cup {NoTab}
<1> DEFINE others == {n \in Tabs : n # s /\ status[n] \in {"connecting", "open", "ended"}}
           before == {n \in others : n < s}
<1>1. active' = CASE active # s -> active
                  [] active = s /\ others = {} -> NoTab
                  [] OTHER -> IF before # {} THEN Max(before) ELSE Min(others)
  BY DEF Dispose
<1>2. before # {} => Max(before) \in before
  <2>1. MaxTabs \in Nat /\ before \subseteq 0..MaxTabs
    BY DEF Tabs
  <2> HIDE DEF before
  <2>2. QED
    BY <2>1, MaxIsGreatest
<1>3. others # {} => Min(others) \in others
  <2>1. others \subseteq Nat
    BY DEF Tabs
  <2> HIDE DEF others
  <2>2. QED
    BY <2>1, MinIsLeast
<1>4. before \subseteq Tabs /\ others \subseteq Tabs
  OBVIOUS
<1> HIDE DEF before, others
<1>5. QED
  BY <1>1, <1>2, <1>3, <1>4

\* A tab's output is asked for when it has connected and not before.
LEMMA TabsStep ==
  ASSUME TabsKept, TerminalNext
  PROVE  TabsKept'
<1> DEFINE Statuses == {"new", "connecting", "open", "ended", "closed"}
           Streams == [state : {"none", "wait", "live", "over"}, tries : Nat]
<1>1. /\ status \in [Tabs -> Statuses] /\ stream \in [Tabs -> Streams]
      /\ active \in Tabs \cup {NoTab} /\ connecting \in Tabs \cup {NoTab}
      /\ \A s \in Tabs : status[s] \in {"new", "connecting"} => stream[s].state = "none"
  BY DEF TabsKept
\* One tab has another status and its output another state.
<1>2. ASSUME NEW s \in Tabs, NEW st \in Statuses, NEW out \in Streams,
             status' = [status EXCEPT ![s] = st], stream' = [stream EXCEPT ![s] = out],
             st \in {"new", "connecting"} => out.state = "none",
             active' \in Tabs \cup {NoTab}, connecting' \in Tabs \cup {NoTab}
      PROVE  TabsKept'
  BY <1>1, <1>2 DEF TabsKept
<1>3. ASSUME NEW s \in Tabs, NEW state \in {"none", "wait", "live", "over"}
      PROVE  [stream[s] EXCEPT !.state = state] \in Streams /\ [stream[s] EXCEPT !.state = state].state = state
  BY <1>1
<1>4. ASSUME NEW s \in Tabs PROVE status = [status EXCEPT ![s] = status[s]] /\ stream = [stream EXCEPT ![s] = stream[s]]
  BY <1>1
<1>5. CASE UNCHANGED tabState
  BY <1>1, <1>5 DEF TabsKept, tabState
<1>6. ASSUME NEW s \in Tabs, Connect(s) PROVE TabsKept'
  <2>1. status' = [status EXCEPT ![s] = "connecting"] /\ stream' = stream /\ active' = s /\ connecting' = s /\ status[s] = "new"
    BY <1>6 DEF Connect, outVars
  <2>2. QED
    BY <1>1, <1>2, <1>4, <2>1
<1>7. ASSUME NEW s \in Tabs, Dispose(s) PROVE TabsKept'
  <2>1. /\ status' = [status EXCEPT ![s] = "closed"] /\ connecting' \in {NoTab, connecting}
        /\ stream' = [stream EXCEPT ![s] = [stream[s] EXCEPT !.state = "over"]]
    BY <1>7 DEF Dispose
  <2>2. active' \in Tabs \cup {NoTab}
    BY <1>1, <1>7, DisposeShows
  <2>3. QED
    BY <1>1, <1>2, <1>3, <2>1, <2>2
<1>8. ASSUME NEW s \in Tabs, SelectTab(s) PROVE TabsKept'
  <2>1. status' = status /\ stream' = stream /\ connecting' = connecting /\ active' = s
    BY <1>8 DEF SelectTab, outVars
  <2>2. QED
    BY <1>1, <1>2, <1>4, <2>1
<1>9. ASSUME NEW s \in Tabs, TakeOpen(s) PROVE TabsKept'
  <2>1. CASE UNCHANGED tabState
    BY <1>5, <2>1
  <2>2. CASE Dispose(s)
    BY <1>7, <2>2
  <2>3. CASE /\ status' = [status EXCEPT ![s] = "open"] /\ connecting' = NoTab /\ active' = active
             /\ stream' = [stream EXCEPT ![s].state = "wait"]
    <3>1. stream' = [stream EXCEPT ![s] = [stream[s] EXCEPT !.state = "wait"]]
      BY <2>3
    <3>2. QED
      BY <1>1, <1>2, <1>3, <2>3, <3>1, ZenonT(60)
  <2>4. QED
    BY <1>9, <2>1, <2>2, <2>3 DEF TakeOpen, tabState, outVars
<1>10. ASSUME NEW s \in Tabs, AskOutput(s) PROVE TabsKept'
  <2>1. active' = active /\ connecting' = connecting /\ stream[s].state = "wait"
    BY <1>10 DEF AskOutput
  <2>2. status[s] \in Statuses \ {"new", "connecting"}
    BY <1>1, <2>1
  <2>3. CASE stream' = [stream EXCEPT ![s].state = "live", ![s].tries = @ + 1] /\ status' = status
    <3> DEFINE out == [stream[s] EXCEPT !.state = "live", !.tries = @ + 1]
    <3>1. /\ out \in Streams /\ stream' = [stream EXCEPT ![s] = out]
          /\ status' = [status EXCEPT ![s] = status[s]]
      BY <1>1, <2>3
    <3> HIDE DEF out
    <3>2. QED
      BY <1>1, <1>2, <2>1, <2>2, <3>1
  <2>4. CASE stream' = [stream EXCEPT ![s].state = "over"] /\ status' = [status EXCEPT ![s] = "ended"]
    <3> DEFINE out == [stream[s] EXCEPT !.state = "over"]
    <3>1. stream' = [stream EXCEPT ![s] = out] /\ status' = [status EXCEPT ![s] = "ended"]
      BY <2>4
    <3>2. out \in Streams
      BY <1>3
    <3> HIDE DEF out
    <3>3. QED
      BY <1>1, <1>2, <2>1, <3>1, <3>2
  <2>5. QED
    BY <1>10, <2>3, <2>4 DEF AskOutput
<1>11. ASSUME NEW s \in Tabs, LoseOutput(s) PROVE TabsKept'
  <2>1. /\ active' = active /\ connecting' = connecting /\ status' = status /\ stream[s].state = "live"
        /\ stream' = [stream EXCEPT ![s] = [stream[s] EXCEPT !.state = "wait"]]
    BY <1>11 DEF LoseOutput, tabVars
  <2> DEFINE out == [stream[s] EXCEPT !.state = "wait"]
             st == status[s]
  <2>2. st \in Statuses /\ st \notin {"new", "connecting"} /\ status' = [status EXCEPT ![s] = st]
    BY <1>1, <2>1
  <2>3. out \in Streams
    BY <1>3
  <2>4. stream' = [stream EXCEPT ![s] = out]
    BY <2>1
  <2>5. active' \in Tabs \cup {NoTab} /\ connecting' \in Tabs \cup {NoTab}
    BY <1>1, <2>1
  <2> HIDE DEF out, st, Statuses, Streams
  <2>6. QED
    BY <1>2, <2>2, <2>3, <2>4, <2>5
<1>12. ASSUME NEW s \in Tabs, EndOutput(s) PROVE TabsKept'
  <2>1. /\ active' = active /\ connecting' = connecting /\ status' = [status EXCEPT ![s] = "ended"]
        /\ stream' = [stream EXCEPT ![s] = [stream[s] EXCEPT !.state = "over"]]
    BY <1>12 DEF EndOutput
  <2>2. QED
    BY <1>1, <1>2, <1>3, <2>1
<1>13. QED
  BY TabWriters, <1>5, <1>6, <1>7, <1>8, <1>9, <1>10, <1>11, <1>12 DEF CloseTab

(***************************************************************************)
(* The output.                                                             *)
(***************************************************************************)
\* Who writes what is on its way or shown of the output.
LEMMA OutputWriters ==
  ASSUME TerminalNext
  PROVE  \/ UNCHANGED outVars
         \/ \E s \in Tabs : CloseTab(s) \/ TakeOpen(s) \/ WriteOutput(s) \/ AskOutput(s)
         \/ \E s \in Tabs : SendOutput(s) \/ ReadOutput(s) \/ LoseOutput(s) \/ EndOutput(s)
<1>1. CASE User
  <2>1. ASSUME NEW s \in Tabs,
               Connect(s) \/ SelectTab(s) \/ Type(s)
        PROVE  UNCHANGED outVars
    BY <2>1 DEF Connect, SelectTab, Type, outVars
  <2>2. ASSUME NEW dir \in Dirs,
               LoadDir(dir) \/ LoadTreeNode(dir)
        PROVE  UNCHANGED outVars
    BY <2>2 DEF LoadDir, LoadTreeNode, dirRest, outVars
  <2>3. ASSUME NEW names \in SUBSET Names,
               Refresh \/ ChangeDir \/ DeleteSelected(names)
        PROVE  UNCHANGED outVars
    BY <2>3 DEF Refresh, ChangeDir, DeleteSelected, dirRest, outVars
  <2>4. CASE OpenText
    BY <2>4 DEF OpenText, docRest, outVars
  <2>5. ASSUME NEW s \in Tabs,
               \/ EditText(s, Edited) \/ EditText(s, doc[s].baseline) \/ SaveText(s) \/ CloseText(s)
               \/ WriteFile(s)
        PROVE  UNCHANGED outVars
    BY <2>5 DEF EditText, SaveText, CloseText, WriteFile, docRest, outVars
  <2>6. QED
    BY <1>1, <2>1, <2>2, <2>3, <2>4, <2>5 DEF User
<1>2. CASE Service
  <2>1. ASSUME NEW s \in Tabs,
               ServeOpen(s) \/ TakeLateOpen(s)
        PROVE  UNCHANGED outVars
    BY <2>1 DEF ServeOpen, TakeLateOpen, outVars
  <2>2. ASSUME NEW s \in Tabs,
               ExitShell(s)
        PROVE  UNCHANGED outVars
    BY <2>2 DEF ExitShell, outVars
  <2>3. ASSUME NEW s \in Tabs,
               InputAnswered(s) \/ TextOpened(s) \/ SaveAnswered(s) \/ SaveEnds(s)
        PROVE  UNCHANGED outVars
    BY <2>3 DEF InputAnswered, TextOpened, SaveAnswered, SaveEnds, docRest, outVars
  <2>4. ASSUME NEW l \in listings,
               ServeListing(l) \/ TakeListing(l)
        PROVE  UNCHANGED outVars
    BY <2>4 DEF ServeListing, TakeListing, dirRest, outVars
  <2>5. ASSUME NEW ok \in BOOLEAN,
               ActionEnds \/ RemovalAnswered(ok)
        PROVE  UNCHANGED outVars
    BY <2>5 DEF ActionEnds, RemovalAnswered, dirRest, outVars
  <2>6. QED
    BY <1>2, <2>1, <2>2, <2>3, <2>4, <2>5 DEF Service
<1>3. QED
  BY <1>1, <1>2 DEF TerminalNext

\* What is shown ends where the page's offset is, and what is in the air goes on there.
LEMMA OutputStep ==
  ASSUME TabsKept, OutputKept, TerminalNext
  PROVE  OutputKept'
<1>1. /\ made \in [Tabs -> Nat] /\ at \in [Tabs -> Nat] /\ offset \in [Tabs -> Nat]
      /\ air \in [Tabs -> Seq(Nat)] /\ shown \in [Tabs -> Seq(Nat)] /\ skipped \subseteq Tabs
      /\ stream \in [Tabs -> [state : {"none", "wait", "live", "over"}, tries : Nat]]
      /\ \A s \in Tabs : status[s] \in {"new", "connecting"} => stream[s].state = "none"
      /\ \A s \in Tabs : stream[s].state # "live" => air[s] = <<>>
  BY DEF OutputKept, OutputType, TabsKept
<1>2. \A s \in Tabs \ skipped : OutputOf(s)
  BY DEF OutputKept
\* The output of another tab, or of one whose stream, reader and text are the same.
<1>3. ASSUME NEW s \in Tabs, s \notin skipped, at'[s] = at[s], air'[s] = air[s], offset'[s] = offset[s],
             shown'[s] = shown[s], stream'[s].state = stream[s].state
      PROVE  OutputOf(s)'
  BY <1>2, <1>3 DEF OutputOf
<1>4. ASSUME NEW s \in Tabs, OutputType', stream'[s].state # "live" => air'[s] = <<>>,
             s \notin skipped' => OutputOf(s)', skipped \subseteq skipped',
             \A n \in Tabs \ {s} : /\ at'[n] = at[n] /\ air'[n] = air[n] /\ offset'[n] = offset[n]
                                   /\ shown'[n] = shown[n] /\ stream'[n].state = stream[n].state
      PROVE  OutputKept'
  <2>1. \A n \in Tabs \ {s} : stream'[n].state # "live" => air'[n] = <<>>
    BY <1>1, <1>4
  <2>2. \A n \in Tabs \ skipped' : OutputOf(n)'
    BY <1>3, <1>4
  <2>3. QED
    BY <1>4, <2>1, <2>2 DEF OutputKept
<1>5. CASE UNCHANGED outVars
  BY <1>5 DEF outVars, OutputKept, OutputType, OutputOf
\* The stream is cut off, or waits.
<1>6. ASSUME NEW s \in Tabs, NEW state \in {"wait", "over"}, stream' = [stream EXCEPT ![s].state = state],
             air' = [air EXCEPT ![s] = <<>>], UNCHANGED <<made, at, offset, shown, skipped>>
      PROVE  OutputKept'
  <2>1. stream'[s].state = state /\ \A n \in Tabs \ {s} : stream'[n] = stream[n]
    BY <1>1, <1>6
  <2>2. OutputType'
    BY <1>1, <1>6 DEF OutputType
  <2>3. air'[s] = <<>> /\ \A n \in Tabs \ {s} : air'[n] = air[n]
    BY <1>1, <1>6
  <2>4. s \notin skipped => OutputOf(s)'
    BY <1>2, <1>6, <2>1 DEF OutputOf
  <2>5. QED
    BY <1>4, <1>6, <2>1, <2>2, <2>3, <2>4
<1>7. ASSUME NEW s \in Tabs, CloseTab(s) PROVE OutputKept'
  BY <1>6, <1>7 DEF CloseTab, Dispose, disposeRest
<1>8. ASSUME NEW s \in Tabs, TakeOpen(s) PROVE OutputKept'
  <2>1. CASE UNCHANGED outVars
    BY <1>5, <2>1
  <2>2. CASE Dispose(s) /\ UNCHANGED disposeRest
    BY <1>6, <2>2 DEF Dispose, disposeRest
  <2>3. CASE stream' = [stream EXCEPT ![s].state = "wait"] /\ UNCHANGED <<made, at, air, offset, shown, skipped>>
    <3>1. stream[s].state = "none"
      BY <1>1, <1>8 DEF TakeOpen
    <3>2. air' = [air EXCEPT ![s] = <<>>]
      BY <1>1, <2>3, <3>1
    <3>3. QED
      BY <1>6, <2>3, <3>2
  <2>4. QED
    BY <1>8, <2>1, <2>2, <2>3 DEF TakeOpen
<1>9. ASSUME NEW s \in Tabs, WriteOutput(s) PROVE OutputKept'
  <2>1. made' \in [Tabs -> Nat] /\ UNCHANGED <<stream, at, air, offset, shown, skipped>>
    BY <1>1, <1>9 DEF WriteOutput
  <2>2. OutputType'
    BY <1>1, <2>1 DEF OutputType
  <2>3. QED
    BY <1>4, <1>1, <1>2, <1>3, <1>9, <2>1, <2>2
<1>10. ASSUME NEW s \in Tabs PROVE Base(s) \in Nat
  BY <1>1 DEF Base
<1>11. ASSUME NEW s \in Tabs, AskOutput(s) PROVE OutputKept'
  <2>1. stream[s].state = "wait" /\ UNCHANGED <<made, air, shown, skipped>> /\ air[s] = <<>>
    BY <1>1, <1>11 DEF AskOutput
  <2> DEFINE from == Max({offset[s], Base(s)})
  <2>2. from \in Nat /\ from >= offset[s]
    <3>1. offset[s] \in Nat /\ Base(s) \in Nat
      BY <1>1, <1>10
    <3>2. QED
      BY <3>1, MaxOfTwo
  <2>3. CASE /\ stream' = [stream EXCEPT ![s].state = "live", ![s].tries = @ + 1]
             /\ at' = [at EXCEPT ![s] = from] /\ offset' = [offset EXCEPT ![s] = from]
    <3> HIDE DEF from
    <3>1. stream'[s].state = "live" /\ \A n \in Tabs \ {s} : stream'[n] = stream[n]
      BY <1>1, <2>3
    <3>2. at'[s] = from /\ offset'[s] = from /\ \A n \in Tabs \ {s} : at'[n] = at[n] /\ offset'[n] = offset[n]
      BY <1>1, <2>3
    <3>3. OutputType'
      BY <1>1, <2>1, <2>2, <2>3 DEF OutputType
    <3>4. s \notin skipped => OutputOf(s)'
      <4>1. s \notin skipped => AtMost(shown[s], from)
        BY <1>1, <1>2, <2>2 DEF OutputOf, AtMost
      <4>2. QED
        BY <1>2, <2>1, <2>2, <3>2, <4>1 DEF OutputOf
    <3>5. QED
      BY <1>4, <2>1, <3>1, <3>2, <3>3, <3>4
  <2>4. CASE stream' = [stream EXCEPT ![s].state = "over"] /\ UNCHANGED <<at, offset>>
    <3>1. air' = [air EXCEPT ![s] = <<>>]
      BY <1>1, <2>1
    <3>2. QED
      BY <1>6, <2>1, <2>4, <3>1
  <2>5. QED
    BY <1>11, <2>3, <2>4 DEF AskOutput
<1>12. ASSUME NEW s \in Tabs, SendOutput(s) PROVE OutputKept'
  <2> DEFINE from == Max({at[s], Base(s)})
  <2>1. from \in Nat
    <3>1. at[s] \in Nat /\ Base(s) \in Nat
      BY <1>1, <1>10
    <3>2. QED
      BY <3>1, MaxOfTwo
  <2>2. /\ stream[s].state = "live" /\ UNCHANGED <<made, stream, offset, shown>>
        /\ air' = [air EXCEPT ![s] = Append(air[s], from + 1)] /\ at' = [at EXCEPT ![s] = from + 1]
        /\ skipped' = IF from # at[s] THEN skipped \cup {s} ELSE skipped
    BY <1>12 DEF SendOutput
  <2> HIDE DEF from
  <2>3. OutputType'
    BY <1>1, <2>1, <2>2, SMTT(40) DEF OutputType
  <2>4. /\ air'[s] = Append(air[s], from + 1) /\ at'[s] = from + 1
        /\ \A n \in Tabs \ {s} : at'[n] = at[n] /\ air'[n] = air[n]
    BY <1>1, <2>2
  <2>5. ASSUME s \notin skipped' PROVE OutputOf(s)'
    <3>1. s \notin skipped /\ from = at[s]
      BY <2>2, <2>5
    <3>2. /\ at[s] = offset[s] + Len(air[s]) /\ (\A i \in DOMAIN air[s] : air[s][i] = offset[s] + i)
          /\ Increasing(shown[s]) /\ AtMost(shown[s], offset[s])
      BY <1>2, <2>2, <3>1 DEF OutputOf
    <3> DEFINE longer == Append(air[s], from + 1)
    <3>3. /\ Len(longer) = Len(air[s]) + 1 /\ DOMAIN longer = 1..(Len(air[s]) + 1)
          /\ (\A i \in 1..Len(air[s]) : longer[i] = air[s][i]) /\ longer[Len(air[s]) + 1] = from + 1
      BY <1>1, <2>1
    <3> HIDE DEF longer
    <3>4. at'[s] = offset[s] + Len(longer)
      BY <1>1, <2>4, <3>1, <3>2, <3>3
    <3>5. ASSUME NEW i \in DOMAIN longer PROVE longer[i] = offset[s] + i
      <4>1. DOMAIN air[s] = 1..Len(air[s]) /\ Len(air[s]) \in Nat /\ offset[s] \in Nat
        BY <1>1
      <4>2. CASE i \in 1..Len(air[s])
        BY <3>2, <3>3, <4>1, <4>2
      <4>3. CASE i = Len(air[s]) + 1
        BY <3>1, <3>2, <3>3, <4>1, <4>3
      <4>4. QED
        BY <3>3, <4>1, <4>2, <4>3
    <3>6. air'[s] = longer
      BY <2>4 DEF longer
    <3>7. QED
      BY <2>2, <3>2, <3>4, <3>5, <3>6 DEF OutputOf
  <2>6. QED
    BY <1>4, <2>2, <2>3, <2>4, <2>5
<1>13. ASSUME NEW s \in Tabs, ReadOutput(s) PROVE OutputKept'
  <2>1. /\ air[s] # <<>> /\ stream[s].state = "live" /\ UNCHANGED <<made, stream, at, skipped>>
        /\ shown' = [shown EXCEPT ![s] = Append(shown[s], air[s][1])] /\ air' = [air EXCEPT ![s] = Tail(air[s])]
        /\ offset' = [offset EXCEPT ![s] = offset[s] + 1]
    BY <1>13 DEF ReadOutput
  <2>2. air[s][1] \in Nat /\ Len(air[s]) \in Nat \ {0}
    BY <1>1, <2>1, SMTT(40)
  <2>3. OutputType'
    <3>1. air[s] \in Seq(Nat) /\ shown[s] \in Seq(Nat) /\ offset[s] + 1 \in Nat
      BY <1>1
    <3>2. Tail(air[s]) \in Seq(Nat) /\ Append(shown[s], air[s][1]) \in Seq(Nat)
      BY <2>1, <2>2, <3>1
    <3>3. QED
      BY <1>1, <2>1, <3>1, <3>2 DEF OutputType
  <2>4. /\ air'[s] = Tail(air[s]) /\ shown'[s] = Append(shown[s], air[s][1]) /\ offset'[s] = offset[s] + 1
        /\ \A n \in Tabs \ {s} : air'[n] = air[n] /\ shown'[n] = shown[n] /\ offset'[n] = offset[n]
    BY <1>1, <2>1
  <2>5. ASSUME s \notin skipped' PROVE OutputOf(s)'
    <3>1. /\ at[s] = offset[s] + Len(air[s]) /\ (\A i \in DOMAIN air[s] : air[s][i] = offset[s] + i)
          /\ Increasing(shown[s]) /\ AtMost(shown[s], offset[s])
      BY <1>2, <2>1, <2>5 DEF OutputOf
    <3>2. air[s][1] = offset[s] + 1
      BY <2>2, <3>1
    <3>3. Increasing(shown'[s]) /\ AtMost(shown'[s], offset[s] + 1)
      BY <1>1, <2>4, <3>1, <3>2, AppendIncreases
    <3> DEFINE rest == Tail(air[s])
    <3>4. /\ Len(rest) = Len(air[s]) - 1 /\ DOMAIN rest = 1..(Len(air[s]) - 1)
          /\ \A i \in 1..(Len(air[s]) - 1) : rest[i] = air[s][i + 1]
      BY <1>1, <2>1
    <3> HIDE DEF rest
    <3>5. at[s] = (offset[s] + 1) + Len(rest)
      BY <1>1, <2>2, <3>1, <3>4
    <3>6. \A i \in DOMAIN rest : rest[i] = (offset[s] + 1) + i
      <4> SUFFICES ASSUME NEW i \in 1..(Len(air[s]) - 1) PROVE rest[i] = (offset[s] + 1) + i
        BY <3>4
      <4>1. i + 1 \in 1..Len(air[s]) /\ i \in Nat /\ DOMAIN air[s] = 1..Len(air[s])
        BY <1>1, <2>2
      <4>2. rest[i] = offset[s] + (i + 1)
        BY <3>1, <3>4, <4>1
      <4>3. QED
        BY <1>1, <4>1, <4>2
    <3>7. air'[s] = rest
      BY <2>4 DEF rest
    <3>8. QED
      BY <2>1, <2>4, <3>3, <3>5, <3>6, <3>7 DEF OutputOf
  <2>6. QED
    BY <1>4, <2>1, <2>3, <2>4, <2>5
<1>14. ASSUME NEW s \in Tabs, LoseOutput(s) PROVE OutputKept'
  BY <1>6, <1>14 DEF LoseOutput
<1>15. ASSUME NEW s \in Tabs, EndOutput(s) PROVE OutputKept'
  <2>1. air' = [air EXCEPT ![s] = <<>>]
    BY <1>1, <1>15 DEF EndOutput
  <2>2. QED
    BY <1>6, <1>15, <2>1 DEF EndOutput
<1>16. QED
  BY OutputWriters, <1>5, <1>7, <1>8, <1>9, <1>11, <1>12, <1>13, <1>14, <1>15

(***************************************************************************)
(* The input.                                                              *)
(***************************************************************************)
\* Who writes what is typed, waits, is on its way or arrived.
LEMMA InputWriters ==
  ASSUME TerminalNext
  PROVE  \/ UNCHANGED inVars
         \/ \E s \in Tabs : CloseTab(s) \/ TakeOpen(s) \/ Type(s) \/ InputAnswered(s)
<1>1. CASE User
  <2>1. ASSUME NEW s \in Tabs,
               Connect(s) \/ SelectTab(s)
        PROVE  UNCHANGED inVars
    BY <2>1 DEF Connect, SelectTab, inVars
  <2>2. ASSUME NEW dir \in Dirs,
               LoadDir(dir) \/ LoadTreeNode(dir)
        PROVE  UNCHANGED inVars
    BY <2>2 DEF LoadDir, LoadTreeNode, dirRest, inVars
  <2>3. ASSUME NEW names \in SUBSET Names,
               Refresh \/ ChangeDir \/ DeleteSelected(names)
        PROVE  UNCHANGED inVars
    BY <2>3 DEF Refresh, ChangeDir, DeleteSelected, dirRest, inVars
  <2>4. CASE OpenText
    BY <2>4 DEF OpenText, docRest, inVars
  <2>5. ASSUME NEW s \in Tabs,
               \/ EditText(s, Edited) \/ EditText(s, doc[s].baseline) \/ SaveText(s) \/ CloseText(s)
               \/ WriteFile(s)
        PROVE  UNCHANGED inVars
    BY <2>5 DEF EditText, SaveText, CloseText, WriteFile, docRest, inVars
  <2>6. QED
    BY <1>1, <2>1, <2>2, <2>3, <2>4, <2>5 DEF User
<1>2. CASE Service
  <2>1. ASSUME NEW s \in Tabs,
               ServeOpen(s) \/ TakeLateOpen(s)
        PROVE  UNCHANGED inVars
    BY <2>1 DEF ServeOpen, TakeLateOpen, inVars
  <2>2. ASSUME NEW s \in Tabs,
               \/ WriteOutput(s) \/ ExitShell(s) \/ AskOutput(s) \/ SendOutput(s)
               \/ ReadOutput(s) \/ LoseOutput(s) \/ EndOutput(s)
        PROVE  UNCHANGED inVars
    BY <2>2 DEF WriteOutput, ExitShell, AskOutput, SendOutput, ReadOutput, LoseOutput, EndOutput, inVars
  <2>3. ASSUME NEW s \in Tabs,
               TextOpened(s) \/ SaveAnswered(s) \/ SaveEnds(s)
        PROVE  UNCHANGED inVars
    BY <2>3 DEF TextOpened, SaveAnswered, SaveEnds, docRest, inVars
  <2>4. ASSUME NEW l \in listings,
               ServeListing(l) \/ TakeListing(l)
        PROVE  UNCHANGED inVars
    BY <2>4 DEF ServeListing, TakeListing, dirRest, inVars
  <2>5. ASSUME NEW ok \in BOOLEAN,
               ActionEnds \/ RemovalAnswered(ok)
        PROVE  UNCHANGED inVars
    BY <2>5 DEF ActionEnds, RemovalAnswered, dirRest, inVars
  <2>6. QED
    BY <1>2, <2>1, <2>2, <2>3, <2>4, <2>5 DEF Service
<1>3. QED
  BY <1>1, <1>2 DEF TerminalNext

\* One tab's input changes.
LEMMA InputOfOne ==
  ASSUME InputKept, InputType', NEW s \in Tabs, InputOf(s)',
         \A n \in Tabs \ {s} : /\ typed'[n] = typed[n] /\ pending'[n] = pending[n]
                               /\ sending'[n] = sending[n] /\ got'[n] = got[n]
  PROVE  InputKept'
<1>1. ASSUME NEW n \in Tabs \ {s} PROVE InputOf(n)'
  BY DEF InputKept, InputOf
<1>2. QED
  BY <1>1 DEF InputKept

\* What follows all that was sent is posted, or waits.
LEMMA PostedIsKept ==
  ASSUME InputKept, NEW s \in Tabs, NEW more \in Seq(Nat), NEW s1, Posted(s, more, s1), UNCHANGED got,
         typed' \in [Tabs -> Nat], typed'[s] >= typed[s], \A n \in Tabs \ {s} : typed'[n] = typed[n],
         Increasing(more), AtMost(more, typed'[s]), Before(got[s], more),
         \A chunk \in sending[s] : Before(chunk, more)
  PROVE  InputKept'
<1>1. /\ InputType /\ InputOf(s) /\ typed \in [Tabs -> Nat] /\ pending \in [Tabs -> Seq(Nat)]
      /\ got \in [Tabs -> Seq(Nat)] /\ sending \in [Tabs -> SUBSET Seq(Nat)]
  BY DEF InputKept, InputType
<1>2. AtMost(got[s], typed'[s]) /\ \A chunk \in sending[s] : AtMost(chunk, typed'[s])
  <2>1. ASSUME NEW q \in Seq(Nat), AtMost(q, typed[s]) PROVE AtMost(q, typed'[s])
    BY <1>1, <2>1 DEF AtMost
  <2>2. QED
    BY <1>1, <2>1 DEF InputOf
<1>3. CASE /\ sending[s] = {} /\ sending' = [sending EXCEPT ![s] = {more}]
           /\ pending' = [pending EXCEPT ![s] = <<>>]
  <2>1. InputType'
    BY <1>1, <1>3 DEF InputType
  <2>2. sending'[s] = {more} /\ pending'[s] = <<>>
    BY <1>1, <1>3
  <2>3. InputOf(s)'
    <3>1. \A p : Before(p, <<>>)
      BY DEF Before
    <3>2. Increasing(<<>>) /\ AtMost(<<>>, typed'[s])
      BY DEF Increasing, AtMost
    <3>3. QED
      BY <1>1, <1>2, <2>2, <3>1, <3>2 DEF InputOf
  <2>4. QED
    BY <1>1, <1>3, <2>1, <2>3, InputOfOne
<1>4. CASE pending' = [pending EXCEPT ![s] = more] /\ UNCHANGED sending
  <2>1. InputType'
    BY <1>1, <1>4 DEF InputType
  <2>2. InputOf(s)'
    BY <1>1, <1>2, <1>4 DEF InputOf
  <2>3. QED
    BY <1>1, <1>4, <2>1, <2>2, InputOfOne
<1>5. QED
  BY <1>3, <1>4 DEF Posted

\* A chunk is sent after the last one arrived or failed, with all that was typed since.
LEMMA InputStep ==
  ASSUME InputKept, TerminalNext
  PROVE  InputKept'
<1>1. /\ typed \in [Tabs -> Nat] /\ pending \in [Tabs -> Seq(Nat)] /\ got \in [Tabs -> Seq(Nat)]
      /\ sending \in [Tabs -> SUBSET Seq(Nat)] /\ InputType
      /\ \A s \in Tabs : InputOf(s)
  BY DEF InputKept, InputType
<1>2. CASE UNCHANGED inVars
  BY <1>2 DEF inVars, InputKept, InputType, InputOf
<1>3. Increasing(<<>>) /\ (\A n : AtMost(<<>>, n)) /\ (\A p : Before(p, <<>>))
  BY DEF Increasing, AtMost, Before
<1>4. ASSUME NEW s \in Tabs, pending' = [pending EXCEPT ![s] = <<>>], UNCHANGED <<typed, sending, got>>
      PROVE  InputKept'
  <2>1. InputType'
    BY <1>1, <1>4 DEF InputType
  <2>2. InputOf(s)'
    BY <1>1, <1>3, <1>4 DEF InputOf
  <2>3. QED
    BY <1>1, <1>4, <2>1, <2>2, InputOfOne
<1>5. ASSUME NEW s \in Tabs, CloseTab(s) PROVE InputKept'
  BY <1>4, <1>5 DEF CloseTab, Dispose, disposeRest
<1>6. ASSUME NEW s \in Tabs, TakeOpen(s) PROVE InputKept'
  <2>1. CASE UNCHANGED inVars
    BY <1>2, <2>1
  <2>2. CASE Dispose(s) /\ UNCHANGED disposeRest
    BY <1>4, <2>2 DEF Dispose, disposeRest
  <2>3. CASE Posted(s, pending[s], "open") /\ UNCHANGED <<typed, got>>
    <3>1. pending[s] \in Seq(Nat) /\ typed[s] >= typed[s]
      BY <1>1
    <3>2. /\ Increasing(pending[s]) /\ AtMost(pending[s], typed[s]) /\ Before(got[s], pending[s])
          /\ \A chunk \in sending[s] : Before(chunk, pending[s])
      BY <1>1 DEF InputOf
    <3>3. QED
      BY <1>1, <2>3, <3>1, <3>2, PostedIsKept
  <2>4. QED
    BY <1>6, <2>1, <2>2, <2>3 DEF TakeOpen
<1>7. ASSUME NEW s \in Tabs, Type(s) PROVE InputKept'
  <2> DEFINE n == typed[s]
             more == Append(pending[s], n + 1)
  <2>1. n \in Nat /\ typed' = [typed EXCEPT ![s] = n + 1] /\ UNCHANGED got /\ typed'[s] = n + 1
    BY <1>1, <1>7 DEF Type
  <2>2. Posted(s, more, status[s])
    BY <1>7, <2>1 DEF Type
  <2>3. pending[s] \in Seq(Nat) /\ Increasing(pending[s]) /\ AtMost(pending[s], n)
    BY <1>1 DEF InputOf
  <2>4. more \in Seq(Nat) /\ Increasing(more) /\ AtMost(more, n + 1)
    BY <2>1, <2>3, AppendIncreases
  <2>5. ASSUME NEW q \in Seq(Nat), AtMost(q, n), Before(q, pending[s]) PROVE Before(q, more)
    BY <2>1, <2>3, <2>5, AppendFollows
  <2>6. Before(got[s], more) /\ \A chunk \in sending[s] : Before(chunk, more)
    BY <1>1, <2>5 DEF InputOf
  <2> HIDE DEF more
  <2>7. typed' \in [Tabs -> Nat] /\ typed'[s] >= typed[s] /\ \A m \in Tabs \ {s} : typed'[m] = typed[m]
    BY <1>1, <2>1
  <2>8. AtMost(more, typed'[s])
    BY <2>1, <2>4
  <2>9. QED
    BY <2>1, <2>2, <2>4, <2>6, <2>7, <2>8, PostedIsKept
<1>8. ASSUME NEW s \in Tabs, InputAnswered(s) PROVE InputKept'
  <2>1. PICK chunk \in sending[s] :
          /\ got' = [got EXCEPT ![s] = IF shell[s] = "alive" THEN got[s] \o chunk ELSE got[s]]
          /\ IF pending[s] # <<>> /\ status[s] # "closed"
             THEN sending' = [sending EXCEPT ![s] = (sending[s] \ {chunk}) \cup {pending[s]}] /\ pending' = [pending EXCEPT ![s] = <<>>]
             ELSE sending' = [sending EXCEPT ![s] = sending[s] \ {chunk}] /\ UNCHANGED pending
          /\ UNCHANGED typed
    BY <1>8 DEF InputAnswered
  <2>2. /\ InputOf(s) /\ got[s] \in Seq(Nat) /\ chunk \in Seq(Nat) /\ pending[s] \in Seq(Nat)
        /\ sending[s] = {chunk} /\ Before(got[s], chunk) /\ Before(chunk, pending[s])
        /\ Increasing(got[s]) /\ Increasing(chunk) /\ Before(got[s], pending[s])
        /\ AtMost(got[s], typed[s]) /\ AtMost(chunk, typed[s])
        /\ Increasing(pending[s]) /\ AtMost(pending[s], typed[s])
    BY <1>1, <2>1 DEF InputOf
  <2> DEFINE both == got[s] \o chunk
  <2>3. both \in Seq(Nat) /\ Increasing(both)
    BY <2>2, ConcatIncreases
  <2>4. AtMost(both, typed[s]) /\ Before(both, pending[s])
    BY <2>2, ConcatBounded
  <2> HIDE DEF both
  <2>5. got'[s] \in {got[s], both} /\ got' \in [Tabs -> Seq(Nat)]
    BY <1>1, <2>1, <2>2, <2>3 DEF both
  <2>6. Increasing(got'[s]) /\ AtMost(got'[s], typed[s]) /\ Before(got'[s], pending[s])
    BY <2>2, <2>3, <2>4, <2>5
  <2>7. CASE /\ sending' = [sending EXCEPT ![s] = (sending[s] \ {chunk}) \cup {pending[s]}]
             /\ pending' = [pending EXCEPT ![s] = <<>>]
    <3>1. sending'[s] = {pending[s]} /\ pending'[s] = <<>>
      BY <1>1, <2>2, <2>7
    <3>2. InputType'
      <4>1. (sending[s] \ {chunk}) \cup {pending[s]} \in SUBSET Seq(Nat) /\ <<>> \in Seq(Nat)
        BY <1>1, <2>2
      <4> DEFINE rest == (sending[s] \ {chunk}) \cup {pending[s]}
      <4>2. rest \in SUBSET Seq(Nat) /\ sending' = [sending EXCEPT ![s] = rest]
        BY <2>7, <4>1
      <4> HIDE DEF rest
      <4>3. QED
        BY <1>1, <2>1, <2>5, <2>7, <4>1, <4>2 DEF InputType
    <3>3. InputOf(s)'
      BY <1>3, <2>1, <2>2, <2>6, <3>1 DEF InputOf
    <3>4. QED
      BY <1>1, <2>1, <2>7, <3>2, <3>3, InputOfOne
  <2>8. CASE sending' = [sending EXCEPT ![s] = sending[s] \ {chunk}] /\ UNCHANGED pending
    <3>1. sending'[s] = {}
      BY <1>1, <2>2, <2>8
    <3>2. InputType'
      BY <1>1, <2>1, <2>5, <2>8 DEF InputType
    <3>3. InputOf(s)'
      BY <2>1, <2>2, <2>6, <2>8, <3>1 DEF InputOf
    <3>4. QED
      BY <1>1, <2>1, <2>8, <3>2, <3>3, InputOfOne
  <2>9. QED
    BY <2>1, <2>7, <2>8
<1>9. QED
  BY InputWriters, <1>2, <1>5, <1>6, <1>7, <1>8

(***************************************************************************)
(* The directories and the tree.                                           *)
(***************************************************************************)
\* Who writes what is listed or asked for.
LEMMA DirWriters ==
  ASSUME TerminalNext
  PROVE  \/ UNCHANGED dirVars
         \/ \E s \in Tabs : CloseTab(s) \/ TakeOpen(s) \/ SaveAnswered(s)
         \/ \E dir \in Dirs : LoadDir(dir) \/ LoadTreeNode(dir)
         \/ Refresh
         \/ \E l \in listings : ServeListing(l) \/ TakeListing(l)
         \/ ActionEnds \/ \E ok \in BOOLEAN : RemovalAnswered(ok)
<1>1. CASE User
  <2>1. ASSUME NEW s \in Tabs,
               Connect(s) \/ SelectTab(s) \/ Type(s)
        PROVE  UNCHANGED dirVars
    BY <2>1 DEF Connect, SelectTab, Type, dirVars
  <2>2. ASSUME NEW names \in SUBSET Names,
               ChangeDir \/ DeleteSelected(names)
        PROVE  UNCHANGED dirVars
    BY <2>2 DEF ChangeDir, DeleteSelected, dirRest, dirVars
  <2>3. CASE OpenText
    BY <2>3 DEF OpenText, docRest, dirVars
  <2>4. ASSUME NEW s \in Tabs,
               \/ EditText(s, Edited) \/ EditText(s, doc[s].baseline) \/ SaveText(s) \/ CloseText(s)
               \/ WriteFile(s)
        PROVE  UNCHANGED dirVars
    BY <2>4 DEF EditText, SaveText, CloseText, WriteFile, docRest, dirVars
  <2>5. QED
    BY <1>1, <2>1, <2>2, <2>3, <2>4 DEF User
<1>2. CASE Service
  <2>1. ASSUME NEW s \in Tabs,
               ServeOpen(s) \/ TakeLateOpen(s)
        PROVE  UNCHANGED dirVars
    BY <2>1 DEF ServeOpen, TakeLateOpen, dirVars
  <2>2. ASSUME NEW s \in Tabs,
               \/ WriteOutput(s) \/ ExitShell(s) \/ AskOutput(s) \/ SendOutput(s)
               \/ ReadOutput(s) \/ LoseOutput(s) \/ EndOutput(s)
        PROVE  UNCHANGED dirVars
    BY <2>2 DEF WriteOutput, ExitShell, AskOutput, SendOutput, ReadOutput, LoseOutput, EndOutput, dirVars
  <2>3. ASSUME NEW s \in Tabs,
               InputAnswered(s) \/ TextOpened(s) \/ SaveEnds(s)
        PROVE  UNCHANGED dirVars
    BY <2>3 DEF InputAnswered, TextOpened, SaveEnds, docRest, dirVars
  <2>4. QED
    BY <1>2, <2>1, <2>2, <2>3 DEF Service
<1>3. QED
  BY <1>1, <1>2 DEF TerminalNext

\* The tree of a tab is cleared, as Refresh does.
Clears(s) ==
  /\ epoch' = [epoch EXCEPT ![s] = @ + 1]
  /\ tree' = [tree EXCEPT ![s] = [d \in Dirs |-> NotListed]]
KeepsTree == UNCHANGED <<epoch, tree>>

\* A directory is asked for: of those asked for before, none is the last of its tab.
\* The tree of the tab is kept, or cleared with what was known of its time.
LEMMA LoadsDirIsKept ==
  ASSUME TreeKept, NEW s \in Tabs, NEW dir \in Dirs, NEW saved \in BOOLEAN, LoadsDir(s, dir, saved),
         UNCHANGED cwd, KeepsTree \/ Clears(s)
  PROVE  TreeKept'
<1>1. dirRequest \in [Tabs -> Nat] /\ epoch \in [Tabs -> Nat]
  BY DEF TreeKept, TreeType
<1>2. TreeIsFresh /\ tree \in [Tabs -> [Dirs -> Node]]
  BY DEF TreeKept, TreeType
<1>3. listings \subseteq ListingType /\ \A l \in listings : ListingFits(l)
  BY DEF TreeKept, TreeType
<1>4. cwd' = cwd /\ (KeepsTree \/ Clears(s))
  OBVIOUS
<1> DEFINE new == Listed(s, dir, "dir", saved)
<1>5. /\ dirRequest' = [dirRequest EXCEPT ![s] = dirRequest[s] + 1] /\ UNCHANGED treeRequests
      /\ listings' = listings \cup {new}
  BY DEF LoadsDir
<1>6. /\ dirRequest' \in [Tabs -> Nat] /\ dirRequest'[s] = dirRequest[s] + 1
      /\ \A n \in Tabs \ {s} : dirRequest'[n] = dirRequest[n]
  BY <1>1, <1>5
<1>7. epoch' \in [Tabs -> Nat] /\ \A n \in Tabs \ {s} : epoch'[n] = epoch[n]
  <2>1. CASE KeepsTree
    BY <1>1, <2>1 DEF KeepsTree
  <2>2. CASE Clears(s)
    BY <1>1, <2>2 DEF Clears
  <2>3. QED
    BY <1>4, <2>1, <2>2
<1>8. /\ new \in ListingType /\ new.tab = s /\ new.kind = "dir" /\ new.request = dirRequest'[s]
      /\ new.epoch = epoch'[s]
  BY <1>6, <1>7 DEF Listed, ListingType
<1> HIDE DEF new
<1>9. ASSUME NEW l, l = new PROVE ListingFits(l)'
  BY <1>6, <1>8, <1>9 DEF ListingFits
<1>10. ASSUME NEW l \in listings PROVE ListingFits(l)'
  <2>1. l.tab \in Tabs /\ l.request \in Nat /\ ListingFits(l)
    BY <1>3 DEF ListingType
  <2>2. CASE l.tab = s
    BY <1>1, <1>6, <2>1, <2>2 DEF ListingFits
  <2>3. CASE l.tab # s
    BY <1>6, <1>7, <2>1, <2>3 DEF ListingFits
  <2>4. QED
    BY <2>2, <2>3
<1>11. tree' \in [Tabs -> [Dirs -> Node]] /\ TreeIsFresh'
  <2>1. CASE KeepsTree
    BY <1>2, <2>1 DEF TreeIsFresh, KeepsTree
  <2>2. CASE Clears(s)
    <3>1. NotListed \in Node /\ NotListed.list = "missing"
      BY DEF NotListed, Node
    <3>2. /\ tree' \in [Tabs -> [Dirs -> Node]]
          /\ \A n \in Tabs, d \in Dirs : tree'[n][d] = IF n = s THEN NotListed ELSE tree[n][d]
      BY <1>2, <2>2, <3>1 DEF Clears
    <3>3. ASSUME NEW n \in Tabs, NEW d \in Dirs
          PROVE  /\ tree'[n][d].list # "missing" => tree'[n][d].epoch = epoch'[n]
                 /\ tree'[n][d].list = "partial" =>
                      d = Root /\ \E below \in Dirs \ {Root} : tree'[n][below].list = "listed"
      <4>1. CASE n = s
        BY <3>1, <3>2, <4>1
      <4>2. CASE n # s
        <5>1. (\A b \in Dirs : tree'[n][b] = tree[n][b]) /\ epoch'[n] = epoch[n]
          BY <1>7, <3>2, <4>2
        <5>2. QED
          BY <1>2, <5>1 DEF TreeIsFresh
      <4>3. QED
        BY <4>1, <4>2
    <3>4. TreeIsFresh'
      BY <3>3 DEF TreeIsFresh
    <3>5. QED
      BY <3>2, <3>4
  <2>3. QED
    BY <1>4, <2>1, <2>2
<1>12. TreeType'
  BY <1>4, <1>5, <1>6, <1>7, <1>8, <1>11 DEF TreeType, TreeKept
<1>13. QED
  BY <1>5, <1>9, <1>10, <1>11, <1>12 DEF TreeKept

\* Listings come to an end, and nodes of the tree are asked for.
LEMMA TreeNodesAreKept ==
  ASSUME TreeKept, treeRequests' \in [Tabs -> [Dirs -> Nat]], UNCHANGED <<dirRequest, epoch, tree, cwd>>,
         listings' \subseteq ListingType,
         \A l \in listings' : l \in listings \/ l.kind = "tree"
  PROVE  TreeKept'
<1>1. TreeType' /\ TreeIsFresh'
  BY DEF TreeKept, TreeType, TreeIsFresh
<1>2. ASSUME NEW l \in listings' PROVE ListingFits(l)'
  BY DEF TreeKept, ListingFits
<1>3. QED
  BY <1>1, <1>2 DEF TreeKept

\* What is shown is listed, or nothing is.
LEMMA ListShownIsKept ==
  ASSUME TreeKept, active \in Tabs \cup {NoTab}, ListShown, UNCHANGED <<cwd, tree>>
  PROVE  TreeKept'
<1> DEFINE dir == IF cwd[active] = "" THEN Home ELSE cwd[active]
<1>1. CASE active # NoTab /\ LoadsDir(active, dir, FALSE)
  <2>1. active \in Tabs /\ dir \in Dirs /\ KeepsTree
    BY <1>1 DEF ListShown, TreeKept, TreeType, KeepsTree
  <2> HIDE DEF dir
  <2>2. QED
    BY <1>1, <2>1, LoadsDirIsKept
<1>2. CASE UNCHANGED <<dirRequest, treeRequests, listings>>
  BY <1>2, TreeNodesAreKept DEF ListShown, TreeKept, TreeType
<1>3. QED
  BY <1>1, <1>2 DEF ListShown

\* What comes in of a directory or a node is of the tree as it was last cleared.
LEMMA TreeStep ==
  ASSUME Kept, TerminalNext
  PROVE  TreeKept'
<1>1. /\ TreeKept /\ listings \subseteq ListingType /\ dirRequest \in [Tabs -> Nat] /\ epoch \in [Tabs -> Nat]
      /\ treeRequests \in [Tabs -> [Dirs -> Nat]] /\ cwd \in [Tabs -> Dirs \cup {""}]
      /\ tree \in [Tabs -> [Dirs -> Node]]
      /\ (\A l \in listings : ListingFits(l)) /\ TreeIsFresh
      /\ active \in Tabs \cup {NoTab}
  BY DEF Kept, TreeKept, TreeType, TabsKept
<1>2. CASE UNCHANGED dirVars
  BY <1>1, <1>2, TreeNodesAreKept DEF dirVars
<1>3. ASSUME NEW s \in Tabs, Dispose(s) /\ UNCHANGED disposeRest PROVE TreeKept'
  BY <1>1, <1>3, TreeNodesAreKept DEF Dispose, disposeRest
<1>4. ASSUME NEW s \in Tabs, TakeOpen(s) PROVE TreeKept'
  <2>1. CASE UNCHANGED dirVars
    BY <1>2, <2>1
  <2>2. CASE LoadsDir(s, Home, FALSE) /\ UNCHANGED <<epoch, cwd, tree>>
    BY <1>1, <2>2, LoadsDirIsKept DEF KeepsTree
  <2>3. QED
    BY <1>3, <1>4, <2>1, <2>2 DEF TakeOpen, LoadsDir
<1>5. ASSUME NEW s \in Tabs, SaveAnswered(s) PROVE TreeKept'
  <2>1. UNCHANGED <<epoch, cwd, tree>> /\ doc[s].saving # "no"
    BY <1>5 DEF SaveAnswered
  <2>2. doc[s].dir \in Dirs
    BY <2>1 DEF Kept, TextsHaveDirs
  <2>3. CASE LoadsDir(s, cwd[s], TRUE) /\ doc[s].dir = cwd[s]
    BY <1>1, <2>1, <2>2, <2>3, LoadsDirIsKept DEF KeepsTree
  <2>4. CASE UNCHANGED <<dirRequest, treeRequests, listings>>
    BY <1>1, <2>1, <2>4, TreeNodesAreKept
  <2>5. QED
    BY <1>5, <2>3, <2>4 DEF SaveAnswered
<1>6. ASSUME NEW dir \in Dirs, LoadDir(dir) PROVE TreeKept'
  <2>1. active \in Tabs /\ LoadsDir(active, dir, FALSE) /\ UNCHANGED <<epoch, cwd, tree>>
    BY <1>1, <1>6 DEF LoadDir, Usable
  <2>2. QED
    BY <1>1, <2>1, LoadsDirIsKept DEF KeepsTree, Clears
<1>7. CASE Refresh
  <2>1. /\ active \in Tabs /\ LoadsDir(active, cwd[active], FALSE) /\ UNCHANGED cwd /\ cwd[active] \in Dirs
        /\ epoch' = [epoch EXCEPT ![active] = @ + 1]
        /\ tree' = [tree EXCEPT ![active] = [d \in Dirs |-> NotListed]]
    BY <1>1, <1>7 DEF Refresh, Usable
  <2>2. QED
    BY <1>1, <2>1, LoadsDirIsKept DEF KeepsTree, Clears
<1>8. ASSUME NEW dir \in Dirs, LoadTreeNode(dir) PROVE TreeKept'
  <2>1. /\ active \in Tabs /\ UNCHANGED <<epoch, dirRequest, cwd, tree>>
        /\ treeRequests' = [treeRequests EXCEPT ![active][dir] = @ + 1]
        /\ listings' = listings \cup {Listed(active, dir, "tree", FALSE)}
    BY <1>1, <1>8 DEF LoadTreeNode, Usable
  <2> DEFINE counted == [treeRequests[active] EXCEPT ![dir] = treeRequests[active][dir] + 1]
  <2>2. treeRequests' \in [Tabs -> [Dirs -> Nat]]
    <3>1. active \in Tabs /\ treeRequests \in [Tabs -> [Dirs -> Nat]]
      BY <1>1, <2>1
    <3>2. treeRequests' = [treeRequests EXCEPT ![active] = counted]
      BY <2>1
    <3>3. counted \in [Dirs -> Nat]
      <4>1. treeRequests[active] \in [Dirs -> Nat]
        BY <3>1
      <4>2. QED
        BY <4>1
    <3> HIDE DEF counted
    <3>4. QED
      BY <3>1, <3>2, <3>3
  <2>3. Listed(active, dir, "tree", FALSE) \in ListingType /\ Listed(active, dir, "tree", FALSE).kind = "tree"
    BY <1>1, <2>1, <2>2, ZenonT(60) DEF Listed, ListingType
  <2>4. QED
    BY <1>1, <2>1, <2>2, <2>3, TreeNodesAreKept
<1>9. ASSUME NEW l \in listings, ServeListing(l) PROVE TreeKept'
  <2>1. UNCHANGED <<dirRequest, cwd, epoch, treeRequests, tree>>
    BY <1>9 DEF ServeListing
  <2>2. CASE listings' = listings \ {l}
    BY <1>1, <2>1, <2>2, TreeNodesAreKept
  <2>3. CASE listings' = (listings \ {l}) \cup {[l EXCEPT !.answered = TRUE]}
    <3> DEFINE served == [l EXCEPT !.answered = TRUE]
    <3>1. /\ served \in ListingType /\ served.tab = l.tab /\ served.kind = l.kind /\ served.request = l.request
          /\ served.epoch = l.epoch
      BY <1>1 DEF ListingType
    <3> HIDE DEF served
    <3>2. listings' \subseteq listings \cup {served}
      BY <2>3 DEF served
    <3>3. ListingFits(l)
      BY <1>1
    <3>4. ListingFits(served)'
      BY <2>1, <3>1, <3>3 DEF ListingFits
    <3>5. \A m \in listings : ListingFits(m)'
      BY <1>1, <2>1 DEF ListingFits
    <3>6. TreeType' /\ TreeIsFresh'
      <4>1. TreeIsFresh'
        BY <1>1, <2>1 DEF TreeIsFresh
      <4>2. listings' \subseteq ListingType
        BY <1>1, <3>1, <3>2
      <4>3. TreeType'
        BY <1>1, <2>1, <4>2 DEF TreeType
      <4>4. QED
        BY <4>1, <4>3
    <3>7. QED
      BY <3>2, <3>4, <3>5, <3>6 DEF TreeKept
  <2>4. QED
    BY <1>9, <2>2, <2>3 DEF ServeListing
<1>10. ASSUME NEW l \in listings, TakeListing(l) PROVE TreeKept'
  <2>1. CASE listings' = listings \ {l} /\ UNCHANGED <<epoch, dirRequest, treeRequests, tree, cwd>>
    BY <1>1, <2>1, TreeNodesAreKept
  <2>2. CASE Current(l)
    <3> DEFINE root == RootIsMissing(l)
               asked == IF l.kind # "dir" THEN {} ELSE IF root THEN {l.dir, Root} ELSE {l.dir}
               counted == [d \in Dirs |-> IF d \in asked THEN treeRequests[l.tab][d] + 1 ELSE treeRequests[l.tab][d]]
               new == Listed(l.tab, Root, "tree", l.saved)
    <3>1. /\ UNCHANGED <<epoch, dirRequest>> /\ treeRequests' = [treeRequests EXCEPT ![l.tab] = counted]
          /\ listings' = (listings \ {l}) \cup (IF root THEN {new} ELSE {})
          /\ tree' = [tree EXCEPT ![l.tab] = TreeWith(l)]
          /\ cwd' = [cwd EXCEPT ![l.tab] = l.dir] \/ cwd' = cwd
      BY <1>10, <2>2 DEF TakeListing
    <3>2. /\ l.tab \in Tabs /\ l.dir \in Dirs /\ l.epoch \in Nat /\ l.kind \in {"dir", "tree"}
          /\ l.saved \in BOOLEAN
      BY <1>1 DEF ListingType
    <3>3. l.epoch = epoch[l.tab]
      BY <1>1, <2>2, <3>2 DEF Current, ListingFits
    <3>4. counted \in [Dirs -> Nat]
      <4>1. \A d \in Dirs : treeRequests[l.tab][d] \in Nat
        BY <1>1, <3>2
      <4> HIDE DEF asked
      <4>2. QED
        BY <4>1
    <3> HIDE DEF counted, root
    <3>5. treeRequests' \in [Tabs -> [Dirs -> Nat]] /\ treeRequests'[l.tab][Root] \in Nat
      BY <1>1, <3>1, <3>2, <3>4
    <3>6. new \in ListingType /\ new.kind = "tree"
      BY <1>1, <3>1, <3>2, <3>5 DEF Listed, ListingType
    <3> HIDE DEF new
    <3>7. listings' \subseteq listings \cup {new}
      BY <3>1
    <3>8. \A m \in listings' : ListingFits(m)'
      BY <1>1, <3>1, <3>6, <3>7 DEF ListingFits
    <3>9. /\ Listing(l) \in Node /\ Listing(l).epoch = epoch[l.tab] /\ Listing(l).list = "listed"
          /\ Partial(l) \in Node /\ Partial(l).epoch = epoch[l.tab] /\ Partial(l).list = "partial"
      BY <3>2, <3>3 DEF Listing, Partial, Node
    <3>10. /\ TreeWith(l) \in [Dirs -> Node]
           /\ \A d \in Dirs : \/ d = l.dir /\ TreeWith(l)[d] = Listing(l)
                              \/ d = Root /\ l.dir # Root /\ TreeWith(l)[d] = Partial(l)
                              \/ d # l.dir /\ TreeWith(l)[d] = tree[l.tab][d]
      <4>1. \A d \in Dirs : tree[l.tab][d] \in Node
        BY <1>1, <3>2
      <4>2. QED
        BY <3>9, <4>1 DEF TreeWith, RootIsMissing
    <3>11. /\ tree' \in [Tabs -> [Dirs -> Node]] /\ tree'[l.tab] = TreeWith(l)
           /\ \A n \in Tabs \ {l.tab} : tree'[n] = tree[n]
      BY <1>1, <3>1, <3>2, <3>10
    <3>12. TreeIsFresh'
      <4>1. ASSUME NEW n \in Tabs, NEW d \in Dirs
            PROVE  /\ tree'[n][d].list # "missing" => tree'[n][d].epoch = epoch[n]
                   /\ tree'[n][d].list = "partial" =>
                        d = Root /\ \E below \in Dirs \ {Root} : tree'[n][below].list = "listed"
        <5>1. /\ tree[n][d].list # "missing" => tree[n][d].epoch = epoch[n]
              /\ tree[n][d].list = "partial" =>
                   d = Root /\ \E below \in Dirs \ {Root} : tree[n][below].list = "listed"
          BY <1>1 DEF TreeIsFresh
        <5>2. CASE n # l.tab
          BY <3>11, <5>1, <5>2
        <5>3. CASE n = l.tab /\ TreeWith(l)[d] = Listing(l)
          BY <3>9, <3>11, <5>3
        <5>4. CASE n = l.tab /\ d = Root /\ l.dir # Root /\ TreeWith(l)[d] = Partial(l)
          <6>1. TreeWith(l)[l.dir].list = "listed" /\ l.dir \in Dirs \ {Root}
            BY <3>2, <3>9, <5>4 DEF TreeWith
          <6>2. tree'[n][l.dir].list = "listed" /\ tree'[n][d].epoch = epoch[n] /\ d = Root
            BY <3>9, <3>11, <5>4, <6>1
          <6>3. QED
            BY <6>1, <6>2
        <5>5. CASE n = l.tab /\ d # l.dir /\ TreeWith(l)[d] = tree[l.tab][d]
          <6>1. \A b \in Dirs \ {Root} : tree[n][b].list = "listed" => TreeWith(l)[b].list = "listed"
            BY <3>9, <3>10, <5>5
          <6>2. QED
            BY <3>11, <5>1, <5>5, <6>1
        <5>6. QED
          BY <3>10, <5>2, <5>3, <5>4, <5>5
      <4>2. QED
        BY <3>1, <4>1 DEF TreeIsFresh
    <3>13. cwd' \in [Tabs -> Dirs \cup {""}]
      BY <1>1, <3>1, <3>2
    <3>14. TreeType'
      BY <1>1, <3>1, <3>5, <3>6, <3>7, <3>11, <3>13 DEF TreeType
    <3>15. QED
      BY <3>8, <3>14, <3>12 DEF TreeKept
  <2>3. QED
    BY <1>10, <2>1, <2>2 DEF TakeListing
<1>11. CASE ActionEnds
  <2>1. CASE ListShown /\ UNCHANGED <<cwd, tree>>
    BY <1>1, <2>1, ListShownIsKept
  <2>2. CASE UNCHANGED <<epoch, dirRequest, treeRequests, listings, cwd, tree>>
    BY <1>1, <2>2, TreeNodesAreKept
  <2>3. QED
    BY <1>11, <2>1, <2>2 DEF ActionEnds
<1>12. ASSUME NEW ok \in BOOLEAN, RemovalAnswered(ok) PROVE TreeKept'
  <2>1. CASE ListShown /\ UNCHANGED <<cwd, tree>>
    BY <1>1, <2>1, ListShownIsKept
  <2>2. CASE UNCHANGED <<epoch, dirRequest, treeRequests, listings, cwd, tree>>
    BY <1>1, <2>2, TreeNodesAreKept
  <2>3. QED
    BY <1>12, <2>1, <2>2 DEF RemovalAnswered
<1>13. QED
  BY DirWriters, <1>2, <1>3, <1>4, <1>5, <1>6, <1>7, <1>8, <1>9, <1>10, <1>11, <1>12 DEF CloseTab

\* A text is opened in the directory that its tab shows.
LEMMA TextsHaveDirsStep ==
  ASSUME Kept, TerminalNext
  PROVE  TextsHaveDirs'
<1>1. /\ cwd \in [Tabs -> Dirs \cup {""}] /\ doc \in [Tabs -> Doc]
      /\ active \in Tabs \cup {NoTab} /\ TextsHaveDirs
  BY DEF Kept, TreeKept, TreeType, DocsKept, DocsType, TabsKept
\* One text becomes d, which has a directory if it is there at all.
<1>2. ASSUME NEW s \in Tabs, NEW d, doc' = [doc EXCEPT ![s] = d],
             d.state # "none" \/ d.saving # "no" \/ d.dirty => d.dir \in Dirs
      PROVE  TextsHaveDirs'
  BY <1>1, <1>2 DEF TextsHaveDirs
<1>3. NoDoc.state = "none" /\ NoDoc.saving = "no" /\ ~NoDoc.dirty
  BY DEF NoDoc
<1>4. CASE UNCHANGED doc
  BY <1>1, <1>4 DEF TextsHaveDirs
<1>5. ASSUME NEW s \in Tabs, doc' = [doc EXCEPT ![s] = NoDoc] PROVE TextsHaveDirs'
  BY <1>2, <1>3, <1>5
<1>6. ASSUME NEW s \in Tabs, CloseTab(s) \/ TakeOpen(s) \/ CloseText(s) \/ WriteFile(s) PROVE TextsHaveDirs'
  <2>1. doc' = [doc EXCEPT ![s] = NoDoc] \/ UNCHANGED doc
    BY <1>6 DEF CloseTab, TakeOpen, Dispose, CloseText, WriteFile, docVars
  <2>2. QED
    BY <1>4, <1>5, <2>1
\* The text is there already and keeps its directory.
<1>7. ASSUME NEW s \in Tabs, NEW d \in Doc, doc' = [doc EXCEPT ![s] = d], d.dir = doc[s].dir,
             doc[s].state # "none" \/ doc[s].saving # "no"
      PROVE  TextsHaveDirs'
  BY <1>1, <1>2, <1>7 DEF TextsHaveDirs
<1>8. ASSUME NEW s \in Tabs, TextOpened(s) PROVE TextsHaveDirs'
  <2> DEFINE d == [doc[s] EXCEPT !.state = "open", !.text = file[s], !.baseline = file[s], !.etag = file[s]]
  <2>1. d \in Doc /\ d.dir = doc[s].dir
    BY <1>1 DEF Kept, DocsKept, DocsType, Doc
  <2>2. (doc' = [doc EXCEPT ![s] = d] \/ doc' = [doc EXCEPT ![s] = NoDoc]) /\ doc[s].state = "opening"
    BY <1>8 DEF TextOpened
  <2> HIDE DEF d
  <2>3. QED
    BY <1>5, <1>7, <2>1, <2>2
<1>9. ASSUME NEW s \in Tabs, SaveAnswered(s) \/ SaveEnds(s) PROVE TextsHaveDirs'
  <2>1. ASSUME NEW saving \in {"no", "listing"}
        PROVE  /\ [doc[s] EXCEPT !.saving = saving] \in Doc /\ [doc[s] EXCEPT !.saving = saving].dir = doc[s].dir
               /\ [Saved(doc[s]) EXCEPT !.saving = saving] \in Doc
               /\ [Saved(doc[s]) EXCEPT !.saving = saving].dir = doc[s].dir
    <3>1. Saved(doc[s]) \in Doc /\ Saved(doc[s]).dir = doc[s].dir
      BY <1>1 DEF Saved, Doc
    <3>2. ASSUME NEW d \in Doc PROVE [d EXCEPT !.saving = saving] \in Doc /\ [d EXCEPT !.saving = saving].dir = d.dir
      BY DEF Doc
    <3>3. QED
      BY <1>1, <3>1, <3>2
  <2>2. doc[s].saving # "no"
    BY <1>9 DEF SaveAnswered, SaveEnds
  <2>3. PICK d \in Doc : d.dir = doc[s].dir /\ doc' = [doc EXCEPT ![s] = d]
    BY <1>9, <2>1 DEF SaveAnswered, SaveEnds
  <2>4. QED
    BY <1>7, <2>2, <2>3
<1>10. CASE OpenText
  <2> DEFINE d == [doc[active] EXCEPT !.state = "opening", !.dir = cwd[active]]
  <2>1. active \in Tabs /\ doc' = [doc EXCEPT ![active] = d] /\ cwd[active] \in Dirs
    BY <1>1, <1>10 DEF OpenText, Usable
  <2>2. d.dir = cwd[active]
    BY <1>1, <2>1 DEF Doc
  <2> HIDE DEF d
  <2>3. QED
    BY <1>2, <2>1, <2>2
<1>11. ASSUME NEW s \in Tabs, EditText(s, Edited) \/ EditText(s, doc[s].baseline) PROVE TextsHaveDirs'
  <2>1. PICK text : EditText(s, text)
    BY <1>11
  <2> DEFINE d == [doc[s] EXCEPT !.text = text, !.dirty = text # doc[s].baseline]
  <2>2. d.dir = doc[s].dir
    BY <1>1 DEF Doc
  <2>3. doc' = [doc EXCEPT ![s] = d] /\ doc[s].state = "open"
    BY <2>1 DEF EditText
  <2> HIDE DEF d
  <2>4. QED
    BY <1>1, <1>2, <2>2, <2>3 DEF TextsHaveDirs
<1>12. ASSUME NEW s \in Tabs, SaveText(s) PROVE TextsHaveDirs'
  <2> DEFINE d == [doc[s] EXCEPT !.saving = "sent", !.sent = doc[s].text]
  <2>1. doc' = [doc EXCEPT ![s] = d] /\ doc[s].dirty
    BY <1>12 DEF SaveText
  <2>2. d.dir = doc[s].dir
    BY <1>1 DEF Doc
  <2>3. doc[s].dir \in Dirs
    BY <1>1, <2>1 DEF TextsHaveDirs
  <2> HIDE DEF d
  <2>4. QED
    BY <1>2, <2>1, <2>2, <2>3
<1>13. QED
  BY DocWriters, <1>4, <1>6, <1>8, <1>9, <1>10, <1>11, <1>12 DEF docVars

(***************************************************************************)
(* The rest, and what the page keeps to.                                   *)
(***************************************************************************)
\* Who writes what is being changed or removed.
LEMMA RemovalWriters ==
  ASSUME TerminalNext
  PROVE  \/ UNCHANGED rmVars \/ ChangeDir \/ ActionEnds
         \/ \E names \in SUBSET Names \ {{}} : DeleteSelected(names)
         \/ \E ok \in BOOLEAN : RemovalAnswered(ok)
<1>1. CASE User
  <2>1. ASSUME NEW s \in Tabs,
               Connect(s) \/ CloseTab(s) \/ SelectTab(s) \/ Type(s)
        PROVE  UNCHANGED rmVars
    BY <2>1 DEF Connect, CloseTab, SelectTab, Type, disposeRest, rmVars
  <2>2. ASSUME NEW dir \in Dirs,
               LoadDir(dir) \/ LoadTreeNode(dir)
        PROVE  UNCHANGED rmVars
    BY <2>2 DEF LoadDir, LoadTreeNode, dirRest, rmVars
  <2>3. ASSUME NEW names \in SUBSET Names,
               Refresh
        PROVE  UNCHANGED rmVars
    BY <2>3 DEF Refresh, dirRest, rmVars
  <2>4. CASE OpenText
    BY <2>4 DEF OpenText, docRest, rmVars
  <2>5. ASSUME NEW s \in Tabs,
               \/ EditText(s, Edited) \/ EditText(s, doc[s].baseline) \/ SaveText(s) \/ CloseText(s)
               \/ WriteFile(s)
        PROVE  UNCHANGED rmVars
    BY <2>5 DEF EditText, SaveText, CloseText, WriteFile, docRest, rmVars
  <2>6. QED
    BY <1>1, <2>1, <2>2, <2>3, <2>4, <2>5 DEF User
<1>2. CASE Service
  <2>1. ASSUME NEW s \in Tabs,
               ServeOpen(s) \/ TakeOpen(s) \/ TakeLateOpen(s)
        PROVE  UNCHANGED rmVars
    BY <2>1 DEF ServeOpen, TakeOpen, TakeLateOpen, disposeRest, rmVars
  <2>2. ASSUME NEW s \in Tabs,
               \/ WriteOutput(s) \/ ExitShell(s) \/ AskOutput(s) \/ SendOutput(s)
               \/ ReadOutput(s) \/ LoseOutput(s) \/ EndOutput(s)
        PROVE  UNCHANGED rmVars
    BY <2>2 DEF WriteOutput, ExitShell, AskOutput, SendOutput, ReadOutput, LoseOutput, EndOutput, rmVars
  <2>3. ASSUME NEW s \in Tabs,
               InputAnswered(s) \/ TextOpened(s) \/ SaveAnswered(s) \/ SaveEnds(s)
        PROVE  UNCHANGED rmVars
    BY <2>3 DEF InputAnswered, TextOpened, SaveAnswered, SaveEnds, docRest, rmVars
  <2>4. ASSUME NEW l \in listings,
               ServeListing(l) \/ TakeListing(l)
        PROVE  UNCHANGED rmVars
    BY <2>4 DEF ServeListing, TakeListing, dirRest, rmVars
  <2>5. QED
    BY <1>2, <2>1, <2>2, <2>3, <2>4 DEF Service
<1>3. QED
  BY <1>1, <1>2 DEF TerminalNext

\* A step is one of the user or leaves the count of them.
LEMMA ClicksAreCounted ==
  ASSUME TerminalNext
  PROVE  Click \/ UNCHANGED clicks
<1>1. CASE User
  <2>1. ASSUME NEW s \in Tabs,
               Connect(s) \/ CloseTab(s) \/ SelectTab(s) \/ Type(s)
        PROVE  Click \/ UNCHANGED clicks
    BY <2>1 DEF Connect, CloseTab, SelectTab, Type
  <2>2. ASSUME NEW dir \in Dirs,
               LoadDir(dir) \/ LoadTreeNode(dir)
        PROVE  Click \/ UNCHANGED clicks
    BY <2>2 DEF LoadDir, LoadTreeNode
  <2>3. ASSUME NEW names \in SUBSET Names,
               Refresh \/ ChangeDir \/ DeleteSelected(names)
        PROVE  Click \/ UNCHANGED clicks
    BY <2>3 DEF Refresh, ChangeDir, DeleteSelected
  <2>4. CASE OpenText
    BY <2>4 DEF OpenText
  <2>5. ASSUME NEW s \in Tabs,
               \/ EditText(s, Edited) \/ EditText(s, doc[s].baseline) \/ SaveText(s) \/ CloseText(s)
               \/ WriteFile(s)
        PROVE  Click \/ UNCHANGED clicks
    BY <2>5 DEF EditText, SaveText, CloseText, WriteFile
  <2>6. QED
    BY <1>1, <2>1, <2>2, <2>3, <2>4, <2>5 DEF User
<1>2. CASE Service
  <2>1. ASSUME NEW s \in Tabs,
               ServeOpen(s) \/ TakeOpen(s) \/ TakeLateOpen(s)
        PROVE  Click \/ UNCHANGED clicks
    BY <2>1 DEF ServeOpen, TakeOpen, TakeLateOpen
  <2>2. ASSUME NEW s \in Tabs,
               \/ WriteOutput(s) \/ ExitShell(s) \/ AskOutput(s) \/ SendOutput(s)
               \/ ReadOutput(s) \/ LoseOutput(s) \/ EndOutput(s)
        PROVE  Click \/ UNCHANGED clicks
    BY <2>2 DEF WriteOutput, ExitShell, AskOutput, SendOutput, ReadOutput, LoseOutput, EndOutput
  <2>3. ASSUME NEW s \in Tabs,
               InputAnswered(s) \/ TextOpened(s) \/ SaveAnswered(s) \/ SaveEnds(s)
        PROVE  Click \/ UNCHANGED clicks
    BY <2>3 DEF InputAnswered, TextOpened, SaveAnswered, SaveEnds
  <2>4. ASSUME NEW l \in listings,
               ServeListing(l) \/ TakeListing(l)
        PROVE  Click \/ UNCHANGED clicks
    BY <2>4 DEF ServeListing, TakeListing
  <2>5. ASSUME NEW ok \in BOOLEAN,
               ActionEnds \/ RemovalAnswered(ok)
        PROVE  Click \/ UNCHANGED clicks
    BY <2>5 DEF ActionEnds, RemovalAnswered
  <2>6. QED
    BY <1>2, <2>1, <2>2, <2>3, <2>4, <2>5 DEF Service
<1>3. QED
  BY <1>1, <1>2 DEF TerminalNext

\* Every step keeps what is left of the types.
LEMMA RestStep ==
  ASSUME RestKept, TerminalNext
  PROVE  RestKept'
<1>1. clicks' \in 0..MaxEvents
  <2>1. clicks \in 0..MaxEvents /\ MaxEvents \in Nat
    BY DEF RestKept
  <2>2. CASE Click
    BY <2>1, <2>2 DEF Click
  <2>3. QED
    BY <2>1, <2>2, ClicksAreCounted
<1>2. removing'.left \subseteq Names /\ acting' \in BOOLEAN
  <2>1. removing.left \subseteq Names /\ acting \in BOOLEAN
    BY DEF RestKept
  <2>2. Nothing.left \subseteq Names
    BY DEF Nothing
  <2>3. ASSUME NEW names, names \subseteq Names, AskRemoval(names) PROVE removing'.left \subseteq Names
    BY <2>3 DEF AskRemoval
  <2>4. CASE UNCHANGED rmVars
    BY <2>1, <2>4 DEF rmVars
  <2>5. CASE ChangeDir \/ ActionEnds
    BY <2>1, <2>5 DEF ChangeDir, ActionEnds
  <2>6. ASSUME NEW names \in SUBSET Names, DeleteSelected(names) PROVE removing'.left \subseteq Names /\ acting' \in BOOLEAN
    BY <2>1, <2>3, <2>6 DEF DeleteSelected
  <2>7. ASSUME NEW ok \in BOOLEAN, RemovalAnswered(ok) PROVE removing'.left \subseteq Names /\ acting' \in BOOLEAN
    BY <2>1, <2>2, <2>3, <2>7 DEF RemovalAnswered
  <2>8. QED
    BY RemovalWriters, <2>4, <2>5, <2>6, <2>7
<1>3. QED
  BY <1>1, <1>2 DEF RestKept

\* Nothing is open when the page begins.
LEMMA InitKept == TerminalInit => Kept
<1> SUFFICES ASSUME TerminalInit PROVE Kept
  OBVIOUS
<1>1. \A s \in Tabs : \A n \in Nat : Increasing(<<>>) /\ AtMost(<<>>, n) /\ Before(<<>>, <<>>)
  BY DEF Increasing, AtMost, Before
<1>2. TabsKept
  BY DEF TerminalInit, TabsKept
<1>3. OutputKept
  <2>1. OutputType /\ stream = [s \in Tabs |-> [state |-> "none", tries |-> 0]] /\ air = [s \in Tabs |-> <<>>]
    <3>1. /\ made = [s \in Tabs |-> 0] /\ at = [s \in Tabs |-> 0] /\ offset = [s \in Tabs |-> 0]
          /\ air = [s \in Tabs |-> <<>>] /\ shown = [s \in Tabs |-> <<>>] /\ skipped = {}
      BY DEF TerminalInit
    <3>2. 0 \in Nat /\ <<>> \in Seq(Nat)
      OBVIOUS
    <3>3. OutputType
      BY <3>1, <3>2 DEF OutputType
    <3>4. QED
      BY <3>3 DEF TerminalInit
  <2>2. \A s \in Tabs : shown[s] = <<>> /\ offset[s] = 0 /\ stream[s].state = "none"
    BY DEF TerminalInit
  <2>3. \A s \in Tabs : OutputOf(s)
    BY <1>1, <2>2 DEF OutputOf
  <2>4. QED
    BY <2>1, <2>3 DEF OutputKept
<1>4. InputKept
  <2>1. InputType
    <3>1. /\ typed = [s \in Tabs |-> 0] /\ pending = [s \in Tabs |-> <<>>] /\ got = [s \in Tabs |-> <<>>]
          /\ sending = [s \in Tabs |-> {}]
      BY DEF TerminalInit
    <3>2. 0 \in Nat /\ <<>> \in Seq(Nat) /\ {} \in SUBSET Seq(Nat)
      OBVIOUS
    <3>3. QED
      BY <3>1, <3>2 DEF InputType
  <2>2. \A s \in Tabs : got[s] = <<>> /\ pending[s] = <<>> /\ sending[s] = {} /\ typed[s] = 0
    BY DEF TerminalInit
  <2>3. \A s \in Tabs : InputOf(s)
    BY <1>1, <2>2 DEF InputOf
  <2>4. QED
    BY <2>1, <2>3 DEF InputKept
<1>5. TreeKept
  <2>1. NotListed \in Node /\ NotListed.list = "missing"
    BY DEF NotListed, Node
  <2>2. tree \in [Tabs -> [Dirs -> Node]] /\ \A s \in Tabs, d \in Dirs : tree[s][d].list = "missing"
    BY <2>1 DEF TerminalInit
  <2>3. treeRequests \in [Tabs -> [Dirs -> Nat]]
    BY DEF TerminalInit
  <2>4. dirRequest \in [Tabs -> Nat] /\ epoch \in [Tabs -> Nat] /\ cwd \in [Tabs -> Dirs \cup {""}] /\ listings = {}
    BY DEF TerminalInit
  <2>5. QED
    BY <2>2, <2>3, <2>4 DEF TreeKept, TreeType, TreeIsFresh
<1>6. TextsHaveDirs
  BY DEF TerminalInit, TextsHaveDirs, NoDoc
<1>7. DocsKept
  <2>1. NoDoc \in Doc /\ NoDoc.text = NoDoc.baseline
    BY DEF NoDoc, Doc
  <2>2. doc \in [Tabs -> Doc] /\ (\A s \in Tabs : doc[s] = NoDoc) /\ file \in [Tabs -> Nat]
    BY <2>1 DEF TerminalInit
  <2>3. QED
    BY <2>1, <2>2 DEF DocsKept, DocsType, CleanTextIsSaved
<1>8. RestKept
  <2>1. removing.left = {} /\ acting = FALSE /\ clicks = 0
    BY DEF TerminalInit, Nothing
  <2>2. 0 \in 0..MaxEvents
    OBVIOUS
  <2>3. QED
    BY <2>1, <2>2 DEF RestKept
<1>9. QED
  BY <1>2, <1>3, <1>4, <1>5, <1>6, <1>7, <1>8 DEF Kept

\* Every handler of the page keeps the whole of it.
LEMMA NextKept == Kept /\ [TerminalNext]_terminalVars => Kept'
<1> SUFFICES ASSUME Kept, [TerminalNext]_terminalVars PROVE Kept'
  OBVIOUS
<1>1. CASE TerminalNext
  <2>1. TabsKept' /\ OutputKept' /\ InputKept' /\ TreeKept' /\ TextsHaveDirs' /\ DocsKept' /\ RestKept'
    BY <1>1, TabsStep, OutputStep, InputStep, TreeStep, TextsHaveDirsStep, DocsStep, RestStep DEF Kept
  <2>2. QED
    BY <2>1 DEF Kept
<1>2. CASE UNCHANGED terminalVars
  <2>1. UNCHANGED tabVars /\ UNCHANGED outVars /\ UNCHANGED inVars /\ UNCHANGED dirVars
        /\ UNCHANGED rmVars /\ UNCHANGED docVars /\ UNCHANGED clicks
    BY <1>2 DEF terminalVars
  <2>2. TabsKept'
    BY <2>1 DEF tabVars, outVars, Kept, TabsKept
  <2>3. OutputKept'
    BY <2>1 DEF outVars, Kept, OutputKept, OutputType, OutputOf
  <2>4. InputKept'
    BY <2>1 DEF inVars, Kept, InputKept, InputType, InputOf
  <2>5. TreeKept'
    BY <2>1, TreeNodesAreKept DEF dirVars, Kept, TreeKept, TreeType
  <2>6. TextsHaveDirs' /\ DocsKept'
    BY <2>1 DEF dirVars, docVars, Kept, TextsHaveDirs, DocsKept, DocsType, CleanTextIsSaved
  <2>7. RestKept'
    BY <2>1 DEF rmVars, Kept, RestKept
  <2>8. QED
    BY <2>2, <2>3, <2>4, <2>5, <2>6, <2>7 DEF Kept
<1>3. QED
  BY <1>1, <1>2

\* The inductive invariant of the terminal page.
THEOREM TerminalIsKept == TerminalSpec => []Kept
  BY InitKept, NextKept, PTL DEF TerminalSpec

\* What a tab shows of its shell is in order and nothing twice, a shell is given what was
\* typed in order and once, and the tree is as it was after it was last cleared, however
\* often streams are lost, tabs are switched and listings cross each other
\* (pump, sendInput, loadDir, loadTreeNode).
THEOREM TabsAlwaysSound == TerminalSpec => []TabsAreSound
<1>1. Kept => TabsAreSound
  <2> SUFFICES ASSUME Kept PROVE TabsAreSound
    OBVIOUS
  <2>1. TerminalTypeOK
    BY DEF Kept, TabsKept, OutputKept, OutputType, RestKept, TerminalTypeOK
  <2>2. OutputInOrder
    BY DEF Kept, OutputKept, OutputOf, OutputInOrder, Increasing
  <2>3. InputInOrder
    BY DEF Kept, InputKept, InputOf, InputInOrder, Increasing
  <2>4. TreeIsFresh
    BY DEF Kept, TreeKept
  <2>5. QED
    BY <2>1, <2>2, <2>3, <2>4 DEF TabsAreSound
<1>2. QED
  BY <1>1, TerminalIsKept, PTL

\* A text that is not marked as changed is the one that was last read or saved, whatever
\* is typed while an answer to its saving is on its way (saveEditor).
THEOREM CleanTextAlwaysSaved == TerminalSpec => []CleanTextIsSaved
<1>1. Kept => CleanTextIsSaved
  BY DEF Kept, DocsKept
<1>2. QED
  BY <1>1, TerminalIsKept, PTL
=============================================================================
