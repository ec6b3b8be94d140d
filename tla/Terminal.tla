------------------------------ MODULE Terminal ------------------------------
(***************************************************************************)
(* The terminal page: the tabs of SSH shells the service holds, each with  *)
(* the shell's output, the keystrokes sent to it, the directory and the    *)
(* tree of its SFTP files, the removal of selected files, and a text file  *)
(* of it in the editor.                                                    *)
(*                                                                         *)
(* A handler of the page runs until it awaits the service; in between the  *)
(* user goes on, and switches the tab.  Output is a count of bytes, a      *)
(* directory is the number of times it changed, a text is the edit it      *)
(* stems from.  Layout, sizes, downloads and the sending of command sets   *)
(* (which types) are left out.                                             *)
(***************************************************************************)
EXTENDS Naturals, FiniteSets, SequencesExt

CONSTANTS
  MaxTabs,    \* bound on the tabs opened
  Root, Home, Dirs,  \* directories, of each server; all are in Root
  Names,      \* entries that can be selected and removed
  Replay,     \* termReplayBytes: what the service keeps of the output
  Attempts,   \* how often the output is asked for (4)
  MaxEvents   \* bound on what the user and the shells do, and on the streams lost

ASSUME DirsAssumption == {Root, Home} \subseteq Dirs
ASSUME TerminalAssumption == {MaxTabs, Replay, Attempts, MaxEvents} \subseteq Nat \ {0}

VARIABLES
  status, opening, shell,      \* of each tab; its open request; its shell
  active, connecting,          \* the tab that is shown; connectingSession
  made, stream, at, air, offset, shown, skipped,  \* the output
  typed, pending, sending, got,                   \* the input
  listings, dirRequest, cwd, epoch, treeRequests, tree,
  acting, removing,
  doc, file,
  clicks

tabVars == <<status, opening, shell, active, connecting>>
outVars == <<made, stream, at, air, offset, shown, skipped>>
inVars == <<typed, pending, sending, got>>
dirVars == <<listings, dirRequest, cwd, epoch, treeRequests, tree>>
rmVars == <<acting, removing>>
docVars == <<doc, file>>
terminalVars == <<tabVars, outVars, inVars, dirVars, rmVars, docVars, clicks>>

Tabs == 1..MaxTabs
NoTab == 0
NoDoc == [state |-> "none", dir |-> "", text |-> 0, baseline |-> 0, etag |-> 0, dirty |-> FALSE,
          saving |-> "no", sent |-> 0]
Nothing == [asked |-> {}, left |-> {}]
NotListed == [epoch |-> 0, list |-> "missing"]

TerminalInit ==
  /\ status = [s \in Tabs |-> "new"] /\ opening = [s \in Tabs |-> "no"]
  /\ shell = [s \in Tabs |-> "none"] /\ active = NoTab /\ connecting = NoTab
  /\ made = [s \in Tabs |-> 0] /\ stream = [s \in Tabs |-> [state |-> "none", tries |-> 0]]
  /\ at = [s \in Tabs |-> 0] /\ air = [s \in Tabs |-> <<>>] /\ offset = [s \in Tabs |-> 0]
  /\ shown = [s \in Tabs |-> <<>>] /\ skipped = {}
  /\ typed = [s \in Tabs |-> 0] /\ pending = [s \in Tabs |-> <<>>]
  /\ sending = [s \in Tabs |-> {}] /\ got = [s \in Tabs |-> <<>>]
  /\ listings = {} /\ dirRequest = [s \in Tabs |-> 0] /\ cwd = [s \in Tabs |-> ""]
  /\ epoch = [s \in Tabs |-> 0]
  /\ treeRequests = [s \in Tabs |-> [d \in Dirs |-> 0]]
  /\ tree = [s \in Tabs |-> [d \in Dirs |-> NotListed]]
  /\ acting = FALSE /\ removing = Nothing
  /\ doc = [s \in Tabs |-> NoDoc] /\ file = [s \in Tabs |-> 1]
  /\ clicks = 0

Click == clicks < MaxEvents /\ clicks' = clicks + 1
Usable == active # NoTab /\ status[active] = "open"

(***************************************************************************)
(* Connecting and closing.                                                 *)
(***************************************************************************)
Connect(s) ==
  /\ Click /\ connecting = NoTab /\ s = Min({n \in Tabs : status[n] = "new"} \cup {MaxTabs})
  /\ status[s] = "new"
  /\ status' = [status EXCEPT ![s] = "connecting"] /\ opening' = [opening EXCEPT ![s] = "asked"]
  /\ active' = s /\ connecting' = s
  /\ UNCHANGED <<shell, outVars, inVars, dirVars, rmVars, docVars>>

\* handleTermOpen: a shell, a host key to confirm, or a failure.
ServeOpen(s) ==
  /\ opening[s] = "asked"
  /\ \E answer \in {"shell", "untrusted", "failed"} :
       /\ opening' = [opening EXCEPT ![s] = answer]
       /\ shell' = [shell EXCEPT ![s] = IF answer = "shell" THEN "alive" ELSE @]
  /\ UNCHANGED <<status, active, connecting, outVars, inVars, dirVars, rmVars, docVars, clicks>>

\* disposeSession: the request is aborted, and a shell that was not answered with is
\* closed by the service; one whose answer is under way is cut off, or still heard of.
Dispose(s) ==
  /\ status' = [status EXCEPT ![s] = "closed"]
  /\ opening' = [opening EXCEPT ![s] = IF @ = "shell" /\ status[s] = "connecting" THEN "late" ELSE "over"]
  /\ shell' = [shell EXCEPT ![s] = IF status[s] = "connecting" THEN @ ELSE "closed"]
  /\ connecting' = IF connecting = s THEN NoTab ELSE connecting
  /\ LET others == {n \in Tabs : n # s /\ status[n] \in {"connecting", "open", "ended"}}
         before == {n \in others : n < s}
     IN active' = CASE active # s -> active
                    [] active = s /\ others = {} -> NoTab
                    [] OTHER -> IF before # {} THEN Max(before) ELSE Min(others)
  /\ stream' = [stream EXCEPT ![s].state = "over"] /\ air' = [air EXCEPT ![s] = <<>>]
  /\ pending' = [pending EXCEPT ![s] = <<>>] /\ listings' = {l \in listings : l.tab # s}
  /\ doc' = [doc EXCEPT ![s] = NoDoc]

disposeRest == <<made, at, offset, shown, skipped, typed, sending, got, dirRequest, cwd,
                 epoch, treeRequests, tree, rmVars, file>>

\* The button of the tab, or the one that cancels the connection: not while a text of it
\* is being saved; a text that was changed is given up when the user says so.
CloseTab(s) ==
  /\ Click /\ status[s] \in {"connecting", "open", "ended"} /\ doc[s].saving = "no"
  /\ Dispose(s) /\ UNCHANGED disposeRest

\* sendInput: what was typed meanwhile is sent when nothing is, once the tab has a shell
\* and also when that has ended.
Posted(s, more, s1) ==
  IF sending[s] = {} /\ more # <<>> /\ s1 \in {"open", "ended"}
  THEN sending' = [sending EXCEPT ![s] = {more}] /\ pending' = [pending EXCEPT ![s] = <<>>]
  ELSE pending' = [pending EXCEPT ![s] = more] /\ UNCHANGED sending

Listed(s, dir, kind, saved) ==
  [tab |-> s, dir |-> dir, kind |-> kind, saved |-> saved, epoch |-> epoch'[s], answered |-> FALSE,
   request |-> IF kind = "dir" THEN dirRequest'[s] ELSE treeRequests'[s][dir]]

\* The answer to the open request: the tab is open, its output is asked for, what was
\* typed is sent and its home is listed; or the tab is closed again.
TakeOpen(s) ==
  /\ status[s] = "connecting" /\ opening[s] \in {"shell", "untrusted", "failed"}
  /\ \/ /\ opening[s] = "shell"
        /\ status' = [status EXCEPT ![s] = "open"] /\ opening' = [opening EXCEPT ![s] = "over"]
        /\ connecting' = NoTab
        /\ stream' = [stream EXCEPT ![s].state = "wait"]
        /\ Posted(s, pending[s], "open")
        /\ dirRequest' = [dirRequest EXCEPT ![s] = @ + 1] /\ UNCHANGED <<epoch, treeRequests>>
        /\ listings' = listings \cup {Listed(s, Home, "dir", FALSE)}
        /\ UNCHANGED <<shell, active, made, at, air, offset, shown, skipped, typed, got, cwd,
                       tree, rmVars, docVars, clicks>>
     \/ /\ opening[s] = "untrusted"  \* the fingerprint is confirmed: it is asked again
        /\ opening' = [opening EXCEPT ![s] = "asked"]
        /\ UNCHANGED <<status, shell, active, connecting, outVars, inVars, dirVars, rmVars, docVars, clicks>>
     \/ /\ opening[s] \in {"untrusted", "failed"}
        /\ Dispose(s) /\ UNCHANGED <<disposeRest, clicks>>

\* The answer for a tab that was closed: its shell is closed, when the answer is read
\* in spite of the abort; when it is not, nobody knows the shell.
TakeLateOpen(s) ==
  /\ opening[s] = "late"
  /\ \/ opening' = [opening EXCEPT ![s] = "over"] /\ shell' = [shell EXCEPT ![s] = "closed"]
     \/ opening' = [opening EXCEPT ![s] = "lost"] /\ UNCHANGED shell
  /\ UNCHANGED <<status, active, connecting, outVars, inVars, dirVars, rmVars, docVars, clicks>>

SelectTab(s) ==
  /\ Click /\ status[s] \in {"connecting", "open", "ended"} /\ s # active /\ active' = s
  /\ UNCHANGED <<status, opening, shell, connecting, outVars, inVars, dirVars, rmVars, docVars>>

(***************************************************************************)
(* Output.  The service keeps the newest Replay bytes; a stream that is    *)
(* lost is asked for again from the offset the page has.                   *)
(***************************************************************************)
Base(s) == IF made[s] > Replay THEN made[s] - Replay ELSE 0

WriteOutput(s) ==
  /\ Click /\ shell[s] = "alive"
  /\ made' = [made EXCEPT ![s] = @ + 1]
  /\ UNCHANGED <<tabVars, stream, at, air, offset, shown, skipped, inVars, dirVars, rmVars, docVars>>

ExitShell(s) ==
  /\ Click /\ shell[s] = "alive" /\ shell' = [shell EXCEPT ![s] = "dead"]
  /\ UNCHANGED <<status, opening, active, connecting, outVars, inVars, dirVars, rmVars, docVars>>

\* pump: a new attempt; the head tells where the stream begins.  After the last the tab
\* is marked as ended.
AskOutput(s) ==
  LET from == Max({offset[s], Base(s)})
  IN /\ stream[s].state = "wait"
     /\ IF stream[s].tries < Attempts
        THEN /\ stream' = [stream EXCEPT ![s].state = "live", ![s].tries = @ + 1]
             /\ at' = [at EXCEPT ![s] = from] /\ offset' = [offset EXCEPT ![s] = from]
             /\ UNCHANGED status
        ELSE /\ stream' = [stream EXCEPT ![s].state = "over"] /\ status' = [status EXCEPT ![s] = "ended"]
             /\ UNCHANGED <<at, offset>>
     /\ UNCHANGED <<opening, shell, active, connecting, made, air, shown, skipped, inVars, dirVars, rmVars, docVars, clicks>>

\* handleTermOutput: the next bytes; a reader that is too slow is put forward untold.
SendOutput(s) ==
  LET from == Max({at[s], Base(s)})
  IN /\ stream[s].state = "live" /\ at[s] < made[s] /\ Len(air[s]) < 2
     /\ air' = [air EXCEPT ![s] = Append(@, from + 1)] /\ at' = [at EXCEPT ![s] = from + 1]
     /\ skipped' = IF from # at[s] THEN skipped \cup {s} ELSE skipped
     /\ UNCHANGED <<tabVars, made, stream, offset, shown, inVars, dirVars, rmVars, docVars, clicks>>

ReadOutputUncounted(s) == \* Mutant: the offset is not moved on
  /\ air[s] # <<>> /\ stream[s].state = "live"
  /\ shown' = [shown EXCEPT ![s] = Append(@, air[s][1])] /\ air' = [air EXCEPT ![s] = Tail(@)]
  /\ UNCHANGED <<tabVars, made, stream, at, offset, skipped, inVars, dirVars, rmVars, docVars, clicks>>

ReadOutput(s) ==
  /\ air[s] # <<>> /\ stream[s].state = "live"
  /\ shown' = [shown EXCEPT ![s] = Append(@, air[s][1])] /\ air' = [air EXCEPT ![s] = Tail(@)]
  /\ offset' = [offset EXCEPT ![s] = @ + 1]
  /\ UNCHANGED <<tabVars, made, stream, at, skipped, inVars, dirVars, rmVars, docVars, clicks>>

LoseOutput(s) ==
  /\ Click /\ stream[s].state = "live"
  /\ stream' = [stream EXCEPT ![s].state = "wait"] /\ air' = [air EXCEPT ![s] = <<>>]
  /\ UNCHANGED <<tabVars, made, at, offset, shown, skipped, inVars, dirVars, rmVars, docVars>>

\* The shell is over and everything was delivered.
EndOutput(s) ==
  /\ stream[s].state = "live" /\ shell[s] # "alive" /\ at[s] = made[s] /\ air[s] = <<>>
  /\ stream' = [stream EXCEPT ![s].state = "over"] /\ status' = [status EXCEPT ![s] = "ended"]
  /\ UNCHANGED <<opening, shell, active, connecting, made, at, air, offset, shown, skipped,
                 inVars, dirVars, rmVars, docVars, clicks>>

(***************************************************************************)
(* Input.                                                                  *)
(***************************************************************************)
Type(s) ==
  /\ Click /\ active = s /\ status[s] \in {"connecting", "open", "ended"}
  /\ typed' = [typed EXCEPT ![s] = @ + 1]
  /\ Posted(s, Append(pending[s], typed'[s]), status[s])
  /\ UNCHANGED <<got, tabVars, outVars, dirVars, rmVars, docVars>>

\* A request with keystrokes ends, and fails unnoticed if it does.
InputAnswered(s) ==
  \E chunk \in sending[s] :
    /\ got' = [got EXCEPT ![s] = IF shell[s] = "alive" THEN @ \o chunk ELSE @]
    /\ IF pending[s] # <<>> /\ status[s] # "closed"
       THEN sending' = [sending EXCEPT ![s] = (@ \ {chunk}) \cup {pending[s]}] /\ pending' = [pending EXCEPT ![s] = <<>>]
       ELSE sending' = [sending EXCEPT ![s] = @ \ {chunk}] /\ UNCHANGED pending
    /\ UNCHANGED <<typed, tabVars, outVars, dirVars, rmVars, docVars, clicks>>

(***************************************************************************)
(* Files.  Of the directories asked for only the last counts; of the nodes *)
(* of the tree the last of each, since the tree was last cleared.          *)
(***************************************************************************)
dirRest == <<tabVars, outVars, inVars, docVars>>

LoadsDir(s, dir, saved) ==
  /\ dirRequest' = [dirRequest EXCEPT ![s] = @ + 1] /\ UNCHANGED treeRequests
  /\ listings' = listings \cup {Listed(s, dir, "dir", saved)}

LoadDir(dir) ==
  /\ Click /\ Usable /\ UNCHANGED epoch /\ LoadsDir(active, dir, FALSE)
  /\ UNCHANGED <<cwd, tree, rmVars, dirRest>>

\* #term-refresh, and what follows an upload.
Refresh ==
  /\ Click /\ Usable /\ cwd[active] # ""
  /\ epoch' = [epoch EXCEPT ![active] = @ + 1]
  /\ tree' = [tree EXCEPT ![active] = [d \in Dirs |-> NotListed]]
  /\ LoadsDir(active, cwd[active], FALSE)
  /\ UNCHANGED <<cwd, rmVars, dirRest>>

\* #term-tree: a node without a list is listed; one whose list was made up is not.
LoadTreeNode(dir) ==
  /\ Click /\ Usable /\ tree[active][dir].list = "missing" /\ UNCHANGED <<epoch, dirRequest>>
  /\ treeRequests' = [treeRequests EXCEPT ![active][dir] = @ + 1]
  /\ listings' = listings \cup {Listed(active, dir, "tree", FALSE)}
  /\ UNCHANGED <<cwd, tree, rmVars, dirRest>>

\* handleTermList answers with what is there, or fails.
ServeListing(l) ==
  /\ ~l.answered
  /\ \/ listings' = (listings \ {l}) \cup {[l EXCEPT !.answered = TRUE]}
     \/ listings' = listings \ {l}
  /\ UNCHANGED <<dirRequest, cwd, epoch, treeRequests, tree, rmVars, dirRest, clicks>>

Listing(l) == [epoch |-> l.epoch, list |-> "listed"]
Partial(l) == [epoch |-> l.epoch, list |-> "partial"]  \* of the names on the way to l.dir

Current(l) ==
  /\ l.answered
  /\ IF l.kind = "dir" THEN l.request = dirRequest[l.tab]
     ELSE l.epoch = epoch[l.tab] /\ l.request = treeRequests[l.tab][l.dir]

RootIsMissing(l) == l.kind = "dir" /\ l.dir # Root /\ tree[l.tab][Root].list = "missing"

\* loadDir and loadTreeNode have their answer.
TreeWith(l) ==
  [d \in Dirs |-> CASE d = l.dir -> Listing(l)
                    [] d = Root /\ RootIsMissing(l) -> Partial(l)
                    [] OTHER -> tree[l.tab][d]]

\* A directory counts as the newest answer of its node.  A root that is missing gets a
\* list of the one name on the way, and is listed; if that fails, it is left with it.
TakeListing(l) ==
  LET asked == IF l.kind # "dir" THEN {} ELSE IF RootIsMissing(l) THEN {l.dir, Root} ELSE {l.dir}
  IN /\ l.answered /\ UNCHANGED <<epoch, dirRequest>>
     /\ IF Current(l)
        THEN /\ treeRequests' = [treeRequests EXCEPT ![l.tab] =
                  [d \in Dirs |-> IF d \in asked THEN @[d] + 1 ELSE @[d]]]
             /\ listings' = (listings \ {l}) \cup
                  (IF RootIsMissing(l) THEN {Listed(l.tab, Root, "tree", l.saved)} ELSE {})
             /\ tree' = [tree EXCEPT ![l.tab] = TreeWith(l)]
             /\ IF l.kind = "dir" THEN cwd' = [cwd EXCEPT ![l.tab] = l.dir]
                ELSE UNCHANGED cwd
        ELSE listings' = listings \ {l} /\ UNCHANGED <<treeRequests, tree, cwd>>
     /\ UNCHANGED <<rmVars, dirRest, clicks>>

\* makeDir, renameSelected: the tab that is shown when the answer comes is listed.
ChangeDir ==
  /\ Click /\ Usable /\ cwd[active] # "" /\ ~acting /\ acting' = TRUE
  /\ UNCHANGED <<listings, dirRequest, cwd, epoch, treeRequests, tree, removing, dirRest>>

ListShown ==
  /\ UNCHANGED epoch
  /\ IF active # NoTab /\ shell[active] # "none" THEN LoadsDir(active, IF cwd[active] = "" THEN Home ELSE cwd[active], FALSE)
     ELSE UNCHANGED <<dirRequest, treeRequests, listings>>

ActionEnds ==
  /\ acting /\ acting' = FALSE
  /\ \/ ListShown
     \/ UNCHANGED <<epoch, dirRequest, treeRequests, listings>>  \* it failed
  /\ UNCHANGED <<cwd, tree, removing, dirRest, clicks>>

\* deleteSelected: the names are confirmed once; one after the other is asked for, of the
\* tab and the directory shown by then.  After the last, or a failure, what is shown is
\* listed; with no tab left the loop throws.
AskRemoval(names) ==
  \E n \in names : removing' = [asked |-> {<<active, cwd[active], n>>}, left |-> names \ {n}]

DeleteSelected(names) ==
  /\ Click /\ Usable /\ cwd[active] # "" /\ removing = Nothing /\ ~acting
  /\ AskRemoval(names)
  /\ UNCHANGED <<acting, dirVars, dirRest>>

RemovalAnswered(ok) ==
  \E r \in removing.asked :
    /\ ok => shell[r[1]] = "alive"
    /\ \/ /\ active = NoTab /\ removing' = Nothing /\ UNCHANGED <<dirRequest, treeRequests, listings>>
       \/ /\ active # NoTab /\ ok /\ removing.left # {}
          /\ AskRemoval(removing.left) /\ UNCHANGED <<dirRequest, treeRequests, listings>>
       \/ /\ active # NoTab /\ (~ok \/ removing.left = {})
          /\ removing' = Nothing /\ ListShown
    /\ UNCHANGED <<acting, cwd, epoch, tree, dirRest, clicks>>

(***************************************************************************)
(* The editor: one text of a tab.                                          *)
(***************************************************************************)
docRest == <<tabVars, outVars, inVars, dirVars, rmVars>>
Edited == 1 + clicks'  \* a text nobody had

OpenText ==
  /\ Click /\ Usable /\ cwd[active] # "" /\ doc[active].state = "none"
  /\ doc' = [doc EXCEPT ![active].state = "opening", ![active].dir = cwd[active]]
  /\ UNCHANGED <<file, docRest>>

\* The text is there, or is none, too long, or not to be had.
TextOpened(s) ==
  /\ doc[s].state = "opening"
  /\ \/ doc' = [doc EXCEPT ![s].state = "open", ![s].text = file[s], ![s].baseline = file[s], ![s].etag = file[s]]
     \/ doc' = [doc EXCEPT ![s] = NoDoc]
  /\ UNCHANGED <<file, docRest, clicks>>

EditText(s, text) ==
  /\ Click /\ doc[s].state = "open"
  /\ doc' = [doc EXCEPT ![s].text = text, ![s].dirty = text # doc[s].baseline]
  /\ UNCHANGED <<file, docRest>>

SaveText(s) ==
  /\ doc[s].dirty /\ doc[s].saving = "no" /\ status[s] = "open"
  /\ doc' = [doc EXCEPT ![s].saving = "sent", ![s].sent = doc[s].text] /\ UNCHANGED <<file, docRest, clicks>>

\* Somebody else writes the file.
WriteFile(s) == Click /\ status[s] = "open" /\ file' = [file EXCEPT ![s] = Edited] /\ UNCHANGED <<doc, docRest>>

SavedClean(d) == \* Mutant: what was typed while the text was saved counts as saved
  [d EXCEPT !.etag = d.sent, !.baseline = d.sent, !.dirty = FALSE]

Saved(d) == [d EXCEPT !.etag = d.sent, !.baseline = d.sent, !.dirty = d.text # d.sent]

\* The service replaces the text only if it is the one that was read, and may fail to.
\* The directory is listed when it is the file's, and the text counts as being saved
\* until it is.  An answer that is lost leaves the old etag.
SaveAnswered(s) ==
  LET fits == file[s] = doc[s].etag /\ shell[s] = "alive"
      written == [file EXCEPT ![s] = doc[s].sent]
  IN /\ doc[s].saving = "sent" /\ UNCHANGED epoch
     /\ \/ /\ fits /\ file' = written /\ doc[s].dir = cwd[s]
           /\ doc' = [doc EXCEPT ![s] = [Saved(@) EXCEPT !.saving = "listing"]]
           /\ LoadsDir(s, cwd[s], TRUE)
        \/ /\ fits /\ file' = written /\ doc[s].dir # cwd[s]
           /\ doc' = [doc EXCEPT ![s] = [Saved(@) EXCEPT !.saving = "no"]]
           /\ UNCHANGED <<dirRequest, treeRequests, listings>>
        \/ /\ file' = file \/ (fits /\ file' = written)
           /\ doc' = [doc EXCEPT ![s].saving = "no"] /\ UNCHANGED <<dirRequest, treeRequests, listings>>
     /\ UNCHANGED <<cwd, tree, tabVars, outVars, inVars, rmVars, clicks>>

\* The directory, and its root if that was missing, have been listed or given up.
SaveEnds(s) ==
  /\ doc[s].saving = "listing" /\ ~ \E l \in listings : l.tab = s /\ l.saved
  /\ doc' = [doc EXCEPT ![s].saving = "no"] /\ UNCHANGED <<file, docRest, clicks>>

CloseText(s) ==
  /\ Click /\ doc[s].state = "open" /\ doc[s].saving = "no"
  /\ doc' = [doc EXCEPT ![s] = NoDoc] /\ UNCHANGED <<file, docRest>>

User ==
  \/ \E s \in Tabs : Connect(s) \/ CloseTab(s) \/ SelectTab(s) \/ Type(s)
  \/ \E dir \in Dirs : LoadDir(dir) \/ LoadTreeNode(dir)
  \/ Refresh \/ ChangeDir \/ \E names \in SUBSET Names \ {{}} : DeleteSelected(names)
  \/ OpenText
  \/ \E s \in Tabs : EditText(s, Edited) \/ EditText(s, doc[s].baseline) \/ SaveText(s) \/ CloseText(s) \/ WriteFile(s)

Service ==
  \/ \E s \in Tabs : ServeOpen(s) \/ TakeOpen(s) \/ TakeLateOpen(s)
  \/ \E s \in Tabs : WriteOutput(s) \/ ExitShell(s) \/ AskOutput(s) \/ SendOutput(s) \/ ReadOutput(s)
                    \/ LoseOutput(s) \/ EndOutput(s)
  \/ \E s \in Tabs : InputAnswered(s) \/ TextOpened(s) \/ SaveAnswered(s) \/ SaveEnds(s)
  \/ \E l \in listings : ServeListing(l) \/ TakeListing(l)
  \/ ActionEnds \/ \E ok \in BOOLEAN : RemovalAnswered(ok)

TerminalNext == User \/ Service
TerminalSpec == TerminalInit /\ [][TerminalNext]_terminalVars

\* What a tab shows of its shell is in order and nothing twice, however often the stream
\* was lost - unless the service has put a slow reader forward within a stream.
OutputInOrder ==
  \A s \in Tabs \ skipped : \A i, j \in DOMAIN shown[s] : i < j => shown[s][i] < shown[s][j]

\* A shell is given what was typed in order and once, however fast it is typed
\* (sendInput posts one request at a time).
InputInOrder == \A s \in Tabs : \A i, j \in DOMAIN got[s] : i < j => got[s][i] < got[s][j]

\* A node of the tree was listed after the tree was last cleared, or has a list that was
\* made up for a directory below it, which was listed since.
TreeIsFresh ==
  \A s \in Tabs, d \in Dirs :
    /\ tree[s][d].list # "missing" => tree[s][d].epoch = epoch[s]
    /\ tree[s][d].list = "partial" => d = Root /\ \E below \in Dirs \ {Root} : tree[s][below].list = "listed"

\* A text that is not marked as changed is the one that was last read or saved: what is
\* typed while it is saved stays marked.
CleanTextIsSaved == \A s \in Tabs : ~doc[s].dirty => doc[s].text = doc[s].baseline

TerminalTypeOK ==
  /\ status \in [Tabs -> {"new", "connecting", "open", "ended", "closed"}]
  /\ active \in Tabs \cup {NoTab} /\ connecting \in Tabs \cup {NoTab}
  /\ offset \in [Tabs -> Nat] /\ made \in [Tabs -> Nat] /\ skipped \subseteq Tabs
  /\ removing.left \subseteq Names /\ acting \in BOOLEAN /\ clicks \in 0..MaxEvents

\* What the tabs show and send is of their own shells, in order and of now
\* (pump, sendInput, loadTreeNode).
TabsAreSound == TerminalTypeOK /\ OutputInOrder /\ InputInOrder /\ TreeIsFresh
=============================================================================
