---------------------------- MODULE CommandFlows ----------------------------
(***************************************************************************)
(* The command workspace of the page: flows of lines in the main list and, *)
(* as copies, in a group; the runs of flows on their servers, side by side *)
(* or one after the other; the editor, which works while they run; pause.  *)
(*                                                                         *)
(* A handler runs to its end before another starts, and so does what       *)
(* awaits it: a run that has a line's result goes on (Continue), and a     *)
(* sequence that has a flow's result goes on (SeqNext), before the next    *)
(* event.  A line of a flow is its identity, its kind and its status.  A   *)
(* run is also its log.  Left out are servers, texts and what is output.   *)
(***************************************************************************)
EXTENDS Naturals, FiniteSets, SequencesExt, ListFilter

CONSTANTS
  MaxFlows,   \* bound on the flows there are at once
  MaxLines,   \* bound on the lines of a flow
  MaxRuns,    \* bound on the runs of flows
  MaxEdits    \* bound on the edits and reloads of the page

ASSUME BoundsAssumption ==
  /\ {MaxRuns, MaxEdits} \subseteq Nat
  /\ MaxFlows \in Nat /\ MaxFlows > 2 /\ MaxLines \in Nat /\ MaxLines > 1

VARIABLES
  lines,          \* the lines of each flow
  main, members,  \* commandFlows; the flows of the group
  runs,           \* the runs so far, by number, with their logs
  registered,     \* commandRuns: the run of a flow, or none
  seqs,           \* runAllCommandFlows and runCommandGroup, while they await flows
  used, edits

vars == <<lines, main, members, runs, registered, seqs, used, edits>>

Flows == 1..MaxFlows
LineIds == 1..MaxLines + 2  \* one more than its lines and the one its run has sent
Runs == 1..MaxRuns
NoRun == 0
Lists == {"main", "group"}
Kinds == {"blank", "command", "upload"}
Statuses == {"idle", "running", "success", "error"}
Line == [id : LineIds, kind : Kinds, status : Statuses]
Executing == {"delay", "upload", "command"}
Run == [flow : Flows, at : Nat, line : LineIds \cup {0}, batch : Runs \cup {NoRun},
        stage : Executing \cup {"none", "aborted", "next", "lost", "over"}, paused : BOOLEAN,
        result : {"none", "running", "success", "error", "paused"}, failed : BOOLEAN]
NotRun == [flow |-> 1, at |-> 0, line |-> 0, batch |-> NoRun, stage |-> "none",
           paused |-> FALSE, result |-> "none", failed |-> FALSE]
\* list: the array that is iterated, <<>> while it is the list itself.
NoSeq == [on |-> FALSE, at |-> 0, awaits |-> {}, ok |-> TRUE, parallel |-> FALSE,
          batch |-> NoRun, list |-> <<>>]

Live(r) == runs[r].stage \notin {"none", "over"}
IsRunning(f) == registered[f] # NoRun
InLists == ToSet(main) \cup ToSet(members)
Unused == Flows \ (InLists \cup {runs[r].flow : r \in {n \in Runs : Live(n)}}
                   \cup UNION {ToSet(seqs[w].list) : w \in Lists})
\* A line that is new in a flow: not one of its lines, nor the one its run has sent.
New(f, kind) ==
  [id |-> Min(LineIds \ ({l.id : l \in ToSet(lines[f])} \cup {runs[r].line : r \in {n \in Runs : runs[n].flow = f}})),
   kind |-> kind, status |-> "idle"]
Idle(ls) == [i \in DOMAIN ls |-> [ls[i] EXCEPT !.status = "idle"]]
Written(kinds) == [i \in DOMAIN kinds |-> [id |-> i, kind |-> kinds[i], status |-> "idle"]]
\* A continuation is due before any other event.
Due == (\E r \in Runs : runs[r].stage \in {"next", "aborted"})
         \/ \E w \in Lists : seqs[w].on /\ seqs[w].awaits = {}

Init ==
  /\ main = <<1>> /\ members = <<2, 3>>
  /\ lines = [f \in Flows |-> CASE f = 1 -> Written(<<"command", "upload">>)
                               [] f = 2 -> Written(<<"upload">>)
                               [] OTHER -> Written(<<"command">>)]
  /\ runs = [r \in Runs |-> NotRun] /\ registered = [f \in Flows |-> NoRun]
  /\ seqs = [w \in Lists |-> NoSeq]
  /\ used = 0 /\ edits = 0

(***************************************************************************)
(* Starting.                                                               *)
(***************************************************************************)
\* Where a run of a flow begins: its first error, else its first pending line.
FirstOf(ls, statuses) == LET found == {i \in DOMAIN ls : ls[i].status \in statuses}
                         IN IF found = {} THEN 0 ELSE Min(found)
Pending == Statuses \ {"success"}
Begin(ls) == LET error == FirstOf(ls, {"error"})
                 pending == FirstOf(ls, Pending)
             IN IF error # 0 THEN error ELSE IF pending # 0 THEN pending ELSE 1

\* Runs of distinct idle flows are registered; each starts at its place.
StartAt(flows, begin, batch) ==
  /\ used' = used + Len(flows) /\ used' \in Runs
  /\ runs' = [r \in Runs |->
       IF r \in used + 1..used'
       THEN [NotRun EXCEPT !.flow = flows[r - used], !.at = begin[r - used], !.batch = batch,
                           !.stage = "next", !.result = "running"]
       ELSE runs[r]]
  /\ registered' = [f \in Flows |->
       IF f \in ToSet(flows) THEN used + CHOOSE i \in DOMAIN flows : flows[i] = f ELSE registered[f]]

Starts(flows, batch) == StartAt(flows, [i \in DOMAIN flows |-> Begin(lines[flows[i]])], batch)

RunFromLineAnyway(f, i) == \* Mutant: a flow that is running is run again
  /\ f \in InLists /\ i \in DOMAIN lines[f]
  /\ StartAt(<<f>>, <<i>>, NoRun)
  /\ UNCHANGED <<lines, main, members, seqs, edits>>

\* The button of a line, and the one of the flow: from its first pending line.
RunFromLine(f, i) ==
  /\ f \in InLists /\ ~IsRunning(f) /\ i \in DOMAIN lines[f]
  /\ StartAt(<<f>>, <<i>>, NoRun)
  /\ UNCHANGED <<lines, main, members, seqs, edits>>

RunHere(f) ==
  LET pending == FirstOf(lines[f], Pending)
  IN RunFromLine(f, IF pending > 1 THEN pending ELSE Begin(lines[f]))

(***************************************************************************)
(* Sequences.  In parallel mode every idle flow starts at once; otherwise  *)
(* they run in order, and the list is read as it is when its next flow is. *)
(***************************************************************************)
ListOf(w) == IF seqs[w].list # <<>> THEN seqs[w].list ELSE IF w = "main" THEN main ELSE members

RunList(w, parallel) ==
  LET list == IF w = "main" THEN main ELSE members
      idle == Picked(list, {i \in DOMAIN list : ~IsRunning(list[i])})
  IN /\ ~seqs[w].on /\ list # <<>>  \* commandRunningGroups; of the main list, a bound
     /\ IF parallel
        THEN /\ idle # <<>> /\ Starts(idle, NoRun)
             /\ seqs' = IF w = "main" THEN seqs  \* nothing but a message follows
                        ELSE [seqs EXCEPT ![w] = [NoSeq EXCEPT !.on = TRUE, !.parallel = TRUE,
                                                               !.awaits = used + 1..used']]
        ELSE /\ idle = list /\ used < MaxRuns
             /\ seqs' = [seqs EXCEPT ![w] = [NoSeq EXCEPT !.on = TRUE, !.batch = used + 1]]
             /\ UNCHANGED <<runs, registered, used>>
     /\ UNCHANGED <<lines, main, members, edits>>

SeqNextUnchecked(w) == \* Mutant: the sequence goes on after a flow that failed
  LET at == seqs[w].at + 1
  IN /\ seqs[w].on /\ seqs[w].awaits = {}
     /\ IF seqs[w].parallel \/ at > Len(ListOf(w)) \/ IsRunning(ListOf(w)[at])
             \/ used = MaxRuns
        THEN seqs' = [seqs EXCEPT ![w] = NoSeq] /\ UNCHANGED <<runs, registered, used>>
        ELSE /\ Starts(<<ListOf(w)[at]>>, seqs[w].batch)
             /\ seqs' = [seqs EXCEPT ![w].at = at, ![w].awaits = {used'}]
     /\ UNCHANGED <<lines, main, members, edits>>

SeqNext(w) ==
  LET at == seqs[w].at + 1
  IN /\ seqs[w].on /\ seqs[w].awaits = {}
     /\ IF ~seqs[w].ok \/ seqs[w].parallel \/ at > Len(ListOf(w)) \/ IsRunning(ListOf(w)[at])
             \/ used = MaxRuns  \* bound
        THEN seqs' = [seqs EXCEPT ![w] = NoSeq] /\ UNCHANGED <<runs, registered, used>>
        ELSE /\ Starts(<<ListOf(w)[at]>>, seqs[w].batch)
             /\ seqs' = [seqs EXCEPT ![w].at = at, ![w].awaits = {used'}]
     /\ UNCHANGED <<lines, main, members, edits>>

(***************************************************************************)
(* A run.                                                                  *)
(***************************************************************************)
\* The status of the line object of a run, wherever in the flow it is by now.
Marked(r, status) ==
  [lines EXCEPT ![runs[r].flow] =
     [i \in DOMAIN @ |-> IF @[i].id = runs[r].line THEN [@[i] EXCEPT !.status = status] ELSE @[i]]]
KindsOf(r) == LET found == {l \in ToSet(lines[runs[r].flow]) : l.id = runs[r].line}
              IN IF found = {} THEN Kinds ELSE {l.kind : l \in found}

\* What is left of a run that is over: its log.
Logged(record, result) == [NotRun EXCEPT !.batch = record.batch, !.failed = record.failed,
                                         !.stage = "over", !.result = result]

Finishes(r, record, result) ==
  /\ runs' = [runs EXCEPT ![r] = Logged(record, result)]
  /\ registered' = [registered EXCEPT ![runs[r].flow] = NoRun]
  /\ seqs' = [w \in Lists |-> [seqs[w] EXCEPT !.awaits = @ \ {r},
                                              !.ok = @ /\ (r \in seqs[w].awaits => result = "success")]]

\* The head of the loop: blank lines are passed over, a pause is heard.
Continue(r) ==
  LET ls == lines[runs[r].flow]
      todo == {i \in DOMAIN ls : i >= runs[r].at /\ ls[i].kind # "blank"}
      next == Min(todo)
  IN /\ runs[r].stage = "next"
     /\ IF todo = {} \/ runs[r].paused
        THEN Finishes(r, runs[r], IF todo = {} THEN "success" ELSE "paused") /\ UNCHANGED lines
        ELSE /\ runs' = [runs EXCEPT ![r].stage = "delay", ![r].at = next, ![r].line = ls[next].id]
             /\ lines' = [lines EXCEPT ![runs[r].flow][next].status = "running"]
             /\ UNCHANGED <<registered, seqs>>
     /\ UNCHANGED <<main, members, used, edits>>

LineEndsErrorOnly(r, outcome) == \* Mutant: only a line that failed ends the run
  LET record == [runs[r] EXCEPT !.failed = @ \/ outcome # "success"]
      after == Marked(r, IF outcome = "paused" THEN "idle" ELSE outcome)
      now == after[runs[r].flow]
  IN /\ lines' = after
     /\ IF outcome # "success" /\ runs[r].at \in DOMAIN now /\ now[runs[r].at].status = "error"
        THEN Finishes(r, record, "error")
        ELSE /\ runs' = [runs EXCEPT ![r] = [record EXCEPT !.stage = "next", !.at = @ + 1]]
             /\ UNCHANGED <<registered, seqs>>

\* executeCommandLine returns.  The run then looks at the line that is at its index by
\* now: when there is none, it throws, and stays registered.
LineEnds(r, outcome) ==
  LET record == [runs[r] EXCEPT !.failed = @ \/ outcome # "success"]
      after == Marked(r, IF outcome = "paused" THEN "idle" ELSE outcome)
      now == after[runs[r].flow]
  IN /\ lines' = after
     /\ CASE outcome = "success" ->
               /\ runs' = [runs EXCEPT ![r] = [record EXCEPT !.stage = "next", !.at = @ + 1]]
               /\ UNCHANGED <<registered, seqs>>
          [] outcome # "success" /\ runs[r].at \notin DOMAIN now ->
               /\ runs' = [runs EXCEPT ![r] = [record EXCEPT !.stage = "lost"]]
               /\ UNCHANGED <<registered, seqs>>
          [] OTHER -> Finishes(r, record, IF now[runs[r].at].status = "error" THEN "error" ELSE "paused")

runRest == <<main, members, used, edits>>

\* The 380 ms before a line is sent are over; it has files to upload, or a command.
SendLine(r) ==
  /\ runs[r].stage = "delay"
  /\ \/ /\ \E kind \in KindsOf(r), stage \in {"upload", "command"} :
             /\ kind = "upload" => stage = "upload"
             /\ runs' = [runs EXCEPT ![r].stage = stage]
        /\ UNCHANGED <<lines, registered, seqs>>
     \/ LineEnds(r, "error")  \* no server is bound, or the file is gone
  /\ UNCHANGED runRest

\* An upload line is done with its file; a command is sent after its files.
UploadAnswers(r) ==
  /\ runs[r].stage = "upload"
  /\ \/ "upload" \in KindsOf(r) /\ LineEnds(r, "success")
     \/ /\ KindsOf(r) # {"upload"} /\ runs' = [runs EXCEPT ![r].stage = "command"]
        /\ UNCHANGED <<lines, registered, seqs>>
     \/ LineEnds(r, "error")
  /\ UNCHANGED runRest

CommandAnswers(r) ==
  /\ runs[r].stage = "command"
  /\ \E outcome \in {"success", "error"} : LineEnds(r, outcome)
  /\ UNCHANGED runRest

UploadAbortedUnheard(r) == FALSE \* Mutant: the abort of an upload rejects nothing

\* The upload that a pause has aborted is rejected.
UploadAborted(r) == runs[r].stage = "aborted" /\ LineEnds(r, "paused") /\ UNCHANGED runRest

\* requestCommandPause: uploads are aborted at once.
Pause ==
  LET heard == {r \in Runs : runs[r].stage # "over" /\ registered[runs[r].flow] = r /\ ~runs[r].paused}
  IN /\ heard # {}
     /\ runs' = [r \in Runs |-> IF r \notin heard THEN runs[r]
          ELSE [runs[r] EXCEPT !.paused = TRUE, !.stage = IF @ = "upload" THEN "aborted" ELSE @]]
     /\ UNCHANGED <<lines, main, members, registered, seqs, used, edits>>

(***************************************************************************)
(* The editor.  Few of its handlers mind that the flow is running.         *)
(***************************************************************************)
Edits(f) ==
  /\ f \in InLists /\ edits < MaxEdits /\ edits' = edits + 1
  /\ UNCHANGED <<runs, registered, seqs, used>>
Alters(f, to) == Edits(f) /\ lines' = [lines EXCEPT ![f] = to] /\ UNCHANGED <<main, members>>

\* Typing into a line, a file dropped on it, its destination: its status is forgotten.
EditLine(f, i, kind) ==
  /\ i \in DOMAIN lines[f] /\ (lines[f][i].kind = "upload" => kind = "upload")
  /\ Alters(f, [lines[f] EXCEPT ![i].kind = kind, ![i].status = "idle"])

RemoveLine(f, i) ==
  LET rest == RemoveAt(lines[f], i)
  IN i \in DOMAIN lines[f] /\ Alters(f, IF rest = <<>> THEN <<New(f, "blank")>> ELSE rest)

\* Lines are dragged only in a flow that is not running; bound: it stays so while they are.
MoveLine(f, i) ==
  /\ ~IsRunning(f) /\ i + 1 \in DOMAIN lines[f]
  /\ Alters(f, [lines[f] EXCEPT ![i] = lines[f][i + 1], ![i + 1] = lines[f][i]])

AddLine(f) ==
  /\ Len(lines[f]) < MaxLines /\ Alters(f, Append(lines[f], New(f, "blank")))

\* Lines read from a file are new lines.
ImportLines(f) == Alters(f, <<New(f, "command")>>)

\* bindServerToFlow
BindServer(f) == ~IsRunning(f) /\ Alters(f, Idle(lines[f]))

\* replaceCommandGroupFile: in all the flows of the group; bound: upload lines hold the file.
ReplaceGroupFile ==
  /\ members # <<>> /\ Edits(members[1])
  /\ lines' = [f \in Flows |-> IF f \notin ToSet(members) THEN lines[f]
       ELSE [i \in DOMAIN lines[f] |->
              IF lines[f][i].kind = "upload" THEN [lines[f][i] EXCEPT !.status = "idle"] ELSE lines[f][i]]]
  /\ UNCHANGED <<main, members>>

\* cloneCommandFlow
Cloned(f) == Idle(lines[f])

After(list, f, new) == 
  InsertAt(list, Min({i + 1 : i \in {n \in DOMAIN list : list[n] = f}} \cup {Len(list) + 1}), new)

\* duplicateCommandFlow, pasteCommandFlow, copyFlowIntoGroup: after its source, or at the end.
CopyFlow(f, w) ==
  LET copy == Min(Unused)
  IN /\ Edits(f) /\ Unused # {} /\ lines' = [lines EXCEPT ![copy] = Cloned(f)]
     /\ main' = IF w = "main" THEN After(main, f, copy) ELSE main
     /\ members' = IF w = "group" THEN After(members, f, copy) ELSE members

\* #commands-add-flow
AddFlow ==
  /\ main # <<>> /\ Edits(main[1]) /\ Unused # {}
  /\ lines' = [lines EXCEPT ![Min(Unused)] = Written(<<"blank">>)]
  /\ main' = Append(main, Min(Unused)) /\ UNCHANGED members

Without(list, gone) == Picked(list, {i \in DOMAIN list : list[i] \notin gone})

\* #commands-delete; the members of a group that is running are not protected from it.
DeleteFlow(f) ==
  /\ Edits(f) /\ ~IsRunning(f) /\ (f \in ToSet(main) => Len(main) > 1)
  /\ main' = Without(main, {f}) /\ members' = Without(members, {f})
  /\ UNCHANGED lines

\* data-remove-member, data-delete-group: the array is a new one.
RemoveMembers(gone) ==
  /\ members # <<>> /\ Edits(members[1]) /\ gone \subseteq ToSet(members)
  /\ ~seqs["group"].on /\ \A f \in gone : ~IsRunning(f)
  /\ members' = Without(members, gone) /\ UNCHANGED <<lines, main>>

ReorderMembers(i) ==
  /\ i + 1 \in DOMAIN members /\ Edits(members[i])
  /\ members' = [members EXCEPT ![i] = members[i + 1], ![i + 1] = members[i]]
  /\ UNCHANGED <<lines, main>>

\* restoreCommandFavorite: the main list is a new one, of a new flow; the runs of its flows go on.
RestoreFavorite(kinds) ==
  LET new == Min(Unused \ ToSet(main))
  IN /\ edits < MaxEdits /\ edits' = edits + 1 /\ Unused # {}
     /\ main' = <<new>> /\ lines' = [lines EXCEPT ![new] = Written(kinds)]
     /\ seqs' = [seqs EXCEPT !["main"].list =
          IF seqs["main"].on /\ @ = <<>> /\ ~seqs["main"].parallel THEN main ELSE @]
     /\ UNCHANGED <<members, runs, registered, used>>

\* The page is loaded again, 400 ms after the last change or later: applyCommandData,
\* loadCommandLogs.
Reload ==
  /\ edits < MaxEdits /\ edits' = edits + 1
  /\ runs' = [r \in Runs |-> IF Live(r) THEN Logged(runs[r], "paused") ELSE runs[r]]
  /\ registered' = [f \in Flows |-> NoRun] /\ seqs' = [w \in Lists |-> NoSeq]
  /\ lines' = [f \in Flows |-> Idle(lines[f])]
  /\ UNCHANGED <<main, members, used>>

Answer(r) == SendLine(r) \/ UploadAnswers(r) \/ CommandAnswers(r)
GoOn == (\E r \in Runs : Continue(r) \/ UploadAborted(r)) \/ \E w \in Lists : SeqNext(w)

Clicks ==
  \/ \E f \in Flows : RunHere(f) \/ \E i \in 1..2 : RunFromLine(f, i)
  \/ \E w \in Lists, parallel \in BOOLEAN : RunList(w, parallel)
  \/ Pause
  \/ \E f \in Flows, i \in 1..2 : (\E kind \in Kinds : EditLine(f, i, kind)) \/ RemoveLine(f, i)
  \/ \E f \in Flows : MoveLine(f, 1) \/ AddLine(f) \/ ImportLines(f) \/ BindServer(f)
  \/ ReplaceGroupFile
  \/ \E f \in Flows, w \in Lists : CopyFlow(f, w)
  \/ \E f \in Flows : DeleteFlow(f)
  \/ \E f \in Flows : RemoveMembers({f})
  \/ RemoveMembers(ToSet(members))
  \/ ReorderMembers(1)
  \/ AddFlow \/ RestoreFavorite(<<"command">>)
  \/ Reload

Next ==
  \/ GoOn
  \/ ~Due /\ \E r \in Runs : Answer(r)
  \/ ~Due /\ Clicks

\* Timers fire, the server answers (its commands have a time limit), what awaits goes on.
Spec ==
  /\ Init /\ [][Next]_vars
  /\ WF_vars(GoOn) /\ \A r \in Runs : WF_vars(~Due /\ Answer(r))

TypeOK ==
  /\ lines \in [Flows -> Seq(Line)] /\ runs \in [Runs -> Run]
  /\ main \in Seq(Flows) /\ members \in Seq(Flows) /\ IsInjective(main \o members)
  /\ registered \in [Flows -> Runs \cup {NoRun}] /\ used \in 0..MaxRuns

\* Whatever is started from - a line, a flow, all of them, the group - a flow never
\* has two runs that could both send its lines.
OneRunPerFlow ==
  \A r, s \in Runs : r # s /\ Live(r) /\ Live(s) => runs[r].flow # runs[s].flow

\* A line that is shown as running is what a live run of that very flow has sent:
\* never a copy's, nor one that its run has left behind.
RunningLineIsBeingRun ==
  \A f \in Flows : \A i \in DOMAIN lines[f] : lines[f][i].status = "running" =>
    \E r \in Runs : /\ runs[r].flow = f /\ runs[r].line = lines[f][i].id
                    /\ runs[r].stage \in Executing \cup {"aborted"}

\* A run whose log says success has had no line that failed or was cut off, however
\* the flow was edited meanwhile.
SuccessIsWhole == \A r \in Runs : runs[r].result = "success" => ~runs[r].failed

\* In order, the first failure or pause stops the rest: of a batch, only the newest
\* run is anything but a success.
BatchStopsAtFailure ==
  \A r, s \in Runs : r < s /\ runs[r].batch # NoRun /\ runs[s].batch = runs[r].batch
                       => runs[r].result = "success"

\* A run ends, unless the flow had no line at its index any more when a line failed.
RunsEnd == \A r \in Runs : Live(r) ~> ~Live(r) \/ runs[r].stage = "lost"

\* Runs, flows and the lines they send agree (runCommandFlow, cloneCommandFlow).
RunsAreExclusive == TypeOK /\ OneRunPerFlow /\ RunningLineIsBeingRun
=============================================================================
