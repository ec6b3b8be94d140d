------------------------------- MODULE LogFeed -------------------------------
(***************************************************************************)
(* The record feed of the log page: the polled bootstrap answers, the live *)
(* stream beside them, pausing, the range selector and the restart of the  *)
(* service, and how both sources are merged into one list.                 *)
(*                                                                         *)
(* Every sync is a fetch (two, when the service turns out to be another    *)
(* one) whose answer may arrive late and out of order: the page polls      *)
(* every three seconds whether or not the last answer has come.  A record  *)
(* is its id and the service (the epoch) that numbered it; records that a  *)
(* history load has brought are older than every live one and are not      *)
(* streamed.  The records of the selected containers, which a batch of the *)
(* stream adds to as well, are in LogScope, the service's window in        *)
(* HistoryWindow.                                                          *)
(***************************************************************************)
EXTENDS Integers, FiniteSets, SequencesExt, ListFilter

CONSTANTS
  HistoryIds,   \* the ids that history loads give out; the others are live
  Capacity,     \* maxStoredLogs, which the page takes for maxBufferedLogs
  Slack,        \* how far below its newest record the page asks again (2000)
  MaxPending,   \* maxPendingStreamLogs
  Syncs,        \* bound on the syncs on their way
  MaxRecords,   \* bound on the records a service numbers
  MaxRestarts,  \* bound on the restarts of the service
  MaxEvents     \* bound on pauses, range changes, failures

ASSUME FeedBoundsAssumption ==
  /\ {Capacity, Slack, MaxPending, MaxRecords} \subseteq Nat \ {0}
  /\ {MaxRestarts, MaxEvents} \subseteq Nat

VARIABLES
  service,   \* which service it is, its s.logs and s.nextLogID
  logs, processed,
  feedPaused, polling,
  stream, wire,  \* the EventSource, and the records on their way on it
  pending,       \* pendingStreamLogs
  syncs,         \* the bootstrap requests and answers on their way
  rangeRequest,  \* the POST of the range selector: none, sent, answered
  events

pageVars == <<logs, processed>>
linkVars == <<stream, wire, pending>>
recordVars == <<service, pageVars, feedPaused, polling, linkVars,
                syncs, rangeRequest, events>>

NoSync == [stage |-> "none"]
NoRequest == "none"

Record == [epoch : 0..MaxRestarts, id : 1..MaxRecords]
Age(r) == r.epoch * 2 * MaxRecords + (IF r.id \in HistoryIds THEN -r.id ELSE r.id)
Newer(r, q) == Age(r) > Age(q)           \* compareLogsNewest
\* sortLogsNewest: a record comes after those that are newer.
NewestFirst(S) ==
  [k \in 1..Cardinality(S) |-> CHOOSE r \in S : Cardinality({q \in S : Newer(q, r)}) = k - 1]
IdsOf(S) == {r.id : r \in S}
Newest(S) == {r \in S : Cardinality({q \in S : Newer(q, r)}) < Capacity}

\* mergeLogs: two lists that are newest first; an incoming record replaces the
\* one of its id.  A list that brings no new id leaves the records alone, unless
\* the caller skips that check.  The walk puts an element after those that come
\* before it in its own list and those of the other list that it gives way to.
TakeNewest(old, new) ==
  LET oldAt == [i \in DOMAIN old |-> i + Cardinality({j \in DOMAIN new : ~Newer(old[i], new[j])})]
      newAt == [j \in DOMAIN new |-> j + Cardinality({i \in DOMAIN old : Newer(old[i], new[j])})]
  IN [k \in 1..Min({Capacity, Len(old) + Len(new)}) |->
        IF \E i \in DOMAIN old : oldAt[i] = k THEN old[CHOOSE i \in DOMAIN old : oldAt[i] = k]
                                              ELSE new[CHOOSE j \in DOMAIN new : newAt[j] = k]]

MergeLogsTwice(existing, incoming, unchecked) == \* Mutant: a record that comes twice is listed twice
  IF incoming = {} \/ (~unchecked /\ IdsOf(incoming) \subseteq IdsOf(ToSet(existing))) THEN existing
  ELSE TakeNewest(existing, NewestFirst(incoming))

MergeLogs(existing, incoming, unchecked) ==
  IF incoming = {} \/ (~unchecked /\ IdsOf(incoming) \subseteq IdsOf(ToSet(existing))) THEN existing
  ELSE TakeNewest(Picked(existing, {i \in DOMAIN existing : existing[i].id \notin IdsOf(incoming)}),
                  NewestFirst(incoming))

KnownLogId == Max({0} \cup IdsOf(ToSet(logs)))

\* The since parameter; 0 asks for everything.
Cursor(known) == IF known > Slack THEN known - Slack ELSE 0

FeedInit ==
  /\ service = [epoch |-> 0, records |-> {}, last |-> 0]
  /\ logs = <<>> /\ processed = 0
  /\ feedPaused = FALSE /\ polling = FALSE
  /\ stream = "none" /\ wire = <<>> /\ pending = <<>>
  /\ syncs = [s \in Syncs |-> NoSync]
  /\ rangeRequest = NoRequest
  /\ events = 0

Event == events < MaxEvents /\ events' = events + 1
RecordFrame == UNCHANGED <<pageVars, feedPaused, polling, pending, syncs, rangeRequest>>

(***************************************************************************)
(* The service.  Two bounds: it streams no record while the page lacks one *)
(* Slack older, and one that has restarted stays behind what the           *)
(* page has counted until the page has noticed.  A restart ends every      *)
(* request that waits; an answer it has sent has arrived by then, and the  *)
(* page's batch timer (100 ms) has fired.                                  *)
(***************************************************************************)
OfAnother(S) == \E q \in S : q.epoch # service.epoch
Unnoticed(id) ==
  /\ OfAnother(ToSet(logs)) => id < processed
  /\ OfAnother(ToSet(pending)) => id < processed + 1

AppendRemoteLog ==
  LET r == [epoch |-> service.epoch, id |-> service.last + 1]
      streamed == stream = "open" /\ r.id \notin HistoryIds
  IN /\ r.id <= MaxRecords /\ Unnoticed(r.id)
     /\ streamed => \A q \in service.records : q.id + Slack > r.id \/ q \in ToSet(logs)
     /\ service' = [service EXCEPT !.last = r.id, !.records = Newest(@ \cup {r})]
     /\ wire' = IF streamed THEN Append(wire, r) ELSE wire
     /\ UNCHANGED <<stream, events>> /\ RecordFrame

RestartService ==
  /\ service.epoch < MaxRestarts /\ service.last > 0 /\ pending = <<>>
  /\ \A s \in Syncs : syncs[s].stage \in {"none", "asked"}
  /\ syncs' = [s \in Syncs |-> NoSync]
  /\ service' = [service EXCEPT !.epoch = @ + 1, !.records = {}, !.last = 0]
  /\ stream' = IF stream = "open" THEN "closed" ELSE stream   \* onerror
  /\ wire' = <<>>
  /\ rangeRequest' = IF rangeRequest = "sent" THEN NoRequest ELSE rangeRequest
  /\ UNCHANGED <<pageVars, feedPaused, polling, pending, events>>

(***************************************************************************)
(* syncGoBackend.                                                          *)
(***************************************************************************)
FreeSyncs == {s \in Syncs : syncs[s] = NoSync}

AskSync(s, incremental) ==
  /\ FreeSyncs # {} /\ s = Min(FreeSyncs)
  /\ syncs' = [syncs EXCEPT ![s] =
       [stage |-> "asked", known |-> IF incremental THEN KnownLogId ELSE 0,
        before |-> IF incremental THEN processed ELSE 0, replace |-> ~incremental]]

\* The polling interval (the history sync timer only asks sooner), and the first
\* sync of a fresh page.
PollSync(s) ==
  /\ IF polling THEN ~feedPaused ELSE syncs = [q \in Syncs |-> NoSync]
  /\ AskSync(s, polling)
  /\ UNCHANGED <<service, pageVars, feedPaused, polling, linkVars, rangeRequest, events>>

RestartedNever(known, before, count) == FALSE \* Mutant: the page does not notice another service

\* Whether a service that has counted so much is another one than the page knows.
Restarted(known, before, count) == known > 0 /\ count < before

\* handleBootstrap.  What the page remembers of its question is only for this test.
AnswerSync(s) ==
  LET ask == syncs[s]
  IN /\ ask.stage = "asked"
     /\ syncs' = [syncs EXCEPT ![s] =
          IF Restarted(ask.known, ask.before, service.last) THEN [stage |-> "restarted"]
          ELSE [stage |-> "answered", replace |-> ask.replace, processed |-> service.last,
                records |-> {r \in service.records : r.id > Cursor(ask.known)}]]
     /\ UNCHANGED <<service, pageVars, feedPaused, polling, linkVars, rangeRequest, events>>

\* It is another service: ask it for everything.
AskRestarted(s) ==
  /\ syncs[s].stage = "restarted"
  /\ syncs' = [syncs EXCEPT ![s] = [stage |-> "asked", known |-> 0, before |-> 0, replace |-> TRUE]]
  /\ UNCHANGED <<service, pageVars, feedPaused, polling, linkVars, rangeRequest, events>>

UpdateLogViewAlways(answer) == \* Mutant: a paused page takes the records of a late answer
  /\ logs' = IF answer.replace THEN NewestFirst(answer.records) ELSE MergeLogs(logs, answer.records, FALSE)
  /\ processed' = answer.processed

\* The part of an answer that a pause holds back.
UpdateLogView(answer) ==
  IF feedPaused THEN UNCHANGED pageVars
  ELSE /\ logs' = IF answer.replace THEN NewestFirst(answer.records) ELSE MergeLogs(logs, answer.records, FALSE)
       /\ processed' = answer.processed

\* connectGoStream: a stream that is there is closed, with what is on its way.
TakeSync(s) ==
  LET answer == syncs[s]
  IN /\ answer.stage = "answered"
     /\ UpdateLogView(answer)
     /\ polling' = TRUE
     /\ IF ~feedPaused /\ stream # "open" THEN stream' = "open" /\ wire' = <<>>
                                         ELSE UNCHANGED <<stream, wire>>
     /\ syncs' = [syncs EXCEPT ![s] = NoSync]
     /\ UNCHANGED <<service, feedPaused, pending, rangeRequest, events>>

FailSync(s) ==
  /\ Event /\ syncs[s] # NoSync
  /\ syncs' = [syncs EXCEPT ![s] = NoSync]
  /\ UNCHANGED <<service, pageVars, feedPaused, polling, linkVars, rangeRequest>>

(***************************************************************************)
(* The live stream: an event, the batch timer, and its end.                *)
(***************************************************************************)

\* onmessage and enqueueStreamLog.
StreamEvent ==
  /\ wire # <<>> /\ wire' = Tail(wire)
  /\ LET queue == Append(pending, Head(wire))
     IN pending' = IF Len(queue) > MaxPending THEN Tail(queue) ELSE queue
  /\ UNCHANGED <<service, pageVars, feedPaused, polling, stream, syncs, rangeRequest, events>>

FlushPendingStreamLogs ==
  /\ pending # <<>> /\ pending' = <<>>
  /\ logs' = MergeLogs(logs, ToSet(pending), TRUE)
  /\ processed' = processed + Len(pending)
  /\ UNCHANGED <<service, feedPaused, polling, stream, wire, syncs, rangeRequest, events>>

BreakStream ==
  /\ Event /\ stream = "open"
  /\ stream' = "closed" /\ wire' = <<>>
  /\ UNCHANGED <<service, pageVars, feedPaused, polling, pending, syncs, rangeRequest>>

(***************************************************************************)
(* The pause button and the range selector.                                *)
(***************************************************************************)
Pause ==
  /\ Event /\ ~feedPaused /\ polling
  /\ feedPaused' = TRUE
  /\ stream' = "closed" /\ wire' = <<>> /\ pending' = <<>>
  /\ UNCHANGED <<service, pageVars, polling, syncs, rangeRequest>>

Resume ==
  /\ feedPaused /\ feedPaused' = FALSE
  /\ \E s \in FreeSyncs : AskSync(s, TRUE)
  /\ UNCHANGED <<service, pageVars, polling, linkVars, rangeRequest, events>>

ChangeFeedRange ==
  /\ Event /\ polling
  /\ rangeRequest' = "sent"
  /\ UNCHANGED <<service, pageVars, feedPaused, polling, linkVars, syncs>>

\* handleRange: a narrower range over a running load starts from nothing.  The
\* request of an earlier change goes unheard here: the service ends with the last.
ServeRange(strictReload) ==
  /\ rangeRequest = "sent"
  /\ rangeRequest' = IF strictReload THEN "reloading" ELSE "filtered"
  /\ service' = [service EXCEPT !.records = IF strictReload THEN {} ELSE @]
  /\ UNCHANGED <<pageVars, feedPaused, polling, linkVars, syncs, events>>

\* The rest of the handler; a reload empties the page, also a paused one.
AnswerReload(s) ==
  /\ rangeRequest \in {"reloading", "filtered"} /\ rangeRequest' = NoRequest
  /\ LET strictReload == rangeRequest = "reloading"
     IN /\ logs' = IF strictReload THEN <<>> ELSE logs
        /\ AskSync(s, ~strictReload)
  /\ UNCHANGED <<service, processed, feedPaused, polling, linkVars, events>>

FeedNext ==
  \/ AppendRemoteLog \/ RestartService
  \/ \E s \in Syncs : PollSync(s) \/ AnswerSync(s) \/ AskRestarted(s) \/ TakeSync(s)
                      \/ FailSync(s) \/ AnswerReload(s)
  \/ StreamEvent \/ FlushPendingStreamLogs \/ BreakStream
  \/ Pause \/ Resume
  \/ ChangeFeedRange
  \/ \E strict \in BOOLEAN : ServeRange(strict)

FeedSpec ==
  /\ FeedInit /\ [][FeedNext]_recordVars
  /\ \A s \in Syncs : /\ WF_recordVars(PollSync(s)) /\ WF_recordVars(AnswerSync(s))
                      /\ WF_recordVars(AskRestarted(s)) /\ WF_recordVars(TakeSync(s))
  /\ WF_recordVars(StreamEvent) /\ WF_recordVars(FlushPendingStreamLogs)
  /\ WF_recordVars(\E strict \in BOOLEAN : ServeRange(strict))
  /\ WF_recordVars(\E s \in Syncs : AnswerReload(s))

(***************************************************************************)
(* Properties.                                                             *)
(***************************************************************************)
Sync == [stage : {"none"}]
        \cup [stage : {"asked"}, known : 0..MaxRecords, before : Nat, replace : BOOLEAN]
        \cup [stage : {"answered"}, replace : BOOLEAN, records : SUBSET Record,
              processed : 0..MaxRecords]
        \cup [stage : {"restarted"}]
FeedTypeOK ==
  /\ service \in [epoch : 0..MaxRestarts, records : SUBSET Record, last : 0..MaxRecords]
  /\ logs \in Seq(Record) /\ Len(logs) <= Capacity /\ processed \in Nat
  /\ {feedPaused, polling} \subseteq BOOLEAN
  /\ stream \in {"none", "open", "closed"} /\ wire \in Seq(Record)
  /\ pending \in Seq(Record) /\ Len(pending) <= MaxPending
  /\ syncs \in [Syncs -> Sync]
  /\ rangeRequest \in {NoRequest, "sent", "reloading", "filtered"}

\* The page lists its records newest first and none twice, whichever of the
\* polled answers, the stream's batches and the full reloads brought them
\* (mergeLogs relies on it: it skips replaced records by their order).
RecordsAreOrdered ==
  \A i, j \in DOMAIN logs : i < j => Newer(logs[i], logs[j]) /\ logs[i].id # logs[j].id

\* A paused page shows no record it did not show when it was paused, whatever
\* answer or event was on its way (updateLogView is decided after the fetch).
PausedPageShowsNothingNew ==
  [][feedPaused /\ feedPaused' =>
       ToSet(logs') \subseteq ToSet(logs) /\ processed' = processed]_recordVars

\* A page that polls comes to show every record the service keeps, with its
\* stream open: through late and failed answers, broken streams, pauses, range
\* changes and a restart of the service (syncGoBackend).
FeedCatchesUp ==
  []<>(feedPaused \/ ~polling \/ (service.records \subseteq ToSet(logs) /\ stream = "open"))

\* The record list is bounded and in order (mergeLogs, flushPendingStreamLogs).
RecordListIsSound == FeedTypeOK /\ RecordsAreOrdered
=============================================================================
