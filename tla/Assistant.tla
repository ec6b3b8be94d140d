------------------------------ MODULE Assistant ------------------------------
(***************************************************************************)
(* The assistant of the page: its chats, the question that is being        *)
(* answered, the records and files given with it, and what localStorage    *)
(* keeps of the chats.                                                     *)
(*                                                                         *)
(* A handler runs to its end before another starts.  A question is split   *)
(* by two awaits, the answer's head and its body; giving files by one, the *)
(* reading of them.  A message is the question it belongs to and its kind; *)
(* of the chats' records only the presence is kept.  The providers, the    *)
(* model that is asked and what the model answers are left out.            *)
(***************************************************************************)
EXTENDS Naturals, FiniteSets, SequencesExt, ListFilter

CONSTANTS
  Logs,            \* records that may be analysed
  Sizes,           \* sizes of files
  MaxSessions,     \* maxAssistantSessions
  MaxMessages,     \* how many messages a chat keeps (12)
  MaxAttachments,  \* maxAssistantAttachmentCount
  MaxBytes,        \* maxAssistantAttachmentBytes
  Readings,        \* bound on the files that are read at once
  MaxQuestions     \* bound on the questions

ASSUME BoundsAssumption ==
  {MaxSessions, MaxMessages, MaxAttachments, MaxBytes, MaxQuestions} \subseteq Nat \ {0}
ASSUME SizesAssumption == Sizes \subseteq Nat

VARIABLES
  sessions, active,    \* assistantSessions, newest first; the chat that is shown
  context, messages, attachments,
  busy,
  asked, current,      \* questions so far; assistantRequestId, 0 once outdated
  runs,                \* the requests of the questions
  readings,            \* the files being read
  stored               \* the chats in localStorage

chatVars == <<sessions, active, context, messages, stored>>
runVars == <<busy, asked, current, runs>>
fileVars == <<attachments, readings>>
vars == <<chatVars, runVars, fileVars>>

Chats == 1..MaxSessions + 1
Questions == 1..MaxQuestions
NoChat == 0
NoReading == <<>>
Message == [kind : {"question", "answer", "error", "empty"}, of : Questions]
Session == [id : Chats, context : SUBSET Logs, messages : Seq(Message)]

Recent(list, n) == SubSeq(list, Max({1, Len(list) - n + 1}), Len(list))
Foremost(list, n) == SubSeq(list, 1, Min({n, Len(list)}))
Ids(list) == {s.id : s \in ToSet(list)}
SessionOf(list, id) == list[Min({i \in DOMAIN list : list[i].id = id})]
Others(list, id) == Picked(list, {i \in DOMAIN list : list[i].id # id})

Init ==
  /\ sessions = <<>> /\ active = NoChat /\ context = {} /\ messages = <<>>
  /\ attachments = <<>> /\ readings = [r \in Readings |-> NoReading]
  /\ busy = FALSE /\ asked = 0 /\ current = 0
  /\ runs = [q \in Questions |-> "none"]
  /\ stored = <<>>

(***************************************************************************)
(* The chats.  Each operator is over the chats and what the active one     *)
(* shows, and yields the chats.                                            *)
(***************************************************************************)
\* syncActiveAssistantSession: the active chat takes what is shown, in front.
Synced(list, id, shown, said) ==
  IF id \notin Ids(list) THEN list
  ELSE Foremost(<<[id |-> id, context |-> shown, messages |-> Recent(said, MaxMessages)]>>
             \o Others(list, id), MaxSessions)

\* A chat that is not in the list; the identities of dropped ones come again.
NewChat == Min(Chats \ Ids(sessions))

StartedAtEnd(id, shown) == \* Mutant: a new chat goes to the end of the list
  Foremost(Synced(sessions, active, context, messages)
           \o <<[id |-> id, context |-> shown, messages |-> <<>>]>>, MaxSessions)

\* startAssistantSession: the active chat is synced, a new one is in front.
Started(id, shown) ==
  Foremost(<<[id |-> id, context |-> shown, messages |-> <<>>]>>
        \o Synced(sessions, active, context, messages), MaxSessions)

SyncActive == sessions' = Synced(sessions, active', context', messages') /\ stored' = sessions'

\* The button of a record's row.
AddContext(log) ==
  /\ log \notin context
  /\ context' = context \cup {log}
  /\ IF active # NoChat THEN UNCHANGED <<active, messages>> /\ SyncActive
     ELSE /\ active' = NewChat /\ messages' = <<>>
          /\ sessions' = Synced(Started(NewChat, {}), NewChat, context', <<>>) /\ stored' = sessions'
  /\ attachments' = IF active # NoChat THEN attachments ELSE <<>>
  /\ UNCHANGED <<runVars, readings>>

RemoveContext(log) ==
  /\ log \in context /\ context' \in {context \ {log}, {}}  \* {} when it is the analysed one
  /\ UNCHANGED <<active, messages>> /\ SyncActive
  /\ UNCHANGED <<runVars, fileVars>>

\* selectAssistantSession: a question that is being asked goes on.
SelectSession(id) ==
  /\ id \in Ids(sessions) /\ id # active
  /\ active' = id
  /\ context' = SessionOf(sessions, id).context
  /\ messages' = SessionOf(sessions, id).messages
  /\ attachments' = <<>>
  /\ UNCHANGED <<sessions, stored, runVars, readings>>

DeleteSession(id) ==
  LET rest == Others(sessions, id)
  IN /\ id \in Ids(sessions)
     /\ IF id # active THEN sessions' = rest /\ UNCHANGED <<active, context, messages, attachments>>
        ELSE /\ attachments' = <<>>
             /\ IF rest # <<>>
                THEN /\ active' = rest[1].id /\ context' = rest[1].context
                     /\ messages' = rest[1].messages /\ sessions' = rest
                ELSE /\ active' = NewChat /\ context' = {} /\ messages' = <<>>
                     /\ sessions' = <<[id |-> NewChat, context |-> {}, messages |-> <<>>]>>
     /\ stored' = sessions'
     /\ UNCHANGED <<runVars, readings>>

(***************************************************************************)
(* Asking.                                                                 *)
(***************************************************************************)
Ask(list, shown, said) ==
  LET q == asked + 1
  IN /\ q \in Questions
     /\ asked' = q /\ current' = q /\ busy' = TRUE
     /\ messages' = Recent(Append(said, [kind |-> "question", of |-> q]), MaxMessages)
     /\ context' = shown /\ attachments' = <<>>
     /\ sessions' = Synced(list, active', shown, messages') /\ stored' = sessions'

SendAssistantMessage ==
  /\ ~busy
  /\ IF active # NoChat THEN active' = active /\ Ask(sessions, context, messages)
     ELSE active' = NewChat /\ Ask(Started(NewChat, {}), {}, <<>>)
  /\ runs' = [runs EXCEPT ![asked + 1] = "asked"]
  /\ UNCHANGED readings

\* assistantRequestController.abort: a fetch that waits for its head is over; one
\* whose body is being read gets an empty body.
Aborted == [q \in Questions |->
  CASE q = current /\ runs[q] = "asked" -> "over"
    [] q = current /\ runs[q] = "reading" -> "cut"
    [] OTHER -> runs[q]]

ClearAssistantContextBusy == \* Mutant: a new chat leaves the page busy with the last
  /\ runs' = Aborted /\ current' = 0 /\ UNCHANGED <<asked, busy>>
  /\ sessions' = Started(NewChat, {}) /\ stored' = sessions'
  /\ active' = NewChat /\ context' = {} /\ messages' = <<>> /\ attachments' = <<>>
  /\ UNCHANGED readings

ClearAssistantContext ==
  /\ runs' = Aborted /\ current' = 0 /\ busy' = FALSE /\ UNCHANGED asked
  /\ sessions' = Started(NewChat, {}) /\ stored' = sessions'
  /\ active' = NewChat /\ context' = {} /\ messages' = <<>> /\ attachments' = <<>>
  /\ UNCHANGED readings

BeginLogAnalysisUnaborted(log) == \* Mutant: a new analysis lets the last question go on
  /\ active' = NewChat /\ Ask(Started(NewChat, {log}), {log}, <<>>)
  /\ runs' = [runs EXCEPT ![asked + 1] = "asked"]
  /\ UNCHANGED readings

\* The analysis of a record: a chat of its own, asked at once.
BeginLogAnalysis(log) ==
  /\ active' = NewChat /\ Ask(Started(NewChat, {log}), {log}, <<>>)
  /\ runs' = [Aborted EXCEPT ![asked + 1] = "asked"]
  /\ UNCHANGED readings

AnswerHead(q) ==
  /\ runs[q] = "asked" /\ runs' = [runs EXCEPT ![q] = "reading"]
  /\ UNCHANGED <<chatVars, busy, asked, current, fileVars>>

\* What follows the body or its failure: the answer joins the chat that is shown;
\* only the question that is waited for ends the wait and is stored.
Say(kind, q) ==
  /\ runs' = [runs EXCEPT ![q] = "over"]
  /\ messages' = Recent(Append(messages, [kind |-> kind, of |-> q]), MaxMessages)
  /\ UNCHANGED <<active, context, asked, fileVars>>
  /\ IF q # current THEN UNCHANGED <<busy, current, sessions, stored>>
     ELSE busy' = FALSE /\ current' = 0 /\ SyncActive

AnswerBody(q) == runs[q] = "reading" /\ Say("answer", q)
AnswerCut(q) == runs[q] = "cut" /\ Say("empty", q)

\* A failed request of a question that is waited for; none other fails aloud.
FailQuestion(q) == q = current /\ runs[q] \in {"asked", "reading"} /\ Say("error", q)

(***************************************************************************)
(* Files.                                                                  *)
(***************************************************************************)
Bytes(list) == FoldSeq(LAMBDA size, sum : size + sum, 0, list)

AddAttachmentsUncapped(r) == \* Mutant: what was read is added without counting again
  /\ readings[r] # NoReading
  /\ attachments' = attachments \o readings[r]
  /\ readings' = [readings EXCEPT ![r] = NoReading]
  /\ UNCHANGED <<chatVars, runVars>>

\* addAssistantAttachments: which files are taken is decided before they are read.
ReadAttachments(r, files) ==
  /\ readings[r] = NoReading /\ files # <<>>
  /\ Len(files) <= MaxAttachments - Len(attachments)
  /\ Bytes(attachments) + Bytes(files) <= MaxBytes
  /\ readings' = [readings EXCEPT ![r] = files]
  /\ UNCHANGED <<chatVars, runVars, attachments>>

AddAttachments(r) ==
  /\ readings[r] # NoReading
  /\ attachments' = Foremost(attachments \o readings[r], MaxAttachments)
  /\ readings' = [readings EXCEPT ![r] = NoReading]
  /\ UNCHANGED <<chatVars, runVars>>

RemoveAttachment(i) ==
  /\ i \in DOMAIN attachments /\ attachments' = RemoveAt(attachments, i)
  /\ UNCHANGED <<chatVars, runVars, readings>>

\* A reload: loadAssistantSessions shows the newest chat.
ReloadPage ==
  /\ asked > 0
  /\ sessions' = stored
  /\ active' = IF stored = <<>> THEN NoChat ELSE stored[1].id
  /\ context' = IF stored = <<>> THEN {} ELSE stored[1].context
  /\ messages' = IF stored = <<>> THEN <<>> ELSE stored[1].messages
  /\ busy' = FALSE /\ current' = 0
  /\ runs' = [q \in Questions |-> IF runs[q] = "none" THEN "none" ELSE "over"]
  /\ attachments' = <<>> /\ readings' = [r \in Readings |-> NoReading]
  /\ UNCHANGED <<asked, stored>>

Answers == \E q \in Questions : AnswerHead(q) \/ AnswerBody(q) \/ AnswerCut(q)

Next ==
  \/ \E log \in Logs : AddContext(log) \/ RemoveContext(log) \/ BeginLogAnalysis(log)
  \/ \E id \in Chats : SelectSession(id) \/ DeleteSession(id)
  \/ SendAssistantMessage \/ ClearAssistantContext \/ ReloadPage
  \/ \E q \in Questions : AnswerHead(q) \/ AnswerBody(q) \/ AnswerCut(q) \/ FailQuestion(q)
  \/ \E r \in Readings : AddAttachments(r)
  \/ \E r \in Readings, size \in Sizes, n \in 1..MaxAttachments : ReadAttachments(r, [i \in 1..n |-> size])
  \/ \E i \in 1..MaxAttachments : RemoveAttachment(i)

\* The model's server answers or fails in the end.
Spec == Init /\ [][Next]_vars /\ WF_vars(Answers)

(***************************************************************************)
(* Properties.                                                             *)
(***************************************************************************)
TypeOK ==
  /\ sessions \in Seq(Session) /\ Len(sessions) <= MaxSessions /\ IsInjective(sessions)
  /\ active \in Chats \cup {NoChat} /\ context \subseteq Logs
  /\ messages \in Seq(Message) /\ Len(messages) <= MaxMessages
  /\ attachments \in Seq(Sizes) /\ Len(attachments) <= MaxAttachments
  /\ busy \in BOOLEAN /\ asked \in 0..MaxQuestions /\ current \in 0..MaxQuestions
  /\ runs \in [Questions -> {"none", "asked", "reading", "cut", "over"}]
  /\ stored \in Seq(Session)

\* The chat that is shown is one of the list, at its limit too, and every question
\* shown in it is stored with it, so that a reload brings it back
\* (syncActiveAssistantSession, startAssistantSession).
QuestionsSurviveReload ==
  active # NoChat =>
    /\ active \in Ids(sessions)
    /\ \A m \in ToSet(messages) : m.kind = "question" =>
         \E s \in ToSet(stored) : s.id = active /\ m \in ToSet(s.messages)

\* The page is busy exactly while the request of the question it waits for is on
\* its way: neither an abort nor an outdated answer frees or blocks the next.
BusyIsWaiting ==
  /\ busy <=> current # 0
  /\ busy => runs[current] \in {"asked", "reading"}

Kept(list) == UNION {ToSet(s.messages) : s \in ToSet(list)}

\* A question that was given up by a new chat or a new analysis does not speak in
\* the chat that followed: an answer or a failure that no chat has kept yet is of
\* the question that is waited for (the abort, and assistantRequestId).
GivenUpIsSilent ==
  [][\A m \in ToSet(messages') \ (ToSet(messages) \cup Kept(sessions)) :
       m.kind \in {"answer", "error"} => m.of = current]_vars

\* The wait for an answer ends, whichever chats are opened meanwhile.
WaitEnds == busy ~> ~busy

\* The page waits for one request or none, and says so (askAssistant).
WaitIsSound == TypeOK /\ BusyIsWaiting
=============================================================================
