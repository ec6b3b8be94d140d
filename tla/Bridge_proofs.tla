---------------------------- MODULE Bridge_proofs ----------------------------
(***************************************************************************)
(* Proofs about Bridge, for every set of calls, every length of a body and  *)
(* every number of pieces.                                                  *)
(***************************************************************************)
EXTENDS Bridge, TLAPS

USE BoundsAssumption

\* Nothing is under way for a call that has not begun.
Phased ==
  \A c \in Calls :
    phase[c] # "begun" => /\ posted[c] = 0 /\ c \notin calls
                          /\ toGo[c] = <<>> /\ toPage[c] = <<>>
                          /\ handler[c] = "none"

-----------------------------------------------------------------------------
(* Queues.                                                                  *)

\* What a queue holds after one more message.
LEMMA WithinAppend ==
  ASSUME NEW S, NEW queue \in Seq(S), NEW message \in S, NEW what
  PROVE  Within(Append(queue, message), what)
           <=> Within(queue, what) \/ message.what = what
<1>1. ASSUME Within(queue, what)
      PROVE  Within(Append(queue, message), what)
  <2>1. PICK i \in 1 .. Len(queue) : queue[i].what = what
    BY <1>1 DEF Within
  <2>2. i \in 1 .. Len(Append(queue, message)) /\ Append(queue, message)[i] = queue[i]
    OBVIOUS
  <2>3. QED
    BY <2>1, <2>2 DEF Within
<1>2. ASSUME message.what = what
      PROVE  Within(Append(queue, message), what)
  <2>1. /\ Len(queue) + 1 \in 1 .. Len(Append(queue, message))
        /\ Append(queue, message)[Len(queue) + 1] = message
    OBVIOUS
  <2>2. QED
    BY <1>2, <2>1 DEF Within
<1>3. ASSUME Within(Append(queue, message), what), message.what # what
      PROVE  Within(queue, what)
  <2>1. PICK i \in 1 .. Len(Append(queue, message)) : Append(queue, message)[i].what = what
    BY <1>3 DEF Within
  <2>2. i \in 1 .. Len(queue) /\ Append(queue, message)[i] = queue[i]
    BY <1>3, <2>1
  <2>3. QED
    BY <2>1, <2>2 DEF Within
<1>4. QED
  BY <1>1, <1>2, <1>3

\* What a queue holds once its first message is taken.
LEMMA WithinTail ==
  ASSUME NEW S, NEW queue \in Seq(S), queue # <<>>, NEW what
  PROVE  /\ Within(Tail(queue), what) => Within(queue, what)
         /\ Within(queue, what) /\ Head(queue).what # what => Within(Tail(queue), what)
<1>1. ASSUME Within(Tail(queue), what)
      PROVE  Within(queue, what)
  <2>1. PICK i \in 1 .. Len(Tail(queue)) : Tail(queue)[i].what = what
    BY <1>1 DEF Within
  <2>2. i + 1 \in 1 .. Len(queue) /\ queue[i + 1] = Tail(queue)[i]
    OBVIOUS
  <2>3. QED
    BY <2>1, <2>2 DEF Within
<1>2. ASSUME Within(queue, what), Head(queue).what # what
      PROVE  Within(Tail(queue), what)
  <2>1. PICK i \in 1 .. Len(queue) : queue[i].what = what
    BY <1>2 DEF Within
  <2>2. i # 1
    BY <1>2, <2>1
  <2>3. i - 1 \in 1 .. Len(Tail(queue)) /\ Tail(queue)[i - 1] = queue[i]
    BY <2>2
  <2>4. QED
    BY <2>1, <2>3 DEF Within
<1>3. QED
  BY <1>1, <1>2

\* What two queues hold together.
LEMMA WithinConcat ==
  ASSUME NEW S, NEW queue \in Seq(S), NEW more \in Seq(S), NEW what
  PROVE  Within(queue \o more, what) <=> Within(queue, what) \/ Within(more, what)
<1>1. ASSUME Within(queue, what)
      PROVE  Within(queue \o more, what)
  <2>1. PICK i \in 1 .. Len(queue) : queue[i].what = what
    BY <1>1 DEF Within
  <2>2. i \in 1 .. Len(queue \o more) /\ (queue \o more)[i] = queue[i]
    OBVIOUS
  <2>3. QED
    BY <2>1, <2>2 DEF Within
<1>2. ASSUME Within(more, what)
      PROVE  Within(queue \o more, what)
  <2>1. PICK i \in 1 .. Len(more) : more[i].what = what
    BY <1>2 DEF Within
  <2>2. Len(queue) + i \in 1 .. Len(queue \o more) /\ (queue \o more)[Len(queue) + i] = more[i]
    OBVIOUS
  <2>3. QED
    BY <2>1, <2>2 DEF Within
<1>3. ASSUME Within(queue \o more, what)
      PROVE  Within(queue, what) \/ Within(more, what)
  <2>1. PICK i \in 1 .. Len(queue \o more) : (queue \o more)[i].what = what
    BY <1>3 DEF Within
  <2>2. CASE i <= Len(queue)
    <3>1. i \in 1 .. Len(queue) /\ (queue \o more)[i] = queue[i]
      BY <2>2
    <3>2. QED
      BY <2>1, <3>1 DEF Within
  <2>3. CASE i > Len(queue)
    <3>1. i - Len(queue) \in 1 .. Len(more) /\ (queue \o more)[i] = more[i - Len(queue)]
      BY <2>3
    <3>2. QED
      BY <2>1, <3>1 DEF Within
  <2>4. QED
    BY <2>2, <2>3
<1>4. QED
  BY <1>1, <1>2, <1>3
-----------------------------------------------------------------------------
(* Types.                                                                   *)

\* A message of an upload is one of those to Go.
LEMMA MessageType ==
  ASSUME NEW n \in 0 .. MaxBody, NEW i \in Nat
  PROVE  Message(n, i + 1) \in ToGo
  BY DEF Message, ToGo

\* Posting keeps the count and the queue typed.
LEMMA PostType ==
  ASSUME TypeOK, NEW c \in Calls, NEW n \in 0 .. MaxBody, posted[c] <= n, Post(c, n)
  PROVE  /\ posted' \in [Calls -> 0 .. MaxBody + 1]
         /\ toGo' \in [Calls -> Seq(ToGo)]
<1>1. posted[c] \in Nat /\ posted[c] + 1 \in 0 .. MaxBody + 1
  BY SMTT(40) DEF TypeOK
<1>2. Message(n, posted[c] + 1) \in ToGo
  BY <1>1, MessageType
<1>3. QED
  BY <1>1, <1>2, SMTT(40) DEF TypeOK, Post

\* Dropping a call keeps the map and the queue typed.
LEMMA DropCallType ==
  ASSUME TypeOK, NEW c \in Calls, DropCall(c)
  PROVE  calls' \subseteq Calls /\ toGo' \in [Calls -> Seq(ToGo)]
<1>1. [what |-> "cancel", chunk |-> 0] \in ToGo
  BY DEF ToGo
<1>2. QED
  BY <1>1, SMTT(40) DEF TypeOK, DropCall

\* Aborting a call that waits keeps the page's variables typed.
LEMMA AbortWaitingType ==
  ASSUME TypeOK, NEW c \in Calls, AbortWaiting(c)
  PROVE  /\ calls' \subseteq Calls /\ toGo' \in [Calls -> Seq(ToGo)]
         /\ promise' \in [Calls -> {"pending", "resolved", "rejected"}]
         /\ stream' \in [Calls -> {"open", "closed", "errored", "cancelled"}]
<1>1. calls' \subseteq Calls /\ toGo' \in [Calls -> Seq(ToGo)]
  BY DropCallType DEF AbortWaiting
<1>2. /\ promise' \in [Calls -> {"pending", "resolved", "rejected"}]
      /\ stream' \in [Calls -> {"open", "closed", "errored", "cancelled"}]
  <2>1. CASE c \in calls /\ promise[c] = "pending"
    BY <2>1 DEF AbortWaiting, TypeOK
  <2>2. CASE ~(c \in calls /\ promise[c] = "pending")
    <3>1. /\ stream \in [Calls -> {"open", "closed", "errored", "cancelled"}]
          /\ promise \in [Calls -> {"pending", "resolved", "rejected"}]
      BY DEF TypeOK
    <3>2. promise' = promise
      BY <2>2 DEF AbortWaiting
    <3>3. stream' = [stream EXCEPT ![c] = IF stream[c] = "open" THEN "errored" ELSE stream[c]]
      BY <2>2 DEF AbortWaiting
    <3>4. QED
      BY <3>1, <3>2, <3>3
  <2>3. QED
    BY <2>1, <2>2
<1>3. QED
  BY <1>1, <1>2

\* What a flush sends are messages to the page.
LEMMA FlushedType ==
  ASSUME NEW c \in Calls, NEW b \in Seq(1 .. MaxPieces)
  PROVE  Flushed(c, b) \in Seq(ToPage)
<1>1. [what |-> "head", data |-> <<>>] \in ToPage /\ [what |-> "chunk", data |-> b] \in ToPage
  BY DEF ToPage
<1>2. /\ <<[what |-> "head", data |-> <<>>]>> \in Seq(ToPage)
      /\ <<[what |-> "chunk", data |-> b]>> \in Seq(ToPage)
      /\ <<>> \in Seq(ToPage)
  BY <1>1
<1>3. QED
  BY <1>2 DEF Flushed

\* Sending keeps the queues to the page typed.
LEMMA EmitType ==
  ASSUME TypeOK, NEW c \in Calls, NEW messages \in Seq(ToPage), Emit(c, messages)
  PROVE  toPage' \in [Calls -> Seq(ToPage)]
  BY DEF TypeOK, Emit

\* A message that arrives is one to the page; the rest of the queue stays.
LEMMA ArrivesType ==
  ASSUME TypeOK, NEW c \in Calls, NEW what, Arrives(c, what)
  PROVE  toPage' \in [Calls -> Seq(ToPage)] /\ Head(toPage[c]) \in ToPage
  BY DEF TypeOK, Arrives

\* A message that is handed over is one to Go; the rest of the queue stays.
LEMMA HandedType ==
  ASSUME TypeOK, NEW c \in Calls, NEW what, Handed(c, what)
  PROVE  toGo' \in [Calls -> Seq(ToGo)] /\ Head(toGo[c]) \in ToGo
  BY DEF TypeOK, Handed

\* The answer to a bound function is a message to the page.
LEMMA AckType == Ack \in Seq(ToPage)
<1>1. [what |-> "ack", data |-> <<>>] \in ToPage
  BY DEF ToPage
<1>2. QED
  BY <1>1 DEF Ack
-----------------------------------------------------------------------------
Typed == TypeOK /\ Phased

\* A page just loaded has typed variables.
LEMMA InitTyped == Init => Typed
<1>1. SUFFICES ASSUME Init PROVE Typed
  OBVIOUS
<1>2. <<>> \in Seq(ToGo) /\ <<>> \in Seq(ToPage) /\ <<>> \in Seq(1 .. MaxBody)
        /\ <<>> \in Seq(1 .. MaxPieces)
  OBVIOUS
<1>3. TypeOK
  <2>1. /\ phase \in [Calls -> {"idle", "packing", "begun"}]
        /\ kind \in [Calls -> Kinds] /\ size \in [Calls -> 0 .. MaxBody]
        /\ posted \in [Calls -> 0 .. MaxBody + 1] /\ aborted \in [Calls -> BOOLEAN]
        /\ calls \subseteq Calls /\ promise \in [Calls -> {"pending", "resolved", "rejected"}]
        /\ stream \in [Calls -> {"open", "closed", "errored", "cancelled"}]
    BY <1>1 DEF Init, Kinds
  <2>2. /\ source \in [Calls -> {"connecting", "open", "closed"}] /\ shown \in [Calls -> Nat]
        /\ alive \in BOOLEAN /\ closed \in BOOLEAN
        /\ cancels \subseteq Calls /\ cancelled \subseteq Calls
        /\ handler \in [Calls -> {"none", "running", "finished", "done"}]
        /\ sent \subseteq Calls
    BY <1>1 DEF Init
  <2>3. /\ received \in [Calls -> Seq(1 .. MaxPieces)] /\ buf \in [Calls -> Seq(1 .. MaxPieces)]
        /\ bodies \in [Calls -> Seq(1 .. MaxBody)] /\ payload \in [Calls -> Seq(1 .. MaxBody)]
    BY <1>1, <1>2 DEF Init
  <2>4. toGo \in [Calls -> Seq(ToGo)] /\ toPage \in [Calls -> Seq(ToPage)]
    BY <1>1, <1>2 DEF Init
  <2>5. written \in [Calls -> 0 .. MaxPieces]
    BY <1>1 DEF Init
  <2>6. QED
    BY <2>1, <2>2, <2>3, <2>4, <2>5 DEF TypeOK
<1>4. Phased
  BY <1>1 DEF Init, Phased
<1>5. QED
  BY <1>3, <1>4 DEF Typed

\* A step of a call that has begun leaves the others alone.
LEMMA PhasedFrame ==
  ASSUME Phased, NEW c \in Calls, phase[c] = "begun", phase' = phase,
         \A d \in Calls \ {c} :
           /\ posted'[d] = posted[d] /\ (d \in calls' => d \in calls)
           /\ toGo'[d] = toGo[d] /\ toPage'[d] = toPage[d] /\ handler'[d] = handler[d]
  PROVE  Phased'
  BY DEF Phased

\* The actions that start a call or go on with its upload.
LEMMA UploadTyped ==
  ASSUME Typed, NEW c \in Calls, Ask(c) \/ Pack(c) \/ Begin(c) \/ Continue(c)
  PROVE  Typed'
<1>1. CASE Ask(c)
  <2>1. posted[c] = 0 /\ 0 \in 0 .. MaxBody
    BY <1>1 DEF Typed, Phased, Ask
  <2>2. posted' \in [Calls -> 0 .. MaxBody + 1] /\ toGo' \in [Calls -> Seq(ToGo)]
    BY <1>1, <2>1, PostType DEF Ask, Typed
  <2>3. TypeOK'
    BY <1>1, <2>2 DEF Typed, TypeOK, Ask, sourceVars, bridgeVars, writerVars
  <2>4. Phased'
    BY <1>1 DEF Typed, TypeOK, Phased, Ask, Post, writerVars
  <2>5. QED
    BY <2>3, <2>4 DEF Typed
<1>2. CASE Pack(c)
  <2>1. kind' \in [Calls -> Kinds]
    BY <1>2 DEF Pack, Typed, TypeOK, Kinds
  <2>2. size' \in [Calls -> 0 .. MaxBody]
    BY <1>2 DEF Pack, Typed, TypeOK
  <2>3. TypeOK'
    BY <1>2, <2>1, <2>2 DEF Typed, TypeOK, Pack, sourceVars, bridgeVars, writerVars
  <2>4. Phased'
    BY <1>2 DEF Typed, TypeOK, Phased, Pack, writerVars
  <2>5. QED
    BY <2>3, <2>4 DEF Typed
<1>3. CASE Begin(c)
  <2>1. posted[c] = 0 /\ size[c] \in 0 .. MaxBody
    BY <1>3 DEF Typed, TypeOK, Phased, Begin
  <2>2. posted' \in [Calls -> 0 .. MaxBody + 1] /\ toGo' \in [Calls -> Seq(ToGo)]
    <3>1. posted[c] <= size[c]
      BY <2>1
    <3>2. CASE Post(c, size[c])
      BY <2>1, <3>1, <3>2, PostType DEF Typed
    <3>3. CASE UNCHANGED <<posted, toGo>>
      BY <3>3 DEF Typed, TypeOK
    <3>4. QED
      BY <1>3, <3>2, <3>3 DEF Begin
  <2>3. calls' \subseteq Calls /\ promise' \in [Calls -> {"pending", "resolved", "rejected"}]
    BY <1>3 DEF Begin, Typed, TypeOK
  <2>4. TypeOK'
    BY <1>3, <2>2, <2>3 DEF Typed, TypeOK, Begin, sourceVars, bridgeVars, writerVars
  <2>5. Phased'
    <3>1. CASE Post(c, size[c]) /\ calls' = calls \cup {c}
      BY <1>3, <3>1 DEF Typed, TypeOK, Phased, Begin, Post, writerVars
    <3>2. CASE UNCHANGED <<posted, calls, toGo>>
      BY <1>3, <3>2 DEF Typed, TypeOK, Phased, Begin, writerVars
    <3>3. QED
      BY <1>3, <3>1, <3>2 DEF Begin
  <2>6. QED
    BY <2>4, <2>5 DEF Typed
<1>4. CASE Continue(c)
  <2>1. size[c] \in 0 .. MaxBody
    BY DEF Typed, TypeOK
  <2>2. posted' \in [Calls -> 0 .. MaxBody + 1] /\ toGo' \in [Calls -> Seq(ToGo)]
    <3>1. CASE posted[c] <= size[c]
      BY <1>4, <2>1, <3>1, PostType DEF Continue, Typed
    <3>2. CASE ~(posted[c] <= size[c])
      BY <1>4, <3>2 DEF Continue, Typed, TypeOK
    <3>3. QED
      BY <3>1, <3>2
  <2>3. toPage' \in [Calls -> Seq(ToPage)]
    BY <1>4 DEF Continue, Typed, TypeOK
  <2>4. TypeOK'
    BY <1>4, <2>2, <2>3 DEF Typed, TypeOK, Continue, sourceVars, bridgeVars, writerVars
  <2>5. phase[c] = "begun"
    BY <1>4 DEF Typed, Phased, Continue
  <2>6. Phased'
    <3>1. CASE Post(c, size[c])
      BY <1>4, <2>5, <3>1 DEF Typed, TypeOK, Phased, Continue, Post, writerVars
    <3>2. CASE UNCHANGED <<posted, toGo>>
      BY <1>4, <2>5, <3>2 DEF Typed, TypeOK, Phased, Continue, writerVars
    <3>3. QED
      BY <1>4, <3>1, <3>2 DEF Continue
  <2>7. QED
    BY <2>4, <2>6 DEF Typed
<1>5. QED
  BY <1>1, <1>2, <1>3, <1>4

\* The actions that give a call up.
LEMMA AbortTyped ==
  ASSUME Typed, NEW c \in Calls, Abort(c) \/ CancelStream(c) \/ CloseSource(c)
  PROVE  Typed'
<1>1. Phased'
  <2>1. CASE UNCHANGED <<calls, toGo>>
    BY <2>1 DEF Typed, Phased, Abort, CancelStream, CloseSource, writerVars
  <2>2. CASE DropCall(c)
    <3>1. phase[c] = "begun" \/ UNCHANGED <<calls, toGo>>
      BY <2>2 DEF Typed, TypeOK, Phased, DropCall
    <3>2. CASE phase[c] = "begun"
      BY <2>2, <3>2, ZenonT(60) DEF Typed, TypeOK, Phased, DropCall, Abort, CancelStream, CloseSource, writerVars
    <3>3. QED
      BY <2>1, <3>1, <3>2
  <2>3. QED
    BY <2>1, <2>2 DEF Abort, CancelStream, CloseSource, AbortWaiting
<1>2. CASE Abort(c)
  <2>1. /\ calls' \subseteq Calls /\ toGo' \in [Calls -> Seq(ToGo)]
        /\ promise' \in [Calls -> {"pending", "resolved", "rejected"}]
        /\ stream' \in [Calls -> {"open", "closed", "errored", "cancelled"}]
    <3>1. CASE UNCHANGED <<calls, toGo, promise, stream>>
      BY <3>1 DEF Typed, TypeOK
    <3>2. CASE AbortWaiting(c)
      BY <3>2, AbortWaitingType DEF Typed
    <3>3. QED
      BY <1>2, <3>1, <3>2 DEF Abort
  <2>2. TypeOK'
    BY <1>2, <2>1 DEF Typed, TypeOK, Abort, sourceVars, bridgeVars, writerVars
  <2>3. QED
    BY <1>1, <2>2 DEF Typed
<1>3. CASE CancelStream(c)
  <2>1. calls' \subseteq Calls /\ toGo' \in [Calls -> Seq(ToGo)]
    BY <1>3, DropCallType DEF CancelStream, Typed
  <2>2. TypeOK'
    BY <1>3, <2>1 DEF Typed, TypeOK, CancelStream, sourceVars, bridgeVars, writerVars
  <2>3. QED
    BY <1>1, <2>2 DEF Typed
<1>4. CASE CloseSource(c)
  <2>1. /\ calls' \subseteq Calls /\ toGo' \in [Calls -> Seq(ToGo)]
        /\ promise' \in [Calls -> {"pending", "resolved", "rejected"}]
        /\ stream' \in [Calls -> {"open", "closed", "errored", "cancelled"}]
    BY <1>4, AbortWaitingType DEF CloseSource, Typed
  <2>2. TypeOK'
    BY <1>4, <2>1 DEF Typed, TypeOK, CloseSource, sourceVars, bridgeVars, writerVars
  <2>3. QED
    BY <1>1, <2>2 DEF Typed
<1>5. QED
  BY <1>2, <1>3, <1>4

\* The messages from Go.
LEMMA AnswerTyped ==
  ASSUME Typed, NEW c \in Calls, OnHead(c) \/ OnChunk(c) \/ OnEnd(c)
  PROVE  Typed'
<1>1. Phased'
  BY ZenonT(60) DEF Typed, TypeOK, Phased, OnHead, OnChunk, OnEnd, Arrives, writerVars
<1>2. /\ promise \in [Calls -> {"pending", "resolved", "rejected"}]
      /\ stream \in [Calls -> {"open", "closed", "errored", "cancelled"}]
  BY DEF Typed, TypeOK
<1>3. CASE OnHead(c)
  <2>1. toPage' \in [Calls -> Seq(ToPage)]
    BY <1>3, ArrivesType DEF OnHead, Typed
  <2>2. promise' = [promise EXCEPT ![c] =
          IF c \in calls /\ kind[c] # "xhr" /\ promise[c] = "pending" THEN "resolved" ELSE promise[c]]
    BY <1>3 DEF OnHead
  <2>3. promise' \in [Calls -> {"pending", "resolved", "rejected"}]
    BY <1>2, <2>2
  <2>4. TypeOK'
    BY <1>3, <2>1, <2>3 DEF Typed, TypeOK, OnHead, sourceVars, bridgeVars, writerVars
  <2>5. QED
    BY <1>1, <2>4 DEF Typed
<1>4. CASE OnChunk(c)
  <2>1. toPage' \in [Calls -> Seq(ToPage)] /\ Head(toPage[c]) \in ToPage
    BY <1>4, ArrivesType DEF OnChunk, Typed
  <2>2. Head(toPage[c]).data \in Seq(1 .. MaxPieces)
    BY <2>1 DEF ToPage
  <2>3. received[c] \o Head(toPage[c]).data \in Seq(1 .. MaxPieces)
    BY <2>2 DEF Typed, TypeOK
  <2>4. received' \in [Calls -> Seq(1 .. MaxPieces)]
    <3>1. CASE c \in calls /\ stream[c] = "open"
      BY <1>4, <2>3, <3>1 DEF OnChunk, Typed, TypeOK
    <3>2. CASE ~(c \in calls /\ stream[c] = "open")
      BY <1>4, <3>2 DEF OnChunk, Typed, TypeOK
    <3>3. QED
      BY <3>1, <3>2
  <2>5. TypeOK'
    BY <1>4, <2>1, <2>4 DEF Typed, TypeOK, OnChunk, sourceVars, bridgeVars, writerVars
  <2>6. QED
    BY <1>1, <2>5 DEF Typed
<1>5. CASE OnEnd(c)
  <2>1. toPage' \in [Calls -> Seq(ToPage)]
    BY <1>5, ArrivesType DEF OnEnd, Typed
  <2>2. \E v \in {"pending", "resolved", "rejected"} : promise' = [promise EXCEPT ![c] = v]
    <3>1. promise[c] \in {"pending", "resolved", "rejected"}
      BY <1>2
    <3>2. QED
      BY <1>5, <3>1 DEF OnEnd
  <2>3. \E v \in {"open", "closed", "errored", "cancelled"} : stream' = [stream EXCEPT ![c] = v]
    <3>1. stream[c] \in {"open", "closed", "errored", "cancelled"}
      BY <1>2
    <3>2. QED
      BY <1>5, <3>1 DEF OnEnd
  <2>4. /\ promise' \in [Calls -> {"pending", "resolved", "rejected"}]
        /\ stream' \in [Calls -> {"open", "closed", "errored", "cancelled"}]
    BY <1>2, <2>2, <2>3
  <2>5. TypeOK'
    BY <1>5, <2>1, <2>4 DEF Typed, TypeOK, OnEnd, sourceVars, bridgeVars, writerVars
  <2>6. QED
    BY <1>1, <2>5 DEF Typed
<1>6. QED
  BY <1>3, <1>4, <1>5

\* The loop of an EventSource.
LEMMA SourceTyped ==
  ASSUME Typed, NEW c \in Calls, SourceOpens(c) \/ SourceShows(c) \/ SourceEnds(c)
  PROVE  Typed'
<1>1. Phased'
  BY DEF Typed, Phased, SourceOpens, SourceShows, SourceEnds, pageVars, writerVars
<1>2. source' \in [Calls -> {"connecting", "open", "closed"}] /\ shown' \in [Calls -> Nat]
  <2>1. CASE SourceOpens(c)
    BY <2>1 DEF Typed, TypeOK, SourceOpens
  <2>2. CASE SourceShows(c)
    BY <2>2, SMTT(40) DEF Typed, TypeOK, SourceShows
  <2>3. CASE SourceEnds(c)
    BY <2>3 DEF Typed, TypeOK, SourceEnds
  <2>4. QED
    BY <2>1, <2>2, <2>3
<1>3. UNCHANGED <<pageVars, toGo, toPage, alive, bridgeVars, writerVars>>
  BY Zenon DEF SourceOpens, SourceShows, SourceEnds
<1>4. TypeOK'
  BY <1>2, <1>3 DEF Typed, TypeOK, pageVars, bridgeVars, writerVars
<1>5. QED
  BY <1>1, <1>4 DEF Typed

\* The bound functions.
LEMMA GoTyped ==
  ASSUME Typed, NEW c \in Calls, Go(c)
  PROVE  Typed'
<1>1. Phased'
  <2>1. toGo[c] # <<>>
    BY DEF Go, Body, Request, Cancel, Handed
  <2>2. phase[c] = "begun"
    BY <2>1 DEF Typed, Phased
  <2>3. phase' = phase /\ posted' = posted /\ calls' = calls
    BY DEF Go, Body, Request, Cancel, pageVars
  <2>4. \A d \in Calls \ {c} : toGo'[d] = toGo[d]
    BY DEF Typed, TypeOK, Go, Body, Request, Cancel, Handed
  <2>5. \A d \in Calls \ {c} : toPage'[d] = toPage[d]
    BY DEF Typed, TypeOK, Go, Body, Request, Cancel, Emit
  <2>6. \A d \in Calls \ {c} : handler'[d] = handler[d]
    BY SMTT(40) DEF Typed, TypeOK, Go, Body, Request, Cancel, writerVars
  <2>7. QED
    BY <2>2, <2>3, <2>4, <2>5, <2>6, PhasedFrame DEF Typed
<1>2. CASE Body(c)
  <2>1. toGo' \in [Calls -> Seq(ToGo)] /\ Head(toGo[c]) \in ToGo
    BY <1>2, HandedType DEF Body, Typed
  <2>2. toPage' \in [Calls -> Seq(ToPage)]
    BY <1>2, AckType, EmitType DEF Body, Typed
  <2>3. Head(toGo[c]).chunk \in 1 .. MaxBody
    BY <1>2, <2>1 DEF Body, Handed, ToGo
  <2>4. bodies' \in [Calls -> Seq(1 .. MaxBody)]
    <3>1. CASE closed
      BY <1>2, <3>1 DEF Body, Typed, TypeOK
    <3>2. CASE ~closed
      BY <1>2, <2>3, <3>2 DEF Body, Typed, TypeOK
    <3>3. QED
      BY <3>1, <3>2
  <2>5. TypeOK'
    BY <1>2, <2>1, <2>2, <2>4 DEF Typed, TypeOK, Body, pageVars, sourceVars, writerVars
  <2>6. QED
    BY <1>1, <2>5 DEF Typed
<1>3. CASE Request(c)
  <2>1. toGo' \in [Calls -> Seq(ToGo)]
    BY <1>3, HandedType DEF Request, Typed
  <2>2. toPage' \in [Calls -> Seq(ToPage)]
    BY <1>3, AckType, EmitType DEF Request, Typed
  <2>3. /\ bodies' \in [Calls -> Seq(1 .. MaxBody)]
        /\ payload' \in [Calls -> Seq(1 .. MaxBody)]
        /\ handler' \in [Calls -> {"none", "running", "finished", "done"}]
        /\ cancels' \subseteq Calls
    <3>1. CASE closed
      BY <1>3, <3>1 DEF Request, Typed, TypeOK
    <3>2. CASE ~closed
      <4>1. bodies[c] \in Seq(1 .. MaxBody) /\ <<>> \in Seq(1 .. MaxBody)
        BY DEF Typed, TypeOK
      <4>2. /\ bodies \in [Calls -> Seq(1 .. MaxBody)]
            /\ payload \in [Calls -> Seq(1 .. MaxBody)]
            /\ handler \in [Calls -> {"none", "running", "finished", "done"}]
            /\ cancels \subseteq Calls
        BY DEF Typed, TypeOK
      <4>3. /\ payload' = [payload EXCEPT ![c] = bodies[c]]
            /\ bodies' = [bodies EXCEPT ![c] = <<>>]
            /\ cancels' = cancels \cup {c}
            /\ handler' = [handler EXCEPT ![c] = "running"]
        BY <1>3, <3>2 DEF Request
      <4>4. QED
        BY <4>1, <4>2, <4>3
    <3>3. QED
      BY <3>1, <3>2
  <2>4. TypeOK'
    BY <1>3, <2>1, <2>2, <2>3 DEF Typed, TypeOK, Request, pageVars, sourceVars
  <2>5. QED
    BY <1>1, <2>4 DEF Typed
<1>4. CASE Cancel(c)
  <2>1. toGo' \in [Calls -> Seq(ToGo)]
    BY <1>4, HandedType DEF Cancel, Typed
  <2>2. bodies' \in [Calls -> Seq(1 .. MaxBody)] /\ cancelled' \subseteq Calls
    BY <1>4 DEF Cancel, Typed, TypeOK
  <2>3. TypeOK'
    BY <1>4, <2>1, <2>2 DEF Typed, TypeOK, Cancel, pageVars, sourceVars, writerVars
  <2>4. QED
    BY <1>1, <2>3 DEF Typed
<1>5. QED
  BY <1>2, <1>3, <1>4 DEF Go

\* What a handler and its writer say.
LEMMA FinalType ==
  ASSUME TypeOK, NEW c \in Calls, NEW said \in Seq(ToPage), NEW what \in {"end", "fail"}
  PROVE  Append(said, [what |-> what, data |-> <<>>]) \in Seq(ToPage)
<1>1. [what |-> what, data |-> <<>>] \in ToPage
  BY DEF ToPage
<1>2. QED
  BY <1>1

\* A handler's steps keep the types.
LEMMA GoroutineTyped ==
  ASSUME Typed, NEW c \in Calls, Goroutine(c)
  PROVE  Typed'
<1>1. Phased'
  <2>1. handler[c] # "none"
    BY DEF Goroutine, Write, Flush, Return, Fail, Unregister
  <2>2. phase[c] = "begun"
    BY <2>1 DEF Typed, Phased
  <2>3. phase' = phase /\ posted' = posted /\ calls' = calls /\ toGo' = toGo
    BY DEF Goroutine, Write, Flush, Return, Fail, Unregister, pageVars
  <2>4. \A d \in Calls \ {c} : toPage'[d] = toPage[d]
    <3>1. (\E messages : Emit(c, messages)) \/ toPage' = toPage
      BY DEF Goroutine, Write, Flush, Return, Fail, Unregister
    <3>2. QED
      BY <3>1 DEF Typed, TypeOK, Emit
  <2>5. \A d \in Calls \ {c} : handler'[d] = handler[d]
    BY SMTT(40) DEF Typed, TypeOK, Goroutine, Write, Flush, Return, Fail, Unregister
  <2>6. QED
    BY <2>2, <2>3, <2>4, <2>5, PhasedFrame DEF Typed
<1>2. /\ buf[c] \in Seq(1 .. MaxPieces) /\ Flushed(c, buf[c]) \in Seq(ToPage)
      /\ <<>> \in Seq(ToPage) /\ <<>> \in Seq(1 .. MaxPieces)
  BY FlushedType DEF Typed, TypeOK
<1>3. CASE Write(c)
  <2>1. written[c] + 1 \in 1 .. MaxPieces
    <3>1. written[c] \in 0 .. MaxPieces
      BY DEF Typed, TypeOK
    <3>2. written[c] < MaxPieces
      BY <1>3 DEF Write
    <3>3. QED
      BY <3>1, <3>2
  <2>2. Append(buf[c], written[c] + 1) \in Seq(1 .. MaxPieces)
    BY <1>2, <2>1
  <2>3. Flushed(c, Append(buf[c], written[c] + 1)) \in Seq(ToPage)
    BY <2>2, FlushedType
  <2>4. /\ toPage' \in [Calls -> Seq(ToPage)] /\ sent' \subseteq Calls
        /\ buf' \in [Calls -> Seq(1 .. MaxPieces)]
    <3>1. CASE buf' = [buf EXCEPT ![c] = Append(buf[c], written[c] + 1)] /\ UNCHANGED <<sent, toPage>>
      BY <2>2, <3>1 DEF Typed, TypeOK
    <3>2. CASE /\ Emit(c, Flushed(c, Append(buf[c], written[c] + 1)))
               /\ buf' = [buf EXCEPT ![c] = <<>>] /\ sent' = sent \cup {c}
      <4>1. toPage' \in [Calls -> Seq(ToPage)]
        BY <2>3, <3>2, EmitType DEF Typed
      <4>2. QED
        BY <1>2, <3>2, <4>1 DEF Typed, TypeOK
    <3>3. QED
      BY <1>3, <3>1, <3>2 DEF Write
  <2>5. written' \in [Calls -> 0 .. MaxPieces]
    BY <1>3, <2>1, SMTT(40) DEF Write, Typed, TypeOK
  <2>6. TypeOK'
    BY <1>3, <2>4, <2>5 DEF Typed, TypeOK, Write, pageVars, sourceVars, bridgeVars
  <2>7. QED
    BY <1>1, <2>6 DEF Typed
<1>4. CASE Flush(c)
  <2>1. toPage' \in [Calls -> Seq(ToPage)]
    BY <1>2, <1>4, EmitType DEF Flush, Typed
  <2>2. buf' \in [Calls -> Seq(1 .. MaxPieces)]
    BY <1>2, <1>4 DEF Flush, Typed, TypeOK
  <2>3. TypeOK'
    BY <1>4, <2>1, <2>2 DEF Typed, TypeOK, Flush, pageVars, sourceVars, bridgeVars
  <2>4. QED
    BY <1>1, <2>3 DEF Typed
<1>5. CASE Return(c)
  <2>1. Append(Flushed(c, buf[c]), [what |-> "end", data |-> <<>>]) \in Seq(ToPage)
    BY <1>2, FinalType DEF Typed
  <2>2. toPage' \in [Calls -> Seq(ToPage)]
    BY <1>5, <2>1, EmitType DEF Return, Typed
  <2>3. buf' \in [Calls -> Seq(1 .. MaxPieces)]
    BY <1>2, <1>5 DEF Return, Typed, TypeOK
  <2>4. TypeOK'
    BY <1>5, <2>2, <2>3 DEF Typed, TypeOK, Return, pageVars, sourceVars, bridgeVars
  <2>5. QED
    BY <1>1, <2>4 DEF Typed
<1>6. CASE Fail(c)
  <2>1. (IF c \in sent THEN Flushed(c, buf[c]) ELSE <<>>) \in Seq(ToPage)
    BY <1>2
  <2>2. Append(IF c \in sent THEN Flushed(c, buf[c]) ELSE <<>>, [what |-> "fail", data |-> <<>>])
          \in Seq(ToPage)
    BY <2>1, FinalType DEF Typed
  <2>3. toPage' \in [Calls -> Seq(ToPage)]
    BY <1>6, <2>2, EmitType DEF Fail, Typed
  <2>4. buf' \in [Calls -> Seq(1 .. MaxPieces)]
    <3>1. CASE c \in sent
      BY <1>6, <3>1 DEF Fail, Typed, TypeOK
    <3>2. CASE c \notin sent
      BY <1>6, <3>2 DEF Fail, Typed, TypeOK
    <3>3. QED
      BY <3>1, <3>2
  <2>5. TypeOK'
    BY <1>6, <2>3, <2>4 DEF Typed, TypeOK, Fail, pageVars, sourceVars, bridgeVars
  <2>6. QED
    BY <1>1, <2>5 DEF Typed
<1>7. CASE Unregister(c)
  <2>1. TypeOK'
    BY <1>7 DEF Typed, TypeOK, Unregister, pageVars, sourceVars
  <2>2. QED
    BY <1>1, <2>1 DEF Typed
<1>8. QED
  BY <1>3, <1>4, <1>5, <1>6, <1>7 DEF Goroutine

\* Closing the window keeps the types.
LEMMA WindowTyped ==
  ASSUME Typed, Quit \/ CloseBridge
  PROVE  Typed'
<1>1. Phased'
  BY DEF Typed, Phased, Quit, CloseBridge, pageVars, writerVars
<1>2. CASE Quit
  <2>1. toPage' \in [Calls -> Seq(ToPage)]
    BY <1>2 DEF Quit
  <2>2. TypeOK'
    BY <1>2, <2>1 DEF Typed, TypeOK, Quit, pageVars, sourceVars, bridgeVars, writerVars
  <2>3. QED
    BY <1>1, <2>2 DEF Typed
<1>3. CASE CloseBridge
  <2>1. bodies' \in [Calls -> Seq(1 .. MaxBody)] /\ cancelled' \subseteq Calls
    BY <1>3 DEF CloseBridge, Typed, TypeOK
  <2>2. TypeOK'
    BY <1>3, <2>1 DEF Typed, TypeOK, CloseBridge, pageVars, sourceVars, writerVars
  <2>3. QED
    BY <1>1, <2>2 DEF Typed
<1>4. QED
  BY <1>2, <1>3

\* Every step keeps the types.
LEMMA NextTyped == Typed /\ [Next]_vars => Typed'
<1>1. SUFFICES ASSUME Typed, [Next]_vars PROVE Typed'
  OBVIOUS
<1>2. CASE UNCHANGED vars
  <2>1. Phased'
    BY <1>1, <1>2 DEF Typed, Phased, vars, pageVars, writerVars
  <2>2. TypeOK'
    BY <1>1, <1>2 DEF Typed, TypeOK, vars, pageVars, sourceVars, bridgeVars, writerVars
  <2>3. QED
    BY <2>1, <2>2 DEF Typed
<1>3. CASE \E c \in Calls : Page(c) \/ Go(c) \/ Goroutine(c)
  BY <1>1, <1>3, UploadTyped, AbortTyped, AnswerTyped, SourceTyped, GoTyped, GoroutineTyped DEF Page
<1>4. QED
  BY <1>1, <1>2, <1>3, WindowTyped DEF Next

\* Type correctness of the page, the channel, the bridge and its writers.
THEOREM TypeCorrect == Spec => []TypeOK
<1>1. Typed => TypeOK
  BY DEF Typed
<1>2. QED
  BY <1>1, InitTyped, NextTyped, PTL DEF Spec
-----------------------------------------------------------------------------
(* What runs is registered, and a closed bridge is idle.                    *)

Registered ==
  /\ closed => ~alive
  /\ \A c \in Calls : handler[c] = "running" => c \in cancels
Kept == Typed /\ Registered /\ ClosedBridgeIsIdle

\* Nothing runs at first.
LEMMA InitKept == Init => Kept
  BY InitTyped DEF Init, Kept, Registered, ClosedBridgeIsIdle

\* The page does not touch what the bridge keeps.
LEMMA PageKept ==
  ASSUME Kept, NEW c \in Calls, Page(c)
  PROVE  Registered' /\ ClosedBridgeIsIdle'
<1>1. UNCHANGED <<alive, closed, bodies, cancels, cancelled, handler>>
  <2>1. CASE Ask(c) \/ Pack(c) \/ Begin(c) \/ Continue(c)
    BY <2>1 DEF Ask, Pack, Begin, Continue, bridgeVars, writerVars
  <2>2. CASE Abort(c) \/ CancelStream(c) \/ CloseSource(c)
    BY <2>2 DEF Abort, CancelStream, CloseSource, bridgeVars, writerVars
  <2>3. CASE OnHead(c) \/ OnChunk(c) \/ OnEnd(c)
    BY <2>3 DEF OnHead, OnChunk, OnEnd, bridgeVars, writerVars
  <2>4. CASE SourceOpens(c) \/ SourceShows(c) \/ SourceEnds(c)
    BY <2>4 DEF SourceOpens, SourceShows, SourceEnds, bridgeVars, writerVars
  <2>5. QED
    BY <2>1, <2>2, <2>3, <2>4 DEF Page
<1>2. QED
  BY <1>1 DEF Kept, Registered, ClosedBridgeIsIdle

\* The bound functions register what they start (bridge.request).
LEMMA GoKept ==
  ASSUME Kept, NEW c \in Calls, Go(c)
  PROVE  Registered' /\ ClosedBridgeIsIdle'
<1>1. CASE Body(c)
  BY <1>1 DEF Kept, Typed, TypeOK, Registered, ClosedBridgeIsIdle, Body, writerVars
<1>2. CASE Request(c)
  <2>1. CASE closed
    BY <1>2, <2>1 DEF Kept, Registered, ClosedBridgeIsIdle, Request
  <2>2. CASE ~closed
    BY <1>2, <2>2 DEF Kept, Typed, TypeOK, Registered, ClosedBridgeIsIdle, Request
  <2>3. QED
    BY <2>1, <2>2
<1>3. CASE Cancel(c)
  BY <1>3 DEF Kept, Typed, TypeOK, Registered, ClosedBridgeIsIdle, Cancel, writerVars
<1>4. QED
  BY <1>1, <1>2, <1>3 DEF Go

\* A handler is registered for as long as it runs.
LEMMA GoroutineKept ==
  ASSUME Kept, NEW c \in Calls, Goroutine(c)
  PROVE  Registered' /\ ClosedBridgeIsIdle'
<1>1. CASE Unregister(c)
  BY <1>1 DEF Kept, Typed, TypeOK, Registered, ClosedBridgeIsIdle, Unregister
<1>2. CASE Write(c) \/ Flush(c) \/ Return(c) \/ Fail(c)
  <2>1. UNCHANGED <<alive, closed, bodies, cancels, cancelled>>
    BY <1>2 DEF Write, Flush, Return, Fail, bridgeVars
  <2>2. \A d \in Calls : handler'[d] = "running" => handler[d] = "running"
    BY <1>2 DEF Kept, Typed, TypeOK, Write, Flush, Return, Fail
  <2>3. QED
    BY <2>1, <2>2 DEF Kept, Registered, ClosedBridgeIsIdle
<1>3. QED
  BY <1>1, <1>2 DEF Goroutine

\* Closing the bridge cancels what is registered (bridge.close).
LEMMA WindowKept ==
  ASSUME Kept, Quit \/ CloseBridge
  PROVE  Registered' /\ ClosedBridgeIsIdle'
<1>1. CASE Quit
  BY <1>1 DEF Kept, Registered, ClosedBridgeIsIdle, Quit, bridgeVars, writerVars
<1>2. CASE CloseBridge
  BY <1>2 DEF Kept, Registered, ClosedBridgeIsIdle, CloseBridge, writerVars
<1>3. QED
  BY <1>1, <1>2

\* Every step keeps what runs registered.
LEMMA NextKept == Kept /\ [Next]_vars => Kept'
<1>1. SUFFICES ASSUME Kept, [Next]_vars PROVE Registered' /\ ClosedBridgeIsIdle'
  BY NextTyped DEF Kept
<1>2. CASE UNCHANGED vars
  BY <1>1, <1>2 DEF Kept, Registered, ClosedBridgeIsIdle, vars, bridgeVars, writerVars
<1>3. QED
  BY <1>1, <1>2, PageKept, GoKept, GoroutineKept, WindowKept DEF Next

\* A closed bridge keeps no upload and has cancelled every request that runs,
\* whatever the page still hands it.
THEOREM ClosedBridgeIsIdleAlways == Spec => []ClosedBridgeIsIdle
<1>1. Kept => ClosedBridgeIsIdle
  BY DEF Kept
<1>2. QED
  BY <1>1, InitKept, NextKept, PTL DEF Spec
-----------------------------------------------------------------------------
(* No call is forgotten.                                                    *)

Waiting == Kept /\ WaitingCallsAreCarried

\* No call waits at first.
LEMMA InitWaiting == Init => Waiting
  BY InitKept DEF Init, Waiting, WaitingCallsAreCarried

\* A step of one call carries the others as before.
LEMMA CarriedFrame ==
  ASSUME Waiting, NEW c \in Calls, calls' \subseteq calls \cup {c}, alive' = alive,
         \A d \in Calls \ {c} : /\ toGo'[d] = toGo[d] /\ toPage'[d] = toPage[d]
                                /\ posted'[d] = posted[d] /\ size'[d] = size[d]
                                /\ handler'[d] = handler[d],
         alive /\ c \in calls' => Carried(c)'
  PROVE  WaitingCallsAreCarried'
<1>1. SUFFICES ASSUME alive, NEW d \in calls', d # c PROVE Carried(d)'
  BY DEF WaitingCallsAreCarried
<1>2. d \in calls /\ d \in Calls
  BY <1>1 DEF Waiting, Kept, Typed, TypeOK
<1>3. Carried(d)
  BY <1>1, <1>2 DEF Waiting, WaitingCallsAreCarried
<1>4. QED
  BY <1>1, <1>2, <1>3 DEF Carried

\* A step that moves no message leaves every call carried.
LEMMA CarriedUnchanged ==
  ASSUME Waiting, UNCHANGED <<alive, calls, toGo, toPage, posted, size, handler>>
  PROVE  WaitingCallsAreCarried'
  BY DEF Waiting, WaitingCallsAreCarried, Carried, Within

\* The types the queues of a call have.
LEMMA QueueTypes ==
  ASSUME Waiting, NEW c \in Calls
  PROVE  /\ toGo[c] \in Seq(ToGo) /\ toPage[c] \in Seq(ToPage)
         /\ posted[c] \in 0 .. MaxBody + 1 /\ size[c] \in 0 .. MaxBody
         /\ toGo \in [Calls -> Seq(ToGo)] /\ toPage \in [Calls -> Seq(ToPage)]
         /\ posted \in [Calls -> 0 .. MaxBody + 1] /\ size \in [Calls -> 0 .. MaxBody]
         /\ handler \in [Calls -> {"none", "running", "finished", "done"}]
  BY DEF Waiting, Kept, Typed, TypeOK

\* The message start() posts carries the call on.
LEMMA PostCarries ==
  ASSUME Waiting, NEW c \in Calls, Post(c, size[c]), posted[c] <= size[c], size'[c] = size[c]
  PROVE  Carried(c)'
<1>1. Message(size[c], posted[c] + 1) \in ToGo
  BY QueueTypes, MessageType
<1>2. /\ toGo'[c] = Append(toGo[c], Message(size[c], posted[c] + 1))
      /\ posted'[c] = posted[c] + 1
  BY QueueTypes DEF Post
<1>3. CASE posted[c] + 1 <= size[c]
  <2>1. Message(size[c], posted[c] + 1).what = "body"
    BY <1>3 DEF Message
  <2>2. Within(toGo'[c], "body")
    BY <1>1, <1>2, <2>1, QueueTypes, WithinAppend
  <2>3. posted'[c] <= size'[c]
    BY <1>2, <1>3
  <2>4. QED
    BY <2>2, <2>3 DEF Carried, Within
<1>4. CASE ~(posted[c] + 1 <= size[c])
  <2>1. Message(size[c], posted[c] + 1).what = "request"
    BY <1>4 DEF Message
  <2>2. Within(toGo'[c], "request")
    BY <1>1, <1>2, <2>1, QueueTypes, WithinAppend
  <2>3. QED
    BY <2>2 DEF Carried, Within
<1>5. QED
  BY <1>3, <1>4

\* An upload that begins or goes on is carried by its next message.
LEMMA UploadWaiting ==
  ASSUME Waiting, NEW c \in Calls, Ask(c) \/ Pack(c) \/ Begin(c) \/ Continue(c)
  PROVE  WaitingCallsAreCarried'
<1>1. calls' \subseteq calls \cup {c} /\ alive' = alive
  BY DEF Ask, Pack, Begin, Continue
<1>2. \A d \in Calls \ {c} : /\ toGo'[d] = toGo[d] /\ toPage'[d] = toPage[d]
                             /\ posted'[d] = posted[d] /\ size'[d] = size[d]
                             /\ handler'[d] = handler[d]
  BY QueueTypes DEF Ask, Pack, Begin, Continue, Post, writerVars
<1>3. ASSUME alive, c \in calls'
      PROVE  Carried(c)'
  <2>1. CASE Ask(c)
    <3>1. toGo'[c] = Append(toGo[c], Message(0, posted[c] + 1)) /\ posted[c] = 0
      BY <2>1, QueueTypes DEF Ask, Post, Waiting, Kept, Typed, Phased
    <3>2. Message(0, posted[c] + 1) \in ToGo /\ Message(0, posted[c] + 1).what = "request"
      BY <3>1 DEF Message, ToGo
    <3>3. Within(toGo'[c], "request")
      BY <3>1, <3>2, QueueTypes, WithinAppend
    <3>4. QED
      BY <3>3 DEF Carried, Within
  <2>2. CASE Pack(c)
    BY <1>3, <2>2 DEF Pack, Waiting, Kept, Typed, Phased
  <2>3. CASE Begin(c)
    <3>1. c \notin calls /\ posted[c] = 0
      BY <2>3 DEF Begin, Waiting, Kept, Typed, Phased
    <3>2. Post(c, size[c]) /\ size' = size /\ posted[c] <= size[c]
      BY <1>3, <2>3, <3>1, QueueTypes DEF Begin
    <3>3. QED
      BY <3>2, PostCarries
  <2>4. CASE Continue(c)
    <3>1. size' = size /\ calls' = calls /\ handler' = handler
      BY <2>4 DEF Continue, writerVars
    <3>2. CASE posted[c] <= size[c]
      BY <2>4, <3>1, <3>2, PostCarries DEF Continue
    <3>3. CASE ~(posted[c] <= size[c])
      <4>1. /\ toGo' = toGo /\ posted' = posted
            /\ toPage[c] # <<>> /\ Head(toPage[c]).what = "ack" /\ toPage'[c] = Tail(toPage[c])
        BY <2>4, <3>3, QueueTypes DEF Continue
      <4>2. /\ Within(toPage[c], "end") => Within(toPage'[c], "end")
            /\ Within(toPage[c], "fail") => Within(toPage'[c], "fail")
        BY <4>1, QueueTypes, WithinTail
      <4>3. Carried(c)
        BY <1>3, <3>1 DEF Waiting, WaitingCallsAreCarried
      <4>4. QED
        BY <3>1, <3>3, <4>1, <4>2, <4>3 DEF Carried, Within
    <3>4. QED
      BY <3>2, <3>3
  <2>5. QED
    BY <2>1, <2>2, <2>3, <2>4
<1>4. QED
  BY <1>1, <1>2, <1>3, CarriedFrame

\* A call that is given up no longer waits.
LEMMA AbortWaitingCalls ==
  ASSUME Waiting, NEW c \in Calls, Abort(c) \/ CancelStream(c) \/ CloseSource(c)
  PROVE  WaitingCallsAreCarried'
<1>1. CASE UNCHANGED <<calls, toGo>>
  <2>1. UNCHANGED <<alive, toPage, posted, size, handler>>
    BY DEF Abort, CancelStream, CloseSource, writerVars
  <2>2. QED
    BY <1>1, <2>1, CarriedUnchanged
<1>2. CASE DropCall(c)
  <2>1. calls' \subseteq calls \cup {c} /\ c \notin calls'
    BY <1>2 DEF DropCall
  <2>2. UNCHANGED <<alive, toPage, posted, size, handler>>
    BY DEF Abort, CancelStream, CloseSource, writerVars
  <2>3. \A d \in Calls \ {c} : toGo'[d] = toGo[d]
    BY <1>2, QueueTypes DEF DropCall
  <2>4. QED
    BY <2>1, <2>2, <2>3, CarriedFrame
<1>3. QED
  BY <1>1, <1>2 DEF Abort, CancelStream, CloseSource, AbortWaiting

\* Messages from Go are taken one by one, the end last.
LEMMA AnswerWaiting ==
  ASSUME Waiting, NEW c \in Calls, OnHead(c) \/ OnChunk(c) \/ OnEnd(c)
  PROVE  WaitingCallsAreCarried'
<1>1. calls' \subseteq calls \cup {c} /\ UNCHANGED <<alive, toGo, posted, size, handler>>
  BY DEF OnHead, OnChunk, OnEnd, writerVars
<1>2. /\ toPage[c] # <<>> /\ toPage'[c] = Tail(toPage[c])
      /\ \A d \in Calls \ {c} : toPage'[d] = toPage[d]
  BY QueueTypes DEF OnHead, OnChunk, OnEnd, Arrives
<1>3. ASSUME alive, c \in calls'
      PROVE  Carried(c)'
  <2>1. /\ Head(toPage[c]).what \in {"head", "chunk"} /\ c \in calls
    BY <1>3 DEF OnHead, OnChunk, OnEnd, Arrives
  <2>2. /\ Within(toPage[c], "ack") => Within(toPage'[c], "ack")
        /\ Within(toPage[c], "end") => Within(toPage'[c], "end")
        /\ Within(toPage[c], "fail") => Within(toPage'[c], "fail")
    BY <1>2, <2>1, QueueTypes, WithinTail
  <2>3. Carried(c)
    BY <1>3, <2>1 DEF Waiting, WaitingCallsAreCarried
  <2>4. QED
    BY <1>1, <2>2, <2>3 DEF Carried, Within
<1>4. QED
  BY <1>1, <1>2, <1>3, CarriedFrame

\* The loop of an EventSource moves no message.
LEMMA SourceWaiting ==
  ASSUME Waiting, NEW c \in Calls, SourceOpens(c) \/ SourceShows(c) \/ SourceEnds(c)
  PROVE  WaitingCallsAreCarried'
<1>1. UNCHANGED <<alive, calls, toGo, toPage, posted, size, handler>>
  BY DEF SourceOpens, SourceShows, SourceEnds, pageVars, writerVars
<1>2. QED
  BY <1>1, CarriedUnchanged

\* Go answers a chunk with an acknowledgement and a request with a handler.
LEMMA GoWaiting ==
  ASSUME Waiting, NEW c \in Calls, Go(c)
  PROVE  WaitingCallsAreCarried'
<1>1. UNCHANGED <<calls, alive, posted, size>>
  BY DEF Go, Body, Request, Cancel, pageVars
<1>2. /\ toGo[c] # <<>> /\ toGo'[c] = Tail(toGo[c])
      /\ \A d \in Calls \ {c} : toGo'[d] = toGo[d]
  BY QueueTypes DEF Go, Body, Request, Cancel, Handed
<1>3. \A d \in Calls \ {c} : toPage'[d] = toPage[d] /\ handler'[d] = handler[d]
  BY QueueTypes DEF Go, Body, Request, Cancel, Emit, writerVars
<1>4. ASSUME alive, c \in calls'
      PROVE  Carried(c)'
  <2>1. Carried(c)
    BY <1>1, <1>4 DEF Waiting, WaitingCallsAreCarried
  <2>2. CASE Body(c)
    <3>1. toPage'[c] = toPage[c] \o Ack /\ handler' = handler
      BY <1>4, <2>2, QueueTypes DEF Body, Emit, writerVars
    <3>2. Within(Ack, "ack")
      BY DEF Within, Ack
    <3>3. /\ Within(toPage'[c], "ack")
          /\ Within(toPage[c], "end") => Within(toPage'[c], "end")
          /\ Within(toPage[c], "fail") => Within(toPage'[c], "fail")
      BY <3>1, <3>2, AckType, QueueTypes, WithinConcat
    <3>4. Within(toGo[c], "request") => Within(toGo'[c], "request")
      BY <1>2, <2>2, QueueTypes, WithinTail DEF Body, Handed
    <3>5. QED
      BY <1>1, <2>1, <3>1, <3>3, <3>4 DEF Carried, Within
  <2>3. CASE Request(c)
    <3>1. handler'[c] = "running"
      BY <1>4, <2>3, QueueTypes DEF Request, Waiting, Kept, Registered
    <3>2. QED
      BY <3>1 DEF Carried
  <2>4. CASE Cancel(c)
    <3>1. toPage' = toPage /\ handler' = handler
      BY <2>4 DEF Cancel, writerVars
    <3>2. /\ Within(toGo[c], "request") => Within(toGo'[c], "request")
          /\ Within(toGo[c], "body") => Within(toGo'[c], "body")
      BY <1>2, <2>4, QueueTypes, WithinTail DEF Cancel, Handed
    <3>3. QED
      BY <1>1, <2>1, <3>1, <3>2 DEF Carried, Within
  <2>5. QED
    BY <2>2, <2>3, <2>4 DEF Go
<1>5. QED
  BY <1>1, <1>2, <1>3, <1>4, CarriedFrame

\* A handler goes on, or says the end.
LEMMA FinalWithin ==
  ASSUME Waiting, NEW c \in Calls, NEW said \in Seq(ToPage), NEW what \in {"end", "fail"}, alive,
         Emit(c, Append(said, [what |-> what, data |-> <<>>]))
  PROVE  Within(toPage'[c], what)
<1>1. [what |-> what, data |-> <<>>] \in ToPage
  BY DEF ToPage
<1>2. toPage'[c] = toPage[c] \o Append(said, [what |-> what, data |-> <<>>])
  BY QueueTypes DEF Emit
<1>3. Within(Append(said, [what |-> what, data |-> <<>>]), what)
  BY <1>1, WithinAppend
<1>4. Append(said, [what |-> what, data |-> <<>>]) \in Seq(ToPage)
  BY <1>1
<1>5. toPage[c] \in Seq(ToPage)
  BY QueueTypes
<1>6. \A queue, more \in Seq(ToPage) : Within(more, what) => Within(queue \o more, what)
  BY WithinConcat
<1>7. Within(toPage[c] \o Append(said, [what |-> what, data |-> <<>>]), what)
  BY <1>3, <1>4, <1>5, <1>6, Zenon
<1>8. QED
  BY <1>2, <1>7

\* A handler that ends has sent an end (bridgeWriter.finish).
LEMMA GoroutineWaiting ==
  ASSUME Waiting, NEW c \in Calls, Goroutine(c)
  PROVE  WaitingCallsAreCarried'
<1>1. UNCHANGED <<calls, alive, posted, size, toGo>>
  BY DEF Goroutine, Write, Flush, Return, Fail, Unregister, pageVars
<1>2. \A d \in Calls \ {c} : toPage'[d] = toPage[d]
  <2>1. (\E messages : Emit(c, messages)) \/ toPage' = toPage
    BY DEF Goroutine, Write, Flush, Return, Fail, Unregister
  <2>2. QED
    BY <2>1, QueueTypes DEF Emit
<1>3. \A d \in Calls \ {c} : handler'[d] = handler[d]
  BY QueueTypes DEF Goroutine, Write, Flush, Return, Fail, Unregister
<1>4. buf[c] \in Seq(1 .. MaxPieces) /\ Flushed(c, buf[c]) \in Seq(ToPage) /\ <<>> \in Seq(ToPage)
  BY FlushedType DEF Waiting, Kept, Typed, TypeOK
<1>5. ASSUME alive, c \in calls'
      PROVE  Carried(c)'
  <2>1. CASE Write(c) \/ Flush(c)
    <3>1. handler' = handler /\ handler[c] = "running"
      BY <2>1 DEF Write, Flush
    <3>2. QED
      BY <3>1 DEF Carried
  <2>2. CASE Return(c)
    <3>1. Within(toPage'[c], "end")
      BY <1>4, <1>5, <2>2, FinalWithin DEF Return
    <3>2. QED
      BY <3>1 DEF Carried, Within
  <2>3. CASE Fail(c)
    <3>1. (IF c \in sent THEN Flushed(c, buf[c]) ELSE <<>>) \in Seq(ToPage)
      BY <1>4
    <3>2. Within(toPage'[c], "fail")
      BY <1>5, <2>3, <3>1, FinalWithin DEF Fail
    <3>3. QED
      BY <3>2 DEF Carried, Within
  <2>4. CASE Unregister(c)
    <3>1. toPage' = toPage /\ handler[c] = "finished"
      BY <2>4 DEF Unregister
    <3>2. Carried(c)
      BY <1>1, <1>5 DEF Waiting, WaitingCallsAreCarried
    <3>3. QED
      BY <1>1, <3>1, <3>2 DEF Carried, Within
  <2>5. QED
    BY <2>1, <2>2, <2>3, <2>4 DEF Goroutine
<1>6. QED
  BY <1>1, <1>2, <1>3, <1>5, CarriedFrame

\* Every step leaves the calls that wait carried.
LEMMA NextWaiting == Waiting /\ [Next]_vars => Waiting'
<1>1. SUFFICES ASSUME Waiting, [Next]_vars PROVE WaitingCallsAreCarried'
  BY NextKept DEF Waiting
<1>2. CASE UNCHANGED vars
  BY <1>1, <1>2, CarriedUnchanged DEF vars, pageVars, writerVars
<1>3. CASE Quit \/ CloseBridge
  BY <1>3 DEF Quit, CloseBridge, WaitingCallsAreCarried
<1>4. ASSUME NEW c \in Calls, Page(c)
      PROVE  WaitingCallsAreCarried'
  BY <1>1, <1>4, UploadWaiting, AbortWaitingCalls, AnswerWaiting, SourceWaiting DEF Page
<1>5. QED
  BY <1>1, <1>2, <1>3, <1>4, GoWaiting, GoroutineWaiting DEF Next

\* As long as the window is there, something is under way for every call that
\* the page waits for.
THEOREM WaitingCallsAreCarriedAlways == Spec => []WaitingCallsAreCarried
<1>1. Waiting => WaitingCallsAreCarried
  BY DEF Waiting
<1>2. QED
  BY <1>1, InitWaiting, NextWaiting, PTL DEF Spec

\* No call is forgotten and a closed bridge is at rest (bridge.go, bridge.js).
THEOREM BridgeIsSoundAlways == Spec => []BridgeIsSound
<1>1. TypeOK /\ WaitingCallsAreCarried /\ ClosedBridgeIsIdle => BridgeIsSound
  BY DEF BridgeIsSound
<1>2. QED
  BY <1>1, TypeCorrect, WaitingCallsAreCarriedAlways, ClosedBridgeIsIdleAlways, PTL
-----------------------------------------------------------------------------
(***************************************************************************)
(* AbortIsHeard and AnswerIsWhole.                                         *)
(***************************************************************************)
Latest(c) == Message(size[c], posted[c])
Stop == [what |-> "cancel", chunk |-> 0]

\* The message of start() that Go has not taken yet.
Pending(c) == toGo[c] \in {<<Latest(c)>>, <<Latest(c), Stop>>, <<Stop, Latest(c)>>}

AckOnce(queue) ==
  \A i, j \in DOMAIN queue : queue[i].what = "ack" /\ queue[j].what = "ack" => i = j

\* start() waits for each answer: at most one message of it is on its way, or its
\* acknowledgement, and a cancel that is posted is posted once, after the first.
Posting(c) ==
  /\ phase[c] = "idle" => size[c] = 0
  /\ toGo[c] \in {<<>>, <<Stop>>} \/ Pending(c)
  /\ toGo[c] = <<Stop, Latest(c)>> => posted[c] >= 2
  /\ c \in calls => toGo[c] \in {<<>>, <<Latest(c)>>}
  /\ c \in calls \/ toGo[c] # <<>> \/ Within(toPage[c], "ack") => posted[c] >= 1 /\ phase[c] = "begun"
  /\ AckOnce(toPage[c])
  /\ Within(toPage[c], "ack") => ~Pending(c)
  /\ handler[c] # "none" => ~Pending(c) /\ posted[c] = size[c] + 1
  /\ posted[c] = size[c] + 1 /\ handler[c] = "none" /\ ~closed => Pending(c)
  /\ posted[c] <= size[c] + 1

\* The body that Go has buffered: of a call that waits, all that was taken; of one
\* that was given up, something without its first chunk once the cancel is taken.
Buffered(c) ==
  /\ phase[c] # "begun" => bodies[c] = <<>>
  /\ ~closed /\ handler[c] = "none" /\ c \in calls
       => bodies[c] = UpTo(IF Pending(c) THEN posted[c] - 1 ELSE posted[c])
  /\ ~closed /\ handler[c] = "none" /\ c \notin calls /\ posted[c] >= 1 =>
       \/ Within(toGo[c], "cancel")
       \/ /\ size[c] >= 1
          /\ bodies[c] = <<>> \/ bodies[c][1] # 1
          /\ Pending(c) => posted[c] >= 2

\* A handler whose end is told is over.
Ended(c) ==
  Within(toPage[c], "end") \/ Within(toPage[c], "fail") => handler[c] \in {"finished", "done"}

Upload(c) == Posting(c) /\ Buffered(c) /\ Ended(c)

Uploads == Kept /\ \A c \in Calls : Upload(c)

\* A sequence of two, made by adding the second.
LEMMA AppendPair ==
  ASSUME NEW a, NEW b
  PROVE  Append(<<a>>, b) = <<a, b>>
<1>1. <<a>> \in Seq({a, b}) /\ Len(<<a>>) = 1 /\ <<a>>[1] = a
  OBVIOUS
<1>2. PICK s \in Seq({a, b}) : s = <<a>>
  BY <1>1
<1>3. /\ Append(s, b) \in Seq({a, b}) /\ Len(Append(s, b)) = 2
      /\ Append(s, b)[1] = a /\ Append(s, b)[2] = b
  BY <1>1, <1>2
<1>4. PICK t \in Seq({a, b}) : t = Append(s, b)
  BY <1>3
<1>5. t = [i \in 1 .. 2 |-> t[i]]
  <2>1. Len(t) = 2
    BY <1>3, <1>4
  <2>2. t \in [1 .. Len(t) -> {a, b}]
    OBVIOUS
  <2>3. t \in [1 .. 2 -> {a, b}]
    BY <2>1, <2>2
  <2>4. QED
    BY <2>3
<1>6. PICK u : u = <<a, b>>
  OBVIOUS
<1>7. u = [i \in 1 .. 2 |-> u[i]] /\ u[1] = a /\ u[2] = b
  BY <1>6
<1>8. t[1] = u[1] /\ t[2] = u[2]
  BY <1>3, <1>4, <1>7
<1>9. t = u
  BY <1>5, <1>7, <1>8
<1>10. QED
  BY <1>2, <1>4, <1>6, <1>9

\* The shapes of a call's way to Go, and what taking and posting make of them.
LEMMA Shapes ==
  ASSUME NEW m, m.what # "cancel"
  PROVE  /\ Tail(<<m>>) = <<>> /\ Tail(<<m, Stop>>) = <<Stop>>
         /\ Tail(<<Stop, m>>) = <<m>> /\ Tail(<<Stop>>) = <<>>
         /\ Head(<<m>>) = m /\ Head(<<m, Stop>>) = m
         /\ Head(<<Stop, m>>) = Stop /\ Head(<<Stop>>) = Stop
         /\ Append(<<>>, m) = <<m>> /\ Append(<<Stop>>, m) = <<Stop, m>>
         /\ Append(<<m>>, Stop) = <<m, Stop>> /\ Append(<<>>, Stop) = <<Stop>>
<1>1. Tail(<<m>>) = <<>> /\ Tail(<<Stop>>) = <<>>
  OBVIOUS
<1>2. Tail(<<m, Stop>>) = <<Stop>>
  OBVIOUS
<1>3. Tail(<<Stop, m>>) = <<m>>
  OBVIOUS
<1>4. /\ Head(<<m>>) = m /\ Head(<<m, Stop>>) = m
      /\ Head(<<Stop, m>>) = Stop /\ Head(<<Stop>>) = Stop
  OBVIOUS
<1>5. Append(<<>>, m) = <<m>> /\ Append(<<>>, Stop) = <<Stop>>
  OBVIOUS
<1>6. Append(<<Stop>>, m) = <<Stop, m>>
  BY AppendPair
<1>7. Append(<<m>>, Stop) = <<m, Stop>>
  BY AppendPair
<1>8. QED
  BY <1>1, <1>2, <1>3, <1>4, <1>5, <1>6, <1>7

\* Those queues are told apart by their length and their first message.
LEMMA ShapesDiffer ==
  ASSUME NEW m, m.what # "cancel"
  PROVE  /\ <<>> # <<m>> /\ <<>> # <<m, Stop>> /\ <<>> # <<Stop, m>> /\ <<>> # <<Stop>>
         /\ <<m>> # <<m, Stop>> /\ <<m>> # <<Stop, m>> /\ <<m>> # <<Stop>>
         /\ <<m, Stop>> # <<Stop, m>> /\ <<m, Stop>> # <<Stop>> /\ <<Stop, m>> # <<Stop>>
<1>1. m # Stop
  BY DEF Stop
<1>2. Len(<<>>) = 0 /\ Len(<<m>>) = 1 /\ Len(<<Stop>>) = 1 /\ Len(<<m, Stop>>) = 2 /\ Len(<<Stop, m>>) = 2
  OBVIOUS
<1>3. <<m>>[1] = m /\ <<Stop>>[1] = Stop /\ <<m, Stop>>[1] = m /\ <<Stop, m>>[1] = Stop
  OBVIOUS
<1>4. QED
  BY <1>1, <1>2, <1>3

\* Which of them hold a cancel.
LEMMA ShapesWithin ==
  ASSUME NEW m, m.what # "cancel"
  PROVE  /\ ~Within(<<>>, "cancel") /\ ~Within(<<m>>, "cancel")
         /\ Within(<<Stop>>, "cancel") /\ Within(<<m, Stop>>, "cancel") /\ Within(<<Stop, m>>, "cancel")
<1>1. Len(<<>>) = 0 /\ Len(<<m>>) = 1 /\ Len(<<Stop>>) = 1 /\ Len(<<m, Stop>>) = 2 /\ Len(<<Stop, m>>) = 2
  OBVIOUS
<1>2. <<m>>[1] = m /\ <<Stop>>[1] = Stop /\ <<m, Stop>>[2] = Stop /\ <<Stop, m>>[1] = Stop
  OBVIOUS
<1>3. Stop.what = "cancel"
  BY DEF Stop
<1>4. QED
  BY <1>1, <1>2, <1>3 DEF Within

\* The latest message of start() is a chunk while chunks are left, then the request.
LEMMA LatestIsNoCancel ==
  ASSUME NEW c
  PROVE  /\ Latest(c).what \in {"body", "request"}
         /\ Latest(c).what = "body" <=> posted[c] <= size[c]
         /\ Latest(c).what = "body" => Latest(c).chunk = posted[c]
  BY DEF Latest, Message

\* No piece.
LEMMA UpToZero == UpTo(0) = <<>>
  BY DEF UpTo

\* One piece more.
LEMMA UpToNext ==
  ASSUME NEW n \in Nat
  PROVE  Append(UpTo(n), n + 1) = UpTo(n + 1) /\ Len(UpTo(n)) = n
  BY DEF UpTo

\* Acknowledgements in a queue that is added to and taken from.
LEMMA AckOnceTail ==
  ASSUME NEW S, NEW queue \in Seq(S), queue # <<>>, AckOnce(queue)
  PROVE  /\ AckOnce(Tail(queue))
         /\ Head(queue).what = "ack" => ~Within(Tail(queue), "ack")
<1>1. /\ \A i \in DOMAIN Tail(queue) : i + 1 \in DOMAIN queue /\ Tail(queue)[i] = queue[i + 1] /\ i \in Nat /\ i >= 1
      /\ 1 \in DOMAIN queue /\ Head(queue) = queue[1]
      /\ 1 .. Len(Tail(queue)) = DOMAIN Tail(queue)
  OBVIOUS
<1>2. AckOnce(Tail(queue))
  <2>1. ASSUME NEW i \in DOMAIN Tail(queue), NEW j \in DOMAIN Tail(queue),
               Tail(queue)[i].what = "ack", Tail(queue)[j].what = "ack"
        PROVE  i = j
    <3>1. i + 1 = j + 1
      BY <1>1, <2>1 DEF AckOnce
    <3>2. QED
      BY <1>1, <3>1
  <2>2. QED
    BY <2>1 DEF AckOnce
<1>3. ASSUME Head(queue).what = "ack", Within(Tail(queue), "ack")
      PROVE  FALSE
  <2>1. PICK i \in 1 .. Len(Tail(queue)) : Tail(queue)[i].what = "ack"
    BY <1>3 DEF Within
  <2>2. i + 1 = 1
    BY <1>1, <1>3, <2>1 DEF AckOnce
  <2>3. QED
    BY <1>1, <2>1, <2>2
<1>4. QED
  BY <1>2, <1>3

\* One answer to a message at most, in two queues of which one has none.
LEMMA AckOnceConcat ==
  ASSUME NEW S, NEW queue \in Seq(S), NEW more \in Seq(S),
         AckOnce(queue), AckOnce(more), ~(Within(queue, "ack") /\ Within(more, "ack"))
  PROVE  AckOnce(queue \o more)
<1> DEFINE n == Len(queue)
<1>1. /\ n \in Nat /\ Len(more) \in Nat /\ DOMAIN (queue \o more) = 1 .. n + Len(more)
      /\ \A i \in 1 .. n : (queue \o more)[i] = queue[i]
      /\ \A i \in n + 1 .. n + Len(more) : i - n \in 1 .. Len(more) /\ (queue \o more)[i] = more[i - n]
      /\ DOMAIN queue = 1 .. n /\ DOMAIN more = 1 .. Len(more)
  OBVIOUS
<1> HIDE DEF n
<1>2. PICK l \in Nat : l = Len(more)
  BY <1>1
<1>3. PICK all : all = queue \o more
  OBVIOUS
<1>4. /\ DOMAIN all = 1 .. n + l /\ DOMAIN queue = 1 .. n /\ DOMAIN more = 1 .. l
      /\ \A i \in 1 .. n : all[i] = queue[i]
      /\ \A i \in n + 1 .. n + l : i - n \in 1 .. l /\ all[i] = more[i - n]
  BY <1>1, <1>2, <1>3
<1>5. ASSUME NEW i \in 1 .. n, queue[i].what = "ack" PROVE Within(queue, "ack")
  BY <1>5 DEF Within, n
<1>6. ASSUME NEW i \in 1 .. l, more[i].what = "ack" PROVE Within(more, "ack")
  BY <1>2, <1>6 DEF Within
<1>7. ASSUME NEW i \in 1 .. n + l, NEW j \in 1 .. n + l, all[i].what = "ack", all[j].what = "ack"
      PROVE  i = j
  <2>1. CASE i <= n /\ j <= n
    <3>1. i \in 1 .. n /\ j \in 1 .. n
      BY <1>1, <1>2, <2>1
    <3>2. QED
      BY <1>4, <1>7, <3>1 DEF AckOnce
  <2>2. CASE i > n /\ j > n
    <3>1. i \in n + 1 .. n + l /\ j \in n + 1 .. n + l
      BY <1>1, <1>2, <2>2
    <3>2. i - n = j - n
      BY <1>4, <1>7, <3>1 DEF AckOnce
    <3>3. QED
      BY <1>1, <3>1, <3>2
  <2>3. CASE i <= n /\ j > n
    <3>1. i \in 1 .. n /\ j \in n + 1 .. n + l
      BY <1>1, <1>2, <2>3
    <3>2. QED
      BY <1>4, <1>5, <1>6, <1>7, <3>1
  <2>4. CASE i > n /\ j <= n
    <3>1. j \in 1 .. n /\ i \in n + 1 .. n + l
      BY <1>1, <1>2, <2>4
    <3>2. QED
      BY <1>4, <1>5, <1>6, <1>7, <3>1
  <2>5. QED
    BY <1>1, <1>2, <2>1, <2>2, <2>3, <2>4
<1>8. QED
  BY <1>3, <1>4, <1>7 DEF AckOnce

\* What a step knows of the call it is about.
LEMMA CallTypes ==
  ASSUME Kept, NEW c \in Calls
  PROVE  /\ toGo[c] \in Seq(ToGo) /\ toPage[c] \in Seq(ToPage)
         /\ posted[c] \in 0 .. MaxBody + 1 /\ size[c] \in 0 .. MaxBody
         /\ posted[c] \in Nat /\ size[c] \in Nat
         /\ handler[c] \in {"none", "running", "finished", "done"}
         /\ bodies[c] \in Seq(1 .. MaxBody)
         /\ phase[c] # "begun" => /\ posted[c] = 0 /\ c \notin calls
                                  /\ toGo[c] = <<>> /\ toPage[c] = <<>>
                                  /\ handler[c] = "none"
         /\ handler[c] = "running" => c \in cancels
  BY BoundsAssumption DEF Kept, Typed, TypeOK, Phased, Registered

\* The tables a step writes in.
LEMMA Tables ==
  ASSUME Kept
  PROVE  /\ phase \in [Calls -> {"idle", "packing", "begun"}]
         /\ toGo \in [Calls -> Seq(ToGo)] /\ toPage \in [Calls -> Seq(ToPage)]
         /\ posted \in [Calls -> 0 .. MaxBody + 1] /\ size \in [Calls -> 0 .. MaxBody]
         /\ handler \in [Calls -> {"none", "running", "finished", "done"}]
         /\ bodies \in [Calls -> Seq(1 .. MaxBody)]
  BY DEF Kept, Typed, TypeOK

\* A step of one call leaves the uploads of the others as they are.
LEMMA UploadFrame ==
  ASSUME Uploads, NEW c \in Calls, closed' = closed, Kept',
         \A d \in Calls \ {c} :
           /\ phase'[d] = phase[d] /\ size'[d] = size[d] /\ posted'[d] = posted[d]
           /\ toGo'[d] = toGo[d] /\ toPage'[d] = toPage[d]
           /\ handler'[d] = handler[d] /\ bodies'[d] = bodies[d]
           /\ d \in calls' <=> d \in calls,
         Upload(c)'
  PROVE  Uploads'
<1>1. ASSUME NEW d \in Calls \ {c} PROVE Upload(d)'
  <2>1. Upload(d)
    BY DEF Uploads
  <2>2. /\ phase'[d] = phase[d] /\ size'[d] = size[d] /\ posted'[d] = posted[d]
        /\ toGo'[d] = toGo[d] /\ toPage'[d] = toPage[d]
        /\ handler'[d] = handler[d] /\ bodies'[d] = bodies[d]
        /\ d \in calls' <=> d \in calls
    OBVIOUS
  <2>3. Latest(d)' = Latest(d)
    BY <2>2 DEF Latest, Message
  <2>4. Pending(d)' <=> Pending(d)
    BY <2>2, <2>3 DEF Pending
  <2>5. Posting(d)'
    BY <2>1, <2>2, <2>3, <2>4 DEF Upload, Posting, Within, AckOnce
  <2>6. Buffered(d)'
    BY <2>1, <2>2, <2>4 DEF Upload, Buffered, Within
  <2>7. Ended(d)'
    BY <2>1, <2>2 DEF Upload, Ended, Within
  <2>8. QED
    BY <2>5, <2>6, <2>7 DEF Upload
<1>2. QED
  BY <1>1 DEF Uploads

\* Nothing is on the way yet.
LEMMA EmptyQueue ==
  /\ AckOnce(<<>>) /\ \A what : ~Within(<<>>, what)
  BY DEF AckOnce, Within

\* No upload at first.
LEMMA InitUploads == Init => Uploads
<1> SUFFICES ASSUME Init PROVE Uploads
  OBVIOUS
<1>1. Kept
  BY InitKept
<1>2. ASSUME NEW c \in Calls PROVE Upload(c)
  <2>1. /\ phase[c] = "idle" /\ size[c] = 0 /\ posted[c] = 0 /\ c \notin calls
        /\ toGo[c] = <<>> /\ toPage[c] = <<>> /\ handler[c] = "none" /\ bodies[c] = <<>>
    BY DEF Init
  <2>2. ~Pending(c)
    BY <2>1, LatestIsNoCancel, ShapesDiffer DEF Pending
  <2>3. QED
    BY <2>1, <2>2, EmptyQueue, LatestIsNoCancel, ShapesDiffer DEF Upload, Posting, Buffered, Ended
<1>3. QED
  BY <1>1, <1>2 DEF Uploads

\* The first message of a call.
LEMMA FirstPosted ==
  ASSUME Uploads, NEW c \in Calls, phase[c] # "begun", phase'[c] = "begun",
         Post(c, size[c]), size'[c] = size[c], c \in calls', toPage'[c] = toPage[c],
         handler'[c] = handler[c], bodies'[c] = bodies[c]
  PROVE  Upload(c)'
<1>1. /\ posted[c] = 0 /\ toGo[c] = <<>> /\ toPage[c] = <<>> /\ handler[c] = "none"
      /\ size[c] \in Nat /\ bodies[c] = <<>>
  BY CallTypes DEF Uploads, Upload, Buffered
<1>2. posted'[c] = 1 /\ toGo'[c] = Append(toGo[c], Message(size[c], 1))
  BY <1>1, Tables DEF Uploads, Post
<1>3. Latest(c)' = Message(size[c], 1)
  BY <1>2 DEF Latest
<1>4. Latest(c)'.what # "cancel"
  BY <1>3 DEF Message
<1>5. PICK m : m = Latest(c)'
  OBVIOUS
<1>6. toGo'[c] = <<m>> /\ m.what # "cancel"
  BY <1>1, <1>2, <1>3, <1>4, <1>5, Shapes
<1>7. Pending(c)'
  BY <1>5, <1>6 DEF Pending
<1>8. toGo'[c] # <<Stop, m>>
  BY <1>6, ShapesDiffer
<1>9. Posting(c)'
  BY <1>1, <1>2, <1>5, <1>6, <1>7, <1>8, EmptyQueue DEF Posting
<1>10. Buffered(c)'
  BY <1>1, <1>2, <1>7, UpToZero DEF Buffered
<1>11. Ended(c)'
  BY <1>1, EmptyQueue DEF Ended
<1>12. QED
  BY <1>9, <1>10, <1>11 DEF Upload

\* Calls begin, and start() goes on.
LEMMA UploadUploads ==
  ASSUME Uploads, Kept', NEW c \in Calls, Ask(c) \/ Pack(c) \/ Begin(c) \/ Continue(c)
  PROVE  Uploads'
<1>1. /\ UNCHANGED <<handler, bodies, closed>>
      /\ \A d \in Calls \ {c} :
           /\ phase'[d] = phase[d] /\ size'[d] = size[d] /\ posted'[d] = posted[d]
           /\ toGo'[d] = toGo[d] /\ toPage'[d] = toPage[d]
           /\ d \in calls' <=> d \in calls
  BY Tables DEF Uploads, Ask, Pack, Begin, Continue, Post, bridgeVars, writerVars
<1>2. CASE Ask(c)
  <2>1. phase[c] = "idle" /\ size[c] = 0
    BY <1>2 DEF Ask, Uploads, Upload, Posting
  <2>2. /\ phase'[c] = "begun" /\ Post(c, size[c]) /\ size'[c] = size[c] /\ c \in calls'
        /\ toPage'[c] = toPage[c]
    BY <1>2, <2>1, Tables DEF Ask, Uploads
  <2>3. Upload(c)'
    BY <1>1, <2>1, <2>2, FirstPosted
  <2>4. QED
    BY <1>1, <2>3, UploadFrame
<1>3. CASE Pack(c)
  <2>1. /\ phase[c] = "idle" /\ phase'[c] = "packing" /\ size'[c] \in 1 .. MaxBody
        /\ UNCHANGED <<posted, calls, toGo, toPage>>
    BY <1>3, Tables DEF Pack, Uploads
  <2>2. /\ posted[c] = 0 /\ c \notin calls /\ toGo[c] = <<>> /\ toPage[c] = <<>> /\ handler[c] = "none"
        /\ bodies[c] = <<>>
    BY <2>1, CallTypes DEF Uploads, Upload, Buffered
  <2>3. PICK m : m = Latest(c)'
    OBVIOUS
  <2>4. m.what # "cancel"
    BY <2>3 DEF Latest, Message
  <2>5. ~Pending(c)' /\ toGo'[c] # <<Stop, m>>
    BY <2>1, <2>2, <2>3, <2>4, ShapesDiffer DEF Pending
  <2>6. Posting(c)'
    BY <1>1, <2>1, <2>2, <2>3, <2>5, EmptyQueue DEF Posting
  <2>7. Buffered(c)' /\ Ended(c)'
    BY <1>1, <2>1, <2>2, EmptyQueue DEF Buffered, Ended
  <2>8. Upload(c)'
    BY <2>6, <2>7 DEF Upload
  <2>9. QED
    BY <1>1, <2>8, UploadFrame
<1>4. CASE Begin(c)
  <2>1. phase[c] = "packing" /\ phase'[c] = "begun" /\ UNCHANGED <<size, toPage>>
    BY <1>4, Tables DEF Begin, Uploads
  <2>2. CASE UNCHANGED <<posted, calls, toGo>>
    <3>1. /\ posted[c] = 0 /\ c \notin calls /\ toGo[c] = <<>> /\ toPage[c] = <<>> /\ handler[c] = "none"
          /\ bodies[c] = <<>> /\ size[c] \in Nat
      BY <2>1, CallTypes DEF Uploads, Upload, Buffered
    <3>2. PICK m : m = Latest(c)'
      OBVIOUS
    <3>3. m.what # "cancel"
      BY <3>2 DEF Latest, Message
    <3>4. ~Pending(c)' /\ toGo'[c] # <<Stop, m>>
      BY <2>2, <3>1, <3>2, <3>3, ShapesDiffer DEF Pending
    <3>5. posted[c] # size[c] + 1
      BY <3>1
    <3>6. Posting(c)'
      BY <1>1, <2>1, <2>2, <3>1, <3>2, <3>4, <3>5, EmptyQueue DEF Posting
    <3>7. Buffered(c)' /\ Ended(c)'
      BY <1>1, <2>1, <2>2, <3>1, EmptyQueue DEF Buffered, Ended
    <3>8. Upload(c)'
      BY <3>6, <3>7 DEF Upload
    <3>9. QED
      BY <1>1, <3>8, UploadFrame
  <2>3. CASE calls' = calls \cup {c} /\ Post(c, size[c])
    <3>1. Upload(c)'
      BY <1>1, <2>1, <2>3, FirstPosted
    <3>2. QED
      BY <1>1, <3>1, UploadFrame
  <2>4. QED
    BY <1>4, <2>2, <2>3 DEF Begin
<1>5. CASE Continue(c)
  <2>1. /\ toPage[c] # <<>> /\ Head(toPage[c]).what = "ack" /\ toPage'[c] = Tail(toPage[c])
        /\ UNCHANGED <<phase, size, calls>>
    BY <1>5, Tables DEF Continue, Uploads
  <2>2. toPage[c] \in Seq(ToPage) /\ posted[c] \in Nat /\ size[c] \in Nat
    BY CallTypes DEF Uploads
  <2>3. Posting(c) /\ Buffered(c) /\ Ended(c)
    BY DEF Uploads, Upload
  <2>4. Within(toPage[c], "ack")
    BY <2>1, <2>2 DEF Within
  <2>5. /\ posted[c] >= 1 /\ phase[c] = "begun" /\ ~Pending(c) /\ toGo[c] \in {<<>>, <<Stop>>}
        /\ posted[c] <= size[c] + 1
    BY <2>3, <2>4 DEF Posting
  <2>6. AckOnce(toPage'[c]) /\ ~Within(toPage'[c], "ack")
    BY <2>1, <2>2, <2>3, AckOnceTail DEF Posting
  <2>7. Ended(c)'
    BY <1>1, <2>1, <2>2, <2>3, WithinTail DEF Ended
  <2>8. CASE posted[c] <= size[c]
    <3>1. Post(c, size[c])
      BY <1>5, <2>8 DEF Continue
    <3>2. posted'[c] = posted[c] + 1 /\ toGo'[c] = Append(toGo[c], Message(size[c], posted[c] + 1))
      BY <3>1, Tables DEF Post, Uploads
    <3>3. PICK n \in Nat : n = posted[c] + 1
      BY <2>2
    <3>4. Latest(c)' = Message(size[c], n) /\ Message(size[c], n).what # "cancel"
      BY <2>1, <3>2, <3>3 DEF Latest, Message
    <3>5. PICK m : m = Message(size[c], n)
      OBVIOUS
    <3>6. m.what # "cancel" /\ Latest(c)' = m /\ toGo'[c] = Append(toGo[c], m)
      BY <3>2, <3>3, <3>4, <3>5
    <3>7. toGo'[c] = IF toGo[c] = <<>> THEN <<m>> ELSE <<Stop, m>>
      BY <2>5, <3>6, Shapes
    <3>8. Pending(c)'
      BY <3>6, <3>7 DEF Pending
    <3>9. c \in calls => toGo[c] = <<>>
      BY <2>3, <2>5, ShapesDiffer, LatestIsNoCancel DEF Posting
    <3>10. posted'[c] >= 2 /\ posted'[c] <= size[c] + 1 /\ handler[c] = "none"
      BY <2>2, <2>3, <2>5, <2>8, <3>2 DEF Posting
    <3>11. Posting(c)'
      <4>1. c \in calls' => toGo'[c] = <<m>>
        BY <2>1, <3>7, <3>9
      <4>2. phase'[c] = "begun" /\ handler'[c] = "none" /\ size'[c] = size[c] /\ posted'[c] >= 1
        BY <1>1, <2>1, <2>2, <2>5, <3>2, <3>10
      <4>3. QED
        BY <2>6, <3>6, <3>8, <3>10, <4>1, <4>2 DEF Posting
    <3>12. toGo[c] = <<Stop>> => Within(toGo[c], "cancel") /\ Within(toGo'[c], "cancel")
      BY <3>6, <3>7, ShapesWithin, ShapesDiffer
    <3>13. c \in calls /\ ~closed => bodies[c] = UpTo(posted[c])
      BY <2>3, <2>5, <3>10 DEF Buffered
    <3>14. posted'[c] - 1 = posted[c]
      BY <2>2, <3>2
    <3>15. toGo[c] = <<>> => ~Within(toGo[c], "cancel")
      BY EmptyQueue
    <3>16. Buffered(c)'
      BY <1>1, <2>1, <2>3, <2>5, <3>8, <3>10, <3>12, <3>13, <3>14, <3>15 DEF Buffered
    <3>17. Upload(c)'
      BY <2>7, <3>11, <3>16 DEF Upload
    <3>18. QED
      BY <1>1, <3>17, UploadFrame
  <2>9. CASE ~(posted[c] <= size[c])
    <3>1. UNCHANGED <<posted, toGo>>
      BY <1>5, <2>9 DEF Continue
    <3>2. Latest(c)' = Latest(c)
      BY <2>1, <3>1 DEF Latest
    <3>3. Pending(c)' <=> Pending(c)
      BY <3>1, <3>2 DEF Pending
    <3>4. Posting(c)'
      BY <1>1, <2>1, <2>3, <2>6, <3>1, <3>2, <3>3 DEF Posting
    <3>5. Buffered(c)'
      BY <1>1, <2>1, <2>3, <3>1, <3>3 DEF Buffered
    <3>6. Upload(c)'
      BY <2>7, <3>4, <3>5 DEF Upload
    <3>7. QED
      BY <1>1, <3>6, UploadFrame
  <2>10. QED
    BY <2>8, <2>9
<1>6. QED
  BY <1>2, <1>3, <1>4, <1>5

\* A call that is given up: its cancel follows what start() has posted.
LEMMA DropUploads ==
  ASSUME Uploads, Kept', NEW c \in Calls, DropCall(c),
         UNCHANGED <<phase, size, posted, toPage, handler, bodies, closed>>
  PROVE  Uploads'
<1>1. Posting(c) /\ Buffered(c) /\ Ended(c)
  BY DEF Uploads, Upload
<1>2. \A d \in Calls \ {c} : toGo'[d] = toGo[d] /\ (d \in calls' <=> d \in calls)
  BY Tables DEF DropCall, Uploads
<1>3. PICK m : m = Latest(c)
  OBVIOUS
<1>4. m.what # "cancel" /\ Latest(c)' = m
  BY <1>3, LatestIsNoCancel DEF Latest
<1>5. c \notin calls'
  BY DEF DropCall
<1>6. CASE c \in calls
  <2>1. toGo[c] \in {<<>>, <<m>>}
    BY <1>1, <1>3, <1>6 DEF Posting
  <2>2. toGo'[c] = Append(toGo[c], Stop)
    BY <1>6, Tables DEF DropCall, Stop, Uploads
  <2>3. toGo'[c] = IF toGo[c] = <<>> THEN <<Stop>> ELSE <<m, Stop>>
    BY <1>4, <2>1, <2>2, Shapes, ShapesDiffer
  <2>4. Pending(c)' <=> Pending(c)
    BY <1>3, <1>4, <2>1, <2>3, ShapesDiffer DEF Pending
  <2>5. toGo'[c] # <<Stop, m>> /\ Within(toGo'[c], "cancel")
    BY <1>4, <2>3, ShapesDiffer, ShapesWithin
  <2>6. Posting(c)'
    <3>1. toGo'[c] \in {<<>>, <<Stop>>} \/ Pending(c)'
      BY <1>4, <2>3 DEF Pending
    <3>2. posted[c] >= 1 /\ phase[c] = "begun"
      BY <1>1, <1>6 DEF Posting
    <3>3. QED
      BY <1>1, <1>4, <1>5, <2>4, <2>5, <3>1, <3>2 DEF Posting
  <2>7. Buffered(c)'
    BY <1>1, <1>5, <2>5 DEF Buffered
  <2>8. Upload(c)'
    BY <1>1, <2>6, <2>7 DEF Upload, Ended
  <2>9. QED
    BY <1>2, <2>8, UploadFrame
<1>7. CASE c \notin calls
  <2>1. toGo' = toGo /\ Latest(c)' = Latest(c)
    BY <1>3, <1>4, <1>7 DEF DropCall
  <2>2. Pending(c)' <=> Pending(c)
    BY <2>1 DEF Pending
  <2>3. Posting(c)'
    BY <1>1, <1>5, <1>7, <2>1, <2>2 DEF Posting
  <2>4. Buffered(c)'
    BY <1>1, <1>5, <1>7, <2>1, <2>2 DEF Buffered
  <2>5. Upload(c)'
    BY <1>1, <2>3, <2>4 DEF Upload, Ended
  <2>6. QED
    BY <1>2, <2>5, UploadFrame
<1>8. QED
  BY <1>6, <1>7

\* What changes neither queue nor body leaves the uploads alone.
LEMMA UploadsUnchanged ==
  ASSUME Uploads, Kept', UNCHANGED <<phase, size, posted, calls, toGo, toPage, handler, bodies, closed>>
  PROVE  Uploads'
<1>1. ASSUME NEW c \in Calls PROVE Upload(c)'
  <2>1. Upload(c)
    BY DEF Uploads
  <2>2. Latest(c)' = Latest(c)
    BY DEF Latest
  <2>3. Pending(c)' <=> Pending(c)
    BY <2>2 DEF Pending
  <2>4. QED
    BY <2>1, <2>2, <2>3 DEF Upload, Posting, Buffered, Ended
<1>2. QED
  BY <1>1 DEF Uploads

\* Abort, CancelStream and CloseSource drop a call, or only note it.
LEMMA AbortUploads ==
  ASSUME Uploads, Kept', NEW c \in Calls, Abort(c) \/ CancelStream(c) \/ CloseSource(c)
  PROVE  Uploads'
<1>1. UNCHANGED <<phase, size, posted, toPage, handler, bodies, closed>>
  BY DEF Abort, CancelStream, CloseSource, bridgeVars, writerVars
<1>2. DropCall(c) \/ UNCHANGED <<calls, toGo>>
  BY DEF Abort, CancelStream, CloseSource, AbortWaiting
<1>3. QED
  BY <1>1, <1>2, DropUploads, UploadsUnchanged

\* A message of the answer that the page takes.
LEMMA AnswerUploads ==
  ASSUME Uploads, Kept', NEW c \in Calls, OnHead(c) \/ OnChunk(c) \/ OnEnd(c)
  PROVE  Uploads'
<1>1. UNCHANGED <<phase, size, posted, toGo, handler, bodies, closed>>
  BY DEF OnHead, OnChunk, OnEnd, bridgeVars, writerVars
<1>2. /\ toPage[c] # <<>> /\ toPage'[c] = Tail(toPage[c])
      /\ \A d \in Calls \ {c} : toPage'[d] = toPage[d] /\ (d \in calls' <=> d \in calls)
  BY Tables DEF OnHead, OnChunk, OnEnd, Arrives, Uploads
<1>3. Posting(c) /\ Buffered(c) /\ Ended(c) /\ toPage[c] \in Seq(ToPage)
  BY CallTypes DEF Uploads, Upload
<1>4. /\ AckOnce(toPage'[c])
      /\ \A what : Within(toPage'[c], what) => Within(toPage[c], what)
  BY <1>2, <1>3, AckOnceTail, WithinTail DEF Posting
<1>5. Latest(c)' = Latest(c)
  BY <1>1 DEF Latest
<1>6. Pending(c)' <=> Pending(c)
  BY <1>1, <1>5 DEF Pending
<1>7. calls' = calls \/ (c \notin calls' /\ handler[c] # "none")
  <2>1. CASE OnEnd(c)
    <3>1. Within(toPage[c], "end") \/ Within(toPage[c], "fail")
      BY <1>3, <2>1 DEF OnEnd, Arrives, Within
    <3>2. QED
      BY <1>3, <2>1, <3>1 DEF OnEnd, Ended
  <2>2. QED
    BY <2>1 DEF OnHead, OnChunk
<1>8. c \in calls' => c \in calls
  BY <1>7
<1>9. Posting(c)'
  BY <1>1, <1>3, <1>4, <1>5, <1>6, <1>8 DEF Posting
<1>10. Buffered(c)'
  BY <1>1, <1>3, <1>6, <1>7 DEF Buffered
<1>11. Ended(c)'
  BY <1>1, <1>3, <1>4 DEF Ended
<1>12. Upload(c)'
  BY <1>9, <1>10, <1>11 DEF Upload
<1>13. QED
  BY <1>1, <1>2, <1>12, UploadFrame

\* An acknowledgement joins the queue if the window is there.
LEMMA AckQueued ==
  ASSUME Uploads, NEW c \in Calls, Emit(c, Ack), ~Within(toPage[c], "ack")
  PROVE  /\ \A d \in Calls \ {c} : toPage'[d] = toPage[d]
         /\ AckOnce(toPage'[c])
         /\ Within(toPage'[c], "end") \/ Within(toPage'[c], "fail")
              => Within(toPage[c], "end") \/ Within(toPage[c], "fail")
<1>1. toPage[c] \in Seq(ToPage) /\ AckOnce(toPage[c])
  BY CallTypes DEF Uploads, Upload, Posting
<1>2. CASE alive
  <2>1. toPage'[c] = toPage[c] \o Ack /\ \A d \in Calls \ {c} : toPage'[d] = toPage[d]
    BY <1>2, Tables DEF Emit, Uploads
  <2>2. AckOnce(Ack) /\ ~Within(Ack, "end") /\ ~Within(Ack, "fail")
    BY DEF AckOnce, Ack, Within
  <2>3. AckOnce(toPage'[c])
    BY <1>1, <2>1, <2>2, AckType, AckOnceConcat
  <2>4. /\ Within(toPage'[c], "end") => Within(toPage[c], "end")
        /\ Within(toPage'[c], "fail") => Within(toPage[c], "fail")
    BY <1>1, <2>1, <2>2, AckType, WithinConcat
  <2>5. QED
    BY <2>1, <2>3, <2>4
<1>3. CASE ~alive
  BY <1>1, <1>3 DEF Emit
<1>4. QED
  BY <1>2, <1>3

\* A message of start() at the head of the queue is the latest.
LEMMA HeadIsLatest ==
  ASSUME Uploads, NEW c \in Calls, NEW what \in {"body", "request"}, Handed(c, what)
  PROVE  /\ toGo[c] \in {<<Latest(c)>>, <<Latest(c), Stop>>}
         /\ toGo'[c] = IF toGo[c] = <<Latest(c)>> THEN <<>> ELSE <<Stop>>
         /\ Head(toGo[c]) = Latest(c) /\ Latest(c).what = what
         /\ Pending(c) /\ handler[c] = "none" /\ ~Within(toPage[c], "ack")
         /\ \A d \in Calls \ {c} : toGo'[d] = toGo[d]
<1>1. /\ toGo[c] # <<>> /\ Head(toGo[c]).what = what /\ toGo'[c] = Tail(toGo[c])
      /\ \A d \in Calls \ {c} : toGo'[d] = toGo[d]
  BY Tables DEF Handed, Uploads
<1>2. PICK m : m = Latest(c)
  OBVIOUS
<1>3. m.what # "cancel"
  BY <1>2, LatestIsNoCancel
<1>4. Posting(c)
  BY DEF Uploads, Upload
<1>5. toGo[c] \in {<<Stop>>, <<m>>, <<m, Stop>>, <<Stop, m>>}
  BY <1>1, <1>2, <1>4 DEF Posting, Pending
<1>6. toGo[c] # <<Stop>> /\ toGo[c] # <<Stop, m>>
  <2>1. Head(<<Stop>>).what = "cancel" /\ Head(<<Stop, m>>).what = "cancel"
    BY <1>3, Shapes DEF Stop
  <2>2. QED
    BY <1>1, <2>1
<1>7. toGo[c] \in {<<m>>, <<m, Stop>>}
  BY <1>5, <1>6
<1>8. Head(toGo[c]) = m /\ toGo'[c] = IF toGo[c] = <<m>> THEN <<>> ELSE <<Stop>>
  BY <1>1, <1>3, <1>7, Shapes, ShapesDiffer
<1>9. Pending(c)
  BY <1>2, <1>7 DEF Pending
<1>10. QED
  BY <1>1, <1>2, <1>4, <1>7, <1>8, <1>9 DEF Posting

\* A chunk is put to the body.
LEMMA BodyUploads ==
  ASSUME Uploads, Kept', NEW c \in Calls, Body(c)
  PROVE  Uploads'
<1>1. /\ UNCHANGED <<phase, size, posted, calls, handler, closed>>
      /\ Handed(c, "body") /\ Emit(c, Ack)
  BY DEF Body, pageVars, writerVars
<1>2. PICK m : m = Latest(c)
  OBVIOUS
<1>3. /\ toGo[c] \in {<<m>>, <<m, Stop>>} /\ toGo'[c] = IF toGo[c] = <<m>> THEN <<>> ELSE <<Stop>>
      /\ Head(toGo[c]) = m /\ m.what = "body"
      /\ Pending(c) /\ handler[c] = "none" /\ ~Within(toPage[c], "ack")
      /\ \A d \in Calls \ {c} : toGo'[d] = toGo[d]
  BY <1>1, <1>2, HeadIsLatest
<1>4. posted[c] <= size[c] /\ m.chunk = posted[c] /\ Latest(c)' = m /\ m.what # "cancel"
  BY <1>1, <1>2, <1>3, LatestIsNoCancel DEF Latest
<1>5. Posting(c) /\ Buffered(c) /\ Ended(c)
  BY DEF Uploads, Upload
<1>6. posted[c] \in Nat /\ size[c] \in Nat /\ bodies[c] \in Seq(1 .. MaxBody) /\ posted[c] >= 1
      /\ phase[c] = "begun"
  BY <1>3, <1>5, CallTypes, ShapesDiffer, <1>4 DEF Uploads, Posting
<1>7. ~Pending(c)'
  BY <1>3, <1>4, ShapesDiffer DEF Pending
<1>8. Posting(c)'
  <2>1. c \in calls => toGo[c] = <<m>>
    BY <1>2, <1>3, <1>4, <1>5, ShapesDiffer DEF Posting
  <2>2. c \in calls' => toGo'[c] = <<>>
    BY <1>1, <1>3, <2>1
  <2>3. AckOnce(toPage'[c])
    BY <1>1, <1>3, AckQueued
  <2>4. toGo'[c] # <<Stop, m>> /\ toGo'[c] \in {<<>>, <<Stop>>}
    BY <1>3, <1>4, ShapesDiffer
  <2>5. posted'[c] # size'[c] + 1 /\ posted'[c] <= size'[c] + 1 /\ posted'[c] >= 1
    BY <1>1, <1>4, <1>6
  <2>6. QED
    BY <1>1, <1>3, <1>4, <1>6, <1>7, <2>2, <2>3, <2>4, <2>5 DEF Posting
<1>9. Ended(c)'
  BY <1>1, <1>3, <1>5, AckQueued DEF Ended
<1>10. ~closed => bodies'[c] = Append(bodies[c], posted[c])
  BY <1>3, <1>4, Tables DEF Body, Uploads
<1>11. ASSUME ~closed, c \in calls PROVE bodies'[c] = UpTo(posted[c])
  <2>1. bodies[c] = UpTo(posted[c] - 1)
    BY <1>3, <1>5, <1>11 DEF Buffered
  <2>2. PICK n \in Nat : n = posted[c] - 1
    BY <1>6
  <2>3. posted[c] = n + 1
    BY <1>6, <2>2
  <2>4. QED
    BY <1>10, <1>11, <2>1, <2>2, <2>3, UpToNext
<1>12. ASSUME ~closed, c \notin calls
       PROVE  \/ Within(toGo'[c], "cancel")
              \/ size[c] >= 1 /\ (bodies'[c] = <<>> \/ bodies'[c][1] # 1)
  <2>1. CASE Within(toGo[c], "cancel")
    <3>1. toGo'[c] = <<Stop>>
      BY <1>3, <1>4, <2>1, ShapesWithin
    <3>2. QED
      BY <1>4, <3>1, ShapesWithin
  <2>2. CASE ~Within(toGo[c], "cancel")
    <3>1. size[c] >= 1 /\ (bodies[c] = <<>> \/ bodies[c][1] # 1) /\ posted[c] >= 2
      BY <1>3, <1>5, <1>6, <1>12, <2>2 DEF Buffered
    <3>2. CASE bodies[c] = <<>>
      <4>1. PICK p : p = posted[c]
        OBVIOUS
      <4>2. bodies'[c] = <<p>>
        BY <1>10, <1>12, <3>2, <4>1
      <4>3. QED
        BY <1>6, <3>1, <4>1, <4>2
    <3>3. CASE bodies[c] # <<>>
      <4>1. bodies'[c][1] = bodies[c][1]
        BY <1>6, <1>10, <1>12, <3>3, SMTT(40)
      <4>2. QED
        BY <3>1, <3>3, <4>1
    <3>4. QED
      BY <3>2, <3>3
  <2>3. QED
    BY <2>1, <2>2
<1>13. Buffered(c)'
  BY <1>1, <1>6, <1>7, <1>11, <1>12 DEF Buffered
<1>14. Upload(c)'
  BY <1>8, <1>9, <1>13 DEF Upload
<1>15. \A d \in Calls \ {c} : bodies'[d] = bodies[d] /\ toPage'[d] = toPage[d]
  BY <1>1, <1>3, AckQueued, Tables DEF Body, Uploads
<1>16. QED
  BY <1>1, <1>3, <1>14, <1>15, UploadFrame

\* The body is taken out and the handler started.
LEMMA RequestUploads ==
  ASSUME Uploads, Kept', NEW c \in Calls, Request(c)
  PROVE  Uploads'
<1>1. /\ UNCHANGED <<phase, size, posted, calls, closed>>
      /\ Handed(c, "request") /\ Emit(c, Ack)
  BY DEF Request, pageVars
<1>2. PICK m : m = Latest(c)
  OBVIOUS
<1>3. /\ toGo[c] \in {<<m>>, <<m, Stop>>} /\ toGo'[c] = IF toGo[c] = <<m>> THEN <<>> ELSE <<Stop>>
      /\ m.what = "request"
      /\ Pending(c) /\ handler[c] = "none" /\ ~Within(toPage[c], "ack")
      /\ \A d \in Calls \ {c} : toGo'[d] = toGo[d]
  BY <1>1, <1>2, HeadIsLatest
<1>4. Posting(c) /\ Buffered(c) /\ Ended(c)
  BY DEF Uploads, Upload
<1>5. posted[c] \in Nat /\ size[c] \in Nat /\ Latest(c)' = m /\ m.what # "cancel"
  BY <1>1, <1>2, <1>3, CallTypes DEF Uploads, Latest
<1>6. posted[c] = size[c] + 1 /\ phase[c] = "begun"
  BY <1>2, <1>3, <1>4, <1>5, LatestIsNoCancel, ShapesDiffer DEF Posting
<1>7. ~Pending(c)'
  BY <1>3, <1>5, ShapesDiffer DEF Pending
<1>8. /\ closed => handler' = handler
      /\ ~closed => handler'[c] = "running"
      /\ phase[c] # "begun" => bodies'[c] = <<>>
      /\ \A d \in Calls \ {c} : handler'[d] = handler[d] /\ bodies'[d] = bodies[d]
  BY <1>6, Tables DEF Request, Uploads
<1>9. Posting(c)'
  <2>1. c \in calls => toGo[c] = <<m>>
    BY <1>2, <1>3, <1>5, <1>4, ShapesDiffer DEF Posting
  <2>2. c \in calls' => toGo'[c] = <<>>
    BY <1>1, <1>3, <2>1
  <2>3. AckOnce(toPage'[c])
    BY <1>1, <1>3, AckQueued
  <2>4. toGo'[c] # <<Stop, m>> /\ toGo'[c] \in {<<>>, <<Stop>>}
    BY <1>3, <1>5, ShapesDiffer
  <2>5. posted'[c] = size'[c] + 1 /\ posted'[c] >= 1 /\ posted'[c] <= size'[c] + 1
    BY <1>1, <1>5, <1>6
  <2>6. QED
    BY <1>1, <1>3, <1>5, <1>6, <1>7, <1>8, <2>2, <2>3, <2>4, <2>5 DEF Posting
<1>10. Ended(c)'
  BY <1>1, <1>3, <1>4, AckQueued DEF Ended
<1>11. Buffered(c)'
  BY <1>1, <1>6, <1>8 DEF Buffered
<1>12. Upload(c)'
  BY <1>9, <1>10, <1>11 DEF Upload
<1>13. \A d \in Calls \ {c} : toPage'[d] = toPage[d]
  BY <1>1, <1>3, AckQueued
<1>14. QED
  BY <1>1, <1>3, <1>8, <1>12, <1>13, UploadFrame

\* A cancel drops the body: what follows lacks its first chunk.
LEMMA CancelUploads ==
  ASSUME Uploads, Kept', NEW c \in Calls, Cancel(c)
  PROVE  Uploads'
<1>1. /\ UNCHANGED <<phase, size, posted, calls, handler, closed, toPage>>
      /\ toGo[c] # <<>> /\ Head(toGo[c]).what = "cancel" /\ toGo'[c] = Tail(toGo[c])
      /\ bodies'[c] = <<>>
      /\ \A d \in Calls \ {c} : toGo'[d] = toGo[d] /\ bodies'[d] = bodies[d]
  BY Tables DEF Cancel, Handed, pageVars, writerVars, Uploads
<1>2. PICK m : m = Latest(c)
  OBVIOUS
<1>3. m.what # "cancel" /\ Latest(c)' = m
  BY <1>1, <1>2, LatestIsNoCancel DEF Latest
<1>4. Posting(c) /\ Buffered(c) /\ Ended(c) /\ posted[c] \in Nat /\ size[c] \in Nat
  BY CallTypes DEF Uploads, Upload
<1>5. toGo[c] \in {<<Stop>>, <<m>>, <<m, Stop>>, <<Stop, m>>}
  BY <1>1, <1>2, <1>4 DEF Posting, Pending
<1>6. toGo[c] \in {<<Stop>>, <<Stop, m>>}
  <2>1. Head(<<m>>) = m /\ Head(<<m, Stop>>) = m
    BY <1>3, Shapes
  <2>2. QED
    BY <1>1, <1>3, <1>5, <2>1
<1>7. toGo'[c] = IF toGo[c] = <<Stop>> THEN <<>> ELSE <<m>>
  BY <1>1, <1>3, <1>6, Shapes, ShapesDiffer
<1>8. c \notin calls /\ posted[c] >= 1 /\ phase[c] = "begun"
  BY <1>1, <1>2, <1>3, <1>4, <1>6, ShapesDiffer DEF Posting
<1>9. Pending(c)' <=> Pending(c)
  BY <1>2, <1>3, <1>6, <1>7, ShapesDiffer DEF Pending
<1>10. Pending(c) => posted[c] >= 2
  BY <1>2, <1>3, <1>4, <1>6, ShapesDiffer DEF Posting, Pending
<1>11. Posting(c)'
  <2>1. toGo'[c] \in {<<>>, <<Stop>>} \/ Pending(c)'
    BY <1>3, <1>7 DEF Pending
  <2>2. toGo'[c] # <<Stop, m>>
    BY <1>3, <1>7, ShapesDiffer
  <2>3. QED
    BY <1>1, <1>3, <1>4, <1>8, <1>9, <2>1, <2>2 DEF Posting
<1>12. ~closed /\ handler[c] = "none" => size[c] >= 1
  <2>1. ASSUME ~closed, handler[c] = "none", ~Pending(c) PROVE posted[c] # size[c] + 1
    BY <1>4, <2>1 DEF Posting
  <2>2. posted[c] <= size[c] + 1
    BY <1>4 DEF Posting
  <2>3. QED
    BY <1>4, <1>8, <1>10, <2>1, <2>2
<1>13. Buffered(c)'
  BY <1>1, <1>8, <1>9, <1>10, <1>12 DEF Buffered
<1>14. Ended(c)'
  BY <1>1, <1>4 DEF Ended
<1>15. Upload(c)'
  BY <1>11, <1>13, <1>14 DEF Upload
<1>16. QED
  BY <1>1, <1>15, UploadFrame

\* What a flush sends is head and pieces only.
LEMMA FlushedPlain ==
  ASSUME NEW c, NEW b, NEW what \in {"ack", "end", "fail"}
  PROVE  ~Within(Flushed(c, b), what)
<1> DEFINE first == IF c \in sent THEN <<>> ELSE <<[what |-> "head", data |-> <<>>]>>
           rest == IF b = <<>> THEN <<>> ELSE <<[what |-> "chunk", data |-> b]>>
           Said == {[what |-> "head", data |-> <<>>], [what |-> "chunk", data |-> b]}
<1>1. first \in Seq(Said) /\ rest \in Seq(Said)
  <2>1. <<>> \in Seq(Said) /\ <<[what |-> "head", data |-> <<>>]>> \in Seq(Said)
    OBVIOUS
  <2>2. PICK piece : piece = [what |-> "chunk", data |-> b]
    OBVIOUS
  <2>3. <<piece>> \in Seq(Said)
    BY <2>2
  <2>4. QED
    BY <2>1, <2>2, <2>3
<1>2. ~Within(first, what)
  BY DEF Within
<1>3. ~Within(rest, what)
  BY DEF Within
<1>4. Flushed(c, b) = first \o rest
  BY DEF Flushed
<1> HIDE DEF first, rest, Said
<1>5. QED
  BY <1>1, <1>2, <1>3, <1>4, WithinConcat

\* A handler sends messages that acknowledge nothing, its end with the last.
LEMMA ToldUploads ==
  ASSUME Uploads, Kept', NEW c \in Calls, handler[c] = "running",
         UNCHANGED <<phase, size, posted, calls, toGo, bodies, closed>>,
         NEW more \in Seq(ToPage), Emit(c, more), ~Within(more, "ack"),
         handler'[c] \in {"running", "finished"}, \A d \in Calls \ {c} : handler'[d] = handler[d],
         Within(more, "end") \/ Within(more, "fail") => handler'[c] = "finished"
  PROVE  Uploads'
<1>1. Posting(c) /\ Buffered(c) /\ Ended(c) /\ toPage[c] \in Seq(ToPage)
  BY CallTypes DEF Uploads, Upload
<1>2. /\ toPage'[c] = toPage[c] \/ toPage'[c] = toPage[c] \o more
      /\ \A d \in Calls \ {c} : toPage'[d] = toPage[d]
  BY Tables DEF Emit, Uploads
<1>3. AckOnce(more)
  BY DEF AckOnce, Within
<1>4. AckOnce(toPage'[c])
  <2>1. AckOnce(toPage[c])
    BY <1>1 DEF Posting
  <2>2. AckOnce(toPage[c] \o more)
    BY <1>1, <1>3, <2>1, AckOnceConcat
  <2>3. QED
    BY <1>2, <2>1, <2>2
<1>5. \A what : Within(toPage'[c], what) => Within(toPage[c], what) \/ Within(more, what)
  BY <1>1, <1>2, WithinConcat, ZenonT(60)
<1>6. Latest(c)' = Latest(c)
  BY DEF Latest
<1>7. Pending(c)' <=> Pending(c)
  BY <1>6 DEF Pending
<1>8. Posting(c)'
  BY <1>1, <1>4, <1>5, <1>6, <1>7 DEF Posting
<1>9. Buffered(c)'
  BY <1>1 DEF Buffered
<1>10. Ended(c)'
  BY <1>1, <1>5 DEF Ended
<1>11. Upload(c)'
  BY <1>8, <1>9, <1>10 DEF Upload
<1>12. QED
  BY <1>2, <1>11, UploadFrame

\* The last messages of a handler.
LEMMA LastSaid ==
  ASSUME NEW said \in Seq(ToPage), NEW what \in {"end", "fail"}, ~Within(said, "ack")
  PROVE  /\ Append(said, [what |-> what, data |-> <<>>]) \in Seq(ToPage)
         /\ ~Within(Append(said, [what |-> what, data |-> <<>>]), "ack")
<1>1. [what |-> what, data |-> <<>>] \in ToPage
  BY DEF ToPage
<1>2. PICK last \in ToPage : last = [what |-> what, data |-> <<>>]
  BY <1>1
<1>3. Append(said, last) \in Seq(ToPage) /\ last.what # "ack"
  BY <1>2
<1>4. ~Within(Append(said, last), "ack")
  BY <1>3, WithinAppend
<1>5. QED
  BY <1>2, <1>3, <1>4

\* The goroutine of a request touches no upload: there is none left.
LEMMA GoroutineUploads ==
  ASSUME Uploads, Kept', NEW c \in Calls, Goroutine(c)
  PROVE  Uploads'
<1>1. UNCHANGED <<phase, size, posted, calls, toGo, bodies, closed>>
  BY DEF Goroutine, Write, Flush, Return, Fail, Unregister, pageVars, bridgeVars
<1>2. \A d \in Calls \ {c} : handler'[d] = handler[d]
  BY Tables DEF Uploads, Goroutine, Write, Flush, Return, Fail, Unregister
<1>3. buf[c] \in Seq(1 .. MaxPieces) /\ written[c] \in 0 .. MaxPieces
  BY DEF Uploads, Kept, Typed, TypeOK
<1>4. Flushed(c, buf[c]) \in Seq(ToPage)
  BY <1>3, FlushedType
<1>5. CASE Write(c)
  <2>1. handler[c] = "running" /\ handler' = handler /\ written[c] < MaxPieces
    BY <1>5 DEF Write
  <2>2. written[c] + 1 \in 1 .. MaxPieces
    BY <1>3, <2>1, BoundsAssumption
  <2>7. PICK n \in 1 .. MaxPieces : n = written[c] + 1
    BY <2>2
  <2>8. Append(buf[c], n) \in Seq(1 .. MaxPieces)
    BY <1>3
  <2>3. PICK pending \in Seq(1 .. MaxPieces) : pending = Append(buf[c], written[c] + 1)
    BY <2>7, <2>8
  <2>4. CASE UNCHANGED toPage
    BY <1>1, <2>1, <2>4, UploadsUnchanged
  <2>5. CASE Emit(c, Flushed(c, pending))
    <3>1. Flushed(c, pending) \in Seq(ToPage)
      BY FlushedType
    <3>2. QED
      BY <1>1, <1>2, <2>1, <2>5, <3>1, FlushedPlain, ToldUploads
  <2>6. QED
    BY <1>5, <2>3, <2>4, <2>5 DEF Write
<1>6. CASE Flush(c)
  <2>1. handler[c] = "running" /\ handler' = handler /\ Emit(c, Flushed(c, buf[c]))
    BY <1>6 DEF Flush
  <2>2. QED
    BY <1>1, <1>2, <1>4, <2>1, FlushedPlain, ToldUploads
<1>7. CASE Return(c)
  <2>1. PICK more : more = Append(Flushed(c, buf[c]), [what |-> "end", data |-> <<>>])
    OBVIOUS
  <2>2. handler[c] = "running" /\ handler'[c] = "finished" /\ Emit(c, more)
    BY <1>7, <2>1, Tables DEF Return, Uploads
  <2>3. more \in Seq(ToPage) /\ ~Within(more, "ack")
    BY <1>4, <2>1, FlushedPlain, LastSaid
  <2>4. QED
    BY <1>1, <1>2, <2>2, <2>3, ToldUploads
<1>8. CASE Fail(c)
  <2>1. PICK said : said = IF c \in sent THEN Flushed(c, buf[c]) ELSE <<>>
    OBVIOUS
  <2>2. PICK more : more = Append(said, [what |-> "fail", data |-> <<>>])
    OBVIOUS
  <2>3. handler[c] = "running" /\ handler'[c] = "finished" /\ Emit(c, more)
    BY <1>8, <2>1, <2>2, Tables DEF Fail, Uploads
  <2>4. said \in Seq(ToPage) /\ ~Within(said, "ack")
    BY <1>4, <2>1, FlushedPlain, EmptyQueue
  <2>5. more \in Seq(ToPage) /\ ~Within(more, "ack")
    BY <2>2, <2>4, LastSaid
  <2>6. QED
    BY <1>1, <1>2, <2>3, <2>5, ToldUploads
<1>9. CASE Unregister(c)
  <2>1. handler[c] = "finished" /\ handler'[c] = "done" /\ toPage' = toPage
    BY <1>9, Tables DEF Unregister, Uploads
  <2>2. Upload(c)
    BY DEF Uploads
  <2>3. Latest(c)' = Latest(c)
    BY <1>1 DEF Latest
  <2>4. Pending(c)' <=> Pending(c)
    BY <1>1, <2>3 DEF Pending
  <2>5. Upload(c)'
    BY <1>1, <2>1, <2>2, <2>3, <2>4 DEF Upload, Posting, Buffered, Ended
  <2>6. QED
    BY <1>1, <1>2, <2>1, <2>5, UploadFrame
<1>10. QED
  BY <1>5, <1>6, <1>7, <1>8, <1>9 DEF Goroutine

\* The window closes: what is on its way to the page is lost, then the bodies go.
LEMMA WindowUploads ==
  ASSUME Uploads, Kept', Quit \/ CloseBridge
  PROVE  Uploads'
<1>1. UNCHANGED <<phase, size, posted, calls, toGo, handler>>
  BY DEF Quit, CloseBridge, pageVars, writerVars
<1>2. ASSUME NEW c \in Calls PROVE Upload(c)'
  <2>1. Posting(c) /\ Buffered(c) /\ Ended(c)
    BY DEF Uploads, Upload
  <2>2. Latest(c)' = Latest(c)
    BY <1>1 DEF Latest
  <2>3. Pending(c)' <=> Pending(c)
    BY <1>1, <2>2 DEF Pending
  <2>4. toPage'[c] = <<>> \/ toPage'[c] = toPage[c]
    BY DEF Quit, CloseBridge
  <2>5. /\ AckOnce(toPage'[c])
        /\ \A what : Within(toPage'[c], what) => Within(toPage[c], what)
    BY <2>1, <2>4, EmptyQueue DEF Posting
  <2>6. \/ closed' = closed /\ bodies'[c] = bodies[c]
        \/ closed' /\ bodies'[c] = <<>>
    <3>1. CASE Quit
      BY <3>1 DEF Quit, bridgeVars
    <3>2. CASE CloseBridge
      <4>1. closed' = TRUE /\ bodies' = [d \in Calls |-> <<>>]
        BY <3>2 DEF CloseBridge
      <4>2. QED
        BY <4>1
    <3>3. QED
      BY <3>1, <3>2
  <2>7. Posting(c)'
    BY <1>1, <2>1, <2>2, <2>3, <2>5, <2>6 DEF Posting
  <2>8. Buffered(c)'
    BY <1>1, <2>1, <2>3, <2>6 DEF Buffered
  <2>9. QED
    BY <1>1, <2>1, <2>5, <2>7, <2>8 DEF Upload, Ended
<1>3. QED
  BY <1>2 DEF Uploads

\* Every step keeps the uploads.
LEMMA NextUploads == Uploads /\ [Next]_vars => Uploads'
<1> SUFFICES ASSUME Uploads, [Next]_vars PROVE Uploads'
  OBVIOUS
<1>1. Kept'
  BY NextKept DEF Uploads
<1>2. CASE UNCHANGED vars
  BY <1>1, <1>2, UploadsUnchanged DEF vars, pageVars, bridgeVars, writerVars
<1>3. ASSUME NEW c \in Calls, Page(c) PROVE Uploads'
  <2>1. CASE SourceOpens(c) \/ SourceShows(c) \/ SourceEnds(c)
    BY <1>1, <2>1, UploadsUnchanged
      DEF SourceOpens, SourceShows, SourceEnds, pageVars, bridgeVars, writerVars
  <2>2. QED
    BY <1>1, <1>3, <2>1, UploadUploads, AbortUploads, AnswerUploads DEF Page
<1>4. QED
  BY <1>1, <1>2, <1>3, BodyUploads, RequestUploads, CancelUploads, GoroutineUploads, WindowUploads
    DEF Next, Go

\* A body is handed over one chunk after the other, and what Go has of it is known,
\* whatever is given up meanwhile (start in bridge.js; body, request and cancel of
\* bridge.go).
THEOREM UploadsAlways == Spec => []Uploads
<1>1. QED
  BY InitUploads, NextUploads, PTL DEF Spec

-----------------------------------------------------------------------------
(* What the page gives up.                                                  *)
Heard(c) ==
  handler[c] = "running" /\ c \notin calls /\ payload[c] = UpTo(size[c])
    => c \in cancelled \/ Within(toGo[c], "cancel")

\* The other calls are as they were, and no cancellation is taken back.
LEMMA HeardFrame ==
  ASSUME AbortIsHeard, NEW c \in Calls, cancelled \subseteq cancelled',
         \A d \in Calls \ {c} :
           /\ toGo'[d] = toGo[d] /\ handler'[d] = handler[d] /\ size'[d] = size[d]
           /\ payload'[d] = payload[d] /\ (d \in calls' <=> d \in calls),
         Heard(c)'
  PROVE  AbortIsHeard'
<1>1. ASSUME NEW d \in Calls \ {c} PROVE Heard(d)'
  BY DEF Heard, AbortIsHeard, Within
<1>2. QED
  BY <1>1 DEF AbortIsHeard, Heard

\* Every step keeps that an abort is heard.
LEMMA NextHeard ==
  ASSUME Uploads, AbortIsHeard, [Next]_vars
  PROVE  AbortIsHeard'
<1>t. payload \in [Calls -> Seq(1 .. MaxBody)]
  BY DEF Uploads, Kept, Typed, TypeOK
<1>1. CASE UNCHANGED vars
  BY <1>1 DEF vars, pageVars, bridgeVars, writerVars, AbortIsHeard
<1>2. CASE Quit \/ CloseBridge
  BY <1>2 DEF Quit, CloseBridge, AbortIsHeard, pageVars, bridgeVars, writerVars
<1>3. ASSUME NEW c \in Calls, Page(c) PROVE AbortIsHeard'
  <2>1. UNCHANGED <<handler, payload, cancelled>>
    BY <1>3 DEF Page, Ask, Pack, Begin, Continue, Abort, CancelStream, OnHead, OnChunk, OnEnd,
         SourceOpens, SourceShows, SourceEnds, CloseSource, bridgeVars, writerVars
  <2>2. \A d \in Calls \ {c} : /\ toGo'[d] = toGo[d] /\ size'[d] = size[d]
                               /\ (d \in calls' <=> d \in calls)
    BY <1>3, Tables DEF Uploads, Page, Ask, Pack, Begin, Continue, Post, Abort, CancelStream,
         AbortWaiting, DropCall, OnHead, OnChunk, OnEnd,
         SourceOpens, SourceShows, SourceEnds, CloseSource, pageVars
  <2>3. ASSUME handler[c] = "running", c \notin calls', payload[c] = UpTo(size'[c])
        PROVE  c \in cancelled \/ Within(toGo'[c], "cancel")
    <3>1. /\ toGo[c] \in Seq(ToGo) /\ phase[c] = "begun" /\ posted[c] = size[c] + 1
          /\ ~Within(toPage[c], "end") /\ ~Within(toPage[c], "fail") /\ toPage[c] \in Seq(ToPage)
      BY <2>3, CallTypes DEF Uploads, Upload, Posting, Ended
    <3>2. size' = size
      BY <1>3, <3>1 DEF Page, Ask, Pack, Begin, Continue, Abort, CancelStream, OnHead, OnChunk, OnEnd,
           SourceOpens, SourceShows, SourceEnds, CloseSource, pageVars
    <3>3. c \notin calls => c \in cancelled \/ Within(toGo[c], "cancel")
      BY <2>3, <3>2 DEF AbortIsHeard
    <3>4. CASE toGo' = toGo
      <4>1. CASE c \in calls
        <5>1. ~OnEnd(c)
          <6>1. ASSUME OnEnd(c) PROVE Within(toPage[c], "end") \/ Within(toPage[c], "fail")
            BY <3>1, <6>1 DEF OnEnd, Arrives, Within
          <6>2. QED
            BY <3>1, <6>1
        <5>2. DropCall(c)
          BY <1>3, <2>3, <3>1, <4>1, <5>1
            DEF Page, Ask, Pack, Begin, Continue, Abort, AbortWaiting, CancelStream, OnHead, OnChunk,
                SourceOpens, SourceShows, SourceEnds, CloseSource, pageVars
        <5>3. toGo'[c] = Append(toGo[c], Stop)
          BY <4>1, <5>2, Tables DEF DropCall, Stop, Uploads
        <5>4. Stop \in ToGo /\ Stop.what = "cancel"
          BY DEF Stop, ToGo
        <5>5. QED
          BY <3>1, <5>3, <5>4, WithinAppend
      <4>2. QED
        BY <3>3, <3>4, <4>1
    <3>5. CASE toGo' # toGo
      <4>1. DropCall(c)
        <5>1. ~(Continue(c) /\ posted[c] <= size[c])
          BY <3>1, CallTypes DEF Uploads
        <5>2. QED
          BY <1>3, <3>1, <3>5, <5>1
            DEF Page, Ask, Pack, Begin, Continue, Abort, AbortWaiting, CancelStream, OnHead, OnChunk, OnEnd,
                SourceOpens, SourceShows, SourceEnds, CloseSource, pageVars
      <4>2. toGo'[c] = Append(toGo[c], Stop)
        BY <3>5, <4>1, Tables DEF DropCall, Stop, Uploads
      <4>3. Stop \in ToGo /\ Stop.what = "cancel"
        BY DEF Stop, ToGo
      <4>4. QED
        BY <3>1, <4>2, <4>3, WithinAppend
    <3>6. QED
      BY <3>4, <3>5
  <2>4. QED
    BY <2>1, <2>2, <2>3, HeardFrame DEF Heard
<1>4. ASSUME NEW c \in Calls, Body(c) PROVE AbortIsHeard'
  <2>1. UNCHANGED <<handler, payload, cancelled, calls, size>> /\ Handed(c, "body")
    BY <1>4 DEF Body, pageVars, writerVars
  <2>2. handler[c] = "none" /\ \A d \in Calls \ {c} : toGo'[d] = toGo[d]
    BY <2>1, HeadIsLatest
  <2>3. QED
    BY <2>1, <2>2, HeardFrame DEF Heard
<1>5. ASSUME NEW c \in Calls, Request(c) PROVE AbortIsHeard'
  <2>1. UNCHANGED <<phase, posted, cancelled, calls, size>> /\ Handed(c, "request")
    BY <1>5 DEF Request, pageVars
  <2>2. PICK m : m = Latest(c)
    OBVIOUS
  <2>3. /\ toGo[c] \in {<<m>>, <<m, Stop>>} /\ toGo'[c] = IF toGo[c] = <<m>> THEN <<>> ELSE <<Stop>>
        /\ m.what = "request" /\ Pending(c) /\ handler[c] = "none"
        /\ \A d \in Calls \ {c} : toGo'[d] = toGo[d]
    BY <2>1, <2>2, HeadIsLatest
  <2>4. \A d \in Calls \ {c} : handler'[d] = handler[d] /\ payload'[d] = payload[d]
    BY <1>5, <1>t, Tables DEF Request, Uploads
  <2>5. ASSUME handler'[c] = "running", c \notin calls, payload'[c] = UpTo(size[c])
        PROVE  Within(toGo'[c], "cancel")
    <3>1. ~closed /\ bodies[c] = UpTo(size[c])
      BY <1>5, <1>t, <2>3, <2>5 DEF Request
    <3>2. posted[c] >= 1
      BY <2>3, ShapesDiffer DEF Uploads, Upload, Posting
    <3>3. CASE Within(toGo[c], "cancel")
      <4>1. m.what # "cancel"
        BY <2>3
      <4>2. toGo'[c] = <<Stop>>
        BY <2>3, <3>3, <4>1, ShapesWithin
      <4>3. QED
        BY <4>1, <4>2, ShapesWithin
    <3>4. CASE ~Within(toGo[c], "cancel")
      <4>1. size[c] >= 1 /\ (bodies[c] = <<>> \/ bodies[c][1] # 1) /\ size[c] \in Nat
        BY <2>3, <2>5, <3>1, <3>2, <3>4, CallTypes DEF Uploads, Upload, Buffered
      <4>2. PICK n \in Nat : n = size[c]
        BY <4>1
      <4>3. UpTo(n)[1] = 1 /\ UpTo(n) # <<>>
        BY <4>1, <4>2 DEF UpTo
      <4>4. QED
        BY <3>1, <4>1, <4>2, <4>3
    <3>5. QED
      BY <3>3, <3>4
  <2>6. QED
    BY <2>1, <2>3, <2>4, <2>5, HeardFrame DEF Heard
<1>6. ASSUME NEW c \in Calls, Cancel(c) PROVE AbortIsHeard'
  <2>1. /\ UNCHANGED <<handler, payload, calls, size>>
        /\ cancelled' = cancelled \cup (cancels \cap {c})
        /\ \A d \in Calls \ {c} : toGo'[d] = toGo[d]
    BY <1>6, Tables DEF Cancel, Handed, pageVars, writerVars, Uploads
  <2>2. handler[c] = "running" => c \in cancelled'
    BY <2>1, CallTypes DEF Uploads
  <2>3. QED
    BY <2>1, <2>2, HeardFrame DEF Heard
<1>7. ASSUME NEW c \in Calls, Goroutine(c) PROVE AbortIsHeard'
  <2>1. UNCHANGED <<payload, calls, size, toGo>> /\ cancelled \subseteq cancelled'
    BY <1>7 DEF Goroutine, Write, Flush, Return, Fail, Unregister, pageVars, bridgeVars
  <2>2. /\ \A d \in Calls \ {c} : handler'[d] = handler[d]
        /\ handler'[c] = "running" => handler[c] = "running"
    BY <1>7, Tables DEF Goroutine, Write, Flush, Return, Fail, Unregister, Uploads
  <2>3. Heard(c)
    BY DEF AbortIsHeard, Heard
  <2>4. Heard(c)'
    BY <2>1, <2>2, <2>3 DEF Heard
  <2>5. QED
    BY <2>1, <2>2, <2>4, HeardFrame
<1>8. QED
  BY <1>1, <1>2, <1>3, <1>4, <1>5, <1>6, <1>7 DEF Next, Go

\* A handler that was given its whole body and that the page has given up is
\* cancelled, or the cancel is on its way (cancel and request in bridge.go, dropCall
\* and start in bridge.js).
THEOREM AbortIsHeardAlways == Spec => []AbortIsHeard
<1>1. Init => AbortIsHeard
  BY DEF Init, AbortIsHeard
<1>2. QED
  BY <1>1, UploadsAlways, NextHeard, PTL DEF Spec

-----------------------------------------------------------------------------
(* The answer: what the page has, what is on its way and what is buffered are *)
(* the pieces that were written, in order.                                    *)

\* The pieces from one to another, and a queue whose messages follow each other.
Spans(data, from, to) == Len(data) = to - from /\ \A j \in 1 .. Len(data) : data[j] = from + j

Chained(queue, from, to) ==
  \E at \in [0 .. Len(queue) -> Nat] :
    /\ at[0] = from /\ at[Len(queue)] = to
    /\ \A i \in 1 .. Len(queue) : Spans(queue[i].data, at[i - 1], at[i])

\* Only pieces carry data, and nothing follows the end.
Orderly(queue) ==
  \A i \in 1 .. Len(queue) : /\ queue[i].what # "chunk" => queue[i].data = <<>>
                             /\ queue[i].what = "end" => i = Len(queue)

\* An empty queue leads nowhere.
LEMMA ChainEmpty ==
  ASSUME NEW a \in Nat
  PROVE  Chained(<<>>, a, a)
<1> DEFINE at == [i \in 0 .. 0 |-> a]
<1>1. Len(<<>>) = 0  OBVIOUS
<1>2. at \in [0 .. Len(<<>>) -> Nat] /\ at[0] = a /\ at[Len(<<>>)] = a  BY <1>1
<1>3. \A i \in 1 .. Len(<<>>) : Spans(<<>>[i].data, at[i - 1], at[i])  BY <1>1
<1> QED  BY <1>2, <1>3 DEF Chained

\* A message leads as far as its data.
LEMMA ChainOne ==
  ASSUME NEW m, NEW a \in Nat, NEW b \in Nat, Spans(m.data, a, b)
  PROVE  Chained(<<m>>, a, b)
<1> DEFINE at == [i \in 0 .. 1 |-> IF i = 0 THEN a ELSE b]
<1>1. Len(<<m>>) = 1 /\ <<m>>[1] = m  OBVIOUS
<1>2. at \in [0 .. 1 -> Nat] /\ at[0] = a /\ at[1] = b  OBVIOUS
<1> HIDE DEF at
<1>3. \A i \in 1 .. 1 : Spans(<<m>>[i].data, at[i - 1], at[i])
  <2> SUFFICES ASSUME NEW i \in 1 .. 1  PROVE Spans(<<m>>[i].data, at[i - 1], at[i])
    OBVIOUS
  <2>1. i = 1 /\ i - 1 = 0  OBVIOUS
  <2> QED  BY <2>1, <1>1, <1>2
<1> QED  BY <1>1, <1>2, <1>3 DEF Chained

\* One queue after another.
LEMMA ChainConcat ==
  ASSUME NEW S, NEW q \in Seq(S), NEW r \in Seq(S), NEW a, NEW b, NEW e,
         Chained(q, a, b), Chained(r, b, e)
  PROVE  Chained(q \o r, a, e)
<1>1. PICK f \in [0 .. Len(q) -> Nat] :
        /\ f[0] = a /\ f[Len(q)] = b
        /\ \A i \in 1 .. Len(q) : Spans(q[i].data, f[i - 1], f[i])
  BY DEF Chained
<1>2. PICK g \in [0 .. Len(r) -> Nat] :
        /\ g[0] = b /\ g[Len(r)] = e
        /\ \A i \in 1 .. Len(r) : Spans(r[i].data, g[i - 1], g[i])
  BY DEF Chained
<1> DEFINE n == Len(q)
           k == Len(r)
           at == [i \in 0 .. n + k |-> IF i <= n THEN f[i] ELSE g[i - n]]
<1>3. n \in Nat /\ k \in Nat /\ Len(q \o r) = n + k  OBVIOUS
<1>4. \A i \in 1 .. n + k : (q \o r)[i] = IF i <= n THEN q[i] ELSE r[i - n]  OBVIOUS
<1>5. f \in [0 .. n -> Nat] /\ g \in [0 .. k -> Nat] /\ f[0] = a /\ f[n] = b /\ g[0] = b /\ g[k] = e
  BY <1>1, <1>2
<1>6. \A i \in 1 .. n : Spans(q[i].data, f[i - 1], f[i])  BY <1>1
<1>7. \A i \in 1 .. k : Spans(r[i].data, g[i - 1], g[i])  BY <1>2
<1> HIDE DEF n, k
<1>8. at \in [0 .. n + k -> Nat]
  <2> SUFFICES ASSUME NEW i \in 0 .. n + k  PROVE (IF i <= n THEN f[i] ELSE g[i - n]) \in Nat
    OBVIOUS
  <2>1. CASE i <= n  BY <2>1, <1>3, <1>5
  <2>2. CASE ~(i <= n)
    <3>1. i - n \in 0 .. k  BY <2>2, <1>3
    <3> QED  BY <2>2, <3>1, <1>5
  <2> QED  BY <2>1, <2>2
<1>9. \A i \in 0 .. n : at[i] = f[i]  BY <1>3
<1>10. \A i \in 0 .. k : at[n + i] = g[i]
  <2> SUFFICES ASSUME NEW i \in 0 .. k  PROVE at[n + i] = g[i]
    OBVIOUS
  <2>1. CASE i = 0  BY <2>1, <1>3, <1>5
  <2>2. CASE i # 0
    <3>1. n + i \in 0 .. n + k /\ ~(n + i <= n) /\ (n + i) - n = i  BY <2>2, <1>3
    <3> QED  BY <3>1
  <2> QED  BY <2>1, <2>2
<1> HIDE DEF at
<1>11. at[0] = a /\ at[n + k] = e
  <2>1. 0 \in 0 .. n /\ k \in 0 .. k  BY <1>3
  <2> QED  BY <2>1, <1>5, <1>9, <1>10
<1>12. \A i \in 1 .. n + k : Spans((q \o r)[i].data, at[i - 1], at[i])
  <2> SUFFICES ASSUME NEW i \in 1 .. n + k  PROVE Spans((q \o r)[i].data, at[i - 1], at[i])
    OBVIOUS
  <2>1. CASE i <= n
    <3>1. i \in 1 .. n /\ i - 1 \in 0 .. n /\ i \in 0 .. n  BY <2>1, <1>3
    <3>2. (q \o r)[i] = q[i] /\ at[i - 1] = f[i - 1] /\ at[i] = f[i]  BY <3>1, <2>1, <1>4, <1>9
    <3> QED  BY <3>1, <3>2, <1>6
  <2>2. CASE ~(i <= n)
    <3> DEFINE j == i - n
    <3>1. j \in 1 .. k /\ j - 1 \in 0 .. k /\ j \in 0 .. k /\ n + j = i /\ n + (j - 1) = i - 1
      BY <2>2, <1>3
    <3>2. (q \o r)[i] = r[j]  BY <2>2, <1>4
    <3> HIDE DEF j
    <3>3. at[i] = g[j] /\ at[i - 1] = g[j - 1]  BY <3>1, <1>10
    <3> QED  BY <3>1, <3>2, <3>3, <1>7
  <2> QED  BY <2>1, <2>2
<1> QED  BY <1>3, <1>8, <1>11, <1>12 DEF Chained

\* The head leads to where the rest begins.
LEMMA ChainTail ==
  ASSUME NEW S, NEW q \in Seq(S), q # <<>>, NEW a, NEW b, Chained(q, a, b)
  PROVE  \E mid \in Nat : Spans(Head(q).data, a, mid) /\ Chained(Tail(q), mid, b)
<1>1. PICK f \in [0 .. Len(q) -> Nat] :
        /\ f[0] = a /\ f[Len(q)] = b
        /\ \A i \in 1 .. Len(q) : Spans(q[i].data, f[i - 1], f[i])
  BY DEF Chained
<1> DEFINE n == Len(q)
           t == Tail(q)
<1>2. n \in Nat /\ n >= 1 /\ Len(t) = n - 1 /\ Head(q) = q[1]  OBVIOUS
<1>3. \A i \in 1 .. n - 1 : t[i] = q[i + 1]  OBVIOUS
<1>4. f \in [0 .. n -> Nat] /\ f[0] = a /\ f[n] = b  BY <1>1
<1>5. \A i \in 1 .. n : Spans(q[i].data, f[i - 1], f[i])  BY <1>1
<1> HIDE DEF n, t
<1> DEFINE g == [i \in 0 .. n - 1 |-> f[i + 1]]
<1>6. g \in [0 .. n - 1 -> Nat] /\ g[0] = f[1] /\ g[n - 1] = b /\ f[1] \in Nat
  BY <1>2, <1>4
<1>7. \A i \in 1 .. n - 1 : g[i - 1] = f[i] /\ g[i] = f[i + 1] /\ i + 1 \in 1 .. n /\ (i + 1) - 1 = i
  BY <1>2
<1> HIDE DEF g
<1>8. \A i \in 1 .. n - 1 : Spans(t[i].data, g[i - 1], g[i])
  <2> SUFFICES ASSUME NEW i \in 1 .. n - 1  PROVE Spans(t[i].data, g[i - 1], g[i])
    OBVIOUS
  <2>1. Spans(q[i + 1].data, f[(i + 1) - 1], f[i + 1])  BY <1>5, <1>7
  <2> QED  BY <2>1, <1>3, <1>7
<1>9. Chained(t, f[1], b)  BY <1>2, <1>6, <1>8 DEF Chained
<1>10. Spans(q[1].data, a, f[1])
  <2>1. 1 \in 1 .. n /\ 1 - 1 = 0  BY <1>2
  <2> QED  BY <2>1, <1>4, <1>5
<1> QED  BY <1>2, <1>6, <1>9, <1>10 DEF t

\* The rest of an orderly queue; the end is its last message.
LEMMA OrderlyTail ==
  ASSUME NEW S, NEW q \in Seq(S), q # <<>>, Orderly(q)
  PROVE  /\ Orderly(Tail(q))
         /\ Head(q).what # "chunk" => Head(q).data = <<>>
         /\ Head(q).what = "end" => Tail(q) = <<>>
<1> DEFINE n == Len(q)
           t == Tail(q)
<1>1. n \in Nat /\ n >= 1 /\ Len(t) = n - 1 /\ Head(q) = q[1]  OBVIOUS
<1>2. \A i \in 1 .. n - 1 : t[i] = q[i + 1]  OBVIOUS
<1>3. \A i \in 1 .. n : /\ q[i].what # "chunk" => q[i].data = <<>>
                        /\ q[i].what = "end" => i = n
  BY DEF Orderly
<1>4. n = 1 => t = <<>>
  <2>1. t \in Seq(S)  OBVIOUS
  <2>2. n = 1 => Len(t) = 0  BY <1>1
  <2> HIDE DEF n, t
  <2> QED  BY <2>1, <2>2
<1> HIDE DEF n, t
<1>5. Orderly(t)
  <2> SUFFICES ASSUME NEW i \in 1 .. n - 1
               PROVE  /\ t[i].what # "chunk" => t[i].data = <<>>
                      /\ t[i].what = "end" => i = n - 1
    BY <1>1 DEF Orderly
  <2>1. i + 1 \in 1 .. n  BY <1>1
  <2>2. /\ q[i + 1].what # "chunk" => q[i + 1].data = <<>>
        /\ q[i + 1].what = "end" => i + 1 = n
    BY <2>1, <1>3
  <2> QED  BY <2>2, <1>1, <1>2
<1>6. 1 \in 1 .. n  BY <1>1
<1> QED  BY <1>1, <1>3, <1>4, <1>5, <1>6 DEF t

\* What may follow a queue without an end.
LEMMA OrderlyConcat ==
  ASSUME NEW S, NEW q \in Seq(S), NEW r \in Seq(S), Orderly(q), Orderly(r), ~Within(q, "end")
  PROVE  Orderly(q \o r)
<1> DEFINE n == Len(q)
           k == Len(r)
<1>1. n \in Nat /\ k \in Nat /\ Len(q \o r) = n + k  OBVIOUS
<1>2. \A i \in 1 .. n + k : (q \o r)[i] = IF i <= n THEN q[i] ELSE r[i - n]  OBVIOUS
<1>3. \A i \in 1 .. n : q[i].what # "end" /\ (q[i].what # "chunk" => q[i].data = <<>>)
  BY DEF Orderly, Within
<1>4. \A i \in 1 .. k : /\ r[i].what # "chunk" => r[i].data = <<>>
                        /\ r[i].what = "end" => i = k
  BY DEF Orderly
<1> HIDE DEF n, k
<1>5. SUFFICES ASSUME NEW i \in 1 .. n + k
               PROVE  /\ (q \o r)[i].what # "chunk" => (q \o r)[i].data = <<>>
                      /\ (q \o r)[i].what = "end" => i = n + k
  BY <1>1 DEF Orderly
<1>6. CASE i <= n
  <2>1. i \in 1 .. n /\ (q \o r)[i] = q[i]  BY <1>6, <1>1, <1>2
  <2> QED  BY <2>1, <1>3
<1>7. CASE ~(i <= n)
  <2>1. i - n \in 1 .. k /\ (q \o r)[i] = r[i - n]  BY <1>7, <1>1, <1>2
  <2>2. /\ r[i - n].what # "chunk" => r[i - n].data = <<>>
        /\ r[i - n].what = "end" => i - n = k
    BY <2>1, <1>4
  <2> QED  BY <2>1, <2>2, <1>1
<1> QED  BY <1>6, <1>7

\* Pieces read on from where the page is.
LEMMA UpToExtended ==
  ASSUME NEW n \in Nat, NEW k \in Nat, NEW data \in Seq(Nat), Spans(data, n, k)
  PROVE  UpTo(n) \o data = UpTo(k)
<1>1. Len(UpTo(n)) = n /\ UpTo(n) \in Seq(Nat) /\ Len(UpTo(k)) = k /\ UpTo(k) \in Seq(Nat)
  BY DEF UpTo
<1>2. Len(data) = k - n /\ \A j \in 1 .. Len(data) : data[j] = n + j  BY DEF Spans
<1> DEFINE u == UpTo(n)
           s == u \o data
<1>8. u \in Seq(Nat) /\ Len(u) = n /\ \A i \in 1 .. n : u[i] = i  BY <1>1 DEF UpTo
<1> HIDE DEF u
<1>3. s \in Seq(Nat) /\ Len(s) = n + Len(data)  BY <1>8
<1>4. Len(s) = k  BY <1>2, <1>3
<1>5. \A i \in 1 .. k : s[i] = i
  <2> SUFFICES ASSUME NEW i \in 1 .. k  PROVE s[i] = i
    OBVIOUS
  <2>1. CASE i <= n
    <3>1. s[i] = u[i]  BY <2>1, <1>8
    <3> QED  BY <2>1, <3>1, <1>8
  <2>2. CASE ~(i <= n)
    <3>1. i - n \in 1 .. Len(data)  BY <2>2, <1>2
    <3>2. s[i] = data[i - n]  BY <2>2, <3>1, <1>8, <1>3
    <3> QED  BY <3>1, <3>2, <1>2
  <2> QED  BY <2>1, <2>2
<1> HIDE DEF s
<1>6. \A i \in 1 .. k : UpTo(k)[i] = i  BY DEF UpTo
<1>7. s = UpTo(k)  BY <1>1, <1>3, <1>4, <1>5, <1>6
<1> QED  BY <1>7 DEF s, u

Whole(c) == Answered(c) => received[c] = UpTo(written[c]) /\ payload[c] = UpTo(size[c])

\* What the page has of an answer, what is on its way and what the writer has buffered
\* are the pieces that were written, one after the other, as long as the page waits.
Answering(c) ==
  /\ phase[c] # "begun" => received[c] = <<>> /\ stream[c] = "open" /\ promise[c] = "pending"
  /\ handler[c] = "none" => written[c] = 0 /\ buf[c] = <<>>
  /\ Spans(buf[c], written[c] - Len(buf[c]), written[c]) /\ Len(buf[c]) <= written[c]
  /\ c \in calls => stream[c] = "open" /\ received[c] = UpTo(Len(received[c]))
  /\ c \in calls /\ handler[c] # "none" => payload[c] = UpTo(size[c])
  /\ alive /\ c \in calls => Chained(toPage[c], Len(received[c]), written[c] - Len(buf[c]))
  /\ ~alive => toPage[c] = <<>>
  /\ Orderly(toPage[c])
  /\ Within(toPage[c], "end") => buf[c] = <<>>
  /\ Answered(c) => handler[c] \in {"finished", "done"}
  /\ Whole(c)

Answers == Uploads /\ \A c \in Calls : Answering(c)

\* What a step knows of the call it is about.
LEMMA AnswerTypes ==
  ASSUME Answers, NEW c \in Calls
  PROVE  /\ received[c] \in Seq(1 .. MaxPieces) /\ buf[c] \in Seq(1 .. MaxPieces)
         /\ written[c] \in Nat /\ written[c] - Len(buf[c]) \in Nat
         /\ toPage[c] \in Seq(ToPage) /\ Len(received[c]) \in Nat /\ Len(buf[c]) \in Nat
         /\ Uploads /\ Upload(c) /\ Answering(c) /\ Kept
<1>1. Uploads /\ Upload(c) /\ Answering(c) /\ Kept  BY DEF Answers, Uploads
<1>2. /\ received[c] \in Seq(1 .. MaxPieces) /\ buf[c] \in Seq(1 .. MaxPieces)
      /\ written[c] \in 0 .. MaxPieces /\ toPage[c] \in Seq(ToPage)
  BY <1>1 DEF Kept, Typed, TypeOK
<1>3. written[c] \in Nat /\ Len(buf[c]) \in Nat /\ Len(received[c]) \in Nat
  BY <1>2, BoundsAssumption
<1>4. Len(buf[c]) <= written[c]  BY <1>1 DEF Answering
<1> QED  BY <1>1, <1>2, <1>3, <1>4

\* The other calls are as they were.
LEMMA AnswerFrame ==
  ASSUME Answers, Uploads', NEW c \in Calls, alive' = alive,
         \A d \in Calls \ {c} :
           /\ phase'[d] = phase[d] /\ size'[d] = size[d] /\ received'[d] = received[d]
           /\ stream'[d] = stream[d] /\ promise'[d] = promise[d] /\ handler'[d] = handler[d]
           /\ written'[d] = written[d] /\ buf'[d] = buf[d] /\ payload'[d] = payload[d]
           /\ toPage'[d] = toPage[d] /\ (d \in calls' <=> d \in calls),
         Answering(c)'
  PROVE  Answers'
<1>1. SUFFICES ASSUME NEW d \in Calls, d # c  PROVE Answering(d)'
  BY DEF Answers
<1>2. Answering(d)  BY DEF Answers
<1>3. /\ phase'[d] = phase[d] /\ size'[d] = size[d] /\ received'[d] = received[d]
      /\ stream'[d] = stream[d] /\ promise'[d] = promise[d] /\ handler'[d] = handler[d]
      /\ written'[d] = written[d] /\ buf'[d] = buf[d] /\ payload'[d] = payload[d]
      /\ toPage'[d] = toPage[d] /\ (d \in calls' <=> d \in calls)
  BY <1>1
<1> QED  BY <1>2, <1>3 DEF Answering, Whole, Answered

\* A step that is about none of this.
LEMMA AnswersUnchanged ==
  ASSUME Answers, Uploads',
         UNCHANGED <<phase, size, calls, promise, stream, received, toPage, alive,
                     handler, payload, written, buf>>
  PROVE  Answers'
<1>1. SUFFICES ASSUME NEW d \in Calls  PROVE Answering(d)'
  BY DEF Answers
<1>2. Answering(d)  BY DEF Answers
<1> QED  BY <1>2 DEF Answering, Whole, Answered

\* Nothing is answered at first.
LEMMA InitAnswers == Init => Answers
<1> SUFFICES ASSUME Init  PROVE Answers
  OBVIOUS
<1>1. Uploads  BY InitUploads
<1>2. SUFFICES ASSUME NEW c \in Calls  PROVE Answering(c)
  BY <1>1 DEF Answers
<1>3. /\ phase[c] = "idle" /\ received[c] = <<>> /\ stream[c] = "open" /\ promise[c] = "pending"
      /\ handler[c] = "none" /\ written[c] = 0 /\ buf[c] = <<>> /\ calls = {} /\ toPage[c] = <<>> /\ alive
  BY DEF Init
<1>4. Spans(<<>>, 0, 0) /\ Len(<<>>) = 0 /\ Orderly(<<>>) /\ ~Within(<<>>, "end")
  BY DEF Spans, Orderly, Within
<1> QED  BY <1>3, <1>4 DEF Answering, Whole, Answered

\* A call is begun with nothing on its way.
LEMMA BegunAnswers ==
  ASSUME Answers, Uploads', NEW c \in Calls, phase[c] # "begun",
         UNCHANGED <<stream, received, toPage, alive, handler, payload, written, buf>>,
         \A d \in Calls \ {c} : /\ phase'[d] = phase[d] /\ size'[d] = size[d]
                                /\ promise'[d] = promise[d] /\ (d \in calls' <=> d \in calls),
         phase'[c] # "begun" => promise'[c] = promise[c]
  PROVE  Answers'
<1>1. Uploads /\ Answering(c) /\ Kept  BY AnswerTypes
<1>2. toPage[c] = <<>> /\ handler[c] = "none" /\ received[c] = <<>> /\ stream[c] = "open"
      /\ promise[c] = "pending" /\ written[c] = 0 /\ buf[c] = <<>>
  BY <1>1, CallTypes DEF Answering
<1>3. Spans(<<>>, 0, 0) /\ Len(<<>>) = 0 /\ 0 - 0 = 0 /\ Orderly(<<>>) /\ ~Within(<<>>, "end")
  BY DEF Spans, Orderly, Within
<1>4. Chained(<<>>, 0, 0) /\ UpTo(0) = <<>>  BY ChainEmpty, UpToZero
<1>5. Answering(c)'  BY <1>2, <1>3, <1>4 DEF Answering, Whole, Answered
<1> QED  BY <1>5, AnswerFrame

\* Ask, Pack and Begin have no answer yet.
LEMMA UploadAnswers ==
  ASSUME Answers, Uploads', NEW c \in Calls, Ask(c) \/ Pack(c) \/ Begin(c)
  PROVE  Answers'
<1>1. Kept  BY AnswerTypes
<1>2. phase \in [Calls -> {"idle", "packing", "begun"}] /\ size \in [Calls -> 0 .. MaxBody]
  BY <1>1, Tables
<1>3. promise \in [Calls -> {"pending", "resolved", "rejected"}]  BY <1>1 DEF Kept, Typed, TypeOK
<1>4. UNCHANGED <<stream, received, toPage, alive, handler, payload, written, buf>>
  BY DEF Ask, Pack, Begin, writerVars
<1>5. phase[c] # "begun"  BY DEF Ask, Pack, Begin
<1>6. /\ \A d \in Calls \ {c} : /\ phase'[d] = phase[d] /\ size'[d] = size[d]
                                /\ promise'[d] = promise[d] /\ (d \in calls' <=> d \in calls)
      /\ phase'[c] # "begun" => promise'[c] = promise[c]
  <2>1. CASE Ask(c)  BY <2>1, <1>2, <1>3 DEF Ask
  <2>2. CASE Pack(c)  BY <2>2, <1>2, <1>3 DEF Pack
  <2>3. CASE Begin(c)  BY <2>3, <1>2, <1>3 DEF Begin
  <2> QED  BY <2>1, <2>2, <2>3
<1> QED  BY <1>4, <1>5, <1>6, BegunAnswers

\* The page gives the call up: its stream was open, or is as it was.
LEMMA DropAnswers ==
  ASSUME Answers, Uploads', NEW c \in Calls, phase[c] = "begun", calls' = calls \ {c},
         UNCHANGED <<phase, size, received, toPage, alive, handler, payload, written, buf>>,
         \A d \in Calls \ {c} : stream'[d] = stream[d] /\ promise'[d] = promise[d],
         stream'[c] = "closed" => stream[c] = "closed"
  PROVE  Answers'
<1>1. Answering(c)  BY AnswerTypes
<1>2. c \notin calls' /\ \A d \in Calls \ {c} : d \in calls' <=> d \in calls  OBVIOUS
<1>3. Answering(c)'  BY <1>1, <1>2 DEF Answering, Whole, Answered
<1> QED  BY <1>2, <1>3, AnswerFrame

\* Abort, CancelStream and CloseSource close no stream.
LEMMA AbortAnswers ==
  ASSUME Answers, Uploads', NEW c \in Calls, Abort(c) \/ CancelStream(c) \/ CloseSource(c)
  PROVE  Answers'
<1>1. Answering(c) /\ Kept  BY AnswerTypes
<1>2. /\ stream \in [Calls -> {"open", "closed", "errored", "cancelled"}]
      /\ promise \in [Calls -> {"pending", "resolved", "rejected"}]
  BY <1>1 DEF Kept, Typed, TypeOK
<1>3. UNCHANGED <<phase, size, received, toPage, alive, handler, payload, written, buf>>
  BY DEF Abort, CancelStream, CloseSource, writerVars
<1>4. ASSUME phase[c] = "begun", AbortWaiting(c)  PROVE Answers'
  <2>1. calls' = calls \ {c}  BY <1>4 DEF AbortWaiting, DropCall
  <2>2. /\ \A d \in Calls \ {c} : stream'[d] = stream[d] /\ promise'[d] = promise[d]
        /\ stream'[c] = "closed" => stream[c] = "closed"
    BY <1>2, <1>4 DEF AbortWaiting
  <2> QED  BY <1>3, <1>4, <2>1, <2>2, DropAnswers
<1>5. CASE Abort(c)
  <2>1. CASE UNCHANGED <<calls, toGo, promise, stream>>  BY <2>1, <1>3, AnswersUnchanged
  <2>2. CASE phase[c] = "begun" /\ AbortWaiting(c)  BY <2>2, <1>4
  <2> QED  BY <1>5, <2>1, <2>2 DEF Abort
<1>6. CASE CancelStream(c)
  <2>1. calls' = calls \ {c}  BY <1>6 DEF CancelStream, DropCall
  <2>2. phase[c] = "begun"  BY <1>1, <1>6 DEF CancelStream, Answering
  <2>3. /\ \A d \in Calls \ {c} : stream'[d] = stream[d] /\ promise'[d] = promise[d]
        /\ stream'[c] = "closed" => stream[c] = "closed"
    BY <1>2, <1>6 DEF CancelStream
  <2> QED  BY <1>3, <2>1, <2>2, <2>3, DropAnswers
<1>7. CASE CloseSource(c)  BY <1>4, <1>7 DEF CloseSource
<1> QED  BY <1>5, <1>6, <1>7

\* A message without data is taken off the queue.
LEMMA TakeAnswers ==
  ASSUME Answers, Uploads', NEW c \in Calls, toPage[c] # <<>>, Head(toPage[c]).what # "chunk",
         toPage' = [toPage EXCEPT ![c] = Tail(@)],
         UNCHANGED <<phase, size, calls, stream, received, alive, handler, payload, written, buf>>,
         \A d \in Calls \ {c} : promise'[d] = promise[d]
  PROVE  Answers'
<1>1. Answering(c) /\ Kept /\ toPage[c] \in Seq(ToPage) /\ Len(received[c]) \in Nat
      /\ written[c] - Len(buf[c]) \in Nat
  BY AnswerTypes
<1>2. toPage \in [Calls -> Seq(ToPage)]  BY <1>1, Tables
<1>3. toPage'[c] = Tail(toPage[c]) /\ \A d \in Calls \ {c} : toPage'[d] = toPage[d]
  BY <1>2
<1>4. phase[c] = "begun"  BY <1>1, CallTypes
<1>5. alive  BY <1>1 DEF Answering
<1>6. Orderly(toPage[c])  BY <1>1 DEF Answering
<1>7. Orderly(Tail(toPage[c])) /\ Head(toPage[c]).data = <<>>  BY <1>1, <1>6, OrderlyTail
<1>8. Within(Tail(toPage[c]), "end") => Within(toPage[c], "end")  BY <1>1, WithinTail
<1>9. c \in calls => Chained(Tail(toPage[c]), Len(received[c]), written[c] - Len(buf[c]))
  <2>1. SUFFICES ASSUME c \in calls
                 PROVE Chained(Tail(toPage[c]), Len(received[c]), written[c] - Len(buf[c]))
    OBVIOUS
  <2>2. Chained(toPage[c], Len(received[c]), written[c] - Len(buf[c]))
    BY <1>1, <1>5, <2>1 DEF Answering
  <2>3. PICK mid \in Nat : /\ Spans(Head(toPage[c]).data, Len(received[c]), mid)
                           /\ Chained(Tail(toPage[c]), mid, written[c] - Len(buf[c]))
    BY <1>1, <2>2, ChainTail
  <2>4. mid = Len(received[c])
    <3>1. Len(<<>>) = mid - Len(received[c])  BY <2>3, <1>7 DEF Spans
    <3> QED  BY <3>1, <1>1
  <2> QED  BY <2>3, <2>4
<1>10. Answering(c)'
  BY <1>1, <1>3, <1>4, <1>5, <1>7, <1>8, <1>9 DEF Answering, Whole, Answered
<1> QED  BY <1>3, <1>10, AnswerFrame

\* The chunk the page takes goes on where it is.
LEMMA OnChunkAnswers ==
  ASSUME Answers, Uploads', NEW c \in Calls, OnChunk(c)
  PROVE  Answers'
<1>1. Answering(c) /\ Kept /\ toPage[c] \in Seq(ToPage) /\ Len(received[c]) \in Nat
      /\ written[c] - Len(buf[c]) \in Nat
  BY AnswerTypes
<1>2. toPage \in [Calls -> Seq(ToPage)] /\ received \in [Calls -> Seq(1 .. MaxPieces)]
  BY <1>1 DEF Kept, Typed, TypeOK
<1> DEFINE data == Head(toPage[c]).data
           taken == received[c] \o data
<1>3. toPage[c] # <<>> /\ toPage' = [toPage EXCEPT ![c] = Tail(@)]
  BY DEF OnChunk, Arrives
<1>4. toPage'[c] = Tail(toPage[c]) /\ \A d \in Calls \ {c} : toPage'[d] = toPage[d]
  BY <1>2, <1>3
<1>5. received' = [received EXCEPT ![c] = IF c \in calls /\ stream[c] = "open" THEN @ \o data ELSE @]
  BY DEF OnChunk
<1>6. /\ c \in calls /\ stream[c] = "open" => received'[c] = taken
      /\ ~(c \in calls /\ stream[c] = "open") => received'[c] = received[c]
      /\ \A d \in Calls \ {c} : received'[d] = received[d]
  BY <1>2, <1>5
<1>7. UNCHANGED <<phase, size, calls, promise, stream, alive, handler, payload, written, buf>>
  BY DEF OnChunk, writerVars
<1>8. data \in Seq(1 .. MaxPieces)
  <2>1. Head(toPage[c]) \in ToPage  BY <1>1, <1>3
  <2> QED  BY <2>1 DEF ToPage
<1>9. data \in Seq(Nat)
  <2> HIDE DEF data
  <2>1. \A i \in 1 .. Len(data) : data[i] \in Nat  BY <1>8, BoundsAssumption
  <2>2. Len(data) \in Nat /\ data = [i \in 1 .. Len(data) |-> data[i]]  BY <1>8
  <2> QED  BY <2>1, <2>2
<1>10. phase[c] = "begun"  BY <1>1, <1>3, CallTypes
<1>11. alive  BY <1>1, <1>3 DEF Answering
<1>12. Orderly(Tail(toPage[c]))
  <2>1. Orderly(toPage[c])  BY <1>1 DEF Answering
  <2> QED  BY <1>1, <1>3, <2>1, OrderlyTail
<1>13. Within(Tail(toPage[c]), "end") => Within(toPage[c], "end")  BY <1>1, <1>3, WithinTail
<1>14. CASE c \in calls
  <2>1. stream[c] = "open" /\ received[c] = UpTo(Len(received[c]))
    BY <1>1, <1>14 DEF Answering
  <2>2. received'[c] = taken  BY <1>6, <1>14, <2>1
  <2>3. Chained(toPage[c], Len(received[c]), written[c] - Len(buf[c]))
    BY <1>1, <1>11, <1>14 DEF Answering
  <2>4. PICK mid \in Nat : /\ Spans(Head(toPage[c]).data, Len(received[c]), mid)
                           /\ Chained(Tail(toPage[c]), mid, written[c] - Len(buf[c]))
    BY <1>1, <1>3, <2>3, ChainTail
  <2>5. Spans(data, Len(received[c]), mid)  BY <2>4
  <2> HIDE DEF data
  <2>6. UpTo(Len(received[c])) \o data = UpTo(mid)  BY <1>1, <1>9, <2>5, UpToExtended
  <2>7. taken = UpTo(mid)  BY <2>1, <2>6
  <2>8. Len(taken) = mid  BY <2>7, UpToNext
  <2> HIDE DEF taken
  <2>9. /\ received'[c] = UpTo(Len(received'[c]))
        /\ Chained(toPage'[c], Len(received'[c]), written[c] - Len(buf[c]))
    BY <1>4, <2>2, <2>4, <2>7, <2>8
  <2>10. Answering(c)'
    BY <1>1, <1>4, <1>7, <1>10, <1>11, <1>12, <1>13, <2>1, <2>9 DEF Answering, Whole, Answered
  <2> QED  BY <1>4, <1>6, <1>7, <2>10, AnswerFrame
<1>15. CASE c \notin calls
  <2>1. received'[c] = received[c]  BY <1>6, <1>15
  <2>2. Answering(c)'
    BY <1>1, <1>4, <1>7, <1>10, <1>11, <1>12, <1>13, <1>15, <2>1 DEF Answering, Whole, Answered
  <2> QED  BY <1>4, <1>6, <1>7, <2>2, AnswerFrame
<1> QED  BY <1>14, <1>15

\* The end is the last message, so that the page has all that came before it.
LEMMA OnEndAnswers ==
  ASSUME Answers, Uploads', NEW c \in Calls, OnEnd(c)
  PROVE  Answers'
<1>1. /\ Answering(c) /\ Kept /\ Upload(c) /\ toPage[c] \in Seq(ToPage) /\ Len(received[c]) \in Nat
      /\ written[c] \in Nat /\ written[c] - Len(buf[c]) \in Nat
  BY AnswerTypes
<1>2. /\ toPage \in [Calls -> Seq(ToPage)]
      /\ stream \in [Calls -> {"open", "closed", "errored", "cancelled"}]
      /\ promise \in [Calls -> {"pending", "resolved", "rejected"}]
  BY <1>1 DEF Kept, Typed, TypeOK
<1>3. toPage[c] # <<>> /\ toPage' = [toPage EXCEPT ![c] = Tail(@)] /\ Head(toPage[c]).what \in {"end", "fail"}
  BY DEF OnEnd, Arrives
<1>4. toPage'[c] = Tail(toPage[c]) /\ \A d \in Calls \ {c} : toPage'[d] = toPage[d]
  BY <1>2, <1>3
<1>5. UNCHANGED <<phase, size, received, alive, handler, payload, written, buf>> /\ calls' = calls \ {c}
  BY DEF OnEnd, writerVars
<1>6. /\ \A d \in Calls \ {c} : stream'[d] = stream[d] /\ promise'[d] = promise[d]
      /\ stream'[c] = "closed" => \/ stream[c] = "closed"
                                  \/ c \in calls /\ Head(toPage[c]).what = "end"
  BY <1>2 DEF OnEnd, Arrives
<1>7. phase[c] = "begun"  BY <1>1, <1>3, CallTypes
<1>8. alive  BY <1>1, <1>3 DEF Answering
<1>9. Orderly(toPage[c])  BY <1>1 DEF Answering
<1>10. /\ Orderly(Tail(toPage[c])) /\ Head(toPage[c]).data = <<>>
       /\ Head(toPage[c]).what = "end" => Tail(toPage[c]) = <<>>
  BY <1>1, <1>3, <1>9, OrderlyTail
<1>11. Within(Tail(toPage[c]), "end") => Within(toPage[c], "end")  BY <1>1, <1>3, WithinTail
<1>12. c \notin calls' /\ \A d \in Calls \ {c} : d \in calls' <=> d \in calls  BY <1>5
<1>13. ASSUME c \in calls, Head(toPage[c]).what = "end"
       PROVE  /\ received[c] = UpTo(written[c]) /\ payload[c] = UpTo(size[c])
              /\ handler[c] \in {"finished", "done"}
  <2>1. Within(toPage[c], "end")
    <3>1. 1 \in 1 .. Len(toPage[c]) /\ toPage[c][1] = Head(toPage[c])  BY <1>1, <1>3
    <3> QED  BY <3>1, <1>13 DEF Within
  <2>2. handler[c] \in {"finished", "done"}  BY <1>1, <2>1 DEF Upload, Ended
  <2>3. buf[c] = <<>>  BY <1>1, <2>1 DEF Answering
  <2>4. payload[c] = UpTo(size[c])  BY <1>1, <1>13, <2>2 DEF Answering
  <2>5. Chained(toPage[c], Len(received[c]), written[c] - Len(buf[c]))
    BY <1>1, <1>8, <1>13 DEF Answering
  <2>6. PICK mid \in Nat : /\ Spans(Head(toPage[c]).data, Len(received[c]), mid)
                           /\ Chained(Tail(toPage[c]), mid, written[c] - Len(buf[c]))
    BY <1>1, <1>3, <2>5, ChainTail
  <2>7. mid = Len(received[c])
    <3>1. Len(<<>>) = mid - Len(received[c])  BY <2>6, <1>10 DEF Spans
    <3> QED  BY <3>1, <1>1
  <2>8. Chained(<<>>, mid, written[c])
    <3>1. written[c] - Len(buf[c]) = written[c]  BY <1>1, <2>3
    <3> QED  BY <2>6, <1>10, <1>13, <3>1
  <2>9. mid = written[c]  BY <2>8 DEF Chained
  <2>10. received[c] = UpTo(Len(received[c]))  BY <1>1, <1>13 DEF Answering
  <2> QED  BY <2>2, <2>4, <2>7, <2>9, <2>10
<1>14. Answering(c)'
  <2>1. stream'[c] = "closed" => /\ received[c] = UpTo(written[c]) /\ payload[c] = UpTo(size[c])
                                 /\ handler[c] \in {"finished", "done"}
    <3>1. stream[c] = "closed" => /\ received[c] = UpTo(written[c]) /\ payload[c] = UpTo(size[c])
                                  /\ handler[c] \in {"finished", "done"}
      BY <1>1 DEF Answering, Whole, Answered
    <3> QED  BY <3>1, <1>6, <1>13
  <2> QED  BY <1>1, <1>4, <1>5, <1>7, <1>8, <1>10, <1>11, <1>12, <2>1 DEF Answering, Whole, Answered
<1> QED  BY <1>4, <1>5, <1>6, <1>12, <1>14, AnswerFrame

\* What Go emits comes after all that is on its way.
LEMMA EmitChained ==
  ASSUME Answers, NEW c \in Calls, NEW more \in Seq(ToPage), Emit(c, more),
         Orderly(more), ~Within(toPage[c], "end"),
         NEW to, Chained(more, written[c] - Len(buf[c]), to)
  PROVE  /\ \A d \in Calls \ {c} : toPage'[d] = toPage[d]
         /\ Orderly(toPage'[c])
         /\ alive /\ c \in calls => Chained(toPage'[c], Len(received[c]), to)
         /\ ~alive => toPage'[c] = <<>>
         /\ Within(toPage'[c], "end") => Within(more, "end")
<1>1. Answering(c) /\ Kept /\ toPage[c] \in Seq(ToPage)  BY AnswerTypes
<1>2. toPage \in [Calls -> Seq(ToPage)]  BY <1>1, Tables
<1>3. Orderly(toPage[c])  BY <1>1 DEF Answering
<1>4. CASE alive
  <2>1. toPage' = [toPage EXCEPT ![c] = @ \o more]  BY <1>4 DEF Emit
  <2>2. toPage'[c] = toPage[c] \o more /\ \A d \in Calls \ {c} : toPage'[d] = toPage[d]
    BY <1>2, <2>1
  <2>3. Orderly(toPage[c] \o more)  BY <1>1, <1>3, OrderlyConcat
  <2>4. Within(toPage[c] \o more, "end") => Within(more, "end")  BY <1>1, WithinConcat
  <2>5. ASSUME c \in calls  PROVE Chained(toPage[c] \o more, Len(received[c]), to)
    <3>1. Chained(toPage[c], Len(received[c]), written[c] - Len(buf[c]))
      BY <1>1, <1>4, <2>5 DEF Answering
    <3> QED  BY <1>1, <3>1, ChainConcat
  <2> QED  BY <1>4, <2>2, <2>3, <2>4, <2>5
<1>5. CASE ~alive
  <2>1. toPage' = toPage  BY <1>5 DEF Emit
  <2> QED  BY <1>1, <1>3, <1>5, <2>1 DEF Answering
<1> QED  BY <1>4, <1>5

\* The answer to a message carries no data.
LEMMA AckAnswers ==
  ASSUME Answers, Uploads', NEW c \in Calls, handler[c] = "none", Emit(c, Ack),
         UNCHANGED <<phase, size, calls, promise, stream, received, alive, written, buf>>,
         \A d \in Calls \ {c} : handler'[d] = handler[d] /\ payload'[d] = payload[d],
         c \in calls /\ handler'[c] # "none" => payload'[c] = UpTo(size[c])
  PROVE  Answers'
<1>1. /\ Answering(c) /\ Kept /\ Upload(c) /\ written[c] - Len(buf[c]) \in Nat
  BY AnswerTypes
<1>2. ~Within(toPage[c], "end")  BY <1>1 DEF Upload, Ended
<1>3. Orderly(Ack) /\ ~Within(Ack, "end")  BY DEF Orderly, Within, Ack
<1>4. Chained(Ack, written[c] - Len(buf[c]), written[c] - Len(buf[c]))
  <2> DEFINE m == [what |-> "ack", data |-> <<>>]
             n == written[c] - Len(buf[c])
  <2>1. Spans(m.data, n, n)  BY <1>1 DEF Spans
  <2>2. n \in Nat  BY <1>1
  <2> HIDE DEF m, n
  <2>3. Chained(<<m>>, n, n)  BY <2>1, <2>2, ChainOne
  <2> QED  BY <2>3 DEF m, n, Ack
<1>5. /\ \A d \in Calls \ {c} : toPage'[d] = toPage[d]
      /\ Orderly(toPage'[c])
      /\ alive /\ c \in calls => Chained(toPage'[c], Len(received[c]), written[c] - Len(buf[c]))
      /\ ~alive => toPage'[c] = <<>>
      /\ ~Within(toPage'[c], "end")
  BY <1>2, <1>3, <1>4, AckType, EmitChained
<1>6. stream[c] # "closed"  BY <1>1 DEF Answering, Answered
<1>7. written[c] = 0 /\ buf[c] = <<>>  BY <1>1 DEF Answering
<1>8. Answering(c)'  BY <1>1, <1>5, <1>6, <1>7 DEF Answering, Whole, Answered
<1> QED  BY <1>5, <1>8, AnswerFrame

\* Go answers a message before the handler has said anything; the body a request
\* takes out is whole, if the page still waits.
LEMMA GoAnswers ==
  ASSUME Answers, Uploads', NEW c \in Calls, Go(c)
  PROVE  Answers'
<1>1. Uploads /\ Upload(c) /\ Kept  BY AnswerTypes
<1>2. UNCHANGED <<phase, size, calls, promise, stream, received, alive, written, buf>>
  BY DEF Go, Body, Request, Cancel, pageVars, writerVars
<1>3. CASE Body(c)
  <2>1. handler[c] = "none"  BY <1>1, <1>3, HeadIsLatest DEF Body
  <2>2. Emit(c, Ack) /\ handler' = handler /\ payload' = payload  BY <1>3 DEF Body, writerVars
  <2> QED  BY <1>2, <2>1, <2>2, AckAnswers
<1>4. CASE Request(c)
  <2>1. /\ handler[c] = "none" /\ Pending(c) /\ Latest(c).what = "request"
    BY <1>1, <1>4, HeadIsLatest DEF Request
  <2>2. Emit(c, Ack)  BY <1>4 DEF Request
  <2>3. /\ handler \in [Calls -> {"none", "running", "finished", "done"}]
        /\ payload \in [Calls -> Seq(1 .. MaxBody)]
    BY <1>1 DEF Kept, Typed, TypeOK
  <2>4. \/ closed /\ handler' = handler /\ payload' = payload
        \/ /\ ~closed /\ payload' = [payload EXCEPT ![c] = bodies[c]]
           /\ handler' = [handler EXCEPT ![c] = "running"]
    BY <1>4 DEF Request
  <2>5. \A d \in Calls \ {c} : handler'[d] = handler[d] /\ payload'[d] = payload[d]
    BY <2>3, <2>4
  <2>6. ASSUME c \in calls, handler'[c] # "none"  PROVE payload'[c] = UpTo(size[c])
    <3>1. ~closed /\ payload'[c] = bodies[c]  BY <2>1, <2>3, <2>4, <2>6
    <3>2. posted[c] \in Nat /\ size[c] \in Nat  BY <1>1, CallTypes
    <3>3. ~(posted[c] <= size[c])  BY <2>1, LatestIsNoCancel
    <3>4. posted[c] <= size[c] + 1  BY <1>1 DEF Upload, Posting
    <3>5. posted[c] - 1 = size[c]  BY <3>2, <3>3, <3>4
    <3>6. bodies[c] = UpTo(posted[c] - 1)  BY <1>1, <2>1, <2>6, <3>1 DEF Upload, Buffered
    <3> QED  BY <3>1, <3>5, <3>6
  <2> QED  BY <1>2, <2>1, <2>2, <2>5, <2>6, AckAnswers
<1>5. CASE Cancel(c)
  <2>1. UNCHANGED <<toPage, handler, payload>>  BY <1>5 DEF Cancel, writerVars
  <2> QED  BY <1>2, <2>1, AnswersUnchanged
<1> QED  BY <1>3, <1>4, <1>5 DEF Go

\* What is flushed leads from one end of the buffer to the other.
LEMMA FlushedChained ==
  ASSUME NEW c, NEW b \in Seq(1 .. MaxPieces), NEW from \in Nat, NEW to \in Nat, Spans(b, from, to)
  PROVE  /\ Chained(Flushed(c, b), from, to) /\ Orderly(Flushed(c, b))
         /\ ~Within(Flushed(c, b), "end")
<1> DEFINE head == [what |-> "head", data |-> <<>>]
           chunk == [what |-> "chunk", data |-> b]
           first == IF c \in sent THEN <<>> ELSE <<head>>
           second == IF b = <<>> THEN <<>> ELSE <<chunk>>
<1>1. Flushed(c, b) = first \o second  BY DEF Flushed
<1>2. Chained(first, from, from)
  <2>1. CASE c \in sent  BY <2>1, ChainEmpty
  <2>2. CASE c \notin sent
    <3>1. Spans(head.data, from, from)  BY DEF Spans
    <3> HIDE DEF head
    <3>2. Chained(<<head>>, from, from)  BY <3>1, ChainOne
    <3> QED  BY <2>2, <3>2
  <2> QED  BY <2>1, <2>2
<1>3. Chained(second, from, to)
  <2>1. CASE b = <<>>
    <3>1. to = from
      <4>1. Len(<<>>) = to - from  BY <2>1 DEF Spans
      <4> QED  BY <4>1
    <3> QED  BY <2>1, <3>1, ChainEmpty
  <2>2. CASE b # <<>>
    <3>1. Spans(chunk.data, from, to)  OBVIOUS
    <3> HIDE DEF chunk
    <3>2. Chained(<<chunk>>, from, to)  BY <3>1, ChainOne
    <3> QED  BY <2>2, <3>2
  <2> QED  BY <2>1, <2>2
<1>4. \A m : <<>> \in Seq({head, chunk}) /\ (m \in {head, chunk} => <<m>> \in Seq({head, chunk}))
  <2> HIDE DEF head, chunk
  <2> QED  OBVIOUS
<1>5. first \in Seq({head, chunk}) /\ second \in Seq({head, chunk})
  <2> HIDE DEF head, chunk
  <2> QED  BY <1>4
<1>6. Orderly(first) /\ Orderly(second) /\ ~Within(first, "end") /\ ~Within(second, "end")
  BY DEF Orderly, Within
<1> HIDE DEF first, second
<1>7. Chained(first \o second, from, to)  BY <1>2, <1>3, <1>5, ChainConcat
<1>8. Orderly(first \o second)  BY <1>5, <1>6, OrderlyConcat
<1>9. ~Within(first \o second, "end")  BY <1>5, <1>6, WithinConcat
<1> QED  BY <1>1, <1>7, <1>8, <1>9

\* An end or a failure is said last, and carries no data.
LEMMA LastChained ==
  ASSUME NEW said \in Seq(ToPage), NEW what \in {"end", "fail"}, NEW from, NEW to \in Nat,
         Chained(said, from, to), Orderly(said), ~Within(said, "end")
  PROVE  /\ Chained(Append(said, [what |-> what, data |-> <<>>]), from, to)
         /\ Orderly(Append(said, [what |-> what, data |-> <<>>]))
         /\ Append(said, [what |-> what, data |-> <<>>]) \in Seq(ToPage)
         /\ Within(Append(said, [what |-> what, data |-> <<>>]), "end") => what = "end"
<1> DEFINE m == [what |-> what, data |-> <<>>]
<1>1. m \in ToPage  BY DEF ToPage
<1>2. Spans(m.data, to, to)  BY DEF Spans
<1>3. m.what = what /\ m.data = <<>> /\ what # "chunk"  OBVIOUS
<1> HIDE DEF m
<1>4. <<m>> \in Seq(ToPage) /\ Append(said, m) = said \o <<m>>  BY <1>1
<1>5. Chained(<<m>>, to, to)  BY <1>2, ChainOne
<1>6. Orderly(<<m>>)  BY <1>3 DEF Orderly
<1>7. Chained(said \o <<m>>, from, to)  BY <1>4, <1>5, ChainConcat
<1>8. Orderly(said \o <<m>>)  BY <1>4, <1>6, OrderlyConcat
<1>9. said \o <<m>> \in Seq(ToPage)  BY <1>4
<1>10. Within(Append(said, m), "end") => m.what = "end"  BY <1>1, WithinAppend
<1> QED  BY <1>3, <1>4, <1>7, <1>8, <1>9, <1>10 DEF m

\* The handler's goroutine says more, and may be through with it.
LEMMA ToldAnswers ==
  ASSUME Answers, Uploads', NEW c \in Calls, handler[c] = "running",
         UNCHANGED <<phase, size, calls, promise, stream, received, alive, payload>>,
         NEW more \in Seq(ToPage), Emit(c, more), Orderly(more),
         Chained(more, written[c] - Len(buf[c]), written'[c] - Len(buf'[c])),
         Spans(buf'[c], written'[c] - Len(buf'[c]), written'[c]), Len(buf'[c]) <= written'[c],
         Within(more, "end") => buf'[c] = <<>>,
         handler'[c] \in {"running", "finished"},
         \A d \in Calls \ {c} : /\ handler'[d] = handler[d] /\ written'[d] = written[d]
                                /\ buf'[d] = buf[d]
  PROVE  Answers'
<1>1. Answering(c) /\ Kept /\ Upload(c)  BY AnswerTypes
<1>2. ~Within(toPage[c], "end")  BY <1>1 DEF Upload, Ended
<1>3. /\ \A d \in Calls \ {c} : toPage'[d] = toPage[d]
      /\ Orderly(toPage'[c])
      /\ alive /\ c \in calls => Chained(toPage'[c], Len(received[c]), written'[c] - Len(buf'[c]))
      /\ ~alive => toPage'[c] = <<>>
      /\ Within(toPage'[c], "end") => Within(more, "end")
  BY <1>2, EmitChained
<1>4. stream[c] # "closed"  BY <1>1 DEF Answering, Answered
<1>5. phase[c] = "begun"  BY <1>1, CallTypes
<1>6. Answering(c)'  BY <1>1, <1>3, <1>4, <1>5 DEF Answering, Whole, Answered
<1> QED  BY <1>3, <1>6, AnswerFrame

\* Write numbers one more piece, and keeps it or flushes all it has.
LEMMA WriteAnswers ==
  ASSUME Answers, Uploads', NEW c \in Calls, Write(c)
  PROVE  Answers'
<1>1. /\ Answering(c) /\ Kept /\ buf[c] \in Seq(1 .. MaxPieces) /\ written[c] \in Nat
      /\ written[c] - Len(buf[c]) \in Nat /\ Len(buf[c]) \in Nat
  BY AnswerTypes
<1>2. /\ written \in [Calls -> 0 .. MaxPieces] /\ buf \in [Calls -> Seq(1 .. MaxPieces)]
  BY <1>1 DEF Kept, Typed, TypeOK
<1> DEFINE pending == Append(buf[c], written[c] + 1)
           from == written[c] - Len(buf[c])
<1>3. handler[c] = "running" /\ written[c] < MaxPieces /\ written' = [written EXCEPT ![c] = @ + 1]
      /\ UNCHANGED <<phase, size, calls, promise, stream, received, alive, payload, handler, toGo>>
  BY DEF Write, pageVars
<1>4. written'[c] = written[c] + 1 /\ \A d \in Calls \ {c} : written'[d] = written[d]
  BY <1>2, <1>3
<1>5. pending \in Seq(1 .. MaxPieces)
  <2>1. written[c] + 1 \in 1 .. MaxPieces  BY <1>1, <1>3, BoundsAssumption
  <2> QED  BY <1>1, <2>1
<1>6. Len(pending) = Len(buf[c]) + 1  BY <1>1
<1>7. Spans(pending, from, written[c] + 1)
  <2>1. Spans(buf[c], from, written[c])  BY <1>1 DEF Answering
  <2>2. \A j \in 1 .. Len(buf[c]) : buf[c][j] = from + j  BY <2>1 DEF Spans
  <2>3. Len(pending) = (written[c] + 1) - from
    <3>1. (written[c] + 1) - from = Len(buf[c]) + 1  BY <1>1
    <3> QED  BY <3>1, <1>6
  <2>6. SUFFICES ASSUME NEW j \in 1 .. Len(buf[c]) + 1  PROVE pending[j] = from + j
    <3>1. SUFFICES \A j \in 1 .. Len(pending) : pending[j] = from + j  BY <2>3, Zenon DEF Spans
    <3> QED  BY <1>6, Zenon
  <2>4. CASE j = Len(buf[c]) + 1  BY <2>4, <1>1
  <2>5. CASE j # Len(buf[c]) + 1
    <3>3. Len(buf[c]) \in Nat  BY <1>1
    <3>1. j \in 1 .. Len(buf[c])  BY <2>5, <3>3
    <3>2. pending[j] = buf[c][j]  BY <3>1, <1>1
    <3> QED  BY <3>1, <3>2, <2>2
  <2> QED  BY <2>4, <2>5
<1>8. \/ buf' = [buf EXCEPT ![c] = pending] /\ toPage' = toPage
      \/ Emit(c, Flushed(c, pending)) /\ buf' = [buf EXCEPT ![c] = <<>>]
  BY DEF Write
<1>9. from \in Nat /\ written[c] + 1 \in Nat  BY <1>1
<1>10. (written[c] + 1) - Len(pending) = from
  <2>1. written[c] \in Nat /\ Len(buf[c]) \in Nat  BY <1>1
  <2> QED  BY <2>1, <1>6
<1> HIDE DEF pending, from
<1>11. CASE buf' = [buf EXCEPT ![c] = pending] /\ toPage' = toPage
  <2>1. buf'[c] = pending /\ \A d \in Calls \ {c} : buf'[d] = buf[d]  BY <1>2, <1>11
  <2>2. Emit(c, <<>>)
    <3>1. toPage \in [Calls -> Seq(ToPage)]  BY <1>1, Tables
    <3>2. toPage[c] \o <<>> = toPage[c]  BY <3>1
    <3>3. [toPage EXCEPT ![c] = toPage[c] \o <<>>] = toPage  BY <3>1, <3>2
    <3> QED  BY <1>11, <3>3 DEF Emit
  <2>3. <<>> \in Seq(ToPage) /\ Orderly(<<>>) /\ ~Within(<<>>, "end")  BY DEF Orderly, Within
  <2>8. written'[c] = written[c] + 1 /\ Len(buf'[c]) = Len(pending)  BY <1>4, <2>1
  <2>4. written'[c] - Len(buf'[c]) = from  BY <1>10, <2>8, Zenon
  <2>5. Chained(<<>>, written[c] - Len(buf[c]), written'[c] - Len(buf'[c]))
    <3>1. Chained(<<>>, from, from)  BY <1>9, ChainEmpty
    <3> QED  BY <3>1, <2>4 DEF from
  <2>6. Spans(buf'[c], written'[c] - Len(buf'[c]), written'[c])  BY <1>4, <1>7, <2>1, <2>4
  <2>7. Len(buf'[c]) <= written'[c]
    <3>1. Len(pending) \in Nat  BY <1>5
    <3>2. Len(pending) <= written[c] + 1  BY <3>1, <1>1, <1>9, <1>10
    <3> QED  BY <3>2, <2>8, Zenon
  <2> QED  BY <1>3, <1>4, <2>1, <2>2, <2>3, <2>5, <2>6, <2>7, ToldAnswers
<1>12. CASE Emit(c, Flushed(c, pending)) /\ buf' = [buf EXCEPT ![c] = <<>>]
  <2>1. buf'[c] = <<>> /\ \A d \in Calls \ {c} : buf'[d] = buf[d]  BY <1>2, <1>12
  <2>2. Len(<<>>) = 0  OBVIOUS
  <2>3. written'[c] - Len(buf'[c]) = written[c] + 1  BY <1>4, <1>9, <2>1, <2>2
  <2>4. /\ Chained(Flushed(c, pending), from, written[c] + 1) /\ Orderly(Flushed(c, pending))
        /\ ~Within(Flushed(c, pending), "end")
    BY <1>5, <1>7, <1>9, FlushedChained
  <2>5. Flushed(c, pending) \in Seq(ToPage)  BY <1>5, FlushedType
  <2>6. Chained(Flushed(c, pending), written[c] - Len(buf[c]), written'[c] - Len(buf'[c]))
    BY <2>3, <2>4 DEF from
  <2>7. Spans(buf'[c], written'[c] - Len(buf'[c]), written'[c]) /\ Len(buf'[c]) <= written'[c]
    BY <1>4, <1>9, <2>1, <2>2, <2>3 DEF Spans
  <2> QED  BY <1>3, <1>4, <1>12, <2>1, <2>4, <2>5, <2>6, <2>7, ToldAnswers
<1> QED  BY <1>8, <1>11, <1>12

\* The rest of the goroutine writes no piece: it empties its buffer, or leaves it.
LEMMA EmptiedAnswers ==
  ASSUME Answers, Uploads', NEW c \in Calls, handler[c] = "running",
         UNCHANGED <<phase, size, calls, promise, stream, received, alive, payload, written>>,
         NEW more \in Seq(ToPage), Emit(c, more), Orderly(more),
         \/ Chained(more, written[c] - Len(buf[c]), written[c]) /\ buf' = [buf EXCEPT ![c] = <<>>]
         \/ /\ Chained(more, written[c] - Len(buf[c]), written[c] - Len(buf[c])) /\ buf' = buf
            /\ ~Within(more, "end"),
         handler'[c] \in {"running", "finished"},
         \A d \in Calls \ {c} : handler'[d] = handler[d]
  PROVE  Answers'
<1>1. /\ Answering(c) /\ Kept /\ buf[c] \in Seq(1 .. MaxPieces) /\ written[c] \in Nat
  BY AnswerTypes
<1>2. buf \in [Calls -> Seq(1 .. MaxPieces)]  BY <1>1 DEF Kept, Typed, TypeOK
<1>3. CASE Chained(more, written[c] - Len(buf[c]), written[c]) /\ buf' = [buf EXCEPT ![c] = <<>>]
  <2>1. buf'[c] = <<>> /\ \A d \in Calls \ {c} : buf'[d] = buf[d]  BY <1>2, <1>3
  <2>2. Len(<<>>) = 0  OBVIOUS
  <2>3. written'[c] = written[c] /\ written'[c] - Len(buf'[c]) = written[c]  BY <1>1, <2>1, <2>2
  <2>4. Spans(buf'[c], written'[c] - Len(buf'[c]), written'[c]) /\ Len(buf'[c]) <= written'[c]
    BY <1>1, <2>1, <2>2, <2>3 DEF Spans
  <2>5. Chained(more, written[c] - Len(buf[c]), written'[c] - Len(buf'[c]))  BY <1>3, <2>3
  <2> QED  BY <2>1, <2>4, <2>5, ToldAnswers
<1>4. CASE /\ Chained(more, written[c] - Len(buf[c]), written[c] - Len(buf[c])) /\ buf' = buf
           /\ ~Within(more, "end")
  <2>1. Spans(buf[c], written[c] - Len(buf[c]), written[c]) /\ Len(buf[c]) <= written[c]
    BY <1>1 DEF Answering
  <2>2. buf'[c] = buf[c] /\ written'[c] = written[c]  BY <1>4
  <2> QED  BY <1>4, <2>1, <2>2, ToldAnswers
<1> QED  BY <1>3, <1>4

\* Flush, Return and Fail send the buffer or leave it; Unregister says nothing.
LEMMA GoroutineAnswers ==
  ASSUME Answers, Uploads', NEW c \in Calls, Goroutine(c)
  PROVE  Answers'
<1>1. /\ Answering(c) /\ Kept /\ buf[c] \in Seq(1 .. MaxPieces) /\ written[c] \in Nat
      /\ written[c] - Len(buf[c]) \in Nat /\ Len(buf[c]) \in Nat
  BY AnswerTypes
<1>2. handler \in [Calls -> {"none", "running", "finished", "done"}]  BY <1>1, Tables
<1> DEFINE from == written[c] - Len(buf[c])
           said == Flushed(c, buf[c])
<1>3. /\ Chained(said, from, written[c]) /\ Orderly(said) /\ ~Within(said, "end")
      /\ said \in Seq(ToPage)
  <2>1. Spans(buf[c], from, written[c])  BY <1>1 DEF Answering
  <2> QED  BY <1>1, <2>1, FlushedChained, FlushedType
<1>4. from \in Nat  BY <1>1
<1>5. CASE Write(c)  BY <1>5, WriteAnswers
<1>6. CASE Flush(c)
  <2>1. /\ handler[c] = "running" /\ Emit(c, said) /\ buf' = [buf EXCEPT ![c] = <<>>]
        /\ UNCHANGED <<phase, size, calls, promise, stream, received, alive, payload, written, handler>>
    BY <1>6 DEF Flush, pageVars
  <2> QED  BY <1>3, <2>1, EmptiedAnswers
<1>7. CASE Return(c)
  <2> DEFINE more == Append(said, [what |-> "end", data |-> <<>>])
  <2>1. /\ handler[c] = "running" /\ Emit(c, more) /\ buf' = [buf EXCEPT ![c] = <<>>]
        /\ handler' = [handler EXCEPT ![c] = "finished"]
        /\ UNCHANGED <<phase, size, calls, promise, stream, received, alive, payload, written>>
    BY <1>7 DEF Return, pageVars
  <2>2. handler'[c] = "finished" /\ \A d \in Calls \ {c} : handler'[d] = handler[d]
    BY <1>2, <2>1
  <2> HIDE DEF said
  <2>3. Chained(more, from, written[c]) /\ Orderly(more) /\ more \in Seq(ToPage)
    BY <1>1, <1>3, LastChained
  <2> HIDE DEF more
  <2> QED  BY <2>1, <2>2, <2>3, EmptiedAnswers
<1>8. CASE Fail(c)
  <2> DEFINE first == IF c \in sent THEN said ELSE <<>>
             more == Append(first, [what |-> "fail", data |-> <<>>])
  <2>1. /\ handler[c] = "running" /\ Emit(c, more)
        /\ handler' = [handler EXCEPT ![c] = "finished"]
        /\ UNCHANGED <<phase, size, calls, promise, stream, received, alive, payload, written>>
    BY <1>8 DEF Fail, pageVars
  <2>2. handler'[c] = "finished" /\ \A d \in Calls \ {c} : handler'[d] = handler[d]
    BY <1>2, <2>1
  <2>3. buf' = [buf EXCEPT ![c] = IF c \in sent THEN <<>> ELSE @]  BY <1>8 DEF Fail
  <2> HIDE DEF said
  <2>4. CASE c \in sent
    <3>1. first = said /\ buf' = [buf EXCEPT ![c] = <<>>]  BY <2>3, <2>4
    <3> HIDE DEF first
    <3>2. Chained(more, from, written[c]) /\ Orderly(more) /\ more \in Seq(ToPage)
      BY <1>1, <1>3, <3>1, LastChained
    <3> HIDE DEF more
    <3> QED  BY <2>1, <2>2, <3>1, <3>2, EmptiedAnswers
  <2>5. CASE c \notin sent
    <3>1. first = <<>>  BY <2>5
    <3>2. buf' = buf
      <4>1. buf \in [Calls -> Seq(1 .. MaxPieces)]  BY <1>1 DEF Kept, Typed, TypeOK
      <4>2. buf' = [buf EXCEPT ![c] = buf[c]]  BY <2>3, <2>5
      <4> QED  BY <4>1, <4>2
    <3>3. <<>> \in Seq(ToPage) /\ Orderly(<<>>) /\ ~Within(<<>>, "end")  BY DEF Orderly, Within
    <3>4. Chained(<<>>, from, from)  BY <1>4, ChainEmpty
    <3> HIDE DEF first
    <3>5. Chained(more, from, from) /\ Orderly(more) /\ more \in Seq(ToPage) /\ ~Within(more, "end")
      BY <1>4, <3>1, <3>3, <3>4, LastChained
    <3> HIDE DEF more
    <3> QED  BY <2>1, <2>2, <3>2, <3>5, EmptiedAnswers
  <2> QED  BY <2>4, <2>5
<1>9. CASE Unregister(c)
  <2>1. /\ handler[c] = "finished" /\ handler' = [handler EXCEPT ![c] = "done"]
        /\ UNCHANGED <<phase, size, calls, promise, stream, received, toPage, alive, payload, written, buf>>
    BY <1>9 DEF Unregister, pageVars
  <2>2. handler'[c] = "done" /\ \A d \in Calls \ {c} : handler'[d] = handler[d]  BY <1>2, <2>1
  <2>3. Answering(c)'  BY <1>1, <2>1, <2>2 DEF Answering, Whole, Answered
  <2> QED  BY <2>1, <2>2, <2>3, AnswerFrame
<1> QED  BY <1>5, <1>6, <1>7, <1>8, <1>9 DEF Goroutine

\* The window is gone, and with it what was on its way.
LEMMA WindowAnswers ==
  ASSUME Answers, Uploads', Quit \/ CloseBridge
  PROVE  Answers'
<1>1. CASE Quit
  <2>1. SUFFICES ASSUME NEW c \in Calls  PROVE Answering(c)'
    BY DEF Answers
  <2>2. Answering(c)  BY DEF Answers
  <2>3. toPage'[c] = <<>> /\ ~alive'  BY <1>1 DEF Quit
  <2>4. UNCHANGED <<phase, size, calls, promise, stream, received, handler, payload, written, buf>>
    BY <1>1 DEF Quit, pageVars, writerVars
  <2>5. Orderly(<<>>) /\ ~Within(<<>>, "end")  BY DEF Orderly, Within
  <2> QED  BY <2>2, <2>3, <2>4, <2>5 DEF Answering, Whole, Answered
<1>2. CASE CloseBridge
  <2>1. UNCHANGED <<phase, size, calls, promise, stream, received, toPage, alive,
                    handler, payload, written, buf>>
    BY <1>2 DEF CloseBridge, pageVars, writerVars
  <2> QED  BY <2>1, AnswersUnchanged
<1> QED  BY <1>1, <1>2

\* Every step keeps the answers.
LEMMA NextAnswers == Answers /\ [Next]_vars => Answers'
<1> SUFFICES ASSUME Answers, [Next]_vars  PROVE Answers'
  OBVIOUS
<1>1. Uploads'
  <2>1. Uploads  BY DEF Answers
  <2> QED  BY <2>1, NextUploads
<1>2. ASSUME NEW c \in Calls, Page(c)  PROVE Answers'
  <2>1. CASE Ask(c) \/ Pack(c) \/ Begin(c)  BY <2>1, <1>1, UploadAnswers
  <2>2. CASE Abort(c) \/ CancelStream(c) \/ CloseSource(c)  BY <2>2, <1>1, AbortAnswers
  <2>3. CASE Continue(c)
    <3>1. /\ toPage[c] # <<>> /\ Head(toPage[c]).what # "chunk"
          /\ toPage' = [toPage EXCEPT ![c] = Tail(@)]
          /\ UNCHANGED <<phase, size, calls, stream, received, alive, handler, payload, written, buf, promise>>
      BY <2>3 DEF Continue, writerVars
    <3> QED  BY <3>1, <1>1, TakeAnswers
  <2>4. CASE OnHead(c)
    <3>1. /\ toPage[c] # <<>> /\ Head(toPage[c]).what # "chunk"
          /\ toPage' = [toPage EXCEPT ![c] = Tail(@)]
          /\ UNCHANGED <<phase, size, calls, stream, received, alive, handler, payload, written, buf>>
      BY <2>4 DEF OnHead, Arrives, writerVars
    <3>2. \A d \in Calls \ {c} : promise'[d] = promise[d]
      <4>1. Kept  BY AnswerTypes
      <4>2. promise \in [Calls -> {"pending", "resolved", "rejected"}]  BY <4>1 DEF Kept, Typed, TypeOK
      <4> QED  BY <2>4, <4>2 DEF OnHead
    <3> QED  BY <3>1, <3>2, <1>1, TakeAnswers
  <2>5. CASE OnChunk(c)  BY <2>5, <1>1, OnChunkAnswers
  <2>6. CASE OnEnd(c)  BY <2>6, <1>1, OnEndAnswers
  <2>7. CASE SourceOpens(c) \/ SourceShows(c) \/ SourceEnds(c)
    <3>1. UNCHANGED <<phase, size, calls, promise, stream, received, toPage, alive,
                      handler, payload, written, buf>>
      BY <2>7 DEF SourceOpens, SourceShows, SourceEnds, pageVars, writerVars
    <3> QED  BY <3>1, <1>1, AnswersUnchanged
  <2> QED  BY <1>2, <2>1, <2>2, <2>3, <2>4, <2>5, <2>6, <2>7 DEF Page
<1>3. CASE UNCHANGED vars
  <2>1. UNCHANGED <<phase, size, calls, promise, stream, received, toPage, alive,
                    handler, payload, written, buf>>
    BY <1>3 DEF vars, pageVars, writerVars
  <2> QED  BY <2>1, <1>1, AnswersUnchanged
<1>4. CASE Quit \/ CloseBridge  BY <1>4, <1>1, WindowAnswers
<1>5. ASSUME NEW c \in Calls, Go(c)  PROVE Answers'  BY <1>5, <1>1, GoAnswers
<1>6. ASSUME NEW c \in Calls, Goroutine(c)  PROVE Answers'  BY <1>6, <1>1, GoroutineAnswers
<1> QED  BY <1>2, <1>3, <1>4, <1>5, <1>6 DEF Next

\* The pieces the page has, those on their way and those in the writer's buffer are
\* all that the handler wrote, as long as the page waits (bridge.js and bridge.go).
THEOREM AnswersAlways == Spec => []Answers
<1> QED  BY InitAnswers, NextAnswers, PTL DEF Spec

\* An answer that ended well is all that the handler wrote, in order, and the handler
\* had been given all of the body, whatever their sizes.
THEOREM AnswerIsWholeAlways == Spec => []AnswerIsWhole
<1>1. Answers => AnswerIsWhole
  BY DEF Answers, Answering, Whole, AnswerIsWhole
<1> QED  BY <1>1, AnswersAlways, PTL
=============================================================================
