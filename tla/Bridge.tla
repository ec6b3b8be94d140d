------------------------------- MODULE Bridge -------------------------------
(***************************************************************************)
(* The desktop window's replacement for the network (bridge.go,            *)
(* bridge.js).  The page's fetch, EventSource and XMLHttpRequest hand a     *)
(* request's body to Go in chunks, each after the answer to the one before, *)
(* then the request; the answer comes back as head, chunk and end.  Every   *)
(* call has an identifier of its own, and messages arrive in order.         *)
(*                                                                          *)
(* Body chunks and pieces of an answer are numbered.  Statuses, headers,    *)
(* base64 and the splitting of a stream into events are left out: one piece *)
(* of an answer is one event.  The functions bound to the page return no    *)
(* error, so that the promise of a call to Go never rejects.  A page is     *)
(* loaded once: identifiers start again when it is loaded anew.             *)
(***************************************************************************)
EXTENDS Integers, Sequences

CONSTANTS Calls,      \* the identifiers seq counts through
          MaxBody,    \* bound: chunks of a body
          MaxPieces   \* bound: pieces a handler writes

ASSUME BoundsAssumption == MaxBody \in Nat /\ MaxPieces \in Nat

VARIABLES
  \* page: the progress of fetch, send and start()
  phase,     \* "idle", "packing" (awaiting the bytes of the body), "begun"
  kind,      \* which of the three interfaces made the call
  size,      \* chunks of its body
  posted,    \* messages start() has handed over: the chunks, then the request
  aborted,   \* the signal of the call, the flag of close()
  calls,     \* the map of the calls that wait for messages
  promise,   \* "pending", "resolved", "rejected"
  stream,    \* the answer's body: "open", "closed", "errored", "cancelled"
  received,  \* the pieces it was given
  source,    \* readyState of an EventSource: "connecting", "open", "closed"
  shown,     \* events it has emitted
  \* the two directions of the webview's message channel, per call
  toGo, toPage,
  \* Go: the bridge and its writers
  alive,     \* the window is there: emit reaches the page
  closed, bodies, cancels,
  cancelled, \* calls whose context is cancelled
  handler,   \* "none", "running", "finished" (the deferred calls are left), "done"
  payload,   \* the body the handler was given
  written,   \* pieces it has written
  buf, sent  \* bridgeWriter

pageVars == <<phase, kind, size, posted, aborted, calls, promise, stream, received>>
sourceVars == <<source, shown>>
bridgeVars == <<closed, bodies, cancels, cancelled>>
writerVars == <<handler, payload, written, buf, sent>>
vars == <<pageVars, sourceVars, toGo, toPage, alive, bridgeVars, writerVars>>

Kinds == {"fetch", "source", "xhr"}
ToGo == [what : {"body"}, chunk : 1 .. MaxBody] \cup [what : {"request", "cancel"}, chunk : {0}]
ToPage == [what : {"ack", "head", "chunk", "end", "fail"}, data : Seq(1 .. MaxPieces)]

UpTo(n) == [i \in 1 .. n |-> i]

Init ==
  /\ phase = [c \in Calls |-> "idle"]
  /\ kind = [c \in Calls |-> "fetch"]
  /\ size = [c \in Calls |-> 0]
  /\ posted = [c \in Calls |-> 0]
  /\ aborted = [c \in Calls |-> FALSE]
  /\ calls = {}
  /\ promise = [c \in Calls |-> "pending"]
  /\ stream = [c \in Calls |-> "open"]
  /\ received = [c \in Calls |-> <<>>]
  /\ source = [c \in Calls |-> "connecting"]
  /\ shown = [c \in Calls |-> 0]
  /\ toGo = [c \in Calls |-> <<>>]
  /\ toPage = [c \in Calls |-> <<>>]
  /\ alive = TRUE
  /\ closed = FALSE
  /\ bodies = [c \in Calls |-> <<>>]
  /\ cancels = {}
  /\ cancelled = {}
  /\ handler = [c \in Calls |-> "none"]
  /\ payload = [c \in Calls |-> <<>>]
  /\ written = [c \in Calls |-> 0]
  /\ buf = [c \in Calls |-> <<>>]
  /\ sent = {}

-----------------------------------------------------------------------------
(* The page: starting a call.                                               *)

\* start(): the next message of a call with a body of n chunks.
Message(n, i) == IF i <= n THEN [what |-> "body", chunk |-> i]
                           ELSE [what |-> "request", chunk |-> 0]

Post(c, n) ==
  /\ posted' = [posted EXCEPT ![c] = @ + 1]
  /\ toGo' = [toGo EXCEPT ![c] = Append(@, Message(n, posted[c] + 1))]

\* A call without a body is entered in the map and requested at once.
Ask(c) ==
  /\ phase[c] = "idle"
  /\ \E k \in Kinds : kind' = [kind EXCEPT ![c] = k]
  /\ phase' = [phase EXCEPT ![c] = "begun"]
  /\ calls' = calls \cup {c}
  /\ Post(c, 0)
  /\ UNCHANGED <<size, aborted, promise, stream, received, sourceVars,
                 toPage, alive, bridgeVars, writerVars>>

\* fetch and send await the bytes of a body before the call is in the map.
Pack(c) ==
  /\ phase[c] = "idle"
  /\ \E k \in {"fetch", "xhr"} : kind' = [kind EXCEPT ![c] = k]
  /\ \E n \in 1 .. MaxBody : size' = [size EXCEPT ![c] = n]
  /\ phase' = [phase EXCEPT ![c] = "packing"]
  /\ UNCHANGED <<posted, aborted, calls, promise, stream, received, sourceVars,
                 toGo, toPage, alive, bridgeVars, writerVars>>

\* The bytes are there: fetch looks at its signal first.
Begin(c) ==
  /\ phase[c] = "packing"
  /\ phase' = [phase EXCEPT ![c] = "begun"]
  /\ \/ /\ aborted[c]
        /\ promise' = [promise EXCEPT ![c] = "rejected"]
        /\ UNCHANGED <<posted, calls, toGo>>
     \/ /\ ~aborted[c]
        /\ calls' = calls \cup {c}
        /\ Post(c, size[c])
        /\ UNCHANGED promise
  /\ UNCHANGED <<kind, size, aborted, stream, received, sourceVars,
                 toPage, alive, bridgeVars, writerVars>>

\* The promise of a message resolves: start() goes on, whatever became of the
\* call, until the request is out.
Continue(c) ==
  /\ toPage[c] # <<>>
  /\ Head(toPage[c]).what = "ack"
  /\ toPage' = [toPage EXCEPT ![c] = Tail(@)]
  /\ IF posted[c] <= size[c] THEN Post(c, size[c]) ELSE UNCHANGED <<posted, toGo>>
  /\ UNCHANGED <<phase, kind, size, aborted, calls, promise, stream, received,
                 sourceVars, alive, bridgeVars, writerVars>>

-----------------------------------------------------------------------------
(* The page: giving a call up.                                              *)

\* Mutant: the call is forgotten and Go not told.
DropQuietly(c) ==
  /\ calls' = calls \ {c}
  /\ UNCHANGED toGo

\* dropCall: only a call that still waits is cancelled in Go.
DropCall(c) ==
  /\ calls' = calls \ {c}
  /\ toGo' = IF c \in calls
             THEN [toGo EXCEPT ![c] = Append(@, [what |-> "cancel", chunk |-> 0])]
             ELSE toGo

\* abort of fetch and of BridgeXHR, for a call in the map.
AbortWaiting(c) ==
  /\ DropCall(c)
  /\ IF c \in calls /\ promise[c] = "pending"
     THEN promise' = [promise EXCEPT ![c] = "rejected"] /\ UNCHANGED stream
     ELSE /\ stream' = [stream EXCEPT ![c] = IF @ = "open" THEN "errored" ELSE @]
          /\ UNCHANGED promise

Abort(c) ==
  /\ kind[c] # "source"
  /\ ~aborted[c]
  /\ \/ phase[c] = "packing" /\ kind[c] = "fetch" /\ UNCHANGED <<calls, toGo, promise, stream>>
     \/ phase[c] = "begun" /\ c \in calls /\ AbortWaiting(c)
  /\ aborted' = [aborted EXCEPT ![c] = TRUE]
  /\ UNCHANGED <<phase, kind, size, posted, received, sourceVars,
                 toPage, alive, bridgeVars, writerVars>>

\* The reader of an answer cancels it.
CancelStream(c) ==
  /\ kind[c] = "fetch"
  /\ promise[c] = "resolved"
  /\ stream[c] = "open"
  /\ stream' = [stream EXCEPT ![c] = "cancelled"]
  /\ DropCall(c)
  /\ UNCHANGED <<phase, kind, size, posted, aborted, promise, received, sourceVars,
                 toPage, alive, bridgeVars, writerVars>>

-----------------------------------------------------------------------------
(* The page: messages from Go.  Those of a call it dropped are ignored.     *)

Arrives(c, what) ==
  /\ toPage[c] # <<>>
  /\ Head(toPage[c]).what = what
  /\ toPage' = [toPage EXCEPT ![c] = Tail(@)]

\* head: fetch resolves; XMLHttpRequest only notes the status.
OnHead(c) ==
  /\ Arrives(c, "head")
  /\ promise' = [promise EXCEPT ![c] =
       IF c \in calls /\ kind[c] # "xhr" /\ @ = "pending" THEN "resolved" ELSE @]
  /\ UNCHANGED <<phase, kind, size, posted, aborted, calls, stream, received, sourceVars,
                 toGo, alive, bridgeVars, writerVars>>

\* chunk: a stream that is not open takes nothing more.
OnChunk(c) ==
  /\ Arrives(c, "chunk")
  /\ received' = [received EXCEPT ![c] =
       IF c \in calls /\ stream[c] = "open" THEN @ \o Head(toPage[c]).data ELSE @]
  /\ UNCHANGED <<phase, kind, size, posted, aborted, calls, promise, stream, sourceVars,
                 toGo, alive, bridgeVars, writerVars>>

\* end: the call is over, settled by its outcome or with its stream.
OnEnd(c) ==
  /\ \/ /\ Arrives(c, "end")
        /\ stream' = [stream EXCEPT ![c] = IF c \in calls /\ @ = "open" THEN "closed" ELSE @]
        /\ promise' = [promise EXCEPT ![c] =
             IF c \notin calls \/ @ # "pending" THEN @
             ELSE IF kind[c] = "xhr" THEN "resolved" ELSE "rejected"]
     \/ /\ Arrives(c, "fail")
        /\ stream' = [stream EXCEPT ![c] = IF c \in calls /\ @ = "open" THEN "errored" ELSE @]
        /\ promise' = [promise EXCEPT ![c] = IF c \in calls /\ @ = "pending" THEN "rejected" ELSE @]
  /\ calls' = calls \ {c}
  /\ UNCHANGED <<phase, kind, size, posted, aborted, received, sourceVars,
                 toGo, alive, bridgeVars, writerVars>>

-----------------------------------------------------------------------------
(* The page: EventSource, a loop that reads the answer of a fetch.          *)

\* The response is there and is a stream.
SourceOpens(c) ==
  /\ kind[c] = "source" /\ phase[c] = "begun"
  /\ source[c] = "connecting"
  /\ promise[c] = "resolved"
  /\ source' = [source EXCEPT ![c] = "open"]
  /\ UNCHANGED <<pageVars, shown, toGo, toPage, alive, bridgeVars, writerVars>>

\* One event of the pieces read; an errored stream has lost what was unread.
SourceShows(c) ==
  /\ source[c] = "open"
  /\ stream[c] # "errored"
  /\ shown[c] < Len(received[c])
  /\ shown' = [shown EXCEPT ![c] = @ + 1]
  /\ UNCHANGED <<pageVars, source, toGo, toPage, alive, bridgeVars, writerVars>>

\* Mutant: a stream that ends well is not an end.
OverIfErrored(c) ==
  \/ promise[c] = "rejected"
  \/ source[c] = "connecting" /\ promise[c] = "resolved"
  \/ source[c] = "open" /\ stream[c] = "errored"

\* What the loop reads is over: the page is told "error", after all the events
\* of an answer that ended well.  The page then opens another EventSource.
OverForSource(c) ==
  \/ promise[c] = "rejected"
  \/ source[c] = "connecting" /\ promise[c] = "resolved"  \* not ok, or no body
  \/ source[c] = "open" /\ stream[c] = "errored"
  \/ source[c] = "open" /\ stream[c] = "closed" /\ shown[c] = Len(received[c])

SourceEnds(c) ==
  /\ kind[c] = "source" /\ phase[c] = "begun"
  /\ source[c] # "closed"
  /\ OverForSource(c)
  /\ source' = [source EXCEPT ![c] = "closed"]
  /\ UNCHANGED <<pageVars, shown, toGo, toPage, alive, bridgeVars, writerVars>>

\* close(), also of a source that is closed already.
CloseSource(c) ==
  /\ kind[c] = "source" /\ phase[c] = "begun"
  /\ ~aborted[c]
  /\ source' = [source EXCEPT ![c] = "closed"]
  /\ aborted' = [aborted EXCEPT ![c] = TRUE]
  /\ AbortWaiting(c)
  /\ UNCHANGED <<phase, kind, size, posted, received, shown,
                 toPage, alive, bridgeVars, writerVars>>

-----------------------------------------------------------------------------
(* Go: the bound functions, run one after another by the window's thread.   *)

Emit(c, messages) ==
  toPage' = IF alive THEN [toPage EXCEPT ![c] = @ \o messages] ELSE toPage

Ack == <<[what |-> "ack", data |-> <<>>]>>

Handed(c, what) ==
  /\ toGo[c] # <<>>
  /\ Head(toGo[c]).what = what
  /\ toGo' = [toGo EXCEPT ![c] = Tail(@)]

\* bridge.body
Body(c) ==
  /\ Handed(c, "body")
  /\ bodies' = IF closed THEN bodies
               ELSE [bodies EXCEPT ![c] = Append(@, Head(toGo[c]).chunk)]
  /\ Emit(c, Ack)
  /\ UNCHANGED <<pageVars, sourceVars, alive, closed, cancels, cancelled, writerVars>>

\* bridge.request: the body is taken out and the handler started.
Request(c) ==
  /\ Handed(c, "request")
  /\ IF closed THEN UNCHANGED <<bodies, cancels, handler, payload>>
     ELSE /\ payload' = [payload EXCEPT ![c] = bodies[c]]
          /\ bodies' = [bodies EXCEPT ![c] = <<>>]
          /\ cancels' = cancels \cup {c}
          /\ handler' = [handler EXCEPT ![c] = "running"]
  /\ Emit(c, Ack)
  /\ UNCHANGED <<pageVars, sourceVars, alive, closed, cancelled, written, buf, sent>>

\* bridge.cancel: of a call that is not registered yet only the body goes.
Cancel(c) ==
  /\ Handed(c, "cancel")
  /\ bodies' = [bodies EXCEPT ![c] = <<>>]
  /\ cancelled' = cancelled \cup (cancels \cap {c})
  /\ UNCHANGED <<pageVars, sourceVars, toPage, alive, closed, cancels, writerVars>>

-----------------------------------------------------------------------------
(* Go: the goroutine of a request and its bridgeWriter.                     *)

\* Flush with the data b pending.
Flushed(c, b) ==
  (IF c \in sent THEN <<>> ELSE <<[what |-> "head", data |-> <<>>]>>)
    \o (IF b = <<>> THEN <<>> ELSE <<[what |-> "chunk", data |-> b]>>)

\* Write, which flushes a full buffer.
Write(c) ==
  /\ handler[c] = "running"
  /\ written[c] < MaxPieces
  /\ written' = [written EXCEPT ![c] = @ + 1]
  /\ LET pending == Append(buf[c], written[c] + 1)
     IN  \/ /\ buf' = [buf EXCEPT ![c] = pending]
            /\ UNCHANGED <<sent, toPage>>
         \/ /\ Emit(c, Flushed(c, pending))
            /\ buf' = [buf EXCEPT ![c] = <<>>]
            /\ sent' = sent \cup {c}
  /\ UNCHANGED <<pageVars, sourceVars, toGo, alive, bridgeVars, handler, payload>>

\* Mutant: the buffer is not reset.
FlushKeeping(c) ==
  /\ handler[c] = "running"
  /\ Emit(c, Flushed(c, buf[c]))
  /\ sent' = sent \cup {c}
  /\ UNCHANGED <<pageVars, sourceVars, toGo, alive, bridgeVars, handler, payload, written, buf>>

Flush(c) ==
  /\ handler[c] = "running"
  /\ Emit(c, Flushed(c, buf[c]))
  /\ buf' = [buf EXCEPT ![c] = <<>>]
  /\ sent' = sent \cup {c}
  /\ UNCHANGED <<pageVars, sourceVars, toGo, alive, bridgeVars, handler, payload, written>>

\* finish("")
Return(c) ==
  /\ handler[c] = "running"
  /\ Emit(c, Append(Flushed(c, buf[c]), [what |-> "end", data |-> <<>>]))
  /\ buf' = [buf EXCEPT ![c] = <<>>]
  /\ sent' = sent \cup {c}
  /\ handler' = [handler EXCEPT ![c] = "finished"]
  /\ UNCHANGED <<pageVars, sourceVars, toGo, alive, bridgeVars, payload, written>>

\* Mutant: nothing is said of a failure before the head.
FailQuietly(c) ==
  /\ handler[c] = "running"
  /\ Emit(c, IF c \in sent THEN Append(Flushed(c, buf[c]), [what |-> "fail", data |-> <<>>])
                           ELSE <<>>)
  /\ buf' = [buf EXCEPT ![c] = IF c \in sent THEN <<>> ELSE @]
  /\ handler' = [handler EXCEPT ![c] = "finished"]
  /\ UNCHANGED <<pageVars, sourceVars, toGo, alive, bridgeVars, payload, written, sent>>

\* finish(message) of a handler that panicked or a request that cannot be
\* built: what is pending is dropped unless the head is out.
Fail(c) ==
  /\ handler[c] = "running"
  /\ Emit(c, Append(IF c \in sent THEN Flushed(c, buf[c]) ELSE <<>>,
                    [what |-> "fail", data |-> <<>>]))
  /\ buf' = [buf EXCEPT ![c] = IF c \in sent THEN <<>> ELSE @]
  /\ handler' = [handler EXCEPT ![c] = "finished"]
  /\ UNCHANGED <<pageVars, sourceVars, toGo, alive, bridgeVars, payload, written, sent>>

\* The deferred cancel and removal of the cancel function.
Unregister(c) ==
  /\ handler[c] = "finished"
  /\ handler' = [handler EXCEPT ![c] = "done"]
  /\ cancels' = cancels \ {c}
  /\ cancelled' = cancelled \cup {c}
  /\ UNCHANGED <<pageVars, sourceVars, toGo, toPage, alive, closed, bodies,
                 payload, written, buf, sent>>

-----------------------------------------------------------------------------
(* The window closes: messages to the page are dropped, then the bridge is   *)
(* closed, which cancels what runs.                                          *)

Quit ==
  /\ alive
  /\ alive' = FALSE
  /\ toPage' = [c \in Calls |-> <<>>]
  /\ UNCHANGED <<pageVars, sourceVars, toGo, bridgeVars, writerVars>>

CloseBridge ==
  /\ ~alive /\ ~closed
  /\ closed' = TRUE
  /\ cancelled' = cancelled \cup cancels
  /\ bodies' = [c \in Calls |-> <<>>]
  /\ UNCHANGED <<pageVars, sourceVars, toGo, toPage, alive, cancels, writerVars>>

-----------------------------------------------------------------------------
Page(c) == \/ Ask(c) \/ Pack(c) \/ Begin(c) \/ Continue(c) \/ Abort(c) \/ CancelStream(c)
           \/ OnHead(c) \/ OnChunk(c) \/ OnEnd(c)
           \/ SourceOpens(c) \/ SourceShows(c) \/ SourceEnds(c) \/ CloseSource(c)
Go(c) == Body(c) \/ Request(c) \/ Cancel(c)
Goroutine(c) == Write(c) \/ Flush(c) \/ Return(c) \/ Fail(c) \/ Unregister(c)

Next == \/ \E c \in Calls : Page(c) \/ Go(c) \/ Goroutine(c)
        \/ Quit \/ CloseBridge

\* The message loops of the page and of the window run; so do goroutines.  A
\* handler stops when its context is cancelled, and otherwise need not.
Fairness ==
  /\ \A c \in Calls :
       /\ WF_vars(Begin(c))
       /\ WF_vars(Continue(c) \/ OnHead(c) \/ OnChunk(c) \/ OnEnd(c))
       /\ WF_vars(SourceOpens(c) \/ SourceShows(c) \/ SourceEnds(c))
       /\ WF_vars(Go(c))
       /\ WF_vars(c \in cancelled /\ Return(c))
       /\ WF_vars(Unregister(c))
  /\ WF_vars(CloseBridge)

Spec == Init /\ [][Next]_vars /\ Fairness
-----------------------------------------------------------------------------
TypeOK ==
  /\ phase \in [Calls -> {"idle", "packing", "begun"}]
  /\ kind \in [Calls -> Kinds]
  /\ size \in [Calls -> 0 .. MaxBody]
  /\ posted \in [Calls -> 0 .. MaxBody + 1]
  /\ aborted \in [Calls -> BOOLEAN]
  /\ calls \subseteq Calls
  /\ promise \in [Calls -> {"pending", "resolved", "rejected"}]
  /\ stream \in [Calls -> {"open", "closed", "errored", "cancelled"}]
  /\ received \in [Calls -> Seq(1 .. MaxPieces)]
  /\ source \in [Calls -> {"connecting", "open", "closed"}]
  /\ shown \in [Calls -> Nat]
  /\ toGo \in [Calls -> Seq(ToGo)]
  /\ toPage \in [Calls -> Seq(ToPage)]
  /\ alive \in BOOLEAN /\ closed \in BOOLEAN
  /\ bodies \in [Calls -> Seq(1 .. MaxBody)]
  /\ cancels \subseteq Calls /\ cancelled \subseteq Calls
  /\ handler \in [Calls -> {"none", "running", "finished", "done"}]
  /\ payload \in [Calls -> Seq(1 .. MaxBody)]
  /\ written \in [Calls -> 0 .. MaxPieces]
  /\ buf \in [Calls -> Seq(1 .. MaxPieces)]
  /\ sent \subseteq Calls

Within(queue, what) == \E i \in 1 .. Len(queue) : queue[i].what = what

\* What the page takes for the whole answer: a stream that was closed, an
\* XMLHttpRequest that has loaded.
Answered(c) == stream[c] = "closed"

\* bridge.js and bridge.go together: an answer that ended well is all that the
\* handler wrote, in order, and the handler had been given all of the body.
AnswerIsWhole ==
  \A c \in Calls : Answered(c) => /\ received[c] = UpTo(written[c])
                                  /\ payload[c] = UpTo(size[c])

Carried(c) ==
  \/ Within(toGo[c], "request")
  \/ posted[c] <= size[c] /\ (Within(toGo[c], "body") \/ Within(toPage[c], "ack"))
  \/ handler[c] = "running"
  \/ Within(toPage[c], "end")
  \/ Within(toPage[c], "fail")

\* bridge.js: as long as the window is there, something is under way for every
\* call that waits: a message of its upload, its handler, or its end.
WaitingCallsAreCarried == alive => \A c \in calls : Carried(c)

\* bridge.cancel: a handler that was given its whole body and that the page has
\* given up is cancelled, or the cancel is on its way.  A request whose cancel
\* came too early runs on without its body.
AbortIsHeard ==
  \A c \in Calls :
    handler[c] = "running" /\ c \notin calls /\ payload[c] = UpTo(size[c])
      => c \in cancelled \/ Within(toGo[c], "cancel")

\* bridge_test.go:44: a closed bridge keeps no upload and runs no request that
\* it has not cancelled, whatever is still handed to it.
ClosedBridgeIsIdle ==
  closed => \A c \in Calls : bodies[c] = <<>> /\ (handler[c] = "running" => c \in cancelled)

\* No call is forgotten, and what a closed bridge holds comes to rest (bridge.go).
BridgeIsSound ==
  /\ TypeOK
  /\ WaitingCallsAreCarried
  /\ ClosedBridgeIsIdle

\* A body that is buffered is taken by a request or dropped: an upload that is
\* aborted leaves nothing behind.
BodiesAreReleased == \A c \in Calls : bodies[c] # <<>> ~> bodies[c] = <<>>

\* window_windows.go:214: closing the window ends every handler.
QuitEndsHandlers == \A c \in Calls : ~alive ~> handler[c] # "running"

\* The page reopens its stream when it is told of an error: an EventSource whose
\* handler has ended is told, or the page has closed it.
SourceIsTold ==
  \A c \in Calls : kind[c] = "source" /\ handler[c] = "done" ~> source[c] = "closed" \/ ~alive

\* What was begun ends on both sides: bodies, handlers and streams, however the
\* page gives up and whenever the window closes (bridge.request, bridge.close).
EndsAreTold == BodiesAreReleased /\ QuitEndsHandlers /\ SourceIsTold
=============================================================================
