------------------------------ MODULE RCAStream ------------------------------
(***************************************************************************)
(* The streamed root cause analysis: HandleRCASSE and the goroutine it     *)
(* starts, the channel between them, the SSE writer they share, net/http's *)
(* cancellation of the request, and the EventSource of the report page.    *)
(* HandleChatSSE has the same goroutine, channel and select; what it       *)
(* stores is in module ChatHistory.                                        *)
(***************************************************************************)
EXTENDS Naturals, Sequences, SequencesExt

CONSTANTS Streams,  \* connections of report pages to /stream/{sessionID}/rca
          Chunks    \* pieces the whole text comes in

ASSUME StreamAssumption == Chunks \in Nat \ {0}

VARIABLES
    cached,    \* pieces of RCAText in the cache; 0 for none
    handler,   \* handler[s]: position of HandleRCASSE
    worker,    \* worker[s]: position of the goroutine
    text,      \* text[s]: pieces in textBuf, or replayed from the cache
    failed,    \* failed[s]: RunRCA returned an error
    result,    \* result[s]: contents of resultCh
    cancelled, \* cancelled[s]: the request's context is done
    wire,      \* wire[s]: events on their way to the page
    page,      \* page[s]: state of the page
    shown      \* shown[s]: pieces the page has got

goroutineVars == <<worker, text, failed>>
pageVars == <<page, shown>>
vars == <<cached, handler, goroutineVars, result, cancelled, wire, pageVars>>

HandlerPositions == {"none", "replaying", "waiting", "storing", "failing", "closing", "returned"}
WorkerPositions == {"none", "streaming", "sending", "writing", "reporting", "gone"}
Pages == {"none", "open", "complete", "left"}
Events == {"chunk", "error", "close"}

\* Capacity of resultCh.
Capacity_Unbuffered == 0  \* mutant
Capacity == 1

Init == /\ cached = 0
        /\ handler = [s \in Streams |-> "none"]
        /\ worker = [s \in Streams |-> "none"]
        /\ text = [s \in Streams |-> 0]
        /\ failed = [s \in Streams |-> FALSE]
        /\ result = [s \in Streams |-> <<>>]
        /\ cancelled = [s \in Streams |-> FALSE]
        /\ wire = [s \in Streams |-> <<>>]
        /\ page = [s \in Streams |-> "none"]
        /\ shown = [s \in Streams |-> 0]

HandlerTo(s, position) == handler' = [handler EXCEPT ![s] = position]
WorkerTo(s, position) == worker' = [worker EXCEPT ![s] = position]

\* A write to the connection, which leads nowhere once the page has left.
Write(s, event) == wire' = IF page[s] = "open" THEN [wire EXCEPT ![s] = Append(@, event)] ELSE wire

\* SSEWriter.SendEvent, called by the handler.
SendEvent(s, event) == IF cancelled[s] THEN UNCHANGED wire ELSE Write(s, event)

-----------------------------------------------------------------------------
(* HandleRCASSE. *)

\* The page connects; the text is in the cache, or the goroutine is started.
Connect(s) ==
    /\ page[s] = "none"
    /\ page' = [page EXCEPT ![s] = "open"]
    /\ IF cached # 0 THEN HandlerTo(s, "replaying") /\ UNCHANGED worker
       ELSE HandlerTo(s, "waiting") /\ WorkerTo(s, "streaming")
    /\ UNCHANGED <<cached, text, failed, result, cancelled, wire, shown>>

\* streamTextAsSSE sends the next piece of the cached text, ...
Replay(s) ==
    /\ handler[s] = "replaying" /\ ~cancelled[s]
    /\ text[s] < Chunks
    /\ text' = [text EXCEPT ![s] = @ + 1]
    /\ SendEvent(s, "chunk")
    /\ UNCHANGED <<cached, handler, worker, failed, result, cancelled, pageVars>>

\* ... comes to its end, or is interrupted.
ReplayEnds(s) ==
    /\ handler[s] = "replaying"
    /\ \/ text[s] = Chunks /\ HandlerTo(s, "closing")
       \/ cancelled[s] /\ HandlerTo(s, "returned")
    /\ UNCHANGED <<cached, goroutineVars, result, cancelled, wire, pageVars>>

\* Mutant: the handler watches the text instead of the channel.
TakeResult_Poll(s) ==
    /\ handler[s] = "waiting" /\ text[s] = Chunks
    /\ HandlerTo(s, "storing")
    /\ UNCHANGED <<cached, goroutineVars, result, cancelled, wire, pageVars>>

\* Mutant: the error of the result is not looked at.
TakeResult_IgnoresError(s) ==
    /\ handler[s] = "waiting" /\ result[s] # <<>>
    /\ HandlerTo(s, "storing")
    /\ UNCHANGED <<cached, goroutineVars, result, cancelled, wire, pageVars>>

\* select takes the result, ...
TakeResult(s) ==
    /\ handler[s] = "waiting" /\ result[s] # <<>>
    /\ HandlerTo(s, IF result[s][1].failed THEN "failing" ELSE "storing")
    /\ UNCHANGED <<cached, goroutineVars, result, cancelled, wire, pageVars>>

\* ... or the cancellation, also when a result is there.
SeesCancel(s) ==
    /\ handler[s] = "waiting" /\ cancelled[s]
    /\ HandlerTo(s, "returned")
    /\ UNCHANGED <<cached, goroutineVars, result, cancelled, wire, pageVars>>

\* The error is reported and, without a return in between, ...
SendError(s) ==
    /\ handler[s] = "failing"
    /\ SendEvent(s, "error")
    /\ HandlerTo(s, "closing")
    /\ UNCHANGED <<cached, goroutineVars, result, cancelled, pageVars>>

\* upsertCache, and SaveRCA, whose failure is only logged.
Store(s) ==
    /\ handler[s] = "storing"
    /\ cached' = text[s]
    /\ HandlerTo(s, "closing")
    /\ UNCHANGED <<goroutineVars, result, cancelled, wire, pageVars>>

\* ... as after a result, the handler ends the stream.
Close(s) ==
    /\ handler[s] = "closing"
    /\ SendEvent(s, "close")
    /\ HandlerTo(s, "returned")
    /\ UNCHANGED <<cached, goroutineVars, result, cancelled, pageVars>>

-----------------------------------------------------------------------------
(* The goroutine: RunRCA, writing through accumulatingWriter and rcaChunkWriter. *)

\* Mutant: the loop takes one piece too many.
Receive_OneMore(s) ==
    /\ worker[s] = "streaming" /\ ~cancelled[s]
    /\ text[s] <= Chunks
    /\ text' = [text EXCEPT ![s] = @ + 1]
    /\ WorkerTo(s, "sending")
    /\ UNCHANGED <<cached, handler, failed, result, cancelled, wire, pageVars>>

\* A piece arrives and goes to the buffer.
Receive(s) ==
    /\ worker[s] = "streaming" /\ ~cancelled[s]
    /\ text[s] < Chunks
    /\ text' = [text EXCEPT ![s] = @ + 1]
    /\ WorkerTo(s, "sending")
    /\ UNCHANGED <<cached, handler, failed, result, cancelled, wire, pageVars>>

\* SendEvent looks at the context first ...
CheckContext(s) ==
    /\ worker[s] = "sending"
    /\ failed' = [failed EXCEPT ![s] = cancelled[s]]
    /\ WorkerTo(s, IF cancelled[s] THEN "reporting" ELSE "writing")
    /\ UNCHANGED <<cached, handler, text, result, cancelled, wire, pageVars>>

\* ... and then writes, whatever has happened to the request meanwhile.
WriteChunk(s) ==
    /\ worker[s] = "writing"
    /\ Write(s, "chunk")
    /\ WorkerTo(s, "streaming")
    /\ UNCHANGED <<cached, handler, text, failed, result, cancelled, pageVars>>

\* Claude's stream ends ...
StreamEnds(s) ==
    /\ worker[s] = "streaming" /\ text[s] = Chunks
    /\ WorkerTo(s, "reporting")
    /\ UNCHANGED <<cached, handler, text, failed, result, cancelled, wire, pageVars>>

\* ... or breaks, by an error of the API or the cancelled context.
StreamBreaks(s) ==
    /\ worker[s] = "streaming"
    /\ failed' = [failed EXCEPT ![s] = TRUE]
    /\ WorkerTo(s, "reporting")
    /\ UNCHANGED <<cached, handler, text, result, cancelled, wire, pageVars>>

\* resultCh <- rcaResult{...}
CanSend(s) == \/ Len(result[s]) < Capacity
              \/ result[s] = <<>> /\ handler[s] = "waiting"

\* Mutant: the goroutine reports a success only.
Report_SuccessOnly(s) ==
    /\ worker[s] = "reporting" /\ CanSend(s)
    /\ result' = IF failed[s] THEN result
                 ELSE [result EXCEPT ![s] = Append(@, [text |-> text[s], failed |-> FALSE])]
    /\ WorkerTo(s, "gone")
    /\ UNCHANGED <<cached, handler, text, failed, cancelled, wire, pageVars>>

Report(s) ==
    /\ worker[s] = "reporting" /\ CanSend(s)
    /\ result' = [result EXCEPT ![s] = Append(@, [text |-> text[s], failed |-> failed[s]])]
    /\ WorkerTo(s, "gone")
    /\ UNCHANGED <<cached, handler, text, failed, cancelled, wire, pageVars>>

-----------------------------------------------------------------------------
(* net/http, and the page. *)

\* The context is done when the handler has returned or the page is seen to be gone.
CancelContext(s) ==
    /\ handler[s] = "returned" \/ page[s] = "left"
    /\ ~cancelled[s]
    /\ cancelled' = [cancelled EXCEPT ![s] = TRUE]
    /\ UNCHANGED <<cached, handler, goroutineVars, result, wire, pageVars>>

\* The page appends pieces, has no listener for errors, and is complete at "close".
Deliver(s) ==
    /\ page[s] = "open" /\ wire[s] # <<>>
    /\ wire' = [wire EXCEPT ![s] = Tail(@)]
    /\ shown' = IF Head(wire[s]) = "chunk" THEN [shown EXCEPT ![s] = @ + 1] ELSE shown
    /\ page' = IF Head(wire[s]) = "close" THEN [page EXCEPT ![s] = "complete"] ELSE page
    /\ UNCHANGED <<cached, handler, goroutineVars, result, cancelled>>

\* The tab is closed or the connection lost; onerror closes the EventSource.  (The
\* end of a response without "close" would also, but no handler leaves it out.)
Leave(s) ==
    /\ page[s] = "open"
    /\ page' = [page EXCEPT ![s] = "left"]
    /\ wire' = [wire EXCEPT ![s] = <<>>]
    /\ UNCHANGED <<cached, handler, goroutineVars, result, cancelled, shown>>

-----------------------------------------------------------------------------
Handle(s) == \/ Replay(s) \/ ReplayEnds(s) \/ TakeResult(s) \/ SeesCancel(s)
             \/ SendError(s) \/ Store(s) \/ Close(s)
Work(s) == \/ Receive(s) \/ CheckContext(s) \/ WriteChunk(s)
           \/ StreamEnds(s) \/ StreamBreaks(s) \/ Report(s)

Next == \E s \in Streams : \/ Connect(s) \/ Handle(s) \/ Work(s) \/ CancelContext(s)
                             \/ Deliver(s) \/ Leave(s)

Spec == Init /\ [][Next]_vars

\* The scheduler runs both goroutines, Claude's stream goes on or breaks, net/http
\* notices what there is to notice, and an open page gets what was written to it.
Fairness == \A s \in Streams : /\ WF_vars(Handle(s)) /\ WF_vars(Work(s))
                               /\ WF_vars(CancelContext(s))
                               /\ WF_vars(Deliver(s))

FairSpec == Spec /\ Fairness
-----------------------------------------------------------------------------
(* Properties. *)

TypeOK == /\ cached \in 0..Chunks
          /\ handler \in [Streams -> HandlerPositions]
          /\ worker \in [Streams -> WorkerPositions]
          /\ text \in [Streams -> 0..Chunks]
          /\ failed \in [Streams -> BOOLEAN]
          /\ result \in [Streams -> Seq([text : 0..Chunks, failed : BOOLEAN])]
          /\ cancelled \in [Streams -> BOOLEAN]
          /\ wire \in [Streams -> Seq(Events)]
          /\ page \in [Streams -> Pages]
          /\ shown \in [Streams -> 0..Chunks]

\* The cache never gets a text that was cut short by an error, a cancellation or
\* a page that left in the middle.
OnlyWholeTextsCached == cached \in {0, Chunks}

\* Goroutine and handler share one SSE writer: once the handler has sent "close",
\* the goroutine writes no more pieces to the page.
CloseComesLast ==
    [][\A s \in Streams : WriteChunk(s) =>
          page[s] # "complete" /\ "close" \notin ToSet(wire[s])]_vars

\* No goroutine leaks: every goroutine ends, also when its handler has gone
\* before it without taking the result.
WorkersExit == \A s \in Streams : worker[s] = "streaming" ~> worker[s] = "gone"

\* A page does not wait for ever, whatever becomes of the analysis.
PagesSettle == \A s \in Streams : page[s] = "open" ~> page[s] # "open"
=============================================================================
