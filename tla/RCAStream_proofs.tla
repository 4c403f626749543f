--------------------------- MODULE RCAStream_proofs ---------------------------
(***************************************************************************)
(* That the cache gets whole texts only, that no piece is written after    *)
(* "close", and type correctness, which has it that no page is shown more  *)
(* than the stream has sent, for any number of connections and of pieces.  *)
(***************************************************************************)
EXTENDS RCAStream, DataInduction

Types == /\ cached \in 0..Chunks
         /\ handler \in [Streams -> HandlerPositions]
         /\ worker \in [Streams -> WorkerPositions]
         /\ text \in [Streams -> 0..Chunks]
         /\ failed \in [Streams -> BOOLEAN]
         /\ result \in [Streams -> Seq([text : 0..Chunks, failed : BOOLEAN])]
         /\ cancelled \in [Streams -> BOOLEAN]
         /\ wire \in [Streams -> Seq(Events)]
         /\ page \in [Streams -> Pages]

Closed(s) == page[s] = "complete" \/ "close" \in ToSet(wire[s])

\* The goroutine is not there, or has done all it does.
Quiet(s) == worker[s] \in {"none", "gone"}

\* A connection that was not made has no goroutine; a replay has none either; one
\* whose handler has taken a result has none left; one that is closed is quiet.
GoroutinesMeet ==
    \A s \in Streams :
        /\ page[s] = "none" <=> handler[s] = "none"
        /\ handler[s] \in {"none", "replaying"} => worker[s] = "none"
        /\ handler[s] = "waiting" => worker[s] # "none"
        /\ handler[s] \in {"storing", "failing"} => worker[s] = "gone"
        /\ handler[s] = "closing" => Quiet(s)
        /\ result[s] # <<>> => worker[s] = "gone"
        /\ Closed(s) => Quiet(s) /\ handler[s] # "none"

\* Success is reported, taken and stored of whole texts only.
SuccessIsWhole ==
    \A s \in Streams :
        /\ worker[s] = "reporting" /\ ~failed[s] => text[s] = Chunks
        /\ result[s] # <<>> => result[s][1].failed \/ text[s] = Chunks
        /\ handler[s] = "storing" => text[s] = Chunks

IInv == Types /\ GoroutinesMeet /\ SuccessIsWhole /\ OnlyWholeTextsCached
-----------------------------------------------------------------------------
LEMMA ToSetOfAppend ==
    ASSUME NEW w \in Seq(Events), NEW e \in Events
    PROVE  ToSet(Append(w, e)) \subseteq ToSet(w) \cup {e}
BY DEF ToSet

LEMMA ToSetOfTail ==
    ASSUME NEW w \in Seq(Events), w # <<>>
    PROVE  ToSet(Tail(w)) \subseteq ToSet(w)
BY DEF ToSet

\* Only Close, and Deliver of a close, make a connection closed.
LEMMA ClosedStays ==
    ASSUME IInv, NEW s \in Streams, NEW e \in Events, SendEvent(s, e) \/ Write(s, e),
           page' = page
    PROVE  /\ wire' \in [Streams -> Seq(Events)]
           /\ \A r \in Streams : Closed(r)' => Closed(r) \/ (r = s /\ e = "close")
<1>0. wire \in [Streams -> Seq(Events)]
  BY DEF IInv, Types
<1>1. CASE wire' = wire
  BY <1>0, <1>1 DEF Closed
<1>2. CASE wire' = [wire EXCEPT ![s] = Append(@, e)]
  <2>1. Append(wire[s], e) \in Seq(Events)
    BY <1>0
  <2>2. ToSet(wire'[s]) \subseteq ToSet(wire[s]) \cup {e}
    BY <1>0, <1>2, ToSetOfAppend
  <2>3. \A r \in Streams \ {s} : wire'[r] = wire[r]
    BY <1>0, <1>2
  <2>4. QED
    BY <1>0, <1>2, <2>1, <2>2, <2>3 DEF Closed
<1>3. QED
  BY <1>1, <1>2 DEF SendEvent, Write
-----------------------------------------------------------------------------
LEMMA Invariance == Spec => []IInv
<1>1. Init => IInv
  <2> SUFFICES ASSUME Init PROVE IInv
    OBVIOUS
  <2> USE StreamAssumption DEF Init
  <2>1. Types
    BY DEF Types, HandlerPositions, WorkerPositions, Pages
  <2>2. \A s \in Streams : ToSet(wire[s]) = {}
    BY DEF ToSet
  <2>3. QED
    BY <2>1, <2>2 DEF IInv, GoroutinesMeet, SuccessIsWhole, OnlyWholeTextsCached, Closed, Quiet
<1>2. IInv /\ [Next]_vars => Types'
  <2> SUFFICES ASSUME IInv, [Next]_vars
               PROVE  Types'
    OBVIOUS
  <2>a. Types
    BY DEF IInv
  <2> USE <2>a, StreamAssumption
      DEF Types, HandlerPositions, WorkerPositions, Pages, HandlerTo, WorkerTo
  <2>0. "chunk" \in Events /\ "error" \in Events /\ "close" \in Events
    BY DEF Events
  <2>1. ASSUME NEW s \in Streams, Connect(s)
        PROVE  Types'
    BY <2>1 DEF Connect
  <2>2. ASSUME NEW s \in Streams, Replay(s)
        PROVE  Types'
    <3>1. wire' \in [Streams -> Seq(Events)]
      BY <2>2, <2>0, ClosedStays DEF Replay, pageVars
    <3>2. text' \in [Streams -> 0..Chunks]
      BY <2>2 DEF Replay
    <3>3. QED
      BY <2>2, <3>1, <3>2 DEF Replay, pageVars
  <2>3. ASSUME NEW s \in Streams, ReplayEnds(s) \/ TakeResult(s) \/ SeesCancel(s)
        PROVE  Types'
    BY <2>3 DEF ReplayEnds, TakeResult, SeesCancel, goroutineVars, pageVars
  <2>4. ASSUME NEW s \in Streams, SendError(s) \/ Close(s)
        PROVE  Types'
    BY <2>4, <2>0, ClosedStays DEF SendError, Close, goroutineVars, pageVars
  <2>5. ASSUME NEW s \in Streams, Store(s)
        PROVE  Types'
    BY <2>5 DEF Store, goroutineVars, pageVars
  <2>6a. ASSUME NEW s \in Streams, Receive(s)
         PROVE  Types'
    <3>1. text' \in [Streams -> 0..Chunks]
      BY <2>6a DEF Receive
    <3>2. QED
      BY <2>6a, <3>1 DEF Receive, pageVars
  <2>6. ASSUME NEW s \in Streams, CheckContext(s) \/ StreamEnds(s) \/ StreamBreaks(s)
        PROVE  Types'
    <3>1. failed' \in [Streams -> BOOLEAN]
      BY <2>6 DEF CheckContext, StreamEnds, StreamBreaks
    <3>2. worker' \in [Streams -> WorkerPositions]
      BY <2>6 DEF CheckContext, StreamEnds, StreamBreaks
    <3>3. QED
      BY <2>6, <3>1, <3>2 DEF CheckContext, StreamEnds, StreamBreaks, pageVars
  <2>7. ASSUME NEW s \in Streams, WriteChunk(s)
        PROVE  Types'
    BY <2>7, <2>0, ClosedStays DEF WriteChunk, pageVars
  <2>8. ASSUME NEW s \in Streams, Report(s)
        PROVE  Types'
    <3> DEFINE R == [text : 0..Chunks, failed : BOOLEAN]
               r == [text |-> text[s], failed |-> failed[s]]
    <3>1. r \in R
      OBVIOUS
    <3>2. result' = [result EXCEPT ![s] = Append(result[s], r)] /\ result \in [Streams -> Seq(R)]
      BY <2>8 DEF Report
    <3> HIDE DEF R, r
    <3>3. result' \in [Streams -> Seq(R)]
      BY <3>1, <3>2
    <3> USE DEF R
    <3>4. QED
      BY <2>8, <3>3 DEF Report, pageVars
  <2>9. ASSUME NEW s \in Streams, CancelContext(s)
        PROVE  Types'
    BY <2>9 DEF CancelContext, goroutineVars, pageVars
  <2>10. ASSUME NEW s \in Streams, Deliver(s)
         PROVE  Types'
    <3>1. wire[s] \in Seq(Events) /\ Tail(wire[s]) \in Seq(Events)
      BY <2>10 DEF Deliver
    <3>2. wire' \in [Streams -> Seq(Events)]
      BY <2>10, <3>1 DEF Deliver
    <3>3. page' \in [Streams -> Pages]
      BY <2>10 DEF Deliver
    <3>4. QED
      BY <2>10, <3>2, <3>3 DEF Deliver, goroutineVars
  <2>11. ASSUME NEW s \in Streams, Leave(s)
         PROVE  Types'
    <3>1. wire' \in [Streams -> Seq(Events)]
      BY <2>11 DEF Leave
    <3>2. QED
      BY <2>11, <3>1 DEF Leave, goroutineVars
  <2>12. CASE UNCHANGED vars
    BY <2>12 DEF vars, goroutineVars, pageVars
  <2>13. QED
    BY <2>1, <2>2, <2>3, <2>4, <2>5, <2>6a, <2>6, <2>7, <2>8, <2>9, <2>10, <2>11, <2>12
       DEF Next, Handle, Work
<1>3. IInv /\ Types' /\ [Next]_vars =>
        GoroutinesMeet' /\ SuccessIsWhole' /\ OnlyWholeTextsCached'
  <2> SUFFICES ASSUME IInv, Types', [Next]_vars
               PROVE  GoroutinesMeet' /\ SuccessIsWhole' /\ OnlyWholeTextsCached'
    OBVIOUS
  <2>a. Types /\ GoroutinesMeet /\ SuccessIsWhole /\ OnlyWholeTextsCached
    BY DEF IInv
  <2> DEFINE Goal == GoroutinesMeet' /\ SuccessIsWhole' /\ OnlyWholeTextsCached'
  <2>0. "chunk" \in Events /\ "error" \in Events /\ "close" \in Events
    BY DEF Events
  <2>b. ASSUME wire' = wire, page' = page
        PROVE  \A r \in Streams : Closed(r)' => Closed(r)
    BY <2>b DEF Closed
  <2> USE <2>a, StreamAssumption
      DEF Types, GoroutinesMeet, SuccessIsWhole, OnlyWholeTextsCached, Quiet, HandlerTo, WorkerTo
  <2>1. ASSUME NEW s \in Streams, Connect(s)
        PROVE  Goal
    <3>1. \A r \in Streams : Closed(r)' => Closed(r)
      BY <2>1 DEF Connect, Closed
    <3>2. QED
      BY <2>1, <3>1 DEF Connect
  <2>2. ASSUME NEW s \in Streams, Replay(s)
        PROVE  Goal
    <3>1. \A r \in Streams : Closed(r)' => Closed(r)
      BY <2>2, <2>0, ClosedStays DEF Replay, pageVars
    <3>2. QED
      BY <2>2, <3>1 DEF Replay, pageVars
  <2>3. ASSUME NEW s \in Streams, ReplayEnds(s) \/ SeesCancel(s)
        PROVE  Goal
    BY <2>3, <2>b DEF ReplayEnds, SeesCancel, goroutineVars, pageVars
  <2>4. ASSUME NEW s \in Streams, TakeResult(s)
        PROVE  Goal
    BY <2>4, <2>b DEF TakeResult, goroutineVars, pageVars
  <2>5. ASSUME NEW s \in Streams, SendError(s)
        PROVE  Goal
    <3>1. \A r \in Streams : Closed(r)' => Closed(r)
      BY <2>5, <2>0, ClosedStays DEF SendError, pageVars
    <3>2. QED
      BY <2>5, <3>1 DEF SendError, goroutineVars, pageVars
  <2>6. ASSUME NEW s \in Streams, Close(s)
        PROVE  Goal
    <3>1. \A r \in Streams : Closed(r)' => Closed(r) \/ r = s
      BY <2>6, <2>0, ClosedStays DEF Close, pageVars
    <3>2. QED
      BY <2>6, <3>1 DEF Close, goroutineVars, pageVars
  <2>7. ASSUME NEW s \in Streams, Store(s)
        PROVE  Goal
    BY <2>7, <2>b DEF Store, goroutineVars, pageVars
  <2>8. ASSUME NEW s \in Streams, Receive(s)
        PROVE  Goal
    BY <2>8, <2>b DEF Receive, pageVars
  <2>9. ASSUME NEW s \in Streams, CheckContext(s)
        PROVE  Goal
    <3>1. /\ worker[s] = "sending" /\ failed'[s] = cancelled[s]
          /\ worker'[s] = IF cancelled[s] THEN "reporting" ELSE "writing"
          /\ \A r \in Streams \ {s} : worker'[r] = worker[r] /\ failed'[r] = failed[r]
      BY <2>9 DEF CheckContext
    <3>2. QED
      BY <2>9, <2>b, <3>1 DEF CheckContext, pageVars
  <2>10. ASSUME NEW s \in Streams, WriteChunk(s)
         PROVE  Goal
    <3>1. \A r \in Streams : Closed(r)' => Closed(r)
      BY <2>10, <2>0, ClosedStays DEF WriteChunk, pageVars
    <3>2. QED
      BY <2>10, <3>1 DEF WriteChunk, pageVars
  <2>11. ASSUME NEW s \in Streams, StreamEnds(s) \/ StreamBreaks(s)
         PROVE  Goal
    <3>1. CASE StreamEnds(s)
      BY <3>1, <2>b DEF StreamEnds, pageVars
    <3>2. CASE StreamBreaks(s)
      BY <3>2, <2>b DEF StreamBreaks, pageVars
    <3>3. QED
      BY <2>11, <3>1, <3>2
  <2>12. ASSUME NEW s \in Streams, Report(s)
         PROVE  Goal
    <3>1. result[s] = <<>>
      BY <2>12 DEF Report
    <3>2. /\ result'[s] = <<[text |-> text[s], failed |-> failed[s]]>>
          /\ \A r \in Streams \ {s} : result'[r] = result[r]
      BY <2>12, <3>1 DEF Report
    <3>3. QED
      BY <2>12, <2>b, <3>2 DEF Report, pageVars
  <2>13. ASSUME NEW s \in Streams, CancelContext(s)
         PROVE  Goal
    BY <2>13, <2>b DEF CancelContext, goroutineVars, pageVars
  <2>14. ASSUME NEW s \in Streams, Deliver(s)
         PROVE  Goal
    <3>1. /\ wire[s] \in Seq(Events) /\ wire[s] # <<>>
          /\ wire' = [wire EXCEPT ![s] = Tail(wire[s])]
          /\ page' = IF Head(wire[s]) = "close" THEN [page EXCEPT ![s] = "complete"] ELSE page
          /\ page[s] = "open"
      BY <2>14 DEF Deliver
    <3>2. Head(wire[s]) = "close" => Closed(s)
      BY <3>1 DEF Closed, ToSet
    <3>3. ToSet(wire'[s]) \subseteq ToSet(wire[s])
      BY <3>1, ToSetOfTail
    <3>4. \A r \in Streams : Closed(r)' => Closed(r)
      BY <3>1, <3>2, <3>3 DEF Closed
    <3>5. QED
      BY <2>14, <3>1, <3>4 DEF Deliver, goroutineVars
  <2>15. ASSUME NEW s \in Streams, Leave(s)
         PROVE  Goal
    <3>1. ToSet(<<>>) = {}
      BY DEF ToSet
    <3>2. \A r \in Streams : Closed(r)' => Closed(r)
      BY <2>15, <3>1 DEF Leave, Closed
    <3>3. QED
      BY <2>15, <3>2 DEF Leave, goroutineVars
  <2>16. CASE UNCHANGED vars
    BY <2>16, <2>b DEF vars, goroutineVars, pageVars
  <2>17. QED
    BY <2>1, <2>2, <2>3, <2>4, <2>5, <2>6, <2>7, <2>8, <2>9, <2>10, <2>11, <2>12, <2>13, <2>14,
       <2>15, <2>16
       DEF Next, Handle, Work
<1>4. QED
  BY <1>1, <1>2, <1>3, PTL DEF Spec, IInv

\* No error, cancellation or page that leaves puts part of a text in the cache.
THEOREM CacheGetsWholeTexts == Spec => []OnlyWholeTextsCached
<1>1. IInv => OnlyWholeTextsCached
  BY DEF IInv
<1>2. QED
  BY <1>1, Invariance, PTL

\* The goroutine has written its last piece before its handler writes "close".
THEOREM NothingAfterClose == Spec => CloseComesLast
<1>1. IInv => \A s \in Streams : WriteChunk(s) =>
                 page[s] # "complete" /\ "close" \notin ToSet(wire[s])
  BY DEF IInv, GoroutinesMeet, Closed, Quiet, WriteChunk
<1>2. QED
  BY <1>1, Invariance, PTL DEF CloseComesLast
-----------------------------------------------------------------------------
\* The pieces among events.
Pieces(w) == Len(Filtered(w, {"chunk"}))

\* None of no events is a piece.
LEMMA PiecesOfNone == Pieces(<<>>) = 0
BY FilteredOfNone DEF Pieces

\* One more if the event added is a piece ...
LEMMA PiecesOfAppend ==
    ASSUME NEW w \in Seq(Events), NEW e \in Events
    PROVE  Pieces(w) \in Nat /\ Pieces(Append(w, e)) = IF e = "chunk" THEN Pieces(w) + 1 ELSE Pieces(w)
<1> DEFINE f == Filtered(w, {"chunk"})
<1>1. f \in Seq(Events)
  BY FilteredType
<1>2. Filtered(Append(w, e), {"chunk"}) = IF e \in {"chunk"} THEN Append(f, e) ELSE f
  BY FilteredOfAppend
<1> HIDE DEF f
<1>3. Len(f) \in Nat /\ Len(Append(f, e)) = Len(f) + 1
  BY <1>1
<1>4. QED
  BY <1>2, <1>3 DEF Pieces, f

\* ... and one less if the event taken is one.
LEMMA PiecesOfTail ==
    ASSUME NEW w \in Seq(Events), w # <<>>
    PROVE  /\ Pieces(w) \in Nat /\ Pieces(Tail(w)) \in Nat
           /\ Pieces(w) = IF Head(w) = "chunk" THEN Pieces(Tail(w)) + 1 ELSE Pieces(Tail(w))
<1> DEFINE h == <<Head(w)>>
           t == Tail(w)
           k == {"chunk"}
<1>1. h \in Seq(Events) /\ t \in Seq(Events) /\ w = h \o t /\ Len(h) = 1
  OBVIOUS
<1>2. Filtered(h, k) = IF Head(w) \in k THEN h ELSE <<>>
  BY FilteredOfOne
<1>3. /\ Filtered(h, k) \in Seq(Events) /\ Filtered(t, k) \in Seq(Events) /\ Filtered(w, k) \in Seq(Events)
  BY <1>1, FilteredType
<1>4. Len(Filtered(h, k)) = IF Head(w) \in k THEN 1 ELSE 0
  BY <1>1, <1>2
<1> HIDE DEF h, t, k
<1>5. Filtered(w, k) = Filtered(h, k) \o Filtered(t, k)
  BY <1>1, FilteredOfConcat
<1>6. Len(Filtered(w, k)) = Len(Filtered(h, k)) + Len(Filtered(t, k))
  BY <1>3, <1>5
<1>7. Len(Filtered(w, k)) \in Nat /\ Len(Filtered(t, k)) \in Nat
  BY <1>3
<1>8. QED
  BY <1>4, <1>6, <1>7 DEF Pieces, k, t

\* A piece the goroutine has received and not yet written.
InHand(s) == IF worker[s] \in {"sending", "writing"} THEN 1 ELSE 0

\* Each piece the page has got, is getting or will get from the goroutine is one of
\* those in the buffer.
PiecesAreOfText ==
    \A s \in Streams : shown[s] + Pieces(wire[s]) + InHand(s) <= text[s]

\* What a page has got is a number, and no more than the buffer has had.
SInv == shown \in [Streams -> Nat] /\ PiecesAreOfText

\* A piece written is on its way, or is lost with a page that has left.
LEMMA WritesAPiece ==
    ASSUME Types, NEW s \in Streams, NEW e \in Events, SendEvent(s, e) \/ Write(s, e)
    PROVE  /\ \A r \in Streams : Pieces(wire[r]) \in Nat /\ Pieces(wire'[r]) \in Nat
           /\ \A r \in Streams \ {s} : wire'[r] = wire[r]
           /\ Pieces(wire'[s]) <= Pieces(wire[s]) + (IF e = "chunk" THEN 1 ELSE 0)
<1>0. wire \in [Streams -> Seq(Events)]
  BY DEF Types
<1>a. \A r \in Streams : Pieces(wire[r]) \in Nat
  BY <1>0, PiecesOfAppend
<1>1. CASE wire' = wire
  BY <1>a, <1>1
<1>2. CASE wire' = [wire EXCEPT ![s] = Append(@, e)]
  <2>1. wire'[s] = Append(wire[s], e) /\ \A r \in Streams \ {s} : wire'[r] = wire[r]
    BY <1>0, <1>2
  <2>2. Pieces(wire'[s]) = IF e = "chunk" THEN Pieces(wire[s]) + 1 ELSE Pieces(wire[s])
    BY <1>0, <2>1, PiecesOfAppend
  <2>3. Pieces(wire'[s]) \in Nat /\ Pieces(wire'[s]) <= Pieces(wire[s]) + (IF e = "chunk" THEN 1 ELSE 0)
    <3>1. CASE e = "chunk"
      BY <1>a, <2>2, <3>1
    <3>2. CASE e # "chunk"
      BY <1>a, <2>2, <3>2
    <3>3. QED
      BY <3>1, <3>2
  <2>4. \A r \in Streams \ {s} : Pieces(wire'[r]) \in Nat
    BY <1>a, <2>1
  <2>5. QED
    BY <1>a, <2>1, <2>3, <2>4
<1>3. QED
  BY <1>1, <1>2 DEF SendEvent, Write

\* Every step moves a piece on from buffer to goroutine to response to page, or loses it.
LEMMA Shown == Spec => []SInv
<1>1. Init => SInv
  <2> SUFFICES ASSUME Init PROVE SInv
    OBVIOUS
  <2>1. \A s \in Streams : shown[s] = 0 /\ Pieces(wire[s]) = 0 /\ InHand(s) = 0 /\ text[s] = 0
    BY PiecesOfNone DEF Init, InHand
  <2>2. QED
    BY <2>1 DEF Init, SInv, PiecesAreOfText
<1>2. IInv /\ SInv /\ [Next]_vars => SInv'
  <2> SUFFICES ASSUME IInv, SInv, [Next]_vars PROVE SInv'
    OBVIOUS
  <2>a. Types /\ GoroutinesMeet
    BY DEF IInv
  <2>b. \A r \in Streams : Pieces(wire[r]) \in Nat /\ shown[r] \in Nat /\ text[r] \in Nat
    BY <2>a, PiecesOfAppend, StreamAssumption DEF Types, SInv, Events
  <2>c. "chunk" \in Events /\ "error" \in Events /\ "close" \in Events
    BY DEF Events
  <2>d. \A r \in Streams : InHand(r) \in {0, 1} /\ shown[r] + Pieces(wire[r]) + InHand(r) <= text[r]
    BY DEF InHand, SInv, PiecesAreOfText
\* Steps that show nothing: what is left to show is that no stream counts more.
  <2>e. ASSUME UNCHANGED shown, NEW s \in Streams,
               \A r \in Streams \ {s} : wire'[r] = wire[r] /\ InHand(r)' = InHand(r) /\ text'[r] = text[r],
               NEW n \in Nat, text'[s] = text[s] + n,
               Pieces(wire'[s]) \in Nat, InHand(s)' \in {0, 1},
               Pieces(wire'[s]) + InHand(s)' <= Pieces(wire[s]) + InHand(s) + n
        PROVE  SInv'
    <3>1. shown[s] + Pieces(wire'[s]) + InHand(s)' <= text'[s]
      BY <2>b, <2>d, <2>e
    <3>2. \A r \in Streams : shown[r] + Pieces(wire'[r]) + InHand(r)' <= text'[r]
      BY <2>d, <2>e, <3>1
    <3>3. QED
      BY <2>e, <3>2 DEF SInv, PiecesAreOfText
  <2>1. ASSUME NEW s \in Streams, Connect(s)
        PROVE  SInv'
    <3>1. /\ UNCHANGED <<shown, wire, text>> /\ InHand(s)' = 0
          /\ \A r \in Streams \ {s} : InHand(r)' = InHand(r)
      BY <2>a, <2>1 DEF Connect, HandlerTo, WorkerTo, InHand, Types, GoroutinesMeet
    <3>2. QED
      BY <2>b, <2>d, <2>e, <3>1
  <2>2. ASSUME NEW s \in Streams, Replay(s)
        PROVE  SInv'
    <3>1. /\ UNCHANGED <<shown, worker>> /\ SendEvent(s, "chunk") /\ text'[s] = text[s] + 1
          /\ \A r \in Streams \ {s} : text'[r] = text[r]
      BY <2>a, <2>2 DEF Replay, pageVars, Types
    <3>2. \A r \in Streams : InHand(r)' = InHand(r)
      BY <3>1 DEF InHand
    <3>3. /\ Pieces(wire'[s]) \in Nat /\ Pieces(wire'[s]) <= Pieces(wire[s]) + 1
          /\ \A r \in Streams \ {s} : wire'[r] = wire[r]
      BY <2>a, <2>c, <3>1, WritesAPiece
    <3>4. QED
      BY <2>b, <2>d, <2>e, <3>1, <3>2, <3>3
  <2>3. ASSUME NEW s \in Streams, SendError(s) \/ Close(s)
        PROVE  SInv'
    <3>1. PICK e \in {"error", "close"} : SendEvent(s, e) /\ UNCHANGED <<shown, worker, text>>
      BY <2>3 DEF SendError, Close, goroutineVars, pageVars
    <3>2. \A r \in Streams : InHand(r)' = InHand(r)
      BY <3>1 DEF InHand
    <3>3. /\ Pieces(wire'[s]) \in Nat /\ Pieces(wire'[s]) <= Pieces(wire[s]) + 0
          /\ \A r \in Streams \ {s} : wire'[r] = wire[r]
      <4>1. e \in Events /\ e # "chunk"
        BY DEF Events
      <4>2. QED
        BY <2>a, <3>1, <4>1, WritesAPiece
    <3>4. QED
      BY <2>b, <2>d, <2>e, <3>1, <3>2, <3>3
  <2>4. ASSUME NEW s \in Streams, Receive(s)
        PROVE  SInv'
    <3>1. /\ UNCHANGED <<shown, wire>> /\ text'[s] = text[s] + 1 /\ InHand(s) = 0 /\ InHand(s)' = 1
          /\ \A r \in Streams \ {s} : text'[r] = text[r] /\ InHand(r)' = InHand(r)
      BY <2>a, <2>4 DEF Receive, WorkerTo, InHand, Types, pageVars
    <3>2. QED
      BY <2>b, <2>d, <2>e, <3>1
  <2>5. ASSUME NEW s \in Streams, CheckContext(s) \/ StreamEnds(s) \/ StreamBreaks(s) \/ Report(s)
        PROVE  SInv'
    <3>1. /\ UNCHANGED <<shown, wire, text>>
          /\ \E p : WorkerTo(s, p) /\ (p \in {"sending", "writing"} => worker[s] = "sending")
      BY <2>5 DEF CheckContext, StreamEnds, StreamBreaks, Report, pageVars
    <3>2. /\ InHand(s)' \in {0, 1} /\ InHand(s)' <= InHand(s)
          /\ \A r \in Streams \ {s} : InHand(r)' = InHand(r)
      BY <2>a, <3>1 DEF WorkerTo, InHand, Types
    <3>3. QED
      BY <2>b, <2>d, <2>e, <3>1, <3>2
  <2>6. ASSUME NEW s \in Streams, WriteChunk(s)
        PROVE  SInv'
    <3>1. /\ UNCHANGED <<shown, text>> /\ InHand(s) = 1 /\ InHand(s)' = 0 /\ Write(s, "chunk")
          /\ \A r \in Streams \ {s} : InHand(r)' = InHand(r)
      BY <2>a, <2>6 DEF WriteChunk, WorkerTo, InHand, Types, pageVars
    <3>2. /\ Pieces(wire'[s]) \in Nat /\ Pieces(wire'[s]) <= Pieces(wire[s]) + 1
          /\ \A r \in Streams \ {s} : wire'[r] = wire[r]
      BY <2>a, <2>c, <3>1, WritesAPiece
    <3>3. QED
      BY <2>b, <2>d, <2>e, <3>1, <3>2
  <2>7. ASSUME NEW s \in Streams, Deliver(s)
        PROVE  SInv'
    <3>1. /\ wire[s] \in Seq(Events) /\ wire[s] # <<>> /\ wire'[s] = Tail(wire[s])
          /\ \A r \in Streams \ {s} : wire'[r] = wire[r] /\ shown'[r] = shown[r]
          /\ shown' \in [Streams -> Nat]
          /\ shown'[s] = IF Head(wire[s]) = "chunk" THEN shown[s] + 1 ELSE shown[s]
          /\ UNCHANGED <<worker, text>>
      BY <2>a, <2>b, <2>7 DEF Deliver, Types, SInv, goroutineVars
    <3>2. \A r \in Streams : InHand(r)' = InHand(r)
      BY <3>1 DEF InHand
    <3>3. /\ Pieces(wire'[s]) \in Nat
          /\ Pieces(wire[s]) = IF Head(wire[s]) = "chunk" THEN Pieces(wire'[s]) + 1 ELSE Pieces(wire'[s])
      BY <3>1, PiecesOfTail
    <3>4. shown'[s] + Pieces(wire'[s]) + InHand(s) <= text[s]
      BY <2>b, <2>d, <3>1, <3>3
    <3>5. \A r \in Streams : shown'[r] + Pieces(wire'[r]) + InHand(r)' <= text'[r]
      BY <2>d, <3>1, <3>2, <3>4
    <3>6. QED
      BY <3>1, <3>5 DEF SInv, PiecesAreOfText
  <2>8. ASSUME NEW s \in Streams, Leave(s)
        PROVE  SInv'
    <3>1. /\ UNCHANGED <<shown, worker, text>> /\ wire'[s] = <<>>
          /\ \A r \in Streams \ {s} : wire'[r] = wire[r]
      BY <2>a, <2>8 DEF Leave, Types, goroutineVars
    <3>2. Pieces(wire'[s]) = 0
      BY <3>1, PiecesOfNone
    <3>3. \A r \in Streams : InHand(r)' = InHand(r)
      BY <3>1 DEF InHand
    <3>4. 0 \in Nat /\ text'[s] = text[s] + 0 /\ Pieces(wire'[s]) \in Nat
          /\ Pieces(wire'[s]) + InHand(s)' <= Pieces(wire[s]) + InHand(s) + 0
      BY <2>b, <2>d, <3>1, <3>2, <3>3
    <3>5. \A r \in Streams \ {s} : wire'[r] = wire[r] /\ InHand(r)' = InHand(r) /\ text'[r] = text[r]
      BY <3>1 DEF InHand
    <3>6. UNCHANGED shown /\ InHand(s)' \in {0, 1}
      BY <3>1 DEF InHand
    <3>7. QED
      BY <2>e, <3>4, <3>5, <3>6
  <2>9. CASE UNCHANGED <<shown, worker, text, wire>>
    BY <2>9 DEF SInv, PiecesAreOfText, InHand
  <2>10. QED
    BY <2>1, <2>2, <2>3, <2>4, <2>5, <2>6, <2>7, <2>8, <2>9
       DEF Next, Handle, Work, ReplayEnds, TakeResult, SeesCancel, Store, CancelContext,
           vars, goroutineVars, pageVars
<1>3. QED
  BY <1>1, <1>2, Invariance, PTL DEF Spec

\* All variables have their types; in particular no page is shown more pieces than its
\* text has, though pieces are handed from goroutine to response to page.
THEOREM TypesOfStreams == Spec => []TypeOK
<1>1. IInv /\ SInv => TypeOK
  <2> SUFFICES ASSUME IInv, SInv PROVE TypeOK
    OBVIOUS
  <2>1. Types
    BY DEF IInv
  <2>2. \A s \in Streams : shown[s] \in 0..Chunks
    <3>1. \A s \in Streams : Pieces(wire[s]) \in Nat /\ shown[s] \in Nat /\ text[s] \in 0..Chunks /\ InHand(s) \in Nat
      BY <2>1, PiecesOfAppend DEF Types, SInv, InHand, Events
    <3>2. QED
      BY <3>1, StreamAssumption DEF SInv, PiecesAreOfText
  <2>3. QED
    BY <2>1, <2>2 DEF Types, TypeOK, SInv
<1>2. QED
  BY <1>1, Invariance, Shown, PTL
===============================================================================
