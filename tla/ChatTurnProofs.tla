--------------------------- MODULE ChatTurnProofs ---------------------------
(***************************************************************************)
(* Theorems about ChatTurn, for any number of turns, attempts and chunks.  *)
(* The five safety properties follow from one inductive invariant, which   *)
(* says for every stage of a turn what has been billed, buffered, shown    *)
(* and stored by then.                                                     *)
(***************************************************************************)
EXTENDS ChatTurn, TLAPS

Calling(t) == turn[t].pc \in {"new", "connect", "wait"}

\* Until the vendor has answered there is nothing to show, store or bill.
NothingYet(t) ==
    Calling(t) =>
        /\ src[t].pc = "none" /\ src[t].read = 0
        /\ billed[t] = 0
        /\ client[t].got = 0 /\ client[t].told = "nothing"
        /\ turn[t].buf = 0

\* Another attempt is left while a backoff is being waited for.
AttemptLeft(t) == turn[t].pc = "wait" => turn[t].attempt < MaxRetries

\* What the handler has buffered of what the goroutine has read.
Buffered(t) ==
    turn[t].pc = "drain" =>
        /\ src[t].pc # "none"
        /\ src[t].pc = "read" => turn[t].buf = src[t].read
        /\ src[t].pc = "send" =>
              /\ src[t].item = "delta" => turn[t].buf = src[t].read - 1
              /\ src[t].item = "done" => turn[t].buf = src[t].full
        /\ src[t].pc = "closed" => src[t].cut \/ client[t].gone

\* A goroutine never reads beyond the vendor's answer.
ReadBound(t) == src[t].pc # "none" => src[t].read <= src[t].full

\* What a turn that is still to be captured is known to hold.
Whole(t) ==
    (turn[t].pc = "capture" /\ ~client[t].gone) =>
        turn[t].truncated \/ src[t].cut \/ turn[t].buf = src[t].full

\* A client that is still there has been sent what is buffered.
Shown(t) ==
    /\ (turn[t].stream /\ ~client[t].gone /\ turn[t].pc # "over") =>
          client[t].got = turn[t].buf
    /\ ~turn[t].stream /\ turn[t].pc # "over" => client[t].got = 0
    /\ client[t].got <= turn[t].buf
    /\ client[t].told = "done" => client[t].got = turn[t].buf

\* The episode, once there is one.
Stored(t) ==
    episodes[t].row =>
        /\ turn[t].pc \in {"finish", "over"}
        /\ client[t].told # "error"
        /\ episodes[t].out = turn[t].buf
        /\ turn[t].stream => client[t].got = turn[t].buf
        /\ episodes[t].truncated \/ src[t].cut \/ episodes[t].out = src[t].full

\* What the outcome of the capture says about the episode.
Outcome(t) ==
    /\ turn[t].pc \in {"capture", "finish"} => client[t].told = "nothing"
    /\ turn[t].pc = "drain" => client[t].told = "nothing"
    /\ turn[t].captured = "ok" => episodes[t].row
    /\ turn[t].captured = "cancelled" => client[t].gone
    /\ turn[t].pc = "finish" => turn[t].captured # "no"

TurnInv(t) ==
    /\ NothingYet(t) /\ AttemptLeft(t) /\ Buffered(t) /\ ReadBound(t)
    /\ Whole(t) /\ Shown(t) /\ Stored(t) /\ Outcome(t)
    /\ billed[t] <= 1
    /\ client[t].told = "error" => client[t].got = 0
    /\ client[t].told = "done" => episodes[t].row \/ turn[t].captured \in {"failed", "skipped"}

Inv == TypeOK /\ \A t \in Turns : TurnInv(t)

----------------------------------------------------------------------------
\* The types of turn t's own state, and of the whole of it.
TypedTurn(t) ==
    /\ turn[t] \in Handler /\ src[t] \in Source /\ client[t] \in Client
    /\ billed[t] \in 0..MaxRetries /\ episodes[t] \in Episode
    /\ src[t].pc # "none" => turn[t].stream /\ ~Calling(t)

\* A step of turn t leaves every other turn alone.
Framed(t) ==
    /\ turn' = [turn EXCEPT ![t] = turn'[t]]
    /\ src' = [src EXCEPT ![t] = src'[t]]
    /\ client' = [client EXCEPT ![t] = client'[t]]
    /\ billed' = [billed EXCEPT ![t] = billed'[t]]
    /\ episodes' = [episodes EXCEPT ![t] = episodes'[t]]

\* What has to be shown of a step of turn t.
Keeps(t) == Framed(t) /\ TypedTurn(t)' /\ TurnInv(t)'

LEMMA Typed ==
    ASSUME TypeOK, NEW t \in Turns
    PROVE  TypedTurn(t)
BY DEF TypeOK, TypedTurn, Calling

LEMMA KeepsInv ==
    ASSUME Inv, NEW t \in Turns, Keeps(t)
    PROVE  Inv'
<1>1. \A u \in Turns \ {t} :
          /\ turn'[u] = turn[u] /\ src'[u] = src[u] /\ client'[u] = client[u]
          /\ billed'[u] = billed[u] /\ episodes'[u] = episodes[u]
  BY DEF Keeps, Framed, Inv, TypeOK
<1>2. \A u \in Turns : TypedTurn(u)'
  BY <1>1, Typed DEF Keeps, Inv, TypedTurn, Calling
<1>3. TypeOK'
  BY <1>2 DEF Keeps, Framed, Inv, TypeOK, TypedTurn, Calling
<1>4. \A u \in Turns : TurnInv(u)'
  BY <1>1
  DEF Keeps, Inv, TurnInv, NothingYet, Calling, AttemptLeft, Buffered, ReadBound,
      Whole, Shown, Stored, Outcome
<1>5. QED
  BY <1>3, <1>4 DEF Inv

LEMMA RequestKeeps ==
    ASSUME Inv, NEW t \in Turns, Request(t)
    PROVE  Keeps(t)
<1>1. TypedTurn(t) /\ TurnInv(t)
  BY Typed DEF Inv
<1>2. Framed(t)
  BY DEF Request, Framed, Inv, TypeOK
<1>3. PICK stream, skip \in BOOLEAN :
        turn'[t] = [turn[t] EXCEPT !.pc = "connect", !.stream = stream, !.skip = skip]
  BY DEF Request, Inv, TypeOK
<1>4. TypedTurn(t)'
  BY <1>1, <1>3 DEF Request, TypedTurn, Handler, Calling, TurnInv, NothingYet
<1>5. TurnInv(t)'
  BY <1>1, <1>3
  DEF Request, TypedTurn, Handler, TurnInv, NothingYet, Calling, AttemptLeft,
      Buffered, ReadBound, Whole, Shown, Stored, Outcome
<1>6. QED
  BY <1>2, <1>4, <1>5 DEF Keeps

LEMMA AnswerKeeps ==
    ASSUME Inv, NEW t \in Turns, Calling(t), Answer(t, "error"),
           billed' \in {billed, [billed EXCEPT ![t] = @ + 1]}, UNCHANGED <<src, episodes>>
    PROVE  Keeps(t)
<1>1. TypedTurn(t) /\ TurnInv(t)
  BY Typed DEF Inv
<1>2. Framed(t)
  BY DEF Answer, Tell, Framed, Inv, TypeOK
<1>3. /\ turn'[t] = [turn[t] EXCEPT !.pc = "over"]
      /\ client'[t] = [client[t] EXCEPT !.told = IF client[t].gone THEN @ ELSE "error"]
      /\ billed'[t] \in {0, 1}
  BY <1>1 DEF Answer, Tell, Inv, TypeOK, TurnInv, NothingYet
<1>4. TypedTurn(t)'
  BY <1>1, <1>3, LimitAssumption
  DEF TypedTurn, Handler, Client, Calling, TurnInv, NothingYet
<1>5. TurnInv(t)'
  BY <1>1, <1>3
  DEF TypedTurn, Handler, Client, TurnInv, NothingYet, Calling, AttemptLeft, Buffered,
      ReadBound, Whole, Shown, Stored, Outcome
<1>6. QED
  BY <1>2, <1>4, <1>5 DEF Keeps

LEMMA RetryOrErrorKeeps ==
    ASSUME Inv, NEW t \in Turns, turn[t].pc = "connect", RetryOrError(t),
           UNCHANGED <<src, billed, episodes>>
    PROVE  Keeps(t)
<1>1. CASE turn[t].attempt < MaxRetries
  <2>1. TypedTurn(t) /\ TurnInv(t)
    BY Typed DEF Inv
  <2>2. Framed(t)
    BY <1>1 DEF RetryOrError, Framed, Inv, TypeOK
  <2>3. turn'[t] = [turn[t] EXCEPT !.pc = "wait"] /\ UNCHANGED client
    BY <1>1 DEF RetryOrError, Inv, TypeOK
  <2>4. TypedTurn(t)'
    BY <2>1, <2>3 DEF TypedTurn, Handler, Calling
  <2>5. TurnInv(t)'
    BY <1>1, <2>1, <2>3
    DEF TypedTurn, Handler, TurnInv, NothingYet, Calling, AttemptLeft, Buffered,
        ReadBound, Whole, Shown, Stored, Outcome
  <2>6. QED
    BY <2>2, <2>4, <2>5 DEF Keeps
<1>2. CASE ~(turn[t].attempt < MaxRetries)
  BY <1>2, AnswerKeeps DEF RetryOrError, Calling
<1>3. QED
  BY <1>1, <1>2

LEMMA SentThenFailedKeeps ==
    ASSUME Inv, NEW t \in Turns, SentThenFailed(t)
    PROVE  Keeps(t)
<1>1. billed \in [Turns -> 0..MaxRetries]
  BY DEF Inv, TypeOK
<1>2. billed' \in {billed, [billed EXCEPT ![t] = @ + 1]}
  <2>1. PICK n \in {0, 1} : billed' = [billed EXCEPT ![t] = @ + n]
    BY DEF SentThenFailed
  <2>2. CASE n = 0
    BY <1>1, <2>1, <2>2
  <2>3. CASE n = 1
    BY <2>1, <2>3
  <2>4. QED
    BY <2>1, <2>2, <2>3
<1>3. QED
  BY <1>2, AnswerKeeps DEF SentThenFailed, Calling

LEMMA BackoffKeeps ==
    ASSUME Inv, NEW t \in Turns, Backoff(t)
    PROVE  Keeps(t)
<1>1. TypedTurn(t) /\ TurnInv(t)
  BY Typed DEF Inv
<1>2. Framed(t)
  BY DEF Backoff, Framed, Inv, TypeOK
<1>g. turn[t].pc = "wait"
  BY DEF Backoff, TypeOK
<1>b. turn[t].attempt + 1 \in 1..MaxRetries
  BY <1>1, <1>g, LimitAssumption
  DEF TypedTurn, Handler, TurnInv, NothingYet, Calling, AttemptLeft, Buffered,
      ReadBound, Whole, Shown, Stored, Outcome
<1>3. /\ turn'[t] = [turn[t] EXCEPT !.pc = "connect", !.attempt = turn[t].attempt + 1]
      /\ src'[t] = src[t] /\ client'[t] = client[t]
      /\ billed'[t] = billed[t] /\ episodes'[t] = episodes[t]
  BY DEF Backoff, Inv, TypeOK
<1>4. TypedTurn(t)'
  BY <1>1, <1>g, <1>b, <1>3, LimitAssumption
  DEF TypedTurn, Handler, TurnInv, NothingYet, Calling, AttemptLeft, Buffered,
      ReadBound, Whole, Shown, Stored, Outcome
<1>5. TurnInv(t)'
  BY <1>1, <1>g, <1>b, <1>3, LimitAssumption
  DEF TypedTurn, Handler, TurnInv, NothingYet, Calling, AttemptLeft, Buffered,
      ReadBound, Whole, Shown, Stored, Outcome
<1>6. QED
  BY <1>2, <1>4, <1>5 DEF Keeps

LEMMA ClientLeavesKeeps ==
    ASSUME Inv, NEW t \in Turns, ClientLeaves(t)
    PROVE  Keeps(t)
<1>1. TypedTurn(t) /\ TurnInv(t)
  BY Typed DEF Inv
<1>2. Framed(t)
  BY DEF ClientLeaves, Framed, Inv, TypeOK
<1>g. turn[t].pc # "new"
  BY DEF ClientLeaves, TypeOK
<1>3. /\ client'[t] = [client[t] EXCEPT !.gone = TRUE]
      /\ turn'[t] = turn[t] /\ src'[t] = src[t]
      /\ billed'[t] = billed[t] /\ episodes'[t] = episodes[t]
  BY DEF ClientLeaves, Inv, TypeOK
<1>4. TypedTurn(t)'
  BY <1>1, <1>g, <1>3, LimitAssumption
  DEF TypedTurn, Handler, Client, Episode, TurnInv, NothingYet, Calling, AttemptLeft,
      Buffered, ReadBound, Whole, Shown, Stored, Outcome
<1>5. TurnInv(t)'
  BY <1>1, <1>g, <1>3, LimitAssumption
  DEF TypedTurn, Handler, Client, Episode, TurnInv, NothingYet, Calling, AttemptLeft,
      Buffered, ReadBound, Whole, Shown, Stored, Outcome
<1>6. QED
  BY <1>2, <1>4, <1>5 DEF Keeps

LEMMA FeedbackKeeps ==
    ASSUME Inv, NEW t \in Turns, Feedback(t)
    PROVE  Keeps(t)
<1>1. TypedTurn(t) /\ TurnInv(t)
  BY Typed DEF Inv
<1>2. Framed(t)
  BY DEF Feedback, Framed, Inv, TypeOK
<1>3. /\ episodes'[t] = [episodes[t] EXCEPT !.rated = IF episodes[t].row THEN "stored" ELSE "refused"]
      /\ turn'[t] = turn[t] /\ src'[t] = src[t]
      /\ client'[t] = client[t] /\ billed'[t] = billed[t]
  BY DEF Feedback, Inv, TypeOK
<1>4. TypedTurn(t)'
  BY <1>1, <1>3, LimitAssumption
  DEF TypedTurn, Episode, TurnInv, NothingYet, Calling, AttemptLeft, Buffered,
      ReadBound, Whole, Shown, Stored, Outcome
<1>5. TurnInv(t)'
  BY <1>1, <1>3, LimitAssumption
  DEF TypedTurn, Episode, TurnInv, NothingYet, Calling, AttemptLeft, Buffered,
      ReadBound, Whole, Shown, Stored, Outcome
<1>6. QED
  BY <1>2, <1>4, <1>5 DEF Keeps

LEMMA StreamOpensKeeps ==
    ASSUME Inv, NEW t \in Turns, StreamOpens(t)
    PROVE  Keeps(t)
<1>1. TypedTurn(t) /\ TurnInv(t)
  BY Typed DEF Inv
<1>2. PICK n \in 0..MaxChunks :
        src' = [src EXCEPT ![t].pc = "read", ![t].full = n]
  BY DEF StreamOpens
<1>3. Framed(t)
  BY <1>2 DEF StreamOpens, Framed, Inv, TypeOK
<1>4. /\ src'[t] = [src[t] EXCEPT !.pc = "read", !.full = n]
      /\ turn'[t] = [turn[t] EXCEPT !.pc = "drain"]
      /\ billed'[t] = billed[t] + 1
      /\ client'[t] = client[t] /\ episodes'[t] = episodes[t]
      /\ turn[t].pc = "connect" /\ turn[t].stream
  BY <1>2 DEF StreamOpens, Inv, TypeOK
<1>b. billed[t] + 1 \in 0..MaxRetries
  BY <1>1, <1>4, LimitAssumption DEF TurnInv, NothingYet, Calling
<1>5. TypedTurn(t)'
  BY <1>1, <1>4, <1>b DEF TypedTurn, Handler, Source, Calling
<1>6. TurnInv(t)'
  BY <1>1, <1>4, LimitAssumption
  DEF TypedTurn, Handler, Source, Client, TurnInv, NothingYet, Calling, AttemptLeft,
      Buffered, ReadBound, Whole, Shown, Stored, Outcome
<1>7. QED
  BY <1>3, <1>5, <1>6 DEF Keeps

LEMMA WholeAnswerKeeps ==
    ASSUME Inv, NEW t \in Turns, WholeAnswer(t)
    PROVE  Keeps(t)
<1>1. CASE \E n \in 0..MaxChunks :
              /\ src' = [src EXCEPT ![t].full = n]
              /\ turn' = [turn EXCEPT ![t].pc = "capture", ![t].buf = n]
              /\ UNCHANGED client
  <2>1. TypedTurn(t) /\ TurnInv(t)
    BY Typed DEF Inv
  <2>2. PICK n \in 0..MaxChunks :
              /\ src' = [src EXCEPT ![t].full = n]
              /\ turn' = [turn EXCEPT ![t].pc = "capture", ![t].buf = n]
              /\ UNCHANGED client
    BY <1>1
  <2>3. Framed(t)
    BY <2>2 DEF WholeAnswer, Framed, Inv, TypeOK
  <2>4. /\ src'[t] = [src[t] EXCEPT !.full = n]
        /\ turn'[t] = [turn[t] EXCEPT !.pc = "capture", !.buf = n]
        /\ billed'[t] = billed[t] + 1
        /\ client'[t] = client[t] /\ episodes'[t] = episodes[t]
        /\ turn[t].pc = "connect" /\ ~turn[t].stream
    BY <2>2 DEF WholeAnswer, Inv, TypeOK
  <2>b. billed[t] + 1 \in 0..MaxRetries /\ src[t].pc = "none"
    BY <2>1, <2>4, LimitAssumption DEF TurnInv, NothingYet, Calling
  <2>5. TypedTurn(t)'
    BY <2>1, <2>4, <2>b DEF TypedTurn, Handler, Source
  <2>6. TurnInv(t)'
    BY <2>1, <2>4, LimitAssumption
    DEF TypedTurn, Handler, Source, Client, TurnInv, NothingYet, Calling, AttemptLeft,
        Buffered, ReadBound, Whole, Shown, Stored, Outcome
  <2>7. QED
    BY <2>3, <2>5, <2>6 DEF Keeps
<1>2. CASE Answer(t, "error") /\ UNCHANGED src
  BY <1>2, AnswerKeeps DEF WholeAnswer, Calling
<1>3. QED
  BY <1>1, <1>2 DEF WholeAnswer

----------------------------------------------------------------------------
(* The goroutine and the drain loop.                                       *)

LEMMA ReadDeltaKeeps ==
    ASSUME Inv, NEW t \in Turns, ReadDelta(t)
    PROVE  Keeps(t)
<1>1. TypedTurn(t) /\ TurnInv(t)
  BY Typed DEF Inv
<1>2. Framed(t)
  BY DEF ReadDelta, Read, Framed, Inv, TypeOK
<1>g. src[t].pc = "read" /\ src[t].read < src[t].full
  BY DEF ReadDelta, Read, TypeOK
<1>b. src[t].read + 1 \in 0..MaxChunks
  BY <1>1, <1>g, LimitAssumption
  DEF TypedTurn, Handler, Source, Client, TurnInv, NothingYet, Calling, AttemptLeft,
      Buffered, ReadBound, Whole, Shown, Stored, Outcome
<1>3. /\ src'[t] = [src[t] EXCEPT !.pc = "send", !.item = "delta",
                                   !.read = src[t].read + 1]
      /\ turn'[t] = turn[t] /\ client'[t] = client[t]
      /\ billed'[t] = billed[t] /\ episodes'[t] = episodes[t]
  BY DEF ReadDelta, Read, Inv, TypeOK
<1>4. TypedTurn(t)'
  BY <1>1, <1>g, <1>b, <1>3, LimitAssumption
  DEF TypedTurn, Handler, Source, Client, TurnInv, NothingYet, Calling, AttemptLeft,
      Buffered, ReadBound, Whole, Shown, Stored, Outcome
<1>5. TurnInv(t)'
  BY <1>1, <1>g, <1>b, <1>3, LimitAssumption
  DEF TypedTurn, Handler, Source, Client, TurnInv, NothingYet, Calling, AttemptLeft,
      Buffered, ReadBound, Whole, Shown, Stored, Outcome
<1>6. QED
  BY <1>2, <1>4, <1>5 DEF Keeps

LEMMA ReadStopKeeps ==
    ASSUME Inv, NEW t \in Turns, ReadStop(t)
    PROVE  Keeps(t)
<1>1. TypedTurn(t) /\ TurnInv(t)
  BY Typed DEF Inv
<1>2. Framed(t)
  BY DEF ReadStop, Read, Framed, Inv, TypeOK
<1>g. src[t].pc = "read" /\ src[t].read = src[t].full
  BY DEF ReadStop, Read, TypeOK
<1>3. /\ src'[t] = [src[t] EXCEPT !.pc = "send", !.item = "done", !.read = src[t].read]
      /\ turn'[t] = turn[t] /\ client'[t] = client[t]
      /\ billed'[t] = billed[t] /\ episodes'[t] = episodes[t]
  BY DEF ReadStop, Read, Inv, TypeOK
<1>4. TypedTurn(t)'
  BY <1>1, <1>g, <1>3, LimitAssumption
  DEF TypedTurn, Handler, Source, Client, TurnInv, NothingYet, Calling, AttemptLeft,
      Buffered, ReadBound, Whole, Shown, Stored, Outcome
<1>5. TurnInv(t)'
  BY <1>1, <1>g, <1>3, LimitAssumption
  DEF TypedTurn, Handler, Source, Client, TurnInv, NothingYet, Calling, AttemptLeft,
      Buffered, ReadBound, Whole, Shown, Stored, Outcome
<1>6. QED
  BY <1>2, <1>4, <1>5 DEF Keeps

LEMMA ReadErrorKeeps ==
    ASSUME Inv, NEW t \in Turns, ReadError(t)
    PROVE  Keeps(t)
<1>1. TypedTurn(t) /\ TurnInv(t)
  BY Typed DEF Inv
<1>2. Framed(t)
  BY DEF ReadError, Read, Framed, Inv, TypeOK
<1>g. src[t].pc = "read"
  BY DEF ReadError, Read, TypeOK
<1>3. /\ src'[t] = [src[t] EXCEPT !.pc = "send", !.item = "err", !.read = src[t].read]
      /\ turn'[t] = turn[t] /\ client'[t] = client[t]
      /\ billed'[t] = billed[t] /\ episodes'[t] = episodes[t]
  BY DEF ReadError, Read, Inv, TypeOK
<1>4. TypedTurn(t)'
  BY <1>1, <1>g, <1>3, LimitAssumption
  DEF TypedTurn, Handler, Source, Client, TurnInv, NothingYet, Calling, AttemptLeft,
      Buffered, ReadBound, Whole, Shown, Stored, Outcome
<1>5. TurnInv(t)'
  BY <1>1, <1>g, <1>3, LimitAssumption
  DEF TypedTurn, Handler, Source, Client, TurnInv, NothingYet, Calling, AttemptLeft,
      Buffered, ReadBound, Whole, Shown, Stored, Outcome
<1>6. QED
  BY <1>2, <1>4, <1>5 DEF Keeps

LEMMA ReadEOFKeeps ==
    ASSUME Inv, NEW t \in Turns, ReadEOF(t)
    PROVE  Keeps(t)
<1>1. TypedTurn(t) /\ TurnInv(t)
  BY Typed DEF Inv
<1>2. Framed(t)
  BY DEF ReadEOF, Framed, Inv, TypeOK
<1>g. src[t].pc = "read"
  BY DEF ReadEOF, TypeOK
<1>3. /\ src'[t] = [src[t] EXCEPT !.pc = "closed", !.cut = TRUE]
      /\ turn'[t] = turn[t] /\ client'[t] = client[t]
      /\ billed'[t] = billed[t] /\ episodes'[t] = episodes[t]
  BY DEF ReadEOF, Inv, TypeOK
<1>4. TypedTurn(t)'
  BY <1>1, <1>g, <1>3, LimitAssumption
  DEF TypedTurn, Handler, Source, Episode, TurnInv, NothingYet, Calling, AttemptLeft,
      Buffered, ReadBound, Whole, Shown, Stored, Outcome
<1>5. TurnInv(t)'
  BY <1>1, <1>g, <1>3, LimitAssumption
  DEF TypedTurn, Handler, Source, Episode, TurnInv, NothingYet, Calling, AttemptLeft,
      Buffered, ReadBound, Whole, Shown, Stored, Outcome
<1>6. QED
  BY <1>2, <1>4, <1>5 DEF Keeps

LEMMA SendAbortedKeeps ==
    ASSUME Inv, NEW t \in Turns, SendAborted(t)
    PROVE  Keeps(t)
<1>1. TypedTurn(t) /\ TurnInv(t)
  BY Typed DEF Inv
<1>2. Framed(t)
  BY DEF SendAborted, CtxDone, Framed, Inv, TypeOK
<1>g. src[t].pc = "send" /\ (client[t].gone \/ turn[t].pc = "over")
  BY DEF SendAborted, CtxDone, TypeOK
<1>3. /\ src'[t] = [src[t] EXCEPT !.pc = "closed"]
      /\ turn'[t] = turn[t] /\ client'[t] = client[t]
      /\ billed'[t] = billed[t] /\ episodes'[t] = episodes[t]
  BY DEF SendAborted, CtxDone, Inv, TypeOK
<1>4. TypedTurn(t)'
  BY <1>1, <1>g, <1>3, LimitAssumption
  DEF TypedTurn, Handler, Source, Client, Episode, TurnInv, NothingYet, Calling,
      AttemptLeft, Buffered, ReadBound, Whole, Shown, Stored, Outcome
<1>5. TurnInv(t)'
  BY <1>1, <1>g, <1>3, LimitAssumption
  DEF TypedTurn, Handler, Source, Client, Episode, TurnInv, NothingYet, Calling,
      AttemptLeft, Buffered, ReadBound, Whole, Shown, Stored, Outcome
<1>6. QED
  BY <1>2, <1>4, <1>5 DEF Keeps

LEMMA DeliverKeeps ==
    ASSUME Inv, NEW t \in Turns, Deliver(t)
    PROVE  Keeps(t)
<1>1. TypedTurn(t) /\ TurnInv(t)
  BY Typed DEF Inv
<1>2. CASE src[t].item = "delta"
  <2>1. Framed(t)
    BY <1>2 DEF Deliver, Framed, Inv, TypeOK
  <2>2. /\ turn'[t] = [turn[t] EXCEPT !.buf = turn[t].buf + 1]
        /\ client'[t] = [client[t] EXCEPT !.got = IF client[t].gone THEN @ ELSE @ + 1]
        /\ src'[t] = [src[t] EXCEPT !.pc = "read"]
    BY <1>2 DEF Deliver, Inv, TypeOK
  <2>3. turn[t].buf + 1 \in 0..MaxChunks /\ client[t].got + 1 \in 0..MaxChunks
    BY <1>1, <1>2, LimitAssumption
    DEF Deliver, TypedTurn, Handler, Source, Client, TurnInv, Buffered, ReadBound,
        Shown
  <2>4. TypedTurn(t)'
    BY <1>1, <2>2, <2>3 DEF Deliver, TypedTurn, Handler, Source, Client, Calling
  <2>5. TurnInv(t)'
    BY <1>1, <1>2, <2>2, <2>3, LimitAssumption
    DEF Deliver, TypedTurn, Handler, Source, Client, TurnInv, NothingYet, Calling,
        AttemptLeft, Buffered, ReadBound, Whole, Shown, Stored, Outcome
  <2>6. QED
    BY <2>1, <2>4, <2>5 DEF Keeps
<1>3. CASE src[t].item # "delta"
  <2>1. Framed(t)
    BY <1>3 DEF Deliver, Framed, Inv, TypeOK
  <2>2. /\ turn'[t] = [turn[t] EXCEPT !.pc = "capture", !.truncated = (src[t].item = "err")]
        /\ src'[t] = [src[t] EXCEPT !.pc = "closed"]
        /\ UNCHANGED client
    BY <1>3 DEF Deliver, Inv, TypeOK
  <2>3. TypedTurn(t)'
    BY <1>1, <2>2 DEF Deliver, TypedTurn, Handler, Source, Calling
  <2>4. TurnInv(t)'
    BY <1>1, <1>3, <2>2
    DEF Deliver, TypedTurn, Handler, Source, Client, TurnInv, NothingYet, Calling,
        AttemptLeft, Buffered, ReadBound, Whole, Shown, Stored, Outcome
  <2>5. QED
    BY <2>1, <2>3, <2>4 DEF Keeps
<1>4. QED
  BY <1>2, <1>3

LEMMA DrainClosedKeeps ==
    ASSUME Inv, NEW t \in Turns, DrainClosed(t)
    PROVE  Keeps(t)
<1>1. TypedTurn(t) /\ TurnInv(t)
  BY Typed DEF Inv
<1>2. Framed(t)
  BY DEF DrainClosed, Framed, Inv, TypeOK
<1>g. turn[t].pc = "drain" /\ src[t].pc = "closed"
  BY DEF DrainClosed, TypeOK
<1>3. /\ turn'[t] = [turn[t] EXCEPT !.pc = "capture"]
      /\ src'[t] = src[t] /\ client'[t] = client[t]
      /\ billed'[t] = billed[t] /\ episodes'[t] = episodes[t]
  BY DEF DrainClosed, Inv, TypeOK
<1>4. TypedTurn(t)'
  BY <1>1, <1>g, <1>3, LimitAssumption
  DEF TypedTurn, Handler, Client, TurnInv, NothingYet, Calling, AttemptLeft, Buffered,
      ReadBound, Whole, Shown, Stored, Outcome
<1>5. TurnInv(t)'
  BY <1>1, <1>g, <1>3, LimitAssumption
  DEF TypedTurn, Handler, Client, TurnInv, NothingYet, Calling, AttemptLeft, Buffered,
      ReadBound, Whole, Shown, Stored, Outcome
<1>6. QED
  BY <1>2, <1>4, <1>5 DEF Keeps

LEMMA DrainCancelledKeeps ==
    ASSUME Inv, NEW t \in Turns, DrainCancelled(t)
    PROVE  Keeps(t)
<1>1. TypedTurn(t) /\ TurnInv(t)
  BY Typed DEF Inv
<1>2. Framed(t)
  BY DEF DrainCancelled, Framed, Inv, TypeOK
<1>g. turn[t].pc = "drain" /\ client[t].gone
  BY DEF DrainCancelled, TypeOK
<1>3. /\ turn'[t] = [turn[t] EXCEPT !.pc = "capture", !.truncated = TRUE]
      /\ src'[t] = src[t] /\ client'[t] = client[t]
      /\ billed'[t] = billed[t] /\ episodes'[t] = episodes[t]
  BY DEF DrainCancelled, Inv, TypeOK
<1>4. TypedTurn(t)'
  BY <1>1, <1>g, <1>3, LimitAssumption
  DEF TypedTurn, Handler, Client, TurnInv, NothingYet, Calling, AttemptLeft, Buffered,
      ReadBound, Whole, Shown, Stored, Outcome
<1>5. TurnInv(t)'
  BY <1>1, <1>g, <1>3, LimitAssumption
  DEF TypedTurn, Handler, Client, TurnInv, NothingYet, Calling, AttemptLeft, Buffered,
      ReadBound, Whole, Shown, Stored, Outcome
<1>6. QED
  BY <1>2, <1>4, <1>5 DEF Keeps

----------------------------------------------------------------------------
(* Capture and the end of the turn.                                        *)

LEMMA CaptureStoresKeeps ==
    ASSUME Inv, NEW t \in Turns, CaptureStores(t)
    PROVE  Keeps(t)
<1>1. TypedTurn(t) /\ TurnInv(t)
  BY Typed DEF Inv
<1>2. Framed(t)
  BY DEF CaptureStores, StoreEpisode, Captured, Framed, Inv, TypeOK
<1>g. turn[t].pc = "capture" /\ ~client[t].gone
  BY DEF CaptureStores, StoreEpisode, Captured, TypeOK
<1>3. /\ turn'[t] = [turn[t] EXCEPT !.pc = "finish", !.captured = "ok"]
      /\ episodes'[t] = [episodes[t] EXCEPT !.row = TRUE, !.out = turn[t].buf,
                                          !.truncated = turn[t].truncated]
      /\ src'[t] = src[t] /\ client'[t] = client[t] /\ billed'[t] = billed[t]
  BY DEF CaptureStores, StoreEpisode, Captured, Inv, TypeOK
<1>4. TypedTurn(t)'
  BY <1>1, <1>g, <1>3, LimitAssumption
  DEF TypedTurn, Handler, Client, Episode, TurnInv, NothingYet, Calling, AttemptLeft,
      Buffered, ReadBound, Whole, Shown, Stored, Outcome
<1>5. TurnInv(t)'
  BY <1>1, <1>g, <1>3, LimitAssumption
  DEF TypedTurn, Handler, Client, Episode, TurnInv, NothingYet, Calling, AttemptLeft,
      Buffered, ReadBound, Whole, Shown, Stored, Outcome
<1>6. QED
  BY <1>2, <1>4, <1>5 DEF Keeps

LEMMA FailedStoreKeeps ==
    ASSUME Inv, NEW t \in Turns, turn[t].pc = "capture", ~client[t].gone,
           StoreEpisode(t), Captured(t, "failed"), UNCHANGED <<src, client, billed>>
    PROVE  Keeps(t)
<1>1. TypedTurn(t) /\ TurnInv(t)
  BY Typed DEF Inv
<1>2. Framed(t)
  BY DEF StoreEpisode, Captured, Framed, Inv, TypeOK
<1>g. turn[t].pc = "capture" /\ ~client[t].gone
  BY DEF StoreEpisode, Captured, TypeOK
<1>3. /\ turn'[t] = [turn[t] EXCEPT !.pc = "finish", !.captured = "failed"]
      /\ episodes'[t] = [episodes[t] EXCEPT !.row = TRUE, !.out = turn[t].buf,
                                          !.truncated = turn[t].truncated]
      /\ src'[t] = src[t] /\ client'[t] = client[t] /\ billed'[t] = billed[t]
  BY DEF StoreEpisode, Captured, Inv, TypeOK
<1>4. TypedTurn(t)'
  BY <1>1, <1>g, <1>3, LimitAssumption
  DEF TypedTurn, Handler, Client, Episode, TurnInv, NothingYet, Calling, AttemptLeft,
      Buffered, ReadBound, Whole, Shown, Stored, Outcome
<1>5. TurnInv(t)'
  BY <1>1, <1>g, <1>3, LimitAssumption
  DEF TypedTurn, Handler, Client, Episode, TurnInv, NothingYet, Calling, AttemptLeft,
      Buffered, ReadBound, Whole, Shown, Stored, Outcome
<1>6. QED
  BY <1>2, <1>4, <1>5 DEF Keeps

LEMMA NoStoreKeeps ==
    ASSUME Inv, NEW t \in Turns, turn[t].pc = "capture",
           NEW how \in {"failed", "cancelled", "skipped"}, Captured(t, how),
           how = "cancelled" => client[t].gone, UNCHANGED <<src, client, billed, episodes>>
    PROVE  Keeps(t)
<1>1. TypedTurn(t) /\ TurnInv(t)
  BY Typed DEF Inv
<1>2. Framed(t)
  BY DEF Captured, Framed, Inv, TypeOK
<1>g. turn[t].pc = "capture" /\ (how = "cancelled" => client[t].gone)
  BY DEF Captured, TypeOK
<1>3. /\ turn'[t] = [turn[t] EXCEPT !.pc = "finish", !.captured = how]
      /\ src'[t] = src[t] /\ client'[t] = client[t]
      /\ billed'[t] = billed[t] /\ episodes'[t] = episodes[t]
  BY DEF Captured, Inv, TypeOK
<1>4. TypedTurn(t)'
  BY <1>1, <1>g, <1>3, LimitAssumption
  DEF TypedTurn, Handler, Client, Episode, TurnInv, NothingYet, Calling, AttemptLeft,
      Buffered, ReadBound, Whole, Shown, Stored, Outcome
<1>5. TurnInv(t)'
  BY <1>1, <1>g, <1>3, LimitAssumption
  DEF TypedTurn, Handler, Client, Episode, TurnInv, NothingYet, Calling, AttemptLeft,
      Buffered, ReadBound, Whole, Shown, Stored, Outcome
<1>6. QED
  BY <1>2, <1>4, <1>5 DEF Keeps

LEMMA CaptureFailsKeeps ==
    ASSUME Inv, NEW t \in Turns, CaptureFails(t)
    PROVE  Keeps(t)
<1>1. CASE StoreEpisode(t) /\ ~client[t].gone
  BY <1>1, FailedStoreKeeps DEF CaptureFails
<1>2. CASE UNCHANGED episodes
  BY <1>2, NoStoreKeeps DEF CaptureFails
<1>3. QED
  BY <1>1, <1>2 DEF CaptureFails

LEMMA FinishKeeps ==
    ASSUME Inv, NEW t \in Turns, Finish(t)
    PROVE  Keeps(t)
<1>1. TypedTurn(t) /\ TurnInv(t)
  BY Typed DEF Inv
<1>2. Framed(t)
  BY DEF Finish, Framed, Inv, TypeOK
<1>3. turn'[t] = [turn[t] EXCEPT !.pc = "over"] /\ UNCHANGED <<src, billed, episodes>>
  BY DEF Finish, Inv, TypeOK
<1>4. client'[t] = IF client[t].gone THEN client[t]
                   ELSE [client[t] EXCEPT !.told = "done", !.got = turn[t].buf]
  BY DEF Finish, Inv, TypeOK
<1>5. turn[t].pc = "finish"
  BY DEF Finish
<1>6. TypedTurn(t)'
  BY <1>1, <1>3, <1>4 DEF TypedTurn, Handler, Client, Calling
<1>7. TurnInv(t)'
  BY <1>1, <1>3, <1>4, <1>5
  DEF TypedTurn, Handler, Client, Episode, TurnInv, NothingYet, Calling, AttemptLeft,
      Buffered, ReadBound, Whole, Shown, Stored, Outcome
<1>8. QED
  BY <1>2, <1>6, <1>7 DEF Keeps

----------------------------------------------------------------------------
LEMMA InvInit == Init => Inv
BY LimitAssumption
DEF Init, Inv, TypeOK, Handler, Source, Client, Episode, TurnInv, NothingYet, Calling,
    AttemptLeft, Buffered, ReadBound, Whole, Shown, Stored, Outcome

LEMMA InvNext == Inv /\ [Next]_vars => Inv'
<1> SUFFICES ASSUME Inv, [Next]_vars PROVE Inv'
  OBVIOUS
<1>1. CASE UNCHANGED vars
  BY <1>1
  DEF vars, Inv, TypeOK, TurnInv, NothingYet, Calling, AttemptLeft, Buffered,
      ReadBound, Whole, Shown, Stored, Outcome
<1>2. ASSUME NEW t \in Turns,
             \/ Request(t) \/ Reject(t) \/ ClientLeaves(t) \/ Feedback(t)
             \/ CallStep(t) \/ ReadStep(t) \/ SendAborted(t) \/ Deliver(t) \/ HandlerStep(t)
      PROVE  Keeps(t)
  <2>1. CASE Reject(t)
    BY <2>1, AnswerKeeps DEF Reject, Calling
  <2>2. CASE CallStep(t)
    <3>1. CASE NotSent(t)
      BY <3>1, RetryOrErrorKeeps DEF NotSent
    <3>2. CASE Refused(t)
      BY <3>2, RetryOrErrorKeeps, AnswerKeeps DEF Refused, Calling
    <3>3. CASE BackoffCancelled(t)
      BY <3>3, AnswerKeeps DEF BackoffCancelled, Calling
    <3>4. QED
      BY <2>2, <3>1, <3>2, <3>3, SentThenFailedKeeps, BackoffKeeps, StreamOpensKeeps, WholeAnswerKeeps
      DEF CallStep
  <2>3. CASE ReadStep(t)
    BY <2>3, ReadDeltaKeeps, ReadStopKeeps, ReadErrorKeeps, ReadEOFKeeps DEF ReadStep
  <2>4. CASE HandlerStep(t)
    <3>1. CASE CaptureCancelled(t)
      BY <3>1, NoStoreKeeps DEF CaptureCancelled
    <3>2. CASE SkipCapture(t)
      BY <3>2, NoStoreKeeps DEF SkipCapture
    <3>3. QED
      BY <2>4, <3>1, <3>2, DrainClosedKeeps, DrainCancelledKeeps, CaptureStoresKeeps, CaptureFailsKeeps, FinishKeeps
      DEF HandlerStep
  <2>5. QED
    BY <1>2, <2>1, <2>2, <2>3, <2>4, RequestKeeps, ClientLeavesKeeps, FeedbackKeeps, SendAbortedKeeps, DeliverKeeps
<1>3. QED
  BY <1>1, <1>2, KeepsInv DEF Next

\* The stages of a turn: the inductive invariant holds of every behaviour.
THEOREM TurnCorrect == Spec => []Inv
BY InvInit, InvNext, PTL DEF Spec

\* sendWithRetry, StreamChatCompletion: every variable keeps its type; no attempt beyond the last, no
\* goroutine without an open stream.
THEOREM TurnTyped == Spec => []TypeOK
<1>1. Inv => TypeOK
  BY DEF Inv
<1>2. QED
  BY <1>1, TurnCorrect, PTL

\* sendWithRetry, connectWithRetry: whatever fails and is retried, a turn is billed at most one answer.
THEOREM OneBilledGeneration == Spec => []OneGeneration
<1>1. Inv => OneGeneration
  BY DEF OneGeneration, Inv, TurnInv
<1>2. QED
  BY <1>1, TurnCorrect, PTL

\* handleStream, handleNonStream: the episode holds all the client was shown, and only
\* that if the client stayed.
THEOREM EpisodeIsWhatWasSent == Spec => []EpisodeHoldsWhatWasShown
<1>1. Inv => EpisodeHoldsWhatWasShown
  BY DEF EpisodeHoldsWhatWasShown, Inv, TurnInv, Stored, Shown, TypeOK, Client, Handler, Episode
<1>2. QED
  BY <1>1, TurnCorrect, PTL

\* handleStream: an answer that was cut short is flagged, unless the vendor ended
\* its stream without a stop.
THEOREM CutAnswersAreFlagged == Spec => []TruncatedIsFlagged
<1>1. Inv => TruncatedIsFlagged
  BY DEF TruncatedIsFlagged, Inv, TurnInv, Stored
<1>2. QED
  BY <1>1, TurnCorrect, PTL

\* handleStream, handleNonStream: a client is told the turn is done only after capture was
\* attempted, and finds its episode unless it opted out or the attempt failed.
THEOREM CaptureBeforeDone == Spec => []DoneAfterCapture
<1>1. Inv => DoneAfterCapture
  BY DEF DoneAfterCapture, Inv, TurnInv
<1>2. QED
  BY <1>1, TurnCorrect, PTL

\* handleChatCompletionsScoped: a turn answered with an error has shown and stored nothing.
THEOREM ErrorsAreClean == Spec => []ErrorLeavesNothing
<1>1. Inv => ErrorLeavesNothing
  BY DEF ErrorLeavesNothing, Inv, TurnInv, Stored
<1>2. QED
  BY <1>1, TurnCorrect, PTL

----------------------------------------------------------------------------
(* ChatTurn implements TurnContract.  The refinement rests on the inductive *)
(* invariant and on one more fact, that a turn's one attempt to capture     *)
(* comes first of what could be an outcome of it.                           *)

\* Before its capture a turn has no outcome of it.
Untried(t) == turn[t].pc \notin {"finish", "over"} => turn[t].captured = "no"

RInv == Inv /\ \A t \in Turns : Untried(t)

Step(t) ==
    \/ Request(t) \/ Reject(t) \/ ClientLeaves(t) \/ Feedback(t)
    \/ CallStep(t) \/ ReadStep(t) \/ SendAborted(t) \/ Deliver(t) \/ HandlerStep(t)

LEMMA StepTried ==
    ASSUME Inv, NEW t \in Turns, Untried(t), Step(t)
    PROVE  Untried(t)'
<1>0. turn \in [Turns -> Handler]
  BY DEF Inv, TypeOK
<1>1. CASE Request(t)
  BY <1>0, <1>1 DEF Request, Untried, Handler
<1>2. CASE Reject(t)
  BY <1>0, <1>2 DEF Reject, Answer, Untried, Handler
<1>3. CASE ClientLeaves(t) \/ Feedback(t) \/ ReadStep(t) \/ SendAborted(t)
  <2>1. turn' = turn
    BY <1>3 DEF ClientLeaves, Feedback, ReadStep, ReadDelta, ReadStop, ReadError, ReadEOF,
                SendAborted
  <2>2. QED
    BY <2>1 DEF Untried
<1>4. CASE CallStep(t)
  <2>1. turn[t].captured = "no"
    BY <1>4
    DEF CallStep, NotSent, SentThenFailed, Refused, Backoff, BackoffCancelled, StreamOpens,
        WholeAnswer, Untried
  <2>2. turn'[t].captured = turn[t].captured
    BY <1>0, <1>4
    DEF CallStep, NotSent, SentThenFailed, Refused, RetryOrError, Answer, Backoff,
        BackoffCancelled, StreamOpens, WholeAnswer, Handler
  <2>3. QED
    BY <2>1, <2>2 DEF Untried
<1>5. CASE Deliver(t)
  <2>1. turn[t].captured = "no"
    BY <1>5 DEF Deliver, Untried
  <2>2. turn'[t].captured = turn[t].captured
    BY <1>0, <1>5 DEF Deliver, Handler
  <2>3. QED
    BY <2>1, <2>2 DEF Untried
<1>6. CASE DrainClosed(t) \/ DrainCancelled(t)
  BY <1>0, <1>6 DEF DrainClosed, DrainCancelled, Untried, Handler
<1>7. CASE CaptureStores(t) \/ CaptureFails(t) \/ CaptureCancelled(t) \/ SkipCapture(t)
  <2>1. turn'[t].pc = "finish"
    BY <1>0, <1>7
    DEF CaptureStores, CaptureFails, CaptureCancelled, SkipCapture, Captured, Handler
  <2>2. QED
    BY <2>1 DEF Untried
<1>8. CASE Finish(t)
  BY <1>0, <1>8 DEF Finish, Untried, Handler
<1>9. QED
  BY <1>1, <1>2, <1>3, <1>4, <1>5, <1>6, <1>7, <1>8 DEF Step, HandlerStep

LEMMA StepKeeps ==
    ASSUME Inv, NEW t \in Turns, Step(t)
    PROVE  Keeps(t)
<1>1. CASE Reject(t)
  BY <1>1, AnswerKeeps DEF Reject, Calling
<1>2. CASE CallStep(t)
  <2>1. CASE NotSent(t)
    BY <2>1, RetryOrErrorKeeps DEF NotSent
  <2>2. CASE Refused(t)
    BY <2>2, RetryOrErrorKeeps, AnswerKeeps DEF Refused, Calling
  <2>3. CASE BackoffCancelled(t)
    BY <2>3, AnswerKeeps DEF BackoffCancelled, Calling
  <2>4. QED
    BY <1>2, <2>1, <2>2, <2>3, SentThenFailedKeeps, BackoffKeeps, StreamOpensKeeps, WholeAnswerKeeps
    DEF CallStep
<1>3. CASE ReadStep(t)
  BY <1>3, ReadDeltaKeeps, ReadStopKeeps, ReadErrorKeeps, ReadEOFKeeps DEF ReadStep
<1>4. CASE HandlerStep(t)
  <2>1. CASE CaptureCancelled(t)
    BY <2>1, NoStoreKeeps DEF CaptureCancelled
  <2>2. CASE SkipCapture(t)
    BY <2>2, NoStoreKeeps DEF SkipCapture
  <2>3. QED
    BY <1>4, <2>1, <2>2, DrainClosedKeeps, DrainCancelledKeeps, CaptureStoresKeeps, CaptureFailsKeeps, FinishKeeps
    DEF HandlerStep
<1>5. QED
  BY <1>1, <1>2, <1>3, <1>4, RequestKeeps, ClientLeavesKeeps, FeedbackKeeps, SendAbortedKeeps, DeliverKeeps
  DEF Step

LEMMA RInvInit == Init => RInv
BY InvInit DEF Init, RInv, Untried

LEMMA RInvNext == RInv /\ [Next]_vars => RInv'
<1> SUFFICES ASSUME RInv, [Next]_vars PROVE RInv'
  OBVIOUS
<1>1. Inv'
  BY InvNext DEF RInv
<1>2. ASSUME NEW u \in Turns PROVE Untried(u)'
  <2>1. CASE UNCHANGED vars
    BY <2>1 DEF vars, RInv, Untried
  <2>2. ASSUME NEW t \in Turns, Step(t) PROVE Untried(u)'
    <3>1. CASE u = t
      BY <2>2, <3>1, StepTried DEF RInv
    <3>2. CASE u # t
      BY <2>2, <3>2, StepKeeps DEF RInv, Inv, TypeOK, Keeps, Framed, Untried
    <3>3. QED
      BY <3>1, <3>2
  <2>3. QED
    BY <2>1, <2>2 DEF Next, Step
<1>3. QED
  BY <1>1, <1>2 DEF RInv

----------------------------------------------------------------------------
(* The state the contract speaks of, before and after a step of turn t.    *)

Seen(u) == [got |-> client[u].got, told |-> client[u].told]
Lost(u) == turn[u].captured \in {"failed", "skipped"}

\* Nothing the contract speaks of changes for turn t.
Same(t) ==
    /\ client'[t].got = client[t].got /\ client'[t].told = client[t].told
    /\ episodes'[t] = episodes[t] /\ Lost(t)' = Lost(t)

LEMMA OthersSame ==
    ASSUME Inv, NEW t \in Turns, Framed(t)
    PROVE  /\ \A u \in Turns \ {t} : Seen(u)' = Seen(u) /\ Lost(u)' = Lost(u)
           /\ episodes' = [episodes EXCEPT ![t] = episodes'[t]]
BY DEF Framed, Inv, TypeOK, Seen, Lost

LEMMA Stutters ==
    ASSUME Inv, NEW t \in Turns, Framed(t), Same(t)
    PROVE  UNCHANGED Contract!vars
<1>1. \A u \in Turns : Seen(u)' = Seen(u) /\ Lost(u)' = Lost(u)
  BY OthersSame DEF Same, Seen, Lost
<1>2. episodes' = episodes
  BY OthersSame DEF Same, Inv, TypeOK
<1>3. [u \in Turns |-> Seen(u)]' = [u \in Turns |-> Seen(u)]
  BY <1>1
<1>4. [u \in Turns |-> Lost(u)]' = [u \in Turns |-> Lost(u)]
  BY <1>1
<1>5. QED
  BY <1>2, <1>3, <1>4 DEF Contract!vars, Seen, Lost

----------------------------------------------------------------------------
(* What the steps of a turn do to it, in the contract's terms.             *)

EndsBadly(t) ==
    /\ client[t].told = "nothing" /\ ~episodes[t].row /\ client[t].got = 0
    /\ client'[t].told = "error" /\ client'[t].got = client[t].got
    /\ episodes'[t] = episodes[t] /\ turn'[t].captured = turn[t].captured

Shows(t) ==
    /\ client[t].told = "nothing" /\ ~episodes[t].row
    /\ client'[t].told = client[t].told /\ client'[t].got = client[t].got + 1
    /\ episodes'[t] = episodes[t] /\ turn'[t].captured = turn[t].captured

LEMMA AnswerMaps ==
    ASSUME Inv, NEW t \in Turns, Calling(t), Answer(t, "error"), UNCHANGED episodes
    PROVE  EndsBadly(t) \/ Same(t)
<1>1. TypedTurn(t) /\ TurnInv(t)
  BY Typed DEF Inv
<1>2. /\ turn'[t].captured = turn[t].captured
      /\ client'[t] = [client[t] EXCEPT !.told = IF client[t].gone THEN @ ELSE "error"]
  BY DEF Answer, Tell, Inv, TypeOK, Handler
<1>3. client[t].told = "nothing" /\ ~episodes[t].row /\ client[t].got = 0
  BY <1>1 DEF TurnInv, NothingYet, Stored, Calling
<1>4. QED
  BY <1>1, <1>2, <1>3 DEF EndsBadly, Same, Lost, TypedTurn, Client

LEMMA RetryMaps ==
    ASSUME Inv, NEW t \in Turns, turn[t].pc = "connect", RetryOrError(t), UNCHANGED episodes
    PROVE  EndsBadly(t) \/ Same(t)
<1>1. CASE turn[t].attempt < MaxRetries
  BY <1>1 DEF RetryOrError, Same, Lost, Inv, TypeOK, Handler
<1>2. CASE ~(turn[t].attempt < MaxRetries)
  BY <1>2, AnswerMaps DEF RetryOrError, Calling
<1>3. QED
  BY <1>1, <1>2

LEMMA CallMaps ==
    ASSUME Inv, NEW t \in Turns, CallStep(t)
    PROVE  EndsBadly(t) \/ Same(t)
<1>1. CASE NotSent(t)
  BY <1>1, RetryMaps DEF NotSent
<1>2. CASE Refused(t)
  BY <1>2, RetryMaps, AnswerMaps DEF Refused, Calling
<1>3. CASE SentThenFailed(t)
  BY <1>3, AnswerMaps DEF SentThenFailed, Calling
<1>4. CASE BackoffCancelled(t)
  BY <1>4, AnswerMaps DEF BackoffCancelled, Calling
<1>5. CASE Backoff(t)
  BY <1>5 DEF Backoff, Same, Lost, Inv, TypeOK, Handler
<1>6. CASE StreamOpens(t)
  BY <1>6 DEF StreamOpens, Same, Lost, Inv, TypeOK, Handler
<1>7. CASE WholeAnswer(t)
  <2>1. CASE Answer(t, "error")
    BY <1>7, <2>1, AnswerMaps DEF WholeAnswer, Calling
  <2>2. CASE ~Answer(t, "error")
    <3>1. UNCHANGED <<client, episodes>> /\ turn'[t].captured = turn[t].captured
      BY <1>7, <2>2 DEF WholeAnswer, Inv, TypeOK, Handler
    <3>2. QED
      BY <3>1 DEF Same, Lost
  <2>3. QED
    BY <2>1, <2>2
<1>8. QED
  BY <1>1, <1>2, <1>3, <1>4, <1>5, <1>6, <1>7 DEF CallStep

LEMMA DeliverMaps ==
    ASSUME Inv, NEW t \in Turns, Deliver(t)
    PROVE  Shows(t) \/ Same(t)
<1>1. TypedTurn(t) /\ TurnInv(t)
  BY Typed DEF Inv
<1>2. UNCHANGED episodes /\ turn'[t].captured = turn[t].captured
  BY DEF Deliver, Inv, TypeOK, Handler
<1>3. client[t].told = "nothing" /\ ~episodes[t].row
  BY <1>1 DEF Deliver, TurnInv, Stored, Outcome
<1>4. CASE src[t].item = "delta"
  <2>1. client'[t] = [client[t] EXCEPT !.got = IF client[t].gone THEN @ ELSE @ + 1]
    BY <1>4 DEF Deliver, Inv, TypeOK
  <2>2. QED
    BY <1>1, <1>2, <1>3, <2>1 DEF Shows, Same, Lost, TypedTurn, Client
<1>5. CASE src[t].item # "delta"
  BY <1>2, <1>5 DEF Deliver, Same, Lost
<1>6. QED
  BY <1>4, <1>5

\* The attempt to remember, and whether it is reported lost.
Attempts(t) ==
    /\ client[t].told = "nothing" /\ ~episodes[t].row /\ ~Lost(t)
    /\ client'[t] = client[t]
    /\ \/ /\ client[t].got > 0 => turn[t].buf = client[t].got
          /\ episodes'[t] = [episodes[t] EXCEPT !.row = TRUE, !.out = turn[t].buf,
                                                !.truncated = turn[t].truncated]
       \/ episodes'[t] = episodes[t] /\ turn'[t].captured \in {"failed", "skipped"}

EndsWell(t) ==
    /\ client[t].told = "nothing"
    /\ episodes[t].row \/ Lost(t)
    /\ turn[t].buf >= client[t].got
    /\ episodes[t].row => turn[t].buf = episodes[t].out
    /\ client'[t].got = turn[t].buf /\ client'[t].told = "done"
    /\ episodes'[t] = episodes[t] /\ turn'[t].captured = turn[t].captured

LEMMA CaptureMaps ==
    ASSUME Inv, NEW t \in Turns, Untried(t),
           CaptureStores(t) \/ CaptureFails(t) \/ CaptureCancelled(t) \/ SkipCapture(t)
    PROVE  Attempts(t) \/ Same(t)
<1>1. TypedTurn(t) /\ TurnInv(t)
  BY Typed DEF Inv
<1>2. turn[t].pc = "capture" /\ UNCHANGED client
  BY DEF CaptureStores, CaptureFails, CaptureCancelled, SkipCapture
<1>3. client[t].told = "nothing" /\ ~episodes[t].row /\ turn[t].captured = "no"
  BY <1>1, <1>2 DEF TurnInv, Stored, Outcome, Untried
<1>4. ~Lost(t)
  BY <1>3 DEF Lost
<1>5. CASE CaptureStores(t) \/ (CaptureFails(t) /\ StoreEpisode(t) /\ ~client[t].gone)
  <2>1. ~client[t].gone /\ StoreEpisode(t)
    BY <1>5 DEF CaptureStores
  <2>2. client[t].got > 0 => turn[t].buf = client[t].got
    BY <1>1, <1>2, <2>1 DEF TurnInv, Shown, TypedTurn, Handler, Client
  <2>3. episodes'[t] = [episodes[t] EXCEPT !.row = TRUE, !.out = turn[t].buf,
                                           !.truncated = turn[t].truncated]
    BY <2>1 DEF StoreEpisode, Inv, TypeOK
  <2>4. QED
    BY <1>2, <1>3, <1>4, <2>2, <2>3 DEF Attempts
<1>6. CASE SkipCapture(t) \/ (CaptureFails(t) /\ UNCHANGED episodes)
  <2>1. turn'[t].captured \in {"failed", "skipped"} /\ UNCHANGED episodes
    BY <1>6 DEF SkipCapture, CaptureFails, Captured, Inv, TypeOK, Handler
  <2>2. QED
    BY <1>2, <1>3, <1>4, <2>1 DEF Attempts
<1>7. CASE CaptureCancelled(t)
  <2>1. turn'[t].captured = "cancelled" /\ UNCHANGED episodes
    BY <1>7 DEF CaptureCancelled, Captured, Inv, TypeOK, Handler
  <2>2. QED
    BY <1>2, <1>3, <2>1 DEF Same, Lost
<1>8. QED
  BY <1>5, <1>6, <1>7 DEF CaptureFails

LEMMA FinishMaps ==
    ASSUME Inv, NEW t \in Turns, Finish(t)
    PROVE  EndsWell(t) \/ Same(t)
<1>1. TypedTurn(t) /\ TurnInv(t)
  BY Typed DEF Inv
<1>2. UNCHANGED episodes /\ turn[t].pc = "finish" /\ turn'[t].captured = turn[t].captured
  BY DEF Finish, Inv, TypeOK, Handler
<1>3. CASE client[t].gone
  BY <1>2, <1>3 DEF Finish, Same, Lost
<1>4. CASE ~client[t].gone
  <2>1. client'[t].got = turn[t].buf /\ client'[t].told = "done"
    BY <1>4 DEF Finish, Inv, TypeOK, Client
  <2>2. client[t].told = "nothing" /\ (episodes[t].row \/ Lost(t))
    BY <1>1, <1>2, <1>4 DEF TurnInv, Outcome, TypedTurn, Handler, Lost
  <2>3. turn[t].buf >= client[t].got /\ (episodes[t].row => turn[t].buf = episodes[t].out)
    BY <1>1 DEF TurnInv, Shown, Stored, TypedTurn, Handler, Client
  <2>4. QED
    BY <1>2, <2>1, <2>2, <2>3 DEF EndsWell
<1>5. QED
  BY <1>3, <1>4

----------------------------------------------------------------------------
(* The contract's actions, from those effects.                             *)

LEMMA MapEndBadly ==
    ASSUME Inv, NEW t \in Turns, Framed(t), EndsBadly(t)
    PROVE  Contract!EndBadly(t)
<1>1. /\ \A u \in Turns \ {t} : Seen(u)' = Seen(u) /\ Lost(u)' = Lost(u)
      /\ episodes' = episodes
  BY OthersSame DEF EndsBadly, Inv, TypeOK
<1>2. Lost(t)' = Lost(t) /\ Seen(t)' = [Seen(t) EXCEPT !.told = "error"]
  BY DEF EndsBadly, Lost, Seen
<1>3. [u \in Turns |-> Lost(u)]' = [u \in Turns |-> Lost(u)]
  BY <1>1, <1>2
<1>4. [u \in Turns |-> Seen(u)]' = [[u \in Turns |-> Seen(u)] EXCEPT ![t].told = "error"]
  BY <1>1, <1>2
<1>5. QED
  BY <1>1, <1>3, <1>4 DEF EndsBadly, Contract!EndBadly, Contract!Open, Seen, Lost

LEMMA MapShow ==
    ASSUME Inv, NEW t \in Turns, Framed(t), Shows(t)
    PROVE  Contract!Show(t)
<1>1. /\ \A u \in Turns \ {t} : Seen(u)' = Seen(u) /\ Lost(u)' = Lost(u)
      /\ episodes' = episodes
  BY OthersSame DEF Shows, Inv, TypeOK
<1>2. Lost(t)' = Lost(t) /\ Seen(t)' = [Seen(t) EXCEPT !.got = @ + 1]
  BY DEF Shows, Lost, Seen
<1>3. [u \in Turns |-> Lost(u)]' = [u \in Turns |-> Lost(u)]
  BY <1>1, <1>2
<1>4. [u \in Turns |-> Seen(u)]' = [[u \in Turns |-> Seen(u)] EXCEPT ![t].got = @ + 1]
  BY <1>1, <1>2
<1>5. QED
  BY <1>1, <1>3, <1>4 DEF Shows, Contract!Show, Contract!Open, Seen, Lost

LEMMA MapAttempt ==
    ASSUME Inv, NEW t \in Turns, Framed(t), Attempts(t)
    PROVE  Contract!Attempt(t)
<1>0. TypedTurn(t)
  BY Typed DEF Inv
<1>1. \A u \in Turns \ {t} : Seen(u)' = Seen(u) /\ Lost(u)' = Lost(u)
  BY OthersSame
<1>2. Seen(t)' = Seen(t)
  BY DEF Attempts, Seen
<1>3. [u \in Turns |-> Seen(u)]' = [u \in Turns |-> Seen(u)]
  BY <1>1, <1>2
<1>4. Lost(t)' \in BOOLEAN
  BY DEF Lost
<1>5. [u \in Turns |-> Lost(u)]' = [[u \in Turns |-> Lost(u)] EXCEPT ![t] = Lost(t)']
  BY <1>1
<1>6. Contract!Open(t) /\ ~[u \in Turns |-> Lost(u)][t]
  BY DEF Attempts, Contract!Open, Seen
<1>7. CASE episodes'[t] = episodes[t] /\ turn'[t].captured \in {"failed", "skipped"}
  <2>1. UNCHANGED episodes
    BY <1>7, OthersSame DEF Inv, TypeOK
  <2>2. Lost(t)' = TRUE
    BY <1>7 DEF Lost
  <2>3. QED
    BY <1>3, <1>5, <1>6, <2>1, <2>2 DEF Contract!Attempt, Seen, Lost
<1>8. CASE /\ client[t].got > 0 => turn[t].buf = client[t].got
           /\ episodes'[t] = [episodes[t] EXCEPT !.row = TRUE, !.out = turn[t].buf,
                                                 !.truncated = turn[t].truncated]
  <2>1. episodes' = [episodes EXCEPT ![t].row = TRUE, ![t].out = turn[t].buf,
                                     ![t].truncated = turn[t].truncated]
    <3> DEFINE E == [episodes EXCEPT ![t].row = TRUE, ![t].out = turn[t].buf,
                                     ![t].truncated = turn[t].truncated]
    <3>1. episodes \in [Turns -> Episode]
      BY DEF Inv, TypeOK
    <3>2. episodes' = [episodes EXCEPT ![t] = episodes'[t]]
      BY OthersSame
    <3>3. E[t] = episodes'[t]
      BY <1>8, <3>1
    <3>4. \A u \in Turns \ {t} : E[u] = episodes[u] /\ episodes'[u] = episodes[u]
      BY <3>1, <3>2
    <3>5. E = [u \in Turns |-> E[u]] /\ episodes' = [u \in Turns |-> episodes'[u]]
      BY <3>1, <3>2
    <3>6. QED
      BY <3>3, <3>4, <3>5
  <2>2. turn[t].buf \in 0..MaxChunks /\ turn[t].truncated \in BOOLEAN
    BY <1>0 DEF TypedTurn, Handler
  <2>3. Contract!Remember(t)
    BY <1>8, <2>1, <2>2 DEF Contract!Remember
  <2>4. \E b \in BOOLEAN :
          [u \in Turns |-> Lost(u)]' = [[u \in Turns |-> Lost(u)] EXCEPT ![t] = b]
    BY <1>4, <1>5
  <2>5. QED
    BY <1>3, <1>6, <2>3, <2>4 DEF Contract!Attempt, Seen, Lost
<1>9. QED
  BY <1>7, <1>8 DEF Attempts

LEMMA MapEndWell ==
    ASSUME Inv, NEW t \in Turns, Framed(t), EndsWell(t)
    PROVE  Contract!EndWell(t)
<1>0. TypedTurn(t)
  BY Typed DEF Inv
<1>1. /\ \A u \in Turns \ {t} : Seen(u)' = Seen(u) /\ Lost(u)' = Lost(u)
      /\ episodes' = episodes
  BY OthersSame DEF EndsWell, Inv, TypeOK
<1>2. Lost(t)' = Lost(t) /\ Seen(t)' = [Seen(t) EXCEPT !.got = turn[t].buf, !.told = "done"]
  <2>1. turn'[t].captured = turn[t].captured
    BY DEF EndsWell
  <2>2. client'[t].got = turn[t].buf /\ client'[t].told = "done"
    BY DEF EndsWell
  <2>3. Seen(t)' = [got |-> turn[t].buf, told |-> "done"]
    BY <2>2 DEF Seen
  <2>4. [Seen(t) EXCEPT !.got = turn[t].buf] = [got |-> turn[t].buf, told |-> client[t].told]
    BY DEF Seen
  <2>5. [Seen(t) EXCEPT !.got = turn[t].buf, !.told = "done"] =
          [got |-> turn[t].buf, told |-> "done"]
    <3> DEFINE R == [Seen(t) EXCEPT !.got = turn[t].buf]
    <3>1. [R EXCEPT !.told = "done"] = [got |-> turn[t].buf, told |-> "done"]
      <4> HIDE DEF R
      <4>1. R = [got |-> turn[t].buf, told |-> client[t].told]
        BY <2>4 DEF R
      <4>2. QED
        BY <4>1
    <3>2. QED
      BY <3>1
  <2>6. QED
    BY <2>1, <2>3, <2>5 DEF Lost
<1>3. [u \in Turns |-> Lost(u)]' = [u \in Turns |-> Lost(u)]
  BY <1>1, <1>2
<1>4. [u \in Turns |-> Seen(u)]' =
        [[u \in Turns |-> Seen(u)] EXCEPT ![t].got = turn[t].buf, ![t].told = "done"]
  BY <1>1, <1>2
<1>5. turn[t].buf \in 0..MaxChunks
  BY <1>0 DEF TypedTurn, Handler
<1>6. \E n \in 0..MaxChunks :
        /\ n >= client[t].got
        /\ episodes[t].row => n = episodes[t].out
        /\ [u \in Turns |-> Seen(u)]' =
              [[u \in Turns |-> Seen(u)] EXCEPT ![t].got = n, ![t].told = "done"]
  BY <1>4, <1>5 DEF EndsWell
<1>7. QED
  BY <1>1, <1>3, <1>6 DEF EndsWell, Contract!EndWell, Seen, Lost

LEMMA MapRate ==
    ASSUME Inv, NEW t \in Turns, Feedback(t)
    PROVE  Contract!Rate(t)
BY DEF Feedback, Contract!Rate

----------------------------------------------------------------------------
LEMMA StepMaps ==
    ASSUME RInv, NEW t \in Turns, Step(t)
    PROVE  Contract!Next \/ UNCHANGED Contract!vars
<1>1. Inv /\ Untried(t)
  BY DEF RInv
<1>2. Framed(t)
  BY <1>1, StepKeeps DEF Keeps
<1>3. CASE Same(t)
  BY <1>1, <1>2, <1>3, Stutters
<1>4. CASE EndsBadly(t)
  BY <1>1, <1>2, <1>4, MapEndBadly DEF Contract!Next
<1>5. CASE Shows(t)
  BY <1>1, <1>2, <1>5, MapShow DEF Contract!Next
<1>6. CASE Attempts(t)
  BY <1>1, <1>2, <1>6, MapAttempt DEF Contract!Next
<1>7. CASE EndsWell(t)
  BY <1>1, <1>2, <1>7, MapEndWell DEF Contract!Next
<1>8. CASE Feedback(t)
  BY <1>1, <1>8, MapRate DEF Contract!Next
<1>9. CASE Reject(t)
  BY <1>1, <1>9, <1>3, <1>4, AnswerMaps DEF Reject, Calling
<1>10. CASE Request(t) \/ ClientLeaves(t) \/ ReadStep(t) \/ SendAborted(t)
  <2>1. ASSUME Request(t) PROVE Same(t)
    BY <1>1, <2>1 DEF Request, Same, Lost, Inv, TypeOK, Handler
  <2>2. ASSUME ClientLeaves(t) PROVE Same(t)
    BY <1>1, <2>2 DEF ClientLeaves, Same, Lost, Inv, TypeOK, Client
  <2>3. ASSUME ReadStep(t) \/ SendAborted(t) PROVE Same(t)
    <3>1. UNCHANGED <<turn, client, episodes>>
      BY <2>3 DEF ReadStep, ReadDelta, ReadStop, ReadError, ReadEOF, SendAborted
    <3>2. QED
      BY <3>1 DEF Same, Lost
  <2>4. Same(t)
    BY <1>10, <2>1, <2>2, <2>3
  <2>5. QED
    BY <1>3, <2>4
<1>11. CASE DrainClosed(t) \/ DrainCancelled(t)
  <2>1. Same(t)
    BY <1>1, <1>11 DEF DrainClosed, DrainCancelled, Same, Lost, Inv, TypeOK, Handler
  <2>2. QED
    BY <1>3, <2>1
<1>12. CASE CaptureStores(t) \/ CaptureFails(t) \/ CaptureCancelled(t) \/ SkipCapture(t)
  BY <1>1, <1>3, <1>6, <1>12, CaptureMaps
<1>13. CASE CallStep(t) \/ Deliver(t) \/ Finish(t)
  BY <1>1, <1>3, <1>4, <1>5, <1>7, <1>13, CallMaps, DeliverMaps, FinishMaps
<1>14. QED
  BY <1>8, <1>9, <1>10, <1>11, <1>12, <1>13 DEF Step, HandlerStep

\* handleStream, handleNonStream: the handler with its retries, its goroutine and
\* its capture implements the contract of a turn, for every number of turns,
\* attempts and chunks.
THEOREM TurnRefines == Spec => ImplementsContract
<1>1. Init => Contract!Init
  <2> SUFFICES ASSUME Init PROVE Contract!Init
    OBVIOUS
  <2>1. \A t \in Turns : Seen(t) = [got |-> 0, told |-> "nothing"] /\ Lost(t) = FALSE
    <3> TAKE t \in Turns
    <3>1. client[t] = [gone |-> FALSE, got |-> 0, told |-> "nothing"]
      BY DEF Init
    <3>2. turn[t].captured = "no"
      BY DEF Init
    <3>3. QED
      BY <3>1, <3>2 DEF Seen, Lost
  <2>2. [t \in Turns |-> Seen(t)] = [t \in Turns |-> [got |-> 0, told |-> "nothing"]]
    BY <2>1
  <2>3. [t \in Turns |-> Lost(t)] = [t \in Turns |-> FALSE]
    BY <2>1
  <2>4. QED
    BY <2>2, <2>3 DEF Init, Contract!Init, Seen, Lost
<1>2. RInv /\ [Next]_vars => [Contract!Next]_Contract!vars
  <2> SUFFICES ASSUME RInv, [Next]_vars
               PROVE  Contract!Next \/ UNCHANGED Contract!vars
    OBVIOUS
  <2>1. CASE UNCHANGED vars
    BY <2>1 DEF vars, Contract!vars
  <2>2. CASE Next
    BY <2>2, StepMaps DEF Next, Step
  <2>3. QED
    BY <2>1, <2>2
<1>3. QED
  BY <1>1, <1>2, RInvInit, RInvNext, PTL DEF Spec, ImplementsContract, Contract!Spec

=============================================================================
