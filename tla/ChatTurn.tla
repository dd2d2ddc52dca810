------------------------------ MODULE ChatTurn ------------------------------
(***************************************************************************)
(* One chat turn through the gateway (internal/gateway/handler.go): the    *)
(* request handler, the retry loop of the provider adapter                 *)
(* (internal/provider/retry.go), the goroutine that turns the vendor's     *)
(* event stream into chunks (openai_compat.go, anthropic.go), the client   *)
(* that may leave at any moment, and the capture of the episode.           *)
(*                                                                         *)
(* An answer is abstracted to how many deltas long it is.  The channel     *)
(* between the goroutine and the handler is unbuffered: a chunk is handed  *)
(* over in one joint step.  Retrieval and context injection, which only    *)
(* change the text that is forwarded and never fail a turn, are part of    *)
(* Request.                                                                *)
(***************************************************************************)
EXTENDS Integers

CONSTANTS
    Turns,
    MaxRetries,     \* maxRetries: attempts in total
    MaxChunks       \* bound on the length of an answer

ASSUME LimitAssumption == MaxRetries \in Nat \ {0} /\ MaxChunks \in Nat

VARIABLES
    turn,       \* the handler of each turn
    src,        \* the goroutine that reads the vendor's stream
    client,     \* what the client has seen, and whether it is still there
    billed,     \* how often the vendor has generated an answer
    episodes    \* the episode stored for the turn, and its feedback

vars == <<turn, src, client, billed, episodes>>

----------------------------------------------------------------------------
(* Types.                                                                  *)

Handler ==
    [pc : {"new", "connect", "wait", "drain", "capture", "finish", "over"},
     stream : BOOLEAN, skip : BOOLEAN,          \* X-Hupi-Capture: off
     attempt : 1..MaxRetries, buf : 0..MaxChunks, truncated : BOOLEAN,
     captured : {"no", "ok", "failed", "cancelled", "skipped"}]

Source ==
    [pc : {"none", "read", "send", "closed"}, item : {"delta", "done", "err"},
     full : 0..MaxChunks,       \* the length of the vendor's answer
     read : 0..MaxChunks,
     cut : BOOLEAN]             \* did the stream end with neither stop nor error?

Client ==
    [gone : BOOLEAN, got : 0..MaxChunks, told : {"nothing", "error", "done"}]

Episode ==
    [row : BOOLEAN, out : 0..MaxChunks, truncated : BOOLEAN,
     rated : {"no", "refused", "stored"}]

\* Every variable stays in its type; a goroutine exists only for a streamed
\* turn that is past its connect.
TypeOK ==
    /\ turn \in [Turns -> Handler]
    /\ src \in [Turns -> Source]
    /\ client \in [Turns -> Client]
    /\ billed \in [Turns -> 0..MaxRetries]
    /\ episodes \in [Turns -> Episode]
    /\ \A t \in Turns :
          src[t].pc # "none" => turn[t].stream /\ turn[t].pc \notin {"new", "connect", "wait"}

Init ==
    /\ turn = [t \in Turns |->
                 [pc |-> "new", stream |-> FALSE, skip |-> FALSE, attempt |-> 1,
                  buf |-> 0, truncated |-> FALSE, captured |-> "no"]]
    /\ src = [t \in Turns |->
                 [pc |-> "none", item |-> "delta", full |-> 0, read |-> 0, cut |-> FALSE]]
    /\ client = [t \in Turns |-> [gone |-> FALSE, got |-> 0, told |-> "nothing"]]
    /\ billed = [t \in Turns |-> 0]
    /\ episodes = [t \in Turns |-> [row |-> FALSE, out |-> 0, truncated |-> FALSE,
                                    rated |-> "no"]]

----------------------------------------------------------------------------
(* The client and the request.                                             *)

\* The client disconnects: net/http cancels the request's context.
ClientLeaves(t) ==
    /\ turn[t].pc \notin {"new", "over"}
    /\ ~client[t].gone
    /\ client' = [client EXCEPT ![t].gone = TRUE]
    /\ UNCHANGED <<turn, src, billed, episodes>>

\* The request's context: net/http also cancels it when the handler returns.
CtxDone(t) == client[t].gone \/ turn[t].pc = "over"

Request(t) ==
    /\ turn[t].pc = "new"
    /\ \E stream, skip \in BOOLEAN :
          turn' = [turn EXCEPT ![t].pc = "connect", ![t].stream = stream, ![t].skip = skip]
    /\ UNCHANGED <<src, client, billed, episodes>>

\* What http.Error and the end of a turn show the client.
Tell(t, what) ==
    client' = [client EXCEPT ![t].told = IF client[t].gone THEN @ ELSE what]

Answer(t, what) ==
    /\ turn' = [turn EXCEPT ![t].pc = "over"]
    /\ Tell(t, what)

\* A body that is too large or malformed, no messages, an unknown role, a bad
\* attachment, no identity.
Reject(t) ==
    /\ turn[t].pc = "new"
    /\ Answer(t, "error")
    /\ UNCHANGED <<src, billed, episodes>>

----------------------------------------------------------------------------
(* sendWithRetry and connectWithRetry for a chat call (not idempotent).    *)

\* Variant: one attempt too many.
RetryOrError_offByOne(t) ==
    IF turn[t].attempt <= MaxRetries
    THEN turn' = [turn EXCEPT ![t].pc = "wait"] /\ UNCHANGED client
    ELSE Answer(t, "error")

\* After a failed attempt: the backoff, or the error of the last attempt.
RetryOrError(t) ==
    IF turn[t].attempt < MaxRetries
    THEN turn' = [turn EXCEPT ![t].pc = "wait"] /\ UNCHANGED client
    ELSE Answer(t, "error")

\* client.Do fails before the request was fully written.
NotSent(t) ==
    /\ turn[t].pc = "connect"
    /\ RetryOrError(t)
    /\ UNCHANGED <<src, billed, episodes>>

\* Variant: every network error is retried.
SentThenFailed_retries(t) ==
    /\ turn[t].pc = "connect"
    /\ \E n \in {0, 1} : billed' = [billed EXCEPT ![t] = @ + n]
    /\ RetryOrError(t)
    /\ UNCHANGED <<src, episodes>>

\* client.Do fails after it: the vendor may have generated the answer.
SentThenFailed(t) ==
    /\ turn[t].pc = "connect"
    /\ \E n \in {0, 1} : billed' = [billed EXCEPT ![t] = @ + n]
    /\ Answer(t, "error")
    /\ UNCHANGED <<src, episodes>>

\* retryableStatus: 429 and 5xx are retried; another error status, or the last
\* attempt's, is the handler's 502.
Refused(t) ==
    /\ turn[t].pc = "connect"
    /\ RetryOrError(t) \/ Answer(t, "error")
    /\ UNCHANGED <<src, billed, episodes>>

\* The timer of the backoff fires, possibly although the context is done too.
Backoff(t) ==
    /\ turn[t].pc = "wait"
    /\ turn' = [turn EXCEPT ![t].pc = "connect", ![t].attempt = @ + 1]
    /\ UNCHANGED <<src, client, billed, episodes>>

BackoffCancelled(t) ==
    /\ turn[t].pc = "wait"
    /\ client[t].gone
    /\ Answer(t, "error")
    /\ UNCHANGED <<src, billed, episodes>>

\* A response, streamed: its body is left to a goroutine.
StreamOpens(t) ==
    /\ turn[t].pc = "connect"
    /\ turn[t].stream
    /\ billed' = [billed EXCEPT ![t] = @ + 1]
    /\ turn' = [turn EXCEPT ![t].pc = "drain"]
    /\ \E n \in 0..MaxChunks :
          src' = [src EXCEPT ![t].pc = "read", ![t].full = n]
    /\ UNCHANGED <<client, episodes>>

\* A response, not streamed: its whole body is read, or cannot be.
WholeAnswer(t) ==
    /\ turn[t].pc = "connect"
    /\ ~turn[t].stream
    /\ billed' = [billed EXCEPT ![t] = @ + 1]
    /\ \/ /\ \E n \in 0..MaxChunks :
                /\ src' = [src EXCEPT ![t].full = n]
                /\ turn' = [turn EXCEPT ![t].pc = "capture", ![t].buf = n]
          /\ UNCHANGED client
       \/ Answer(t, "error") /\ UNCHANGED src
    /\ UNCHANGED episodes

----------------------------------------------------------------------------
(* The goroutine of StreamChatCompletion.                                  *)

Read(t, item) ==
    src' = [src EXCEPT ![t].pc = "send", ![t].item = item,
                       ![t].read = IF item = "delta" THEN @ + 1 ELSE @]

ReadDelta(t) ==
    /\ src[t].pc = "read"
    /\ src[t].read < src[t].full
    /\ Read(t, "delta")
    /\ UNCHANGED <<turn, client, billed, episodes>>

\* [DONE], or message_stop.
ReadStop(t) ==
    /\ src[t].pc = "read"
    /\ src[t].read = src[t].full
    /\ Read(t, "done")
    /\ UNCHANGED <<turn, client, billed, episodes>>

\* A line that does not decode, or an error of the scanner: a broken connection,
\* or the cancelled context.
ReadError(t) ==
    /\ src[t].pc = "read"
    /\ Read(t, "err")
    /\ UNCHANGED <<turn, client, billed, episodes>>

\* The body ends without a stop: the channel is closed with nothing sent.
ReadEOF(t) ==
    /\ src[t].pc = "read"
    /\ src' = [src EXCEPT ![t].pc = "closed", ![t].cut = TRUE]
    /\ UNCHANGED <<turn, client, billed, episodes>>

\* Variant: an unconditional send, which blocks once nobody receives.
SendAborted_never(t) ==
    /\ src[t].pc = "send"
    /\ FALSE
    /\ UNCHANGED vars

\* send's other branch: the context is done.
SendAborted(t) ==
    /\ src[t].pc = "send"
    /\ CtxDone(t)
    /\ src' = [src EXCEPT ![t].pc = "closed"]
    /\ UNCHANGED <<turn, client, billed, episodes>>

----------------------------------------------------------------------------
(* handleStream's drain loop.                                              *)

\* Variant: an error chunk ends the stream like a stop.
Deliver_errorAsStop(t) ==
    /\ src[t].pc = "send"
    /\ turn[t].pc = "drain"
    /\ IF src[t].item = "delta"
       THEN /\ turn' = [turn EXCEPT ![t].buf = @ + 1]
            /\ client' = [client EXCEPT ![t].got = IF client[t].gone THEN @ ELSE @ + 1]
            /\ src' = [src EXCEPT ![t].pc = "read"]
       ELSE /\ turn' = [turn EXCEPT ![t].pc = "capture"]
            /\ src' = [src EXCEPT ![t].pc = "closed"]
            /\ UNCHANGED client
    /\ UNCHANGED <<billed, episodes>>

\* Variant: an error chunk is answered with http.Error.
Deliver_httpError(t) ==
    /\ src[t].pc = "send"
    /\ turn[t].pc = "drain"
    /\ IF src[t].item = "delta"
       THEN /\ turn' = [turn EXCEPT ![t].buf = @ + 1]
            /\ client' = [client EXCEPT ![t].got = IF client[t].gone THEN @ ELSE @ + 1]
            /\ src' = [src EXCEPT ![t].pc = "read"]
       ELSE /\ turn' = [turn EXCEPT ![t].pc = "capture",
                                    ![t].truncated = src[t].item = "err"]
            /\ src' = [src EXCEPT ![t].pc = "closed"]
            /\ Tell(t, IF src[t].item = "err" THEN "error" ELSE "nothing")
    /\ UNCHANGED <<billed, episodes>>

\* Variant: the stop is passed on to the client as it arrives.
Deliver_forwardsStop(t) ==
    /\ src[t].pc = "send"
    /\ turn[t].pc = "drain"
    /\ IF src[t].item = "delta"
       THEN /\ turn' = [turn EXCEPT ![t].buf = @ + 1]
            /\ client' = [client EXCEPT ![t].got = IF client[t].gone THEN @ ELSE @ + 1]
            /\ src' = [src EXCEPT ![t].pc = "read"]
       ELSE /\ turn' = [turn EXCEPT ![t].pc = "capture",
                                    ![t].truncated = src[t].item = "err"]
            /\ src' = [src EXCEPT ![t].pc = "closed"]
            /\ Tell(t, "done")
    /\ UNCHANGED <<billed, episodes>>

\* Variant: what was buffered before an error chunk is discarded.
Deliver_discardsOnError(t) ==
    /\ src[t].pc = "send"
    /\ turn[t].pc = "drain"
    /\ IF src[t].item = "delta"
       THEN /\ turn' = [turn EXCEPT ![t].buf = @ + 1]
            /\ client' = [client EXCEPT ![t].got = IF client[t].gone THEN @ ELSE @ + 1]
            /\ src' = [src EXCEPT ![t].pc = "read"]
       ELSE /\ turn' = [turn EXCEPT ![t].pc = "capture",
                                    ![t].truncated = src[t].item = "err",
                                    ![t].buf = IF src[t].item = "err" THEN 0 ELSE @]
            /\ src' = [src EXCEPT ![t].pc = "closed"]
            /\ UNCHANGED client
    /\ UNCHANGED <<billed, episodes>>

\* A chunk is received: a delta is buffered and written to the client, a stop
\* or an error ends the loop (and the goroutine, which sends nothing after it).
Deliver(t) ==
    /\ src[t].pc = "send"
    /\ turn[t].pc = "drain"
    /\ IF src[t].item = "delta"
       THEN /\ turn' = [turn EXCEPT ![t].buf = @ + 1]
            /\ client' = [client EXCEPT ![t].got = IF client[t].gone THEN @ ELSE @ + 1]
            /\ src' = [src EXCEPT ![t].pc = "read"]
       ELSE /\ turn' = [turn EXCEPT ![t].pc = "capture",
                                    ![t].truncated = src[t].item = "err"]
            /\ src' = [src EXCEPT ![t].pc = "closed"]
            /\ UNCHANGED client
    /\ UNCHANGED <<billed, episodes>>

\* The channel is closed.
DrainClosed(t) ==
    /\ turn[t].pc = "drain"
    /\ src[t].pc = "closed"
    /\ turn' = [turn EXCEPT ![t].pc = "capture"]
    /\ UNCHANGED <<src, client, billed, episodes>>

DrainCancelled(t) ==
    /\ turn[t].pc = "drain"
    /\ client[t].gone
    /\ turn' = [turn EXCEPT ![t].pc = "capture", ![t].truncated = TRUE]
    /\ UNCHANGED <<src, client, billed, episodes>>

----------------------------------------------------------------------------
(* Capture, awaited before the client is told the turn is done.            *)

Captured(t, how) == turn' = [turn EXCEPT ![t].pc = "finish", ![t].captured = how]

StoreEpisode(t) ==
    episodes' = [episodes EXCEPT ![t].row = TRUE, ![t].out = turn[t].buf,
                                 ![t].truncated = turn[t].truncated]

\* Store.Capture on the request's context: the key, then the episode and its
\* audit entry in one transaction.
CaptureStores(t) ==
    /\ turn[t].pc = "capture"
    /\ ~turn[t].skip
    /\ ~client[t].gone
    /\ StoreEpisode(t)
    /\ Captured(t, "ok")
    /\ UNCHANGED <<src, client, billed>>

\* The database fails, before the commit or while its outcome is reported.  The
\* turn goes on.
CaptureFails(t) ==
    /\ turn[t].pc = "capture"
    /\ ~turn[t].skip
    /\ (StoreEpisode(t) /\ ~client[t].gone) \/ UNCHANGED episodes
    /\ Captured(t, "failed")
    /\ UNCHANGED <<src, client, billed>>

\* Every statement is refused once the context is done.
CaptureCancelled(t) ==
    /\ turn[t].pc = "capture"
    /\ ~turn[t].skip
    /\ client[t].gone
    /\ Captured(t, "cancelled")
    /\ UNCHANGED <<src, client, billed, episodes>>

SkipCapture(t) ==
    /\ turn[t].pc = "capture"
    /\ turn[t].skip
    /\ Captured(t, "skipped")
    /\ UNCHANGED <<src, client, billed, episodes>>

\* The response body, or the terminal chunk and [DONE].
Finish(t) ==
    /\ turn[t].pc = "finish"
    /\ turn' = [turn EXCEPT ![t].pc = "over"]
    /\ client' = IF client[t].gone THEN client
                 ELSE [client EXCEPT ![t].told = "done", ![t].got = turn[t].buf]
    /\ UNCHANGED <<src, billed, episodes>>

\* Variant: the episode rated is not looked up.
Feedback_unchecked(t) ==
    /\ client[t].got > 0 \/ client[t].told = "done"
    /\ episodes[t].rated # "stored"
    /\ episodes' = [episodes EXCEPT ![t].rated = "stored"]
    /\ UNCHANGED <<turn, src, client, billed>>

\* HandleFeedback on the turn's id, which the client knows from the first chunk
\* on: refused unless the episode is there.
Feedback(t) ==
    /\ client[t].got > 0 \/ client[t].told = "done"
    /\ episodes[t].rated # "stored"
    /\ episodes' = [episodes EXCEPT ![t].rated = IF episodes[t].row THEN "stored" ELSE "refused"]
    /\ UNCHANGED <<turn, src, client, billed>>

----------------------------------------------------------------------------
CallStep(t) ==
    \/ NotSent(t) \/ SentThenFailed(t) \/ Refused(t)
    \/ Backoff(t) \/ BackoffCancelled(t) \/ StreamOpens(t) \/ WholeAnswer(t)

ReadStep(t) == ReadDelta(t) \/ ReadStop(t) \/ ReadError(t) \/ ReadEOF(t)

HandlerStep(t) ==
    \/ DrainClosed(t) \/ DrainCancelled(t)
    \/ CaptureStores(t) \/ CaptureFails(t) \/ CaptureCancelled(t) \/ SkipCapture(t)
    \/ Finish(t)

Next ==
    \E t \in Turns :
        \/ Request(t) \/ Reject(t) \/ ClientLeaves(t) \/ Feedback(t)
        \/ CallStep(t) \/ ReadStep(t) \/ SendAborted(t) \/ Deliver(t) \/ HandlerStep(t)

Spec == Init /\ [][Next]_vars

\* Runnable goroutines run, and a call, a backoff or a read of a body returns
\* once its context is done; nothing makes the vendor answer.
FairSpec ==
    /\ Spec
    /\ \A t \in Turns :
          /\ WF_vars(HandlerStep(t))
          /\ WF_vars(Deliver(t))
          /\ WF_vars(SendAborted(t))
          /\ WF_vars(CallStep(t) /\ CtxDone(t))
          /\ WF_vars(ReadStep(t) /\ CtxDone(t))

----------------------------------------------------------------------------
(* Properties.                                                             *)

\* sendWithRetry, connectWithRetry: whatever is retried, a turn makes the vendor
\* generate (and bill) at most one answer.
OneGeneration == \A t \in Turns : billed[t] <= 1

\* handleStream: an episode that is not flagged truncated holds the vendor's whole
\* answer, unless the vendor ended the stream with neither a stop nor an error.
TruncatedIsFlagged ==
    \A t \in Turns :
        (episodes[t].row /\ ~episodes[t].truncated /\ ~src[t].cut) =>
            episodes[t].out = src[t].full

\* handleStream, handleNonStream: nothing the user was shown is missing from the
\* episode; and it holds no more than that either, once the client was told the
\* turn is done, or while it is still there to be streamed to.
EpisodeHoldsWhatWasShown ==
    \A t \in Turns : episodes[t].row =>
        /\ episodes[t].out >= client[t].got
        /\ client[t].told = "done" \/ (turn[t].stream /\ ~client[t].gone) =>
              episodes[t].out = client[t].got

\* "The terminal [DONE] is held back until capture has been attempted": a client
\* that was told the turn is done finds its episode, unless it opted out or the
\* attempt failed.
DoneAfterCapture ==
    \A t \in Turns : client[t].told = "done" =>
        episodes[t].row \/ turn[t].captured \in {"failed", "skipped"}

\* A turn answered with an error has shown nothing of an answer and left no
\* episode behind.
ErrorLeavesNothing ==
    \A t \in Turns : client[t].told = "error" => client[t].got = 0 /\ ~episodes[t].row

\* StreamChatCompletion: once the client has left or the handler has returned, the
\* turn ends and its goroutine, and the response body with it, is released.
NothingLeaks ==
    \A t \in Turns :
        CtxDone(t) ~> (turn[t].pc = "over" /\ src[t].pc \in {"none", "closed"})

\* handleStream: "Client disconnected or the request was cancelled: whatever arrived
\* so far is still captured, flagged truncated".
PartialTurnKept ==
    \A t \in Turns :
        (turn[t].pc = "over" /\ turn[t].truncated /\ ~turn[t].skip
           /\ turn[t].captured # "failed") => episodes[t].row

----------------------------------------------------------------------------
(* The contract of a turn.                                                 *)

Contract == INSTANCE TurnContract WITH
    Lengths <- 0..MaxChunks,
    seen <- [t \in Turns |-> [got |-> client[t].got, told |-> client[t].told]],
    memory <- episodes,
    lost <- [t \in Turns |-> turn[t].captured \in {"failed", "skipped"}]

\* The handler, its retries, its goroutine, a vendor that may break off and a
\* client that may leave implement the contract of a turn: every step shows one
\* more piece, makes the one attempt to remember, ends the turn or rates it as
\* TurnContract allows, or changes nothing of what it speaks of.
ImplementsContract == Contract!Spec
============================================================================
