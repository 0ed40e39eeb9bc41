----------------------------- MODULE StreamRelay -----------------------------
(***************************************************************************)
(* A streaming request between the Manager and the client (sdk/api/handlers): *)
(* ExecuteStreamWithAuthManager starts a producer that reads the Manager's    *)
(* chunks, asks for another stream while none has brought a payload, and      *)
(* hands payloads and at most one error to the handler over two channels; the *)
(* handler of a dialect peeks at the first of them, then forwards the rest,   *)
(* with one more goroutine between if chunks are converted.                   *)
(*                                                                         *)
(* What the Manager's stream brings is chosen freely.  A payload is where it  *)
(* comes from: its attempt, its place, and whether it completes the answer;   *)
(* empty ones, and those the converter skips, are left out.                   *)
(***************************************************************************)
EXTENDS Integers, Sequences

CONSTANTS
  Fronts,     \* handlers of the instance
  MaxRetries, \* streaming bootstrap retries
  MaxChunks   \* bound on the payloads of a stream

\* Fronts that pass everything to ForwardStream; those of them that peek before;
\* those that know when an answer is complete; those whose payloads are checked.
Forwarding == {"direct", "responses", "completions", "cli"}
Peeking == {"direct", "responses", "completions", "images"}
Completing == {"images", "collect", "socket"}
Checked == {"responses", "images", "collect", "socket"}

VARIABLES
  front,     \* the handler that serves the request
  client,    \* the client is "here" or "gone"
  live,      \* the context of the upstream call has not ended
  producer,  \* where ExecuteStreamWithAuthManager, or its goroutine, is
  retries,   \* bootstrapRetries, which also numbers the attempts
  sent,      \* payloads of this attempt the producer has come to send
  offer,     \* the payload it is sending
  broken,    \* history: the producer has an error to report
  errs,      \* errChan: whether it holds an error, and whether it is closed
  data,      \* dataChan: "none", "open" or "closed"
  converter, \* where the converting goroutine is
  converted, \* the payload it is sending
  handler,   \* "call", "peek", "forward" or "ended"
  taken,     \* payloads the handler has taken
  outcome    \* how it ended the answer

vars == <<front, client, live, producer, retries, sent, offer, broken, errs, data,
          converter, converted, handler, taken, outcome>>
upstream == <<front, retries, sent, offer, broken>>
downstream == <<client, live, converter, converted, handler, taken, outcome>>

Nothing == [try |-> 0, at |-> 0, last |-> FALSE]

Init ==
  /\ front \in Fronts /\ client = "here" /\ live = TRUE
  /\ producer = "call" /\ retries = 0 /\ sent = 0 /\ offer = Nothing /\ broken = FALSE
  /\ errs = [holds |-> FALSE, closed |-> FALSE] /\ data = "none"
  /\ converter = "off" /\ converted = Nothing
  /\ handler = "call" /\ taken = <<>> /\ outcome = "open"

------------------------------------------------------------------------------
(* The producer.                                                            *)

\* The handler's call of ExecuteStream returns with a stream, and the producer
\* starts; or with an error, which is all there is then.
Start(opens) ==
  /\ handler = "call" /\ handler' = IF front \in Peeking THEN "peek" ELSE "forward"
  /\ broken' = ~opens
  /\ IF opens THEN producer' = "read" /\ data' = "open" /\ UNCHANGED errs
     ELSE producer' = "ended" /\ errs' = [holds |-> TRUE, closed |-> TRUE] /\ UNCHANGED data
  /\ UNCHANGED <<front, client, live, retries, sent, offer, converter, converted, taken, outcome>>

\* A payload: nothing follows the one that completes the answer.
ReadPayload(last) ==
  /\ producer = "read" /\ sent < MaxChunks /\ ~(sent > 0 /\ offer.last)
  /\ last => front \in Completing
  /\ producer' = "send" /\ sent' = sent + 1
  /\ offer' = [try |-> retries, at |-> sent + 1, last |-> last]
  /\ UNCHANGED <<front, retries, broken, errs, data, downstream>>

\* Mutants of MayRetry: one retry too many; after payloads as well.
MayRetryOnceMore(eligible) == eligible /\ sent = 0 /\ retries <= MaxRetries
MayRetryLate(eligible) == eligible /\ retries < MaxRetries

MayRetry(eligible) == eligible /\ sent = 0 /\ retries < MaxRetries

\* An error; whether it is eligible for a retry depends on its status.
ReadError(eligible) ==
  /\ producer = "read"
  /\ IF MayRetry(eligible)
     THEN producer' = "retry" /\ retries' = retries + 1 /\ sent' = 0 /\ UNCHANGED broken
     ELSE producer' = "report" /\ broken' = TRUE /\ UNCHANGED <<retries, sent>>
  /\ UNCHANGED <<front, offer, errs, data, downstream>>

\* A payload that is no JSON, found out before it is sent.
ReadGarbled ==
  /\ producer = "read" /\ front \in Checked
  /\ producer' = "report" /\ broken' = TRUE
  /\ UNCHANGED <<front, retries, sent, offer, errs, data, downstream>>

ReadEnd ==
  /\ producer = "read" /\ producer' = "leave"
  /\ UNCHANGED <<upstream, errs, data, downstream>>

\* So does the call of a retry.
Retried(opens) ==
  /\ producer = "retry"
  /\ producer' = (IF opens THEN "read" ELSE "report") /\ broken' = ~opens
  /\ UNCHANGED <<front, retries, sent, offer, errs, data, downstream>>

Report ==
  /\ producer = "report" /\ producer' = "leave"
  /\ errs' = [errs EXCEPT !.holds = TRUE]
  /\ UNCHANGED <<upstream, data, downstream>>

\* Mutant of GiveUp: a payload is sent whether or not somebody waits.
GiveUpReading ==
  /\ ~live /\ producer \in {"read", "report"} /\ producer' = "leave"
  /\ UNCHANGED <<upstream, errs, data, downstream>>

\* ctx.Done, in every select of the producer.
GiveUp ==
  /\ ~live /\ producer \in {"read", "report", "send"} /\ producer' = "leave"
  /\ UNCHANGED <<upstream, errs, data, downstream>>

\* The deferred calls: errChan is closed first.
CloseErrs ==
  /\ producer = "leave" /\ producer' = "close"
  /\ errs' = [errs EXCEPT !.closed = TRUE]
  /\ UNCHANGED <<upstream, data, downstream>>

CloseData ==
  /\ producer = "close" /\ producer' = "ended" /\ data' = "closed"
  /\ UNCHANGED <<upstream, errs, downstream>>

------------------------------------------------------------------------------
(* The converter of chat completions into completions.                      *)

ConverterTakes ==
  /\ converter = "read" /\ producer = "send"
  /\ converter' = "send" /\ converted' = offer /\ producer' = "read"
  /\ UNCHANGED <<upstream, errs, data, client, live, handler, taken, outcome>>

\* dataChan is closed, or the handler has called stop.
ConverterEnds ==
  /\ \/ converter = "read" /\ data = "closed"
     \/ converter \in {"read", "send"} /\ handler = "ended"
  /\ converter' = "ended"
  /\ UNCHANGED <<upstream, producer, errs, data, client, live, converted, handler, taken, outcome>>

------------------------------------------------------------------------------
(* The handler.                                                             *)

\* Every end cancels the context of the upstream call.
End(how) == handler' = "ended" /\ outcome' = how /\ live' = FALSE

\* Whether chunks come through the converter, and what the channel it reads has.
Converting == front = "completions" /\ handler = "forward"
Offered == IF Converting THEN converter = "send" ELSE producer = "send"
Offer == IF Converting THEN converted ELSE offer
Closed == IF Converting THEN converter = "ended" ELSE data = "closed"

Waiting == handler \in {"peek", "forward"}

\* Images end at the payload that completes the answer, with an error of their
\* own if there is no image in it; others read on.  A payload that was checked is
\* a whole frame, so nothing is left to flush when the channel closes.
TakeChunk ==
  /\ Waiting /\ Offered
  /\ taken' = Append(taken, Offer)
  /\ IF Converting THEN converter' = "read" /\ UNCHANGED producer
     ELSE /\ producer' = "read"
          /\ converter' = IF front = "completions" THEN "read" ELSE converter
  /\ IF front \in {"images", "collect"} /\ Offer.last THEN \E how \in {"done", "refused"} : End(how)
     ELSE handler' = "forward" /\ UNCHANGED <<outcome, live>>
  /\ UNCHANGED <<upstream, errs, data, client, converted>>

\* An error while peeking is answered with its status, later with an event.
TakeError ==
  /\ Waiting /\ errs.holds
  /\ errs' = [errs EXCEPT !.holds = FALSE] /\ End("error")
  /\ UNCHANGED <<upstream, producer, data, client, converter, converted, taken>>

\* Mutant of WhenClosed: ForwardStream does not look for a pending error.
WhenClosedDone == "done"

\* What a handler makes of a closed channel of data: only ForwardStream looks
\* for a pending error, and of the others two know that something is missing.
WhenClosed ==
  CASE handler = "peek" -> "done"
    [] handler = "forward" /\ front \in Forwarding -> IF errs.holds THEN "error" ELSE "done"
    [] handler = "forward" /\ front = "images" -> "done"
    [] OTHER -> IF \E i \in 1..Len(taken) : taken[i].last THEN "done" ELSE "unfinished"

TakeClosed ==
  /\ Waiting /\ Closed /\ End(WhenClosed)
  /\ UNCHANGED <<upstream, producer, errs, data, client, converter, converted, taken>>

\* The request's context has ended; collect waits for the other context.
Leave ==
  /\ Waiting
  /\ IF front = "collect" THEN ~live ELSE client = "gone"
  /\ End("gone")
  /\ UNCHANGED <<upstream, producer, errs, data, client, converter, converted, taken>>

ClientLeaves ==
  /\ client = "here" /\ handler # "ended" /\ client' = "gone"
  /\ UNCHANGED <<upstream, producer, errs, data, live, converter, converted, handler, taken, outcome>>

\* GetContextWithCancel: one context follows the other, by a goroutine.
ContextFollows ==
  /\ client = "gone" /\ live /\ live' = FALSE
  /\ UNCHANGED <<upstream, producer, errs, data, client, converter, converted, handler, taken, outcome>>

------------------------------------------------------------------------------

Read == \/ \E last \in BOOLEAN : ReadPayload(last)
        \/ \E eligible \in BOOLEAN : ReadError(eligible)
        \/ ReadGarbled
        \/ ReadEnd

Ends == Report \/ GiveUp \/ CloseErrs \/ CloseData
Producer == (\E opens \in BOOLEAN : Start(opens) \/ Retried(opens)) \/ Ends
Converter == ConverterTakes \/ ConverterEnds
Handler == TakeChunk \/ TakeError \/ TakeClosed \/ Leave

Next == Read \/ Producer \/ Converter \/ Handler \/ ClientLeaves \/ ContextFollows

Spec == Init /\ [][Next]_vars

------------------------------------------------------------------------------
(* Properties.                                                              *)

\* The types of the state; the configured number of retries is a limit, and no
\* payload or error waits where nobody has put one.
TypeOK ==
  /\ front \in Fronts /\ client \in {"here", "gone"} /\ live \in BOOLEAN /\ broken \in BOOLEAN
  /\ producer \in {"call", "read", "retry", "send", "report", "leave", "close", "ended"}
  /\ retries \in 0..MaxRetries /\ sent \in 0..MaxChunks
  /\ errs \in [holds: BOOLEAN, closed: BOOLEAN] /\ (errs.holds => broken)
  /\ data \in {"none", "open", "closed"} /\ (data = "closed" => producer = "ended")
  /\ converter \in {"off", "read", "send", "ended"}
  /\ handler \in {"call", "peek", "forward", "ended"}
  /\ outcome \in {"open", "done", "error", "refused", "unfinished", "gone"}
  /\ (outcome = "open" <=> handler # "ended")

\* What a client gets is one answer: the payloads of a single attempt, the last
\* one made, in order and without a gap, whatever broken and was retried.
OneAnswer ==
  \A i \in 1..Len(taken) : taken[i].try = retries /\ taken[i].at = i

\* Payloads the handler may miss when it ends with an error: the converter may
\* hold one when the error overtakes it.
Slack == IF front = "completions" THEN 1 ELSE 0

\* To a client that stays, and once a first payload has been forwarded, the end
\* is told as it was: an answer that ends without an error is whole, and one that
\* ends with an error did fail, after everything that preceded the failure.
EndTold ==
  client = "here" =>
    /\ outcome = "done" /\ front \in Forwarding /\ taken # <<>> => ~broken /\ Len(taken) = sent
    /\ outcome = "done" /\ front \in Completing \ {"images"} => \E i \in 1..Len(taken) : taken[i].last
    /\ outcome = "error" => broken /\ Len(taken) >= sent - Slack
=============================================================================
