--------------------------- MODULE StreamedRequest ---------------------------
(***************************************************************************)
(* A streaming request from end to end: the handler and its producer          *)
(* (StreamRelay) over the Manager's passes and streams (RequestRetry).  Each  *)
(* call of ExecuteStream is a request of the Manager's: the first one by the  *)
(* handler, the others by the producer, before a payload has come.  What the  *)
(* relay reads is what wrapStreamResult has to hand over; its context is the  *)
(* one the Manager's goroutines watch.                                        *)
(***************************************************************************)
EXTENDS RequestRetry, Sequences

CONSTANTS Calls, Fronts, MaxRetries, MaxChunks

VARIABLES front, client, live, producer, retries, sent, offer, broken, errs, data,
          converter, converted, handler, taken, outcome

Relay == INSTANCE StreamRelay

relay == <<front, client, live, producer, retries, sent, offer, broken, errs, data,
           converter, converted, handler, taken, outcome>>

\* There is a call for every attempt, and a handler of one kind or the other.
ASSUME StreamedAssumption ==
  /\ MaxRetries \in Nat /\ MaxChunks \in Nat
  /\ Calls \in Seq(Streams) /\ Len(Calls) = MaxRetries + 1
  /\ \A i, j \in 1..Len(Calls) : Calls[i] = Calls[j] => i = j
  /\ Fronts \subseteq Relay!Forwarding \cup Relay!Checked

\* The call whose stream is read, or to be read.
Current == Calls[retries + 1]
Called == {Calls[i] : i \in 1..Len(Calls)}

\* ExecuteStream returns with a stream; one that holds only the error of a stream
\* that failed before its first payload is a stream as well.
Returned(opens) ==
  /\ pc[Current] \in {"stream", "done"}
  /\ ~opens => pc[Current] = "done"

\* wrapStreamResult has nothing more to send, or is about to send an error.
Over == pc[Current] = "done"
Failing == (pc[Current] = "stream" /\ failed[Current]) \/ (Over /\ sent = 0)
Flowing == pc[Current] = "stream" /\ ~failed[Current]

StreamedInit == Init /\ Relay!Init

------------------------------------------------------------------------------
(* The Manager's side.                                                      *)

Calling == handler = "call" \/ producer = "retry"

\* The first payload has been read before the rest of the stream is, and an error
\* before the stream ends, unless the context ends.
Sends(r) ==
  \/ \E e \in {x \in Errors : x.hint = 0} : sent > 0 /\ Break(r, e)
  \/ sent > 0 /\ (failed[r] /\ r = Current => broken) /\ End(r)
  \/ Discard(r)

Manages(r) ==
  \/ Calling /\ r = Current /\ Begin(r)
  \/ ~live /\ Leave(r)
  \/ (live \/ gone[r]) /\ (Passes(r) \/ Sends(r))

------------------------------------------------------------------------------
(* The relay's side.                                                        *)

Reads ==
  \/ Flowing /\ \E last \in BOOLEAN : Relay!ReadPayload(last)
  \/ Flowing /\ Relay!ReadGarbled
  \/ Failing /\ \E eligible \in BOOLEAN : Relay!ReadError(eligible)
  \/ Over /\ sent > 0 /\ Relay!ReadEnd
  \/ \E opens \in BOOLEAN : Returned(opens) /\ (Relay!Start(opens) \/ Relay!Retried(opens))

Relays == Reads \/ Relay!Ends \/ Relay!Converter \/ Relay!Handler \/ Relay!ContextFollows

\* Goroutines run, time passes, and a stream that was opened is read and ends.
Progress ==
  \/ (Tick \/ \E r \in Called : Manages(r)) /\ UNCHANGED relay
  \/ Relays /\ UNCHANGED vars

StreamedNext == Progress \/ (Relay!ClientLeaves /\ UNCHANGED vars)

StreamedVars == <<vars, relay>>

\* What can happen does, in any order: no request goes round in circles, so it
\* is enough that something does.
StreamedSpec == StreamedInit /\ [][StreamedNext]_StreamedVars /\ WF_StreamedVars(Progress)

------------------------------------------------------------------------------
(* Properties.                                                              *)

\* The relay's part keeps the types and limits of its own.
RelayTypeOK == Relay!TypeOK

\* A client gets the payloads of one call, the last, in order and without a gap.
OneAnswer == Relay!OneAnswer

\* A client that stays and has had a payload is told how the answer ended.
EndTold == Relay!EndTold

\* What the client was told of an answer it began to get is what the credential
\* was charged with, two goroutines and three channels away; and a call that was
\* retried was never counted as a success.
ToldAsCounted ==
  /\ client = "here" /\ taken # <<>> /\ pc[Current] # "idle" /\ front \notin Relay!Checked =>
       /\ outcome = "done" => counted[Current] = "ok"
       /\ outcome = "error" => counted[Current] = "failed"
  /\ \A i \in 1..retries : counted[Calls[i]] # "ok"

\* A streaming request that has begun ends, and with it every goroutine it has
\* started: handler, producer, converter and the Manager's of each call, whoever
\* stops first.
StreamEnds ==
  pc[Calls[1]] # "idle" ~>
    /\ handler = "ended" /\ producer = "ended" /\ converter \in {"off", "ended"}
    /\ \A r \in Called : pc[r] \in {"idle", "done"}
=============================================================================
