----------------------------- MODULE RequestRetry -----------------------------
(***************************************************************************)
(* One request through the Manager, sdk/cliproxy/auth/conductor.go: Execute,*)
(* ExecuteCount and ExecuteStream repeat a pass over the credentials, and   *)
(* wait between passes until a credential has cooled down.  A pass picks    *)
(* credentials it has not tried until one answers.  Requests meet in the    *)
(* cooldowns their results leave behind.                                    *)
(*                                                                         *)
(* Durations are kept as time that remains.  One model is asked for, every  *)
(* credential serves it under one upstream name, and which free credential  *)
(* is picked is left open (CredentialPool has the records behind it).  Home *)
(* mode, pinned credentials and the Antigravity credits are left out.       *)
(***************************************************************************)
EXTENDS Integers, FiniteSets

CONSTANTS
  Requests,
  Streams,   \* those made by ExecuteStream
  Creds,
  Cooling,   \* credentials whose cooldowns are not disabled
  Retries,   \* per credential: request-retry, or its own override
  MaxCreds,  \* per request: max-retry-credentials when it began, 0 for all
  MaxWait,   \* max-retry-interval
  Hints,     \* Retry-After times of providers
  Backoff,   \* cooldown of a 429 without Retry-After
  Fault,     \* cooldown of a server error
  None       \* no credential

ASSUME RetryAssumption ==
  /\ Streams \subseteq Requests /\ Cooling \subseteq Creds /\ None \notin Creds
  /\ Retries \in [Creds -> Nat] /\ MaxCreds \in [Requests -> Nat] /\ MaxWait \in Nat
  /\ Hints \subseteq Nat \ {0} /\ {Backoff, Fault} \subseteq Nat \ {0}

VARIABLES
  rest,      \* per credential: what remains of its cooldown
  pc,        \* per request: the next step
  attempt,   \* per request: the pass it is in
  tried,     \* per request: credentials picked in this pass
  cred,      \* per request: the credential that executes it
  err,       \* per request: lastErr
  wait,      \* per request: what remains of its wait
  gone,      \* the client has left
  failed,    \* the stream has carried an error
  answer,    \* history: what the client got
  counted,   \* history: the last result counted for the request
  disturbed  \* history: another request counted a result since this one decided to wait

vars == <<rest, pc, attempt, tried, cred, err, wait, gone, failed, answer, counted, disturbed>>

\* "other" errors bring no cooldown.
Errors == [kind: {"invalid", "fault", "other"}, hint: {0}]
            \cup [kind: {"quota"}, hint: Hints \cup {0}]

\* What of lastErr is looked at after the pass.
LastErrs == [kind: {"none", "invalid", "failed"}, hint: Hints \cup {0}]
NoErr == [kind |-> "none", hint |-> 0]
Plain == [kind |-> "failed", hint |-> 0]

Init ==
  /\ rest = [c \in Creds |-> 0]
  /\ pc = [r \in Requests |-> "idle"] /\ attempt = [r \in Requests |-> 0]
  /\ tried = [r \in Requests |-> {}] /\ cred = [r \in Requests |-> None]
  /\ err = [r \in Requests |-> NoErr] /\ wait = [r \in Requests |-> 0]
  /\ gone = [r \in Requests |-> FALSE] /\ failed = [r \in Requests |-> FALSE]
  /\ answer = [r \in Requests |-> "none"] /\ counted = [r \in Requests |-> "none"]
  /\ disturbed = [r \in Requests |-> FALSE]

Goto(r, where) == pc' = [pc EXCEPT ![r] = where]

\* The request returns to the client, and its locals are gone.
Return(r, what) ==
  /\ Goto(r, "done") /\ answer' = [answer EXCEPT ![r] = what]
  /\ failed' = [failed EXCEPT ![r] = FALSE]
  /\ attempt' = [attempt EXCEPT ![r] = 0] /\ tried' = [tried EXCEPT ![r] = {}]
  /\ cred' = [cred EXCEPT ![r] = None] /\ err' = [err EXCEPT ![r] = NoErr]
  /\ wait' = [wait EXCEPT ![r] = 0]

\* The cooldowns MarkResult may leave after the error e.  Some errors that blame
\* the request count as server errors, some leave the record alone; a model that
\* is not supported is put aside even where cooldowns are disabled.
Cooldowns(c, e) ==
  LET cool(t) == IF c \in Cooling THEN t ELSE 0
  IN  CASE e.kind = "quota" -> {cool(IF e.hint > 0 THEN e.hint ELSE Backoff)}
        [] e.kind = "fault" -> {Fault, cool(Fault)}
        [] e.kind = "invalid" -> {0, cool(Fault), rest[c]}
        [] OTHER -> {0}

\* MarkResult, for the credential of r.
Count(r, what, cooldowns) ==
  /\ \E t \in cooldowns : rest' = [rest EXCEPT ![cred[r]] = t]
  /\ counted' = [counted EXCEPT ![r] = what]
  /\ disturbed' = [q \in Requests |-> disturbed[q] \/ (q # r /\ pc[q] \in {"wait", "pick"})]

Begin(r) ==
  /\ pc[r] = "idle" /\ Goto(r, "pick")
  /\ UNCHANGED <<rest, attempt, tried, cred, err, wait, gone, failed, answer, counted, disturbed>>

\* The client leaves at any time until it has its answer.
Leave(r) ==
  /\ pc[r] \notin {"idle", "done"} /\ ~gone[r]
  /\ gone' = [gone EXCEPT ![r] = TRUE]
  /\ UNCHANGED <<rest, pc, attempt, tried, cred, err, wait, failed, answer, counted, disturbed>>

Tick ==
  /\ \E c \in Creds : rest[c] > 0 \/ \E r \in Requests : wait[r] > 0
  /\ rest' = [c \in Creds |-> IF rest[c] > 0 THEN rest[c] - 1 ELSE 0]
  /\ wait' = [r \in Requests |-> IF wait[r] > 0 THEN wait[r] - 1 ELSE 0]
  /\ UNCHANGED <<pc, attempt, tried, cred, err, gone, failed, answer, counted, disturbed>>

------------------------------------------------------------------------------
(* A pass: executeMixedOnce and its two likes.                              *)

\* Mutant of WithinLimit: the limit is not minded.
WithoutLimit(r) == TRUE

WithinLimit(r) == MaxCreds[r] = 0 \/ Cardinality(tried[r]) < MaxCreds[r]

Free(r) == {c \in Creds \ tried[r] : rest[c] = 0}

Pick(r, c) ==
  /\ pc[r] = "pick" /\ WithinLimit(r) /\ c \in Free(r) /\ Goto(r, "exec")
  /\ cred' = [cred EXCEPT ![r] = c]
  /\ tried' = [tried EXCEPT ![r] = @ \cup {c}]
  /\ UNCHANGED <<rest, attempt, err, wait, gone, failed, answer, counted, disturbed>>

\* The last error is returned, or that of the pick if there is none.
PickFails(r) ==
  /\ pc[r] = "pick" /\ (WithinLimit(r) => Free(r) = {}) /\ Goto(r, "decide")
  /\ err' = [err EXCEPT ![r] = IF @ = NoErr THEN Plain ELSE @]
  /\ UNCHANGED <<rest, attempt, tried, cred, wait, gone, failed, answer, counted, disturbed>>

Succeed(r) ==
  /\ pc[r] = "exec" /\ r \notin Streams
  /\ Count(r, "ok", {0}) /\ Return(r, "ok")
  /\ UNCHANGED gone

\* An error ends the pass if it blames the request.  One that a stream carries
\* before its first payload comes wrapped, and its Retry-After is lost to lastErr.
Fail(r, e, keep) ==
  /\ pc[r] = "exec" /\ ~gone[r] /\ (keep \/ (r \in Streams /\ e.hint > 0))
  /\ Goto(r, IF e.kind = "invalid" THEN "decide" ELSE "pick")
  /\ Count(r, "failed", Cooldowns(cred[r], e))
  /\ err' = [err EXCEPT ![r] =
       [kind |-> IF e.kind = "invalid" THEN "invalid" ELSE "failed", hint |-> IF keep THEN e.hint ELSE 0]]
  /\ cred' = [cred EXCEPT ![r] = None]
  /\ UNCHANGED <<attempt, tried, wait, gone, failed, answer>>

\* The error is that of the cancelled context: nothing is counted.
Abort(r) ==
  /\ pc[r] = "exec" /\ gone[r] /\ Return(r, "error")
  /\ UNCHANGED <<rest, gone, counted, disturbed>>

------------------------------------------------------------------------------
(* Streams: once the first payload has been read, wrapStreamResult forwards *)
(* what follows and counts one result.                                      *)

Open(r) ==
  /\ pc[r] = "exec" /\ r \in Streams /\ Goto(r, "stream")
  /\ counted' = [counted EXCEPT ![r] = "none"]
  /\ UNCHANGED <<rest, attempt, tried, cred, err, wait, gone, failed, answer, disturbed>>

\* Mutant of Break: only errors before the first payload count.
BreakUncounted(r, e) ==
  /\ pc[r] = "stream" /\ ~failed[r]
  /\ failed' = [failed EXCEPT ![r] = TRUE]
  /\ UNCHANGED <<rest, pc, attempt, tried, cred, err, wait, gone, answer, counted, disturbed>>

\* An error chunk: the first counts.  Its Retry-After is not looked at.
Break(r, e) ==
  /\ pc[r] = "stream" /\ ~failed[r]
  /\ failed' = [failed EXCEPT ![r] = TRUE]
  /\ Count(r, "failed", Cooldowns(cred[r], e))
  /\ UNCHANGED <<pc, attempt, tried, cred, err, wait, gone, answer>>

\* Mutant of End: a stream that was read to its end has succeeded.
EndWell(r) ==
  /\ pc[r] = "stream" /\ Count(r, "ok", {0})
  /\ Return(r, IF failed[r] THEN "error" ELSE "ok")
  /\ UNCHANGED gone

End(r) ==
  /\ pc[r] = "stream"
  /\ IF failed[r] THEN UNCHANGED <<rest, counted, disturbed>> ELSE Count(r, "ok", {0})
  /\ Return(r, IF failed[r] THEN "error" ELSE "ok")
  /\ UNCHANGED gone

\* The client has left: the rest is discarded and nothing more is counted.
Discard(r) ==
  /\ pc[r] = "stream" /\ gone[r] /\ Return(r, "error")
  /\ UNCHANGED <<rest, gone, counted, disturbed>>

------------------------------------------------------------------------------
(* Between passes: shouldRetryAfterError.                                   *)

\* Credentials that permit one more pass.
Allowed(r) == {c \in Creds : attempt[r] < Retries[c]}

\* closestCooldownWait looks for the least of these.
Pauses(r) == {rest[c] : c \in Allowed(r)} \ {0}

HintPauses(r) ==
  IF Allowed(r) # {} THEN {err[r].hint} \cap 1..MaxWait ELSE {}

\* Mutant of Pause: the provider's Retry-After comes first.
HintFirst(r) ==
  IF err[r].kind = "invalid" THEN {}
  ELSE IF HintPauses(r) # {} THEN HintPauses(r)
  ELSE {t \in Pauses(r) : t <= MaxWait /\ \A u \in Pauses(r) : t <= u}

\* The wait before the next pass, if there is to be one.
Pause(r) ==
  IF err[r].kind = "invalid" THEN {}
  ELSE IF Pauses(r) # {} THEN {t \in Pauses(r) : t <= MaxWait /\ \A u \in Pauses(r) : t <= u}
  ELSE HintPauses(r)

Retry(r) ==
  /\ pc[r] = "decide" /\ Goto(r, "wait")
  /\ \E t \in Pause(r) : wait' = [wait EXCEPT ![r] = t]
  /\ disturbed' = [disturbed EXCEPT ![r] = FALSE]
  /\ UNCHANGED <<rest, attempt, tried, cred, err, gone, failed, answer, counted>>

GiveUp(r) ==
  /\ pc[r] = "decide" /\ Pause(r) = {} /\ Return(r, "error")
  /\ UNCHANGED <<rest, gone, counted, disturbed>>

\* Mutant of Wake: the pass is not counted.
WakeUncounted(r) ==
  /\ pc[r] = "wait" /\ wait[r] = 0 /\ Goto(r, "pick")
  /\ tried' = [tried EXCEPT ![r] = {}] /\ err' = [err EXCEPT ![r] = NoErr]
  /\ UNCHANGED <<rest, attempt, cred, wait, gone, failed, answer, counted, disturbed>>

\* waitForCooldown returns with the timer.
Wake(r) ==
  /\ pc[r] = "wait" /\ wait[r] = 0 /\ Goto(r, "pick")
  /\ attempt' = [attempt EXCEPT ![r] = @ + 1]
  /\ tried' = [tried EXCEPT ![r] = {}] /\ err' = [err EXCEPT ![r] = NoErr]
  /\ UNCHANGED <<rest, cred, wait, gone, failed, answer, counted, disturbed>>

\* It returns when the client leaves.
StopWaiting(r) ==
  /\ pc[r] = "wait" /\ gone[r] /\ Return(r, "error")
  /\ UNCHANGED <<rest, gone, counted, disturbed>>

Passes(r) ==
  \/ (\E c \in Creds : Pick(r, c)) \/ PickFails(r)
  \/ Succeed(r) \/ Abort(r) \/ Open(r) \/ (\E e \in Errors, keep \in BOOLEAN : Fail(r, e, keep))
  \/ Retry(r) \/ GiveUp(r) \/ Wake(r) \/ StopWaiting(r)

Step(r) ==
  \/ Passes(r)
  \/ (\E e \in {x \in Errors : x.hint = 0} : Break(r, e)) \/ End(r) \/ Discard(r)

Next == Tick \/ \E r \in Requests : Begin(r) \/ Leave(r) \/ Step(r)

\* Time passes, providers answer and end their streams.
Spec == Init /\ [][Next]_vars /\ WF_vars(Tick) /\ \A r \in Requests : WF_vars(Step(r))

------------------------------------------------------------------------------
(* Properties.                                                              *)

\* No request passes more often, or tries more credentials in a pass, than it may.
TypeOK ==
  /\ rest \in [Creds -> Nat] /\ wait \in [Requests -> 0..MaxWait]
  /\ pc \in [Requests -> {"idle", "pick", "exec", "stream", "decide", "wait", "done"}]
  /\ attempt \in [Requests -> Nat] /\ tried \in [Requests -> SUBSET Creds]
  /\ \A r \in Requests : attempt[r] > 0 => \E c \in Creds : attempt[r] <= Retries[c]
  /\ \A r \in Requests : MaxCreds[r] > 0 => Cardinality(tried[r]) <= MaxCreds[r]
  /\ cred \in [Requests -> Creds \cup {None}]
  /\ err \in [Requests -> LastErrs]
  /\ gone \in [Requests -> BOOLEAN] /\ failed \in [Requests -> BOOLEAN]
  /\ answer \in [Requests -> {"none", "ok", "error"}]
  /\ counted \in [Requests -> {"none", "ok", "failed"}]
  /\ disturbed \in [Requests -> BOOLEAN]

\* A wait is worth it: the pass that follows finds a credential, unless results
\* of other requests came in meanwhile.  So a client is never held only to be
\* told once more that everything cools down.
RetryFindsCredential ==
  \A r \in Requests :
    pc[r] = "pick" /\ attempt[r] > 0 /\ tried[r] = {} /\ ~disturbed[r] => Free(r) # {}

\* What a client got is what was counted for the credential last used: neither a
\* stream that broke off after its first payload nor one that was left is a success.
OutcomeCounted ==
  \A r \in Requests : pc[r] = "done" => (answer[r] = "ok" <=> counted[r] = "ok")

\* Every request comes to an end, whatever the others do to the cooldowns.
RequestEnds == \A r \in Requests : pc[r] = "pick" ~> pc[r] = "done"
=============================================================================
