------------------------ MODULE StreamedRequest_proofs ------------------------
(***************************************************************************)
(* Proofs about requests, alone and with their streams, for any number of     *)
(* requests and credentials and for all limits and cooldowns.                 *)
(*                                                                           *)
(* Of RequestRetry: the limits hold (TypeCorrect), a wait is rewarded         *)
(* (WaitsPay), and what a client gets is what was counted (Accounted).        *)
(*                                                                           *)
(* Of StreamRelay, for any set of handlers and streams of any length: the     *)
(* answer is one and its end is told, which follows from where the payloads   *)
(* are that were read and have not reached the handler (PayloadsAccounted),   *)
(* and from what an error tells of the producer that has met it (Told).       *)
(*                                                                           *)
(* A streaming request implements both of its halves: what it does to the     *)
(* Manager's state is what requests do there, and what it does to the relay's *)
(* is what the relay does alone, so that whatever holds of either holds of    *)
(* the two together, and what is told is what is counted.                     *)
(***************************************************************************)
EXTENDS StreamedRequest, FiniteSetTheorems, TLAPS

\* A request begins with its first pass, executes with a credential it has tried,
\* has tried finitely many, and waits only if some permit one more pass.
Sound ==
  \A r \in Requests :
    /\ pc[r] = "idle" => attempt[r] = 0
    /\ pc[r] \in {"exec", "stream"} => cred[r] \in Creds /\ cred[r] \in tried[r]
    /\ IsFiniteSet(tried[r])
    /\ pc[r] = "wait" => Allowed(r) # {}

Inv == TypeOK /\ Sound

------------------------------------------------------------------------------
(* The operators.                                                           *)

\* MarkResult leaves cooldowns that are durations.
LEMMA CooldownsType ==
  ASSUME TypeOK, NEW c \in Creds, NEW e \in Errors
  PROVE  Cooldowns(c, e) \subseteq Nat
<1>1. e.hint \in Nat /\ e.kind \in {"invalid", "fault", "other", "quota"}
  <2>1. Hints \cup {0} \subseteq Nat
    BY RetryAssumption
  <2>2. CASE e \in [kind: {"invalid", "fault", "other"}, hint: {0}]
    BY <2>2
  <2>3. CASE e \in [kind: {"quota"}, hint: Hints \cup {0}]
    BY <2>1, <2>3
  <2> QED
    BY <2>2, <2>3 DEF Errors
<1>2. rest[c] \in Nat /\ Backoff \in Nat /\ Fault \in Nat
  BY RetryAssumption DEF TypeOK
<1> QED
  BY <1>1, <1>2 DEF Cooldowns

\* A pause is no longer than the longest permitted, and some credential permits
\* the pass that follows it.
LEMMA PauseType ==
  ASSUME TypeOK, NEW r \in Requests, NEW t \in Pause(r)
  PROVE  t \in 0..MaxWait /\ Allowed(r) # {}
<1>1. CASE t \in Pauses(r) /\ t <= MaxWait
  BY <1>1, RetryAssumption DEF Pauses, Allowed, TypeOK
<1>2. CASE t \in HintPauses(r)
  BY <1>2, RetryAssumption DEF HintPauses
<1> QED
  BY <1>1, <1>2 DEF Pause

\* Counting a result changes no more than the cooldown, and what is remembered
\* of results.
LEMMA CountType ==
  ASSUME TypeOK, NEW r \in Requests, NEW what \in {"ok", "failed"}, NEW S \in SUBSET Nat, Count(r, what, S)
  PROVE  /\ rest' \in [Creds -> Nat] /\ counted' \in [Requests -> {"none", "ok", "failed"}]
         /\ disturbed' \in [Requests -> BOOLEAN]
<1>1. PICK t \in S : rest' = [rest EXCEPT ![cred[r]] = t]
  BY DEF Count
<1> QED
  BY <1>1 DEF Count, TypeOK

\* A pass that begins, or a request that returns, has tried nothing.
LEMMA NothingTried ==
  ASSUME Inv, NEW r \in Requests, tried' = [tried EXCEPT ![r] = {}]
  PROVE  /\ tried' \in [Requests -> SUBSET Creds]
         /\ \A q \in Requests : IsFiniteSet(tried'[q])
         /\ \A q \in Requests : MaxCreds[q] > 0 => Cardinality(tried'[q]) <= MaxCreds[q]
<1> USE DEF Inv, TypeOK, Sound
<1>1. IsFiniteSet({}) /\ Cardinality({}) = 0
  BY FS_EmptySet
<1>2. tried' \in [Requests -> SUBSET Creds]
  OBVIOUS
<1>3. ASSUME NEW q \in Requests
      PROVE  IsFiniteSet(tried'[q]) /\ (MaxCreds[q] > 0 => Cardinality(tried'[q]) <= MaxCreds[q])
  <2>1. CASE q = r
    <3>1. tried'[q] = {}
      BY <2>1
    <3>2. Cardinality(tried'[q]) = 0
      BY <3>1, <1>1
    <3>3. MaxCreds[q] \in Nat
      BY RetryAssumption
    <3> QED
      BY <3>1, <3>2, <3>3, <1>1
  <2>2. CASE q # r
    <3>1. tried'[q] = tried[q]
      BY <2>2
    <3> QED
      BY <3>1
  <2> QED
    BY <2>1, <2>2
<1> QED
  BY <1>2, <1>3

------------------------------------------------------------------------------
(* Type correctness.                                                        *)

\* Every step preserves the types, and what makes them hold.
LEMMA InvStep == Inv /\ [Next]_vars => Inv'
<1> SUFFICES ASSUME Inv, [Next]_vars PROVE Inv'
  OBVIOUS
<1> USE DEF Inv, TypeOK, Sound, Goto
<1>1. CASE UNCHANGED vars
  BY <1>1 DEF vars, Allowed
<1>2. CASE Tick
  <2>1. rest' \in [Creds -> Nat] /\ wait' \in [Requests -> 0..MaxWait]
    BY <1>2, RetryAssumption DEF Tick
  <2> QED
    BY <1>2, <2>1 DEF Tick, Allowed
<1>3. ASSUME NEW r \in Requests, Begin(r) PROVE Inv'
  BY <1>3 DEF Begin, Allowed
<1>4. ASSUME NEW r \in Requests, Leave(r) PROVE Inv'
  BY <1>4 DEF Leave, Allowed
<1>5. ASSUME NEW r \in Requests, NEW c \in Creds, Pick(r, c) PROVE Inv'
  <2>1. /\ IsFiniteSet(tried[r] \cup {c}) /\ c \notin tried[r]
        /\ Cardinality(tried[r] \cup {c}) = Cardinality(tried[r]) + 1
        /\ Cardinality(tried[r]) \in Nat
    BY <1>5, FS_AddElement, FS_CardinalityType DEF Pick, Free
  <2>2. MaxCreds[r] \in Nat
    BY RetryAssumption
  <2>3. MaxCreds[r] > 0 => Cardinality(tried[r] \cup {c}) <= MaxCreds[r]
    BY <1>5, <2>1, <2>2 DEF Pick, WithinLimit
  <2>4. /\ \A q \in Requests : MaxCreds[q] > 0 => Cardinality(tried'[q]) <= MaxCreds[q]
        /\ \A q \in Requests : IsFiniteSet(tried'[q])
        /\ tried' \in [Requests -> SUBSET Creds]
    BY <1>5, <2>1, <2>3 DEF Pick
  <2> QED
    BY <1>5, <2>4 DEF Pick, Allowed
<1>6. ASSUME NEW r \in Requests, PickFails(r) PROVE Inv'
  <2>1. err' \in [Requests -> LastErrs]
    BY <1>6 DEF PickFails, LastErrs, Plain
  <2> QED
    BY <1>6, <2>1 DEF PickFails, Allowed
<1>7. ASSUME NEW r \in Requests, NEW what \in {"ok", "error"}, Return(r, what),
             rest' \in [Creds -> Nat], gone' = gone,
             counted' \in [Requests -> {"none", "ok", "failed"}], disturbed' \in [Requests -> BOOLEAN]
      PROVE  Inv'
  <2>2. /\ \A q \in Requests : MaxCreds[q] > 0 => Cardinality(tried'[q]) <= MaxCreds[q]
        /\ \A q \in Requests : IsFiniteSet(tried'[q])
        /\ tried' \in [Requests -> SUBSET Creds]
    BY <1>7, NothingTried DEF Return
  <2>3. /\ attempt' \in [Requests -> Nat] /\ err' \in [Requests -> LastErrs]
        /\ wait' \in [Requests -> 0..MaxWait]
    BY <1>7, RetryAssumption DEF Return, LastErrs, NoErr
  <2> QED
    BY <1>7, <2>2, <2>3 DEF Return, Allowed
<1>8. ASSUME NEW r \in Requests, Succeed(r) \/ Abort(r) \/ End(r) \/ Discard(r) \/ GiveUp(r) \/ StopWaiting(r)
      PROVE  Inv'
  <2>1. CASE Succeed(r)
    BY <1>7, <2>1, CountType DEF Succeed
  <2>2. CASE End(r)
    BY <1>7, <2>2, CountType DEF End
  <2>3. CASE Abort(r) \/ Discard(r) \/ GiveUp(r) \/ StopWaiting(r)
    BY <1>7, <2>3 DEF Abort, Discard, GiveUp, StopWaiting
  <2> QED
    BY <1>8, <2>1, <2>2, <2>3
<1>9. ASSUME NEW r \in Requests, NEW e \in Errors, NEW keep \in BOOLEAN, Fail(r, e, keep) PROVE Inv'
  <2>1. /\ rest' \in [Creds -> Nat] /\ counted' \in [Requests -> {"none", "ok", "failed"}]
        /\ disturbed' \in [Requests -> BOOLEAN]
    BY <1>9, CooldownsType, CountType DEF Fail
  <2>2. e.hint \in Hints \cup {0}
    BY DEF Errors
  <2>3. err' \in [Requests -> LastErrs]
    BY <1>9, <2>2 DEF Fail, LastErrs
  <2> QED
    BY <1>9, <2>1, <2>3 DEF Fail, Allowed
<1>10. ASSUME NEW r \in Requests, Open(r) PROVE Inv'
  BY <1>10 DEF Open, Allowed
<1>11. ASSUME NEW r \in Requests, NEW e \in Errors, Break(r, e) PROVE Inv'
  <2>1. /\ rest' \in [Creds -> Nat] /\ counted' \in [Requests -> {"none", "ok", "failed"}]
        /\ disturbed' \in [Requests -> BOOLEAN]
    BY <1>11, CooldownsType, CountType DEF Break
  <2> QED
    BY <1>11, <2>1 DEF Break, Allowed
<1>12. ASSUME NEW r \in Requests, Retry(r) PROVE Inv'
  <2>1. PICK t \in Pause(r) : wait' = [wait EXCEPT ![r] = t]
    BY <1>12 DEF Retry
  <2>2. t \in 0..MaxWait /\ Allowed(r) # {}
    BY <2>1, PauseType
  <2> QED
    BY <1>12, <2>1, <2>2 DEF Retry, Allowed
<1>13. ASSUME NEW r \in Requests, Wake(r) PROVE Inv'
  <2>1. PICK c \in Creds : attempt[r] < Retries[c]
    BY <1>13 DEF Wake, Allowed
  <2>2. attempt[r] + 1 <= Retries[c]
    BY <2>1, RetryAssumption
  <2>3. /\ attempt' \in [Requests -> Nat]
        /\ \A q \in Requests : attempt'[q] > 0 => \E d \in Creds : attempt'[q] <= Retries[d]
    BY <1>13, <2>2 DEF Wake
  <2>5. /\ \A q \in Requests : MaxCreds[q] > 0 => Cardinality(tried'[q]) <= MaxCreds[q]
        /\ \A q \in Requests : IsFiniteSet(tried'[q])
        /\ tried' \in [Requests -> SUBSET Creds]
    BY <1>13, NothingTried DEF Wake
  <2>6. err' \in [Requests -> LastErrs]
    BY <1>13 DEF Wake, LastErrs, NoErr
  <2> QED
    BY <1>13, <2>3, <2>5, <2>6 DEF Wake, Allowed
<1> QED
  BY <1>1, <1>2, <1>3, <1>4, <1>5, <1>6, <1>8, <1>9, <1>10, <1>11, <1>12, <1>13 DEF Next, Step,
     Passes

\* Requests begin with nothing tried and nothing awaited.
LEMMA InvInit == Init => Inv
<1>1. IsFiniteSet({}) /\ Cardinality({}) = 0
  BY FS_EmptySet
<1> QED
  BY <1>1, RetryAssumption DEF Init, Inv, TypeOK, Sound, NoErr, LastErrs

\* No request passes more often than some credential permits, tries more
\* credentials in a pass than it may, or waits longer than max-retry-interval.
THEOREM TypeCorrect == Spec => []TypeOK
<1>1. Inv => TypeOK
  BY DEF Inv
<1> QED
  BY <1>1, InvInit, InvStep, PTL DEF Spec
------------------------------------------------------------------------------
(* Waits pay.                                                               *)

\* While a request that nothing disturbed waits, some credential cools down no
\* later than the wait ends; and some is free when the pass begins.
Awaited ==
  \A r \in Requests : ~disturbed[r] =>
    /\ pc[r] = "wait" => \E c \in Creds : rest[c] <= wait[r]
    /\ pc[r] = "pick" /\ attempt[r] > 0 /\ tried[r] = {} => \E c \in Creds : rest[c] = 0

\* The pause that is chosen ends with a cooldown, or finds a credential free.
LEMMA PauseAwaits ==
  ASSUME TypeOK, NEW r \in Requests, NEW t \in Pause(r)
  PROVE  \E c \in Creds : rest[c] <= t
<1>1. CASE Pauses(r) # {}
  BY <1>1, PauseType DEF Pause, Pauses, Allowed, TypeOK
<1>2. CASE Pauses(r) = {}
  <2>1. PICK c \in Allowed(r) : TRUE
    BY PauseType
  <2>2. rest[c] = 0 /\ c \in Creds
    BY <1>2, <2>1 DEF Pauses, Allowed
  <2>3. t \in Nat
    BY PauseType, RetryAssumption
  <2> QED
    BY <2>2, <2>3
<1> QED
  BY <1>1, <1>2

\* Cooldowns and waits run down together; a result that might upset a wait
\* disturbs it.
LEMMA AwaitedStep == Inv /\ Awaited /\ [Next]_vars => Awaited'
<1> SUFFICES ASSUME Inv, Awaited, [Next]_vars PROVE Awaited'
  OBVIOUS
<1> USE DEF Inv, TypeOK, Awaited, Goto
<1>1. CASE UNCHANGED vars
  BY <1>1 DEF vars
<1>2. CASE Tick
  <2>1. \A c \in Creds : rest'[c] = IF rest[c] > 0 THEN rest[c] - 1 ELSE 0
    BY <1>2 DEF Tick
  <2>2. \A r \in Requests : wait'[r] = IF wait[r] > 0 THEN wait[r] - 1 ELSE 0
    BY <1>2 DEF Tick
  <2>3. \A c \in Creds : rest[c] \in Nat
    OBVIOUS
  <2>4. \A r \in Requests : wait[r] \in Nat
    BY RetryAssumption
  <2> QED
    BY <1>2, <2>1, <2>2, <2>3, <2>4 DEF Tick
<1>3. ASSUME NEW r \in Requests,
             \/ Begin(r) \/ Leave(r) \/ PickFails(r) \/ Open(r) \/ Abort(r) \/ Discard(r)
             \/ GiveUp(r) \/ StopWaiting(r) \/ \E c \in Creds : Pick(r, c)
      PROVE  Awaited'
  <2>1. UNCHANGED <<rest, disturbed>>
    BY <1>3 DEF Begin, Leave, PickFails, Open, Abort, Discard, GiveUp, StopWaiting, Pick
  <2>2. \A q \in Requests \ {r} : /\ pc'[q] = pc[q] /\ attempt'[q] = attempt[q]
                                  /\ tried'[q] = tried[q] /\ wait'[q] = wait[q]
    BY <1>3 DEF Begin, Leave, PickFails, Open, Abort, Discard, GiveUp, StopWaiting, Pick, Return
  <2>3. \/ pc'[r] \notin {"wait", "pick"}
        \/ pc'[r] = pc[r] /\ attempt'[r] = attempt[r] /\ tried'[r] = tried[r] /\ wait'[r] = wait[r]
        \/ pc'[r] = "pick" /\ attempt'[r] = 0
    BY <1>3 DEF Sound, Begin, Leave, PickFails, Open, Abort, Discard, GiveUp, StopWaiting, Pick,
       Return
  <2> QED
    BY <2>1, <2>2, <2>3
<1>4. ASSUME NEW r \in Requests,
             disturbed' = [q \in Requests |-> disturbed[q] \/ (q # r /\ pc[q] \in {"wait", "pick"})],
             pc'[r] \notin {"wait", "pick"} \/ (pc'[r] = "pick" /\ tried'[r] # {}),
             \A q \in Requests \ {r} : pc'[q] = pc[q]
      PROVE  Awaited'
  <2>1. \A q \in Requests \ {r} : pc[q] \in {"wait", "pick"} => disturbed'[q]
    BY <1>4
  <2>2. \A q \in Requests \ {r} : pc'[q] \in {"wait", "pick"} => disturbed'[q]
    BY <1>4, <2>1
  <2>3. pc'[r] # "wait" /\ ~(pc'[r] = "pick" /\ tried'[r] = {})
    BY <1>4
  <2> QED
    BY <2>2, <2>3
<1>5. ASSUME NEW r \in Requests,
             \/ Succeed(r) \/ End(r)
             \/ \E e \in Errors, keep \in BOOLEAN : Fail(r, e, keep)
             \/ \E e \in Errors : Break(r, e)
      PROVE  Awaited'
  <2>1. CASE Succeed(r)
    BY <1>4, <2>1 DEF Succeed, Return, Count
  <2>2. CASE End(r) /\ ~failed[r]
    BY <1>4, <2>2 DEF End, Return, Count
  <2>3. CASE End(r) /\ failed[r]
    BY <2>3 DEF End, Return
  <2>4. ASSUME NEW e \in Errors, NEW keep \in BOOLEAN, Fail(r, e, keep) PROVE Awaited'
    <3>1. pc[r] = "exec" /\ tried' = tried
      BY <2>4 DEF Fail
    <3>2. pc'[r] # "wait" /\ tried'[r] # {} /\ \A q \in Requests \ {r} : pc'[q] = pc[q]
      BY <2>4, <3>1 DEF Fail, Sound
    <3>3. pc'[r] \notin {"wait", "pick"} \/ (pc'[r] = "pick" /\ tried'[r] # {})
      BY <3>2
    <3> QED
      BY <1>4, <2>4, <3>2, <3>3 DEF Fail, Count
  <2>5. ASSUME NEW e \in Errors, Break(r, e) PROVE Awaited'
    <3>1. pc[r] = "stream" /\ pc' = pc
      BY <2>5 DEF Break
    <3>2. pc'[r] \notin {"wait", "pick"} /\ \A q \in Requests \ {r} : pc'[q] = pc[q]
      BY <3>1
    <3> QED
      BY <1>4, <2>5, <3>2 DEF Break, Count
  <2> QED
    BY <1>5, <2>1, <2>2, <2>3, <2>4, <2>5
<1>6. ASSUME NEW r \in Requests, Retry(r) PROVE Awaited'
  <2>1. PICK t \in Pause(r) : wait' = [wait EXCEPT ![r] = t]
    BY <1>6 DEF Retry
  <2>2. \E c \in Creds : rest[c] <= wait'[r]
    BY <2>1, PauseAwaits
  <2> QED
    BY <1>6, <2>1, <2>2 DEF Retry
<1>7. ASSUME NEW r \in Requests, Wake(r) PROVE Awaited'
  <2>1. ~disturbed[r] => \E c \in Creds : rest[c] = 0
    BY <1>7 DEF Wake
  <2> QED
    BY <1>7, <2>1 DEF Wake
<1> QED
  BY <1>1, <1>2, <1>3, <1>5, <1>6, <1>7 DEF Next, Step, Passes

\* No client is held by a wait only to find that everything still cools down.
THEOREM WaitsPay == Spec => []RetryFindsCredential
<1>1. Init => Awaited
  BY DEF Init, Awaited
<1>2. Awaited => RetryFindsCredential
  BY DEF Awaited, RetryFindsCredential, Free
<1> QED
  BY <1>1, <1>2, InvInit, InvStep, AwaitedStep, PTL DEF Spec

------------------------------------------------------------------------------
(* Accounting.                                                              *)

\* Until it returns, no success has been counted for a request; when it has, what
\* was counted is what it got.
Booked ==
  \A r \in Requests : IF pc[r] = "done" THEN answer[r] = "ok" <=> counted[r] = "ok"
                                         ELSE counted[r] # "ok"

\* Only steps that return count a success, and they return it.
LEMMA BookedStep == Inv /\ Booked /\ [Next]_vars => Booked'
<1> SUFFICES ASSUME Inv, Booked, [Next]_vars PROVE Booked'
  OBVIOUS
<1> USE DEF Inv, TypeOK, Booked, Goto
<1>1. CASE UNCHANGED vars \/ Tick
  BY <1>1 DEF vars, Tick
<1>2. ASSUME NEW r \in Requests,
             \/ Begin(r) \/ Leave(r) \/ PickFails(r) \/ Open(r) \/ Retry(r) \/ Wake(r)
             \/ \E c \in Creds : Pick(r, c)
      PROVE  Booked'
  BY <1>2 DEF Begin, Leave, PickFails, Open, Retry, Wake, Pick
<1>3. ASSUME NEW r \in Requests, Abort(r) \/ Discard(r) \/ GiveUp(r) \/ StopWaiting(r)
      PROVE  Booked'
  BY <1>3 DEF Abort, Discard, GiveUp, StopWaiting, Return
<1>4. ASSUME NEW r \in Requests, Succeed(r) PROVE Booked'
  BY <1>4 DEF Succeed, Count, Return
<1>5. ASSUME NEW r \in Requests, End(r) PROVE Booked'
  BY <1>5 DEF End, Count, Return
<1>6. ASSUME NEW r \in Requests, NEW e \in Errors, NEW keep \in BOOLEAN, Fail(r, e, keep) PROVE Booked'
  BY <1>6 DEF Fail, Count
<1>7. ASSUME NEW r \in Requests, NEW e \in Errors, Break(r, e) PROVE Booked'
  BY <1>7 DEF Break, Count
<1> QED
  BY <1>1, <1>2, <1>3, <1>4, <1>5, <1>6, <1>7 DEF Next, Step, Passes

\* What a client got is what was counted for the credential it came from.
THEOREM Accounted == Spec => []OutcomeCounted
<1>1. Init => Booked
  BY DEF Init, Booked
<1>2. Booked => OutcomeCounted
  BY DEF Booked, OutcomeCounted
<1> QED
  BY <1>1, <1>2, InvInit, InvStep, BookedStep, PTL DEF Spec

------------------------------------------------------------------------------
(* The relay alone.                                                         *)

Payload == [try: Nat, at: Nat, last: BOOLEAN]

Flags == live \in BOOLEAN /\ broken \in BOOLEAN /\ errs \in [holds: BOOLEAN, closed: BOOLEAN]

Shape ==
  /\ front \in Fronts /\ client \in {"here", "gone"}
  /\ producer \in {"call", "read", "retry", "send", "report", "leave", "close", "ended"}
  /\ retries \in Nat /\ sent \in Nat /\ offer \in Payload /\ converted \in Payload
  /\ data \in {"none", "open", "closed"}
  /\ converter \in {"off", "read", "send", "ended"}
  /\ handler \in {"call", "peek", "forward", "ended"}
  /\ outcome \in {"open", "done", "error", "refused", "unfinished", "gone"}
  /\ taken \in Seq(Payload)

\* Who can be where together.
Places ==
  /\ outcome = "open" <=> handler # "ended"
  /\ handler = "call" <=> producer = "call"
  /\ handler = "peek" => front \in Relay!Peeking
  /\ handler \in {"call", "peek"} => converter = "off" /\ taken = <<>>
  /\ front # "completions" => converter = "off"
  /\ front = "completions" /\ handler = "forward" => converter # "off"
  /\ data = "closed" => producer = "ended"
  /\ converter = "ended" /\ handler # "ended" => producer = "ended"
  /\ ~live => client = "gone" \/ handler = "ended"

Held == IF converter = "send" THEN 1 ELSE 0
Between == Held + (IF producer = "send" THEN 1 ELSE 0)

Reading == {"call", "read", "retry", "send", "report"}
Left == {"leave", "close", "ended"}

\* A payload is with the handler, or on its way, unless somebody gave up.
PayloadsAccounted ==
  /\ Len(taken) <= sent
  /\ handler # "ended" =>
       /\ Len(taken) + Between <= sent
       /\ live \/ producer \in Reading => sent = Len(taken) + Between
       /\ producer = "send" => offer.try = retries /\ offer.at = sent
       /\ converter = "send" => converted.try = retries /\ converted.at = Len(taken) + 1

\* What an error means, and that nothing changes once it was told.
Told ==
  /\ producer = "report" => broken
  /\ errs.holds => broken /\ producer \in Left
  /\ broken => producer \in {"report"} \cup Left
  /\ broken /\ live /\ handler # "ended" /\ producer \in Left => errs.holds
  /\ outcome = "done" /\ front \in Relay!Forwarding => producer = "ended"
  /\ outcome = "error" => broken /\ producer \in Left

\* Where the payloads are that were read and have not reached the handler
\* (PayloadsAccounted), and what an error tells of the producer that has met it
\* (Told): all that holds of a relay follows from these.
RelayInv ==
  Flags /\ Shape /\ Places /\ PayloadsAccounted /\ Told /\ Relay!OneAnswer /\ Relay!EndTold

------------------------------------------------------------------------------
\* A relay begins with nothing read, sent or told.
LEMMA RelayInvInit == Relay!Init => RelayInv
<1> SUFFICES ASSUME Relay!Init PROVE RelayInv
  OBVIOUS
<1>1. Flags
  BY DEF Relay!Init, Flags
<1>2. Shape
  BY DEF Relay!Init, Shape, Payload, Relay!Nothing
<1>3. Places
  BY DEF Relay!Init, Places
<1>4. PayloadsAccounted
  BY DEF Relay!Init, PayloadsAccounted, Held, Between, Reading
<1>5. Told
  BY DEF Relay!Init, Told
<1>6. Relay!OneAnswer /\ Relay!EndTold
  BY DEF Relay!Init, Relay!OneAnswer, Relay!EndTold
<1> QED
  BY <1>1, <1>2, <1>3, <1>4, <1>5, <1>6 DEF RelayInv

\* Every step of producer, converter, handler and client keeps the accounts.
LEMMA RelayInvStep == RelayInv /\ [Relay!Next]_Relay!vars => RelayInv'
<1> SUFFICES ASSUME RelayInv, [Relay!Next]_Relay!vars PROVE RelayInv'
  OBVIOUS
<1> USE DEF Relay!upstream, Relay!downstream, Payload
<1>1. ASSUME NEW opens \in BOOLEAN, Relay!Start(opens) PROVE RelayInv'
  <2>a. (opens => broken' = FALSE) /\ (~opens => broken' = TRUE)
    BY <1>1, Zenon DEF Relay!Start
  <2>0. Flags'
    <3>1. CASE opens
      BY <1>1, <3>1, <2>a DEF RelayInv, Flags, Relay!Start
    <3>2. CASE ~opens
      <4>1. errs' = [holds |-> TRUE, closed |-> TRUE] /\ live' = live
        BY <1>1, <3>2 DEF Relay!Start
      <4> QED
        BY <3>2, <4>1, <2>a DEF RelayInv, Flags
    <3> QED
      BY <3>1, <3>2
  <2>1. Shape'
    BY <1>1 DEF RelayInv, Shape, Relay!Start
  <2>2. Places'
    <3>1. /\ producer = "call" /\ producer' \in {"read", "ended"}
          /\ data' = "closed" => data = "closed"
      BY <1>1 DEF RelayInv, Places, Relay!Start
    <3> QED
      BY <1>1, <3>1 DEF RelayInv, Shape, Places, Relay!Start, Relay!Peeking
  <2>3. PayloadsAccounted'
    BY <1>1 DEF RelayInv, Flags, Shape, Places, PayloadsAccounted, Held, Between, Reading,
       Relay!Start
  <2>4. Told'
    <3>1. CASE opens
      BY <1>1, <3>1, <2>a DEF RelayInv, Flags, Shape, Places, Told, Left, Relay!Start
    <3>2. CASE ~opens
      BY <1>1, <3>2, <2>a DEF RelayInv, Flags, Shape, Places, Told, Left, Relay!Start
    <3> QED
      BY <3>1, <3>2
  <2>5. Relay!OneAnswer'
    BY <1>1 DEF RelayInv, Flags, Shape, Places, PayloadsAccounted, Held, Between, Relay!OneAnswer,
       Relay!Start
  <2>6. Relay!EndTold'
    BY <1>1 DEF RelayInv, Flags, Shape, Places, Told, Left, Relay!EndTold, Relay!Slack,
       Relay!Start
  <2> QED
    BY <2>0, <2>1, <2>2, <2>3, <2>4, <2>5, <2>6 DEF RelayInv
<1>2. ASSUME NEW last \in BOOLEAN, Relay!ReadPayload(last) PROVE RelayInv'
  <2>0. Flags'
    BY <1>2 DEF RelayInv, Flags, Relay!ReadPayload
  <2>1. Shape'
    BY <1>2 DEF RelayInv, Shape, Relay!ReadPayload
  <2>2. Places'
    BY <1>2 DEF RelayInv, Flags, Shape, Places, Relay!ReadPayload
  <2>3. PayloadsAccounted'
    BY <1>2 DEF RelayInv, Flags, Shape, Places, PayloadsAccounted, Held, Between, Reading,
       Relay!ReadPayload
  <2>4. Told'
    BY <1>2 DEF RelayInv, Flags, Shape, Places, Told, Left, Relay!ReadPayload
  <2>5. Relay!OneAnswer'
    BY <1>2 DEF RelayInv, Flags, Shape, Places, PayloadsAccounted, Held, Between, Relay!OneAnswer,
       Relay!ReadPayload
  <2>6. Relay!EndTold'
    BY <1>2 DEF RelayInv, Flags, Shape, Places, PayloadsAccounted, Held, Between, Reading, Told,
       Left, Relay!EndTold, Relay!Slack, Relay!ReadPayload
  <2> QED
    BY <2>0, <2>1, <2>2, <2>3, <2>4, <2>5, <2>6 DEF RelayInv
<1>3. ASSUME NEW eligible \in BOOLEAN, Relay!ReadError(eligible) PROVE RelayInv'
  <2>0. Flags'
    BY <1>3 DEF RelayInv, Flags, Relay!ReadError, Relay!MayRetry
  <2>1. Shape'
    BY <1>3 DEF RelayInv, Shape, Relay!ReadError, Relay!MayRetry
  <2>2. Places'
    BY <1>3 DEF RelayInv, Flags, Shape, Places, Relay!ReadError, Relay!MayRetry
  <2>3. PayloadsAccounted'
    BY <1>3 DEF RelayInv, Flags, Shape, Places, PayloadsAccounted, Held, Between, Reading,
       Relay!ReadError, Relay!MayRetry
  <2>4. Told'
    BY <1>3 DEF RelayInv, Flags, Shape, Places, Told, Left, Relay!ReadError, Relay!MayRetry
  <2>5. Relay!OneAnswer'
    BY <1>3 DEF RelayInv, Flags, Shape, Places, PayloadsAccounted, Held, Between, Relay!OneAnswer,
       Relay!ReadError, Relay!MayRetry
  <2>6. Relay!EndTold'
    BY <1>3 DEF RelayInv, Flags, Shape, Places, PayloadsAccounted, Held, Between, Reading, Told,
       Left, Relay!EndTold, Relay!Slack, Relay!ReadError, Relay!MayRetry
  <2> QED
    BY <2>0, <2>1, <2>2, <2>3, <2>4, <2>5, <2>6 DEF RelayInv
<1>4. CASE Relay!ReadGarbled
  <2>0. Flags'
    BY <1>4 DEF RelayInv, Flags, Relay!ReadGarbled
  <2>1. Shape'
    BY <1>4 DEF RelayInv, Shape, Relay!ReadGarbled
  <2>2. Places'
    BY <1>4 DEF RelayInv, Flags, Shape, Places, Relay!ReadGarbled
  <2>3. PayloadsAccounted'
    BY <1>4 DEF RelayInv, Flags, Shape, Places, PayloadsAccounted, Held, Between, Reading,
       Relay!ReadGarbled
  <2>4. Told'
    BY <1>4 DEF RelayInv, Flags, Shape, Places, Told, Left, Relay!ReadGarbled
  <2>5. Relay!OneAnswer'
    BY <1>4 DEF RelayInv, Flags, Shape, Places, PayloadsAccounted, Held, Between, Relay!OneAnswer,
       Relay!ReadGarbled
  <2>6. Relay!EndTold'
    BY <1>4 DEF RelayInv, Flags, Shape, Places, PayloadsAccounted, Held, Between, Reading, Told,
       Left, Relay!EndTold, Relay!Slack, Relay!ReadGarbled
  <2> QED
    BY <2>0, <2>1, <2>2, <2>3, <2>4, <2>5, <2>6 DEF RelayInv
<1>5. CASE Relay!ReadEnd
  <2>0. Flags'
    BY <1>5 DEF RelayInv, Flags, Relay!ReadEnd
  <2>1. Shape'
    BY <1>5 DEF RelayInv, Shape, Relay!ReadEnd
  <2>2. Places'
    BY <1>5 DEF RelayInv, Flags, Shape, Places, Relay!ReadEnd
  <2>3. PayloadsAccounted'
    BY <1>5 DEF RelayInv, Flags, Shape, Places, PayloadsAccounted, Held, Between, Reading,
       Relay!ReadEnd
  <2>4. Told'
    BY <1>5 DEF RelayInv, Flags, Shape, Places, Told, Left, Relay!ReadEnd
  <2>5. Relay!OneAnswer'
    BY <1>5 DEF RelayInv, Flags, Shape, Places, PayloadsAccounted, Held, Between, Relay!OneAnswer,
       Relay!ReadEnd
  <2>6. Relay!EndTold'
    BY <1>5 DEF RelayInv, Flags, Shape, Places, PayloadsAccounted, Held, Between, Reading, Told,
       Left, Relay!EndTold, Relay!Slack, Relay!ReadEnd
  <2> QED
    BY <2>0, <2>1, <2>2, <2>3, <2>4, <2>5, <2>6 DEF RelayInv
<1>6. ASSUME NEW opens \in BOOLEAN, Relay!Retried(opens) PROVE RelayInv'
  <2>0. Flags'
    BY <1>6 DEF RelayInv, Flags, Relay!Retried
  <2>1. Shape'
    BY <1>6 DEF RelayInv, Shape, Relay!Retried
  <2>2. Places'
    BY <1>6 DEF RelayInv, Flags, Shape, Places, Relay!Retried
  <2>3. PayloadsAccounted'
    BY <1>6 DEF RelayInv, Flags, Shape, Places, PayloadsAccounted, Held, Between, Reading,
       Relay!Retried
  <2>4. Told'
    BY <1>6 DEF RelayInv, Flags, Shape, Places, Told, Left, Relay!Retried
  <2>5. Relay!OneAnswer'
    BY <1>6 DEF RelayInv, Flags, Shape, Places, PayloadsAccounted, Held, Between, Relay!OneAnswer,
       Relay!Retried
  <2>6. Relay!EndTold'
    BY <1>6 DEF RelayInv, Flags, Shape, Places, PayloadsAccounted, Held, Between, Reading, Told,
       Left, Relay!EndTold, Relay!Slack, Relay!Retried
  <2> QED
    BY <2>0, <2>1, <2>2, <2>3, <2>4, <2>5, <2>6 DEF RelayInv
<1>7. CASE Relay!Report
  <2>0. Flags'
    BY <1>7 DEF RelayInv, Flags, Relay!Report
  <2>1. Shape'
    BY <1>7 DEF RelayInv, Shape, Relay!Report
  <2>2. Places'
    BY <1>7 DEF RelayInv, Flags, Shape, Places, Relay!Report
  <2>3. PayloadsAccounted'
    BY <1>7 DEF RelayInv, Flags, Shape, Places, PayloadsAccounted, Held, Between, Reading,
       Relay!Report
  <2>4. Told'
    BY <1>7 DEF RelayInv, Flags, Shape, Places, Told, Left, Relay!Report
  <2>5. Relay!OneAnswer'
    BY <1>7 DEF RelayInv, Flags, Shape, Places, PayloadsAccounted, Held, Between, Relay!OneAnswer,
       Relay!Report
  <2>6. Relay!EndTold'
    BY <1>7 DEF RelayInv, Flags, Shape, Places, PayloadsAccounted, Held, Between, Reading, Told,
       Left, Relay!EndTold, Relay!Slack, Relay!Report
  <2> QED
    BY <2>0, <2>1, <2>2, <2>3, <2>4, <2>5, <2>6 DEF RelayInv
<1>8. CASE Relay!GiveUp
  <2>0. Flags'
    BY <1>8 DEF RelayInv, Flags, Relay!GiveUp
  <2>1. Shape'
    BY <1>8 DEF RelayInv, Shape, Relay!GiveUp
  <2>2. Places'
    BY <1>8 DEF RelayInv, Flags, Shape, Places, Relay!GiveUp
  <2>3. PayloadsAccounted'
    BY <1>8 DEF RelayInv, Flags, Shape, Places, PayloadsAccounted, Held, Between, Reading,
       Relay!GiveUp
  <2>4. Told'
    BY <1>8 DEF RelayInv, Flags, Shape, Places, Told, Left, Relay!GiveUp
  <2>5. Relay!OneAnswer'
    BY <1>8 DEF RelayInv, Flags, Shape, Places, PayloadsAccounted, Held, Between, Relay!OneAnswer,
       Relay!GiveUp
  <2>6. Relay!EndTold'
    BY <1>8 DEF RelayInv, Flags, Shape, Places, PayloadsAccounted, Held, Between, Reading, Told,
       Left, Relay!EndTold, Relay!Slack, Relay!GiveUp
  <2> QED
    BY <2>0, <2>1, <2>2, <2>3, <2>4, <2>5, <2>6 DEF RelayInv
<1>9. CASE Relay!CloseErrs
  <2>0. Flags'
    BY <1>9 DEF RelayInv, Flags, Relay!CloseErrs
  <2>1. Shape'
    BY <1>9 DEF RelayInv, Shape, Relay!CloseErrs
  <2>2. Places'
    BY <1>9 DEF RelayInv, Flags, Shape, Places, Relay!CloseErrs
  <2>3. PayloadsAccounted'
    BY <1>9 DEF RelayInv, Flags, Shape, Places, PayloadsAccounted, Held, Between, Reading,
       Relay!CloseErrs
  <2>4. Told'
    BY <1>9 DEF RelayInv, Flags, Shape, Places, Told, Left, Relay!CloseErrs
  <2>5. Relay!OneAnswer'
    BY <1>9 DEF RelayInv, Flags, Shape, Places, PayloadsAccounted, Held, Between, Relay!OneAnswer,
       Relay!CloseErrs
  <2>6. Relay!EndTold'
    BY <1>9 DEF RelayInv, Flags, Shape, Places, PayloadsAccounted, Held, Between, Reading, Told,
       Left, Relay!EndTold, Relay!Slack, Relay!CloseErrs
  <2> QED
    BY <2>0, <2>1, <2>2, <2>3, <2>4, <2>5, <2>6 DEF RelayInv
<1>10. CASE Relay!CloseData
  <2>0. Flags'
    BY <1>10 DEF RelayInv, Flags, Relay!CloseData
  <2>1. Shape'
    BY <1>10 DEF RelayInv, Shape, Relay!CloseData
  <2>2. Places'
    BY <1>10 DEF RelayInv, Flags, Shape, Places, Relay!CloseData
  <2>3. PayloadsAccounted'
    BY <1>10 DEF RelayInv, Flags, Shape, Places, PayloadsAccounted, Held, Between, Reading,
       Relay!CloseData
  <2>4. Told'
    BY <1>10 DEF RelayInv, Flags, Shape, Places, Told, Left, Relay!CloseData
  <2>5. Relay!OneAnswer'
    BY <1>10 DEF RelayInv, Flags, Shape, Places, PayloadsAccounted, Held, Between,
       Relay!OneAnswer, Relay!CloseData
  <2>6. Relay!EndTold'
    BY <1>10 DEF RelayInv, Flags, Shape, Places, PayloadsAccounted, Held, Between, Reading, Told,
       Left, Relay!EndTold, Relay!Slack, Relay!CloseData
  <2> QED
    BY <2>0, <2>1, <2>2, <2>3, <2>4, <2>5, <2>6 DEF RelayInv
<1>11. CASE Relay!ConverterTakes
  <2>0. Flags'
    BY <1>11 DEF RelayInv, Flags, Relay!ConverterTakes
  <2>1. Shape'
    BY <1>11 DEF RelayInv, Shape, Relay!ConverterTakes
  <2>2. Places'
    BY <1>11 DEF RelayInv, Flags, Shape, Places, Relay!ConverterTakes
  <2>3. PayloadsAccounted'
    BY <1>11 DEF RelayInv, Flags, Shape, Places, PayloadsAccounted, Held, Between, Reading,
       Relay!ConverterTakes
  <2>4. Told'
    BY <1>11 DEF RelayInv, Flags, Shape, Places, Told, Left, Relay!ConverterTakes
  <2>5. Relay!OneAnswer'
    BY <1>11 DEF RelayInv, Flags, Shape, Places, PayloadsAccounted, Held, Between,
       Relay!OneAnswer, Relay!ConverterTakes
  <2>6. Relay!EndTold'
    BY <1>11 DEF RelayInv, Flags, Shape, Places, PayloadsAccounted, Held, Between, Reading, Told,
       Left, Relay!EndTold, Relay!Slack, Relay!ConverterTakes
  <2> QED
    BY <2>0, <2>1, <2>2, <2>3, <2>4, <2>5, <2>6 DEF RelayInv
<1>12. CASE Relay!ConverterEnds
  <2>0. Flags'
    BY <1>12 DEF RelayInv, Flags, Relay!ConverterEnds
  <2>1. Shape'
    BY <1>12 DEF RelayInv, Shape, Relay!ConverterEnds
  <2>2. Places'
    BY <1>12 DEF RelayInv, Flags, Shape, Places, Relay!ConverterEnds
  <2>3. PayloadsAccounted'
    BY <1>12 DEF RelayInv, Flags, Shape, Places, PayloadsAccounted, Held, Between, Reading,
       Relay!ConverterEnds
  <2>4. Told'
    BY <1>12 DEF RelayInv, Flags, Shape, Places, Told, Left, Relay!ConverterEnds
  <2>5. Relay!OneAnswer'
    BY <1>12 DEF RelayInv, Flags, Shape, Places, PayloadsAccounted, Held, Between,
       Relay!OneAnswer, Relay!ConverterEnds
  <2>6. Relay!EndTold'
    BY <1>12 DEF RelayInv, Flags, Shape, Places, PayloadsAccounted, Held, Between, Reading, Told,
       Left, Relay!EndTold, Relay!Slack, Relay!ConverterEnds
  <2> QED
    BY <2>0, <2>1, <2>2, <2>3, <2>4, <2>5, <2>6 DEF RelayInv
<1>13. CASE Relay!TakeChunk
  <2>0. Flags'
    BY <1>13 DEF RelayInv, Flags, Relay!TakeChunk, Relay!Waiting, Relay!Offered, Relay!Offer,
       Relay!Converting, Relay!End
  <2>1. Shape'
    BY <1>13 DEF RelayInv, Shape, Relay!TakeChunk, Relay!Waiting, Relay!Offered, Relay!Offer,
       Relay!Converting, Relay!End
  <2>2. Places'
    BY <1>13 DEF RelayInv, Flags, Shape, Places, Relay!TakeChunk, Relay!Waiting, Relay!Offered,
       Relay!Offer, Relay!Converting, Relay!End
  <2>3. PayloadsAccounted'
    BY <1>13 DEF RelayInv, Flags, Shape, Places, PayloadsAccounted, Held, Between, Reading,
       Relay!TakeChunk, Relay!Waiting, Relay!Offered, Relay!Offer, Relay!Converting, Relay!End
  <2>4. Told'
    BY <1>13 DEF RelayInv, Flags, Shape, Places, Told, Left, Relay!Forwarding, Relay!TakeChunk,
       Relay!Waiting, Relay!Offered, Relay!Offer, Relay!Converting, Relay!End
  <2>5. Relay!OneAnswer'
    <3>1. Relay!Offer \in Payload /\ Relay!Offer.try = retries /\ Relay!Offer.at = Len(taken) + 1
      <4>1. CASE Relay!Converting
        BY <1>13, <4>1 DEF RelayInv, Shape, PayloadsAccounted, Relay!TakeChunk, Relay!Waiting,
           Relay!Offered, Relay!Offer
      <4>2. CASE ~Relay!Converting
        <5>1. producer = "send" /\ converter # "send" /\ handler # "ended" /\ Relay!Offer = offer
          BY <1>13, <4>2 DEF RelayInv, Shape, Places, Relay!TakeChunk, Relay!Waiting,
             Relay!Offered, Relay!Offer, Relay!Converting
        <5> QED
          BY <5>1 DEF RelayInv, Shape, PayloadsAccounted, Held, Between, Reading
      <4> QED
        BY <4>1, <4>2
    <3>2. taken' = Append(taken, Relay!Offer) /\ retries' = retries
      BY <1>13 DEF Relay!TakeChunk
    <3>3. /\ Len(taken') = Len(taken) + 1 /\ taken'[Len(taken) + 1] = Relay!Offer
          /\ \A i \in 1..Len(taken) : taken'[i] = taken[i]
      BY <3>1, <3>2 DEF RelayInv, Shape
    <3> QED
      BY <3>1, <3>2, <3>3 DEF RelayInv, Shape, Relay!OneAnswer
  <2>6. Relay!EndTold'
    BY <1>13 DEF RelayInv, Flags, Shape, Places, PayloadsAccounted, Held, Between, Reading, Told,
       Left, Relay!EndTold, Relay!Slack, Relay!TakeChunk, Relay!Waiting, Relay!Offered,
       Relay!Offer, Relay!Converting, Relay!End
  <2> QED
    BY <2>0, <2>1, <2>2, <2>3, <2>4, <2>5, <2>6 DEF RelayInv
<1>14. CASE Relay!TakeError
  <2>0. Flags'
    BY <1>14 DEF RelayInv, Flags, Relay!TakeError, Relay!Waiting, Relay!End
  <2>1. Shape'
    BY <1>14 DEF RelayInv, Shape, Relay!TakeError, Relay!Waiting, Relay!End
  <2>2. Places'
    BY <1>14 DEF RelayInv, Flags, Shape, Places, Relay!TakeError, Relay!Waiting, Relay!End
  <2>3. PayloadsAccounted'
    BY <1>14 DEF RelayInv, Flags, Shape, Places, PayloadsAccounted, Held, Between, Reading,
       Relay!TakeError, Relay!Waiting, Relay!End
  <2>4. Told'
    BY <1>14 DEF RelayInv, Flags, Shape, Places, Told, Left, Relay!TakeError, Relay!Waiting,
       Relay!End
  <2>5. Relay!OneAnswer'
    BY <1>14 DEF RelayInv, Flags, Shape, Places, PayloadsAccounted, Held, Between,
       Relay!OneAnswer, Relay!TakeError, Relay!Waiting, Relay!End
  <2>6. Relay!EndTold'
    BY <1>14 DEF RelayInv, Flags, Shape, Places, PayloadsAccounted, Held, Between, Reading, Told,
       Left, Relay!EndTold, Relay!Slack, Relay!TakeError, Relay!Waiting, Relay!End
  <2> QED
    BY <2>0, <2>1, <2>2, <2>3, <2>4, <2>5, <2>6 DEF RelayInv
<1>15. CASE Relay!TakeClosed
  <2>0. Flags'
    BY <1>15 DEF RelayInv, Flags, Relay!TakeClosed, Relay!Waiting, Relay!Closed, Relay!Converting,
       Relay!WhenClosed, Relay!End
  <2>1. Shape'
    BY <1>15 DEF RelayInv, Shape, Relay!TakeClosed, Relay!Waiting, Relay!Closed, Relay!Converting,
       Relay!WhenClosed, Relay!End
  <2>2. Places'
    BY <1>15 DEF RelayInv, Flags, Shape, Places, Relay!TakeClosed, Relay!Waiting, Relay!Closed,
       Relay!Converting, Relay!WhenClosed, Relay!End
  <2>3. PayloadsAccounted'
    BY <1>15 DEF RelayInv, Flags, Shape, Places, PayloadsAccounted, Held, Between, Reading,
       Relay!TakeClosed, Relay!Waiting, Relay!Closed, Relay!Converting, Relay!WhenClosed,
       Relay!End
  <2>4. Told'
    BY <1>15 DEF RelayInv, Flags, Shape, Places, Told, Left, Relay!TakeClosed, Relay!Waiting,
       Relay!Closed, Relay!Converting, Relay!WhenClosed, Relay!End
  <2>5. Relay!OneAnswer'
    BY <1>15 DEF RelayInv, Flags, Shape, Places, PayloadsAccounted, Held, Between,
       Relay!OneAnswer, Relay!TakeClosed, Relay!Waiting, Relay!Closed, Relay!Converting,
       Relay!WhenClosed, Relay!End
  <2>6. Relay!EndTold'
    <3> SUFFICES ASSUME client = "here" PROVE Relay!EndTold'
      BY <1>15 DEF Relay!EndTold, Relay!TakeClosed
    <3>1. /\ live /\ handler # "ended" /\ outcome' = Relay!WhenClosed
          /\ taken' = taken /\ sent' = sent /\ broken' = broken
      BY <1>15 DEF RelayInv, Flags, Places, Relay!TakeClosed, Relay!Waiting, Relay!End
    <3>2. producer = "ended" /\ converter # "send"
      BY <1>15, <3>1 DEF RelayInv, Shape, Places, Relay!TakeClosed, Relay!Waiting, Relay!Closed,
         Relay!Converting
    <3>3. sent = Len(taken) /\ (broken => errs.holds)
      BY <3>1, <3>2 DEF RelayInv, Shape, Flags, PayloadsAccounted, Told, Held, Between, Left
    <3>4. outcome' = "done" /\ front \in Relay!Forwarding /\ taken # <<>> => ~broken
      <4> SUFFICES ASSUME handler = "forward", front \in Relay!Forwarding, broken
                   PROVE  Relay!WhenClosed = "error"
        BY <1>15, <3>1 DEF RelayInv, Places, Relay!TakeClosed, Relay!Waiting
      <4>1. errs.holds
        BY <3>3
      <4>2. Relay!WhenClosed = IF errs.holds THEN "error" ELSE "done"
        BY DEF Relay!WhenClosed, Relay!Forwarding
      <4> QED
        BY <4>1, <4>2, Zenon
    <3>5. outcome' = "done" /\ front \in Relay!Completing \ {"images"}
            => \E i \in 1..Len(taken) : taken[i].last
      BY <1>15, <3>1 DEF RelayInv, Places, Relay!TakeClosed, Relay!Waiting, Relay!WhenClosed,
         Relay!Forwarding, Relay!Completing, Relay!Peeking
    <3>6. outcome' = "error" => broken
      BY <1>15, <3>1 DEF RelayInv, Flags, Places, Told, Relay!TakeClosed, Relay!Waiting,
         Relay!WhenClosed
    <3> QED
      BY <1>15, <3>1, <3>3, <3>4, <3>5, <3>6 DEF RelayInv, Shape, Relay!EndTold, Relay!Slack,
         Relay!TakeClosed
  <2> QED
    BY <2>0, <2>1, <2>2, <2>3, <2>4, <2>5, <2>6 DEF RelayInv
<1>16. CASE Relay!Leave
  <2>0. Flags'
    BY <1>16 DEF RelayInv, Flags, Relay!Leave, Relay!Waiting, Relay!End
  <2>1. Shape'
    BY <1>16 DEF RelayInv, Shape, Relay!Leave, Relay!Waiting, Relay!End
  <2>2. Places'
    BY <1>16 DEF RelayInv, Flags, Shape, Places, Relay!Leave, Relay!Waiting, Relay!End
  <2>3. PayloadsAccounted'
    BY <1>16 DEF RelayInv, Flags, Shape, Places, PayloadsAccounted, Held, Between, Reading,
       Relay!Leave, Relay!Waiting, Relay!End
  <2>4. Told'
    BY <1>16 DEF RelayInv, Flags, Shape, Places, Told, Left, Relay!Leave, Relay!Waiting, Relay!End
  <2>5. Relay!OneAnswer'
    BY <1>16 DEF RelayInv, Flags, Shape, Places, PayloadsAccounted, Held, Between,
       Relay!OneAnswer, Relay!Leave, Relay!Waiting, Relay!End
  <2>6. Relay!EndTold'
    BY <1>16 DEF RelayInv, Flags, Shape, Places, PayloadsAccounted, Held, Between, Reading, Told,
       Left, Relay!EndTold, Relay!Slack, Relay!Leave, Relay!Waiting, Relay!End
  <2> QED
    BY <2>0, <2>1, <2>2, <2>3, <2>4, <2>5, <2>6 DEF RelayInv
<1>17. CASE Relay!ClientLeaves
  <2>0. Flags'
    BY <1>17 DEF RelayInv, Flags, Relay!ClientLeaves
  <2>1. Shape'
    BY <1>17 DEF RelayInv, Shape, Relay!ClientLeaves
  <2>2. Places'
    BY <1>17 DEF RelayInv, Flags, Shape, Places, Relay!ClientLeaves
  <2>3. PayloadsAccounted'
    BY <1>17 DEF RelayInv, Flags, Shape, Places, PayloadsAccounted, Held, Between, Reading,
       Relay!ClientLeaves
  <2>4. Told'
    BY <1>17 DEF RelayInv, Flags, Shape, Places, Told, Left, Relay!ClientLeaves
  <2>5. Relay!OneAnswer'
    BY <1>17 DEF RelayInv, Flags, Shape, Places, PayloadsAccounted, Held, Between,
       Relay!OneAnswer, Relay!ClientLeaves
  <2>6. Relay!EndTold'
    BY <1>17 DEF RelayInv, Flags, Shape, Places, PayloadsAccounted, Held, Between, Reading, Told,
       Left, Relay!EndTold, Relay!Slack, Relay!ClientLeaves
  <2> QED
    BY <2>0, <2>1, <2>2, <2>3, <2>4, <2>5, <2>6 DEF RelayInv
<1>18. CASE Relay!ContextFollows
  <2>0. Flags'
    BY <1>18 DEF RelayInv, Flags, Relay!ContextFollows
  <2>1. Shape'
    BY <1>18 DEF RelayInv, Shape, Relay!ContextFollows
  <2>2. Places'
    BY <1>18 DEF RelayInv, Flags, Shape, Places, Relay!ContextFollows
  <2>3. PayloadsAccounted'
    BY <1>18 DEF RelayInv, Flags, Shape, Places, PayloadsAccounted, Held, Between, Reading,
       Relay!ContextFollows
  <2>4. Told'
    BY <1>18 DEF RelayInv, Flags, Shape, Places, Told, Left, Relay!ContextFollows
  <2>5. Relay!OneAnswer'
    BY <1>18 DEF RelayInv, Flags, Shape, Places, PayloadsAccounted, Held, Between,
       Relay!OneAnswer, Relay!ContextFollows
  <2>6. Relay!EndTold'
    BY <1>18 DEF RelayInv, Flags, Shape, Places, PayloadsAccounted, Held, Between, Reading, Told,
       Left, Relay!EndTold, Relay!Slack, Relay!ContextFollows
  <2> QED
    BY <2>0, <2>1, <2>2, <2>3, <2>4, <2>5, <2>6 DEF RelayInv
<1>19. CASE UNCHANGED Relay!vars
  <2>0. Flags'
    BY <1>19 DEF RelayInv, Flags, Relay!vars
  <2>1. Shape'
    BY <1>19 DEF RelayInv, Shape, Relay!vars
  <2>2. Places'
    BY <1>19 DEF RelayInv, Places, Relay!vars
  <2>3. PayloadsAccounted'
    BY <1>19 DEF RelayInv, PayloadsAccounted, Held, Between, Relay!vars
  <2>4. Told'
    BY <1>19 DEF RelayInv, Told, Relay!vars
  <2>5. Relay!OneAnswer'
    BY <1>19 DEF RelayInv, Relay!OneAnswer, Relay!vars
  <2>6. Relay!EndTold'
    BY <1>19 DEF RelayInv, Relay!EndTold, Relay!Slack, Relay!vars
  <2> QED
    BY <2>0, <2>1, <2>2, <2>3, <2>4, <2>5, <2>6 DEF RelayInv
<1> QED
  BY <1>1, <1>2, <1>3, <1>4, <1>5, <1>6, <1>7, <1>8, <1>9, <1>10, <1>11, <1>12, <1>13, <1>14,
     <1>15, <1>16, <1>17, <1>18, <1>19
  DEF Relay!Next, Relay!Read, Relay!Producer, Relay!Ends, Relay!Converter, Relay!Handler

\* Within the bounds: every attempt but the first is a retry the producer may make.
Bounded == retries <= MaxRetries /\ sent <= MaxChunks

\* No step leaves the bounds.
LEMMA BoundsHold ==
  ASSUME MaxRetries \in Nat, MaxChunks \in Nat, Shape, Bounded, [Relay!Next]_Relay!vars
  PROVE  Bounded'
<1> USE DEF Shape, Bounded, Relay!upstream, Relay!downstream
<1>1. ASSUME NEW opens \in BOOLEAN, Relay!Start(opens) \/ Relay!Retried(opens) PROVE Bounded'
  BY <1>1 DEF Relay!Start, Relay!Retried
<1>2. CASE Relay!Read
  BY <1>2 DEF Relay!Read, Relay!ReadPayload, Relay!ReadError, Relay!MayRetry, Relay!ReadGarbled,
     Relay!ReadEnd
<1>3. CASE Relay!Ends \/ Relay!Converter \/ Relay!Handler
  BY <1>3 DEF Relay!Ends, Relay!Report, Relay!GiveUp, Relay!CloseErrs, Relay!CloseData,
     Relay!Converter, Relay!ConverterTakes, Relay!ConverterEnds, Relay!Handler, Relay!TakeChunk,
     Relay!TakeError, Relay!TakeClosed, Relay!Leave
<1>4. CASE Relay!ClientLeaves \/ Relay!ContextFollows \/ UNCHANGED Relay!vars
  BY <1>4 DEF Relay!ClientLeaves, Relay!ContextFollows, Relay!vars
<1> QED
  BY <1>1, <1>2, <1>3, <1>4 DEF Relay!Next, Relay!Producer

------------------------------------------------------------------------------
\* The answer a client gets comes from one attempt only, whole and in order: a
\* stream that broke before its first payload leaves no trace in it.
THEOREM OneAnswerAlways == Relay!Spec => []Relay!OneAnswer
<1>1. Relay!Spec => []RelayInv
  BY RelayInvInit, RelayInvStep, PTL DEF Relay!Spec
<1>2. RelayInv => Relay!OneAnswer
  BY DEF RelayInv
<1> QED
  BY <1>1, <1>2, PTL

\* A client that stays and has got a payload is told how the answer ended, except
\* where WhenClosed does not look.
THEOREM EndAlwaysTold == Relay!Spec => []Relay!EndTold
<1>1. Relay!Spec => []RelayInv
  BY RelayInvInit, RelayInvStep, PTL DEF Relay!Spec
<1>2. RelayInv => Relay!EndTold
  BY DEF RelayInv
<1> QED
  BY <1>1, <1>2, PTL

\* The retries stay within their limit, and the state within its types.
THEOREM RelayTyped ==
  ASSUME MaxRetries \in Nat, MaxChunks \in Nat
  PROVE  Relay!Spec => []Relay!TypeOK
<1>1. Relay!Init => RelayInv /\ Bounded
  BY RelayInvInit DEF Relay!Init, Bounded
<1>2. RelayInv /\ Bounded /\ [Relay!Next]_Relay!vars => RelayInv' /\ Bounded'
  BY RelayInvStep, BoundsHold DEF RelayInv
<1>3. RelayInv /\ Bounded => Relay!TypeOK
  BY DEF RelayInv, Flags, Shape, Places, Told, Bounded, Relay!TypeOK
<1> QED
  BY <1>1, <1>2, <1>3, PTL DEF Relay!Spec

------------------------------------------------------------------------------
(* What joins it to the Manager.                                            *)

\* A step of the Manager's leaves the relay alone, one of the relay's is its own.
LEMMA RelaySteps == [StreamedNext]_StreamedVars => [Relay!Next]_relay
<1> SUFFICES ASSUME [StreamedNext]_StreamedVars PROVE [Relay!Next]_relay
  OBVIOUS
<1>1. CASE Relays
  <2>1. CASE Reads
    BY <2>1 DEF Reads, Relay!Next, Relay!Read, Relay!Producer
  <2>2. CASE Relay!Ends \/ Relay!Converter \/ Relay!Handler \/ Relay!ContextFollows
    BY <2>2 DEF Relay!Next, Relay!Producer
  <2> QED
    BY <1>1, <2>1, <2>2 DEF Relays
<1>2. CASE Relay!ClientLeaves
  BY <1>2 DEF Relay!Next
<1>3. CASE UNCHANGED relay
  BY <1>3
<1>4. CASE UNCHANGED StreamedVars
  BY <1>4 DEF StreamedVars
<1> QED
  BY <1>1, <1>2, <1>3, <1>4 DEF StreamedNext, Progress

\* The relay's steps leave the Manager alone, the Manager's are those of requests.
LEMMA ManagerSteps == [StreamedNext]_StreamedVars => [Next]_vars
<1>a. Called \subseteq Requests
  BY StreamedAssumption, RetryAssumption DEF Called
<1> SUFFICES ASSUME [StreamedNext]_StreamedVars PROVE [Next]_vars
  OBVIOUS
<1>1. ASSUME NEW r \in Called, Manages(r) PROVE Next
  <2>1. Begin(r) \/ Leave(r) \/ Step(r)
    BY <1>1 DEF Manages, Sends, Step
  <2> QED
    BY <1>a, <2>1 DEF Next
<1>2. CASE Tick
  BY <1>2 DEF Next
<1>3. CASE UNCHANGED vars
  BY <1>3
<1>4. CASE UNCHANGED StreamedVars
  BY <1>4 DEF StreamedVars
<1> QED
  BY <1>1, <1>2, <1>3, <1>4 DEF StreamedNext, Progress

------------------------------------------------------------------------------
\* The relay of a request that goes through the Manager is the relay of any.
THEOREM ImplementsRelay == StreamedSpec => Relay!Spec
<1>1. StreamedInit => Relay!Init
  BY DEF StreamedInit
<1>2. [StreamedNext]_StreamedVars => [Relay!Next]_Relay!vars
  BY RelaySteps DEF relay, Relay!vars
<1> QED
  BY <1>1, <1>2, PTL DEF StreamedSpec, Relay!Spec

\* And its calls are requests like any to the Manager.
THEOREM ImplementsManager == StreamedSpec => Init /\ [][Next]_vars
<1>1. StreamedInit => Init
  BY DEF StreamedInit
<1>2. [StreamedNext]_StreamedVars => [Next]_vars
  BY ManagerSteps
<1> QED
  BY <1>1, <1>2, PTL DEF StreamedSpec

------------------------------------------------------------------------------
(* What joins the two.                                                      *)

\* The calls before the current one have ended without success, those after it
\* have not begun.
Past == \A i \in 1..Len(Calls) : i <= retries => pc[Calls[i]] = "done" /\ counted[Calls[i]] # "ok"
Future ==
  \A i \in 1..Len(Calls) :
    i > retries + 1 => pc[Calls[i]] = "idle" /\ counted[Calls[i]] = "none" /\ ~failed[Calls[i]]

\* The current one, and how far the relay has followed it.
Present ==
  /\ failed[Current] => pc[Current] = "stream" /\ counted[Current] = "failed" /\ sent > 0
  /\ counted[Current] = "ok" => pc[Current] = "done" /\ sent > 0
  /\ producer = "retry" => sent = 0
  /\ sent > 0 => pc[Current] \in {"stream", "done"}
  /\ broken /\ sent > 0 /\ front \notin Relay!Checked =>
       counted[Current] = "failed" /\ (pc[Current] = "done" \/ failed[Current])
  /\ pc[Current] = "done" /\ sent > 0 /\ live /\ ~broken => counted[Current] = "ok"

\* A producer that left without an error, to a client that stays, has met the end
\* of a stream that was counted a success.
Followed ==
  /\ producer \in Left /\ ~broken /\ client = "here"
  /\ handler # "ended" \/ (outcome = "done" /\ front \in Relay!Forwarding)
  => pc[Current] = "done" /\ counted[Current] = "ok"

\* The Manager's context is the relay's.
Staying == live => \A i \in 1..Len(Calls) : ~gone[Calls[i]]

Joined ==
  /\ Inv /\ RelayInv /\ retries \in 0..MaxRetries
  /\ Past /\ Future /\ Staying /\ Present /\ Followed

\* What a step of the Manager's can do to the call r: a step of a pass, the end of
\* its context, or one of the steps of its stream.
Early(r) ==
  /\ pc[r] \notin {"stream", "done"} /\ ~failed'[r] /\ counted'[r] # "ok" /\ gone'[r] = gone[r]
Leaving(r) ==
  ~live /\ pc'[r] = pc[r] /\ failed'[r] = failed[r] /\ counted'[r] = counted[r]
Breaking(r) ==
  /\ pc[r] = "stream" /\ sent > 0 /\ pc'[r] = "stream" /\ gone'[r] = gone[r]
  /\ failed'[r] /\ counted'[r] = "failed"
Ending(r) ==
  /\ pc[r] = "stream" /\ sent > 0 /\ pc'[r] = "done" /\ ~failed'[r] /\ gone'[r] = gone[r]
  /\ IF failed[r] THEN broken /\ counted'[r] = counted[r] ELSE counted'[r] = "ok"
Discarding(r) ==
  /\ pc[r] = "stream" /\ gone[r] /\ pc'[r] = "done" /\ ~failed'[r] /\ gone'[r] = gone[r]
  /\ counted'[r] = counted[r]

\* Which calls there are.
LEMMA CallsAre ==
  ASSUME retries \in 0..MaxRetries
  PROVE  /\ retries + 1 \in 1..Len(Calls) /\ Current \in Streams /\ Streams \subseteq Requests
         /\ \A i \in 1..Len(Calls) : Calls[i] \in Streams /\ (i # retries + 1 => Calls[i] # Current)
<1>1. /\ MaxRetries \in Nat /\ Len(Calls) = MaxRetries + 1 /\ Calls \in Seq(Streams)
      /\ Streams \subseteq Requests
  BY StreamedAssumption, RetryAssumption
<1>2. retries + 1 \in 1..Len(Calls)
  BY <1>1
<1>3. \A i \in 1..Len(Calls) : Calls[i] \in Streams
  BY <1>1
<1> QED
  BY <1>1, <1>2, <1>3, StreamedAssumption DEF Current

\* Only the current call can take a step.
LEMMA OnlyCurrent ==
  ASSUME Joined, NEW r \in Called, Manages(r)
  PROVE  r = Current
<1>1. PICK i \in 1..Len(Calls) : r = Calls[i]
  BY DEF Called
<1>2. (pc[r] # "idle" /\ pc[r] # "done") \/ r = Current
  BY DEF Manages, Passes, Sends, Pick, PickFails, Succeed, Abort, Open, Fail, Retry, GiveUp, Wake,
         StopWaiting, Break, End, Discard, Leave
<1>3. i \in Int /\ retries \in Int
  BY DEF Joined
<1>4. i <= retries => pc[r] = "done"
  BY <1>1 DEF Joined, Past
<1>5. i > retries + 1 => pc[r] = "idle"
  BY <1>1 DEF Joined, Future
<1>6. i = retries + 1 => r = Current
  BY <1>1 DEF Current
<1> QED
  BY <1>2, <1>3, <1>4, <1>5, <1>6

\* And the step is one of these.
LEMMA ManagerMoves ==
  ASSUME Joined, NEW r \in Called, Manages(r)
  PROVE  /\ \A q \in Requests \ {r} : /\ pc'[q] = pc[q] /\ counted'[q] = counted[q]
                                      /\ failed'[q] = failed[q] /\ gone'[q] = gone[q]
         /\ Early(r) \/ Leaving(r) \/ Breaking(r) \/ Ending(r) \/ Discarding(r)
<1>1. r = Current /\ r \in Streams /\ r \in Requests
  BY OnlyCurrent, CallsAre DEF Joined
<1>2. /\ failed[r] => pc[r] = "stream"
      /\ counted[r] = "ok" => pc[r] = "done"
  BY <1>1 DEF Joined, Present
<1> USE DEF Joined, Inv, TypeOK, Goto, Return, Count
<1>3. CASE Begin(r)
  BY <1>1, <1>2, <1>3 DEF Begin, Early
<1>4. CASE ~live /\ Leave(r)
  BY <1>1, <1>4 DEF Leave, Leaving
<1>5. CASE (\E c \in Creds : Pick(r, c)) \/ PickFails(r) \/ Retry(r) \/ Wake(r) \/ Open(r)
  BY <1>1, <1>2, <1>5 DEF Pick, PickFails, Retry, Wake, Open, Early
<1>6. CASE Abort(r) \/ GiveUp(r) \/ StopWaiting(r)
  BY <1>1, <1>2, <1>6 DEF Abort, GiveUp, StopWaiting, Early
<1>7. ASSUME NEW e \in Errors, NEW keep \in BOOLEAN, Fail(r, e, keep)
      PROVE  /\ \A q \in Requests \ {r} : /\ pc'[q] = pc[q] /\ counted'[q] = counted[q]
                                          /\ failed'[q] = failed[q] /\ gone'[q] = gone[q]
             /\ Early(r)
  BY <1>1, <1>2, <1>7 DEF Fail, Early
<1>8. CASE Succeed(r)
  BY <1>1, <1>8 DEF Succeed
<1>9. CASE \E e \in Errors : sent > 0 /\ Break(r, e)
  BY <1>1, <1>9 DEF Break, Breaking
<1>10. CASE sent > 0 /\ (failed[r] /\ r = Current => broken) /\ End(r)
  BY <1>1, <1>10 DEF End, Ending
<1>11. CASE Discard(r)
  BY <1>1, <1>11 DEF Discard, Discarding
<1> QED
  BY <1>3, <1>4, <1>5, <1>6, <1>7, <1>8, <1>9, <1>10, <1>11 DEF Manages, Passes, Sends

\* The Manager's steps keep what joins the two.
LEMMA ManagerJoins ==
  ASSUME Joined, NEW r \in Called, Manages(r), UNCHANGED relay
  PROVE  Past' /\ Future' /\ Staying' /\ Present' /\ Followed'
<1>1. /\ r = Current /\ r \in Requests /\ Streams \subseteq Requests /\ retries \in Int
      /\ \A i \in 1..Len(Calls) : Calls[i] \in Requests /\ (i # retries + 1 => Calls[i] # r)
  BY OnlyCurrent, CallsAre DEF Joined
<1>2. /\ \A q \in Requests \ {r} : /\ pc'[q] = pc[q] /\ counted'[q] = counted[q]
                                   /\ failed'[q] = failed[q] /\ gone'[q] = gone[q]
      /\ Early(r) \/ Leaving(r) \/ Breaking(r) \/ Ending(r) \/ Discarding(r)
  BY ManagerMoves
<1>3. Current' = r
  BY <1>1 DEF relay, Current
<1>4. Past' /\ Future'
  BY <1>1, <1>2 DEF Joined, Past, Future, relay
<1>5. Staying'
  <2>1. live => gone'[r] = gone[r]
    BY <1>2 DEF Early, Leaving, Breaking, Ending, Discarding
  <2> QED
    BY <1>1, <1>2, <2>1 DEF Joined, Staying, relay
<1>6. live => ~gone[r]
  BY <1>1, CallsAre DEF Joined, Staying, Current
<1>7. Present'
  <2>1. CASE Early(r)
    BY <1>1, <1>3, <2>1 DEF Joined, Present, Early, relay
  <2>2. CASE Leaving(r)
    BY <1>1, <1>3, <2>2 DEF Joined, Present, Leaving, relay
  <2>3. CASE Breaking(r)
    BY <1>1, <1>3, <2>3 DEF Joined, Present, Breaking, relay
  <2>4. CASE Ending(r)
    BY <1>1, <1>3, <2>4 DEF Joined, Present, Ending, relay
  <2>5. CASE Discarding(r)
    BY <1>1, <1>3, <1>6, <2>5 DEF Joined, Present, Discarding, relay
  <2> QED
    BY <1>2, <2>1, <2>2, <2>3, <2>4, <2>5
<1>8. Followed'
  BY <1>1, <1>2, <1>3 DEF Joined, Followed, Early, Leaving, Breaking, Ending, Discarding, relay
<1> QED
  BY <1>4, <1>5, <1>7, <1>8

\* So do the relay's, which leave the calls alone.
LEMMA RelayJoins ==
  ASSUME Joined, RelayInv', Relays \/ Relay!ClientLeaves, UNCHANGED vars
  PROVE  retries' \in 0..MaxRetries /\ Past' /\ Future' /\ Staying' /\ Present' /\ Followed'
<1> USE DEF Relay!upstream, Relay!downstream, vars
<1>a. /\ retries \in 0..MaxRetries /\ MaxRetries \in Nat /\ Len(Calls) = MaxRetries + 1
      /\ retries + 1 \in 1..Len(Calls)
  BY CallsAre, StreamedAssumption DEF Joined
<1>b. ASSUME retries' = retries
      PROVE  retries' \in 0..MaxRetries /\ Past' /\ Future' /\ Current' = Current
  BY <1>a, <1>b DEF Joined, Past, Future, Current
<1>c. ASSUME live' => live PROVE Staying'
  BY <1>c DEF Joined, Staying
<1>d. ASSUME retries' = retries, sent' = sent, broken' = broken, front' = front, live' => live,
             producer' = "retry" => producer = "retry"
      PROVE  /\ retries' \in 0..MaxRetries /\ Current' = Current
             /\ Past' /\ Future' /\ Staying' /\ Present'
  BY <1>b, <1>c, <1>d DEF Joined, Present
<1>e. /\ broken => producer \in {"report"} \cup Left
      /\ producer = "report" => broken
      /\ errs.holds => broken
      /\ ~live => client = "gone" \/ handler = "ended"
      /\ outcome = "done" /\ front \in Relay!Forwarding => producer = "ended"
      /\ handler = "call" => sent = 0
      /\ live \in BOOLEAN /\ broken \in BOOLEAN /\ sent \in Nat
  BY DEF Joined, RelayInv, Flags, Shape, Places, Told,
     PayloadsAccounted,
         Held, Between, Reading, Relay!Forwarding, Relay!Forwarding
<1> USE DEF Left
<1>1. ASSUME NEW opens \in BOOLEAN, Returned(opens), Relay!Start(opens)
      PROVE  retries' \in 0..MaxRetries /\ Past' /\ Future' /\ Staying' /\ Present' /\ Followed'
  <2>1. sent = 0 /\ sent' = 0 /\ retries' = retries /\ live' = live /\ producer' # "retry"
    BY <1>1, <1>e DEF Relay!Start
  <2>2. Present'
    BY <1>b, <2>1 DEF Joined, Present
  <2>3. Followed'
    BY <1>1 DEF Relay!Start, Followed
  <2> QED
    BY <1>b, <1>c, <2>1, <2>2, <2>3
<1>2. ASSUME NEW last \in BOOLEAN, Flowing, Relay!ReadPayload(last)
      PROVE  retries' \in 0..MaxRetries /\ Past' /\ Future' /\ Staying' /\ Present' /\ Followed'
  <2>1. /\ sent' = sent + 1 /\ retries' = retries /\ live' = live /\ producer' = "send"
        /\ broken' = broken /\ ~broken
    BY <1>2, <1>e DEF Relay!ReadPayload
  <2>2. Present'
    BY <1>2, <1>b, <1>e, <2>1 DEF Joined, Present, Flowing
  <2>3. Followed'
    BY <2>1 DEF Followed
  <2> QED
    BY <1>b, <1>c, <2>1, <2>2, <2>3
<1>3. CASE Flowing /\ Relay!ReadGarbled
  <2>1. /\ sent' = sent /\ retries' = retries /\ live' = live /\ producer' = "report"
        /\ front' = front /\ front \in Relay!Checked /\ broken'
    BY <1>3 DEF Relay!ReadGarbled
  <2>2. Present'
    BY <1>b, <2>1 DEF Joined, Present
  <2>3. Followed'
    BY <2>1 DEF Followed
  <2> QED
    BY <1>b, <1>c, <2>1, <2>2, <2>3
<1>4. ASSUME NEW eligible \in BOOLEAN, Failing, Relay!ReadError(eligible)
      PROVE  retries' \in 0..MaxRetries /\ Past' /\ Future' /\ Staying' /\ Present' /\ Followed'
  <2>1. CASE Relay!MayRetry(eligible)
    <3>1. /\ sent = 0 /\ sent' = 0 /\ retries < MaxRetries /\ retries' = retries + 1
          /\ producer' = "retry" /\ live' = live
      BY <1>4, <2>1 DEF Relay!ReadError, Relay!MayRetry
    <3>2. pc[Current] = "done" /\ counted[Current] # "ok"
      BY <1>4, <3>1 DEF Joined, Present, Failing, Over
    <3>3. retries' \in 0..MaxRetries
      BY <1>a, <3>1
    <3>4. Past'
      BY <1>a, <3>1, <3>2 DEF Joined, Past, Current
    <3>5. Future'
      BY <1>a, <3>1 DEF Joined, Future
    <3>6. /\ pc[Current'] = "idle" /\ counted[Current'] = "none" /\ ~failed[Current']
      <4>1. retries + 2 \in 1..Len(Calls) /\ Current' = Calls[retries + 2]
        BY <1>a, <3>1 DEF Current
      <4> QED
        BY <1>a, <4>1 DEF Joined, Future
    <3>7. Present'
      BY <3>1, <3>6 DEF Present
    <3>8. Followed'
      BY <3>1 DEF Followed
    <3> QED
      BY <1>c, <3>1, <3>3, <3>4, <3>5, <3>7, <3>8
  <2>2. CASE ~Relay!MayRetry(eligible)
    <3>1. /\ sent' = sent /\ retries' = retries /\ live' = live /\ producer' = "report" /\ broken'
          /\ front' = front
      BY <1>4, <2>2 DEF Relay!ReadError
    <3>2. Present'
      BY <1>4, <1>b, <1>e, <3>1 DEF Joined, Present, Failing, Over
    <3>3. Followed'
      BY <3>1 DEF Followed
    <3> QED
      BY <1>b, <1>c, <3>1, <3>2, <3>3
  <2> QED
    BY <2>1, <2>2
<1>5. CASE Over /\ sent > 0 /\ Relay!ReadEnd
  <2>1. /\ sent' = sent /\ retries' = retries /\ live' = live /\ producer' = "leave"
        /\ broken' = broken /\ producer = "read" /\ front' = front /\ client' = client
        /\ handler' = handler /\ outcome' = outcome
    BY <1>5 DEF Relay!ReadEnd
  <2>2. Followed'
    BY <1>5, <1>b, <1>e, <2>1 DEF Joined, Present, Followed, Over
  <2> QED
    BY <1>d, <2>1, <2>2
<1>6. ASSUME NEW opens \in BOOLEAN, Returned(opens), Relay!Retried(opens)
      PROVE  retries' \in 0..MaxRetries /\ Past' /\ Future' /\ Staying' /\ Present' /\ Followed'
  <2>1. /\ sent = 0 /\ sent' = 0 /\ retries' = retries /\ live' = live
        /\ producer' \in {"read", "report"}
    BY <1>6 DEF Joined, Present, Relay!Retried
  <2>2. Present'
    BY <1>b, <2>1 DEF Joined, Present
  <2>3. Followed'
    BY <2>1 DEF Followed
  <2> QED
    BY <1>b, <1>c, <2>1, <2>2, <2>3
<1>7. CASE Relay!Ends
  <2>1. /\ sent' = sent /\ retries' = retries /\ live' = live /\ broken' = broken /\ front' = front
        /\ client' = client /\ handler' = handler /\ outcome' = outcome /\ producer' # "retry"
    BY <1>7 DEF Relay!Ends, Relay!Report, Relay!GiveUp, Relay!CloseErrs, Relay!CloseData
  <2>2. producer \in Left \/ broken \/ (~live /\ producer # "ended")
    BY <1>7, <1>e DEF Relay!Ends, Relay!Report, Relay!GiveUp, Relay!CloseErrs, Relay!CloseData
  <2>3. Followed'
    BY <1>b, <1>e, <2>1, <2>2 DEF Joined, Followed
  <2> QED
    BY <1>d, <2>1, <2>3
<1>8. CASE Relay!Converter
  <2>1. /\ sent' = sent /\ retries' = retries /\ live' = live /\ broken' = broken /\ front' = front
        /\ client' = client /\ handler' = handler /\ outcome' = outcome
        /\ producer' \in {"read", producer}
    BY <1>8 DEF Relay!Converter, Relay!ConverterTakes, Relay!ConverterEnds
  <2>2. Followed'
    BY <1>b, <2>1 DEF Joined, Followed
  <2> QED
    BY <1>d, <2>1, <2>2
<1>9. CASE Relay!Handler
  <2>1. /\ sent' = sent /\ retries' = retries /\ (live' => live)
        /\ broken' = broken /\ front' = front
        /\ client' = client /\ handler # "ended" /\ producer' \in {"read", producer}
    BY <1>9 DEF Relay!Handler, Relay!TakeChunk, Relay!TakeError, Relay!TakeClosed, Relay!Leave,
                Relay!Waiting, Relay!End
  <2>2. Followed'
    BY <1>b, <2>1 DEF Joined, Followed
  <2> QED
    BY <1>d, <2>1, <2>2
<1>10. CASE Relay!ContextFollows \/ Relay!ClientLeaves
  <2>1. /\ sent' = sent /\ retries' = retries /\ (live' => live)
        /\ broken' = broken /\ front' = front
        /\ client' = "gone" /\ producer' = producer
    BY <1>10 DEF Relay!ContextFollows, Relay!ClientLeaves
  <2>2. Followed'
    BY <2>1 DEF Followed
  <2> QED
    BY <1>d, <2>1, <2>2
<1> QED
  BY <1>1, <1>2, <1>3, <1>4, <1>5, <1>6, <1>7, <1>8, <1>9, <1>10 DEF Relays, Reads

\* Time passes, and changes cooldowns and waits.
LEMMA StillJoined ==
  ASSUME Joined, UNCHANGED <<relay, pc, counted, failed, gone>>
  PROVE  Past' /\ Future' /\ Staying' /\ Present' /\ Followed'
<1>1. Current' = Current
  BY DEF Current, relay
<1> QED
  BY <1>1 DEF Joined, Past, Future, Staying, Present, Followed, relay

\* A request that has not begun is joined to a relay that has not.
LEMMA JoinedInit == StreamedInit => Joined
<1> SUFFICES ASSUME StreamedInit PROVE Joined
  OBVIOUS
<1>1. Inv
  BY InvInit DEF StreamedInit
<1>2. RelayInv
  BY RelayInvInit DEF StreamedInit
<1>3. retries = 0 /\ MaxRetries \in Nat /\ sent = 0 /\ ~broken /\ producer = "call"
  BY StreamedAssumption DEF StreamedInit, Relay!Init
<1>4. \A i \in 1..Len(Calls) : Calls[i] \in Requests
  BY <1>3, CallsAre, StreamedAssumption
<1>5. Current \in Requests
  BY <1>3, CallsAre
<1>6. Past /\ Future /\ Staying
  BY <1>3, <1>4 DEF StreamedInit, Init, Past, Future, Staying
<1>7. Present
  BY <1>3, <1>5 DEF StreamedInit, Init, Present
<1>8. Followed
  BY <1>3 DEF Followed, Left
<1> QED
  BY <1>1, <1>2, <1>3, <1>6, <1>7, <1>8 DEF Joined

\* Every step, whoever takes it, keeps the two together.
LEMMA JoinedStep == Joined /\ [StreamedNext]_StreamedVars => Joined'
<1> SUFFICES ASSUME Joined, [StreamedNext]_StreamedVars PROVE Joined'
  OBVIOUS
<1>1. Inv'
  BY ManagerSteps, InvStep DEF Joined
<1>2. RelayInv'
  BY RelaySteps, RelayInvStep DEF Joined, relay, Relay!vars
<1>3. ASSUME NEW r \in Called, Manages(r), UNCHANGED relay PROVE Joined'
  BY <1>1, <1>2, <1>3, ManagerJoins DEF Joined, relay
<1>4. CASE (Relays \/ Relay!ClientLeaves) /\ UNCHANGED vars
  BY <1>1, <1>2, <1>4, RelayJoins DEF Joined
<1>5. CASE UNCHANGED <<relay, pc, counted, failed, gone>>
  BY <1>1, <1>2, <1>5, StillJoined DEF Joined, relay
<1> QED
  BY <1>3, <1>4, <1>5 DEF StreamedNext, Progress, StreamedVars, Tick, vars

------------------------------------------------------------------------------
\* The relay's types and limits hold in it.
THEOREM RelayStaysTyped == StreamedSpec => []RelayTypeOK
<1>1. StreamedSpec => Relay!Spec
  BY ImplementsRelay
<1>2. Relay!Spec => []Relay!TypeOK
  BY RelayTyped, StreamedAssumption
<1>3. Relay!TypeOK => RelayTypeOK
  BY DEF Relay!TypeOK, RelayTypeOK, Relay!TypeOK
<1> QED
  BY <1>1, <1>2, <1>3, PTL

\* The answer of a request that goes through the Manager is one, whatever was
\* retried.
THEOREM AnswerIsOne == StreamedSpec => []OneAnswer
<1>1. Joined => OneAnswer
  BY DEF Joined, RelayInv, Relay!OneAnswer, OneAnswer, Relay!OneAnswer
<1> QED
  BY <1>1, JoinedInit, JoinedStep, PTL DEF StreamedSpec

\* Its client, if it stays, is told how the answer it has begun to get ended.
THEOREM EndIsTold == StreamedSpec => []EndTold
<1>1. Joined => EndTold
  BY DEF Joined, RelayInv, Relay!EndTold, EndTold, Relay!EndTold, Relay!Forwarding,
         Relay!Forwarding, Relay!Completing, Relay!Completing, Relay!Slack, Relay!Slack
<1> QED
  BY <1>1, JoinedInit, JoinedStep, PTL DEF StreamedSpec

\* And it is told what its credential is charged with, for any number of retries,
\* credentials and payloads.
THEOREM ToldIsCounted == StreamedSpec => []ToldAsCounted
<1>1. ASSUME Joined PROVE ToldAsCounted
  <2>1. ASSUME client = "here", taken # <<>>, front \notin Relay!Checked, outcome = "done"
        PROVE  counted[Current] = "ok"
    <3>1. front \in Relay!Forwarding /\ front \in Relay!Forwarding
      BY <1>1, <2>1, StreamedAssumption
      DEF Joined, RelayInv, Shape, Relay!Forwarding, Relay!Forwarding
    <3>2. producer \in Left /\ ~broken
      BY <1>1, <2>1, <3>1 DEF Joined, RelayInv, Told, Relay!EndTold, Left
    <3> QED
      BY <1>1, <2>1, <3>1, <3>2 DEF Joined, Followed
  <2>2. ASSUME client = "here", taken # <<>>, front \notin Relay!Checked, outcome = "error"
        PROVE  counted[Current] = "failed"
    <3>1. sent > 0 /\ broken
      <4>1. taken \in Seq(Payload) /\ Len(taken) <= sent /\ sent \in Nat
        BY <1>1 DEF Joined, RelayInv, Shape, PayloadsAccounted
      <4>2. Len(taken) # 0
        BY <2>1, <2>2, <4>1
      <4>3. broken
        BY <1>1, <2>2 DEF Joined, RelayInv, Told
      <4> QED
        BY <4>1, <4>2, <4>3
    <3> QED
      BY <1>1, <2>2, <3>1 DEF Joined, Present
  <2>3. \A i \in 1..retries : counted[Calls[i]] # "ok"
    <3>1. retries \in 0..MaxRetries /\ MaxRetries \in Nat /\ Len(Calls) = MaxRetries + 1
      BY <1>1, StreamedAssumption DEF Joined
    <3> QED
      BY <1>1, <3>1 DEF Joined, Past
  <2> QED
    BY <2>1, <2>2, <2>3 DEF ToldAsCounted
<1> QED
  BY <1>1, JoinedInit, JoinedStep, PTL DEF StreamedSpec
=============================================================================
