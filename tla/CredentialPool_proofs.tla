----------------------- MODULE CredentialPool_proofs -----------------------
(* Theorems about CredentialPool, for every value of its constants. *)
EXTENDS CredentialPool, TLAPS

-----------------------------------------------------------------------------
(* What the operators on records and entries return *)

\* The two states MarkResult and the reconciliation assign are states.
LEMMA ConstantStates == NoState \in ModelState /\ CleanState \in ModelState
  BY DurationAssumption DEF NoState, CleanState, ModelState

\* RetryAt and nextQuotaCooldown stay in range.
LEMMA FailedType ==
  ASSUME NEW s \in ModelState, NEW out \in ResultKinds, now \in Nat
  PROVE  Failed(s, out) \in ModelState
<1>1. /\ s.next \in Nat /\ s.recover \in Nat /\ s.level \in 0..MaxLevel
      /\ s.known \in BOOLEAN /\ s.err \in BOOLEAN
  BY DEF ModelState
<1>2. RetryAt(s, out) \in Nat
  <2>1. Transient \in Nat /\ Long \in Nat /\ Hint \in Nat /\ Cooldown[s.level] \in Nat
    BY <1>1, DurationAssumption
  <2> QED
    BY <2>1, SMT DEF RetryAt, ResultKinds
<1>3. NextLevel(s.level) \in 0..MaxLevel
  BY <1>1, DurationAssumption DEF NextLevel
<1> QED
  BY <1>1, <1>2, <1>3 DEF Failed, ModelState

\* Unblocking the expired states keeps them states.
LEMMA NormalisedType ==
  ASSUME NEW st \in [Models -> ModelState], now \in Nat
  PROVE  Normalised(st) \in [Models -> ModelState]
<1>1. ASSUME NEW m \in Models PROVE [st[m] EXCEPT !.next = 0] \in ModelState
  BY DEF ModelState
<1> QED
  BY <1>1 DEF Normalised

\* MarkResult's critical section counts one result and keeps Disabled.
LEMMA MarkedType ==
  ASSUME NEW rec \in AuthRec, NEW m \in Models, NEW out \in ResultKinds, now \in Nat
  PROVE  /\ Marked(rec, m, out) \in AuthRec
         /\ Marked(rec, m, out).results = rec.results + 1
<1>1. rec.st \in [Models -> ModelState] /\ rec.results \in Nat /\ rec.disabled \in BOOLEAN
  BY DEF AuthRec
<1>2. CleanState \in ModelState
  BY ConstantStates
<1>3. Failed(rec.st[m], out) \in ModelState
  BY <1>1, FailedType
<1>4. [rec.st EXCEPT ![m] = IF out = "ok" THEN CleanState ELSE Failed(rec.st[m], out)]
        \in [Models -> ModelState]
  BY <1>1, <1>2, <1>3
<1> QED
  BY <1>1, <1>4, NormalisedType DEF Marked, AuthRec

\* Update keeps the counters of the record it replaces.
LEMMA MergedType ==
  ASSUME NEW arg \in AuthRec, NEW existing \in AuthRec
  PROVE  /\ Merged(arg, existing) \in AuthRec
         /\ Merged(arg, existing).results = existing.results
  BY DEF Merged, AuthRec

\* ReconcileRegistryModelStates only touches the model states.
LEMMA PrunedType ==
  ASSUME NEW rec \in AuthRec, NEW supported \in SUBSET Models
  PROVE  /\ Pruned(rec, supported) \in AuthRec
         /\ Pruned(rec, supported).results = rec.results
<1>1. CleanState \in ModelState /\ NoState \in ModelState
  BY ConstantStates
<1> QED
  BY <1>1 DEF Pruned, AuthRec

\* Disabling a record leaves a record.
LEMMA DisabledType ==
  ASSUME NEW rec \in AuthRec
  PROVE  [rec EXCEPT !.disabled = TRUE] \in AuthRec
  BY DEF AuthRec

\* The blocking time of a record is a time.
LEMMA BlockedUntilType ==
  ASSUME NEW rec \in AuthRec, NEW m \in Models, now \in Nat
  PROVE  /\ BlockedUntil(rec, m) \in Nat
         /\ BlockedUntil(rec, m) = 0 <=> rec.st[m].next <= now
         /\ BlockedUntil(rec, m) \in {0, rec.st[m].next, rec.st[m].recover}
<1>1. rec.st[m].next \in Nat /\ rec.st[m].recover \in Nat
  BY DEF AuthRec, ModelState
<1> QED
  BY <1>1 DEF BlockedUntil

\* An upsert removes absent and disabled credentials and offers the others for
\* the models the registry has at this instant.
LEMMA ScheduledType ==
  ASSUME NEW rec \in AuthRec \cup {NoAuth}, NEW a \in Auths, NEW shared \in BOOLEAN,
         now \in Nat, registered \in [Auths -> SUBSET Models]
  PROVE  /\ Scheduled(rec, a, shared) \in Entry \cup {NoEntry}
         /\ rec = NoAuth => Scheduled(rec, a, shared) = NoEntry
         /\ Scheduled(rec, a, shared) # NoEntry => Scheduled(rec, a, shared).models = registered[a]
<1>1. CASE rec = NoAuth
  BY <1>1 DEF Scheduled
<1>2. CASE rec \in AuthRec /\ rec # NoAuth
  <2>1. [m \in Models |-> BlockedUntil(rec, m)] \in [Models -> Nat]
    BY <1>2, BlockedUntilType
  <2> QED
    BY <1>2, <2>1 DEF Scheduled, Entry
<1> QED
  BY <1>1, <1>2

\* A promotion changes only the blocking time of one model.
LEMMA PromotedType ==
  ASSUME NEW e \in Entry \cup {NoEntry}, NEW m \in Models, now \in Nat
  PROVE  /\ Promoted(e, m) \in Entry \cup {NoEntry}
         /\ Promoted(e, m) = NoEntry <=> e = NoEntry
         /\ e # NoEntry => Promoted(e, m).models = e.models
<1>1. CASE e = NoEntry
  BY <1>1 DEF Promoted
<1>2. CASE e \in Entry /\ e # NoEntry
  <2>1. e.rec \in AuthRec
    BY <1>2 DEF Entry
  <2>2. BlockedUntil(e.rec, m) \in Nat
    BY <2>1, BlockedUntilType
  <2>3. [e EXCEPT !.until = [@ EXCEPT ![m] = BlockedUntil(e.rec, m)]] \in Entry
    BY <1>2, <2>2 DEF Entry
  <2>4. [e EXCEPT !.until = [@ EXCEPT ![m] = BlockedUntil(e.rec, m)]].models = e.models
    BY <1>2 DEF Entry
  <2> QED
    BY <1>2, <2>3, <2>4, NullAssumption DEF Promoted
<1> QED
  BY <1>1, <1>2

-----------------------------------------------------------------------------
(* Type correctness, proved together with KnownIDs *)

Inv1 == TypeOK /\ KnownIDs

\* The type of the variables that hold records.
RecordsOK ==
  /\ auths \in [Auths -> AuthRec \cup {NoAuth}]
  /\ sched \in [Auths -> Entry \cup {NoEntry}]
  /\ held \in [Procs -> [Auths -> AuthRec \cup {NoAuth}]]
  /\ live \in [Procs -> BOOLEAN]
  /\ raced \in [Auths -> BOOLEAN]

\* A write of a by p: no credential but a appears or disappears.
OnlyRecordsOf(p, a) ==
  /\ \A b \in Auths : auths'[b] = NoAuth <=> auths[b] = NoAuth /\ b # a
  /\ \A b \in Auths : sched'[b] # NoEntry => sched[b] # NoEntry
  /\ \A q \in Procs, b \in Auths : 
       held'[q][b] # NoAuth => b = a \/ (held[q][b] # NoAuth /\ (q = p => pc[p] # "write"))
  /\ \A q \in Procs, b \in Auths : held[q][b] # NoAuth /\ pc[q] = pc'[q] => held'[q][b] # NoAuth

\* Writing a record of an existing credential in place keeps the records well formed.
LEMMA InPlaceRecords ==
  ASSUME Inv1, NEW p \in Procs, NEW a \in Auths, NEW rec \in AuthRec,
         pc'[p] # pc[p], pc[p] # "write", InPlace(p, a, rec)
  PROVE  RecordsOK' /\ OnlyRecordsOf(p, a)
<1>1. rec # NoAuth
  BY NullAssumption
<1>2. auths' \in [Auths -> AuthRec \cup {NoAuth}]
  BY DEF Inv1, TypeOK, InPlace
<1>3. /\ sched' \in [Auths -> Entry \cup {NoEntry}]
      /\ \A b \in Auths : sched'[b] # NoEntry => sched[b] # NoEntry
  <2>1. CASE sched[a] \in Entry /\ sched[a] # NoEntry /\ sched[a].shared
    <3>1. [sched[a] EXCEPT !.rec = rec] \in Entry
      BY <2>1 DEF Entry
    <3> QED
      BY <2>1, <3>1 DEF Inv1, TypeOK, InPlace
  <2>2. CASE sched[a] = NoEntry \/ ~sched[a].shared
    BY <2>2 DEF Inv1, TypeOK, InPlace
  <2> QED
    BY <2>1, <2>2 DEF Inv1, TypeOK
<1>4. held' \in [Procs -> [Auths -> AuthRec \cup {NoAuth}]]
  BY DEF Inv1, TypeOK, InPlace, Nothing
<1>5. live' \in [Procs -> BOOLEAN] /\ raced' \in [Auths -> BOOLEAN]
  BY DEF Inv1, TypeOK, InPlace
<1>6. OnlyRecordsOf(p, a)
  BY <1>1, <1>3 DEF Inv1, TypeOK, InPlace, Nothing, OnlyRecordsOf
<1> QED
  BY <1>2, <1>3, <1>4, <1>5, <1>6 DEF RecordsOK

\* Replacing m.auths[id] by a merged record does too.
LEMMA ReplaceRecords ==
  ASSUME Inv1, NEW p \in Procs, NEW a \in Auths, NEW rec \in AuthRec,
         pc'[p] # pc[p], Replace(p, a, rec)
  PROVE  RecordsOK' /\ OnlyRecordsOf(p, a)
<1>1. rec # NoAuth
  BY NullAssumption
<1>2. auths' \in [Auths -> AuthRec \cup {NoAuth}]
  BY DEF Inv1, TypeOK, Replace
<1>3. /\ sched' \in [Auths -> Entry \cup {NoEntry}]
      /\ \A b \in Auths : sched'[b] # NoEntry => sched[b] # NoEntry
  <2>1. CASE sched[a] \in Entry /\ sched[a] # NoEntry
    <3>1. [sched[a] EXCEPT !.shared = FALSE] \in Entry
      BY <2>1 DEF Entry
    <3> QED
      BY <2>1, <3>1 DEF Inv1, TypeOK, Replace
  <2>2. CASE sched[a] = NoEntry
    BY <2>2 DEF Inv1, TypeOK, Replace
  <2> QED
    BY <2>1, <2>2 DEF Inv1, TypeOK
<1>4. held' \in [Procs -> [Auths -> AuthRec \cup {NoAuth}]]
  BY DEF Inv1, TypeOK, Replace, Nothing
<1>5. live' \in [Procs -> BOOLEAN] /\ raced' \in [Auths -> BOOLEAN]
  BY DEF Inv1, TypeOK, Replace
<1>6. OnlyRecordsOf(p, a)
  BY <1>1, <1>3 DEF Inv1, TypeOK, Replace, Nothing, OnlyRecordsOf
<1> QED
  BY <1>2, <1>3, <1>4, <1>5, <1>6 DEF RecordsOK

\* An upsert keeps the scheduler's entries well formed.
LEMMA PublishRecords ==
  ASSUME Inv1, NEW p \in Procs, NEW next, pc[p] # "write", Publish(p, next)
  PROVE  /\ RecordsOK'
         /\ \A b \in Auths : sched'[b] # NoEntry => auths[b] # NoAuth
         /\ \A q \in Procs, b \in Auths : held'[q][b] # NoAuth => held[q][b] # NoAuth /\ q # p
         /\ \A q \in Procs \ {p} : held'[q] = held[q]
<1> DEFINE a == target[p]
<1>1. a \in Auths /\ held[p][a] \in AuthRec \cup {NoAuth} /\ live[p] \in BOOLEAN
  BY DEF Inv1, TypeOK
<1>2. /\ Scheduled(held[p][a], a, live[p]) \in Entry \cup {NoEntry}
      /\ held[p][a] = NoAuth => Scheduled(held[p][a], a, live[p]) = NoEntry
  BY <1>1, ScheduledType DEF Inv1, TypeOK
<1>3. held[p][a] # NoAuth => auths[a] # NoAuth
  BY <1>1 DEF Inv1, KnownIDs
<1>4. /\ sched' = [sched EXCEPT ![a] = Scheduled(held[p][a], a, live[p])]
      /\ held' = [held EXCEPT ![p] = Nothing]
      /\ live' = [live EXCEPT ![p] = FALSE]
      /\ raced' = [raced EXCEPT ![a] = @ /\ ~Undisturbed(p, a)]
      /\ auths' = auths
  BY DEF Publish
<1> HIDE DEF a
<1>5. \A b \in Auths : sched'[b] # NoEntry => auths[b] # NoAuth
  BY <1>1, <1>2, <1>3, <1>4 DEF Inv1, TypeOK, KnownIDs
<1>6. held' \in [Procs -> [Auths -> AuthRec \cup {NoAuth}]]
  BY <1>4 DEF Inv1, TypeOK, Nothing
<1>7. live' \in [Procs -> BOOLEAN]
  BY <1>4 DEF Inv1, TypeOK
<1>8. raced' \in [Auths -> BOOLEAN]
  BY <1>4 DEF Inv1, TypeOK
<1>9. sched' \in [Auths -> Entry \cup {NoEntry}]
  BY <1>1, <1>2, <1>4 DEF Inv1, TypeOK
<1> QED
  BY <1>4, <1>5, <1>6, <1>7, <1>8, <1>9 DEF Inv1, TypeOK, RecordsOK, Nothing

\* A pick only promotes entries, and keeps them well formed.
LEMMA PickRecords ==
  ASSUME Inv1, NEW r \in Reqs, NEW m \in Models, NEW tried \in SUBSET Auths, NEW none,
         Pick(r, m, tried, none)
  PROVE  /\ sched' \in [Auths -> Entry \cup {NoEntry}]
         /\ \A b \in Auths : sched'[b] = NoEntry <=> sched[b] = NoEntry
         /\ target' \in [Procs -> Auths]
         /\ \/ pc' = [pc EXCEPT ![r] = none] /\ target' = target
            \/ pc' = [pc EXCEPT ![r] = "exec"] /\ \E a \in Auths : target' = [target EXCEPT ![r] = a] /\ sched[a] # NoEntry
<1>1. \A b \in Auths : /\ Promoted(sched[b], m) \in Entry \cup {NoEntry}
                       /\ Promoted(sched[b], m) = NoEntry <=> sched[b] = NoEntry
  BY PromotedType DEF Inv1, TypeOK
<1>2. sched' = [b \in Auths |-> Promoted(sched[b], m)]
  BY DEF Pick
<1>3. CASE pc' = [pc EXCEPT ![r] = none] /\ target' = target
  BY <1>1, <1>2, <1>3 DEF Inv1, TypeOK
<1>4. CASE \E a \in Auths \ tried :
             /\ Ready(Promoted(sched[a], m), m)
             /\ target' = [target EXCEPT ![r] = a]
             /\ pc' = [pc EXCEPT ![r] = "exec"]
  <2>1. PICK a \in Auths \ tried :
             /\ Ready(Promoted(sched[a], m), m)
             /\ target' = [target EXCEPT ![r] = a]
             /\ pc' = [pc EXCEPT ![r] = "exec"]
    BY <1>4
  <2>2. sched[a] # NoEntry
    BY <1>1, <2>1 DEF Ready
  <2> QED
    BY <1>1, <1>2, <2>1, <2>2 DEF Inv1, TypeOK
<1> QED
  BY <1>3, <1>4 DEF Pick

\* A rebuild replaces every entry by a well-formed one.
LEMMA RebuildRecords ==
  ASSUME Inv1, NEW r \in Procs, Rebuild(r)
  PROVE  /\ sched' \in [Auths -> Entry \cup {NoEntry}]
         /\ \A a \in Auths : sched'[a] # NoEntry =>
              held[r][a] # NoAuth /\ sched'[a].models = registered[a]
         /\ raced' \in [Auths -> BOOLEAN]
<1>1. ASSUME NEW a \in Auths, NEW no \in BOOLEAN
      PROVE  /\ Scheduled(held[r][a], a, no) \in Entry \cup {NoEntry}
             /\ held[r][a] = NoAuth => Scheduled(held[r][a], a, no) = NoEntry
             /\ Scheduled(held[r][a], a, no) # NoEntry
                  => Scheduled(held[r][a], a, no).models = registered[a]
  <2>1. now \in Nat /\ registered \in [Auths -> SUBSET Models] /\ held[r][a] \in AuthRec \cup {NoAuth}
    BY DEF Inv1, TypeOK
  <2> QED
    BY <2>1, ScheduledType, Zenon
<1>2. /\ sched' = [a \in Auths |-> Scheduled(held[r][a], a, FALSE)]
      /\ raced' = [a \in Auths |-> raced[a] /\ ~Undisturbed(r, a)]
  BY DEF Rebuild
<1> QED
  BY <1>1, <1>2

\* The same for whole steps: an upsert, a pick, and a write under m.mu.
LEMMA PublishInv1 ==
  ASSUME Inv1, NEW p \in Procs, NEW next \in {"idle", "bind", "latest", "clone"},
         pc[p] # "write", Publish(p, next)
  PROVE  Inv1'
<1>1. /\ pc' = [pc EXCEPT ![p] = next]
      /\ UNCHANGED <<now, auths, registered, job, target, model, seen>>
  BY DEF Publish
<1>2. /\ RecordsOK'
      /\ \A b \in Auths : sched'[b] # NoEntry => auths[b] # NoAuth
      /\ \A q \in Procs, b \in Auths : held'[q][b] # NoAuth => held[q][b] # NoAuth /\ q # p
      /\ \A q \in Procs \ {p} : held'[q] = held[q]
  BY PublishRecords
<1>3. TypeOK'
  BY <1>1, <1>2 DEF Inv1, TypeOK, RecordsOK
<1>4. \A q \in Procs : pc'[q] = IF q = p THEN next ELSE pc[q]
  BY <1>1 DEF Inv1, TypeOK
<1>5. KnownIDs'
  BY <1>1, <1>2, <1>4 DEF Inv1, KnownIDs
<1> QED
  BY <1>3, <1>5 DEF Inv1

\* A pick preserves types and held records.
LEMMA PickInv1 ==
  ASSUME Inv1, NEW r \in Reqs, NEW m \in Models, NEW tried \in SUBSET Auths,
         NEW none \in {"snapshot", "idle"}, pc[r] \in {"idle", "repick"},
         Pick(r, m, tried, none), model' \in [Reqs -> Models],
         UNCHANGED <<now, auths, registered, job, seen, held, live, raced>>
  PROVE  Inv1'
<1>0. r \in Procs
  BY DEF Procs
<1>1. /\ sched' \in [Auths -> Entry \cup {NoEntry}]
      /\ \A b \in Auths : sched'[b] = NoEntry <=> sched[b] = NoEntry
      /\ target' \in [Procs -> Auths]
      /\ \/ pc' = [pc EXCEPT ![r] = none] /\ target' = target
         \/ /\ pc' = [pc EXCEPT ![r] = "exec"]
            /\ \E a \in Auths : target' = [target EXCEPT ![r] = a] /\ sched[a] # NoEntry
  BY PickRecords
<1>2. TypeOK'
  BY <1>0, <1>1 DEF Inv1, TypeOK
<1>3. CASE pc' = [pc EXCEPT ![r] = none] /\ target' = target
  <2>1. \A q \in Procs : pc'[q] = IF q = r THEN none ELSE pc[q]
    BY <1>3 DEF Inv1, TypeOK
  <2>2. KnownIDs'
    BY <1>0, <1>1, <1>3, <2>1 DEF Inv1, KnownIDs
  <2> QED
    BY <1>2, <2>2 DEF Inv1
<1>4. ASSUME NEW a \in Auths, target' = [target EXCEPT ![r] = a], sched[a] # NoEntry,
             pc' = [pc EXCEPT ![r] = "exec"]
      PROVE  Inv1'
  <2>1. \A q \in Procs : /\ pc'[q] = IF q = r THEN "exec" ELSE pc[q]
                         /\ target'[q] = IF q = r THEN a ELSE target[q]
    BY <1>4 DEF Inv1, TypeOK
  <2>2. KnownIDs'
    BY <1>0, <1>1, <1>4, <2>1 DEF Inv1, KnownIDs
  <2> QED
    BY <1>2, <2>2 DEF Inv1
<1> QED
  BY <1>1, <1>3, <1>4

\* A write under m.mu preserves types and held records.
LEMMA WriteInv1 ==
  ASSUME Inv1, NEW p \in Procs, NEW to \in {"publish", "republish"},
         RecordsOK', OnlyRecordsOf(p, target[p]), pc' = [pc EXCEPT ![p] = to],
         seen' \in [Procs -> SUBSET Models],
         UNCHANGED <<now, registered, job, target, model>>
  PROVE  Inv1'
<1>1. TypeOK'
  BY DEF Inv1, TypeOK, RecordsOK
<1>2. \A q \in Procs : pc'[q] = IF q = p THEN to ELSE pc[q]
  BY DEF Inv1, TypeOK
<1>3. target[p] \in Auths
  BY DEF Inv1, TypeOK
<1>4. \A b \in Auths : sched'[b] # NoEntry => auths'[b] # NoAuth
  BY DEF Inv1, KnownIDs, OnlyRecordsOf
<1>5. \A q \in Procs, b \in Auths :
        held'[q][b] # NoAuth /\ pc'[q] # "write" => auths'[b] # NoAuth
  BY <1>2, <1>3 DEF Inv1, KnownIDs, OnlyRecordsOf
<1>6. ASSUME NEW q \in Procs, pc'[q] \in {"refreshing", "write"}
      PROVE  held'[q][target'[q]] # NoAuth
  <2>1. pc'[q] = pc[q] /\ target'[q] = target[q] /\ target[q] \in Auths
    BY <1>2, <1>6 DEF Inv1, TypeOK
  <2>2. held[q][target[q]] # NoAuth
    BY <1>6, <2>1 DEF Inv1, KnownIDs
  <2> QED
    BY <2>1, <2>2 DEF OnlyRecordsOf
<1>7. \A q \in Procs : pc'[q] = "exec" => auths'[target'[q]] # NoAuth
  BY <1>2 DEF Inv1, KnownIDs, TypeOK, OnlyRecordsOf
<1> QED
  BY <1>1, <1>4, <1>5, <1>6, <1>7 DEF Inv1, KnownIDs

\* Every step of the pool preserves the types and what is known of held records.
LEMMA Inv1Step == Inv1 /\ [Next]_vars => Inv1'
<1> SUFFICES ASSUME Inv1, [Next]_vars PROVE Inv1'
  OBVIOUS
<1> USE DEF Inv1, TypeOK, KnownIDs, RecordsOK
<1>1. CASE UNCHANGED vars
  BY <1>1 DEF vars
<1>2. CASE Tick
  BY <1>2, DurationAssumption DEF Tick
<1>3. ASSUME NEW r \in Reqs, RequestNext(r) PROVE Inv1'
  <2>0. r \in Procs
    BY DEF Procs
  <2>1. ASSUME NEW m \in Models, NEW tried \in SUBSET Auths, FirstPick(r, m, tried) PROVE Inv1'
    BY <2>0, <2>1, PickInv1 DEF FirstPick
  <2>2. CASE Snapshot(r)
    BY <2>0, <2>2 DEF Snapshot, Goto
  <2>3. CASE Rebuild(r)
    <3>2. /\ pc' = [pc EXCEPT ![r] = "repick"]
          /\ held' = [held EXCEPT ![r] = Nothing]
          /\ UNCHANGED <<now, auths, registered, job, target, model, seen, live>>
      BY <2>3 DEF Rebuild, Goto
    <3>3. pc[r] = "rebuild"
      BY <2>3 DEF Rebuild, Goto
    <3>4. /\ sched' \in [Auths -> Entry \cup {NoEntry}]
          /\ \A a \in Auths : sched'[a] # NoEntry => held[r][a] # NoAuth
          /\ raced' \in [Auths -> BOOLEAN]
      BY <2>0, <2>3, RebuildRecords
    <3>6. \A a \in Auths : held[r][a] # NoAuth => auths[a] # NoAuth
      BY <2>0, <3>3
    <3>8. TypeOK'
      BY <2>0, <3>2, <3>4 DEF Nothing
    <3>9. KnownIDs'
      BY <2>0, <3>2, <3>4, <3>6 DEF Nothing
    <3> QED
      BY <3>8, <3>9
  <2>4. ASSUME NEW tried \in SUBSET Auths, SecondPick(r, tried) PROVE Inv1'
    BY <2>0, <2>4, PickInv1 DEF SecondPick
  <2>5. ASSUME NEW out \in Outcomes, MarkResult(r, out) PROVE Inv1'
    <3> DEFINE a == target[r]  rec == Marked(auths[a], model[r], out)
    <3>1. a \in Auths /\ auths[a] \in AuthRec
      BY <2>0, <2>5 DEF MarkResult, Goto
    <3>2. rec \in AuthRec
      BY <3>1, <2>5, MarkedType, DurationAssumption
    <3>3. pc' = [pc EXCEPT ![r] = "publish"] /\ pc[r] = "exec" /\ InPlace(r, a, rec)
      BY <2>5 DEF MarkResult, Goto
    <3>4. RecordsOK' /\ OnlyRecordsOf(r, a)
      BY <2>0, <3>1, <3>2, <3>3, InPlaceRecords
    <3>5. UNCHANGED <<now, registered, job, target, model, seen>>
      BY <2>5 DEF MarkResult
    <3> HIDE DEF rec
    <3> QED
      BY <2>0, <3>3, <3>4, <3>5, WriteInv1
  <2>6. CASE Cancelled(r)
    BY <2>0, <2>6 DEF Cancelled, Goto
  <2>7. CASE PublishResult(r)
    BY <2>0, <2>7, PublishInv1 DEF PublishResult
  <2> QED
    BY <1>3, <2>1, <2>2, <2>3, <2>4, <2>5, <2>6, <2>7 DEF RequestNext

<1>4. ASSUME NEW p \in Refreshers \cup {Applier}, NEW from \in {"refreshing", "write"}, Update(p, from)
      PROVE  Inv1'
  <2> DEFINE a == target[p]
             rec == IF auths[a] = NoAuth THEN held[p][a] ELSE Merged(held[p][a], auths[a])
  <2>0. p \in Procs
    BY DEF Procs
  <2>1. a \in Auths /\ held[p][a] \in AuthRec
    BY <1>4, <2>0 DEF Update, Goto
  <2>2. rec \in AuthRec
    BY <2>0, <2>1, MergedType
  <2>3. pc' = [pc EXCEPT ![p] = "publish"] /\ pc[p] = from /\ Replace(p, a, rec)
    BY <1>4 DEF Update, Goto
  <2>4. RecordsOK' /\ OnlyRecordsOf(p, a)
    BY <2>0, <2>1, <2>2, <2>3, ReplaceRecords
  <2>5. UNCHANGED <<now, registered, job, target, model, seen>>
    BY <1>4 DEF Update
  <2> HIDE DEF rec
  <2> QED
    BY <2>0, <2>3, <2>4, <2>5, WriteInv1
<1>5. ASSUME NEW w \in Refreshers, RefreshNext(w) PROVE Inv1'
  <2>0. w \in Procs
    BY DEF Procs
  <2>1. ASSUME NEW a \in Auths, RefreshStart(w, a) PROVE Inv1'
    BY <2>0, <2>1 DEF RefreshStart, Goto, Nothing
  <2>2. CASE RefreshFailed(w)
    <3>1. Scheduled(auths[target[w]], target[w], FALSE) \in Entry \cup {NoEntry}
      BY <2>0, ScheduledType
    <3>2. auths[target[w]] # NoAuth
      BY <2>0, <2>2 DEF RefreshFailed, Goto
    <3> QED
      BY <2>0, <2>2, <3>1, <3>2 DEF RefreshFailed, Goto, Nothing
  <2>3. CASE RefreshCancelled(w)
    BY <2>0, <2>3 DEF RefreshCancelled, Goto, Nothing
  <2>4. CASE RefreshWriteBack(w)
    BY <1>4, <2>4 DEF RefreshWriteBack
  <2>5. CASE PublishRefreshed(w)
    BY <2>0, <2>5, PublishInv1 DEF PublishRefreshed
  <2> QED
    BY <1>5, <2>1, <2>2, <2>3, <2>4, <2>5 DEF RefreshNext
<1>6. CASE ApplyNext
  <2>0. Applier \in Procs
    BY DEF Procs
  <2>1. ASSUME NEW a \in Auths, NEW off \in BOOLEAN, ApplyAdd(a, off) PROVE Inv1'
    <3> DEFINE arg == [disabled |-> off, results |-> 0,
                       st |-> IF auths[a] # NoAuth /\ ~auths[a].disabled /\ ~off
                              THEN auths[a].st ELSE NoStates]
    <3>1. arg \in AuthRec
      BY ConstantStates DEF AuthRec, NoStates
    <3>2. arg # NoAuth
      BY <3>1, NullAssumption
    <3>3. /\ pc' = [pc EXCEPT ![Applier] = "write"] /\ pc[Applier] = "idle"
          /\ job' = [job EXCEPT ![Applier] = IF off THEN "addOff" ELSE "add"]
          /\ target' = [target EXCEPT ![Applier] = a]
          /\ held' = [held EXCEPT ![Applier] = [Nothing EXCEPT ![a] = arg]]
          /\ UNCHANGED <<now, auths, sched, registered, model, seen, live, raced>>
      BY <2>1 DEF ApplyAdd, Goto
    <3> HIDE DEF arg
    <3> QED
      BY <2>0, <3>1, <3>2, <3>3 DEF Nothing
  <2>2. ASSUME NEW a \in Auths, ApplyRemove(a) PROVE Inv1'
    BY <2>0, <2>2 DEF ApplyRemove, Goto
  <2>3. CASE RemoveLookup
    <3> DEFINE a == target[Applier]
    <3>1. CASE auths[a] = NoAuth
      BY <2>0, <2>3, <3>1 DEF RemoveLookup
    <3>2. CASE auths[a] # NoAuth
      <4>1. [auths[a] EXCEPT !.disabled = TRUE] \in AuthRec
        BY <2>0, <3>2, DisabledType
      <4>2. [auths[a] EXCEPT !.disabled = TRUE] # NoAuth
        BY <4>1, NullAssumption
      <4> DEFINE off == [auths[a] EXCEPT !.disabled = TRUE]
      <4>3. /\ pc' = [pc EXCEPT ![Applier] = "write"]
            /\ held' = [held EXCEPT ![Applier] = [Nothing EXCEPT ![a] = off]]
            /\ UNCHANGED <<now, auths, sched, registered, job, target, model, seen, live, raced>>
        BY <2>3, <3>2 DEF RemoveLookup
      <4>4. off \in AuthRec /\ off # NoAuth /\ a \in Auths
        BY <2>0, <4>1, <4>2
      <4> HIDE DEF off, a
      <4>5. TypeOK'
        BY <2>0, <4>3, <4>4 DEF Nothing
      <4>6. KnownIDs'
        BY <2>0, <4>3, <4>4 DEF Nothing, a
      <4> QED
        BY <4>5, <4>6
    <3> QED
      BY <3>1, <3>2
  <2>4. CASE ApplyWrite
    BY <1>4, <2>4 DEF ApplyWrite
  <2>5. CASE PublishApplied
    BY <2>0, <2>5, PublishInv1 DEF PublishApplied
  <2> QED
    BY <1>6, <2>1, <2>2, <2>3, <2>4, <2>5 DEF ApplyNext
<1>7. ASSUME NEW c \in Catalogs, CatalogNext(c) PROVE Inv1'
  <2>0. c \in Procs
    BY DEF Procs
  <2>1. ASSUME NEW a \in Auths, CatalogStart(c, a) PROVE Inv1'
    BY <2>0, <2>1 DEF CatalogStart, Goto
  <2>2. CASE ReadLatest(c)
    BY <2>0, <2>2 DEF ReadLatest
  <2>3. CASE DropRegistration(c)
    BY <2>0, <2>3 DEF DropRegistration, Goto
  <2> QED
    BY <1>7, <2>1, <2>2, <2>3 DEF CatalogNext
<1>8. ASSUME NEW p \in {Applier} \cup Catalogs, BindNext(p) PROVE Inv1'
  <2>0. p \in Procs
    BY DEF Procs
  <2>1. ASSUME NEW models \in SUBSET Models, Bind(p, models) PROVE Inv1'
    BY <2>0, <2>1 DEF Bind, Goto
  <2>2. CASE ReadSupported(p)
    BY <2>0, <2>2 DEF ReadSupported, Goto
  <2>3. CASE Reconcile(p)
    <3> DEFINE a == target[p]
               rec == IF auths[a] = NoAuth THEN NoAuth ELSE Pruned(auths[a], seen[p])
    <3>1. CASE rec = auths[a]
      <4>1. /\ pc[p] = "reconcile"
            /\ \/ pc' = [pc EXCEPT ![p] = "latest"]
               \/ pc' = [pc EXCEPT ![p] = "clone"]
            /\ seen' = [seen EXCEPT ![p] = {}]
            /\ UNCHANGED <<now, auths, sched, registered, job, target, model, held, live, raced>>
        BY <2>3, <3>1 DEF Reconcile, AfterReconcile
      <4> HIDE DEF a, rec
      <4>2. TypeOK'
        BY <2>0, <4>1
      <4>3. KnownIDs'
        BY <2>0, <4>1
      <4> QED
        BY <4>2, <4>3
    <3>2. CASE rec # auths[a]
      <4>1. a \in Auths /\ auths[a] \in AuthRec
        BY <2>0, <3>2
      <4>2. rec \in AuthRec
        BY <2>0, <3>2, <4>1, PrunedType
      <4>3. /\ pc' = [pc EXCEPT ![p] = "republish"] /\ pc[p] = "reconcile"
            /\ InPlace(p, a, rec)
            /\ seen' = [seen EXCEPT ![p] = {}]
            /\ UNCHANGED <<now, registered, job, target, model>>
        BY <2>3, <3>2 DEF Reconcile
      <4>4. auths[a] # NoAuth
        BY <3>2
      <4>5. RecordsOK' /\ OnlyRecordsOf(p, a)
        BY <2>0, <4>1, <4>2, <4>3, InPlaceRecords
      <4> HIDE DEF rec
      <4> QED
        BY <2>0, <4>3, <4>5, WriteInv1
    <3> QED
      BY <3>1, <3>2
  <2>4. CASE Republish(p)
    BY <2>0, <2>4, PublishInv1 DEF Republish, AfterReconcile
  <2>5. CASE CloneEntry(p)
    BY <2>0, <2>5 DEF CloneEntry, Goto, Nothing
  <2>6. CASE PublishEntry(p)
    BY <2>0, <2>6, PublishInv1 DEF PublishEntry
  <2> QED
    BY <1>8, <2>1, <2>2, <2>3, <2>4, <2>5, <2>6 DEF BindNext
<1> QED
  BY <1>1, <1>2, <1>3, <1>5, <1>6, <1>7, <1>8 DEF Next

\* The pool starts with well-typed variables and no records.
LEMMA Inv1Init == Init => Inv1
<1> SUFFICES ASSUME Init PROVE Inv1
  OBVIOUS
<1>1. TypeOK
  BY DEF Init, TypeOK, Nothing
<1>2. KnownIDs
  BY DEF Init, KnownIDs, Nothing
<1> QED
  BY <1>1, <1>2 DEF Inv1

\* Every variable keeps its type: in particular no goroutine merges or marks a
\* record it does not have.
THEOREM TypeCorrect == Spec => []TypeOK
<1>1. Inv1 => TypeOK
  BY DEF Inv1
<1> QED
  BY <1>1, Inv1Init, Inv1Step, PTL DEF Spec

-----------------------------------------------------------------------------
(* The models the scheduler offers *)

\* What a step does to the entries when it reads nothing from the registry.
KeepsModels == \A b \in Auths : sched'[b] # NoEntry =>
                 sched[b] # NoEntry /\ sched'[b].models = sched[b].models

\* Whoever was rebinding a credential still is.
KeepsRebinding == \A q \in {Applier} \cup Catalogs : pc[q] # "idle" =>
                    pc'[q] # "idle" /\ target'[q] = target[q]

\* A write under m.mu leaves the registry and the scheduler's models alone.
LEMMA WriteKeepsModels ==
  ASSUME Inv1, NEW p \in Procs, NEW a \in Auths, NEW rec,
         InPlace(p, a, rec) \/ Replace(p, a, rec)
  PROVE  KeepsModels
<1>1. CASE sched[a] = NoEntry
  BY <1>1 DEF Inv1, TypeOK, InPlace, Replace, KeepsModels
<1>2. CASE sched[a] # NoEntry
  <2>1. /\ [sched[a] EXCEPT !.rec = rec].models = sched[a].models
        /\ [sched[a] EXCEPT !.shared = FALSE].models = sched[a].models
    BY <1>2 DEF Inv1, TypeOK, Entry
  <2>2. \A b \in Auths : sched'[b] \in
          {sched[b], [sched[b] EXCEPT !.rec = rec], [sched[b] EXCEPT !.shared = FALSE]}
    BY <1>2 DEF Inv1, TypeOK, InPlace, Replace
  <2>3. \A b \in Auths \ {a} : sched'[b] = sched[b]
    BY DEF Inv1, TypeOK, InPlace, Replace
  <2> QED
    BY <1>2, <2>1, <2>2, <2>3 DEF KeepsModels
<1> QED
  BY <1>1, <1>2

\* An upsert takes the registry's models of this instant.
LEMMA PublishModels ==
  ASSUME Inv1, SchedulerModelsCurrent, NEW p \in Procs, NEW next, Publish(p, next)
  PROVE  /\ SchedulerModelsCurrent'
         /\ \A b \in Auths \ {target[p]} : sched'[b] = sched[b]
<1> DEFINE a == target[p]
<1>1. a \in Auths /\ held[p][a] \in AuthRec \cup {NoAuth} /\ live[p] \in BOOLEAN
  BY DEF Inv1, TypeOK
<1>2. Scheduled(held[p][a], a, live[p]) # NoEntry
        => Scheduled(held[p][a], a, live[p]).models = registered[a]
  BY <1>1, ScheduledType DEF Inv1, TypeOK
<1>3. /\ sched' = [sched EXCEPT ![a] = Scheduled(held[p][a], a, live[p])]
      /\ pc' = [pc EXCEPT ![p] = next]
      /\ UNCHANGED <<registered, target>>
  BY DEF Publish
<1> HIDE DEF a
<1>4. /\ sched'[a] = Scheduled(held[p][a], a, live[p])
      /\ \A b \in Auths \ {a} : sched'[b] = sched[b]
  BY <1>1, <1>3 DEF Inv1, TypeOK
<1>5. \A b \in Auths \ {a} : Rebinding(b)' = Rebinding(b)
  BY <1>3 DEF Inv1, TypeOK, Rebinding, a
<1> QED
  BY <1>2, <1>3, <1>4, <1>5 DEF SchedulerModelsCurrent, a

\* A step that leaves the registry alone keeps the scheduler's models current.
LEMMA QuietModels ==
  ASSUME SchedulerModelsCurrent, KeepsModels, KeepsRebinding, registered' = registered
  PROVE  SchedulerModelsCurrent'
<1>1. \A b \in Auths : Rebinding(b)' = {} => Rebinding(b) = {}
  BY DEF KeepsRebinding, Rebinding
<1> QED
  BY <1>1 DEF SchedulerModelsCurrent, KeepsModels

\* A promotion changes no entry's models.
LEMMA PickKeepsModels ==
  ASSUME Inv1, NEW r \in Reqs, NEW m \in Models, NEW tried \in SUBSET Auths, NEW none,
         Pick(r, m, tried, none)
  PROVE  KeepsModels
<1>1. ASSUME NEW b \in Auths
      PROVE  /\ Promoted(sched[b], m) = NoEntry <=> sched[b] = NoEntry
             /\ sched[b] # NoEntry => Promoted(sched[b], m).models = sched[b].models
  BY PromotedType DEF Inv1, TypeOK
<1>2. \A b \in Auths : sched'[b] = Promoted(sched[b], m)
  BY DEF Pick
<1> QED
  BY <1>1, <1>2 DEF KeepsModels

\* Every step keeps the models of the scheduler current: whoever changes the
\* registry refreshes the entry before it is done.
LEMMA ModelsStep == Inv1 /\ SchedulerModelsCurrent /\ [Next]_vars => SchedulerModelsCurrent'
<1> SUFFICES ASSUME Inv1, SchedulerModelsCurrent, [Next]_vars PROVE SchedulerModelsCurrent'
  OBVIOUS
<1>0. /\ {Applier} \cup Catalogs \subseteq Procs
      /\ pc = [q \in Procs |-> pc[q]] /\ target \in [Procs -> Auths]
      /\ sched \in [Auths -> Entry \cup {NoEntry}]
      /\ registered \in [Auths -> SUBSET Models]
  BY DEF Inv1, TypeOK, Procs
<1>1. CASE UNCHANGED vars
  BY <1>1 DEF vars, SchedulerModelsCurrent, Rebinding
<1>2. CASE Tick
  BY <1>2 DEF Tick, SchedulerModelsCurrent, Rebinding
<1>3. ASSUME NEW r \in Reqs, RequestNext(r) PROVE SchedulerModelsCurrent'
  <2>0. r \in Procs /\ r \notin {Applier} \cup Catalogs
    BY ProcsAssumption DEF Procs
  <2>1. ASSUME NEW m \in Models, NEW tried \in SUBSET Auths, NEW none, Pick(r, m, tried, none),
               registered' = registered
        PROVE  SchedulerModelsCurrent'
    <3>1. KeepsRebinding
      BY <1>0, <2>0, <2>1 DEF Pick, KeepsRebinding
    <3> QED
      BY <2>1, <3>1, PickKeepsModels, QuietModels
  <2>2. CASE Snapshot(r) \/ Cancelled(r)
    <3>1. KeepsRebinding /\ KeepsModels /\ registered' = registered
      BY <1>0, <2>0, <2>2 DEF Snapshot, Cancelled, Goto, KeepsRebinding, KeepsModels
    <3> QED
      BY <3>1, QuietModels
  <2>3. CASE Rebuild(r)
    <3>1. \A a \in Auths : sched'[a] # NoEntry => sched'[a].models = registered[a]
      BY <2>0, <2>3, RebuildRecords
    <3>2. registered' = registered
      BY <2>3 DEF Rebuild
    <3> QED
      BY <3>1, <3>2 DEF SchedulerModelsCurrent
  <2>4. ASSUME NEW out \in Outcomes, MarkResult(r, out) PROVE SchedulerModelsCurrent'
    <3>1. KeepsRebinding /\ registered' = registered
      BY <1>0, <2>0, <2>4 DEF MarkResult, Goto, KeepsRebinding
    <3>2. KeepsModels
      BY <1>0, <2>0, <2>4, WriteKeepsModels DEF MarkResult
    <3> QED
      BY <3>1, <3>2, QuietModels
  <2>5. CASE PublishResult(r)
    BY <2>0, <2>5, PublishModels DEF PublishResult
  <2>6. ASSUME NEW m \in Models, NEW tried \in SUBSET Auths, FirstPick(r, m, tried)
        PROVE  SchedulerModelsCurrent'
    BY <2>1, <2>6 DEF FirstPick
  <2>7. ASSUME NEW tried \in SUBSET Auths, SecondPick(r, tried) PROVE SchedulerModelsCurrent'
    BY <2>1, <2>7 DEF SecondPick, Inv1, TypeOK
  <2> QED
    BY <1>3, <2>2, <2>3, <2>4, <2>5, <2>6, <2>7 DEF RequestNext
<1>4. ASSUME NEW w \in Refreshers, RefreshNext(w) PROVE SchedulerModelsCurrent'
  <2>0. w \in Procs /\ w \notin {Applier} \cup Catalogs
    BY ProcsAssumption DEF Procs
  <2>1. CASE RefreshCancelled(w) \/ \E a \in Auths : RefreshStart(w, a)
    <3>1. KeepsRebinding /\ KeepsModels /\ registered' = registered
      BY <1>0, <2>0, <2>1 DEF RefreshStart, RefreshCancelled, Goto, KeepsRebinding, KeepsModels
    <3> QED
      BY <3>1, QuietModels
  <2>2. CASE RefreshFailed(w)
    <3> DEFINE a == target[w]  e == Scheduled(auths[a], a, FALSE)
    <3>1. a \in Auths
      BY <1>0, <2>0
    <3>2. e # NoEntry => e.models = registered[a]
      BY <3>1, ScheduledType DEF Inv1, TypeOK
    <3>3. sched' = [sched EXCEPT ![a] = e] /\ registered' = registered /\ target' = target
      BY <2>2 DEF RefreshFailed
    <3>4. \A b \in Auths : Rebinding(b)' = Rebinding(b)
      BY <1>0, <2>0, <2>2 DEF RefreshFailed, Goto, Rebinding
    <3> HIDE DEF e
    <3>5. sched'[a] = e /\ \A b \in Auths \ {a} : sched'[b] = sched[b]
      BY <1>0, <3>1, <3>3
    <3> QED
      BY <3>2, <3>3, <3>4, <3>5 DEF SchedulerModelsCurrent
  <2>3. CASE RefreshWriteBack(w)
    <3>1. KeepsRebinding /\ registered' = registered
      BY <1>0, <2>0, <2>3 DEF RefreshWriteBack, Update, Goto, KeepsRebinding
    <3>2. KeepsModels
      BY <1>0, <2>0, <2>3, WriteKeepsModels DEF RefreshWriteBack, Update
    <3> QED
      BY <3>1, <3>2, QuietModels
  <2>4. CASE PublishRefreshed(w)
    BY <2>0, <2>4, PublishModels DEF PublishRefreshed
  <2> QED
    BY <1>4, <2>1, <2>2, <2>3, <2>4 DEF RefreshNext
<1>5. CASE ApplyNext
  <2>0. Applier \in Procs
    BY DEF Procs
  <2>1. CASE \E a \in Auths, off \in BOOLEAN : ApplyAdd(a, off)
    <3>1. KeepsRebinding /\ KeepsModels /\ registered' = registered
      BY <1>0, <2>0, <2>1 DEF ApplyAdd, Goto, KeepsRebinding, KeepsModels
    <3> QED
      BY <3>1, QuietModels
  <2>2. ASSUME NEW a \in Auths, ApplyRemove(a) PROVE SchedulerModelsCurrent'
    <3>1. Applier \in Rebinding(a)'
      BY <1>0, <2>0, <2>2 DEF ApplyRemove, Goto, Rebinding
    <3>2. \A b \in Auths \ {a} : registered'[b] = registered[b] /\ sched'[b] = sched[b]
      BY <1>0, <2>2 DEF ApplyRemove
    <3>3. \A b \in Auths : Rebinding(b)' = {} => Rebinding(b) = {}
      BY <1>0, <2>0, <2>2 DEF ApplyRemove, Goto, Rebinding
    <3> QED
      BY <3>1, <3>2, <3>3 DEF SchedulerModelsCurrent
  <2>3. CASE RemoveLookup
    <3> DEFINE a == target[Applier]
    <3>1. CASE auths[a] = NoAuth
      <4>1. sched[a] = NoEntry
        BY <1>0, <2>0, <3>1 DEF Inv1, KnownIDs
      <4>2. \A b \in Auths \ {a} : Rebinding(b)' = Rebinding(b)
        BY <1>0, <2>0, <2>3 DEF RemoveLookup, Rebinding
      <4> QED
        BY <2>3, <4>1, <4>2 DEF RemoveLookup, SchedulerModelsCurrent
    <3>2. CASE auths[a] # NoAuth
      <4>1. KeepsRebinding /\ KeepsModels /\ registered' = registered
        BY <1>0, <2>0, <2>3, <3>2 DEF RemoveLookup, KeepsRebinding, KeepsModels
      <4> QED
        BY <4>1, QuietModels
    <3> QED
      BY <3>1, <3>2
  <2>4. CASE ApplyWrite
    <3>1. KeepsRebinding /\ registered' = registered
      BY <1>0, <2>0, <2>4 DEF ApplyWrite, Update, Goto, KeepsRebinding
    <3>2. KeepsModels
      BY <1>0, <2>0, <2>4, WriteKeepsModels DEF ApplyWrite, Update
    <3> QED
      BY <3>1, <3>2, QuietModels
  <2>5. CASE PublishApplied
    BY <2>0, <2>5, PublishModels DEF PublishApplied
  <2> QED
    BY <1>5, <2>1, <2>2, <2>3, <2>4, <2>5 DEF ApplyNext
<1>6. ASSUME NEW c \in Catalogs, CatalogNext(c) PROVE SchedulerModelsCurrent'
  <2>0. c \in Procs
    BY DEF Procs
  <2>1. CASE ReadLatest(c) \/ \E a \in Auths : CatalogStart(c, a)
    <3>1. KeepsRebinding /\ KeepsModels /\ registered' = registered
      BY <1>0, <2>0, <2>1 DEF ReadLatest, CatalogStart, Goto, KeepsRebinding, KeepsModels
    <3> QED
      BY <3>1, QuietModels
  <2>2. CASE DropRegistration(c)
    <3>1. c \in Rebinding(target[c])' /\ target' = target
      BY <1>0, <2>0, <2>2, <1>6 DEF DropRegistration, Goto, Rebinding
    <3>2. \A b \in Auths \ {target[c]} : registered'[b] = registered[b]
      BY <1>0, <2>2 DEF DropRegistration
    <3>3. \A b \in Auths : Rebinding(b)' = {} => Rebinding(b) = {}
      BY <1>0, <2>0, <2>2 DEF DropRegistration, Goto, Rebinding
    <3>4. sched' = sched
      BY <2>2 DEF DropRegistration
    <3> QED
      BY <3>1, <3>2, <3>3, <3>4 DEF SchedulerModelsCurrent
  <2> QED
    BY <1>6, <2>1, <2>2 DEF CatalogNext
<1>7. ASSUME NEW p \in {Applier} \cup Catalogs, BindNext(p) PROVE SchedulerModelsCurrent'
  <2>0. p \in Procs
    BY DEF Procs
  <2>1. ASSUME NEW models \in SUBSET Models, Bind(p, models) PROVE SchedulerModelsCurrent'
    <3>1. p \in Rebinding(target[p])' /\ target' = target
      BY <1>0, <1>7, <2>0, <2>1 DEF Bind, Goto, Rebinding
    <3>2. \A b \in Auths \ {target[p]} : registered'[b] = registered[b]
      BY <1>0, <2>1 DEF Bind
    <3>3. \A b \in Auths : Rebinding(b)' = {} => Rebinding(b) = {}
      BY <1>0, <2>0, <2>1 DEF Bind, Goto, Rebinding
    <3>4. sched' = sched
      BY <2>1 DEF Bind
    <3> QED
      BY <3>1, <3>2, <3>3, <3>4 DEF SchedulerModelsCurrent
  <2>2. CASE ReadSupported(p) \/ CloneEntry(p)
    <3>1. KeepsRebinding /\ KeepsModels /\ registered' = registered
      BY <1>0, <2>0, <2>2 DEF ReadSupported, CloneEntry, Goto, KeepsRebinding, KeepsModels
    <3> QED
      BY <3>1, QuietModels
  <2>3. CASE Reconcile(p)
    <3>1. KeepsRebinding /\ registered' = registered
      BY <1>0, <2>0, <2>3 DEF Reconcile, AfterReconcile, KeepsRebinding
    <3>2. KeepsModels
      <4>1. CASE sched' = sched
        BY <4>1 DEF KeepsModels
      <4>2. CASE \E rec : InPlace(p, target[p], rec)
        BY <1>0, <2>0, <4>2, WriteKeepsModels
      <4> QED
        BY <2>3, <4>1, <4>2 DEF Reconcile
    <3> QED
      BY <3>1, <3>2, QuietModels
  <2>4. CASE Republish(p) \/ PublishEntry(p)
    BY <2>0, <2>4, PublishModels DEF Republish, PublishEntry
  <2> QED
    BY <1>7, <2>1, <2>2, <2>3, <2>4 DEF BindNext
<1> QED
  BY <1>1, <1>2, <1>3, <1>4, <1>5, <1>6, <1>7 DEF Next

\* The scheduler offers a credential for exactly the models of the registry,
\* unless the credential is being rebound at this moment, for any number of
\* requests, refreshes and catalogue updates under way.
THEOREM ModelsCurrent == Spec => []SchedulerModelsCurrent
<1>1. Init => SchedulerModelsCurrent
  BY DEF Init, SchedulerModelsCurrent
<1> QED
  BY <1>1, Inv1Init, Inv1Step, ModelsStep, PTL DEF Spec

-----------------------------------------------------------------------------
(* What the Manager counts *)

\* MarkResult adds one, Update carries the counters over, nothing else writes
\* them: a result once counted stays counted.
LEMMA ResultsStep ==
  Inv1 /\ [Next]_vars =>
    \A a \in Auths : auths[a] # NoAuth =>
      auths'[a] # NoAuth /\ auths'[a].results >= auths[a].results
<1> SUFFICES ASSUME Inv1, [Next]_vars,
                    NEW a \in Auths, auths[a] # NoAuth
             PROVE  auths'[a] # NoAuth /\ auths'[a].results >= auths[a].results
  OBVIOUS
<1>0. auths \in [Auths -> AuthRec \cup {NoAuth}] /\ auths[a].results \in Nat
  BY DEF Inv1, TypeOK, AuthRec
<1>1. CASE auths' = auths
  BY <1>0, <1>1
<1>2. ASSUME NEW b \in Auths, NEW rec \in AuthRec, auths' = [auths EXCEPT ![b] = rec],
             auths[b] # NoAuth => rec.results >= auths[b].results
      PROVE  auths'[a] # NoAuth /\ auths'[a].results >= auths[a].results
  BY <1>0, <1>2, NullAssumption
<1>3. ASSUME NEW r \in Reqs, NEW out \in Outcomes, MarkResult(r, out)
      PROVE  auths'[a] # NoAuth /\ auths'[a].results >= auths[a].results
  <2> DEFINE b == target[r]  rec == Marked(auths[b], model[r], out)
  <2>1. b \in Auths /\ auths[b] \in AuthRec /\ auths[b].results \in Nat
    BY <1>3 DEF MarkResult, Goto, Inv1, TypeOK, KnownIDs, Procs, AuthRec
  <2>2. rec \in AuthRec /\ rec.results = auths[b].results + 1
    BY <2>1, <1>3, MarkedType, DurationAssumption DEF Inv1, TypeOK
  <2>3. auths' = [auths EXCEPT ![b] = rec]
    BY <1>3 DEF MarkResult, InPlace
  <2> HIDE DEF b, rec
  <2>4. rec.results >= auths[b].results
    BY <2>1, <2>2
  <2> QED
    BY <1>2, <2>1, <2>2, <2>3, <2>4
<1>4. ASSUME NEW p \in Refreshers \cup {Applier}, NEW from \in {"refreshing", "write"}, Update(p, from)
      PROVE  auths'[a] # NoAuth /\ auths'[a].results >= auths[a].results
  <2> DEFINE b == target[p]
             rec == IF auths[b] = NoAuth THEN held[p][b] ELSE Merged(held[p][b], auths[b])
  <2>0. p \in Procs
    BY DEF Procs
  <2>1. b \in Auths /\ held[p][b] \in AuthRec
    BY <1>4, <2>0 DEF Update, Goto, Inv1, TypeOK, KnownIDs
  <2>2. rec \in AuthRec /\ (auths[b] # NoAuth => rec.results >= auths[b].results)
    <3>1. CASE auths[b] = NoAuth
      BY <2>1, <3>1
    <3>2. CASE auths[b] # NoAuth
      <4>1. auths[b] \in AuthRec /\ auths[b].results \in Nat
        BY <1>0, <2>1, <3>2 DEF AuthRec
      <4> QED
        BY <2>1, <3>2, <4>1, MergedType
    <3> QED
      BY <3>1, <3>2
  <2>3. auths' = [auths EXCEPT ![b] = rec]
    BY <1>4 DEF Update, Replace
  <2> HIDE DEF b, rec
  <2> QED
    BY <1>2, <2>1, <2>2, <2>3
<1>5. ASSUME NEW p \in {Applier} \cup Catalogs, Reconcile(p)
      PROVE  auths'[a] # NoAuth /\ auths'[a].results >= auths[a].results
  <2> DEFINE b == target[p]  rec == Pruned(auths[b], seen[p])
  <2>1. b \in Auths /\ seen[p] \in SUBSET Models
    BY DEF Inv1, TypeOK, Procs
  <2>2. CASE auths[b] # NoAuth
    <3>1. auths[b] \in AuthRec /\ auths[b].results \in Nat
      BY <1>0, <2>1, <2>2 DEF AuthRec
    <3>2. rec \in AuthRec /\ rec.results >= auths[b].results
      BY <2>1, <3>1, PrunedType
    <3>3. auths' = auths \/ auths' = [auths EXCEPT ![b] = rec]
      BY <1>5, <2>2 DEF Reconcile, InPlace
    <3> HIDE DEF b, rec
    <3> QED
      BY <1>1, <1>2, <2>1, <3>2, <3>3
  <2>3. CASE auths[b] = NoAuth
    BY <1>1, <1>5, <2>3 DEF Reconcile
  <2> QED
    BY <2>2, <2>3
<1>6. ASSUME NEW r \in Reqs, RequestNext(r), ~\E out \in Outcomes : MarkResult(r, out)
      PROVE  auths' = auths
  BY <1>6 DEF RequestNext, FirstPick, Snapshot, Rebuild, SecondPick, Cancelled, PublishResult, Publish
<1>7. ASSUME NEW w \in Refreshers, RefreshNext(w), ~RefreshWriteBack(w) PROVE auths' = auths
  BY <1>7 DEF RefreshNext, RefreshStart, RefreshFailed, RefreshCancelled, PublishRefreshed, Publish
<1>8. ASSUME ApplyNext, ~ApplyWrite PROVE auths' = auths
  BY <1>8 DEF ApplyNext, ApplyAdd, ApplyRemove, RemoveLookup, PublishApplied, Publish
<1>9. ASSUME NEW c \in Catalogs, CatalogNext(c) PROVE auths' = auths
  BY <1>9 DEF CatalogNext, CatalogStart, ReadLatest, DropRegistration
<1>10. ASSUME NEW p \in {Applier} \cup Catalogs, BindNext(p), ~Reconcile(p) PROVE auths' = auths
  BY <1>10 DEF BindNext, Bind, ReadSupported, Republish, CloneEntry, PublishEntry, Publish
<1>11. CASE Tick \/ UNCHANGED vars
  BY <1>1, <1>11 DEF Tick, vars
<1> QED
  BY <1>1, <1>3, <1>4, <1>5, <1>6, <1>7, <1>8, <1>9, <1>10, <1>11
     DEF Next, RefreshWriteBack, ApplyWrite

\* A result that MarkResult counted survives every refresh written back over
\* it and every update from disk.
THEOREM ResultsKept == Spec => ResultsNeverLost
<1>1. Inv1 /\ [Next]_vars =>
        [\A a \in Auths : auths[a] # NoAuth =>
           auths'[a] # NoAuth /\ auths'[a].results >= auths[a].results]_vars
  BY ResultsStep
<1> QED
  BY <1>1, Inv1Init, Inv1Step, PTL DEF Spec, ResultsNeverLost

-----------------------------------------------------------------------------
(* The scheduler follows the Manager *)

\* Where a goroutine is about to hand over a snapshot.
Carrying == {"rebuild", "publish", "republish", "entry"}

\* An upsert of the current record synchronises its entry.
LEMMA ScheduledSync ==
  ASSUME Inv1, Inv1', NEW a \in Auths, NEW shared \in BOOLEAN,
         sched'[a] = Scheduled(auths[a], a, shared), auths'[a] = auths[a], now' = now
  PROVE  Synchronised(a)'
<1>1. CASE auths[a] = NoAuth
  BY <1>1 DEF Synchronised, Scheduled
<1>2. CASE auths[a] # NoAuth /\ auths[a].disabled
  BY <1>2 DEF Synchronised, Scheduled
<1>3. CASE auths[a] # NoAuth /\ ~auths[a].disabled
  <2>1. auths[a] \in AuthRec /\ now \in Nat
    BY <1>3 DEF Inv1, TypeOK
  <2>2. sched'[a] = [until  |-> [m \in Models |-> BlockedUntil(auths[a], m)],
                     rec    |-> auths[a],
                     shared |-> shared,
                     models |-> registered[a]]
    BY <1>3 DEF Scheduled
  <2>3. sched'[a] # NoEntry
    <3>1. [m \in Models |-> BlockedUntil(auths[a], m)] \in [Models -> Nat]
      BY <2>1, BlockedUntilType
    <3>2. sched'[a] \in Entry
      BY <2>1, <2>2, <3>1 DEF Inv1, TypeOK, Entry
    <3> QED
      BY <3>2, NullAssumption
  <2>4. ASSUME NEW m \in Models
        PROVE  LET s == auths[a].st[m]  u == BlockedUntil(auths[a], m)
               IN IF u = 0 THEN s.next <= now ELSE u \in {s.next, s.recover}
    BY <2>1, BlockedUntilType
  <2> QED
    BY <1>3, <2>2, <2>3, <2>4 DEF Synchronised
<1> QED
  BY <1>1, <1>2, <1>3

\* What synchronisation means for the picks.
LEMMA SyncAgrees ==
  ASSUME Inv1, NEW a \in Auths, Synchronised(a)
  PROVE  Agrees(a)
<1>1. CASE auths[a] = NoAuth \/ (auths[a] # NoAuth /\ auths[a].disabled)
  BY <1>1 DEF Synchronised, Agrees
<1>2. CASE auths[a] # NoAuth /\ ~auths[a].disabled
  <2> DEFINE e == sched[a]
  <2>1. /\ e # NoEntry /\ e \in Entry /\ e.rec = auths[a] /\ auths[a] \in AuthRec /\ now \in Nat
        /\ e.models \in SUBSET Models /\ e.until \in [Models -> Nat]
    BY <1>2 DEF Synchronised, Inv1, TypeOK, Entry
  <2>2. ASSUME NEW m \in e.models
        PROVE  /\ Ready(Promoted(e, m), m) => auths[a].st[m].next <= now
               /\ auths[a].st[m].next <= now /\ auths[a].st[m].recover <= now
                    => Ready(Promoted(e, m), m)
    <3>1. m \in Models
      BY <2>1
    <3>2. /\ IF e.until[m] = 0 THEN auths[a].st[m].next <= now
             ELSE e.until[m] \in {auths[a].st[m].next, auths[a].st[m].recover}
      BY <1>2, <3>1 DEF Synchronised
    <3>3. BlockedUntil(e.rec, m) = 0 <=> auths[a].st[m].next <= now
      BY <2>1, <3>1, BlockedUntilType
    <3>4. CASE e.until[m] # 0 /\ e.until[m] <= now
      <4>1. Promoted(e, m) = [e EXCEPT !.until = [@ EXCEPT ![m] = BlockedUntil(e.rec, m)]]
        BY <2>1, <2>2, <3>4 DEF Promoted
      <4>2. Promoted(e, m).until[m] = BlockedUntil(e.rec, m)
        BY <2>1, <3>1, <4>1 DEF Entry
      <4>3. Promoted(e, m) # NoEntry /\ Promoted(e, m).models = e.models
        BY <2>1, <3>1, PromotedType
      <4> QED
        BY <2>2, <3>3, <4>2, <4>3 DEF Ready
    <3>5. CASE e.until[m] = 0 \/ ~(e.until[m] <= now)
      <4>1. Promoted(e, m) = e
        BY <2>1, <3>5 DEF Promoted
      <4> QED
        BY <2>1, <2>2, <3>1, <3>2, <3>5, <4>1 DEF Ready
    <3> QED
      BY <3>4, <3>5
  <2> QED
    BY <1>2, <2>1, <2>2 DEF Agrees
<1> QED
  BY <1>1, <1>2

\* A pick does not undo the synchronisation of an entry.
LEMMA PromotedSync ==
  ASSUME Inv1, NEW a \in Auths, NEW m \in Models, Synchronised(a),
         sched'[a] = Promoted(sched[a], m), auths' = auths, now' = now
  PROVE  Synchronised(a)'
<1>1. CASE auths[a] = NoAuth \/ (auths[a] # NoAuth /\ auths[a].disabled)
  BY <1>1 DEF Synchronised, Promoted
<1>2. CASE auths[a] # NoAuth /\ ~auths[a].disabled
  <2> DEFINE e == sched[a]
  <2>1. e # NoEntry /\ e \in Entry /\ e.rec = auths[a] /\ auths[a] \in AuthRec /\ now \in Nat
    BY <1>2 DEF Synchronised, Inv1, TypeOK
  <2>2. CASE Promoted(e, m) = e
    BY <2>2 DEF Synchronised
  <2>3. CASE Promoted(e, m) = [e EXCEPT !.until = [@ EXCEPT ![m] = BlockedUntil(e.rec, m)]]
    <3>1. Promoted(e, m) # NoEntry
      BY <2>1, PromotedType
    <3>2. Promoted(e, m).rec = auths[a]
      BY <2>1, <2>3 DEF Entry
    <3>3. \A n \in Models : Promoted(e, m).until[n] = IF n = m THEN BlockedUntil(e.rec, m) ELSE e.until[n]
      BY <2>1, <2>3 DEF Entry
    <3>4. /\ BlockedUntil(e.rec, m) = 0 <=> auths[a].st[m].next <= now
          /\ BlockedUntil(e.rec, m) \in {0, auths[a].st[m].next, auths[a].st[m].recover}
      BY <2>1, BlockedUntilType
    <3>5. ASSUME NEW n \in Models
          PROVE  LET s == auths[a].st[n]  u == Promoted(e, m).until[n]
                 IN IF u = 0 THEN s.next <= now ELSE u \in {s.next, s.recover}
      BY <1>2, <3>3, <3>4 DEF Synchronised
    <3> QED
      BY <1>2, <3>1, <3>2, <3>5 DEF Synchronised
  <2> QED
    BY <2>2, <2>3 DEF Promoted
<1> QED
  BY <1>1, <1>2

\* A step of p outside the handover of a snapshot: what p starts to carry must
\* be current, and entries must stay synchronised.
LEMMA LocalSnapshots ==
  ASSUME Inv1, SnapshotsCurrent, NEW p \in Procs, pc[p] \notin Carrying,
         \A q \in Procs \ {p} : pc'[q] = pc[q] /\ target'[q] = target[q] /\ held'[q] = held[q],
         \A a \in Auths : p \in Publishing(a)' => held'[p][a] = auths[a],
         auths' = auths, raced' = raced,
         \A a \in Auths : Synchronised(a) => Synchronised(a)'
  PROVE  SnapshotsCurrent'
<1>1. ASSUME NEW a \in Auths
      PROVE  /\ Publishing(a) \subseteq Publishing(a)'
             /\ Publishing(a)' \subseteq Publishing(a) \cup {p}
             /\ p \notin Publishing(a)
  BY DEF Publishing, Carrying
<1>2. ASSUME NEW a \in Auths, ~raced'[a], NEW q \in Publishing(a)' PROVE held'[q][a] = auths'[a]
  BY <1>1, <1>2 DEF SnapshotsCurrent, Publishing
<1>3. ASSUME NEW a \in Auths, ~raced'[a], Publishing(a)' = {} PROVE Synchronised(a)'
  BY <1>1, <1>3 DEF SnapshotsCurrent
<1> QED
  BY <1>2, <1>3 DEF SnapshotsCurrent

\* A write under m.mu outdates the clones under way, or marks the credential.
LEMMA WriteSnapshots ==
  ASSUME Inv1, SnapshotsCurrent, NEW p \in Procs, NEW rec, NEW to \in {"publish", "republish"},
         pc[p] \notin Carrying, pc' = [pc EXCEPT ![p] = to], target' = target, now' = now,
         InPlace(p, target[p], rec) \/ Replace(p, target[p], rec)
  PROVE  SnapshotsCurrent'
<1> DEFINE a == target[p]
<1>1. a \in Auths /\ \A q \in Procs : pc'[q] = IF q = p THEN to ELSE pc[q]
  BY DEF Inv1, TypeOK
<1>2. ASSUME NEW b \in Auths
      PROVE  /\ p \notin Publishing(b)
             /\ Publishing(b)' = IF b = a THEN Publishing(b) \cup {p} ELSE Publishing(b)
  BY <1>1 DEF Publishing, Carrying
<1>3. /\ auths'[a] = rec
      /\ \A b \in Auths \ {a} : /\ auths'[b] = auths[b] /\ sched'[b] = sched[b]
                                /\ raced'[b] = raced[b]
  BY <1>1 DEF Inv1, TypeOK, InPlace, Replace
<1>4. /\ held'[p][a] = rec
      /\ \A q \in Procs \ {p} : \A b \in Auths \ {a} : held'[q][b] = held[q][b]
  <2>0. held \in [Procs -> [Auths -> AuthRec \cup {NoAuth}]]
    BY DEF Inv1, TypeOK
  <2>1. CASE InPlace(p, a, rec)
    <3>1. \A q \in Procs : held'[q] = IF q \in Aliases(a) THEN [held[q] EXCEPT ![a] = rec]
                                      ELSE IF q = p THEN [Nothing EXCEPT ![a] = rec] ELSE held[q]
      BY <2>1 DEF InPlace
    <3>2. ASSUME NEW q \in Procs
          PROVE  /\ [held[q] EXCEPT ![a] = rec][a] = rec
                 /\ \A b \in Auths \ {a} : [held[q] EXCEPT ![a] = rec][b] = held[q][b]
                 /\ [Nothing EXCEPT ![a] = rec][a] = rec
      BY <1>1, <2>0 DEF Nothing
    <3> HIDE DEF a
    <3> QED
      BY <3>1, <3>2
  <2>2. CASE Replace(p, a, rec)
    BY <1>1, <2>0, <2>2 DEF Replace, Nothing
  <2> QED
    BY <2>1, <2>2
<1>5. ASSUME ~raced'[a], NEW q \in Publishing(a) PROVE held'[q][a] = rec
  <2>0. q \in Procs /\ q # p
    BY <1>1, <1>2 DEF Publishing
  <2>1. CASE InPlace(p, a, rec)
    <3>1. q \in Aliases(a)
      BY <1>1, <1>5, <2>0, <2>1 DEF InPlace, Inv1, TypeOK
    <3> QED
      BY <1>1, <2>0, <2>1, <3>1 DEF InPlace, Inv1, TypeOK
  <2>2. CASE Replace(p, a, rec)
    BY <1>1, <1>5, <2>0, <2>2 DEF Replace, Inv1, TypeOK
  <2> QED
    BY <2>1, <2>2
<1>6. ASSUME NEW b \in Auths, ~raced'[b], NEW q \in Publishing(b)' PROVE held'[q][b] = auths'[b]
  <2>1. CASE b = a
    BY <1>2, <1>3, <1>4, <1>5, <1>6, <2>1
  <2>2. CASE b # a
    <3>1. q \in Publishing(b) /\ q \in Procs \ {p} /\ ~raced[b]
      BY <1>2, <1>3, <1>6, <2>2 DEF Publishing
    <3> QED
      BY <1>3, <1>4, <2>2, <3>1 DEF SnapshotsCurrent
  <2> QED
    BY <2>1, <2>2
<1>7. ASSUME NEW b \in Auths, ~raced'[b], Publishing(b)' = {} PROVE Synchronised(b)'
  <2>1. b # a /\ Publishing(b) = {}
    BY <1>1, <1>2, <1>7
  <2>2. Synchronised(b)
    BY <1>3, <1>7, <2>1 DEF SnapshotsCurrent
  <2> QED
    BY <1>3, <2>1, <2>2 DEF Synchronised
<1> QED
  BY <1>6, <1>7 DEF SnapshotsCurrent

\* An upsert delivers the snapshot it carries.
LEMMA PublishSnapshots ==
  ASSUME Inv1, Inv1', SnapshotsCurrent, NEW p \in Procs, NEW next, next \notin Carrying,
         pc[p] \in {"publish", "republish", "entry"}, Publish(p, next)
  PROVE  SnapshotsCurrent'
<1> DEFINE a == target[p]
<1>1. a \in Auths /\ live[p] \in BOOLEAN
  BY DEF Inv1, TypeOK
<1>2. /\ pc' = [pc EXCEPT ![p] = next]
      /\ sched' = [sched EXCEPT ![a] = Scheduled(held[p][a], a, live[p])]
      /\ held' = [held EXCEPT ![p] = Nothing]
      /\ raced' = [raced EXCEPT ![a] = @ /\ ~Undisturbed(p, a)]
      /\ UNCHANGED <<now, auths, registered, target>>
  BY DEF Publish
<1>3. ASSUME NEW b \in Auths
      PROVE  /\ Publishing(b)' = Publishing(b) \ {p}
             /\ b # a => p \notin Publishing(b)
             /\ p \in Publishing(a)
  BY <1>1, <1>2 DEF Publishing, Carrying, Inv1, TypeOK
<1>4. \A q \in Procs \ {p} : held'[q] = held[q]
  BY <1>2 DEF Inv1, TypeOK
<1>5. /\ sched'[a] = Scheduled(held[p][a], a, live[p])
      /\ raced'[a] = (raced[a] /\ ~Undisturbed(p, a))
      /\ \A b \in Auths \ {a} : sched'[b] = sched[b] /\ raced'[b] = raced[b]
  BY <1>1, <1>2 DEF Inv1, TypeOK
<1>6. ASSUME NEW b \in Auths, ~raced'[b], NEW q \in Publishing(b)' PROVE held'[q][b] = auths'[b]
  <2>1. q \in Publishing(b) /\ q \in Procs \ {p}
    BY <1>3, <1>6 DEF Publishing
  <2>2. ~raced[b]
    BY <1>5, <1>6, <2>1 DEF Undisturbed
  <2> QED
    BY <1>2, <1>4, <2>1, <2>2 DEF SnapshotsCurrent
<1>7. ASSUME NEW b \in Auths, ~raced'[b], Publishing(b)' = {} PROVE Synchronised(b)'
  <2>1. CASE b = a
    <3>1. held[p][a] = auths[a]
      BY <1>1, <1>3, <1>5, <1>7, <2>1 DEF SnapshotsCurrent, Undisturbed
    <3> QED
      BY <1>1, <1>2, <1>5, <2>1, <3>1, ScheduledSync
  <2>2. CASE b # a
    <3>1. Synchronised(b)
      BY <1>3, <1>5, <1>7, <2>2 DEF SnapshotsCurrent
    <3> QED
      BY <1>2, <1>5, <2>2, <3>1 DEF Synchronised
  <2> QED
    BY <2>1, <2>2
<1> QED
  BY <1>6, <1>7 DEF SnapshotsCurrent

\* A rebuild delivers a snapshot of every credential.
LEMMA RebuildSnapshots ==
  ASSUME Inv1, Inv1', SnapshotsCurrent, NEW r \in Procs, Rebuild(r)
  PROVE  SnapshotsCurrent'
<1>1. /\ pc[r] = "rebuild" /\ pc' = [pc EXCEPT ![r] = "repick"]
      /\ \A a \in Auths : sched'[a] = Scheduled(held[r][a], a, FALSE)
      /\ \A a \in Auths : raced'[a] = (raced[a] /\ ~Undisturbed(r, a))
      /\ held' = [held EXCEPT ![r] = Nothing]
      /\ UNCHANGED <<now, auths, registered, target>>
  BY DEF Rebuild, Goto
<1>2. ASSUME NEW b \in Auths
      PROVE  Publishing(b)' = Publishing(b) \ {r} /\ r \in Publishing(b)
  BY <1>1 DEF Publishing, Inv1, TypeOK
<1>3. \A q \in Procs \ {r} : held'[q] = held[q]
  BY <1>1 DEF Inv1, TypeOK
<1>4. ASSUME NEW b \in Auths, ~raced'[b], NEW q \in Publishing(b)' PROVE held'[q][b] = auths'[b]
  <2>1. q \in Publishing(b) /\ q \in Procs \ {r}
    BY <1>2, <1>4 DEF Publishing
  <2>2. ~raced[b]
    BY <1>1, <1>4, <2>1 DEF Undisturbed
  <2> QED
    BY <1>1, <1>3, <2>1, <2>2 DEF SnapshotsCurrent
<1>5. ASSUME NEW b \in Auths, ~raced'[b], Publishing(b)' = {} PROVE Synchronised(b)'
  <2>1. held[r][b] = auths[b]
    BY <1>1, <1>2, <1>5 DEF SnapshotsCurrent, Undisturbed
  <2>2. \E no \in BOOLEAN : sched'[b] = Scheduled(auths[b], b, no)
    BY <1>1, <2>1
  <2> QED
    BY <1>1, <2>2, ScheduledSync
<1> QED
  BY <1>4, <1>5 DEF SnapshotsCurrent

\* Every step keeps the snapshots under way current, or marks the credential.
LEMMA SnapshotsStep == Inv1 /\ Inv1' /\ SnapshotsCurrent /\ [Next]_vars => SnapshotsCurrent'
<1> SUFFICES ASSUME Inv1, Inv1', SnapshotsCurrent, [Next]_vars PROVE SnapshotsCurrent'
  OBVIOUS
<1>0. /\ {Applier} \cup Catalogs \subseteq Procs
      /\ pc = [q \in Procs |-> pc[q]] /\ target \in [Procs -> Auths]
      /\ held = [q \in Procs |-> held[q]]
      /\ \A q \in Procs : held[q] \in [Auths -> AuthRec \cup {NoAuth}]
  BY DEF Inv1, TypeOK, Procs
<1>1. CASE UNCHANGED vars
  BY <1>1 DEF vars, SnapshotsCurrent, Publishing, Synchronised
<1>2. CASE Tick
  <2>1. \A a \in Auths : Publishing(a)' = Publishing(a)
    BY <1>2 DEF Tick, Publishing
  <2>2. ASSUME NEW a \in Auths, Synchronised(a) PROVE Synchronised(a)'
    <3>1. now' = now + 1 /\ now \in Nat /\ UNCHANGED <<auths, sched>>
      BY <1>2 DEF Tick, Inv1, TypeOK
    <3>2. CASE auths[a] # NoAuth /\ ~auths[a].disabled
      <4>1. \A m \in Models : auths[a].st[m].next \in Nat
        BY <3>2 DEF Inv1, TypeOK, AuthRec, ModelState
      <4> QED
        BY <2>2, <3>1, <3>2, <4>1 DEF Synchronised
    <3>3. CASE auths[a] = NoAuth \/ (auths[a] # NoAuth /\ auths[a].disabled)
      BY <2>2, <3>1, <3>3 DEF Synchronised
    <3> QED
      BY <3>2, <3>3
  <2> QED
    BY <1>2, <2>1, <2>2 DEF Tick, SnapshotsCurrent
<1>3. ASSUME NEW p \in Procs, UNCHANGED <<now, auths, sched>>, raced' = raced, pc[p] \notin Carrying,
             \A q \in Procs \ {p} : pc'[q] = pc[q] /\ target'[q] = target[q] /\ held'[q] = held[q],
             pc'[p] \notin Carrying \/ \A a \in Auths : p \in Publishing(a)' => held'[p][a] = auths[a]
      PROVE  SnapshotsCurrent'
  <2>1. \A a \in Auths : p \in Publishing(a)' => held'[p][a] = auths[a]
    BY <1>3 DEF Publishing, Carrying
  <2>2. \A a \in Auths : Synchronised(a) => Synchronised(a)'
    BY <1>3 DEF Synchronised
  <2> QED
    BY <1>3, <2>1, <2>2, LocalSnapshots
<1>4. ASSUME NEW r \in Reqs, RequestNext(r) PROVE SnapshotsCurrent'
  <2>0. r \in Procs
    BY DEF Procs
  <2>1. ASSUME NEW m \in Models, NEW tried \in SUBSET Auths, NEW none \in {"snapshot", "idle"},
               Pick(r, m, tried, none), pc[r] \in {"idle", "repick"},
               UNCHANGED <<now, auths, held, raced>>
        PROVE  SnapshotsCurrent'
    <3>1. \A a \in Auths : Synchronised(a) => Synchronised(a)'
      BY <2>1, PromotedSync DEF Pick
    <3>2. /\ pc[r] \notin Carrying
          /\ \A q \in Procs \ {r} : pc'[q] = pc[q] /\ target'[q] = target[q] /\ held'[q] = held[q]
          /\ \A a \in Auths : r \notin Publishing(a)'
      BY <1>0, <2>0, <2>1 DEF Pick, Carrying, Publishing
    <3> QED
      BY <2>0, <2>1, <3>1, <3>2, LocalSnapshots
  <2>2. CASE Snapshot(r) \/ Cancelled(r)
    <3>1. /\ UNCHANGED <<now, auths, sched, raced>> /\ pc[r] \notin Carrying
          /\ \A q \in Procs \ {r} : pc'[q] = pc[q] /\ target'[q] = target[q] /\ held'[q] = held[q]
      BY <1>0, <2>0, <2>2 DEF Snapshot, Cancelled, Goto, Carrying
    <3>2. pc'[r] \notin Carrying \/ held'[r] = auths
      BY <1>0, <2>0, <2>2 DEF Snapshot, Cancelled, Goto, Carrying
    <3> QED
      BY <1>3, <2>0, <3>1, <3>2
  <2>3. CASE Rebuild(r)
    BY <2>0, <2>3, RebuildSnapshots
  <2>4. ASSUME NEW out \in Outcomes, MarkResult(r, out) PROVE SnapshotsCurrent'
    BY <2>0, <2>4, WriteSnapshots DEF MarkResult, Goto, Carrying
  <2>5. CASE PublishResult(r)
    BY <2>0, <2>5, PublishSnapshots DEF PublishResult, Carrying
  <2>6. ASSUME NEW m \in Models, NEW tried \in SUBSET Auths, FirstPick(r, m, tried)
        PROVE  SnapshotsCurrent'
    BY <2>1, <2>6 DEF FirstPick
  <2>7. ASSUME NEW tried \in SUBSET Auths, SecondPick(r, tried) PROVE SnapshotsCurrent'
    BY <2>1, <2>7 DEF SecondPick, Inv1, TypeOK
  <2> QED
    BY <1>4, <2>2, <2>3, <2>4, <2>5, <2>6, <2>7 DEF RequestNext
<1>5. ASSUME NEW w \in Refreshers, RefreshNext(w) PROVE SnapshotsCurrent'
  <2>0. w \in Procs
    BY DEF Procs
  <2>1. CASE RefreshCancelled(w) \/ \E a \in Auths : RefreshStart(w, a)
    <3>1. /\ UNCHANGED <<now, auths, sched, raced>> /\ pc[w] \notin Carrying /\ pc'[w] \notin Carrying
          /\ \A q \in Procs \ {w} : pc'[q] = pc[q] /\ target'[q] = target[q] /\ held'[q] = held[q]
      BY <1>0, <2>0, <2>1 DEF RefreshStart, RefreshCancelled, Goto, Carrying
    <3> QED
      BY <1>3, <2>0, <3>1
  <2>2. CASE RefreshFailed(w)
    <3>1. /\ target[w] \in Auths
          /\ sched' = [sched EXCEPT ![target[w]] = Scheduled(auths[target[w]], target[w], FALSE)]
          /\ UNCHANGED <<now, auths, raced>>
      BY <1>0, <2>0, <2>2 DEF RefreshFailed
    <3>2. ASSUME NEW a \in Auths, Synchronised(a) PROVE Synchronised(a)'
      <4>1. CASE a = target[w]
        <5>1. \E no \in BOOLEAN : sched'[a] = Scheduled(auths[a], a, no)
          BY <3>1, <4>1 DEF Inv1, TypeOK
        <5>2. PICK no \in BOOLEAN : sched'[a] = Scheduled(auths[a], a, no)
          BY <5>1
        <5>3. auths'[a] = auths[a] /\ now' = now
          BY <3>1
        <5> QED
          BY <5>2, <5>3, ScheduledSync
      <4>2. CASE a # target[w]
        <5>1. sched'[a] = sched[a]
          BY <3>1, <4>2 DEF Inv1, TypeOK
        <5> QED
          BY <3>1, <3>2, <5>1 DEF Synchronised
      <4> QED
        BY <4>1, <4>2
    <3>3. /\ pc[w] \notin Carrying
          /\ \A q \in Procs \ {w} : pc'[q] = pc[q] /\ target'[q] = target[q] /\ held'[q] = held[q]
          /\ \A a \in Auths : w \notin Publishing(a)'
      BY <1>0, <2>0, <2>2 DEF RefreshFailed, Goto, Carrying, Publishing
    <3> QED
      BY <2>0, <3>1, <3>2, <3>3, LocalSnapshots
  <2>3. CASE RefreshWriteBack(w)
    BY <2>0, <2>3, WriteSnapshots DEF RefreshWriteBack, Update, Goto, Carrying
  <2>4. CASE PublishRefreshed(w)
    BY <2>0, <2>4, PublishSnapshots DEF PublishRefreshed, Carrying
  <2> QED
    BY <1>5, <2>1, <2>2, <2>3, <2>4 DEF RefreshNext
<1>6. CASE ApplyNext
  <2>0. Applier \in Procs
    BY DEF Procs
  <2>1. CASE RemoveLookup \/ \E a \in Auths : ApplyRemove(a) \/ \E off \in BOOLEAN : ApplyAdd(a, off)
    <3>1. /\ UNCHANGED <<now, auths, sched, raced>>
          /\ pc[Applier] \notin Carrying /\ pc'[Applier] \notin Carrying
          /\ \A q \in Procs \ {Applier} : pc'[q] = pc[q] /\ target'[q] = target[q] /\ held'[q] = held[q]
      BY <1>0, <2>0, <2>1 DEF ApplyAdd, ApplyRemove, RemoveLookup, Goto, Carrying
    <3> QED
      BY <1>3, <2>0, <3>1
  <2>2. CASE ApplyWrite
    BY <2>0, <2>2, WriteSnapshots DEF ApplyWrite, Update, Goto, Carrying
  <2>3. CASE PublishApplied
    BY <2>0, <2>3, PublishSnapshots DEF PublishApplied, Carrying
  <2> QED
    BY <1>6, <2>1, <2>2, <2>3 DEF ApplyNext
<1>7. ASSUME NEW c \in Catalogs, CatalogNext(c) PROVE SnapshotsCurrent'
  <2>0. c \in Procs
    BY DEF Procs
  <2>1. /\ UNCHANGED <<now, auths, sched, raced>> /\ pc[c] \notin Carrying /\ pc'[c] \notin Carrying
        /\ \A q \in Procs \ {c} : pc'[q] = pc[q] /\ target'[q] = target[q] /\ held'[q] = held[q]
    BY <1>0, <1>7, <2>0 DEF CatalogNext, CatalogStart, ReadLatest, DropRegistration, Goto, Carrying
  <2> QED
    BY <1>3, <2>0, <2>1
<1>8. ASSUME NEW p \in {Applier} \cup Catalogs, BindNext(p) PROVE SnapshotsCurrent'
  <2>0. p \in Procs
    BY DEF Procs
  <2>1. CASE ReadSupported(p) \/ \E models \in SUBSET Models : Bind(p, models)
    <3>1. /\ UNCHANGED <<now, auths, sched, raced>> /\ pc[p] \notin Carrying /\ pc'[p] \notin Carrying
          /\ \A q \in Procs \ {p} : pc'[q] = pc[q] /\ target'[q] = target[q] /\ held'[q] = held[q]
      BY <1>0, <2>0, <2>1 DEF Bind, ReadSupported, Goto, Carrying
    <3> QED
      BY <1>3, <2>0, <3>1
  <2>2. CASE CloneEntry(p)
    <3>1. /\ UNCHANGED <<now, auths, sched, raced>> /\ pc[p] \notin Carrying
          /\ \A q \in Procs \ {p} : pc'[q] = pc[q] /\ target'[q] = target[q] /\ held'[q] = held[q]
      BY <1>0, <2>0, <2>2 DEF CloneEntry, Goto, Carrying
    <3>2. \A a \in Auths : p \in Publishing(a)' => held'[p][a] = auths[a]
      BY <1>0, <2>0, <2>2 DEF CloneEntry, Goto, Publishing, Nothing
    <3> QED
      BY <1>3, <2>0, <3>1, <3>2
  <2>3. CASE Reconcile(p)
    <3>1. CASE \E rec : InPlace(p, target[p], rec) /\ pc' = [pc EXCEPT ![p] = "republish"]
      BY <2>0, <2>3, <3>1, WriteSnapshots DEF Reconcile, Carrying
    <3>2. CASE pc' = [pc EXCEPT ![p] = AfterReconcile(p)] /\ UNCHANGED <<auths, sched, held, raced>>
      <4>1. /\ UNCHANGED <<now, auths, sched, raced>> /\ pc[p] \notin Carrying /\ pc'[p] \notin Carrying
            /\ \A q \in Procs \ {p} : pc'[q] = pc[q] /\ target'[q] = target[q] /\ held'[q] = held[q]
        BY <1>0, <2>0, <2>3, <3>2 DEF Reconcile, AfterReconcile, Carrying
      <4> QED
        BY <1>3, <2>0, <4>1
    <3> QED
      BY <2>3, <3>1, <3>2 DEF Reconcile
  <2>4. CASE Republish(p) \/ PublishEntry(p)
    BY <2>0, <2>4, PublishSnapshots DEF Republish, PublishEntry, AfterReconcile, Carrying
  <2> QED
    BY <1>8, <2>1, <2>2, <2>3, <2>4 DEF BindNext
<1> QED
  BY <1>1, <1>2, <1>4, <1>5, <1>6, <1>7, <1>8 DEF Next

\* Unless a write overtook a snapshot of it, a credential that no goroutine is
\* publishing is routed as the Manager's record demands, whatever the number of
\* credentials, models and goroutines and whatever the durations.
THEOREM SchedulerFollows == Spec => []SchedulerFollowsManager
<1>1. Init => SnapshotsCurrent
  BY DEF Init, SnapshotsCurrent, Publishing, Synchronised, Nothing
<1>2. Inv1 /\ SnapshotsCurrent => SchedulerFollowsManager
  BY SyncAgrees DEF SnapshotsCurrent, SchedulerFollowsManager
<1> QED
  BY <1>1, <1>2, Inv1Init, Inv1Step, SnapshotsStep, PTL DEF Spec

\* A synchronised entry agrees with the record, in every state.
LEMMA SyncAgreesAlways == Inv1 => \A a \in Auths : Synchronised(a) => Agrees(a)
  BY SyncAgrees

\* A rebuild of a snapshot that is still current repairs every entry.
LEMMA RepairStep ==
  Inv1 /\ Inv1' /\ [Next]_vars =>
    \A r \in Reqs : pc[r] = "rebuild" /\ pc'[r] = "repick" /\ held[r] = auths
                      => \A a \in Auths : Synchronised(a)'
<1> SUFFICES ASSUME Inv1, Inv1', [Next]_vars, NEW r \in Reqs, NEW a \in Auths,
                    pc[r] = "rebuild", pc'[r] = "repick", held[r] = auths
             PROVE  Synchronised(a)'
  OBVIOUS
<1>0. /\ r \in Procs /\ Reqs \cup Refreshers \cup Catalogs \cup {Applier} \subseteq Procs
      /\ r \notin Refreshers \cup Catalogs \cup {Applier}
      /\ pc = [q \in Procs |-> pc[q]]
  BY ProcsAssumption DEF Inv1, TypeOK, Procs
<1>1. CASE Rebuild(r)
  <2>1. sched'[a] = Scheduled(auths[a], a, FALSE) /\ auths'[a] = auths[a] /\ now' = now
    BY <1>1 DEF Rebuild
  <2>2. \E no \in BOOLEAN : sched'[a] = Scheduled(auths[a], a, no)
    BY <2>1
  <2> QED
    BY <2>1, <2>2, ScheduledSync
<1>2. CASE UNCHANGED vars \/ Tick
  BY <1>2 DEF vars, Tick
<1>3. ASSUME NEW s \in Reqs, RequestNext(s), ~Rebuild(r) PROVE FALSE
  <2>1. CASE Rebuild(s)
    BY <1>0, <1>3, <2>1 DEF Rebuild, Goto
  <2>5. CASE Snapshot(s)
    BY <1>0, <2>5 DEF Snapshot, Goto
  <2>6. CASE Cancelled(s)
    BY <1>0, <2>6 DEF Cancelled, Goto
  <2>7. CASE PublishResult(s)
    BY <1>0, <2>7 DEF PublishResult, Publish, Goto
  <2>2. ASSUME NEW m \in Models, NEW tried \in SUBSET Auths, FirstPick(s, m, tried) PROVE FALSE
    BY <1>0, <2>2 DEF FirstPick, Pick
  <2>3. ASSUME NEW tried \in SUBSET Auths, SecondPick(s, tried) PROVE FALSE
    BY <1>0, <2>3 DEF SecondPick, Pick
  <2>4. ASSUME NEW out \in Outcomes, MarkResult(s, out) PROVE FALSE
    BY <1>0, <2>4 DEF MarkResult, Goto
  <2> QED
    BY <1>3, <2>1, <2>2, <2>3, <2>4, <2>5, <2>6, <2>7 DEF RequestNext
<1>4. ASSUME NEW w \in Refreshers, RefreshNext(w) PROVE FALSE
  BY <1>0, <1>4 DEF RefreshNext, RefreshStart, RefreshFailed, RefreshCancelled,
     RefreshWriteBack, Update, PublishRefreshed, Publish, Goto
<1>5. CASE ApplyNext
  BY <1>0, <1>5 DEF ApplyNext, ApplyAdd, ApplyRemove, RemoveLookup, ApplyWrite, Update,
     PublishApplied, Publish, Goto
<1>6. ASSUME NEW c \in Catalogs, CatalogNext(c) PROVE FALSE
  BY <1>0, <1>6 DEF CatalogNext, CatalogStart, ReadLatest, DropRegistration, Goto
<1>7. ASSUME NEW p \in {Applier} \cup Catalogs, BindNext(p) PROVE FALSE
  BY <1>0, <1>7 DEF BindNext, Bind, ReadSupported, Reconcile, Republish, CloneEntry,
     PublishEntry, Publish, Goto
<1> QED
  BY <1>1, <1>2, <1>3, <1>4, <1>5, <1>6, <1>7 DEF Next

\* The retry inside pickNextMixed never fails for an upsert that was lost.
THEOREM RebuildRepairsAll == Spec => RebuildRepairs
<1>1. Inv1 /\ Inv1' /\ (Inv1 => \A a \in Auths : Synchronised(a) => Agrees(a))' /\ [Next]_vars =>
        [\A r \in Reqs : pc[r] = "rebuild" /\ pc'[r] = "repick" /\ held[r] = auths
           => \A a \in Auths : Agrees(a)']_vars
  BY RepairStep
<1> QED
  BY <1>1, Inv1Init, Inv1Step, SyncAgreesAlways, PTL DEF Spec, RebuildRepairs
=============================================================================
