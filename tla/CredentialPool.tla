--------------------------- MODULE CredentialPool ---------------------------
(***************************************************************************)
(* The credential pool of sdk/cliproxy/auth: Manager (conductor.go) keeps  *)
(* the authoritative record of every credential under m.mu, authScheduler  *)
(* (scheduler.go) keeps a second, derived copy under its own mutex, and    *)
(* the global model registry tells which models a credential serves.       *)
(*                                                                         *)
(* Every writer changes the Manager inside m.mu, takes a clone, releases   *)
(* m.mu and only then pushes the clone into the scheduler.  The two halves *)
(* are separate actions here, so several goroutines interleave between     *)
(* them: request goroutines (pick, execute, MarkResult), refresh workers   *)
(* (refreshAuth), the service's consumer of credential updates (add,       *)
(* modify, remove) and the model-catalogue callback.                       *)
(*                                                                         *)
(* Time is an abstract clock; a duration is a small constant.  The         *)
(* registry calls MarkResult makes at its end (quota marks, suspensions)   *)
(* are left to ModelRegistry: nothing the pool reads depends on them.      *)
(***************************************************************************)
EXTENDS Integers, FiniteSets

CONSTANTS
  Auths,       \* credential IDs
  Models,      \* canonical model keys
  Reqs,        \* request goroutines
  Refreshers,  \* workers of the auto-refresh loop
  Applier,     \* the goroutine that runs consumeAuthUpdates
  Catalogs,    \* goroutines that run refreshModelRegistrationForAuth
  NoAuth,      \* absent from m.auths, or: no snapshot held
  NoEntry,     \* absent from the scheduler
  Transient,   \* cooldown of 408 and 5xx (one minute)
  Long,        \* cooldown of 401, 402, 403, 404 and unsupported models
  Hint,        \* a Retry-After the upstream sent with a 429
  MaxLevel,    \* backoff level at which nextQuotaCooldown stops growing
  Cooldown,    \* Cooldown[l]: duration nextQuotaCooldown returns at level l
  Outcomes,    \* the kinds of result the upstreams produce
  MaxTime,     \* bound on the clock
  MaxResults   \* bound on the results recorded per credential

Procs == Reqs \cup Refreshers \cup {Applier} \cup Catalogs

\* Success, a request-scoped 404, 408/5xx, 401/402/403/404/unsupported model,
\* 429, 429 with a Retry-After, any other failure.
ResultKinds == {"ok", "scoped", "transient", "long", "quota", "hinted", "other"}

\* ModelState: whether ensureModelState created it, NextRetryAfter (0: zero
\* time), Quota.NextRecoverAt, Quota.BackoffLevel, and whether it holds an error.
ModelState == [known: BOOLEAN, next: Nat, recover: Nat, level: 0..MaxLevel, err: BOOLEAN]

\* Auth: Disabled, ModelStates, and Success + Failed.
AuthRec == [disabled: BOOLEAN, st: [Models -> ModelState], results: Nat]

\* scheduledAuthMeta and the scheduledAuth of each shard: nextRetryAt per
\* model (0: ready), the record pointed to, whether that record is the very
\* one in m.auths (Register and Update hand their live record over), and
\* supportedModelSet.
Entry == [until: [Models -> Nat], rec: AuthRec, shared: BOOLEAN, models: SUBSET Models]

ASSUME ProcsAssumption ==
  /\ Reqs \cap Refreshers = {} /\ Reqs \cap Catalogs = {} /\ Refreshers \cap Catalogs = {}
  /\ Applier \notin Reqs \cup Refreshers \cup Catalogs

ASSUME DurationAssumption ==
  /\ Transient \in Nat \ {0} /\ Long \in Nat \ {0} /\ Hint \in Nat \ {0}
  /\ MaxLevel \in Nat
  /\ Cooldown \in [0..MaxLevel -> Nat \ {0}]
  /\ MaxTime \in Nat /\ MaxResults \in Nat
  /\ Outcomes \subseteq ResultKinds

ASSUME NullAssumption == NoAuth \notin AuthRec /\ NoEntry \notin Entry

VARIABLES
  now,         \* the clock
  auths,       \* m.auths
  sched,       \* the scheduler's entry of each credential
  registered,  \* registry.GetModelsForClient of each credential
  pc,          \* where each goroutine stands
  job,         \* what the Applier or a catalogue goroutine is doing
  target,      \* the credential each goroutine works on
  model,       \* the model each request goroutine asks for
  seen,        \* registry snapshot ReconcileRegistryModelStates took
  held,        \* records a goroutine holds outside m.mu
  live,        \* the record a goroutine holds is the one in m.auths
  raced        \* auxiliary: a write overtook a snapshot on its way to the scheduler,
               \* and no undisturbed snapshot has followed

vars == <<now, auths, sched, registered, pc, job, target, model, seen, held, live, raced>>

-----------------------------------------------------------------------------
(* Records *)

NoState    == [known |-> FALSE, next |-> 0, recover |-> 0, level |-> 0, err |-> FALSE]
CleanState == [known |-> TRUE, next |-> 0, recover |-> 0, level |-> 0, err |-> FALSE]
NoStates   == [m \in Models |-> NoState]
Nothing    == [a \in Auths |-> NoAuth]

\* updateAggregatedAvailability: a state whose retry time has passed is
\* unblocked in place; its quota and error stay.
Normalised(st) ==
  [m \in Models |-> IF st[m].next <= now THEN [st[m] EXCEPT !.next = 0] ELSE st[m]]

\* The retry time each kind of failure earns at the current instant.
RetryAt(s, out) ==
  CASE out = "transient" -> now + Transient
    [] out = "long"      -> now + Long
    [] out = "quota"     -> now + Cooldown[s.level]
    [] out = "hinted"    -> now + Hint
    [] OTHER             -> 0

\* Mutant of NextLevel: the level grows although the cooldown is capped.
NextLevelUncapped(l) == l + 1

\* nextQuotaCooldown: the level stays once the cooldown is capped.
NextLevel(l) == IF l = MaxLevel THEN l ELSE l + 1

Failed(s, out) ==
  [known   |-> TRUE,
   next    |-> RetryAt(s, out),
   recover |-> IF out \in {"quota", "hinted"} THEN RetryAt(s, out) ELSE s.recover,
   level   |-> IF out = "quota" THEN NextLevel(s.level) ELSE s.level,
   err     |-> TRUE]

\* The record MarkResult leaves: a request-scoped 404 only counts.
Marked(rec, m, out) ==
  [disabled |-> rec.disabled,
   results  |-> rec.results + 1,
   st       |-> IF out = "scoped" THEN rec.st
                ELSE Normalised([rec.st EXCEPT ![m] =
                       IF out = "ok" THEN CleanState ELSE Failed(rec.st[m], out)])]

\* Mutant of Merged: the counters of the stale argument win.
MergedStaleCounters(arg, existing) ==
  [disabled |-> arg.disabled,
   results  |-> arg.results,
   st       |-> IF ~existing.disabled /\ ~arg.disabled /\ \A m \in Models : ~arg.st[m].known
                THEN existing.st ELSE arg.st]

\* What Update stores for arg over an existing record: the counters always
\* survive, the model states only when both are enabled and arg has none.
Merged(arg, existing) ==
  [disabled |-> arg.disabled,
   results  |-> existing.results,
   st       |-> IF /\ ~existing.disabled /\ ~arg.disabled
                   /\ \A m \in Models : ~arg.st[m].known
                THEN existing.st ELSE arg.st]

\* ReconcileRegistryModelStates: states of unsupported models are dropped,
\* the others are reset unless clean.
Pruned(rec, supported) ==
  [rec EXCEPT !.st = [m \in Models |->
     IF rec.st[m].known /\ m \in supported THEN CleanState ELSE NoState]]

-----------------------------------------------------------------------------
(* The scheduler *)

\* isAuthBlockedForModel: the time the block ends, 0 when not blocked.
BlockedUntil(rec, m) ==
  LET s == rec.st[m]
  IN IF s.next <= now THEN 0
     ELSE IF s.recover > now THEN s.recover ELSE s.next

\* upsertAuthLocked: a disabled record is removed; supportedModelSet is read
\* from the registry here, whatever the age of the snapshot.
Scheduled(rec, a, shared) ==
  IF rec = NoAuth THEN NoEntry
  ELSE IF rec.disabled THEN NoEntry
  ELSE [until  |-> [m \in Models |-> BlockedUntil(rec, m)],
        rec    |-> rec,
        shared |-> shared,
        models |-> registered[a]]

\* Mutant of Promoted: an expired entry is ready without a second look.
PromotedBlindly(e, m) ==
  IF e = NoEntry THEN e
  ELSE IF m \in e.models /\ e.until[m] # 0 /\ e.until[m] <= now
       THEN [e EXCEPT !.until = [@ EXCEPT ![m] = 0]]
       ELSE e

\* promoteExpiredLocked: only an entry whose retry time has passed is looked
\* at again, through the record it points to.
Promoted(e, m) ==
  IF e = NoEntry THEN e
  ELSE IF m \in e.models /\ e.until[m] # 0 /\ e.until[m] <= now
       THEN [e EXCEPT !.until = [@ EXCEPT ![m] = BlockedUntil(e.rec, m)]]
       ELSE e

Ready(e, m) == e # NoEntry /\ m \in e.models /\ e.until[m] = 0

\* Goroutines about to hand the scheduler a snapshot that includes a.
Publishing(a) == {p \in Procs : \/ pc[p] = "rebuild"
                                \/ pc[p] \in {"publish", "republish", "entry"} /\ target[p] = a}

\* Goroutines that hold the record of a itself, not a clone.
Aliases(a) == {q \in Procs : live[q] /\ target[q] = a}

\* p writes m.auths[a] in place, inside m.mu: every alias of the record sees
\* it; a snapshot another goroutine is carrying to the scheduler is outdated.
InPlace(p, a, rec) ==
  /\ auths' = [auths EXCEPT ![a] = rec]
  /\ sched' = [sched EXCEPT ![a] = IF @ = NoEntry THEN @
                                   ELSE IF @.shared THEN [@ EXCEPT !.rec = rec] ELSE @]
  /\ held'  = [q \in Procs |-> IF q \in Aliases(a) THEN [held[q] EXCEPT ![a] = rec]
                               ELSE IF q = p THEN [Nothing EXCEPT ![a] = rec] ELSE held[q]]
  /\ raced' = [raced EXCEPT ![a] = @ \/ Publishing(a) \ (Aliases(a) \cup {p}) # {}]
  /\ UNCHANGED live

\* p puts another record in m.auths[a] and keeps a pointer to it: aliases of
\* the previous record now point to an orphan.
Replace(p, a, rec) ==
  /\ auths' = [auths EXCEPT ![a] = rec]
  /\ sched' = [sched EXCEPT ![a] = IF @ = NoEntry THEN @ ELSE [@ EXCEPT !.shared = FALSE]]
  /\ held'  = [held EXCEPT ![p] = [Nothing EXCEPT ![a] = rec]]
  /\ live'  = [q \in Procs |-> q = p \/ (live[q] /\ q \notin Aliases(a))]
  /\ raced' = [raced EXCEPT ![a] = @ \/ Publishing(a) \ {p} # {}]

\* p hands over a snapshot of a that is current while no other is on its way.
Undisturbed(p, a) == Publishing(a) = {p} /\ held[p][a] = auths[a]

\* upsertAuth of the record p holds, after m.mu was released.
Publish(p, next) ==
  LET a == target[p]
  IN /\ sched' = [sched EXCEPT ![a] = Scheduled(held[p][a], a, live[p])]
     /\ held'  = [held EXCEPT ![p] = Nothing]
     /\ live'  = [live EXCEPT ![p] = FALSE]
     /\ pc'    = [pc EXCEPT ![p] = next]
     /\ raced' = [raced EXCEPT ![a] = @ /\ ~Undisturbed(p, a)]
     /\ UNCHANGED <<now, auths, registered, job, target, model, seen>>

Goto(p, from, to) == pc[p] = from /\ pc' = [pc EXCEPT ![p] = to]

-----------------------------------------------------------------------------
(* Request goroutines: pickNextMixed, execution, MarkResult *)

\* pickMixed under s.mu: expired entries of the model are promoted, then one
\* ready credential outside tried is returned, or none.  Which one the
\* rotation yields is left open.
Pick(r, m, tried, none) ==
  LET view == [a \in Auths |-> Promoted(sched[a], m)]
      ok   == {a \in Auths \ tried : Ready(view[a], m)}
  IN /\ sched' = view
     /\ \/ /\ ok = {}
           /\ pc' = [pc EXCEPT ![r] = none]
           /\ UNCHANGED target
        \/ \E a \in ok :
             /\ target' = [target EXCEPT ![r] = a]
             /\ pc' = [pc EXCEPT ![r] = "exec"]

FirstPick(r, m, tried) ==
  /\ pc[r] = "idle"
  /\ model' = [model EXCEPT ![r] = m]
  /\ Pick(r, m, tried, "snapshot")
  /\ UNCHANGED <<now, auths, registered, job, seen, held, live, raced>>

\* syncScheduler: snapshotAuths under m.mu, rebuild under s.mu afterwards.
Snapshot(r) ==
  /\ Goto(r, "snapshot", "rebuild")
  /\ held' = [held EXCEPT ![r] = auths]
  /\ UNCHANGED <<now, auths, sched, registered, job, target, model, seen, live, raced>>

\* Mutant of Rebuild: entries the scheduler already has are kept.
RebuildMissing(r) ==
  /\ Goto(r, "rebuild", "repick")
  /\ sched' = [a \in Auths |-> IF sched[a] # NoEntry THEN sched[a]
                              ELSE Scheduled(held[r][a], a, FALSE)]
  /\ raced' = [a \in Auths |-> raced[a] /\ ~Undisturbed(r, a)]
  /\ held' = [held EXCEPT ![r] = Nothing]
  /\ UNCHANGED <<now, auths, registered, job, target, model, seen, live>>

Rebuild(r) ==
  /\ Goto(r, "rebuild", "repick")
  /\ sched' = [a \in Auths |-> Scheduled(held[r][a], a, FALSE)]
  /\ raced' = [a \in Auths |-> raced[a] /\ ~Undisturbed(r, a)]
  /\ held' = [held EXCEPT ![r] = Nothing]
  /\ UNCHANGED <<now, auths, registered, job, target, model, seen, live>>

SecondPick(r, tried) ==
  /\ pc[r] = "repick"
  /\ Pick(r, model[r], tried, "idle")
  /\ UNCHANGED <<now, auths, registered, job, model, seen, held, live, raced>>

\* The critical section of MarkResult.
MarkResult(r, out) ==
  LET a == target[r]
  IN /\ Goto(r, "exec", "publish")
     /\ auths[a].results < MaxResults
     /\ InPlace(r, a, Marked(auths[a], model[r], out))
     /\ UNCHANGED <<now, registered, job, target, model, seen>>

\* The request context ended while the upstream answered: nothing is recorded.
Cancelled(r) ==
  /\ Goto(r, "exec", "idle")
  /\ UNCHANGED <<now, auths, sched, registered, job, target, model, seen, held, live, raced>>

PublishResult(r) == pc[r] = "publish" /\ Publish(r, "idle")

-----------------------------------------------------------------------------
(* refreshAuth: clone under m.mu, call the provider, write the clone back *)

RefreshStart(w, a) ==
  /\ Goto(w, "idle", "refreshing")
  /\ auths[a] # NoAuth
  /\ target' = [target EXCEPT ![w] = a]
  /\ held' = [held EXCEPT ![w] = [Nothing EXCEPT ![a] = auths[a]]]
  /\ UNCHANGED <<now, auths, sched, registered, job, model, seen, live, raced>>

\* The provider refused: the error is noted on the current record, which is
\* pushed into the scheduler before m.mu is released.
RefreshFailed(w) ==
  LET a == target[w]
  IN /\ Goto(w, "refreshing", "idle")
     /\ sched' = [sched EXCEPT ![a] = Scheduled(auths[a], a, FALSE)]
     /\ held' = [held EXCEPT ![w] = Nothing]
     /\ UNCHANGED <<now, auths, registered, job, target, model, seen, live, raced>>

RefreshCancelled(w) ==
  /\ Goto(w, "refreshing", "idle")
  /\ held' = [held EXCEPT ![w] = Nothing]
  /\ UNCHANGED <<now, auths, sched, registered, job, target, model, seen, live, raced>>

\* The critical section of Update (Register, when there is no record yet).
Update(p, from) ==
  LET a == target[p]  arg == held[p][a]
  IN /\ Goto(p, from, "publish")
     /\ Replace(p, a, IF auths[a] = NoAuth THEN arg ELSE Merged(arg, auths[a]))
     /\ UNCHANGED <<now, registered, job, target, model, seen>>

RefreshWriteBack(w) == Update(w, "refreshing")

\* Mutant of PublishRefreshed: Update returns without its upsert.
PublishNothing(w) ==
  /\ Goto(w, "publish", "idle")
  /\ held' = [held EXCEPT ![w] = Nothing]
  /\ live' = [live EXCEPT ![w] = FALSE]
  /\ UNCHANGED <<now, auths, sched, registered, job, target, model, seen, raced>>

PublishRefreshed(w) == pc[w] = "publish" /\ Publish(w, "idle")

-----------------------------------------------------------------------------
(* The consumer of credential updates: applyCoreAuthAddOrUpdate, applyCoreAuthRemoval *)

\* GetByID, and the model states carried over outside m.mu.
ApplyAdd(a, off) ==
  LET carry == /\ auths[a] # NoAuth
               /\ ~auths[a].disabled
               /\ ~off
      arg   == [disabled |-> off, results |-> 0,
                st |-> IF carry THEN auths[a].st ELSE NoStates]
  IN /\ Goto(Applier, "idle", "write")
     /\ job' = [job EXCEPT ![Applier] = IF off THEN "addOff" ELSE "add"]
     /\ target' = [target EXCEPT ![Applier] = a]
     /\ held' = [held EXCEPT ![Applier] = [Nothing EXCEPT ![a] = arg]]
     /\ UNCHANGED <<now, auths, sched, registered, model, seen, live, raced>>

ApplyRemove(a) ==
  /\ Goto(Applier, "idle", "lookup")
  /\ job' = [job EXCEPT ![Applier] = "remove"]
  /\ target' = [target EXCEPT ![Applier] = a]
  /\ registered' = [registered EXCEPT ![a] = {}]
  /\ UNCHANGED <<now, auths, sched, model, seen, held, live, raced>>

RemoveLookup ==
  LET a == target[Applier]
  IN /\ pc[Applier] = "lookup"
     /\ IF auths[a] = NoAuth
        THEN /\ pc' = [pc EXCEPT ![Applier] = "idle"]
             /\ UNCHANGED held
        ELSE /\ pc' = [pc EXCEPT ![Applier] = "write"]
             /\ held' = [held EXCEPT ![Applier] =
                           [Nothing EXCEPT ![a] = [auths[a] EXCEPT !.disabled = TRUE]]]
     /\ UNCHANGED <<now, auths, sched, registered, job, target, model, seen, live, raced>>

ApplyWrite == Update(Applier, "write")

PublishApplied ==
  /\ pc[Applier] = "publish"
  /\ Publish(Applier, IF job[Applier] = "remove" THEN "idle" ELSE "bind")

-----------------------------------------------------------------------------
(* Model registration, shared by the Applier and the catalogue callback *)

\* SetModelRefreshCallback picked an enabled credential and calls
\* refreshModelRegistrationForAuth on its snapshot.
CatalogStart(c, a) ==
  /\ Goto(c, "idle", "bind")
  /\ auths[a] # NoAuth
  /\ ~auths[a].disabled
  /\ job' = [job EXCEPT ![c] = "first"]
  /\ target' = [target EXCEPT ![c] = a]
  /\ UNCHANGED <<now, auths, sched, registered, model, seen, held, live, raced>>

\* registerModelsForAuth: a disabled credential, or one without models, is
\* unregistered.
Bind(p, models) ==
  /\ Goto(p, "bind", "supported")
  /\ job[p] = "addOff" => models = {}
  /\ registered' = [registered EXCEPT ![target[p]] = models]
  /\ UNCHANGED <<now, auths, sched, job, target, model, seen, held, live, raced>>

\* ReconcileRegistryModelStates reads the registry before it takes m.mu ...
ReadSupported(p) ==
  /\ Goto(p, "supported", "reconcile")
  /\ seen' = [seen EXCEPT ![p] = registered[target[p]]]
  /\ UNCHANGED <<now, auths, sched, registered, job, target, model, held, live, raced>>

\* Mutant of AfterReconcile: the final RefreshSchedulerEntry is forgotten.
AfterReconcileDone(p) == IF job[p] = "first" THEN "latest" ELSE "idle"

AfterReconcile(p) == IF job[p] = "first" THEN "latest" ELSE "clone"

\* Mutant of Reconcile: the reconciled record is not pushed to the scheduler.
ReconcileQuietly(p) ==
  LET a == target[p]
  IN /\ Goto(p, "reconcile", AfterReconcile(p))
     /\ auths[a] # NoAuth
     /\ auths' = [auths EXCEPT ![a] = Pruned(auths[a], seen[p])]
     /\ seen' = [seen EXCEPT ![p] = {}]
     /\ UNCHANGED <<now, sched, registered, job, target, model, held, live, raced>>

\* ... and rewrites the model states under it.
Reconcile(p) ==
  LET a == target[p]
  IN /\ pc[p] = "reconcile"
     /\ LET rec == IF auths[a] = NoAuth THEN NoAuth ELSE Pruned(auths[a], seen[p])
        IN IF rec # auths[a]
           THEN /\ pc' = [pc EXCEPT ![p] = "republish"]
                /\ InPlace(p, a, rec)
           ELSE /\ pc' = [pc EXCEPT ![p] = AfterReconcile(p)]
                /\ UNCHANGED <<auths, sched, held, live, raced>>
     /\ seen' = [seen EXCEPT ![p] = {}]
     /\ UNCHANGED <<now, registered, job, target, model>>

Republish(p) == pc[p] = "republish" /\ Publish(p, AfterReconcile(p))

\* latestAuthForModelRegistration decides between a second registration and
\* dropping the first.
ReadLatest(c) ==
  LET a == target[c]
  IN /\ pc[c] = "latest"
     /\ IF auths[a] = NoAuth THEN pc' = [pc EXCEPT ![c] = "drop"]
        ELSE pc' = [pc EXCEPT ![c] = IF auths[a].disabled THEN "drop" ELSE "bind"]
     /\ job' = [job EXCEPT ![c] = "second"]
     /\ UNCHANGED <<now, auths, sched, registered, target, model, seen, held, live, raced>>

DropRegistration(c) ==
  /\ Goto(c, "drop", "clone")
  /\ registered' = [registered EXCEPT ![target[c]] = {}]
  /\ UNCHANGED <<now, auths, sched, job, target, model, seen, held, live, raced>>

\* RefreshSchedulerEntry: clone under m.mu, upsert afterwards.  The early
\* return for an unknown ID never happens: the callers saw the record, and
\* m.auths loses no ID.
CloneEntry(p) ==
  LET a == target[p]
  IN /\ Goto(p, "clone", "entry")
     /\ auths[a] # NoAuth
     /\ held' = [held EXCEPT ![p] = [Nothing EXCEPT ![a] = auths[a]]]
     /\ UNCHANGED <<now, auths, sched, registered, job, target, model, seen, live, raced>>

PublishEntry(p) == pc[p] = "entry" /\ Publish(p, "idle")

-----------------------------------------------------------------------------

Tick ==
  /\ now < MaxTime
  /\ now' = now + 1
  /\ UNCHANGED <<auths, sched, registered, pc, job, target, model, seen, held, live, raced>>

Init ==
  /\ now = 0
  /\ auths = Nothing
  /\ sched = [a \in Auths |-> NoEntry]
  /\ registered = [a \in Auths |-> {}]
  /\ pc = [p \in Procs |-> "idle"]
  /\ job = [p \in Procs |-> "none"]
  /\ target \in {[p \in Procs |-> a] : a \in Auths}
  /\ model \in {[r \in Reqs |-> m] : m \in Models}
  /\ seen = [p \in Procs |-> {}]
  /\ held = [p \in Procs |-> Nothing]
  /\ live = [p \in Procs |-> FALSE]
  /\ raced = [a \in Auths |-> FALSE]

RequestNext(r) ==
  \/ \E m \in Models, tried \in SUBSET Auths : FirstPick(r, m, tried)
  \/ Snapshot(r)
  \/ Rebuild(r)
  \/ \E tried \in SUBSET Auths : SecondPick(r, tried)
  \/ \E out \in Outcomes : MarkResult(r, out)
  \/ Cancelled(r)
  \/ PublishResult(r)

RefreshNext(w) ==
  \/ \E a \in Auths : RefreshStart(w, a)
  \/ RefreshFailed(w)
  \/ RefreshCancelled(w)
  \/ RefreshWriteBack(w)
  \/ PublishRefreshed(w)

ApplyNext ==
  \/ \E a \in Auths, off \in BOOLEAN : ApplyAdd(a, off)
  \/ \E a \in Auths : ApplyRemove(a)
  \/ RemoveLookup
  \/ ApplyWrite
  \/ PublishApplied

CatalogNext(c) ==
  \/ \E a \in Auths : CatalogStart(c, a)
  \/ ReadLatest(c)
  \/ DropRegistration(c)

BindNext(p) ==
  \/ \E models \in SUBSET Models : Bind(p, models)
  \/ ReadSupported(p)
  \/ Reconcile(p)
  \/ Republish(p)
  \/ CloneEntry(p)
  \/ PublishEntry(p)

Next ==
  \/ Tick
  \/ \E r \in Reqs : RequestNext(r)
  \/ \E w \in Refreshers : RefreshNext(w)
  \/ ApplyNext
  \/ \E c \in Catalogs : CatalogNext(c)
  \/ \E p \in {Applier} \cup Catalogs : BindNext(p)

Spec == Init /\ [][Next]_vars

-----------------------------------------------------------------------------
(* Properties *)

TypeOK ==
  /\ now \in Nat
  /\ auths \in [Auths -> AuthRec \cup {NoAuth}]
  /\ sched \in [Auths -> Entry \cup {NoEntry}]
  /\ registered \in [Auths -> SUBSET Models]
  /\ pc \in [Procs -> {"idle", "exec", "snapshot", "rebuild", "repick", "publish",
                       "refreshing", "lookup", "write", "bind", "supported", "reconcile",
                       "republish", "latest", "drop", "clone", "entry"}]
  /\ job \in [Procs -> {"none", "add", "addOff", "remove", "first", "second"}]
  /\ target \in [Procs -> Auths]
  /\ model \in [Reqs -> Models]
  /\ seen \in [Procs -> SUBSET Models]
  /\ held \in [Procs -> [Auths -> AuthRec \cup {NoAuth}]]
  /\ live \in [Procs -> BOOLEAN]
  /\ raced \in [Auths -> BOOLEAN]

\* The scheduler routes a as the Manager's record of it demands: a credential
\* that is absent or disabled is not there, a model in cooldown is not ready,
\* and a model whose cooldown and quota window are over is not held back once
\* a pick has looked at it.
Agrees(a) ==
  IF auths[a] = NoAuth THEN sched[a] = NoEntry
  ELSE IF auths[a].disabled THEN sched[a] = NoEntry
  ELSE /\ sched[a] # NoEntry
       /\ \A m \in sched[a].models :
            /\ Ready(Promoted(sched[a], m), m) => auths[a].st[m].next <= now
            /\ auths[a].st[m].next <= now /\ auths[a].st[m].recover <= now
                 => Ready(Promoted(sched[a], m), m)

\* Every writer brings the scheduler up to date: unless a write of a credential
\* overtook a snapshot of it, the scheduler agrees with the Manager whenever no
\* snapshot of it is on its way, and one undisturbed upsert or rebuild repairs
\* what a race left behind.  A handler that forgets its upsert, or pushes what
\* it read before its own write, breaks this.
SchedulerFollowsManager ==
  \A a \in Auths : ~raced[a] /\ Publishing(a) = {} => Agrees(a)

\* Goroutines that changed, or are about to change, the registry entry of a
\* and have not yet refreshed its scheduler entry.
Rebinding(a) ==
  {p \in {Applier} \cup Catalogs :
     /\ target[p] = a
     /\ pc[p] # "idle"}

\* The scheduler offers a credential for exactly the models the registry has
\* for it, whatever old snapshots were pushed meanwhile: this is what keeps a
\* removed credential out of the rotation even when a late result puts its
\* entry back, and a new one in it.
SchedulerModelsCurrent ==
  \A a \in Auths :
    sched[a] # NoEntry /\ Rebinding(a) = {} => sched[a].models = registered[a]

\* A rebuild from a snapshot that is still current repairs the scheduler for
\* every credential, however stale it was: the retry inside pickNextMixed
\* does not fail for a lost upsert.
RebuildRepairs ==
  [][\A r \in Reqs :
       pc[r] = "rebuild" /\ pc'[r] = "repick" /\ held[r] = auths
         => \A a \in Auths : Agrees(a)']_vars

\* Results are never uncounted: neither a refresh written back over newer
\* results nor an update from disk lowers Success + Failed.
ResultsNeverLost ==
  [][\A a \in Auths : auths[a] # NoAuth =>
       auths'[a] # NoAuth /\ auths'[a].results >= auths[a].results]_vars

\* service.go, refreshModelRegistrationForAuth: concurrent updates cannot
\* leave stale model registrations behind, so once the Applier and the
\* catalogue are done a disabled credential has no registration.
NoStaleRegistration ==
  \A a \in Auths :
    (Rebinding(a) = {} /\ auths[a] # NoAuth)
      => (auths[a].disabled => registered[a] = {})

-----------------------------------------------------------------------------
(* The inductive invariant behind the properties *)

\* A goroutine holds a record only of a credential m.auths has, except the
\* Applier about to register a new one; and so does the scheduler.
KnownIDs ==
  /\ \A a \in Auths : sched[a] # NoEntry => auths[a] # NoAuth
  /\ \A p \in Procs, a \in Auths :
       held[p][a] # NoAuth /\ pc[p] # "write" => auths[a] # NoAuth
  /\ \A p \in Procs :
       /\ pc[p] \in {"refreshing", "write"} => held[p][target[p]] # NoAuth
       /\ pc[p] = "exec" => auths[target[p]] # NoAuth

\* The scheduler's entry of a was computed from the Manager's current record,
\* now or earlier: a model is ready only if its retry time has passed, and
\* waits only for that time or for the end of its quota window.
Synchronised(a) ==
  IF auths[a] = NoAuth THEN sched[a] = NoEntry
  ELSE IF auths[a].disabled THEN sched[a] = NoEntry
  ELSE /\ sched[a] # NoEntry
       /\ sched[a].rec = auths[a]
       /\ \A m \in Models :
            LET s == auths[a].st[m]  u == sched[a].until[m]
            IN IF u = 0 THEN s.next <= now ELSE u \in {s.next, s.recover}

SnapshotsCurrent ==
  \A a \in Auths : ~raced[a] =>
    /\ \A p \in Publishing(a) : held[p][a] = auths[a]
    /\ Publishing(a) = {} => Synchronised(a)

=============================================================================
