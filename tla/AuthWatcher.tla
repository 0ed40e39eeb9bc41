------------------------------ MODULE AuthWatcher ------------------------------
(***************************************************************************)
(* How credentials reach the pool, internal/watcher and the service: one    *)
(* goroutine handles file events, a timer goroutine reloads after a config  *)
(* change, websocket connections add and remove runtime credentials.  Each  *)
(* changes currentAuths under clientsMutex and, after releasing it, hands   *)
(* its updates to a coalescing map, which one goroutine empties in batches  *)
(* into a channel that the service consumes.                                *)
(*                                                                         *)
(* A file holds one credential, whose ID is the file.  Of what a map of     *)
(* updates holds, the order between different IDs is left out.  Init is     *)
(* the started watcher; rescans of the directory, credentials of the config *)
(* file and Stop are left out.                                              *)
(***************************************************************************)
EXTENDS Integers, Sequences, FiniteSets

CONSTANTS
  Files,      \* credential files of the auth directory
  Runtimes,   \* websocket connections, each a credential of its own
  Versions,   \* contents a credential can be made of
  Unusable,   \* contents that give none: empty, or not JSON
  Absent,     \* no file, or no credential
  None,       \* no update
  QCap,       \* capacity of the update channel (256 in the code)
  MaxChanges, \* bound on the changes of files
  MaxReloads  \* bound on the reloads of the config

IDs == Files \cup Runtimes
Values == Versions \cup Runtimes

ASSUME WatcherAssumption ==
  /\ Files \cap Runtimes = {} /\ Versions \cap Unusable = {} /\ {"loop", "reload"} \cap Runtimes = {}
  /\ Absent \notin Values \cup Unusable \cup {None} /\ None \notin Values
  /\ {QCap, MaxChanges, MaxReloads} \subseteq Nat /\ QCap > 0

VARIABLES
  disk,     \* contents of the files
  events,   \* fsnotify events not yet handled
  recent,   \* files whose last handled removal is within the window (lastRemoveTimes)
  dropped,  \* history: files whose last handled event was a removal the window swallowed
  hash,     \* lastAuthHashes, and the keys of fileAuthsByPath
  current,  \* currentAuths
  runtime,  \* runtimeAuths
  gone,     \* connections that have ended
  loop,     \* where the event goroutine stands
  reload,   \* where the reload goroutine stands
  held,     \* per goroutine: updates made under the lock and not yet dispatched
  pending,  \* pendingUpdates
  batch,    \* updates dispatchLoop has taken and not yet sent
  queue,    \* the service's authUpdates channel
  pool,     \* credentials of the core manager
  astray,   \* history: IDs whose last update overlapped another, or was withheld by a filter
  calm,     \* history: the last reload began in quiet, and nothing changed since
  changes,  \* file changes so far
  reloads   \* reloads so far

vars == <<disk, events, recent, dropped, hash, current, runtime, gone, loop, reload, held, pending,
          batch, queue, pool, astray, calm, changes, reloads>>
world == <<disk, runtime, gone, calm, changes, reloads>>
pipe == <<pending, batch, queue, pool>>
auths == <<hash, current, held, astray>>

Actors == {"loop", "reload"} \cup Runtimes
NoUpdates == [i \in IDs |-> None]
Idle == [at |-> "idle"]
Only(i, v) == [NoUpdates EXCEPT ![i] = v]
Usable(v) == IF v \in Versions THEN v ELSE Absent

Init ==
  /\ disk \in [Files -> Versions \cup {Absent}]
  /\ hash = disk /\ current = [i \in IDs |-> IF i \in Files THEN disk[i] ELSE Absent] /\ pool = current
  /\ events = <<>> /\ recent = {} /\ dropped = {} /\ runtime = {} /\ gone = {}
  /\ loop = Idle /\ reload = Idle
  /\ held = [a \in Actors |-> NoUpdates]
  /\ pending = NoUpdates /\ batch = NoUpdates /\ queue = <<>>
  /\ astray = {} /\ calm = FALSE /\ changes = 0 /\ reloads = 0

------------------------------------------------------------------------------
(* The updates a goroutine makes under clientsMutex, and their dispatch.    *)

Overlaps(a, i) == \E b \in Actors \ {a} : held[b][i] # None

\* a leaves the lock with updates for the IDs where new is not None.
Record(a, new) ==
  /\ current' = [i \in IDs |-> IF new[i] = None THEN current[i] ELSE new[i]]
  /\ held' = [held EXCEPT ![a] = new]
  /\ astray' = {i \in astray : new[i] = None} \cup {i \in IDs : new[i] # None /\ Overlaps(a, i)}

\* Mutant of Coalesced: an update already pending is kept.
CoalescedFirst(new) == [i \in IDs |-> IF pending[i] = None THEN new[i] ELSE pending[i]]

\* A later update of an ID replaces the pending one.
Coalesced(new) == [i \in IDs |-> IF new[i] = None THEN pending[i] ELSE new[i]]

Dispatch(a) ==
  /\ held[a] # NoUpdates
  /\ pending' = Coalesced(held[a])
  /\ held' = [held EXCEPT ![a] = NoUpdates]
  /\ UNCHANGED <<world, events, recent, dropped, hash, current, loop, reload, batch, queue, pool, astray>>

NextBatch ==
  /\ batch = NoUpdates /\ pending # NoUpdates
  /\ batch' = pending /\ pending' = NoUpdates
  /\ UNCHANGED <<world, events, recent, dropped, auths, loop, reload, queue, pool>>

\* Mutant of Push: the channel has no limit.
PushUnbounded(i) ==
  /\ batch[i] # None
  /\ queue' = Append(queue, [id |-> i, auth |-> batch[i]])
  /\ batch' = [batch EXCEPT ![i] = None]
  /\ UNCHANGED <<world, events, recent, dropped, auths, loop, reload, pending, pool>>

\* dispatchLoop waits when the channel is full.
Push(i) ==
  /\ batch[i] # None /\ Len(queue) < QCap
  /\ queue' = Append(queue, [id |-> i, auth |-> batch[i]])
  /\ batch' = [batch EXCEPT ![i] = None]
  /\ UNCHANGED <<world, events, recent, dropped, auths, loop, reload, pending, pool>>

\* handleAuthUpdate registers the credential, or disables it.
Consume ==
  /\ queue # <<>>
  /\ pool' = [pool EXCEPT ![Head(queue).id] = Head(queue).auth]
  /\ queue' = Tail(queue)
  /\ UNCHANGED <<world, events, recent, dropped, auths, loop, reload, pending, batch>>

Quiet ==
  /\ events = <<>> /\ loop = Idle /\ reload = Idle
  /\ \A a \in Actors : held[a] = NoUpdates
  /\ pending = NoUpdates /\ batch = NoUpdates /\ queue = <<>>

------------------------------------------------------------------------------
(* The world: files change, connections come and go.                        *)

Change(f, v) ==
  /\ changes < MaxChanges /\ changes' = changes + 1
  /\ v # disk[f] /\ disk' = [disk EXCEPT ![f] = v]
  /\ events' = Append(events, [file |-> f, op |-> IF v = Absent THEN "remove" ELSE "write"])
  /\ calm' = FALSE
  /\ UNCHANGED <<recent, dropped, auths, runtime, gone, loop, reload, pipe, reloads>>

\* wsOnConnected: DispatchRuntimeAuthUpdate with an add.
Connect(r) ==
  /\ r \notin runtime \cup gone
  /\ runtime' = runtime \cup {r}
  /\ Record(r, Only(r, r))
  /\ calm' = FALSE
  /\ UNCHANGED <<disk, events, recent, dropped, hash, gone, loop, reload, pipe, changes, reloads>>

\* Mutant of Disconnect: the credential stays among the current ones.
DisconnectQuietly(r) ==
  /\ r \in runtime /\ held[r] = NoUpdates
  /\ runtime' = runtime \ {r} /\ gone' = gone \cup {r}
  /\ calm' = FALSE
  /\ UNCHANGED <<disk, events, recent, dropped, auths, loop, reload, pipe, changes, reloads>>

\* wsOnDisconnected, which the session calls after wsOnConnected has returned.
Disconnect(r) ==
  /\ r \in runtime /\ held[r] = NoUpdates
  /\ runtime' = runtime \ {r} /\ gone' = gone \cup {r}
  /\ Record(r, Only(r, Absent))
  /\ calm' = FALSE
  /\ UNCHANGED <<disk, events, recent, dropped, hash, loop, reload, pipe, changes, reloads>>

\* The debounce window of a removal ends.
Forget(f) ==
  /\ f \in recent /\ recent' = recent \ {f}
  /\ UNCHANGED <<world, events, dropped, auths, loop, reload, pipe>>

------------------------------------------------------------------------------
(* handleEvent.                                                             *)

\* authFileUnchanged
Unchanged(f) == disk[f] # Absent /\ hash[f] = disk[f]

Handle(op) ==
  /\ loop = Idle /\ held["loop"] = NoUpdates
  /\ events # <<>> /\ Head(events).op = op
  /\ events' = Tail(events)

At(where, f) == [at |-> where, file |-> f]

HandleWrite ==
  /\ Handle("write")
  /\ LET f == Head(events).file
     IN  /\ loop' = IF Unchanged(f) THEN Idle ELSE At("read", f)
         /\ dropped' = dropped \ {f}
  /\ UNCHANGED <<world, recent, auths, reload, pipe>>

\* shouldDebounceRemove
HandleRemove ==
  /\ Handle("remove")
  /\ LET f == Head(events).file
     IN  /\ loop' = IF f \in recent THEN Idle ELSE At("settle", f)
         /\ dropped' = IF f \in recent THEN dropped \cup {f} ELSE dropped \ {f}
         /\ recent' = recent \cup {f}
  /\ UNCHANGED <<world, auths, reload, pipe>>

\* After replaceCheckDelay the file may be back; a removed file must be a known one.
Settle ==
  /\ loop.at = "settle"
  /\ LET f == loop.file
     IN  loop' = IF disk[f] # Absent
                 THEN IF Unchanged(f) THEN Idle ELSE At("read", f)
                 ELSE IF hash[f] = Absent THEN Idle ELSE At("drop", f)
  /\ UNCHANGED <<world, events, recent, dropped, auths, reload, pipe>>

\* addOrUpdateClient reads the file before it takes the lock ...
ReadFile ==
  /\ loop.at = "read"
  /\ loop' = IF disk[loop.file] \in Versions
             THEN [at |-> "update", file |-> loop.file, data |-> disk[loop.file]]
             ELSE Idle
  /\ UNCHANGED <<world, events, recent, dropped, auths, reload, pipe>>

\* Mutant of Update: the hash is not stored.
UpdateUnhashed ==
  /\ loop.at = "update" /\ loop' = Idle
  /\ IF current[loop.file] = loop.data
     THEN UNCHANGED <<hash, current, held, astray>>
     ELSE UNCHANGED hash /\ Record("loop", Only(loop.file, loop.data))
  /\ UNCHANGED <<world, events, recent, dropped, reload, pipe>>

\* ... and compares hash and credential under it.
Update ==
  /\ loop.at = "update" /\ loop' = Idle
  /\ hash' = [hash EXCEPT ![loop.file] = loop.data]
  /\ IF hash[loop.file] = loop.data \/ current[loop.file] = loop.data
     THEN UNCHANGED <<current, held, astray>>
     ELSE Record("loop", Only(loop.file, loop.data))
  /\ UNCHANGED <<world, events, recent, dropped, reload, pipe>>

\* removeClient
Drop ==
  /\ loop.at = "drop" /\ loop' = Idle
  /\ hash' = [hash EXCEPT ![loop.file] = Absent]
  /\ Record("loop", Only(loop.file, Absent))
  /\ UNCHANGED <<world, events, recent, dropped, reload, pipe>>

EventLoop == HandleWrite \/ HandleRemove \/ Settle \/ ReadFile \/ Update \/ Drop

------------------------------------------------------------------------------
(* reloadClients after a config change, without a rescan of the directory.  *)

\* Credentials of the affected providers are taken out of currentAuths.  The
\* callbacks of two timers may overlap (config_reload.go:35); here a reload has
\* ended before the next begins.
Reload(force, affected) ==
  /\ reload = Idle /\ held["reload"] = NoUpdates
  /\ reloads < MaxReloads /\ reloads' = reloads + 1
  /\ current' = [i \in IDs |-> IF i \in affected THEN Absent ELSE current[i]]
  /\ astray' = astray \cup {f \in affected : current[f] # Absent}
  /\ reload' = [at |-> "scan", force |-> force]
  /\ calm' = Quiet
  /\ UNCHANGED <<disk, events, recent, dropped, hash, runtime, gone, loop, held, pipe, changes>>

\* snapshotCoreAuths reads the directory outside the lock.
Scan ==
  /\ reload.at = "scan"
  /\ reload' = [at |-> "diff", force |-> reload.force, snap |-> disk]
  /\ UNCHANGED <<world, events, recent, dropped, auths, loop, pipe>>

Snapshot == [i \in IDs |-> IF i \in Files THEN Usable(reload.snap[i])
                           ELSE IF i \in runtime THEN i ELSE Absent]

\* Mutant of Diff: credentials that are no longer there are passed over.
DiffKeeps ==
  /\ reload.at = "diff" /\ reload' = Idle
  /\ Record("reload", [i \in IDs |->
       IF Snapshot[i] # Absent /\ (Snapshot[i] # current[i] \/ reload.force) THEN Snapshot[i] ELSE None])
  /\ UNCHANGED <<world, events, recent, dropped, hash, loop, pipe>>

\* prepareAuthUpdatesLocked, with the runtime credentials of that moment.
Diff ==
  /\ reload.at = "diff" /\ reload' = Idle
  /\ Record("reload", [i \in IDs |->
       IF Snapshot[i] # current[i] \/ (reload.force /\ Snapshot[i] # Absent) THEN Snapshot[i] ELSE None])
  /\ UNCHANGED <<world, events, recent, dropped, hash, loop, pipe>>

Next ==
  \/ \E f \in Files : Forget(f) \/ \E v \in Versions \cup Unusable \cup {Absent} : Change(f, v)
  \/ \E r \in Runtimes : Connect(r) \/ Disconnect(r)
  \/ EventLoop
  \/ \E force \in BOOLEAN, affected \in SUBSET Files : Reload(force, affected)
  \/ Scan \/ Diff
  \/ \E a \in Actors : Dispatch(a)
  \/ NextBatch \/ (\E i \in IDs : Push(i)) \/ Consume

\* The goroutines run, and a debounce window ends; the world need not change.
Fairness ==
  /\ WF_vars(EventLoop) /\ WF_vars(Scan \/ Diff)
  /\ \A a \in Actors : WF_vars(Dispatch(a))
  /\ WF_vars(NextBatch) /\ WF_vars(\E i \in IDs : Push(i)) /\ WF_vars(Consume)
  /\ \A f \in Files : WF_vars(Forget(f))

Spec == Init /\ [][Next]_vars /\ Fairness

------------------------------------------------------------------------------
(* Properties.                                                              *)

Updates == [IDs -> Values \cup {Absent, None}]

TypeOK ==
  /\ disk \in [Files -> Versions \cup Unusable \cup {Absent}]
  /\ \A n \in DOMAIN events : events[n] \in [file: Files, op: {"write", "remove"}]
  /\ recent \cup dropped \subseteq Files /\ runtime \cup gone \subseteq Runtimes
  /\ hash \in [Files -> Versions \cup {Absent}]
  /\ {current, pool} \subseteq [IDs -> Values \cup {Absent}]
  /\ loop \in {Idle} \cup [at: {"settle", "read", "drop"}, file: Files]
                     \cup [at: {"update"}, file: Files, data: Versions]
  /\ reload \in {Idle} \cup [at: {"scan"}, force: BOOLEAN]
                       \cup [at: {"diff"}, force: BOOLEAN, snap: [Files -> Versions \cup Unusable \cup {Absent}]]
  /\ held \in [Actors -> Updates] /\ {pending, batch} \subseteq Updates
  /\ Len(queue) <= QCap
  /\ \A n \in DOMAIN queue : queue[n] \in [id: IDs, auth: Values \cup {Absent}]
  /\ astray \subseteq IDs /\ calm \in BOOLEAN
  /\ changes \in 0..MaxChanges /\ reloads \in 0..MaxReloads

\* What the pool will hold of i once the pipeline is empty.
Latest(i) ==
  LET sent == {n \in DOMAIN queue : queue[n].id = i}
  IN  IF pending[i] # None THEN pending[i]
      ELSE IF batch[i] # None THEN batch[i]
      ELSE IF sent # {} THEN queue[CHOOSE n \in sent : \A m \in sent : m <= n].auth
      ELSE pool[i]

\* However updates are coalesced, batched and queued, the pool is on its way to
\* what currentAuths says of a credential, unless a goroutine still holds an
\* update of it, two goroutines held one at a time, or a reload took it out of
\* the comparison.
PipelineFollows ==
  \A i \in IDs \ astray : (\A a \in Actors : held[a][i] = None) => Latest(i) = current[i]

MirroredID(i) ==
  IF i \in Files THEN disk[i] \in Unusable \/ pool[i] = disk[i]
  ELSE pool[i] = IF i \in runtime THEN i ELSE Absent

\* docs/sdk-watcher.md: the updates "mirror adds, edits, and removals".  When
\* nothing is left to handle, the pool holds what the files and the connections
\* say, whichever way their events were delayed, merged and reordered, but for
\* the files whose last removal fell into the debounce window of another.
Converged == Quiet => \A i \in IDs \ dropped : MirroredID(i)

\* Events alone do that, as long as no reload interferes.
ConvergedByEvents == reloads = 0 => Converged

\* And once files and connections stop changing it comes to that and stays so.
EventuallyMirrored ==
  [](reloads = 0) => <>[](\A i \in IDs \ dropped : MirroredID(i))

\* A reload in quiet repairs what events lost, swallowed removals included:
\* afterwards the pool mirrors files and connections, but for the credentials
\* whose updates went astray.
ReloadRepairs == Quiet /\ calm => \A i \in IDs \ astray : MirroredID(i)
=============================================================================
