-------------------------- MODULE AuthWatcher_proofs --------------------------
(***************************************************************************)
(* The watcher's pipeline, for any files, connections, contents and capacity  *)
(* of the channel.  Outside astray one goroutine at most holds an update of   *)
(* a credential, and what it holds is what currentAuths says (Tracked); and   *)
(* no goroutine makes updates while it still holds earlier ones (Empty).      *)
(***************************************************************************)
EXTENDS AuthWatcher, TLAPS, WellFoundedInduction, NaturalsInduction

Contents == Versions \cup Unusable \cup {Absent}
Event == [file: Files, op: {"write", "remove"}]
Item == [id: IDs, auth: Values \cup {Absent}]

World ==
  /\ disk \in [Files -> Contents] /\ events \in Seq(Event)
  /\ recent \in SUBSET Files /\ dropped \in SUBSET Files
  /\ runtime \in SUBSET Runtimes /\ gone \in SUBSET Runtimes
  /\ calm \in BOOLEAN /\ changes \in 0..MaxChanges /\ reloads \in 0..MaxReloads
Places ==
  /\ loop \in {Idle} \cup [at: {"settle", "read", "drop"}, file: Files]
                     \cup [at: {"update"}, file: Files, data: Versions]
  /\ reload \in {Idle} \cup [at: {"scan"}, force: BOOLEAN]
                       \cup [at: {"diff"}, force: BOOLEAN, snap: [Files -> Contents]]
Auths ==
  /\ hash \in [Files -> Versions \cup {Absent}] /\ current \in [IDs -> Values \cup {Absent}]
  /\ held \in [Actors -> Updates] /\ astray \in SUBSET IDs
Pipe ==
  /\ pending \in Updates /\ batch \in Updates /\ queue \in Seq(Item) /\ Len(queue) <= QCap
  /\ pool \in [IDs -> Values \cup {Absent}]

Empty ==
  /\ loop # Idle => held["loop"] = NoUpdates
  /\ reload # Idle => held["reload"] = NoUpdates
  /\ \A r \in Runtimes : r \notin runtime \cup gone => held[r] = NoUpdates

Tracked == \A i \in IDs \ astray : \A a \in Actors : held[a][i] # None =>
  held[a][i] = current[i] /\ \A b \in Actors : held[b][i] # None => a = b

\* The last event of a file tells whether the file is there.
Truthful == \A n \in DOMAIN events :
  (\A m \in DOMAIN events : events[m].file = events[n].file => m <= n) =>
    (events[n].op = "remove" <=> disk[events[n].file] = Absent)

HasEvent(f) == \E n \in DOMAIN events : events[n].file = f

\* The event goroutine will do right by f.
OnIt(f) == loop # Idle /\ loop.file = f /\
  \/ loop.at = "settle"
  \/ loop.at = "read" /\ disk[f] # Absent
  \/ loop.at = "update" /\ loop.data = disk[f]
  \/ loop.at = "drop" /\ disk[f] = Absent

Covered(f) == hash[f] = disk[f] \/ disk[f] \in Unusable \/ f \in dropped \/ HasEvent(f) \/ OnIt(f)
Fresh == loop # Idle /\ loop.at \in {"update", "drop"} => OnIt(loop.file) \/ HasEvent(loop.file)
Heard == Truthful /\ (\A f \in Files : Covered(f)) /\ Fresh

\* Without a reload every goroutine makes updates of its own credentials only.
Online(r) == IF r \in runtime THEN r ELSE Absent
Alone == reloads = 0 =>
  /\ reload = Idle /\ held["reload"] = NoUpdates /\ astray = {}
  /\ \A f \in Files : current[f] = hash[f] /\ \A r \in Runtimes : held[r][f] = None
  /\ \A r \in Runtimes : current[r] = Online(r) /\ \A a \in Actors \ {r} : held[a][r] = None

\* What a reload that began in quiet finds.
Found(i) == IF i \in Files THEN Usable(disk[i]) ELSE Online(i)
Calmed == calm =>
  /\ events = <<>> /\ loop = Idle
  /\ reload.at = "diff" => reload.snap = disk
  /\ reload = Idle => \A i \in IDs : current[i] = Found(i)

Typed == World /\ Places /\ Auths /\ Pipe
IInv == Typed /\ Empty /\ Tracked /\ PipelineFollows

------------------------------------------------------------------------------
\* The constants, as the provers want them.
LEMMA Constants ==
  /\ "loop" \in Actors /\ "reload" \in Actors /\ "loop" # "reload"
  /\ \A r \in Runtimes : r \in Actors /\ r \in IDs /\ r \in Values /\ r # "loop" /\ r # "reload" /\ r \notin Files
  /\ \A f \in Files : f \in IDs
  /\ \A v \in Versions : v \in Values
  /\ None \notin Values /\ Absent # None /\ Absent \notin Values
  /\ NoUpdates \in Updates /\ \A i \in IDs : NoUpdates[i] = None
  BY WatcherAssumption DEF Actors, IDs, Values, NoUpdates, Updates

\* Positions in a sequence have a last one.
LEMMA LastOf ==
  ASSUME NEW n \in Nat, NEW T \in SUBSET (1..n), T # {}
  PROVE  \E t \in T : \A u \in T : u <= t
<1> DEFINE S == {n - t : t \in T}
<1>1. S # {} /\ S \subseteq Nat
  <2>1. \A t \in T : n - t \in Nat
    OBVIOUS
  <2>2. PICK t \in T : TRUE
    OBVIOUS
  <2>3. n - t \in S
    OBVIOUS
  <2> QED
    BY <2>1, <2>3
<1>2. \E s \in S : \A u \in S : ~(<<u, s>> \in OpToRel(<, Nat))
  BY <1>1, NatLessThanWellFounded, WFMin
<1>3. \A u, s \in Nat : ~(<<u, s>> \in OpToRel(<, Nat)) => s <= u
  BY DEF OpToRel
<1>4. PICK s \in S : \A u \in S : s <= u
  BY <1>1, <1>2, <1>3
<1>5. PICK t \in T : s = n - t
  BY <1>4
<1>6. \A u \in T : n - t <= n - u
  BY <1>4, <1>5
<1>7. \A u \in T : u <= t
  BY <1>6
<1> QED
  BY <1>7

\* The positions of i's updates in the channel, and the last of them.
Sent(q, i) == {n \in DOMAIN q : q[n].id = i}
LastSent(q, i) == CHOOSE n \in Sent(q, i) : \A m \in Sent(q, i) : m <= n

\* The latest update of an ID in a queue is the greatest of their places.
LEMMA LastIs ==
  ASSUME NEW q \in Seq(Item), NEW i, NEW n \in Sent(q, i), \A m \in Sent(q, i) : m <= n
  PROVE  LastSent(q, i) = n
  BY DEF LastSent, Sent

\* There is one if there is any.
LEMMA LastExists ==
  ASSUME NEW q \in Seq(Item), NEW i, Sent(q, i) # {}
  PROVE  LastSent(q, i) \in Sent(q, i) /\ \A m \in Sent(q, i) : m <= LastSent(q, i)
<1>1. Sent(q, i) \in SUBSET (1..Len(q)) /\ Len(q) \in Nat
  BY DEF Sent
<1>2. \E t \in Sent(q, i) : \A u \in Sent(q, i) : u <= t
  BY <1>1, LastOf, Zenon
<1> QED
  BY <1>2, Zenon DEF LastSent

\* What is appended is the last of its ID ...
LEMMA AppendLast ==
  ASSUME NEW q \in Seq(Item), NEW e \in Item, NEW p, p = Append(q, e)
  PROVE  Sent(p, e.id) # {} /\ p[LastSent(p, e.id)].auth = e.auth
<1>1. Len(p) = Len(q) + 1 /\ p[Len(p)] = e /\ p \in Seq(Item)
  OBVIOUS
<1>2. Len(p) \in Sent(p, e.id) /\ \A m \in Sent(p, e.id) : m <= Len(p)
  BY <1>1 DEF Sent
<1>3. LastSent(p, e.id) = Len(p)
  BY <1>1, <1>2, LastIs
<1> QED
  BY <1>1, <1>2, <1>3

\* ... and leaves the others alone.
AppendKeeps(p, q, i) == Sent(p, i) = Sent(q, i) /\ (Sent(q, i) # {} => p[LastSent(p, i)] = q[LastSent(q, i)])

\* An update of another ID changes nothing for this one.
LEMMA AppendOther ==
  ASSUME NEW q \in Seq(Item), NEW e \in Item, NEW p, p = Append(q, e), NEW i, e.id # i
  PROVE  AppendKeeps(p, q, i)
<1>1. Len(p) = Len(q) + 1 /\ p[Len(p)] = e /\ \A n \in 1..Len(q) : p[n] = q[n]
  OBVIOUS
<1>2. Sent(p, i) = Sent(q, i)
  BY <1>1 DEF Sent
<1>3. LastSent(p, i) = LastSent(q, i)
  BY <1>2 DEF LastSent
<1>4. ASSUME Sent(q, i) # {} PROVE LastSent(q, i) \in 1..Len(q)
  BY <1>4, LastExists DEF Sent
<1> QED
  BY <1>1, <1>2, <1>3, <1>4 DEF AppendKeeps

\* Taking the head leaves the last of an ID, unless it was the head.
TailKeeps(p, q, i) ==
  /\ Sent(q, i) # {} /\ Sent(p, i) = {} => Head(q).id = i /\ q[LastSent(q, i)] = Head(q)
  /\ Sent(p, i) # {} => Sent(q, i) # {} /\ p[LastSent(p, i)] = q[LastSent(q, i)]
  /\ Sent(q, i) = {} => Sent(p, i) = {} /\ Head(q).id # i

\* Taking the first leaves the later ones in their order.
LEMMA TailLast ==
  ASSUME NEW q \in Seq(Item), q # <<>>, NEW p, p = Tail(q), NEW i
  PROVE  TailKeeps(p, q, i)
<1>1. p \in Seq(Item) /\ Len(p) = Len(q) - 1 /\ Len(q) > 0 /\ Head(q) = q[1] /\ \A n \in 1..Len(p) : p[n] = q[n + 1]
  OBVIOUS
<1>2. \A n \in 1..Len(p) : n \in Sent(p, i) <=> n + 1 \in Sent(q, i)
  BY <1>1 DEF Sent
<1>3. 1 \in Sent(q, i) <=> Head(q).id = i
  BY <1>1 DEF Sent
<1>4. Sent(p, i) \subseteq 1..Len(p) /\ Sent(q, i) \subseteq 1..Len(q)
  BY <1>1 DEF Sent
<1>5. ASSUME Sent(q, i) # {}, Sent(p, i) = {} PROVE Head(q).id = i /\ q[LastSent(q, i)] = Head(q)
  <2>1. \A n \in Sent(q, i) : n = 1
    <3> SUFFICES ASSUME NEW n \in Sent(q, i), n # 1 PROVE FALSE
      OBVIOUS
    <3>1. n - 1 \in 1..Len(p) /\ (n - 1) + 1 = n
      BY <1>1, <1>4
    <3> QED
      BY <3>1, <1>2, <1>5
  <2>2. LastSent(q, i) = 1
    BY <2>1, <1>5, LastExists
  <2> QED
    BY <2>1, <2>2, <1>1, <1>3, <1>5
<1>6. ASSUME Sent(p, i) # {} PROVE Sent(q, i) # {} /\ p[LastSent(p, i)] = q[LastSent(q, i)]
  <2>1. PICK n \in Sent(p, i) : \A m \in Sent(p, i) : m <= n
    BY <1>1, <1>6, LastExists
  <2>2. LastSent(p, i) = n
    BY <2>1, <1>1, LastIs
  <2>3. n + 1 \in Sent(q, i)
    BY <1>2, <1>4
  <2>4. \A m \in Sent(q, i) : m <= n + 1
    <3> SUFFICES ASSUME NEW m \in Sent(q, i), m # 1 PROVE m <= n + 1
      BY <1>4
    <3>1. m - 1 \in 1..Len(p) /\ (m - 1) + 1 = m
      BY <1>1, <1>4
    <3>2. m - 1 \in Sent(p, i)
      BY <3>1, <1>2
    <3> QED
      BY <3>2, <2>1, <1>4
  <2>5. LastSent(q, i) = n + 1
    BY <2>3, <2>4, LastIs
  <2> QED
    BY <2>2, <2>3, <2>5, <1>1, <1>4
<1>7. ASSUME Sent(q, i) = {} PROVE Sent(p, i) = {} /\ Head(q).id # i
  BY <1>2, <1>3, <1>4, <1>7
<1> QED
  BY <1>5, <1>6, <1>7 DEF TailKeeps

\* Latest in terms of the parts of the pipeline.
LEMMA LatestIs ==
  ASSUME NEW i \in IDs
  PROVE  /\ Latest(i) = IF pending[i] # None THEN pending[i]
                        ELSE IF batch[i] # None THEN batch[i]
                        ELSE IF Sent(queue, i) # {} THEN queue[LastSent(queue, i)].auth ELSE pool[i]
         /\ Latest(i)' = IF pending'[i] # None THEN pending'[i]
                         ELSE IF batch'[i] # None THEN batch'[i]
                         ELSE IF Sent(queue', i) # {} THEN queue'[LastSent(queue', i)].auth ELSE pool'[i]
  BY Zenon DEF Latest, Sent, LastSent

------------------------------------------------------------------------------
\* The watcher begins in agreement, with an empty pipeline.
LEMMA InitIInv == Init => IInv
<1> SUFFICES ASSUME Init PROVE IInv
  OBVIOUS
<1> USE Constants
<1>1. World
  <2>1. disk \in [Files -> Contents]
    BY DEF Init, Contents
  <2>2. events \in Seq(Event)
    BY DEF Init
  <2>3. changes \in 0..MaxChanges /\ reloads \in 0..MaxReloads
    BY WatcherAssumption DEF Init
  <2> QED
    BY <2>1, <2>2, <2>3 DEF Init, World
<1>2. Places
  BY DEF Init, Places
<1>3. Auths
  BY DEF Init, Auths, IDs
<1>4. Pipe
  <2>1. Len(queue) = 0 /\ QCap \in Nat
    BY WatcherAssumption DEF Init
  <2> QED
    BY <2>1, <1>3 DEF Init, Pipe, Auths
<1>5. Empty
  BY DEF Init, Empty
<1>6. \A a \in Actors, i \in IDs : held[a][i] = None
  BY DEF Init
<1>7. Tracked
  BY <1>6 DEF Tracked
<1>8. PipelineFollows
  <2> SUFFICES ASSUME NEW i \in IDs PROVE Latest(i) = current[i]
    BY DEF PipelineFollows
  <2>1. pending[i] = None /\ batch[i] = None /\ Sent(queue, i) = {} /\ pool[i] = current[i]
    BY DEF Init, Sent
  <2> QED
    BY <2>1, LatestIs
<1> QED
  BY <1>1, <1>2, <1>3, <1>4, <1>5, <1>7, <1>8 DEF IInv, Typed

------------------------------------------------------------------------------
(* The two shapes of a step.                                                *)

\* An update of one ID is an update.
LEMMA OnlyIs ==
  ASSUME NEW i \in IDs, NEW v \in Values \cup {Absent}
  PROVE  Only(i, v) \in Updates
  BY Constants DEF Only, Updates

\* Updates made by a goroutine that holds none keep what is said of all of them.
LEMMA RecordKeeps ==
  ASSUME IInv, NEW a \in Actors, held[a] = NoUpdates, NEW new \in Updates,
         Record(a, new), UNCHANGED pipe
  PROVE  /\ current' \in [IDs -> Values \cup {Absent}] /\ held' \in [Actors -> Updates] /\ astray' \in SUBSET IDs
         /\ Tracked' /\ PipelineFollows' /\ \A b \in Actors : b # a => held'[b] = held[b]
<1> USE Constants
<1>1. /\ held \in [Actors -> Updates] /\ current \in [IDs -> Values \cup {Absent}] /\ astray \in SUBSET IDs
  BY DEF IInv, Typed, Auths
<1>2. held' = [held EXCEPT ![a] = new]
  BY DEF Record
<1>3. current' = [i \in IDs |-> IF new[i] = None THEN current[i] ELSE new[i]]
  BY DEF Record
<1>4. astray' = {i \in astray : new[i] = None} \cup {i \in IDs : new[i] # None /\ Overlaps(a, i)}
  BY Zenon DEF Record
<1>5. held' \in [Actors -> Updates] /\ held'[a] = new /\ \A b \in Actors : b # a => held'[b] = held[b]
  BY <1>1, <1>2
<1>6. current' \in [IDs -> Values \cup {Absent}] /\ astray' \in SUBSET IDs
  <2>1. \A i \in IDs : new[i] \in Values \cup {Absent, None}
    BY DEF Updates
  <2> QED
    BY <2>1, <1>1, <1>3, <1>4
<1>7. \A i \in IDs : held[a][i] = None
  OBVIOUS
<1>8. ASSUME NEW i \in IDs \ astray' PROVE
      IF new[i] = None THEN i \notin astray /\ current'[i] = current[i] /\ \A b \in Actors : held'[b][i] = held[b][i]
      ELSE current'[i] = new[i] /\ \A b \in Actors : b # a => held'[b][i] = None
  BY <1>3, <1>4, <1>5, <1>7 DEF Overlaps
<1>9. Tracked'
  <2> SUFFICES ASSUME NEW i \in IDs \ astray', NEW b \in Actors, held'[b][i] # None
               PROVE  held'[b][i] = current'[i] /\ \A c \in Actors : held'[c][i] # None => b = c
    BY DEF Tracked
  <2>1. CASE new[i] = None
    <3>1. Tracked
      BY DEF IInv
    <3> QED
      BY <1>8, <2>1, <3>1 DEF Tracked
  <2>2. CASE new[i] # None
    BY <1>5, <1>8, <2>2
  <2> QED
    BY <2>1, <2>2
<1>10. PipelineFollows'
  <2> SUFFICES ASSUME NEW i \in IDs \ astray', \A b \in Actors : held'[b][i] = None
               PROVE  Latest(i)' = current'[i]
    BY DEF PipelineFollows
  <2>1. new[i] = None
    BY <1>5
  <2>2. i \notin astray /\ current'[i] = current[i] /\ \A b \in Actors : held[b][i] = None
    BY <1>8, <2>1
  <2>3. Latest(i) = current[i]
    BY <2>2 DEF IInv, PipelineFollows
  <2>4. Latest(i)' = Latest(i)
    BY LatestIs DEF pipe
  <2> QED
    BY <2>2, <2>3, <2>4
<1> QED
  BY <1>5, <1>6, <1>9, <1>10

\* A step that touches no update.
LEMMA Apart ==
  ASSUME IInv, UNCHANGED <<current, held, astray, pipe>>
  PROVE  Tracked' /\ PipelineFollows' /\ Pipe'
<1>1. Tracked'
  BY DEF IInv, Tracked
<1>2. \A i \in IDs : Latest(i)' = Latest(i)
  BY LatestIs DEF pipe
<1>3. PipelineFollows'
  BY <1>2 DEF IInv, PipelineFollows
<1>4. Pipe'
  BY DEF IInv, Typed, Pipe, pipe
<1> QED
  BY <1>1, <1>3, <1>4

\* A step of the pipeline.
LEMMA Piped ==
  ASSUME IInv, UNCHANGED <<world, events, recent, dropped, auths, loop, reload>>, Pipe',
         \A i \in IDs : Latest(i)' = Latest(i)
  PROVE  IInv'
<1>1. World' /\ Places' /\ Auths' /\ Empty'
  BY DEF IInv, Typed, World, Places, Auths, Empty, world, auths
<1>2. Tracked' /\ PipelineFollows'
  BY DEF IInv, Tracked, PipelineFollows, auths
<1> QED
  BY <1>1, <1>2 DEF IInv, Typed

------------------------------------------------------------------------------
(* One lemma per action.                                                    *)

\* Updates that are dispatched are no longer held, but pending.
LEMMA DispatchStep == ASSUME IInv, NEW a \in Actors, Dispatch(a) PROVE IInv'
<1> USE Constants
<1>1. /\ held \in [Actors -> Updates] /\ astray \in SUBSET IDs /\ pending \in Updates /\ held[a] \in Updates
  BY DEF IInv, Typed, Auths, Pipe
<1>2. pending' = Coalesced(held[a]) /\ held' = [held EXCEPT ![a] = NoUpdates]
  BY DEF Dispatch
<1>3. /\ UNCHANGED <<world, events, recent, dropped, hash, current, loop, reload, batch, queue, pool, astray>>
  BY DEF Dispatch
<1>4. \A b \in Actors : held'[b] = IF b = a THEN NoUpdates ELSE held[b]
  BY <1>1, <1>2
<1>5. World' /\ Places'
  BY <1>3 DEF IInv, Typed, World, Places, world
<1>6. Auths'
  BY <1>1, <1>2, <1>3 DEF IInv, Typed, Auths
<1>7. \A i \in IDs : pending'[i] = IF held[a][i] = None THEN pending[i] ELSE held[a][i]
  BY <1>2 DEF Coalesced
<1>8. Pipe'
  <2>1. pending' \in Updates
    BY <1>1, <1>2 DEF Coalesced, Updates
  <2> QED
    BY <1>3, <2>1 DEF IInv, Typed, Pipe
<1>9. Empty'
  BY <1>3, <1>4 DEF IInv, Empty, world
<1>10. Tracked'
  BY <1>3, <1>4 DEF IInv, Tracked
<1>11. PipelineFollows'
  <2> SUFFICES ASSUME NEW i \in IDs \ astray, \A b \in Actors : held'[b][i] = None
               PROVE  Latest(i)' = current[i]
    BY <1>3 DEF PipelineFollows
  <2>1. CASE held[a][i] = None
    <3>1. \A b \in Actors : held[b][i] = None
      BY <1>4, <2>1
    <3>2. Latest(i) = current[i]
      BY <3>1 DEF IInv, PipelineFollows
    <3> QED
      BY <1>3, <1>7, <2>1, <3>2, LatestIs
  <2>2. CASE held[a][i] # None
    <3>1. held[a][i] = current[i]
      BY <2>2 DEF IInv, Tracked
    <3> QED
      BY <1>7, <2>2, <3>1, LatestIs
  <2> QED
    BY <2>1, <2>2
<1> QED
  BY <1>5, <1>6, <1>8, <1>9, <1>10, <1>11 DEF IInv, Typed

\* A batch takes what is pending, whole.
LEMMA NextBatchStep == ASSUME IInv, NextBatch PROVE IInv'
<1> USE Constants
<1>1. UNCHANGED <<world, events, recent, dropped, auths, loop, reload, queue, pool>>
  BY DEF NextBatch
<1>2. batch = NoUpdates /\ batch' = pending /\ pending' = NoUpdates
  BY DEF NextBatch
<1>3. Pipe'
  BY <1>1, <1>2 DEF IInv, Typed, Pipe
<1>4. \A i \in IDs : Latest(i)' = Latest(i)
  BY <1>1, <1>2, LatestIs
<1> QED
  BY <1>1, <1>3, <1>4, Piped

\* An update moves from the batch to the channel, after those sent before.
LEMMA PushStep == ASSUME IInv, NEW i \in IDs, Push(i) PROVE IInv'
<1>1. UNCHANGED <<world, events, recent, dropped, auths, loop, reload, pending, pool>>
  BY DEF Push
<1> DEFINE e == [id |-> i, auth |-> batch[i]]
<1>2. batch[i] # None /\ Len(queue) < QCap /\ queue' = Append(queue, e) /\ batch' = [batch EXCEPT ![i] = None]
  BY DEF Push
<1>3. batch \in Updates /\ queue \in Seq(Item) /\ QCap \in Nat
  BY WatcherAssumption DEF IInv, Typed, Pipe
<1>4. batch[i] \in Values \cup {Absent} /\ e \in Item
  BY <1>2, <1>3 DEF Updates, Item
<1>5. Pipe'
  <2>1. batch' \in Updates /\ queue' \in Seq(Item) /\ Len(queue') <= QCap
    BY <1>2, <1>3, <1>4 DEF Updates
  <2> QED
    BY <2>1, <1>1 DEF IInv, Typed, Pipe
<1>7. queue \in Seq(Item) /\ e \in Item /\ queue' = Append(queue, e)
  BY <1>2, <1>3, <1>4
<1>8. e.id = i /\ e.auth = batch[i]
  OBVIOUS
<1> HIDE DEF e
<1>6. ASSUME NEW j \in IDs PROVE Latest(j)' = Latest(j)
  <2>1. batch'[j] = IF j = i THEN None ELSE batch[j]
    BY <1>2, <1>3 DEF Updates
  <2>2. CASE j = i
    <3>0. Sent(queue', e.id) # {} /\ queue'[LastSent(queue', e.id)].auth = e.auth
      BY <1>7, AppendLast
    <3>1. Sent(queue', j) # {} /\ queue'[LastSent(queue', j)].auth = batch[j]
      BY <1>8, <2>2, <3>0
    <3>2. Latest(j) = IF pending[j] # None THEN pending[j] ELSE batch[j]
      BY <1>2, <2>2, LatestIs
    <3>3. Latest(j)' = IF pending'[j] # None THEN pending'[j] ELSE queue'[LastSent(queue', j)].auth
      BY <2>1, <2>2, <3>1, LatestIs, Zenon
    <3> QED
      BY <1>1, <3>1, <3>2, <3>3
  <2>3. CASE j # i
    <3>1. e.id # j
      BY <1>8, <2>3
    <3>0. AppendKeeps(queue', queue, j)
      BY <1>7, <3>1, AppendOther
    <3>2. Sent(queue', j) = Sent(queue, j) /\ (Sent(queue, j) # {} => queue'[LastSent(queue', j)] = queue[LastSent(queue, j)])
      BY <3>0, Zenon DEF AppendKeeps
    <3>3. batch'[j] = batch[j] /\ pending' = pending /\ pool' = pool
      BY <1>1, <2>1, <2>3
    <3>4. Sent(queue, j) # {} => queue'[LastSent(queue', j)].auth = queue[LastSent(queue, j)].auth
      BY <3>2, Zenon
    <3>5. CASE Sent(queue, j) = {}
      BY <3>2, <3>3, <3>5, LatestIs, Zenon
    <3>6. CASE Sent(queue, j) # {}
      BY <3>2, <3>3, <3>4, <3>6, LatestIs, Zenon
    <3> QED
      BY <3>5, <3>6
  <2> QED
    BY <2>2, <2>3
<1> QED
  BY <1>1, <1>5, <1>6, Piped

\* The pool is given the first of the channel.
LEMMA ConsumeStep == ASSUME IInv, Consume PROVE IInv'
<1>1. UNCHANGED <<world, events, recent, dropped, auths, loop, reload, pending, batch>>
  BY DEF Consume
<1>2. /\ queue # <<>> /\ queue' = Tail(queue) /\ pool' = [pool EXCEPT ![Head(queue).id] = Head(queue).auth]
  BY DEF Consume
<1>3. queue \in Seq(Item) /\ pool \in [IDs -> Values \cup {Absent}] /\ Len(queue) <= QCap /\ QCap \in Nat
  BY WatcherAssumption DEF IInv, Typed, Pipe
<1>4. Head(queue) \in Item /\ Tail(queue) \in Seq(Item) /\ Len(Tail(queue)) <= QCap
  BY <1>2, <1>3
<1>5. Pipe'
  <2>1. pool' \in [IDs -> Values \cup {Absent}]
    BY <1>2, <1>3, <1>4 DEF Item
  <2> QED
    BY <2>1, <1>1, <1>2, <1>4 DEF IInv, Typed, Pipe
<1>6. ASSUME NEW j \in IDs PROVE Latest(j)' = Latest(j)
  <2>1. pool'[j] = IF j = Head(queue).id THEN Head(queue).auth ELSE pool[j]
    BY <1>2, <1>3
  <2>0. queue \in Seq(Item) /\ queue # <<>> /\ queue' = Tail(queue)
    BY <1>2, <1>3
  <2>2. TailKeeps(queue', queue, j)
    BY <2>0, TailLast
  <2>3. pending' = pending /\ batch' = batch
    BY <1>1
  <2>4. CASE Sent(queue, j) = {}
    <3>1. pool'[j] = pool[j] /\ Sent(queue', j) = {}
      BY <2>1, <2>2, <2>4 DEF TailKeeps
    <3> QED
      BY <2>3, <2>4, <3>1, LatestIs, Zenon
  <2>5. CASE Sent(queue, j) # {} /\ Sent(queue', j) = {}
    <3>1. queue[LastSent(queue, j)].auth = pool'[j]
      BY <2>1, <2>2, <2>5 DEF TailKeeps
    <3> QED
      BY <2>3, <2>5, <3>1, LatestIs, Zenon
  <2>6. CASE Sent(queue', j) # {}
    <3>1. Sent(queue, j) # {} /\ queue'[LastSent(queue', j)].auth = queue[LastSent(queue, j)].auth
      BY <2>2, <2>6 DEF TailKeeps
    <3> QED
      BY <2>3, <2>6, <3>1, LatestIs, Zenon
  <2> QED
    BY <2>4, <2>5, <2>6
<1> QED
  BY <1>1, <1>5, <1>6, Piped

\* The end of the debounce window changes nothing else.
LEMMA ForgetStep == ASSUME IInv, NEW f \in Files, Forget(f) PROVE IInv'
<1>1. World' /\ Places' /\ Auths' /\ Empty'
  BY DEF IInv, Typed, World, Places, Auths, Empty, Forget, world, auths
<1> QED
  BY <1>1, Apart DEF IInv, Typed, Forget, auths

\* A file that changes is heard of later.
LEMMA ChangeStep == ASSUME IInv, NEW f \in Files, NEW v \in Contents, Change(f, v) PROVE IInv'
<1>1. World'
  <2>1. [file |-> f, op |-> IF v = Absent THEN "remove" ELSE "write"] \in Event
    BY DEF Event
  <2>2. events' \in Seq(Event) /\ disk' \in [Files -> Contents]
    BY <2>1 DEF IInv, Typed, World, Change
  <2>3. changes' \in 0..MaxChanges /\ calm' \in BOOLEAN
    <3>1. changes \in 0..MaxChanges /\ changes < MaxChanges /\ changes' = changes + 1 /\ calm' = FALSE
      BY DEF IInv, Typed, World, Change
    <3>2. MaxChanges \in Nat
      BY WatcherAssumption
    <3>3. changes' \in 0..MaxChanges
      BY <3>1, <3>2, SMT
    <3> QED
      BY <3>1, <3>3, Zenon
  <2> QED
    BY <2>2, <2>3 DEF IInv, Typed, World, Change
<1>2. Places' /\ Auths' /\ Empty'
  BY DEF IInv, Typed, Places, Auths, Empty, Change, auths
<1> QED
  BY <1>1, <1>2, Apart DEF IInv, Typed, Change, auths

\* A connection that comes is recorded and held in one step.
LEMMA ConnectStep == ASSUME IInv, NEW r \in Runtimes, Connect(r) PROVE IInv'
<1> USE Constants
<1>1. held[r] = NoUpdates /\ Only(r, r) \in Updates
  BY OnlyIs DEF IInv, Empty, Connect
<1>2. UNCHANGED <<disk, events, recent, dropped, hash, gone, loop, reload, pipe, changes, reloads>>
  BY DEF Connect
<1>3. Record(r, Only(r, r)) /\ runtime' = runtime \cup {r} /\ calm' = FALSE
  BY Zenon DEF Connect
<1>4. /\ current' \in [IDs -> Values \cup {Absent}] /\ held' \in [Actors -> Updates] /\ astray' \in SUBSET IDs
      /\ Tracked' /\ PipelineFollows' /\ \A b \in Actors : b # r => held'[b] = held[b]
  BY <1>1, <1>2, <1>3, RecordKeeps
<1>5. World' /\ Places' /\ Pipe'
  BY <1>2, <1>3 DEF IInv, Typed, World, Places, Pipe, pipe
<1>6. Auths'
  BY <1>2, <1>4 DEF IInv, Typed, Auths
<1>7. Empty'
  BY <1>2, <1>3, <1>4 DEF IInv, Empty
<1> QED
  BY <1>4, <1>5, <1>6, <1>7 DEF IInv, Typed

\* So is one that goes.
LEMMA DisconnectStep == ASSUME IInv, NEW r \in Runtimes, Disconnect(r) PROVE IInv'
<1> USE Constants
<1>1. held[r] = NoUpdates /\ Only(r, Absent) \in Updates
  BY OnlyIs DEF Disconnect
<1>2. UNCHANGED <<disk, events, recent, dropped, hash, loop, reload, pipe, changes, reloads>>
  BY DEF Disconnect
<1>3. Record(r, Only(r, Absent)) /\ runtime' = runtime \ {r} /\ gone' = gone \cup {r} /\ calm' = FALSE
  BY Zenon DEF Disconnect
<1>4. /\ current' \in [IDs -> Values \cup {Absent}] /\ held' \in [Actors -> Updates] /\ astray' \in SUBSET IDs
      /\ Tracked' /\ PipelineFollows' /\ \A b \in Actors : b # r => held'[b] = held[b]
  BY <1>1, <1>2, <1>3, RecordKeeps
<1>5. World' /\ Places' /\ Pipe'
  BY <1>2, <1>3 DEF IInv, Typed, World, Places, Pipe, pipe
<1>6. Auths'
  BY <1>2, <1>4 DEF IInv, Typed, Auths
<1>7. Empty'
  BY <1>2, <1>3, <1>4 DEF IInv, Empty
<1> QED
  BY <1>4, <1>5, <1>6, <1>7 DEF IInv, Typed

\* The event goroutine, between two events and with nothing to dispatch.
LEMMA HandleStep ==
  ASSUME IInv, NEW op, Handle(op), HandleWrite \/ HandleRemove
  PROVE  IInv'
<1> DEFINE f == Head(events).file
<1>1. /\ loop = Idle /\ held["loop"] = NoUpdates /\ events # <<>> /\ events' = Tail(events)
  BY DEF Handle
<1>2. UNCHANGED <<world, auths, reload, pipe>>
  BY DEF HandleWrite, HandleRemove
<1>3. events \in Seq(Event) /\ recent \in SUBSET Files /\ dropped \in SUBSET Files
  BY DEF IInv, Typed, World
<1>4. f \in Files /\ events' \in Seq(Event)
  <2>1. Head(events) \in Event /\ Tail(events) \in Seq(Event)
    BY <1>1, <1>3
  <2> QED
    BY <1>1, <2>1 DEF Event
<1>5. recent' \in SUBSET Files /\ dropped' \in SUBSET Files /\ loop' \in {Idle} \cup [at: {"settle", "read"}, file: Files]
  <2>1. CASE HandleWrite
    BY <1>3, <1>4, <2>1 DEF HandleWrite, At
  <2>2. CASE HandleRemove
    BY <1>3, <1>4, <2>2 DEF HandleRemove, At
  <2> QED
    BY <2>1, <2>2
<1>6. World'
  BY <1>2, <1>4, <1>5 DEF IInv, Typed, World, world
<1>7. Places'
  BY <1>2, <1>5 DEF IInv, Typed, Places
<1>8. Auths' /\ Empty'
  BY <1>1, <1>2 DEF IInv, Typed, Auths, Empty, auths, world
<1> QED
  BY <1>2, <1>6, <1>7, <1>8, Apart DEF IInv, Typed, auths

\* Settling and reading record nothing.
LEMMA SettleStep == ASSUME IInv, Settle \/ ReadFile PROVE IInv'
<1>1. UNCHANGED <<world, events, recent, dropped, auths, reload, pipe>>
  BY DEF Settle, ReadFile
<1>2. loop # Idle /\ loop.file \in Files
  BY DEF IInv, Typed, Places, Settle, ReadFile, Idle
<1>3. loop' \in {Idle} \cup [at: {"settle", "read", "drop"}, file: Files] \cup [at: {"update"}, file: Files, data: Versions]
  <2>1. CASE Settle
    BY <1>2, <2>1 DEF Settle, At
  <2>2. CASE ReadFile
    BY <1>2, <2>2 DEF ReadFile
  <2> QED
    BY <2>1, <2>2
<1>4. World' /\ Places' /\ Auths'
  BY <1>1, <1>3 DEF IInv, Typed, World, Places, Auths, world, auths
<1>5. Empty'
  BY <1>1, <1>2 DEF IInv, Empty, auths, world
<1> QED
  BY <1>1, <1>4, <1>5, Apart DEF IInv, Typed, auths

\* The event goroutine records what it has read.
LEMMA UpdateStep == ASSUME IInv, Update PROVE IInv'
<1> USE Constants
<1>1. /\ loop.at = "update" /\ loop' = Idle /\ hash' = [hash EXCEPT ![loop.file] = loop.data]
      /\ UNCHANGED <<world, events, recent, dropped, reload, pipe>>
  BY DEF Update
<1>2. loop # Idle /\ loop.file \in Files /\ loop.data \in Versions
  BY <1>1 DEF IInv, Typed, Places, Idle
<1>3. held["loop"] = NoUpdates
  BY <1>2 DEF IInv, Empty
<1>4. World' /\ Places' /\ Pipe'
  BY <1>1 DEF IInv, Typed, World, Places, Pipe, world, pipe
<1>5. hash' \in [Files -> Versions \cup {Absent}]
  BY <1>1, <1>2 DEF IInv, Typed, Auths
<1>6. CASE UNCHANGED <<current, held, astray>>
  <2>1. Auths' /\ Empty'
    BY <1>1, <1>5, <1>6 DEF IInv, Typed, Auths, Empty, world
  <2> QED
    BY <1>1, <1>4, <1>6, <2>1, Apart DEF IInv, Typed
<1>7. CASE Record("loop", Only(loop.file, loop.data))
  <2>1. Only(loop.file, loop.data) \in Updates
    BY <1>2, OnlyIs
  <2>2. /\ current' \in [IDs -> Values \cup {Absent}] /\ held' \in [Actors -> Updates] /\ astray' \in SUBSET IDs
        /\ Tracked' /\ PipelineFollows' /\ \A b \in Actors : b # "loop" => held'[b] = held[b]
    BY <1>1, <1>3, <1>7, <2>1, RecordKeeps
  <2>3. Auths' /\ Empty'
    BY <1>1, <1>5, <2>2 DEF IInv, Auths, Empty, world
  <2> QED
    BY <1>4, <2>2, <2>3 DEF IInv, Typed
<1> QED
  BY <1>6, <1>7 DEF Update

\* Or that the file is gone.
LEMMA DropStep == ASSUME IInv, Drop PROVE IInv'
<1> USE Constants
<1>1. /\ loop.at = "drop" /\ loop' = Idle /\ hash' = [hash EXCEPT ![loop.file] = Absent]
      /\ UNCHANGED <<world, events, recent, dropped, reload, pipe>>
  BY DEF Drop
<1>2. loop # Idle /\ loop.file \in Files
  BY <1>1 DEF IInv, Typed, Places, Idle
<1>3. held["loop"] = NoUpdates
  BY <1>2 DEF IInv, Empty
<1>4. World' /\ Places' /\ Pipe'
  BY <1>1 DEF IInv, Typed, World, Places, Pipe, world, pipe
<1>5. hash' \in [Files -> Versions \cup {Absent}]
  BY <1>1, <1>2 DEF IInv, Typed, Auths
<1>6. Record("loop", Only(loop.file, Absent)) /\ Only(loop.file, Absent) \in Updates
  BY <1>2, OnlyIs DEF Drop
<1>7. /\ current' \in [IDs -> Values \cup {Absent}] /\ held' \in [Actors -> Updates] /\ astray' \in SUBSET IDs
      /\ Tracked' /\ PipelineFollows' /\ \A b \in Actors : b # "loop" => held'[b] = held[b]
  BY <1>1, <1>3, <1>6, RecordKeeps
<1>8. Auths' /\ Empty'
  BY <1>1, <1>5, <1>7 DEF IInv, Auths, Empty, world
<1> QED
  BY <1>4, <1>7, <1>8 DEF IInv, Typed

\* What a reload takes out of currentAuths is astray.
LEMMA ReloadStep ==
  ASSUME IInv, NEW force \in BOOLEAN, NEW affected \in SUBSET Files, Reload(force, affected)
  PROVE  IInv'
<1> USE Constants
<1>1. /\ reload = Idle /\ held["reload"] = NoUpdates /\ reloads < MaxReloads /\ reloads' = reloads + 1
      /\ current' = [i \in IDs |-> IF i \in affected THEN Absent ELSE current[i]]
      /\ astray' = astray \cup {f \in affected : current[f] # Absent}
      /\ reload' = [at |-> "scan", force |-> force]
      /\ UNCHANGED <<disk, events, recent, dropped, hash, runtime, gone, loop, held, pipe, changes>>
  BY DEF Reload
<1>2. World'
  <2>1. reloads' \in 0..MaxReloads
    <3>1. MaxReloads \in Nat /\ reloads \in 0..MaxReloads
      BY WatcherAssumption DEF IInv, Typed, World
    <3> QED
      BY <1>1, <3>1
  <2>2. calm' \in BOOLEAN
    BY Zenon DEF Reload, Quiet
  <2> QED
    BY <1>1, <2>1, <2>2 DEF IInv, Typed, World
<1>3. Places' /\ Pipe' /\ Empty'
  BY <1>1 DEF IInv, Typed, Places, Pipe, Empty, pipe
<1>4. Auths'
  BY <1>1 DEF IInv, Typed, Auths
<1>5. \A i \in IDs \ astray' : i \notin astray /\ current'[i] = current[i]
  BY <1>1
<1>6. Tracked'
  BY <1>1, <1>5 DEF IInv, Tracked
<1>7. \A i \in IDs : Latest(i)' = Latest(i)
  BY <1>1, LatestIs DEF pipe
<1>8. PipelineFollows'
  BY <1>1, <1>5, <1>7 DEF IInv, PipelineFollows
<1> QED
  BY <1>2, <1>3, <1>4, <1>6, <1>8 DEF IInv, Typed

\* A reload notes what is on the disk.
LEMMA ScanStep == ASSUME IInv, Scan PROVE IInv'
<1>1. /\ reload.at = "scan" /\ reload' = [at |-> "diff", force |-> reload.force, snap |-> disk]
      /\ UNCHANGED <<world, events, recent, dropped, auths, loop, pipe>>
  BY DEF Scan
<1>2. reload # Idle /\ reload.force \in BOOLEAN
  BY <1>1 DEF IInv, Typed, Places, Idle
<1>3. Places'
  BY <1>1, <1>2 DEF IInv, Typed, Places, World
<1>4. World' /\ Auths' /\ Empty'
  BY <1>1, <1>2 DEF IInv, Typed, World, Auths, Empty, world, auths
<1> QED
  BY <1>1, <1>3, <1>4, Apart DEF IInv, Typed, auths

\* The updates of a reload.
Differences == [i \in IDs |->
  IF Snapshot[i] # current[i] \/ (reload.force /\ Snapshot[i] # Absent) THEN Snapshot[i] ELSE None]

\* What it found, and how that differs, are typed.
LEMMA SnapshotTyped ==
  ASSUME IInv, reload.at = "diff"
  PROVE  Snapshot \in [IDs -> Values \cup {Absent}] /\ Differences \in Updates
<1> USE Constants
<1>1. reload.snap \in [Files -> Contents] /\ runtime \in SUBSET Runtimes
  BY DEF IInv, Typed, Places, World, Idle
<1>2. Snapshot \in [IDs -> Values \cup {Absent}]
  BY <1>1 DEF Snapshot, Usable, IDs
<1> QED
  BY <1>2 DEF Differences, Updates

\* It records all differences at once.
LEMMA DiffStep == ASSUME IInv, Diff PROVE IInv'
<1> USE Constants
<1>1. /\ reload.at = "diff" /\ reload' = Idle /\ Record("reload", Differences)
      /\ UNCHANGED <<world, events, recent, dropped, hash, loop, pipe>>
  BY DEF Diff, Differences
<1>2. reload # Idle /\ held["reload"] = NoUpdates
  BY <1>1 DEF IInv, Empty, Idle
<1>3. World' /\ Places' /\ Pipe'
  BY <1>1 DEF IInv, Typed, World, Places, Pipe, world, pipe
<1>4. /\ current' \in [IDs -> Values \cup {Absent}] /\ held' \in [Actors -> Updates] /\ astray' \in SUBSET IDs
      /\ Tracked' /\ PipelineFollows' /\ \A b \in Actors : b # "reload" => held'[b] = held[b]
  BY <1>1, <1>2, RecordKeeps, SnapshotTyped
<1>5. Auths' /\ Empty'
  BY <1>1, <1>4 DEF IInv, Typed, Auths, Empty, world
<1> QED
  BY <1>3, <1>4, <1>5 DEF IInv, Typed

------------------------------------------------------------------------------
\* Every step keeps the invariant.
LEMMA NextIInv == IInv /\ [Next]_vars => IInv'
<1> SUFFICES ASSUME IInv, [Next]_vars PROVE IInv'
  OBVIOUS
<1>1. CASE UNCHANGED vars
  <2>1. World' /\ Places' /\ Auths' /\ Empty'
    BY <1>1 DEF IInv, Typed, World, Places, Auths, Empty, vars
  <2> QED
    BY <1>1, <2>1, Apart DEF IInv, Typed, vars, pipe
<1>2. ASSUME NEW f \in Files, Forget(f) PROVE IInv'
  BY <1>2, ForgetStep
<1>3. ASSUME NEW f \in Files, NEW v \in Contents, Change(f, v) PROVE IInv'
  BY <1>3, ChangeStep
<1>4. ASSUME NEW r \in Runtimes, Connect(r) \/ Disconnect(r) PROVE IInv'
  BY <1>4, ConnectStep, DisconnectStep
<1>5. CASE EventLoop
  <2>1. CASE HandleWrite \/ HandleRemove
    BY <2>1, HandleStep DEF HandleWrite, HandleRemove
  <2>2. CASE Settle \/ ReadFile
    BY <2>2, SettleStep
  <2>3. CASE Update \/ Drop
    BY <2>3, UpdateStep, DropStep
  <2> QED
    BY <1>5, <2>1, <2>2, <2>3 DEF EventLoop
<1>6. ASSUME NEW force \in BOOLEAN, NEW affected \in SUBSET Files, Reload(force, affected) PROVE IInv'
  BY <1>6, ReloadStep
<1>7. CASE Scan \/ Diff
  BY <1>7, ScanStep, DiffStep
<1>8. ASSUME NEW a \in Actors, Dispatch(a) PROVE IInv'
  BY <1>8, DispatchStep
<1>9. CASE NextBatch \/ Consume
  BY <1>9, NextBatchStep, ConsumeStep
<1>10. ASSUME NEW i \in IDs, Push(i) PROVE IInv'
  BY <1>10, PushStep
<1> QED
  BY <1>1, <1>2, <1>3, <1>4, <1>5, <1>6, <1>7, <1>8, <1>9, <1>10 DEF Next, Contents

------------------------------------------------------------------------------
(* What events say of the files.                                            *)

\* Steps that touch no file and no event keep Heard.
LEMMA HeardKept ==
  ASSUME Heard, UNCHANGED <<disk, events, dropped, hash, loop>>
  PROVE  Heard'
  BY DEF Heard, Truthful, Covered, Fresh, HasEvent, OnIt

\* A change of a file is followed by its event.
LEMMA HeardChange == ASSUME IInv, Heard, NEW f \in Files, NEW v \in Contents, Change(f, v) PROVE Heard'
<1> DEFINE e == [file |-> f, op |-> IF v = Absent THEN "remove" ELSE "write"]
<1>1. /\ disk' = [disk EXCEPT ![f] = v] /\ events' = Append(events, e) /\ UNCHANGED <<dropped, hash, loop>>
  BY DEF Change, auths
<1>2. disk \in [Files -> Contents] /\ events \in Seq(Event)
  BY DEF IInv, Typed, World
<1>3. e \in Event /\ e.file = f /\ (e.op = "remove" <=> v = Absent)
  BY DEF Event
<1> HIDE DEF e
<1>4. /\ DOMAIN events' = 1..(Len(events) + 1) /\ DOMAIN events = 1..Len(events) /\ Len(events) \in Nat
      /\ events'[Len(events) + 1] = e /\ \A n \in 1..Len(events) : events'[n] = events[n] /\ events[n].file \in Files
  <2>1. /\ DOMAIN events' = 1..(Len(events) + 1) /\ DOMAIN events = 1..Len(events) /\ Len(events) \in Nat
        /\ events'[Len(events) + 1] = e /\ \A n \in 1..Len(events) : events'[n] = events[n]
    BY <1>1, <1>2, <1>3
  <2>2. \A n \in 1..Len(events) : events[n] \in Event
    BY <1>2
  <2> QED
    BY <2>1, <2>2 DEF Event
<1>5. disk'[f] = v /\ \A g \in Files : g # f => disk'[g] = disk[g]
  BY <1>1, <1>2
<1>6. HasEvent(f)' /\ \A g : HasEvent(g) => HasEvent(g)'
  BY <1>3, <1>4 DEF HasEvent
<1>7. Truthful'
  <2> SUFFICES ASSUME NEW n \in DOMAIN events', \A m \in DOMAIN events' : events'[m].file = events'[n].file => m <= n
               PROVE  events'[n].op = "remove" <=> disk'[events'[n].file] = Absent
    BY DEF Truthful
  <2>1. CASE n = Len(events) + 1
    BY <1>3, <1>4, <1>5, <2>1
  <2>2. CASE n # Len(events) + 1
    <3>1. n \in DOMAIN events /\ events'[n] = events[n]
      BY <1>4, <2>2
    <3>2. events[n].file # f
      BY <1>3, <1>4, <3>1
    <3>3. \A m \in DOMAIN events : events[m].file = events[n].file => m <= n
      BY <1>4, <3>1
    <3>4. events[n].op = "remove" <=> disk[events[n].file] = Absent
      BY <3>1, <3>3 DEF Heard, Truthful
    <3> QED
      BY <1>4, <1>5, <3>1, <3>2, <3>4
  <2> QED
    BY <2>1, <2>2
<1>8. \A g \in Files : OnIt(g) => OnIt(g)' \/ g = f
  BY <1>1, <1>5 DEF OnIt
<1>9. \A g \in Files : Covered(g)'
  BY <1>1, <1>5, <1>6, <1>8 DEF Heard, Covered
<1>10. Fresh'
  <2>1. loop # Idle => loop.file \in Files
    BY DEF IInv, Typed, Places
  <2> QED
    BY <1>1, <1>6, <1>8, <2>1 DEF Heard, Fresh
<1> QED
  BY <1>7, <1>9, <1>10 DEF Heard

\* An event that is handled has become what the goroutine is on.
LEMMA HeardHandle == ASSUME IInv, Heard, HandleWrite \/ HandleRemove PROVE Heard'
<1>1. loop = Idle /\ events # <<>> /\ events' = Tail(events) /\ UNCHANGED <<disk, hash>>
  BY DEF HandleWrite, HandleRemove, Handle, world, auths
<1>2. events \in Seq(Event)
  BY DEF IInv, Typed, World
<1>0. PICK f \in Files : f = Head(events).file
  <2>1. Head(events) \in Event
    BY <1>1, <1>2
  <2> QED
    BY <2>1 DEF Event
<1>3. /\ DOMAIN events = 1..Len(events) /\ DOMAIN events' = 1..(Len(events) - 1) /\ Len(events) \in Nat \ {0}
      /\ Head(events) = events[1] /\ f = events[1].file /\ \A n \in 1..(Len(events) - 1) : events'[n] = events[n + 1]
  BY <1>0, <1>1, <1>2 DEF Event
<1>4. Truthful'
  <2> SUFFICES ASSUME NEW n \in DOMAIN events', \A m \in DOMAIN events' : events'[m].file = events'[n].file => m <= n
               PROVE  events'[n].op = "remove" <=> disk[events'[n].file] = Absent
    BY <1>1 DEF Truthful
  <2>1. n + 1 \in DOMAIN events /\ events'[n] = events[n + 1]
    BY <1>3
  <2>2. \A m \in DOMAIN events : events[m].file = events[n + 1].file => m <= n + 1
    <3> SUFFICES ASSUME NEW m \in DOMAIN events, events[m].file = events[n + 1].file, m # 1 PROVE m <= n + 1
      BY <1>3
    <3>1. m - 1 \in DOMAIN events' /\ events'[m - 1] = events[(m - 1) + 1] /\ (m - 1) + 1 = m
      BY <1>3
    <3>2. m - 1 <= n
      BY <2>1, <3>1
    <3> QED
      BY <1>3, <3>2
  <2> QED
    BY <2>1, <2>2 DEF Heard, Truthful
<1>5. ASSUME NEW g, HasEvent(g), g # f PROVE HasEvent(g)'
  <2>1. PICK n \in DOMAIN events : events[n].file = g
    BY <1>5 DEF HasEvent
  <2>2. n - 1 \in DOMAIN events' /\ events'[n - 1] = events[(n - 1) + 1] /\ (n - 1) + 1 = n
    BY <1>3, <1>5, <2>1
  <2> QED
    BY <2>1, <2>2 DEF HasEvent
<1>6. ASSUME ~HasEvent(f)' PROVE Head(events).op = "remove" <=> disk[f] = Absent
  <2>1. \A m \in DOMAIN events : events[m].file = f => m <= 1
    <3> SUFFICES ASSUME NEW m \in DOMAIN events, events[m].file = f, m # 1 PROVE FALSE
      OBVIOUS
    <3>1. m - 1 \in DOMAIN events' /\ events'[m - 1] = events[(m - 1) + 1] /\ (m - 1) + 1 = m
      BY <1>3
    <3> QED
      BY <1>6, <3>1 DEF HasEvent
  <2> QED
    BY <1>3, <2>1 DEF Heard, Truthful
<1>7. \A g \in Files : ~OnIt(g)
  BY <1>1 DEF OnIt
<1>8. \A g \in Files : g # f => (g \in dropped <=> g \in dropped')
  <2>1. CASE HandleWrite
    BY <1>0, <2>1 DEF HandleWrite
  <2>2. CASE HandleRemove
    BY <1>0, <2>2 DEF HandleRemove
  <2> QED
    BY <2>1, <2>2
<1>9. \A g \in Files : g # f => Covered(g)'
  BY <1>1, <1>5, <1>7, <1>8 DEF Heard, Covered
<1>10. ASSUME ~HasEvent(f)' PROVE hash[f] = disk[f] \/ f \in dropped' \/ OnIt(f)'
  <2>1. CASE HandleWrite
    <3>1. disk[f] # Absent
      BY <1>6, <1>10, <2>1 DEF HandleWrite, Handle
    <3>2. loop' = IF hash[f] = disk[f] THEN Idle ELSE [at |-> "read", file |-> f]
      BY <1>0, <2>1, <3>1 DEF HandleWrite, Unchanged, At
    <3> QED
      BY <1>1, <3>1, <3>2 DEF OnIt, Idle
  <2>2. CASE HandleRemove
    <3>1. loop' = [at |-> "settle", file |-> f] \/ f \in dropped'
      BY <1>0, <2>2 DEF HandleRemove, At
    <3> QED
      BY <3>1 DEF OnIt, Idle
  <2> QED
    BY <2>1, <2>2
<1>11. \A g \in Files : Covered(g)'
  BY <1>1, <1>9, <1>10 DEF Covered
<1>12. Fresh'
  <2>1. loop' = Idle \/ loop'.at \in {"read", "settle"}
    BY DEF HandleWrite, HandleRemove, At
  <2> QED
    BY <2>1 DEF Fresh
<1> QED
  BY <1>4, <1>11, <1>12 DEF Heard

\* What is read is the present content, unless another event follows.
LEMMA HeardSettle == ASSUME IInv, Heard, Settle \/ ReadFile PROVE Heard'
<1>1. UNCHANGED <<disk, events, dropped, hash>>
  BY DEF Settle, ReadFile, world, auths
<1>0. PICK f \in Files : f = loop.file
  BY DEF IInv, Typed, Places, Settle, ReadFile, Idle
<1>2. loop # Idle /\ disk[f] \in Contents
  BY DEF IInv, Typed, World, Settle, ReadFile, Idle
<1>3. Truthful'
  BY <1>1 DEF Heard, Truthful
<1>4. \A g : HasEvent(g)' <=> HasEvent(g)
  BY <1>1 DEF HasEvent
<1>5. \A g \in Files : g # f => ~OnIt(g)
  BY <1>0 DEF OnIt
<1>6. \A g \in Files : g # f => Covered(g)'
  BY <1>1, <1>4, <1>5 DEF Heard, Covered
<1>7. Covered(f)' /\ (loop' # Idle => loop'.file = f /\ (loop'.at \in {"update", "drop"} => OnIt(f)'))
  <2>1. CASE Settle
    <3>1. CASE disk[f] # Absent
      <4>1. loop' = IF hash[f] = disk[f] THEN Idle ELSE [at |-> "read", file |-> f]
        BY <1>0, <2>1, <3>1 DEF Settle, Unchanged, At
      <4> QED
        BY <1>1, <3>1, <4>1 DEF Covered, OnIt, Idle
    <3>2. CASE disk[f] = Absent
      <4>1. loop' = IF hash[f] = Absent THEN Idle ELSE [at |-> "drop", file |-> f]
        BY <1>0, <2>1, <3>2 DEF Settle, At
      <4> QED
        BY <1>1, <3>2, <4>1 DEF Covered, OnIt, Idle
    <3> QED
      BY <3>1, <3>2
  <2>2. CASE ReadFile
    <3>1. loop.at = "read" /\ loop' = IF disk[f] \in Versions THEN [at |-> "update", file |-> f, data |-> disk[f]] ELSE Idle
      BY <1>0, <2>2 DEF ReadFile
    <3>2. CASE disk[f] \in Versions
      BY <1>1, <3>1, <3>2 DEF Covered, OnIt, Idle
    <3>3. CASE disk[f] \in Unusable \ Versions
      BY <1>1, <3>1, <3>3 DEF Covered, Idle
    <3>4. CASE disk[f] = Absent /\ disk[f] \notin Versions
      <4>1. ~OnIt(f)
        BY <3>1, <3>4 DEF OnIt
      <4> QED
        BY <1>1, <1>2, <1>4, <3>1, <3>4, <4>1 DEF Heard, Covered, Idle
    <3> QED
      BY <1>2, <3>2, <3>3, <3>4 DEF Contents
  <2> QED
    BY <2>1, <2>2
<1> QED
  BY <1>3, <1>6, <1>7 DEF Heard, Fresh

\* What it records is what it has read.
LEMMA HeardUpdate == ASSUME IInv, Heard, Update \/ Drop PROVE Heard'
<1>1. UNCHANGED <<disk, events, dropped>> /\ loop' = Idle
  BY DEF Update, Drop, world
<1>0. PICK f \in Files : f = loop.file
  BY DEF IInv, Typed, Places, Update, Drop, Idle
<1>2. loop # Idle /\ loop.at \in {"update", "drop"} /\ hash \in [Files -> Versions \cup {Absent}]
  BY DEF IInv, Typed, Places, Auths, Update, Drop, Idle
<1>3. /\ \A g \in Files : g # f => hash'[g] = hash[g]
      /\ hash'[f] = IF loop.at = "update" THEN loop.data ELSE Absent
  BY <1>0, <1>2 DEF Update, Drop
<1>4. Truthful' /\ Fresh'
  BY <1>1 DEF Heard, Truthful, Fresh
<1>5. \A g : HasEvent(g)' <=> HasEvent(g)
  BY <1>1 DEF HasEvent
<1>6. \A g \in Files : g # f => ~OnIt(g)
  BY <1>0 DEF OnIt
<1>7. HasEvent(f) \/ OnIt(f)
  BY <1>0, <1>2 DEF Heard, Fresh
<1>8. OnIt(f) => hash'[f] = disk[f]
  BY <1>2, <1>3 DEF OnIt
<1>9. \A g \in Files : Covered(g)'
  BY <1>1, <1>3, <1>5, <1>6, <1>7, <1>8 DEF Heard, Covered
<1> QED
  BY <1>4, <1>9 DEF Heard

------------------------------------------------------------------------------
(* Without a reload.                                                        *)

\* Recording one ID changes it alone; another goroutine that holds it goes astray with it.
LEMMA OnlyRecorded ==
  ASSUME IInv, NEW a \in Actors, NEW i \in IDs, NEW v \in Values \cup {Absent}, Record(a, Only(i, v))
  PROVE  /\ \A j \in IDs : current'[j] = IF j = i THEN v ELSE current[j]
         /\ \A b \in Actors : b # a => held'[b] = held[b]
         /\ \A j \in IDs : held'[a][j] = IF j = i THEN v ELSE None
         /\ astray' \subseteq astray \cup {j \in {i} : Overlaps(a, j)}
<1> USE Constants
<1>1. held \in [Actors -> Updates] /\ v # None
  BY DEF IInv, Typed, Auths
<1>2. \A j \in IDs : Only(i, v)[j] = IF j = i THEN v ELSE None
  BY DEF Only, NoUpdates
<1>3. held' = [held EXCEPT ![a] = Only(i, v)]
  BY DEF Record
<1>4. \A j \in IDs : current'[j] = IF j = i THEN v ELSE current[j]
  BY <1>1, <1>2 DEF Record
<1>5. astray' = {j \in astray : Only(i, v)[j] = None} \cup {j \in IDs : Only(i, v)[j] # None /\ Overlaps(a, j)}
  BY Zenon DEF Record
<1>6. astray' \subseteq astray \cup {j \in {i} : Overlaps(a, j)}
  BY <1>2, <1>5
<1> QED
  BY <1>1, <1>2, <1>3, <1>4, <1>6

\* Steps that record nothing keep Alone.
LEMMA AloneKept ==
  ASSUME Alone, UNCHANGED <<reloads, reload, hash, current, astray, runtime>>,
         \A a \in Actors, i \in IDs : held'[a][i] = held[a][i] \/ held'[a][i] = None,
         held["reload"] = NoUpdates => held'["reload"] = NoUpdates
  PROVE  Alone'
<1>1. (\A r \in Runtimes : r \in Actors /\ r \in IDs) /\ (\A f \in Files : f \in IDs)
  BY Constants
<1>2. \A r : Online(r)' = Online(r)
  BY DEF Online
<1> QED
  BY <1>1, <1>2 DEF Alone

\* Connections that come or go are recorded as they are.
LEMMA AloneConnect == ASSUME IInv, Alone, NEW r \in Runtimes, Connect(r) \/ Disconnect(r) PROVE Alone'
<1> USE Constants
<1> SUFFICES ASSUME reloads = 0 PROVE Alone'
  BY DEF Alone, Connect, Disconnect
<1>1. UNCHANGED <<hash, reload, reloads>>
  BY DEF Connect, Disconnect
<1>2. PICK v \in Values \cup {Absent} : v = Online(r)' /\ Record(r, Only(r, v))
  <2>1. CASE Connect(r)
    <3>1. r = Online(r)'
      BY <2>1 DEF Connect, Online
    <3> QED
      BY <2>1, <3>1 DEF Connect
  <2>2. CASE Disconnect(r)
    <3>1. Absent = Online(r)'
      BY <2>2 DEF Disconnect, Online
    <3> QED
      BY <2>2, <3>1 DEF Disconnect
  <2> QED
    BY <2>1, <2>2
<1>3. /\ \A j \in IDs : current'[j] = IF j = r THEN v ELSE current[j]
      /\ \A b \in Actors : b # r => held'[b] = held[b]
      /\ \A j \in IDs : held'[r][j] = IF j = r THEN v ELSE None
      /\ astray' \subseteq astray \cup {j \in {r} : Overlaps(r, j)}
  BY <1>2, OnlyRecorded
<1>4. ~Overlaps(r, r)
  BY DEF Alone, Overlaps
<1>5. astray' = {} /\ reload' = Idle /\ held'["reload"] = NoUpdates
  BY <1>1, <1>3, <1>4 DEF Alone
<1>6. \A f \in Files : current'[f] = hash'[f] /\ \A s \in Runtimes : held'[s][f] = None
  BY <1>1, <1>3 DEF Alone
<1>7. \A s \in Runtimes : s # r => Online(s)' = Online(s)
  BY DEF Online, Connect, Disconnect
<1>8. \A s \in Runtimes : current'[s] = Online(s)' /\ \A a \in Actors \ {s} : held'[a][s] = None
  BY <1>2, <1>3, <1>7 DEF Alone
<1> QED
  BY <1>5, <1>6, <1>8 DEF Alone

\* Files are recorded as their hashes say.
LEMMA AloneUpdate == ASSUME IInv, Alone, Update \/ Drop PROVE Alone'
<1> USE Constants
<1>1. UNCHANGED <<reload, reloads, runtime>>
  BY DEF Update, Drop, world
<1> SUFFICES ASSUME reloads = 0 PROVE Alone'
  BY <1>1 DEF Alone
<1>2. PICK f \in Files : f = loop.file
  BY DEF IInv, Typed, Places, Update, Drop, Idle
<1>3. hash \in [Files -> Versions \cup {Absent}] /\ current[f] = hash[f]
  BY DEF IInv, Typed, Auths, Alone
<1>4. PICK v \in Values \cup {Absent} :
        /\ hash' = [hash EXCEPT ![f] = v]
        /\ (hash[f] = v /\ UNCHANGED <<current, held, astray>>) \/ Record("loop", Only(f, v))
  <2>1. CASE Update
    <3>1. loop.data \in Values
      BY <2>1 DEF IInv, Typed, Places, Update, Idle
    <3>2. hash' = [hash EXCEPT ![f] = loop.data]
      BY <1>2, <2>1 DEF Update
    <3>3. (hash[f] = loop.data /\ UNCHANGED <<current, held, astray>>) \/ Record("loop", Only(f, loop.data))
      BY <1>2, <1>3, <2>1 DEF Update
    <3> QED
      BY <3>1, <3>2, <3>3
  <2>2. CASE Drop
    BY <1>2, <2>2 DEF Drop
  <2> QED
    BY <2>1, <2>2
<1>5. hash'[f] = v /\ \A g \in Files : g # f => hash'[g] = hash[g]
  <2>1. hash' = [hash EXCEPT ![f] = v]
    BY <1>4
  <2> QED
    BY <1>3, <2>1
<1>6. \A r \in Runtimes : Online(r)' = Online(r)
  BY <1>1 DEF Online
<1>7. CASE hash[f] = v /\ UNCHANGED <<current, held, astray>>
  <2>1. \A g \in Files : hash'[g] = hash[g]
    BY <1>5, <1>7
  <2> QED
    BY <1>1, <1>6, <1>7, <2>1 DEF Alone
<1>8. CASE Record("loop", Only(f, v))
  <2>1. /\ \A j \in IDs : current'[j] = IF j = f THEN v ELSE current[j]
        /\ \A b \in Actors : b # "loop" => held'[b] = held[b]
        /\ \A j \in IDs : held'["loop"][j] = IF j = f THEN v ELSE None
        /\ astray' \subseteq astray \cup {j \in {f} : Overlaps("loop", j)}
    BY <1>8, OnlyRecorded
  <2>2. ~Overlaps("loop", f)
    <3>1. \A b \in Actors : b = "loop" \/ b = "reload" \/ b \in Runtimes
      BY DEF Actors
    <3> QED
      BY <3>1 DEF Alone, Overlaps
  <2>3. astray' = {} /\ reload' = Idle /\ held'["reload"] = NoUpdates
    BY <1>1, <2>1, <2>2 DEF Alone
  <2>4. \A g \in Files : current'[g] = hash'[g] /\ \A r \in Runtimes : held'[r][g] = None
    BY <1>5, <2>1 DEF Alone
  <2>5. \A r \in Runtimes : current'[r] = Online(r)' /\ \A a \in Actors \ {r} : held'[a][r] = None
    BY <1>6, <2>1 DEF Alone
  <2> QED
    BY <2>3, <2>4, <2>5 DEF Alone
<1> QED
  BY <1>4, <1>7, <1>8

------------------------------------------------------------------------------
(* After a reload that began in quiet.                                      *)

\* Without events nothing disturbs a reload that began in quiet.
LEMMA CalmedKept ==
  ASSUME Calmed, UNCHANGED <<calm, disk, runtime, current, reload>>,
         events = <<>> /\ loop = Idle => UNCHANGED <<events, loop>>
  PROVE  Calmed'
<1>1. \A i : Found(i)' = Found(i)
  BY DEF Found, Usable, Online
<1> QED
  BY <1>1 DEF Calmed

\* Such a reload finds what is there, and records it.
LEMMA CalmedReload ==
  ASSUME IInv, Calmed,
         Scan \/ Diff \/ \E force \in BOOLEAN, affected \in SUBSET Files : Reload(force, affected)
  PROVE  Calmed'
<1> SUFFICES ASSUME calm' PROVE Calmed'
  BY DEF Calmed
<1>1. UNCHANGED <<events, loop, disk, runtime>>
  BY DEF Scan, Diff, Reload, world
<1>2. \A i : Found(i)' = Found(i)
  BY <1>1 DEF Found, Usable, Online
<1>3. CASE \E force \in BOOLEAN, affected \in SUBSET Files : Reload(force, affected)
  <2>1. Quiet /\ reload' # Idle /\ reload'.at = "scan"
    BY <1>3 DEF Reload, Idle
  <2> QED
    BY <1>1, <2>1 DEF Calmed, Quiet
<1>4. CASE Scan
  <2>1. calm = calm' /\ reload' # Idle /\ reload'.at = "diff" /\ reload'.snap = disk'
    BY <1>4 DEF Scan, Idle, world
  <2> QED
    BY <1>1, <2>1 DEF Calmed
<1>5. CASE Diff
  <2>1. calm = calm' /\ reload.at = "diff" /\ reload' = Idle /\ Record("reload", Differences)
    BY <1>5 DEF Diff, Differences, world
  <2>2. \A i \in IDs : Snapshot[i] = Found(i)
    BY <2>1 DEF Calmed, Snapshot, Found, Online
  <2>3. Snapshot \in [IDs -> Values \cup {Absent}]
    BY <2>1, SnapshotTyped
  <2>4. \A i \in IDs : current'[i] = IF Differences[i] = None THEN current[i] ELSE Differences[i]
    BY <2>1 DEF Record
  <2>5. \A i \in IDs : current'[i] = Snapshot[i]
    BY <2>3, <2>4, Constants DEF Differences
  <2>6. reload'.at # "diff"
    BY <2>1 DEF Idle
  <2> QED
    BY <1>1, <1>2, <2>1, <2>2, <2>5, <2>6 DEF Calmed
<1> QED
  BY <1>3, <1>4, <1>5

------------------------------------------------------------------------------
Mirror == Heard /\ Alone /\ Calmed

\* In the beginning nothing is to be mirrored.
LEMMA InitMirror == Init => Mirror
<1> SUFFICES ASSUME Init PROVE Mirror
  OBVIOUS
<1> USE Constants
<1>1. Heard
  BY DEF Init, Heard, Truthful, Covered, Fresh
<1>2. Alone
  <2>1. /\ reload = Idle /\ held["reload"] = NoUpdates /\ astray = {} /\ runtime = {}
        /\ \A a \in Actors, i \in IDs : held[a][i] = None
    BY DEF Init
  <2>2. \A f \in Files : current[f] = hash[f]
    BY DEF Init
  <2>3. \A r \in Runtimes : current[r] = Absent
    BY DEF Init
  <2> QED
    BY <2>1, <2>2, <2>3 DEF Alone, Online
<1>3. Calmed
  BY DEF Init, Calmed
<1> QED
  BY <1>1, <1>2, <1>3 DEF Mirror

\* Every step keeps what convergence rests on.
LEMMA NextMirror == IInv /\ Mirror /\ [Next]_vars => Mirror'
<1> SUFFICES ASSUME IInv, Mirror, [Next]_vars PROVE Mirror'
  OBVIOUS
<1> USE DEF Mirror
<1>1. CASE UNCHANGED vars
  <2>1. Heard' /\ Calmed'
    BY <1>1, HeardKept, CalmedKept DEF vars
  <2>2. Alone'
    BY <1>1, AloneKept DEF vars
  <2> QED
    BY <2>1, <2>2
<1>2. ASSUME NEW f \in Files, Forget(f) PROVE Mirror'
  <2>1. Heard' /\ Calmed'
    BY <1>2, HeardKept, CalmedKept DEF Forget, world, auths
  <2>2. Alone'
    BY <1>2, AloneKept DEF Forget, world, auths
  <2> QED
    BY <2>1, <2>2
<1>3. ASSUME NEW f \in Files, NEW v \in Contents, Change(f, v) PROVE Mirror'
  <2>1. Heard'
    BY <1>3, HeardChange
  <2>2. Alone'
    BY <1>3, AloneKept DEF Change, auths
  <2>3. Calmed'
    BY <1>3 DEF Change, Calmed
  <2> QED
    BY <2>1, <2>2, <2>3
<1>4. ASSUME NEW r \in Runtimes, Connect(r) \/ Disconnect(r) PROVE Mirror'
  <2>1. Heard'
    BY <1>4, HeardKept DEF Connect, Disconnect
  <2>2. Alone'
    BY <1>4, AloneConnect
  <2>3. Calmed'
    BY <1>4 DEF Connect, Disconnect, Calmed
  <2> QED
    BY <2>1, <2>2, <2>3
<1>5. CASE HandleWrite \/ HandleRemove
  <2>1. Heard'
    BY <1>5, HeardHandle
  <2>2. Alone'
    BY <1>5, AloneKept DEF HandleWrite, HandleRemove, world, auths
  <2>3. events # <<>> /\ UNCHANGED <<calm, disk, runtime, current, reload>>
    BY <1>5 DEF HandleWrite, HandleRemove, Handle, world, auths
  <2>4. Calmed'
    BY <2>3, CalmedKept
  <2> QED
    BY <2>1, <2>2, <2>4
<1>6. CASE Settle \/ ReadFile
  <2>1. Heard'
    BY <1>6, HeardSettle
  <2>2. Alone'
    BY <1>6, AloneKept DEF Settle, ReadFile, world, auths
  <2>3. loop # Idle /\ UNCHANGED <<calm, disk, runtime, current, reload>>
    BY <1>6 DEF Settle, ReadFile, Idle, world, auths
  <2>4. Calmed'
    BY <2>3, CalmedKept
  <2> QED
    BY <2>1, <2>2, <2>4
<1>7. CASE Update \/ Drop
  <2>1. Heard'
    BY <1>7, HeardUpdate
  <2>2. Alone'
    BY <1>7, AloneUpdate
  <2>3. loop # Idle /\ calm' = calm
    BY <1>7 DEF Update, Drop, Idle, world
  <2>4. Calmed'
    BY <2>3 DEF Calmed
  <2> QED
    BY <2>1, <2>2, <2>4
<1>8. CASE Scan \/ Diff \/ \E force \in BOOLEAN, affected \in SUBSET Files : Reload(force, affected)
  <2>1. Heard'
    BY <1>8, HeardKept DEF Scan, Diff, Reload, world, auths
  <2>2. Calmed'
    BY <1>8, CalmedReload
  <2>3. Alone'
    <3>1. CASE Scan \/ Diff
      <4>1. reload # Idle /\ reloads' = reloads
        BY <3>1 DEF Scan, Diff, Idle, world
      <4> QED
        BY <4>1 DEF Alone
    <3>2. CASE \E force \in BOOLEAN, affected \in SUBSET Files : Reload(force, affected)
      <4>1. reloads' = reloads + 1 /\ reloads \in 0..MaxReloads
        BY <3>2 DEF Reload, IInv, Typed, World
      <4> QED
        BY <4>1 DEF Alone
    <3> QED
      BY <1>8, <3>1, <3>2
  <2> QED
    BY <2>1, <2>2, <2>3
<1>9. ASSUME NEW a \in Actors, Dispatch(a) PROVE Mirror'
  <2>1. held' = [held EXCEPT ![a] = NoUpdates] /\ held \in [Actors -> Updates]
    BY <1>9 DEF Dispatch, IInv, Typed, Auths
  <2>2. UNCHANGED <<world, events, recent, dropped, hash, current, loop, reload, astray>>
    BY <1>9 DEF Dispatch
  <2>3. Heard' /\ Calmed'
    BY <2>2, HeardKept, CalmedKept DEF world
  <2>4. \A b \in Actors : held'[b] = held[b] \/ held'[b] = NoUpdates
    BY <2>1
  <2>5. Alone'
    <3>1. \A b \in Actors, i \in IDs : held'[b][i] = held[b][i] \/ held'[b][i] = None
      BY <2>4, Constants
    <3>2. held["reload"] = NoUpdates => held'["reload"] = NoUpdates
      BY <2>4, Constants
    <3> QED
      BY <2>2, <3>1, <3>2, AloneKept DEF world
  <2> QED
    BY <2>3, <2>5
<1>10. ASSUME NextBatch \/ Consume \/ \E i \in IDs : Push(i) PROVE Mirror'
  <2>1. UNCHANGED <<world, events, recent, dropped, auths, loop, reload>>
    BY <1>10 DEF NextBatch, Consume, Push
  <2>2. Heard' /\ Calmed'
    BY <2>1, HeardKept, CalmedKept DEF world, auths
  <2>3. Alone'
    BY <2>1, AloneKept DEF world, auths
  <2> QED
    BY <2>2, <2>3
<1> QED
  BY <1>1, <1>2, <1>3, <1>4, <1>5, <1>6, <1>7, <1>8, <1>9, <1>10 DEF Next, EventLoop, Contents

------------------------------------------------------------------------------
(* Theorems.                                                                *)

\* Both hold in every state.
LEMMA Invariant == Spec => [](IInv /\ Mirror)
<1>1. Init => IInv /\ Mirror
  BY InitIInv, InitMirror
<1>2. IInv /\ Mirror /\ [Next]_vars => (IInv /\ Mirror)'
  BY NextIInv, NextMirror
<1> QED
  BY <1>1, <1>2, PTL DEF Spec

\* The invariant implies the types.
LEMMA TypedIs == IInv => TypeOK
<1> SUFFICES ASSUME IInv PROVE TypeOK
  OBVIOUS
<1> USE DEF IInv, Typed
<1>1. /\ disk \in [Files -> Versions \cup Unusable \cup {Absent}]
      /\ \A n \in DOMAIN events : events[n] \in [file: Files, op: {"write", "remove"}]
      /\ recent \cup dropped \subseteq Files /\ runtime \cup gone \subseteq Runtimes
  <2>1. events \in Seq(Event)
    BY DEF World
  <2>2. \A n \in DOMAIN events : events[n] \in Event
    BY <2>1
  <2> QED
    BY <2>2 DEF World, Contents, Event
<1>2. /\ hash \in [Files -> Versions \cup {Absent}]
      /\ {current, pool} \subseteq [IDs -> Values \cup {Absent}]
      /\ held \in [Actors -> Updates] /\ {pending, batch} \subseteq Updates
  BY DEF Auths, Pipe
<1>3. /\ loop \in {Idle} \cup [at: {"settle", "read", "drop"}, file: Files]
                         \cup [at: {"update"}, file: Files, data: Versions]
      /\ reload \in {Idle} \cup [at: {"scan"}, force: BOOLEAN]
                           \cup [at: {"diff"}, force: BOOLEAN, snap: [Files -> Versions \cup Unusable \cup {Absent}]]
  BY DEF Places, Contents
<1>4. /\ Len(queue) <= QCap
      /\ \A n \in DOMAIN queue : queue[n] \in [id: IDs, auth: Values \cup {Absent}]
  <2>1. queue \in Seq(Item) /\ Len(queue) <= QCap
    BY DEF Pipe
  <2>2. \A n \in DOMAIN queue : queue[n] \in Item
    BY <2>1
  <2> QED
    BY <2>1, <2>2 DEF Item
<1>5. /\ astray \subseteq IDs /\ calm \in BOOLEAN
      /\ changes \in 0..MaxChanges /\ reloads \in 0..MaxReloads
  BY DEF World, Auths
<1> QED
  BY <1>1, <1>2, <1>3, <1>4, <1>5 DEF TypeOK

\* The type invariant, for any files, connections and contents.
THEOREM TypeCorrect == Spec => []TypeOK
  BY Invariant, TypedIs, PTL

\* Coalescing, batching and a full channel lose nothing of what currentAuths
\* says of a credential that is not astray.
THEOREM UpdatesArrive == Spec => []PipelineFollows
<1>1. IInv => PipelineFollows
  BY DEF IInv
<1> QED
  BY <1>1, Invariant, PTL

\* In quiet the pool holds what currentAuths says.
LEMMA PoolIsCurrent ==
  ASSUME IInv, Quiet, NEW i \in IDs \ astray
  PROVE  pool[i] = current[i]
<1>1. \A a \in Actors : held[a][i] = None
  BY Constants DEF Quiet
<1>2. pending[i] = None /\ batch[i] = None /\ Sent(queue, i) = {}
  BY Constants DEF Quiet, Sent
<1>3. Latest(i) = pool[i]
  BY <1>2, LatestIs
<1> QED
  BY <1>1, <1>3 DEF IInv, PipelineFollows

\* Events alone bring the pool to what files and connections say, but for the
\* files whose last removal the debounce window swallowed.
THEOREM EventsConverge == Spec => []ConvergedByEvents
<1>1. IInv /\ Mirror => ConvergedByEvents
  <2> SUFFICES ASSUME IInv, Mirror, reloads = 0, Quiet, NEW i \in IDs \ dropped PROVE MirroredID(i)
    BY Zenon DEF ConvergedByEvents, Converged
  <2>1. pool[i] = current[i]
    BY PoolIsCurrent DEF Mirror, Alone
  <2>2. CASE i \in Files
    <3>1. ~HasEvent(i) /\ ~OnIt(i)
      BY DEF Quiet, HasEvent, OnIt
    <3>2. hash[i] = disk[i] \/ disk[i] \in Unusable
      BY <2>2, <3>1 DEF Mirror, Heard, Covered
    <3>3. current[i] = hash[i]
      BY <2>2 DEF Mirror, Alone
    <3> QED
      BY <2>1, <2>2, <3>2, <3>3 DEF MirroredID
  <2>3. CASE i \in Runtimes
    <3>1. i \notin Files
      BY <2>3, Constants
    <3> QED
      BY <2>1, <2>3, <3>1 DEF Mirror, Alone, Online, MirroredID
  <2> QED
    BY <2>2, <2>3 DEF IDs
<1> QED
  BY <1>1, Invariant, PTL

\* A reload in quiet repairs what events lost.
THEOREM ReloadsRepair == Spec => []ReloadRepairs
<1>1. IInv /\ Mirror => ReloadRepairs
  <2> SUFFICES ASSUME IInv, Mirror, Quiet, calm, NEW i \in IDs \ astray PROVE MirroredID(i)
    BY DEF ReloadRepairs
  <2>1. pool[i] = Found(i)
    BY PoolIsCurrent DEF Mirror, Calmed, Quiet
  <2>2. i \in Files => disk[i] \in Contents
    BY DEF IInv, Typed, World
  <2> QED
    BY <2>1, <2>2 DEF MirroredID, Found, Usable, Online, Contents
<1> QED
  BY <1>1, Invariant, PTL
=============================================================================
