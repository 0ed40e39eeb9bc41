------------------------------ MODULE WsSession ------------------------------
(***************************************************************************)
(* One websocket session of the AI Studio relay, internal/wsrelay: request *)
(* goroutines send through it and wait on a channel each, one reader        *)
(* goroutine (session.run) dispatches the answers, a watcher per request    *)
(* gives it up when its context ends, and cleanup, run once by whoever      *)
(* finds the session broken, tells every waiter and forgets them all.       *)
(*                                                                         *)
(* s.pending maps the request IDs in use to channels of capacity Cap; here  *)
(* an ID is the request.  s.pending is a sync.Map: each call on it is       *)
(* atomic, and so is taken its replacement by cleanup, which in the code is *)
(* an unprotected assignment.  Stream start and chunk messages are "data",  *)
(* http_response and stream_end are "end"; payloads are left out.           *)
(***************************************************************************)
EXTENDS Integers, Sequences, FiniteSets

CONSTANTS
  Requests,   \* request goroutines, each with a message ID of its own
  Streaming,  \* those that run Stream; the others run NonStream
  Cap,        \* capacity of a request's channel (8 in the code)
  MaxData     \* per request: bound on the data messages the peer sends

ASSUME SessionAssumption == Streaming \subseteq Requests /\ Cap \in Nat \ {0} /\ MaxData \in [Requests -> Nat]

VARIABLES
  closed,    \* s.closed is closed
  cleanup,   \* "no", "range", "reset" or "done"
  todo,      \* keys in s.pending when Range began
  visited,   \* keys Range has passed
  held,      \* the entry Range has loaded and not yet told, as a set
  pending,   \* keys of s.pending
  ch,        \* per request: what its channel holds, and whether it is closed
  reader,    \* Idle, Stopped, or the message dispatch has found a request for
  peer,      \* per request: data messages the peer sent, and whether it finished
  pc,        \* per request: where its goroutine is
  got,       \* per request: data messages it took from the channel
  watching,  \* requests whose watcher goroutine runs
  cancelled, \* requests whose context has ended
  dropped,   \* requests a message was dropped for, the channel being full
  panicked   \* the process died of a panic

vars == <<closed, cleanup, todo, visited, held, pending, ch, reader, peer, pc, got,
          watching, cancelled, dropped, panicked>>
cleaning == <<closed, cleanup, todo, visited, held>>

Kinds == {"data", "end", "error"}
Terminal == {"end", "error"}
Done == {"ok", "failed"}

Idle == [at |-> "idle"]
Stopped == [at |-> "stopped"]
Handling == [at: {"found", "offered"}, for: Requests, kind: Kinds]

Init ==
  /\ closed = FALSE /\ cleanup = "no" /\ todo = {} /\ visited = {} /\ held = {}
  /\ pending = {}
  /\ ch = [r \in Requests |-> [buf |-> <<>>, closed |-> FALSE]]
  /\ reader = Idle
  /\ peer = [r \in Requests |-> [data |-> 0, ended |-> FALSE]]
  /\ pc = [r \in Requests |-> "new"]
  /\ got = [r \in Requests |-> 0]
  /\ watching = {} /\ cancelled = {} /\ dropped = {}
  /\ panicked = FALSE

Goto(r, where) == pc' = [pc EXCEPT ![r] = where]

\* Mutant of Offer: the capacity is not minded.
OfferUnbounded(r, k) == ch' = [ch EXCEPT ![r].buf = Append(@, k)] /\ UNCHANGED dropped

\* select { case ch <- k: default: }, which panics on a closed channel.
Offer(r, k) ==
  IF Len(ch[r].buf) < Cap
  THEN ch' = [ch EXCEPT ![r].buf = Append(@, k)] /\ UNCHANGED dropped
  ELSE dropped' = dropped \cup {r} /\ UNCHANGED ch

Panic == panicked' = TRUE /\ UNCHANGED <<ch, dropped>>

\* LoadAndDelete, and close of what was loaded.
Release(r) ==
  IF r \in pending
  THEN pending' = pending \ {r} /\ ch' = [ch EXCEPT ![r].closed = TRUE]
  ELSE UNCHANGED <<pending, ch>>

------------------------------------------------------------------------------
(* session.request, and the loops of NonStream and Stream.                  *)

\* pending.LoadOrStore: the ID is fresh.
Store(r) ==
  /\ pc[r] = "new" /\ Goto(r, "stored")
  /\ pending' = pending \cup {r}
  /\ UNCHANGED <<cleaning, ch, reader, peer, got, watching, cancelled, dropped, panicked>>

\* pending.Load, whose result is asserted to be a request: of a map replaced
\* in between it is nil, and the assertion panics.
Load(r) ==
  /\ pc[r] = "stored" /\ Goto(r, "loaded")
  /\ panicked' = (r \notin pending)
  /\ UNCHANGED <<cleaning, pending, ch, reader, peer, got, watching, cancelled, dropped>>

\* Mutant of SendCheck: it does not look.
SendUnchecked(r) ==
  /\ pc[r] = "loaded" /\ Goto(r, "writing")
  /\ UNCHANGED <<cleaning, pending, ch, reader, peer, got, watching, cancelled, dropped, panicked>>

\* send looks at s.closed ...
SendCheck(r) ==
  /\ pc[r] = "loaded"
  /\ Goto(r, IF closed THEN "unsent" ELSE "writing")
  /\ UNCHANGED <<cleaning, pending, ch, reader, peer, got, watching, cancelled, dropped, panicked>>

\* ... and writes, which fails once the connection is closed or broken.  After a
\* write the request waits, with a watcher at its side.
Write(r) ==
  /\ pc[r] = "writing"
  /\ \/ Goto(r, "unsent") /\ UNCHANGED watching
     \/ cleanup # "done" /\ Goto(r, "waiting") /\ watching' = watching \cup {r}
  /\ UNCHANGED <<cleaning, pending, ch, reader, peer, got, cancelled, dropped, panicked>>

\* A request that could not be sent takes its entry back and returns the error.
Unsent(r) ==
  /\ pc[r] = "unsent" /\ Goto(r, "failed")
  /\ Release(r)
  /\ UNCHANGED <<cleaning, reader, peer, got, watching, cancelled, dropped, panicked>>

\* Mutant of Watch: it leaves the entry behind.
WatchIdle(r) ==
  /\ r \in watching
  /\ r \in cancelled \/ closed
  /\ watching' = watching \ {r}
  /\ UNCHANGED <<cleaning, pending, ch, reader, peer, pc, got, cancelled, dropped, panicked>>

\* The watcher: the context ended, or the session closed and cleanup sees to it.
Watch(r) ==
  /\ r \in watching
  /\ \/ r \in cancelled /\ Release(r)
     \/ closed /\ UNCHANGED <<pending, ch>>
  /\ watching' = watching \ {r}
  /\ UNCHANGED <<cleaning, reader, peer, pc, got, cancelled, dropped, panicked>>

\* The waiter takes the next message of its channel.
Receive(r) ==
  /\ pc[r] = "waiting" /\ ch[r].buf # <<>>
  /\ ch' = [ch EXCEPT ![r].buf = Tail(@)]
  /\ got' = [got EXCEPT ![r] = @ + IF Head(ch[r].buf) = "data" THEN 1 ELSE 0]
  /\ CASE Head(ch[r].buf) = "data"  -> UNCHANGED pc
       [] Head(ch[r].buf) = "end"   -> Goto(r, "ok")
       [] Head(ch[r].buf) = "error" -> Goto(r, "failed")
  /\ UNCHANGED <<cleaning, pending, reader, peer, watching, cancelled, dropped, panicked>>

\* The channel is closed and empty: an error, except that NonStream returns the
\* body collected so far when the answer came as a stream.
ReceiveClosed(r) ==
  /\ pc[r] = "waiting" /\ ch[r].buf = <<>> /\ ch[r].closed
  /\ Goto(r, IF r \notin Streaming /\ got[r] > 0 THEN "ok" ELSE "failed")
  /\ UNCHANGED <<cleaning, pending, ch, reader, peer, got, watching, cancelled, dropped, panicked>>

\* The waiter sees its context end.
GiveUp(r) ==
  /\ pc[r] = "waiting" /\ r \in cancelled /\ Goto(r, "failed")
  /\ UNCHANGED <<cleaning, pending, ch, reader, peer, got, watching, cancelled, dropped, panicked>>

\* The client of the proxy goes away, or its handler returns.
Cancel(r) ==
  /\ pc[r] # "new" /\ r \notin cancelled
  /\ cancelled' = cancelled \cup {r}
  /\ UNCHANGED <<cleaning, pending, ch, reader, peer, pc, got, watching, dropped, panicked>>

------------------------------------------------------------------------------
(* session.run and dispatch.                                                *)

\* The peer sends a message for r and the reader looks its request up; a message
\* nobody waits for is ignored.
Read(r, k) ==
  /\ reader = Idle /\ cleanup # "done"
  /\ pc[r] \in {"waiting"} \cup Done /\ ~peer[r].ended
  /\ k = "data" => peer[r].data < MaxData[r]
  /\ peer' = [peer EXCEPT ![r] = [data |-> @.data + (IF k = "data" THEN 1 ELSE 0), ended |-> k \in Terminal]]
  /\ reader' = IF r \in pending THEN [at |-> "found", for |-> r, kind |-> k] ELSE Idle
  /\ UNCHANGED <<cleaning, pending, ch, pc, got, watching, cancelled, dropped, panicked>>

\* dispatch offers the message to the channel it loaded ...
Deliver ==
  /\ reader.at = "found"
  /\ IF ch[reader.for].closed THEN Panic ELSE Offer(reader.for, reader.kind) /\ UNCHANGED panicked
  /\ reader' = IF reader.kind \in Terminal THEN [reader EXCEPT !.at = "offered"] ELSE Idle
  /\ UNCHANGED <<cleaning, pending, peer, pc, got, watching, cancelled>>

\* ... and after a terminal one releases the request.
Finish ==
  /\ reader.at = "offered"
  /\ Release(reader.for)
  /\ reader' = Idle
  /\ UNCHANGED <<cleaning, peer, pc, got, watching, cancelled, dropped, panicked>>

\* The reader finds the connection closed by cleanup.
ReadFails ==
  /\ reader = Idle /\ cleanup = "done"
  /\ reader' = Stopped
  /\ UNCHANGED <<cleaning, pending, ch, peer, pc, got, watching, cancelled, dropped, panicked>>

------------------------------------------------------------------------------
(* session.cleanup.                                                         *)

\* The reader, the heartbeat or Manager.Stop finds the session over.  A reader
\* that cleans up dispatches nothing any more; the others leave it running.
Close(byReader) ==
  /\ cleanup = "no"
  /\ byReader => reader = Idle
  /\ reader' = IF byReader THEN Stopped ELSE reader
  /\ closed' = TRUE /\ cleanup' = "range"
  /\ todo' = pending
  /\ UNCHANGED <<visited, held, pending, ch, peer, pc, got, watching, cancelled, dropped, panicked>>

\* Range loads an entry; whether it passes entries stored meanwhile is open.
RangeLoad(r) ==
  /\ cleanup = "range" /\ held = {}
  /\ r \in pending \ visited
  /\ held' = {r} /\ visited' = visited \cup {r}
  /\ UNCHANGED <<closed, cleanup, todo, pending, ch, reader, peer, pc, got, watching,
                 cancelled, dropped, panicked>>

\* Mutant of RangeTell: it closes the channel without a word.
RangeClose(r) ==
  /\ r \in held /\ held' = {}
  /\ ch' = [ch EXCEPT ![r].closed = TRUE]
  /\ UNCHANGED <<closed, cleanup, todo, visited, pending, reader, peer, pc, got, watching,
                 cancelled, dropped, panicked>>

\* It offers the error and closes the channel.
RangeTell(r) ==
  /\ r \in held /\ held' = {}
  /\ \/ ch[r].closed /\ Panic
     \/ /\ ~ch[r].closed
        /\ IF Len(ch[r].buf) < Cap
           THEN ch' = [ch EXCEPT ![r] = [buf |-> Append(@.buf, "error"), closed |-> TRUE]] /\ UNCHANGED dropped
           ELSE ch' = [ch EXCEPT ![r].closed = TRUE] /\ dropped' = dropped \cup {r}
        /\ UNCHANGED panicked
  /\ UNCHANGED <<closed, cleanup, todo, visited, pending, reader, peer, pc, got, watching, cancelled>>

RangeEnd ==
  /\ cleanup = "range" /\ held = {}
  /\ todo \cap pending \subseteq visited
  /\ cleanup' = "reset"
  /\ UNCHANGED <<closed, todo, visited, held, pending, ch, reader, peer, pc, got, watching,
                 cancelled, dropped, panicked>>

\* The map is replaced and the connection closed.
Reset ==
  /\ cleanup = "reset" /\ cleanup' = "done"
  /\ pending' = {} /\ todo' = {} /\ visited' = {}
  /\ UNCHANGED <<closed, held, ch, reader, peer, pc, got, watching,
                 cancelled, dropped, panicked>>

Internal(r) ==
  \/ Load(r) \/ SendCheck(r) \/ Write(r) \/ Unsent(r)
  \/ Receive(r) \/ ReceiveClosed(r) \/ GiveUp(r)

Clean == (\E r \in Requests : RangeLoad(r) \/ RangeTell(r)) \/ RangeEnd \/ Reset

Dispatch == Deliver \/ Finish \/ ReadFails

Next ==
  /\ ~panicked
  /\ \/ \E r \in Requests : Store(r) \/ Internal(r) \/ Watch(r) \/ Cancel(r) \/ \E k \in Kinds : Read(r, k)
     \/ Dispatch \/ Clean
     \/ \E byReader \in BOOLEAN : Close(byReader)

\* The goroutines run, once a request has begun; the peer may stay silent and the session open for ever.
Fairness ==
  /\ \A r \in Requests : WF_vars(~panicked /\ Internal(r)) /\ WF_vars(~panicked /\ Watch(r))
  /\ WF_vars(~panicked /\ Dispatch) /\ WF_vars(~panicked /\ Clean)

Spec == Init /\ [][Next]_vars /\ Fairness

------------------------------------------------------------------------------
(* Properties.                                                              *)

TypeOK ==
  /\ closed \in BOOLEAN /\ panicked \in BOOLEAN
  /\ cleanup \in {"no", "range", "reset", "done"}
  /\ {todo, visited, held, pending, watching, cancelled, dropped} \subseteq SUBSET Requests
  /\ ch \in [Requests -> [buf: Seq(Kinds), closed: BOOLEAN]]
  /\ \A r \in Requests : Len(ch[r].buf) <= Cap
  /\ reader \in Handling \cup {Idle, Stopped}
  /\ peer \in [Requests -> [data: Nat, ended: BOOLEAN]]
  /\ got \in [Requests -> Nat]
  /\ \A r \in Requests : got[r] <= peer[r].data /\ peer[r].data <= MaxData[r]
  /\ pc \in [Requests -> {"new", "stored", "loaded", "writing", "waiting", "unsent"} \cup Done]

Complete(r) == peer[r].ended /\ got[r] = peer[r].data

\* A request whose context lives and whose channel never overflowed is answered
\* successfully only with everything the peer sent, terminal message included,
\* whatever cleanup, watchers and other requests do meanwhile.
OkIsComplete ==
  \A r \in Requests : pc[r] = "ok" /\ r \notin dropped \cup cancelled => Complete(r)

\* When a session closes, every request that uses it returns: whether it is
\* about to be stored, sent or awaited, cleanup or send tells it.
ClosedSettles ==
  \A r \in Requests : (closed /\ pc[r] # "new") ~> (pc[r] \in Done \/ panicked)

\* A request whose context ended does not stay in s.pending.
NothingLeaks ==
  \A r \in Requests : r \in cancelled ~> (r \notin pending \/ panicked)
=============================================================================
