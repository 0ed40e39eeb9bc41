------------------------------ MODULE RefreshLoop ------------------------------
(***************************************************************************)
(* The refresh of credentials ahead of their expiry,                        *)
(* sdk/cliproxy/auth/auto_refresh_loop.go and refreshAuth of the Manager.   *)
(* One goroutine keeps the time of each credential's next check in a heap,  *)
(* sleeps until the earliest, marks what is due and hands it to workers;    *)
(* whoever changes a record then marks it dirty and wakes the goroutine,    *)
(* which computes the time again.                                           *)
(*                                                                         *)
(* Of a credential only what the schedule depends on is kept: whether it is *)
(* ever refreshed, when (expiry less lead, or last refresh plus interval),  *)
(* and NextRefreshAfter.  The file watcher's updates come from one          *)
(* goroutine, the Applier.  Restarts of the loop are left out.              *)
(***************************************************************************)
EXTENDS Integers, Sequences, FiniteSets

CONSTANTS
  Creds, Workers, Loop, Applier,
  Watched,     \* credentials the Applier may update
  None,        \* no credential, no record, no time
  JobCap,      \* capacity of the jobs channel (at least 64 in the code)
  Interval,    \* interval of the loop
  Pending,     \* refreshPendingBackoff
  Failure,     \* refreshFailureBackoff
  Ineffective, \* refreshIneffectiveBackoff
  Life,        \* time from a refresh to the next one due
  MaxTime,     \* bound on the clock
  MaxUpdates   \* bound on the Applier's updates

Actors == Workers \cup {Loop, Applier}

\* "key": API keys and providers without a refresh lead; "token": the others.
Records == [kind: {"key", "token"}, due: Nat, next: Nat]

ASSUME RefreshAssumption ==
  /\ Watched \subseteq Creds /\ Loop # Applier /\ {Loop, Applier} \cap Workers = {}
  /\ {JobCap, Interval, Pending, Failure, Ineffective, Life, MaxTime} \subseteq Nat \ {0}
  /\ MaxUpdates \in Nat /\ None \notin Creds \cup Nat \cup Records

VARIABLES
  now,     \* the clock
  auths,   \* m.auths
  served,  \* credentials whose provider has an executor (it does not change)
  index,   \* per credential: time of its heap item, or None
  timer,   \* when the loop's timer fires, or None
  wake,    \* wakeCh holds a token
  dirty,   \* l.dirty
  jobs,    \* l.jobs
  pc,      \* per actor: the next step
  cred,    \* per actor: the credential it works on
  todo,    \* credentials the loop has popped or drained and not yet seen to
  at,      \* the time the loop took when it woke, None while it sleeps
  clone,   \* per worker: the record it has cloned
  kept,    \* the NextRefreshAfter the Applier has read
  updates, \* the Applier's updates so far
  touched, \* history: refreshes in flight whose mark lapsed or was overwritten
  hot      \* history: credentials marked at the time of the loop's pass, or now

vars == <<now, served, auths, index, timer, wake, dirty, jobs, pc, cred, todo, at, clone, kept, updates, touched, hot>>
history == <<touched, hot>>

Goto(a, where) == pc' = [pc EXCEPT ![a] = where]
Latest(s, t) == IF s > t THEN s ELSE t

\* nextRefreshCheckAt
NextCheck(a, t) ==
  IF a = None THEN None
  ELSE IF a.kind = "key" THEN None
  ELSE IF a.next > t THEN a.next
  ELSE Latest(t, a.due)

\* shouldRefresh, of a credential that is scheduled
ShouldRefresh(a, t) == a.next <= t /\ a.due <= t

Init ==
  /\ now = 1 /\ at = 1
  /\ auths \in [Creds -> {None} \cup [kind: {"token"}, due: {1}, next: {0}]]
  /\ served \in SUBSET Creds
  /\ index = [c \in Creds |-> None] /\ timer = None /\ todo = {}
  /\ wake = FALSE /\ dirty = {} /\ jobs = <<>>
  /\ pc = [a \in Actors |-> IF a = Loop THEN "rebuild" ELSE "idle"]
  /\ cred = [a \in Actors |-> None] /\ clone = [w \in Workers |-> None] /\ kept = 0
  /\ updates = 0 /\ touched = {} /\ hot = {}

\* A refresh of c is marked and not yet over.
InFlight(c) ==
  \/ \E n \in DOMAIN jobs : jobs[n] = c
  \/ \E w \in Workers : pc[w] = "refresh" /\ cred[w] = c
  \/ pc[Loop] = "push" /\ cred[Loop] = c

Lapsed(c, t) == auths[c] # None /\ auths[c].next <= t

Tick ==
  /\ now < MaxTime /\ now' = now + 1
  /\ touched' = touched \cup {c \in Creds : InFlight(c) /\ Lapsed(c, now + 1)}
  /\ hot' = IF at = None THEN {} ELSE hot
  /\ UNCHANGED <<served, auths, index, timer, wake, dirty, jobs, pc, cred, todo, at, clone, kept, updates>>

------------------------------------------------------------------------------
(* queueReschedule, after a change of the record of cred[a].                *)

Release(a) == cred' = [cred EXCEPT ![a] = None]

QueueDirty(a) ==
  /\ pc[a] = "queue" /\ Goto(a, "wake")
  /\ dirty' = dirty \cup {cred[a]}
  /\ UNCHANGED <<now, served, auths, index, timer, wake, jobs, cred, todo, at, clone, kept, updates, history>>

QueueWake(a) ==
  /\ pc[a] = "wake" /\ Goto(a, "idle") /\ Release(a)
  /\ wake' = TRUE
  /\ UNCHANGED <<now, served, auths, index, timer, dirty, jobs, todo, at, clone, kept, updates, history>>

------------------------------------------------------------------------------
(* The loop.  Only it reads and writes the heap once it runs.               *)

\* resetTimer, for the heap h, and back to the select.
ResetTimer(h) ==
  LET times == {h[c] : c \in Creds} \ {None}
  IN  /\ timer' = IF times = {} THEN None ELSE CHOOSE t \in times : \A u \in times : t <= u
      /\ Goto(Loop, "select") /\ at' = None
      /\ hot' = IF at < now THEN {} ELSE hot

\* rebuild computes every time under m.mu.
Rebuild ==
  /\ pc[Loop] = "rebuild"
  /\ index' = [c \in Creds |-> NextCheck(auths[c], at)]
  /\ ResetTimer(index')
  /\ UNCHANGED <<now, served, auths, wake, dirty, jobs, cred, todo, clone, kept, updates, touched>>

TakeWake ==
  /\ pc[Loop] = "select" /\ wake /\ Goto(Loop, "drain")
  /\ wake' = FALSE /\ at' = now
  /\ UNCHANGED <<now, served, auths, index, timer, dirty, jobs, cred, todo, clone, kept, updates, history>>

\* The timer fires: popDue.
TakeTimer ==
  /\ pc[Loop] = "select" /\ timer # None /\ timer <= now /\ Goto(Loop, "due")
  /\ at' = now
  /\ todo' = {c \in Creds : index[c] # None /\ index[c] <= now}
  /\ index' = [c \in Creds |-> IF c \in todo' THEN None ELSE index[c]]
  /\ UNCHANGED <<now, served, auths, timer, wake, dirty, jobs, cred, clone, kept, updates, history>>

\* handleDueAuth reads the record: it is checked again later, or goes to be marked.
CheckDue(c) ==
  /\ pc[Loop] = "due" /\ c \in todo
  /\ todo' = todo \ {c}
  /\ IF NextCheck(auths[c], at) # None /\ ShouldRefresh(auths[c], at) /\ c \in served
     THEN Goto(Loop, "mark") /\ cred' = [cred EXCEPT ![Loop] = c] /\ UNCHANGED index
     ELSE /\ index' = [index EXCEPT ![c] =
               IF NextCheck(auths[c], at) # None /\ ShouldRefresh(auths[c], at)
               THEN at + Interval ELSE NextCheck(auths[c], at)]
          /\ UNCHANGED <<pc, cred>>
  /\ UNCHANGED <<now, served, auths, timer, wake, dirty, jobs, at, clone, kept, updates, history>>

\* markRefreshPending: the record is looked at again under the lock, and held
\* back.  The report is read by this goroutine only: it is taken with the mark.
MarkFor(backoff) ==
  /\ pc[Loop] = "mark"
  /\ LET c == cred[Loop]
     IN  IF auths[c].next > at
         THEN /\ index' = [index EXCEPT ![c] = NextCheck(auths[c], at)]
              /\ Goto(Loop, "due") /\ Release(Loop)
              /\ UNCHANGED <<auths, wake, dirty, history>>
         ELSE /\ auths' = [auths EXCEPT ![c].next = at + backoff]
              /\ dirty' = dirty \cup {c} /\ wake' = TRUE
              /\ Goto(Loop, "push")
              /\ hot' = hot \cup {c}
              /\ touched' = IF at + Pending <= now THEN touched \cup {c}
                            ELSE IF InFlight(c) THEN touched ELSE touched \ {c}
              /\ UNCHANGED <<index, cred>>
  /\ UNCHANGED <<now, served, timer, jobs, todo, at, clone, kept, updates>>

\* Mutant of Mark: the mark does not hold the credential back.
MarkLightly == MarkFor(0)

Mark == MarkFor(Pending)

\* Mutant of Push: the channel takes any number of jobs.
PushAnyway ==
  /\ pc[Loop] = "push" /\ Goto(Loop, "due") /\ Release(Loop)
  /\ jobs' = Append(jobs, cred[Loop])
  /\ UNCHANGED <<now, served, auths, index, timer, wake, dirty, todo, at, clone, kept, updates, history>>

\* The loop waits when the channel is full.
Push ==
  /\ pc[Loop] = "push" /\ Len(jobs) < JobCap /\ Goto(Loop, "due") /\ Release(Loop)
  /\ jobs' = Append(jobs, cred[Loop])
  /\ UNCHANGED <<now, served, auths, index, timer, wake, dirty, todo, at, clone, kept, updates, history>>

\* drainDirty, after a wake-up or when nothing due is left.
Drain ==
  /\ pc[Loop] = "drain" \/ (pc[Loop] = "due" /\ todo = {})
  /\ Goto(Loop, "apply")
  /\ todo' = dirty /\ dirty' = {}
  /\ UNCHANGED <<now, served, auths, index, timer, wake, jobs, cred, at, clone, kept, updates, history>>

\* Mutant of ApplyDirty: only credentials already in the heap are moved.
ApplyKnown(c) ==
  /\ pc[Loop] = "apply" /\ c \in todo
  /\ todo' = todo \ {c}
  /\ index' = [index EXCEPT ![c] = IF @ = None THEN None ELSE NextCheck(auths[c], at)]
  /\ UNCHANGED <<now, served, auths, timer, wake, dirty, jobs, pc, cred, at, clone, kept, updates, history>>

\* applyDirty
ApplyDirty(c) ==
  /\ pc[Loop] = "apply" /\ c \in todo
  /\ todo' = todo \ {c}
  /\ index' = [index EXCEPT ![c] = NextCheck(auths[c], at)]
  /\ UNCHANGED <<now, served, auths, timer, wake, dirty, jobs, pc, cred, at, clone, kept, updates, history>>

DirtyDone ==
  /\ pc[Loop] = "apply" /\ todo = {}
  /\ ResetTimer(index)
  /\ UNCHANGED <<now, served, auths, index, wake, dirty, jobs, cred, todo, clone, kept, updates, touched>>

LoopStep ==
  \/ Rebuild \/ TakeWake \/ TakeTimer \/ Mark \/ Push \/ Drain \/ DirtyDone
  \/ \E c \in Creds : CheckDue(c) \/ ApplyDirty(c)

------------------------------------------------------------------------------
(* The workers: refreshAuth, and the reschedule that follows it, which is   *)
(* taken together with the one Update and the failure branch make.          *)

Take(w) ==
  /\ pc[w] = "idle" /\ jobs # <<>> /\ Goto(w, "refresh")
  /\ jobs' = Tail(jobs)
  /\ cred' = [cred EXCEPT ![w] = Head(jobs)]
  /\ clone' = [clone EXCEPT ![w] = [auths[Head(jobs)] EXCEPT !.next = 0]]
  /\ UNCHANGED <<now, served, auths, index, timer, wake, dirty, todo, at, kept, updates, history>>

Answered(w) == pc[w] = "refresh" /\ Goto(w, "queue")

Cancelled(w) ==
  /\ Answered(w)
  /\ clone' = [clone EXCEPT ![w] = None]
  /\ UNCHANGED <<now, served, auths, index, timer, wake, dirty, jobs, cred, todo, at, kept, updates, history>>

Failed(w) ==
  /\ Answered(w)
  /\ auths' = [auths EXCEPT ![cred[w]].next = now + Failure]
  /\ clone' = [clone EXCEPT ![w] = None]
  /\ UNCHANGED <<now, served, index, timer, wake, dirty, jobs, cred, todo, at, kept, updates, history>>

\* Mutant of Refreshed: no backoff when the new record is due at once.
RefreshedHot(w, due) ==
  /\ Answered(w)
  /\ auths' = [auths EXCEPT ![cred[w]] = [kind |-> clone[w].kind, due |-> due, next |-> 0]]
  /\ clone' = [clone EXCEPT ![w] = None]
  /\ UNCHANGED <<now, served, index, timer, wake, dirty, jobs, cred, todo, at, kept, updates, history>>

\* The refreshed clone replaces the record; one that is due at once is held back.
Refreshed(w, due) ==
  /\ Answered(w)
  /\ auths' = [auths EXCEPT ![cred[w]] =
       [kind |-> clone[w].kind, due |-> due,
        next |-> IF clone[w].kind = "token" /\ due <= now THEN now + Ineffective ELSE 0]]
  /\ clone' = [clone EXCEPT ![w] = None]
  /\ UNCHANGED <<now, served, index, timer, wake, dirty, jobs, cred, todo, at, kept, updates, history>>

Work(w) ==
  \/ Take(w) \/ Cancelled(w) \/ Failed(w)
  \/ pc[w] = "refresh" /\ \E due \in {clone[w].due, now + Life} : Refreshed(w, due)
  \/ QueueDirty(w) \/ QueueWake(w)

------------------------------------------------------------------------------
(* applyCoreAuthAddOrUpdate takes NextRefreshAfter over from the record it  *)
(* has read, unless that or the new one is disabled, and Update replaces    *)
(* the record.                                                              *)

ReadExisting(c) ==
  /\ pc[Applier] = "idle" /\ updates < MaxUpdates /\ Goto(Applier, "write")
  /\ updates' = updates + 1
  /\ cred' = [cred EXCEPT ![Applier] = c]
  /\ kept' \in {0} \cup IF auths[c] = None THEN {} ELSE {auths[c].next}
  /\ UNCHANGED <<now, served, auths, index, timer, wake, dirty, jobs, todo, at, clone, history>>

\* Mutant of WriteUpdate: the loop is not told.
WriteQuietly(kind, due) ==
  /\ pc[Applier] = "write" /\ Goto(Applier, "idle") /\ Release(Applier)
  /\ LET c == cred[Applier]
     IN  /\ auths' = [auths EXCEPT ![c] = [kind |-> kind, due |-> due, next |-> kept]]
         /\ touched' = IF InFlight(c) THEN touched \cup {c} ELSE touched
         /\ hot' = hot \ {c}
  /\ kept' = 0
  /\ UNCHANGED <<now, served, index, timer, wake, dirty, jobs, todo, at, clone, updates>>

WriteUpdate(kind, due) ==
  /\ pc[Applier] = "write" /\ Goto(Applier, "queue")
  /\ LET c == cred[Applier]
     IN  /\ auths' = [auths EXCEPT ![c] = [kind |-> kind, due |-> due, next |-> kept]]
         /\ touched' = IF InFlight(c) THEN touched \cup {c} ELSE touched
         /\ hot' = hot \ {c}
  /\ kept' = 0
  /\ UNCHANGED <<now, served, index, timer, wake, dirty, jobs, cred, todo, at, clone, updates>>

Apply ==
  \/ WriteUpdate("key", 0)
  \/ \E due \in {now, now + Life} : WriteUpdate("token", due)
  \/ QueueDirty(Applier) \/ QueueWake(Applier)

Next ==
  \/ Tick \/ LoopStep \/ (\E w \in Workers : Work(w))
  \/ (\E c \in Watched : ReadExisting(c)) \/ Apply

\* The goroutines run and executors answer; updates need not come, nor time pass.
Fairness ==
  /\ WF_vars(LoopStep) /\ WF_vars(Apply)
  /\ \A w \in Workers : WF_vars(Work(w))

Spec == Init /\ [][Next]_vars /\ Fairness

------------------------------------------------------------------------------
(* Properties.                                                              *)

TypeOK ==
  /\ now \in 1..MaxTime /\ served \subseteq Creds /\ at \in 1..now \cup {None} /\ updates \in 0..MaxUpdates
  /\ auths \in [Creds -> Records \cup {None}] /\ clone \in [Workers -> Records \cup {None}]
  /\ kept \in Nat
  /\ index \in [Creds -> Nat \cup {None}] /\ timer \in Nat \cup {None}
  /\ wake \in BOOLEAN /\ dirty \subseteq Creds /\ todo \subseteq Creds
  /\ jobs \in Seq(Creds) /\ Len(jobs) <= JobCap
  /\ pc \in [Actors -> {"idle", "rebuild", "select", "due", "mark", "push", "drain",
                        "apply", "queue", "wake", "refresh", "write"}]
  /\ cred \in [Actors -> Creds \cup {None}]
  /\ touched \subseteq Creds /\ hot \subseteq Creds

\* The change of c's record has not yet reached the loop.
Reported(c) == c \in dirty \/ \E a \in Actors : pc[a] = "queue" /\ cred[a] = c

\* Whenever the loop goes to sleep it will wake in time: a credential that is to
\* be refreshed is in the heap no later than its next check, or its change is
\* reported; a report comes with a wake-up; the timer is set to the earliest.
NothingForgotten ==
  pc[Loop] = "select" =>
    /\ \A c \in Creds :
         NextCheck(auths[c], now) # None /\ ~Reported(c) =>
           /\ index[c] # None
           /\ index[c] <= IF c \notin served THEN Latest(now + Interval, auths[c].due)
                          ELSE NextCheck(auths[c], now)
    /\ \A c \in Creds : index[c] # None => timer # None /\ timer <= index[c]
    /\ dirty # {} => wake \/ \E a \in Actors : pc[a] = "wake"

\* A credential is refreshed by one worker at a time, as providers that rotate
\* refresh tokens need it, unless its mark lapsed or an update overwrote it
\* during the refresh.
RefreshedOnce ==
  \A c \in Creds \ touched :
    /\ \A v, w \in Workers : pc[v] = "refresh" /\ pc[w] = "refresh" /\ cred[v] = c /\ cred[w] = c => v = w
    /\ \A n \in DOMAIN jobs : jobs[n] = c =>
         /\ \A w \in Workers : ~(pc[w] = "refresh" /\ cred[w] = c)
         /\ \A m \in DOMAIN jobs : jobs[m] = c => m = n

\* The comment on refreshIneffectiveBackoff: without a backoff "the refresh loop
\* can become a tight loop".  A credential is not marked twice at one time,
\* whatever its refresh returned, unless it was updated from outside.
Throttled ==
  [][pc[Loop] = "mark" /\ pc'[Loop] = "push" => cred[Loop] \notin hot]_vars

\* A credential that is due, and not held back, is taken up by a worker, unless
\* an update makes that needless: no wake-up is lost, and no full channel or
\* other credential keeps it waiting for ever.
Expired(c) == auths[c] # None /\ auths[c].kind = "token" /\ auths[c].due <= now
DueIsRefreshed ==
  \A c \in Creds :
    (c \in served /\ Expired(c) /\ ShouldRefresh(auths[c], now))
      ~> (~Expired(c) \/ \E w \in Workers : pc[w] = "refresh" /\ cred[w] = c)
=============================================================================
