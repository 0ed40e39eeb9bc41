-------------------------- MODULE RefreshLoop_proofs --------------------------
(***************************************************************************)
(* The refresh loop's safety, for any credentials, workers, intervals and      *)
(* capacity of the job channel.  A credential that is to be refreshed is in    *)
(* the heap unless somebody is on the way to put it there (Heaped); one in     *)
(* flight is in one place, and its mark is not over (Once); one marked in this  *)
(* pass of the loop is not due in it again (Cool).                            *)
(***************************************************************************)
EXTENDS RefreshLoop, TLAPS, WellFoundedInduction, NaturalsInduction

Clock == now \in 1..MaxTime /\ (at \in 1..now \/ at = None) /\ updates \in 0..MaxUpdates
Known == /\ auths \in [Creds -> Records \cup {None}] /\ clone \in [Workers -> Records \cup {None}]
         /\ kept \in Nat /\ served \subseteq Creds
Heap == index \in [Creds -> Nat \cup {None}] /\ timer \in Nat \cup {None}
Sets == dirty \subseteq Creds /\ todo \subseteq Creds /\ touched \subseteq Creds /\ hot \subseteq Creds
Jobs == jobs \in Seq(Creds) /\ Len(jobs) <= JobCap

\* Where each actor can be, and what it works on.
Roles ==
  /\ pc \in [Actors -> {"idle", "rebuild", "select", "due", "mark", "push", "drain",
                        "apply", "queue", "wake", "refresh", "write"}]
  /\ cred \in [Actors -> Creds \cup {None}]
  /\ pc[Loop] \in {"rebuild", "select", "due", "mark", "push", "drain", "apply"}
  /\ \A w \in Workers : pc[w] \in {"idle", "refresh", "queue", "wake"}
  /\ pc[Applier] \in {"idle", "write", "queue", "wake"}
  /\ \A a \in Actors : pc[a] \in {"mark", "push", "refresh", "queue", "wake", "write"} => cred[a] \in Creds
  /\ at = None <=> pc[Loop] = "select"

\* What is marked, queued or refreshed has a record and an executor.
Servable(c) == c \in served /\ auths[c] # None
Serves ==
  /\ pc[Loop] \in {"mark", "push"} => Servable(cred[Loop])
  /\ \A w \in Workers : pc[w] = "refresh" => Servable(cred[w]) /\ clone[w] \in Records
  /\ \A n \in DOMAIN jobs : Servable(jobs[n])

\* Nothing holds back what is never refreshed.
Unheld ==
  /\ \A c \in Creds \ served : auths[c] # None => auths[c].next = 0
  /\ pc[Applier] = "write" /\ cred[Applier] \notin served => kept = 0

\* One place at a time, for as long as the mark holds.
Once == \A c \in Creds \ touched :
  /\ InFlight(c) => auths[c].next > now
  /\ \A v, w \in Workers : pc[v] = "refresh" /\ pc[w] = "refresh" /\ cred[v] = c /\ cred[w] = c => v = w
  /\ \A n \in DOMAIN jobs : jobs[n] = c =>
       /\ \A w \in Workers : ~(pc[w] = "refresh" /\ cred[w] = c)
       /\ \A m \in DOMAIN jobs : jobs[m] = c => m = n
  /\ pc[Loop] = "push" /\ cred[Loop] = c =>
       /\ \A w \in Workers : ~(pc[w] = "refresh" /\ cred[w] = c)
       /\ \A n \in DOMAIN jobs : jobs[n] # c

\* The time the loop goes by.
Pass == IF at = None THEN now ELSE at

Cool ==
  /\ \A c \in hot : auths[c] # None /\ (auths[c].kind = "key" \/ auths[c].next > Pass \/ auths[c].due > Pass)
  /\ pc[Loop] = "mark" => cred[Loop] \notin hot

\* Somebody will put c into the heap, if it belongs there.
Covered(c) ==
  \/ pc[Loop] = "rebuild" \/ Reported(c)
  \/ pc[Loop] \in {"due", "mark", "push", "apply"} /\ c \in todo
  \/ pc[Loop] = "mark" /\ cred[Loop] = c

Limit(c, t) == IF c \notin served THEN Latest(t + Interval, auths[c].due) ELSE NextCheck(auths[c], t)
InHeap(c, t) == NextCheck(auths[c], t) # None => index[c] # None /\ index[c] <= Limit(c, t)
Heaped == \A c \in Creds : Covered(c) \/ InHeap(c, now)

Timed == pc[Loop] = "select" => \A c \in Creds : index[c] # None => timer # None /\ timer <= index[c]
Awake == /\ pc[Loop] # "drain" /\ dirty # {} => wake \/ \E a \in Actors : pc[a] = "wake"
         /\ wake \in BOOLEAN

IInv == Clock /\ Known /\ Heap /\ Sets /\ Jobs /\ Roles /\ Serves /\ Unheld /\ Once /\ Cool /\ Heaped /\ Timed /\ Awake
------------------------------------------------------------------------------
\* The constants, as the provers want them.
LEMMA Constants ==
  /\ JobCap \in Nat \ {0} /\ Interval \in Nat \ {0} /\ Pending \in Nat \ {0} /\ Failure \in Nat \ {0}
  /\ Ineffective \in Nat \ {0} /\ Life \in Nat \ {0} /\ MaxTime \in Nat \ {0} /\ MaxUpdates \in Nat
  /\ None \notin Creds /\ None \notin Nat /\ None \notin Records
  /\ Loop \in Actors /\ Applier \in Actors /\ Loop # Applier
  /\ \A w \in Workers : w \in Actors /\ w # Loop /\ w # Applier
  BY RefreshAssumption DEF Actors

\* A set of times has an earliest one.
LEMMA Earliest ==
  ASSUME NEW T \in SUBSET Nat, T # {}
  PROVE  \E t \in T : \A u \in T : t <= u
<1>1. \E t \in T : \A u \in T : ~(<<u, t>> \in OpToRel(<, Nat))
  BY NatLessThanWellFounded, WFMin
<1>2. \A u, t \in Nat : ~(<<u, t>> \in OpToRel(<, Nat)) => t <= u
  BY DEF OpToRel
<1> QED
  BY <1>1, <1>2

\* Checks computed later are not earlier.
LEMMA Later ==
  ASSUME NEW a \in Records, NEW s \in Nat, NEW t \in Nat, s <= t
  PROVE  /\ NextCheck(a, s) = None <=> NextCheck(a, t) = None
         /\ NextCheck(a, s) \in Nat \cup {None}
         /\ NextCheck(a, s) # None => /\ NextCheck(a, s) <= NextCheck(a, t)
                                      /\ a.next = 0 => NextCheck(a, s) <= Latest(t + Interval, a.due)
<1>1. /\ a.kind \in {"key", "token"} /\ a.due \in Nat /\ a.next \in Nat /\ a # None /\ None \notin Nat
  BY Constants DEF Records
<1> QED
  BY <1>1, Constants DEF NextCheck, Latest

\* A credential that is none is never to be checked.
LEMMA CheckOfNone == \A t : NextCheck(None, t) = None
  BY DEF NextCheck


\* The loop begins with a heap to build and nothing in flight.
LEMMA InitIInv == Init => IInv
<1> SUFFICES ASSUME Init PROVE IInv
  OBVIOUS
<1> USE Constants
<1>1. Clock /\ Heap /\ Sets
  BY DEF Init, Clock, Heap, Sets
<1>2. Known
  BY DEF Init, Known, Records
<1>3. Jobs
  BY DEF Init, Jobs
<1>4. Roles
  BY DEF Init, Roles, Actors
<1>5. Serves /\ Timed /\ Awake
  <2>1. pc[Loop] = "rebuild" /\ \A w \in Workers : pc[w] = "idle"
    BY DEF Init
  <2>2. Serves
    BY <2>1 DEF Init, Serves
  <2>3. Timed
    BY <2>1 DEF Timed
  <2>4. Awake
    BY Zenon DEF Init, Awake
  <2> QED
    BY <2>2, <2>3, <2>4
<1>6. Unheld
  BY DEF Init, Unheld
<1>7. Once
  BY <1>4 DEF Init, Once, InFlight, Roles
<1>8. Cool /\ Heaped
  BY DEF Init, Cool, Heaped, Covered
<1> QED
  BY <1>1, <1>2, <1>3, <1>4, <1>5, <1>6, <1>7, <1>8 DEF IInv

\* A step that moves no credential in flight, in time or in the record, keeps Once.
LEMMA OnceKept ==
  ASSUME IInv, UNCHANGED <<now, auths, jobs>>, touched \subseteq touched',
         \A w \in Workers : pc'[w] = "refresh" => pc[w] = "refresh" /\ cred'[w] = cred[w],
         pc'[Loop] = "push" => pc[Loop] = "push" /\ cred'[Loop] = cred[Loop]
  PROVE  Once'
<1> SUFFICES ASSUME NEW c \in Creds, c \notin touched'
             PROVE  /\ InFlight(c)' => auths'[c].next > now'
                    /\ \A v, w \in Workers : pc'[v] = "refresh" /\ pc'[w] = "refresh" /\ cred'[v] = c /\ cred'[w] = c => v = w
                    /\ \A n \in DOMAIN jobs' : jobs'[n] = c =>
                         /\ \A w \in Workers : ~(pc'[w] = "refresh" /\ cred'[w] = c)
                         /\ \A m \in DOMAIN jobs' : jobs'[m] = c => m = n
                    /\ pc'[Loop] = "push" /\ cred'[Loop] = c =>
                         /\ \A w \in Workers : ~(pc'[w] = "refresh" /\ cred'[w] = c)
                         /\ \A n \in DOMAIN jobs' : jobs'[n] # c
  BY DEF Once
<1>1. InFlight(c)' => InFlight(c)
  BY DEF InFlight
<1>2. c \in Creds \ touched
  OBVIOUS
<1> QED
  BY <1>1, <1>2 DEF IInv, Once

\* A step that leaves the records and the loop's time alone keeps Cool.
LEMMA CoolKept ==
  ASSUME IInv, auths' = auths, Pass' = Pass, hot' \subseteq hot,
         pc'[Loop] = "mark" => pc[Loop] = "mark" /\ cred'[Loop] = cred[Loop]
  PROVE  Cool'
  BY DEF IInv, Cool

\* A step that changes neither records nor heap keeps Heaped as long as it
\* drops nobody who is on the way.
LEMMA HeapedKept ==
  ASSUME IInv, UNCHANGED <<now, auths, served, index>>, \A c \in Creds : Covered(c) => Covered(c)'
  PROVE  Heaped'
  BY DEF IInv, Heaped, InHeap, Limit

------------------------------------------------------------------------------
\* Time passes.
LEMMA TickStep == ASSUME IInv, Tick PROVE IInv'
<1>1. /\ now < MaxTime /\ now' = now + 1 /\ now \in Nat
      /\ touched' = touched \cup {c \in Creds : InFlight(c) /\ Lapsed(c, now + 1)}
      /\ hot' = IF at = None THEN {} ELSE hot
      /\ UNCHANGED <<served, auths, index, timer, wake, dirty, jobs, pc, cred, todo, at, clone, kept, updates>>
  BY Constants DEF Tick, IInv, Clock
<1>2. Clock' /\ Known' /\ Heap' /\ Sets' /\ Jobs' /\ Roles'
  BY <1>1, Constants DEF IInv, Clock, Known, Heap, Sets, Jobs, Roles
<1>3. Serves' /\ Unheld' /\ Timed' /\ Awake'
  BY <1>1 DEF IInv, Serves, Servable, Unheld, Timed, Awake
<1>4. Once'
  <2> SUFFICES ASSUME NEW c \in Creds \ touched', InFlight(c)' PROVE auths'[c].next > now'
    BY <1>1 DEF IInv, Once
  <2>1. InFlight(c) /\ c \notin touched /\ ~Lapsed(c, now + 1)
    BY <1>1 DEF InFlight
  <2>2. auths[c] # None
    BY <2>1 DEF InFlight, IInv, Serves, Servable, Roles
  <2>3. auths[c] \in Records
    BY <2>2 DEF IInv, Known
  <2> QED
    BY <1>1, <2>1, <2>2, <2>3 DEF Lapsed, Records
<1>5. Cool'
  <2>1. CASE at = None
    BY <1>1, <2>1 DEF Cool, IInv, Roles
  <2>2. CASE at # None
    BY <1>1, <2>2, CoolKept DEF Pass
  <2> QED
    BY <2>1, <2>2
<1>6. Heaped'
  <2> SUFFICES ASSUME NEW c \in Creds PROVE Covered(c)' \/ InHeap(c, now)'
    BY DEF Heaped
  <2>1. CASE Covered(c)
    BY <1>1, <2>1 DEF Covered, Reported
  <2>2. CASE auths[c] = None
    BY <1>1, <2>2, CheckOfNone DEF InHeap
  <2>3. CASE InHeap(c, now) /\ auths[c] # None
    <3>1. auths[c] \in Records
      BY <2>3 DEF IInv, Known
    <3>2. /\ NextCheck(auths[c], now) = None <=> NextCheck(auths[c], now + 1) = None
          /\ NextCheck(auths[c], now) \in Nat \cup {None} /\ NextCheck(auths[c], now + 1) \in Nat \cup {None}
          /\ NextCheck(auths[c], now) # None => NextCheck(auths[c], now) <= NextCheck(auths[c], now + 1)
      BY <1>1, <3>1, Later
    <3>3. Limit(c, now)' = Limit(c, now + 1) /\ index[c] \in Nat \cup {None} /\ auths[c].due \in Nat
      BY <1>1, <3>1 DEF Limit, IInv, Heap, Records
    <3>4. NextCheck(auths[c], now) # None /\ index[c] # None /\ index[c] <= Limit(c, now) => index[c] <= Limit(c, now + 1)
      BY <1>1, <3>2, <3>3, Constants DEF Limit, Latest
    <3> QED
      BY <1>1, <2>3, <3>2, <3>3, <3>4 DEF InHeap
  <2> QED
    BY <2>1, <2>2, <2>3 DEF IInv, Heaped
<1> QED
  BY <1>2, <1>3, <1>4, <1>5, <1>6 DEF IInv


------------------------------------------------------------------------------
(* The loop.                                                                *)

\* The loop goes back to sleep with its timer set to the earliest time.
LEMMA ResetStep ==
  ASSUME IInv, NEW h \in [Creds -> Nat \cup {None}], ResetTimer(h), index' = h, pc[Loop] # "select",
         UNCHANGED <<now, served, auths, wake, dirty, jobs, cred, todo, clone, kept, updates, touched>>,
         \A c \in Creds : Covered(c)' \/ InHeap(c, now)', pc[Loop] # "drain"
  PROVE  IInv'
<1> USE Constants
<1>1. /\ pc' = [pc EXCEPT ![Loop] = "select"] /\ at' = None
      /\ hot' = IF at < now THEN {} ELSE hot
      /\ pc'[Loop] = "select" /\ (\A a \in Actors : a # Loop => pc'[a] = pc[a])
  BY DEF ResetTimer, Goto, IInv, Roles
<1> DEFINE times == {h[c] : c \in Creds} \ {None}
<1>2. /\ times = {} => timer' = None
      /\ times # {} => timer' = CHOOSE t \in times : \A u \in times : t <= u
  BY DEF ResetTimer
<1>3. times # {} => timer' \in times /\ \A u \in times : timer' <= u
  <2>1. times \in SUBSET Nat
    OBVIOUS
  <2>2. times # {} => \E t \in times : \A u \in times : t <= u
    BY <2>1, Earliest
  <2> HIDE DEF times
  <2> QED
    BY <1>2, <2>2
<1>4. Heap'
  BY <1>2, <1>3 DEF Heap
<1>5. Timed'
  <2> SUFFICES ASSUME NEW c \in Creds, h[c] # None PROVE timer' # None /\ timer' <= h[c]
    BY DEF Timed
  <2> QED
    BY <1>3
<1>6. Clock' /\ Known' /\ Sets' /\ Jobs'
  BY <1>1 DEF IInv, Clock, Known, Sets, Jobs
<1>7. Roles'
  BY <1>1 DEF IInv, Roles
<1>8. Serves' /\ Unheld'
  BY <1>1 DEF IInv, Serves, Servable, Unheld, Roles
<1>9. Once'
  BY <1>1, OnceKept
<1>10. Cool'
  <2>1. CASE at < now
    BY <1>1, <2>1 DEF Cool
  <2>2. CASE ~(at < now)
    <3>1. at = now
      BY <2>2 DEF IInv, Clock, Roles
    <3> QED
      BY <1>1, <2>2, <3>1, CoolKept DEF Pass
  <2> QED
    BY <2>1, <2>2
<1>11. Awake'
  <2>1. wake' = wake /\ dirty' = dirty /\ \A a \in Actors : pc[a] = "wake" => pc'[a] = "wake"
    BY <1>1 DEF IInv, Roles
  <2> QED
    BY <2>1 DEF IInv, Awake
<1> QED
  BY <1>4, <1>5, <1>6, <1>7, <1>8, <1>9, <1>10, <1>11 DEF IInv, Heaped

\* A record checked at the loop's time is in the heap early enough.
LEMMA Checked ==
  ASSUME IInv, NEW c \in Creds, at # None
  PROVE  /\ NextCheck(auths[c], at) \in Nat \cup {None}
         /\ NextCheck(auths[c], now) # None =>
              /\ NextCheck(auths[c], at) # None
              /\ NextCheck(auths[c], at) <= Limit(c, now)
<1>1. at \in Nat /\ now \in Nat /\ at <= now
  BY Constants DEF IInv, Clock
<1>2. CASE auths[c] = None
  BY <1>2, CheckOfNone
<1>3. CASE auths[c] # None
  <2>1. auths[c] \in Records
    BY <1>3 DEF IInv, Known
  <2>2. c \notin served => auths[c].next = 0
    BY <1>3 DEF IInv, Unheld
  <2> QED
    BY <1>1, <2>1, <2>2, Later DEF Limit
<1> QED
  BY <1>2, <1>3

\* A rebuild enters every credential under its next check, and sets the timer.
LEMMA RebuildStep == ASSUME IInv, Rebuild PROVE IInv'
<1> USE Constants
<1>1. /\ pc[Loop] = "rebuild" /\ ResetTimer(index') /\ index' = [c \in Creds |-> NextCheck(auths[c], at)]
      /\ UNCHANGED <<now, served, auths, wake, dirty, jobs, cred, todo, clone, kept, updates, touched>>
  BY DEF Rebuild
<1>2. at # None
  BY <1>1 DEF IInv, Roles
<1>3. index' \in [Creds -> Nat \cup {None}]
  BY <1>1, <1>2, Checked
<1>4. \A c \in Creds : InHeap(c, now)'
  BY <1>1, <1>2, Checked DEF InHeap, Limit
<1> QED
  BY <1>1, <1>3, <1>4, ResetStep

\* When no report is left the timer is set by the heap.
LEMMA DirtyDoneStep == ASSUME IInv, DirtyDone PROVE IInv'
<1> USE Constants
<1>1. /\ pc[Loop] = "apply" /\ todo = {} /\ ResetTimer(index) /\ index' = index
      /\ UNCHANGED <<now, served, auths, wake, dirty, jobs, cred, todo, clone, kept, updates, touched>>
  BY DEF DirtyDone
<1>2. pc' = [pc EXCEPT ![Loop] = "select"]
  BY <1>1 DEF ResetTimer, Goto
<1>3. \A c \in Creds : Covered(c) => Covered(c)'
  BY <1>1, <1>2 DEF Covered, Reported, IInv, Roles
<1>4. \A c \in Creds : Covered(c)' \/ InHeap(c, now)'
  BY <1>1, <1>3, HeapedKept DEF Heaped
<1> QED
  BY <1>1, <1>4, ResetStep DEF IInv, Heap

\* A wake-up leads to the reports it was for.
LEMMA TakeWakeStep == ASSUME IInv, TakeWake PROVE IInv'
<1> USE Constants
<1>1. /\ pc[Loop] = "select" /\ pc' = [pc EXCEPT ![Loop] = "drain"] /\ wake' = FALSE /\ at' = now
      /\ UNCHANGED <<now, served, auths, index, timer, dirty, jobs, cred, todo, clone, kept, updates, touched, hot>>
  BY DEF TakeWake, Goto, history
<1>2. Clock' /\ Known' /\ Heap' /\ Sets' /\ Jobs'
  BY <1>1 DEF IInv, Clock, Known, Heap, Sets, Jobs
<1>3. Roles'
  BY <1>1 DEF IInv, Clock, Roles
<1>4. Serves' /\ Unheld' /\ Timed'
  BY <1>1 DEF IInv, Serves, Servable, Unheld, Roles, Timed
<1>5. Once'
  BY <1>1, OnceKept DEF IInv, Roles
<1>6. Cool'
  BY <1>1, CoolKept DEF Pass, IInv, Roles
<1>7. Heaped'
  BY <1>1, HeapedKept DEF Covered, Reported, IInv, Roles
<1>8. Awake'
  BY <1>1 DEF IInv, Roles, Awake
<1> QED
  BY <1>2, <1>3, <1>4, <1>5, <1>6, <1>7, <1>8 DEF IInv

\* The timer leads to what is due.
LEMMA TakeTimerStep == ASSUME IInv, TakeTimer PROVE IInv'
<1> USE Constants
<1>1. /\ pc[Loop] = "select" /\ pc' = [pc EXCEPT ![Loop] = "due"] /\ at' = now
      /\ todo' = {c \in Creds : index[c] # None /\ index[c] <= now}
      /\ index' = [c \in Creds |-> IF c \in todo' THEN None ELSE index[c]]
      /\ UNCHANGED <<now, served, auths, timer, wake, dirty, jobs, cred, clone, kept, updates, touched, hot>>
  BY DEF TakeTimer, Goto, history
<1>2. Clock' /\ Known' /\ Heap' /\ Sets' /\ Jobs'
  BY <1>1 DEF IInv, Clock, Known, Heap, Sets, Jobs
<1>3. Roles'
  BY <1>1 DEF IInv, Clock, Roles
<1>4. Serves' /\ Unheld' /\ Timed'
  BY <1>1 DEF IInv, Serves, Servable, Unheld, Roles, Timed
<1>5. Once'
  BY <1>1, OnceKept DEF IInv, Roles
<1>6. Cool'
  BY <1>1, CoolKept DEF Pass, IInv, Roles
<1>7. Heaped'
  <2> SUFFICES ASSUME NEW c \in Creds PROVE Covered(c)' \/ InHeap(c, now)'
    BY DEF Heaped
  <2>1. Covered(c) \/ c \in todo' => Covered(c)'
    BY <1>1 DEF Covered, Reported, IInv, Roles
  <2>2. c \notin todo' /\ InHeap(c, now) => InHeap(c, now)'
    BY <1>1 DEF InHeap, Limit
  <2> QED
    BY <2>1, <2>2 DEF IInv, Heaped
<1>8. Awake'
  <2>1. wake' = wake /\ dirty' = dirty /\ pc[Loop] # "drain" /\ \A a \in Actors : pc[a] = "wake" => pc'[a] = "wake"
    BY <1>1 DEF IInv, Roles
  <2> QED
    BY <2>1 DEF IInv, Awake
<1> QED
  BY <1>2, <1>3, <1>4, <1>5, <1>6, <1>7, <1>8 DEF IInv


\* What is due is looked at one by one.
LEMMA CheckDueStep == ASSUME IInv, NEW c \in Creds, CheckDue(c) PROVE IInv'
<1> USE Constants
<1> DEFINE due == NextCheck(auths[c], at) # None /\ ShouldRefresh(auths[c], at)
<1>1. /\ pc[Loop] = "due" /\ c \in todo /\ todo' = todo \ {c} /\ at # None
      /\ UNCHANGED <<now, served, auths, timer, wake, dirty, jobs, at, clone, kept, updates, touched, hot>>
  BY DEF CheckDue, history, IInv, Roles
<1>2. NextCheck(auths[c], at) \in Nat \cup {None}
  BY <1>1, Checked
<1>3. Clock' /\ Known' /\ Sets' /\ Jobs'
  BY <1>1 DEF IInv, Clock, Known, Sets, Jobs
<1>4. CASE due /\ c \in served
  <2>1. pc' = [pc EXCEPT ![Loop] = "mark"] /\ cred' = [cred EXCEPT ![Loop] = c] /\ index' = index
    BY <1>4 DEF CheckDue, Goto
  <2>2. auths[c] # None
    BY <1>4, CheckOfNone
  <2>3. auths[c] \in Records /\ at \in Nat
    BY <1>1, <2>2 DEF IInv, Known, Clock
  <2>4. Heap' /\ Roles'
    BY <1>1, <2>1 DEF IInv, Heap, Roles
  <2>5. Serves' /\ Unheld' /\ Timed'
    BY <1>1, <1>4, <2>1, <2>2 DEF IInv, Serves, Servable, Unheld, Roles, Timed
  <2>6. Once'
    BY <1>1, <2>1, OnceKept DEF IInv, Roles
  <2>7. Cool'
    <3>1. Pass = at /\ Pass' = at
      BY <1>1 DEF Pass
    <3>2. auths[c].kind # "key" /\ auths[c].next <= at /\ auths[c].due <= at /\ auths[c].next \in Nat /\ auths[c].due \in Nat
      BY <1>4, <2>2, <2>3 DEF NextCheck, ShouldRefresh, Records
    <3>3. c \notin hot
      BY <2>3, <3>1, <3>2 DEF IInv, Cool
    <3> QED
      BY <1>1, <2>1, <3>1, <3>3 DEF IInv, Cool, Roles
  <2>8. Heaped'
    <3>1. \A d \in Creds : Covered(d) => Covered(d)'
      BY <1>1, <2>1 DEF Covered, Reported, IInv, Roles
    <3> QED
      BY <1>1, <2>1, <3>1, HeapedKept
  <2>9. Awake'
    <3>1. wake' = wake /\ dirty' = dirty /\ pc[Loop] # "drain" /\ \A a \in Actors : pc[a] = "wake" => pc'[a] = "wake"
      BY <1>1, <2>1 DEF IInv, Roles
    <3> QED
      BY <3>1 DEF IInv, Awake
  <2> QED
    BY <1>3, <2>4, <2>5, <2>6, <2>7, <2>8, <2>9 DEF IInv
<1>5. CASE ~(due /\ c \in served)
  <2>1. /\ index' = [index EXCEPT ![c] = IF due THEN at + Interval ELSE NextCheck(auths[c], at)]
        /\ pc' = pc /\ cred' = cred
    BY <1>5 DEF CheckDue
  <2>2. at \in Nat /\ now \in Nat /\ at <= now
    BY <1>1 DEF IInv, Clock
  <2>3. Heap'
    <3>1. (IF due THEN at + Interval ELSE NextCheck(auths[c], at)) \in Nat \cup {None}
      BY <1>2, <2>2
    <3> HIDE DEF due
    <3> QED
      BY <1>1, <2>1, <3>1 DEF IInv, Heap
  <2>4. Roles' /\ Serves' /\ Unheld' /\ Timed'
    BY <1>1, <2>1 DEF IInv, Roles, Serves, Servable, Unheld, Timed
  <2>5. Once'
    BY <1>1, <2>1, OnceKept
  <2>6. Cool'
    BY <1>1, <2>1, CoolKept DEF Pass
  <2>7. Heaped'
    <3> SUFFICES ASSUME NEW d \in Creds PROVE Covered(d)' \/ InHeap(d, now)'
      BY DEF Heaped
    <3>1. CASE d # c
      <4>1. Covered(d) => Covered(d)'
        BY <1>1, <2>1, <3>1 DEF Covered, Reported
      <4>2. InHeap(d, now) => InHeap(d, now)'
        BY <1>1, <2>1, <3>1 DEF InHeap, Limit
      <4> QED
        BY <4>1, <4>2 DEF IInv, Heaped
    <3>2. CASE d = c /\ due
      <4>1. index'[c] = at + Interval /\ c \notin served
        BY <1>5, <2>1, <3>2 DEF IInv, Heap
      <4>2. auths[c] # None
        BY <3>2, CheckOfNone
      <4>3. auths[c].due \in Nat
        BY <4>2 DEF IInv, Known, Records
      <4>4. at + Interval <= Latest(now + Interval, auths[c].due) /\ at + Interval # None
        BY <2>2, <4>3 DEF Latest
      <4>5. InHeap(c, now)'
        BY <1>1, <4>1, <4>4 DEF InHeap, Limit
      <4> QED
        BY <3>2, <4>5
    <3>3. CASE d = c /\ ~due
      <4>1. index'[c] = NextCheck(auths[c], at)
        BY <2>1, <3>3 DEF IInv, Heap
      <4>2. InHeap(c, now)'
        BY <1>1, <4>1, Checked DEF InHeap, Limit
      <4> QED
        BY <3>3, <4>2
    <3> QED
      BY <3>1, <3>2, <3>3
  <2>8. Awake'
    BY <1>1, <2>1 DEF IInv, Awake
  <2> QED
    BY <1>3, <2>3, <2>4, <2>5, <2>6, <2>7, <2>8 DEF IInv
<1> QED
  BY <1>4, <1>5

\* A reported credential is entered again as it is now.
LEMMA ApplyDirtyStep == ASSUME IInv, NEW c \in Creds, ApplyDirty(c) PROVE IInv'
<1> USE Constants
<1>1. /\ pc[Loop] = "apply" /\ c \in todo /\ todo' = todo \ {c} /\ at # None
      /\ index' = [index EXCEPT ![c] = NextCheck(auths[c], at)]
      /\ UNCHANGED <<now, served, auths, timer, wake, dirty, jobs, pc, cred, at, clone, kept, updates, touched, hot>>
  BY DEF ApplyDirty, history, IInv, Roles
<1>2. NextCheck(auths[c], at) \in Nat \cup {None}
  BY <1>1, Checked
<1>3. Clock' /\ Known' /\ Sets' /\ Jobs'
  BY <1>1 DEF IInv, Clock, Known, Sets, Jobs
<1>4. Heap'
  BY <1>1, <1>2 DEF IInv, Heap
<1>5. Roles' /\ Serves' /\ Unheld' /\ Timed'
  BY <1>1 DEF IInv, Roles, Serves, Servable, Unheld, Timed
<1>6. Once'
  BY <1>1, OnceKept
<1>7. Cool'
  BY <1>1, CoolKept DEF Pass
<1>8. Heaped'
  <2> SUFFICES ASSUME NEW d \in Creds PROVE Covered(d)' \/ InHeap(d, now)'
    BY DEF Heaped
  <2>1. CASE d # c
    <3>1. Covered(d) => Covered(d)'
      BY <1>1, <2>1 DEF Covered, Reported
    <3>2. InHeap(d, now) => InHeap(d, now)'
      BY <1>1, <2>1 DEF InHeap, Limit
    <3> QED
      BY <3>1, <3>2 DEF IInv, Heaped
  <2>2. CASE d = c
    <3>1. index'[c] = NextCheck(auths[c], at)
      BY <1>1 DEF IInv, Heap
    <3>2. InHeap(c, now)'
      BY <1>1, <3>1, Checked DEF InHeap, Limit
    <3> QED
      BY <2>2, <3>2
  <2> QED
    BY <2>1, <2>2
<1>9. Awake'
  BY <1>1 DEF IInv, Awake
<1> QED
  BY <1>3, <1>4, <1>5, <1>6, <1>7, <1>8, <1>9 DEF IInv

\* Reports are taken all at once.
LEMMA DrainStep == ASSUME IInv, Drain PROVE IInv'
<1> USE Constants
<1>1. /\ pc[Loop] = "drain" \/ (pc[Loop] = "due" /\ todo = {})
      /\ pc' = [pc EXCEPT ![Loop] = "apply"] /\ todo' = dirty /\ dirty' = {}
      /\ UNCHANGED <<now, served, auths, index, timer, wake, jobs, cred, at, clone, kept, updates, touched, hot>>
  BY DEF Drain, Goto, history
<1>2. Clock' /\ Known' /\ Heap' /\ Sets' /\ Jobs'
  BY <1>1 DEF IInv, Clock, Known, Heap, Sets, Jobs
<1>3. Roles'
  BY <1>1 DEF IInv, Roles
<1>4. Serves' /\ Unheld' /\ Timed'
  BY <1>1 DEF IInv, Serves, Servable, Unheld, Roles, Timed
<1>5. Once'
  BY <1>1, OnceKept DEF IInv, Roles
<1>6. Cool'
  BY <1>1, CoolKept DEF Pass, IInv, Roles
<1>7. Heaped'
  <2>1. \A d \in Creds : Covered(d) => Covered(d)'
    BY <1>1 DEF Covered, Reported, IInv, Roles
  <2> QED
    BY <1>1, <2>1, HeapedKept
<1>8. Awake'
  BY <1>1 DEF IInv, Awake
<1> QED
  BY <1>2, <1>3, <1>4, <1>5, <1>6, <1>7, <1>8 DEF IInv

\* The mark: the credential is held back, and from now on it is in flight.
LEMMA MarkStep == ASSUME IInv, Mark PROVE IInv'
<1> USE Constants
<1> DEFINE c == cred[Loop]
<1>1. /\ pc[Loop] = "mark" /\ at # None /\ c \in Creds /\ Servable(c)
      /\ UNCHANGED <<now, served, timer, jobs, todo, at, clone, kept, updates>>
  BY DEF Mark, MarkFor, IInv, Roles, Serves
<1>2. auths[c] \in Records /\ auths[c].next \in Nat /\ at \in Nat /\ now \in Nat /\ at <= now
  BY <1>1 DEF Servable, IInv, Known, Clock, Records
<1>3. CASE auths[c].next > at
  <2>1. /\ index' = [index EXCEPT ![c] = NextCheck(auths[c], at)]
        /\ pc' = [pc EXCEPT ![Loop] = "due"] /\ cred' = [cred EXCEPT ![Loop] = None]
        /\ UNCHANGED <<auths, wake, dirty, touched, hot>>
    BY <1>3 DEF Mark, MarkFor, Goto, Release, history
  <2>2. NextCheck(auths[c], at) \in Nat \cup {None}
    BY <1>1, Checked
  <2>3. Clock' /\ Known' /\ Heap' /\ Sets' /\ Jobs'
    BY <1>1, <2>1, <2>2 DEF IInv, Clock, Known, Heap, Sets, Jobs
  <2>4. Roles'
    BY <1>1, <2>1 DEF IInv, Roles
  <2>5. Serves' /\ Unheld' /\ Timed'
    BY <1>1, <2>1 DEF IInv, Serves, Servable, Unheld, Roles, Timed
  <2>6. Once'
    BY <1>1, <2>1, OnceKept DEF IInv, Roles
  <2>7. Cool'
    BY <1>1, <2>1, CoolKept DEF Pass, IInv, Roles
  <2>8. Heaped'
    <3> SUFFICES ASSUME NEW d \in Creds PROVE Covered(d)' \/ InHeap(d, now)'
      BY DEF Heaped
    <3>1. CASE d # c
      <4>1. Covered(d) => Covered(d)'
        BY <1>1, <2>1, <3>1 DEF Covered, Reported, IInv, Roles
      <4>2. InHeap(d, now) => InHeap(d, now)'
        BY <1>1, <2>1, <3>1 DEF InHeap, Limit
      <4> QED
        BY <4>1, <4>2 DEF IInv, Heaped
    <3>2. CASE d = c
      <4>1. index'[c] = NextCheck(auths[c], at)
        BY <1>1, <2>1 DEF IInv, Heap
      <4>2. NextCheck(auths[c], now) # None => NextCheck(auths[c], at) # None /\ NextCheck(auths[c], at) <= Limit(c, now)
        BY <1>1, Checked
      <4>3. InHeap(d, now)'
        BY <1>1, <2>1, <3>2, <4>1, <4>2 DEF InHeap, Limit
      <4> QED
        BY <4>3
    <3> QED
      BY <3>1, <3>2
  <2>9. Awake'
    <3>1. wake' = wake /\ dirty' = dirty /\ pc[Loop] # "drain" /\ \A a \in Actors : pc[a] = "wake" => pc'[a] = "wake"
      BY <1>1, <2>1 DEF IInv, Roles
    <3> QED
      BY <3>1 DEF IInv, Awake
  <2> QED
    BY <2>3, <2>4, <2>5, <2>6, <2>7, <2>8, <2>9 DEF IInv
<1>4. CASE ~(auths[c].next > at)
  <2>1. /\ auths' = [auths EXCEPT ![c].next = at + Pending]
        /\ dirty' = dirty \cup {c} /\ wake' = TRUE
        /\ pc' = [pc EXCEPT ![Loop] = "push"] /\ hot' = hot \cup {c}
        /\ touched' = IF at + Pending <= now THEN touched \cup {c}
                      ELSE IF InFlight(c) THEN touched ELSE touched \ {c}
        /\ UNCHANGED <<index, cred>>
    BY <1>4 DEF Mark, MarkFor, Goto
  <2>2. /\ auths'[c] \in Records /\ auths'[c].next = at + Pending /\ auths'[c].kind = auths[c].kind
        /\ \A d \in Creds : d # c => auths'[d] = auths[d]
        /\ auths' \in [Creds -> Records \cup {None}] /\ auths'[c] # None
    BY <1>1, <1>2, <2>1 DEF IInv, Known, Records
  <2>3. Clock' /\ Known' /\ Heap' /\ Sets' /\ Jobs'
    BY <1>1, <2>1, <2>2 DEF IInv, Clock, Known, Heap, Sets, Jobs
  <2>4. Roles'
    BY <1>1, <2>1 DEF IInv, Roles
  <2>5. Serves' /\ Unheld' /\ Timed'
    <3>1. \A d \in Creds : Servable(d) => Servable(d)'
      BY <1>1, <2>2 DEF Servable
    <3>2. Serves'
      BY <1>1, <2>1, <3>1 DEF IInv, Serves, Roles, Jobs
    <3>3. Unheld'
      BY <1>1, <2>1, <2>2 DEF IInv, Unheld, Servable, Roles
    <3> QED
      BY <1>1, <2>1, <3>2, <3>3 DEF IInv, Timed, Roles
  <2>6. Once'
    <3> SUFFICES ASSUME NEW d \in Creds, d \notin touched'
                 PROVE  /\ InFlight(d)' => auths'[d].next > now'
                        /\ \A v, w \in Workers : pc'[v] = "refresh" /\ pc'[w] = "refresh" /\ cred'[v] = d /\ cred'[w] = d => v = w
                        /\ \A n \in DOMAIN jobs' : jobs'[n] = d =>
                             /\ \A w \in Workers : ~(pc'[w] = "refresh" /\ cred'[w] = d)
                             /\ \A m \in DOMAIN jobs' : jobs'[m] = d => m = n
                        /\ pc'[Loop] = "push" /\ cred'[Loop] = d =>
                             /\ \A w \in Workers : ~(pc'[w] = "refresh" /\ cred'[w] = d)
                             /\ \A n \in DOMAIN jobs' : jobs'[n] # d
      BY DEF Once
    <3>0. \A w \in Workers : pc'[w] = pc[w] /\ cred'[w] = cred[w]
      BY <2>1 DEF IInv, Roles
    <3>1. CASE d # c
      <4>1. d \notin touched /\ (InFlight(d)' => InFlight(d)) /\ auths'[d] = auths[d]
        BY <1>1, <2>1, <2>2, <3>0, <3>1 DEF InFlight, IInv, Roles
      <4> QED
        BY <1>1, <2>1, <3>0, <3>1, <4>1 DEF IInv, Once
    <3>2. CASE d = c
      <4>1. at + Pending > now
        BY <1>2, <2>1, <3>2
      <4>2. ~InFlight(c)
        <5> SUFFICES ASSUME InFlight(c) PROVE FALSE
          OBVIOUS
        <5>1. c \notin touched
          BY <2>1, <3>2, <4>1, <1>2
        <5>2. auths[c].next > now
          BY <1>1, <5>1 DEF IInv, Once
        <5> QED
          BY <1>2, <1>4, <5>2
      <4>3. auths'[c].next > now'
        BY <1>1, <1>2, <2>2, <4>1
      <4>4. \A w \in Workers : ~(pc'[w] = "refresh" /\ cred'[w] = c)
        BY <3>0, <4>2 DEF InFlight
      <4>5. \A n \in DOMAIN jobs' : jobs'[n] # c
        BY <1>1, <4>2 DEF InFlight
      <4> QED
        BY <3>2, <4>3, <4>4, <4>5
    <3> QED
      BY <3>1, <3>2
  <2>7. Cool'
    <3>1. Pass = at /\ Pass' = at /\ at + Pending > at
      BY <1>1, <1>2 DEF Pass
    <3>2. pc'[Loop] = "push"
      BY <2>1 DEF IInv, Roles
    <3> QED
      BY <2>1, <2>2, <3>1, <3>2 DEF IInv, Cool, Sets
  <2>8. Heaped'
    <3> SUFFICES ASSUME NEW d \in Creds PROVE Covered(d)' \/ InHeap(d, now)'
      BY DEF Heaped
    <3>1. CASE d = c
      BY <2>1, <3>1 DEF Covered, Reported
    <3>2. CASE d # c
      <4>1. Covered(d) => Covered(d)'
        BY <1>1, <2>1, <3>2 DEF Covered, Reported, IInv, Roles
      <4>2. InHeap(d, now) => InHeap(d, now)'
        BY <1>1, <2>1, <2>2, <3>2 DEF InHeap, Limit
      <4> QED
        BY <4>1, <4>2 DEF IInv, Heaped
    <3> QED
      BY <3>1, <3>2
  <2>9. Awake'
    BY <2>1, Zenon DEF Awake
  <2> QED
    BY <2>3, <2>4, <2>5, <2>6, <2>7, <2>8, <2>9 DEF IInv
<1> QED
  BY <1>3, <1>4


\* The loop hands the credential it has marked to the channel.
LEMMA PushStep == ASSUME IInv, Push PROVE IInv'
<1> USE Constants
<1> DEFINE c == cred[Loop]
<1>1. /\ pc[Loop] = "push" /\ Len(jobs) < JobCap /\ jobs' = Append(jobs, c)
      /\ pc' = [pc EXCEPT ![Loop] = "due"] /\ cred' = [cred EXCEPT ![Loop] = None]
      /\ UNCHANGED <<now, served, auths, index, timer, wake, dirty, todo, at, clone, kept, updates, touched, hot>>
      /\ c \in Creds /\ Servable(c)
  BY DEF Push, Goto, Release, history, IInv, Roles, Serves
<1>2. /\ jobs' \in Seq(Creds) /\ Len(jobs') = Len(jobs) + 1 /\ Len(jobs) \in Nat
      /\ DOMAIN jobs' = 1..(Len(jobs) + 1) /\ DOMAIN jobs = 1..Len(jobs)
      /\ jobs'[Len(jobs) + 1] = c /\ \A n \in 1..Len(jobs) : jobs'[n] = jobs[n]
  BY <1>1 DEF IInv, Jobs
<1>3. Clock' /\ Known' /\ Heap' /\ Sets' /\ Jobs'
  BY <1>1, <1>2 DEF IInv, Clock, Known, Heap, Sets, Jobs
<1>4. Roles'
  BY <1>1 DEF IInv, Roles
<1>5. Serves' /\ Unheld' /\ Timed'
  <2>1. \A n \in DOMAIN jobs' : Servable(jobs'[n])
    <3> SUFFICES ASSUME NEW n \in DOMAIN jobs' PROVE Servable(jobs'[n])
      OBVIOUS
    <3>1. CASE n = Len(jobs) + 1
      BY <1>1, <1>2, <3>1
    <3>2. CASE n # Len(jobs) + 1
      BY <1>2, <3>2 DEF IInv, Serves
    <3> QED
      BY <3>1, <3>2
  <2> QED
    BY <1>1, <2>1 DEF IInv, Serves, Servable, Unheld, Roles, Timed
<1>6. Once'
  <2> SUFFICES ASSUME NEW d \in Creds, d \notin touched
               PROVE  /\ InFlight(d)' => auths[d].next > now
                      /\ \A v, w \in Workers : pc[v] = "refresh" /\ pc[w] = "refresh" /\ cred[v] = d /\ cred[w] = d => v = w
                      /\ \A n \in DOMAIN jobs' : jobs'[n] = d =>
                           /\ \A w \in Workers : ~(pc[w] = "refresh" /\ cred[w] = d)
                           /\ \A m \in DOMAIN jobs' : jobs'[m] = d => m = n
    BY <1>1 DEF Once, IInv, Roles
  <2>1. InFlight(d)' => InFlight(d)
    <3> SUFFICES ASSUME InFlight(d)' PROVE InFlight(d)
      OBVIOUS
    <3>1. CASE \E n \in DOMAIN jobs' : jobs'[n] = d
      <4>1. PICK n \in DOMAIN jobs' : jobs'[n] = d
        BY <3>1
      <4>2. CASE n = Len(jobs) + 1
        BY <1>1, <1>2, <4>1, <4>2 DEF InFlight
      <4>3. CASE n # Len(jobs) + 1
        BY <1>2, <4>1, <4>3 DEF InFlight
      <4> QED
        BY <4>2, <4>3
    <3>2. CASE \E w \in Workers : pc'[w] = "refresh" /\ cred'[w] = d
      BY <1>1, <3>2 DEF InFlight, IInv, Roles
    <3> QED
      BY <1>1, <3>1, <3>2 DEF InFlight, IInv, Roles
  <2>2. d \in Creds \ touched
    OBVIOUS
  <2>3. ASSUME NEW n \in DOMAIN jobs', jobs'[n] = d
        PROVE  /\ \A w \in Workers : ~(pc[w] = "refresh" /\ cred[w] = d)
               /\ \A m \in DOMAIN jobs' : jobs'[m] = d => m = n
    <3>1. CASE d = c
      <4>1. \A w \in Workers : ~(pc[w] = "refresh" /\ cred[w] = d)
        BY <1>1, <2>2, <3>1 DEF IInv, Once
      <4>2. \A m \in DOMAIN jobs : jobs[m] # d
        BY <1>1, <2>2, <3>1 DEF IInv, Once
      <4>3. \A m \in DOMAIN jobs' : jobs'[m] = d => m = Len(jobs) + 1
        BY <1>2, <4>2
      <4> QED
        BY <2>3, <4>1, <4>3
    <3>2. CASE d # c
      <4>1. n \in DOMAIN jobs /\ jobs[n] = d
        BY <1>2, <2>3, <3>2
      <4>2. /\ \A w \in Workers : ~(pc[w] = "refresh" /\ cred[w] = d)
            /\ \A m \in DOMAIN jobs : jobs[m] = d => m = n
        BY <2>2, <4>1 DEF IInv, Once
      <4>3. \A m \in DOMAIN jobs' : jobs'[m] = d => m \in DOMAIN jobs /\ jobs[m] = d
        BY <1>2, <3>2
      <4> QED
        BY <4>2, <4>3
    <3> QED
      BY <3>1, <3>2
  <2> QED
    BY <2>1, <2>2, <2>3 DEF IInv, Once
<1>7. Cool'
  BY <1>1, CoolKept DEF Pass, IInv, Roles
<1>8. Heaped'
  <2>1. \A d \in Creds : Covered(d) => Covered(d)'
    BY <1>1 DEF Covered, Reported, IInv, Roles
  <2> QED
    BY <1>1, <2>1, HeapedKept
<1>9. Awake'
  <2>1. wake' = wake /\ dirty' = dirty /\ pc[Loop] # "drain" /\ \A a \in Actors : pc[a] = "wake" => pc'[a] = "wake"
    BY <1>1 DEF IInv, Roles
  <2> QED
    BY <2>1 DEF IInv, Awake
<1> QED
  BY <1>3, <1>4, <1>5, <1>6, <1>7, <1>8, <1>9 DEF IInv

------------------------------------------------------------------------------
(* The workers and the Applier.                                             *)

\* A change is reported in two steps.
LEMMA QueueSteps ==
  ASSUME IInv, NEW a \in Actors, QueueDirty(a) \/ QueueWake(a)
  PROVE  IInv'
<1> USE Constants
<1>1. /\ pc[a] \in {"queue", "wake"} /\ a # Loop /\ cred[a] \in Creds
      /\ \A b \in Actors : b = Loop \/ b = Applier \/ b \in Workers
  BY DEF QueueDirty, QueueWake, IInv, Roles, Actors
<1>2. CASE QueueDirty(a)
  <2>1. /\ pc[a] = "queue" /\ pc' = [pc EXCEPT ![a] = "wake"] /\ dirty' = dirty \cup {cred[a]}
        /\ UNCHANGED <<now, served, auths, index, timer, wake, jobs, cred, todo, at, clone, kept, updates, touched, hot>>
    BY <1>2 DEF QueueDirty, Goto, history
  <2>2. Clock' /\ Known' /\ Heap' /\ Sets' /\ Jobs'
    BY <1>1, <2>1 DEF IInv, Clock, Known, Heap, Sets, Jobs
  <2>3. Roles'
    BY <1>1, <2>1 DEF IInv, Roles
  <2>4. Serves' /\ Unheld' /\ Timed'
    BY <1>1, <2>1 DEF IInv, Serves, Servable, Unheld, Roles, Timed
  <2>5. Once'
    BY <1>1, <2>1, OnceKept DEF IInv, Roles
  <2>6. Cool'
    BY <1>1, <2>1, CoolKept DEF Pass, IInv, Roles
  <2>7. Heaped'
    <3>1. \A d \in Creds : Reported(d) => Reported(d)'
      BY <1>1, <2>1 DEF Reported, IInv, Roles
    <3>2. \A d \in Creds : Covered(d) => Covered(d)'
      BY <1>1, <2>1, <3>1 DEF Covered, IInv, Roles
    <3> QED
      BY <2>1, <3>2, HeapedKept
  <2>8. Awake'
    <3>1. pc'[a] = "wake" /\ wake' = wake
      BY <2>1 DEF IInv, Roles
    <3> QED
      BY <3>1 DEF IInv, Awake
  <2> QED
    BY <2>2, <2>3, <2>4, <2>5, <2>6, <2>7, <2>8 DEF IInv
<1>3. CASE QueueWake(a)
  <2>1. /\ pc[a] = "wake" /\ pc' = [pc EXCEPT ![a] = "idle"] /\ cred' = [cred EXCEPT ![a] = None] /\ wake' = TRUE
        /\ UNCHANGED <<now, served, auths, index, timer, dirty, jobs, todo, at, clone, kept, updates, touched, hot>>
    BY <1>3 DEF QueueWake, Goto, Release, history
  <2>2. Clock' /\ Known' /\ Heap' /\ Sets' /\ Jobs'
    BY <2>1 DEF IInv, Clock, Known, Heap, Sets, Jobs
  <2>3. Roles'
    BY <1>1, <2>1 DEF IInv, Roles
  <2>4. Serves' /\ Unheld' /\ Timed'
    BY <1>1, <2>1 DEF IInv, Serves, Servable, Unheld, Roles, Timed
  <2>5. Once'
    BY <1>1, <2>1, OnceKept DEF IInv, Roles
  <2>6. Cool'
    BY <1>1, <2>1, CoolKept DEF Pass, IInv, Roles
  <2>7. Heaped'
    <3>1. \A d \in Creds : Reported(d) => Reported(d)'
      BY <1>1, <2>1 DEF Reported, IInv, Roles
    <3>2. \A d \in Creds : Covered(d) => Covered(d)'
      BY <1>1, <2>1, <3>1 DEF Covered, IInv, Roles
    <3> QED
      BY <2>1, <3>2, HeapedKept
  <2>8. Awake'
    BY <2>1, Zenon DEF Awake
  <2> QED
    BY <2>2, <2>3, <2>4, <2>5, <2>6, <2>7, <2>8 DEF IInv
<1> QED
  BY <1>2, <1>3


\* A worker takes the oldest job.
LEMMA TakeStep == ASSUME IInv, NEW w \in Workers, Take(w) PROVE IInv'
<1> USE Constants
<1> DEFINE c == Head(jobs)
<1>1. /\ pc[w] = "idle" /\ jobs # <<>> /\ pc' = [pc EXCEPT ![w] = "refresh"] /\ jobs' = Tail(jobs)
      /\ cred' = [cred EXCEPT ![w] = c] /\ clone' = [clone EXCEPT ![w] = [auths[c] EXCEPT !.next = 0]]
      /\ UNCHANGED <<now, served, auths, index, timer, wake, dirty, todo, at, kept, updates, touched, hot>>
  BY DEF Take, Goto, history
<1>2. /\ Len(jobs) \in Nat \ {0} /\ c = jobs[1] /\ c \in Creds /\ jobs' \in Seq(Creds)
      /\ DOMAIN jobs = 1..Len(jobs) /\ DOMAIN jobs' = 1..(Len(jobs) - 1) /\ Len(jobs') = Len(jobs) - 1
      /\ \A n \in 1..(Len(jobs) - 1) : jobs'[n] = jobs[n + 1]
  BY <1>1 DEF IInv, Jobs
<1>3. Servable(c) /\ auths[c] \in Records
  BY <1>2 DEF IInv, Serves, Servable, Known
<1>4. [auths[c] EXCEPT !.next = 0] \in Records
  BY <1>3 DEF Records
<1>5. Clock' /\ Known' /\ Heap' /\ Sets' /\ Jobs'
  BY <1>1, <1>2, <1>4 DEF IInv, Clock, Known, Heap, Sets, Jobs
<1>6. /\ \A a \in Actors : a # w => pc'[a] = pc[a] /\ cred'[a] = cred[a]
      /\ pc'[w] = "refresh" /\ cred'[w] = c
  BY <1>1 DEF IInv, Roles
<1>7. Roles'
  BY <1>1, <1>2, <1>6 DEF IInv, Roles
<1>8. Serves' /\ Unheld' /\ Timed'
  <2>1. \A n \in DOMAIN jobs' : Servable(jobs'[n])
    BY <1>2 DEF IInv, Serves
  <2>2. clone'[w] \in Records /\ \A v \in Workers : v # w => clone'[v] = clone[v]
    BY <1>1, <1>4 DEF IInv, Known
  <2>3. Serves'
    BY <1>1, <1>3, <1>6, <2>1, <2>2 DEF IInv, Serves, Servable
  <2> QED
    BY <1>1, <1>6, <2>3 DEF IInv, Unheld, Timed
<1>9. Once'
  <2> SUFFICES ASSUME NEW d \in Creds, d \notin touched
               PROVE  /\ InFlight(d)' => auths[d].next > now
                      /\ \A u, v \in Workers : pc'[u] = "refresh" /\ pc'[v] = "refresh" /\ cred'[u] = d /\ cred'[v] = d => u = v
                      /\ \A n \in DOMAIN jobs' : jobs'[n] = d =>
                           /\ \A v \in Workers : ~(pc'[v] = "refresh" /\ cred'[v] = d)
                           /\ \A m \in DOMAIN jobs' : jobs'[m] = d => m = n
                      /\ pc[Loop] = "push" /\ cred[Loop] = d =>
                           /\ \A v \in Workers : ~(pc'[v] = "refresh" /\ cred'[v] = d)
                           /\ \A n \in DOMAIN jobs' : jobs'[n] # d
    BY <1>1, <1>6 DEF Once
  <2>0. d \in Creds \ touched
    OBVIOUS
  <2>a. \A n \in DOMAIN jobs' : n + 1 \in DOMAIN jobs /\ jobs[n + 1] = jobs'[n]
    BY <1>2
  <2>b. 1 \in DOMAIN jobs /\ jobs[1] = c
    BY <1>2
  <2>1. InFlight(d)' => InFlight(d)
    <3>1. (\E n \in DOMAIN jobs' : jobs'[n] = d) => \E n \in DOMAIN jobs : jobs[n] = d
      BY <2>a
    <3>2. (\E v \in Workers : pc'[v] = "refresh" /\ cred'[v] = d) =>
            (\E n \in DOMAIN jobs : jobs[n] = d) \/ \E v \in Workers : pc[v] = "refresh" /\ cred[v] = d
      BY <1>6, <2>b
    <3> QED
      BY <1>6, <3>1, <3>2 DEF InFlight
  <2>2. CASE d = c
    <3>1. /\ \A v \in Workers : ~(pc[v] = "refresh" /\ cred[v] = d)
          /\ \A m \in DOMAIN jobs : jobs[m] = d => m = 1
      BY <2>0, <2>2, <2>b DEF IInv, Once
    <3>2. \A n \in DOMAIN jobs' : jobs'[n] # d
      <4> SUFFICES ASSUME NEW n \in DOMAIN jobs', jobs'[n] = d PROVE FALSE
        OBVIOUS
      <4>1. n + 1 = 1 /\ n \in 1..(Len(jobs) - 1)
        BY <1>2, <2>a, <3>1
      <4> QED
        BY <4>1
    <3>3. ~(pc[Loop] = "push" /\ cred[Loop] = d)
      BY <2>0, <2>2, <2>b DEF IInv, Once
    <3> QED
      BY <1>6, <2>0, <2>1, <3>1, <3>2, <3>3 DEF IInv, Once
  <2>3. CASE d # c
    <3>1. \A v \in Workers : pc'[v] = "refresh" /\ cred'[v] = d => pc[v] = "refresh" /\ cred[v] = d
      BY <1>6, <2>3
    <3>2. \A n \in DOMAIN jobs' : jobs'[n] = d =>
             /\ \A v \in Workers : ~(pc[v] = "refresh" /\ cred[v] = d)
             /\ \A m \in DOMAIN jobs' : jobs'[m] = d => m = n
      <4> SUFFICES ASSUME NEW n \in DOMAIN jobs', jobs'[n] = d
                   PROVE  /\ \A v \in Workers : ~(pc[v] = "refresh" /\ cred[v] = d)
                          /\ \A m \in DOMAIN jobs' : jobs'[m] = d => m = n
        OBVIOUS
      <4>1. /\ \A v \in Workers : ~(pc[v] = "refresh" /\ cred[v] = d)
            /\ \A m \in DOMAIN jobs : jobs[m] = d => m = n + 1
        BY <2>0, <2>a DEF IInv, Once
      <4>2. \A m \in DOMAIN jobs' : jobs'[m] = d => m + 1 = n + 1
        BY <2>a, <4>1
      <4>3. \A m \in DOMAIN jobs' : m \in Int
        BY <1>2
      <4> QED
        BY <4>1, <4>2, <4>3
    <3>3. pc[Loop] = "push" /\ cred[Loop] = d => \A n \in DOMAIN jobs' : jobs'[n] # d
      BY <2>0, <2>a DEF IInv, Once
    <3> QED
      BY <2>0, <2>1, <3>1, <3>2, <3>3 DEF IInv, Once
  <2> QED
    BY <2>2, <2>3
<1>10. Cool'
  BY <1>1, <1>6, CoolKept DEF Pass
<1>11. Heaped'
  <2>1. \A d \in Creds : Reported(d) => Reported(d)'
    BY <1>1, <1>6 DEF Reported
  <2>2. \A d \in Creds : Covered(d) => Covered(d)'
    BY <1>1, <1>6, <2>1 DEF Covered
  <2> QED
    BY <1>1, <2>2, HeapedKept
<1>12. Awake'
  <2>1. wake' = wake /\ dirty' = dirty /\ pc'[Loop] = pc[Loop] /\ \A a \in Actors : pc[a] = "wake" => pc'[a] = "wake"
    BY <1>1, <1>6
  <2> QED
    BY <2>1 DEF IInv, Awake
<1> QED
  BY <1>5, <1>7, <1>8, <1>9, <1>10, <1>11, <1>12 DEF IInv

\* A worker ends a refresh: the record is left alone, or another one, later or
\* held back, takes its place.
LEMMA AnsweredStep ==
  ASSUME IInv, NEW w \in Workers, Cancelled(w) \/ Failed(w) \/ (\E due \in {clone[w].due, now + Life} : Refreshed(w, due))
  PROVE  IInv'
<1> USE Constants
<1> DEFINE c == cred[w]
<1>1. /\ pc[w] = "refresh" /\ pc' = [pc EXCEPT ![w] = "queue"] /\ clone' = [clone EXCEPT ![w] = None]
      /\ UNCHANGED <<now, served, index, timer, wake, dirty, jobs, cred, todo, at, kept, updates, touched, hot>>
  BY DEF Cancelled, Failed, Refreshed, Answered, Goto, history
<1>2. /\ c \in Creds /\ Servable(c) /\ clone[w] \in Records /\ auths[c] \in Records /\ now \in Nat
      /\ clone[w].kind \in {"key", "token"} /\ clone[w].due \in Nat
  BY <1>1 DEF IInv, Roles, Serves, Servable, Known, Clock, Records
<1>3. /\ auths' \in [Creds -> Records \cup {None}] /\ auths'[c] \in Records
      /\ \A d \in Creds : d # c => auths'[d] = auths[d]
      /\ auths'[c] = auths[c] \/ auths'[c].kind = "key" \/ auths'[c].next > now \/ auths'[c].due > now
  <2>1. CASE Cancelled(w)
    BY <1>2, <2>1 DEF Cancelled, IInv, Known
  <2>2. CASE Failed(w)
    BY <1>2, <2>2 DEF Failed, IInv, Known, Records
  <2>3. ASSUME NEW due \in {clone[w].due, now + Life}, Refreshed(w, due) PROVE <1>3!:
    <3> DEFINE new == [kind |-> clone[w].kind, due |-> due,
                       next |-> IF clone[w].kind = "token" /\ due <= now THEN now + Ineffective ELSE 0]
    <3>1. auths' = [auths EXCEPT ![c] = new]
      BY <2>3 DEF Refreshed
    <3>2. due \in Nat /\ new \in Records /\ (new.kind = "key" \/ new.next > now \/ new.due > now)
      BY <1>2 DEF Records
    <3> HIDE DEF new
    <3> QED
      BY <1>2, <3>1, <3>2 DEF IInv, Known
  <2> QED
    BY <2>1, <2>2, <2>3
<1>4. /\ \A a \in Actors : a # w => pc'[a] = pc[a]
      /\ pc'[w] = "queue" /\ auths'[c] # None
  BY <1>1, <1>3 DEF IInv, Roles
<1>5. Clock' /\ Known' /\ Heap' /\ Sets' /\ Jobs'
  BY <1>1, <1>3 DEF IInv, Clock, Known, Heap, Sets, Jobs
<1>6. Roles'
  BY <1>1, <1>2, <1>4 DEF IInv, Roles
<1>7. Serves' /\ Unheld' /\ Timed'
  <2>1. \A d \in Creds : Servable(d) => Servable(d)'
    BY <1>1, <1>3, <1>4 DEF Servable
  <2>2. \A v \in Workers : v # w => clone'[v] = clone[v]
    BY <1>1 DEF IInv, Known
  <2>3. Serves'
    BY <1>1, <1>4, <2>1, <2>2 DEF IInv, Serves, Roles, Jobs
  <2>4. Unheld'
    BY <1>1, <1>2, <1>3, <1>4 DEF IInv, Unheld, Servable
  <2> QED
    BY <1>1, <1>4, <2>3, <2>4 DEF IInv, Timed
<1>8. Once'
  <2> SUFFICES ASSUME NEW d \in Creds, d \notin touched
               PROVE  /\ InFlight(d)' => auths'[d].next > now
                      /\ \A u, v \in Workers : pc'[u] = "refresh" /\ pc'[v] = "refresh" /\ cred[u] = d /\ cred[v] = d => u = v
                      /\ \A n \in DOMAIN jobs : jobs[n] = d =>
                           /\ \A v \in Workers : ~(pc'[v] = "refresh" /\ cred[v] = d)
                           /\ \A m \in DOMAIN jobs : jobs[m] = d => m = n
                      /\ pc[Loop] = "push" /\ cred[Loop] = d =>
                           /\ \A v \in Workers : ~(pc'[v] = "refresh" /\ cred[v] = d)
                           /\ \A n \in DOMAIN jobs : jobs[n] # d
    BY <1>1, <1>4 DEF Once
  <2>0. d \in Creds \ touched
    OBVIOUS
  <2>1. \A v \in Workers : pc'[v] = "refresh" => v # w /\ pc[v] = "refresh"
    BY <1>4
  <2>2. InFlight(d)' => InFlight(d)
    BY <1>1, <1>4, <2>1 DEF InFlight
  <2>3. d = c => ~InFlight(d)'
    <3> SUFFICES ASSUME d = c PROVE ~InFlight(d)'
      OBVIOUS
    <3>1. \A v \in Workers : v # w => ~(pc[v] = "refresh" /\ cred[v] = c)
      BY <1>1, <2>0 DEF IInv, Once
    <3>2. \A n \in DOMAIN jobs : jobs[n] # c
      BY <1>1, <2>0 DEF IInv, Once
    <3>3. ~(pc[Loop] = "push" /\ cred[Loop] = c)
      BY <1>1, <2>0 DEF IInv, Once
    <3> QED
      BY <1>1, <1>4, <2>1, <3>1, <3>2, <3>3 DEF InFlight
  <2> QED
    BY <1>3, <2>0, <2>1, <2>2, <2>3 DEF IInv, Once
<1>9. Cool'
  <2>1. Pass' = Pass /\ Pass \in Nat /\ Pass <= now
    BY <1>1 DEF Pass, IInv, Clock
  <2>2. \A d \in hot : auths'[d] # None /\ (auths'[d].kind = "key" \/ auths'[d].next > Pass \/ auths'[d].due > Pass)
    <3> SUFFICES ASSUME NEW d \in hot
                 PROVE  auths'[d] # None /\ (auths'[d].kind = "key" \/ auths'[d].next > Pass \/ auths'[d].due > Pass)
      OBVIOUS
    <3>0. d \in Creds /\ auths[d] # None /\ (auths[d].kind = "key" \/ auths[d].next > Pass \/ auths[d].due > Pass)
      BY DEF IInv, Cool, Sets
    <3>1. CASE d # c \/ auths'[c] = auths[c]
      BY <1>3, <3>0, <3>1
    <3>2. CASE d = c /\ auths'[c] # auths[c]
      <4>1. auths'[c].next \in Nat /\ auths'[c].due \in Nat
        BY <1>3 DEF Records
      <4> QED
        BY <1>2, <1>3, <1>4, <2>1, <3>2, <4>1
    <3> QED
      BY <3>1, <3>2
  <2> QED
    BY <1>1, <1>4, <2>1, <2>2 DEF IInv, Cool
<1>10. Heaped'
  <2> SUFFICES ASSUME NEW d \in Creds PROVE Covered(d)' \/ InHeap(d, now)'
    BY DEF Heaped
  <2>1. CASE d = c
    BY <1>1, <1>4, <2>1 DEF Covered, Reported
  <2>2. CASE d # c
    <3>1. Reported(d) => Reported(d)'
      BY <1>1, <1>4, <2>2 DEF Reported
    <3>2. Covered(d) => Covered(d)'
      BY <1>1, <1>4, <3>1 DEF Covered
    <3>3. InHeap(d, now) => InHeap(d, now)'
      BY <1>1, <1>3, <2>2 DEF InHeap, Limit
    <3> QED
      BY <3>2, <3>3 DEF IInv, Heaped
  <2> QED
    BY <2>1, <2>2
<1>11. Awake'
  <2>1. wake' = wake /\ dirty' = dirty /\ pc'[Loop] = pc[Loop] /\ \A a \in Actors : pc[a] = "wake" => pc'[a] = "wake"
    BY <1>1, <1>4
  <2> QED
    BY <2>1 DEF IInv, Awake
<1> QED
  BY <1>5, <1>6, <1>7, <1>8, <1>9, <1>10, <1>11 DEF IInv


\* The Applier reads a record ...
LEMMA ReadExistingStep == ASSUME IInv, NEW c \in Watched, ReadExisting(c) PROVE IInv'
<1> USE Constants
<1>1. /\ pc[Applier] = "idle" /\ updates < MaxUpdates /\ pc' = [pc EXCEPT ![Applier] = "write"]
      /\ updates' = updates + 1 /\ cred' = [cred EXCEPT ![Applier] = c]
      /\ kept' \in {0} \cup (IF auths[c] = None THEN {} ELSE {auths[c].next})
      /\ UNCHANGED <<now, served, auths, index, timer, wake, dirty, jobs, todo, at, clone, touched, hot>>
      /\ c \in Creds
  BY RefreshAssumption DEF ReadExisting, Goto, history
<1>2. kept' \in Nat /\ (kept' = 0 \/ (auths[c] # None /\ kept' = auths[c].next))
  BY <1>1 DEF IInv, Known, Records
<1>3. Clock' /\ Known' /\ Heap' /\ Sets' /\ Jobs'
  BY <1>1, <1>2 DEF IInv, Clock, Known, Heap, Sets, Jobs
<1>4. /\ \A a \in Actors : a # Applier => pc'[a] = pc[a] /\ cred'[a] = cred[a]
      /\ pc'[Applier] = "write" /\ cred'[Applier] = c
  BY <1>1 DEF IInv, Roles
<1>5. Roles'
  BY <1>1, <1>4 DEF IInv, Roles
<1>6. Serves' /\ Unheld' /\ Timed'
  BY <1>1, <1>2, <1>4 DEF IInv, Serves, Servable, Unheld, Timed
<1>7. Once'
  BY <1>1, <1>4, OnceKept
<1>8. Cool'
  BY <1>1, <1>4, CoolKept DEF Pass
<1>9. Heaped'
  <2>1. \A d \in Creds : Reported(d) => Reported(d)'
    BY <1>1, <1>4 DEF Reported
  <2>2. \A d \in Creds : Covered(d) => Covered(d)'
    BY <1>1, <1>4, <2>1 DEF Covered
  <2> QED
    BY <1>1, <2>2, HeapedKept
<1>10. Awake'
  <2>1. wake' = wake /\ dirty' = dirty /\ pc'[Loop] = pc[Loop] /\ \A a \in Actors : pc[a] = "wake" => pc'[a] = "wake"
    BY <1>1, <1>4
  <2> QED
    BY <2>1 DEF IInv, Awake
<1> QED
  BY <1>3, <1>5, <1>6, <1>7, <1>8, <1>9, <1>10 DEF IInv

\* ... and replaces it, with the time the other one was held back to.
LEMMA WriteUpdateStep ==
  ASSUME IInv, NEW kind \in {"key", "token"}, NEW due \in Nat, WriteUpdate(kind, due)
  PROVE  IInv'
<1> USE Constants
<1> DEFINE c == cred[Applier]
           new == [kind |-> kind, due |-> due, next |-> kept]
<1>1. /\ pc[Applier] = "write" /\ pc' = [pc EXCEPT ![Applier] = "queue"] /\ auths' = [auths EXCEPT ![c] = new]
      /\ touched' = IF InFlight(c) THEN touched \cup {c} ELSE touched
      /\ hot' = hot \ {c} /\ kept' = 0
      /\ UNCHANGED <<now, served, index, timer, wake, dirty, jobs, cred, todo, at, clone, updates>>
  BY DEF WriteUpdate, Goto
<1>2. c \in Creds /\ new \in Records /\ new.next = kept
  BY <1>1 DEF IInv, Roles, Known, Records
<1>3. /\ auths' \in [Creds -> Records \cup {None}] /\ auths'[c] = new /\ auths'[c] # None
      /\ \A d \in Creds : d # c => auths'[d] = auths[d]
  <2> HIDE DEF new
  <2> QED
    BY <1>1, <1>2 DEF IInv, Known
<1> HIDE DEF new
<1>4. (\A a \in Actors : a # Applier => pc'[a] = pc[a]) /\ pc'[Applier] = "queue"
  BY <1>1 DEF IInv, Roles
<1>5. Clock' /\ Known' /\ Heap' /\ Sets' /\ Jobs'
  BY <1>1, <1>2, <1>3 DEF IInv, Clock, Known, Heap, Sets, Jobs
<1>6. Roles'
  BY <1>1, <1>2, <1>4 DEF IInv, Roles
<1>7. Serves' /\ Unheld' /\ Timed'
  <2>1. \A d \in Creds : Servable(d) => Servable(d)'
    BY <1>1, <1>3 DEF Servable
  <2>2. Serves'
    BY <1>1, <1>4, <2>1 DEF IInv, Serves, Roles, Jobs
  <2>3. Unheld'
    BY <1>1, <1>2, <1>3, <1>4 DEF IInv, Unheld
  <2> QED
    BY <1>1, <1>4, <2>2, <2>3 DEF IInv, Timed
<1>8. Once'
  <2> SUFFICES ASSUME NEW d \in Creds, d \notin touched', d \notin touched
               PROVE  /\ InFlight(d)' => auths'[d].next > now
                      /\ \A u, v \in Workers : pc[u] = "refresh" /\ pc[v] = "refresh" /\ cred[u] = d /\ cred[v] = d => u = v
                      /\ \A n \in DOMAIN jobs : jobs[n] = d =>
                           /\ \A v \in Workers : ~(pc[v] = "refresh" /\ cred[v] = d)
                           /\ \A m \in DOMAIN jobs : jobs[m] = d => m = n
                      /\ pc[Loop] = "push" /\ cred[Loop] = d =>
                           /\ \A v \in Workers : ~(pc[v] = "refresh" /\ cred[v] = d)
                           /\ \A n \in DOMAIN jobs : jobs[n] # d
    BY <1>1, <1>4 DEF Once
  <2>1. d \in Creds \ touched
    OBVIOUS
  <2>2. InFlight(d)' <=> InFlight(d)
    BY <1>1, <1>4 DEF InFlight
  <2>3. d = c => ~InFlight(d)
    BY <1>1
  <2> QED
    BY <1>3, <2>1, <2>2, <2>3 DEF IInv, Once
<1>9. Cool'
  <2>1. Pass' = Pass
    BY <1>1 DEF Pass
  <2>2. \A d \in hot' : d \in hot /\ auths'[d] = auths[d]
    BY <1>1, <1>3 DEF IInv, Sets
  <2> QED
    BY <1>1, <1>4, <2>1, <2>2 DEF IInv, Cool
<1>10. Heaped'
  <2> SUFFICES ASSUME NEW d \in Creds PROVE Covered(d)' \/ InHeap(d, now)'
    BY DEF Heaped
  <2>1. CASE d = c
    BY <1>1, <1>4, <2>1 DEF Covered, Reported
  <2>2. CASE d # c
    <3>1. Reported(d) => Reported(d)'
      BY <1>1, <1>4, <2>2 DEF Reported
    <3>2. Covered(d) => Covered(d)'
      BY <1>1, <1>4, <3>1 DEF Covered
    <3>3. InHeap(d, now) => InHeap(d, now)'
      BY <1>1, <1>3, <2>2 DEF InHeap, Limit
    <3> QED
      BY <3>2, <3>3 DEF IInv, Heaped
  <2> QED
    BY <2>1, <2>2
<1>11. Awake'
  <2>1. wake' = wake /\ dirty' = dirty /\ pc'[Loop] = pc[Loop] /\ \A a \in Actors : pc[a] = "wake" => pc'[a] = "wake"
    BY <1>1, <1>4
  <2> QED
    BY <2>1 DEF IInv, Awake
<1> QED
  BY <1>5, <1>6, <1>7, <1>8, <1>9, <1>10, <1>11 DEF IInv

------------------------------------------------------------------------------
\* Every step keeps the invariant.
LEMMA StepIInv == IInv /\ [Next]_vars => IInv'
<1> SUFFICES ASSUME IInv, [Next]_vars PROVE IInv'
  OBVIOUS
<1>1. CASE LoopStep
  BY <1>1, RebuildStep, TakeWakeStep, TakeTimerStep, MarkStep, PushStep, DrainStep, DirtyDoneStep,
     CheckDueStep, ApplyDirtyStep DEF LoopStep
<1>2. ASSUME NEW w \in Workers, Work(w) PROVE IInv'
  <2>1. w \in Actors
    BY Constants
  <2> QED
    BY <1>2, <2>1, TakeStep, AnsweredStep, QueueSteps DEF Work
<1>3. CASE Apply
  <2>1. now \in Nat /\ now + Life \in Nat /\ Applier \in Actors
    BY Constants DEF IInv, Clock
  <2>2. CASE WriteUpdate("key", 0)
    BY <2>2, WriteUpdateStep
  <2>3. ASSUME NEW due \in {now, now + Life}, WriteUpdate("token", due) PROVE IInv'
    BY <2>1, <2>3, WriteUpdateStep
  <2> QED
    BY <1>3, <2>1, <2>2, <2>3, QueueSteps DEF Apply
<1>4. CASE UNCHANGED vars
  <2>1. Clock' /\ Known' /\ Heap' /\ Sets' /\ Jobs' /\ Roles'
    BY <1>4 DEF vars, history, IInv, Clock, Known, Heap, Sets, Jobs, Roles
  <2>2. Serves' /\ Unheld' /\ Timed' /\ Awake'
    BY <1>4 DEF vars, history, IInv, Serves, Servable, Unheld, Timed, Awake
  <2>3. Once' /\ Cool'
    BY <1>4, OnceKept, CoolKept DEF vars, Pass
  <2>4. Heaped'
    BY <1>4, HeapedKept DEF vars, Covered, Reported
  <2> QED
    BY <2>1, <2>2, <2>3, <2>4 DEF IInv
<1> QED
  BY <1>1, <1>2, <1>3, <1>4, TickStep, ReadExistingStep DEF Next

\* The invariant holds in every state.
LEMMA AlwaysIInv == Spec => []IInv
<1>1. Init => IInv
  BY InitIInv
<1>2. IInv /\ [Next]_vars => IInv'
  BY StepIInv
<1> QED
  BY <1>1, <1>2, PTL DEF Spec

\* The loop's state keeps its types, and the job channel its capacity, for any
\* number of credentials and workers.
THEOREM LoopTyped == Spec => []TypeOK
<1>1. IInv => TypeOK
  <2> SUFFICES ASSUME IInv PROVE TypeOK
    OBVIOUS
  <2>1. wake \in BOOLEAN
    BY Zenon DEF IInv, Awake
  <2>2. /\ now \in 1..MaxTime /\ served \subseteq Creds /\ at \in 1..now \cup {None} /\ updates \in 0..MaxUpdates
        /\ auths \in [Creds -> Records \cup {None}] /\ clone \in [Workers -> Records \cup {None}] /\ kept \in Nat
    BY DEF IInv, Clock, Known
  <2> QED
    BY <2>1, <2>2 DEF IInv, Heap, Sets, Jobs, Roles, TypeOK
<1> QED
  BY <1>1, AlwaysIInv, PTL

\* While the loop sleeps no credential is forgotten: it is in the heap early
\* enough, or its change is reported, and the timer or a wake-up sees to it.
THEOREM NothingIsForgotten == Spec => []NothingForgotten
<1>1. IInv => NothingForgotten
  <2> SUFFICES ASSUME IInv, pc[Loop] = "select" PROVE NothingForgotten
    BY DEF NothingForgotten
  <2>1. ASSUME NEW c \in Creds, NextCheck(auths[c], now) # None, ~Reported(c)
        PROVE  index[c] # None /\ index[c] <= Limit(c, now)
    BY <2>1 DEF IInv, Heaped, Covered, InHeap
  <2>2. dirty # {} => wake \/ \E a \in Actors : pc[a] = "wake"
    BY DEF IInv, Awake
  <2> QED
    BY <2>1, <2>2 DEF NothingForgotten, IInv, Timed, Limit
<1> QED
  BY <1>1, AlwaysIInv, PTL

\* A credential is with one worker at a time unless its mark lapsed or an
\* update overwrote it, for any number of workers.
THEOREM OneRefresh == Spec => []RefreshedOnce
<1>1. IInv => RefreshedOnce
  BY DEF IInv, Once, RefreshedOnce
<1> QED
  BY <1>1, AlwaysIInv, PTL

\* The loop does not mark a credential twice at one time, whatever its
\* refreshes return.
THEOREM MarksThrottled == Spec => Throttled
<1>1. IInv => (pc[Loop] = "mark" /\ pc'[Loop] = "push" => cred[Loop] \notin hot)
  BY DEF IInv, Cool
<1>2. IInv => [pc[Loop] = "mark" /\ pc'[Loop] = "push" => cred[Loop] \notin hot]_vars
  BY <1>1
<1> QED
  BY <1>2, AlwaysIInv, PTL DEF Throttled

===============================================================================
