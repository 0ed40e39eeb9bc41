------------------------ MODULE ModelRegistry_proofs ------------------------
(***************************************************************************)
(* Type correctness of ModelRegistry; that GetAvailableModels never answers *)
(* with a stale list (AnswersCurrent); that the incremental counts agree    *)
(* with the lists of the clients (CountsMatch); and that nobody but its own *)
(* client lifts a mark (MarksAreOwn).                                       *)
(*                                                                         *)
(* For the cached list the inductive invariant adds to TypeOK that a       *)
(* lister's clock lies in the past, and CacheSound: there was an instant b, *)
(* not after now, at which the cached list was current, and it stays the   *)
(* list the registry would build at every later instant at which it is     *)
(* still valid.  That holds because the list expires with the first mark it *)
(* depends on (BuildStable), and because whatever changes a registration   *)
(* drops it.                                                               *)
(*                                                                         *)
(* For the counts it adds that a client with a list has a provider.  The   *)
(* references to a model are a finite set; giving a client a new list and  *)
(* provider exchanges its part of that set and no other (OneClient,        *)
(* OthersKeep), and each bookkeeping operation changes a registration by    *)
(* that difference (AddedCounts ... ReconciledCounts).  The marks follow:   *)
(* a model another client lets go keeps its registration, and with it the  *)
(* marks, because the count still holds the references of the client that   *)
(* stays (TwoClients).                                                     *)
(***************************************************************************)
EXTENDS ModelRegistry, FiniteSetTheorems, WellFoundedInduction, TLAPS

\* The clock a lister holds is one it read before.
AtPast == \A l \in Listers : at[l] # None => at[l] <= now

\* The cached list was current at some instant, and remains so while it is valid.
CacheSound ==
  cache # None =>
    \E b \in 0..now :
      /\ Valid(b)
      /\ \A t \in Nat : t >= b /\ Valid(t) => cache.models = Build(t)

IInv == TypeOK /\ AtPast /\ CacheSound

------------------------------------------------------------------------------
(* The operators.                                                           *)

\* A set of naturals has a least element.
LEMMA Earliest ==
  ASSUME NEW S, S \subseteq Nat, S # {}
  PROVE  \E x \in S : \A y \in S : x <= y
<1>1. PICK x \in S : \A y \in S : ~(<<y, x>> \in OpToRel(<, Nat))
  BY NatLessThanWellFounded, WFMin
<1>2. \A y \in S : ~(y < x)
  BY <1>1 DEF OpToRel
<1> QED
  BY <1>2

\* The reference bookkeeping of one model keeps its registration well formed.
LEMMA AddedType ==
  ASSUME NEW g \in Registration \cup {None}, NEW p \in Providers, NEW n \in Nat
  PROVE  /\ Added(g, p, n) \in Registration \cup {None}
         /\ n > 0 => Added(g, p, n) \in Registration
<1> USE RegistryAssumption
<1>1. CASE n = 0
  BY <1>1 DEF Added
<1>2. CASE n > 0 /\ g = None
  <2>1. Added(g, p, n) =
          [count |-> n, providers |-> [q \in Providers |-> IF q = p THEN n ELSE 0],
           quota |-> [c \in Clients |-> None], suspended |-> [c \in Clients |-> "no"]]
    BY <1>2 DEF Added
  <2> QED
    BY <2>1 DEF Registration
<1>3. CASE n > 0 /\ g # None
  <2>1. Added(g, p, n) = [g EXCEPT !.count = @ + n, !.providers[p] = @ + n]
    BY <1>3 DEF Added
  <2>2. g \in Registration /\ g.providers \in [Providers -> Nat] /\ g.count + n \in Nat
    BY <1>3 DEF Registration
  <2>3. [g.providers EXCEPT ![p] = @ + n] \in [Providers -> Nat]
    BY <2>2
  <2>4. Added(g, p, n) = [count |-> g.count + n, providers |-> [g.providers EXCEPT ![p] = @ + n],
                          quota |-> g.quota, suspended |-> g.suspended]
    BY <2>1, <2>2 DEF Registration
  <2> QED
    BY <2>2, <2>3, <2>4 DEF Registration
<1> QED
  BY <1>1, <1>2, <1>3

\* Less subtracts within the naturals.
LEMMA LessType ==
  ASSUME NEW a \in Nat, NEW b \in Nat
  PROVE  Less(a, b) \in Nat
BY DEF Less

\* The same for removeModelRegistration and unregisterClientInternal.
LEMMA RemovedType ==
  ASSUME NEW g \in Registration \cup {None}, NEW c \in Clients,
         NEW p \in Providers \cup {None}, NEW n \in Nat
  PROVE  /\ Removed(g, c, p, n) \in Registration \cup {None}
         /\ g # None /\ ~(g.count <= n) => Removed(g, c, p, n) \in Registration
<1>1. CASE n = 0 \/ g = None
  BY <1>1 DEF Removed
<1>2. CASE n > 0 /\ g # None /\ g.count <= n
  BY <1>2 DEF Removed
<1>3. CASE n > 0 /\ g # None /\ ~(g.count <= n)
  <2>1. Removed(g, c, p, n) =
          [g EXCEPT !.count = @ - n, !.providers[p] = Less(@, n),
                    !.quota[c] = None, !.suspended[c] = "no"]
    BY <1>3 DEF Removed
  <2>2. g \in Registration /\ g.count \in Nat /\ g.count - n \in Nat
    BY <1>3 DEF Registration
  <2>3. \A q \in Providers : Less(g.providers[q], n) \in Nat
    BY <2>2, LessType DEF Registration
  <2>4. /\ [g.providers EXCEPT ![p] = Less(@, n)] \in [Providers -> Nat]
        /\ [g.quota EXCEPT ![c] = None] \in [Clients -> Times \cup {None}]
        /\ [g.suspended EXCEPT ![c] = "no"] \in [Clients -> {"no", "quota", "other"}]
    BY <2>2, <2>3 DEF Registration
  <2>5. Removed(g, c, p, n) =
          [count |-> g.count - n, providers |-> [g.providers EXCEPT ![p] = Less(@, n)],
           quota |-> [g.quota EXCEPT ![c] = None], suspended |-> [g.suspended EXCEPT ![c] = "no"]]
    BY <2>1, <2>2 DEF Registration
  <2> QED
    BY <2>2, <2>4, <2>5 DEF Registration
<1> QED
  BY <1>1, <1>2, <1>3

\* The same for the last step of a registration.
LEMMA RenewedType ==
  ASSUME NEW g \in Registration, NEW c \in Clients, NEW p \in Providers, NEW n \in Nat
  PROVE  Renewed(g, c, p, n) \in Registration
<1>1. g.providers[p] + n \in Nat
  BY DEF Registration
<1> QED
  BY <1>1 DEF Renewed, Registration

\* The same for the reconciliation of a registered client.
LEMMA ReconciledType ==
  ASSUME NEW g \in Registration \cup {None}, NEW c \in Clients, NEW p \in Providers,
         clientProviders[c] \in Providers \cup {None}, NEW old \in Nat, NEW new \in Nat
  PROVE  Reconciled(g, c, p, old, new) \in Registration \cup {None}
<1> DEFINE from == clientProviders[c]
           shared == Shared(c, p, old, new)
           left == Left(g, from, shared)
           counted == Added(Removed(left, c, from, Less(old, new)), p, Less(new, old))
<1>1. shared \in Nat
  BY DEF Shared, Lesser
<1>2. left \in Registration \cup {None}
  <2>1. CASE shared = 0 \/ g = None
    BY <2>1 DEF Left
  <2>2. CASE shared # 0 /\ g # None
    <3>1. left = [g EXCEPT !.providers[from] = Less(@, shared)]
      BY <2>2 DEF Left
    <3>2. \A q \in Providers : Less(g.providers[q], shared) \in Nat
      BY <2>2, <1>1, LessType DEF Registration
    <3> QED
      BY <3>1, <3>2, <2>2 DEF Registration
  <2> QED
    BY <2>1, <2>2
<1>3. counted \in Registration \cup {None}
  BY <1>2, RemovedType, AddedType, LessType
<1> QED
  BY <1>1, <1>3, RenewedType DEF Reconciled

\* A mark lapses at a natural instant, after the instant at which it holds.
LEMMA LapsesLater ==
  ASSUME TypeOK, NEW t \in Nat
  PROVE  Lapses(t) \subseteq Nat /\ \A x \in Lapses(t) : t < x
<1> USE RegistryAssumption
<1>1. SUFFICES ASSUME NEW x \in Lapses(t)
               PROVE  x \in Nat /\ t < x
  OBVIOUS
<1>2. PICK m \in Models : models[m] # None /\ \E c \in Exhausted(models[m], t) : x = models[m].quota[c] + Window
  BY DEF Lapses
<1>3. PICK c \in Exhausted(models[m], t) : x = models[m].quota[c] + Window
  BY <1>2
<1>4. c \in Clients /\ models[m].quota[c] # None /\ t < models[m].quota[c] + Window
  BY <1>3 DEF Exhausted
<1>5. models[m].quota[c] \in Times
  BY <1>2, <1>4 DEF TypeOK, Registration
<1> QED
  BY <1>3, <1>4, <1>5 DEF Times

\* buildAvailableModelsLocked returns the first lapse, if there is one.
LEMMA ExpiryFirst ==
  ASSUME TypeOK, NEW t \in Nat
  PROVE  /\ Lapses(t) = {} => Expiry(t) = None
         /\ Lapses(t) # {} => /\ Expiry(t) \in Nat /\ t < Expiry(t)
                              /\ \A y \in Lapses(t) : Expiry(t) <= y
<1>1. CASE Lapses(t) = {}
  BY <1>1 DEF Expiry
<1>2. CASE Lapses(t) # {}
  <2>1. \E x \in Lapses(t) : \A y \in Lapses(t) : x <= y
    BY <1>2, LapsesLater, Earliest
  <2>2. Expiry(t) \in Lapses(t) /\ \A y \in Lapses(t) : Expiry(t) <= y
    BY <1>2, <2>1 DEF Expiry
  <2> QED
    BY <1>2, <2>2, LapsesLater
<1> QED
  BY <1>1, <1>2

\* The list built at t is the list of every later instant before it expires: no
\* mark that held at t lapses in between, and none begins to hold with time.
LEMMA BuildStable ==
  ASSUME TypeOK, NEW t \in Nat, NEW u \in Nat, t <= u, Expiry(t) = None \/ u < Expiry(t)
  PROVE  Build(u) = Build(t)
<1> USE RegistryAssumption
<1>1. ASSUME NEW m \in Models, models[m] # None
      PROVE  Exhausted(models[m], u) = Exhausted(models[m], t)
  <2>1. \A c \in Clients : models[m].quota[c] \in Times \cup {None}
    BY <1>1 DEF TypeOK, Registration
  <2>2. ASSUME NEW c \in Exhausted(models[m], t)
        PROVE  c \in Exhausted(models[m], u)
    <3>1. c \in Clients /\ models[m].quota[c] # None
      BY <2>2 DEF Exhausted
    <3>2. models[m].quota[c] + Window \in Lapses(t)
      BY <1>1, <2>2 DEF Lapses
    <3>3. Expiry(t) \in Nat /\ Expiry(t) <= models[m].quota[c] + Window
      BY <3>2, ExpiryFirst
    <3>4. u < Expiry(t)
      BY <3>3
    <3>5. u < models[m].quota[c] + Window
      BY <3>3, <3>4, <2>1, <3>1 DEF Times
    <3> QED
      BY <3>1, <3>5 DEF Exhausted
  <2>3. ASSUME NEW c \in Exhausted(models[m], u)
        PROVE  c \in Exhausted(models[m], t)
    BY <2>1, <2>3 DEF Exhausted, Times
  <2> QED
    BY <2>2, <2>3
<1>2. \A m \in Models : models[m] # None => (Listed(models[m], u) <=> Listed(models[m], t))
  BY <1>1 DEF Listed
<1> QED
  BY <1>2 DEF Build

------------------------------------------------------------------------------
(* Type correctness.                                                        *)

\* Every step keeps the types.
LEMMA TypeStep ==
  ASSUME TypeOK, [Next]_vars
  PROVE  TypeOK'
<1> USE RegistryAssumption
<1>1. ASSUME Tick PROVE TypeOK'
  BY <1>1 DEF Tick, TypeOK, registry, Times
<1>2. ASSUME NEW c \in Clients, UnregisterClient(c) PROVE TypeOK'
  <2>1. \A m \in Models : clientModels[c][m] \in Nat
    BY DEF TypeOK, Bags
  <2>2. clientProviders[c] \in Providers \cup {None}
    BY DEF TypeOK
  <2>3. \A m \in Models : Removed(models[m], c, clientProviders[c], clientModels[c][m]) \in Registration \cup {None}
    BY <2>1, <2>2, RemovedType DEF TypeOK
  <2>4. NoModels \in Bags
    BY DEF NoModels, Bags
  <2> QED
    BY <1>2, <2>3, <2>4 DEF UnregisterClient, TypeOK
<1>3. ASSUME NEW c \in Clients, NEW p \in Providers, NEW bag \in Bags, RegisterClient(c, p, bag) PROVE TypeOK'
  <2>1. \A m \in Models : clientModels[c][m] \in Nat /\ bag[m] \in Nat
    BY DEF TypeOK, Bags
  <2>2. clientProviders[c] \in Providers \cup {None}
    BY DEF TypeOK
  <2>3. models' \in [Models -> Registration \cup {None}]
    <3>1. CASE RegisterNew(c, p, bag)
      <4>1. \A m \in Models : Added(models[m], p, bag[m]) \in Registration \cup {None}
        BY <2>1, AddedType DEF TypeOK
      <4> QED
        BY <3>1, <4>1 DEF RegisterNew
    <3>2. CASE RegisterAgain(c, p, bag)
      <4>1. \A m \in Models : Reconciled(models[m], c, p, clientModels[c][m], bag[m]) \in Registration \cup {None}
        BY <2>1, <2>2, ReconciledType DEF TypeOK
      <4> QED
        BY <3>2, <4>1 DEF RegisterAgain
    <3> QED
      BY <1>3, <3>1, <3>2 DEF RegisterClient
  <2> QED
    BY <1>3, <2>3 DEF RegisterClient, TypeOK
<1>4. ASSUME NEW r \in Requests, NEW c \in Clients, NEW m \in Models, Pick(r, c, m) PROVE TypeOK'
  <2>1. [client |-> c, model |-> m, pc |-> "running", kind |-> "silent"] \in Requesting
    BY DEF Requesting, ResultKinds
  <2> QED
    BY <1>4, <2>1 DEF Pick, TypeOK, registry
<1>5. ASSUME NEW r \in Requests, NEW k \in Kinds, Finish(r, k) PROVE TypeOK'
  <2>1. req[r] \in Requesting
    BY <1>5 DEF Finish, At, TypeOK
  <2>2. /\ [req[r] EXCEPT !.kind = k, !.pc = "suspension"] \in Requesting
        /\ [req[r] EXCEPT !.kind = k, !.pc = "marks"] \in Requesting
    BY <2>1 DEF Requesting
  <2>3. req' \in [Requests -> Requesting \cup {None}]
    BY <1>5, <2>2 DEF Finish, TypeOK
  <2> QED
    BY <1>5, <2>3 DEF Finish, TypeOK, registry
<1>6. ASSUME NEW r \in Requests, ReportQuota(r) PROVE TypeOK'
  <2>1. req[r] \in Requesting /\ req[r].client \in Clients /\ req[r].model \in Models
    BY <1>6 DEF ReportQuota, At, TypeOK, Requesting
  <2>2. req' \in [Requests -> Requesting \cup {None}]
    BY <1>6, <2>1 DEF ReportQuota, TypeOK, Requesting
  <2>3. ASSUME NEW t \in Times \cup {None}, QuotaMark(req[r].client, req[r].model, t)
        PROVE  models' \in [Models -> Registration \cup {None}] /\ cache' \in Cached \cup {None}
    <3>1. models[req[r].model] # None =>
            [models[req[r].model] EXCEPT !.quota[req[r].client] = t] \in Registration
      BY <2>1 DEF TypeOK, Registration
    <3> QED
      BY <2>1, <2>3, <3>1 DEF QuotaMark, TypeOK
  <2> QED
    BY <1>6, <2>2, <2>3 DEF ReportQuota, TypeOK
<1>7. ASSUME NEW r \in Requests, ReportSuspension(r) PROVE TypeOK'
  <2>1. req[r] \in Requesting /\ req[r].client \in Clients /\ req[r].model \in Models
    BY <1>7 DEF ReportSuspension, At, TypeOK, Requesting
  <2>2. req' \in [Requests -> Requesting \cup {None}]
    BY <1>7 DEF ReportSuspension, TypeOK
  <2>3. ASSUME NEW s \in {"no", "quota", "other"}, models[req[r].model] # None
        PROVE  [models[req[r].model] EXCEPT !.suspended[req[r].client] = s] \in Registration
    BY <2>1, <2>3 DEF TypeOK, Registration
  <2>4. models' \in [Models -> Registration \cup {None}] /\ cache' \in Cached \cup {None}
    <3>1. CASE ResumeClientModel(req[r].client, req[r].model)
      BY <2>1, <2>3, <3>1 DEF ResumeClientModel, TypeOK
    <3>2. ASSUME NEW s \in {"quota", "other"}, SuspendClientModel(req[r].client, req[r].model, s)
          PROVE  models' \in [Models -> Registration \cup {None}] /\ cache' \in Cached \cup {None}
      BY <2>1, <2>3, <3>2 DEF SuspendClientModel, TypeOK
    <3> QED
      BY <1>7, <3>1, <3>2 DEF ReportSuspension
  <2> QED
    BY <1>7, <2>2, <2>4 DEF ReportSuspension, TypeOK
<1>8. ASSUME NEW l \in Listers, ListEnter(l) PROVE TypeOK'
  BY <1>8 DEF ListEnter, TypeOK, registry
<1>9. ASSUME NEW l \in Listers, ListServe(l) PROVE TypeOK'
  <2>1. at[l] \in Nat
    BY <1>9 DEF ListServe, TypeOK, Times
  <2>2. Build(at[l]) \subseteq Models /\ Expiry(at[l]) \in Nat \cup {None}
    BY <2>1, ExpiryFirst DEF Build
  <2> QED
    BY <1>9, <2>2 DEF ListServe, TypeOK, registry, Cached
<1>10. ASSUME UNCHANGED vars PROVE TypeOK'
  BY <1>10 DEF vars, TypeOK
<1> QED
  BY <1>1, <1>2, <1>3, <1>4, <1>5, <1>6, <1>7, <1>8, <1>9, <1>10 DEF Next

\* The registry, its cache and its callers keep their shape.
THEOREM TypeCorrect == Spec => []TypeOK
<1>1. Init => TypeOK
  BY RegistryAssumption DEF Init, TypeOK, Times, Bags, NoModels
<1>2. TypeOK /\ [Next]_vars => TypeOK'
  BY TypeStep
<1> QED
  BY <1>1, <1>2, PTL DEF Spec

------------------------------------------------------------------------------
(* The cached list.                                                         *)

\* The clock never runs backwards, so the clocks listers hold stay in the past.
LEMMA PastStep ==
  ASSUME TypeOK, AtPast, [Next]_vars
  PROVE  AtPast'
<1> USE RegistryAssumption
<1>1. now \in Nat /\ \A l \in Listers : at[l] \in Nat \cup {None}
  BY DEF TypeOK, Times
<1>2. CASE Tick
  BY <1>1, <1>2 DEF Tick, AtPast
<1>3. ASSUME NEW l \in Listers, ListEnter(l) PROVE AtPast'
  BY <1>1, <1>3 DEF ListEnter, AtPast, TypeOK
<1>4. ASSUME NEW l \in Listers, ListServe(l) PROVE AtPast'
  BY <1>1, <1>4 DEF ListServe, AtPast, TypeOK
<1>5. CASE UNCHANGED <<now, at>>
  BY <1>5 DEF AtPast
<1> QED
  BY <1>2, <1>3, <1>4, <1>5
  DEF Next, vars, UnregisterClient, RegisterClient, Pick, Finish, ReportQuota, ReportSuspension

\* A step that leaves the registrations and the cache alone keeps CacheSound.
LEMMA SoundFrame ==
  ASSUME TypeOK, CacheSound, UNCHANGED <<models, cache>>, now' \in Nat, now' >= now
  PROVE  CacheSound'
<1>1. \A t : (Valid(t)' <=> Valid(t)) /\ Build(t)' = Build(t)
  BY DEF Valid, Build, Listed, Exhausted, Suspended
<1>2. now \in Nat
  BY DEF TypeOK, Times
<1> QED
  BY <1>1, <1>2 DEF CacheSound

\* Every step keeps the cache sound.
LEMMA SoundStep ==
  ASSUME TypeOK, AtPast, CacheSound, [Next]_vars
  PROVE  CacheSound'
<1> USE RegistryAssumption
<1>0. now \in Nat
  BY DEF TypeOK, Times
<1>1. CASE Tick
  BY <1>0, <1>1, SoundFrame DEF Tick, registry
<1>2. CASE cache' = None
  BY <1>2 DEF CacheSound
<1>3. CASE UNCHANGED <<now, models, cache>>
  BY <1>0, <1>3, SoundFrame
<1>4. ASSUME NEW l \in Listers, ListServe(l) PROVE CacheSound'
  <2>1. CASE Valid(at[l])
    BY <1>0, <1>4, <2>1, SoundFrame DEF ListServe, registry
  <2>2. CASE ~Valid(at[l])
    <3>1. at[l] \in 0..now
      BY <1>0, <1>4 DEF ListServe, AtPast, TypeOK, Times
    <3>2. PICK a \in 0..now : a = at[l]
      BY <3>1
    <3>3. cache' = [models |-> Build(a), expires |-> Expiry(a)] /\ now' = now
      BY <1>4, <2>2, <3>2 DEF ListServe
    <3>4. \A t : Build(t)' = Build(t)
      BY <1>4 DEF ListServe, registry, Build, Listed, Exhausted, Suspended
    <3>5. Expiry(a) = None \/ a < Expiry(a)
      BY <1>0, ExpiryFirst
    <3>6. CASE cache' = None
      BY <3>6 DEF CacheSound
    <3>7. CASE cache' # None
      <4>1. \A t : Valid(t)' <=> (Expiry(a) = None \/ t < Expiry(a))
        BY <3>3, <3>7 DEF Valid
      <4>2. Valid(a)'
        BY <3>5, <4>1
      <4>3. ASSUME NEW t \in Nat, t >= a, Valid(t)'
            PROVE  cache'.models = Build(t)'
        <5>1. Build(t) = Build(a)
          BY <1>0, <4>1, <4>3, BuildStable
        <5> QED
          BY <3>3, <3>4, <5>1
      <4> QED
        BY <3>3, <4>2, <4>3 DEF CacheSound
    <3> QED
      BY <3>6, <3>7
  <2> QED
    BY <2>1, <2>2
<1> QED
  BY <1>1, <1>2, <1>3, <1>4
  DEF Next, vars, registry, UnregisterClient, RegisterClient, Pick, Finish, ReportQuota,
      ReportSuspension, QuotaMark, ResumeClientModel, SuspendClientModel, ListEnter

\* The inductive invariant.
LEMMA Inductive == Spec => []IInv
<1>1. Init => IInv
  BY RegistryAssumption DEF Init, IInv, TypeOK, Times, Bags, NoModels, AtPast, CacheSound
<1>2. IInv /\ [Next]_vars => IInv'
  BY TypeStep, PastStep, SoundStep DEF IInv
<1> QED
  BY <1>1, <1>2, PTL DEF Spec

\* GetAvailableModels is never stale: whatever marks lapse and whoever registers
\* in between, a lister is answered with the list of some instant since it
\* entered.  With a valid cache that is its entry, or the instant b of
\* CacheSound if the list was cached after the entry.
THEOREM ListsCurrent == Spec => []AnswersCurrent
<1>1. ASSUME IInv PROVE AnswersCurrent
  <2>1. SUFFICES ASSUME NEW l \in Listers, at[l] # None
                 PROVE  \E t \in at[l]..now : Answer(at[l]) = Build(t)
    BY DEF AnswersCurrent
  <2>2. now \in Nat /\ at[l] \in Nat /\ at[l] <= now
    BY <1>1, <2>1 DEF IInv, TypeOK, AtPast, Times
  <2>3. CASE ~Valid(at[l])
    BY <2>2, <2>3 DEF Answer
  <2>4. CASE Valid(at[l])
    <3>1. Answer(at[l]) = cache.models /\ cache # None
      BY <2>4 DEF Answer, Valid
    <3>2. PICK b \in 0..now : Valid(b) /\ \A t \in Nat : t >= b /\ Valid(t) => cache.models = Build(t)
      BY <1>1, <3>1 DEF IInv, CacheSound
    <3>3. CASE at[l] >= b
      BY <2>2, <2>4, <3>1, <3>2, <3>3
    <3>4. CASE at[l] < b
      <4>1. cache.models = Build(b) /\ b \in at[l]..now
        BY <2>2, <3>2, <3>4
      <4> QED
        BY <3>1, <4>1
    <3> QED
      BY <2>2, <3>2, <3>3, <3>4
  <2> QED
    BY <2>3, <2>4
<1>2. IInv => AnswersCurrent
  BY <1>1
<1> QED
  BY <1>2, Inductive, PTL

------------------------------------------------------------------------------
(* The reference counts.                                                    *)

\* A registration that counts n references, k[p] of them from provider p; no
\* registration counts none.
Counts(g, n, k) ==
  /\ g = None <=> n = 0
  /\ g # None => g.count = n /\ \A p \in Providers : g.providers[p] = k[p]

\* The references to m the lists hold per provider.
PerProvider(lists, provider, m) ==
  [p \in Providers |-> Cardinality(References(lists, m, {d \in Clients : provider[d] = p}))]

\* A client that holds a list is registered with a provider.
ListsOwned == \A c \in Clients : clientModels[c] # NoModels => clientProviders[c] \in Providers

CInv == TypeOK /\ ListsOwned /\ CountsMatch

\* Finitely many clients hold finitely many references.
LEMMA ReferencesFinite ==
  ASSUME NEW lists, NEW m, NEW S, S \subseteq Clients
  PROVE  IsFiniteSet(References(lists, m, S))
<1>1. MaxDup \in Int /\ IsFiniteSet(Clients)
  BY RegistryAssumption
<1>2. IsFiniteSet(1..MaxDup)
  BY <1>1, FS_Interval
<1>3. IsFiniteSet(Clients \X (1..MaxDup))
  BY <1>1, <1>2, FS_Product
<1>4. References(lists, m, S) \subseteq Clients \X (1..MaxDup)
  BY DEF References
<1> QED
  BY <1>3, <1>4, FS_Subset

\* The references of S are those of c, if it is one of S, and those of the others.
Splits(lists, m, S, c) ==
  /\ Cardinality(References(lists, m, S)) \in Nat
  /\ Cardinality(References(lists, m, S \ {c})) \in Nat
  /\ Cardinality(References(lists, m, S))
       = Cardinality(References(lists, m, S \ {c})) + (IF c \in S THEN lists[c][m] ELSE 0)

\* The references one client of S holds are as many as its list names the model.
LEMMA OneClient ==
  ASSUME NEW lists \in [Clients -> Bags], NEW m \in Models, NEW S \in SUBSET Clients, NEW c \in Clients
  PROVE  Splits(lists, m, S, c)
<1> USE RegistryAssumption
<1> DEFINE all == References(lists, m, S)
           rest == References(lists, m, S \ {c})
           n == lists[c][m]
           mine == {c} \X (1..n)
<1>1. IsFiniteSet(all) /\ IsFiniteSet(rest)
  BY ReferencesFinite
<1>2. n \in 0..MaxDup
  BY DEF Bags
<1>3. IsFiniteSet(mine) /\ Cardinality(mine) = n
  <2>1. IsFiniteSet(1..n) /\ Cardinality(1..n) = n
    <3>1. n \in Nat /\ 1 \in Int /\ n \in Int
      BY <1>2
    <3> HIDE DEF n
    <3>2. IsFiniteSet(1..n) /\ Cardinality(1..n) = IF 1 > n THEN 0 ELSE n - 1 + 1
      BY <3>1, FS_Interval
    <3> QED
      BY <3>1, <3>2
  <2>2. IsFiniteSet({c}) /\ Cardinality({c}) = 1
    BY FS_Singleton
  <2>3. IsFiniteSet(mine) /\ Cardinality(mine) = 1 * n
    BY <2>1, <2>2, FS_Product
  <2> QED
    BY <2>3, <1>2
<1>4. Cardinality(all) \in Nat /\ Cardinality(rest) \in Nat
  BY <1>1, FS_CardinalityType
<1>5. CASE c \notin S
  <2>1. rest = all
    <3>1. S \ {c} = S
      BY <1>5
    <3> QED
      BY <3>1
  <2>2. Cardinality(all) = Cardinality(rest) + 0
    BY <1>4, <2>1
  <2> QED
    BY <1>1, <1>4, <1>5, <2>2 DEF Splits
<1>6. CASE c \in S
  <2>1. all = rest \cup mine
    <3>1. ASSUME NEW r \in all PROVE r \in rest \cup mine
      BY <1>2 DEF References
    <3>2. ASSUME NEW r \in rest PROVE r \in all
      BY DEF References
    <3>3. ASSUME NEW r \in mine PROVE r \in all
      BY <1>2, <1>6 DEF References
    <3> QED
      BY <3>1, <3>2, <3>3
  <2>2. rest \cap mine = {}
    BY DEF References
  <2>3. Cardinality(rest \cap mine) = 0
    BY <2>2, FS_EmptySet
  <2>4. Cardinality(all) = Cardinality(rest) + Cardinality(mine) - Cardinality(rest \cap mine)
    BY <1>1, <1>3, <2>1, FS_Union
  <2> QED
    BY <1>1, <1>2, <1>3, <1>4, <1>6, <2>3, <2>4 DEF Splits
<1> QED
  BY <1>5, <1>6

\* More clients hold more references.
LEMMA MoreClients ==
  ASSUME NEW lists \in [Clients -> Bags], NEW m \in Models, NEW S, S \subseteq Clients
  PROVE  Cardinality(References(lists, m, S)) <= Cardinality(References(lists, m, Clients))
<1> USE RegistryAssumption
<1>1. References(lists, m, S) \subseteq References(lists, m, Clients)
  BY DEF References
<1>2. IsFiniteSet(References(lists, m, Clients))
  BY ReferencesFinite
<1> QED
  BY <1>1, <1>2, FS_Subset

\* The references of the others do not depend on the list of c.
LEMMA OthersSame ==
  ASSUME NEW lists, NEW new, NEW m, NEW S, NEW c, \A d \in S \ {c} : new[d] = lists[d]
  PROVE  References(new, m, S \ {c}) = References(lists, m, S \ {c})
BY DEF References

\* What a new list for c does to the references: the total, ...
LEMMA TotalChange ==
  ASSUME NEW lists \in [Clients -> Bags], NEW m \in Models, NEW c \in Clients, NEW bag \in Bags
  PROVE  /\ lists[c][m] \in Nat /\ bag[m] \in Nat
         /\ Cardinality(References(lists, m, Clients)) \in Nat
         /\ lists[c][m] <= Cardinality(References(lists, m, Clients))
         /\ Cardinality(References([lists EXCEPT ![c] = bag], m, Clients))
              = Cardinality(References(lists, m, Clients)) - lists[c][m] + bag[m]
<1> DEFINE new == [lists EXCEPT ![c] = bag]
<1>1. lists[c][m] \in Nat /\ bag[m] \in Nat
  BY RegistryAssumption DEF Bags
<1>2. new \in [Clients -> Bags] /\ new[c] = bag
  OBVIOUS
<1>3. Cardinality(References(lists, m, Clients))
        = Cardinality(References(lists, m, Clients \ {c})) + lists[c][m]
  <2>1. Splits(lists, m, Clients, c)
    BY OneClient
  <2> QED
    BY <2>1 DEF Splits
<1>5. References(new, m, Clients \ {c}) = References(lists, m, Clients \ {c})
  <2>1. \A d \in Clients \ {c} : new[d] = lists[d]
    OBVIOUS
  <2> HIDE DEF new
  <2> QED
    BY <2>1, OthersSame
<1> HIDE DEF new
<1>4. Cardinality(References(new, m, Clients)) = Cardinality(References(new, m, Clients \ {c})) + bag[m]
  <2>1. Splits(new, m, Clients, c)
    BY <1>2, OneClient
  <2> QED
    BY <1>2, <2>1 DEF Splits
<1>6. Cardinality(References(lists, m, Clients \ {c})) \in Nat
  <2>1. Splits(lists, m, Clients, c)
    BY OneClient
  <2> QED
    BY <2>1 DEF Splits
<1> QED
  BY <1>1, <1>3, <1>4, <1>5, <1>6 DEF new

\* The references the clients of a provider other than c hold.
OthersAt(lists, provider, m, c, p) ==
  Cardinality(References(lists, m, {d \in Clients : provider[d] = p} \ {c}))

\* ... and what each provider has of it.
Holds(lists, provider, m, c, p) ==
  /\ OthersAt(lists, provider, m, c, p) \in Nat
  /\ PerProvider(lists, provider, m)[p]
       = OthersAt(lists, provider, m, c, p) + (IF provider[c] = p THEN lists[c][m] ELSE 0)

\* A provider's count of a model is what a client holds under it, and what the others do.
LEMMA HeldOfProvider ==
  ASSUME NEW lists \in [Clients -> Bags], NEW provider,
         NEW m \in Models, NEW c \in Clients, NEW p \in Providers
  PROVE  Holds(lists, provider, m, c, p)
<1>1. PICK S \in SUBSET Clients : S = {d \in Clients : provider[d] = p}
  OBVIOUS
<1>2. Splits(lists, m, S, c)
  BY OneClient
<1>3. PerProvider(lists, provider, m)[p] = Cardinality(References(lists, m, S))
  BY <1>1 DEF PerProvider
<1>4. c \in S <=> provider[c] = p
  BY <1>1
<1>5. OthersAt(lists, provider, m, c, p) = Cardinality(References(lists, m, S \ {c}))
  BY <1>1 DEF OthersAt
<1> QED
  BY <1>2, <1>3, <1>4, <1>5 DEF Holds, Splits

\* The others do not notice the new list and provider of c.
SameOthers(lists, new, provider, next, c) ==
  \A d \in Clients \ {c} : new[d] = lists[d] /\ next[d] = provider[d]

\* What others hold does not change with one client's list.
LEMMA OthersKeep ==
  ASSUME NEW lists, NEW new, NEW provider, NEW next, NEW m, NEW c, NEW p,
         SameOthers(lists, new, provider, next, c)
  PROVE  OthersAt(new, next, m, c, p) = OthersAt(lists, provider, m, c, p)
<1>1. {d \in Clients : next[d] = p} \ {c} = {d \in Clients : provider[d] = p} \ {c}
  BY DEF SameOthers
<1>2. References(new, m, {d \in Clients : provider[d] = p} \ {c})
        = References(lists, m, {d \in Clients : provider[d] = p} \ {c})
  BY DEF References, SameOthers
<1> QED
  BY <1>1, <1>2 DEF OthersAt

\* n calls of addModelRegistration add n references of provider p.
LEMMA AddedCounts ==
  ASSUME NEW g \in Registration \cup {None}, NEW p \in Providers, NEW d \in Nat,
         NEW n \in Nat, NEW k \in [Providers -> Nat], d > 0 => \A q \in Providers : k[q] <= n,
         Counts(g, n, k)
  PROVE  Counts(Added(g, p, d), n + d, [k EXCEPT ![p] = @ + d])
<1> USE RegistryAssumption
<1>1. CASE d = 0
  <2>1. Added(g, p, d) = g /\ n + d = n /\ [k EXCEPT ![p] = @ + d] = k
    BY <1>1 DEF Added
  <2> QED
    BY <2>1
<1>2. CASE d > 0 /\ g = None
  <2>1. Added(g, p, d) =
          [count |-> d, providers |-> [q \in Providers |-> IF q = p THEN d ELSE 0],
           quota |-> [c \in Clients |-> None], suspended |-> [c \in Clients |-> "no"]]
    BY <1>2 DEF Added
  <2>2. n = 0 /\ \A q \in Providers : k[q] = 0
    BY <1>2 DEF Counts
  <2>3. Added(g, p, d) # None
    <3>1. Added(g, p, d) \in Registration
      BY <1>2, AddedType
    <3> QED
      BY <3>1
  <2> QED
    BY <1>2, <2>1, <2>2, <2>3 DEF Counts
<1>3. CASE d > 0 /\ g # None
  <2>1. Added(g, p, d) = [g EXCEPT !.count = @ + d, !.providers[p] = @ + d]
    BY <1>3 DEF Added
  <2>2. g \in Registration /\ g.providers \in [Providers -> Nat] /\ g.count = n
    BY <1>3 DEF Registration, Counts
  <2>3. Added(g, p, d).count = n + d
    BY <2>1, <2>2 DEF Registration
  <2>4. Added(g, p, d).providers = [g.providers EXCEPT ![p] = @ + d]
    BY <2>1, <2>2 DEF Registration
  <2>5. \A q \in Providers : Added(g, p, d).providers[q] = [k EXCEPT ![p] = @ + d][q]
    BY <1>3, <2>2, <2>4 DEF Counts
  <2>6. Added(g, p, d) # None
    <3>1. Added(g, p, d) \in Registration
      BY <1>3, AddedType
    <3> QED
      BY <3>1
  <2> QED
    BY <1>3, <2>3, <2>5, <2>6 DEF Counts
<1> QED
  BY <1>1, <1>2, <1>3

\* n calls of removeModelRegistration take n references of provider p, and the
\* registration goes with the last reference.
LEMMA RemovedCounts ==
  ASSUME NEW g \in Registration \cup {None}, NEW c \in Clients, NEW p \in Providers, NEW d \in Nat,
         NEW n \in Nat, NEW k \in [Providers -> Nat], d <= k[p], k[p] <= n,
         Counts(g, n, k)
  PROVE  Counts(Removed(g, c, p, d), n - d, [k EXCEPT ![p] = @ - d])
<1> USE RegistryAssumption
<1>1. CASE d = 0
  <2>1. Removed(g, c, p, d) = g /\ n - d = n /\ [k EXCEPT ![p] = @ - d] = k
    BY <1>1 DEF Removed
  <2> QED
    BY <2>1
<1>2. CASE d > 0 /\ n = d
  <2>1. Removed(g, c, p, d) = None /\ n - d = 0
    BY <1>2 DEF Removed, Counts
  <2> QED
    BY <2>1 DEF Counts
<1>3. CASE d > 0 /\ n # d
  <2>1. g # None /\ g \in Registration /\ g.count = n /\ ~(g.count <= d) /\ n - d \in Nat /\ n - d # 0
    BY <1>3 DEF Counts, Registration
  <2>2. Removed(g, c, p, d) =
          [g EXCEPT !.count = @ - d, !.providers[p] = Less(@, d),
                    !.quota[c] = None, !.suspended[c] = "no"]
    BY <1>3, <2>1 DEF Removed
  <2>3. Removed(g, c, p, d).count = n - d
    BY <2>1, <2>2 DEF Registration
  <2>4. Removed(g, c, p, d).providers = [g.providers EXCEPT ![p] = Less(@, d)]
    BY <2>1, <2>2 DEF Registration
  <2>5. g.providers \in [Providers -> Nat] /\ \A q \in Providers : g.providers[q] = k[q]
    BY <2>1 DEF Registration, Counts
  <2>6. \A q \in Providers : Removed(g, c, p, d).providers[q] = [k EXCEPT ![p] = @ - d][q]
    BY <2>4, <2>5 DEF Less
  <2>7. Removed(g, c, p, d) # None
    BY <1>3, <2>1, RemovedType
  <2> QED
    BY <2>1, <2>3, <2>6, <2>7 DEF Counts
<1> QED
  BY <1>1, <1>2, <1>3

\* A provider change takes the shared references from the old provider ...
LEMMA LeftCounts ==
  ASSUME NEW g \in Registration \cup {None}, NEW p \in Providers, NEW d \in Nat,
         NEW n \in Nat, NEW k \in [Providers -> Nat], d <= k[p], k[p] <= n, Counts(g, n, k)
  PROVE  /\ Left(g, p, d) \in Registration \cup {None}
         /\ Counts(Left(g, p, d), n, [k EXCEPT ![p] = @ - d])
<1>1. CASE d = 0
  <2>1. Left(g, p, d) = g /\ [k EXCEPT ![p] = @ - d] = k
    BY <1>1 DEF Left
  <2> QED
    BY <2>1
<1>2. CASE d > 0
  <2>1. g # None /\ g \in Registration /\ n > 0
    BY <1>2 DEF Counts
  <2>2. Left(g, p, d) = [g EXCEPT !.providers[p] = Less(@, d)]
    BY <1>2, <2>1 DEF Left
  <2>3. /\ Left(g, p, d).count = g.count
        /\ Left(g, p, d).providers = [g.providers EXCEPT ![p] = Less(@, d)]
    BY <2>1, <2>2 DEF Registration
  <2>4. g.providers \in [Providers -> Nat] /\ g.count = n /\ \A q \in Providers : g.providers[q] = k[q]
    BY <2>1 DEF Registration, Counts
  <2>5. \A q \in Providers : Left(g, p, d).providers[q] = [k EXCEPT ![p] = @ - d][q]
    BY <2>3, <2>4 DEF Less
  <2>6. Left(g, p, d) \in Registration
    <3>1. Less(g.providers[p], d) \in Nat
      BY <2>4, LessType
    <3> QED
      BY <2>1, <2>2, <3>1 DEF Registration
  <2>7. Left(g, p, d) # None
    BY <2>6, RegistryAssumption
  <2> QED
    BY <2>1, <2>3, <2>4, <2>5, <2>6, <2>7 DEF Counts
<1> QED
  BY <1>1, <1>2

\* ... and gives them to the new one.
LEMMA RenewedCounts ==
  ASSUME NEW g \in Registration, NEW c \in Clients, NEW p \in Providers, NEW d \in Nat,
         NEW n \in Nat, NEW k \in [Providers -> Nat], Counts(g, n, k)
  PROVE  Counts(Renewed(g, c, p, d), n, [k EXCEPT ![p] = @ + d])
<1> USE RegistryAssumption
<1>1. g # None /\ g.providers \in [Providers -> Nat]
  BY DEF Registration
<1>2. g.count = n /\ n # 0 /\ \A q \in Providers : g.providers[q] = k[q]
  BY <1>1 DEF Counts
<1>3. /\ Renewed(g, c, p, d).count = g.count
      /\ Renewed(g, c, p, d).providers = [g.providers EXCEPT ![p] = @ + d]
  BY <1>1 DEF Renewed, Registration
<1>4. \A q \in Providers : Renewed(g, c, p, d).providers[q] = [k EXCEPT ![p] = @ + d][q]
  BY <1>1, <1>2, <1>3
<1>5. Renewed(g, c, p, d) # None
  BY RenewedType
<1> QED
  BY <1>2, <1>3, <1>4, <1>5 DEF Counts

\* What the providers have after a client gave up its old references at one of
\* them and got its new ones at another.
Rebooked(k, from, to, old, new) ==
  [q \in Providers |-> k[q] - (IF q = from THEN old ELSE 0) + (IF q = to THEN new ELSE 0)]

\* The reconciliation of RegisterClient replaces the old references of the
\* client by the new ones.
LEMMA ReconciledCounts ==
  ASSUME NEW g \in Registration \cup {None}, NEW c \in Clients, NEW p \in Providers,
         clientProviders[c] \in Providers, NEW old \in Nat, NEW new \in Nat,
         NEW n \in Nat, NEW k \in [Providers -> Nat], \A q \in Providers : k[q] <= n,
         old <= k[clientProviders[c]], Counts(g, n, k)
  PROVE  Counts(Reconciled(g, c, p, old, new), n - old + new, Rebooked(k, clientProviders[c], p, old, new))
<1> USE RegistryAssumption
<1>0. PICK from \in Providers : from = clientProviders[c]
  OBVIOUS
<1>1. PICK s \in Nat : s = Shared(c, p, old, new)
  BY DEF Shared, Lesser
<1>2. PICK x \in Nat : x = Less(old, new)
  BY LessType
<1>3. PICK y \in Nat : y = Less(new, old)
  BY LessType
<1>4. /\ s + x <= old /\ s + y <= new /\ (y > 0 => x = 0) /\ old - x = new - y
      /\ from = p => s = 0
      /\ from # p => s + x = old /\ s + y = new
  BY <1>0, <1>1, <1>2, <1>3 DEF Shared, Lesser, Less
<1>5. old <= k[from] /\ k[from] <= n
  BY <1>0
<1>6. PICK k1 \in [Providers -> Nat] : k1 = [k EXCEPT ![from] = @ - s]
  <2>1. k[from] - s \in Nat
    BY <1>4, <1>5
  <2> QED
    BY <2>1
<1>7. PICK left \in Registration \cup {None} : left = Left(g, from, s) /\ Counts(left, n, k1)
  <2>1. s <= k[from]
    BY <1>4, <1>5
  <2> QED
    BY <1>5, <1>6, <2>1, LeftCounts
<1>8. x <= k1[from] /\ k1[from] <= n
  BY <1>4, <1>5, <1>6
<1>9. PICK k2 \in [Providers -> Nat] : k2 = [k1 EXCEPT ![from] = @ - x]
  <2>1. k1[from] - x \in Nat
    BY <1>8
  <2> QED
    BY <2>1
<1>10. PICK removed \in Registration \cup {None} :
         removed = Removed(left, c, from, x) /\ Counts(removed, n - x, k2)
  BY <1>7, <1>8, <1>9, RemovedCounts, RemovedType
<1>11. n - x \in Nat /\ (y > 0 => \A q \in Providers : k2[q] <= n - x)
  BY <1>4, <1>5, <1>6, <1>8, <1>9
<1>12. PICK k3 \in [Providers -> Nat] : k3 = [k2 EXCEPT ![p] = @ + y]
  <2>1. k2[p] + y \in Nat
    OBVIOUS
  <2> QED
    BY <2>1
<1>13. PICK counted \in Registration \cup {None} :
         counted = Added(removed, p, y) /\ Counts(counted, n - x + y, k3)
  BY <1>10, <1>11, <1>12, AddedCounts, AddedType
<1>14. n - x + y = n - old + new
  BY <1>4
<1>15. Reconciled(g, c, p, old, new) =
         IF new = 0 \/ counted = None THEN counted ELSE Renewed(counted, c, p, s)
  BY <1>0, <1>1, <1>2, <1>3, <1>7, <1>10, <1>13 DEF Reconciled
<1>16. PICK final \in [Providers -> Int] :
         final = [q \in Providers |-> k[q] - (IF q = from THEN old ELSE 0)
                                           + (IF q = p THEN new ELSE 0)]
  <2>1. \A q \in Providers :
          k[q] - (IF q = from THEN old ELSE 0) + (IF q = p THEN new ELSE 0) \in Int
    OBVIOUS
  <2> QED
    BY <2>1
<1>17. Counts(Reconciled(g, c, p, old, new), n - old + new, final)
  <2>1. CASE new = 0
    <3>1. s = 0 /\ y = 0 /\ x = old
      BY <1>4, <2>1
    <3>2. k3 = final
      <4>1. ASSUME NEW q \in Providers PROVE k3[q] = final[q]
        BY <1>6, <1>9, <1>12, <1>16, <2>1, <3>1
      <4> QED
        BY <4>1
    <3> QED
      BY <1>13, <1>14, <1>15, <2>1, <3>2
  <2>2. CASE counted = None
    <3>1. n - old + new = 0
      BY <1>13, <1>14, <2>2 DEF Counts
    <3>2. new = 0
      BY <1>5, <3>1
    <3> QED
      BY <2>1, <3>2
  <2>3. CASE new # 0 /\ counted # None
    <3>1. Counts(Renewed(counted, c, p, s), n - x + y, [k3 EXCEPT ![p] = @ + s])
      <4>1. counted \in Registration /\ n - x + y \in Nat
        BY <1>11, <2>3
      <4> QED
        BY <1>13, <4>1, RenewedCounts
    <3>2. [k3 EXCEPT ![p] = @ + s] = final
      <4>1. ASSUME NEW q \in Providers
            PROVE  [k3 EXCEPT ![p] = @ + s][q] = final[q]
        BY <1>4, <1>6, <1>9, <1>12, <1>16
      <4> QED
        BY <1>16, <4>1
    <3> QED
      BY <1>14, <1>15, <2>3, <3>1, <3>2
  <2> QED
    BY <2>1, <2>2, <2>3
<1> QED
  BY <1>0, <1>16, <1>17 DEF Rebooked

\* CountsMatch in the terms of the lemmas above.
CountsHold ==
  \A m \in Models : Counts(models[m], Cardinality(References(clientModels, m, Clients)),
                           PerProvider(clientModels, clientProviders, m))

\* The invariant of the runs, in the form the proofs use.
LEMMA CountsInState == CountsMatch <=> CountsHold
BY DEF CountsMatch, CountsHold, Counts, PerProvider, ServedBy

\* The references a new list and provider of c leave, client by client.
LEMMA ListReplaced ==
  ASSUME TypeOK, NEW m \in Models, NEW c \in Clients, NEW bag \in Bags, NEW to \in Providers \cup {None},
         clientModels' = [clientModels EXCEPT ![c] = bag],
         clientProviders' = [clientProviders EXCEPT ![c] = to],
         NEW g, NEW n, n = Cardinality(References(clientModels, m, Clients)) - clientModels[c][m] + bag[m],
         Counts(g, n, Rebooked(PerProvider(clientModels, clientProviders, m), clientProviders[c], to,
                               clientModels[c][m], bag[m]))
  PROVE  Counts(g, Cardinality(References(clientModels', m, Clients)),
                PerProvider(clientModels', clientProviders', m))
<1>1. clientModels \in [Clients -> Bags] /\ clientProviders \in [Clients -> Providers \cup {None}]
  BY DEF TypeOK
<1>2. Cardinality(References(clientModels', m, Clients))
        = Cardinality(References(clientModels, m, Clients)) - clientModels[c][m] + bag[m]
  BY <1>1, TotalChange
<1>3. /\ clientModels' \in [Clients -> Bags] /\ clientModels'[c] = bag /\ clientProviders'[c] = to
      /\ SameOthers(clientModels, clientModels', clientProviders, clientProviders', c)
  BY <1>1 DEF SameOthers
<1>4. ASSUME NEW p \in Providers
      PROVE  PerProvider(clientModels', clientProviders', m)[p]
               = Rebooked(PerProvider(clientModels, clientProviders, m), clientProviders[c], to,
                          clientModels[c][m], bag[m])[p]
  <2>1. Holds(clientModels, clientProviders, m, c, p)
    BY <1>1, HeldOfProvider
  <2>2. Holds(clientModels', clientProviders', m, c, p)
    BY <1>3, HeldOfProvider
  <2>3. OthersAt(clientModels', clientProviders', m, c, p) = OthersAt(clientModels, clientProviders, m, c, p)
    BY <1>3, OthersKeep
  <2>5. clientModels[c][m] \in Nat /\ bag[m] \in Nat
    BY <1>1, RegistryAssumption DEF Bags
  <2> QED
    BY <1>3, <2>1, <2>2, <2>3, <2>5 DEF Holds, Rebooked
<1> QED
  BY <1>2, <1>4 DEF Counts

\* A client the registry knows has a provider, and its list is counted.
LEMMA OwnedCounted ==
  ASSUME CInv, NEW m \in Models
  PROVE  LET n == Cardinality(References(clientModels, m, Clients))
             k == PerProvider(clientModels, clientProviders, m)
         IN  /\ n \in Nat /\ k \in [Providers -> Nat]
             /\ \A p \in Providers : k[p] <= n
             /\ Counts(models[m], n, k)
             /\ \A c \in Clients : clientModels[c][m] \in Nat /\ clientModels[c][m] <= n
             /\ \A c \in Clients : clientProviders[c] \in Providers => clientModels[c][m] <= k[clientProviders[c]]
<1> DEFINE n == Cardinality(References(clientModels, m, Clients))
           k == PerProvider(clientModels, clientProviders, m)
<1>1. clientModels \in [Clients -> Bags] /\ clientProviders \in [Clients -> Providers \cup {None}]
  BY DEF CInv, TypeOK
<1>2. IsFiniteSet(References(clientModels, m, Clients))
  BY ReferencesFinite
<1>3. n \in Nat
  BY <1>2, FS_CardinalityType
<1>4. k = [p \in Providers |-> Cardinality(References(clientModels, m, {d \in Clients : clientProviders[d] = p}))]
  BY DEF PerProvider
<1>5. ASSUME NEW p \in Providers PROVE k[p] \in Nat /\ k[p] <= n
  <2>1. {d \in Clients : clientProviders[d] = p} \subseteq Clients
    OBVIOUS
  <2>2. IsFiniteSet(References(clientModels, m, {d \in Clients : clientProviders[d] = p}))
    BY <2>1, ReferencesFinite
  <2>3. Cardinality(References(clientModels, m, {d \in Clients : clientProviders[d] = p})) \in Nat
    BY <2>2, FS_CardinalityType
  <2>4. Cardinality(References(clientModels, m, {d \in Clients : clientProviders[d] = p})) <= n
    BY <1>1, <2>1, MoreClients
  <2> QED
    BY <1>4, <2>3, <2>4
<1>6. k \in [Providers -> Nat]
  BY <1>4, <1>5
<1>7. Counts(models[m], n, k)
  BY CountsInState DEF CInv, CountsHold
<1>8. NoModels \in Bags
  BY RegistryAssumption DEF NoModels, Bags
<1>9. ASSUME NEW c \in Clients
      PROVE  /\ clientModels[c][m] \in Nat /\ clientModels[c][m] <= n
             /\ clientProviders[c] \in Providers => clientModels[c][m] <= k[clientProviders[c]]
  <2>1. clientModels[c][m] \in Nat /\ clientModels[c][m] <= n
    BY <1>1, <1>8, TotalChange
  <2>2. ASSUME clientProviders[c] \in Providers PROVE clientModels[c][m] <= k[clientProviders[c]]
    <3>1. Holds(clientModels, clientProviders, m, c, clientProviders[c])
      BY <1>1, <2>2, HeldOfProvider
    <3> QED
      BY <2>1, <2>2, <3>1 DEF Holds
  <2> QED
    BY <2>1, <2>2
<1> QED
  BY <1>3, <1>5, <1>6, <1>7, <1>9

\* Steps that leave the lists and the counts alone.
CountsKept ==
  /\ UNCHANGED <<clientModels, clientProviders>>
  /\ \A m \in Models : /\ models'[m] = None <=> models[m] = None
                       /\ models[m] # None => /\ models'[m].count = models[m].count
                                              /\ models'[m].providers = models[m].providers

\* A step that touches neither lists nor counts keeps them in agreement.
LEMMA CountsFrame ==
  ASSUME ListsOwned, CountsMatch, CountsKept
  PROVE  ListsOwned' /\ CountsMatch'
<1>1. ListsOwned'
  BY DEF ListsOwned, CountsKept
<1>2. CountsMatch'
  BY DEF CountsMatch, CountsKept, References, ServedBy
<1> QED
  BY <1>1, <1>2

\* A mark leaves the counts alone.
LEMMA MarkKeeps ==
  ASSUME TypeOK, UNCHANGED <<clientModels, clientProviders>>,
         NEW c \in Clients, NEW m \in Models,
         \/ UNCHANGED models
         \/ models[m] # None /\ \E t \in Times \cup {None} : models' = [models EXCEPT ![m].quota[c] = t]
         \/ models[m] # None /\ \E s \in {"no", "quota", "other"} : models' = [models EXCEPT ![m].suspended[c] = s]
  PROVE  CountsKept
<1> USE RegistryAssumption
<1>1. CASE UNCHANGED models
  BY <1>1 DEF CountsKept
<1>2. ASSUME models[m] # None,
             NEW g \in Registration, models' = [models EXCEPT ![m] = g],
             g.count = models[m].count, g.providers = models[m].providers
      PROVE  CountsKept
  BY <1>2 DEF CountsKept, TypeOK
<1>3. ASSUME models[m] # None, NEW t \in Times \cup {None}, models' = [models EXCEPT ![m].quota[c] = t]
      PROVE  CountsKept
  <2>1. models[m] \in Registration
    BY <1>3 DEF TypeOK
  <2>2. PICK g : g = [models[m] EXCEPT !.quota[c] = t]
    OBVIOUS
  <2>3. g \in Registration /\ g.count = models[m].count /\ g.providers = models[m].providers
    BY <2>1, <2>2 DEF Registration
  <2> QED
    BY <1>2, <1>3, <2>2, <2>3
<1>4. ASSUME models[m] # None, NEW s \in {"no", "quota", "other"},
             models' = [models EXCEPT ![m].suspended[c] = s]
      PROVE  CountsKept
  <2>1. models[m] \in Registration
    BY <1>4 DEF TypeOK
  <2>2. PICK g : g = [models[m] EXCEPT !.suspended[c] = s]
    OBVIOUS
  <2>3. g \in Registration /\ g.count = models[m].count /\ g.providers = models[m].providers
    BY <2>1, <2>2 DEF Registration
  <2> QED
    BY <1>2, <1>4, <2>2, <2>3
<1> QED
  BY <1>1, <1>3, <1>4

\* Every step keeps the counts: an unregistration takes the references of the
\* client, a registration replaces them, nothing else touches them.
LEMMA CountsStep ==
  ASSUME CInv, [Next]_vars
  PROVE  CInv'
<1> USE RegistryAssumption
<1>0. TypeOK /\ ListsOwned /\ CountsMatch /\ TypeOK'
  BY TypeStep DEF CInv
<1>1. ASSUME CountsKept PROVE CInv'
  BY <1>0, <1>1, CountsFrame DEF CInv
<1>2. ASSUME CountsHold', ListsOwned' PROVE CInv'
  <2>1. CountsMatch'
    BY <1>2 DEF CountsMatch, CountsHold, Counts, PerProvider, ServedBy
  <2> QED
    BY <1>0, <1>2, <2>1 DEF CInv
<1>3. ASSUME NEW c \in Clients, UnregisterClient(c) PROVE CInv'
  <2>1. ListsOwned'
    BY <1>0, <1>3 DEF UnregisterClient, ListsOwned, TypeOK
  <2>2. ASSUME NEW m \in Models
        PROVE  Counts(models'[m], Cardinality(References(clientModels', m, Clients)),
                      PerProvider(clientModels', clientProviders', m))
    <3>1. PICK n \in Nat : n = Cardinality(References(clientModels, m, Clients))
      BY OwnedCounted
    <3>2. PICK k \in [Providers -> Nat] : k = PerProvider(clientModels, clientProviders, m)
      BY OwnedCounted
    <3>3. PICK d \in Nat : d = clientModels[c][m]
      BY OwnedCounted
    <3>4. /\ Counts(models[m], n, k) /\ d <= n /\ \A p \in Providers : k[p] <= n
          /\ clientProviders[c] \in Providers => d <= k[clientProviders[c]]
      BY <3>1, <3>2, <3>3, OwnedCounted
    <3>5. models'[m] = Removed(models[m], c, clientProviders[c], d)
      BY <1>3, <3>3 DEF UnregisterClient
    <3>6. NoModels \in Bags /\ NoModels[m] = 0
      BY DEF NoModels, Bags
    <3>7. Counts(Removed(models[m], c, clientProviders[c], d), n - d,
                 Rebooked(k, clientProviders[c], None, d, 0))
      <4>1. CASE clientProviders[c] \in Providers
        <5>1. PICK from \in Providers : from = clientProviders[c]
          BY <4>1
        <5>2. models[m] \in Registration \cup {None} /\ d <= k[from] /\ k[from] <= n
          BY <1>0, <3>4, <5>1 DEF TypeOK
        <5>3. Counts(Removed(models[m], c, from, d), n - d, [k EXCEPT ![from] = @ - d])
          BY <3>4, <5>2, RemovedCounts
        <5>4. \A p \in Providers : [k EXCEPT ![from] = @ - d][p] = Rebooked(k, from, None, d, 0)[p]
          BY DEF Rebooked
        <5> QED
          BY <5>1, <5>3, <5>4 DEF Counts
      <4>2. CASE clientProviders[c] \notin Providers
        <5>1. d = 0
          BY <1>0, <3>3, <4>2 DEF ListsOwned, NoModels
        <5>2. Removed(models[m], c, clientProviders[c], d) = models[m] /\ n - d = n
          BY <5>1 DEF Removed
        <5>3. \A p \in Providers : k[p] = Rebooked(k, clientProviders[c], None, d, 0)[p]
          BY <5>1 DEF Rebooked
        <5> QED
          BY <3>4, <5>2, <5>3 DEF Counts
      <4> QED
        BY <4>1, <4>2
    <3>8. /\ clientModels' = [clientModels EXCEPT ![c] = NoModels]
          /\ clientProviders' = [clientProviders EXCEPT ![c] = None]
      BY <1>3 DEF UnregisterClient
    <3>9. n - d = n - d + NoModels[m]
      BY <3>6
    <3>10. TypeOK /\ NoModels \in Bags /\ None \in Providers \cup {None}
      BY <1>0, <3>6
    <3>11. Counts(models'[m], n - d, Rebooked(k, clientProviders[c], None, d, NoModels[m]))
      BY <3>5, <3>6, <3>7
    <3> QED
      BY <3>1, <3>2, <3>3, <3>8, <3>9, <3>10, <3>11, ListReplaced
  <2>3. CountsHold'
    BY <2>2 DEF CountsHold
  <2> QED
    BY <1>2, <2>1, <2>3
<1>4. ASSUME NEW c \in Clients, NEW p \in Providers, NEW bag \in Bags, RegisterClient(c, p, bag)
      PROVE  CInv'
  <2>1. ListsOwned'
    BY <1>0, <1>4 DEF RegisterClient, ListsOwned, TypeOK
  <2>2. ASSUME NEW m \in Models
        PROVE  Counts(models'[m], Cardinality(References(clientModels', m, Clients)),
                      PerProvider(clientModels', clientProviders', m))
    <3>1. PICK n \in Nat : n = Cardinality(References(clientModels, m, Clients))
      BY OwnedCounted
    <3>2. PICK k \in [Providers -> Nat] : k = PerProvider(clientModels, clientProviders, m)
      BY OwnedCounted
    <3>3. PICK old \in Nat : old = clientModels[c][m]
      BY OwnedCounted
    <3>4. /\ Counts(models[m], n, k) /\ old <= n /\ \A q \in Providers : k[q] <= n
          /\ clientProviders[c] \in Providers => old <= k[clientProviders[c]]
      BY <3>1, <3>2, <3>3, OwnedCounted
    <3>5. PICK new \in Nat : new = bag[m]
      BY DEF Bags
    <3>6. models[m] \in Registration \cup {None}
      BY <1>0 DEF TypeOK
    <3>7. Counts(models'[m], n - old + new, Rebooked(k, clientProviders[c], p, old, new))
      <4>1. CASE RegisterNew(c, p, bag)
        <5>1. old = 0
          BY <3>3, <4>1 DEF RegisterNew, NoModels
        <5>2. models'[m] = Added(models[m], p, new)
          BY <3>5, <4>1 DEF RegisterNew
        <5>3. Counts(Added(models[m], p, new), n + new, [k EXCEPT ![p] = @ + new])
          BY <3>4, <3>6, AddedCounts
        <5>4. n + new = n - old + new
          BY <5>1
        <5>5. \A q \in Providers : [k EXCEPT ![p] = @ + new][q] = Rebooked(k, clientProviders[c], p, old, new)[q]
          BY <5>1 DEF Rebooked
        <5> QED
          BY <5>2, <5>3, <5>4, <5>5 DEF Counts
      <4>2. CASE RegisterAgain(c, p, bag)
        <5>1. clientProviders[c] \in Providers
          BY <1>0, <4>2 DEF RegisterAgain, ListsOwned
        <5>2. models'[m] = Reconciled(models[m], c, p, old, new)
          BY <3>3, <3>5, <4>2 DEF RegisterAgain
        <5>3. old <= k[clientProviders[c]] /\ Counts(models[m], n, k) /\ \A q \in Providers : k[q] <= n
          BY <3>4, <5>1
        <5> QED
          BY <3>6, <5>1, <5>2, <5>3, ReconciledCounts
      <4> QED
        BY <1>4, <4>1, <4>2 DEF RegisterClient
    <3>8. /\ clientModels' = [clientModels EXCEPT ![c] = bag]
          /\ clientProviders' = [clientProviders EXCEPT ![c] = p]
      BY <1>4 DEF RegisterClient
    <3>9. TypeOK /\ p \in Providers \cup {None}
      BY <1>0
    <3> QED
      BY <3>1, <3>2, <3>3, <3>5, <3>7, <3>8, <3>9, ListReplaced
  <2>3. CountsHold'
    BY <2>2 DEF CountsHold
  <2> QED
    BY <1>2, <2>1, <2>3
<1>5. ASSUME NEW r \in Requests, ReportQuota(r) PROVE CInv'
  <2>1. /\ req[r].client \in Clients /\ req[r].model \in Models
        /\ UNCHANGED <<clientModels, clientProviders>>
        /\ \E t \in Times \cup {None} : QuotaMark(req[r].client, req[r].model, t)
    BY <1>0, <1>5 DEF ReportQuota, At, TypeOK, Requesting
  <2> QED
    BY <1>0, <1>1, <2>1, MarkKeeps DEF QuotaMark
<1>6. ASSUME NEW r \in Requests, ReportSuspension(r) PROVE CInv'
  <2>1. /\ req[r].client \in Clients /\ req[r].model \in Models
        /\ UNCHANGED <<clientModels, clientProviders>>
    BY <1>0, <1>6 DEF ReportSuspension, At, TypeOK, Requesting
  <2>2. \/ UNCHANGED models
        \/ /\ models[req[r].model] # None
           /\ \E s \in {"no", "quota", "other"} : models' = [models EXCEPT ![req[r].model].suspended[req[r].client] = s]
    BY <1>6 DEF ReportSuspension, ResumeClientModel, SuspendClientModel
  <2> QED
    BY <1>0, <1>1, <2>1, <2>2, MarkKeeps
<1>7. CASE UNCHANGED registry
  <2>1. CountsKept
    BY <1>7 DEF registry, CountsKept
  <2> QED
    BY <1>1, <2>1
<1> QED
  BY <1>3, <1>4, <1>5, <1>6, <1>7 DEF Next, vars, registry, Tick, Pick, Finish, ListEnter, ListServe

\* The incremental counts always agree with the lists of the clients.
LEMMA CountsInductive == Spec => []CInv
<1>1. ASSUME Init PROVE CInv
  <2>1. TypeOK /\ ListsOwned
    BY <1>1, RegistryAssumption DEF Init, TypeOK, ListsOwned, Times, Bags, NoModels
  <2>2. ASSUME NEW m \in Models, NEW S \in SUBSET Clients
        PROVE  Cardinality(References(clientModels, m, S)) = 0
    <3>1. \A c \in Clients : clientModels[c][m] = 0
      BY <1>1 DEF Init, NoModels
    <3>2. References(clientModels, m, S) = {}
      BY <3>1, RegistryAssumption DEF References
    <3> QED
      BY <3>2, FS_EmptySet
  <2>3. CountsMatch
    BY <1>1, <2>2 DEF Init, CountsMatch
  <2> QED
    BY <2>1, <2>3 DEF CInv
<1>2. CInv /\ [Next]_vars => CInv'
  BY CountsStep
<1> QED
  BY <1>1, <1>2, PTL DEF Spec

\* A model is registered as long as some client provides it, and counts and
\* provider counts are the references the lists hold, whatever registrations,
\* provider changes and repeated names led there.
THEOREM CountsCorrect == Spec => []CountsMatch
<1>1. CInv => CountsMatch
  BY DEF CInv
<1> QED
  BY <1>1, CountsInductive, PTL

------------------------------------------------------------------------------
(* Marks.                                                                   *)

\* Registration h carries the marks of client c that g carries.
SameMarks(g, h, c) == h \in Registration /\ h.quota[c] = g.quota[c] /\ h.suspended[c] = g.suspended[c]

\* Bookkeeping for client d leaves the marks of c, as long as a reference stays.
LEMMA AddedMarks ==
  ASSUME NEW g \in Registration, NEW p \in Providers, NEW n \in Nat, NEW c \in Clients
  PROVE  SameMarks(g, Added(g, p, n), c)
<1> USE RegistryAssumption
<1>1. g # None /\ g.count \in Nat
  BY DEF Registration
<1>2. CASE n = 0
  BY <1>2 DEF Added, SameMarks
<1>3. CASE n > 0
  <2>1. Added(g, p, n) = [g EXCEPT !.count = @ + n, !.providers[p] = @ + n]
    BY <1>1, <1>3 DEF Added
  <2>2. Added(g, p, n) \in Registration
    BY <1>3, AddedType
  <2>3. Added(g, p, n).quota = g.quota /\ Added(g, p, n).suspended = g.suspended
    BY <2>1 DEF Registration
  <2> QED
    BY <2>2, <2>3 DEF SameMarks
<1> QED
  BY <1>2, <1>3

\* Giving up references, but not the last, leaves the marks of others.
LEMMA RemovedMarks ==
  ASSUME NEW g \in Registration, NEW d \in Clients, NEW p \in Providers \cup {None}, NEW n \in Nat,
         n < g.count, NEW c \in Clients, c # d
  PROVE  SameMarks(g, Removed(g, d, p, n), c)
<1> USE RegistryAssumption
<1>1. g # None /\ g.count \in Nat
  BY DEF Registration
<1>2. CASE n = 0
  BY <1>2 DEF Removed, SameMarks
<1>3. CASE n > 0
  <2>1. Removed(g, d, p, n) =
          [g EXCEPT !.count = @ - n, !.providers[p] = Less(@, n),
                    !.quota[d] = None, !.suspended[d] = "no"]
    BY <1>1, <1>3 DEF Removed
  <2>2. Removed(g, d, p, n) \in Registration
    BY <1>1, <1>3, RemovedType
  <2>3. /\ Removed(g, d, p, n).quota = [g.quota EXCEPT ![d] = None]
        /\ Removed(g, d, p, n).suspended = [g.suspended EXCEPT ![d] = "no"]
    BY <2>1 DEF Registration
  <2>4. g.quota \in [Clients -> Times \cup {None}] /\ g.suspended \in [Clients -> {"no", "quota", "other"}]
    BY DEF Registration
  <2> QED
    BY <2>2, <2>3, <2>4 DEF SameMarks
<1> QED
  BY <1>2, <1>3

\* Leaving a provider leaves all marks.
LEMMA LeftMarks ==
  ASSUME NEW g \in Registration, NEW p \in Providers, NEW n \in Nat, NEW c \in Clients
  PROVE  SameMarks(g, Left(g, p, n), c) /\ Left(g, p, n).count = g.count
<1>1. CASE n = 0 \/ g = None
  BY <1>1 DEF Left, SameMarks
<1>2. CASE n # 0 /\ g # None
  <2>1. Left(g, p, n) = [g EXCEPT !.providers[p] = Less(@, n)]
    BY <1>2 DEF Left
  <2>2. Less(g.providers[p], n) \in Nat
    BY LessType DEF Registration
  <2>3. Left(g, p, n) \in Registration
    BY <2>1, <2>2 DEF Registration
  <2>4. /\ Left(g, p, n).quota = g.quota /\ Left(g, p, n).suspended = g.suspended
        /\ Left(g, p, n).count = g.count
    BY <2>1 DEF Registration
  <2> QED
    BY <2>3, <2>4 DEF SameMarks
<1> QED
  BY <1>1, <1>2

\* Registering again leaves the marks of others.
LEMMA RenewedMarks ==
  ASSUME NEW g \in Registration, NEW d \in Clients, NEW p \in Providers, NEW n \in Nat,
         NEW c \in Clients, c # d
  PROVE  SameMarks(g, Renewed(g, d, p, n), c)
<1>1. Renewed(g, d, p, n) \in Registration
  BY RenewedType
<1>2. /\ Renewed(g, d, p, n).quota = [g.quota EXCEPT ![d] = None]
      /\ Renewed(g, d, p, n).suspended = [g.suspended EXCEPT ![d] = "no"]
  BY DEF Renewed, Registration
<1>3. g.quota \in [Clients -> Times \cup {None}] /\ g.suspended \in [Clients -> {"no", "quota", "other"}]
  BY DEF Registration
<1> QED
  BY <1>1, <1>2, <1>3 DEF SameMarks

\* So does a change of the list.
LEMMA ReconciledMarks ==
  ASSUME NEW g \in Registration, NEW d \in Clients, NEW p \in Providers,
         clientProviders[d] \in Providers, NEW old \in Nat, NEW new \in Nat, old < g.count,
         NEW c \in Clients, c # d
  PROVE  SameMarks(g, Reconciled(g, d, p, old, new), c)
<1> USE RegistryAssumption
<1>1. PICK from \in Providers : from = clientProviders[d]
  OBVIOUS
<1>2. PICK s \in Nat : s = Shared(d, p, old, new)
  BY DEF Shared, Lesser
<1>3. PICK x \in Nat : x = Less(old, new) /\ x < g.count
  BY DEF Less, Registration
<1>4. PICK y \in Nat : y = Less(new, old)
  BY LessType
<1>5. PICK left \in Registration : left = Left(g, from, s) /\ SameMarks(g, left, c) /\ x < left.count
  BY <1>3, LeftMarks DEF SameMarks
<1>6. PICK removed \in Registration : removed = Removed(left, d, from, x) /\ SameMarks(left, removed, c)
  BY <1>5, RemovedMarks DEF SameMarks
<1>7. PICK counted \in Registration : counted = Added(removed, p, y) /\ SameMarks(removed, counted, c)
  BY AddedMarks DEF SameMarks
<1>8. SameMarks(counted, Renewed(counted, d, p, s), c)
  BY RenewedMarks
<1>9. Reconciled(g, d, p, old, new) =
        IF new = 0 \/ counted = None THEN counted ELSE Renewed(counted, d, p, s)
  BY <1>1, <1>2, <1>3, <1>4, <1>5, <1>6, <1>7 DEF Reconciled
<1> QED
  BY <1>5, <1>6, <1>7, <1>8, <1>9 DEF SameMarks

\* The references of c are not among those d takes with it.
LEMMA TwoClients ==
  ASSUME CInv, NEW m \in Models, NEW c \in Clients, NEW d \in Clients, c # d,
         clientModels[c][m] > 0, models[m] # None
  PROVE  clientModels[d][m] < models[m].count
<1>1. clientModels \in [Clients -> Bags]
  BY DEF CInv, TypeOK
<1>2. Splits(clientModels, m, Clients, c)
  BY <1>1, OneClient
<1>3. Splits(clientModels, m, Clients \ {c}, d)
  BY <1>1, OneClient
<1>4. models[m].count = Cardinality(References(clientModels, m, Clients))
  BY DEF CInv, CountsMatch
<1>5. clientModels[c][m] \in Nat /\ clientModels[d][m] \in Nat
  BY <1>1, RegistryAssumption DEF Bags
<1> QED
  BY <1>2, <1>3, <1>4, <1>5 DEF Splits

\* A mark left on another client's binding leaves those of c.
LEMMA MarkElsewhere ==
  ASSUME TypeOK, NEW c \in Clients, NEW m \in Models, models[m] \in Registration,
         NEW d \in Clients, NEW k \in Models, d # c, models[k] # None,
         \/ \E t \in Times \cup {None} : models' = [models EXCEPT ![k].quota[d] = t]
         \/ \E s \in {"no", "quota", "other"} : models' = [models EXCEPT ![k].suspended[d] = s]
  PROVE  SameMarks(models[m], models'[m], c)
<1>1. models \in [Models -> Registration \cup {None}]
  BY DEF TypeOK
<1>2. CASE k # m
  BY <1>1, <1>2 DEF SameMarks
<1>3. ASSUME k = m, NEW t \in Times \cup {None}, models' = [models EXCEPT ![k].quota[d] = t]
      PROVE  SameMarks(models[m], models'[m], c)
  <2>1. models'[m] = [models[m] EXCEPT !.quota[d] = t]
    BY <1>1, <1>3
  <2>2. [models[m] EXCEPT !.quota[d] = t] \in Registration
    BY DEF Registration
  <2>3. /\ [models[m] EXCEPT !.quota[d] = t].quota[c] = models[m].quota[c]
        /\ [models[m] EXCEPT !.quota[d] = t].suspended = models[m].suspended
    BY DEF Registration
  <2> QED
    BY <2>1, <2>2, <2>3 DEF SameMarks
<1>4. ASSUME k = m, NEW s \in {"no", "quota", "other"}, models' = [models EXCEPT ![k].suspended[d] = s]
      PROVE  SameMarks(models[m], models'[m], c)
  <2>1. models'[m] = [models[m] EXCEPT !.suspended[d] = s]
    BY <1>1, <1>4
  <2>2. [models[m] EXCEPT !.suspended[d] = s] \in Registration
    BY DEF Registration
  <2>3. /\ [models[m] EXCEPT !.suspended[d] = s].suspended[c] = models[m].suspended[c]
        /\ [models[m] EXCEPT !.suspended[d] = s].quota = models[m].quota
    BY DEF Registration
  <2> QED
    BY <2>1, <2>2, <2>3 DEF SameMarks
<1> QED
  BY <1>2, <1>3, <1>4

\* The mark of c on a model it provides survives every step but its own.
LEMMA MarkSurvives ==
  ASSUME CInv, Next, NEW c \in Clients, NEW m \in Models,
         clientModels[c][m] > 0, Marked(c, m), ~Own(c)
  PROVE  Marked(c, m)'
<1> USE RegistryAssumption
<1>0. TypeOK /\ models[m] \in Registration /\ models[m] # None
  BY DEF CInv, TypeOK, Marked
<1>1. ASSUME SameMarks(models[m], models'[m], c) PROVE Marked(c, m)'
  BY <1>0, <1>1 DEF SameMarks, Marked
<1>2. CASE UNCHANGED models
  BY <1>2 DEF Marked
<1>3. ASSUME NEW d \in Clients, UnregisterClient(d) PROVE Marked(c, m)'
  <2>1. c # d
    BY <1>3 DEF Own
  <2>2. clientModels[d][m] \in Nat /\ clientModels[d][m] < models[m].count
    BY <1>0, <2>1, OwnedCounted, TwoClients
  <2>3. models'[m] = Removed(models[m], d, clientProviders[d], clientModels[d][m])
    BY <1>3 DEF UnregisterClient
  <2>4. clientProviders[d] \in Providers \cup {None}
    BY <1>0 DEF TypeOK
  <2> QED
    BY <1>0, <1>1, <2>1, <2>2, <2>3, <2>4, RemovedMarks
<1>4. ASSUME NEW d \in Clients, NEW p \in Providers, NEW bag \in Bags, RegisterClient(d, p, bag)
      PROVE  Marked(c, m)'
  <2>1. c # d
    BY <1>4 DEF Own
  <2>2. clientModels[d][m] \in Nat /\ clientModels[d][m] < models[m].count /\ bag[m] \in Nat
    BY <1>0, <2>1, OwnedCounted, TwoClients DEF Bags
  <2>3. CASE RegisterNew(d, p, bag)
    <3>1. models'[m] = Added(models[m], p, bag[m])
      BY <2>3 DEF RegisterNew
    <3> QED
      BY <1>0, <1>1, <2>2, <3>1, AddedMarks
  <2>4. CASE RegisterAgain(d, p, bag)
    <3>1. models'[m] = Reconciled(models[m], d, p, clientModels[d][m], bag[m])
      BY <2>4 DEF RegisterAgain
    <3>2. clientProviders[d] \in Providers
      BY <2>4 DEF RegisterAgain, CInv, ListsOwned
    <3> QED
      BY <1>0, <1>1, <2>1, <2>2, <3>1, <3>2, ReconciledMarks
  <2> QED
    BY <1>4, <2>3, <2>4 DEF RegisterClient
<1>5. ASSUME NEW r \in Requests, ReportQuota(r) PROVE Marked(c, m)'
  <2>1. req[r].client # c /\ req[r].client \in Clients /\ req[r].model \in Models
    BY <1>0, <1>5 DEF ReportQuota, At, Own, TypeOK, Requesting
  <2>2. PICK t \in Times \cup {None} : QuotaMark(req[r].client, req[r].model, t)
    BY <1>0, <1>5 DEF ReportQuota, TypeOK
  <2>3. \/ UNCHANGED models
        \/ /\ models[req[r].model] # None
           /\ models' = [models EXCEPT ![req[r].model].quota[req[r].client] = t]
    BY <2>2 DEF QuotaMark
  <2> QED
    BY <1>0, <1>1, <1>2, <2>1, <2>3, MarkElsewhere
<1>6. ASSUME NEW r \in Requests, ReportSuspension(r) PROVE Marked(c, m)'
  <2>1. req[r].client # c /\ req[r].client \in Clients /\ req[r].model \in Models
    BY <1>0, <1>6 DEF ReportSuspension, At, Own, TypeOK, Requesting
  <2>2. \/ UNCHANGED models
        \/ /\ models[req[r].model] # None
           /\ \E s \in {"no", "quota", "other"} :
                models' = [models EXCEPT ![req[r].model].suspended[req[r].client] = s]
    BY <1>6 DEF ReportSuspension, ResumeClientModel, SuspendClientModel
  <2> QED
    BY <1>0, <1>1, <1>2, <2>1, <2>2, MarkElsewhere
<1> QED
  BY <1>2, <1>3, <1>4, <1>5, <1>6 DEF Next, registry, Tick, Pick, Finish, ListEnter, ListServe

\* A quota or suspension mark of a client on a model it keeps providing is only
\* lifted by a result of that client or by its own registration.  The counts
\* are what protects it: were a model dropped while a client still provides it,
\* the marks of that client would go with it.
THEOREM MarksStayOwn == Spec => MarksAreOwn
<1>1. CInv /\ [Next]_vars =>
        [\A c \in Clients, m \in Models :
           clientModels[c][m] > 0 /\ Marked(c, m) /\ ~Marked(c, m)' => Own(c)]_vars
  BY MarkSurvives
<1> QED
  BY <1>1, CountsInductive, PTL DEF Spec, MarksAreOwn
==============================================================================
