---------------------------- MODULE ModelRegistry ----------------------------
(***************************************************************************)
(* The global model registry, internal/registry/model_registry.go: which   *)
(* clients (credentials) provide which models, the reference counts derived *)
(* from that, the quota and suspension marks request results leave on a    *)
(* (client, model) binding, and the cached model list of one handler.      *)
(*                                                                         *)
(* Every method runs under r.mutex and is one action.  What interleaves is *)
(* its callers: MarkResult makes two registry calls one after the other    *)
(* with no lock over both, long after the request picked its client; the   *)
(* service registers and unregisters clients meanwhile; a lister reads the *)
(* clock before it takes the mutex.                                        *)
(*                                                                         *)
(* A registered list of models is a bag: names may repeat after aliasing.  *)
(* The handler lists are independent of each other, so one is kept.        *)
(***************************************************************************)
EXTENDS Integers, FiniteSets

CONSTANTS
  Clients,     \* client IDs
  Models,      \* model IDs
  Providers,   \* provider identifiers; the service never registers an empty one
  Requests,    \* goroutines that run MarkResult
  Listers,     \* goroutines that run GetAvailableModels
  Kinds,       \* the kinds of result the requests end with
  Window,      \* modelQuotaExceededWindow
  MaxDup,      \* how often one list may name a model
  MaxTime,     \* bound on the clock
  None         \* no value: no registration, provider, mark, cache or clock reading

\* What MarkResult tells the registry: success, a 429, another failure that
\* suspends the model, a failure that leaves the registry alone.
ResultKinds == {"ok", "quota", "other", "silent"}

Times == 0..MaxTime
Bags == [Models -> 0..MaxDup]
NoModels == [m \in Models |-> 0]

\* ModelRegistration: Count, Providers, QuotaExceededClients, SuspendedClients.
Registration == [count: Nat, providers: [Providers -> Nat],
                 quota: [Clients -> Times \cup {None}],
                 suspended: [Clients -> {"no", "quota", "other"}]]

ASSUME RegistryAssumption ==
  /\ Window \in Nat \ {0} /\ MaxDup \in Nat \ {0} /\ MaxTime \in Nat
  /\ None \notin Nat \cup Providers \cup Registration
  /\ Kinds \subseteq ResultKinds
  /\ IsFiniteSet(Clients)

VARIABLES
  now,             \* the clock
  models,          \* r.models: a Registration, or None
  clientModels,    \* r.clientModels: NoModels when the client is absent
  clientProviders, \* r.clientProviders
  cache,           \* availableModelsCache of the handler
  req,             \* per request: the binding it uses, how far it is, its result; or None
  at               \* per lister: the clock it read on entry, or None

registry == <<models, clientModels, clientProviders>>
vars == <<now, models, clientModels, clientProviders, cache, req, at>>

Requesting == [client: Clients, model: Models,
               pc: {"running", "marks", "suspension"}, kind: ResultKinds]

Cached == [models: SUBSET Models, expires: Nat \cup {None}]

Init ==
  /\ now = 0
  /\ models = [m \in Models |-> None]
  /\ clientModels = [c \in Clients |-> NoModels]
  /\ clientProviders = [c \in Clients |-> None]
  /\ cache = None
  /\ req = [r \in Requests |-> None]
  /\ at = [l \in Listers |-> None]

------------------------------------------------------------------------------
(* Reference counts.                                                        *)

Less(a, b) == IF a > b THEN a - b ELSE 0
Lesser(a, b) == IF a < b THEN a ELSE b

\* n calls of addModelRegistration for provider p.
Added(g, p, n) ==
  CASE n = 0 -> g
    [] n > 0 /\ g = None ->
         [count |-> n, providers |-> [q \in Providers |-> IF q = p THEN n ELSE 0],
          quota |-> [c \in Clients |-> None], suspended |-> [c \in Clients |-> "no"]]
    [] OTHER -> [g EXCEPT !.count = @ + n, !.providers[p] = @ + n]

\* Mutant of Removed: the registration goes one reference early.
RemovedEarly(g, c, p, n) ==
  CASE n = 0 \/ g = None -> g
    [] n > 0 /\ g # None /\ g.count <= n + 1 -> None
    [] OTHER -> [g EXCEPT !.count = @ - n, !.providers[p] = Less(@, n),
                          !.quota[c] = None, !.suspended[c] = "no"]

\* n calls of removeModelRegistration, or n passes of the loop of
\* unregisterClientInternal: the registration goes with its last reference.
Removed(g, c, p, n) ==
  CASE n = 0 \/ g = None -> g
    [] n > 0 /\ g # None /\ g.count <= n -> None
    [] OTHER -> [g EXCEPT !.count = @ - n, !.providers[p] = Less(@, n),
                          !.quota[c] = None, !.suspended[c] = "no"]

\* References both lists hold when a registered client changes its provider.
Shared(c, p, old, new) == IF clientProviders[c] = p THEN 0 ELSE Lesser(old, new)

\* They leave the old provider ...
Left(g, p, n) == IF n = 0 \/ g = None THEN g ELSE [g EXCEPT !.providers[p] = Less(@, n)]

\* Mutant of Renewed: the shared references never reach the new provider.
RenewedUncounted(g, c, p, n) == [g EXCEPT !.quota[c] = None, !.suspended[c] = "no"]

\* ... and join the new one, when the marks of every listed model are cleared.
Renewed(g, c, p, n) == [g EXCEPT !.quota[c] = None, !.suspended[c] = "no", !.providers[p] = @ + n]

\* RegisterClient for a client that is registered, in between: surplus
\* references are removed and missing ones added.
Reconciled(g, c, p, old, new) ==
  LET from    == clientProviders[c]
      shared  == Shared(c, p, old, new)
      counted == Added(Removed(Left(g, from, shared), c, from, Less(old, new)), p, Less(new, old))
  IN  IF new = 0 \/ counted = None THEN counted ELSE Renewed(counted, c, p, shared)

UnregisterClient(c) ==
  /\ models' = [m \in Models |-> Removed(models[m], c, clientProviders[c], clientModels[c][m])]
  /\ clientModels' = [clientModels EXCEPT ![c] = NoModels]
  /\ clientProviders' = [clientProviders EXCEPT ![c] = None]
  /\ cache' = None
  /\ UNCHANGED <<now, req, at>>

\* The pure addition path: a client the registry does not know.
RegisterNew(c, p, bag) ==
  /\ clientModels[c] = NoModels
  /\ models' = [m \in Models |-> Added(models[m], p, bag[m])]

RegisterAgain(c, p, bag) ==
  /\ clientModels[c] # NoModels
  /\ models' = [m \in Models |-> Reconciled(models[m], c, p, clientModels[c][m], bag[m])]

\* RegisterClient with models; with none it is UnregisterClient.
RegisterClient(c, p, bag) ==
  /\ bag # NoModels
  /\ RegisterNew(c, p, bag) \/ RegisterAgain(c, p, bag)
  /\ clientModels' = [clientModels EXCEPT ![c] = bag]
  /\ clientProviders' = [clientProviders EXCEPT ![c] = p]
  /\ cache' = None
  /\ UNCHANGED <<now, req, at>>

------------------------------------------------------------------------------
(* Marks: the registry calls at the end of MarkResult.                      *)

\* SetModelQuotaExceeded and ClearModelQuotaExceeded: t is the mark to leave.
QuotaMark(c, m, t) ==
  IF models[m] = None THEN UNCHANGED <<models, cache>>
  ELSE /\ models' = [models EXCEPT ![m].quota[c] = t]
       /\ cache' = None

\* SuspendClientModel keeps the reason of a suspension that is there already.
SuspendClientModel(c, m, reason) ==
  IF models[m] = None \/ models[m].suspended[c] # "no" THEN UNCHANGED <<models, cache>>
  ELSE /\ models' = [models EXCEPT ![m].suspended[c] = reason]
       /\ cache' = None

ResumeClientModel(c, m) ==
  IF models[m] = None \/ models[m].suspended[c] = "no" THEN UNCHANGED <<models, cache>>
  ELSE /\ models' = [models EXCEPT ![m].suspended[c] = "no"]
       /\ cache' = None

\* Request r has picked its client and stands at pc.
At(r, pc) == req[r] # None /\ req[r].pc = pc

\* A request picks a client that supports its model.
Pick(r, c, m) ==
  /\ req[r] = None /\ clientModels[c][m] > 0
  /\ req' = [req EXCEPT ![r] = [client |-> c, model |-> m, pc |-> "running", kind |-> "silent"]]
  /\ UNCHANGED <<now, registry, cache, at>>

\* MarkResult released m.mu; what it owes the registry depends on the result.
Finish(r, k) ==
  /\ At(r, "running")
  /\ req' = [req EXCEPT ![r] =
       CASE k = "silent" -> None
         [] k = "other"  -> [@ EXCEPT !.kind = k, !.pc = "suspension"]
         [] OTHER        -> [@ EXCEPT !.kind = k, !.pc = "marks"]]
  /\ UNCHANGED <<now, registry, cache, at>>

\* Mutant: the mark holds the moment of recovery instead of the moment it was set.
ReportRecovery(r) ==
  /\ At(r, "marks")
  /\ QuotaMark(req[r].client, req[r].model, IF req[r].kind = "ok" THEN None ELSE now + Window)
  /\ req' = [req EXCEPT ![r].pc = "suspension"]
  /\ UNCHANGED <<now, clientModels, clientProviders, at>>

\* ClearModelQuotaExceeded after a success, SetModelQuotaExceeded after a 429.
ReportQuota(r) ==
  /\ At(r, "marks")
  /\ QuotaMark(req[r].client, req[r].model, IF req[r].kind = "ok" THEN None ELSE now)
  /\ req' = [req EXCEPT ![r].pc = "suspension"]
  /\ UNCHANGED <<now, clientModels, clientProviders, at>>

\* ResumeClientModel after a success, SuspendClientModel after a failure.
ReportSuspension(r) ==
  /\ At(r, "suspension")
  /\ IF req[r].kind = "ok" THEN ResumeClientModel(req[r].client, req[r].model)
     ELSE SuspendClientModel(req[r].client, req[r].model,
                             IF req[r].kind = "quota" THEN "quota" ELSE "other")
  /\ req' = [req EXCEPT ![r] = None]
  /\ UNCHANGED <<now, clientModels, clientProviders, at>>

------------------------------------------------------------------------------
(* The list of available models.                                            *)

\* Clients of g whose quota mark still holds at time t.
Exhausted(g, t) == {c \in Clients : g.quota[c] # None /\ t < g.quota[c] + Window}
Suspended(g, reason) == {c \in Clients : g.suspended[c] = reason}

Listed(g, t) ==
  LET quota == Cardinality(Exhausted(g, t))
      other == Cardinality(Suspended(g, "other"))
  IN  \/ g.count - quota - other > 0
      \/ /\ g.count > 0 /\ other = 0
         /\ quota > 0 \/ Suspended(g, "quota") # {}

\* buildAvailableModelsLocked: the list, and when its first mark lapses.
Build(t) == {m \in Models : models[m] # None /\ Listed(models[m], t)}

Lapses(t) == UNION {{models[m].quota[c] + Window : c \in Exhausted(models[m], t)} :
                      m \in {n \in Models : models[n] # None}}

\* Mutant: the list expires with the last mark instead of the first.
ExpiryLatest(t) ==
  IF Lapses(t) = {} THEN None
  ELSE CHOOSE x \in Lapses(t) : \A y \in Lapses(t) : y <= x

Expiry(t) ==
  IF Lapses(t) = {} THEN None
  ELSE CHOOSE x \in Lapses(t) : \A y \in Lapses(t) : x <= y

Valid(t) == cache # None /\ (cache.expires = None \/ t < cache.expires)

Answer(t) == IF Valid(t) THEN cache.models ELSE Build(t)

\* GetAvailableModels reads the clock first ...
ListEnter(l) ==
  /\ at[l] = None
  /\ at' = [at EXCEPT ![l] = now]
  /\ UNCHANGED <<now, registry, cache, req>>

\* ... and, under the mutex, serves the cache or builds and stores the list.
\* (The check under RLock that comes before decides nothing the second does not.)
ListServe(l) ==
  /\ at[l] # None
  /\ cache' = IF Valid(at[l]) THEN cache
              ELSE [models |-> Build(at[l]), expires |-> Expiry(at[l])]
  /\ at' = [at EXCEPT ![l] = None]
  /\ UNCHANGED <<now, registry, req>>

Tick ==
  /\ now < MaxTime
  /\ now' = now + 1
  /\ UNCHANGED <<registry, cache, req, at>>

Next ==
  \/ Tick
  \/ \E c \in Clients : UnregisterClient(c) \/ \E p \in Providers, bag \in Bags : RegisterClient(c, p, bag)
  \/ \E r \in Requests :
       \/ \E c \in Clients, m \in Models : Pick(r, c, m)
       \/ \E k \in Kinds : Finish(r, k)
       \/ ReportQuota(r) \/ ReportSuspension(r)
  \/ \E l \in Listers : ListEnter(l) \/ ListServe(l)

Spec == Init /\ [][Next]_vars

------------------------------------------------------------------------------
(* Properties.                                                              *)

\* The shape of the registry, its cache and its callers.
TypeOK ==
  /\ now \in Times
  /\ models \in [Models -> Registration \cup {None}]
  /\ clientModels \in [Clients -> Bags]
  /\ clientProviders \in [Clients -> Providers \cup {None}]
  /\ cache \in Cached \cup {None}
  /\ req \in [Requests -> Requesting \cup {None}]
  /\ at \in [Listers -> Times \cup {None}]

\* The references the clients of S hold on model m when lists are registered:
\* a client holds one each time its list names the model.
References(lists, m, S) == {r \in S \X (1..MaxDup) : r[2] <= lists[r[1]][m]}

\* The clients registered with provider p.
ServedBy(p) == {c \in Clients : clientProviders[c] = p}

\* The incremental counts of RegisterClient and unregisterClientInternal agree
\* with the lists of the clients: a model is registered as long as some client
\* provides it, and counts and provider counts are the references the lists
\* hold, through provider changes, repeated names and re-registrations.
\* GetModelProviders routes requests by these counts.
CountsMatch ==
  \A m \in Models :
    LET refs(S) == Cardinality(References(clientModels, m, S))
    IN  /\ models[m] = None <=> refs(Clients) = 0
        /\ models[m] # None =>
             /\ models[m].count = refs(Clients)
             /\ \A p \in Providers : models[m].providers[p] = refs(ServedBy(p))

\* GetAvailableModels never answers with a stale list: what a lister that read
\* the clock at at[l] would be served is the list built from the registry of
\* this moment, for some instant between its entry and now.  Marks lapse with
\* time alone, so a cached list must expire by itself.
AnswersCurrent ==
  \A l \in Listers : at[l] # None => \E t \in at[l]..now : Answer(at[l]) = Build(t)

\* The quota or suspension mark of a client on a model it keeps providing is
\* lifted by results of that client or by its own registration, never by what
\* happens to the other clients of the model.
Marked(c, m) == models[m] # None /\ (models[m].quota[c] # None \/ models[m].suspended[c] # "no")

Own(c) ==
  \/ UnregisterClient(c) \/ \E p \in Providers, bag \in Bags : RegisterClient(c, p, bag)
  \/ \E r \in Requests : req[r] # None /\ req[r].client = c /\ (ReportQuota(r) \/ ReportSuspension(r))

MarksAreOwn ==
  [][\A c \in Clients, m \in Models :
       clientModels[c][m] > 0 /\ Marked(c, m) /\ ~Marked(c, m)' => Own(c)]_vars

\* The comment on GetAvailableModels: it "returns all models that have at least
\* one available client", here one that is registered for the model and
\* carries no mark.
AvailableListed ==
  \A m \in Models :
    (\E c \in Clients : clientModels[c][m] > 0 /\ ~Marked(c, m)) => m \in Build(now)
==============================================================================
