---------------------------- MODULE SchedulerPick ----------------------------
(***************************************************************************)
(* How the scheduler chooses among the credentials that are ready           *)
(* (sdk/cliproxy/auth/scheduler.go): priorities, the preference for         *)
(* websockets, turns within a flat view or across virtual parents and their *)
(* children, and turns across the providers of a mixed request, in          *)
(* proportion to how many credentials each has ready.                       *)
(*                                                                         *)
(* One model, its shards built.  Why a credential is blocked is the subject *)
(* of CredentialPool; here it is ready, cooling, due (cooling, its time     *)
(* over), blocked, or not there.  Every step holds the scheduler's mutex.   *)
(***************************************************************************)
EXTENDS Integers, Sequences, FiniteSets, FiniteSetsExt, SequencesExt

CONSTANTS
  Auths,      \* credentials, numbered in the order of their IDs
  ProviderOf, \* their providers
  Parents,    \* virtual parents, numbered in their order; 0 stands for none
  Priorities, \* priorities in use
  Lists,      \* provider lists of mixed requests: two providers or more, none twice
  Codex       \* the provider whose websocket credentials come first for websocket clients

ASSUME SchedulerAssumption ==
  /\ Auths \subseteq Nat /\ IsFiniteSet(Auths)
  /\ Parents \subseteq Nat \ {0} /\ IsFiniteSet(Parents)
  /\ Priorities \subseteq Int /\ IsFiniteSet(Priorities) /\ Priorities # {}
  /\ \A l \in Lists : l \in Seq(Range(l)) /\ Len(l) >= 2 /\ IsInjective(l)

Providers == {ProviderOf[a] : a \in Auths}
Views == {"all", "ws"}

VARIABLES
  strategy, \* authScheduler.strategy: "roundRobin" or "fillFirst"
  entry,    \* scheduledAuth of each credential
  cursors,  \* the cursors of each provider's ready views
  mixed,    \* mixedCursors
  rebuilt,  \* history: changes with every rebuild
  order,    \* the rings as the ready views hold them: flat, parentOrder, children
  start,    \* history: per ring, where its round began
  level,    \* history: per list, the priority of its last pick
  answer    \* what the last step was asked and answered, and the turns it gave

held == <<strategy, entry, cursors, mixed, rebuilt, order, start, level>>
vars == <<held, answer>>

States == {"none", "ready", "cooling", "due", "blocked"}
Absent == [state |-> "none", prio |-> CHOOSE p \in Priorities : TRUE, parent |-> 0, ws |-> FALSE]
NoCursors == [flat |-> 0, parent |-> 0, child |-> [q \in Parents |-> 0]]
Silence == [of |-> {}, ws |-> FALSE, tried |-> {}, got |-> {}, turns |-> {}]
NewShard == [p \in Priorities |-> [v \in Views |-> NoCursors]]

------------------------------------------------------------------------------
(* Ready views.                                                             *)

\* Ready entries of a bucket's view, in the order of their IDs.
Ready(en, p, prio, v) ==
  {a \in Auths : /\ ProviderOf[a] = p /\ en[a].state = "ready" /\ en[a].prio = prio
                 /\ v = "ws" => en[a].ws}

ChildrenOf(en, p, prio, v, q) == {a \in Ready(en, p, prio, v) : en[a].parent = q}

\* Two parents or more, and no entry without one: turns go across parents.
ParentsOf(en, p, prio, v) ==
  LET all == {en[a].parent : a \in Ready(en, p, prio, v)}
  IN IF 0 \in all \/ Cardinality(all) <= 1 THEN {} ELSE all

InOrder(S) ==
  [i \in 1..Cardinality(S) |-> CHOOSE a \in S : Cardinality({b \in S : b < a}) = i - 1]

NormalizeCursor(c, size) == IF size <= 0 THEN 0 ELSE c % size

\* Mutant of Restored: a rebuilt view starts from its beginning.
RestoredNot(c, en, p, prio, v) == NoCursors

\* Mutant of Restored: a cursor is kept beyond the end of a shorter view.
RestoredRaw(c, en, p, prio, v) == c

\* restoreReadyViewCursors: positions are kept, whoever stands there now.
Restored(c, en, p, prio, v) ==
  LET parents == ParentsOf(en, p, prio, v)
  IN [flat |-> NormalizeCursor(c.flat, Cardinality(Ready(en, p, prio, v))),
      parent |-> NormalizeCursor(c.parent, Cardinality(parents)),
      child |-> [q \in Parents |->
        IF q \in parents THEN NormalizeCursor(c.child[q], Cardinality(ChildrenOf(en, p, prio, v, q)))
        ELSE 0]]

\* rebuildIndexesLocked of the shards of providers ps, after entries became en2.
Rebuilt(cs, ps, en, en2) ==
  [p \in Providers |->
    IF p \notin ps THEN cs[p]
    ELSE [prio \in Priorities |-> [v \in Views |->
           IF Ready(en, p, prio, "all") = {} THEN NoCursors
           ELSE Restored(cs[p][prio][v], en2, p, prio, v)]]]

------------------------------------------------------------------------------
(* Rings: whatever takes turns.                                             *)

\* The websocket view is asked for Codex only, whose credentials have no parents.
Rings ==
  {<<"flat", p, prio, "all">> : p \in Providers, prio \in Priorities}
  \cup {<<"flat", Codex, prio, "ws">> : prio \in Priorities}
  \cup {<<"parents", p, prio, "all">> : p \in Providers, prio \in Priorities}
  \cup {<<"child", p, prio, "all", q>> : p \in Providers, prio \in Priorities, q \in Parents}
  \cup {<<"slots", l>> : l \in Lists}

\* segmentEnds: the slots up to and with those of the i-th provider of the list.
SegmentEnd(en, l, prio, i) ==
  Cardinality({a \in Auths : \E k \in 1..i : a \in Ready(en, l[k], prio, "all")})

\* Slots of a mixed request: as many for each provider as it has ready there.
SlotsOf(en, l, prio) ==
  [n \in 1..SegmentEnd(en, l, prio, Len(l)) |->
     LET i == Min({i \in 1..Len(l) : n <= SegmentEnd(en, l, prio, i)})
     IN <<l[i], prio, n - SegmentEnd(en, l, prio, i - 1)>>]

Order(en, lv, r) ==
  CASE r[1] = "flat" -> IF ParentsOf(en, r[2], r[3], r[4]) = {} THEN InOrder(Ready(en, r[2], r[3], r[4]))
                        ELSE <<>>
    [] r[1] = "parents" -> InOrder(ParentsOf(en, r[2], r[3], r[4]))
    [] r[1] = "child" -> IF r[5] \in ParentsOf(en, r[2], r[3], r[4])
                         THEN InOrder(ChildrenOf(en, r[2], r[3], r[4], r[5])) ELSE <<>>
    [] r[1] = "slots" -> SlotsOf(en, r[2], lv[r[2]])

CursorOf(cs, mx, r) ==
  CASE r[1] = "flat" -> cs[r[2]][r[3]][r[4]].flat
    [] r[1] = "parents" -> cs[r[2]][r[3]][r[4]].parent
    [] r[1] = "child" -> cs[r[2]][r[3]][r[4]].child[r[5]]
    [] r[1] = "slots" -> mx[r[2]]

Position(o, cs, mx, r) == NormalizeCursor(CursorOf(cs, mx, r), Len(o[r]))

Orders(en, lv) == [r \in Rings |-> Order(en, lv, r)]

\* A ring that changes, or is rebuilt, begins a round where its cursor stands.
Reordered(o, cs, mx, anew) ==
  /\ order' = o
  /\ start' = [r \in Rings |-> IF anew \/ o[r] # order[r] THEN Position(o, cs, mx, r) ELSE start[r]]

Init ==
  /\ strategy \in {"roundRobin", "fillFirst"}
  /\ entry = [a \in Auths |-> Absent]
  /\ cursors = [p \in Providers |-> NewShard]
  /\ mixed = [l \in Lists |-> 0]
  /\ rebuilt = 0 /\ order = [r \in Rings |-> <<>>]
  /\ start = [r \in Rings |-> 0]
  /\ level = [l \in Lists |-> CHOOSE p \in Priorities : TRUE]
  /\ answer = Silence

------------------------------------------------------------------------------
(* Entries change.                                                          *)

\* upsertEntryLocked and removeEntryLocked: indexes are rebuilt if anything
\* the order depends on has changed.
Upsert(a, e) ==
  LET en == [entry EXCEPT ![a] = e]
      cs == IF e = entry[a] THEN cursors ELSE Rebuilt(cursors, {ProviderOf[a]}, entry, en)
  IN /\ entry' = en /\ cursors' = cs
     /\ Reordered(IF e = entry[a] THEN order ELSE Orders(en, level), cs, mixed, FALSE)
     /\ answer' = Silence
     /\ UNCHANGED <<strategy, mixed, rebuilt, level>>

\* The time of a cooldown passes; nothing is done about it until a pick.
Lapse(a) ==
  /\ entry[a].state = "cooling"
  /\ entry' = [entry EXCEPT ![a].state = "due"] /\ answer' = Silence
  /\ UNCHANGED <<strategy, cursors, mixed, rebuilt, order, start, level>>

\* promoteExpiredLocked, of the shards a pick visits; what is still blocked for
\* another reason, those in again, stays so.
Promoted(ps, again) ==
  [a \in Auths |-> IF ProviderOf[a] \in ps /\ entry[a].state = "due"
                   THEN [entry[a] EXCEPT !.state = IF a \in again THEN "blocked" ELSE "ready"]
                   ELSE entry[a]]

Due(ps) == {a \in Auths : ProviderOf[a] \in ps /\ entry[a].state = "due"}

\* authScheduler.rebuild, from a snapshot of the Manager: every cursor is lost.
Rebuild(again) ==
  LET cs == [p \in Providers |-> NewShard]  mx == [l \in Lists |-> 0]
      en == Promoted(Providers, again)
  IN /\ entry' = en /\ cursors' = cs /\ mixed' = mx /\ rebuilt' = 1 - rebuilt
     /\ Reordered(Orders(en, level), cs, mx, TRUE) /\ answer' = Silence
     /\ UNCHANGED <<strategy, level>>

\* setSelector: the other strategy, mixed cursors from the beginning.
SetSelector ==
  /\ strategy' = IF strategy = "fillFirst" THEN "roundRobin" ELSE "fillFirst"
  /\ mixed' = [l \in Lists |-> 0] /\ rebuilt' = 1 - rebuilt
  /\ Reordered(order, cursors, mixed', TRUE)
  /\ answer' = Silence
  /\ UNCHANGED <<entry, cursors, level>>

------------------------------------------------------------------------------
(* Picks.                                                                   *)

\* highestReadyPriorityLocked: with ws, websocket credentials of any priority
\* come before the others.
Tiers(en, p, ws, able) ==
  LET of(v) == {prio \in Priorities : Ready(en, p, prio, v) \cap able # {}}
  IN IF ws /\ of("ws") # {} THEN of("ws") ELSE of("all")

\* Mutant of ViewAt: the tier is chosen for its websockets, the view is not.
ViewAtAll(en, p, prio, ws, able) == "all"

ViewAt(en, p, prio, ws, able) == IF ws /\ Ready(en, p, prio, "ws") \cap able # {} THEN "ws" ELSE "all"

\* The first place from the cursor on whose member may be picked.
NextIndex(seq, cursor, able) ==
  LET n == Len(seq)
      k == Min({j \in 0..n-1 : seq[((cursor + j) % n) + 1] \in able})
  IN (cursor + k) % n

\* pickGroupedRoundRobin: the parent's turn, then its child's.
Advanced(c, q, i, j) == [c EXCEPT !.parent = i + 1, !.child[q] = j + 1]

\* pickRoundRobin on a view: who is picked, the cursors, the rings served.
PickRoundRobin(en, c, p, prio, v, able) ==
  LET parents == ParentsOf(en, p, prio, v)
      view == Ready(en, p, prio, v)
  IN IF parents = {}
     THEN LET i == NextIndex(InOrder(view), c.flat, able)
              x == InOrder(view)[i + 1]
          IN [got |-> x, cur |-> [c EXCEPT !.flat = i + 1],
              turns |-> {<<<<"flat", p, prio, v>>, x, able \cap view>>}]
     ELSE LET ableParents == {q \in parents : ChildrenOf(en, p, prio, v, q) \cap able # {}}
              i == NextIndex(InOrder(parents), c.parent, ableParents)
              q == InOrder(parents)[i + 1]
              children == ChildrenOf(en, p, prio, v, q)
              j == NextIndex(InOrder(children), c.child[q], able)
              x == InOrder(children)[j + 1]
          IN [got |-> x, cur |-> Advanced(c, q, i, j),
              turns |-> {<<<<"parents", p, prio, v>>, q, ableParents>>,
                         <<<<"child", p, prio, v, q>>, x, able \cap children>>}]

\* pickFirst moves no cursor.
PickFirst(en, c, p, prio, v, able) ==
  [got |-> Min(Ready(en, p, prio, v) \cap able), cur |-> c, turns |-> {}]

PickAt(en, c, p, prio, v, able) ==
  IF strategy = "fillFirst" THEN PickFirst(en, c, p, prio, v, able)
  ELSE PickRoundRobin(en, c, p, prio, v, able)

Answered(ps, ws, tried, pick) ==
  answer' = [of |-> ps, ws |-> ws, tried |-> tried, got |-> {pick.got}, turns |-> pick.turns]

Refused(ps, ws, tried) ==
  /\ answer' = [Silence EXCEPT !.of = ps, !.ws = ws, !.tried = tried]
  /\ UNCHANGED <<mixed, level>>

\* pickSingle, for credentials not tried yet; a pinned one is the only untried.
PickSingle(p, ws, tried, again) ==
  LET en == Promoted({p}, again)
      cs == IF Due({p}) = {} THEN cursors ELSE Rebuilt(cursors, {p}, entry, en)
      able == Auths \ tried
      tiers == Tiers(en, p, ws, able)
  IN /\ entry' = en
     /\ Reordered(IF Due({p}) = {} THEN order ELSE Orders(en, level), cs, mixed, FALSE)
     /\ UNCHANGED <<strategy, rebuilt>>
     /\ IF tiers = {} THEN Refused({p}, ws, tried) /\ cursors' = cs
        ELSE LET prio == Max(tiers)
                 v == ViewAt(en, p, prio, ws, able)
                 pick == PickAt(en, cs[p][prio][v], p, prio, v, able)
             IN /\ cursors' = [cs EXCEPT ![p][prio][v] = pick.cur]
                /\ Answered({p}, ws, tried, pick)
                /\ UNCHANGED <<mixed, level>>

\* The priority the providers of a mixed request are asked for.
BestPriority(en, ps, able) == Max(UNION {Tiers(en, p, FALSE, able) : p \in ps})

\* Mutant of SlotFor: the first provider of the list that has one is asked.
SlotForFirst(slots, cursor, ablePs) == Min({i \in 1..Len(slots) : slots[i][1] \in ablePs})

\* The slot the cursor names, or the first one of the next provider that has a
\* credential to pick.
SlotFor(slots, cursor, ablePs) == NextIndex([i \in 1..Len(slots) |-> slots[i][1]], cursor, ablePs) + 1

\* pickMixed, for a list of two providers or more.
PickMixed(l, tried, again) ==
  LET ps == Range(l)
      en == Promoted(ps, again)
      cs == IF Due(ps) = {} THEN cursors
            ELSE Rebuilt(cursors, {ProviderOf[a] : a \in Due(ps)}, entry, en)
      able == Auths \ tried
      none == \A p \in ps : Tiers(en, p, FALSE, able) = {}
      prio == BestPriority(en, ps, able)
      lv == IF none \/ strategy = "fillFirst" THEN level ELSE [level EXCEPT ![l] = prio]
      ablePs == {p \in ps : Ready(en, p, prio, "all") \cap able # {}}
  IN /\ entry' = en
     /\ Reordered(IF Due(ps) = {} /\ lv = level THEN order ELSE Orders(en, lv), cs, mixed, FALSE)
     /\ UNCHANGED <<strategy, rebuilt>>
     /\ IF none THEN Refused(ps, FALSE, tried) /\ cursors' = cs
        ELSE LET slots == SlotsOf(en, l, prio)
                 i == SlotFor(slots, mixed[l], ablePs)
                 p == IF strategy = "fillFirst" THEN l[Min({k \in 1..Len(l) : l[k] \in ablePs})]
                      ELSE slots[i][1]
                 pick == PickAt(en, cs[p][prio]["all"], p, prio, "all", able)
                 slot == <<<<"slots", l>>, slots[i], {s \in Range(slots) : s[1] \in ablePs}>>
             IN /\ cursors' = [cs EXCEPT ![p][prio]["all"] = pick.cur]
                /\ level' = lv
                /\ IF strategy = "fillFirst" THEN Answered(ps, FALSE, tried, pick) /\ UNCHANGED mixed
                   ELSE /\ Answered(ps, FALSE, tried, [pick EXCEPT !.turns = @ \cup {slot}])
                        /\ mixed' = [mixed EXCEPT ![l] = i]

------------------------------------------------------------------------------

Entries ==
  {[state |-> st, prio |-> prio, parent |-> q, ws |-> w] :
     st \in {"ready", "cooling", "blocked"}, prio \in Priorities, q \in Parents \cup {0}, w \in BOOLEAN}

\* Only those matter to a pick as tried before that it could choose now.
Known(ps) == {a \in Auths : ProviderOf[a] \in ps /\ entry[a].state \in {"ready", "due"}}

Picks ==
  \/ \E p \in Providers, ws \in BOOLEAN :
       \E tried \in SUBSET Known({p}), again \in SUBSET Due({p}) :
         (ws => p = Codex) /\ PickSingle(p, ws, tried, again)
  \/ \E l \in Lists :
       \E tried \in SUBSET Known(Range(l)), again \in SUBSET Due(Range(l)) :
         PickMixed(l, tried, again)

Next ==
  \/ \E a \in Auths : Lapse(a) \/ \E e \in Entries \cup {Absent} : Upsert(a, e)
  \/ \E again \in SUBSET Due(Providers) : Rebuild(again)
  \/ SetSelector
  \/ Picks

Spec == Init /\ [][Next]_vars

------------------------------------------------------------------------------
(* Properties.                                                              *)

\* No cursor points further than one past the end of what it turns through.
CursorOK(c, p, prio, v) ==
  /\ c.flat \in 0..Cardinality(Ready(entry, p, prio, v))
  /\ c.parent \in 0..Cardinality(ParentsOf(entry, p, prio, v))
  /\ \A q \in Parents : c.child[q] \in 0..Cardinality(ChildrenOf(entry, p, prio, v, q))

\* Types of the scheduler's state; cursors lie within the ready views they belong
\* to, also after a rebuild that shortens them.
TypeOK ==
  /\ strategy \in {"roundRobin", "fillFirst"}
  /\ entry \in [Auths -> [state: States, prio: Priorities, parent: Parents \cup {0}, ws: BOOLEAN]]
  /\ \A p \in Providers, prio \in Priorities, v \in Views : CursorOK(cursors[p][prio][v], p, prio, v)
  /\ mixed \in [Lists -> 0..Cardinality(Auths)]
  /\ \A r \in Rings : Len(order[r]) <= Cardinality(Auths)
  /\ start \in [Rings -> 0..Cardinality(Auths)]
  /\ level \in [Lists -> Priorities]

Allowed(en, ps, tried) == {a \in Auths \ tried : ProviderOf[a] \in ps /\ en[a].state = "ready"}

\* e comes before f for a request: a websocket where one is wanted, then priority.
Before(e, f, ws) == IF ws /\ e.ws # f.ws THEN e.ws ELSE e.prio > f.prio

\* A pick is refused only when no credential that may be picked is ready, those
\* whose cooldown has just ended included, and never passes over a better one,
\* whichever providers, shards and cursors it goes through.
BestPicked ==
  [][answer'.of # {} =>
       LET ready == Allowed(entry', answer'.of, answer'.tried)
       IN /\ \A a \in Auths : ProviderOf[a] \in answer'.of => entry'[a].state # "due"
          /\ IF ready = {} THEN answer'.got = {}
             ELSE \E x \in ready : answer'.got = {x} /\ \A y \in ready : ~Before(entry'[y], entry'[x], answer'.ws)]_vars

Ring == [r \in Rings |-> Range(order[r])]

\* Members between the start of the round and the cursor.
Had ==
  [r \in Rings |->
    LET n == Len(order[r])
        gone == IF n = 0 THEN 0 ELSE (Position(order, cursors, mixed, r) - start[r]) % n
    IN {order[r][((start[r] + i) % n) + 1] : i \in 0..(gone - 1)}]

Served ==
  [r \in Rings |->
    IF \E t \in answer.turns : t[1] = r
    THEN LET t == CHOOSE t \in answer.turns : t[1] = r IN [who |-> {t[2]}, able |-> t[3]]
    ELSE [who |-> {}, able |-> {}]]

Turns == INSTANCE Rotation WITH ring <- Ring, had <- Had, served <- Served

\* Every cursor implements turns (Rotation): among the credentials of a view,
\* the virtual parents, the children of one and the slots of a mixed request,
\* nobody is served twice in a round, whatever was tried before, and indexes
\* rebuilt for other credentials do not disturb it.
TakesTurns == Turns!Spec
=============================================================================
