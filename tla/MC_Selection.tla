---------------------------- MODULE MC_Selection ----------------------------
(* Instances of SchedulerPick for TLC: three credentials at a time, of Codex  *)
(* with or without websockets at two priorities, of one provider under        *)
(* virtual parents, or of two providers.                                      *)
EXTENDS SchedulerPick

VARIABLE team
Teams == {"codex", "gemini", "mixed"}
Members == IF team = "mixed" THEN {1, 2, 4} ELSE {1, 2, 3}

\* Cooldowns end for the gemini team and credential 4; elsewhere a credential
\* that is not ready is blocked.
Unready(a) == IF team = "gemini" \/ a = 4 THEN "cooling" ELSE "blocked"
TeamEntries(a) ==
  {e \in Entries :
     /\ e.state \in {"ready", Unready(a)}
     /\ team = "codex" \/ ~e.ws
     /\ team = "gemini" \/ e.parent = 0
     /\ team = "gemini" \/ (team = "mixed" /\ e.state # "ready") => e.prio = 0}

MCInit == Init /\ team \in Teams /\ (strategy = "fillFirst" => team = "mixed")

MCNext ==
  /\ \/ team = "gemini" /\ Upsert(3, Absent)
     \/ \E a \in Members : Lapse(a) \/ \E e \in TeamEntries(a) : Upsert(a, e)
     \/ \E again \in SUBSET Due(Providers) : Rebuild(again)
     \/ team = "mixed" /\ (SetSelector \/ Picks)
     \/ team # "mixed" /\ \E ws \in {FALSE, team = "codex"} :
          \E tried \in SUBSET Known({1}), again \in SUBSET Due({1}) : PickSingle(1, ws, tried, again)
  /\ UNCHANGED team

MCSpec == MCInit /\ [][MCNext]_<<vars, team>>

\* All but the last answer, which only the action properties see.
MCView == <<held, team>>

MCLists == {<<1, 2>>}
MCProviderOf == [a \in Auths |-> IF a <= 3 THEN 1 ELSE 2]
=============================================================================
