------------------------ MODULE MC_CredentialPool ------------------------
(* Instances of CredentialPool for TLC.  The goroutines of Procs are too    *)
(* many to run all at once: a behaviour has the update consumer and one of  *)
(* three teams beside it, each with the results and bounds it is about.     *)
EXTENDS CredentialPool, TLC

VARIABLE team  \* the goroutines that run, the results they meet, the bounds

\* nextQuotaCooldown with base 1 and cap 2: the first level that reaches the
\* cap is the last.
MCCooldown == [l \in 0..MaxLevel |-> IF l = 0 THEN 1 ELSE 2]

Teams ==
  {[procs |-> Reqs, answers |-> {"ok", "long", "quota"}, bound |-> 2]} \cup
  {[procs |-> {r} \cup Refreshers, answers |-> ResultKinds \ {"quota", "transient"}, bound |-> 1]
     : r \in Reqs} \cup
  {[procs |-> {r} \cup Catalogs, answers |-> {"ok", "transient", "quota"}, bound |-> 1] : r \in Reqs}

MCInit == Init /\ team \in Teams

MCRequestNext(r) ==
  \/ \E m \in Models, tried \in SUBSET Auths : FirstPick(r, m, tried)
  \/ Snapshot(r)
  \/ Rebuild(r)
  \/ \E tried \in SUBSET Auths : SecondPick(r, tried)
  \/ \E out \in team.answers : MarkResult(r, out) /\ auths[target[r]].results < team.bound
  \/ Cancelled(r)
  \/ PublishResult(r)

MCNext ==
  /\ \/ now < team.bound /\ Tick
     \/ \E r \in Reqs \cap team.procs : MCRequestNext(r)
     \/ \E w \in Refreshers \cap team.procs : RefreshNext(w)
     \/ ApplyNext
     \/ \E c \in Catalogs \cap team.procs : CatalogNext(c)
     \/ \E p \in {Applier} \cup (Catalogs \cap team.procs) : BindNext(p)
  /\ UNCHANGED team

MCSpec == MCInit /\ [][MCNext]_<<vars, team>>

MCSymmetry == Permutations(Reqs)
=============================================================================
