--------------------------- MODULE MC_AuthWatcher ---------------------------
(* Instances of AuthWatcher for TLC: events without reloads, and reloads     *)
(* with fewer events, the second reload without connections.                 *)
EXTENDS AuthWatcher

VARIABLE team  \* what may happen in this behaviour

Teams == {[changes |-> 4, reloads |-> 0, runtimes |-> Runtimes],
          [changes |-> 2, reloads |-> 1, runtimes |-> Runtimes],
          [changes |-> 2, reloads |-> 2, runtimes |-> {}]}

MCInit == Init /\ team \in Teams

MCNext ==
  /\ Next
  /\ changes' <= team.changes /\ reloads' <= team.reloads /\ runtime' \subseteq team.runtimes
  /\ UNCHANGED team

MCSpec == MCInit /\ [][MCNext]_<<vars, team>> /\ Fairness
=============================================================================
