--------------------------- MODULE MC_CodexSession ---------------------------
(* Instances of CodexSession for TLC.  Credentials are alike: the first      *)
(* attempt uses a fixed one, and a later one another if nothing is pinned.   *)
(* A client does not leave between the steps of a removal, nor is a          *)
(* credential removed once it has left, nor one of a session on which a turn *)
(* was given up amid its answer.                                             *)
EXTENDS CodexSession

First == CHOOSE x \in Auths : TRUE

MCNext ==
  /\ \/ (\E x \in Auths : BeginTurn(x)) \/ Handler \/ Disconnected
     \/ removal.at \in {"idle", "done"} /\ ClientLeaves
     \/ \E a \in Attempts : Execute(a)
     \/ \E c \in Conns : ReadLoop(c)
     \/ open /\ (\E x \in Auths : RemoveMatch(x))
     \/ RemoveDelete \/ RemoveClose
  /\ Live
  /\ removal'.at = "idle" \/ deserted' = {}
  /\ att'[1].auth \in {None, First}
  /\ client'.turnPin = None => \A a \in NewAttempt \ {1} : att'[a].auth # First

MCSpec == Init /\ [][MCNext]_vars /\ Fairness
=============================================================================
