------------------------------ MODULE Rotation ------------------------------
(***************************************************************************)
(* What taking turns means: the promise behind every cursor of the          *)
(* scheduler, stated without cursors.  Rings are served one member at a     *)
(* time.  In a round nobody is served again while somebody who may be       *)
(* served has not had a turn; a turn is lost only by those who may not be   *)
(* served, and a round starts afresh only when the ring's members change or *)
(* the scheduler is rebuilt.                                                *)
(***************************************************************************)
EXTENDS FiniteSets

CONSTANT Rings

VARIABLES
  ring,    \* members of each ring
  had,     \* members that have had their turn in the current round
  served,  \* per ring, whom the last step served, and whom it might have served
  rebuilt  \* changes with every rebuild

Init ==
  /\ had = [r \in Rings |-> {}]
  /\ served = [r \in Rings |-> [who |-> {}, able |-> {}]]

Same(r) == ring'[r] = ring[r] /\ rebuilt' = rebuilt
Kept(r) == IF Same(r) THEN had[r] ELSE {}

\* The turns of one ring: x is served, those in lost are passed over.
Serve(r, x, lost) ==
  LET able == served'[r].able
      round == IF able \subseteq Kept(r) THEN {} ELSE Kept(r)
      now == round \cup lost \cup {x}
  IN /\ x \in able \ round
     /\ had'[r] = IF now = ring'[r] THEN {} ELSE now

Turn(r) ==
  \/ served'[r].who = {} /\ had'[r] = Kept(r)
  \/ /\ served'[r].able \subseteq ring'[r]
     /\ \E x \in served'[r].able, lost \in SUBSET (ring'[r] \ served'[r].able) :
          served'[r].who = {x} /\ Serve(r, x, lost)

Next == \A r \in Rings : Turn(r)

Spec == Init /\ [][Next]_<<ring, had, served, rebuilt>>
=============================================================================
