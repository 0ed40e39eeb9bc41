------------------------- MODULE MC_StreamedRequest -------------------------
(* Instances of StreamedRequest for TLC, in three parts of one state space:  *)
(* a stream and a plain request that meet in the Manager; the relay alone,   *)
(* whatever the Manager hands over; and both together, with streams of one   *)
(* payload.                                                                  *)
EXTENDS StreamedRequest

CONSTANTS plain, first, second

VARIABLE part

\* One credential permits another pass, the others do not.
MCRetries == [c \in Creds |-> IF c = CHOOSE d \in Creds : TRUE THEN 1 ELSE 0]

\* One stream tries every credential, the other requests one in each pass.
MCMaxCreds == [r \in Requests |-> IF r = second THEN 0 ELSE 1]

MCCalls == <<first, second>>

\* Handlers that differ in whom they wait for; the relay alone meets the others.
MCInit ==
  /\ StreamedInit /\ part \in {"manager", "relay", "both"}
  /\ part = "both" => front \in {"responses", "completions", "collect"}
  /\ part = "manager" => front = "responses"

\* What has to happen: what Spec and StreamedSpec are fair to.
MCProgress ==
  \/ part = "manager" /\ (Tick \/ \E r \in {plain, second} : Step(r)) /\ UNCHANGED <<relay, part>>
  \/ part = "both" /\ Progress /\ sent' <= 1 /\ UNCHANGED part

MCNext ==
  \/ MCProgress
  \/ part = "manager" /\ (\E r \in {plain, second} : Begin(r) \/ Leave(r)) /\ UNCHANGED <<relay, part>>
  \/ part = "relay" /\ Relay!Next /\ UNCHANGED <<vars, part>>
  \/ part = "both" /\ Relay!ClientLeaves /\ UNCHANGED <<vars, part>>

MCSpec == MCInit /\ [][MCNext]_<<StreamedVars, part>> /\ WF_<<StreamedVars, part>>(MCProgress)
=============================================================================
