--------------------------- MODULE MC_WsSession ---------------------------
(* Instances of WsSession for TLC: the peer sends chunks to the requests that  *)
(* do not stream, whose NonStream tells an answer's end in two ways.           *)
EXTENDS WsSession

MCMaxData == [r \in Requests |-> IF r \in Streaming THEN 0 ELSE 1]
=============================================================================
