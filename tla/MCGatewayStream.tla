--------------------------- MODULE MCGatewayStream --------------------------
(***************************************************************************)
(* Two runs of one conversation, the second of which may begin before the  *)
(* stream of the first is finalized, and two connections.  The first       *)
(* answer repeats a token, the second does not.                            *)
(***************************************************************************)
EXTENDS GatewayStream, TLC

CONSTANTS r1, r2, c1, t1, t2

MCConversation == [r \in Runs |-> c1]
MCAnswer == (r1 :> <<t1, t1>>) @@ (r2 :> <<t2, t1>>)

=============================================================================
