----------------------------- MODULE MCGatewayConfig -----------------------------
(***************************************************************************)
(* Four writes of the two files, good and bad, around one gateway process  *)
(* that starts, crashes, starts again, polls, listens and is told to       *)
(* reload, with and without a Redis cluster.                               *)
(***************************************************************************)
EXTENDS GatewayConfig
=============================================================================
