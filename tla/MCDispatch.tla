-------------------------------- MODULE MCDispatch --------------------------------
(***************************************************************************)
(* Three strategies on one symbol, two of them of equal priority, a        *)
(* dispatch pass and one worker: who is sent out, and how an execution     *)
(* with or without an exchange account, under AI advice, and under the     *)
(* operator's halt comes to its end.                                       *)
(***************************************************************************)
EXTENDS TradingPipeline, TLC

CONSTANTS s1, s2, s3

OneSymbol       == s1 :> "BTC" @@ s2 :> "BTC" @@ s3 :> "BTC"
TwoOfEqual      == s1 :> 2 @@ s2 :> 2 @@ s3 :> 1
ActiveOrPaused  == {ActiveRow, PausedRow}
=============================================================================
