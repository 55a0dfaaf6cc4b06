------------------------ MODULE MCLiquidationWorker ------------------------
(***************************************************************************)
(* Two pools, three borrowers and a budget of two entries per run, so a    *)
(* pool takes more than one run to walk and the cursor's saved key is used.*)
(***************************************************************************)
EXTENDS LiquidationWorker

MCAssetPoolIds == <<"DOT", "BTC">>

MCKeyOrder == <<"alice", "bob", "carol">>

=============================================================================
