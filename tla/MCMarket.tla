------------------------------- MODULE MCMarket -------------------------------
(* Small instance of Market for TLC.                                            *)
EXTENDS Market, TLC
=============================================================================
