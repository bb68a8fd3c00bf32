------------------------- MODULE MCMarketDataReceiver -------------------------
(***************************************************************************)
(* A receiver of three different snapshots.                                *)
(***************************************************************************)
EXTENDS MarketDataReceiver

ThreeValues == {0, 1, 2}
=============================================================================
