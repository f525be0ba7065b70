----------------------------- MODULE MCDealScan -----------------------------
(* Small instances of DealScan for TLC.                                      *)
EXTENDS DealScan

Second(l) == 2
=============================================================================
