---------------------------- MODULE MCSwapStore ----------------------------
(* Small instances of SwapStore: one snapshot size fits the host budget    *)
(* alone and not twice, the other never fits.                              *)
EXTENDS SwapStore
=============================================================================
