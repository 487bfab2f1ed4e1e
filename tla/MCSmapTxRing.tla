---------------------------- MODULE MCSmapTxRing ----------------------------
(***************************************************************************)
(* SmapTxRing for TLC: a ring of four descriptors whose indices wrap at    *)
(* eight, and a FIFO of twenty bytes, so that both the indices and the     *)
(* FIFO wrap within MaxFrames frames; with short frames the ring is full   *)
(* before the FIFO, with long ones the FIFO before the ring.               *)
(***************************************************************************)
EXTENDS SmapTxRing

MCLengths == {1, 5, 8, 15}
=============================================================================
