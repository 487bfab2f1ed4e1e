----------------------------- MODULE MCSmapLinux -----------------------------
(***************************************************************************)
(* SmapLinux for TLC.  Packets of eight, eight, four and four bytes of     *)
(* FIFO, in a FIFO of twelve: the second waits for the first, the last     *)
(* ones may fit where it does not, the FIFO wraps and can be full.  Three  *)
(* descriptors: the ring wraps, and can be full, sent and not taken back.  *)
(* The request queue has one entry, so both threads may wait for it.       *)
(***************************************************************************)
EXTENDS SmapLinux

CONSTANTS t1, t2
TwoThreads == {t1, t2}
Four == <<8, 5, 4, 4>>
=============================================================================
