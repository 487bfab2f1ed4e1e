---------------------------- MODULE MCSmapDriver ----------------------------
(***************************************************************************)
(* SmapDriver for TLC.  The ring has two descriptors and sixteen bytes, so *)
(* that three packets fill the ring, and two long ones the FIFO.           *)
(***************************************************************************)
EXTENDS SmapDriver

\* Traffic: the third packet finds the ring and the FIFO full.
Three == <<4, 12, 7>>

\* The shortest behaviours in which a packet waits for another.
Two == <<12, 7>>

\* Progress: one packet that sleeps in its DMA transfer.
One == <<12>>
=============================================================================
