----------------------------- MODULE SmapTxRing -----------------------------
(***************************************************************************)
(* The transmit ring of the smap driver: the buffer descriptors (BDs) and  *)
(* the circular transmit FIFO that the handler thread shares with the MAC. *)
(*                                                                         *)
(* Two actors work on it.  The handler thread fills a BD at TxBDIndex      *)
(* (HandleTxReqs, xfer.c) and takes completed ones back at TxDNVBDIndex    *)
(* (HandleTxIntr, smap.c).  The MAC, which is hardware, sends the BDs that *)
(* are READY in ring order and clears READY.  What the hardware does is    *)
(* only known from how the driver uses it and is marked external in the    *)
(* map.                                                                    *)
(*                                                                         *)
(* Both indices are unsigned chars that are never reduced: they run modulo *)
(* 2^8 and are reduced modulo the ring size where they are used.           *)
(* Pointers into the FIFO are relative to SMAP_TX_BASE.                    *)
(***************************************************************************)
EXTENDS Integers

CONSTANTS
    SMAP_BD_MAX_ENTRY,  \* descriptors in the ring (64 in the hardware)
    SMAP_TX_BUFSIZE,    \* bytes of transmit FIFO (4096 in the hardware)
    U8,                 \* the number of values of an unsigned char index
    Lengths,            \* lengths a frame may have
    MaxFrames           \* bound: frames submitted in a behaviour

ASSUME RingAssumption ==
    /\ SMAP_BD_MAX_ENTRY \in Nat \ {0}
    /\ SMAP_TX_BUFSIZE \in Nat \ {0}
    /\ U8 \in Nat \ {0}
    /\ SMAP_BD_MAX_ENTRY < U8
    /\ Lengths \subseteq Nat \ {0}
    /\ MaxFrames \in Nat

\* 256 is a multiple of 64: an index that wraps stays on its descriptor.
ASSUME WrapAssumption ==
    U8 % SMAP_BD_MAX_ENTRY = 0

VARIABLES
    txBd,                    \* the descriptors: ready, length, pointer
    TxBDIndex,               \* u8, the next descriptor to fill
    TxDNVBDIndex,            \* u8, the next descriptor to take back
    NumPacketsInTx,          \* u8, descriptors filled and not taken back
    TxBufferSpaceAvailable,  \* FIFO bytes not claimed by a descriptor
    wrPtr,                   \* SMAP_R_TXFIFO_WR_PTR
    fifo,                    \* byte |-> number of the frame written there
    submitted,               \* history: frames submitted so far
    completed,               \* frames the MAC is done with
    reaped,                  \* history: frames taken back so far
    written,                 \* history: bytes ever written to the FIFO
    start                    \* history: slot |-> value of written at its frame

driverVars == <<TxBDIndex, TxDNVBDIndex, NumPacketsInTx,
                TxBufferSpaceAvailable>>
historyVars == <<submitted, reaped, written, start>>
ringVars == <<txBd, wrPtr, fifo, completed, driverVars, historyVars>>

Slots == 0 .. SMAP_BD_MAX_ENTRY - 1
Addresses == 0 .. SMAP_TX_BUFSIZE - 1
NoFrame == -1

\* The descriptor an index, or a frame number, stands for.
Slot(i) == i % SMAP_BD_MAX_ENTRY

\* (length + 3) & ~3: the FIFO is written in 32-bit words.
Rounded(length) == ((length + 3) \div 4) * 4

\* smap_init resets the FIFOs and the descriptors; the indices are zero in
\* the zero-initialised SmapDriverData.
RingInit ==
    /\ txBd = [s \in Slots |-> [ready |-> FALSE, length |-> 0, pointer |-> 0]]
    /\ TxBDIndex = 0
    /\ TxDNVBDIndex = 0
    /\ NumPacketsInTx = 0
    /\ TxBufferSpaceAvailable = SMAP_TX_BUFSIZE
    /\ wrPtr = 0
    /\ fifo = [a \in Addresses |-> NoFrame]
    /\ submitted = 0
    /\ completed = 0
    /\ reaped = 0
    /\ written = 0
    /\ start = [s \in Slots |-> 0]

----------------------------------------------------------------------------
\* Mutant: HandleTxReqs does not look at TxBufferSpaceAvailable.
HasRoomInRing(length) == NumPacketsInTx < SMAP_BD_MAX_ENTRY

\* Mutant: HandleTxReqs does not look at NumPacketsInTx.
HasRoomInFifo(length) == TxBufferSpaceAvailable >= Rounded(length)

\* The two tests of HandleTxReqs: a free descriptor, and FIFO space.
HasRoom(length) ==
    /\ NumPacketsInTx < SMAP_BD_MAX_ENTRY
    /\ TxBufferSpaceAvailable >= Rounded(length)

\* CopyToFIFO: DMA for whole 64-byte blocks, then words through the data
\* register; both advance the write pointer, which wraps.
CopyToFIFO(size) ==
    /\ fifo' = [a \in Addresses |->
                  IF (a - wrPtr) % SMAP_TX_BUFSIZE < size
                  THEN submitted ELSE fifo[a]]
    /\ wrPtr' = (wrPtr + size) % SMAP_TX_BUFSIZE
    /\ written' = written + size

\* Mutant: the write pointer is read after the copy.
SubmitLatePointer(length) ==
    /\ HasRoom(length)
    /\ submitted < MaxFrames
    /\ CopyToFIFO(Rounded(length))
    /\ txBd' = [txBd EXCEPT ![Slot(TxBDIndex)] =
                  [ready |-> TRUE, length |-> length, pointer |-> wrPtr']]
    /\ TxBDIndex' = (TxBDIndex + 1) % U8
    /\ NumPacketsInTx' = NumPacketsInTx + 1
    /\ TxBufferSpaceAvailable' = TxBufferSpaceAvailable - Rounded(length)
    /\ submitted' = submitted + 1
    /\ start' = [start EXCEPT ![Slot(submitted)] = written]
    /\ UNCHANGED <<TxDNVBDIndex, completed, reaped>>

\* One frame of HandleTxReqs that passes both tests.
Submit(length) ==
    /\ HasRoom(length)
    /\ submitted < MaxFrames
    /\ CopyToFIFO(Rounded(length))
    /\ txBd' = [txBd EXCEPT ![Slot(TxBDIndex)] =
                  [ready |-> TRUE, length |-> length, pointer |-> wrPtr]]
    /\ TxBDIndex' = (TxBDIndex + 1) % U8
    /\ NumPacketsInTx' = NumPacketsInTx + 1
    /\ TxBufferSpaceAvailable' = TxBufferSpaceAvailable - Rounded(length)
    /\ submitted' = submitted + 1
    /\ start' = [start EXCEPT ![Slot(submitted)] = written]
    /\ UNCHANGED <<TxDNVBDIndex, completed, reaped>>

\* What Reap does to the driver's counters when it gives back size bytes.
TakeBack(size) ==
    /\ TxBufferSpaceAvailable' = TxBufferSpaceAvailable + size
    /\ TxDNVBDIndex' = (TxDNVBDIndex + 1) % U8
    /\ NumPacketsInTx' = NumPacketsInTx - 1
    /\ reaped' = reaped + 1
    /\ UNCHANGED <<txBd, TxBDIndex, wrPtr, fifo, submitted, completed,
                   written, start>>

\* Mutant: HandleTxIntr does not test READY.
ReapUnsent ==
    LET bd == txBd[Slot(TxDNVBDIndex)] IN
    NumPacketsInTx > 0 /\ TakeBack(Rounded(bd.length))

\* Mutant: HandleTxIntr gives back the length, not the words written.
ReapUnrounded ==
    LET bd == txBd[Slot(TxDNVBDIndex)] IN
    NumPacketsInTx > 0 /\ ~ bd.ready /\ TakeBack(bd.length)

\* One turn of the loop of HandleTxIntr.  The error bits of the descriptor
\* only feed the statistics, and are left out.
Reap ==
    LET bd == txBd[Slot(TxDNVBDIndex)] IN
    /\ NumPacketsInTx > 0
    /\ ~ bd.ready
    /\ TakeBack(Rounded(bd.length))

\* The MAC sends the frame of the next descriptor of the ring, if it is
\* READY, and gives the descriptor back.
MacTransmit ==
    /\ txBd[Slot(completed)].ready
    /\ txBd' = [txBd EXCEPT ![Slot(completed)].ready = FALSE]
    /\ completed' = completed + 1
    /\ UNCHANGED <<driverVars, wrPtr, fifo, historyVars>>

Init == RingInit

Next ==
    \/ \E length \in Lengths : Submit(length)
    \/ Reap
    \/ MacTransmit

Spec == Init /\ [][Next]_ringVars

----------------------------------------------------------------------------
TypeOK ==
    /\ txBd \in [Slots -> [ready : BOOLEAN, length : Nat, pointer : Addresses]]
    /\ TxBDIndex \in 0 .. U8 - 1
    /\ TxDNVBDIndex \in 0 .. U8 - 1
    /\ NumPacketsInTx \in 0 .. SMAP_BD_MAX_ENTRY
    /\ TxBufferSpaceAvailable \in 0 .. SMAP_TX_BUFSIZE
    /\ wrPtr \in Addresses
    /\ fifo \in [Addresses -> Nat \cup {NoFrame}]
    /\ submitted \in Nat
    /\ completed \in Nat
    /\ reaped \in Nat
    /\ written \in Nat
    /\ start \in [Slots -> Nat]

\* The bytes a descriptor covers.
Region(bd) ==
    {(bd.pointer + k) % SMAP_TX_BUFSIZE : k \in 0 .. Rounded(bd.length) - 1}

\* The two u8 indices and the count agree on which frames are in the ring,
\* through every wrap of the indices, and the driver takes back neither a
\* frame twice nor one the MAC still has (TxBDIndex++, TxDNVBDIndex++ and
\* NumPacketsInTx in HandleTxReqs and HandleTxIntr).
IndicesAgree ==
    /\ TxBDIndex = submitted % U8
    /\ TxDNVBDIndex = reaped % U8
    /\ NumPacketsInTx = submitted - reaped
    /\ reaped <= completed
    /\ completed <= submitted

\* The MAC and the driver agree on who owns a descriptor: READY are exactly
\* those of the frames submitted and not yet sent.  A Submit that wrapped
\* onto a descriptor in use would break it.
ReadyExact ==
    \A s \in Slots :
        txBd[s].ready <=> \E n \in completed .. submitted - 1 : s = Slot(n)

\* A frame stays what it was while it is in the ring: no later copy into the
\* circular FIFO touches its bytes, and no later frame takes its descriptor
\* (the space test of HandleTxReqs and the return of space in HandleTxIntr).
FramesIntact ==
    \A n \in reaped .. submitted - 1 :
        \A a \in Region(txBd[Slot(n)]) : fifo[a] = n

Size(n) == Rounded(txBd[Slot(n)].length)

\* The frames in the ring lie one after the other on the stream of bytes
\* written to the FIFO, in the order they were submitted; the write pointer
\* and every descriptor's pointer are positions on that stream modulo the
\* buffer size (SMAP_R_TXFIFO_WR_PTR read in HandleTxReqs).
StreamOrder ==
    /\ wrPtr = written % SMAP_TX_BUFSIZE
    /\ \A n \in reaped .. submitted - 1 :
         /\ txBd[Slot(n)].pointer = start[Slot(n)] % SMAP_TX_BUFSIZE
         /\ start[Slot(n)] + Size(n) =
              IF n + 1 = submitted THEN written ELSE start[Slot(n + 1)]
         /\ start[Slot(n)] + Size(n) <= written
    /\ \A m, n \in reaped .. submitted - 1 :
         m <= n => start[Slot(m)] <= start[Slot(n)]

\* No FIFO space is lost or gained: what is available and what the frames
\* in the ring cover always add up to the buffer.
SpaceConserved ==
    TxBufferSpaceAvailable =
        SMAP_TX_BUFSIZE -
            (IF reaped = submitted THEN 0 ELSE written - start[Slot(reaped)])
=============================================================================
